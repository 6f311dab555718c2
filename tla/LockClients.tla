---------------------------- MODULE LockClients ----------------------------
(***************************************************************************)
(* Threads that acquire and release the locks of NachosLock in any order,  *)
(* and that may set their own priority while they hold none.  No interrupt *)
(* wakes a thread here: an idle machine stays idle.                        *)
(***************************************************************************)
EXTENDS NachosLock, NachosKernel_proofs

CONSTANT Priorities

ASSUME LockClientsAssumption ==
    /\ Priorities \subseteq Nat

VARIABLE ownPriority    \* the priority each thread last gave itself

lockClientVars == <<kernelVars, lockVars, pending, ownPriority>>

(***************************************************************************)
(* Thread::Thread, Lock::Lock and Semaphore::Semaphore.  The constructor   *)
(* leaves originalHolderPriority unset, and Release reads it only after    *)
(* Acquire has set it.                                                     *)
(***************************************************************************)
LockInit ==
    /\ currentThread = MainThread
    /\ readyList = <<>>
    /\ status = [t \in Threads |-> IF t = MainThread THEN "RUNNING" ELSE "JUST_CREATED"]
    /\ priority = [t \in Threads |-> DefaultPriority]
    /\ value = [s \in Semaphores |-> IF s \in Locks THEN 1 ELSE 0]
    /\ queue = [s \in Semaphores |-> <<>>]
    /\ waitingOn = [t \in Threads |-> NoSem]
    /\ ownerThread = [l \in Locks |-> NoThread]
    /\ originalHolderPriority = [l \in Locks |-> DefaultPriority]
    /\ pending = [t \in Threads |-> <<>>]
    /\ ownPriority = priority

-----------------------------------------------------------------------------

ClientFork(t, child) ==
    /\ pending[t] = <<>>
    /\ Fork(t, child)
    /\ UNCHANGED <<lockVars, pending, ownPriority>>

\* A thread may be preempted inside Acquire, after its P().
ClientYield(t) == Yield(t) /\ UNCHANGED <<lockVars, pending, ownPriority>>

SetPriority(t, p) ==
    /\ InOwnCode(t)
    /\ \A l \in Locks : ownerThread[l] # t
    /\ priority' = [priority EXCEPT ![t] = p]
    /\ ownPriority' = [ownPriority EXCEPT ![t] = p]
    /\ UNCHANGED <<cpuVars, semVars, lockVars, pending>>

ClientAcquire(t, l) == Acquire(t, l) /\ UNCHANGED ownPriority

OwnLock(t, l) == FinishAcquire(t, l) /\ UNCHANGED ownPriority

ClientRelease(t, l) ==
    /\ InOwnCode(t)
    /\ Release(t, l)
    /\ UNCHANGED <<pending, ownPriority>>

ClientWokenP(t) == RetryP(t) /\ UNCHANGED <<lockVars, pending, ownPriority>>

LockNext ==
    \/ \E t \in Threads :
        \/ \E child \in Threads : ClientFork(t, child)
        \/ \E p \in Priorities : SetPriority(t, p)
        \/ \E l \in Locks : ClientAcquire(t, l) \/ OwnLock(t, l) \/ ClientRelease(t, l)
        \/ ClientYield(t)
        \/ ClientWokenP(t)

LockSpec == LockInit /\ [][LockNext]_lockClientVars

-----------------------------------------------------------------------------
(* Properties.                                                             *)

LockTypeOK ==
    /\ KernelTypeOK
    /\ ownerThread \in [Locks -> Threads \cup {NoThread}]
    /\ originalHolderPriority \in [Locks -> Nat]
    /\ \A t \in Threads :
        pending[t] = <<>> \/ \E l \in Locks : pending[t] = <<[step |-> "Own", of |-> l]>>
    /\ ownPriority \in [Threads -> Nat]

\* The locks behave as those of MesaMonitor: one passes from thread to thread only
\* through FREE, although Acquire is several steps and its semaphore lets a
\* running thread overtake one that Release has woken.
TheOneIn(S) == IF S = {} THEN NoThread ELSE CHOOSE t \in S : TRUE

HolderOf(l) == TheOneIn(Holders(l))

Abstract == INSTANCE MesaMonitor WITH
    FREE <- NoThread,
    Conditions <- {},
    holder <- [l \in Locks |-> HolderOf(l)],
    waiting <- [c \in {} |-> <<>>]

ImplementsLock == Abstract!Spec

\* A thread that holds no lock has the priority it gave itself: what waiting
\* threads donated to it is gone.
PriorityRestored ==
    \A t \in Threads :
        (\A l \in Locks : ownerThread[l] # t) => priority[t] = ownPriority[t]

-----------------------------------------------------------------------------
(***************************************************************************)
(* What each operation of NachosLock preserves, whatever client calls it:  *)
(* the proofs of conditions, ports and threads rest on these lemmas too.   *)
(* LockSafe is not inductive: a thread woken inside Acquire takes the unit *)
(* of the semaphore it sleeps on, and must then own that very lock.        *)
(***************************************************************************)

Own(l) == [step |-> "Own", of |-> l]

\* The next step of t is step x of its call.
NextIs(t, x) == pending[t] # <<>> /\ Head(pending[t]) = x

\* t is not between the P() of an Acquire and the assignments that follow it.
InNoAcquire(t) == \A l \in Locks : ~NextIs(t, Own(l))

LockType ==
    /\ ownerThread \in [Locks -> Threads \cup {NoThread}]
    /\ originalHolderPriority \in [Locks -> Nat]

\* A thread inside the P() of a lock is inside the Acquire of that lock, and a
\* thread inside another P() is in no Acquire.
WaitersAcquire ==
    \A t \in Threads :
        /\ waitingOn[t] \in Locks => NextIs(t, Own(waitingOn[t]))
        /\ waitingOn[t] \notin Locks \cup {NoSem} => InNoAcquire(t)

LockInv == KernelInv /\ LockType /\ WaitersAcquire /\ LockSafe

\* A state between two calls of everybody.
LEMMA FreshLocks ==
    ASSUME \A t \in Threads : pending[t] = <<>> \/ InNoAcquire(t),
           \A t \in Threads : waitingOn[t] = NoSem,
           \A l \in Locks : value[l] = 1 /\ ownerThread[l] = NoThread
    PROVE  WaitersAcquire /\ LockSafe /\ \A l \in Locks : Holders(l) = {}
<1>1. \A t \in Threads, l \in Locks : ~Acquired(t, l)
  BY DEF Acquired, InNoAcquire, NextIs, Own
<1>2. \A l \in Locks : Holders(l) = {}
  BY <1>1, LockAssumption DEF Holders
<1>3. NoSem \notin Locks
  BY LockAssumption, KernelAssumption
<1> QED
  BY <1>2, <1>3 DEF WaitersAcquire, LockSafe

-----------------------------------------------------------------------------
(* What a step does to the holders: it takes one FREE lock, frees one, or  *)
(* leaves every holder alone.                                              *)

Takes(t, l) ==
    /\ Holders(l) = {} /\ Holders(l)' = {t}
    /\ \A k \in Locks \ {l} : Holders(k)' = Holders(k)

Frees(t, l) ==
    /\ Holders(l) = {t} /\ Holders(l)' = {}
    /\ \A k \in Locks \ {l} : Holders(k)' = Holders(k)

KeepsHolders == \A k \in Locks : Holders(k)' = Holders(k)

\* What LockSafe says of one lock.
OneLockSafe(l) ==
    /\ value[l] \in {0, 1}
    /\ value[l] = 1 => Holders(l) = {}
    /\ \A t, u \in Holders(l) : t = u
    /\ ownerThread[l] # NoThread => ~\E t \in Threads : Acquired(t, l)

LEMMA LockSafeOfEach == LockSafe <=> \A l \in Locks : OneLockSafe(l)
BY DEF LockSafe, OneLockSafe

LEMMA LockSafeOfEachNext == LockSafe' <=> \A l \in Locks : OneLockSafe(l)'
BY DEF LockSafe, OneLockSafe

LEMMA AcquiredIsNext ==
    \A t \in Threads, l \in Locks :
        Acquired(t, l) <=> NextIs(t, Own(l)) /\ waitingOn[t] = NoSem
BY DEF Acquired, NextIs, Own

LEMMA AcquiredIsNextNext ==
    \A t \in Threads, l \in Locks :
        Acquired(t, l)' <=> NextIs(t, Own(l))' /\ waitingOn'[t] = NoSem
BY DEF Acquired, NextIs, Own

LEMMA OwnInjective == \A l, k : Own(l) = Own(k) => l = k
BY DEF Own

LEMMA ShortSequences ==
    /\ \A x : <<x>> # <<>> /\ Head(<<x>>) = x /\ Tail(<<x>>) = <<>>
    /\ \A x, y : <<x, y>> # <<>> /\ Head(<<x, y>>) = x /\ Tail(<<x, y>>) = <<y>>
    /\ \A x : <<x>> \o <<>> = <<x>>
    /\ \A x, y : <<x, y>> \o <<>> = <<x, y>>
OBVIOUS

LEMMA LocksAreSemaphores ==
    /\ \A l \in Locks : l \in Semaphores /\ l # NoSem
    /\ NoThread \notin Threads
BY LockAssumption, KernelAssumption

\* A step that leaves a lock's semaphore, owner and acquirers alone.
LEMMA LockUntouched ==
    ASSUME NEW l \in Locks, OneLockSafe(l),
           value'[l] = value[l], ownerThread'[l] = ownerThread[l],
           \A t \in Threads : Acquired(t, l)' <=> Acquired(t, l)
    PROVE  OneLockSafe(l)' /\ Holders(l)' = Holders(l)
<1>1. Holders(l)' = Holders(l)
  BY DEF Holders
<1> QED
  BY <1>1 DEF OneLockSafe

\* Passing the P() of Acquire, at once or after sleeping.
LEMMA TakeStep ==
    ASSUME LockInv, NEW t \in Threads, NEW l \in Locks,
           TakeUnit(t, l), \A k \in Locks : ~Acquired(t, k), NextIs(t, Own(l))',
           \A u \in Threads \ {t} : pending'[u] = pending[u],
           UNCHANGED ownerThread
    PROVE  WaitersAcquire' /\ LockSafe' /\ Takes(t, l)
<1>1. /\ value[l] # 0 /\ value' = [value EXCEPT ![l] = @ - 1]
      /\ waitingOn' = [waitingOn EXCEPT ![t] = NoSem]
  BY DEF TakeUnit
<1>2. value[l] = 1 /\ Holders(l) = {} /\ value'[l] = 0
  BY <1>1, LocksAreSemaphores DEF LockInv, LockSafe, KernelInv, KernelTypeOK
<1>3. ownerThread[l] = NoThread /\ ownerThread'[l] = NoThread
  BY <1>2 DEF LockInv, LockType, Holders
<1>4. waitingOn'[t] = NoSem /\ \A u \in Threads \ {t} : waitingOn'[u] = waitingOn[u]
  BY <1>1 DEF LockInv, KernelInv, KernelTypeOK
<1>5. ASSUME NEW u \in Threads, NEW k \in Locks
      PROVE  Acquired(u, k)' <=> Acquired(u, k) \/ (u = t /\ k = l)
  <2>1. CASE u = t
    BY <1>4, <2>1, AcquiredIsNextNext, OwnInjective DEF NextIs
  <2>2. CASE u # t
    BY <1>4, <2>2, AcquiredIsNext, AcquiredIsNextNext DEF NextIs
  <2> QED
    BY <2>1, <2>2
<1>6. Holders(l)' = {t}
  BY <1>2, <1>3, <1>5, LocksAreSemaphores DEF Holders
<1>7. OneLockSafe(l)'
  BY <1>2, <1>3, <1>6 DEF OneLockSafe
<1>8. ASSUME NEW k \in Locks \ {l} PROVE OneLockSafe(k)' /\ Holders(k)' = Holders(k)
  <2>1. value'[k] = value[k]
    BY <1>1, LocksAreSemaphores DEF LockInv, KernelInv, KernelTypeOK
  <2> QED
    BY <1>5, <2>1, LockUntouched, LockSafeOfEach DEF LockInv
<1>9. WaitersAcquire'
  BY <1>4, LocksAreSemaphores DEF LockInv, WaitersAcquire, InNoAcquire, NextIs
<1> QED
  BY <1>2, <1>6, <1>7, <1>8, <1>9, LockSafeOfEachNext DEF Takes

\* A step that leaves every lock's semaphore and owner alone, and the acquirers.
LEMMA LocksKept ==
    ASSUME LockInv, UNCHANGED ownerThread, \A l \in Locks : value'[l] = value[l],
           \A u \in Threads, k \in Locks : Acquired(u, k)' <=> Acquired(u, k)
    PROVE  LockSafe' /\ KeepsHolders
<1>1. ASSUME NEW k \in Locks PROVE OneLockSafe(k)' /\ Holders(k)' = Holders(k)
  BY LockUntouched, LockSafeOfEach DEF LockInv
<1> QED
  BY <1>1, LockSafeOfEachNext DEF KeepsHolders

\* Going to sleep in the P() of Acquire.
LEMMA SleepStep ==
    ASSUME LockInv, NEW t \in Threads, NEW l \in Locks,
           EnqueueAndSleep(t, l), \A k \in Locks : ~Acquired(t, k), NextIs(t, Own(l))',
           \A u \in Threads \ {t} : pending'[u] = pending[u],
           UNCHANGED ownerThread
    PROVE  WaitersAcquire' /\ LockSafe' /\ KeepsHolders
<1>1. waitingOn' = [waitingOn EXCEPT ![t] = l] /\ UNCHANGED value
  BY DEF EnqueueAndSleep
<1>2. waitingOn'[t] = l /\ \A u \in Threads \ {t} : waitingOn'[u] = waitingOn[u]
  BY <1>1 DEF LockInv, KernelInv, KernelTypeOK
<1>3. ASSUME NEW u \in Threads, NEW k \in Locks
      PROVE  Acquired(u, k)' <=> Acquired(u, k)
  <2>1. CASE u = t
    BY <1>2, <2>1, AcquiredIsNextNext, LocksAreSemaphores
  <2>2. CASE u # t
    BY <1>2, <2>2, AcquiredIsNext, AcquiredIsNextNext DEF NextIs
  <2> QED
    BY <2>1, <2>2
<1>4. LockSafe' /\ KeepsHolders
  BY <1>1, <1>3, LocksKept
<1>5. WaitersAcquire'
  BY <1>2 DEF LockInv, WaitersAcquire, InNoAcquire, NextIs
<1> QED
  BY <1>4, <1>5

\* A step of a thread that is in no Acquire, neither before nor after it, and
\* that leaves the locks alone.
LEMMA StepOutsideAcquire ==
    ASSUME LockInv, NEW t \in Threads, InNoAcquire(t), InNoAcquire(t)',
           waitingOn'[t] \notin Locks,
           \A u \in Threads \ {t} : pending'[u] = pending[u] /\ waitingOn'[u] = waitingOn[u],
           \A l \in Locks : value'[l] = value[l], UNCHANGED ownerThread
    PROVE  WaitersAcquire' /\ LockSafe' /\ KeepsHolders
<1>1. ASSUME NEW u \in Threads, NEW k \in Locks
      PROVE  Acquired(u, k)' <=> Acquired(u, k)
  <2>1. CASE u = t
    BY <2>1, AcquiredIsNext, AcquiredIsNextNext DEF InNoAcquire
  <2>2. CASE u # t
    BY <2>2, AcquiredIsNext, AcquiredIsNextNext DEF NextIs
  <2> QED
    BY <2>1, <2>2
<1>2. LockSafe' /\ KeepsHolders
  BY <1>1, LocksKept
<1>3. WaitersAcquire'
  BY DEF LockInv, WaitersAcquire, InNoAcquire, NextIs
<1> QED
  BY <1>2, <1>3

-----------------------------------------------------------------------------
(* The operations of the lock.                                             *)

\* The rest of a call, put behind its next step.
LEMMA NextStepOf ==
    ASSUME NEW S, NEW x \in S, NEW rest \in Seq(S)
    PROVE  /\ <<x>> \o rest \in Seq(S)
           /\ <<x>> \o rest # <<>>
           /\ Head(<<x>> \o rest) = x
           /\ Tail(<<x>> \o rest) = rest
<1> DEFINE s == <<x>> \o rest
<1>1. <<x>> \in Seq(S) /\ Len(<<x>>) = 1 /\ <<x>>[1] = x
  OBVIOUS
<1>2. /\ s \in Seq(S) /\ Len(s) = 1 + Len(rest)
      /\ \A i \in 1..1 + Len(rest) : s[i] = IF i <= 1 THEN <<x>>[i] ELSE rest[i - 1]
  BY <1>1, ConcatProperties
<1>3. Len(rest) \in Nat /\ rest \in [1..Len(rest) -> S]
  BY LenProperties
<1> HIDE DEF s
<1>4. s # <<>> /\ s[1] = x
  BY <1>1, <1>2, <1>3
<1>5. Tail(s) \in Seq(S) /\ Len(Tail(s)) = Len(rest)
      /\ \A i \in 1..Len(Tail(s)) : Tail(s)[i] = s[i + 1]
  BY <1>2, <1>3, <1>4, HeadTailProperties
<1>6. ASSUME NEW i \in 1..Len(rest) PROVE Tail(s)[i] = rest[i]
  <2>1. i + 1 \in 1..1 + Len(rest) /\ ~ (i + 1 <= 1) /\ (i + 1) - 1 = i
    BY <1>3
  <2>2. s[i + 1] = rest[(i + 1) - 1]
    BY <1>2, <2>1
  <2> QED
    BY <1>5, <2>1, <2>2
<1>7. Tail(s) \in [1..Len(rest) -> S]
  BY <1>5, LenProperties
<1>8. Tail(s) = rest
  BY <1>3, <1>6, <1>7
<1> QED
  BY <1>2, <1>4, <1>8 DEF s

LEMMA DonatePriorityType ==
    ASSUME KernelInv, LockType, NEW l \in Locks, NEW t \in Threads
    PROVE  DonatePriority(l, priority[t]) \in [Threads -> Nat]
BY DEF DonatePriority, LockType, KernelInv, KernelTypeOK

\* What a P() leaves of the other semaphores and threads.
LEMMA OthersAtP ==
    ASSUME LockInv, NEW t \in Threads, NEW s \in Semaphores, TestValue(t, s)
    PROVE  /\ \A u \in Threads \ {t} : waitingOn'[u] = waitingOn[u]
           /\ \A r \in Semaphores \ {s} : value'[r] = value[r]
           /\ waitingOn'[t] \in {NoSem, s}
BY DEF TestValue, TakeUnit, EnqueueAndSleep, LockInv, KernelInv, KernelTypeOK

\* Lock::Acquire up to the end of its P().
LEMMA StartAcquireInv ==
    ASSUME LockInv, NEW t \in Threads, NEW l \in Locks, NEW S,
           pending \in [Threads -> Seq(S)], Own(l) \in S, NEW rest \in Seq(S),
           IsRunning(t), InNoAcquire(t), StartAcquire(t, l, rest)
    PROVE  /\ LockInv'
           /\ Takes(t, l) \/ (KeepsHolders /\ waitingOn'[t] = l)
           /\ pending' = [pending EXCEPT ![t] = <<Own(l)>> \o rest]
           /\ NextIs(t, Own(l))'
<1>1. /\ priority' = DonatePriority(l, priority[t])
      /\ TakeUnit(t, l) \/ EnqueueAndSleep(t, l)
      /\ pending' = [pending EXCEPT ![t] = <<Own(l)>> \o rest]
      /\ UNCHANGED <<ownerThread, originalHolderPriority>>
  BY DEF StartAcquire, TestValue, Own, lockVars
<1>2. currentThread = t /\ status[t] = "RUNNING" /\ waitingOn[t] = NoSem
  BY DEF IsRunning
<1>3. KernelInv /\ l \in Semaphores /\ priority' \in [Threads -> Nat]
  BY <1>1, DonatePriorityType, LocksAreSemaphores DEF LockInv
<1>4. KernelInv'
  BY <1>1, <1>2, <1>3, TakeUnitInv, EnqueueAndSleepInv
<1>5. LockType'
  BY <1>1 DEF LockInv, LockType
<1>6. \A k \in Locks : ~Acquired(t, k)
  BY AcquiredIsNext DEF InNoAcquire
<1>7. pending'[t] = <<Own(l)>> \o rest /\ \A u \in Threads \ {t} : pending'[u] = pending[u]
  BY <1>1
<1>8. NextIs(t, Own(l))'
  BY <1>7, NextStepOf DEF NextIs
<1>9. CASE TakeUnit(t, l)
  BY <1>1, <1>4, <1>5, <1>6, <1>7, <1>8, <1>9, TakeStep DEF LockInv
<1>10. CASE EnqueueAndSleep(t, l)
  <2>1. waitingOn'[t] = l
    BY <1>3, <1>10 DEF EnqueueAndSleep, KernelInv, KernelTypeOK
  <2> QED
    BY <1>1, <1>4, <1>5, <1>6, <1>7, <1>8, <1>10, <2>1, SleepStep DEF LockInv
<1> QED
  BY <1>1, <1>9, <1>10

\* The two assignments of Lock::Acquire after its P(): the thread that holds the
\* lock becomes its owner.
LEMMA FinishAcquireInv ==
    ASSUME LockInv, NEW t \in Threads, NEW l \in Locks,
           NEW S, pending \in [Threads -> Seq(S)],
           FinishAcquire(t, l), InNoAcquire(t)'
    PROVE  /\ LockInv' /\ KeepsHolders
           /\ Holders(l) = {t} /\ ownerThread'[l] = t
           /\ \A k \in Locks \ {l} : ownerThread'[k] = ownerThread[k]
<1>1. /\ NextIs(t, Own(l)) /\ waitingOn[t] = NoSem
      /\ ownerThread' = [ownerThread EXCEPT ![l] = t]
      /\ originalHolderPriority' = [originalHolderPriority EXCEPT ![l] = priority[t]]
      /\ pending' = [pending EXCEPT ![t] = Tail(pending[t])]
      /\ UNCHANGED <<cpuVars, priority, value, queue, waitingOn>>
  BY DEF FinishAcquire, NextStep, IsRunning, NextIs, Own, Return, kernelVars, semVars
<1>2. priority \in [Threads -> Nat]
  BY DEF LockInv, KernelInv, KernelTypeOK
<1>3. KernelInv'
  BY <1>1, <1>2, KernelStutterInv DEF LockInv, semVars
<1>4. LockType'
  BY <1>1, <1>2 DEF LockInv, LockType
<1>5. Acquired(t, l)
  BY <1>1, AcquiredIsNext
<1>6. OneLockSafe(l)
  BY LockSafeOfEach DEF LockInv
<1>7. Holders(l) = {t} /\ value[l] = 0 /\ ownerThread[l] = NoThread
  BY <1>5, <1>6 DEF OneLockSafe, Holders
<1>8. ownerThread'[l] = t /\ \A k \in Locks \ {l} : ownerThread'[k] = ownerThread[k]
  BY <1>1 DEF LockInv, LockType
<1>9. \A u \in Threads \ {t} : pending'[u] = pending[u]
  BY <1>1
<1>10. ASSUME NEW u \in Threads, NEW k \in Locks
       PROVE  Acquired(u, k)' <=> Acquired(u, k) /\ u # t
  <2>1. CASE u = t
    BY <2>1, AcquiredIsNextNext DEF InNoAcquire
  <2>2. CASE u # t
    BY <1>1, <1>9, <2>2, AcquiredIsNext, AcquiredIsNextNext DEF NextIs
  <2> QED
    BY <2>1, <2>2
<1>11. Holders(l)' = {t} /\ \A u \in Threads : ~Acquired(u, l)'
  BY <1>7, <1>8, <1>10 DEF Holders
<1>12. OneLockSafe(l)'
  BY <1>1, <1>7, <1>11 DEF OneLockSafe
<1>13. ASSUME NEW k \in Locks \ {l} PROVE OneLockSafe(k)' /\ Holders(k)' = Holders(k)
  <2>1. ~Acquired(t, k)
    BY <1>1, AcquiredIsNext, OwnInjective DEF NextIs
  <2>2. \A u \in Threads : Acquired(u, k)' <=> Acquired(u, k)
    BY <1>10, <2>1
  <2> QED
    BY <1>1, <1>8, <2>2, LockUntouched, LockSafeOfEach DEF LockInv
<1>14. WaitersAcquire'
  BY <1>1, <1>9, LocksAreSemaphores DEF LockInv, WaitersAcquire, InNoAcquire, NextIs
<1> QED
  BY <1>3, <1>4, <1>7, <1>8, <1>11, <1>12, <1>13, <1>14, LockSafeOfEachNext
     DEF LockInv, KeepsHolders

\* Lock::Release by the owner.
LEMMA ReleaseInv ==
    ASSUME LockInv, NEW t \in Threads, NEW l \in Locks,
           IsRunning(t), InNoAcquire(t), Release(t, l), InNoAcquire(t)',
           \A u \in Threads \ {t} : pending'[u] = pending[u]
    PROVE  /\ LockInv' /\ Frees(t, l)
           /\ ownerThread'[l] = NoThread
           /\ \A k \in Locks \ {l} : ownerThread'[k] = ownerThread[k]
<1>1. /\ ownerThread[l] = t
      /\ ownerThread' = [ownerThread EXCEPT ![l] = NoThread]
      /\ priority' = [priority EXCEPT ![t] = originalHolderPriority[l]]
      /\ V(l) /\ value' = [value EXCEPT ![l] = @ + 1]
      /\ UNCHANGED <<waitingOn, originalHolderPriority>>
  BY DEF Release, V
<1>2. /\ KernelInv /\ value \in [Semaphores -> Nat] /\ priority' \in [Threads -> Nat]
      /\ ownerThread \in [Locks -> Threads \cup {NoThread}]
  BY <1>1 DEF LockInv, LockType, KernelInv, KernelTypeOK
<1>3. KernelInv'
  BY <1>1, <1>2, VInv, LocksAreSemaphores
<1>4. LockType'
  BY <1>1 DEF LockInv, LockType
<1>5. ownerThread'[l] = NoThread /\ \A k \in Locks \ {l} : ownerThread'[k] = ownerThread[k]
  BY <1>1, <1>2
<1>6. ASSUME NEW u \in Threads, NEW k \in Locks
      PROVE  Acquired(u, k)' <=> Acquired(u, k)
  <2>1. CASE u = t
    BY <2>1, AcquiredIsNext, AcquiredIsNextNext DEF InNoAcquire
  <2>2. CASE u # t
    BY <1>1, <2>2, AcquiredIsNext, AcquiredIsNextNext DEF NextIs
  <2> QED
    BY <2>1, <2>2
<1>7. OneLockSafe(l)
  BY LockSafeOfEach DEF LockInv
<1>8. /\ Holders(l) = {t} /\ value[l] = 0
      /\ \A u \in Threads : ~Acquired(u, l)
  BY <1>1, <1>7, LocksAreSemaphores DEF OneLockSafe, Holders
<1>9. value'[l] = 1 /\ \A k \in Locks \ {l} : value'[k] = value[k]
  BY <1>1, <1>2, <1>8, LocksAreSemaphores
<1>10. Holders(l)' = {}
  BY <1>5, <1>6, <1>8, LocksAreSemaphores DEF Holders
<1>11. OneLockSafe(l)'
  BY <1>5, <1>9, <1>10 DEF OneLockSafe
<1>12. ASSUME NEW k \in Locks \ {l} PROVE OneLockSafe(k)' /\ Holders(k)' = Holders(k)
  BY <1>5, <1>6, <1>9, LockUntouched, LockSafeOfEach DEF LockInv
<1>13. WaitersAcquire'
  <2>1. waitingOn'[t] = NoSem
    BY <1>1 DEF IsRunning
  <2> QED
    BY <1>1, <2>1, LocksAreSemaphores DEF LockInv, WaitersAcquire, InNoAcquire, NextIs
<1> QED
  BY <1>3, <1>4, <1>5, <1>8, <1>10, <1>11, <1>12, <1>13, LockSafeOfEachNext
     DEF LockInv, Frees

-----------------------------------------------------------------------------
(* The operations that are no part of Lock.                                *)

\* A step that changes no lock, no P() and no call.
LEMMA LockStutterInv ==
    ASSUME LockInv, KernelInv',
           UNCHANGED <<value, waitingOn, ownerThread, originalHolderPriority, pending>>
    PROVE  LockInv' /\ KeepsHolders
<1>1. \A u \in Threads, k \in Locks : Acquired(u, k)' <=> Acquired(u, k)
  BY DEF Acquired
<1>2. LockSafe' /\ KeepsHolders
  BY <1>1, LocksKept
<1>3. WaitersAcquire' /\ LockType'
  BY DEF LockInv, LockType, WaitersAcquire, InNoAcquire, NextIs
<1> QED
  BY <1>2, <1>3 DEF LockInv

\* Fork, Yield, and a change of priorities, in the middle of whatever calls.
LEMMA SchedulerLockInv ==
    ASSUME LockInv, UNCHANGED <<lockVars, pending>>,
           \/ \E t, child \in Threads : Fork(t, child)
           \/ \E t \in Threads : Yield(t)
           \/ UNCHANGED <<cpuVars, semVars>> /\ priority' \in [Threads -> Nat]
    PROVE  LockInv' /\ KeepsHolders /\ UNCHANGED <<value, waitingOn>>
<1>1. KernelInv'
  BY ForkInv, YieldInv, KernelStutterInv DEF LockInv
<1>2. UNCHANGED <<value, waitingOn>>
  BY DEF Fork, Yield, semVars
<1> QED
  BY <1>1, <1>2, LockStutterInv DEF lockVars

\* The first test in the P() of a semaphore that is no lock.
LEMMA TestValueLockInv ==
    ASSUME LockInv, NEW t \in Threads, NEW s \in Semaphores \ Locks,
           currentThread = t, status[t] = "RUNNING", waitingOn[t] \in {NoSem, s},
           TestValue(t, s), UNCHANGED <<priority, lockVars>>,
           InNoAcquire(t), InNoAcquire(t)',
           \A u \in Threads \ {t} : pending'[u] = pending[u]
    PROVE  /\ LockInv' /\ KeepsHolders
           /\ \A u \in Threads \ {t} : waitingOn'[u] = waitingOn[u]
           /\ \/ value[s] # 0 /\ value' = [value EXCEPT ![s] = @ - 1] /\ waitingOn'[t] = NoSem
              \/ value[s] = 0 /\ value' = value /\ waitingOn'[t] = s
<1>1. /\ KernelInv /\ waitingOn \in [Threads -> Semaphores \cup {NoSem}]
      /\ value \in [Semaphores -> Nat] /\ priority' \in [Threads -> Nat]
  BY DEF LockInv, KernelInv, KernelTypeOK
<1>2. KernelInv'
  BY <1>1, TakeUnitInv, EnqueueAndSleepInv DEF TestValue
<1>3. LockType'
  BY DEF LockInv, LockType, lockVars
<1>4. /\ \A u \in Threads \ {t} : waitingOn'[u] = waitingOn[u]
      /\ \/ value[s] # 0 /\ value' = [value EXCEPT ![s] = @ - 1] /\ waitingOn'[t] = NoSem
         \/ value[s] = 0 /\ value' = value /\ waitingOn'[t] = s
  BY <1>1 DEF TestValue, TakeUnit, EnqueueAndSleep
<1>5. waitingOn'[t] \notin Locks /\ \A l \in Locks : value'[l] = value[l]
  BY <1>1, <1>4, LocksAreSemaphores
<1> QED
  BY <1>2, <1>3, <1>4, <1>5, StepOutsideAcquire DEF LockInv, lockVars

\* A V() on a semaphore that is no lock, by a thread in no Acquire.
LEMMA VLockInv ==
    ASSUME LockInv, NEW t \in Threads, NEW s \in Semaphores \ Locks,
           IsRunning(t), V(s), UNCHANGED <<priority, lockVars>>,
           InNoAcquire(t), InNoAcquire(t)',
           \A u \in Threads \ {t} : pending'[u] = pending[u]
    PROVE  LockInv' /\ KeepsHolders
<1>1. KernelInv /\ value \in [Semaphores -> Nat] /\ priority' \in [Threads -> Nat]
  BY DEF LockInv, KernelInv, KernelTypeOK
<1>2. KernelInv'
  BY <1>1, VInv
<1>3. LockType'
  BY DEF LockInv, LockType, lockVars
<1>4. /\ value' = [value EXCEPT ![s] = @ + 1] /\ UNCHANGED waitingOn
      /\ waitingOn[t] = NoSem
  BY DEF V, IsRunning
<1>5. waitingOn'[t] \notin Locks /\ \A l \in Locks : value'[l] = value[l]
  BY <1>1, <1>4, LocksAreSemaphores
<1> QED
  BY <1>2, <1>3, <1>4, <1>5, StepOutsideAcquire DEF LockInv, lockVars

\* A step of a call that touches neither the kernel nor a lock.
LEMMA CallLockInv ==
    ASSUME LockInv, NEW t \in Threads, IsRunning(t), UNCHANGED <<kernelVars, lockVars>>,
           InNoAcquire(t), InNoAcquire(t)',
           \A u \in Threads \ {t} : pending'[u] = pending[u]
    PROVE  LockInv' /\ KeepsHolders
<1>1. KernelInv /\ priority' \in [Threads -> Nat]
  BY DEF LockInv, KernelInv, KernelTypeOK, kernelVars
<1>2. KernelInv'
  BY <1>1, KernelStutterInv DEF kernelVars
<1>3. LockType'
  BY DEF LockInv, LockType, lockVars
<1>4. UNCHANGED <<value, waitingOn>> /\ waitingOn[t] = NoSem
  BY DEF kernelVars, semVars, IsRunning
<1> QED
  BY <1>2, <1>3, <1>4, LocksAreSemaphores, StepOutsideAcquire DEF LockInv, lockVars

\* A woken thread tests the value again, in the P() of a lock or another.
LEMMA RetryPLockInv ==
    ASSUME LockInv, NEW t \in Threads, RetryP(t), UNCHANGED <<lockVars, pending>>
    PROVE  /\ LockInv'
           /\ \A u \in Threads \ {t} : waitingOn'[u] = waitingOn[u]
           /\ \/ /\ waitingOn[t] \in Locks
                 /\ Takes(t, waitingOn[t]) \/ (KeepsHolders /\ waitingOn' = waitingOn)
                 /\ \A s \in Semaphores \ Locks : value'[s] = value[s]
              \/ /\ waitingOn[t] \in Semaphores \ Locks /\ KeepsHolders
                 /\ \/ /\ value[waitingOn[t]] # 0 /\ waitingOn'[t] = NoSem
                       /\ value' = [value EXCEPT ![waitingOn[t]] = @ - 1]
                    \/ waitingOn' = waitingOn /\ value' = value
<1>1. waitingOn[t] \in Semaphores
  BY DEF LockInv, KernelInv, KernelTypeOK, RetryP
<1>2. PICK s \in Semaphores : s = waitingOn[t]
  BY <1>1
<1>3. /\ currentThread = t /\ status[t] = "RUNNING" /\ s # NoSem
      /\ TestValue(t, s) /\ UNCHANGED <<priority, ownerThread, originalHolderPriority>>
  BY <1>2 DEF RetryP, lockVars
<1>4. /\ KernelInv /\ waitingOn \in [Threads -> Semaphores \cup {NoSem}]
      /\ value \in [Semaphores -> Nat] /\ priority' \in [Threads -> Nat]
      /\ WaitersAcquire
  BY DEF LockInv, KernelInv, KernelTypeOK, RetryP
<1>5. KernelInv' /\ LockType'
  BY <1>4, PInv DEF LockInv, LockType, lockVars
<1>6. /\ \A u \in Threads \ {t} : waitingOn'[u] = waitingOn[u]
      /\ \/ value[s] # 0 /\ value' = [value EXCEPT ![s] = @ - 1] /\ waitingOn'[t] = NoSem
         \/ value' = value /\ waitingOn' = waitingOn
  BY <1>2, <1>3, <1>4 DEF TestValue, TakeUnit, EnqueueAndSleep
<1>7. CASE s \in Locks
  <2>1. NextIs(t, Own(s)) /\ NextIs(t, Own(s))'
    BY <1>2, <1>4, <1>7 DEF WaitersAcquire, NextIs
  <2>2. \A k \in Locks : ~Acquired(t, k)
    BY <1>2, <1>3, AcquiredIsNext
  <2>3. CASE TakeUnit(t, s)
    <3>1. WaitersAcquire' /\ LockSafe' /\ Takes(t, s)
      BY <1>3, <1>7, <2>1, <2>2, <2>3, TakeStep
    <3>2. \A r \in Semaphores \ Locks : value'[r] = value[r]
      BY <1>4, <1>6, <1>7
    <3> QED
      BY <1>2, <1>5, <1>6, <1>7, <3>1, <3>2 DEF LockInv
  <2>4. CASE EnqueueAndSleep(t, s)
    <3>1. WaitersAcquire' /\ LockSafe' /\ KeepsHolders
      BY <1>3, <1>7, <2>1, <2>2, <2>4, SleepStep
    <3>2. waitingOn' = waitingOn /\ value' = value
      BY <1>2, <1>4, <2>4 DEF EnqueueAndSleep
    <3> QED
      BY <1>2, <1>5, <1>6, <1>7, <3>1, <3>2 DEF LockInv
  <2> QED
    BY <1>3, <2>3, <2>4 DEF TestValue
<1>8. CASE s \notin Locks
  <2>1. InNoAcquire(t) /\ InNoAcquire(t)'
    BY <1>2, <1>3, <1>4, <1>8 DEF WaitersAcquire, InNoAcquire, NextIs
  <2>2. waitingOn'[t] \notin Locks /\ \A l \in Locks : value'[l] = value[l]
    BY <1>2, <1>4, <1>6, <1>8, LocksAreSemaphores
  <2>3. WaitersAcquire' /\ LockSafe' /\ KeepsHolders
    BY <1>3, <1>6, <2>1, <2>2, StepOutsideAcquire
  <2> QED
    BY <1>2, <1>5, <1>6, <1>8, <2>3 DEF LockInv
<1> QED
  BY <1>7, <1>8

\* To the kernel, Acquire is a P() and Release is a V().
LEMMA LockKernelStep ==
    ASSUME NEW t \in Threads, NEW l \in Locks
    PROVE  /\ \A rest : IsRunning(t) /\ StartAcquire(t, l, rest) => KernelStep
           /\ FinishAcquire(t, l) => KernelStep
           /\ Release(t, l) => KernelStep
<1>1. l \in Semaphores
  BY LocksAreSemaphores
<1>2. ASSUME NEW rest, IsRunning(t), StartAcquire(t, l, rest) PROVE KernelStep
  BY <1>1, <1>2 DEF StartAcquire, KernelStep
<1>3. FinishAcquire(t, l) => UNCHANGED <<status, waitingOn>>
  BY DEF FinishAcquire, kernelVars, cpuVars, semVars
<1>4. Release(t, l) => V(l)
  BY DEF Release
<1> QED
  BY <1>2, <1>3, <1>4 DEF KernelStep

-----------------------------------------------------------------------------
(***************************************************************************)
(* Proofs: mutual exclusion of class Lock, the refinement of the lock of   *)
(* synch.h, and priority donation, for any number of threads and locks.    *)
(***************************************************************************)

\* Inside a call there is only the end of an Acquire left.
LockCallType ==
    /\ pending \in [Threads -> {<<>>} \cup {<<Own(l)>> : l \in Locks}]
    /\ ownPriority \in [Threads -> Nat]

LockClientInv == LockInv /\ LockCallType

OwnSteps == {Own(l) : l \in Locks}

LEMMA CallsAreSequences == LockCallType => pending \in [Threads -> Seq(OwnSteps)]
<1>1. \A l \in Locks : Own(l) \in OwnSteps
  BY DEF OwnSteps
<1>2. \A l \in Locks : <<Own(l)>> \in Seq(OwnSteps)
  BY <1>1
<1>3. <<>> \in Seq(OwnSteps)
  OBVIOUS
<1> SUFFICES ASSUME LockCallType PROVE pending \in [Threads -> Seq(OwnSteps)]
  OBVIOUS
<1>4. \A t \in Threads : pending[t] \in Seq(OwnSteps)
  BY <1>2, <1>3 DEF LockCallType
<1> QED
  BY <1>4 DEF LockCallType

LEMMA InitLockClientInv == LockInit => LockClientInv
<1> SUFFICES ASSUME LockInit PROVE LockClientInv
  OBVIOUS
<1>1. LockCallType /\ LockType
  BY KernelAssumption DEF LockInit, LockCallType, LockType
<1>2. KernelInv
  BY KernelAssumption, FreshKernel DEF LockInit
<1>3. WaitersAcquire /\ LockSafe
  BY LocksAreSemaphores, FreshLocks DEF LockInit
<1> QED
  BY <1>1, <1>2, <1>3 DEF LockClientInv, LockInv

-----------------------------------------------------------------------------

\* Every step keeps the invariant, and takes one FREE lock, frees one, or
\* leaves every holder alone.
HolderStep ==
    \/ KeepsHolders
    \/ \E t \in Threads, l \in Locks : Takes(t, l) \/ Frees(t, l)

LEMMA LockClientStep == LockClientInv /\ [LockNext]_lockClientVars => LockClientInv' /\ HolderStep
<1> SUFFICES ASSUME LockClientInv, [LockNext]_lockClientVars PROVE LockClientInv' /\ HolderStep
  OBVIOUS
<1>1. LockInv /\ LockCallType /\ pending \in [Threads -> Seq(OwnSteps)]
  BY CallsAreSequences DEF LockClientInv
<1>2. ASSUME UNCHANGED <<pending, ownPriority>> PROVE LockCallType'
  BY <1>1, <1>2 DEF LockCallType
<1>3. ASSUME NEW t \in Threads, NEW child \in Threads, ClientFork(t, child)
      PROVE  LockClientInv' /\ HolderStep
  BY <1>1, <1>2, <1>3, SchedulerLockInv DEF ClientFork, LockClientInv, HolderStep
<1>4. ASSUME NEW t \in Threads, NEW p \in Priorities, SetPriority(t, p)
      PROVE  LockClientInv' /\ HolderStep
  <2>1. LockCallType' /\ priority' \in [Threads -> Nat]
    BY <1>1, <1>4, LockClientsAssumption
       DEF SetPriority, LockCallType, LockInv, KernelInv, KernelTypeOK
  <2>2. UNCHANGED <<cpuVars, semVars, lockVars, pending>>
    BY <1>4 DEF SetPriority
  <2> QED
    BY <1>1, <2>1, <2>2, SchedulerLockInv DEF LockClientInv, HolderStep
<1>5. ASSUME NEW t \in Threads, NEW l \in Locks, ClientAcquire(t, l)
      PROVE  LockClientInv' /\ HolderStep
  <2>1. /\ IsRunning(t) /\ pending[t] = <<>> /\ StartAcquire(t, l, <<>>)
        /\ UNCHANGED ownPriority
    BY <1>5 DEF ClientAcquire, Acquire, InOwnCode
  <2>2. InNoAcquire(t) /\ Own(l) \in OwnSteps /\ <<>> \in Seq(OwnSteps)
    BY <2>1 DEF InNoAcquire, NextIs, OwnSteps
  <2>3. /\ LockInv'
        /\ Takes(t, l) \/ KeepsHolders
        /\ pending' = [pending EXCEPT ![t] = <<Own(l)>> \o <<>>]
    BY <1>1, <2>1, <2>2, StartAcquireInv
  <2>4. <<Own(l)>> \o <<>> = <<Own(l)>>
    OBVIOUS
  <2>5. LockCallType'
    BY <1>1, <2>1, <2>3, <2>4 DEF LockCallType
  <2> QED
    BY <2>3, <2>5 DEF LockClientInv, HolderStep
<1>6. ASSUME NEW t \in Threads, NEW l \in Locks, OwnLock(t, l)
      PROVE  LockClientInv' /\ HolderStep
  <2>1. /\ FinishAcquire(t, l) /\ pending[t] # <<>>
        /\ pending' = [pending EXCEPT ![t] = Tail(pending[t])]
        /\ UNCHANGED ownPriority
    BY <1>6 DEF OwnLock, FinishAcquire, NextStep, Return
  <2>2. \A k : Tail(<<Own(k)>>) = <<>>
    OBVIOUS
  <2>3. Tail(pending[t]) = <<>>
    BY <1>1, <2>1, <2>2 DEF LockCallType
  <2>4. LockCallType' /\ pending'[t] = <<>>
    BY <1>1, <2>1, <2>3 DEF LockCallType
  <2>5. InNoAcquire(t)'
    BY <2>4 DEF InNoAcquire, NextIs
  <2> QED
    BY <1>1, <2>1, <2>4, <2>5, FinishAcquireInv DEF LockClientInv, HolderStep
<1>7. ASSUME NEW t \in Threads, NEW l \in Locks, ClientRelease(t, l)
      PROVE  LockClientInv' /\ HolderStep
  <2>1. /\ IsRunning(t) /\ pending[t] = <<>> /\ Release(t, l)
        /\ UNCHANGED <<pending, ownPriority>>
    BY <1>7 DEF ClientRelease, InOwnCode
  <2>2. InNoAcquire(t) /\ InNoAcquire(t)'
    BY <2>1 DEF InNoAcquire, NextIs
  <2> QED
    BY <1>1, <1>2, <2>1, <2>2, ReleaseInv DEF LockClientInv, HolderStep
<1>8. ASSUME NEW t \in Threads, ClientYield(t)
      PROVE  LockClientInv' /\ HolderStep
  BY <1>1, <1>2, <1>8, SchedulerLockInv DEF ClientYield, LockClientInv, HolderStep
<1>9. ASSUME NEW t \in Threads, ClientWokenP(t)
      PROVE  LockClientInv' /\ HolderStep
  BY <1>1, <1>2, <1>9, RetryPLockInv DEF ClientWokenP, LockClientInv, HolderStep
<1>10. CASE UNCHANGED lockClientVars
  <2>1. UNCHANGED <<lockVars, pending, ownPriority, cpuVars, semVars>> /\ priority' \in [Threads -> Nat]
    BY <1>1, <1>10 DEF lockClientVars, kernelVars, LockInv, KernelInv, KernelTypeOK
  <2> QED
    BY <1>1, <1>2, <2>1, SchedulerLockInv DEF LockClientInv, HolderStep
<1> QED
  BY <1>3, <1>4, <1>5, <1>6, <1>7, <1>8, <1>9, <1>10 DEF LockNext

LEMMA LockClientInvariant == LockSpec => []LockClientInv
BY InitLockClientInv, LockClientStep, PTL DEF LockSpec

-----------------------------------------------------------------------------
(* The theorems.                                                           *)

\* Mutual exclusion: between the P() of its Acquire and its Release a thread
\* has the lock to itself, for any number of threads and locks.
THEOREM MutualExclusion == LockSpec => []LockSafe
<1>1. LockClientInv => LockSafe
  BY DEF LockClientInv, LockInv
<1> QED
  BY <1>1, LockClientInvariant, PTL

\* The threads and semaphores under the locks stay consistent.
THEOREM KernelStaysConsistent == LockSpec => [](OnePlace /\ ReadyListSorted /\ NoLostWakeup)
<1>1. /\ LockClientInv /\ BlockedWaitsOnSemaphore => OnePlace /\ ReadyListSorted /\ NoLostWakeup
      /\ LockClientInv => KernelInv
  BY OnePlaceParts DEF LockClientInv, LockInv, KernelInv
<1>2. LockInit => BlockedWaitsOnSemaphore
  BY DEF LockInit, BlockedWaitsOnSemaphore
<1>3. [LockNext]_lockClientVars => KernelStep
  BY LockKernelStep
     DEF LockNext, ClientFork, SetPriority, ClientAcquire, Acquire, InOwnCode, OwnLock,
         ClientRelease, ClientYield, ClientWokenP, lockClientVars, kernelVars, cpuVars, semVars, KernelStep
<1>4. LockClientInv /\ BlockedWaitsOnSemaphore /\ [LockNext]_lockClientVars => BlockedWaitsOnSemaphore'
  BY <1>1, <1>3, SleepersWait
<1> QED
  BY <1>1, <1>2, <1>4, LockClientInvariant, PTL DEF LockSpec

\* Class Lock implements the lock that synch.h describes, priority donation
\* and overtaking included.
THEOREM Refinement == LockSpec => ImplementsLock
<1> DEFINE holder == [l \in Locks |-> HolderOf(l)]
           waiting == [c \in {} |-> <<>>]
<1>1. TheOneIn({}) = NoThread /\ \A t : TheOneIn({t}) = t
  BY DEF TheOneIn
<1>2. LockInit => Abstract!Init
  <2> SUFFICES ASSUME LockInit PROVE holder = [l \in Locks |-> NoThread]
    BY DEF Abstract!Init
  <2>1. \A l \in Locks : Holders(l) = {}
    BY LockAssumption DEF LockInit, Holders, Acquired
  <2> QED
    BY <1>1, <2>1 DEF HolderOf
<1>3. LockClientInv /\ [LockNext]_lockClientVars => [Abstract!Next]_<<holder, waiting>>
  <2> SUFFICES ASSUME LockClientInv, [LockNext]_lockClientVars PROVE [Abstract!Next]_<<holder, waiting>>
    OBVIOUS
  <2>1. HolderStep
    BY LockClientStep
  <2>2. CASE KeepsHolders
    <3>1. \A l \in Locks : HolderOf(l)' = HolderOf(l)
      BY <2>2 DEF KeepsHolders, HolderOf
    <3> QED
      BY <3>1
  <2>3. ASSUME NEW t \in Threads, NEW l \in Locks, Takes(t, l)
        PROVE  Abstract!Acquire(t, l)
    <3>1. HolderOf(l) = NoThread /\ HolderOf(l)' = t
      BY <1>1, <2>3 DEF Takes, HolderOf
    <3>2. \A k \in Locks \ {l} : HolderOf(k)' = HolderOf(k)
      BY <2>3 DEF Takes, HolderOf
    <3> QED
      BY <3>1, <3>2 DEF Abstract!Acquire
  <2>4. ASSUME NEW t \in Threads, NEW l \in Locks, Frees(t, l)
        PROVE  Abstract!Release(t, l)
    <3>1. HolderOf(l) = t /\ HolderOf(l)' = NoThread
      BY <1>1, <2>4 DEF Frees, HolderOf
    <3>2. \A k \in Locks \ {l} : HolderOf(k)' = HolderOf(k)
      BY <2>4 DEF Frees, HolderOf
    <3> QED
      BY <3>1, <3>2 DEF Abstract!Release
  <2> QED
    BY <2>1, <2>2, <2>3, <2>4 DEF HolderStep, Abstract!Next
<1> QED
  BY <1>2, <1>3, LockClientInvariant, PTL DEF LockSpec, ImplementsLock, Abstract!Spec

-----------------------------------------------------------------------------
(* Priority donation.                                                      *)

\* A client that holds one lock at a time, as every client of one lock does.
OneLockAtATime ==
    \A t \in Threads : \A k, l \in Locks :
        t \in Holders(k) /\ t \in Holders(l) => k = l

\* What Release restores is the priority the owner gave itself.
SavedPriority ==
    \A l \in Locks : ownerThread[l] # NoThread =>
        originalHolderPriority[l] = ownPriority[ownerThread[l]]

DonationInv == PriorityRestored /\ SavedPriority

LEMMA InitDonationInv == LockInit => DonationInv
BY DEF LockInit, DonationInv, PriorityRestored, SavedPriority

LEMMA NextDonationInv ==
    LockClientInv /\ OneLockAtATime /\ DonationInv /\ [LockNext]_lockClientVars => DonationInv'
<1> SUFFICES ASSUME LockClientInv, OneLockAtATime, DonationInv, [LockNext]_lockClientVars
             PROVE  DonationInv'
  OBVIOUS
<1>1. /\ priority \in [Threads -> Nat] /\ ownPriority \in [Threads -> Nat]
      /\ ownerThread \in [Locks -> Threads \cup {NoThread}]
      /\ originalHolderPriority \in [Locks -> Nat]
      /\ NoThread \notin Threads
  BY LockAssumption DEF LockClientInv, LockCallType, LockInv, LockType, KernelInv, KernelTypeOK
<1> USE DEF DonationInv, PriorityRestored, SavedPriority
<1>2. ASSUME UNCHANGED <<priority, ownPriority, ownerThread, originalHolderPriority>>
      PROVE  DonationInv'
  BY <1>2
<1>3. ASSUME NEW t \in Threads, NEW child \in Threads, ClientFork(t, child)
      PROVE  DonationInv'
  BY <1>2, <1>3 DEF ClientFork, Fork, lockVars
<1>4. ASSUME NEW t \in Threads, NEW p \in Priorities, SetPriority(t, p)
      PROVE  DonationInv'
  BY <1>1, <1>4 DEF SetPriority, lockVars
<1>5. ASSUME NEW t \in Threads, NEW l \in Locks, ClientAcquire(t, l)
      PROVE  DonationInv'
  <2>1. /\ priority' = DonatePriority(l, priority[t])
        /\ UNCHANGED <<ownPriority, ownerThread, originalHolderPriority>>
    BY <1>5 DEF ClientAcquire, Acquire, StartAcquire, lockVars
  <2>2. \A u \in Threads : u # ownerThread[l] => priority'[u] = priority[u]
    BY <1>1, <2>1 DEF DonatePriority
  <2> QED
    BY <2>1, <2>2
<1>6. ASSUME NEW t \in Threads, NEW l \in Locks, OwnLock(t, l)
      PROVE  DonationInv'
  <2>1. /\ Acquired(t, l)
        /\ originalHolderPriority' = [originalHolderPriority EXCEPT ![l] = priority[t]]
        /\ ownerThread' = [ownerThread EXCEPT ![l] = t]
        /\ UNCHANGED <<priority, ownPriority>>
    BY <1>6 DEF OwnLock, FinishAcquire, NextStep, IsRunning, Acquired, kernelVars
  <2>2. ownerThread[l] = NoThread
    BY <2>1 DEF LockClientInv, LockInv, LockSafe
  <2>3. ASSUME NEW k \in Locks PROVE ownerThread[k] # t
    <3>1. ownerThread[k] = t => t \in Holders(k) /\ t \in Holders(l)
      BY <2>1 DEF Holders
    <3> QED
      BY <1>1, <2>2, <3>1 DEF OneLockAtATime
  <2>4. priority[t] = ownPriority[t]
    BY <2>3
  <2>5. /\ ownerThread'[l] = t /\ originalHolderPriority'[l] = priority[t]
        /\ \A k \in Locks \ {l} : /\ ownerThread'[k] = ownerThread[k]
                                  /\ originalHolderPriority'[k] = originalHolderPriority[k]
    BY <1>1, <2>1
  <2>6. ASSUME NEW u \in Threads, \A k \in Locks : ownerThread'[k] # u
        PROVE  \A k \in Locks : ownerThread[k] # u
    BY <1>1, <2>2, <2>5, <2>6
  <2> QED
    BY <2>1, <2>4, <2>5, <2>6
<1>7. ASSUME NEW t \in Threads, NEW l \in Locks, ClientRelease(t, l)
      PROVE  DonationInv'
  <2>1. /\ ownerThread[l] = t
        /\ ownerThread' = [ownerThread EXCEPT ![l] = NoThread]
        /\ priority' = [priority EXCEPT ![t] = originalHolderPriority[l]]
        /\ UNCHANGED <<ownPriority, originalHolderPriority>>
    BY <1>7 DEF ClientRelease, Release
  <2>2. originalHolderPriority[l] = ownPriority[t]
    BY <1>1, <2>1
  <2>3. priority'[t] = ownPriority[t] /\ \A u \in Threads \ {t} : priority'[u] = priority[u]
    BY <1>1, <2>1, <2>2
  <2>4. ownerThread'[l] = NoThread /\ \A k \in Locks \ {l} : ownerThread'[k] = ownerThread[k]
    BY <1>1, <2>1
  <2>5. ASSUME NEW u \in Threads \ {t}, \A k \in Locks : ownerThread'[k] # u
        PROVE  \A k \in Locks : ownerThread[k] # u
    BY <2>1, <2>4, <2>5
  <2> QED
    BY <2>1, <2>3, <2>4, <2>5
<1>8. ASSUME NEW t \in Threads, ClientYield(t) \/ ClientWokenP(t)
      PROVE  DonationInv'
  BY <1>2, <1>8 DEF ClientYield, ClientWokenP, Yield, RetryP, lockVars
<1>9. CASE UNCHANGED lockClientVars
  BY <1>2, <1>9 DEF lockClientVars, kernelVars, lockVars
<1> QED
  BY <1>3, <1>4, <1>5, <1>6, <1>7, <1>8, <1>9 DEF LockNext

\* Donation is undone: a thread that holds no lock runs at the priority it gave
\* itself, whoever donated to it, as long as no thread holds two locks at once
\* (with two, Release in the order of Acquire leaves a donated priority behind).
THEOREM DonationIsUndone == LockSpec /\ []OneLockAtATime => []PriorityRestored
<1>1. DonationInv => PriorityRestored
  BY DEF DonationInv
<1> QED
  BY <1>1, InitDonationInv, NextDonationInv, LockClientInvariant, PTL DEF LockSpec

\* So with one lock a holder always gets its own priority back.
COROLLARY DonationIsUndoneOnOneLock ==
    ASSUME \A k, l \in Locks : k = l
    PROVE  LockSpec => []PriorityRestored
<1>1. OneLockAtATime
  BY DEF OneLockAtATime
<1> QED
  BY <1>1, DonationIsUndone, PTL

=============================================================================
