---------------------- MODULE ConditionClients_proofs ----------------------
(***************************************************************************)
(* Condition variables, for any number of threads and conditions: no item  *)
(* is woken twice, and Lock and Condition implement the Mesa monitor.      *)
(*                                                                         *)
(* Neither is inductive.  A signalled item stays in its queue until the    *)
(* pop, and its thread may run meanwhile as far as the Acquire at the end  *)
(* of Wait; that it comes no further is because the signaller owns the     *)
(* lock until it has popped the item.                                      *)
(***************************************************************************)
EXTENDS ConditionClients, LockClients

-----------------------------------------------------------------------------
(* The calls a thread can be in, by what is left of them.                  *)

ToAcquire(t) == pending[t] = <<Own(MonitorLock)>>

ToSleep(t) == pending[t] = <<Step("Sleep", t), Step("Reacquire", MonitorLock)>>

ToReacquire(t) == pending[t] = <<Step("Reacquire", MonitorLock)>>

Popping(t, c) == pending[t] \in {<<Step("Pop", c)>>, <<Step("PopMore", c)>>}

CallShape(t) ==
    \/ pending[t] = <<>> \/ ToAcquire(t) \/ ToSleep(t) \/ ToReacquire(t)
    \/ \E c \in Conditions : Popping(t, c)

BeingPopped(c) == \E t \in Threads : Popping(t, c)

CallType ==
    /\ pending \in [Threads -> Seq(Steps)]
    /\ \A t \in Threads : CallShape(t)
    /\ threadQueue \in [Conditions -> Seq(Threads)]

\* A thread inside the P() of an item is inside the Wait that made the item.
ItemWaiters ==
    \A t \in Threads : waitingOn[t] \in Locks \cup {NoSem}
        \/ (waitingOn[t] = t /\ ToReacquire(t))

\* Between the V() and the pop of a Signal its caller owns the lock.
PoppersOwn ==
    \A t \in Threads, c \in Conditions : Popping(t, c) =>
        ownerThread[MonitorLock] = t /\ threadQueue[c] # <<>>

\* A thread has one item, in one queue.
QueuedOnce ==
    \A c, d \in Conditions : \A i \in 1..Len(threadQueue[c]), j \in 1..Len(threadQueue[d]) :
        threadQueue[c][i] = threadQueue[d][j] => c = d /\ i = j

\* The threads of the items sleep or are about to; only that of an item whose
\* pop is due may have got as far as the Acquire at the end of Wait.
QueuedAsleep ==
    \A c \in Conditions : \A i \in 1..Len(threadQueue[c]) :
        \/ ToSleep(threadQueue[c][i]) \/ waitingOn[threadQueue[c][i]] = threadQueue[c][i]
        \/ /\ i = 1 /\ BeingPopped(c)
           /\ waitingOn[threadQueue[c][i]] = MonitorLock \/ ToReacquire(threadQueue[c][i])

\* ItemsWakeOnce in terms of the calls.
WakesOnce ==
    \A t \in Threads :
        /\ value[t] \in {0, 1}
        /\ value[t] = 1 =>
            /\ ToSleep(t) \/ waitingOn[t] = t
            /\ \A c \in Conditions : \A i \in 1..Len(threadQueue[c]) :
                threadQueue[c][i] = t => i = 1 /\ BeingPopped(c)

CallInv ==
    /\ CallType /\ ItemWaiters /\ PoppersOwn /\ QueuedOnce /\ QueuedAsleep /\ WakesOnce

ClientInv == LockInv /\ CallInv

-----------------------------------------------------------------------------
(* Facts about the calls.                                                  *)

LEMMA TheLock ==
    /\ MonitorLock \in Locks /\ MonitorLock \in Semaphores /\ MonitorLock # NoSem
    /\ Locks = {MonitorLock} /\ MonitorLock \notin Threads
    /\ \A t \in Threads : t \in Semaphores \ Locks /\ t # NoSem
BY ClientAssumption, ConditionAssumption, LockAssumption, KernelAssumption

LEMMA StepTypes ==
    /\ Own(MonitorLock) \in Steps /\ Step("Reacquire", MonitorLock) \in Steps
    /\ \A t \in Threads : Step("Sleep", t) \in Steps
    /\ \A c \in Conditions : Step("Pop", c) \in Steps /\ Step("PopMore", c) \in Steps
BY TheLock DEF Steps, Own, Step

\* The next step says which call a thread is in.
LEMMA NextOfCall ==
    ASSUME NEW t \in Threads
    PROVE  /\ ToAcquire(t) => NextIs(t, Own(MonitorLock)) /\ Tail(pending[t]) = <<>>
           /\ ToSleep(t) => /\ NextIs(t, Step("Sleep", t))
                            /\ Tail(pending[t]) = <<Step("Reacquire", MonitorLock)>>
           /\ ToReacquire(t) => /\ NextIs(t, Step("Reacquire", MonitorLock))
                                /\ Tail(pending[t]) = <<>>
           /\ \A c \in Conditions : Popping(t, c) =>
                /\ NextIs(t, Step("Pop", c)) \/ NextIs(t, Step("PopMore", c))
                /\ Tail(pending[t]) = <<>>
BY ShortSequences DEF ToAcquire, ToSleep, ToReacquire, Popping, NextIs

LEMMA CallOfNext ==
    ASSUME NEW t \in Threads, CallShape(t)
    PROVE  /\ \A l : NextIs(t, Own(l)) => ToAcquire(t) /\ l = MonitorLock
           /\ \A l : NextIs(t, Step("Sleep", l)) => ToSleep(t)
           /\ \A l : NextIs(t, Step("Reacquire", l)) => ToReacquire(t) /\ l = MonitorLock
           /\ \A c : NextIs(t, Step("Pop", c)) => pending[t] = <<Step("Pop", c)>>
           /\ \A c : NextIs(t, Step("PopMore", c)) => pending[t] = <<Step("PopMore", c)>>
BY NextOfCall, ShortSequences
   DEF CallShape, ToAcquire, ToSleep, ToReacquire, Popping, NextIs, Own, Step

\* A thread is in one call.
LEMMA CallsAreDistinct ==
    ASSUME NEW t \in Threads
    PROVE  /\ pending[t] = <<>> => ~ToAcquire(t) /\ ~ToSleep(t) /\ ~ToReacquire(t)
           /\ ToAcquire(t) => ~ToSleep(t) /\ ~ToReacquire(t)
           /\ ToSleep(t) => ~ToReacquire(t)
           /\ \A c \in Conditions : Popping(t, c) =>
                /\ pending[t] # <<>> /\ ~ToAcquire(t) /\ ~ToSleep(t) /\ ~ToReacquire(t)
                /\ \A d \in Conditions : Popping(t, d) => d = c
BY NextOfCall DEF NextIs, ToAcquire, ToSleep, ToReacquire, Popping, Own, Step

LEMMA OutsideAcquire ==
    ASSUME NEW t \in Threads, CallShape(t), ~ToAcquire(t)
    PROVE  InNoAcquire(t)
BY CallOfNext DEF InNoAcquire

\* The same of the next state, from what a step leaves of the call.
LEMMA NextCall ==
    ASSUME NEW t \in Threads
    PROVE  /\ pending'[t] = <<>> =>
                /\ CallShape(t)' /\ InNoAcquire(t)' /\ ~ToSleep(t)' /\ ~ToReacquire(t)'
                /\ \A c \in Conditions : ~Popping(t, c)'
           /\ pending'[t] = <<Own(MonitorLock)>> =>
                /\ CallShape(t)' /\ ToAcquire(t)' /\ ~ToSleep(t)' /\ ~ToReacquire(t)'
                /\ \A c \in Conditions : ~Popping(t, c)'
           /\ pending'[t] = <<Step("Sleep", t), Step("Reacquire", MonitorLock)>> =>
                /\ CallShape(t)' /\ InNoAcquire(t)' /\ ToSleep(t)'
                /\ \A c \in Conditions : ~Popping(t, c)'
           /\ pending'[t] = <<Step("Reacquire", MonitorLock)>> =>
                /\ CallShape(t)' /\ InNoAcquire(t)' /\ ToReacquire(t)'
                /\ \A c \in Conditions : ~Popping(t, c)'
           /\ \A c \in Conditions : pending'[t] \in {<<Step("Pop", c)>>, <<Step("PopMore", c)>>} =>
                /\ CallShape(t)' /\ InNoAcquire(t)' /\ Popping(t, c)'
                /\ \A d \in Conditions : Popping(t, d)' => d = c
<1>1. ASSUME pending'[t] = <<>>
      PROVE  /\ CallShape(t)' /\ InNoAcquire(t)' /\ ~ToSleep(t)' /\ ~ToReacquire(t)'
             /\ \A c \in Conditions : ~Popping(t, c)'
  BY <1>1, ShortSequences
     DEF CallShape, InNoAcquire, NextIs, ToSleep, ToReacquire, Popping
<1>2. ASSUME pending'[t] = <<Own(MonitorLock)>>
      PROVE  /\ CallShape(t)' /\ ToAcquire(t)' /\ ~ToSleep(t)' /\ ~ToReacquire(t)'
             /\ \A c \in Conditions : ~Popping(t, c)'
  <2>1. /\ Head(pending'[t]) = Own(MonitorLock)
        /\ \A x : pending'[t] = <<x>> => x = Own(MonitorLock)
    BY <1>2, ShortSequences
  <2>2. ~ToSleep(t)'
    <3>1. Head(<<Step("Sleep", t), Step("Reacquire", MonitorLock)>>) = Step("Sleep", t)
      BY ShortSequences
    <3> QED
      BY <2>1, <3>1 DEF ToSleep, Own, Step
  <2> QED
    BY <1>2, <2>1, <2>2 DEF CallShape, ToAcquire, ToReacquire, Popping, Own, Step
<1>3. /\ pending'[t] = <<Step("Sleep", t), Step("Reacquire", MonitorLock)>> =>
            /\ CallShape(t)' /\ InNoAcquire(t)' /\ ToSleep(t)'
            /\ \A c \in Conditions : ~Popping(t, c)'
      /\ pending'[t] = <<Step("Reacquire", MonitorLock)>> =>
            /\ CallShape(t)' /\ InNoAcquire(t)' /\ ToReacquire(t)'
            /\ \A c \in Conditions : ~Popping(t, c)'
  BY ShortSequences
     DEF CallShape, InNoAcquire, NextIs, ToAcquire, ToSleep, ToReacquire, Popping, Own, Step
<1>4. ASSUME NEW c \in Conditions, pending'[t] \in {<<Step("Pop", c)>>, <<Step("PopMore", c)>>}
      PROVE  /\ CallShape(t)' /\ InNoAcquire(t)' /\ Popping(t, c)'
             /\ \A d \in Conditions : Popping(t, d)' => d = c
  BY <1>4, ShortSequences DEF CallShape, InNoAcquire, NextIs, Popping, Own, Step
<1> QED
  BY <1>1, <1>3, <1>4, <1>2

LEMMA SameCall ==
    ASSUME NEW t, pending'[t] = pending[t]
    PROVE  /\ CallShape(t)' <=> CallShape(t)
           /\ ToAcquire(t)' <=> ToAcquire(t)
           /\ ToSleep(t)' <=> ToSleep(t)
           /\ ToReacquire(t)' <=> ToReacquire(t)
           /\ \A c : Popping(t, c)' <=> Popping(t, c)
BY DEF CallShape, ToAcquire, ToSleep, ToReacquire, Popping

\* What a step of t leaves of the other calls.
LEMMA OtherCalls ==
    ASSUME CallType, NEW t \in Threads, NEW x \in Seq(Steps),
           pending' = [pending EXCEPT ![t] = x]
    PROVE  /\ pending' \in [Threads -> Seq(Steps)] /\ pending'[t] = x
           /\ \A u \in Threads \ {t} : pending'[u] = pending[u]
BY DEF CallType

\* A thread that is neither asleep nor at the end of a Wait is in no queue.
LEMMA NotQueued ==
    ASSUME CallInv, NEW t \in Threads, waitingOn[t] = NoSem, ~ToSleep(t), ~ToReacquire(t),
           NEW c \in Conditions, NEW i \in 1..Len(threadQueue[c])
    PROVE  threadQueue[c][i] # t
BY TheLock DEF CallInv, QueuedAsleep

\* While the owner of the lock is outside Signal and Broadcast nobody is in them.
LEMMA NoPopper ==
    ASSUME CallInv, NEW t \in Threads, ownerThread[MonitorLock] = t,
           \A c \in Conditions : ~Popping(t, c)
    PROVE  /\ \A u \in Threads, c \in Conditions : ~Popping(u, c)
           /\ \A c \in Conditions : ~BeingPopped(c)
BY DEF CallInv, PoppersOwn, BeingPopped

LEMMA OnePopper ==
    ASSUME CallInv, NEW t \in Threads, NEW u \in Threads, NEW c \in Conditions,
           NEW d \in Conditions, Popping(t, c), Popping(u, d)
    PROVE  t = u /\ c = d
BY CallsAreDistinct DEF CallInv, PoppersOwn

LEMMA PopPendingIsBeingPopped ==
    ASSUME CallType, NEW c \in Conditions
    PROVE  PopPending(c) <=> BeingPopped(c)
<1>1. ASSUME NEW t \in Threads
      PROVE  Popping(t, c) <=>
                pending[t] # <<>> /\ Head(pending[t]) \in {Step("Pop", c), Step("PopMore", c)}
  <2>1. CallShape(t)
    BY DEF CallType
  <2> QED
    BY <2>1, ShortSequences, CallOfNext DEF Popping, NextIs
<1> QED
  BY <1>1 DEF PopPending, BeingPopped

LEMMA WakesOnceIsItemsWakeOnce == CallType /\ WakesOnce => ItemsWakeOnce
<1> SUFFICES ASSUME CallType, WakesOnce PROVE ItemsWakeOnce
  OBVIOUS
<1>1. \A t \in Threads : ToSleep(t) => pending[t] # <<>> /\ Head(pending[t]) = Step("Sleep", t)
  BY NextOfCall DEF NextIs
<1> QED
  BY <1>1, PopPendingIsBeingPopped DEF ItemsWakeOnce, WakesOnce

-----------------------------------------------------------------------------
(* The queues.                                                             *)

\* pop()
LEMMA PopQueue ==
    ASSUME CallType, QueuedOnce, NEW c \in Conditions, threadQueue[c] # <<>>,
           threadQueue' = [threadQueue EXCEPT ![c] = Tail(@)]
    PROVE  /\ threadQueue' \in [Conditions -> Seq(Threads)]
           /\ QueuedOnce'
           /\ \A d \in Conditions \ {c} : threadQueue'[d] = threadQueue[d]
           /\ \A i \in 1..Len(threadQueue'[c]) :
                /\ i + 1 \in 1..Len(threadQueue[c]) /\ i + 1 # 1
                /\ threadQueue'[c][i] = threadQueue[c][i + 1]
           /\ threadQueue'[c] # <<>> => Len(threadQueue'[c]) > 0 /\ Head(threadQueue'[c]) = threadQueue'[c][1]
<1>1. threadQueue'[c] = Tail(threadQueue[c]) /\ threadQueue[c] \in Seq(Threads)
  BY DEF CallType
<1>2. /\ Tail(threadQueue[c]) \in Seq(Threads) /\ Len(threadQueue[c]) \in Nat
      /\ Len(Tail(threadQueue[c])) = Len(threadQueue[c]) - 1
      /\ \A i \in 1..Len(Tail(threadQueue[c])) : Tail(threadQueue[c])[i] = threadQueue[c][i + 1]
  BY <1>1, HeadTailProperties, LenProperties
<1>3. \A d \in Conditions \ {c} : threadQueue'[d] = threadQueue[d]
  BY DEF CallType
<1>4. threadQueue' \in [Conditions -> Seq(Threads)]
  BY <1>1, <1>2 DEF CallType
<1>5. \A i \in 1..Len(threadQueue'[c]) :
        /\ i + 1 \in 1..Len(threadQueue[c]) /\ i + 1 # 1
        /\ threadQueue'[c][i] = threadQueue[c][i + 1]
  <2>1. \A n \in Nat : \A i \in 1..n - 1 : i + 1 \in 1..n /\ i + 1 # 1
    OBVIOUS
  <2>2. Len(threadQueue'[c]) = Len(threadQueue[c]) - 1
    BY <1>1, <1>2
  <2> QED
    BY <1>1, <1>2, <2>1, <2>2
<1>6. ASSUME NEW d \in Conditions, NEW e \in Conditions,
             NEW i \in 1..Len(threadQueue'[d]), NEW j \in 1..Len(threadQueue'[e]),
             threadQueue'[d][i] = threadQueue'[e][j]
      PROVE  d = e /\ i = j
  <2>1. Len(threadQueue[d]) \in Nat /\ Len(threadQueue[e]) \in Nat
    BY LenProperties DEF CallType
  <2>2. CASE d = c /\ e = c
    BY <1>2, <1>5, <1>6, <2>2 DEF QueuedOnce
  <2>3. CASE d = c /\ e # c
    BY <1>3, <1>5, <1>6, <2>3 DEF QueuedOnce
  <2>4. CASE d # c /\ e = c
    BY <1>3, <1>5, <1>6, <2>4 DEF QueuedOnce
  <2>5. CASE d # c /\ e # c
    BY <1>3, <1>6, <2>5 DEF QueuedOnce
  <2> QED
    BY <2>2, <2>3, <2>4, <2>5
<1>7. threadQueue'[c] # <<>> => Len(threadQueue'[c]) > 0 /\ Head(threadQueue'[c]) = threadQueue'[c][1]
  BY <1>1, <1>2
<1> QED
  BY <1>3, <1>4, <1>5, <1>6, <1>7 DEF QueuedOnce

\* push_back()
LEMMA PushQueue ==
    ASSUME CallType, QueuedOnce, NEW c \in Conditions, NEW t \in Threads,
           \A d \in Conditions : \A i \in 1..Len(threadQueue[d]) : threadQueue[d][i] # t,
           threadQueue' = [threadQueue EXCEPT ![c] = Append(@, t)]
    PROVE  /\ threadQueue' \in [Conditions -> Seq(Threads)]
           /\ QueuedOnce'
           /\ threadQueue'[c] = Append(threadQueue[c], t)
           /\ \A d \in Conditions \ {c} : threadQueue'[d] = threadQueue[d]
           /\ \A i \in 1..Len(threadQueue'[c]) :
                \/ threadQueue'[c][i] = t
                \/ i \in 1..Len(threadQueue[c]) /\ threadQueue'[c][i] = threadQueue[c][i]
<1> DEFINE n == Len(threadQueue[c])
<1>1. threadQueue'[c] = Append(threadQueue[c], t) /\ threadQueue[c] \in Seq(Threads)
  BY DEF CallType
<1>2. /\ threadQueue'[c] \in Seq(Threads) /\ Len(threadQueue'[c]) = n + 1
      /\ \A i \in 1..n : threadQueue'[c][i] = threadQueue[c][i]
      /\ threadQueue'[c][n + 1] = t /\ n \in Nat
  BY <1>1, AppendProperties, LenProperties
<1>3. \A d \in Conditions \ {c} : threadQueue'[d] = threadQueue[d]
  BY DEF CallType
<1>4. threadQueue' \in [Conditions -> Seq(Threads)]
  BY <1>1, <1>2 DEF CallType
<1>5. \A i \in 1..Len(threadQueue'[c]) : i = n + 1 \/ i \in 1..n
  BY <1>2
<1> HIDE DEF n
<1>6. \A i \in 1..Len(threadQueue'[c]) :
        \/ i = n + 1 /\ threadQueue'[c][i] = t
        \/ i \in 1..n /\ threadQueue'[c][i] = threadQueue[c][i]
  BY <1>2, <1>5
<1>7. \A i \in 1..n : threadQueue[c][i] # t
  BY DEF n
<1>8. ASSUME NEW d \in Conditions, NEW e \in Conditions,
             NEW i \in 1..Len(threadQueue'[d]), NEW j \in 1..Len(threadQueue'[e]),
             threadQueue'[d][i] = threadQueue'[e][j]
      PROVE  d = e /\ i = j
  <2>1. CASE d = c /\ e = c
    BY <1>6, <1>7, <1>8, <2>1 DEF QueuedOnce, n
  <2>2. CASE d = c /\ e # c
    BY <1>3, <1>6, <1>8, <2>2 DEF QueuedOnce, n
  <2>3. CASE d # c /\ e = c
    BY <1>3, <1>6, <1>8, <2>3 DEF QueuedOnce, n
  <2>4. CASE d # c /\ e # c
    BY <1>3, <1>8, <2>4 DEF QueuedOnce
  <2> QED
    BY <2>1, <2>2, <2>3, <2>4
<1> QED
  BY <1>1, <1>3, <1>4, <1>6, <1>8 DEF QueuedOnce, n

-----------------------------------------------------------------------------
(* What a step does to the monitor.                                        *)

\* The threads that wait on c and that nobody has signalled.
Waiting(c) == IF BeingPopped(c) THEN Tail(threadQueue[c]) ELSE threadQueue[c]

SameWaiting == \A c \in Conditions : Waiting(c)' = Waiting(c)

OnlyWaiting(c, q) ==
    Waiting(c)' = q /\ \A d \in Conditions \ {c} : Waiting(d)' = Waiting(d)

MonitorStep ==
    \/ KeepsHolders /\ SameWaiting
    \/ \E t \in Threads :
        \/ /\ Takes(t, MonitorLock) /\ SameWaiting
           /\ \A c \in Conditions : t \notin Range(Waiting(c))
        \/ Frees(t, MonitorLock) /\ SameWaiting
        \/ \E c \in Conditions :
            \/ Frees(t, MonitorLock) /\ OnlyWaiting(c, Append(Waiting(c), t))
            \/ /\ KeepsHolders /\ Holders(MonitorLock) = {t}
               /\ Waiting(c) # <<>> /\ OnlyWaiting(c, Tail(Waiting(c)))

Asleep(t) == ToSleep(t) \/ waitingOn[t] = t

\* The threads of the items that nobody has signalled sleep, or are about to,
\* and no unit waits for them.
LEMMA UnsignalledSleep ==
    ASSUME CallInv, NEW c \in Conditions, NEW i \in 1..Len(threadQueue[c]),
           i # 1 \/ ~BeingPopped(c)
    PROVE  /\ threadQueue[c][i] \in Threads
           /\ Asleep(threadQueue[c][i]) /\ value[threadQueue[c][i]] = 0
<1>1. PICK u : u = threadQueue[c][i]
  OBVIOUS
<1>2. u \in Threads
  BY <1>1, LenProperties DEF CallInv, CallType
<1>3. Asleep(u)
  BY <1>1 DEF CallInv, QueuedAsleep, Asleep
<1>4. value[u] = 0
  BY <1>1, <1>2 DEF CallInv, WakesOnce
<1> QED
  BY <1>1, <1>2, <1>3, <1>4

LEMMA WaitersSleep ==
    ASSUME CallInv, NEW c \in Conditions, NEW t \in Range(Waiting(c))
    PROVE  Asleep(t)
<1>1. threadQueue[c] \in Seq(Threads)
  BY DEF CallInv, CallType
<1>2. CASE ~BeingPopped(c)
  <2>1. PICK i \in DOMAIN threadQueue[c] : t = threadQueue[c][i]
    BY <1>2 DEF Waiting, Range
  <2>2. i \in 1..Len(threadQueue[c])
    BY <1>1, <2>1, LenProperties
  <2> QED
    BY <1>2, <2>1, <2>2, UnsignalledSleep
<1>3. CASE BeingPopped(c)
  <2>1. threadQueue[c] # <<>>
    BY <1>3 DEF BeingPopped, CallInv, PoppersOwn
  <2>2. /\ Tail(threadQueue[c]) \in Seq(Threads) /\ Len(threadQueue[c]) \in Nat
        /\ Len(Tail(threadQueue[c])) = Len(threadQueue[c]) - 1
        /\ \A i \in 1..Len(Tail(threadQueue[c])) : Tail(threadQueue[c])[i] = threadQueue[c][i + 1]
    BY <1>1, <2>1, HeadTailProperties, LenProperties
  <2>3. PICK i \in DOMAIN Tail(threadQueue[c]) : t = Tail(threadQueue[c])[i]
    BY <1>3 DEF Waiting, Range
  <2>4. i \in 1..Len(Tail(threadQueue[c]))
    BY <2>2, <2>3, LenProperties
  <2>5. \A n \in Nat : \A k \in 1..n - 1 : k + 1 \in 1..n /\ k + 1 # 1
    OBVIOUS
  <2>6. i + 1 \in 1..Len(threadQueue[c]) /\ i + 1 # 1 /\ t = threadQueue[c][i + 1]
    BY <2>2, <2>3, <2>4, <2>5
  <2> QED
    BY <2>6, UnsignalledSleep
<1> QED
  BY <1>2, <1>3

-----------------------------------------------------------------------------
(* The kinds of step.                                                      *)

\* Neither the queues nor the items change, and only t's call does.
LEMMA CallMoves ==
    ASSUME CallInv, NEW t \in Threads,
           pending' \in [Threads -> Seq(Steps)], CallShape(t)',
           \A u \in Threads \ {t} : pending'[u] = pending[u] /\ waitingOn'[u] = waitingOn[u],
           UNCHANGED threadQueue, \A u \in Threads : value'[u] = value[u],
           \A c \in Conditions : ~Popping(t, c) /\ ~Popping(t, c)',
           ~Asleep(t), waitingOn'[t] \in Locks \cup {NoSem},
           \/ ownerThread'[MonitorLock] = ownerThread[MonitorLock]
           \/ \A u \in Threads, c \in Conditions : ~Popping(u, c),
           \/ ~ToReacquire(t) /\ waitingOn[t] # MonitorLock
           \/ ToReacquire(t)' \/ waitingOn'[t] = MonitorLock
           \/ \A u \in Threads, c \in Conditions : ~Popping(u, c)
    PROVE  CallInv' /\ SameWaiting
<1> USE DEF CallInv
<1>1. \A u \in Threads \ {t} : /\ CallShape(u)' <=> CallShape(u)
                               /\ ToSleep(u)' <=> ToSleep(u)
                               /\ ToReacquire(u)' <=> ToReacquire(u)
                               /\ \A c : Popping(u, c)' <=> Popping(u, c)
  BY SameCall
<1>2. \A u \in Threads, c \in Conditions : Popping(u, c)' <=> Popping(u, c)
  BY <1>1
<1>3. \A c \in Conditions : BeingPopped(c)' <=> BeingPopped(c)
  BY <1>2 DEF BeingPopped
<1>4. SameWaiting
  BY <1>3 DEF SameWaiting, Waiting
<1>5. CallType'
  BY <1>1 DEF CallType
<1>6. ItemWaiters'
  BY <1>1 DEF ItemWaiters
<1>7. PoppersOwn'
  BY <1>2 DEF PoppersOwn
<1>8. QueuedOnce'
  BY DEF QueuedOnce
<1>9. QueuedAsleep'
  <2> SUFFICES ASSUME NEW c \in Conditions, NEW i \in 1..Len(threadQueue[c]), NEW u,
                      u = threadQueue[c][i]
               PROVE  \/ ToSleep(u)' \/ waitingOn'[u] = u
                      \/ /\ i = 1 /\ BeingPopped(c)'
                         /\ waitingOn'[u] = MonitorLock \/ ToReacquire(u)'
    BY DEF QueuedAsleep
  <2>1. u \in Threads
    BY LenProperties DEF CallType
  <2>2. \/ ToSleep(u) \/ waitingOn[u] = u
        \/ /\ i = 1 /\ BeingPopped(c)
           /\ waitingOn[u] = MonitorLock \/ ToReacquire(u)
    BY DEF QueuedAsleep
  <2>3. CASE u # t
    BY <1>1, <1>3, <2>1, <2>2, <2>3
  <2>4. CASE u = t
    BY <1>3, <2>2, <2>4 DEF Asleep, BeingPopped
  <2> QED
    BY <2>3, <2>4
<1>10. WakesOnce'
  <2> SUFFICES ASSUME NEW u \in Threads
               PROVE  /\ value'[u] \in {0, 1}
                      /\ value'[u] = 1 =>
                          /\ ToSleep(u)' \/ waitingOn'[u] = u
                          /\ \A c \in Conditions : \A i \in 1..Len(threadQueue[c]) :
                               threadQueue[c][i] = u => i = 1 /\ BeingPopped(c)'
    BY DEF WakesOnce
  <2>1. CASE u = t
    BY <2>1 DEF WakesOnce, Asleep
  <2>2. CASE u # t
    BY <1>1, <1>3, <2>2 DEF WakesOnce
  <2> QED
    BY <2>1, <2>2
<1> QED
  BY <1>4, <1>5, <1>6, <1>7, <1>8, <1>9, <1>10

\* No call, queue or item changes.
LEMMA CallsStay ==
    ASSUME CallInv, UNCHANGED <<pending, threadQueue, waitingOn>>,
           ownerThread'[MonitorLock] = ownerThread[MonitorLock],
           \A u \in Threads : value'[u] = value[u]
    PROVE  CallInv' /\ SameWaiting
<1> USE DEF CallInv
<1>1. \A u \in Threads : /\ CallShape(u)' <=> CallShape(u)
                         /\ ToSleep(u)' <=> ToSleep(u)
                         /\ ToReacquire(u)' <=> ToReacquire(u)
                         /\ \A c : Popping(u, c)' <=> Popping(u, c)
  BY SameCall
<1>2. \A c \in Conditions : BeingPopped(c)' <=> BeingPopped(c)
  BY <1>1 DEF BeingPopped
<1>3. CallType' /\ ItemWaiters' /\ PoppersOwn' /\ QueuedOnce'
  BY <1>1 DEF CallType, ItemWaiters, PoppersOwn, QueuedOnce
<1>4. \A c \in Conditions : \A i \in 1..Len(threadQueue[c]) : threadQueue[c][i] \in Threads
  BY LenProperties DEF CallType
<1>5. QueuedAsleep' /\ WakesOnce'
  BY <1>1, <1>2, <1>4 DEF QueuedAsleep, WakesOnce
<1> QED
  BY <1>2, <1>3, <1>5 DEF SameWaiting, Waiting

\* The P() of an item, the first time or again after a wake-up.
LEMMA ItemMoves ==
    ASSUME CallInv, NEW t \in Threads, Asleep(t),
           pending' \in [Threads -> Seq(Steps)],
           pending'[t] = <<Step("Reacquire", MonitorLock)>>,
           \A u \in Threads \ {t} : pending'[u] = pending[u] /\ waitingOn'[u] = waitingOn[u],
           UNCHANGED threadQueue,
           ownerThread'[MonitorLock] = ownerThread[MonitorLock],
           \A u \in Threads \ {t} : value'[u] = value[u],
           \/ value[t] # 0 /\ value'[t] = value[t] - 1
           \/ value'[t] = value[t] /\ waitingOn'[t] = t,
           waitingOn'[t] \in {NoSem, t}
    PROVE  CallInv' /\ SameWaiting
<1> USE DEF CallInv
<1>1. \A u \in Threads \ {t} : /\ CallShape(u)' <=> CallShape(u)
                               /\ ToSleep(u)' <=> ToSleep(u)
                               /\ ToReacquire(u)' <=> ToReacquire(u)
                               /\ \A c : Popping(u, c)' <=> Popping(u, c)
  BY SameCall
<1>2. /\ CallShape(t)' /\ ToReacquire(t)' /\ \A c \in Conditions : ~Popping(t, c)'
  BY NextCall
<1>3. \A c \in Conditions : ~Popping(t, c)
  BY CallsAreDistinct, TheLock DEF ItemWaiters, Asleep
<1>4. \A u \in Threads, c \in Conditions : Popping(u, c)' <=> Popping(u, c)
  BY <1>1, <1>2, <1>3
<1>5. \A c \in Conditions : BeingPopped(c)' <=> BeingPopped(c)
  BY <1>4 DEF BeingPopped
<1>6. SameWaiting
  BY <1>5 DEF SameWaiting, Waiting
<1>7. CallType' /\ PoppersOwn' /\ QueuedOnce'
  BY <1>1, <1>2, <1>4 DEF CallType, PoppersOwn, QueuedOnce
<1>8. ItemWaiters'
  BY <1>1, <1>2, TheLock DEF ItemWaiters
<1>9. \/ value[t] = 1 /\ value'[t] = 0
      \/ value'[t] = value[t] /\ waitingOn'[t] = t
  BY DEF WakesOnce
<1>10. QueuedAsleep'
  <2> SUFFICES ASSUME NEW c \in Conditions, NEW i \in 1..Len(threadQueue[c]), NEW u,
                      u = threadQueue[c][i]
               PROVE  \/ ToSleep(u)' \/ waitingOn'[u] = u
                      \/ /\ i = 1 /\ BeingPopped(c)'
                         /\ waitingOn'[u] = MonitorLock \/ ToReacquire(u)'
    BY DEF QueuedAsleep
  <2>1. u \in Threads
    BY LenProperties DEF CallType
  <2>2. CASE u # t
    BY <1>1, <1>5, <2>1, <2>2 DEF QueuedAsleep
  <2>3. CASE u = t
    <3>1. CASE value[t] = 1
      <4>1. i = 1 /\ BeingPopped(c)
        BY <2>3, <3>1 DEF WakesOnce
      <4> QED
        BY <1>2, <1>5, <2>3, <4>1
    <3>2. CASE waitingOn'[t] = t
      BY <2>3, <3>2
    <3> QED
      BY <1>9, <3>1, <3>2
  <2> QED
    BY <2>2, <2>3
<1>11. WakesOnce'
  <2> SUFFICES ASSUME NEW u \in Threads
               PROVE  /\ value'[u] \in {0, 1}
                      /\ value'[u] = 1 =>
                          /\ ToSleep(u)' \/ waitingOn'[u] = u
                          /\ \A c \in Conditions : \A i \in 1..Len(threadQueue[c]) :
                               threadQueue[c][i] = u => i = 1 /\ BeingPopped(c)'
    BY DEF WakesOnce
  <2>1. CASE u = t
    BY <1>5, <1>9, <2>1 DEF WakesOnce
  <2>2. CASE u # t
    BY <1>1, <1>5, <2>2 DEF WakesOnce
  <2> QED
    BY <2>1, <2>2
<1> QED
  BY <1>6, <1>7, <1>8, <1>10, <1>11

\* The first half of Wait: t joins the end of a queue and gives up the lock.
LEMMA WaitMoves ==
    ASSUME CallInv, NEW t \in Threads, NEW c \in Conditions,
           ownerThread[MonitorLock] = t, waitingOn[t] = NoSem, pending[t] = <<>>,
           pending' \in [Threads -> Seq(Steps)],
           pending'[t] = <<Step("Sleep", t), Step("Reacquire", MonitorLock)>>,
           \A u \in Threads \ {t} : pending'[u] = pending[u],
           threadQueue' = [threadQueue EXCEPT ![c] = Append(@, t)],
           UNCHANGED waitingOn, \A u \in Threads : value'[u] = value[u]
    PROVE  CallInv' /\ OnlyWaiting(c, Append(Waiting(c), t))
<1> USE DEF CallInv
<1>1. \A u \in Threads \ {t} : /\ CallShape(u)' <=> CallShape(u)
                               /\ ToSleep(u)' <=> ToSleep(u)
                               /\ ToReacquire(u)' <=> ToReacquire(u)
                               /\ \A d : Popping(u, d)' <=> Popping(u, d)
  BY SameCall
<1>2. /\ CallShape(t)' /\ ToSleep(t)' /\ \A d \in Conditions : ~Popping(t, d)'
  BY NextCall
<1>3. ~ToSleep(t) /\ ~ToReacquire(t) /\ \A d \in Conditions : ~Popping(t, d)
  BY CallsAreDistinct
<1>4. /\ \A u \in Threads, d \in Conditions : ~Popping(u, d)
      /\ \A d \in Conditions : ~BeingPopped(d)
  BY <1>3, NoPopper
<1>5. /\ \A u \in Threads, d \in Conditions : ~Popping(u, d)'
      /\ \A d \in Conditions : ~BeingPopped(d)'
  BY <1>1, <1>2, <1>4 DEF BeingPopped
<1>6. \A d \in Conditions : \A i \in 1..Len(threadQueue[d]) : threadQueue[d][i] # t
  BY <1>3, NotQueued
<1>7. /\ threadQueue' \in [Conditions -> Seq(Threads)]
      /\ QueuedOnce'
      /\ threadQueue'[c] = Append(threadQueue[c], t)
      /\ \A d \in Conditions \ {c} : threadQueue'[d] = threadQueue[d]
      /\ \A i \in 1..Len(threadQueue'[c]) :
           \/ threadQueue'[c][i] = t
           \/ i \in 1..Len(threadQueue[c]) /\ threadQueue'[c][i] = threadQueue[c][i]
  <2>1. CallType /\ QueuedOnce
    OBVIOUS
  <2> HIDE DEF CallInv
  <2> QED
    BY <1>6, <2>1, PushQueue, ZenonT(60)
<1>8. OnlyWaiting(c, Append(Waiting(c), t))
  BY <1>4, <1>5, <1>7 DEF OnlyWaiting, Waiting
<1>9. CallType'
  BY <1>1, <1>2, <1>7 DEF CallType
<1>10. ItemWaiters'
  BY <1>1, TheLock DEF ItemWaiters
<1>11. PoppersOwn'
  BY <1>5 DEF PoppersOwn
<1>12. \A d \in Conditions : \A i \in 1..Len(threadQueue'[d]) :
         \/ threadQueue'[d][i] = t
         \/ \E j \in 1..Len(threadQueue[d]) : threadQueue'[d][i] = threadQueue[d][j]
  BY <1>7
<1>13. ASSUME NEW d \in Conditions, NEW i \in 1..Len(threadQueue'[d]),
              NEW u, u = threadQueue'[d][i], u # t
       PROVE  u \in Threads /\ Asleep(u) /\ value[u] = 0
  <2>1. PICK j \in 1..Len(threadQueue[d]) : u = threadQueue[d][j]
    BY <1>12, <1>13
  <2> QED
    BY <1>4, <2>1, UnsignalledSleep
<1>14. ASSUME NEW d \in Conditions, NEW i \in 1..Len(threadQueue'[d]),
              NEW u, u = threadQueue'[d][i]
       PROVE  ToSleep(u)' \/ waitingOn'[u] = u
  BY <1>1, <1>2, <1>13, <1>14 DEF Asleep
<1>15. ASSUME NEW d \in Conditions, NEW i \in 1..Len(threadQueue'[d])
       PROVE  value'[threadQueue'[d][i]] = 0
  <2>1. value'[t] = 0
    BY <1>3, TheLock DEF WakesOnce
  <2> HIDE DEF CallInv
  <2>2. CASE threadQueue'[d][i] = t
    BY <2>1, <2>2
  <2>3. CASE threadQueue'[d][i] # t
    BY <1>13, <2>3, ZenonT(60)
  <2> QED
    BY <2>2, <2>3
<1>16. QueuedAsleep'
  BY <1>14 DEF QueuedAsleep
<1>17. ASSUME NEW u \in Threads
       PROVE  value'[u] \in {0, 1} /\ (value'[u] = 1 => ToSleep(u)' \/ waitingOn'[u] = u)
  BY <1>1, <1>2 DEF WakesOnce
<1>18. WakesOnce'
  <2> HIDE DEF CallInv
  <2>1. ASSUME NEW u \in Threads, value'[u] = 1,
               NEW d \in Conditions, NEW i \in 1..Len(threadQueue'[d]),
               threadQueue'[d][i] = u
        PROVE  FALSE
    <3>1. value'[threadQueue'[d][i]] = 0
      BY <1>15
    <3> QED
      BY <2>1, <3>1
  <2> QED
    BY <1>17, <2>1 DEF WakesOnce
<1> QED
  BY <1>7, <1>8, <1>9, <1>10, <1>11, <1>16, <1>18

\* The pop that ends a Signal or a Broadcast.
LEMMA PopMoves ==
    ASSUME CallInv, NEW t \in Threads, NEW c \in Conditions,
           Popping(t, c), waitingOn[t] = NoSem,
           pending' \in [Threads -> Seq(Steps)], pending'[t] = <<>>,
           \A u \in Threads \ {t} : pending'[u] = pending[u],
           threadQueue' = [threadQueue EXCEPT ![c] = Tail(@)],
           UNCHANGED waitingOn, \A u \in Threads : value'[u] = value[u]
    PROVE  CallInv' /\ SameWaiting
<1> USE DEF CallInv
<1>1. \A u \in Threads \ {t} : /\ CallShape(u)' <=> CallShape(u)
                               /\ ToSleep(u)' <=> ToSleep(u)
                               /\ ToReacquire(u)' <=> ToReacquire(u)
                               /\ \A d : Popping(u, d)' <=> Popping(u, d)
  BY SameCall
<1>2. /\ CallShape(t)' /\ \A d \in Conditions : ~Popping(t, d)'
  BY NextCall
<1>3. ~ToSleep(t) /\ ~ToReacquire(t)
  BY CallsAreDistinct
<1>4. /\ \A u \in Threads, d \in Conditions : Popping(u, d) => u = t /\ d = c
      /\ \A d \in Conditions : BeingPopped(d) <=> d = c
  BY OnePopper DEF BeingPopped
<1>5. /\ \A u \in Threads, d \in Conditions : ~Popping(u, d)'
      /\ \A d \in Conditions : ~BeingPopped(d)'
  BY <1>1, <1>2, <1>4 DEF BeingPopped
<1>6. threadQueue[c] # <<>>
  BY DEF PoppersOwn
<1>7. /\ threadQueue' \in [Conditions -> Seq(Threads)]
      /\ QueuedOnce'
      /\ \A d \in Conditions \ {c} : threadQueue'[d] = threadQueue[d]
      /\ \A i \in 1..Len(threadQueue'[c]) :
           /\ i + 1 \in 1..Len(threadQueue[c]) /\ i + 1 # 1
           /\ threadQueue'[c][i] = threadQueue[c][i + 1]
  BY <1>6, PopQueue
<1>8. SameWaiting
  <2>1. threadQueue'[c] = Tail(threadQueue[c])
    BY DEF CallType
  <2> QED
    BY <1>4, <1>5, <1>7, <2>1 DEF SameWaiting, Waiting
<1>9. CallType'
  BY <1>1, <1>2, <1>7 DEF CallType
<1>10. ItemWaiters'
  BY <1>1, TheLock DEF ItemWaiters
<1>11. PoppersOwn'
  BY <1>5 DEF PoppersOwn
<1>12. ASSUME NEW d \in Conditions, NEW i \in 1..Len(threadQueue'[d])
       PROVE  \E j \in 1..Len(threadQueue[d]) :
                threadQueue'[d][i] = threadQueue[d][j] /\ (j # 1 \/ ~BeingPopped(d))
  <2>1. CASE d = c
    BY <1>7, <2>1
  <2>2. CASE d # c
    BY <1>4, <1>7, <2>2
  <2> QED
    BY <2>1, <2>2
<1>13. ASSUME NEW d \in Conditions, NEW i \in 1..Len(threadQueue'[d]),
              NEW u, u = threadQueue'[d][i]
       PROVE  u \in Threads \ {t} /\ Asleep(u) /\ value[u] = 0
  <2>1. PICK j \in 1..Len(threadQueue[d]) :
          u = threadQueue[d][j] /\ (j # 1 \/ ~BeingPopped(d))
    BY <1>12, <1>13
  <2>2. u \in Threads /\ Asleep(u) /\ value[u] = 0
    BY <2>1, UnsignalledSleep
  <2> QED
    BY <1>3, <2>2, TheLock DEF Asleep
<1>14. ASSUME NEW d \in Conditions, NEW i \in 1..Len(threadQueue'[d]),
              NEW u, u = threadQueue'[d][i]
       PROVE  ToSleep(u)' \/ waitingOn'[u] = u
  BY <1>1, <1>13, <1>14 DEF Asleep
<1>15. ASSUME NEW d \in Conditions, NEW i \in 1..Len(threadQueue'[d])
       PROVE  value'[threadQueue'[d][i]] = 0
  BY <1>13
<1>16. QueuedAsleep'
  BY <1>14 DEF QueuedAsleep
<1>17. ASSUME NEW u \in Threads
       PROVE  value'[u] \in {0, 1} /\ (value'[u] = 1 => ToSleep(u)' \/ waitingOn'[u] = u)
  BY <1>1, <1>3, TheLock DEF WakesOnce
<1>18. WakesOnce'
  <2> HIDE DEF CallInv
  <2>1. ASSUME NEW u \in Threads, value'[u] = 1,
               NEW d \in Conditions, NEW i \in 1..Len(threadQueue'[d]),
               threadQueue'[d][i] = u
        PROVE  FALSE
    <3>1. value'[threadQueue'[d][i]] = 0
      BY <1>15
    <3> QED
      BY <2>1, <3>1
  <2> QED
    BY <1>17, <2>1 DEF WakesOnce
<1> QED
  BY <1>7, <1>8, <1>9, <1>10, <1>11, <1>16, <1>18

\* A V() on the first item of a queue, whose pop is due now and whose items are
\* all asleep without a unit.
LEMMA SignalMoves ==
    ASSUME CallInv, NEW t \in Threads, NEW c \in Conditions,
           waitingOn[t] = NoSem, ~ToSleep(t),
           ownerThread[MonitorLock] = t, UNCHANGED <<ownerThread, waitingOn>>,
           pending' \in [Threads -> Seq(Steps)],
           pending'[t] \in {<<Step("Pop", c)>>, <<Step("PopMore", c)>>},
           \A u \in Threads \ {t} : pending'[u] = pending[u],
           threadQueue' \in [Conditions -> Seq(Threads)], QueuedOnce',
           threadQueue'[c] # <<>>,
           \A d \in Conditions : \A i \in 1..Len(threadQueue'[d]) :
             Asleep(threadQueue'[d][i]) /\ value[threadQueue'[d][i]] = 0,
           NEW h \in Threads, h = threadQueue'[c][1],
           value'[h] = value[h] + 1, \A u \in Threads \ {h} : value'[u] = value[u]
    PROVE  CallInv' /\ \A d \in Conditions : BeingPopped(d)' <=> d = c
<1> USE DEF CallInv
<1>1. \A u \in Threads \ {t} : /\ CallShape(u)' <=> CallShape(u)
                               /\ ToSleep(u)' <=> ToSleep(u)
                               /\ ToReacquire(u)' <=> ToReacquire(u)
                               /\ \A d : Popping(u, d)' <=> Popping(u, d)
  BY SameCall
<1>2. /\ CallShape(t)' /\ Popping(t, c)'
      /\ \A d \in Conditions : Popping(t, d)' => d = c
  BY NextCall
<1>3. \A u \in Threads, d \in Conditions : Popping(u, d)' <=> u = t /\ d = c
  BY <1>1, <1>2 DEF PoppersOwn
<1>4. \A d \in Conditions : BeingPopped(d)' <=> d = c
  BY <1>3 DEF BeingPopped
<1>5. CallType'
  BY <1>1, <1>2 DEF CallType
<1>6. ItemWaiters'
  BY <1>1, TheLock DEF ItemWaiters
<1>7. PoppersOwn'
  BY <1>3 DEF PoppersOwn
<1>8. 1 \in 1..Len(threadQueue'[c])
  BY LenProperties
<1>9. Asleep(h) /\ value[h] = 0 /\ value'[h] = 1
  BY <1>8
<1>10. ASSUME NEW d \in Conditions, NEW i \in 1..Len(threadQueue'[d]),
              NEW u, u = threadQueue'[d][i]
       PROVE  ToSleep(u)' \/ waitingOn'[u] = u
  <2>1. u \in Threads /\ Asleep(u)
    BY <1>10, LenProperties
  <2>2. u # t
    BY <2>1, TheLock DEF Asleep
  <2> QED
    BY <1>1, <2>1, <2>2 DEF Asleep
<1>11. QueuedAsleep'
  BY <1>10 DEF QueuedAsleep
<1>12. WakesOnce'
  <2> SUFFICES ASSUME NEW u \in Threads
               PROVE  /\ value'[u] \in {0, 1}
                      /\ value'[u] = 1 =>
                          /\ ToSleep(u)' \/ waitingOn'[u] = u
                          /\ \A d \in Conditions : \A i \in 1..Len(threadQueue'[d]) :
                               threadQueue'[d][i] = u => i = 1 /\ BeingPopped(d)'
    BY DEF WakesOnce
  <2>1. CASE u = h
    <3>1. ToSleep(u)' \/ waitingOn'[u] = u
      BY <1>8, <1>10, <2>1
    <3>2. ASSUME NEW d \in Conditions, NEW i \in 1..Len(threadQueue'[d]),
                 threadQueue'[d][i] = u
          PROVE  i = 1 /\ d = c
      BY <1>8, <2>1, <3>2 DEF QueuedOnce
    <3> QED
      BY <1>4, <1>9, <2>1, <3>1, <3>2
  <2>2. CASE u # h
    <3>1. value'[u] \in {0, 1} /\ value'[u] = value[u]
      BY <2>2 DEF WakesOnce
    <3>2. value[u] = 1 => ToSleep(u)' \/ waitingOn'[u] = u
      BY <1>1, TheLock DEF WakesOnce
    <3>3. value[u] = 1 => \A d \in Conditions : \A i \in 1..Len(threadQueue'[d]) :
            threadQueue'[d][i] # u
      OBVIOUS
    <3> QED
      BY <3>1, <3>2, <3>3
  <2> QED
    BY <2>1, <2>2
<1> QED
  BY <1>4, <1>5, <1>6, <1>7, <1>11, <1>12

-----------------------------------------------------------------------------
(* The actions.                                                            *)

LEMMA InitClientInv == Init => ClientInv
<1> SUFFICES ASSUME Init PROVE ClientInv
  OBVIOUS
<1>1. /\ \A t \in Threads : pending[t] = <<>> /\ waitingOn[t] = NoSem /\ value[t] = 0
      /\ \A l \in Locks : value[l] = 1 /\ ownerThread[l] = NoThread
      /\ \A c \in Conditions : threadQueue[c] = <<>>
  BY TheLock DEF Init
<1>2. KernelInv /\ LockType
  BY ClientAssumption, KernelAssumption, FreshKernel DEF Init, LockType
<1>3. WaitersAcquire /\ LockSafe
  BY <1>1, FreshLocks
<1>4. CallType
  <2>1. <<>> \in Seq(Steps) /\ <<>> \in Seq(Threads)
    OBVIOUS
  <2> QED
    BY <1>1, <2>1 DEF Init, CallType, CallShape
<1>5. \A t \in Threads, c \in Conditions : ~Popping(t, c)
  BY <1>1, CallsAreDistinct
<1>6. ItemWaiters /\ PoppersOwn /\ WakesOnce
  BY <1>1, <1>5, TheLock DEF ItemWaiters, PoppersOwn, WakesOnce
<1>7. \A c \in Conditions : 1..Len(threadQueue[c]) = {}
  <2>1. Len(<<>>) = 0 /\ 1..0 = {}
    OBVIOUS
  <2> QED
    BY <1>1, <2>1
<1>8. QueuedOnce /\ QueuedAsleep
  BY <1>7 DEF QueuedOnce, QueuedAsleep
<1> QED
  BY <1>2, <1>3, <1>4, <1>6, <1>8 DEF ClientInv, CallInv, LockInv

LEMMA InvTypes ==
    ASSUME ClientInv
    PROVE  /\ LockInv /\ CallInv
           /\ pending \in [Threads -> Seq(Steps)] /\ \A t \in Threads : CallShape(t)
           /\ value \in [Semaphores -> Nat]
           /\ waitingOn \in [Threads -> Semaphores \cup {NoSem}]
           /\ ownerThread \in [Locks -> Threads \cup {NoThread}]
BY DEF ClientInv, CallInv, CallType, LockInv, LockType, KernelInv, KernelTypeOK

\* Nobody can be in the middle of a Signal while the lock is FREE.
LEMMA NoPopperWhenFree ==
    ASSUME CallInv, Holders(MonitorLock) = {}
    PROVE  \A u \in Threads, c \in Conditions : ~Popping(u, c)
BY DEF CallInv, PoppersOwn, Holders

\* A thread that takes the lock waits on no condition.
LEMMA TakerIsNotWaiting ==
    ASSUME CallInv, NEW t \in Threads, ~Asleep(t)
    PROVE  \A c \in Conditions : t \notin Range(Waiting(c))
BY WaitersSleep

LEMMA ForkStep ==
    ASSUME ClientInv, NEW t \in Threads, NEW child \in Threads, ThreadFork(t, child)
    PROVE  ClientInv' /\ MonitorStep
<1>1. /\ Fork(t, child)
      /\ UNCHANGED <<lockVars, pending, threadQueue>> /\ UNCHANGED ownerThread
  BY DEF ThreadFork, lockVars
<1>2. LockInv' /\ KeepsHolders /\ UNCHANGED <<value, waitingOn>>
  BY <1>1, InvTypes, SchedulerLockInv
<1> QED
  BY <1>1, <1>2, InvTypes, CallsStay DEF ClientInv, MonitorStep

LEMMA YieldStep ==
    ASSUME ClientInv, NEW t \in Threads, Yield(t),
           UNCHANGED <<lockVars, pending, threadQueue>>
    PROVE  ClientInv' /\ MonitorStep
<1>1. UNCHANGED ownerThread
  BY DEF lockVars
<1>2. LockInv' /\ KeepsHolders /\ UNCHANGED <<value, waitingOn>>
  BY InvTypes, SchedulerLockInv
<1> QED
  BY <1>1, <1>2, InvTypes, CallsStay DEF ClientInv, MonitorStep

LEMMA EnterStep ==
    ASSUME ClientInv, NEW t \in Threads, Enter(t)
    PROVE  ClientInv' /\ MonitorStep
<1>1. /\ IsRunning(t) /\ pending[t] = <<>> /\ waitingOn[t] = NoSem
      /\ StartAcquire(t, MonitorLock, <<>>) /\ TestValue(t, MonitorLock)
      /\ UNCHANGED <<ownerThread, threadQueue>>
  BY DEF Enter, Acquire, InOwnCode, IsRunning, StartAcquire, lockVars
<1>2. /\ ~ToAcquire(t) /\ ~ToSleep(t) /\ ~ToReacquire(t)
      /\ \A c \in Conditions : ~Popping(t, c)
  BY <1>1, CallsAreDistinct
<1>3. InNoAcquire(t) /\ <<>> \in Seq(Steps)
  BY <1>2, InvTypes, OutsideAcquire
<1>4. /\ LockInv'
      /\ Takes(t, MonitorLock) \/ (KeepsHolders /\ waitingOn'[t] = MonitorLock)
      /\ pending' = [pending EXCEPT ![t] = <<Own(MonitorLock)>> \o <<>>]
  BY <1>1, <1>3, InvTypes, TheLock, StepTypes, StartAcquireInv
<1>5. /\ pending' \in [Threads -> Seq(Steps)] /\ pending'[t] = <<Own(MonitorLock)>>
      /\ \A u \in Threads \ {t} : pending'[u] = pending[u]
  <2>1. <<Own(MonitorLock)>> \o <<>> = <<Own(MonitorLock)>> /\ <<Own(MonitorLock)>> \in Seq(Steps)
    BY ShortSequences, StepTypes
  <2> QED
    BY <1>4, <2>1, InvTypes, OtherCalls DEF CallInv
<1>6. CallShape(t)' /\ \A c \in Conditions : ~Popping(t, c)'
  BY <1>5, NextCall
<1>7. /\ \A u \in Threads \ {t} : waitingOn'[u] = waitingOn[u]
      /\ \A u \in Threads : value'[u] = value[u]
      /\ waitingOn'[t] \in Locks \cup {NoSem}
  BY <1>1, InvTypes, OthersAtP, TheLock
<1>8. ~Asleep(t)
  BY <1>1, <1>2, TheLock DEF Asleep
<1>9. CallInv' /\ SameWaiting
  BY <1>1, <1>2, <1>5, <1>6, <1>7, <1>8, InvTypes, TheLock, CallMoves
<1> QED
  BY <1>4, <1>8, <1>9, InvTypes, TakerIsNotWaiting DEF ClientInv, MonitorStep

LEMMA OwnStep ==
    ASSUME ClientInv, NEW t \in Threads, NEW l \in Locks,
           FinishAcquire(t, l), UNCHANGED threadQueue
    PROVE  ClientInv' /\ MonitorStep
<1>1. /\ NextIs(t, Own(l)) /\ waitingOn[t] = NoSem
      /\ pending' = [pending EXCEPT ![t] = Tail(pending[t])]
      /\ UNCHANGED <<value, waitingOn>>
  BY DEF FinishAcquire, NextStep, IsRunning, NextIs, Own, Return, kernelVars, semVars
<1>2. ToAcquire(t) /\ l = MonitorLock
  BY <1>1, InvTypes, CallOfNext
<1>3. /\ Tail(pending[t]) = <<>> /\ ~ToSleep(t) /\ ~ToReacquire(t)
      /\ \A c \in Conditions : ~Popping(t, c)
  BY <1>2, NextOfCall, CallsAreDistinct
<1>4. /\ pending' \in [Threads -> Seq(Steps)] /\ pending'[t] = <<>>
      /\ \A u \in Threads \ {t} : pending'[u] = pending[u]
  <2>1. <<>> \in Seq(Steps)
    OBVIOUS
  <2> QED
    BY <1>1, <1>3, <2>1, InvTypes, OtherCalls DEF CallInv
<1>5. InNoAcquire(t)' /\ CallShape(t)' /\ \A c \in Conditions : ~Popping(t, c)'
  BY <1>4, NextCall
<1>6. LockInv' /\ KeepsHolders /\ Holders(MonitorLock) = {t}
  BY <1>2, <1>5, InvTypes, FinishAcquireInv
<1>7. \A u \in Threads, c \in Conditions : ~Popping(u, c)
  BY <1>3, <1>6, InvTypes DEF CallInv, PoppersOwn, Holders
<1>8. CallInv' /\ SameWaiting
  BY <1>1, <1>3, <1>4, <1>5, <1>7, InvTypes, TheLock, CallMoves DEF Asleep
<1> QED
  BY <1>6, <1>8 DEF ClientInv, MonitorStep

LEMMA LeaveStep ==
    ASSUME ClientInv, NEW t \in Threads, Leave(t)
    PROVE  ClientInv' /\ MonitorStep
<1>1. /\ IsRunning(t) /\ pending[t] = <<>> /\ waitingOn[t] = NoSem
      /\ ownerThread[MonitorLock] = t /\ Release(t, MonitorLock)
      /\ UNCHANGED <<pending, threadQueue, waitingOn>>
      /\ value' = [value EXCEPT ![MonitorLock] = @ + 1]
  BY DEF Leave, InMonitor, InOwnCode, IsRunning, Release, V
<1>2. /\ ~ToAcquire(t) /\ ~ToSleep(t) /\ ~ToReacquire(t)
      /\ \A c \in Conditions : ~Popping(t, c)
  BY <1>1, CallsAreDistinct
<1>3. InNoAcquire(t) /\ InNoAcquire(t)' /\ CallShape(t)' /\ \A c \in Conditions : ~Popping(t, c)'
  BY <1>1, <1>2, InvTypes, OutsideAcquire, NextCall
<1>4. LockInv' /\ Frees(t, MonitorLock)
  BY <1>1, <1>3, InvTypes, TheLock, ReleaseInv
<1>5. \A u \in Threads, c \in Conditions : ~Popping(u, c)
  BY <1>1, <1>2, InvTypes, NoPopper
<1>6. \A u \in Threads : value'[u] = value[u]
  BY <1>1, InvTypes, TheLock
<1>7. CallInv' /\ SameWaiting
  BY <1>1, <1>2, <1>3, <1>5, <1>6, InvTypes, TheLock, CallMoves DEF Asleep
<1> QED
  BY <1>4, <1>7 DEF ClientInv, MonitorStep

LEMMA WaitStep ==
    ASSUME ClientInv, NEW t \in Threads, NEW c \in Conditions, Wait(t, c)
    PROVE  ClientInv' /\ MonitorStep
<1> DEFINE x == <<Step("Sleep", t), Step("Reacquire", MonitorLock)>>
<1>1. /\ IsRunning(t) /\ pending[t] = <<>> /\ waitingOn[t] = NoSem
      /\ ownerThread[MonitorLock] = t /\ Release(t, MonitorLock)
      /\ threadQueue' = [threadQueue EXCEPT ![c] = Append(@, t)]
      /\ pending' = [pending EXCEPT ![t] = x \o <<>>]
      /\ UNCHANGED waitingOn
      /\ value' = [value EXCEPT ![MonitorLock] = @ + 1]
  BY DEF Wait, StartWait, InMonitor, InOwnCode, IsRunning, Release, V
<1>2. InNoAcquire(t)
  BY <1>1, InvTypes, CallsAreDistinct, OutsideAcquire
<1>3. /\ pending' \in [Threads -> Seq(Steps)] /\ pending'[t] = x
      /\ \A u \in Threads \ {t} : pending'[u] = pending[u]
  <2>1. x \o <<>> = x
    BY ShortSequences
  <2>2. x \in Seq(Steps)
    BY StepTypes
  <2> QED
    BY <1>1, <2>1, <2>2, InvTypes, OtherCalls DEF CallInv
<1>4. InNoAcquire(t)'
  BY <1>3, NextCall
<1>5. LockInv' /\ Frees(t, MonitorLock)
  BY <1>1, <1>2, <1>3, <1>4, InvTypes, TheLock, ReleaseInv
<1>6. \A u \in Threads : value'[u] = value[u]
  BY <1>1, InvTypes, TheLock
<1>7. CallInv' /\ OnlyWaiting(c, Append(Waiting(c), t))
  BY <1>1, <1>3, <1>6, InvTypes, WaitMoves
<1> QED
  BY <1>5, <1>7 DEF ClientInv, MonitorStep

\* Signal, and the first turn of Broadcast, up to the end of the V().
LEMMA SignalStep ==
    ASSUME ClientInv, NEW t \in Threads, NEW c \in Conditions,
           Signal(t, c) \/ Broadcast(t, c)
    PROVE  ClientInv' /\ MonitorStep
<1>1. PICK x \in {Step("Pop", c), Step("PopMore", c)} :
        pending' = [pending EXCEPT ![t] = <<x>> \o <<>>]
  BY DEF Signal, Broadcast, StartSignal
<1>2. /\ IsRunning(t) /\ pending[t] = <<>> /\ waitingOn[t] = NoSem
      /\ ownerThread[MonitorLock] = t
      /\ threadQueue[c] # <<>> /\ V(Head(threadQueue[c]))
      /\ UNCHANGED <<priority, lockVars, ownerThread, threadQueue, waitingOn>>
      /\ value' = [value EXCEPT ![Head(threadQueue[c])] = @ + 1]
  BY DEF Signal, Broadcast, StartSignal, InMonitor, InOwnCode, IsRunning, V, lockVars
<1>3. PICK h : h = Head(threadQueue[c])
  OBVIOUS
<1>4. /\ h \in Threads /\ h = threadQueue[c][1]
      /\ 1 \in 1..Len(threadQueue[c])
  <2>1. threadQueue[c] \in Seq(Threads)
    BY InvTypes DEF CallInv, CallType
  <2> QED
    BY <1>2, <1>3, <2>1, LenProperties
<1>5. h \in Semaphores \ Locks
  BY <1>4, TheLock
<1>6. /\ ~ToAcquire(t) /\ ~ToSleep(t) /\ \A d \in Conditions : ~Popping(t, d)
      /\ InNoAcquire(t)
  BY <1>2, InvTypes, CallsAreDistinct, OutsideAcquire
<1>7. \A d \in Conditions : ~BeingPopped(d)
  BY <1>2, <1>6, InvTypes, NoPopper
<1>8. /\ pending' \in [Threads -> Seq(Steps)] /\ pending'[t] = <<x>>
      /\ \A u \in Threads \ {t} : pending'[u] = pending[u]
  <2>1. <<x>> \o <<>> = <<x>>
    BY ShortSequences
  <2>2. <<x>> \in Seq(Steps)
    BY StepTypes
  <2> QED
    BY <1>1, <2>1, <2>2, InvTypes, OtherCalls DEF CallInv
<1>9. pending'[t] \in {<<Step("Pop", c)>>, <<Step("PopMore", c)>>}
  BY <1>8
<1>10. InNoAcquire(t)'
  BY <1>9, NextCall
<1>11. LockInv' /\ KeepsHolders
  BY <1>2, <1>3, <1>5, <1>6, <1>8, <1>10, InvTypes, VLockInv
<1>12. /\ value'[h] = value[h] + 1 /\ \A u \in Threads \ {h} : value'[u] = value[u]
  BY <1>2, <1>3, <1>4, InvTypes, TheLock
<1>13. \A d \in Conditions : \A i \in 1..Len(threadQueue'[d]) :
         Asleep(threadQueue'[d][i]) /\ value[threadQueue'[d][i]] = 0
  BY <1>2, <1>7, InvTypes, UnsignalledSleep
<1>14. CallInv' /\ \A d \in Conditions : BeingPopped(d)' <=> d = c
  <2>1. /\ threadQueue' \in [Conditions -> Seq(Threads)] /\ QueuedOnce'
        /\ threadQueue'[c] # <<>> /\ h = threadQueue'[c][1]
    BY <1>2, <1>4, InvTypes DEF CallInv, CallType, QueuedOnce
  <2> QED
    BY <1>2, <1>4, <1>6, <1>8, <1>9, <1>12, <1>13, <2>1, InvTypes, SignalMoves
<1>15. Waiting(c) # <<>> /\ OnlyWaiting(c, Tail(Waiting(c)))
  BY <1>2, <1>7, <1>14 DEF Waiting, OnlyWaiting
<1>16. Holders(MonitorLock) = {t}
  BY <1>2, InvTypes, TheLock DEF LockInv, LockSafe, Holders
<1> QED
  BY <1>11, <1>14, <1>15, <1>16 DEF ClientInv, MonitorStep

LEMMA SleepOnItemStep ==
    ASSUME ClientInv, NEW t \in Threads, SleepOnItem(t)
    PROVE  ClientInv' /\ MonitorStep
<1>1. /\ NextIs(t, Step("Sleep", t)) /\ IsRunning(t) /\ waitingOn[t] = NoSem
      /\ currentThread = t /\ status[t] = "RUNNING"
      /\ TestValue(t, t)
      /\ pending' = [pending EXCEPT ![t] = Tail(pending[t])]
      /\ UNCHANGED <<priority, lockVars, ownerThread, threadQueue>>
  BY DEF SleepOnItem, NextStep, IsRunning, NextIs, Step, Return, lockVars
<1>2. ToSleep(t) /\ Tail(pending[t]) = <<Step("Reacquire", MonitorLock)>>
  BY <1>1, InvTypes, CallOfNext, NextOfCall
<1>3. /\ pending' \in [Threads -> Seq(Steps)]
      /\ pending'[t] = <<Step("Reacquire", MonitorLock)>>
      /\ \A u \in Threads \ {t} : pending'[u] = pending[u]
  <2>1. <<Step("Reacquire", MonitorLock)>> \in Seq(Steps)
    BY StepTypes
  <2> QED
    BY <1>1, <1>2, <2>1, InvTypes, OtherCalls DEF CallInv
<1>4. InNoAcquire(t) /\ InNoAcquire(t)'
  BY <1>2, <1>3, InvTypes, CallsAreDistinct, OutsideAcquire, NextCall
<1>5. /\ LockInv' /\ KeepsHolders
      /\ \A u \in Threads \ {t} : waitingOn'[u] = waitingOn[u]
      /\ \/ value[t] # 0 /\ value' = [value EXCEPT ![t] = @ - 1] /\ waitingOn'[t] = NoSem
         \/ value[t] = 0 /\ value' = value /\ waitingOn'[t] = t
  BY <1>1, <1>3, <1>4, InvTypes, TheLock, TestValueLockInv
<1>6. /\ \A u \in Threads \ {t} : value'[u] = value[u]
      /\ \/ value[t] # 0 /\ value'[t] = value[t] - 1
         \/ value'[t] = value[t] /\ waitingOn'[t] = t
      /\ waitingOn'[t] \in {NoSem, t}
  BY <1>5, InvTypes, TheLock
<1>7. CallInv' /\ SameWaiting
  BY <1>1, <1>2, <1>3, <1>5, <1>6, InvTypes, ItemMoves DEF Asleep
<1> QED
  BY <1>5, <1>7 DEF ClientInv, MonitorStep

LEMMA ReacquireStep ==
    ASSUME ClientInv, NEW t \in Threads, NEW l \in Locks, Reacquire(t, l)
    PROVE  ClientInv' /\ MonitorStep
<1>1. /\ NextIs(t, Step("Reacquire", l)) /\ IsRunning(t) /\ waitingOn[t] = NoSem
      /\ StartAcquire(t, l, Tail(pending[t])) /\ TestValue(t, l)
      /\ UNCHANGED <<ownerThread, threadQueue>>
  BY DEF Reacquire, NextStep, IsRunning, NextIs, Step, StartAcquire, lockVars
<1>2. ToReacquire(t) /\ l = MonitorLock /\ Tail(pending[t]) = <<>>
  BY <1>1, InvTypes, CallOfNext, NextOfCall
<1>3. /\ ~ToAcquire(t) /\ ~ToSleep(t) /\ \A c \in Conditions : ~Popping(t, c)
      /\ InNoAcquire(t) /\ <<>> \in Seq(Steps)
  BY <1>2, InvTypes, CallsAreDistinct, OutsideAcquire
<1>4. /\ LockInv'
      /\ Takes(t, MonitorLock) \/ (KeepsHolders /\ waitingOn'[t] = MonitorLock)
      /\ pending' = [pending EXCEPT ![t] = <<Own(MonitorLock)>> \o <<>>]
  <2>1. StartAcquire(t, MonitorLock, <<>>)
    BY <1>1, <1>2
  <2> QED
    BY <1>1, <1>3, <2>1, InvTypes, TheLock, StepTypes, StartAcquireInv
<1>5. /\ pending' \in [Threads -> Seq(Steps)] /\ pending'[t] = <<Own(MonitorLock)>>
      /\ \A u \in Threads \ {t} : pending'[u] = pending[u]
  <2>1. <<Own(MonitorLock)>> \o <<>> = <<Own(MonitorLock)>> /\ <<Own(MonitorLock)>> \in Seq(Steps)
    BY ShortSequences, StepTypes
  <2> QED
    BY <1>4, <2>1, InvTypes, OtherCalls DEF CallInv
<1>6. CallShape(t)' /\ \A c \in Conditions : ~Popping(t, c)'
  BY <1>5, NextCall
<1>7. /\ \A u \in Threads \ {t} : waitingOn'[u] = waitingOn[u]
      /\ \A u \in Threads : value'[u] = value[u]
      /\ waitingOn'[t] \in Locks \cup {NoSem}
  BY <1>1, <1>2, InvTypes, OthersAtP, TheLock
<1>8. ~Asleep(t)
  BY <1>1, <1>3, TheLock DEF Asleep
<1>9. waitingOn'[t] = MonitorLock \/ \A u \in Threads, c \in Conditions : ~Popping(u, c)
  BY <1>4, InvTypes, NoPopperWhenFree DEF Takes
<1>10. CallInv' /\ SameWaiting
  BY <1>1, <1>3, <1>5, <1>6, <1>7, <1>8, <1>9, InvTypes, CallMoves
<1> QED
  BY <1>4, <1>8, <1>10, InvTypes, TakerIsNotWaiting DEF ClientInv, MonitorStep

\* The pop that ends Signal or Broadcast.
LEMMA PopEndStep ==
    ASSUME ClientInv, NEW t \in Threads, NEW c \in Conditions,
           IsRunning(t), Popping(t, c), Return(t),
           threadQueue' = [threadQueue EXCEPT ![c] = Tail(@)],
           UNCHANGED <<kernelVars, lockVars>>
    PROVE  ClientInv' /\ MonitorStep
<1>1. /\ waitingOn[t] = NoSem /\ UNCHANGED <<value, waitingOn>>
      /\ pending' = [pending EXCEPT ![t] = Tail(pending[t])]
  BY DEF IsRunning, Return, kernelVars, semVars
<1>2. Tail(pending[t]) = <<>> /\ ~ToAcquire(t)
  BY NextOfCall, CallsAreDistinct
<1>3. /\ pending' \in [Threads -> Seq(Steps)] /\ pending'[t] = <<>>
      /\ \A u \in Threads \ {t} : pending'[u] = pending[u]
  <2>1. <<>> \in Seq(Steps)
    OBVIOUS
  <2> QED
    BY <1>1, <1>2, <2>1, InvTypes, OtherCalls DEF CallInv
<1>4. InNoAcquire(t) /\ InNoAcquire(t)'
  BY <1>2, <1>3, InvTypes, OutsideAcquire, NextCall
<1>5. LockInv' /\ KeepsHolders
  BY <1>3, <1>4, InvTypes, CallLockInv
<1>6. CallInv' /\ SameWaiting
  BY <1>1, <1>3, InvTypes, PopMoves
<1> QED
  BY <1>5, <1>6 DEF ClientInv, MonitorStep

\* Broadcast pops an item and wakes the thread of the next one.
LEMMA PopAndSignalStep ==
    ASSUME ClientInv, NEW t \in Threads, NEW c \in Conditions,
           IsRunning(t), Popping(t, c), UNCHANGED <<pending, priority, lockVars>>,
           threadQueue' = [threadQueue EXCEPT ![c] = Tail(@)],
           threadQueue'[c] # <<>>, V(Head(threadQueue'[c]))
    PROVE  ClientInv' /\ MonitorStep
<1>1. /\ waitingOn[t] = NoSem /\ ownerThread[MonitorLock] = t
      /\ threadQueue[c] # <<>>
      /\ UNCHANGED <<ownerThread, waitingOn>>
      /\ value' = [value EXCEPT ![Head(threadQueue'[c])] = @ + 1]
  BY InvTypes DEF IsRunning, V, lockVars, CallInv, PoppersOwn
<1>2. /\ threadQueue' \in [Conditions -> Seq(Threads)] /\ QueuedOnce'
      /\ \A d \in Conditions \ {c} : threadQueue'[d] = threadQueue[d]
      /\ \A i \in 1..Len(threadQueue'[c]) :
           /\ i + 1 \in 1..Len(threadQueue[c]) /\ i + 1 # 1
           /\ threadQueue'[c][i] = threadQueue[c][i + 1]
  BY <1>1, InvTypes, PopQueue DEF CallInv
<1>3. PICK h : h = Head(threadQueue'[c])
  OBVIOUS
<1>4. h \in Threads /\ h = threadQueue'[c][1]
  <2>1. threadQueue'[c] \in Seq(Threads)
    BY <1>2
  <2> QED
    BY <1>3, <2>1, LenProperties
<1>5. h \in Semaphores \ Locks
  BY <1>4, TheLock
<1>6. /\ ~ToAcquire(t) /\ ~ToSleep(t)
      /\ InNoAcquire(t) /\ InNoAcquire(t)'
  BY InvTypes, CallsAreDistinct, OutsideAcquire DEF InNoAcquire, NextIs
<1>7. \A d \in Conditions : BeingPopped(d) <=> d = c
  BY InvTypes, OnePopper DEF BeingPopped
<1>8. LockInv' /\ KeepsHolders
  BY <1>3, <1>5, <1>6, InvTypes, VLockInv
<1>9. /\ value'[h] = value[h] + 1 /\ \A u \in Threads \ {h} : value'[u] = value[u]
  BY <1>1, <1>3, <1>4, InvTypes, TheLock
<1>10. ASSUME NEW d \in Conditions, NEW i \in 1..Len(threadQueue'[d])
       PROVE  Asleep(threadQueue'[d][i]) /\ value[threadQueue'[d][i]] = 0
  <2>1. CASE d = c
    BY <1>2, <2>1, InvTypes, UnsignalledSleep
  <2>2. CASE d # c
    BY <1>2, <1>7, <2>2, InvTypes, UnsignalledSleep
  <2> QED
    BY <2>1, <2>2
<1>11. CallInv' /\ \A d \in Conditions : BeingPopped(d)' <=> d = c
  <2>1. pending' \in [Threads -> Seq(Steps)]
    BY InvTypes
  <2>2. pending'[t] \in {<<Step("Pop", c)>>, <<Step("PopMore", c)>>}
    BY DEF Popping
  <2> QED
    <3>1. CallInv
      BY InvTypes
    <3>2. \A u \in Threads \ {t} : pending'[u] = pending[u]
      OBVIOUS
    <3> QED
      BY <1>1, <1>2, <1>4, <1>6, <1>9, <1>10, <2>1, <2>2, <3>1, <3>2,
         SignalMoves, ZenonT(60)
<1>12. Waiting(c) # <<>> /\ OnlyWaiting(c, Tail(Waiting(c)))
  <2>1. threadQueue'[c] = Tail(threadQueue[c])
    BY InvTypes DEF CallInv, CallType
  <2> QED
    BY <1>2, <1>7, <1>11, <2>1 DEF Waiting, OnlyWaiting
<1>13. Holders(MonitorLock) = {t}
  BY <1>1, InvTypes, TheLock DEF LockInv, LockSafe, Holders
<1> QED
  BY <1>8, <1>11, <1>12, <1>13 DEF ClientInv, MonitorStep

LEMMA PopStep ==
    ASSUME ClientInv, NEW t \in Threads, NEW c \in Conditions,
           PopSignalled(t, c) \/ PopAndContinue(t, c)
    PROVE  ClientInv' /\ MonitorStep
<1>1. /\ NextIs(t, Step("Pop", c)) \/ NextIs(t, Step("PopMore", c))
      /\ IsRunning(t)
      /\ threadQueue' = [threadQueue EXCEPT ![c] = Tail(@)]
      /\ UNCHANGED lockVars
  BY DEF PopSignalled, PopAndContinue, NextStep, NextIs, Step
<1>2. Popping(t, c)
  BY <1>1, InvTypes, CallOfNext DEF Popping
<1>3. \/ Return(t) /\ UNCHANGED kernelVars
      \/ /\ threadQueue'[c] # <<>> /\ V(Head(threadQueue'[c]))
         /\ UNCHANGED <<priority, pending>>
  BY DEF PopSignalled, PopAndContinue
<1> QED
  BY <1>1, <1>2, <1>3, PopEndStep, PopAndSignalStep

\* A woken thread tests the value again, in Acquire or in the P() of its item.
LEMMA RetryStep ==
    ASSUME ClientInv, NEW t \in Threads, RetryP(t),
           UNCHANGED <<lockVars, pending, threadQueue>>
    PROVE  ClientInv' /\ MonitorStep
<1>1. /\ LockInv'
      /\ \A u \in Threads \ {t} : waitingOn'[u] = waitingOn[u]
      /\ \/ /\ waitingOn[t] \in Locks
            /\ Takes(t, waitingOn[t]) \/ (KeepsHolders /\ waitingOn' = waitingOn)
            /\ \A s \in Semaphores \ Locks : value'[s] = value[s]
         \/ /\ waitingOn[t] \in Semaphores \ Locks /\ KeepsHolders
            /\ \/ /\ value[waitingOn[t]] # 0 /\ waitingOn'[t] = NoSem
                  /\ value' = [value EXCEPT ![waitingOn[t]] = @ - 1]
               \/ waitingOn' = waitingOn /\ value' = value
  BY InvTypes, RetryPLockInv
<1>2. UNCHANGED ownerThread
  BY DEF lockVars
<1>3. CASE waitingOn[t] \in Locks
  <2>1. /\ waitingOn[t] = MonitorLock
        /\ Takes(t, MonitorLock) \/ (KeepsHolders /\ waitingOn' = waitingOn)
        /\ \A u \in Threads : value'[u] = value[u]
    BY <1>1, <1>3, TheLock
  <2>2. ToAcquire(t)
    BY <2>1, TheLock, InvTypes, CallOfNext DEF LockInv, WaitersAcquire
  <2>3. /\ ~ToSleep(t) /\ ~Asleep(t)
        /\ \A c \in Conditions : ~Popping(t, c) /\ ~Popping(t, c)'
        /\ CallShape(t)'
    BY <2>1, <2>2, TheLock, CallsAreDistinct, SameCall, InvTypes DEF Asleep
  <2>4. CASE KeepsHolders /\ waitingOn' = waitingOn
    BY <1>1, <1>2, <2>1, <2>4, InvTypes, CallsStay DEF ClientInv, MonitorStep
  <2>5. CASE Takes(t, MonitorLock)
    <3>1. waitingOn'[t] \in Locks \cup {NoSem}
      <4>1. Acquired(t, MonitorLock)' \/ ownerThread'[MonitorLock] = t
        BY <2>5 DEF Takes, Holders
      <4>2. ownerThread[MonitorLock] # t
        BY <2>5 DEF Takes, Holders
      <4> QED
        BY <1>2, <4>1, <4>2, TheLock DEF Acquired
    <3>2. CallInv' /\ SameWaiting
      BY <1>1, <1>2, <2>1, <2>3, <2>5, <3>1, InvTypes, NoPopperWhenFree, CallMoves
         DEF Takes
    <3> QED
      BY <1>1, <2>3, <2>5, <3>2, InvTypes, TakerIsNotWaiting DEF ClientInv, MonitorStep
  <2> QED
    BY <2>1, <2>4, <2>5
<1>4. CASE waitingOn[t] \notin Locks
  <2>1. waitingOn[t] # NoSem
    BY DEF RetryP
  <2>2. waitingOn[t] = t /\ ToReacquire(t) /\ Asleep(t)
    BY <1>4, <2>1, InvTypes DEF CallInv, ItemWaiters, Asleep
  <2>3. /\ \A u \in Threads \ {t} : value'[u] = value[u]
        /\ \/ value[t] # 0 /\ value'[t] = value[t] - 1
           \/ value'[t] = value[t] /\ waitingOn'[t] = t
        /\ waitingOn'[t] \in {NoSem, t} /\ KeepsHolders
    BY <1>1, <1>4, <2>2, InvTypes, TheLock
  <2>4. pending'[t] = <<Step("Reacquire", MonitorLock)>>
    BY <2>2 DEF ToReacquire
  <2>5. CallInv' /\ SameWaiting
    BY <1>1, <1>2, <2>2, <2>3, <2>4, InvTypes, ItemMoves
  <2> QED
    BY <1>1, <2>3, <2>5 DEF ClientInv, MonitorStep
<1> QED
  BY <1>3, <1>4

LEMMA ClientStep == ClientInv /\ [Next]_vars => ClientInv' /\ MonitorStep
<1> SUFFICES ASSUME ClientInv, [Next]_vars PROVE ClientInv' /\ MonitorStep
  OBVIOUS
<1>1. CASE UNCHANGED vars
  <2>1. /\ UNCHANGED <<cpuVars, semVars, priority, lockVars, pending, threadQueue>>
        /\ UNCHANGED <<ownerThread, value, waitingOn>>
    BY <1>1 DEF vars, kernelVars, semVars, lockVars
  <2>2. priority' \in [Threads -> Nat]
    BY <2>1, InvTypes DEF LockInv, KernelInv, KernelTypeOK
  <2>3. LockInv' /\ KeepsHolders
    BY <2>1, <2>2, InvTypes, SchedulerLockInv
  <2> QED
    BY <2>1, <2>3, InvTypes, CallsStay DEF ClientInv, MonitorStep
<1>2. ASSUME NEW t \in Threads, CallStep(t) PROVE ClientInv' /\ MonitorStep
  BY <1>2, SleepOnItemStep, ReacquireStep, OwnStep, PopStep DEF CallStep
<1>3. CASE SchedulerStep
  BY <1>3, YieldStep, RetryStep DEF SchedulerStep
<1> QED
  BY <1>1, <1>2, <1>3, ForkStep, EnterStep, LeaveStep, WaitStep, SignalStep DEF Next

\* To the kernel, each step is one of its operations.
LEMMA CallKernelStep ==
    ASSUME NEW t \in Threads, CallStep(t)
    PROVE  KernelStep
<1>1. ASSUME SleepOnItem(t) PROVE KernelStep
  BY <1>1, TheLock DEF SleepOnItem, NextStep, KernelStep
<1>2. ASSUME NEW l \in Locks, Reacquire(t, l) PROVE KernelStep
  BY <1>2, LockKernelStep DEF Reacquire, NextStep
<1>3. ASSUME NEW l \in Locks, FinishAcquire(t, l) PROVE KernelStep
  BY <1>3, LockKernelStep
<1>4. ASSUME NEW c \in Conditions, PopSignalled(t, c) \/ PopAndContinue(t, c)
      PROVE  KernelStep
  BY <1>4 DEF PopSignalled, PopAndContinue, kernelVars, cpuVars, semVars, KernelStep
<1> QED
  BY <1>1, <1>2, <1>3, <1>4 DEF CallStep

LEMMA NextKernelStep == [Next]_vars => KernelStep
<1> SUFFICES ASSUME [Next]_vars PROVE KernelStep
  OBVIOUS
<1>1. ASSUME NEW t \in Threads, NEW child \in Threads, ThreadFork(t, child)
      PROVE  KernelStep
  BY <1>1 DEF ThreadFork, KernelStep
<1>2. ASSUME NEW t \in Threads, Enter(t) \/ Leave(t) PROVE KernelStep
  BY <1>2, TheLock, LockKernelStep DEF Enter, Leave, Acquire, InOwnCode
<1>3. ASSUME NEW t \in Threads, NEW c \in Conditions,
             Wait(t, c) \/ Signal(t, c) \/ Broadcast(t, c)
      PROVE  KernelStep
  BY <1>3, TheLock, LockKernelStep
     DEF Wait, Signal, Broadcast, StartWait, StartSignal, KernelStep
<1>4. CASE SchedulerStep
  BY <1>4 DEF SchedulerStep, KernelStep
<1>5. CASE UNCHANGED vars
  BY <1>5 DEF vars, kernelVars, cpuVars, semVars, KernelStep
<1> QED
  BY <1>1, <1>2, <1>3, <1>4, <1>5, CallKernelStep DEF Next

LEMMA ClientInvariant == Spec => []ClientInv
BY InitClientInv, ClientStep, PTL DEF Spec

-----------------------------------------------------------------------------
(* The refinement mapping, of this state and of the next.                  *)

LEMMA HolderOfOne ==
    /\ Holders(MonitorLock) = {} => Holder = NoThread
    /\ \A t : Holders(MonitorLock) = {t} => Holder = t
BY DEF Holder

LEMMA HolderOfOneNext ==
    /\ (/\ Holders(MonitorLock) = {} => Holder = NoThread
        /\ \A t : Holders(MonitorLock) = {t} => Holder = t)'
    /\ Holders(MonitorLock)' = Holders(MonitorLock) => Holder' = Holder
<1>1. Holders(MonitorLock)' = Holders(MonitorLock) => Holder' = Holder
  BY DEF Holder
<1> QED
  BY <1>1, HolderOfOne, PTL

LEMMA MappedWaiting ==
    CallType => \A c \in Conditions :
        Waiting(c) = IF PopPending(c) THEN Tail(threadQueue[c]) ELSE threadQueue[c]
BY PopPendingIsBeingPopped DEF Waiting

LEMMA MappedWaitingNext ==
    CallType' => (\A c \in Conditions :
        Waiting(c) = IF PopPending(c) THEN Tail(threadQueue[c]) ELSE threadQueue[c])'
BY MappedWaiting, PTL

-----------------------------------------------------------------------------
(* The theorems.                                                           *)

\* No item is woken twice, between any two steps of Wait, Signal and Broadcast:
\* its semaphore is 1 only for a thread that is off its queue, or is just being
\* popped, and that has not slept through it.
THEOREM ItemsAreWokenOnce == Spec => []ConditionSafe
<1>1. ClientInv => ConditionSafe
  BY WakesOnceIsItemsWakeOnce
     DEF ClientInv, CallInv, CallType, LockInv, LockType, KernelInv, ConditionSafe, TypeOK
<1> QED
  BY <1>1, ClientInvariant, PTL

\* The lock of the monitor excludes whatever the threads do with the conditions,
\* and no V() of Signal or Release is lost.
THEOREM MonitorExcludes == Spec => [](LockSafe /\ OnePlace /\ NoLostWakeup)
<1>1. /\ ClientInv /\ BlockedWaitsOnSemaphore => LockSafe /\ OnePlace /\ NoLostWakeup
      /\ ClientInv => KernelInv
  BY OnePlaceParts DEF ClientInv, LockInv, KernelInv
<1>2. Init => BlockedWaitsOnSemaphore
  BY DEF Init, BlockedWaitsOnSemaphore
<1>3. ClientInv /\ BlockedWaitsOnSemaphore /\ [Next]_vars => BlockedWaitsOnSemaphore'
  BY <1>1, NextKernelStep, SleepersWait
<1> QED
  BY <1>1, <1>2, <1>3, ClientInvariant, PTL DEF Spec

\* Lock and Condition implement the Mesa monitor that synch.h describes.
THEOREM MonitorRefinement == Spec => ImplementsMesaMonitor
<1> DEFINE holder == [l \in Locks |-> Holder]
           waiting == [c \in Conditions |->
                          IF PopPending(c) THEN Tail(threadQueue[c]) ELSE threadQueue[c]]
<1>1. Init => Mesa!Init
  <2> SUFFICES ASSUME Init
               PROVE  /\ holder = [l \in Locks |-> NoThread]
                      /\ waiting = [c \in Conditions |-> <<>>]
    BY DEF Mesa!Init
  <2>1. \A t \in Threads : pending[t] = <<>>
    BY DEF Init
  <2>2. \A c \in Conditions : ~PopPending(c)
    BY <2>1 DEF PopPending
  <2>3. Holders(MonitorLock) = {}
    BY <2>1, TheLock, LockAssumption DEF Init, Holders, Acquired
  <2>4. Holder = NoThread
    BY <2>3, HolderOfOne
  <2> QED
    BY <2>2, <2>4 DEF Init
<1>2. ClientInv /\ ClientInv' /\ [Next]_vars => [Mesa!Next]_<<holder, waiting>>
  <2> SUFFICES ASSUME ClientInv, ClientInv', [Next]_vars
               PROVE  [Mesa!Next]_<<holder, waiting>>
    OBVIOUS
  <2>1. MonitorStep
    BY ClientStep
  <2>2. /\ \A c \in Conditions : waiting[c] = Waiting(c)
        /\ \A c \in Conditions : waiting'[c] = Waiting(c)'
    BY MappedWaiting, MappedWaitingNext DEF ClientInv, CallInv
  <2>3. MonitorLock \in Locks /\ \A l \in Locks : l = MonitorLock
    BY TheLock
  <2>4. ASSUME SameWaiting PROVE waiting' = waiting
    BY <2>2, <2>4 DEF SameWaiting
  <2>5. ASSUME NEW c \in Conditions, NEW q, OnlyWaiting(c, q)
        PROVE  waiting' = [waiting EXCEPT ![c] = q]
    <3>1. \A d \in Conditions : waiting'[d] = IF d = c THEN q ELSE waiting[d]
      BY <2>2, <2>5 DEF OnlyWaiting
    <3>2. [waiting EXCEPT ![c] = q] = [d \in Conditions |-> IF d = c THEN q ELSE waiting[d]]
      OBVIOUS
    <3>3. waiting' = [d \in Conditions |-> waiting'[d]]
      OBVIOUS
    <3> QED
      BY <3>1, <3>2, <3>3
  <2>6. ASSUME KeepsHolders PROVE holder' = holder
    BY <2>3, <2>6, HolderOfOneNext DEF KeepsHolders
  <2>7. ASSUME NEW t \in Threads, Takes(t, MonitorLock)
        PROVE  holder[MonitorLock] = NoThread /\ holder' = [holder EXCEPT ![MonitorLock] = t]
    BY <2>3, <2>7, HolderOfOne, HolderOfOneNext DEF Takes
  <2>8. ASSUME NEW t \in Threads, Frees(t, MonitorLock)
        PROVE  holder[MonitorLock] = t /\ holder' = [holder EXCEPT ![MonitorLock] = NoThread]
    BY <2>3, <2>8, HolderOfOne, HolderOfOneNext DEF Frees
  <2>9. ASSUME NEW t \in Threads, Holders(MonitorLock) = {t}
        PROVE  holder[MonitorLock] = t
    BY <2>3, <2>9, HolderOfOne
  <2> HIDE DEF holder, waiting
  <2>10. CASE KeepsHolders /\ SameWaiting
    BY <2>4, <2>6, <2>10 DEF holder, waiting
  <2>11. ASSUME NEW t \in Threads, Takes(t, MonitorLock), SameWaiting,
                \A c \in Conditions : t \notin Range(Waiting(c))
         PROVE  Mesa!Acquire(t, MonitorLock)
    BY <2>2, <2>4, <2>7, <2>11 DEF Mesa!Acquire, Mesa!Range, Range, holder, waiting
  <2>12. ASSUME NEW t \in Threads, Frees(t, MonitorLock), SameWaiting
         PROVE  Mesa!Release(t, MonitorLock)
    BY <2>4, <2>8, <2>12 DEF Mesa!Release, holder, waiting
  <2>13. ASSUME NEW t \in Threads, NEW c \in Conditions, Frees(t, MonitorLock),
                OnlyWaiting(c, Append(Waiting(c), t))
         PROVE  Mesa!Wait(t, c, MonitorLock)
    BY <2>2, <2>5, <2>8, <2>13 DEF Mesa!Wait, holder, waiting
  <2>14. ASSUME NEW t \in Threads, NEW c \in Conditions, KeepsHolders,
                Holders(MonitorLock) = {t}, Waiting(c) # <<>>,
                OnlyWaiting(c, Tail(Waiting(c)))
         PROVE  Mesa!Signal(t, c, MonitorLock)
    BY <2>2, <2>5, <2>6, <2>9, <2>14 DEF Mesa!Signal, holder, waiting
  <2> QED
    BY <2>1, <2>3, <2>10, <2>11, <2>12, <2>13, <2>14 DEF MonitorStep, Mesa!Next
<1> QED
  BY <1>1, <1>2, ClientInvariant, PTL DEF Spec, ImplementsMesaMonitor, Mesa!Spec

=============================================================================
