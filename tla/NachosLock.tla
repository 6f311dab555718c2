----------------------------- MODULE NachosLock -----------------------------
(***************************************************************************)
(* class Lock of src/cs4411/nachosC/threads/synch.cc: a semaphore, the     *)
(* owner, and priority donation to the owner.                              *)
(*                                                                         *)
(* A call that spans several operations of the kernel leaves the rest of   *)
(* itself in `pending': the steps the thread performs before it returns to *)
(* its own code.                                                           *)
(***************************************************************************)
EXTENDS NachosKernel

CONSTANTS
    Locks,      \* every lock stands for its own semaphore
    NoThread    \* the NULL of ownerThread

ASSUME LockAssumption == Locks \subseteq Semaphores /\ NoThread \notin Threads

VARIABLES
    ownerThread,             \* Lock::ownerThread of every lock
    originalHolderPriority,  \* Lock::originalHolderPriority of every lock
    pending                  \* what is left of the call each thread is in

lockVars == <<ownerThread, originalHolderPriority>>

\* t runs its own code: it is inside no call.
InOwnCode(t) == IsRunning(t) /\ pending[t] = <<>>

\* The next step of the call the running thread t is in.
NextStep(t, step, of) ==
    /\ IsRunning(t)
    /\ pending[t] # <<>>
    /\ Head(pending[t]) = [step |-> step, of |-> of]

Return(t) == pending' = [pending EXCEPT ![t] = Tail(@)]

-----------------------------------------------------------------------------

\* Lock::donatePriority, as the priorities it leaves.
DonatePriority(l, p) ==
    IF ownerThread[l] # NoThread /\ priority[ownerThread[l]] < p
    THEN [priority EXCEPT ![ownerThread[l]] = p]
    ELSE priority

(***************************************************************************)
(* Lock::Acquire up to the end of its P(), where t may be preempted or     *)
(* sleep; `rest' is what t does after it has the lock.                     *)
(***************************************************************************)
StartAcquire(t, l, rest) ==
    /\ priority' = DonatePriority(l, priority[t])
    /\ TestValue(t, l)
    /\ pending' = [pending EXCEPT ![t] = <<[step |-> "Own", of |-> l]>> \o rest]
    /\ UNCHANGED lockVars

Acquire(t, l) == InOwnCode(t) /\ StartAcquire(t, l, <<>>)

\* The two assignments of Lock::Acquire after its P().
FinishAcquire(t, l) ==
    /\ NextStep(t, "Own", l)
    /\ originalHolderPriority' = [originalHolderPriority EXCEPT ![l] = priority[t]]
    /\ ownerThread' = [ownerThread EXCEPT ![l] = t]
    /\ Return(t)
    /\ UNCHANGED kernelVars

\* MUTANT of Release: the donated priority stays.
ReleaseKeepsPriority(t, l) ==
    /\ ownerThread[l] = t
    /\ ownerThread' = [ownerThread EXCEPT ![l] = NoThread]
    /\ V(l)
    /\ UNCHANGED <<priority, originalHolderPriority>>

(***************************************************************************)
(* Lock::Release by the owner.  Called by any other thread it only prints. *)
(***************************************************************************)
Release(t, l) ==
    /\ ownerThread[l] = t
    /\ ownerThread' = [ownerThread EXCEPT ![l] = NoThread]
    /\ priority' = [priority EXCEPT ![t] = originalHolderPriority[l]]
    /\ V(l)
    /\ UNCHANGED originalHolderPriority

-----------------------------------------------------------------------------
(* Properties of any client.                                               *)

(***************************************************************************)
(* The threads between the P() of their Acquire and their Release.         *)
(***************************************************************************)
Acquired(t, l) ==
    /\ pending[t] # <<>>
    /\ Head(pending[t]) = [step |-> "Own", of |-> l]
    /\ waitingOn[t] = NoSem

Holders(l) == {t \in Threads : ownerThread[l] = t \/ Acquired(t, l)}

(***************************************************************************)
(* A lock is FREE or has one holder.  It counts on the test of ownerThread *)
(* in Release, which is written after the P() that takes the lock and      *)
(* cleared before the V() that frees it.                                   *)
(***************************************************************************)
LockSafe ==
    \A l \in Locks :
        /\ value[l] \in {0, 1}
        /\ value[l] = 1 => Holders(l) = {}
        /\ \A t, u \in Holders(l) : t = u
        /\ ownerThread[l] # NoThread => ~\E t \in Threads : Acquired(t, l)

=============================================================================
