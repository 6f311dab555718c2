-------------------------- MODULE NachosCondition --------------------------
(***************************************************************************)
(* class Condition of src/cs4411/nachosC/threads/synch.cc.  A waiter puts  *)
(* a conditionItem of its own in the queue: the thread and a semaphore     *)
(* that starts at 0.  A thread has at most one item at a time, so that the *)
(* semaphore of t's item is named t.                                       *)
(***************************************************************************)
EXTENDS NachosLock

CONSTANT Conditions

ASSUME ConditionAssumption ==
    /\ Threads \subseteq Semaphores
    /\ Threads \cap Locks = {}

VARIABLE threadQueue    \* Condition::threadQueue, the threads of the items

Step(step, of) == [step |-> step, of |-> of]

(***************************************************************************)
(* Condition::Wait by the owner of the lock: the item is queued and the    *)
(* lock released before t can be preempted.  `rest' is what t does when it *)
(* has the lock again.                                                     *)
(***************************************************************************)
StartWait(t, c, l, rest) ==
    /\ Release(t, l)
    /\ threadQueue' = [threadQueue EXCEPT ![c] = Append(@, t)]
    /\ pending' = [pending EXCEPT ![t] = <<Step("Sleep", t), Step("Reacquire", l)>> \o rest]

(***************************************************************************)
(* Condition::Wait with a lock that t does not own: Release only prints,   *)
(* and t sleeps with every lock it owns.                                   *)
(***************************************************************************)
StartWaitUnowned(t, c, l, rest) ==
    /\ ownerThread[l] # t
    /\ threadQueue' = [threadQueue EXCEPT ![c] = Append(@, t)]
    /\ TestValue(t, t)
    /\ pending' = [pending EXCEPT ![t] = <<Step("Reacquire", l)>> \o rest]
    /\ UNCHANGED <<priority, lockVars>>

\* ci->sem->P()
SleepOnItem(t) ==
    /\ NextStep(t, "Sleep", t)
    /\ TestValue(t, t)
    /\ Return(t)
    /\ UNCHANGED <<priority, lockVars, threadQueue>>

\* conditionLock->Acquire(), at the end of Wait
Reacquire(t, l) ==
    /\ NextStep(t, "Reacquire", l)
    /\ StartAcquire(t, l, Tail(pending[t]))
    /\ UNCHANGED threadQueue

(***************************************************************************)
(* Condition::Signal with a thread waiting: the V() on the first item,     *)
(* after which t can be preempted, and then the pop.                       *)
(***************************************************************************)
StartSignal(t, c, then, rest) ==
    /\ threadQueue[c] # <<>>
    /\ V(Head(threadQueue[c]))
    /\ pending' = [pending EXCEPT ![t] = <<Step(then, c)>> \o rest]
    /\ UNCHANGED <<priority, lockVars, threadQueue>>

\* MUTANT of PopSignalled: the signalled item stays first in the queue.
PopNothing(t, c) ==
    /\ NextStep(t, "Pop", c)
    /\ Return(t)
    /\ UNCHANGED <<kernelVars, lockVars, threadQueue>>

\* threadQueue.pop(), the end of Signal
PopSignalled(t, c) ==
    /\ NextStep(t, "Pop", c)
    /\ threadQueue' = [threadQueue EXCEPT ![c] = Tail(@)]
    /\ Return(t)
    /\ UNCHANGED <<kernelVars, lockVars>>

\* threadQueue.pop() in Broadcast, whose loop goes on with the next item up to
\* the end of its V().
PopAndContinue(t, c) ==
    /\ NextStep(t, "PopMore", c)
    /\ threadQueue' = [threadQueue EXCEPT ![c] = Tail(@)]
    /\ \/ /\ threadQueue'[c] = <<>>
          /\ Return(t)
          /\ UNCHANGED kernelVars
       \/ /\ threadQueue'[c] # <<>>
          /\ V(Head(threadQueue'[c]))
          /\ UNCHANGED <<priority, pending>>
    /\ UNCHANGED lockVars

\* A step inside a call, of whichever thread has the CPU.
CallStep(t) ==
    \/ SleepOnItem(t)
    \/ \E l \in Locks : Reacquire(t, l)
    \/ \E l \in Locks : FinishAcquire(t, l) /\ UNCHANGED threadQueue
    \/ \E c \in Conditions : PopSignalled(t, c) \/ PopAndContinue(t, c)

\* A step of the scheduler or of a woken thread, inside whatever call.  No
\* interrupt wakes a thread here: an idle machine stays idle.
SchedulerStep ==
    /\ \E t \in Threads : Yield(t) \/ RetryP(t)
    /\ UNCHANGED <<lockVars, pending, threadQueue>>

=============================================================================
