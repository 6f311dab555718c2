-------------------------- MODULE ConditionClients --------------------------
(***************************************************************************)
(* Threads that use condition variables the way synch.h asks: every call   *)
(* is made by the holder of the one lock of the monitor.                   *)
(***************************************************************************)
EXTENDS NachosCondition

CONSTANT MonitorLock

ASSUME ClientAssumption ==
    /\ Locks = {MonitorLock}

vars == <<kernelVars, lockVars, pending, threadQueue>>

Init ==
    /\ currentThread = MainThread
    /\ readyList = <<>>
    /\ status = [t \in Threads |-> IF t = MainThread THEN "RUNNING" ELSE "JUST_CREATED"]
    /\ priority = [t \in Threads |-> DefaultPriority]
    /\ value = [s \in Semaphores |-> IF s \in Locks THEN 1 ELSE 0]
    /\ queue = [s \in Semaphores |-> <<>>]
    /\ waitingOn = [t \in Threads |-> NoSem]
    /\ ownerThread = [l \in Locks |-> NoThread]
    /\ originalHolderPriority = [l \in Locks |-> DefaultPriority]
    /\ pending = [t \in Threads |-> <<>>]
    /\ threadQueue = [c \in Conditions |-> <<>>]

-----------------------------------------------------------------------------

ThreadFork(t, child) ==
    /\ pending[t] = <<>>
    /\ Fork(t, child)
    /\ UNCHANGED <<lockVars, pending, threadQueue>>

InMonitor(t) == InOwnCode(t) /\ ownerThread[MonitorLock] = t

\* A thread outside the monitor enters; clients do not nest Acquire.
Enter(t) ==
    /\ ownerThread[MonitorLock] # t
    /\ Acquire(t, MonitorLock)
    /\ UNCHANGED threadQueue

Leave(t) ==
    /\ InMonitor(t)
    /\ Release(t, MonitorLock)
    /\ UNCHANGED <<pending, threadQueue>>

Wait(t, c) == InMonitor(t) /\ StartWait(t, c, MonitorLock, <<>>)

Signal(t, c) == InMonitor(t) /\ StartSignal(t, c, "Pop", <<>>)

Broadcast(t, c) == InMonitor(t) /\ StartSignal(t, c, "PopMore", <<>>)

Next ==
    \/ \E t \in Threads :
        \/ \E child \in Threads : ThreadFork(t, child)
        \/ Enter(t) \/ Leave(t)
        \/ \E c \in Conditions : Wait(t, c) \/ Signal(t, c) \/ Broadcast(t, c)
        \/ CallStep(t)
    \/ SchedulerStep

Spec == Init /\ [][Next]_vars

(***************************************************************************)
(* The running thread is preempted now and then (`nachos -rs'), a call     *)
(* goes on, and so does a woken thread.                                    *)
(***************************************************************************)
Fairness ==
    /\ \A t \in Threads :
        /\ WF_vars(Yield(t) /\ UNCHANGED <<lockVars, pending, threadQueue>>)
        /\ WF_vars(RetryP(t) /\ UNCHANGED <<lockVars, pending, threadQueue>>)
        /\ SF_vars(CallStep(t))

FairSpec == Spec /\ Fairness

-----------------------------------------------------------------------------
(* Properties.                                                             *)

Steps ==
    [step : {"Own", "Reacquire"}, of : Locks] \cup [step : {"Sleep"}, of : Threads]
        \cup [step : {"Pop", "PopMore"}, of : Conditions]

TypeOK ==
    /\ KernelTypeOK
    /\ ownerThread \in [Locks -> Threads \cup {NoThread}]
    /\ originalHolderPriority \in [Locks -> Nat]
    /\ pending \in [Threads -> Seq(Steps)]
    /\ threadQueue \in [Conditions -> Seq(Threads)]

(***************************************************************************)
(* Lock and Condition implement the Mesa monitor.  Between the V() and the *)
(* pop of Signal the woken item is still in the queue, and the woken       *)
(* thread can run into the Acquire at the end of its Wait.                 *)
(***************************************************************************)
PopPending(c) ==
    \E t \in Threads : pending[t] # <<>> /\ Head(pending[t]) \in
        {Step("Pop", c), Step("PopMore", c)}

Holder ==
    IF Holders(MonitorLock) = {} THEN NoThread
    ELSE CHOOSE t \in Holders(MonitorLock) : TRUE

Mesa == INSTANCE MesaMonitor WITH
    FREE <- NoThread,
    holder <- [l \in Locks |-> Holder],
    waiting <- [c \in Conditions |->
        IF PopPending(c) THEN Tail(threadQueue[c]) ELSE threadQueue[c]]

ImplementsMesaMonitor == Mesa!Spec

(***************************************************************************)
(* The semaphore of an item carries one wake-up from one Signal to the one *)
(* Wait that made the item: it is 1 only for a thread that has been taken  *)
(* off its queue, or is just being, and that has not slept through it.     *)
(***************************************************************************)
ItemsWakeOnce ==
    \A t \in Threads :
        /\ value[t] <= 1
        /\ value[t] = 1 =>
            /\ waitingOn[t] = t \/ (pending[t] # <<>> /\ Head(pending[t]) = Step("Sleep", t))
            /\ \A c \in Conditions : \A i \in 1..Len(threadQueue[c]) :
                threadQueue[c][i] = t => i = 1 /\ PopPending(c)

\* No item is woken twice, between any two steps of Wait, Signal and Broadcast
\* (synch.cc:149, 160, 167).
ConditionSafe == TypeOK /\ ItemsWakeOnce

\* A thread that was signalled gets past the semaphore of its item.
SignalledThreadResumes == \A t \in Threads : value[t] = 1 ~> value[t] = 0

=============================================================================
