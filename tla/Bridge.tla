------------------------------- MODULE Bridge -------------------------------
(***************************************************************************)
(* The one-lane bridge of src/cs4411/nachosC/threads/threadtest.cc: cars   *)
(* are threads, a lock guards the counters of the bridge, and each         *)
(* direction has a condition variable with a lock of its own.  ThreadTest  *)
(* forks the cars of direction 0, then those of direction 1.               *)
(*                                                                         *)
(* A car's whole program is in `pending'; what can be preempted or sleep   *)
(* lies between two of its steps.                                          *)
(***************************************************************************)
EXTENDS NachosCondition

CONSTANTS
    N0, N1,         \* how many cars of each direction; 10 and 10 in ThreadTest
    Car_Lock, CV_DIR0_LOCK, CV_DIR1_LOCK,
    CV_DIR0, CV_DIR1,
    MAX_LOAD

\* The cars in the order ThreadTest forks them.
Cars == 1..N0 + N1

Directions == {0, 1}

Direction(t) == IF t <= N0 THEN 0 ELSE 1

CV_LOCK(d) == IF d = 0 THEN CV_DIR0_LOCK ELSE CV_DIR1_LOCK

CV_DIR(d) == IF d = 0 THEN CV_DIR0 ELSE CV_DIR1

\* What an instance gives Threads, Locks, Conditions and Semaphores.
BridgeThreads == {MainThread} \cup Cars
BridgeLocks == {Car_Lock, CV_DIR0_LOCK, CV_DIR1_LOCK}
BridgeConditions == {CV_DIR0, CV_DIR1}
BridgeSemaphores == BridgeLocks \cup BridgeThreads

ASSUME BridgeAssumption ==
    /\ N0 \in Nat /\ N1 \in Nat
    /\ MainThread = 0
    /\ Threads = BridgeThreads
    /\ Locks = BridgeLocks
    /\ Conditions = BridgeConditions /\ CV_DIR0 # CV_DIR1
    /\ MAX_LOAD \in Nat \ {0}

VARIABLES
    COUNT,      \* DIR0_COUNT and DIR1_COUNT, by direction
    CUR_DIR

bridgeVars == <<COUNT, CUR_DIR>>
syncVars == <<kernelVars, lockVars, pending, threadQueue>>
vars == <<syncVars, bridgeVars>>

Other(d) == 1 - d

Init ==
    /\ currentThread = MainThread
    /\ readyList = <<>>
    /\ status = [t \in Threads |-> IF t = MainThread THEN "RUNNING" ELSE "JUST_CREATED"]
    /\ priority = [t \in Threads |-> DefaultPriority]
    /\ value = [s \in Semaphores |-> IF s \in Locks THEN 1 ELSE 0]
    /\ queue = [s \in Semaphores |-> <<>>]
    /\ waitingOn = [t \in Threads |-> NoSem]
    /\ ownerThread = [l \in Locks |-> NoThread]
    /\ originalHolderPriority = [l \in Locks |-> DefaultPriority]
    /\ pending = [t \in Threads |->
        IF t = MainThread THEN <<>> ELSE <<Step("Arrive", Direction(t))>>]
    /\ threadQueue = [c \in Conditions |-> <<>>]
    /\ COUNT = [d \in Directions |-> 0]
    /\ CUR_DIR = 0

-----------------------------------------------------------------------------
(* ThreadTest and the end of every thread.                                 *)

ForkNextCar ==
    \E t \in Cars :
        /\ \A u \in 1..t - 1 : status[u] # "JUST_CREATED"
        /\ Fork(MainThread, t)
        /\ UNCHANGED <<lockVars, pending, threadQueue, bridgeVars>>

\* Thread::Finish of a thread that nobody joins: it sleeps for ever.
Finish(t) ==
    /\ InOwnCode(t)
    /\ t = MainThread => \A u \in Cars : status[u] # "JUST_CREATED"
    /\ Sleep(t)
    /\ UNCHANGED <<priority, semVars, lockVars, pending, threadQueue, bridgeVars>>

-----------------------------------------------------------------------------
(* ArriveBridge.                                                           *)

\* DIR0_CHECK and DIR1_CHECK: Car_Lock->Acquire().
Arrive(t, d) ==
    /\ NextStep(t, "Arrive", d)
    /\ StartAcquire(t, Car_Lock, <<Step("Check", d)>>)
    /\ UNCHANGED <<threadQueue, bridgeVars>>

\* MUTANT of MyTurn: only the own direction is looked at.
MyTurnUnlessQueued(d) == CUR_DIR = d \/ COUNT[d] = 0

MyTurn(d) == CUR_DIR = d \/ \A e \in Directions : COUNT[e] = 0

\* Unlock(l) is the step l->Release().
Unlock(l) == Step("Unlock", l)

\* MUTANT of EnterBridge: one car too many.
EnterOverfullBridge(t, d) ==
    /\ NextStep(t, "Check", d)
    /\ MyTurn(d)
    /\ COUNT[d] <= MAX_LOAD
    /\ COUNT' = [COUNT EXCEPT ![d] = @ + 1]
    /\ CUR_DIR' = d
    /\ StartAcquire(t, CV_LOCK(d),
           [i \in 1..MAX_LOAD - COUNT'[d] |-> Step("Signal", d)]
               \o <<Unlock(CV_LOCK(d)), Unlock(Car_Lock), Step("Exit", d)>>)
    /\ UNCHANGED threadQueue

\* Room on the bridge: the car enters, and signals once for every place left.
EnterBridge(t, d) ==
    /\ NextStep(t, "Check", d)
    /\ MyTurn(d)
    /\ COUNT[d] < MAX_LOAD
    /\ COUNT' = [COUNT EXCEPT ![d] = @ + 1]
    /\ CUR_DIR' = d
    /\ StartAcquire(t, CV_LOCK(d),
           [i \in 1..MAX_LOAD - COUNT'[d] |-> Step("Signal", d)]
               \o <<Unlock(CV_LOCK(d)), Unlock(Car_Lock), Step("Exit", d)>>)
    /\ UNCHANGED threadQueue

\* No room, or traffic the other way: the car takes the lock of its condition
\* variable, gives up Car_Lock and waits; then it starts again.
QueueUp(t, d, wait) ==
    /\ StartAcquire(t, CV_LOCK(d),
           <<Unlock(Car_Lock), Step(wait, d), Unlock(CV_LOCK(d)), Step("Arrive", d)>>)
    /\ UNCHANGED threadQueue

BridgeFull(t, d) ==
    /\ NextStep(t, "Check", d)
    /\ MyTurn(d)
    /\ COUNT[d] >= MAX_LOAD
    /\ CUR_DIR' = d
    /\ QueueUp(t, d, "WaitFull")
    /\ UNCHANGED COUNT

WrongWay(t, d) ==
    /\ NextStep(t, "Check", d)
    /\ ~MyTurn(d)
    /\ QueueUp(t, d, "WaitTurn")
    /\ UNCHANGED bridgeVars

\* The lock that the Wait of each place passes: CV_DIR0_LOCK also for the cars
\* of direction 1 that find the bridge full.
WaitLock(step, d) == IF step = "WaitFull" THEN CV_LOCK(0) ELSE CV_LOCK(d)

WaitForSignal(t, d) ==
    /\ \E step \in {"WaitFull", "WaitTurn"} :
        /\ NextStep(t, step, d)
        /\ \/ StartWait(t, CV_DIR(d), WaitLock(step, d), Tail(pending[t]))
           \/ StartWaitUnowned(t, CV_DIR(d), WaitLock(step, d), Tail(pending[t]))
    /\ UNCHANGED bridgeVars

SignalCar(t, d) ==
    /\ NextStep(t, "Signal", d)
    /\ \/ StartSignal(t, CV_DIR(d), "Pop", Tail(pending[t]))
       \/ /\ threadQueue[CV_DIR(d)] = <<>>
          /\ Return(t)
          /\ UNCHANGED <<kernelVars, lockVars, threadQueue>>
    /\ UNCHANGED bridgeVars

ReleaseLock(t, l) ==
    /\ NextStep(t, "Unlock", l)
    /\ Return(t)
    /\ Release(t, l) \/ (ownerThread[l] # t /\ UNCHANGED <<kernelVars, lockVars>>)
    /\ UNCHANGED <<threadQueue, bridgeVars>>

-----------------------------------------------------------------------------
(* ExitBridge.                                                             *)

StartExit(t, d) ==
    /\ NextStep(t, "Exit", d)
    /\ StartAcquire(t, Car_Lock, <<Step("Leave", d)>>)
    /\ UNCHANGED <<threadQueue, bridgeVars>>

\* The last car off the bridge hands it to the other direction.
LastLeaves(t, d) ==
    /\ NextStep(t, "Leave", d)
    /\ COUNT[d] = 1
    /\ COUNT' = [COUNT EXCEPT ![d] = 0]
    /\ CUR_DIR' = Other(d)
    /\ StartAcquire(t, CV_LOCK(Other(d)),
           <<Step("Signal", Other(d)), Unlock(CV_LOCK(Other(d))), Unlock(Car_Lock)>>)
    /\ UNCHANGED threadQueue

OneLeaves(t, d) ==
    /\ NextStep(t, "Leave", d)
    /\ COUNT[d] # 1
    /\ COUNT' = [COUNT EXCEPT ![d] = @ - 1]
    /\ Release(t, Car_Lock)
    /\ Return(t)
    /\ UNCHANGED <<threadQueue, CUR_DIR>>

-----------------------------------------------------------------------------

CarStep(t) ==
    \/ \E d \in Directions :
        \/ Arrive(t, d) \/ EnterBridge(t, d) \/ BridgeFull(t, d) \/ WrongWay(t, d)
        \/ WaitForSignal(t, d) \/ SignalCar(t, d)
        \/ StartExit(t, d) \/ LastLeaves(t, d) \/ OneLeaves(t, d)
    \/ \E l \in Locks : ReleaseLock(t, l)
    \/ CallStep(t) /\ UNCHANGED bridgeVars

Schedule == SchedulerStep /\ UNCHANGED bridgeVars

Next ==
    \/ ForkNextCar
    \/ \E t \in Threads : CarStep(t) \/ Finish(t)
    \/ Schedule

Spec == Init /\ [][Next]_vars

-----------------------------------------------------------------------------
(* Properties.                                                             *)

TypeOK ==
    /\ KernelTypeOK
    /\ ownerThread \in [Locks -> Threads \cup {NoThread}]
    /\ originalHolderPriority \in [Locks -> Nat]
    /\ threadQueue \in [Conditions -> Seq(Threads)]
    /\ COUNT \in [Directions -> 0..MAX_LOAD]
    /\ CUR_DIR \in Directions

\* The cars between the increment and the decrement of their counter.
OnBridge(d) ==
    {t \in Cars : \E i \in 1..Len(pending[t]) :
        pending[t][i] \in {Step("Exit", d), Step("Leave", d)}}

\* The bridge carries at most MAX_LOAD cars, all of one direction, although a
\* car that turns the traffic decides on counters it read before it waited, and
\* the locks exclude although a car waits with the wrong one (threadtest.cc:151).
BridgeSafe ==
    /\ TypeOK /\ LockSafe
    /\ \A d \in Directions :
        /\ Cardinality(OnBridge(d)) = COUNT[d]
        /\ COUNT[d] <= MAX_LOAD
    /\ OnBridge(0) = {} \/ OnBridge(1) = {}
    /\ \A d \in Directions : COUNT[d] > 0 => CUR_DIR = d

=============================================================================
