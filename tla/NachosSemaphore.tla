-------------------------- MODULE NachosSemaphore --------------------------
(***************************************************************************)
(* Threads of src/cs4411/nachosC that use semaphores in any order, and     *)
(* devices that complete requests with an interrupt whose handler is a     *)
(* V(), as SynchDisk does.                                                 *)
(***************************************************************************)
EXTENDS NachosKernel_proofs

CONSTANTS
    Devices,       \* the semaphores that an interrupt handler signals
    Priorities,    \* what a client may pass to setPriority
    InitialValue,  \* the initial value of a semaphore that is not a device's
    MaxValue       \* BOUND: clients do not raise a semaphore above it

ASSUME ClientAssumption ==
    /\ Devices \subseteq Semaphores
    /\ Priorities \subseteq Nat
    /\ InitialValue \in Nat
    /\ MaxValue \in Nat

VARIABLE active    \* the devices with a request under way, Disk::active

vars == <<kernelVars, active>>

Init ==
    /\ currentThread = MainThread
    /\ readyList = <<>>
    /\ status = [t \in Threads |-> IF t = MainThread THEN "RUNNING" ELSE "JUST_CREATED"]
    /\ priority = [t \in Threads |-> DefaultPriority]
    /\ value = [s \in Semaphores |-> IF s \in Devices THEN 0 ELSE InitialValue]
    /\ queue = [s \in Semaphores |-> <<>>]
    /\ waitingOn = [t \in Threads |-> NoSem]
    /\ active = {}

-----------------------------------------------------------------------------
(* What a running thread may call.                                         *)

ThreadFork(t, child) == Fork(t, child) /\ UNCHANGED active

ThreadYield(t) == Yield(t) /\ UNCHANGED active

\* Thread::setPriority does not move a thread that is in the ready list.
SetPriority(t, target, p) ==
    /\ IsRunning(t)
    /\ status[target] # "JUST_CREATED"
    /\ priority' = [priority EXCEPT ![target] = p]
    /\ UNCHANGED <<cpuVars, semVars, active>>

ClientP(t, s) ==
    /\ s \notin Devices
    /\ P(t, s)
    /\ UNCHANGED active

ClientV(t, s) ==
    /\ s \notin Devices
    /\ IsRunning(t)
    /\ value[s] < MaxValue
    /\ V(s)
    /\ UNCHANGED <<priority, active>>

WokenP(t) == RetryP(t) /\ UNCHANGED active

Dispatch == IdleDispatch /\ UNCHANGED active

\* MUTANT of DeviceRequest: without the lock of SynchDisk.
DeviceRequestUnlocked(t, d) ==
    /\ d \notin active
    /\ active' = active \cup {d}
    /\ P(t, d)

(***************************************************************************)
(* SynchDisk::ReadSector and WriteSector between the Acquire and the       *)
(* Release of the disk's lock: no second request until the first requester *)
(* has left its P().  ReadRequest does not enable interrupts, so the       *)
(* requester is inside P() before the device can answer.                   *)
(***************************************************************************)
DeviceRequest(t, d) ==
    /\ d \notin active
    /\ value[d] = 0
    /\ \A u \in Threads : waitingOn[u] # d
    /\ active' = active \cup {d}
    /\ P(t, d)

(***************************************************************************)
(* Disk::HandleInterrupt and SynchDisk::RequestDone.  The handler runs     *)
(* when a thread enables interrupts, or while the machine idles.           *)
(***************************************************************************)
DeviceInterrupt(d) ==
    /\ d \in active
    /\ Idle \/ IsRunning(currentThread)
    /\ active' = active \ {d}
    /\ V(d)
    /\ UNCHANGED priority

Next ==
    \/ \E t \in Threads :
        \/ \E child \in Threads : ThreadFork(t, child)
        \/ \E target \in Threads, p \in Priorities : SetPriority(t, target, p)
        \/ \E s \in Semaphores : ClientP(t, s) \/ ClientV(t, s)
        \/ \E d \in Devices : DeviceRequest(t, d)
        \/ ThreadYield(t)
        \/ WokenP(t)
    \/ \E d \in Devices : DeviceInterrupt(d)
    \/ Dispatch

Spec == Init /\ [][Next]_vars

(***************************************************************************)
(* Once an interrupt is due it stays in Interrupt::pending and is          *)
(* delivered the next time interrupts are enabled, hence strong fairness.  *)
(* The simulated CPU never stops, and the timer of `nachos -rs' makes the  *)
(* running thread yield now and then.                                      *)
(***************************************************************************)
Fairness ==
    /\ \A d \in Devices : SF_vars(DeviceInterrupt(d))
    /\ \A t \in Threads : WF_vars(ThreadYield(t)) /\ WF_vars(WokenP(t))
    /\ WF_vars(Dispatch)

FairSpec == Spec /\ Fairness

-----------------------------------------------------------------------------
(* Properties.                                                             *)

\* Every variable keeps the type of the C++ object it models.
TypeOK == KernelTypeOK /\ active \subseteq Devices

(***************************************************************************)
(* A device has one request and one waiter: while it works its requester   *)
(* sleeps, and the unit its interrupt leaves is for a thread still in P(). *)
(***************************************************************************)
DeviceHandshake ==
    \A d \in Devices :
        /\ Cardinality({t \in Threads : waitingOn[t] = d}) <= 1
        /\ d \in active => value[d] = 0 /\ Len(queue[d]) = 1
        /\ value[d] = 1 => Woken(d) # {}

\* A thread waiting for a device gets its answer, whatever the other threads
\* do with their semaphores, and even when all of them sleep for ever.
DeviceWaitEnds ==
    \A t \in Threads, d \in Devices : waitingOn[t] = d ~> waitingOn[t] = NoSem

-----------------------------------------------------------------------------
(***************************************************************************)
(* Proofs, for any number of threads, semaphores and devices.              *)
(***************************************************************************)

\* The booting thread has the CPU and every queue is empty.
LEMMA InitKernelInv == Init => KernelInv
<1> SUFFICES ASSUME Init PROVE KernelInv
  OBVIOUS
<1>1. KernelTypeOK
  BY ClientAssumption, KernelAssumption DEF Init, KernelTypeOK, ThreadStatus
<1>2. Items(readyList) = {} /\ Distinct(readyList) /\ Sorted(readyList)
  BY DEF Init, Items, Distinct, Sorted
<1>3. \A s \in Semaphores : Range(queue[s]) = {} /\ IsInjective(queue[s])
  <2>1. DOMAIN <<>> = {}
    OBVIOUS
  <2> QED
    BY <2>1 DEF Init, Range, IsInjective
<1>4. Placed
  BY <1>2, <1>3, ClientAssumption
     DEF Init, Placed, OnCPU, ReadyListHoldsReady, QueueHoldsBlocked, NewThreadsAreNowhere
<1>5. NoLostWakeup
  BY DEF Init, NoLostWakeup
<1> QED
  BY <1>1, <1>2, <1>4, <1>5 DEF KernelInv, ReadyListSorted

\* Every step of a client or a device is an operation of the kernel.
LEMMA NextKernelInv == KernelInv /\ [Next]_vars => KernelInv'
<1> SUFFICES ASSUME KernelInv, [Next]_vars PROVE KernelInv'
  OBVIOUS
<1>1. priority \in [Threads -> Nat]
  BY DEF KernelInv, KernelTypeOK
<1>2. ASSUME NEW t \in Threads, NEW child \in Threads, ThreadFork(t, child)
      PROVE  KernelInv'
  BY <1>2, ForkInv DEF ThreadFork
<1>3. ASSUME NEW t \in Threads, NEW target \in Threads, NEW p \in Priorities,
             SetPriority(t, target, p)
      PROVE  KernelInv'
  <2>1. priority' \in [Threads -> Nat]
    BY <1>1, <1>3, ClientAssumption DEF SetPriority
  <2> QED
    BY <1>3, <2>1, KernelStutterInv DEF SetPriority
<1>4. ASSUME NEW t \in Threads, NEW s \in Semaphores, ClientP(t, s)
      PROVE  KernelInv'
  BY <1>4, PInv DEF ClientP
<1>5. ASSUME NEW t \in Threads, NEW s \in Semaphores, ClientV(t, s)
      PROVE  KernelInv'
  BY <1>1, <1>5, VInv DEF ClientV
<1>6. ASSUME NEW t \in Threads, NEW d \in Devices, DeviceRequest(t, d)
      PROVE  KernelInv'
  BY <1>6, PInv, ClientAssumption DEF DeviceRequest
<1>7. ASSUME NEW t \in Threads, ThreadYield(t) \/ WokenP(t)
      PROVE  KernelInv'
  BY <1>7, YieldInv, PInv DEF ThreadYield, WokenP
<1>8. ASSUME NEW d \in Devices, DeviceInterrupt(d)
      PROVE  KernelInv'
  BY <1>1, <1>8, VInv, ClientAssumption DEF DeviceInterrupt
<1>9. CASE Dispatch
  BY <1>9, IdleDispatchInv DEF Dispatch
<1>10. CASE UNCHANGED vars
  BY <1>1, <1>10, KernelStutterInv DEF vars, kernelVars
<1> QED
  BY <1>2, <1>3, <1>4, <1>5, <1>6, <1>7, <1>8, <1>9, <1>10 DEF Next

LEMMA KernelInvariant == Spec => []KernelInv
BY InitKernelInv, NextKernelInv, PTL DEF Spec

\* Only a device with a request is active.
LEMMA ActiveInvariant == Spec => [](active \subseteq Devices)
<1>1. Init => active \subseteq Devices
  BY DEF Init
<1>2. active \subseteq Devices /\ [Next]_vars => (active \subseteq Devices)'
  BY DEF Next, ThreadFork, SetPriority, ClientP, ClientV, DeviceRequest, ThreadYield,
         WokenP, DeviceInterrupt, Dispatch, vars
<1> QED
  BY <1>1, <1>2, PTL DEF Spec

\* Type correctness.
THEOREM TypeCorrect == Spec => []TypeOK
<1>1. KernelInv /\ active \subseteq Devices => TypeOK
  BY DEF KernelInv, TypeOK
<1> QED
  BY <1>1, KernelInvariant, ActiveInvariant, PTL

\* A thread is on the CPU, in the ready list or in one semaphore's queue, and
\* there only once, for any number of threads and semaphores.
THEOREM ThreadsInOnePlace == Spec => []OnePlace
<1>1. KernelInv /\ BlockedWaitsOnSemaphore => OnePlace
  BY OnePlaceParts DEF KernelInv
<1>2. Init => BlockedWaitsOnSemaphore
  BY DEF Init, BlockedWaitsOnSemaphore
<1>3. [Next]_vars => KernelStep
  BY ClientAssumption
     DEF Next, ThreadFork, SetPriority, ClientP, ClientV, P, DeviceRequest, ThreadYield,
         WokenP, DeviceInterrupt, Dispatch, vars, kernelVars, cpuVars, semVars, KernelStep
<1>4. KernelInv /\ BlockedWaitsOnSemaphore /\ [Next]_vars => BlockedWaitsOnSemaphore'
  BY <1>3, SleepersWait
<1> QED
  BY <1>1, <1>2, <1>4, KernelInvariant, PTL DEF Spec

\* The ready list stays sorted although setPriority leaves keys behind.
THEOREM ReadyListStaysSorted == Spec => []ReadyListSorted
<1>1. KernelInv => ReadyListSorted
  BY DEF KernelInv
<1> QED
  BY <1>1, KernelInvariant, PTL

\* No unit of a semaphore is left over while threads sleep on it, unless that
\* many woken threads have yet to look at it.
THEOREM WakeupsAreNotLost == Spec => []NoLostWakeup
<1>1. KernelInv => NoLostWakeup
  BY DEF KernelInv
<1> QED
  BY <1>1, KernelInvariant, PTL

-----------------------------------------------------------------------------
(***************************************************************************)
(* The handshake with a device.  The inductive invariant says of a device  *)
(* what KernelInv does not: it has at most one waiter, who sleeps while    *)
(* the device works, and at most one unit, left for a waiter.              *)
(***************************************************************************)
DeviceInv ==
    \A d \in Devices :
        /\ \A t, u \in Threads : waitingOn[t] = d /\ waitingOn[u] = d => t = u
        /\ value[d] \in {0, 1}
        /\ d \in active => value[d] = 0 /\ queue[d] # <<>>
        /\ value[d] = 1 => \E t \in Threads : waitingOn[t] = d

\* One waiter is one place in the queue, and a waiter that does not sleep has
\* been woken: a thread asleep on a unit would be a lost wake-up.
LEMMA DeviceInvImplies == KernelInv /\ DeviceInv => DeviceHandshake
<1> SUFFICES ASSUME KernelInv, DeviceInv, NEW d \in Devices
             PROVE  /\ Cardinality({t \in Threads : waitingOn[t] = d}) <= 1
                    /\ d \in active => value[d] = 0 /\ Len(queue[d]) = 1
                    /\ value[d] = 1 => Woken(d) # {}
  BY DEF DeviceHandshake
<1>1. /\ d \in Semaphores /\ d # NoSem
      /\ \A t, u \in Threads : waitingOn[t] = d /\ waitingOn[u] = d => t = u
  BY ClientAssumption, KernelAssumption DEF DeviceInv
<1>2. Cardinality({t \in Threads : waitingOn[t] = d}) <= 1
  <2> DEFINE W == {t \in Threads : waitingOn[t] = d}
  <2>1. CASE W = {}
    BY <2>1, FS_EmptySet
  <2>2. CASE W # {}
    <3>1. PICK t \in W : TRUE
      BY <2>2
    <3>2. W = {t}
      BY <1>1, <3>1
    <3> QED
      BY <3>2, FS_Singleton
  <2> QED
    BY <2>1, <2>2
<1>3. /\ queue[d] \in Seq(Threads) /\ IsInjective(queue[d])
      /\ Range(queue[d]) = {t \in Threads : status[t] = "BLOCKED" /\ waitingOn[t] = d}
  BY <1>1 DEF KernelInv, KernelTypeOK, Placed, QueueHoldsBlocked
<1>4. ASSUME d \in active PROVE value[d] = 0 /\ Len(queue[d]) = 1
  <2> DEFINE n == Len(queue[d])
  <2>1. value[d] = 0 /\ queue[d] # <<>>
    BY <1>4 DEF DeviceInv
  <2>2. n \in Nat /\ DOMAIN queue[d] = 1..n /\ n # 0
    BY <1>3, <2>1, LenProperties, EmptySeq
  <2>3. \A i \in 1..n : queue[d][i] \in Threads /\ waitingOn[queue[d][i]] = d
    BY <1>3, <2>2 DEF Range
  <2>4. ASSUME n > 1 PROVE FALSE
    <3>1. 1 \in 1..n /\ 2 \in 1..n
      BY <2>2, <2>4
    <3>2. queue[d][1] = queue[d][2]
      BY <1>1, <2>3, <3>1
    <3> QED
      BY <1>3, <2>2, <3>1, <3>2 DEF IsInjective
  <2>5. n = 1
    <3> HIDE DEF n
    <3> QED
      BY <2>2, <2>4
  <2> QED
    BY <2>1, <2>5
<1>5. ASSUME value[d] = 1 PROVE Woken(d) # {}
  <2>1. PICK t \in Threads : waitingOn[t] = d
    BY <1>5 DEF DeviceInv
  <2>2. status[t] \in ThreadStatus /\ status[t] # "JUST_CREATED"
    BY <1>1, <2>1 DEF KernelInv, KernelTypeOK, Placed, NewThreadsAreNowhere
  <2>3. CASE status[t] = "BLOCKED"
    <3>1. queue[d] # <<>>
      <4>1. t \in Range(queue[d])
        BY <1>3, <2>1, <2>3
      <4>2. DOMAIN <<>> = {}
        OBVIOUS
      <4> QED
        BY <4>1, <4>2 DEF Range
    <3>2. 1 <= Cardinality(Woken(d))
      BY <1>1, <1>5, <3>1 DEF KernelInv, NoLostWakeup
    <3> QED
      BY <3>2, FS_EmptySet
  <2>4. CASE status[t] # "BLOCKED"
    BY <2>1, <2>2, <2>4 DEF Woken, ThreadStatus
  <2> QED
    BY <2>3, <2>4
<1> QED
  BY <1>2, <1>4, <1>5

\* A step that leaves the devices' semaphores and their waiters alone.
LEMMA DeviceInvStutters ==
    ASSUME DeviceInv, UNCHANGED active,
           \A d \in Devices : value'[d] = value[d] /\ queue'[d] = queue[d],
           \A t \in Threads, d \in Devices : waitingOn'[t] = d <=> waitingOn[t] = d
    PROVE  DeviceInv'
BY DEF DeviceInv

\* P() on a semaphore: a client's is not a device's, and a thread that tests a
\* device's again finds its unit or sleeps again.
LEMMA TestValueDeviceInv ==
    ASSUME KernelInv, DeviceInv, UNCHANGED active,
           NEW t \in Threads, NEW s \in Semaphores, TestValue(t, s),
           waitingOn[t] = s \/ (waitingOn[t] = NoSem /\ s \notin Devices)
    PROVE  DeviceInv'
<1>1. /\ value \in [Semaphores -> Nat] /\ queue \in [Semaphores -> Seq(Threads)]
      /\ waitingOn \in [Threads -> Semaphores \cup {NoSem}]
      /\ Devices \subseteq Semaphores /\ NoSem \notin Semaphores
  BY ClientAssumption, KernelAssumption DEF KernelInv, KernelTypeOK
<1>2. CASE TakeUnit(t, s)
  <2>1. /\ value[s] # 0 /\ value' = [value EXCEPT ![s] = value[s] - 1]
        /\ waitingOn' = [waitingOn EXCEPT ![t] = NoSem] /\ queue' = queue
    BY <1>2 DEF TakeUnit
  <2>2. CASE s \notin Devices
    BY <1>1, <2>1, <2>2, DeviceInvStutters
  <2>3. CASE s \in Devices
    <3>1. value[s] = 1 /\ value'[s] = 0 /\ s \notin active
      BY <1>1, <2>1, <2>3 DEF DeviceInv
    <3> SUFFICES ASSUME NEW d \in Devices
                 PROVE  /\ \A u, v \in Threads : waitingOn'[u] = d /\ waitingOn'[v] = d => u = v
                        /\ value'[d] \in {0, 1}
                        /\ d \in active => value'[d] = 0 /\ queue'[d] # <<>>
                        /\ value'[d] = 1 => \E u \in Threads : waitingOn'[u] = d
      BY DEF DeviceInv
    <3>2. CASE d = s
      BY <1>1, <2>1, <2>3, <3>1, <3>2 DEF DeviceInv
    <3>3. CASE d # s
      BY <1>1, <2>1, <2>3, <3>3 DEF DeviceInv
    <3> QED
      BY <3>2, <3>3
  <2> QED
    BY <2>2, <2>3
<1>3. CASE EnqueueAndSleep(t, s)
  <2>1. /\ value' = value /\ queue' = [queue EXCEPT ![s] = Append(queue[s], t)]
        /\ waitingOn' = [waitingOn EXCEPT ![t] = s]
    BY <1>3 DEF EnqueueAndSleep
  <2>2. CASE s \notin Devices
    BY <1>1, <2>1, <2>2, DeviceInvStutters
  <2>3. CASE s \in Devices
    <3>1. waitingOn' = waitingOn
      BY <1>1, <2>1, <2>3
    <3>2. queue'[s] # <<>>
      BY <1>1, <2>1, AppendProperties
    <3> QED
      BY <1>1, <2>1, <3>1, <3>2 DEF DeviceInv
  <2> QED
    BY <2>2, <2>3
<1> QED
  BY <1>2, <1>3 DEF TestValue

\* A request makes the requester the only waiter, asleep in the queue.
LEMMA DeviceRequestInv ==
    ASSUME KernelInv, DeviceInv, NEW t \in Threads, NEW d \in Devices, DeviceRequest(t, d)
    PROVE  DeviceInv'
<1>1. /\ value \in [Semaphores -> Nat] /\ queue \in [Semaphores -> Seq(Threads)]
      /\ waitingOn \in [Threads -> Semaphores \cup {NoSem}]
      /\ Devices \subseteq Semaphores /\ NoSem \notin Semaphores
  BY ClientAssumption, KernelAssumption DEF KernelInv, KernelTypeOK
<1>2. /\ value[d] = 0 /\ \A u \in Threads : waitingOn[u] # d
      /\ waitingOn[t] = NoSem /\ active' = active \cup {d}
      /\ value' = value /\ queue' = [queue EXCEPT ![d] = Append(queue[d], t)]
      /\ waitingOn' = [waitingOn EXCEPT ![t] = d]
  BY DEF DeviceRequest, P, IsRunning, TestValue, TakeUnit, EnqueueAndSleep
<1>3. queue'[d] # <<>>
  <2>1. queue[d] \in Seq(Threads) /\ queue'[d] = Append(queue[d], t)
    BY <1>1, <1>2
  <2> QED
    BY <2>1, AppendProperties
<1> SUFFICES ASSUME NEW e \in Devices
             PROVE  /\ \A u, v \in Threads : waitingOn'[u] = e /\ waitingOn'[v] = e => u = v
                    /\ value'[e] \in {0, 1}
                    /\ e \in active' => value'[e] = 0 /\ queue'[e] # <<>>
                    /\ value'[e] = 1 => \E u \in Threads : waitingOn'[u] = e
  BY DEF DeviceInv
<1>4. CASE e = d
  BY <1>1, <1>2, <1>3, <1>4
<1>5. CASE e # d
  BY <1>1, <1>2, <1>5 DEF DeviceInv
<1> QED
  BY <1>4, <1>5

\* The interrupt leaves one unit, for the requester that it wakes.
LEMMA DeviceInterruptInv ==
    ASSUME KernelInv, DeviceInv, NEW d \in Devices, DeviceInterrupt(d)
    PROVE  DeviceInv'
<1>1. /\ value \in [Semaphores -> Nat] /\ queue \in [Semaphores -> Seq(Threads)]
      /\ d \in Semaphores /\ Devices \subseteq Semaphores
  BY ClientAssumption DEF KernelInv, KernelTypeOK
<1>2. /\ d \in active /\ active' = active \ {d}
      /\ value[d] = 0 /\ queue[d] # <<>>
      /\ value' = [value EXCEPT ![d] = value[d] + 1]
      /\ queue' = [queue EXCEPT ![d] = Tail(queue[d])]
      /\ waitingOn' = waitingOn
  BY DEF DeviceInterrupt, V, DeviceInv
<1>3. PICK t \in Threads : waitingOn[t] = d
  <2>1. Head(queue[d]) \in Range(queue[d])
    BY <1>1, <1>2, DequeueProperties
  <2> QED
    BY <1>1, <2>1 DEF KernelInv, Placed, QueueHoldsBlocked
<1> QED
  BY <1>1, <1>2, <1>3 DEF DeviceInv

LEMMA NextDeviceInv == KernelInv /\ DeviceInv /\ [Next]_vars => DeviceInv'
<1> SUFFICES ASSUME KernelInv, DeviceInv, [Next]_vars PROVE DeviceInv'
  OBVIOUS
<1>1. ASSUME UNCHANGED <<value, queue, waitingOn, active>> PROVE DeviceInv'
  BY <1>1, DeviceInvStutters
<1>2. ASSUME NEW t \in Threads, NEW s \in Semaphores, ClientP(t, s) PROVE DeviceInv'
  BY <1>2, TestValueDeviceInv DEF ClientP, P, IsRunning
<1>3. ASSUME NEW t \in Threads, NEW s \in Semaphores, ClientV(t, s) PROVE DeviceInv'
  <2>1. \A d \in Devices : value'[d] = value[d] /\ queue'[d] = queue[d]
    BY <1>3, ClientAssumption DEF ClientV, V, KernelInv, KernelTypeOK
  <2> QED
    BY <1>3, <2>1, DeviceInvStutters DEF ClientV, V
<1>4. ASSUME NEW t \in Threads, WokenP(t) PROVE DeviceInv'
  <2>1. waitingOn[t] \in Semaphores
    BY <1>4 DEF WokenP, RetryP, KernelInv, KernelTypeOK
  <2> QED
    BY <1>4, <2>1, TestValueDeviceInv DEF WokenP, RetryP
<1>5. ASSUME NEW t \in Threads, NEW child \in Threads, ThreadFork(t, child)
      PROVE  DeviceInv'
  BY <1>1, <1>5 DEF ThreadFork, Fork, semVars
<1>6. ASSUME NEW t \in Threads, NEW target \in Threads, NEW p \in Priorities,
             SetPriority(t, target, p)
      PROVE  DeviceInv'
  BY <1>1, <1>6 DEF SetPriority, semVars
<1>7. ASSUME NEW t \in Threads, ThreadYield(t) PROVE DeviceInv'
  BY <1>1, <1>7 DEF ThreadYield, Yield, semVars
<1>8. CASE Dispatch
  BY <1>1, <1>8 DEF Dispatch, IdleDispatch, semVars
<1>9. CASE UNCHANGED vars
  BY <1>1, <1>9 DEF vars, kernelVars, semVars
<1> QED
  BY <1>2, <1>3, <1>4, <1>5, <1>6, <1>7, <1>8, <1>9, DeviceRequestInv, DeviceInterruptInv
     DEF Next

\* A device never has two requests or two waiters, its requester sleeps until
\* the interrupt, and the unit it leaves is for a thread still inside P().
THEOREM DevicesKeepTheHandshake == Spec => []DeviceHandshake
<1>1. Init => DeviceInv
  BY ClientAssumption, KernelAssumption DEF Init, DeviceInv
<1>2. KernelInv /\ KernelInv' /\ DeviceInv /\ [Next]_vars => DeviceInv'
  BY NextDeviceInv
<1>3. Spec => []DeviceInv
  BY <1>1, <1>2, KernelInvariant, PTL DEF Spec
<1> QED
  BY <1>3, KernelInvariant, DeviceInvImplies, PTL

=============================================================================
