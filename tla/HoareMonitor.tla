---------------------------- MODULE HoareMonitor ----------------------------
(***************************************************************************)
(* Classes Monitor and Condition of src/cs4411/prog2/monitor.cc, with one  *)
(* condition: a library of actions over POSIX semaphores, one action per   *)
(* access to shared memory.  pc is where each thread is in its program.    *)
(*                                                                         *)
(* Signal increments its pointer `nSignallers', not the counter, and Wait  *)
(* compares the pointer: the counter of the monitor stays 0, which Release *)
(* sees, and Wait always takes it for positive.                            *)
(***************************************************************************)
EXTENDS Integers

VARIABLES
    mutex, signallerSem,    \* of the Monitor
    nWaiters, waiterSem,    \* of the Condition
    pc

monitorVars == <<mutex, signallerSem>>
conditionVars == <<nWaiters, waiterSem>>

MonitorInit == mutex = 1 /\ signallerSem = 0 /\ nWaiters = 0 /\ waiterSem = 0

Goto(t, from, to) == pc[t] = from /\ pc' = [pc EXCEPT ![t] = to]

\* MUTANT of Acquire: sem_wait returns at once.
AcquireAtOnce == mutex' = mutex - 1 /\ UNCHANGED <<signallerSem, conditionVars>>

\* Monitor::Acquire
Acquire ==
    /\ mutex > 0
    /\ mutex' = mutex - 1
    /\ UNCHANGED <<signallerSem, conditionVars>>

\* Monitor::Release, by whoever calls it
Release == mutex' = mutex + 1 /\ UNCHANGED <<signallerSem, conditionVars>>

\* Condition::Wait: the thread counts itself, posts signallerSem, and sleeps.
WaitCount == nWaiters' = nWaiters + 1 /\ UNCHANGED <<monitorVars, waiterSem>>

WaitPost == signallerSem' = signallerSem + 1 /\ UNCHANGED <<mutex, conditionVars>>

WaitSleep ==
    /\ waiterSem > 0
    /\ waiterSem' = waiterSem - 1
    /\ UNCHANGED <<monitorVars, nWaiters>>

\* Condition::Signal: nobody waits; or a waiter is posted, and the signaller
\* waits for signallerSem.
SignalNobody == nWaiters = 0 /\ UNCHANGED <<monitorVars, conditionVars>>

SignalPost ==
    /\ nWaiters > 0
    /\ waiterSem' = waiterSem + 1
    /\ UNCHANGED <<monitorVars, nWaiters>>

SignalSleep ==
    /\ signallerSem > 0
    /\ signallerSem' = signallerSem - 1
    /\ UNCHANGED <<mutex, conditionVars>>

MonitorTypeOK == {mutex, signallerSem, nWaiters, waiterSem} \subseteq Nat

=============================================================================
