---------------------------- MODULE MonitorTest ----------------------------
(***************************************************************************)
(* src/cs4411/prog2/test.cc: threads that add to and subtract from j in    *)
(* the monitor, one that waits on the condition without entering it, and   *)
(* main, which joins the former and signals the latter.                    *)
(***************************************************************************)
EXTENDS HoareMonitor, FiniteSets

CONSTANTS Adders, Subtracters, MainThread, Waiter

Workers == Adders \cup Subtracters

TestAssumption ==
    /\ Cardinality(Adders) = Cardinality(Subtracters)
    /\ Adders \cap Subtracters = {}
    /\ MainThread \notin Workers /\ Waiter \notin Workers /\ MainThread # Waiter

VARIABLES
    j,
    register,    \* the value of j a worker has read
    printed      \* what the waiter has printed

vars == <<mutex, signallerSem, nWaiters, waiterSem, pc, j, register, printed>>

Init ==
    /\ MonitorInit
    /\ pc = [t \in Workers \cup {MainThread, Waiter} |->
        CASE t \in Workers -> "Acquire" [] t = MainThread -> "join" [] t = Waiter -> "Wait"]
    /\ j = 0
    /\ register = [t \in Workers |-> 0]
    /\ printed = {}

\* p_func and p_func2: ++j and --j read j and write it.
Work(t) ==
    \/ /\ Goto(t, "Acquire", "read")
       /\ Acquire
       /\ UNCHANGED <<j, register, printed>>
    \/ /\ Goto(t, "read", "write")
       /\ register' = [register EXCEPT ![t] = j]
       /\ UNCHANGED <<monitorVars, conditionVars, j, printed>>
    \/ /\ Goto(t, "write", "Release")
       /\ j' = register[t] + (IF t \in Adders THEN 1 ELSE -1)
       /\ UNCHANGED <<monitorVars, conditionVars, register, printed>>
    \/ /\ Goto(t, "Release", "done")
       /\ Release
       /\ UNCHANGED <<j, register, printed>>

\* p_func3
WaitAndPrint ==
    \/ /\ \/ Goto(Waiter, "Wait", "post") /\ WaitCount
          \/ Goto(Waiter, "post", "sleep") /\ WaitPost
          \/ Goto(Waiter, "sleep", "print") /\ WaitSleep
       /\ UNCHANGED printed
       /\ UNCHANGED <<j, register>>
    \/ /\ Goto(Waiter, "print", "done")
       /\ printed' = printed \cup {j}
       /\ UNCHANGED <<monitorVars, conditionVars, j, register>>

\* main: the pthread_join of the workers, and of the waiter.
JoinWorkers ==
    /\ \A t \in Workers : pc[t] = "done"
    /\ Goto(MainThread, "join", "Signal")
    /\ UNCHANGED <<monitorVars, conditionVars>>

JoinWaiter ==
    /\ pc[Waiter] = "done"
    /\ Goto(MainThread, "joinWaiter", "done")
    /\ UNCHANGED <<monitorVars, conditionVars>>

Main ==
    /\ \/ JoinWorkers \/ JoinWaiter
       \/ Goto(MainThread, "Signal", "joinWaiter") /\ SignalNobody
       \/ Goto(MainThread, "Signal", "yield") /\ SignalPost
       \/ Goto(MainThread, "yield", "joinWaiter") /\ SignalSleep
    /\ UNCHANGED <<j, register, printed>>

Next == (\E t \in Workers : Work(t)) \/ WaitAndPrint \/ Main

Spec == Init /\ [][Next]_vars

-----------------------------------------------------------------------------
(* Properties.                                                             *)

TypeOK == MonitorTypeOK /\ j \in Int /\ printed \subseteq Int

\* Line 14 of test.cc: in all executions the waiter, if it prints, prints 0,
\* because the updates of j are not lost and the signal comes after them.
PrintsZero == printed \subseteq {0}

=============================================================================
