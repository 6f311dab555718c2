---------------------------- MODULE NachosThread ----------------------------
(***************************************************************************)
(* The life of the threads of user programs: Exec, Exit and Join of        *)
(* userprog/exception.cc, Finish and Join of threads/thread.cc, the        *)
(* carcass that Scheduler::Run deletes, and CoreMap::onlyThread, which     *)
(* decides when the machine halts.  Any program may Exec the next one.     *)
(***************************************************************************)
EXTENDS NachosPort

Joinable == Threads \ {MainThread}

\* Thread::joinPort
joinPort(t) == <<t, "joinPort">>

\* What an instance gives Ports, Conditions and Semaphores.
JoinPorts == {joinPort(t) : t \in Joinable}
JoinConditions == UNION {{senderCondition(p), receiverCondition(p)} : p \in JoinPorts}
JoinSemaphores == JoinPorts \cup Threads

ASSUME ThreadAssumption ==
    /\ Ports = JoinPorts
    /\ Locks = Ports
    /\ Messages = Threads
    /\ Threads \cap Conditions = {}

VARIABLES
    childrenToJoin,       \* Thread::childrenToJoin of every thread
    finishing,            \* the threads inside Finish, with interrupts off
    started,              \* the threads that have had the CPU
    threadToBeDestroyed,
    threadSet,            \* CoreMap::threadSet
    deletedPorts,         \* the ports that Join has deleted
    halted                \* Finish has called Cleanup

lifeVars == <<childrenToJoin, finishing, deletedPorts, halted>>
carcassVars == <<started, threadToBeDestroyed, threadSet>>
vars == <<syncVars, portVars, message, lifeVars, carcassVars>>

Init ==
    /\ currentThread = MainThread
    /\ readyList = <<>>
    /\ status = [t \in Threads |-> IF t = MainThread THEN "RUNNING" ELSE "JUST_CREATED"]
    /\ priority = [t \in Threads |-> DefaultPriority]
    /\ value = [s \in Semaphores |-> IF s \in Locks THEN 1 ELSE 0]
    /\ queue = [s \in Semaphores |-> <<>>]
    /\ waitingOn = [t \in Threads |-> NoSem]
    /\ ownerThread = [l \in Locks |-> NoThread]
    /\ originalHolderPriority = [l \in Locks |-> DefaultPriority]
    /\ pending = [t \in Threads |-> <<>>]
    /\ threadQueue = [c \in Conditions |-> <<>>]
    /\ buffer = [p \in Ports |-> NoMessage]
    /\ senders = [p \in Ports |-> 0]
    /\ receivers = [p \in Ports |-> 0]
    /\ message = [t \in Threads |-> NoMessage]
    /\ childrenToJoin = [t \in Threads |-> {}]
    /\ finishing = {}
    /\ started = {MainThread}
    /\ threadToBeDestroyed = NoThread
    /\ threadSet = {MainThread}
    /\ deletedPorts = {}
    /\ halted = FALSE

(***************************************************************************)
(* The end of Scheduler::Run, in the context of the thread that gets the   *)
(* CPU: the carcass `dead' is deleted and leaves the set of threads.  A    *)
(* thread that runs for the first time does not come this way.             *)
(***************************************************************************)
AfterSwitch(dead, threads) ==
    /\ started' = started \cup {currentThread'}
    /\ IF currentThread' # currentThread /\ currentThread' \in started
       THEN threadToBeDestroyed' = NoThread /\ threadSet' = threads \ {dead}
       ELSE threadToBeDestroyed' = dead /\ threadSet' = threads

NothingDied == AfterSwitch(threadToBeDestroyed, threadSet)

-----------------------------------------------------------------------------
(* System calls.                                                           *)

\* The thread object that the next Exec creates.
NewThread == CHOOSE c \in Joinable : status[c] = "JUST_CREATED"

\* Exec: Thread::Thread and Fork.  The ready list sees c at the end.
Exec(t, c) ==
    /\ InOwnCode(t)
    /\ Fork(t, c)
    /\ c = NewThread
    /\ childrenToJoin' = [childrenToJoin EXCEPT ![t] = @ \cup {c}]
    /\ AfterSwitch(threadToBeDestroyed, threadSet \cup {c})
    /\ UNCHANGED <<lockVars, pending, threadQueue, portVars, message,
                   finishing, deletedPorts, halted>>

\* MUTANT of StartJoin: removeChild is missing.
StartJoinKeepsChild(t, c, rest) ==
    /\ c \in childrenToJoin[t]
    /\ StartReceive(t, joinPort(c), <<Step("DeletePort", joinPort(c))>> \o rest)
    /\ NothingDied
    /\ UNCHANGED lifeVars

\* Thread::Join up to the P() of its Receive; then the port is deleted.
StartJoin(t, c, rest) ==
    /\ c \in childrenToJoin[t]
    /\ childrenToJoin' = [childrenToJoin EXCEPT ![t] = @ \ {c}]
    /\ StartReceive(t, joinPort(c), <<Step("DeletePort", joinPort(c))>> \o rest)
    /\ NothingDied
    /\ UNCHANGED <<finishing, deletedPorts, halted>>

Join(t, c) == InOwnCode(t) /\ StartJoin(t, c, <<>>)

DeletePort(t, p) ==
    /\ NextStep(t, "DeletePort", p)
    /\ deletedPorts' = deletedPorts \cup {p}
    /\ Return(t)
    /\ UNCHANGED <<kernelVars, lockVars, threadQueue, portVars, message,
                   childrenToJoin, finishing, halted, carcassVars>>

-----------------------------------------------------------------------------
(* Exit: Thread::Finish.                                                   *)

\* Interrupts go off and stay off until the thread sleeps.
StartFinish(t) ==
    /\ InOwnCode(t)
    /\ t \notin finishing
    /\ finishing' = finishing \cup {t}
    /\ pending' = [pending EXCEPT ![t] = <<Step("Finish", t)>>]
    /\ UNCHANGED <<kernelVars, lockVars, threadQueue, portVars, message,
                   childrenToJoin, deletedPorts, halted, carcassVars>>

JoinChild(t) ==
    /\ NextStep(t, "Finish", t)
    /\ \E c \in childrenToJoin[t] : StartJoin(t, c, pending[t])

\* MUTANT of SendStatus: Finish does not join the children first.
SendStatusAtOnce(t) ==
    /\ NextStep(t, "Finish", t)
    /\ t \in Joinable
    /\ StartSend(t, joinPort(t), t, <<Step("Die", t)>>)
    /\ NothingDied
    /\ UNCHANGED lifeVars

SendStatus(t) ==
    /\ NextStep(t, "Finish", t)
    /\ childrenToJoin[t] = {}
    /\ t \in Joinable
    /\ StartSend(t, joinPort(t), t, <<Step("Die", t)>>)
    /\ NothingDied
    /\ UNCHANGED lifeVars

\* The thread has been joined, or cannot be.
IsDone(t) ==
    \/ NextStep(t, "Die", t)
    \/ NextStep(t, "Finish", t) /\ childrenToJoin[t] = {} /\ t \notin Joinable

Halt(t) ==
    /\ IsDone(t)
    /\ threadSet = {t}
    /\ halted' = TRUE
    /\ UNCHANGED <<syncVars, portVars, message, childrenToJoin, finishing,
                   deletedPorts, carcassVars>>

\* MUTANT of BecomeCarcass: threadToBeDestroyed is set after the switch.
BecomeCarcassTooLate(t) ==
    /\ IsDone(t)
    /\ threadSet # {t}
    /\ Sleep(t)
    /\ Return(t)
    /\ AfterSwitch(currentThread', threadSet)
    /\ UNCHANGED <<priority, semVars, lockVars, threadQueue, portVars, message, lifeVars>>

BecomeCarcass(t) ==
    /\ IsDone(t)
    /\ threadSet # {t}
    /\ Sleep(t)
    /\ Return(t)
    /\ AfterSwitch(t, threadSet)
    /\ UNCHANGED <<priority, semVars, lockVars, threadQueue, portVars, message, lifeVars>>

-----------------------------------------------------------------------------

\* A step of the call that t is in.
LifeStep(t) ==
    \/ \E p \in Ports : DeletePort(t, p)
    \/ JoinChild(t) \/ SendStatus(t) \/ Halt(t) \/ BecomeCarcass(t)
    \/ PortStep(t) /\ NothingDied /\ UNCHANGED lifeVars

\* Interrupt handlers run, and preempt, only while interrupts are on.
Preempt(t) ==
    /\ t \notin finishing
    /\ Yield(t)
    /\ NothingDied
    /\ UNCHANGED <<lockVars, pending, threadQueue, portVars, message, lifeVars>>

WokenP(t) ==
    /\ RetryP(t)
    /\ NothingDied
    /\ UNCHANGED <<lockVars, pending, threadQueue, portVars, message, lifeVars>>

Next ==
    /\ ~halted
    /\ \E t \in Threads :
        \/ \E c \in Joinable : Exec(t, c) \/ Join(t, c)
        \/ StartFinish(t) \/ LifeStep(t)
        \/ Preempt(t) \/ WokenP(t)

Spec == Init /\ [][Next]_vars

(***************************************************************************)
(* Every program exits in the end, the thread that has the CPU goes on     *)
(* with its call, and the timer of `nachos -rs' does not preempt a thread  *)
(* at every dispatch.                                                      *)
(***************************************************************************)
Fairness ==
    \A t \in Threads :
        /\ SF_vars(~halted /\ StartFinish(t))
        /\ SF_vars(~halted /\ LifeStep(t))
        /\ WF_vars(~halted /\ WokenP(t))

FairSpec == Spec /\ Fairness

-----------------------------------------------------------------------------
(* Properties.                                                             *)

TypeOK ==
    /\ KernelTypeOK
    /\ ownerThread \in [Locks -> Threads \cup {NoThread}]
    /\ buffer \in [Ports -> Threads \cup {NoMessage}]
    /\ message \in [Threads -> Threads \cup {NoMessage}]
    /\ childrenToJoin \in [Threads -> SUBSET Joinable]
    /\ finishing \subseteq started /\ started \subseteq Threads
    /\ threadToBeDestroyed \in finishing \cup {NoThread}
    /\ threadSet \subseteq Threads /\ deletedPorts \subseteq Ports
    /\ halted \in BOOLEAN

\* Join deletes the port that the joined thread's Finish has just used: no
\* thread still has a step to do on it, and nobody waits for its lock.
DeletedPortUnused ==
    \A p \in deletedPorts :
        /\ queue[p] = <<>>
        /\ \A t \in Threads : \A i \in 1..Len(pending[t]) :
            pending[t][i].of \notin {p, senderCondition(p), receiverCondition(p)}

\* Exec, Exit and Join leave threads, ports and the map of threads in order.
ThreadsSafe == TypeOK /\ DeletedPortUnused

\* Exec, Exit and Join implement the tree of processes: nobody is joined
\* before it has exited or twice, and no process leaves children behind.
InJoin(t, c) ==
    \E i \in 1..Len(pending[t]) :
        /\ pending[t][i].step \in {"EnterReceive", "TestReceive", "WaitToReceive"}
        /\ pending[t][i].of = joinPort(c)

Children(t) == childrenToJoin[t] \cup {c \in Joinable : InJoin(t, c)}

Phase(t) ==
    IF t = MainThread THEN "alive"
    ELSE IF status[t] = "JUST_CREATED" THEN "new"
    ELSE IF buffer[joinPort(t)] # NoMessage THEN "exited"
    ELSE IF \E u \in Threads : t \in Children(u) THEN "alive"
    ELSE "joined"

Tree == INSTANCE ProcessTree WITH
    Root <- MainThread,
    phase <- [t \in Threads |-> Phase(t)],
    children <- [t \in Threads |-> Children(t)]

ImplementsProcessTree == Tree!Spec

\* Exit comes to its end, with its joins and its own join, in every program:
\* Finish keeps interrupts off, and the programs wait for one another.
ExitsComplete == []<>(halted \/ \A t \in finishing : pending[t] = <<>>)

\* The comment of Thread::Finish: a finished thread is deleted by
\* Scheduler::Run once another thread runs.  Only the last one may be left.
FinishedIsDestroyed ==
    \A t \in finishing :
        pending[t] = <<>> => t \notin threadSet \/ t = threadToBeDestroyed

=============================================================================
