---------------------------- MODULE PortClients ----------------------------
(***************************************************************************)
(* Threads that keep sending to and receiving from one port.  A message is *)
(* the name of its sender.                                                 *)
(***************************************************************************)
EXTENDS NachosPort

CONSTANTS ThePort, Senders, Receivers

ASSUME ClientAssumption ==
    /\ Ports = {ThePort} /\ Locks = Ports
    /\ Senders \cup Receivers \subseteq Threads
    /\ Senders \cap Receivers = {}
    /\ Messages = Senders

vars == <<syncVars, portVars, message>>

\* What an instance gives Conditions.
PortConditions == {senderCondition(ThePort), receiverCondition(ThePort)}

Init ==
    /\ currentThread = MainThread
    /\ readyList = <<>>
    /\ status = [t \in Threads |-> IF t = MainThread THEN "RUNNING" ELSE "JUST_CREATED"]
    /\ priority = [t \in Threads |-> DefaultPriority]
    /\ value = [s \in Semaphores |-> IF s \in Locks THEN 1 ELSE 0]
    /\ queue = [s \in Semaphores |-> <<>>]
    /\ waitingOn = [t \in Threads |-> NoSem]
    /\ ownerThread = [l \in Locks |-> NoThread]
    /\ originalHolderPriority = [l \in Locks |-> DefaultPriority]
    /\ pending = [t \in Threads |-> <<>>]
    /\ threadQueue = [c \in Conditions |-> <<>>]
    /\ buffer = [p \in Ports |-> NoMessage]
    /\ senders = [p \in Ports |-> 0]
    /\ receivers = [p \in Ports |-> 0]
    /\ message = [t \in Threads |-> NoMessage]

-----------------------------------------------------------------------------

ThreadFork(t, child) ==
    /\ pending[t] = <<>>
    /\ Fork(t, child)
    /\ UNCHANGED <<lockVars, pending, threadQueue, portVars, message>>

ClientSend(t) == t \in Senders /\ Send(t, ThePort, t)

ClientReceive(t) == t \in Receivers /\ Receive(t, ThePort)

Schedule == SchedulerStep /\ UNCHANGED <<portVars, message>>

Next ==
    \/ \E t \in Threads :
        \/ \E child \in Threads : ThreadFork(t, child)
        \/ ClientSend(t) \/ ClientReceive(t) \/ PortStep(t)
    \/ Schedule

Spec == Init /\ [][Next]_vars

-----------------------------------------------------------------------------
(* Properties.                                                             *)

Steps ==
    [step : {"Own", "Reacquire"}, of : Locks] \cup [step : {"Sleep"}, of : Threads]
        \cup [step : {"Pop", "PopMore"}, of : Conditions]
        \cup [step : {"EnterSend", "TestSend", "Unlock", "EnterReceive", "TestReceive",
                      "WaitToReceive"}, of : Ports]

TypeOK ==
    /\ KernelTypeOK
    /\ ownerThread \in [Locks -> Threads \cup {NoThread}]
    /\ originalHolderPriority \in [Locks -> Nat]
    /\ pending \in [Threads -> Seq(Steps)]
    /\ threadQueue \in [Conditions -> Seq(Threads)]
    /\ buffer \in [Ports -> Messages \cup {NoMessage}]
    /\ senders \in [Ports -> Nat] /\ receivers \in [Ports -> Nat]
    /\ message \in [Threads -> Messages \cup {NoMessage}]

InReceive(t) ==
    \E i \in 1..Len(pending[t]) : pending[t][i].step \in {"TestReceive", "WaitToReceive"}

InSend(t) == \E i \in 1..Len(pending[t]) : pending[t][i].step = "TestSend"

\* The port implements the rendezvous, whatever the order of the calls.
Channel == INSTANCE Rendezvous WITH
    Empty <- NoMessage,
    slot <- buffer[ThePort],
    waiting <- {t \in Threads : InReceive(t)},
    inbox <- [t \in Receivers |-> message[t]]

ImplementsRendezvous == Channel!Spec

\* The counters that Send and Receive decide on count the threads inside, and
\* a message in the buffer has a receiver inside that will see it.
CountersMatch ==
    /\ senders[ThePort] = Cardinality({t \in Threads : InSend(t)})
    /\ receivers[ThePort] = Cardinality({t \in Threads : InReceive(t)})
    /\ buffer[ThePort] # NoMessage => receivers[ThePort] > 0

\* Through a whole Send or Receive the lock, the counters and the buffer of the
\* port stay in step (synch.cc:191, 209).
PortSafe == TypeOK /\ LockSafe /\ CountersMatch

=============================================================================
