----------------------------- MODULE NachosPort -----------------------------
(***************************************************************************)
(* class Port of src/cs4411/nachosC/threads/synch.cc: a one-message buffer *)
(* guarded by a lock and two condition variables.  Thread::Join receives   *)
(* from the port to which the joined thread's Finish sends.                *)
(*                                                                         *)
(* Port p is also the name of its lock.                                    *)
(***************************************************************************)
EXTENDS NachosCondition

CONSTANTS Ports, Messages, NoMessage

senderCondition(p) == <<p, "sender">>
receiverCondition(p) == <<p, "receiver">>

ASSUME PortAssumption ==
    /\ Ports \subseteq Locks
    /\ \A p \in Ports : {senderCondition(p), receiverCondition(p)} \subseteq Conditions
    /\ NoMessage \notin Messages

VARIABLES
    buffer,       \* the message in each port, NoMessage when bufferEmpty
    senders,      \* Port::senders
    receivers,    \* Port::receivers
    message       \* the message a thread sends, or has received

portVars == <<buffer, senders, receivers>>
syncVars == <<kernelVars, lockVars, pending, threadQueue>>

\* t goes on with the next step of its call, which may be the last.
GoOn(t, steps) == pending' = [pending EXCEPT ![t] = steps \o Tail(@)]

-----------------------------------------------------------------------------
(* Port::Send.                                                             *)

StartSend(t, p, m, rest) ==
    /\ message' = [message EXCEPT ![t] = m]
    /\ StartAcquire(t, p, <<Step("EnterSend", p)>> \o rest)
    /\ UNCHANGED <<threadQueue, portVars>>

Send(t, p, m) == InOwnCode(t) /\ StartSend(t, p, m, <<>>)

EnterSend(t, p) ==
    /\ NextStep(t, "EnterSend", p)
    /\ senders' = [senders EXCEPT ![p] = @ + 1]
    /\ GoOn(t, <<Step("TestSend", p)>>)
    /\ UNCHANGED <<kernelVars, lockVars, threadQueue, buffer, receivers, message>>

\* MUTANT of MustWaitToSend: a full buffer is overwritten.
MustWaitToReceive(p) == receivers[p] = 0

MustWaitToSend(p) == receivers[p] = 0 \/ buffer[p] # NoMessage

WaitToSend(t, p) ==
    /\ NextStep(t, "TestSend", p)
    /\ MustWaitToSend(p)
    /\ StartWait(t, senderCondition(p), p, pending[t])
    /\ UNCHANGED <<portVars, message>>

\* MUTANT of PutMessage: `senders--' is missing.
PutMessageKeepsCount(t, p) ==
    /\ NextStep(t, "TestSend", p)
    /\ ~MustWaitToSend(p)
    /\ buffer' = [buffer EXCEPT ![p] = message[t]]
    /\ \/ StartSignal(t, receiverCondition(p), "Pop",
                      <<Step("Unlock", p)>> \o Tail(pending[t]))
       \/ /\ threadQueue[receiverCondition(p)] = <<>>
          /\ Release(t, p)
          /\ Return(t)
          /\ UNCHANGED threadQueue
    /\ UNCHANGED <<senders, receivers, message>>

\* The message is in the buffer; a waiting receiver is signalled.
PutMessage(t, p) ==
    /\ NextStep(t, "TestSend", p)
    /\ ~MustWaitToSend(p)
    /\ buffer' = [buffer EXCEPT ![p] = message[t]]
    /\ senders' = [senders EXCEPT ![p] = @ - 1]
    /\ \/ StartSignal(t, receiverCondition(p), "Pop",
                      <<Step("Unlock", p)>> \o Tail(pending[t]))
       \/ /\ threadQueue[receiverCondition(p)] = <<>>
          /\ Release(t, p)
          /\ Return(t)
          /\ UNCHANGED threadQueue
    /\ UNCHANGED <<receivers, message>>

\* lock->Release() after the Signal, the end of Send
Unlock(t, p) ==
    /\ NextStep(t, "Unlock", p)
    /\ Release(t, p)
    /\ Return(t)
    /\ UNCHANGED <<threadQueue, portVars, message>>

-----------------------------------------------------------------------------
(* Port::Receive.                                                          *)

StartReceive(t, p, rest) ==
    /\ StartAcquire(t, p, <<Step("EnterReceive", p)>> \o rest)
    /\ UNCHANGED <<threadQueue, portVars, message>>

Receive(t, p) == InOwnCode(t) /\ StartReceive(t, p, <<>>)

EnterReceive(t, p) ==
    /\ NextStep(t, "EnterReceive", p)
    /\ receivers' = [receivers EXCEPT ![p] = @ + 1]
    /\ GoOn(t, <<Step("TestReceive", p)>>)
    /\ UNCHANGED <<kernelVars, lockVars, threadQueue, buffer, senders, message>>

\* MUTANT of SignalSender: Receive waits without signalling a sender.
SignalNoSender(t, p) ==
    /\ NextStep(t, "TestReceive", p)
    /\ buffer[p] = NoMessage
    /\ senders[p] > 0
    /\ StartWait(t, receiverCondition(p), p, pending[t])
    /\ UNCHANGED <<portVars, message>>

\* bufferEmpty, with a sender inside Send: signal it, if it waits, and wait.
SignalSender(t, p) ==
    /\ NextStep(t, "TestReceive", p)
    /\ buffer[p] = NoMessage
    /\ senders[p] > 0
    /\ StartSignal(t, senderCondition(p), "Pop",
                   <<Step("WaitToReceive", p)>> \o Tail(pending[t]))
    /\ UNCHANGED <<portVars, message>>

WaitToReceive(t, p) ==
    /\ \/ NextStep(t, "WaitToReceive", p)
       \/ /\ NextStep(t, "TestReceive", p)
          /\ buffer[p] = NoMessage
          /\ senders[p] = 0 \/ threadQueue[senderCondition(p)] = <<>>
    /\ StartWait(t, receiverCondition(p), p,
                 <<Step("TestReceive", p)>> \o Tail(pending[t]))
    /\ UNCHANGED <<portVars, message>>

TakeMessage(t, p) ==
    /\ NextStep(t, "TestReceive", p)
    /\ buffer[p] # NoMessage
    /\ message' = [message EXCEPT ![t] = buffer[p]]
    /\ buffer' = [buffer EXCEPT ![p] = NoMessage]
    /\ receivers' = [receivers EXCEPT ![p] = @ - 1]
    /\ Release(t, p)
    /\ Return(t)
    /\ UNCHANGED <<threadQueue, senders>>

\* A step of Send or Receive, or of the Lock and Condition calls they make.
PortStep(t) ==
    \/ \E p \in Ports :
        \/ EnterSend(t, p) \/ WaitToSend(t, p) \/ PutMessage(t, p) \/ Unlock(t, p)
        \/ EnterReceive(t, p) \/ SignalSender(t, p) \/ WaitToReceive(t, p)
        \/ TakeMessage(t, p)
    \/ CallStep(t) /\ UNCHANGED <<portVars, message>>

=============================================================================
