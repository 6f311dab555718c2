------------------------------ MODULE Network ------------------------------
(***************************************************************************)
(* The network device (machine/network.cc, sysdep.cc): datagrams between   *)
(* UNIX sockets, one per machine, a packet that the sender loses by chance, *)
(* and one packet buffered for the kernel.  The kernel sends again when    *)
(* the device has told it that the last packet is gone, and takes a packet *)
(* when the device has told it of one.                                     *)
(***************************************************************************)
EXTENDS Integers, Sequences, SequencesExt

CONSTANTS Machines, MaxPackets

VARIABLES socket,          \* the datagrams that wait at each machine
          inbox,           \* the packet in the buffer, inHdr.length = 0 if none
          sending,         \* SendDone is pending
          told,            \* how often the kernel has been told of a packet
          sent,            \* to each machine, without those that were lost
          packets, received

vars == <<socket, inbox, sending, told, sent, packets, received>>

Init == /\ socket = [m \in Machines |-> <<>>] /\ inbox = [m \in Machines |-> <<>>]
        /\ sending = [m \in Machines |-> FALSE] /\ told = [m \in Machines |-> 0]
        /\ sent = [m \in Machines |-> <<>>] /\ packets = 0
        /\ received = [m \in Machines |-> <<>>]

\* Network::Send, and SendToSocket unless the packet is lost.
Send(m, to) ==
    /\ ~sending[m] /\ packets < MaxPackets
    /\ packets' = packets + 1 /\ sending' = [sending EXCEPT ![m] = TRUE]
    /\ \/ UNCHANGED <<socket, sent>>
       \/ LET packet == <<m, packets>> IN
          /\ socket' = [socket EXCEPT ![to] = Append(@, packet)]
          /\ sent' = [sent EXCEPT ![to] = Append(@, packet)]
    /\ UNCHANGED <<inbox, told, received>>

SendDone(m) ==
    /\ sending[m] /\ sending' = [sending EXCEPT ![m] = FALSE]
    /\ UNCHANGED <<socket, inbox, told, sent, packets, received>>

\* Network::CheckPktAvail: not when a packet is buffered, or none is there.
CheckPktAvail(m) ==
    /\ inbox[m] = <<>> /\ socket[m] # <<>>
    /\ inbox' = [inbox EXCEPT ![m] = <<Head(socket[m])>>]
    /\ socket' = [socket EXCEPT ![m] = Tail(@)]
    /\ told' = [told EXCEPT ![m] = @ + 1]
    /\ UNCHANGED <<sending, sent, packets, received>>

Receive(m) ==
    /\ told[m] > 0 /\ told' = [told EXCEPT ![m] = @ - 1]
    /\ received' = [received EXCEPT ![m] = @ \o inbox[m]]
    /\ inbox' = [inbox EXCEPT ![m] = <<>>]
    /\ UNCHANGED <<socket, sending, sent, packets>>

Next == \E m \in Machines : \/ \E to \in Machines : Send(m, to)
                            \/ SendDone(m) \/ CheckPktAvail(m) \/ Receive(m)

Spec == Init /\ [][Next]_vars

-----------------------------------------------------------------------------
\* Every packet that is not lost by chance reaches its machine once, in the
\* order of the sends to it, whenever the device polls and the kernel takes.
PacketsInOrder ==
    \A m \in Machines : /\ received[m] \o inbox[m] \o socket[m] = sent[m]
                        /\ told[m] = Len(inbox[m])
=============================================================================
