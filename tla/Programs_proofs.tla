---------------------------- MODULE Programs_proofs ----------------------------
(***************************************************************************)
(* Theorems about the programs of Programs.  Each program has an inductive *)
(* invariant of its own, which is proved from the lemmas of its part; the  *)
(* theorems at the end say that Programs keeps it while that program runs. *)
(***************************************************************************)
EXTENDS Programs, FiniteSetTheorems, SequenceTheorems,
        WellFoundedInduction, TLAPS

\* The cells, by the names they have in the programs.
pc == c1
flag == c2
count == c3
i == c4
done == c5
wait_count == c6
w == c7
ack == c8
timeout == c9
toServer == c10
toClient == c11
heldByClient == c12
heldByServer == c13
connected == c14
delivered == c15
faults == c16
main == c1
now == c2
accepted == c3
threadCount == c5
threadMax == c6
threads == c7
startTime == c8
thread == c9
cancelled == c10
open == c11
reset == c12
ashore == c1
queued == c2
aboard == c3
MQueue_Count == c4
CQueue_Count == c5
sailing == c6
valid_boat == c7
boat_loaded == c8
p_count == c9
cur_cross == c10
boat == c11
at == c1
sem == c2
Elf_Count == c3
Reindeer_Count == c4
waiting_elves == c5
delivery == c6
link == c1
pipe == c4
parent == c5
vm == c1
running == c2
programs == c3
meant == c4
forgotten == c5
st == c1
seekPosition == c2
disk == c3
writes == c5
torn == c6
USE DEF pc, i, done, count, wait_count, w, ack, timeout, toServer, toClient, heldByClient,
        heldByServer, connected, flag, delivered, faults, main, now, accepted,
        threadCount, threadMax, threads, startTime, thread, cancelled, open, reset,
        ashore, queued, aboard, MQueue_Count, CQueue_Count, sailing, valid_boat,
        boat_loaded, p_count, cur_cross, boat, at, sem, Elf_Count, Reindeer_Count,
        waiting_elves, delivery, link, pipe, parent, vm, running, programs, meant,
        forgotten, st, seekPosition, disk, writes, torn

-----------------------------------------------------------------------------
(* Numbers and sequences.                                                  *)

\* A set of natural numbers that is not empty has a least element.
LEMMA LeastNatural ==
    ASSUME NEW T \in SUBSET Nat, T # {}
    PROVE  \E x \in T : \A y \in T : x <= y
<1>1. PICK x \in T : \A y \in T : ~ (<<y, x>> \in OpToRel(<, Nat))
  BY NatLessThanWellFounded, WFMin
<1>2. \A y \in T : ~ (y < x)
  BY <1>1 DEF OpToRel
<1> QED
  BY <1>2

\* A set of numbers below n that is not empty has a greatest element.
LEMMA GreatestBelow ==
    ASSUME NEW n \in Nat, NEW T \in SUBSET (0..(n - 1)), T # {}
    PROVE  \E x \in T : \A y \in T : y <= x
<1> DEFINE U == {n - y : y \in T}
<1>1. U # {}
  OBVIOUS
<1>2. \A y \in T : n - y \in Nat
  OBVIOUS
<1>3. U \in SUBSET Nat
  BY <1>2
<1>4. PICK u \in U : \A v \in U : u <= v
  BY <1>1, <1>3, LeastNatural
<1>5. PICK x \in T : u = n - x
  BY <1>4
<1>6. ASSUME NEW y \in T PROVE y <= x
  <2>1. n - x <= n - y
    BY <1>4, <1>5
  <2> QED
    BY <2>1
<1> QED
  BY <1>6

-----------------------------------------------------------------------------
(* The transfer of a message over an unreliable channel.                   *)

Finishing == {"fin", "finwait", "end"}

\* A packet on its way to the server that it can read is a character of the
\* message, and is a FIN only when the client has come to its end.
PacketsToServer ==
    {p \in Transfer!Packets : p.valid =>
        /\ p.type = "msg" => p.seq \in Transfer!Seqs
        /\ p.type = "fin" => pc \in Finishing}

\* One on its way to the client acknowledges a SYN, a packet that was
\* delivered or, when the client has come to its end, a FIN.
PacketsToClient ==
    {p \in Transfer!Packets : p.valid =>
        \/ p.seq \in {Transfer!SYN_SEQ} \cup delivered
        \/ pc \in Finishing /\ p.seq = Transfer!FIN_SEQ}

\* What the client sends is readable, and no acknowledgement.
SentToServer == {p \in PacketsToServer : p.valid /\ p.type # "ack"}

Carries(socket, held, G) == socket \in Seq(G) /\ held \in G \cup {NoPacket}

ChannelsHonest ==
    /\ Carries(toServer, heldByClient, PacketsToServer)
    /\ Carries(toClient, heldByServer, PacketsToClient)

\* The packet that the client sends next is one of the message.
CountInside ==
    /\ pc \in {"syn", "synwait"} => count = 0
    /\ pc \in {"window", "final", "finalrecv", "finaltest"} => count < MsgLen

OnlyDelivered == \A s \in Transfer!Seqs \ {Transfer!SYN_SEQ} : ack[s] => s \in delivered

TransferInv == Transfer!TypeOK /\ ChannelsHonest /\ CountInside /\ OnlyDelivered

\* What the numbers of the message are.
LEMMA SeqsInside ==
    ASSUME Transfer!TransferAssumption
    PROVE  /\ Transfer!Seqs \subseteq Nat /\ Transfer!SYN_SEQ \in Transfer!Seqs
           /\ \A n \in 0..MsgLen : n < MsgLen => n \in Transfer!Seqs
           /\ Transfer!SYN_SEQ = 0 /\ Transfer!FIN_SEQ = 257
           /\ MsgLen \in Nat \ {0} /\ WINDOW \in Nat \ {0}
           /\ MaxFaults \in Nat /\ MaxTimeouts \in Nat
BY DEF Transfer!TransferAssumption, Transfer!Seqs, Transfer!SYN_SEQ, Transfer!FIN_SEQ

LEMMA PacketFields ==
    ASSUME NEW type \in {"syn", "fin", "ack", "msg"}, NEW n \in Nat
    PROVE  LET p == Transfer!Packet(type, n) IN
           p \in Transfer!Packets /\ p.type = type /\ p.seq = n /\ p.valid
BY DEF Transfer!Packet, Transfer!Packets

\* A packet with a flipped bit is one that nobody reads.
LEMMA CorruptedPacket ==
    ASSUME NEW p \in Transfer!Packets
    PROVE  Transfer!Corrupted(p) \in Transfer!Packets /\ ~ Transfer!Corrupted(p).valid
<1>1. p.seq \in Nat /\ p.type \in {"syn", "fin", "ack", "msg"} /\ p.valid \in BOOLEAN
      /\ p = [type |-> p.type, seq |-> p.seq, valid |-> p.valid]
  BY DEF Transfer!Packets
<1> DEFINE n == IF p.seq % 2 = 0 THEN p.seq + 1 ELSE p.seq - 1
<1>2. n \in Nat
  BY <1>1
<1>3. Transfer!Corrupted(p) = [p EXCEPT !.valid = FALSE, !.seq = n]
  BY DEF Transfer!Corrupted
<1> HIDE DEF n
<1> QED
  BY <1>1, <1>2, <1>3 DEF Transfer!Packets

\* A packet whose flags are changed is taken for a SYN or a FIN, for a FIN only
\* if its number has three digits at least.
LEMMA DisguisedPacket ==
    ASSUME NEW p, NEW q \in Transfer!Disguised(p)
    PROVE  /\ q \in Transfer!Packets /\ q.valid
           /\ \/ q.type = "syn" /\ q.seq = Transfer!SYN_SEQ
              \/ /\ q.type = "fin" /\ q.seq = Transfer!FIN_SEQ
                 /\ \/ p.type = "msg" /\ ~ (p.seq < 100)
                    \/ p.type = "ack" /\ p.seq \in 100 .. 999
<1>1. Transfer!SYN_SEQ \in Nat /\ Transfer!FIN_SEQ \in Nat
  BY DEF Transfer!SYN_SEQ, Transfer!FIN_SEQ
<1>2. CASE q = Transfer!Packet("syn", Transfer!SYN_SEQ)
  BY <1>1, <1>2, PacketFields
<1>3. CASE q = Transfer!Packet("fin", Transfer!FIN_SEQ)
  <2>1. /\ q \in Transfer!Packets /\ q.valid
        /\ q.type = "fin" /\ q.seq = Transfer!FIN_SEQ
    BY <1>1, <1>3, PacketFields
  <2>2. \/ p.type = "msg" /\ (q.type = "syn" <=> p.seq < 100)
        \/ p.type = "ack" /\ q.type = "syn"
        \/ p.type = "ack" /\ p.seq \in 100 .. 999
    BY DEF Transfer!Disguised
  <2> QED
    BY <2>1, <2>2
<1> QED
  BY <1>2, <1>3 DEF Transfer!Disguised

\* However unreliable_sendto treats a packet, a socket carries only packets
\* that were sent on it, damaged ones and those taken for others.
LEMMA SentCarries ==
    ASSUME NEW G, NEW socket, NEW held, Carries(socket, held, G),
           NEW p \in G, Transfer!Corrupted(p) \in G,
           \A q \in Transfer!Disguised(p) : q \in G
    PROVE  \A outcome \in {Transfer!Sent(socket, held, p)} \cup Transfer!Damaged(socket, held, p) :
               Carries(outcome[1], outcome[2], G)
<1>1. ASSUME NEW x \in G
      PROVE  LET out == Transfer!Sent(socket, held, x) IN Carries(out[1], out[2], G)
  <2>1. Append(socket, x) \in Seq(G)
    BY DEF Carries
  <2>2. held # NoPacket => Append(Append(socket, x), held) \in Seq(G)
    BY <2>1 DEF Carries
  <2>3. Transfer!SendHeld(Append(socket, x), held) \in Seq(G)
    BY <2>1, <2>2 DEF Transfer!SendHeld
  <2> QED
    BY <2>3 DEF Transfer!Sent, Carries
<1>2. Carries(socket, p, G)
  BY DEF Carries
<1>3. ASSUME NEW outcome \in Transfer!Damaged(socket, held, p)
      PROVE  Carries(outcome[1], outcome[2], G)
  <2>1. \/ outcome = <<socket, held>> \/ outcome = Transfer!Sent(socket, held, Transfer!Corrupted(p))
        \/ outcome = <<socket, p>>
        \/ \E q \in Transfer!Disguised(p) : outcome = Transfer!Sent(socket, held, q)
    BY <1>3 DEF Transfer!Damaged
  <2> QED
    BY <1>1, <1>2, <2>1
<1> QED
  BY <1>1, <1>3

\* The sets of packets grow only, as the message is delivered and the client
\* comes to its end; what is on its way stays honest.
Forward == (pc \in Finishing => pc' \in Finishing) /\ delivered \subseteq delivered'

LEMMA PacketsGrow ==
    ASSUME Forward
    PROVE  PacketsToServer \subseteq PacketsToServer' /\ PacketsToClient \subseteq PacketsToClient'
BY DEF Forward, PacketsToServer, PacketsToClient

LEMMA CarriesMore ==
    ASSUME NEW G, NEW H, G \subseteq H, NEW socket, NEW held, Carries(socket, held, G)
    PROVE  Carries(socket, held, H)
BY SeqMonotonic DEF Carries

LEMMA CarriesRest ==
    ASSUME NEW G, NEW socket, NEW held, Carries(socket, held, G), socket # <<>>
    PROVE  Head(socket) \in G /\ Carries(Tail(socket), held, G)
BY HeadTailProperties DEF Carries

LEMMA ChannelsQuiet ==
    ASSUME ChannelsHonest, Forward, UNCHANGED <<toServer, heldByClient>>,
           UNCHANGED heldByServer,
           toClient' = toClient \/ (toClient # <<>> /\ toClient' = Tail(toClient))
    PROVE  ChannelsHonest'
<1>1. PacketsToServer \subseteq PacketsToServer' /\ PacketsToClient \subseteq PacketsToClient'
  BY PacketsGrow
<1>2. Carries(toServer', heldByClient', PacketsToServer')
  BY <1>1, CarriesMore DEF ChannelsHonest
<1>3. Carries(toClient', heldByServer', PacketsToClient)
  BY CarriesRest DEF ChannelsHonest
<1>4. Carries(toClient', heldByServer', PacketsToClient')
  BY <1>1, <1>3, CarriesMore
<1> QED
  BY <1>2, <1>4 DEF ChannelsHonest

\* The client sends an honest packet.
LEMMA ClientSendsHonest ==
    ASSUME TransferInv, Transfer!TransferAssumption, Transfer!ShortMessage, Forward,
           NEW p \in SentToServer', Transfer!ClientSends(p)
    PROVE  ChannelsHonest' /\ faults' \in 0..MaxFaults
<1>1. PacketsToServer \subseteq PacketsToServer' /\ PacketsToClient \subseteq PacketsToClient'
  BY PacketsGrow
<1>2. Carries(toServer, heldByClient, PacketsToServer') /\ Carries(toClient, heldByServer, PacketsToClient')
  BY <1>1, CarriesMore DEF TransferInv, ChannelsHonest
<1>3. p \in Transfer!Packets /\ p \in PacketsToServer' /\ p.valid /\ p.type # "ack"
  BY DEF SentToServer, PacketsToServer, Transfer!Packets
<1>4. p.type = "msg" => p.seq < 100
  BY <1>3 DEF PacketsToServer, Transfer!ShortMessage, Transfer!TransferAssumption, Transfer!Seqs
<1>5. \A q \in Transfer!Disguised(p) : q \in PacketsToServer'
  BY <1>3, <1>4, DisguisedPacket DEF PacketsToServer
<1>6. Transfer!Corrupted(p) \in PacketsToServer'
  BY <1>3, CorruptedPacket DEF PacketsToServer, Transfer!Packets
<1>7. Carries(toServer', heldByClient', PacketsToServer')
  BY <1>2, <1>3, <1>6, <1>5, SentCarries DEF Transfer!ClientSends, Transfer!Transmit
<1>8. faults' \in 0..MaxFaults
  BY DEF TransferInv, Transfer!TypeOK, Transfer!TransferAssumption, Transfer!ClientSends,
         Transfer!Transmit
<1>9. Carries(toClient', heldByServer', PacketsToClient')
  BY <1>2 DEF Transfer!ClientSends, Transfer!toClientVars
<1> QED
  BY <1>7, <1>8, <1>9 DEF ChannelsHonest

Places == {"syn", "synwait", "top", "window", "update", "recv", "resend", "again", "final",
           "finalrecv", "finaltest", "fin", "finwait", "end", "dead"}

ClientTypes ==
    /\ pc \in Places /\ i \in Nat /\ done \in BOOLEAN /\ timeout \in 0..MaxTimeouts
    /\ count \in 0..MsgLen /\ wait_count \in 0..WINDOW
    /\ w \in [0..(WINDOW - 1) -> Transfer!Seqs] /\ ack \in [Transfer!Seqs -> BOOLEAN]

ClientInv == ClientTypes /\ CountInside /\ OnlyDelivered

ServerInv == connected \in BOOLEAN /\ flag \subseteq delivered /\ delivered \subseteq Transfer!Seqs

\* The invariant is that of the client, of the server and of the channels.
LEMMA TransferParts ==
    TransferInv <=> ClientInv /\ ServerInv /\ ChannelsHonest /\ faults \in 0..MaxFaults
<1>1. ChannelsHonest =>
        /\ toServer \in Seq(Transfer!Packets) /\ toClient \in Seq(Transfer!Packets)
        /\ {heldByClient, heldByServer} \subseteq Transfer!Packets \cup {NoPacket}
  <2>1. PacketsToServer \subseteq Transfer!Packets /\ PacketsToClient \subseteq Transfer!Packets
    BY DEF PacketsToServer, PacketsToClient
  <2> QED
    BY <2>1, SeqMonotonic DEF ChannelsHonest, Carries
<1> QED
  BY <1>1 DEF TransferInv, ClientInv, ServerInv, ClientTypes, Transfer!TypeOK, Places

LEMMA TransferPartsNext ==
    ClientInv' /\ ServerInv' /\ ChannelsHonest' /\ faults' \in 0..MaxFaults => TransferInv'
<1>1. ChannelsHonest' =>
        /\ toServer' \in Seq(Transfer!Packets) /\ toClient' \in Seq(Transfer!Packets)
        /\ {heldByClient', heldByServer'} \subseteq Transfer!Packets \cup {NoPacket}
  <2>1. PacketsToServer' \subseteq Transfer!Packets /\ PacketsToClient' \subseteq Transfer!Packets
    BY DEF PacketsToServer, PacketsToClient, Transfer!Packets
  <2> QED
    BY <2>1, SeqMonotonic DEF ChannelsHonest, Carries
<1> QED
  BY <1>1 DEF TransferInv, ClientInv, ServerInv, ClientTypes, Transfer!TypeOK, Places,
              Transfer!Packets, Transfer!Seqs

\* A step of the client that computes, or reads a packet, or sends one.
LEMMA ClientComputes ==
    ASSUME TransferInv, Forward, ClientInv', Transfer!Computes
    PROVE  TransferInv'
<1>0. UNCHANGED <<toServer, heldByClient>> /\ UNCHANGED heldByServer /\ UNCHANGED toClient
  BY DEF Transfer!Computes, Transfer!toServerVars, Transfer!toClientVars
<1>1. ChannelsHonest'
  BY <1>0, ChannelsQuiet, TransferParts
<1>2. ServerInv' /\ faults' \in 0..MaxFaults
  BY TransferParts DEF ServerInv, Transfer!Computes, Transfer!serverVars, Transfer!Seqs
<1> QED
  BY <1>1, <1>2, TransferPartsNext

LEMMA ClientReads ==
    ASSUME TransferInv, Forward, ClientInv', Transfer!OnlyReads,
           toClient' = toClient \/ (toClient # <<>> /\ toClient' = Tail(toClient))
    PROVE  TransferInv'
<1>1. ChannelsHonest'
  BY ChannelsQuiet, TransferParts DEF Transfer!OnlyReads, Transfer!toServerVars
<1>2. ServerInv' /\ faults' \in 0..MaxFaults
  BY TransferParts DEF ServerInv, Transfer!OnlyReads, Transfer!serverVars, Transfer!Seqs
<1> QED
  BY <1>1, <1>2, TransferPartsNext

LEMMA ClientSends ==
    ASSUME Transfer!TransferAssumption, Transfer!ShortMessage, TransferInv, Forward, ClientInv',
           NEW p \in SentToServer', Transfer!ClientSends(p)
    PROVE  TransferInv'
<1>1. ServerInv'
  BY TransferParts DEF ServerInv, Transfer!ClientSends, Transfer!serverVars, Transfer!Seqs
<1> QED
  BY <1>1, ClientSendsHonest, TransferPartsNext

\* What the client sends: a character, or the control packets in their time.
LEMMA PacketsSent ==
    ASSUME Transfer!TransferAssumption
    PROVE  /\ \A n \in Transfer!Seqs : Transfer!Packet("msg", n) \in SentToServer'
           /\ Transfer!Packet("syn", Transfer!SYN_SEQ) \in SentToServer'
           /\ pc' \in Finishing => Transfer!Packet("fin", Transfer!FIN_SEQ) \in SentToServer'
BY SeqsInside, PacketFields DEF SentToServer, PacketsToServer, Transfer!Packets, Transfer!Seqs

\* The number of an acknowledgement that is taken is inside the array, and the
\* packet was delivered.
LEMMA AckTaken ==
    ASSUME Transfer!TransferAssumption, TransferInv, pc \in {"recv", "finalrecv"},
           toClient # <<>>, Transfer!Parses(Head(toClient))
    PROVE  Head(toClient).seq \in Transfer!Seqs /\ Head(toClient).seq \in {0} \cup delivered
<1>1. Head(toClient) \in PacketsToClient
  BY CarriesRest, TransferParts DEF ChannelsHonest
<1>2. pc \notin Finishing
  BY DEF Finishing
<1> QED
  BY <1>1, <1>2, SeqsInside, TransferParts DEF PacketsToClient, Transfer!Parses, ServerInv

LEMMA InitTransfer ==
    ASSUME Transfer!TransferAssumption, Transfer!Init
    PROVE  TransferInv
<1>1. ChannelsHonest
  BY EmptySeq DEF Transfer!Init, ChannelsHonest, Carries
<1>2. ServerInv /\ faults \in 0..MaxFaults
  BY SeqsInside DEF Transfer!Init, ServerInv
<1>3. ClientTypes
  BY SeqsInside DEF Transfer!Init, ClientTypes, Places
<1>4. CountInside /\ OnlyDelivered
  BY SeqsInside DEF Transfer!Init, CountInside, OnlyDelivered
<1> QED
  BY <1>1, <1>2, <1>3, <1>4, TransferParts DEF ClientInv

LEMMA ClientStepInv ==
    ASSUME Transfer!TransferAssumption, Transfer!ShortMessage, TransferInv, Transfer!Client
    PROVE  TransferInv'
<1> USE DEF Transfer!Goto, Forward, Finishing
<1>0. ClientInv /\ ServerInv
  BY TransferParts
<1>1. CASE Transfer!SendSyn
  <2>1. Forward /\ ClientInv'
    BY <1>0, <1>1 DEF Transfer!SendSyn, Transfer!ClientSends, Transfer!serverVars, ClientInv,
          ClientTypes, Places, CountInside, OnlyDelivered, Transfer!Seqs
  <2> QED
    BY <1>1, <2>1, PacketsSent, ClientSends DEF Transfer!SendSyn
<1>2. CASE Transfer!AwaitSynAck
  <2>1. Forward /\ ClientInv'
    BY <1>0, <1>2, SeqsInside DEF Transfer!AwaitSynAck, Transfer!OnlyReads, Transfer!serverVars, ClientInv,
          ClientTypes, Places, CountInside, OnlyDelivered, Transfer!Seqs, Transfer!Receives,
          Transfer!TimesOut
  <2> QED
    BY <1>2, <2>1, ClientReads DEF Transfer!AwaitSynAck, Transfer!Receives, Transfer!TimesOut
<1>3. CASE Transfer!Top
  <2>1. Forward /\ ClientInv'
    BY <1>0, <1>3, SeqsInside DEF Transfer!Top, Transfer!Computes, Transfer!serverVars, ClientInv,
          ClientTypes, Places, CountInside, OnlyDelivered, Transfer!Seqs
  <2> QED
    BY <1>3, <2>1, ClientComputes DEF Transfer!Top
<1>4. CASE Transfer!SendNew
  <2>1. count \in 0..MsgLen /\ count < MsgLen /\ wait_count \in 0..(WINDOW - 1)
    BY <1>0, <1>4, SeqsInside DEF Transfer!SendNew, ClientInv, ClientTypes, CountInside
  <2>2. count \in Transfer!Seqs /\ (count + 1 < MsgLen => count + 1 \in Transfer!Seqs)
    BY <2>1, SeqsInside
  <2>3. /\ w' \in [0..(WINDOW - 1) -> Transfer!Seqs]
        /\ wait_count' \in 0..WINDOW /\ count' \in 0..MsgLen
    <3>1. CASE count + 1 >= MsgLen
      BY <1>0, <1>4, <3>1, SeqsInside DEF Transfer!SendNew, ClientInv, ClientTypes
    <3>2. CASE ~ (count + 1 >= MsgLen)
      <4>1. count + 1 \in Transfer!Seqs /\ count + 1 \in 0..MsgLen
        BY <2>1, <2>2, <3>2, SeqsInside
      <4> QED
        BY <1>0, <1>4, <2>1, <3>2, <4>1, SeqsInside DEF Transfer!SendNew, ClientInv, ClientTypes
    <3> QED
      BY <3>1, <3>2
  <2>4. Forward /\ ClientInv'
    BY SMTT(30), <1>0, <1>4, <2>3, SeqsInside DEF Transfer!SendNew, Transfer!ClientSends, Transfer!serverVars,
          ClientInv, ClientTypes, Places, CountInside, OnlyDelivered, Transfer!Seqs
  <2> QED
    BY <1>4, <2>2, <2>4, PacketsSent, ClientSends
    DEF Transfer!SendNew, Transfer!ClientSends, Transfer!Transmit
<1>5. CASE Transfer!WindowFull
  <2>1. Forward /\ ClientInv'
    BY <1>0, <1>5, SeqsInside DEF Transfer!WindowFull, Transfer!Computes, Transfer!serverVars, ClientInv,
          ClientTypes, Places, CountInside, OnlyDelivered, Transfer!Seqs
  <2> QED
    BY <1>5, <2>1, ClientComputes DEF Transfer!WindowFull
<1>6. CASE Transfer!UpdateWindow
  <2>1. Transfer!Unacknowledged # {} => Transfer!Latest(Transfer!Unacknowledged) \in Transfer!Seqs
    <3> DEFINE S == Transfer!Unacknowledged
    <3>1. S \in SUBSET (0..(count - 1)) /\ count \in 0..MsgLen
      BY <1>0 DEF Transfer!Unacknowledged, ClientInv, ClientTypes
    <3>2. count \in Nat /\ 0..(count - 1) \subseteq Transfer!Seqs
      BY <3>1, SeqsInside DEF Transfer!Seqs
    <3> HIDE DEF S
    <3>3. S # {} => \E s \in S : \A r \in S : r <= s
      BY <3>1, <3>2, GreatestBelow
    <3> QED
      BY <3>1, <3>2, <3>3 DEF Transfer!Latest, S
  <2>2. w' \in [0..(WINDOW - 1) -> Transfer!Seqs]
    BY <1>0, <1>6, <2>1 DEF Transfer!UpdateWindow, ClientInv, ClientTypes
  <2>3. Forward /\ ClientInv'
    BY <1>0, <1>6, <2>2 DEF Transfer!UpdateWindow, Transfer!Computes, Transfer!serverVars, ClientInv,
          ClientTypes, Places, CountInside, OnlyDelivered, Transfer!Seqs
  <2> QED
    BY <1>6, <2>3, ClientComputes DEF Transfer!UpdateWindow
<1>7. ASSUME NEW here \in {"recv", "finalrecv"}, NEW after \in {"resend", "finaltest"}, NEW limit,
             here = "finalrecv" <=> after = "finaltest", Transfer!ReceiveAcks(here, after, limit)
      PROVE  TransferInv'
  <2>1. ack' \in [Transfer!Seqs -> BOOLEAN] /\ OnlyDelivered'
    <3>1. CASE UNCHANGED ack
      BY <1>0, <1>7, <3>1 DEF ClientInv, ClientTypes, OnlyDelivered, Transfer!ReceiveAcks,
            Transfer!OnlyReads, Transfer!serverVars, Transfer!Seqs
    <3>2. CASE Transfer!Receives /\ Transfer!TakeAck(limit) /\ ~ UNCHANGED ack
      <4>1. /\ Transfer!Parses(Head(toClient)) /\ toClient # <<>>
            /\ ack' = [ack EXCEPT ![Head(toClient).seq] = TRUE]
        BY <3>2 DEF Transfer!TakeAck, Transfer!Receives
      <4>2. Head(toClient).seq \in Transfer!Seqs /\ Head(toClient).seq \in {0} \cup delivered
        BY <1>7, <4>1, AckTaken DEF Transfer!ReceiveAcks
      <4> QED
        <5>1. UNCHANGED delivered
          BY <1>7 DEF Transfer!ReceiveAcks, Transfer!OnlyReads, Transfer!serverVars
        <5>2. ack \in [Transfer!Seqs -> BOOLEAN] /\ OnlyDelivered
          BY <1>0 DEF ClientInv, ClientTypes
        <5> QED
          BY <4>1, <4>2, <5>1, <5>2, SeqsInside DEF OnlyDelivered, Transfer!Seqs
    <3> QED
      BY <1>7, <3>1, <3>2 DEF Transfer!ReceiveAcks
  <2>2. Forward /\ ClientInv'
    <3>1. UNCHANGED <<delivered, done, count, w>>
      BY <1>7 DEF Transfer!ReceiveAcks, Transfer!OnlyReads, Transfer!serverVars
    <3>2. timeout' \in 0..MaxTimeouts
      BY <1>0, <1>7 DEF Transfer!ReceiveAcks, ClientInv, ClientTypes, Transfer!Receives, Transfer!TimesOut,
         Transfer!TransferAssumption
    <3>3. pc = here /\ pc' \in {here, after} /\ i' \in Nat /\ wait_count' \in 0..WINDOW
      BY <1>0, <1>7 DEF Transfer!ReceiveAcks, ClientInv, ClientTypes, Transfer!Goto, Transfer!TransferAssumption
    <3>4. CountInside'
      BY <1>0, <1>7, <3>1, <3>3 DEF ClientInv, CountInside
    <3> QED
      BY <1>0, <1>7, <2>1, <3>1, <3>2, <3>3, <3>4 DEF Forward, Finishing, ClientInv, ClientTypes, Places
  <2>3. toClient' = toClient \/ (toClient # <<>> /\ toClient' = Tail(toClient))
    BY <1>7 DEF Transfer!ReceiveAcks, Transfer!Receives, Transfer!TimesOut
  <2>4. Transfer!OnlyReads
    BY <1>7 DEF Transfer!ReceiveAcks
  <2> QED
    BY <2>2, <2>3, <2>4, ClientReads
<1>8. CASE Transfer!ResendWindow
  <2>1. Forward /\ ClientInv'
    BY <1>0, <1>8 DEF Transfer!ResendWindow, Transfer!Computes, Transfer!ClientSends, Transfer!serverVars,
          ClientInv, ClientTypes, Places, CountInside, OnlyDelivered, Transfer!Seqs
  <2>2. CASE Transfer!Computes
    BY <2>1, <2>2, ClientComputes
  <2>3. CASE i < wait_count /\ Transfer!ClientSends(Transfer!Packet("msg", w[i]))
    <3>1. i \in 0..(WINDOW - 1)
      BY <1>0, <2>3, SeqsInside DEF ClientInv, ClientTypes
    <3>2. w[i] \in Transfer!Seqs
      BY <1>0, <3>1 DEF ClientInv, ClientTypes
    <3> QED
      BY <2>1, <2>3, <3>2, PacketsSent, ClientSends DEF Transfer!ClientSends, Transfer!Transmit
  <2> QED
    BY <1>8, <2>2, <2>3 DEF Transfer!ResendWindow
<1>9. CASE Transfer!ResendAny
  <2>1. i < count => i \in Transfer!Seqs
    BY <1>0, SeqsInside DEF ClientInv, ClientTypes
  <2>2. w' \in [0..(WINDOW - 1) -> Transfer!Seqs] /\ wait_count' \in 0..WINDOW
    <3>1. CASE UNCHANGED <<w, wait_count>>
      BY <1>0, <3>1 DEF ClientInv, ClientTypes
    <3>2. CASE /\ i < count /\ wait_count < WINDOW
               /\ w' = [w EXCEPT ![wait_count] = i] /\ wait_count' = wait_count + 1
      <4>1. wait_count \in 0..(WINDOW - 1) /\ wait_count + 1 \in 0..WINDOW
        BY <1>0, <3>2, SeqsInside DEF ClientInv, ClientTypes
      <4> QED
        BY <1>0, <2>1, <3>2, <4>1 DEF ClientInv, ClientTypes
    <3> QED
      BY SMTT(30), <1>0, <1>9, <3>1, <3>2, SeqsInside DEF Transfer!ResendAny, ClientInv, ClientTypes
  <2>3. Forward /\ ClientInv'
    BY <1>0, <1>9, <2>2 DEF Transfer!ResendAny, Transfer!Computes, Transfer!ClientSends, Transfer!serverVars,
          ClientInv, ClientTypes, Places, CountInside, OnlyDelivered, Transfer!Seqs
  <2>4. CASE Transfer!Computes
    BY <2>3, <2>4, ClientComputes
  <2>5. CASE i < count /\ Transfer!ClientSends(Transfer!Packet("msg", i))
    BY <2>1, <2>3, <2>5, PacketsSent, ClientSends DEF Transfer!ClientSends, Transfer!Transmit
  <2> QED
    BY <1>9, <2>4, <2>5 DEF Transfer!ResendAny
<1>10. CASE Transfer!Final
  <2>1. count \in Transfer!Seqs /\ MsgLen - 1 \in Transfer!Seqs
    BY SMTT(30), <1>0, <1>10, SeqsInside DEF Transfer!Final, ClientInv, ClientTypes, CountInside
  <2>2. w' \in [0..(WINDOW - 1) -> Transfer!Seqs] /\ wait_count' \in 0..WINDOW /\ done' \in BOOLEAN
    BY <1>0, <1>10, <2>1, SeqsInside DEF Transfer!Final, ClientInv, ClientTypes
  <2>3. Forward /\ ClientInv'
    <3>1. /\ pc = "final" /\ pc' \in {"fin", "finalrecv"} /\ count' \in 0..MsgLen
          /\ pc' # "fin" => count' < MsgLen
      BY <1>0, <1>10, <2>1, SeqsInside DEF Transfer!Final, Transfer!Goto, ClientInv, ClientTypes, CountInside
    <3>2. i' = 0 /\ UNCHANGED <<ack, timeout, delivered>>
      BY <1>10 DEF Transfer!Final, Transfer!Goto, Transfer!Computes, Transfer!ClientSends, Transfer!serverVars
    <3> QED
      BY <1>0, <2>2, <3>1, <3>2 DEF Forward, Finishing, ClientInv, ClientTypes, Places, CountInside,
         OnlyDelivered, Transfer!Seqs
  <2>4. CASE Transfer!Computes
    BY <2>3, <2>4, ClientComputes
  <2>5. CASE Transfer!ClientSends(Transfer!Packet("msg", count))
    BY <2>1, <2>3, <2>5, PacketsSent, ClientSends DEF Transfer!ClientSends, Transfer!Transmit
  <2> QED
    BY <1>10, <2>4, <2>5 DEF Transfer!Final
<1>11. CASE Transfer!FinalTest
  <2>1. Forward /\ ClientInv'
    BY <1>0, <1>11 DEF Transfer!FinalTest, Transfer!Computes, Transfer!serverVars, ClientInv,
          ClientTypes, Places, CountInside, OnlyDelivered, Transfer!Seqs
  <2> QED
    BY <1>11, <2>1, ClientComputes DEF Transfer!FinalTest
<1>12. CASE Transfer!SendFin
  <2>1. Forward /\ ClientInv'
    BY <1>0, <1>12 DEF Transfer!SendFin, Transfer!Computes, Transfer!ClientSends, Transfer!serverVars,
          ClientInv, ClientTypes, Places, CountInside, OnlyDelivered, Transfer!Seqs
  <2>2. CASE Transfer!Computes
    BY <2>1, <2>2, ClientComputes
  <2>3. CASE pc' = "finwait" /\ Transfer!ClientSends(Transfer!Packet("fin", Transfer!FIN_SEQ))
    BY <2>1, <2>3, PacketsSent, ClientSends
  <2> QED
    BY <1>12, <2>2, <2>3 DEF Transfer!SendFin
<1>13. CASE Transfer!AwaitFinAck
  <2>1. Forward /\ ClientInv'
    BY <1>0, <1>13, SeqsInside DEF Transfer!AwaitFinAck, Transfer!OnlyReads, Transfer!serverVars, ClientInv,
          ClientTypes, Places, CountInside, OnlyDelivered, Transfer!Seqs, Transfer!Receives,
          Transfer!TimesOut
  <2> QED
    BY <1>13, <2>1, ClientReads DEF Transfer!AwaitFinAck, Transfer!Receives, Transfer!TimesOut
<1> QED
  BY <1>1, <1>2, <1>3, <1>4, <1>5, <1>6, <1>7, <1>8, <1>9, <1>10, <1>11, <1>12, <1>13
  DEF Transfer!Client

\* The server acknowledges what it has stored.
LEMMA ServerStepInv ==
    ASSUME Transfer!TransferAssumption, Transfer!ShortMessage, TransferInv, Transfer!Server
    PROVE  TransferInv'
<1>1. /\ toServer # <<>> /\ toServer' = Tail(toServer)
      /\ UNCHANGED <<Transfer!clientVars, heldByClient>>
  BY DEF Transfer!Server, Transfer!ServerDropsCorrupt, Transfer!ServerTakesSyn,
         Transfer!ServerTakesFin, Transfer!ServerTakesMessage, Transfer!ServerReads
<1>2. Transfer!Incoming \in PacketsToServer
  BY <1>1, CarriesRest, TransferParts DEF ChannelsHonest, Transfer!Incoming
<1>3. ServerInv' /\ Forward
  BY <1>1, <1>2, TransferParts DEF Transfer!Server, Transfer!ServerDropsCorrupt,
     Transfer!ServerTakesSyn, Transfer!ServerTakesFin, Transfer!ServerTakesMessage, ServerInv,
     Transfer!serverVars, Transfer!clientVars, Transfer!Parses, PacketsToServer, Forward, Transfer!Seqs
<1>4. ClientInv'
  BY <1>1, <1>3, TransferParts DEF ClientInv, ClientTypes, CountInside, OnlyDelivered, Forward,
     Transfer!clientVars, Transfer!Seqs
<1>5. PacketsToServer \subseteq PacketsToServer' /\ PacketsToClient \subseteq PacketsToClient'
  BY <1>3, PacketsGrow
<1>6. Carries(toServer', heldByClient', PacketsToServer')
  BY <1>1, <1>5, CarriesRest, CarriesMore, TransferParts DEF ChannelsHonest
<1>7. Carries(toClient', heldByServer', PacketsToClient') /\ faults' \in 0..MaxFaults
  <2>1. CASE Transfer!ServerDropsCorrupt
    BY <1>5, <2>1, CarriesMore, TransferParts DEF ChannelsHonest, Transfer!ServerDropsCorrupt,
       Transfer!toClientVars
  <2>2. ASSUME NEW n \in Nat, Transfer!Acknowledge(n),
               n \in {0} \cup delivered' \/ (pc' \in Finishing /\ n = 257)
        PROVE  Carries(toClient', heldByServer', PacketsToClient') /\ faults' \in 0..MaxFaults
    <3> DEFINE p == Transfer!Packet("ack", n)
    <3>1. p \in Transfer!Packets /\ p \in PacketsToClient'
      BY <2>2, PacketFields, SeqsInside DEF PacketsToClient, Transfer!Packets, Transfer!SYN_SEQ,
         Transfer!FIN_SEQ
    <3>2. Transfer!Corrupted(p) \in PacketsToClient'
      BY <3>1, CorruptedPacket DEF PacketsToClient, Transfer!Packets
    <3>3. p.type = "ack" /\ p.seq = n
      BY PacketFields
    <3>4. Carries(toClient, heldByServer, PacketsToClient')
      BY <1>5, CarriesMore, TransferParts DEF ChannelsHonest
    <3> HIDE DEF p
    <3>5. n \in {0} \cup delivered' => n < 100
      BY <1>3 DEF ServerInv, Transfer!ShortMessage, Transfer!TransferAssumption, Transfer!Seqs
    <3>6. \A q \in Transfer!Disguised(p) : q \in PacketsToClient'
      BY <2>2, <3>3, <3>5, DisguisedPacket DEF PacketsToClient, Transfer!SYN_SEQ, Transfer!FIN_SEQ
    <3>7. Carries(toClient', heldByServer', PacketsToClient')
      BY <2>2, <3>1, <3>2, <3>4, <3>6, SentCarries DEF Transfer!Acknowledge, Transfer!Transmit, p
    <3>8. faults' \in 0..MaxFaults
      BY <2>2, TransferParts, SeqsInside DEF Transfer!Acknowledge, Transfer!Transmit
    <3> QED
      BY <3>7, <3>8
  <2>3. CASE Transfer!ServerTakesSyn
    BY <2>2, <2>3 DEF Transfer!ServerTakesSyn, Transfer!SYN_SEQ, Transfer!Acknowledge, Transfer!Transmit
  <2>4. CASE Transfer!ServerTakesFin
    <3>1. pc' \in Finishing
      BY <1>1, <1>2, <2>4 DEF Transfer!ServerTakesFin, PacketsToServer, Transfer!Parses,
         Transfer!clientVars
    <3> QED
      BY <2>2, <2>4, <3>1 DEF Transfer!ServerTakesFin, Transfer!FIN_SEQ
  <2>5. CASE Transfer!ServerTakesMessage
    <3>1. Transfer!Incoming.seq \in Nat /\ Transfer!Incoming.seq \in delivered'
      BY <1>2, <2>5 DEF Transfer!ServerTakesMessage, PacketsToServer, Transfer!Packets
    <3> QED
      BY <2>2, <2>5, <3>1 DEF Transfer!ServerTakesMessage, Transfer!Acknowledge, Transfer!Transmit
  <2> QED
    BY <2>1, <2>3, <2>4, <2>5 DEF Transfer!Server
<1> QED
  BY <1>3, <1>4, <1>6, <1>7, TransferPartsNext DEF ChannelsHonest

\* The acknowledgement that the client is about to read is of a packet that
\* was delivered, and those it has read are.
LEMMA TransferHonest ==
    ASSUME Transfer!TransferAssumption
    PROVE  TransferInv => Transfer!TypeOK /\ Transfer!AcksAreHonest
<1>1. SUFFICES ASSUME TransferInv PROVE Transfer!AcksAreHonest
  BY DEF TransferInv
<1>2. ASSUME pc \in {"recv", "finalrecv"}, NEW k \in DOMAIN toClient, Transfer!Parses(toClient[k])
      PROVE  toClient[k].seq \in Transfer!Seqs
  <2>1. toClient[k] \in PacketsToClient
    BY <1>1, <1>2, TransferParts, LenProperties, ElementOfSeq DEF ChannelsHonest, Carries
  <2>2. pc \notin Finishing
    BY <1>2 DEF Finishing
  <2> QED
    BY <1>1, <1>2, <2>1, <2>2, SeqsInside, TransferParts DEF PacketsToClient, Transfer!Parses, ServerInv
<1> QED
  BY <1>1, <1>2 DEF Transfer!AcksAreHonest, TransferInv, OnlyDelivered

\* The invariant of the transfer is kept by every step of it.
LEMMA TransferStep ==
    ASSUME Transfer!TransferAssumption, Transfer!ShortMessage
    PROVE  TransferInv /\ [Transfer!Next]_(Transfer!vars) => TransferInv'
<1>1. ASSUME TransferInv, UNCHANGED Transfer!vars PROVE TransferInv'
  <2>1. Forward /\ ClientInv' /\ Transfer!Computes
    BY <1>1, TransferParts DEF Transfer!vars, Transfer!clientVars, Transfer!serverVars,
       Transfer!toServerVars, Transfer!toClientVars, Transfer!Computes, Forward, ClientInv,
       ClientTypes, CountInside, OnlyDelivered, Transfer!Seqs
  <2> QED
    BY <1>1, <2>1, ClientComputes
<1> QED
  BY <1>1, ClientStepInv, ServerStepInv DEF Transfer!Next

-----------------------------------------------------------------------------
(* The threads of the web server and the count of them.                    *)

ThreadPlaces ==
    Server!Live \cup {"none", "silent", "leaving", "ended", "cancelled", "gone"}

ServerTypes ==
    /\ main \in {"accept", "grow", "create", "expire", "terminate", "exit"}
    /\ i \in Nat /\ accepted \in 0..MaxClients
    /\ threadCount \in Int /\ threadMax \in Nat \ {0}
    /\ thread \in [Server!Clients -> ThreadPlaces]

\* A client whose connection has not been accepted has no thread, and the one
\* whose thread is to be created has none yet.
NotYetCreated ==
    /\ \A c \in Server!Clients : c > accepted => thread[c] = "none"
    /\ main \in {"grow", "create"} => accepted > 0 /\ thread[accepted] = "none"

\* When "ALL connections" were terminated the count starts again from 0.
CountReset == main = "terminate" /\ i > 0 => threadCount <= 0

\* The parts of CountTellsThreads.
CountMatches ==
    /\ threadCount = Cardinality(Server!Counted)
    /\ 0..(threadCount - 1) \subseteq DOMAIN threads

RoomLeft == threadCount <= threadMax /\ (main = "create" => threadCount < threadMax)

CountInv ==
    /\ ServerTypes /\ NotYetCreated /\ CountReset
    /\ main # "exit" => RoomLeft /\ (reset \/ CountMatches)

LEMMA IntervalGrows ==
    ASSUME NEW n \in Int, NEW m \in Int, m <= n
    PROVE  0..(m - 1) \subseteq 0..(n - 1)
OBVIOUS

\* Cardinality and IsFiniteSet of an instance are those of FiniteSets.
LEMMA ServerCardinality == \A S : Server!Cardinality(S) = Cardinality(S)
BY DEF Server!Cardinality, Cardinality

LEMMA CountTells == CountInv => Server!CountTellsThreads
<1>1. CountMatches => threadCount = Cardinality(Server!Counted) /\ 0..(threadCount - 1) \subseteq DOMAIN threads
  BY DEF CountMatches
<1>2. RoomLeft => threadCount <= threadMax /\ (main = "create" => threadCount < threadMax)
  BY DEF RoomLeft
<1>3. CountInv => (main # "exit" => RoomLeft /\ (~ reset => CountMatches))
  BY Zenon DEF CountInv
<1> SUFFICES ASSUME CountInv, main # "exit" PROVE Server!CountTellsThreads
  BY Zenon DEF Server!CountTellsThreads
<1>4. ~ reset => threadCount = Server!Cardinality(Server!Counted)
  BY <1>1, <1>3, ServerCardinality, Zenon
<1>5. ~ reset => 0..(threadCount - 1) \subseteq DOMAIN threads
  BY <1>1, <1>3, Zenon
<1> QED
  BY <1>2, <1>3, <1>4, <1>5, Zenon DEF Server!CountTellsThreads

LEMMA CountedFinite ==
    ASSUME Server!ServerAssumption
    PROVE  IsFiniteSet(Server!Clients) /\ IsFiniteSet(Server!Counted)
<1>1. IsFiniteSet(Server!Clients)
  BY FS_Interval DEF Server!Clients, Server!ServerAssumption
<1>2. Server!Counted \subseteq Server!Clients
  BY DEF Server!Counted
<1> QED
  BY <1>1, <1>2, FS_Subset

\* What a step of a thread does to the set of those that are counted.
LEMMA ThreadGoes ==
    ASSUME ServerTypes, NEW c \in Server!Clients, NEW here \in ThreadPlaces \ {"none", "ended"},
           NEW there \in ThreadPlaces \ {"none"}, thread[c] = here,
           thread' = [thread EXCEPT ![c] = there]
    PROVE  /\ thread' \in [Server!Clients -> ThreadPlaces]
           /\ c \in Server!Counted
           /\ Server!Counted' = IF there = "ended" THEN Server!Counted \ {c} ELSE Server!Counted
<1>1. /\ thread' \in [Server!Clients -> ThreadPlaces]
      /\ \A d \in Server!Clients : thread'[d] = IF d = c THEN there ELSE thread[d]
  BY DEF ServerTypes
<1>2. Server!Counted' = {d \in Server!Clients : thread'[d] \notin {"none", "ended"}}
  BY DEF Server!Counted, Server!Clients
<1> QED
  BY <1>1, <1>2 DEF Server!Counted

\* A step of a thread keeps the invariant if it leaves the count as it leaves
\* the set.
LEMMA ThreadStepInv ==
    ASSUME CountInv, Server!ServerAssumption, main # "exit", NEW c \in Server!Clients, Server!Thread(c)
    PROVE  CountInv'
<1>1. UNCHANGED <<main, i, now, accepted, threadMax, threads, startTime, cancelled, reset>>
  BY DEF Server!Thread, Server!ReadsRequest, Server!Answers, Server!SendsFile, Server!Sends404,
         Server!Leaves, Server!IsCancelled, Server!Else, Server!arrays
<1>2. \/ /\ UNCHANGED threadCount
         /\ \E there \in ThreadPlaces \ {"none", "ended"}, here \in Server!Live :
                thread[c] = here /\ thread' = [thread EXCEPT ![c] = there]
      \/ /\ threadCount' = threadCount - 1 /\ thread[c] = "leaving"
         /\ thread' = [thread EXCEPT ![c] = "ended"]
  BY DEF Server!Thread, Server!ReadsRequest, Server!Answers, Server!SendsFile, Server!Sends404,
         Server!Leaves, Server!IsCancelled, Server!Goes, Server!Live, ThreadPlaces
<1>3. ServerTypes
  BY DEF CountInv
<1>4. /\ thread' \in [Server!Clients -> ThreadPlaces] /\ thread[c] # "none"
      /\ \A d \in Server!Clients \ {c} : thread'[d] = thread[d]
      /\ c \in Server!Counted
      /\ \/ UNCHANGED threadCount /\ Server!Counted' = Server!Counted
         \/ threadCount' = threadCount - 1 /\ Server!Counted' = Server!Counted \ {c}
  BY <1>2, <1>3, ThreadGoes DEF ThreadPlaces, Server!Live, ServerTypes
<1>5. IsFiniteSet(Server!Counted) /\ Cardinality(Server!Counted) \in Nat
  BY CountedFinite, FS_CardinalityType
<1>6. threadCount \in Int /\ threadCount' \in Int /\ threadCount' <= threadCount
  BY <1>3, <1>4 DEF ServerTypes
<1>12. threadCount = Cardinality(Server!Counted) => threadCount' = Cardinality(Server!Counted')
  BY <1>3, <1>4, <1>5, FS_RemoveElement DEF ServerTypes
<1>7. ServerTypes'
  BY <1>1, <1>3, <1>4, <1>6 DEF ServerTypes, Server!Clients, Server!Live, ThreadPlaces
<1>8. NotYetCreated'
  BY <1>1, <1>3, <1>4 DEF ServerTypes, CountInv, NotYetCreated, Server!Clients
<1>9. CountReset'
  BY <1>1, <1>3, <1>6 DEF CountInv, CountReset, ServerTypes
<1>10. RoomLeft => RoomLeft'
  BY <1>1, <1>3, <1>6 DEF RoomLeft, ServerTypes
<1>11. CountMatches => CountMatches'
  <2>1. SUFFICES ASSUME CountMatches PROVE CountMatches'
    OBVIOUS
  <2>2. threadCount' = Cardinality(Server!Counted')
    BY <1>12, <2>1 DEF CountMatches
  <2>3. 0..(threadCount' - 1) \subseteq 0..(threadCount - 1)
    BY <1>6, IntervalGrows
  <2> QED
    BY <1>1, <2>1, <2>2, <2>3 DEF CountMatches
<1> QED
  BY <1>1, <1>7, <1>8, <1>9, <1>10, <1>11, Zenon DEF CountInv

LEMMA InitCount ==
    ASSUME Server!ServerAssumption, Server!Init
    PROVE  CountInv
<1>1. ServerTypes /\ NotYetCreated /\ CountReset
  BY DEF Server!Init, Server!ServerAssumption, ServerTypes, NotYetCreated, CountReset,
         ThreadPlaces, Server!Clients
<1>2. Server!Counted = {}
  BY DEF Server!Init, Server!Counted
<1>3. threadCount = 0 /\ threadMax = Initial /\ main = "accept" /\ Initial \in Nat \ {0}
  BY DEF Server!Init, Server!ServerAssumption
<1>4. CountMatches /\ RoomLeft
  BY <1>2, <1>3, FS_EmptySet DEF CountMatches, RoomLeft
<1> QED
  BY <1>1, <1>4 DEF CountInv

\* main neither creates nor ends a thread in the steps that leave the count.
LEMMA CountKept ==
    ASSUME CountInv, UNCHANGED <<threadCount, thread, reset>>, DOMAIN threads \subseteq DOMAIN threads',
           main # "exit", threadMax' \in Nat \ {0}, threadMax <= threadMax',
           main' = "create" => threadCount < threadMax',
           ServerTypes', NotYetCreated', CountReset'
    PROVE  CountInv'
<1>1. Server!Counted' = Server!Counted
  BY DEF Server!Counted, Server!Clients
<1>2. /\ RoomLeft => RoomLeft'
      /\ CountMatches => CountMatches'
  BY <1>1 DEF CountInv, RoomLeft, CountMatches, ServerTypes
<1> QED
  BY <1>2, Zenon DEF CountInv

\* The array has room for the thread that is created, which enters the count.
LEMMA CreatesInv ==
    ASSUME Server!ServerAssumption, CountInv, Server!Creates
    PROVE  CountInv'
<1> USE DEF Server!Clients, Server!Live, ThreadPlaces
<1>0. ServerTypes /\ NotYetCreated /\ CountReset /\ RoomLeft
      /\ UNCHANGED reset /\ main # "exit" /\ main' # "exit"
  BY DEF CountInv, Server!Creates
<1>1. accepted \in Server!Clients /\ thread[accepted] = "none"
  BY <1>0 DEF Server!Creates, ServerTypes, NotYetCreated
<1>2. /\ thread' \in [Server!Clients -> ThreadPlaces]
      /\ \A d \in Server!Clients : thread'[d] = IF d = accepted THEN "reading" ELSE thread[d]
  BY <1>0, <1>1 DEF Server!Creates, ServerTypes
<1>3. Server!Counted' = Server!Counted \cup {accepted} /\ accepted \notin Server!Counted
  BY <1>1, <1>2 DEF Server!Counted
<1>4. Cardinality(Server!Counted') = Cardinality(Server!Counted) + 1
  BY <1>3, CountedFinite, FS_AddElement
<1>5. ServerTypes' /\ NotYetCreated' /\ CountReset'
  BY <1>0, <1>2 DEF Server!Creates, ServerTypes, NotYetCreated, CountReset
<1>6. DOMAIN threads' = DOMAIN threads \cup {threadCount}
  BY DEF Server!Creates, Server!Put
<1>7. /\ threadCount < threadMax /\ threadCount' = threadCount + 1 /\ UNCHANGED threadMax
      /\ main' = "expire"
  BY <1>0 DEF Server!Creates, RoomLeft
<1>8. RoomLeft'
  BY <1>0, <1>7 DEF RoomLeft, ServerTypes
<1>9. CountMatches => CountMatches'
  BY <1>0, <1>4, <1>6, <1>7 DEF CountMatches, ServerTypes
<1> QED
  BY <1>0, <1>5, <1>8, <1>9, Zenon DEF CountInv

\* When the loop of terminations ends, nobody is left below the count.
LEMMA TerminatesInv ==
    ASSUME Server!ServerAssumption, CountInv, Server!Terminates
    PROVE  CountInv'
<1> USE DEF Server!Clients, Server!Live, ThreadPlaces, Server!arrays
<1>0. ServerTypes /\ NotYetCreated /\ CountReset /\ RoomLeft
      /\ Initial \in Nat \ {0} /\ main # "exit"
  BY DEF CountInv, Server!Terminates, Server!ServerAssumption
<1>1. ServerTypes' /\ NotYetCreated' /\ CountReset'
  BY <1>0 DEF Server!Terminates, ServerTypes, NotYetCreated, CountReset
<1>2. Server!Counted' = Server!Counted
  BY DEF Server!Terminates, Server!Counted
<1>3. CASE i < threadCount
  <2>1. RoomLeft'
    BY <1>0, <1>3 DEF Server!Terminates, RoomLeft, ServerTypes
  <2>2. reset'
    BY <1>3, Zenon DEF Server!Terminates
  <2> QED
    BY <1>1, <2>1, <2>2, Zenon DEF CountInv
<1>4. CASE ~ (i < threadCount)
  <2>1. threadCount <= 0 /\ UNCHANGED <<threadCount, reset>> /\ threadMax' = Initial
        /\ main' = "accept"
    BY <1>0, <1>4 DEF Server!Terminates, CountReset, ServerTypes
  <2>2. RoomLeft' /\ (CountMatches => CountMatches')
    BY <1>0, <1>2, <2>1 DEF CountMatches, RoomLeft, ServerTypes
  <2>3. reset' = reset /\ (reset \/ CountMatches)
    BY <1>0, <2>1, Zenon DEF CountInv
  <2> QED
    BY <1>1, <2>2, <2>3, Zenon DEF CountInv
<1> QED
  BY <1>3, <1>4

LEMMA MainStepInv ==
    ASSUME Server!ServerAssumption, CountInv,
           Server!Ticks \/ Server!Accepts \/ Server!Grows \/ Server!Expires \/ Server!Interrupted
    PROVE  CountInv'
<1> USE DEF Server!Clients, Server!Live, ThreadPlaces, Server!arrays
<1>0. ServerTypes /\ NotYetCreated /\ CountReset /\ (main # "exit" => RoomLeft)
      /\ MaxClients \in Nat
  BY DEF CountInv, Server!ServerAssumption
<1>1. CASE Server!Ticks
  <2>1. ServerTypes' /\ NotYetCreated' /\ CountReset'
    BY <1>0, <1>1 DEF Server!Ticks, ServerTypes, NotYetCreated, CountReset
  <2>2. UNCHANGED <<main, threadCount, thread, reset, threads, threadMax>>
    BY <1>1 DEF Server!Ticks
  <2>3. main = "exit" => CountInv'
    BY <2>1, <2>2 DEF CountInv
  <2>4. main # "exit" => (main = "create" => threadCount < threadMax)
    BY <1>0 DEF RoomLeft
  <2> QED
    BY <1>0, <2>1, <2>2, <2>3, <2>4, CountKept DEF ServerTypes
<1>2. CASE Server!Accepts
  <2>1. ServerTypes' /\ NotYetCreated' /\ CountReset'
    BY <1>0, <1>2 DEF Server!Accepts, ServerTypes, NotYetCreated, CountReset
  <2> QED
    BY <1>0, <1>2, <2>1, CountKept DEF Server!Accepts, ServerTypes
<1>3. CASE Server!Grows
  <2>1. threadMax' \in Nat \ {0} /\ threadMax <= threadMax' /\ threadCount < threadMax'
    BY <1>0, <1>3 DEF Server!Grows, ServerTypes, RoomLeft
  <2>2. ServerTypes' /\ NotYetCreated' /\ CountReset'
    BY <1>0, <1>3, <2>1 DEF Server!Grows, ServerTypes, NotYetCreated, CountReset
  <2> QED
    BY <1>0, <1>3, <2>1, <2>2, CountKept DEF Server!Grows
<1>4. CASE Server!Expires
  <2>1. ServerTypes' /\ NotYetCreated' /\ CountReset'
    BY <1>0, <1>4 DEF Server!Expires, ServerTypes, NotYetCreated, CountReset
  <2>2. UNCHANGED <<threadCount, thread, reset, threads, threadMax>> /\ main = "expire" /\ main' # "create"
    BY <1>4 DEF Server!Expires
  <2> QED
    BY <1>0, <2>1, <2>2, CountKept DEF ServerTypes
<1>5. CASE Server!Interrupted
  <2>1. ServerTypes' /\ NotYetCreated' /\ CountReset'
    BY <1>0, <1>5 DEF Server!Interrupted, ServerTypes, NotYetCreated, CountReset
  <2> QED
    BY <1>5, <2>1 DEF Server!Interrupted, CountInv
<1> QED
  BY <1>1, <1>2, <1>3, <1>4, <1>5

\* That of the server by every step of its threads and of main.
LEMMA ServerStep ==
    ASSUME Server!ServerAssumption
    PROVE  CountInv /\ [Server!Next]_(Server!vars) => CountInv'
<1>1. ASSUME CountInv, UNCHANGED Server!vars PROVE CountInv'
  BY <1>1 DEF Server!vars, Server!arrays, CountInv, ServerTypes, NotYetCreated, CountReset,
     CountMatches, RoomLeft, Server!Counted, Server!Clients, ThreadPlaces, Server!Live
<1> QED
  BY <1>1, MainStepInv, CreatesInv, TerminatesInv, ThreadStepInv DEF Server!Next

-----------------------------------------------------------------------------
(* The boat across the river.                                              *)

LEMMA BoatCardinality ==
    /\ \A S : Boat!Cardinality(S) = Cardinality(S)
    /\ \A S : Boat!IsFiniteSet(S) = IsFiniteSet(S)
BY DEF Boat!Cardinality, Cardinality, Boat!IsFiniteSet, IsFiniteSet

\* A passenger is in one place, and the boat crosses only before its last
\* crossing.
OneShore == queued \cap aboard = {} /\ ashore \cap (queued \cup aboard) = {}

StillCrossing ==
    boat \in {"getValid", "BoatReady", "getLoaded", "BoatDone"} => cur_cross < max_crossings

BoatInv == Boat!BoatSafe /\ OneShore /\ StillCrossing

\* Those who wake up are waiters, and some wake up when there are some.
LEMMA SignalledWaiters ==
    ASSUME NEW waiters, IsFiniteSet(waiters), NEW n \in Nat,
           NEW S \in Boat!Signalled(n, waiters)
    PROVE  /\ S \subseteq waiters /\ IsFiniteSet(S)
           /\ waiters # {} /\ n > 0 => S # {}
<1>1. Cardinality(waiters) \in Nat
  BY FS_CardinalityType
<1> DEFINE m == Boat!Min({n, Cardinality(waiters)})
<1>2. m \in {n, Cardinality(waiters)}
  <2>1. \E x \in {n, Cardinality(waiters)} : \A y \in {n, Cardinality(waiters)} : x <= y
    BY <1>1
  <2> QED
    BY <2>1 DEF Boat!Min
<1>3. S \in SUBSET waiters /\ Cardinality(S) = m
  BY BoatCardinality DEF Boat!Signalled, Boat!kSubset
<1>4. IsFiniteSet(S)
  BY <1>3, FS_Subset
<1>5. waiters # {} /\ n > 0 => S # {}
  BY <1>1, <1>2, <1>3, FS_EmptySet
<1> QED
  BY <1>3, <1>4, <1>5

LEMMA PassengersFinite ==
    ASSUME Boat!BoatAssumption, NEW S \in SUBSET Boat!Passengers
    PROVE  IsFiniteSet(S) /\ Cardinality(S) \in Nat
BY BoatCardinality, FS_Subset, FS_CardinalityType DEF Boat!BoatAssumption

LEMMA DisjointUnion ==
    ASSUME NEW S, NEW T, IsFiniteSet(S), IsFiniteSet(T), S \cap T = {}
    PROVE  Cardinality(S \cup T) = Cardinality(S) + Cardinality(T)
<1>1. Cardinality(S \cup T) = Cardinality(S) + Cardinality(T) - Cardinality(S \cap T)
  BY FS_Union
<1>2. Cardinality(S \cap T) = 0 /\ Cardinality(S) \in Nat /\ Cardinality(T) \in Nat
  BY FS_EmptySet, FS_CardinalityType
<1> QED
  BY <1>1, <1>2

LEMMA InitBoat ==
    ASSUME Boat!BoatAssumption, Boat!Init
    PROVE  BoatInv
<1>1. Boat!TypeOK /\ StillCrossing
  BY DEF Boat!Init, Boat!BoatAssumption, Boat!TypeOK, StillCrossing
<1>2. Boat!FlagsAgree /\ OneShore
  BY BoatCardinality, FS_EmptySet DEF Boat!Init, Boat!FlagsAgree, OneShore
<1> QED
  BY <1>1, <1>2 DEF BoatInv, Boat!BoatSafe

\* A passenger may call the boat, and takes nothing from what the boat knows.
LEMMA ArrivesInv ==
    ASSUME BoatInv, NEW t \in Boat!Passengers, Boat!CannibalArrives(t) \/ Boat!MissionaryArrives(t)
    PROVE  BoatInv'
<1>0. Boat!TypeOK /\ Boat!FlagsAgree /\ OneShore /\ StillCrossing
  BY DEF BoatInv, Boat!BoatSafe
<1>1. /\ t \in ashore /\ ashore' = ashore \ {t} /\ queued' = queued \cup {t}
      /\ UNCHANGED <<aboard, boat_loaded, p_count, cur_cross, boat>>
  BY DEF Boat!CannibalArrives, Boat!MissionaryArrives, Boat!Enqueue
<1>2. (sailing' = 1 /\ valid_boat' = 1) \/ UNCHANGED <<sailing, valid_boat>>
  BY DEF Boat!CannibalArrives, Boat!MissionaryArrives, Boat!CallBoat
<1>3. MQueue_Count' \in Nat /\ CQueue_Count' \in Nat
  BY <1>0 DEF Boat!CannibalArrives, Boat!MissionaryArrives, Boat!TypeOK
<1>4. Boat!TypeOK'
  BY <1>0, <1>1, <1>2, <1>3 DEF Boat!TypeOK, Boat!Passengers
<1>5. Boat!FlagsAgree'
  BY <1>0, <1>1, <1>2 DEF Boat!FlagsAgree, Boat!TypeOK, Boat!Passengers
<1>6. OneShore' /\ StillCrossing'
  BY <1>0, <1>1 DEF OneShore, StillCrossing
<1> QED
  BY <1>4, <1>5, <1>6 DEF BoatInv, Boat!BoatSafe

LEMMA BoatReadyInv ==
    ASSUME Boat!BoatAssumption, BoatInv, Boat!BoatReady
    PROVE  BoatInv'
<1>0. Boat!TypeOK /\ Boat!FlagsAgree /\ OneShore /\ StillCrossing
  BY DEF BoatInv, Boat!BoatSafe
<1>1. /\ boat = "BoatReady" /\ boat' = "getLoaded"
      /\ UNCHANGED <<ashore, MQueue_Count, CQueue_Count, sailing, valid_boat, cur_cross>>
  BY DEF Boat!BoatReady, Boat!counts
<1> DEFINE load == IF MQueue_Count >= 3 THEN [m |-> 3, c |-> 0]
                   ELSE IF CQueue_Count >= 3 THEN [m |-> 0, c |-> 3] ELSE [m |-> 2, c |-> 1]
<1>11. load.m \in Nat /\ load.c \in Nat
  OBVIOUS
<1>2. PICK M \in Boat!Signalled(load.m, queued \cap Missionaries),
           C \in Boat!Signalled(load.c, queued \cap Cannibals) :
        /\ queued' = queued \ (M \cup C) /\ aboard' = aboard \cup M \cup C
        /\ p_count' = p_count + Boat!Cardinality(M \cup C)
        /\ boat_loaded' = IF p_count < 3 /\ p_count' >= 3 THEN 1 ELSE boat_loaded
  BY DEF Boat!BoatReady
<1> HIDE DEF load
<1>3. queued \in SUBSET Boat!Passengers /\ aboard \in SUBSET Boat!Passengers
  BY <1>0 DEF Boat!TypeOK
<1>4. M \subseteq queued /\ C \subseteq queued
  <2>1. IsFiniteSet(queued \cap Missionaries) /\ IsFiniteSet(queued \cap Cannibals)
    BY <1>3, PassengersFinite
  <2> QED
    BY <1>2, <1>11, <2>1, SignalledWaiters
<1>5. /\ aboard \cap (M \cup C) = {} /\ aboard' = aboard \cup (M \cup C)
      /\ IsFiniteSet(aboard) /\ IsFiniteSet(M \cup C)
      /\ Cardinality(aboard) \in Nat /\ Cardinality(M \cup C) \in Nat
  BY <1>0, <1>2, <1>3, <1>4, PassengersFinite DEF OneShore
<1>6. /\ p_count' = Cardinality(aboard') /\ p_count' \in Nat /\ p_count' >= p_count
      /\ p_count \in Nat
  BY <1>0, <1>2, <1>5, DisjointUnion, BoatCardinality DEF Boat!FlagsAgree, Boat!TypeOK
<1>7. Boat!TypeOK'
  <2>1. {ashore', queued', aboard'} \subseteq SUBSET Boat!Passengers
    BY <1>0, <1>1, <1>2, <1>3, <1>4 DEF Boat!TypeOK
  <2>2. boat_loaded' \in {0, 1}
    BY <1>0, <1>2 DEF Boat!TypeOK
  <2> QED
    BY <1>0, <1>1, <1>6, <2>1, <2>2 DEF Boat!TypeOK, Boat!Passengers
<1>8. Boat!FlagsAgree'
  <2>1. ashore' \cup queued' \cup aboard' = Boat!Passengers
    BY <1>0, <1>1, <1>2, <1>4 DEF Boat!FlagsAgree
  <2>2. boat_loaded' = 1 => valid_boat' = 1 /\ p_count' > 0
    BY <1>0, <1>1, <1>2, <1>6 DEF Boat!FlagsAgree
  <2> QED
    BY <1>0, <1>1, <1>6, <2>1, <2>2, BoatCardinality DEF Boat!FlagsAgree, Boat!Passengers
<1>9. OneShore' /\ StillCrossing'
  BY <1>0, <1>1, <1>2, <1>4 DEF OneShore, StillCrossing
<1> QED
  BY <1>7, <1>8, <1>9 DEF BoatInv, Boat!BoatSafe

LEMMA BoatDoneInv ==
    ASSUME Boat!BoatAssumption, BoatInv, Boat!BoatDone
    PROVE  BoatInv'
<1>0. Boat!TypeOK /\ Boat!FlagsAgree /\ OneShore /\ StillCrossing
  BY DEF BoatInv, Boat!BoatSafe
<1>1. /\ boat = "BoatDone" /\ boat' = "getCrossings" /\ sailing' = 0 /\ cur_cross' = cur_cross + 1
      /\ UNCHANGED <<queued, MQueue_Count, CQueue_Count>>
  BY DEF Boat!BoatDone, Boat!counts
<1>2. PICK off \in Boat!Signalled(3, aboard) :
        /\ aboard' = aboard \ off /\ ashore' = ashore \cup off
        /\ p_count' = p_count - Boat!Cardinality(off)
        /\ IF off # {} /\ p_count' = 0 THEN valid_boat' = 0 /\ boat_loaded' = 0
           ELSE UNCHANGED <<valid_boat, boat_loaded>>
  BY DEF Boat!BoatDone
<1>3. aboard \in SUBSET Boat!Passengers /\ IsFiniteSet(aboard) /\ Cardinality(aboard) \in Nat
  BY <1>0, PassengersFinite DEF Boat!TypeOK
<1>4. off \subseteq aboard /\ IsFiniteSet(off) /\ (aboard # {} => off # {})
  BY <1>2, <1>3, SignalledWaiters
<1>5. p_count' = Cardinality(aboard') /\ p_count' \in Nat
  <2>1. Cardinality(aboard \ off) = Cardinality(aboard) - Cardinality(aboard \cap off)
        /\ aboard \cap off = off
    BY <1>3, <1>4, FS_Difference
  <2>2. Cardinality(aboard \ off) \in Nat
    BY <1>3, PassengersFinite
  <2> QED
    BY <1>0, <1>2, <2>1, <2>2, BoatCardinality DEF Boat!FlagsAgree
<1>6. boat_loaded = 1 /\ valid_boat = 1 /\ off # {}
  BY <1>0, <1>1, <1>3, <1>4, FS_EmptySet, BoatCardinality DEF Boat!FlagsAgree
<1>7. IF p_count' = 0 THEN valid_boat' = 0 /\ boat_loaded' = 0 ELSE valid_boat' = 1 /\ boat_loaded' = 1
  BY <1>2, <1>6
<1>8. Boat!TypeOK'
  <2>1. {ashore', queued', aboard'} \subseteq SUBSET Boat!Passengers
    BY <1>0, <1>1, <1>2, <1>3, <1>4 DEF Boat!TypeOK
  <2>2. cur_cross' \in 0..max_crossings
    BY <1>0, <1>1 DEF Boat!TypeOK, StillCrossing, Boat!BoatAssumption
  <2> QED
    BY <1>0, <1>1, <1>5, <1>7, <2>1, <2>2 DEF Boat!TypeOK, Boat!Passengers
<1>9. Boat!FlagsAgree'
  <2>1. ashore' \cup queued' \cup aboard' = Boat!Passengers
    BY <1>0, <1>1, <1>2, <1>4 DEF Boat!FlagsAgree
  <2> QED
    BY <1>1, <1>5, <1>7, <2>1, BoatCardinality DEF Boat!FlagsAgree, Boat!Passengers
<1>10. OneShore' /\ StillCrossing'
  BY <1>0, <1>1, <1>2, <1>4 DEF OneShore, StillCrossing
<1> QED
  BY <1>8, <1>9, <1>10 DEF BoatInv, Boat!BoatSafe

\* The tests of BoatThread change nothing but where it is.
LEMMA PollInv ==
    ASSUME Boat!BoatAssumption, BoatInv, Boat!BoatThread
    PROVE  BoatInv'
<1>0. Boat!TypeOK /\ Boat!FlagsAgree /\ OneShore /\ StillCrossing
  BY DEF BoatInv, Boat!BoatSafe
<1>1. CASE Boat!BoatReady \/ Boat!BoatDone
  BY <1>1, BoatReadyInv, BoatDoneInv
<1>2. CASE /\ UNCHANGED <<ashore, queued, aboard, Boat!counts, sailing, valid_boat, boat_loaded,
                          p_count, cur_cross>>
           /\ \/ boat' = (IF cur_cross < max_crossings THEN "getValid" ELSE "Exit")
              \/ boat = "getValid" /\ boat' = (IF valid_boat # 0 THEN "BoatReady" ELSE "getLoaded")
              \/ boat = "getLoaded" /\ boat' = (IF boat_loaded # 0 THEN "BoatDone" ELSE "getCrossings")
  <2>1. Boat!TypeOK' /\ StillCrossing'
    BY <1>0, <1>2 DEF Boat!TypeOK, Boat!Passengers, StillCrossing, Boat!counts
  <2>2. Boat!FlagsAgree'
    BY <1>0, <1>2 DEF Boat!FlagsAgree, Boat!Passengers, Boat!TypeOK
  <2>3. OneShore'
    BY <1>0, <1>2 DEF OneShore
  <2> QED
    BY <2>1, <2>2, <2>3 DEF BoatInv, Boat!BoatSafe
<1> QED
  BY <1>1, <1>2 DEF Boat!BoatThread, Boat!Poll

\* That of the boat by every passenger and by the boat.
LEMMA BoatStepInv ==
    ASSUME Boat!BoatAssumption
    PROVE  BoatInv /\ [Boat!Next]_(Boat!vars) => BoatInv'
<1>1. ASSUME BoatInv, UNCHANGED Boat!vars PROVE BoatInv'
  BY <1>1 DEF Boat!vars, Boat!counts, BoatInv, Boat!BoatSafe, Boat!TypeOK, Boat!FlagsAgree,
     Boat!Passengers, OneShore, StillCrossing
<1> QED
  BY <1>1, ArrivesInv, PollInv DEF Boat!Next

-----------------------------------------------------------------------------
(* Santa, the reindeer and the elves.                                      *)

\* How many elves, and how many reindeer, are at each statement.
ElfPlaces == {"start", "asking", "question", "answer", "leaving"}
DeerPlaces == {"start", "vacation", "others", "sleigh", "hitching", "flying", "unhitching"}
SantaPlaces == {"start", "awake", "naming", "hitching", "delivering", "unhitching", "resetting",
                "releasing"}

AtPlace(S, f, p) == {t \in S : f[t] = p}

ElvesAt == [p \in ElfPlaces |-> Cardinality(AtPlace(Elves, at, p))]
DeerAt == [p \in DeerPlaces |-> Cardinality(AtPlace(Deer, at, p))]
SantaAt == at[SantaClaus!santa]

SantaTypes ==
    /\ SantaClaus!TypeOK
    /\ at \in [SantaClaus!Threads -> ElfPlaces \cup DeerPlaces \cup SantaPlaces]
    /\ SantaAt \in SantaPlaces
    /\ SantaAt \in {"awake", "hitching"} => delivery <= Deliveries

\* Those elves ask or have asked who are written in the first slots.
AskersWritten ==
    /\ \A s \in 0..(Elf_Count - 1) :
          waiting_elves[s] \in Elves /\ at[waiting_elves[s]] \in {"question", "answer"}
    /\ \A s, u \in 0..(Elf_Count - 1) : waiting_elves[s] = waiting_elves[u] => s = u

\* Three elves are let in, ask, and are heard when Santa names them.
ElvesAsk ==
    /\ sem["Answered"] = 0 /\ ElvesAt["leaving"] = 0
    /\ sem["Elf"] + ElvesAt["asking"] + Elf_Count = 3
    /\ Elf_Count = ElvesAt["question"] + ElvesAt["answer"]
    /\ IF SantaAt = "naming" THEN Elf_Count = 3 /\ sem["Question"] = ElvesAt["question"]
       ELSE sem["Question"] = 0 /\ ElvesAt["answer"] = 0
    /\ AskersWritten

\* They are answered, and leave; no other elf is let in before the last.
ElvesLeave ==
    /\ SantaAt # "naming" /\ Elf_Count \in 1..3
    /\ sem["Elf"] = 0 /\ ElvesAt["asking"] = 0
    /\ sem["Question"] = ElvesAt["question"]
    /\ sem["Answered"] = ElvesAt["question"] + ElvesAt["answer"]
    /\ Elf_Count = ElvesAt["question"] + ElvesAt["answer"] + ElvesAt["leaving"]

\* The reindeer and their semaphores, in the order of a delivery.
SantaIdle == SantaAt \in {"start", "awake", "naming"}
NoneAt(places) == \A p \in places : DeerAt[p] = 0
NoUnits(names) == \A s \in names : sem[s] = 0

DeerReturn ==
    /\ SantaIdle /\ Reindeer_Count < SantaClaus!r /\ Reindeer_Count = DeerAt["others"]
    /\ sem["Reindeer"] = DeerAt["start"]
    /\ DeerAt["start"] + DeerAt["vacation"] + DeerAt["others"] = SantaClaus!r
    /\ NoneAt({"sleigh", "hitching", "flying", "unhitching"})
    /\ NoUnits({"Waiting_Deer", "Sleigh", "Hitched", "Flying", "Unhitch"})

DeerBack ==
    /\ SantaIdle /\ Reindeer_Count = SantaClaus!r /\ sem["Waiting_Deer"] = DeerAt["others"]
    /\ DeerAt["others"] + DeerAt["sleigh"] = SantaClaus!r
    /\ NoneAt({"start", "vacation", "hitching", "flying", "unhitching"})
    /\ NoUnits({"Reindeer", "Sleigh", "Hitched", "Flying", "Unhitch"})

DeerHitched ==
    /\ SantaAt = "hitching" /\ Reindeer_Count = SantaClaus!r
    /\ sem["Waiting_Deer"] = DeerAt["others"]
    /\ sem["Sleigh"] = DeerAt["others"] + DeerAt["sleigh"]
    /\ sem["Hitched"] = DeerAt["flying"]
    /\ DeerAt["others"] + DeerAt["sleigh"] + DeerAt["hitching"] + DeerAt["flying"] = SantaClaus!r
    /\ NoneAt({"start", "vacation", "unhitching"})
    /\ NoUnits({"Reindeer", "Flying", "Unhitch"})

DeerFly ==
    /\ SantaAt \in {"delivering", "unhitching"} /\ Reindeer_Count = SantaClaus!r
    /\ sem["Flying"] = (IF SantaAt = "unhitching" THEN DeerAt["flying"] ELSE 0)
    /\ SantaAt = "delivering" => DeerAt["flying"] = SantaClaus!r
    /\ sem["Unhitch"] = DeerAt["start"]
    /\ DeerAt["flying"] + DeerAt["unhitching"] + DeerAt["start"] = SantaClaus!r
    /\ NoneAt({"vacation", "others", "sleigh", "hitching"})
    /\ NoUnits({"Reindeer", "Waiting_Deer", "Sleigh", "Hitched"})

DeerHome ==
    /\ SantaAt \in {"resetting", "releasing"}
    /\ Reindeer_Count = (IF SantaAt = "resetting" THEN SantaClaus!r ELSE 0)
    /\ DeerAt["start"] = SantaClaus!r
    /\ NoneAt(DeerPlaces \ {"start"})
    /\ NoUnits({"Reindeer", "Waiting_Deer", "Sleigh", "Hitched", "Flying", "Unhitch"})

\* Each wake-up of Santa is for three elves that ask or for the reindeer.
ElvesPending == Elf_Count = 3 /\ ElvesAt["question"] = 3 /\ sem["Question"] = 0
DeerPending == Reindeer_Count = SantaClaus!r /\ SantaIdle
One(b) == IF b THEN 1 ELSE 0

WakeupsMatch == sem["Sleeping"] + One(SantaAt = "awake") = One(ElvesPending) + One(DeerPending)

ElvesInStep == ElvesAsk \/ ElvesLeave
DeerInStep == DeerReturn \/ DeerBack \/ DeerHitched \/ DeerFly \/ DeerHome

SantaInv ==
    /\ SantaTypes /\ WakeupsMatch
    /\ ElvesInStep /\ DeerInStep

\* The reindeer are finitely many, and Santa counts them all.
LEMMA SantaCardinality ==
    ASSUME SantaClaus!SantaAssumption
    PROVE  /\ \A S : SantaClaus!Cardinality(S) = Cardinality(S)
           /\ IsFiniteSet(Elves) /\ IsFiniteSet(Deer)
           /\ SantaClaus!r = Cardinality(Deer) /\ SantaClaus!r \in Nat \ {0}
<1>1. /\ \A S : SantaClaus!Cardinality(S) = Cardinality(S)
      /\ \A S : SantaClaus!IsFiniteSet(S) = IsFiniteSet(S)
  BY DEF SantaClaus!Cardinality, Cardinality, SantaClaus!IsFiniteSet, IsFiniteSet
<1>2. IsFiniteSet(Elves) /\ IsFiniteSet(Deer) /\ Deer # {}
  BY <1>1 DEF SantaClaus!SantaAssumption
<1> QED
  BY <1>1, <1>2, FS_CardinalityType, FS_EmptySet DEF SantaClaus!r

\* When one of S moves, one less is where it was and one more where it goes.
LEMMA OneMoves ==
    ASSUME NEW S, IsFiniteSet(S), NEW x \in S, NEW f, NEW g, NEW here, NEW there, here # there,
           f[x] = here, g[x] = there, \A y \in S \ {x} : g[y] = f[y]
    PROVE  /\ Cardinality(AtPlace(S, g, here)) = Cardinality(AtPlace(S, f, here)) - 1
           /\ Cardinality(AtPlace(S, g, there)) = Cardinality(AtPlace(S, f, there)) + 1
           /\ \A p : p \notin {here, there} => AtPlace(S, g, p) = AtPlace(S, f, p)
           /\ Cardinality(AtPlace(S, f, here)) \in Nat \ {0}
<1>1. AtPlace(S, g, here) = AtPlace(S, f, here) \ {x}
  BY DEF AtPlace
<1>2. AtPlace(S, g, there) = AtPlace(S, f, there) \cup {x}
  BY DEF AtPlace
<1>3. IsFiniteSet(AtPlace(S, f, here)) /\ IsFiniteSet(AtPlace(S, f, there))
  BY FS_Subset DEF AtPlace
<1>4. x \in AtPlace(S, f, here) /\ x \notin AtPlace(S, f, there)
  BY DEF AtPlace
<1>5. Cardinality(AtPlace(S, g, here)) = Cardinality(AtPlace(S, f, here)) - 1
  BY <1>1, <1>3, <1>4, FS_RemoveElement
<1>6. Cardinality(AtPlace(S, g, there)) = Cardinality(AtPlace(S, f, there)) + 1
  BY ZenonT(40), <1>2, <1>3, <1>4, FS_AddElement
<1> QED
  BY <1>3, <1>4, <1>5, <1>6, FS_EmptySet, FS_CardinalityType DEF AtPlace

LEMMA PlacesCounted ==
    ASSUME SantaClaus!SantaAssumption
    PROVE  ElvesAt \in [ElfPlaces -> Nat] /\ DeerAt \in [DeerPlaces -> Nat]
<1>1. \A p \in ElfPlaces : Cardinality(AtPlace(Elves, at, p)) \in Nat
  BY SantaCardinality, FS_Subset, FS_CardinalityType DEF AtPlace
<1>2. \A p \in DeerPlaces : Cardinality(AtPlace(Deer, at, p)) \in Nat
  BY SantaCardinality, FS_Subset, FS_CardinalityType DEF AtPlace
<1> QED
  BY <1>1, <1>2 DEF ElvesAt, DeerAt

LEMMA ElfMoves ==
    ASSUME SantaClaus!SantaAssumption, SantaTypes, NEW e \in Elves,
           NEW here \in ElfPlaces, NEW there \in ElfPlaces, here # there,
           SantaClaus!Moves(e, here, there)
    PROVE  /\ ElvesAt' = [ElvesAt EXCEPT ![here] = @ - 1, ![there] = @ + 1] /\ ElvesAt[here] > 0
           /\ DeerAt' = DeerAt /\ SantaAt' = SantaAt
           /\ at' \in [SantaClaus!Threads -> ElfPlaces \cup DeerPlaces \cup SantaPlaces]
           /\ at[e] = here /\ at'[e] = there /\ \A f \in Elves \ {e} : at'[f] = at[f]
<1>1. /\ at \in [SantaClaus!Threads -> ElfPlaces \cup DeerPlaces \cup SantaPlaces]
      /\ at[e] = here /\ at' = [at EXCEPT ![e] = there] /\ e \in SantaClaus!Threads
  BY DEF SantaTypes, SantaClaus!Moves, SantaClaus!Threads
<1>2. e \notin Deer /\ e # SantaClaus!santa
  BY DEF SantaClaus!SantaAssumption
<1>3. at'[e] = there /\ \A f \in SantaClaus!Threads \ {e} : at'[f] = at[f]
  BY <1>1
<1>4. /\ \A f \in Elves \ {e} : at'[f] = at[f]
      /\ \A d \in Deer : at'[d] = at[d]
      /\ at'[SantaClaus!santa] = at[SantaClaus!santa]
  BY <1>2, <1>3 DEF SantaClaus!Threads
<1>5. DeerAt' = DeerAt /\ SantaAt' = SantaAt
  BY <1>4 DEF DeerAt, SantaAt, AtPlace
<1>6. /\ Cardinality(AtPlace(Elves, at', here)) = Cardinality(AtPlace(Elves, at, here)) - 1
      /\ Cardinality(AtPlace(Elves, at', there)) = Cardinality(AtPlace(Elves, at, there)) + 1
      /\ \A p : p \notin {here, there} => AtPlace(Elves, at', p) = AtPlace(Elves, at, p)
      /\ Cardinality(AtPlace(Elves, at, here)) > 0
  <2> DEFINE f == at
             g == at'
  <2>1. IsFiniteSet(Elves) /\ e \in Elves /\ f[e] = here /\ g[e] = there
        /\ \A y \in Elves \ {e} : g[y] = f[y]
    BY <1>1, <1>3, <1>4, SantaCardinality
  <2> HIDE DEF f, g
  <2>2. /\ Cardinality(AtPlace(Elves, g, here)) = Cardinality(AtPlace(Elves, f, here)) - 1
        /\ Cardinality(AtPlace(Elves, g, there)) = Cardinality(AtPlace(Elves, f, there)) + 1
        /\ \A p : p \notin {here, there} => AtPlace(Elves, g, p) = AtPlace(Elves, f, p)
        /\ Cardinality(AtPlace(Elves, f, here)) > 0
    BY <2>1, OneMoves
  <2> QED
    BY <2>2 DEF f, g
<1>7. \A p \in ElfPlaces : ElvesAt'[p] = IF p = here THEN ElvesAt[p] - 1
                                         ELSE IF p = there THEN ElvesAt[p] + 1 ELSE ElvesAt[p]
  BY <1>6 DEF ElvesAt
<1>8. ElvesAt' = [ElvesAt EXCEPT ![here] = @ - 1, ![there] = @ + 1] /\ ElvesAt[here] > 0
  BY <1>6, <1>7 DEF ElvesAt
<1>9. at' \in [SantaClaus!Threads -> ElfPlaces \cup DeerPlaces \cup SantaPlaces]
  BY <1>1
<1> QED
  BY <1>1, <1>3, <1>4, <1>5, <1>8, <1>9

LEMMA DeerMoves ==
    ASSUME SantaClaus!SantaAssumption, SantaTypes, NEW d \in Deer,
           NEW here \in DeerPlaces, NEW there \in DeerPlaces, here # there,
           SantaClaus!Moves(d, here, there)
    PROVE  /\ DeerAt' = [DeerAt EXCEPT ![here] = @ - 1, ![there] = @ + 1] /\ DeerAt[here] > 0
           /\ ElvesAt' = ElvesAt /\ SantaAt' = SantaAt
           /\ at' \in [SantaClaus!Threads -> ElfPlaces \cup DeerPlaces \cup SantaPlaces]
           /\ \A e \in Elves : at'[e] = at[e]
<1>1. /\ at \in [SantaClaus!Threads -> ElfPlaces \cup DeerPlaces \cup SantaPlaces]
      /\ at[d] = here /\ at' = [at EXCEPT ![d] = there] /\ d \in SantaClaus!Threads
  BY DEF SantaTypes, SantaClaus!Moves, SantaClaus!Threads
<1>2. d \notin Elves /\ d # SantaClaus!santa
  BY DEF SantaClaus!SantaAssumption
<1>3. at'[d] = there /\ \A f \in SantaClaus!Threads \ {d} : at'[f] = at[f]
  BY <1>1
<1>4. /\ \A f \in Deer \ {d} : at'[f] = at[f]
      /\ \A e \in Elves : at'[e] = at[e]
      /\ at'[SantaClaus!santa] = at[SantaClaus!santa]
  BY <1>2, <1>3 DEF SantaClaus!Threads
<1>5. ElvesAt' = ElvesAt /\ SantaAt' = SantaAt
  BY <1>4 DEF ElvesAt, SantaAt, AtPlace
<1>6. /\ Cardinality(AtPlace(Deer, at', here)) = Cardinality(AtPlace(Deer, at, here)) - 1
      /\ Cardinality(AtPlace(Deer, at', there)) = Cardinality(AtPlace(Deer, at, there)) + 1
      /\ \A p : p \notin {here, there} => AtPlace(Deer, at', p) = AtPlace(Deer, at, p)
      /\ Cardinality(AtPlace(Deer, at, here)) > 0
  <2> DEFINE f == at
             g == at'
  <2>1. IsFiniteSet(Deer) /\ d \in Deer /\ f[d] = here /\ g[d] = there
        /\ \A y \in Deer \ {d} : g[y] = f[y]
    BY <1>1, <1>3, <1>4, SantaCardinality
  <2> HIDE DEF f, g
  <2>2. /\ Cardinality(AtPlace(Deer, g, here)) = Cardinality(AtPlace(Deer, f, here)) - 1
        /\ Cardinality(AtPlace(Deer, g, there)) = Cardinality(AtPlace(Deer, f, there)) + 1
        /\ \A p : p \notin {here, there} => AtPlace(Deer, g, p) = AtPlace(Deer, f, p)
        /\ Cardinality(AtPlace(Deer, f, here)) > 0
    BY <2>1, OneMoves
  <2> QED
    BY <2>2 DEF f, g
<1>7. \A p \in DeerPlaces : DeerAt'[p] = IF p = here THEN DeerAt[p] - 1
                                         ELSE IF p = there THEN DeerAt[p] + 1 ELSE DeerAt[p]
  BY <1>6 DEF DeerAt
<1>8. DeerAt' = [DeerAt EXCEPT ![here] = @ - 1, ![there] = @ + 1] /\ DeerAt[here] > 0
  BY <1>6, <1>7 DEF DeerAt
<1>9. at' \in [SantaClaus!Threads -> ElfPlaces \cup DeerPlaces \cup SantaPlaces]
  BY <1>1
<1> QED
  BY <1>4, <1>5, <1>8, <1>9

LEMMA SantaMoves ==
    ASSUME SantaClaus!SantaAssumption, SantaTypes, NEW here, NEW there \in SantaPlaces,
           SantaClaus!Moves(SantaClaus!santa, here, there)
    PROVE  /\ SantaAt = here /\ SantaAt' = there /\ ElvesAt' = ElvesAt /\ DeerAt' = DeerAt
           /\ at' \in [SantaClaus!Threads -> ElfPlaces \cup DeerPlaces \cup SantaPlaces]
           /\ \A e \in Elves : at'[e] = at[e]
<1>1. /\ at \in [SantaClaus!Threads -> ElfPlaces \cup DeerPlaces \cup SantaPlaces]
      /\ at[SantaClaus!santa] = here /\ at' = [at EXCEPT ![SantaClaus!santa] = there]
      /\ SantaClaus!santa \in SantaClaus!Threads
  BY DEF SantaTypes, SantaClaus!Moves, SantaClaus!Threads
<1>2. SantaClaus!santa \notin Elves \cup Deer
  BY DEF SantaClaus!SantaAssumption
<1>3. at'[SantaClaus!santa] = there /\ \A f \in Elves \cup Deer : at'[f] = at[f]
  BY <1>1, <1>2 DEF SantaClaus!Threads
<1>4. at' \in [SantaClaus!Threads -> ElfPlaces \cup DeerPlaces \cup SantaPlaces]
  BY <1>1
<1> QED
  BY <1>1, <1>3, <1>4 DEF SantaAt, ElvesAt, DeerAt, AtPlace

\* The semaphores that the elves wait on are not those of the reindeer.
LEMMA DeerUndisturbed ==
    ASSUME DeerInStep, UNCHANGED <<DeerAt, SantaAt, Reindeer_Count>>,
           \A s \in {"Reindeer", "Sleigh", "Flying", "Waiting_Deer", "Hitched", "Unhitch"} :
               sem'[s] = sem[s]
    PROVE  DeerInStep'
BY DEF DeerInStep, DeerReturn, DeerBack, DeerHitched, DeerFly, DeerHome, NoUnits, NoneAt, SantaIdle

LEMMA ElfWaitsInv ==
    ASSUME SantaClaus!SantaAssumption, SantaInv, NEW e \in Elves, SantaClaus!ElfWaits(e)
    PROVE  SantaInv'
<1>0. SantaTypes /\ WakeupsMatch /\ ElvesInStep /\ DeerInStep
  BY DEF SantaInv
<1>1. /\ SantaClaus!Moves(e, "start", "asking")
      /\ sem["Elf"] >= 1 /\ sem' = [sem EXCEPT !["Elf"] = @ - 1]
      /\ UNCHANGED <<Elf_Count, Reindeer_Count, waiting_elves, delivery>>
  BY DEF SantaClaus!ElfWaits, SantaClaus!Only, SantaClaus!Wait
<1>2. /\ ElvesAt' = [ElvesAt EXCEPT !["start"] = @ - 1, !["asking"] = @ + 1]
      /\ ElvesAt["start"] > 0 /\ DeerAt' = DeerAt /\ SantaAt' = SantaAt
      /\ at' \in [SantaClaus!Threads -> ElfPlaces \cup DeerPlaces \cup SantaPlaces]
      /\ at[e] = "start" /\ at'[e] = "asking" /\ \A f \in Elves \ {e} : at'[f] = at[f]
  BY <1>0, <1>1, ElfMoves DEF ElfPlaces
<1>3. ElvesAt \in [ElfPlaces -> Nat] /\ sem \in [SantaClaus!Semaphores -> Nat]
      /\ Elf_Count \in 0..3
  BY <1>0, PlacesCounted DEF SantaTypes, SantaClaus!TypeOK, SantaClaus!ELF_MAX
<1>4. SantaTypes'
  BY <1>0, <1>1, <1>2, <1>3 DEF SantaTypes, SantaClaus!TypeOK, SantaClaus!Semaphores, SantaClaus!ELF_MAX,
     ElvesInStep, ElvesAsk, ElvesLeave, ElfPlaces
<1>5. DeerInStep'
  BY <1>0, <1>1, <1>2, <1>3, DeerUndisturbed DEF SantaClaus!Semaphores
<1>6. ElvesInStep'
  BY <1>0, <1>1, <1>2, <1>3 DEF ElvesInStep, ElvesAsk, ElvesLeave, AskersWritten, ElfPlaces,
     SantaClaus!Semaphores
<1>7. WakeupsMatch'
  BY <1>0, <1>1, <1>2, <1>3 DEF WakeupsMatch, One, ElvesPending, DeerPending, SantaIdle, ElvesInStep,
     ElvesAsk, ElvesLeave, ElfPlaces, SantaClaus!Semaphores
<1> QED
  BY <1>4, <1>5, <1>6, <1>7 DEF SantaInv

LEMMA AsksInv ==
    ASSUME SantaClaus!SantaAssumption, SantaInv, NEW e \in Elves, SantaClaus!Asks(e)
    PROVE  SantaInv'
<1>0. SantaTypes /\ WakeupsMatch /\ ElvesInStep /\ DeerInStep
  BY DEF SantaInv
<1>1. /\ SantaClaus!Moves(e, "asking", "question")
      /\ waiting_elves' = [waiting_elves EXCEPT ![Elf_Count] = e] /\ Elf_Count' = Elf_Count + 1
      /\ sem' = IF Elf_Count + 1 = 3 THEN [sem EXCEPT !["Sleeping"] = @ + 1] ELSE sem
      /\ UNCHANGED <<Reindeer_Count, delivery>>
  BY DEF SantaClaus!Asks, SantaClaus!Signal, SantaClaus!ELF_MAX
<1>2. /\ ElvesAt' = [ElvesAt EXCEPT !["asking"] = @ - 1, !["question"] = @ + 1]
      /\ ElvesAt["asking"] > 0 /\ DeerAt' = DeerAt /\ SantaAt' = SantaAt
      /\ at' \in [SantaClaus!Threads -> ElfPlaces \cup DeerPlaces \cup SantaPlaces]
      /\ at[e] = "asking" /\ at'[e] = "question" /\ \A f \in Elves \ {e} : at'[f] = at[f]
  BY <1>0, <1>1, ElfMoves DEF ElfPlaces
<1>3. ElvesAt \in [ElfPlaces -> Nat] /\ sem \in [SantaClaus!Semaphores -> Nat]
      /\ Elf_Count \in 0..3
  BY <1>0, PlacesCounted DEF SantaTypes, SantaClaus!TypeOK, SantaClaus!ELF_MAX
<1>4. SantaTypes'
  BY <1>0, <1>1, <1>2, <1>3 DEF SantaTypes, SantaClaus!TypeOK, SantaClaus!Semaphores, SantaClaus!ELF_MAX,
     ElvesInStep, ElvesAsk, ElvesLeave, ElfPlaces
<1>5. DeerInStep'
  BY <1>0, <1>1, <1>2, <1>3, DeerUndisturbed DEF SantaClaus!Semaphores
<1>6. /\ ElvesAsk /\ Elf_Count < 3 /\ SantaAt # "naming"
      /\ ElvesAt["question"] = Elf_Count /\ ElvesAt["answer"] = 0 /\ sem["Question"] = 0
      /\ sem["Answered"] = 0 /\ ElvesAt["leaving"] = 0
      /\ sem["Elf"] + ElvesAt["asking"] + Elf_Count = 3 /\ AskersWritten
  BY <1>0, <1>2, <1>3 DEF ElvesInStep, ElvesAsk, ElvesLeave, ElfPlaces, SantaClaus!Semaphores
<1>7. AskersWritten'
  <2>1. /\ waiting_elves'[Elf_Count] = e
        /\ \A s \in 0..(Elf_Count - 1) : waiting_elves'[s] = waiting_elves[s]
    BY <1>0, <1>1, <1>3, <1>6 DEF SantaTypes, SantaClaus!TypeOK, SantaClaus!ELF_MAX
  <2>2. \A s \in 0..(Elf_Count - 1) :
           waiting_elves[s] \in Elves \ {e} /\ at[waiting_elves[s]] \in {"question", "answer"}
    BY <1>2, <1>6 DEF AskersWritten
  <2>3. \A s \in 0..(Elf_Count' - 1) : s = Elf_Count \/ s \in 0..(Elf_Count - 1)
    BY <1>1, <1>3
  <2>4. \A s, u \in 0..(Elf_Count' - 1) : waiting_elves'[s] = waiting_elves'[u] => s = u
    BY <1>6, <2>1, <2>2, <2>3 DEF AskersWritten
  <2>5. \A s \in 0..(Elf_Count' - 1) :
           waiting_elves'[s] \in Elves /\ at'[waiting_elves'[s]] \in {"question", "answer"}
    BY <1>2, <2>1, <2>2, <2>3
  <2> QED
    BY <2>4, <2>5 DEF AskersWritten
<1>8. ElvesInStep'
  <2>1. \A s \in {"Answered", "Elf", "Question"} : sem'[s] = sem[s]
    BY <1>1, <1>3 DEF SantaClaus!Semaphores
  <2>2. /\ ElvesAt'["leaving"] = 0 /\ ElvesAt'["answer"] = 0
        /\ ElvesAt'["asking"] = ElvesAt["asking"] - 1 /\ ElvesAt'["question"] = Elf_Count + 1
        /\ ElvesAt["asking"] \in Nat /\ sem["Elf"] \in Nat
    BY <1>2, <1>3, <1>6 DEF ElfPlaces, SantaClaus!Semaphores
  <2>3. ElvesAsk'
    BY <1>1, <1>2, <1>3, <1>6, <1>7, <2>1, <2>2 DEF ElvesAsk
  <2> QED
    BY <2>3 DEF ElvesInStep
<1>9. WakeupsMatch'
  <2>1. One(DeerPending)' = One(DeerPending) /\ One(SantaAt = "awake")' = One(SantaAt = "awake")
    BY <1>1, <1>2 DEF One, DeerPending, SantaIdle
  <2>2. One(ElvesPending) = 0 /\ One(ElvesPending)' = One(Elf_Count + 1 = 3)
    BY <1>1, <1>2, <1>3, <1>6 DEF One, ElvesPending, ElfPlaces, SantaClaus!Semaphores
  <2>3. sem'["Sleeping"] = sem["Sleeping"] + One(Elf_Count + 1 = 3)
    BY <1>1, <1>3 DEF One, SantaClaus!Semaphores
  <2>4. One(DeerPending) \in Nat /\ One(SantaAt = "awake") \in Nat /\ sem["Sleeping"] \in Nat
        /\ One(Elf_Count + 1 = 3) \in Nat
    BY <1>3 DEF One, SantaClaus!Semaphores
  <2> QED
    BY <1>0, <2>1, <2>2, <2>3, <2>4 DEF WakeupsMatch
<1> QED
  BY <1>4, <1>5, <1>8, <1>9 DEF SantaInv

LEMMA WaitsToBeHeardInv ==
    ASSUME SantaClaus!SantaAssumption, SantaInv, NEW e \in Elves, SantaClaus!WaitsToBeHeard(e)
    PROVE  SantaInv'
<1>0. SantaTypes /\ WakeupsMatch /\ ElvesInStep /\ DeerInStep
  BY DEF SantaInv
<1>1. /\ SantaClaus!Moves(e, "question", "answer")
      /\ sem["Question"] >= 1 /\ sem' = [sem EXCEPT !["Question"] = @ - 1]
      /\ UNCHANGED <<Elf_Count, Reindeer_Count, waiting_elves, delivery>>
  BY DEF SantaClaus!WaitsToBeHeard, SantaClaus!Only, SantaClaus!Wait
<1>2. /\ ElvesAt' = [ElvesAt EXCEPT !["question"] = @ - 1, !["answer"] = @ + 1]
      /\ ElvesAt["question"] > 0 /\ DeerAt' = DeerAt /\ SantaAt' = SantaAt
      /\ at' \in [SantaClaus!Threads -> ElfPlaces \cup DeerPlaces \cup SantaPlaces]
      /\ at[e] = "question" /\ at'[e] = "answer" /\ \A f \in Elves \ {e} : at'[f] = at[f]
  BY <1>0, <1>1, ElfMoves DEF ElfPlaces
<1>3. ElvesAt \in [ElfPlaces -> Nat] /\ sem \in [SantaClaus!Semaphores -> Nat]
      /\ Elf_Count \in 0..3
  BY <1>0, PlacesCounted DEF SantaTypes, SantaClaus!TypeOK, SantaClaus!ELF_MAX
<1>4. SantaTypes'
  BY <1>0, <1>1, <1>2, <1>3 DEF SantaTypes, SantaClaus!TypeOK, SantaClaus!Semaphores, SantaClaus!ELF_MAX,
     ElvesInStep, ElvesAsk, ElvesLeave, ElfPlaces
<1>5. DeerInStep'
  BY <1>0, <1>1, <1>2, <1>3, DeerUndisturbed DEF SantaClaus!Semaphores
<1>6. ElvesInStep'
  BY <1>0, <1>1, <1>2, <1>3 DEF ElvesInStep, ElvesAsk, ElvesLeave, AskersWritten, ElfPlaces,
     SantaClaus!Semaphores
<1>7. WakeupsMatch'
  BY <1>0, <1>1, <1>2, <1>3 DEF WakeupsMatch, One, ElvesPending, DeerPending, SantaIdle, ElvesInStep,
     ElvesAsk, ElvesLeave, ElfPlaces, SantaClaus!Semaphores
<1> QED
  BY <1>4, <1>5, <1>6, <1>7 DEF SantaInv

LEMMA GetsAnswerInv ==
    ASSUME SantaClaus!SantaAssumption, SantaInv, NEW e \in Elves, SantaClaus!GetsAnswer(e)
    PROVE  SantaInv'
<1>0. SantaTypes /\ WakeupsMatch /\ ElvesInStep /\ DeerInStep
  BY DEF SantaInv
<1>1. /\ SantaClaus!Moves(e, "answer", "leaving")
      /\ sem["Answered"] >= 1 /\ sem' = [sem EXCEPT !["Answered"] = @ - 1]
      /\ waiting_elves' = [slot \in DOMAIN waiting_elves |-> SantaClaus!None]
      /\ UNCHANGED <<Elf_Count, Reindeer_Count, delivery>>
  BY DEF SantaClaus!GetsAnswer, SantaClaus!Wait
<1>2. /\ ElvesAt' = [ElvesAt EXCEPT !["answer"] = @ - 1, !["leaving"] = @ + 1]
      /\ ElvesAt["answer"] > 0 /\ DeerAt' = DeerAt /\ SantaAt' = SantaAt
      /\ at' \in [SantaClaus!Threads -> ElfPlaces \cup DeerPlaces \cup SantaPlaces]
      /\ at[e] = "answer" /\ at'[e] = "leaving" /\ \A f \in Elves \ {e} : at'[f] = at[f]
  BY <1>0, <1>1, ElfMoves DEF ElfPlaces
<1>3. ElvesAt \in [ElfPlaces -> Nat] /\ sem \in [SantaClaus!Semaphores -> Nat]
      /\ Elf_Count \in 0..3
  BY <1>0, PlacesCounted DEF SantaTypes, SantaClaus!TypeOK, SantaClaus!ELF_MAX
<1>4. SantaTypes'
  BY <1>0, <1>1, <1>2, <1>3 DEF SantaTypes, SantaClaus!TypeOK, SantaClaus!Semaphores, SantaClaus!ELF_MAX,
     ElvesInStep, ElvesAsk, ElvesLeave, ElfPlaces
<1>5. DeerInStep'
  BY <1>0, <1>1, <1>2, <1>3, DeerUndisturbed DEF SantaClaus!Semaphores
<1>6. ElvesInStep'
  BY <1>0, <1>1, <1>2, <1>3 DEF ElvesInStep, ElvesAsk, ElvesLeave, AskersWritten, ElfPlaces,
     SantaClaus!Semaphores
<1>7. WakeupsMatch'
  BY <1>0, <1>1, <1>2, <1>3 DEF WakeupsMatch, One, ElvesPending, DeerPending, SantaIdle, ElvesInStep,
     ElvesAsk, ElvesLeave, ElfPlaces, SantaClaus!Semaphores
<1> QED
  BY <1>4, <1>5, <1>6, <1>7 DEF SantaInv

LEMMA LeavesInv ==
    ASSUME SantaClaus!SantaAssumption, SantaInv, NEW e \in Elves, SantaClaus!Leaves(e)
    PROVE  SantaInv'
<1>0. SantaTypes /\ WakeupsMatch /\ ElvesInStep /\ DeerInStep
  BY DEF SantaInv
<1>1. /\ SantaClaus!Moves(e, "leaving", "start")
      /\ Elf_Count' = Elf_Count - 1
      /\ sem' = IF Elf_Count - 1 = 0 THEN [sem EXCEPT !["Elf"] = @ + 3] ELSE sem
      /\ UNCHANGED <<Reindeer_Count, waiting_elves, delivery>>
  BY DEF SantaClaus!Leaves, SantaClaus!Signal, SantaClaus!ELF_MAX
<1>2. /\ ElvesAt' = [ElvesAt EXCEPT !["leaving"] = @ - 1, !["start"] = @ + 1]
      /\ ElvesAt["leaving"] > 0 /\ DeerAt' = DeerAt /\ SantaAt' = SantaAt
      /\ at' \in [SantaClaus!Threads -> ElfPlaces \cup DeerPlaces \cup SantaPlaces]
      /\ at[e] = "leaving" /\ at'[e] = "start" /\ \A f \in Elves \ {e} : at'[f] = at[f]
  BY <1>0, <1>1, ElfMoves DEF ElfPlaces
<1>3. ElvesAt \in [ElfPlaces -> Nat] /\ sem \in [SantaClaus!Semaphores -> Nat]
      /\ Elf_Count \in 0..3
  BY <1>0, PlacesCounted DEF SantaTypes, SantaClaus!TypeOK, SantaClaus!ELF_MAX
<1>4. SantaTypes'
  BY <1>0, <1>1, <1>2, <1>3 DEF SantaTypes, SantaClaus!TypeOK, SantaClaus!Semaphores, SantaClaus!ELF_MAX,
     ElvesInStep, ElvesAsk, ElvesLeave, ElfPlaces
<1>5. DeerInStep'
  BY <1>0, <1>1, <1>2, <1>3, DeerUndisturbed DEF SantaClaus!Semaphores
<1>6. /\ SantaAt # "naming" /\ Elf_Count \in 1..3 /\ ElvesAt["leaving"] \in Nat
      /\ sem["Elf"] = 0 /\ ElvesAt["asking"] = 0 /\ sem["Question"] = ElvesAt["question"]
      /\ sem["Answered"] = ElvesAt["question"] + ElvesAt["answer"]
      /\ Elf_Count = ElvesAt["question"] + ElvesAt["answer"] + ElvesAt["leaving"]
      /\ ElvesAt["question"] \in Nat /\ ElvesAt["answer"] \in Nat
  BY <1>0, <1>2, <1>3 DEF ElvesInStep, ElvesAsk, ElvesLeave, ElfPlaces
<1>7. ElvesInStep'
  <2>1. /\ \A p \in {"asking", "question", "answer"} : ElvesAt'[p] = ElvesAt[p]
        /\ ElvesAt'["leaving"] = ElvesAt["leaving"] - 1
    BY <1>2, <1>3 DEF ElfPlaces
  <2>2. \A s \in {"Answered", "Question"} : sem'[s] = sem[s]
    BY <1>1, <1>3 DEF SantaClaus!Semaphores
  <2>3. CASE Elf_Count = 1
    <3>1. sem'["Elf"] = 3 /\ Elf_Count' = 0
      BY <1>1, <1>3, <1>6, <2>3 DEF SantaClaus!Semaphores
    <3>2. ElvesAt'["question"] = 0 /\ ElvesAt'["answer"] = 0 /\ ElvesAt'["leaving"] = 0
      BY <1>2, <1>6, <2>1, <2>3
    <3>3. AskersWritten'
      BY <3>1 DEF AskersWritten
    <3>4. sem'["Answered"] = 0 /\ sem'["Question"] = 0 /\ ElvesAt'["asking"] = 0
      BY <1>2, <1>6, <2>1, <2>2, <2>3
    <3>5. SantaAt' # "naming"
      BY <1>2, <1>6
    <3>6. ElvesAsk'
      BY <3>1, <3>2, <3>3, <3>4, <3>5 DEF ElvesAsk
    <3> QED
      BY <3>6 DEF ElvesInStep
  <2>4. CASE Elf_Count # 1
    <3>1. sem' = sem /\ Elf_Count' \in 1..3
      BY <1>1, <1>6, <2>4
    <3>2. ElvesLeave'
      BY <1>1, <1>2, <1>6, <2>1, <3>1 DEF ElvesLeave
    <3> QED
      BY <3>2 DEF ElvesInStep
  <2> QED
    BY <2>3, <2>4
<1>8. WakeupsMatch'
  BY <1>0, <1>1, <1>2, <1>3 DEF WakeupsMatch, One, ElvesPending, DeerPending, SantaIdle, ElvesInStep,
     ElvesAsk, ElvesLeave, ElfPlaces, SantaClaus!Semaphores
<1> QED
  BY <1>4, <1>5, <1>7, <1>8 DEF SantaInv

LEMMA ElvesUndisturbed ==
    ASSUME ElvesInStep, UNCHANGED <<ElvesAt, Elf_Count, waiting_elves>>,
           SantaAt = "naming" <=> SantaAt' = "naming",
           \A s \in {"Answered", "Elf", "Question"} : sem'[s] = sem[s],
           \A e \in Elves : at'[e] = at[e]
    PROVE  ElvesInStep'
<1>1. AskersWritten => AskersWritten'
  BY DEF AskersWritten
<1> QED
  BY <1>1 DEF ElvesInStep, ElvesAsk, ElvesLeave

LEMMA DeerWaitsInv ==
    ASSUME SantaClaus!SantaAssumption, SantaInv, NEW d \in Deer, SantaClaus!DeerWaits(d)
    PROVE  SantaInv'
<1>0. SantaTypes /\ WakeupsMatch /\ ElvesInStep /\ DeerInStep
  BY DEF SantaInv
<1>1. /\ SantaClaus!Moves(d, "start", "vacation")
      /\ sem["Reindeer"] >= 1 /\ sem' = [sem EXCEPT !["Reindeer"] = @ - 1]
      /\ UNCHANGED <<Elf_Count, Reindeer_Count, waiting_elves, delivery>>
  BY DEF SantaClaus!DeerWaits, SantaClaus!Only, SantaClaus!Wait
<1>2. /\ DeerAt' = [DeerAt EXCEPT !["start"] = @ - 1, !["vacation"] = @ + 1]
      /\ DeerAt["start"] > 0 /\ ElvesAt' = ElvesAt /\ SantaAt' = SantaAt
      /\ at' \in [SantaClaus!Threads -> ElfPlaces \cup DeerPlaces \cup SantaPlaces]
      /\ \A e \in Elves : at'[e] = at[e]
  BY <1>0, <1>1, DeerMoves DEF DeerPlaces
<1>3. DeerAt \in [DeerPlaces -> Nat] /\ sem \in [SantaClaus!Semaphores -> Nat]
      /\ Reindeer_Count \in 0..SantaClaus!r /\ SantaClaus!r \in Nat \ {0}
  BY <1>0, PlacesCounted, SantaCardinality DEF SantaTypes, SantaClaus!TypeOK
<1>4. DeerInStep'
  BY <1>0, <1>1, <1>2, <1>3 DEF DeerInStep, DeerReturn, DeerBack, DeerHitched, DeerFly, DeerHome,
     NoUnits, NoneAt, SantaIdle, DeerPlaces, SantaClaus!Semaphores
<1>5. SantaTypes'
  BY <1>0, <1>1, <1>2, <1>3 DEF SantaTypes, SantaClaus!TypeOK, SantaClaus!Semaphores
<1>6. ElvesInStep'
  BY <1>0, <1>1, <1>2, <1>3, ElvesUndisturbed DEF SantaClaus!Semaphores
<1>7. WakeupsMatch'
  BY <1>0, <1>1, <1>2, <1>3 DEF WakeupsMatch, One, ElvesPending, DeerPending, SantaIdle,
     SantaClaus!Semaphores
<1> QED
  BY <1>4, <1>5, <1>6, <1>7 DEF SantaInv

LEMMA ReindeerBackInv ==
    ASSUME SantaClaus!SantaAssumption, SantaInv, NEW d \in Deer, SantaClaus!ReindeerBack(d)
    PROVE  SantaInv'
<1>0. SantaTypes /\ WakeupsMatch /\ ElvesInStep /\ DeerInStep
  BY DEF SantaInv
<1>1. /\ SantaClaus!Moves(d, "vacation", "others")
      /\ Reindeer_Count' = Reindeer_Count + 1
      /\ sem' = IF Reindeer_Count + 1 = SantaClaus!r
                THEN [sem EXCEPT !["Waiting_Deer"] = @ + SantaClaus!r, !["Sleeping"] = @ + 1] ELSE sem
      /\ UNCHANGED <<Elf_Count, waiting_elves, delivery>>
  BY DEF SantaClaus!ReindeerBack, SantaClaus!Moves
<1>2. /\ DeerAt' = [DeerAt EXCEPT !["vacation"] = @ - 1, !["others"] = @ + 1]
      /\ DeerAt["vacation"] > 0 /\ ElvesAt' = ElvesAt /\ SantaAt' = SantaAt
      /\ at' \in [SantaClaus!Threads -> ElfPlaces \cup DeerPlaces \cup SantaPlaces]
      /\ \A e \in Elves : at'[e] = at[e]
  BY <1>0, <1>1, DeerMoves DEF DeerPlaces
<1>3. DeerAt \in [DeerPlaces -> Nat] /\ sem \in [SantaClaus!Semaphores -> Nat]
      /\ Reindeer_Count \in 0..SantaClaus!r /\ SantaClaus!r \in Nat \ {0}
  BY <1>0, PlacesCounted, SantaCardinality DEF SantaTypes, SantaClaus!TypeOK
<1>4. DeerInStep'
  BY <1>0, <1>1, <1>2, <1>3 DEF DeerInStep, DeerReturn, DeerBack, DeerHitched, DeerFly, DeerHome,
     NoUnits, NoneAt, SantaIdle, DeerPlaces, SantaClaus!Semaphores
<1>5. SantaIdle /\ Reindeer_Count < SantaClaus!r
  BY <1>0, <1>2, <1>3 DEF DeerInStep, DeerReturn, DeerBack, DeerHitched, DeerFly, DeerHome, NoneAt,
     DeerPlaces
<1>6. SantaTypes'
  <2>1. sem' \in [SantaClaus!Semaphores -> Nat]
    BY <1>1, <1>3 DEF SantaClaus!Semaphores
  <2>2. Reindeer_Count' \in 0..SantaClaus!r
    BY <1>1, <1>3, <1>5
  <2> QED
    BY <1>0, <1>1, <1>2, <2>1, <2>2 DEF SantaTypes, SantaClaus!TypeOK
<1>7. ElvesInStep'
  BY <1>0, <1>1, <1>2, <1>3, ElvesUndisturbed DEF SantaClaus!Semaphores
<1>8. WakeupsMatch'
  <2>1. One(ElvesPending)' = One(ElvesPending) /\ One(SantaAt = "awake")' = One(SantaAt = "awake")
    BY <1>1, <1>2, <1>3 DEF One, ElvesPending, SantaClaus!Semaphores
  <2>2. One(DeerPending) = 0 /\ One(DeerPending)' = One(Reindeer_Count + 1 = SantaClaus!r)
    BY <1>1, <1>2, <1>3, <1>5 DEF One, DeerPending, SantaIdle
  <2>3. sem'["Sleeping"] = sem["Sleeping"] + One(Reindeer_Count + 1 = SantaClaus!r)
    BY <1>1, <1>3 DEF One, SantaClaus!Semaphores
  <2>4. /\ One(ElvesPending) \in Nat /\ One(SantaAt = "awake") \in Nat /\ sem["Sleeping"] \in Nat
        /\ One(Reindeer_Count + 1 = SantaClaus!r) \in Nat
    BY <1>3 DEF One, SantaClaus!Semaphores
  <2> QED
    BY <1>0, <2>1, <2>2, <2>3, <2>4 DEF WakeupsMatch
<1> QED
  BY <1>4, <1>6, <1>7, <1>8 DEF SantaInv

LEMMA WaitOthersInv ==
    ASSUME SantaClaus!SantaAssumption, SantaInv, NEW d \in Deer, SantaClaus!WaitOthers(d)
    PROVE  SantaInv'
<1>0. SantaTypes /\ WakeupsMatch /\ ElvesInStep /\ DeerInStep
  BY DEF SantaInv
<1>1. /\ SantaClaus!Moves(d, "others", "sleigh")
      /\ sem["Waiting_Deer"] >= 1 /\ sem' = [sem EXCEPT !["Waiting_Deer"] = @ - 1]
      /\ UNCHANGED <<Elf_Count, Reindeer_Count, waiting_elves, delivery>>
  BY DEF SantaClaus!WaitOthers, SantaClaus!Only, SantaClaus!Wait
<1>2. /\ DeerAt' = [DeerAt EXCEPT !["others"] = @ - 1, !["sleigh"] = @ + 1]
      /\ DeerAt["others"] > 0 /\ ElvesAt' = ElvesAt /\ SantaAt' = SantaAt
      /\ at' \in [SantaClaus!Threads -> ElfPlaces \cup DeerPlaces \cup SantaPlaces]
      /\ \A e \in Elves : at'[e] = at[e]
  BY <1>0, <1>1, DeerMoves DEF DeerPlaces
<1>3. DeerAt \in [DeerPlaces -> Nat] /\ sem \in [SantaClaus!Semaphores -> Nat]
      /\ Reindeer_Count \in 0..SantaClaus!r /\ SantaClaus!r \in Nat \ {0}
  BY <1>0, PlacesCounted, SantaCardinality DEF SantaTypes, SantaClaus!TypeOK
<1>4. DeerInStep'
  BY <1>0, <1>1, <1>2, <1>3 DEF DeerInStep, DeerReturn, DeerBack, DeerHitched, DeerFly, DeerHome,
     NoUnits, NoneAt, SantaIdle, DeerPlaces, SantaClaus!Semaphores
<1>5. SantaTypes'
  BY <1>0, <1>1, <1>2, <1>3 DEF SantaTypes, SantaClaus!TypeOK, SantaClaus!Semaphores
<1>6. ElvesInStep'
  BY <1>0, <1>1, <1>2, <1>3, ElvesUndisturbed DEF SantaClaus!Semaphores
<1>7. WakeupsMatch'
  BY <1>0, <1>1, <1>2, <1>3 DEF WakeupsMatch, One, ElvesPending, DeerPending, SantaIdle,
     SantaClaus!Semaphores
<1> QED
  BY <1>4, <1>5, <1>6, <1>7 DEF SantaInv

LEMMA WaitSleighInv ==
    ASSUME SantaClaus!SantaAssumption, SantaInv, NEW d \in Deer, SantaClaus!WaitSleigh(d)
    PROVE  SantaInv'
<1>0. SantaTypes /\ WakeupsMatch /\ ElvesInStep /\ DeerInStep
  BY DEF SantaInv
<1>1. /\ SantaClaus!Moves(d, "sleigh", "hitching")
      /\ sem["Sleigh"] >= 1 /\ sem' = [sem EXCEPT !["Sleigh"] = @ - 1]
      /\ UNCHANGED <<Elf_Count, Reindeer_Count, waiting_elves, delivery>>
  BY DEF SantaClaus!WaitSleigh, SantaClaus!Only, SantaClaus!Wait
<1>2. /\ DeerAt' = [DeerAt EXCEPT !["sleigh"] = @ - 1, !["hitching"] = @ + 1]
      /\ DeerAt["sleigh"] > 0 /\ ElvesAt' = ElvesAt /\ SantaAt' = SantaAt
      /\ at' \in [SantaClaus!Threads -> ElfPlaces \cup DeerPlaces \cup SantaPlaces]
      /\ \A e \in Elves : at'[e] = at[e]
  BY <1>0, <1>1, DeerMoves DEF DeerPlaces
<1>3. DeerAt \in [DeerPlaces -> Nat] /\ sem \in [SantaClaus!Semaphores -> Nat]
      /\ Reindeer_Count \in 0..SantaClaus!r /\ SantaClaus!r \in Nat \ {0}
  BY <1>0, PlacesCounted, SantaCardinality DEF SantaTypes, SantaClaus!TypeOK
<1>4. DeerInStep'
  BY <1>0, <1>1, <1>2, <1>3 DEF DeerInStep, DeerReturn, DeerBack, DeerHitched, DeerFly, DeerHome,
     NoUnits, NoneAt, SantaIdle, DeerPlaces, SantaClaus!Semaphores
<1>5. SantaTypes'
  BY <1>0, <1>1, <1>2, <1>3 DEF SantaTypes, SantaClaus!TypeOK, SantaClaus!Semaphores
<1>6. ElvesInStep'
  BY <1>0, <1>1, <1>2, <1>3, ElvesUndisturbed DEF SantaClaus!Semaphores
<1>7. WakeupsMatch'
  BY <1>0, <1>1, <1>2, <1>3 DEF WakeupsMatch, One, ElvesPending, DeerPending, SantaIdle,
     SantaClaus!Semaphores
<1> QED
  BY <1>4, <1>5, <1>6, <1>7 DEF SantaInv

LEMMA HitchesUpInv ==
    ASSUME SantaClaus!SantaAssumption, SantaInv, NEW d \in Deer, SantaClaus!HitchesUp(d)
    PROVE  SantaInv'
<1>0. SantaTypes /\ WakeupsMatch /\ ElvesInStep /\ DeerInStep
  BY DEF SantaInv
<1>1. /\ SantaClaus!Moves(d, "hitching", "flying")
      /\ sem' = [sem EXCEPT !["Hitched"] = @ + 1]
      /\ UNCHANGED <<Elf_Count, Reindeer_Count, waiting_elves, delivery>>
  BY DEF SantaClaus!HitchesUp, SantaClaus!Only, SantaClaus!Signal
<1>2. /\ DeerAt' = [DeerAt EXCEPT !["hitching"] = @ - 1, !["flying"] = @ + 1]
      /\ DeerAt["hitching"] > 0 /\ ElvesAt' = ElvesAt /\ SantaAt' = SantaAt
      /\ at' \in [SantaClaus!Threads -> ElfPlaces \cup DeerPlaces \cup SantaPlaces]
      /\ \A e \in Elves : at'[e] = at[e]
  BY <1>0, <1>1, DeerMoves DEF DeerPlaces
<1>3. DeerAt \in [DeerPlaces -> Nat] /\ sem \in [SantaClaus!Semaphores -> Nat]
      /\ Reindeer_Count \in 0..SantaClaus!r /\ SantaClaus!r \in Nat \ {0}
  BY <1>0, PlacesCounted, SantaCardinality DEF SantaTypes, SantaClaus!TypeOK
<1>4. DeerInStep'
  BY <1>0, <1>1, <1>2, <1>3 DEF DeerInStep, DeerReturn, DeerBack, DeerHitched, DeerFly, DeerHome,
     NoUnits, NoneAt, SantaIdle, DeerPlaces, SantaClaus!Semaphores
<1>5. SantaTypes'
  BY <1>0, <1>1, <1>2, <1>3 DEF SantaTypes, SantaClaus!TypeOK, SantaClaus!Semaphores
<1>6. ElvesInStep'
  BY <1>0, <1>1, <1>2, <1>3, ElvesUndisturbed DEF SantaClaus!Semaphores
<1>7. WakeupsMatch'
  BY <1>0, <1>1, <1>2, <1>3 DEF WakeupsMatch, One, ElvesPending, DeerPending, SantaIdle,
     SantaClaus!Semaphores
<1> QED
  BY <1>4, <1>5, <1>6, <1>7 DEF SantaInv

LEMMA FlyOffInv ==
    ASSUME SantaClaus!SantaAssumption, SantaInv, NEW d \in Deer, SantaClaus!FlyOff(d)
    PROVE  SantaInv'
<1>0. SantaTypes /\ WakeupsMatch /\ ElvesInStep /\ DeerInStep
  BY DEF SantaInv
<1>1. /\ SantaClaus!Moves(d, "flying", "unhitching")
      /\ sem["Flying"] >= 1 /\ sem' = [sem EXCEPT !["Flying"] = @ - 1]
      /\ UNCHANGED <<Elf_Count, Reindeer_Count, waiting_elves, delivery>>
  BY DEF SantaClaus!FlyOff, SantaClaus!Only, SantaClaus!Wait
<1>2. /\ DeerAt' = [DeerAt EXCEPT !["flying"] = @ - 1, !["unhitching"] = @ + 1]
      /\ DeerAt["flying"] > 0 /\ ElvesAt' = ElvesAt /\ SantaAt' = SantaAt
      /\ at' \in [SantaClaus!Threads -> ElfPlaces \cup DeerPlaces \cup SantaPlaces]
      /\ \A e \in Elves : at'[e] = at[e]
  BY <1>0, <1>1, DeerMoves DEF DeerPlaces
<1>3. DeerAt \in [DeerPlaces -> Nat] /\ sem \in [SantaClaus!Semaphores -> Nat]
      /\ Reindeer_Count \in 0..SantaClaus!r /\ SantaClaus!r \in Nat \ {0}
  BY <1>0, PlacesCounted, SantaCardinality DEF SantaTypes, SantaClaus!TypeOK
<1>4. DeerInStep'
  BY <1>0, <1>1, <1>2, <1>3 DEF DeerInStep, DeerReturn, DeerBack, DeerHitched, DeerFly, DeerHome,
     NoUnits, NoneAt, SantaIdle, DeerPlaces, SantaClaus!Semaphores
<1>5. SantaTypes'
  BY <1>0, <1>1, <1>2, <1>3 DEF SantaTypes, SantaClaus!TypeOK, SantaClaus!Semaphores
<1>6. ElvesInStep'
  BY <1>0, <1>1, <1>2, <1>3, ElvesUndisturbed DEF SantaClaus!Semaphores
<1>7. WakeupsMatch'
  BY <1>0, <1>1, <1>2, <1>3 DEF WakeupsMatch, One, ElvesPending, DeerPending, SantaIdle,
     SantaClaus!Semaphores
<1> QED
  BY <1>4, <1>5, <1>6, <1>7 DEF SantaInv

LEMMA UnhitchesInv ==
    ASSUME SantaClaus!SantaAssumption, SantaInv, NEW d \in Deer, SantaClaus!Unhitches(d)
    PROVE  SantaInv'
<1>0. SantaTypes /\ WakeupsMatch /\ ElvesInStep /\ DeerInStep
  BY DEF SantaInv
<1>1. /\ SantaClaus!Moves(d, "unhitching", "start")
      /\ sem' = [sem EXCEPT !["Unhitch"] = @ + 1]
      /\ UNCHANGED <<Elf_Count, Reindeer_Count, waiting_elves, delivery>>
  BY DEF SantaClaus!Unhitches, SantaClaus!Only, SantaClaus!Signal
<1>2. /\ DeerAt' = [DeerAt EXCEPT !["unhitching"] = @ - 1, !["start"] = @ + 1]
      /\ DeerAt["unhitching"] > 0 /\ ElvesAt' = ElvesAt /\ SantaAt' = SantaAt
      /\ at' \in [SantaClaus!Threads -> ElfPlaces \cup DeerPlaces \cup SantaPlaces]
      /\ \A e \in Elves : at'[e] = at[e]
  BY <1>0, <1>1, DeerMoves DEF DeerPlaces
<1>3. DeerAt \in [DeerPlaces -> Nat] /\ sem \in [SantaClaus!Semaphores -> Nat]
      /\ Reindeer_Count \in 0..SantaClaus!r /\ SantaClaus!r \in Nat \ {0}
  BY <1>0, PlacesCounted, SantaCardinality DEF SantaTypes, SantaClaus!TypeOK
<1>4. DeerInStep'
  BY <1>0, <1>1, <1>2, <1>3 DEF DeerInStep, DeerReturn, DeerBack, DeerHitched, DeerFly, DeerHome,
     NoUnits, NoneAt, SantaIdle, DeerPlaces, SantaClaus!Semaphores
<1>5. SantaTypes'
  BY <1>0, <1>1, <1>2, <1>3 DEF SantaTypes, SantaClaus!TypeOK, SantaClaus!Semaphores
<1>6. ElvesInStep'
  BY <1>0, <1>1, <1>2, <1>3, ElvesUndisturbed DEF SantaClaus!Semaphores
<1>7. WakeupsMatch'
  BY <1>0, <1>1, <1>2, <1>3 DEF WakeupsMatch, One, ElvesPending, DeerPending, SantaIdle,
     SantaClaus!Semaphores
<1> QED
  BY <1>4, <1>5, <1>6, <1>7 DEF SantaInv

LEMMA SleepInv ==
    ASSUME SantaClaus!SantaAssumption, SantaInv, SantaClaus!Sleep
    PROVE  SantaInv'
<1>0. SantaTypes /\ WakeupsMatch /\ ElvesInStep /\ DeerInStep
  BY DEF SantaInv
<1>1. /\ SantaClaus!Moves(SantaClaus!santa, "start", "awake")
      /\ delivery <= Deliveries
      /\ sem["Sleeping"] >= 1 /\ sem' = [sem EXCEPT !["Sleeping"] = @ - 1]
      /\ UNCHANGED <<Elf_Count, Reindeer_Count, waiting_elves, delivery>>
  BY DEF SantaClaus!Sleep, SantaClaus!Only, SantaClaus!Wait
<1>2. /\ SantaAt = "start" /\ SantaAt' = "awake" /\ ElvesAt' = ElvesAt /\ DeerAt' = DeerAt
      /\ at' \in [SantaClaus!Threads -> ElfPlaces \cup DeerPlaces \cup SantaPlaces]
      /\ \A e \in Elves : at'[e] = at[e]
  BY <1>0, <1>1, SantaMoves DEF SantaPlaces
<1>3. /\ ElvesAt \in [ElfPlaces -> Nat] /\ DeerAt \in [DeerPlaces -> Nat]
      /\ sem \in [SantaClaus!Semaphores -> Nat] /\ Elf_Count \in 0..3
      /\ Reindeer_Count \in 0..SantaClaus!r /\ SantaClaus!r \in Nat \ {0}
  BY <1>0, PlacesCounted, SantaCardinality DEF SantaTypes, SantaClaus!TypeOK, SantaClaus!ELF_MAX
<1>4. DeerInStep'
  BY <1>0, <1>1, <1>2, <1>3 DEF DeerInStep, DeerReturn, DeerBack, DeerHitched, DeerFly, DeerHome,
     NoUnits, NoneAt, SantaIdle, DeerPlaces, SantaClaus!Semaphores
<1>5. SantaTypes'
  BY <1>0, <1>1, <1>2, <1>3 DEF SantaTypes, SantaPlaces, SantaClaus!TypeOK, SantaClaus!Semaphores
<1>6. ElvesInStep'
  BY <1>0, <1>1, <1>2, <1>3, ElvesUndisturbed DEF SantaClaus!Semaphores
<1>7. WakeupsMatch'
  BY <1>0, <1>1, <1>2, <1>3 DEF WakeupsMatch, One, ElvesPending, DeerPending, SantaIdle,
     DeerInStep, DeerReturn, DeerBack, DeerHitched, DeerFly, DeerHome, SantaClaus!Semaphores
<1> QED
  BY <1>4, <1>5, <1>6, <1>7 DEF SantaInv

LEMMA PreparesSleighInv ==
    ASSUME SantaClaus!SantaAssumption, SantaInv, SantaClaus!PreparesSleigh
    PROVE  SantaInv'
<1>0. SantaTypes /\ WakeupsMatch /\ ElvesInStep /\ DeerInStep
  BY DEF SantaInv
<1>1. /\ SantaClaus!Moves(SantaClaus!santa, "awake", "hitching")
      /\ Reindeer_Count = SantaClaus!r
      /\ sem' = [sem EXCEPT !["Sleigh"] = @ + SantaClaus!r]
      /\ UNCHANGED <<Elf_Count, Reindeer_Count, waiting_elves, delivery>>
  BY DEF SantaClaus!PreparesSleigh, SantaClaus!Only, SantaClaus!Signal
<1>2. /\ SantaAt = "awake" /\ SantaAt' = "hitching" /\ ElvesAt' = ElvesAt /\ DeerAt' = DeerAt
      /\ at' \in [SantaClaus!Threads -> ElfPlaces \cup DeerPlaces \cup SantaPlaces]
      /\ \A e \in Elves : at'[e] = at[e]
  BY <1>0, <1>1, SantaMoves DEF SantaPlaces
<1>3. /\ ElvesAt \in [ElfPlaces -> Nat] /\ DeerAt \in [DeerPlaces -> Nat]
      /\ sem \in [SantaClaus!Semaphores -> Nat] /\ Elf_Count \in 0..3
      /\ Reindeer_Count \in 0..SantaClaus!r /\ SantaClaus!r \in Nat \ {0}
  BY <1>0, PlacesCounted, SantaCardinality DEF SantaTypes, SantaClaus!TypeOK, SantaClaus!ELF_MAX
<1>4. DeerInStep'
  BY <1>0, <1>1, <1>2, <1>3 DEF DeerInStep, DeerReturn, DeerBack, DeerHitched, DeerFly, DeerHome,
     NoUnits, NoneAt, SantaIdle, DeerPlaces, SantaClaus!Semaphores
<1>5. SantaTypes'
  BY <1>0, <1>1, <1>2, <1>3 DEF SantaTypes, SantaPlaces, SantaClaus!TypeOK, SantaClaus!Semaphores
<1>6. ElvesInStep'
  BY <1>0, <1>1, <1>2, <1>3, ElvesUndisturbed DEF SantaClaus!Semaphores
<1>7. WakeupsMatch'
  BY <1>0, <1>1, <1>2, <1>3 DEF WakeupsMatch, One, ElvesPending, DeerPending, SantaIdle,
     DeerInStep, DeerReturn, DeerBack, DeerHitched, DeerFly, DeerHome, SantaClaus!Semaphores
<1> QED
  BY <1>4, <1>5, <1>6, <1>7 DEF SantaInv

LEMMA DeliversInv ==
    ASSUME SantaClaus!SantaAssumption, SantaInv, SantaClaus!Delivers
    PROVE  SantaInv'
<1>0. SantaTypes /\ WakeupsMatch /\ ElvesInStep /\ DeerInStep
  BY DEF SantaInv
<1>1. /\ SantaClaus!Moves(SantaClaus!santa, "hitching", "delivering")
      /\ delivery' = delivery + 1
      /\ sem["Hitched"] >= SantaClaus!r /\ sem' = [sem EXCEPT !["Hitched"] = @ - SantaClaus!r]
      /\ UNCHANGED <<Elf_Count, Reindeer_Count, waiting_elves>>
  BY DEF SantaClaus!Delivers, SantaClaus!Wait
<1>2. /\ SantaAt = "hitching" /\ SantaAt' = "delivering" /\ ElvesAt' = ElvesAt /\ DeerAt' = DeerAt
      /\ at' \in [SantaClaus!Threads -> ElfPlaces \cup DeerPlaces \cup SantaPlaces]
      /\ \A e \in Elves : at'[e] = at[e]
  BY <1>0, <1>1, SantaMoves DEF SantaPlaces
<1>3. /\ ElvesAt \in [ElfPlaces -> Nat] /\ DeerAt \in [DeerPlaces -> Nat]
      /\ sem \in [SantaClaus!Semaphores -> Nat] /\ Elf_Count \in 0..3
      /\ Reindeer_Count \in 0..SantaClaus!r /\ SantaClaus!r \in Nat \ {0}
  BY <1>0, PlacesCounted, SantaCardinality DEF SantaTypes, SantaClaus!TypeOK, SantaClaus!ELF_MAX
<1>4. DeerInStep'
  BY <1>0, <1>1, <1>2, <1>3 DEF DeerInStep, DeerReturn, DeerBack, DeerHitched, DeerFly, DeerHome,
     NoUnits, NoneAt, SantaIdle, DeerPlaces, SantaClaus!Semaphores
<1>5. SantaTypes'
  BY <1>0, <1>1, <1>2, <1>3 DEF SantaTypes, SantaPlaces, SantaClaus!TypeOK, SantaClaus!Semaphores,
     SantaClaus!SantaAssumption
<1>6. ElvesInStep'
  BY <1>0, <1>1, <1>2, <1>3, ElvesUndisturbed DEF SantaClaus!Semaphores
<1>7. WakeupsMatch'
  BY <1>0, <1>1, <1>2, <1>3 DEF WakeupsMatch, One, ElvesPending, DeerPending, SantaIdle,
     DeerInStep, DeerReturn, DeerBack, DeerHitched, DeerFly, DeerHome, SantaClaus!Semaphores
<1> QED
  BY <1>4, <1>5, <1>6, <1>7 DEF SantaInv

LEMMA FreesDeerInv ==
    ASSUME SantaClaus!SantaAssumption, SantaInv, SantaClaus!FreesDeer
    PROVE  SantaInv'
<1>0. SantaTypes /\ WakeupsMatch /\ ElvesInStep /\ DeerInStep
  BY DEF SantaInv
<1>1. /\ SantaClaus!Moves(SantaClaus!santa, "delivering", "unhitching")
      /\ sem' = [sem EXCEPT !["Flying"] = @ + SantaClaus!r]
      /\ UNCHANGED <<Elf_Count, Reindeer_Count, waiting_elves, delivery>>
  BY DEF SantaClaus!FreesDeer, SantaClaus!Only, SantaClaus!Signal
<1>2. /\ SantaAt = "delivering" /\ SantaAt' = "unhitching" /\ ElvesAt' = ElvesAt /\ DeerAt' = DeerAt
      /\ at' \in [SantaClaus!Threads -> ElfPlaces \cup DeerPlaces \cup SantaPlaces]
      /\ \A e \in Elves : at'[e] = at[e]
  BY <1>0, <1>1, SantaMoves DEF SantaPlaces
<1>3. /\ ElvesAt \in [ElfPlaces -> Nat] /\ DeerAt \in [DeerPlaces -> Nat]
      /\ sem \in [SantaClaus!Semaphores -> Nat] /\ Elf_Count \in 0..3
      /\ Reindeer_Count \in 0..SantaClaus!r /\ SantaClaus!r \in Nat \ {0}
  BY <1>0, PlacesCounted, SantaCardinality DEF SantaTypes, SantaClaus!TypeOK, SantaClaus!ELF_MAX
<1>4. DeerInStep'
  BY <1>0, <1>1, <1>2, <1>3 DEF DeerInStep, DeerReturn, DeerBack, DeerHitched, DeerFly, DeerHome,
     NoUnits, NoneAt, SantaIdle, DeerPlaces, SantaClaus!Semaphores
<1>5. SantaTypes'
  BY <1>0, <1>1, <1>2, <1>3 DEF SantaTypes, SantaPlaces, SantaClaus!TypeOK, SantaClaus!Semaphores
<1>6. ElvesInStep'
  BY <1>0, <1>1, <1>2, <1>3, ElvesUndisturbed DEF SantaClaus!Semaphores
<1>7. WakeupsMatch'
  BY <1>0, <1>1, <1>2, <1>3 DEF WakeupsMatch, One, ElvesPending, DeerPending, SantaIdle,
     DeerInStep, DeerReturn, DeerBack, DeerHitched, DeerFly, DeerHome, SantaClaus!Semaphores
<1> QED
  BY <1>4, <1>5, <1>6, <1>7 DEF SantaInv

LEMMA AwaitsUnhitchedInv ==
    ASSUME SantaClaus!SantaAssumption, SantaInv, SantaClaus!AwaitsUnhitched
    PROVE  SantaInv'
<1>0. SantaTypes /\ WakeupsMatch /\ ElvesInStep /\ DeerInStep
  BY DEF SantaInv
<1>1. /\ SantaClaus!Moves(SantaClaus!santa, "unhitching", "resetting")
      /\ sem["Unhitch"] >= SantaClaus!r /\ sem' = [sem EXCEPT !["Unhitch"] = @ - SantaClaus!r]
      /\ UNCHANGED <<Elf_Count, Reindeer_Count, waiting_elves, delivery>>
  BY DEF SantaClaus!AwaitsUnhitched, SantaClaus!Only, SantaClaus!Wait
<1>2. /\ SantaAt = "unhitching" /\ SantaAt' = "resetting" /\ ElvesAt' = ElvesAt /\ DeerAt' = DeerAt
      /\ at' \in [SantaClaus!Threads -> ElfPlaces \cup DeerPlaces \cup SantaPlaces]
      /\ \A e \in Elves : at'[e] = at[e]
  BY <1>0, <1>1, SantaMoves DEF SantaPlaces
<1>3. /\ ElvesAt \in [ElfPlaces -> Nat] /\ DeerAt \in [DeerPlaces -> Nat]
      /\ sem \in [SantaClaus!Semaphores -> Nat] /\ Elf_Count \in 0..3
      /\ Reindeer_Count \in 0..SantaClaus!r /\ SantaClaus!r \in Nat \ {0}
  BY <1>0, PlacesCounted, SantaCardinality DEF SantaTypes, SantaClaus!TypeOK, SantaClaus!ELF_MAX
<1>4. DeerInStep'
  BY <1>0, <1>1, <1>2, <1>3 DEF DeerInStep, DeerReturn, DeerBack, DeerHitched, DeerFly, DeerHome,
     NoUnits, NoneAt, SantaIdle, DeerPlaces, SantaClaus!Semaphores
<1>5. SantaTypes'
  BY <1>0, <1>1, <1>2, <1>3 DEF SantaTypes, SantaPlaces, SantaClaus!TypeOK, SantaClaus!Semaphores
<1>6. ElvesInStep'
  BY <1>0, <1>1, <1>2, <1>3, ElvesUndisturbed DEF SantaClaus!Semaphores
<1>7. WakeupsMatch'
  BY <1>0, <1>1, <1>2, <1>3 DEF WakeupsMatch, One, ElvesPending, DeerPending, SantaIdle,
     DeerInStep, DeerReturn, DeerBack, DeerHitched, DeerFly, DeerHome, SantaClaus!Semaphores
<1> QED
  BY <1>4, <1>5, <1>6, <1>7 DEF SantaInv

LEMMA ResetsCountInv ==
    ASSUME SantaClaus!SantaAssumption, SantaInv, SantaClaus!ResetsCount
    PROVE  SantaInv'
<1>0. SantaTypes /\ WakeupsMatch /\ ElvesInStep /\ DeerInStep
  BY DEF SantaInv
<1>1. /\ SantaClaus!Moves(SantaClaus!santa, "resetting", "releasing")
      /\ Reindeer_Count' = 0 /\ UNCHANGED <<sem, Elf_Count, waiting_elves, delivery>>
  BY DEF SantaClaus!ResetsCount, SantaClaus!Moves
<1>2. /\ SantaAt = "resetting" /\ SantaAt' = "releasing" /\ ElvesAt' = ElvesAt /\ DeerAt' = DeerAt
      /\ at' \in [SantaClaus!Threads -> ElfPlaces \cup DeerPlaces \cup SantaPlaces]
      /\ \A e \in Elves : at'[e] = at[e]
  BY <1>0, <1>1, SantaMoves DEF SantaPlaces
<1>3. /\ ElvesAt \in [ElfPlaces -> Nat] /\ DeerAt \in [DeerPlaces -> Nat]
      /\ sem \in [SantaClaus!Semaphores -> Nat] /\ Elf_Count \in 0..3
      /\ Reindeer_Count \in 0..SantaClaus!r /\ SantaClaus!r \in Nat \ {0}
  BY <1>0, PlacesCounted, SantaCardinality DEF SantaTypes, SantaClaus!TypeOK, SantaClaus!ELF_MAX
<1>4. DeerInStep'
  BY <1>0, <1>1, <1>2, <1>3 DEF DeerInStep, DeerReturn, DeerBack, DeerHitched, DeerFly, DeerHome,
     NoUnits, NoneAt, SantaIdle, DeerPlaces, SantaClaus!Semaphores
<1>5. SantaTypes'
  BY <1>0, <1>1, <1>2, <1>3 DEF SantaTypes, SantaPlaces, SantaClaus!TypeOK, SantaClaus!Semaphores
<1>6. ElvesInStep'
  BY <1>0, <1>1, <1>2, <1>3, ElvesUndisturbed DEF SantaClaus!Semaphores
<1>7. WakeupsMatch'
  BY <1>0, <1>1, <1>2, <1>3 DEF WakeupsMatch, One, ElvesPending, DeerPending, SantaIdle,
     DeerInStep, DeerReturn, DeerBack, DeerHitched, DeerFly, DeerHome, SantaClaus!Semaphores
<1> QED
  BY <1>4, <1>5, <1>6, <1>7 DEF SantaInv

LEMMA ReleasesDeerInv ==
    ASSUME SantaClaus!SantaAssumption, SantaInv, SantaClaus!ReleasesDeer
    PROVE  SantaInv'
<1>0. SantaTypes /\ WakeupsMatch /\ ElvesInStep /\ DeerInStep
  BY DEF SantaInv
<1>1. /\ SantaClaus!Moves(SantaClaus!santa, "releasing", "start")
      /\ sem' = [sem EXCEPT !["Reindeer"] = @ + SantaClaus!r]
      /\ UNCHANGED <<Elf_Count, Reindeer_Count, waiting_elves, delivery>>
  BY DEF SantaClaus!ReleasesDeer, SantaClaus!Only, SantaClaus!Signal
<1>2. /\ SantaAt = "releasing" /\ SantaAt' = "start" /\ ElvesAt' = ElvesAt /\ DeerAt' = DeerAt
      /\ at' \in [SantaClaus!Threads -> ElfPlaces \cup DeerPlaces \cup SantaPlaces]
      /\ \A e \in Elves : at'[e] = at[e]
  BY <1>0, <1>1, SantaMoves DEF SantaPlaces
<1>3. /\ ElvesAt \in [ElfPlaces -> Nat] /\ DeerAt \in [DeerPlaces -> Nat]
      /\ sem \in [SantaClaus!Semaphores -> Nat] /\ Elf_Count \in 0..3
      /\ Reindeer_Count \in 0..SantaClaus!r /\ SantaClaus!r \in Nat \ {0}
  BY <1>0, PlacesCounted, SantaCardinality DEF SantaTypes, SantaClaus!TypeOK, SantaClaus!ELF_MAX
<1>4. DeerInStep'
  BY <1>0, <1>1, <1>2, <1>3 DEF DeerInStep, DeerReturn, DeerBack, DeerHitched, DeerFly, DeerHome,
     NoUnits, NoneAt, SantaIdle, DeerPlaces, SantaClaus!Semaphores
<1>5. SantaTypes'
  BY <1>0, <1>1, <1>2, <1>3 DEF SantaTypes, SantaPlaces, SantaClaus!TypeOK, SantaClaus!Semaphores
<1>6. ElvesInStep'
  BY <1>0, <1>1, <1>2, <1>3, ElvesUndisturbed DEF SantaClaus!Semaphores
<1>7. WakeupsMatch'
  BY <1>0, <1>1, <1>2, <1>3 DEF WakeupsMatch, One, ElvesPending, DeerPending, SantaIdle,
     DeerInStep, DeerReturn, DeerBack, DeerHitched, DeerFly, DeerHome, SantaClaus!Semaphores
<1> QED
  BY <1>4, <1>5, <1>6, <1>7 DEF SantaInv

LEMMA ListensInv ==
    ASSUME SantaClaus!SantaAssumption, SantaInv, SantaClaus!Listens
    PROVE  SantaInv'
<1>0. SantaTypes /\ WakeupsMatch /\ ElvesInStep /\ DeerInStep
  BY DEF SantaInv
<1>1. /\ SantaClaus!Moves(SantaClaus!santa, "awake", "naming")
      /\ Reindeer_Count # SantaClaus!r
      /\ sem' = [sem EXCEPT !["Question"] = @ + 3]
      /\ UNCHANGED <<Elf_Count, Reindeer_Count, waiting_elves, delivery>>
  BY DEF SantaClaus!Listens, SantaClaus!Only, SantaClaus!Signal, SantaClaus!ELF_MAX
<1>2. /\ SantaAt = "awake" /\ SantaAt' = "naming" /\ ElvesAt' = ElvesAt /\ DeerAt' = DeerAt
      /\ at' \in [SantaClaus!Threads -> ElfPlaces \cup DeerPlaces \cup SantaPlaces]
      /\ \A e \in Elves : at'[e] = at[e]
  BY <1>0, <1>1, SantaMoves DEF SantaPlaces
<1>3. /\ ElvesAt \in [ElfPlaces -> Nat] /\ DeerAt \in [DeerPlaces -> Nat]
      /\ sem \in [SantaClaus!Semaphores -> Nat] /\ Elf_Count \in 0..3
      /\ Reindeer_Count \in 0..SantaClaus!r /\ SantaClaus!r \in Nat \ {0}
  BY <1>0, PlacesCounted, SantaCardinality DEF SantaTypes, SantaClaus!TypeOK, SantaClaus!ELF_MAX
<1>4. DeerInStep'
  BY <1>0, <1>1, <1>2, <1>3 DEF DeerInStep, DeerReturn, DeerBack, DeerHitched, DeerFly, DeerHome,
     NoUnits, NoneAt, SantaIdle, DeerPlaces, SantaClaus!Semaphores
<1>5. SantaTypes'
  BY <1>0, <1>1, <1>2, <1>3 DEF SantaTypes, SantaPlaces, SantaClaus!TypeOK, SantaClaus!Semaphores
<1>6. ElvesInStep'
  <2>1. AskersWritten' = AskersWritten
    BY <1>1, <1>2 DEF AskersWritten
  <2> QED
    BY <1>0, <1>1, <1>2, <1>3, <2>1 DEF ElvesInStep, ElvesAsk, ElvesLeave, WakeupsMatch, One, ElvesPending,
       DeerPending, SantaIdle, ElfPlaces, SantaClaus!Semaphores
<1>7. WakeupsMatch'
  BY <1>0, <1>1, <1>2, <1>3 DEF WakeupsMatch, One, ElvesPending, DeerPending, SantaIdle,
     DeerInStep, DeerReturn, DeerBack, DeerHitched, DeerFly, DeerHome, SantaClaus!Semaphores
<1> QED
  BY <1>4, <1>5, <1>6, <1>7 DEF SantaInv

LEMMA AnswersInv ==
    ASSUME SantaClaus!SantaAssumption, SantaInv, SantaClaus!Answers
    PROVE  SantaInv'
<1>0. SantaTypes /\ WakeupsMatch /\ ElvesInStep /\ DeerInStep
  BY DEF SantaInv
<1>1. /\ SantaClaus!Moves(SantaClaus!santa, "naming", "start")
      /\ sem' = [sem EXCEPT !["Answered"] = @ + 3]
      /\ UNCHANGED <<Elf_Count, Reindeer_Count, waiting_elves, delivery>>
  BY DEF SantaClaus!Answers, SantaClaus!Only, SantaClaus!Signal, SantaClaus!ELF_MAX
<1>2. /\ SantaAt = "naming" /\ SantaAt' = "start" /\ ElvesAt' = ElvesAt /\ DeerAt' = DeerAt
      /\ at' \in [SantaClaus!Threads -> ElfPlaces \cup DeerPlaces \cup SantaPlaces]
      /\ \A e \in Elves : at'[e] = at[e]
  BY <1>0, <1>1, SantaMoves DEF SantaPlaces
<1>3. /\ ElvesAt \in [ElfPlaces -> Nat] /\ DeerAt \in [DeerPlaces -> Nat]
      /\ sem \in [SantaClaus!Semaphores -> Nat] /\ Elf_Count \in 0..3
      /\ Reindeer_Count \in 0..SantaClaus!r /\ SantaClaus!r \in Nat \ {0}
  BY <1>0, PlacesCounted, SantaCardinality DEF SantaTypes, SantaClaus!TypeOK, SantaClaus!ELF_MAX
<1>4. DeerInStep'
  BY <1>0, <1>1, <1>2, <1>3 DEF DeerInStep, DeerReturn, DeerBack, DeerHitched, DeerFly, DeerHome,
     NoUnits, NoneAt, SantaIdle, DeerPlaces, SantaClaus!Semaphores
<1>5. SantaTypes'
  BY <1>0, <1>1, <1>2, <1>3 DEF SantaTypes, SantaPlaces, SantaClaus!TypeOK, SantaClaus!Semaphores
<1>6. ElvesInStep'
  <2>1. AskersWritten' = AskersWritten
    BY <1>1, <1>2 DEF AskersWritten
  <2> QED
    BY <1>0, <1>1, <1>2, <1>3, <2>1 DEF ElvesInStep, ElvesAsk, ElvesLeave, WakeupsMatch, One, ElvesPending,
       DeerPending, SantaIdle, ElfPlaces, SantaClaus!Semaphores
<1>7. WakeupsMatch'
  BY <1>0, <1>1, <1>2, <1>3 DEF WakeupsMatch, One, ElvesPending, DeerPending, SantaIdle,
     DeerInStep, DeerReturn, DeerBack, DeerHitched, DeerFly, DeerHome, SantaClaus!Semaphores
<1> QED
  BY <1>4, <1>5, <1>6, <1>7 DEF SantaInv

LEMMA InitSanta ==
    ASSUME SantaClaus!SantaAssumption, SantaClaus!Init
    PROVE  SantaInv
<1>1. /\ at = [t \in SantaClaus!Threads |-> "start"]
      /\ sem = [s \in SantaClaus!Semaphores |->
                   IF s = "Reindeer" THEN SantaClaus!r ELSE IF s = "Elf" THEN 3 ELSE 0]
      /\ Elf_Count = 0 /\ Reindeer_Count = 0 /\ delivery = 0
      /\ waiting_elves = [slot \in 0..2 |-> SantaClaus!None]
  BY DEF SantaClaus!Init, SantaClaus!ELF_MAX
<1>2. SantaClaus!r = Cardinality(Deer) /\ SantaClaus!r \in Nat \ {0}
  BY SantaCardinality
<1>3. SantaTypes
  BY <1>1, <1>2 DEF SantaTypes, SantaClaus!TypeOK, SantaClaus!SantaAssumption, SantaClaus!ELF_MAX,
     SantaAt, SantaPlaces, ElfPlaces, SantaClaus!Threads
<1>4. /\ AtPlace(Deer, at, "start") = Deer
      /\ \A p : p # "start" => AtPlace(Deer, at, p) = {} /\ AtPlace(Elves, at, p) = {}
  BY <1>1 DEF AtPlace, SantaClaus!Threads
<1>5. /\ DeerAt["start"] = SantaClaus!r
      /\ \A p \in DeerPlaces \ {"start"} : DeerAt[p] = 0
      /\ \A p \in ElfPlaces \ {"start"} : ElvesAt[p] = 0
      /\ SantaAt = "start"
  BY <1>1, <1>2, <1>4, FS_EmptySet DEF ElvesAt, DeerAt, SantaAt, DeerPlaces, SantaClaus!Threads
<1>6. ElvesInStep
  BY <1>1, <1>5 DEF ElvesInStep, ElvesAsk, AskersWritten, ElfPlaces, SantaClaus!Semaphores
<1>7. DeerInStep
  BY <1>1, <1>2, <1>5 DEF DeerInStep, DeerReturn, SantaIdle, NoneAt, NoUnits, DeerPlaces,
     SantaClaus!Semaphores
<1>8. WakeupsMatch
  BY <1>1, <1>2, <1>5 DEF WakeupsMatch, One, ElvesPending, DeerPending, SantaClaus!Semaphores
<1> QED
  BY <1>3, <1>6, <1>7, <1>8 DEF SantaInv

\* The three slots of waiting_elves hold three different elves.
LEMMA ThreeNamed ==
    ASSUME SantaClaus!SantaAssumption, SantaInv, SantaAt = "naming"
    PROVE  SantaClaus!SantaNamesThree
<1>1. Elf_Count = 3 /\ AskersWritten
  BY DEF SantaInv, ElvesInStep, ElvesAsk, ElvesLeave
<1>2. waiting_elves \in [0..2 -> Elves \cup {SantaClaus!None}]
  BY DEF SantaInv, SantaTypes, SantaClaus!TypeOK, SantaClaus!ELF_MAX
<1> DEFINE named(n) == waiting_elves[n]
<1>3. /\ named(0) \in Elves /\ named(1) \in Elves /\ named(2) \in Elves
      /\ named(0) # named(1) /\ named(0) # named(2) /\ named(1) # named(2)
  BY <1>1 DEF AskersWritten
<1>4. SantaClaus!None \notin Elves
  BY DEF SantaClaus!SantaAssumption
<1>5. {waiting_elves[slot] : slot \in DOMAIN waiting_elves} \ {SantaClaus!None} = {named(0), named(1), named(2)}
  BY <1>2, <1>3, <1>4
<1>6. Cardinality({named(0), named(1), named(2)}) = 3
  <2> HIDE DEF named
  <2>1. Cardinality({named(0)}) = 1 /\ IsFiniteSet({named(0)})
    BY FS_Singleton
  <2>2. Cardinality({named(0)} \cup {named(1)}) = 2 /\ IsFiniteSet({named(0)} \cup {named(1)})
    BY <1>3, <2>1, FS_AddElement
  <2>3. Cardinality(({named(0)} \cup {named(1)}) \cup {named(2)}) = 3
    BY <1>3, <2>2, FS_AddElement
  <2>4. ({named(0)} \cup {named(1)}) \cup {named(2)} = {named(0), named(1), named(2)}
    OBVIOUS
  <2> QED
    BY <2>3, <2>4
<1> QED
  BY <1>1, <1>5, <1>6, SantaCardinality DEF SantaClaus!SantaNamesThree, SantaClaus!ELF_MAX

LEMMA SantaInvSafe ==
    ASSUME SantaClaus!SantaAssumption, SantaInv
    PROVE  SantaClaus!SantaSafe
<1>0. /\ IsFiniteSet(Deer) /\ SantaClaus!r = Cardinality(Deer) /\ SantaClaus!r \in Nat \ {0}
      /\ ElvesAt \in [ElfPlaces -> Nat] /\ DeerAt \in [DeerPlaces -> Nat]
      /\ \A S : SantaClaus!Cardinality(S) = Cardinality(S)
  BY SantaCardinality, PlacesCounted
<1>1. SantaClaus!SantaNamesThree
  BY ThreeNamed DEF SantaClaus!SantaNamesThree, SantaAt
<1>2. SantaClaus!CountIsSantas
  <2>1. SantaAt \in {"hitching", "delivering", "unhitching", "resetting"} => Reindeer_Count = SantaClaus!r
    BY DEF SantaInv, DeerInStep, DeerReturn, DeerBack, DeerHitched, DeerFly, DeerHome, SantaIdle
  <2>2. ASSUME SantaAt = "resetting", NEW d \in Deer PROVE at[d] = "start"
    <3>1. Cardinality(AtPlace(Deer, at, "start")) = Cardinality(Deer)
      BY <1>0, <2>2 DEF SantaInv, DeerInStep, DeerReturn, DeerBack, DeerHitched, DeerFly, DeerHome,
         SantaIdle, DeerAt, DeerPlaces
    <3>2. AtPlace(Deer, at, "start") \subseteq Deer
      BY DEF AtPlace
    <3>3. AtPlace(Deer, at, "start") = Deer
      BY <1>0, <3>1, <3>2, FS_Subset
    <3> QED
      BY <3>3 DEF AtPlace
  <2> QED
    BY <2>1, <2>2 DEF SantaClaus!CountIsSantas, SantaAt
<1>3. SantaClaus!WakeupsKept
  <2> SUFFICES ASSUME SantaAt = "start", sem["Sleeping"] = 0
               PROVE  /\ Reindeer_Count < SantaClaus!r
                      /\ Elf_Count = 3 => ElvesAt["question"] = sem["Question"]
    BY <1>0 DEF SantaClaus!WakeupsKept, SantaClaus!ELF_MAX, SantaAt, ElvesAt, ElfPlaces, AtPlace
  <2>1. ~ ElvesPending /\ ~ DeerPending
    BY DEF SantaInv, WakeupsMatch, One
  <2>2. Reindeer_Count < SantaClaus!r
    BY <1>0, <2>1 DEF SantaInv, SantaTypes, SantaClaus!TypeOK, DeerPending, SantaIdle
  <2>3. Elf_Count = 3 => ElvesAt["question"] = sem["Question"]
    BY <1>0, <2>1 DEF SantaInv, ElvesInStep, ElvesAsk, ElvesLeave, ElvesPending, ElfPlaces
  <2> QED
    BY <2>2, <2>3
<1> QED
  BY <1>1, <1>2, <1>3 DEF SantaClaus!SantaSafe, SantaInv, SantaTypes

LEMMA SantaSteps ==
    ASSUME SantaClaus!SantaAssumption, SantaInv, SantaClaus!Next
    PROVE  SantaInv'
<1>1. PICK t \in SantaClaus!Threads : SantaClaus!Step(t)
  BY DEF SantaClaus!Next
<1>2. CASE t \in Elves
  BY <1>1, <1>2, ElfWaitsInv, AsksInv, WaitsToBeHeardInv, GetsAnswerInv, LeavesInv
     DEF SantaClaus!Step, SantaClaus!ElfThread
<1>3. CASE t \notin Elves /\ t \in Deer
  BY <1>1, <1>3, DeerWaitsInv, ReindeerBackInv, WaitOthersInv, WaitSleighInv, HitchesUpInv, FlyOffInv,
     UnhitchesInv DEF SantaClaus!Step, SantaClaus!DeerThread
<1>4. CASE t \notin Elves /\ t \notin Deer
  BY <1>1, <1>4, SleepInv, PreparesSleighInv, DeliversInv, FreesDeerInv, AwaitsUnhitchedInv,
     ResetsCountInv, ReleasesDeerInv, ListensInv, AnswersInv DEF SantaClaus!Step, SantaClaus!SantaThread
<1> QED
  BY <1>2, <1>3, <1>4

\* That of Santa by every step of his, of an elf and of a reindeer.
LEMMA SantaStep ==
    ASSUME SantaClaus!SantaAssumption
    PROVE  SantaInv /\ [SantaClaus!Next]_(SantaClaus!vars) => SantaInv'
<1>1. ASSUME SantaInv, UNCHANGED SantaClaus!vars PROVE SantaInv'
  <2>1. UNCHANGED <<at, sem, Elf_Count, Reindeer_Count, waiting_elves, delivery>>
    BY <1>1 DEF SantaClaus!vars
  <2>2. ElvesAt' = ElvesAt /\ DeerAt' = DeerAt /\ SantaAt' = SantaAt
    BY <2>1 DEF ElvesAt, DeerAt, SantaAt
  <2>3. ElvesInStep' /\ DeerInStep'
    BY <1>1, <2>1, <2>2, ElvesUndisturbed, DeerUndisturbed DEF SantaInv
  <2>4. SantaTypes' /\ WakeupsMatch'
    BY <1>1, <2>1, <2>2 DEF SantaInv, SantaTypes, SantaClaus!TypeOK, WakeupsMatch, One, ElvesPending,
       DeerPending, SantaIdle
  <2> QED
    BY <2>3, <2>4 DEF SantaInv
<1> QED
  BY <1>1, SantaSteps

-----------------------------------------------------------------------------
(* The ring of processes.                                                  *)

LEMMA RingCardinality == \A S : Links!Cardinality(S) = Cardinality(S)
BY DEF Links!Cardinality, Cardinality

\* The remainder is the only one.
LEMMA OneRemainder ==
    ASSUME NEW n \in Nat \ {0}, NEW q \in Int, NEW r \in 0..(n - 1)
    PROVE  (n * q + r) % n = r
<1> DEFINE v == n * q + r
           p == v \div n
           u == v % n
<1>1. v \in Int
  OBVIOUS
<1>2. p \in Int /\ u \in 0..(n - 1) /\ v = n * p + u
  BY <1>1
<1>3. n * q + r = n * p + u
  BY <1>2
<1> HIDE DEF p, u, v
<1>4. ~ (p >= q + 1)
  <2>1. SUFFICES ASSUME p >= q + 1 PROVE FALSE
    OBVIOUS
  <2>2. n * p >= n * (q + 1)
    BY <1>2, <2>1
  <2>3. n * (q + 1) = n * q + n
    OBVIOUS
  <2> QED
    BY <1>2, <1>3, <2>2, <2>3
<1>5. ~ (q >= p + 1)
  <2>1. SUFFICES ASSUME q >= p + 1 PROVE FALSE
    OBVIOUS
  <2>2. n * q >= n * (p + 1)
    BY <1>2, <2>1
  <2>3. n * (p + 1) = n * p + n
    BY <1>2
  <2> QED
    BY <1>2, <1>3, <2>2, <2>3
<1>6. p = q
  BY <1>2, <1>4, <1>5
<1>7. u = r
  BY <1>2, <1>3, <1>6
<1> QED
  BY <1>7 DEF u, v

\* Counting on by one, modulo n.
LEMMA NextModulo ==
    ASSUME NEW n \in Nat \ {0}, NEW v \in Nat
    PROVE  (v + 1) % n = IF v % n = n - 1 THEN 0 ELSE (v % n) + 1
<1> DEFINE q == v \div n
           r == v % n
<1>1. q \in Int /\ r \in 0..(n - 1) /\ v = n * q + r
  OBVIOUS
<1> HIDE DEF q, r
<1>2. CASE r = n - 1
  <2>1. v + 1 = n * (q + 1) + 0
    BY <1>1, <1>2
  <2>2. (v + 1) % n = 0
    BY <1>1, <2>1, OneRemainder
  <2> QED
    BY <1>2, <2>2 DEF r
<1>3. CASE r # n - 1
  <2>1. v + 1 = n * q + (r + 1) /\ r + 1 \in 0..(n - 1)
    BY <1>1, <1>3
  <2>2. (v + 1) % n = r + 1
    BY <1>1, <2>1, OneRemainder
  <2> QED
    BY <1>3, <2>2 DEF r
<1> QED
  BY <1>2, <1>3

LEMMA Neighbours ==
    ASSUME Links!RingAssumption
    PROVE  /\ Links!Links = 0..(num_procs - 1) /\ 0 \in Links!Links /\ num_procs \in Nat \ {0}
           /\ 1 \in Links!Links
           /\ \A k \in Links!Links :
                 /\ Links!After(k) \in Links!Links /\ Links!Before(k) \in Links!Links
                 /\ Links!Before(Links!After(k)) = k
                 /\ Links!After(k) = IF k = num_procs - 1 THEN 0 ELSE k + 1
                 /\ Links!Before(k) = IF k = 0 THEN num_procs - 1 ELSE k - 1
<1>1. num_procs \in 2..100 /\ Links!Links = 0..(num_procs - 1)
  BY DEF Links!RingAssumption, Links!Links
<1>2. ASSUME NEW k \in Links!Links
      PROVE  Links!After(k) = IF k = num_procs - 1 THEN 0 ELSE k + 1
  BY <1>1 DEF Links!After
<1>3. ASSUME NEW k \in Links!Links
      PROVE  Links!Before(k) = IF k = 0 THEN num_procs - 1 ELSE k - 1
  BY <1>1 DEF Links!Before
<1> QED
  BY <1>1, <1>2, <1>3

RingTypes ==
    /\ link \in [Links!Links -> {"none", "starting", "spinning", "reading", "writing", "dead"}]
    /\ flag \in BOOLEAN /\ count \in [Links!Links -> Nat] /\ pipe \in [Links!Links -> Seq(Nat)]
    /\ parent \in [at : {"forking", "signalling", "killing", "exited"}, child : Links!Links]

\* Before the first signal the links that are forked wait, and nothing is written.
BeforeSignal ==
    /\ ~flag
    /\ \A k \in Links!Links :
          /\ pipe[k] = <<>> /\ link[k] \in {"none", "starting", "spinning", "reading"}
          /\ link[k] = "none" <=> parent.at = "forking" /\ k >= parent.child
          /\ link[k] = "spinning" => k = 0

\* Until the first kill all links are alive and one count goes round: a link
\* that is about to write it has its own number, and the one in a pipe has that
\* of the link before.
Circulates ==
    /\ link[0] # "starting"
    /\ \A k \in Links!Links :
          /\ link[k] \in {"starting", "spinning", "reading", "writing"}
          /\ link[k] = "spinning" => k = 0
          /\ link[k] = "writing" => pipe[k] = <<>> /\ count[k] % num_procs = k
          /\ pipe[k] # <<>> => Len(pipe[k]) = 1 /\ Head(pipe[k]) % num_procs = Links!Before(k)
    /\ \A k \in Links!Links : k \in Links!Tokens => link[0] # "spinning"
    /\ \A j, k \in Links!Links : j \in Links!Tokens /\ k \in Links!Tokens => j = k

RingInv ==
    /\ RingTypes
    /\ parent.at \in {"forking", "signalling"} => BeforeSignal
    /\ parent.at = "killing" /\ parent.child = 0 /\ link[0] # "dead" => Circulates

LEMMA InitRing ==
    ASSUME Links!RingAssumption, Links!Init
    PROVE  RingInv
<1>1. RingTypes
  BY Neighbours, EmptySeq DEF Links!Init, RingTypes
<1>2. BeforeSignal
  BY Neighbours DEF Links!Init, BeforeSignal
<1> QED
  BY <1>1, <1>2 DEF Links!Init, RingInv

\* ring forks the links, one after the other.
LEMMA ForksInv ==
    ASSUME Links!RingAssumption, RingInv, Links!Forks
    PROVE  RingInv'
<1>1. /\ parent.at = "forking" /\ UNCHANGED <<flag, count, pipe>>
      /\ link' = [link EXCEPT ![parent.child] = "starting"]
      /\ parent' = IF parent.child = num_procs - 1 THEN [at |-> "signalling", child |-> 0]
                   ELSE [parent EXCEPT !.child = parent.child + 1]
  BY DEF Links!Forks
<1>2. parent.child \in 0..(num_procs - 1) /\ RingTypes /\ BeforeSignal
  BY <1>1, Neighbours DEF RingInv, RingTypes
<1>3. RingTypes'
  BY <1>1, <1>2, Neighbours DEF RingTypes
<1>4. BeforeSignal'
  <2>1. ASSUME NEW k \in Links!Links
        PROVE  /\ link'[k] = IF k = parent.child THEN "starting" ELSE link[k]
               /\ parent'.at = "forking" /\ k >= parent'.child <=> k > parent.child
    <3>1. link'[k] = IF k = parent.child THEN "starting" ELSE link[k]
      BY <1>1, <1>2 DEF RingTypes
    <3>2. CASE parent.child = num_procs - 1
      BY <1>1, <1>2, <3>1, <3>2, Neighbours
    <3>3. CASE parent.child # num_procs - 1
      <4>1. parent'.at = "forking" /\ parent'.child = parent.child + 1
        BY <1>1, <1>2, <3>3 DEF RingTypes
      <4> QED
        BY <1>2, <3>1, <4>1, Neighbours
    <3> QED
      BY <3>2, <3>3
  <2>2. \A k \in Links!Links : k # parent.child => (k >= parent.child <=> k > parent.child)
    BY <1>2, Neighbours
  <2> QED
    BY <1>1, <1>2, <2>1, <2>2, Neighbours DEF BeforeSignal
<1>5. parent'.at # "killing"
  BY <1>1, <1>2 DEF RingTypes
<1> QED
  BY <1>3, <1>4, <1>5 DEF RingInv

\* The first signal starts the count, or kills the first link.
LEMMA SendsUsr1Inv ==
    ASSUME Links!RingAssumption, RingInv, Links!SendsUsr1
    PROVE  RingInv'
<1>1. /\ parent.at = "signalling" /\ parent' = [parent EXCEPT !.at = "killing"]
      /\ IF link[0] = "starting"
         THEN link' = [link EXCEPT ![0] = "dead"] /\ UNCHANGED flag
         ELSE flag' = TRUE /\ UNCHANGED link
      /\ UNCHANGED <<count, pipe>>
  BY DEF Links!SendsUsr1
<1>2. RingTypes /\ BeforeSignal
  BY <1>1 DEF RingInv
<1>3. RingTypes' /\ parent'.at = "killing"
  BY <1>1, <1>2, Neighbours DEF RingTypes
<1>4. link'[0] # "dead" => Circulates'
  <2>1. SUFFICES ASSUME link'[0] # "dead" PROVE Circulates'
    OBVIOUS
  <2>2. link[0] # "starting" /\ link' = link /\ pipe' = pipe
    BY <1>1, <1>2, <2>1, Neighbours DEF RingTypes
  <2>3. \A k \in Links!Links : /\ pipe[k] = <<>> /\ link[k] \in {"starting", "spinning", "reading"}
                               /\ link[k] = "spinning" => k = 0
    BY <1>1, <1>2 DEF BeforeSignal
  <2>4. \A k \in Links!Links : ~ (k \in Links!Tokens')
    BY <2>2, <2>3 DEF Links!Tokens
  <2> QED
    BY <2>2, <2>3, <2>4 DEF Circulates
<1> QED
  BY <1>3, <1>4 DEF RingInv

\* The others kill the links one after the other.
LEMMA SendsTermInv ==
    ASSUME Links!RingAssumption, RingInv, Links!SendsTerm
    PROVE  RingInv'
<1>1. /\ parent.at = "killing" /\ link' = [link EXCEPT ![parent.child] = "dead"]
      /\ parent' = IF parent.child = num_procs - 1 THEN [at |-> "exited", child |-> 0]
                   ELSE [parent EXCEPT !.child = parent.child + 1]
      /\ UNCHANGED <<flag, count, pipe>>
  BY DEF Links!SendsTerm
<1>2. parent.child \in 0..(num_procs - 1) /\ RingTypes
  BY Neighbours DEF RingInv, RingTypes
<1>3. RingTypes'
  BY <1>1, <1>2, Neighbours DEF RingTypes
<1>4. parent'.at = "exited" \/ (parent'.at = "killing" /\ parent'.child # 0)
  BY <1>1, <1>2 DEF RingTypes
<1> QED
  BY <1>3, <1>4 DEF RingInv

\* A step of a link keeps the types and leaves ring where it is; a link that is
\* dead stays dead.
LEMMA LinkTypes ==
    ASSUME Links!RingAssumption, RingTypes, NEW k \in Links!Links, Links!Link(k)
    PROVE  RingTypes' /\ UNCHANGED <<parent, flag>> /\ (link[0] = "dead" => link'[0] = "dead")
<1>1. CASE Links!Starts(k)
  BY <1>1 DEF Links!Starts, RingTypes
<1>2. ASSUME NEW v \in Nat, Links!Puts(k, v), link[k] # "dead", UNCHANGED <<flag, count, parent>>
      PROVE  RingTypes' /\ UNCHANGED <<parent, flag>> /\ (link[0] = "dead" => link'[0] = "dead")
  <2>1. link' \in [Links!Links -> {"none", "starting", "spinning", "reading", "writing", "dead"}]
        /\ (link[0] = "dead" => link'[0] = "dead")
    <3>1. link \in [Links!Links -> {"none", "starting", "spinning", "reading", "writing", "dead"}]
      BY DEF RingTypes
    <3>2. \/ link' = [link EXCEPT ![k] = "reading"]
          \/ link' = [link EXCEPT ![k] = "dead"]
      BY <1>2 DEF Links!Puts
    <3> QED
      BY <1>2, <3>1, <3>2, Neighbours
  <2>2. Append(pipe[Links!After(k)], v) \in Seq(Nat)
    BY Neighbours, AppendProperties DEF RingTypes
  <2>3. pipe' \in [Links!Links -> Seq(Nat)]
    BY <1>2, <2>2 DEF Links!Puts, RingTypes
  <2> QED
    BY <1>2, <2>1, <2>3 DEF RingTypes
<1>3. CASE Links!WritesZero(k)
  BY <1>2, <1>3 DEF Links!WritesZero
<1>4. CASE Links!Writes(k)
  BY <1>2, <1>4 DEF Links!Writes, RingTypes
<1>5. CASE Links!Reads(k)
  <2>1. Head(pipe[k]) \in Nat /\ Tail(pipe[k]) \in Seq(Nat)
    BY <1>5, HeadTailProperties DEF Links!Reads, RingTypes
  <2>2. count' \in [Links!Links -> Nat] /\ pipe' \in [Links!Links -> Seq(Nat)]
    BY <1>5, <2>1 DEF Links!Reads, RingTypes
  <2> QED
    BY <1>5, <2>2 DEF Links!Reads, RingTypes
<1>6. CASE Links!ReadsEnd(k)
  BY <1>6 DEF Links!ReadsEnd, RingTypes
<1> QED
  BY <1>1, <1>3, <1>4, <1>5, <1>6 DEF Links!Link

\* Before the signal all that a link does is start.
LEMMA LinkBeforeSignal ==
    ASSUME Links!RingAssumption, RingTypes, BeforeSignal, NEW k \in Links!Links, Links!Link(k),
           parent.at \in {"forking", "signalling"}
    PROVE  BeforeSignal'
<1>1. link[k] # "writing" /\ pipe[k] = <<>> /\ ~flag
  BY DEF BeforeSignal
<1>2. parent.at = "signalling" => Links!Writers(k) # {}
  <2>1. SUFFICES ASSUME parent.at = "signalling" PROVE Links!Before(k) \in Links!Writers(k)
    OBVIOUS
  <2>2. Links!Before(k) \in Links!Links
    BY Neighbours
  <2>3. link[Links!Before(k)] \notin {"none", "dead"}
    BY <2>1, <2>2 DEF BeforeSignal
  <2> QED
    BY <2>3 DEF Links!Writers, Links!Alive
<1>3. ~ Links!ReadsEnd(k)
  BY <1>2 DEF Links!ReadsEnd
<1>4. Links!Starts(k)
  BY <1>1, <1>3 DEF Links!Link, Links!WritesZero, Links!Reads, Links!Writes
<1> QED
  BY <1>4, Neighbours DEF Links!Starts, BeforeSignal, RingTypes

\* The one count goes on from a link to the next.
LEMMA PutsCirculate ==
    ASSUME Links!RingAssumption, RingTypes, Circulates, NEW k \in Links!Links,
           NEW v \in Nat, v % num_procs = k, Links!Puts(k, v), UNCHANGED count,
           link[k] \in {"spinning", "writing"}, pipe[k] = <<>>
    PROVE  Circulates'
<1> DEFINE n == Links!After(k)
<1>1. n \in Links!Links /\ Links!Before(n) = k /\ n # k
  BY Neighbours DEF Links!RingAssumption
<1>2. Links!PipeReaders(n) # {}
  <2>1. link[n] \notin {"none", "dead"}
    BY <1>1 DEF Circulates
  <2> QED
    BY <1>1, <2>1 DEF Links!PipeReaders, Links!Alive
<1>3. /\ pipe' = [pipe EXCEPT ![n] = Append(pipe[n], v)]
      /\ link' = [link EXCEPT ![k] = "reading"]
  BY <1>2 DEF Links!Puts
<1>4. \A j \in Links!Links : j # k => link[j] # "writing" /\ pipe[j] = <<>>
  BY Neighbours DEF Circulates, Links!Tokens
<1>5. pipe[n] = <<>>
  BY <1>1, <1>4
<1>6. pipe'[n] = <<v>> /\ \A j \in Links!Links \ {n} : pipe'[j] = <<>>
  BY <1>1, <1>3, <1>4, <1>5 DEF RingTypes
<1>7. link'[k] = "reading" /\ \A j \in Links!Links \ {k} : link'[j] = link[j] /\ link[j] # "writing"
  BY <1>3, <1>4 DEF RingTypes
<1>8. \A j \in Links!Links : j \in Links!Tokens' <=> j = n
  BY <1>1, <1>6, <1>7 DEF Links!Tokens
<1>9. link'[0] = "reading" \/ (link'[0] = link[0] /\ link[0] # "spinning")
  BY <1>1, <1>4, <1>7, Neighbours DEF Circulates, Links!Tokens
<1>10. Len(<<v>>) = 1 /\ Head(<<v>>) = v
  OBVIOUS
<1> HIDE DEF n
<1>11. \A j \in Links!Links : pipe'[j] # <<>> =>
          Len(pipe'[j]) = 1 /\ Head(pipe'[j]) % num_procs = Links!Before(j)
  BY <1>1, <1>6, <1>10
<1>12. \A j \in Links!Links :
          /\ link'[j] \in {"starting", "spinning", "reading", "writing"}
          /\ link'[j] = "spinning" => j = 0
          /\ link'[j] # "writing"
  BY <1>7 DEF Circulates
<1> QED
  BY <1>8, <1>9, <1>11, <1>12 DEF Circulates

LEMMA ReadsCirculate ==
    ASSUME Links!RingAssumption, RingTypes, Circulates, NEW k \in Links!Links, Links!Reads(k)
    PROVE  Circulates'
<1>1. /\ link[k] = "reading" /\ pipe[k] # <<>> /\ link' = [link EXCEPT ![k] = "writing"]
      /\ count' = [count EXCEPT ![k] = Head(pipe[k]) + 1] /\ pipe' = [pipe EXCEPT ![k] = Tail(pipe[k])]
  BY DEF Links!Reads
<1>2. Head(pipe[k]) \in Nat /\ Head(pipe[k]) % num_procs = Links!Before(k) /\ Len(pipe[k]) = 1
  BY <1>1, HeadTailProperties DEF RingTypes, Circulates
<1>3. (Head(pipe[k]) + 1) % num_procs = k
  <2>1. (Head(pipe[k]) + 1) % num_procs =
           IF Links!Before(k) = num_procs - 1 THEN 0 ELSE Links!Before(k) + 1
    BY ZenonT(40), <1>2, Neighbours, NextModulo
  <2> QED
    BY <2>1, Neighbours
<1>4. Tail(pipe[k]) = <<>>
  <2>1. pipe[k] \in Seq(Nat)
    BY DEF RingTypes
  <2>2. Tail(pipe[k]) \in Seq(Nat) /\ Len(Tail(pipe[k])) = 0
    BY <1>1, <1>2, <2>1, HeadTailProperties
  <2> QED
    BY <2>2, EmptySeq
<1>5. \A j \in Links!Links : j # k => link[j] # "writing" /\ pipe[j] = <<>>
  BY <1>1 DEF Circulates, Links!Tokens
<1>6. link[0] # "spinning"
  BY <1>1 DEF Circulates, Links!Tokens
<1>7. /\ link'[k] = "writing" /\ pipe'[k] = <<>> /\ count'[k] % num_procs = k
      /\ \A j \in Links!Links \ {k} :
            pipe'[j] = <<>> /\ link'[j] = link[j] /\ link[j] # "writing"
  BY <1>1, <1>3, <1>4, <1>5 DEF RingTypes
<1>8. \A j \in Links!Links : j \in Links!Tokens' <=> j = k
  BY <1>7 DEF Links!Tokens
<1>9. link'[0] \notin {"spinning", "starting"}
  BY <1>6, <1>7, Neighbours DEF Circulates
<1>10. \A j \in Links!Links :
          /\ link'[j] \in {"starting", "spinning", "reading", "writing"}
          /\ link'[j] = "spinning" => j = 0
  BY <1>7 DEF Circulates
<1> QED
  BY <1>7, <1>8, <1>9, <1>10 DEF Circulates

LEMMA LinkCirculates ==
    ASSUME Links!RingAssumption, RingTypes, Circulates, NEW k \in Links!Links, Links!Link(k)
    PROVE  Circulates'
<1>1. CASE Links!Starts(k)
  <2>1. /\ link[k] = "starting" /\ k # 0 /\ link' = [link EXCEPT ![k] = "reading"]
        /\ UNCHANGED <<count, pipe>>
    BY <1>1 DEF Links!Starts, Circulates
  <2>2. link'[k] = "reading" /\ \A j \in Links!Links \ {k} : link'[j] = link[j]
    BY <2>1 DEF RingTypes
  <2>3. \A j \in Links!Links : j \in Links!Tokens' <=> j \in Links!Tokens
    BY <2>1, <2>2 DEF Links!Tokens
  <2> QED
    BY <2>1, <2>2, <2>3, Neighbours DEF Circulates
<1>2. CASE Links!WritesZero(k)
  <2>1. link[k] = "spinning" /\ k = 0 /\ Links!Puts(k, 0) /\ UNCHANGED count
    BY <1>2 DEF Links!WritesZero, Circulates
  <2>2. pipe[k] = <<>>
    BY <2>1 DEF Circulates, Links!Tokens
  <2>3. 0 % num_procs = 0
    BY DEF Links!RingAssumption
  <2> QED
    BY <2>1, <2>2, <2>3, PutsCirculate
<1>3. CASE Links!Reads(k)
  BY <1>3, ReadsCirculate
<1>4. CASE Links!ReadsEnd(k)
  <2>1. Links!Before(k) \in Links!Links
    BY Neighbours
  <2>2. link[Links!Before(k)] \notin {"none", "dead"}
    BY <2>1 DEF Circulates
  <2>3. Links!Before(k) \in Links!Writers(k)
    BY <2>2 DEF Links!Writers, Links!Alive
  <2> QED
    BY <1>4, <2>3 DEF Links!ReadsEnd
<1>5. CASE Links!Writes(k)
  <2>1. link[k] = "writing" /\ Links!Puts(k, count[k]) /\ UNCHANGED count
    BY <1>5 DEF Links!Writes
  <2>2. pipe[k] = <<>> /\ count[k] % num_procs = k /\ count[k] \in Nat
    BY <2>1 DEF Circulates, RingTypes
  <2> QED
    BY <2>1, <2>2, PutsCirculate
<1> QED
  BY <1>1, <1>2, <1>3, <1>4, <1>5 DEF Links!Link

\* The invariant of the ring is kept by every step of ring and of a link.
LEMMA RingStepInv ==
    ASSUME Links!RingAssumption
    PROVE  RingInv /\ [Links!Next]_(Links!vars) => RingInv'
<1>1. ASSUME RingInv, UNCHANGED Links!vars PROVE RingInv'
  BY <1>1 DEF Links!vars, RingInv, RingTypes, BeforeSignal, Circulates, Links!Tokens
<1>2. ASSUME RingInv, NEW k \in Links!Links, Links!Link(k) PROVE RingInv'
  <2>1. RingTypes /\ RingTypes' /\ UNCHANGED parent /\ (link[0] = "dead" => link'[0] = "dead")
    BY <1>2, LinkTypes DEF RingInv
  <2>2. parent.at \in {"forking", "signalling"} => BeforeSignal'
    BY <1>2, <2>1, LinkBeforeSignal DEF RingInv
  <2>3. parent.at = "killing" /\ parent.child = 0 /\ link[0] # "dead" => Circulates'
    BY <1>2, <2>1, LinkCirculates DEF RingInv
  <2> QED
    BY <2>1, <2>2, <2>3 DEF RingInv
<1> QED
  BY <1>1, <1>2, ForksInv, SendsUsr1Inv, SendsTermInv DEF Links!Next

\* A set whose elements are all the same has at most one.
LEMMA AtMostOne ==
    ASSUME NEW S, \A x, y \in S : x = y
    PROVE  Cardinality(S) <= 1
<1>1. CASE S = {}
  BY <1>1, FS_EmptySet
<1>2. CASE S # {}
  <2>1. PICK x \in S : TRUE
    BY <1>2
  <2>2. S = {x}
    BY <2>1
  <2> QED
    BY <2>2, FS_Singleton
<1> QED
  BY <1>1, <1>2

LEMMA RingHasOneToken == RingInv => Links!OneToken
<1>1. SUFFICES ASSUME RingInv, parent.at = "killing", parent.child = 0, Links!Alive(0)
               PROVE  /\ Links!Cardinality(Links!Tokens) <= 1
                      /\ \A k \in Links!Links :
                           /\ link[k] = "writing" => pipe[k] = <<>> /\ count[k] % num_procs = k
                           /\ Len(pipe[k]) <= 1
  BY Zenon DEF Links!OneToken
<1>2. Circulates /\ RingTypes
  BY <1>1 DEF RingInv, Links!Alive
<1>3. Cardinality(Links!Tokens) <= 1
  <2>1. \A j, k \in Links!Tokens : j = k
    BY <1>2 DEF Circulates, Links!Tokens
  <2> QED
    BY <2>1, AtMostOne
<1>4. ASSUME NEW k \in Links!Links
      PROVE  /\ link[k] = "writing" => pipe[k] = <<>> /\ count[k] % num_procs = k
             /\ Len(pipe[k]) <= 1
  <2>1. Len(<<>>) = 0
    OBVIOUS
  <2>2. pipe[k] # <<>> => Len(pipe[k]) = 1
    BY <1>2 DEF Circulates
  <2>3. Len(pipe[k]) <= 1
    <3>1. CASE pipe[k] = <<>>
      BY <2>1, <3>1
    <3>2. CASE pipe[k] # <<>>
      <4>1. Len(pipe[k]) = 1
        BY <2>2, <3>2, Zenon
      <4> QED
        BY <4>1
    <3> QED
      BY <3>1, <3>2
  <2> QED
    BY <1>2, <2>3 DEF Circulates
<1> QED
  BY <1>3, <1>4, RingCardinality

-----------------------------------------------------------------------------
(* Demand paging.                                                          *)

\* What list::remove leaves: the elements that are not in S, each as often as
\* before.
LEMMA WithoutProperties ==
    ASSUME NEW F, NEW queue \in Seq(F), NEW S, Paging!IsInjective(queue)
    PROVE  LET rest == Paging!Without(queue, S)
           IN  /\ rest \in Seq(F) /\ Paging!IsInjective(rest)
               /\ Paging!ToSet(rest) = Paging!ToSet(queue) \ S
<1> DEFINE kept == Paging!KeptPlaces(queue, S)
           Below(k) == Paging!KeptUpTo(queue, S, k)
           Nth(n) == Paging!NthKept(queue, S, n)
           c == Cardinality(kept)
           rank == [k \in kept |-> Cardinality(Below(k))]
<1>1. Len(queue) \in Nat /\ queue \in [1..Len(queue) -> F] /\ DOMAIN queue = 1..Len(queue)
  BY LenProperties
<1>a. /\ kept = {k \in 1..Len(queue) : queue[k] \notin S}
      /\ \A k : Below(k) = {j \in kept : j <= k}
      /\ \A T : Paging!Cardinality(T) = Cardinality(T)
  BY DEF Paging!KeptPlaces, Paging!KeptUpTo, Paging!Cardinality, Cardinality
<1>b. \A n : Nth(n) = CHOOSE k \in kept : Cardinality(Below(k)) = n
  BY <1>a DEF Paging!NthKept
<1>c. Paging!Without(queue, S) = [n \in 1..c |-> queue[Nth(n)]]
  BY <1>a DEF Paging!Without
<1> HIDE DEF kept, Below, Nth, c
<1>2. IsFiniteSet(kept) /\ c \in Nat
  <2>1. IsFiniteSet(1..Len(queue))
    BY <1>1, FS_Interval
  <2>2. kept \subseteq 1..Len(queue)
    BY <1>a
  <2>3. IsFiniteSet(kept)
    BY <2>1, <2>2, FS_Subset
  <2> QED
    BY <2>3, FS_CardinalityType DEF c
<1>3. \A k \in kept : k \in 1..Len(queue) /\ k \in Below(k) /\ Below(k) \subseteq kept
  BY <1>1, <1>a
<1>4. \A k \in kept : Cardinality(Below(k)) \in 1..c
  <2>1. SUFFICES ASSUME NEW k \in kept PROVE Cardinality(Below(k)) \in 1..c
    OBVIOUS
  <2>2. IsFiniteSet(Below(k)) /\ Cardinality(Below(k)) <= c
    BY <1>2, <1>3, FS_Subset DEF c
  <2>3. Cardinality(Below(k)) \in Nat /\ Cardinality(Below(k)) # 0
    BY <1>3, <2>2, FS_CardinalityType, FS_EmptySet
  <2> QED
    BY <1>2, <2>2, <2>3
<1>5. ASSUME NEW j \in kept, NEW k \in kept, j < k
      PROVE  Cardinality(Below(j)) # Cardinality(Below(k))
  <2>1. Below(j) \subseteq Below(k) /\ k \notin Below(j) /\ k \in Below(k)
    BY <1>1, <1>3, <1>5, <1>a
  <2>2. IsFiniteSet(Below(k))
    BY <1>2, <1>3, FS_Subset
  <2> QED
    BY <2>1, <2>2, FS_Subset
<1>6. rank \in Injection(kept, 1..c)
  <2>1. rank \in [kept -> 1..c]
    BY <1>4
  <2>2. ASSUME NEW j \in kept, NEW k \in kept, rank[j] = rank[k] PROVE j = k
    <3>1. j \in Int /\ k \in Int
      BY <1>1, <1>3
    <3> QED
      BY <1>5, <2>2, <3>1
  <2> QED
    BY <2>1, <2>2 DEF Injection, IsInjective
<1>7. rank \in Surjection(kept, 1..c)
  <2>1. IsFiniteSet(1..c) /\ Cardinality(1..c) = c
    BY <1>2, FS_Interval
  <2> QED
    BY <1>2, <1>6, <2>1, FS_Injection DEF c
<1>8. \A n \in 1..c : Nth(n) \in kept /\ Cardinality(Below(Nth(n))) = n
  <2>1. SUFFICES ASSUME NEW n \in 1..c PROVE \E k \in kept : Cardinality(Below(k)) = n
    BY <1>b
  <2> QED
    BY <1>7 DEF Surjection
<1>9. \A k \in kept : Nth(Cardinality(Below(k))) = k
  <2>1. SUFFICES ASSUME NEW k \in kept PROVE Nth(Cardinality(Below(k))) = k
    OBVIOUS
  <2>2. Nth(Cardinality(Below(k))) \in kept
        /\ Cardinality(Below(Nth(Cardinality(Below(k))))) = Cardinality(Below(k))
    BY <1>4, <1>8
  <2>3. Nth(Cardinality(Below(k))) \in Int /\ k \in Int
    BY <1>1, <1>3, <2>2
  <2> QED
    BY <1>5, <2>2, <2>3
<1> DEFINE rest == [n \in 1..c |-> queue[Nth(n)]]
<1>10. rest = Paging!Without(queue, S)
  BY <1>c
<1>11. rest \in Seq(F) /\ DOMAIN rest = 1..c
  BY <1>1, <1>2, <1>3, <1>8
<1>12. Paging!IsInjective(rest)
  <2>1. SUFFICES ASSUME NEW a \in 1..c, NEW b \in 1..c, queue[Nth(a)] = queue[Nth(b)] PROVE a = b
    BY <1>11 DEF Paging!IsInjective
  <2>2. Nth(a) = Nth(b)
    BY <1>1, <1>3, <1>8, <2>1 DEF Paging!IsInjective
  <2> QED
    BY <1>8, <2>2
<1>13. Paging!ToSet(rest) = Paging!ToSet(queue) \ S
  <2>1. \A e : e \in Paging!ToSet(queue) \ S <=> \E k \in kept : e = queue[k]
    BY <1>1, <1>a DEF Paging!ToSet
  <2>2. \A e : e \in Paging!ToSet(rest) <=> \E n \in 1..c : e = queue[Nth(n)]
    BY <1>11 DEF Paging!ToSet
  <2>3. \A k \in kept : \E n \in 1..c : Nth(n) = k
    BY <1>4, <1>9
  <2>4. \A n \in 1..c : Nth(n) \in kept
    BY <1>8
  <2> HIDE DEF rest
  <2>5. \A e : (\E k \in kept : e = queue[k]) <=> (\E n \in 1..c : e = queue[Nth(n)])
    BY <2>3, <2>4
  <2> QED
    BY <2>1, <2>2, <2>5
<1> QED
  BY <1>10, <1>11, <1>12, <1>13

\* An address is in a page of the space, at an offset of the page, and the two
\* tell it.
LEMMA AddressParts ==
    ASSUME Paging!MemoryAssumption, NEW a \in Paging!Addresses
    PROVE  /\ a \in Int /\ Paging!PageOf(a) \in Paging!Pages /\ a % PageSize \in Paging!Offsets
           /\ a = Paging!PageOf(a) * PageSize + (a % PageSize)
<1>1. PageSize \in Nat \ {0} /\ numPages \in Nat
  BY DEF Paging!MemoryAssumption
<1>2. a \in 0..(numPages * PageSize - 1)
  BY DEF Paging!Addresses
<1> DEFINE q == a \div PageSize
           r == a % PageSize
<1>3. a \in Nat /\ a < numPages * PageSize
  BY <1>1, <1>2
<1>4. q \in Int /\ r \in 0..(PageSize - 1) /\ a = PageSize * q + r
  BY <1>1, <1>3
<1> HIDE DEF q, r
<1>5. ~ (q >= numPages)
  <2>1. SUFFICES ASSUME q >= numPages PROVE FALSE
    OBVIOUS
  <2>2. PageSize * q >= PageSize * numPages
    BY <1>1, <1>4, <2>1
  <2> QED
    BY <1>1, <1>3, <1>4, <2>2
<1>6. ~ (q <= -1)
  <2>1. SUFFICES ASSUME q <= -1 PROVE FALSE
    OBVIOUS
  <2>2. PageSize * q <= PageSize * (-1)
    BY <1>1, <1>4, <2>1
  <2> QED
    BY <1>1, <1>3, <1>4, <2>2
<1>7. q \in 0..(numPages - 1)
  BY <1>1, <1>4, <1>5, <1>6
<1>8. PageSize * q = q * PageSize
  BY <1>1, <1>4
<1>9. q = Paging!PageOf(a) /\ r = a % PageSize
  BY DEF q, r, Paging!PageOf
<1>10. q \in Paging!Pages /\ r \in Paging!Offsets
  BY <1>4, <1>7 DEF Paging!Pages, Paging!Offsets
<1>11. a \in Int /\ a = q * PageSize + r
  BY <1>3, <1>4, <1>8
<1> QED
  BY <1>9, <1>10, <1>11

\* Two addresses at the same offset of the same page are the same.
LEMMA OneAddress ==
    ASSUME Paging!MemoryAssumption, NEW a \in Paging!Addresses, NEW b \in Paging!Addresses,
           Paging!PageOf(a) = Paging!PageOf(b), a % PageSize = b % PageSize
    PROVE  a = b
<1>1. /\ a = Paging!PageOf(a) * PageSize + (a % PageSize)
      /\ b = Paging!PageOf(b) * PageSize + (b % PageSize)
  BY AddressParts
<1> DEFINE P == Paging!PageOf(a) * PageSize + (a % PageSize)
<1>2. a = P /\ b = P
  BY <1>1
<1> QED
  BY <1>2

\* One segment: exactly its bytes are copied to the page.
LEMMA CopiedIsSegment ==
    ASSUME Paging!MemoryAssumption, NEW a \in Paging!Addresses, NEW byte, NEW page,
           NEW seg \in [virtualAddr : Nat, size : Nat]
    PROVE  Paging!Copied(seg, Paging!PageOf(a), byte, page)[a % PageSize]
              = IF Paging!InSegment(seg, a) THEN byte ELSE page[a % PageSize]
<1> DEFINE p == Paging!PageOf(a)
           o == a % PageSize
           P == p * PageSize
<1>1. a \in Int /\ p \in Int /\ o \in Paging!Offsets /\ a = P + o
  <2>1. a \in Int /\ p \in Paging!Pages /\ o \in Paging!Offsets /\ a = P + o
    BY AddressParts
  <2>2. Paging!Pages \subseteq Int
    BY DEF Paging!Pages, Paging!MemoryAssumption
  <2> HIDE DEF p, o, P
  <2> QED
    BY <2>1, <2>2
<1>2. PageSize \in Nat \ {0} /\ P \in Int /\ (p + 1) * PageSize = P + PageSize
  BY <1>1 DEF Paging!MemoryAssumption
<1>3. o \in 0..(PageSize - 1)
  BY <1>1 DEF Paging!Offsets
<1>4. Paging!Copied(seg, p, byte, page)[o] =
         IF Paging!Meets(seg, p) /\ o \in Paging!pageSP(seg, p) ..
              Paging!pageSP(seg, p) + Paging!copySize(seg, p) - 1 THEN byte ELSE page[o]
  BY <1>1 DEF Paging!Copied
<1> HIDE DEF p, o
<1>5. Paging!Meets(seg, p) <=>
         seg.virtualAddr < P + PageSize /\ seg.virtualAddr + seg.size > P
  BY <1>2 DEF Paging!Meets
<1>6. Paging!pageSP(seg, p) = IF seg.virtualAddr <= P THEN 0 ELSE seg.virtualAddr - P
  BY DEF Paging!pageSP
<1>7. Paging!copySize(seg, p) = PageSize - Paging!pageSP(seg, p)
        - IF seg.virtualAddr + seg.size < P + PageSize
          THEN P + PageSize - (seg.virtualAddr + seg.size) ELSE 0
  BY <1>2 DEF Paging!copySize
<1> HIDE DEF P
<1>8. (Paging!Meets(seg, p) /\ o \in Paging!pageSP(seg, p) ..
          Paging!pageSP(seg, p) + Paging!copySize(seg, p) - 1) <=> Paging!InSegment(seg, a)
  BY <1>1, <1>2, <1>3, <1>5, <1>6, <1>7 DEF Paging!InSegment
<1> QED
  BY <1>4, <1>8 DEF p, o

\* A page that is loaded holds what the executable has at its addresses.
LEMMA LoadedIsImage ==
    ASSUME Paging!MemoryAssumption, NEW a \in Paging!Addresses
    PROVE  LET p == Paging!PageOf(a)
           IN  Paging!Copied(Paging!initData, p, "data",
                   Paging!Copied(Paging!code, p, "code", Paging!Blank))[a % PageSize]
               = Paging!Image(a)
<1>1. /\ Paging!initData \in [virtualAddr : Nat, size : Nat]
      /\ Paging!code \in [virtualAddr : Nat, size : Nat]
  BY DEF Paging!initData, Paging!code, Paging!MemoryAssumption
<1>2. Paging!Blank[a % PageSize] = "zero"
  BY AddressParts DEF Paging!Blank
<1> QED
  BY <1>1, <1>2, CopiedIsSegment DEF Paging!Image

\* The frame that is taken is the last of the queue, and once in it.
LEMMA UsedLast ==
    ASSUME NEW m, NEW F, m.lru \in Seq(F), NEW f \in F, Paging!IsInjective(m.lru)
    PROVE  LET queue == Append(Paging!Without(m.lru, {f}), f)
           IN  /\ queue \in Seq(F) /\ Paging!IsInjective(queue)
               /\ Paging!ToSet(queue) = Paging!ToSet(m.lru) \cup {f}
<1> DEFINE rest == Paging!Without(m.lru, {f})
           queue == Append(rest, f)
<1>1. rest \in Seq(F) /\ Paging!IsInjective(rest) /\ Paging!ToSet(rest) = Paging!ToSet(m.lru) \ {f}
  BY WithoutProperties
<1> HIDE DEF rest
<1>2. /\ queue \in Seq(F) /\ Len(rest) \in Nat /\ DOMAIN rest = 1..Len(rest)
      /\ DOMAIN queue = 1..(Len(rest) + 1) /\ queue[Len(rest) + 1] = f
      /\ \A k \in 1..Len(rest) : queue[k] = rest[k]
  BY <1>1
<1>3. \A k \in 1..Len(rest) : rest[k] # f
  BY <1>1, <1>2 DEF Paging!ToSet
<1> HIDE DEF queue
<1>4. Paging!IsInjective(queue)
  BY <1>1, <1>2, <1>3 DEF Paging!IsInjective
<1>5. Paging!ToSet(queue) = Paging!ToSet(rest) \cup {f}
  <2>1. \A k \in DOMAIN queue : k \in 1..Len(rest) \/ k = Len(rest) + 1
    BY <1>2
  <2>2. \A k \in 1..Len(rest) : k \in DOMAIN queue /\ queue[k] = rest[k]
    BY <1>2
  <2>3. Len(rest) + 1 \in DOMAIN queue
    BY <1>2
  <2> QED
    BY <1>2, <2>1, <2>2, <2>3 DEF Paging!ToSet
<1> QED
  BY <1>1, <1>2, <1>4, <1>5 DEF queue, rest

\* What the machine, the page tables and the swap files hold.
Bytes == {"zero", "data", "code", "user", "kernel"}
PagesOfBytes == [Paging!Offsets -> Bytes]
Entries == [valid : BOOLEAN, physicalPage : Int, dirty : BOOLEAN]
Memories ==
    [table : [Spaces -> [Paging!Pages -> Entries]],
     swapMap : [Spaces -> SUBSET Paging!Pages],
     swapFile : [Spaces -> [Paging!Pages -> PagesOfBytes]],
     mainMemory : [Paging!Frames -> PagesOfBytes],
     usedFrames : SUBSET Paging!Frames,
     owner : [Paging!Frames -> Spaces \cup {"none"}],
     lru : Seq(Paging!Frames)]

LEMMA MappedPage ==
    ASSUME NEW m \in Memories, Paging!Agree(m)
    PROVE  /\ \A s \in Spaces : \A p \in Paging!Pages :
                m.table[s][p].valid <=> <<s, p>> \in Paging!Mapped(m)
           /\ \A s \in Spaces : \A p \in Paging!Pages :
                m.table[s][p].valid => m.table[s][p].physicalPage \in Paging!Frames
           /\ \A x \in Paging!Mapped(m) :
                /\ x[1] \in Spaces /\ x[2] \in Paging!Pages /\ x = <<x[1], x[2]>>
                /\ m.table[x[1]][x[2]].valid
                /\ Paging!FrameOf(m, x) = m.table[x[1]][x[2]].physicalPage
<1>1. \A s \in Spaces : \A p \in Paging!Pages : m.table[s][p].valid <=> <<s, p>> \in Paging!Mapped(m)
  BY DEF Paging!Mapped
<1>2. \A x \in Paging!Mapped(m) :
        /\ x[1] \in Spaces /\ x[2] \in Paging!Pages /\ x = <<x[1], x[2]>>
        /\ m.table[x[1]][x[2]].valid
        /\ Paging!FrameOf(m, x) = m.table[x[1]][x[2]].physicalPage
  BY DEF Paging!Mapped, Paging!FrameOf
<1>3. \A x \in Paging!Mapped(m) : Paging!FrameOf(m, x) \in Paging!Frames
  BY DEF Paging!Agree, Memories
<1>4. \A s \in Spaces : \A p \in Paging!Pages :
        m.table[s][p].valid => m.table[s][p].physicalPage \in Paging!Frames
  BY <1>1, <1>3 DEF Paging!FrameOf
<1> QED
  BY <1>1, <1>2, <1>4

\* The page that a frame in use holds is the one its owner is found to have.
LEMMA PageFound ==
    ASSUME NEW m \in Memories, Paging!Agree(m), NEW f \in m.usedFrames
    PROVE  LET s == m.owner[f]
               q == Paging!PageIn(m, s, f)
           IN  /\ s \in Spaces /\ q \in Paging!Pages /\ m.table[s][q].valid
               /\ m.table[s][q].physicalPage = f
               /\ \A x \in Paging!Mapped(m) : Paging!FrameOf(m, x) = f => x = <<s, q>>
<1>1. PICK x \in Paging!Mapped(m) : Paging!FrameOf(m, x) = f
  BY DEF Paging!Agree
<1>2. x[1] = m.owner[f] /\ x[1] \in Spaces /\ x[2] \in Paging!Pages /\ x = <<x[1], x[2]>>
      /\ m.table[x[1]][x[2]].valid /\ m.table[x[1]][x[2]].physicalPage = f
  BY <1>1, MappedPage DEF Paging!Agree
<1> DEFINE s == m.owner[f]
           q == Paging!PageIn(m, s, f)
<1>3. q \in Paging!Pages /\ m.table[s][q].valid /\ m.table[s][q].physicalPage = f
  <2>1. \E p \in Paging!Pages : m.table[s][p].valid /\ m.table[s][p].physicalPage = f
    BY <1>2
  <2> QED
    BY <2>1 DEF Paging!PageIn
<1>4. <<s, q>> \in Paging!Mapped(m) /\ Paging!FrameOf(m, <<s, q>>) = f
  BY <1>2, <1>3, MappedPage DEF Paging!FrameOf
<1>5. \A y \in Paging!Mapped(m) : Paging!FrameOf(m, y) = f => y = <<s, q>>
  BY <1>4 DEF Paging!Agree
<1> QED
  BY <1>2, <1>3, <1>5

\* What taking a frame f for a new page does to the rest of the memory: the
\* page that was in it, if any, is mapped no more, and the frame is the last
\* of the queue.
FrameTaken(m, n, f) ==
    /\ n \in Memories /\ f \in Paging!Frames
    /\ n.usedFrames = m.usedFrames /\ n.owner = m.owner /\ n.mainMemory = m.mainMemory
    /\ \A s \in Spaces : \A p \in Paging!Pages :
          n.table[s][p] = IF m.table[s][p].valid /\ m.table[s][p].physicalPage = f
                            THEN Paging!NoEntry ELSE m.table[s][p]
    /\ \A s \in Spaces : \A p \in Paging!Pages : ~ m.table[s][p].valid =>
          (p \in n.swapMap[s] <=> p \in m.swapMap[s]) /\ n.swapFile[s][p] = m.swapFile[s][p]
    /\ Paging!IsInjective(n.lru) /\ Paging!ToSet(n.lru) = m.usedFrames \cup {f}

\* A free frame is taken, when there is one.
LEMMA FreeFrame ==
    ASSUME Paging!MemoryAssumption, NEW m \in Memories, Paging!Agree(m), Paging!Free(m) # {}
    PROVE  /\ FrameTaken(m, Paging!frameFreeIndex(m), Paging!Victim(m))
           /\ Paging!Victim(m) \notin m.usedFrames
           /\ \A s \in Spaces : \A a \in Paging!Addresses :
                Paging!View(Paging!frameFreeIndex(m), s, a) = Paging!View(m, s, a)
<1> DEFINE f == Paging!Victim(m)
           n == Paging!frameFreeIndex(m)
<1>1. f \in Paging!Frames /\ f \notin m.usedFrames
  <2>1. Paging!Free(m) \subseteq Nat
    BY DEF Paging!Free, Paging!Frames, Paging!MemoryAssumption
  <2>2. \E x \in Paging!Free(m) : \A y \in Paging!Free(m) : x <= y
    BY <2>1, LeastNatural
  <2>3. Paging!Min(Paging!Free(m)) \in Paging!Free(m)
    BY <2>2 DEF Paging!Min
  <2> QED
    BY <2>3 DEF Paging!Victim, Paging!Free
<1>2. n = [m EXCEPT !.lru = Append(Paging!Without(m.lru, {f}), f)]
  BY DEF Paging!frameFreeIndex, Paging!setUsed
<1> HIDE DEF n, f
<1>3. m.lru \in Seq(Paging!Frames) /\ Paging!IsInjective(m.lru) /\ Paging!ToSet(m.lru) = m.usedFrames
  BY DEF Memories, Paging!Agree
<1>4. /\ n.table = m.table /\ n.swapMap = m.swapMap /\ n.swapFile = m.swapFile
      /\ n.mainMemory = m.mainMemory /\ n.usedFrames = m.usedFrames /\ n.owner = m.owner
      /\ n.lru = Append(Paging!Without(m.lru, {f}), f)
  BY <1>2 DEF Memories
<1>5. /\ n.lru \in Seq(Paging!Frames) /\ Paging!IsInjective(n.lru)
      /\ Paging!ToSet(n.lru) = m.usedFrames \cup {f}
  <2> DEFINE queue == Append(Paging!Without(m.lru, {f}), f)
  <2>1. /\ queue \in Seq(Paging!Frames) /\ Paging!IsInjective(queue)
        /\ Paging!ToSet(queue) = Paging!ToSet(m.lru) \cup {f}
    BY <1>1, <1>3, UsedLast
  <2>2. n.lru = queue
    BY <1>4
  <2> HIDE DEF queue
  <2> QED
    BY <1>3, <2>1, <2>2
<1>6. n \in Memories
  <2> DEFINE queue == Append(Paging!Without(m.lru, {f}), f)
  <2>1. queue \in Seq(Paging!Frames) /\ n = [m EXCEPT !.lru = queue]
    BY <1>2, <1>4, <1>5
  <2> HIDE DEF queue
  <2> QED
    BY <2>1 DEF Memories
<1>7. \A x \in Paging!Mapped(m) : Paging!FrameOf(m, x) # f
  BY <1>1 DEF Paging!Agree
<1>8. \A s \in Spaces : \A p \in Paging!Pages :
         ~ (m.table[s][p].valid /\ m.table[s][p].physicalPage = f)
  BY <1>7, MappedPage DEF Paging!FrameOf
<1>9. FrameTaken(m, n, f)
  BY <1>1, <1>4, <1>5, <1>6, <1>8 DEF FrameTaken
<1>10. \A s \in Spaces : \A a \in Paging!Addresses : Paging!View(n, s, a) = Paging!View(m, s, a)
  BY <1>4 DEF Paging!View
<1> QED
  BY <1>1, <1>9, <1>10 DEF n, f

\* When there is none, that of the page that is put into swap.
LEMMA VictimFrame ==
    ASSUME Paging!MemoryAssumption, NEW m \in Memories, Paging!Agree(m), Paging!Free(m) = {},
           NEW t \in Spaces, NEW u \in Paging!Pages
    PROVE  /\ FrameTaken(m, Paging!frameFreeIndex(m), Paging!Victim(m))
           /\ \A s \in Spaces : \A a \in Paging!Addresses :
                <<s, Paging!PageOf(a)>> \notin Paging!Forgets(m, t, u) =>
                   Paging!View(Paging!frameFreeIndex(m), s, a) = Paging!View(m, s, a)
<1> DEFINE f == Paging!Victim(m)
           n == Paging!frameFreeIndex(m)
           l == Paging!setUsed(m, f)
           holder == m.owner[f]
           q == Paging!PageIn(m, holder, f)
<1>1. m.lru \in Seq(Paging!Frames) /\ Paging!IsInjective(m.lru) /\ Paging!ToSet(m.lru) = m.usedFrames
  BY DEF Memories, Paging!Agree
<1>2. f \in m.usedFrames /\ f \in Paging!Frames
  <2>1. f = Head(m.lru)
    BY DEF Paging!Victim
  <2>2. 0 \in Paging!Frames
    BY DEF Paging!Frames, Paging!MemoryAssumption
  <2>3. m.usedFrames = Paging!Frames
    BY DEF Paging!Free, Memories
  <2>4. m.lru # <<>>
    BY <1>1, <2>2, <2>3 DEF Paging!ToSet
  <2>5. 1 \in DOMAIN m.lru /\ Head(m.lru) = m.lru[1]
    BY <1>1, <2>4
  <2> QED
    BY <1>1, <2>1, <2>3, <2>5 DEF Paging!ToSet
<1>3. /\ holder \in Spaces /\ q \in Paging!Pages /\ m.table[holder][q].valid
      /\ m.table[holder][q].physicalPage = f
      /\ \A x \in Paging!Mapped(m) : Paging!FrameOf(m, x) = f => x = <<holder, q>>
  BY <1>2, PageFound
<1>4. n = Paging!swapOut(l, holder, f)
  BY DEF Paging!frameFreeIndex
<1> DEFINE queue == Append(Paging!Without(m.lru, {f}), f)
<1>5. l = [m EXCEPT !.lru = queue]
  BY DEF Paging!setUsed
<1>6. queue \in Seq(Paging!Frames) /\ Paging!IsInjective(queue)
      /\ Paging!ToSet(queue) = m.usedFrames \cup {f}
  BY <1>1, <1>2, UsedLast
<1> HIDE DEF queue
<1>7. /\ l \in Memories /\ l.table = m.table /\ l.swapMap = m.swapMap /\ l.swapFile = m.swapFile
      /\ l.mainMemory = m.mainMemory /\ l.usedFrames = m.usedFrames /\ l.owner = m.owner
      /\ l.lru = queue
  BY <1>5, <1>6 DEF Memories
<1>8. /\ Paging!PageIn(l, holder, f) = q
      /\ Paging!NeedsWriting(l, holder, q) <=> Paging!NeedsWriting(m, holder, q)
  BY <1>7 DEF Paging!PageIn, Paging!NeedsWriting
<1> HIDE DEF l, q, holder
<1> DEFINE saved == IF Paging!NeedsWriting(m, holder, q) THEN m.mainMemory[f] ELSE m.swapFile[holder][q]
<1>9. n = [l EXCEPT !.swapFile[holder][q] = saved, !.swapMap[holder] = @ \cup {q}, !.table[holder][q] = Paging!NoEntry]
  BY <1>4, <1>7, <1>8 DEF Paging!swapOut
<1>10. saved \in PagesOfBytes /\ Paging!NoEntry \in Entries
  BY <1>2, <1>3 DEF Memories, Paging!NoEntry, Entries
<1> HIDE DEF n, f, saved
<1>11. /\ n.table = [m.table EXCEPT ![holder][q] = Paging!NoEntry]
       /\ n.swapMap = [m.swapMap EXCEPT ![holder] = @ \cup {q}]
       /\ n.swapFile = [m.swapFile EXCEPT ![holder][q] = saved]
       /\ n.mainMemory = m.mainMemory /\ n.usedFrames = m.usedFrames /\ n.owner = m.owner
       /\ n.lru = queue
  BY <1>7, <1>9 DEF Memories
<1>12. n \in Memories
  <2>1. n.table \in [Spaces -> [Paging!Pages -> Entries]]
    BY <1>3, <1>10, <1>11 DEF Memories
  <2>2. n.swapMap \in [Spaces -> SUBSET Paging!Pages]
    BY <1>3, <1>11 DEF Memories
  <2>3. n.swapFile \in [Spaces -> [Paging!Pages -> PagesOfBytes]]
    BY <1>3, <1>10, <1>11 DEF Memories
  <2>4. n = [l EXCEPT !.swapFile = n.swapFile, !.swapMap = n.swapMap, !.table = n.table]
    BY <1>7, <1>9, <1>11 DEF Memories
  <2> QED
    BY <1>7, <2>1, <2>2, <2>3, <2>4 DEF Memories
<1>13. \A s \in Spaces : \A p \in Paging!Pages :
          /\ n.table[s][p] = IF s = holder /\ p = q THEN Paging!NoEntry ELSE m.table[s][p]
          /\ n.swapFile[s][p] = IF s = holder /\ p = q THEN saved ELSE m.swapFile[s][p]
          /\ p \in n.swapMap[s] <=> p \in m.swapMap[s] \/ (s = holder /\ p = q)
  BY <1>3, <1>11 DEF Memories
<1>14. \A s \in Spaces : \A p \in Paging!Pages :
          m.table[s][p].valid /\ m.table[s][p].physicalPage = f <=> s = holder /\ p = q
  <2>1. SUFFICES ASSUME NEW s \in Spaces, NEW p \in Paging!Pages
        PROVE m.table[s][p].valid /\ m.table[s][p].physicalPage = f => s = holder /\ p = q
    BY <1>3
  <2>2. m.table[s][p].valid => <<s, p>> \in Paging!Mapped(m)
    BY MappedPage
  <2>3. Paging!FrameOf(m, <<s, p>>) = m.table[s][p].physicalPage
    BY DEF Paging!FrameOf
  <2>4. m.table[s][p].valid /\ m.table[s][p].physicalPage = f => <<s, p>> = <<holder, q>>
    BY <1>3, <2>2, <2>3
  <2> QED
    BY <2>4
<1>15. FrameTaken(m, n, f)
  BY <1>2, <1>6, <1>11, <1>12, <1>13, <1>14, <1>3 DEF FrameTaken
<1>16. ASSUME NEW s \in Spaces, NEW a \in Paging!Addresses,
              <<s, Paging!PageOf(a)>> \notin Paging!Forgets(m, t, u)
       PROVE  Paging!View(n, s, a) = Paging!View(m, s, a)
  <2>1. Paging!PageOf(a) \in Paging!Pages
    BY AddressParts
  <2>2. CASE s = holder /\ Paging!PageOf(a) = q
    <3>1. saved = m.mainMemory[f]
      <4>1. Paging!Forgets(m, t, u) =
              IF ~ Paging!NeedsWriting(m, holder, q) /\ m.swapFile[holder][q] # m.mainMemory[f]
              THEN {<<holder, q>>} ELSE {}
        BY DEF Paging!Forgets, f, holder, q
      <4> QED
        BY <1>16, <2>2, <4>1 DEF saved
    <3>2. Paging!View(m, s, a) = m.mainMemory[f][a % PageSize]
      BY <1>3, <2>2 DEF Paging!View
    <3>3. Paging!View(n, s, a) = saved[a % PageSize]
      BY <1>13, <2>1, <2>2 DEF Paging!View, Paging!NoEntry
    <3> QED
      BY <3>1, <3>2, <3>3
  <2>3. CASE ~ (s = holder /\ Paging!PageOf(a) = q)
    BY SMTT(30), <1>11, <1>13, <2>1, <2>3 DEF Paging!View
  <2> QED
    BY <2>2, <2>3
<1> QED
  BY <1>15, <1>16 DEF n, f

\* A frame is taken, and what the programs see changes nowhere but on the
\* page that is forgotten.
LEMMA TakesFrame ==
    ASSUME Paging!MemoryAssumption, NEW m \in Memories, Paging!Agree(m),
           NEW t \in Spaces, NEW u \in Paging!Pages
    PROVE  /\ FrameTaken(m, Paging!frameFreeIndex(m), Paging!Victim(m))
           /\ \A s \in Spaces : \A a \in Paging!Addresses :
                <<s, Paging!PageOf(a)>> \notin Paging!Forgets(m, t, u) =>
                   Paging!View(Paging!frameFreeIndex(m), s, a) = Paging!View(m, s, a)
<1>1. CASE Paging!Free(m) # {}
  BY <1>1, FreeFrame
<1>2. CASE Paging!Free(m) = {}
  BY <1>2, VictimFrame
<1> QED
  BY <1>1, <1>2

LEMMA CopiedType ==
    ASSUME NEW seg, NEW p, NEW byte \in Bytes, NEW page \in PagesOfBytes
    PROVE  Paging!Copied(seg, p, byte, page) \in PagesOfBytes
BY DEF Paging!Copied, PagesOfBytes

\* What the handler does to the memory n in which it has taken frame f.
LEMMA HandlerFields ==
    ASSUME NEW m \in Memories, NEW s \in Spaces, NEW p \in Paging!Pages,
           FrameTaken(m, Paging!frameFreeIndex(m), Paging!Victim(m)),
           ~ m.table[s][p].valid
    PROVE  LET f == Paging!Victim(m)
               n == Paging!frameFreeIndex(m)
               h == Paging!PageFaultHandler(m, s, p)
               page == IF p \notin m.swapMap[s]
                         THEN Paging!Copied(Paging!initData, p, "data",
                                 Paging!Copied(Paging!code, p, "code", Paging!Blank))
                         ELSE n.swapFile[s][p]
               entry == [valid |-> TRUE, physicalPage |-> f, dirty |-> p \notin m.swapMap[s]]
           IN  /\ h \in Memories
               /\ h.table = [n.table EXCEPT ![s][p] = entry]
               /\ h.swapMap = n.swapMap /\ h.swapFile = n.swapFile /\ h.lru = n.lru
               /\ h.mainMemory = [m.mainMemory EXCEPT ![f] = page]
               /\ h.usedFrames = m.usedFrames \cup {f} /\ h.owner = [m.owner EXCEPT ![f] = s]
<1> DEFINE f == Paging!Victim(m)
           n == Paging!frameFreeIndex(m)
           h == Paging!PageFaultHandler(m, s, p)
           loaded == p \notin m.swapMap[s]
           image == Paging!Copied(Paging!initData, p, "data",
                       Paging!Copied(Paging!code, p, "code", Paging!Blank))
           page == IF loaded THEN image ELSE n.swapFile[s][p]
           entry == [valid |-> TRUE, physicalPage |-> f, dirty |-> loaded]
           filled == IF loaded THEN Paging!loadPageOnDemand(n, s, p, f) ELSE Paging!swapIn(n, s, p, f)
<1>1. h = [filled EXCEPT !.table[s][p] = entry]
  BY DEF Paging!PageFaultHandler
<1>2. filled = [n EXCEPT !.mainMemory[f] = page, !.usedFrames = @ \cup {f}, !.owner[f] = s]
  BY DEF Paging!loadPageOnDemand, Paging!swapIn
<1>3. image \in PagesOfBytes
  <2>1. Paging!Blank \in PagesOfBytes /\ "code" \in Bytes /\ "data" \in Bytes
    BY DEF Paging!Blank, PagesOfBytes, Bytes
  <2>2. Paging!Copied(Paging!code, p, "code", Paging!Blank) \in PagesOfBytes
    BY <2>1, CopiedType
  <2> QED
    BY <2>1, <2>2, CopiedType
<1> HIDE DEF image, n, f, filled, h
<1>4. /\ n \in Memories /\ f \in Paging!Frames /\ n.usedFrames = m.usedFrames
      /\ n.owner = m.owner /\ n.mainMemory = m.mainMemory
  BY DEF FrameTaken, n, f
<1>5. page \in PagesOfBytes /\ entry \in Entries
  <2>1. n.swapFile[s][p] \in PagesOfBytes
    BY <1>4 DEF Memories
  <2>2. f \in Int
    BY <1>4 DEF Paging!Frames
  <2> QED
    BY <1>3, <2>1, <2>2 DEF Entries
<1> HIDE DEF page, entry, loaded
<1>6. /\ filled.table = n.table /\ filled.swapMap = n.swapMap /\ filled.swapFile = n.swapFile
      /\ filled.lru = n.lru /\ filled.mainMemory = [n.mainMemory EXCEPT ![f] = page]
      /\ filled.usedFrames = n.usedFrames \cup {f} /\ filled.owner = [n.owner EXCEPT ![f] = s]
  BY <1>2, <1>4 DEF Memories
<1>7. filled \in Memories
  <2>1. filled.mainMemory \in [Paging!Frames -> PagesOfBytes]
    BY <1>4, <1>5, <1>6 DEF Memories
  <2>2. filled.usedFrames \in SUBSET Paging!Frames
    BY <1>4, <1>6 DEF Memories
  <2>3. filled.owner \in [Paging!Frames -> Spaces \cup {"none"}]
    BY <1>4, <1>6 DEF Memories
  <2>4. filled = [n EXCEPT !.mainMemory = filled.mainMemory, !.usedFrames = filled.usedFrames,
                           !.owner = filled.owner]
    BY <1>2, <1>4, <1>6 DEF Memories
  <2> QED
    BY <1>4, <2>1, <2>2, <2>3, <2>4 DEF Memories
<1>8. /\ h.table = [n.table EXCEPT ![s][p] = entry] /\ h.swapMap = filled.swapMap
      /\ h.swapFile = filled.swapFile /\ h.lru = filled.lru /\ h.mainMemory = filled.mainMemory
      /\ h.usedFrames = filled.usedFrames /\ h.owner = filled.owner
  BY <1>1, <1>6, <1>7 DEF Memories
<1>9. h \in Memories
  <2>1. h.table \in [Spaces -> [Paging!Pages -> Entries]]
    BY <1>4, <1>5, <1>8 DEF Memories
  <2>2. h = [filled EXCEPT !.table = h.table]
    BY <1>1, <1>6, <1>7, <1>8 DEF Memories
  <2> QED
    BY <1>7, <2>1, <2>2 DEF Memories
<1> QED
  BY <1>4, <1>6, <1>8, <1>9 DEF n, f, h, page, entry, image, loaded

\* A page fault: the page is in memory, the frames agree with the page tables,
\* and every program sees what it saw, but on the page that is forgotten.
LEMMA FaultKeeps ==
    ASSUME Paging!MemoryAssumption, NEW m \in Memories, Paging!Agree(m),
           NEW s \in Spaces, NEW p \in Paging!Pages, ~ m.table[s][p].valid
    PROVE  LET h == Paging!PageFaultHandler(m, s, p)
           IN  /\ h \in Memories /\ Paging!Agree(h)
               /\ h.table[s][p].valid
               /\ Paging!Mapped(h) \subseteq Paging!Mapped(m) \cup {<<s, p>>}
               /\ \A t \in Spaces : \A a \in Paging!Addresses :
                    <<t, Paging!PageOf(a)>> \notin Paging!Forgets(m, s, p) =>
                       Paging!View(h, t, a) = Paging!View(m, t, a)
<1> DEFINE f == Paging!Victim(m)
           n == Paging!frameFreeIndex(m)
           h == Paging!PageFaultHandler(m, s, p)
           image == Paging!Copied(Paging!initData, p, "data",
                       Paging!Copied(Paging!code, p, "code", Paging!Blank))
           page == IF p \notin m.swapMap[s] THEN image ELSE n.swapFile[s][p]
           entry == [valid |-> TRUE, physicalPage |-> f, dirty |-> p \notin m.swapMap[s]]
<1>1. /\ FrameTaken(m, n, f)
      /\ \A t \in Spaces : \A a \in Paging!Addresses :
           <<t, Paging!PageOf(a)>> \notin Paging!Forgets(m, s, p) =>
              Paging!View(n, t, a) = Paging!View(m, t, a)
  BY TakesFrame
<1>2. /\ h \in Memories
      /\ h.table = [n.table EXCEPT ![s][p] = entry]
      /\ h.swapMap = n.swapMap /\ h.swapFile = n.swapFile /\ h.lru = n.lru
      /\ h.mainMemory = [m.mainMemory EXCEPT ![f] = page]
      /\ h.usedFrames = m.usedFrames \cup {f} /\ h.owner = [m.owner EXCEPT ![f] = s]
  BY <1>1, HandlerFields
<1> HIDE DEF n, f, h, image
<1>3. /\ n \in Memories /\ f \in Paging!Frames /\ n.mainMemory = m.mainMemory
      /\ \A t \in Spaces : \A q \in Paging!Pages :
            n.table[t][q] = IF m.table[t][q].valid /\ m.table[t][q].physicalPage = f
                              THEN Paging!NoEntry ELSE m.table[t][q]
      /\ p \in n.swapMap[s] <=> p \in m.swapMap[s]
      /\ Paging!IsInjective(n.lru) /\ Paging!ToSet(n.lru) = m.usedFrames \cup {f}
  BY <1>1 DEF FrameTaken
<1>4. \A t \in Spaces : \A q \in Paging!Pages :
         h.table[t][q] = IF t = s /\ q = p THEN entry ELSE n.table[t][q]
  BY <1>2, <1>3 DEF Memories
<1>5. /\ h.table[s][p] = entry
      /\ \A t \in Spaces : \A q \in Paging!Pages : ~ (t = s /\ q = p) =>
           /\ h.table[t][q].valid <=> m.table[t][q].valid /\ m.table[t][q].physicalPage # f
           /\ h.table[t][q].valid => h.table[t][q] = m.table[t][q]
  <2> HIDE DEF entry
  <2>1. h.table[s][p] = entry
    BY <1>4
  <2>2. SUFFICES ASSUME NEW t \in Spaces, NEW q \in Paging!Pages, ~ (t = s /\ q = p)
        PROVE  /\ h.table[t][q].valid <=> m.table[t][q].valid /\ m.table[t][q].physicalPage # f
               /\ h.table[t][q].valid => h.table[t][q] = m.table[t][q]
    BY <2>1
  <2>3. h.table[t][q] = n.table[t][q]
    BY <1>4, <2>2
  <2>4. n.table[t][q] = IF m.table[t][q].valid /\ m.table[t][q].physicalPage = f
                          THEN Paging!NoEntry ELSE m.table[t][q]
    BY <1>3
  <2>5. ~ Paging!NoEntry.valid
    BY DEF Paging!NoEntry
  <2> QED
    BY <2>3, <2>4, <2>5
<1> HIDE DEF page
<1>6. entry.valid /\ entry.physicalPage = f
  OBVIOUS
<1> HIDE DEF entry
<1>7. /\ <<s, p>> \in Paging!Mapped(h) /\ Paging!FrameOf(h, <<s, p>>) = f
      /\ \A x \in Paging!Mapped(h) : x # <<s, p>> =>
           /\ x \in Paging!Mapped(m) /\ Paging!FrameOf(h, x) = Paging!FrameOf(m, x)
           /\ Paging!FrameOf(h, x) # f
  BY <1>5, <1>6 DEF Paging!Mapped, Paging!FrameOf
<1>8. \A x \in Paging!Mapped(m) : Paging!FrameOf(m, x) # f =>
         x \in Paging!Mapped(h) /\ Paging!FrameOf(h, x) = Paging!FrameOf(m, x)
  <2>1. SUFFICES ASSUME NEW x \in Paging!Mapped(m), Paging!FrameOf(m, x) # f
        PROVE  x \in Paging!Mapped(h) /\ Paging!FrameOf(h, x) = Paging!FrameOf(m, x)
    OBVIOUS
  <2>2. /\ x[1] \in Spaces /\ x[2] \in Paging!Pages /\ x = <<x[1], x[2]>>
        /\ m.table[x[1]][x[2]].valid /\ m.table[x[1]][x[2]].physicalPage # f
    BY <2>1 DEF Paging!Mapped, Paging!FrameOf
  <2>3. ~ (x[1] = s /\ x[2] = p)
    BY <2>2
  <2>4. h.table[x[1]][x[2]].valid /\ h.table[x[1]][x[2]] = m.table[x[1]][x[2]]
    BY <1>5, <2>2, <2>3
  <2> QED
    BY <2>2, <2>4 DEF Paging!Mapped, Paging!FrameOf
<1>9. Paging!Agree(h)
  <2>1. \A x \in Paging!Mapped(h) : h.owner[Paging!FrameOf(h, x)] = x[1]
    <3>1. SUFFICES ASSUME NEW x \in Paging!Mapped(h) PROVE h.owner[Paging!FrameOf(h, x)] = x[1]
      OBVIOUS
    <3>2. CASE x = <<s, p>>
      BY <1>2, <1>3, <1>7, <3>2 DEF Memories
    <3>3. CASE x # <<s, p>>
      <4>1. m.owner[Paging!FrameOf(m, x)] = x[1]
        BY <1>7, <3>3 DEF Paging!Agree
      <4> QED
        BY <1>2, <1>7, <3>3, <4>1 DEF Memories
    <3> QED
      BY <3>2, <3>3
  <2>2. \A x, y \in Paging!Mapped(h) : Paging!FrameOf(h, x) = Paging!FrameOf(h, y) => x = y
    BY <1>7 DEF Paging!Agree
  <2>3. h.usedFrames = {Paging!FrameOf(h, x) : x \in Paging!Mapped(h)}
    <3>1. m.usedFrames = {Paging!FrameOf(m, x) : x \in Paging!Mapped(m)}
      BY DEF Paging!Agree
    <3>2. \A g \in h.usedFrames : \E x \in Paging!Mapped(h) : g = Paging!FrameOf(h, x)
      BY <1>2, <1>7, <1>8, <3>1
    <3>3. \A x \in Paging!Mapped(h) : Paging!FrameOf(h, x) \in h.usedFrames
      BY <1>2, <1>7, <3>1
    <3> QED
      BY <3>2, <3>3
  <2>4. Paging!IsInjective(h.lru) /\ Paging!ToSet(h.lru) = h.usedFrames
    BY <1>2, <1>3
  <2> QED
    BY <2>1, <2>2, <2>3, <2>4 DEF Paging!Agree
<1>10. \A t \in Spaces : \A a \in Paging!Addresses : Paging!View(h, t, a) = Paging!View(n, t, a)
  <2>1. SUFFICES ASSUME NEW t \in Spaces, NEW a \in Paging!Addresses
        PROVE  Paging!View(h, t, a) = Paging!View(n, t, a)
    OBVIOUS
  <2> DEFINE q == Paging!PageOf(a)
             o == a % PageSize
  <2>2. q \in Paging!Pages /\ o \in Paging!Offsets
    BY AddressParts
  <2>3. CASE t = s /\ q = p
    <3>1. Paging!View(h, t, a) = page[o]
      BY <1>2, <1>3, <1>5, <1>6, <2>3 DEF Paging!View, Memories
    <3>2. ~ n.table[s][p].valid
      BY <1>3 DEF Paging!NoEntry
    <3>3. Paging!View(n, t, a) = IF p \in n.swapMap[s] THEN n.swapFile[s][p][o] ELSE Paging!Image(a)
      BY <2>3, <3>2 DEF Paging!View
    <3>4. image[o] = Paging!Image(a)
      BY <2>3, LoadedIsImage DEF image
    <3> QED
      BY <1>3, <3>1, <3>3, <3>4 DEF page
  <2>4. CASE ~ (t = s /\ q = p)
    <3>1. h.table[t][q] = n.table[t][q] /\ (n.table[t][q].valid => n.table[t][q].physicalPage # f)
      BY <1>3, <1>4, <2>2, <2>4 DEF Paging!NoEntry
    <3>2. \A g : g # f => h.mainMemory[g] = n.mainMemory[g]
      BY <1>2, <1>3 DEF Memories
    <3> QED
      BY <1>2, <3>1, <3>2 DEF Paging!View
  <2> QED
    BY <2>3, <2>4
<1>11. h.table[s][p].valid
  BY <1>5, <1>6
<1>12. Paging!Mapped(h) \subseteq Paging!Mapped(m) \cup {<<s, p>>}
  BY <1>7
<1> QED
  BY <1>1, <1>2, <1>9, <1>10, <1>11, <1>12 DEF h

\* A byte is stored where the program sees it, and nowhere else: no other page
\* is in that frame, and no other address of the page at that offset.
LEMMA StoreKeeps ==
    ASSUME Paging!MemoryAssumption, NEW m \in Memories, Paging!Agree(m),
           NEW s \in Spaces, NEW a \in Paging!Addresses,
           m.table[s][Paging!PageOf(a)].valid,
           NEW writing \in BOOLEAN, NEW byte \in Bytes
    PROVE  LET h == Paging!Store(m, s, a, writing, byte)
           IN  /\ h \in Memories /\ Paging!Agree(h)
               /\ Paging!Mapped(h) = Paging!Mapped(m)
               /\ \A t \in Spaces : \A b \in Paging!Addresses :
                    Paging!View(h, t, b) = IF t = s /\ b = a THEN byte ELSE Paging!View(m, t, b)
<1> DEFINE h == Paging!Store(m, s, a, writing, byte)
           p == Paging!PageOf(a)
           o == a % PageSize
           f == m.table[s][p].physicalPage
<1>1. p \in Paging!Pages /\ o \in Paging!Offsets
  BY AddressParts
<1>2. h = [m EXCEPT !.mainMemory[f][o] = byte, !.table[s][p].dirty = @ \/ writing]
  BY DEF Paging!Store
<1> HIDE DEF p, o, h
<1>3. f \in Paging!Frames /\ m.table[s][p].valid
  BY <1>1, MappedPage DEF p
<1> HIDE DEF f
<1>4. /\ h.table = [m.table EXCEPT ![s][p].dirty = @ \/ writing]
      /\ h.mainMemory = [m.mainMemory EXCEPT ![f][o] = byte]
      /\ h.swapMap = m.swapMap /\ h.swapFile = m.swapFile /\ h.lru = m.lru
      /\ h.usedFrames = m.usedFrames /\ h.owner = m.owner
  BY <1>2 DEF Memories
<1>5. /\ m.table \in [Spaces -> [Paging!Pages -> Entries]]
      /\ m.mainMemory \in [Paging!Frames -> [Paging!Offsets -> Bytes]]
  BY DEF Memories, PagesOfBytes
<1>6. h.table \in [Spaces -> [Paging!Pages -> Entries]]
  <2>1. m.table[s][p] \in Entries
    BY <1>1, <1>5
  <2>2. [m.table[s][p] EXCEPT !.dirty = @ \/ writing] \in Entries
    <3>1. m.table[s][p].dirty \/ writing \in BOOLEAN
      OBVIOUS
    <3> QED
      BY <2>1, <3>1 DEF Entries
  <2> QED
    BY <1>1, <1>4, <1>5, <2>2
<1>7. h.mainMemory \in [Paging!Frames -> [Paging!Offsets -> Bytes]]
  BY <1>1, <1>3, <1>4, <1>5
<1>8. h \in Memories
  <2>1. h = [m EXCEPT !.table = h.table, !.mainMemory = h.mainMemory]
    BY <1>2, <1>4 DEF Memories
  <2> QED
    BY <1>6, <1>7, <2>1 DEF Memories, PagesOfBytes
<1>9. \A t \in Spaces : \A q \in Paging!Pages :
         h.table[t][q].valid = m.table[t][q].valid
         /\ h.table[t][q].physicalPage = m.table[t][q].physicalPage
  <2>1. SUFFICES ASSUME NEW t \in Spaces, NEW q \in Paging!Pages
        PROVE  h.table[t][q].valid = m.table[t][q].valid
               /\ h.table[t][q].physicalPage = m.table[t][q].physicalPage
    OBVIOUS
  <2>2. h.table[t][q] = IF t = s /\ q = p THEN [m.table[s][p] EXCEPT !.dirty = @ \/ writing]
                        ELSE m.table[t][q]
    BY <1>1, <1>4, <1>5
  <2>3. m.table[s][p] \in Entries
    BY <1>1, <1>5
  <2> QED
    BY <2>2, <2>3 DEF Entries
<1>10. Paging!Mapped(h) = Paging!Mapped(m)
       /\ \A x \in Paging!Mapped(m) : Paging!FrameOf(h, x) = Paging!FrameOf(m, x)
  BY <1>9 DEF Paging!Mapped, Paging!FrameOf
<1>11. Paging!Agree(h)
  <2>1. /\ \A x \in Paging!Mapped(m) : m.owner[Paging!FrameOf(m, x)] = x[1]
        /\ \A x, y \in Paging!Mapped(m) : Paging!FrameOf(m, x) = Paging!FrameOf(m, y) => x = y
        /\ m.usedFrames = {Paging!FrameOf(m, x) : x \in Paging!Mapped(m)}
        /\ Paging!IsInjective(m.lru) /\ Paging!ToSet(m.lru) = m.usedFrames
    BY DEF Paging!Agree
  <2>2. {Paging!FrameOf(h, x) : x \in Paging!Mapped(h)} = {Paging!FrameOf(m, x) : x \in Paging!Mapped(m)}
    BY <1>10
  <2> QED
    BY <1>4, <1>10, <2>1, <2>2 DEF Paging!Agree
<1>12. ASSUME NEW t \in Spaces, NEW b \in Paging!Addresses
       PROVE  Paging!View(h, t, b) = IF t = s /\ b = a THEN byte ELSE Paging!View(m, t, b)
  <2> DEFINE q == Paging!PageOf(b)
             c == b % PageSize
             g == m.table[t][q].physicalPage
  <2>1. q \in Paging!Pages /\ c \in Paging!Offsets
    BY AddressParts
  <2>2. t = s /\ b = a <=> t = s /\ q = p /\ c = o
    <3>1. q = p /\ c = o => b = a
      BY OneAddress DEF p, o
    <3> QED
      BY <3>1 DEF p, o
  <2>3. /\ h.table[t][q].valid = m.table[t][q].valid
        /\ h.table[t][q].physicalPage = g
    BY <1>9, <2>1
  <2>4. CASE ~ m.table[t][q].valid
    <3>1. ~ (t = s /\ q = p)
      BY <1>3, <2>4
    <3> QED
      BY <1>4, <2>2, <2>3, <2>4, <3>1 DEF Paging!View
  <2>5. CASE m.table[t][q].valid
    <3>1. Paging!View(h, t, b) = h.mainMemory[g][c] /\ Paging!View(m, t, b) = m.mainMemory[g][c]
      BY <2>3, <2>5 DEF Paging!View
    <3>2. g \in Paging!Frames
      BY <2>1, <2>5, MappedPage
    <3>3. g = f <=> t = s /\ q = p
      <4>1. /\ <<t, q>> \in Paging!Mapped(m) /\ <<s, p>> \in Paging!Mapped(m)
            /\ Paging!FrameOf(m, <<t, q>>) = g /\ Paging!FrameOf(m, <<s, p>>) = f
        BY <1>1, <1>3, <2>1, <2>5 DEF Paging!Mapped, Paging!FrameOf, f
      <4>2. g = f => <<t, q>> = <<s, p>>
        BY <4>1 DEF Paging!Agree
      <4> QED
        BY <4>1, <4>2
    <3>4. h.mainMemory[g][c] = IF g = f /\ c = o THEN byte ELSE m.mainMemory[g][c]
      BY <1>1, <1>3, <1>4, <1>5, <2>1, <3>2
    <3> QED
      BY <2>2, <3>1, <3>3, <3>4
  <2> QED
    BY <2>4, <2>5
<1> QED
  BY <1>8, <1>10, <1>11, <1>12 DEF h

\* The kernel writes a byte, after a fault if the page is not valid.
LEMMA KernelWriteKeeps ==
    ASSUME Paging!MemoryAssumption, NEW m \in Memories, Paging!Agree(m),
           NEW s \in Spaces, NEW a \in Paging!Addresses, NEW byte \in Bytes
    PROVE  LET h == Paging!KernelWrite(m, s, a, byte)
               lost == IF m.table[s][Paging!PageOf(a)].valid THEN {}
                       ELSE Paging!Forgets(m, s, Paging!PageOf(a))
           IN  /\ h \in Memories /\ Paging!Agree(h)
               /\ Paging!Mapped(h) \subseteq Paging!Mapped(m) \cup {<<s, Paging!PageOf(a)>>}
               /\ \A t \in Spaces : \A b \in Paging!Addresses :
                    <<t, Paging!PageOf(b)>> \notin lost =>
                       Paging!View(h, t, b) = IF t = s /\ b = a THEN byte ELSE Paging!View(m, t, b)
<1> DEFINE p == Paging!PageOf(a)
           n == IF m.table[s][p].valid THEN m ELSE Paging!PageFaultHandler(m, s, p)
           lost == IF m.table[s][p].valid THEN {} ELSE Paging!Forgets(m, s, p)
           h == Paging!Store(n, s, a, FALSE, byte)
<1>1. p \in Paging!Pages
  BY AddressParts
<1>2. /\ n \in Memories /\ Paging!Agree(n) /\ n.table[s][p].valid
      /\ Paging!Mapped(n) \subseteq Paging!Mapped(m) \cup {<<s, p>>}
      /\ \A t \in Spaces : \A b \in Paging!Addresses :
           <<t, Paging!PageOf(b)>> \notin lost => Paging!View(n, t, b) = Paging!View(m, t, b)
  <2> HIDE DEF p
  <2>1. CASE m.table[s][p].valid
    BY <2>1
  <2>2. CASE ~ m.table[s][p].valid
    BY <1>1, <2>2, FaultKeeps
  <2> QED
    BY <2>1, <2>2
<1>3. h = Paging!KernelWrite(m, s, a, byte)
  BY DEF Paging!KernelWrite
<1> HIDE DEF n
<1>4. /\ h \in Memories /\ Paging!Agree(h) /\ Paging!Mapped(h) = Paging!Mapped(n)
      /\ \A t \in Spaces : \A b \in Paging!Addresses :
           Paging!View(h, t, b) = IF t = s /\ b = a THEN byte ELSE Paging!View(n, t, b)
  <2>1. n \in Memories /\ Paging!Agree(n) /\ n.table[s][Paging!PageOf(a)].valid
    BY <1>2
  <2> DEFINE no == FALSE
  <2>2. no \in BOOLEAN
    OBVIOUS
  <2> HIDE DEF no
  <2>3. /\ Paging!Store(n, s, a, no, byte) \in Memories
        /\ Paging!Agree(Paging!Store(n, s, a, no, byte))
        /\ Paging!Mapped(Paging!Store(n, s, a, no, byte)) = Paging!Mapped(n)
        /\ \A t \in Spaces : \A b \in Paging!Addresses :
             Paging!View(Paging!Store(n, s, a, no, byte), t, b)
                = IF t = s /\ b = a THEN byte ELSE Paging!View(n, t, b)
    BY <2>1, <2>2, StoreKeeps
  <2> QED
    BY <2>3 DEF no
<1> HIDE DEF h
<1>5. \A t \in Spaces : \A b \in Paging!Addresses :
         <<t, Paging!PageOf(b)>> \notin lost =>
            Paging!View(h, t, b) = IF t = s /\ b = a THEN byte ELSE Paging!View(m, t, b)
  BY <1>2, <1>4
<1> QED
  BY <1>2, <1>3, <1>4, <1>5 DEF h

\* The invariant.  Only the pages of running programs are in memory, so that a
\* program that starts finds nothing of the last one in its address space.
OnlyRunningMapped == \A x \in Paging!Mapped(vm) : x[1] \in running
PagingInv ==
    /\ vm \in Memories /\ running \subseteq Spaces
    /\ meant \in [Spaces -> [Paging!Addresses -> Bytes]]
    /\ Paging!Agree(vm) /\ OnlyRunningMapped /\ Paging!MemoryKept

LEMMA InitPaging == ASSUME Paging!MemoryAssumption, Paging!Init PROVE PagingInv
<1>1. Paging!Blank \in PagesOfBytes /\ Paging!NoEntry \in Entries
  BY DEF Paging!Blank, PagesOfBytes, Bytes, Paging!NoEntry, Entries
<1>2. <<>> \in Seq(Paging!Frames)
  OBVIOUS
<1> DEFINE none == Paging!None
<1>3. none = "none"
  BY DEF Paging!None
<1>4. vm \in Memories
  <2> HIDE DEF none
  <2>1. vm = [table |-> [s \in Spaces |-> [p \in Paging!Pages |-> Paging!NoEntry]],
              swapMap |-> [s \in Spaces |-> {}],
              swapFile |-> [s \in Spaces |-> [p \in Paging!Pages |-> Paging!Blank]],
              mainMemory |-> [f \in Paging!Frames |-> Paging!Blank],
              usedFrames |-> {}, owner |-> [f \in Paging!Frames |-> none], lru |-> <<>>]
    BY DEF Paging!Init, none
  <2> QED
    BY <1>1, <1>2, <1>3, <2>1 DEF Memories
<1>5. Paging!Mapped(vm) = {}
  BY DEF Paging!Init, Paging!Mapped, Paging!NoEntry
<1>6. vm.usedFrames = {} /\ vm.lru = <<>>
  BY DEF Paging!Init
<1>7. Paging!IsInjective(vm.lru) /\ Paging!ToSet(vm.lru) = {}
  BY <1>6 DEF Paging!IsInjective, Paging!ToSet
<1>8. Paging!Agree(vm)
  BY <1>5, <1>6, <1>7 DEF Paging!Agree
<1>9. running = {} /\ meant \in [Spaces -> [Paging!Addresses -> Bytes]]
  BY DEF Paging!Init, Bytes
<1> QED
  BY <1>4, <1>5, <1>8, <1>9 DEF PagingInv, OnlyRunningMapped, Paging!MemoryKept

LEMMA FaultStep ==
    ASSUME Paging!MemoryAssumption, PagingInv,
           NEW s \in Spaces, NEW p \in Paging!Pages, Paging!UserFaults(s, p)
    PROVE  PagingInv'
<1>1. /\ s \in running /\ ~ vm.table[s][p].valid /\ vm' = Paging!PageFaultHandler(vm, s, p)
      /\ forgotten' = forgotten \cup Paging!Forgets(vm, s, p)
      /\ running' = running /\ meant' = meant
  BY DEF Paging!UserFaults
<1> DEFINE h == Paging!PageFaultHandler(vm, s, p)
<1>2. /\ h \in Memories /\ Paging!Agree(h)
      /\ Paging!Mapped(h) \subseteq Paging!Mapped(vm) \cup {<<s, p>>}
      /\ \A t \in Spaces : \A a \in Paging!Addresses :
           <<t, Paging!PageOf(a)>> \notin Paging!Forgets(vm, s, p) =>
              Paging!View(h, t, a) = Paging!View(vm, t, a)
  BY <1>1, FaultKeeps DEF PagingInv
<1> HIDE DEF h
<1>3. h = vm'
  BY <1>1 DEF h
<1>4. Paging!Agree(vm)'
  <2>1. Paging!Agree(h)
    BY <1>2
  <2> QED
    BY SMTT(30), <1>3, <2>1 DEF Paging!Agree, Paging!Mapped, Paging!FrameOf
<1>5. OnlyRunningMapped'
  <2>1. \A x \in Paging!Mapped(h) : x[1] \in running
    BY <1>1, <1>2 DEF PagingInv, OnlyRunningMapped
  <2> QED
    BY <1>1, <1>3, <2>1 DEF OnlyRunningMapped, Paging!Mapped
<1>6. Paging!MemoryKept'
  <2>1. ASSUME NEW t \in running, NEW a \in Paging!Addresses, <<t, Paging!PageOf(a)>> \notin forgotten'
        PROVE  Paging!View(h, t, a) = meant[t][a]
    <3>1. t \in Spaces
      BY DEF PagingInv
    <3>2. <<t, Paging!PageOf(a)>> \notin Paging!Forgets(vm, s, p) /\ <<t, Paging!PageOf(a)>> \notin forgotten
      BY <1>1, <2>1
    <3> QED
      BY <1>2, <3>1, <3>2 DEF PagingInv, Paging!MemoryKept
  <2> QED
    BY <1>1, <1>3, <2>1 DEF Paging!MemoryKept, Paging!View
<1> QED
  BY <1>1, <1>2, <1>3, <1>4, <1>5, <1>6 DEF PagingInv

\* A byte is written by the program or by the kernel.
ByteWritten(h, s, a, byte, lost) ==
    /\ h \in Memories /\ Paging!Agree(h)
    /\ Paging!Mapped(h) \subseteq Paging!Mapped(vm) \cup {<<s, Paging!PageOf(a)>>}
    /\ \A t \in Spaces : \A b \in Paging!Addresses :
         <<t, Paging!PageOf(b)>> \notin lost =>
            Paging!View(h, t, b) = IF t = s /\ b = a THEN byte ELSE Paging!View(vm, t, b)

LEMMA WriteStep ==
    ASSUME Paging!MemoryAssumption, PagingInv, NEW s \in running, NEW a \in Paging!Addresses,
           NEW byte \in Bytes, NEW h, NEW lost, ByteWritten(h, s, a, byte, lost),
           vm' = h, meant' = [meant EXCEPT ![s][a] = byte],
           forgotten' = forgotten \cup lost, UNCHANGED running
    PROVE  PagingInv'
<1>0. /\ h \in Memories /\ Paging!Agree(h)
      /\ Paging!Mapped(h) \subseteq Paging!Mapped(vm) \cup {<<s, Paging!PageOf(a)>>}
      /\ \A t \in Spaces : \A b \in Paging!Addresses :
           <<t, Paging!PageOf(b)>> \notin lost =>
              Paging!View(h, t, b) = IF t = s /\ b = a THEN byte ELSE Paging!View(vm, t, b)
  BY DEF ByteWritten
<1>1. s \in Spaces /\ meant \in [Spaces -> [Paging!Addresses -> Bytes]]
  BY DEF PagingInv
<1>2. /\ meant' \in [Spaces -> [Paging!Addresses -> Bytes]]
      /\ \A t \in Spaces : \A b \in Paging!Addresses :
           meant'[t][b] = IF t = s /\ b = a THEN byte ELSE meant[t][b]
  BY <1>1
<1>3. Paging!Agree(vm)'
  BY SMTT(30), <1>0 DEF Paging!Agree, Paging!Mapped, Paging!FrameOf
<1>4. OnlyRunningMapped'
  <2>1. \A x \in Paging!Mapped(h) : x[1] \in running
    BY <1>0 DEF PagingInv, OnlyRunningMapped
  <2> QED
    BY <2>1 DEF OnlyRunningMapped, Paging!Mapped
<1>5. Paging!MemoryKept'
  <2>1. ASSUME NEW t \in running, NEW b \in Paging!Addresses, <<t, Paging!PageOf(b)>> \notin forgotten'
        PROVE  Paging!View(h, t, b) = meant'[t][b]
    <3>1. t \in Spaces
      BY DEF PagingInv
    <3>2. <<t, Paging!PageOf(b)>> \notin lost /\ <<t, Paging!PageOf(b)>> \notin forgotten
      BY <2>1
    <3>3. Paging!View(vm, t, b) = meant[t][b]
      BY <3>2 DEF PagingInv, Paging!MemoryKept
    <3>4. Paging!View(h, t, b) = IF t = s /\ b = a THEN byte ELSE Paging!View(vm, t, b)
      BY <1>0, <3>1, <3>2
    <3> QED
      BY <1>2, <3>1, <3>3, <3>4
  <2> QED
    BY <2>1 DEF Paging!MemoryKept, Paging!View
<1> QED
  BY <1>0, <1>2, <1>3, <1>4, <1>5 DEF PagingInv

LEMMA RunStep ==
    ASSUME Paging!MemoryAssumption, PagingInv, NEW s \in Spaces, Paging!Run(s)
    PROVE  PagingInv'
<1> DEFINE none == [p \in Paging!Pages |-> Paging!NoEntry]
           blank == [p \in Paging!Pages |-> Paging!Blank]
           fresh == [vm EXCEPT !.table[s] = none, !.swapMap[s] = {}, !.swapFile[s] = blank]
           h == Paging!KernelWrite(fresh, s, ArgAddress, "kernel")
           lost == Paging!Forgets(fresh, s, Paging!PageOf(ArgAddress))
<1>1. /\ s \notin running /\ vm' = h /\ running' = running \cup {s}
      /\ forgotten' = {g \in forgotten : g[1] # s} \cup lost
      /\ meant' = [meant EXCEPT ![s] = [a \in Paging!Addresses |->
                      IF a = ArgAddress THEN "kernel" ELSE Paging!Image(a)]]
  BY DEF Paging!Run
<1>2. none \in [Paging!Pages -> Entries] /\ blank \in [Paging!Pages -> PagesOfBytes]
  <2>1. Paging!Blank \in PagesOfBytes /\ Paging!NoEntry \in Entries
    BY DEF Paging!Blank, PagesOfBytes, Bytes, Paging!NoEntry, Entries
  <2> QED
    BY <2>1
<1>3. \A p \in Paging!Pages : none[p] = Paging!NoEntry
  OBVIOUS
<1> HIDE DEF none, blank, h, lost
<1>4. vm \in Memories /\ Paging!Agree(vm)
  BY DEF PagingInv
<1>5. /\ fresh.table = [vm.table EXCEPT ![s] = none]
      /\ fresh.swapMap = [vm.swapMap EXCEPT ![s] = {}]
      /\ fresh.swapFile = [vm.swapFile EXCEPT ![s] = blank]
      /\ fresh.mainMemory = vm.mainMemory /\ fresh.usedFrames = vm.usedFrames
      /\ fresh.owner = vm.owner /\ fresh.lru = vm.lru
  BY <1>4 DEF Memories
<1>6. fresh \in Memories
  <2>1. fresh.table \in [Spaces -> [Paging!Pages -> Entries]]
    BY <1>2, <1>4, <1>5 DEF Memories
  <2>2. fresh.swapMap \in [Spaces -> SUBSET Paging!Pages]
    BY <1>4, <1>5 DEF Memories
  <2>3. fresh.swapFile \in [Spaces -> [Paging!Pages -> PagesOfBytes]]
    BY <1>2, <1>4, <1>5 DEF Memories
  <2>4. fresh = [vm EXCEPT !.table = fresh.table, !.swapMap = fresh.swapMap,
                           !.swapFile = fresh.swapFile]
    BY <1>4, <1>5 DEF Memories
  <2> HIDE DEF fresh
  <2> QED
    BY <1>4, <2>1, <2>2, <2>3, <2>4 DEF Memories
<1> HIDE DEF fresh
<1>7. \A t \in Spaces : t # s =>
         /\ fresh.table[t] = vm.table[t] /\ fresh.swapMap[t] = vm.swapMap[t]
         /\ fresh.swapFile[t] = vm.swapFile[t]
  BY <1>4, <1>5 DEF Memories
<1>8. \A p \in Paging!Pages : ~ fresh.table[s][p].valid /\ fresh.swapMap[s] = {}
  BY <1>3, <1>4, <1>5 DEF Memories, Paging!NoEntry
<1>9. \A x \in Paging!Mapped(vm) : x[1] \in Spaces /\ x[1] # s
  BY <1>1 DEF PagingInv, OnlyRunningMapped
<1>10. /\ Paging!Mapped(fresh) = Paging!Mapped(vm)
       /\ \A x \in Paging!Mapped(vm) : Paging!FrameOf(fresh, x) = Paging!FrameOf(vm, x)
  <2>1. ASSUME NEW x \in Paging!Mapped(vm)
        PROVE  x \in Paging!Mapped(fresh) /\ Paging!FrameOf(fresh, x) = Paging!FrameOf(vm, x)
    BY <1>7, <1>9 DEF Paging!Mapped, Paging!FrameOf
  <2>2. ASSUME NEW x \in Paging!Mapped(fresh) PROVE x \in Paging!Mapped(vm)
    BY <1>7, <1>8 DEF Paging!Mapped
  <2> QED
    BY <2>1, <2>2
<1>11. Paging!Agree(fresh)
  <2>1. /\ \A x \in Paging!Mapped(vm) : vm.owner[Paging!FrameOf(vm, x)] = x[1]
        /\ \A x, y \in Paging!Mapped(vm) : Paging!FrameOf(vm, x) = Paging!FrameOf(vm, y) => x = y
        /\ vm.usedFrames = {Paging!FrameOf(vm, x) : x \in Paging!Mapped(vm)}
        /\ Paging!IsInjective(vm.lru) /\ Paging!ToSet(vm.lru) = vm.usedFrames
    BY <1>4 DEF Paging!Agree
  <2>2. {Paging!FrameOf(fresh, x) : x \in Paging!Mapped(fresh)}
           = {Paging!FrameOf(vm, x) : x \in Paging!Mapped(vm)}
    BY <1>10
  <2> QED
    BY <1>5, <1>10, <2>1, <2>2 DEF Paging!Agree
<1>12. /\ \A a \in Paging!Addresses : Paging!View(fresh, s, a) = Paging!Image(a)
       /\ \A t \in Spaces : \A a \in Paging!Addresses :
             t # s => Paging!View(fresh, t, a) = Paging!View(vm, t, a)
  <2>1. ASSUME NEW a \in Paging!Addresses PROVE Paging!View(fresh, s, a) = Paging!Image(a)
    <3>1. Paging!PageOf(a) \in Paging!Pages
      BY AddressParts
    <3> QED
      BY <1>8, <3>1 DEF Paging!View
  <2>2. ASSUME NEW t \in Spaces, NEW a \in Paging!Addresses, t # s
        PROVE  Paging!View(fresh, t, a) = Paging!View(vm, t, a)
    BY <1>5, <1>7, <2>2 DEF Paging!View
  <2> QED
    BY <2>1, <2>2
<1>13. ArgAddress \in Paging!Addresses /\ Paging!PageOf(ArgAddress) \in Paging!Pages
       /\ "kernel" \in Bytes
  <2>1. ArgAddress \in Paging!Addresses
    BY DEF Paging!MemoryAssumption, Paging!Addresses
  <2> QED
    BY <2>1, AddressParts DEF Bytes
<1> DEFINE kernel == "kernel"
<1>14. /\ h \in Memories /\ Paging!Agree(h)
       /\ Paging!Mapped(h) \subseteq Paging!Mapped(fresh) \cup {<<s, Paging!PageOf(ArgAddress)>>}
       /\ \A t \in Spaces : \A b \in Paging!Addresses :
            <<t, Paging!PageOf(b)>> \notin lost =>
               Paging!View(h, t, b) = IF t = s /\ b = ArgAddress THEN kernel
                                      ELSE Paging!View(fresh, t, b)
  <2>1. kernel \in Bytes /\ h = Paging!KernelWrite(fresh, s, ArgAddress, kernel)
    BY <1>13 DEF h
  <2>2. ~ fresh.table[s][Paging!PageOf(ArgAddress)].valid
    BY <1>8, <1>13
  <2> HIDE DEF kernel
  <2> QED
    BY <1>6, <1>11, <1>13, <2>1, <2>2, KernelWriteKeeps DEF lost
<1> HIDE DEF kernel
<1>15. Paging!Agree(vm)'
  BY SMTT(30), <1>1, <1>14 DEF Paging!Agree, Paging!Mapped, Paging!FrameOf
<1>16. OnlyRunningMapped'
  <2>1. \A x \in Paging!Mapped(h) : x[1] \in running \cup {s}
    BY <1>10, <1>14 DEF PagingInv, OnlyRunningMapped
  <2> QED
    BY <1>1, <2>1 DEF OnlyRunningMapped, Paging!Mapped
<1>17. /\ meant' \in [Spaces -> [Paging!Addresses -> Bytes]]
       /\ \A t \in Spaces : t # s => meant'[t] = meant[t]
       /\ \A a \in Paging!Addresses : meant'[s][a] = IF a = ArgAddress THEN kernel ELSE Paging!Image(a)
  <2> DEFINE new == [a \in Paging!Addresses |-> IF a = ArgAddress THEN "kernel" ELSE Paging!Image(a)]
  <2>1. \A a \in Paging!Addresses : Paging!Image(a) \in Bytes
    BY DEF Paging!Image, Bytes
  <2>2. new \in [Paging!Addresses -> Bytes]
    BY <1>13, <2>1
  <2>3. \A a \in Paging!Addresses : new[a] = IF a = ArgAddress THEN kernel ELSE Paging!Image(a)
    BY DEF kernel
  <2>4. meant' = [meant EXCEPT ![s] = new]
    BY <1>1
  <2> HIDE DEF new
  <2>5. meant \in [Spaces -> [Paging!Addresses -> Bytes]]
    BY DEF PagingInv
  <2> QED
    BY <2>2, <2>3, <2>4, <2>5
<1>18. Paging!MemoryKept'
  <2>1. ASSUME NEW t \in running', NEW a \in Paging!Addresses, <<t, Paging!PageOf(a)>> \notin forgotten'
        PROVE  Paging!View(h, t, a) = meant'[t][a]
    <3>1. t \in Spaces /\ <<t, Paging!PageOf(a)>> \notin lost
      BY <1>1, <2>1 DEF PagingInv
    <3>2. Paging!View(h, t, a) = IF t = s /\ a = ArgAddress THEN kernel ELSE Paging!View(fresh, t, a)
      BY <1>14, <3>1
    <3>3. CASE t = s
      BY <1>12, <1>17, <3>2, <3>3
    <3>4. CASE t # s
      <4>1. t \in running /\ <<t, Paging!PageOf(a)>> \notin forgotten
        BY <1>1, <2>1, <3>4
      <4>2. Paging!View(vm, t, a) = meant[t][a]
        BY <4>1 DEF PagingInv, Paging!MemoryKept
      <4> QED
        BY <1>12, <1>17, <3>1, <3>2, <3>4, <4>2
    <3> QED
      BY <3>3, <3>4
  <2> QED
    BY <1>1, <2>1 DEF Paging!MemoryKept, Paging!View
<1> QED
  BY <1>1, <1>14, <1>15, <1>16, <1>17, <1>18 DEF PagingInv

LEMMA ExitsStep ==
    ASSUME Paging!MemoryAssumption, PagingInv, NEW s \in Spaces, Paging!Exits(s)
    PROVE  PagingInv'
<1> DEFINE none == [p \in Paging!Pages |-> Paging!NoEntry]
           held == Paging!Held(s)
           rest == Paging!Without(vm.lru, held)
<1>1. /\ s \in running /\ running' = running \ {s} /\ forgotten' = forgotten /\ meant' = meant
      /\ vm' = [vm EXCEPT !.usedFrames = @ \ held, !.lru = rest, !.table[s] = none]
  BY DEF Paging!Exits
<1>2. none \in [Paging!Pages -> Entries] /\ \A p \in Paging!Pages : ~ none[p].valid
  BY DEF Paging!NoEntry, Entries
<1>3. vm \in Memories /\ Paging!Agree(vm)
  BY DEF PagingInv
<1>4. rest \in Seq(Paging!Frames) /\ Paging!IsInjective(rest)
      /\ Paging!ToSet(rest) = vm.usedFrames \ held
  <2>1. vm.lru \in Seq(Paging!Frames) /\ Paging!IsInjective(vm.lru)
        /\ Paging!ToSet(vm.lru) = vm.usedFrames
    BY <1>3 DEF Memories, Paging!Agree
  <2> QED
    BY <2>1, WithoutProperties
<1>5. held = {Paging!FrameOf(vm, x) : x \in {y \in Paging!Mapped(vm) : y[1] = s}}
  <2>1. \A g \in held : \E x \in Paging!Mapped(vm) : x[1] = s /\ Paging!FrameOf(vm, x) = g
    <3>1. SUFFICES ASSUME NEW g \in held PROVE \E x \in Paging!Mapped(vm) : x[1] = s /\ Paging!FrameOf(vm, x) = g
      OBVIOUS
    <3>2. PICK p \in Paging!Pages : vm.table[s][p].valid /\ vm.table[s][p].physicalPage = g
      BY DEF Paging!Held
    <3>3. <<s, p>> \in Paging!Mapped(vm) /\ Paging!FrameOf(vm, <<s, p>>) = g
      BY <3>2 DEF Paging!Mapped, Paging!FrameOf
    <3> QED
      BY <3>3
  <2>2. \A x \in Paging!Mapped(vm) : x[1] = s => Paging!FrameOf(vm, x) \in held
    BY DEF Paging!Mapped, Paging!FrameOf, Paging!Held
  <2> QED
    BY <2>1, <2>2
<1> HIDE DEF none, held, rest
<1>6. /\ vm'.table = [vm.table EXCEPT ![s] = none] /\ vm'.lru = rest
      /\ vm'.usedFrames = vm.usedFrames \ held /\ vm'.swapMap = vm.swapMap
      /\ vm'.swapFile = vm.swapFile /\ vm'.mainMemory = vm.mainMemory /\ vm'.owner = vm.owner
  BY <1>1, <1>3 DEF Memories
<1>7. vm' \in Memories
  <2>1. vm'.table \in [Spaces -> [Paging!Pages -> Entries]]
    BY <1>2, <1>3, <1>6 DEF Memories
  <2>2. vm' = [vm EXCEPT !.usedFrames = vm.usedFrames \ held, !.lru = rest, !.table = vm'.table]
    BY <1>1, <1>3, <1>6 DEF Memories
  <2> QED
    BY <1>3, <1>4, <2>1, <2>2 DEF Memories
<1>8. \A t \in Spaces : \A p \in Paging!Pages :
         /\ t = s => ~ vm'.table[t][p].valid
         /\ t # s => vm'.table[t][p] = vm.table[t][p]
  BY <1>2, <1>3, <1>6 DEF Memories
<1> DEFINE others == {x \in Paging!Mapped(vm) : x[1] # s}
           n == vm'
<1> HIDE DEF n
<1>9. /\ Paging!Mapped(n) = others
      /\ \A x \in others : Paging!FrameOf(n, x) = Paging!FrameOf(vm, x)
  BY <1>8 DEF Paging!Mapped, Paging!FrameOf, n
<1>10. Paging!Agree(n)
  <2>1. \A x \in others : n.owner[Paging!FrameOf(n, x)] = x[1]
    BY <1>3, <1>6, <1>9 DEF Paging!Agree, n
  <2>2. \A x, y \in others : Paging!FrameOf(n, x) = Paging!FrameOf(n, y) => x = y
    BY <1>3, <1>9 DEF Paging!Agree
  <2>3. n.usedFrames = {Paging!FrameOf(n, x) : x \in others}
    <3>1. vm.usedFrames = {Paging!FrameOf(vm, x) : x \in Paging!Mapped(vm)}
      BY <1>3 DEF Paging!Agree
    <3>2. \A g \in n.usedFrames : \E x \in others : Paging!FrameOf(n, x) = g
      BY <1>5, <1>6, <1>9, <3>1 DEF n
    <3>3. \A x \in others : Paging!FrameOf(vm, x) \in vm.usedFrames /\ Paging!FrameOf(vm, x) \notin held
      BY <1>3, <1>5, <3>1 DEF Paging!Agree
    <3>4. \A x \in others : Paging!FrameOf(n, x) \in n.usedFrames
      BY <1>6, <1>9, <3>3 DEF n
    <3> QED
      BY <3>2, <3>4
  <2>4. Paging!IsInjective(n.lru) /\ Paging!ToSet(n.lru) = n.usedFrames
    BY <1>4, <1>6 DEF n
  <2> QED
    BY <1>9, <2>1, <2>2, <2>3, <2>4 DEF Paging!Agree
<1>11. Paging!Agree(vm)'
  BY <1>10 DEF Paging!Agree, Paging!Mapped, Paging!FrameOf, n
<1>12. OnlyRunningMapped'
  <2>1. \A x \in Paging!Mapped(n) : x[1] \in running \ {s}
    BY <1>9 DEF PagingInv, OnlyRunningMapped
  <2> QED
    BY <1>1, <2>1 DEF OnlyRunningMapped, Paging!Mapped, n
<1>13. Paging!MemoryKept'
  <2>1. ASSUME NEW t \in running', NEW a \in Paging!Addresses, <<t, Paging!PageOf(a)>> \notin forgotten'
        PROVE  Paging!View(n, t, a) = meant'[t][a]
    <3>1. t \in Spaces /\ t \in running /\ t # s /\ <<t, Paging!PageOf(a)>> \notin forgotten
      BY <1>1, <2>1 DEF PagingInv
    <3>2. n.table[t][Paging!PageOf(a)] = vm.table[t][Paging!PageOf(a)]
      BY <1>8, <3>1, AddressParts DEF n
    <3>3. Paging!View(n, t, a) = Paging!View(vm, t, a)
      BY <1>6, <3>2 DEF Paging!View, n
    <3> QED
      BY <1>1, <3>1, <3>3 DEF PagingInv, Paging!MemoryKept
  <2> QED
    BY <2>1 DEF Paging!MemoryKept, Paging!View, n
<1> QED
  BY <1>1, <1>7, <1>11, <1>12, <1>13 DEF PagingInv

LEMMA PagingStep ==
    ASSUME Paging!MemoryAssumption, PagingInv, Paging!Next \/ UNCHANGED Paging!vars
    PROVE  PagingInv'
<1>1. CASE UNCHANGED Paging!vars
  <2>1. vm' = vm /\ running' = running /\ meant' = meant /\ forgotten' = forgotten
    BY <1>1 DEF Paging!vars
  <2>2. Paging!Agree(vm)'
    <3>1. Paging!Agree(vm)
      BY DEF PagingInv
    <3> QED
      BY SMTT(30), <2>1, <3>1 DEF Paging!Agree, Paging!Mapped, Paging!FrameOf
  <2>3. OnlyRunningMapped'
    BY <2>1 DEF PagingInv, OnlyRunningMapped, Paging!Mapped
  <2>4. Paging!MemoryKept'
    BY <2>1 DEF PagingInv, Paging!MemoryKept, Paging!View
  <2> QED
    BY <2>1, <2>2, <2>3, <2>4 DEF PagingInv
<1>2. CASE Paging!Next
  <2>1. PICK s \in Spaces :
          \/ Paging!Run(s) \/ Paging!Exits(s)
          \/ \E p \in Paging!Pages : Paging!UserFaults(s, p)
          \/ \E a \in Written : Paging!UserWrites(s, a) \/ Paging!SyscallWrites(s, a)
    BY <1>2 DEF Paging!Next
  <2>2. \A a \in Written : a \in Paging!Addresses /\ "user" \in Bytes /\ "kernel" \in Bytes
    BY DEF Paging!MemoryAssumption, Paging!Addresses, Bytes
  <2>3. ASSUME NEW a \in Written, Paging!UserWrites(s, a) PROVE PagingInv'
    <3> DEFINE user == "user"
               yes == TRUE
    <3>1. /\ s \in running /\ vm.table[s][Paging!PageOf(a)].valid
          /\ vm' = Paging!Store(vm, s, a, yes, user)
          /\ meant' = [meant EXCEPT ![s][a] = user]
          /\ UNCHANGED <<running, programs, forgotten>>
      BY <2>3 DEF Paging!UserWrites, Paging!Valid
    <3>2. user \in Bytes /\ yes \in BOOLEAN
      BY <2>2
    <3> HIDE DEF user, yes
    <3> DEFINE h == Paging!Store(vm, s, a, yes, user)
    <3>3. /\ h \in Memories /\ Paging!Agree(h) /\ Paging!Mapped(h) = Paging!Mapped(vm)
          /\ \A t \in Spaces : \A b \in Paging!Addresses :
               Paging!View(h, t, b) = IF t = s /\ b = a THEN user ELSE Paging!View(vm, t, b)
      BY <2>2, <3>1, <3>2, StoreKeeps DEF PagingInv
    <3> HIDE DEF h
    <3>4. vm' = h /\ forgotten' = forgotten \cup {} /\ a \in Paging!Addresses
      BY <2>2, <3>1 DEF h
    <3>5. ByteWritten(h, s, a, user, {})
      BY <3>3 DEF ByteWritten
    <3> QED
      BY <3>1, <3>2, <3>4, <3>5, WriteStep
  <2>4. ASSUME NEW a \in Written, Paging!SyscallWrites(s, a) PROVE PagingInv'
    <3> DEFINE kernel == "kernel"
               lost == IF vm.table[s][Paging!PageOf(a)].valid THEN {}
                       ELSE Paging!Forgets(vm, s, Paging!PageOf(a))
    <3>1. /\ s \in running /\ vm' = Paging!KernelWrite(vm, s, a, kernel)
          /\ meant' = [meant EXCEPT ![s][a] = kernel]
          /\ forgotten' = forgotten \cup lost /\ UNCHANGED running
      BY <2>4 DEF Paging!SyscallWrites, Paging!Valid
    <3>2. kernel \in Bytes
      BY <2>2
    <3> HIDE DEF kernel
    <3> DEFINE h == Paging!KernelWrite(vm, s, a, kernel)
    <3>3. /\ h \in Memories /\ Paging!Agree(h)
          /\ Paging!Mapped(h) \subseteq Paging!Mapped(vm) \cup {<<s, Paging!PageOf(a)>>}
          /\ \A t \in Spaces : \A b \in Paging!Addresses :
               <<t, Paging!PageOf(b)>> \notin lost =>
                  Paging!View(h, t, b) = IF t = s /\ b = a THEN kernel ELSE Paging!View(vm, t, b)
      BY <2>2, <3>2, KernelWriteKeeps DEF PagingInv
    <3> HIDE DEF h, lost
    <3>4. vm' = h /\ a \in Paging!Addresses
      BY <2>2, <3>1 DEF h
    <3>5. ByteWritten(h, s, a, kernel, lost)
      BY <3>3 DEF ByteWritten
    <3> QED
      BY <3>1, <3>2, <3>4, <3>5, WriteStep
  <2>5. ASSUME NEW p \in Paging!Pages, Paging!UserFaults(s, p) PROVE PagingInv'
    BY <2>5, FaultStep
  <2> QED
    BY <2>1, <2>3, <2>4, <2>5, RunStep, ExitsStep
<1> QED
  BY <1>1, <1>2

-----------------------------------------------------------------------------
(* Threads that read and write one file.                                   *)

\* A byte is in a sector, at an offset of it, and the two tell it.
LEMMA ByteParts ==
    ASSUME Opened!OpenFileAssumption, NEW b \in Nat
    PROVE  /\ Opened!divRoundDown(b) \in Nat /\ b % SectorSize \in Opened!Offsets
           /\ b = Opened!divRoundDown(b) * SectorSize + (b % SectorSize)
<1>1. SectorSize \in Nat \ {0}
  BY DEF Opened!OpenFileAssumption
<1> DEFINE q == b \div SectorSize
           r == b % SectorSize
<1>2. q \in Int /\ r \in 0..(SectorSize - 1) /\ b = SectorSize * q + r
  BY <1>1
<1> HIDE DEF q, r
<1>3. ~ (q <= -1)
  <2>1. SUFFICES ASSUME q <= -1 PROVE FALSE
    OBVIOUS
  <2>2. SectorSize * q <= SectorSize * (-1)
    BY <1>1, <1>2, <2>1
  <2> QED
    BY <1>1, <1>2, <2>2
<1>4. q \in Nat
  BY <1>2, <1>3
<1>5. q * SectorSize = SectorSize * q
  BY <1>1, <1>2
<1>6. q = Opened!divRoundDown(b) /\ r = b % SectorSize
  BY DEF q, r, Opened!divRoundDown
<1>7. r \in Opened!Offsets
  BY <1>2 DEF Opened!Offsets
<1> QED
  BY <1>2, <1>4, <1>5, <1>6, <1>7

\* Sectors come in the order of their bytes.
LEMMA SectorOrder ==
    ASSUME Opened!OpenFileAssumption, NEW a \in Nat, NEW b \in Nat, a <= b
    PROVE  Opened!divRoundDown(a) <= Opened!divRoundDown(b)
<1> DEFINE q == Opened!divRoundDown(a)
           p == Opened!divRoundDown(b)
           r == a % SectorSize
           u == b % SectorSize
<1>1. SectorSize \in Nat \ {0}
  BY DEF Opened!OpenFileAssumption
<1>2. q \in Nat /\ r \in 0..(SectorSize - 1) /\ a = q * SectorSize + r
  BY ByteParts DEF Opened!Offsets
<1>3. p \in Nat /\ u \in 0..(SectorSize - 1) /\ b = p * SectorSize + u
  BY ByteParts DEF Opened!Offsets
<1> HIDE DEF q, p, r, u
<1>4. SUFFICES ASSUME p + 1 <= q PROVE FALSE
  BY <1>2, <1>3 DEF q, p
<1>5. (p + 1) * SectorSize <= q * SectorSize
  BY <1>1, <1>2, <1>3, <1>4
<1>6. (p + 1) * SectorSize = p * SectorSize + SectorSize
  BY <1>1, <1>3
<1>7. p * SectorSize \in Int /\ q * SectorSize \in Int
  BY <1>1, <1>2, <1>3
<1> QED
  BY <1>1, <1>2, <1>3, <1>5, <1>6, <1>7

\* The byte at an offset of a sector is in that sector at that offset.
LEMMA ByteAt ==
    ASSUME Opened!OpenFileAssumption, NEW s \in Nat, NEW o \in Opened!Offsets
    PROVE  /\ s * SectorSize + o \in Nat
           /\ Opened!divRoundDown(s * SectorSize + o) = s
           /\ (s * SectorSize + o) % SectorSize = o
<1>1. SectorSize \in Nat \ {0} /\ o \in 0..(SectorSize - 1)
  BY DEF Opened!OpenFileAssumption, Opened!Offsets
<1> DEFINE b == s * SectorSize + o
           q == Opened!divRoundDown(b)
           r == b % SectorSize
<1>2. b \in Nat
  <2>1. s * SectorSize \in Nat
    BY <1>1
  <2> QED
    BY <1>1, <2>1
<1>3. q \in Nat /\ r \in 0..(SectorSize - 1) /\ b = q * SectorSize + r
  BY <1>2, ByteParts DEF Opened!Offsets
<1> HIDE DEF q, r
<1>4. s * SectorSize \in Int /\ q * SectorSize \in Int
  BY <1>1, <1>3
<1>5. ~ (q + 1 <= s)
  <2>1. SUFFICES ASSUME q + 1 <= s PROVE FALSE
    OBVIOUS
  <2>2. (q + 1) * SectorSize <= s * SectorSize /\ (q + 1) * SectorSize = q * SectorSize + SectorSize
    BY <1>1, <1>3, <2>1
  <2> QED
    BY <1>1, <1>3, <1>4, <2>2
<1>6. ~ (s + 1 <= q)
  <2>1. SUFFICES ASSUME s + 1 <= q PROVE FALSE
    OBVIOUS
  <2>2. (s + 1) * SectorSize <= q * SectorSize /\ (s + 1) * SectorSize = s * SectorSize + SectorSize
    BY <1>1, <1>3, <2>1
  <2> QED
    BY <1>1, <1>3, <1>4, <2>2
<1>7. q = s
  BY <1>3, <1>5, <1>6
<1>8. r = o
  BY <1>1, <1>3, <1>4, <1>7
<1> QED
  BY <1>2, <1>7, <1>8 DEF q, r

\* The sectors of a request inside the file.
LEMMA RequestSectors ==
    ASSUME Opened!OpenFileAssumption, NEW pos \in Nat, NEW n \in Nat \ {0}, pos + n <= fileLength
    PROVE  /\ Opened!Range(pos, n) \subseteq Opened!Sectors
           /\ \A b \in pos .. pos + n - 1 :
                b \in Opened!Bytes /\ Opened!divRoundDown(b) \in Opened!Range(pos, n)
<1>1. fileLength \in Nat /\ pos + n - 1 \in Nat /\ fileLength - 1 \in Nat /\ pos + n - 1 <= fileLength - 1
  BY DEF Opened!OpenFileAssumption
<1>2. /\ Opened!divRoundDown(pos) \in Nat /\ Opened!divRoundDown(pos + n - 1) \in Nat
      /\ Opened!divRoundDown(fileLength - 1) \in Nat
      /\ Opened!divRoundDown(pos + n - 1) <= Opened!divRoundDown(fileLength - 1)
  BY <1>1, ByteParts, SectorOrder
<1>3. Opened!Range(pos, n) \subseteq Opened!Sectors
  BY <1>2 DEF Opened!Range, Opened!Sectors
<1>4. ASSUME NEW b \in pos .. pos + n - 1
      PROVE  b \in Opened!Bytes /\ Opened!divRoundDown(b) \in Opened!Range(pos, n)
  <2>1. b \in Nat /\ pos <= b /\ b <= pos + n - 1
    BY <1>1
  <2>2. Opened!divRoundDown(b) \in Nat /\ Opened!divRoundDown(pos) <= Opened!divRoundDown(b)
        /\ Opened!divRoundDown(b) <= Opened!divRoundDown(pos + n - 1)
    BY <1>1, <2>1, ByteParts, SectorOrder
  <2>3. b \in Opened!Bytes
    BY <1>1, <2>1 DEF Opened!Bytes
  <2> QED
    BY <1>2, <2>2, <2>3 DEF Opened!Range
<1> QED
  BY <1>3, <1>4

\* A byte of the file is in one of its sectors.
LEMMA ByteOfFile ==
    ASSUME Opened!OpenFileAssumption, NEW b \in Opened!Bytes
    PROVE  /\ b \in Nat /\ b < fileLength
           /\ Opened!divRoundDown(b) \in Opened!Sectors /\ Opened!divRoundDown(b) \in Nat
           /\ b % SectorSize \in Opened!Offsets
           /\ b = Opened!divRoundDown(b) * SectorSize + (b % SectorSize)
<1>1. b \in Nat /\ b < fileLength /\ fileLength - 1 \in Nat /\ b <= fileLength - 1
  BY DEF Opened!OpenFileAssumption, Opened!Bytes
<1>2. Opened!divRoundDown(b) <= Opened!divRoundDown(fileLength - 1)
      /\ Opened!divRoundDown(fileLength - 1) \in Nat
  BY <1>1, SectorOrder, ByteParts
<1>3. /\ Opened!divRoundDown(b) \in Nat /\ b % SectorSize \in Opened!Offsets
      /\ b = Opened!divRoundDown(b) * SectorSize + (b % SectorSize)
  BY <1>1, ByteParts
<1>4. Opened!divRoundDown(b) \in Opened!Sectors
  BY <1>2, <1>3 DEF Opened!Sectors
<1> QED
  BY <1>1, <1>3, <1>4

\* A write covers every byte of a sector that it does not read first.
LEMMA CoversTheRest ==
    ASSUME Opened!OpenFileAssumption,
           NEW c, c.pos \in Nat, c.n \in Nat \ {0}, c.pos + c.n <= fileLength,
           NEW b \in Opened!Bytes,
           Opened!divRoundDown(b) \in Opened!Range(c.pos, c.n),
           Opened!divRoundDown(b) \notin Opened!Partly(c)
    PROVE  b \in c.pos .. c.pos + c.n - 1
<1> DEFINE s == Opened!divRoundDown(b)
           o == b % SectorSize
           f == Opened!First(c)
           l == Opened!Last(c)
           pos == c.pos
           end == c.pos + c.n
<1>1. SectorSize \in Nat \ {0}
  BY DEF Opened!OpenFileAssumption
<1>2. s \in Nat /\ o \in 0..(SectorSize - 1) /\ b = s * SectorSize + o /\ b \in Nat
  BY ByteOfFile DEF Opened!Offsets
<1>3. pos \in Nat /\ end \in Nat /\ end - 1 \in Nat
  OBVIOUS
<1>4. f \in Nat /\ pos % SectorSize \in 0..(SectorSize - 1) /\ pos = f * SectorSize + (pos % SectorSize)
  BY <1>3, ByteParts DEF Opened!First, Opened!Offsets
<1>5. l \in Nat /\ (end - 1) % SectorSize \in 0..(SectorSize - 1)
      /\ end - 1 = l * SectorSize + ((end - 1) % SectorSize)
  BY <1>3, ByteParts DEF Opened!Last, Opened!Offsets
<1>6. s \in f..l
  BY DEF Opened!Range, Opened!First, Opened!Last
<1>7. /\ pos # f * SectorSize => s # f
      /\ end # (l + 1) * SectorSize /\ (f # l \/ pos = f * SectorSize) => s # l
  BY DEF Opened!Partly, Opened!firstAligned, Opened!lastAligned
<1> DEFINE x == pos % SectorSize
           y == (end - 1) % SectorSize
<1>8. x \in 0..(SectorSize - 1) /\ y \in 0..(SectorSize - 1)
      /\ pos = f * SectorSize + x /\ end - 1 = l * SectorSize + y
  BY <1>4, <1>5
<1> HIDE DEF s, o, f, l, pos, end, x, y
<1>9. b >= pos
  <2>1. CASE s = f
    BY <1>2, <1>3, <1>4, <1>1, <1>7, <2>1
  <2>2. CASE f + 1 <= s
    <3>1. (f + 1) * SectorSize <= s * SectorSize /\ (f + 1) * SectorSize = f * SectorSize + SectorSize
      BY <1>1, <1>2, <1>4, <2>2
    <3>2. f * SectorSize \in Int /\ s * SectorSize \in Int
      BY <1>1, <1>2, <1>4
    <3> QED
      BY <1>1, <1>2, <1>3, <1>8, <3>1, <3>2
  <2> QED
    BY <1>2, <1>4, <1>5, <1>6, <2>1, <2>2
<1>10. b <= end - 1
  <2>1. CASE s = l
    <3>1. end = (l + 1) * SectorSize
      <4>1. f # l => end = (l + 1) * SectorSize
        BY <1>7, <2>1
      <4>2. f = l => pos = f * SectorSize
        BY <1>7, <2>1
      <4> QED
        BY <1>7, <2>1, <4>1, <4>2
    <3>2. (l + 1) * SectorSize = l * SectorSize + SectorSize /\ l * SectorSize \in Int
      BY <1>1, <1>5
    <3> QED
      BY <1>1, <1>2, <1>3, <2>1, <3>1, <3>2
  <2>2. CASE s + 1 <= l
    <3>1. (s + 1) * SectorSize <= l * SectorSize /\ (s + 1) * SectorSize = s * SectorSize + SectorSize
      BY <1>1, <1>2, <1>5, <2>2
    <3>2. l * SectorSize \in Int /\ s * SectorSize \in Int
      BY <1>1, <1>2, <1>5
    <3> QED
      BY <1>1, <1>2, <1>3, <1>8, <3>1, <3>2
  <2> QED
    BY <1>2, <1>4, <1>5, <1>6, <2>1, <2>2
<1> QED
  BY <1>2, <1>3, <1>9, <1>10 DEF pos, end

\* What the disk and the buffers hold, and the requests of the threads.
Contents == FileUsers \cup {"old", "junk"}
Buffers == [Opened!Sectors -> [Opened!Offsets -> Contents]]
Requests == [op : {"idle", "read", "fill", "write"}, pos : Nat, n : Nat, buf : Buffers,
             todo : SUBSET Opened!Sectors, calm : BOOLEAN]
FileTypes ==
    /\ st \in [FileUsers -> Requests] /\ seekPosition \in [FileUsers -> Nat]
    /\ disk \in Buffers /\ meant \in [Opened!Bytes -> Contents]
    /\ \A t \in FileUsers :
          /\ st[t].n > 0 => st[t].pos + st[t].n <= fileLength
          /\ st[t].op # "idle" => st[t].n > 0
          /\ st[t].op = "idle" => st[t].todo = {}

\* The disk holds what is meant, where no two writes met.
DiskHolds == \A b \in Opened!Bytes : Opened!divRoundDown(b) \notin torn =>
                disk[Opened!divRoundDown(b)][b % SectorSize] = meant[b]

\* What a thread has in its buffer: of a sector that it has read, what the
\* file holds, and of one it is about to write, its own bytes over it.
Fetched(c, s) == \A b \in Opened!Bytes :
    Opened!divRoundDown(b) = s => c.buf[s][b % SectorSize] = meant[b]
Prepared(t, c, s) == \A b \in Opened!Bytes :
    Opened!divRoundDown(b) = s =>
       c.buf[s][b % SectorSize] = IF b \in c.pos .. c.pos + c.n - 1 THEN t ELSE meant[b]
ReadRight(c) ==
    c.op \in {"idle", "read"} /\ c.n > 0 /\ c.calm =>
       \A s \in Opened!Range(c.pos, c.n) \ (c.todo \cup torn) : Fetched(c, s)
FillRight(c) ==
    c.op = "fill" => /\ c.todo \subseteq Opened!Partly(c)
                     /\ \A s \in Opened!Partly(c) \ (c.todo \cup torn) : Fetched(c, s)
WriteRight(t, c) ==
    c.op = "write" => /\ c.todo \subseteq Opened!Range(c.pos, c.n)
                      /\ \A s \in c.todo \ torn : Prepared(t, c, s)
Right(t, c) == ReadRight(c) /\ FillRight(c) /\ WriteRight(t, c)

FileInv == FileTypes /\ DiskHolds /\ \A t \in FileUsers : Right(t, st[t])

LEMMA IdleRequest == Opened!Idle \in Requests /\ Opened!Idle.op = "idle" /\ Opened!Idle.n = 0
                     /\ Opened!Idle.todo = {}
<1>1. Opened!Junk \in Buffers
  BY DEF Opened!Junk, Buffers, Contents
<1> QED
  BY <1>1 DEF Opened!Idle, Requests

LEMMA InitFile == ASSUME Opened!OpenFileAssumption, Opened!Init PROVE FileInv
<1>1. /\ st = [t \in FileUsers |-> Opened!Idle] /\ seekPosition = [t \in FileUsers |-> 0]
      /\ disk = [s \in Opened!Sectors |-> Opened!Blank] /\ meant = [b \in Opened!Bytes |-> "old"]
  BY DEF Opened!Init
<1>2. disk \in Buffers /\ meant \in [Opened!Bytes -> Contents]
  BY <1>1 DEF Opened!Blank, Buffers, Contents
<1>3. FileTypes
  BY <1>1, <1>2, IdleRequest DEF FileTypes
<1>4. DiskHolds
  BY <1>1, ByteOfFile DEF DiskHolds, Opened!Blank
<1>5. ASSUME NEW t \in FileUsers PROVE Right(t, st[t])
  BY <1>1, IdleRequest DEF Right, ReadRight, FillRight, WriteRight
<1> QED
  BY <1>3, <1>4, <1>5 DEF FileInv

LEMMA FileInvKeeps == ASSUME Opened!OpenFileAssumption, FileInv PROVE Opened!FileKept
<1>1. ASSUME NEW t \in FileUsers, st[t].op = "idle", st[t].n > 0, st[t].calm,
             NEW b \in st[t].pos .. st[t].pos + st[t].n - 1
      PROVE  Opened!divRoundDown(b) \in torn
             \/ st[t].buf[Opened!divRoundDown(b)][b % SectorSize] = meant[b]
  <2> DEFINE c == st[t]
             s == Opened!divRoundDown(b)
  <2>1. /\ c.pos \in Nat /\ c.n \in Nat \ {0} /\ c.pos + c.n <= fileLength /\ c.todo = {}
        /\ ReadRight(c)
    BY <1>1 DEF FileInv, FileTypes, Requests, Right
  <2>2. b \in Opened!Bytes /\ s \in Opened!Range(c.pos, c.n)
    BY <1>1, <2>1, RequestSectors
  <2>3. s \in torn \/ Fetched(c, s)
    BY <1>1, <2>1, <2>2 DEF ReadRight
  <2> QED
    BY <2>2, <2>3 DEF Fetched
<1> QED
  BY <1>1 DEF FileInv, DiskHolds, Opened!FileKept

\* A step of one thread that leaves the disk alone.
LEMMA QuietStep ==
    ASSUME FileInv, NEW t \in FileUsers, NEW c \in Requests,
           st' = [st EXCEPT ![t] = c],
           c.n > 0 => c.pos + c.n <= fileLength,
           c.op # "idle" => c.n > 0, c.op = "idle" => c.todo = {},
           seekPosition' \in [FileUsers -> Nat],
           UNCHANGED <<disk, meant, torn>>, Right(t, c)
    PROVE  FileInv'
<1>1. st' \in [FileUsers -> Requests] /\ \A u \in FileUsers : st'[u] = IF u = t THEN c ELSE st[u]
  BY DEF FileInv, FileTypes
<1>2. FileTypes'
  BY <1>1 DEF FileInv, FileTypes
<1>3. DiskHolds'
  BY DEF FileInv, DiskHolds
<1>4. ASSUME NEW u \in FileUsers PROVE Right(u, st[u])'
  <2>1. Right(u, st'[u])
    BY <1>1 DEF FileInv
  <2> QED
    BY <2>1 DEF Right, ReadRight, FillRight, WriteRight, Fetched, Prepared
<1> QED
  BY <1>2, <1>3, <1>4 DEF FileInv

\* The first sector of a request that is not finished is one of its sectors.
LEMMA NextIsTodo ==
    ASSUME Opened!OpenFileAssumption, NEW t, st[t].todo \in SUBSET Opened!Sectors, st[t].todo # {}
    PROVE  Opened!NextSector(t) \in st[t].todo
<1>1. st[t].todo \in SUBSET Nat
  BY DEF Opened!Sectors
<1>2. \E s \in st[t].todo : \A r \in st[t].todo : s <= r
  BY <1>1, LeastNatural
<1> QED
  BY <1>2 DEF Opened!NextSector

\* What is left of a request lies in the file.
LEMMA CutInside ==
    ASSUME Opened!OpenFileAssumption, NEW pos \in Nat, NEW n \in Nat, Opened!Cut(pos, n) > 0
    PROVE  Opened!Cut(pos, n) \in Nat \ {0} /\ pos + Opened!Cut(pos, n) <= fileLength
BY DEF Opened!Cut, Opened!OpenFileAssumption

\* The sectors that a write reads are of those it writes.
LEMMA PartlyInRange ==
    ASSUME Opened!OpenFileAssumption, NEW c, c.pos \in Nat, c.n \in Nat \ {0}
    PROVE  Opened!Partly(c) \subseteq Opened!Range(c.pos, c.n)
<1>1. c.pos + c.n - 1 \in Nat /\ c.pos <= c.pos + c.n - 1
  OBVIOUS
<1>2. /\ Opened!First(c) \in Nat /\ Opened!Last(c) \in Nat /\ Opened!First(c) <= Opened!Last(c)
  BY <1>1, ByteParts, SectorOrder DEF Opened!First, Opened!Last
<1>3. Opened!Range(c.pos, c.n) = Opened!First(c) .. Opened!Last(c)
  BY DEF Opened!Range, Opened!First, Opened!Last
<1>4. Opened!Partly(c) \subseteq {Opened!First(c), Opened!Last(c)}
  BY DEF Opened!Partly
<1> QED
  BY <1>2, <1>3, <1>4

\* Whether a write covers a byte.
LEMMA CoversByte ==
    ASSUME Opened!OpenFileAssumption, NEW c, NEW b \in Opened!Bytes
    PROVE  Opened!Covers(c, Opened!divRoundDown(b), b % SectorSize) <=> b \in c.pos .. c.pos + c.n - 1
BY ByteOfFile DEF Opened!Covers

LEMMA SeekStep ==
    ASSUME Opened!OpenFileAssumption, FileInv, NEW t \in FileUsers, NEW pos \in Opened!Bytes,
           Opened!Seek(t, pos)
    PROVE  FileInv'
<1> DEFINE c == Opened!Idle
<1>1. st' = [st EXCEPT ![t] = c] /\ seekPosition' = [seekPosition EXCEPT ![t] = pos]
      /\ UNCHANGED <<disk, meant, torn>>
  BY DEF Opened!Seek
<1>2. c \in Requests /\ c.op = "idle" /\ c.n = 0 /\ c.todo = {}
  BY IdleRequest
<1> HIDE DEF c
<1>3. seekPosition' \in [FileUsers -> Nat]
  BY <1>1, ByteOfFile DEF FileInv, FileTypes
<1>4. Right(t, c)
  BY <1>2 DEF Right, ReadRight, FillRight, WriteRight
<1>5. ~ (c.n > 0) /\ ~ (c.op # "idle")
  BY <1>2
<1> QED
  BY <1>1, <1>2, <1>3, <1>4, <1>5, QuietStep

LEMMA WriteEndsStep ==
    ASSUME Opened!OpenFileAssumption, FileInv, NEW t \in FileUsers, Opened!WriteEnds(t)
    PROVE  FileInv'
<1> DEFINE c == Opened!Idle
<1>1. st' = [st EXCEPT ![t] = c] /\ seekPosition' = [seekPosition EXCEPT ![t] = @ + st[t].n]
      /\ UNCHANGED <<disk, meant, torn>>
  BY DEF Opened!WriteEnds
<1>2. c \in Requests /\ c.op = "idle" /\ c.n = 0 /\ c.todo = {}
  BY IdleRequest
<1> HIDE DEF c
<1>3. seekPosition' \in [FileUsers -> Nat]
  BY <1>1 DEF FileInv, FileTypes, Requests
<1>4. Right(t, c)
  BY <1>2 DEF Right, ReadRight, FillRight, WriteRight
<1>5. ~ (c.n > 0) /\ ~ (c.op # "idle")
  BY <1>2
<1> QED
  BY <1>1, <1>2, <1>3, <1>4, <1>5, QuietStep

LEMMA ReadStep ==
    ASSUME Opened!OpenFileAssumption, FileInv, NEW t \in FileUsers, NEW n \in Nat, Opened!Read(t, n)
    PROVE  FileInv'
<1> DEFINE pos == seekPosition[t]
           cut == Opened!Cut(pos, n)
           range == Opened!Range(pos, cut)
           c == [Opened!Idle EXCEPT !.op = "read", !.pos = pos, !.n = cut, !.todo = range]
<1>1. cut > 0 /\ st' = [st EXCEPT ![t] = c] /\ UNCHANGED <<seekPosition, disk, meant, torn>>
  BY DEF Opened!Read, Opened!Idle
<1>2. pos \in Nat /\ seekPosition \in [FileUsers -> Nat]
  BY DEF FileInv, FileTypes
<1> HIDE DEF pos
<1>3. cut \in Nat \ {0} /\ pos + cut <= fileLength
  BY <1>1, <1>2, CutInside
<1> HIDE DEF cut
<1>4. range \subseteq Opened!Sectors
  BY <1>2, <1>3, RequestSectors
<1>5. c.op = "read" /\ c.pos = pos /\ c.n = cut /\ c.todo = Opened!Range(c.pos, c.n)
  BY DEF Opened!Idle
<1>6. c \in Requests
  BY <1>2, <1>3, <1>4, IdleRequest DEF Requests
<1> HIDE DEF c
<1>7. Right(t, c)
  BY <1>5 DEF Right, ReadRight, FillRight, WriteRight
<1> QED
  BY <1>1, <1>2, <1>3, <1>5, <1>6, <1>7, QuietStep

LEMMA WriteStarts ==
    ASSUME Opened!OpenFileAssumption, FileInv, NEW t \in FileUsers, NEW n \in Nat, Opened!Write(t, n)
    PROVE  FileInv'
<1> DEFINE pos == seekPosition[t]
           cut == Opened!Cut(pos, n)
           r == [Opened!Idle EXCEPT !.op = "fill", !.pos = pos, !.n = cut]
           partly == Opened!Partly(r)
           c == [r EXCEPT !.todo = partly]
<1>1. cut > 0 /\ st' = [st EXCEPT ![t] = c] /\ UNCHANGED <<seekPosition, disk, meant, torn>>
  BY DEF Opened!Write
<1>2. pos \in Nat /\ seekPosition \in [FileUsers -> Nat]
  BY DEF FileInv, FileTypes
<1> HIDE DEF pos
<1>3. cut \in Nat \ {0} /\ pos + cut <= fileLength
  BY <1>1, <1>2, CutInside
<1> HIDE DEF cut
<1>4. r.op = "fill" /\ r.pos = pos /\ r.n = cut /\ r \in Requests
  BY <1>2, <1>3, IdleRequest DEF Opened!Idle, Requests
<1> HIDE DEF r
<1>5. partly \subseteq Opened!Sectors
  <2>1. partly \subseteq Opened!Range(r.pos, r.n)
    BY <1>2, <1>3, <1>4, PartlyInRange
  <2> QED
    BY <1>2, <1>3, <1>4, <2>1, RequestSectors
<1>6. c.op = "fill" /\ c.pos = pos /\ c.n = cut /\ c.todo = partly /\ c \in Requests
  BY <1>4, <1>5 DEF Requests
<1>7. Opened!Partly(c) = c.todo
  BY <1>4, <1>6 DEF Opened!Partly, Opened!First, Opened!Last, Opened!firstAligned, Opened!lastAligned
<1> HIDE DEF c
<1>8. Right(t, c)
  BY <1>6, <1>7 DEF Right, ReadRight, FillRight, WriteRight
<1> QED
  BY <1>1, <1>2, <1>3, <1>6, <1>8, QuietStep

LEMMA ReadEndsStep ==
    ASSUME Opened!OpenFileAssumption, FileInv, NEW t \in FileUsers, Opened!ReadEnds(t)
    PROVE  FileInv'
<1> DEFINE r == st[t]
           c == [r EXCEPT !.op = "idle"]
<1>1. r.op = "read" /\ r.todo = {} /\ st' = [st EXCEPT ![t] = c]
      /\ seekPosition' = [seekPosition EXCEPT ![t] = @ + r.n] /\ UNCHANGED <<disk, meant, torn>>
  BY DEF Opened!ReadEnds
<1>2. r \in Requests /\ (r.n > 0 => r.pos + r.n <= fileLength) /\ ReadRight(r)
  BY DEF FileInv, FileTypes, Right
<1> HIDE DEF r
<1>3. /\ c \in Requests /\ c.op = "idle" /\ c.pos = r.pos /\ c.n = r.n /\ c.todo = r.todo
      /\ c.buf = r.buf /\ c.calm = r.calm
  BY <1>2 DEF Requests
<1> HIDE DEF c
<1>4. seekPosition' \in [FileUsers -> Nat]
  BY <1>1, <1>2 DEF FileInv, FileTypes, Requests
<1>5. Right(t, c)
  BY <1>1, <1>2, <1>3 DEF Right, ReadRight, FillRight, WriteRight, Fetched
<1> QED
  BY <1>1, <1>2, <1>3, <1>4, <1>5, QuietStep

\* A sector is read: it comes as it is meant, if no two writes have met in it.
LEMMA ReadSectorStep ==
    ASSUME Opened!OpenFileAssumption, FileInv, NEW t \in FileUsers, Opened!ReadSector(t)
    PROVE  FileInv'
<1> DEFINE r == st[t]
           s == Opened!NextSector(t)
           page == [o \in Opened!Offsets |-> IF s * SectorSize + o < fileLength THEN disk[s][o]
                                             ELSE r.buf[s][o]]
           c == [r EXCEPT !.todo = @ \ {s}, !.buf[s] = page]
<1>1. r.op \in {"read", "fill"} /\ r.todo # {} /\ UNCHANGED <<seekPosition, disk, meant, torn>>
  BY DEF Opened!ReadSector
<1>2. /\ st \in [FileUsers -> Requests] /\ r \in Requests /\ r.n > 0 /\ r.pos + r.n <= fileLength
      /\ ReadRight(r) /\ FillRight(r) /\ DiskHolds /\ seekPosition \in [FileUsers -> Nat]
      /\ disk \in Buffers
  BY <1>1 DEF FileInv, FileTypes, Right
<1>3. s \in r.todo /\ s \in Opened!Sectors
  <2>1. r.todo \in SUBSET Opened!Sectors
    BY <1>2 DEF Requests
  <2> QED
    BY <1>1, <2>1, NextIsTodo
<1>4. st' = [st EXCEPT ![t] = c]
  BY <1>2 DEF Opened!ReadSector
<1>5. page \in [Opened!Offsets -> Contents]
  BY <1>2, <1>3 DEF Requests, Buffers
<1>6. \A b \in Opened!Bytes : Opened!divRoundDown(b) = s => page[b % SectorSize] = disk[s][b % SectorSize]
  BY ByteOfFile
<1> HIDE DEF r, s, page
<1>7. /\ c.op = r.op /\ c.pos = r.pos /\ c.n = r.n /\ c.calm = r.calm /\ c.todo = r.todo \ {s}
      /\ c.buf = [r.buf EXCEPT ![s] = page]
  BY <1>2 DEF Requests
<1>8. c \in Requests
  <2>1. c.buf \in Buffers /\ c.todo \in SUBSET Opened!Sectors
    BY <1>2, <1>3, <1>5, <1>7 DEF Requests, Buffers
  <2>2. c = [r EXCEPT !.todo = c.todo, !.buf = c.buf]
    BY <1>2, <1>7 DEF Requests
  <2> QED
    BY <1>2, <2>1, <2>2 DEF Requests
<1> HIDE DEF c
<1>9. s \notin torn => Fetched(c, s)
  <2>1. c.buf[s] = page
    BY <1>2, <1>3, <1>7 DEF Requests, Buffers
  <2> QED
    BY <1>2, <1>6, <2>1 DEF DiskHolds, Fetched
<1>10. \A u : u # s /\ Fetched(r, u) => Fetched(c, u)
  <2>1. \A u : u # s => c.buf[u] = r.buf[u]
    BY <1>2, <1>7 DEF Requests, Buffers
  <2> QED
    BY <2>1 DEF Fetched
<1>11. Opened!Partly(c) = Opened!Partly(r)
  BY <1>7 DEF Opened!Partly, Opened!First, Opened!Last, Opened!firstAligned, Opened!lastAligned
<1>12. Right(t, c)
  <2>1. ReadRight(c)
    BY <1>1, <1>2, <1>7, <1>9, <1>10 DEF ReadRight
  <2>2. FillRight(c)
    BY <1>1, <1>2, <1>7, <1>9, <1>10, <1>11 DEF FillRight
  <2>3. WriteRight(t, c)
    BY <1>1, <1>7 DEF WriteRight
  <2> QED
    BY <2>1, <2>2, <2>3 DEF Right
<1> QED
  BY <1>1, <1>2, <1>4, <1>7, <1>8, <1>12, QuietStep

\* The bytes of the caller go over those that were read, which are all that
\* the write does not cover.
LEMMA CopiesStep ==
    ASSUME Opened!OpenFileAssumption, FileInv, NEW t \in FileUsers, Opened!Copies(t)
    PROVE  FileInv'
<1> DEFINE r == st[t]
           range == Opened!Range(r.pos, r.n)
           buf == [s \in Opened!Sectors |-> [o \in Opened!Offsets |->
                      IF Opened!Covers(r, s, o) THEN t ELSE r.buf[s][o]]]
           c == [r EXCEPT !.op = "write", !.todo = range, !.buf = buf]
<1>1. r.op = "fill" /\ r.todo = {} /\ UNCHANGED <<seekPosition, disk, meant, torn>>
  BY DEF Opened!Copies
<1>2. /\ st \in [FileUsers -> Requests] /\ r \in Requests /\ r.n > 0 /\ r.pos + r.n <= fileLength
      /\ FillRight(r) /\ seekPosition \in [FileUsers -> Nat]
  BY <1>1 DEF FileInv, FileTypes, Right
<1>3. st' = [st EXCEPT ![t] = c]
  BY <1>2 DEF Opened!Copies
<1>4. r.pos \in Nat /\ r.n \in Nat \ {0}
  BY <1>2 DEF Requests
<1>5. range \subseteq Opened!Sectors
  BY <1>2, <1>4, RequestSectors
<1>6. buf \in Buffers
  BY <1>2 DEF Requests, Buffers, Contents
<1>7. \A b \in Opened!Bytes : buf[Opened!divRoundDown(b)][b % SectorSize]
         = IF b \in r.pos .. r.pos + r.n - 1 THEN t ELSE r.buf[Opened!divRoundDown(b)][b % SectorSize]
  BY ByteOfFile, CoversByte
<1> HIDE DEF r, buf
<1>8. /\ c.op = "write" /\ c.pos = r.pos /\ c.n = r.n /\ c.todo = Opened!Range(r.pos, r.n) /\ c.buf = buf
      /\ c \in Requests
  BY <1>2, <1>5, <1>6 DEF Requests
<1> HIDE DEF c
<1>9. ASSUME NEW s \in c.todo \ torn PROVE Prepared(t, c, s)
  <2>1. SUFFICES ASSUME NEW b \in Opened!Bytes, Opened!divRoundDown(b) = s
        PROVE c.buf[s][b % SectorSize] = IF b \in c.pos .. c.pos + c.n - 1 THEN t ELSE meant[b]
    BY DEF Prepared
  <2>2. CASE b \in c.pos .. c.pos + c.n - 1
    BY <1>7, <1>8, <2>1, <2>2
  <2>3. CASE b \notin c.pos .. c.pos + c.n - 1
    <3>1. s \in Opened!Partly(r)
      BY <1>2, <1>4, <1>8, <1>9, <2>1, <2>3, CoversTheRest
    <3>2. Fetched(r, s)
      BY <1>1, <1>2, <1>9, <3>1 DEF FillRight
    <3> QED
      BY <1>7, <1>8, <2>1, <2>3, <3>2 DEF Fetched
  <2> QED
    BY <2>2, <2>3
<1>10. Right(t, c)
  BY <1>8, <1>9 DEF Right, ReadRight, FillRight, WriteRight
<1> QED
  BY <1>1, <1>2, <1>3, <1>4, <1>8, <1>10, QuietStep

\* A sector is written: the disk gets what is meant, or two writes have met
\* in it; whoever else has read it is told, or writes it too.
LEMMA WriteSectorStep ==
    ASSUME Opened!OpenFileAssumption, FileInv, NEW t \in FileUsers, Opened!WriteSector(t)
    PROVE  FileInv'
<1> DEFINE r == st[t]
           s == Opened!NextSector(t)
           c == [r EXCEPT !.todo = @ \ {s}]
           Meets(u) == s \in Opened!Range(st[u].pos, st[u].n)
<1>1. r.op = "write" /\ r.todo # {} /\ UNCHANGED <<seekPosition, writes>>
  BY DEF Opened!WriteSector
<1>2. /\ st \in [FileUsers -> Requests] /\ r \in Requests /\ r.n > 0 /\ r.pos + r.n <= fileLength
      /\ WriteRight(t, r) /\ DiskHolds /\ seekPosition \in [FileUsers -> Nat]
      /\ disk \in Buffers /\ meant \in [Opened!Bytes -> Contents]
  BY <1>1 DEF FileInv, FileTypes, Right
<1>3. s \in r.todo /\ s \in Opened!Sectors
  <2>1. r.todo \in SUBSET Opened!Sectors
    BY <1>2 DEF Requests
  <2> QED
    BY <1>1, <2>1, NextIsTodo
<1>4. /\ disk' = [disk EXCEPT ![s] = r.buf[s]]
      /\ meant' = [b \in Opened!Bytes |->
                     IF Opened!divRoundDown(b) = s /\ Opened!Covers(r, s, b % SectorSize) THEN t ELSE meant[b]]
      /\ torn' = IF \E u \in FileUsers \ {t} : Opened!Busy(u, s) THEN torn \cup {s} ELSE torn
      /\ st' = [u \in FileUsers |-> IF u = t THEN c
                                   ELSE IF Meets(u) THEN [st[u] EXCEPT !.calm = FALSE] ELSE st[u]]
  BY DEF Opened!WriteSector
<1>5. \A b \in Opened!Bytes :
        meant'[b] = IF Opened!divRoundDown(b) = s /\ b \in r.pos .. r.pos + r.n - 1 THEN t ELSE meant[b]
  BY <1>4, CoversByte
<1>6. /\ \A b \in Opened!Bytes : Opened!divRoundDown(b) # s => meant'[b] = meant[b]
      /\ torn \subseteq torn'
      /\ \A u \in FileUsers : u # t /\ Opened!Busy(u, s) => s \in torn'
  BY <1>4, <1>5
<1> HIDE DEF r, s
<1>7. c \in Requests /\ c.op = r.op /\ c.pos = r.pos /\ c.n = r.n /\ c.buf = r.buf /\ c.todo = r.todo \ {s}
  BY <1>2 DEF Requests
<1> HIDE DEF c
<1>8. ASSUME NEW u \in FileUsers, u # t
      PROVE  /\ st'[u] \in Requests /\ st'[u].op = st[u].op /\ st'[u].pos = st[u].pos
             /\ st'[u].n = st[u].n /\ st'[u].buf = st[u].buf /\ st'[u].todo = st[u].todo
             /\ st'[u].calm => st[u].calm /\ ~ Meets(u)
  <2>1. st[u] \in Requests
    BY <1>2
  <2>2. st'[u] = IF Meets(u) THEN [st[u] EXCEPT !.calm = FALSE] ELSE st[u]
    BY <1>4, <1>8
  <2> QED
    BY ZenonT(40), <2>1, <2>2 DEF Requests
<1>9. st'[t] = c
  BY <1>4
<1>10. FileTypes'
  <2>1. st' \in [FileUsers -> Requests]
    BY <1>4, <1>7, <1>8, <1>9
  <2>2. disk' \in Buffers
    BY <1>2, <1>3, <1>4 DEF Buffers, Requests
  <2>3. meant' \in [Opened!Bytes -> Contents]
    BY <1>2, <1>4 DEF Contents
  <2>4. ASSUME NEW u \in FileUsers
        PROVE  /\ st'[u].n > 0 => st'[u].pos + st'[u].n <= fileLength
               /\ st'[u].op # "idle" => st'[u].n > 0
               /\ st'[u].op = "idle" => st'[u].todo = {}
    <3>1. CASE u = t
      BY <1>1, <1>2, <1>7, <1>9, <3>1
    <3>2. CASE u # t
      BY <1>8, <3>2 DEF FileInv, FileTypes
    <3> QED
      BY <3>1, <3>2
  <2> QED
    BY <1>1, <1>2, <2>1, <2>2, <2>3, <2>4 DEF FileTypes
<1>11. DiskHolds'
  <2>1. SUFFICES ASSUME NEW b \in Opened!Bytes, Opened!divRoundDown(b) \notin torn'
        PROVE  disk'[Opened!divRoundDown(b)][b % SectorSize] = meant'[b]
    BY DEF DiskHolds
  <2>2. CASE Opened!divRoundDown(b) = s
    <3>1. Prepared(t, r, s)
      BY <1>1, <1>2, <1>3, <1>6, <2>1, <2>2 DEF WriteRight
    <3>2. disk'[s] = r.buf[s]
      BY <1>2, <1>3, <1>4 DEF Buffers
    <3> QED
      BY <1>5, <2>2, <3>1, <3>2 DEF Prepared
  <2>3. CASE Opened!divRoundDown(b) # s
    <3>1. disk'[Opened!divRoundDown(b)] = disk[Opened!divRoundDown(b)]
      BY <1>2, <1>4, <2>3 DEF Buffers
    <3> QED
      BY <1>2, <1>6, <2>1, <2>3, <3>1 DEF DiskHolds
  <2> QED
    BY <2>2, <2>3
<1>12. Right(t, st[t])'
  <2>1. \A x \in c.todo \ torn' : x # s /\ Prepared(t, r, x)
    BY <1>1, <1>2, <1>6, <1>7 DEF WriteRight
  <2>2. ASSUME NEW x \in c.todo \ torn' PROVE Prepared(t, st[t], x)'
    BY <1>6, <1>7, <1>9, <2>1 DEF Prepared
  <2>3. c.todo \subseteq Opened!Range(c.pos, c.n)
    BY <1>1, <1>2, <1>7 DEF WriteRight
  <2> QED
    BY <1>1, <1>7, <1>9, <2>2, <2>3 DEF Right, ReadRight, FillRight, WriteRight
<1>13. ASSUME NEW u \in FileUsers, u # t PROVE Right(u, st[u])'
  <2>1. Right(u, st[u]) /\ st[u] \in Requests /\ (st[u].op # "idle" => st[u].n > 0)
    BY DEF FileInv, FileTypes
  <2>2. \A x : x # s /\ Fetched(st[u], x) => Fetched(st[u], x)'
    BY <1>6, <1>8, <1>13 DEF Fetched
  <2>3. \A x : x # s /\ Prepared(u, st[u], x) => Prepared(u, st[u], x)'
    BY <1>6, <1>8, <1>13 DEF Prepared
  <2>4. ReadRight(st[u])'
    BY <1>6, <1>8, <1>13, <2>1, <2>2 DEF Right, ReadRight
  <2>5. FillRight(st[u])'
    <3>1. SUFFICES ASSUME st[u].op = "fill" PROVE FillRight(st[u])'
      BY <1>8, <1>13 DEF FillRight
    <3>2. Opened!Partly(st[u]) \subseteq Opened!Range(st[u].pos, st[u].n)
      BY <2>1, <3>1, PartlyInRange DEF Requests
    <3>3. Opened!Partly(st[u])' = Opened!Partly(st[u])
      BY <1>8, <1>13 DEF Opened!Partly, Opened!First, Opened!Last, Opened!firstAligned, Opened!lastAligned
    <3>4. s \in torn' \/ s \notin Opened!Partly(st[u])
      BY <1>6, <1>13, <3>1, <3>2 DEF Opened!Busy
    <3> QED
      BY <1>6, <1>8, <1>13, <2>1, <2>2, <3>1, <3>3, <3>4 DEF Right, FillRight
  <2>6. WriteRight(u, st[u])'
    <3>1. SUFFICES ASSUME st[u].op = "write" PROVE WriteRight(u, st[u])'
      BY <1>8, <1>13 DEF WriteRight
    <3>2. s \in torn' \/ s \notin st[u].todo
      BY <1>6, <1>13, <2>1, <3>1 DEF Right, WriteRight, Opened!Busy
    <3> QED
      BY <1>6, <1>8, <1>13, <2>1, <2>3, <3>1, <3>2 DEF Right, WriteRight
  <2> QED
    BY <2>4, <2>5, <2>6 DEF Right
<1> QED
  BY <1>10, <1>11, <1>12, <1>13 DEF FileInv

LEMMA FileStep ==
    ASSUME Opened!OpenFileAssumption, FileInv, [Opened!Next]_(Opened!vars)
    PROVE  FileInv'
<1>1. CASE UNCHANGED Opened!vars
  BY <1>1 DEF Opened!vars, FileInv, FileTypes, DiskHolds, Right, ReadRight, FillRight, WriteRight,
              Fetched, Prepared, Opened!Partly, Opened!First, Opened!Last, Opened!firstAligned,
              Opened!lastAligned
<1>2. ASSUME NEW t \in FileUsers, NEW n \in 1 .. fileLength, Opened!Read(t, n) PROVE FileInv'
  BY <1>2, ReadStep DEF Opened!OpenFileAssumption
<1>3. ASSUME NEW t \in FileUsers, NEW n \in 1 .. fileLength, Opened!Write(t, n) PROVE FileInv'
  BY <1>3, WriteStarts DEF Opened!OpenFileAssumption
<1> QED
  BY <1>1, <1>2, <1>3, SeekStep, ReadSectorStep, ReadEndsStep, CopiesStep, WriteSectorStep, WriteEndsStep
     DEF Opened!Next

-----------------------------------------------------------------------------
(* Programs, where one of them runs.                                       *)

\* A packet after the first that the client of a short message counts as
\* acknowledged has reached the server, whatever is lost, damaged or held back on
\* the way (cs4461/prog4/client.c:195).
THEOREM AcknowledgementsAreHonest ==
    ASSUME Transfer!ShortMessage
    PROVE  Spec => []AcksAreHonest
<1> DEFINE Kept == program = "transfer" => TransferInv
<1>1. Init => Kept
  BY ProgramsAssumption, InitTransfer DEF Init
<1>2. Kept /\ [Next]_vars => Kept'
  <2>1. Next => UNCHANGED program /\ (program = "transfer" => Transfer!Next)
    BY DEF Next
  <2>2. UNCHANGED vars => UNCHANGED program /\ UNCHANGED Transfer!vars
    BY DEF vars, Transfer!vars, Transfer!clientVars, Transfer!serverVars, Transfer!toServerVars,
       Transfer!toClientVars
  <2> QED
    BY <2>1, <2>2, ProgramsAssumption, TransferStep
<1>3. Kept => AcksAreHonest
  BY ProgramsAssumption, TransferHonest DEF AcksAreHonest
<1> QED
  BY <1>1, <1>2, <1>3, PTL DEF Spec

\* The server's count of connections is the number of its threads that have
\* not left, but for those it has cancelled (cs4461/prog3/main.c:133).
THEOREM CountIsThatOfThreads == Spec => []CountTellsThreads
<1> DEFINE Kept == program = "server" => CountInv
<1>1. Init => Kept
  BY ProgramsAssumption, InitCount DEF Init
<1>2. Kept /\ [Next]_vars => Kept'
  <2>1. Next => UNCHANGED program /\ (program = "server" => Server!Next)
    BY DEF Next
  <2>2. UNCHANGED vars => UNCHANGED program /\ UNCHANGED Server!vars
    BY DEF vars, Server!vars, Server!arrays
  <2> QED
    BY <2>1, <2>2, ProgramsAssumption, ServerStep
<1>3. Kept => CountTellsThreads
  BY CountTells DEF CountTellsThreads
<1> QED
  BY <1>1, <1>2, <1>3, PTL DEF Spec

\* The flags of the boat's monitor and the queues of those that wait agree
\* with who is where (prog5/thread.cpp:70).
THEOREM BoatsAreSafe == Spec => []BoatSafe
<1> DEFINE Kept == program = "boat" => BoatInv
<1>1. Init => Kept
  BY ProgramsAssumption, InitBoat DEF Init
<1>2. Kept /\ [Next]_vars => Kept'
  <2>1. Next => UNCHANGED program /\ (program = "boat" => Boat!Next)
    BY DEF Next
  <2>2. UNCHANGED vars => UNCHANGED program /\ UNCHANGED Boat!vars
    BY DEF vars, Boat!vars, Boat!counts
  <2> QED
    BY <2>1, <2>2, ProgramsAssumption, BoatStepInv
<1>3. Kept => BoatSafe
  BY DEF BoatInv, BoatSafe
<1> QED
  BY <1>1, <1>2, <1>3, PTL DEF Spec

\* Santa names three different elves, writes the count of the reindeer only
\* while none of them touches it, and sleeps only when nobody waits for him
\* (prog4/thread.cpp:138).
THEOREM SantaIsSafe == Spec => []SantaSafe
<1> DEFINE Kept == program = "santa" => SantaInv
<1>1. Init => Kept
  BY ProgramsAssumption, InitSanta DEF Init
<1>2. Kept /\ [Next]_vars => Kept'
  <2>1. Next => UNCHANGED program /\ (program = "santa" => SantaClaus!Next)
    BY DEF Next
  <2>2. UNCHANGED vars => UNCHANGED program /\ UNCHANGED SantaClaus!vars
    BY DEF vars, SantaClaus!vars
  <2> QED
    BY <2>1, <2>2, ProgramsAssumption, SantaStep
<1>3. Kept => SantaSafe
  BY ProgramsAssumption, SantaInvSafe DEF SantaSafe
<1> QED
  BY <1>1, <1>2, <1>3, PTL DEF Spec

\* While ring has not begun to kill, one count goes round, and the link that
\* holds it is the one it is for (cs3411/prog3/link.c:62).
THEOREM OneCountGoesRound == Spec => []OneToken
<1> DEFINE Kept == program = "ring" => RingInv
<1>1. Init => Kept
  BY ProgramsAssumption, InitRing DEF Init
<1>2. Kept /\ [Next]_vars => Kept'
  <2>1. Next => UNCHANGED program /\ (program = "ring" => Links!Next)
    BY DEF Next
  <2>2. UNCHANGED vars => UNCHANGED program /\ UNCHANGED Links!vars
    BY DEF vars, Links!vars
  <2> QED
    BY <2>1, <2>2, ProgramsAssumption, RingStepInv
<1>3. Kept => OneToken
  BY RingHasOneToken DEF OneToken
<1> QED
  BY <1>1, <1>2, <1>3, PTL DEF Spec

\* Paging: frames, page tables, swap and the queue of frames agree, and memory
\* holds for each program what was put there, wherever paging has moved it and
\* whoever has its frames, but on a page that a swap has forgotten
\* (vm/mmu.cc:4, swap.cc:45).
THEOREM MemoryIsKept == Spec => []MemorySafe
<1> DEFINE Kept == program = "paging" => PagingInv
<1>1. Init => Kept
  BY ProgramsAssumption, InitPaging DEF Init
<1>2. Kept /\ [Next]_vars => Kept'
  <2>1. Next => UNCHANGED program /\ (program = "paging" => Paging!Next)
    BY DEF Next
  <2>2. UNCHANGED vars => UNCHANGED program /\ UNCHANGED Paging!vars
    BY DEF vars, Paging!vars
  <2> QED
    BY <2>1, <2>2, ProgramsAssumption, PagingStep
<1>3. Kept => MemorySafe
  BY DEF PagingInv, MemorySafe, Paging!MemorySafe, Paging!FramesAgree
<1> QED
  BY <1>1, <1>2, <1>3, PTL DEF Spec

\* Threads that read and write one file: it holds what was written last to
\* each byte, but in sectors where two writes met, and a read during which
\* nobody wrote to its sectors has got what the file held (openfile.cc:145).
THEOREM FilesAreKept == Spec => []FileKept
<1> DEFINE Kept == program = "open" => FileInv
<1>1. Init => Kept
  BY ProgramsAssumption, InitFile DEF Init
<1>2. Kept /\ [Next]_vars => Kept'
  <2>1. Next => UNCHANGED program /\ (program = "open" => Opened!Next)
    BY DEF Next
  <2>2. UNCHANGED vars => UNCHANGED program /\ UNCHANGED Opened!vars
    BY DEF vars, Opened!vars
  <2> QED
    BY <2>1, <2>2, ProgramsAssumption, FileStep
<1>3. Kept => FileKept
  BY ProgramsAssumption, FileInvKeeps DEF FileKept
<1> QED
  BY <1>1, <1>2, <1>3, PTL DEF Spec

=============================================================================
