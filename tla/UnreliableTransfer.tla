------------------------- MODULE UnreliableTransfer -------------------------
(* The client and the server of cs4461/prog4.  The client sends a message one
   character a packet, over UDP, through unreliable_sendto, which drops,
   corrupts or holds packets; the server acknowledges what it receives.

   One action is what a side does from one recvfrom or unreliable_sendto to the
   next.  UDP itself, between two processes of a host, is a FIFO.  The message is of
   ASCII characters; which they are is left open.  A flipped bit makes a packet one
   that is not read, or one of another type that its checksum fits, or, in a
   separator or behind the text, leaves it as it is.  *)
EXTENDS Integers, Sequences

CONSTANTS
  MsgLen,       \* characters of the message
  WINDOW,       \* as in shared.h
  GiveUp,       \* time-outs after which the client terminates: 50
  MaxTimeouts,  \* bound: time-outs of the client
  MaxFaults,    \* bound: packets that are dropped, corrupted or held
  NoPacket      \* what a side holds back when it holds nothing

TransferAssumption ==
  /\ MsgLen \in Nat \ {0} /\ WINDOW \in Nat \ {0}
  /\ GiveUp \in Nat /\ MaxTimeouts \in Nat /\ MaxFaults \in Nat

VARIABLES
  pc, i, done,                    \* where the client is
  count, wait_count, w, ack, timeout,
  toServer, toClient,             \* the two sockets
  heldByClient, heldByServer,     \* hold_buf of either process
  connected, flag,                \* the server's
  delivered,                      \* history: packets the server ever stored
  faults                          \* faults so far

clientVars == <<pc, i, done, count, wait_count, w, ack, timeout>>
serverVars == <<connected, flag, delivered>>
toServerVars == <<toServer, heldByClient>>
toClientVars == <<toClient, heldByServer>>
vars == <<clientVars, serverVars, toServerVars, toClientVars, faults>>

Seqs == 0..(MsgLen - 1)
SYN_SEQ == 0
FIN_SEQ == 257
Packet(type, seq) == [type |-> type, seq |-> seq, valid |-> TRUE]
Packets == [type : {"syn", "fin", "ack", "msg"}, seq : Nat, valid : BOOLEAN]

(* A flipped bit in the last digit of the sequence number. *)
Corrupted(p) ==
  [p EXCEPT !.valid = FALSE, !.seq = IF @ % 2 = 0 THEN @ + 1 ELSE @ - 1]

(* parsePacket fills the packet in anew by what the flags say, whatever else is in
   the text.  With a bit of a flag flipped, the checksum of a SYN fits a character
   with a number of one or two digits, that of a FIN one with a longer number, if
   the character is the right one ("Y" with 0, a space with 18); the acknowledgement
   of 0 may be a SYN, that of 257 and of others of three digits a FIN.  A character
   can also be an acknowledgement, which the server ignores: it is as if not read.  *)
DigitSum(n) == (n % 10) + ((n \div 10) % 10) + (n \div 100)
Disguised(p) ==
  {q \in {Packet("syn", SYN_SEQ), Packet("fin", FIN_SEQ)} :
     \/ p.type = "msg" /\ (q.type = "syn" <=> p.seq < 100)
     \/ p.type = "ack" /\ q.type = "syn" /\ p.seq = 0
     \/ p.type = "ack" /\ q.type = "fin" /\ p.seq \in 100..999 /\ DigitSum(p.seq) = 14}

(* parsePacket: whether the checksum of the text is the one that was sent. *)
ParsesAnything(p) == TRUE
Parses(p) == p.valid

SendHeld(socket, held) == IF held = NoPacket THEN socket ELSE Append(socket, held)

(* unreliable_sendto of p, on the socket and with the packet held before. *)
Sent(socket, held, p) == <<SendHeld(Append(socket, p), held), NoPacket>>
Damaged(socket, held, p) ==
  {<<socket, held>>, Sent(socket, held, Corrupted(p))}
  \cup {Sent(socket, held, q) : q \in Disguised(p)}
  \cup IF held = NoPacket THEN {<<socket, p>>} ELSE {}

Transmit(socket, held, p) ==
  \/ /\ socket' = Sent(socket, held, p)[1] /\ held' = Sent(socket, held, p)[2]
     /\ UNCHANGED faults
  \/ /\ faults < MaxFaults /\ faults' = faults + 1
     /\ \E outcome \in Damaged(socket, held, p) : socket' = outcome[1] /\ held' = outcome[2]

Init ==
  /\ pc = "syn" /\ i = 0 /\ done = FALSE
  /\ count = 0 /\ wait_count = 0 /\ timeout = 0
  /\ w = [slot \in 0..(WINDOW - 1) |-> 0]
  /\ ack = [s \in Seqs |-> FALSE]
  /\ toServer = <<>> /\ toClient = <<>>
  /\ heldByClient = NoPacket /\ heldByServer = NoPacket
  /\ connected \in BOOLEAN                   \* not initialised in the code
  /\ flag = {} /\ delivered = {} /\ faults = 0

-----------------------------------------------------------------------------
(* The client.  *)

Goto(place) == pc' = place /\ i' = 0
ClientSends(p) == Transmit(toServer, heldByClient, p) /\ UNCHANGED <<toClientVars, serverVars>>
Computes == UNCHANGED <<toServerVars, toClientVars, serverVars, faults>>

(* recvfrom: a packet, or a time-out when nothing has come.  *)
Receives == toClient # <<>> /\ toClient' = Tail(toClient) /\ UNCHANGED timeout
TimesOut == toClient = <<>> /\ timeout < MaxTimeouts /\ timeout' = timeout + 1 /\ UNCHANGED toClient
OnlyReads == UNCHANGED <<toServerVars, heldByServer, serverVars, faults>>

(* The handshake, before the first packet: one SYN a turn until an ACK of it.  *)
SendSyn ==
  /\ pc = "syn" /\ Goto("synwait")
  /\ ClientSends(Packet("syn", SYN_SEQ))
  /\ UNCHANGED <<done, count, wait_count, w, ack, timeout>>

AwaitSynAck ==
  /\ pc = "synwait"
  /\ \/ Receives /\ Goto(IF Parses(Head(toClient)) /\ Head(toClient) = Packet("ack", SYN_SEQ)
                         THEN "window" ELSE "syn")
     \/ TimesOut /\ Goto("syn")
  /\ OnlyReads /\ UNCHANGED <<done, count, wait_count, w, ack>>

(* The head of the main loop. *)
Top ==
  /\ pc = "top"
  /\ \/ count >= MsgLen /\ count' = 0 /\ Goto("final")
     \/ count < MsgLen /\ ack[count] /\ count' = count + 1 /\ Goto("top")
     \/ count < MsgLen /\ ~ack[count] /\ UNCHANGED count
        /\ Goto(IF timeout >= GiveUp THEN "dead" ELSE "window")
  /\ UNCHANGED <<done, wait_count, w, ack, timeout>> /\ Computes

(* A new packet is sent while fewer than WINDOW are awaited; what enters the
   window is the packet after it.  *)
SendNew ==
  /\ pc = "window" /\ wait_count < WINDOW
  /\ ClientSends(Packet("msg", count))
  /\ IF count + 1 >= MsgLen
     THEN count' = 0 /\ Goto("final") /\ UNCHANGED <<w, wait_count>>
     ELSE /\ count' = count + 1
          /\ w' = [w EXCEPT ![wait_count] = count + 1]
          /\ wait_count' = wait_count + 1
          /\ Goto(IF count + 1 < WINDOW THEN "top" ELSE "update")
  /\ UNCHANGED <<done, ack, timeout>>

WindowFull ==
  /\ pc = "window" /\ wait_count = WINDOW
  /\ Goto(IF count < WINDOW THEN "top" ELSE "update")
  /\ UNCHANGED <<done, count, wait_count, w, ack, timeout>> /\ Computes

Unacknowledged == {s \in 0..(count - 1) : ~ack[s]}
Latest(S) == CHOOSE s \in S : \A r \in S : r <= s

(* An acknowledged packet in the window gives way to the last one that is not. *)
UpdateWindow ==
  /\ pc = "update" /\ Goto("recv")
  /\ w' = [slot \in DOMAIN w |->
             IF slot < wait_count /\ ack[w[slot]] /\ Unacknowledged # {}
             THEN Latest(Unacknowledged) ELSE w[slot]]
  /\ UNCHANGED <<done, count, wait_count, ack, timeout>> /\ Computes

(* An acknowledgement is taken for any packet up to `limit`; the loop after the
   message takes any number.  *)
AnyNumber == MsgLen + FIN_SEQ
TakeAck(limit) ==
  LET p == Head(toClient) IN
  ack' = IF Parses(p) /\ p.seq <= limit THEN [ack EXCEPT ![p.seq] = TRUE] ELSE ack

(* Both loops that receive shorten themselves: wait_count falls with every packet. *)
ReceiveAcks(here, after, limit) ==
  /\ pc = here
  /\ \/ /\ i < wait_count /\ i' = i + 1 /\ UNCHANGED pc
        /\ \/ Receives /\ TakeAck(limit) /\ wait_count' = wait_count - 1
           \/ TimesOut /\ UNCHANGED <<ack, wait_count>>
     \/ i >= wait_count /\ Goto(after) /\ UNCHANGED <<toClient, ack, wait_count, timeout>>
  /\ OnlyReads /\ UNCHANGED <<done, count, w>>

ResendWindow ==
  /\ pc = "resend"
  /\ \/ /\ i < wait_count /\ i' = i + 1 /\ UNCHANGED pc
        /\ IF ack[w[i]] THEN Computes ELSE ClientSends(Packet("msg", w[i]))
     \/ i >= wait_count /\ Goto("again") /\ Computes
  /\ UNCHANGED <<done, count, wait_count, w, ack, timeout>>

ResendAny ==
  /\ pc = "again"
  /\ \/ /\ i < count /\ i' = i + 1 /\ UNCHANGED pc
        /\ IF ack[i] \/ wait_count >= WINDOW
           THEN Computes /\ UNCHANGED <<w, wait_count>>
           ELSE /\ ClientSends(Packet("msg", i))
                /\ w' = [w EXCEPT ![wait_count] = i]
                /\ wait_count' = wait_count + 1
     \/ i >= count /\ Goto("top") /\ Computes /\ UNCHANGED <<w, wait_count>>
  /\ UNCHANGED <<done, count, ack, timeout>>

(* The loop after the message: done is what the last packet's ack says.  *)
Final ==
  /\ pc = "final"
  /\ done' = ack[MsgLen - 1]
  /\ \/ /\ ~ack[count] /\ wait_count < WINDOW
        /\ ClientSends(Packet("msg", count))
        /\ w' = [w EXCEPT ![wait_count] = count]
        /\ wait_count' = wait_count + 1
        /\ Goto("finalrecv") /\ UNCHANGED count
     \/ /\ ~ack[count] /\ wait_count = WINDOW
        /\ Goto("finalrecv") /\ Computes /\ UNCHANGED <<count, w, wait_count>>
     \/ /\ ack[count] /\ count' = count + 1
        /\ Goto(IF count + 1 >= MsgLen THEN "fin" ELSE "finalrecv")
        /\ Computes /\ UNCHANGED <<w, wait_count>>
  /\ UNCHANGED <<ack, timeout>>

FinalTest ==
  /\ pc = "finaltest" /\ Goto(IF done THEN "fin" ELSE "final")
  /\ UNCHANGED <<done, count, wait_count, w, ack, timeout>> /\ Computes

SendFin ==
  /\ pc = "fin"
  /\ IF timeout >= GiveUp
     THEN Goto("end") /\ Computes
     ELSE Goto("finwait") /\ ClientSends(Packet("fin", FIN_SEQ))
  /\ UNCHANGED <<done, count, wait_count, w, ack, timeout>>

AwaitFinAck ==
  /\ pc = "finwait"
  /\ \/ Receives /\ Goto(IF Parses(Head(toClient)) /\ Head(toClient) = Packet("ack", FIN_SEQ)
                         THEN "end" ELSE "fin")
     \/ TimesOut /\ Goto("fin")
  /\ OnlyReads /\ UNCHANGED <<done, count, wait_count, w, ack>>

Client ==
  \/ SendSyn \/ AwaitSynAck
  \/ Top \/ SendNew \/ WindowFull \/ UpdateWindow
  \/ ReceiveAcks("recv", "resend", count) \/ ResendWindow \/ ResendAny
  \/ Final \/ ReceiveAcks("finalrecv", "finaltest", AnyNumber) \/ FinalTest
  \/ SendFin \/ AwaitFinAck

-----------------------------------------------------------------------------
(* The server: one action for each kind of packet.  *)

Incoming == Head(toServer)
ServerReads ==
  /\ toServer # <<>> /\ toServer' = Tail(toServer)
  /\ UNCHANGED <<clientVars, heldByClient>>
Acknowledge(seq) == Transmit(toClient, heldByServer, Packet("ack", seq))

ServerDropsCorrupt ==
  /\ ServerReads /\ ~Parses(Incoming)
  /\ UNCHANGED <<toClientVars, serverVars, faults>>

(* A SYN on a connection discards what the connection has received. *)
ServerTakesSyn ==
  /\ ServerReads /\ Parses(Incoming) /\ Incoming.type = "syn"
  /\ flag' = IF connected THEN {} ELSE flag
  /\ connected' = TRUE
  /\ Acknowledge(SYN_SEQ) /\ UNCHANGED delivered

ServerTakesFin ==
  /\ ServerReads /\ Parses(Incoming) /\ Incoming.type = "fin"
  /\ Acknowledge(FIN_SEQ)
  /\ connected' = FALSE /\ flag' = {} /\ UNCHANGED delivered

(* A packet that was flagged before is acknowledged again. *)
ServerTakesMessage ==
  /\ ServerReads /\ Parses(Incoming) /\ Incoming.type = "msg"
  /\ flag' = flag \cup {Incoming.seq}
  /\ delivered' = delivered \cup {Incoming.seq}
  /\ Acknowledge(Incoming.seq) /\ UNCHANGED connected

Server == ServerDropsCorrupt \/ ServerTakesSyn \/ ServerTakesFin \/ ServerTakesMessage

Next == Client \/ Server
Spec == Init /\ [][Next]_vars

-----------------------------------------------------------------------------
(* The variables keep their types.  *)
TypeOK ==
  /\ pc \in {"syn", "synwait", "top", "window", "update", "recv", "resend", "again", "final",
             "finalrecv", "finaltest", "fin", "finwait", "end", "dead"}
  /\ i \in Nat /\ done \in BOOLEAN /\ timeout \in 0..MaxTimeouts /\ faults \in 0..MaxFaults
  /\ count \in 0..MsgLen /\ wait_count \in 0..WINDOW
  /\ w \in [0..(WINDOW - 1) -> Seqs] /\ ack \in [Seqs -> BOOLEAN]
  /\ toServer \in Seq(Packets) /\ toClient \in Seq(Packets)
  /\ {heldByClient, heldByServer} \subseteq Packets \cup {NoPacket}
  /\ connected \in BOOLEAN /\ flag \subseteq delivered /\ delivered \subseteq Seqs

(* No number of the message has three digits; else a character may arrive as a FIN
   long before the end, and the server's acknowledgement of 257 with it.  *)
ShortMessage == MsgLen <= 100

(* In a short message, whatever is dropped, corrupted, held back or sent twice: a
   packet after the first that the client counts as acknowledged was stored by the
   server.  The first is an exception, since client.c:223 takes the acknowledgement
   of a SYN for its own.  And the number that an acknowledgement writes with is
   inside the array, which client.c:311 does not test: that of a FIN, 257, comes
   when none is taken any more.  *)
AcksAreHonest ==
  /\ \A s \in Seqs \ {SYN_SEQ} : ack[s] => s \in delivered
  /\ pc \in {"recv", "finalrecv"} =>
       \A k \in DOMAIN toClient : Parses(toClient[k]) => toClient[k].seq \in Seqs

(* client.c:275, "make sure we ack'd everything": the loop before the FIN.  *)
EverythingAcked == pc \in {"fin", "finwait"} => \A s \in Seqs : ack[s]
=============================================================================
