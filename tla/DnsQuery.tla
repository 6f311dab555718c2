------------------------------ MODULE DnsQuery ------------------------------
(***************************************************************************)
(* cs4461/prog5/dnsquery.c: one question to a name server, and the parser  *)
(* of its answer.  A message is a sequence of bytes, letters being numbers *)
(* from 97; the header is HeaderLen bytes whose contents no step reads but *)
(* the number of answers, the question ends with QuestionLen bytes, and a  *)
(* resource is its type and the length of its data.  The server, which may *)
(* compress any name of an answer with a pointer into the question, is     *)
(* external.                                                               *)
(***************************************************************************)
EXTENDS Integers, Sequences, SequencesExt

CONSTANTS Hosts,        \* names to ask for: sequences of labels
          OwnLabels,    \* labels the server puts before a suffix of the name
          MaxAnswers    \* records in an answer

VARIABLES pc, target, buf, qname_len, ans_count, read, ans, meant

vars == <<pc, target, buf, qname_len, ans_count, read, ans, meant>>

HeaderLen == 12
QuestionLen == 4
Dot == 46
Pointer == 192
T_A == 1
T_CNAME == 5

Init == /\ pc = "usage" /\ target = <<>> /\ buf = <<>> /\ qname_len = 0
        /\ ans_count = 0 /\ read = 0 /\ ans = <<>> /\ meant = <<>>

\* The host as it is typed: its labels with dots between them.
Dotted(labels) == FlattenSeq([i \in DOMAIN labels |->
                     IF i = 1 THEN labels[i] ELSE <<Dot>> \o labels[i]])

\* set_domain: each part up to a dot, a dot being put at the end, is
\* preceded by its length; a zero ends the name.
Dots(host) == SelectSeq([i \in DOMAIN host |-> i], LAMBDA i : host[i] = Dot)
set_domain(hostp) ==
    LET host == hostp \o <<Dot>>
        at == Dots(host)
        lock(i) == IF i = 1 THEN 1 ELSE at[i - 1] + 1
    IN  FlattenSeq([i \in DOMAIN at |->
            <<at[i] - lock(i)>> \o SubSeq(host, lock(i), at[i] - 1)]) \o <<0>>

\* main: with a host and a server given, the second test ends the program.
Starts(argc) ==
    /\ pc = "usage"
    /\ IF argc = 2
         THEN /\ target' \in Hosts
              /\ buf' = [i \in 1 .. HeaderLen |-> 0] \o set_domain(Dotted(target'))
                        \o [i \in 1 .. QuestionLen |-> T_A]
              /\ qname_len' = Len(set_domain(Dotted(target')))
              /\ pc' = "receive"
         ELSE /\ pc' = "exit"
              /\ UNCHANGED <<target, buf, qname_len>>
    /\ UNCHANGED <<ans_count, read, ans, meant>>

\* What the server may put for a name: labels of its own, then the rest of
\* the name asked for from label k on, by a pointer, or the end of the name.
Start(k) == HeaderLen + Len(FlattenSeq([i \in 1 .. k - 1 |-> <<0>> \o target[i]]))
Encoded(prefix, k) ==
    FlattenSeq([i \in DOMAIN prefix |-> <<Len(prefix[i])>> \o prefix[i]])
    \o IF k > Len(target) THEN <<0>> ELSE <<Pointer, Start(k)>>
Meaning(prefix, k) == prefix \o SubSeq(target, k, Len(target))
Names == {<<p, k>> \in OwnLabels \X (1 .. Len(target) + 1) : p # <<>> \/ k <= Len(target)}

Record(name, type, data) == Encoded(name[1], name[2]) \o <<type, Len(data)>> \o data
Records == {[bytes |-> Record(n, T_A, <<10, 0, 0, 1>>),
             name |-> Meaning(n[1], n[2]), type |-> T_A] : n \in Names}
           \cup {[bytes |-> Record(<<<<>>, 1>>, T_CNAME, Encoded(n[1], n[2])),
                  name |-> target, alias |-> Meaning(n[1], n[2]), type |-> T_CNAME] :
                    n \in Names}

\* recvfrom, which waits as long as it takes: a lost packet is not sent again.
Receives ==
    /\ pc = "receive"
    /\ \E records \in BoundedSeq(Records, MaxAnswers) :
         /\ buf' = buf \o FlattenSeq([i \in DOMAIN records |-> records[i].bytes])
         /\ ans_count' = Len(records)
         /\ meant' = records
    /\ read' = HeaderLen + qname_len + QuestionLen
    /\ pc' = IF ans_count' <= 0 THEN "exit" ELSE "parse"
    /\ UNCHANGED <<target, qname_len, ans>>

Byte(p) == buf[p + 1]

\* read_name, the first loop: the bytes of the name up to its zero, and how
\* many of them to pass, counted until a pointer has been followed.
Collects[s \in [read : Nat, name : Seq(Nat), jump : BOOLEAN, count : Nat]] ==
    IF Byte(s.read) = 0 THEN s
    ELSE IF Byte(s.read) >= Pointer
         THEN Collects[[s EXCEPT !.read = Byte(s.read) * 256 + Byte(s.read + 1) - 49152,
                                 !.jump = TRUE]]
         ELSE Collects[[s EXCEPT !.read = @ + 1, !.name = Append(@, Byte(s.read)),
                                 !.count = IF s.jump THEN @ ELSE @ + 1]]

\* The second loop: a length, then as many letters moved down by one, and a
\* dot; the last dot is cut off.
Shifts[s \in [name : Seq(Nat), i : Nat]] ==
    IF s.i > Len(s.name) THEN s.name
    ELSE LET p == s.name[s.i] IN
         Shifts[[name |-> [j \in DOMAIN s.name |->
                              IF j \in s.i .. s.i + p - 1 THEN s.name[j + 1]
                              ELSE IF j = s.i + p THEN Dot ELSE s.name[j]],
                 i |-> s.i + p + 1]]

read_nameDotted(at) ==      \* a slip: the last dot stays
    LET raw == Collects[[read |-> at, name |-> <<>>, jump |-> FALSE, count |-> 1]]
        text == Shifts[[name |-> raw.name, i |-> 1]]
    IN  [name |-> text, stop |-> IF raw.jump THEN raw.count + 1 ELSE raw.count]
read_name(at) ==
    LET raw == Collects[[read |-> at, name |-> <<>>, jump |-> FALSE, count |-> 1]]
        text == Shifts[[name |-> raw.name, i |-> 1]]
    IN  [name |-> SubSeq(text, 1, Len(text) - 1),
         stop |-> IF raw.jump THEN raw.count + 1 ELSE raw.count]

\* parse_ans, one record: its name, the resource, then four bytes of address
\* or, for any other type, a name again.
Parses ==
    /\ pc = "parse"
    /\ LET owner == read_name(read)
           type == Byte(read + owner.stop)
           data == read + owner.stop + 2
           rdata == read_name(data)
       IN  IF type = T_A
             THEN /\ read' = data + Byte(data - 1)
                  /\ ans' = Append(ans, [name |-> owner.name, type |-> type,
                                         rdata |-> SubSeq(buf, data + 1, data + Byte(data - 1))])
             ELSE /\ read' = data + rdata.stop
                  /\ ans' = Append(ans, [name |-> owner.name, type |-> type,
                                         rdata |-> rdata.name])
    /\ pc' = IF Len(ans') < ans_count THEN "parse" ELSE "exit"
    /\ UNCHANGED <<target, buf, qname_len, ans_count, meant>>

Next == (\E argc \in 1 .. 3 : Starts(argc)) \/ Receives \/ Parses

Spec == Init /\ [][Next]_vars

-----------------------------------------------------------------------------
TypeOK == /\ pc \in {"usage", "receive", "parse", "exit"}
          /\ read \in 0 .. Len(buf) /\ Len(ans) <= ans_count

\* What the server meant by a record of type A or CNAME.
Told(r, a) == /\ a.name = Dotted(r.name) /\ a.type = r.type
              /\ a.rdata = IF r.type = T_A THEN <<10, 0, 0, 1>> ELSE Dotted(r.alias)

\* Every record is read back with the names the server meant, wherever the
\* compression of names points, each from where the last one ended, and the
\* records end where the message does.
AnswersReadBack == /\ \A i \in DOMAIN ans : Told(meant[i], ans[i])
                   /\ Len(ans) = ans_count /\ ans # <<>> => read = Len(buf)

=============================================================================
