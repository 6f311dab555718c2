------------------------------ MODULE Systolic ------------------------------
(* The systolic array of cs3331/prog6: one thread a processor, one reader a row
   and a column, and between two of them a synchronous channel (ThreadMentor's
   SynOneToOneChannel): Send and Receive complete together, in one action of the
   two threads.  The matrices are square, the only ones for which the loops of
   main that start and join the readers cover them.  *)
EXTENDS Integers, FiniteSets, Functions

CONSTANTS Size,     \* rows and columns of both matrices
          Entries   \* what the matrices may hold

EOD == -1
SystolicAssumption == Size \in Nat \ {0} /\ Entries \subseteq Int \ {EOD}

VARIABLES reading,                \* whether main still reads the matrices
          dataA, dataB, output,
          sent,                   \* items each reader has sent, the EOD included
          cell                    \* the processors: where they are and their locals

vars == <<reading, dataA, dataB, output, sent, cell>>

Range0 == 0..(Size - 1)
P == Range0 \X Range0
Readers == {"col", "row"} \X Range0
Matrix(S) == [P -> S]
hasR(p) == p[2] # Size - 1
hasD(p) == p[1] # Size - 1

Init ==
  /\ reading = TRUE
  /\ dataA = [p \in P |-> 0] /\ dataB = dataA /\ output = dataA
  /\ sent = [reader \in Readers |-> 0]
  /\ cell = [p \in P |-> [at |-> "up", in1 |-> -2, in2 |-> -2, storage |-> 0]]

ReadMatrices ==
  /\ reading /\ reading' = FALSE
  /\ dataA' \in Matrix(Entries) /\ dataB' \in Matrix(Entries)
  /\ UNCHANGED <<output, sent, cell>>

(* What a thread sends when it is at a Send on the channel into processor p. *)
ReaderItem(reader) ==
  LET k == sent[reader] IN
  IF k >= Size THEN EOD
  ELSE IF reader[1] = "col" THEN dataA[<<k, reader[2]>>] ELSE dataB[<<reader[2], k>>]

Ended(p) == cell[p].in1 = EOD \/ cell[p].in2 = EOD
RightItem(p) == IF Ended(p) THEN cell[p].in1 ELSE cell[p].in2
DownItem(p) == IF Ended(p) THEN cell[p].in2 ELSE cell[p].in1

(* The end of a turn: the product is added, or the result stored. *)
Turn(p, next) ==
  IF next # "turn" THEN UNCHANGED output /\ cell' = [cell EXCEPT ![p].at = next]
  ELSE IF Ended(p)
  THEN /\ output' = [output EXCEPT ![p] = cell[p].storage]
       /\ cell' = [cell EXCEPT ![p].at = "end"]
  ELSE /\ cell' = [cell EXCEPT ![p].at = "up",
                               ![p].storage = @ + cell[p].in1 * cell[p].in2]
       /\ UNCHANGED output

AfterRightForgets(p) ==         (* a slip: EOD is not passed down *)
  IF hasD(p) /\ ~Ended(p) THEN "down" ELSE "turn"
AfterRight(p) == IF hasD(p) THEN "down" ELSE "turn"
AfterLeft(p) == IF hasR(p) THEN "right" ELSE AfterRight(p)

(* A reader and a processor of the first row or column meet. *)
ReaderSends(reader, p) ==
  /\ ~reading /\ sent[reader] <= Size
  /\ sent' = [sent EXCEPT ![reader] = @ + 1]
  /\ \/ reader = <<"col", p[2]>> /\ p[1] = 0 /\ cell[p].at = "up"
        /\ cell' = [cell EXCEPT ![p].in1 = ReaderItem(reader), ![p].at = "left"]
     \/ reader = <<"row", p[1]>> /\ p[2] = 0 /\ cell[p].at = "left"
        /\ cell' = [cell EXCEPT ![p].in2 = ReaderItem(reader), ![p].at = "pass"]
  /\ UNCHANGED <<reading, dataA, dataB, output>>

(* Two processors meet. *)
SendsDown(p, q) ==
  /\ q = <<p[1] + 1, p[2]>> /\ cell[p].at = "down" /\ cell[q].at = "up"
  /\ cell' = [cell EXCEPT ![p].at = "turn", ![q].in1 = DownItem(p), ![q].at = "left"]
  /\ UNCHANGED <<reading, dataA, dataB, output, sent>>

SendsRight(p, q) ==
  /\ q = <<p[1], p[2] + 1>> /\ cell[p].at = "right" /\ cell[q].at = "left"
  /\ cell' = [cell EXCEPT ![p].at = AfterRight(p), ![q].in2 = RightItem(p), ![q].at = "pass"]
  /\ UNCHANGED <<reading, dataA, dataB, output, sent>>

(* Between its channels a processor prints, and ends its turn. *)
Proceeds(p) ==
  /\ cell[p].at \in {"pass", "turn"}
  /\ Turn(p, IF cell[p].at = "pass" THEN AfterLeft(p) ELSE "turn")
  /\ UNCHANGED <<reading, dataA, dataB, sent>>

Processor(p) == Proceeds(p) \/ \E q \in P : SendsDown(p, q) \/ SendsRight(p, q)
Joined == \A p \in P : cell[p].at = "end"

Next ==
  \/ ReadMatrices
  \/ \E reader \in Readers, p \in P : ReaderSends(reader, p)
  \/ \E p \in P : Processor(p)

Spec == Init /\ [][Next]_vars /\ WF_vars(Next)

-----------------------------------------------------------------------------
TypeOK ==
  /\ dataA \in Matrix(Int) /\ dataB \in Matrix(Int) /\ output \in Matrix(Int)
  /\ sent \in [Readers -> 0..(Size + 1)]
  /\ \A p \in P : cell[p].at \in {"up", "left", "pass", "right", "down", "turn", "end"}

RowByColumn(a, b) ==
  [p \in P |-> FoldFunction(+, 0, [k \in Range0 |-> a[<<p[1], k>>] * b[<<k, p[2]>>]])]

(* When the array has ended, with every EOD passed on, the output is B times A:
   ThreadColReader sends the columns of A down, ThreadRowReader the rows of B to
   the right (thread.cpp:185, 218).  *)
ComputesProduct == Joined => output = RowByColumn(dataB, dataA)

(* What the program should compute: P[i,j] has row i of A and column j of B
   (thread.cpp:167, 200; README, answers 2 and 4).  False, and not checked.  *)
ComputesAB == Joined => output = RowByColumn(dataA, dataB)

(* The array never stops half way. *)
ArrayEnds == <>Joined
=============================================================================
