------------------------------ MODULE CardGame ------------------------------
(* The card matching game of cs3411/prog4: a server, which polls the sockets of
   two clients without waiting, and clients that wait for the server after each
   guess.  What a client shows of the board is left out: of a state that the
   server sends the model keeps the scores.  *)
EXTENDS Integers, Sequences, FiniteSets

CONSTANTS Pairs       \* pairs on the board, an even number: 26

CardGameAssumption == Pairs \in Nat \ {0} /\ Pairs % 2 = 0

VARIABLES guess, score,        \* the server's
          turn,                \* where its loop is
          toServer, toClient,  \* the connections
          closed,              \* whether the server has closed them
          client,              \* where each client is
          view,                \* the scores a client has received, its own first
          verdict              \* what it tells its player in the end

serverVars == <<guess, score, turn, closed>>
clientVars == <<client, view, verdict>>
vars == <<serverVars, toServer, toClient, clientVars>>

Players == {1, 2}
Other(p) == 3 - p
Cards == 0..(2 * Pairs - 1)
board == [c \in Cards |-> c \div 2]
DRAW == Pairs \div 2       \* 13
WIN == DRAW + 1            \* 14
Board == [kind |-> "board"]
Scores(mine, theirs) == [kind |-> "scores", mine |-> mine, theirs |-> theirs]

Init ==
  /\ guess = [c \in Cards |-> 0] /\ score = [p \in Players |-> 0]
  /\ turn = "first" /\ closed = FALSE
  /\ toServer = [p \in Players |-> <<>>]
  /\ toClient = [p \in Players |-> <<Board, Scores(0, 0)>>]
  /\ client = [p \in Players |-> "receiving"]
  /\ view = [p \in Players |-> <<0, 0>>]
  /\ verdict = [p \in Players |-> "none"]

-----------------------------------------------------------------------------
(* The client's verdict, from what it has received. *)
Says(v) == IF v[1] = WIN THEN "win" ELSE IF v[2] = WIN THEN "lose" ELSE "draw"
Over(v) == v[1] = WIN \/ v[2] = WIN \/ v = <<DRAW, DRAW>>

Sees(p, v) ==
  /\ view' = [view EXCEPT ![p] = v]
  /\ IF Over(v)
     THEN client' = [client EXCEPT ![p] = "closed"] /\ verdict' = [verdict EXCEPT ![p] = Says(v)]
     ELSE client' = [client EXCEPT ![p] = "guessing"] /\ UNCHANGED verdict

ReceivesState(p) ==
  /\ client[p] = "receiving" /\ Len(toClient[p]) >= 2
  /\ Sees(p, <<toClient[p][2].mine, toClient[p][2].theirs>>)
  /\ toClient' = [toClient EXCEPT ![p] = SubSeq(@, 3, Len(@))]
  /\ UNCHANGED <<serverVars, toServer>>

(* A connection that ends is a known loss. *)
SeesEnd(p) ==
  /\ client[p] = "receiving" /\ closed /\ Len(toClient[p]) < 2
  /\ Sees(p, <<view[p][1], WIN>>)
  /\ UNCHANGED <<serverVars, toServer, toClient>>

Guesses(p) ==
  /\ client[p] = "guessing"
  /\ \E c, d \in Cards : c # d /\ toServer' = [toServer EXCEPT ![p] = Append(@, <<c, d>>)]
  /\ client' = [client EXCEPT ![p] = "receiving"]
  /\ UNCHANGED <<serverVars, toClient, view, verdict>>

-----------------------------------------------------------------------------
Decided == WIN \in {score[1], score[2]} \/ score = [p \in Players |-> DRAW]

ServesAgain(p) ==      (* a slip: a pair may be found twice *)
  IF toServer[p] = <<>> THEN UNCHANGED <<guess, score, toServer, toClient>>
  ELSE LET c == Head(toServer[p])[1]  d == Head(toServer[p])[2]
           match == board[c] = board[d]
       IN /\ toServer' = [toServer EXCEPT ![p] = Tail(@)]
          /\ score' = IF match THEN [score EXCEPT ![p] = @ + 1] ELSE score
          /\ guess' = [k \in Cards |-> IF k \notin {c, d} THEN guess[k]
                                       ELSE IF match THEN 2
                                       ELSE IF guess[k] = 0 THEN 1 ELSE guess[k]]
          /\ toClient' = [toClient EXCEPT ![p] = @ \o <<Board, Scores(score'[p], score'[Other(p)])>>]

(* One guess of p, if one has come: a match counts if both cards were unmatched. *)
Serves(p) ==
  IF toServer[p] = <<>> THEN UNCHANGED <<guess, score, toServer, toClient>>
  ELSE LET c == Head(toServer[p])[1]  d == Head(toServer[p])[2]
           match == board[c] = board[d]
       IN /\ toServer' = [toServer EXCEPT ![p] = Tail(@)]
          /\ score' = IF match /\ guess[c] # 2 /\ guess[d] # 2 THEN [score EXCEPT ![p] = @ + 1] ELSE score
          /\ guess' = [k \in Cards |-> IF k \notin {c, d} THEN guess[k]
                                       ELSE IF match THEN 2
                                       ELSE IF guess[k] = 0 THEN 1 ELSE guess[k]]
          /\ toClient' = [toClient EXCEPT ![p] = @ \o <<Board, Scores(score'[p], score'[Other(p)])>>]

ServesFirst ==
  /\ turn = "first"
  /\ IF Decided
     THEN turn' = "boards" /\ UNCHANGED <<guess, score, toServer, toClient>>
     ELSE turn' = "second" /\ Serves(1)
  /\ UNCHANGED <<closed, clientVars>>

ServesSecond ==
  /\ turn = "second" /\ turn' = "first" /\ Serves(2)
  /\ UNCHANGED <<closed, clientVars>>

(* The final state: the board to both, the scores to the first and to the
   second, those of the first player first.  A second write to a connection
   that the client has closed may kill the server, by SIGPIPE. *)
FinalBoards ==
  /\ turn = "boards" /\ turn' = "scores1"
  /\ toClient' = [p \in Players |-> Append(toClient[p], Board)]
  /\ UNCHANGED <<guess, score, closed, toServer, clientVars>>

FinalScores(p, here, there) ==
  /\ turn = here
  /\ \/ /\ turn' = there /\ closed' = (there = "end")
        /\ toClient' = [toClient EXCEPT ![p] = Append(@, Scores(score[1], score[2]))]
     \/ /\ client[p] = "closed"
        /\ turn' = "end" /\ closed' = TRUE /\ UNCHANGED toClient
  /\ UNCHANGED <<guess, score, toServer, clientVars>>

Server ==
  \/ ServesFirst \/ ServesSecond \/ FinalBoards
  \/ FinalScores(1, "scores1", "scores2") \/ FinalScores(2, "scores2", "end")

Next == Server \/ \E p \in Players : ReceivesState(p) \/ SeesEnd(p) \/ Guesses(p)

Spec == Init /\ [][Next]_vars

-----------------------------------------------------------------------------
TypeOK ==
  /\ guess \in [Cards -> 0..2] /\ score \in [Players -> 0..WIN]
  /\ turn \in {"first", "second", "boards", "scores1", "scores2", "end"}
  /\ view \in [Players -> (0..WIN) \X (0..WIN)]

(* Each pair counts once, although guesses of both players cross. *)
EachPairOnce == score[1] + score[2] = Cardinality({c \in Cards : guess[c] = 2}) \div 2

(* Whoever wins learns it, and the first player always learns the result, even
   when the server is killed while it sends the final scores.  The second does
   not: it is told of the first player's victory as of its own. *)
VerdictsTrue ==
  \A p \in Players :
    verdict[p] # "none" /\ (p = 1 \/ score[2] = WIN) =>
      verdict[p] = Says(<<score[p], score[Other(p)]>>)

(* client.c:114: who is told to have won has won. *)
OneWinner == ~ (verdict[1] = "win" /\ verdict[2] = "win")
=============================================================================
