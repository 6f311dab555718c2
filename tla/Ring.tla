-------------------------------- MODULE Ring --------------------------------
(* The ring of cs3411/prog3: ring forks the processes and joins their standard
   input and output with pipes; link adds one to what it reads and writes it on.
   The user presses return to send SIGUSR1 to the first link, and again to send
   SIGTERM to all.  sleep and the output to the terminal are left out.  *)
EXTENDS Integers, Sequences, FiniteSets

CONSTANTS num_procs,
          MaxCount     \* bound: the count at which the model stops

RingAssumption == num_procs \in 2..100 /\ MaxCount \in Nat

VARIABLES link,      \* where each process is
          flag,      \* set by the first link's handler
          count,     \* of each process
          pipe,      \* pipe[k] is read by link k
          parent     \* where ring is: the child it is about to fork or to kill

vars == <<link, flag, count, pipe, parent>>

Links == 0..(num_procs - 1)
After(k) == (k + 1) % num_procs
Before(k) == (k - 1) % num_procs
Alive(k) == link[k] \notin {"none", "dead"}

Init ==
  /\ link = [k \in Links |-> "none"] /\ flag = FALSE
  /\ count = [k \in Links |-> 0] /\ pipe = [k \in Links |-> <<>>]
  /\ parent = [at |-> "forking", child |-> 0]

(* The ends of special, the pipe into the first link, stay open in the children
   between the first and the last; the others are closed everywhere else.  *)
Keepers(k) == IF k = 0 THEN 1..(num_procs - 2) ELSE {}
Writers(k) == {w \in {Before(k)} \cup Keepers(k) : Alive(w)}
PipeReaders(k) == {d \in {k} \cup Keepers(k) : Alive(d)}

Forks ==
  /\ parent.at = "forking"
  /\ link' = [link EXCEPT ![parent.child] = "starting"]
  /\ parent' = IF parent.child = num_procs - 1 THEN [at |-> "signalling", child |-> 0]
               ELSE [parent EXCEPT !.child = @ + 1]
  /\ UNCHANGED <<flag, count, pipe>>

(* The first return.  Before link has installed its handler the signal kills. *)
SendsUsr1 ==
  /\ parent.at = "signalling" /\ parent' = [parent EXCEPT !.at = "killing"]
  /\ IF link[0] = "starting"
     THEN link' = [link EXCEPT ![0] = "dead"] /\ UNCHANGED flag
     ELSE flag' = TRUE /\ UNCHANGED link
  /\ UNCHANGED <<count, pipe>>

SendsTermShort ==      (* a slip: the loop ends one too early *)
  /\ parent.at = "killing"
  /\ link' = [link EXCEPT ![parent.child] = "dead"]
  /\ parent' = IF parent.child = num_procs - 2 THEN [at |-> "exited", child |-> 0]
               ELSE [parent EXCEPT !.child = @ + 1]
  /\ UNCHANGED <<flag, count, pipe>>

(* The second return, and the loop of kills.  *)
SendsTerm ==
  /\ parent.at = "killing"
  /\ link' = [link EXCEPT ![parent.child] = "dead"]
  /\ parent' = IF parent.child = num_procs - 1 THEN [at |-> "exited", child |-> 0]
               ELSE [parent EXCEPT !.child = @ + 1]
  /\ UNCHANGED <<flag, count, pipe>>

Starts(k) ==
  /\ link[k] = "starting"
  /\ link' = [link EXCEPT ![k] = IF k = 0 THEN "spinning" ELSE "reading"]
  /\ UNCHANGED <<flag, count, pipe, parent>>

(* A write into a pipe that nobody reads kills the writer (SIGPIPE). *)
Puts(k, value) ==
  IF PipeReaders(After(k)) # {}
  THEN /\ pipe' = [pipe EXCEPT ![After(k)] = Append(@, value)]
       /\ link' = [link EXCEPT ![k] = "reading"]
  ELSE link' = [link EXCEPT ![k] = "dead"] /\ UNCHANGED pipe

WritesZero(k) ==
  /\ link[k] = "spinning" /\ flag /\ Puts(k, 0)
  /\ UNCHANGED <<flag, count, parent>>

Reads(k) ==
  /\ link[k] = "reading" /\ pipe[k] # <<>> /\ Head(pipe[k]) < MaxCount
  /\ count' = [count EXCEPT ![k] = Head(pipe[k]) + 1]
  /\ pipe' = [pipe EXCEPT ![k] = Tail(@)]
  /\ link' = [link EXCEPT ![k] = "writing"]
  /\ UNCHANGED <<flag, parent>>

(* At the end of the pipe read returns 0, which is not an error: the count of
   the turn before is used again. *)
ReadsEnd(k) ==
  /\ link[k] = "reading" /\ pipe[k] = <<>> /\ Writers(k) = {} /\ count[k] < MaxCount
  /\ parent.at # "forking"
  /\ count' = [count EXCEPT ![k] = @ + 1]
  /\ link' = [link EXCEPT ![k] = "writing"]
  /\ UNCHANGED <<flag, pipe, parent>>

WritesTwice(k) ==      (* a slip: the link writes again *)
  /\ link[k] = "writing" /\ Puts(k, count[k] + 1)
  /\ UNCHANGED <<flag, count, parent>>

Writes(k) ==
  /\ link[k] = "writing" /\ Puts(k, count[k])
  /\ UNCHANGED <<flag, count, parent>>

Link(k) == Starts(k) \/ WritesZero(k) \/ Reads(k) \/ ReadsEnd(k) \/ Writes(k)
Next == Forks \/ SendsUsr1 \/ SendsTerm \/ \E k \in Links : Link(k)

(* Having killed the first link, ring goes on to the others. *)
Kills == parent.at = "killing" /\ parent.child > 0 /\ SendsTerm

Spec == Init /\ [][Next]_vars /\ WF_vars(Kills)

-----------------------------------------------------------------------------
(* While the first link has not been killed, one count is under way, and the
   link that holds it has its own number (modulo their number). *)
Tokens == {k \in Links : pipe[k] # <<>> \/ link[k] = "writing"}
OneToken ==
  (parent.at = "killing" /\ parent.child = 0 /\ Alive(0)) =>
    /\ Cardinality(Tokens) <= 1
    /\ \A k \in Links :
         /\ link[k] = "writing" => pipe[k] = <<>> /\ count[k] % num_procs = k
         /\ Len(pipe[k]) <= 1

(* Once ring has begun to kill, no process is left in the end, whatever the
   kills do to the pipes between them. *)
NoLinkLeft == parent.at = "killing" /\ parent.child > 0 ~> \A k \in Links : ~ Alive(k)
=============================================================================
