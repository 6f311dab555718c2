------------------------------ MODULE HttpServer ------------------------------
(* The threaded web server of cs4461/prog3.  main accepts connections and starts
   a thread for each; the threads answer and leave the count.  Sections under
   thread_lock are one action; the text of requests and answers is left out.  *)
EXTENDS Integers, FiniteSets

CONSTANTS MaxClients,   \* bound: connections that are opened
          MaxTime,      \* bound: how far time goes
          Initial,      \* threadMax at first: 20
          MAX_CONN,     \* 50
          TIMEOUT       \* 120

ServerAssumption ==
  /\ MaxClients \in Nat /\ MaxTime \in Nat
  /\ Initial \in Nat \ {0} /\ MAX_CONN \in Nat /\ TIMEOUT \in Nat

VARIABLES main,         \* where main is
          i, now, accepted,
          threadCount, threadMax,
          threads, startTime,       \* the arrays, as far as they are written
          thread,                   \* where each thread is
          cancelled,                \* threads with a cancellation pending
          open,                     \* connections whose descriptor is open
          reset                     \* history: all connections were terminated once

arrays == <<threadMax, threads, startTime>>
vars == <<main, i, now, accepted, threadCount, arrays, thread, cancelled, open, reset>>

Clients == 1..MaxClients
Live == {"reading", "serving", "failing", "answering"}
Nothing == [slot \in {} |-> 0]

Init ==
  /\ main = "accept" /\ i = 0 /\ now = 0 /\ accepted = 0
  /\ threadCount = 0 /\ threadMax = Initial
  /\ threads = Nothing /\ startTime = Nothing
  /\ thread = [c \in Clients |-> "none"]
  /\ cancelled = {} /\ open = {} /\ reset = FALSE

Put(f, slot, value) == [k \in DOMAIN f \cup {slot} |-> IF k = slot THEN value ELSE f[k]]

Ticks ==
  /\ now < MaxTime /\ now' = now + 1
  /\ UNCHANGED <<main, i, accepted, threadCount, arrays, thread, cancelled, open, reset>>

-----------------------------------------------------------------------------
(* main *)
Accepts ==
  /\ main = "accept" /\ accepted < MaxClients
  /\ accepted' = accepted + 1 /\ open' = open \cup {accepted + 1}
  /\ main' = "grow"
  /\ UNCHANGED <<i, now, threadCount, arrays, thread, cancelled, reset>>

Grows ==
  /\ main = "grow" /\ main' = "create"
  /\ threadMax' = IF threadCount + 1 > threadMax THEN 2 * threadMax ELSE threadMax
  /\ UNCHANGED <<i, now, accepted, threadCount, threads, startTime, thread, cancelled, open, reset>>

(* The new thread takes the slot at the count, whoever has it. *)
Creates ==
  /\ main = "create" /\ main' = "expire" /\ i' = 0
  /\ threads' = Put(threads, threadCount, accepted)
  /\ startTime' = Put(startTime, threadCount, now)
  /\ thread' = [thread EXCEPT ![accepted] = "reading"]
  /\ threadCount' = threadCount + 1
  /\ UNCHANGED <<now, accepted, threadMax, cancelled, open, reset>>

Expires ==
  /\ main = "expire"
  /\ IF i < threadCount
     THEN /\ i' = i + 1 /\ UNCHANGED main
          /\ cancelled' = IF startTime[i] + TIMEOUT < now THEN cancelled \cup {threads[i]} ELSE cancelled
     ELSE /\ i' = 0 /\ UNCHANGED cancelled
          /\ main' = IF threadCount >= MAX_CONN THEN "terminate" ELSE "accept"
  /\ UNCHANGED <<now, accepted, threadCount, arrays, thread, open, reset>>

(* "Terminating ALL connections": the loop sets the count to 0 in its first turn. *)
Terminates ==
  /\ main = "terminate"
  /\ IF i < threadCount
     THEN /\ i' = i + 1 /\ threadCount' = 0 /\ UNCHANGED <<main, arrays>>
          /\ cancelled' = cancelled \cup {threads[i]} /\ reset' = TRUE
     ELSE /\ i' = 0 /\ main' = "accept" /\ threadMax' = Initial
          /\ threads' = Nothing /\ startTime' = Nothing
          /\ UNCHANGED <<threadCount, cancelled, reset>>
  /\ UNCHANGED <<now, accepted, thread, open>>

(* The handler of SIGINT: whatever main does, the process ends. *)
Interrupted ==
  /\ main # "exit" /\ main' = "exit"
  /\ thread' = [c \in Clients |-> IF thread[c] = "none" THEN "none" ELSE "gone"]
  /\ open' = {}
  /\ UNCHANGED <<i, now, accepted, threadCount, arrays, cancelled, reset>>

-----------------------------------------------------------------------------
(* A thread. *)
Goes(c, here, there) == thread[c] = here /\ thread' = [thread EXCEPT ![c] = there]
Else == UNCHANGED <<main, i, now, accepted, arrays, cancelled, reset>>

(* The request asks for the message, for a file that is or is not there, or is
   no request at all: then the thread ends without leaving the count.  *)
ReadsRequest(c) ==
  /\ \E answer \in {"serving", "failing", "answering", "silent"} : Goes(c, "reading", answer)
  /\ UNCHANGED <<threadCount, open>> /\ Else

(* The message of the command line is sent without closing the connection. *)
Answers(c) ==
  /\ Goes(c, "answering", "leaving") /\ UNCHANGED <<threadCount, open>> /\ Else
SendsFile(c) ==
  /\ Goes(c, "serving", "leaving") /\ open' = open \ {c} /\ UNCHANGED threadCount /\ Else
Sends404(c) ==
  /\ Goes(c, "failing", "leaving") /\ open' = open \ {c} /\ UNCHANGED threadCount /\ Else

LeavesIfAny(c) ==      (* a slip: the last thread is not counted out *)
  /\ Goes(c, "leaving", "ended")
  /\ threadCount' = IF threadCount > 1 THEN threadCount - 1 ELSE threadCount
  /\ UNCHANGED open /\ Else

(* From here on nothing is a cancellation point: the lock is always released. *)
Leaves(c) ==
  /\ Goes(c, "leaving", "ended") /\ threadCount' = threadCount - 1 /\ UNCHANGED open /\ Else

IsCancelled(c) ==
  /\ c \in cancelled /\ thread[c] \in Live
  /\ thread' = [thread EXCEPT ![c] = "cancelled"]
  /\ UNCHANGED <<threadCount, open>> /\ Else

Thread(c) ==
  \/ ReadsRequest(c) \/ Answers(c) \/ SendsFile(c) \/ Sends404(c) \/ Leaves(c) \/ IsCancelled(c)

Next ==
  \/ Ticks \/ Accepts \/ Grows \/ Creates \/ Expires \/ Terminates \/ Interrupted
  \/ main # "exit" /\ \E c \in Clients : Thread(c)

Spec == Init /\ [][Next]_vars

-----------------------------------------------------------------------------
(* The count is that of the threads which have not left it, until all are
   "terminated"; a slot below the count was written before it is read; and the
   array has room for the count although two sections of the lock see to that. *)
Counted == {c \in Clients : thread[c] \notin {"none", "ended"}}
CountTellsThreads ==
  main # "exit" =>
    /\ ~ reset => threadCount = Cardinality(Counted)
    /\ threadCount <= threadMax /\ (main = "create" => threadCount < threadMax)
    /\ ~ reset => 0..(threadCount - 1) \subseteq DOMAIN threads

(* The slots below the count: main.c:274 goes through them to stop all threads. *)
EveryThreadHeld ==
  main = "accept" =>
    \A c \in Clients : thread[c] \in Live => \E slot \in 0..(threadCount - 1) : threads[slot] = c
=============================================================================
