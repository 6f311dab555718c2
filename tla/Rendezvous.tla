----------------------------- MODULE Rendezvous -----------------------------
(***************************************************************************)
(* What Join and Finish need of a port: a message is only put while a      *)
(* thread waits to receive one, it is not overwritten, and one receiver    *)
(* takes it.                                                               *)
(***************************************************************************)
CONSTANTS Receivers, Messages, Empty

VARIABLES
    slot,      \* the message under way, or Empty
    waiting,   \* the threads that wait to receive
    inbox      \* what each receiver has taken last

Init ==
    /\ slot = Empty
    /\ waiting = {}
    /\ inbox = [t \in Receivers |-> Empty]

Arrive(t) ==
    /\ t \notin waiting
    /\ waiting' = waiting \cup {t}
    /\ UNCHANGED <<slot, inbox>>

Put(m) ==
    /\ slot = Empty
    /\ waiting # {}
    /\ slot' = m
    /\ UNCHANGED <<waiting, inbox>>

Take(t) ==
    /\ t \in waiting
    /\ slot # Empty
    /\ inbox' = [inbox EXCEPT ![t] = slot]
    /\ slot' = Empty
    /\ waiting' = waiting \ {t}

Next ==
    \/ \E t \in Receivers : Arrive(t) \/ Take(t)
    \/ \E m \in Messages : Put(m)

Spec == Init /\ [][Next]_<<slot, waiting, inbox>>

=============================================================================
