---------------------------- MODULE ProcessTree ----------------------------
(***************************************************************************)
(* What Exec, Exit and Join promise of a tree of processes: a process      *)
(* exits after all the children it created have been joined, its exit      *)
(* status reaches its parent, and it is joined once.                       *)
(***************************************************************************)
CONSTANTS Threads, Root

VARIABLES
    phase,      \* of every process: "new", "alive", "exited" or "joined"
    children    \* of every process, those it has to join

Init ==
    /\ phase = [t \in Threads |-> IF t = Root THEN "alive" ELSE "new"]
    /\ children = [t \in Threads |-> {}]

Advance(t, from, to) == phase[t] = from /\ phase' = [phase EXCEPT ![t] = to]

Exec(t, c) ==
    /\ phase[t] = "alive"
    /\ Advance(c, "new", "alive")
    /\ children' = [children EXCEPT ![t] = @ \cup {c}]

Exit(t) ==
    /\ t # Root
    /\ children[t] = {}
    /\ Advance(t, "alive", "exited")
    /\ UNCHANGED children

Join(t, c) ==
    /\ phase[t] = "alive"
    /\ c \in children[t]
    /\ Advance(c, "exited", "joined")
    /\ children' = [children EXCEPT ![t] = @ \ {c}]

Next == \E t \in Threads : Exit(t) \/ \E c \in Threads : Exec(t, c) \/ Join(t, c)

Spec == Init /\ [][Next]_<<phase, children>>

=============================================================================
