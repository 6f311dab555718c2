---------------------------- MODULE BoatMonitor ----------------------------
(***************************************************************************)
(* Missionaries and cannibals, src/cs3331/prog5: passengers queue in a     *)
(* monitor, and the boat polls two flags to let them board and get off.    *)
(*                                                                         *)
(* The monitor (ThreadMentor, not in the repository) has Hoare semantics:  *)
(* Signal hands the monitor to one waiter and returns when that waiter     *)
(* waits again or leaves.  A passenger waits again or leaves without       *)
(* signalling, so that a whole monitor procedure of the boat is one step.  *)
(*                                                                         *)
(* The arrays pass and pass2 feed the printed passenger list only and are  *)
(* left out; writes at index 3 and above fall into the slack of their heap *)
(* blocks in a 64-bit build, which is the build modelled.                  *)
(***************************************************************************)
EXTENDS Integers, FiniteSets, FiniteSetsExt

CONSTANTS
    Missionaries, Cannibals,
    max_crossings

Passengers == Missionaries \cup Cannibals

BoatAssumption ==
    /\ IsFiniteSet(Passengers)
    /\ Missionaries \cap Cannibals = {}
    /\ max_crossings \in Nat \ {0}

VARIABLES
    ashore,         \* the passengers outside the monitor
    queued,         \* the passengers in MQueue->Wait() or CQueue->Wait()
    aboard,         \* the passengers in GetOff->Wait()
    MQueue_Count, CQueue_Count,
    sailing, valid_boat, boat_loaded,
    p_count,
    cur_cross,
    boat            \* what BoatThread does next

counts == <<MQueue_Count, CQueue_Count>>
vars == <<ashore, queued, aboard, counts, sailing, valid_boat, boat_loaded,
          p_count, cur_cross, boat>>

Init ==
    /\ ashore = Passengers /\ queued = {} /\ aboard = {}
    /\ MQueue_Count = 0 /\ CQueue_Count = 0
    /\ sailing = 0 /\ valid_boat = 0 /\ boat_loaded = 0
    /\ p_count = 0
    /\ cur_cross = 0
    /\ boat = "getCrossings"

-----------------------------------------------------------------------------
(* The passengers, up to the Wait on their queue.                          *)

CallBoat(full) ==
    IF sailing = 0 /\ full
    THEN sailing' = 1 /\ valid_boat' = 1
    ELSE UNCHANGED <<sailing, valid_boat>>

Enqueue(t) ==
    /\ t \in ashore
    /\ ashore' = ashore \ {t}
    /\ queued' = queued \cup {t}
    /\ UNCHANGED <<aboard, boat_loaded, p_count, cur_cross, boat>>

CannibalArrives(t) ==
    /\ t \in Cannibals
    /\ CQueue_Count' = CQueue_Count + 1
    /\ CallBoat(CQueue_Count' >= 3 \/ MQueue_Count >= 2)
    /\ Enqueue(t)
    /\ UNCHANGED MQueue_Count

MissionaryArrives(t) ==
    /\ t \in Missionaries
    /\ MQueue_Count' = MQueue_Count + 1
    /\ CallBoat(MQueue_Count' >= 3 \/ CQueue_Count > 0)
    /\ Enqueue(t)
    /\ UNCHANGED CQueue_Count

-----------------------------------------------------------------------------
(* The boat.                                                               *)

\* The sets of waiters that n calls of Signal may wake: a signal that nobody
\* waits for is lost.
Signalled(n, waiters) == kSubset(Min({n, Cardinality(waiters)}), waiters)

(***************************************************************************)
(* BoatReady, with what the passengers it signals do until they wait on    *)
(* GetOff.  The counts include everybody who ever arrived.                 *)
(***************************************************************************)
BoatReady ==
    LET load ==
        IF MQueue_Count >= 3 THEN [m |-> 3, c |-> 0]
        ELSE IF CQueue_Count >= 3 THEN [m |-> 0, c |-> 3]
        ELSE [m |-> 2, c |-> 1]
    IN  /\ boat = "BoatReady"
        /\ boat' = "getLoaded"
        /\ \E M \in Signalled(load.m, queued \cap Missionaries),
              C \in Signalled(load.c, queued \cap Cannibals) :
            /\ queued' = queued \ (M \cup C)
            /\ aboard' = aboard \cup M \cup C
            /\ p_count' = p_count + Cardinality(M \cup C)
            /\ boat_loaded' = IF p_count < 3 /\ p_count' >= 3 THEN 1 ELSE boat_loaded
        /\ UNCHANGED <<ashore, counts, sailing, valid_boat, cur_cross>>

\* MUTANT of BoatDone: the flags are not reset by the last passenger.
BoatDoneKeepsFlags ==
    /\ boat = "BoatDone"
    /\ boat' = "getCrossings"
    /\ \E off \in Signalled(3, aboard) :
        /\ aboard' = aboard \ off
        /\ ashore' = ashore \cup off
        /\ p_count' = p_count - Cardinality(off)
    /\ sailing' = 0
    /\ cur_cross' = cur_cross + 1
    /\ UNCHANGED <<queued, counts, valid_boat, boat_loaded>>

\* MUTANT of BoatDone: `sailing = 0' is missing.
\* BoatDone, with what the passengers it signals do until they leave.
BoatDone ==
    /\ boat = "BoatDone"
    /\ boat' = "getCrossings"
    /\ \E off \in Signalled(3, aboard) :
        /\ aboard' = aboard \ off
        /\ ashore' = ashore \cup off
        /\ p_count' = p_count - Cardinality(off)
        /\ IF off # {} /\ p_count' = 0
           THEN valid_boat' = 0 /\ boat_loaded' = 0
           ELSE UNCHANGED <<valid_boat, boat_loaded>>
    /\ sailing' = 0
    /\ cur_cross' = cur_cross + 1
    /\ UNCHANGED <<queued, counts>>

\* The three tests of BoatThread::ThreadFunc read the monitor without
\* entering it.
Poll(test, holds, then, else) ==
    /\ boat = test
    /\ boat' = IF holds THEN then ELSE else
    /\ UNCHANGED <<ashore, queued, aboard, counts, sailing, valid_boat, boat_loaded,
                   p_count, cur_cross>>

\* MUTANT of BoatThread: one crossing too many.
BoatThreadOnceMore ==
    \/ Poll("getCrossings", cur_cross <= max_crossings, "getValid", "Exit")
    \/ Poll("getValid", valid_boat # 0, "BoatReady", "getLoaded")
    \/ BoatReady
    \/ Poll("getLoaded", boat_loaded # 0, "BoatDone", "getCrossings")
    \/ BoatDone

BoatThread ==
    \/ Poll("getCrossings", cur_cross < max_crossings, "getValid", "Exit")
    \/ Poll("getValid", valid_boat # 0, "BoatReady", "getLoaded")
    \/ BoatReady
    \/ Poll("getLoaded", boat_loaded # 0, "BoatDone", "getCrossings")
    \/ BoatDone

Next ==
    \/ \E t \in Passengers : CannibalArrives(t) \/ MissionaryArrives(t)
    \/ BoatThread

Spec == Init /\ [][Next]_vars

\* Every thread runs, and every passenger comes back to the river.
Fairness ==
    /\ \A t \in Passengers : WF_vars(CannibalArrives(t) \/ MissionaryArrives(t))
    /\ WF_vars(BoatThread)

FairSpec == Spec /\ Fairness

-----------------------------------------------------------------------------
(* Properties.                                                             *)

TypeOK ==
    /\ {ashore, queued, aboard} \subseteq SUBSET Passengers
    /\ MQueue_Count \in Nat /\ CQueue_Count \in Nat
    /\ {sailing, valid_boat, boat_loaded} \subseteq {0, 1}
    /\ p_count \in Nat
    /\ cur_cross \in 0..max_crossings
    /\ boat \in {"getCrossings", "getValid", "BoatReady", "getLoaded", "BoatDone", "Exit"}

\* The flags the boat polls without entering the monitor stay true until it
\* acts on them, and agree with who is where: a load that was announced is
\* still valid, and a loaded boat is not empty.
FlagsAgree ==
    /\ p_count = Cardinality(aboard)
    /\ ashore \cup queued \cup aboard = Passengers
    /\ sailing = 1 => valid_boat = 1
    /\ boat_loaded = 1 => valid_boat = 1 /\ p_count > 0
    /\ boat = "BoatReady" => valid_boat = 1
    /\ boat = "BoatDone" => boat_loaded = 1

\* Both, which is what the tests of BoatThread rely on (thread.cpp:70).
BoatSafe == TypeOK /\ FlagsAgree

\* Section 4 of the README, that every boat is safe: three missionaries, three
\* cannibals, or two missionaries and one cannibal.
BoatIsSafe ==
    boat = "BoatDone" =>
        \/ aboard \cap Missionaries = {}
        \/ Cardinality(aboard \cap Cannibals) <= Cardinality(aboard \cap Missionaries)

\* All the crossings are made when there are at least three missionaries; with
\* fewer the boat can wait for missionaries that are already aboard.
AllCrossingsMade == <>(boat = "Exit")

=============================================================================
