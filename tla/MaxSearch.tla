------------------------------ MODULE MaxSearch ------------------------------
(* The maximum of n numbers by n(n-1)/2 threads, cs3331/prog3.  main starts a
   thread that sets each flag, joins them and starts one seeker for each pair of
   indices; the last seeker signals the wall, behind which one thread waits for
   each index.  Output is modelled by what is printed last.  *)
EXTENDS Integers, FiniteSets

CONSTANTS size,     \* how many numbers
          Values    \* the numbers they are taken from

MaxSearchAssumption == size \in Nat /\ Values \subseteq Int

VARIABLES main,               \* where main is
          x, w,               \* the numbers and their flags
          initialized, sought, counted, waited, finished,  \* how far the threads are
          s_count, wall, f_wall,
          printed             \* the indices printed as that of the maximum

started == <<initialized, sought, counted, waited, finished>>
vars == <<main, x, w, started, s_count, wall, f_wall, printed>>

Indices == 0..(size - 1)
Seekers == {p \in Indices \X Indices : p[1] < p[2]}
num_seekers == Cardinality(Seekers)

Init ==
  /\ main = "start"
  /\ x = [i \in Indices |-> 0] /\ w = [i \in Indices |-> 0]
  /\ initialized = {} /\ sought = {} /\ counted = {} /\ waited = {} /\ finished = {}
  /\ s_count = 0 /\ wall = 0 /\ f_wall = 0 /\ printed = {}

ReadArguments ==
  /\ main = "start" /\ main' = "init"
  /\ x' \in [Indices -> Values]
  /\ UNCHANGED <<w, started, s_count, wall, f_wall, printed>>

Initializes(i) ==
  /\ main = "init" /\ i \notin initialized
  /\ initialized' = initialized \cup {i} /\ w' = [w EXCEPT ![i] = 1]
  /\ UNCHANGED <<main, x, sought, counted, waited, finished, s_count, wall, f_wall, printed>>

(* main has joined the first team. *)
StartsSeekers ==
  /\ main = "init" /\ initialized = Indices /\ main' = "seek"
  /\ UNCHANGED <<x, w, started, s_count, wall, f_wall, printed>>

(* The comparison: of two equal numbers the first stays. *)
Compares(p) ==
  /\ main # "start" /\ main # "init" /\ p \notin sought
  /\ sought' = sought \cup {p}
  /\ w' = [w EXCEPT ![IF x[p[1]] < x[p[2]] THEN p[1] ELSE p[2]] = 0]
  /\ UNCHANGED <<main, x, initialized, counted, waited, finished, s_count, wall, f_wall, printed>>

CountsEarly(p) ==      (* a slip: the last but one opens the wall *)
  /\ p \in sought \ counted
  /\ counted' = counted \cup {p} /\ s_count' = s_count + 1
  /\ wall' = IF s_count + 1 >= num_seekers - 1 THEN wall + size ELSE wall
  /\ UNCHANGED <<main, x, w, initialized, sought, waited, finished, f_wall, printed>>

(* The section under s_lock. *)
Counts(p) ==
  /\ p \in sought \ counted
  /\ counted' = counted \cup {p} /\ s_count' = s_count + 1
  /\ wall' = IF s_count + 1 = num_seekers THEN wall + size ELSE wall
  /\ UNCHANGED <<main, x, w, initialized, sought, waited, finished, f_wall, printed>>

PassesWall(i) ==
  /\ main # "start" /\ i \notin waited /\ wall > 0
  /\ waited' = waited \cup {i} /\ wall' = wall - 1
  /\ UNCHANGED <<main, x, w, initialized, sought, counted, finished, s_count, f_wall, printed>>

PrintsMaximum(i) ==
  /\ i \in waited \ finished
  /\ finished' = finished \cup {i}
  /\ IF w[i] = 1
     THEN printed' = printed \cup {i} /\ f_wall' = f_wall + 1
     ELSE UNCHANGED <<printed, f_wall>>
  /\ UNCHANGED <<main, x, w, initialized, sought, counted, waited, s_count, wall>>

Ends ==
  /\ main = "seek" /\ f_wall > 0
  /\ main' = "end" /\ f_wall' = f_wall - 1
  /\ UNCHANGED <<x, w, started, s_count, wall, printed>>

Seeker(p) == Compares(p) \/ Counts(p)
Greatest(i) == PassesWall(i) \/ PrintsMaximum(i)
Main == ReadArguments \/ StartsSeekers \/ Ends

Next ==
  \/ Main
  \/ \E i \in Indices : Initializes(i) \/ Greatest(i)
  \/ \E p \in Seekers : Seeker(p)

Spec ==
  /\ Init /\ [][Next]_vars
  /\ WF_vars(Main)
  /\ \A i \in Indices : WF_vars(Initializes(i)) /\ WF_vars(Greatest(i))
  /\ \A p \in Seekers : WF_vars(Seeker(p))

-----------------------------------------------------------------------------
TypeOK ==
  /\ main \in {"start", "init", "seek", "end"}
  /\ x \in [Indices -> Int] /\ w \in [Indices -> {0, 1}]
  /\ initialized \subseteq Indices /\ finished \subseteq waited /\ waited \subseteq Indices
  /\ counted \subseteq sought /\ sought \subseteq Seekers
  /\ s_count \in Nat /\ wall \in Nat /\ f_wall \in Nat /\ printed \subseteq finished

(* What is printed is the maximum, in whatever order the pairs were compared,
   and of equal maxima the first. *)
PrintsTheMaximum ==
  \A i \in printed : \A j \in Indices : x[j] <= x[i] /\ (j < i => x[j] < x[i])

(* The program prints a maximum and ends, if there is a pair to compare. *)
MaximumFound == size > 1 => <>(main = "end" /\ printed # {})
=============================================================================
