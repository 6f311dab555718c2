------------------------- MODULE ForkedComputations -------------------------
(* cs3331/prog1: main forks four processes, which sort random numbers, compute
   a Fibonacci number and estimate two areas, and waits until all have ended.
   The random numbers are any; sin and the areas are left out, so that a trial
   of Buffon's needle or of the integration is a hit or not.  Output is modelled
   by what each process prints last.  *)
EXTENDS Integers, FiniteSets, Functions

CONSTANTS m, n, r, s,   \* the arguments: numbers, Fibonacci, trials of either kind
          Numbers       \* rand()%100

VARIABLES phase,        \* of each process
          heap, index,  \* the numbers; start or end of heapSort
          generated,    \* history: the numbers as they were generated
          trials, hits, \* i and t of the two processes that count
          result        \* what each process prints

vars == <<phase, heap, index, generated, trials, hits, result>>

Counters == [buffon |-> r, integration |-> s]
Children == {"heapSort", "fibonacci"} \cup DOMAIN Counters
Cells == 0..(m - 1)
NotYet == -1

Init ==
  /\ phase = [p \in Children \cup {"main"} |-> IF p = "main" THEN "waits" ELSE "starts"]
  /\ heap = [i \in Cells |-> 0] /\ index = 0 /\ generated = heap
  /\ trials = [c \in DOMAIN Counters |-> 0] /\ hits = trials
  /\ result = [p \in {"fibonacci"} \cup DOMAIN Counters |-> NotYet]

-----------------------------------------------------------------------------
(* heapDown: the number at root goes down while a child is larger. *)
SWAP(f, i, j) == [f EXCEPT ![i] = f[j], ![j] = f[i]]
LargerChild(f, root, end) ==
  LET left == 2 * root + 1 IN
  IF left + 1 < end /\ f[left] < f[left + 1] THEN left + 1 ELSE left

heapDownLeft(array, start, end) ==      (* a slip: the right child is not looked at *)
  LET child == 2 * start + 1 IN
  IF child < end /\ array[start] < array[child] THEN SWAP(array, child, start) ELSE array

heapDown(array, start, end) ==
  LET down[f \in [DOMAIN array -> Range(array)], root \in DOMAIN array] ==
        LET child == LargerChild(f, root, end) IN
        IF 2 * root + 1 < end /\ f[root] < f[child] THEN down[SWAP(f, child, root), child] ELSE f
  IN down[array, start]

Half(k) == IF k < 0 THEN 0 ELSE k \div 2     \* C's (size-2)/2 for a size above 0

Generates ==
  /\ phase["heapSort"] = "starts" /\ phase' = [phase EXCEPT !["heapSort"] = "building"]
  /\ heap' \in [Cells -> Numbers] /\ generated' = heap' /\ index' = Half(m - 2)
  /\ UNCHANGED <<trials, hits, result>>

Builds ==
  /\ phase["heapSort"] = "building"
  /\ IF index >= 0 /\ m > 0
     THEN heap' = heapDown(heap, index, m) /\ index' = index - 1 /\ UNCHANGED phase
     ELSE index' = m - 1 /\ phase' = [phase EXCEPT !["heapSort"] = "sorting"] /\ UNCHANGED heap
  /\ UNCHANGED <<generated, trials, hits, result>>

Sorts ==
  /\ phase["heapSort"] = "sorting"
  /\ IF index > 0
     THEN heap' = heapDown(SWAP(heap, index, 0), 0, index) /\ index' = index - 1 /\ UNCHANGED phase
     ELSE phase' = [phase EXCEPT !["heapSort"] = "exits"] /\ UNCHANGED <<heap, index>>
  /\ UNCHANGED <<generated, trials, hits, result>>

-----------------------------------------------------------------------------
fibonacci[k \in Nat] == IF k < 2 THEN k ELSE fibonacci[k - 1] + fibonacci[k - 2]

Fibonacci ==
  /\ phase["fibonacci"] = "starts" /\ phase' = [phase EXCEPT !["fibonacci"] = "exits"]
  /\ result' = [result EXCEPT !["fibonacci"] = fibonacci[n]]
  /\ UNCHANGED <<heap, index, generated, trials, hits>>

Tries(c) ==
  /\ phase[c] = "starts" /\ trials[c] < Counters[c]
  /\ trials' = [trials EXCEPT ![c] = @ + 1]
  /\ \E hit \in {0, 1} : hits' = [hits EXCEPT ![c] = @ + hit]
  /\ UNCHANGED <<phase, heap, index, generated, result>>

Estimates(c) ==
  /\ phase[c] = "starts" /\ trials[c] >= Counters[c]
  /\ phase' = [phase EXCEPT ![c] = "exits"] /\ result' = [result EXCEPT ![c] = hits[c]]
  /\ UNCHANGED <<heap, index, generated, trials, hits>>

(* wait(0) returns a child that has exited, or fails when there is none left. *)
Waits(p) ==
  /\ phase["main"] = "waits" /\ phase[p] = "exits"
  /\ phase' = [phase EXCEPT ![p] = "waited"]
  /\ UNCHANGED <<heap, index, generated, trials, hits, result>>

MainExits ==
  /\ phase["main"] = "waits" /\ \A p \in Children : phase[p] = "waited"
  /\ phase' = [phase EXCEPT !["main"] = "exits"]
  /\ UNCHANGED <<heap, index, generated, trials, hits, result>>

Next ==
  \/ Generates \/ Builds \/ Sorts \/ Fibonacci \/ MainExits
  \/ \E c \in DOMAIN Counters : Tries(c) \/ Estimates(c)
  \/ \E p \in Children : Waits(p)

Spec == Init /\ [][Next]_vars

-----------------------------------------------------------------------------
Times(f, v) == Cardinality({k \in DOMAIN f : f[k] = v})

(* While heapSort sorts, the numbers up to index are a heap, those behind are
   sorted and no smaller; when main has ended all are sorted.  At any time each
   number is there as often as it was generated.  *)
HeapSortWorks ==
  /\ \A v \in Numbers : Times(heap, v) = Times(generated, v)
  /\ phase["heapSort"] = "sorting" =>
       /\ \A k \in 1..index : heap[k] <= heap[(k - 1) \div 2]
       /\ \A k \in (index + 1)..(m - 1) : \A i \in 0..(k - 1) : heap[i] <= heap[k]
  /\ phase["main"] = "exits" => \A k \in Cells \ {0} : heap[k - 1] <= heap[k]
=============================================================================
