----------------------------- MODULE MergeSort -----------------------------
(* Sorting by processes, cs3331/prog2.  main reads three arrays into shared
   memory and forks ./merge and ./qsort; merge forks a process for each element
   of x and of y, qsort two processes for the halves of a.  Each parent waits for
   its children, and main prints a result when the process that made it exits.  *)
EXTENDS Integers, Sequences, FiniteSets, SequencesExt

CONSTANTS Arrays,   \* what a may be: sequences of integers (a[i] is the i+1st)
          Inputs    \* what x and y may be: sorted sequences

VARIABLES pc,                     \* where main, merge and qsort are
          x, y, o, a,             \* the shared memory
          forked, finished,       \* the children of merge
          todo,                   \* intervals each qsort process has yet to sort
          printed,                \* what main printed of o and of a
          given                   \* history: what a was when it was read

vars == <<pc, x, y, o, a, forked, finished, todo, printed, given>>

Qsorts == {"left", "right", "parent"}

Init ==
  /\ pc = [main |-> "reading", merge |-> "none", qsort |-> "none"]
  /\ x = <<>> /\ y = <<>> /\ o = <<>> /\ a = <<>>
  /\ forked = {} /\ finished = {}
  /\ todo = [q \in Qsorts |-> <<>>]
  /\ printed = [merge |-> <<>>, qsort |-> <<>>] /\ given = <<>>

(* main: reads the arrays, creates the shared memory (zeroed) and forks twice. *)
Reads ==
  /\ pc.main = "reading"
  /\ x' \in Inputs /\ y' \in Inputs /\ a' \in Arrays /\ given' = a'
  /\ o' = [k \in 1..(Len(x') + Len(y')) |-> 0]
  /\ pc' = [main |-> "waiting", merge |-> "forking", qsort |-> "forking"]
  /\ UNCHANGED <<forked, finished, todo, printed>>

-----------------------------------------------------------------------------
(* merge.c: one process for each element, in the order of the fork loops. *)
Children == {<<"x", k>> : k \in DOMAIN x} \cup {<<"y", k>> : k \in DOMAIN y}
InOrder(c, d) == (c[1] = "x" /\ d[1] = "y") \/ (c[1] = d[1] /\ c[2] < d[2])

MergeForks(c) ==
  /\ pc.merge = "forking" /\ c \in Children \ forked
  /\ \A d \in Children : InOrder(d, c) => d \in forked
  /\ forked' = forked \cup {c}
  /\ UNCHANGED <<pc, x, y, o, a, finished, todo, printed, given>>

At(f, k) == IF k <= Len(f) THEN f[k] ELSE 0       \* the page behind is zero

(* How many elements g has before the first that is not smaller than v. *)
Smaller(g, v) == CHOOSE n \in 0..Len(g) : (\A k \in 1..n : g[k] < v) /\ (n < Len(g) => g[n + 1] >= v)

(* strcmp is zero on equal strings: the child of "y" handles an element of x,
   the child of "x" one of y.  *)
Places(c) ==
  /\ c \in forked \ finished /\ finished' = finished \cup {c}
  /\ LET mine  == IF c[1] = "y" THEN x ELSE y
         other == IF c[1] = "y" THEN y ELSE x
         slot  == Smaller(other, At(mine, c[2])) + c[2]
     IN o' = IF slot \in DOMAIN o THEN [o EXCEPT ![slot] = At(mine, c[2])] ELSE o
  /\ UNCHANGED <<pc, x, y, a, forked, todo, printed, given>>

MergeExits ==
  /\ pc.merge = "forking" /\ finished = Children
  /\ pc' = [pc EXCEPT !.merge = "exited"]
  /\ UNCHANGED <<x, y, o, a, forked, finished, todo, printed, given>>

-----------------------------------------------------------------------------
(* qsort.c *)
Swap(f, i, j) == [f EXCEPT ![i] = f[j], ![j] = f[i]]
Least(S) == CHOOSE k \in S : \A m \in S : k <= m
Greatest(S) == CHOOSE k \in S : \A m \in S : k >= m

(* partition around the pivot a[l]: the array and the index the pivot gets. *)
partition(array, l, r) ==
  LET pivot == array[l]
      up(f, i) == Least({k \in (i + 1)..(r + 1) : k > r \/ f[k] > pivot})
      down(f, j) == Greatest({k \in l..(j - 1) : f[k] <= pivot})
      loop[f \in [DOMAIN array -> ToSet(array)], i \in l..(r + 1), j \in l..(r + 1)] ==
        LET i2 == up(f, i)  j2 == down(f, j) IN
        IF i2 >= j2 THEN <<Swap(f, l, j2), j2>> ELSE loop[Swap(f, i2, j2), i2, j2]
  IN loop[array, l, r + 1]

middle == (Len(a) - 1) \div 2 + 1
QsortForks ==
  /\ pc.qsort = "forking" /\ pc' = [pc EXCEPT !.qsort = "waiting"]
  /\ todo' = [todo EXCEPT !["left"] = <<<<1, middle>>>>,
                          !["right"] = <<<<middle + 1, Len(a)>>>>]
  /\ UNCHANGED <<x, y, o, a, forked, finished, printed, given>>

(* quickSort of the next interval: its two parts come next. *)
QuickSorts(q) ==
  /\ todo[q] # <<>>
  /\ LET l == todo[q][1][1]  r == todo[q][1][2]
         split == partition(a, l, r)
     IN IF l < r
        THEN /\ a' = split[1]
             /\ todo' = [todo EXCEPT ![q] = <<<<l, split[2] - 1>>, <<split[2] + 1, r>>>> \o Tail(@)]
        ELSE todo' = [todo EXCEPT ![q] = Tail(@)] /\ UNCHANGED a
  /\ UNCHANGED <<pc, x, y, o, forked, finished, printed, given>>

(* When both children are done the parent sorts the whole. *)
ChildrenDone == todo["left"] = <<>> /\ todo["right"] = <<>>
QsortMerges ==
  /\ pc.qsort = "waiting" /\ ChildrenDone
  /\ pc' = [pc EXCEPT !.qsort = "merging"]
  /\ todo' = [todo EXCEPT !["parent"] = <<<<1, Len(a)>>>>]
  /\ UNCHANGED <<x, y, o, a, forked, finished, printed, given>>

QsortExits ==
  /\ pc.qsort = "merging" /\ todo["parent"] = <<>>
  /\ pc' = [pc EXCEPT !.qsort = "exited"]
  /\ UNCHANGED <<x, y, o, a, forked, finished, todo, printed, given>>

-----------------------------------------------------------------------------
(* main's waitpid loop, and what follows it: the shared memory is removed. *)
Prints(child, array) ==
  /\ pc.main = "waiting" /\ pc[child] = "exited"
  /\ printed' = [printed EXCEPT ![child] = array]
  /\ pc' = [pc EXCEPT ![child] = "waited"]
  /\ UNCHANGED <<x, y, o, a, forked, finished, todo, given>>

RemovesMemory ==
  /\ pc.main = "waiting" /\ pc.merge = "waited" /\ pc.qsort = "waited"
  /\ pc' = [pc EXCEPT !.main = "end"]
  /\ x' = <<>> /\ y' = <<>> /\ o' = <<>> /\ a' = <<>>
  /\ UNCHANGED <<forked, finished, todo, printed, given>>

Next ==
  \/ Reads
  \/ \E c \in Children : MergeForks(c) \/ Places(c)
  \/ MergeExits
  \/ QsortForks \/ QsortMerges \/ QsortExits
  \/ \E q \in Qsorts : QuickSorts(q)
  \/ Prints("merge", o) \/ Prints("qsort", a) \/ RemovesMemory

Spec == Init /\ [][Next]_vars /\ WF_vars(Next)

-----------------------------------------------------------------------------
Sorted(f) == \A i, j \in DOMAIN f : i < j => f[i] <= f[j]
Rearranged(f, g) ==            \* the same elements, each as often
  Len(f) = Len(g) /\ \A v \in ToSet(f) \cup ToSet(g) :
    Cardinality({k \in DOMAIN f : f[k] = v}) = Cardinality({k \in DOMAIN g : g[k] = v})

(* The two children of qsort and their parent share the array without a lock:
   what main prints is sorted, and nothing that was read is lost or repeated. *)
QsortSorts == printed.qsort # <<>> => Sorted(printed.qsort) /\ Rearranged(printed.qsort, given)

(* Of two arrays of the same length without a value in common, merge makes one
   sorted array that holds both.  Of others it does not: a value of both arrays
   has one place, and of the longer of two arrays the end is lost. *)
MergePrintsBoth ==
  (pc.main # "end" /\ pc.merge = "waited" /\ Len(x) = Len(y) /\ ToSet(x) \cap ToSet(y) = {})
    => Sorted(printed.merge) /\ ToSet(printed.merge) = ToSet(x) \cup ToSet(y)
=============================================================================
