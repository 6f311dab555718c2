------------------------ MODULE NachosKernel_proofs ------------------------
(***************************************************************************)
(* What each operation of NachosKernel preserves, whatever client calls    *)
(* it.  The modules of the clients cite these lemmas.                      *)
(***************************************************************************)
EXTENDS NachosKernel, FiniteSetTheorems, SequenceTheorems, TLAPS

\* OnePlace without its fourth part, which a thread that has ended breaks:
\* Thread::Finish puts it to sleep on no semaphore.
Placed ==
    /\ OnCPU
    /\ ReadyListHoldsReady
    /\ \A s \in Semaphores : QueueHoldsBlocked(s)
    /\ NewThreadsAreNowhere

KernelInv == KernelTypeOK /\ Placed /\ ReadyListSorted /\ NoLostWakeup

LEMMA OnePlaceParts == OnePlace <=> Placed /\ BlockedWaitsOnSemaphore
BY DEF OnePlace, Placed

-----------------------------------------------------------------------------
(* The ready list.                                                         *)

\* The types of a list's length and of its elements' fields.
LEMMA ListElementTypes ==
    ASSUME NEW list \in Seq(ListElement)
    PROVE  /\ Len(list) \in Nat
           /\ \A i \in 1..Len(list) :
                list[i] \in ListElement /\ list[i].item \in Threads /\ list[i].key \in Nat
<1>1. Len(list) \in Nat /\ list \in [1..Len(list) -> ListElement]
  BY LenProperties
<1>2. \A e \in ListElement : e.item \in Threads /\ e.key \in Nat
  BY DEF ListElement
<1> QED
  BY <1>1, <1>2

\* The insertion position of List::SortedInsert lies in the list or just
\* behind it.
LEMMA InsertPositionType ==
    ASSUME NEW list \in Seq(ListElement), NEW k \in Nat
    PROVE  InsertPosition(list, k) \in 1..Len(list) + 1
<1> DEFINE S == {i \in 1..Len(list) : list[i].key <= k}
<1>1. Len(list) \in Nat
  OBVIOUS
<1>2. IsFiniteSet(1..Len(list)) /\ Cardinality(1..Len(list)) = Len(list)
  BY <1>1, FS_Interval, SMTT(60)
<1>3. S \in SUBSET (1..Len(list))
  OBVIOUS
<1>4. IsFiniteSet(S) /\ Cardinality(S) <= Len(list)
  BY <1>2, <1>3, FS_Subset
<1>5. Cardinality(S) \in Nat
  BY <1>4, FS_CardinalityType
<1> QED
  BY <1>1, <1>4, <1>5 DEF InsertPosition

\* In a sorted list the elements in front of the insertion position are
\* exactly those whose key is not larger than the new one.
LEMMA InsertPositionSplits ==
    ASSUME NEW list \in Seq(ListElement), Sorted(list), NEW k \in Nat,
           NEW i \in 1..Len(list)
    PROVE  i < InsertPosition(list, k) <=> list[i].key <= k
<1> DEFINE S == {j \in 1..Len(list) : list[j].key <= k}
           m == Cardinality(S)
<1>1. Len(list) \in Nat /\ \A j \in 1..Len(list) : list[j].key \in Nat
  BY ListElementTypes
<1>2. IsFiniteSet(1..Len(list))
  BY <1>1, FS_Interval
<1>3. IsFiniteSet(S) /\ m \in Nat
  BY <1>2, FS_Subset, FS_CardinalityType
<1>4. ASSUME NEW j \in S PROVE j <= m
  <2>1. 1..j \in SUBSET S
    BY <1>1, <1>4 DEF Sorted
  <2>2. Cardinality(1..j) = j
    BY <1>1, <1>4, FS_Interval
  <2> QED
    BY <1>3, <2>1, <2>2, FS_Subset
<1>5. S \in SUBSET (1..m)
  BY <1>1, <1>3, <1>4
<1>6. IsFiniteSet(1..m) /\ Cardinality(1..m) = m
  BY <1>3, FS_Interval
<1>7. S = 1..m
  BY <1>5, <1>6, FS_Subset
<1>8. i \in S <=> i \in 1..m
  BY <1>7
<1> QED
  BY <1>1, <1>3, <1>8 DEF InsertPosition

\* List::SortedInsert adds one element, keeps the others, and keeps a sorted
\* list sorted.
LEMMA SortedInsertProperties ==
    ASSUME NEW list \in Seq(ListElement), NEW e \in ListElement
    PROVE  /\ SortedInsert(list, e) \in Seq(ListElement)
           /\ SortedInsert(list, e) # <<>>
           /\ Items(SortedInsert(list, e)) = Items(list) \cup {e.item}
           /\ Distinct(list) /\ e.item \notin Items(list)
                => Distinct(SortedInsert(list, e))
           /\ Sorted(list) => Sorted(SortedInsert(list, e))
<1> DEFINE n == Len(list)
           p == InsertPosition(list, e.key)
           new == SortedInsert(list, e)
<1>1. n \in Nat /\ p \in 1..n + 1 /\ e.key \in Nat
  <2>1. e.key \in Nat
    BY DEF ListElement
  <2> QED
    BY <2>1, ListElementTypes, InsertPositionType
<1>2. \A i \in 1..n : list[i] \in ListElement /\ list[i].key \in Nat
  BY ListElementTypes
<1>3. new = [i \in 1..n + 1 |->
                IF i < p THEN list[i] ELSE IF i = p THEN e ELSE list[i - 1]]
  BY DEF SortedInsert
<1> HIDE DEF n, p, new
<1>4. new \in [1..n + 1 -> ListElement]
  BY <1>1, <1>2, <1>3
<1>5. new \in Seq(ListElement) /\ Len(new) = n + 1
  BY <1>1, <1>4
<1>6. /\ new[p] = e
      /\ \A i \in 1..n + 1 : i < p => i \in 1..n /\ new[i] = list[i]
      /\ \A i \in 1..n + 1 : p < i => i - 1 \in 1..n /\ new[i] = list[i - 1]
  BY <1>1, <1>3
<1>7. Items(new) = Items(list) \cup {e.item}
  <2>1. ASSUME NEW i \in 1..n + 1
        PROVE  new[i].item \in Items(list) \cup {e.item}
    <3>1. i < p \/ i = p \/ p < i
      BY <1>1
    <3> QED
      BY <1>6, <3>1 DEF Items, n
  <2>2. e.item \in Items(new)
    BY <1>1, <1>5, <1>6, Zenon DEF Items
  <2>3. ASSUME NEW j \in 1..n PROVE list[j].item \in Items(new)
    <3>1. CASE j < p
      <4>1. j \in 1..n + 1 /\ new[j] = list[j]
        BY <1>1, <1>6, <3>1
      <4> QED
        BY <1>5, <4>1 DEF Items
    <3>2. CASE ~(j < p)
      <4>1. j + 1 \in 1..n + 1 /\ new[j + 1] = list[j]
        BY <1>1, <1>6, <3>2
      <4> QED
        BY <1>5, <4>1 DEF Items
    <3> QED
      BY <3>1, <3>2
  <2> QED
    BY <1>5, <2>1, <2>2, <2>3 DEF Items, n
<1>8. ASSUME Distinct(list), e.item \notin Items(list)
      PROVE  Distinct(new)
  <2>1. \A j \in 1..n : list[j].item # e.item
    BY <1>8 DEF Items, n
  <2>2. \A i, j \in 1..n : list[i].item = list[j].item => i = j
    BY <1>8 DEF Distinct, n
  <2>3. SUFFICES ASSUME NEW i \in 1..n + 1, NEW j \in 1..n + 1, i < j,
                        new[i].item = new[j].item
                 PROVE  FALSE
    <3>1. \A i, j \in 1..n + 1 : i < j \/ i = j \/ j < i
      BY <1>1
    <3> QED
      BY <1>5, <3>1 DEF Distinct
  <2>4. CASE j < p
    BY <1>1, <1>6, <2>2, <2>3, <2>4
  <2>5. CASE j = p
    BY <1>1, <1>6, <2>1, <2>3, <2>5
  <2>6. CASE p < j /\ i < p
    <3>1. i # j - 1
      BY <1>1, <2>6
    <3> QED
      BY <1>6, <2>2, <2>3, <2>6, <3>1
  <2>7. CASE i = p
    <3>1. p < j
      BY <2>3, <2>7
    <3> QED
      BY <1>6, <2>1, <2>3, <2>7, <3>1
  <2>8. CASE p < i
    <3>1. p < j /\ i - 1 # j - 1
      BY <1>1, <2>3, <2>8
    <3> QED
      BY <1>6, <2>2, <2>3, <2>8, <3>1
  <2> QED
    BY <1>1, <2>3, <2>4, <2>5, <2>6, <2>7, <2>8
<1>9. ASSUME Sorted(list) PROVE Sorted(new)
  <2>1. \A j \in 1..n : j < p <=> list[j].key <= e.key
    BY <1>1, <1>9, InsertPositionSplits DEF n, p
  <2>2. \A i, j \in 1..n : i < j => list[i].key <= list[j].key
    BY <1>9 DEF Sorted, n
  <2>3. SUFFICES ASSUME NEW i \in 1..n + 1, NEW j \in 1..n + 1, i < j
                 PROVE  new[i].key <= new[j].key
    BY <1>5 DEF Sorted
  <2>4. CASE j < p
    BY <1>1, <1>6, <2>2, <2>3, <2>4
  <2>5. CASE j = p
    BY <1>1, <1>6, <2>1, <2>3, <2>5
  <2>6. CASE p < j /\ i < p
    <3>1. i < j - 1 \/ i = j - 1
      BY <1>1, <2>6
    <3>2. i \in 1..n /\ j - 1 \in 1..n
      BY <1>1, <1>2, <2>3, <2>6
    <3>3. new[i] = list[i] /\ new[j] = list[j - 1]
      BY <1>1, <1>2, <1>6, <2>3, <2>6
    <3>4. CASE i = j - 1
      <4>1. list[i] \in ListElement
        BY <3>2 DEF n
      <4>2. list[i].key \in Nat
        BY <4>1 DEF ListElement
      <4> QED
        BY <3>3, <3>4, <4>2
    <3>5. CASE i < j - 1
      BY <2>2, <3>2, <3>3, <3>5
    <3> QED
      BY <3>1, <3>4, <3>5
  <2>7. CASE i = p
    <3>1. p < j /\ ~(j - 1 < p)
      BY <1>1, <2>3, <2>7
    <3>2. j - 1 \in 1..n /\ new[j] = list[j - 1] /\ new[i] = e
      BY <1>6, <2>7, <3>1
    <3>3. ~(list[j - 1].key <= e.key)
      BY <2>1, <3>1, <3>2
    <3>4. list[j - 1].key \in Nat
      BY <1>2, <3>2
    <3> QED
      BY <1>1, <3>2, <3>3, <3>4
  <2>8. CASE p < i
    <3>1. p < j /\ i - 1 < j - 1
      BY <1>1, <2>3, <2>8
    <3> QED
      BY <1>6, <2>2, <2>3, <2>8, <3>1
  <2> QED
    BY <1>1, <2>3, <2>4, <2>5, <2>6, <2>7, <2>8
<1>10. new # <<>>
  BY <1>1, <1>5
<1> QED
  BY <1>5, <1>7, <1>8, <1>9, <1>10 DEF new

\* Removing the head of a list keeps the rest, in order.
LEMMA RemoveHeadProperties ==
    ASSUME NEW list \in Seq(ListElement), list # <<>>
    PROVE  /\ Head(list) \in ListElement
           /\ Tail(list) \in Seq(ListElement)
           /\ Head(list).item \in Items(list)
           /\ Distinct(list) => /\ Items(Tail(list)) = Items(list) \ {Head(list).item}
                                /\ Distinct(Tail(list))
           /\ Sorted(list) => Sorted(Tail(list))
<1> DEFINE n == Len(list)
           rest == Tail(list)
<1>1. n \in Nat \ {0} /\ rest \in Seq(ListElement) /\ Len(rest) = n - 1
  BY HeadTailProperties, EmptySeq
<1>2. \A i \in 1..n - 1 : rest[i] = list[i + 1]
  BY <1>1, HeadTailProperties
<1>3. Head(list) = list[1] /\ Head(list) \in ListElement
  BY HeadTailProperties
<1>4. Head(list).item \in Items(list)
  BY <1>1, <1>3 DEF Items
<1>5. ASSUME Distinct(list)
      PROVE  Items(rest) = Items(list) \ {Head(list).item} /\ Distinct(rest)
  <2>1. \A i, j \in 1..n : list[i].item = list[j].item => i = j
    BY <1>5 DEF Distinct
  <2>2. ASSUME NEW i \in 1..n - 1
        PROVE  rest[i].item \in Items(list) /\ rest[i].item # Head(list).item
    <3>1. i + 1 \in 1..n /\ 1 \in 1..n /\ i + 1 # 1
      BY <1>1
    <3> QED
      BY <1>2, <1>3, <2>1, <3>1 DEF Items
  <2>3. ASSUME NEW i \in 1..n, list[i].item # Head(list).item
        PROVE  list[i].item \in Items(rest)
    <3>1. i - 1 \in 1..n - 1 /\ rest[i - 1] = list[i]
      BY <1>1, <1>2, <1>3, <2>3
    <3> QED
      BY <1>1, <3>1 DEF Items
  <2>4. Distinct(rest)
    BY <1>1, <1>2, <2>1 DEF Distinct
  <2> QED
    BY <1>1, <2>2, <2>3, <2>4 DEF Items
<1>6. ASSUME Sorted(list) PROVE Sorted(rest)
  BY <1>1, <1>2, <1>6 DEF Sorted
<1> QED
  BY <1>1, <1>3, <1>4, <1>5, <1>6

-----------------------------------------------------------------------------
(* A semaphore's queue.                                                    *)

\* List::Append at the end of a semaphore's queue.
LEMMA EnqueueProperties ==
    ASSUME NEW q \in Seq(Threads), NEW t \in Threads
    PROVE  /\ Append(q, t) \in Seq(Threads)
           /\ Range(Append(q, t)) = Range(q) \cup {t}
           /\ IsInjective(q) /\ t \notin Range(q) => IsInjective(Append(q, t))
<1> DEFINE n == Len(q)
           new == Append(q, t)
<1>1. n \in Nat /\ new \in Seq(Threads) /\ Len(new) = n + 1
  BY AppendProperties
<1>2. new[n + 1] = t /\ \A i \in 1..n : new[i] = q[i]
  BY AppendProperties
<1>3. DOMAIN q = 1..n /\ DOMAIN new = 1..n + 1
  BY <1>1, LenProperties
<1>4. Range(new) = Range(q) \cup {t}
  BY <1>1, <1>2, <1>3 DEF Range
<1>5. ASSUME IsInjective(q), t \notin Range(q) PROVE IsInjective(new)
  BY <1>1, <1>2, <1>3, <1>5 DEF IsInjective, Range
<1> QED
  BY <1>1, <1>4, <1>5

\* List::Remove at the front of a semaphore's queue.
LEMMA DequeueProperties ==
    ASSUME NEW q \in Seq(Threads), q # <<>>
    PROVE  /\ Head(q) \in Threads
           /\ Head(q) \in Range(q)
           /\ Tail(q) \in Seq(Threads)
           /\ IsInjective(q) => /\ Range(Tail(q)) = Range(q) \ {Head(q)}
                                /\ IsInjective(Tail(q))
<1> DEFINE n == Len(q)
           rest == Tail(q)
<1>1. n \in Nat \ {0} /\ rest \in Seq(Threads) /\ Len(rest) = n - 1
  BY HeadTailProperties, EmptySeq
<1>2. \A i \in 1..n - 1 : rest[i] = q[i + 1]
  BY <1>1, HeadTailProperties
<1>3. Head(q) = q[1] /\ Head(q) \in Threads
  BY HeadTailProperties
<1>4. DOMAIN q = 1..n /\ DOMAIN rest = 1..n - 1
  BY <1>1, LenProperties
<1>5. Head(q) \in Range(q)
  BY <1>1, <1>3, <1>4 DEF Range
<1>6. ASSUME IsInjective(q)
      PROVE  Range(rest) = Range(q) \ {Head(q)} /\ IsInjective(rest)
  <2>1. \A i, j \in 1..n : q[i] = q[j] => i = j
    BY <1>4, <1>6 DEF IsInjective
  <2>2. ASSUME NEW i \in 1..n - 1 PROVE rest[i] \in Range(q) /\ rest[i] # Head(q)
    <3>1. i + 1 \in 1..n /\ 1 \in 1..n /\ i + 1 # 1
      BY <1>1
    <3> QED
      BY <1>2, <1>3, <1>4, <2>1, <3>1 DEF Range
  <2>3. ASSUME NEW i \in 1..n, q[i] # Head(q) PROVE q[i] \in Range(rest)
    <3>1. i - 1 \in 1..n - 1 /\ rest[i - 1] = q[i]
      BY <1>1, <1>2, <1>3, <2>3
    <3> QED
      BY <1>4, <3>1 DEF Range
  <2>4. IsInjective(rest)
    BY <1>1, <1>2, <1>4, <2>1 DEF IsInjective
  <2> QED
    BY <1>4, <2>2, <2>3, <2>4 DEF Range
<1> QED
  BY <1>1, <1>3, <1>5, <1>6

-----------------------------------------------------------------------------
(* The operations.                                                         *)

\* The threads a V() has woken are finitely many.
LEMMA WokenFinite ==
    ASSUME NEW s
    PROVE  IsFiniteSet(Woken(s)) /\ Cardinality(Woken(s)) \in Nat
BY KernelAssumption, FS_Subset, FS_CardinalityType DEF Woken

\* The state that Initialize() leaves: one thread runs, nothing is queued.
LEMMA FreshKernel ==
    ASSUME currentThread \in Threads,
           readyList = <<>>,
           status = [t \in Threads |->
                        IF t = currentThread THEN "RUNNING" ELSE "JUST_CREATED"],
           priority \in [Threads -> Nat],
           value \in [Semaphores -> Nat],
           queue = [s \in Semaphores |-> <<>>],
           waitingOn = [t \in Threads |-> NoSem]
    PROVE  KernelInv
<1>1. KernelTypeOK
  BY DEF KernelTypeOK, ThreadStatus
<1>2. Items(readyList) = {} /\ Distinct(readyList) /\ Sorted(readyList)
  BY DEF Items, Distinct, Sorted
<1>3. \A s \in Semaphores : Range(queue[s]) = {} /\ IsInjective(queue[s])
  <2>1. DOMAIN <<>> = {}
    OBVIOUS
  <2> QED
    BY <2>1 DEF Range, IsInjective
<1>4. Placed
  BY <1>2, <1>3
     DEF Placed, OnCPU, ReadyListHoldsReady, QueueHoldsBlocked,
         NewThreadsAreNowhere
<1>5. NoLostWakeup
  BY DEF NoLostWakeup
<1> QED
  BY <1>1, <1>2, <1>4, <1>5 DEF KernelInv, ReadyListSorted

\* NoLostWakeup outlives a step that wakes no thread and adds no unit.
LEMMA NoLostWakeupStutters ==
    ASSUME NoLostWakeup, UNCHANGED <<value, queue, waitingOn>>,
           \A t \in Threads :
                \/ waitingOn[t] = NoSem
                \/ status[t] \in {"READY", "RUNNING"} <=> status'[t] \in {"READY", "RUNNING"}
    PROVE  NoLostWakeup'
<1>1. ASSUME NEW s \in Semaphores PROVE Woken(s)' = Woken(s)
  BY KernelAssumption DEF Woken
<1> QED
  BY <1>1 DEF NoLostWakeup

\* Interrupt::Idle's dispatch preserves the kernel invariant.
LEMMA IdleDispatchInv ==
    ASSUME KernelInv, IdleDispatch
    PROVE  KernelInv'
<1> DEFINE h == Head(readyList).item
<1>1. /\ readyList # <<>> /\ readyList' = Tail(readyList)
      /\ currentThread' = h /\ status' = [status EXCEPT ![h] = "RUNNING"]
      /\ status[currentThread] # "RUNNING"
      /\ UNCHANGED <<priority, value, queue, waitingOn>>
  BY DEF IdleDispatch, Run, semVars
<1>2. /\ h \in Items(readyList) /\ h \in Threads
      /\ Tail(readyList) \in Seq(ListElement)
      /\ Items(Tail(readyList)) = Items(readyList) \ {h}
      /\ Distinct(Tail(readyList)) /\ Sorted(Tail(readyList))
  BY <1>1, RemoveHeadProperties
     DEF KernelInv, KernelTypeOK, Placed, ReadyListHoldsReady, ReadyListSorted, ListElement
<1>3. status[h] = "READY"
  BY <1>2 DEF KernelInv, Placed, ReadyListHoldsReady
<1> HIDE DEF h
<1>4. KernelTypeOK'
  BY <1>1, <1>2 DEF KernelInv, KernelTypeOK, ThreadStatus
<1>5. Placed'
  <2>1. OnCPU'
    BY <1>1, <1>2 DEF KernelInv, KernelTypeOK, Placed, OnCPU
  <2>2. ReadyListHoldsReady'
    BY <1>1, <1>2, <1>3 DEF KernelInv, KernelTypeOK, Placed, ReadyListHoldsReady
  <2>3. \A s \in Semaphores : QueueHoldsBlocked(s)'
    BY <1>1, <1>2, <1>3 DEF KernelInv, KernelTypeOK, Placed, QueueHoldsBlocked
  <2>4. NewThreadsAreNowhere'
    BY <1>1, <1>2, <1>3
       DEF KernelInv, KernelTypeOK, Placed, NewThreadsAreNowhere
  <2> QED
    BY <2>1, <2>2, <2>3, <2>4 DEF Placed
<1>6. ReadyListSorted'
  BY <1>1, <1>2 DEF ReadyListSorted
<1>7. NoLostWakeup'
  <2>1. \A u \in Threads :
            \/ waitingOn[u] = NoSem
            \/ status[u] \in {"READY", "RUNNING"} <=> status'[u] \in {"READY", "RUNNING"}
    BY <1>1, <1>2, <1>3 DEF KernelInv, KernelTypeOK
  <2> QED
    BY <1>1, <2>1, NoLostWakeupStutters DEF KernelInv
<1> QED
  BY <1>4, <1>5, <1>6, <1>7 DEF KernelInv

\* Thread::Yield preserves the kernel invariant.
LEMMA YieldInv ==
    ASSUME KernelInv, NEW t \in Threads, Yield(t)
    PROVE  KernelInv'
<1> DEFINE h == Head(readyList).item
           e == [item |-> t, key |-> priority[t]]
<1>1. /\ readyList # <<>> /\ readyList' = SortedInsert(Tail(readyList), e)
      /\ currentThread' = h
      /\ status' = [[status EXCEPT ![t] = "READY"] EXCEPT ![h] = "RUNNING"]
      /\ currentThread = t /\ status[t] = "RUNNING" /\ waitingOn[t] = NoSem
      /\ UNCHANGED <<priority, value, queue, waitingOn>>
  BY DEF Yield, IsRunning, Run, ReadyToRun, semVars
<1>2. /\ h \in Items(readyList) /\ h \in Threads
      /\ Tail(readyList) \in Seq(ListElement)
      /\ Items(Tail(readyList)) = Items(readyList) \ {h}
      /\ Distinct(Tail(readyList)) /\ Sorted(Tail(readyList))
  BY <1>1, RemoveHeadProperties
     DEF KernelInv, KernelTypeOK, Placed, ReadyListHoldsReady, ReadyListSorted, ListElement
<1>3. status[h] = "READY" /\ t \notin Items(readyList) /\ h # t
  BY <1>1, <1>2 DEF KernelInv, Placed, ReadyListHoldsReady
<1>4. e \in ListElement /\ e.item = t
  BY DEF KernelInv, KernelTypeOK, ListElement
<1> HIDE DEF h, e
<1>5. /\ readyList' \in Seq(ListElement)
      /\ Items(readyList') = (Items(readyList) \ {h}) \cup {t}
      /\ Distinct(readyList') /\ Sorted(readyList')
  BY <1>1, <1>2, <1>3, <1>4, SortedInsertProperties
<1>6. KernelTypeOK'
  BY <1>1, <1>2, <1>5 DEF KernelInv, KernelTypeOK, ThreadStatus
<1>7. Placed'
  <2>1. OnCPU'
    BY <1>1, <1>2 DEF KernelInv, KernelTypeOK, Placed, OnCPU
  <2>2. ReadyListHoldsReady'
    BY <1>1, <1>2, <1>3, <1>5 DEF KernelInv, KernelTypeOK, Placed, ReadyListHoldsReady
  <2>3. \A s \in Semaphores : QueueHoldsBlocked(s)'
    BY <1>1, <1>2, <1>3 DEF KernelInv, KernelTypeOK, Placed, QueueHoldsBlocked
  <2>4. NewThreadsAreNowhere'
    BY <1>1, <1>2, <1>3
       DEF KernelInv, KernelTypeOK, Placed, NewThreadsAreNowhere
  <2> QED
    BY <2>1, <2>2, <2>3, <2>4 DEF Placed
<1>8. ReadyListSorted'
  BY <1>5 DEF ReadyListSorted
<1>9. NoLostWakeup'
  <2>1. \A u \in Threads :
            \/ waitingOn[u] = NoSem
            \/ status[u] \in {"READY", "RUNNING"} <=> status'[u] \in {"READY", "RUNNING"}
    BY <1>1, <1>2, <1>3 DEF KernelInv, KernelTypeOK
  <2> QED
    BY <1>1, <2>1, NoLostWakeupStutters DEF KernelInv
<1> QED
  BY <1>6, <1>7, <1>8, <1>9 DEF KernelInv

\* Thread::Fork preserves the kernel invariant.
LEMMA ForkInv ==
    ASSUME KernelInv, NEW t \in Threads, NEW child \in Threads, Fork(t, child)
    PROVE  KernelInv'
<1> DEFINE e == [item |-> child, key |-> priority[child]]
<1>1. /\ readyList' = SortedInsert(readyList, e)
      /\ status[child] = "JUST_CREATED"
      /\ status' = [status EXCEPT ![child] = "READY"]
      /\ UNCHANGED <<currentThread, priority, value, queue, waitingOn>>
  BY DEF Fork, ReadyToRun, semVars
<1>2. child \notin Items(readyList) /\ waitingOn[child] = NoSem
  BY <1>1 DEF KernelInv, Placed, ReadyListHoldsReady, NewThreadsAreNowhere
<1>3. e \in ListElement /\ e.item = child
  BY DEF KernelInv, KernelTypeOK, ListElement
<1> HIDE DEF e
<1>4. /\ readyList' \in Seq(ListElement)
      /\ Items(readyList') = Items(readyList) \cup {child}
      /\ Distinct(readyList') /\ Sorted(readyList')
  BY <1>1, <1>2, <1>3, SortedInsertProperties
     DEF KernelInv, KernelTypeOK, Placed, ReadyListHoldsReady, ReadyListSorted
<1>5. KernelTypeOK'
  BY <1>1, <1>4 DEF KernelInv, KernelTypeOK, ThreadStatus
<1>6. Placed'
  <2>1. OnCPU'
    BY <1>1 DEF KernelInv, KernelTypeOK, Placed, OnCPU
  <2>2. ReadyListHoldsReady'
    BY <1>1, <1>2, <1>4 DEF KernelInv, KernelTypeOK, Placed, ReadyListHoldsReady
  <2>3. \A s \in Semaphores : QueueHoldsBlocked(s)'
    BY <1>1 DEF KernelInv, KernelTypeOK, Placed, QueueHoldsBlocked
  <2>4. NewThreadsAreNowhere'
    BY <1>1 DEF KernelInv, KernelTypeOK, Placed, NewThreadsAreNowhere
  <2> QED
    BY <2>1, <2>2, <2>3, <2>4 DEF Placed
<1>7. ReadyListSorted'
  BY <1>4 DEF ReadyListSorted
<1>8. NoLostWakeup'
  <2>1. \A u \in Threads :
            \/ waitingOn[u] = NoSem
            \/ status[u] \in {"READY", "RUNNING"} <=> status'[u] \in {"READY", "RUNNING"}
    BY <1>1, <1>2 DEF KernelInv, KernelTypeOK
  <2> QED
    BY <1>1, <2>1, NoLostWakeupStutters DEF KernelInv
<1> QED
  BY <1>5, <1>6, <1>7, <1>8 DEF KernelInv

\* Taking a unit, the end of Semaphore::P, preserves the kernel invariant.
LEMMA TakeUnitInv ==
    ASSUME KernelInv, NEW t \in Threads, NEW s \in Semaphores,
           currentThread = t, status[t] = "RUNNING", waitingOn[t] \in {NoSem, s},
           TakeUnit(t, s), priority' \in [Threads -> Nat]
    PROVE  KernelInv'
<1>1. /\ value[s] # 0 /\ value' = [value EXCEPT ![s] = @ - 1]
      /\ waitingOn' = [waitingOn EXCEPT ![t] = NoSem]
      /\ UNCHANGED <<currentThread, readyList, status, queue>>
  BY DEF TakeUnit, cpuVars
<1>2. KernelTypeOK'
  BY <1>1 DEF KernelInv, KernelTypeOK
<1>3. Placed'
  <2>1. OnCPU' /\ ReadyListHoldsReady'
    BY <1>1 DEF KernelInv, Placed, OnCPU, ReadyListHoldsReady
  <2>2. \A u \in Semaphores : QueueHoldsBlocked(u)'
    BY <1>1 DEF KernelInv, KernelTypeOK, Placed, QueueHoldsBlocked
  <2>3. NewThreadsAreNowhere'
    BY <1>1 DEF KernelInv, KernelTypeOK, Placed, NewThreadsAreNowhere
  <2> QED
    BY <2>1, <2>2, <2>3 DEF Placed
<1>4. ReadyListSorted'
  BY <1>1 DEF KernelInv, ReadyListSorted
<1>5. ASSUME NEW u \in Semaphores, queue[u] # <<>>
      PROVE  value'[u] <= Cardinality(Woken(u)')
  <2>1. value[u] <= Cardinality(Woken(u)) /\ value[u] \in Nat
    BY <1>5 DEF KernelInv, NoLostWakeup, KernelTypeOK
  <2>2. CASE u = s
    <3>1. Woken(u)' = Woken(u) \ {t}
      BY <1>1, <2>2, KernelAssumption DEF Woken, KernelInv, KernelTypeOK
    <3>2. IsFiniteSet(Woken(u)) /\ Cardinality(Woken(u)) \in Nat
      BY WokenFinite
    <3>3. Cardinality(Woken(u) \ {t}) \in {Cardinality(Woken(u)), Cardinality(Woken(u)) - 1}
      BY <3>2, FS_RemoveElement
    <3>4. value'[u] = value[u] - 1
      BY <1>1, <2>2 DEF KernelInv, KernelTypeOK
    <3> QED
      BY <2>1, <3>1, <3>2, <3>3, <3>4
  <2>3. CASE u # s
    <3>1. Woken(u)' = Woken(u)
      BY <1>1, <2>3, KernelAssumption DEF Woken, KernelInv, KernelTypeOK
    <3>2. value'[u] = value[u]
      BY <1>1, <2>3 DEF KernelInv, KernelTypeOK
    <3> QED
      BY <2>1, <3>1, <3>2
  <2> QED
    BY <2>2, <2>3
<1>6. NoLostWakeup'
  BY <1>1, <1>5 DEF NoLostWakeup
<1> QED
  BY <1>2, <1>3, <1>4, <1>6 DEF KernelInv

\* Going to sleep in Semaphore::P preserves the kernel invariant.
LEMMA EnqueueAndSleepInv ==
    ASSUME KernelInv, NEW t \in Threads, NEW s \in Semaphores,
           currentThread = t, status[t] = "RUNNING", waitingOn[t] \in {NoSem, s},
           EnqueueAndSleep(t, s), priority' \in [Threads -> Nat]
    PROVE  KernelInv'
<1> DEFINE h == Head(readyList).item
           blocked == [status EXCEPT ![t] = "BLOCKED"]
<1>1. /\ value[s] = 0 /\ queue' = [queue EXCEPT ![s] = Append(queue[s], t)]
      /\ waitingOn' = [waitingOn EXCEPT ![t] = s]
      /\ UNCHANGED value
  BY DEF EnqueueAndSleep
<1>2. t \notin Range(queue[s]) /\ t \notin Items(readyList)
  BY DEF KernelInv, Placed, QueueHoldsBlocked, ReadyListHoldsReady
<1>3. /\ queue'[s] \in Seq(Threads)
      /\ Range(queue'[s]) = Range(queue[s]) \cup {t}
      /\ IsInjective(queue'[s])
  BY <1>1, <1>2, EnqueueProperties DEF KernelInv, KernelTypeOK, Placed, QueueHoldsBlocked
<1>4. \A u \in Semaphores \ {s} : queue'[u] = queue[u]
  BY <1>1 DEF KernelInv, KernelTypeOK
<1>5. queue' \in [Semaphores -> Seq(Threads)] /\ waitingOn' \in [Threads -> Semaphores \cup {NoSem}]
  BY <1>1, <1>3 DEF KernelInv, KernelTypeOK
<1>6. NoLostWakeup' <=> \A u \in Semaphores \ {s} :
          queue[u] # <<>> => value[u] <= Cardinality(Woken(u)')
  <2>1. Woken(s)' \in SUBSET Threads
    BY DEF Woken
  <2>2. value'[s] <= Cardinality(Woken(s)')
    BY <1>1, <2>1, KernelAssumption, FS_Subset, FS_CardinalityType
  <2> QED
    BY <1>1, <1>4, <2>2 DEF NoLostWakeup
<1>7. CASE readyList # <<>>
  <2>1. /\ readyList' = Tail(readyList) /\ currentThread' = h
        /\ status' = [blocked EXCEPT ![h] = "RUNNING"]
    BY <1>7 DEF EnqueueAndSleep, Sleep, Run
  <2>2. /\ h \in Items(readyList) /\ h \in Threads /\ h # t
        /\ Tail(readyList) \in Seq(ListElement)
        /\ Items(Tail(readyList)) = Items(readyList) \ {h}
        /\ Distinct(Tail(readyList)) /\ Sorted(Tail(readyList))
    BY <1>2, <1>7, RemoveHeadProperties
       DEF KernelInv, KernelTypeOK, Placed, ReadyListHoldsReady, ReadyListSorted, ListElement
  <2>3. status[h] = "READY"
    BY <2>2 DEF KernelInv, Placed, ReadyListHoldsReady
  <2> HIDE DEF h
  <2>4. KernelTypeOK'
    BY <1>1, <1>5, <2>1, <2>2 DEF KernelInv, KernelTypeOK, ThreadStatus
  <2>5. OnCPU'
    BY <2>1, <2>2 DEF KernelInv, KernelTypeOK, Placed, OnCPU
  <2>6. ReadyListHoldsReady'
    BY <1>2, <2>1, <2>2, <2>3 DEF KernelInv, KernelTypeOK, Placed, ReadyListHoldsReady
  <2>7. ASSUME NEW u \in Semaphores PROVE QueueHoldsBlocked(u)'
    <3>1. Range(queue'[u]) = {x \in Threads : status'[x] = "BLOCKED" /\ waitingOn'[x] = u}
      BY <1>1, <1>3, <1>4, <2>1, <2>2, <2>3 DEF KernelInv, KernelTypeOK, Placed, QueueHoldsBlocked
    <3>2. IsInjective(queue'[u])
      BY <1>3, <1>4 DEF KernelInv, Placed, QueueHoldsBlocked
    <3> QED
      BY <3>1, <3>2 DEF QueueHoldsBlocked
  <2>8. NewThreadsAreNowhere'
    BY <1>1, <2>1, <2>2, <2>3, KernelAssumption
       DEF KernelInv, KernelTypeOK, Placed, NewThreadsAreNowhere
  <2>9. ASSUME NEW u \in Semaphores \ {s} PROVE Woken(u)' = Woken(u)
    BY <1>1, <2>1, <2>2, <2>3, KernelAssumption DEF Woken, KernelInv, KernelTypeOK
  <2>10. NoLostWakeup'
    BY <1>6, <2>9 DEF KernelInv, NoLostWakeup
  <2> QED
    BY <2>1, <2>2, <2>4, <2>5, <2>6, <2>7, <2>8, <2>10 DEF KernelInv, Placed, ReadyListSorted
<1>8. CASE readyList = <<>>
  <2>1. status' = blocked /\ UNCHANGED <<currentThread, readyList>>
    BY <1>8 DEF EnqueueAndSleep, Sleep, Run
  <2>2. KernelTypeOK'
    BY <1>1, <1>5, <2>1 DEF KernelInv, KernelTypeOK, ThreadStatus
  <2>3. OnCPU' /\ ReadyListHoldsReady'
    BY <2>1 DEF KernelInv, KernelTypeOK, Placed, OnCPU, ReadyListHoldsReady
  <2>4. ASSUME NEW u \in Semaphores PROVE QueueHoldsBlocked(u)'
    <3>1. Range(queue'[u]) = {x \in Threads : status'[x] = "BLOCKED" /\ waitingOn'[x] = u}
      BY <1>1, <1>3, <1>4, <2>1 DEF KernelInv, KernelTypeOK, Placed, QueueHoldsBlocked
    <3>2. IsInjective(queue'[u])
      BY <1>3, <1>4 DEF KernelInv, Placed, QueueHoldsBlocked
    <3> QED
      BY <3>1, <3>2 DEF QueueHoldsBlocked
  <2>5. NewThreadsAreNowhere'
    BY <1>1, <2>1, KernelAssumption
       DEF KernelInv, KernelTypeOK, Placed, NewThreadsAreNowhere
  <2>6. ASSUME NEW u \in Semaphores \ {s} PROVE Woken(u)' = Woken(u)
    BY <1>1, <2>1, KernelAssumption DEF Woken, KernelInv, KernelTypeOK
  <2>7. NoLostWakeup'
    BY <1>6, <2>6 DEF KernelInv, NoLostWakeup
  <2> QED
    BY <2>1, <2>2, <2>3, <2>4, <2>5, <2>7 DEF KernelInv, Placed, ReadyListSorted
<1> QED
  BY <1>7, <1>8

\* Semaphore::P, entered or resumed, preserves the kernel invariant.
LEMMA PInv ==
    ASSUME KernelInv, NEW t \in Threads,
           RetryP(t) \/ \E s \in Semaphores : P(t, s)
    PROVE  KernelInv'
<1>1. priority' \in [Threads -> Nat]
  BY DEF RetryP, P, KernelInv, KernelTypeOK
<1>2. CASE RetryP(t)
  <2>1. waitingOn[t] \in Semaphores
    BY <1>2 DEF RetryP, KernelInv, KernelTypeOK
  <2> QED
    BY <1>1, <1>2, <2>1, TakeUnitInv, EnqueueAndSleepInv DEF RetryP, TestValue
<1>3. CASE \E s \in Semaphores : P(t, s)
  BY <1>1, <1>3, TakeUnitInv, EnqueueAndSleepInv DEF P, IsRunning, TestValue
<1> QED
  BY <1>2, <1>3

\* Semaphore::V preserves the kernel invariant, also when the caller changes
\* the priority of a thread that is in no queue.
LEMMA VInv ==
    ASSUME KernelInv, NEW s \in Semaphores, V(s), priority' \in [Threads -> Nat]
    PROVE  KernelInv'
<1>1. /\ value' = [value EXCEPT ![s] = @ + 1]
      /\ UNCHANGED <<currentThread, waitingOn>>
  BY DEF V
<1>2. CASE queue[s] = <<>>
  <2>1. UNCHANGED <<readyList, status, queue>>
    BY <1>2 DEF V
  <2>2. KernelTypeOK'
    BY <1>1, <2>1 DEF KernelInv, KernelTypeOK
  <2>3. Placed'
    BY <1>1, <2>1
       DEF KernelInv, Placed, OnCPU, ReadyListHoldsReady, QueueHoldsBlocked,
           NewThreadsAreNowhere
  <2>4. ASSUME NEW u \in Semaphores PROVE Woken(u)' = Woken(u)
    BY <1>1, <2>1, KernelAssumption DEF Woken
  <2>5. NoLostWakeup'
    BY <1>1, <1>2, <2>1, <2>4 DEF KernelInv, KernelTypeOK, NoLostWakeup
  <2> QED
    BY <2>1, <2>2, <2>3, <2>5 DEF KernelInv, ReadyListSorted
<1>3. CASE queue[s] # <<>>
  <2> DEFINE h == Head(queue[s])
             e == [item |-> h, key |-> priority[h]]
  <2>1. /\ queue' = [queue EXCEPT ![s] = Tail(queue[s])]
        /\ status' = [status EXCEPT ![h] = "READY"]
        /\ readyList' = SortedInsert(readyList, e)
    BY <1>3 DEF V, ReadyToRun
  <2>2. /\ h \in Threads /\ h \in Range(queue[s])
        /\ Tail(queue[s]) \in Seq(Threads)
        /\ Range(Tail(queue[s])) = Range(queue[s]) \ {h}
        /\ IsInjective(Tail(queue[s]))
    BY <1>3, DequeueProperties DEF KernelInv, KernelTypeOK, Placed, QueueHoldsBlocked
  <2>3. status[h] = "BLOCKED" /\ waitingOn[h] = s /\ h \notin Items(readyList)
    BY <2>2 DEF KernelInv, Placed, QueueHoldsBlocked, ReadyListHoldsReady
  <2>4. e \in ListElement /\ e.item = h
    BY <2>2 DEF KernelInv, KernelTypeOK, ListElement
  <2> HIDE DEF h, e
  <2>5. /\ readyList' \in Seq(ListElement)
        /\ Items(readyList') = Items(readyList) \cup {h}
        /\ Distinct(readyList') /\ Sorted(readyList')
    BY <2>1, <2>3, <2>4, SortedInsertProperties
       DEF KernelInv, KernelTypeOK, Placed, ReadyListHoldsReady, ReadyListSorted
  <2>6. KernelTypeOK'
    <3>1. status' \in [Threads -> ThreadStatus]
      BY <2>1 DEF KernelInv, KernelTypeOK, ThreadStatus
    <3>2. queue' \in [Semaphores -> Seq(Threads)]
      BY <2>1, <2>2 DEF KernelInv, KernelTypeOK
    <3>3. value' \in [Semaphores -> Nat]
      BY <1>1 DEF KernelInv, KernelTypeOK
    <3> QED
      BY <1>1, <2>5, <3>1, <3>2, <3>3 DEF KernelInv, KernelTypeOK
  <2>7. OnCPU' /\ ReadyListHoldsReady'
    BY <1>1, <2>1, <2>2, <2>5 DEF KernelInv, KernelTypeOK, Placed, OnCPU, ReadyListHoldsReady
  <2>8. ASSUME NEW u \in Semaphores PROVE QueueHoldsBlocked(u)'
    BY <1>1, <2>1, <2>2, <2>3 DEF KernelInv, KernelTypeOK, Placed, QueueHoldsBlocked
  <2>9. NewThreadsAreNowhere'
    BY <1>1, <2>1 DEF KernelInv, KernelTypeOK, Placed, NewThreadsAreNowhere
  <2>10. ASSUME NEW u \in Semaphores, queue'[u] # <<>>
         PROVE  value'[u] <= Cardinality(Woken(u)')
    <3>1. queue[u] # <<>>
      BY <1>3, <2>1, <2>10 DEF KernelInv, KernelTypeOK
    <3>2. value[u] <= Cardinality(Woken(u)) /\ value[u] \in Nat
      BY <3>1 DEF KernelInv, NoLostWakeup, KernelTypeOK
    <3>3. CASE u = s
      <4>1. Woken(u)' = Woken(u) \cup {h} /\ h \notin Woken(u)
        BY <1>1, <2>1, <2>2, <2>3, <3>3 DEF Woken, KernelInv, KernelTypeOK
      <4>2. Cardinality(Woken(u)') = Cardinality(Woken(u)) + 1
        BY <4>1, WokenFinite, FS_AddElement
      <4>3. value'[u] = value[u] + 1
        BY <1>1, <3>3 DEF KernelInv, KernelTypeOK
      <4> QED
        BY <3>2, <4>2, <4>3, WokenFinite
    <3>4. CASE u # s
      <4>1. Woken(u)' = Woken(u)
        BY <1>1, <2>1, <2>2, <2>3, <3>4 DEF Woken, KernelInv, KernelTypeOK
      <4>2. value'[u] = value[u]
        BY <1>1, <3>4 DEF KernelInv, KernelTypeOK
      <4> QED
        BY <3>2, <4>1, <4>2
    <3> QED
      BY <3>3, <3>4
  <2>11. NoLostWakeup'
    BY <2>10 DEF NoLostWakeup
  <2> QED
    BY <2>5, <2>6, <2>7, <2>8, <2>9, <2>11 DEF KernelInv, Placed, ReadyListSorted
<1> QED
  BY <1>2, <1>3

\* A step that touches neither the CPU nor a semaphore preserves the kernel
\* invariant.
LEMMA KernelStutterInv ==
    ASSUME KernelInv, UNCHANGED <<cpuVars, semVars>>, priority' \in [Threads -> Nat]
    PROVE  KernelInv'
<1>1. UNCHANGED <<currentThread, readyList, status, value, queue, waitingOn>>
  BY DEF cpuVars, semVars
<1>2. \A s : Woken(s)' = Woken(s)
  BY <1>1 DEF Woken
<1> QED
  BY <1>1, <1>2
     DEF KernelInv, KernelTypeOK, Placed, OnCPU, ReadyListHoldsReady, QueueHoldsBlocked,
         NewThreadsAreNowhere, ReadyListSorted, NoLostWakeup

\* Thread::Sleep of a thread that has ended, at the end of Thread::Finish.
LEMMA SleepInv ==
    ASSUME KernelInv, NEW t \in Threads, IsRunning(t), Sleep(t),
           UNCHANGED <<priority, semVars>>
    PROVE  KernelInv'
<1> DEFINE h == Head(readyList).item
           blocked == [status EXCEPT ![t] = "BLOCKED"]
<1>1. /\ currentThread = t /\ status[t] = "RUNNING" /\ waitingOn[t] = NoSem
      /\ UNCHANGED <<priority, value, queue, waitingOn>>
  BY DEF IsRunning, semVars
<1>2. t \notin Items(readyList) /\ \A s \in Semaphores : waitingOn[t] # s
  BY <1>1, KernelAssumption DEF KernelInv, Placed, ReadyListHoldsReady
<1>3. CASE readyList # <<>>
  <2>1. /\ readyList' = Tail(readyList) /\ currentThread' = h
        /\ status' = [blocked EXCEPT ![h] = "RUNNING"]
    BY <1>3 DEF Sleep, Run
  <2>2. /\ h \in Items(readyList) /\ h \in Threads /\ h # t
        /\ Tail(readyList) \in Seq(ListElement)
        /\ Items(Tail(readyList)) = Items(readyList) \ {h}
        /\ Distinct(Tail(readyList)) /\ Sorted(Tail(readyList))
    BY <1>2, <1>3, RemoveHeadProperties
       DEF KernelInv, KernelTypeOK, Placed, ReadyListHoldsReady, ReadyListSorted, ListElement
  <2>3. status[h] = "READY"
    BY <2>2 DEF KernelInv, Placed, ReadyListHoldsReady
  <2> HIDE DEF h
  <2>4. KernelTypeOK'
    BY <1>1, <2>1, <2>2 DEF KernelInv, KernelTypeOK, ThreadStatus
  <2>5. OnCPU' /\ NewThreadsAreNowhere'
    BY <1>1, <2>1, <2>2, <2>3
       DEF KernelInv, KernelTypeOK, Placed, OnCPU, NewThreadsAreNowhere
  <2>6. ReadyListHoldsReady'
    BY <1>1, <1>2, <2>1, <2>2, <2>3 DEF KernelInv, KernelTypeOK, Placed, ReadyListHoldsReady
  <2>7. \A s \in Semaphores : QueueHoldsBlocked(s)'
    BY <1>1, <1>2, <2>1, <2>2, <2>3 DEF KernelInv, KernelTypeOK, Placed, QueueHoldsBlocked
  <2>8. NoLostWakeup'
    <3>1. \A u \in Threads :
              \/ waitingOn[u] = NoSem
              \/ status[u] \in {"READY", "RUNNING"} <=> status'[u] \in {"READY", "RUNNING"}
      BY <1>1, <2>1, <2>2, <2>3 DEF KernelInv, KernelTypeOK
    <3> QED
      BY <1>1, <3>1, NoLostWakeupStutters DEF KernelInv
  <2> QED
    BY <2>1, <2>2, <2>4, <2>5, <2>6, <2>7, <2>8 DEF KernelInv, Placed, ReadyListSorted
<1>4. CASE readyList = <<>>
  <2>1. status' = blocked /\ UNCHANGED <<currentThread, readyList>>
    BY <1>4 DEF Sleep, Run
  <2>2. KernelTypeOK'
    BY <1>1, <2>1 DEF KernelInv, KernelTypeOK, ThreadStatus
  <2>3. OnCPU' /\ ReadyListHoldsReady' /\ NewThreadsAreNowhere'
    BY <1>1, <2>1
       DEF KernelInv, KernelTypeOK, Placed, OnCPU, ReadyListHoldsReady, NewThreadsAreNowhere
  <2>4. \A s \in Semaphores : QueueHoldsBlocked(s)'
    BY <1>1, <1>2, <2>1 DEF KernelInv, KernelTypeOK, Placed, QueueHoldsBlocked
  <2>5. NoLostWakeup'
    <3>1. \A u \in Threads :
              \/ waitingOn[u] = NoSem
              \/ status[u] \in {"READY", "RUNNING"} <=> status'[u] \in {"READY", "RUNNING"}
      BY <1>1, <2>1 DEF KernelInv, KernelTypeOK
    <3> QED
      BY <1>1, <3>1, NoLostWakeupStutters DEF KernelInv
  <2> QED
    BY <2>1, <2>2, <2>3, <2>4, <2>5 DEF KernelInv, Placed, ReadyListSorted
<1> QED
  BY <1>3, <1>4

-----------------------------------------------------------------------------
(* While no thread ends, every thread that sleeps waits on a semaphore.    *)

\* A step of the kernel other than the end of a thread.
KernelStep ==
    \/ UNCHANGED <<status, waitingOn>>
    \/ IdleDispatch
    \/ \E t \in Threads : Yield(t) \/ RetryP(t) \/ \E child \in Threads : Fork(t, child)
    \/ \E t \in Threads : IsRunning(t) /\ \E s \in Semaphores : TestValue(t, s)
    \/ \E s : V(s)

LEMMA SleepersWait ==
    ASSUME KernelInv, BlockedWaitsOnSemaphore, KernelStep
    PROVE  BlockedWaitsOnSemaphore'
<1> USE DEF KernelInv, KernelTypeOK, BlockedWaitsOnSemaphore
<1>1. CASE UNCHANGED <<status, waitingOn>>
  BY <1>1
<1>2. CASE IdleDispatch
  BY <1>2 DEF IdleDispatch, Run, semVars
<1>3. ASSUME NEW t \in Threads, Yield(t) PROVE BlockedWaitsOnSemaphore'
  BY <1>3 DEF Yield, Run, semVars
<1>4. ASSUME NEW t \in Threads, NEW child \in Threads, Fork(t, child)
      PROVE  BlockedWaitsOnSemaphore'
  BY <1>4 DEF Fork, semVars
<1>5. ASSUME NEW t \in Threads, NEW s \in Semaphores, currentThread = t,
             status[t] = "RUNNING", TestValue(t, s)
      PROVE  BlockedWaitsOnSemaphore'
  <2>1. CASE TakeUnit(t, s)
    BY <1>5, <2>1 DEF TakeUnit, cpuVars
  <2>2. CASE EnqueueAndSleep(t, s)
    <3>1. waitingOn' = [waitingOn EXCEPT ![t] = s] /\ s # NoSem
      BY <2>2, KernelAssumption DEF EnqueueAndSleep
    <3>2. \A u \in Threads \ {t} : status'[u] = "BLOCKED" => status[u] = "BLOCKED"
      BY <2>2 DEF EnqueueAndSleep, Sleep, Run
    <3> QED
      BY <3>1, <3>2
  <2> QED
    BY <1>5, <2>1, <2>2 DEF TestValue
<1>6. ASSUME NEW t \in Threads, RetryP(t) PROVE BlockedWaitsOnSemaphore'
  BY <1>5, <1>6 DEF RetryP
<1>7. ASSUME NEW s, V(s) PROVE BlockedWaitsOnSemaphore'
  BY <1>7 DEF V
<1> QED
  BY <1>1, <1>2, <1>3, <1>4, <1>5, <1>6, <1>7 DEF KernelStep, IsRunning

=============================================================================
