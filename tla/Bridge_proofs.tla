---------------------------- MODULE Bridge_proofs ----------------------------
(***************************************************************************)
(* The bridge carries no more cars than it may, and cars of one direction  *)
(* only, for any number of cars and any load.                              *)
(***************************************************************************)
EXTENDS Bridge, LockClients

Moves == {"Arrive", "Check", "WaitFull", "WaitTurn", "Signal", "Exit", "Leave"}

CarSteps ==
    {Step(s, d) : s \in Moves, d \in Directions}
    \cup {Step(s, l) : s \in {"Own", "Reacquire", "Unlock"}, l \in Locks}
    \cup {Step("Sleep", t) : t \in Threads} \cup {Step("Pop", c) : c \in Conditions}

\* x is one of the steps that are left of the program p.
Has(p, x) == \E i \in 1..Len(p) : p[i] = x

\* The steps that end the part of a program that is in `pending'.
Ends == {Step(s, d) : s \in {"Arrive", "Check", "Exit", "Leave"}, d \in Directions}

\* The steps that `pending' has in front only.
Starts == {Step("Own", l) : l \in Locks} \cup {Step("Pop", c) : c \in Conditions}

\* What may come before the signal of a car to its direction.
Opens(d) == {Own(CV_LOCK(d)), Step("Signal", d), Step("Pop", CV_DIR(d))}

\* The programs that cars have in `pending'.
EndsLast(p) == \A i \in 1..Len(p) : p[i] \in Ends => i = Len(p)

StartsFirst(p) == \A i \in 1..Len(p) : p[i] \in Starts => i = 1

SignalsOpened(p) ==
    \A i \in 1..Len(p), d \in Directions : p[i] = Step("Signal", d) =>
        \A j \in 1..i - 1 : p[j] \in Opens(d)

Shape(p) == EndsLast(p) /\ StartsFirst(p) /\ SignalsOpened(p)

\* p signals direction d, or has still to pop the item it has signalled.
Signals(p, d) == Has(p, Step("Signal", d)) \/ Has(p, Step("Pop", CV_DIR(d)))

CallType ==
    /\ pending \in [Threads -> Seq(CarSteps)]
    /\ pending[MainThread] = <<>>
    /\ \A t \in Threads : Shape(pending[t])
    /\ threadQueue \in [Conditions -> Seq(Threads)]

\* A car signals with the lock of the condition, up to the pop.
SignallersOwn ==
    \A t \in Threads, d \in Directions : Signals(pending[t], d) =>
        ownerThread[CV_LOCK(d)] = t \/ NextIs(t, Own(CV_LOCK(d)))

\* The item that a Signal has still to pop is there.
PopQueued ==
    \A t \in Threads, c \in Conditions : NextIs(t, Step("Pop", c)) => threadQueue[c] # <<>>

CallInv == CallType /\ SignallersOwn /\ PopQueued

\* The counters tell the cars on the bridge, all of the current direction.
On(p, d) == Has(p, Step("Exit", d)) \/ Has(p, Step("Leave", d))

CarsOn(d) == {t \in Cars : On(pending[t], d)}

Counted ==
    /\ COUNT \in [Directions -> 0..MAX_LOAD] /\ CUR_DIR \in Directions
    /\ \A d \in Directions : Cardinality(CarsOn(d)) = COUNT[d]
    /\ \A d \in Directions : COUNT[d] > 0 => CUR_DIR = d

BridgeInv == LockInv /\ CallInv /\ Counted

-----------------------------------------------------------------------------
(* What is left of a program after a step.                                 *)

\* The kinds of steps differ, and so do the two locks' and conditions' names.
LEMMA Names ==
    /\ \A s, r, x, y : Step(s, x) = Step(r, y) <=> s = r /\ x = y
    /\ \A l : Own(l) = Step("Own", l) /\ Unlock(l) = Step("Unlock", l)
    /\ \A d \in Directions : CV_LOCK(d) \in Locks /\ CV_DIR(d) \in Conditions
    /\ \A d, e \in Directions : CV_DIR(d) = CV_DIR(e) => d = e
    /\ Car_Lock \in Locks /\ Threads = {MainThread} \cup Cars /\ MainThread \notin Cars
    /\ \A c \in Conditions : \E d \in Directions : c = CV_DIR(d)
<1>1. \A s, r, x, y : Step(s, x) = Step(r, y) <=> s = r /\ x = y
  BY DEF Step
<1>2. \A l : Own(l) = Step("Own", l) /\ Unlock(l) = Step("Unlock", l)
  BY DEF Step, Own, Unlock
<1>3. MainThread \notin Cars
  BY BridgeAssumption DEF Cars
<1> QED
  BY <1>1, <1>2, <1>3, BridgeAssumption DEF CV_LOCK, CV_DIR, Directions, BridgeLocks,
     BridgeConditions, BridgeThreads

LEMMA ProgramTail ==
    ASSUME NEW p \in Seq(CarSteps), p # <<>>
    PROVE  /\ Head(p) \in CarSteps /\ Tail(p) \in Seq(CarSteps)
           /\ \A y : Has(p, y) <=> y = Head(p) \/ Has(Tail(p), y)
<1>1. /\ Len(p) \in Nat \ {0} /\ Head(p) = p[1] /\ Tail(p) \in Seq(CarSteps)
      /\ Len(Tail(p)) = Len(p) - 1 /\ p[1] \in CarSteps
      /\ \A i \in 1..Len(Tail(p)) : Tail(p)[i] = p[i + 1]
  BY HeadTailProperties
<1>2. \A i \in 1..Len(p) : i = 1 \/ (i - 1 \in 1..Len(Tail(p)) /\ p[i] = Tail(p)[i - 1])
  BY <1>1
<1>3. \A i \in 1..Len(Tail(p)) : i + 1 \in 1..Len(p)
  BY <1>1
<1>4. 1 \in 1..Len(p)
  BY <1>1
<1> QED
  BY <1>1, <1>2, <1>3, <1>4 DEF Has

LEMMA ShapeTail ==
    ASSUME NEW p \in Seq(CarSteps), p # <<>>, Shape(p)
    PROVE  /\ Shape(Tail(p))
           /\ \A y \in Starts : ~Has(Tail(p), y)
           /\ \A d \in Directions : Has(Tail(p), Step("Signal", d)) => Head(p) \in Opens(d)
           /\ Head(p) \in Ends => Tail(p) = <<>>
<1> DEFINE q == Tail(p)
<1>1. /\ Len(p) \in Nat \ {0} /\ Head(p) = p[1] /\ q \in Seq(CarSteps)
      /\ Len(q) = Len(p) - 1
      /\ \A i \in 1..Len(q) : q[i] = p[i + 1] /\ i + 1 \in 1..Len(p)
  BY HeadTailProperties
<1>2. EndsLast(p) /\ StartsFirst(p) /\ SignalsOpened(p)
  BY DEF Shape
<1>3. 1 \in 1..Len(p) /\ \A i \in 1..Len(q) : 1 \in 1..(i + 1) - 1 /\ i + 1 # 1
  BY <1>1
<1> HIDE DEF q
<1>4. EndsLast(q)
  BY <1>1, <1>2 DEF EndsLast
<1>5. \A i \in 1..Len(q) : q[i] \notin Starts
  BY <1>1, <1>2, <1>3 DEF StartsFirst
<1>6. SignalsOpened(q)
  <2> SUFFICES ASSUME NEW i \in 1..Len(q), NEW d \in Directions, q[i] = Step("Signal", d),
                      NEW j \in 1..i - 1
               PROVE  q[j] \in Opens(d)
    BY DEF SignalsOpened
  <2>1. i + 1 \in 1..Len(p) /\ p[i + 1] = Step("Signal", d)
    BY <1>1
  <2>2. j + 1 \in 1..(i + 1) - 1 /\ q[j] = p[j + 1]
    BY <1>1
  <2> QED
    BY <1>2, <2>1, <2>2 DEF SignalsOpened
<1>7. \A d \in Directions : Has(q, Step("Signal", d)) => p[1] \in Opens(d)
  BY <1>1, <1>2, <1>3 DEF Has, SignalsOpened
<1>8. p[1] \in Ends => Len(q) = 0
  BY <1>1, <1>2, <1>3 DEF EndsLast
<1>9. p[1] \in Ends => q = <<>>
  BY <1>1, <1>8, EmptySeq
<1> QED
  BY <1>1, <1>4, <1>5, <1>6, <1>7, <1>9 DEF Shape, StartsFirst, Has, q

LEMMA ProgramCons ==
    ASSUME NEW x \in CarSteps, NEW q \in Seq(CarSteps)
    PROVE  /\ <<x>> \o q \in Seq(CarSteps) /\ <<x>> \o q # <<>>
           /\ Head(<<x>> \o q) = x /\ Tail(<<x>> \o q) = q
           /\ \A y : Has(<<x>> \o q, y) <=> y = x \/ Has(q, y)
<1>1. /\ <<x>> \o q \in Seq(CarSteps) /\ <<x>> \o q # <<>>
      /\ Head(<<x>> \o q) = x /\ Tail(<<x>> \o q) = q
  BY NextStepOf
<1> QED
  BY <1>1, ProgramTail

LEMMA ShapeCons ==
    ASSUME NEW x \in CarSteps, NEW q \in Seq(CarSteps), Shape(q),
           \A y \in Starts : ~Has(q, y),
           \A d \in Directions : Has(q, Step("Signal", d)) => x \in Opens(d),
           x \in Ends => q = <<>>
    PROVE  Shape(<<x>> \o q)
<1> DEFINE p == <<x>> \o q
<1>1. <<x>> \in Seq(CarSteps) /\ Len(<<x>>) = 1 /\ <<x>>[1] = x
  OBVIOUS
<1>2. /\ p \in Seq(CarSteps) /\ Len(p) = 1 + Len(q) /\ Len(q) \in Nat
      /\ \A i \in 1..1 + Len(q) : p[i] = IF i <= 1 THEN <<x>>[i] ELSE q[i - 1]
  BY <1>1, ConcatProperties, LenProperties
<1>3. \A i \in 1..Len(p) : \/ i = 1 /\ p[i] = x
                           \/ i - 1 \in 1..Len(q) /\ p[i] = q[i - 1]
  BY <1>1, <1>2
<1> HIDE DEF p
<1>4. EndsLast(p)
  <2>1. EndsLast(q) /\ (q = <<>> => Len(q) = 0)
    BY DEF Shape
  <2> QED
    BY <1>2, <1>3, <2>1 DEF EndsLast
<1>5. StartsFirst(p)
  BY <1>3 DEF StartsFirst, Has
<1>6. SignalsOpened(p)
  <2> SUFFICES ASSUME NEW i \in 1..Len(p), NEW d \in Directions, p[i] = Step("Signal", d),
                      NEW j \in 1..i - 1
               PROVE  p[j] \in Opens(d)
    BY DEF SignalsOpened
  <2>1. i \in Nat /\ j \in Nat /\ i # 1 /\ j \in 1..Len(p)
    BY <1>2
  <2>2. i - 1 \in 1..Len(q) /\ q[i - 1] = Step("Signal", d)
    BY <1>3, <2>1
  <2>3. CASE j = 1
    BY <1>3, <2>1, <2>2, <2>3 DEF Has
  <2>4. CASE j # 1
    <3>1. j - 1 \in 1..(i - 1) - 1 /\ p[j] = q[j - 1]
      BY <1>2, <1>3, <2>1, <2>4
    <3> QED
      BY <2>2, <3>1 DEF Shape, SignalsOpened
  <2> QED
    BY <2>3, <2>4
<1> QED
  BY <1>4, <1>5, <1>6 DEF Shape, p

\* A program of a single step.
LEMMA ProgramOne ==
    ASSUME NEW x \in CarSteps
    PROVE  <<x>> \in Seq(CarSteps) /\ Shape(<<x>>) /\ \A y : Has(<<x>>, y) <=> y = x
<1>1. <<x>> \in Seq(CarSteps) /\ Len(<<x>>) = 1 /\ <<x>>[1] = x
  OBVIOUS
<1>2. \A i \in 1..1 : i = 1
  OBVIOUS
<1>3. 1 \in 1..1 /\ \A j : j \notin 1..1 - 1
  OBVIOUS
<1> QED
  BY <1>1, <1>2, <1>3 DEF Has, Shape, EndsLast, StartsFirst, SignalsOpened

\* The signals of a car that enters, in front of the rest of its program.
SignalTimes(k, d) == [i \in 1..k |-> Step("Signal", d)]

LEMMA SignalRun ==
    ASSUME NEW k \in Nat, NEW d \in Directions, NEW q \in Seq(CarSteps), Shape(q),
           \A y \in Starts : ~Has(q, y),
           \A e \in Directions : ~Has(q, Step("Signal", e)),
           NEW r, r = SignalTimes(k, d) \o q
    PROVE  /\ r \in Seq(CarSteps) /\ Shape(r)
           /\ \A y : Has(r, y) => y = Step("Signal", d) \/ Has(q, y)
           /\ \A y : Has(q, y) => Has(r, y)
<1> DEFINE s == SignalTimes(k, d)
<1>1. Step("Signal", d) \in CarSteps
  BY DEF CarSteps, Moves
<1>2. /\ s \in Seq(CarSteps) /\ Len(s) = k
      /\ \A i \in 1..k : s[i] = Step("Signal", d)
  BY <1>1 DEF SignalTimes
<1>3. /\ r \in Seq(CarSteps) /\ Len(r) = k + Len(q) /\ Len(q) \in Nat
      /\ \A i \in 1..k + Len(q) : r[i] = IF i <= k THEN s[i] ELSE q[i - k]
  BY <1>2, ConcatProperties, LenProperties
<1> HIDE DEF s
<1>4. \A i \in 1..Len(r) : \/ i <= k /\ r[i] = Step("Signal", d)
                           \/ i - k \in 1..Len(q) /\ r[i] = q[i - k] /\ k < i
  BY <1>2, <1>3
<1>5. \A i \in 1..Len(q) : i + k \in 1..Len(r) /\ r[i + k] = q[i]
  BY <1>3
<1>6. \A y : Has(r, y) => y = Step("Signal", d) \/ Has(q, y)
  BY <1>4 DEF Has
<1>7. \A y : Has(q, y) => Has(r, y)
  BY <1>5 DEF Has
<1>8. Step("Signal", d) \notin Ends /\ Step("Signal", d) \notin Starts
  BY Names DEF Ends, Starts
<1>9. EndsLast(r)
  <2> SUFFICES ASSUME NEW i \in 1..Len(r), r[i] \in Ends PROVE i = Len(r)
    BY DEF EndsLast
  <2>1. i - k \in 1..Len(q) /\ q[i - k] \in Ends
    BY <1>4, <1>8
  <2>2. i - k = Len(q)
    BY <2>1 DEF Shape, EndsLast
  <2> QED
    BY <1>3, <2>2
<1>10. StartsFirst(r)
  BY <1>4, <1>8 DEF StartsFirst, Has
<1>11. SignalsOpened(r)
  <2> SUFFICES ASSUME NEW i \in 1..Len(r), NEW e \in Directions, r[i] = Step("Signal", e),
                      NEW j \in 1..i - 1
               PROVE  r[j] \in Opens(e)
    BY DEF SignalsOpened
  <2>1. i <= k /\ e = d
    BY <1>4, Names DEF Has
  <2>2. r[j] = Step("Signal", d)
    <3>1. j \in Int /\ 1 <= j /\ j <= k
      BY <2>1
    <3>2. j \in 1..Len(r) /\ ~(k < j)
      BY <1>3, <3>1
    <3> QED
      BY <1>4, <3>2
  <2> QED
    BY <2>1, <2>2 DEF Opens
<1> QED
  BY <1>3, <1>6, <1>7, <1>9, <1>10, <1>11 DEF Shape

-----------------------------------------------------------------------------
(* What a step of the car t does to the calls and to the counters.         *)

OwnersKept(t) ==
    \A u \in Threads \ {t}, l \in Locks : ownerThread[l] = u => ownerThread'[l] = u

\* The items that other cars have still to pop.
PopsKept(t) ==
    \A u \in Threads \ {t}, c \in Conditions :
        NextIs(u, Step("Pop", c)) => threadQueue'[c] # <<>>

LEMMA CallMoves ==
    ASSUME CallInv, NEW t \in Cars, NEW q \in Seq(CarSteps), Shape(q),
           pending' = [pending EXCEPT ![t] = q], OwnersKept(t), PopsKept(t),
           threadQueue' \in [Conditions -> Seq(Threads)],
           \A d \in Directions : Signals(q, d) =>
               ownerThread'[CV_LOCK(d)] = t \/ (q # <<>> /\ Head(q) = Own(CV_LOCK(d))),
           \A c \in Conditions : q # <<>> /\ Head(q) = Step("Pop", c) => threadQueue'[c] # <<>>
    PROVE  CallInv' /\ pending'[t] = q /\ \A u \in Threads \ {t} : pending'[u] = pending[u]
<1>1. CallType /\ t \in Threads /\ t # MainThread
  BY Names DEF CallInv
<1>2. pending'[t] = q /\ \A u \in Threads \ {t} : pending'[u] = pending[u]
  BY <1>1 DEF CallType
<1>3. CallType'
  <2>1. pending' \in [Threads -> Seq(CarSteps)]
    BY <1>1 DEF CallType
  <2>2. pending'[MainThread] = <<>>
    BY <1>1, <1>2, Names DEF CallType
  <2>3. ASSUME NEW u \in Threads PROVE Shape(pending'[u])
    BY <1>1, <1>2 DEF CallType
  <2>4. ASSUME NEW u \in Threads PROVE Shape(pending[u])'
    BY <2>3 DEF Shape, EndsLast, StartsFirst, SignalsOpened, Opens, CV_DIR
  <2> QED
    BY <2>1, <2>2, <2>4 DEF CallType
<1>4. SignallersOwn'
  <2> SUFFICES ASSUME NEW u \in Threads, NEW d \in Directions, Signals(pending'[u], d)
               PROVE  \/ ownerThread'[CV_LOCK(d)] = u
                      \/ pending'[u] # <<>> /\ Head(pending'[u]) = Own(CV_LOCK(d))
    BY DEF SignallersOwn, NextIs, Signals, Has, CV_DIR, CV_LOCK, Own
  <2>1. CASE u = t
    BY <1>2, <2>1
  <2>2. CASE u # t
    <3>1. ownerThread[CV_LOCK(d)] = u \/ NextIs(u, Own(CV_LOCK(d)))
      BY <1>2, <2>2 DEF CallInv, SignallersOwn
    <3> QED
      BY <1>2, <2>2, <3>1, Names DEF OwnersKept, NextIs
  <2> QED
    BY <2>1, <2>2
<1>5. PopQueued'
  <2> SUFFICES ASSUME NEW u \in Threads, NEW c \in Conditions,
                      pending'[u] # <<>>, Head(pending'[u]) = Step("Pop", c)
               PROVE  threadQueue'[c] # <<>>
    BY DEF PopQueued, NextIs
  <2>1. CASE u = t
    BY <1>2, <2>1
  <2>2. CASE u # t
    BY <1>2, <2>2 DEF PopsKept, NextIs
  <2> QED
    BY <2>1, <2>2
<1> QED
  BY <1>2, <1>3, <1>4, <1>5 DEF CallInv

LEMMA CallsStay ==
    ASSUME CallInv, UNCHANGED <<pending, ownerThread, threadQueue>> PROVE CallInv'
BY DEF CallInv, CallType, SignallersOwn, PopQueued, Shape, EndsLast, StartsFirst,
   SignalsOpened, Opens, Signals, Has, NextIs, CV_DIR, CV_LOCK, Own

\* The next step of a car, and what follows it.
LEMMA AtStep ==
    ASSUME CallInv, NEW t \in Threads, NEW s, NEW x, NextStep(t, s, x)
    PROVE  /\ t \in Cars /\ IsRunning(t) /\ NextIs(t, Step(s, x))
           /\ pending[t] \in Seq(CarSteps) /\ pending[t] # <<>> /\ Head(pending[t]) = Step(s, x)
           /\ Step(s, x) \in CarSteps
           /\ Tail(pending[t]) \in Seq(CarSteps) /\ Shape(Tail(pending[t]))
           /\ \A y \in Starts : ~Has(Tail(pending[t]), y)
           /\ \A d \in Directions :
                Has(Tail(pending[t]), Step("Signal", d)) => Step(s, x) \in Opens(d)
           /\ Step(s, x) \in Ends => Tail(pending[t]) = <<>>
           /\ \A y : Has(pending[t], y) <=> y = Step(s, x) \/ Has(Tail(pending[t]), y)
           /\ s # "Own" => InNoAcquire(t)
<1>1. /\ IsRunning(t) /\ pending[t] # <<>> /\ Head(pending[t]) = Step(s, x)
  BY DEF NextStep, Step
<1>2. pending[t] \in Seq(CarSteps) /\ Shape(pending[t]) /\ t \in Cars
  BY <1>1, Names DEF CallInv, CallType
<1>3. s # "Own" => InNoAcquire(t)
  BY <1>1, Names DEF InNoAcquire, NextIs
<1> QED
  BY <1>1, <1>2, <1>3, ProgramTail, ShapeTail DEF NextIs

\* A step that goes on with the rest of its program, outside an Acquire then.
LEMMA ReturnCall ==
    ASSUME CallInv, NEW t \in Threads, NEW s, NEW x, NextStep(t, s, x), Return(t),
           OwnersKept(t), PopsKept(t), threadQueue' \in [Conditions -> Seq(Threads)],
           \A d \in Directions : Step(s, x) \in Opens(d) => ownerThread'[CV_LOCK(d)] = t
    PROVE  /\ CallInv' /\ pending'[t] = Tail(pending[t])
           /\ \A u \in Threads \ {t} : pending'[u] = pending[u]
<1> DEFINE q == Tail(pending[t])
<1>1. /\ t \in Cars /\ q \in Seq(CarSteps) /\ Shape(q)
      /\ \A y \in Starts : ~Has(q, y)
      /\ \A d \in Directions : Has(q, Step("Signal", d)) => Step(s, x) \in Opens(d)
  BY AtStep
<1>2. pending' = [pending EXCEPT ![t] = q]
  BY DEF Return
<1> HIDE DEF q
<1>3. \A c \in Conditions : Step("Pop", c) \in Starts
  BY DEF Starts
<1>4. \A d \in Directions : Signals(q, d) => ownerThread'[CV_LOCK(d)] = t
  BY <1>1, <1>3, Names DEF Signals
<1>5. \A c \in Conditions : ~(q # <<>> /\ Head(q) = Step("Pop", c))
  BY <1>1, <1>3, ProgramTail
<1>6. CallInv' /\ pending'[t] = q /\ \A u \in Threads \ {t} : pending'[u] = pending[u]
  BY <1>1, <1>2, <1>4, <1>5, CallMoves
<1> QED
  BY <1>6 DEF q

LEMMA ReturnsOutside ==
    ASSUME CallInv, NEW t \in Threads, NEW s, NEW x, NextStep(t, s, x), Return(t)
    PROVE  /\ InNoAcquire(t)'
           /\ \A u \in Threads \ {t} : pending'[u] = pending[u]
           /\ Step(s, x) \notin {Step(r, d) : r \in {"Exit", "Leave"}, d \in Directions} =>
                \A u \in Threads, d \in Directions : On(pending'[u], d) <=> On(pending[u], d)
<1> DEFINE q == Tail(pending[t])
<1>1. /\ t \in Cars /\ q \in Seq(CarSteps)
      /\ \A y \in Starts : ~Has(q, y)
      /\ \A y : Has(pending[t], y) <=> y = Step(s, x) \/ Has(q, y)
  BY AtStep
<1>2. pending'[t] = q /\ \A u \in Threads \ {t} : pending'[u] = pending[u]
  BY DEF Return, CallInv, CallType
<1> HIDE DEF q
<1>3. \A l \in Locks : Own(l) \in Starts
  BY Names DEF Starts
<1>4. \A l \in Locks : ~(q # <<>> /\ Head(q) = Own(l))
  BY <1>1, <1>3, ProgramTail
<1>5. InNoAcquire(t)'
  BY <1>2, <1>4 DEF InNoAcquire, NextIs, Own
<1>6. ASSUME Step(s, x) \notin {Step(r, d) : r \in {"Exit", "Leave"}, d \in Directions}
      PROVE  \A u \in Threads, d \in Directions : On(pending'[u], d) <=> On(pending[u], d)
  BY <1>1, <1>2, <1>6 DEF On
<1> QED
  BY <1>2, <1>5, <1>6

\* Lock::Acquire, in front of the rest r of a program.
LEMMA AcquireCall ==
    ASSUME LockInv, CallInv, NEW t \in Cars, IsRunning(t), InNoAcquire(t), NEW l \in Locks,
           NEW r \in Seq(CarSteps), Shape(r), \A y \in Starts : ~Has(r, y),
           \A d \in Directions : Has(r, Step("Signal", d)) => l = CV_LOCK(d),
           StartAcquire(t, l, r), UNCHANGED threadQueue
    PROVE  /\ LockInv' /\ CallInv'
           /\ \A d \in Directions : On(pending'[t], d) <=> On(r, d)
           /\ \A u \in Threads \ {t} : pending'[u] = pending[u]
<1> DEFINE q == <<Own(l)>> \o r
<1>1. Own(l) \in CarSteps /\ Own(l) \notin Ends
  BY Names DEF CarSteps, Ends
<1>2. /\ q \in Seq(CarSteps) /\ q # <<>> /\ Head(q) = Own(l)
      /\ \A y : Has(q, y) <=> y = Own(l) \/ Has(r, y)
  BY <1>1, ProgramCons
<1>3. Shape(q)
  BY <1>1, ShapeCons DEF Opens
<1>4. t \in Threads /\ pending \in [Threads -> Seq(CarSteps)]
  BY Names DEF CallInv, CallType
<1>5. LockInv' /\ pending' = [pending EXCEPT ![t] = q]
  BY <1>1, <1>4, StartAcquireInv
<1> HIDE DEF q
<1>6. UNCHANGED <<ownerThread, threadQueue>>
  BY DEF StartAcquire, lockVars
<1>7. OwnersKept(t) /\ PopsKept(t) /\ threadQueue' \in [Conditions -> Seq(Threads)]
  BY <1>6 DEF OwnersKept, PopsKept, CallInv, CallType, PopQueued
<1>8. \A d \in Directions : Signals(q, d) => Head(q) = Own(CV_LOCK(d))
  <2> SUFFICES ASSUME NEW d \in Directions, Signals(q, d) PROVE l = CV_LOCK(d)
    BY <1>2
  <2>1. Step("Pop", CV_DIR(d)) \in Starts
    BY Names DEF Starts
  <2> QED
    BY <1>2, <2>1, Names DEF Signals
<1>9. \A c \in Conditions : Head(q) # Step("Pop", c)
  BY <1>2, Names
<1>10. /\ CallInv' /\ pending'[t] = q
       /\ \A u \in Threads \ {t} : pending'[u] = pending[u]
  BY <1>2, <1>3, <1>5, <1>7, <1>8, <1>9, CallMoves
<1>11. \A d \in Directions : On(q, d) <=> On(r, d)
  BY <1>2, Names DEF On
<1> QED
  BY <1>5, <1>10, <1>11

\* The counters when no car enters or leaves.
LEMMA CountsStay ==
    ASSUME Counted, UNCHANGED COUNT, CUR_DIR' \in Directions,
           \A d \in Directions : COUNT[d] > 0 => CUR_DIR' = d,
           \A u \in Threads, d \in Directions : On(pending'[u], d) <=> On(pending[u], d)
    PROVE  Counted'
<1>1. \A d \in Directions : CarsOn(d) = {u \in Cars : On(pending'[u], d)}
  BY Names DEF CarsOn
<1>2. \A d \in Directions : CarsOn(d)' = CarsOn(d)
  BY <1>1 DEF CarsOn, On, Has
<1> QED
  BY <1>2 DEF Counted

LEMMA CarsFinite == \A d \in Directions : IsFiniteSet(CarsOn(d)) /\ CarsOn(d) \subseteq Cars
<1>1. \A d \in Directions : CarsOn(d) \subseteq Threads
  BY Names DEF CarsOn
<1> QED
  BY <1>1, KernelAssumption, FS_Subset DEF CarsOn

\* The cars on the bridge when only t moves.
LEMMA CarsOnMove ==
    ASSUME NEW t \in Cars, NEW d \in Directions,
           \A u \in Threads \ {t} : pending'[u] = pending[u]
    PROVE  /\ On(pending'[t], d) => CarsOn(d)' = CarsOn(d) \cup {t}
           /\ ~On(pending'[t], d) => CarsOn(d)' = CarsOn(d) \ {t}
           /\ t \in CarsOn(d) <=> On(pending[t], d)
<1>1. CarsOn(d)' = {u \in Cars : On(pending'[u], d)}
  BY DEF CarsOn, On, Has
<1> QED
  BY <1>1, Names DEF CarsOn

LEMMA CarEnters ==
    ASSUME Counted, NEW t \in Cars, NEW d \in Directions,
           \A u \in Threads \ {t} : pending'[u] = pending[u],
           \A e \in Directions : ~On(pending[t], e),
           \A e \in Directions : On(pending'[t], e) <=> e = d,
           MyTurn(d), COUNT[d] < MAX_LOAD, COUNT' = [COUNT EXCEPT ![d] = @ + 1], CUR_DIR' = d
    PROVE  Counted'
<1>1. /\ COUNT \in [Directions -> 0..MAX_LOAD] /\ CUR_DIR \in Directions
      /\ \A e \in Directions : Cardinality(CarsOn(e)) = COUNT[e]
      /\ \A e \in Directions : COUNT[e] > 0 => CUR_DIR = e
      /\ MAX_LOAD \in Nat \ {0}
  BY BridgeAssumption DEF Counted
<1>2. /\ COUNT' \in [Directions -> 0..MAX_LOAD] /\ COUNT'[d] = COUNT[d] + 1
      /\ \A e \in Directions \ {d} : COUNT'[e] = COUNT[e]
  BY <1>1
<1>3. CarsOn(d)' = CarsOn(d) \cup {t} /\ t \notin CarsOn(d)
  BY CarsOnMove
<1>4. Cardinality(CarsOn(d)') = COUNT'[d]
  BY <1>1, <1>2, <1>3, CarsFinite, FS_AddElement, ZenonT(60)
<1>5. ASSUME NEW e \in Directions \ {d} PROVE Cardinality(CarsOn(e)') = COUNT'[e]
  <2>1. CarsOn(e)' = CarsOn(e) \ {t} /\ t \notin CarsOn(e)
    BY CarsOnMove
  <2>2. CarsOn(e)' = CarsOn(e)
    BY <2>1
  <2> QED
    BY <1>1, <1>2, <2>2
<1>6. \A e \in Directions : COUNT'[e] > 0 => CUR_DIR' = e
  BY <1>1, <1>2 DEF MyTurn, Directions
<1> QED
  BY <1>2, <1>4, <1>5, <1>6 DEF Counted

LEMMA CarLeaves ==
    ASSUME Counted, NEW t \in Cars, NEW d \in Directions,
           \A u \in Threads \ {t} : pending'[u] = pending[u],
           \A e \in Directions : On(pending[t], e) <=> e = d,
           \A e \in Directions : ~On(pending'[t], e),
           COUNT' = [COUNT EXCEPT ![d] = @ - 1],
           CUR_DIR' = CUR_DIR \/ (COUNT[d] = 1 /\ CUR_DIR' \in Directions)
    PROVE  Counted'
<1>1. /\ COUNT \in [Directions -> 0..MAX_LOAD] /\ CUR_DIR \in Directions
      /\ \A e \in Directions : Cardinality(CarsOn(e)) = COUNT[e]
      /\ \A e \in Directions : COUNT[e] > 0 => CUR_DIR = e
      /\ MAX_LOAD \in Nat \ {0}
  BY BridgeAssumption DEF Counted
<1>2. CarsOn(d)' = CarsOn(d) \ {t} /\ t \in CarsOn(d)
  BY CarsOnMove
<1>3. Cardinality(CarsOn(d)') = COUNT[d] - 1 /\ COUNT[d] # 0
  <2>1. Cardinality(CarsOn(d)') = COUNT[d] - 1
    BY <1>1, <1>2, CarsFinite, FS_RemoveElement, ZenonT(60)
  <2>2. COUNT[d] # 0
    <3>1. CarsOn(d) # {} /\ IsFiniteSet(CarsOn(d))
      BY <1>2, CarsFinite
    <3>2. Cardinality(CarsOn(d)) # 0
      BY <3>1, FS_EmptySet
    <3> QED
      BY <1>1, <3>2
  <2> QED
    BY <2>1, <2>2
<1>4. /\ COUNT' \in [Directions -> 0..MAX_LOAD] /\ COUNT'[d] = COUNT[d] - 1
      /\ \A e \in Directions \ {d} : COUNT'[e] = COUNT[e]
  BY <1>1, <1>3
<1>5. ASSUME NEW e \in Directions \ {d} PROVE Cardinality(CarsOn(e)') = COUNT'[e]
  <2>1. CarsOn(e)' = CarsOn(e) \ {t} /\ t \notin CarsOn(e)
    BY CarsOnMove
  <2>2. CarsOn(e)' = CarsOn(e)
    BY <2>1
  <2> QED
    BY <1>1, <1>4, <2>2
<1>6. CUR_DIR = d /\ \A e \in Directions \ {d} : COUNT[e] = 0
  <2>1. COUNT[d] > 0
    BY <1>1, <1>3
  <2> QED
    BY <1>1, <2>1
<1>7. \A e \in Directions : COUNT'[e] > 0 => CUR_DIR' = e
  BY <1>1, <1>4, <1>6
<1> QED
  BY <1>1, <1>3, <1>4, <1>5, <1>7 DEF Counted

-----------------------------------------------------------------------------
(* The programs of the code.                                               *)

Signalling == {Step("Signal", d) : d \in Directions}

LEMMA ProgramThree ==
    ASSUME NEW a \in CarSteps \ (Ends \cup Starts),
           NEW b \in CarSteps \ (Ends \cup Starts \cup Signalling),
           NEW c \in CarSteps \ (Starts \cup Signalling)
    PROVE  /\ <<a, b, c>> \in Seq(CarSteps) /\ Shape(<<a, b, c>>)
           /\ \A y : Has(<<a, b, c>>, y) <=> y \in {a, b, c}
<1> DEFINE p == <<a, b, c>>
<1>1. p \in Seq(CarSteps) /\ Len(p) = 3 /\ p[1] = a /\ p[2] = b /\ p[3] = c
  OBVIOUS
<1> HIDE DEF p
<1>2. \A i \in 1..Len(p) : i = 1 \/ i = 2 \/ i = 3
  BY <1>1
<1>3. 1 \in 1..Len(p) /\ 2 \in 1..Len(p) /\ 3 \in 1..Len(p) /\ \A j : j \notin 1..1 - 1
  BY <1>1
<1>4. \A y : Has(p, y) <=> y \in {a, b, c}
  BY <1>1, <1>2, <1>3 DEF Has
<1>5. EndsLast(p) /\ StartsFirst(p)
  BY <1>1, <1>2 DEF EndsLast, StartsFirst
<1>6. SignalsOpened(p)
  BY <1>1, <1>2, <1>3 DEF SignalsOpened, Signalling
<1> QED
  BY <1>1, <1>4, <1>5, <1>6 DEF Shape, p

LEMMA ProgramFour ==
    ASSUME NEW a \in CarSteps \ (Ends \cup Starts \cup Signalling),
           NEW b \in CarSteps \ (Ends \cup Starts \cup Signalling),
           NEW c \in CarSteps \ (Ends \cup Starts \cup Signalling),
           NEW e \in CarSteps \ (Starts \cup Signalling)
    PROVE  /\ <<a, b, c, e>> \in Seq(CarSteps) /\ Shape(<<a, b, c, e>>)
           /\ \A y : Has(<<a, b, c, e>>, y) <=> y \in {a, b, c, e}
<1> DEFINE p == <<a, b, c, e>>
<1>1. /\ p \in Seq(CarSteps) /\ Len(p) = 4
      /\ p[1] = a /\ p[2] = b /\ p[3] = c /\ p[4] = e
  OBVIOUS
<1> HIDE DEF p
<1>2. \A i \in 1..Len(p) : i = 1 \/ i = 2 \/ i = 3 \/ i = 4
  BY <1>1
<1>3. {1, 2, 3, 4} \subseteq 1..Len(p)
  BY <1>1
<1>4. \A y : Has(p, y) <=> y \in {a, b, c, e}
  BY <1>1, <1>2, <1>3 DEF Has
<1>5. EndsLast(p) /\ StartsFirst(p)
  BY <1>1, <1>2 DEF EndsLast, StartsFirst
<1>6. SignalsOpened(p)
  BY <1>1, <1>2 DEF SignalsOpened, Signalling
<1> QED
  BY <1>1, <1>4, <1>5, <1>6 DEF Shape, p

\* Which steps of the cars are of which kind.
LEMMA Kinds ==
    /\ \A s \in Moves, d \in Directions : Step(s, d) \in CarSteps \ Starts
    /\ \A s \in {"WaitFull", "WaitTurn", "Signal"}, d \in Directions : Step(s, d) \notin Ends
    /\ \A s \in {"Arrive", "Check", "Exit", "Leave"}, d \in Directions : Step(s, d) \in Ends
    /\ \A s \in Moves \ {"Signal"}, d \in Directions : Step(s, d) \notin Signalling
    /\ \A s \in {"Reacquire", "Unlock"}, l \in Locks :
         Step(s, l) \in CarSteps \ (Ends \cup Starts \cup Signalling)
    /\ \A t \in Threads : Step("Sleep", t) \in CarSteps \ (Ends \cup Starts \cup Signalling)
    /\ \A c \in Conditions : Step("Pop", c) \in CarSteps \cap Starts /\ Step("Pop", c) \notin Ends
    /\ \A d \in Directions : Step("Signal", d) \in Signalling
BY Names DEF CarSteps, Moves, Ends, Starts, Signalling

\* A car at a step that ends the part of its program that is in `pending'.
LEMMA AtEnd ==
    ASSUME CallInv, NEW t \in Threads, NEW s \in {"Arrive", "Check", "Exit", "Leave"},
           NEW d \in Directions, NextStep(t, s, d)
    PROVE  \A e \in Directions : On(pending[t], e) <=> s \in {"Exit", "Leave"} /\ e = d
<1>1. Tail(pending[t]) = <<>> /\ \A y : Has(pending[t], y) <=> y = Step(s, d) \/ Has(<<>>, y)
  <2>1. Step(s, d) \in Ends
    BY Kinds
  <2>2. Tail(pending[t]) = <<>>
    BY <2>1, AtStep
  <2>3. \A y : Has(pending[t], y) <=> y = Step(s, d) \/ Has(Tail(pending[t]), y)
    BY AtStep
  <2> QED
    BY <2>2, <2>3
<1>2. \A y : ~Has(<<>>, y)
  BY DEF Has
<1> QED
  BY <1>1, <1>2, Names DEF On

-----------------------------------------------------------------------------
(* Every step keeps the invariant.                                         *)

LEMMA InvParts ==
    ASSUME BridgeInv
    PROVE  /\ LockInv /\ CallInv /\ Counted /\ KernelInv
           /\ pending \in [Threads -> Seq(CarSteps)]
           /\ threadQueue \in [Conditions -> Seq(Threads)]
           /\ COUNT \in [Directions -> 0..MAX_LOAD] /\ CUR_DIR \in Directions
           /\ \A d \in Directions : COUNT[d] > 0 => CUR_DIR = d
           /\ MAX_LOAD \in Nat \ {0}
BY BridgeAssumption DEF BridgeInv, LockInv, CallInv, CallType, Counted

LEMMA ArriveStep ==
    ASSUME BridgeInv, NEW t \in Threads, NEW d \in Directions, Arrive(t, d) \/ StartExit(t, d)
    PROVE  BridgeInv'
<1>1. PICK s \in {"Arrive", "Exit"}, r \in {"Check", "Leave"} :
        /\ s = "Exit" <=> r = "Leave"
        /\ NextStep(t, s, d) /\ StartAcquire(t, Car_Lock, <<Step(r, d)>>)
        /\ UNCHANGED threadQueue /\ UNCHANGED <<COUNT, CUR_DIR>>
  BY DEF Arrive, StartExit, bridgeVars
<1> DEFINE q == <<Step(r, d)>>
<1>2. /\ LockInv /\ CallInv /\ Counted /\ CUR_DIR \in Directions
      /\ \A e \in Directions : COUNT[e] > 0 => CUR_DIR = e
  BY InvParts
<1>3. t \in Cars /\ IsRunning(t) /\ InNoAcquire(t)
  BY <1>1, <1>2, AtStep
<1>4. /\ q \in Seq(CarSteps) /\ Shape(q)
      /\ \A y : Has(q, y) <=> y = Step(r, d)
      /\ \A y \in Starts : ~Has(q, y)
      /\ \A e \in Directions : ~Has(q, Step("Signal", e))
  <2>1. Step(r, d) \in CarSteps \ Starts
    BY Kinds DEF Moves
  <2> QED
    BY <2>1, ProgramOne, Names
<1> HIDE DEF q
<1>5. /\ LockInv' /\ CallInv'
      /\ \A e \in Directions : On(pending'[t], e) <=> On(q, e)
      /\ \A u \in Threads \ {t} : pending'[u] = pending[u]
  <2>1. StartAcquire(t, Car_Lock, q)
    BY <1>1 DEF q
  <2> QED
    BY <1>1, <1>2, <1>3, <1>4, <2>1, Names, AcquireCall
<1>6. \A e \in Directions : On(pending'[t], e) <=> On(pending[t], e)
  BY <1>1, <1>2, <1>4, <1>5, AtEnd, Names DEF On
<1>7. Counted'
  BY <1>1, <1>2, <1>5, <1>6, CountsStay
<1> QED
  BY <1>5, <1>7 DEF BridgeInv

LEMMA EnterStep ==
    ASSUME BridgeInv, NEW t \in Threads, NEW d \in Directions, EnterBridge(t, d)
    PROVE  BridgeInv'
<1> DEFINE last == <<Unlock(CV_LOCK(d)), Unlock(Car_Lock), Step("Exit", d)>>
           r == [i \in 1..MAX_LOAD - COUNT'[d] |-> Step("Signal", d)] \o last
<1>1. /\ NextStep(t, "Check", d) /\ MyTurn(d) /\ COUNT[d] < MAX_LOAD
      /\ COUNT' = [COUNT EXCEPT ![d] = @ + 1] /\ CUR_DIR' = d
      /\ StartAcquire(t, CV_LOCK(d), r) /\ UNCHANGED threadQueue
  BY DEF EnterBridge
<1>2. /\ LockInv /\ CallInv /\ Counted /\ COUNT \in [Directions -> 0..MAX_LOAD]
      /\ MAX_LOAD \in Nat \ {0}
  BY InvParts
<1>3. t \in Cars /\ IsRunning(t) /\ InNoAcquire(t)
  BY <1>1, <1>2, AtStep
<1>4. MAX_LOAD - COUNT'[d] \in Nat
  BY <1>1, <1>2
<1>5. /\ Unlock(CV_LOCK(d)) \in CarSteps \ (Ends \cup Starts \cup Signalling)
      /\ Unlock(Car_Lock) \in CarSteps \ (Ends \cup Starts \cup Signalling)
      /\ Step("Exit", d) \in CarSteps \ (Starts \cup Signalling)
  BY Names, Kinds DEF Moves
<1>6. /\ last \in Seq(CarSteps) /\ Shape(last)
      /\ \A y : Has(last, y) <=> y \in {Unlock(CV_LOCK(d)), Unlock(Car_Lock), Step("Exit", d)}
  BY <1>5, ProgramThree
<1> HIDE DEF last
<1>7. /\ \A y \in Starts : ~Has(last, y)
      /\ \A e \in Directions : ~Has(last, Step("Signal", e))
  BY <1>5, <1>6, Kinds
<1>8. /\ r \in Seq(CarSteps) /\ Shape(r)
      /\ \A y : Has(r, y) => y = Step("Signal", d) \/ Has(last, y)
      /\ \A y : Has(last, y) => Has(r, y)
  <2>1. r = SignalTimes(MAX_LOAD - COUNT'[d], d) \o last
    BY DEF SignalTimes
  <2>2. PICK k \in Nat : k = MAX_LOAD - COUNT'[d]
    BY <1>4
  <2> HIDE DEF r
  <2>3. r = SignalTimes(k, d) \o last
    BY <2>1, <2>2
  <2>4. last \in Seq(CarSteps) /\ Shape(last)
    BY <1>6
  <2> QED
    BY <1>7, <2>3, <2>4, SignalRun
<1> HIDE DEF r
<1>9. \A y \in Starts : ~Has(r, y)
  BY <1>7, <1>8, Kinds DEF Moves
<1>10. \A e \in Directions : Has(r, Step("Signal", e)) => CV_LOCK(d) = CV_LOCK(e)
  BY <1>7, <1>8, Names
<1>11. /\ LockInv' /\ CallInv'
       /\ \A e \in Directions : On(pending'[t], e) <=> On(r, e)
       /\ \A u \in Threads \ {t} : pending'[u] = pending[u]
  BY <1>1, <1>2, <1>3, <1>8, <1>9, <1>10, Names, AcquireCall
<1>12. \A e \in Directions : On(r, e) <=> e = d
  BY <1>6, <1>8, Names DEF On
<1>13. \A e \in Directions : ~On(pending[t], e)
  BY <1>1, <1>2, AtEnd
<1>14. Counted'
  BY <1>1, <1>2, <1>3, <1>11, <1>12, <1>13, CarEnters
<1> QED
  BY <1>11, <1>14 DEF BridgeInv

LEMMA QueueUpStep ==
    ASSUME BridgeInv, NEW t \in Threads, NEW d \in Directions, BridgeFull(t, d) \/ WrongWay(t, d)
    PROVE  BridgeInv'
<1>1. PICK w \in {"WaitFull", "WaitTurn"} :
        /\ NextStep(t, "Check", d) /\ QueueUp(t, d, w) /\ UNCHANGED COUNT
        /\ CUR_DIR' = CUR_DIR \/ (CUR_DIR' = d /\ MyTurn(d) /\ COUNT[d] >= MAX_LOAD)
  BY DEF BridgeFull, WrongWay, bridgeVars
<1> DEFINE r == <<Unlock(Car_Lock), Step(w, d), Unlock(CV_LOCK(d)), Step("Arrive", d)>>
<1>2. StartAcquire(t, CV_LOCK(d), r) /\ UNCHANGED threadQueue
  BY <1>1 DEF QueueUp
<1>3. /\ LockInv /\ CallInv /\ Counted /\ COUNT \in [Directions -> 0..MAX_LOAD]
      /\ MAX_LOAD \in Nat \ {0} /\ CUR_DIR \in Directions
      /\ \A e \in Directions : COUNT[e] > 0 => CUR_DIR = e
  BY InvParts
<1>4. t \in Cars /\ IsRunning(t) /\ InNoAcquire(t)
  BY <1>1, <1>3, AtStep
<1>5. /\ Unlock(CV_LOCK(d)) \in CarSteps \ (Ends \cup Starts \cup Signalling)
      /\ Unlock(Car_Lock) \in CarSteps \ (Ends \cup Starts \cup Signalling)
      /\ Step(w, d) \in CarSteps \ (Ends \cup Starts \cup Signalling)
      /\ Step("Arrive", d) \in CarSteps \ (Starts \cup Signalling)
  BY Names, Kinds DEF Moves
<1>6. /\ r \in Seq(CarSteps) /\ Shape(r)
      /\ \A y : Has(r, y) <=>
           y \in {Unlock(Car_Lock), Step(w, d), Unlock(CV_LOCK(d)), Step("Arrive", d)}
  BY <1>5, ProgramFour
<1> HIDE DEF r
<1>7. /\ \A y \in Starts : ~Has(r, y)
      /\ \A e \in Directions : ~Has(r, Step("Signal", e))
  BY <1>5, <1>6, Kinds
<1>8. /\ LockInv' /\ CallInv'
      /\ \A e \in Directions : On(pending'[t], e) <=> On(r, e)
      /\ \A u \in Threads \ {t} : pending'[u] = pending[u]
  BY <1>2, <1>3, <1>4, <1>6, <1>7, Names, AcquireCall
<1>9. \A e \in Directions : ~On(r, e)
  BY <1>6, Names DEF On
<1>10. \A e \in Directions : ~On(pending[t], e)
  BY <1>1, <1>3, AtEnd
<1>11. CUR_DIR' = CUR_DIR
  BY <1>1, <1>3
<1>12. Counted'
  BY <1>1, <1>3, <1>8, <1>9, <1>10, <1>11, CountsStay
<1> QED
  BY <1>8, <1>12 DEF BridgeInv

LEMMA OwnersSame == \A t : UNCHANGED ownerThread => OwnersKept(t)
BY DEF OwnersKept

LEMMA OwnerChanges ==
    ASSUME NEW t \in Threads, NEW l \in Locks, Holders(l) = {t},
           \A k \in Locks \ {l} : ownerThread'[k] = ownerThread[k]
    PROVE  OwnersKept(t)
<1>1. \A u \in Threads : ownerThread[l] = u => u = t
  BY DEF Holders
<1> QED
  BY <1>1 DEF OwnersKept

LEMMA QueuesGrow ==
    ASSUME CallInv,
           \A c \in Conditions : threadQueue[c] # <<>> => threadQueue'[c] # <<>>
    PROVE  \A t \in Threads : PopsKept(t)
BY DEF PopsKept, CallInv, PopQueued

LEMMA QueuesSame ==
    ASSUME CallInv, UNCHANGED threadQueue
    PROVE  /\ threadQueue' \in [Conditions -> Seq(Threads)]
           /\ \A t \in Threads : PopsKept(t)
BY QueuesGrow DEF CallInv, CallType

\* Who signals has the lock of the condition, unless it is about to own it.
LEMMA SignallerOwns ==
    ASSUME CallInv, NEW t \in Threads, NEW s \in {"Signal", "Pop"}, NEW x, NextStep(t, s, x),
           NEW d \in Directions, Step(s, x) \in Opens(d)
    PROVE  ownerThread[CV_LOCK(d)] = t
<1>1. Has(pending[t], Step(s, x)) /\ ~NextIs(t, Own(CV_LOCK(d)))
  BY AtStep, Names DEF NextIs
<1>2. Step(s, x) \in {Step("Signal", d), Step("Pop", CV_DIR(d))}
  BY Names DEF Opens
<1> QED
  BY <1>1, <1>2 DEF CallInv, SignallersOwn, Signals

\* The counters when a step of the car is neither Exit nor Leave.
LEMMA ReturnCounts ==
    ASSUME BridgeInv, UNCHANGED bridgeVars,
           \A u \in Threads, d \in Directions : On(pending'[u], d) <=> On(pending[u], d)
    PROVE  Counted'
<1>1. /\ Counted /\ CUR_DIR \in Directions
      /\ \A d \in Directions : COUNT[d] > 0 => CUR_DIR = d
  BY InvParts
<1>2. UNCHANGED COUNT /\ UNCHANGED CUR_DIR
  BY DEF bridgeVars
<1> QED
  BY <1>1, <1>2, CountsStay

LEMMA ReleaseStep ==
    ASSUME BridgeInv, NEW t \in Threads, NEW l \in Locks, ReleaseLock(t, l)
    PROVE  BridgeInv'
<1>1. /\ NextStep(t, "Unlock", l) /\ Return(t)
      /\ UNCHANGED threadQueue /\ UNCHANGED bridgeVars
      /\ Release(t, l) \/ UNCHANGED <<kernelVars, lockVars>>
  BY DEF ReleaseLock
<1>2. LockInv /\ CallInv
  BY InvParts
<1>3. IsRunning(t) /\ InNoAcquire(t)
  BY <1>1, <1>2, AtStep
<1>4. InNoAcquire(t)' /\ \A u \in Threads \ {t} : pending'[u] = pending[u]
  BY <1>1, <1>2, ReturnsOutside
<1>5. LockInv' /\ OwnersKept(t)
  <2>1. CASE Release(t, l)
    <3>1. LockInv' /\ Frees(t, l) /\ \A k \in Locks \ {l} : ownerThread'[k] = ownerThread[k]
      BY <1>2, <1>3, <1>4, <2>1, ReleaseInv
    <3> QED
      BY <3>1, OwnerChanges DEF Frees
  <2>2. CASE UNCHANGED <<kernelVars, lockVars>>
    <3>1. LockInv' /\ UNCHANGED ownerThread
      BY <1>2, <1>3, <1>4, <2>2, CallLockInv DEF lockVars
    <3> QED
      BY <3>1, OwnersSame
  <2> QED
    BY <1>1, <2>1, <2>2
<1>6. \A d \in Directions : Step("Unlock", l) \notin Opens(d)
  BY Names DEF Opens
<1>7. CallInv'
  BY <1>1, <1>2, <1>5, <1>6, QueuesSame, ReturnCall
<1>8. Step("Unlock", l) \notin {Step(r, d) : r \in {"Exit", "Leave"}, d \in Directions}
  BY Names
<1>9. Counted'
  BY <1>1, <1>2, <1>8, ReturnsOutside, ReturnCounts
<1> QED
  BY <1>5, <1>7, <1>9 DEF BridgeInv

LEMMA OneLeavesStep ==
    ASSUME BridgeInv, NEW t \in Threads, NEW d \in Directions, OneLeaves(t, d)
    PROVE  BridgeInv'
<1>1. /\ NextStep(t, "Leave", d) /\ Return(t) /\ Release(t, Car_Lock)
      /\ COUNT' = [COUNT EXCEPT ![d] = @ - 1]
      /\ UNCHANGED threadQueue /\ UNCHANGED CUR_DIR
  BY DEF OneLeaves
<1>2. LockInv /\ CallInv /\ Counted /\ Car_Lock \in Locks
  BY InvParts, Names
<1>3. t \in Cars /\ IsRunning(t) /\ InNoAcquire(t)
  BY <1>1, <1>2, AtStep
<1>4. InNoAcquire(t)' /\ \A u \in Threads \ {t} : pending'[u] = pending[u]
  BY <1>1, <1>2, ReturnsOutside
<1>5. LockInv' /\ OwnersKept(t)
  <2>1. /\ LockInv' /\ Frees(t, Car_Lock)
        /\ \A k \in Locks \ {Car_Lock} : ownerThread'[k] = ownerThread[k]
    BY <1>1, <1>2, <1>3, <1>4, ReleaseInv
  <2> QED
    BY <1>2, <2>1, OwnerChanges DEF Frees
<1>6. \A e \in Directions : Step("Leave", d) \notin Opens(e)
  BY Names DEF Opens
<1>7. CallInv' /\ pending'[t] = Tail(pending[t])
  BY <1>1, <1>2, <1>5, <1>6, QueuesSame, ReturnCall
<1>8. \A e \in Directions : On(pending[t], e) <=> e = d
  BY <1>1, <1>2, AtEnd
<1>9. \A e \in Directions : ~On(pending'[t], e)
  <2>1. Step("Leave", d) \in Ends
    BY Kinds
  <2>2. pending'[t] = <<>>
    BY <1>1, <1>2, <1>7, <2>1, AtStep
  <2> QED
    BY <2>2 DEF On, Has
<1>10. Counted'
  BY <1>1, <1>2, <1>3, <1>4, <1>8, <1>9, CarLeaves
<1> QED
  BY <1>5, <1>7, <1>10 DEF BridgeInv

LEMMA LastLeavesStep ==
    ASSUME BridgeInv, NEW t \in Threads, NEW d \in Directions, LastLeaves(t, d)
    PROVE  BridgeInv'
<1> DEFINE o == Other(d)
           r == <<Step("Signal", o), Unlock(CV_LOCK(o)), Unlock(Car_Lock)>>
<1>1. /\ NextStep(t, "Leave", d) /\ COUNT[d] = 1 /\ COUNT' = [COUNT EXCEPT ![d] = 0]
      /\ CUR_DIR' = o /\ StartAcquire(t, CV_LOCK(o), r) /\ UNCHANGED threadQueue
  BY DEF LastLeaves
<1>2. LockInv /\ CallInv /\ Counted /\ o \in Directions
  BY InvParts DEF Other, Directions
<1> HIDE DEF o
<1>3. t \in Cars /\ IsRunning(t) /\ InNoAcquire(t)
  BY <1>1, <1>2, AtStep
<1>4. /\ Step("Signal", o) \in CarSteps \ (Ends \cup Starts)
      /\ Unlock(CV_LOCK(o)) \in CarSteps \ (Ends \cup Starts \cup Signalling)
      /\ Unlock(Car_Lock) \in CarSteps \ (Starts \cup Signalling)
      /\ Unlock(Car_Lock) \notin Ends
  BY <1>2, Names, Kinds DEF Moves
<1>5. /\ r \in Seq(CarSteps) /\ Shape(r)
      /\ \A y : Has(r, y) <=> y \in {Step("Signal", o), Unlock(CV_LOCK(o)), Unlock(Car_Lock)}
  BY <1>4, ProgramThree
<1> HIDE DEF r
<1>6. \A y \in Starts : ~Has(r, y)
  BY <1>4, <1>5
<1>7. \A e \in Directions : Has(r, Step("Signal", e)) => CV_LOCK(o) = CV_LOCK(e)
  BY <1>5, Names
<1>8. /\ LockInv' /\ CallInv'
      /\ \A e \in Directions : On(pending'[t], e) <=> On(r, e)
      /\ \A u \in Threads \ {t} : pending'[u] = pending[u]
  BY <1>1, <1>2, <1>3, <1>5, <1>6, <1>7, Names, AcquireCall
<1>9. \A e \in Directions : ~On(r, e)
  BY <1>5, Names DEF On
<1>10. \A e \in Directions : On(pending[t], e) <=> e = d
  BY <1>1, <1>2, AtEnd
<1>11. COUNT' = [COUNT EXCEPT ![d] = @ - 1]
  BY <1>1
<1>12. Counted'
  BY <1>1, <1>2, <1>3, <1>8, <1>9, <1>10, <1>11, CarLeaves
<1> QED
  BY <1>8, <1>12 DEF BridgeInv

\* A wait in front of the rest of a program.
LEMMA WaitProgram ==
    ASSUME NEW x \in CarSteps \ (Ends \cup Starts \cup Signalling),
           NEW q \in Seq(CarSteps), Shape(q), \A y \in Starts : ~Has(q, y),
           \A e \in Directions : ~Has(q, Step("Signal", e))
    PROVE  /\ <<x>> \o q \in Seq(CarSteps) /\ Shape(<<x>> \o q)
           /\ Head(<<x>> \o q) = x
           /\ \A y \in Starts : ~Has(<<x>> \o q, y)
           /\ \A e \in Directions : ~Has(<<x>> \o q, Step("Signal", e))
           /\ \A y : Has(<<x>> \o q, y) <=> y = x \/ Has(q, y)
BY ProgramCons, ShapeCons, Kinds

LEMMA TwoInFront ==
    ASSUME NEW x \in CarSteps, NEW y \in CarSteps, NEW q \in Seq(CarSteps)
    PROVE  <<x, y>> \o q = <<x>> \o (<<y>> \o q)
<1>1. /\ <<x>> \in Seq(CarSteps) /\ Len(<<x>>) = 1 /\ <<x>>[1] = x
      /\ <<y>> \in Seq(CarSteps) /\ Len(<<y>>) = 1 /\ <<y>>[1] = y
  OBVIOUS
<1>2. PICK s : s = <<x>> \o <<y>>
  OBVIOUS
<1>3. s \in Seq(CarSteps) /\ Len(s) = 2 /\ s[1] = x /\ s[2] = y
  BY <1>1, <1>2, ConcatProperties
<1>4. s \in [1..2 -> CarSteps]
  BY <1>3, LenProperties
<1>5. s = <<x, y>>
  BY <1>3, <1>4
<1>6. (<<x>> \o <<y>>) \o q = <<x>> \o (<<y>> \o q)
  BY <1>1, ConcatAssociative
<1> QED
  BY <1>2, <1>5, <1>6

\* A car that waits has queued itself, whether it owns the lock or not.
LEMMA WaitCalls ==
    ASSUME BridgeInv, NEW t \in Threads, NEW w \in {"WaitFull", "WaitTurn"},
           NEW d \in Directions, NextStep(t, w, d), OwnersKept(t), UNCHANGED bridgeVars,
           threadQueue' = [threadQueue EXCEPT ![CV_DIR(d)] = Append(@, t)],
           NEW q \in Seq(CarSteps), Shape(q), pending' = [pending EXCEPT ![t] = q],
           \A y \in Starts : ~Has(q, y),
           \A e \in Directions : ~Has(q, Step("Signal", e)),
           \A e \in Directions : On(q, e) <=> On(Tail(pending[t]), e)
    PROVE  CallInv' /\ Counted'
<1>1. CallInv /\ t \in Cars /\ threadQueue \in [Conditions -> Seq(Threads)]
  BY InvParts, AtStep
<1>2. CV_DIR(d) \in Conditions
  BY Names
<1>3. /\ threadQueue' \in [Conditions -> Seq(Threads)]
      /\ \A c \in Conditions : threadQueue[c] # <<>> => threadQueue'[c] # <<>>
  <2>1. /\ Append(threadQueue[CV_DIR(d)], t) \in Seq(Threads)
        /\ Append(threadQueue[CV_DIR(d)], t) # <<>>
    BY <1>1, <1>2, AppendProperties
  <2> QED
    BY <1>1, <1>2, <2>1
<1>4. PopsKept(t)
  BY <1>1, <1>3, QueuesGrow
<1>5. \A c \in Conditions : Step("Pop", c) \in Starts
  BY Kinds
<1>6. \A e \in Directions : ~Signals(q, e)
  BY <1>5, Names DEF Signals
<1>7. \A c \in Conditions : ~(q # <<>> /\ Head(q) = Step("Pop", c))
  BY <1>5, ProgramTail
<1>8. /\ CallInv' /\ pending'[t] = q /\ \A u \in Threads \ {t} : pending'[u] = pending[u]
  BY <1>1, <1>3, <1>4, <1>6, <1>7, CallMoves
<1>9. \A e \in Directions : On(pending[t], e) <=> On(Tail(pending[t]), e)
  <2>1. \A y : Has(pending[t], y) <=> y = Step(w, d) \/ Has(Tail(pending[t]), y)
    BY <1>1, AtStep
  <2> QED
    BY <2>1, Names DEF On
<1>10. \A u \in Threads, e \in Directions : On(pending'[u], e) <=> On(pending[u], e)
  BY <1>8, <1>9
<1> QED
  BY <1>8, <1>10, ReturnCounts

LEMMA WaitStep ==
    ASSUME BridgeInv, NEW t \in Threads, NEW d \in Directions, WaitForSignal(t, d)
    PROVE  BridgeInv'
<1>1. PICK w \in {"WaitFull", "WaitTurn"} :
        /\ NextStep(t, w, d) /\ UNCHANGED bridgeVars
        /\ \/ StartWait(t, CV_DIR(d), WaitLock(w, d), Tail(pending[t]))
           \/ StartWaitUnowned(t, CV_DIR(d), WaitLock(w, d), Tail(pending[t]))
  BY DEF WaitForSignal
<1> DEFINE l == WaitLock(w, d)
           rest == Tail(pending[t])
           back == <<Step("Reacquire", l)>> \o rest
<1>2. LockInv /\ CallInv /\ l \in Locks
  BY InvParts, Names DEF WaitLock, Directions
<1>3. /\ IsRunning(t) /\ InNoAcquire(t)
      /\ rest \in Seq(CarSteps) /\ Shape(rest) /\ \A y \in Starts : ~Has(rest, y)
      /\ \A e \in Directions : Has(rest, Step("Signal", e)) => Step(w, d) \in Opens(e)
  BY <1>1, <1>2, AtStep
<1>4. \A e \in Directions : ~Has(rest, Step("Signal", e))
  BY <1>3, Names DEF Opens
<1> HIDE DEF l, rest
<1>5. /\ Step("Reacquire", l) \in CarSteps \ (Ends \cup Starts \cup Signalling)
      /\ Step("Sleep", t) \in CarSteps \ (Ends \cup Starts \cup Signalling)
  BY <1>2, Kinds
<1>6. /\ back \in Seq(CarSteps) /\ Shape(back) /\ Head(back) = Step("Reacquire", l)
      /\ \A y \in Starts : ~Has(back, y)
      /\ \A e \in Directions : ~Has(back, Step("Signal", e))
      /\ \A y : Has(back, y) <=> y = Step("Reacquire", l) \/ Has(rest, y)
  BY <1>3, <1>4, <1>5, WaitProgram
<1> HIDE DEF back
<1>7. pending \in [Threads -> Seq(CarSteps)]
  BY InvParts
<1>8. CASE StartWait(t, CV_DIR(d), l, rest)
  <2> DEFINE q == <<Step("Sleep", t)>> \o back
  <2>1. /\ Release(t, l)
        /\ threadQueue' = [threadQueue EXCEPT ![CV_DIR(d)] = Append(@, t)]
        /\ pending' = [pending EXCEPT ![t] = <<Step("Sleep", t), Step("Reacquire", l)>> \o rest]
    BY <1>8 DEF StartWait
  <2>2. pending' = [pending EXCEPT ![t] = q]
    <3>1. /\ Step("Sleep", t) \in CarSteps /\ Step("Reacquire", l) \in CarSteps
          /\ rest \in Seq(CarSteps)
      BY <1>3, <1>5
    <3>2. <<Step("Sleep", t), Step("Reacquire", l)>> \o rest = q
      BY <3>1, TwoInFront DEF back
    <3> QED
      BY <2>1, <3>2
  <2>3. /\ q \in Seq(CarSteps) /\ Shape(q) /\ Head(q) = Step("Sleep", t)
        /\ \A y \in Starts : ~Has(q, y)
        /\ \A e \in Directions : ~Has(q, Step("Signal", e))
        /\ \A y : Has(q, y) <=> y = Step("Sleep", t) \/ Has(back, y)
    <3>1. /\ q \in Seq(CarSteps) /\ Shape(q) /\ Head(q) = Step("Sleep", t)
          /\ \A y \in Starts : ~Has(q, y)
          /\ \A e \in Directions : ~Has(q, Step("Signal", e))
      BY <1>5, <1>6, WaitProgram
    <3>2. \A y : Has(q, y) <=> y = Step("Sleep", t) \/ Has(back, y)
      BY <1>5, <1>6, WaitProgram
    <3> QED
      BY <3>1, <3>2
  <2> HIDE DEF q
  <2>4. pending'[t] = q /\ \A u \in Threads \ {t} : pending'[u] = pending[u]
    BY <1>7, <2>2
  <2>5. InNoAcquire(t)'
    BY <2>3, <2>4, Names DEF InNoAcquire, NextIs
  <2>6. LockInv' /\ OwnersKept(t)
    <3>1. LockInv' /\ Frees(t, l) /\ \A k \in Locks \ {l} : ownerThread'[k] = ownerThread[k]
      BY <1>2, <1>3, <2>1, <2>4, <2>5, ReleaseInv
    <3> QED
      BY <1>2, <3>1, OwnerChanges DEF Frees
  <2>7. \A e \in Directions : On(q, e) <=> On(rest, e)
    BY <1>6, <2>3, Names DEF On
  <2>8. CallInv' /\ Counted'
    BY <1>1, <2>1, <2>2, <2>3, <2>6, <2>7, WaitCalls DEF rest
  <2> QED
    BY <2>6, <2>8 DEF BridgeInv
<1>9. CASE StartWaitUnowned(t, CV_DIR(d), l, rest)
  <2>1. /\ TestValue(t, t) /\ UNCHANGED <<priority, lockVars>>
        /\ threadQueue' = [threadQueue EXCEPT ![CV_DIR(d)] = Append(@, t)]
        /\ pending' = [pending EXCEPT ![t] = back]
    BY <1>9 DEF StartWaitUnowned, back
  <2>2. pending'[t] = back /\ \A u \in Threads \ {t} : pending'[u] = pending[u]
    BY <1>7, <2>1
  <2>3. InNoAcquire(t)'
    BY <1>6, <2>2, Names DEF InNoAcquire, NextIs
  <2>4. /\ t \in Semaphores \ Locks
        /\ currentThread = t /\ status[t] = "RUNNING" /\ waitingOn[t] = NoSem
    BY <1>3, ConditionAssumption DEF IsRunning
  <2>5. LockInv'
    BY <1>2, <1>3, <2>1, <2>2, <2>3, <2>4, TestValueLockInv
  <2>6. OwnersKept(t)
    BY <2>1, OwnersSame DEF lockVars
  <2>7. \A e \in Directions : On(back, e) <=> On(rest, e)
    BY <1>6, Names DEF On
  <2>8. CallInv' /\ Counted'
    BY <1>1, <1>6, <2>1, <2>6, <2>7, WaitCalls DEF rest
  <2> QED
    BY <2>5, <2>8 DEF BridgeInv
<1> QED
  BY <1>1, <1>8, <1>9 DEF l, rest

LEMMA SignalStep ==
    ASSUME BridgeInv, NEW t \in Threads, NEW d \in Directions, SignalCar(t, d)
    PROVE  BridgeInv'
<1> DEFINE c == CV_DIR(d)
           rest == Tail(pending[t])
           q == <<Step("Pop", c)>> \o rest
<1>1. NextStep(t, "Signal", d) /\ UNCHANGED bridgeVars
  BY DEF SignalCar
<1>2. /\ LockInv /\ CallInv /\ c \in Conditions
      /\ pending \in [Threads -> Seq(CarSteps)]
      /\ threadQueue \in [Conditions -> Seq(Threads)]
  BY InvParts, Names
<1>3. t \in Cars /\ IsRunning(t) /\ InNoAcquire(t)
  BY <1>1, <1>2, AtStep
<1>4. /\ rest \in Seq(CarSteps) /\ Shape(rest) /\ \A y \in Starts : ~Has(rest, y)
      /\ \A e \in Directions : Has(rest, Step("Signal", e)) => Step("Signal", d) \in Opens(e)
      /\ \A y : Has(pending[t], y) <=> y = Step("Signal", d) \/ Has(rest, y)
  BY <1>1, <1>2, AtStep
<1>5. \A e \in Directions : Step("Signal", d) \in Opens(e) => e = d
  BY Names DEF Opens
<1>6. ownerThread[CV_LOCK(d)] = t
  BY <1>1, <1>2, SignallerOwns DEF Opens
<1>7. CASE threadQueue[c] = <<>> /\ Return(t) /\ UNCHANGED <<kernelVars, lockVars, threadQueue>>
  <2>1. UNCHANGED threadQueue /\ UNCHANGED ownerThread /\ UNCHANGED <<kernelVars, lockVars>>
    BY <1>7 DEF lockVars
  <2>2. InNoAcquire(t)' /\ \A u \in Threads \ {t} : pending'[u] = pending[u]
    BY <1>1, <1>2, <1>7, ReturnsOutside
  <2>3. LockInv'
    BY <1>2, <1>3, <2>1, <2>2, CallLockInv
  <2>4. \A e \in Directions : Step("Signal", d) \in Opens(e) => ownerThread'[CV_LOCK(e)] = t
    BY <1>5, <1>6, <2>1
  <2>5. CallInv'
    BY <1>1, <1>2, <1>7, <2>1, <2>4, OwnersSame, QueuesSame, ReturnCall
  <2>6. Step("Signal", d) \notin {Step(r, e) : r \in {"Exit", "Leave"}, e \in Directions}
    BY Names
  <2>7. Counted'
    BY <1>1, <1>2, <1>7, <2>6, ReturnsOutside, ReturnCounts
  <2> QED
    BY <2>3, <2>5, <2>7 DEF BridgeInv
<1>8. CASE StartSignal(t, c, "Pop", rest)
  <2>1. /\ threadQueue[c] # <<>> /\ V(Head(threadQueue[c]))
        /\ pending' = [pending EXCEPT ![t] = q]
        /\ UNCHANGED <<priority, lockVars>> /\ UNCHANGED threadQueue
    BY <1>8 DEF StartSignal
  <2> HIDE DEF c, rest
  <2>2. Step("Pop", c) \in CarSteps /\ Step("Pop", c) \notin Ends
    BY <1>2, Kinds
  <2>3. /\ q \in Seq(CarSteps) /\ q # <<>> /\ Head(q) = Step("Pop", c)
        /\ \A y : Has(q, y) <=> y = Step("Pop", c) \/ Has(rest, y)
    BY <1>4, <2>2, ProgramCons
  <2>4. Shape(q)
    <3>1. \A e \in Directions : Has(rest, Step("Signal", e)) => Step("Pop", c) \in Opens(e)
      BY <1>4, <1>5 DEF Opens, c
    <3> QED
      BY <1>4, <2>2, <3>1, ShapeCons
  <2> HIDE DEF q
  <2>5. Head(threadQueue[c]) \in Threads
    BY <1>2, <2>1, HeadTailProperties
  <2>6. Head(threadQueue[c]) \in Semaphores \ Locks
    BY <2>5, ConditionAssumption
  <2>7. pending'[t] = q /\ \A u \in Threads \ {t} : pending'[u] = pending[u]
    BY <1>2, <2>1
  <2>8. InNoAcquire(t)'
    BY <2>3, <2>7, Names DEF InNoAcquire, NextIs
  <2>9. LockInv'
    BY <1>2, <1>3, <2>1, <2>6, <2>7, <2>8, VLockInv
  <2>10. UNCHANGED ownerThread
    BY <2>1 DEF lockVars
  <2>11. ASSUME NEW e \in Directions, Signals(q, e) PROVE ownerThread'[CV_LOCK(e)] = t
    <3>1. CASE Has(q, Step("Signal", e))
      <4>1. Has(rest, Step("Signal", e))
        BY <2>3, <3>1, Names
      <4> QED
        BY <1>4, <1>5, <1>6, <2>10, <4>1
    <3>2. CASE Has(q, Step("Pop", CV_DIR(e)))
      <4>1. Step("Pop", CV_DIR(e)) \in Starts
        BY Names, Kinds
      <4>2. CV_DIR(e) = c
        BY <1>4, <2>3, <3>2, <4>1, Names
      <4>3. e = d
        BY <4>2, Names DEF c
      <4> QED
        BY <1>6, <2>10, <4>3
    <3> QED
      BY <2>11, <3>1, <3>2 DEF Signals
  <2>12. \A k \in Conditions : Head(q) = Step("Pop", k) => threadQueue'[k] # <<>>
    BY <2>1, <2>3, Names
  <2>13. CallInv'
    BY <1>2, <1>3, <2>1, <2>3, <2>4, <2>10, <2>11, <2>12, OwnersSame, QueuesSame, CallMoves
  <2>14. \A e \in Directions : On(q, e) <=> On(pending[t], e)
    BY <1>4, <2>3, Names DEF On
  <2>15. \A u \in Threads, e \in Directions : On(pending'[u], e) <=> On(pending[u], e)
    BY <2>7, <2>14
  <2>16. Counted'
    BY <1>1, <2>15, ReturnCounts
  <2> QED
    BY <2>9, <2>13, <2>16 DEF BridgeInv
<1> QED
  BY <1>7, <1>8 DEF SignalCar

\* A step of a call that is neither Exit nor Leave, and what is left after it.
LEMMA CallCounts ==
    ASSUME BridgeInv, NEW t \in Threads, NEW s \in {"Sleep", "Own", "Pop"}, NEW x,
           NextStep(t, s, x), Return(t), UNCHANGED bridgeVars
    PROVE  Counted'
<1>1. CallInv
  BY InvParts
<1>2. Step(s, x) \notin {Step(r, e) : r \in {"Exit", "Leave"}, e \in Directions}
  BY Names
<1> QED
  BY <1>1, <1>2, ReturnsOutside, ReturnCounts

LEMMA SleepOnItemStep ==
    ASSUME BridgeInv, NEW t \in Threads, SleepOnItem(t), UNCHANGED bridgeVars
    PROVE  BridgeInv'
<1>1. /\ NextStep(t, "Sleep", t) /\ Return(t) /\ TestValue(t, t)
      /\ UNCHANGED <<priority, lockVars>> /\ UNCHANGED threadQueue
      /\ UNCHANGED ownerThread
  BY DEF SleepOnItem, lockVars
<1>2. LockInv /\ CallInv
  BY InvParts
<1>3. IsRunning(t) /\ InNoAcquire(t)
  BY <1>1, <1>2, AtStep
<1>4. InNoAcquire(t)' /\ \A u \in Threads \ {t} : pending'[u] = pending[u]
  BY <1>1, <1>2, ReturnsOutside
<1>5. /\ t \in Semaphores \ Locks
      /\ currentThread = t /\ status[t] = "RUNNING" /\ waitingOn[t] = NoSem
  BY <1>3, ConditionAssumption DEF IsRunning
<1>6. LockInv'
  BY <1>1, <1>2, <1>3, <1>4, <1>5, TestValueLockInv
<1>7. \A d \in Directions : Step("Sleep", t) \notin Opens(d)
  BY Names DEF Opens
<1>8. CallInv'
  BY <1>1, <1>2, <1>7, OwnersSame, QueuesSame, ReturnCall
<1> QED
  BY <1>1, <1>6, <1>8, CallCounts DEF BridgeInv

LEMMA ReacquireStep ==
    ASSUME BridgeInv, NEW t \in Threads, NEW l \in Locks, Reacquire(t, l), UNCHANGED bridgeVars
    PROVE  BridgeInv'
<1> DEFINE rest == Tail(pending[t])
<1>1. /\ NextStep(t, "Reacquire", l) /\ StartAcquire(t, l, rest) /\ UNCHANGED threadQueue
  BY DEF Reacquire
<1>2. LockInv /\ CallInv
  BY InvParts
<1>3. /\ t \in Cars /\ IsRunning(t) /\ InNoAcquire(t)
      /\ rest \in Seq(CarSteps) /\ Shape(rest) /\ \A y \in Starts : ~Has(rest, y)
      /\ \A d \in Directions : Has(rest, Step("Signal", d)) => Step("Reacquire", l) \in Opens(d)
      /\ \A y : Has(pending[t], y) <=> y = Step("Reacquire", l) \/ Has(rest, y)
  BY <1>1, <1>2, AtStep
<1> HIDE DEF rest
<1>4. \A d \in Directions : ~Has(rest, Step("Signal", d))
  BY <1>3, Names DEF Opens
<1>5. /\ LockInv' /\ CallInv'
      /\ \A d \in Directions : On(pending'[t], d) <=> On(rest, d)
      /\ \A u \in Threads \ {t} : pending'[u] = pending[u]
  BY <1>1, <1>2, <1>3, <1>4, AcquireCall
<1>6. \A d \in Directions : On(rest, d) <=> On(pending[t], d)
  BY <1>3, Names DEF On
<1>7. \A u \in Threads, d \in Directions : On(pending'[u], d) <=> On(pending[u], d)
  BY <1>5, <1>6
<1>8. Counted'
  BY <1>7, ReturnCounts
<1> QED
  BY <1>5, <1>8 DEF BridgeInv

LEMMA OwnStep ==
    ASSUME BridgeInv, NEW t \in Threads, NEW l \in Locks, FinishAcquire(t, l),
           UNCHANGED threadQueue, UNCHANGED bridgeVars
    PROVE  BridgeInv'
<1>1. NextStep(t, "Own", l) /\ Return(t)
  BY DEF FinishAcquire
<1>2. LockInv /\ CallInv /\ pending \in [Threads -> Seq(CarSteps)]
  BY InvParts
<1>3. InNoAcquire(t)'
  BY <1>1, <1>2, ReturnsOutside
<1>4. /\ LockInv' /\ Holders(l) = {t} /\ ownerThread'[l] = t
      /\ \A k \in Locks \ {l} : ownerThread'[k] = ownerThread[k]
  BY <1>2, <1>3, FinishAcquireInv
<1>5. \A d \in Directions : Step("Own", l) \in Opens(d) => ownerThread'[CV_LOCK(d)] = t
  BY <1>4, Names DEF Opens
<1>6. CallInv'
  BY <1>1, <1>2, <1>4, <1>5, OwnerChanges, QueuesSame, ReturnCall
<1> QED
  BY <1>1, <1>4, <1>6, CallCounts DEF BridgeInv

\* Only the owner of the lock of a condition pops its queue.
LEMMA PopStep ==
    ASSUME BridgeInv, NEW t \in Threads, NEW c \in Conditions, PopSignalled(t, c),
           UNCHANGED bridgeVars
    PROVE  BridgeInv'
<1>1. /\ NextStep(t, "Pop", c) /\ Return(t) /\ UNCHANGED <<kernelVars, lockVars>>
      /\ UNCHANGED ownerThread
      /\ threadQueue' = [threadQueue EXCEPT ![c] = Tail(@)]
  BY DEF PopSignalled, lockVars
<1>2. LockInv /\ CallInv /\ threadQueue \in [Conditions -> Seq(Threads)]
  BY InvParts
<1>3. IsRunning(t) /\ InNoAcquire(t) /\ NextIs(t, Step("Pop", c))
  BY <1>1, <1>2, AtStep
<1>4. InNoAcquire(t)' /\ \A u \in Threads \ {t} : pending'[u] = pending[u]
  BY <1>1, <1>2, ReturnsOutside
<1>5. LockInv'
  BY <1>1, <1>2, <1>3, <1>4, CallLockInv
<1>6. PICK d \in Directions : c = CV_DIR(d)
  BY Names
<1>7. ownerThread[CV_LOCK(d)] = t
  BY <1>1, <1>2, <1>6, SignallerOwns DEF Opens
<1>8. \A e \in Directions : Step("Pop", c) \in Opens(e) => ownerThread'[CV_LOCK(e)] = t
  BY <1>1, <1>6, <1>7, Names DEF Opens
<1>9. threadQueue' \in [Conditions -> Seq(Threads)]
  <2>1. threadQueue[c] # <<>>
    BY <1>2, <1>3 DEF CallInv, PopQueued
  <2>2. Tail(threadQueue[c]) \in Seq(Threads)
    BY <1>2, <2>1, HeadTailProperties
  <2> QED
    BY <1>1, <1>2, <2>2
<1>10. PopsKept(t)
  <2> SUFFICES ASSUME NEW u \in Threads \ {t}, NEW k \in Conditions, NextIs(u, Step("Pop", k))
               PROVE  threadQueue'[k] # <<>>
    BY DEF PopsKept
  <2>1. k # c
    <3> SUFFICES ASSUME k = c PROVE FALSE
      OBVIOUS
    <3>1. pending[u] \in Seq(CarSteps) /\ pending[u] # <<>> /\ Head(pending[u]) = Step("Pop", c)
      BY InvParts DEF NextIs
    <3>2. Has(pending[u], Step("Pop", c))
      BY <3>1, ProgramTail
    <3>3. ~NextIs(u, Own(CV_LOCK(d)))
      BY <3>1, Names DEF NextIs
    <3>4. ownerThread[CV_LOCK(d)] = u
      BY <1>2, <1>6, <3>2, <3>3 DEF CallInv, SignallersOwn, Signals
    <3> QED
      BY <1>7, <3>4
  <2>2. threadQueue[k] # <<>>
    BY <1>2 DEF CallInv, PopQueued
  <2> QED
    BY <1>1, <1>2, <2>1, <2>2
<1>11. CallInv'
  BY <1>1, <1>2, <1>8, <1>9, <1>10, OwnersSame, ReturnCall
<1> QED
  BY <1>1, <1>5, <1>11, CallCounts DEF BridgeInv

LEMMA NoBroadcast ==
    ASSUME BridgeInv, NEW t \in Threads, NEW c \in Conditions
    PROVE  ~NextStep(t, "PopMore", c)
<1> SUFFICES ASSUME NextStep(t, "PopMore", c) PROVE FALSE
  OBVIOUS
<1>1. Step("PopMore", c) \in CarSteps
  BY InvParts, AtStep
<1> QED
  BY <1>1, Names DEF CarSteps, Moves

\* Fork, Yield, and a thread woken in a P().
LEMMA ScheduleStep ==
    ASSUME BridgeInv, ForkNextCar \/ Schedule
    PROVE  BridgeInv'
<1>1. /\ UNCHANGED <<pending, ownerThread, threadQueue>> /\ UNCHANGED bridgeVars
      /\ UNCHANGED <<lockVars, pending>>
      /\ \/ \E t, child \in Threads : Fork(t, child)
         \/ \E t \in Threads : Yield(t)
         \/ \E t \in Threads : RetryP(t)
  BY Names DEF ForkNextCar, Schedule, SchedulerStep, lockVars
<1>2. LockInv /\ CallInv
  BY InvParts
<1>3. LockInv'
  BY <1>1, <1>2, SchedulerLockInv, RetryPLockInv
<1>4. CallInv' /\ Counted'
  BY <1>1, <1>2, CallsStay, ReturnCounts
<1> QED
  BY <1>3, <1>4 DEF BridgeInv

LEMMA FinishStep ==
    ASSUME BridgeInv, NEW t \in Threads, Finish(t)
    PROVE  BridgeInv'
<1>1. /\ IsRunning(t) /\ Sleep(t) /\ UNCHANGED <<priority, semVars>>
      /\ UNCHANGED <<pending, ownerThread, threadQueue>> /\ UNCHANGED bridgeVars
      /\ UNCHANGED <<value, waitingOn, ownerThread, originalHolderPriority, pending>>
  BY DEF Finish, InOwnCode, semVars, lockVars
<1>2. LockInv /\ CallInv /\ KernelInv
  BY InvParts
<1>3. KernelInv'
  BY <1>1, <1>2, SleepInv
<1>4. LockInv'
  BY <1>1, <1>2, <1>3, LockStutterInv
<1>5. CallInv' /\ Counted'
  BY <1>1, <1>2, CallsStay, ReturnCounts
<1> QED
  BY <1>4, <1>5 DEF BridgeInv

LEMMA BridgeStutter == BridgeInv /\ UNCHANGED vars => BridgeInv'
<1> SUFFICES ASSUME BridgeInv, UNCHANGED vars PROVE BridgeInv'
  OBVIOUS
<1>1. /\ UNCHANGED <<cpuVars, priority, semVars>>
      /\ UNCHANGED <<value, waitingOn, ownerThread, originalHolderPriority, pending>>
      /\ UNCHANGED <<pending, ownerThread, threadQueue>> /\ UNCHANGED bridgeVars
  BY DEF vars, syncVars, kernelVars, semVars, lockVars
<1>2. LockInv /\ CallInv /\ KernelInv /\ priority \in [Threads -> Nat]
  BY InvParts DEF KernelInv, KernelTypeOK
<1>3. KernelInv'
  BY <1>1, <1>2, KernelStutterInv
<1> QED
  BY <1>1, <1>2, <1>3, LockStutterInv, CallsStay, ReturnCounts DEF BridgeInv

LEMMA NextBridgeInv == BridgeInv /\ [Next]_vars => BridgeInv'
<1> SUFFICES ASSUME BridgeInv, [Next]_vars PROVE BridgeInv'
  OBVIOUS
<1>1. ASSUME NEW t \in Threads, CarStep(t) PROVE BridgeInv'
  <2>1. CASE \E d \in Directions :
               \/ Arrive(t, d) \/ EnterBridge(t, d) \/ BridgeFull(t, d) \/ WrongWay(t, d)
               \/ WaitForSignal(t, d) \/ SignalCar(t, d)
               \/ StartExit(t, d) \/ LastLeaves(t, d) \/ OneLeaves(t, d)
    BY <2>1, ArriveStep, EnterStep, QueueUpStep, WaitStep, SignalStep, LastLeavesStep,
       OneLeavesStep
  <2>2. CASE \E l \in Locks : ReleaseLock(t, l)
    BY <2>2, ReleaseStep
  <2>3. CASE CallStep(t) /\ UNCHANGED bridgeVars
    <3>1. CASE SleepOnItem(t)
      BY <2>3, <3>1, SleepOnItemStep
    <3>2. CASE \E l \in Locks : Reacquire(t, l)
      BY <2>3, <3>2, ReacquireStep
    <3>3. CASE \E l \in Locks : FinishAcquire(t, l) /\ UNCHANGED threadQueue
      BY <2>3, <3>3, OwnStep
    <3>4. CASE \E c \in Conditions : PopSignalled(t, c)
      BY <2>3, <3>4, PopStep
    <3>5. ~\E c \in Conditions : PopAndContinue(t, c)
      BY NoBroadcast DEF PopAndContinue
    <3> QED
      BY <2>3, <3>1, <3>2, <3>3, <3>4, <3>5 DEF CallStep
  <2> QED
    BY <1>1, <2>1, <2>2, <2>3 DEF CarStep
<1> QED
  BY <1>1, ScheduleStep, FinishStep, BridgeStutter DEF Next

-----------------------------------------------------------------------------

LEMMA InitBridgeInv == Init => BridgeInv
<1> SUFFICES ASSUME Init PROVE BridgeInv
  OBVIOUS
<1>1. \A t \in Threads \ {MainThread} : t \in Cars /\ Direction(t) \in Directions
  BY Names DEF Direction, Directions
<1>2. \A d \in Directions : /\ Step("Arrive", d) \in CarSteps
                            /\ <<Step("Arrive", d)>> \in Seq(CarSteps)
                            /\ Shape(<<Step("Arrive", d)>>)
                            /\ <<Step("Arrive", d)>> # <<>>
                            /\ Head(<<Step("Arrive", d)>>) = Step("Arrive", d)
                            /\ \A y : Has(<<Step("Arrive", d)>>, y) <=> y = Step("Arrive", d)
  BY Kinds, ProgramOne, ShortSequences DEF Moves
<1>3. <<>> \in Seq(CarSteps) /\ Shape(<<>>) /\ \A y : ~Has(<<>>, y)
  <2>1. Len(<<>>) = 0 /\ \A i : i \notin 1..0
    OBVIOUS
  <2> QED
    BY <2>1 DEF Shape, EndsLast, StartsFirst, SignalsOpened, Has
<1>4. ASSUME NEW t \in Threads
      PROVE  \/ pending[t] = <<>>
             \/ t # MainThread /\ \E d \in Directions : pending[t] = <<Step("Arrive", d)>>
  BY <1>1 DEF Init
<1>5. /\ DefaultPriority \in Nat /\ MainThread \in Threads /\ MAX_LOAD \in Nat \ {0}
      /\ pending = [t \in Threads |->
           IF t = MainThread THEN <<>> ELSE <<Step("Arrive", Direction(t))>>]
  BY BridgeAssumption, KernelAssumption, Names DEF Init
<1>6. KernelInv
  BY <1>5, FreshKernel DEF Init
<1>7. LockType
  BY <1>5 DEF Init, LockType
<1>8. \A t \in Threads : pending[t] = <<>> \/ InNoAcquire(t)
  BY <1>2, <1>4, Names DEF InNoAcquire, NextIs
<1>9. WaitersAcquire /\ LockSafe
  BY <1>8, LocksAreSemaphores, FreshLocks DEF Init
<1>10. CallType
  <2>1. ASSUME NEW t \in Threads PROVE pending[t] \in Seq(CarSteps) /\ Shape(pending[t])
    BY <1>2, <1>3, <1>4
  <2>2. pending \in [Threads -> Seq(CarSteps)]
    BY <1>5, <2>1
  <2>3. <<>> \in Seq(Threads)
    OBVIOUS
  <2>4. threadQueue \in [Conditions -> Seq(Threads)]
    BY <2>3 DEF Init
  <2> QED
    BY <1>5, <2>1, <2>2, <2>4 DEF CallType
<1>11. \A t \in Threads, d \in Directions : ~Signals(pending[t], d) /\ ~On(pending[t], d)
  <2>1. ASSUME NEW t \in Threads, NEW y, Has(pending[t], y)
        PROVE  \E d \in Directions : y = Step("Arrive", d)
    <3>1. CASE pending[t] = <<>>
      BY <1>3, <2>1, <3>1
    <3>2. CASE pending[t] # <<>>
      <4>1. PICK d \in Directions : pending[t] = <<Step("Arrive", d)>>
        BY <1>4, <3>2
      <4>2. \A z : Has(<<Step("Arrive", d)>>, z) <=> z = Step("Arrive", d)
        BY <1>2
      <4> QED
        BY <2>1, <4>1, <4>2
    <3> QED
      BY <3>1, <3>2
  <2>2. \A s \in {"Signal", "Pop", "Exit", "Leave"} : \A x : \A d \in Directions :
          Step(s, x) # Step("Arrive", d)
    BY Names
  <2> QED
    BY <2>1, <2>2 DEF Signals, On
<1>12. ASSUME NEW t \in Threads, NEW c \in Conditions PROVE ~NextIs(t, Step("Pop", c))
  BY <1>2, <1>4, Names DEF NextIs
<1>13. CallInv
  BY <1>10, <1>11, <1>12 DEF CallInv, SignallersOwn, PopQueued
<1>14. \A d \in Directions : CarsOn(d) = {}
  BY <1>11, Names DEF CarsOn
<1>15. Counted
  <2>1. COUNT = [d \in Directions |-> 0] /\ CUR_DIR = 0
    BY DEF Init
  <2>2. COUNT \in [Directions -> 0..MAX_LOAD] /\ CUR_DIR \in Directions
    BY <1>5, <2>1 DEF Directions
  <2>3. \A d \in Directions : COUNT[d] = 0
    BY <2>1
  <2> QED
    BY <1>14, <2>2, <2>3, FS_EmptySet DEF Counted
<1> QED
  BY <1>6, <1>7, <1>9, <1>13, <1>15 DEF BridgeInv, LockInv

LEMMA BridgeInvariant == Spec => []BridgeInv
BY InitBridgeInv, NextBridgeInv, PTL DEF Spec

LEMMA BridgeInvImplies == BridgeInv => BridgeSafe
<1> SUFFICES ASSUME BridgeInv PROVE BridgeSafe
  OBVIOUS
<1>1. LockInv /\ CallInv /\ Counted
  BY InvParts
<1>2. TypeOK /\ LockSafe
  BY <1>1 DEF TypeOK, LockInv, LockType, KernelInv, CallInv, CallType, Counted
<1>3. \A d \in Directions : OnBridge(d) = CarsOn(d)
  BY DEF OnBridge, CarsOn, On, Has
<1>4. /\ COUNT \in [Directions -> 0..MAX_LOAD] /\ MAX_LOAD \in Nat
      /\ \A d \in Directions : Cardinality(CarsOn(d)) = COUNT[d]
      /\ \A d \in Directions : COUNT[d] > 0 => CUR_DIR = d
  BY <1>1, BridgeAssumption DEF Counted
<1>5. \A d \in Directions : COUNT[d] = 0 => CarsOn(d) = {}
  BY <1>4, CarsFinite, FS_EmptySet
<1>6. COUNT[0] = 0 \/ COUNT[1] = 0
  BY <1>4 DEF Directions
<1> QED
  BY <1>2, <1>3, <1>4, <1>5, <1>6 DEF BridgeSafe, Directions

\* The bridge never carries more than MAX_LOAD cars, nor cars of both
\* directions, and its counters and locks are right, for any number of cars:
\* ArriveBridge and ExitBridge of threadtest.cc with their waits, signals and
\* preemptions, and the wrong lock of line 151.
THEOREM BridgeIsSafe == Spec => []BridgeSafe
BY BridgeInvariant, BridgeInvImplies, PTL

=============================================================================
