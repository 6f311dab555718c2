------------------------- MODULE PortClients_proofs -------------------------
(***************************************************************************)
(* Ports, for any number of threads: through a whole Send or Receive the   *)
(* counters match the threads inside, and the port is the rendezvous that  *)
(* Join and Finish need.                                                   *)
(*                                                                         *)
(* The counters and the buffer are right because every step between the    *)
(* Acquire and the Release is taken by the owner of the port's lock, with  *)
(* a Wait giving it up and taking it back in the middle.                   *)
(***************************************************************************)
EXTENDS PortClients, LockClients

-----------------------------------------------------------------------------
(* The calls a thread can be in, by the step of Send or Receive that comes *)
(* next, and what of a Lock or Condition call is still before it.          *)

SendSteps == {Step(s, ThePort) : s \in {"EnterSend", "TestSend", "Unlock"}}

ReceiveSteps == {Step(s, ThePort) : s \in {"EnterReceive", "TestReceive", "WaitToReceive"}}

PortSteps == SendSteps \cup ReceiveSteps

Acquiring(t, x) == pending[t] = <<Own(ThePort), x>>

Reacquiring(t, x) == pending[t] = <<Step("Reacquire", ThePort), x>>

Sleeping(t, x) == pending[t] = <<Step("Sleep", t), Step("Reacquire", ThePort), x>>

Popping(t, c, x) == pending[t] = <<Step("Pop", c), x>>

InCall(t, x) ==
    \/ pending[t] = <<x>> \/ Acquiring(t, x) \/ Reacquiring(t, x) \/ Sleeping(t, x)
    \/ \E c \in Conditions : Popping(t, c, x)

\* Clients either send or receive.
MayDo(t, x) ==
    \/ t \in Senders /\ x \in SendSteps
    \/ t \in Receivers /\ x \in ReceiveSteps

CallShape(t) == pending[t] = <<>> \/ \E x \in PortSteps : MayDo(t, x) /\ InCall(t, x)

PortType ==
    /\ pending \in [Threads -> Seq(Steps)]
    /\ threadQueue \in [Conditions -> Seq(Threads)]
    /\ buffer \in [Ports -> Messages \cup {NoMessage}]
    /\ senders \in [Ports -> Nat] /\ receivers \in [Ports -> Nat]
    /\ message \in [Threads -> Messages \cup {NoMessage}]

\* t is between an Acquire and the next Release of its Send or Receive.
Inside(t) ==
    \E x \in PortSteps : pending[t] = <<x>> \/ \E c \in Conditions : Popping(t, c, x)

InsideOwn == \A t \in Threads : Inside(t) => ownerThread[ThePort] = t

\* The item that a Signal has still to pop is there.
PopQueued ==
    \A t \in Threads, c \in Conditions : \A x \in PortSteps :
        Popping(t, c, x) => threadQueue[c] # <<>>

\* Inside Send a thread has a message to send.
SendersHaveMessage ==
    \A t \in Senders : pending[t] # <<>> => message[t] \in Messages

CallInv ==
    /\ PortType /\ \A t \in Threads : CallShape(t)
    /\ InsideOwn /\ PopQueued /\ SendersHaveMessage

ClientInv == LockInv /\ CallInv /\ CountersMatch

-----------------------------------------------------------------------------
(* Short sequences.                                                        *)

LEMMA SeqOfTwo ==
    ASSUME NEW S, NEW s \in Seq(S), Len(s) = 2 PROVE s = <<s[1], s[2]>>
<1>1. s \in [1..2 -> S]
  BY LenProperties
<1> QED
  BY <1>1

LEMMA SeqOfThree ==
    ASSUME NEW S, NEW s \in Seq(S), Len(s) = 3 PROVE s = <<s[1], s[2], s[3]>>
<1>1. s \in [1..3 -> S]
  BY LenProperties
<1> QED
  BY <1>1

LEMMA OneAndOne == ASSUME NEW S, NEW x \in S, NEW y \in S PROVE <<x>> \o <<y>> = <<x, y>>
<1>1. /\ <<x>> \in Seq(S) /\ Len(<<x>>) = 1 /\ <<x>>[1] = x
      /\ <<y>> \in Seq(S) /\ Len(<<y>>) = 1 /\ <<y>>[1] = y
  OBVIOUS
<1>2. PICK s : s = <<x>> \o <<y>>
  OBVIOUS
<1>3. s \in Seq(S) /\ Len(s) = 2 /\ s[1] = x /\ s[2] = y
  BY <1>1, <1>2, ConcatProperties
<1> QED
  BY <1>2, <1>3, SeqOfTwo

LEMMA TwoAndOne ==
    ASSUME NEW S, NEW x \in S, NEW y \in S, NEW z \in S
    PROVE  <<x, y>> \o <<z>> = <<x, y, z>>
<1>1. /\ <<x, y>> \in Seq(S) /\ Len(<<x, y>>) = 2 /\ <<x, y>>[1] = x /\ <<x, y>>[2] = y
      /\ <<z>> \in Seq(S) /\ Len(<<z>>) = 1 /\ <<z>>[1] = z
  OBVIOUS
<1>2. PICK s : s = <<x, y>> \o <<z>>
  OBVIOUS
<1>3. s \in Seq(S) /\ Len(s) = 3 /\ s[1] = x /\ s[2] = y /\ s[3] = z
  BY <1>1, <1>2, ConcatProperties
<1> QED
  BY <1>2, <1>3, SeqOfThree

LEMMA OneTwoThree ==
    /\ \A x : Len(<<x>>) = 1 /\ <<x>>[1] = x
    /\ \A x, y : Len(<<x, y>>) = 2 /\ <<x, y>>[1] = x /\ <<x, y>>[2] = y
    /\ \A x, y, z : /\ Len(<<x, y, z>>) = 3
                    /\ <<x, y, z>>[1] = x /\ <<x, y, z>>[2] = y /\ <<x, y, z>>[3] = z
    /\ \A x, y, z : /\ <<x, y, z>> # <<>> /\ Head(<<x, y, z>>) = x
                    /\ Tail(<<x, y, z>>) = <<y, z>>
OBVIOUS

-----------------------------------------------------------------------------
(* Facts about the calls.                                                  *)

LEMMA Names ==
    /\ ThePort \in Ports /\ ThePort \in Locks /\ ThePort \in Semaphores /\ ThePort # NoSem
    /\ Ports = {ThePort} /\ Locks = {ThePort}
    /\ \A t \in Threads : t \in Semaphores \ Locks
    /\ Senders \subseteq Threads /\ Receivers \subseteq Threads
    /\ Senders \cap Receivers = {}
    /\ senderCondition(ThePort) \in Conditions /\ receiverCondition(ThePort) \in Conditions
    /\ NoMessage \notin Messages /\ Messages = Senders
    /\ IsFiniteSet(Threads)
BY ClientAssumption, PortAssumption, ConditionAssumption, LockAssumption, KernelAssumption

\* The names of the steps of Send and Receive, and which count as inside.
LEMMA StepNames ==
    ASSUME NEW x \in PortSteps
    PROVE  /\ x \in Steps /\ x.of = ThePort
           /\ x.step \notin {"Own", "Reacquire", "Sleep", "Pop", "PopMore"}
           /\ \A l, t, c : x # Own(l) /\ x # Step("Reacquire", l) /\ x # Step("Sleep", t)
                             /\ x # Step("Pop", c) /\ x # Step("PopMore", c)
BY Names DEF PortSteps, SendSteps, ReceiveSteps, Steps, Step, Own

LEMMA OtherSteps ==
    /\ Own(ThePort) \in Steps /\ Step("Reacquire", ThePort) \in Steps
    /\ \A t \in Threads : Step("Sleep", t) \in Steps
    /\ \A c \in Conditions : Step("Pop", c) \in Steps
    /\ Own(ThePort).step = "Own"
    /\ \A s, o : Step(s, o).step = s /\ Step(s, o).of = o
BY Names DEF Steps, Step, Own

LEMMA CallTypes ==
    ASSUME NEW t \in Threads, NEW c \in Conditions, NEW x \in PortSteps
    PROVE  /\ <<>> \in Seq(Steps) /\ <<x>> \in Seq(Steps)
           /\ <<Own(ThePort), x>> \in Seq(Steps)
           /\ <<Step("Reacquire", ThePort), x>> \in Seq(Steps)
           /\ <<Step("Sleep", t), Step("Reacquire", ThePort), x>> \in Seq(Steps)
           /\ <<Step("Pop", c), x>> \in Seq(Steps)
<1>1. x \in Steps
  BY StepNames
<1>2. <<>> \in Seq(Steps)
  OBVIOUS
<1> QED
  BY <1>1, <1>2, OtherSteps

\* Whether t is in Send or in Receive, past EnterSend or EnterReceive.
Sends(x) == x.step = "TestSend"
Receives(x) == x.step \in {"TestReceive", "WaitToReceive"}

LEMMA PhaseOfCall ==
    \A t \in Threads :
        /\ pending[t] = <<>> => ~InSend(t) /\ ~InReceive(t)
        /\ \A x \in PortSteps :
            InCall(t, x) => (InSend(t) <=> Sends(x)) /\ (InReceive(t) <=> Receives(x))
<1> SUFFICES ASSUME NEW t \in Threads
             PROVE  /\ pending[t] = <<>> => ~InSend(t) /\ ~InReceive(t)
                    /\ \A x \in PortSteps : InCall(t, x) =>
                         (InSend(t) <=> Sends(x)) /\ (InReceive(t) <=> Receives(x))
  OBVIOUS
<1>1. ASSUME pending[t] = <<>> PROVE ~InSend(t) /\ ~InReceive(t)
  <2>1. 1..Len(pending[t]) = {}
    BY <1>1
  <2> QED
    BY <2>1 DEF InSend, InReceive
<1>2. ASSUME NEW x \in PortSteps, InCall(t, x)
      PROVE  (InSend(t) <=> Sends(x)) /\ (InReceive(t) <=> Receives(x))
  <2> DEFINE Before == {"Own", "Reacquire", "Sleep", "Pop"}
             OnlyOne ==
               \A i \in 1..Len(pending[t]) : pending[t][i] = x \/ pending[t][i].step \in Before
             One == \E i \in 1..Len(pending[t]) : pending[t][i] = x
  <2>1. OnlyOne /\ One
    <3>1. CASE pending[t] = <<x>>
      BY <3>1, OneTwoThree
    <3>2. ASSUME NEW y, y.step \in Before, pending[t] = <<y, x>>
          PROVE  OnlyOne /\ One
      <4>1. /\ Len(pending[t]) = 2 /\ pending[t][1] = y /\ pending[t][2] = x
        BY <3>2, OneTwoThree
      <4> QED
        BY <3>2, <4>1
    <3>3. CASE Sleeping(t, x)
      <4>1. /\ Len(pending[t]) = 3 /\ pending[t][1] = Step("Sleep", t)
            /\ pending[t][2] = Step("Reacquire", ThePort) /\ pending[t][3] = x
        BY <3>3, OneTwoThree DEF Sleeping
      <4> QED
        BY <4>1, OtherSteps
    <3> QED
      BY <1>2, <3>1, <3>2, <3>3, OtherSteps DEF InCall, Acquiring, Reacquiring, Popping
  <2> QED
    BY <2>1 DEF InSend, InReceive, Sends, Receives
<1> QED
  BY <1>1, <1>2

LEMMA PhaseOfCallNext ==
    (\A t \in Threads :
        /\ pending[t] = <<>> => ~InSend(t) /\ ~InReceive(t)
        /\ \A x \in PortSteps :
            InCall(t, x) => (InSend(t) <=> Sends(x)) /\ (InReceive(t) <=> Receives(x)))'
BY PhaseOfCall, PTL

NotPopping(t) == \A c \in Conditions, x \in PortSteps : ~Popping(t, c, x)

\* In which calls t owns the lock, acquires it, or is about to pop an item.
LEMMA PlaceOfCall ==
    \A t \in Threads :
        /\ pending[t] = <<>> => ~Inside(t) /\ InNoAcquire(t) /\ NotPopping(t)
        /\ \A x \in PortSteps :
            /\ pending[t] = <<x>> => InNoAcquire(t) /\ NotPopping(t)
            /\ Acquiring(t, x) => ~Inside(t) /\ NotPopping(t)
            /\ Reacquiring(t, x) => ~Inside(t) /\ InNoAcquire(t) /\ NotPopping(t)
            /\ Sleeping(t, x) => ~Inside(t) /\ InNoAcquire(t) /\ NotPopping(t)
            /\ \A c \in Conditions : Popping(t, c, x) =>
                /\ InNoAcquire(t)
                /\ \A d \in Conditions, y \in PortSteps : Popping(t, d, y) => d = c
<1> SUFFICES ASSUME NEW t \in Threads, NEW x, x \in PortSteps \/ pending[t] = <<>>
             PROVE  /\ pending[t] = <<>> => ~Inside(t) /\ InNoAcquire(t) /\ NotPopping(t)
                    /\ x \in PortSteps =>
                        /\ pending[t] = <<x>> => InNoAcquire(t) /\ NotPopping(t)
                        /\ Acquiring(t, x) => ~Inside(t) /\ NotPopping(t)
                        /\ Reacquiring(t, x) => ~Inside(t) /\ InNoAcquire(t) /\ NotPopping(t)
                        /\ Sleeping(t, x) => ~Inside(t) /\ InNoAcquire(t) /\ NotPopping(t)
                        /\ \A c \in Conditions : Popping(t, c, x) =>
                             /\ InNoAcquire(t)
                             /\ \A d \in Conditions, y \in PortSteps : Popping(t, d, y) => d = c
  OBVIOUS
<1>1. /\ Inside(t) => /\ pending[t] # <<>>
                      /\ \/ Head(pending[t]) \in PortSteps
                         \/ \E c \in Conditions : Head(pending[t]) = Step("Pop", c)
      /\ \A c \in Conditions, y \in PortSteps : Popping(t, c, y) =>
            pending[t] # <<>> /\ Head(pending[t]) = Step("Pop", c)
      /\ \A l : NextIs(t, Own(l)) => pending[t] # <<>> /\ Head(pending[t]) = Own(l)
  <2>1. ASSUME NEW c, NEW y, Popping(t, c, y)
        PROVE  pending[t] # <<>> /\ Head(pending[t]) = Step("Pop", c)
    BY <2>1, ShortSequences DEF Popping
  <2>2. ASSUME NEW y, pending[t] = <<y>>
        PROVE  pending[t] # <<>> /\ Head(pending[t]) = y
    BY <2>2, ShortSequences
  <2> QED
    BY <2>1, <2>2 DEF Inside, NextIs
<1>2. CASE x \notin PortSteps
  BY <1>1, <1>2 DEF InNoAcquire, NotPopping
<1>3. CASE x \in PortSteps
  <2>1. ASSUME pending[t] = <<x>> PROVE InNoAcquire(t) /\ NotPopping(t)
    <3>1. Head(pending[t]) = x
      BY <2>1, ShortSequences
    <3> QED
      BY <1>1, <1>3, <3>1, StepNames DEF InNoAcquire, NotPopping
  <2>2. ASSUME NEW c \in Conditions, Popping(t, c, x)
        PROVE  /\ InNoAcquire(t)
               /\ \A d \in Conditions, y \in PortSteps : Popping(t, d, y) => d = c
    BY <1>1, <2>2, <1>3, OtherSteps DEF InNoAcquire, Own
  <2>3. ASSUME NEW z, z.step \in {"Own", "Reacquire", "Sleep"},
               pending[t] # <<>>, Head(pending[t]) = z
        PROVE  ~Inside(t) /\ NotPopping(t) /\ (z.step # "Own" => InNoAcquire(t))
    BY <1>1, <2>3, StepNames, OtherSteps DEF InNoAcquire, NotPopping, Own
  <2>4. Acquiring(t, x) => pending[t] # <<>> /\ Head(pending[t]) = Own(ThePort)
    BY ShortSequences DEF Acquiring
  <2>5. Reacquiring(t, x) => pending[t] # <<>> /\ Head(pending[t]) = Step("Reacquire", ThePort)
    BY ShortSequences DEF Reacquiring
  <2>6. Sleeping(t, x) => pending[t] # <<>> /\ Head(pending[t]) = Step("Sleep", t)
    BY OneTwoThree DEF Sleeping
  <2>7. ASSUME pending[t] = <<>>
        PROVE  ~Inside(t) /\ InNoAcquire(t) /\ NotPopping(t)
    BY <1>1, <2>7 DEF InNoAcquire, NotPopping
  <2> QED
    BY <1>3, <2>1, <2>2, <2>3, <2>4, <2>5, <2>6, <2>7, OtherSteps
<1> QED
  BY <1>2, <1>3

LEMMA PlaceOfCallNext ==
    (\A t \in Threads :
        /\ pending[t] = <<>> => ~Inside(t) /\ InNoAcquire(t) /\ NotPopping(t)
        /\ \A x \in PortSteps :
            /\ pending[t] = <<x>> => InNoAcquire(t) /\ NotPopping(t)
            /\ Acquiring(t, x) => ~Inside(t) /\ NotPopping(t)
            /\ Reacquiring(t, x) => ~Inside(t) /\ InNoAcquire(t) /\ NotPopping(t)
            /\ Sleeping(t, x) => ~Inside(t) /\ InNoAcquire(t) /\ NotPopping(t)
            /\ \A c \in Conditions : Popping(t, c, x) =>
                /\ InNoAcquire(t)
                /\ \A d \in Conditions, y \in PortSteps : Popping(t, d, y) => d = c)'
BY PlaceOfCall, PTL

\* The next step says which call a thread is in.
LEMMA CallOfNext ==
    ASSUME NEW t \in Threads, CallShape(t)
    PROVE  /\ \A x \in PortSteps : NextIs(t, x) => pending[t] = <<x>> /\ MayDo(t, x)
           /\ \A l : NextIs(t, Own(l)) =>
                l = ThePort /\ \E x \in PortSteps : MayDo(t, x) /\ Acquiring(t, x)
           /\ \A l : NextIs(t, Step("Reacquire", l)) =>
                l = ThePort /\ \E x \in PortSteps : MayDo(t, x) /\ Reacquiring(t, x)
           /\ \A u : NextIs(t, Step("Sleep", u)) =>
                \E x \in PortSteps : MayDo(t, x) /\ Sleeping(t, x)
           /\ \A c : NextIs(t, Step("Pop", c)) =>
                \E x \in PortSteps : MayDo(t, x) /\ Popping(t, c, x)
           /\ \A c : ~NextIs(t, Step("PopMore", c))
<1> DEFINE Goal ==
             /\ \A x \in PortSteps : NextIs(t, x) => pending[t] = <<x>> /\ MayDo(t, x)
             /\ \A l : NextIs(t, Own(l)) =>
                  l = ThePort /\ \E x \in PortSteps : MayDo(t, x) /\ Acquiring(t, x)
             /\ \A l : NextIs(t, Step("Reacquire", l)) =>
                  l = ThePort /\ \E x \in PortSteps : MayDo(t, x) /\ Reacquiring(t, x)
             /\ \A u : NextIs(t, Step("Sleep", u)) =>
                  \E x \in PortSteps : MayDo(t, x) /\ Sleeping(t, x)
             /\ \A c : NextIs(t, Step("Pop", c)) =>
                  \E x \in PortSteps : MayDo(t, x) /\ Popping(t, c, x)
             /\ \A c : ~NextIs(t, Step("PopMore", c))
<1>1. CASE pending[t] = <<>>
  BY <1>1 DEF NextIs
<1>2. ASSUME NEW x \in PortSteps, MayDo(t, x), pending[t] = <<x>> PROVE Head(pending[t]) = x
  BY <1>2, ShortSequences
<1>3. ASSUME NEW x \in PortSteps
      PROVE  /\ Acquiring(t, x) => Head(pending[t]) = Own(ThePort)
             /\ Reacquiring(t, x) => Head(pending[t]) = Step("Reacquire", ThePort)
             /\ Sleeping(t, x) => Head(pending[t]) = Step("Sleep", t)
             /\ \A c : Popping(t, c, x) => Head(pending[t]) = Step("Pop", c)
  BY ShortSequences, OneTwoThree DEF Acquiring, Reacquiring, Sleeping, Popping
<1>4. ASSUME NEW x \in PortSteps, MayDo(t, x), InCall(t, x)
      PROVE  \/ pending[t] = <<x>> /\ Head(pending[t]) = x
             \/ Acquiring(t, x) /\ Head(pending[t]) = Own(ThePort)
             \/ Reacquiring(t, x) /\ Head(pending[t]) = Step("Reacquire", ThePort)
             \/ Sleeping(t, x) /\ Head(pending[t]) = Step("Sleep", t)
             \/ \E c \in Conditions : Popping(t, c, x) /\ Head(pending[t]) = Step("Pop", c)
  BY <1>2, <1>3, <1>4 DEF InCall
<1>5. ASSUME NEW x \in PortSteps, MayDo(t, x), InCall(t, x) PROVE Goal
  BY <1>4, <1>5, StepNames, OtherSteps DEF NextIs, Own
<1> QED
  BY <1>1, <1>5 DEF CallShape
-----------------------------------------------------------------------------
(* What a step of t leaves of the calls and of the counts.                 *)

Waiting == {t \in Threads : InReceive(t)}

\* A step of t takes from nobody else the lock, its call, or the item of its
\* Signal.
LEMMA StepOfCall ==
    ASSUME CallInv, NEW t \in Threads, PortType', CallShape(t)',
           \A u \in Threads \ {t} : pending'[u] = pending[u] /\ message'[u] = message[u],
           t \in Senders => pending'[t] = <<>> \/ message'[t] \in Messages,
           \A u \in Threads \ {t} : ownerThread[ThePort] = u => ownerThread'[ThePort] = u,
           Inside(t)' => ownerThread'[ThePort] = t,
           \A c \in Conditions, x \in PortSteps : Popping(t, c, x)' => threadQueue'[c] # <<>>,
           \A c \in Conditions :
               threadQueue[c] # <<>> => threadQueue'[c] # <<>> \/ ownerThread[ThePort] = t
    PROVE  /\ CallInv'
           /\ \A u \in Threads \ {t} :
                (InSend(u)' <=> InSend(u)) /\ (InReceive(u)' <=> InReceive(u))
<1>1. ASSUME NEW u \in Threads \ {t}
      PROVE  /\ CallShape(u)' <=> CallShape(u)
             /\ Inside(u)' <=> Inside(u)
             /\ \A c, x : Popping(u, c, x)' <=> Popping(u, c, x)
             /\ InSend(u)' <=> InSend(u)
             /\ InReceive(u)' <=> InReceive(u)
  BY DEF CallShape, InCall, Acquiring, Reacquiring, Sleeping, Popping, Inside, InSend, InReceive
<1>2. \A u \in Threads : CallShape(u)'
  BY <1>1 DEF CallInv
<1>3. InsideOwn'
  <2> SUFFICES ASSUME NEW u \in Threads, Inside(u)' PROVE ownerThread'[ThePort] = u
    BY DEF InsideOwn
  <2>1. CASE u = t
    BY <2>1
  <2>2. CASE u # t
    BY <1>1, <2>2 DEF CallInv, InsideOwn
  <2> QED
    BY <2>1, <2>2
<1>4. PopQueued'
  <2> SUFFICES ASSUME NEW u \in Threads, NEW c \in Conditions, NEW x \in PortSteps,
                      Popping(u, c, x)'
               PROVE  threadQueue'[c] # <<>>
    BY DEF PopQueued
  <2>1. CASE u = t
    BY <2>1
  <2>2. CASE u # t
    <3>1. Popping(u, c, x) /\ threadQueue[c] # <<>>
      BY <1>1, <2>2 DEF CallInv, PopQueued
    <3>2. ownerThread[ThePort] = u
      BY <3>1 DEF CallInv, InsideOwn, Inside
    <3> QED
      BY <2>2, <3>1, <3>2
  <2> QED
    BY <2>1, <2>2
<1>5. SendersHaveMessage'
  BY Names DEF CallInv, SendersHaveMessage
<1> QED
  BY <1>1, <1>2, <1>3, <1>4, <1>5 DEF CallInv

LEMMA CountAdd ==
    ASSUME NEW S \in SUBSET Threads, NEW t \in Threads \ S
    PROVE  Cardinality(S \cup {t}) = Cardinality(S) + 1
<1>1. IsFiniteSet(S)
  BY Names, FS_Subset
<1> QED
  BY <1>1, FS_AddElement

LEMMA CountRemove ==
    ASSUME NEW S \in SUBSET Threads, NEW t \in S
    PROVE  Cardinality(S \ {t}) = Cardinality(S) - 1
<1>1. IsFiniteSet(S)
  BY Names, FS_Subset
<1> QED
  BY <1>1, FS_RemoveElement

LEMMA CountPositive ==
    ASSUME NEW S \in SUBSET Threads
    PROVE  /\ Cardinality(S) \in Nat
           /\ Cardinality(S) > 0 <=> S # {}
<1>1. IsFiniteSet(S)
  BY Names, FS_Subset
<1> QED
  BY <1>1, FS_CardinalityType, FS_EmptySet

\* The counters still match when t enters or leaves Send or Receive.
LEMMA CountsFollow ==
    ASSUME CountersMatch, PortType, NEW t \in Threads,
           \A u \in Threads \ {t} :
                (InSend(u)' <=> InSend(u)) /\ (InReceive(u)' <=> InReceive(u)),
           \/ (InSend(t)' <=> InSend(t)) /\ senders'[ThePort] = senders[ThePort]
           \/ ~InSend(t) /\ InSend(t)' /\ senders'[ThePort] = senders[ThePort] + 1
           \/ InSend(t) /\ ~InSend(t)' /\ senders'[ThePort] = senders[ThePort] - 1,
           \/ (InReceive(t)' <=> InReceive(t)) /\ receivers'[ThePort] = receivers[ThePort]
           \/ ~InReceive(t) /\ InReceive(t)' /\ receivers'[ThePort] = receivers[ThePort] + 1
           \/ InReceive(t) /\ ~InReceive(t)' /\ receivers'[ThePort] = receivers[ThePort] - 1
    PROVE  /\ senders'[ThePort] = Cardinality({u \in Threads : InSend(u)'})
           /\ receivers'[ThePort] = Cardinality(Waiting')
<1> DEFINE S == {u \in Threads : InSend(u)}
           S2 == {u \in Threads : InSend(u)'}
           R == {u \in Threads : InReceive(u)}
           R2 == {u \in Threads : InReceive(u)'}
<1>1. senders[ThePort] = Cardinality(S) /\ receivers[ThePort] = Cardinality(R)
  BY DEF CountersMatch
<1>2. senders'[ThePort] = Cardinality(S2)
  <2>1. CASE (InSend(t)' <=> InSend(t)) /\ senders'[ThePort] = senders[ThePort]
    <3>1. S2 = S
      BY <2>1
    <3> QED
      BY <1>1, <2>1, <3>1
  <2>2. CASE ~InSend(t) /\ InSend(t)' /\ senders'[ThePort] = senders[ThePort] + 1
    <3>1. S2 = S \cup {t} /\ t \in Threads \ S /\ S \in SUBSET Threads
      BY <2>2
    <3> QED
      BY <1>1, <2>2, <3>1, CountAdd
  <2>3. CASE InSend(t) /\ ~InSend(t)' /\ senders'[ThePort] = senders[ThePort] - 1
    <3>1. S2 = S \ {t} /\ t \in S /\ S \in SUBSET Threads
      BY <2>3
    <3> QED
      BY <1>1, <2>3, <3>1, CountRemove
  <2> QED
    BY <2>1, <2>2, <2>3
<1>3. receivers'[ThePort] = Cardinality(R2)
  <2>1. CASE (InReceive(t)' <=> InReceive(t)) /\ receivers'[ThePort] = receivers[ThePort]
    <3>1. R2 = R
      BY <2>1
    <3> QED
      BY <1>1, <2>1, <3>1
  <2>2. CASE ~InReceive(t) /\ InReceive(t)' /\ receivers'[ThePort] = receivers[ThePort] + 1
    <3>1. R2 = R \cup {t} /\ t \in Threads \ R /\ R \in SUBSET Threads
      BY <2>2
    <3> QED
      BY <1>1, <2>2, <3>1, CountAdd
  <2>3. CASE InReceive(t) /\ ~InReceive(t)' /\ receivers'[ThePort] = receivers[ThePort] - 1
    <3>1. R2 = R \ {t} /\ t \in R /\ R \in SUBSET Threads
      BY <2>3
    <3> QED
      BY <1>1, <2>3, <3>1, CountRemove
  <2> QED
    BY <2>1, <2>2, <2>3
<1> QED
  BY <1>2, <1>3 DEF Waiting

-----------------------------------------------------------------------------
(* What a step does to the port, as its users see it.                      *)

InboxSame == \A r \in Receivers : message'[r] = message[r]

Nothing == Waiting' = Waiting /\ buffer'[ThePort] = buffer[ThePort] /\ InboxSame

Arrives(t) ==
    /\ t \in Receivers /\ t \notin Waiting
    /\ Waiting' = Waiting \cup {t}
    /\ buffer'[ThePort] = buffer[ThePort] /\ InboxSame

Puts(m) ==
    /\ m \in Messages
    /\ buffer[ThePort] = NoMessage /\ buffer'[ThePort] = m
    /\ Waiting # {} /\ Waiting' = Waiting
    /\ InboxSame

TakesMessage(t) ==
    /\ t \in Receivers /\ t \in Waiting
    /\ buffer[ThePort] # NoMessage /\ buffer'[ThePort] = NoMessage
    /\ Waiting' = Waiting \ {t}
    /\ \A r \in Receivers : message'[r] = IF r = t THEN buffer[ThePort] ELSE message[r]

PortEffect ==
    \/ Nothing
    \/ \E t \in Threads : Arrives(t) \/ TakesMessage(t)
    \/ \E m \in Messages : Puts(m)

\* A step that neither enters nor leaves Send or Receive.
LEMMA QuietStep ==
    ASSUME CountersMatch, PortType, NEW t \in Threads, UNCHANGED portVars, InboxSame,
           \A u \in Threads \ {t} :
                (InSend(u)' <=> InSend(u)) /\ (InReceive(u)' <=> InReceive(u)),
           (InSend(t)' <=> InSend(t)) /\ (InReceive(t)' <=> InReceive(t))
    PROVE  CountersMatch' /\ PortEffect
<1>1. UNCHANGED <<buffer, senders, receivers>>
  BY DEF portVars
<1>2. /\ senders'[ThePort] = Cardinality({u \in Threads : InSend(u)'})
      /\ receivers'[ThePort] = Cardinality(Waiting')
  BY <1>1, CountsFollow
<1>3. CountersMatch'
  BY <1>1, <1>2 DEF CountersMatch, Waiting
<1>4. Waiting' = Waiting
  BY DEF Waiting
<1> QED
  BY <1>1, <1>3, <1>4 DEF PortEffect, Nothing

\* The phase of a thread that goes on inside the same part of its call.
LEMMA PhaseKept ==
    ASSUME NEW t \in Threads, NEW x \in PortSteps, NEW y \in PortSteps,
           Sends(x) <=> Sends(y), Receives(x) <=> Receives(y),
           InCall(t, x) \/ (pending[t] = <<>> /\ ~Sends(x) /\ ~Receives(x)),
           InCall(t, y)' \/ (pending'[t] = <<>> /\ ~Sends(y) /\ ~Receives(y))
    PROVE  (InSend(t)' <=> InSend(t)) /\ (InReceive(t)' <=> InReceive(t))
<1>1. (InSend(t) <=> Sends(x)) /\ (InReceive(t) <=> Receives(x))
  BY PhaseOfCall
<1>2. (InSend(t)' <=> Sends(y)) /\ (InReceive(t)' <=> Receives(y))
  BY PhaseOfCallNext DEF Sends, Receives
<1> QED
  BY <1>1, <1>2

\* Such a step of the call of t, and what it may not take from the others.
LEMMA QuietCall ==
    ASSUME ClientInv, LockInv', NEW t \in Threads, NEW x \in PortSteps, NEW y \in PortSteps,
           MayDo(t, x) \/ MayDo(t, y),
           Sends(x) <=> Sends(y), Receives(x) <=> Receives(y),
           InCall(t, x) \/ (pending[t] = <<>> /\ ~Sends(x) /\ ~Receives(x)),
           \/ InCall(t, y)' /\ MayDo(t, y)
           \/ pending'[t] = <<>> /\ ~Sends(y) /\ ~Receives(y),
           UNCHANGED portVars, InboxSame,
           pending' \in [Threads -> Seq(Steps)], threadQueue' \in [Conditions -> Seq(Threads)],
           message' \in [Threads -> Messages \cup {NoMessage}],
           \A u \in Threads \ {t} : pending'[u] = pending[u] /\ message'[u] = message[u],
           t \in Senders => pending'[t] = <<>> \/ message'[t] \in Messages,
           \A u \in Threads \ {t} : ownerThread[ThePort] = u => ownerThread'[ThePort] = u,
           Inside(t)' => ownerThread'[ThePort] = t,
           \A c \in Conditions, z \in PortSteps : Popping(t, c, z)' => threadQueue'[c] # <<>>,
           \A c \in Conditions :
               threadQueue[c] # <<>> => threadQueue'[c] # <<>> \/ ownerThread[ThePort] = t
    PROVE  ClientInv' /\ PortEffect
<1>1. CallInv /\ PortType /\ CountersMatch
  BY DEF ClientInv, CallInv
<1>2. PortType'
  BY <1>1 DEF PortType, portVars
<1>3. CallShape(t)'
  BY DEF CallShape, MayDo
<1>4. /\ CallInv'
      /\ \A u \in Threads \ {t} :
           (InSend(u)' <=> InSend(u)) /\ (InReceive(u)' <=> InReceive(u))
  BY <1>1, <1>2, <1>3, StepOfCall
<1>5. (InSend(t)' <=> InSend(t)) /\ (InReceive(t)' <=> InReceive(t))
  BY PhaseKept
<1> QED
  BY <1>1, <1>4, <1>5, QuietStep DEF ClientInv

\* A step of the scheduler, or of a woken thread inside its P().
LEMMA CallsStay ==
    ASSUME ClientInv, LockInv',
           UNCHANGED <<pending, ownerThread, threadQueue, portVars, message>>
    PROVE  ClientInv' /\ PortEffect
<1>1. UNCHANGED <<buffer, senders, receivers>>
  BY DEF portVars
<1>2. \A u \in Threads : /\ CallShape(u)' <=> CallShape(u)
                         /\ Inside(u)' <=> Inside(u)
                         /\ \A c, x : Popping(u, c, x)' <=> Popping(u, c, x)
                         /\ InSend(u)' <=> InSend(u)
                         /\ InReceive(u)' <=> InReceive(u)
  BY DEF CallShape, InCall, Acquiring, Reacquiring, Sleeping, Popping, Inside, InSend, InReceive
<1>3. CallInv'
  BY <1>1, <1>2 DEF ClientInv, CallInv, PortType, InsideOwn, PopQueued, SendersHaveMessage
<1>4. {u \in Threads : InSend(u)}' = {u \in Threads : InSend(u)} /\ Waiting' = Waiting
  BY <1>2 DEF Waiting
<1>5. CountersMatch'
  BY <1>1, <1>4 DEF ClientInv, CountersMatch, Waiting
<1> QED
  BY <1>1, <1>3, <1>4, <1>5 DEF ClientInv, PortEffect, Nothing, InboxSame

-----------------------------------------------------------------------------
(* The steps.                                                              *)

LEMMA InitClientInv == Init => ClientInv /\ Waiting = {}
<1> SUFFICES ASSUME Init PROVE ClientInv /\ Waiting = {}
  OBVIOUS
<1>1. KernelInv
  <2>1. /\ currentThread = MainThread /\ readyList = <<>>
        /\ status = [t \in Threads |-> IF t = MainThread THEN "RUNNING" ELSE "JUST_CREATED"]
        /\ priority = [t \in Threads |-> DefaultPriority]
        /\ value = [s \in Semaphores |-> IF s \in Locks THEN 1 ELSE 0]
        /\ queue = [s \in Semaphores |-> <<>>]
        /\ waitingOn = [t \in Threads |-> NoSem]
    BY DEF Init
  <2> QED
    BY <2>1, FreshKernel, ClientAssumption, KernelAssumption
<1>2. \A t \in Threads : pending[t] = <<>> /\ waitingOn[t] = NoSem
  BY DEF Init
<1>3. \A l \in Locks : value[l] = 1 /\ ownerThread[l] = NoThread
  BY LocksAreSemaphores DEF Init
<1>4. WaitersAcquire /\ LockSafe
  BY <1>2, <1>3, FreshLocks
<1>5. LockType
  BY ClientAssumption, KernelAssumption DEF Init, LockType
<1>6. PortType
  <2>1. <<>> \in Seq(Steps) /\ <<>> \in Seq(Threads)
    OBVIOUS
  <2> QED
    BY <2>1 DEF Init, PortType
<1>7. \A t \in Threads : CallShape(t) /\ ~Inside(t) /\ NotPopping(t) /\ ~InSend(t) /\ ~InReceive(t)
  BY <1>2, PlaceOfCall, PhaseOfCall DEF CallShape
<1>8. CallInv
  BY <1>2, <1>6, <1>7, Names DEF CallInv, InsideOwn, PopQueued, NotPopping, SendersHaveMessage
<1>9. {t \in Threads : InSend(t)} = {} /\ Waiting = {}
  BY <1>7 DEF Waiting
<1>10. Cardinality({}) = 0
  BY FS_EmptySet
<1>11. CountersMatch
  BY <1>9, <1>10, Names DEF Init, CountersMatch, Waiting
<1> QED
  BY <1>1, <1>4, <1>5, <1>8, <1>9, <1>11 DEF ClientInv, LockInv

LEMMA InvTypes ==
    ASSUME ClientInv
    PROVE  /\ LockInv /\ CallInv /\ PortType
           /\ pending \in [Threads -> Seq(Steps)] /\ \A t \in Threads : CallShape(t)
           /\ threadQueue \in [Conditions -> Seq(Threads)]
           /\ ownerThread \in [Locks -> Threads \cup {NoThread}]
           /\ message \in [Threads -> Messages \cup {NoMessage}]
           /\ InsideOwn /\ PopQueued
BY DEF ClientInv, CallInv, PortType, LockInv, LockType

LEMMA ForkStep ==
    ASSUME ClientInv, NEW t \in Threads, NEW child \in Threads, ThreadFork(t, child)
    PROVE  ClientInv' /\ PortEffect
<1>1. Fork(t, child) /\ UNCHANGED <<lockVars, pending, threadQueue, portVars, message>>
  BY DEF ThreadFork
<1>2. LockInv'
  BY <1>1, SchedulerLockInv DEF ClientInv
<1> QED
  BY <1>1, <1>2, CallsStay DEF lockVars

LEMMA ScheduleStep ==
    ASSUME ClientInv, Schedule
    PROVE  ClientInv' /\ PortEffect
<1>1. PICK t \in Threads : Yield(t) \/ RetryP(t)
  BY DEF Schedule, SchedulerStep
<1>2. UNCHANGED <<lockVars, pending, threadQueue, portVars, message>>
  BY DEF Schedule, SchedulerStep
<1>3. LockInv'
  BY <1>1, <1>2, SchedulerLockInv, RetryPLockInv DEF ClientInv
<1> QED
  BY <1>2, <1>3, CallsStay DEF lockVars

\* An Acquire of the port's lock, at the start of a call or the end of a Wait.
LEMMA AcquireCall ==
    ASSUME ClientInv, NEW t \in Threads, NEW x \in PortSteps, IsRunning(t), InNoAcquire(t),
           StartAcquire(t, ThePort, <<x>>)
    PROVE  /\ LockInv' /\ UNCHANGED ownerThread
           /\ pending' \in [Threads -> Seq(Steps)] /\ Acquiring(t, x)'
           /\ \A u \in Threads \ {t} : pending'[u] = pending[u]
<1>1. /\ x \in Steps /\ Own(ThePort) \in Steps /\ <<x>> \in Seq(Steps)
      /\ <<Own(ThePort), x>> \in Seq(Steps)
  BY StepNames, OtherSteps, CallTypes, Names
<1>2. LockInv /\ pending \in [Threads -> Seq(Steps)] /\ ThePort \in Locks
  BY InvTypes, Names
<1>3. LockInv' /\ pending' = [pending EXCEPT ![t] = <<Own(ThePort)>> \o <<x>>]
  BY <1>1, <1>2, StartAcquireInv
<1>4. <<Own(ThePort)>> \o <<x>> = <<Own(ThePort), x>>
  BY <1>1, OneAndOne
<1>5. pending' = [pending EXCEPT ![t] = <<Own(ThePort), x>>]
  BY <1>3, <1>4
<1>6. UNCHANGED ownerThread
  BY DEF StartAcquire, lockVars
<1> QED
  BY <1>1, <1>2, <1>3, <1>5, <1>6 DEF Acquiring

\* A call starts: nobody but the owner of a lock loses it.
LEMMA CallStarts ==
    ASSUME ClientInv, NEW t \in Threads, NEW x \in PortSteps, MayDo(t, x),
           ~Sends(x), ~Receives(x), IsRunning(t), pending[t] = <<>>,
           StartAcquire(t, ThePort, <<x>>),
           UNCHANGED <<threadQueue, portVars>>, InboxSame,
           message' \in [Threads -> Messages \cup {NoMessage}],
           \A u \in Threads \ {t} : message'[u] = message[u],
           t \in Senders => message'[t] \in Messages
    PROVE  ClientInv' /\ PortEffect
<1>1. InNoAcquire(t)
  BY PlaceOfCall
<1>2. /\ LockInv' /\ UNCHANGED ownerThread
      /\ pending' \in [Threads -> Seq(Steps)] /\ Acquiring(t, x)'
      /\ \A u \in Threads \ {t} : pending'[u] = pending[u]
  BY <1>1, AcquireCall
<1>3. InCall(t, x)'
  BY <1>2 DEF InCall
<1>4. ~Inside(t)' /\ \A c \in Conditions, z \in PortSteps : ~Popping(t, c, z)'
  BY <1>2, PlaceOfCallNext DEF NotPopping
<1> QED
  BY <1>2, <1>3, <1>4, InvTypes, QuietCall

LEMMA SendStep ==
    ASSUME ClientInv, NEW t \in Threads, ClientSend(t)
    PROVE  ClientInv' /\ PortEffect
<1> DEFINE x == Step("EnterSend", ThePort)
<1>1. /\ t \in Senders /\ IsRunning(t) /\ pending[t] = <<>>
      /\ message' = [message EXCEPT ![t] = t]
      /\ StartAcquire(t, ThePort, <<x>> \o <<>>)
      /\ UNCHANGED <<threadQueue, portVars>>
  BY DEF ClientSend, Send, InOwnCode, StartSend
<1>2. x \in PortSteps /\ MayDo(t, x) /\ ~Sends(x) /\ ~Receives(x)
  BY <1>1 DEF PortSteps, SendSteps, MayDo, Sends, Receives, Step
<1>3. /\ message' \in [Threads -> Messages \cup {NoMessage}]
      /\ \A u \in Threads \ {t} : message'[u] = message[u]
      /\ message'[t] \in Messages
  BY <1>1, Names, InvTypes
<1>4. InboxSame
  BY <1>1, <1>3, Names DEF InboxSame
<1> HIDE DEF x
<1>5. StartAcquire(t, ThePort, <<x>>)
  BY <1>1, ShortSequences
<1> QED
  BY <1>1, <1>2, <1>3, <1>4, <1>5, CallStarts

LEMMA ReceiveStep ==
    ASSUME ClientInv, NEW t \in Threads, ClientReceive(t)
    PROVE  ClientInv' /\ PortEffect
<1> DEFINE x == Step("EnterReceive", ThePort)
<1>1. /\ t \in Receivers /\ IsRunning(t) /\ pending[t] = <<>>
      /\ StartAcquire(t, ThePort, <<x>> \o <<>>)
      /\ UNCHANGED <<threadQueue, portVars, message>>
  BY DEF ClientReceive, Receive, InOwnCode, StartReceive
<1>2. x \in PortSteps /\ MayDo(t, x) /\ ~Sends(x) /\ ~Receives(x)
  BY <1>1 DEF PortSteps, ReceiveSteps, MayDo, Sends, Receives, Step
<1>3. t \notin Senders /\ InboxSame
  BY <1>1, Names DEF InboxSame
<1> HIDE DEF x
<1>4. StartAcquire(t, ThePort, <<x>>)
  BY <1>1, ShortSequences
<1> QED
  BY <1>1, <1>2, <1>3, <1>4, InvTypes, CallStarts

\* The thread that passed the P() of its Acquire becomes the owner.
LEMMA OwnStep ==
    ASSUME ClientInv, NEW t \in Threads, NEW l \in Locks, FinishAcquire(t, l),
           UNCHANGED <<threadQueue, portVars, message>>
    PROVE  ClientInv' /\ PortEffect
<1>1. /\ NextIs(t, Own(l)) /\ Return(t)
      /\ ownerThread' = [ownerThread EXCEPT ![l] = t]
  BY DEF FinishAcquire, NextStep, NextIs, Own
<1>2. PICK x \in PortSteps : MayDo(t, x) /\ Acquiring(t, x)
  BY <1>1, InvTypes, CallOfNext
<1>3. l = ThePort
  BY Names
<1>4. Tail(pending[t]) = <<x>> /\ <<x>> \in Seq(Steps)
  BY <1>2, ShortSequences, CallTypes, Names DEF Acquiring
<1>5. /\ pending' \in [Threads -> Seq(Steps)] /\ pending'[t] = <<x>>
      /\ \A u \in Threads \ {t} : pending'[u] = pending[u]
  BY <1>1, <1>4, InvTypes DEF Return
<1>6. InNoAcquire(t)' /\ NotPopping(t)'
  BY <1>5, PlaceOfCallNext
<1>7. LockInv' /\ Holders(l) = {t} /\ ownerThread'[l] = t
  BY <1>6, InvTypes, FinishAcquireInv
<1>8. \A u \in Threads \ {t} : ownerThread[ThePort] # u
  BY <1>3, <1>7 DEF Holders
<1>9. InCall(t, x) /\ InCall(t, x)'
  BY <1>2, <1>5 DEF InCall
<1>10. t \in Senders => message'[t] \in Messages
  BY <1>4, <1>2, InvTypes, ShortSequences DEF CallInv, SendersHaveMessage, Acquiring
<1> QED
  BY <1>2, <1>3, <1>5, <1>6, <1>7, <1>8, <1>9, <1>10, InvTypes, QuietCall
     DEF InboxSame, NotPopping

\* ci->sem->P(): the end of the wait for a Signal.
LEMMA SleepOnItemStep ==
    ASSUME ClientInv, NEW t \in Threads, SleepOnItem(t), UNCHANGED <<portVars, message>>
    PROVE  ClientInv' /\ PortEffect
<1>1. /\ NextIs(t, Step("Sleep", t)) /\ IsRunning(t) /\ TestValue(t, t)
      /\ Return(t) /\ UNCHANGED <<priority, lockVars, threadQueue>>
  BY DEF SleepOnItem, NextStep, NextIs, Step
<1>2. PICK x \in PortSteps : MayDo(t, x) /\ Sleeping(t, x)
  BY <1>1, InvTypes, CallOfNext
<1>3. /\ Tail(pending[t]) = <<Step("Reacquire", ThePort), x>>
      /\ <<Step("Reacquire", ThePort), x>> \in Seq(Steps) /\ pending[t] # <<>>
  BY <1>2, OneTwoThree, CallTypes, Names DEF Sleeping
<1>4. /\ pending' \in [Threads -> Seq(Steps)] /\ Reacquiring(t, x)'
      /\ \A u \in Threads \ {t} : pending'[u] = pending[u]
  BY <1>1, <1>3, InvTypes DEF Return, Reacquiring
<1>5. InNoAcquire(t) /\ InNoAcquire(t)' /\ NotPopping(t)' /\ ~Inside(t)'
  BY <1>2, <1>4, PlaceOfCall, PlaceOfCallNext
<1>6. LockInv'
  BY <1>1, <1>4, <1>5, InvTypes, Names, TestValueLockInv DEF IsRunning
<1>7. InCall(t, x) /\ InCall(t, x)'
  BY <1>2, <1>4 DEF InCall
<1>8. t \in Senders => message'[t] \in Messages
  BY <1>3, InvTypes DEF CallInv, SendersHaveMessage
<1> QED
  BY <1>1, <1>2, <1>4, <1>5, <1>6, <1>7, <1>8, InvTypes, QuietCall
     DEF InboxSame, NotPopping, lockVars

\* conditionLock->Acquire(), the end of Wait.
LEMMA ReacquireStep ==
    ASSUME ClientInv, NEW t \in Threads, NEW l \in Locks, Reacquire(t, l),
           UNCHANGED <<portVars, message>>
    PROVE  ClientInv' /\ PortEffect
<1>1. /\ NextIs(t, Step("Reacquire", l)) /\ IsRunning(t)
      /\ StartAcquire(t, l, Tail(pending[t])) /\ UNCHANGED threadQueue
  BY DEF Reacquire, NextStep, NextIs, Step
<1>2. PICK x \in PortSteps : MayDo(t, x) /\ Reacquiring(t, x)
  BY <1>1, InvTypes, CallOfNext
<1>3. l = ThePort
  BY Names
<1>4. Tail(pending[t]) = <<x>> /\ pending[t] # <<>>
  BY <1>2, ShortSequences DEF Reacquiring
<1>5. StartAcquire(t, ThePort, <<x>>)
  BY <1>1, <1>3, <1>4
<1>6. InNoAcquire(t)
  BY <1>2, PlaceOfCall
<1>7. /\ LockInv' /\ UNCHANGED ownerThread
      /\ pending' \in [Threads -> Seq(Steps)] /\ Acquiring(t, x)'
      /\ \A u \in Threads \ {t} : pending'[u] = pending[u]
  BY <1>1, <1>5, <1>6, AcquireCall
<1>8. InCall(t, x) /\ InCall(t, x)' /\ NotPopping(t)' /\ ~Inside(t)'
  BY <1>2, <1>7, PlaceOfCallNext DEF InCall
<1>9. t \in Senders => message'[t] \in Messages
  BY <1>4, InvTypes DEF CallInv, SendersHaveMessage
<1> QED
  BY <1>1, <1>2, <1>7, <1>8, <1>9, InvTypes, QuietCall DEF InboxSame, NotPopping

\* threadQueue.pop(), the end of Signal.
LEMMA PopStep ==
    ASSUME ClientInv, NEW t \in Threads, NEW c \in Conditions, PopSignalled(t, c),
           UNCHANGED <<portVars, message>>
    PROVE  ClientInv' /\ PortEffect
<1>1. /\ NextIs(t, Step("Pop", c)) /\ IsRunning(t) /\ Return(t)
      /\ threadQueue' = [threadQueue EXCEPT ![c] = Tail(@)]
      /\ UNCHANGED <<kernelVars, lockVars>>
  BY DEF PopSignalled, NextStep, NextIs, Step
<1>2. PICK x \in PortSteps : MayDo(t, x) /\ Popping(t, c, x)
  BY <1>1, InvTypes, CallOfNext
<1>3. /\ Tail(pending[t]) = <<x>> /\ pending[t] # <<>> /\ <<x>> \in Seq(Steps)
  BY <1>2, ShortSequences, CallTypes, Names DEF Popping
<1>4. /\ pending' \in [Threads -> Seq(Steps)] /\ pending'[t] = <<x>>
      /\ \A u \in Threads \ {t} : pending'[u] = pending[u]
  BY <1>1, <1>3, InvTypes DEF Return
<1>5. InNoAcquire(t) /\ InNoAcquire(t)' /\ NotPopping(t)'
  BY <1>2, <1>4, PlaceOfCall, PlaceOfCallNext
<1>6. LockInv'
  BY <1>1, <1>4, <1>5, InvTypes, CallLockInv
<1>7. InCall(t, x) /\ InCall(t, x)'
  BY <1>2, <1>4 DEF InCall
<1>8. ownerThread[ThePort] = t /\ threadQueue[c] # <<>>
  BY <1>2, InvTypes DEF InsideOwn, Inside, PopQueued
<1>9. threadQueue' \in [Conditions -> Seq(Threads)]
  <2>1. Tail(threadQueue[c]) \in Seq(Threads)
    BY <1>8, InvTypes
  <2> QED
    BY <1>1, <2>1, InvTypes
<1>10. t \in Senders => message'[t] \in Messages
  BY <1>3, InvTypes DEF CallInv, SendersHaveMessage
<1> QED
  BY <1>1, <1>2, <1>4, <1>5, <1>6, <1>7, <1>8, <1>9, <1>10, InvTypes, QuietCall
     DEF InboxSame, NotPopping, lockVars

\* Inside Send or Receive nobody else owns the lock.
LEMMA InsideAlone ==
    ASSUME ClientInv, NEW t \in Threads, NEW x \in PortSteps, pending[t] = <<x>>
    PROVE  /\ ownerThread[ThePort] = t
           /\ InNoAcquire(t) /\ InCall(t, x) /\ pending[t] # <<>>
           /\ <<x>> \in Seq(Steps) /\ Tail(pending[t]) = <<>>
           /\ t \in Senders => message[t] \in Messages
<1>1. Inside(t) /\ InNoAcquire(t) /\ InCall(t, x)
  BY PlaceOfCall DEF Inside, InCall
<1>2. pending[t] # <<>> /\ Tail(pending[t]) = <<>> /\ <<x>> \in Seq(Steps)
  BY ShortSequences, CallTypes, Names
<1> QED
  BY <1>1, <1>2, InvTypes DEF InsideOwn, CallInv, SendersHaveMessage

\* Condition::Wait inside Send or Receive.
LEMMA WaitCall ==
    ASSUME ClientInv, NEW t \in Threads, NEW x \in PortSteps, NEW y \in PortSteps,
           NEW c \in Conditions, IsRunning(t), pending[t] = <<x>>, MayDo(t, y),
           Sends(x) <=> Sends(y), Receives(x) <=> Receives(y),
           StartWait(t, c, ThePort, <<y>>), UNCHANGED <<portVars, message>>
    PROVE  ClientInv' /\ PortEffect
<1>1. /\ Release(t, ThePort)
      /\ threadQueue' = [threadQueue EXCEPT ![c] = Append(@, t)]
      /\ pending' = [pending EXCEPT ![t] = <<Step("Sleep", t), Step("Reacquire", ThePort)>> \o <<y>>]
  BY DEF StartWait
<1>2. /\ y \in Steps /\ Step("Sleep", t) \in Steps /\ Step("Reacquire", ThePort) \in Steps
      /\ <<Step("Sleep", t), Step("Reacquire", ThePort), y>> \in Seq(Steps)
  BY StepNames, OtherSteps, CallTypes, Names
<1>3. <<Step("Sleep", t), Step("Reacquire", ThePort)>> \o <<y>>
        = <<Step("Sleep", t), Step("Reacquire", ThePort), y>>
  BY <1>2, TwoAndOne
<1>4. /\ pending' \in [Threads -> Seq(Steps)] /\ Sleeping(t, y)'
      /\ \A u \in Threads \ {t} : pending'[u] = pending[u]
  BY <1>1, <1>2, <1>3, InvTypes DEF Sleeping
<1>5. InCall(t, y)' /\ NotPopping(t)' /\ ~Inside(t)' /\ InNoAcquire(t)'
  BY <1>4, PlaceOfCallNext DEF InCall
<1>6. /\ ownerThread[ThePort] = t /\ InNoAcquire(t) /\ InCall(t, x)
      /\ t \in Senders => message[t] \in Messages
  BY InsideAlone
<1>7. LockInv'
  BY <1>1, <1>4, <1>5, <1>6, InvTypes, Names, ReleaseInv
<1>8. threadQueue' \in [Conditions -> Seq(Threads)]
  BY <1>1, InvTypes
<1> QED
  BY <1>4, <1>5, <1>6, <1>7, <1>8, InvTypes, QuietCall DEF InboxSame, NotPopping

\* Condition::Signal inside Send or Receive, up to the pop.
LEMMA SignalCall ==
    ASSUME ClientInv, NEW t \in Threads, NEW x \in PortSteps, NEW y \in PortSteps,
           NEW c \in Conditions, IsRunning(t), pending[t] = <<x>>,
           StartSignal(t, c, "Pop", <<y>>)
    PROVE  /\ LockInv' /\ UNCHANGED <<ownerThread, threadQueue>>
           /\ pending' \in [Threads -> Seq(Steps)] /\ Popping(t, c, y)'
           /\ \A u \in Threads \ {t} : pending'[u] = pending[u]
           /\ InCall(t, y)'
           /\ \A d \in Conditions, z \in PortSteps : Popping(t, d, z)' => threadQueue'[d] # <<>>
<1>1. /\ threadQueue[c] # <<>> /\ V(Head(threadQueue[c]))
      /\ pending' = [pending EXCEPT ![t] = <<Step("Pop", c)>> \o <<y>>]
      /\ UNCHANGED <<priority, lockVars, threadQueue>>
  BY DEF StartSignal
<1>2. y \in Steps /\ Step("Pop", c) \in Steps /\ <<Step("Pop", c), y>> \in Seq(Steps)
  BY StepNames, OtherSteps, CallTypes
<1>3. <<Step("Pop", c)>> \o <<y>> = <<Step("Pop", c), y>>
  BY <1>2, OneAndOne
<1>4. /\ pending' \in [Threads -> Seq(Steps)] /\ Popping(t, c, y)'
      /\ \A u \in Threads \ {t} : pending'[u] = pending[u]
  BY <1>1, <1>2, <1>3, InvTypes DEF Popping
<1>5. InNoAcquire(t)' /\ \A d \in Conditions, z \in PortSteps : Popping(t, d, z)' => d = c
  BY <1>4, PlaceOfCallNext
<1>6. Head(threadQueue[c]) \in Threads
  BY <1>1, InvTypes
<1>7. PICK s \in Semaphores \ Locks : s = Head(threadQueue[c])
  BY <1>6, Names
<1>8. V(s)
  BY <1>1, <1>7
<1>9. LockInv'
  BY <1>1, <1>4, <1>5, <1>8, InsideAlone, InvTypes, VLockInv
<1>10. InCall(t, y)'
  BY <1>4 DEF InCall
<1> QED
  BY <1>1, <1>4, <1>5, <1>9, <1>10 DEF lockVars

\* The end of Send or Receive.
LEMMA ReleaseCall ==
    ASSUME ClientInv, NEW t \in Threads, NEW x \in PortSteps, pending[t] = <<x>>,
           IsRunning(t), Release(t, ThePort), Return(t)
    PROVE  /\ LockInv' /\ ownerThread[ThePort] = t
           /\ pending' \in [Threads -> Seq(Steps)] /\ pending'[t] = <<>>
           /\ \A u \in Threads \ {t} : pending'[u] = pending[u]
           /\ ~Inside(t)' /\ \A c \in Conditions, z \in PortSteps : ~Popping(t, c, z)'
<1>1. <<>> \in Seq(Steps)
  OBVIOUS
<1>2. /\ pending' \in [Threads -> Seq(Steps)] /\ pending'[t] = <<>>
      /\ \A u \in Threads \ {t} : pending'[u] = pending[u]
  BY <1>1, InsideAlone, InvTypes DEF Return
<1>3. ~Inside(t)' /\ InNoAcquire(t)' /\ NotPopping(t)'
  BY <1>2, PlaceOfCallNext
<1>4. LockInv' /\ ownerThread[ThePort] = t
  BY <1>2, <1>3, InsideAlone, InvTypes, Names, ReleaseInv
<1> QED
  BY <1>2, <1>3, <1>4 DEF NotPopping

-----------------------------------------------------------------------------
(* The steps of Send and Receive.                                          *)

\* Which thread is at step s, and that it is alone.
LEMMA AtStep ==
    ASSUME ClientInv, NEW t \in Threads, NEW p \in Ports, NEW s, NextStep(t, s, p),
           Step(s, ThePort) \in PortSteps
    PROVE  /\ p = ThePort /\ IsRunning(t)
           /\ pending[t] = <<Step(s, ThePort)>> /\ MayDo(t, Step(s, ThePort))
<1>1. p = ThePort /\ CallShape(t)
  BY Names, InvTypes
<1>2. IsRunning(t) /\ NextIs(t, Step(s, ThePort))
  BY <1>1 DEF NextStep, NextIs, Step
<1> QED
  BY <1>1, <1>2, CallOfNext

\* The steps and who does them.
LEMMA Parts ==
    /\ \A s \in {"EnterSend", "TestSend", "Unlock"} :
        Step(s, ThePort) \in PortSteps /\ Step(s, ThePort) \in SendSteps
    /\ \A s \in {"EnterReceive", "TestReceive", "WaitToReceive"} :
        Step(s, ThePort) \in PortSteps /\ Step(s, ThePort) \in ReceiveSteps
    /\ \A s, o : Sends(Step(s, o)) <=> s = "TestSend"
    /\ \A s, o : Receives(Step(s, o)) <=> s \in {"TestReceive", "WaitToReceive"}
BY DEF PortSteps, SendSteps, ReceiveSteps, Sends, Receives, Step

LEMMA MayDoParts ==
    ASSUME NEW t \in Threads
    PROVE  /\ \A s, r \in {"EnterSend", "TestSend", "Unlock"} :
                MayDo(t, Step(s, ThePort)) =>
                    MayDo(t, Step(r, ThePort)) /\ t \in Senders /\ t \notin Receivers
           /\ \A s, r \in {"EnterReceive", "TestReceive", "WaitToReceive"} :
                MayDo(t, Step(s, ThePort)) =>
                    MayDo(t, Step(r, ThePort)) /\ t \in Receivers /\ t \notin Senders
BY Names DEF MayDo, SendSteps, ReceiveSteps, Step

LEMMA WaitToSendStep ==
    ASSUME ClientInv, NEW t \in Threads, NEW p \in Ports, WaitToSend(t, p)
    PROVE  ClientInv' /\ PortEffect
<1> DEFINE x == Step("TestSend", ThePort)
<1>1. /\ NextStep(t, "TestSend", p) /\ StartWait(t, senderCondition(p), p, pending[t])
      /\ UNCHANGED <<portVars, message>>
  BY DEF WaitToSend
<1>2. /\ x \in PortSteps /\ p = ThePort /\ IsRunning(t) /\ pending[t] = <<x>> /\ MayDo(t, x)
  BY <1>1, AtStep, Parts
<1>3. StartWait(t, senderCondition(ThePort), ThePort, <<x>>)
  BY <1>1, <1>2
<1> HIDE DEF x
<1> QED
  BY <1>1, <1>2, <1>3, Names, WaitCall

LEMMA UnlockStep ==
    ASSUME ClientInv, NEW t \in Threads, NEW p \in Ports, Unlock(t, p)
    PROVE  ClientInv' /\ PortEffect
<1> DEFINE x == Step("Unlock", ThePort)
<1>1. /\ NextStep(t, "Unlock", p) /\ Release(t, p) /\ Return(t)
      /\ UNCHANGED <<threadQueue, portVars, message>>
  BY DEF Unlock
<1>2. /\ x \in PortSteps /\ p = ThePort /\ IsRunning(t) /\ pending[t] = <<x>> /\ MayDo(t, x)
      /\ ~Sends(x) /\ ~Receives(x)
  BY <1>1, AtStep, Parts
<1> HIDE DEF x
<1>3. InCall(t, x)
  BY <1>2, InsideAlone
<1>4. /\ LockInv' /\ ownerThread[ThePort] = t
      /\ pending' \in [Threads -> Seq(Steps)] /\ pending'[t] = <<>>
      /\ \A u \in Threads \ {t} : pending'[u] = pending[u]
      /\ ~Inside(t)' /\ \A c \in Conditions, z \in PortSteps : ~Popping(t, c, z)'
  BY <1>1, <1>2, ReleaseCall
<1> QED
  BY <1>1, <1>2, <1>3, <1>4, InvTypes, QuietCall DEF InboxSame

LEMMA SignalSenderStep ==
    ASSUME ClientInv, NEW t \in Threads, NEW p \in Ports, SignalSender(t, p)
    PROVE  ClientInv' /\ PortEffect
<1> DEFINE x == Step("TestReceive", ThePort)
           y == Step("WaitToReceive", ThePort)
<1>1. /\ NextStep(t, "TestReceive", p)
      /\ StartSignal(t, senderCondition(p), "Pop", <<Step("WaitToReceive", p)>> \o Tail(pending[t]))
      /\ UNCHANGED <<portVars, message>>
  BY DEF SignalSender
<1>2. /\ x \in PortSteps /\ p = ThePort /\ IsRunning(t) /\ pending[t] = <<x>> /\ MayDo(t, x)
      /\ y \in PortSteps /\ ~Sends(x) /\ Receives(x) /\ ~Sends(y) /\ Receives(y)
  BY <1>1, AtStep, Parts
<1>3. MayDo(t, y) /\ t \notin Senders
  BY <1>2, MayDoParts
<1>4. <<y>> \o Tail(pending[t]) = <<y>>
  BY <1>2, ShortSequences
<1>5. StartSignal(t, senderCondition(ThePort), "Pop", <<y>>)
  BY <1>1, <1>2, <1>4
<1> HIDE DEF x, y
<1>6. /\ LockInv' /\ UNCHANGED <<ownerThread, threadQueue>>
      /\ pending' \in [Threads -> Seq(Steps)]
      /\ \A u \in Threads \ {t} : pending'[u] = pending[u]
      /\ InCall(t, y)'
      /\ \A d \in Conditions, z \in PortSteps : Popping(t, d, z)' => threadQueue'[d] # <<>>
  BY <1>2, <1>5, Names, SignalCall
<1>7. InCall(t, x) /\ ownerThread[ThePort] = t
  BY <1>2, InsideAlone
<1> QED
  BY <1>1, <1>2, <1>3, <1>6, <1>7, InvTypes, QuietCall DEF InboxSame

LEMMA WaitToReceiveStep ==
    ASSUME ClientInv, NEW t \in Threads, NEW p \in Ports, WaitToReceive(t, p)
    PROVE  ClientInv' /\ PortEffect
<1> DEFINE y == Step("TestReceive", ThePort)
<1>1. PICK s \in {"WaitToReceive", "TestReceive"} : NextStep(t, s, p)
  BY DEF WaitToReceive
<1>2. /\ StartWait(t, receiverCondition(p), p, <<Step("TestReceive", p)>> \o Tail(pending[t]))
      /\ UNCHANGED <<portVars, message>>
  BY DEF WaitToReceive
<1>3. PICK x \in PortSteps : x = Step(s, ThePort)
  BY Parts
<1>4. /\ p = ThePort /\ IsRunning(t) /\ pending[t] = <<x>> /\ MayDo(t, y)
      /\ y \in PortSteps /\ ~Sends(x) /\ Receives(x) /\ ~Sends(y) /\ Receives(y)
  BY <1>1, <1>3, AtStep, Parts, MayDoParts
<1>5. <<y>> \o Tail(pending[t]) = <<y>>
  BY <1>4, ShortSequences
<1>6. StartWait(t, receiverCondition(ThePort), ThePort, <<y>>)
  BY <1>2, <1>4, <1>5
<1> HIDE DEF y
<1> QED
  BY <1>2, <1>4, <1>6, Names, WaitCall

\* A step inside Send or Receive that changes the counters or the buffer.
LEMMA BusyStep ==
    ASSUME ClientInv, LockInv', NEW t \in Threads, ownerThread[ThePort] = t,
           PortType', CallShape(t)',
           \A u \in Threads \ {t} : pending'[u] = pending[u] /\ message'[u] = message[u],
           t \in Senders => pending'[t] = <<>> \/ message'[t] \in Messages,
           Inside(t)' => ownerThread'[ThePort] = t,
           \A c \in Conditions, z \in PortSteps : Popping(t, c, z)' => threadQueue'[c] # <<>>,
           \/ (InSend(t)' <=> InSend(t)) /\ senders'[ThePort] = senders[ThePort]
           \/ ~InSend(t) /\ InSend(t)' /\ senders'[ThePort] = senders[ThePort] + 1
           \/ InSend(t) /\ ~InSend(t)' /\ senders'[ThePort] = senders[ThePort] - 1,
           \/ (InReceive(t)' <=> InReceive(t)) /\ receivers'[ThePort] = receivers[ThePort]
           \/ ~InReceive(t) /\ InReceive(t)' /\ receivers'[ThePort] = receivers[ThePort] + 1
           \/ InReceive(t) /\ ~InReceive(t)' /\ receivers'[ThePort] = receivers[ThePort] - 1,
           buffer'[ThePort] # NoMessage => receivers'[ThePort] > 0
    PROVE  /\ ClientInv'
           /\ \A u \in Threads \ {t} : InReceive(u)' <=> InReceive(u)
<1>1. CallInv /\ PortType /\ CountersMatch
  BY DEF ClientInv, CallInv
<1>2. /\ CallInv'
      /\ \A u \in Threads \ {t} :
           (InSend(u)' <=> InSend(u)) /\ (InReceive(u)' <=> InReceive(u))
  BY <1>1, StepOfCall
<1>3. /\ senders'[ThePort] = Cardinality({u \in Threads : InSend(u)'})
      /\ receivers'[ThePort] = Cardinality(Waiting')
  BY <1>1, <1>2, CountsFollow
<1>4. CountersMatch'
  BY <1>3 DEF CountersMatch, Waiting
<1> QED
  BY <1>2, <1>4 DEF ClientInv

\* What goes on in the call of t after a step of Send or Receive that stays in it.
LEMMA GoesOn ==
    ASSUME ClientInv, NEW t \in Threads, NEW x \in PortSteps, NEW y \in PortSteps,
           pending[t] = <<x>>, IsRunning(t), MayDo(t, y), GoOn(t, <<y>>),
           UNCHANGED <<kernelVars, lockVars>>
    PROVE  /\ LockInv' /\ ownerThread[ThePort] = t /\ ownerThread'[ThePort] = t
           /\ pending' \in [Threads -> Seq(Steps)] /\ CallShape(t)' /\ InCall(t, y)'
           /\ \A u \in Threads \ {t} : pending'[u] = pending[u]
           /\ \A c \in Conditions, z \in PortSteps : ~Popping(t, c, z)'
<1>1. /\ ownerThread[ThePort] = t /\ InNoAcquire(t) /\ Tail(pending[t]) = <<>>
  BY InsideAlone
<1>2. <<y>> \o <<>> = <<y>> /\ <<y>> \in Seq(Steps)
  BY ShortSequences, CallTypes, Names
<1>3. pending' = [pending EXCEPT ![t] = <<y>>]
  BY <1>1, <1>2 DEF GoOn
<1>4. /\ pending' \in [Threads -> Seq(Steps)] /\ pending'[t] = <<y>>
      /\ \A u \in Threads \ {t} : pending'[u] = pending[u]
  BY <1>2, <1>3, InvTypes
<1>5. InNoAcquire(t)' /\ NotPopping(t)' /\ InCall(t, y)'
  BY <1>4, PlaceOfCallNext DEF InCall
<1>6. LockInv'
  BY <1>1, <1>4, <1>5, InvTypes, CallLockInv
<1>7. CallShape(t)'
  BY <1>5 DEF CallShape, MayDo
<1> QED
  BY <1>1, <1>4, <1>5, <1>6, <1>7 DEF lockVars, NotPopping

LEMMA EnterSendStep ==
    ASSUME ClientInv, NEW t \in Threads, NEW p \in Ports, EnterSend(t, p)
    PROVE  ClientInv' /\ PortEffect
<1> DEFINE x == Step("EnterSend", ThePort)
           y == Step("TestSend", ThePort)
<1>1. /\ NextStep(t, "EnterSend", p) /\ GoOn(t, <<Step("TestSend", p)>>)
      /\ senders' = [senders EXCEPT ![p] = @ + 1]
      /\ UNCHANGED <<kernelVars, lockVars, threadQueue, buffer, receivers, message>>
  BY DEF EnterSend
<1>2. /\ x \in PortSteps /\ p = ThePort /\ IsRunning(t) /\ pending[t] = <<x>> /\ MayDo(t, x)
      /\ y \in PortSteps /\ ~Sends(x) /\ ~Receives(x) /\ Sends(y) /\ ~Receives(y)
  BY <1>1, AtStep, Parts
<1>3. MayDo(t, y)
  BY <1>2, MayDoParts
<1>4. GoOn(t, <<y>>)
  BY <1>1, <1>2
<1> HIDE DEF x, y
<1>5. /\ LockInv' /\ ownerThread[ThePort] = t /\ ownerThread'[ThePort] = t
      /\ pending' \in [Threads -> Seq(Steps)] /\ CallShape(t)' /\ InCall(t, y)'
      /\ \A u \in Threads \ {t} : pending'[u] = pending[u]
      /\ \A c \in Conditions, z \in PortSteps : ~Popping(t, c, z)'
  BY <1>1, <1>2, <1>3, <1>4, GoesOn
<1>6. InCall(t, x) /\ (t \in Senders => message[t] \in Messages)
  BY <1>2, InsideAlone
<1>7. ~InSend(t) /\ InSend(t)' /\ ~InReceive(t) /\ ~InReceive(t)'
  BY <1>2, <1>5, <1>6, PhaseOfCall, PhaseOfCallNext DEF Sends, Receives
<1>8. senders[ThePort] \in Nat /\ senders'[ThePort] = senders[ThePort] + 1
  BY <1>1, <1>2, Names, InvTypes DEF PortType
<1>9. PortType'
  BY <1>1, <1>2, <1>5, <1>8, InvTypes DEF PortType
<1>10. buffer[ThePort] # NoMessage => receivers[ThePort] > 0
  BY DEF ClientInv, CountersMatch
<1>11. ClientInv' /\ \A u \in Threads \ {t} : InReceive(u)' <=> InReceive(u)
  BY <1>1, <1>5, <1>6, <1>7, <1>8, <1>9, <1>10, BusyStep
<1>12. Waiting' = Waiting
  BY <1>7, <1>11 DEF Waiting
<1> QED
  BY <1>1, <1>11, <1>12 DEF PortEffect, Nothing, InboxSame

LEMMA EnterReceiveStep ==
    ASSUME ClientInv, NEW t \in Threads, NEW p \in Ports, EnterReceive(t, p)
    PROVE  ClientInv' /\ PortEffect
<1> DEFINE x == Step("EnterReceive", ThePort)
           y == Step("TestReceive", ThePort)
<1>1. /\ NextStep(t, "EnterReceive", p) /\ GoOn(t, <<Step("TestReceive", p)>>)
      /\ receivers' = [receivers EXCEPT ![p] = @ + 1]
      /\ UNCHANGED <<kernelVars, lockVars, threadQueue, buffer, senders, message>>
  BY DEF EnterReceive
<1>2. /\ x \in PortSteps /\ p = ThePort /\ IsRunning(t) /\ pending[t] = <<x>> /\ MayDo(t, x)
      /\ y \in PortSteps /\ ~Sends(x) /\ ~Receives(x) /\ ~Sends(y) /\ Receives(y)
  BY <1>1, AtStep, Parts
<1>3. MayDo(t, y) /\ t \in Receivers /\ t \notin Senders
  BY <1>2, MayDoParts
<1>4. GoOn(t, <<y>>)
  BY <1>1, <1>2
<1> HIDE DEF x, y
<1>5. /\ LockInv' /\ ownerThread[ThePort] = t /\ ownerThread'[ThePort] = t
      /\ pending' \in [Threads -> Seq(Steps)] /\ CallShape(t)' /\ InCall(t, y)'
      /\ \A u \in Threads \ {t} : pending'[u] = pending[u]
      /\ \A c \in Conditions, z \in PortSteps : ~Popping(t, c, z)'
  BY <1>1, <1>2, <1>3, <1>4, GoesOn
<1>6. InCall(t, x)
  BY <1>2, InsideAlone
<1>7. ~InSend(t) /\ ~InSend(t)' /\ ~InReceive(t) /\ InReceive(t)'
  BY <1>2, <1>5, <1>6, PhaseOfCall, PhaseOfCallNext DEF Sends, Receives
<1>8. receivers[ThePort] \in Nat /\ receivers'[ThePort] = receivers[ThePort] + 1
  BY <1>1, <1>2, Names, InvTypes DEF PortType
<1>9. PortType'
  BY <1>1, <1>2, <1>5, <1>8, InvTypes DEF PortType
<1>10. receivers'[ThePort] > 0
  BY <1>8
<1>11. ClientInv' /\ \A u \in Threads \ {t} : InReceive(u)' <=> InReceive(u)
  BY <1>1, <1>3, <1>5, <1>7, <1>8, <1>9, <1>10, BusyStep
<1>12. t \notin Waiting /\ Waiting' = Waiting \cup {t}
  BY <1>7, <1>11 DEF Waiting
<1> QED
  BY <1>1, <1>3, <1>11, <1>12 DEF PortEffect, Arrives, InboxSame

LEMMA PutStep ==
    ASSUME ClientInv, NEW t \in Threads, NEW p \in Ports, PutMessage(t, p)
    PROVE  ClientInv' /\ PortEffect
<1> DEFINE x == Step("TestSend", ThePort)
           y == Step("Unlock", ThePort)
           c == receiverCondition(ThePort)
<1>1. /\ NextStep(t, "TestSend", p) /\ ~MustWaitToSend(p)
      /\ buffer' = [buffer EXCEPT ![p] = message[t]]
      /\ senders' = [senders EXCEPT ![p] = @ - 1]
      /\ UNCHANGED <<receivers, message>>
  BY DEF PutMessage
<1>2. /\ x \in PortSteps /\ p = ThePort /\ IsRunning(t) /\ pending[t] = <<x>> /\ MayDo(t, x)
      /\ y \in PortSteps /\ Sends(x) /\ ~Receives(x) /\ ~Sends(y) /\ ~Receives(y)
  BY <1>1, AtStep, Parts
<1>3. MayDo(t, y) /\ t \in Senders /\ t \notin Receivers
  BY <1>2, MayDoParts
<1>4. \/ StartSignal(t, c, "Pop", <<y>> \o Tail(pending[t]))
      \/ Release(t, ThePort) /\ Return(t) /\ UNCHANGED threadQueue
  BY <1>2 DEF PutMessage
<1> HIDE DEF x, y, c
<1>5. /\ InCall(t, x) /\ ownerThread[ThePort] = t
      /\ Tail(pending[t]) = <<>> /\ message[t] \in Messages
  BY <1>2, <1>3, InsideAlone
<1>6. <<y>> \o Tail(pending[t]) = <<y>>
  BY <1>5, ShortSequences
<1>7. /\ LockInv' /\ pending' \in [Threads -> Seq(Steps)] /\ UNCHANGED threadQueue
      /\ \A u \in Threads \ {t} : pending'[u] = pending[u]
      /\ InCall(t, y)' \/ pending'[t] = <<>>
      /\ Inside(t)' => ownerThread'[ThePort] = t
      /\ \A d \in Conditions, z \in PortSteps : Popping(t, d, z)' => threadQueue'[d] # <<>>
  <2>1. CASE StartSignal(t, c, "Pop", <<y>> \o Tail(pending[t]))
    <3>1. c \in Conditions
      BY Names DEF c
    <3>2. StartSignal(t, c, "Pop", <<y>>)
      BY <1>6, <2>1
    <3> QED
      BY <1>2, <1>5, <3>1, <3>2, SignalCall
  <2>2. CASE Release(t, ThePort) /\ Return(t) /\ UNCHANGED threadQueue
    BY <1>2, <2>2, ReleaseCall
  <2> QED
    BY <1>4, <2>1, <2>2
<1>8. CallShape(t)'
  BY <1>2, <1>3, <1>7 DEF CallShape, MayDo
<1>9. InSend(t) /\ ~InSend(t)' /\ ~InReceive(t) /\ ~InReceive(t)'
  BY <1>2, <1>5, <1>7, PhaseOfCall, PhaseOfCallNext DEF Sends, Receives
<1>10. /\ senders[ThePort] = Cardinality({u \in Threads : InSend(u)})
       /\ receivers[ThePort] = Cardinality(Waiting)
  BY DEF ClientInv, CountersMatch, Waiting
<1>11. senders[ThePort] - 1 \in Nat /\ senders'[ThePort] = senders[ThePort] - 1
  <2>1. {u \in Threads : InSend(u)} \in SUBSET Threads /\ {u \in Threads : InSend(u)} # {}
    BY <1>9
  <2>2. senders[ThePort] \in Nat /\ senders[ThePort] > 0
    BY <1>10, <2>1, CountPositive
  <2>3. senders'[ThePort] = senders[ThePort] - 1
    BY <1>1, <1>2, Names, InvTypes DEF PortType
  <2> QED
    BY <2>2, <2>3
<1>12. buffer[ThePort] = NoMessage /\ receivers[ThePort] > 0 /\ Waiting # {}
  <2>1. receivers[ThePort] \in Nat /\ receivers[ThePort] # 0 /\ Waiting \in SUBSET Threads
    BY <1>1, <1>2, Names, InvTypes DEF PortType, MustWaitToSend, Waiting
  <2> QED
    BY <1>1, <1>2, <1>10, <2>1, CountPositive DEF MustWaitToSend
<1>13. PortType' /\ buffer'[ThePort] = message[t]
  BY <1>1, <1>2, <1>5, <1>7, <1>11, Names, InvTypes DEF PortType
<1>14. ClientInv' /\ \A u \in Threads \ {t} : InReceive(u)' <=> InReceive(u)
  BY <1>1, <1>5, <1>7, <1>8, <1>9, <1>11, <1>12, <1>13, BusyStep
<1>15. Waiting' = Waiting
  BY <1>9, <1>14 DEF Waiting
<1>16. Puts(message[t])
  BY <1>1, <1>5, <1>12, <1>13, <1>15 DEF Puts, InboxSame
<1> QED
  BY <1>5, <1>14, <1>16 DEF PortEffect

LEMMA TakeMessageStep ==
    ASSUME ClientInv, NEW t \in Threads, NEW p \in Ports, TakeMessage(t, p)
    PROVE  ClientInv' /\ PortEffect
<1> DEFINE x == Step("TestReceive", ThePort)
<1>1. /\ NextStep(t, "TestReceive", p) /\ buffer[p] # NoMessage
      /\ message' = [message EXCEPT ![t] = buffer[p]]
      /\ buffer' = [buffer EXCEPT ![p] = NoMessage]
      /\ receivers' = [receivers EXCEPT ![p] = @ - 1]
      /\ Release(t, p) /\ Return(t) /\ UNCHANGED <<threadQueue, senders>>
  BY DEF TakeMessage
<1>2. /\ x \in PortSteps /\ p = ThePort /\ IsRunning(t) /\ pending[t] = <<x>> /\ MayDo(t, x)
      /\ ~Sends(x) /\ Receives(x)
  BY <1>1, AtStep, Parts
<1>3. t \in Receivers /\ t \notin Senders
  BY <1>2, MayDoParts
<1>4. Release(t, ThePort)
  BY <1>1, <1>2
<1> HIDE DEF x
<1>5. InCall(t, x)
  BY <1>2, InsideAlone
<1>6. /\ LockInv' /\ ownerThread[ThePort] = t
      /\ pending' \in [Threads -> Seq(Steps)] /\ pending'[t] = <<>>
      /\ \A u \in Threads \ {t} : pending'[u] = pending[u]
      /\ ~Inside(t)' /\ \A c \in Conditions, z \in PortSteps : ~Popping(t, c, z)'
  BY <1>1, <1>2, <1>4, ReleaseCall
<1>7. CallShape(t)'
  BY <1>6 DEF CallShape
<1>8. ~InSend(t) /\ ~InSend(t)' /\ InReceive(t) /\ ~InReceive(t)'
  BY <1>2, <1>5, <1>6, PhaseOfCall, PhaseOfCallNext
<1>9. receivers[ThePort] = Cardinality(Waiting) /\ t \in Waiting /\ Waiting \in SUBSET Threads
  BY <1>8 DEF ClientInv, CountersMatch, Waiting
<1>10. receivers[ThePort] - 1 \in Nat /\ receivers'[ThePort] = receivers[ThePort] - 1
  <2>1. receivers[ThePort] \in Nat /\ receivers[ThePort] > 0
    BY <1>9, CountPositive
  <2>2. receivers'[ThePort] = receivers[ThePort] - 1
    BY <1>1, <1>2, Names, InvTypes DEF PortType
  <2> QED
    BY <2>1, <2>2
<1>11. /\ buffer[ThePort] \in Messages \cup {NoMessage} /\ buffer[ThePort] # NoMessage
       /\ buffer'[ThePort] = NoMessage
  BY <1>1, <1>2, Names, InvTypes DEF PortType
<1>12. \A u \in Threads : message'[u] = IF u = t THEN buffer[ThePort] ELSE message[u]
  BY <1>1, <1>2, InvTypes
<1>13. PortType'
  BY <1>1, <1>2, <1>6, <1>10, <1>11, Names, InvTypes DEF PortType
<1>14. ClientInv' /\ \A u \in Threads \ {t} : InReceive(u)' <=> InReceive(u)
  BY <1>1, <1>6, <1>7, <1>8, <1>10, <1>11, <1>12, <1>13, BusyStep
<1>15. Waiting' = Waiting \ {t}
  BY <1>8, <1>14 DEF Waiting
<1>16. TakesMessage(t)
  BY <1>3, <1>9, <1>11, <1>12, <1>15, Names DEF TakesMessage
<1> QED
  BY <1>14, <1>16 DEF PortEffect

\* No client broadcasts.
LEMMA NoBroadcast ==
    ASSUME ClientInv, NEW t \in Threads, NEW c \in Conditions
    PROVE  ~PopAndContinue(t, c)
<1>1. CallShape(t)
  BY InvTypes
<1>2. PopAndContinue(t, c) => NextIs(t, Step("PopMore", c))
  BY DEF PopAndContinue, NextStep, NextIs, Step
<1> QED
  BY <1>1, <1>2, CallOfNext

LEMMA ClientStep == ClientInv /\ [Next]_vars => ClientInv' /\ PortEffect
<1> SUFFICES ASSUME ClientInv, [Next]_vars PROVE ClientInv' /\ PortEffect
  OBVIOUS
<1>1. ASSUME NEW t \in Threads, PortStep(t) PROVE ClientInv' /\ PortEffect
  <2>1. CASE \E p \in Ports :
               \/ EnterSend(t, p) \/ WaitToSend(t, p) \/ PutMessage(t, p) \/ Unlock(t, p)
               \/ EnterReceive(t, p) \/ SignalSender(t, p) \/ WaitToReceive(t, p)
               \/ TakeMessage(t, p)
    BY <2>1, EnterSendStep, WaitToSendStep, PutStep, UnlockStep, EnterReceiveStep,
       SignalSenderStep, WaitToReceiveStep, TakeMessageStep
  <2>2. CASE CallStep(t) /\ UNCHANGED <<portVars, message>>
    BY <2>2, SleepOnItemStep, ReacquireStep, OwnStep, PopStep, NoBroadcast DEF CallStep
  <2> QED
    BY <1>1, <2>1, <2>2 DEF PortStep
<1>2. CASE UNCHANGED vars
  <2>1. UNCHANGED <<kernelVars, lockVars, pending, threadQueue, portVars, message>>
    BY <1>2 DEF vars, syncVars
  <2>2. LockInv'
    <3>1. UNCHANGED <<cpuVars, semVars>> /\ priority' \in [Threads -> Nat]
      BY <2>1, InvTypes DEF kernelVars, LockInv, KernelInv, KernelTypeOK
    <3> QED
      BY <2>1, <3>1, InvTypes, SchedulerLockInv
  <2> QED
    BY <2>1, <2>2, CallsStay DEF lockVars
<1> QED
  BY <1>1, <1>2, ForkStep, SendStep, ReceiveStep, ScheduleStep DEF Next

\* To the kernel, each step is one of its operations.
LEMMA CallKernelStep ==
    ASSUME NEW t \in Threads, CallStep(t)
    PROVE  KernelStep
<1>1. ASSUME SleepOnItem(t) PROVE KernelStep
  BY <1>1, Names DEF SleepOnItem, NextStep, KernelStep
<1>2. ASSUME NEW l \in Locks, Reacquire(t, l) PROVE KernelStep
  BY <1>2, LockKernelStep DEF Reacquire, NextStep
<1>3. ASSUME NEW l \in Locks, FinishAcquire(t, l) PROVE KernelStep
  BY <1>3, LockKernelStep
<1>4. ASSUME NEW c \in Conditions, PopSignalled(t, c) \/ PopAndContinue(t, c)
      PROVE  KernelStep
  BY <1>4 DEF PopSignalled, PopAndContinue, kernelVars, cpuVars, semVars, KernelStep
<1> QED
  BY <1>1, <1>2, <1>3, <1>4 DEF CallStep

LEMMA NextKernelStep == [Next]_vars => KernelStep
<1> SUFFICES ASSUME [Next]_vars PROVE KernelStep
  OBVIOUS
<1>1. ASSUME NEW t \in Threads, NEW child \in Threads, ThreadFork(t, child)
      PROVE  KernelStep
  BY <1>1 DEF ThreadFork, KernelStep
<1>2. ASSUME NEW t \in Threads, ClientSend(t) \/ ClientReceive(t) PROVE KernelStep
  BY <1>2, Names, LockKernelStep
     DEF ClientSend, ClientReceive, Send, Receive, StartSend, StartReceive, InOwnCode
<1>3. ASSUME NEW t \in Threads, NEW p \in Ports, EnterSend(t, p) \/ EnterReceive(t, p)
      PROVE  KernelStep
  BY <1>3 DEF EnterSend, EnterReceive, kernelVars, cpuVars, semVars, KernelStep
<1>4. ASSUME NEW t \in Threads, NEW p \in Ports,
             \/ WaitToSend(t, p) \/ PutMessage(t, p) \/ Unlock(t, p)
             \/ SignalSender(t, p) \/ WaitToReceive(t, p) \/ TakeMessage(t, p)
      PROVE  KernelStep
  BY <1>4, Names, LockKernelStep
     DEF WaitToSend, PutMessage, Unlock, SignalSender, WaitToReceive, TakeMessage,
         StartWait, StartSignal, KernelStep
<1>5. CASE Schedule
  BY <1>5 DEF Schedule, SchedulerStep, KernelStep
<1>6. CASE UNCHANGED vars
  BY <1>6 DEF vars, syncVars, kernelVars, cpuVars, semVars, KernelStep
<1> QED
  BY <1>1, <1>2, <1>3, <1>4, <1>5, <1>6, CallKernelStep DEF Next, PortStep

LEMMA ClientInvariant == Spec => []ClientInv
<1>1. Init => ClientInv
  BY InitClientInv
<1>2. ClientInv /\ [Next]_vars => ClientInv'
  BY ClientStep
<1> QED
  BY <1>1, <1>2, PTL DEF Spec

-----------------------------------------------------------------------------
(* The theorems.                                                           *)

\* Through a whole Send or Receive, of any number of threads, the lock has one
\* holder, the counters count the threads inside, and a message in the buffer
\* has a receiver inside that will see it (synch.cc:191, 209).
THEOREM PortStaysInStep == Spec => []PortSafe
<1>1. ClientInv => PortSafe
  BY DEF ClientInv, CallInv, PortType, LockInv, LockType, KernelInv, PortSafe, TypeOK
<1> QED
  BY <1>1, ClientInvariant, PTL

\* Nothing of a thread's place in the kernel is lost on the way either.
THEOREM PortKernelStaysConsistent == Spec => [](OnePlace /\ ReadyListSorted /\ NoLostWakeup)
<1>1. /\ ClientInv /\ BlockedWaitsOnSemaphore => OnePlace /\ ReadyListSorted /\ NoLostWakeup
      /\ ClientInv => KernelInv
  BY OnePlaceParts DEF ClientInv, LockInv, KernelInv
<1>2. Init => BlockedWaitsOnSemaphore
  BY DEF Init, BlockedWaitsOnSemaphore
<1>3. ClientInv /\ BlockedWaitsOnSemaphore /\ [Next]_vars => BlockedWaitsOnSemaphore'
  BY <1>1, NextKernelStep, SleepersWait
<1> QED
  BY <1>1, <1>2, <1>3, ClientInvariant, PTL DEF Spec

\* The port implements the rendezvous that Join and Finish need of it: a message
\* is put only for a waiting receiver, is not overwritten, and one receiver
\* takes it.
THEOREM PortRefinement == Spec => ImplementsRendezvous
<1> DEFINE inbox == [t \in Receivers |-> message[t]]
<1>1. Init => Channel!Init
  <2> SUFFICES ASSUME Init PROVE Channel!Init
    OBVIOUS
  <2>1. Waiting = {}
    BY InitClientInv
  <2>2. buffer[ThePort] = NoMessage /\ inbox = [t \in Receivers |-> NoMessage]
    BY Names DEF Init
  <2> QED
    BY <2>1, <2>2 DEF Channel!Init, Waiting
<1>2. PortEffect => [Channel!Next]_<<buffer[ThePort], {t \in Threads : InReceive(t)}, inbox>>
  <2> SUFFICES ASSUME PortEffect
               PROVE  [Channel!Next]_<<buffer[ThePort], {t \in Threads : InReceive(t)}, inbox>>
    OBVIOUS
  <2>1. InboxSame => inbox' = inbox
    BY DEF InboxSame
  <2>2. CASE Nothing
    BY <2>1, <2>2 DEF Nothing, Waiting
  <2>3. ASSUME NEW t \in Threads, Arrives(t) PROVE Channel!Next
    <3>1. t \in Receivers /\ Channel!Arrive(t)
      BY <2>1, <2>3 DEF Arrives, Waiting, Channel!Arrive
    <3> QED
      BY <3>1 DEF Channel!Next
  <2>4. ASSUME NEW t \in Threads, TakesMessage(t) PROVE Channel!Next
    <3>1. inbox' = [inbox EXCEPT ![t] = buffer[ThePort]]
      BY <2>4 DEF TakesMessage
    <3>2. t \in Receivers /\ Channel!Take(t)
      BY <2>4, <3>1 DEF TakesMessage, Waiting, Channel!Take
    <3> QED
      BY <3>2 DEF Channel!Next
  <2>5. ASSUME NEW m \in Messages, Puts(m) PROVE Channel!Next
    <3>1. Channel!Put(m)
      BY <2>1, <2>5 DEF Puts, Waiting, Channel!Put
    <3> QED
      BY <3>1 DEF Channel!Next
  <2> QED
    BY <2>2, <2>3, <2>4, <2>5 DEF PortEffect
<1>3. ClientInv /\ [Next]_vars
        => [Channel!Next]_<<buffer[ThePort], {t \in Threads : InReceive(t)}, inbox>>
  BY <1>2, ClientStep
<1> QED
  BY <1>1, <1>3, ClientInvariant, PTL DEF Spec, ImplementsRendezvous, Channel!Spec


=============================================================================
