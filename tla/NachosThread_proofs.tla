------------------------- MODULE NachosThread_proofs -------------------------
(***************************************************************************)
(* Exec, Exit and Join, for any number of threads: ThreadsSafe, and the    *)
(* refinement of ProcessTree.                                              *)
(*                                                                         *)
(* Both rest on where every thread is in its Join or Finish, which pending *)
(* tells, and on the one thread that may still join each other thread.     *)
(***************************************************************************)
EXTENDS NachosThread, LockClients

-----------------------------------------------------------------------------
(* The calls a thread can be in.                                           *)

\* Step x and then the steps of q.
Cons(x, q) == <<x>> \o q

Delete(c) == Step("DeletePort", joinPort(c))
Die(t) == Step("Die", t)
Reacq(p) == Step("Reacquire", p)
SleepOf(t) == Step("Sleep", t)

SendNames == {"EnterSend", "TestSend"}
ReceiveNames == {"EnterReceive", "TestReceive", "WaitToReceive"}

Steps ==
    [step : {"Own", "Reacquire"}, of : Locks] \cup [step : {"Pop"}, of : Conditions]
        \cup [step : {"Sleep", "Finish", "Die"}, of : Threads]
        \cup [step : {"DeletePort", "Unlock"} \cup SendNames \cup ReceiveNames, of : Ports]

\* What t does after a Join: it returns to its own code, or to Finish.
AfterJoin(t) == IF t \in finishing THEN <<Step("Finish", t)>> ELSE <<>>

AfterReceive(t, c) == Cons(Delete(c), AfterJoin(t))

\* The Receive of c's status by t, and the Send of t's own, from a step on.
ReceiveFrom(t, c, s) == Cons(Step(s, joinPort(c)), AfterReceive(t, c))

SendFrom(t, s) == Cons(Step(s, joinPort(t)), <<Die(t)>>)

\* t is at the start of b, or has to acquire the lock of p before.
Acquires(t, p, b) ==
    \/ pending[t] = b
    \/ pending[t] = Cons(Own(p), b)
    \/ pending[t] = Cons(Reacq(p), b)
    \/ pending[t] = Cons(SleepOf(t), Cons(Reacq(p), b))

\* t is at the start of b, or has to pop the item it has signalled before.
Pops(t, c, b) == pending[t] = b \/ pending[t] = Cons(Step("Pop", c), b)

\* Where t is before it has the lock of p, and before it has signalled c.
EntryOf(t, p) ==
    {ReceiveFrom(t, c, s) : c \in {d \in Joinable : p = joinPort(d)},
                            s \in {"EnterReceive", "TestReceive"}}
        \cup {SendFrom(t, s) : s \in {n \in SendNames :
                                      t \in finishing /\ t \in Joinable /\ p = joinPort(t)}}

SignalOf(t, c) ==
    {ReceiveFrom(t, d, "WaitToReceive") :
            d \in {e \in Joinable : c = senderCondition(joinPort(e))}}
        \cup {SendFrom(t, s) : s \in {n \in {"Unlock"} :
                                      /\ t \in finishing /\ t \in Joinable
                                      /\ c = receiverCondition(joinPort(t))}}

Deleting(t, c) == pending[t] = AfterReceive(t, c)

Gone(t) == status[t] = "BLOCKED" /\ waitingOn[t] = NoSem

CallShape(t) ==
    \/ pending[t] = AfterJoin(t)
    \/ \E p \in Ports : \E b \in EntryOf(t, p) : Acquires(t, p, b)
    \/ \E c \in Conditions : \E b \in SignalOf(t, c) : Pops(t, c, b)
    \/ \E c \in Joinable : Deleting(t, c)
    \/ t \in finishing /\ t \in Joinable /\ pending[t] = <<Die(t)>>
    \/ t \in finishing /\ pending[t] = <<>> /\ Gone(t)

-----------------------------------------------------------------------------
(* The parts of the inductive invariant.                                   *)

LifeType ==
    /\ pending \in [Threads -> Seq(Steps)]
    /\ threadQueue \in [Conditions -> Seq(Threads)]
    /\ buffer \in [Ports -> Threads \cup {NoMessage}]
    /\ message \in [Threads -> Threads \cup {NoMessage}]
    /\ childrenToJoin \in [Threads -> SUBSET Joinable]
    /\ deletedPorts \subseteq Ports
    /\ halted \in BOOLEAN

CarcassInv ==
    /\ currentThread \in started /\ finishing \subseteq started /\ started \subseteq Threads
    /\ threadToBeDestroyed \in finishing \cup {NoThread}
    /\ threadSet \subseteq Threads

\* The steps between an Acquire of p's lock and the next Release.
InsideSteps(p) ==
    {Step(s, p) : s \in {"Unlock"} \cup SendNames \cup ReceiveNames}
        \cup {Step("Pop", senderCondition(p)), Step("Pop", receiverCondition(p))}

Inside(t, p) == \E x \in InsideSteps(p) : NextIs(t, x)

InsideOwn == \A t \in Threads, p \in Ports : Inside(t, p) => ownerThread[p] = t

\* The item that a Signal has still to pop is there.
PopQueued ==
    \A t \in Threads, c \in Conditions :
        NextIs(t, Step("Pop", c)) => threadQueue[c] # <<>>

StepsOf(t) == Range(pending[t])

\* t has still to put its status into its port.
InSend(t) == \E x \in StepsOf(t) : x.step \in SendNames

SendersReady ==
    \A t \in Threads : InSend(t) => message[t] \in Threads /\ childrenToJoin[t] = {}

CallInv == (\A t \in Threads : CallShape(t)) /\ InsideOwn /\ PopQueued /\ SendersReady

\* The children t receives from, and those whose port it has still to delete.
InJoins(t) == {c \in Joinable : \E x \in StepsOf(t) :
                                    x.step \in ReceiveNames /\ x.of = joinPort(c)}

JoinsOf(t) == {c \in Joinable : Delete(c) \in StepsOf(t)}

Kids(t) == childrenToJoin[t] \cup InJoins(t)

Owned(t) == childrenToJoin[t] \cup JoinsOf(t)

\* t's status is still to come.
Unsent(t) ==
    t \in finishing => \E x \in StepsOf(t) : x.step \in {"Finish"} \cup SendNames

\* t has nothing more to do with its port.
Done(t) == t \in finishing /\ pending[t] \in {<<>>, <<Die(t)>>}

IsNew(t) == status[t] = "JUST_CREATED"

\* One thread joins c, and its port exists as long as one may.
OneParent ==
    \A u \in Threads : \A c \in Owned(u) :
        /\ joinPort(c) \notin deletedPorts /\ ~IsNew(c)
        /\ \A v \in Threads : c \in Owned(v) => u = v

JoinedOnce == \A u \in Threads : childrenToJoin[u] \cap JoinsOf(u) = {}

\* Who has been received from needs its port no longer.
ReceivedAreDone ==
    \A u \in Threads : \A c \in JoinsOf(u) \ InJoins(u) : Done(c)

DeletedAreDone == \A c \in Joinable : joinPort(c) \in deletedPorts => Done(c)

\* Before it has sent its status a process is the child of another, and the
\* port is empty.
UnsentAreChildren ==
    \A c \in Joinable : Unsent(c) =>
        /\ buffer[joinPort(c)] = NoMessage
        /\ IsNew(c) \/ \E u \in Threads : c \in Kids(u)

NewAreUntouched ==
    \A t \in Threads : IsNew(t) => pending[t] = <<>> /\ t \notin finishing

TreeInv ==
    /\ OneParent /\ JoinedOnce /\ ReceivedAreDone /\ DeletedAreDone
    /\ UnsentAreChildren /\ NewAreUntouched

LifeInv == LockInv /\ LifeType /\ CarcassInv /\ CallInv /\ TreeInv

-----------------------------------------------------------------------------
(* Short sequences and names.                                              *)

LEMMA ConsProperties ==
    ASSUME NEW x \in Steps, NEW q \in Seq(Steps)
    PROVE  /\ Cons(x, q) \in Seq(Steps) /\ Cons(x, q) # <<>>
           /\ Head(Cons(x, q)) = x /\ Tail(Cons(x, q)) = q
           /\ Range(Cons(x, q)) = {x} \cup Range(q)
<1>1. /\ Cons(x, q) \in Seq(Steps) /\ Cons(x, q) # <<>>
      /\ Head(Cons(x, q)) = x /\ Tail(Cons(x, q)) = q
  BY NextStepOf DEF Cons
<1>2. /\ <<x>> \in Seq(Steps) /\ Len(<<x>>) = 1 /\ <<x>>[1] = x
      /\ Len(q) \in Nat /\ DOMAIN q = 1..Len(q)
  BY LenProperties
<1>3. /\ Len(Cons(x, q)) = 1 + Len(q) /\ Cons(x, q)[1] = x
      /\ \A i \in 1..1 + Len(q) : i # 1 => Cons(x, q)[i] = q[i - 1]
      /\ DOMAIN Cons(x, q) = 1..1 + Len(q)
  BY <1>2, ConcatProperties, LenProperties DEF Cons
<1>4. Range(Cons(x, q)) \subseteq {x} \cup Range(q)
  <2> SUFFICES ASSUME NEW i \in 1..1 + Len(q)
               PROVE  Cons(x, q)[i] \in {x} \cup Range(q)
    BY <1>3 DEF Range
  <2>1. i = 1 \/ i - 1 \in 1..Len(q)
    BY <1>2
  <2> QED
    BY <1>2, <1>3, <2>1 DEF Range
<1>5. {x} \cup Range(q) \subseteq Range(Cons(x, q))
  <2>1. x \in Range(Cons(x, q))
    BY <1>2, <1>3 DEF Range
  <2>2. ASSUME NEW i \in 1..Len(q) PROVE q[i] \in Range(Cons(x, q))
    <3>1. i + 1 \in 1..1 + Len(q) /\ i + 1 # 1 /\ (i + 1) - 1 = i
      BY <1>2
    <3>2. Cons(x, q)[i + 1] = q[i]
      BY <1>3, <3>1
    <3> QED
      BY <1>3, <3>1, <3>2 DEF Range
  <2> QED
    BY <1>2, <2>1, <2>2 DEF Range
<1> QED
  BY <1>1, <1>4, <1>5

LEMMA OneStep ==
    ASSUME NEW x \in Steps
    PROVE  /\ <<x>> \in Seq(Steps) /\ <<x>> # <<>> /\ Head(<<x>>) = x /\ Tail(<<x>>) = <<>>
           /\ Range(<<x>>) = {x} /\ Cons(x, <<>>) = <<x>>
<1>1. Range(<<x>>) = {x}
  <2>1. DOMAIN <<x>> = {1} /\ <<x>>[1] = x
    OBVIOUS
  <2> QED
    BY <2>1 DEF Range
<1> QED
  BY <1>1, ShortSequences DEF Cons

LEMMA NoStep == <<>> \in Seq(Steps) /\ Range(<<>>) = {}
<1>1. <<>> \in Seq(Steps) /\ DOMAIN <<>> = {}
  OBVIOUS
<1> QED
  BY <1>1 DEF Range

LEMMA TwoInFront ==
    ASSUME NEW x \in Steps, NEW y \in Steps, NEW q \in Seq(Steps)
    PROVE  <<x, y>> \o q = Cons(x, Cons(y, q))
<1> DEFINE n == Len(q)
           s == <<x, y>> \o q
           r == Cons(x, Cons(y, q))
<1>1. /\ <<x, y>> \in Seq(Steps) /\ Len(<<x, y>>) = 2
      /\ <<x, y>>[1] = x /\ <<x, y>>[2] = y
      /\ <<x>> \in Seq(Steps) /\ Len(<<x>>) = 1 /\ <<x>>[1] = x
      /\ <<y>> \in Seq(Steps) /\ Len(<<y>>) = 1 /\ <<y>>[1] = y
      /\ n \in Nat
  BY LenProperties
<1>2. /\ Cons(y, q) \in Seq(Steps) /\ Len(Cons(y, q)) = 1 + n
      /\ \A i \in 1..1 + n : Cons(y, q)[i] = IF i <= 1 THEN <<y>>[i] ELSE q[i - 1]
  BY <1>1, ConcatProperties DEF Cons
<1>3. /\ r \in Seq(Steps) /\ Len(r) = 2 + n
      /\ \A i \in 1..2 + n : r[i] = IF i <= 1 THEN <<x>>[i] ELSE Cons(y, q)[i - 1]
  <2>1. 1 + (1 + n) = 2 + n
    BY <1>1
  <2> QED
    BY <1>1, <1>2, <2>1, ConcatProperties DEF Cons
<1>4. /\ s \in Seq(Steps) /\ Len(s) = 2 + n
      /\ \A i \in 1..2 + n : s[i] = IF i <= 2 THEN <<x, y>>[i] ELSE q[i - 2]
  BY <1>1, ConcatProperties
<1> HIDE DEF s, r
<1>5. ASSUME NEW i \in 1..2 + n PROVE s[i] = r[i]
  <2>1. i = 1 \/ i = 2 \/ (i \notin {1, 2} /\ ~(i <= 2) /\ ~(i <= 1) /\ ~(i - 1 <= 1) /\ i - 1 \in 1..1 + n)
    BY <1>1
  <2>2. CASE i = 1
    BY <1>1, <1>3, <1>4, <2>2
  <2>3. CASE i = 2
    <3>1. 2 \in 1..2 + n /\ 1 \in 1..1 + n
      BY <1>1
    <3>2. s[2] = y
      BY <1>1, <1>4, <3>1
    <3>3. r[2] = Cons(y, q)[1] /\ Cons(y, q)[1] = y
      BY <1>1, <1>2, <1>3, <3>1
    <3> QED
      BY <2>3, <3>2, <3>3
  <2>4. CASE ~(i <= 2) /\ ~(i <= 1) /\ ~(i - 1 <= 1) /\ i - 1 \in 1..1 + n
    <3>1. (i - 1) - 1 = i - 2
      OBVIOUS
    <3>2. s[i] = q[i - 2] /\ r[i] = Cons(y, q)[i - 1]
      BY <1>3, <1>4, <2>4
    <3>3. Cons(y, q)[i - 1] = q[(i - 1) - 1]
      BY <1>2, <2>4
    <3> QED
      BY <3>1, <3>2, <3>3
  <2> QED
    BY <2>1, <2>2, <2>3, <2>4
<1>6. s \in [1..2 + n -> Steps] /\ r \in [1..2 + n -> Steps]
  BY <1>3, <1>4, LenProperties
<1>7. s = r
  BY <1>5, <1>6
<1> QED
  BY <1>7 DEF s, r

LEMMA PortNames ==
    /\ \A c \in Joinable :
        /\ c \in Threads /\ joinPort(c) \in Ports
        /\ joinPort(c) \in Locks /\ joinPort(c) \in Semaphores /\ joinPort(c) \notin Threads
    /\ \A p \in Ports :
        /\ p \in Locks /\ p \notin Threads /\ \E c \in Joinable : p = joinPort(c)
        /\ senderCondition(p) \in Conditions /\ receiverCondition(p) \in Conditions
        /\ senderCondition(p) \notin Threads /\ receiverCondition(p) \notin Threads
        /\ senderCondition(p) # receiverCondition(p)
        /\ senderCondition(p) \notin Ports /\ receiverCondition(p) \notin Ports
    /\ \A c, d : joinPort(c) = joinPort(d) => c = d
    /\ \A p, q : senderCondition(p) = senderCondition(q) => p = q
    /\ \A p, q : receiverCondition(p) = receiverCondition(q) => p = q
    /\ \A p, q : senderCondition(p) # receiverCondition(q)
    /\ \A t \in Threads : t \in Semaphores \ Locks
    /\ Locks = Ports /\ NoMessage \notin Threads /\ MainThread \in Threads
<1>1. /\ \A c, d : joinPort(c) = joinPort(d) => c = d
      /\ \A p, q : senderCondition(p) = senderCondition(q) => p = q
      /\ \A p, q : receiverCondition(p) = receiverCondition(q) => p = q
      /\ \A p, q : senderCondition(p) # receiverCondition(q)
      /\ \A p, c : senderCondition(p) # joinPort(c) /\ receiverCondition(p) # joinPort(c)
  BY DEF joinPort, senderCondition, receiverCondition
<1>2. Ports = {joinPort(t) : t \in Joinable} /\ Locks = Ports /\ Joinable \subseteq Threads
  BY ThreadAssumption DEF JoinPorts, Joinable
<1> QED
  BY <1>1, <1>2, KernelAssumption, ThreadAssumption, PortAssumption, ConditionAssumption,
     LockAssumption

\* The steps, told apart by their names.
LEMMA StepFields ==
    /\ \A s, o : Step(s, o).step = s /\ Step(s, o).of = o
    /\ \A s, o, r, u : Step(s, o) = Step(r, u) <=> s = r /\ o = u
    /\ \A l : Own(l) = Step("Own", l)
BY DEF Step, Own

LEMMA StepTypes ==
    /\ \A p \in Ports : Own(p) \in Steps /\ Reacq(p) \in Steps
    /\ \A t \in Threads : SleepOf(t) \in Steps /\ Die(t) \in Steps /\ Step("Finish", t) \in Steps
    /\ \A c \in Conditions : Step("Pop", c) \in Steps
    /\ \A p \in Ports : \A s \in {"DeletePort", "Unlock"} \cup SendNames \cup ReceiveNames :
        Step(s, p) \in Steps
    /\ \A c \in Joinable : Delete(c) \in Steps
<1>1. Locks = Ports
  BY PortNames
<1>2. \A c \in Joinable : joinPort(c) \in Ports
  BY PortNames
<1> QED
  BY <1>1, <1>2 DEF Steps, Own, Reacq, SleepOf, Die, Delete, Step

\* The rests of a Join, and what they consist of.
LEMMA RestTypes ==
    ASSUME NEW t \in Threads
    PROVE  /\ AfterJoin(t) \in Seq(Steps)
           /\ Range(AfterJoin(t)) = IF t \in finishing THEN {Step("Finish", t)} ELSE {}
           /\ \A c \in Joinable :
                /\ AfterReceive(t, c) \in Seq(Steps) /\ AfterReceive(t, c) # <<>>
                /\ Head(AfterReceive(t, c)) = Delete(c)
                /\ Tail(AfterReceive(t, c)) = AfterJoin(t)
                /\ Range(AfterReceive(t, c)) = {Delete(c)} \cup Range(AfterJoin(t))
<1>1. /\ AfterJoin(t) \in Seq(Steps)
      /\ Range(AfterJoin(t)) = IF t \in finishing THEN {Step("Finish", t)} ELSE {}
  <2>1. Step("Finish", t) \in Steps
    BY StepTypes
  <2> QED
    BY <2>1, OneStep, NoStep DEF AfterJoin
<1>2. ASSUME NEW c \in Joinable
      PROVE  /\ AfterReceive(t, c) \in Seq(Steps) /\ AfterReceive(t, c) # <<>>
             /\ Head(AfterReceive(t, c)) = Delete(c)
             /\ Tail(AfterReceive(t, c)) = AfterJoin(t)
             /\ Range(AfterReceive(t, c)) = {Delete(c)} \cup Range(AfterJoin(t))
  <2>1. Delete(c) \in Steps
    BY StepTypes
  <2> QED
    BY <1>1, <2>1, ConsProperties DEF AfterReceive
<1> QED
  BY <1>1, <1>2

LEMMA ReceiveTypes ==
    ASSUME NEW t \in Threads, NEW c \in Joinable, NEW s \in ReceiveNames
    PROVE  /\ ReceiveFrom(t, c, s) \in Seq(Steps) /\ ReceiveFrom(t, c, s) # <<>>
           /\ Head(ReceiveFrom(t, c, s)) = Step(s, joinPort(c))
           /\ Tail(ReceiveFrom(t, c, s)) = AfterReceive(t, c)
           /\ Range(ReceiveFrom(t, c, s))
                = {Step(s, joinPort(c)), Delete(c)} \cup Range(AfterJoin(t))
<1>1. Step(s, joinPort(c)) \in Steps
  BY StepTypes, PortNames
<1>2. /\ AfterReceive(t, c) \in Seq(Steps)
      /\ Range(AfterReceive(t, c)) = {Delete(c)} \cup Range(AfterJoin(t))
  BY RestTypes
<1>3. PICK x \in Steps, q \in Seq(Steps) :
        x = Step(s, joinPort(c)) /\ q = AfterReceive(t, c) /\ ReceiveFrom(t, c, s) = Cons(x, q)
  BY <1>1, <1>2 DEF ReceiveFrom
<1>4. /\ Cons(x, q) \in Seq(Steps) /\ Cons(x, q) # <<>>
      /\ Head(Cons(x, q)) = x /\ Tail(Cons(x, q)) = q
      /\ Range(Cons(x, q)) = {x} \cup Range(q)
  BY ConsProperties
<1> QED
  BY <1>2, <1>3, <1>4

LEMMA SendTypes ==
    ASSUME NEW t \in Joinable, NEW s \in {"Unlock"} \cup SendNames
    PROVE  /\ SendFrom(t, s) \in Seq(Steps) /\ SendFrom(t, s) # <<>>
           /\ Head(SendFrom(t, s)) = Step(s, joinPort(t))
           /\ Tail(SendFrom(t, s)) = <<Die(t)>>
           /\ Range(SendFrom(t, s)) = {Step(s, joinPort(t)), Die(t)}
<1>1. Step(s, joinPort(t)) \in Steps /\ Die(t) \in Steps
  BY StepTypes, PortNames
<1>2. <<Die(t)>> \in Seq(Steps) /\ Range(<<Die(t)>>) = {Die(t)}
  BY <1>1, OneStep
<1> QED
  BY <1>1, <1>2, ConsProperties DEF SendFrom

\* The bodies of a call begin with a step on the port, inside its lock.
LEMMA EntryParts ==
    ASSUME NEW t \in Threads, NEW p \in Ports, NEW b \in EntryOf(t, p)
    PROVE  /\ b \in Seq(Steps) /\ b # <<>>
           /\ \/ \E c \in Joinable, s \in {"EnterReceive", "TestReceive"} :
                    p = joinPort(c) /\ b = ReceiveFrom(t, c, s)
              \/ \E s \in SendNames : /\ t \in finishing /\ t \in Joinable
                                      /\ p = joinPort(t) /\ b = SendFrom(t, s)
<1>1. CASE \E c \in Joinable, s \in {"EnterReceive", "TestReceive"} :
                p = joinPort(c) /\ b = ReceiveFrom(t, c, s)
  BY <1>1, ReceiveTypes DEF ReceiveNames
<1>2. CASE \E s \in SendNames : /\ t \in finishing /\ t \in Joinable
                                /\ p = joinPort(t) /\ b = SendFrom(t, s)
  BY <1>2, SendTypes
<1> QED
  BY <1>1, <1>2 DEF EntryOf

LEMMA SignalParts ==
    ASSUME NEW t \in Threads, NEW c \in Conditions, NEW b \in SignalOf(t, c)
    PROVE  /\ b \in Seq(Steps) /\ b # <<>>
           /\ \/ \E d \in Joinable :
                    c = senderCondition(joinPort(d)) /\ b = ReceiveFrom(t, d, "WaitToReceive")
              \/ /\ t \in finishing /\ t \in Joinable
                 /\ c = receiverCondition(joinPort(t)) /\ b = SendFrom(t, "Unlock")
<1>1. CASE \E d \in Joinable :
                c = senderCondition(joinPort(d)) /\ b = ReceiveFrom(t, d, "WaitToReceive")
  BY <1>1, ReceiveTypes DEF ReceiveNames
<1>2. CASE /\ t \in finishing /\ t \in Joinable
           /\ c = receiverCondition(joinPort(t)) /\ b = SendFrom(t, "Unlock")
  BY <1>2, SendTypes
<1> QED
  BY <1>1, <1>2 DEF SignalOf

\* Where a thread is in a call with body b, by its next step.
LEMMA AcquiresParts ==
    ASSUME NEW t \in Threads, NEW p \in Ports, NEW b \in Seq(Steps), b # <<>>,
           Acquires(t, p, b)
    PROVE  /\ pending[t] # <<>>
           /\ \/ pending[t] = b
              \/ /\ pending[t] = Cons(Own(p), b)
                 /\ Head(pending[t]) = Own(p) /\ Tail(pending[t]) = b
              \/ /\ pending[t] = Cons(Reacq(p), b)
                 /\ Head(pending[t]) = Reacq(p) /\ Tail(pending[t]) = b
              \/ /\ pending[t] = Cons(SleepOf(t), Cons(Reacq(p), b))
                 /\ Head(pending[t]) = SleepOf(t) /\ Tail(pending[t]) = Cons(Reacq(p), b)
           /\ Range(b) \subseteq StepsOf(t)
           /\ StepsOf(t) \subseteq Range(b) \cup {Own(p), Reacq(p), SleepOf(t)}
<1>1. Own(p) \in Steps /\ Reacq(p) \in Steps /\ SleepOf(t) \in Steps
  BY StepTypes
<1>2. Cons(Reacq(p), b) \in Seq(Steps)
  BY <1>1, ConsProperties
<1>3. CASE pending[t] = b
  BY <1>3 DEF StepsOf
<1>4. CASE pending[t] = Cons(Own(p), b)
  <2>1. /\ Cons(Own(p), b) # <<>>
        /\ Head(Cons(Own(p), b)) = Own(p) /\ Tail(Cons(Own(p), b)) = b
        /\ Range(Cons(Own(p), b)) = {Own(p)} \cup Range(b)
    BY <1>1, ConsProperties
  <2> QED
    BY <1>4, <2>1 DEF StepsOf
<1>5. CASE pending[t] = Cons(Reacq(p), b)
  <2>1. /\ Cons(Reacq(p), b) # <<>>
        /\ Head(Cons(Reacq(p), b)) = Reacq(p) /\ Tail(Cons(Reacq(p), b)) = b
        /\ Range(Cons(Reacq(p), b)) = {Reacq(p)} \cup Range(b)
    BY <1>1, ConsProperties
  <2> QED
    BY <1>5, <2>1 DEF StepsOf
<1>6. CASE pending[t] = Cons(SleepOf(t), Cons(Reacq(p), b))
  <2>1. Range(Cons(Reacq(p), b)) = {Reacq(p)} \cup Range(b)
    BY <1>1, ConsProperties
  <2>2. /\ Cons(SleepOf(t), Cons(Reacq(p), b)) # <<>>
        /\ Head(Cons(SleepOf(t), Cons(Reacq(p), b))) = SleepOf(t)
        /\ Tail(Cons(SleepOf(t), Cons(Reacq(p), b))) = Cons(Reacq(p), b)
        /\ Range(Cons(SleepOf(t), Cons(Reacq(p), b)))
             = {SleepOf(t)} \cup Range(Cons(Reacq(p), b))
    BY <1>1, <1>2, ConsProperties
  <2> QED
    BY <1>6, <2>1, <2>2 DEF StepsOf
<1> QED
  BY <1>3, <1>4, <1>5, <1>6 DEF Acquires

LEMMA PopsParts ==
    ASSUME NEW t \in Threads, NEW c \in Conditions, NEW b \in Seq(Steps), b # <<>>,
           Pops(t, c, b)
    PROVE  /\ pending[t] # <<>>
           /\ \/ pending[t] = b
              \/ /\ pending[t] = Cons(Step("Pop", c), b)
                 /\ Head(pending[t]) = Step("Pop", c) /\ Tail(pending[t]) = b
           /\ Range(b) \subseteq StepsOf(t)
           /\ StepsOf(t) \subseteq Range(b) \cup {Step("Pop", c)}
<1>1. Step("Pop", c) \in Steps
  BY StepTypes
<1>2. CASE pending[t] = b
  BY <1>2 DEF StepsOf
<1>3. CASE pending[t] = Cons(Step("Pop", c), b)
  BY <1>1, <1>3, ConsProperties DEF StepsOf
<1> QED
  BY <1>2, <1>3 DEF Pops

\* The next step says which call a thread is in, and how far it is.
NextSaysCall(t) ==
    /\ \A s \in ReceiveNames : \A p : NextIs(t, Step(s, p)) =>
          \E c \in Joinable : p = joinPort(c) /\ pending[t] = ReceiveFrom(t, c, s)
    /\ \A s \in {"Unlock"} \cup SendNames : \A p : NextIs(t, Step(s, p)) =>
          /\ t \in finishing /\ t \in Joinable /\ p = joinPort(t)
          /\ pending[t] = SendFrom(t, s)
    /\ \A l : NextIs(t, Own(l)) =>
          l \in Ports /\ \E b \in EntryOf(t, l) : pending[t] = Cons(Own(l), b)
    /\ \A l : NextIs(t, Reacq(l)) =>
          l \in Ports /\ \E b \in EntryOf(t, l) : pending[t] = Cons(Reacq(l), b)
    /\ \A u : NextIs(t, SleepOf(u)) =>
          /\ u = t
          /\ \E p \in Ports : \E b \in EntryOf(t, p) :
                pending[t] = Cons(SleepOf(t), Cons(Reacq(p), b))
    /\ \A c : NextIs(t, Step("Pop", c)) =>
          c \in Conditions /\ \E b \in SignalOf(t, c) : pending[t] = Cons(Step("Pop", c), b)
    /\ \A c : ~NextIs(t, Step("PopMore", c))
    /\ \A p : NextIs(t, Step("DeletePort", p)) =>
          \E c \in Joinable : p = joinPort(c) /\ Deleting(t, c)
    /\ \A u : NextIs(t, Step("Finish", u)) =>
          u = t /\ t \in finishing /\ pending[t] = <<Step("Finish", t)>>
    /\ \A u : NextIs(t, Step("Die", u)) =>
          u = t /\ t \in finishing /\ t \in Joinable /\ pending[t] = <<Die(t)>>

LEMMA CallOfNext ==
    ASSUME NEW t \in Threads, CallShape(t)
    PROVE  NextSaysCall(t)
<1>1. CASE pending[t] = AfterJoin(t)
  <2>1. CASE t \notin finishing
    BY <1>1, <2>1 DEF AfterJoin, NextSaysCall, NextIs
  <2>2. CASE t \in finishing
    <3>1. pending[t] = <<Step("Finish", t)>> /\ Head(pending[t]) = Step("Finish", t)
      BY <1>1, <2>2, ShortSequences DEF AfterJoin
    <3> QED
      BY <2>2, <3>1, StepFields
         DEF NextSaysCall, NextIs, SendNames, ReceiveNames, Reacq, SleepOf
  <2> QED
    BY <2>1, <2>2
<1>2. ASSUME NEW p \in Ports, NEW b \in EntryOf(t, p), Acquires(t, p, b)
      PROVE  NextSaysCall(t)
  <2>1. /\ b \in Seq(Steps) /\ b # <<>>
        /\ \/ \E c \in Joinable, s \in {"EnterReceive", "TestReceive"} :
                 p = joinPort(c) /\ b = ReceiveFrom(t, c, s)
           \/ \E s \in SendNames : /\ t \in finishing /\ t \in Joinable
                                   /\ p = joinPort(t) /\ b = SendFrom(t, s)
    BY EntryParts
  <2>2. \/ pending[t] = b
        \/ pending[t] = Cons(Own(p), b) /\ Head(pending[t]) = Own(p)
        \/ pending[t] = Cons(Reacq(p), b) /\ Head(pending[t]) = Reacq(p)
        \/ /\ pending[t] = Cons(SleepOf(t), Cons(Reacq(p), b))
           /\ Head(pending[t]) = SleepOf(t)
    BY <1>2, <2>1, AcquiresParts
  <2>3. ASSUME NEW c \in Joinable, NEW s \in {"EnterReceive", "TestReceive"},
               p = joinPort(c), pending[t] = ReceiveFrom(t, c, s)
        PROVE  NextSaysCall(t)
    <3>1. Head(pending[t]) = Step(s, joinPort(c))
      BY <2>3, ReceiveTypes DEF ReceiveNames
    <3> QED
      BY <2>3, <3>1, StepFields
         DEF NextSaysCall, NextIs, SendNames, ReceiveNames, Reacq, SleepOf
  <2>4. ASSUME NEW s \in SendNames, t \in finishing, t \in Joinable, p = joinPort(t),
               pending[t] = SendFrom(t, s)
        PROVE  NextSaysCall(t)
    <3>1. Head(pending[t]) = Step(s, joinPort(t))
      BY <2>4, SendTypes
    <3> QED
      BY <2>4, <3>1, StepFields
         DEF NextSaysCall, NextIs, SendNames, ReceiveNames, Reacq, SleepOf
  <2>5. CASE pending[t] = Cons(Own(p), b) /\ Head(pending[t]) = Own(p)
    BY <2>5, StepFields DEF NextSaysCall, NextIs, SendNames, ReceiveNames, Reacq, SleepOf
  <2>6. CASE pending[t] = Cons(Reacq(p), b) /\ Head(pending[t]) = Reacq(p)
    BY <2>6, StepFields DEF NextSaysCall, NextIs, SendNames, ReceiveNames, Reacq, SleepOf
  <2>7. CASE pending[t] = Cons(SleepOf(t), Cons(Reacq(p), b)) /\ Head(pending[t]) = SleepOf(t)
    BY <2>7, StepFields DEF NextSaysCall, NextIs, SendNames, ReceiveNames, Reacq, SleepOf
  <2> QED
    BY <2>1, <2>2, <2>3, <2>4, <2>5, <2>6, <2>7
<1>3. ASSUME NEW c \in Conditions, NEW b \in SignalOf(t, c), Pops(t, c, b)
      PROVE  NextSaysCall(t)
  <2>1. /\ b \in Seq(Steps) /\ b # <<>>
        /\ \/ \E d \in Joinable :
                c = senderCondition(joinPort(d)) /\ b = ReceiveFrom(t, d, "WaitToReceive")
           \/ /\ t \in finishing /\ t \in Joinable
              /\ c = receiverCondition(joinPort(t)) /\ b = SendFrom(t, "Unlock")
    BY SignalParts
  <2>2. \/ pending[t] = b
        \/ pending[t] = Cons(Step("Pop", c), b) /\ Head(pending[t]) = Step("Pop", c)
    BY <1>3, <2>1, PopsParts
  <2>3. ASSUME NEW d \in Joinable, pending[t] = ReceiveFrom(t, d, "WaitToReceive")
        PROVE  NextSaysCall(t)
    <3>1. Head(pending[t]) = Step("WaitToReceive", joinPort(d))
      BY <2>3, ReceiveTypes DEF ReceiveNames
    <3> QED
      BY <2>3, <3>1, StepFields
         DEF NextSaysCall, NextIs, SendNames, ReceiveNames, Reacq, SleepOf
  <2>4. ASSUME t \in finishing, t \in Joinable, pending[t] = SendFrom(t, "Unlock")
        PROVE  NextSaysCall(t)
    <3>1. Head(pending[t]) = Step("Unlock", joinPort(t))
      BY <2>4, SendTypes
    <3> QED
      BY <2>4, <3>1, StepFields
         DEF NextSaysCall, NextIs, SendNames, ReceiveNames, Reacq, SleepOf
  <2>5. CASE pending[t] = Cons(Step("Pop", c), b) /\ Head(pending[t]) = Step("Pop", c)
    BY <2>5, StepFields DEF NextSaysCall, NextIs, SendNames, ReceiveNames, Reacq, SleepOf
  <2> QED
    BY <2>1, <2>2, <2>3, <2>4, <2>5
<1>4. ASSUME NEW c \in Joinable, Deleting(t, c) PROVE NextSaysCall(t)
  <2>1. Head(pending[t]) = Step("DeletePort", joinPort(c))
    BY <1>4, RestTypes DEF Deleting, Delete
  <2> QED
    BY <1>4, <2>1, StepFields DEF NextSaysCall, NextIs, SendNames, ReceiveNames, Reacq, SleepOf
<1>5. CASE t \in finishing /\ t \in Joinable /\ pending[t] = <<Die(t)>>
  <2>1. Head(pending[t]) = Step("Die", t)
    BY <1>5, ShortSequences DEF Die
  <2> QED
    BY <1>5, <2>1, StepFields DEF NextSaysCall, NextIs, SendNames, ReceiveNames, Reacq, SleepOf
<1>6. CASE pending[t] = <<>>
  BY <1>6 DEF NextSaysCall, NextIs
<1> QED
  BY <1>1, <1>2, <1>3, <1>4, <1>5, <1>6 DEF CallShape

-----------------------------------------------------------------------------
(* What a call says of its thread's part in the tree of processes.         *)

Role(t, joins, receives) == JoinsOf(t) = joins /\ InJoins(t) = receives

Receives(t, c) == Role(t, {c}, {c}) /\ ~InSend(t) /\ Unsent(t) /\ ~Done(t)
Deletes(t, c) == Role(t, {c}, {}) /\ ~InSend(t) /\ Unsent(t) /\ ~Done(t)
AtHome(t) == Role(t, {}, {}) /\ ~InSend(t) /\ Unsent(t) /\ ~Done(t)
Sends(t) == Role(t, {}, {}) /\ InSend(t) /\ Unsent(t) /\ ~Done(t)
Leaves(t) == Role(t, {}, {}) /\ ~InSend(t) /\ ~Unsent(t) /\ ~Done(t)
Ended(t) == Role(t, {}, {}) /\ ~InSend(t) /\ ~Unsent(t) /\ Done(t)

\* The steps that come before the body of a call say nothing of it.
Before(x) == x.step \in {"Own", "Reacquire", "Sleep", "Pop"}

LEMMA ReceivingRole ==
    ASSUME NEW t \in Threads, NEW c \in Joinable, NEW s \in ReceiveNames,
           Range(ReceiveFrom(t, c, s)) \subseteq StepsOf(t),
           \A x \in StepsOf(t) : x \in Range(ReceiveFrom(t, c, s)) \/ Before(x)
    PROVE  Receives(t, c)
<1>1. Range(ReceiveFrom(t, c, s)) = {Step(s, joinPort(c)), Delete(c)} \cup Range(AfterJoin(t))
  BY ReceiveTypes
<1>2. Range(AfterJoin(t)) = IF t \in finishing THEN {Step("Finish", t)} ELSE {}
  BY RestTypes
<1>3. /\ Step(s, joinPort(c)) \in StepsOf(t) /\ Delete(c) \in StepsOf(t)
      /\ t \in finishing => Step("Finish", t) \in StepsOf(t)
      /\ \A x \in StepsOf(t) : \/ x = Step(s, joinPort(c)) \/ x = Delete(c)
                               \/ x = Step("Finish", t) \/ Before(x)
  BY <1>1, <1>2
<1>4. \A d : joinPort(d) = joinPort(c) => d = c
  BY PortNames
<1>5. InJoins(t) = {c}
  BY <1>3, <1>4, StepFields DEF InJoins, Delete, ReceiveNames, Before
<1>6. JoinsOf(t) = {c}
  BY <1>3, <1>4, StepFields DEF JoinsOf, Delete, ReceiveNames, Before
<1>7. ~InSend(t)
  BY <1>3, StepFields DEF InSend, Delete, SendNames, ReceiveNames, Before
<1>8. Unsent(t)
  BY <1>3, StepFields DEF Unsent
<1>9. ~Done(t)
  <2>1. Range(<<>>) = {} /\ Range(<<Die(t)>>) = {Die(t)}
    BY NoStep, OneStep, StepTypes
  <2>2. Delete(c) # Die(t)
    BY StepFields DEF Delete, Die
  <2> QED
    BY <1>3, <2>1, <2>2 DEF Done, StepsOf
<1> QED
  BY <1>5, <1>6, <1>7, <1>8, <1>9 DEF Receives, Role

LEMMA SendingRole ==
    ASSUME NEW t \in Joinable, NEW s \in {"Unlock"} \cup SendNames, t \in finishing,
           Range(SendFrom(t, s)) \subseteq StepsOf(t),
           \A x \in StepsOf(t) : x \in Range(SendFrom(t, s)) \/ Before(x)
    PROVE  (s \in SendNames => Sends(t)) /\ (s = "Unlock" => Leaves(t))
<1>1. Range(SendFrom(t, s)) = {Step(s, joinPort(t)), Die(t)}
  BY SendTypes
<1>2. /\ Step(s, joinPort(t)) \in StepsOf(t) /\ Die(t) \in StepsOf(t)
      /\ \A x \in StepsOf(t) : x = Step(s, joinPort(t)) \/ x = Die(t) \/ Before(x)
  BY <1>1
<1>3. InJoins(t) = {}
  BY <1>2, StepFields DEF InJoins, Die, ReceiveNames, SendNames, Before
<1>4. JoinsOf(t) = {}
  BY <1>2, StepFields DEF JoinsOf, Die, Delete, SendNames, Before
<1>5. InSend(t) <=> s \in SendNames
  BY <1>2, StepFields DEF InSend, Die, SendNames, Before
<1>6. Unsent(t) <=> s \in SendNames
  BY <1>2, StepFields DEF Unsent, Die, SendNames, Before
<1>7. ~Done(t)
  <2>1. Range(<<>>) = {} /\ Range(<<Die(t)>>) = {Die(t)}
    BY NoStep, OneStep, StepTypes DEF Joinable
  <2>2. Step(s, joinPort(t)) # Die(t)
    BY StepFields DEF Die, SendNames
  <2> QED
    BY <1>2, <2>1, <2>2 DEF Done, StepsOf
<1>8. "Unlock" \notin SendNames
  BY DEF SendNames
<1> QED
  BY <1>3, <1>4, <1>5, <1>6, <1>7, <1>8 DEF Sends, Leaves, Role

LEMMA HomeRole ==
    ASSUME NEW t \in Threads, pending[t] = AfterJoin(t)
    PROVE  AtHome(t)
<1>1. StepsOf(t) = IF t \in finishing THEN {Step("Finish", t)} ELSE {}
  BY RestTypes DEF StepsOf
<1>2. InJoins(t) = {} /\ JoinsOf(t) = {}
  BY <1>1, StepFields DEF InJoins, JoinsOf, ReceiveNames, Delete
<1>3. ~InSend(t) /\ Unsent(t)
  BY <1>1, StepFields DEF InSend, Unsent, SendNames
<1>4. ~Done(t)
  <2>1. Range(<<>>) = {} /\ Range(<<Die(t)>>) = {Die(t)}
    BY NoStep, OneStep, StepTypes
  <2>2. Step("Finish", t) # Die(t)
    BY StepFields DEF Die
  <2> QED
    BY <1>1, <2>1, <2>2 DEF Done, StepsOf
<1> QED
  BY <1>2, <1>3, <1>4 DEF AtHome, Role

LEMMA DeletingRole ==
    ASSUME NEW t \in Threads, NEW c \in Joinable, Deleting(t, c)
    PROVE  Deletes(t, c)
<1>1. StepsOf(t) = {Delete(c)} \cup IF t \in finishing THEN {Step("Finish", t)} ELSE {}
  BY RestTypes DEF StepsOf, Deleting
<1>2. \A d : joinPort(d) = joinPort(c) => d = c
  BY PortNames
<1>3. InJoins(t) = {} /\ JoinsOf(t) = {c}
  BY <1>1, <1>2, StepFields DEF InJoins, JoinsOf, ReceiveNames, Delete
<1>4. ~InSend(t) /\ Unsent(t)
  BY <1>1, StepFields DEF InSend, Unsent, SendNames, Delete
<1>5. ~Done(t)
  <2>1. Range(<<>>) = {} /\ Range(<<Die(t)>>) = {Die(t)}
    BY NoStep, OneStep, StepTypes
  <2>2. Delete(c) # Die(t)
    BY StepFields DEF Die, Delete
  <2> QED
    BY <1>1, <2>1, <2>2 DEF Done, StepsOf
<1> QED
  BY <1>3, <1>4, <1>5 DEF Deletes, Role

LEMMA EndedRole ==
    ASSUME NEW t \in Threads, t \in finishing, pending[t] = <<>> \/ pending[t] = <<Die(t)>>
    PROVE  Ended(t)
<1>1. StepsOf(t) \subseteq {Die(t)}
  BY NoStep, OneStep, StepTypes DEF StepsOf
<1>2. InJoins(t) = {} /\ JoinsOf(t) = {}
  BY <1>1, StepFields DEF InJoins, JoinsOf, ReceiveNames, Delete, Die
<1>3. ~InSend(t) /\ ~Unsent(t)
  BY <1>1, StepFields DEF InSend, Unsent, SendNames, Die
<1> QED
  BY <1>2, <1>3 DEF Ended, Role, Done

RoleFacts(t) ==
    /\ pending[t] = AfterJoin(t) => AtHome(t)
    /\ \A c \in Joinable : \A s \in {"EnterReceive", "TestReceive"} :
            Acquires(t, joinPort(c), ReceiveFrom(t, c, s)) => Receives(t, c)
    /\ \A c \in Joinable :
            Pops(t, senderCondition(joinPort(c)), ReceiveFrom(t, c, "WaitToReceive"))
                => Receives(t, c)
    /\ t \in finishing /\ t \in Joinable =>
        /\ \A s \in SendNames : Acquires(t, joinPort(t), SendFrom(t, s)) => Sends(t)
        /\ Pops(t, receiverCondition(joinPort(t)), SendFrom(t, "Unlock")) => Leaves(t)
    /\ \A c \in Joinable : Deleting(t, c) => Deletes(t, c)
    /\ t \in finishing /\ (pending[t] = <<>> \/ pending[t] = <<Die(t)>>) => Ended(t)

LEMMA RoleOfCall == \A t \in Threads : RoleFacts(t)
<1> SUFFICES ASSUME NEW t \in Threads PROVE RoleFacts(t)
  OBVIOUS
<1>1. \A p \in Ports : Before(Own(p)) /\ Before(Reacq(p)) /\ Before(SleepOf(t))
  BY StepFields DEF Before, Reacq, SleepOf
<1>2. \A c : Before(Step("Pop", c))
  BY StepFields DEF Before
<1>3. ASSUME NEW c \in Joinable, NEW s \in {"EnterReceive", "TestReceive"},
             Acquires(t, joinPort(c), ReceiveFrom(t, c, s))
      PROVE  Receives(t, c)
  <2>1. s \in ReceiveNames /\ joinPort(c) \in Ports
    BY PortNames DEF ReceiveNames
  <2>2. ReceiveFrom(t, c, s) \in Seq(Steps) /\ ReceiveFrom(t, c, s) # <<>>
    BY <2>1, ReceiveTypes
  <2>3. /\ Range(ReceiveFrom(t, c, s)) \subseteq StepsOf(t)
        /\ StepsOf(t) \subseteq Range(ReceiveFrom(t, c, s))
             \cup {Own(joinPort(c)), Reacq(joinPort(c)), SleepOf(t)}
    BY <1>3, <2>1, <2>2, AcquiresParts
  <2> QED
    BY <1>1, <2>1, <2>3, ReceivingRole
<1>4. ASSUME NEW c \in Joinable,
             Pops(t, senderCondition(joinPort(c)), ReceiveFrom(t, c, "WaitToReceive"))
      PROVE  Receives(t, c)
  <2>1. "WaitToReceive" \in ReceiveNames /\ senderCondition(joinPort(c)) \in Conditions
    BY PortNames DEF ReceiveNames
  <2>2. /\ ReceiveFrom(t, c, "WaitToReceive") \in Seq(Steps)
        /\ ReceiveFrom(t, c, "WaitToReceive") # <<>>
    BY <2>1, ReceiveTypes
  <2>3. /\ Range(ReceiveFrom(t, c, "WaitToReceive")) \subseteq StepsOf(t)
        /\ StepsOf(t) \subseteq Range(ReceiveFrom(t, c, "WaitToReceive"))
             \cup {Step("Pop", senderCondition(joinPort(c)))}
    BY <1>4, <2>1, <2>2, PopsParts
  <2> QED
    BY <1>2, <2>1, <2>3, ReceivingRole
<1>5. ASSUME t \in finishing, t \in Joinable, NEW s \in SendNames,
             Acquires(t, joinPort(t), SendFrom(t, s))
      PROVE  Sends(t)
  <2>1. s \in {"Unlock"} \cup SendNames /\ joinPort(t) \in Ports
    BY <1>5, PortNames
  <2>2. SendFrom(t, s) \in Seq(Steps) /\ SendFrom(t, s) # <<>>
    BY <1>5, <2>1, SendTypes
  <2>3. /\ Range(SendFrom(t, s)) \subseteq StepsOf(t)
        /\ StepsOf(t) \subseteq Range(SendFrom(t, s))
             \cup {Own(joinPort(t)), Reacq(joinPort(t)), SleepOf(t)}
    BY <1>5, <2>1, <2>2, AcquiresParts
  <2> QED
    BY <1>1, <1>5, <2>1, <2>3, SendingRole
<1>6. ASSUME t \in finishing, t \in Joinable,
             Pops(t, receiverCondition(joinPort(t)), SendFrom(t, "Unlock"))
      PROVE  Leaves(t)
  <2>1. "Unlock" \in {"Unlock"} \cup SendNames /\ receiverCondition(joinPort(t)) \in Conditions
    BY <1>6, PortNames
  <2>2. SendFrom(t, "Unlock") \in Seq(Steps) /\ SendFrom(t, "Unlock") # <<>>
    BY <1>6, <2>1, SendTypes
  <2>3. /\ Range(SendFrom(t, "Unlock")) \subseteq StepsOf(t)
        /\ StepsOf(t) \subseteq Range(SendFrom(t, "Unlock"))
             \cup {Step("Pop", receiverCondition(joinPort(t)))}
    BY <1>6, <2>1, <2>2, PopsParts
  <2> QED
    BY <1>2, <1>6, <2>1, <2>3, SendingRole
<1> QED
  BY <1>3, <1>4, <1>5, <1>6, HomeRole, DeletingRole, EndedRole DEF RoleFacts

LEMMA RoleOfCallNext == (\A t \in Threads : RoleFacts(t))'
BY RoleOfCall, PTL

\* What the next step of t says of its place in the calls.
NextOf(t) ==
    /\ pending[t] = <<>> => /\ \A x : ~NextIs(t, x)
                            /\ InNoAcquire(t) /\ \A p \in Ports : ~Inside(t, p)
    /\ \A x : NextIs(t, x) =>
        /\ x.step # "Own" => InNoAcquire(t)
        /\ x.step # "Pop" => \A c : ~NextIs(t, Step("Pop", c))
        /\ \A c : NextIs(t, Step("Pop", c)) => x = Step("Pop", c)
        /\ \A p \in Ports : Inside(t, p) => x \in InsideSteps(p)

LEMMA PlaceOfNext == \A t : NextOf(t)
BY StepFields DEF NextOf, NextIs, InNoAcquire, Inside

LEMMA PlaceOfNextNext == (\A t : NextOf(t))'
BY PlaceOfNext, PTL

\* The conditions to pop from belong to a port whose lock the popping thread owns.
LEMMA PopsInside ==
    ASSUME NEW t \in Threads, CallShape(t), NEW c, NextIs(t, Step("Pop", c))
    PROVE  /\ c \in Conditions
           /\ \E p \in Ports : c \in {senderCondition(p), receiverCondition(p)} /\ Inside(t, p)
<1>1. c \in Conditions /\ \E b \in SignalOf(t, c) : TRUE
  BY CallOfNext DEF NextSaysCall
<1>2. PICK b \in SignalOf(t, c) : TRUE
  BY <1>1
<1>3. \E d \in Joinable :
            c = senderCondition(joinPort(d)) \/ c = receiverCondition(joinPort(d))
  BY <1>1, <1>2, SignalParts
<1>4. PICK p \in Ports : c \in {senderCondition(p), receiverCondition(p)}
  BY <1>3, PortNames
<1> QED
  BY <1>1, <1>4 DEF Inside, InsideSteps

-----------------------------------------------------------------------------
(* What a step does to the kernel's view of the threads: no thread becomes *)
(* new, and none comes back from its last sleep.                           *)

GoneStay == \A u \in Threads : Gone(u) => Gone(u)'

NewSame == \A u \in Threads : IsNew(u)' <=> IsNew(u)

LEMMA HeadOfReadyList ==
    ASSUME KernelInv, readyList # <<>>
    PROVE  Head(readyList).item \in Threads /\ status[Head(readyList).item] = "READY"
BY RemoveHeadProperties DEF KernelInv, KernelTypeOK, Placed, ReadyListHoldsReady

LEMMA SleepStatus ==
    ASSUME KernelInv, NEW t \in Threads, status[t] = "RUNNING", Sleep(t)
    PROVE  /\ \A u \in Threads \ {t} : \/ status'[u] = status[u]
                                       \/ status[u] = "READY" /\ status'[u] = "RUNNING"
           /\ status'[t] = "BLOCKED"
<1>1. status \in [Threads -> ThreadStatus]
  BY DEF KernelInv, KernelTypeOK
<1>2. CASE readyList = <<>> /\ status' = [status EXCEPT ![t] = "BLOCKED"]
  BY <1>1, <1>2
<1>3. CASE readyList # <<>> /\ Run(readyList, [status EXCEPT ![t] = "BLOCKED"])
  <2>1. PICK h \in Threads : h = Head(readyList).item /\ status[h] = "READY"
    BY <1>3, HeadOfReadyList
  <2>2. status' = [[status EXCEPT ![t] = "BLOCKED"] EXCEPT ![h] = "RUNNING"]
    BY <1>3, <2>1 DEF Run
  <2>3. h # t
    BY <2>1
  <2> QED
    BY <1>1, <2>1, <2>2, <2>3
<1> QED
  BY <1>2, <1>3 DEF Sleep, Run

LEMMA StatusAtP ==
    ASSUME KernelInv, NEW t \in Threads, status[t] = "RUNNING", NEW s, TestValue(t, s)
    PROVE  GoneStay /\ NewSame
<1>1. /\ status \in [Threads -> ThreadStatus]
      /\ waitingOn \in [Threads -> Semaphores \cup {NoSem}]
  BY DEF KernelInv, KernelTypeOK
<1>2. \A u \in Threads \ {t} : waitingOn'[u] = waitingOn[u]
  BY <1>1 DEF TestValue, TakeUnit, EnqueueAndSleep
<1>3. CASE TakeUnit(t, s)
  BY <1>1, <1>2, <1>3 DEF TakeUnit, cpuVars, GoneStay, NewSame, Gone, IsNew
<1>4. CASE EnqueueAndSleep(t, s)
  <2>1. /\ \A u \in Threads \ {t} : \/ status'[u] = status[u]
                                    \/ status[u] = "READY" /\ status'[u] = "RUNNING"
        /\ status'[t] = "BLOCKED"
    BY <1>4, SleepStatus DEF EnqueueAndSleep
  <2> QED
    BY <1>2, <2>1 DEF GoneStay, NewSame, Gone, IsNew
<1> QED
  BY <1>3, <1>4 DEF TestValue

LEMMA StatusAtV ==
    ASSUME KernelInv, NEW s \in Semaphores, V(s)
    PROVE  GoneStay /\ NewSame
<1>1. /\ status \in [Threads -> ThreadStatus] /\ UNCHANGED waitingOn
      /\ queue[s] \in Seq(Threads)
  BY DEF KernelInv, KernelTypeOK, V
<1>2. CASE UNCHANGED status
  BY <1>1, <1>2 DEF GoneStay, NewSame, Gone, IsNew
<1>3. CASE queue[s] # <<>> /\ status' = [status EXCEPT ![Head(queue[s])] = "READY"]
  <2>1. PICK h \in Threads : h = Head(queue[s]) /\ h \in Range(queue[s])
    BY <1>1, <1>3, DequeueProperties
  <2>2. status[h] = "BLOCKED" /\ waitingOn[h] = s /\ s # NoSem
    BY <2>1, KernelAssumption DEF KernelInv, Placed, QueueHoldsBlocked
  <2>3. status' = [status EXCEPT ![h] = "READY"]
    BY <1>3, <2>1
  <2> QED
    BY <1>1, <2>2, <2>3 DEF GoneStay, NewSame, Gone, IsNew
<1> QED
  BY <1>2, <1>3 DEF V

LEMMA StatusAtYield ==
    ASSUME KernelInv, NEW t \in Threads, Yield(t)
    PROVE  GoneStay /\ NewSame
<1>1. /\ status \in [Threads -> ThreadStatus] /\ UNCHANGED waitingOn
      /\ readyList # <<>> /\ status[t] = "RUNNING"
  BY DEF KernelInv, KernelTypeOK, Yield, Run, IsRunning, semVars
<1>2. PICK h \in Threads : h = Head(readyList).item /\ status[h] = "READY"
  BY <1>1, HeadOfReadyList
<1>3. status' = [[status EXCEPT ![t] = "READY"] EXCEPT ![h] = "RUNNING"]
  BY <1>2 DEF Yield, Run
<1> QED
  BY <1>1, <1>2, <1>3 DEF GoneStay, NewSame, Gone, IsNew

LEMMA StatusSame ==
    ASSUME UNCHANGED <<status, waitingOn>>
    PROVE  GoneStay /\ NewSame
BY DEF GoneStay, NewSame, Gone, IsNew

\* The end of Scheduler::Run keeps the carcass and the threads in order.
LEMMA SwitchCarcass ==
    ASSUME CarcassInv, KernelInv', finishing' = finishing,
           NEW dead \in finishing \cup {NoThread}, NEW threads \in SUBSET Threads,
           AfterSwitch(dead, threads)
    PROVE  CarcassInv'
<1>1. /\ currentThread' \in Threads /\ started' = started \cup {currentThread'}
      /\ threadToBeDestroyed' \in {dead, NoThread}
      /\ threadSet' \in {threads, threads \ {dead}}
  BY DEF KernelInv, KernelTypeOK, AfterSwitch
<1> QED
  BY <1>1 DEF CarcassInv

LEMMA NothingDiedCarcass ==
    ASSUME CarcassInv, KernelInv', finishing' = finishing, NothingDied
    PROVE  CarcassInv'
<1>1. threadToBeDestroyed \in finishing \cup {NoThread} /\ threadSet \in SUBSET Threads
  BY DEF CarcassInv
<1> QED
  BY <1>1, SwitchCarcass DEF NothingDied

-----------------------------------------------------------------------------
(* A step of t and the calls of the others.                                *)

\* What a call needs besides its shape.
InCallWell(t) ==
    /\ CallShape(t)
    /\ InSend(t) => message[t] \in Threads /\ childrenToJoin[t] = {}
    /\ \A p \in Ports : Inside(t, p) => ownerThread[p] = t
    /\ \A c \in Conditions : NextIs(t, Step("Pop", c)) => threadQueue[c] # <<>>

LEMMA CallInvParts == CallInv <=> \A t \in Threads : InCallWell(t)
BY DEF CallInv, InCallWell, SendersReady, InsideOwn, PopQueued

LEMMA CallInvPartsNext == CallInv' <=> \A t \in Threads : InCallWell(t)'
BY DEF CallInv, InCallWell, SendersReady, InsideOwn, PopQueued

SameRole(u) ==
    /\ JoinsOf(u)' = JoinsOf(u) /\ InJoins(u)' = InJoins(u)
    /\ Unsent(u)' <=> Unsent(u)
    /\ Done(u)' <=> Done(u)

\* What a step of t leaves to the others.
OthersKept(t) ==
    \A u \in Threads \ {t} :
        /\ pending'[u] = pending[u] /\ message'[u] = message[u]
        /\ childrenToJoin'[u] = childrenToJoin[u]
        /\ u \in finishing' <=> u \in finishing
        /\ Gone(u) => Gone(u)'

\* The owner of a port's lock keeps it, and the items in the port's queues.
OwnersKept(t) ==
    \A u \in Threads \ {t}, p \in Ports : ownerThread[p] = u =>
        /\ ownerThread'[p] = u
        /\ \A c \in {senderCondition(p), receiverCondition(p)} :
              threadQueue[c] # <<>> => threadQueue'[c] # <<>>

LEMMA ShapeStays ==
    ASSUME NEW u \in Threads, pending'[u] = pending[u], u \in finishing' <=> u \in finishing,
           Gone(u) => Gone(u)', CallShape(u)
    PROVE  CallShape(u)'
<1>1. AfterJoin(u)' = AfterJoin(u)
  BY DEF AfterJoin
<1>2. \A c : AfterReceive(u, c)' = AfterReceive(u, c)
  BY <1>1 DEF AfterReceive
<1>3. \A c, s : ReceiveFrom(u, c, s)' = ReceiveFrom(u, c, s)
  BY <1>2 DEF ReceiveFrom
<1>4. \A p : EntryOf(u, p)' = EntryOf(u, p)
  BY <1>3 DEF EntryOf
<1>5. \A c : SignalOf(u, c)' = SignalOf(u, c)
  BY <1>3 DEF SignalOf
<1>6. CASE pending[u] = AfterJoin(u)
  BY <1>1, <1>6 DEF CallShape
<1>7. ASSUME NEW p \in Ports, NEW b \in EntryOf(u, p), Acquires(u, p, b)
      PROVE  CallShape(u)'
  <2>1. b \in EntryOf(u, p)' /\ Acquires(u, p, b)'
    BY <1>4, <1>7 DEF Acquires
  <2> QED
    BY <2>1 DEF CallShape
<1>8. ASSUME NEW c \in Conditions, NEW b \in SignalOf(u, c), Pops(u, c, b)
      PROVE  CallShape(u)'
  <2>1. b \in SignalOf(u, c)' /\ Pops(u, c, b)'
    BY <1>5, <1>8 DEF Pops
  <2> QED
    BY <2>1 DEF CallShape
<1>9. ASSUME NEW c \in Joinable, Deleting(u, c)
      PROVE  CallShape(u)'
  <2>1. Deleting(u, c)'
    BY <1>2, <1>9 DEF Deleting
  <2> QED
    BY <2>1 DEF CallShape
<1>10. CASE u \in finishing /\ u \in Joinable /\ pending[u] = <<Die(u)>>
  BY <1>10 DEF CallShape
<1>11. CASE u \in finishing /\ pending[u] = <<>> /\ Gone(u)
  BY <1>11 DEF CallShape
<1> QED
  BY <1>6, <1>7, <1>8, <1>9, <1>10, <1>11 DEF CallShape

LEMMA RoleStays ==
    ASSUME NEW u \in Threads, pending'[u] = pending[u], u \in finishing' <=> u \in finishing
    PROVE  /\ SameRole(u) /\ (InSend(u)' <=> InSend(u))
           /\ \A x : NextIs(u, x)' <=> NextIs(u, x)
           /\ \A p : Inside(u, p)' <=> Inside(u, p)
<1>1. StepsOf(u)' = StepsOf(u)
  BY DEF StepsOf
<1>2. \A x : NextIs(u, x)' <=> NextIs(u, x)
  BY DEF NextIs
<1>3. Done(u)' <=> Done(u)
  BY DEF Done
<1> QED
  BY <1>1, <1>2, <1>3 DEF SameRole, JoinsOf, InJoins, Unsent, InSend, Inside

LEMMA CallInvStep ==
    ASSUME CallInv, NEW t \in Threads, InCallWell(t)', OthersKept(t), OwnersKept(t)
    PROVE  CallInv' /\ \A u \in Threads \ {t} : SameRole(u)
<1>1. ASSUME NEW u \in Threads \ {t} PROVE InCallWell(u)' /\ SameRole(u)
  <2>1. /\ pending'[u] = pending[u] /\ message'[u] = message[u]
        /\ childrenToJoin'[u] = childrenToJoin[u]
        /\ u \in finishing' <=> u \in finishing
        /\ Gone(u) => Gone(u)'
    BY DEF OthersKept
  <2>2. /\ SameRole(u) /\ (InSend(u)' <=> InSend(u))
        /\ \A x : NextIs(u, x)' <=> NextIs(u, x)
        /\ \A p : Inside(u, p)' <=> Inside(u, p)
    BY <2>1, RoleStays
  <2>3. InCallWell(u)
    BY CallInvParts
  <2>4. CallShape(u)'
    BY <2>1, <2>3, ShapeStays DEF InCallWell
  <2>5. \A p \in Ports : Inside(u, p)' => ownerThread'[p] = u
    BY <2>2, <2>3 DEF InCallWell, OwnersKept
  <2>6. ASSUME NEW c \in Conditions, NextIs(u, Step("Pop", c))'
        PROVE  threadQueue'[c] # <<>>
    <3>1. NextIs(u, Step("Pop", c)) /\ CallShape(u)
      BY <2>2, <2>3, <2>6 DEF InCallWell
    <3>2. threadQueue[c] # <<>>
      BY <2>3, <3>1 DEF InCallWell
    <3>3. PICK p \in Ports : c \in {senderCondition(p), receiverCondition(p)} /\ Inside(u, p)
      BY <3>1, PopsInside
    <3>4. ownerThread[p] = u
      BY <2>3, <3>3 DEF InCallWell
    <3> QED
      BY <3>2, <3>3, <3>4 DEF OwnersKept
  <2>7. InSend(u)' => message'[u] \in Threads /\ childrenToJoin'[u] = {}
    BY <2>1, <2>2, <2>3 DEF InCallWell
  <2> QED
    BY <2>2, <2>4, <2>5, <2>6, <2>7 DEF InCallWell
<1> QED
  BY <1>1, CallInvPartsNext

-----------------------------------------------------------------------------
(* The tree of processes, in terms of the invariant.                       *)

KidsPhase(t) ==
    IF t = MainThread THEN "alive"
    ELSE IF IsNew(t) THEN "new"
    ELSE IF buffer[joinPort(t)] # NoMessage THEN "exited"
    ELSE IF \E u \in Threads : t \in Kids(u) THEN "alive"
    ELSE "joined"

LEMMA TreeByKids ==
    LifeType => \A t \in Threads : Children(t) = Kids(t) /\ Phase(t) = KidsPhase(t)
<1> SUFFICES ASSUME LifeType
             PROVE  \A t \in Threads : Children(t) = Kids(t) /\ Phase(t) = KidsPhase(t)
  OBVIOUS
<1>1. ASSUME NEW t \in Threads PROVE Children(t) = Kids(t)
  <2>1. DOMAIN pending[t] = 1..Len(pending[t])
    BY LenProperties DEF LifeType
  <2>2. \A c : InJoin(t, c) <=> \E x \in StepsOf(t) : x.step \in ReceiveNames /\ x.of = joinPort(c)
    BY <2>1 DEF InJoin, StepsOf, Range, ReceiveNames
  <2>3. {c \in Joinable : InJoin(t, c)} = InJoins(t)
    BY <2>2 DEF InJoins
  <2> QED
    BY <2>3 DEF Children, Kids
<1>2. \A t \in Threads : Phase(t) = KidsPhase(t)
  BY <1>1 DEF Phase, KidsPhase, IsNew
<1> QED
  BY <1>1, <1>2

LEMMA TreeByKidsNext ==
    (LifeType => \A t \in Threads : Children(t) = Kids(t) /\ Phase(t) = KidsPhase(t))'
BY TreeByKids, PTL

\* What a step does to the tree.
KidsSame(u) == Kids(u)' = Kids(u)
PhaseSame(u) == KidsPhase(u)' = KidsPhase(u)

TreeStutters == \A u \in Threads : KidsSame(u) /\ PhaseSame(u)

Execs(t, c) ==
    /\ KidsPhase(t) = "alive" /\ KidsPhase(c) = "new" /\ KidsPhase(c)' = "alive"
    /\ \A u \in Threads \ {c} : PhaseSame(u)
    /\ Kids(t)' = Kids(t) \cup {c} /\ \A u \in Threads \ {t} : KidsSame(u)

Exits(t) ==
    /\ t # MainThread /\ Kids(t) = {}
    /\ KidsPhase(t) = "alive" /\ KidsPhase(t)' = "exited"
    /\ \A u \in Threads \ {t} : PhaseSame(u)
    /\ \A u \in Threads : KidsSame(u)

Joins(t, c) ==
    /\ KidsPhase(t) = "alive" /\ c \in Kids(t)
    /\ KidsPhase(c) = "exited" /\ KidsPhase(c)' = "joined"
    /\ \A u \in Threads \ {c} : PhaseSame(u)
    /\ Kids(t)' = Kids(t) \ {c} /\ \A u \in Threads \ {t} : KidsSame(u)

TreeEffect ==
    \/ TreeStutters
    \/ \E t \in Threads : Exits(t) \/ \E c \in Threads : Execs(t, c) \/ Joins(t, c)

\* The rest of what TreeInv needs of the threads other than t.
OthersInTree(t) ==
    \A u \in Threads \ {t} :
        /\ SameRole(u) /\ childrenToJoin'[u] = childrenToJoin[u]
        /\ pending'[u] = pending[u]
        /\ u \in finishing' <=> u \in finishing

LEMMA KidsOfOthers ==
    ASSUME NEW t \in Threads, OthersInTree(t)
    PROVE  \A u \in Threads \ {t} :
             Kids(u)' = Kids(u) /\ Owned(u)' = Owned(u) /\ InJoins(u)' = InJoins(u)
             /\ JoinsOf(u)' = JoinsOf(u) /\ childrenToJoin'[u] = childrenToJoin[u]
             /\ (Done(u)' <=> Done(u)) /\ (Unsent(u)' <=> Unsent(u))
BY DEF OthersInTree, SameRole, Kids, Owned

\* Only Joinable threads are owned, and what is received is owned.
LEMMA OwnedTypes ==
    ASSUME LifeType, NEW u \in Threads
    PROVE  /\ JoinsOf(u) \subseteq Joinable /\ InJoins(u) \subseteq Joinable
           /\ childrenToJoin[u] \subseteq Joinable
           /\ Owned(u) \subseteq Joinable /\ Joinable \subseteq Threads
BY DEF LifeType, JoinsOf, InJoins, Owned, Joinable

\* What a step that creates no child leaves of TreeInv.
LEMMA TreeParts ==
    ASSUME LifeType, TreeInv, NEW t \in Threads, ~IsNew(t), OthersInTree(t), NewSame,
           Owned(t)' \subseteq Owned(t), Done(t) => Done(t)',
           \A d \in Owned(t)' : joinPort(d) \notin deletedPorts',
           \A c \in Joinable : joinPort(c) \in deletedPorts' =>
                joinPort(c) \in deletedPorts \/ (Done(c) /\ c \in Owned(t)),
           childrenToJoin'[t] \cap JoinsOf(t)' = {},
           \A c \in JoinsOf(t)' \ InJoins(t)' : Done(c)
    PROVE  OneParent' /\ JoinedOnce' /\ ReceivedAreDone' /\ DeletedAreDone' /\ NewAreUntouched'
<1>1. /\ \A u \in Threads : Owned(u)' \subseteq Owned(u) /\ (Done(u) => Done(u)')
      /\ \A u \in Threads : IsNew(u)' <=> IsNew(u)
  BY KidsOfOthers DEF NewSame
<1>2. Joinable \subseteq Threads /\ \A u \in Threads : Owned(u) \subseteq Joinable
  BY OwnedTypes
<1>3. OneParent'
  <2>1. ASSUME NEW u \in Threads, NEW d \in Owned(u)'
        PROVE  /\ joinPort(d) \notin deletedPorts' /\ ~IsNew(d)'
               /\ \A v \in Threads : d \in Owned(v)' => u = v
    <3>1. d \in Owned(u) /\ d \in Joinable /\ d \in Threads
      BY <1>1, <1>2
    <3>2. \A v \in Threads : d \in Owned(v) => u = v
      BY <3>1 DEF TreeInv, OneParent
    <3>3. joinPort(d) \notin deletedPorts'
      BY <3>1, <3>2, <2>1 DEF TreeInv, OneParent
    <3> QED
      BY <1>1, <3>1, <3>2, <3>3 DEF TreeInv, OneParent
  <2> QED
    BY <2>1 DEF OneParent
<1>4. JoinedOnce'
  BY KidsOfOthers DEF TreeInv, JoinedOnce
<1>5. ReceivedAreDone'
  <2>1. ASSUME NEW u \in Threads, NEW d \in JoinsOf(u)' \ InJoins(u)' PROVE Done(d)'
    <3>1. Done(d)
      BY <2>1, KidsOfOthers DEF TreeInv, ReceivedAreDone
    <3>2. d \in Threads
      BY <1>2, <2>1 DEF JoinsOf
    <3> QED
      BY <1>1, <3>1, <3>2
  <2> QED
    BY <2>1 DEF ReceivedAreDone
<1>6. DeletedAreDone'
  BY <1>1, <1>2 DEF TreeInv, DeletedAreDone
<1>7. NewAreUntouched'
  BY <1>1 DEF TreeInv, NewAreUntouched, OthersInTree
<1> QED
  BY <1>3, <1>4, <1>5, <1>6, <1>7

\* A step of t that leaves every process the children it has to join.
QuietInTree(t) ==
    /\ Kids(t)' = Kids(t) /\ Owned(t)' = Owned(t)
    /\ childrenToJoin'[t] \cap JoinsOf(t)' = {}
    /\ JoinsOf(t)' \ InJoins(t)' \subseteq JoinsOf(t) \ InJoins(t)
    /\ Unsent(t)' => Unsent(t)
    /\ Done(t) => Done(t)'

LEMMA QuietTree ==
    ASSUME LifeType, TreeInv, NEW t \in Threads, ~IsNew(t), OthersInTree(t), NewSame,
           UNCHANGED <<buffer, deletedPorts>>, QuietInTree(t)
    PROVE  TreeInv' /\ TreeStutters
<1>1. \A u \in Threads : Kids(u)' = Kids(u) /\ (Unsent(u)' => Unsent(u))
  BY KidsOfOthers DEF QuietInTree
<1>2. Joinable \subseteq Threads /\ \A u \in Threads : IsNew(u)' <=> IsNew(u)
  BY DEF NewSame, Joinable
<1>3. OneParent' /\ JoinedOnce' /\ ReceivedAreDone' /\ DeletedAreDone' /\ NewAreUntouched'
  BY TreeParts DEF QuietInTree, TreeInv, OneParent, ReceivedAreDone
<1>4. UnsentAreChildren'
  BY <1>1, <1>2 DEF TreeInv, UnsentAreChildren
<1>5. TreeStutters
  BY <1>1, <1>2 DEF TreeStutters, KidsSame, PhaseSame, KidsPhase
<1> QED
  BY <1>3, <1>4, <1>5 DEF TreeInv

\* A process that has not sent its status is alive.
LEMMA UnsentIsAlive ==
    ASSUME TreeInv, NEW t \in Threads, ~IsNew(t), Unsent(t)
    PROVE  KidsPhase(t) = "alive"
BY DEF TreeInv, UnsentAreChildren, KidsPhase, Joinable

\* Join deletes the port.
LEMMA DeleteTree ==
    ASSUME LifeType, TreeInv, NEW t \in Threads, NEW c \in Joinable, ~IsNew(t),
           OthersInTree(t), NewSame, UNCHANGED <<buffer, childrenToJoin>>,
           deletedPorts' = deletedPorts \cup {joinPort(c)},
           JoinsOf(t) = {c}, InJoins(t) = {}, JoinsOf(t)' = {}, InJoins(t)' = {},
           Unsent(t), ~Done(t)
    PROVE  TreeInv' /\ TreeStutters
<1>1. /\ Kids(t)' = Kids(t) /\ Owned(t)' = childrenToJoin[t]
      /\ c \in Owned(t) /\ childrenToJoin[t] \subseteq Owned(t) /\ c \notin childrenToJoin[t]
  BY DEF Kids, Owned, TreeInv, JoinedOnce
<1>2. /\ \A u \in Threads : Kids(u)' = Kids(u) /\ (Unsent(u)' => Unsent(u))
      /\ Joinable \subseteq Threads /\ \A u \in Threads : IsNew(u)' <=> IsNew(u)
      /\ \A d : joinPort(d) = joinPort(c) => d = c
  BY <1>1, KidsOfOthers, PortNames DEF NewSame, Joinable
<1>3. \A d \in Owned(t)' : joinPort(d) \notin deletedPorts'
  BY <1>1, <1>2 DEF TreeInv, OneParent
<1>4. Done(c)
  BY DEF TreeInv, ReceivedAreDone
<1>5. \A d \in Joinable : joinPort(d) \in deletedPorts' =>
            joinPort(d) \in deletedPorts \/ (Done(d) /\ d \in Owned(t))
  BY <1>1, <1>2, <1>4
<1>6. OneParent' /\ JoinedOnce' /\ ReceivedAreDone' /\ DeletedAreDone' /\ NewAreUntouched'
  BY <1>1, <1>3, <1>5, TreeParts
<1>7. UnsentAreChildren'
  BY <1>2 DEF TreeInv, UnsentAreChildren
<1>8. TreeStutters
  BY <1>2 DEF TreeStutters, KidsSame, PhaseSame, KidsPhase
<1> QED
  BY <1>6, <1>7, <1>8 DEF TreeInv

\* Finish puts the status into the port.
LEMMA ExitTree ==
    ASSUME LifeType, TreeInv, NEW t \in Threads, t \in Joinable, ~IsNew(t),
           OthersInTree(t), NewSame, UNCHANGED <<childrenToJoin, deletedPorts>>,
           NEW m, m # NoMessage, buffer' = [buffer EXCEPT ![joinPort(t)] = m],
           childrenToJoin[t] = {}, JoinsOf(t) = {}, InJoins(t) = {},
           JoinsOf(t)' = {}, InJoins(t)' = {}, Unsent(t), ~Unsent(t)', ~Done(t)
    PROVE  TreeInv' /\ Exits(t)
<1>1. Kids(t) = {} /\ Kids(t)' = {} /\ Owned(t) = {} /\ Owned(t)' = {}
  BY DEF Kids, Owned
<1>2. /\ \A u \in Threads : Kids(u)' = Kids(u) /\ (Unsent(u)' => Unsent(u))
      /\ Joinable \subseteq Threads /\ \A u \in Threads : IsNew(u)' <=> IsNew(u)
  BY <1>1, KidsOfOthers DEF NewSame, Joinable
<1>3. /\ buffer'[joinPort(t)] = m
      /\ \A c \in Joinable \ {t} : buffer'[joinPort(c)] = buffer[joinPort(c)]
  BY PortNames DEF LifeType
<1>4. OneParent' /\ JoinedOnce' /\ ReceivedAreDone' /\ DeletedAreDone' /\ NewAreUntouched'
  BY <1>1, TreeParts
<1>5. UnsentAreChildren'
  BY <1>2, <1>3 DEF TreeInv, UnsentAreChildren
<1>6. KidsPhase(t) = "alive"
  BY UnsentIsAlive
<1>7. KidsPhase(t)' = "exited" /\ t # MainThread
  BY <1>2, <1>3 DEF KidsPhase, Joinable
<1>8. \A u \in Threads \ {t} : PhaseSame(u)
  BY <1>2, <1>3 DEF PhaseSame, KidsPhase, Joinable
<1> QED
  BY <1>1, <1>2, <1>4, <1>5, <1>6, <1>7, <1>8 DEF TreeInv, Exits, KidsSame

\* Join takes the status out of it.
LEMMA JoinTree ==
    ASSUME LifeType, TreeInv, NEW t \in Threads, NEW c \in Joinable, ~IsNew(t),
           OthersInTree(t), NewSame, UNCHANGED <<childrenToJoin, deletedPorts>>,
           buffer[joinPort(c)] # NoMessage,
           buffer' = [buffer EXCEPT ![joinPort(c)] = NoMessage],
           JoinsOf(t) = {c}, InJoins(t) = {c}, JoinsOf(t)' = {c}, InJoins(t)' = {},
           Unsent(t), Unsent(t)', ~Done(t), Done(c),
           \A u \in Threads : InJoins(u) \subseteq JoinsOf(u)
    PROVE  TreeInv' /\ Joins(t, c)
<1>1. /\ Kids(t)' = Kids(t) \ {c} /\ Owned(t)' = Owned(t)
      /\ c \in Kids(t) /\ c \in Owned(t) /\ c # t
  BY DEF Kids, Owned, TreeInv, JoinedOnce
<1>2. /\ \A u \in Threads \ {t} : Kids(u)' = Kids(u)
      /\ \A u \in Threads : Unsent(u)' => Unsent(u)
      /\ Joinable \subseteq Threads /\ c \in Threads /\ c # MainThread
      /\ \A u \in Threads : IsNew(u)' <=> IsNew(u)
  BY <1>1, KidsOfOthers DEF NewSame, Joinable
<1>3. /\ buffer'[joinPort(c)] = NoMessage
      /\ \A d \in Joinable \ {c} : buffer'[joinPort(d)] = buffer[joinPort(d)]
  BY PortNames DEF LifeType
<1>4. OneParent' /\ JoinedOnce' /\ ReceivedAreDone' /\ DeletedAreDone' /\ NewAreUntouched'
  BY <1>1, TreeParts DEF TreeInv, OneParent, JoinedOnce
<1>5. ~Unsent(c) /\ ~IsNew(c)
  BY <1>1, <1>2 DEF TreeInv, UnsentAreChildren, OneParent
<1>6. UnsentAreChildren'
  <2>1. ASSUME NEW d \in Joinable, Unsent(d)'
        PROVE  /\ buffer'[joinPort(d)] = NoMessage
               /\ IsNew(d)' \/ \E u \in Threads : d \in Kids(u)'
    <3>1. d \in Threads /\ Unsent(d) /\ d # c
      BY <1>2, <1>5, <2>1
    <3> QED
      BY <1>1, <1>2, <1>3, <3>1 DEF TreeInv, UnsentAreChildren
  <2> QED
    BY <2>1 DEF UnsentAreChildren
<1>7. KidsPhase(t) = "alive"
  BY UnsentIsAlive
<1>8. KidsPhase(c) = "exited"
  BY <1>2, <1>5 DEF KidsPhase
<1>9. KidsPhase(c)' = "joined"
  <2>1. \A u \in Threads \ {t} : c \notin Owned(u)
    BY <1>1 DEF TreeInv, OneParent
  <2>2. \A u \in Threads \ {t} : c \notin Kids(u)'
    BY <1>2, <2>1 DEF Kids, Owned
  <2> QED
    BY <1>1, <1>2, <1>3, <1>5, <2>2 DEF KidsPhase
<1>10. \A u \in Threads \ {c} : PhaseSame(u)
  BY <1>1, <1>2, <1>3 DEF PhaseSame, KidsPhase, Joinable
<1> QED
  BY <1>1, <1>2, <1>4, <1>6, <1>7, <1>8, <1>9, <1>10 DEF TreeInv, Joins, KidsSame

\* Exec creates a child.
LEMMA ExecTree ==
    ASSUME LifeType, TreeInv, NEW t \in Threads, NEW c \in Joinable, ~IsNew(t), IsNew(c),
           \A u \in Threads : IsNew(u)' <=> IsNew(u) /\ u # c,
           UNCHANGED <<pending, finishing, buffer, deletedPorts>>,
           childrenToJoin' = [childrenToJoin EXCEPT ![t] = @ \cup {c}],
           Unsent(t), \A u \in Threads : InJoins(u) \subseteq JoinsOf(u)
    PROVE  TreeInv' /\ Execs(t, c)
<1>1. /\ \A u \in Threads \ {t} : childrenToJoin'[u] = childrenToJoin[u]
      /\ childrenToJoin'[t] = childrenToJoin[t] \cup {c}
      /\ \A u \in Threads : SameRole(u)
      /\ Joinable \subseteq Threads /\ c \in Threads /\ c # MainThread /\ c # t
  BY RoleStays DEF LifeType, Joinable
<1>2. \A u \in Threads : /\ JoinsOf(u)' = JoinsOf(u) /\ InJoins(u)' = InJoins(u)
                         /\ Unsent(u)' <=> Unsent(u)
                         /\ Done(u)' <=> Done(u)
  BY <1>1 DEF SameRole
<1>3. /\ \A u \in Threads \ {t} : Owned(u)' = Owned(u) /\ Kids(u)' = Kids(u)
      /\ Owned(t)' = Owned(t) \cup {c} /\ Kids(t)' = Kids(t) \cup {c}
  BY <1>1, <1>2 DEF Owned, Kids
<1>4. c \notin finishing /\ \A u \in Threads : c \notin Owned(u)
  BY <1>1 DEF TreeInv, NewAreUntouched, OneParent
<1>5. Unsent(c) /\ ~Done(c)
  BY <1>4 DEF Unsent, Done
<1>6. joinPort(c) \notin deletedPorts /\ buffer[joinPort(c)] = NoMessage
  BY <1>5 DEF TreeInv, DeletedAreDone, UnsentAreChildren
<1>7. \A u \in Threads : Owned(u) \subseteq Joinable
  BY OwnedTypes
<1>8. OneParent'
  <2>1. ASSUME NEW u \in Threads, NEW d \in Owned(u)'
        PROVE  /\ joinPort(d) \notin deletedPorts' /\ ~IsNew(d)'
               /\ \A v \in Threads : d \in Owned(v)' => u = v
    <3>1. CASE d = c
      BY <1>1, <1>3, <1>4, <1>6, <2>1, <3>1
    <3>2. CASE d # c
      <4>1. d \in Owned(u) /\ d \in Threads
        BY <1>1, <1>3, <1>7, <2>1, <3>2
      <4> QED
        BY <1>3, <3>2, <4>1 DEF TreeInv, OneParent
    <3> QED
      BY <3>1, <3>2
  <2> QED
    BY <2>1 DEF OneParent
<1>9. JoinedOnce'
  <2>1. c \notin JoinsOf(t)
    BY <1>4 DEF Owned
  <2> QED
    BY <1>1, <1>2, <2>1 DEF TreeInv, JoinedOnce
<1>10. ReceivedAreDone'
  BY <1>1, <1>2 DEF TreeInv, ReceivedAreDone, JoinsOf
<1>11. DeletedAreDone'
  BY <1>1, <1>2 DEF TreeInv, DeletedAreDone
<1>12. UnsentAreChildren'
  <2>1. ASSUME NEW d \in Joinable, Unsent(d)'
        PROVE  /\ buffer'[joinPort(d)] = NoMessage
               /\ IsNew(d)' \/ \E u \in Threads : d \in Kids(u)'
    <3>1. d \in Threads /\ Unsent(d)
      BY <1>1, <1>2, <2>1
    <3>2. CASE d = c
      BY <1>3, <1>6, <3>2
    <3>3. CASE d # c
      BY <1>3, <3>1, <3>3 DEF TreeInv, UnsentAreChildren
    <3> QED
      BY <3>2, <3>3
  <2> QED
    BY <2>1 DEF UnsentAreChildren
<1>13. NewAreUntouched'
  BY DEF TreeInv, NewAreUntouched
<1>14. KidsPhase(t) = "alive"
  BY UnsentIsAlive
<1>15. KidsPhase(c) = "new" /\ KidsPhase(c)' = "alive"
  BY <1>1, <1>3, <1>6 DEF KidsPhase
<1>16. \A u \in Threads \ {c} : PhaseSame(u)
  BY <1>3 DEF PhaseSame, KidsPhase
<1> QED
  BY <1>3, <1>8, <1>9, <1>10, <1>11, <1>12, <1>13, <1>14, <1>15, <1>16
     DEF TreeInv, Execs, KidsSame

\* Who is in which role, by the shape of its call.
LEMMA RoleOfShape ==
    ASSUME NEW u \in Threads, CallShape(u)
    PROVE  /\ InJoins(u) \subseteq JoinsOf(u)
           /\ ~Unsent(u) => Done(u) \/ (u \in Joinable /\ Inside(u, joinPort(u)))
           /\ u \notin finishing \/ pending[u] # <<>> \/ Gone(u)
<1>1. RoleFacts(u)
  BY RoleOfCall
<1>2. CASE pending[u] = AfterJoin(u)
  <2>1. AtHome(u)
    BY <1>1, <1>2 DEF RoleFacts
  <2>2. u \notin finishing \/ pending[u] # <<>>
    BY <1>2, ShortSequences DEF AfterJoin
  <2> QED
    BY <2>1, <2>2 DEF AtHome, Role
<1>3. ASSUME NEW p \in Ports, NEW b \in EntryOf(u, p), Acquires(u, p, b)
      PROVE  InJoins(u) \subseteq JoinsOf(u) /\ Unsent(u) /\ pending[u] # <<>>
  <2>1. /\ b \in Seq(Steps) /\ b # <<>>
        /\ \/ \E c \in Joinable, s \in {"EnterReceive", "TestReceive"} :
                 p = joinPort(c) /\ b = ReceiveFrom(u, c, s)
           \/ \E s \in SendNames : /\ u \in finishing /\ u \in Joinable
                                   /\ p = joinPort(u) /\ b = SendFrom(u, s)
    BY EntryParts
  <2>2. pending[u] # <<>>
    BY <1>3, <2>1, AcquiresParts
  <2>3. (\E c \in Joinable : Receives(u, c)) \/ Sends(u)
    BY <1>1, <1>3, <2>1 DEF RoleFacts
  <2> QED
    BY <2>2, <2>3 DEF Receives, Sends, Role
<1>4. ASSUME NEW c \in Conditions, NEW b \in SignalOf(u, c), Pops(u, c, b)
      PROVE  /\ InJoins(u) \subseteq JoinsOf(u) /\ pending[u] # <<>>
             /\ Unsent(u) \/ (u \in Joinable /\ Inside(u, joinPort(u)))
  <2>1. /\ b \in Seq(Steps) /\ b # <<>>
        /\ \/ \E d \in Joinable :
                c = senderCondition(joinPort(d)) /\ b = ReceiveFrom(u, d, "WaitToReceive")
           \/ /\ u \in finishing /\ u \in Joinable
              /\ c = receiverCondition(joinPort(u)) /\ b = SendFrom(u, "Unlock")
    BY SignalParts
  <2>2. /\ pending[u] # <<>>
        /\ pending[u] = b \/ Head(pending[u]) = Step("Pop", c)
    BY <1>4, <2>1, PopsParts
  <2>3. CASE \E d \in Joinable :
                c = senderCondition(joinPort(d)) /\ b = ReceiveFrom(u, d, "WaitToReceive")
    BY <1>1, <1>4, <2>2, <2>3 DEF RoleFacts, Receives, Role
  <2>4. CASE /\ u \in finishing /\ u \in Joinable
             /\ c = receiverCondition(joinPort(u)) /\ b = SendFrom(u, "Unlock")
    <3>1. Leaves(u)
      BY <1>1, <1>4, <2>4 DEF RoleFacts
    <3>2. Head(b) = Step("Unlock", joinPort(u))
      BY <2>4, SendTypes
    <3>3. Inside(u, joinPort(u))
      BY <2>2, <2>4, <3>2 DEF Inside, InsideSteps, NextIs
    <3> QED
      BY <2>2, <2>4, <3>1, <3>3 DEF Leaves, Role
  <2> QED
    BY <2>1, <2>3, <2>4
<1>5. ASSUME NEW c \in Joinable, Deleting(u, c)
      PROVE  InJoins(u) \subseteq JoinsOf(u) /\ Unsent(u) /\ pending[u] # <<>>
  <2>1. Deletes(u, c) /\ pending[u] # <<>>
    BY <1>1, <1>5, RestTypes DEF RoleFacts, Deleting
  <2> QED
    BY <2>1 DEF Deletes, Role
<1>6. ASSUME u \in finishing, pending[u] = <<>> \/ pending[u] = <<Die(u)>>
      PROVE  InJoins(u) \subseteq JoinsOf(u) /\ Done(u)
  BY <1>1, <1>6 DEF RoleFacts, Ended, Role
<1>7. <<Die(u)>> # <<>>
  BY ShortSequences
<1> QED
  BY <1>2, <1>3, <1>4, <1>5, <1>6, <1>7 DEF CallShape

-----------------------------------------------------------------------------
(* Steps inside a call.                                                    *)

LEMMA InvParts ==
    ASSUME LifeInv
    PROVE  /\ LockInv /\ KernelInv /\ LifeType /\ CarcassInv /\ CallInv /\ TreeInv
           /\ \A t \in Threads : InCallWell(t) /\ CallShape(t)
           /\ pending \in [Threads -> Seq(Steps)]
           /\ threadQueue \in [Conditions -> Seq(Threads)]
           /\ ownerThread \in [Locks -> Threads \cup {NoThread}]
           /\ message \in [Threads -> Threads \cup {NoMessage}]
           /\ childrenToJoin \in [Threads -> SUBSET Joinable]
<1>1. \A t \in Threads : InCallWell(t) /\ CallShape(t)
  BY CallInvParts DEF LifeInv, InCallWell
<1> QED
  BY <1>1 DEF LifeInv, LockInv, LockType, LifeType

\* The running thread is not new, and not gone.
LEMMA RunningThread ==
    ASSUME NEW t \in Threads, status[t] = "RUNNING"
    PROVE  ~IsNew(t) /\ ~Gone(t)
BY DEF IsNew, Gone

KeepsRole(t) ==
    \/ \E c \in Joinable : Receives(t, c) /\ Receives(t, c)'
    \/ Sends(t) /\ Sends(t)'
    \/ Leaves(t) /\ Leaves(t)'

LEMMA RoleQuiet ==
    ASSUME TreeInv, NEW t \in Threads, childrenToJoin'[t] = childrenToJoin[t],
           JoinsOf(t)' = JoinsOf(t), InJoins(t)' = InJoins(t), Unsent(t)' => Unsent(t),
           Done(t) => Done(t)'
    PROVE  QuietInTree(t)
BY DEF QuietInTree, Kids, Owned, TreeInv, JoinedOnce

LEMMA KeptRole ==
    ASSUME NEW t \in Threads, KeepsRole(t)
    PROVE  /\ JoinsOf(t)' = JoinsOf(t) /\ InJoins(t)' = InJoins(t)
           /\ Unsent(t)' => Unsent(t)
           /\ ~Done(t) /\ (InSend(t)' => InSend(t))
BY DEF KeepsRole, Receives, Sends, Leaves, Role

\* A step of t after which its own call is well, and the others are kept.
LEMMA QuietStep ==
    ASSUME LifeInv, NEW t \in Threads, ~IsNew(t),
           LockInv', LifeType', CarcassInv', InCallWell(t)', OthersKept(t), OwnersKept(t),
           NewSame, UNCHANGED <<buffer, deletedPorts>>, QuietInTree(t)
    PROVE  LifeInv' /\ TreeEffect
<1>1. CallInv' /\ \A u \in Threads \ {t} : SameRole(u)
  BY InvParts, CallInvStep
<1>2. OthersInTree(t)
  BY <1>1 DEF OthersInTree, OthersKept
<1>3. TreeInv' /\ TreeStutters
  BY <1>2, InvParts, QuietTree
<1> QED
  BY <1>1, <1>3 DEF LifeInv, TreeEffect

\* Where t stands in the locks and queues.
WellPlaced(t) ==
    /\ \A p \in Ports : Inside(t, p) => ownerThread[p] = t
    /\ \A c \in Conditions : NextIs(t, Step("Pop", c)) => threadQueue[c] # <<>>

\* A step inside the same call, that changes neither statuses nor messages.
LEMMA RoleStep ==
    ASSUME LifeInv, NEW t \in Threads, status[t] = "RUNNING",
           LockInv', pending' \in [Threads -> Seq(Steps)],
           threadQueue' \in [Conditions -> Seq(Threads)],
           \A u \in Threads \ {t} : pending'[u] = pending[u],
           UNCHANGED <<buffer, message, lifeVars>>, NothingDied,
           GoneStay, NewSame, OwnersKept(t),
           CallShape(t)', KeepsRole(t), WellPlaced(t)'
    PROVE  LifeInv' /\ TreeEffect
<1>1. UNCHANGED <<buffer, message, childrenToJoin, finishing, deletedPorts, halted>>
  BY DEF lifeVars
<1>2. LifeType'
  BY <1>1, InvParts DEF LifeType
<1>3. KernelInv' /\ CarcassInv'
  BY <1>1, InvParts, NothingDiedCarcass DEF LockInv
<1>4. InCallWell(t)'
  BY <1>1, InvParts, KeptRole DEF InCallWell, WellPlaced
<1>5. OthersKept(t)
  BY <1>1 DEF OthersKept, GoneStay
<1>6. QuietInTree(t)
  BY <1>1, InvParts, KeptRole, RoleQuiet
<1> QED
  BY <1>1, <1>2, <1>3, <1>4, <1>5, <1>6, RunningThread, QuietStep

\* The place of t, by its next step.
LEMMA OutsideNext ==
    ASSUME NEW t \in Threads, NEW x, NextIs(t, x),
           x.step \in {"Own", "Reacquire", "Sleep", "DeletePort", "Die", "Finish"}
    PROVE  WellPlaced(t) /\ (x.step # "Own" => InNoAcquire(t))
<1>1. \A p : x \notin InsideSteps(p)
  BY StepFields DEF InsideSteps, SendNames, ReceiveNames
<1>2. \A c : ~NextIs(t, Step("Pop", c))
  BY PlaceOfNext, StepFields DEF NextOf
<1> QED
  BY <1>1, <1>2, PlaceOfNext DEF NextOf, WellPlaced

LEMMA OutsideNextNext ==
    ASSUME NEW t \in Threads, NEW x, NextIs(t, x)',
           x.step \in {"Own", "Reacquire", "Sleep", "DeletePort", "Die", "Finish"}
    PROVE  WellPlaced(t)' /\ (x.step # "Own" => InNoAcquire(t)')
<1>1. \A p : x \notin InsideSteps(p)
  BY StepFields DEF InsideSteps, SendNames, ReceiveNames
<1>2. NextOf(t)'
  BY PlaceOfNextNext
<1>3. \A c : ~NextIs(t, Step("Pop", c))'
  BY <1>2, StepFields DEF NextOf
<1> QED
  BY <1>1, <1>2, <1>3 DEF NextOf, WellPlaced, InsideSteps

LEMMA InsideNextNext ==
    ASSUME NEW t \in Threads, NEW p \in Ports, NEW x \in InsideSteps(p), NextIs(t, x)',
           ownerThread'[p] = t, \A c : x = Step("Pop", c) => threadQueue'[c] # <<>>
    PROVE  WellPlaced(t)' /\ InNoAcquire(t)'
<1>1. NextOf(t)'
  BY PlaceOfNextNext
<1>2. x.step # "Own"
  BY StepFields DEF InsideSteps, SendNames, ReceiveNames
<1>3. \A q \in Ports : x \in InsideSteps(q) => q = p
  BY StepFields, PortNames DEF InsideSteps, SendNames, ReceiveNames
<1>4. \A q \in Ports : Inside(t, q)' => x \in InsideSteps(q)
  BY <1>1 DEF NextOf, InsideSteps
<1>5. \A q \in Ports : Inside(t, q)' => ownerThread'[q] = t
  BY <1>3, <1>4
<1>6. \A c \in Conditions : NextIs(t, Step("Pop", c))' => threadQueue'[c] # <<>>
  BY <1>1 DEF NextOf
<1> QED
  BY <1>1, <1>2, <1>5, <1>6 DEF NextOf, WellPlaced

LEMMA InsideNext ==
    ASSUME CallInv, NEW t \in Threads, NEW p \in Ports, NEW x \in InsideSteps(p), NextIs(t, x)
    PROVE  ownerThread[p] = t /\ InNoAcquire(t) /\ Inside(t, p)
<1>1. x.step # "Own"
  BY StepFields DEF InsideSteps, SendNames, ReceiveNames
<1>2. Inside(t, p)
  BY DEF Inside
<1> QED
  BY <1>1, <1>2, PlaceOfNext DEF NextOf, CallInv, InsideOwn

LEMMA NoNextNext ==
    ASSUME NEW t \in Threads, pending'[t] = <<>>
    PROVE  WellPlaced(t)' /\ InNoAcquire(t)'
BY DEF WellPlaced, InNoAcquire, Inside, NextIs

\* The rests of a call do not depend on the state while nobody starts Finish.
LEMMA BodiesStay ==
    ASSUME NEW t, finishing' = finishing
    PROVE  /\ AfterJoin(t)' = AfterJoin(t)
           /\ \A c : AfterReceive(t, c)' = AfterReceive(t, c)
           /\ \A c, s : ReceiveFrom(t, c, s)' = ReceiveFrom(t, c, s)
           /\ \A p : EntryOf(t, p)' = EntryOf(t, p)
           /\ \A c : SignalOf(t, c)' = SignalOf(t, c)
<1>1. AfterJoin(t)' = AfterJoin(t)
  BY DEF AfterJoin
<1>2. \A c : AfterReceive(t, c)' = AfterReceive(t, c)
  BY <1>1 DEF AfterReceive
<1>3. \A c, s : ReceiveFrom(t, c, s)' = ReceiveFrom(t, c, s)
  BY <1>2 DEF ReceiveFrom
<1> QED
  BY <1>1, <1>2, <1>3 DEF EntryOf, SignalOf

\* Where t is in the body b of the Receive from c, or of its Send.
AtReceive(t, c, b) ==
    \/ \E s \in {"EnterReceive", "TestReceive"} :
          b = ReceiveFrom(t, c, s) /\ Acquires(t, joinPort(c), b)
    \/ b = ReceiveFrom(t, c, "WaitToReceive") /\ Pops(t, senderCondition(joinPort(c)), b)

AtSend(t, b) ==
    /\ t \in finishing /\ t \in Joinable
    /\ \E s \in SendNames : b = SendFrom(t, s) /\ Acquires(t, joinPort(t), b)

AtUnlock(t, b) ==
    /\ t \in finishing /\ t \in Joinable
    /\ b = SendFrom(t, "Unlock") /\ Pops(t, receiverCondition(joinPort(t)), b)

RoleAndShape(t) ==
    /\ \A c \in Joinable : \A b : AtReceive(t, c, b) => Receives(t, c) /\ CallShape(t)
    /\ \A b : AtSend(t, b) => Sends(t) /\ CallShape(t)
    /\ \A b : AtUnlock(t, b) => Leaves(t) /\ CallShape(t)

LEMMA RoleAndShapeOf == \A t \in Threads : RoleAndShape(t)
<1> SUFFICES ASSUME NEW t \in Threads PROVE RoleAndShape(t)
  OBVIOUS
<1>1. RoleFacts(t)
  BY RoleOfCall
<1>2. ASSUME NEW c \in Joinable, NEW b, AtReceive(t, c, b)
      PROVE  Receives(t, c) /\ CallShape(t)
  <2>1. joinPort(c) \in Ports /\ senderCondition(joinPort(c)) \in Conditions
    BY PortNames
  <2>2. CASE \E s \in {"EnterReceive", "TestReceive"} :
                b = ReceiveFrom(t, c, s) /\ Acquires(t, joinPort(c), b)
    <3>1. b \in EntryOf(t, joinPort(c))
      BY <2>2 DEF EntryOf
    <3>2. CallShape(t)
      BY <2>1, <2>2, <3>1 DEF CallShape
    <3> QED
      BY <1>1, <2>2, <3>2 DEF RoleFacts
  <2>3. CASE b = ReceiveFrom(t, c, "WaitToReceive") /\ Pops(t, senderCondition(joinPort(c)), b)
    <3>1. b \in SignalOf(t, senderCondition(joinPort(c)))
      BY <2>3 DEF SignalOf
    <3>2. CallShape(t)
      BY <2>1, <2>3, <3>1 DEF CallShape
    <3> QED
      BY <1>1, <2>3, <3>2 DEF RoleFacts
  <2> QED
    BY <1>2, <2>2, <2>3 DEF AtReceive
<1>3. ASSUME NEW b, AtSend(t, b) PROVE Sends(t) /\ CallShape(t)
  <2>1. joinPort(t) \in Ports /\ b \in EntryOf(t, joinPort(t)) /\ Acquires(t, joinPort(t), b)
    BY <1>3, PortNames DEF AtSend, EntryOf
  <2>2. CallShape(t)
    BY <2>1 DEF CallShape
  <2> QED
    BY <1>1, <1>3, <2>2 DEF RoleFacts, AtSend
<1>4. ASSUME NEW b, AtUnlock(t, b) PROVE Leaves(t) /\ CallShape(t)
  <2>1. /\ receiverCondition(joinPort(t)) \in Conditions
        /\ b \in SignalOf(t, receiverCondition(joinPort(t)))
        /\ Pops(t, receiverCondition(joinPort(t)), b)
    BY <1>4, PortNames DEF AtUnlock, SignalOf
  <2>2. CallShape(t)
    BY <2>1 DEF CallShape
  <2> QED
    BY <1>1, <1>4, <2>2 DEF RoleFacts, AtUnlock
<1> QED
  BY <1>2, <1>3, <1>4 DEF RoleAndShape

LEMMA RoleAndShapeNext == (\A t \in Threads : RoleAndShape(t))'
BY RoleAndShapeOf, PTL

\* t moves on in the same call.
SameCall(t) ==
    \/ \E c \in Joinable : \E b, d : AtReceive(t, c, b) /\ AtReceive(t, c, d)'
    \/ \E b, d : AtSend(t, b) /\ AtSend(t, d)'
    \/ \E b, d : AtUnlock(t, b) /\ AtUnlock(t, d)'

LEMMA SameCallKeeps ==
    ASSUME NEW t \in Threads, SameCall(t)
    PROVE  KeepsRole(t) /\ CallShape(t)'
BY RoleAndShapeOf, RoleAndShapeNext DEF SameCall, RoleAndShape, KeepsRole

\* A move in front of one body.
LEMMA SameBody ==
    ASSUME NEW t \in Threads, NEW p \in Ports, NEW b \in EntryOf(t, p), finishing' = finishing,
           Acquires(t, p, b), Acquires(t, p, b)'
    PROVE  SameCall(t)
<1>1. \A c, s : ReceiveFrom(t, c, s)' = ReceiveFrom(t, c, s)
  BY BodiesStay
<1>2. CASE \E c \in Joinable, s \in {"EnterReceive", "TestReceive"} :
                p = joinPort(c) /\ b = ReceiveFrom(t, c, s)
  BY <1>1, <1>2 DEF SameCall, AtReceive
<1>3. CASE \E s \in SendNames : /\ t \in finishing /\ t \in Joinable
                                /\ p = joinPort(t) /\ b = SendFrom(t, s)
  BY <1>3 DEF SameCall, AtSend, SendFrom
<1> QED
  BY <1>2, <1>3, EntryParts

LEMMA SameSignalBody ==
    ASSUME NEW t \in Threads, NEW c \in Conditions, NEW b \in SignalOf(t, c),
           finishing' = finishing, Pops(t, c, b), Pops(t, c, b)'
    PROVE  SameCall(t)
<1>1. \A d, s : ReceiveFrom(t, d, s)' = ReceiveFrom(t, d, s)
  BY BodiesStay
<1>2. CASE \E d \in Joinable :
                c = senderCondition(joinPort(d)) /\ b = ReceiveFrom(t, d, "WaitToReceive")
  BY <1>1, <1>2 DEF SameCall, AtReceive
<1>3. CASE /\ t \in finishing /\ t \in Joinable
           /\ c = receiverCondition(joinPort(t)) /\ b = SendFrom(t, "Unlock")
  BY <1>3 DEF SameCall, AtUnlock, SendFrom
<1> QED
  BY <1>2, <1>3, SignalParts

-----------------------------------------------------------------------------
(* The steps of the Lock and Condition calls inside Send and Receive.      *)

LEMMA OwnersSame ==
    ASSUME NEW t \in Threads, UNCHANGED <<ownerThread, threadQueue>>
    PROVE  OwnersKept(t)
BY DEF OwnersKept

\* An Acquire of a port's lock.
LEMMA AcquireCall ==
    ASSUME LifeInv, NEW t \in Threads, NEW p \in Ports, NEW b \in Seq(Steps),
           IsRunning(t), InNoAcquire(t), StartAcquire(t, p, b)
    PROVE  /\ LockInv' /\ UNCHANGED ownerThread
           /\ pending' \in [Threads -> Seq(Steps)] /\ pending'[t] = Cons(Own(p), b)
           /\ \A u \in Threads \ {t} : pending'[u] = pending[u]
           /\ WellPlaced(t)' /\ GoneStay /\ NewSame /\ status[t] = "RUNNING"
<1>1. p \in Locks /\ Own(p) \in Steps /\ Own(p).step = "Own"
  BY PortNames, StepTypes, StepFields
<1>2. /\ LockInv' /\ pending' = [pending EXCEPT ![t] = <<Own(p)>> \o b]
      /\ NextIs(t, Own(p))'
  BY <1>1, InvParts, StartAcquireInv
<1>3. Cons(Own(p), b) \in Seq(Steps) /\ pending' = [pending EXCEPT ![t] = Cons(Own(p), b)]
  BY <1>1, <1>2, ConsProperties DEF Cons
<1>4. WellPlaced(t)'
  BY <1>1, <1>2, OutsideNextNext
<1>5. TestValue(t, p) /\ UNCHANGED ownerThread /\ status[t] = "RUNNING"
  BY DEF StartAcquire, lockVars, IsRunning
<1>6. GoneStay /\ NewSame
  BY <1>5, InvParts, StatusAtP
<1> QED
  BY <1>2, <1>3, <1>4, <1>5, <1>6, InvParts

\* ci->sem->P(): the end of the wait for a Signal.
LEMMA SleepOnItemStep ==
    ASSUME LifeInv, NEW t \in Threads, SleepOnItem(t), NothingDied,
           UNCHANGED <<portVars, message, lifeVars>>
    PROVE  LifeInv' /\ TreeEffect
<1>1. /\ NextIs(t, SleepOf(t)) /\ IsRunning(t) /\ TestValue(t, t)
      /\ Return(t) /\ UNCHANGED <<priority, lockVars, threadQueue>>
  BY DEF SleepOnItem, NextStep, NextIs, SleepOf, Step
<1>2. PICK p \in Ports : \E b \in EntryOf(t, p) :
        pending[t] = Cons(SleepOf(t), Cons(Reacq(p), b))
  BY <1>1, InvParts, CallOfNext DEF NextSaysCall
<1>3. PICK b \in EntryOf(t, p) : pending[t] = Cons(SleepOf(t), Cons(Reacq(p), b))
  BY <1>2
<1>4. b \in Seq(Steps) /\ SleepOf(t) \in Steps /\ Reacq(p) \in Steps
  BY EntryParts, StepTypes
<1>5. /\ Cons(Reacq(p), b) \in Seq(Steps) /\ Cons(Reacq(p), b) # <<>>
      /\ Head(Cons(Reacq(p), b)) = Reacq(p)
  BY <1>4, ConsProperties
<1>6. Tail(pending[t]) = Cons(Reacq(p), b)
  BY <1>3, <1>4, <1>5, ConsProperties
<1>7. /\ pending' \in [Threads -> Seq(Steps)] /\ pending'[t] = Cons(Reacq(p), b)
      /\ \A u \in Threads \ {t} : pending'[u] = pending[u]
  BY <1>1, <1>5, <1>6, InvParts DEF Return
<1>8. NextIs(t, Reacq(p))' /\ Reacq(p).step = "Reacquire" /\ SleepOf(t).step = "Sleep"
  BY <1>5, <1>7, StepFields DEF NextIs, Reacq, SleepOf
<1>9. InNoAcquire(t) /\ InNoAcquire(t)' /\ WellPlaced(t)'
  BY <1>1, <1>8, OutsideNext, OutsideNextNext
<1>10. LockInv'
  BY <1>1, <1>7, <1>9, InvParts, PortNames, TestValueLockInv DEF IsRunning
<1>11. status[t] = "RUNNING" /\ GoneStay /\ NewSame
  BY <1>1, InvParts, StatusAtP DEF IsRunning
<1>12. finishing' = finishing /\ UNCHANGED buffer
  BY DEF lifeVars, portVars
<1>13. Acquires(t, p, b) /\ Acquires(t, p, b)'
  BY <1>3, <1>7 DEF Acquires
<1>14. SameCall(t)
  BY <1>12, <1>13, SameBody
<1> QED
  BY <1>1, <1>7, <1>9, <1>10, <1>11, <1>12, <1>14, InvParts, SameCallKeeps, OwnersSame, RoleStep
     DEF lockVars

\* conditionLock->Acquire(), the end of Wait.
LEMMA ReacquireStep ==
    ASSUME LifeInv, NEW t \in Threads, NEW l \in Locks, Reacquire(t, l), NothingDied,
           UNCHANGED <<portVars, message, lifeVars>>
    PROVE  LifeInv' /\ TreeEffect
<1>1. /\ NextIs(t, Reacq(l)) /\ IsRunning(t)
      /\ StartAcquire(t, l, Tail(pending[t])) /\ UNCHANGED threadQueue
  BY DEF Reacquire, NextStep, NextIs, Reacq, Step
<1>2. l \in Ports /\ \E b \in EntryOf(t, l) : pending[t] = Cons(Reacq(l), b)
  BY <1>1, InvParts, CallOfNext DEF NextSaysCall
<1>3. PICK b \in EntryOf(t, l) : pending[t] = Cons(Reacq(l), b)
  BY <1>2
<1>4. b \in Seq(Steps) /\ Reacq(l) \in Steps /\ Reacq(l).step = "Reacquire"
  BY <1>2, EntryParts, StepTypes, StepFields DEF Reacq
<1>5. Tail(pending[t]) = b
  BY <1>3, <1>4, ConsProperties
<1>6. InNoAcquire(t)
  BY <1>1, <1>4, OutsideNext
<1>7. StartAcquire(t, l, b)
  BY <1>1, <1>5
<1>8. /\ LockInv' /\ UNCHANGED ownerThread
      /\ pending' \in [Threads -> Seq(Steps)] /\ pending'[t] = Cons(Own(l), b)
      /\ \A u \in Threads \ {t} : pending'[u] = pending[u]
      /\ WellPlaced(t)' /\ GoneStay /\ NewSame /\ status[t] = "RUNNING"
  BY <1>1, <1>2, <1>4, <1>6, <1>7, AcquireCall
<1>9. finishing' = finishing /\ UNCHANGED buffer
  BY DEF lifeVars, portVars
<1>10. Acquires(t, l, b) /\ Acquires(t, l, b)'
  BY <1>3, <1>8 DEF Acquires
<1>11. SameCall(t)
  BY <1>2, <1>9, <1>10, SameBody
<1> QED
  BY <1>1, <1>8, <1>9, <1>11, InvParts, SameCallKeeps, OwnersSame, RoleStep

\* The body of a call begins inside the lock.
LEMMA EntryHead ==
    ASSUME NEW t \in Threads, NEW p \in Ports, NEW b \in EntryOf(t, p)
    PROVE  Head(b) \in InsideSteps(p) /\ Head(b).step # "Pop"
<1>1. CASE \E c \in Joinable, s \in {"EnterReceive", "TestReceive"} :
                p = joinPort(c) /\ b = ReceiveFrom(t, c, s)
  <2>1. PICK c \in Joinable, s \in {"EnterReceive", "TestReceive"} :
                p = joinPort(c) /\ b = ReceiveFrom(t, c, s)
    BY <1>1
  <2>2. s \in ReceiveNames
    BY DEF ReceiveNames
  <2>3. Head(b) = Step(s, p)
    BY <2>1, <2>2, ReceiveTypes
  <2> QED
    BY <2>2, <2>3, StepFields DEF InsideSteps, ReceiveNames
<1>2. CASE \E s \in SendNames : /\ t \in finishing /\ t \in Joinable
                                /\ p = joinPort(t) /\ b = SendFrom(t, s)
  <2>1. PICK s \in SendNames : t \in Joinable /\ p = joinPort(t) /\ b = SendFrom(t, s)
    BY <1>2
  <2>2. Head(b) = Step(s, p)
    BY <2>1, SendTypes
  <2> QED
    BY <2>2, StepFields DEF InsideSteps, SendNames
<1> QED
  BY <1>1, <1>2, EntryParts

\* The body of a call after its Signal, too.
LEMMA SignalHead ==
    ASSUME NEW t \in Threads, NEW p \in Ports,
           NEW c \in {senderCondition(p), receiverCondition(p)}, NEW b \in SignalOf(t, c)
    PROVE  Head(b) \in InsideSteps(p) /\ Head(b).step # "Pop"
<1>1. c \in Conditions
  BY PortNames
<1>2. CASE \E d \in Joinable :
                c = senderCondition(joinPort(d)) /\ b = ReceiveFrom(t, d, "WaitToReceive")
  <2>1. PICK d \in Joinable :
                c = senderCondition(joinPort(d)) /\ b = ReceiveFrom(t, d, "WaitToReceive")
    BY <1>2
  <2>2. p = joinPort(d) /\ "WaitToReceive" \in ReceiveNames
    BY <2>1, PortNames DEF ReceiveNames
  <2>3. Head(b) = Step("WaitToReceive", p)
    BY <2>1, <2>2, ReceiveTypes
  <2> QED
    BY <2>2, <2>3, StepFields DEF InsideSteps
<1>3. CASE /\ t \in finishing /\ t \in Joinable
           /\ c = receiverCondition(joinPort(t)) /\ b = SendFrom(t, "Unlock")
  <2>1. p = joinPort(t)
    BY <1>3, PortNames
  <2>2. Head(b) = Step("Unlock", p)
    BY <1>3, <2>1, SendTypes
  <2> QED
    BY <2>2, StepFields DEF InsideSteps
<1> QED
  BY <1>1, <1>2, <1>3, SignalParts

\* The two assignments that end an Acquire.
LEMMA OwnStep ==
    ASSUME LifeInv, NEW t \in Threads, NEW l \in Locks, FinishAcquire(t, l),
           UNCHANGED threadQueue, NothingDied, UNCHANGED <<portVars, message, lifeVars>>
    PROVE  LifeInv' /\ TreeEffect
<1>1. /\ NextIs(t, Own(l)) /\ status[t] = "RUNNING" /\ Return(t) /\ UNCHANGED kernelVars
      /\ ownerThread' = [ownerThread EXCEPT ![l] = t]
  BY DEF FinishAcquire, NextStep, NextIs, Own, IsRunning
<1>2. l \in Ports /\ \E b \in EntryOf(t, l) : pending[t] = Cons(Own(l), b)
  BY <1>1, InvParts, CallOfNext DEF NextSaysCall
<1>3. PICK b \in EntryOf(t, l) : pending[t] = Cons(Own(l), b)
  BY <1>2
<1>4. b \in Seq(Steps) /\ b # <<>> /\ Own(l) \in Steps
  BY <1>2, EntryParts, StepTypes
<1>5. Tail(pending[t]) = b
  BY <1>3, <1>4, ConsProperties
<1>6. /\ pending' \in [Threads -> Seq(Steps)] /\ pending'[t] = b
      /\ \A u \in Threads \ {t} : pending'[u] = pending[u]
  BY <1>1, <1>4, <1>5, InvParts DEF Return
<1>7. Head(b) \in InsideSteps(l) /\ NextIs(t, Head(b))' /\ Head(b).step # "Pop"
  BY <1>2, <1>4, <1>6, EntryHead DEF NextIs
<1>8. ownerThread'[l] = t /\ \A c : Head(b) # Step("Pop", c)
  BY <1>1, <1>7, InvParts, StepFields
<1>9. WellPlaced(t)' /\ InNoAcquire(t)'
  BY <1>2, <1>7, <1>8, InsideNextNext
<1>10. /\ LockInv' /\ Holders(l) = {t}
       /\ \A k \in Locks \ {l} : ownerThread'[k] = ownerThread[k]
  BY <1>9, InvParts, FinishAcquireInv
<1>11. OwnersKept(t)
  <2>1. ASSUME NEW u \in Threads \ {t}, NEW p \in Ports, ownerThread[p] = u
        PROVE  ownerThread'[p] = u
    <3>1. p # l
      BY <1>10, <2>1 DEF Holders
    <3> QED
      BY <1>10, <2>1, <3>1, PortNames
  <2> QED
    BY <2>1 DEF OwnersKept
<1>12. GoneStay /\ NewSame
  BY <1>1, StatusSame DEF kernelVars, cpuVars, semVars
<1>13. finishing' = finishing /\ UNCHANGED buffer
  BY DEF lifeVars, portVars
<1>14. Acquires(t, l, b) /\ Acquires(t, l, b)'
  BY <1>3, <1>6 DEF Acquires
<1>15. SameCall(t)
  BY <1>2, <1>13, <1>14, SameBody
<1> QED
  BY <1>1, <1>6, <1>9, <1>10, <1>11, <1>12, <1>13, <1>15, InvParts, SameCallKeeps, RoleStep

\* threadQueue.pop(), the end of Signal.
LEMMA PopStep ==
    ASSUME LifeInv, NEW t \in Threads, NEW c \in Conditions, PopSignalled(t, c), NothingDied,
           UNCHANGED <<portVars, message, lifeVars>>
    PROVE  LifeInv' /\ TreeEffect
<1>1. /\ NextIs(t, Step("Pop", c)) /\ IsRunning(t) /\ status[t] = "RUNNING" /\ Return(t)
      /\ UNCHANGED <<kernelVars, lockVars>>
      /\ threadQueue' = [threadQueue EXCEPT ![c] = Tail(threadQueue[c])]
  BY DEF PopSignalled, NextStep, NextIs, Step, IsRunning
<1>2. PICK b \in SignalOf(t, c) : pending[t] = Cons(Step("Pop", c), b)
  BY <1>1, InvParts, CallOfNext DEF NextSaysCall
<1>3. PICK p \in Ports : c \in {senderCondition(p), receiverCondition(p)} /\ Inside(t, p)
  BY <1>1, InvParts, PopsInside
<1>4. b \in Seq(Steps) /\ b # <<>> /\ Step("Pop", c) \in Steps
  BY SignalParts, StepTypes
<1>5. Tail(pending[t]) = b
  BY <1>2, <1>4, ConsProperties
<1>6. /\ pending' \in [Threads -> Seq(Steps)] /\ pending'[t] = b
      /\ \A u \in Threads \ {t} : pending'[u] = pending[u]
  BY <1>1, <1>4, <1>5, InvParts DEF Return
<1>7. Head(b) \in InsideSteps(p) /\ NextIs(t, Head(b))' /\ Head(b).step # "Pop"
  BY <1>3, <1>4, <1>6, SignalHead DEF NextIs
<1>8. ownerThread[p] = t
  BY <1>3, InvParts DEF CallInv, InsideOwn
<1>9. WellPlaced(t)' /\ InNoAcquire(t)'
  <2>1. ownerThread'[p] = t /\ \A d : Head(b) # Step("Pop", d)
    BY <1>1, <1>7, <1>8, StepFields DEF lockVars
  <2> QED
    BY <1>7, <2>1, InsideNextNext
<1>10. InNoAcquire(t)
  BY <1>1, PlaceOfNext, StepFields DEF NextOf
<1>11. LockInv'
  BY <1>1, <1>6, <1>9, <1>10, InvParts, CallLockInv
<1>12. threadQueue[c] # <<>> /\ threadQueue' \in [Conditions -> Seq(Threads)]
  <2>1. threadQueue[c] # <<>> /\ threadQueue[c] \in Seq(Threads)
    BY <1>1, InvParts DEF CallInv, PopQueued
  <2>2. Tail(threadQueue[c]) \in Seq(Threads)
    BY <2>1
  <2> QED
    BY <1>1, <2>1, <2>2, InvParts
<1>13. OwnersKept(t)
  <2>1. ASSUME NEW u \in Threads \ {t}, NEW q \in Ports, ownerThread[q] = u,
               NEW d \in {senderCondition(q), receiverCondition(q)}
        PROVE  threadQueue'[d] = threadQueue[d]
    <3>1. q # p
      BY <1>8, <2>1
    <3>2. d # c /\ d \in Conditions
      BY <1>3, <3>1, PortNames
    <3> QED
      BY <1>1, <3>2, InvParts
  <2> QED
    BY <1>1, <2>1 DEF OwnersKept, lockVars
<1>14. GoneStay /\ NewSame
  BY <1>1, StatusSame DEF kernelVars, cpuVars, semVars
<1>15. finishing' = finishing /\ UNCHANGED buffer
  BY DEF lifeVars, portVars
<1>16. Pops(t, c, b) /\ Pops(t, c, b)'
  BY <1>2, <1>6 DEF Pops
<1>17. SameCall(t)
  BY <1>15, <1>16, SameSignalBody
<1> QED
  BY <1>1, <1>6, <1>9, <1>11, <1>12, <1>13, <1>14, <1>15, <1>17, SameCallKeeps, RoleStep

\* A Release: the others keep their locks.
LEMMA ReleaseCall ==
    ASSUME LifeInv, NEW t \in Threads, NEW p \in Ports, IsRunning(t), InNoAcquire(t),
           Release(t, p), InNoAcquire(t)',
           \A u \in Threads \ {t} : pending'[u] = pending[u],
           \A c \in Conditions : threadQueue[c] # <<>> => threadQueue'[c] # <<>>
    PROVE  LockInv' /\ OwnersKept(t) /\ GoneStay /\ NewSame /\ status[t] = "RUNNING"
<1>1. p \in Locks /\ p \in Semaphores
  BY PortNames, LocksAreSemaphores
<1>2. /\ LockInv' /\ ownerThread[p] = t
      /\ \A k \in Locks \ {p} : ownerThread'[k] = ownerThread[k]
  BY <1>1, InvParts, ReleaseInv DEF Release
<1>3. ASSUME NEW u \in Threads \ {t}, NEW q \in Ports, ownerThread[q] = u
      PROVE  ownerThread'[q] = u
  <2>1. q # p /\ q \in Locks
    BY <1>2, <1>3, PortNames
  <2> QED
    BY <1>2, <1>3, <2>1
<1>4. OwnersKept(t)
  <2>1. \A q \in Ports : \A c \in {senderCondition(q), receiverCondition(q)} : c \in Conditions
    BY PortNames
  <2> QED
    BY <1>3, <2>1 DEF OwnersKept
<1>5. GoneStay /\ NewSame
  BY <1>1, InvParts, StatusAtV DEF Release
<1> QED
  BY <1>2, <1>4, <1>5 DEF IsRunning

\* Condition::Wait up to the Release.
LEMMA WaitCall ==
    ASSUME LifeInv, NEW t \in Threads, NEW p \in Ports, IsRunning(t), InNoAcquire(t),
           NEW c \in {senderCondition(p), receiverCondition(p)}, NEW b \in Seq(Steps),
           StartWait(t, c, p, b)
    PROVE  /\ LockInv' /\ OwnersKept(t) /\ WellPlaced(t)'
           /\ pending' \in [Threads -> Seq(Steps)]
           /\ pending'[t] = Cons(SleepOf(t), Cons(Reacq(p), b))
           /\ \A u \in Threads \ {t} : pending'[u] = pending[u]
           /\ threadQueue' \in [Conditions -> Seq(Threads)]
           /\ GoneStay /\ NewSame /\ status[t] = "RUNNING"
<1>1. /\ Release(t, p)
      /\ threadQueue' = [threadQueue EXCEPT ![c] = Append(threadQueue[c], t)]
      /\ pending' = [pending EXCEPT ![t] = <<SleepOf(t), Reacq(p)>> \o b]
  BY DEF StartWait, SleepOf, Reacq
<1>2. c \in Conditions /\ SleepOf(t) \in Steps /\ Reacq(p) \in Steps
  BY PortNames, StepTypes
<1>3. /\ Cons(Reacq(p), b) \in Seq(Steps)
      /\ Cons(SleepOf(t), Cons(Reacq(p), b)) \in Seq(Steps)
      /\ Cons(SleepOf(t), Cons(Reacq(p), b)) # <<>>
      /\ Head(Cons(SleepOf(t), Cons(Reacq(p), b))) = SleepOf(t)
  BY <1>2, ConsProperties
<1>4. <<SleepOf(t), Reacq(p)>> \o b = Cons(SleepOf(t), Cons(Reacq(p), b))
  BY <1>2, TwoInFront
<1>5. /\ pending' \in [Threads -> Seq(Steps)]
      /\ pending'[t] = Cons(SleepOf(t), Cons(Reacq(p), b))
      /\ \A u \in Threads \ {t} : pending'[u] = pending[u]
  BY <1>1, <1>3, <1>4, InvParts
<1>6. /\ threadQueue' \in [Conditions -> Seq(Threads)]
      /\ \A d \in Conditions : threadQueue[d] # <<>> => threadQueue'[d] # <<>>
  <2>1. threadQueue[c] \in Seq(Threads)
    BY <1>2, InvParts
  <2>2. Append(threadQueue[c], t) \in Seq(Threads) /\ Append(threadQueue[c], t) # <<>>
    BY <2>1
  <2> QED
    BY <1>1, <1>2, <2>2, InvParts
<1>7. NextIs(t, SleepOf(t))' /\ SleepOf(t).step = "Sleep"
  BY <1>3, <1>5, StepFields DEF NextIs, SleepOf
<1>8. WellPlaced(t)' /\ InNoAcquire(t)'
  BY <1>7, OutsideNextNext
<1> QED
  BY <1>1, <1>5, <1>6, <1>8, ReleaseCall

\* Condition::Signal up to its V().
LEMMA SignalCall ==
    ASSUME LifeInv, NEW t \in Threads, NEW p \in Ports, IsRunning(t), InNoAcquire(t),
           ownerThread[p] = t,
           NEW c \in {senderCondition(p), receiverCondition(p)}, NEW b \in Seq(Steps),
           StartSignal(t, c, "Pop", b)
    PROVE  /\ LockInv' /\ OwnersKept(t) /\ WellPlaced(t)'
           /\ pending' \in [Threads -> Seq(Steps)] /\ pending'[t] = Cons(Step("Pop", c), b)
           /\ \A u \in Threads \ {t} : pending'[u] = pending[u]
           /\ threadQueue' \in [Conditions -> Seq(Threads)]
           /\ GoneStay /\ NewSame /\ status[t] = "RUNNING"
<1>1. /\ threadQueue[c] # <<>> /\ V(Head(threadQueue[c]))
      /\ pending' = [pending EXCEPT ![t] = Cons(Step("Pop", c), b)]
      /\ UNCHANGED <<priority, lockVars, threadQueue>>
  BY DEF StartSignal, Cons
<1>2. c \in Conditions /\ Step("Pop", c) \in Steps /\ Step("Pop", c) \in InsideSteps(p)
  BY PortNames, StepTypes DEF InsideSteps
<1>3. /\ Cons(Step("Pop", c), b) \in Seq(Steps) /\ Cons(Step("Pop", c), b) # <<>>
      /\ Head(Cons(Step("Pop", c), b)) = Step("Pop", c)
  BY <1>2, ConsProperties
<1>4. /\ pending' \in [Threads -> Seq(Steps)] /\ pending'[t] = Cons(Step("Pop", c), b)
      /\ \A u \in Threads \ {t} : pending'[u] = pending[u]
  BY <1>1, <1>3, InvParts
<1>5. NextIs(t, Step("Pop", c))'
  BY <1>3, <1>4 DEF NextIs
<1>6. /\ ownerThread'[p] = t
      /\ \A d : Step("Pop", c) = Step("Pop", d) => threadQueue'[d] # <<>>
  BY <1>1, StepFields DEF lockVars
<1>7. WellPlaced(t)' /\ InNoAcquire(t)'
  BY <1>2, <1>5, <1>6, InsideNextNext
<1>8. Head(threadQueue[c]) \in Semaphores \ Locks
  <2>1. threadQueue[c] \in Seq(Threads)
    BY <1>2, InvParts
  <2>2. Head(threadQueue[c]) \in Threads
    BY <1>1, <2>1
  <2> QED
    BY <2>2, PortNames
<1>9. LockInv'
  BY <1>1, <1>4, <1>7, <1>8, InvParts, VLockInv
<1>10. GoneStay /\ NewSame
  BY <1>1, <1>8, InvParts, StatusAtV
<1>11. OwnersKept(t)
  BY <1>1, OwnersSame DEF lockVars
<1> QED
  BY <1>1, <1>4, <1>7, <1>9, <1>10, <1>11, InvParts DEF IsRunning

\* A step on a port that leaves the kernel and the locks alone.
LEMMA MoveOn ==
    ASSUME LifeInv, NEW t \in Threads, NEW p \in Ports, IsRunning(t), InNoAcquire(t),
           ownerThread[p] = t, UNCHANGED <<kernelVars, lockVars, threadQueue>>,
           NEW x \in InsideSteps(p), x \in Steps, \A c : x # Step("Pop", c), NEW b \in Seq(Steps),
           pending' = [pending EXCEPT ![t] = Cons(x, b)]
    PROVE  /\ LockInv' /\ OwnersKept(t) /\ WellPlaced(t)'
           /\ pending' \in [Threads -> Seq(Steps)] /\ pending'[t] = Cons(x, b)
           /\ \A u \in Threads \ {t} : pending'[u] = pending[u]
           /\ threadQueue' \in [Conditions -> Seq(Threads)]
           /\ GoneStay /\ NewSame /\ status[t] = "RUNNING"
<1>1. Cons(x, b) \in Seq(Steps) /\ Cons(x, b) # <<>> /\ Head(Cons(x, b)) = x
  BY ConsProperties
<1>2. /\ pending' \in [Threads -> Seq(Steps)] /\ pending'[t] = Cons(x, b)
      /\ \A u \in Threads \ {t} : pending'[u] = pending[u]
  BY <1>1, InvParts
<1>3. NextIs(t, x)' /\ ownerThread'[p] = t
  BY <1>1, <1>2 DEF NextIs, lockVars
<1>4. WellPlaced(t)' /\ InNoAcquire(t)'
  BY <1>3, InsideNextNext
<1>5. LockInv'
  BY <1>2, <1>4, InvParts, CallLockInv
<1>6. GoneStay /\ NewSame
  BY StatusSame DEF kernelVars, cpuVars, semVars
<1>7. OwnersKept(t)
  BY OwnersSame DEF lockVars
<1> QED
  BY <1>2, <1>4, <1>5, <1>6, <1>7, InvParts DEF IsRunning

-----------------------------------------------------------------------------
(* The steps of Port::Send: a thread in Finish sends its status.           *)

LEMMA AtSendNext ==
    ASSUME NEW t \in Threads, t \in Joinable, NEW s \in {"Unlock"} \cup SendNames, NEW p,
           CallInv, NextIs(t, Step(s, p))
    PROVE  /\ t \in finishing /\ p = joinPort(t) /\ p \in Ports
           /\ pending[t] = SendFrom(t, s) /\ Tail(pending[t]) = <<Die(t)>>
           /\ ownerThread[p] = t /\ InNoAcquire(t)
           /\ <<Die(t)>> \in Seq(Steps)
<1>1. t \in finishing /\ p = joinPort(t) /\ pending[t] = SendFrom(t, s)
  BY CallOfNext DEF NextSaysCall, CallInv
<1>2. Tail(pending[t]) = <<Die(t)>> /\ p \in Ports
  BY <1>1, SendTypes, PortNames
<1>3. Step(s, p) \in InsideSteps(p)
  BY DEF InsideSteps
<1> QED
  BY <1>1, <1>2, <1>3, InsideNext, OneStep, StepTypes

LEMMA SendersAreJoinable ==
    ASSUME NEW t \in Threads, CallInv, NEW s \in {"Unlock"} \cup SendNames, NEW p,
           NextIs(t, Step(s, p))
    PROVE  t \in Joinable
BY CallOfNext DEF NextSaysCall, CallInv

LEMMA EnterSendStep ==
    ASSUME LifeInv, NEW t \in Threads, NEW p \in Ports, EnterSend(t, p), NothingDied,
           UNCHANGED lifeVars
    PROVE  LifeInv' /\ TreeEffect
<1>1. /\ NextIs(t, Step("EnterSend", p)) /\ IsRunning(t)
      /\ GoOn(t, <<Step("TestSend", p)>>)
      /\ UNCHANGED <<kernelVars, lockVars, threadQueue, buffer, receivers, message>>
  BY DEF EnterSend, NextStep, NextIs, Step
<1>2. "EnterSend" \in SendNames /\ "TestSend" \in SendNames
  BY DEF SendNames
<1>3. t \in Joinable
  BY <1>1, <1>2, InvParts, SendersAreJoinable
<1>4. /\ t \in finishing /\ p = joinPort(t) /\ pending[t] = SendFrom(t, "EnterSend")
      /\ Tail(pending[t]) = <<Die(t)>> /\ ownerThread[p] = t /\ InNoAcquire(t)
      /\ <<Die(t)>> \in Seq(Steps)
  BY <1>1, <1>2, <1>3, InvParts, AtSendNext
<1>5. pending' = [pending EXCEPT ![t] = Cons(Step("TestSend", p), <<Die(t)>>)]
  BY <1>1, <1>4, InvParts DEF GoOn, Cons
<1>6. /\ Step("TestSend", p) \in InsideSteps(p) /\ Step("TestSend", p) \in Steps
      /\ \A c : Step("TestSend", p) # Step("Pop", c)
  BY <1>2, StepTypes, StepFields DEF InsideSteps
<1>7. /\ LockInv' /\ OwnersKept(t) /\ WellPlaced(t)'
      /\ pending' \in [Threads -> Seq(Steps)]
      /\ pending'[t] = Cons(Step("TestSend", p), <<Die(t)>>)
      /\ \A u \in Threads \ {t} : pending'[u] = pending[u]
      /\ threadQueue' \in [Conditions -> Seq(Threads)]
      /\ GoneStay /\ NewSame /\ status[t] = "RUNNING"
  BY <1>1, <1>4, <1>5, <1>6, MoveOn
<1>8. pending'[t] = SendFrom(t, "TestSend") /\ finishing' = finishing
  BY <1>4, <1>7 DEF SendFrom, lifeVars
<1>9. SameCall(t)
  <2>1. AtSend(t, SendFrom(t, "EnterSend"))
    BY <1>2, <1>3, <1>4 DEF AtSend, Acquires
  <2>2. AtSend(t, SendFrom(t, "TestSend"))'
    BY <1>2, <1>3, <1>4, <1>8 DEF AtSend, Acquires, SendFrom
  <2> QED
    BY <2>1, <2>2 DEF SameCall
<1> QED
  BY <1>1, <1>7, <1>9, SameCallKeeps, RoleStep

LEMMA WaitToSendStep ==
    ASSUME LifeInv, NEW t \in Threads, NEW p \in Ports, WaitToSend(t, p), NothingDied,
           UNCHANGED lifeVars
    PROVE  LifeInv' /\ TreeEffect
<1>1. /\ NextIs(t, Step("TestSend", p)) /\ IsRunning(t)
      /\ StartWait(t, senderCondition(p), p, pending[t])
      /\ UNCHANGED <<buffer, message>>
  BY DEF WaitToSend, NextStep, NextIs, Step, portVars
<1>2. "TestSend" \in SendNames
  BY DEF SendNames
<1>3. t \in Joinable
  BY <1>1, <1>2, InvParts, SendersAreJoinable
<1>4. /\ t \in finishing /\ p = joinPort(t) /\ pending[t] = SendFrom(t, "TestSend")
      /\ InNoAcquire(t)
  BY <1>1, <1>2, <1>3, InvParts, AtSendNext
<1>5. pending[t] \in Seq(Steps)
  BY InvParts
<1>6. /\ LockInv' /\ OwnersKept(t) /\ WellPlaced(t)'
      /\ pending' \in [Threads -> Seq(Steps)]
      /\ pending'[t] = Cons(SleepOf(t), Cons(Reacq(p), pending[t]))
      /\ \A u \in Threads \ {t} : pending'[u] = pending[u]
      /\ threadQueue' \in [Conditions -> Seq(Threads)]
      /\ GoneStay /\ NewSame /\ status[t] = "RUNNING"
  BY <1>1, <1>4, <1>5, WaitCall
<1>7. finishing' = finishing
  BY DEF lifeVars
<1>8. SameCall(t)
  <2>1. AtSend(t, SendFrom(t, "TestSend"))
    BY <1>2, <1>3, <1>4 DEF AtSend, Acquires
  <2>2. AtSend(t, SendFrom(t, "TestSend"))'
    BY <1>2, <1>3, <1>4, <1>6, <1>7 DEF AtSend, Acquires, SendFrom
  <2> QED
    BY <2>1, <2>2 DEF SameCall
<1> QED
  BY <1>1, <1>6, <1>8, SameCallKeeps, RoleStep

\* The message is in the port: the process has exited.
LEMMA ExitStep ==
    ASSUME LifeInv, NEW t \in Threads, t \in Joinable, status[t] = "RUNNING", Sends(t),
           LockInv', pending' \in [Threads -> Seq(Steps)],
           threadQueue' \in [Conditions -> Seq(Threads)],
           \A u \in Threads \ {t} : pending'[u] = pending[u],
           buffer' = [buffer EXCEPT ![joinPort(t)] = message[t]],
           UNCHANGED <<message, lifeVars>>, NothingDied,
           GoneStay, NewSame, OwnersKept(t),
           CallShape(t)', Leaves(t)' \/ Ended(t)', WellPlaced(t)'
    PROVE  LifeInv' /\ TreeEffect
<1>1. UNCHANGED <<message, childrenToJoin, finishing, deletedPorts, halted>>
  BY DEF lifeVars
<1>2. /\ InSend(t) /\ Unsent(t) /\ ~Done(t) /\ JoinsOf(t) = {} /\ InJoins(t) = {}
      /\ ~InSend(t)' /\ ~Unsent(t)' /\ JoinsOf(t)' = {} /\ InJoins(t)' = {}
  BY DEF Sends, Leaves, Ended, Role
<1>3. message[t] \in Threads /\ childrenToJoin[t] = {} /\ message[t] # NoMessage
  BY <1>2, InvParts, PortNames DEF InCallWell
<1>4. LifeType'
  <2>1. buffer' \in [Ports -> Threads \cup {NoMessage}]
    BY <1>3, InvParts DEF LifeType
  <2> QED
    BY <1>1, <2>1, InvParts DEF LifeType
<1>5. CarcassInv'
  BY <1>1, InvParts, NothingDiedCarcass DEF LockInv
<1>6. InCallWell(t)'
  BY <1>2 DEF InCallWell, WellPlaced
<1>7. OthersKept(t)
  BY <1>1 DEF OthersKept, GoneStay
<1>8. CallInv' /\ \A u \in Threads \ {t} : SameRole(u)
  BY <1>6, <1>7, InvParts, CallInvStep
<1>9. OthersInTree(t)
  BY <1>7, <1>8 DEF OthersInTree, OthersKept
<1>10. TreeInv' /\ Exits(t)
  BY <1>1, <1>2, <1>3, <1>9, InvParts, RunningThread, ExitTree
<1> QED
  BY <1>4, <1>5, <1>8, <1>10 DEF LifeInv, TreeEffect

LEMMA PutMessageStep ==
    ASSUME LifeInv, NEW t \in Threads, NEW p \in Ports, PutMessage(t, p), NothingDied,
           UNCHANGED lifeVars
    PROVE  LifeInv' /\ TreeEffect
<1>1. /\ NextIs(t, Step("TestSend", p)) /\ IsRunning(t)
      /\ buffer' = [buffer EXCEPT ![p] = message[t]] /\ UNCHANGED message
  BY DEF PutMessage, NextStep, NextIs, Step
<1>2. "TestSend" \in SendNames
  BY DEF SendNames
<1>3. t \in Joinable
  BY <1>1, <1>2, InvParts, SendersAreJoinable
<1>4. /\ t \in finishing /\ p = joinPort(t) /\ pending[t] = SendFrom(t, "TestSend")
      /\ Tail(pending[t]) = <<Die(t)>> /\ ownerThread[p] = t /\ InNoAcquire(t)
      /\ <<Die(t)>> \in Seq(Steps)
  BY <1>1, <1>2, <1>3, InvParts, AtSendNext
<1>5. finishing' = finishing /\ status[t] = "RUNNING"
  BY <1>1 DEF lifeVars, IsRunning
<1>6. Sends(t)
  <2>1. AtSend(t, SendFrom(t, "TestSend"))
    BY <1>2, <1>3, <1>4 DEF AtSend, Acquires
  <2> QED
    BY <2>1, RoleAndShapeOf DEF RoleAndShape
<1>7. CASE StartSignal(t, receiverCondition(p), "Pop",
                       <<Step("Unlock", p)>> \o Tail(pending[t]))
  <2>1. SendFrom(t, "Unlock") = <<Step("Unlock", p)>> \o Tail(pending[t])
    BY <1>4 DEF SendFrom, Cons
  <2>2. SendFrom(t, "Unlock") \in Seq(Steps)
    BY <1>3, SendTypes
  <2>3. /\ LockInv' /\ OwnersKept(t) /\ WellPlaced(t)'
        /\ pending' \in [Threads -> Seq(Steps)]
        /\ pending'[t] = Cons(Step("Pop", receiverCondition(p)), SendFrom(t, "Unlock"))
        /\ \A u \in Threads \ {t} : pending'[u] = pending[u]
        /\ threadQueue' \in [Conditions -> Seq(Threads)]
        /\ GoneStay /\ NewSame
    BY <1>1, <1>4, <1>7, <2>1, <2>2, SignalCall
  <2>4. AtUnlock(t, SendFrom(t, "Unlock"))'
    BY <1>3, <1>4, <1>5, <2>3 DEF AtUnlock, Pops, SendFrom
  <2>5. Leaves(t)' /\ CallShape(t)'
    BY <2>4, RoleAndShapeNext DEF RoleAndShape
  <2> QED
    BY <1>1, <1>3, <1>4, <1>5, <1>6, <2>3, <2>5, ExitStep
<1>8. CASE Release(t, p) /\ Return(t) /\ UNCHANGED threadQueue
  <2>1. /\ pending' \in [Threads -> Seq(Steps)] /\ pending'[t] = <<Die(t)>>
        /\ \A u \in Threads \ {t} : pending'[u] = pending[u]
    BY <1>4, <1>8, InvParts DEF Return
  <2>2. Head(<<Die(t)>>) = Die(t) /\ <<Die(t)>> # <<>> /\ Die(t).step = "Die"
    BY OneStep, StepTypes, StepFields DEF Die
  <2>3. NextIs(t, Die(t))'
    BY <2>1, <2>2 DEF NextIs
  <2>4. WellPlaced(t)' /\ InNoAcquire(t)'
    BY <2>2, <2>3, OutsideNextNext
  <2>5. LockInv' /\ OwnersKept(t) /\ GoneStay /\ NewSame
    BY <1>1, <1>4, <1>8, <2>1, <2>4, ReleaseCall
  <2>6. CallShape(t)'
    BY <1>3, <1>4, <1>5, <2>1 DEF CallShape, Die
  <2>7. Ended(t)'
    BY <1>4, <1>5, <2>1, RoleOfCallNext DEF RoleFacts, Die
  <2>8. threadQueue' \in [Conditions -> Seq(Threads)]
    BY <1>8, InvParts
  <2> QED
    BY <1>1, <1>3, <1>4, <1>5, <1>6, <2>1, <2>4, <2>5, <2>6, <2>7, <2>8, ExitStep
<1> QED
  BY <1>7, <1>8 DEF PutMessage

\* lock->Release(), the end of Send.
LEMMA UnlockStep ==
    ASSUME LifeInv, NEW t \in Threads, NEW p \in Ports, Unlock(t, p), NothingDied,
           UNCHANGED lifeVars
    PROVE  LifeInv' /\ TreeEffect
<1>1. /\ NextIs(t, Step("Unlock", p)) /\ IsRunning(t) /\ Release(t, p) /\ Return(t)
      /\ UNCHANGED <<threadQueue, buffer, message>>
  BY DEF Unlock, NextStep, NextIs, Step, portVars
<1>2. UNCHANGED <<childrenToJoin, finishing, deletedPorts, halted>> /\ status[t] = "RUNNING"
  BY <1>1 DEF lifeVars, IsRunning
<1>3. t \in Joinable
  BY <1>1, InvParts, SendersAreJoinable
<1>4. /\ t \in finishing /\ p = joinPort(t) /\ pending[t] = SendFrom(t, "Unlock")
      /\ Tail(pending[t]) = <<Die(t)>> /\ InNoAcquire(t) /\ <<Die(t)>> \in Seq(Steps)
  BY <1>1, <1>3, InvParts, AtSendNext
<1>5. Leaves(t)
  <2>1. AtUnlock(t, SendFrom(t, "Unlock"))
    BY <1>3, <1>4 DEF AtUnlock, Pops
  <2> QED
    BY <2>1, RoleAndShapeOf DEF RoleAndShape
<1>6. /\ pending' \in [Threads -> Seq(Steps)] /\ pending'[t] = <<Die(t)>>
      /\ \A u \in Threads \ {t} : pending'[u] = pending[u]
  BY <1>1, <1>4, InvParts DEF Return
<1>7. Head(<<Die(t)>>) = Die(t) /\ <<Die(t)>> # <<>> /\ Die(t).step = "Die"
  BY OneStep, StepTypes, StepFields DEF Die
<1>8. NextIs(t, Die(t))'
  BY <1>6, <1>7 DEF NextIs
<1>9. WellPlaced(t)' /\ InNoAcquire(t)'
  BY <1>7, <1>8, OutsideNextNext
<1>10. LockInv' /\ OwnersKept(t) /\ GoneStay /\ NewSame
  BY <1>1, <1>4, <1>6, <1>9, ReleaseCall
<1>11. CallShape(t)'
  BY <1>2, <1>3, <1>4, <1>6 DEF CallShape, Die
<1>12. Ended(t)'
  BY <1>2, <1>4, <1>6, RoleOfCallNext DEF RoleFacts, Die
<1>13. InCallWell(t)'
  BY <1>9, <1>11, <1>12 DEF InCallWell, WellPlaced, Ended
<1>14. LifeType' /\ CarcassInv'
  BY <1>1, <1>2, <1>6, <1>10, InvParts, NothingDiedCarcass DEF LifeType, LockInv
<1>15. OthersKept(t)
  BY <1>1, <1>2, <1>6, <1>10 DEF OthersKept, GoneStay
<1>16. QuietInTree(t)
  BY <1>2, <1>5, <1>12, InvParts, RoleQuiet DEF Leaves, Ended, Role
<1> QED
  BY <1>1, <1>2, <1>10, <1>13, <1>14, <1>15, <1>16, RunningThread, QuietStep

-----------------------------------------------------------------------------
(* The steps of Port::Receive: a thread joins a child.                     *)

LEMMA AtReceiveNext ==
    ASSUME NEW t \in Threads, NEW s \in ReceiveNames, NEW p, CallInv, NextIs(t, Step(s, p))
    PROVE  /\ p \in Ports /\ ownerThread[p] = t /\ InNoAcquire(t)
           /\ \E c \in Joinable :
                /\ p = joinPort(c) /\ pending[t] = ReceiveFrom(t, c, s)
                /\ Tail(pending[t]) = AfterReceive(t, c) /\ AfterReceive(t, c) \in Seq(Steps)
<1>1. PICK c \in Joinable : p = joinPort(c) /\ pending[t] = ReceiveFrom(t, c, s)
  BY CallOfNext DEF NextSaysCall, CallInv
<1>2. Tail(pending[t]) = AfterReceive(t, c) /\ AfterReceive(t, c) \in Seq(Steps) /\ p \in Ports
  BY <1>1, ReceiveTypes, RestTypes, PortNames
<1>3. Step(s, p) \in InsideSteps(p)
  BY DEF InsideSteps
<1> QED
  BY <1>1, <1>2, <1>3, InsideNext

LEMMA EnterReceiveStep ==
    ASSUME LifeInv, NEW t \in Threads, NEW p \in Ports, EnterReceive(t, p), NothingDied,
           UNCHANGED lifeVars
    PROVE  LifeInv' /\ TreeEffect
<1>1. /\ NextIs(t, Step("EnterReceive", p)) /\ IsRunning(t)
      /\ GoOn(t, <<Step("TestReceive", p)>>)
      /\ UNCHANGED <<kernelVars, lockVars, threadQueue, buffer, senders, message>>
  BY DEF EnterReceive, NextStep, NextIs, Step
<1>2. "EnterReceive" \in ReceiveNames /\ "TestReceive" \in ReceiveNames
  BY DEF ReceiveNames
<1>3. /\ ownerThread[p] = t /\ InNoAcquire(t)
      /\ \E c \in Joinable :
            /\ p = joinPort(c) /\ pending[t] = ReceiveFrom(t, c, "EnterReceive")
            /\ Tail(pending[t]) = AfterReceive(t, c) /\ AfterReceive(t, c) \in Seq(Steps)
  BY <1>1, <1>2, InvParts, AtReceiveNext
<1>4. PICK c \in Joinable :
            /\ p = joinPort(c) /\ pending[t] = ReceiveFrom(t, c, "EnterReceive")
            /\ Tail(pending[t]) = AfterReceive(t, c) /\ AfterReceive(t, c) \in Seq(Steps)
  BY <1>3
<1>5. pending' = [pending EXCEPT ![t] = Cons(Step("TestReceive", p), AfterReceive(t, c))]
  BY <1>1, <1>4, InvParts DEF GoOn, Cons
<1>6. /\ Step("TestReceive", p) \in InsideSteps(p) /\ Step("TestReceive", p) \in Steps
      /\ \A d : Step("TestReceive", p) # Step("Pop", d)
  BY <1>2, StepTypes, StepFields DEF InsideSteps
<1>7. /\ LockInv' /\ OwnersKept(t) /\ WellPlaced(t)'
      /\ pending' \in [Threads -> Seq(Steps)]
      /\ pending'[t] = Cons(Step("TestReceive", p), AfterReceive(t, c))
      /\ \A u \in Threads \ {t} : pending'[u] = pending[u]
      /\ threadQueue' \in [Conditions -> Seq(Threads)]
      /\ GoneStay /\ NewSame /\ status[t] = "RUNNING"
  BY <1>1, <1>3, <1>4, <1>5, <1>6, MoveOn
<1>8. finishing' = finishing
  BY DEF lifeVars
<1>9. SameCall(t)
  <2>1. AtReceive(t, c, ReceiveFrom(t, c, "EnterReceive"))
    BY <1>4 DEF AtReceive, Acquires
  <2>2. pending'[t] = ReceiveFrom(t, c, "TestReceive")'
    BY <1>4, <1>7, <1>8, BodiesStay DEF ReceiveFrom
  <2>3. AtReceive(t, c, ReceiveFrom(t, c, "TestReceive"))'
    BY <2>2 DEF AtReceive, Acquires
  <2> QED
    BY <2>1, <2>3 DEF SameCall
<1> QED
  BY <1>1, <1>7, <1>9, SameCallKeeps, RoleStep

LEMMA SignalSenderStep ==
    ASSUME LifeInv, NEW t \in Threads, NEW p \in Ports, SignalSender(t, p), NothingDied,
           UNCHANGED lifeVars
    PROVE  LifeInv' /\ TreeEffect
<1>1. /\ NextIs(t, Step("TestReceive", p)) /\ IsRunning(t)
      /\ StartSignal(t, senderCondition(p), "Pop",
                     <<Step("WaitToReceive", p)>> \o Tail(pending[t]))
      /\ UNCHANGED <<buffer, message>>
  BY DEF SignalSender, NextStep, NextIs, Step, portVars
<1>2. "TestReceive" \in ReceiveNames /\ "WaitToReceive" \in ReceiveNames
  BY DEF ReceiveNames
<1>3. /\ ownerThread[p] = t /\ InNoAcquire(t)
      /\ \E c \in Joinable :
            /\ p = joinPort(c) /\ pending[t] = ReceiveFrom(t, c, "TestReceive")
            /\ Tail(pending[t]) = AfterReceive(t, c) /\ AfterReceive(t, c) \in Seq(Steps)
  BY <1>1, <1>2, InvParts, AtReceiveNext
<1>4. PICK c \in Joinable :
            /\ p = joinPort(c) /\ pending[t] = ReceiveFrom(t, c, "TestReceive")
            /\ Tail(pending[t]) = AfterReceive(t, c) /\ AfterReceive(t, c) \in Seq(Steps)
  BY <1>3
<1>5. ReceiveFrom(t, c, "WaitToReceive") = <<Step("WaitToReceive", p)>> \o Tail(pending[t])
  BY <1>4 DEF ReceiveFrom, Cons
<1>6. ReceiveFrom(t, c, "WaitToReceive") \in Seq(Steps)
  BY <1>2, ReceiveTypes
<1>7. /\ LockInv' /\ OwnersKept(t) /\ WellPlaced(t)'
      /\ pending' \in [Threads -> Seq(Steps)]
      /\ pending'[t] = Cons(Step("Pop", senderCondition(p)), ReceiveFrom(t, c, "WaitToReceive"))
      /\ \A u \in Threads \ {t} : pending'[u] = pending[u]
      /\ threadQueue' \in [Conditions -> Seq(Threads)]
      /\ GoneStay /\ NewSame /\ status[t] = "RUNNING"
  BY <1>1, <1>3, <1>5, <1>6, SignalCall
<1>8. finishing' = finishing
  BY DEF lifeVars
<1>9. SameCall(t)
  <2>1. AtReceive(t, c, ReceiveFrom(t, c, "TestReceive"))
    BY <1>4 DEF AtReceive, Acquires
  <2>2. ReceiveFrom(t, c, "WaitToReceive")' = ReceiveFrom(t, c, "WaitToReceive")
    BY <1>8, BodiesStay
  <2>3. AtReceive(t, c, ReceiveFrom(t, c, "WaitToReceive"))'
    BY <1>4, <1>7, <2>2 DEF AtReceive, Pops
  <2> QED
    BY <2>1, <2>3 DEF SameCall
<1> QED
  BY <1>1, <1>7, <1>9, SameCallKeeps, RoleStep

LEMMA WaitToReceiveStep ==
    ASSUME LifeInv, NEW t \in Threads, NEW p \in Ports, WaitToReceive(t, p), NothingDied,
           UNCHANGED lifeVars
    PROVE  LifeInv' /\ TreeEffect
<1>1. /\ \E s \in {"WaitToReceive", "TestReceive"} : NextIs(t, Step(s, p))
      /\ IsRunning(t)
      /\ StartWait(t, receiverCondition(p), p, <<Step("TestReceive", p)>> \o Tail(pending[t]))
      /\ UNCHANGED <<buffer, message>>
  BY DEF WaitToReceive, NextStep, NextIs, Step, portVars
<1>2. PICK s \in {"WaitToReceive", "TestReceive"} : NextIs(t, Step(s, p))
  BY <1>1
<1>3. s \in ReceiveNames /\ "TestReceive" \in ReceiveNames
  BY DEF ReceiveNames
<1>4. /\ InNoAcquire(t)
      /\ \E c \in Joinable :
            /\ p = joinPort(c) /\ pending[t] = ReceiveFrom(t, c, s)
            /\ Tail(pending[t]) = AfterReceive(t, c) /\ AfterReceive(t, c) \in Seq(Steps)
  BY <1>2, <1>3, InvParts, AtReceiveNext
<1>5. PICK c \in Joinable :
            /\ p = joinPort(c) /\ pending[t] = ReceiveFrom(t, c, s)
            /\ Tail(pending[t]) = AfterReceive(t, c) /\ AfterReceive(t, c) \in Seq(Steps)
  BY <1>4
<1>6. ReceiveFrom(t, c, "TestReceive") = <<Step("TestReceive", p)>> \o Tail(pending[t])
  BY <1>5 DEF ReceiveFrom, Cons
<1>7. ReceiveFrom(t, c, "TestReceive") \in Seq(Steps)
  BY <1>3, ReceiveTypes
<1>8. /\ LockInv' /\ OwnersKept(t) /\ WellPlaced(t)'
      /\ pending' \in [Threads -> Seq(Steps)]
      /\ pending'[t] = Cons(SleepOf(t), Cons(Reacq(p), ReceiveFrom(t, c, "TestReceive")))
      /\ \A u \in Threads \ {t} : pending'[u] = pending[u]
      /\ threadQueue' \in [Conditions -> Seq(Threads)]
      /\ GoneStay /\ NewSame /\ status[t] = "RUNNING"
  BY <1>1, <1>4, <1>6, <1>7, WaitCall
<1>9. finishing' = finishing
  BY DEF lifeVars
<1>10. SameCall(t)
  <2>1. AtReceive(t, c, ReceiveFrom(t, c, s))
    BY <1>5 DEF AtReceive, Acquires, Pops
  <2>2. ReceiveFrom(t, c, "TestReceive")' = ReceiveFrom(t, c, "TestReceive")
    BY <1>9, BodiesStay
  <2>3. AtReceive(t, c, ReceiveFrom(t, c, "TestReceive"))'
    BY <1>5, <1>8, <2>2 DEF AtReceive, Acquires, SleepOf, Reacq
  <2> QED
    BY <2>1, <2>3 DEF SameCall
<1> QED
  BY <1>1, <1>8, <1>10, SameCallKeeps, RoleStep

\* Whose message is in the port has nothing more to do with it, once the lock
\* is another's.
LEMMA SentAndGone ==
    ASSUME LifeInv, NEW t \in Threads, NEW c \in Joinable, Unsent(t),
           ownerThread[joinPort(c)] = t, buffer[joinPort(c)] # NoMessage
    PROVE  Done(c)
<1>1. ~Unsent(c)
  BY InvParts DEF TreeInv, UnsentAreChildren
<1>2. c # t /\ c \in Threads /\ joinPort(c) \in Ports
  BY <1>1, PortNames
<1>3. ~Inside(c, joinPort(c))
  BY <1>2, InvParts DEF CallInv, InsideOwn
<1> QED
  BY <1>1, <1>2, <1>3, InvParts, RoleOfShape

\* The status is taken out of the port, and the child has been joined.
LEMMA TakeMessageStep ==
    ASSUME LifeInv, NEW t \in Threads, NEW p \in Ports, TakeMessage(t, p), NothingDied,
           UNCHANGED lifeVars
    PROVE  LifeInv' /\ TreeEffect
<1>1. /\ NextIs(t, Step("TestReceive", p)) /\ IsRunning(t) /\ status[t] = "RUNNING"
      /\ buffer[p] # NoMessage /\ Release(t, p) /\ Return(t)
      /\ message' = [message EXCEPT ![t] = buffer[p]]
      /\ buffer' = [buffer EXCEPT ![p] = NoMessage] /\ UNCHANGED threadQueue
  BY DEF TakeMessage, NextStep, NextIs, Step, IsRunning
<1>2. UNCHANGED <<childrenToJoin, finishing, deletedPorts, halted>>
  BY DEF lifeVars
<1>3. "TestReceive" \in ReceiveNames
  BY DEF ReceiveNames
<1>4. /\ ownerThread[p] = t /\ InNoAcquire(t)
      /\ \E c \in Joinable :
            /\ p = joinPort(c) /\ pending[t] = ReceiveFrom(t, c, "TestReceive")
            /\ Tail(pending[t]) = AfterReceive(t, c) /\ AfterReceive(t, c) \in Seq(Steps)
  BY <1>1, <1>3, InvParts, AtReceiveNext
<1>5. PICK c \in Joinable :
            /\ p = joinPort(c) /\ pending[t] = ReceiveFrom(t, c, "TestReceive")
            /\ Tail(pending[t]) = AfterReceive(t, c) /\ AfterReceive(t, c) \in Seq(Steps)
  BY <1>4
<1>6. Receives(t, c)
  <2>1. AtReceive(t, c, ReceiveFrom(t, c, "TestReceive"))
    BY <1>5 DEF AtReceive, Acquires
  <2> QED
    BY <2>1, RoleAndShapeOf DEF RoleAndShape
<1>7. /\ pending' \in [Threads -> Seq(Steps)] /\ pending'[t] = AfterReceive(t, c)
      /\ \A u \in Threads \ {t} : pending'[u] = pending[u]
  BY <1>1, <1>5, InvParts DEF Return
<1>8. Deleting(t, c)'
  BY <1>2, <1>7, BodiesStay DEF Deleting
<1>9. Deletes(t, c)' /\ CallShape(t)'
  <2>1. Deletes(t, c)'
    BY <1>8, RoleOfCallNext DEF RoleFacts
  <2> QED
    BY <1>8, <2>1 DEF CallShape
<1>10. WellPlaced(t)' /\ InNoAcquire(t)'
  <2>1. AfterReceive(t, c) # <<>> /\ Head(AfterReceive(t, c)) = Delete(c)
    BY RestTypes
  <2>2. NextIs(t, Delete(c))' /\ Delete(c).step = "DeletePort"
    BY <1>7, <2>1, StepFields DEF NextIs, Delete
  <2> QED
    BY <2>2, OutsideNextNext
<1>11. LockInv' /\ OwnersKept(t) /\ GoneStay /\ NewSame
  BY <1>1, <1>4, <1>7, <1>10, ReleaseCall
<1>12. LifeType'
  <2>1. buffer \in [Ports -> Threads \cup {NoMessage}]
    BY InvParts DEF LifeType
  <2>2. buffer' \in [Ports -> Threads \cup {NoMessage}]
    BY <1>1, <2>1
  <2>3. message' \in [Threads -> Threads \cup {NoMessage}]
    BY <1>1, <2>1, InvParts
  <2> QED
    BY <1>1, <1>2, <1>7, <2>2, <2>3, InvParts DEF LifeType
<1>13. CarcassInv'
  BY <1>2, <1>11, InvParts, NothingDiedCarcass DEF LockInv
<1>14. InCallWell(t)'
  BY <1>9, <1>10 DEF InCallWell, WellPlaced, Deletes
<1>15. OthersKept(t)
  BY <1>1, <1>2, <1>7, <1>11, InvParts DEF OthersKept, GoneStay
<1>16. CallInv' /\ \A u \in Threads \ {t} : SameRole(u)
  BY <1>11, <1>14, <1>15, InvParts, CallInvStep
<1>17. OthersInTree(t)
  BY <1>15, <1>16 DEF OthersInTree, OthersKept
<1>18. /\ JoinsOf(t) = {c} /\ InJoins(t) = {c} /\ Unsent(t) /\ ~Done(t)
       /\ JoinsOf(t)' = {c} /\ InJoins(t)' = {} /\ Unsent(t)'
  BY <1>6, <1>9 DEF Receives, Deletes, Role
<1>19. Done(c)
  BY <1>1, <1>4, <1>5, <1>18, SentAndGone
<1>20. \A u \in Threads : InJoins(u) \subseteq JoinsOf(u)
  BY InvParts, RoleOfShape
<1>21. TreeInv' /\ Joins(t, c)
  BY <1>1, <1>2, <1>5, <1>11, <1>17, <1>18, <1>19, <1>20, InvParts, RunningThread, JoinTree
<1>22. c \in Threads
  BY PortNames
<1> QED
  BY <1>11, <1>12, <1>13, <1>16, <1>21, <1>22 DEF LifeInv, TreeEffect

-----------------------------------------------------------------------------
(* The steps outside the ports: Exec, the two ends of Join, and Finish.    *)

\* A step that leaves everybody where it is in its call.
LEMMA NobodyMoves ==
    ASSUME LifeInv, LockInv', CarcassInv',
           UNCHANGED <<pending, ownerThread, threadQueue, buffer, message, childrenToJoin,
                       finishing, deletedPorts>>,
           halted' \in BOOLEAN, GoneStay, NewSame
    PROVE  LifeInv' /\ TreeEffect
<1>1. PICK t \in Threads : ~IsNew(t)
  <2>1. currentThread \in Threads /\ ~IsNew(currentThread)
    BY InvParts DEF KernelInv, KernelTypeOK, Placed, NewThreadsAreNowhere, IsNew
  <2> QED
    BY <2>1
<1>2. /\ CallShape(t)' /\ SameRole(t) /\ (InSend(t)' <=> InSend(t))
      /\ \A x : NextIs(t, x)' <=> NextIs(t, x)
      /\ \A p : Inside(t, p)' <=> Inside(t, p)
  BY <1>1, InvParts, ShapeStays, RoleStays DEF GoneStay
<1>3. InCallWell(t)'
  BY <1>1, <1>2, InvParts DEF InCallWell
<1>4. LifeType'
  BY InvParts DEF LifeType
<1>5. OthersKept(t)
  BY DEF OthersKept, GoneStay
<1>6. OwnersKept(t)
  BY <1>1, OwnersSame
<1>7. QuietInTree(t)
  BY <1>1, <1>2, InvParts, RoleQuiet DEF SameRole
<1> QED
  BY <1>1, <1>3, <1>4, <1>5, <1>6, <1>7, QuietStep

\* A thread in its own code has not called Finish.
LEMMA HomeNow ==
    ASSUME LifeInv, NEW t \in Threads, InOwnCode(t)
    PROVE  /\ t \notin finishing /\ pending[t] = <<>> /\ pending[t] = AfterJoin(t) /\ AtHome(t)
           /\ InNoAcquire(t) /\ IsRunning(t) /\ status[t] = "RUNNING" /\ currentThread = t
<1>1. IsRunning(t) /\ pending[t] = <<>> /\ status[t] = "RUNNING" /\ currentThread = t
  BY DEF InOwnCode, IsRunning
<1>2. t \notin finishing
  BY <1>1, InvParts, RunningThread, RoleOfShape
<1>3. pending[t] = AfterJoin(t)
  BY <1>1, <1>2 DEF AfterJoin
<1> QED
  BY <1>1, <1>2, <1>3, RoleOfCall, PlaceOfNext DEF RoleFacts, NextOf

\* A thread in Finish, between its joins.
LEMMA FinishNow ==
    ASSUME LifeInv, NEW t \in Threads, NextStep(t, "Finish", t)
    PROVE  /\ t \in finishing /\ pending[t] = <<Step("Finish", t)>>
           /\ pending[t] = AfterJoin(t) /\ AtHome(t)
           /\ InNoAcquire(t) /\ IsRunning(t) /\ status[t] = "RUNNING"
<1>1. NextIs(t, Step("Finish", t)) /\ IsRunning(t) /\ status[t] = "RUNNING"
  BY DEF NextStep, NextIs, Step, IsRunning
<1>2. t \in finishing /\ pending[t] = <<Step("Finish", t)>>
  BY <1>1, InvParts, CallOfNext DEF NextSaysCall
<1>3. pending[t] = AfterJoin(t)
  BY <1>2 DEF AfterJoin
<1>4. InNoAcquire(t)
  BY <1>1, PlaceOfNext, StepFields DEF NextOf
<1> QED
  BY <1>1, <1>2, <1>3, <1>4, RoleOfCall DEF RoleFacts

LEMMA HomePlaced ==
    ASSUME NEW t \in Threads, pending'[t] = <<>> \/ pending'[t] = <<Step("Finish", t)>>
    PROVE  WellPlaced(t)' /\ InNoAcquire(t)'
<1>1. CASE pending'[t] = <<>>
  BY <1>1, NoNextNext
<1>2. CASE pending'[t] = <<Step("Finish", t)>>
  <2>1. <<Step("Finish", t)>> # <<>> /\ Head(<<Step("Finish", t)>>) = Step("Finish", t)
    BY ShortSequences
  <2>2. NextIs(t, Step("Finish", t))' /\ Step("Finish", t).step = "Finish"
    BY <1>2, <2>1, StepFields DEF NextIs
  <2> QED
    BY <2>2, OutsideNextNext
<1> QED
  BY <1>1, <1>2

\* Exec: a child is created and made ready.
LEMMA ExecStep ==
    ASSUME LifeInv, NEW t \in Threads, NEW c \in Joinable, Exec(t, c)
    PROVE  LifeInv' /\ TreeEffect
<1>1. /\ InOwnCode(t) /\ Fork(t, c)
      /\ childrenToJoin' = [childrenToJoin EXCEPT ![t] = @ \cup {c}]
      /\ AfterSwitch(threadToBeDestroyed, threadSet \cup {c})
      /\ UNCHANGED <<lockVars, pending, threadQueue, buffer, message,
                     finishing, deletedPorts, halted>>
  BY DEF Exec, portVars
<1>2. t \notin finishing /\ AtHome(t) /\ status[t] = "RUNNING"
  BY <1>1, HomeNow
<1>3. /\ c \in Threads /\ status[c] = "JUST_CREATED" /\ UNCHANGED waitingOn
      /\ status' = [status EXCEPT ![c] = "READY"] /\ status \in [Threads -> ThreadStatus]
  BY <1>1, InvParts, PortNames DEF Fork, semVars, KernelInv, KernelTypeOK
<1>4. LockInv'
  BY <1>1, <1>3, InvParts, SchedulerLockInv
<1>5. GoneStay /\ \A u \in Threads : IsNew(u)' <=> IsNew(u) /\ u # c
  BY <1>3 DEF GoneStay, Gone, IsNew
<1>6. LifeType'
  <2>1. childrenToJoin' \in [Threads -> SUBSET Joinable]
    BY <1>1, InvParts
  <2> QED
    BY <1>1, <2>1, InvParts DEF LifeType
<1>7. CarcassInv'
  <2>1. /\ threadToBeDestroyed \in finishing \cup {NoThread}
        /\ threadSet \cup {c} \in SUBSET Threads
    BY <1>3, InvParts DEF CarcassInv
  <2> QED
    BY <1>1, <1>4, <2>1, InvParts, SwitchCarcass DEF LockInv
<1>8. /\ CallShape(t)' /\ SameRole(t) /\ (InSend(t)' <=> InSend(t))
      /\ \A x : NextIs(t, x)' <=> NextIs(t, x)
      /\ \A p : Inside(t, p)' <=> Inside(t, p)
  BY <1>1, <1>5, InvParts, ShapeStays, RoleStays DEF GoneStay
<1>9. InCallWell(t)'
  BY <1>1, <1>2, <1>8, InvParts DEF InCallWell, AtHome, lockVars
<1>10. OthersKept(t)
  BY <1>1, <1>5, InvParts DEF OthersKept, GoneStay
<1>11. OwnersKept(t)
  BY <1>1, OwnersSame DEF lockVars
<1>12. CallInv'
  BY <1>9, <1>10, <1>11, InvParts, CallInvStep
<1>13. Unsent(t) /\ ~IsNew(t) /\ IsNew(c)
  BY <1>2, <1>3, RunningThread DEF AtHome, IsNew
<1>14. \A u \in Threads : InJoins(u) \subseteq JoinsOf(u)
  BY InvParts, RoleOfShape
<1>15. TreeInv' /\ Execs(t, c)
  BY <1>1, <1>5, <1>13, <1>14, InvParts, ExecTree
<1> QED
  BY <1>3, <1>4, <1>6, <1>7, <1>12, <1>15 DEF LifeInv, TreeEffect

\* Thread::Join up to the P() of its Receive.
LEMMA StartJoinStep ==
    ASSUME LifeInv, NEW t \in Threads, NEW c \in Joinable, IsRunning(t), status[t] = "RUNNING",
           pending[t] = AfterJoin(t), AtHome(t), InNoAcquire(t),
           StartJoin(t, c, pending[t])
    PROVE  LifeInv' /\ TreeEffect
<1> DEFINE b == ReceiveFrom(t, c, "EnterReceive")
<1>1. /\ c \in childrenToJoin[t]
      /\ childrenToJoin' = [childrenToJoin EXCEPT ![t] = @ \ {c}]
      /\ StartAcquire(t, joinPort(c), b)
      /\ NothingDied
      /\ UNCHANGED <<threadQueue, buffer, message, finishing, deletedPorts, halted>>
  BY DEF StartJoin, StartReceive, ReceiveFrom, AfterReceive, Cons, Delete, portVars
<1>2. b \in Seq(Steps) /\ joinPort(c) \in Ports
  BY ReceiveTypes, PortNames DEF ReceiveNames
<1> HIDE DEF b
<1>3. /\ LockInv' /\ UNCHANGED ownerThread
      /\ pending' \in [Threads -> Seq(Steps)] /\ pending'[t] = Cons(Own(joinPort(c)), b)
      /\ \A u \in Threads \ {t} : pending'[u] = pending[u]
      /\ WellPlaced(t)' /\ GoneStay /\ NewSame
  BY <1>1, <1>2, AcquireCall
<1>4. Receives(t, c)' /\ CallShape(t)'
  <2>1. ReceiveFrom(t, c, "EnterReceive")' = b
    BY <1>1, BodiesStay DEF b
  <2>2. AtReceive(t, c, ReceiveFrom(t, c, "EnterReceive"))'
    BY <1>3, <2>1 DEF AtReceive, Acquires
  <2> QED
    BY <2>2, RoleAndShapeNext DEF RoleAndShape
<1>5. LifeType'
  <2>1. childrenToJoin' \in [Threads -> SUBSET Joinable]
    BY <1>1, InvParts
  <2> QED
    BY <1>1, <1>3, <2>1, InvParts DEF LifeType
<1>6. CarcassInv'
  BY <1>1, <1>3, InvParts, NothingDiedCarcass DEF LockInv
<1>7. InCallWell(t)'
  BY <1>3, <1>4 DEF InCallWell, WellPlaced, Receives
<1>8. OthersKept(t)
  BY <1>1, <1>3, InvParts DEF OthersKept, GoneStay
<1>9. OwnersKept(t)
  BY <1>1, <1>3, OwnersSame
<1>10. QuietInTree(t)
  <2>1. /\ JoinsOf(t) = {} /\ InJoins(t) = {} /\ Unsent(t) /\ ~Done(t)
        /\ JoinsOf(t)' = {c} /\ InJoins(t)' = {c}
    BY <1>4 DEF AtHome, Receives, Role
  <2>2. childrenToJoin'[t] = childrenToJoin[t] \ {c}
    BY <1>1, InvParts
  <2> QED
    BY <1>1, <2>1, <2>2 DEF QuietInTree, Kids, Owned
<1> QED
  BY <1>1, <1>3, <1>5, <1>6, <1>7, <1>8, <1>9, <1>10, RunningThread, QuietStep

LEMMA JoinStep ==
    ASSUME LifeInv, NEW t \in Threads, NEW c \in Joinable, Join(t, c)
    PROVE  LifeInv' /\ TreeEffect
<1>1. InOwnCode(t) /\ StartJoin(t, c, <<>>)
  BY DEF Join
<1>2. /\ pending[t] = <<>> /\ pending[t] = AfterJoin(t) /\ AtHome(t)
      /\ InNoAcquire(t) /\ IsRunning(t) /\ status[t] = "RUNNING"
  BY <1>1, HomeNow
<1> QED
  BY <1>1, <1>2, StartJoinStep

LEMMA JoinChildStep ==
    ASSUME LifeInv, NEW t \in Threads, JoinChild(t)
    PROVE  LifeInv' /\ TreeEffect
<1>1. NextStep(t, "Finish", t)
  BY DEF JoinChild
<1>2. PICK c \in childrenToJoin[t] : StartJoin(t, c, pending[t])
  BY DEF JoinChild
<1>3. c \in Joinable
  BY InvParts
<1>4. /\ pending[t] = AfterJoin(t) /\ AtHome(t)
      /\ InNoAcquire(t) /\ IsRunning(t) /\ status[t] = "RUNNING"
  BY <1>1, FinishNow
<1> QED
  BY <1>2, <1>3, <1>4, StartJoinStep

\* The end of Thread::Join.
LEMMA DeletePortStep ==
    ASSUME LifeInv, NEW t \in Threads, NEW p \in Ports, DeletePort(t, p)
    PROVE  LifeInv' /\ TreeEffect
<1>1. /\ NextIs(t, Step("DeletePort", p)) /\ IsRunning(t) /\ status[t] = "RUNNING"
      /\ deletedPorts' = deletedPorts \cup {p} /\ Return(t)
      /\ UNCHANGED <<kernelVars, lockVars, threadQueue, buffer, message,
                     childrenToJoin, finishing, halted, carcassVars>>
  BY DEF DeletePort, NextStep, NextIs, Step, IsRunning, portVars
<1>2. PICK c \in Joinable : p = joinPort(c) /\ Deleting(t, c)
  BY <1>1, InvParts, CallOfNext DEF NextSaysCall
<1>3. Deletes(t, c)
  BY <1>2, RoleOfCall DEF RoleFacts
<1>4. AfterJoin(t) \in Seq(Steps) /\ Tail(pending[t]) = AfterJoin(t)
  BY <1>2, RestTypes DEF Deleting
<1>5. /\ pending' \in [Threads -> Seq(Steps)] /\ pending'[t] = AfterJoin(t)
      /\ \A u \in Threads \ {t} : pending'[u] = pending[u]
  BY <1>1, <1>4, InvParts DEF Return
<1>6. (pending[t] = AfterJoin(t))'
  BY <1>1, <1>5, BodiesStay
<1>7. AtHome(t)' /\ CallShape(t)'
  BY <1>6, RoleOfCallNext DEF RoleFacts, CallShape
<1>8. WellPlaced(t)' /\ InNoAcquire(t)'
  BY <1>5, HomePlaced DEF AfterJoin
<1>9. InNoAcquire(t)
  BY <1>1, PlaceOfNext, StepFields DEF NextOf
<1>10. LockInv'
  BY <1>1, <1>5, <1>8, <1>9, InvParts, CallLockInv
<1>11. GoneStay /\ NewSame
  BY <1>1, StatusSame DEF kernelVars, cpuVars, semVars
<1>12. LifeType'
  BY <1>1, <1>5, InvParts DEF LifeType
<1>13. CarcassInv'
  BY <1>1, InvParts DEF CarcassInv, carcassVars, kernelVars, cpuVars
<1>14. InCallWell(t)'
  BY <1>7, <1>8 DEF InCallWell, WellPlaced, AtHome
<1>15. OthersKept(t)
  BY <1>1, <1>5, <1>11 DEF OthersKept, GoneStay
<1>16. OwnersKept(t)
  BY <1>1, OwnersSame DEF lockVars
<1>17. CallInv' /\ \A u \in Threads \ {t} : SameRole(u)
  BY <1>14, <1>15, <1>16, InvParts, CallInvStep
<1>18. OthersInTree(t)
  BY <1>15, <1>17 DEF OthersInTree, OthersKept
<1>19. /\ JoinsOf(t) = {c} /\ InJoins(t) = {} /\ Unsent(t) /\ ~Done(t)
       /\ JoinsOf(t)' = {} /\ InJoins(t)' = {}
  BY <1>3, <1>7 DEF Deletes, AtHome, Role
<1>20. TreeInv' /\ TreeStutters
  BY <1>1, <1>2, <1>11, <1>18, <1>19, InvParts, RunningThread, DeleteTree
<1> QED
  BY <1>10, <1>12, <1>13, <1>17, <1>20 DEF LifeInv, TreeEffect

\* Exit: interrupts go off.
LEMMA StartFinishStep ==
    ASSUME LifeInv, NEW t \in Threads, StartFinish(t)
    PROVE  LifeInv' /\ TreeEffect
<1>1. /\ InOwnCode(t) /\ finishing' = finishing \cup {t}
      /\ pending' = [pending EXCEPT ![t] = <<Step("Finish", t)>>]
      /\ UNCHANGED <<kernelVars, lockVars, threadQueue, buffer, message,
                     childrenToJoin, deletedPorts, halted, carcassVars>>
  BY DEF StartFinish, portVars
<1>2. /\ AtHome(t) /\ InNoAcquire(t) /\ IsRunning(t) /\ status[t] = "RUNNING"
      /\ currentThread = t
  BY <1>1, HomeNow
<1>3. <<Step("Finish", t)>> \in Seq(Steps)
  BY OneStep, StepTypes
<1>4. /\ pending' \in [Threads -> Seq(Steps)] /\ pending'[t] = <<Step("Finish", t)>>
      /\ \A u \in Threads \ {t} : pending'[u] = pending[u]
  BY <1>1, <1>3, InvParts
<1>5. (pending[t] = AfterJoin(t))'
  BY <1>1, <1>4 DEF AfterJoin
<1>6. AtHome(t)' /\ CallShape(t)'
  BY <1>5, RoleOfCallNext DEF RoleFacts, CallShape
<1>7. WellPlaced(t)' /\ InNoAcquire(t)'
  BY <1>4, HomePlaced
<1>8. LockInv'
  BY <1>1, <1>2, <1>4, <1>7, InvParts, CallLockInv
<1>9. GoneStay /\ NewSame
  BY <1>1, StatusSame DEF kernelVars, cpuVars, semVars
<1>10. LifeType'
  BY <1>1, <1>4, InvParts DEF LifeType
<1>11. CarcassInv'
  BY <1>1, <1>2, InvParts DEF CarcassInv, carcassVars, kernelVars, cpuVars
<1>12. InCallWell(t)'
  BY <1>6, <1>7 DEF InCallWell, WellPlaced, AtHome
<1>13. OthersKept(t)
  BY <1>1, <1>4, <1>9 DEF OthersKept, GoneStay
<1>14. OwnersKept(t)
  BY <1>1, OwnersSame DEF lockVars
<1>15. QuietInTree(t)
  BY <1>1, <1>2, <1>6, InvParts, RoleQuiet DEF AtHome, Role
<1> QED
  BY <1>1, <1>2, <1>8, <1>9, <1>10, <1>11, <1>12, <1>13, <1>14, <1>15, RunningThread, QuietStep

\* Finish has joined the children and sends the status, up to the P() of the Send.
LEMMA SendStatusStep ==
    ASSUME LifeInv, NEW t \in Threads, SendStatus(t)
    PROVE  LifeInv' /\ TreeEffect
<1> DEFINE b == SendFrom(t, "EnterSend")
<1>1. /\ NextStep(t, "Finish", t) /\ t \in Joinable /\ childrenToJoin[t] = {}
      /\ message' = [message EXCEPT ![t] = t]
      /\ StartAcquire(t, joinPort(t), b)
      /\ NothingDied
      /\ UNCHANGED <<threadQueue, buffer, childrenToJoin, finishing, deletedPorts, halted>>
  BY DEF SendStatus, StartSend, SendFrom, Cons, Die, portVars, lifeVars
<1>2. b \in Seq(Steps) /\ joinPort(t) \in Ports
  BY <1>1, SendTypes, PortNames DEF SendNames
<1> HIDE DEF b
<1>3. /\ t \in finishing /\ AtHome(t)
      /\ InNoAcquire(t) /\ IsRunning(t) /\ status[t] = "RUNNING"
  BY <1>1, FinishNow
<1>4. /\ LockInv' /\ UNCHANGED ownerThread
      /\ pending' \in [Threads -> Seq(Steps)] /\ pending'[t] = Cons(Own(joinPort(t)), b)
      /\ \A u \in Threads \ {t} : pending'[u] = pending[u]
      /\ WellPlaced(t)' /\ GoneStay /\ NewSame
  BY <1>1, <1>2, <1>3, AcquireCall
<1>5. Sends(t)' /\ CallShape(t)'
  <2>1. SendFrom(t, "EnterSend")' = b
    BY DEF b, SendFrom
  <2>2. AtSend(t, SendFrom(t, "EnterSend"))'
    BY <1>1, <1>3, <1>4, <2>1 DEF AtSend, Acquires, SendNames
  <2> QED
    BY <2>2, RoleAndShapeNext DEF RoleAndShape
<1>6. LifeType'
  <2>1. message' \in [Threads -> Threads \cup {NoMessage}]
    BY <1>1, InvParts
  <2> QED
    BY <1>1, <1>4, <2>1, InvParts DEF LifeType
<1>7. CarcassInv'
  BY <1>1, <1>4, InvParts, NothingDiedCarcass DEF LockInv
<1>8. InCallWell(t)'
  <2>1. message'[t] = t /\ childrenToJoin'[t] = {}
    BY <1>1, InvParts
  <2> QED
    BY <1>4, <1>5, <2>1 DEF InCallWell, WellPlaced
<1>9. OthersKept(t)
  BY <1>1, <1>4, InvParts DEF OthersKept, GoneStay
<1>10. OwnersKept(t)
  BY <1>1, <1>4, OwnersSame
<1>11. QuietInTree(t)
  BY <1>1, <1>3, <1>5, InvParts, RoleQuiet DEF AtHome, Sends, Role
<1> QED
  BY <1>1, <1>3, <1>4, <1>6, <1>7, <1>8, <1>9, <1>10, <1>11, RunningThread, QuietStep

\* The machine stops.
LEMMA HaltStep ==
    ASSUME LifeInv, NEW t \in Threads, Halt(t)
    PROVE  LifeInv' /\ TreeEffect
<1>1. /\ halted' = TRUE
      /\ UNCHANGED <<kernelVars, lockVars, pending, threadQueue, buffer, message,
                     childrenToJoin, finishing, deletedPorts, carcassVars>>
  BY DEF Halt, syncVars, portVars
<1>2. priority' \in [Threads -> Nat] /\ UNCHANGED <<cpuVars, semVars>>
  BY <1>1, InvParts DEF kernelVars, KernelInv, KernelTypeOK
<1>3. LockInv'
  BY <1>1, <1>2, InvParts, SchedulerLockInv
<1>4. GoneStay /\ NewSame
  BY <1>2, StatusSame DEF cpuVars, semVars
<1>5. CarcassInv'
  BY <1>1, <1>2, InvParts DEF CarcassInv, carcassVars, cpuVars
<1> QED
  BY <1>1, <1>3, <1>4, <1>5, NobodyMoves DEF lockVars

\* The finished thread sleeps for good; whoever runs next may delete it.
LEMMA BecomeCarcassStep ==
    ASSUME LifeInv, NEW t \in Threads, BecomeCarcass(t)
    PROVE  LifeInv' /\ TreeEffect
<1>1. /\ IsDone(t) /\ Sleep(t) /\ Return(t) /\ AfterSwitch(t, threadSet)
      /\ UNCHANGED <<priority, semVars, lockVars, threadQueue, buffer, message,
                     childrenToJoin, finishing, deletedPorts, halted>>
  BY DEF BecomeCarcass, portVars, lifeVars
<1>2. /\ IsRunning(t) /\ status[t] = "RUNNING" /\ waitingOn[t] = NoSem /\ t \in finishing
      /\ pending[t] \in {<<Die(t)>>, <<Step("Finish", t)>>} /\ InNoAcquire(t)
      /\ AtHome(t) \/ Ended(t)
  <2>1. CASE NextStep(t, "Die", t)
    <3>1. NextIs(t, Die(t)) /\ Die(t) = Step("Die", t) /\ IsRunning(t)
      BY <2>1 DEF NextStep, NextIs, Die, Step
    <3>2. t \in finishing /\ pending[t] = <<Die(t)>>
      BY <3>1, InvParts, CallOfNext DEF NextSaysCall
    <3>3. InNoAcquire(t)
      BY <3>1, PlaceOfNext, StepFields DEF NextOf
    <3> QED
      BY <3>1, <3>2, <3>3, RoleOfCall DEF RoleFacts, IsRunning
  <2>2. CASE NextStep(t, "Finish", t)
    BY <2>2, FinishNow DEF IsRunning
  <2> QED
    BY <1>1, <2>1, <2>2 DEF IsDone
<1>3. /\ pending' \in [Threads -> Seq(Steps)] /\ pending'[t] = <<>>
      /\ \A u \in Threads \ {t} : pending'[u] = pending[u]
  <2>1. Tail(pending[t]) = <<>>
    BY <1>2, OneStep, StepTypes
  <2>2. <<>> \in Seq(Steps)
    OBVIOUS
  <2> QED
    BY <1>1, <2>1, <2>2, InvParts DEF Return
<1>4. WellPlaced(t)' /\ InNoAcquire(t)'
  BY <1>3, HomePlaced
<1>5. KernelInv'
  BY <1>1, <1>2, InvParts, SleepInv
<1>6. LockInv'
  <2>1. /\ UNCHANGED <<value, queue, waitingOn, ownerThread, originalHolderPriority>>
        /\ NoSem \notin Locks
    BY <1>1, LocksAreSemaphores DEF semVars, lockVars
  <2>2. WaitersAcquire' /\ LockSafe'
    BY <1>2, <1>3, <1>4, <2>1, InvParts, StepOutsideAcquire
  <2>3. LockType'
    BY <2>1, InvParts DEF LockInv, LockType
  <2> QED
    BY <1>5, <2>2, <2>3 DEF LockInv
<1>7. GoneStay /\ NewSame /\ Gone(t)'
  <2>1. /\ UNCHANGED waitingOn /\ status'[t] = "BLOCKED"
        /\ \A u \in Threads \ {t} : \/ status'[u] = status[u]
                                    \/ status[u] = "READY" /\ status'[u] = "RUNNING"
    BY <1>1, <1>2, InvParts, SleepStatus DEF semVars
  <2> QED
    BY <1>2, <2>1 DEF GoneStay, NewSame, Gone, IsNew
<1>8. CallShape(t)'
  BY <1>1, <1>2, <1>3, <1>7 DEF CallShape
<1>9. Ended(t)'
  BY <1>1, <1>2, <1>3, RoleOfCallNext DEF RoleFacts
<1>10. LifeType'
  BY <1>1, <1>3, InvParts DEF LifeType
<1>11. CarcassInv'
  <2>1. threadSet \in SUBSET Threads /\ t \in finishing \cup {NoThread}
    BY <1>2, InvParts DEF CarcassInv
  <2> QED
    BY <1>1, <1>5, <2>1, InvParts, SwitchCarcass
<1>12. InCallWell(t)'
  BY <1>4, <1>8, <1>9 DEF InCallWell, WellPlaced, Ended
<1>13. OthersKept(t)
  BY <1>1, <1>3, <1>7 DEF OthersKept, GoneStay
<1>14. OwnersKept(t)
  BY <1>1, OwnersSame DEF lockVars
<1>15. QuietInTree(t)
  BY <1>1, <1>2, <1>9, InvParts, RoleQuiet DEF AtHome, Ended, Role
<1> QED
  BY <1>1, <1>2, <1>6, <1>7, <1>10, <1>11, <1>12, <1>13, <1>14, <1>15, RunningThread, QuietStep

\* A preemption.
LEMMA PreemptStep ==
    ASSUME LifeInv, NEW t \in Threads, Preempt(t)
    PROVE  LifeInv' /\ TreeEffect
<1>1. /\ Yield(t) /\ NothingDied
      /\ UNCHANGED <<lockVars, pending, threadQueue, buffer, message,
                     childrenToJoin, finishing, deletedPorts, halted>>
  BY DEF Preempt, portVars, lifeVars
<1>2. LockInv'
  BY <1>1, InvParts, SchedulerLockInv
<1>3. GoneStay /\ NewSame
  BY <1>1, InvParts, StatusAtYield
<1>4. CarcassInv'
  BY <1>1, <1>2, InvParts, NothingDiedCarcass DEF LockInv
<1> QED
  BY <1>1, <1>2, <1>3, <1>4, InvParts, NobodyMoves DEF lockVars, LifeType

\* A woken thread tests the value of the semaphore again.
LEMMA WokenPStep ==
    ASSUME LifeInv, NEW t \in Threads, WokenP(t)
    PROVE  LifeInv' /\ TreeEffect
<1>1. /\ RetryP(t) /\ NothingDied
      /\ UNCHANGED <<lockVars, pending, threadQueue, buffer, message,
                     childrenToJoin, finishing, deletedPorts, halted>>
  BY DEF WokenP, portVars, lifeVars
<1>2. LockInv'
  BY <1>1, InvParts, RetryPLockInv
<1>3. GoneStay /\ NewSame
  <2>1. status[t] = "RUNNING" /\ TestValue(t, waitingOn[t])
    BY <1>1 DEF RetryP
  <2> QED
    BY <2>1, InvParts, StatusAtP
<1>4. CarcassInv'
  BY <1>1, <1>2, InvParts, NothingDiedCarcass DEF LockInv
<1> QED
  BY <1>1, <1>2, <1>3, <1>4, InvParts, NobodyMoves DEF lockVars, LifeType

-----------------------------------------------------------------------------
(* The invariant.                                                          *)

LEMMA InitLifeInv == Init => LifeInv
<1> SUFFICES ASSUME Init PROVE LifeInv
  OBVIOUS
<1>1. KernelInv
  <2>1. /\ currentThread = MainThread /\ readyList = <<>>
        /\ status = [t \in Threads |-> IF t = MainThread THEN "RUNNING" ELSE "JUST_CREATED"]
        /\ priority = [t \in Threads |-> DefaultPriority]
        /\ value = [s \in Semaphores |-> IF s \in Locks THEN 1 ELSE 0]
        /\ queue = [s \in Semaphores |-> <<>>]
        /\ waitingOn = [t \in Threads |-> NoSem]
    BY DEF Init
  <2> QED
    BY <2>1, FreshKernel, ThreadAssumption, KernelAssumption
<1>2. \A t \in Threads : pending[t] = <<>> /\ waitingOn[t] = NoSem
  BY DEF Init
<1>3. \A l \in Locks : value[l] = 1 /\ ownerThread[l] = NoThread
  BY LocksAreSemaphores DEF Init
<1>4. WaitersAcquire /\ LockSafe
  BY <1>2, <1>3, FreshLocks
<1>5. LockType
  BY ThreadAssumption, KernelAssumption DEF Init, LockType
<1>6. LifeType
  <2>1. <<>> \in Seq(Steps) /\ <<>> \in Seq(Threads)
    OBVIOUS
  <2> QED
    BY <2>1 DEF Init, LifeType
<1>7. CarcassInv
  BY ThreadAssumption, KernelAssumption DEF Init, CarcassInv
<1>8. \A t \in Threads : AtHome(t) /\ CallShape(t)
  <2> SUFFICES ASSUME NEW t \in Threads PROVE AtHome(t) /\ CallShape(t)
    OBVIOUS
  <2>1. pending[t] = AfterJoin(t)
    BY <1>2 DEF AfterJoin, Init
  <2> QED
    BY <2>1, RoleOfCall DEF RoleFacts, CallShape
<1>9. CallInv
  BY <1>2, <1>8 DEF CallInv, InsideOwn, PopQueued, SendersReady, Inside, NextIs, AtHome
<1>10. TreeInv
  <2>1. /\ \A t \in Threads : childrenToJoin[t] = {} /\ JoinsOf(t) = {} /\ Owned(t) = {}
        /\ deletedPorts = {} /\ finishing = {}
    BY <1>8 DEF Init, AtHome, Role, Owned
  <2>2. \A c \in Joinable : buffer[joinPort(c)] = NoMessage /\ IsNew(c)
    <3> SUFFICES ASSUME NEW c \in Joinable PROVE buffer[joinPort(c)] = NoMessage /\ IsNew(c)
      OBVIOUS
    <3>1. c \in Threads /\ c # MainThread /\ joinPort(c) \in Ports
      BY PortNames DEF Joinable
    <3> QED
      BY <3>1 DEF Init, IsNew
  <2> QED
    BY <1>2, <2>1, <2>2
       DEF TreeInv, OneParent, JoinedOnce, ReceivedAreDone, DeletedAreDone,
           UnsentAreChildren, NewAreUntouched
<1> QED
  BY <1>1, <1>4, <1>5, <1>6, <1>7, <1>9, <1>10 DEF LifeInv, LockInv

\* No Broadcast is called.
LEMMA NoBroadcast ==
    ASSUME LifeInv, NEW t \in Threads, NEW c
    PROVE  ~PopAndContinue(t, c)
<1>1. PopAndContinue(t, c) => NextIs(t, Step("PopMore", c))
  BY DEF PopAndContinue, NextStep, NextIs, Step
<1> QED
  BY <1>1, InvParts, CallOfNext DEF NextSaysCall

LEMMA PortStepStep ==
    ASSUME LifeInv, NEW t \in Threads, PortStep(t), NothingDied, UNCHANGED lifeVars
    PROVE  LifeInv' /\ TreeEffect
<1>1. CASE \E p \in Ports :
             \/ EnterSend(t, p) \/ WaitToSend(t, p) \/ PutMessage(t, p) \/ Unlock(t, p)
             \/ EnterReceive(t, p) \/ SignalSender(t, p) \/ WaitToReceive(t, p)
             \/ TakeMessage(t, p)
  BY <1>1, EnterSendStep, WaitToSendStep, PutMessageStep, UnlockStep, EnterReceiveStep,
     SignalSenderStep, WaitToReceiveStep, TakeMessageStep
<1>2. CASE CallStep(t) /\ UNCHANGED <<portVars, message>>
  <2>1. CASE SleepOnItem(t)
    BY <1>2, <2>1, SleepOnItemStep
  <2>2. CASE \E l \in Locks : Reacquire(t, l)
    BY <1>2, <2>2, ReacquireStep
  <2>3. CASE \E l \in Locks : FinishAcquire(t, l) /\ UNCHANGED threadQueue
    BY <1>2, <2>3, OwnStep
  <2>4. CASE \E c \in Conditions : PopSignalled(t, c)
    BY <1>2, <2>4, PopStep
  <2> QED
    BY <1>2, <2>1, <2>2, <2>3, <2>4, NoBroadcast DEF CallStep
<1> QED
  BY <1>1, <1>2 DEF PortStep

LEMMA StutterStep ==
    ASSUME LifeInv, UNCHANGED vars
    PROVE  LifeInv' /\ TreeEffect
<1>1. UNCHANGED <<kernelVars, lockVars, pending, threadQueue, buffer, message,
                  childrenToJoin, finishing, deletedPorts, halted, carcassVars>>
  BY DEF vars, syncVars, portVars, lifeVars
<1>2. UNCHANGED <<cpuVars, semVars>> /\ priority' \in [Threads -> Nat]
  BY <1>1, InvParts DEF kernelVars, KernelInv, KernelTypeOK
<1>3. LockInv'
  BY <1>1, <1>2, InvParts, SchedulerLockInv
<1>4. GoneStay /\ NewSame
  BY <1>2, StatusSame DEF cpuVars, semVars
<1>5. CarcassInv'
  BY <1>1, <1>2, InvParts DEF CarcassInv, carcassVars, cpuVars
<1>6. halted' \in BOOLEAN
  BY <1>1, InvParts DEF LifeType
<1> QED
  BY <1>1, <1>3, <1>4, <1>5, <1>6, NobodyMoves DEF lockVars

\* Each step keeps the invariant, and is a step of the tree of processes or none.
LEMMA NextLifeInv == LifeInv /\ [Next]_vars => LifeInv' /\ TreeEffect
<1> SUFFICES ASSUME LifeInv, [Next]_vars PROVE LifeInv' /\ TreeEffect
  OBVIOUS
<1>1. ASSUME NEW t \in Threads, LifeStep(t) PROVE LifeInv' /\ TreeEffect
  <2>1. CASE \E p \in Ports : DeletePort(t, p)
    BY <2>1, DeletePortStep
  <2>2. CASE JoinChild(t) \/ SendStatus(t) \/ Halt(t) \/ BecomeCarcass(t)
    BY <2>2, JoinChildStep, SendStatusStep, HaltStep, BecomeCarcassStep
  <2>3. CASE PortStep(t) /\ NothingDied /\ UNCHANGED lifeVars
    BY <2>3, PortStepStep
  <2> QED
    BY <1>1, <2>1, <2>2, <2>3 DEF LifeStep
<1>2. ASSUME NEW t \in Threads, NEW c \in Joinable, Exec(t, c) \/ Join(t, c)
      PROVE  LifeInv' /\ TreeEffect
  BY <1>2, ExecStep, JoinStep
<1>3. ASSUME NEW t \in Threads, StartFinish(t) \/ Preempt(t) \/ WokenP(t)
      PROVE  LifeInv' /\ TreeEffect
  BY <1>3, StartFinishStep, PreemptStep, WokenPStep
<1> QED
  BY <1>1, <1>2, <1>3, StutterStep DEF Next

LEMMA LifeInvariant == Spec => []LifeInv
<1>1. Init => LifeInv
  BY InitLifeInv
<1>2. LifeInv /\ [Next]_vars => LifeInv'
  BY NextLifeInv
<1> QED
  BY <1>1, <1>2, PTL DEF Spec

-----------------------------------------------------------------------------
(* The ports that Join has deleted.                                        *)

\* What the steps of t are on: t itself, or a port that t joins from or has
\* still to send to.
Concerns(t, x) ==
    \/ x.of \in Threads
    \/ \E d \in Joinable :
        /\ x.of \in {joinPort(d), senderCondition(joinPort(d)), receiverCondition(joinPort(d))}
        /\ d \in JoinsOf(t) \/ (d = t /\ ~Done(t))

LEMMA StepsConcern ==
    ASSUME NEW t \in Threads, CallShape(t), NEW x \in StepsOf(t)
    PROVE  Concerns(t, x)
<1>1. Range(AfterJoin(t)) \subseteq {Step("Finish", t)} /\ Step("Finish", t).of \in Threads
  BY RestTypes, StepFields
<1>2. CASE pending[t] = AfterJoin(t)
  BY <1>1, <1>2 DEF Concerns, StepsOf
<1>3. ASSUME NEW p \in Ports, NEW b \in EntryOf(t, p), Acquires(t, p, b)
      PROVE  Concerns(t, x)
  <2>1. x \in Range(b) \cup {Own(p), Reacq(p), SleepOf(t)}
    BY <1>3, EntryParts, AcquiresParts
  <2>2. Own(p).of = p /\ Reacq(p).of = p /\ SleepOf(t).of \in Threads
    BY StepFields DEF Reacq, SleepOf
  <2>3. CASE \E c \in Joinable, s \in {"EnterReceive", "TestReceive"} :
                p = joinPort(c) /\ b = ReceiveFrom(t, c, s)
    <3>1. PICK c \in Joinable, s \in {"EnterReceive", "TestReceive"} :
                p = joinPort(c) /\ b = ReceiveFrom(t, c, s)
      BY <2>3
    <3>2. Range(b) = {Step(s, p), Delete(c)} \cup Range(AfterJoin(t))
      BY <3>1, ReceiveTypes DEF ReceiveNames
    <3>3. c \in JoinsOf(t)
      <4>1. AtReceive(t, c, b)
        BY <1>3, <3>1 DEF AtReceive
      <4> QED
        BY <4>1, RoleAndShapeOf DEF RoleAndShape, Receives, Role
    <3>4. Step(s, p).of = p /\ Delete(c).of = p
      BY <3>1, StepFields DEF Delete
    <3> QED
      BY <1>1, <2>1, <2>2, <3>1, <3>2, <3>3, <3>4 DEF Concerns
  <2>4. CASE \E s \in SendNames : /\ t \in finishing /\ t \in Joinable
                                  /\ p = joinPort(t) /\ b = SendFrom(t, s)
    <3>1. PICK s \in SendNames : /\ t \in finishing /\ t \in Joinable
                                 /\ p = joinPort(t) /\ b = SendFrom(t, s)
      BY <2>4
    <3>2. Range(b) = {Step(s, p), Die(t)}
      BY <3>1, SendTypes
    <3>3. ~Done(t)
      <4>1. AtSend(t, b)
        BY <1>3, <3>1 DEF AtSend
      <4> QED
        BY <4>1, RoleAndShapeOf DEF RoleAndShape, Sends
    <3>4. Step(s, p).of = p /\ Die(t).of \in Threads
      BY StepFields DEF Die
    <3> QED
      BY <2>1, <2>2, <3>1, <3>2, <3>3, <3>4 DEF Concerns
  <2> QED
    BY <2>3, <2>4, EntryParts
<1>4. ASSUME NEW c \in Conditions, NEW b \in SignalOf(t, c), Pops(t, c, b)
      PROVE  Concerns(t, x)
  <2>1. x \in Range(b) \cup {Step("Pop", c)} /\ Step("Pop", c).of = c
    BY <1>4, SignalParts, PopsParts, StepFields
  <2>2. CASE \E d \in Joinable :
                c = senderCondition(joinPort(d)) /\ b = ReceiveFrom(t, d, "WaitToReceive")
    <3>1. PICK d \in Joinable :
                c = senderCondition(joinPort(d)) /\ b = ReceiveFrom(t, d, "WaitToReceive")
      BY <2>2
    <3>2. Range(b) = {Step("WaitToReceive", joinPort(d)), Delete(d)} \cup Range(AfterJoin(t))
      BY <3>1, ReceiveTypes DEF ReceiveNames
    <3>3. d \in JoinsOf(t)
      <4>1. AtReceive(t, d, b)
        BY <1>4, <3>1 DEF AtReceive
      <4> QED
        BY <4>1, RoleAndShapeOf DEF RoleAndShape, Receives, Role
    <3>4. Step("WaitToReceive", joinPort(d)).of = joinPort(d) /\ Delete(d).of = joinPort(d)
      BY StepFields DEF Delete
    <3> QED
      BY <1>1, <2>1, <3>1, <3>2, <3>3, <3>4 DEF Concerns
  <2>3. CASE /\ t \in finishing /\ t \in Joinable
             /\ c = receiverCondition(joinPort(t)) /\ b = SendFrom(t, "Unlock")
    <3>1. Range(b) = {Step("Unlock", joinPort(t)), Die(t)}
      BY <2>3, SendTypes
    <3>2. ~Done(t)
      <4>1. AtUnlock(t, b)
        BY <1>4, <2>3 DEF AtUnlock
      <4> QED
        BY <4>1, RoleAndShapeOf DEF RoleAndShape, Leaves
    <3>3. Step("Unlock", joinPort(t)).of = joinPort(t) /\ Die(t).of \in Threads
      BY StepFields DEF Die
    <3> QED
      BY <2>1, <2>3, <3>1, <3>2, <3>3 DEF Concerns
  <2> QED
    BY <2>2, <2>3, SignalParts
<1>5. ASSUME NEW c \in Joinable, Deleting(t, c) PROVE Concerns(t, x)
  <2>1. x \in {Delete(c)} \cup Range(AfterJoin(t)) /\ Delete(c).of = joinPort(c)
    BY <1>5, RestTypes, StepFields DEF Deleting, StepsOf, Delete
  <2>2. c \in JoinsOf(t)
    BY <1>5, RoleOfCall DEF RoleFacts, Deletes, Role
  <2> QED
    BY <1>1, <2>1, <2>2 DEF Concerns
<1>6. CASE pending[t] = <<Die(t)>>
  BY <1>6, OneStep, StepTypes, StepFields DEF Concerns, StepsOf, Die
<1>7. CASE pending[t] = <<>>
  BY <1>7, NoStep DEF StepsOf
<1> QED
  BY <1>2, <1>3, <1>4, <1>5, <1>6, <1>7 DEF CallShape

\* No step is on a deleted port.
LEMMA NoStepOnDeleted ==
    ASSUME LifeInv, NEW p \in deletedPorts, NEW t \in Threads, NEW x \in StepsOf(t)
    PROVE  x.of \notin {p, senderCondition(p), receiverCondition(p)}
<1>1. p \in Ports
  BY InvParts DEF LifeType
<1>2. PICK c \in Joinable : p = joinPort(c)
  BY <1>1, PortNames
<1>3. Done(c) /\ c \notin JoinsOf(t)
  BY <1>2, InvParts DEF TreeInv, DeletedAreDone, OneParent, Owned
<1>4. Concerns(t, x)
  BY InvParts, StepsConcern
<1>5. CASE x.of \in Threads
  BY <1>1, <1>5, PortNames
<1>6. ASSUME NEW d \in Joinable,
             x.of \in {joinPort(d), senderCondition(joinPort(d)), receiverCondition(joinPort(d))},
             d \in JoinsOf(t) \/ (d = t /\ ~Done(t))
      PROVE  x.of \notin {p, senderCondition(p), receiverCondition(p)}
  <2>1. d # c
    BY <1>3, <1>6
  <2>2. joinPort(d) # p /\ joinPort(d) \in Ports
    BY <1>2, <2>1, PortNames
  <2> QED
    BY <1>1, <1>6, <2>2, PortNames
<1> QED
  BY <1>4, <1>5, <1>6 DEF Concerns

LEMMA NobodyWaitsForDeleted ==
    ASSUME LifeInv, NEW p \in deletedPorts
    PROVE  queue[p] = <<>>
<1>1. p \in Ports /\ p \in Locks /\ p \in Semaphores
  BY InvParts, PortNames, LocksAreSemaphores DEF LifeType
<1>2. queue[p] \in Seq(Threads) /\ QueueHoldsBlocked(p)
  BY <1>1, InvParts DEF KernelInv, KernelTypeOK, Placed
<1>3. ASSUME queue[p] # <<>> PROVE FALSE
  <2>1. Head(queue[p]) \in Range(queue[p])
    BY <1>2, <1>3 DEF Range
  <2>2. PICK u \in Threads : waitingOn[u] = p
    BY <1>2, <2>1 DEF QueueHoldsBlocked
  <2>3. NextIs(u, Own(p))
    BY <1>1, <2>2, InvParts DEF LockInv, WaitersAcquire
  <2>4. Own(p) \in StepsOf(u)
    <3>1. pending[u] \in Seq(Steps) /\ pending[u] # <<>>
      BY <2>3, InvParts DEF NextIs
    <3>2. Head(pending[u]) = pending[u][1] /\ 1 \in DOMAIN pending[u]
      BY <3>1
    <3> QED
      BY <2>3, <3>2 DEF NextIs, StepsOf, Range
  <2> QED
    BY <2>4, NoStepOnDeleted, StepFields
<1> QED
  BY <1>3

LEMMA DeletedPortsUnused == LifeInv => DeletedPortUnused
<1> SUFFICES ASSUME LifeInv, NEW p \in deletedPorts
             PROVE  /\ queue[p] = <<>>
                    /\ \A t \in Threads : \A i \in 1..Len(pending[t]) :
                        pending[t][i].of \notin {p, senderCondition(p), receiverCondition(p)}
  BY DEF DeletedPortUnused
<1>1. ASSUME NEW t \in Threads, NEW i \in 1..Len(pending[t])
      PROVE  pending[t][i].of \notin {p, senderCondition(p), receiverCondition(p)}
  <2>1. i \in DOMAIN pending[t]
    <3>1. pending[t] \in Seq(Steps)
      BY InvParts
    <3> QED
      BY <1>1, <3>1
  <2>2. pending[t][i] \in StepsOf(t)
    BY <2>1 DEF StepsOf, Range
  <2> QED
    BY <2>2, NoStepOnDeleted
<1> QED
  BY <1>1, NobodyWaitsForDeleted

-----------------------------------------------------------------------------
(* The theorems.                                                           *)

\* For any number of threads: a port that Join has deleted (thread.cc) has nobody
\* waiting for its lock, and no thread has a step on it to do; the carcass to
\* destroy is always a thread inside Finish, and a thread inside Finish has run.
THEOREM LifeStaysSafe == Spec => []ThreadsSafe
<1>1. LifeInv => TypeOK
  <2> SUFFICES ASSUME LifeInv PROVE TypeOK
    OBVIOUS
  <2>1. KernelTypeOK /\ LifeType /\ CarcassInv
    BY InvParts DEF KernelInv
  <2>2. ownerThread \in [Locks -> Threads \cup {NoThread}]
    BY InvParts
  <2> QED
    BY <2>1, <2>2 DEF TypeOK, LifeType, CarcassInv
<1>2. LifeInv => ThreadsSafe
  BY <1>1, DeletedPortsUnused DEF ThreadsSafe
<1> QED
  BY <1>2, LifeInvariant, PTL

\* Exec, Exit and Join implement the tree of processes, for any number of
\* processes: nobody is joined before it has exited or twice, and no process exits
\* before it has joined its children.
THEOREM ProcessTreeRefinement == Spec => ImplementsProcessTree
<1> DEFINE phases == [t \in Threads |-> Phase(t)]
           kids == [t \in Threads |-> Children(t)]
<1>1. Init => Tree!Init
  <2> SUFFICES ASSUME Init PROVE Tree!Init
    OBVIOUS
  <2>1. LifeType /\ \A t \in Threads : InJoins(t) = {}
    <3>1. LifeInv
      BY InitLifeInv
    <3>2. ASSUME NEW t \in Threads PROVE InJoins(t) = {}
      <4>1. pending[t] = <<>>
        BY DEF Init
      <4> QED
        BY <4>1, NoStep DEF InJoins, StepsOf
    <3> QED
      BY <3>1, <3>2, InvParts
  <2>2. \A t \in Threads : Kids(t) = {}
    BY <2>1 DEF Kids, Init
  <2>3. \A t \in Threads : KidsPhase(t) = IF t = MainThread THEN "alive" ELSE "new"
    BY DEF KidsPhase, IsNew, Init
  <2>4. \A t \in Threads : Children(t) = {} /\ Phase(t) = IF t = MainThread THEN "alive" ELSE "new"
    BY <2>1, <2>2, <2>3, TreeByKids
  <2> QED
    BY <2>4 DEF Tree!Init
<1>2. LifeInv /\ LifeInv' /\ TreeEffect => [Tree!Next]_<<phases, kids>>
  <2> SUFFICES ASSUME LifeInv, LifeInv', TreeEffect PROVE [Tree!Next]_<<phases, kids>>
    OBVIOUS
  <2>1. \A t \in Threads : phases[t] = KidsPhase(t) /\ kids[t] = Kids(t)
    BY InvParts, TreeByKids
  <2>2. \A t \in Threads : phases'[t] = KidsPhase(t)' /\ kids'[t] = Kids(t)'
    <3>1. LifeType'
      BY DEF LifeInv
    <3>2. \A t \in Threads : Children(t)' = Kids(t)' /\ Phase(t)' = KidsPhase(t)'
      BY <3>1, TreeByKidsNext
    <3> QED
      BY <3>2
  <2>3. /\ phases \in [Threads -> {phases[t] : t \in Threads}] /\ DOMAIN phases' = Threads
        /\ kids \in [Threads -> {kids[t] : t \in Threads}] /\ DOMAIN kids' = Threads
        /\ phases' = [t \in Threads |-> phases'[t]] /\ kids' = [t \in Threads |-> kids'[t]]
        /\ phases = [t \in Threads |-> phases[t]] /\ kids = [t \in Threads |-> kids[t]]
    OBVIOUS
  <2> HIDE DEF phases, kids
  <2>4. CASE TreeStutters
    <3>1. \A t \in Threads : phases'[t] = phases[t] /\ kids'[t] = kids[t]
      BY <2>1, <2>2, <2>4 DEF TreeStutters, KidsSame, PhaseSame
    <3>2. phases' = phases /\ kids' = kids
      BY <2>3, <3>1
    <3> QED
      BY <3>2
  <2>5. ASSUME NEW t \in Threads, Exits(t) PROVE Tree!Next
    <3>1. /\ phases[t] = "alive" /\ phases'[t] = "exited" /\ kids[t] = {} /\ t # MainThread
          /\ \A u \in Threads \ {t} : phases'[u] = phases[u]
          /\ \A u \in Threads : kids'[u] = kids[u]
      BY <2>1, <2>2, <2>5 DEF Exits, KidsSame, PhaseSame
    <3>2. phases' = [phases EXCEPT ![t] = "exited"] /\ kids' = kids
      BY <2>3, <3>1
    <3>3. Tree!Exit(t)
      BY <3>1, <3>2 DEF Tree!Exit, Tree!Advance, phases, kids
    <3> QED
      BY <3>3 DEF Tree!Next
  <2>6. ASSUME NEW t \in Threads, NEW c \in Threads, Execs(t, c) PROVE Tree!Next
    <3>1. /\ phases[t] = "alive" /\ phases[c] = "new" /\ phases'[c] = "alive"
          /\ \A u \in Threads \ {c} : phases'[u] = phases[u]
          /\ kids'[t] = kids[t] \cup {c}
          /\ \A u \in Threads \ {t} : kids'[u] = kids[u]
      BY <2>1, <2>2, <2>6 DEF Execs, KidsSame, PhaseSame
    <3>2. /\ phases' = [phases EXCEPT ![c] = "alive"]
          /\ kids' = [kids EXCEPT ![t] = kids[t] \cup {c}]
      BY <2>3, <3>1
    <3>3. Tree!Exec(t, c)
      BY <3>1, <3>2 DEF Tree!Exec, Tree!Advance, phases, kids
    <3> QED
      BY <3>3 DEF Tree!Next
  <2>7. ASSUME NEW t \in Threads, NEW c \in Threads, Joins(t, c) PROVE Tree!Next
    <3>1. /\ phases[t] = "alive" /\ phases[c] = "exited" /\ phases'[c] = "joined"
          /\ \A u \in Threads \ {c} : phases'[u] = phases[u]
          /\ c \in kids[t] /\ kids'[t] = kids[t] \ {c}
          /\ \A u \in Threads \ {t} : kids'[u] = kids[u]
      BY <2>1, <2>2, <2>7 DEF Joins, KidsSame, PhaseSame
    <3>2. /\ phases' = [phases EXCEPT ![c] = "joined"]
          /\ kids' = [kids EXCEPT ![t] = kids[t] \ {c}]
      BY <2>3, <3>1
    <3>3. Tree!Join(t, c)
      BY <3>1, <3>2 DEF Tree!Join, Tree!Advance, phases, kids
    <3> QED
      BY <3>3 DEF Tree!Next
  <2> QED
    BY <2>4, <2>5, <2>6, <2>7 DEF TreeEffect
<1>3. LifeInv /\ [Next]_vars => LifeInv' /\ TreeEffect
  BY NextLifeInv
<1>4. LifeInv /\ [Next]_vars => [Tree!Next]_<<phases, kids>>
  BY <1>2, <1>3
<1> QED
  BY <1>1, <1>4, LifeInvariant, PTL DEF Spec, ImplementsProcessTree, Tree!Spec

=============================================================================
