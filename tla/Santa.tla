------------------------------- MODULE Santa -------------------------------
(* The Santa Claus problem of cs3331/prog4: Santa, the reindeer and the elves
   synchronise with semaphores only.  Thread::Delay and the printing under
   Print_Lock are left out; a section under Elf_Lock or Reindeer_Lock is one
   action, and so is a loop of Signals, or of Waits, on one semaphore.  *)
EXTENDS Integers, FiniteSets

CONSTANTS Elves, Deer,   \* the threads
          Deliveries     \* max_delivery, the argument t

ELF_MAX == 3
santa == "santa"
None == "none"            \* the 0 an elf that leaves writes into waiting_elves
SantaAssumption ==
  /\ IsFiniteSet(Elves) /\ IsFiniteSet(Deer) /\ Deer # {}
  /\ Elves \cap Deer = {} /\ {santa, None} \cap (Elves \cup Deer) = {}
  /\ Deliveries \in Nat

VARIABLES at,             \* the statement each thread is at
          sem,            \* the ten semaphores
          Elf_Count, Reindeer_Count, waiting_elves, delivery

vars == <<at, sem, Elf_Count, Reindeer_Count, waiting_elves, delivery>>

r == Cardinality(Deer)
Threads == Elves \cup Deer \cup {santa}
Semaphores == {"Sleeping", "Reindeer", "Elf", "Sleigh", "Question", "Answered", "Flying",
               "Waiting_Deer", "Hitched", "Unhitch"}

Init ==
  /\ at = [t \in Threads |-> "start"]
  /\ sem = [s \in Semaphores |-> IF s = "Reindeer" THEN r ELSE IF s = "Elf" THEN ELF_MAX ELSE 0]
  /\ Elf_Count = 0 /\ Reindeer_Count = 0 /\ delivery = 0
  /\ waiting_elves = [slot \in 0..(ELF_MAX - 1) |-> None]

Moves(t, here, there) == at[t] = here /\ at' = [at EXCEPT ![t] = there]
Wait(s, n) == sem[s] >= n /\ sem' = [sem EXCEPT ![s] = @ - n]
Signal(s, n) == sem' = [sem EXCEPT ![s] = @ + n]
Only(t, here, there) ==
  /\ Moves(t, here, there)
  /\ UNCHANGED <<Elf_Count, Reindeer_Count, waiting_elves, delivery>>

-----------------------------------------------------------------------------
ElfWaits(e) == Only(e, "start", "asking") /\ Wait("Elf", 1)

(* AskQuestion: the third elf wakes Santa. *)
Asks(e) ==
  /\ Moves(e, "asking", "question")
  /\ waiting_elves' = [waiting_elves EXCEPT ![Elf_Count] = e]
  /\ Elf_Count' = Elf_Count + 1
  /\ IF Elf_Count + 1 = ELF_MAX THEN Signal("Sleeping", 1) ELSE UNCHANGED sem
  /\ UNCHANGED <<Reindeer_Count, delivery>>

WaitsToBeHeard(e) == Only(e, "question", "answer") /\ Wait("Question", 1)

GetsAnswer(e) ==
  /\ Moves(e, "answer", "leaving") /\ Wait("Answered", 1)
  /\ waiting_elves' = [slot \in DOMAIN waiting_elves |-> None]
  /\ UNCHANGED <<Elf_Count, Reindeer_Count, delivery>>

(* The last of the three lets the next three in; a bug would let one in for
   each that leaves. *)
LeavesAlone(e) ==
  /\ Moves(e, "leaving", "start")
  /\ Elf_Count' = Elf_Count - 1 /\ Signal("Elf", 1)
  /\ UNCHANGED <<Reindeer_Count, waiting_elves, delivery>>

Leaves(e) ==
  /\ Moves(e, "leaving", "start")
  /\ Elf_Count' = Elf_Count - 1
  /\ IF Elf_Count - 1 = 0 THEN Signal("Elf", ELF_MAX) ELSE UNCHANGED sem
  /\ UNCHANGED <<Reindeer_Count, waiting_elves, delivery>>

ElfThread(e) == ElfWaits(e) \/ Asks(e) \/ WaitsToBeHeard(e) \/ GetsAnswer(e) \/ Leaves(e)

-----------------------------------------------------------------------------
DeerWaits(d) == Only(d, "start", "vacation") /\ Wait("Reindeer", 1)

(* The last reindeer back releases the others and wakes Santa. *)
ReindeerBack(d) ==
  /\ Moves(d, "vacation", "others")
  /\ Reindeer_Count' = Reindeer_Count + 1
  /\ IF Reindeer_Count + 1 = r
     THEN sem' = [sem EXCEPT !["Waiting_Deer"] = @ + r, !["Sleeping"] = @ + 1]
     ELSE UNCHANGED sem
  /\ UNCHANGED <<Elf_Count, waiting_elves, delivery>>

WaitOthers(d) == Only(d, "others", "sleigh") /\ Wait("Waiting_Deer", 1)
WaitSleigh(d) == Only(d, "sleigh", "hitching") /\ Wait("Sleigh", 1)
HitchesUp(d) == Only(d, "hitching", "flying") /\ Signal("Hitched", 1)
FlyOff(d) == Only(d, "flying", "unhitching") /\ Wait("Flying", 1)
Unhitches(d) == Only(d, "unhitching", "start") /\ Signal("Unhitch", 1)

DeerThread(d) ==
  \/ DeerWaits(d) \/ ReindeerBack(d) \/ WaitOthers(d) \/ WaitSleigh(d)
  \/ HitchesUp(d) \/ FlyOff(d) \/ Unhitches(d)

-----------------------------------------------------------------------------
Sleep ==
  /\ delivery <= Deliveries
  /\ Only(santa, "start", "awake") /\ Wait("Sleeping", 1)

PreparesShort ==    (* a slip: the loop that signals Sleigh stops one early *)
  /\ Reindeer_Count = r
  /\ Only(santa, "awake", "hitching") /\ Signal("Sleigh", r - 1)

(* Santa cannot tell who woke him: he looks whether all reindeer are back. *)
PreparesSleigh ==
  /\ Reindeer_Count = r
  /\ Only(santa, "awake", "hitching") /\ Signal("Sleigh", r)
Delivers ==
  /\ Moves(santa, "hitching", "delivering") /\ Wait("Hitched", r)
  /\ delivery' = delivery + 1
  /\ UNCHANGED <<Elf_Count, Reindeer_Count, waiting_elves>>
FreesDeer == Only(santa, "delivering", "unhitching") /\ Signal("Flying", r)
AwaitsUnhitched == Only(santa, "unhitching", "resetting") /\ Wait("Unhitch", r)
ResetsCount ==
  /\ Moves(santa, "resetting", "releasing") /\ Reindeer_Count' = 0
  /\ UNCHANGED <<sem, Elf_Count, waiting_elves, delivery>>
ReleasesDeer == Only(santa, "releasing", "start") /\ Signal("Reindeer", r)

Listens ==
  /\ Reindeer_Count # r
  /\ Only(santa, "awake", "naming") /\ Signal("Question", ELF_MAX)
Answers == Only(santa, "naming", "start") /\ Signal("Answered", ELF_MAX)

SantaThread ==
  \/ Sleep \/ PreparesSleigh \/ Delivers \/ FreesDeer \/ AwaitsUnhitched
  \/ ResetsCount \/ ReleasesDeer \/ Listens \/ Answers

(* Santa retires: main, which joins him, exits the process. *)
Retired == at[santa] = "start" /\ delivery > Deliveries

Step(t) == ~Retired /\ (IF t \in Elves THEN ElfThread(t) ELSE IF t \in Deer THEN DeerThread(t) ELSE SantaThread)
Next == \E t \in Threads : Step(t)

Spec == Init /\ [][Next]_vars /\ \A t \in Threads : WF_vars(Step(t))

-----------------------------------------------------------------------------
TypeOK ==
  /\ sem \in [Semaphores -> Nat]
  /\ Elf_Count \in 0..ELF_MAX /\ Reindeer_Count \in 0..r /\ delivery \in 0..(Deliveries + 1)
  /\ waiting_elves \in [0..(ELF_MAX - 1) -> Elves \cup {None}]

(* Whoever woke Santa, when he names the elves whose questions he has heard
   there are three of them, all different, and none has gone (thread.cpp:146). *)
SantaNamesThree ==
  at[santa] = "naming" =>
    /\ Elf_Count = ELF_MAX
    /\ Cardinality({waiting_elves[slot] : slot \in DOMAIN waiting_elves} \ {None}) = ELF_MAX

(* Santa writes Reindeer_Count without its lock: no reindeer is back, or on its
   way back, until he has (thread.cpp:138). *)
CountIsSantas ==
  at[santa] \in {"hitching", "delivering", "unhitching", "resetting"} =>
    /\ Reindeer_Count = r
    /\ at[santa] = "resetting" => \A d \in Deer : at[d] = "start"

(* Santa takes one unit for whoever woke him and serves the reindeer first: he
   never goes to sleep over three questions or a full team (thread.cpp:119). *)
WakeupsKept ==
  at[santa] = "start" /\ sem["Sleeping"] = 0 =>
    /\ Reindeer_Count < r
    /\ Elf_Count = ELF_MAX => Cardinality({e \in Elves : at[e] = "question"}) = sem["Question"]

(* Santa names three elves he has heard, resets the count of the reindeer alone,
   and does not sleep through a wake-up. *)
SantaSafe == TypeOK /\ SantaNamesThree /\ CountIsSantas /\ WakeupsKept

(* Elves that woke Santa go back to work, unless he retires first: reindeer that
   return in time are served before them again and again. *)
ElvesGetHelp == Elf_Count = ELF_MAX ~> Elf_Count = 0 \/ Retired
=============================================================================
