---------------------------- MODULE NachosKernel ----------------------------
(***************************************************************************)
(* The thread kernel of src/cs4411/nachosC/threads: the CPU, the ready     *)
(* list, and semaphores.  It is a library of actions; the modules that     *)
(* EXTEND it say which thread performs which operation.                    *)
(*                                                                         *)
(* Nachos runs on a simulated uniprocessor.  A kernel thread loses the CPU *)
(* only when it sleeps or yields, or when an interrupt handler asked for a *)
(* yield; handlers run only in Interrupt::OneTick, which SetLevel calls at *)
(* the END of an operation that had disabled interrupts.  Hence one action *)
(* is everything a thread does up to the end of its next P, V, Fork or     *)
(* Yield, or up to the point where that operation puts it to sleep.        *)
(***************************************************************************)
EXTENDS Integers, Sequences, FiniteSets, Functions

CONSTANTS
    Threads,      \* the kernel threads
    Semaphores,   \* the semaphores
    NoSem,        \* "not inside any P()"
    MainThread,   \* the thread Initialize() makes of the booting program
    DefaultPriority

ASSUME KernelAssumption ==
    /\ IsFiniteSet(Threads) /\ NoSem \notin Semaphores
    /\ MainThread \in Threads
    /\ DefaultPriority \in Nat

VARIABLES
    currentThread,  \* the thread that was dispatched last
    readyList,      \* Scheduler::readyList, a sequence of list elements
    status,         \* Thread::status of every thread
    priority,       \* Thread::priority of every thread
    value,          \* Semaphore::value of every semaphore
    queue,          \* Semaphore::queue, a sequence of threads
    waitingOn       \* the semaphore whose P() the thread has not left yet

cpuVars == <<currentThread, readyList, status>>
semVars == <<value, queue, waitingOn>>
kernelVars == <<cpuVars, priority, semVars>>

ThreadStatus == {"JUST_CREATED", "RUNNING", "READY", "BLOCKED"}

ListElement == [item : Threads, key : Nat]

-----------------------------------------------------------------------------
(* The ready list.                                                         *)

(***************************************************************************)
(* List::SortedInsert.  The code walks the sorted list to the first        *)
(* element whose key is larger; equal keys stay in front of the new one.   *)
(***************************************************************************)
InsertPosition(list, k) == Cardinality({i \in 1..Len(list) : list[i].key <= k}) + 1

SortedInsert(list, element) ==
    LET p == InsertPosition(list, element.key)
    IN  [i \in 1..Len(list) + 1 |->
            IF i < p THEN list[i] ELSE IF i = p THEN element ELSE list[i - 1]]

\* MUTANT of ReadyToRun: List::Append instead of SortedInsert.
ReadyToRunFIFO(list, t) == Append(list, [item |-> t, key |-> priority[t]])

\* Scheduler::ReadyToRun, as a function of the list it inserts into.
ReadyToRun(list, t) == SortedInsert(list, [item |-> t, key |-> priority[t]])

\* Scheduler::FindNextToRun and the switch of Scheduler::Run: the head of
\* `list' leaves it and gets the CPU; `st' is what the old thread's status
\* has just been set to.
Run(list, st) ==
    /\ list # <<>>
    /\ currentThread' = Head(list).item
    /\ status' = [st EXCEPT ![Head(list).item] = "RUNNING"]

(***************************************************************************)
(* Thread::Sleep.  With an empty ready list the sleeper stays the current  *)
(* thread and loops in Interrupt::Idle, see IdleDispatch.                  *)
(***************************************************************************)
Sleep(t) ==
    LET blocked == [status EXCEPT ![t] = "BLOCKED"]
    IN  \/ /\ Run(readyList, blocked)
           /\ readyList' = Tail(readyList)
        \/ /\ readyList = <<>>
           /\ status' = blocked
           /\ UNCHANGED <<currentThread, readyList>>

\* The sleeper that idles the machine finds a thread that an interrupt made
\* ready: the while loop of Thread::Sleep ends.
IdleDispatch ==
    /\ status[currentThread] # "RUNNING"
    /\ Run(readyList, status)
    /\ readyList' = Tail(readyList)
    /\ UNCHANGED <<priority, semVars>>

\* The thread has the CPU, with interrupts enabled, outside every P().
IsRunning(t) ==
    /\ currentThread = t
    /\ status[t] = "RUNNING"
    /\ waitingOn[t] = NoSem

\* Nothing can run until a device interrupts.
Idle == status[currentThread] # "RUNNING" /\ readyList = <<>>

(***************************************************************************)
(* Thread::Yield, called by the thread itself or, on a timer interrupt, by *)
(* OneTick on its behalf.  The next thread leaves the list before the      *)
(* yielding one enters it; with nobody ready the call has no effect.       *)
(***************************************************************************)
Yield(t) ==
    /\ IsRunning(t)
    /\ Run(readyList, [status EXCEPT ![t] = "READY"])
    /\ readyList' = ReadyToRun(Tail(readyList), t)
    /\ UNCHANGED <<priority, semVars>>

\* Thread::Fork of a thread whose object `t' has created.
Fork(t, child) ==
    /\ IsRunning(t)
    /\ status[child] = "JUST_CREATED"
    /\ status' = [status EXCEPT ![child] = "READY"]
    /\ readyList' = ReadyToRun(readyList, child)
    /\ UNCHANGED <<currentThread, priority, semVars>>

-----------------------------------------------------------------------------
(* Semaphores.                                                             *)

\* MUTANT of TakeUnit: `if' instead of `while' in Semaphore::P.
TakeUnitAfterSleep(t, s) ==
    /\ value[s] # 0 \/ waitingOn[t] = s
    /\ value' = [value EXCEPT ![s] = @ - 1]
    /\ waitingOn' = [waitingOn EXCEPT ![t] = NoSem]
    /\ UNCHANGED <<cpuVars, queue>>

(***************************************************************************)
(* One evaluation of the loop of Semaphore::P by the running thread t: the *)
(* unit is taken, or t appends itself to the queue and sleeps.             *)
(***************************************************************************)
TakeUnit(t, s) ==
    /\ value[s] # 0
    /\ value' = [value EXCEPT ![s] = @ - 1]
    /\ waitingOn' = [waitingOn EXCEPT ![t] = NoSem]
    /\ UNCHANGED <<cpuVars, queue>>

EnqueueAndSleep(t, s) ==
    /\ value[s] = 0
    /\ queue' = [queue EXCEPT ![s] = Append(@, t)]
    /\ waitingOn' = [waitingOn EXCEPT ![t] = s]
    /\ Sleep(t)
    /\ UNCHANGED value

\* The body of Semaphore::P up to the point where t leaves it or sleeps.
TestValue(t, s) == TakeUnit(t, s) \/ EnqueueAndSleep(t, s)

P(t, s) == IsRunning(t) /\ TestValue(t, s) /\ UNCHANGED priority

\* A thread woken inside P() has been dispatched and tests `value' again.
RetryP(t) ==
    /\ currentThread = t
    /\ status[t] = "RUNNING"
    /\ waitingOn[t] # NoSem
    /\ TestValue(t, waitingOn[t])
    /\ UNCHANGED priority

\* MUTANT of V: the waiters stay asleep.
VWithoutWakeup(s) ==
    /\ value' = [value EXCEPT ![s] = @ + 1]
    /\ UNCHANGED <<cpuVars, queue, waitingOn>>

\* MUTANT of V: the woken thread stays in the queue.
VKeepsInQueue(s) ==
    /\ \/ /\ queue[s] = <<>>
          /\ UNCHANGED <<readyList, status>>
       \/ /\ queue[s] # <<>>
          /\ status' = [status EXCEPT ![Head(queue[s])] = "READY"]
          /\ readyList' = ReadyToRun(readyList, Head(queue[s]))
    /\ value' = [value EXCEPT ![s] = @ + 1]
    /\ UNCHANGED <<currentThread, queue, waitingOn>>

(***************************************************************************)
(* Semaphore::V.  The first waiter, if any, becomes ready, and the value   *)
(* is incremented in every case: the woken thread must still take the unit *)
(* when it runs.                                                           *)
(***************************************************************************)
V(s) ==
    /\ \/ /\ queue[s] = <<>>
          /\ UNCHANGED <<readyList, status, queue>>
       \/ /\ queue[s] # <<>>
          /\ queue' = [queue EXCEPT ![s] = Tail(@)]
          /\ status' = [status EXCEPT ![Head(queue[s])] = "READY"]
          /\ readyList' = ReadyToRun(readyList, Head(queue[s]))
    /\ value' = [value EXCEPT ![s] = @ + 1]
    /\ UNCHANGED <<currentThread, waitingOn>>

-----------------------------------------------------------------------------
(* Properties that every client of the kernel relies on.                   *)

KernelTypeOK ==
    /\ currentThread \in Threads
    /\ readyList \in Seq(ListElement)
    /\ status \in [Threads -> ThreadStatus]
    /\ priority \in [Threads -> Nat]
    /\ value \in [Semaphores -> Nat]
    /\ queue \in [Semaphores -> Seq(Threads)]
    /\ waitingOn \in [Threads -> Semaphores \cup {NoSem}]

Items(list) == {list[i].item : i \in 1..Len(list)}

Distinct(list) == \A i, j \in 1..Len(list) : list[i].item = list[j].item => i = j

Sorted(list) == \A i, j \in 1..Len(list) : i < j => list[i].key <= list[j].key

(***************************************************************************)
(* A thread is in exactly one place: on the CPU, once in the ready list,   *)
(* once in the queue of the one semaphore it waits for, or not yet forked. *)
(* The pieces live in three objects that P, V, Sleep, Yield and Run update *)
(* one at a time; a thread in two places runs twice, in none never again.  *)
(***************************************************************************)
OnCPU == \A t \in Threads : status[t] = "RUNNING" => currentThread = t

ReadyListHoldsReady ==
    /\ Items(readyList) = {t \in Threads : status[t] = "READY"}
    /\ Distinct(readyList)

QueueHoldsBlocked(s) ==
    /\ Range(queue[s]) = {t \in Threads : status[t] = "BLOCKED" /\ waitingOn[t] = s}
    /\ IsInjective(queue[s])

BlockedWaitsOnSemaphore ==
    \A t \in Threads : status[t] = "BLOCKED" => waitingOn[t] # NoSem

NewThreadsAreNowhere ==
    \A t \in Threads : status[t] = "JUST_CREATED" =>
        waitingOn[t] = NoSem /\ currentThread # t

OnePlace ==
    /\ OnCPU
    /\ ReadyListHoldsReady
    /\ \A s \in Semaphores : QueueHoldsBlocked(s)
    /\ BlockedWaitsOnSemaphore
    /\ NewThreadsAreNowhere

(***************************************************************************)
(* List::SortedInsert and the two removals leave the ready list sorted by  *)
(* the keys its elements were inserted with, which the insertion needs.    *)
(***************************************************************************)
ReadyListSorted == Sorted(readyList)

(***************************************************************************)
(* No wake-up is lost: while threads sleep on a semaphore, every unit of   *)
(* it is matched by a thread that a V() has woken and that has yet to test *)
(* the value.  V() wakes only one thread, and a woken thread may find that *)
(* another one took the unit and sleep again.                              *)
(***************************************************************************)
Woken(s) == {t \in Threads : waitingOn[t] = s /\ status[t] \in {"READY", "RUNNING"}}

NoLostWakeup ==
    \A s \in Semaphores : queue[s] # <<>> => value[s] <= Cardinality(Woken(s))

=============================================================================
