---------------------------- MODULE MesaMonitor ----------------------------
(***************************************************************************)
(* What synch.h promises of Lock and Condition, Mesa style: a lock is FREE *)
(* or BUSY, and only the thread that made it BUSY makes it FREE; Wait      *)
(* releases the lock and joins the waiters in one step; Signal makes one   *)
(* waiter, the first, free to acquire the lock again, and Broadcast all of *)
(* them; a waiter nobody has signalled does not return.                    *)
(***************************************************************************)
EXTENDS Sequences, Functions

CONSTANTS Threads, Locks, Conditions, FREE

VARIABLES
    holder,    \* of every lock, the thread that made it BUSY, or FREE
    waiting    \* of every condition, its waiters

Init ==
    /\ holder = [l \in Locks |-> FREE]
    /\ waiting = [c \in Conditions |-> <<>>]

Acquire(t, l) ==
    /\ holder[l] = FREE
    /\ \A c \in Conditions : t \notin Range(waiting[c])
    /\ holder' = [holder EXCEPT ![l] = t]
    /\ UNCHANGED waiting

Release(t, l) ==
    /\ holder[l] = t
    /\ holder' = [holder EXCEPT ![l] = FREE]
    /\ UNCHANGED waiting

Wait(t, c, l) ==
    /\ holder[l] = t
    /\ holder' = [holder EXCEPT ![l] = FREE]
    /\ waiting' = [waiting EXCEPT ![c] = Append(@, t)]

\* One Signal, or one turn of the loop of Broadcast.
Signal(t, c, l) ==
    /\ holder[l] = t
    /\ waiting[c] # <<>>
    /\ waiting' = [waiting EXCEPT ![c] = Tail(@)]
    /\ UNCHANGED holder

Next ==
    \E t \in Threads, l \in Locks :
        \/ Acquire(t, l) \/ Release(t, l)
        \/ \E c \in Conditions : Wait(t, c, l) \/ Signal(t, c, l)

Spec == Init /\ [][Next]_<<holder, waiting>>

=============================================================================
