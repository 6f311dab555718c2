------------------------------ MODULE Console ------------------------------
(***************************************************************************)
(* The console device (machine/console.cc) and the SynchConsole through    *)
(* which threads use it (userprog/synchconsole.cc): one lock for get and   *)
(* put, a semaphore that the poll for a typed character raises and one     *)
(* that the end of a transfer raises.  Interrupts come at any time between *)
(* two steps; the lock hands itself to any of those that wait for it.      *)
(***************************************************************************)
EXTENDS Integers, Sequences, FiniteSets, SequencesExt

CONSTANTS Readers,         \* threads in readStr, one character after another
          Writers,         \* threads in writeStr
          Size,            \* characters each of them transfers
          EOF              \* the incoming character that means none, -1

VARIABLES typed,           \* what the keyboard has been typed in all, in order
          keyboard,        \* and what of it has not been polled
          incoming, putBusy,
          writing,         \* whether the end of a transfer is pending
          readAvail, writeDone, lock, at, left,
          got,             \* what GetChar has returned, in order
          display

vars == <<typed, keyboard, incoming, putBusy, writing, readAvail, writeDone, lock,
          at, left, got, display>>

device == <<typed, keyboard, incoming, putBusy, writing, got, display>>
Threads == Readers \cup Writers
Free == "nobody"

Init == /\ typed = <<>> /\ keyboard = <<>> /\ incoming = EOF
        /\ putBusy = FALSE /\ writing = FALSE
        /\ readAvail = 0 /\ writeDone = 0 /\ lock = Free
        /\ at = [t \in Threads |-> "Acquire"] /\ left = [t \in Threads |-> Size]
        /\ got = <<>> /\ display = <<>>

-----------------------------------------------------------------------------
\* The user types, now and then a character whose code is -1; in all what
\* the readers ask for.
MaxTyped == Size * Cardinality(Readers)
Types(c) ==
    /\ Len(typed) < MaxTyped
    /\ typed' = Append(typed, c) /\ keyboard' = Append(keyboard, c)
    /\ UNCHANGED <<incoming, putBusy, writing, readAvail, writeDone, lock, at, left, got, display>>

\* Console::CheckCharAvail: nothing, if the buffer holds a character.
CheckCharAvailAlways ==      \* a slip: the buffer is not looked at
    /\ keyboard # <<>>
    /\ incoming' = Head(keyboard) /\ keyboard' = Tail(keyboard)
    /\ readAvail' = readAvail + 1
    /\ UNCHANGED <<typed, putBusy, writing, writeDone, lock, at, left, got, display>>
CheckCharAvail ==
    /\ incoming = EOF /\ keyboard # <<>>
    /\ incoming' = Head(keyboard) /\ keyboard' = Tail(keyboard)
    /\ readAvail' = readAvail + 1
    /\ UNCHANGED <<typed, putBusy, writing, writeDone, lock, at, left, got, display>>

\* Console::WriteDone, when the transfer has taken its time.
WriteDone ==
    /\ writing /\ writing' = FALSE
    /\ putBusy' = FALSE /\ writeDone' = writeDone + 1
    /\ UNCHANGED <<typed, keyboard, incoming, readAvail, lock, at, left, got, display>>

-----------------------------------------------------------------------------
Acquire(t) ==
    /\ at[t] = "Acquire" /\ left[t] > 0 /\ lock = Free
    /\ lock' = t /\ at' = [at EXCEPT ![t] = IF t \in Readers THEN "WaitAvail" ELSE "PutChar"]
    /\ UNCHANGED <<device, readAvail, writeDone, left>>

\* SynchConsole::put
PutChar(t) ==
    /\ at[t] = "PutChar"
    /\ putBusy' = TRUE /\ writing' = TRUE /\ display' = Append(display, <<t, left[t]>>)
    /\ at' = [at EXCEPT ![t] = "WaitDone"]
    /\ UNCHANGED <<typed, keyboard, incoming, readAvail, writeDone, lock, left, got>>
WaitDone(t) ==
    /\ at[t] = "WaitDone" /\ writeDone > 0
    /\ writeDone' = writeDone - 1 /\ at' = [at EXCEPT ![t] = "Release"]
    /\ UNCHANGED <<device, readAvail, lock, left>>

\* SynchConsole::get
WaitAvail(t) ==
    /\ at[t] = "WaitAvail" /\ readAvail > 0
    /\ readAvail' = readAvail - 1 /\ at' = [at EXCEPT ![t] = "GetChar"]
    /\ UNCHANGED <<device, writeDone, lock, left>>
GetChar(t) ==
    /\ at[t] = "GetChar"
    /\ got' = Append(got, incoming) /\ incoming' = EOF
    /\ at' = [at EXCEPT ![t] = "Release"]
    /\ UNCHANGED <<typed, keyboard, putBusy, writing, readAvail, writeDone, lock, left, display>>

Release(t) ==
    /\ at[t] = "Release"
    /\ lock' = Free /\ left' = [left EXCEPT ![t] = @ - 1]
    /\ at' = [at EXCEPT ![t] = "Acquire"]
    /\ UNCHANGED <<device, readAvail, writeDone>>

Step(t) == \/ Acquire(t) \/ PutChar(t) \/ WaitDone(t)
           \/ WaitAvail(t) \/ GetChar(t) \/ Release(t)
Interrupt == CheckCharAvail \/ WriteDone

Next == \/ \E c \in {"a", "b", EOF} : Types(c)
        \/ Interrupt \/ \E t \in Threads : Step(t)

Spec == Init /\ [][Next]_vars

-----------------------------------------------------------------------------
\* PutChar never finds the console busy (console.cc:145); the characters of
\* each writer are displayed once, in order.
Shown(t) == SelectSeq(display, LAMBDA d : d[1] = t)
DisplayedOnce ==
    /\ \A t \in Writers : at[t] = "PutChar" => ~putBusy
    /\ \A t \in Writers : \A i \in 1 .. Len(Shown(t)) : Shown(t)[i][2] = Size + 1 - i

\* The readers get what was typed, in order and nothing twice, as long as
\* the character with the code of EOF is not among it: then the buffer looks
\* empty, the next character takes its place, and a reader that was promised
\* one gets EOF (console.cc:96).
GotWhatWasTyped ==
    EOF \notin ToSet(typed) => IsPrefix(got, typed)
=============================================================================
