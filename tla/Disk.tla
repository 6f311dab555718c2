-------------------------------- MODULE Disk --------------------------------
(***************************************************************************)
(* Simulated time in Nachos: the list of pending interrupts                *)
(* (machine/interrupt.cc, threads/list.cc), the timer (timer.cc) and the   *)
(* disk (disk.cc), which reckons when the head will have passed a sector.  *)
(* One thread at a time uses the disk, as SynchDisk sees to; others may    *)
(* run meanwhile, or the machine idles.                                    *)
(***************************************************************************)
EXTENDS Integers, Sequences

CONSTANTS SectorsPerTrack, Tracks,
          RotationTime,        \* of one sector
          SeekTime, SystemTick, TimerTicks,
          MaxTicks, MaxRequests      \* bounds

VARIABLES totalTicks, pending, status,
          checking,            \* in the loop of CheckIfDue(false)
          lastSector, bufferInit, active,
          asleep,              \* the thread that made the request
          requests,
          request,             \* the last request, and where the head was
          lastWhen             \* the time of the last interrupt handled

vars == <<totalTicks, pending, status, checking, lastSector, bufferInit, active,
          asleep, requests, request, lastWhen>>

NumSectors == SectorsPerTrack * Tracks
Max(m, n) == IF m > n THEN m ELSE n

\* List::SortedInsert: behind those with the same key.
SortedInsert(list, e) ==
    LET before == SelectSeq(list, LAMBDA x : x.when <= e.when)
    IN  before \o <<e>> \o SubSeq(list, Len(before) + 1, Len(list))
Schedule(list, handler, when) == SortedInsert(list, [handler |-> handler, when |-> when])

Init == /\ totalTicks = 0 /\ status = "SystemMode" /\ checking = FALSE
        /\ pending = <<[handler |-> "timer", when |-> TimerTicks]>>
        /\ lastSector = 0 /\ bufferInit = 0 /\ active = FALSE
        /\ asleep = FALSE /\ requests = 0 /\ lastWhen = 0
        /\ request = [sector |-> 0, writing |-> FALSE, at |-> 0, from |-> 0, since |-> 0,
                      due |-> 0, ended |-> FALSE]

-----------------------------------------------------------------------------
\* Disk::TimeToSeek, with the wait for the start of the next sector.
Distance(m, n) == IF m > n THEN m - n ELSE n - m
seek(s) == Distance(s \div SectorsPerTrack, lastSector \div SectorsPerTrack) * SeekTime
over(s) == (totalTicks + seek(s)) % RotationTime
rotation(s) == IF over(s) > 0 THEN RotationTime - over(s) ELSE 0
timeAfter(s) == totalTicks + seek(s) + rotation(s)

ModuloDiffBack(to, from) ==      \* a slip: the difference the other way round
    ((from % SectorsPerTrack) - (to % SectorsPerTrack) + SectorsPerTrack) % SectorsPerTrack
ModuloDiff(to, from) ==
    ((to % SectorsPerTrack) - (from % SectorsPerTrack) + SectorsPerTrack) % SectorsPerTrack

\* Whether the track buffer holds the sector already.
Buffered(s, writing) ==
    /\ ~writing /\ seek(s) = 0
    /\ (timeAfter(s) - bufferInit) \div RotationTime > ModuloDiff(s, bufferInit \div RotationTime)
ComputeLatency(s, writing) ==
    IF Buffered(s, writing) THEN RotationTime
    ELSE seek(s) + rotation(s) + RotationTime
         + ModuloDiff(s, timeAfter(s) \div RotationTime) * RotationTime

\* ReadRequest, WriteRequest and UpdateLast; the thread then sleeps.
Request(s, writing) ==
    /\ ~checking /\ ~asleep /\ requests < MaxRequests /\ totalTicks < MaxTicks
    /\ LET when == totalTicks + ComputeLatency(s, writing) IN
       /\ pending' = Schedule(pending, "disk", when)
       /\ request' = [sector |-> s, writing |-> writing, at |-> totalTicks,
                      from |-> lastSector, since |-> bufferInit, due |-> when, ended |-> FALSE]
    /\ active' = TRUE /\ asleep' = TRUE /\ requests' = requests + 1
    /\ bufferInit' = IF seek(s) # 0 THEN timeAfter(s) ELSE bufferInit
    /\ lastSector' = s
    /\ UNCHANGED <<totalTicks, status, checking, lastWhen>>

-----------------------------------------------------------------------------
\* The handler of e runs at time now: Disk::HandleInterrupt, or
\* Timer::TimerExpired, whose next interrupt comes after a random time.
Handles(e, now) ==
    /\ lastWhen' = e.when
    /\ \/ /\ e.handler = "disk" /\ active' = FALSE /\ asleep' = FALSE
          /\ request' = [request EXCEPT !.ended = TRUE]
          /\ pending' = Tail(pending)
       \/ /\ e.handler = "timer"
          /\ \E n \in 1 .. 2 * TimerTicks : pending' = Schedule(Tail(pending), "timer", now + n)
          /\ UNCHANGED <<active, asleep, request>>

TimerAlone == Len(pending) = 1 /\ Head(pending).handler = "timer"

\* A thread in the kernel turns interrupts on: time goes on.
OneTick ==
    /\ status = "SystemMode" /\ ~checking /\ totalTicks < MaxTicks
    /\ totalTicks' = totalTicks + SystemTick
    /\ checking' = TRUE
    /\ UNCHANGED <<pending, status, lastSector, bufferInit, active, asleep,
                   requests, request, lastWhen>>

\* CheckIfDue(false): the first interrupt is handled, or put back.
CheckIfDue ==
    /\ checking /\ UNCHANGED <<totalTicks, lastSector, bufferInit, requests>>
    /\ IF Head(pending).when <= totalTicks /\ ~(status = "IdleMode" /\ TimerAlone)
         THEN Handles(Head(pending), totalTicks) /\ UNCHANGED <<checking, status>>
         ELSE /\ checking' = FALSE /\ status' = "SystemMode"
              /\ pending' = SortedInsert(Tail(pending), Head(pending))
              /\ UNCHANGED <<active, asleep, request, lastWhen>>

\* No thread is ready: the clock jumps to the first interrupt, or the
\* machine halts when that is the timer's and there is no other.
Idle ==
    /\ ~checking /\ status = "SystemMode" /\ totalTicks < MaxTicks
    /\ asleep \/ requests = MaxRequests
    /\ UNCHANGED <<lastSector, bufferInit, requests>>
    /\ totalTicks' = Max(totalTicks, Head(pending).when)
    /\ IF TimerAlone
         THEN /\ status' = "Halted"
              /\ UNCHANGED <<checking, pending, active, asleep, request, lastWhen>>
         ELSE status' = "IdleMode" /\ checking' = TRUE
              /\ Handles(Head(pending), totalTicks')

Next == \/ \E s \in 0 .. NumSectors - 1, writing \in BOOLEAN : Request(s, writing)
        \/ OneTick \/ CheckIfDue \/ Idle

Spec == Init /\ [][Next]_vars

-----------------------------------------------------------------------------
\* The sector passes under the head, from its start to its end, between the
\* two times.
Passes(s, from, to) ==
    \E t \in from .. to - RotationTime :
        t % RotationTime = 0 /\ (t \div RotationTime) % SectorsPerTrack = s % SectorsPerTrack

\* A request ends when its sector has passed under the head since the seek
\* ended, and at the first such time; a read on the same track may end as
\* soon as the sector has passed since the track buffer was emptied, and
\* takes the time of one transfer (disk.cc:210).
RequestsOnTime ==
    request.due > 0 =>
        LET track(s) == s \div SectorsPerTrack
            arrives == request.at + SeekTime * Distance(track(request.sector), track(request.from))
            moved == arrives # request.at
            fromBuffer == ~moved /\ ~request.writing
                          /\ Passes(request.sector, request.since, request.at + RotationTime - 1)
        IN  IF fromBuffer THEN request.due = request.at + RotationTime
            ELSE /\ Passes(request.sector, arrives, request.due)
                 /\ ~Passes(request.sector, arrives, request.due - 1)

\* Interrupts are handled in the order of their times and none early, the
\* disk has one request at a time, and the machine never halts before the
\* request has ended (interrupt.cc:210, 290; disk.cc:120).
InterruptsInOrder ==
    /\ \A i \in 1 .. Len(pending) : /\ pending[i].when >= lastWhen
                                    /\ i > 1 => pending[i].when >= pending[i - 1].when
    /\ request.ended => totalTicks >= request.due
    /\ active = (\E i \in 1 .. Len(pending) : pending[i].handler = "disk")
    /\ active = asleep /\ (status = "Halted" => ~active)
=============================================================================
