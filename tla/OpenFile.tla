------------------------------ MODULE OpenFile ------------------------------
(***************************************************************************)
(* filesys/openfile.cc: threads that read and write one file, each through *)
(* an OpenFile of its own.  The disk transfers whole sectors (SynchDisk,   *)
(* one request at a time), so a write that covers part of a sector reads   *)
(* it first; between two transfers other threads run.                      *)
(***************************************************************************)
EXTENDS Integers, Sequences, FiniteSets

CONSTANTS Threads, SectorSize, fileLength,
          MaxWrites      \* writes a thread does

OpenFileAssumption == SectorSize \in Nat \ {0} /\ fileLength \in Nat /\ MaxWrites \in Nat

VARIABLES st,         \* per thread: what it does and its buffer
          seekPosition, disk, writes,
          meant,      \* the bytes of the file as the finished writes left them
          torn        \* sectors in which two writes met

vars == <<st, seekPosition, disk, writes, meant, torn>>

Bytes == 0 .. fileLength - 1
Offsets == 0 .. SectorSize - 1
divRoundDown(n) == n \div SectorSize
Sectors == 0 .. divRoundDown(fileLength - 1)
Blank == [o \in Offsets |-> "old"]
Junk == [s \in Sectors |-> [o \in Offsets |-> "junk"]]   \* new char[]
Idle == [op |-> "idle", pos |-> 0, n |-> 0, buf |-> Junk, todo |-> {}, calm |-> TRUE]

Init == /\ st = [t \in Threads |-> Idle]
        /\ seekPosition = [t \in Threads |-> 0]
        /\ disk = [s \in Sectors |-> Blank]
        /\ writes = [t \in Threads |-> 0]
        /\ meant = [b \in Bytes |-> "old"]
        /\ torn = {}

-----------------------------------------------------------------------------
\* The request, cut at the end of the file; none is left when it is empty.
Cut(pos, n) == IF pos >= fileLength THEN 0
               ELSE IF pos + n > fileLength THEN fileLength - pos ELSE n
Range(pos, n) == divRoundDown(pos) .. divRoundDown(pos + n - 1)
First(c) == divRoundDown(c.pos)
Last(c) == divRoundDown(c.pos + c.n - 1)
Covers(c, s, o) == s * SectorSize + o \in c.pos .. c.pos + c.n - 1

\* WriteAt: the sectors it modifies in part, which it reads first.
firstAligned(c) == c.pos = First(c) * SectorSize
lastAligned(c) == c.pos + c.n = (Last(c) + 1) * SectorSize
PartlyFirst(c) ==      \* a slip: the last sector is read only if it is not the first too
    (IF firstAligned(c) THEN {} ELSE {First(c)})
    \cup (IF ~lastAligned(c) /\ First(c) # Last(c) THEN {Last(c)} ELSE {})
Partly(c) == (IF firstAligned(c) THEN {} ELSE {First(c)})
             \cup (IF ~lastAligned(c) /\ (First(c) # Last(c) \/ firstAligned(c))
                     THEN {Last(c)} ELSE {})

Seek(t, pos) == /\ st[t].op = "idle"
                /\ seekPosition[t] # pos
                /\ seekPosition' = [seekPosition EXCEPT ![t] = pos]
                /\ st' = [st EXCEPT ![t] = Idle]
                /\ UNCHANGED <<disk, writes, meant, torn>>

Read(t, n) ==
    /\ st[t].op = "idle" /\ Cut(seekPosition[t], n) > 0
    /\ LET c == [Idle EXCEPT !.op = "read", !.pos = seekPosition[t],
                             !.n = Cut(seekPosition[t], n)]
       IN  st' = [st EXCEPT ![t] = [c EXCEPT !.todo = Range(c.pos, c.n)]]
    /\ UNCHANGED <<seekPosition, disk, writes, meant, torn>>

Write(t, n) ==
    /\ st[t].op = "idle" /\ Cut(seekPosition[t], n) > 0 /\ writes[t] < MaxWrites
    /\ LET c == [Idle EXCEPT !.op = "fill", !.pos = seekPosition[t],
                             !.n = Cut(seekPosition[t], n)]
       IN  st' = [st EXCEPT ![t] = [c EXCEPT !.todo = Partly(c)]]
    /\ writes' = [writes EXCEPT ![t] = @ + 1]
    /\ UNCHANGED <<seekPosition, disk, meant, torn>>

\* The sectors of a request are transferred in their order.
NextSector(t) == CHOOSE s \in st[t].todo : \A r \in st[t].todo : s <= r

\* ReadSector into the buffer; only what is in the file is copied (ReadAt).
ReadSector(t) ==
    /\ st[t].op \in {"read", "fill"} /\ st[t].todo # {}
    /\ LET s == NextSector(t) IN
       st' = [st EXCEPT ![t].todo = @ \ {s},
                        ![t].buf[s] = [o \in Offsets |->
                            IF s * SectorSize + o < fileLength THEN disk[s][o] ELSE @[o]]]
    /\ UNCHANGED <<seekPosition, disk, writes, meant, torn>>

ReadEnds(t) ==
    /\ st[t].op = "read" /\ st[t].todo = {}
    /\ st' = [st EXCEPT ![t].op = "idle"]
    /\ seekPosition' = [seekPosition EXCEPT ![t] = @ + st[t].n]
    /\ UNCHANGED <<disk, writes, meant, torn>>

\* The bytes of the caller are copied over those of the buffer.
Copies(t) ==
    /\ st[t].op = "fill" /\ st[t].todo = {}
    /\ st' = [st EXCEPT ![t].op = "write", ![t].todo = Range(st[t].pos, st[t].n),
                        ![t].buf = [s \in Sectors |-> [o \in Offsets |->
                            IF Covers(st[t], s, o) THEN t ELSE @[s][o]]]]
    /\ UNCHANGED <<seekPosition, disk, writes, meant, torn>>

Busy(u, s) == st[u].op \in {"fill", "write"} /\ s \in Range(st[u].pos, st[u].n)
              /\ (st[u].op = "write" => s \in st[u].todo)
WriteSector(t) ==
    /\ st[t].op = "write" /\ st[t].todo # {}
    /\ LET s == NextSector(t) IN
       /\ disk' = [disk EXCEPT ![s] = st[t].buf[s]]
       /\ meant' = [b \in Bytes |-> IF divRoundDown(b) = s /\ Covers(st[t], s, b % SectorSize)
                                      THEN t ELSE meant[b]]
       /\ torn' = IF \E u \in Threads \ {t} : Busy(u, s) THEN torn \cup {s} ELSE torn
       /\ st' = [u \in Threads |->
                   IF u = t THEN [st[t] EXCEPT !.todo = @ \ {s}]
                   ELSE IF s \in Range(st[u].pos, st[u].n) THEN [st[u] EXCEPT !.calm = FALSE]
                   ELSE st[u]]
    /\ UNCHANGED <<seekPosition, writes>>

WriteEnds(t) ==
    /\ st[t].op = "write" /\ st[t].todo = {}
    /\ st' = [st EXCEPT ![t] = Idle]
    /\ seekPosition' = [seekPosition EXCEPT ![t] = @ + st[t].n]
    /\ UNCHANGED <<disk, writes, meant, torn>>

Next == \E t \in Threads :
           \/ \E pos \in Bytes : Seek(t, pos)
           \/ \E n \in 1 .. fileLength : Read(t, n) \/ Write(t, n)
           \/ ReadSector(t) \/ ReadEnds(t) \/ Copies(t) \/ WriteSector(t) \/ WriteEnds(t)

Spec == Init /\ [][Next]_vars

-----------------------------------------------------------------------------
\* The file holds what was written last to each byte, except in sectors where
\* two writes met; and a read during which nobody wrote to its sectors has
\* got what the file held.
FileKept ==
    /\ \A b \in Bytes : divRoundDown(b) \notin torn =>
          disk[divRoundDown(b)][b % SectorSize] = meant[b]
    /\ \A t \in Threads : st[t].op = "idle" /\ st[t].n > 0 /\ st[t].calm =>
          \A b \in st[t].pos .. st[t].pos + st[t].n - 1 :
             divRoundDown(b) \in torn \/ st[t].buf[divRoundDown(b)][b % SectorSize] = meant[b]

=============================================================================
