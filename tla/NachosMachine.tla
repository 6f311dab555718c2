--------------------------- MODULE NachosMachine ---------------------------
(***************************************************************************)
(* The parts of Nachos under its threads: file system, open files, virtual *)
(* memory, processor, system calls and devices, as instances small enough  *)
(* to check.  Each is checked by itself: one is chosen and runs, and its   *)
(* variables are the cells c1, c2, ...                                     *)
(***************************************************************************)
EXTENDS Integers, Sequences, FiniteSets

CommandLines == {<<"g", " ", "f", "g">>, <<" ", "f", " ", " ", "g", "f">>}

VARIABLES program, c1, c2, c3, c4, c5, c6, c7, c8, c9, c10, c11, c12

vars == <<program, c1, c2, c3, c4, c5, c6, c7, c8, c9, c10, c11, c12>>

FS == INSTANCE FileSystem WITH
    NumSectors <- 9, NumDirEntries <- 2, Across <- 2, FileNames <- {"a", "b", "c"},
    FileSizes <- 0 .. 2, MaxCrashes <- 1, disk <- c1, pc <- c2, op <- c3,
    directory <- c4, freeMap <- c5, hdr <- c6, sector <- c7, crashes <- c8
Processor == INSTANCE Mips WITH
    Width <- 4, Few <- {0, 5}, MaxSteps <- 3, m <- c1, mem <- c2, plain <- c3,
    plainMem <- c4, steps <- c5, limit <- c6, last <- c7
Calls == INSTANCE SystemCalls WITH
    Processes <- 1 .. 2, FileNames <- {<<"f">>, <<"g">>}, ProgramName <- <<"f">>,
    Commands <- CommandLines, WordSize <- 4, PageSize <- 8, UserStackSize <- 20,
    SegmentsSize <- 9, MaxOpens <- 3, files <- c1, openFiles <- c2, opened <- c3,
    table <- c4, executable <- c5, command <- c6, running <- c7
Drive == INSTANCE Disk WITH
    SectorsPerTrack <- 3, Tracks <- 2, RotationTime <- 3, SeekTime <- 2,
    SystemTick <- 2, TimerTicks <- 2, MaxTicks <- 16, MaxRequests <- 2,
    totalTicks <- c1, pending <- c2, status <- c3, checking <- c4, lastSector <- c5,
    bufferInit <- c6, active <- c7, asleep <- c8, requests <- c9, request <- c10,
    lastWhen <- c11
Terminal == INSTANCE Console WITH
    Readers <- {"r1"}, Writers <- {"w1", "w2"}, Size <- 3, EOF <- "eof", typed <- c1,
    keyboard <- c2, incoming <- c3, putBusy <- c4, writing <- c5, readAvail <- c6,
    writeDone <- c7, lock <- c8, at <- c9, left <- c10, got <- c11, display <- c12
Net == INSTANCE Network WITH
    Machines <- 0 .. 1, MaxPackets <- 4, socket <- c1, inbox <- c2, sending <- c3,
    told <- c4, sent <- c5, packets <- c6, received <- c7

\* One of the programs runs; the cells it does not use stay 0.
Init ==
  \/ program = "files"     /\ FS!Init
     /\ c9 = 0 /\ c10 = 0 /\ c11 = 0 /\ c12 = 0
  \/ program = "processor" /\ Processor!Init
     /\ c8 = 0 /\ c9 = 0 /\ c10 = 0 /\ c11 = 0 /\ c12 = 0
  \/ program = "calls"     /\ Calls!Init
     /\ c8 = 0 /\ c9 = 0 /\ c10 = 0 /\ c11 = 0 /\ c12 = 0
  \/ program = "disk"      /\ Drive!Init
     /\ c12 = 0
  \/ program = "console"   /\ Terminal!Init
  \/ program = "network"   /\ Net!Init
     /\ c8 = 0 /\ c9 = 0 /\ c10 = 0 /\ c11 = 0 /\ c12 = 0

Next ==
  /\ UNCHANGED program
  /\ \/ program = "files"     /\ FS!Next /\ UNCHANGED <<c9, c10, c11, c12>>
     \/ program = "processor" /\ Processor!Next /\ UNCHANGED <<c8, c9, c10, c11, c12>>
     \/ program = "calls"     /\ Calls!Next /\ UNCHANGED <<c8, c9, c10, c11, c12>>
     \/ program = "disk"      /\ Drive!Next /\ UNCHANGED <<c12>>
     \/ program = "console"   /\ Terminal!Next
     \/ program = "network"   /\ Net!Next /\ UNCHANGED <<c8, c9, c10, c11, c12>>

Spec == Init /\ [][Next]_vars

-----------------------------------------------------------------------------
\* Between its operations the file system's directory, headers and map of free
\* sectors agree, and an operation that is cut off by a crash harms no file
\* but its own (filesys.cc:175, 258).
FileSystemSafe == program = "files" => FS!Consistent /\ FS!OthersSurvive

\* Interrupts and faults between instructions change no result, sums and
\* products are exact and overflow is trapped (mipssim.cc:100, 575, 637).
MachineExact == program = "processor" =>
    Processor!TypeOK /\ Processor!Restartable /\ Processor!ArithmeticExact

\* Every OpenFile has exactly one holder, and a program finds its arguments
\* (fdtable.cc:23, addrspace.cc:213).
CallsSafe == program = "calls" => Calls!HandlesOwned /\ Calls!ArgumentsArrive

\* Requests to the disk end when their sector has passed the head, and
\* interrupts come in the order of their times (disk.cc:232, interrupt.cc:290).
DiskOnTime == program = "disk" => Drive!RequestsOnTime /\ Drive!InterruptsInOrder

\* Characters and packets arrive once and in order (console.cc:86,
\* network.cc:62).
DevicesInOrder ==
    /\ program = "console" => Terminal!DisplayedOnce /\ Terminal!GotWhatWasTyped
    /\ program = "network" => Net!PacketsInOrder

=============================================================================
