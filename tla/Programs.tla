------------------------------ MODULE Programs ------------------------------
(***************************************************************************)
(* The programs that theorems are about, with constants of their own: the  *)
(* boat and Santa Claus of cs3331, the ring of cs3411, the reliable        *)
(* transfer and the HTTP server of cs4461, and the paging and the open     *)
(* files of Nachos.  They have nothing in common but this module: one of   *)
(* them is chosen and runs, and its variables are the cells c1, c2, ...    *)
(***************************************************************************)
EXTENDS Integers, Sequences, FiniteSets

CONSTANTS Missionaries, Cannibals, max_crossings,                        \* Boat
          Elves, Deer, Deliveries,                                 \* SantaClaus
          num_procs, MaxCount,                                          \* Links
          MsgLen, WINDOW, GiveUp, MaxTimeouts, MaxFaults,            \* Transfer
          MaxClients, MaxTime, Initial, MAX_CONN, TIMEOUT,             \* Server
          Spaces, NumPhysPages, numPages, PageSize, codeAddr, codeSize,
          dataAddr, dataSize, ArgAddress, Written, MaxPrograms,        \* Paging
          FileUsers, SectorSize, fileLength, MaxWrites                 \* Opened

NoPacket == [type |-> "none", seq |-> 0, valid |-> FALSE]

VARIABLES program, c1, c2, c3, c4, c5, c6, c7, c8, c9, c10, c11, c12, c13, c14, c15, c16

vars == <<program, c1, c2, c3, c4, c5, c6, c7, c8, c9, c10, c11, c12, c13, c14, c15, c16>>

Boat == INSTANCE BoatMonitor WITH
    ashore <- c1, queued <- c2, aboard <- c3, MQueue_Count <- c4, CQueue_Count <- c5,
    sailing <- c6, valid_boat <- c7, boat_loaded <- c8, p_count <- c9,
    cur_cross <- c10, boat <- c11
SantaClaus == INSTANCE Santa WITH
    at <- c1, sem <- c2, Elf_Count <- c3, Reindeer_Count <- c4, waiting_elves <- c5,
    delivery <- c6
Links == INSTANCE Ring WITH
    link <- c1, flag <- c2, count <- c3, pipe <- c4, parent <- c5
Transfer == INSTANCE UnreliableTransfer WITH
    pc <- c1, flag <- c2, count <- c3, i <- c4, done <- c5, wait_count <- c6, w <- c7,
    ack <- c8, timeout <- c9, toServer <- c10, toClient <- c11, heldByClient <- c12,
    heldByServer <- c13, connected <- c14, delivered <- c15, faults <- c16
Server == INSTANCE HttpServer WITH
    main <- c1, now <- c2, accepted <- c3, i <- c4, threadCount <- c5, threadMax <- c6,
    threads <- c7, startTime <- c8, thread <- c9, cancelled <- c10, open <- c11,
    reset <- c12
Paging == INSTANCE VirtualMemory WITH
    vm <- c1, running <- c2, programs <- c3, meant <- c4, forgotten <- c5
Opened == INSTANCE OpenFile WITH
    Threads <- FileUsers, st <- c1, seekPosition <- c2, disk <- c3, meant <- c4,
    writes <- c5, torn <- c6

ASSUME ProgramsAssumption ==
    /\ Boat!BoatAssumption /\ SantaClaus!SantaAssumption /\ Links!RingAssumption
    /\ Transfer!TransferAssumption /\ Server!ServerAssumption /\ Paging!MemoryAssumption
    /\ Opened!OpenFileAssumption

\* One of the programs runs; the cells it does not use stay 0.
Init ==
  \/ program = "boat"      /\ Boat!Init
     /\ c12 = 0 /\ c13 = 0 /\ c14 = 0 /\ c15 = 0 /\ c16 = 0
  \/ program = "santa"     /\ SantaClaus!Init
     /\ c7 = 0 /\ c8 = 0 /\ c9 = 0 /\ c10 = 0 /\ c11 = 0 /\ c12 = 0 /\ c13 = 0
     /\ c14 = 0 /\ c15 = 0 /\ c16 = 0
  \/ program = "ring"      /\ Links!Init
     /\ c6 = 0 /\ c7 = 0 /\ c8 = 0 /\ c9 = 0 /\ c10 = 0 /\ c11 = 0 /\ c12 = 0
     /\ c13 = 0 /\ c14 = 0 /\ c15 = 0 /\ c16 = 0
  \/ program = "transfer"  /\ Transfer!Init
  \/ program = "server"    /\ Server!Init
     /\ c13 = 0 /\ c14 = 0 /\ c15 = 0 /\ c16 = 0
  \/ program = "paging"    /\ Paging!Init
     /\ c6 = 0 /\ c7 = 0 /\ c8 = 0 /\ c9 = 0 /\ c10 = 0 /\ c11 = 0 /\ c12 = 0
     /\ c13 = 0 /\ c14 = 0 /\ c15 = 0 /\ c16 = 0
  \/ program = "open"      /\ Opened!Init
     /\ c7 = 0 /\ c8 = 0 /\ c9 = 0 /\ c10 = 0 /\ c11 = 0 /\ c12 = 0 /\ c13 = 0
     /\ c14 = 0 /\ c15 = 0 /\ c16 = 0

Next ==
  /\ UNCHANGED program
  /\ \/ program = "boat"      /\ Boat!Next /\ UNCHANGED <<c12, c13, c14, c15, c16>>
     \/ program = "santa"     /\ SantaClaus!Next /\ UNCHANGED <<c7, c8, c9, c10, c11, c12, c13, c14, c15, c16>>
     \/ program = "ring"      /\ Links!Next /\ UNCHANGED <<c6, c7, c8, c9, c10, c11, c12, c13, c14, c15, c16>>
     \/ program = "transfer"  /\ Transfer!Next
     \/ program = "server"    /\ Server!Next /\ UNCHANGED <<c13, c14, c15, c16>>
     \/ program = "paging"    /\ Paging!Next /\ UNCHANGED <<c6, c7, c8, c9, c10, c11, c12, c13, c14, c15, c16>>
     \/ program = "open"      /\ Opened!Next /\ UNCHANGED <<c7, c8, c9, c10, c11, c12, c13, c14, c15, c16>>

\* A program of threads goes on as long as one of them can; the boat, which
\* may turn in its loop, leaves no passenger out; and ring, having begun to
\* kill the links, goes on.
BoatStep(step) ==
    program = "boat" /\ step /\ UNCHANGED <<program, c12, c13, c14, c15, c16>>
RingStep(step) ==
    /\ program = "ring" /\ step
    /\ UNCHANGED <<program, c6, c7, c8, c9, c10, c11, c12, c13, c14, c15, c16>>
Fairness ==
  /\ WF_vars(program \in {"boat", "santa"} /\ Next)
  /\ \A t \in Boat!Passengers :
       WF_vars(BoatStep(Boat!CannibalArrives(t) \/ Boat!MissionaryArrives(t)))
  /\ WF_vars(BoatStep(Boat!BoatThread))
  /\ WF_vars(RingStep(Links!Kills))

Spec == Init /\ [][Next]_vars /\ Fairness

-----------------------------------------------------------------------------
\* The flags of the boat's monitor and the queues of those that wait agree
\* with who is where (prog5/thread.cpp:70).
BoatSafe == program = "boat" => Boat!BoatSafe

\* Santa names three different elves, writes the count of the reindeer only
\* while none of them touches it, and sleeps only when nobody waits for him
\* (prog4/thread.cpp:138).
SantaSafe == program = "santa" => SantaClaus!SantaSafe

\* While ring has not begun to kill, one count goes round, and the link that
\* holds it is the one it is for (cs3411/prog3/link.c:62).
OneToken == program = "ring" => Links!OneToken

\* Whatever is lost, damaged or held back, a packet after the first that the client
\* of a short message takes for acknowledged has reached the server; the first may
\* be taken so for the acknowledgement of the SYN (cs4461/prog4/client.c:195, :223).
AcksAreHonest == program = "transfer" => Transfer!TypeOK /\ Transfer!AcksAreHonest

\* The server's count of connections is the number of its threads that have
\* not left, but for those it has cancelled (cs4461/prog3/main.c:133).
CountTellsThreads == program = "server" => Server!CountTellsThreads

\* Frames, page tables, swap and the queue of frames agree, and a program
\* finds in its memory what was put there (vm/mmu.cc:4, swap.cc:45).
MemorySafe == program = "paging" => Paging!MemorySafe

\* An open file holds what was written last, whichever parts of sectors the
\* writes begin and end in (openfile.cc:145).
FileKept == program = "open" => Opened!FileKept

\* Elves that woke Santa go back to work, unless he retires
\* (prog4/thread-support.cpp:77).
ElvesGetHelp ==
    (program = "santa" /\ c3 = 3) ~> (program = "santa" /\ (c3 = 0 \/ SantaClaus!Retired))

\* The boat makes all its crossings; and once ring has begun to kill, no link
\* is left in the end (prog5/thread.cpp:85, cs3411/prog3/ring.c:216).
ProgramsEnd ==
    /\ program = "boat" ~> (program = "boat" /\ c11 = "Exit")
    /\ (program = "ring" /\ c5.at = "killing" /\ c5.child > 0)
         ~> (program = "ring" /\ \A k \in Links!Links : ~Links!Alive(k))

=============================================================================
