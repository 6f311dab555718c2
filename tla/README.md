# TLA+ models of gnmiller-classes

The repository collects course programs. This directory models those of them
whose difficulty is concurrency, state or arithmetic: first of all the Nachos
operating system of `src/cs4411/nachosC`, from its processor and devices to its
file system and system calls, then the programs of threads, processes and
sockets of `src/cs3331`, `src/cs3411`, `src/cs4411/prog2` and `src/cs4461`. TLC
checks the models on small instances; TLAPS proves the core of the Nachos models
for every number of threads, semaphores, locks and priorities.

Paths below are relative to `src/`; `nachosC` is `cs4411/nachosC`.

## Inventory

### Nachos (`cs4411/nachosC`)

| Component | State | Operations | Interacts through |
|---|---|---|---|
| Threads and scheduler: `threads/thread.cc`, `scheduler.cc`, `list.cc` | `currentThread`, ready list ordered by priority, status and priority of a thread, `threadToBeDestroyed` | Fork, Yield, Sleep, Finish, Join, setPriority; ReadyToRun, FindNextToRun, Run | called by every other part with interrupts off |
| Interrupt simulation: `machine/interrupt.cc`, `timer.cc` | level, pending interrupts, yieldOnReturn | SetLevel, OneTick, Idle, Schedule, CheckIfDue | handlers of devices; preempts at the end of an operation that had interrupts off |
| Semaphore: `threads/synch.cc` | value, queue | P, V | scheduler |
| Lock | semaphore, owner, priority of the holder before donations | Acquire, Release, donatePriority | semaphore, priorities in the scheduler |
| Condition | queue of items, each a thread and a semaphore of its own | Wait, Signal, Broadcast | lock of the caller |
| Port | lock, two conditions, two counters, buffer | Send, Receive | lock and condition |
| User processes: `userprog/exception.cc`, `coremap.h` | children to join, join port of every thread, set of live threads | Exec, Exit, Join | port of the child; machine halts when the set has one member |
| Bridge: `threads/threadtest.cc` | two counters, direction, three locks, two conditions | ArriveBridge, CrossBridge, ExitBridge | lock and condition |
| Devices: `machine/disk.cc`, `console.cc`, `network.cc`, `filesys/synchdisk.cc`, `userprog/synchconsole.cc` | a request or a packet under way, the last sector, buffers; a lock and semaphores | ReadRequest, WriteRequest, HandleInterrupt; CheckCharAvail, PutChar, GetChar; Send, Receive | pending interrupts and their handlers |
| Virtual memory: `vm/mmu.cc`, `userprog/swap.cc`, `addrspace.cc`, `coremap.h`, `machine/translate.cc` | page tables, used frames, owners, swap map and file | PageFaultHandler, frameFreeIndex, swapIn, swapOut, loadPageOnDemand, Translate | the processor's faults, WriteMem of the kernel |
| File system: `filesys/filesys.cc`, `directory.cc`, `filehdr.cc`, `userprog/bitmap.cc` | directory, free map, headers on disk | Create, Open, Remove | disk, sector by sector |
| Open files: `filesys/openfile.cc` | seek position | Read, Write, ReadAt, WriteAt, Seek | synchronised disk |
| System calls: `userprog/exception.cc`, `fdtable.cc`, `addrspace.cc` | table of descriptors, open files, user memory | Create, Open, Read, Write, Close, Exec, Exit | file system, address spaces |
| Processor: `machine/mipssim.cc`, `machine.cc` | registers, a load in progress, memory | OneInstruction, DelayedLoad, RaiseException | page faults and interrupts |
| Host calls, COFF tools, user test programs, `threads/synchlist.cc` | none, or not used | calls of the host, file formats | distribution code |

### Other programs

| Component | State | Operations and actors |
|---|---|---|
| Monitor library, `cs4411/prog2/monitor.cc`, and its test | POSIX semaphores and counters | Acquire, Release, Wait, Signal; `test.cc` |
| DNS resolver, `cs4411/prog2/main.cc` | file list, buffer, name cache, result list | one reader, several thinkers, main |
| Boat, `cs3331/prog5` | waiting counts, three flags, passengers aboard | missionaries, cannibals, boat |
| Santa Claus, `cs3331/prog4` | ten semaphores, two counters, three names | Santa, elves, reindeer |
| Maximum, `cs3331/prog3` | flags of all numbers, a count, two walls | three teams of threads |
| Systolic array, `cs3331/prog6` | a cell for each processor, synchronous channels | readers, processors, main |
| Merge sort and quicksort, `cs3331/prog2`; forked computations, `prog1` | shared memory; none | processes, a parent that waits |
| Ring, `cs3411/prog3` | pipes, a count, signals | links, the parent that kills them |
| Card game, `cs3411/prog4` | board, scores, turn | server, two players |
| Bit packing, `cs3411/prog1` | words of packed fields | pack, unpack |
| Reliable transfer, `cs4461/prog4` | window, acknowledgements, handshake | client, server, a channel that drops, corrupts and holds back |
| HTTP server, `cs4461/prog3` | count and table of threads, times | main, a thread for each connection, Ctrl-C |
| HTTP client, `cs4461/prog2`; DNS client, `prog5` | a buffer read line by line, chunk by chunk, name by name | client; an external server |
| Disk-file allocator, wrappers of system calls, Vigenere, host names | none that lives on | sequential I/O |

### What is hard, and what makes it right

* **Mesa semaphores.** `V` increments the value and makes a waiter ready, but
  does not give it the unit. `P` is a loop. Right means that no wake-up is lost
  (`NoLostWakeup`) and that a thread is in one place at a time (`OnePlace`).
* **A ready list sorted by keys that are out of date.** `SortedInsert` compares
  the priorities at the time of insertion; donation and `setPriority` change
  them later (`ReadyListSorted`).
* **Preemption between a semaphore operation and the assignments around it** in
  Lock, Condition and Port (`LockSafe`, `PriorityRestored`, `ConditionSafe`,
  `PortSafe`, and the refinements).
* **An interrupt that answers a request**, perhaps when every thread sleeps
  (`DeviceHandshake`, `DeviceWaitEnds`).
* **The end of a process**: Finish runs with interrupts off, joins its children,
  meets its parent at a port that the parent deletes, and leaves a carcass for
  another thread to delete (`ThreadsSafe`, `ExitsComplete`,
  `ImplementsProcessTree`, `FinishedIsDestroyed`).
* **Decisions on shared counters and flags** by cars, boat, elves, resolver and
  server threads (`BridgeSafe`, `BoatSafe`, `SantaSafe`, `MonitorProgramsSafe`,
  `CountTellsThreads`), and threads that wait for one another in teams, grids and
  rings (`ResultsRight`, `ElvesGetHelp`, `ProgramsEnd`, `ArraysEnd`, `OneToken`).
* **A state kept in several places** that is changed one place at a time: disk
  structures with a crash in between (`FileSystemSafe`), page tables, core map and
  swap (`MemorySafe`, `NothingForgotten`), descriptors and open files
  (`CallsSafe`), parts of sectors (`FileKept`).
* **Time and order**: interrupts sorted by their time (`DiskOnTime`), polls that
  find the buffer full (`DevicesInOrder`), instructions that are started again
  (`MachineExact`), a channel that loses, damages and delays (`AcksAreHonest`).
* **Boundaries**: chunks and lines that end anywhere (`PrintsThePage`), compressed
  names (`AnswersReadBack`), fields across two words (`FieldsComeBack`), places
  among equal and last elements (`SortersPrintSorted`), a pair found twice
  (`CardsSafe`).

`PROJECT.json` lists every hazard at its line with the properties that watch it.

## Modules

```
NachosKernel                       CPU, ready list, semaphores
  NachosSemaphore (theorems)       clients of semaphores; a device
  NachosLock
    LockClients (theorems)         -> the locks of MesaMonitor
    NachosCondition
      ConditionClients (proofs)    -> MesaMonitor
      Bridge (proofs)
      NachosPort
        PortClients (proofs)       -> Rendezvous
        NachosThread (proofs)      -> ProcessTree
HoareMonitor
  MonitorTest, DnsResolver
Programs (proofs) instances of BoatMonitor, Santa, Ring, UnreliableTransfer,
                  HttpServer, VirtualMemory, OpenFile
OtherPrograms     instances of MaxSearch, Systolic, MergeSort, ForkedComputations,
                  MonitorTest, DnsResolver, CardGame, PackFields, HttpClient, DnsQuery
NachosMachine     instances of FileSystem, Mips, SystemCalls, Disk, Console, Network
```

An arrow names the abstract specification that the module is shown to
implement. A module with `(proofs)` has a module of theorems, `<name>_proofs`, and
one with `(theorems)` proves them at its end. Those of Nachos threads build on
`NachosKernel_proofs` and on the lock lemmas of LockClients, one for each operation of
the kernel and of the lock.

*The three collections.* The programs of a collection share nothing, so they are
checked side by side: each module is instantiated with constants small enough and
with the cells `c1, c2, ...` for its variables, `program` says which one runs, and
the cells it does not use stay 0. Programs takes the constants of its programs as
its own, because its theorems are about all their values; the two others give them
in the module. A collection is checked in one run in place of six to ten; a property of it says what must hold of one program, or of
some that have one hazard, and names the parts that the module defines
(`SantaSafe` is `TypeOK`, `SantaNamesThree`, `CountIsSantas` and `WakeupsKept` of
Santa). The
modules know nothing of the collections and can be checked alone: with
`SPECIFICATION Spec` and constants as in the collection.

### The Nachos modules

*Grain.* The simulated machine has one processor. A kernel thread loses it when
it sleeps or yields, or in `Interrupt::OneTick`, which in kernel mode is called
by `SetLevel` when interrupts go from off to on, at the end of P, V, Fork, Yield.
So one action is all that a thread does up to the end of its next such operation
or up to the point where the operation puts it to sleep; what is left of a call
that spans several operations is in `pending[t]`, a sequence of steps. `Yield` is
enabled between any two actions of the running thread and stands for the timer
of `nachos -rs` and for an explicit yield alike. The tick counts, the sorted list
of pending interrupts and the random time slices are abstracted to that choice.

*NachosKernel.* `currentThread`, `readyList`, `status`, `priority` are the
fields of the scheduler and of Thread; a list element keeps the key of its
insertion. `value` and `queue` are Semaphore's; `waitingOn[t]` says in which
`P` thread t is. `Sleep` with an empty ready list leaves the sleeper current, as
the loop around `Interrupt::Idle` does, and `IdleDispatch` is the end of that
loop. `P` is `TestValue`, once by the caller, then by `RetryP` after every
wake-up. `V` wakes the head of the queue and increments in every case.

*NachosSemaphore.* Threads fork, yield, change priorities and use semaphores in
any order; `DeviceRequest` and `DeviceInterrupt` are the request of SynchDisk
inside its lock and the interrupt of the disk. The lock of SynchDisk is the guard
of `DeviceRequest`: no thread is in the `P` of the device and nothing is under way.

*NachosLock, LockClients.* Acquire is `StartAcquire` (donation, `P`) and
`FinishAcquire` (the two assignments), with preemption in between; `Release`
writes owner and priority and ends in `V`. Release by a thread that is not the
owner only prints, and the client does not call it. `ownPriority` is history: the
priority a thread last gave itself.

*NachosCondition, ConditionClients.* The semaphore of t's conditionItem is named
t. `StartWait` queues the item and releases the lock in one action, because
nothing is preempted before the `V` of Release; `StartSignal` ends in the `V` on
the first item and the pop is the next step. ConditionClients keeps the rule of
`synch.h`: every call by the holder of the lock.

*NachosPort, PortClients, NachosThread.* `TestSend` and `TestReceive` are the
two while loops. NachosThread has Exec, Exit and Join over ports: `finishing` is
the set of threads that run with interrupts off, in which nobody is preempted;
`AfterSwitch` is the part of `Scheduler::Run` after SWITCH, which a thread that
runs for the first time does not pass; `threadSet` is that of CoreMap.

*Bridge.* A car's program is in `pending`. The model keeps the lock that each
Wait passes (`WaitLock`): cars of direction 1 that find the bridge full pass
`CV_DIR0_LOCK`.

### The machine of Nachos: files, memory, processor, devices

*FileSystem.* Create and Remove, one step for each sector read or written; a
crash between any two of them and a restart without formatting. The directory
takes two sectors and one of its entries lies across them, as in the code, where
20 bytes do not divide 128. One program at a time uses the file system, as the
code assumes; what a file holds is in OpenFile.

*OpenFile.* Two threads with an OpenFile each read, write and seek in one file; a
sector is transferred at a time, under the lock of SynchDisk, and a write that
covers part of one reads it first. `meant` is what the finished writes left;
bytes of sectors where two writes meet are `torn` and excepted.

*VirtualMemory.* The record `vm` holds page tables, frames, core map, queue and
swap files; `PageFaultHandler` is a function of it, composed of the functions of
the code. Files are UNIX files, as in the Makefile of vm, so that a fault is
handled without a thread switch. `meant` is what programs and system calls
wrote; `forgotten` are pages dropped although they changed, and excepted from
`MemorySafe`; that there are none is the run VirtualMemoryDirty.

*Mips.* A word has `Width` bits, a byte being a quarter of a word. `plain` runs
the same program without interruption, and `last` is compared with what the book
says (`Book`): the model's operators are the code's own, with its shifts, masks
and carries. Overflow, an address that does not fit and an illegal instruction raise
an exception (`Traps`), which leaves the delayed load finished and the rest as it was;
Nachos then ends, except for the one that a page fault is restarted from. A
system call puts its result into register 2 and the counters forward. Bitwise operations are those of the community module.

*SystemCalls.* OpenFile objects have identities, so that one deleted twice, kept
for ever or shared shows; `tokenize`, the sizes of an address space and the
layout of the arguments are functions on sequences of characters.

*Disk, Console, Network.* Disk has the ticks, the pending list, the timer and the
clock of the head. Console has a poll that comes at any time, one lock for
readers and writers and two semaphores. Network has two machines with a datagram
socket each and a device that buffers one packet.

### The programs of threads and processes


*HoareMonitor, MonitorTest, DnsResolver.* Threads are POSIX threads: one action
per access to shared memory, `pc` says where each thread is. The library
increments and compares the pointer `nSignallers` instead of the counter; the
consequences (Wait always posts, Release always posts the mutex) are in the
actions. DnsResolver has the loops of ReaderThread and ThinkerThread with their
Acquire and Release where the code has them; what is undefined (front of an empty
list, a read through NULL) sets `crashed` and ends the run, and so does a `Race`: two
threads in the monitor that are about to use the same list. That happens with two
files, which are checked: a Release without Acquire lets one thread more in at each
later turn of the reader, and `EntriesCounted` says that this is the only way in.
Looking a name up is a function of the address and may fail.

*BoatMonitor.* ThreadMentor, the library of the course, is external; its monitors
have Hoare semantics, so a procedure of the boat with the passengers it signals is
one step. The three tests of the boat's loop read the monitor from outside and
are steps of their own. The arrays of the printed passenger list are left out; the
code writes past their three elements, which in a 64-bit build hits nothing.

*Santa, MaxSearch, Systolic.* ThreadMentor's semaphores are counters; a section
under one lock, and a loop of signals on one semaphore, is one action. A Send and
its Receive over a synchronous channel are one action of two threads. `ComputesProduct`
says that the array computes B times A, as it is wired, not A times B.

*MergeSort, ForkedComputations.* A process step is one call of quickSort, or the
search and store of one element; random numbers are any numbers. `At` behind the
end of an array is the zero of a fresh page of shared memory. `given` and `generated`
are history, what was read and generated, so that what is printed can be compared
with it.

### The programs on pipes and sockets

*Ring.* A pipe is a sequence; `Keepers` are the links that hold the ends of the
first pipe open, which decides who meets its end and who gets SIGPIPE. *CardGame*
has a server that polls two players, who close when the game is over. *PackFields*
works on numbers below `2^LIMIT`, with shifts and masks as products and remainders;
`pack` may crash when it needs more words than it allocated (`Overruns`).
`FieldsComeBack` is exact: it says of every field what comes back, `Above` being what
the code leaves above its bits.

*UnreliableTransfer.* One action is what a side does from one `recvfrom` or
`unreliable_sendto` to the next. The channel may drop, damage or hold back a packet
(`MaxFaults` times) and is a queue else; a held packet comes after the next one. A
damaged packet is not read, or it is read as one of another type: parsePacket fills
it in by its flags, and a flag that flips can make a SYN or a FIN with the same
checksum (`Disguised`; which characters allow it is open, as the message is). A
time-out of the client may come whenever its socket is empty.

*HttpServer* has one thread for each connection and a main loop that counts,
grows the tables, cancels what is late and, at the limit, everybody. *HttpClient*
and *DnsQuery* parse what an external server sent: every body of the given pieces in
chunks or lines, cut off anywhere; every answer of two records with names
compressed in every way.

## Runs

`expect` is pass unless marked. The sizes are distinct states.

| Run | Instance | Shows |
|---|---|---|
| NachosSemaphore | 4 threads, one semaphore up to 2, one disk; 5.8k | `TypeOK`, `OnePlace`, `NoLostWakeup`, `DeviceHandshake`; `DeviceWaitEnds` (liveness) |
| LockClients | 3 threads, 3 priorities, one lock; 14k | `LockSafe`, `PriorityRestored`, `ReadyListSorted`, and the lock of MesaMonitor is implemented (`ImplementsLock`) |
| ConditionClients | 3 threads, 2 conditions, one lock; 8.6k | MesaMonitor is implemented, `ConditionSafe`, `SignalledThreadResumes` (liveness) |
| PortClients | 2 senders, 2 receivers; 1.5M | Rendezvous is implemented, `PortSafe` |
| NachosThread | main and 3 processes, each started by any other that runs; 71k | ProcessTree is implemented, `ThreadsSafe`, `ExitsComplete` (liveness) |
| NachosThreadCarcass | the same | violation: `FinishedIsDestroyed` |
| Bridge | 1 car against 3, load 2; 1.2M | `BridgeSafe` |
| Programs | the constants of Programs.cfg; 811k | `BoatSafe`, `SantaSafe`, `OneToken`, `AcksAreHonest`, `CountTellsThreads`, `MemorySafe`, `FileKept`; `ElvesGetHelp`, `ProgramsEnd` (liveness) |
| OtherPrograms | the constants are in the module; 498k | `ResultsRight`, `MonitorProgramsSafe`, `SortersPrintSorted`, `CardsSafe`, `FieldsComeBack`, `PrintsThePage`, `AnswersReadBack`; `ArraysEnd` (liveness) |
| NachosMachine | the same; 915k | `FileSystemSafe`, `MachineExact`, `CallsSafe`, `DiskOnTime`, `DevicesInOrder` |
| VirtualMemoryDirty | 2 programs, 2 pages of each, 2 frames | violation: `NothingForgotten` |
| MipsBook | words of 4 bits | violation: `AsInTheBook` |

*Why the bounds are enough.* Three threads are the fewest for the interesting
order of a Mesa wake-up: one that is woken, one that signals, one that takes the
unit in between. The fourth thread of NachosSemaphore lets two wait for a
semaphore while one waits for the disk. Three priorities make a donation that
overtakes another. PortClients needs two of each for an overwritten message, and
NachosThread, in which every program may Exec any process that is not started,
runs through all trees of four processes: among them a fork and a chain, which make
a thread join while it finishes and a sibling finish at the same time. The Bridge needs more cars of one
direction than the load and one of the other; direction 1 is the larger side since
that is where the code passes the wrong lock. The boat needs one missionary more
than a load takes of either kind, and Santa four elves, so that one waits outside
while three are with him. The matrices are 2 by 2 (a processor with neighbours on
no side, on one and on both), the arrays to sort up to 4. The resolver has two
files, so that its reader comes to the Release without Acquire, and two thinkers. The ring has 4 links:
the first, the last and two that hold ends of the first pipe. The transfer sends 4
packets through a window of 3, with two faults, two time-outs and a client that
gives up after two: a fault can meet another of any kind in any place. The
server's tables grow from 1, with a limit of 2 for 3 clients. Fields are packed in
words of 4 bits, three of them, so that one crosses two words. The file system has
four sectors for two files with headers; the address spaces have as many pages as
there are frames, for two of them; words of the processor have 4 bits, which take
both signs, overflow and carry through every step of Mult.

*Named bounds.* `MaxValue` caps what clients raise a semaphore to; `MAX_LOAD` and
`max_crossings`, `numlines`, `numfiles`, `cachesize` are constants of the programs.
`MaxCount`, `MaxFields`, `MaxFaults`, `MaxTimeouts`, `MaxClients`, `MaxTime`, `MaxPieces`,
`MaxAnswers`, `MaxCrashes`, `MaxWrites`, `MaxPrograms`, `MaxSteps`, `MaxOpens`,
`MaxTicks`, `MaxRequests` and `MaxPackets` bound what the environment or a counter
of the code can do, and are named where they are declared.
All other state is finite as it stands. Deadlock is not checked: without interrupts
Nachos stays idle once every thread sleeps (and then halts), and the programs
end; that those which must end do so is a property of its own.

*Fairness.* An interrupt that is due stays in the pending list, and the simulated
clock advances with every operation and in Idle: it is delivered the next time
interrupts are enabled, infinitely often, hence strong fairness of
`DeviceInterrupt`. A running thread goes on, and the timer of `nachos -rs` makes
it yield now and then: weak fairness of `Yield`, `RetryP` and, in
NachosSemaphore, where an interrupt can end it, of the idle loop. The
step inside a call has strong fairness (`CallStep`, `LifeStep`) because the timer
interrupts it but the thread is dispatched again and again and the random time
slice does not end before every one of its steps. `StartFinish` says that programs
exit. Programs has weak
fairness of the next step of the boat and of Santa, no more than that the machine
does not stop, of each passenger and the boat, which would otherwise be overtaken for
ever by the loops of the others, as no scheduler does, and of the loop of kills of
ring once it has begun. OtherPrograms has weak fairness of the next step.

## Where the code does something else than its text says

* *A carcass is lost* (`scheduler.cc:131`). A thread that runs for the first time
  starts in ThreadRoot, not after SWITCH, and so does not delete the thread that
  finished before it; when it finishes in its first slice it overwrites
  `threadToBeDestroyed`. The lost thread stays in the core map, and the machine
  does not halt. Run NachosThreadCarcass.
* *A system call's write is lost* (`userprog/exception.cc:445`): WriteMem translates
  the address for reading, so the page is not dirty, and when it leaves memory a
  second time it is not written. Run VirtualMemoryDirty.
* *OR and the logical shifts* (`machine/mipssim.cc:376,447,453`) compute something
  else than the instructions do. Run MipsBook.
* *A boat can be unsafe* (`boat-monitor.cpp:147,155`): the counts of waiting passengers
  are never decremented, and a boat that is not full is filled again
  (`BoatIsSafe` of BoatMonitor, false with 2 and 2 passengers and one crossing).
* *Two threads in the monitor* (`prog2/main.cc:266`): from its second turn the
  reader tests the list without Acquire and then calls Release (`OneInside` of
  DnsResolver, false with two files).
* *B times A* (`prog6/thread.cpp:185,218`): the reader of columns sends those of A
  down and the reader of rows those of B to the right. The comments at `:167` and `:200`
  and answers 2 and 4 of the README say that P[i,j] has row i of A and column j of B
  (`ComputesAB` of Systolic, false).
* *Values that do not come back* (`cs3411/prog1/unpack.c:59`): a field that crosses two
  words comes back with its sign in every bit above it, and one that begins behind a
  full word with that word above it, since a shift by all 32 bits is none
  (`ValuesComeBack` of PackFields, false).
* *Less memory than the fields need* (`cs3411/prog1/pack.c:46`): the division that the
  comment calls "ceil" is of integers, and `:48-50` zeroes a word for each field
  (`Overruns` of PackFields, which lets `pack` crash).
* *merge loses elements* (`cs3331/prog2/merge.c:109,141`): the test of strcmp is the wrong
  way round, and of the longer of two arrays the end is lost. A value of both arrays has one
  place only; that there is none is assumed in answer 2 of the README (`MergePrintsBoth`
  excepts both).
* *A damaged packet is taken for another* (`cs4461/prog4/shared.c:82`): the server takes
  a SYN that nobody sent and forgets what it received; in a message of more than
  100 characters it can take a FIN, and its acknowledgement of packet 257 is taken for
  that of a character (`ShortMessage` excepts it from `AcksAreHonest`).
* *Packet 0 counts as acknowledged by a SYN's* (`cs4461/prog4/client.c:223`), whose number is
  0 as well; `AcksAreHonest` excepts it.
* *The FIN before the acknowledgements* (`prog4/client.c:278`): the loop keeps only
  the test of the last packet (`EverythingAcked` of UnreliableTransfer).
* *Two winners* (`cs3411/prog4/server.c:294`; `OneWinner` of CardGame), and *threads
  without a slot* (`cs4461/prog3/main.c:274`; `EveryThreadHeld` of HttpServer).

Met while modelling and described here only: a woken thread can lose the unit to
a running one, while the comment at `synch.cc:95` says that the wake-up consumes
the V; the bridge waits with another direction's lock (`threadtest.cc:151`), and
with a load of 1 cars are left behind; a boat can leave with a number of
passengers other than three; the signal of `test.cc:30` comes too early when the
waiter has not reached Wait; a thinker exits on an empty buffer though the reader
still works (`main.cc:353`); Santa makes one delivery too many
(`prog4/thread.cpp:118`), and elves that woke him wait as long as the reindeer
are back before he looks (`:122`); a DNS server given as argument ends the program
(`dnsquery.c:52`); a read from the console waits for all its characters
(`exception.cc:175`); the systolic array of `prog6` takes -1 for its end; a link that is signalled
before it has installed its handler dies (`ring.c:200`); `sendBusy` of the network is never set
(`network.cc:110`), so that a second packet may be sent while the first is under
way; the character 0xFF ends the input of the console (`console.cc:96`).

## Proofs

TLAPS checks every proof, down to the last leaf. The theorems hold for every value
of the constants that the named assumptions allow, and those are what the programs
have: `KernelAssumption` (the threads are finitely many and main is one, `NoSem` is
no semaphore, the priority of a new thread is a natural number), `LockAssumption` (locks are semaphores, `NoThread` is no thread),
`ConditionAssumption` (the semaphore of t's conditionItem, named t, is no lock),
`PortAssumption` (a port has a lock and two conditions, `NoMessage` is no message)
and each client's `ClientAssumption` or `LockClientsAssumption` (priorities are natural
numbers; one lock for ConditionClients, one port for PortClients, whose senders are
no receivers), `BridgeAssumption` (the two conditions are two, `MAX_LOAD` is at
least 1) and `ThreadAssumption` (main is a thread, the ports are the join ports of
the other threads, named as their locks are, messages are exit statuses, named by
thread, and no condition has the name of a thread), and for Programs
`ProgramsAssumption`, which joins those of its seven programs: the passengers, elves and
reindeer are finitely many, nobody is two of them, and there is a reindeer; the
crossings, the window, the message, the tables of the server, the frames, the page
size and the sector size are at least 1; ring has 2 to 100 links, as its main demands; what a system call
writes lies in the address space.

* `NachosKernel_proofs` has one lemma per operation: `ForkInv`, `YieldInv`,
  `TakeUnitInv`, `EnqueueAndSleepInv`, `SleepInv`, `VInv`, `IdleDispatchInv` each
  preserve `KernelInv == KernelTypeOK /\ Placed /\ ReadyListSorted /\ NoLostWakeup`.
  The conjuncts need one another. That V makes a blocked thread ready and not one
  that is already in the list is `Placed`; `NoLostWakeup` is not inductive
  alone, because EnqueueAndSleep must know that the sleeper was the one woken
  thread it counts, and V that the head of the queue was not counted yet.
  `Placed` is `OnePlace` but for `BlockedWaitsOnSemaphore`, which does not hold for a
  thread that has ended: `Thread::Finish` sleeps on no semaphore. Where no thread
  ends, `SleepersWait` adds that conjunct, from the shape of the steps alone
  (`KernelStep`). `SortedInsertProperties` and `RemoveHeadProperties` say what the
  list operations do to items, distinctness and order.
* `NachosSemaphore`: `TypeCorrect`, `ThreadsInOnePlace`,
  `ReadyListStaysSorted`, `WakeupsAreNotLost`, and `DevicesKeepTheHandshake`.
  For the last, `DeviceInv` says that a device has one waiter, at most one unit and
  no unit while it works; that the unit's waiter is awake then follows from
  `NoLostWakeup`, which a thread asleep on a unit would contradict.
* `LockClients` has one lemma per part of a lock call: `StartAcquireInv`,
  `RetryPLockInv`, `FinishAcquireInv`, `ReleaseInv`, and what semaphores and the
  scheduler do to locks. They preserve `LockInv`, which adds `WaitersAcquire` to
  `LockSafe`: a thread in the P of a lock is inside the Acquire of that very lock,
  without which the unit it takes could be one it does not become the owner of.
  Each lemma also says what the step does to the holders (`Takes`, `Frees`,
  `KeepsHolders`), which is what the refinements need. They know nothing of the
  program around the call, so that all clients use them.
  Its theorems: `MutualExclusion` (`LockSafe`), `KernelStaysConsistent`
  (the kernel properties under lock clients), `Refinement` (the lock implements
  the lock of `MesaMonitor`). `DonationIsUndone` is `PriorityRestored` under the
  hypothesis `OneLockAtATime`, which TLC's counterexamples ask for: Lock saves one
  priority per lock, so a thread that got donations on two locks and releases them
  in the order it acquired them takes a donated priority for the original one, and
  keeps it. With one lock, the checked instance, the hypothesis is a consequence
  (`DonationIsUndoneOnOneLock`).
* `ConditionClients_proofs`: `ItemsAreWokenOnce` (`ConditionSafe`),
  `MonitorExcludes` (lock, places and wake-ups under Wait, Signal and Broadcast),
  `MonitorRefinement` (`ImplementsMesaMonitor`). Neither property is inductive. `CallShape`
  lists what can be left of a call; `PoppersOwn` says that a thread that has
  signalled and not yet popped owns the lock, so there is one at most, of
  one condition; `QueuedAsleep` that whoever is queued is on its way into the P of its
  item or in it; `WakesOnce` that of the queued items only the one being popped, the
  head, can have been signalled. In the refinement an item leaves
  the abstract queue at the V, and the concrete one at the pop (`Waiting`).
* `PortClients_proofs`: `PortStaysInStep` (`PortSafe`), `PortKernelStaysConsistent`,
  `PortRefinement` (`ImplementsRendezvous`). `ClientInv` adds to `LockInv` and
  `CountersMatch` the shapes of Send and Receive, each a rest of the call in front of
  one of six steps of the port; `InsideOwn`, that who is at such a step owns the lock;
  `PopQueued`, that a pop finds an item; `SendersHaveMessage`, that a thread inside
  Send has a message to put. `CountsFollow` relates the counters to the sets of
  threads inside; every step is shown to be one of `Nothing`, `Arrives`, `Puts`,
  `TakesMessage`, and these are the steps of Rendezvous.
* `Bridge_proofs`: `BridgeIsSafe` (`BridgeSafe`), for any number of cars and any load.
  The cars' programs are of many lengths (an ExitBridge signals as many times as it
  has room), so that `Shape` says what they have in common: a program ends with the
  end of the car (`EndsLast`), a wait that is to be tested again is first
  (`StartsFirst`), and in front of a signal there are only signals of that direction
  and their pops (`SignalsOpened`). `SignallersOwn` says that a car that signals owns
  the lock of its direction: it is what keeps `PopQueued` (the item to pop is there)
  although the waits of line 151 release the other lock. `Counted`
  relates COUNT and CUR_DIR to the sets of cars on the bridge.

* `NachosThread_proofs`: `LifeStaysSafe` (`ThreadsSafe`) and `ProcessTreeRefinement`
  (`ImplementsProcessTree`), for any number of threads that Exec one another in any
  order. `LifeInv` adds four parts to `LockInv`: the types; `CarcassInv`, that
  the carcass is a thread inside Finish; `CallInv`, where each thread can be in
  its Join or Finish (`CallShape`), with `InsideOwn` and `PopQueued` as for ports; and
  `TreeInv`, on who may still join whom. That a port is deleted safely needs all
  of it. A child that has sent its status has still to release the lock of the port, and
  the parent deletes the port after it has acquired that very lock to take the status:
  so the child is past its Release when the status is taken (`SentAndGone`), which is
  `ReceivedAreDone`, and stays so when the port is gone (`DeletedAreDone`).
  `OneParent` says that nobody but the one parent has the port still to use,
  `JoinedOnce` that a parent does not take a child twice, in Join and again
  in the joins of Finish, and `UnsentAreChildren` that before it has sent its
  status a process has a parent and its port is empty. Every step is then shown
  to stutter or to be one of `Execs`, `Exits`, `Joins` of the abstract tree
  (`TreeEffect`). Threads that ended sleep on no semaphore, which is why
  the kernel's invariant is built on `Placed` and not on `OnePlace`.

* `Programs_proofs` has for each program an inductive invariant and a lemma that its
  `Next` keeps it; a theorem says so of Programs. The name of a variable is that of
  the cell, e.g. `vm == c1`.
  * `BoatsAreSafe` (`BoatSafe`): `BoatInv` adds `OneShore`, that nobody is at two places,
    and `StillCrossing`, that the boat is in its loop while crossings are left.
  * `SantaIsSafe` (`SantaSafe`): `SantaInv` follows the team of elves and that of the
    reindeer through their rendezvous. Each phase (`ElvesAsk`, `ElvesLeave`;
    `DeerReturn`, `DeerBack`, `DeerHitched`, `DeerFly`, `DeerHome`) relates the
    numbers of threads at each place to the units of the semaphores and to
    the place of Santa, and a step stays in a phase or begins the next one.
    `WakeupsMatch` counts the units of `Sleeping`: one for each team that waits for
    Santa, whichever came first.
  * `OneCountGoesRound` (`OneToken`): `RingInv` is `BeforeSignal` while links are forked
    and `Circulates` until the first kill: what a pipe holds, and what a link is about to
    write, is the number of that link modulo the links, so it goes one link further.
  * `AcknowledgementsAreHonest` (`AcksAreHonest`): for messages of up to 100
    characters (`ShortMessage`) and every packet but the first. `ChannelsHonest` says of
    every packet in a channel, held back or damaged, that its acknowledgement is for
    something delivered; `OnlyDelivered` says it of the array of the client. That a flag
    that flips makes no FIN of a character (`DisguisedPacket`) is where the length of
    the message comes in.
  * `CountIsThatOfThreads` (`CountTellsThreads`): `CountInv` adds when the thread of a client
    does not exist yet, when the count starts again (`CountReset`) and that there is
    room for the thread to be created (`RoomLeft`).
  * `MemoryIsKept` (`MemorySafe`): `PagingInv` adds the types and that only running
    programs have pages in memory, or a program would start with those of the last one
    in its address space. The functions of the code are proved one by one:
    `WithoutProperties` (what list::remove leaves), `TakesFrame` (a frame is taken,
    free or with its page put into swap), `FaultKeeps`, `StoreKeeps` and
    `KernelWriteKeeps` say what each does to the page tables and to what every program
    sees; `LoadedIsImage` that the parts of the segments that are copied to a page are
    those that belong there, for any segments and page size; `OneAddress` that a byte
    is stored at one address only.
  * `FilesAreKept` (`FileKept`): `FileInv` says what is in the buffer of each thread while
    it reads (`ReadRight`), while it reads the sectors that it changes in part
    (`FillRight`) and while it writes (`WriteRight`). A write of another thread to such a
    sector makes the sector torn, and a reader of it is no longer calm. `CoversTheRest`
    is the reason that the code reads the right sectors: a byte of a sector to be
    written that the request does not cover is in the first or the last, and that one
    is not aligned. It rests on `ByteParts`, `SectorOrder` and `ByteAt`, the division of
    a file into sectors of any size.

*Only model-checked*: all liveness, which with ENABLED is outside what the prover
does; and the properties of OtherPrograms and NachosMachine. Most of what is
checked there is what a recursive function computes (sorts, parsers, fields,
the ordered insertion of Disk, instructions), which needs an induction over data
that the prover does not do. No module declares a RECURSIVE operator.

## Not modelled

* Register switches, stacks, `sysdep.cc`: calls of the host and of its compiler.
* COFF tools, the second interpreter of `bin/`, user test programs: nothing that
  the system runs on.
* `threads/synchlist.cc`, `cs3411/prog2` (its README calls it semifunctional): no
  program of the repository uses them.
* `cs4411/prog1`, `cs4461/prog1`, Vigenere, shell scripts: one call of the host, or a
  sequential conversion of text.
* In modelled parts: random time slices of the timer, the TLB variant of Translate,
  page faults that switch threads (the build of vm over the Nachos disk), the
  statistics and the printing everywhere; truncation of a file that is open
  elsewhere; failures of fork and of allocations.
