--------------------------- MODULE VirtualMemory ---------------------------
(***************************************************************************)
(* Demand paging in Nachos (vm/mmu.cc, userprog/swap.cc, coremap.h,        *)
(* addrspace.cc, machine/translate.cc): pages are loaded from the          *)
(* executable on their first use and go to a swap file when the frames run *)
(* out.  As in vm/Makefile files are UNIX files, so a fault is handled     *)
(* without a context switch; programs alternate between faults, retries    *)
(* and accesses.  All of the memory is one record, vm, that the operators  *)
(* take and return.                                                        *)
(***************************************************************************)
EXTENDS Integers, Sequences, FiniteSets, FiniteSetsExt, SequencesExt

CONSTANTS Spaces,          \* address spaces, one program each
          NumPhysPages, numPages, PageSize,
          codeAddr, codeSize, dataAddr, dataSize,     \* the segments
          ArgAddress,      \* where the argument of a program is copied
          Written,         \* the addresses programs and system calls write
          MaxPrograms      \* programs run in an address space, one by one

MemoryAssumption ==
    /\ NumPhysPages \in Nat \ {0} /\ numPages \in Nat /\ PageSize \in Nat \ {0}
    /\ {codeAddr, codeSize, dataAddr, dataSize} \subseteq Nat
    /\ {ArgAddress} \cup Written \subseteq 0 .. numPages * PageSize - 1
    /\ "none" \notin Spaces /\ MaxPrograms \in Nat

VARIABLES vm, running, programs, meant, forgotten

vars == <<vm, running, programs, meant, forgotten>>

Frames == 0 .. NumPhysPages - 1
Pages == 0 .. numPages - 1
Offsets == 0 .. PageSize - 1
Addresses == 0 .. numPages * PageSize - 1
None == "none"
Blank == [o \in Offsets |-> "zero"]
NoEntry == [valid |-> FALSE, physicalPage |-> -1, dirty |-> FALSE]

\* Nothing is mapped, nothing is in swap, all frames are free.
Init == /\ vm = [table |-> [s \in Spaces |-> [p \in Pages |-> NoEntry]],
                 swapMap |-> [s \in Spaces |-> {}],
                 swapFile |-> [s \in Spaces |-> [p \in Pages |-> Blank]],
                 mainMemory |-> [f \in Frames |-> Blank],
                 usedFrames |-> {}, owner |-> [f \in Frames |-> None], lru |-> <<>>]
        /\ running = {} /\ programs = [s \in Spaces |-> 0]
        /\ meant = [s \in Spaces |-> [a \in Addresses |-> "zero"]]
        /\ forgotten = {}

-----------------------------------------------------------------------------
\* What the executable holds at an address: a byte of a segment, or nothing.
code == [virtualAddr |-> codeAddr, size |-> codeSize]
initData == [virtualAddr |-> dataAddr, size |-> dataSize]
InSegment(seg, a) == seg.virtualAddr <= a /\ a < seg.virtualAddr + seg.size
Image(a) == IF InSegment(initData, a) THEN "data"
            ELSE IF InSegment(code, a) THEN "code" ELSE "zero"

\* loadPageOnDemand, one segment: where in the page it starts, and how many
\* bytes of it are copied, which is all of the page but what the segment
\* leaves free at the front and at the back.
Meets(seg, p) == /\ seg.virtualAddr < (p + 1) * PageSize
                 /\ seg.virtualAddr + seg.size > p * PageSize
pageSP(seg, p) == IF seg.virtualAddr <= p * PageSize THEN 0
                  ELSE seg.virtualAddr - p * PageSize
copySize(seg, p) ==
    PageSize - pageSP(seg, p)
    - IF seg.virtualAddr + seg.size < (p + 1) * PageSize
        THEN (p + 1) * PageSize - (seg.virtualAddr + seg.size) ELSE 0
Copied(seg, p, byte, page) ==
    [o \in Offsets |-> IF Meets(seg, p) /\ o \in pageSP(seg, p) ..
                            pageSP(seg, p) + copySize(seg, p) - 1
                         THEN byte ELSE page[o]]

loadPageOnDemand(m, s, p, f) ==
    [m EXCEPT !.mainMemory[f] = Copied(initData, p, "data", Copied(code, p, "code", Blank)),
              !.usedFrames = @ \cup {f}, !.owner[f] = s]

swapIn(m, s, p, f) ==
    [m EXCEPT !.mainMemory[f] = m.swapFile[s][p],
              !.usedFrames = @ \cup {f}, !.owner[f] = s]

\* swapOut: the page is written if it is dirty or not in the file yet.
PageIn(m, s, f) == CHOOSE p \in Pages : m.table[s][p].valid /\ m.table[s][p].physicalPage = f
NeedsWriting(m, s, p) == m.table[s][p].dirty \/ p \notin m.swapMap[s]
swapOut(m, s, f) ==
    LET p == PageIn(m, s, f) IN
    [m EXCEPT !.swapFile[s][p] = IF NeedsWriting(m, s, p) THEN m.mainMemory[f] ELSE @,
              !.swapMap[s] = @ \cup {p},
              !.table[s][p] = NoEntry]

\* The queue without the frames of S, which keep their order: list::remove.
KeptPlaces(queue, S) == {i \in 1 .. Len(queue) : queue[i] \notin S}
KeptUpTo(queue, S, i) == {j \in KeptPlaces(queue, S) : j <= i}
NthKept(queue, S, n) ==
    CHOOSE i \in KeptPlaces(queue, S) : Cardinality(KeptUpTo(queue, S, i)) = n
Without(queue, S) ==
    [n \in 1 .. Cardinality(KeptPlaces(queue, S)) |-> queue[NthKept(queue, S, n)]]
setUsed(m, f) == [m EXCEPT !.lru = Append(Without(@, {f}), f)]

\* frameFreeIndex: the first free frame, else the one longest in memory,
\* whose page its owner puts into swap.
Free(m) == Frames \ m.usedFrames
Victim(m) == IF Free(m) # {} THEN Min(Free(m)) ELSE Head(m.lru)
frameFreeIndex(m) ==
    LET f == Victim(m) IN
    IF Free(m) # {} THEN setUsed(m, f)
    ELSE swapOut(setUsed(m, f), m.owner[f], f)

\* PageFaultHandler.  The entry it saves is the copy it made first, with the
\* dirty bit set for a page that comes from the executable.
PageFaultHandler(m, s, p) ==
    LET f == Victim(m)
        m1 == frameFreeIndex(m)
        loaded == p \notin m.swapMap[s]
        m2 == IF loaded THEN loadPageOnDemand(m1, s, p, f) ELSE swapIn(m1, s, p, f)
    IN  [m2 EXCEPT !.table[s][p] = [valid |-> TRUE, physicalPage |-> f, dirty |-> loaded]]

PageOf(a) == a \div PageSize
Valid(s, a) == vm.table[s][PageOf(a)].valid
\* Translate, and the store of a byte at the physical address it finds.
Store(m, s, a, writing, byte) ==
    [m EXCEPT !.mainMemory[m.table[s][PageOf(a)].physicalPage][a % PageSize] = byte,
              !.table[s][PageOf(a)].dirty = @ \/ writing]

\* The page a fault puts into swap without writing it, though it changed.
View(m, s, a) ==
    LET e == m.table[s][PageOf(a)] IN
    IF e.valid THEN m.mainMemory[e.physicalPage][a % PageSize]
    ELSE IF PageOf(a) \in m.swapMap[s] THEN m.swapFile[s][PageOf(a)][a % PageSize]
    ELSE Image(a)
Forgets(m, s, p) ==
    IF Free(m) # {} THEN {}
    ELSE LET f == Victim(m) 
             q == PageIn(m, m.owner[f], f)
         IN  IF ~NeedsWriting(m, m.owner[f], q)
                 /\ m.swapFile[m.owner[f]][q] # m.mainMemory[f]
               THEN {<<m.owner[f], q>>} ELSE {}

-----------------------------------------------------------------------------
\* An access to a page that is not valid: the machine traps to the handler,
\* and the instruction is tried again later.
UserFaults(s, p) ==
    /\ s \in running /\ ~vm.table[s][p].valid
    /\ vm' = PageFaultHandler(vm, s, p)
    /\ forgotten' = forgotten \cup Forgets(vm, s, p)
    /\ UNCHANGED <<running, programs, meant>>

UserWrites(s, a) ==
    /\ s \in running /\ Valid(s, a)
    /\ vm' = Store(vm, s, a, TRUE, "user")
    /\ meant' = [meant EXCEPT ![s][a] = "user"]
    /\ UNCHANGED <<running, programs, forgotten>>

\* WriteMem of the kernel (exception.cc) faults the page in itself, and
\* translates the address as for a read.
KernelWrite(m, s, a, byte) ==
    Store(IF m.table[s][PageOf(a)].valid THEN m ELSE PageFaultHandler(m, s, PageOf(a)),
          s, a, FALSE, byte)

\* A system call puts a byte it has read into the buffer of the program.
SyscallWrites(s, a) ==
    /\ s \in running
    /\ vm' = KernelWrite(vm, s, a, "kernel")
    /\ meant' = [meant EXCEPT ![s][a] = "kernel"]
    /\ forgotten' = IF Valid(s, a) THEN forgotten
                    ELSE forgotten \cup Forgets(vm, s, PageOf(a))
    /\ UNCHANGED <<running, programs>>

\* threadRun: a new address space (Initialize, Swap) and its argument.
Run(s) ==
    /\ s \notin running /\ programs[s] < MaxPrograms
    /\ LET fresh == [vm EXCEPT !.table[s] = [p \in Pages |-> NoEntry],
                               !.swapMap[s] = {},
                               !.swapFile[s] = [p \in Pages |-> Blank]]
       IN  /\ vm' = KernelWrite(fresh, s, ArgAddress, "kernel")
           /\ forgotten' = {g \in forgotten : g[1] # s} \cup Forgets(fresh, s, PageOf(ArgAddress))
    /\ meant' = [meant EXCEPT ![s] = [a \in Addresses |->
                    IF a = ArgAddress THEN "kernel" ELSE Image(a)]]
    /\ running' = running \cup {s}
    /\ programs' = [programs EXCEPT ![s] = @ + 1]

\* ~AddrSpace: the frames of the valid pages are free again.
Held(s) == {vm.table[s][p].physicalPage : p \in {q \in Pages : vm.table[s][q].valid}}
ExitsQueued(s) ==      \* a slip: without setUnused the frames stay in the queue
    /\ s \in running
    /\ vm' = [vm EXCEPT !.usedFrames = @ \ Held(s),
                        !.table[s] = [p \in Pages |-> NoEntry]]
    /\ running' = running \ {s}
    /\ UNCHANGED <<programs, meant, forgotten>>
Exits(s) ==
    /\ s \in running
    /\ vm' = [vm EXCEPT !.usedFrames = @ \ Held(s),
                        !.lru = Without(@, Held(s)),
                        !.table[s] = [p \in Pages |-> NoEntry]]
    /\ running' = running \ {s}
    /\ UNCHANGED <<programs, meant, forgotten>>

Next == \E s \in Spaces :
           \/ Run(s) \/ Exits(s)
           \/ \E p \in Pages : UserFaults(s, p)
           \/ \E a \in Written : UserWrites(s, a) \/ SyscallWrites(s, a)

Spec == Init /\ [][Next]_vars

-----------------------------------------------------------------------------
\* Frames and page tables agree: a valid page has a frame of its own that is
\* marked used and names its space as owner, no used frame is without a page,
\* and the queue of frames holds each used frame once.
Mapped(m) == {x \in Spaces \X Pages : m.table[x[1]][x[2]].valid}
FrameOf(m, x) == m.table[x[1]][x[2]].physicalPage
Agree(m) ==
    /\ \A x \in Mapped(m) : m.owner[FrameOf(m, x)] = x[1]
    /\ \A x, y \in Mapped(m) : FrameOf(m, x) = FrameOf(m, y) => x = y
    /\ m.usedFrames = {FrameOf(m, x) : x \in Mapped(m)}
    /\ IsInjective(m.lru) /\ ToSet(m.lru) = m.usedFrames
FramesAgree == Agree(vm)

\* A program sees in its memory what it, a system call or its executable put
\* there, wherever paging has moved it, except on a page that was dropped
\* without being written.
MemoryKept == \A s \in running : \A a \in Addresses :
                 <<s, PageOf(a)>> \notin forgotten => View(vm, s, a) = meant[s][a]

\* Frames, page tables, swap and the queue agree, and memory is kept.
MemorySafe == FramesAgree /\ MemoryKept

\* The dirty bit is set whenever a page is modified (machine/translate.h:40),
\* so no page that changed is dropped.
NothingForgotten == forgotten = {}

=============================================================================
