---------------------------- MODULE SystemCalls ----------------------------
(***************************************************************************)
(* The system calls on files and Exec (userprog/exception.cc, fdtable.cc,  *)
(* progtest.cc, addrspace.cc) in the build where Nachos files are UNIX     *)
(* files (filesys/filesys.h, openfile.h, machine/sysdep.cc).  No call on a *)
(* file gives up the CPU there, so a call is one action.  OpenFile objects *)
(* have identities, so that one that is deleted, forgotten or shared shows.*)
(* Text is a sequence of characters; a file is its length and whether it   *)
(* starts with a NOFF header.  Console transfers are in module Console,    *)
(* the order of exits and joins in NachosThread.                           *)
(***************************************************************************)
EXTENDS Integers, Sequences, FiniteSets, SequencesExt

CONSTANTS Processes,       \* 1 .. n, process 1 is started by nachos -x
          FileNames, ProgramName,      \* what process 1 runs
          Commands,        \* what Exec is called with
          WordSize, PageSize, UserStackSize, SegmentsSize,
          MaxOpens         \* OpenFile objects ever made

VARIABLES files, openFiles, opened, table, executable,
          command,         \* what each process was called with
          running

vars == <<files, openFiles, opened, table, executable, command, running>>

NoFile == [exists |-> FALSE, program |-> FALSE, length |-> 0]
Program == [exists |-> TRUE, program |-> TRUE, length |-> 1]
Descriptor(type, mode, file) == [used |-> TRUE, type |-> type, mode |-> mode, file |-> file]

\* FDTable::FDTable: 0 and 1 are the console.
NewTable == <<Descriptor("console", "r", 0), Descriptor("console", "w", 0)>>

\* StartProcess: the program is opened and runs with no arguments.
Init == /\ files = [f \in FileNames |-> IF f = ProgramName THEN Program ELSE NoFile]
        /\ openFiles = [o \in {1} |-> [name |-> ProgramName, offset |-> 0]]
        /\ opened = 1
        /\ table = [p \in Processes |-> IF p = 1 THEN NewTable ELSE <<>>]
        /\ executable = [p \in Processes |-> IF p = 1 THEN 1 ELSE 0]
        /\ command = [p \in Processes |-> <<>>]
        /\ running = {1}

\* fileSystem->Open and delete.
WithOpened(name) == [o \in DOMAIN openFiles \cup {opened + 1} |->
                        IF o = opened + 1 THEN [name |-> name, offset |-> 0] ELSE openFiles[o]]
Without(gone) == [o \in DOMAIN openFiles \ gone |-> openFiles[o]]

\* FDTable::getDescriptor, -1 for status unused; getUnusedDescriptor.
Used(p, id) == id + 1 \in DOMAIN table[p] /\ table[p][id + 1].used
getUnusedDescriptor(p) ==
    CHOOSE i \in 0 .. Len(table[p]) :
        /\ ~Used(p, i) /\ \A j \in 0 .. i - 1 : Used(p, j)

-----------------------------------------------------------------------------
\* OpenForWrite makes the file or cuts it to nothing, whoever has it open.
Create(p, name) ==
    /\ files' = [files EXCEPT ![name] = [exists |-> TRUE, program |-> FALSE, length |-> 0]]
    /\ UNCHANGED <<openFiles, opened, table, executable, command, running>>

Open(p, name) ==
    /\ files[name].exists /\ opened < MaxOpens
    /\ opened' = opened + 1 /\ openFiles' = WithOpened(name)
    /\ LET i == getUnusedDescriptor(p)
           d == Descriptor("file", "rw", opened + 1)
       IN  table' = [table EXCEPT ![p] = IF i < Len(@) THEN [@ EXCEPT ![i + 1] = d]
                                         ELSE Append(@, d)]
    /\ UNCHANGED <<files, executable, command, running>>

CloseKeepsUsed(p, id) ==     \* a slip: the status stays used
    /\ Used(p, id) /\ table[p][id + 1].type = "file"
    /\ openFiles' = Without({table[p][id + 1].file})
    /\ UNCHANGED <<files, opened, table, executable, command, running>>
Close(p, id) ==
    /\ Used(p, id)
    /\ openFiles' = IF table[p][id + 1].type = "file"
                      THEN Without({table[p][id + 1].file}) ELSE openFiles
    /\ table' = [table EXCEPT ![p][id + 1].used = FALSE]
    /\ UNCHANGED <<files, opened, executable, command, running>>

\* ReadPartial and WriteFile at the offset of the OpenFile.
OfFile(p, id) == Used(p, id) /\ table[p][id + 1].type = "file"
Read(p, id) ==
    /\ OfFile(p, id) /\ table[p][id + 1].mode # "w"
    /\ LET o == table[p][id + 1].file IN
       /\ openFiles[o].offset < files[openFiles[o].name].length
       /\ openFiles' = [openFiles EXCEPT ![o].offset = @ + 1]
    /\ UNCHANGED <<files, opened, table, executable, command, running>>
Write(p, id) ==
    /\ OfFile(p, id) /\ table[p][id + 1].mode # "r"
    /\ LET o == table[p][id + 1].file
           f == openFiles[o].name
           end == openFiles[o].offset + 1
       IN  /\ end <= 2      \* bound on the length of a file
           /\ openFiles' = [openFiles EXCEPT ![o].offset = end]
           /\ files' = [files EXCEPT ![f].length = IF end > @ THEN end ELSE @,
                                     ![f].program = @ /\ end > 1]
    /\ UNCHANGED <<opened, table, executable, command, running>>

-----------------------------------------------------------------------------
\* tokenize: what is between blanks, and not empty.
tokenize(line) ==
    LET cut == FoldLeft(LAMBDA s, c :
                   IF c # " " THEN [s EXCEPT !.item = Append(@, c)]
                   ELSE [words |-> IF s.item = <<>> THEN s.words ELSE Append(s.words, s.item),
                         item |-> <<>>],
                   [words |-> <<>>, item |-> <<>>], line)
    IN  IF cut.item = <<>> THEN cut.words ELSE Append(cut.words, cut.item)

\* Initialize: the address of the arguments, below the stack at a word.
NUL == "nul"
divRoundUp(n, s) == n \div s + IF n % s > 0 THEN 1 ELSE 0
Strings(args) == FlattenSeq([i \in 1 .. Len(args) |-> Append(args[i], NUL)])
argSize(args) == Len(args) * WordSize + Len(Strings(args))
size(args) ==
    divRoundUp(SegmentsSize + UserStackSize + argSize(args) + WordSize, PageSize) * PageSize
initialArgAddress(args) ==
    divRoundUp(size(args) - UserStackSize - argSize(args), WordSize) * WordSize

\* copyArguments: pointers, then the strings they point to.
dataOffset(args, j) == Len(args) * WordSize + Len(Strings(SubSeq(args, 1, j - 1)))
argBuffer(args) ==
    [k \in 0 .. argSize(args) - 1 |->
        IF k >= Len(args) * WordSize THEN Strings(args)[k - Len(args) * WordSize + 1]
        ELSE IF k % WordSize = 0
               THEN initialArgAddress(args) + dataOffset(args, k \div WordSize + 1)
        ELSE "rest of a pointer"]

\* Whether Initialize takes the file.  The header of an empty file is what
\* was in the memory of the AddrSpace before.
Initialize(name) == IF files[name].length = 0 THEN BOOLEAN ELSE {files[name].program}

\* Exec: what the child gets is known at once, threadRun copies it.  The
\* file is deleted again when it is no program.
Exec(p, line) ==
    LET name == tokenize(line)[1]
    IN  /\ name \in FileNames /\ files[name].exists /\ opened < MaxOpens
        /\ opened' = opened + 1
        /\ \E good \in Initialize(name) :
              IF good
                THEN \E c \in Processes \ running :
                        /\ openFiles' = WithOpened(name)
                        /\ executable' = [executable EXCEPT ![c] = opened + 1]
                        /\ table' = [table EXCEPT ![c] = NewTable]
                        /\ command' = [command EXCEPT ![c] = line]
                        /\ running' = running \cup {c}
                ELSE UNCHANGED <<openFiles, executable, table, command, running>>
        /\ UNCHANGED files

\* Exit, and ~Thread once another thread runs: ~AddrSpace and ~FDTable.
OwnFiles(p) == {table[p][i].file : i \in {j \in DOMAIN table[p] :
                    table[p][j].used /\ table[p][j].type = "file"}}
Exit(p) ==
    /\ p # 1      \* the last thread halts the machine instead
    /\ openFiles' = Without(OwnFiles(p) \cup {executable[p]})
    /\ table' = [table EXCEPT ![p] = <<>>]
    /\ executable' = [executable EXCEPT ![p] = 0]
    /\ command' = [command EXCEPT ![p] = <<>>]
    /\ running' = running \ {p}
    /\ UNCHANGED <<files, opened>>

Next == \E p \in running :
           \/ \E name \in FileNames : Create(p, name) \/ Open(p, name)
           \/ \E id \in -1 .. Len(table[p]) : Close(p, id) \/ Read(p, id) \/ Write(p, id)
           \/ \E line \in Commands : Exec(p, line)
           \/ Exit(p)

Spec == Init /\ [][Next]_vars

-----------------------------------------------------------------------------
\* Whatever the programs open, close, reuse and leave open, every OpenFile
\* that exists belongs to exactly one descriptor in use, or is the
\* executable of one process, and each of those has one: none is shared,
\* leaked, deleted twice or used after it was deleted (fdtable.cc:23, 46).
Holders == {<<p, i>> : p \in running, i \in 0 .. MaxOpens + 1}
Held(h) == IF h[2] = 0 THEN executable[h[1]] ELSE table[h[1]][h[2]].file
Holding == {h \in Holders : h[2] = 0 \/ OfFile(h[1], h[2] - 1)}
HandlesOwned == /\ {Held(h) : h \in Holding} = DOMAIN openFiles
                /\ \A g, h \in Holding : Held(g) = Held(h) => g = h

\* What a program finds in its memory through the pointers of argv is what
\* it was called with, cut at the blanks and nowhere else; it lies above the
\* segments and below the stack pointer (addrspace.cc:115, 213).
TextAt(args, at) ==
    LET buffer == argBuffer(args)
        from == at - initialArgAddress(args)
        end == CHOOSE e \in from .. argSize(args) - 1 :
                  buffer[e] = NUL /\ \A k \in from .. e - 1 : buffer[k] # NUL
    IN  [i \in 1 .. end - from |-> buffer[from + i - 1]]
Starts(line) == {i \in DOMAIN line : line[i] # " " /\ (i = 1 \/ line[i - 1] = " ")}
ArgumentsArrive ==
    \A p \in running :
        LET args == tokenize(command[p])
            read == [j \in DOMAIN args |-> TextAt(args, argBuffer(args)[(j - 1) * WordSize])]
        IN  /\ FlattenSeq(read) = SelectSeq(command[p], LAMBDA c : c # " ")
            /\ {Len(FlattenSeq(SubSeq(read, 1, j - 1))) : j \in DOMAIN read}
                 = {Len(SelectSeq(SubSeq(command[p], 1, i - 1), LAMBDA c : c # " ")) :
                        i \in Starts(command[p])}
            /\ initialArgAddress(args) % WordSize = 0
            /\ initialArgAddress(args) >= SegmentsSize
            /\ initialArgAddress(args) + argSize(args) <= size(args) - 4 * WordSize
=============================================================================
