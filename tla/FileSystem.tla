----------------------------- MODULE FileSystem -----------------------------
(***************************************************************************)
(* The Nachos file system on disk: filesys.cc, filehdr.cc, directory.cc    *)
(* and userprog/bitmap.cc.  Every sector that is read or written is a step *)
(* (SynchDisk), and the machine may be stopped between two of them and     *)
(* started again without formatting.  One program at a time uses the file  *)
(* system, as the code assumes (filesys.cc, Create).                       *)
(*                                                                         *)
(* The free map fills one sector.  The directory fills two, and one of its *)
(* entries lies across them: its inUse and sector are in the first, its    *)
(* name is in the second.  The headers of the two files never change after *)
(* formatting.  A header holds the sectors of its file; what a file        *)
(* contains is left out (module OpenFile).                                 *)
(***************************************************************************)
EXTENDS Integers, Sequences, FiniteSets, FiniteSetsExt, SequencesExt

CONSTANTS NumSectors, NumDirEntries,
          Across,        \* the directory entry that lies across two sectors
          FileNames, FileSizes,     \* sizes in sectors
          MaxCrashes

VARIABLES disk, pc, op, directory, freeMap, hdr, sector, crashes

vars == <<disk, pc, op, directory, freeMap, hdr, sector, crashes>>

FreeMapSector == 0
DirectorySector == 1
MapData == 2
DirData == <<3, 4>>
System == 0 .. 4
Sectors == 0 .. NumSectors - 1
Entries == 1 .. NumDirEntries
NoName == "none"
Unused == [inUse |-> FALSE, sector |-> 0, name |-> NoName]
Garbage == <<>>            \* what a sector holds that no header was written to
NoOp == [kind |-> "none", name |-> NoName, size |-> 0, entry |-> 0]

\* The disk: the free map, the two halves of the directory, the headers.
Half(table, i) == [e \in Entries |->
    CASE e < Across -> IF i = 1 THEN table[e] ELSE Unused
      [] e = Across -> IF i = 1 THEN [table[e] EXCEPT !.name = NoName]
                       ELSE [Unused EXCEPT !.name = table[e].name]
      [] OTHER -> IF i = 2 THEN table[e] ELSE Unused]
Table(half1, half2) == [e \in Entries |->
    CASE e < Across -> half1[e]
      [] e = Across -> [half1[e] EXCEPT !.name = half2[e].name]
      [] OTHER -> half2[e]]
OnDisk == Table(disk.dir[1], disk.dir[2])

\* A formatted disk, as the constructor with format leaves it.
Empty == [e \in Entries |-> Unused]
Init == /\ disk = [map |-> System, dir |-> <<Half(Empty, 1), Half(Empty, 2)>>,
                   hdr |-> [s \in Sectors |-> Garbage]]
        /\ pc = "idle" /\ op = NoOp /\ directory = Empty /\ freeMap = {}
        /\ hdr = Garbage /\ sector = -1 /\ crashes = 0

-----------------------------------------------------------------------------
\* Directory: FindIndex, Find, Add and Remove; -1 and 0 for nothing found.
FindIndex(table, name) ==
    LET found == {e \in Entries : table[e].inUse /\ table[e].name = name}
    IN  IF found = {} THEN 0 ELSE Min(found)
Find(table, name) ==
    IF FindIndex(table, name) = 0 THEN -1 ELSE table[FindIndex(table, name)].sector
Room(table) == {e \in Entries : ~table[e].inUse}
Add(table, name, s) ==
    [table EXCEPT ![Min(Room(table))] = [inUse |-> TRUE, sector |-> s, name |-> name]]
RemoveEntry(table, name) == [table EXCEPT ![FindIndex(table, name)].inUse = FALSE]

\* BitMap: the set of the marked bits; Find marks the first clear one.
FindBit(map) == IF map = Sectors THEN -1 ELSE Min(Sectors \ map)

\* FileHeader::Allocate takes the first clear sectors, if there are enough.
\* (AllocateLow is a slip: it allocates in a map that was not fetched.)
AllocateLow(map, n) == SubSeq(SetToSortSeq(Sectors \ System, <), 1, n)
NumClear(map) == Cardinality(Sectors \ map)
Allocate(map, n) == SubSeq(SetToSortSeq(Sectors \ map, <), 1, n)
\* FileHeader::Deallocate, after the ASSERT on every sector, and the header.
Marked(map, header) == ToSet(header) \subseteq map
\* (FreedData is a slip: the header keeps its mark.)
FreedData(map, header, s) == map \ ToSet(header)
Freed(map, header, s) == map \ (ToSet(header) \cup {s})

-----------------------------------------------------------------------------
Ends == /\ pc' = "idle" /\ op' = NoOp /\ directory' = Empty /\ freeMap' = {}
        /\ hdr' = Garbage /\ sector' = -1 /\ UNCHANGED <<disk, crashes>>

\* Each operation fetches the directory first.
Fetches(half1) ==
    /\ pc = "idle"
    /\ \E k \in {"create", "remove"}, n \in FileNames, z \in FileSizes :
         /\ k = "remove" => z = Min(FileSizes)
         /\ op' = [kind |-> k, name |-> n, size |-> z, entry |-> 0]
    /\ directory' = Table(half1, [e \in Entries |-> Unused])
    /\ pc' = "fetched"
    /\ UNCHANGED <<disk, freeMap, hdr, sector, crashes>>
FetchesMore ==
    /\ pc = "fetched"
    /\ directory' = Table(Half(directory, 1), disk.dir[2])
    /\ pc' = op.kind
    /\ UNCHANGED <<disk, op, freeMap, hdr, sector, crashes>>

\* Create: the name is new, a sector for the header, an entry, the sectors.
CreateFails == /\ pc = "create" /\ Find(directory, op.name) # -1 /\ Ends
CreateAllocates ==
    /\ pc = "create" /\ Find(directory, op.name) = -1
    /\ LET s == FindBit(disk.map)
           map == disk.map \cup {s}
       IN  IF s = -1 \/ Room(directory) = {} \/ NumClear(map) < op.size THEN Ends
           ELSE /\ sector' = s
                /\ directory' = Add(directory, op.name, s)
                /\ hdr' = Allocate(map, op.size)
                /\ freeMap' = map \cup ToSet(hdr')
                /\ op' = [op EXCEPT !.entry = FindIndex(directory', op.name)]
                /\ pc' = "write_header"
                /\ UNCHANGED <<disk, crashes>>

WritesHeader ==
    /\ pc = "write_header"
    /\ disk' = [disk EXCEPT !.hdr[sector] = hdr]
    /\ pc' = "write_dir1"
    /\ UNCHANGED <<op, directory, freeMap, hdr, sector, crashes>>

\* Directory::WriteBack writes the two sectors one after the other.
WritesDirectory(i, next) ==
    /\ pc = <<"write_dir1", "write_dir2">>[i]
    /\ disk' = [disk EXCEPT !.dir[i] = Half(directory, i)]
    /\ pc' = next
    /\ UNCHANGED <<op, directory, freeMap, hdr, sector, crashes>>

WritesMap(next) ==
    /\ pc = "write_map"
    /\ disk' = [disk EXCEPT !.map = freeMap]
    /\ pc' = next
    /\ UNCHANGED <<op, directory, freeMap, hdr, sector, crashes>>

\* Remove: the header is fetched, then the map; what they say goes back with
\* the map first and the directory last.
RemoveFails == /\ pc = "remove" /\ Find(directory, op.name) = -1 /\ Ends
RemoveFetches ==
    /\ pc = "remove" /\ Find(directory, op.name) # -1
    /\ sector' = Find(directory, op.name)
    /\ hdr' = disk.hdr[sector']
    /\ op' = [op EXCEPT !.entry = FindIndex(directory, op.name)]
    /\ pc' = "deallocate"
    /\ UNCHANGED <<disk, directory, freeMap, crashes>>
RemoveDeallocates ==
    /\ pc = "deallocate"
    /\ IF Marked(disk.map, hdr)
         THEN /\ freeMap' = Freed(disk.map, hdr, sector)
              /\ directory' = RemoveEntry(directory, op.name)
              /\ pc' = "write_map"
         ELSE /\ pc' = "aborted"          \* ought to be marked!
              /\ UNCHANGED <<directory, freeMap>>
    /\ UNCHANGED <<disk, op, hdr, sector, crashes>>

Finishes == pc = "done" /\ Ends

\* The machine stops and starts again: the disk is all that is left.
Crash == /\ pc # "idle" /\ pc # "aborted" /\ crashes < MaxCrashes
         /\ crashes' = crashes + 1
         /\ pc' = "restarted"
         /\ directory' = Empty /\ freeMap' = {} /\ hdr' = Garbage /\ sector' = -1
         /\ UNCHANGED <<disk, op>>
Restart == pc = "restarted" /\ Ends

Creates == CreateFails \/ CreateAllocates \/ WritesHeader
Removes == RemoveFails \/ RemoveFetches \/ RemoveDeallocates
WritesBack ==
    \/ WritesDirectory(1, "write_dir2")
    \/ WritesDirectory(2, IF op.kind = "create" THEN "write_map" ELSE "done")
    \/ WritesMap(IF op.kind = "create" THEN "done" ELSE "write_dir1")

Next == \/ Fetches(disk.dir[1]) \/ FetchesMore \/ Creates \/ Removes \/ WritesBack
        \/ Finishes \/ Crash \/ Restart

Spec == Init /\ [][Next]_vars

-----------------------------------------------------------------------------
InUse == {e \in Entries : OnDisk[e].inUse}
\* The sectors of the file of an entry, its header's included.
Owned(e) == {OnDisk[e].sector} \cup ToSet(disk.hdr[OnDisk[e].sector])

\* Before any crash the free map marks exactly what the system and the files
\* take, no two files share a sector and no two entries a name.
Consistent ==
    pc = "idle" /\ crashes = 0 =>
        /\ disk.map = System \cup UNION {Owned(e) : e \in InUse}
        /\ \A e \in InUse : /\ Owned(e) \cap System = {}
                            /\ Cardinality(Owned(e)) = Len(disk.hdr[OnDisk[e].sector]) + 1
        /\ \A e, f \in InUse : e # f => /\ Owned(e) \cap Owned(f) = {}
                                        /\ OnDisk[e].name # OnDisk[f].name

\* A crash, wherever it strikes, hurts no file but the one whose entry is
\* being filled or cleared: all others keep a header, sectors of their own
\* and the marks in the map.
OthersSurvive ==
    crashes = 0 \/ (crashes = 1 /\ pc = "restarted") =>
        \A e \in InUse \ {op.entry} :
            /\ Owned(e) \subseteq disk.map /\ Owned(e) \cap System = {}
            /\ \A f \in InUse \ {e} : Owned(e) \cap Owned(f) = {}
=============================================================================
