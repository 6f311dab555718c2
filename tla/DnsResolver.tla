---------------------------- MODULE DnsResolver ----------------------------
(***************************************************************************)
(* refstats, src/cs4411/prog2/main.cc: a reader pushes the addresses of    *)
(* log files into a buffer; thinkers pop them, look their names up, and    *)
(* keep a cache and the list `data', all inside one Monitor.               *)
(*                                                                         *)
(* The name of an address is a function of the address, so that a node is  *)
(* its address.  getline returns -1 at the end of a file, which is true:   *)
(* the reader then pushes the last line again, and every file gives        *)
(* numlines addresses.                                                     *)
(***************************************************************************)
EXTENDS HoareMonitor, Sequences, FiniteSets, SequencesExt

CONSTANTS
    Thinkers, Reader,
    IPs, NoIP,
    numfiles, numlines, cachesize

ResolverAssumption ==
    /\ Reader \notin Thinkers /\ NoIP \notin IPs
    /\ {numfiles, numlines, cachesize} \subseteq Nat \ {0}

VARIABLES
    files,       \* the length of file_list
    lines,       \* the lines of the first file already pushed
    buffer,      \* the addresses to look up, front first
    cache,       \* most recent first
    data,        \* how often each address is in the list `data'
    ip_storage,  \* the address each thinker has popped
    HIT,
    mainJoins,   \* main has called pthread_join on the reader
    crashed      \* undefined behaviour has been reached

readerVars == <<files, lines>>
thinkerVars == <<cache, data, ip_storage, HIT, crashed>>
vars == <<mutex, signallerSem, nWaiters, waiterSem, pc, readerVars, buffer, thinkerVars,
          mainJoins>>

Init ==
    /\ MonitorInit
    /\ pc = [t \in Thinkers \cup {Reader} |-> IF t = Reader THEN "begin" ELSE "check"]
    /\ files = numfiles
    /\ lines = 0
    /\ buffer = <<>> /\ cache = <<>>
    /\ data = [i \in IPs |-> 0]
    /\ ip_storage = [t \in Thinkers |-> NoIP]
    /\ HIT = [t \in Thinkers |-> FALSE]
    /\ mainJoins = FALSE
    /\ crashed = FALSE

\* The threads between Acquire and Release.
Inside == {t \in DOMAIN pc : pc[t] \in
    {"test", "fopen", "push", "pop_file", "empty?", "pop", "store"}}

-----------------------------------------------------------------------------
(* The reader.  Only the first test of the while loop is inside the        *)
(* monitor, but Release follows every one that finds a file.               *)

ReaderEnters ==
    /\ \/ Goto(Reader, "begin", "test")
       \/ Goto(Reader, "open", "fopen")
       \/ Goto(Reader, "getline", "push")
       \/ Goto(Reader, "close", "pop_file")
    /\ Acquire
    /\ UNCHANGED <<readerVars, buffer>>

ReaderTests ==
    /\ pc[Reader] \in {"test", "test again"}
    /\ \/ /\ files > 0
          /\ pc' = [pc EXCEPT ![Reader] = "open"]
          /\ Release
       \/ /\ files = 0
          /\ pc' = [pc EXCEPT ![Reader] = "done"]
          /\ UNCHANGED <<monitorVars, conditionVars>>
    /\ UNCHANGED <<readerVars, buffer>>

\* A file that cannot be opened ends the reader.
ReaderOpens ==
    /\ Goto(Reader, "fopen", "getline") \/ Goto(Reader, "fopen", "done")
    /\ Release
    /\ lines' = 0
    /\ UNCHANGED <<files, buffer>>

ReaderPushes ==
    /\ Goto(Reader, "push", IF lines + 1 > numlines - 1 THEN "close" ELSE "getline")
    /\ \E i \in IPs : buffer' = <<i>> \o buffer
    /\ lines' = lines + 1
    /\ Release
    /\ UNCHANGED files

ReaderPopsFile ==
    /\ Goto(Reader, "pop_file", "test again")
    /\ files' = files - 1
    /\ Release
    /\ UNCHANGED <<lines, buffer>>

ReaderThread ==
    /\ ReaderEnters \/ ReaderTests \/ ReaderOpens \/ ReaderPushes \/ ReaderPopsFile
    /\ UNCHANGED <<thinkerVars, mainJoins>>

-----------------------------------------------------------------------------
(* The thinkers.                                                           *)

ThinkerEnters(t) ==
    /\ \/ Goto(t, "check", "empty?") \/ Goto(t, "take", "pop")
    /\ Acquire
    /\ UNCHANGED <<buffer, thinkerVars>>

ThinkerTests(t) ==
    /\ Goto(t, "empty?", IF buffer = <<>> THEN "tryjoin" ELSE "take")
    /\ Release
    /\ UNCHANGED <<buffer, thinkerVars>>

\* pthread_tryjoin_np leaves `ret' alone, and the thinker exits, except when it
\* is the first to join a reader that is done: then it reads through NULL.
ThinkerTriesJoin(t) ==
    /\ Goto(t, "tryjoin", "done")
    /\ crashed' = (pc[Reader] = "done" /\ ~mainJoins)
    /\ UNCHANGED <<monitorVars, conditionVars, buffer, cache, data, ip_storage, HIT>>

\* The cache after a hit on i: i moves to the front, and a full cache loses
\* its last node.
AfterHit(i) ==
    LET moved == <<i>> \o RemoveFirst(cache, i)
    IN  IF Len(moved) >= cachesize THEN Front(moved) ELSE moved

\* MUTANT of AfterMiss: the cache grows although it is full.
AfterMissKeepsAll(i) == <<i>> \o cache

\* The cache after a miss.
AfterMiss(i) ==
    IF Len(cache) < cachesize THEN <<i>> \o cache ELSE Front(<<i>> \o cache)

\* The buffer may have become empty since the thinker looked at it.
ThinkerPops(t) ==
    /\ Goto(t, "pop", "lookup")
    /\ Release
    /\ \/ /\ buffer = <<>>
          /\ crashed' = TRUE
          /\ UNCHANGED <<buffer, cache, data, ip_storage, HIT>>
       \/ /\ buffer # <<>>
          /\ buffer' = Tail(buffer)
          /\ ip_storage' = [ip_storage EXCEPT ![t] = Head(buffer)]
          /\ HIT' = [HIT EXCEPT ![t] = Head(buffer) \in ToSet(cache)]
          /\ \/ HIT'[t] /\ cache' = AfterHit(Head(buffer))
                        /\ data' = [data EXCEPT ![Head(buffer)] = @ + 1]
             \/ ~HIT'[t] /\ UNCHANGED <<cache, data>>
          /\ UNCHANGED crashed

\* getaddrinfo and getnameinfo, outside the monitor; an error ends the thread.
ThinkerLooksUp(t) ==
    /\ \/ Goto(t, "lookup", "store") /\ Acquire
       \/ Goto(t, "lookup", "done") /\ UNCHANGED <<monitorVars, conditionVars>>
    /\ UNCHANGED <<buffer, thinkerVars>>

ThinkerStores(t) ==
    /\ Goto(t, "store", "check")
    /\ Release
    /\ data' = [data EXCEPT ![ip_storage[t]] = @ + 1]
    /\ cache' = IF HIT[t] THEN cache ELSE AfterMiss(ip_storage[t])
    /\ UNCHANGED <<buffer, ip_storage, HIT, crashed>>

ThinkerThread(t) ==
    /\ \/ ThinkerEnters(t) \/ ThinkerTests(t) \/ ThinkerTriesJoin(t)
       \/ ThinkerPops(t) \/ ThinkerLooksUp(t) \/ ThinkerStores(t)
    /\ UNCHANGED <<readerVars, mainJoins>>

MainJoins ==
    /\ ~mainJoins
    /\ mainJoins' = TRUE
    /\ UNCHANGED <<monitorVars, conditionVars, pc, readerVars, buffer, thinkerVars>>

\* Two threads are inside and about to use the same list, one of them to change
\* it: the buffer, or the cache and the list `data'.
Race(t, u) ==
    /\ t # u
    /\ \/ pc[t] \in {"push", "pop"} /\ pc[u] \in {"push", "pop", "empty?"}
       \/ pc[t] = "store" /\ pc[u] \in {"pop", "store"}

\* A race is undefined, and the model ends there.
Next ==
    /\ ~crashed /\ \A t, u \in Inside : ~ Race(t, u)
    /\ ReaderThread \/ (\E t \in Thinkers : ThinkerThread(t)) \/ MainJoins

Spec == Init /\ [][Next]_vars

-----------------------------------------------------------------------------
(* Properties.                                                             *)

TypeOK ==
    /\ MonitorTypeOK
    /\ files \in 0..numfiles /\ lines \in 0..numlines
    /\ buffer \in Seq(IPs) /\ cache \in Seq(IPs)
    /\ data \in [IPs -> Nat]
    /\ crashed \in BOOLEAN

\* From its second turn on the reader calls Release without Acquire, main.cc:266:
\* how many times it has done so.
ExtraPosts ==
    LET turns == numfiles - files
    IN  IF turns > 0 /\ (files = 0 \/ pc[Reader] = "test again") THEN turns - 1 ELSE turns

\* The monitor lets one thread in while the reader is at its first file, and one
\* more for each of its later turns.
EntriesCounted == mutex + Cardinality(Inside) = 1 + ExtraPosts

\* Monitor::Acquire, `ensuring no other process may enter'.  True with one file,
\* false with two, and not checked.
OneInside == \A t, u \in Inside : t = u

\* The cache holds at most cachesize nodes, whatever the order in which the
\* thinkers, who leave the monitor for the look-up, come back with a miss.
CacheBounded == Len(cache) <= cachesize


=============================================================================
