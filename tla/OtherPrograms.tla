--------------------------- MODULE OtherPrograms ---------------------------
(***************************************************************************)
(* The other programs of cs3331, cs3411, cs4411/prog2 and cs4461, as       *)
(* instances small enough to check.  They have nothing in common but this  *)
(* module: one of them is chosen and runs, and its variables are the cells *)
(* c1, c2, ...                                                             *)
(***************************************************************************)
EXTENDS Integers, Sequences, FiniteSets

SortArrays == [1 .. 3 -> 1 .. 2] \cup {<<4, 3, 2, 1>>, <<2, 4, 1, 3>>}
MergeInputs == {<<1>>, <<1, 3>>, <<2, 4>>}
BodyPieces == {<<"a">>, <<"a", "b">>, <<"cr", "lf">>, <<"b", "cr", "lf", "a">>}
QueryHosts == {<<<<97>>>>, <<<<97, 98>>, <<99>>>>, <<<<97>>, <<98, 99>>, <<100>>>>}
QueryLabels == {<<>>, <<<<120, 121>>>>, <<<<120>>, <<121>>>>}

VARIABLES program, c1, c2, c3, c4, c5, c6, c7, c8, c9, c10, c11, c12, c13, c14

vars == <<program, c1, c2, c3, c4, c5, c6, c7, c8, c9, c10, c11, c12, c13, c14>>

Maximum == INSTANCE MaxSearch WITH
    size <- 3, Values <- 1 .. 3, main <- c1, x <- c2, w <- c3, initialized <- c4,
    sought <- c5, counted <- c6, waited <- c7, finished <- c8, s_count <- c9,
    wall <- c10, f_wall <- c11, printed <- c12
Array == INSTANCE Systolic WITH
    Size <- 2, Entries <- {1, 2}, reading <- c1, dataA <- c2, dataB <- c3, output <- c4,
    sent <- c5, cell <- c6
Sorts == INSTANCE MergeSort WITH
    Arrays <- SortArrays, Inputs <- MergeInputs, pc <- c1, x <- c2, y <- c3, o <- c4,
    a <- c5, forked <- c6, finished <- c7, todo <- c8, printed <- c9, given <- c10
Forked == INSTANCE ForkedComputations WITH
    m <- 4, n <- 6, r <- 1, s <- 1, Numbers <- 1 .. 3, phase <- c1, heap <- c2,
    index <- c3, trials <- c4, hits <- c5, result <- c6, generated <- c7
Counter == INSTANCE MonitorTest WITH
    Adders <- {"a1", "a2"}, Subtracters <- {"s1", "s2"}, MainThread <- "main",
    Waiter <- "waiter", mutex <- c1, signallerSem <- c2, nWaiters <- c3,
    waiterSem <- c4, pc <- c5, j <- c6, register <- c7, printed <- c8
Resolver == INSTANCE DnsResolver WITH
    Thinkers <- {"t1", "t2"}, Reader <- "reader", IPs <- {"x", "y"},
    NoIP <- "NoIP", numfiles <- 2, numlines <- 2, cachesize <- 1, mutex <- c1,
    signallerSem <- c2, nWaiters <- c3, waiterSem <- c4, pc <- c5, files <- c6,
    lines <- c7, buffer <- c8, cache <- c9, data <- c10, ip_storage <- c11, HIT <- c12,
    mainJoins <- c13, crashed <- c14
Cards == INSTANCE CardGame WITH
    Pairs <- 2, guess <- c1, score <- c2, turn <- c3, toServer <- c4, toClient <- c5,
    closed <- c6, client <- c7, view <- c8, verdict <- c9
Packer == INSTANCE PackFields WITH
    LIMIT <- 4, MaxFields <- 3, fields <- c1, words <- c2, values <- c3, crashed <- c4
Client == INSTANCE HttpClient WITH
    Pieces <- BodyPieces, MaxPieces <- 2, pc <- c1, inp <- c2, CHUNKED <- c3,
    chunk_size <- c4, out <- c5, body <- c6, complete <- c7, errno <- c8
Query == INSTANCE DnsQuery WITH
    Hosts <- QueryHosts, OwnLabels <- QueryLabels, MaxAnswers <- 2, pc <- c1,
    target <- c2, buf <- c3, qname_len <- c4, ans_count <- c5, read <- c6, ans <- c7,
    meant <- c8

ASSUME ProgramsAssumption ==
    /\ Maximum!MaxSearchAssumption /\ Array!SystolicAssumption /\ Counter!TestAssumption
    /\ Resolver!ResolverAssumption /\ Cards!CardGameAssumption

\* One of the programs runs; the cells it does not use stay 0.
Init ==
  \/ program = "max"       /\ Maximum!Init
     /\ c13 = 0 /\ c14 = 0
  \/ program = "systolic"  /\ Array!Init
     /\ c7 = 0 /\ c8 = 0 /\ c9 = 0 /\ c10 = 0 /\ c11 = 0 /\ c12 = 0 /\ c13 = 0
     /\ c14 = 0
  \/ program = "sort"      /\ Sorts!Init
     /\ c11 = 0 /\ c12 = 0 /\ c13 = 0 /\ c14 = 0
  \/ program = "forked"    /\ Forked!Init
     /\ c8 = 0 /\ c9 = 0 /\ c10 = 0 /\ c11 = 0 /\ c12 = 0 /\ c13 = 0
     /\ c14 = 0
  \/ program = "counter"   /\ Counter!Init
     /\ c9 = 0 /\ c10 = 0 /\ c11 = 0 /\ c12 = 0 /\ c13 = 0 /\ c14 = 0
  \/ program = "resolver"  /\ Resolver!Init
  \/ program = "cards"     /\ Cards!Init
     /\ c10 = 0 /\ c11 = 0 /\ c12 = 0 /\ c13 = 0 /\ c14 = 0
  \/ program = "pack"      /\ Packer!Init
     /\ c5 = 0 /\ c6 = 0 /\ c7 = 0 /\ c8 = 0 /\ c9 = 0 /\ c10 = 0
     /\ c11 = 0 /\ c12 = 0 /\ c13 = 0 /\ c14 = 0
  \/ program = "client"    /\ Client!Init
     /\ c9 = 0 /\ c10 = 0 /\ c11 = 0 /\ c12 = 0 /\ c13 = 0 /\ c14 = 0
  \/ program = "query"     /\ Query!Init
     /\ c9 = 0 /\ c10 = 0 /\ c11 = 0 /\ c12 = 0 /\ c13 = 0 /\ c14 = 0

Next ==
  /\ UNCHANGED program
  /\ \/ program = "max"       /\ Maximum!Next /\ UNCHANGED <<c13, c14>>
     \/ program = "systolic"  /\ Array!Next /\ UNCHANGED <<c7, c8, c9, c10, c11, c12, c13, c14>>
     \/ program = "sort"      /\ Sorts!Next /\ UNCHANGED <<c11, c12, c13, c14>>
     \/ program = "forked"    /\ Forked!Next /\ UNCHANGED <<c8, c9, c10, c11, c12, c13, c14>>
     \/ program = "counter"   /\ Counter!Next /\ UNCHANGED <<c9, c10, c11, c12, c13, c14>>
     \/ program = "resolver"  /\ Resolver!Next
     \/ program = "cards"     /\ Cards!Next /\ UNCHANGED <<c10, c11, c12, c13, c14>>
     \/ program = "pack"      /\ Packer!Next /\ UNCHANGED <<c5, c6, c7, c8, c9, c10, c11, c12, c13, c14>>
     \/ program = "client"    /\ Client!Next /\ UNCHANGED <<c9, c10, c11, c12, c13, c14>>
     \/ program = "query"     /\ Query!Next /\ UNCHANGED <<c9, c10, c11, c12, c13, c14>>

\* A program of threads or processes goes on as long as one of them can.
Spec == Init /\ [][Next]_vars
        /\ WF_vars(program \in {"max", "systolic", "sort", "forked"} /\ Next)

-----------------------------------------------------------------------------
\* In whatever order its threads run, a program prints the greatest number, or
\* the product of the second matrix and the first, B times A and not the A times
\* B that its comments claim (prog3/thread.cpp:145, prog6/thread.cpp:185, 218).
ResultsRight ==
    /\ program = "max" => Maximum!TypeOK /\ Maximum!PrintsTheMaximum
    /\ program = "systolic" => Array!TypeOK /\ Array!ComputesProduct

\* What qsort and the heap sort print is sorted and is what they were given,
\* each number as often; and so is what merge prints of two arrays of the same
\* length without a common value (prog2/main.c:240, prog1/prog1.c:318).
SortersPrintSorted ==
    /\ program = "sort" => Sorts!QsortSorts /\ Sorts!MergePrintsBoth
    /\ program = "forked" => Forked!HeapSortWorks

\* The counting test prints zero.  The resolver's monitor lets one thread in
\* while the reader is at its first file, and one more for each later turn, which
\* begins with a Release of what was not acquired; the cache keeps its bound
\* (prog2/test.cc:46, main.cc:266, 418).
MonitorProgramsSafe ==
    /\ program = "counter" => Counter!TypeOK /\ Counter!PrintsZero
    /\ program = "resolver" => /\ Resolver!TypeOK
                              /\ Resolver!EntriesCounted /\ Resolver!CacheBounded

\* Each pair of cards counts once, and the players are told the result, but
\* for what EachPairOnce and VerdictsTrue except (cs3411/prog4/server.c:153).
CardsSafe == program = "cards" => Cards!TypeOK /\ Cards!EachPairOnce /\ Cards!VerdictsTrue

\* Fields packed in words come back with all their bits.  Above them is nothing,
\* but for the sign of a field that crosses two words and the rest of the word
\* before a field that begins behind it (cs3411/prog1/pack.c:35, unpack.c:59).
FieldsComeBack == program = "pack" => Packer!FieldsComeBack /\ Packer!PacksAllBits

\* The client prints the page, chunked or not (cs4461/prog2/main.c:180).
PrintsThePage == program = "client" => Client!TypeOK /\ Client!PrintsThePage

\* The answers are read back through compressed names (prog5/dnsquery.c:143).
AnswersReadBack == program = "query" => Query!TypeOK /\ Query!AnswersReadBack

\* A maximum is printed, and the array of processors never stops half way.
ArraysEnd ==
    /\ program = "max" ~> (program = "max" /\ c1 = "end" /\ c12 # {})
    /\ program = "systolic" ~> (program = "systolic" /\ Array!Joined)

=============================================================================
