----------------------------- MODULE PackFields -----------------------------
(* Packing values into bit fields and back, cs3411/prog1, as testpack and
   testunpack use it: the user enters widths and values that fit them.  A word is
   a number below 2^LIMIT.  A shift by LIMIT, undefined in C, shifts by nothing,
   as the shift instruction of the x86 does.  pack may write behind what it has
   allocated: it may get away with it, or the program crashes.  *)
EXTENDS Integers, Sequences, FiniteSetsExt, SequencesExt

CONSTANTS LIMIT,      \* bits of an int: 32
          MaxFields   \* bound: how many fields are entered

VARIABLES fields,     \* the widths and the values entered
          words,      \* fieldValues, when packed
          values,     \* what unpack returns
          crashed

vars == <<fields, words, values, crashed>>

Word(n) == n % 2^LIMIT
Left(n, by) == Word(n * 2^(by % LIMIT))
Right(n, by) == n \div 2^(by % LIMIT)
Signed(n, by) ==                             \* >> of an int: the sign comes in
  IF n >= 2^(LIMIT - 1) THEN Word((n - 2^LIMIT) \div 2^(by % LIMIT)) ELSE Right(n, by)

(* pack: the word being filled is the last; cb counts its bits. *)
PackField(st, f) ==
  LET cb == st.cb + f.width
      w2 == cb - LIMIT                       \* bits that go into the next word
      w1 == f.width - w2
      low == Signed(Left(f.value, LIMIT - w2), LIMIT - w2)
      filled == Word(Left(Last(st.words), w1) + Right(f.value, w2))
  IN IF cb <= LIMIT
     THEN [words |-> Append(Front(st.words), Word(Left(Last(st.words), f.width) + f.value)), cb |-> cb]
     ELSE [words |-> Front(st.words) \o <<filled, low>>, cb |-> w2]

pack(fs) ==
  LET st == FoldLeft(PackField, [words |-> <<0>>, cb |-> 0], fs)
  IN Append(Front(st.words), Left(Last(st.words), LIMIT - st.cb))

Bits(fs) == FoldLeft(LAMBDA n, f : n + f.width, 0, fs)

(* The words malloc is asked for; pack then zeroes one for each field. *)
Allocated(fs) == Max({1, Bits(fs) \div LIMIT})
Overruns(fs) == Max({Len(fs), Len(pack(fs))}) > Allocated(fs)

UnpackFieldUncut(st, width) ==      (* a slip: the bits before the field stay *)
  LET cb == st.cb + width
      t2 == cb - LIMIT
      t1 == width - t2
      first == Left(Signed(Left(words[st.k], LIMIT - t1), LIMIT - t1), t2)
      second == Right(words[st.k + 1], LIMIT - t2)
      inside == Right(words[st.k], LIMIT - cb)
  IN IF cb > LIMIT
     THEN [un |-> Append(st.un, Word(first + second)), k |-> st.k + 1, cb |-> t2]
     ELSE [un |-> Append(st.un, inside), k |-> st.k, cb |-> cb]

(* unpack: k is the word that is read, cb the bits of it that are. *)
UnpackField(st, width) ==
  LET cb == st.cb + width
      t2 == cb - LIMIT
      t1 == width - t2
      first == Left(Signed(Left(words[st.k], LIMIT - t1), LIMIT - t1), t2)
      second == Right(words[st.k + 1], LIMIT - t2)
      inside == Right(Right(Left(words[st.k], st.cb), st.cb), LIMIT - cb)
  IN IF cb > LIMIT
     THEN [un |-> Append(st.un, Word(first + second)), k |-> st.k + 1, cb |-> t2]
     ELSE [un |-> Append(st.un, inside), k |-> st.k, cb |-> cb]

unpack(widths) == FoldLeft(UnpackField, [un |-> <<>>, k |-> 1, cb |-> 0], widths).un

-----------------------------------------------------------------------------
Init == fields = <<>> /\ words = <<>> /\ values = <<>> /\ crashed = FALSE

Enter ==
  /\ words = <<>> /\ Len(fields) < MaxFields
  /\ \E width \in 1..(LIMIT - 1) : \E value \in 0..(2^width - 1) :
       fields' = Append(fields, [width |-> width, value |-> value])
  /\ UNCHANGED <<words, values, crashed>>

Pack ==
  /\ fields # <<>> /\ words = <<>>
  /\ \/ words' = pack(fields) /\ UNCHANGED crashed
     \/ Overruns(fields) /\ crashed' = TRUE /\ UNCHANGED words
  /\ UNCHANGED <<fields, values>>

Unpack ==
  /\ words # <<>> /\ values = <<>>
  /\ values' = unpack([i \in DOMAIN fields |-> fields[i].width])
  /\ UNCHANGED <<fields, words, crashed>>

Next == ~crashed /\ (Enter \/ Pack \/ Unpack)
Spec == Init /\ [][Next]_vars

-----------------------------------------------------------------------------
(* Where a field begins: the bits before it, in all and in its word.  *)
Before(i) == Bits(SubSeq(fields, 1, i - 1))
Begin(i) == Before(i) % LIMIT
BehindFullWord(i) == i > 1 /\ Begin(i) = 0
Crosses(i) == Begin(i) + fields[i].width > LIMIT
TopBit(i) == fields[i].value >= 2^(fields[i].width - 1)

(* What stands above the bits of a field when it comes back: all of the word
   before, when the field begins behind a full one; its sign, when it crosses two
   words with its first bit set; nothing else.  *)
Above(i) ==
  IF BehindFullWord(i) THEN words[Before(i) \div LIMIT]
  ELSE IF Crosses(i) /\ TopBit(i) THEN 2^(LIMIT - fields[i].width) - 1
  ELSE 0

(* Unless the program has crashed, the bits of every field come back, and above
   them what unpack.c:59-61 leaves there.  *)
FieldsComeBack ==
  values # <<>> =>
    \A i \in DOMAIN fields : values[i] = Word(fields[i].value + Above(i) * 2^fields[i].width)

(* What unpack is for, `unpack values from bit fields'.  False, and not checked. *)
ValuesComeBack == values # <<>> => \A i \in DOMAIN fields : values[i] = fields[i].value

(* The words are the fields, bit by bit, and zeros behind them. *)
PacksAllBits ==
  words # <<>> =>
    LET bits == FoldLeft(LAMBDA n, f : n * 2^f.width + f.value, 0, fields)
    IN FoldLeft(LAMBDA n, w : n * 2^LIMIT + w, 0, words) = bits * 2^(LIMIT * Len(words) - Bits(fields))
=============================================================================
