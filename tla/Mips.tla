-------------------------------- MODULE Mips --------------------------------
(***************************************************************************)
(* machine/mipssim.cc: the processor on which user programs run, with      *)
(* words of Width bits, a byte being a quarter of a word.  The fields of   *)
(* an instruction are given; registers 1 and 2 are rs and rt, 3 is rd and  *)
(* takes the place of R31.  Addresses of instructions count instructions.  *)
(* A page fault or an interrupt may come before any instruction is done:   *)
(* RaiseException and CheckIfDue then finish the delayed load, and the     *)
(* instruction is started again from the beginning.  Every other exception *)
(* but a system call ends Nachos.                                          *)
(***************************************************************************)
EXTENDS Integers, Sequences, Bitwise, TLC

CONSTANTS Width,
          Few,        \* values of registers from which several steps are made
          MaxSteps

VARIABLES m,          \* the machine: registers, load in progress, counters
          mem,        \* the word of memory the program works on
          plain, plainMem,    \* the same program when nothing interrupts it
          steps, limit,
          last        \* the instruction just done, its operands and its outcome

vars == <<m, mem, plain, plainMem, steps, limit, last>>

Size == 2 ^ Width
Word == 0 .. Size - 1
Half == 2 ^ (Width \div 2)
Byte == 2 ^ (Width \div 4)
Sign == Size \div 2
Signed(w) == IF w >= Sign THEN w - Size ELSE w
Negative(w) == w >= Sign
Truth(b) == IF b THEN 1 ELSE 0

AluOps == {"ADDU", "ADDIU", "AND", "ANDI", "LUI", "NOR", "OR", "ORI", "SLL", "SLLV",
           "SLT", "SLTI", "SLTIU", "SLTU", "SRA", "SRAV", "SRL", "SRLV", "SUBU",
           "XOR", "XORI"}
TrappingOps == {"ADD", "ADDI", "SUB"}
HiLoOps == {"MULT", "MULTU", "DIV", "DIVU"}
MoveOps == {"MFHI", "MFLO", "MTHI", "MTLO"}
Branches == {"BEQ", "BNE", "BGEZ", "BGEZAL", "BGTZ", "BLEZ", "BLTZ", "BLTZAL"}
Jumps == {"J", "JAL", "JR", "JALR"}
Loads == {"LB", "LBU", "LH", "LHU", "LW", "LWL", "LWR"}
Stores == {"SB", "SH", "SW", "SWL", "SWR"}
Immediate == {"ADDI", "ADDIU", "ANDI", "LUI", "ORI", "SLTI", "SLTIU", "XORI"}
Shifts == {"SLL", "SRA", "SRL"}
Illegal == {"RES", "UNIMP"}

\* Decode extends the sign of an immediate, which fills the lower half.
Extended(x) == IF x >= Half \div 2 THEN Size - Half + x ELSE x
Low(w) == w % Half

\* Shifts by n places.  SRL and SRLV shift an int, as SRA does.
Left(w, n) == (w * 2 ^ n) % Size
RightInt(w, n) == (Signed(w) \div 2 ^ n) % Size
amount(w) == w % Width        \* & 0x1f

\* The instructions with one result: a is rs, b is rt, x is extra.
Alu(op, a, b, x) ==
    CASE op \in {"ADD", "ADDU"} -> (a + b) % Size
      [] op \in {"ADDI", "ADDIU"} -> (a + x) % Size
      [] op \in {"SUB", "SUBU"} -> (a - b) % Size
      [] op = "AND" -> a & b
      [] op = "ANDI" -> a & Low(x)
      [] op = "NOR" -> Size - 1 - (a | b)
      [] op = "OR" -> a | a
      [] op = "ORI" -> a | Low(x)
      [] op = "XOR" -> a ^^ b
      [] op = "XORI" -> a ^^ Low(x)
      [] op = "LUI" -> Left(x, Width \div 2)
      [] op = "SLT" -> Truth(Signed(a) < Signed(b))
      [] op = "SLTI" -> Truth(Signed(a) < Signed(x))
      [] op = "SLTU" -> Truth(a < b)
      [] op = "SLTIU" -> Truth(a < x)
      [] op = "SLL" -> Left(b, x)
      [] op = "SLLV" -> Left(b, amount(a))
      [] op \in {"SRA", "SRL"} -> RightInt(b, x)
      [] op \in {"SRAV", "SRLV"} -> RightInt(b, amount(a))

\* The sign of the sum, or the difference, against those of the operands.
Overflows(op, a, b, x) ==
    LET r == Alu(op, a, b, x) IN
    CASE op = "ADD" -> Negative(a) = Negative(b) /\ Negative(a) # Negative(r)
      [] op = "ADDI" -> Negative(a) = Negative(x) /\ Negative(x) # Negative(r)
      [] op = "SUB" -> Negative(a) # Negative(b) /\ Negative(a) # Negative(r)
      [] OTHER -> FALSE

\* Mult: the bits of a one at a time, b being shifted in two words, and a
\* carry when the low sum has become smaller than what was added.
Abs(w) == IF Negative(w) THEN Size - w ELSE w
Carry(lo, bLo) == IF (lo + bLo) % Size < bLo THEN 1 ELSE 0
Mult(a, b, signed) ==
    LET ua == IF signed THEN Abs(a) ELSE a
        ub == IF signed THEN Abs(b) ELSE b
        negative == signed /\ Negative(a) # Negative(b)
        loop[i \in 0 .. Width] ==
            IF i = 0 THEN [lo |-> 0, hi |-> 0, bLo |-> ub, bHi |-> 0]
            ELSE LET s == loop[i - 1]
                     bit == (ua \div 2 ^ (i - 1)) % 2 = 1
                 IN  [lo |-> IF bit THEN (s.lo + s.bLo) % Size ELSE s.lo,
                      hi |-> IF bit THEN (s.hi + Carry(s.lo, s.bLo) + s.bHi) % Size ELSE s.hi,
                      bLo |-> (2 * s.bLo) % Size,
                      bHi |-> (2 * s.bHi + Truth(Negative(s.bLo))) % Size]
        r == loop[Width]
        lo == (Size - r.lo) % Size
    IN  IF ua = 0 \/ ub = 0 THEN <<0, 0>>
        ELSE IF negative THEN <<(Size - 1 - r.hi + Truth(lo = 0)) % Size, lo>>
        ELSE <<r.hi, r.lo>>

\* The quotient of C is cut towards zero, the remainder has a's sign.
Quotient(a, b) == LET q == Abs(a) \div Abs(b)
                  IN  IF Negative(a) # Negative(b) THEN (Size - q) % Size ELSE q
Remainder(a, b) == LET r == Abs(a) % Abs(b) IN IF Negative(a) THEN (Size - r) % Size ELSE r
Divide(op, a, b) ==
    IF b = 0 THEN <<0, 0>>
    ELSE IF op = "DIV" THEN <<Remainder(a, b), Quotient(a, b)>> ELSE <<a % b, a \div b>>
HiLo(op, a, b) == IF op \in {"MULT", "MULTU"} THEN Mult(a, b, op = "MULT") ELSE Divide(op, a, b)

Taken(op, a, b) ==
    CASE op = "BEQ" -> a = b
      [] op = "BNE" -> a # b
      [] op \in {"BGEZ", "BGEZAL"} -> ~Negative(a)
      [] op = "BGTZ" -> Signed(a) > 0
      [] op = "BLEZ" -> Signed(a) <= 0
      [] op \in {"BLTZ", "BLTZAL"} -> Negative(a)

\* The bytes of a word of memory, and the two ends the little machine's LWL,
\* LWR, SWL and SWR reach, as they are refused off a word's boundary.
Part(w, at, width) == (w \div Byte ^ at) % width
Put(w, at, width, v) == w - Part(w, at, width) * Byte ^ at + (v % width) * Byte ^ at
SignFrom(v, width) == IF v >= width \div 2 THEN Size - width + v ELSE v
Loaded(op, w, at, old) ==
    CASE op = "LB" -> SignFrom(Part(w, at, Byte), Byte)
      [] op = "LBU" -> Part(w, at, Byte)
      [] op = "LH" -> SignFrom(Part(w, at, Half), Half)
      [] op = "LHU" -> Part(w, at, Half)
      [] op \in {"LW", "LWL"} -> w
      [] op = "LWR" -> Put(old, 0, Byte, Part(w, 3, Byte))
Stored(op, w, at, v) ==
    CASE op = "SB" -> Put(w, at, Byte, v)
      [] op = "SH" -> Put(w, at, Half, v)
      [] op \in {"SW", "SWL"} -> v
      [] op = "SWR" -> Put(w, 3, Byte, v)

DelayedLoad(s, reg, value) ==
    [s EXCEPT !.reg = [[@ EXCEPT ![s.LoadReg] = s.LoadValue] EXCEPT ![0] = 0],
              !.LoadReg = reg, !.LoadValue = value]

\* OneInstruction: the effect on the registers, the load it leaves for the
\* instruction after the next, and the counters with their delay slot.
Writes(s, i) ==
    LET a == s.reg[i.rs]
        b == s.reg[i.rt]
        dest == IF i.op \in Immediate THEN i.rt ELSE 3
    IN  CASE i.op \in AluOps \cup TrappingOps ->
                 [s EXCEPT !.reg[dest] = Alu(i.op, a, b, i.extra)]
          [] i.op \in HiLoOps -> [s EXCEPT !.HiLo = HiLo(i.op, a, b)]
          [] i.op = "MFHI" -> [s EXCEPT !.reg[3] = s.HiLo[1]]
          [] i.op = "MFLO" -> [s EXCEPT !.reg[3] = s.HiLo[2]]
          [] i.op = "MTHI" -> [s EXCEPT !.HiLo[1] = a]
          [] i.op = "MTLO" -> [s EXCEPT !.HiLo[2] = a]
          [] i.op \in {"BGEZAL", "BLTZAL", "JAL", "JALR"} ->
                 [s EXCEPT !.reg[3] = (s.NextPC + 1) % Size]
          [] OTHER -> s
pcAfter(s, i) ==
    CASE i.op \in Branches /\ Taken(i.op, Writes(s, i).reg[i.rs], s.reg[i.rt]) ->
             (s.NextPC + i.extra) % Size
      [] i.op \in {"J", "JAL"} -> i.extra
      [] i.op \in {"JR", "JALR"} -> Writes(s, i).reg[i.rs]
      [] OTHER -> (s.NextPC + 1) % Size
OldValueStale(s, r) == s.reg[r]     \* a slip: the load in progress is overlooked
OldValue(s, r) == IF s.LoadReg = r THEN s.LoadValue ELSE s.reg[r]
OneInstruction(s, w, i) ==
    LET done == IF i.op \in Loads
                  THEN DelayedLoad(s, i.rt, Loaded(i.op, w, i.at, OldValue(s, i.rt)))
                  ELSE DelayedLoad(Writes(s, i), 0, 0)
    IN  [done EXCEPT !.PC = s.NextPC, !.NextPC = pcAfter(s, i)]
Memory(s, w, i) == IF i.op \in Stores THEN Stored(i.op, w, i.at, s.reg[i.rt]) ELSE w

\* The address does not fit the number of bytes, by OneInstruction itself or by
\* Translate; LWL, LWR, SWL and SWR refuse it with an ASSERT.
Misaligned(i) ==
    \/ i.op \in {"LH", "LHU", "SH"} /\ i.at % 2 # 0
    \/ i.op \in {"LW", "SW", "LWL", "LWR", "SWL", "SWR"} /\ i.at # 0
Traps(s, i) == \/ Overflows(i.op, s.reg[i.rs], s.reg[i.rt], i.extra)
               \/ Misaligned(i) \/ i.op \in Illegal

RaiseException(s) == DelayedLoad(s, 0, 0)

\* SyscallHandler: a result, if the call has one, in register 2, and the
\* counters go on.
SyscallHandler(s, i) ==
    [RaiseException(s) EXCEPT !.reg[2] = IF i.rt = 2 THEN i.extra ELSE @,
                              !.PC = s.NextPC, !.NextPC = (s.NextPC + 1) % Size]

\* The processor and the memory after an instruction.
After(s, w, i) ==
    IF Traps(s, i) THEN <<RaiseException(s), w>>
    ELSE IF i.op = "SYSCALL" THEN <<SyscallHandler(s, i), w>>
    ELSE <<OneInstruction(s, w, i), Memory(s, w, i)>>

-----------------------------------------------------------------------------
Fresh(a, b) == [reg |-> <<a, b, 0>> @@ (0 :> 0), HiLo |-> <<0, 0>>, LoadReg |-> 0,
                LoadValue |-> 0, PC |-> 0, NextPC |-> 1]
NoInstruction == [op |-> "none", a |-> 0, b |-> 0, x |-> 0, result |-> <<>>]

Init == /\ m = Fresh(0, 0) /\ plain = m /\ mem = 0 /\ plainMem = 0
        /\ steps = 0 /\ limit = 0 /\ last = NoInstruction

\* A program starts: one instruction on any operands, or several on few.
Starts ==
    /\ limit = 0
    /\ \E a, b \in Word : m' = Fresh(a, b) /\ mem' = b
                          /\ limit' \in IF {a, b} \subseteq Few THEN {1, MaxSteps} ELSE {1}
    /\ plain' = m' /\ plainMem' = mem'
    /\ UNCHANGED <<steps, last>>

Instructions ==
    [op : AluOps \cup TrappingOps \cup HiLoOps \cup MoveOps, rs : {1}, rt : {2}, at : {0},
     extra : {Extended(1), Extended(Half - 1)}]
    \cup [op : Branches \cup Jumps, rs : {1, 3}, rt : {2}, at : {0}, extra : {2}]
    \cup [op : {"LB", "LBU", "SB"}, rs : {1}, rt : {1, 2}, at : {1, 3}, extra : {0}]
    \cup [op : {"LH", "LHU", "SH"}, rs : {1}, rt : {1, 2}, at : {1, 2}, extra : {0}]
    \cup [op : {"LW", "SW", "LWL", "LWR", "SWL", "SWR"}, rs : {1}, rt : {1, 2}, at : {0, 2},
          extra : {0}]
    \cup [op : {"SYSCALL"}, rs : {1}, rt : {0, 2}, at : {0}, extra : Few]
    \cup [op : Illegal, rs : {1}, rt : {0}, at : {0}, extra : {0}]

\* A program leaves a register alone until its load is done, but for the
\* second half of a pair of LWL and LWR; it does not divide the least
\* number by -1, nor branch on the link register its branch writes.
Uses(i) == IF i.op \in {"LWL", "LWR", "SYSCALL"} \cup Illegal THEN {} ELSE {i.rs, i.rt}
Proper(s, i) == /\ s.LoadReg \notin Uses(i) \ {0} /\ s.LoadReg # 3
                /\ i.op = "DIV" => ~(s.reg[i.rs] = Sign /\ s.reg[i.rt] = Size - 1)
                /\ i.op \in {"BGEZAL", "BLTZAL", "JALR"} => i.rs # 3

ShiftOf(i) == IF i.op \in Shifts THEN [i EXCEPT !.extra = @ % Width] ELSE i

Executes(j) ==
    LET i == ShiftOf(j)
        a == m.reg[i.rs]
        b == m.reg[i.rt]
        trap == Traps(m, i)
    IN  /\ steps < limit /\ Proper(plain, i)
        /\ m' = After(m, mem, i)[1] /\ mem' = After(m, mem, i)[2]
        /\ plain' = After(plain, plainMem, i)[1] /\ plainMem' = After(plain, plainMem, i)[2]
        /\ last' = [op |-> i.op, a |-> a, b |-> b, x |-> i.extra,
                    result |-> IF trap THEN <<>>
                               ELSE IF i.op \in HiLoOps THEN m'.HiLo
                               ELSE IF i.op \in Immediate THEN <<m'.reg[i.rt]>> ELSE <<m'.reg[3]>>]
        /\ steps' = IF trap THEN limit ELSE steps + 1     \* the kernel gives up
        /\ UNCHANGED limit

\* A page fault of the next instruction, or an interrupt before it.
Interrupted ==
    /\ steps < limit /\ m.LoadReg # 0
    /\ m' = DelayedLoad(m, 0, 0)
    /\ UNCHANGED <<mem, plain, plainMem, steps, limit, last>>

Next == Starts \/ (\E i \in Instructions : Executes(i)) \/ Interrupted

Spec == Init /\ [][Next]_vars

-----------------------------------------------------------------------------
TypeOK == /\ \A s \in {m, plain} : /\ \A r \in 0 .. 3 : s.reg[r] \in Word
                                   /\ s.reg[0] = 0 /\ s.LoadValue \in Word
          /\ mem \in Word

\* Where a program is interrupted changes nothing that it computes: once the
\* load in progress is done, registers, counters and memory are the same.
Restartable == DelayedLoad(m, 0, 0) = DelayedLoad(plain, 0, 0) /\ mem = plainMem

\* The results of the book (Kane): arithmetic on the integers the words
\* stand for, bit by bit logic, shifts as divisions.
Bit(w, i) == (w \div 2 ^ i) % 2
OfBits(f(_)) == LET sum[i \in 0 .. Width] ==
                      IF i = 0 THEN 0 ELSE sum[i - 1] + f(i - 1) * 2 ^ (i - 1)
                IN  sum[Width]
Exactly(n) == IF n \in -Sign .. Sign - 1 THEN <<n % Size>> ELSE <<>>
Pair(n) == <<(n \div Size) % Size, n % Size>>
Book(op, a, b, x) ==
    CASE op = "ADD" -> Exactly(Signed(a) + Signed(b))
      [] op = "ADDI" -> Exactly(Signed(a) + Signed(x))
      [] op = "SUB" -> Exactly(Signed(a) - Signed(b))
      [] op = "MULT" -> Pair(Signed(a) * Signed(b))
      [] op = "MULTU" -> Pair(a * b)
      [] op = "OR" -> <<OfBits(LAMBDA i : Truth(Bit(a, i) = 1 \/ Bit(b, i) = 1))>>
      [] op = "NOR" -> <<OfBits(LAMBDA i : Truth(Bit(a, i) = 0 /\ Bit(b, i) = 0))>>
      [] op = "SRA" -> <<(Signed(b) \div 2 ^ x) % Size>>
      [] op = "SRL" -> <<b \div 2 ^ x>>
      [] op = "SRLV" -> <<b \div 2 ^ amount(a)>>
Booked == {"ADD", "ADDI", "SUB", "MULT", "MULTU", "OR", "NOR", "SRA", "SRL", "SRLV"}

\* Overflow is trapped exactly when there is one, and the product that Mult
\* puts together from shifted words and carries is the product.
ArithmeticExact == last.op \in Booked \ {"OR", "SRL", "SRLV"} =>
                      last.result = Book(last.op, last.a, last.b, last.x)

\* Every instruction does what the book says (mipssim.cc:102).
AsInTheBook == last.op \in Booked => last.result = Book(last.op, last.a, last.b, last.x)

=============================================================================
