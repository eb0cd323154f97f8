-------------------------------- MODULE Y86 --------------------------------
(***************************************************************************)
(* The instruction set as lab6/sim/misc/isa.c defines it: memory, register *)
(* file, ALU, condition codes, and step_state, which executes one          *)
(* instruction.  SEQ and PIPE are linked with this file and, with option   *)
(* -t, judged against its step_state; yis runs nothing else.               *)
(*                                                                         *)
(* A word has WORD bytes (8 in the code, 2 in the runs) and is the number  *)
(* 0 .. Modulus - 1 its bits spell; memory is an array of MEM_SIZE bytes,  *)
(* from which instructions are fetched too.  A register file keeps its 16  *)
(* slots as words.  The lines that print are left out.                     *)
(***************************************************************************)
EXTENDS Integers, FiniteSetsExt

CONSTANTS WORD,       \* bytes in a word: sizeof(word_t), 8 in the code
          MEM_SIZE    \* bytes in memory: 1 << 13 in the code

Modulus == 256 ^ WORD

\* Memory holds a word; every address of it is a word_t that is not negative,
\* and so is the address after its last byte.
ASSUME SizesAssumption ==
  /\ WORD \in Nat \ {0}
  /\ MEM_SIZE \in Nat /\ WORD <= MEM_SIZE
  /\ 2 * MEM_SIZE < Modulus

Byte == 0 .. 255
Word == 0 .. Modulus - 1
Memory == [0 .. MEM_SIZE - 1 -> Byte]

\* isa.h 64-66
I_HALT == 0    I_NOP == 1     I_RRMOVQ == 2  I_IRMOVQ == 3  I_RMMOVQ == 4
I_MRMOVQ == 5  I_ALU == 6     I_JMP == 7     I_CALL == 8    I_RET == 9
I_PUSHQ == 10  I_POPQ == 11   I_IADDQ == 12  I_POP2 == 13

\* isa.h 17-20, 69, 78
REG_RSP == 4
REG_NONE == 15
A_ADD == 0  A_SUB == 1  A_AND == 2  A_XOR == 3
C_YES == 0  C_LE == 1   C_L == 2    C_E == 3    C_NE == 4  C_GE == 5  C_G == 6

HI4(byte) == byte \div 16
LO4(byte) == byte % 16
HPACK(hi, lo) == 16 * hi + lo

Negative(w) == 2 * w >= Modulus
Signed(w) == IF Negative(w) THEN w - Modulus ELSE w
Plus(a, b) == (a + b) % Modulus
Minus(a, b) == (a - b) % Modulus

\* A word_t that gathers the first n parts, one after another, and the digit
\* left of a word_t after i shifts.
WordSum(parts, n) ==
  LET val[i \in 0 .. n] == IF i = 0 THEN 0 ELSE Plus(val[i - 1], parts[i - 1])
  IN  val[n]
Digit(w, base, i) ==
  LET val[k \in 0 .. i] == IF k = 0 THEN w ELSE val[k - 1] \div base
  IN  val[i] % base

----------------------------------------------------------------------------
(* Memory and registers *)

\* A negative word is no address; SizesAssumption keeps pos + 8 from
\* wrapping wherever pos is below MEM_SIZE.
ValidByte(pos) == pos < MEM_SIZE
ValidWord(pos) == pos + WORD <= MEM_SIZE

get_byte_val(m, pos) == m[pos]
get_word_val(m, pos) ==
  WordSum([i \in 0 .. WORD - 1 |-> m[pos + i] * 256 ^ i], WORD)
set_word_val(m, pos, val) ==
  [a \in DOMAIN m |-> IF a \in pos .. pos + WORD - 1
                      THEN Digit(val, 256, a - pos) ELSE m[a]]

RegFile == [0 .. REG_NONE -> Word]
NoRegs == [id \in 0 .. REG_NONE |-> 0]
reg_valid(id) == id < REG_NONE
get_reg_val(r, id) == IF id >= REG_NONE THEN 0 ELSE r[id]
set_reg_val(r, id, val) == IF id < REG_NONE THEN [r EXCEPT ![id] = val] ELSE r

----------------------------------------------------------------------------
(* The ALU *)

Bit(w, i) == Digit(w, 2, i)
BitNumber == 0 .. 8 * WORD - 1
\* The word with these bits.
OfBits(bits) == WordSum([i \in BitNumber |-> bits[i] * 2 ^ i], 8 * WORD)

compute_alu(op, argA, argB) ==
  CASE op = A_ADD -> Plus(argA, argB)
    [] op = A_SUB -> Minus(argB, argA)
    [] op = A_AND -> OfBits([i \in BitNumber |-> Bit(argA, i) * Bit(argB, i)])
    [] op = A_XOR -> OfBits([i \in BitNumber |-> (Bit(argA, i) + Bit(argB, i)) % 2])
    [] OTHER -> 0

CC == [zf : BOOLEAN, sf : BOOLEAN, of : BOOLEAN]
DEFAULT_CC == [zf |-> TRUE, sf |-> FALSE, of |-> FALSE]

compute_cc(op, argA, argB) ==
  LET val == compute_alu(op, argA, argB)
  IN  [zf |-> val = 0,
       sf |-> Negative(val),
       of |-> \/ /\ op = A_ADD
                 /\ Negative(argA) = Negative(argB)
                 /\ Negative(val) # Negative(argA)
              \/ /\ op = A_SUB
                 /\ (Signed(argA) > 0) = Negative(argB)
                 /\ Negative(val) # Negative(argB)]

cond_holds(cc, bcond) ==
  LET less == cc.sf # cc.of
  IN  \/ bcond = C_YES
      \/ bcond = C_LE /\ (less \/ cc.zf)
      \/ bcond = C_L  /\ less
      \/ bcond = C_E  /\ cc.zf
      \/ bcond = C_NE /\ ~cc.zf
      \/ bcond = C_GE /\ ~less
      \/ bcond = C_G  /\ ~less /\ ~cc.zf

----------------------------------------------------------------------------
(* One instruction *)

State == [pc : Word, r : RegFile, m : Memory, cc : CC]
new_state(m) == [pc |-> 0, r |-> NoRegs, m |-> m, cc |-> DEFAULT_CC]

need_regids(icode) ==
  icode \in {I_RRMOVQ, I_ALU, I_PUSHQ, I_POPQ, I_IRMOVQ, I_RMMOVQ, I_MRMOVQ,
             I_IADDQ}
need_imm(icode) ==
  icode \in {I_IRMOVQ, I_RMMOVQ, I_MRMOVQ, I_JMP, I_CALL, I_IADDQ}
instr_valid(icode) == icode \in I_HALT .. I_IADDQ

\* What step_state reads at s.pc, which is a valid address.  ok1 and okc say
\* whether the register byte and the constant could be read.
Fetched(s) ==
  LET byte0 == get_byte_val(s.m, s.pc)
      regs  == s.pc + 1
      const == IF need_regids(HI4(byte0)) THEN regs + 1 ELSE regs
      ok1   == need_regids(HI4(byte0)) => ValidByte(regs)
      okc   == need_imm(HI4(byte0)) => ValidWord(const)
      byte1 == IF need_regids(HI4(byte0)) /\ ok1
               THEN get_byte_val(s.m, regs) ELSE HPACK(REG_NONE, REG_NONE)
  IN  [icode |-> HI4(byte0), ifun |-> LO4(byte0),
       ra |-> HI4(byte1), rb |-> LO4(byte1), ok1 |-> ok1, okc |-> okc,
       cval |-> IF need_imm(HI4(byte0)) /\ okc
                THEN get_word_val(s.m, const) ELSE 0,
       ftpc |-> IF need_imm(HI4(byte0)) THEN const + WORD ELSE const]

\* The registers an instruction must name for step_state to execute it.
RegsNamed(i) ==
  CASE i.icode = I_RRMOVQ -> {i.ra, i.rb}
    [] i.icode \in {I_IRMOVQ, I_IADDQ} -> {i.rb}
    [] i.icode \in {I_RMMOVQ, I_MRMOVQ, I_PUSHQ, I_POPQ} -> {i.ra}
    [] OTHER -> {}

\* Why an instruction is refused before it has any effect; "AOK" if it is not.
Refused(i) ==
  CASE i.icode = I_HALT -> "HLT"
    [] ~instr_valid(i.icode) -> "INS"
    [] ~i.ok1 -> "ADR"
    [] ~i.okc -> IF i.icode \in {I_JMP, I_CALL} THEN "ADR" ELSE "INS"
    [] \E id \in RegsNamed(i) : ~reg_valid(id) -> "INS"
    [] OTHER -> "AOK"

\* The address of the word an instruction reads or writes.
DataAddr(s, i) ==
  CASE i.icode \in {I_RMMOVQ, I_MRMOVQ} -> Plus(i.cval, get_reg_val(s.r, i.rb))
    [] i.icode \in {I_CALL, I_PUSHQ} -> Minus(s.r[REG_RSP], WORD)
    [] i.icode \in {I_RET, I_POPQ} -> s.r[REG_RSP]

UsesData(i) == i.icode \in {I_RMMOVQ, I_MRMOVQ, I_CALL, I_RET, I_PUSHQ, I_POPQ}

\* call, pushq and popq move the stack pointer before they use memory.
StackMoved(s, i) ==
  CASE i.icode \in {I_CALL, I_PUSHQ} ->
         set_reg_val(s.r, REG_RSP, Minus(s.r[REG_RSP], WORD))
    [] i.icode \in {I_RET, I_POPQ} ->
         set_reg_val(s.r, REG_RSP, Plus(s.r[REG_RSP], WORD))
    [] OTHER -> s.r

\* What an instruction does that is not refused and whose data address, if
\* it has one, is valid.  Passed is the state with the
\* fall-through pc and the stack pointer moved.
Passed(s, i) == [s EXCEPT !.pc = i.ftpc, !.r = StackMoved(s, i)]
Writes(s, i, id, val) == [Passed(s, i) EXCEPT !.r = set_reg_val(@, id, val)]
Stores(s, i, val) == [Passed(s, i) EXCEPT !.m = set_word_val(@, DataAddr(s, i), val)]
Loaded(s, i) == get_word_val(s.m, DataAddr(s, i))

Move(s, i) ==
  CASE i.icode = I_RRMOVQ ->
         IF cond_holds(s.cc, i.ifun)
         THEN Writes(s, i, i.rb, get_reg_val(s.r, i.ra)) ELSE Passed(s, i)
    [] i.icode = I_IRMOVQ -> Writes(s, i, i.rb, i.cval)
    [] i.icode = I_RMMOVQ -> Stores(s, i, get_reg_val(s.r, i.ra))
    [] i.icode = I_MRMOVQ -> Writes(s, i, i.ra, Loaded(s, i))

Operated(s, i, op, A) ==
  LET B == get_reg_val(s.r, i.rb)
  IN  [Writes(s, i, i.rb, compute_alu(op, A, B)) EXCEPT
         !.cc = compute_cc(op, A, B)]
Operate(s, i) == Operated(s, i, i.ifun, get_reg_val(s.r, i.ra))
AddConstant(s, i) == Operated(s, i, A_ADD, i.cval)

Transfer(s, i) ==
  CASE i.icode = I_JMP ->
         IF cond_holds(s.cc, i.ifun) THEN [s EXCEPT !.pc = i.cval] ELSE Passed(s, i)
    [] i.icode = I_CALL -> [Stores(s, i, i.ftpc) EXCEPT !.pc = i.cval]
    [] i.icode = I_RET -> [Passed(s, i) EXCEPT !.pc = Loaded(s, i)]

Stack(s, i) ==
  CASE i.icode = I_PUSHQ -> Stores(s, i, get_reg_val(s.r, i.ra))
    [] i.icode = I_POPQ -> Writes(s, i, i.ra, Loaded(s, i))

Effect(s, i) ==
  CASE i.icode = I_NOP -> Passed(s, i)
    [] i.icode \in {I_RRMOVQ, I_IRMOVQ, I_RMMOVQ, I_MRMOVQ} -> Move(s, i)
    [] i.icode = I_ALU -> Operate(s, i)
    [] i.icode = I_IADDQ -> AddConstant(s, i)
    [] i.icode \in {I_JMP, I_CALL, I_RET} -> Transfer(s, i)
    [] i.icode \in {I_PUSHQ, I_POPQ} -> Stack(s, i)

\* step_state: the new state and the status it returns.
step_state(s) ==
  IF ~ValidByte(s.pc) THEN [s |-> s, stat |-> "ADR"]
  ELSE LET i == Fetched(s)
       IN  IF Refused(i) # "AOK" THEN [s |-> s, stat |-> Refused(i)]
           ELSE IF UsesData(i) /\ ~ValidWord(DataAddr(s, i))
           THEN [s |-> IF i.icode = I_RET THEN s
                       ELSE [s EXCEPT !.r = StackMoved(s, i)],
                 stat |-> "ADR"]
           ELSE [s |-> Effect(s, i), stat |-> "AOK"]
=============================================================================
