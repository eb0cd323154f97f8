--------------------------- MODULE LockstepProofs ---------------------------
(***************************************************************************)
(* Theorems about Lockstep: for every program, word size, memory size and  *)
(* limit, PIPE, SEQ and y64sim execute what the reference, step_state,     *)
(* does. The invariant follows the instructions in flight. `Raw(m, pc)` is *)
(* the instruction PIPE fetches at pc; AtM, AtE and AtD are the states of  *)
(* the reference before the instructions in M, E and D, and InM, InE and   *)
(* InD these instructions. Each pipeline register is claimed to hold what  *)
(* its instruction, in its state, gives the signals of the data path; a    *)
(* cycle moves each claim one stage on.                                    *)
(***************************************************************************)
EXTENDS Lockstep, WellFoundedInduction, TLAPS

(***************************************************************************)
(* The words of isa.c, whatever their size: what is read from memory or    *)
(* computed by the ALU is a word, what is written to memory is bytes, and  *)
(* step_state leads from states to states.                                 *)
(***************************************************************************)

(***************************************************************************)
(* Repeated steps.                                                         *)
(***************************************************************************)
LEMMA LeastElement ==
    ASSUME NEW T \in SUBSET Nat, T # {}
    PROVE  \E x \in T : \A y \in T : x <= y
<1>1. \E x \in T : \A y \in T : <<y, x>> \notin OpToRel(<, Nat)
  BY NatLessThanWellFounded, WFMin
<1>2. \A x, y \in Nat : <<y, x>> \notin OpToRel(<, Nat) => x <= y
  BY DEF OpToRel
<1> QED  BY <1>1, <1>2

(* A function on 0 .. n can be defined from its value at 0 and the steps   *)
(* from each number to the next: were there a least n for which it cannot, *)
(* the function for n - 1 could be extended.                               *)
Runs(f, x, g, n) == f[0] = x /\ \A i \in 1 .. n : f[i] = g[i][f[i-1]]

(* And it has values in S.                                                 *)
LEMMA Iterates ==
    ASSUME NEW S, NEW n \in Nat, NEW g \in [1 .. n -> [S -> S]], NEW x \in S
    PROVE  \E f \in [0 .. n -> S] : Runs(f, x, g, n)
<1> USE DEF Runs
<1> DEFINE Has(k) == \E f \in [0 .. k -> S] : Runs(f, x, g, k)
           Bad == {k \in 0 .. n : ~Has(k)}
<1>1. Bad = {}
  <2> SUFFICES ASSUME Bad # {} PROVE FALSE
    OBVIOUS
  <2>1. PICK k \in Bad : \A m \in Bad : k <= m
    <3>1. Bad \in SUBSET Nat
      OBVIOUS
    <3> HIDE DEF Bad
    <3> QED  BY <3>1, LeastElement
  <2>2. Has(0)
    <3> DEFINE f == [i \in 0 .. 0 |-> x]
    <3>1. f \in [0 .. 0 -> S] /\ f[0] = x /\ \A i \in 1 .. 0 : f[i] = g[i][f[i-1]]
      OBVIOUS
    <3> QED  BY <3>1
  <2>3. k \in 1 .. n /\ k - 1 \in 0 .. n
    <3> HIDE DEF Has
    <3> QED  BY <2>1, <2>2
  <2>4. Has(k - 1)
    <3> HIDE DEF Has
    <3> QED  BY <2>1, <2>3
  <2>5. PICK f \in [0 .. k-1 -> S] :
           f[0] = x /\ \A i \in 1 .. k-1 : f[i] = g[i][f[i-1]]
    BY <2>4
  <2> DEFINE h == [i \in 0 .. k |-> IF i = k THEN g[k][f[k-1]] ELSE f[i]]
  <2>6. g[k][f[k-1]] \in S
    BY <2>3, <2>5
  <2>7. h \in [0 .. k -> S] /\ h[0] = x
    BY <2>3, <2>5, <2>6
  <2>8. ASSUME NEW i \in 1 .. k PROVE h[i] = g[i][h[i-1]]
    <3>1. h[i-1] = f[i-1]
      BY <2>3
    <3>2. CASE i = k
      BY <2>3, <3>1, <3>2
    <3>3. CASE i # k
      BY <2>3, <2>5, <3>1, <3>3
    <3> QED  BY <3>2, <3>3
  <2>9. Has(k)
    BY <2>7, <2>8
  <2> QED  BY <2>1, <2>9
<1> QED  BY <1>1

(***************************************************************************)
(* Words and bytes.                                                        *)
(***************************************************************************)
LEMMA ModulusIs ==
    /\ Modulus \in Nat \ {0} /\ 0 \in Word
    /\ WORD \in Word /\ WORD < Modulus
    /\ \A a \in Int : a % Modulus \in Word
<1>1. Modulus \in Int
  BY SizesAssumption DEF Modulus
<1>2. Modulus > 0 /\ WORD < Modulus
  BY <1>1, SizesAssumption
<1> HIDE DEF Modulus
<1> QED  BY <1>1, <1>2, SizesAssumption DEF Word

(* Sums and differences are words.                                         *)
LEMMA PlusMinusType ==
    ASSUME NEW a \in Int, NEW b \in Int
    PROVE  Plus(a, b) \in Word /\ Minus(a, b) \in Word
  BY ModulusIs DEF Plus, Minus

(* What WordSum returns is a word, if its parts are numbers.               *)
LEMMA WordSumType ==
    ASSUME NEW n \in Nat, NEW parts \in [0 .. n-1 -> Int]
    PROVE  WordSum(parts, n) \in Word
<1> DEFINE each == [i \in 1 .. n |-> [w \in Word |-> Plus(w, parts[i-1])]]
           Is(v) == v = [i \in 0 .. n |-> IF i = 0 THEN 0 ELSE Plus(v[i-1], parts[i-1])]
           val == CHOOSE v : Is(v)
<1>1. \A w \in Word : w \in Int
  BY DEF Word
<1>2. each \in [1 .. n -> [Word -> Word]]
  BY <1>1, PlusMinusType
<1>3. PICK f \in [0 .. n -> Word] :
         f[0] = 0 /\ \A i \in 1 .. n : f[i] = each[i][f[i-1]]
  <2> SUFFICES \E f \in [0 .. n -> Word] : Runs(f, 0, each, n)
    BY DEF Runs
  <2>1. 0 \in Word
    BY ModulusIs
  <2> HIDE DEF each
  <2> QED  BY <1>2, <2>1, Iterates, Zenon
<1>4. Is(f)
  <2>1. ASSUME NEW i \in 1 .. n PROVE f[i] = Plus(f[i-1], parts[i-1])
    <3>1. f[i] = each[i][f[i-1]] /\ f[i-1] \in Word
      <4> HIDE DEF each
      <4> QED  BY <1>3
    <3>2. each[i] = [w \in Word |-> Plus(w, parts[i-1])]
      OBVIOUS
    <3> HIDE DEF each
    <3> QED  BY <3>1, <3>2
  <2> QED  BY <1>3, <2>1
<1>5. Is(val)
  <2> HIDE DEF Is
  <2> QED  BY <1>4
<1>6. WordSum(parts, n) = val[n]
  BY DEF WordSum
<1> HIDE DEF val
<1>7. \A i \in 0 .. n : val[i] = IF i = 0 THEN 0 ELSE Plus(val[i-1], parts[i-1])
  BY <1>5
<1> HIDE DEF Is
<1> DEFINE Bad == {i \in 0 .. n : val[i] \notin Word}
<1>8. Bad = {}
  <2> SUFFICES ASSUME Bad # {} PROVE FALSE
    OBVIOUS
  <2>1. PICK k \in Bad : \A m \in Bad : k <= m
    <3>1. Bad \in SUBSET Nat
      OBVIOUS
    <3> HIDE DEF Bad
    <3> QED  BY <3>1, LeastElement
  <2>2. k \in 0 .. n /\ val[k] \notin Word
    BY <2>1
  <2>3. val[0] \in Word
    <3>1. 0 \in 0 .. n
      OBVIOUS
    <3>2. val[0] = 0
      BY <1>7, <3>1
    <3> QED  BY <3>2, ModulusIs
  <2>4. k \in 1 .. n /\ k - 1 \in 0 .. n /\ ~(k <= k - 1)
    BY <2>2, <2>3
  <2>5. val[k-1] \in Int
    BY <1>1, <2>1, <2>4
  <2>6. parts[k-1] \in Int
    BY <2>4
  <2>7. val[k] = Plus(val[k-1], parts[k-1])
    BY <1>7, <2>4
  <2>8. Plus(val[k-1], parts[k-1]) \in Word
    BY <2>5, <2>6, PlusMinusType
  <2> QED  BY <2>2, <2>7, <2>8
<1> QED  BY <1>6, <1>8

(* A digit is one: a byte of a word is a byte, a bit is 0 or 1.            *)
LEMMA DigitType ==
    ASSUME NEW w \in Int, NEW base \in Nat \ {0}, NEW n \in Nat
    PROVE  Digit(w, base, n) \in 0 .. base - 1
<1> DEFINE each == [i \in 1 .. n |-> [x \in Int |-> x \div base]]
           Is(v) == v = [k \in 0 .. n |-> IF k = 0 THEN w ELSE v[k-1] \div base]
           val == CHOOSE v : Is(v)
<1>1. each \in [1 .. n -> [Int -> Int]]
  OBVIOUS
<1>2. PICK f \in [0 .. n -> Int] :
         f[0] = w /\ \A i \in 1 .. n : f[i] = each[i][f[i-1]]
  <2> SUFFICES \E f \in [0 .. n -> Int] : Runs(f, w, each, n)
    BY DEF Runs
  <2> HIDE DEF each
  <2> QED  BY <1>1, Iterates, Zenon
<1>3. Is(f)
  <2>1. ASSUME NEW i \in 1 .. n PROVE f[i] = f[i-1] \div base
    <3>1. f[i] = each[i][f[i-1]] /\ f[i-1] \in Int
      <4> HIDE DEF each
      <4> QED  BY <1>2
    <3>2. each[i] = [x \in Int |-> x \div base]
      OBVIOUS
    <3> HIDE DEF each
    <3> QED  BY <3>1, <3>2
  <2> QED  BY <1>2, <2>1
<1>4. Is(val)
  <2> HIDE DEF Is
  <2> QED  BY <1>3
<1>5. Digit(w, base, n) = val[n] % base
  BY DEF Digit
<1> HIDE DEF val
<1>6. \A i \in 0 .. n : val[i] = IF i = 0 THEN w ELSE val[i-1] \div base
  BY <1>4
<1> HIDE DEF Is
<1> DEFINE Bad == {i \in 0 .. n : val[i] \notin Int}
<1>7. Bad = {}
  <2> SUFFICES ASSUME Bad # {} PROVE FALSE
    OBVIOUS
  <2>1. PICK k \in Bad : \A m \in Bad : k <= m
    <3>1. Bad \in SUBSET Nat
      OBVIOUS
    <3> HIDE DEF Bad
    <3> QED  BY <3>1, LeastElement
  <2>2. k \in 1 .. n
    BY <1>6, <2>1
  <2>3. val[k-1] \in Int
    BY <2>1, <2>2
  <2> QED  BY <1>6, <2>1, <2>2, <2>3
<1> QED  BY <1>5, <1>7

(* The halves of a byte.                                                   *)
LEMMA ByteType == ASSUME NEW b \in Byte PROVE HI4(b) \in 0 .. 15 /\ LO4(b) \in 0 .. 15
  BY DEF Byte, HI4, LO4

(* What is read from memory is a word.                                     *)
LEMMA GetWordType ==
    ASSUME NEW m \in Memory, NEW pos \in Nat, ValidWord(pos)
    PROVE  get_word_val(m, pos) \in Word
<1> DEFINE parts == [i \in 0 .. WORD - 1 |-> m[pos + i] * 256 ^ i]
<1>1. ASSUME NEW i \in 0 .. WORD - 1 PROVE m[pos + i] * 256 ^ i \in Int
  <2>1. pos + i \in 0 .. MEM_SIZE - 1
    BY SizesAssumption DEF ValidWord
  <2>2. m[pos + i] \in Byte
    BY <2>1 DEF Memory
  <2> QED  BY <2>2, SizesAssumption DEF Byte
<1>2. parts \in [0 .. WORD - 1 -> Int]
  BY <1>1
<1> HIDE DEF parts
<1>3. WordSum(parts, WORD) \in Word
  BY <1>2, WordSumType, SizesAssumption
<1> QED  BY <1>3 DEF parts, get_word_val

(* What is written leaves memory memory.                                   *)
LEMMA SetWordType ==
    ASSUME NEW m \in Memory, NEW pos \in Nat, NEW val \in Word
    PROVE  set_word_val(m, pos, val) \in Memory
<1>1. ASSUME NEW a \in 0 .. MEM_SIZE - 1, a \in pos .. pos + WORD - 1
      PROVE  Digit(val, 256, a - pos) \in Byte
  <2>1. a - pos \in Nat /\ val \in Int /\ 256 \in Nat \ {0}
    BY <1>1, SizesAssumption DEF Word
  <2>2. PICK n \in Nat : n = a - pos
    BY <2>1
  <2>3. Digit(val, 256, n) \in 0 .. 256 - 1
    BY <2>1, DigitType
  <2> QED  BY <2>2, <2>3 DEF Byte
<1> QED  BY <1>1 DEF set_word_val, Memory

(* What the ALU computes is a word.                                        *)
LEMMA AluType ==
    ASSUME NEW f, NEW a \in Word, NEW b \in Word
    PROVE  compute_alu(f, a, b) \in Word
<1>0. a \in Int /\ b \in Int /\ 0 \in Word
  BY ModulusIs DEF Word
<1>1. ASSUME NEW bits \in [BitNumber -> Int] PROVE OfBits(bits) \in Word
  <2> DEFINE parts == [i \in BitNumber |-> bits[i] * 2 ^ i]
  <2>1. 8 * WORD \in Nat
    BY SizesAssumption
  <2>2. parts \in [0 .. 8 * WORD - 1 -> Int]
    BY <2>1 DEF BitNumber
  <2> HIDE DEF parts
  <2>3. WordSum(parts, 8 * WORD) \in Word
    BY <2>1, <2>2, WordSumType
  <2> QED  BY <2>3 DEF parts, OfBits
<1>2. ASSUME NEW i \in BitNumber PROVE Bit(a, i) \in Int /\ Bit(b, i) \in Int
  <2>1. i \in Nat /\ 2 \in Nat \ {0}
    BY SizesAssumption DEF BitNumber
  <2>2. Digit(a, 2, i) \in 0 .. 2 - 1 /\ Digit(b, 2, i) \in 0 .. 2 - 1
    BY <1>0, <2>1, DigitType
  <2> QED  BY <2>2 DEF Bit
<1> DEFINE conj == OfBits([i \in BitNumber |-> Bit(a, i) * Bit(b, i)])
           xor == OfBits([i \in BitNumber |-> (Bit(a, i) + Bit(b, i)) % 2])
<1>3. Plus(a, b) \in Word /\ Minus(b, a) \in Word
  BY <1>0, PlusMinusType
<1>4. conj \in Word
  <2>1. [i \in BitNumber |-> Bit(a, i) * Bit(b, i)] \in [BitNumber -> Int]
    BY <1>2
  <2> QED  BY <1>1, <2>1
<1>5. xor \in Word
  <2>1. [i \in BitNumber |-> (Bit(a, i) + Bit(b, i)) % 2] \in [BitNumber -> Int]
    BY <1>2
  <2> QED  BY <1>1, <2>1
<1>6. compute_alu(f, a, b) = CASE f = A_ADD -> Plus(a, b)
                               [] f = A_SUB -> Minus(b, a)
                               [] f = A_AND -> conj
                               [] f = A_XOR -> xor
                               [] OTHER -> 0
  BY DEF compute_alu
<1> HIDE DEF conj, xor
<1> QED  BY <1>0, <1>3, <1>4, <1>5, <1>6 DEF A_ADD, A_SUB, A_AND, A_XOR

(* The flags are flags.                                                    *)
LEMMA ComputeCCType == ASSUME NEW f, NEW a, NEW b PROVE compute_cc(f, a, b) \in CC
<1> DEFINE val == compute_alu(f, a, b)
           of == \/ /\ f = A_ADD
                    /\ Negative(a) = Negative(b)
                    /\ Negative(val) # Negative(a)
                 \/ /\ f = A_SUB
                    /\ (Signed(a) > 0) = Negative(b)
                    /\ Negative(val) # Negative(b)
<1>1. compute_cc(f, a, b) = [zf |-> val = 0, sf |-> Negative(val), of |-> of]
  BY Zenon DEF compute_cc
<1>2. /\ of \in BOOLEAN
      /\ Negative(val) \in BOOLEAN
      /\ (val = 0) \in BOOLEAN
  <2>1. of \in BOOLEAN
    OBVIOUS
  <2>2. Negative(val) \in BOOLEAN
    BY DEF Negative
  <2>3. (val = 0) \in BOOLEAN
    OBVIOUS
  <2> QED  BY <2>1, <2>2, <2>3
<1> HIDE DEF of, val
<1> QED  BY <1>1, <1>2 DEF CC

(***************************************************************************)
(* One instruction: step_state leads from states to states.                *)
(***************************************************************************)
LEMMA RegValType ==
    ASSUME NEW r \in RegFile, NEW id \in 0 .. REG_NONE
    PROVE  get_reg_val(r, id) \in Word
  BY ModulusIs DEF get_reg_val, RegFile, REG_NONE

(* A write to a register leaves a register file.                           *)
LEMMA SetRegType ==
    ASSUME NEW r \in RegFile, NEW id \in 0 .. REG_NONE, NEW val \in Word
    PROVE  set_reg_val(r, id, val) \in RegFile
  BY DEF set_reg_val, RegFile, REG_NONE

(* What step_state fetches has typed fields.                               *)
LEMMA FetchedType ==
    ASSUME NEW s \in State, ValidByte(s.pc)
    PROVE  /\ Fetched(s).icode \in 0 .. 15 /\ Fetched(s).ifun \in 0 .. 15
           /\ Fetched(s).ra \in 0 .. 15 /\ Fetched(s).rb \in 0 .. 15
           /\ Fetched(s).cval \in Word
           /\ Fetched(s).ok1 /\ Fetched(s).okc => Fetched(s).ftpc \in Word
<1> DEFINE byte0 == get_byte_val(s.m, s.pc)
           regs  == s.pc + 1
           const == IF need_regids(HI4(byte0)) THEN regs + 1 ELSE regs
           ok1   == need_regids(HI4(byte0)) => ValidByte(regs)
           okc   == need_imm(HI4(byte0)) => ValidWord(const)
           byte1 == IF need_regids(HI4(byte0)) /\ ok1
                    THEN get_byte_val(s.m, regs) ELSE HPACK(REG_NONE, REG_NONE)
<1>1. s.pc \in Nat /\ s.pc < MEM_SIZE /\ s.m \in Memory
  BY DEF State, Word, ValidByte
<1>2. byte0 \in Byte
  BY <1>1, SizesAssumption DEF get_byte_val, Memory
<1>3. byte1 \in Byte
  <2>1. ValidByte(regs) => get_byte_val(s.m, regs) \in Byte
    BY <1>1, SizesAssumption DEF get_byte_val, Memory, ValidByte
  <2>2. HPACK(REG_NONE, REG_NONE) \in Byte
    BY DEF HPACK, REG_NONE, Byte
  <2>3. need_regids(HI4(byte0)) /\ ok1 => ValidByte(regs)
    OBVIOUS
  <2> HIDE DEF byte0, regs, ok1
  <2> QED  BY <2>1, <2>2, <2>3
<1>4. const \in Nat /\ regs \in Nat
  BY <1>1
<1>5. need_imm(HI4(byte0)) /\ okc => get_word_val(s.m, const) \in Word
  <2> HIDE DEF const, byte0
  <2> QED  BY <1>1, <1>4, GetWordType
<1>6. (IF need_imm(HI4(byte0)) /\ okc THEN get_word_val(s.m, const) ELSE 0) \in Word
  BY <1>5, ModulusIs
<1>7. ok1 /\ okc => (IF need_imm(HI4(byte0)) THEN const + WORD ELSE const) \in Word
  <2> HIDE DEF byte0
  <2> USE SizesAssumption
  <2>1. Modulus \in Nat
    BY ModulusIs
  <2>2. CASE need_imm(HI4(byte0))
    <3>1. okc => const + WORD <= MEM_SIZE
      BY <2>2 DEF ValidWord
    <3> HIDE DEF const
    <3> QED  BY <1>4, <2>1, <2>2, <3>1 DEF Word
  <2>3. CASE ~need_imm(HI4(byte0))
    <3>1. ok1 => const <= MEM_SIZE
      BY <1>1 DEF ValidByte
    <3> HIDE DEF const, ok1
    <3> QED  BY <1>4, <2>1, <2>3, <3>1 DEF Word
  <2> QED  BY <2>2, <2>3
<1>8. Fetched(s) = [icode |-> HI4(byte0), ifun |-> LO4(byte0),
       ra |-> HI4(byte1), rb |-> LO4(byte1), ok1 |-> ok1, okc |-> okc,
       cval |-> IF need_imm(HI4(byte0)) /\ okc
                THEN get_word_val(s.m, const) ELSE 0,
       ftpc |-> IF need_imm(HI4(byte0)) THEN const + WORD ELSE const]
  BY DEF Fetched
<1>9. /\ HI4(byte0) \in 0 .. 15 /\ LO4(byte0) \in 0 .. 15
      /\ HI4(byte1) \in 0 .. 15 /\ LO4(byte1) \in 0 .. 15
  BY <1>2, <1>3, ByteType
<1> HIDE DEF byte0, byte1, const, ok1, okc
<1> QED  BY <1>6, <1>7, <1>8, <1>9

(* What step_state returns is a state, whatever the instruction.           *)
THEOREM StepType == ASSUME NEW s \in State PROVE step_state(s).s \in State
<1> DEFINE i == Fetched(s)
<1> USE DEF I_HALT, I_NOP, I_RRMOVQ, I_IRMOVQ, I_RMMOVQ, I_MRMOVQ, I_ALU,
            I_JMP, I_CALL, I_RET, I_PUSHQ, I_POPQ, I_IADDQ
<1>0. s.pc \in Word /\ s.r \in RegFile /\ s.m \in Memory /\ s.cc \in CC
  BY DEF State
<1>1. ASSUME ValidByte(s.pc), Refused(i) = "AOK"
      PROVE  /\ i.icode \in 0 .. 15 /\ i.ifun \in 0 .. 15
             /\ i.ra \in 0 .. REG_NONE /\ i.rb \in 0 .. REG_NONE
             /\ i.cval \in Word /\ i.ftpc \in Word
  <2>1. i.ok1 /\ i.okc
    BY <1>1 DEF Refused
  <2> QED  BY <1>1, <2>1, FetchedType DEF REG_NONE
<1> HIDE DEF i
<1>2. WORD \in Int /\ 0 \in Word /\ (\A w \in Word : w \in Int)
  BY SizesAssumption, ModulusIs DEF Word
<1>3. s.r[REG_RSP] \in Word
  BY <1>0 DEF RegFile, REG_RSP, REG_NONE
<1>4. Minus(s.r[REG_RSP], WORD) \in Word /\ Plus(s.r[REG_RSP], WORD) \in Word
  BY <1>2, <1>3, PlusMinusType
<1>5. StackMoved(s, i) \in RegFile
  <2>1. REG_RSP \in 0 .. REG_NONE
    BY DEF REG_RSP, REG_NONE
  <2> QED  BY <1>0, <1>4, <2>1, SetRegType DEF StackMoved
<1>6. ASSUME ValidByte(s.pc), Refused(i) = "AOK", ValidWord(DataAddr(s, i)) \/ ~UsesData(i)
      PROVE  Effect(s, i) \in State
  <2>1. Passed(s, i) \in State
    BY <1>0, <1>1, <1>5, <1>6 DEF Passed, State
  <2>2. ASSUME NEW id \in 0 .. REG_NONE, NEW val \in Word PROVE Writes(s, i, id, val) \in State
    BY <2>1, SetRegType DEF Writes, State
  <2>3. get_reg_val(s.r, i.ra) \in Word /\ get_reg_val(s.r, i.rb) \in Word
    BY <1>0, <1>1, <1>6, RegValType
  <2>4. UsesData(i) => DataAddr(s, i) \in Word
    <3>1. Plus(i.cval, get_reg_val(s.r, i.rb)) \in Word
      BY <1>1, <1>2, <1>6, <2>3, PlusMinusType
    <3> QED  BY <1>3, <1>4, <3>1 DEF UsesData, DataAddr
  <2>5. ASSUME UsesData(i), NEW val \in Word PROVE Stores(s, i, val) \in State
    <3>1. DataAddr(s, i) \in Nat
      BY <2>4, <2>5 DEF Word
    <3>2. set_word_val(Passed(s, i).m, DataAddr(s, i), val) \in Memory
      BY <2>1, <3>1, SetWordType DEF State
    <3> QED  BY <2>1, <3>2 DEF Stores, State
  <2>6. UsesData(i) => Loaded(s, i) \in Word
    <3>1. UsesData(i) => DataAddr(s, i) \in Nat
      BY <2>4 DEF Word
    <3> QED  BY <1>0, <1>6, <3>1, GetWordType DEF Loaded
  <2>7. ASSUME NEW fn, NEW A \in Word PROVE Operated(s, i, fn, A) \in State
    <3>1. compute_alu(fn, A, get_reg_val(s.r, i.rb)) \in Word
      BY <2>3, AluType
    <3>2. Writes(s, i, i.rb, compute_alu(fn, A, get_reg_val(s.r, i.rb))) \in State
      BY <1>1, <1>6, <2>2, <3>1
    <3> QED  BY <3>2, ComputeCCType DEF Operated, State
  <2>8. i.icode \in {I_RRMOVQ, I_IRMOVQ, I_RMMOVQ, I_MRMOVQ} => Move(s, i) \in State
    <3>1. i.icode = I_RRMOVQ => Move(s, i) \in State
      BY <1>1, <1>6, <2>1, <2>2, <2>3 DEF Move
    <3>2. i.icode = I_IRMOVQ => Move(s, i) \in State
      BY <1>1, <1>6, <2>2 DEF Move, I_RRMOVQ, I_IRMOVQ
    <3>3. i.icode = I_RMMOVQ => Move(s, i) \in State
      BY <2>3, <2>5 DEF Move, UsesData, I_RRMOVQ, I_IRMOVQ, I_RMMOVQ
    <3>4. i.icode = I_MRMOVQ => Move(s, i) \in State
      BY <1>1, <1>6, <2>2, <2>6 DEF Move, UsesData, I_RRMOVQ, I_IRMOVQ, I_RMMOVQ, I_MRMOVQ
    <3> QED  BY <3>1, <3>2, <3>3, <3>4
  <2>9. i.icode \in {I_JMP, I_CALL, I_RET} => Transfer(s, i) \in State
    <3>1. i.icode = I_JMP => Transfer(s, i) \in State
      BY <1>0, <1>1, <1>6, <2>1 DEF Transfer, State
    <3>2. i.icode = I_CALL => Transfer(s, i) \in State
      <4>1. i.icode = I_CALL => Stores(s, i, i.ftpc) \in State
        BY <1>1, <1>6, <2>5 DEF UsesData
      <4> QED  BY <1>1, <1>6, <4>1 DEF Transfer, State, I_JMP, I_CALL
    <3>3. i.icode = I_RET => Transfer(s, i) \in State
      BY <2>1, <2>6 DEF Transfer, UsesData, State, I_JMP, I_CALL, I_RET
    <3> QED  BY <3>1, <3>2, <3>3
  <2>10. i.icode \in {I_PUSHQ, I_POPQ} => Stack(s, i) \in State
    <3>1. i.icode = I_PUSHQ => Stack(s, i) \in State
      BY <2>3, <2>5 DEF Stack, UsesData
    <3>2. i.icode = I_POPQ => Stack(s, i) \in State
      BY <1>1, <1>6, <2>2, <2>6 DEF Stack, UsesData, I_PUSHQ, I_POPQ
    <3> QED  BY <3>1, <3>2
  <2>11. Operate(s, i) \in State /\ AddConstant(s, i) \in State
    BY <1>1, <1>6, <2>3, <2>7 DEF Operate, AddConstant
  <2>12. i.icode \in I_HALT .. I_IADDQ /\ i.icode # I_HALT
    BY <1>6 DEF Refused, instr_valid
  <2>13. \/ i.icode = I_NOP
         \/ i.icode \in {I_RRMOVQ, I_IRMOVQ, I_RMMOVQ, I_MRMOVQ}
         \/ i.icode = I_ALU
         \/ i.icode = I_IADDQ
         \/ i.icode \in {I_JMP, I_CALL, I_RET}
         \/ i.icode \in {I_PUSHQ, I_POPQ}
    BY <2>12 DEF I_HALT, I_NOP, I_RRMOVQ, I_IRMOVQ, I_RMMOVQ, I_MRMOVQ, I_ALU,
                 I_JMP, I_CALL, I_RET, I_PUSHQ, I_POPQ, I_IADDQ
  <2> QED  BY <2>1, <2>8, <2>9, <2>10, <2>11, <2>13 DEF Effect
<1>7. [s EXCEPT !.r = StackMoved(s, i)] \in State
  BY <1>0, <1>5 DEF State
<1>8. step_state(s) =
        IF ~ValidByte(s.pc) THEN [s |-> s, stat |-> "ADR"]
        ELSE IF Refused(i) # "AOK" THEN [s |-> s, stat |-> Refused(i)]
        ELSE IF UsesData(i) /\ ~ValidWord(DataAddr(s, i))
        THEN [s |-> IF i.icode = I_RET THEN s
                    ELSE [s EXCEPT !.r = StackMoved(s, i)],
              stat |-> "ADR"]
        ELSE [s |-> Effect(s, i), stat |-> "AOK"]
  BY DEF step_state, i
<1> QED  BY <1>6, <1>7, <1>8

(***************************************************************************)
(* The definitions the invariant is made of.                               *)
(***************************************************************************)
\* An instruction as PIPE fetches it at pc.
Raw(m, pc) ==
  LET imem_error == ~ValidByte(pc) \/ ~ValidByte(Plus(pc, LOOKAHEAD))
      instr == IF imem_error THEN HPACK(I_NOP, 0) ELSE get_byte_val(m, pc)
      icode == HI4(instr)
      regs  == Plus(pc, 1)
      const == IF need_regids(icode) THEN Plus(regs, 1) ELSE regs
      ids   == IF need_regids(icode) /\ ValidByte(regs)
               THEN get_byte_val(m, regs) ELSE HPACK(REG_NONE, REG_NONE)
  IN  [icode |-> icode, ifun |-> LO4(instr), rA |-> HI4(ids), rB |-> LO4(ids),
       valC |-> IF need_imm(icode) /\ ValidWord(const)
                THEN get_word_val(m, const) ELSE 0,
       valP |-> IF need_imm(icode) THEN Plus(const, WORD) ELSE const,
       stat |-> IF imem_error THEN "ADR"
                ELSE IF ~instr_valid(icode) THEN "INS"
                ELSE IF icode = I_HALT THEN "HLT" ELSE "AOK",
       pc |-> pc]

(* What the data path makes of instruction i in state s.                   *)
Do(s, i) == Updated(s, Computed(s, i, 0))

(* The registers an instruction needs are registers. (A byte that names    *)
(* REG_NONE where a register is needed is refused by isa.c and not by      *)
(* PIPE.)                                                                  *)
Sane(i) ==
  /\ i.icode \in {I_RRMOVQ, I_RMMOVQ, I_MRMOVQ, I_ALU} => reg_valid(i.rA) /\ reg_valid(i.rB)
  /\ i.icode \in {I_PUSHQ, I_POPQ} => reg_valid(i.rA)
  /\ i.icode \in {I_IRMOVQ, I_IADDQ} => reg_valid(i.rB)

\* The states before the instructions in M, E and D, and before the next one.
AtM == After
InM == Raw(mem, AtM.pc)
AtE == IF M.stat = "BUB" THEN AtM ELSE Do(AtM, InM)
InE == Raw(mem, AtE.pc)
AtD == IF E.stat = "BUB" THEN AtE ELSE Do(AtE, InE)
InD == Raw(mem, AtD.pc)

(* The instructions up to M, and up to E, are sane.                        *)
SaneM == M.stat # "BUB" => Sane(InM)
SaneE == SaneM /\ (E.stat # "BUB" => Sane(InE))

(* What W, M and E hold of the instructions in them.                       *)
MatchW == W.stat # "BUB" =>
  LET i == Raw(isa.m, isa.pc) IN
  /\ WellFormed(isa)
  /\ W.icode = i.icode
  /\ W.valE = seq_valE(isa, i) /\ W.valM = seq_valM(isa, i, 0)
  /\ W.dstE = seq_dstE(isa, i) /\ W.dstM = seq_dstM(i)
  /\ W.pc = isa.pc
  /\ W.stat = IF seq_dmem_error(isa, i) THEN "ADR" ELSE i.stat

MatchM == M.stat # "BUB" =>
  /\ M.icode = InM.icode /\ M.stat = InM.stat /\ M.pc = AtM.pc
  /\ M.Cnd = seq_Cnd(AtM, InM)
  /\ M.dstE = seq_dstE(AtM, InM) /\ M.dstM = seq_dstM(InM)
  /\ Sane(InM) => M.valE = seq_valE(AtM, InM)
  /\ InM.icode \in {I_CALL, I_JMP} => M.valA = InM.valP
  /\ Sane(InM) /\ seq_srcA(InM) # REG_NONE => M.valA = seq_valA(AtM, InM)

MatchE == E.stat # "BUB" =>
  /\ E.icode = InE.icode /\ E.ifun = InE.ifun /\ E.stat = InE.stat
  /\ E.pc = AtE.pc /\ E.valC = InE.valC
  /\ E.dstE = IF InE.icode = I_RRMOVQ THEN InE.rB ELSE seq_dstE(AtE, InE)
  /\ E.dstM = seq_dstM(InE)
  /\ InE.icode \in {I_CALL, I_JMP} => E.valA = InE.valP
  /\ seq_srcA(InE) # REG_NONE => E.valA = seq_valA(AtE, InE)
  /\ seq_srcB(InE) # REG_NONE => E.valB = seq_valB(AtE, InE)

(* The address fetch goes on from.                                         *)
Predicted(i) == IF i.icode \in {I_JMP, I_CALL} THEN i.valC ELSE i.valP

Redirected == Mispredicted \/ Returning

Stats == {"AOK", "BUB"} \cup Excepted

(* The statuses there are, what bubbles hold, and the bubbles behind a     *)
(* mispredicted branch and behind a return.                                *)
Structure ==
  /\ D.stat \in Stats /\ E.stat \in Stats /\ M.stat \in Stats /\ W.stat \in Stats
  /\ D.stat = "BUB" => D.icode = I_NOP
  /\ E.stat = "BUB" => E.icode = I_NOP /\ E.dstE = REG_NONE /\ E.dstM = REG_NONE
  /\ M.stat = "BUB" => M.icode = I_NOP /\ M.dstE = REG_NONE /\ M.dstM = REG_NONE
  /\ W.stat = "BUB" => W.icode = I_NOP /\ W.dstE = REG_NONE /\ W.dstM = REG_NONE
  /\ M.icode = I_JMP /\ ~M.Cnd => D.stat = "BUB" /\ E.stat = "BUB"
  /\ E.icode = I_RET => D.stat = "BUB"
  /\ M.icode = I_RET => D.stat = "BUB" /\ E.stat = "BUB"
  /\ W.icode = I_RET => D.stat = "BUB" /\ E.stat = "BUB" /\ M.stat = "BUB"

(* Behind a failing instruction there is nothing in M, and the flags have  *)
(* not changed.                                                            *)
Stopped ==
  W.stat \in Excepted => M.stat = "BUB" /\ cc = After.cc

\* What the stages have left for the next clock edge.
Wires ==
  /\ next = [F |-> f_predPC, D |-> fetch, E |-> decode, M |-> execute, W |-> memory]
  /\ op = [s \in Stages |-> pipe_cntl(Stall[s], Inject[s])]
  /\ set_cc => cc_in = compute_cc(alufun, aluA, aluB)
  /\ ~set_cc /\ icount <= instr_limit - 2 => cc_in = cc
  /\ store = [write |-> mem_write, addr |-> mem_addr, data |-> M.valA]
\* Before the first one.
Cleared ==
  /\ curr = Bubble /\ next = Bubble /\ op = [s \in Stages |-> "LOAD"]
  /\ store.write = FALSE /\ cc_in = cc
Wired ==
  /\ Cleared \/ Wires
  /\ wb = [dstE |-> W.dstE, valE |-> W.valE, dstM |-> W.dstM, valM |-> W.valM]
  /\ status = Stat
  /\ icount \in Nat

(* What D holds, and where fetch is.                                       *)
MatchD == ~Mispredicted /\ D.stat # "BUB" => D = InD
MatchF == ~Redirected => f_pc = IF D.stat = "BUB" THEN AtD.pc ELSE Predicted(D)

(* How much of it holds how long: the last cycles before the limit write   *)
(* less than the instructions do, and nothing behind a failing instruction *)
(* matters.                                                                *)
ClaimW == lawful => MatchW /\ reg = isa.r
ClaimM == lawful /\ icount <= instr_limit - 1 => mem = AtM.m /\ MatchM /\ Stopped
ClaimE == lawful /\ icount <= instr_limit - 2 /\ W.stat \notin Excepted /\ SaneM =>
             MatchE /\ cc = AtE.cc
ClaimD == lawful /\ icount <= instr_limit - 2 /\ W.stat \notin Excepted /\ SaneE =>
             MatchD /\ MatchF

(***************************************************************************)
(* Words, and the instructions as they are fetched.                        *)
(***************************************************************************)
(* The remainders of a number less than a modulus away from its range.     *)
LEMMA Remainder ==
    ASSUME NEW a \in Int, NEW n \in Nat \ {0}
    PROVE  /\ 0 <= a /\ a < n => a % n = a
           /\ n <= a /\ a < 2 * n => a % n = a - n
           /\ -n <= a /\ a < 0 => a % n = a + n
<1> DEFINE q == a \div n  r == a % n
<1>1. q \in Int /\ r \in 0 .. n - 1 /\ a = (n * q) + r
  OBVIOUS
<1> HIDE DEF q, r
<1>2. 0 <= a /\ a < n => q = 0
  BY <1>1
<1>3. n <= a /\ a < 2 * n => q = 1
  BY <1>1
<1>4. -n <= a /\ a < 0 => q = -1
  BY <1>1
<1> QED  BY <1>1, <1>2, <1>3, <1>4 DEF r

(* The sums of words that the data path forms.                             *)
LEMMA WordArithmetic ==
    ASSUME NEW a \in Word
    PROVE  /\ Plus(a, 0) = a /\ Plus(0, a) = a
           /\ Plus(Minus(0, WORD), a) = Minus(a, WORD)
           /\ Plus(WORD, a) = Plus(a, WORD)
<1>1. Modulus \in Nat \ {0} /\ WORD \in Nat \ {0} /\ WORD < Modulus /\ a \in Nat /\ a < Modulus
  BY ModulusIs, SizesAssumption DEF Word
<1> HIDE DEF Modulus
<1>2. a % Modulus = a
  BY <1>1, Remainder
<1>3. (0 - WORD) % Modulus = Modulus - WORD
  BY <1>1, Remainder
<1>4. ((Modulus - WORD) + a) % Modulus = (a - WORD) % Modulus
  <2>1. CASE a >= WORD
    <3> DEFINE b == (Modulus - WORD) + a
    <3>1. b \in Int /\ Modulus <= b /\ b < 2 * Modulus /\ b - Modulus = a - WORD
      BY <1>1, <2>1
    <3>2. a - WORD \in Int /\ 0 <= a - WORD /\ a - WORD < Modulus
      BY <1>1, <2>1
    <3>3. (a - WORD) % Modulus = a - WORD
      BY <1>1, <3>2, Remainder
    <3> HIDE DEF b
    <3>4. b % Modulus = b - Modulus
      BY <1>1, <3>1, Remainder
    <3> QED  BY <3>1, <3>3, <3>4 DEF b
  <2>2. CASE a < WORD
    <3> DEFINE b == (Modulus - WORD) + a
    <3>1. b \in Int /\ 0 <= b /\ b < Modulus /\ b = (a - WORD) + Modulus
      BY <1>1, <2>2
    <3>2. a - WORD \in Int /\ -Modulus <= a - WORD /\ a - WORD < 0
      BY <1>1, <2>2
    <3>3. (a - WORD) % Modulus = (a - WORD) + Modulus
      BY <1>1, <3>2, Remainder
    <3> HIDE DEF b
    <3>4. b % Modulus = b
      BY <1>1, <3>1, Remainder
    <3> QED  BY <3>1, <3>3, <3>4 DEF b
  <2> QED  BY <1>1, <2>1, <2>2
<1>5. a + 0 = a /\ 0 + a = a /\ WORD + a = a + WORD
  BY <1>1
<1> QED  BY <1>2, <1>3, <1>4, <1>5 DEF Plus, Minus

(***************************************************************************)
(* Instructions as SEQ and PIPE fetch them.                                *)
(***************************************************************************)
Typed(i) ==
  /\ i.icode \in 0 .. 15 /\ i.ifun \in 0 .. 15
  /\ i.rA \in 0 .. REG_NONE /\ i.rB \in 0 .. REG_NONE
  /\ i.valC \in Word /\ i.valP \in Word

Agrees(i, f) ==
  /\ i.icode = f.icode /\ i.ifun = f.ifun /\ i.rA = f.ra /\ i.rB = f.rb
  /\ i.valC = f.cval /\ i.valP = f.ftpc

(* The fields of an instruction, from whatever bytes, are of their types.  *)
LEMMA FieldsTyped ==
    ASSUME NEW m \in Memory, NEW pc \in Word, NEW instr \in Byte,
           NEW regids \in BOOLEAN, NEW imm \in BOOLEAN
    PROVE  LET regs  == Plus(pc, 1)
               const == IF regids THEN Plus(regs, 1) ELSE regs
               ids   == IF regids /\ ValidByte(regs)
                        THEN get_byte_val(m, regs) ELSE HPACK(REG_NONE, REG_NONE)
           IN  /\ HI4(instr) \in 0 .. 15 /\ LO4(instr) \in 0 .. 15
               /\ HI4(ids) \in 0 .. REG_NONE /\ LO4(ids) \in 0 .. REG_NONE
               /\ (IF imm /\ ValidWord(const)
                   THEN get_word_val(m, const) ELSE 0) \in Word
               /\ (IF imm THEN Plus(const, WORD) ELSE const) \in Word
<1> DEFINE regs  == Plus(pc, 1)
           const == IF regids THEN Plus(regs, 1) ELSE regs
           ids   == IF regids /\ ValidByte(regs)
                    THEN get_byte_val(m, regs) ELSE HPACK(REG_NONE, REG_NONE)
<1>1. \A w \in Word : w \in Nat /\ w \in Int
  BY DEF Word
<1>2. regs \in Word
  BY <1>1, PlusMinusType
<1>3. const \in Word
  BY <1>1, <1>2, PlusMinusType
<1>4. ids \in Byte
  <2>1. ValidByte(regs) => get_byte_val(m, regs) \in Byte
    BY <1>1, <1>2, SizesAssumption DEF get_byte_val, Memory, ValidByte
  <2>2. HPACK(REG_NONE, REG_NONE) \in Byte
    BY DEF HPACK, REG_NONE, Byte
  <2> QED  BY <2>1, <2>2
<1>5. ValidWord(const) => get_word_val(m, const) \in Word
  BY <1>1, <1>3, GetWordType
<1>6. Plus(const, WORD) \in Word /\ 0 \in Word
  <2>1. const \in Int /\ WORD \in Int
    BY <1>1, <1>3, SizesAssumption
  <2> QED  BY <2>1, PlusMinusType, ModulusIs
<1> HIDE DEF const, ids, regs
<1>7. (IF imm /\ ValidWord(const) THEN get_word_val(m, const) ELSE 0) \in Word
  BY <1>5, <1>6
<1>8. (IF imm THEN Plus(const, WORD) ELSE const) \in Word
  BY <1>3, <1>6
<1>9. HI4(ids) \in 0 .. REG_NONE /\ LO4(ids) \in 0 .. REG_NONE
  BY <1>4, ByteType DEF REG_NONE
<1> QED  BY <1>7, <1>8, <1>9, ByteType DEF regs, const, ids

(* The byte an instruction starts with.                                    *)
LEMMA InstrByte ==
    ASSUME NEW m \in Memory, NEW pc \in Word
    PROVE  /\ ValidByte(pc) => get_byte_val(m, pc) \in Byte
           /\ HPACK(I_NOP, 0) \in Byte
  BY SizesAssumption DEF get_byte_val, Memory, ValidByte, Word, HPACK, I_NOP, Byte

(* Whatever PIPE fetches is an instruction of typed fields.                *)
LEMMA RawType ==
    ASSUME NEW m \in Memory, NEW pc \in Word
    PROVE  Typed(Raw(m, pc)) /\ Raw(m, pc).pc = pc
<1> DEFINE imem_error == ~ValidByte(pc) \/ ~ValidByte(Plus(pc, LOOKAHEAD))
           instr == IF imem_error THEN HPACK(I_NOP, 0) ELSE get_byte_val(m, pc)
           icode == HI4(instr)
           regs  == Plus(pc, 1)
           const == IF need_regids(icode) THEN Plus(regs, 1) ELSE regs
           ids   == IF need_regids(icode) /\ ValidByte(regs)
                    THEN get_byte_val(m, regs) ELSE HPACK(REG_NONE, REG_NONE)
<1>1. instr \in Byte
  BY InstrByte
<1>2. need_regids(icode) \in BOOLEAN /\ need_imm(icode) \in BOOLEAN
  BY DEF need_regids, need_imm
<1>3. /\ Raw(m, pc).icode = icode /\ Raw(m, pc).ifun = LO4(instr)
      /\ Raw(m, pc).rA = HI4(ids) /\ Raw(m, pc).rB = LO4(ids)
      /\ Raw(m, pc).valC = IF need_imm(icode) /\ ValidWord(const)
                           THEN get_word_val(m, const) ELSE 0
      /\ Raw(m, pc).valP = IF need_imm(icode) THEN Plus(const, WORD) ELSE const
      /\ Raw(m, pc).pc = pc
  BY DEF Raw
<1> HIDE DEF instr
<1> QED  BY <1>1, <1>2, <1>3, FieldsTyped DEF Typed

(* So is whatever SEQ fetches.                                             *)
LEMMA SeqFetchType == ASSUME NEW s \in State PROVE Typed(seq_fetch(s))
<1> DEFINE m == s.m
           pc == s.pc
           instr == IF ~ValidByte(pc) THEN HPACK(I_NOP, 0) ELSE get_byte_val(m, pc)
           icode == HI4(instr)
           regs  == Plus(pc, 1)
           const == IF need_regids(icode) THEN Plus(regs, 1) ELSE regs
           ids   == IF need_regids(icode) /\ ValidByte(regs)
                    THEN get_byte_val(m, regs) ELSE HPACK(REG_NONE, REG_NONE)
<1>0. m \in Memory /\ pc \in Word
  BY DEF State
<1>1. instr \in Byte
  BY <1>0, InstrByte
<1>2. need_regids(icode) \in BOOLEAN /\ need_imm(icode) \in BOOLEAN
  BY DEF need_regids, need_imm
<1>3. /\ seq_fetch(s).icode = icode /\ seq_fetch(s).ifun = LO4(instr)
      /\ seq_fetch(s).rA = HI4(ids) /\ seq_fetch(s).rB = LO4(ids)
      /\ seq_fetch(s).valC = IF need_imm(icode) /\ ValidWord(const)
                             THEN get_word_val(m, const) ELSE 0
      /\ seq_fetch(s).valP = IF need_imm(icode) THEN Plus(const, WORD) ELSE const
  BY DEF seq_fetch
<1> HIDE DEF instr, m, pc
<1> QED  BY <1>0, <1>1, <1>2, <1>3, FieldsTyped DEF Typed

(* Far enough from the end of memory all of them fetch the same.           *)
LEMMA FetchAgrees ==
    ASSUME NEW s \in State, s.pc + 2 + WORD <= MEM_SIZE
    PROVE  /\ Agrees(seq_fetch(s), Fetched(s)) /\ ~seq_fetch(s).imem_error
           /\ ValidByte(s.pc) /\ Fetched(s).ok1 /\ Fetched(s).okc
           /\ s.pc + LOOKAHEAD < MEM_SIZE =>
                 /\ Agrees(Raw(s.m, s.pc), Fetched(s))
                 /\ Raw(s.m, s.pc).stat =
                      IF ~instr_valid(Fetched(s).icode) THEN "INS"
                      ELSE IF Fetched(s).icode = I_HALT THEN "HLT" ELSE "AOK"
<1> DEFINE m == s.m
           pc == s.pc
           instr == get_byte_val(m, pc)
           icode == HI4(instr)
           regs  == pc + 1
           const == IF need_regids(icode) THEN regs + 1 ELSE regs
           ids   == IF need_regids(icode)
                    THEN get_byte_val(m, regs) ELSE HPACK(REG_NONE, REG_NONE)
           f == [icode |-> HI4(instr), ifun |-> LO4(instr),
                 rA |-> HI4(ids), rB |-> LO4(ids),
                 valC |-> IF need_imm(icode) THEN get_word_val(m, const) ELSE 0,
                 valP |-> IF need_imm(icode) THEN const + WORD ELSE const]
<1>0. pc \in Nat /\ pc + 2 + WORD <= MEM_SIZE /\ WORD \in Nat \ {0} /\ MEM_SIZE \in Nat
  BY SizesAssumption DEF State, Word
<1>1. ASSUME NEW a \in Nat, a <= 2 * MEM_SIZE PROVE a % Modulus = a
  <2>1. Modulus \in Nat \ {0} /\ 2 * MEM_SIZE < Modulus
    BY SizesAssumption, ModulusIs
  <2> HIDE DEF Modulus
  <2>2. a \in Int /\ 0 <= a /\ a < Modulus
    BY <1>0, <1>1, <2>1
  <2> QED  BY <2>1, <2>2, Remainder
<1>2. /\ Plus(pc, 1) = regs /\ Plus(regs, 1) = regs + 1
      /\ Plus(const, WORD) = const + WORD
  BY <1>0, <1>1 DEF Plus
<1>3. ValidByte(pc) /\ ValidByte(regs) /\ ValidWord(const)
  BY <1>0 DEF ValidByte, ValidWord
<1> HIDE DEF m, pc
<1>4. Agrees(f, Fetched(s)) /\ Fetched(s).ok1 /\ Fetched(s).okc
  <2> HIDE DEF instr
  <2>1. s.pc = pc /\ s.m = m
    BY DEF m, pc
  <2> QED  BY <1>3, <2>1 DEF Fetched, Agrees, instr
<1>5. /\ seq_fetch(s).icode = f.icode /\ seq_fetch(s).ifun = f.ifun
      /\ seq_fetch(s).rA = f.rA /\ seq_fetch(s).rB = f.rB
      /\ seq_fetch(s).valC = f.valC /\ seq_fetch(s).valP = f.valP
      /\ ~seq_fetch(s).imem_error
  <2>1. s.pc = pc /\ s.m = m
    BY DEF m, pc
  <2> QED  BY <1>2, <1>3, <2>1 DEF seq_fetch
<1>6. ASSUME pc + LOOKAHEAD < MEM_SIZE
      PROVE  /\ Raw(m, pc).icode = f.icode /\ Raw(m, pc).ifun = f.ifun
             /\ Raw(m, pc).rA = f.rA /\ Raw(m, pc).rB = f.rB
             /\ Raw(m, pc).valC = f.valC /\ Raw(m, pc).valP = f.valP
             /\ Raw(m, pc).stat = IF ~instr_valid(f.icode) THEN "INS"
                                  ELSE IF f.icode = I_HALT THEN "HLT" ELSE "AOK"
  <2>1. ValidByte(Plus(pc, LOOKAHEAD))
    BY <1>0, <1>1, <1>6, PipeAssumption DEF Plus, ValidByte
  <2> QED  BY <1>2, <1>3, <2>1 DEF Raw
<1> HIDE DEF f
<1> QED  BY <1>3, <1>4, <1>5, <1>6 DEF Agrees, m, pc

(***************************************************************************)
(* What an instruction computes is typed, and so is the state it leaves.   *)
(***************************************************************************)
LEMMA SignalsType ==
    ASSUME NEW s \in State, NEW i, Typed(i), NEW last \in Word
    PROVE  /\ seq_srcA(i) \in 0 .. REG_NONE /\ seq_srcB(i) \in 0 .. REG_NONE
           /\ seq_dstE(s, i) \in 0 .. REG_NONE /\ seq_dstM(i) \in 0 .. REG_NONE
           /\ seq_valA(s, i) \in Word /\ seq_valB(s, i) \in Word
           /\ seq_aluA(s, i) \in Word /\ seq_aluB(s, i) \in Word
           /\ seq_valE(s, i) \in Word /\ seq_cc(s, i) \in CC
           /\ seq_addr(s, i) \in Word /\ seq_data(s, i) \in Word
           /\ seq_valM(s, i, last) \in Word /\ seq_pc(s, i, last) \in Word
<1>0. /\ s.pc \in Word /\ s.r \in RegFile /\ s.m \in Memory /\ s.cc \in CC
      /\ i.rA \in 0 .. REG_NONE /\ i.rB \in 0 .. REG_NONE
      /\ i.valC \in Word /\ i.valP \in Word
      /\ REG_RSP \in 0 .. REG_NONE /\ REG_NONE \in 0 .. REG_NONE
  BY DEF State, Typed, REG_RSP, REG_NONE
<1>1. seq_srcA(i) \in 0 .. REG_NONE
  BY <1>0 DEF seq_srcA
<1>2. seq_srcB(i) \in 0 .. REG_NONE
  BY <1>0 DEF seq_srcB
<1>3. seq_dstE(s, i) \in 0 .. REG_NONE
  BY <1>0 DEF seq_dstE
<1>4. seq_dstM(i) \in 0 .. REG_NONE
  BY <1>0 DEF seq_dstM
<1>5. seq_valA(s, i) \in Word
  BY <1>0, <1>1, RegValType DEF seq_valA
<1>6. seq_valB(s, i) \in Word
  BY <1>0, <1>2, RegValType DEF seq_valB
<1>7. Minus(0, WORD) \in Word /\ WORD \in Word /\ 0 \in Word
  BY ModulusIs, PlusMinusType, SizesAssumption
<1>8. seq_aluA(s, i) \in Word
  BY <1>0, <1>5, <1>7 DEF seq_aluA
<1>9. seq_aluB(s, i) \in Word
  BY <1>6, <1>7 DEF seq_aluB
<1>10. seq_valE(s, i) \in Word
  BY <1>8, <1>9, AluType DEF seq_valE
<1>11. seq_cc(s, i) \in CC
  BY <1>0, ComputeCCType DEF seq_cc
<1>12. seq_addr(s, i) \in Word
  BY <1>5, <1>7, <1>10 DEF seq_addr
<1>13. seq_data(s, i) \in Word
  BY <1>0, <1>5 DEF seq_data
<1>14. seq_valM(s, i, last) \in Word
  <2>1. seq_addr(s, i) \in Nat
    BY <1>12 DEF Word
  <2>2. ValidWord(seq_addr(s, i)) => get_word_val(s.m, seq_addr(s, i)) \in Word
    BY <1>0, <2>1, GetWordType
  <2> QED  BY <1>7, <2>2 DEF seq_valM, seq_dmem_error
<1>15. seq_pc(s, i, last) \in Word
  BY <1>0, <1>14 DEF seq_pc
<1> QED  BY <1>1, <1>2, <1>3, <1>4, <1>5, <1>6, <1>8, <1>9, <1>10, <1>11,
            <1>12, <1>13, <1>14, <1>15

(* What SEQ does leads from states to states.                              *)
LEMMA UpdatedType ==
    ASSUME NEW s \in State, NEW i, Typed(i), NEW last \in Word
    PROVE  Updated(s, Computed(s, i, last)) \in State
<1> DEFINE u == Updated(s, Computed(s, i, last))
           r1 == set_reg_val(s.r, seq_dstE(s, i), seq_valE(s, i))
           r2 == set_reg_val(r1, seq_dstM(i), seq_valM(s, i, last))
           m1 == IF seq_write(i) /\ ValidWord(seq_addr(s, i))
                 THEN set_word_val(s.m, seq_addr(s, i), seq_data(s, i)) ELSE s.m
<1>1. u = [pc |-> seq_pc(s, i, last), cc |-> seq_cc(s, i), r |-> r2, m |-> m1]
  BY DEF Updated, Computed
<1>2. s.r \in RegFile /\ s.m \in Memory
  BY DEF State
<1>3. r1 \in RegFile
  BY <1>2, SignalsType, SetRegType
<1>4. r2 \in RegFile
  <2> HIDE DEF r1
  <2> QED  BY <1>3, SignalsType, SetRegType
<1>5. m1 \in Memory
  <2>1. seq_addr(s, i) \in Nat /\ seq_data(s, i) \in Word
    BY SignalsType DEF Word
  <2> QED  BY <1>2, <2>1, SetWordType
<1>6. seq_pc(s, i, last) \in Word /\ seq_cc(s, i) \in CC
  BY SignalsType
<1> HIDE DEF r2, m1
<1> QED  BY <1>1, <1>4, <1>5, <1>6 DEF State

(* So does an instruction on its way through PIPE.                         *)
LEMMA DoType ==
    ASSUME NEW s \in State, NEW i, Typed(i)
    PROVE  Do(s, i) \in State
  BY UpdatedType, ModulusIs DEF Do

(***************************************************************************)
(* One instruction: the data path and step_state.                          *)
(***************************************************************************)
(* A well-formed instruction lies in memory as a whole, names the          *)
(* registers it needs, and is refused only as halt or as no instruction.   *)
LEMMA WellFormedFetch ==
    ASSUME NEW s \in State, WellFormed(s)
    PROVE  /\ s.pc + 2 + WORD <= MEM_SIZE /\ s.pc + LOOKAHEAD < MEM_SIZE
           /\ \A i : Agrees(i, Fetched(s)) => Sane(i)
           /\ instr_valid(Fetched(s).icode) => Refused(Fetched(s)) =
                IF Fetched(s).icode = I_HALT THEN "HLT" ELSE "AOK"
           /\ ~instr_valid(Fetched(s).icode) => Refused(Fetched(s)) = "INS"
<1> USE DEF I_HALT, I_NOP, I_RRMOVQ, I_IRMOVQ, I_RMMOVQ, I_MRMOVQ, I_ALU,
            I_JMP, I_CALL, I_RET, I_PUSHQ, I_POPQ, I_IADDQ
<1> DEFINE f == Fetched(s)
<1>1. /\ s.pc + 2 + WORD <= MEM_SIZE /\ s.pc + LOOKAHEAD < MEM_SIZE
      /\ f.icode \in I_HALT .. I_POPQ => RegsFit(f)
      /\ f.icode = I_IADDQ => reg_valid(f.rb)
  BY DEF WellFormed
<1>2. ValidByte(s.pc) /\ f.ok1 /\ f.okc
  BY <1>1, FetchAgrees
<1>3. f.icode \in 0 .. 15
  BY <1>2, FetchedType
<1> HIDE DEF f
<1>4. f.icode \in {I_RRMOVQ, I_RMMOVQ, I_MRMOVQ, I_ALU} => reg_valid(f.ra) /\ reg_valid(f.rb)
  BY <1>1 DEF RegsFit
<1>5. f.icode \in {I_PUSHQ, I_POPQ} => reg_valid(f.ra)
  BY <1>1 DEF RegsFit
<1>6. f.icode \in {I_IRMOVQ, I_IADDQ} => reg_valid(f.rb)
  BY <1>1 DEF RegsFit
<1>7. ASSUME NEW i, Agrees(i, f) PROVE Sane(i)
  BY <1>4, <1>5, <1>6, <1>7 DEF Sane, Agrees
<1>8. \A id \in RegsNamed(f) : reg_valid(id)
  BY <1>4, <1>5, <1>6 DEF RegsNamed
<1>9. Refused(f) = CASE f.icode = I_HALT -> "HLT"
                     [] ~instr_valid(f.icode) -> "INS"
                     [] OTHER -> "AOK"
  BY <1>2, <1>8 DEF Refused, instr_valid
<1>10. instr_valid(I_HALT)
  BY DEF instr_valid
<1> QED  BY <1>1, <1>7, <1>9, <1>10 DEF f

(***************************************************************************)
(* An instruction that fits, done the way of the HCL, is what step_state   *)
(* does.                                                                   *)
(***************************************************************************)
LEMMA EffectFields ==
    ASSUME NEW s \in State, NEW f
    PROVE  /\ Passed(s, f) = [pc |-> f.ftpc, r |-> StackMoved(s, f), m |-> s.m, cc |-> s.cc]
           /\ \A id, val : Writes(s, f, id, val) =
                [pc |-> f.ftpc, r |-> set_reg_val(StackMoved(s, f), id, val),
                 m |-> s.m, cc |-> s.cc]
           /\ \A val : Stores(s, f, val) =
                [pc |-> f.ftpc, r |-> StackMoved(s, f),
                 m |-> set_word_val(s.m, DataAddr(s, f), val), cc |-> s.cc]
           /\ \A g, A : Operated(s, f, g, A) =
                [pc |-> f.ftpc,
                 r |-> set_reg_val(StackMoved(s, f), f.rb,
                                   compute_alu(g, A, get_reg_val(s.r, f.rb))),
                 m |-> s.m, cc |-> compute_cc(g, A, get_reg_val(s.r, f.rb))]
<1>1. Passed(s, f) = [pc |-> f.ftpc, r |-> StackMoved(s, f), m |-> s.m, cc |-> s.cc]
  <2>1. s = [pc |-> s.pc, r |-> s.r, m |-> s.m, cc |-> s.cc]
    BY DEF State
  <2>2. [s EXCEPT !.pc = f.ftpc] = [pc |-> f.ftpc, r |-> s.r, m |-> s.m, cc |-> s.cc]
    BY <2>1
  <2> DEFINE t == [s EXCEPT !.pc = f.ftpc]
  <2>3. Passed(s, f) = [t EXCEPT !.r = StackMoved(s, f)]
    BY DEF Passed
  <2> HIDE DEF t
  <2> QED  BY <2>2, <2>3 DEF t
<1>2. ASSUME NEW id, NEW val
      PROVE  Writes(s, f, id, val) =
                [pc |-> f.ftpc, r |-> set_reg_val(StackMoved(s, f), id, val),
                 m |-> s.m, cc |-> s.cc]
  BY <1>1 DEF Writes
<1>3. ASSUME NEW val
      PROVE  Stores(s, f, val) =
                [pc |-> f.ftpc, r |-> StackMoved(s, f),
                 m |-> set_word_val(s.m, DataAddr(s, f), val), cc |-> s.cc]
  BY <1>1 DEF Stores
<1>4. ASSUME NEW g, NEW A
      PROVE  Operated(s, f, g, A) =
                [pc |-> f.ftpc,
                 r |-> set_reg_val(StackMoved(s, f), f.rb,
                                   compute_alu(g, A, get_reg_val(s.r, f.rb))),
                 m |-> s.m, cc |-> compute_cc(g, A, get_reg_val(s.r, f.rb))]
  BY <1>2 DEF Operated
<1> QED  BY <1>1, <1>2, <1>3, <1>4

(* What the data path computes and writes, its last write to a register    *)
(* winning, is the effect isa.c gives the instruction.                     *)
LEMMA EffectIsDo ==
    ASSUME NEW s \in State, NEW i, NEW f, NEW last, Typed(i), Agrees(i, f),
           instr_valid(i.icode), i.icode # I_HALT,
           ~seq_dmem_error(s, i)
    PROVE  Effect(s, f) = Updated(s, Computed(s, i, last))
<1> USE DEF I_HALT, I_NOP, I_RRMOVQ, I_IRMOVQ, I_RMMOVQ, I_MRMOVQ, I_ALU,
            I_JMP, I_CALL, I_RET, I_PUSHQ, I_POPQ, I_IADDQ
<1> DEFINE A == get_reg_val(s.r, i.rA)
           B == get_reg_val(s.r, i.rB)
           sp == s.r[REG_RSP]
<1>1. /\ f.icode = i.icode /\ f.ifun = i.ifun /\ f.ra = i.rA /\ f.rb = i.rB
      /\ f.cval = i.valC /\ f.ftpc = i.valP
  BY DEF Agrees
<1>2. /\ A \in Word /\ B \in Word /\ sp \in Word /\ i.valC \in Word
      /\ get_reg_val(s.r, REG_RSP) = sp
  BY RegValType DEF State, Typed, RegFile, REG_RSP, REG_NONE, get_reg_val
<1>3. \A r, val : set_reg_val(r, REG_NONE, val) = r
  BY DEF set_reg_val, REG_NONE
<1>4. Updated(s, Computed(s, i, last)) =
        [pc |-> seq_pc(s, i, last), cc |-> seq_cc(s, i),
         r |-> set_reg_val(set_reg_val(s.r, seq_dstE(s, i), seq_valE(s, i)),
                           seq_dstM(i), seq_valM(s, i, last)),
         m |-> IF seq_write(i) /\ ValidWord(seq_addr(s, i))
               THEN set_word_val(s.m, seq_addr(s, i), seq_data(s, i)) ELSE s.m]
  BY DEF Updated, Computed
<1>5. \A a \in Word : /\ compute_alu(A_ADD, a, 0) = a /\ compute_alu(A_ADD, 0, a) = a
                      /\ compute_alu(A_ADD, Minus(0, WORD), a) = Minus(a, WORD)
                      /\ compute_alu(A_ADD, WORD, a) = Plus(a, WORD)
                      /\ \A b : compute_alu(A_ADD, a, b) = Plus(a, b)
  <2>1. \A a, b : compute_alu(A_ADD, a, b) = Plus(a, b)
    BY DEF compute_alu, A_ADD, A_SUB, A_AND, A_XOR
  <2> QED  BY <2>1, WordArithmetic
<1> HIDE DEF A, B, sp
<1>6. CASE i.icode \in {I_NOP, I_JMP}
  <2>1. seq_cc(s, i) = s.cc /\ seq_dstE(s, i) = REG_NONE /\ seq_dstM(i) = REG_NONE /\ ~seq_write(i)
    BY <1>6 DEF seq_cc, seq_dstE, seq_dstM, seq_write, seq_stack
  <2>2. StackMoved(s, f) = s.r
    BY <1>1, <1>6 DEF StackMoved
  <2>3. Effect(s, f) = [pc |-> seq_pc(s, i, last), r |-> s.r, m |-> s.m, cc |-> s.cc]
    <3>1. CASE i.icode = I_NOP
      BY <1>1, <2>2, <3>1, EffectFields DEF Effect, seq_pc
    <3>2. CASE i.icode = I_JMP
      <4>1. [s EXCEPT !.pc = i.valC] = [pc |-> i.valC, r |-> s.r, m |-> s.m, cc |-> s.cc]
        BY DEF State
      <4>2. Passed(s, f) = [pc |-> i.valP, r |-> s.r, m |-> s.m, cc |-> s.cc]
        BY <1>1, <2>2, EffectFields
      <4> QED  BY <1>1, <3>2, <4>1, <4>2 DEF Effect, Transfer, seq_pc, seq_Cnd
    <3> QED  BY <1>6, <3>1, <3>2
  <2> QED  BY <1>3, <1>4, <2>1, <2>3
<1>7. CASE i.icode \in {I_RRMOVQ, I_IRMOVQ}
  <2>1. /\ seq_cc(s, i) = s.cc /\ seq_dstM(i) = REG_NONE /\ ~seq_write(i)
        /\ seq_pc(s, i, last) = i.valP
    BY <1>7 DEF seq_cc, seq_dstM, seq_write, seq_pc
  <2>2. StackMoved(s, f) = s.r
    BY <1>1, <1>7 DEF StackMoved
  <2>3. seq_valE(s, i) = IF i.icode = I_RRMOVQ THEN A ELSE i.valC
    BY <1>2, <1>5, <1>7
       DEF seq_valE, seq_aluA, seq_aluB, seq_alufun, seq_valA, seq_srcA, seq_stack, A
  <2>4. seq_dstE(s, i) = IF i.icode = I_IRMOVQ \/ cond_holds(s.cc, i.ifun) THEN i.rB ELSE REG_NONE
    BY <1>7 DEF seq_dstE, seq_Cnd, seq_stack
  <2>5. Effect(s, f) = [pc |-> i.valP, r |-> set_reg_val(s.r, seq_dstE(s, i), seq_valE(s, i)),
                        m |-> s.m, cc |-> s.cc]
    <3>1. Effect(s, f) = Move(s, f)
      BY <1>1, <1>7 DEF Effect
    <3>2. CASE i.icode = I_RRMOVQ
      BY <1>1, <1>3, <2>2, <2>3, <2>4, <3>1, <3>2, EffectFields DEF Move, A
    <3>3. CASE i.icode = I_IRMOVQ
      BY <1>1, <2>2, <2>3, <2>4, <3>1, <3>3, EffectFields DEF Move
    <3> QED  BY <1>7, <3>2, <3>3
  <2> QED  BY <1>3, <1>4, <2>1, <2>5
<1>8. CASE i.icode \in {I_ALU, I_IADDQ}
  <2> DEFINE g == IF i.icode = I_ALU THEN i.ifun ELSE A_ADD
             a == IF i.icode = I_ALU THEN A ELSE i.valC
  <2>1. /\ seq_dstM(i) = REG_NONE /\ ~seq_write(i) /\ seq_pc(s, i, last) = i.valP
        /\ seq_dstE(s, i) = i.rB
    BY <1>8 DEF seq_dstM, seq_write, seq_pc, seq_dstE, seq_stack
  <2>2. StackMoved(s, f) = s.r
    BY <1>1, <1>8 DEF StackMoved
  <2>3. seq_alufun(i) = g /\ seq_aluA(s, i) = a /\ seq_aluB(s, i) = B
    BY <1>8 DEF seq_alufun, seq_aluA, seq_aluB, seq_valA, seq_valB, seq_srcA, seq_srcB,
                seq_stack, A, B
  <2>4. seq_valE(s, i) = compute_alu(g, a, B) /\ seq_cc(s, i) = compute_cc(g, a, B)
    BY <1>8, <2>3 DEF seq_valE, seq_cc
  <2>5. Effect(s, f) = Operated(s, f, g, a)
    BY <1>1, <1>8 DEF Effect, Operate, AddConstant, A
  <2> HIDE DEF g, a
  <2>6. Effect(s, f) = [pc |-> i.valP, r |-> set_reg_val(s.r, i.rB, compute_alu(g, a, B)),
                        m |-> s.m, cc |-> compute_cc(g, a, B)]
    BY <1>1, <2>2, <2>5, EffectFields DEF B
  <2> QED  BY <1>3, <1>4, <2>1, <2>4, <2>6
<1>9. CASE i.icode \in {I_RMMOVQ, I_MRMOVQ}
  <2>1. /\ seq_cc(s, i) = s.cc /\ seq_dstE(s, i) = REG_NONE /\ seq_pc(s, i, last) = i.valP
    BY <1>9 DEF seq_cc, seq_dstE, seq_stack, seq_pc
  <2>2. StackMoved(s, f) = s.r
    BY <1>1, <1>9 DEF StackMoved
  <2>3. seq_addr(s, i) = Plus(i.valC, B)
    <3>1. seq_aluA(s, i) = i.valC /\ seq_aluB(s, i) = B /\ seq_alufun(i) = A_ADD
      BY <1>9 DEF seq_aluA, seq_aluB, seq_alufun, seq_valB, seq_srcB, seq_stack, B
    <3> QED  BY <1>2, <1>5, <1>9, <3>1 DEF seq_addr, seq_valE
  <2>4. DataAddr(s, f) = Plus(i.valC, B)
    BY <1>1, <1>9 DEF DataAddr, B
  <2>5. ValidWord(seq_addr(s, i))
    BY <1>9 DEF seq_dmem_error, seq_read, seq_write
  <2>6. Effect(s, f) = Move(s, f)
    BY <1>1, <1>9 DEF Effect
  <2>7. CASE i.icode = I_RMMOVQ
    <3>1. Move(s, f) = Stores(s, f, A)
      BY <1>1, <2>7 DEF Move, A
    <3>2. seq_dstM(i) = REG_NONE /\ seq_write(i) /\ seq_data(s, i) = A
      BY <2>7 DEF seq_dstM, seq_write, seq_data, seq_valA, seq_srcA, A
    <3>3. Effect(s, f) = [pc |-> i.valP, r |-> s.r,
                          m |-> set_word_val(s.m, seq_addr(s, i), A), cc |-> s.cc]
      BY <1>1, <2>2, <2>3, <2>4, <2>6, <3>1, EffectFields
    <3> QED  BY <1>3, <1>4, <2>1, <2>5, <3>2, <3>3
  <2>8. CASE i.icode = I_MRMOVQ
    <3>1. Move(s, f) = Writes(s, f, i.rA, Loaded(s, f))
      BY <1>1, <2>8 DEF Move
    <3>2. seq_dstM(i) = i.rA /\ ~seq_write(i) /\ seq_valM(s, i, last) = Loaded(s, f)
      BY <2>3, <2>4, <2>8 DEF seq_dstM, seq_write, seq_valM, seq_read, Loaded
    <3>3. Effect(s, f) = [pc |-> i.valP, r |-> set_reg_val(s.r, i.rA, Loaded(s, f)),
                          m |-> s.m, cc |-> s.cc]
      BY <1>1, <2>2, <2>6, <3>1, EffectFields
    <3> QED  BY <1>3, <1>4, <2>1, <3>2, <3>3
  <2> QED  BY <1>9, <2>7, <2>8
<1>10. CASE i.icode \in {I_PUSHQ, I_CALL}
  <2>1. /\ seq_cc(s, i) = s.cc /\ seq_dstE(s, i) = REG_RSP /\ seq_dstM(i) = REG_NONE
        /\ seq_write(i) /\ seq_pc(s, i, last) = IF i.icode = I_CALL THEN i.valC ELSE i.valP
        /\ seq_data(s, i) = IF i.icode = I_CALL THEN i.valP ELSE A
    BY <1>10 DEF seq_cc, seq_dstE, seq_stack, seq_pc, seq_dstM, seq_write, seq_data,
                 seq_valA, seq_srcA, A
  <2>2. StackMoved(s, f) = set_reg_val(s.r, REG_RSP, Minus(sp, WORD))
    BY <1>1, <1>10 DEF StackMoved, sp
  <2>3. seq_valE(s, i) = Minus(sp, WORD) /\ seq_addr(s, i) = Minus(sp, WORD)
    <3>1. seq_aluA(s, i) = Minus(0, WORD) /\ seq_aluB(s, i) = sp /\ seq_alufun(i) = A_ADD
      BY <1>2, <1>10 DEF seq_aluA, seq_aluB, seq_alufun, seq_valB, seq_srcB, seq_stack
    <3> QED  BY <1>2, <1>5, <1>10, <3>1 DEF seq_addr, seq_valE
  <2>4. DataAddr(s, f) = Minus(sp, WORD)
    BY <1>1, <1>10 DEF DataAddr, sp
  <2>5. ValidWord(seq_addr(s, i))
    BY <1>10 DEF seq_dmem_error, seq_read, seq_write
  <2>6. Effect(s, f) = [pc |-> seq_pc(s, i, last), r |-> StackMoved(s, f),
                        m |-> set_word_val(s.m, DataAddr(s, f), seq_data(s, i)), cc |-> s.cc]
    <3>1. CASE i.icode = I_PUSHQ
      <4>1. Effect(s, f) = Stores(s, f, A)
        BY <1>1, <3>1 DEF Effect, Stack, A
      <4> QED  BY <1>1, <2>1, <3>1, <4>1, EffectFields
    <3>2. CASE i.icode = I_CALL
      <4>1. Effect(s, f) = [Stores(s, f, i.valP) EXCEPT !.pc = i.valC]
        BY <1>1, <3>2 DEF Effect, Transfer
      <4>2. Stores(s, f, i.valP) =
              [pc |-> i.valP, r |-> StackMoved(s, f),
               m |-> set_word_val(s.m, DataAddr(s, f), i.valP), cc |-> s.cc]
        BY <1>1, EffectFields
      <4> QED  BY <2>1, <3>2, <4>1, <4>2
    <3> QED  BY <1>10, <3>1, <3>2
  <2> QED  BY <1>3, <1>4, <2>1, <2>2, <2>3, <2>4, <2>5, <2>6
<1>11. CASE i.icode \in {I_POPQ, I_RET}
  <2>1. /\ seq_cc(s, i) = s.cc /\ seq_dstE(s, i) = REG_RSP
        /\ seq_dstM(i) = (IF i.icode = I_POPQ THEN i.rA ELSE REG_NONE)
        /\ ~seq_write(i)
        /\ seq_pc(s, i, last) = IF i.icode = I_RET THEN seq_valM(s, i, last) ELSE i.valP
    BY <1>11 DEF seq_cc, seq_dstE, seq_stack, seq_pc, seq_dstM, seq_write
  <2>2. StackMoved(s, f) = set_reg_val(s.r, REG_RSP, Plus(sp, WORD))
    BY <1>1, <1>11 DEF StackMoved, sp
  <2>3. seq_valE(s, i) = Plus(sp, WORD) /\ seq_addr(s, i) = sp
    <3>1. seq_aluA(s, i) = WORD /\ seq_aluB(s, i) = sp /\ seq_alufun(i) = A_ADD
      BY <1>2, <1>11 DEF seq_aluA, seq_aluB, seq_alufun, seq_valB, seq_srcB, seq_stack
    <3> QED  BY <1>2, <1>5, <1>11, <3>1 DEF seq_addr, seq_valE, seq_valA, seq_srcA
  <2>4. DataAddr(s, f) = sp
    BY <1>1, <1>11 DEF DataAddr, sp
  <2>5. seq_valM(s, i, last) = Loaded(s, f)
    BY <1>11, <2>3, <2>4 DEF seq_valM, seq_read, Loaded
  <2>6. CASE i.icode = I_POPQ
    <3>1. Effect(s, f) = Writes(s, f, i.rA, Loaded(s, f))
      BY <1>1, <2>6 DEF Effect, Stack
    <3>2. Effect(s, f) = [pc |-> i.valP, r |-> set_reg_val(StackMoved(s, f), i.rA, Loaded(s, f)),
                          m |-> s.m, cc |-> s.cc]
      BY <1>1, <3>1, EffectFields
    <3> QED  BY <1>4, <2>1, <2>2, <2>3, <2>5, <2>6, <3>2
  <2>7. CASE i.icode = I_RET
    <3>1. Effect(s, f) = [Passed(s, f) EXCEPT !.pc = Loaded(s, f)]
      BY <1>1, <2>7 DEF Effect, Transfer
    <3>2. Effect(s, f) = [pc |-> Loaded(s, f), r |-> StackMoved(s, f), m |-> s.m, cc |-> s.cc]
      BY <3>1, EffectFields
    <3> QED  BY <1>3, <1>4, <2>1, <2>2, <2>3, <2>5, <2>7, <3>2
  <2> QED  BY <1>11, <2>6, <2>7
<1>12. i.icode \in {I_NOP, I_JMP} \cup {I_RRMOVQ, I_IRMOVQ} \cup {I_ALU, I_IADDQ}
                    \cup {I_RMMOVQ, I_MRMOVQ} \cup {I_PUSHQ, I_CALL} \cup {I_POPQ, I_RET}
  BY DEF instr_valid
<1> QED  BY <1>6, <1>7, <1>8, <1>9, <1>10, <1>11, <1>12

(* One instruction that PIPE is made for, done the way of the HCL and by   *)
(* step_state.                                                             *)
LEMMA OneInstruction ==
    ASSUME NEW s \in State, WellFormed(s), NEW i, NEW last,
           Agrees(i, Fetched(s))
    PROVE  /\ instr_valid(i.icode) /\ i.icode # I_HALT /\ ~seq_dmem_error(s, i)
                => step_state(s) = [s |-> Updated(s, Computed(s, i, last)), stat |-> "AOK"]
           /\ i.icode = I_HALT => step_state(s) = [s |-> s, stat |-> "HLT"]
           /\ ~instr_valid(i.icode) => step_state(s) = [s |-> s, stat |-> "INS"]
           /\ seq_dmem_error(s, i) =>
                /\ instr_valid(i.icode) /\ i.icode # I_HALT
                /\ i.icode \notin {I_ALU, I_IADDQ}
                /\ step_state(s).stat = "ADR"
                /\ step_state(s).s.pc = s.pc /\ step_state(s).s.m = s.m
                /\ step_state(s).s.cc = s.cc
<1> USE DEF I_HALT, I_NOP, I_RRMOVQ, I_IRMOVQ, I_RMMOVQ, I_MRMOVQ, I_ALU,
            I_JMP, I_CALL, I_RET, I_PUSHQ, I_POPQ, I_IADDQ
<1> DEFINE f == Fetched(s)
           A == get_reg_val(s.r, i.rA)
           B == get_reg_val(s.r, i.rB)
           sp == s.r[REG_RSP]
<1>1. ValidByte(s.pc) /\ f.ok1 /\ f.okc
  BY WellFormedFetch, FetchAgrees
<1>2. /\ f.icode = i.icode /\ f.ifun = i.ifun /\ f.ra = i.rA /\ f.rb = i.rB
      /\ f.cval = i.valC /\ f.ftpc = i.valP
  BY DEF Agrees
<1>3. Typed(i)
  BY <1>1, <1>2, FetchedType DEF Typed, REG_NONE
<1>4. /\ instr_valid(f.icode) => Refused(f) = IF f.icode = I_HALT THEN "HLT" ELSE "AOK"
      /\ ~instr_valid(f.icode) => Refused(f) = "INS"
  BY WellFormedFetch
<1>5. step_state(s) =
        IF Refused(f) # "AOK" THEN [s |-> s, stat |-> Refused(f)]
        ELSE IF UsesData(f) /\ ~ValidWord(DataAddr(s, f))
        THEN [s |-> IF f.icode = I_RET THEN s
                    ELSE [s EXCEPT !.r = StackMoved(s, f)],
              stat |-> "ADR"]
        ELSE [s |-> Effect(s, f), stat |-> "AOK"]
  BY <1>1 DEF step_state
<1> HIDE DEF f
<1>6. UsesData(f) = (seq_read(i) \/ seq_write(i))
  BY <1>2 DEF UsesData, seq_read, seq_write
<1>7. UsesData(f) => DataAddr(s, f) = seq_addr(s, i)
  <2>1. /\ A \in Word /\ B \in Word /\ sp \in Word /\ i.valC \in Word
        /\ get_reg_val(s.r, REG_RSP) = sp
    BY <1>3, RegValType DEF State, Typed, RegFile, REG_RSP, REG_NONE, get_reg_val
  <2> HIDE DEF A, B, sp
  <2>2. \A a, b : compute_alu(A_ADD, a, b) = Plus(a, b)
    BY DEF compute_alu, A_ADD, A_SUB, A_AND, A_XOR
  <2>3. CASE i.icode \in {I_RMMOVQ, I_MRMOVQ}
    <3>1. seq_aluA(s, i) = i.valC /\ seq_aluB(s, i) = B /\ seq_alufun(i) = A_ADD
      BY <2>3 DEF seq_aluA, seq_aluB, seq_alufun, seq_valB, seq_srcB, seq_stack, B
    <3>2. DataAddr(s, f) = Plus(i.valC, B)
      BY <1>2, <2>3 DEF DataAddr, B
    <3> QED  BY <2>2, <2>3, <3>1, <3>2 DEF seq_addr, seq_valE
  <2>4. CASE i.icode \in {I_CALL, I_PUSHQ}
    <3>1. seq_aluA(s, i) = Minus(0, WORD) /\ seq_aluB(s, i) = sp /\ seq_alufun(i) = A_ADD
      BY <2>1, <2>4 DEF seq_aluA, seq_aluB, seq_alufun, seq_valB, seq_srcB, seq_stack
    <3>2. DataAddr(s, f) = Minus(sp, WORD)
      BY <1>2, <2>4 DEF DataAddr, sp
    <3>3. seq_addr(s, i) = Plus(Minus(0, WORD), sp)
      BY <2>2, <2>4, <3>1 DEF seq_addr, seq_valE
    <3> QED  BY <2>1, <3>2, <3>3, WordArithmetic
  <2>5. CASE i.icode \in {I_RET, I_POPQ}
    <3>1. DataAddr(s, f) = sp
      BY <1>2, <2>5 DEF DataAddr, sp
    <3> QED  BY <2>1, <2>5, <3>1 DEF seq_addr, seq_valA, seq_srcA
  <2> QED  BY <1>2, <2>3, <2>4, <2>5 DEF UsesData
<1>8. seq_dmem_error(s, i) = (UsesData(f) /\ ~ValidWord(DataAddr(s, f)))
  BY <1>6, <1>7 DEF seq_dmem_error
<1>9. ASSUME instr_valid(i.icode), i.icode # I_HALT, ~seq_dmem_error(s, i)
      PROVE  step_state(s) = [s |-> Updated(s, Computed(s, i, last)), stat |-> "AOK"]
  <2>1. Agrees(i, f)
    BY DEF f
  <2>2. Effect(s, f) = Updated(s, Computed(s, i, last))
    BY <1>3, <1>9, <2>1, EffectIsDo
  <2>3. Refused(f) = "AOK"
    BY <1>2, <1>4, <1>9
  <2> QED  BY <1>5, <1>8, <1>9, <2>2, <2>3
<1>10. ASSUME seq_dmem_error(s, i)
       PROVE  /\ instr_valid(i.icode) /\ i.icode # I_HALT
              /\ i.icode \notin {I_ALU, I_IADDQ}
              /\ step_state(s).stat = "ADR"
              /\ step_state(s).s.pc = s.pc /\ step_state(s).s.m = s.m
              /\ step_state(s).s.cc = s.cc
  <2>1. i.icode \in {I_RMMOVQ, I_MRMOVQ, I_CALL, I_RET, I_PUSHQ, I_POPQ}
    BY <1>2, <1>8, <1>10 DEF UsesData
  <2>2. instr_valid(i.icode) /\ i.icode # I_HALT /\ i.icode \notin {I_ALU, I_IADDQ}
    BY <2>1 DEF instr_valid
  <2>3. Refused(f) = "AOK"
    BY <1>2, <1>4, <2>2
  <2>4. step_state(s) = [s |-> IF f.icode = I_RET THEN s
                               ELSE [s EXCEPT !.r = StackMoved(s, f)],
                         stat |-> "ADR"]
    BY <1>5, <1>8, <1>10, <2>3
  <2>5. LET t == [s EXCEPT !.r = StackMoved(s, f)]
        IN  t.pc = s.pc /\ t.m = s.m /\ t.cc = s.cc
    BY DEF State
  <2> QED  BY <2>2, <2>4, <2>5
<1>11. i.icode = I_HALT => step_state(s) = [s |-> s, stat |-> "HLT"]
  BY <1>2, <1>4, <1>5 DEF instr_valid
<1>12. ~instr_valid(i.icode) => step_state(s) = [s |-> s, stat |-> "INS"]
  BY <1>2, <1>4, <1>5
<1> QED  BY <1>9, <1>10, <1>11, <1>12

(***************************************************************************)
(* The clock edge.                                                         *)
(***************************************************************************)
LEMMA Control ==
    ASSUME op = [s \in Stages |-> pipe_cntl(Stall[s], Inject[s])], W.stat \notin Excepted
    PROVE  /\ op["W"] = "LOAD"
           /\ op["M"] = IF m_stat \in Excepted THEN "BUBBLE" ELSE "LOAD"
           /\ op["E"] = IF Mispredicted \/ LoadUse THEN "BUBBLE" ELSE "LOAD"
           /\ op["D"] = IF LoadUse THEN "STALL"
                        ELSE IF Mispredicted \/ Returning THEN "BUBBLE" ELSE "LOAD"
           /\ op["F"] = IF LoadUse \/ Returning THEN "STALL" ELSE "LOAD"
<1>1. \A s \in Stages : op[s] = pipe_cntl(Stall[s], Inject[s])
  OBVIOUS
<1>2. ~(LoadUse /\ Mispredicted)
  BY DEF LoadUse, Mispredicted, I_MRMOVQ, I_POPQ, I_JMP
<1>3. op["W"] = "LOAD"
  <2>1. Stall["W"] = (W.stat \in Excepted) /\ Inject["W"] = FALSE
    BY DEF Stall, Inject
  <2> QED  BY <1>1, <2>1 DEF Stages, pipe_cntl
<1>4. op["M"] = IF m_stat \in Excepted THEN "BUBBLE" ELSE "LOAD"
  <2>1. Stall["M"] = FALSE /\ Inject["M"] = (m_stat \in Excepted \/ W.stat \in Excepted)
    BY DEF Stall, Inject
  <2> QED  BY <1>1, <2>1 DEF Stages, pipe_cntl
<1>5. op["E"] = IF Mispredicted \/ LoadUse THEN "BUBBLE" ELSE "LOAD"
  <2>1. Stall["E"] = FALSE /\ Inject["E"] = (Mispredicted \/ LoadUse)
    BY DEF Stall, Inject
  <2> QED  BY <1>1, <2>1 DEF Stages, pipe_cntl
<1>6. op["D"] = IF LoadUse THEN "STALL"
                ELSE IF Mispredicted \/ Returning THEN "BUBBLE" ELSE "LOAD"
  <2>1. Stall["D"] = LoadUse /\ Inject["D"] = (Mispredicted \/ (~LoadUse /\ Returning))
    BY DEF Stall, Inject
  <2> QED  BY <1>1, <1>2, <2>1 DEF Stages, pipe_cntl
<1>7. op["F"] = IF LoadUse \/ Returning THEN "STALL" ELSE "LOAD"
  <2>1. Stall["F"] = (LoadUse \/ Returning) /\ Inject["F"] = FALSE
    BY DEF Stall, Inject
  <2> QED  BY <1>1, <2>1 DEF Stages, pipe_cntl
<1> QED  BY <1>3, <1>4, <1>5, <1>6, <1>7

(* The pipeline registers after the edge, while no instruction in W has    *)
(* failed.                                                                 *)
LEMMA Loads ==
    ASSUME update_pipes, Wires, W.stat \notin Excepted
    PROVE  /\ W' = memory
           /\ M' = IF m_stat \in Excepted THEN Bubble.M ELSE execute
           /\ E' = IF Mispredicted \/ LoadUse THEN Bubble.E ELSE decode
           /\ D' = IF LoadUse THEN D
                   ELSE IF Mispredicted \/ Returning THEN Bubble.D ELSE fetch
           /\ F' = IF LoadUse \/ Returning THEN F ELSE f_predPC
<1>1. /\ op["W"] = "LOAD"
      /\ op["M"] = IF m_stat \in Excepted THEN "BUBBLE" ELSE "LOAD"
      /\ op["E"] = IF Mispredicted \/ LoadUse THEN "BUBBLE" ELSE "LOAD"
      /\ op["D"] = IF LoadUse THEN "STALL"
                   ELSE IF Mispredicted \/ Returning THEN "BUBBLE" ELSE "LOAD"
      /\ op["F"] = IF LoadUse \/ Returning THEN "STALL" ELSE "LOAD"
  BY Control DEF Wires
<1>2. /\ next["F"] = f_predPC /\ next["D"] = fetch /\ next["E"] = decode
      /\ next["M"] = execute /\ next["W"] = memory
  BY DEF Wires
<1>3. \A s \in Stages : curr'[s] = CASE op[s] = "LOAD" -> next[s]
                                    [] op[s] = "STALL" -> curr[s]
                                    [] op[s] = "BUBBLE" -> Bubble[s]
                                    [] op[s] = "ERROR" -> [Bubble[s] EXCEPT !.stat = "PIP"]
  BY DEF update_pipes
<1>4. W' = memory
  BY <1>1, <1>2, <1>3 DEF Stages, W
<1>5. M' = IF m_stat \in Excepted THEN Bubble.M ELSE execute
  BY <1>1, <1>2, <1>3 DEF Stages, M
<1>6. E' = IF Mispredicted \/ LoadUse THEN Bubble.E ELSE decode
  BY <1>1, <1>2, <1>3 DEF Stages, E
<1>7. D' = IF LoadUse THEN D
           ELSE IF Mispredicted \/ Returning THEN Bubble.D ELSE fetch
  BY <1>1, <1>2, <1>3 DEF Stages, D
<1>8. F' = IF LoadUse \/ Returning THEN F ELSE f_predPC
  BY <1>1, <1>2, <1>3 DEF Stages, F
<1> QED  BY <1>4, <1>5, <1>6, <1>7, <1>8

(* What update_state writes, while the limit is not near.                  *)
LEMMA Writeback ==
    ASSUME update_state, Wired, Wires, Running, W.stat \notin Excepted
    PROVE  /\ reg' = set_reg_val(set_reg_val(reg, W.dstE, W.valE), W.dstM, W.valM)
           /\ icount <= instr_limit - 2 =>
                mem' = IF mem_write /\ ValidWord(mem_addr)
                       THEN set_word_val(mem, mem_addr, M.valA) ELSE mem
           /\ icount <= instr_limit - 3 =>
                cc' = IF set_cc THEN compute_cc(alufun, aluA, aluB) ELSE cc
           /\ icount <= instr_limit - 2 /\ ~set_cc => cc' = cc
<1>1. reg' = set_reg_val(set_reg_val(reg, W.dstE, W.valE), W.dstM, W.valM)
  <2>1. wb.dstE = W.dstE /\ wb.valE = W.valE /\ wb.dstM = W.dstM /\ wb.valM = W.valM
    BY DEF Wired
  <2> QED  BY <2>1 DEF update_state
<1> DEFINE ahead_mem == IF W.stat # "BUB" THEN 1 ELSE 0
           ahead_ex == IF next.W.stat # "BUB" THEN ahead_mem + 1 ELSE ahead_mem
<1>2. icount \in Nat /\ instr_limit \in Nat
  BY PipeAssumption DEF Wired
<1>3. icount <= instr_limit - 2 => ahead_mem < instr_limit - icount
  BY <1>2
<1>4. icount <= instr_limit - 3 => ahead_ex < instr_limit - icount
  BY <1>2
<1>5. icount <= instr_limit - 3 => icount <= instr_limit - 2
  BY <1>2
<1>6. store.write = mem_write /\ store.addr = mem_addr /\ store.data = M.valA
  BY DEF Wires
<1>7. /\ mem' = IF store.write /\ ahead_mem < instr_limit - icount /\ ValidWord(store.addr)
                THEN set_word_val(mem, store.addr, store.data) ELSE mem
      /\ cc' = IF ahead_ex < instr_limit - icount THEN cc_in ELSE cc
  BY DEF update_state
<1> HIDE DEF ahead_mem, ahead_ex
<1>8. icount <= instr_limit - 2 =>
        mem' = IF mem_write /\ ValidWord(mem_addr)
               THEN set_word_val(mem, mem_addr, M.valA) ELSE mem
  BY <1>3, <1>6, <1>7
<1>9. icount <= instr_limit - 3 =>
        cc' = IF set_cc THEN compute_cc(alufun, aluA, aluB) ELSE cc
  BY <1>4, <1>5, <1>7 DEF Wires
<1>10. icount <= instr_limit - 2 /\ ~set_cc => cc' = cc
  BY <1>7 DEF Wires
<1> QED  BY <1>1, <1>8, <1>9, <1>10

(* sim_step_pipe counts every cycle.                                       *)
LEMMA Counts ==
    ASSUME do_stages, count, Wired
    PROVE  icount' = icount + 1 /\ icount' \in Nat
<1>1. status' # "BUB"
  <2>1. status' = IF W'.stat = "BUB" THEN "AOK" ELSE W'.stat
    BY DEF do_stages, Stat
  <2> QED  BY <2>1
<1> QED  BY <1>1 DEF count, Wired

(* The first cycle loads the bubbles that are there.                       *)
LEMMA FirstEdge ==
    ASSUME update_state, update_pipes, Cleared, Wired
    PROVE  curr' = curr /\ reg' = reg /\ mem' = mem /\ cc' = cc
<1>1. curr' = Bubble
  <2>1. \A s \in Stages : op[s] = "LOAD"
    BY DEF Cleared
  <2>2. curr' = [s \in Stages |-> next[s]]
    BY <2>1 DEF update_pipes
  <2>3. next = Bubble
    BY DEF Cleared
  <2>4. Bubble = [s \in Stages |-> Bubble[s]]
    BY DEF Bubble, Stages
  <2> QED  BY <2>2, <2>3, <2>4
<1>2. reg' = reg
  <2>1. W = Bubble.W
    BY DEF Cleared, W
  <2>2. wb.dstE = REG_NONE /\ wb.dstM = REG_NONE
    BY <2>1 DEF Wired, Bubble
  <2> QED  BY <2>2 DEF update_state, set_reg_val, REG_NONE
<1>3. mem' = mem /\ cc' = cc
  BY DEF Cleared, update_state
<1> QED  BY <1>1, <1>2, <1>3 DEF Cleared

(* The pipeline starts with bubbles, and with nothing to write.            *)
LEMMA WiredInit == ASSUME PipeInit PROVE Cleared /\ Wired
<1>1. Cleared
  BY DEF PipeInit, clear_pipes, Cleared
<1>2. W = Bubble.W
  BY <1>1 DEF Cleared, W
<1>3. Wired
  BY <1>1, <1>2 DEF Wired, PipeInit, Bubble, Stat
<1> QED  BY <1>1, <1>3

(* After every cycle the stages have computed what the next edge writes.   *)
LEMMA WiredStep ==
    ASSUME sim_step_pipe, Wired
    PROVE  Wires' /\ Wired'
<1>1. update_state /\ do_stages /\ count /\ Running
  BY DEF sim_step_pipe
<1>2. /\ (next = [F |-> f_predPC, D |-> fetch, E |-> decode, M |-> execute, W |-> memory])'
      /\ (op = [s \in Stages |-> pipe_cntl(Stall[s], Inject[s])])'
      /\ (store = [write |-> mem_write, addr |-> mem_addr, data |-> M.valA])'
  BY <1>1 DEF do_stages
<1>3. (set_cc => cc_in = compute_cc(alufun, aluA, aluB))'
  BY <1>1 DEF do_stages
<1>4. (~set_cc /\ icount <= instr_limit - 2 => cc_in = cc)'
  <2> SUFFICES ASSUME ~set_cc', icount' <= instr_limit - 2 PROVE cc_in' = cc'
    BY PipeAssumption
  <2>1. cc_in' = cc_in
    BY <1>1 DEF do_stages
  <2>2. cc' = cc_in
    <3>1. icount \in Nat /\ instr_limit \in Nat /\ icount' = icount + 1
      BY <1>1, PipeAssumption, Counts DEF Wired
    <3>2. icount <= instr_limit - 3
      BY <3>1
    <3> DEFINE ahead_mem == IF W.stat # "BUB" THEN 1 ELSE 0
               ahead_ex == IF next.W.stat # "BUB" THEN ahead_mem + 1 ELSE ahead_mem
    <3>3. ahead_ex < instr_limit - icount
      BY <3>1, <3>2
    <3>4. cc' = IF ahead_ex < instr_limit - icount THEN cc_in ELSE cc
      BY <1>1 DEF update_state
    <3> QED  BY <3>3, <3>4
  <2> QED  BY <2>1, <2>2
<1>5. Wires'
  BY <1>2, <1>3, <1>4 DEF Wires
<1>6. /\ (wb = [dstE |-> W.dstE, valE |-> W.valE, dstM |-> W.dstM, valM |-> W.valM])'
      /\ (status = Stat)'
  BY <1>1 DEF do_stages
<1>7. icount' \in Nat
  BY <1>1, Counts
<1>8. Wired'
  BY <1>5, <1>6, <1>7 DEF Wired
<1> QED  BY <1>5, <1>8

(***************************************************************************)
(* What bubbles hold, and what is behind a return and a mispredicted       *)
(* branch, whatever the program.                                           *)
(***************************************************************************)
LEMMA NotExcepted ==
    ASSUME Wired, Running
    PROVE  W.stat \notin Excepted
  BY DEF Wired, Running, Stat, Excepted

(* A bubble leaves M as a bubble.                                          *)
LEMMA BubbleStat ==
    ASSUME Structure
    PROVE  m_stat = "BUB" <=> M.stat = "BUB"
  BY DEF Structure, m_stat, dmem_error, mem_read, mem_write, I_NOP, I_MRMOVQ, I_POPQ,
         I_RET, I_RMMOVQ, I_PUSHQ, I_CALL

(* Structure is invariant, whatever the program.                           *)
LEMMA StructureStep ==
    ASSUME Structure, Wired, Wires, sim_step_pipe
    PROVE  Structure'
<1> USE DEF I_NOP, I_JMP, I_RET
<1>0. /\ W' = memory
      /\ M' = IF m_stat \in Excepted THEN Bubble.M ELSE execute
      /\ E' = IF Mispredicted \/ LoadUse THEN Bubble.E ELSE decode
      /\ D' = IF LoadUse THEN D
              ELSE IF Mispredicted \/ Returning THEN Bubble.D ELSE fetch
  BY Loads, NotExcepted DEF sim_step_pipe
<1>1. /\ memory.stat = m_stat /\ memory.icode = M.icode
      /\ memory.dstE = M.dstE /\ memory.dstM = M.dstM
  BY DEF memory
<1>2. /\ execute.stat = E.stat /\ execute.icode = E.icode /\ execute.Cnd = e_Cnd
      /\ execute.dstE = e_dstE /\ execute.dstM = E.dstM
  BY DEF execute
<1>3. /\ decode.stat = D.stat /\ decode.icode = D.icode
      /\ decode.dstE = d_dstE /\ decode.dstM = d_dstM
  BY DEF decode
<1>4. fetch.stat \in Stats /\ fetch.stat # "BUB"
  BY DEF fetch, Stats, Excepted
<1>5. /\ Bubble.D.stat = "BUB" /\ Bubble.D.icode = I_NOP
      /\ Bubble.E.stat = "BUB" /\ Bubble.E.icode = I_NOP
      /\ Bubble.E.dstE = REG_NONE /\ Bubble.E.dstM = REG_NONE
      /\ Bubble.M.stat = "BUB" /\ Bubble.M.icode = I_NOP
      /\ Bubble.M.dstE = REG_NONE /\ Bubble.M.dstM = REG_NONE
  BY DEF Bubble
<1>6. m_stat \in Stats /\ (m_stat = "BUB" <=> M.stat = "BUB")
  <2>1. m_stat \in Stats
    BY DEF m_stat, Structure, Stats, Excepted
  <2> QED  BY <2>1, BubbleStat
<1>7. D'.stat \in Stats /\ (D'.stat = "BUB" => D'.icode = I_NOP)
  BY <1>0, <1>4, <1>5 DEF Structure, Stats
<1>8. /\ E'.stat \in Stats
      /\ E'.stat = "BUB" => E'.icode = I_NOP /\ E'.dstE = REG_NONE /\ E'.dstM = REG_NONE
  <2>1. D.stat = "BUB" => d_dstE = REG_NONE /\ d_dstM = REG_NONE
    BY DEF Structure, d_dstE, d_dstM, I_RRMOVQ, I_IRMOVQ, I_ALU, I_IADDQ, I_PUSHQ,
           I_POPQ, I_CALL, I_MRMOVQ
  <2> QED  BY <1>0, <1>3, <1>5, <2>1 DEF Structure, Stats
<1>9. /\ M'.stat \in Stats
      /\ M'.stat = "BUB" => M'.icode = I_NOP /\ M'.dstE = REG_NONE /\ M'.dstM = REG_NONE
  <2>1. E.stat = "BUB" => e_dstE = REG_NONE
    BY DEF Structure, e_dstE
  <2> QED  BY <1>0, <1>2, <1>5, <2>1 DEF Structure, Stats
<1>10. /\ W'.stat \in Stats
       /\ W'.stat = "BUB" => W'.icode = I_NOP /\ W'.dstE = REG_NONE /\ W'.dstM = REG_NONE
  BY <1>0, <1>1, <1>6 DEF Structure
<1>11. M'.icode = I_JMP /\ ~M'.Cnd => D'.stat = "BUB" /\ E'.stat = "BUB"
  <2> SUFFICES ASSUME M'.icode = I_JMP, ~M'.Cnd PROVE D'.stat = "BUB" /\ E'.stat = "BUB"
    OBVIOUS
  <2>1. E.icode = I_JMP /\ ~e_Cnd
    BY <1>0, <1>2, <1>5
  <2>2. Mispredicted /\ ~LoadUse
    BY <2>1 DEF Mispredicted, LoadUse, I_MRMOVQ, I_POPQ
  <2> QED  BY <1>0, <1>5, <2>2
<1>12. E'.icode = I_RET => D'.stat = "BUB"
  <2> SUFFICES ASSUME E'.icode = I_RET PROVE D'.stat = "BUB"
    OBVIOUS
  <2>1. D.icode = I_RET /\ ~LoadUse
    BY <1>0, <1>3, <1>5
  <2>2. Returning
    BY <2>1 DEF Returning
  <2> QED  BY <1>0, <1>5, <2>1, <2>2
<1>13. M'.icode = I_RET => D'.stat = "BUB" /\ E'.stat = "BUB"
  <2> SUFFICES ASSUME M'.icode = I_RET PROVE D'.stat = "BUB" /\ E'.stat = "BUB"
    OBVIOUS
  <2>1. E.icode = I_RET
    BY <1>0, <1>2, <1>5
  <2>2. Returning /\ ~LoadUse
    BY <2>1 DEF Returning, LoadUse, I_MRMOVQ, I_POPQ
  <2>3. D.stat = "BUB"
    BY <2>1 DEF Structure
  <2> QED  BY <1>0, <1>3, <1>5, <2>2, <2>3
<1>14. W'.icode = I_RET => D'.stat = "BUB" /\ E'.stat = "BUB" /\ M'.stat = "BUB"
  <2> SUFFICES ASSUME W'.icode = I_RET PROVE D'.stat = "BUB" /\ E'.stat = "BUB" /\ M'.stat = "BUB"
    OBVIOUS
  <2>1. M.icode = I_RET
    BY <1>0, <1>1
  <2>2. D.stat = "BUB" /\ E.stat = "BUB" /\ E.icode = I_NOP
    BY <2>1 DEF Structure
  <2>3. Returning /\ ~LoadUse
    BY <2>1, <2>2 DEF Returning, LoadUse, I_MRMOVQ, I_POPQ
  <2> QED  BY <1>0, <1>2, <1>3, <1>5, <2>2, <2>3
<1> HIDE DEF I_NOP, I_JMP, I_RET
<1> QED
  BY <1>7, <1>8, <1>9, <1>10, <1>11, <1>12, <1>13, <1>14, Zenon DEF Structure

(***************************************************************************)
(* An instruction is fetched the same from two memories that agree on the  *)
(* bytes it may take.                                                      *)
(***************************************************************************)
LEMMA RawStable ==
    ASSUME NEW m1 \in Memory, NEW m2 \in Memory, NEW pc \in Word,
           \A a \in Span(pc) \cap (0 .. MEM_SIZE - 1) : m1[a] = m2[a]
    PROVE  Raw(m1, pc) = Raw(m2, pc)
<1> DEFINE imem_error == ~ValidByte(pc) \/ ~ValidByte(Plus(pc, LOOKAHEAD))
           instr(m) == IF imem_error THEN HPACK(I_NOP, 0) ELSE get_byte_val(m, pc)
           icode(m) == HI4(instr(m))
           regs  == Plus(pc, 1)
           const(m) == IF need_regids(icode(m)) THEN Plus(regs, 1) ELSE regs
           ids(m)   == IF need_regids(icode(m)) /\ ValidByte(regs)
                       THEN get_byte_val(m, regs) ELSE HPACK(REG_NONE, REG_NONE)
           valC(m)  == IF need_imm(icode(m)) /\ ValidWord(const(m))
                       THEN get_word_val(m, const(m)) ELSE 0
<1>0. pc \in Nat /\ WORD \in Nat \ {0} /\ MEM_SIZE \in Nat
  BY SizesAssumption DEF Word
<1>1. instr(m1) = instr(m2)
  <2>1. ValidByte(pc) => pc \in Span(pc) \cap (0 .. MEM_SIZE - 1)
    BY <1>0 DEF ValidByte, Span
  <2> QED  BY <2>1 DEF get_byte_val
<1>2. imem_error => ~need_regids(icode(m1)) /\ ~need_imm(icode(m1))
  <2>1. imem_error => icode(m1) = 1
    BY DEF HPACK, I_NOP, HI4
  <2> HIDE DEF icode
  <2> QED  BY <2>1 DEF need_regids, need_imm, I_RRMOVQ, I_ALU, I_PUSHQ, I_POPQ, I_IRMOVQ,
                       I_RMMOVQ, I_MRMOVQ, I_IADDQ, I_JMP, I_CALL
<1>3. ~imem_error => regs = pc + 1 /\ (regs < MEM_SIZE => Plus(regs, 1) = pc + 2)
  <2>1. ASSUME NEW a \in Nat, a < MEM_SIZE PROVE Plus(a, 1) = a + 1
    <3>1. Modulus \in Nat \ {0} /\ 2 * MEM_SIZE < Modulus
      BY SizesAssumption, ModulusIs
    <3> HIDE DEF Modulus
    <3>2. a + 1 \in Int /\ 0 <= a + 1 /\ a + 1 < Modulus
      BY <1>0, <2>1, <3>1
    <3> QED  BY <3>1, <3>2, Remainder DEF Plus
  <2>2. ~imem_error => pc < MEM_SIZE
    BY DEF ValidByte
  <2>3. ~imem_error => regs = pc + 1
    BY <1>0, <2>1, <2>2
  <2> HIDE DEF regs, imem_error
  <2>4. ~imem_error /\ regs < MEM_SIZE => Plus(regs, 1) = regs + 1
    BY <1>0, <2>1, <2>3
  <2> QED  BY <1>0, <2>3, <2>4
<1>4. ids(m1) = ids(m2)
  <2>1. need_regids(icode(m1)) /\ ValidByte(regs) => regs \in Span(pc) \cap (0 .. MEM_SIZE - 1)
    <3> HIDE DEF imem_error, regs, icode
    <3> QED  BY <1>0, <1>2, <1>3 DEF ValidByte, Span
  <2>2. need_regids(icode(m1)) /\ ValidByte(regs) => m1[regs] = m2[regs]
    <3> HIDE DEF imem_error, regs, icode
    <3> QED  BY <2>1
  <2>3. icode(m1) = icode(m2)
    BY <1>1
  <2> HIDE DEF imem_error, regs, icode
  <2> QED  BY <2>2, <2>3 DEF get_byte_val
<1>5. valC(m1) = valC(m2)
  <2>1. icode(m1) = icode(m2) /\ const(m1) = const(m2)
    BY <1>1
  <2> HIDE DEF icode
  <2>2. ASSUME need_imm(icode(m1)), ValidWord(const(m1))
        PROVE  get_word_val(m1, const(m1)) = get_word_val(m2, const(m1))
    <3> DEFINE c == const(m1)
    <3>1. ~imem_error /\ regs = pc + 1
      <4> HIDE DEF imem_error, regs
      <4> QED  BY <1>2, <1>3, <2>2
    <3>2. c \in {pc + 1, pc + 2}
      <4>1. CASE need_regids(icode(m1))
        <5>1. c = Plus(regs, 1) /\ c + WORD <= MEM_SIZE
          BY <2>2, <4>1 DEF ValidWord
        <5> HIDE DEF c, const, regs, imem_error
        <5>2. CASE regs < MEM_SIZE
          BY <1>3, <3>1, <5>1, <5>2
        <5>3. CASE ~(regs < MEM_SIZE)
          <6>1. pc < MEM_SIZE /\ 2 * MEM_SIZE < Modulus /\ Modulus \in Nat \ {0}
            BY <3>1, SizesAssumption, ModulusIs DEF imem_error, ValidByte
          <6> HIDE DEF Modulus
          <6>2. pc + 1 = MEM_SIZE
            BY <1>0, <3>1, <5>3, <6>1
          <6>3. regs + 1 \in Int /\ 0 <= regs + 1 /\ regs + 1 < Modulus
            BY <1>0, <3>1, <6>1, <6>2, SizesAssumption
          <6>4. Plus(regs, 1) = regs + 1
            BY <6>1, <6>3, Remainder DEF Plus
          <6> QED  BY <1>0, <3>1, <5>1, <6>4
        <5> QED  BY <5>2, <5>3
      <4>2. CASE ~need_regids(icode(m1))
        BY <3>1, <4>2
      <4> QED  BY <4>1, <4>2
    <3>3. c + WORD <= MEM_SIZE
      BY <2>2 DEF ValidWord
    <3> HIDE DEF c, const, regs, imem_error
    <3>4. ASSUME NEW i \in 0 .. WORD - 1 PROVE m1[c + i] = m2[c + i]
      <4>1. c + i \in Span(pc) /\ c + i \in 0 .. MEM_SIZE - 1
        BY <1>0, <3>2, <3>3 DEF Span
      <4> QED  BY <4>1
    <3>5. [i \in 0 .. WORD - 1 |-> m1[c + i] * 256 ^ i]
            = [i \in 0 .. WORD - 1 |-> m2[c + i] * 256 ^ i]
      BY <3>4
    <3>6. get_word_val(m1, c) = get_word_val(m2, c)
      BY <3>5 DEF get_word_val
    <3> QED  BY <3>6 DEF c
  <2> HIDE DEF const
  <2> QED  BY <2>1, <2>2
<1>6. \A m : Raw(m, pc) =
        [icode |-> icode(m), ifun |-> LO4(instr(m)), rA |-> HI4(ids(m)), rB |-> LO4(ids(m)),
         valC |-> valC(m),
         valP |-> IF need_imm(icode(m)) THEN Plus(const(m), WORD) ELSE const(m),
         stat |-> IF imem_error THEN "ADR"
                  ELSE IF ~instr_valid(icode(m)) THEN "INS"
                  ELSE IF icode(m) = I_HALT THEN "HLT" ELSE "AOK",
         pc |-> pc]
  BY DEF Raw
<1>7. icode(m1) = icode(m2) /\ const(m1) = const(m2)
  BY <1>1
<1> HIDE DEF instr, icode, ids, valC, const, regs, imem_error
<1> QED  BY <1>1, <1>4, <1>5, <1>6, <1>7

(* A store that lands on no instruction in flight changes none of them.    *)
LEMMA Undisturbed ==
    ASSUME NEW pc \in Word, NEW s \in {D', E', M'}, s.stat # "BUB", s.pc = pc,
           ~Overtaken, Wires, mem \in Memory, mem' \in Memory,
           mem' = IF mem_write /\ ValidWord(mem_addr)
                  THEN set_word_val(mem, mem_addr, M.valA) ELSE mem
    PROVE  Raw(mem', pc) = Raw(mem, pc)
<1>1. store.write = mem_write /\ store.addr = mem_addr
  BY DEF Wires
<1>2. CASE mem' = mem
  BY <1>2
<1>3. CASE mem' # mem
  <2>1. mem_write /\ mem' = set_word_val(mem, mem_addr, M.valA)
    BY <1>3
  <2>2. Span(pc) \cap (mem_addr .. mem_addr + WORD - 1) = {}
    BY <1>1, <1>3, <2>1 DEF Overtaken
  <2>3. ASSUME NEW a \in Span(pc) \cap (0 .. MEM_SIZE - 1) PROVE mem[a] = mem'[a]
    <3>1. a \notin mem_addr .. mem_addr + WORD - 1
      BY <2>2
    <3>2. a \in DOMAIN mem
      BY DEF Memory
    <3> QED  BY <2>1, <3>1, <3>2 DEF set_word_val
  <2> QED  BY <2>3, RawStable
<1> QED  BY <1>2, <1>3

(***************************************************************************)
(* The states between the instructions in flight.                          *)
(***************************************************************************)
LEMMA ChainType ==
    ASSUME isa \in State, mem \in Memory
    PROVE  /\ AtM \in State /\ AtE \in State /\ AtD \in State
           /\ Typed(InM) /\ Typed(InE) /\ Typed(InD)
           /\ InM.pc = AtM.pc /\ InE.pc = AtE.pc /\ InD.pc = AtD.pc
<1>1. AtM \in State
  BY StepType DEF AtM, After
<1>2. Typed(InM) /\ InM.pc = AtM.pc
  <2>1. AtM.pc \in Word
    BY <1>1 DEF State
  <2> QED  BY <2>1, RawType DEF InM
<1>3. AtE \in State
  BY <1>1, <1>2, DoType DEF AtE
<1>4. Typed(InE) /\ InE.pc = AtE.pc
  <2>1. AtE.pc \in Word
    BY <1>3 DEF State
  <2> QED  BY <2>1, RawType DEF InE
<1>5. AtD \in State
  BY <1>3, <1>4, DoType DEF AtD
<1>6. Typed(InD) /\ InD.pc = AtD.pc
  <2>1. AtD.pc \in Word
    BY <1>5 DEF State
  <2> QED  BY <2>1, RawType DEF InD
<1> QED  BY <1>1, <1>2, <1>3, <1>4, <1>5, <1>6

(* A well-formed instruction as PIPE fetches it.                           *)
LEMMA RawWellFormed ==
    ASSUME NEW s \in State, WellFormed(s)
    PROVE  /\ Agrees(Raw(s.m, s.pc), Fetched(s)) /\ Sane(Raw(s.m, s.pc))
           /\ Raw(s.m, s.pc).stat = IF ~instr_valid(Raw(s.m, s.pc).icode) THEN "INS"
                                    ELSE IF Raw(s.m, s.pc).icode = I_HALT THEN "HLT"
                                    ELSE "AOK"
  BY WellFormedFetch, FetchAgrees DEF Agrees

(* The fields of the state an instruction leaves.                          *)
LEMMA DoFields ==
    ASSUME NEW s, NEW i
    PROVE  /\ Do(s, i).pc = seq_pc(s, i, 0) /\ Do(s, i).cc = seq_cc(s, i)
           /\ Do(s, i).r = set_reg_val(set_reg_val(s.r, seq_dstE(s, i), seq_valE(s, i)),
                                       seq_dstM(i), seq_valM(s, i, 0))
           /\ Do(s, i).m = IF seq_write(i) /\ ValidWord(seq_addr(s, i))
                           THEN set_word_val(s.m, seq_addr(s, i), seq_data(s, i)) ELSE s.m
  BY DEF Do, Updated, Computed

(* The memory stage does what its instruction asks for.                    *)
LEMMA MemoryStage ==
    ASSUME M.stat # "BUB", MatchM, Sane(InM), mem = AtM.m
    PROVE  /\ mem_read = seq_read(InM) /\ mem_write = seq_write(InM)
           /\ mem_read \/ mem_write => mem_addr = seq_addr(AtM, InM)
           /\ dmem_error = seq_dmem_error(AtM, InM)
           /\ m_valM = seq_valM(AtM, InM, 0)
           /\ mem_write => M.valA = seq_data(AtM, InM)
           /\ m_stat = IF seq_dmem_error(AtM, InM) THEN "ADR" ELSE InM.stat
<1> USE DEF I_RRMOVQ, I_RMMOVQ, I_MRMOVQ, I_ALU, I_JMP, I_CALL, I_RET, I_PUSHQ, I_POPQ
<1>1. /\ M.icode = InM.icode /\ M.stat = InM.stat
      /\ M.valE = seq_valE(AtM, InM)
      /\ InM.icode \in {I_CALL, I_JMP} => M.valA = InM.valP
      /\ seq_srcA(InM) # REG_NONE => M.valA = seq_valA(AtM, InM)
  BY DEF MatchM
<1>2. mem_read = seq_read(InM) /\ mem_write = seq_write(InM)
  BY <1>1 DEF mem_read, mem_write, seq_read, seq_write
<1>3. InM.icode \in {I_POPQ, I_RET} => seq_srcA(InM) # REG_NONE
  BY DEF seq_srcA, REG_RSP, REG_NONE
<1>4. InM.icode \in {I_RMMOVQ, I_PUSHQ} => seq_srcA(InM) # REG_NONE
  BY DEF seq_srcA, Sane, reg_valid, REG_NONE
<1>5. mem_addr = seq_addr(AtM, InM)
  <2>1. InM.icode \in {I_POPQ, I_RET} => M.valA = seq_valA(AtM, InM)
    BY <1>1, <1>3
  <2> QED  BY <1>1, <2>1 DEF mem_addr, seq_addr
<1>6. dmem_error = seq_dmem_error(AtM, InM)
  BY <1>2, <1>5 DEF dmem_error, seq_dmem_error
<1>7. m_valM = seq_valM(AtM, InM, 0)
  BY <1>2, <1>5, <1>6 DEF m_valM, seq_valM
<1>8. mem_write => M.valA = seq_data(AtM, InM)
  <2>1. InM.icode \in {I_RMMOVQ, I_PUSHQ} => M.valA = seq_valA(AtM, InM)
    BY <1>1, <1>4
  <2>2. InM.icode = I_CALL => M.valA = InM.valP
    BY <1>1
  <2> QED  BY <1>2, <2>1, <2>2 DEF seq_write, seq_data
<1>9. m_stat = IF seq_dmem_error(AtM, InM) THEN "ADR" ELSE InM.stat
  BY <1>1, <1>6 DEF m_stat
<1> QED  BY <1>2, <1>5, <1>6, <1>7, <1>8, <1>9

(* The execute stage.                                                      *)
LEMMA ExecuteStage ==
    ASSUME E.stat # "BUB", MatchE, cc = AtE.cc
    PROVE  /\ e_Cnd = seq_Cnd(AtE, InE) /\ e_dstE = seq_dstE(AtE, InE)
           /\ Sane(InE) => /\ e_valE = seq_valE(AtE, InE)
                           /\ E.icode \in {I_ALU, I_IADDQ} =>
                                 compute_cc(alufun, aluA, aluB) = seq_cc(AtE, InE)
<1> USE DEF I_RRMOVQ, I_IRMOVQ, I_RMMOVQ, I_MRMOVQ, I_ALU, I_JMP, I_CALL, I_RET,
            I_PUSHQ, I_POPQ, I_IADDQ
<1>1. /\ E.icode = InE.icode /\ E.ifun = InE.ifun /\ E.valC = InE.valC
      /\ E.dstE = IF InE.icode = I_RRMOVQ THEN InE.rB ELSE seq_dstE(AtE, InE)
      /\ seq_srcA(InE) # REG_NONE => E.valA = seq_valA(AtE, InE)
      /\ seq_srcB(InE) # REG_NONE => E.valB = seq_valB(AtE, InE)
  BY DEF MatchE
<1>2. e_Cnd = seq_Cnd(AtE, InE)
  BY <1>1 DEF e_Cnd, seq_Cnd
<1>3. e_dstE = seq_dstE(AtE, InE)
  <2>1. InE.icode = I_RRMOVQ => seq_dstE(AtE, InE) = IF seq_Cnd(AtE, InE) THEN InE.rB ELSE REG_NONE
    BY DEF seq_dstE, seq_stack
  <2> QED  BY <1>1, <1>2, <2>1 DEF e_dstE
<1>4. ASSUME Sane(InE)
      PROVE  /\ e_valE = seq_valE(AtE, InE)
             /\ E.icode \in {I_ALU, I_IADDQ} => compute_cc(alufun, aluA, aluB) = seq_cc(AtE, InE)
  <2>1. InE.icode \in {I_RRMOVQ, I_ALU} => E.valA = seq_valA(AtE, InE)
    <3>1. InE.icode \in {I_RRMOVQ, I_ALU} => seq_srcA(InE) # REG_NONE
      BY <1>4 DEF seq_srcA, Sane, reg_valid, REG_NONE
    <3> QED  BY <1>1, <3>1
  <2>2. seq_stack(InE) \/ InE.icode \in {I_RMMOVQ, I_MRMOVQ, I_ALU, I_IADDQ}
          => E.valB = seq_valB(AtE, InE)
    <3>1. seq_stack(InE) => seq_srcB(InE) # REG_NONE
      BY DEF seq_srcB, seq_stack, REG_RSP, REG_NONE
    <3>2. InE.icode \in {I_RMMOVQ, I_MRMOVQ, I_ALU, I_IADDQ} => seq_srcB(InE) # REG_NONE
      BY <1>4 DEF seq_srcB, seq_stack, Sane, reg_valid, REG_NONE
    <3> QED  BY <1>1, <3>1, <3>2
  <2>3. aluA = seq_aluA(AtE, InE)
    BY <1>1, <2>1 DEF aluA, seq_aluA
  <2>4. aluB = seq_aluB(AtE, InE)
    BY <1>1, <2>2 DEF aluB, seq_aluB, seq_stack
  <2>5. alufun = seq_alufun(InE)
    BY <1>1 DEF alufun, seq_alufun
  <2> QED  BY <1>1, <2>3, <2>4, <2>5 DEF e_valE, seq_valE, seq_cc
<1> QED  BY <1>2, <1>3, <1>4

(***************************************************************************)
(* Forwarding.                                                             *)
(***************************************************************************)
IsFile(r) == r = [id \in 0 .. REG_NONE |-> r[id]]

(* What is read from a register file after a write.                        *)
LEMMA ReadBack ==
    ASSUME NEW r, IsFile(r), NEW id \in 0 .. REG_NONE, NEW val
    PROVE  /\ IsFile(set_reg_val(r, id, val))
           /\ \A src \in 0 .. REG_NONE - 1 :
                get_reg_val(set_reg_val(r, id, val), src) =
                  IF id = src THEN val ELSE get_reg_val(r, src)
<1>1. IsFile(set_reg_val(r, id, val))
  BY DEF IsFile, set_reg_val
<1>2. ASSUME NEW src \in 0 .. REG_NONE - 1
      PROVE  get_reg_val(set_reg_val(r, id, val), src) =
                  IF id = src THEN val ELSE get_reg_val(r, src)
  <2>1. ~(src >= REG_NONE) /\ src \in 0 .. REG_NONE
    BY DEF REG_NONE
  <2>2. CASE id = src
    BY <2>1, <2>2 DEF IsFile, set_reg_val, get_reg_val, REG_NONE
  <2>3. CASE id # src
    BY <2>1, <2>3 DEF IsFile, set_reg_val, get_reg_val, REG_NONE
  <2> QED  BY <2>2, <2>3
<1> QED  BY <1>1, <1>2

(* The newest of the values on their way is the one that is forwarded.     *)
LEMMA NewestFirst ==
    ASSUME NEW src
    PROVE  Forwarded(src) =
             IF e_dstE = src THEN e_valE
             ELSE IF M.dstM = src THEN m_valM
             ELSE IF M.dstE = src THEN M.valE
             ELSE IF W.dstM = src THEN W.valM
             ELSE IF W.dstE = src THEN W.valE
             ELSE get_reg_val(reg, src)
<1> DEFINE hits == {k \in DOMAIN Sources : Sources[k].dst = src}
<1>1. /\ DOMAIN Sources = 1 .. 5
      /\ Sources[1] = [dst |-> e_dstE, val |-> e_valE]
      /\ Sources[2] = [dst |-> M.dstM, val |-> m_valM]
      /\ Sources[3] = [dst |-> M.dstE, val |-> M.valE]
      /\ Sources[4] = [dst |-> W.dstM, val |-> W.valM]
      /\ Sources[5] = [dst |-> W.dstE, val |-> W.valE]
  BY DEF Sources
<1>2. /\ 1 \in hits <=> e_dstE = src
      /\ 2 \in hits <=> M.dstM = src
      /\ 3 \in hits <=> M.dstE = src
      /\ 4 \in hits <=> W.dstM = src
      /\ 5 \in hits <=> W.dstE = src
      /\ hits \subseteq 1 .. 5
  BY <1>1
<1>3. Forwarded(src) = IF hits = {} THEN get_reg_val(reg, src) ELSE Sources[Min(hits)].val
  BY DEF Forwarded
<1> HIDE DEF hits
<1>4. ASSUME NEW k \in hits, \A j \in hits : k <= j PROVE Min(hits) = k
  BY <1>2, <1>4 DEF Min
<1>5. CASE 1 \in hits
  <2>1. \A j \in hits : 1 <= j
    BY <1>2
  <2>2. Min(hits) = 1
    BY <1>4, <1>5, <2>1
  <2> QED  BY <1>1, <1>2, <1>3, <1>5, <2>2
<1>6. CASE 1 \notin hits /\ 2 \in hits
  <2>1. \A j \in hits : 2 <= j
    BY <1>2, <1>6
  <2>2. Min(hits) = 2
    BY <1>4, <1>6, <2>1
  <2> QED  BY <1>1, <1>2, <1>3, <1>6, <2>2
<1>7. CASE 1 \notin hits /\ 2 \notin hits /\ 3 \in hits
  <2>1. \A j \in hits : 3 <= j
    BY <1>2, <1>7
  <2>2. Min(hits) = 3
    BY <1>4, <1>7, <2>1
  <2> QED  BY <1>1, <1>2, <1>3, <1>7, <2>2
<1>8. CASE 1 \notin hits /\ 2 \notin hits /\ 3 \notin hits /\ 4 \in hits
  <2>1. \A j \in hits : 4 <= j
    BY <1>2, <1>8
  <2>2. Min(hits) = 4
    BY <1>4, <1>8, <2>1
  <2> QED  BY <1>1, <1>2, <1>3, <1>8, <2>2
<1>9. CASE 1 \notin hits /\ 2 \notin hits /\ 3 \notin hits /\ 4 \notin hits /\ 5 \in hits
  <2>1. \A j \in hits : 5 <= j
    BY <1>2, <1>9
  <2>2. Min(hits) = 5
    BY <1>4, <1>9, <2>1
  <2> QED  BY <1>1, <1>2, <1>3, <1>9, <2>2
<1>10. CASE 1 \notin hits /\ 2 \notin hits /\ 3 \notin hits /\ 4 \notin hits /\ 5 \notin hits
  <2>1. hits = {}
    BY <1>2, <1>10
  <2> QED  BY <1>2, <1>3, <1>10, <2>1
<1> QED  BY <1>5, <1>6, <1>7, <1>8, <1>9, <1>10

(* Reading a register in decode gives what the state before the            *)
(* instruction holds: whichever of the instructions in W, M and E has      *)
(* written the register last, unless it is a load in E.                    *)
LEMMA Forwarding ==
    ASSUME reg = isa.r, isa \in State,
           W.dstE \in 0 .. REG_NONE, W.dstM \in 0 .. REG_NONE,
           M.dstE \in 0 .. REG_NONE, M.dstM \in 0 .. REG_NONE,
           e_dstE \in 0 .. REG_NONE, E.dstM \in 0 .. REG_NONE, NEW v,
           AtM.r = set_reg_val(set_reg_val(reg, W.dstE, W.valE), W.dstM, W.valM),
           AtE.r = set_reg_val(set_reg_val(AtM.r, M.dstE, M.valE), M.dstM, m_valM),
           AtD.r = set_reg_val(set_reg_val(AtE.r, e_dstE, e_valE), E.dstM, v),
           NEW src \in 0 .. REG_NONE, src # REG_NONE, src # E.dstM
    PROVE  Forwarded(src) = get_reg_val(AtD.r, src)
<1>0. src \in 0 .. REG_NONE - 1
  BY DEF REG_NONE
<1> DEFINE w1 == set_reg_val(reg, W.dstE, W.valE)
           m1 == set_reg_val(AtM.r, M.dstE, M.valE)
           e1 == set_reg_val(AtE.r, e_dstE, e_valE)
<1>1. IsFile(reg)
  BY DEF State, RegFile, IsFile
<1>2. IsFile(w1) /\ get_reg_val(w1, src) = IF W.dstE = src THEN W.valE ELSE get_reg_val(reg, src)
  BY <1>0, <1>1, ReadBack
<1>3. /\ IsFile(AtM.r)
      /\ get_reg_val(AtM.r, src) = IF W.dstM = src THEN W.valM ELSE get_reg_val(w1, src)
  <2> HIDE DEF w1
  <2>1. AtM.r = set_reg_val(w1, W.dstM, W.valM)
    BY DEF w1
  <2> QED  BY <1>0, <1>2, <2>1, ReadBack
<1>4. IsFile(m1) /\ get_reg_val(m1, src) = IF M.dstE = src THEN M.valE ELSE get_reg_val(AtM.r, src)
  BY <1>0, <1>3, ReadBack
<1>5. /\ IsFile(AtE.r)
      /\ get_reg_val(AtE.r, src) = IF M.dstM = src THEN m_valM ELSE get_reg_val(m1, src)
  <2> HIDE DEF m1
  <2>1. AtE.r = set_reg_val(m1, M.dstM, m_valM)
    BY DEF m1
  <2> QED  BY <1>0, <1>4, <2>1, ReadBack
<1>6. IsFile(e1) /\ get_reg_val(e1, src) = IF e_dstE = src THEN e_valE ELSE get_reg_val(AtE.r, src)
  BY <1>0, <1>5, ReadBack
<1>7. get_reg_val(AtD.r, src) = get_reg_val(e1, src)
  <2> HIDE DEF e1
  <2>1. AtD.r = set_reg_val(e1, E.dstM, v)
    BY DEF e1
  <2> QED  BY <1>0, <1>6, <2>1, ReadBack
<1> HIDE DEF w1, m1, e1
<1> QED  BY <1>2, <1>3, <1>4, <1>5, <1>6, <1>7, NewestFirst

(* A write to REG_NONE is none.                                            *)
LEMMA NoRegister == \A r, val : set_reg_val(r, REG_NONE, val) = r
  BY DEF set_reg_val, REG_NONE

(***************************************************************************)
(* What the instructions in W, M and E add to the states between them.     *)
(***************************************************************************)
LEMMA PastW ==
    ASSUME isa \in State, Structure, MatchW, reg = isa.r, W.stat \notin Excepted
    PROVE  /\ W.dstE \in 0 .. REG_NONE /\ W.dstM \in 0 .. REG_NONE
           /\ AtM.r = set_reg_val(set_reg_val(reg, W.dstE, W.valE), W.dstM, W.valM)
<1>1. CASE W.stat = "BUB"
  <2>1. W.dstE = REG_NONE /\ W.dstM = REG_NONE
    BY <1>1 DEF Structure
  <2>2. AtM = isa
    BY <1>1 DEF AtM, After
  <2> QED  BY <2>1, <2>2, NoRegister DEF REG_NONE
<1>2. CASE W.stat # "BUB"
  <2> DEFINE i == Raw(isa.m, isa.pc)
  <2>1. /\ WellFormed(isa)
        /\ W.valE = seq_valE(isa, i) /\ W.valM = seq_valM(isa, i, 0)
        /\ W.dstE = seq_dstE(isa, i) /\ W.dstM = seq_dstM(i)
        /\ W.stat = IF seq_dmem_error(isa, i) THEN "ADR" ELSE i.stat
    BY <1>2 DEF MatchW
  <2>2. /\ Agrees(i, Fetched(isa))
        /\ i.stat = IF ~instr_valid(i.icode) THEN "INS"
                    ELSE IF i.icode = I_HALT THEN "HLT" ELSE "AOK"
    BY <2>1, RawWellFormed
  <2>3. Typed(i)
    <3>1. isa.m \in Memory /\ isa.pc \in Word
      BY DEF State
    <3> QED  BY <3>1, RawType
  <2> HIDE DEF i
  <2>4. instr_valid(i.icode) /\ i.icode # I_HALT /\ ~seq_dmem_error(isa, i)
    BY <2>1, <2>2 DEF Excepted
  <2>5. step_state(isa).s = Do(isa, i)
    BY <2>1, <2>2, <2>4, OneInstruction DEF Do
  <2>6. AtM = Do(isa, i)
    BY <1>2, <2>5 DEF AtM, After
  <2>7. W.dstE \in 0 .. REG_NONE /\ W.dstM \in 0 .. REG_NONE
    BY <2>1, <2>3, SignalsType, ModulusIs
  <2> QED  BY <2>1, <2>6, <2>7, DoFields
<1> QED  BY <1>1, <1>2

(* What the instruction in M adds to the registers and to memory.          *)
LEMMA PastM ==
    ASSUME isa \in State, Structure, MatchM, mem = AtM.m, SaneM
    PROVE  /\ M.dstE \in 0 .. REG_NONE /\ M.dstM \in 0 .. REG_NONE
           /\ AtE.r = set_reg_val(set_reg_val(AtM.r, M.dstE, M.valE), M.dstM, m_valM)
           /\ AtE.m = IF mem_write /\ ValidWord(mem_addr)
                      THEN set_word_val(mem, mem_addr, M.valA) ELSE mem
<1>0. AtM \in State /\ mem \in Memory
  BY StepType DEF AtM, After, State
<1>1. CASE M.stat = "BUB"
  <2>1. M.icode = I_NOP /\ M.dstE = REG_NONE /\ M.dstM = REG_NONE
    BY <1>1 DEF Structure
  <2>2. AtE = AtM
    BY <1>1 DEF AtE
  <2>3. ~mem_write
    BY <2>1 DEF mem_write, I_NOP, I_RMMOVQ, I_PUSHQ, I_CALL
  <2> QED  BY <2>1, <2>2, <2>3, NoRegister DEF REG_NONE
<1>2. CASE M.stat # "BUB"
  <2>1. Sane(InM)
    BY <1>2 DEF SaneM
  <2>2. /\ M.valE = seq_valE(AtM, InM)
        /\ M.dstE = seq_dstE(AtM, InM) /\ M.dstM = seq_dstM(InM)
    BY <1>2, <2>1 DEF MatchM
  <2>3. /\ mem_write = seq_write(InM)
        /\ mem_write => mem_addr = seq_addr(AtM, InM) /\ M.valA = seq_data(AtM, InM)
        /\ m_valM = seq_valM(AtM, InM, 0)
    BY <1>2, <2>1, MemoryStage
  <2>4. AtE = Do(AtM, InM)
    BY <1>2 DEF AtE
  <2>5. M.dstE \in 0 .. REG_NONE /\ M.dstM \in 0 .. REG_NONE
    BY <1>0, <2>2, ChainType, SignalsType, ModulusIs
  <2>6. /\ AtE.r = set_reg_val(set_reg_val(AtM.r, seq_dstE(AtM, InM), seq_valE(AtM, InM)),
                               seq_dstM(InM), seq_valM(AtM, InM, 0))
        /\ AtE.m = IF seq_write(InM) /\ ValidWord(seq_addr(AtM, InM))
                   THEN set_word_val(AtM.m, seq_addr(AtM, InM), seq_data(AtM, InM)) ELSE AtM.m
    BY <2>4, DoFields
  <2> QED  BY <2>2, <2>3, <2>5, <2>6
<1> QED  BY <1>1, <1>2

(* What the instruction in E adds to the registers and to the flags.       *)
LEMMA PastE ==
    ASSUME isa \in State, mem \in Memory, Structure, MatchE, cc = AtE.cc, SaneE
    PROVE  /\ e_dstE \in 0 .. REG_NONE /\ E.dstM \in 0 .. REG_NONE
           /\ AtD.r = set_reg_val(set_reg_val(AtE.r, e_dstE, e_valE), E.dstM,
                                  seq_valM(AtE, InE, 0))
           /\ AtD.cc = IF E.icode \in {I_ALU, I_IADDQ}
                       THEN compute_cc(alufun, aluA, aluB) ELSE cc
<1>0. AtE \in State /\ Typed(InE)
  BY ChainType
<1>1. CASE E.stat = "BUB"
  <2>1. E.icode = I_NOP /\ E.dstE = REG_NONE /\ E.dstM = REG_NONE
    BY <1>1 DEF Structure
  <2>2. AtD = AtE
    BY <1>1 DEF AtD
  <2>3. e_dstE = REG_NONE
    BY <2>1 DEF e_dstE
  <2>4. E.icode \notin {I_ALU, I_IADDQ}
    BY <2>1 DEF I_NOP, I_ALU, I_IADDQ
  <2> QED  BY <2>1, <2>2, <2>3, <2>4, NoRegister DEF REG_NONE
<1>2. CASE E.stat # "BUB"
  <2>1. Sane(InE)
    BY <1>2 DEF SaneE
  <2>2. /\ e_dstE = seq_dstE(AtE, InE) /\ e_valE = seq_valE(AtE, InE)
        /\ E.icode \in {I_ALU, I_IADDQ} => compute_cc(alufun, aluA, aluB) = seq_cc(AtE, InE)
    BY <1>2, <2>1, ExecuteStage
  <2>3. E.dstM = seq_dstM(InE) /\ E.icode = InE.icode
    BY <1>2 DEF MatchE
  <2>4. AtD = Do(AtE, InE)
    BY <1>2 DEF AtD
  <2>5. e_dstE \in 0 .. REG_NONE /\ E.dstM \in 0 .. REG_NONE
    BY <1>0, <2>2, <2>3, SignalsType, ModulusIs
  <2>6. /\ AtD.r = set_reg_val(set_reg_val(AtE.r, seq_dstE(AtE, InE), seq_valE(AtE, InE)),
                               seq_dstM(InE), seq_valM(AtE, InE, 0))
        /\ AtD.cc = seq_cc(AtE, InE)
    BY <2>4, DoFields
  <2>7. E.icode \notin {I_ALU, I_IADDQ} => seq_cc(AtE, InE) = AtE.cc
    BY <2>3 DEF seq_cc
  <2> QED  BY <2>2, <2>3, <2>5, <2>6, <2>7
<1> QED  BY <1>1, <1>2

(***************************************************************************)
(* What enters W is the reference's next instruction.                      *)
(***************************************************************************)
LEMMA EntersW ==
    ASSUME isa \in State, Structure, Wires, MatchM, mem = AtM.m,
           W' = memory, isa' = AtM, W'.stat # "BUB" => WellFormed(isa')
    PROVE  MatchW' /\ SaneM
<1>1. CASE M.stat = "BUB"
  <2>1. W'.stat = "BUB"
    <3>1. memory.stat = m_stat
      BY DEF memory
    <3> QED  BY <1>1, <3>1, BubbleStat
  <2>2. MatchW'
    BY <2>1 DEF MatchW
  <2> QED  BY <1>1, <2>2 DEF SaneM
<1>2. CASE M.stat # "BUB"
  <2>1. /\ W'.stat = m_stat /\ W'.icode = M.icode /\ W'.valE = M.valE /\ W'.valM = m_valM
        /\ W'.dstE = M.dstE /\ W'.dstM = M.dstM /\ W'.pc = M.pc
    BY DEF memory
  <2>2. W'.stat # "BUB"
    BY <1>2, <2>1, BubbleStat
  <2>3. WellFormed(AtM) /\ AtM \in State
    BY <2>2, StepType DEF AtM, After
  <2>4. InM = Raw(AtM.m, AtM.pc)
    BY DEF InM
  <2>5. Sane(InM)
    BY <2>3, <2>4, RawWellFormed
  <2>6. /\ m_valM = seq_valM(AtM, InM, 0)
        /\ m_stat = IF seq_dmem_error(AtM, InM) THEN "ADR" ELSE InM.stat
    BY <1>2, <2>5, MemoryStage
  <2>7. /\ M.icode = InM.icode /\ M.pc = AtM.pc
        /\ M.dstE = seq_dstE(AtM, InM) /\ M.dstM = seq_dstM(InM)
        /\ M.valE = seq_valE(AtM, InM)
    BY <1>2, <2>5 DEF MatchM
  <2>8. Raw(isa'.m, isa'.pc) = InM
    BY <2>4
  <2>9. WellFormed(isa)'
    BY <2>2
  <2> HIDE DEF InM
  <2>10. MatchW'
    BY <2>1, <2>6, <2>7, <2>8, <2>9 DEF MatchW
  <2> QED  BY <2>5, <2>10 DEF SaneM
<1> QED  BY <1>1, <1>2

(* The reference executes it, and is where PIPE's execute stage is; or the *)
(* instruction fails, and writes nothing.                                  *)
LEMMA NextAfter ==
    ASSUME isa \in State, Structure, Wires, MatchM, mem = AtM.m,
           W' = memory, isa' = AtM, W'.stat # "BUB" => WellFormed(isa')
    PROVE  /\ m_stat \notin Excepted => AtM' = AtE
           /\ m_stat \in Excepted =>
                /\ AtM'.m = AtM.m /\ AtM'.cc = AtM.cc /\ AtE.cc = AtM.cc
                /\ ~(mem_write /\ ValidWord(mem_addr))
<1> USE DEF I_HALT, I_NOP, I_RRMOVQ, I_IRMOVQ, I_RMMOVQ, I_MRMOVQ, I_ALU, I_JMP,
            I_CALL, I_RET, I_PUSHQ, I_POPQ, I_IADDQ
<1>1. CASE M.stat = "BUB"
  <2>1. W'.stat = "BUB" /\ m_stat = "BUB"
    <3>1. memory.stat = m_stat
      BY DEF memory
    <3> QED  BY <1>1, <3>1, BubbleStat
  <2>2. AtM' = isa'
    BY <2>1 DEF AtM, After
  <2>3. AtE = AtM
    BY <1>1 DEF AtE
  <2> QED  BY <2>1, <2>2, <2>3 DEF Excepted
<1>2. CASE M.stat # "BUB"
  <2>1. W'.stat = m_stat /\ W'.stat # "BUB"
    <3>1. memory.stat = m_stat
      BY DEF memory
    <3> QED  BY <1>2, <3>1, BubbleStat
  <2>2. WellFormed(AtM) /\ AtM \in State
    BY <2>1, StepType DEF AtM, After
  <2>3. AtM' = step_state(AtM).s
    <3>1. AtM' = step_state(isa').s
      BY <2>1 DEF AtM, After
    <3> QED  BY <3>1
  <2>4. InM = Raw(AtM.m, AtM.pc)
    BY DEF InM
  <2>5. /\ Agrees(InM, Fetched(AtM)) /\ Sane(InM)
        /\ InM.stat = IF ~instr_valid(InM.icode) THEN "INS"
                      ELSE IF InM.icode = I_HALT THEN "HLT" ELSE "AOK"
    BY <2>2, <2>4, RawWellFormed
  <2>6. /\ m_stat = IF seq_dmem_error(AtM, InM) THEN "ADR" ELSE InM.stat
        /\ mem_write = seq_write(InM) /\ mem_read = seq_read(InM)
        /\ dmem_error = seq_dmem_error(AtM, InM)
    BY <1>2, <2>5, MemoryStage
  <2>7. AtE = Do(AtM, InM)
    BY <1>2 DEF AtE
  <2>8. AtE.cc = seq_cc(AtM, InM)
    BY <2>7, DoFields
  <2> HIDE DEF InM
  <2>9. CASE m_stat \notin Excepted
    <3>1. instr_valid(InM.icode) /\ InM.icode # I_HALT /\ ~seq_dmem_error(AtM, InM)
      BY <2>5, <2>6, <2>9 DEF Excepted
    <3>2. step_state(AtM).s = Do(AtM, InM)
      BY <2>2, <2>5, <3>1, OneInstruction DEF Do
    <3> QED  BY <2>3, <2>7, <2>9, <3>2
  <2>10. CASE m_stat \in Excepted
    <3>1. \/ ~instr_valid(InM.icode)
          \/ InM.icode = I_HALT
          \/ seq_dmem_error(AtM, InM)
      BY <2>5, <2>6, <2>10 DEF Excepted
    <3>2. CASE ~instr_valid(InM.icode) \/ InM.icode = I_HALT
      <4>1. step_state(AtM).s = AtM
        BY <2>2, <2>5, <3>2, OneInstruction
      <4>2. InM.icode \notin {I_ALU, I_IADDQ} /\ ~seq_write(InM)
        BY <3>2 DEF instr_valid, seq_write
      <4>3. AtE.cc = AtM.cc
        BY <2>8, <4>2 DEF seq_cc
      <4> QED  BY <2>3, <2>6, <2>10, <4>1, <4>2, <4>3
    <3>3. CASE seq_dmem_error(AtM, InM)
      <4>1. /\ step_state(AtM).s.m = AtM.m /\ step_state(AtM).s.cc = AtM.cc
            /\ InM.icode \notin {I_ALU, I_IADDQ}
        BY <2>2, <2>5, <3>3, OneInstruction
      <4>2. AtE.cc = AtM.cc
        BY <2>8, <4>1 DEF seq_cc
      <4>3. ~ValidWord(mem_addr)
        BY <2>6, <3>3 DEF dmem_error
      <4> QED  BY <2>3, <2>10, <4>1, <4>2, <4>3
    <3> QED  BY <3>1, <3>2, <3>3
  <2> QED  BY <2>9, <2>10
<1> QED  BY <1>1, <1>2

(***************************************************************************)
(* One cycle, at each pipeline register.                                   *)
(***************************************************************************)
Cycle ==
  /\ isa \in State /\ Structure /\ Wired /\ Wires /\ sim_step_pipe
  /\ isa' = AtM
  /\ W'.stat # "BUB" => WellFormed(isa')
  /\ ~Overtaken
  /\ MatchW /\ reg = isa.r
  /\ mem = AtM.m /\ MatchM

(* The cycle, once what the edge writes is known.                          *)
LEMMA CycleFacts ==
    ASSUME Cycle
    PROVE  /\ W.stat \notin Excepted
           /\ W' = memory
           /\ M' = IF m_stat \in Excepted THEN Bubble.M ELSE execute
           /\ E' = IF Mispredicted \/ LoadUse THEN Bubble.E ELSE decode
           /\ D' = IF LoadUse THEN D
                   ELSE IF Mispredicted \/ Returning THEN Bubble.D ELSE fetch
           /\ F' = IF LoadUse \/ Returning THEN F ELSE f_predPC
           /\ reg' = set_reg_val(set_reg_val(reg, W.dstE, W.valE), W.dstM, W.valM)
           /\ icount \in Nat /\ instr_limit \in Nat /\ icount' = icount + 1
           /\ mem \in Memory /\ AtM \in State
           /\ MatchW' /\ SaneM /\ isa' \in State /\ reg' = isa'.r
           /\ m_stat \notin Excepted => AtM' = AtE
           /\ m_stat \in Excepted =>
                /\ AtM'.m = AtM.m /\ AtM'.cc = AtM.cc /\ AtE.cc = AtM.cc
                /\ ~(mem_write /\ ValidWord(mem_addr))
<1> USE DEF Cycle
<1>1. W.stat \notin Excepted
  BY NotExcepted DEF sim_step_pipe
<1>2. /\ W' = memory
      /\ M' = IF m_stat \in Excepted THEN Bubble.M ELSE execute
      /\ E' = IF Mispredicted \/ LoadUse THEN Bubble.E ELSE decode
      /\ D' = IF LoadUse THEN D
              ELSE IF Mispredicted \/ Returning THEN Bubble.D ELSE fetch
      /\ F' = IF LoadUse \/ Returning THEN F ELSE f_predPC
  BY <1>1, Loads DEF sim_step_pipe
<1>3. reg' = set_reg_val(set_reg_val(reg, W.dstE, W.valE), W.dstM, W.valM)
  BY <1>1, Writeback DEF sim_step_pipe
<1>4. icount \in Nat /\ instr_limit \in Nat /\ icount' = icount + 1
  BY Counts, PipeAssumption DEF sim_step_pipe, Wired
<1>5. AtM \in State /\ mem \in Memory
  BY StepType DEF AtM, After, State
<1>6. MatchW' /\ SaneM
  BY <1>2, EntersW
<1>7. reg' = isa'.r
  BY <1>1, <1>3, PastW
<1>8. /\ m_stat \notin Excepted => AtM' = AtE
      /\ m_stat \in Excepted =>
           /\ AtM'.m = AtM.m /\ AtM'.cc = AtM.cc /\ AtE.cc = AtM.cc
           /\ ~(mem_write /\ ValidWord(mem_addr))
  BY <1>2, NextAfter
<1> HIDE DEF Cycle
<1>9. isa' \in State
  BY <1>5 DEF Cycle
<1> QED  BY <1>1, <1>2, <1>3, <1>4, <1>5, <1>6, <1>7, <1>8, <1>9

(* Memory is where the instruction that enters W leaves it.                *)
LEMMA CycleMemory ==
    ASSUME Cycle, icount <= instr_limit - 2
    PROVE  mem' = AtM'.m /\ mem' \in Memory
<1>1. mem' = IF mem_write /\ ValidWord(mem_addr)
             THEN set_word_val(mem, mem_addr, M.valA) ELSE mem
  BY CycleFacts, Writeback DEF Cycle, sim_step_pipe
<1>2. mem' = AtM'.m
  <2>1. CASE m_stat \in Excepted
    BY <1>1, <2>1, CycleFacts DEF Cycle
  <2>2. CASE m_stat \notin Excepted
    <3>1. AtE.m = IF mem_write /\ ValidWord(mem_addr)
                  THEN set_word_val(mem, mem_addr, M.valA) ELSE mem
      BY CycleFacts, PastM DEF Cycle
    <3> QED  BY <1>1, <2>2, <3>1, CycleFacts
  <2> QED  BY <2>1, <2>2
<1>3. AtM' \in State
  <2>1. isa' \in State
    BY CycleFacts
  <2> QED  BY <2>1, StepType DEF AtM, After
<1> QED  BY <1>2, <1>3 DEF State

(* The instruction in M after the edge is the one that was in E.           *)
LEMMA CycleM ==
    ASSUME Cycle, icount <= instr_limit - 2, MatchE, cc = AtE.cc
    PROVE  /\ MatchM' /\ Stopped'
           /\ M'.stat # "BUB" => E.stat # "BUB" /\ InM' = InE
<1>1. mem' = AtM'.m /\ mem' \in Memory
  BY CycleMemory
<1>2. /\ M' = IF m_stat \in Excepted THEN Bubble.M ELSE execute
      /\ Bubble.M.stat = "BUB"
      /\ W' = memory /\ memory.stat = m_stat
  BY CycleFacts DEF Bubble, memory
<1>3. Stopped'
  <2> SUFFICES ASSUME m_stat \in Excepted PROVE M'.stat = "BUB" /\ cc' = AtM'.cc
    BY <1>2 DEF Stopped, AtM
  <2>1. ~set_cc
    BY DEF set_cc
  <2>2. cc' = cc
    BY <2>1, CycleFacts, Writeback DEF Cycle, sim_step_pipe
  <2> QED  BY <1>2, <2>2, CycleFacts
<1>4. ASSUME M'.stat # "BUB" PROVE MatchM' /\ E.stat # "BUB" /\ InM' = InE
  <2>1. m_stat \notin Excepted /\ M' = execute
    BY <1>2, <1>4
  <2>2. /\ M'.stat = E.stat /\ M'.icode = E.icode /\ M'.Cnd = e_Cnd /\ M'.pc = E.pc
        /\ M'.dstE = e_dstE /\ M'.dstM = E.dstM /\ M'.valE = e_valE /\ M'.valA = E.valA
    BY <2>1 DEF execute
  <2>3. E.stat # "BUB"
    BY <1>4, <2>2
  <2>4. AtM' = AtE
    BY <2>1, CycleFacts
  <2>5. /\ E.icode = InE.icode /\ E.stat = InE.stat /\ E.pc = AtE.pc
        /\ E.dstM = seq_dstM(InE)
        /\ InE.icode \in {I_CALL, I_JMP} => E.valA = InE.valP
        /\ seq_srcA(InE) # REG_NONE => E.valA = seq_valA(AtE, InE)
    BY <2>3 DEF MatchE
  <2>6. InM' = InE
    <3>1. AtE.pc \in Word
      BY CycleFacts, ChainType DEF Cycle, State
    <3>2. mem' = IF mem_write /\ ValidWord(mem_addr)
                 THEN set_word_val(mem, mem_addr, M.valA) ELSE mem
      BY CycleFacts, Writeback DEF Cycle, sim_step_pipe
    <3>3. Raw(mem', AtE.pc) = Raw(mem, AtE.pc)
      <4>1. mem \in Memory
        BY CycleFacts
      <4>2. M' \in {D', E', M'} /\ M'.pc = AtE.pc
        BY <2>2, <2>5
      <4> QED  BY <1>1, <1>4, <3>1, <3>2, <4>1, <4>2, Undisturbed DEF Cycle
    <3>4. InM' = Raw(mem', AtM'.pc)
      BY DEF InM
    <3> QED  BY <2>4, <3>3, <3>4 DEF InE
  <2>7. /\ e_Cnd = seq_Cnd(AtE, InE) /\ e_dstE = seq_dstE(AtE, InE)
        /\ Sane(InE) => e_valE = seq_valE(AtE, InE)
    BY <2>3, ExecuteStage
  <2>8. MatchM'
    <3> HIDE DEF InE, AtE
    <3> QED  BY <2>2, <2>4, <2>5, <2>6, <2>7 DEF MatchM
  <2> QED  BY <2>3, <2>6, <2>8
<1>5. MatchM'
  BY <1>4 DEF MatchM
<1> QED  BY <1>3, <1>4, <1>5

(* The state before the instruction in E.                                  *)
LEMMA NextE ==
    ASSUME Cycle, icount <= instr_limit - 2, MatchE, cc = AtE.cc,
           m_stat \notin Excepted, SaneM'
    PROVE  AtE' = AtD /\ SaneE
<1>1. AtM' = AtE /\ M' = execute /\ SaneM
  BY CycleFacts
<1>2. M'.stat = E.stat
  BY <1>1 DEF execute
<1>3. M'.stat # "BUB" => InM' = InE
  BY CycleM
<1>4. AtE' = IF M'.stat = "BUB" THEN AtM' ELSE Do(AtM', InM')
  BY DEF AtE
<1>5. AtE' = AtD
  BY <1>1, <1>2, <1>3, <1>4 DEF AtD
<1>6. E.stat # "BUB" => Sane(InE)
  <2>1. M'.stat # "BUB" => Sane(InM')
    BY DEF SaneM
  <2> QED  BY <1>2, <1>3, <2>1
<1> QED  BY <1>1, <1>5, <1>6 DEF SaneE

(* The instruction in E after the edge is the one that was in D, decoded   *)
(* with the values the reference gives its registers, and the flags are    *)
(* what the instruction in M has left.                                     *)
LEMMA CycleE ==
    ASSUME Cycle, icount <= instr_limit - 3, MatchE, cc = AtE.cc,
           m_stat \notin Excepted, SaneM', SaneE => MatchD /\ MatchF
    PROVE  /\ MatchE' /\ cc' = AtE'.cc
           /\ E'.stat # "BUB" => D.stat # "BUB" /\ InE' = InD /\ D = InD
<1>0. icount <= instr_limit - 2
  BY CycleFacts
<1>1. AtE' = AtD /\ SaneE /\ AtM' = AtE
  BY <1>0, NextE, CycleFacts
<1>2. cc' = AtE'.cc
  <2>1. AtD.cc = IF E.icode \in {I_ALU, I_IADDQ} THEN compute_cc(alufun, aluA, aluB) ELSE cc
    BY <1>1, CycleFacts, PastE DEF Cycle
  <2>2. set_cc = (E.icode \in {I_ALU, I_IADDQ})
    BY CycleFacts DEF set_cc
  <2>3. cc' = IF set_cc THEN compute_cc(alufun, aluA, aluB) ELSE cc
    BY CycleFacts, Writeback DEF Cycle, sim_step_pipe
  <2> QED  BY <1>1, <2>1, <2>2, <2>3
<1>3. ASSUME E'.stat # "BUB" PROVE MatchE' /\ D.stat # "BUB" /\ InE' = InD /\ D = InD
  <2>1. ~Mispredicted /\ ~LoadUse /\ E' = decode
    <3>1. Bubble.E.stat = "BUB"
      BY DEF Bubble
    <3> QED  BY <1>3, <3>1, CycleFacts
  <2>2. /\ E'.stat = D.stat /\ E'.icode = D.icode /\ E'.ifun = D.ifun /\ E'.valC = D.valC
        /\ E'.valA = d_valA /\ E'.valB = d_valB /\ E'.dstE = d_dstE /\ E'.dstM = d_dstM
        /\ E'.pc = D.pc
    BY <2>1 DEF decode
  <2>3. D.stat # "BUB" /\ D = InD
    BY <1>1, <1>3, <2>1, <2>2 DEF MatchD
  <2>4. mem \in Memory /\ mem' \in Memory /\ AtD.pc \in Word /\ InD.pc = AtD.pc /\ Typed(InD)
    BY <1>0, CycleFacts, CycleMemory, ChainType DEF Cycle, State
  <2>5. InE' = InD
    <3>1. mem' = IF mem_write /\ ValidWord(mem_addr)
                 THEN set_word_val(mem, mem_addr, M.valA) ELSE mem
      BY <1>0, CycleFacts, Writeback DEF Cycle, sim_step_pipe
    <3>2. E' \in {D', E', M'} /\ E'.pc = AtD.pc
      BY <2>2, <2>3, <2>4
    <3>3. Raw(mem', AtD.pc) = Raw(mem, AtD.pc)
      BY <1>3, <2>4, <3>1, <3>2, Undisturbed DEF Cycle
    <3>4. InE' = Raw(mem', AtE'.pc)
      BY DEF InE
    <3> QED  BY <1>1, <3>3, <3>4 DEF InD
  <2>6. d_srcA = seq_srcA(InD) /\ d_srcB = seq_srcB(InD) /\ d_dstM = seq_dstM(InD)
    <3> HIDE DEF InD
    <3> USE DEF I_ALU, I_RMMOVQ, I_MRMOVQ, I_IADDQ, I_PUSHQ, I_POPQ, I_CALL, I_RET, I_RRMOVQ
    <3>1. D.icode = InD.icode /\ D.rA = InD.rA /\ D.rB = InD.rB
      BY <2>3
    <3>2. d_srcA = seq_srcA(InD)
      BY <3>1 DEF d_srcA, seq_srcA
    <3>3. d_srcB = seq_srcB(InD)
      BY <3>1 DEF d_srcB, seq_srcB, seq_stack
    <3>4. d_dstM = seq_dstM(InD)
      BY <3>1 DEF d_dstM, seq_dstM
    <3> QED  BY <3>2, <3>3, <3>4
  <2>7. d_dstE = IF InD.icode = I_RRMOVQ THEN InD.rB ELSE seq_dstE(AtD, InD)
    <3> HIDE DEF InD
    <3>1. D.icode = InD.icode /\ D.rB = InD.rB
      BY <2>3
    <3> QED
      BY <3>1 DEF d_dstE, seq_dstE, seq_stack, I_ALU, I_IRMOVQ, I_IADDQ, I_PUSHQ, I_POPQ,
                  I_CALL, I_RET, I_RRMOVQ
  <2>8. ASSUME NEW src \in {d_srcA, d_srcB}, src # REG_NONE
        PROVE  Forwarded(src) = get_reg_val(AtD.r, src)
    <3>1. src \in 0 .. REG_NONE
      BY <2>4, <2>6, CycleFacts, ChainType, SignalsType, ModulusIs DEF Cycle
    <3>2. /\ W.dstE \in 0 .. REG_NONE /\ W.dstM \in 0 .. REG_NONE
          /\ AtM.r = set_reg_val(set_reg_val(reg, W.dstE, W.valE), W.dstM, W.valM)
      BY CycleFacts, PastW DEF Cycle
    <3>3. /\ M.dstE \in 0 .. REG_NONE /\ M.dstM \in 0 .. REG_NONE
          /\ AtE.r = set_reg_val(set_reg_val(AtM.r, M.dstE, M.valE), M.dstM, m_valM)
      BY CycleFacts, PastM DEF Cycle
    <3>4. /\ e_dstE \in 0 .. REG_NONE /\ E.dstM \in 0 .. REG_NONE
          /\ AtD.r = set_reg_val(set_reg_val(AtE.r, e_dstE, e_valE), E.dstM,
                                 seq_valM(AtE, InE, 0))
      BY <1>1, CycleFacts, PastE DEF Cycle
    <3>5. src # E.dstM
      <4>1. CASE E.icode \in {I_MRMOVQ, I_POPQ}
        BY <2>1, <2>8, <4>1 DEF LoadUse
      <4>2. CASE E.icode \notin {I_MRMOVQ, I_POPQ}
        <5>1. E.dstM = REG_NONE
          BY <4>2 DEF MatchE, seq_dstM, Cycle, Structure
        <5> QED  BY <2>8, <5>1
      <4> QED  BY <4>1, <4>2
    <3> QED  BY <2>8, <3>1, <3>2, <3>3, <3>4, <3>5, Forwarding DEF Cycle
  <2>9. InD.icode \in {I_CALL, I_JMP} => E'.valA = InD.valP
    BY <2>2, <2>3 DEF d_valA
  <2>10. seq_srcA(InD) # REG_NONE => E'.valA = seq_valA(AtD, InD)
    <3>1. seq_srcA(InD) # REG_NONE => InD.icode \notin {I_CALL, I_JMP}
      BY DEF seq_srcA, I_RRMOVQ, I_RMMOVQ, I_ALU, I_PUSHQ, I_POPQ, I_RET, I_CALL, I_JMP
    <3>2. D.icode = InD.icode
      BY <2>3
    <3>3. seq_srcA(InD) # REG_NONE => E'.valA = Forwarded(d_srcA)
      BY <2>2, <3>1, <3>2 DEF d_valA
    <3> QED  BY <2>6, <2>8, <3>3 DEF seq_valA
  <2>11. seq_srcB(InD) # REG_NONE => E'.valB = seq_valB(AtD, InD)
    <3>1. E'.valB = Forwarded(d_srcB)
      BY <2>2 DEF d_valB
    <3> QED  BY <2>6, <2>8, <3>1 DEF seq_valB
  <2>12. MatchE'
    <3>1. D.icode = InD.icode /\ D.ifun = InD.ifun /\ D.stat = InD.stat /\ D.valC = InD.valC
      BY <2>3
    <3>2. D.pc = AtD.pc
      BY <2>3, <2>4
    <3> HIDE DEF InD, AtD
    <3> QED  BY <1>1, <2>2, <2>5, <2>6, <2>7, <2>9, <2>10, <2>11, <3>1, <3>2 DEF MatchE
  <2> QED  BY <2>3, <2>5, <2>12
<1>4. MatchE'
  BY <1>3 DEF MatchE
<1> QED  BY <1>2, <1>3, <1>4

(* The instruction fetched is the next one, unless it is about to be       *)
(* replaced.                                                               *)
LEMMA NextD ==
    ASSUME Cycle, icount <= instr_limit - 3, MatchE, cc = AtE.cc,
           m_stat \notin Excepted, SaneM', SaneE => MatchD /\ MatchF,
           ~Mispredicted'
    PROVE  /\ E'.stat = "BUB" => AtD' = AtD
           /\ E'.stat # "BUB" /\ D.icode # I_RET => AtD'.pc = Predicted(D)
<1>0. icount <= instr_limit - 2
  BY CycleFacts
<1>1. AtE' = AtD
  BY <1>0, NextE
<1>2. AtD' = IF E'.stat = "BUB" THEN AtE' ELSE Do(AtE', InE')
  BY DEF AtD
<1>3. ASSUME E'.stat # "BUB", D.icode # I_RET PROVE AtD'.pc = Predicted(D)
  <2>1. InE' = InD /\ D = InD /\ MatchE' /\ cc' = AtE'.cc
    BY <1>3, CycleE
  <2>2. AtD'.pc = seq_pc(AtD, InD, 0)
    BY <1>1, <1>2, <1>3, <2>1, DoFields
  <2>3. InD.icode = I_JMP => seq_Cnd(AtD, InD)
    <3>1. E'.icode = InD.icode /\ E'.ifun = InD.ifun
      BY <1>3, <2>1 DEF MatchE
    <3>2. Mispredicted' = (E'.icode = I_JMP /\ ~cond_holds(cc', E'.ifun))
      BY DEF Mispredicted, e_Cnd
    <3> QED  BY <1>1, <2>1, <3>1, <3>2 DEF seq_Cnd
  <2>4. D.icode = InD.icode /\ D.valC = InD.valC /\ D.valP = InD.valP
    BY <2>1
  <2> HIDE DEF InD, AtD
  <2>5. seq_pc(AtD, InD, 0) = Predicted(InD)
    <3> USE DEF I_JMP, I_CALL, I_RET
    <3> QED  BY <1>3, <2>3, <2>4 DEF seq_pc, Predicted
  <2> QED  BY <2>2, <2>4, <2>5 DEF Predicted
<1> QED  BY <1>1, <1>2, <1>3

(* Fetch, by definition.                                                   *)
LEMMA FetchIsRaw == fetch = Raw(mem, f_pc)
  BY DEF fetch, Raw

(* The instruction in D after the edge is the next one of the program,     *)
(* unless a branch is about to replace it.                                 *)
LEMMA CycleD ==
    ASSUME Cycle, icount <= instr_limit - 3, MatchE, cc = AtE.cc,
           m_stat \notin Excepted, SaneM', SaneE => MatchD /\ MatchF
    PROVE  MatchD'
<1>0. icount <= instr_limit - 2
  BY CycleFacts
<1> SUFFICES ASSUME ~Mispredicted', D'.stat # "BUB" PROVE D' = InD'
  BY DEF MatchD
<1>1. SaneE /\ MatchD /\ MatchF
  BY <1>0, NextE
<1>2. ~(D' = Bubble.D)
  BY DEF Bubble
<1>3. /\ mem \in Memory /\ mem' \in Memory /\ AtD.pc \in Word
      /\ AtD' \in State /\ AtD'.pc \in Word
  <2>1. mem' \in Memory /\ isa' \in State
    BY <1>0, CycleFacts, CycleMemory
  <2>2. AtM' \in State /\ AtE' \in State
    BY <1>0, <2>1, NextE, CycleFacts, ChainType DEF Cycle
  <2>3. AtE'.pc \in Word
    BY <2>2 DEF State
  <2>4. Typed(InE')
    <3>1. InE' = Raw(mem', AtE'.pc)
      BY DEF InE
    <3> QED  BY <2>1, <2>3, <3>1, RawType
  <2>5. AtD' \in State
    <3>1. AtD' = IF E'.stat = "BUB" THEN AtE' ELSE Do(AtE', InE')
      BY DEF AtD
    <3> QED  BY <2>2, <2>4, <3>1, DoType
  <2> QED  BY <2>1, <2>5, CycleFacts, ChainType DEF Cycle, State
<1>4. ASSUME D' = Raw(mem, AtD'.pc) PROVE D' = InD'
  <2>1. D'.pc = AtD'.pc
    BY <1>3, <1>4, RawType
  <2>2. mem' = IF mem_write /\ ValidWord(mem_addr)
               THEN set_word_val(mem, mem_addr, M.valA) ELSE mem
    BY <1>0, CycleFacts, Writeback DEF Cycle, sim_step_pipe
  <2>3. D' \in {D', E', M'}
    OBVIOUS
  <2>4. Raw(mem', AtD'.pc) = Raw(mem, AtD'.pc)
    BY <1>3, <2>1, <2>2, <2>3, Undisturbed DEF Cycle
  <2>5. InD' = Raw(mem', AtD'.pc)
    BY DEF InD
  <2> QED  BY <1>4, <2>4, <2>5
<1>5. CASE LoadUse
  <2>1. D' = D /\ E' = Bubble.E /\ Bubble.E.stat = "BUB"
    BY <1>5, CycleFacts DEF Bubble
  <2>2. ~Mispredicted
    BY <1>5 DEF LoadUse, Mispredicted, I_JMP, I_MRMOVQ, I_POPQ
  <2>3. D = InD
    BY <1>1, <2>1, <2>2 DEF MatchD
  <2>4. AtD' = AtD
    BY <2>1, NextD
  <2> QED  BY <1>4, <2>1, <2>3, <2>4 DEF InD
<1>6. CASE ~LoadUse
  <2>1. ~Mispredicted /\ ~Returning /\ D' = fetch /\ E' = decode
    BY <1>2, <1>6, CycleFacts
  <2>2. f_pc = IF D.stat = "BUB" THEN AtD.pc ELSE Predicted(D)
    BY <1>1, <2>1 DEF MatchF, Redirected
  <2>3. E'.stat = D.stat
    BY <2>1 DEF decode
  <2>4. D.icode # I_RET
    BY <2>1 DEF Returning
  <2>5. f_pc = AtD'.pc
    BY <2>2, <2>3, <2>4, NextD
  <2> QED  BY <1>4, <2>1, <2>5, FetchIsRaw
<1> QED  BY <1>5, <1>6

(* And so is the address of the one after it.                              *)
LEMMA CycleF ==
    ASSUME Cycle, icount <= instr_limit - 3, MatchE, cc = AtE.cc, MatchM,
           m_stat \notin Excepted, SaneM', SaneE => MatchD /\ MatchF
    PROVE  MatchF'
<1> USE DEF I_JMP, I_RET
<1>0. icount <= instr_limit - 2
  BY CycleFacts
<1> SUFFICES ASSUME ~Mispredicted', ~Returning'
             PROVE  f_pc' = IF D'.stat = "BUB" THEN AtD'.pc ELSE Predicted(D')
  BY DEF MatchF, Redirected
<1>1. SaneM /\ SaneE /\ MatchD /\ MatchF /\ Structure
  BY <1>0, NextE, CycleFacts DEF Cycle
<1>2. /\ W' = memory /\ M' = execute
      /\ E' = IF Mispredicted \/ LoadUse THEN Bubble.E ELSE decode
      /\ D' = IF LoadUse THEN D
              ELSE IF Mispredicted \/ Returning THEN Bubble.D ELSE fetch
      /\ F' = IF LoadUse \/ Returning THEN F ELSE f_predPC
  BY CycleFacts
<1>3. /\ W'.icode = M.icode /\ W'.valM = m_valM
      /\ M'.icode = E.icode /\ M'.Cnd = e_Cnd /\ M'.valA = E.valA
      /\ Bubble.E.stat = "BUB" /\ Bubble.D.stat = "BUB"
  BY <1>2 DEF memory, execute, Bubble
<1>4. f_pc' = IF M'.icode = I_JMP /\ ~M'.Cnd THEN M'.valA
              ELSE IF W'.icode = I_RET THEN W'.valM ELSE F'.pc
  BY DEF f_pc
<1>5. ~(D'.icode = I_RET) /\ ~(E'.icode = I_RET) /\ ~(M'.icode = I_RET)
  BY DEF Returning
<1>6. CASE LoadUse
  <2>1. D' = D /\ E'.stat = "BUB" /\ F' = F
    BY <1>2, <1>3, <1>6
  <2>2. E.icode \in {I_MRMOVQ, I_POPQ}
    BY <1>6 DEF LoadUse
  <2>3. E.icode # I_NOP /\ E.icode # I_JMP /\ E.icode # I_RET
    BY <2>2 DEF I_MRMOVQ, I_POPQ, I_NOP
  <2>4. E.stat # "BUB"
    BY <1>1, <2>3 DEF Structure
  <2>5. M.icode # I_RET /\ W.icode # I_RET /\ ~(M.icode = I_JMP /\ ~M.Cnd)
    BY <1>1, <2>4 DEF Structure
  <2>6. f_pc = F.pc /\ f_pc' = F.pc
    BY <1>3, <1>4, <2>1, <2>3, <2>5 DEF f_pc
  <2>7. ~Mispredicted /\ ~Returning
    BY <1>5, <2>1, <2>3, <2>5 DEF Mispredicted, Returning
  <2>8. AtD' = AtD
    BY <2>1, NextD
  <2> QED  BY <1>1, <2>1, <2>6, <2>7, <2>8 DEF MatchF, Redirected
<1>7. CASE Mispredicted
  <2>1. E.icode = I_JMP /\ ~e_Cnd /\ ~LoadUse
    BY <1>7 DEF Mispredicted, LoadUse, I_MRMOVQ, I_POPQ
  <2>2. D'.stat = "BUB" /\ E'.stat = "BUB"
    BY <1>2, <1>3, <1>7, <2>1
  <2>3. f_pc' = E.valA
    BY <1>3, <1>4, <2>1
  <2>4. E.stat # "BUB"
    BY <1>1, <2>1 DEF Structure, I_NOP
  <2>5. InE.icode = I_JMP /\ E.valA = InE.valP
    BY <2>1, <2>4 DEF MatchE
  <2>6. e_Cnd = seq_Cnd(AtE, InE)
    BY <2>4, ExecuteStage
  <2>7. AtD.pc = seq_pc(AtE, InE, 0)
    BY <2>4, DoFields DEF AtD
  <2>8. seq_pc(AtE, InE, 0) = InE.valP
    BY <2>1, <2>5, <2>6 DEF seq_pc, I_CALL
  <2>9. AtD' = AtD
    BY <2>2, NextD
  <2> QED  BY <2>2, <2>3, <2>5, <2>7, <2>8, <2>9
<1>8. CASE Returning /\ ~LoadUse /\ ~Mispredicted
  <2>1. D'.stat = "BUB" /\ E' = decode /\ E'.icode = D.icode /\ E'.stat = D.stat
    BY <1>2, <1>3, <1>8 DEF decode
  <2>2. M.icode = I_RET
    BY <1>3, <1>5, <1>8, <2>1 DEF Returning
  <2>3. D.stat = "BUB" /\ E.stat = "BUB" /\ E.icode = I_NOP
    BY <1>1, <2>2 DEF Structure
  <2>4. f_pc' = m_valM
    BY <1>3, <1>4, <2>2, <2>3 DEF I_NOP
  <2>5. M.stat # "BUB"
    BY <1>1, <2>2 DEF Structure, I_NOP
  <2>6. InM.icode = I_RET /\ m_valM = seq_valM(AtM, InM, 0)
    <3>1. Sane(InM)
      BY <1>1, <2>5 DEF SaneM
    <3> QED  BY <2>2, <2>5, <3>1, MemoryStage DEF Cycle, MatchM
  <2>7. AtD = AtE /\ AtE = Do(AtM, InM)
    BY <2>3, <2>5 DEF AtD, AtE
  <2>8. AtD.pc = seq_pc(AtM, InM, 0)
    BY <2>7, DoFields
  <2>9. seq_pc(AtM, InM, 0) = seq_valM(AtM, InM, 0)
    BY <2>6 DEF seq_pc, I_CALL
  <2>10. AtD' = AtD
    BY <2>1, <2>3, NextD
  <2> QED  BY <2>1, <2>4, <2>6, <2>8, <2>9, <2>10
<1>9. CASE ~Returning /\ ~LoadUse /\ ~Mispredicted
  <2>1. D' = fetch /\ F' = f_predPC
    BY <1>2, <1>9
  <2>2. D'.stat # "BUB"
    BY <2>1 DEF fetch
  <2>3. M.icode # I_RET /\ ~(E.icode = I_JMP /\ ~e_Cnd)
    BY <1>9 DEF Returning, Mispredicted
  <2>4. f_pc' = f_predPC.pc
    BY <1>3, <1>4, <2>1, <2>3
  <2>5. f_predPC.pc = Predicted(fetch)
    BY DEF f_predPC, Predicted
  <2> QED  BY <2>1, <2>2, <2>4, <2>5
<1> QED  BY <1>6, <1>7, <1>8, <1>9

(***************************************************************************)
(* The invariant.                                                          *)
(***************************************************************************)
(* The invariant.                                                          *)
PipeInv ==
  /\ isa \in State /\ Structure /\ Wired
  /\ ClaimW /\ ClaimM /\ ClaimE /\ ClaimD

(* What depends on the pipeline registers and the state alone.             *)
LEMMA SameClaims ==
    ASSUME curr' = curr, mem' = mem, reg' = reg, cc' = cc, isa' = isa
    PROVE  /\ Structure' = Structure /\ W' = W /\ AtM' = AtM /\ AtE' = AtE
           /\ SaneM' = SaneM /\ SaneE' = SaneE
           /\ MatchW' = MatchW /\ MatchM' = MatchM /\ Stopped' = Stopped
           /\ MatchE' = MatchE /\ MatchD' = MatchD /\ MatchF' = MatchF
           /\ Stat' = Stat
<1>1. F' = F /\ D' = D /\ E' = E /\ M' = M /\ W' = W
  BY DEF F, D, E, M, W
<1>2. After' = After /\ AtM' = AtM
  BY <1>1 DEF After, AtM
<1>3. InM' = InM
  BY <1>2 DEF InM
<1>4. AtE' = AtE
  BY <1>1, <1>2, <1>3 DEF AtE
<1>5. InE' = InE
  BY <1>4 DEF InE
<1>6. AtD' = AtD
  BY <1>1, <1>4, <1>5 DEF AtD
<1>7. InD' = InD
  BY <1>6 DEF InD
<1>8. SaneM' = SaneM
  BY <1>1, <1>3 DEF SaneM
<1>9. SaneE' = SaneE
  BY <1>1, <1>5, <1>8 DEF SaneE
<1>10. MatchW' = MatchW
  BY <1>1 DEF MatchW
<1>11. MatchM' = MatchM
  BY <1>1, <1>2, <1>3 DEF MatchM
<1>12. MatchE' = MatchE
  BY <1>1, <1>4, <1>5 DEF MatchE
<1>13. e_Cnd' = e_Cnd /\ Mispredicted' = Mispredicted /\ Returning' = Returning /\ f_pc' = f_pc
  BY <1>1 DEF e_Cnd, Mispredicted, Returning, f_pc
<1>14. MatchD' = MatchD
  BY <1>1, <1>7, <1>13 DEF MatchD
<1>15. MatchF' = MatchF
  BY <1>1, <1>6, <1>13 DEF MatchF, Redirected
<1>16. Stopped' = Stopped /\ Structure' = Structure /\ Stat' = Stat
  BY <1>1, <1>2 DEF Stopped, Structure, Stat
<1> QED
  BY <1>1, <1>2, <1>4, <1>8, <1>9, <1>10, <1>11, <1>12, <1>14, <1>15, <1>16

(* The invariant holds when the bubbles are in place.                      *)
LEMMA PipeInvInit == ASSUME Init PROVE PipeInv
<1> USE DEF Init
<1>1. Cleared /\ Wired
  BY WiredInit
<1>2. /\ F = Bubble.F /\ D = Bubble.D /\ E = Bubble.E /\ M = Bubble.M /\ W = Bubble.W
  BY <1>1 DEF Cleared, F, D, E, M, W
<1>3. mem \in Memory
  BY PipeAssumption DEF PipeInit
<1>4. isa = [pc |-> 0, r |-> NoRegs, m |-> mem, cc |-> DEFAULT_CC]
  BY DEF new_state
<1>5. isa \in State
  <2>1. 0 \in Word /\ NoRegs \in RegFile /\ DEFAULT_CC \in CC
    BY ModulusIs DEF NoRegs, RegFile, DEFAULT_CC, CC
  <2> HIDE DEF Init
  <2> QED  BY <1>3, <1>4, <2>1 DEF State
<1>6. /\ D.stat = "BUB" /\ D.icode = I_NOP
      /\ E.stat = "BUB" /\ E.icode = I_NOP /\ E.dstE = REG_NONE /\ E.dstM = REG_NONE
      /\ M.stat = "BUB" /\ M.icode = I_NOP /\ M.dstE = REG_NONE /\ M.dstM = REG_NONE
      /\ W.stat = "BUB" /\ W.icode = I_NOP /\ W.dstE = REG_NONE /\ W.dstM = REG_NONE
      /\ F.pc = 0
  BY <1>2 DEF Bubble
<1>7. Structure
  BY <1>6 DEF Structure, Stats, I_NOP, I_JMP, I_RET
<1>8. AtM = isa /\ AtE = isa /\ AtD = isa
  BY <1>6 DEF AtM, After, AtE, AtD
<1>9. reg = isa.r /\ mem = isa.m /\ cc = isa.cc /\ isa.pc = 0
  BY <1>4 DEF PipeInit
<1>10. f_pc = 0
  BY <1>6 DEF f_pc, I_NOP, I_JMP, I_RET
<1>11. ClaimW
  BY <1>6, <1>9 DEF ClaimW, MatchW
<1>12. ClaimM
  BY <1>6, <1>8, <1>9 DEF ClaimM, MatchM, Stopped, Excepted
<1>13. ClaimE
  BY <1>6, <1>8, <1>9 DEF ClaimE, MatchE
<1>14. ClaimD
  BY <1>6, <1>8, <1>9, <1>10 DEF ClaimD, MatchD, MatchF
<1> HIDE DEF Init
<1> QED  BY <1>1, <1>5, <1>7, <1>11, <1>12, <1>13, <1>14 DEF PipeInv

(* A stuttering step preserves it.                                         *)
LEMMA PipeInvStutter == ASSUME PipeInv, UNCHANGED vars PROVE PipeInv'
<1>1. /\ curr' = curr /\ next' = next /\ op' = op /\ reg' = reg /\ mem' = mem /\ cc' = cc
      /\ cc_in' = cc_in /\ wb' = wb /\ store' = store /\ status' = status
      /\ icount' = icount /\ isa' = isa /\ lawful' = lawful
  BY DEF vars, pipeVars
<1>2. F' = F /\ D' = D /\ E' = E /\ M' = M /\ W' = W
  BY <1>1 DEF F, D, E, M, W
<1>3. Cleared' = Cleared
  BY <1>1 DEF Cleared
<1>4. Wires' = Wires
  <2>1. f_pc' = f_pc
    BY <1>2 DEF f_pc
  <2>2. fetch' = fetch
    BY <1>1, <2>1 DEF fetch
  <2>3. f_predPC' = f_predPC
    BY <2>2 DEF f_predPC
  <2>4. mem_read' = mem_read /\ mem_write' = mem_write /\ mem_addr' = mem_addr
    BY <1>2 DEF mem_read, mem_write, mem_addr
  <2>5. dmem_error' = dmem_error
    BY <2>4 DEF dmem_error
  <2>6. m_stat' = m_stat /\ m_valM' = m_valM
    BY <1>1, <1>2, <2>4, <2>5 DEF m_stat, m_valM
  <2>7. memory' = memory
    BY <1>2, <2>6 DEF memory
  <2>8. aluA' = aluA /\ aluB' = aluB /\ alufun' = alufun /\ e_Cnd' = e_Cnd
    BY <1>1, <1>2 DEF aluA, aluB, alufun, e_Cnd
  <2>9. e_valE' = e_valE /\ e_dstE' = e_dstE
    BY <1>2, <2>8 DEF e_valE, e_dstE
  <2>10. execute' = execute
    BY <1>2, <2>8, <2>9 DEF execute
  <2>11. set_cc' = set_cc
    BY <1>2, <2>6 DEF set_cc
  <2>12. d_srcA' = d_srcA /\ d_srcB' = d_srcB /\ d_dstE' = d_dstE /\ d_dstM' = d_dstM
    BY <1>2 DEF d_srcA, d_srcB, d_dstE, d_dstM
  <2>13. Sources' = Sources
    BY <1>2, <2>6, <2>9 DEF Sources
  <2>14. d_valA' = d_valA /\ d_valB' = d_valB
    BY <1>1, <1>2, <2>12, <2>13 DEF d_valA, d_valB, Forwarded
  <2>15. decode' = decode
    BY <1>2, <2>12, <2>14 DEF decode
  <2>16. LoadUse' = LoadUse /\ Returning' = Returning /\ Mispredicted' = Mispredicted
    BY <1>2, <2>8, <2>12 DEF LoadUse, Returning, Mispredicted
  <2>17. Stall' = Stall /\ Inject' = Inject
    BY <1>2, <2>6, <2>16 DEF Stall, Inject
  <2> QED
    BY <1>1, <1>2, <2>2, <2>3, <2>4, <2>7, <2>8, <2>10, <2>11, <2>15, <2>17 DEF Wires
<1>5. Wired'
  BY <1>1, <1>2, <1>3, <1>4, SameClaims DEF Wired, PipeInv
<1>6. /\ Structure' = Structure /\ W' = W /\ AtM' = AtM /\ AtE' = AtE
      /\ SaneM' = SaneM /\ SaneE' = SaneE
      /\ MatchW' = MatchW /\ MatchM' = MatchM /\ Stopped' = Stopped
      /\ MatchE' = MatchE /\ MatchD' = MatchD /\ MatchF' = MatchF
  BY <1>1, SameClaims
<1>7. ClaimW' /\ ClaimM'
  BY <1>1, <1>6 DEF ClaimW, ClaimM, PipeInv
<1>8. ClaimE' /\ ClaimD'
  BY <1>1, <1>6 DEF ClaimE, ClaimD, PipeInv
<1> QED  BY <1>1, <1>5, <1>6, <1>7, <1>8 DEF PipeInv

(* The first cycle preserves it.                                           *)
LEMMA PipeInvFirst ==
    ASSUME PipeInv, Next, Cleared
    PROVE  PipeInv'
<1>1. sim_step_pipe /\ Reference /\ update_state /\ update_pipes /\ do_stages /\ count
  BY DEF Next, sim_step_pipe
<1>2. curr' = curr /\ reg' = reg /\ mem' = mem /\ cc' = cc
  BY <1>1, FirstEdge DEF PipeInv
<1>3. W'.stat = "BUB" /\ W.stat = "BUB"
  <2>1. W' = W
    BY <1>2 DEF W
  <2>2. W.stat = "BUB"
    BY DEF Cleared, W, Bubble
  <2> QED  BY <2>1, <2>2
<1>4. isa' = isa
  BY <1>1, <1>3 DEF Reference
<1>5. lawful' => lawful
  BY DEF Next
<1>6. icount' = icount + 1 /\ icount \in Nat /\ instr_limit \in Nat /\ Wired'
  BY <1>1, Counts, WiredStep, PipeAssumption DEF PipeInv, Wired
<1>7. /\ Structure' = Structure /\ W' = W /\ AtM' = AtM /\ AtE' = AtE
      /\ SaneM' = SaneM /\ SaneE' = SaneE
      /\ MatchW' = MatchW /\ MatchM' = MatchM /\ Stopped' = Stopped
      /\ MatchE' = MatchE /\ MatchD' = MatchD /\ MatchF' = MatchF
  BY <1>2, <1>4, SameClaims
<1>8. /\ icount' <= instr_limit - 1 => icount <= instr_limit - 1
      /\ icount' <= instr_limit - 2 => icount <= instr_limit - 2
  BY <1>6
<1>9. ClaimW' /\ ClaimM'
  BY <1>2, <1>4, <1>5, <1>7, <1>8 DEF ClaimW, ClaimM, PipeInv
<1>10. ClaimE' /\ ClaimD'
  BY <1>2, <1>5, <1>7, <1>8 DEF ClaimE, ClaimD, PipeInv
<1> QED  BY <1>4, <1>6, <1>7, <1>9, <1>10 DEF PipeInv

(* So does every other cycle.                                              *)
LEMMA PipeInvStep ==
    ASSUME PipeInv, Next, Wires
    PROVE  PipeInv'
<1>1. sim_step_pipe /\ Reference
  BY DEF Next
<1>2. Wired' /\ Structure'
  BY <1>1, WiredStep, StructureStep DEF PipeInv
<1>3. isa' = AtM
  BY <1>1 DEF Reference, AtM, After
<1>4. isa' \in State
  BY <1>3, StepType DEF PipeInv, AtM, After
<1>5. icount \in Nat /\ instr_limit \in Nat /\ icount <= instr_limit - 1 /\ icount' = icount + 1
  <2>1. icount \in Nat /\ instr_limit \in Nat /\ icount < instr_limit
    BY <1>1, PipeAssumption DEF PipeInv, Wired, sim_step_pipe, Running
  <2> QED  BY <1>1, <2>1, Counts DEF PipeInv, sim_step_pipe
<1>6. ASSUME lawful' PROVE Cycle /\ lawful
  <2>1. lawful /\ ~Overtaken /\ (W'.stat # "BUB" => WellFormed(isa'))
    BY <1>6 DEF Next
  <2>2. MatchW /\ reg = isa.r
    BY <2>1 DEF PipeInv, ClaimW
  <2>3. mem = AtM.m /\ MatchM
    BY <1>5, <2>1 DEF PipeInv, ClaimM
  <2> QED  BY <1>1, <1>3, <2>1, <2>2, <2>3 DEF Cycle, PipeInv
<1>7. ClaimW'
  BY <1>6, CycleFacts DEF ClaimW
<1>8. ASSUME lawful', icount <= instr_limit - 2
      PROVE  MatchE /\ cc = AtE.cc /\ (SaneE => MatchD /\ MatchF)
  <2>1. W.stat \notin Excepted /\ SaneM
    BY <1>6, <1>8, CycleFacts
  <2> QED  BY <1>6, <1>8, <2>1 DEF PipeInv, ClaimE, ClaimD
<1>9. ClaimM'
  <2> SUFFICES ASSUME lawful', icount' <= instr_limit - 1
               PROVE  mem' = AtM'.m /\ MatchM' /\ Stopped'
    BY PipeAssumption DEF ClaimM
  <2>1. icount <= instr_limit - 2
    BY <1>5
  <2> QED  BY <1>6, <1>8, <2>1, CycleMemory, CycleM
<1>10. ASSUME lawful', icount' <= instr_limit - 2, W'.stat \notin Excepted, SaneM'
       PROVE  MatchE' /\ cc' = AtE'.cc /\ MatchD' /\ MatchF'
  <2>1. icount <= instr_limit - 3 /\ icount <= instr_limit - 2
    BY <1>5, <1>10
  <2>2. m_stat \notin Excepted
    <3>1. W'.stat = m_stat
      BY <1>6, <1>10, CycleFacts DEF memory
    <3> QED  BY <1>10, <3>1
  <2>3. MatchE' /\ cc' = AtE'.cc
    BY <1>6, <1>8, <1>10, <2>1, <2>2, CycleE
  <2>4. MatchD'
    BY <1>6, <1>8, <1>10, <2>1, <2>2, CycleD
  <2>5. MatchF'
    BY <1>6, <1>8, <1>10, <2>1, <2>2, CycleF DEF Cycle
  <2> QED  BY <2>3, <2>4, <2>5
<1>11. ClaimE'
  BY <1>10 DEF ClaimE
<1>12. ClaimD'
  BY <1>10 DEF ClaimD, SaneE
<1> QED  BY <1>2, <1>4, <1>7, <1>9, <1>11, <1>12 DEF PipeInv

(* THE PIPELINE INVARIANT. In every state PIPE reaches, on any program:    *)
(* the instructions in W, M, E and D are the next ones of the reference,   *)
(* each with the operands and results the reference gives it, and          *)
(* registers, memory and flags are what the instructions that have passed  *)
(* write-back, memory and execute have left, as long as the program is one *)
(* PIPE is made for and the limit of instructions is not near (psim.c      *)
(* 1030-1170, pipe-full.hcl).                                              *)
THEOREM PipelineInvariant == Spec => []PipeInv
<1>1. Init => PipeInv
  BY PipeInvInit
<1>2. PipeInv /\ [Next]_vars => PipeInv'
  <2>1. PipeInv /\ Next => PipeInv'
    BY PipeInvFirst, PipeInvStep DEF PipeInv, Wired
  <2> QED  BY <2>1, PipeInvStutter
<1> QED  BY <1>1, <1>2, PTL DEF Spec

(***************************************************************************)
(* What is checked of PIPE.                                                *)
(***************************************************************************)
(* An instruction's status is step_state's.                                *)
LEMMA StepStatus ==
    ASSUME NEW s \in State, WellFormed(s), NEW i, i = Raw(s.m, s.pc)
    PROVE  step_state(s).stat = IF seq_dmem_error(s, i) THEN "ADR" ELSE i.stat
<1>1. Agrees(i, Fetched(s))
  BY RawWellFormed
<1>2. i.stat = IF ~instr_valid(i.icode) THEN "INS"
               ELSE IF i.icode = I_HALT THEN "HLT" ELSE "AOK"
  BY RawWellFormed
<1>3. /\ instr_valid(i.icode) /\ i.icode # I_HALT /\ ~seq_dmem_error(s, i)
           => step_state(s) = [s |-> Updated(s, Computed(s, i, 0)), stat |-> "AOK"]
      /\ i.icode = I_HALT => step_state(s) = [s |-> s, stat |-> "HLT"]
      /\ ~instr_valid(i.icode) => step_state(s) = [s |-> s, stat |-> "INS"]
      /\ seq_dmem_error(s, i) => step_state(s).stat = "ADR"
  BY <1>1, OneInstruction
<1>4. CASE seq_dmem_error(s, i)
  BY <1>3, <1>4
<1>5. CASE ~seq_dmem_error(s, i) /\ ~instr_valid(i.icode)
  BY <1>2, <1>3, <1>5
<1>6. CASE ~seq_dmem_error(s, i) /\ instr_valid(i.icode) /\ i.icode = I_HALT
  BY <1>2, <1>3, <1>6
<1>7. CASE ~seq_dmem_error(s, i) /\ instr_valid(i.icode) /\ i.icode # I_HALT
  BY <1>2, <1>3, <1>7
<1> QED  BY <1>4, <1>5, <1>6, <1>7

(* CommitsInOrder follows from the invariant.                              *)
LEMMA InvCommits == ASSUME PipeInv PROVE CommitsInOrder
<1> SUFFICES ASSUME lawful, W.stat # "BUB"
             PROVE  W.pc = isa.pc /\ W.stat = step_state(isa).stat
  BY DEF CommitsInOrder
<1> DEFINE i == Raw(isa.m, isa.pc)
<1>1. /\ isa \in State /\ WellFormed(isa) /\ W.pc = isa.pc
      /\ W.stat = IF seq_dmem_error(isa, i) THEN "ADR" ELSE i.stat
  BY DEF PipeInv, ClaimW, MatchW
<1>2. step_state(isa).stat = IF seq_dmem_error(isa, i) THEN "ADR" ELSE i.stat
  BY <1>1, StepStatus
<1> QED  BY <1>1, <1>2

(* The instruction PIPE has in W is the reference's next one and fails     *)
(* exactly as step_state says, for every program, memory size, word size   *)
(* and limit: no stall, bubble, misprediction or return loses an           *)
(* instruction, repeats one or lets one of a wrong path through.           *)
THEOREM InOrder == Spec => []CommitsInOrder
<1>1. PipeInv => CommitsInOrder
  BY InvCommits
<1> QED  BY <1>1, PipelineInvariant, PTL

(* The flags step_state leaves.                                            *)
LEMMA NextFlags ==
    ASSUME NEW s \in State, WellFormed(s), NEW i, i = Raw(s.m, s.pc)
    PROVE  step_state(s).s.cc = IF i.stat = "AOK" THEN Do(s, i).cc ELSE s.cc
<1>1. Agrees(i, Fetched(s))
  BY RawWellFormed
<1>2. i.stat = IF ~instr_valid(i.icode) THEN "INS"
               ELSE IF i.icode = I_HALT THEN "HLT" ELSE "AOK"
  BY RawWellFormed
<1>3. /\ instr_valid(i.icode) /\ i.icode # I_HALT /\ ~seq_dmem_error(s, i)
           => step_state(s) = [s |-> Do(s, i), stat |-> "AOK"]
      /\ i.icode = I_HALT => step_state(s) = [s |-> s, stat |-> "HLT"]
      /\ ~instr_valid(i.icode) => step_state(s) = [s |-> s, stat |-> "INS"]
      /\ seq_dmem_error(s, i) => /\ instr_valid(i.icode) /\ i.icode # I_HALT
                                 /\ i.icode \notin {I_ALU, I_IADDQ}
                                 /\ step_state(s).s.cc = s.cc
  <2>1. /\ instr_valid(i.icode) /\ i.icode # I_HALT /\ ~seq_dmem_error(s, i)
             => step_state(s) = [s |-> Updated(s, Computed(s, i, 0)), stat |-> "AOK"]
        /\ i.icode = I_HALT => step_state(s) = [s |-> s, stat |-> "HLT"]
        /\ ~instr_valid(i.icode) => step_state(s) = [s |-> s, stat |-> "INS"]
    BY <1>1, OneInstruction
  <2>2. seq_dmem_error(s, i) => instr_valid(i.icode) /\ i.icode # I_HALT
    BY <1>1, OneInstruction
  <2>3. seq_dmem_error(s, i) => i.icode \notin {I_ALU, I_IADDQ}
    BY <1>1, OneInstruction
  <2>4. seq_dmem_error(s, i) => step_state(s).s.cc = s.cc
    BY <1>1, OneInstruction
  <2>5. Do(s, i) = Updated(s, Computed(s, i, 0))
    BY DEF Do
  <2> QED  BY <2>1, <2>2, <2>3, <2>4, <2>5
<1>4. CASE seq_dmem_error(s, i)
  <2>1. Do(s, i).cc = s.cc
    BY <1>3, <1>4, DoFields DEF seq_cc
  <2> QED  BY <1>2, <1>3, <1>4, <2>1
<1>5. CASE ~seq_dmem_error(s, i) /\ ~instr_valid(i.icode)
  BY <1>2, <1>3, <1>5
<1>6. CASE ~seq_dmem_error(s, i) /\ instr_valid(i.icode) /\ i.icode = I_HALT
  BY <1>2, <1>3, <1>6
<1>7. CASE ~seq_dmem_error(s, i) /\ instr_valid(i.icode) /\ i.icode # I_HALT
  BY <1>2, <1>3, <1>7
<1> QED  BY <1>4, <1>5, <1>6, <1>7

\* What a byte that is no valid instruction, or halt, does to the flags.
LEMMA RefusedRaw ==
    ASSUME NEW m, NEW pc, Raw(m, pc).stat \in Excepted
    PROVE  /\ Raw(m, pc).icode \notin {I_ALU, I_IADDQ}
           /\ Sane(Raw(m, pc))
<1> DEFINE imem_error == ~ValidByte(pc) \/ ~ValidByte(Plus(pc, LOOKAHEAD))
           instr == IF imem_error THEN HPACK(I_NOP, 0) ELSE get_byte_val(m, pc)
           icode == HI4(instr)
<1>1. /\ Raw(m, pc).icode = icode
      /\ Raw(m, pc).stat = IF imem_error THEN "ADR"
                ELSE IF ~instr_valid(icode) THEN "INS"
                ELSE IF icode = I_HALT THEN "HLT" ELSE "AOK"
  BY DEF Raw
<1>2. imem_error => icode = I_NOP
  BY DEF HPACK, HI4, I_NOP
<1> HIDE DEF imem_error, instr, icode
<1>3. imem_error \/ ~instr_valid(icode) \/ icode = I_HALT
  BY <1>1 DEF Excepted
<1>4. icode = I_NOP \/ icode = I_HALT \/ ~instr_valid(icode)
  BY <1>2, <1>3
<1>5. icode \notin {I_RRMOVQ, I_RMMOVQ, I_MRMOVQ, I_ALU, I_PUSHQ, I_POPQ, I_IRMOVQ, I_IADDQ}
  BY <1>4 DEF instr_valid, I_HALT, I_NOP, I_RRMOVQ, I_RMMOVQ, I_MRMOVQ, I_ALU,
              I_PUSHQ, I_POPQ, I_IRMOVQ, I_IADDQ
<1> QED  BY <1>1, <1>5 DEF Sane

(* StatePrecise follows from the invariant.                                *)
LEMMA InvState == ASSUME PipeInv PROVE StatePrecise
<1> SUFFICES ASSUME lawful, icount <= instr_limit - 2
             PROVE  /\ reg = isa.r
                    /\ mem = After.m
                    /\ FlagsAhead /\ WellFormed(After) => cc = step_state(After).s.cc
                    /\ ~FlagsAhead => cc = After.cc
  BY DEF StatePrecise, Within
<1>1. isa \in State /\ Structure /\ icount \in Nat /\ instr_limit \in Nat
  BY PipeAssumption DEF PipeInv, Wired
<1>2. reg = isa.r
  BY DEF PipeInv, ClaimW
<1>3. icount <= instr_limit - 1
  BY <1>1
<1>4. mem = AtM.m /\ MatchM /\ Stopped
  BY <1>3 DEF PipeInv, ClaimM
<1>5. mem \in Memory /\ AtM \in State /\ AtM = After
  <2>1. AtM \in State
    BY <1>1, StepType DEF AtM, After
  <2> QED  BY <1>4, <2>1 DEF State, AtM
<1>6. ASSUME W.stat \notin Excepted, SaneM PROVE cc = AtE.cc
  BY <1>6 DEF PipeInv, ClaimE
<1>7. ASSUME M.stat = "AOK", W.stat \in {"AOK", "BUB"}, WellFormed(After)
      PROVE  cc = step_state(After).s.cc
  <2>1. Sane(InM) /\ InM = Raw(AtM.m, AtM.pc)
    BY <1>4, <1>5, <1>7, RawWellFormed DEF InM
  <2>2. InM.stat = "AOK" /\ AtE = Do(AtM, InM)
    BY <1>4, <1>7 DEF MatchM, AtE
  <2>3. step_state(AtM).s.cc = Do(AtM, InM).cc
    BY <1>5, <1>7, <2>1, <2>2, NextFlags
  <2>4. W.stat \notin Excepted
    BY <1>7 DEF Excepted
  <2> QED  BY <1>5, <1>6, <2>1, <2>2, <2>3, <2>4 DEF SaneM
<1>8. ASSUME ~(M.stat = "AOK" /\ W.stat \in {"AOK", "BUB"}) PROVE cc = After.cc
  <2>1. CASE W.stat \in Excepted
    BY <1>4, <2>1 DEF Stopped
  <2>2. CASE W.stat \notin Excepted /\ M.stat = "BUB"
    <3>1. SaneM /\ AtE = AtM
      BY <2>2 DEF SaneM, AtE
    <3> QED  BY <1>5, <1>6, <2>2, <3>1
  <2>3. CASE W.stat \notin Excepted /\ M.stat # "BUB"
    <3>1. M.stat \in Excepted
      BY <1>1, <1>8, <2>3 DEF Structure, Stats
    <3>2. M.stat = InM.stat
      BY <1>4, <2>3 DEF MatchM
    <3>3. InM.icode \notin {I_ALU, I_IADDQ} /\ Sane(InM)
      BY <3>1, <3>2, RefusedRaw DEF InM
    <3>4. AtE = Do(AtM, InM) /\ SaneM
      BY <2>3, <3>3 DEF AtE, SaneM
    <3>5. AtE.cc = AtM.cc
      BY <3>3, <3>4, DoFields DEF seq_cc
    <3> QED  BY <1>5, <1>6, <2>3, <3>4, <3>5
  <2> QED  BY <2>1, <2>2, <2>3
<1> QED  BY <1>2, <1>4, <1>5, <1>7, <1>8 DEF FlagsAhead

(* The state a program sees is precise: registers, memory and flags of     *)
(* PIPE are those of the reference at write-back, memory and execute, and  *)
(* an instruction behind a failing one has changed none of them.           *)
THEOREM PipeIsPrecise == Spec => []StatePrecise
<1>1. PipeInv => StatePrecise
  BY InvState
<1> QED  BY <1>1, PipelineInvariant, PTL

(***************************************************************************)
(* SEQ.                                                                    *)
(***************************************************************************)
(* SEQ's state: what it has done, and what it is about to write.           *)
SeqInv ==
  /\ seq_count \in Nat /\ seq_count <= icount
  /\ lawful =>
       IF W.stat = "BUB" THEN isa = Updated(seq, pending) /\ seq_status = "AOK"
       ELSE /\ seq = isa /\ seq_status = step_state(isa).stat
            /\ seq_status = "AOK" => Updated(seq, pending) = step_state(isa).s

(* What SEQ computes for a well-formed instruction, and its status, are    *)
(* what step_state makes of it.                                            *)
LEMMA SeqOne ==
    ASSUME NEW s \in State, WellFormed(s), NEW last
    PROVE  /\ seq_Stat(s, seq_fetch(s)) = step_state(s).stat
           /\ step_state(s).stat = "AOK" =>
                Updated(s, Computed(s, seq_fetch(s), last)) = step_state(s).s
<1> DEFINE i == seq_fetch(s)
<1>1. s.pc + 2 + WORD <= MEM_SIZE
  BY DEF WellFormed
<1>2. Agrees(i, Fetched(s)) /\ ~i.imem_error
  BY <1>1, FetchAgrees
<1> HIDE DEF i
<1>3. /\ instr_valid(i.icode) /\ i.icode # I_HALT /\ ~seq_dmem_error(s, i)
           => step_state(s) = [s |-> Updated(s, Computed(s, i, last)), stat |-> "AOK"]
      /\ i.icode = I_HALT => step_state(s) = [s |-> s, stat |-> "HLT"]
      /\ ~instr_valid(i.icode) => step_state(s) = [s |-> s, stat |-> "INS"]
      /\ seq_dmem_error(s, i) => /\ instr_valid(i.icode) /\ i.icode # I_HALT
                                 /\ step_state(s).stat = "ADR"
  BY <1>2, OneInstruction
<1>4. CASE seq_dmem_error(s, i)
  <2>1. seq_Stat(s, i) = "ADR"
    BY <1>4 DEF seq_Stat
  <2> QED  BY <1>3, <1>4, <2>1 DEF i
<1>5. CASE ~seq_dmem_error(s, i) /\ ~instr_valid(i.icode)
  <2>1. seq_Stat(s, i) = "INS"
    BY <1>2, <1>5 DEF seq_Stat, instr_valid, I_HALT, I_IADDQ
  <2> QED  BY <1>3, <1>5, <2>1 DEF i
<1>6. CASE ~seq_dmem_error(s, i) /\ instr_valid(i.icode) /\ i.icode = I_HALT
  <2>1. seq_Stat(s, i) = "HLT"
    BY <1>2, <1>6 DEF seq_Stat
  <2> QED  BY <1>3, <1>6, <2>1 DEF i
<1>7. CASE ~seq_dmem_error(s, i) /\ instr_valid(i.icode) /\ i.icode # I_HALT
  <2>1. seq_Stat(s, i) = "AOK"
    BY <1>2, <1>7 DEF seq_Stat
  <2> QED  BY <1>3, <1>7, <2>1 DEF i
<1> QED  BY <1>4, <1>5, <1>6, <1>7

(* SEQ starts with nothing to write.                                       *)
LEMMA SeqInvInit == ASSUME Init PROVE SeqInv
<1>1. W.stat = "BUB" /\ icount = 0
  BY DEF Init, PipeInit, clear_pipes, W, Bubble
<1>2. seq_count = 0 /\ seq_status = "AOK" /\ seq = isa /\ pending = NoWrites
      /\ isa = [pc |-> 0, r |-> NoRegs, m |-> mem, cc |-> DEFAULT_CC]
  BY DEF Init, SeqInit, new_state
<1>3. Updated(isa, NoWrites) = isa
  <2>1. set_reg_val(set_reg_val(isa.r, REG_NONE, 0), REG_NONE, 0) = isa.r
    BY DEF set_reg_val, REG_NONE
  <2> QED  BY <1>2, <2>1 DEF Updated, NoWrites
<1> QED  BY <1>1, <1>2, <1>3 DEF SeqInv

(* SEQ does its step as the instruction enters PIPE's W.                   *)
LEMMA SeqInvStep == ASSUME PipeInv, SeqInv, Next PROVE SeqInv'
<1>1. /\ sim_step_pipe /\ Reference
      /\ W'.stat # "BUB" => \/ sim_step
                            \/ (seq_status # "AOK" \/ seq_count >= seq_limit) /\ UNCHANGED seqVars
      /\ W'.stat = "BUB" => UNCHANGED seqVars
      /\ lawful' => lawful /\ (W'.stat # "BUB" => WellFormed(isa'))
  BY DEF Next
<1>2. /\ icount \in Nat /\ seq_count \in Nat /\ seq_count <= icount
      /\ icount < instr_limit /\ icount' = icount + 1
      /\ instr_limit \in Nat /\ seq_limit \in Nat /\ instr_limit <= seq_limit
  BY <1>1, Counts, PipeAssumption, LimitsAssumption
     DEF PipeInv, Wired, SeqInv, sim_step_pipe, Running
<1>3. seq_count' \in Nat /\ seq_count' <= icount'
  <2>1. seq_count' = seq_count \/ seq_count' = seq_count + 1
    BY <1>1 DEF sim_step, seqVars
  <2> QED  BY <1>2, <2>1
<1>4. ASSUME lawful' PROVE isa' = Updated(seq, pending) /\ isa' \in State /\ seq_status = "AOK"
  <2>1. isa' = After /\ After \in State
    BY <1>1, StepType DEF PipeInv, Reference, After
  <2>2. W.stat \notin Excepted /\ W.stat \in Stats
    BY <1>1, NotExcepted DEF PipeInv, sim_step_pipe, Structure
  <2>3. CASE W.stat = "BUB"
    BY <1>1, <1>4, <2>1, <2>3 DEF SeqInv, After
  <2>4. CASE W.stat # "BUB"
    <3>1. W.stat = step_state(isa).stat
      BY <1>1, <1>4, <2>4, InvCommits DEF CommitsInOrder
    <3>2. W.stat = "AOK"
      BY <2>2, <2>4 DEF Stats
    <3> QED  BY <1>1, <1>4, <2>1, <2>4, <3>1, <3>2 DEF SeqInv, After
  <2> QED  BY <2>3, <2>4
<1>5. ASSUME lawful', W'.stat = "BUB"
      PROVE  isa' = Updated(seq', pending') /\ seq_status' = "AOK"
  BY <1>1, <1>4, <1>5 DEF seqVars
<1>6. ASSUME lawful', W'.stat # "BUB"
      PROVE  /\ seq' = isa' /\ seq_status' = step_state(isa').stat
             /\ seq_status' = "AOK" => Updated(seq', pending') = step_state(isa').s
  <2>1. sim_step
    BY <1>1, <1>2, <1>4, <1>6
  <2>2. seq' = isa' /\ WellFormed(isa') /\ isa' \in State
    BY <1>1, <1>4, <1>6, <2>1 DEF sim_step
  <2>3. /\ pending' = Computed(isa', seq_fetch(isa'), pending.valm)
        /\ seq_status' = seq_Stat(isa', seq_fetch(isa'))
    BY <2>1, <2>2 DEF sim_step
  <2> QED  BY <2>2, <2>3, SeqOne
<1> QED  BY <1>3, <1>5, <1>6 DEF SeqInv

(* A stuttering step preserves it.                                         *)
LEMMA SeqInvStutter == ASSUME SeqInv, UNCHANGED vars PROVE SeqInv'
  BY DEF SeqInv, vars, seqVars, pipeVars, W

(* SEQ executes every program PIPE is made for as isa.c does: its state is *)
(* the reference before the instruction in W, its status is step_state's,  *)
(* and what it has still to write is what step_state writes (ssim.c        *)
(* sim_step, update_state; seq-full.hcl).                                  *)
THEOREM SeqIsPrecise == Spec => []SeqPrecise
<1>1. Init => SeqInv
  BY SeqInvInit
<1>2. PipeInv /\ SeqInv /\ [Next]_vars => SeqInv'
  BY SeqInvStep, SeqInvStutter
<1>3. SeqInv => SeqPrecise
  BY DEF SeqInv, SeqPrecise
<1> QED  BY <1>1, <1>2, <1>3, PipelineInvariant, PTL DEF Spec

(***************************************************************************)
(* y64sim.                                                                 *)
(***************************************************************************)
(* y64sim's state, while its flags are the reference's.                    *)
Y64Inv ==
  /\ step \in Nat /\ step <= icount
  /\ lawful /\ shared =>
       IF W.stat = "BUB" THEN sim = isa /\ e = "AOK"
       ELSE /\ e = step_state(isa).stat
            /\ IF e = "AOK" THEN sim = step_state(isa).s
               ELSE sim.pc = isa.pc /\ sim.m = isa.m

(* cond_doit and cond_holds agree on every condition.                      *)
LEMMA SameCondition ==
    ASSUME NEW c \in CC, NEW cond \in 0 .. 15
    PROVE  cond_doit(c, cond) <=> cond_holds(c, cond)
<1> USE DEF cond_doit, cond_holds, C_YES, C_LE, C_L, C_E, C_NE, C_GE, C_G
<1>1. c.sf \in BOOLEAN /\ c.of \in BOOLEAN /\ c.zf \in BOOLEAN
  BY DEF CC
<1>2. CASE cond = 0
  BY <1>2
<1>3. CASE cond = 1
  BY <1>1, <1>3
<1>4. CASE cond = 2
  BY <1>1, <1>4
<1>5. CASE cond = 3
  BY <1>1, <1>5
<1>6. CASE cond = 4
  BY <1>1, <1>6
<1>7. CASE cond = 5
  BY <1>1, <1>7
<1>8. CASE cond = 6
  BY <1>1, <1>8
<1>9. CASE cond \in 7 .. 15
  BY <1>9
<1> QED
  BY <1>2, <1>3, <1>4, <1>5, <1>6, <1>7, <1>8, <1>9

(* pushq %rsp writes the stack pointer as it was before.                   *)
LEMMA StackPointerBack ==
    ASSUME NEW a \in Word
    PROVE  Plus(Minus(a, WORD), WORD) = a
<1> DEFINE d == a - WORD
           b == d % Modulus
<1>1. /\ Modulus \in Nat \ {0} /\ WORD \in Nat /\ WORD < Modulus
      /\ a \in Nat /\ a < Modulus /\ d \in Int /\ d + WORD = a
  BY ModulusIs, SizesAssumption DEF Word
<1> HIDE DEF d
<1>2. CASE d < 0
  <2>1. b = d + Modulus
    <3>1. -Modulus <= d
      BY <1>1
    <3> QED  BY <1>1, <1>2, <3>1, Remainder
  <2>2. b + WORD = a + Modulus
    BY <1>1, <2>1
  <2>3. (a + Modulus) % Modulus = a
    <3> DEFINE t == a + Modulus
    <3>1. t \in Int /\ Modulus <= t /\ t < 2 * Modulus /\ t - Modulus = a
      BY <1>1
    <3> HIDE DEF t
    <3>2. t % Modulus = t - Modulus
      BY <1>1, <3>1, Remainder
    <3> QED  BY <3>1, <3>2 DEF t
  <2> QED  BY <2>2, <2>3 DEF Plus, Minus, d
<1>3. CASE ~(d < 0)
  <2>1. b = d
    BY <1>1, <1>3, Remainder
  <2>2. b + WORD = a
    BY <1>1, <2>1
  <2>3. a % Modulus = a
    BY <1>1, Remainder
  <2> QED  BY <2>2, <2>3 DEF Plus, Minus, d
<1> QED  BY <1>2, <1>3

(* A state of its parts, and the parts of one that is changed.             *)
Made(p, rs, bytes, c) == [pc |-> p, r |-> rs, m |-> bytes, cc |-> c]

LEMMA MadeFrom ==
    /\ \A s \in State : s = Made(s.pc, s.r, s.m, s.cc)
    /\ \A p, rs, bytes, c, v :
         LET t == Made(p, rs, bytes, c)
         IN  /\ t.pc = p /\ t.r = rs /\ t.m = bytes /\ t.cc = c
             /\ [t EXCEPT !.pc = v] = Made(v, rs, bytes, c)
             /\ [t EXCEPT !.r = v] = Made(p, v, bytes, c)
             /\ [t EXCEPT !.m = v] = Made(p, rs, v, c)
             /\ [t EXCEPT !.cc = v] = Made(p, rs, bytes, v)
             /\ \A id : with_reg(t, id, v) = Made(p, set_reg_val(rs, id, v), bytes, c)
             /\ \A f : Falls(t, f) = Made(f.ftpc, rs, bytes, c)
  BY DEF Made, State, with_reg, Falls

(* What an instruction writes, in y64sim's words and in isa.c's.           *)
LEMMA SameMoves ==
    ASSUME NEW s \in State, NEW f, f.ifun \in 0 .. 15,
           f.icode \in {I_RRMOVQ, I_IRMOVQ, I_RMMOVQ, I_MRMOVQ}
    PROVE  Falls(moves(s, f), f) = Effect(s, f)
<1> USE DEF I_HALT, I_NOP, I_RRMOVQ, I_IRMOVQ, I_RMMOVQ, I_MRMOVQ, I_ALU, I_JMP,
            I_CALL, I_RET, I_PUSHQ, I_POPQ, I_IADDQ
<1>1. s = Made(s.pc, s.r, s.m, s.cc) /\ s.cc \in CC
  BY MadeFrom DEF State
<1>2. StackMoved(s, f) = s.r
  BY DEF StackMoved
<1>3. /\ Passed(s, f) = Made(f.ftpc, s.r, s.m, s.cc)
      /\ \A id, val : Writes(s, f, id, val) = Made(f.ftpc, set_reg_val(s.r, id, val), s.m, s.cc)
      /\ \A val : Stores(s, f, val) =
           Made(f.ftpc, s.r, set_word_val(s.m, DataAddr(s, f), val), s.cc)
  BY <1>2, EffectFields DEF Made
<1>4. /\ Falls(s, f) = Made(f.ftpc, s.r, s.m, s.cc)
      /\ \A id, val : with_reg(s, id, val) = Made(s.pc, set_reg_val(s.r, id, val), s.m, s.cc)
      /\ \A id, val : Falls(with_reg(s, id, val), f) =
                        Made(f.ftpc, set_reg_val(s.r, id, val), s.m, s.cc)
  <2>1. \A id, val : with_reg(s, id, val) = Made(s.pc, set_reg_val(s.r, id, val), s.m, s.cc)
    BY <1>1, MadeFrom
  <2>2. Falls(s, f) = Made(f.ftpc, s.r, s.m, s.cc)
    BY <1>1, MadeFrom
  <2>3. \A id, val : Falls(Made(s.pc, set_reg_val(s.r, id, val), s.m, s.cc), f) =
                        Made(f.ftpc, set_reg_val(s.r, id, val), s.m, s.cc)
    BY MadeFrom
  <2> QED  BY <2>1, <2>2, <2>3
<1>5. Effect(s, f) = Move(s, f)
  BY DEF Effect
<1>6. CASE f.icode = I_RRMOVQ
  <2>1. Move(s, f) = IF cond_holds(s.cc, f.ifun)
                     THEN Writes(s, f, f.rb, get_reg_val(s.r, f.ra)) ELSE Passed(s, f)
    BY <1>6 DEF Move
  <2>2. moves(s, f) = IF cond_doit(s.cc, f.ifun)
                      THEN with_reg(s, f.rb, get_reg_val(s.r, f.ra)) ELSE s
    BY <1>6 DEF moves, reg_val
  <2>3. cond_doit(s.cc, f.ifun) <=> cond_holds(s.cc, f.ifun)
    BY <1>1, SameCondition
  <2>4. CASE cond_doit(s.cc, f.ifun)
    BY <1>3, <1>4, <1>5, <2>1, <2>2, <2>3, <2>4
  <2>5. CASE ~cond_doit(s.cc, f.ifun)
    BY <1>3, <1>4, <1>5, <2>1, <2>2, <2>3, <2>5
  <2> QED  BY <2>4, <2>5
<1>7. CASE f.icode = I_IRMOVQ
  <2>1. Move(s, f) = Writes(s, f, f.rb, f.cval)
    BY <1>7 DEF Move
  <2>2. moves(s, f) = with_reg(s, f.rb, f.cval)
    BY <1>7 DEF moves
  <2> QED  BY <1>3, <1>4, <1>5, <2>1, <2>2
<1>8. CASE f.icode = I_RMMOVQ
  <2> DEFINE bytes == set_word_val(s.m, DataAddr(s, f), get_reg_val(s.r, f.ra))
  <2>1. DataAddr(s, f) = Operand(s, f)
    BY <1>8 DEF DataAddr, Operand, reg_val
  <2>2. Move(s, f) = Stores(s, f, get_reg_val(s.r, f.ra))
    BY <1>8 DEF Move
  <2>3. moves(s, f) = [s EXCEPT !.m = bytes]
    BY <1>8, <2>1 DEF moves, reg_val, set_long_val
  <2> HIDE DEF bytes
  <2>4. moves(s, f) = Made(s.pc, s.r, bytes, s.cc)
    BY <1>1, <2>3, MadeFrom
  <2>5. Falls(moves(s, f), f) = Made(f.ftpc, s.r, bytes, s.cc)
    BY <2>4, MadeFrom
  <2> QED  BY <1>3, <1>5, <2>2, <2>5 DEF bytes
<1>9. CASE f.icode = I_MRMOVQ
  <2>1. DataAddr(s, f) = Operand(s, f)
    BY <1>9 DEF DataAddr, Operand, reg_val
  <2>2. Move(s, f) = Writes(s, f, f.ra, Loaded(s, f))
    BY <1>9 DEF Move
  <2>3. moves(s, f) = with_reg(s, f.ra, get_long_val(s.m, Operand(s, f)))
    BY <1>9 DEF moves
  <2>4. Loaded(s, f) = get_long_val(s.m, Operand(s, f))
    BY <2>1 DEF Loaded, get_long_val
  <2> QED  BY <1>3, <1>4, <1>5, <2>2, <2>3, <2>4
<1> QED  BY <1>6, <1>7, <1>8, <1>9

(* operates, if its flags are those of isa.c.                              *)
LEMMA SameOperation ==
    ASSUME NEW s \in State, NEW f, f.icode = I_ALU,
           Falls(operates(s, f), f).cc = Effect(s, f).cc
    PROVE  Falls(operates(s, f), f) = Effect(s, f)
<1> USE DEF I_HALT, I_NOP, I_RRMOVQ, I_IRMOVQ, I_RMMOVQ, I_MRMOVQ, I_ALU, I_JMP,
            I_CALL, I_RET, I_PUSHQ, I_POPQ, I_IADDQ
<1> DEFINE A == get_reg_val(s.r, f.ra)
           B == get_reg_val(s.r, f.rb)
           res == compute_alu(f.ifun, A, B)
           rs == set_reg_val(s.r, f.rb, res)
           c == flags(f.ifun, A, B, res)
<1>1. s = Made(s.pc, s.r, s.m, s.cc)
  BY MadeFrom
<1>2. StackMoved(s, f) = s.r
  BY DEF StackMoved
<1>3. Effect(s, f) = Operated(s, f, f.ifun, A)
  BY DEF Effect, Operate
<1>4. Effect(s, f) = Made(f.ftpc, rs, s.m, compute_cc(f.ifun, A, B))
  BY <1>2, <1>3, EffectFields DEF Made
<1>5. operates(s, f) = [with_reg(s, f.rb, res) EXCEPT !.cc = c]
  BY DEF operates, reg_val, alu
<1> HIDE DEF A, B, res, c
<1>6. with_reg(s, f.rb, res) = Made(s.pc, rs, s.m, s.cc)
  BY <1>1, MadeFrom
<1> HIDE DEF rs
<1>7. operates(s, f) = Made(s.pc, rs, s.m, c)
  BY <1>5, <1>6, MadeFrom
<1>8. Falls(operates(s, f), f) = Made(f.ftpc, rs, s.m, c)
  BY <1>7, MadeFrom
<1>9. c = compute_cc(f.ifun, A, B)
  BY <1>4, <1>8, MadeFrom
<1> QED  BY <1>4, <1>8, <1>9

(* jmp, call and ret.                                                      *)
LEMMA SameTransfer ==
    ASSUME NEW s \in State, NEW f, f.ifun \in 0 .. 15, f.icode \in {I_JMP, I_CALL, I_RET}
    PROVE  transfers(s, f) = Effect(s, f)
<1> USE DEF I_HALT, I_NOP, I_RRMOVQ, I_IRMOVQ, I_RMMOVQ, I_MRMOVQ, I_ALU, I_JMP,
            I_CALL, I_RET, I_PUSHQ, I_POPQ, I_IADDQ
<1>1. s = Made(s.pc, s.r, s.m, s.cc) /\ s.cc \in CC
  BY MadeFrom DEF State
<1>2. /\ Passed(s, f) = Made(f.ftpc, StackMoved(s, f), s.m, s.cc)
      /\ \A val : Stores(s, f, val) =
           Made(f.ftpc, StackMoved(s, f), set_word_val(s.m, DataAddr(s, f), val), s.cc)
  BY EffectFields DEF Made
<1>3. Effect(s, f) = Transfer(s, f)
  BY DEF Effect
<1>4. reg_val(s, REG_RSP) = s.r[REG_RSP]
  BY DEF reg_val, get_reg_val, REG_RSP, REG_NONE
<1>5. CASE f.icode = I_JMP
  <2>1. StackMoved(s, f) = s.r
    BY <1>5 DEF StackMoved
  <2>2. Transfer(s, f) = IF cond_holds(s.cc, f.ifun) THEN [s EXCEPT !.pc = f.cval] ELSE Passed(s, f)
    BY <1>5 DEF Transfer
  <2>3. transfers(s, f) = [s EXCEPT !.pc = IF cond_doit(s.cc, f.ifun) THEN f.cval ELSE f.ftpc]
    BY <1>5 DEF transfers
  <2>4. cond_doit(s.cc, f.ifun) <=> cond_holds(s.cc, f.ifun)
    BY <1>1, SameCondition
  <2>5. \A v : [s EXCEPT !.pc = v] = Made(v, s.r, s.m, s.cc)
    BY <1>1, MadeFrom
  <2>6. CASE cond_doit(s.cc, f.ifun)
    BY <1>3, <2>2, <2>3, <2>4, <2>6
  <2>7. CASE ~cond_doit(s.cc, f.ifun)
    BY <1>2, <1>3, <2>1, <2>2, <2>3, <2>4, <2>5, <2>7
  <2> QED  BY <2>6, <2>7
<1>6. CASE f.icode = I_CALL
  <2> DEFINE rs == set_reg_val(s.r, REG_RSP, Pushed(s))
             bytes == set_word_val(s.m, Pushed(s), f.ftpc)
             moved == with_reg(s, REG_RSP, Pushed(s))
             up == [moved EXCEPT !.m = set_word_val(@, Pushed(s), f.ftpc)]
  <2>1. StackMoved(s, f) = rs /\ DataAddr(s, f) = Pushed(s)
    BY <1>4, <1>6 DEF StackMoved, DataAddr, Pushed
  <2>2. Transfer(s, f) = [Stores(s, f, f.ftpc) EXCEPT !.pc = f.cval]
    BY <1>6 DEF Transfer
  <2>3. transfers(s, f) = [up EXCEPT !.pc = f.cval]
    BY <1>6 DEF transfers, LeftBehind, set_long_val
  <2>4. moved = Made(s.pc, rs, s.m, s.cc)
    BY <1>1, MadeFrom
  <2> HIDE DEF rs, moved
  <2>5. moved.m = s.m
    BY <2>4, MadeFrom
  <2>6. up = Made(s.pc, rs, bytes, s.cc)
    BY <2>4, <2>5, MadeFrom
  <2> HIDE DEF up
  <2>7. transfers(s, f) = Made(f.cval, rs, bytes, s.cc)
    BY <2>3, <2>6, MadeFrom
  <2>8. Stores(s, f, f.ftpc) = Made(f.ftpc, rs, bytes, s.cc)
    BY <1>2, <2>1 DEF bytes
  <2>9. Transfer(s, f) = Made(f.cval, rs, bytes, s.cc)
    BY <2>2, <2>8, MadeFrom
  <2> QED  BY <1>3, <2>7, <2>9
<1>7. CASE f.icode = I_RET
  <2> DEFINE rs == set_reg_val(s.r, REG_RSP, Popped(s))
             val == get_word_val(s.m, s.r[REG_RSP])
  <2>1. StackMoved(s, f) = rs /\ DataAddr(s, f) = s.r[REG_RSP]
    BY <1>4, <1>7 DEF StackMoved, DataAddr, Popped
  <2>2. Transfer(s, f) = [Passed(s, f) EXCEPT !.pc = val]
    BY <1>7, <2>1 DEF Transfer, Loaded
  <2>3. transfers(s, f) = [with_reg(s, REG_RSP, Popped(s)) EXCEPT !.pc = val]
    BY <1>4, <1>7 DEF transfers, get_long_val
  <2> HIDE DEF val
  <2>4. with_reg(s, REG_RSP, Popped(s)) = Made(s.pc, rs, s.m, s.cc)
    BY <1>1, MadeFrom
  <2> HIDE DEF rs
  <2>5. transfers(s, f) = Made(val, rs, s.m, s.cc)
    BY <2>3, <2>4, MadeFrom
  <2>6. Transfer(s, f) = Made(val, rs, s.m, s.cc)
    BY <1>2, <2>1, <2>2, MadeFrom
  <2> QED  BY <1>3, <2>5, <2>6
<1> QED  BY <1>5, <1>6, <1>7

(* Writes to two registers in either order, and to one twice.              *)
LEMMA RegistersCommute ==
    ASSUME NEW r \in RegFile, NEW a \in 0 .. REG_NONE - 1, NEW b \in 0 .. REG_NONE - 1,
           NEW v, NEW w
    PROVE  /\ a # b => set_reg_val(set_reg_val(r, a, v), b, w) =
                         set_reg_val(set_reg_val(r, b, w), a, v)
           /\ set_reg_val(set_reg_val(r, a, v), a, w) = set_reg_val(r, a, w)
  BY DEF set_reg_val, RegFile, REG_NONE

(* pushq and popq, of %rsp too.                                            *)
LEMMA SameStack ==
    ASSUME NEW s \in State, NEW f, f.icode \in {I_PUSHQ, I_POPQ},
           f.ra \in 0 .. 15, reg_valid(f.ra)
    PROVE  Falls(stacks(s, f), f) = Effect(s, f)
<1> USE DEF I_HALT, I_NOP, I_RRMOVQ, I_IRMOVQ, I_RMMOVQ, I_MRMOVQ, I_ALU, I_JMP,
            I_CALL, I_RET, I_PUSHQ, I_POPQ, I_IADDQ
<1>1. s = Made(s.pc, s.r, s.m, s.cc) /\ s.r \in RegFile
  BY MadeFrom DEF State
<1>2. /\ \A id, val : Writes(s, f, id, val) =
           Made(f.ftpc, set_reg_val(StackMoved(s, f), id, val), s.m, s.cc)
      /\ \A val : Stores(s, f, val) =
           Made(f.ftpc, StackMoved(s, f), set_word_val(s.m, DataAddr(s, f), val), s.cc)
  BY EffectFields DEF Made
<1>3. Effect(s, f) = Stack(s, f)
  BY DEF Effect
<1>4. reg_val(s, REG_RSP) = s.r[REG_RSP]
  BY DEF reg_val, get_reg_val, REG_RSP, REG_NONE
<1>5. CASE f.icode = I_PUSHQ
  <2> DEFINE rs == set_reg_val(s.r, REG_RSP, Pushed(s))
             val == get_reg_val(s.r, f.ra)
             bytes == set_word_val(s.m, Pushed(s), val)
             moved == with_reg(s, REG_RSP, Pushed(s))
             up == [moved EXCEPT !.m = set_word_val(@, Pushed(s), val)]
  <2>1. StackMoved(s, f) = rs /\ DataAddr(s, f) = Pushed(s)
    BY <1>4, <1>5 DEF StackMoved, DataAddr, Pushed
  <2>2. Stack(s, f) = Stores(s, f, val)
    BY <1>5 DEF Stack
  <2>3. (IF f.ra = REG_RSP THEN Plus(Pushed(s), WORD) ELSE reg_val(s, f.ra)) = val
    <3>1. CASE f.ra = REG_RSP
      <4>1. s.r[REG_RSP] \in Word
        BY <1>1 DEF RegFile, REG_RSP, REG_NONE
      <4>2. Plus(Minus(s.r[REG_RSP], WORD), WORD) = s.r[REG_RSP]
        BY <4>1, StackPointerBack
      <4> QED  BY <1>4, <3>1, <4>2 DEF Pushed, get_reg_val, REG_RSP, REG_NONE
    <3>2. CASE f.ra # REG_RSP
      BY <3>2 DEF reg_val
    <3> QED  BY <3>1, <3>2
  <2> HIDE DEF val
  <2>4. stacks(s, f) = up
    BY <1>5, <2>3 DEF stacks, LeftBehind, set_long_val
  <2>5. moved = Made(s.pc, rs, s.m, s.cc)
    BY <1>1, MadeFrom
  <2> HIDE DEF rs, moved
  <2>6. moved.m = s.m
    BY <2>5, MadeFrom
  <2>7. up = Made(s.pc, rs, bytes, s.cc)
    BY <2>5, <2>6, MadeFrom
  <2> HIDE DEF up, bytes
  <2>8. Falls(stacks(s, f), f) = Made(f.ftpc, rs, bytes, s.cc)
    BY <2>4, <2>7, MadeFrom
  <2> QED  BY <1>2, <1>3, <2>1, <2>2, <2>8 DEF bytes
<1>6. CASE f.icode = I_POPQ
  <2> DEFINE val == get_word_val(s.m, s.r[REG_RSP])
             rs == set_reg_val(s.r, REG_RSP, Popped(s))
             both == set_reg_val(rs, f.ra, val)
  <2>1. StackMoved(s, f) = rs /\ DataAddr(s, f) = s.r[REG_RSP]
    BY <1>4, <1>6 DEF StackMoved, DataAddr, Popped
  <2>2. Stack(s, f) = Writes(s, f, f.ra, val)
    BY <1>6, <2>1 DEF Stack, Loaded
  <2>3. Effect(s, f) = Made(f.ftpc, both, s.m, s.cc)
    BY <1>2, <1>3, <2>1, <2>2
  <2>4. stacks(s, f) = IF f.ra = REG_RSP THEN with_reg(s, REG_RSP, val)
                       ELSE with_reg(with_reg(s, f.ra, val), REG_RSP, Popped(s))
    BY <1>4, <1>6 DEF stacks, get_long_val
  <2>5. f.ra \in 0 .. REG_NONE - 1 /\ REG_RSP \in 0 .. REG_NONE - 1
    BY DEF reg_valid, REG_RSP, REG_NONE
  <2> HIDE DEF val
  <2>6. CASE f.ra = REG_RSP
    <3>1. set_reg_val(s.r, REG_RSP, val) = both
      BY <1>1, <2>5, <2>6, RegistersCommute
    <3>2. with_reg(s, REG_RSP, val) = Made(s.pc, both, s.m, s.cc)
      BY <1>1, <3>1, MadeFrom
    <3> HIDE DEF both
    <3> QED  BY <2>3, <2>4, <2>6, <3>2, MadeFrom
  <2>7. CASE f.ra # REG_RSP
    <3> DEFINE one == set_reg_val(s.r, f.ra, val)
    <3>1. set_reg_val(one, REG_RSP, Popped(s)) = both
      BY <1>1, <2>5, <2>7, RegistersCommute
    <3>2. with_reg(s, f.ra, val) = Made(s.pc, one, s.m, s.cc)
      BY <1>1, MadeFrom
    <3> HIDE DEF both, one
    <3>3. with_reg(with_reg(s, f.ra, val), REG_RSP, Popped(s)) = Made(s.pc, both, s.m, s.cc)
      BY <3>1, <3>2, MadeFrom
    <3> QED  BY <2>3, <2>4, <2>7, <3>3, MadeFrom
  <2> QED  BY <2>6, <2>7
<1> QED  BY <1>5, <1>6

(* What y64sim does with an instruction it does not refuse is isa.c's      *)
(* effect.                                                                 *)
LEMMA SameEffect ==
    ASSUME NEW s \in State, NEW f, f.ifun \in 0 .. 15, f.ra \in 0 .. 15,
           f.icode \in I_NOP .. I_POPQ, RegsFit(f),
           Done(s, f).cc = Effect(s, f).cc
    PROVE  Done(s, f) = Effect(s, f)
<1> USE DEF I_HALT, I_NOP, I_RRMOVQ, I_IRMOVQ, I_RMMOVQ, I_MRMOVQ, I_ALU, I_JMP,
            I_CALL, I_RET, I_PUSHQ, I_POPQ, I_IADDQ
<1>1. CASE f.icode = I_NOP
  <2>1. Done(s, f) = Falls(s, f) /\ Effect(s, f) = Passed(s, f) /\ StackMoved(s, f) = s.r
    BY <1>1 DEF Done, Effect, StackMoved
  <2>2. Passed(s, f) = Made(f.ftpc, s.r, s.m, s.cc)
    BY <2>1, EffectFields DEF Made
  <2>3. Falls(s, f) = Made(f.ftpc, s.r, s.m, s.cc)
    BY MadeFrom
  <2> QED  BY <2>1, <2>2, <2>3
<1>2. CASE f.icode \in {I_RRMOVQ, I_IRMOVQ, I_RMMOVQ, I_MRMOVQ}
  <2>1. Done(s, f) = Falls(moves(s, f), f)
    BY <1>2 DEF Done
  <2> QED  BY <1>2, <2>1, SameMoves
<1>3. CASE f.icode = I_ALU
  <2>1. Done(s, f) = Falls(operates(s, f), f)
    BY <1>3 DEF Done
  <2> QED  BY <1>3, <2>1, SameOperation
<1>4. CASE f.icode \in {I_JMP, I_CALL, I_RET}
  <2>1. Done(s, f) = transfers(s, f)
    BY <1>4 DEF Done
  <2> QED  BY <1>4, <2>1, SameTransfer
<1>5. CASE f.icode \in {I_PUSHQ, I_POPQ}
  <2>1. Done(s, f) = Falls(stacks(s, f), f)
    BY <1>5 DEF Done
  <2>2. reg_valid(f.ra)
    BY <1>5 DEF RegsFit
  <2> QED  BY <1>5, <2>1, <2>2, SameStack
<1> QED  BY <1>1, <1>2, <1>3, <1>4, <1>5

(* Both access the same address.                                           *)
LEMMA SameAddress ==
    ASSUME NEW s, NEW f, UsesData(f)
    PROVE  Addr(s, f) = DataAddr(s, f)
<1> USE DEF I_HALT, I_NOP, I_RRMOVQ, I_IRMOVQ, I_RMMOVQ, I_MRMOVQ, I_ALU, I_JMP,
            I_CALL, I_RET, I_PUSHQ, I_POPQ, I_IADDQ
<1>1. reg_val(s, REG_RSP) = s.r[REG_RSP]
  BY DEF reg_val, get_reg_val, REG_RSP, REG_NONE
<1>2. CASE f.icode \in {I_RMMOVQ, I_MRMOVQ}
  BY <1>2 DEF Addr, DataAddr, Operand, reg_val
<1>3. CASE f.icode \in {I_CALL, I_PUSHQ}
  BY <1>1, <1>3 DEF Addr, DataAddr, Pushed
<1>4. CASE f.icode \in {I_RET, I_POPQ}
  BY <1>1, <1>4 DEF Addr, DataAddr
<1> QED  BY <1>2, <1>3, <1>4 DEF UsesData

(* nexti on the instruction at s.pc and step_state on it.                  *)
LEMMA Y64One ==
    ASSUME NEW s \in State, WellFormed(s), Fetched(s).icode # I_IADDQ
    PROVE  /\ nexti(s).stat = step_state(s).stat
           /\ step_state(s).stat # "AOK" => nexti(s).s.pc = s.pc /\ nexti(s).s.m = s.m
           /\ step_state(s).stat = "AOK" /\ nexti(s).s.cc = step_state(s).s.cc =>
                nexti(s).s = step_state(s).s
<1> USE DEF I_HALT, I_NOP, I_RRMOVQ, I_IRMOVQ, I_RMMOVQ, I_MRMOVQ, I_ALU, I_JMP,
            I_CALL, I_RET, I_PUSHQ, I_POPQ, I_IADDQ
<1> DEFINE f == Fetched(s)
<1>1. ValidByte(s.pc) /\ f.ok1 /\ f.okc
  <2>1. s.pc + 2 + WORD <= MEM_SIZE
    BY DEF WellFormed
  <2> QED  BY <2>1, FetchAgrees
<1>2. f.icode \in 0 .. 15 /\ f.ifun \in 0 .. 15 /\ f.ra \in 0 .. 15
  BY <1>1, FetchedType
<1>3. f.icode \in I_HALT .. I_POPQ => RegsFit(f)
  BY DEF WellFormed
<1>4. /\ instr_valid(f.icode) => Refused(f) = IF f.icode = I_HALT THEN "HLT" ELSE "AOK"
      /\ ~instr_valid(f.icode) => Refused(f) = "INS"
  BY WellFormedFetch
<1>5. /\ step_state(s) = IF Refused(f) # "AOK" THEN [s |-> s, stat |-> Refused(f)]
           ELSE IF UsesData(f) /\ ~ValidWord(DataAddr(s, f))
           THEN [s |-> IF f.icode = I_RET THEN s
                       ELSE [s EXCEPT !.r = StackMoved(s, f)],
                 stat |-> "ADR"]
           ELSE [s |-> Effect(s, f), stat |-> "AOK"]
  BY <1>1 DEF step_state
<1>6. nexti(s) = IF Refusal(f) # "AOK" THEN [s |-> s, stat |-> Refusal(f)]
           ELSE IF UsesData(f) /\ ~ValidWord(Addr(s, f))
           THEN [s |-> LeftBehind(s, f), stat |-> "ADR"]
           ELSE [s |-> Done(s, f), stat |-> "AOK"]
  BY <1>1 DEF nexti
<1> HIDE DEF f
<1>7. Refusal(f) = Refused(f)
  <2>1. CASE f.icode = I_HALT
    <3>0. ~(f.icode > I_POPQ) /\ RegsFit(f)
      BY <1>3, <2>1
    <3>1. Refusal(f) = "HLT"
      BY <1>1, <2>1, <3>0 DEF Refusal
    <3> QED  BY <1>4, <2>1, <3>1 DEF instr_valid
  <2>2. CASE f.icode \in I_NOP .. I_POPQ
    <3>1. Refusal(f) = "AOK"
      BY <1>1, <1>3, <2>2 DEF Refusal
    <3> QED  BY <1>4, <2>2, <3>1 DEF instr_valid
  <2>3. CASE f.icode \in 13 .. 15
    <3>1. Refusal(f) = "INS"
      BY <2>3 DEF Refusal
    <3> QED  BY <1>4, <2>3, <3>1 DEF instr_valid
  <2>4. f.icode # 12
    BY DEF f
  <2> QED  BY <1>2, <2>1, <2>2, <2>3, <2>4
<1>8. CASE Refused(f) # "AOK"
  BY <1>5, <1>6, <1>7, <1>8
<1>9. CASE Refused(f) = "AOK" /\ UsesData(f) /\ ~ValidWord(DataAddr(s, f))
  <2>1. nexti(s) = [s |-> LeftBehind(s, f), stat |-> "ADR"] /\ step_state(s).stat = "ADR"
    BY <1>5, <1>6, <1>7, <1>9, SameAddress
  <2>2. LeftBehind(s, f).pc = s.pc /\ LeftBehind(s, f).m = s.m
    BY DEF LeftBehind, with_reg, State
  <2> QED  BY <2>1, <2>2
<1>10. CASE Refused(f) = "AOK" /\ (UsesData(f) => ValidWord(DataAddr(s, f)))
  <2>1. /\ nexti(s) = [s |-> Done(s, f), stat |-> "AOK"]
        /\ step_state(s) = [s |-> Effect(s, f), stat |-> "AOK"]
    BY <1>5, <1>6, <1>7, <1>10, SameAddress
  <2>2. f.icode \in I_NOP .. I_POPQ
    BY <1>2, <1>4, <1>10 DEF instr_valid, f
  <2>3. Done(s, f).cc = Effect(s, f).cc => Done(s, f) = Effect(s, f)
    BY <1>2, <1>3, <2>2, SameEffect
  <2> QED  BY <2>1, <2>3
<1> QED  BY <1>8, <1>9, <1>10

(* y64sim starts where the reference starts.                               *)
LEMMA Y64InvInit == ASSUME Init PROVE Y64Inv
<1>1. W.stat = "BUB" /\ icount = 0
  BY DEF Init, PipeInit, clear_pipes, W, Bubble
<1>2. step = 0 /\ e = "AOK" /\ sim = isa
  BY DEF Init, Y64Init
<1> QED  BY <1>1, <1>2 DEF Y64Inv

(* nexti does its step as the instruction enters PIPE's W.                 *)
LEMMA Y64InvStep == ASSUME PipeInv, Y64Inv, Next PROVE Y64Inv'
<1>1. /\ sim_step_pipe /\ Reference
      /\ W'.stat # "BUB" => \/ Y64Step
                            \/ (e # "AOK" \/ step >= max_steps) /\ UNCHANGED y64Vars
      /\ W'.stat = "BUB" => UNCHANGED y64Vars
      /\ lawful' => lawful
      /\ shared' => /\ shared
                    /\ W'.stat # "BUB" => /\ WellFormed(isa') /\ Fetched(isa').icode # I_IADDQ
                                          /\ sim'.cc = After.cc'
  BY DEF Next
<1>2. /\ icount \in Nat /\ step \in Nat /\ step <= icount
      /\ icount < instr_limit /\ icount' = icount + 1
      /\ instr_limit \in Nat /\ max_steps \in Nat /\ instr_limit <= max_steps
  BY <1>1, Counts, PipeAssumption, LimitsAssumption
     DEF PipeInv, Wired, Y64Inv, sim_step_pipe, Running
<1>3. step' \in Nat /\ step' <= icount'
  <2>1. step' = step \/ step' = step + 1
    BY <1>1 DEF Y64Step, y64Vars
  <2> QED  BY <1>2, <2>1
<1>4. ASSUME lawful', shared' PROVE isa' = sim /\ isa' \in State /\ e = "AOK"
  <2>1. isa' = After /\ After \in State
    BY <1>1, StepType DEF PipeInv, Reference, After
  <2>2. W.stat \notin Excepted /\ W.stat \in Stats
    BY <1>1, NotExcepted DEF PipeInv, sim_step_pipe, Structure
  <2>3. CASE W.stat = "BUB"
    BY <1>1, <1>4, <2>1, <2>3 DEF Y64Inv, After
  <2>4. CASE W.stat # "BUB"
    <3>1. W.stat = step_state(isa).stat
      BY <1>1, <1>4, <2>4, InvCommits DEF CommitsInOrder
    <3>2. W.stat = "AOK"
      BY <2>2, <2>4 DEF Stats
    <3> QED  BY <1>1, <1>4, <2>1, <2>4, <3>1, <3>2 DEF Y64Inv, After
  <2> QED  BY <2>3, <2>4
<1>5. ASSUME lawful', shared', W'.stat = "BUB" PROVE sim' = isa' /\ e' = "AOK"
  BY <1>1, <1>4, <1>5 DEF y64Vars
<1>6. ASSUME lawful', shared', W'.stat # "BUB"
      PROVE  /\ e' = step_state(isa').stat
             /\ IF e' = "AOK" THEN sim' = step_state(isa').s
                ELSE sim'.pc = isa'.pc /\ sim'.m = isa'.m
  <2>1. Y64Step
    BY <1>1, <1>2, <1>4, <1>6
  <2>2. sim' = nexti(isa').s /\ e' = nexti(isa').stat /\ isa' \in State
    BY <1>4, <1>6, <2>1 DEF Y64Step
  <2>3. WellFormed(isa') /\ Fetched(isa').icode # I_IADDQ
    BY <1>1, <1>6
  <2>4. sim'.cc = step_state(isa').s.cc
    BY <1>1, <1>6 DEF After
  <2> HIDE DEF I_IADDQ
  <2>5. /\ nexti(isa').stat = step_state(isa').stat
        /\ step_state(isa').stat # "AOK" => nexti(isa').s.pc = isa'.pc /\ nexti(isa').s.m = isa'.m
        /\ step_state(isa').stat = "AOK" /\ nexti(isa').s.cc = step_state(isa').s.cc =>
             nexti(isa').s = step_state(isa').s
    BY <2>2, <2>3, Y64One
  <2> QED  BY <2>2, <2>4, <2>5
<1> QED  BY <1>3, <1>5, <1>6 DEF Y64Inv

(* A stuttering step preserves it.                                         *)
LEMMA Y64InvStutter == ASSUME Y64Inv, UNCHANGED vars PROVE Y64Inv'
  BY DEF Y64Inv, vars, y64Vars, pipeVars, W

(* y64sim executes every program PIPE is made for as isa.c does, as long   *)
(* as their flags agree: the same status at every instruction, and the     *)
(* same state if it is AOK; a failing instruction leaves pc and memory as  *)
(* they were (y64sim.c nexti).                                             *)
THEOREM Y64IsPrecise == Spec => []Y64Precise
<1>1. Init => Y64Inv
  BY Y64InvInit
<1>2. PipeInv /\ Y64Inv /\ [Next]_vars => Y64Inv'
  BY Y64InvStep, Y64InvStutter
<1>3. Y64Inv => Y64Precise
  BY DEF Y64Inv, Y64Precise, After
<1> QED  BY <1>1, <1>2, <1>3, PipelineInvariant, PTL DEF Spec
=============================================================================
