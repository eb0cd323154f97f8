------------------------------- MODULE Y64Sim -------------------------------
(***************************************************************************)
(* y64sim, the simulator of lab4: the same machine as isa.c, without       *)
(* iaddq, written a second time.  The bytes of memory, the register file   *)
(* and the fetch are Y86's; what nexti refuses, in which order, what it    *)
(* does, what a failed instruction leaves behind, and the flags are its    *)
(* own.                                                                    *)
(***************************************************************************)
EXTENDS Y86

CONSTANTS max_steps     \* MAX_STEP or the second argument

VARIABLES sim, e, step

y64Vars == <<sim, e, step>>

\* new_y64sim and load_binfile; sim->pc, sim->r, sim->m and sim->cc.
Y64Init(image) ==
  /\ sim = new_state(image)
  /\ e = "AOK"
  /\ step = 0

\* y64sim's own functions that do what isa.c's do.
get_long_val(m, addr) == get_word_val(m, addr)
set_long_val(m, addr, val) == set_word_val(m, addr, val)
alu(opcode, argA, argB) == compute_alu(opcode, argA, argB)
reg_val(s, id) == get_reg_val(s.r, id)
with_reg(s, id, val) == [s EXCEPT !.r = set_reg_val(@, id, val)]

\* An int is the lower half of a long_t.
IntNegative(val) ==
  LET half == 256 ^ (WORD \div 2) IN 2 * (val % half) >= half

\* compute_cc: one rule of overflow for A_ADD and for A_SUB.
flags(op, argA, argB, val) ==
  LET A == Signed(argA)
      B == Signed(argB)
      V == Signed(val)
  IN  [zf |-> val = 0,
       sf |-> IntNegative(val),
       of |-> /\ op \in {A_ADD, A_SUB}
              /\ (A > 0 /\ B > 0 /\ V < 0) \/ (A < 0 /\ B < 0 /\ V > 0)]

cond_doit(c, cond) ==
  CASE cond = C_YES -> TRUE
    [] cond = C_LE -> c.sf # c.of \/ c.zf
    [] cond = C_L  -> c.sf # c.of
    [] cond = C_E  -> c.zf
    [] cond = C_NE -> ~c.zf
    [] cond = C_GE -> c.sf = c.of
    [] cond = C_G  -> c.sf = c.of /\ ~c.zf
    [] OTHER -> FALSE

\* The registers byte must name registers, or REG_NONE, as the format says.
RegsFit(i) ==
  CASE i.icode \in {I_RRMOVQ, I_RMMOVQ, I_MRMOVQ, I_ALU} ->
         reg_valid(i.ra) /\ reg_valid(i.rb)
    [] i.icode = I_IRMOVQ -> ~reg_valid(i.ra) /\ reg_valid(i.rb)
    [] i.icode \in {I_PUSHQ, I_POPQ} -> reg_valid(i.ra) /\ ~reg_valid(i.rb)
    [] OTHER -> TRUE

Refusal(i) ==
  CASE i.icode > I_POPQ -> "INS"
    [] i.icode <= I_POPQ /\ ~(i.ok1 /\ i.okc) -> "ADR"
    [] i.icode = I_HALT -> "HLT"
    [] ~RegsFit(i) -> "INS"
    [] OTHER -> "AOK"

Popped(s)  == Plus(reg_val(s, REG_RSP), WORD)
Pushed(s)  == Minus(reg_val(s, REG_RSP), WORD)
Operand(s, i) == Plus(i.cval, reg_val(s, i.rb))

\* The address of the word an instruction reads or writes, if it does.
Addr(s, i) ==
  CASE i.icode \in {I_RMMOVQ, I_MRMOVQ} -> Operand(s, i)
    [] i.icode \in {I_CALL, I_PUSHQ} -> Pushed(s)
    [] i.icode \in {I_RET, I_POPQ} -> reg_val(s, REG_RSP)
    [] OTHER -> 0

\* call and pushq move the stack pointer before the write that may fail;
\* ret and popq move it after the read.
LeftBehind(s, i) ==
  IF i.icode \in {I_CALL, I_PUSHQ}
  THEN with_reg(s, REG_RSP, Pushed(s)) ELSE s

moves(s, i) ==
  CASE i.icode = I_RRMOVQ ->
         IF cond_doit(s.cc, i.ifun)
         THEN with_reg(s, i.rb, reg_val(s, i.ra)) ELSE s
    [] i.icode = I_IRMOVQ -> with_reg(s, i.rb, i.cval)
    [] i.icode = I_RMMOVQ ->
         [s EXCEPT !.m = set_long_val(@, Operand(s, i), reg_val(s, i.ra))]
    [] i.icode = I_MRMOVQ ->
         with_reg(s, i.ra, get_long_val(s.m, Operand(s, i)))

operates(s, i) ==
  LET A   == reg_val(s, i.ra)
      B   == reg_val(s, i.rb)
      res == alu(i.ifun, A, B)
  IN  [with_reg(s, i.rb, res) EXCEPT !.cc = flags(i.ifun, A, B, res)]

\* jmp, call and ret: the new pc is theirs.
transfers(s, i) ==
  CASE i.icode = I_JMP ->
         [s EXCEPT !.pc = IF cond_doit(s.cc, i.ifun) THEN i.cval ELSE i.ftpc]
    [] i.icode = I_CALL ->
         [LeftBehind(s, i) EXCEPT !.m = set_long_val(@, Pushed(s), i.ftpc),
                                  !.pc = i.cval]
    [] i.icode = I_RET ->
         [with_reg(s, REG_RSP, Popped(s)) EXCEPT
            !.pc = get_long_val(s.m, reg_val(s, REG_RSP))]

(* Mutant of stacks: popq %rsp leaves the pointer moved.                   *)
stacksMoveLast(s, i) ==
  CASE i.icode = I_PUSHQ ->
         [LeftBehind(s, i) EXCEPT
            !.m = set_long_val(@, Pushed(s), reg_val(s, i.ra))]
    [] i.icode = I_POPQ ->
         LET val == get_long_val(s.m, reg_val(s, REG_RSP))
         IN  with_reg(with_reg(s, i.ra, val), REG_RSP, Popped(s))

\* pushq %rsp writes the stack pointer as it was, popq %rsp keeps the value.
stacks(s, i) ==
  CASE i.icode = I_PUSHQ ->
         [LeftBehind(s, i) EXCEPT
            !.m = set_long_val(@, Pushed(s),
                               IF i.ra = REG_RSP THEN Plus(Pushed(s), WORD)
                               ELSE reg_val(s, i.ra))]
    [] i.icode = I_POPQ ->
         LET val == get_long_val(s.m, reg_val(s, REG_RSP))
         IN  IF i.ra = REG_RSP THEN with_reg(s, REG_RSP, val)
             ELSE with_reg(with_reg(s, i.ra, val), REG_RSP, Popped(s))

Falls(s, i) == [s EXCEPT !.pc = i.ftpc]

Done(s, i) ==
  CASE i.icode = I_NOP -> Falls(s, i)
    [] i.icode \in {I_RRMOVQ, I_IRMOVQ, I_RMMOVQ, I_MRMOVQ} -> Falls(moves(s, i), i)
    [] i.icode = I_ALU -> Falls(operates(s, i), i)
    [] i.icode \in {I_JMP, I_CALL, I_RET} -> transfers(s, i)
    [] i.icode \in {I_PUSHQ, I_POPQ} -> Falls(stacks(s, i), i)

nexti(s) ==
  IF ~ValidByte(s.pc) THEN [s |-> s, stat |-> "ADR"]
  ELSE LET i == Fetched(s)
       IN  IF Refusal(i) # "AOK" THEN [s |-> s, stat |-> Refusal(i)]
           ELSE IF UsesData(i) /\ ~ValidWord(Addr(s, i))
           THEN [s |-> LeftBehind(s, i), stat |-> "ADR"]
           ELSE [s |-> Done(s, i), stat |-> "AOK"]

\* One turn of main's loop.
Y64Step ==
  /\ step < max_steps /\ e = "AOK"
  /\ sim' = nexti(sim).s
  /\ e' = nexti(sim).stat
  /\ step' = step + 1
=============================================================================
