-------------------------------- MODULE Seq --------------------------------
(***************************************************************************)
(* SEQ: the sequential processor of lab6, seq-full.hcl run by ssim.c.      *)
(*                                                                         *)
(* sim_step first writes what the instruction before it has computed       *)
(* (update_state), then computes what the next one will write.  Between    *)
(* two steps the machine holds both: its state, `seq`, and the pending     *)
(* writes, `pending`.  SEQ+ (plusmode) is left out.                        *)
(***************************************************************************)
EXTENDS Y86

CONSTANTS seq_limit     \* option -l of ssim

VARIABLES seq, pending, seq_status, seq_count

seqVars == <<seq, pending, seq_status, seq_count>>

\* What sim_reset leaves to be written: nothing, at address 0.
NoWrites ==
  [pc |-> 0, cc |-> DEFAULT_CC, destE |-> REG_NONE, vale |-> 0,
   destM |-> REG_NONE, valm |-> 0, mem_write |-> FALSE, mem_addr |-> 0,
   mem_data |-> 0]

SeqInit(image) ==
  /\ seq = new_state(image)
  /\ pending = NoWrites
  /\ seq_status = "AOK"
  /\ seq_count = 0

(* Mutant of Updated: popq %rsp keeps the incremented pointer.             *)
UpdatedMFirst(s, w) ==
  [pc |-> w.pc, cc |-> w.cc,
   r |-> set_reg_val(set_reg_val(s.r, w.destM, w.valm), w.destE, w.vale),
   m |-> IF w.mem_write /\ ValidWord(w.mem_addr)
         THEN set_word_val(s.m, w.mem_addr, w.mem_data) ELSE s.m]

\* update_state: the address has been tested in the cycle that set it; the
\* write of a failing instruction is pending too, but sim_run has stopped.
Updated(s, w) ==
  [pc |-> w.pc, cc |-> w.cc,
   r |-> set_reg_val(set_reg_val(s.r, w.destE, w.vale), w.destM, w.valm),
   m |-> IF w.mem_write /\ ValidWord(w.mem_addr)
         THEN set_word_val(s.m, w.mem_addr, w.mem_data) ELSE s.m]

\* The instruction at s.pc.  A register byte or a constant that cannot be read
\* is none, or 0.
seq_fetch(s) ==
  LET imem_error == ~ValidByte(s.pc)
      instr == IF imem_error THEN HPACK(I_NOP, 0) ELSE get_byte_val(s.m, s.pc)
      icode == HI4(instr)
      regs  == Plus(s.pc, 1)
      const == IF need_regids(icode) THEN Plus(regs, 1) ELSE regs
      ids   == IF need_regids(icode) /\ ValidByte(regs)
               THEN get_byte_val(s.m, regs) ELSE HPACK(REG_NONE, REG_NONE)
  IN  [icode |-> icode, ifun |-> LO4(instr), rA |-> HI4(ids), rB |-> LO4(ids),
       valC |-> IF need_imm(icode) /\ ValidWord(const)
                THEN get_word_val(s.m, const) ELSE 0,
       valP |-> IF need_imm(icode) THEN Plus(const, WORD) ELSE const,
       imem_error |-> imem_error]

\* The signals of instruction i in state s.
seq_stack(i) == i.icode \in {I_PUSHQ, I_POPQ, I_CALL, I_RET}
seq_srcA(i) ==
  CASE i.icode \in {I_RRMOVQ, I_RMMOVQ, I_ALU, I_PUSHQ} -> i.rA
    [] i.icode \in {I_POPQ, I_RET} -> REG_RSP
    [] OTHER -> REG_NONE
seq_srcB(i) ==
  CASE i.icode \in {I_ALU, I_RMMOVQ, I_MRMOVQ, I_IADDQ} -> i.rB
    [] seq_stack(i) -> REG_RSP
    [] OTHER -> REG_NONE
seq_Cnd(s, i) == cond_holds(s.cc, i.ifun)
seq_dstE(s, i) ==
  CASE i.icode = I_RRMOVQ /\ seq_Cnd(s, i) -> i.rB
    [] i.icode \in {I_IRMOVQ, I_ALU, I_IADDQ} -> i.rB
    [] seq_stack(i) -> REG_RSP
    [] OTHER -> REG_NONE
seq_dstM(i) == IF i.icode \in {I_MRMOVQ, I_POPQ} THEN i.rA ELSE REG_NONE

seq_valA(s, i) == get_reg_val(s.r, seq_srcA(i))
seq_valB(s, i) == get_reg_val(s.r, seq_srcB(i))
seq_aluA(s, i) ==
  CASE i.icode \in {I_RRMOVQ, I_ALU} -> seq_valA(s, i)
    [] i.icode \in {I_IRMOVQ, I_RMMOVQ, I_MRMOVQ, I_IADDQ} -> i.valC
    [] i.icode \in {I_CALL, I_PUSHQ} -> Minus(0, WORD)
    [] i.icode \in {I_RET, I_POPQ} -> WORD
    [] OTHER -> 0
seq_aluB(s, i) ==
  IF seq_stack(i) \/ i.icode \in {I_RMMOVQ, I_MRMOVQ, I_ALU, I_IADDQ}
  THEN seq_valB(s, i) ELSE 0
seq_alufun(i) == IF i.icode = I_ALU THEN i.ifun ELSE A_ADD
seq_valE(s, i) == compute_alu(seq_alufun(i), seq_aluA(s, i), seq_aluB(s, i))
seq_cc(s, i) ==
  IF i.icode \in {I_ALU, I_IADDQ}
  THEN compute_cc(seq_alufun(i), seq_aluA(s, i), seq_aluB(s, i)) ELSE s.cc

seq_read(i)  == i.icode \in {I_MRMOVQ, I_POPQ, I_RET}
seq_write(i) == i.icode \in {I_RMMOVQ, I_PUSHQ, I_CALL}
seq_addr(s, i) ==
  CASE i.icode \in {I_RMMOVQ, I_PUSHQ, I_CALL, I_MRMOVQ} -> seq_valE(s, i)
    [] i.icode \in {I_POPQ, I_RET} -> seq_valA(s, i)
    [] OTHER -> 0
seq_data(s, i) == IF i.icode = I_CALL THEN i.valP ELSE seq_valA(s, i)
seq_dmem_error(s, i) ==
  (seq_read(i) \/ seq_write(i)) /\ ~ValidWord(seq_addr(s, i))

\* What is read; the old value, `last`, when a read fails.
seq_valM(s, i, last) ==
  CASE seq_read(i) /\ ~seq_dmem_error(s, i) -> get_word_val(s.m, seq_addr(s, i))
    [] seq_read(i) /\ seq_dmem_error(s, i) -> last
    [] OTHER -> 0

seq_pc(s, i, last) ==
  CASE i.icode = I_CALL -> i.valC
    [] i.icode = I_JMP /\ seq_Cnd(s, i) -> i.valC
    [] i.icode = I_RET -> seq_valM(s, i, last)
    [] OTHER -> i.valP

\* What instruction i is to write, and its status.
Computed(s, i, last) ==
  [pc |-> seq_pc(s, i, last), cc |-> seq_cc(s, i),
   destE |-> seq_dstE(s, i), vale |-> seq_valE(s, i),
   destM |-> seq_dstM(i), valm |-> seq_valM(s, i, last),
   mem_write |-> seq_write(i), mem_addr |-> seq_addr(s, i),
   mem_data |-> seq_data(s, i)]
seq_Stat(s, i) ==
  CASE i.imem_error \/ seq_dmem_error(s, i) -> "ADR"
    [] ~(i.imem_error \/ seq_dmem_error(s, i)) /\ ~instr_valid(i.icode) -> "INS"
    [] ~seq_dmem_error(s, i) /\ i.icode = I_HALT -> "HLT"
    [] OTHER -> "AOK"

\* sim_step, within the loop of sim_run.
sim_step ==
  /\ seq_count < seq_limit /\ seq_status = "AOK"
  /\ seq' = Updated(seq, pending)
  /\ pending' = Computed(seq', seq_fetch(seq'), pending.valm)
  /\ seq_status' = seq_Stat(seq', seq_fetch(seq'))
  /\ seq_count' = seq_count + 1
=============================================================================
