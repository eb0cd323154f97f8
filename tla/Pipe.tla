-------------------------------- MODULE Pipe --------------------------------
(***************************************************************************)
(* PIPE: the five-stage processor of lab6, pipe-full.hcl run by psim.c.    *)
(*                                                                         *)
(* A pipeline register s \in Stages has a current state, the state its     *)
(* stage has computed for it, and what the control logic has decided to do *)
(* with it at the next clock edge: curr[s], next[s], op[s].  One step is   *)
(* sim_step_pipe: the edge (update_state, update_pipes), then the stages,  *)
(* all of which are functions of what the edge has left.  The signals keep *)
(* the names of the HCL.                                                   *)
(***************************************************************************)
EXTENDS Y86

CONSTANTS LOOKAHEAD,    \* the 5 of psim.c 1346
          instr_limit,  \* option -l
          Images        \* the memories load_mem may leave

ASSUME PipeAssumption ==
  LOOKAHEAD \in Nat /\ instr_limit \in Nat /\ Images \subseteq Memory

VARIABLES curr, next, op,       \* the pipeline registers
          reg, mem, cc, cc_in,  \* the state a program sees, and cc's input
          wb, store,            \* what update_state is to write
          status, icount, ccount, instructions, cycles

pipeVars == <<curr, next, op, reg, mem, cc, cc_in, wb, store, status, icount,
              ccount, instructions, cycles>>

Stages == {"F", "D", "E", "M", "W"}

\* The contents of the registers when a bubble is put into them.
Bubble ==
  [F |-> [pc |-> 0, stat |-> "AOK"],
   D |-> [icode |-> I_NOP, ifun |-> 0, rA |-> REG_NONE, rB |-> REG_NONE,
          valC |-> 0, valP |-> 0, stat |-> "BUB", pc |-> 0],
   E |-> [icode |-> I_NOP, ifun |-> 0, valC |-> 0, valA |-> 0, valB |-> 0,
          srcA |-> REG_NONE, srcB |-> REG_NONE, dstE |-> REG_NONE,
          dstM |-> REG_NONE, stat |-> "BUB", pc |-> 0],
   M |-> [icode |-> I_NOP, ifun |-> 0, Cnd |-> FALSE, valE |-> 0, valA |-> 0,
          dstE |-> REG_NONE, dstM |-> REG_NONE, stat |-> "BUB", pc |-> 0],
   W |-> [icode |-> I_NOP, ifun |-> 0, valE |-> 0, valM |-> 0,
          dstE |-> REG_NONE, dstM |-> REG_NONE, stat |-> "BUB", pc |-> 0]]

F == curr.F
D == curr.D
E == curr.E
M == curr.M
W == curr.W

Excepted == {"ADR", "INS", "HLT"}

----------------------------------------------------------------------------
(* Fetch *)

(* Mutant of f_pc: a branch that is not taken is not repaired.             *)
f_pcTaken == IF W.icode = I_RET THEN W.valM ELSE F.pc

f_pc ==
  IF M.icode = I_JMP /\ ~M.Cnd THEN M.valA      \* mispredicted branch
  ELSE IF W.icode = I_RET THEN W.valM           \* return address
  ELSE F.pc

\* do_if_stage: a fetch fails unless the byte LOOKAHEAD places on exists; a
\* register byte or a constant that cannot be read is none, or 0.
fetch ==
  LET imem_error == ~ValidByte(f_pc) \/ ~ValidByte(Plus(f_pc, LOOKAHEAD))
      instr == IF imem_error THEN HPACK(I_NOP, 0) ELSE get_byte_val(mem, f_pc)
      icode == HI4(instr)
      regs  == Plus(f_pc, 1)
      const == IF need_regids(icode) THEN Plus(regs, 1) ELSE regs
      ids   == IF need_regids(icode) /\ ValidByte(regs)
               THEN get_byte_val(mem, regs) ELSE HPACK(REG_NONE, REG_NONE)
  IN  [icode |-> icode, ifun |-> LO4(instr), rA |-> HI4(ids), rB |-> LO4(ids),
       valC |-> IF need_imm(icode) /\ ValidWord(const)
                THEN get_word_val(mem, const) ELSE 0,
       valP |-> IF need_imm(icode) THEN Plus(const, WORD) ELSE const,
       stat |-> IF imem_error THEN "ADR"
                ELSE IF ~instr_valid(icode) THEN "INS"
                ELSE IF icode = I_HALT THEN "HLT" ELSE "AOK",
       pc |-> f_pc]

f_predPC ==
  [pc |-> IF fetch.icode \in {I_JMP, I_CALL} THEN fetch.valC ELSE fetch.valP,
   stat |-> IF fetch.stat = "AOK" THEN "AOK" ELSE "BUB"]

----------------------------------------------------------------------------
(* Memory *)

mem_read  == M.icode \in {I_MRMOVQ, I_POPQ, I_RET}
mem_write == M.icode \in {I_RMMOVQ, I_PUSHQ, I_CALL}
mem_addr ==
  CASE M.icode \in {I_RMMOVQ, I_PUSHQ, I_CALL, I_MRMOVQ} -> M.valE
    [] M.icode \in {I_POPQ, I_RET} -> M.valA
    [] OTHER -> 0
dmem_error == (mem_read \/ mem_write) /\ ~ValidWord(mem_addr)
m_stat == IF dmem_error THEN "ADR" ELSE M.stat
m_valM == IF mem_read /\ ~dmem_error THEN get_word_val(mem, mem_addr) ELSE 0

memory ==
  [icode |-> M.icode, ifun |-> M.ifun, valE |-> M.valE, valM |-> m_valM,
   dstE |-> M.dstE, dstM |-> M.dstM, stat |-> m_stat, pc |-> M.pc]

----------------------------------------------------------------------------
(* Execute *)

aluA ==
  CASE E.icode \in {I_RRMOVQ, I_ALU} -> E.valA
    [] E.icode \in {I_IRMOVQ, I_RMMOVQ, I_MRMOVQ, I_IADDQ} -> E.valC
    [] E.icode \in {I_CALL, I_PUSHQ} -> Minus(0, WORD)
    [] E.icode \in {I_RET, I_POPQ} -> WORD
    [] OTHER -> 0
aluB ==
  IF E.icode \in {I_RMMOVQ, I_MRMOVQ, I_ALU, I_CALL, I_PUSHQ, I_RET, I_POPQ,
                  I_IADDQ}
  THEN E.valB ELSE 0
alufun == IF E.icode = I_ALU THEN E.ifun ELSE A_ADD

(* Mutant of set_cc: an instruction behind a failing one sets the flags.   *)
set_ccAlways == E.icode \in {I_ALU, I_IADDQ}

\* The flags stay as they are once an instruction ahead has failed.
set_cc ==
  E.icode \in {I_ALU, I_IADDQ} /\ m_stat \notin Excepted /\ W.stat \notin Excepted

e_Cnd  == cond_holds(cc, E.ifun)
e_valE == compute_alu(alufun, aluA, aluB)
e_dstE == IF E.icode = I_RRMOVQ /\ ~e_Cnd THEN REG_NONE ELSE E.dstE

execute ==
  [icode |-> E.icode, ifun |-> E.ifun, Cnd |-> e_Cnd, valE |-> e_valE,
   valA |-> E.valA, dstE |-> e_dstE, dstM |-> E.dstM, stat |-> E.stat,
   pc |-> E.pc]

----------------------------------------------------------------------------
(* Decode *)

d_srcA ==
  CASE D.icode \in {I_RRMOVQ, I_RMMOVQ, I_ALU, I_PUSHQ} -> D.rA
    [] D.icode \in {I_POPQ, I_RET} -> REG_RSP
    [] OTHER -> REG_NONE
d_srcB ==
  CASE D.icode \in {I_ALU, I_RMMOVQ, I_MRMOVQ, I_IADDQ} -> D.rB
    [] D.icode \in {I_PUSHQ, I_POPQ, I_CALL, I_RET} -> REG_RSP
    [] OTHER -> REG_NONE
d_dstE ==
  CASE D.icode \in {I_RRMOVQ, I_IRMOVQ, I_ALU, I_IADDQ} -> D.rB
    [] D.icode \in {I_PUSHQ, I_POPQ, I_CALL, I_RET} -> REG_RSP
    [] OTHER -> REG_NONE
d_dstM == IF D.icode \in {I_MRMOVQ, I_POPQ} THEN D.rA ELSE REG_NONE

\* What is on its way to the register file, newest first.
Sources ==
  <<[dst |-> e_dstE, val |-> e_valE], [dst |-> M.dstM, val |-> m_valM],
    [dst |-> M.dstE, val |-> M.valE], [dst |-> W.dstM, val |-> W.valM],
    [dst |-> W.dstE, val |-> W.valE]>>

Forwarded(src) ==
  LET hits == {k \in DOMAIN Sources : Sources[k].dst = src}
  IN  IF hits = {} THEN get_reg_val(reg, src) ELSE Sources[Min(hits)].val

d_valA == IF D.icode \in {I_CALL, I_JMP} THEN D.valP ELSE Forwarded(d_srcA)
d_valB == Forwarded(d_srcB)

decode ==
  [icode |-> D.icode, ifun |-> D.ifun, valC |-> D.valC, valA |-> d_valA,
   valB |-> d_valB, srcA |-> d_srcA, srcB |-> d_srcB, dstE |-> d_dstE,
   dstM |-> d_dstM, stat |-> D.stat, pc |-> D.pc]

----------------------------------------------------------------------------
(* Pipeline register control *)

\* A load whose result the next instruction needs.
LoadUse == E.icode \in {I_MRMOVQ, I_POPQ} /\ E.dstM \in {d_srcA, d_srcB}
Returning == I_RET \in {D.icode, E.icode, M.icode}
Mispredicted == E.icode = I_JMP /\ ~e_Cnd

Stall ==
  [F |-> LoadUse \/ Returning, D |-> LoadUse, E |-> FALSE, M |-> FALSE,
   W |-> W.stat \in Excepted]

Inject ==
  [F |-> FALSE, D |-> Mispredicted \/ (~LoadUse /\ Returning),
   E |-> Mispredicted \/ LoadUse,
   M |-> m_stat \in Excepted \/ W.stat \in Excepted, W |-> FALSE]

pipe_cntl(stall, bubble) ==
  CASE stall /\ bubble -> "ERROR"
    [] stall /\ ~bubble -> "STALL"
    [] ~stall /\ bubble -> "BUBBLE"
    [] OTHER -> "LOAD"

----------------------------------------------------------------------------
(* The clock edge *)

\* update_state: %rsp popped by popq %rsp is written last.
update_state ==
  LET ahead_mem  == IF W.stat # "BUB" THEN 1 ELSE 0
      ahead_ex   == IF next.W.stat # "BUB" THEN ahead_mem + 1 ELSE ahead_mem
      remaining  == instr_limit - icount
  IN  /\ reg' = set_reg_val(set_reg_val(reg, wb.dstE, wb.valE), wb.dstM, wb.valM)
      /\ mem' = IF store.write /\ ahead_mem < remaining /\ ValidWord(store.addr)
                THEN set_word_val(mem, store.addr, store.data) ELSE mem
      /\ cc' = IF ahead_ex < remaining THEN cc_in ELSE cc

\* update_pipes, and the status a register gets when stall and bubble
\* were both asked for.
update_pipes ==
  curr' = [s \in Stages |->
             CASE op[s] = "LOAD" -> next[s]
               [] op[s] = "STALL" -> curr[s]
               [] op[s] = "BUBBLE" -> Bubble[s]
               [] op[s] = "ERROR" -> [Bubble[s] EXCEPT !.stat = "PIP"]]

Stat == IF W.stat = "BUB" THEN "AOK" ELSE W.stat

\* The stages, from what the edge has left.
do_stages ==
  /\ next' = [F |-> f_predPC, D |-> fetch, E |-> decode, M |-> execute,
              W |-> memory]'
  /\ op' = [s \in Stages |-> pipe_cntl(Stall[s], Inject[s])]'
  /\ cc_in' = IF set_cc' THEN compute_cc(alufun, aluA, aluB)' ELSE cc_in
  /\ wb' = [dstE |-> W.dstE, valE |-> W.valE, dstM |-> W.dstM,
            valM |-> W.valM]'
  /\ store' = [write |-> mem_write, addr |-> mem_addr, data |-> M.valA]'
  /\ status' = Stat'

\* The counts kept by sim_step_pipe, of instructions and cycles, and by
\* sim_run_pipe, whose loop ends with the first status that is not AOK.
count ==
  /\ instructions' = IF W'.stat # "BUB" /\ W'.icode # I_POP2
                     THEN instructions + 1 ELSE instructions
  /\ cycles' = IF instructions' > 0 THEN cycles + 1 ELSE cycles
  /\ icount' = IF status' # "BUB" THEN icount + 1 ELSE icount
  /\ ccount' = IF status' \in {"AOK", "BUB"} THEN ccount + 1 ELSE ccount

Running ==
  /\ icount < instr_limit /\ ccount < 5 * instr_limit
  /\ status \in {"AOK", "BUB"}

sim_step_pipe ==
  /\ Running
  /\ update_state
  /\ update_pipes
  /\ do_stages
  /\ count

\* sim_init, sim_reset and load_mem.
clear_pipes == curr = Bubble /\ next = Bubble /\ op = [s \in Stages |-> "LOAD"]

PipeInit ==
  /\ clear_pipes
  /\ reg = NoRegs /\ mem \in Images
  /\ cc = DEFAULT_CC /\ cc_in = DEFAULT_CC
  /\ wb = [dstE |-> REG_NONE, valE |-> 0, dstM |-> REG_NONE, valM |-> 0]
  /\ store = [write |-> FALSE, addr |-> 0, data |-> 0]
  /\ status = "AOK"
  /\ icount = 0 /\ ccount = 0 /\ instructions = 0 /\ cycles = 0
=============================================================================
