------------------------------ MODULE Lockstep ------------------------------
(***************************************************************************)
(* PIPE, SEQ, y64sim and step_state on one program, in step.               *)
(*                                                                         *)
(* An instruction is executed by step_state when PIPE's write-back stage   *)
(* is left at the clock edge, and by SEQ and y64sim when it is entered:    *)
(* `isa` is the state before the instruction in W, SEQ's and y64sim's last *)
(* step is the instruction in W.  When W holds a bubble the instruction    *)
(* they did last has left it.                                              *)
(***************************************************************************)
EXTENDS Pipe, Seq, Y64Sim

VARIABLES isa,        \* the state of the reference, step_state
          lawful,     \* every instruction so far is one PIPE is made for
          shared      \* every one so far is y64sim's too, with its flags

vars == <<pipeVars, seqVars, y64Vars, isa, lawful, shared>>

\* Every cycle of PIPE brings at most one instruction to W.
ASSUME LimitsAssumption ==
  /\ seq_limit \in Nat /\ instr_limit <= seq_limit
  /\ max_steps \in Nat /\ instr_limit <= max_steps

----------------------------------------------------------------------------
(* The programs PIPE is made for *)

\* The bytes from pc on that an instruction may take.
Span(pc) == pc .. pc + 2 + WORD - 1

\* A store of the instruction that has just left M, into the bytes of an
\* instruction that was fetched before it.
Overtaken ==
  /\ store.write
  /\ mem' # mem
  /\ \E s \in {D', E', M'} :
       s.stat # "BUB" /\ Span(s.pc) \cap (store.addr .. store.addr + WORD - 1) # {}

\* An instruction as the assembler writes it, far enough from the end of
\* memory for fetch's look ahead.  y64sim has no iaddq.
WellFormed(s) ==
  /\ s.pc + 2 + WORD <= MEM_SIZE
  /\ s.pc + LOOKAHEAD < MEM_SIZE
  /\ LET i == Fetched(s)
     IN  /\ i.icode \in I_HALT .. I_POPQ => RegsFit(i)
         /\ i.icode = I_IADDQ => reg_valid(i.rb)

----------------------------------------------------------------------------

\* The state after the instruction in W.
After == IF W.stat = "BUB" THEN isa ELSE step_state(isa).s

Init ==
  /\ PipeInit
  /\ SeqInit(mem)
  /\ Y64Init(mem)
  /\ isa = new_state(mem)
  /\ lawful = TRUE
  /\ shared = TRUE

\* The reference executes what leaves W; an instruction enters it.
Reference == isa' = IF W.stat # "BUB" THEN step_state(isa).s ELSE isa

Next ==
  /\ sim_step_pipe
  /\ Reference
  /\ IF W'.stat # "BUB"
     THEN /\ sim_step \/ ((seq_status # "AOK" \/ seq_count >= seq_limit) /\ UNCHANGED seqVars)
          /\ Y64Step \/ ((e # "AOK" \/ step >= max_steps) /\ UNCHANGED y64Vars)
     ELSE UNCHANGED <<seqVars, y64Vars>>
  /\ lawful' = (lawful /\ ~Overtaken /\ (W'.stat # "BUB" => WellFormed(isa')))
  /\ shared' = (shared /\ (W'.stat # "BUB" => WellFormed(isa')
                                              /\ Fetched(isa').icode # I_IADDQ
                                              /\ sim'.cc = After.cc'))

Spec == Init /\ [][Next]_vars

----------------------------------------------------------------------------
(* What is checked *)

\* The instruction in W is the reference's next one, and fails exactly as the
\* reference says.
CommitsInOrder ==
  lawful /\ W.stat # "BUB" =>
    /\ W.pc = isa.pc
    /\ W.stat = step_state(isa).stat

\* The last two cycles before the limit write less than the instructions do.
Within == lawful /\ icount <= instr_limit - 2

\* Registers hold what has left W: a value that was forwarded, or computed on
\* a path not taken, is never seen by the program.  Memory holds what the
\* instruction in W and those before it have written, and nothing of those
\* behind a failing one; the flags what the instructions up to M have set, if
\* the one in M is one PIPE is made for.
FlagsAhead == M.stat = "AOK" /\ W.stat \in {"AOK", "BUB"}
StatePrecise ==
  Within =>
    /\ reg = isa.r
    /\ mem = After.m
    /\ FlagsAhead /\ WellFormed(After) => cc = step_state(After).s.cc
    /\ ~FlagsAhead => cc = After.cc

\* SEQ executes the program as the reference does.
SeqPrecise ==
  lawful /\ seq_count > 0 =>
    IF W.stat = "BUB" THEN isa = Updated(seq, pending)
    ELSE /\ seq = isa
         /\ seq_status = step_state(isa).stat
         /\ seq_status = "AOK" =>  Updated(seq, pending) = step_state(isa).s

\* y64sim executes the program as isa.c does, as long as their flags are the
\* same: also where an instruction fails, though then the stack pointer may
\* differ.
Y64Precise ==
  lawful /\ shared /\ W.stat # "BUB" =>
    /\ e = step_state(isa).stat
    /\ IF e = "AOK" THEN sim = After
       ELSE sim.pc = isa.pc /\ sim.m = isa.m
=============================================================================
