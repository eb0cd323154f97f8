------------------------------ MODULE Assemble ------------------------------
(***************************************************************************)
(* Both assemblers on the same source: y64asm, then yas.  y64sim reads the *)
(* one's .bin file, the simulators of lab6 the other's .yo file.           *)
(***************************************************************************)
EXTENDS Y64Asm, Yas

CONSTANT Sources    \* the input files

vars == <<source, asmVars, yasVars>>

Init == source \in Sources /\ AsmInit /\ YasInit

Over == phase \in {"done", "exit1", "crash"}
Next == \/ Y64AsmNext /\ UNCHANGED <<source, yasVars>>
        \/ Over /\ YasNext /\ UNCHANGED <<source, asmVars>>

Spec == Init /\ [][Next]_vars

----------------------------------------------------------------------------

(* The lines on which the two differ *)

\* y64asm passes over what it does not understand, without a message.
Rest(text) == SKIP_BLANK(IF HasInstr(text) THEN <<>> ELSE AfterLabel(text))
Dropped(text) == Rest(text) # <<>> /\ ~Starts(Rest(text), "#")
\* A symbol as data of less than a word: see relocate.
Short(text) ==
  /\ HasInstr(text)
  /\ instr_set[Mnemonic(text).name].bytes \in 1 .. WORD - 1
  /\ HI4(instr_set[Mnemonic(text).name].code) = I_DIRECTIVE
  /\ parse_data(Mnemonic(text).ptr).type = "SYMBOL"
\* A label that yas would take for something else.
OddLabel(text) == HasLabel(text) /\ ~(Len(Label(text).name) = 1 /\ Label(text).name[1].w = "ident")

Plain == \A text \in Range(source) :
           ~Dropped(text) /\ ~Short(text) /\ ~OddLabel(text) /\ ~Invalid(text)

\* The memory with the .bin file in it.
Loaded1 == [a \in 0 .. MEM_SIZE - 1 |-> IF a \in DOMAIN file THEN file[a] ELSE 0]

(* Where both assemblers accept a program, the memory their simulators     *)
(* start with is the same: each forward or backward reference, through     *)
(* .pos, .align and code written twice, has come to the same address in    *)
(* y64asm's relocation as in yas's second pass.                            *)
AssemblersAgree ==
  phase = "done" /\ pass = "exit" /\ Plain =>
    IF DOMAIN file \subseteq 0 .. MEM_SIZE - 1 /\ file # <<>>
    THEN byte_cnt(outfile) > 0 /\ load_mem(outfile) = Loaded1
    ELSE byte_cnt(outfile) = 0

(* y64asm is the stricter of the two: yas does not refuse a program that   *)
(* y64asm accepts, unless it is too long for the addresses of a .yo file.  *)
YasAcceptsToo ==
  phase = "done" /\ pass = "exit1" /\ Plain =>
    \E l \in Range(lines) : l.addr > CODE_LIMIT
=============================================================================
