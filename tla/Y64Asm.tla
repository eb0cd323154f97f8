------------------------------- MODULE Y64Asm -------------------------------
(***************************************************************************)
(* y64asm, the assembler of lab5: assemble reads the source line by line,  *)
(* gives every label the address counter's value and notes every use of a  *)
(* label; relocate fills the uses in; binfile writes each line's bytes at  *)
(* its address.                                                            *)
(*                                                                         *)
(* A parse_xxx function gets the rest of the line, `ptr`, and returns it   *)
(* with what it has found.  The text of messages is left out, and the -v   *)
(* listing.                                                                *)
(***************************************************************************)
EXTENDS Source

VARIABLES
    phase,       \* where main is; "exit1" if it has given up
    lines,       \* line_head: per line read, its type and its bin_t
    vmaddr,
    symtab,      \* names and addresses
    reltab,      \* names and the lines whose bin_t they complete
    next,        \* how many lines, relocations, lines the phase has done
    file         \* the output file: a partial function from addresses

asmVars == <<phase, lines, vmaddr, symtab, reltab, next, file>>

----------------------------------------------------------------------------
(* Tables *)

I_DIRECTIVE == 12
D_DATA == 0  D_POS == 1  D_ALIGN == 2

directive(lo, bytes) == Entry(I_DIRECTIVE, lo, bytes)
instr_set ==
  Opcode @@
  ".byte" :> directive(D_DATA, DataSize.byte) @@ ".word" :> directive(D_DATA, DataSize.word) @@
  ".long" :> directive(D_DATA, DataSize.long) @@ ".quad" :> directive(D_DATA, DataSize.quad) @@
  ".pos"  :> directive(D_POS, 0)              @@ ".align" :> directive(D_ALIGN, 0)

----------------------------------------------------------------------------
(* Parsing *)

\* What a parse_xxx function returns: its type, the rest of the line, a
\* number (or a register) and a name.
Parsed(type, ptr, value, name) ==
  [type |-> type, ptr |-> ptr, value |-> value, name |-> name]
PARSE_ERR(ptr) == Parsed("ERR", ptr, 0, <<>>)

\* The lexemes before the first of one of these kinds.
Before(text, kinds) ==
  SubSeq(text, 1, Min({Len(text)} \cup {i - 1 : i \in {k \in DOMAIN text : text[k].w \in kinds}}))
After1(text, n) == SubSeq(text, n + 1, Len(text))

SKIP_BLANK(ptr) ==
  After1(ptr, Min({Len(ptr)} \cup {i - 1 : i \in {k \in DOMAIN ptr : ptr[k].w # " "}}))

parse_instr(text) ==
  LET ptr == SKIP_BLANK(text)
  IN  IF Starts(ptr, "instr") /\ ptr[1].s \in DOMAIN instr_set
      THEN Parsed("INSTR", Tail(ptr), 0, ptr[1].s)
      ELSE PARSE_ERR(ptr)

(* Mutant of parse_delim: a missing delimiter is not noticed.              *)
parse_delimOptional(text, delim) ==
  LET ptr == SKIP_BLANK(text)
  IN  Parsed("DELIM", IF Starts(ptr, delim) THEN Tail(ptr) ELSE ptr, 0, <<>>)

parse_delim(text, delim) ==
  LET ptr == SKIP_BLANK(text)
  IN  IF Starts(ptr, delim) THEN Parsed("DELIM", Tail(ptr), 0, <<>>) ELSE PARSE_ERR(ptr)

parse_reg(text) ==
  LET ptr == SKIP_BLANK(text)
  IN  IF Starts(ptr, "reg") THEN Parsed("REG", Tail(ptr), ptr[1].n, <<>>) ELSE PARSE_ERR(ptr)

\* A symbol goes on to the next blank or comma, whatever it contains.
parse_symbol(text) ==
  LET ptr  == SKIP_BLANK(text)
      name == Before(ptr, {" ", ","})
  IN  IF Starts(ptr, "ident") \/ Starts(ptr, "instr")
      THEN Parsed("SYMBOL", After1(ptr, Len(name)), 0, name)
      ELSE PARSE_ERR(ptr)

parse_digit(text) ==
  LET ptr == SKIP_BLANK(text)
  IN  IF Starts(ptr, "num") THEN Parsed("DIGIT", Tail(ptr), ptr[1].n, <<>>) ELSE PARSE_ERR(ptr)

parse_imm(text) ==
  LET ptr == SKIP_BLANK(text)
  IN  IF Starts(ptr, "$") THEN parse_digit(Tail(ptr)) ELSE parse_symbol(ptr)

\* (%reg) or D(%reg): no blank before a bracket, unless the line has no D.
parse_mem(text) ==
  LET ptr  == SKIP_BLANK(text)
      d    == parse_digit(ptr)
      open == IF d.type = "DIGIT" THEN d.ptr ELSE ptr
      reg  == parse_reg(Tail(open))
  IN  IF Starts(open, "(") /\ reg.type = "REG" /\ Starts(reg.ptr, ")")
      THEN [Parsed("MEM", Tail(reg.ptr), reg.value, <<>>) EXCEPT !.name = <<Num(d.value)>>]
      ELSE PARSE_ERR(ptr)
Displacement(mem) == mem.name[1].n

parse_data(text) ==
  LET ptr == SKIP_BLANK(text)
  IN  IF Starts(ptr, "num") THEN parse_digit(ptr) ELSE parse_symbol(ptr)

\* Everything up to a colon, if no blank or comment comes first.
parse_label(text) ==
  LET ptr  == SKIP_BLANK(text)
      name == Before(ptr, {":", " ", "#"})
      rest == After1(ptr, Len(name))
  IN  IF Starts(rest, ":") THEN Parsed("LABEL", Tail(rest), 0, name) ELSE PARSE_ERR(ptr)

----------------------------------------------------------------------------
(* Operands *)

NoCodes == [i \in 0 .. WORD + 1 |-> 0]
WithWord(codes, at, value) ==
  [i \in DOMAIN codes |-> IF i \in at .. at + WORD - 1 THEN ByteOf(value, i - at) ELSE codes[i]]

\* The bytes of an instruction and the symbol it waits for, if any; ok is
\* FALSE if the operands are refused.
Encoded(ok, codes, symbol) == [ok |-> ok, codes |-> codes, symbol |-> symbol]
Regs(ok, codes, hi, lo) ==
  Encoded(ok, [codes EXCEPT ![1] = HPACK(hi, lo)], <<>>)

TwoRegs(codes, ptr) ==
  LET a == parse_reg(ptr)
      c == parse_delim(a.ptr, ",")
      b == parse_reg(c.ptr)
  IN  Regs(a.type = "REG" /\ c.type = "DELIM" /\ b.type = "REG", codes, a.value, b.value)

OneReg(codes, ptr) ==
  LET a == parse_reg(ptr) IN Regs(a.type = "REG", codes, a.value, REG_NONE)

\* A number, put at `at`, or a symbol.
Immediate(codes, at, imm) ==
  CASE imm.type = "DIGIT"  -> Encoded(TRUE, WithWord(codes, at, imm.value), <<>>)
    [] imm.type = "SYMBOL" -> Encoded(TRUE, codes, imm.name)
    [] OTHER -> Encoded(FALSE, codes, <<>>)

ImmToReg(codes, ptr) ==
  LET i == parse_imm(ptr)
      e == Immediate(codes, 2, i)
      c == parse_delim(i.ptr, ",")
      b == parse_reg(c.ptr)
  IN  [e EXCEPT !.ok = @ /\ c.type = "DELIM" /\ b.type = "REG",
                !.codes[1] = HPACK(REG_NONE, b.value)]

MemToReg(codes, ptr) ==
  LET m == parse_mem(ptr)
      c == parse_delim(m.ptr, ",")
      b == parse_reg(c.ptr)
      ok == m.type = "MEM" /\ c.type = "DELIM" /\ b.type = "REG"
  IN  IF ok THEN Regs(ok, WithWord(codes, 2, Displacement(m)), b.value, m.value)
      ELSE Encoded(FALSE, codes, <<>>)

RegToMem(codes, ptr) ==
  LET a == parse_reg(ptr)
      c == parse_delim(a.ptr, ",")
      m == parse_mem(c.ptr)
      ok == a.type = "REG" /\ c.type = "DELIM" /\ m.type = "MEM"
  IN  IF ok THEN Regs(ok, WithWord(codes, 2, Displacement(m)), a.value, m.value)
      ELSE Encoded(FALSE, codes, <<>>)

\* One byte more than the data has is written, still inside codes.
Data(codes, bytes, d) ==
  IF d.type = "DIGIT"
  THEN Encoded(TRUE, [i \in DOMAIN codes |->
                        IF i <= bytes THEN ByteOf(d.value, i) ELSE codes[i]], <<>>)
  ELSE Immediate(codes, 0, d)

Operands(inst, ptr) ==
  LET codes == [NoCodes EXCEPT ![0] = inst.code]
      icode == HI4(inst.code)
  IN  CASE icode \in {I_NOP, I_HALT, I_RET} -> Encoded(TRUE, codes, <<>>)
        [] icode \in {I_RRMOVQ, I_ALU} -> TwoRegs(codes, ptr)
        [] icode \in {I_PUSHQ, I_POPQ} -> OneReg(codes, ptr)
        [] icode = I_IRMOVQ -> ImmToReg(codes, ptr)
        [] icode = I_MRMOVQ -> MemToReg(codes, ptr)
        [] icode = I_RMMOVQ -> RegToMem(codes, ptr)
        [] icode \in {I_JMP, I_CALL} -> Immediate(codes, 1, parse_imm(ptr))
        [] icode = I_DIRECTIVE ->
             IF LO4(inst.code) = D_DATA THEN Data(codes, inst.bytes, parse_data(ptr))
             ELSE Encoded(parse_digit(ptr).type = "DIGIT", codes, <<>>)

----------------------------------------------------------------------------
(* A line *)

find_symbol(name) == {i \in DOMAIN symtab : symtab[i].name = name}

\* -1, a duplicate, is for parse_line to see: it then changes nothing.
add_symbol(name) == symtab' = Append(symtab, [name |-> name, addr |-> vmaddr])

\* The line is the one parse_line appends.
add_reloc(name) == reltab' = Append(reltab, [name |-> name, line |-> Len(lines) + 1])

Line(type, addr, codes, bytes) ==
  [type |-> type, addr |-> addr, codes |-> codes, bytes |-> bytes]
Comment0 == Line("COMM", 0, NoCodes, 0)

\* The label at the start of a line; ptr is after it.
Label(text) == parse_label(SKIP_BLANK(text))
HasLabel(text) == ~Starts(SKIP_BLANK(text), "#") /\ Label(text).type = "LABEL"
AfterLabel(text) == IF HasLabel(text) THEN Label(text).ptr ELSE SKIP_BLANK(text)
Mnemonic(text) == parse_instr(AfterLabel(text))
HasInstr(text) == ~Starts(SKIP_BLANK(text), "#") /\ Mnemonic(text).type = "INSTR"

\* The address a directive moves to.
Moved(inst, n) ==
  IF LO4(inst.code) = D_POS THEN n ELSE Aligned(vmaddr, n)
Moves(inst) == HI4(inst.code) = I_DIRECTIVE /\ LO4(inst.code) # D_DATA

\* Where the line's bytes go.
Address(inst, n) == IF Moves(inst) THEN Moved(inst, n) ELSE vmaddr

\* A label is added with the address counter's value as it is before the
\* rest of the line; on an error main gives up.
parse_line(text) ==
  LET inst == instr_set[Mnemonic(text).name]
      e    == Operands(inst, Mnemonic(text).ptr)
      n    == parse_digit(Mnemonic(text).ptr).value
      dup  == HasLabel(text) /\ find_symbol(Label(text).name) # {}
      line == CASE HasInstr(text) -> Line("INS", Address(inst, n), e.codes, inst.bytes)
                [] HasLabel(text) -> Line("INS", vmaddr, NoCodes, 0)
                [] OTHER -> Comment0
  IN  IF dup \/ (HasInstr(text) /\ ~e.ok)
      THEN /\ phase' = "exit1"
           /\ UNCHANGED <<lines, vmaddr, symtab, reltab>>
      ELSE IF HasInstr(text) /\ HI4(inst.code) = I_DIRECTIVE
              /\ LO4(inst.code) = D_ALIGN /\ n = 0
      THEN /\ phase' = "crash"                    \* a division by zero
           /\ UNCHANGED <<lines, vmaddr, symtab, reltab>>
      ELSE /\ lines' = Append(lines, line)
           /\ vmaddr' = IF HasInstr(text) THEN Address(inst, n) + inst.bytes ELSE vmaddr
           /\ IF HasLabel(text) THEN add_symbol(Label(text).name) ELSE UNCHANGED symtab
           /\ IF HasInstr(text) /\ e.symbol # <<>> THEN add_reloc(e.symbol)
              ELSE UNCHANGED reltab
           /\ UNCHANGED phase

----------------------------------------------------------------------------
(* The three passes *)

AsmInit ==
  /\ phase = "assemble"
  /\ lines = <<>> /\ symtab = <<>> /\ reltab = <<>>
  /\ vmaddr = 0 /\ next = 0
  /\ file = <<>>

assemble ==
  /\ phase = "assemble" /\ next < Len(source)
  /\ parse_line(source[next + 1])
  /\ next' = next + 1
  /\ UNCHANGED file

Assembled ==
  /\ phase = "assemble" /\ next = Len(source)
  /\ phase' = "relocate" /\ next' = 0
  /\ UNCHANGED <<lines, vmaddr, symtab, reltab, file>>

(* Mutant of Completed: the value goes to the last bytes of codes.         *)
CompletedAtEnd(bin, value) ==
  [bin EXCEPT !.codes = WithWord(@, 2, value)]

\* The word at codes[relbytes - WORD].  A line shorter than a word has no
\* room for it: the bytes before codes are the end of its addr.
Completed(bin, value) ==
  LET at == bin.bytes - WORD
      kept == Max({0, WORD + at})
  IN  [bin EXCEPT !.codes = WithWord(@, at, value),
                  !.addr = IF at >= 0 THEN @
                           ELSE Signed((@ % 256 ^ kept) + ((value * 256 ^ kept) % Modulus))]

relocate ==
  /\ phase = "relocate" /\ next < Len(reltab)
  /\ LET r == reltab[next + 1]
         found == find_symbol(r.name)
     IN  IF found = {}
         THEN phase' = "exit1" /\ UNCHANGED lines
         ELSE /\ lines' = [lines EXCEPT ![r.line] =
                             Completed(@, symtab[Min(found)].addr)]
              /\ UNCHANGED phase
  /\ next' = next + 1
  /\ UNCHANGED <<vmaddr, symtab, reltab, file>>

Relocated ==
  /\ phase = "relocate" /\ next = Len(reltab)
  /\ phase' = "binfile" /\ next' = 0
  /\ UNCHANGED <<lines, vmaddr, symtab, reltab, file>>

\* fwrite at the line's address, over what an earlier line has put there.
Written(f, line) ==
  [a \in line.addr .. line.addr + line.bytes - 1 |-> line.codes[a - line.addr]] @@ f

\* fseek refuses a negative offset.
binfile ==
  /\ phase = "binfile" /\ next < Len(lines)
  /\ LET line == lines[next + 1]
     IN  IF line.type = "INS" /\ line.addr < 0
         THEN phase' = "exit1" /\ UNCHANGED file
         ELSE /\ file' = IF line.type = "INS" /\ line.bytes > 0
                         THEN Written(file, line) ELSE file
              /\ UNCHANGED phase
  /\ next' = next + 1
  /\ UNCHANGED <<lines, vmaddr, symtab, reltab>>

Filed ==
  /\ phase = "binfile" /\ next = Len(lines)
  /\ phase' = "done"
  /\ UNCHANGED <<lines, vmaddr, symtab, reltab, next, file>>

Y64AsmNext == assemble \/ Assembled \/ relocate \/ Relocated \/ binfile \/ Filed
=============================================================================
