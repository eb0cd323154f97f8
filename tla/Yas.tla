-------------------------------- MODULE Yas ---------------------------------
(***************************************************************************)
(* yas, the assembler of lab6/sim, and load_mem, which reads what it       *)
(* writes.  The scanner hands over the tokens of a line one by one;        *)
(* finish_line handles the line.  Pass 1 collects the labels, pass 2       *)
(* encodes and writes the .yo file.                                        *)
(*                                                                         *)
(* Left out: the Verilog output, the symbol table's listing, messages.     *)
(***************************************************************************)
EXTENDS Source

VARIABLES
    pass,           \* "pass1", "pass2", or how main returned: "exit", "exit1"
    lineno,         \* lines read in this pass
    bytepos,
    tokens,         \* of the line being read
    symbol_table,
    error_mode, hit_error,
    code,           \* the bytes of the last instruction
    outfile         \* the lines of the .yo file that have an address

yasVars == <<pass, lineno, bytepos, tokens, symbol_table, error_mode, hit_error, code, outfile>>

----------------------------------------------------------------------------
(* Tables *)

\* Where an argument goes: its first byte, and the half of the byte or the
\* number of bytes.
R_ARG(pos, hi) == [arg |-> "R", pos |-> pos, hi |-> hi]
M_ARG(pos)     == [arg |-> "M", pos |-> pos, hi |-> 0]
I_ARG(pos, n)  == [arg |-> "I", pos |-> pos, hi |-> n]

Args(name) ==
  CASE name \in {"nop", "halt", "ret"} -> <<>>
    [] name \in {"irmovq", "iaddq"} -> <<I_ARG(2, WORD), R_ARG(1, 0)>>
    [] name = "rmmovq" -> <<R_ARG(1, 1), M_ARG(1)>>
    [] name = "mrmovq" -> <<M_ARG(1), R_ARG(1, 1)>>
    [] name \in {"pushq", "popq"} -> <<R_ARG(1, 1)>>
    [] name \in DOMAIN Opcode /\ HI4(Opcode[name].code) \in {I_JMP, I_CALL} -> <<I_ARG(1, WORD)>>
    [] name \in DOMAIN Opcode /\ HI4(Opcode[name].code) \in {I_RRMOVQ, I_ALU} ->
         <<R_ARG(1, 1), R_ARG(1, 0)>>

instruction_set ==
  Opcode @@ "iaddq" :> Entry(I_IADDQ, 0, 2 + WORD) @@
  ".byte" :> Entry(0, 0, DataSize.byte) @@ ".word" :> Entry(0, 0, DataSize.word) @@
  ".long" :> Entry(0, 0, DataSize.long) @@ ".quad" :> Entry(0, 0, DataSize.quad)
IsData(name) == name \in {".byte", ".word", ".long", ".quad"}
ArgsOf(name) == IF IsData(name) THEN <<I_ARG(0, instruction_set[name].bytes)>> ELSE Args(name)

----------------------------------------------------------------------------
(* Scanning: yas-grammar.lex *)

Unread(text) == Min({Len(text) + 1} \cup {i \in DOMAIN text : text[i].w \in {"#", "?"}})
Scanned(text) == SelectSeq(SubSeq(text, 1, Unread(text) - 1), LAMBDA x : x.w \notin {" ", "$"})
\* The rest of a line is thrown away at a character that begins no token.
Invalid(text) == Unread(text) <= Len(text) /\ text[Unread(text)].w = "?"

----------------------------------------------------------------------------
(* Operands.  p has the place in toks, the code so far and whether fail    *)
(* has been called.                                                        *)

Tok(toks, i) == IF i <= Len(toks) THEN toks[i] ELSE Odd
Failed(p) == [p EXCEPT !.fail = TRUE]
WithHalf(c, pos, hi, id) ==
  [c EXCEPT ![pos] = IF hi = 1 THEN HPACK(id, LO4(@)) ELSE HPACK(HI4(@), id)]
WithBytes(c, pos, n, value) ==
  [i \in DOMAIN c |-> IF i \in pos .. pos + n - 1 THEN ByteOf(value, i - pos) ELSE c[i]]

Labels(name) == {i \in DOMAIN symbol_table : symbol_table[i].name = name}
\* The first entry of that name; -1 if there is none.
symbol_pos(name) ==
  IF Labels(name) = {} THEN -1 ELSE symbol_table[Min(Labels(name))].pos

get_reg(toks, p, a) ==
  LET t == Tok(toks, p.tpos)
  IN  IF t.w # "reg" THEN Failed(p)
      ELSE [p EXCEPT !.code = WithHalf(@, a.pos, a.hi, t.n), !.tpos = @ + 1]

\* A number or a name, if one is there.
Valued(t) == t.w \in {"num", "ident"}
ValueOf(t) == IF t.w = "num" THEN t.n ELSE symbol_pos(t.s)
Unknown(t) == t.w = "ident" /\ Labels(t.s) = {}

get_num(toks, p, a) ==
  LET t == Tok(toks, p.tpos)
  IN  IF ~Valued(t) THEN Failed(p)
      ELSE [code |-> WithBytes(p.code, a.pos, a.hi, ValueOf(t)),
            tpos |-> p.tpos + 1, fail |-> p.fail \/ Unknown(t)]

\* Num(Reg), (Reg), Num, Ident or Ident(Reg).
get_mem(toks, p, a) ==
  LET t    == Tok(toks, p.tpos)
      val  == IF Valued(t) THEN ValueOf(t) ELSE 0
      bad  == p.fail \/ Unknown(t)
      open == IF Valued(t) THEN p.tpos + 1 ELSE p.tpos
      has  == Tok(toks, open).w = "("
      id   == Tok(toks, open + 1)
      put(reg) == WithBytes(WithHalf(p.code, a.pos, 0, reg), a.pos + 1, WORD, val)
  IN  IF ~has THEN [code |-> put(REG_NONE), tpos |-> open, fail |-> bad]
      ELSE IF id.w = "reg" /\ Tok(toks, open + 2).w = ")"
      THEN [code |-> put(id.n), tpos |-> open + 3, fail |-> bad]
      ELSE [p EXCEPT !.tpos = open + 1, !.fail = TRUE]

Argument(toks, p, a) ==
  CASE a.arg = "R" -> get_reg(toks, p, a)
    [] a.arg = "M" -> get_mem(toks, p, a)
    [] a.arg = "I" -> get_num(toks, p, a)

\* The line is not written if the comma is missing, but is if an argument is.
Arguments(toks, start, name) ==
  LET args  == ArgsOf(name)
      p0    == [tpos |-> start, fail |-> FALSE,
                code |-> [code EXCEPT ![0] = instruction_set[name].code,
                                      ![1] = HPACK(REG_NONE, REG_NONE)]]
      p1    == IF args = <<>> THEN p0 ELSE Argument(toks, p0, args[1])
      comma == Len(args) = 2 => Tok(toks, p1.tpos).w = ","
      p2    == IF Len(args) = 2 /\ comma
               THEN Argument(toks, [p1 EXCEPT !.tpos = @ + 1], args[2]) ELSE p1
  IN  [code |-> p2.code, fail |-> p2.fail \/ ~comma, written |-> comma]

----------------------------------------------------------------------------
(* A line *)

CODE_LIMIT == 16 ^ 4 - 1

\* The address as the three or four hexadecimal digits that are written.
Digits(pos) == IF pos < 16 ^ 3 THEN pos % 16 ^ 3 ELSE pos

\* print_code, in pass 2: above the limit yas exits at once.
print_code(pos, n) ==
  IF pass = "pass1" THEN UNCHANGED <<outfile, pass>>
  ELSE IF pos > CODE_LIMIT THEN pass' = "exit1" /\ UNCHANGED outfile
  ELSE /\ outfile' = Append(outfile, [addr |-> Digits(pos), code |-> [i \in 1 .. n |-> code'[i - 1]]])
       /\ UNCHANGED pass

Skips   == UNCHANGED <<pass, bytepos, code, outfile, hit_error>>
Refuses == hit_error' = TRUE /\ UNCHANGED <<pass, bytepos, code, outfile>>

Labelled(toks) == Starts(toks, "ident")
Colon(toks) == Tok(toks, 2).w = ":"
First(toks) == IF Labelled(toks) THEN 3 ELSE 1
Word1(toks) == Tok(toks, First(toks))
Operand1(toks) == Tok(toks, First(toks) + 1)

Jumps(toks) ==
  LET to == Operand1(toks)
      ok == to.w = "num" /\ (Word1(toks).s = ".align" => to.n > 0)
  IN  IF ~ok THEN Refuses
      ELSE /\ bytepos' = IF Word1(toks).s = ".pos" THEN to.n ELSE Aligned(bytepos, to.n)
           /\ UNCHANGED <<code, hit_error>>
           /\ print_code(bytepos', 0)

\* Pass 1 only counts the bytes.
Encodes(toks) ==
  LET name == Word1(toks).s
      a    == Arguments(toks, First(toks) + 1, name)
  IN  /\ bytepos' = bytepos + instruction_set[name].bytes
      /\ IF pass = "pass1" THEN UNCHANGED <<pass, code, outfile, hit_error>>
         ELSE /\ code' = a.code
              /\ hit_error' = (hit_error \/ a.fail)
              /\ IF a.written THEN print_code(bytepos, instruction_set[name].bytes)
                 ELSE UNCHANGED <<pass, outfile>>

\* A second definition is put behind the first, which find_symbol then finds.
with_symbol(name, p) == symbol_table' = Append(symbol_table, [name |-> name, pos |-> p])

\* A label is defined in pass 1, whatever follows it.
Defines(toks) ==
  IF pass = "pass1" /\ Labelled(toks) /\ Colon(toks)
  THEN with_symbol(toks[1].s, bytepos)
  ELSE UNCHANGED symbol_table

finish_line(toks, erroneous) ==
  /\ IF toks = <<>> \/ erroneous
     THEN Skips /\ UNCHANGED symbol_table
     ELSE /\ Defines(toks)
          /\ CASE Labelled(toks) /\ ~Colon(toks) -> Refuses
               [] Labelled(toks) /\ Colon(toks) /\ Len(toks) = 2 ->
                    UNCHANGED <<bytepos, code, hit_error>> /\ print_code(bytepos, 0)
               [] OTHER ->
                    IF Word1(toks).w # "instr" THEN Refuses
                    ELSE IF Word1(toks).s \in {".pos", ".align"} THEN Jumps(toks)
                    ELSE Encodes(toks)
  /\ tokens' = <<>>
  /\ error_mode' = FALSE

\* The first token of a line ends the error mode of the line before.
ReadLine ==
  /\ pass \in {"pass1", "pass2"} /\ lineno < Len(source)
  /\ LET new  == Scanned(source[lineno + 1])
         mode == error_mode /\ ~(tokens = <<>> /\ new # <<>>)
     IN  IF Invalid(source[lineno + 1])
         THEN /\ tokens' = tokens \o new
              /\ error_mode' = TRUE /\ hit_error' = TRUE
              /\ UNCHANGED <<pass, bytepos, code, outfile, symbol_table>>
         ELSE finish_line(tokens \o new, mode)
  /\ lineno' = lineno + 1

----------------------------------------------------------------------------
(* The passes *)

YasInit ==
  /\ pass = "pass1" /\ lineno = 0 /\ bytepos = 0
  /\ tokens = <<>> /\ symbol_table = <<>>
  /\ error_mode = FALSE /\ hit_error = FALSE
  /\ code = [i \in 0 .. WORD + 1 |-> 0]
  /\ outfile = <<>>

\* Tokens that no end of line has followed are an error.
yywrap == hit_error' = (hit_error \/ tokens # <<>>)

EndOfPass ==
  /\ pass \in {"pass1", "pass2"} /\ lineno = Len(source)
  /\ yywrap
  /\ pass' = IF hit_error' THEN "exit1" ELSE IF pass = "pass1" THEN "pass2" ELSE "exit"
  /\ lineno' = 0 /\ bytepos' = 0
  /\ error_mode' = FALSE
  /\ UNCHANGED <<tokens, symbol_table, code, outfile>>

YasNext == ReadLine \/ EndOfPass

----------------------------------------------------------------------------
(* load_mem *)

NoMemory == [a \in 0 .. MEM_SIZE - 1 |-> 0]
Loads(m, l) ==
  [a \in DOMAIN m |-> IF a - l.addr + 1 \in DOMAIN l.code THEN l.code[a - l.addr + 1] ELSE m[a]]
\* How many bytes it reads; 0 is failure, also if an address is too high.
byte_cnt(yo) ==
  IF \E i \in DOMAIN yo : yo[i].code # <<>> /\ yo[i].addr + Len(yo[i].code) > MEM_SIZE
  THEN 0 ELSE FoldSeq(LAMBDA l, n : n + Len(l.code), 0, yo)
load_mem(yo) == FoldLeft(Loads, NoMemory, yo)
=============================================================================
