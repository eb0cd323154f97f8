------------------------------- MODULE Source -------------------------------
(***************************************************************************)
(* A line of a .ys file as both assemblers of the repository see it: a     *)
(* sequence of lexemes, each of one shape so that any two can be compared. *)
(* Spelling is left out (a mnemonic or a number is one lexeme, and no name *)
(* begins with a mnemonic); blanks are kept, for y64asm skips them in some *)
(* places and not in others.                                               *)
(***************************************************************************)
EXTENDS Y86, Sequences, SequencesExt

VARIABLE source     \* the lines of the input file

Abs(n) == IF n < 0 THEN -n ELSE n

Lexeme(kind, string, number) == [w |-> kind, s |-> string, n |-> number]
Punct(c)  == Lexeme(c, "", 0)
Blank     == Punct(" ")
Comment   == Punct("#")
Odd       == Punct("?")                 \* a character no token begins with
Num(n)    == Lexeme("num", "", n)
Reg(id)   == Lexeme("reg", "", id)
Instr(s)  == Lexeme("instr", s, 0)
Ident(s)  == Lexeme("ident", s, 0)

Starts(text, kind) == text # <<>> /\ text[1].w = kind

\* A number, an integer, is written as the bytes of its two's complement, least
\* significant first; ByteOf(v, i) for i from WORD on is what a shift by more
\* than the width gives.
ByteOf(value, i) == (value \div 256 ^ (i % WORD)) % 256

\* C's quotient, and the next multiple that both assemblers compute with it.
Quotient(a, b) ==
  LET q == Abs(a) \div Abs(b) IN IF (a < 0) = (b < 0) THEN q ELSE -q
Aligned(addr, a) == Quotient(addr + a - 1, a) * a

\* The directives that emit data and their sizes, for words of 8 bytes 1, 2, 4
\* and 8.
DataSize == [byte |-> 1, word |-> Max({1, WORD \div 4}),
             long |-> Max({1, WORD \div 2}), quad |-> WORD]

\* What the tables of both assemblers say of an instruction: its first byte and
\* its size.
Entry(icode, ifun, bytes) == [code |-> HPACK(icode, ifun), bytes |-> bytes]
Cond == "le" :> C_LE @@ "l" :> C_L @@ "e" :> C_E @@ "ne" :> C_NE @@ "ge" :> C_GE @@ "g" :> C_G
Opcode ==
  [x \in {"cmov" \o c : c \in DOMAIN Cond} |->
     Entry(I_RRMOVQ, Cond[CHOOSE c \in DOMAIN Cond : x = "cmov" \o c], 2)] @@
  [x \in {"j" \o c : c \in DOMAIN Cond} |->
     Entry(I_JMP, Cond[CHOOSE c \in DOMAIN Cond : x = "j" \o c], 1 + WORD)] @@
  "nop"    :> Entry(I_NOP, 0, 1)            @@ "halt"   :> Entry(I_HALT, 0, 1) @@
  "ret"    :> Entry(I_RET, 0, 1)            @@ "rrmovq" :> Entry(I_RRMOVQ, 0, 2) @@
  "irmovq" :> Entry(I_IRMOVQ, 0, 2 + WORD)  @@ "rmmovq" :> Entry(I_RMMOVQ, 0, 2 + WORD) @@
  "mrmovq" :> Entry(I_MRMOVQ, 0, 2 + WORD)  @@ "addq"   :> Entry(I_ALU, A_ADD, 2) @@
  "subq"   :> Entry(I_ALU, A_SUB, 2)        @@ "andq"   :> Entry(I_ALU, A_AND, 2) @@
  "xorq"   :> Entry(I_ALU, A_XOR, 2)        @@ "jmp"    :> Entry(I_JMP, C_YES, 1 + WORD) @@
  "call"   :> Entry(I_CALL, 0, 1 + WORD)    @@ "pushq"  :> Entry(I_PUSHQ, 0, 2) @@
  "popq"   :> Entry(I_POPQ, 0, 2)
=============================================================================
