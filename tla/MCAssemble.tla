----------------------------- MODULE MCAssemble -----------------------------
(***************************************************************************)
(* Assemble for TLC: every file of up to three lines out of these.         *)
(***************************************************************************)
EXTENDS Assemble

A == Ident("A")   B == Ident("B")
RAX == Reg(0)     RSP == Reg(REG_RSP)
Comma == Punct(",")   Colon1 == Punct(":")   Dollar == Punct("$")
Open == Punct("(")    Close == Punct(")")

Op(name) == <<Blank, Instr(name), Blank>>

Pool == {
  <<A, Colon1>>,
  <<B, Colon1>> \o Op("halt"),
  <<A, Colon1>> \o Op(".pos") \o <<Num(5)>>,
  <<A, Blank, Colon1>>,
  <<Comment, A, Colon1>>,
  <<>>,
  Op("jne") \o <<B>>,
  Op("jmp") \o <<Num(3)>>,
  Op("call") \o <<A, Blank, Comment>>,
  Op("cmovl") \o <<RAX, Comma, Blank, RSP>>,
  Op("addq") \o <<RAX, Blank, RSP>>,
  Op("irmovq") \o <<Dollar, Num(-1), Comma, RAX>>,
  Op("irmovq") \o <<B, Comma, RAX>>,
  Op("irmovq") \o <<Dollar, A, Comma, RAX>>,
  Op("iaddq") \o <<Dollar, Num(1), Comma, RAX>>,
  Op("mrmovq") \o <<Num(4), Open, RSP, Close, Comma, RAX>>,
  Op("mrmovq") \o <<Num(4), Blank, Open, RSP, Close, Comma, RAX>>,
  Op("rmmovq") \o <<RAX, Comma, Open, RSP, Close>>,
  Op("rmmovq") \o <<RAX, Comma, A, Open, RSP, Close>>,
  Op("pushq") \o <<RAX>>,
  Op(".quad") \o <<A>>,
  Op(".byte") \o <<B>>,
  Op(".byte") \o <<Num(258)>>,
  Op(".pos") \o <<Num(1)>>,
  Op(".pos") \o <<Num(-2)>>,
  Op(".pos") \o <<Num(CODE_LIMIT - 1)>>,
  Op(".align") \o <<Num(4)>>,
  Op(".align") \o <<Num(0)>>,
  Op("ret") \o <<Odd>>
}

MCSources == UNION {[1 .. n -> Pool] : n \in 1 .. 3}
=============================================================================
