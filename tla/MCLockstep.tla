---------------------------- MODULE MCLockstep ------------------------------
(***************************************************************************)
(* Lockstep for TLC: words of two bytes, 48 bytes of memory.               *)
(***************************************************************************)
EXTENDS Lockstep, SequencesExt

Bytes(w) == <<w % 256, w \div 256>>
Ins(icode, ifun, ra, rb) == <<HPACK(icode, ifun), HPACK(ra, rb)>>
InsImm(icode, ra, rb, w) == Ins(icode, 0, ra, rb) \o Bytes(w)
To(icode, ifun, addr) == <<HPACK(icode, ifun)>> \o Bytes(addr)

RAX == 0   RCX == 1   RSP == REG_RSP   NONE == REG_NONE
Top == 40   Slots == 4   Sub == 20

\* The stack; a subroutine of one instruction.
Prologue == InsImm(I_IRMOVQ, NONE, RSP, Top)
Epilogue == <<HPACK(I_RET, 0)>>

Pool == {
  InsImm(I_IADDQ, NONE, RAX, Modulus - 1),
  InsImm(I_IRMOVQ, NONE, RCX, 38),
  Ins(I_ALU, A_SUB, RSP, RCX),
  Ins(I_ALU, A_ADD, RCX, RCX),
  Ins(I_ALU, A_XOR, RSP, RAX),
  Ins(I_RRMOVQ, C_LE, RAX, RSP),
  InsImm(I_RMMOVQ, RSP, RCX, 4),
  InsImm(I_RMMOVQ, RSP, RCX, 0),
  InsImm(I_MRMOVQ, RSP, RCX, 0),
  InsImm(I_MRMOVQ, RAX, RCX, 20),
  Ins(I_PUSHQ, 0, RAX, NONE),
  Ins(I_POPQ, 0, RSP, NONE),
  To(I_CALL, 0, Sub),
  Epilogue,
  To(I_JMP, C_NE, Sub),
  To(I_JMP, C_L, Slots),
  InsImm(I_IADDQ, NONE, NONE, 1),
  <<HPACK(15, 0)>>
}

\* Three of them, a halt (0) and the subroutine; after it, zeros.
Program(p) == Prologue \o p[1] \o p[2] \o p[3]
Image(code) == [a \in 0 .. MEM_SIZE - 1 |->
                  CASE a < Len(code) -> code[a + 1]
                    [] a = Sub -> Epilogue[1]
                    [] OTHER -> 0]

MCImages == {Image(Program(p)) : p \in [1 .. 3 -> Pool]}
=============================================================================
