------------------------------ MODULE Programs ------------------------------
(* Programs for the processors: the first instruction sets up the stack, the next ones are any of a
   menu, and the rest of the text is zero, which is halt. *)
EXTENDS Y86

\* The words of four bits, and what & and ^ do to them.
Bit(w, i) == ((w + 16) \div 2 ^ i) % 2
WordOf(b(_)) == CHOOSE w \in -8 .. 7 : \A i \in 0 .. 3 : Bit(w, i) = b(i)
AndBits(a, b) == WordOf(LAMBDA i : Bit(a, i) * Bit(b, i))
XorBits(a, b) == WordOf(LAMBDA i : (Bit(a, i) + Bit(b, i)) % 2)

Op(icode, ifun, rA, rB, valC) == [icode |-> icode, ifun |-> ifun, rA |-> rA, rB |-> rB, valC |-> valC]
N == RNONE
SetStack == Op("IIRMOVQ", F_NONE, N, "rsp", 6)
HaltInstr == Op("IHALT", F_NONE, N, N, 0)

TextAddresses == 0 .. 5
DataAddresses == 6 .. 7
Program(free) == [a \in TextAddresses |-> IF a = 0 THEN SetStack ELSE IF a <= free THEN NotYet ELSE HaltInstr]
Free2 == Program(2)
Free3 == Program(3)

Menu == {
  SetStack, HaltInstr, Op("INOP", F_NONE, N, N, 0), Op("IPOP2", F_NONE, N, N, 0),
  Op("IRRMOVQ", C_YES, "rsp", "rax", 0), Op("IRRMOVQ", C_NE, "rax", "rsp", 0),
  Op("IIRMOVQ", F_NONE, N, "rax", 2), Op("IIADDQ", F_NONE, N, "rax", 7),
  Op("IRMMOVQ", F_NONE, "rax", "rsp", 0), Op("IRMMOVQ", F_NONE, "rsp", "rax", 5),
  Op("IMRMOVQ", F_NONE, "rax", "rsp", 0), Op("IMRMOVQ", F_NONE, "rsp", "rax", 6),
  Op("IOPQ", A_SUB, "rax", "rsp", 0), Op("IOPQ", A_AND, "rax", "rax", 0), Op("IOPQ", A_XOR, "rsp", "rax", 0),
  Op("IOPQ", A_ADD, "rax", "rax", 0), Op("IRRMOVQ", C_L, "rsp", "rax", 0), Op("IJXX", C_LE, N, N, 2),
  Op("IJXX", C_YES, N, N, 3), Op("IJXX", C_NE, N, N, 3), Op("IJXX", C_G, N, N, 1),
  Op("ICALL", F_NONE, N, N, 3), Op("IRET", F_NONE, N, N, 0),
  Op("IPUSHQ", F_NONE, "rax", N, 0), Op("IPUSHQ", F_NONE, "rsp", N, 0),
  Op("IPOPQ", F_NONE, "rax", N, 0), Op("IPOPQ", F_NONE, "rsp", N, 0)}

\* mrmovq and rmmovq with an address and no base register, which yas.c accepts ("Num").
Absolute == {Op("IMRMOVQ", F_NONE, "rax", N, 6), Op("IRMMOVQ", F_NONE, "rax", N, 7)}

\* A loop of two instructions.
Loop == {Op("IIADDQ", F_NONE, N, "rax", -1), Op("IJXX", C_NE, N, N, 1), HaltInstr}
=============================================================================
