-------------------------------- MODULE Y86 --------------------------------
(***************************************************************************)
(* The Y86-64 machine: words, registers, memory, instructions, arithmetic  *)
(* and conditions, as misc/isa.h and the pure functions of misc/isa.c      *)
(* define them.  A word is in two's complement, from -Half to Half - 1.    *)
(* One number addresses one instruction or one word of data, so the 8s of  *)
(* the sources (the size of a word) and an instruction's length are both 1 *)
(* here.  Text is neither read nor written as data, and data is not        *)
(* executed: such an access counts as an invalid address.                  *)
(***************************************************************************)
EXTENDS Integers

CONSTANTS Half,       \* half the number of words, 2^63 in the code
          BitAnd(_, _), BitXor(_, _),
          Registers,  \* without %rsp
          Text, Data, \* the addresses of instructions, and of words of data
          Instrs,     \* the instructions a program is made of
          Image,      \* the text as assembled; NotYet where any instruction may be
          Quads,      \* the values that the words of data may start with
          RNONE, NotYet

Words == -Half .. Half - 1

\* The sum or difference of two words, wrapped around.
Wrap(x) == IF x >= Half THEN x - 2 * Half ELSE IF x < -Half THEN x + 2 * Half ELSE x

Regs == Registers \cup {"rsp"}

AOK == "AOK"
HLT == "HLT"
ADR == "ADR"
INS == "INS"
BUB == "BUB"
PIP == "PIP"
Stopped == {HLT, ADR, INS, PIP}

C_YES == 0
C_LE  == 1
C_L   == 2
C_E   == 3
C_NE  == 4
C_GE  == 5
C_G   == 6

A_ADD == 0
A_SUB == 1
A_AND == 2
A_XOR == 3

F_NONE == 0

Icodes == {"IHALT", "INOP", "IRRMOVQ", "IIRMOVQ", "IRMMOVQ", "IMRMOVQ", "IOPQ", "IJXX", "ICALL",
           "IRET", "IPUSHQ", "IPOPQ", "IIADDQ"}
AllIcodes == Icodes \cup {"IPOP2"}

Instr == [icode : AllIcodes, ifun : 0 .. 6, rA : Regs \cup {RNONE}, rB : Regs \cup {RNONE}, valC : Words]

ASSUME Y86Assumption ==
  /\ Half \in Nat \ {0, 1}
  /\ \A a, b \in Words : BitAnd(a, b) \in Words /\ BitXor(a, b) \in Words
  /\ Text \subseteq Words /\ Data \subseteq Words /\ Text \cap Data = {}
  /\ 0 \in Text
  /\ RNONE \notin Regs
  /\ Instrs \subseteq Instr
  /\ NotYet \notin Instr
  /\ Image \in [Text -> Instr \cup {NotYet}]
  /\ Quads \subseteq Words

----------------------------------------------------------------------------
compute_alu(op, argA, argB) ==
  CASE op = A_ADD -> Wrap(argA + argB)
    [] op = A_SUB -> Wrap(argB - argA)
    [] op = A_AND -> BitAnd(argA, argB)
    [] op = A_XOR -> BitXor(argA, argB)
    [] OTHER -> 0

DEFAULT_CC == [zf |-> TRUE, sf |-> FALSE, of |-> FALSE]
Flags == [zf : BOOLEAN, sf : BOOLEAN, of : BOOLEAN]

\* The overflow of a subtraction decided as that of an addition.
FaultyCc(op, argA, argB) ==
  LET val == compute_alu(op, argA, argB)
  IN  [zf |-> val = 0, sf |-> val < 0,
       of |-> op \in {A_ADD, A_SUB} /\ (argA < 0) = (argB < 0) /\ (val < 0) # (argA < 0)]

compute_cc(op, argA, argB) ==
  LET val == compute_alu(op, argA, argB)
  IN  [zf |-> val = 0,
       sf |-> val < 0,
       of |-> CASE op = A_ADD -> (argA < 0) = (argB < 0) /\ (val < 0) # (argA < 0)
                [] op = A_SUB -> (argA > 0) = (argB < 0) /\ (val < 0) # (argB < 0)
                [] OTHER -> FALSE]

cond_holds(cc, bcond) ==
  LET less == cc.sf # cc.of
  IN  CASE bcond = C_YES -> TRUE
        [] bcond = C_LE -> less \/ cc.zf
        [] bcond = C_L -> less
        [] bcond = C_E -> cc.zf
        [] bcond = C_NE -> ~cc.zf
        [] bcond = C_GE -> ~less
        [] bcond = C_G -> ~less /\ ~cc.zf
        [] OTHER -> FALSE

get_reg_val(reg, id) == IF id = RNONE THEN 0 ELSE reg[id]
set_reg_val(reg, id, val) == IF id = RNONE THEN reg ELSE [reg EXCEPT ![id] = val]
get_word_val(mem, pos) == IF pos \in Data THEN mem[pos] ELSE 0
set_word_val(mem, pos, val) == IF pos \in Data THEN [mem EXCEPT ![pos] = val] ELSE mem
=============================================================================
