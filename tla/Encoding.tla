------------------------------ MODULE Encoding ------------------------------
(* How misc/isa.h and misc/isa.c encode Y86-64 instructions: itype_t and    *)
(* the function codes, the numbers of the registers and instruction_set.    *)
EXTENDS Integers

I_HALT   == 0
I_NOP    == 1
I_RRMOVQ == 2
I_IRMOVQ == 3
I_RMMOVQ == 4
I_MRMOVQ == 5
I_ALU    == 6
I_JMP    == 7
I_CALL   == 8
I_RET    == 9
I_PUSHQ  == 10
I_POPQ   == 11
I_IADDQ  == 12

F_NONE   == 0
REG_NONE == 15

HPACK(hi, lo) == ((hi % 16) * 16) + (lo % 16)
HI4(byte) == byte \div 16
LO4(byte) == byte % 16

reg_table ==
  <<"%rax", "%rcx", "%rdx", "%rbx", "%rsp", "%rbp", "%rsi", "%rdi",
    "%r8", "%r9", "%r10", "%r11", "%r12", "%r13", "%r14">>
RegNames == {reg_table[id + 1] : id \in 0 .. 14}
find_register(name) == CHOOSE id \in 0 .. 14 : reg_table[id + 1] = name

-----------------------------------------------------------------------------
(* An argument is encoded at a byte of the code: a register in its high or   *)
(* its low half, a number in so many bytes from there.                       *)

Arg(kind, pos, hi) == [kind |-> kind, pos |-> pos, hi |-> hi]
NoArg == Arg("NO_ARG", 0, 0)
HiReg == Arg("R_ARG", 1, 1)
LoReg == Arg("R_ARG", 1, 0)
Memory == Arg("M_ARG", 1, 0)
Imm(pos, bytes) == Arg("I_ARG", pos, bytes)

Row(code, bytes, arg1, arg2) == [code |-> code, bytes |-> bytes, arg1 |-> arg1, arg2 |-> arg2]

\* The names that differ in their function code only, and those that set memory.
Moves == [rrmovq |-> 0, cmovle |-> 1, cmovl |-> 2, cmove |-> 3, cmovne |-> 4, cmovge |-> 5, cmovg |-> 6]
Jumps == [jmp |-> 0, jle |-> 1, jl |-> 2, je |-> 3, jne |-> 4, jge |-> 5, jg |-> 6]
Alus  == [addq |-> 0, subq |-> 1, andq |-> 2, xorq |-> 3]
Allocations == [name \in {".byte", ".word", ".long", ".quad"} |->
  CASE name = ".byte" -> 1 [] name = ".word" -> 2 [] name = ".long" -> 4 [] name = ".quad" -> 8]

\* What the scanner takes for an instruction, the two directives apart.
InstrNames ==
  DOMAIN Moves \cup DOMAIN Jumps \cup DOMAIN Alus \cup DOMAIN Allocations
  \cup {"nop", "halt", "irmovq", "rmmovq", "mrmovq", "call", "ret", "pushq", "popq", "iaddq"}

\* The row of a name of InstrNames; the scanner lets no other pass.
find_instr(name) ==
  CASE name \in DOMAIN Moves -> Row(HPACK(I_RRMOVQ, Moves[name]), 2, HiReg, LoReg)
    [] name \in DOMAIN Alus -> Row(HPACK(I_ALU, Alus[name]), 2, HiReg, LoReg)
    [] name \in DOMAIN Jumps -> Row(HPACK(I_JMP, Jumps[name]), 9, Imm(1, 8), NoArg)
    [] name \in DOMAIN Allocations -> Row(0, Allocations[name], Imm(0, Allocations[name]), NoArg)
    [] name = "nop" -> Row(HPACK(I_NOP, F_NONE), 1, NoArg, NoArg)
    [] name = "halt" -> Row(HPACK(I_HALT, F_NONE), 1, NoArg, NoArg)
    [] name = "irmovq" -> Row(HPACK(I_IRMOVQ, F_NONE), 10, Imm(2, 8), LoReg)
    [] name = "rmmovq" -> Row(HPACK(I_RMMOVQ, F_NONE), 10, HiReg, Memory)
    [] name = "mrmovq" -> Row(HPACK(I_MRMOVQ, F_NONE), 10, Memory, HiReg)
    [] name = "call" -> Row(HPACK(I_CALL, F_NONE), 9, Imm(1, 8), NoArg)
    [] name = "ret" -> Row(HPACK(I_RET, F_NONE), 1, NoArg, NoArg)
    [] name = "pushq" -> Row(HPACK(I_PUSHQ, F_NONE), 2, HiReg, NoArg)
    [] name = "popq" -> Row(HPACK(I_POPQ, F_NONE), 2, HiReg, NoArg)
    [] name = "iaddq" -> Row(HPACK(I_IADDQ, F_NONE), 10, Imm(2, 8), LoReg)
=============================================================================
