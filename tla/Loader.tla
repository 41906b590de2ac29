------------------------------- MODULE Loader -------------------------------
(***************************************************************************)
(* load_mem of misc/isa.c, as yis calls it: the lines of a .yo file are     *)
(* read in order, and the bytes of each stored from its address on.  Also  *)
(* how memory is read, and the fetching half of step_state.                *)
(***************************************************************************)
EXTENDS Encoding, Sequences

CONSTANT MEM_SIZE
VARIABLES
  file,      \* the lines of the .yo file that have an address: [addr, bytes]
  contents,  \* the bytes stored so far, by address; the others are 0
  lineno,    \* lines read
  byte_cnt,  \* bytes stored, counted again when they are stored again
  outcome    \* "loading", "loaded" or, where yis prints "Exiting", "rejected"
loadvars == <<contents, lineno, byte_cnt, outcome>>

init_mem ==
  /\ contents = <<>> /\ lineno = 0 /\ byte_cnt = 0
  /\ outcome = "loading"

\* How many bytes of line are stored: the loop stops at the first that is not within the memory.
Stored(line) ==
  LET room == MEM_SIZE - line.addr IN
  IF Len(line.bytes) <= room THEN Len(line.bytes) ELSE IF room > 0 THEN room ELSE 0
Places(line) == line.addr .. line.addr + Stored(line) - 1

LoadLine(line) ==
  /\ contents' = [a \in DOMAIN contents \cup Places(line) |->
                    IF a \in Places(line) THEN line.bytes[a - line.addr + 1] ELSE contents[a]]
  /\ byte_cnt' = byte_cnt + Stored(line)
  /\ lineno' = lineno + 1
  /\ outcome' = IF Stored(line) = Len(line.bytes) THEN "loading" ELSE "rejected"

\* load_mem returns the number of bytes, and yis takes 0 for a failure.
EndOfLoad ==
  /\ lineno = Len(file)
  /\ outcome' = IF byte_cnt = 0 THEN "rejected" ELSE "loaded"
  /\ UNCHANGED <<contents, lineno, byte_cnt>>

load_mem ==
  /\ outcome = "loading"
  /\ \/ lineno < Len(file) /\ LoadLine(file[lineno + 1])
     \/ EndOfLoad

-----------------------------------------------------------------------------
ValidByte(pos) == pos \in 0 .. MEM_SIZE - 1
get_byte_val(pos) == IF pos \in DOMAIN contents THEN contents[pos] ELSE 0

\* Eight bytes, the least first, in two's complement.
ValidWord(pos) == pos \in 0 .. MEM_SIZE - 8
get_word_val(pos) ==
  LET top == get_byte_val(pos + 7)
      val[i \in 0 .. 7] ==
        IF i = 7 THEN (IF top < 128 THEN top ELSE top - 256) ELSE val[i + 1] * 256 + get_byte_val(pos + i)
  IN val[0]

NeedRegids(hi0) == hi0 \in {I_RRMOVQ, I_ALU, I_PUSHQ, I_POPQ, I_IRMOVQ, I_RMMOVQ, I_MRMOVQ, I_IADDQ}
NeedImm(hi0) == hi0 \in {I_IRMOVQ, I_RMMOVQ, I_MRMOVQ, I_JMP, I_CALL, I_IADDQ}

\* What step_state makes of the bytes at pc, all of them within the memory.
Fetch(pc) ==
  LET byte0 == get_byte_val(pc)
      hi0 == HI4(byte0)
      byte1 == IF NeedRegids(hi0) THEN get_byte_val(pc + 1) ELSE HPACK(REG_NONE, REG_NONE)
      immpos == IF NeedRegids(hi0) THEN pc + 2 ELSE pc + 1
  IN [icode |-> hi0, ifun |-> LO4(byte0), rA |-> HI4(byte1), rB |-> LO4(byte1),
      valC |-> IF NeedImm(hi0) THEN get_word_val(immpos) ELSE 0,
      ftpc |-> IF NeedImm(hi0) THEN immpos + 8 ELSE immpos]
=============================================================================
