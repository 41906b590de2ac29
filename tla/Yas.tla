-------------------------------- MODULE Yas --------------------------------
(***************************************************************************)
(* yas, the assembler (misc/yas.c with the rules of misc/yas-grammar.lex): *)
(* the scanner collects the tokens of a line, finish_line deals with them, *)
(* and the file is read twice, for its labels and for its code.            *)
(*                                                                         *)
(* The first pass makes the source up as it reads it, from the lines of a  *)
(* scene; the second reads it again.  A line ends in a "newline", with or  *)
(* without a comment before it; in "junk", a character no token begins     *)
(* with and what follows it up to the newline; or it is the file's last    *)
(* and lacks the newline after its tokens ("cut") or after junk or a       *)
(* comment ("cutjunk").  Its numbers fit in an int and its text in the     *)
(* buffers of STRMAX; the position is an int and wraps.  Nothing in yas.c  *)
(* keeps a line to the room in tokens or the labels to that in             *)
(* symbol_table, and what is written beyond them is not modelled: a line   *)
(* that lacks the room is not taken (HasRoom).                             *)
(***************************************************************************)
EXTENDS Encoding, Sequences, FiniteSets

CONSTANT Scenes    \* [menu, limit]: the lines to choose from, and at most how many

INT_MIN == -2147483647 - 1
INT_MAX == 2147483647
TOK_PER_LINE == 12
STAB == 1000
Ints == INT_MIN .. INT_MAX
Tokens ==
  ({"NUM"} \X Ints) \cup ({"INSTR"} \X (InstrNames \cup {".pos", ".align"})) \cup ({"IDENT"} \X STRING)
    \cup ({"REG"} \X RegNames) \cup ({"PUNCT"} \X {"(", ")", ":", ","})
SourceLines == [tokens : Seq(Tokens), end : {"newline", "junk", "cut", "cutjunk"}]

ASSUME YasAssumption == \A sc \in Scenes : sc.menu \subseteq SourceLines

VARIABLES
  scene, source,   \* one of Scenes, and the lines read in the first pass
  lineno,          \* lines read in this pass
  pass, status,    \* "assembling", "assembled" (exit status 0) or "failed"
  start,           \* the scanner's start condition: "INITIAL" or "ERR"
  newline,         \* is finish_line due?
  tokens,          \* of the line: <<type, value>>
  error_mode, hit_error, bytepos,
  code,            \* the bytes of the instruction last encoded, from 0
  symbol_table,    \* names and positions
  yo               \* the printed lines that have an address: [addr, bytes]
yasvars == <<scene, source, lineno, pass, status, start, newline, tokens, error_mode, hit_error, bytepos, code,
             symbol_table, yo>>

YasInit ==
  /\ scene \in Scenes /\ source = <<>> /\ lineno = 0
  /\ pass = 1 /\ status = "assembling"
  /\ start = "INITIAL" /\ newline = FALSE /\ tokens = <<>>
  /\ error_mode = FALSE /\ hit_error = FALSE /\ bytepos = 0
  /\ code = [i \in 0 .. 9 |-> 0]
  /\ symbol_table = <<>> /\ yo = <<>>

-----------------------------------------------------------------------------
(* The scanner. *)

Reading == status = "assembling" /\ ~newline
Unended(line) == line.end \in {"cut", "cutjunk"}

\* A line adds to the tokens there are and, when those begin with a label, to the symbols.
HasRoom(line) ==
  LET toks == tokens \o line.tokens IN
  /\ Len(toks) <= TOK_PER_LINE
  /\ toks # <<>> /\ toks[1][1] = "IDENT" => Len(symbol_table) < STAB

NextLines ==
  CASE pass = 2 -> {source[k] : k \in {lineno + 1} \cap DOMAIN source}
    [] pass = 1 /\ (Len(source) = scene.limit \/ (source # <<>> /\ Unended(source[Len(source)]))) -> {}
    [] OTHER -> {line \in scene.menu : HasRoom(line)}

ReadLine(line) ==
  /\ lineno' = lineno + 1
  /\ source' = IF pass = 1 THEN Append(source, line) ELSE source
  /\ UNCHANGED <<scene, pass, status, bytepos, code, symbol_table, yo>>

\* The first token of a line ends error_mode; junk begins it, and hides the newline.
ScanLine ==
  /\ Reading /\ start = "INITIAL"
  /\ \E line \in NextLines :
       /\ ReadLine(line)
       /\ tokens' = tokens \o line.tokens
       /\ newline' = (line.end = "newline")
       /\ start' = IF line.end = "cutjunk" THEN "ERR" ELSE "INITIAL"
       /\ error_mode' = (line.end = "junk" \/ (error_mode /\ (tokens # <<>> \/ line.tokens = <<>>)))
       /\ hit_error' = (hit_error \/ line.end = "junk")

\* In ERR a line is an invalid one, up to its newline; without one it is echoed.
SkipLine ==
  /\ Reading /\ start = "ERR"
  /\ \E line \in NextLines :
       /\ ReadLine(line)
       /\ start' = IF Unended(line) THEN "ERR" ELSE "INITIAL"
       /\ error_mode' = (error_mode \/ ~Unended(line))
       /\ hit_error' = (hit_error \/ ~Unended(line))
  /\ UNCHANGED <<newline, tokens>>

\* yywrap complains of tokens that no newline followed; main ends the pass.
AtEnd == Reading /\ (pass = 2 => lineno = Len(source))

\* An exit status of the last line's errors only.
FaultyErred == error_mode \/ tokens # <<>>

Erred == hit_error \/ tokens # <<>>

\* A second pass that begins where the first one ended.
FaultySecondPass == pass' = 2 /\ lineno' = 0 /\ error_mode' = FALSE /\ UNCHANGED bytepos

SecondPass == pass' = 2 /\ lineno' = 0 /\ error_mode' = FALSE /\ bytepos' = 0

EndOfFile ==
  /\ AtEnd
  /\ hit_error' = Erred
  /\ \/ pass = 1 /\ ~Erred /\ SecondPass /\ UNCHANGED status
     \/ pass = 1 /\ Erred /\ status' = "failed" /\ UNCHANGED <<pass, lineno, error_mode, bytepos>>
     \/ pass = 2 /\ status' = (IF Erred THEN "failed" ELSE "assembled")
        /\ UNCHANGED <<pass, lineno, error_mode, bytepos>>
  /\ UNCHANGED <<scene, source, start, newline, tokens, code, symbol_table, yo>>

-----------------------------------------------------------------------------
(* The operands of an instruction, in the second pass.  An encoding has the  *)
(* code so far, the token to look at next, whether something failed, and     *)
(* whether the line is still to be printed.                                  *)

Token(k) == IF k <= Len(tokens) THEN tokens[k] ELSE <<"ERR", "">>
Type(k) == Token(k)[1]
Punct(k, c) == Token(k) = <<"PUNCT", c>>

\* A symbol is found where it was defined first.
find_symbol(name) ==
  LET hits == {k \in DOMAIN symbol_table : symbol_table[k].name = name}
  IN IF hits = {} THEN -1
     ELSE symbol_table[CHOOSE k \in hits : \A other \in hits : k <= other].pos
Unknown(k) == Type(k) = "IDENT" /\ \A s \in DOMAIN symbol_table : symbol_table[s].name # Token(k)[2]
Value(k) == IF Type(k) = "IDENT" THEN find_symbol(Token(k)[2]) ELSE Token(k)[2]
IsValue(k) == Type(k) \in {"NUM", "IDENT"}

\* (val >> (i * 8)) & 0xFF, of a val of 32 bits
Weight == <<1, 256, 65536, 16777216>>
Byte(val, i) == IF i < 4 THEN (val \div Weight[i + 1]) % 256 ELSE IF val < 0 THEN 255 ELSE 0
Put(bytes, pos, n, val) == [i \in 0 .. 9 |-> IF i \in pos .. pos + n - 1 THEN Byte(val, i - pos) ELSE bytes[i]]

Failed(enc) == [enc EXCEPT !.failed = TRUE]

get_reg(enc, arg) ==
  LET rval == find_register(Token(enc.tpos)[2])  c == enc.code[arg.pos] IN
  IF Type(enc.tpos) # "REG" THEN Failed(enc)
  ELSE [enc EXCEPT !.tpos = enc.tpos + 1,
                   !.code[arg.pos] = IF arg.hi = 1 THEN HPACK(rval, LO4(c)) ELSE HPACK(HI4(c), rval)]

get_num(enc, arg) ==
  IF ~IsValue(enc.tpos) THEN Failed(enc)
  ELSE [enc EXCEPT !.tpos = enc.tpos + 1,
                   !.failed = enc.failed \/ Unknown(enc.tpos),
                   !.code = Put(enc.code, arg.pos, arg.hi, Value(enc.tpos))]

\* A displacement and a register in parentheses, both optional.
get_mem(enc, arg) ==
  LET based == IF IsValue(enc.tpos) THEN enc.tpos + 1 ELSE enc.tpos
      after == [enc EXCEPT !.failed = enc.failed \/ Unknown(enc.tpos)]
      val == IF IsValue(enc.tpos) THEN Value(enc.tpos) ELSE 0
      Encoded(rval, tpos) ==
        [after EXCEPT !.tpos = tpos,
                      !.code = Put([enc.code EXCEPT ![arg.pos] = HPACK(HI4(@), rval)], arg.pos + 1, 8, val)]
  IN CASE ~Punct(based, "(") -> Encoded(REG_NONE, based)
       [] Punct(based, "(") /\ Type(based + 1) # "REG" -> Failed([after EXCEPT !.tpos = based + 1])
       [] Punct(based, "(") /\ Type(based + 1) = "REG" /\ Punct(based + 2, ")") ->
            Encoded(find_register(Token(based + 1)[2]), based + 3)
       [] OTHER ->
            Failed([after EXCEPT !.tpos = IF Type(based + 2) = "PUNCT" THEN based + 3 ELSE based + 2])

Operand(enc, arg) ==
  CASE arg.kind = "R_ARG" -> get_reg(enc, arg)
    [] arg.kind = "M_ARG" -> get_mem(enc, arg)
    [] arg.kind = "I_ARG" -> get_num(enc, arg)
    [] arg.kind = "NO_ARG" -> enc

SecondOperand(enc, arg) ==
  CASE arg.kind = "NO_ARG" -> enc
    [] arg.kind # "NO_ARG" /\ Punct(enc.tpos, ",") -> Operand([enc EXCEPT !.tpos = enc.tpos + 1], arg)
    [] OTHER -> [Failed(enc) EXCEPT !.printed = FALSE]

\* The code of an instruction that leaves the registers of the one before.
FaultyOpcode(instr) == [code EXCEPT ![0] = instr.code]

Opcode(instr) == [code EXCEPT ![0] = instr.code, ![1] = HPACK(REG_NONE, REG_NONE)]

Encode(instr, tpos) ==
  SecondOperand(Operand([code |-> Opcode(instr), tpos |-> tpos, failed |-> FALSE, printed |-> TRUE], instr.arg1),
                instr.arg2)

-----------------------------------------------------------------------------
(* finish_line. *)

start_line == newline' = FALSE /\ tokens' = <<>> /\ error_mode' = FALSE

\* The address has three digits, or four; after the last address of four yas exits.
print_code(pos, bytes, failed) ==
  IF pos > 16^4 - 1
  THEN status' = "failed" /\ hit_error' = TRUE /\ UNCHANGED yo
  ELSE /\ yo' = Append(yo, [addr |-> IF pos < 16^3 THEN pos % 16^3 ELSE pos, bytes |-> bytes])
       /\ hit_error' = (hit_error \/ failed)
       /\ UNCHANGED status
PrintInPass2(pos) == IF pass = 2 THEN print_code(pos, <<>>, FALSE) ELSE UNCHANGED <<yo, hit_error, status>>

Finish ==
  /\ newline /\ status = "assembling"
  /\ start_line
  /\ UNCHANGED <<scene, source, lineno, pass, start>>

fail == hit_error' = TRUE /\ UNCHANGED <<bytepos, code, yo, status>>

\* What an empty line prints has no address.
EmptyLine == Finish /\ tokens = <<>> /\ UNCHANGED <<hit_error, bytepos, code, symbol_table, yo, status>>

ErroneousLine ==
  Finish /\ tokens # <<>> /\ error_mode /\ UNCHANGED <<hit_error, bytepos, code, symbol_table, yo, status>>

Line == Finish /\ tokens # <<>> /\ ~error_mode
Labelled == Type(1) = "IDENT"

MissingColon == Line /\ Labelled /\ ~Punct(2, ":") /\ fail /\ UNCHANGED symbol_table

\* A label has the position before what its line says.
add_symbol ==
  symbol_table' = IF pass = 1 /\ Labelled THEN Append(symbol_table, [name |-> Token(1)[2], pos |-> bytepos])
                                          ELSE symbol_table
GoodLabel == Line /\ (Labelled => Punct(2, ":")) /\ add_symbol
tpos0 == IF Labelled THEN 3 ELSE 1
Mnemonic == Token(tpos0)[2]

LabelOnly == GoodLabel /\ Labelled /\ Len(tokens) = 2 /\ PrintInPass2(bytepos) /\ UNCHANGED <<bytepos, code>>

Statement == GoodLabel /\ ~(Labelled /\ Len(tokens) = 2)

BadInstruction == Statement /\ Type(tpos0) # "INSTR" /\ fail

\* Arithmetic of C on an int: a sum that is too large wraps, a quotient is rounded towards 0.
Plus(x, n) == IF x <= INT_MAX - n THEN x + n ELSE (x - INT_MAX) + (n - INT_MAX) - 2
Quotient(x, a) == (IF x >= 0 THEN x ELSE x + (a - 1)) \div a
Aligned(pos, a) == Quotient(Plus(pos, a - 1), a) * a

Directive(name) == Statement /\ Token(tpos0) = <<"INSTR", name>>
MoveTo(pos) == bytepos' = pos /\ PrintInPass2(pos) /\ UNCHANGED code

InvalidAddress == Directive(".pos") /\ Type(tpos0 + 1) # "NUM" /\ fail
Pos == Directive(".pos") /\ Type(tpos0 + 1) = "NUM" /\ MoveTo(Token(tpos0 + 1)[2])

ValidAlignment == Type(tpos0 + 1) = "NUM" /\ Token(tpos0 + 1)[2] > 0
InvalidAlignment == Directive(".align") /\ ~ValidAlignment /\ fail
Align == Directive(".align") /\ ValidAlignment /\ MoveTo(Aligned(bytepos, Token(tpos0 + 1)[2]))

Instruction == Statement /\ Type(tpos0) = "INSTR" /\ Mnemonic \notin {".pos", ".align"}

Measure ==
  /\ Instruction /\ pass = 1
  /\ bytepos' = Plus(bytepos, find_instr(Mnemonic).bytes)
  /\ UNCHANGED <<hit_error, code, yo, status>>

\* After a missing comma nothing is printed; after another failure the line is.
EncodeLine ==
  /\ Instruction /\ pass = 2
  /\ LET instr == find_instr(Mnemonic)
         enc == Encode(instr, tpos0 + 1)
     IN /\ bytepos' = Plus(bytepos, instr.bytes)
        /\ code' = enc.code
        /\ IF enc.printed
           THEN print_code(bytepos, [k \in 1 .. instr.bytes |-> enc.code[k - 1]], enc.failed)
           ELSE hit_error' = TRUE /\ UNCHANGED <<yo, status>>

finish_line ==
  \/ EmptyLine \/ ErroneousLine \/ MissingColon \/ LabelOnly \/ BadInstruction
  \/ InvalidAddress \/ Pos \/ InvalidAlignment \/ Align \/ Measure \/ EncodeLine

YasNext == ScanLine \/ SkipLine \/ EndOfFile \/ finish_line
=============================================================================
