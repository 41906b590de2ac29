--------------------------- MODULE AssembleProofs ---------------------------
(***************************************************************************)
(* The assembler and the loader, for every set of lines they may be given: *)
(* where the second pass comes to a label, the first one entered it at the *)
(* same position, unless an error was found (PassesAgreeCorrect); the      *)
(* assembler is content exactly with the sources that are well formed      *)
(* (VerdictCorrect); and what is loaded is in memory as it was meant       *)
(* (LoadedCorrect).  The last two leave out the sources in which an        *)
(* alignment overflows an int.                                             *)
(***************************************************************************)
EXTENDS Assemble, NatLemmas, SequenceTheorems, TLAPS

\* The position after a line without errors, as finish_line computes it from that before.
TokenOf(toks, k) == IF k <= Len(toks) THEN toks[k] ELSE <<"ERR", "">>
FirstOf(toks) == IF TokenOf(toks, 1)[1] = "IDENT" THEN 3 ELSE 1
After(toks, pos) ==
  LET first == FirstOf(toks) IN
  IF TokenOf(toks, first)[1] # "INSTR" THEN pos
  ELSE IF TokenOf(toks, first)[2] = ".pos" THEN TokenOf(toks, first + 1)[2]
  ELSE IF TokenOf(toks, first)[2] = ".align" THEN Aligned(pos, TokenOf(toks, first + 1)[2])
  ELSE Plus(pos, find_instr(TokenOf(toks, first)[2]).bytes)

Types ==
  /\ scene \in Scenes /\ source \in Seq(SourceLines)
  /\ pass \in {1, 2} /\ lineno \in 0 .. Len(source)
  /\ pass = 1 => lineno = Len(source)
  /\ newline => lineno # 0
  /\ tokens \in Seq(Tokens) /\ bytepos \in Int
  /\ symbol_table \in Seq([name : STRING, pos : Int])

\* The lines that finish_line has dealt with in this pass.
Finished == IF newline THEN lineno - 1 ELSE lineno

Measures(lines, p, n) == p[1] = 0 /\ \A k \in 1 .. n : p[k + 1] = After(lines[k].tokens, p[k])

\* The table has an entry for each of the first n lines with a label, in their order.
Entry(lines, p, k) == [name |-> LabelOf(lines[k]), pos |-> p[k]]
Lists(lines, table, p, n, at) ==
  /\ \A s \in DOMAIN table : at[s] \in 1 .. n /\ HasLabel(lines[at[s]]) /\ table[s] = Entry(lines, p, at[s])
  /\ \A s, r \in DOMAIN table : s < r => at[s] < at[r]
  /\ \A k \in 1 .. n : HasLabel(lines[k]) => \E s \in DOMAIN table : at[s] = k
Enters(lines, table, p, n) == \E at : Lists(lines, table, p, n, at)

\* p holds the positions of the lines; both passes are on their way along it.
Agreed ==
  \E p : LET n == IF pass = 1 THEN Finished ELSE Len(source)
         IN Measures(source, p, n) /\ Enters(source, symbol_table, p, n) /\ bytepos = p[Finished + 1]

\* The file has ended without a newline, so the first pass reads no more lines.
AtLastLine == source # <<>> /\ Unended(source[Len(source)])

Clean ==
  /\ newline => tokens = source[lineno].tokens
  /\ pass = 1 /\ (start = "ERR" \/ (~newline /\ tokens # <<>>)) => AtLastLine
  /\ pass = 2 /\ ~newline => tokens = <<>>
  /\ newline \/ tokens = <<>> =>
       /\ \A k \in 1 .. Len(source) : Unended(source[k]) => source[k].tokens = <<>>
       /\ Agreed

PassInv ==
  /\ Types
  /\ error_mode => hit_error
  /\ ~hit_error => Clean

-----------------------------------------------------------------------------
(* What finish_line does, whichever of its branches it takes. *)

\* Every instruction has a size.
LEMMA BytesAreNat ==
  ASSUME NEW name \in InstrNames
  PROVE  find_instr(name).bytes \in Nat
BY DEF find_instr, Row, InstrNames, Moves, Jumps, Alus, Allocations

\* The sum of an int and a number that is not negative; the alignment of a position.
LEMMA PlusInt ==
  ASSUME NEW x \in Int, NEW n \in Nat
  PROVE  Plus(x, n) \in Int /\ (x + n <= INT_MAX => Plus(x, n) = x + n)
BY SMT DEF Plus, INT_MAX

LEMMA AlignedInt ==
  ASSUME NEW pos \in Int, NEW n \in Nat \ {0}
  PROVE  Aligned(pos, n) \in Int
<1> DEFINE x == Plus(pos, n - 1)
<1>1. x \in Int
  <2>1. n - 1 \in Nat OBVIOUS
  <2> QED BY <2>1, PlusInt
<1> HIDE DEF x
<1>2. Quotient(x, n) \in Int BY <1>1 DEF Quotient
<1> QED BY <1>2 DEF Aligned, x

\* It ends the line and leaves the place in the source alone.
LEMMA FinishFrame ==
  ASSUME finish_line
  PROVE  /\ newline /\ ~newline' /\ tokens' = <<>> /\ error_mode' = FALSE
         /\ UNCHANGED <<scene, source, lineno, pass, start>>
         /\ hit_error => hit_error'
<1>1. Finish
  BY DEF finish_line, EmptyLine, ErroneousLine, MissingColon, LabelOnly, BadInstruction, InvalidAddress, Pos,
         InvalidAlignment, Align, Measure, EncodeLine, Line, GoodLabel, Statement, Directive, Instruction
<1>2. hit_error => hit_error'
  <2>1. ASSUME NEW pos, PrintInPass2(pos), hit_error PROVE hit_error'
    BY <2>1 DEF PrintInPass2, print_code
  <2>2. ASSUME EncodeLine, hit_error PROVE hit_error'
    BY <2>2 DEF EncodeLine, print_code
  <2>3. ASSUME NEW pos, MoveTo(pos), hit_error PROVE hit_error'
    BY <2>1, <2>3 DEF MoveTo
  <2> QED
    BY <2>1, <2>2, <2>3 DEF finish_line, EmptyLine, ErroneousLine, MissingColon, LabelOnly, BadInstruction,
       InvalidAddress, Pos, InvalidAlignment, Align, Measure, fail
<1> QED BY <1>1, <1>2 DEF Finish, start_line

\* A branch that finds no error: the position moves as After says, and a label is entered at that before.
Moves1(toks) ==
  /\ bytepos' = After(toks, bytepos)
  /\ symbol_table' = IF pass = 1 /\ Labelled THEN Append(symbol_table, [name |-> Token(1)[2], pos |-> bytepos])
                                             ELSE symbol_table
  /\ Labelled => Punct(2, ":")

LEMMA FinishMoves ==
  ASSUME Types, finish_line, ~error_mode, ~hit_error'
  PROVE  Moves1(tokens)
<1>0. After(tokens, bytepos) =
        IF Type(tpos0) # "INSTR" THEN bytepos
        ELSE IF Mnemonic = ".pos" THEN Token(tpos0 + 1)[2]
        ELSE IF Mnemonic = ".align" THEN Aligned(bytepos, Token(tpos0 + 1)[2])
        ELSE Plus(bytepos, find_instr(Mnemonic).bytes)
  BY DEF After, FirstOf, TokenOf, Token, Type, Labelled, tpos0, Mnemonic
<1>1. CASE EmptyLine BY <1>1 DEF EmptyLine, Moves1, After, FirstOf, TokenOf, Token, Type, Labelled
<1>2. CASE ErroneousLine BY <1>2 DEF ErroneousLine
<1>3. CASE MissingColon BY <1>3 DEF MissingColon, fail
<1>4. CASE LabelOnly
  <2>1. Type(tpos0) # "INSTR"
    BY <1>4 DEF LabelOnly, Type, Token, tpos0
  <2> QED BY <1>0, <1>4, <2>1 DEF LabelOnly, GoodLabel, add_symbol, Moves1
<1>5. CASE BadInstruction BY <1>5 DEF BadInstruction, fail
<1>6. CASE InvalidAddress BY <1>6 DEF InvalidAddress, fail
<1>7. CASE Pos
  <2>1. Type(tpos0) = "INSTR" /\ Mnemonic = ".pos"
    BY <1>7 DEF Pos, Directive, Type, Mnemonic
  <2>2. bytepos' = Token(tpos0 + 1)[2]
    BY <1>7 DEF Pos, MoveTo
  <2> QED BY <1>0, <1>7, <2>1, <2>2 DEF Pos, Directive, Statement, GoodLabel, add_symbol, Moves1
<1>8. CASE InvalidAlignment BY <1>8 DEF InvalidAlignment, fail
<1>9. CASE Align
  <2>1. Type(tpos0) = "INSTR" /\ Mnemonic = ".align"
    BY <1>9 DEF Align, Directive, Type, Mnemonic
  <2>2. bytepos' = Aligned(bytepos, Token(tpos0 + 1)[2])
    BY <1>9 DEF Align, MoveTo
  <2> QED BY <1>0, <1>9, <2>1, <2>2 DEF Align, Directive, Statement, GoodLabel, add_symbol, Moves1
<1>10. CASE Measure
  BY <1>0, <1>10 DEF Measure, Instruction, Statement, GoodLabel, add_symbol, Moves1
<1>11. CASE EncodeLine
  BY <1>0, <1>11 DEF EncodeLine, Instruction, Statement, GoodLabel, add_symbol, Moves1
<1> QED
  BY <1>1, <1>2, <1>3, <1>4, <1>5, <1>6, <1>7, <1>8, <1>9, <1>10, <1>11 DEF finish_line

\* Appending keeps the elements of a sequence and puts the new one last.
LEMMA Appending ==
  ASSUME NEW S, NEW seq \in Seq(S), NEW e \in S
  PROVE  /\ Append(seq, e) \in Seq(S)
         /\ Len(Append(seq, e)) = Len(seq) + 1 /\ Len(seq) \in Nat
         /\ DOMAIN Append(seq, e) = 1 .. Len(seq) + 1 /\ DOMAIN seq = 1 .. Len(seq)
         /\ \A k \in 1 .. Len(seq) : Append(seq, e)[k] = seq[k]
         /\ Append(seq, e)[Len(seq) + 1] = e
OBVIOUS

\* A table goes on listing the labels when lines without one are added, or one with its entry.
LEMMA EntersStay ==
  ASSUME NEW l1, NEW l2, NEW t, NEW p1, NEW p2, NEW n \in Nat, Enters(l1, t, p1, n),
         \A k \in 1 .. n : l2[k] = l1[k] /\ p2[k] = p1[k]
  PROVE  /\ Enters(l2, t, p2, n)
         /\ ~HasLabel(l2[n + 1]) => Enters(l2, t, p2, n + 1)
<1>1. PICK at : Lists(l1, t, p1, n, at) BY Zenon DEF Enters
<1>2. \A k \in 1 .. n : Entry(l2, p2, k) = Entry(l1, p1, k) BY DEF Entry
<1>3. Lists(l2, t, p2, n, at) BY <1>1, <1>2, Zenon DEF Lists
<1>4. ASSUME ~HasLabel(l2[n + 1]) PROVE Lists(l2, t, p2, n + 1, at)
  <2>1. \A k \in 1 .. n : k \in 1 .. n + 1 OBVIOUS
  <2>2. \A k \in 1 .. n + 1 : k \in 1 .. n \/ k = n + 1 OBVIOUS
  <2> QED BY <1>3, <1>4, <2>1, <2>2, Zenon DEF Lists
<1> QED BY <1>3, <1>4, Zenon DEF Enters

LEMMA EntersOne ==
  ASSUME NEW l1, NEW l2, NEW S, NEW t \in Seq(S), NEW p1, NEW p2, NEW n \in Nat, Enters(l1, t, p1, n),
         \A k \in 1 .. n : l2[k] = l1[k] /\ p2[k] = p1[k],
         HasLabel(l2[n + 1]), Entry(l2, p2, n + 1) \in S
  PROVE  Enters(l2, Append(t, Entry(l2, p2, n + 1)), p2, n + 1)
<1>1. PICK at : Lists(l1, t, p1, n, at) BY Zenon DEF Enters
<1> DEFINE m == Len(t)
           e == Entry(l2, p2, n + 1)
           u == Append(t, e)
           to == [s \in 1 .. m + 1 |-> IF s = m + 1 THEN n + 1 ELSE at[s]]
<1> HIDE DEF e
<1>2. /\ m \in Nat /\ DOMAIN u = 1 .. m + 1 /\ DOMAIN t = 1 .. m
      /\ \A s \in 1 .. m : u[s] = t[s]
      /\ u[m + 1] = e
  BY Appending DEF e
<1>3. to[m + 1] = n + 1 /\ \A s \in 1 .. m : to[s] = at[s] BY <1>2
<1> HIDE DEF to, u, m
<1>4. \A k \in 1 .. n : Entry(l2, p2, k) = Entry(l1, p1, k) BY DEF Entry
<1>5. \A s \in 1 .. m : /\ at[s] \in 1 .. n /\ HasLabel(l1[at[s]]) /\ t[s] = Entry(l1, p1, at[s])
                        /\ \A r \in 1 .. m : s < r => at[s] < at[r]
  BY <1>1, <1>2, Zenon DEF Lists
<1>6. \A s \in 1 .. m + 1 : s \in 1 .. m \/ s = m + 1 BY <1>2
<1>7. \A s \in 1 .. m + 1 : to[s] \in 1 .. n + 1 /\ HasLabel(l2[to[s]]) /\ u[s] = Entry(l2, p2, to[s])
  <2> TAKE s \in 1 .. m + 1
  <2>1. CASE s \in 1 .. m
    <3>1. to[s] = at[s] /\ at[s] \in 1 .. n /\ HasLabel(l1[at[s]]) /\ t[s] = Entry(l1, p1, at[s]) /\ u[s] = t[s]
      BY <1>2, <1>3, <1>5, <2>1, Zenon
    <3>2. at[s] \in 1 .. n + 1 BY <3>1
    <3> QED BY <1>4, <3>1, <3>2, Zenon
  <2>2. CASE s = m + 1
    <3>1. n + 1 \in 1 .. n + 1 OBVIOUS
    <3> QED BY <1>2, <1>3, <2>2, <3>1, Zenon DEF e
  <2> QED BY <1>6, <2>1, <2>2, Zenon
<1>8. \A s, r \in 1 .. m + 1 : s < r => to[s] < to[r]
  <2> SUFFICES ASSUME NEW s \in 1 .. m + 1, NEW r \in 1 .. m + 1, s < r PROVE to[s] < to[r] OBVIOUS
  <2>1. s \in 1 .. m BY <1>2
  <2>2. to[s] = at[s] /\ at[s] \in 1 .. n BY <1>3, <1>5, <2>1
  <2>3. CASE r = m + 1 BY <1>3, <2>2, <2>3
  <2>4. CASE r \in 1 .. m BY <1>3, <1>5, <2>1, <2>2, <2>4
  <2> QED BY <1>6, <2>3, <2>4
<1>9. \A k \in 1 .. n + 1 : HasLabel(l2[k]) => \E s \in 1 .. m + 1 : to[s] = k
  <2> TAKE k \in 1 .. n + 1
  <2>1. k \in 1 .. n \/ k = n + 1 OBVIOUS
  <2>2. CASE k = n + 1
    <3>1. m + 1 \in 1 .. m + 1 BY <1>2
    <3> QED BY <1>3, <2>2, <3>1, Zenon
  <2>3. CASE k \in 1 .. n
    <3> SUFFICES ASSUME HasLabel(l2[k]) PROVE \E s \in 1 .. m + 1 : to[s] = k OBVIOUS
    <3>1. PICK s \in 1 .. m : at[s] = k BY <1>1, <1>2, <2>3, Zenon DEF Lists
    <3>2. s \in 1 .. m + 1 BY <1>2
    <3> QED BY <1>3, <3>1, <3>2, Zenon
  <2> QED BY <2>1, <2>2, <2>3, Zenon
<1>10. Lists(l2, u, p2, n + 1, to) BY <1>2, <1>7, <1>8, <1>9, Zenon DEF Lists
<1> QED BY <1>10, Zenon DEF Enters, u, e

LEMMA EntersFinds ==
  ASSUME NEW lines, NEW t, NEW p, NEW n, Enters(lines, t, p, n), NEW k \in 1 .. n, HasLabel(lines[k])
  PROVE  \E s \in DOMAIN t : t[s] = [name |-> LabelOf(lines[k]), pos |-> p[k]]
<1>1. PICK at : Lists(lines, t, p, n, at) BY Zenon DEF Enters
<1>2. PICK s \in DOMAIN t : at[s] = k BY <1>1, Zenon DEF Lists
<1>3. t[s] = Entry(lines, p, at[s]) BY <1>1, Zenon DEF Lists
<1> QED BY <1>2, <1>3, Zenon DEF Entry

\* The numbers of a source are integers, of 32 bits.
LEMMA IntsAre == \A x \in Ints : x \in Int /\ INT_MIN <= x /\ x <= INT_MAX
<1>1. INT_MIN \in Int /\ INT_MAX \in Int BY SMT DEF INT_MIN, INT_MAX
<1> QED BY <1>1, SMT DEF Ints

\* The value of a token is of the kind that its type says.
LEMMA TokenValues ==
  ASSUME Types, NEW k \in Nat \ {0}
  PROVE  /\ Type(k) = "NUM" => Token(k)[2] \in Int
         /\ Type(k) = "IDENT" => Token(k)[2] \in STRING
         /\ Type(k) = "INSTR" => Token(k)[2] \in InstrNames \cup {".pos", ".align"}
<1>1. CASE k > Len(tokens) BY <1>1 DEF Types, Token, Type
<1>2. CASE k <= Len(tokens)
  <2>1. tokens[k] \in Tokens BY <1>2 DEF Types
  <2>2. CASE tokens[k] \in {"NUM"} \X Ints BY <1>2, <2>2, IntsAre DEF Token, Type
  <2>3. CASE tokens[k] \in {"INSTR"} \X (InstrNames \cup {".pos", ".align"}) BY <1>2, <2>3 DEF Token, Type
  <2>4. CASE tokens[k] \in {"IDENT"} \X STRING BY <1>2, <2>4 DEF Token, Type
  <2>6. CASE tokens[k] \in {"REG"} \X RegNames BY <1>2, <2>6 DEF Token, Type
  <2>5. CASE tokens[k] \in {"PUNCT"} \X {"(", ")", ":", ","} BY <1>2, <2>5 DEF Token, Type
  <2> QED BY <2>1, <2>2, <2>3, <2>4, <2>5, <2>6 DEF Tokens
<1> QED BY <1>1, <1>2 DEF Types

\* Positions stay numbers, and symbols names with positions.
LEMMA FinishTypes ==
  ASSUME Types, finish_line
  PROVE  Types'
<1>1. ASSUME NEW k \in Nat \ {0}, Type(k) = "NUM" PROVE Token(k)[2] \in Int
  BY <1>1, TokenValues
<1>2. ASSUME NEW k \in Nat \ {0}, Type(k) = "IDENT" PROVE Token(k)[2] \in STRING
  BY <1>2, TokenValues
<1>3. tpos0 \in Nat \ {0} /\ tpos0 + 1 \in Nat \ {0} BY DEF tpos0
<1>4. ASSUME Instruction PROVE find_instr(Mnemonic).bytes \in Nat
  <2>1. Mnemonic \in InstrNames
    BY <1>3, <1>4, TokenValues DEF Instruction, Mnemonic, Type
  <2> QED BY <2>1, BytesAreNat
<1>5. bytepos' \in Int
  <2>1. ASSUME Pos PROVE bytepos' \in Int
    BY <1>1, <1>3, <2>1 DEF Pos, MoveTo
  <2>2. ASSUME Align PROVE bytepos' \in Int
    <3>1. Token(tpos0 + 1)[2] \in Int /\ Token(tpos0 + 1)[2] > 0
      BY <1>1, <1>3, <2>2 DEF Align, ValidAlignment
    <3>2. bytepos' = Aligned(bytepos, Token(tpos0 + 1)[2])
      BY <2>2 DEF Align, MoveTo
    <3>3. bytepos \in Int /\ Token(tpos0 + 1)[2] \in Nat \ {0} BY <3>1 DEF Types
    <3> QED BY <3>2, <3>3, AlignedInt, Zenon
  <2>3. ASSUME Measure \/ EncodeLine PROVE bytepos' \in Int
    <3>1. bytepos' = Plus(bytepos, find_instr(Mnemonic).bytes) /\ Instruction
      BY <2>3 DEF Measure, EncodeLine
    <3>2. bytepos \in Int BY DEF Types
    <3> QED BY <1>4, <3>1, <3>2, PlusInt
  <2> QED
    BY <2>1, <2>2, <2>3 DEF finish_line, EmptyLine, ErroneousLine, MissingColon, LabelOnly, BadInstruction,
       InvalidAddress, InvalidAlignment, fail, Types
<1>6. symbol_table' \in Seq([name : STRING, pos : Int])
  <2>1. ASSUME add_symbol PROVE symbol_table' \in Seq([name : STRING, pos : Int])
    <3>1. CASE Labelled
      <4> DEFINE S == [name : STRING, pos : Int]
                 e == [name |-> Token(1)[2], pos |-> bytepos]
      <4>1. e \in S BY <1>2, <3>1 DEF Labelled, Types
      <4>2. symbol_table' = symbol_table \/ symbol_table' = Append(symbol_table, e)
        BY <2>1 DEF add_symbol
      <4>3. symbol_table \in Seq(S) BY DEF Types
      <4> HIDE DEF S, e
      <4>4. Append(symbol_table, e) \in Seq(S) BY <4>1, <4>3, Appending
      <4>5. symbol_table' \in Seq(S) BY <4>2, <4>3, <4>4
      <4> QED BY <4>5 DEF S
    <3>2. CASE ~Labelled BY <2>1, <3>2 DEF add_symbol, Types
    <3> QED BY <3>1, <3>2
  <2> QED
    BY <2>1 DEF finish_line, EmptyLine, ErroneousLine, MissingColon, LabelOnly, BadInstruction, InvalidAddress,
       Pos, InvalidAlignment, Align, Measure, EncodeLine, GoodLabel, Statement, Directive, Instruction, Types
<1> QED BY <1>5, <1>6, FinishFrame DEF Types

-----------------------------------------------------------------------------
(* The invariant. *)

LEMMA PassInit == Init => PassInv
<1> SUFFICES ASSUME Init PROVE PassInv OBVIOUS
<1>1. Types BY DEF Init, YasInit, Types
<1>2. Agreed
  <2> DEFINE p == [k \in {1} |-> 0]
  <2>1. Measures(source, p, 0) /\ p[1] = 0 BY DEF Measures
  <2>3. Enters(source, symbol_table, p, 0)
    <3>1. DOMAIN symbol_table = {} /\ 1 .. 0 = {} BY DEF Init, YasInit
    <3>2. Lists(source, symbol_table, p, 0, <<>>) BY <3>1, Zenon DEF Lists
    <3> QED BY <3>2, Zenon DEF Enters
  <2>2. pass = 1 /\ Finished = 0 /\ bytepos = 0 BY DEF Init, YasInit, Finished
  <2> HIDE DEF p
  <2> QED BY <2>1, <2>2, <2>3 DEF Agreed
<1> QED BY <1>1, <1>2 DEF PassInv, Clean, Init, YasInit

\* A line that the scanner takes is one of the assumed kind, the next one of the source.
LEMMA LinesTaken ==
  ASSUME Types, NEW line \in NextLines
  PROVE  /\ line \in SourceLines
         /\ pass = 1 => /\ ~AtLastLine
                        /\ Append(source, line) \in Seq(SourceLines)
                        /\ Len(Append(source, line)) = lineno + 1
                        /\ \A k \in 1 .. lineno : Append(source, line)[k] = source[k]
                        /\ Append(source, line)[lineno + 1] = line
         /\ pass = 2 => lineno + 1 \in 1 .. Len(source) /\ line = source[lineno + 1]
<1>1. CASE pass = 1
  <2>1. ~AtLastLine /\ line \in scene.menu BY <1>1 DEF NextLines, AtLastLine
  <2>2. line \in SourceLines BY <2>1, YasAssumption DEF Types
  <2>3. source \in Seq(SourceLines) /\ lineno = Len(source) BY <1>1 DEF Types
  <2> QED BY <1>1, <2>1, <2>2, <2>3, Appending
<1>2. CASE pass = 2 BY <1>2 DEF NextLines, Types
<1> QED BY <1>1, <1>2 DEF Types

\* After a line without tokens the position is what it was, and no label is there.
LEMMA EmptyStays ==
  ASSUME NEW line, line.tokens = <<>>, NEW pos
  PROVE  After(line.tokens, pos) = pos /\ ~HasLabel(line)
BY DEF After, FirstOf, TokenOf, HasLabel

\* The scanner keeps the types.
LEMMA ScanTypes ==
  ASSUME Types, ScanLine \/ SkipLine
  PROVE  Types'
<1>1. PICK line \in NextLines : ReadLine(line) /\ (tokens' = tokens \o line.tokens \/ tokens' = tokens)
  BY DEF ScanLine, SkipLine
<1>2. line \in SourceLines BY LinesTaken
<1>3. tokens' \in Seq(Tokens)
  <2>1. tokens \in Seq(Tokens) /\ line.tokens \in Seq(Tokens) BY <1>2 DEF Types, SourceLines
  <2> HIDE DEF Tokens
  <2>2. tokens \o line.tokens \in Seq(Tokens) BY <2>1, ConcatProperties
  <2> QED BY <1>1, <2>1, <2>2
<1>4. lineno \in Nat /\ lineno' = lineno + 1 BY <1>1 DEF ReadLine, Types
<1>5. CASE pass = 1
  <2>1. source' = Append(source, line) BY <1>1, <1>5 DEF ReadLine
  <2> QED BY <1>1, <1>3, <1>4, <1>5, <2>1, LinesTaken DEF ReadLine, Types
<1>6. CASE pass = 2
  <2>1. source' = source BY <1>1, <1>6 DEF ReadLine
  <2> QED BY <1>1, <1>3, <1>4, <1>6, <2>1, LinesTaken DEF ReadLine, Types
<1> QED BY <1>5, <1>6 DEF Types

\* A line that the scanner reads, with tokens or without, leaves both passes on their way.
LEMMA ScanKeeps ==
  ASSUME PassInv, ScanLine \/ SkipLine, ~hit_error'
  PROVE  Clean'
<1>1. PICK line \in NextLines :
        /\ ReadLine(line)
        /\ \/ /\ start = "INITIAL" /\ tokens' = tokens \o line.tokens /\ newline' = (line.end = "newline")
              /\ start' = IF line.end = "cutjunk" THEN "ERR" ELSE "INITIAL"
              /\ line.end # "junk"
           \/ start = "ERR" /\ Unended(line) /\ UNCHANGED <<newline, tokens, start>>
  BY DEF ScanLine, SkipLine
<1>2. ~hit_error /\ ~newline BY DEF ScanLine, SkipLine, Reading
<1>3. Types /\ Clean BY <1>2 DEF PassInv
<1>4. line \in SourceLines /\ lineno \in Nat /\ Len(source) \in Nat BY <1>3, LinesTaken DEF Types
<1>5. lineno' = lineno + 1 /\ pass' = pass /\ bytepos' = bytepos /\ symbol_table' = symbol_table
  BY <1>1 DEF ReadLine
<1>6. tokens = <<>> /\ (pass = 1 => start # "ERR")
  BY <1>2, <1>3, LinesTaken DEF Clean, Types
<1>7. Agreed /\ \A k \in 1 .. Len(source) : Unended(source[k]) => source[k].tokens = <<>>
  BY <1>3, <1>6 DEF Clean
<1>8. start = "INITIAL" => tokens' = line.tokens
  BY <1>1, <1>4, <1>6 DEF SourceLines
<1>9. PICK p : /\ Measures(source, p, IF pass = 1 THEN lineno ELSE Len(source))
               /\ Enters(source, symbol_table, p, IF pass = 1 THEN lineno ELSE Len(source))
               /\ bytepos = p[lineno + 1]
  BY <1>2, <1>3, <1>7 DEF Agreed, Finished, Types
<1>10. CASE pass = 1
  <2>1. /\ start = "INITIAL" /\ tokens' = line.tokens /\ newline' = (line.end = "newline")
        /\ start' = IF line.end = "cutjunk" THEN "ERR" ELSE "INITIAL"
        /\ line.end \in {"newline", "cut", "cutjunk"}
    BY <1>1, <1>4, <1>6, <1>8, <1>10 DEF SourceLines
  <2>2. /\ source' = Append(source, line) /\ Len(source) = lineno /\ Len(source') = lineno + 1
        /\ source'[lineno + 1] = line /\ \A k \in 1 .. lineno : source'[k] = source[k]
    BY <1>1, <1>3, <1>10, LinesTaken DEF ReadLine, Types
  <2>3. \A k \in 1 .. lineno : Unended(source'[k]) => source'[k].tokens = <<>>
    BY <1>7, <2>2
  <2>4. CASE newline'
    <3>1. Agreed'
      <4>1. Measures(source', p, lineno)
        BY <1>4, <1>5, <1>9, <1>10, <2>2 DEF Measures
      <4>2. Enters(source', symbol_table', p, lineno)
        BY <1>4, <1>5, <1>9, <1>10, <2>2, EntersStay, Zenon
      <4> QED BY <1>4, <1>5, <1>9, <1>10, <2>4, <4>1, <4>2 DEF Agreed, Finished
    <3>2. \A k \in 1 .. Len(source') : Unended(source'[k]) => source'[k].tokens = <<>>
      <4>1. ~Unended(source'[lineno + 1]) BY <2>1, <2>2, <2>4 DEF Unended
      <4> QED BY <1>4, <2>2, <2>3, <4>1
    <3> QED BY <1>5, <2>1, <2>2, <2>4, <3>1, <3>2, <1>10 DEF Clean
  <2>5. CASE ~newline'
    <3>1. AtLastLine'
      <4>1. source' # <<>> BY <1>4, <2>2
      <4> QED BY <2>1, <2>2, <2>5, <4>1 DEF AtLastLine, Unended
    <3>2. ASSUME tokens' = <<>> PROVE Agreed'
      <4> DEFINE q == [k \in 1 .. lineno + 2 |-> IF k = lineno + 2 THEN bytepos ELSE p[k]]
      <4>1. q[lineno + 2] = bytepos /\ \A k \in 1 .. lineno + 1 : q[k] = p[k]
        BY <1>4
      <4> HIDE DEF q
      <4>2. After(line.tokens, bytepos) = bytepos /\ ~HasLabel(line)
        BY <2>1, <3>2, EmptyStays
      <4>3. Measures(source', q, lineno + 1)
        <5> SUFFICES ASSUME NEW k \in 1 .. lineno + 1 PROVE q[k + 1] = After(source'[k].tokens, q[k])
          BY <1>4, <1>9, <4>1 DEF Measures
        <5>1. CASE k = lineno + 1 BY <1>4, <1>9, <2>2, <4>1, <4>2, <5>1
        <5>2. CASE k \in 1 .. lineno BY <1>4, <1>9, <1>10, <2>2, <4>1, <5>2 DEF Measures
        <5> QED BY <1>4, <5>1, <5>2
      <4>4. Enters(source', symbol_table', q, lineno + 1)
        <5>1. \A k \in 1 .. lineno : source'[k] = source[k] /\ q[k] = p[k] BY <1>4, <2>2, <4>1
        <5>2. ~HasLabel(source'[lineno + 1]) BY <2>2, <4>2
        <5> QED BY <1>4, <1>5, <1>9, <1>10, <5>1, <5>2, EntersStay, Zenon
      <4> QED BY <1>4, <1>5, <1>10, <2>5, <4>1, <4>3, <4>4 DEF Agreed, Finished
    <3>3. ASSUME tokens' = <<>>, NEW k \in 1 .. Len(source'), Unended(source'[k]) PROVE source'[k].tokens = <<>>
      <4>1. k \in 1 .. lineno \/ k = lineno + 1 BY <1>4, <2>2, <3>3
      <4> QED BY <2>1, <2>2, <2>3, <3>3, <4>1
    <3> QED BY <1>5, <1>10, <2>5, <3>1, <3>2, <3>3 DEF Clean
  <2> QED BY <2>4, <2>5
<1>11. CASE pass = 2
  <2>1. source' = source /\ lineno + 1 \in 1 .. Len(source) /\ line = source[lineno + 1]
    BY <1>1, <1>3, <1>11, LinesTaken DEF ReadLine
  <2>2. Measures(source', p, Len(source)) /\ Enters(source', symbol_table', p, Len(source))
    BY <1>5, <1>9, <1>11, <2>1 DEF Measures
  <2>3. CASE newline'
    <3>1. tokens' = line.tokens BY <1>1, <1>2, <1>8, <2>3
    <3>2. Agreed' BY <1>4, <1>5, <1>9, <1>11, <2>1, <2>2, <2>3 DEF Agreed, Finished
    <3> QED BY <1>5, <1>7, <1>11, <2>1, <2>3, <3>1, <3>2 DEF Clean
  <2>4. CASE ~newline'
    <3>1. Unended(line) BY <1>1, <1>4, <2>4 DEF Unended, SourceLines
    <3>2. line.tokens = <<>> BY <1>7, <2>1, <3>1
    <3>3. tokens' = <<>> BY <1>1, <1>6, <1>8, <3>2
    <3>4. p[lineno + 2] = p[lineno + 1]
      <4>1. p[(lineno + 1) + 1] = After(line.tokens, p[lineno + 1])
        BY <1>4, <1>9, <1>11, <2>1 DEF Measures
      <4>2. (lineno + 1) + 1 = lineno + 2 BY <1>4
      <4>3. After(line.tokens, p[lineno + 1]) = p[lineno + 1] BY <3>2, EmptyStays
      <4> QED BY <4>1, <4>2, <4>3
    <3>5. Agreed' BY <1>4, <1>5, <1>9, <1>11, <2>1, <2>2, <2>4, <3>4 DEF Agreed, Finished
    <3> QED BY <1>5, <1>7, <1>11, <2>1, <2>4, <3>3, <3>5 DEF Clean
  <2> QED BY <2>3, <2>4
<1> QED BY <1>3, <1>10, <1>11 DEF Types

\* So does a line without errors that finish_line deals with: the first pass enters its label and
\* comes to the next position, the second finds both as the first one left them.
LEMMA FinishKeeps ==
  ASSUME PassInv, finish_line, ~hit_error'
  PROVE  Clean'
<1>1. /\ newline /\ ~newline' /\ tokens' = <<>> /\ ~hit_error
      /\ UNCHANGED <<source, lineno, pass, start>>
  BY FinishFrame
<1>2. Types /\ Clean /\ ~error_mode BY <1>1 DEF PassInv
<1>3. Moves1(tokens) BY <1>2, FinishMoves
<1>4. /\ tokens = source[lineno].tokens /\ Agreed
      /\ \A k \in 1 .. Len(source) : Unended(source[k]) => source[k].tokens = <<>>
  BY <1>1, <1>2 DEF Clean
<1>5. lineno \in 1 .. Len(source) /\ Len(source) \in Nat /\ lineno \in Nat /\ (pass = 1 => lineno = Len(source))
  BY <1>1, <1>2 DEF Types
<1>6. PICK p : /\ Measures(source, p, IF pass = 1 THEN lineno - 1 ELSE Len(source))
               /\ Enters(source, symbol_table, p, IF pass = 1 THEN lineno - 1 ELSE Len(source))
               /\ bytepos = p[lineno]
  BY <1>1, <1>4, <1>5 DEF Agreed, Finished
<1>7. bytepos' = After(source[lineno].tokens, p[lineno])
  BY <1>3, <1>4, <1>6 DEF Moves1
<1>8. /\ HasLabel(source[lineno]) <=> Labelled
      /\ Labelled => LabelOf(source[lineno]) = Token(1)[2]
  <2>1. Len(tokens) \in Nat BY <1>2 DEF Types
  <2>2. Labelled => Len(tokens) >= 2
    BY <1>3, <2>1 DEF Moves1, Punct, Token
  <2>3. Labelled => Punct(2, ":") BY <1>3 DEF Moves1
  <2>4. source[lineno].tokens = tokens BY <1>4
  <2>5. HasLabel(source[lineno]) => Labelled
    BY <2>1, <2>4 DEF HasLabel, Labelled, Type, Token
  <2>6. Labelled => HasLabel(source[lineno]) /\ LabelOf(source[lineno]) = Token(1)[2]
    BY <2>1, <2>2, <2>3, <2>4 DEF HasLabel, LabelOf, Labelled, Punct, Type, Token
  <2> QED BY <2>5, <2>6
<1>9. pass \in {1, 2} BY <1>2 DEF Types
<1>10. CASE pass = 1
  <2> DEFINE q == [k \in 1 .. lineno + 1 |-> IF k = lineno + 1 THEN bytepos' ELSE p[k]]
             new == [name |-> Token(1)[2], pos |-> bytepos]
  <2>1. q[lineno + 1] = bytepos' /\ \A k \in 1 .. lineno : q[k] = p[k]
    BY <1>5
  <2> HIDE DEF q
  <2>2. Measures(source', q, lineno)
    <3> SUFFICES ASSUME NEW k \in 1 .. lineno PROVE q[k + 1] = After(source[k].tokens, q[k])
      BY <1>1, <1>5, <1>6, <1>10, <2>1 DEF Measures
    <3>1. CASE k = lineno BY <1>5, <1>7, <2>1, <3>1
    <3>2. CASE k \in 1 .. lineno - 1
      <4>1. k + 1 \in 1 .. lineno BY <1>5, <3>2
      <4>2. p[k + 1] = After(source[k].tokens, p[k]) BY <1>6, <1>10, <3>2 DEF Measures
      <4> QED BY <2>1, <4>1, <4>2
    <3> QED BY <1>5, <3>1, <3>2
  <2>3. q[1] = 0 BY <1>5, <1>6, <2>1 DEF Measures
  <2>4. \A k \in 1 .. lineno - 1 : source[k] = source[k] /\ q[k] = p[k] BY <1>5, <2>1
  <2>5. lineno - 1 \in Nat /\ (lineno - 1) + 1 = lineno /\ q[lineno] = bytepos BY <1>5, <1>6, <2>1
  <2>6. Enters(source', symbol_table', q, lineno)
    <3>1. CASE Labelled
      <4> DEFINE S == [name : STRING, pos : Int]
      <4>1. symbol_table \in Seq(S) /\ new \in S
        BY <1>2, <3>1, TokenValues DEF Types, Labelled
      <4>2. symbol_table' = Append(symbol_table, new)
        BY <1>3, <1>10, <3>1 DEF Moves1
      <4> HIDE DEF S
      <4>3. new = Entry(source, q, lineno) BY <1>8, <2>5, <3>1, Zenon DEF Entry
      <4> HIDE DEF new
      <4>4. Enters(source, symbol_table, p, lineno - 1) BY <1>6, <1>10
      <4> QED BY <1>1, <1>8, <2>4, <2>5, <3>1, <4>1, <4>2, <4>3, <4>4, EntersOne, Zenon
    <3>2. CASE ~Labelled
      <4>1. symbol_table' = symbol_table BY <1>3, <3>2 DEF Moves1
      <4>2. Enters(source, symbol_table, p, lineno - 1) BY <1>6, <1>10
      <4>3. ~HasLabel(source[(lineno - 1) + 1]) BY <1>8, <2>5, <3>2, Zenon
      <4>4. Enters(source, symbol_table, q, (lineno - 1) + 1) BY <2>4, <2>5, <4>2, <4>3, EntersStay
      <4>5. Enters(source, symbol_table, q, lineno) BY <2>5, <4>4, Zenon
      <4> QED BY <1>1, <4>1, <4>5
    <3> QED BY <3>1, <3>2
  <2>7. Agreed' BY <1>1, <1>10, <2>1, <2>2, <2>3, <2>6 DEF Agreed, Finished
  <2> QED BY <1>1, <1>2, <1>4, <1>10, <2>7 DEF Clean, AtLastLine
<1>11. CASE pass = 2
  <2>1. symbol_table' = symbol_table BY <1>3, <1>11 DEF Moves1
  <2>2. bytepos' = p[lineno + 1] BY <1>5, <1>6, <1>7, <1>11 DEF Measures
  <2>3. Measures(source', p, Len(source)) /\ Enters(source', symbol_table', p, Len(source))
    BY <1>1, <1>6, <1>11, <2>1 DEF Measures
  <2>4. Agreed' BY <1>1, <1>11, <2>2, <2>3 DEF Agreed, Finished
  <2> QED BY <1>1, <1>4, <1>11, <2>4 DEF Clean
<1> QED BY <1>9, <1>10, <1>11

\* The end of the file: the second pass begins where the first one did.
LEMMA EndKeeps ==
  ASSUME PassInv, EndOfFile
  PROVE  PassInv'
<1>1. ~newline /\ UNCHANGED <<scene, source, start, newline, tokens, symbol_table>>
  BY DEF EndOfFile, AtEnd, Reading
<1>2. Types /\ (error_mode => hit_error) BY DEF PassInv
<1>3. hit_error' = (hit_error \/ tokens # <<>>) BY DEF EndOfFile, Erred
<1>4. CASE pass = 1 /\ ~Erred /\ SecondPass
  <2>1. pass' = 2 /\ lineno' = 0 /\ error_mode' = FALSE /\ bytepos' = 0 /\ tokens = <<>> /\ ~hit_error
    BY <1>4 DEF SecondPass, Erred
  <2>2. Types'
    <3>1. Len(source) \in Nat BY <1>2 DEF Types
    <3> QED BY <1>1, <1>2, <2>1, <3>1 DEF Types
  <2>3. Clean BY <2>1 DEF PassInv
  <2>4. PICK p : /\ Measures(source, p, Len(source)) /\ Enters(source, symbol_table, p, Len(source))
    BY <1>1, <1>2, <1>4, <2>1, <2>3 DEF Clean, Agreed, Finished, Types
  <2>5. Measures(source', p, Len(source)) /\ Enters(source', symbol_table', p, Len(source)) /\ p[1] = 0
    BY <1>1, <2>4 DEF Measures
  <2>6. Agreed' BY <1>1, <2>1, <2>5 DEF Agreed, Finished
  <2>7. Clean' BY <1>1, <2>1, <2>3, <2>6 DEF Clean
  <2> QED BY <2>1, <2>2, <2>7 DEF PassInv
<1>5. CASE UNCHANGED <<pass, lineno, error_mode, bytepos>>
  <2>1. Types' BY <1>1, <1>2, <1>5 DEF Types
  <2>2. ASSUME ~hit_error' PROVE Clean'
    <3>1. Clean BY <1>3, <2>2 DEF PassInv
    <3>2. Agreed => Agreed'
      BY <1>1, <1>5 DEF Agreed, Finished, Measures, Enters
    <3> QED BY <1>1, <1>5, <3>1, <3>2 DEF Clean, AtLastLine
  <2> QED BY <1>2, <1>3, <1>5, <2>1, <2>2 DEF PassInv
<1> QED BY <1>4, <1>5 DEF EndOfFile

LEMMA PassNext == PassInv /\ [Next]_vars => PassInv'
<1> SUFFICES ASSUME PassInv, [Next]_vars PROVE PassInv' OBVIOUS
<1>1. CASE ScanLine \/ SkipLine
  <2>1. Types' BY <1>1, ScanTypes DEF PassInv
  <2>2. error_mode' => hit_error' BY <1>1 DEF PassInv, ScanLine, SkipLine
  <2> QED BY <1>1, <2>1, <2>2, ScanKeeps DEF PassInv
<1>2. CASE finish_line
  <2>1. Types' BY <1>2, FinishTypes DEF PassInv
  <2> QED BY <1>2, <2>1, FinishFrame, FinishKeeps DEF PassInv
<1>3. CASE EndOfFile BY <1>3, EndKeeps
<1>4. CASE UNCHANGED yasvars
  BY <1>4 DEF yasvars, PassInv, Types, Clean, AtLastLine, Agreed, Finished, Measures, Enters
<1> QED BY <1>1, <1>2, <1>3, <1>4 DEF Next, YasNext, vars

\* Both passes come to a label at the same position, for all lines that the scanner can find:
\* what is entered in pass 1 (yas.c add_symbol) is where pass 2 puts what follows the label.
THEOREM PassesAgreeCorrect == Spec => []PassesAgree
<1>1. PassInv => PassesAgree
  <2> SUFFICES ASSUME PassInv, pass = 2, newline, ~hit_error, HasLabel(source[lineno])
               PROVE  \E s \in DOMAIN symbol_table :
                        symbol_table[s] = [name |-> LabelOf(source[lineno]), pos |-> bytepos]
    BY DEF PassesAgree
  <2>1. Agreed /\ lineno \in 1 .. Len(source) BY DEF PassInv, Clean, Types
  <2>2. PICK p : Enters(source, symbol_table, p, Len(source)) /\ bytepos = p[lineno]
    BY <2>1 DEF Agreed, Finished
  <2>3. \E s \in DOMAIN symbol_table : symbol_table[s] = [name |-> LabelOf(source[lineno]), pos |-> p[lineno]]
    BY <2>1, <2>2, EntersFinds
  <2> QED BY <2>2, <2>3, Zenon
<1> QED BY <1>1, PassInit, PassNext, PTL DEF Spec

-----------------------------------------------------------------------------
(* The forms of statements, said of the tokens one by one as finish_line     *)
(* looks at them.                                                            *)

\* A pair has two components.
LEMMA Pair ==
  ASSUME NEW A, NEW B, NEW pair \in A \X B
  PROVE  pair = <<pair[1], pair[2]>> /\ pair[1] \in A /\ pair[2] \in B
OBVIOUS

\* What a token may be.
LEMMA TokenKinds ==
  ASSUME NEW tok \in Tokens
  PROVE  /\ tok[1] \in {"NUM", "IDENT", "REG", "INSTR", "PUNCT"} /\ tok = <<tok[1], tok[2]>>
         /\ tok[1] = "PUNCT" => tok[2] \in {"(", ")", ":", ","}
         /\ tok[1] = "NUM" => tok[2] \in Ints /\ tok[2] \in Int
         /\ tok[1] = "IDENT" => tok[2] \in STRING
         /\ tok[1] = "REG" => tok[2] \in RegNames
         /\ tok[1] = "INSTR" => tok[2] \in InstrNames \cup {".pos", ".align"}
<1> DEFINE Marks == {"(", ")", ":", ","}
           Names2 == InstrNames \cup {".pos", ".align"}
<1> HIDE DEF Marks, Names2
<1>1. CASE tok \in {"NUM"} \X Ints
  <2>1. tok[1] = "NUM" /\ tok[2] \in Ints /\ tok = <<tok[1], tok[2]>> BY <1>1, Pair, Zenon
  <2> QED BY <2>1, IntsAre, Zenon
<1>2. CASE tok \in {"INSTR"} \X Names2 
  <2>1. tok[1] = "INSTR" /\ tok[2] \in Names2 /\ tok = <<tok[1], tok[2]>> BY <1>2, Pair, Zenon
  <2> QED BY <2>1, Zenon DEF Names2
<1>3. CASE tok \in {"IDENT"} \X STRING
  <2>1. tok[1] = "IDENT" /\ tok[2] \in STRING /\ tok = <<tok[1], tok[2]>> BY <1>3, Pair, Zenon
  <2> QED BY <2>1, Zenon
<1>5. CASE tok \in {"REG"} \X RegNames
  <2>1. tok[1] = "REG" /\ tok[2] \in RegNames /\ tok = <<tok[1], tok[2]>> BY <1>5, Pair, Zenon
  <2> QED BY <2>1, Zenon
<1>4. CASE tok \in {"PUNCT"} \X Marks
  <2>1. tok[1] = "PUNCT" /\ tok[2] \in Marks /\ tok = <<tok[1], tok[2]>> BY <1>4, Pair, Zenon
  <2> QED BY <2>1, Zenon DEF Marks
<1> QED BY <1>1, <1>2, <1>3, <1>4, <1>5, Zenon DEF Tokens, Marks, Names2

\* What finish_line tells of a token: a mark itself, the type of any other, and of none that it is missing.
Look(toks, k) == IF TokenOf(toks, k)[1] = "PUNCT" THEN TokenOf(toks, k)[2] ELSE TokenOf(toks, k)[1]
Kinds == {"NUM", "IDENT", "REG", "INSTR", "(", ")", ":", ","}
LabelOk(line) == TokenOf(line.tokens, 1)[1] = "IDENT" => HasLabel(line)

LEMMA LookKinds ==
  ASSUME NEW toks \in Seq(Tokens), NEW k \in Nat \ {0}
  PROVE  /\ k <= Len(toks) => /\ Look(toks, k) \in Kinds
                              /\ (Look(toks, k) \in {"NUM", "IDENT", "REG", "INSTR"} => toks[k][1] = Look(toks, k))
                              /\ toks[k][1] \in {"NUM", "IDENT", "REG", "INSTR"} => Look(toks, k) = toks[k][1]
         /\ k > Len(toks) => Look(toks, k) = "ERR" /\ TokenOf(toks, k)[1] = "ERR"
         /\ \A c \in {"(", ")", ":", ","} : Look(toks, k) = c <=> TokenOf(toks, k) = <<"PUNCT", c>>
<1>0. Len(toks) \in Nat OBVIOUS
<1>1. CASE k > Len(toks)
  <2>0. ~(k <= Len(toks)) BY <1>0, <1>1
  <2>1. TokenOf(toks, k) = <<"ERR", "">> BY <2>0, Zenon DEF TokenOf
  <2>2. <<"ERR", "">>[1] = "ERR" /\ <<"ERR", "">>[2] = "" OBVIOUS
  <2>3. Look(toks, k) = "ERR" BY <2>1, <2>2, Zenon DEF Look
  <2>4. \A c \in {"(", ")", ":", ","} : <<"ERR", "">> # <<"PUNCT", c>> /\ c # "ERR" OBVIOUS
  <2> QED BY <1>1, <2>0, <2>1, <2>2, <2>3, <2>4, Zenon
<1>2. CASE k <= Len(toks)
  <2> DEFINE tok == toks[k]
  <2>1. tok \in Tokens /\ ~(k > Len(toks)) BY <1>2
  <2>2. TokenOf(toks, k) = tok BY <1>2 DEF TokenOf
  <2>3. /\ tok[1] \in {"NUM", "IDENT", "REG", "INSTR", "PUNCT"} /\ tok = <<tok[1], tok[2]>>
        /\ tok[1] = "PUNCT" => tok[2] \in {"(", ")", ":", ","}
    BY <2>1, TokenKinds, Zenon
  <2> HIDE DEF tok
  <2>4. CASE tok[1] = "PUNCT"
    <3>1. Look(toks, k) = tok[2] BY <2>2, <2>4, Zenon DEF Look
    <3>2. \A c \in {"(", ")", ":", ","} : tok[2] = c <=> tok = <<"PUNCT", c>>
      <4> TAKE c \in {"(", ")", ":", ","}
      <4>1. <<"PUNCT", c>>[2] = c OBVIOUS
      <4> QED BY <2>3, <2>4, <4>1, Zenon
    <3>3. Look(toks, k) \in Kinds /\ Look(toks, k) \notin {"NUM", "IDENT", "REG", "INSTR"}
      BY <2>3, <2>4, <3>1, Zenon DEF Kinds
    <3>4. tok[1] \notin {"NUM", "IDENT", "REG", "INSTR"} BY <2>4, Zenon
    <3> QED BY <2>1, <2>2, <3>1, <3>2, <3>3, <3>4, Zenon DEF tok
  <2>5. CASE tok[1] # "PUNCT"
    <3>1. Look(toks, k) = tok[1] BY <2>2, <2>5, Zenon DEF Look
    <3>2. \A c \in {"(", ")", ":", ","} : tok[1] # c /\ tok # <<"PUNCT", c>>
      <4> TAKE c \in {"(", ")", ":", ","}
      <4>1. <<"PUNCT", c>>[1] = "PUNCT" OBVIOUS
      <4> QED BY <2>3, <2>5, <4>1, Zenon
    <3>3. tok[1] \in Kinds BY <2>3, <2>5, Zenon DEF Kinds
    <3> QED BY <2>1, <2>2, <3>1, <3>2, <3>3, Zenon DEF tok
  <2> QED BY <2>4, <2>5
<1>3. k > Len(toks) \/ k <= Len(toks) BY <1>0
<1> QED BY <1>1, <1>2, <1>3, Zenon

\* A sequence from one of its places on.
LEMMA RestOf ==
  ASSUME NEW S, NEW seq \in Seq(S), NEW m \in Nat \ {0}, m <= Len(seq) + 1
  PROVE  /\ SubSeq(seq, m, Len(seq)) \in Seq(S) /\ Len(SubSeq(seq, m, Len(seq))) = Len(seq) - m + 1
         /\ \A k \in 1 .. Len(seq) - m + 1 : SubSeq(seq, m, Len(seq))[k] = seq[m + k - 1]
         /\ SubSeq(seq, m, Len(seq)) = <<>> <=> Len(seq) < m
<1>1. Len(seq) \in Nat /\ \A i \in m .. Len(seq) : seq[i] \in S OBVIOUS
<1>2. /\ SubSeq(seq, m, Len(seq)) \in Seq(S)
      /\ Len(SubSeq(seq, m, Len(seq))) = IF m <= Len(seq) THEN Len(seq) - m + 1 ELSE 0
      /\ \A i \in 1 .. Len(seq) - m + 1 : SubSeq(seq, m, Len(seq))[i] = seq[m + i - 1]
  BY <1>1, SubSeqProperties
<1>3. Len(SubSeq(seq, m, Len(seq))) = Len(seq) - m + 1 BY <1>1, <1>2
<1>4. SubSeq(seq, m, Len(seq)) = <<>> <=> Len(seq) < m
  BY <1>1, <1>2, <1>3, EmptySeq
<1> QED BY <1>2, <1>3, <1>4

\* A statement begins with the first token, or with the third of a line with a label.
LEMMA StatementAt ==
  ASSUME NEW line \in SourceLines, LabelOk(line)
  PROVE  /\ FirstOf(line.tokens) \in {1, 3} /\ (HasLabel(line) <=> FirstOf(line.tokens) = 3)
         /\ FirstOf(line.tokens) <= Len(line.tokens) + 1
         /\ StatementOf(line) \in Seq(Tokens)
         /\ Len(StatementOf(line)) = Len(line.tokens) - FirstOf(line.tokens) + 1
         /\ \A k \in 1 .. Len(line.tokens) - FirstOf(line.tokens) + 1 :
              StatementOf(line)[k] = line.tokens[FirstOf(line.tokens) + k - 1]
         /\ IsStatement(line) <=> FirstOf(line.tokens) <= Len(line.tokens)
<1>1. line.tokens \in Seq(Tokens) /\ Len(line.tokens) \in Nat BY DEF SourceLines
<1>2. HasLabel(line) <=> FirstOf(line.tokens) = 3
  BY <1>1 DEF LabelOk, FirstOf, HasLabel, TokenOf
<1>3. FirstOf(line.tokens) \in {1, 3} BY DEF FirstOf
<1>4. FirstOf(line.tokens) <= Len(line.tokens) + 1 BY <1>1, <1>2, <1>3 DEF HasLabel
<1>5. StatementOf(line) = SubSeq(line.tokens, FirstOf(line.tokens), Len(line.tokens))
  <2>1. CASE HasLabel(line) BY <1>2, <2>1 DEF StatementOf
  <2>2. CASE ~HasLabel(line)
    <3>1. FirstOf(line.tokens) = 1 BY <1>2, <1>3, <2>2
    <3>2. SubSeq(line.tokens, 1, Len(line.tokens)) = line.tokens BY <1>1, SubSeqFull
    <3> QED BY <2>2, <3>1, <3>2, Zenon DEF StatementOf
  <2> QED BY <2>1, <2>2
<1> DEFINE toks == line.tokens
           f == FirstOf(toks)
<1> HIDE DEF toks, f
<1>6. toks \in Seq(Tokens) /\ Len(toks) \in Nat /\ f \in Nat \ {0} /\ f <= Len(toks) + 1
  BY <1>1, <1>3, <1>4 DEF toks, f
<1>7. /\ SubSeq(toks, f, Len(toks)) \in Seq(Tokens) /\ Len(SubSeq(toks, f, Len(toks))) = Len(toks) - f + 1
      /\ \A k \in 1 .. Len(toks) - f + 1 : SubSeq(toks, f, Len(toks))[k] = toks[f + k - 1]
      /\ SubSeq(toks, f, Len(toks)) = <<>> <=> Len(toks) < f
  <2> HIDE DEF Tokens
  <2> QED BY <1>6, RestOf
<1>8. Len(toks) < f <=> ~(f <= Len(toks)) BY <1>6
<1> QED BY <1>2, <1>3, <1>4, <1>5, <1>7, <1>8, Zenon DEF IsStatement, toks, f

\* The shape of what follows the name of a statement.
LEMMA ShapeAt ==
  ASSUME NEW line \in SourceLines, LabelOk(line), IsStatement(line)
  PROVE  LET shape == Tail(Shape(StatementOf(line)))
             n == Len(line.tokens) - FirstOf(line.tokens)
         IN /\ shape \in Seq(Kinds) /\ Len(shape) = n /\ n \in Nat
            /\ \A k \in 1 .. n : shape[k] = Look(line.tokens, FirstOf(line.tokens) + k)
<1> DEFINE toks == line.tokens
           f == FirstOf(toks)
           st == StatementOf(line)
           sh == Shape(st)
<1>1. toks \in Seq(Tokens) /\ Len(toks) \in Nat BY DEF SourceLines
<1>2. /\ f \in {1, 3} /\ st \in Seq(Tokens) /\ Len(st) = Len(toks) - f + 1 /\ f <= Len(toks)
      /\ \A k \in 1 .. Len(toks) - f + 1 : st[k] = toks[f + k - 1]
  BY StatementAt
<1> HIDE DEF toks, f, st
<1>3. DOMAIN st = 1 .. Len(st) BY <1>2, LenProperties
<1>4. ASSUME NEW k \in 1 .. Len(st) PROVE sh[k] = Look(toks, f + k - 1) /\ sh[k] \in Kinds
  <2>1. f + k - 1 \in Nat \ {0} /\ f + k - 1 <= Len(toks) BY <1>1, <1>2
  <2>2. TokenOf(toks, f + k - 1) = st[k] BY <1>1, <1>2, <2>1 DEF TokenOf
  <2>3. sh[k] = IF st[k][1] = "PUNCT" THEN st[k][2] ELSE st[k][1] BY <1>3, Zenon DEF Shape
  <2>4. sh[k] = Look(toks, f + k - 1) BY <2>2, <2>3, Zenon DEF Look
  <2> HIDE DEF sh
  <2>5. Look(toks, f + k - 1) \in Kinds BY <1>1, <2>1, LookKinds, Zenon
  <2> QED BY <2>4, <2>5, Zenon
<1>5. sh \in Seq(Kinds) /\ Len(sh) = Len(st)
  <2>1. sh = [k \in 1 .. Len(st) |-> sh[k]] BY <1>3, Zenon DEF Shape
  <2> HIDE DEF sh
  <2>2. sh \in [1 .. Len(st) -> Kinds] BY <1>4, <2>1
  <2>3. Len(st) \in Nat BY <1>1, <1>2
  <2> HIDE DEF Kinds
  <2> QED BY <2>2, <2>3, SeqDef
<1> HIDE DEF sh
<1>6. sh # <<>> BY <1>1, <1>2, <1>5, EmptySeq
<1>7. /\ Tail(sh) \in Seq(Kinds) /\ Len(Tail(sh)) = Len(sh) - 1
      /\ \A i \in 1 .. Len(Tail(sh)) : Tail(sh)[i] = sh[i + 1]
  BY <1>5, <1>6, HeadTailProperties
<1>8. Len(toks) - f \in Nat /\ Len(Tail(sh)) = Len(toks) - f BY <1>1, <1>2, <1>5, <1>7
<1>9. \A k \in 1 .. Len(toks) - f : Tail(sh)[k] = Look(toks, f + k)
  <2> TAKE k \in 1 .. Len(toks) - f
  <2>1. k + 1 \in 1 .. Len(st) /\ f + (k + 1) - 1 = f + k BY <1>1, <1>2
  <2>2. sh[k + 1] = Look(toks, f + k) BY <1>4, <2>1
  <2> QED BY <1>7, <1>8, <2>2
<1> QED BY <1>7, <1>8, <1>9 DEF sh, st, f, toks

\* A statement has a form if it agrees with it kind by kind, and if nothing goes on with it.
LEMMA MatchesMeans ==
  ASSUME NEW line \in SourceLines, LabelOk(line), IsStatement(line), NEW form \in Seq(Kinds)
  PROVE  Matches(line, form) <=>
           /\ \A j \in 1 .. Len(form) : Look(line.tokens, FirstOf(line.tokens) + j) = form[j]
           /\ Name(line) = "rmmovq" => ~GoesOn(form, Look(line.tokens, FirstOf(line.tokens) + Len(form) + 1))
<1> DEFINE toks == line.tokens
           f == FirstOf(toks)
           shape == Tail(Shape(StatementOf(line)))
           n == Len(toks) - f
           m == Len(form)
<1>1. shape \in Seq(Kinds) /\ Len(shape) = n /\ n \in Nat /\ \A k \in 1 .. n : shape[k] = Look(toks, f + k)
  BY ShapeAt
<1>2. toks \in Seq(Tokens) /\ Len(toks) \in Nat /\ f \in {1, 3} /\ m \in Nat
  <2>1. toks \in Seq(Tokens) BY DEF SourceLines
  <2>2. f \in {1, 3} BY DEF FirstOf
  <2>3. m \in Nat BY LenProperties
  <2> HIDE DEF toks
  <2> QED BY <2>1, <2>2, <2>3, LenProperties
<1>3. Matches(line, form) <=>
        /\ m <= n /\ SubSeq(shape, 1, m) = form
        /\ Name(line) = "rmmovq" /\ m < n => ~GoesOn(form, shape[m + 1])
  BY <1>1, Zenon DEF Matches
<1> HIDE DEF shape, f, toks, m
<1>4. \A j \in 1 .. m : form[j] \in Kinds /\ form[j] # "ERR"
  <2>1. "ERR" \notin Kinds BY DEF Kinds
  <2> HIDE DEF Kinds
  <2>2. \A j \in 1 .. Len(form) : form[j] \in Kinds BY ElementOfSeq
  <2> QED BY <2>1, <2>2, Zenon DEF m
<1>5. ASSUME \A j \in 1 .. m : Look(toks, f + j) = form[j] PROVE m <= n
  <2>1. CASE m = 0 BY <1>1, <2>1
  <2>2. CASE m > 0
    <3>1. m \in 1 .. m /\ f + m \in Nat \ {0} BY <1>2, <2>2
    <3>2. Look(toks, f + m) # "ERR" BY <1>4, <1>5, <3>1
    <3>3. ~(f + m > Len(toks)) BY <1>2, <3>1, <3>2, LookKinds, Zenon
    <3> QED BY <1>2, <3>1, <3>3
  <2> QED BY <1>2, <2>1, <2>2
<1>6. ASSUME m <= n
      PROVE  SubSeq(shape, 1, m) = form <=> \A j \in 1 .. m : Look(toks, f + j) = form[j]
  <2>1. /\ SubSeq(shape, 1, m) \in Seq(Kinds) /\ Len(SubSeq(shape, 1, m)) = m
        /\ \A j \in 1 .. m : SubSeq(shape, 1, m)[j] = shape[j]
    <3>1. \A j \in 1 .. m : shape[j] \in Kinds BY <1>1, <1>2, <1>6
    <3> QED BY <1>2, <3>1, SubSeqProperties
  <2>2. \A j \in 1 .. m : SubSeq(shape, 1, m)[j] = Look(toks, f + j) BY <1>1, <1>2, <1>6, <2>1
  <2>3. SubSeq(shape, 1, m) = form <=> \A j \in 1 .. m : SubSeq(shape, 1, m)[j] = form[j]
    <3> HIDE DEF n
    <3> QED BY <2>1, SeqEqual DEF m
  <2> QED BY <2>2, <2>3
<1>7. ASSUME m <= n, ~(m < n) PROVE ~GoesOn(form, Look(toks, f + m + 1))
  <2>1. f + m + 1 \in Nat \ {0} /\ f + m + 1 > Len(toks) BY <1>1, <1>2, <1>7
  <2>2. Look(toks, f + m + 1) = "ERR" BY <1>2, <2>1, LookKinds, Zenon
  <2>3. "ERR" # "(" /\ <<"ERR">> \notin Values BY DEF Values
  <2> QED BY <2>2, <2>3, Zenon DEF GoesOn
<1>8. ASSUME m < n PROVE shape[m + 1] = Look(toks, f + m + 1)
  <2>1. m + 1 \in 1 .. n /\ f + (m + 1) = f + m + 1 BY <1>1, <1>2, <1>8
  <2> QED BY <1>1, <2>1
<1>9. Matches(line, form) <=>
        /\ \A j \in 1 .. m : Look(toks, f + j) = form[j]
        /\ Name(line) = "rmmovq" => ~GoesOn(form, Look(toks, f + m + 1))
  <2> HIDE DEF n
  <2> QED BY <1>3, <1>5, <1>6, <1>7, <1>8, Zenon
<1> QED BY <1>9 DEF m, f, toks

\* The forms that the operands of each instruction may have.
Halts == {"nop", "halt", "ret"}
VNames == DOMAIN Jumps \cup DOMAIN Allocations \cup {"call"}
RNames == DOMAIN Moves \cup DOMAIN Alus
RmForms ==
  {<<"REG", ",">>, <<"REG", ",", "NUM">>, <<"REG", ",", "IDENT">>, <<"REG", ",", "(", "REG", ")">>,
   <<"REG", ",", "NUM", "(", "REG", ")">>, <<"REG", ",", "IDENT", "(", "REG", ")">>}
MrForms ==
  {<<",", "REG">>, <<"NUM", ",", "REG">>, <<"IDENT", ",", "REG">>, <<"(", "REG", ")", ",", "REG">>,
   <<"NUM", "(", "REG", ")", ",", "REG">>, <<"IDENT", "(", "REG", ")", ",", "REG">>}

LEMMA FormsAre ==
  /\ FormsOf("rmmovq") = RmForms
  /\ FormsOf("mrmovq") = MrForms
  /\ \A name \in {"irmovq", "iaddq"} : FormsOf(name) = {<<"NUM", ",", "REG">>, <<"IDENT", ",", "REG">>}
  /\ \A name \in VNames : FormsOf(name) = {<<"NUM">>, <<"IDENT">>}
  /\ \A name \in RNames : FormsOf(name) = {<<"REG", ",", "REG">>}
  /\ \A name \in {".pos", ".align"} : FormsOf(name) = {<<"NUM">>}
  /\ \A name \in {"pushq", "popq"} : FormsOf(name) = {<<"REG">>}
  /\ \A name \in Halts : FormsOf(name) = {<<>>}
<1>1. FormsOf("rmmovq") = RmForms BY DEF FormsOf, Moves, Jumps, Alus, Allocations, RmForms
<1>2. FormsOf("mrmovq") = MrForms BY DEF FormsOf, Moves, Jumps, Alus, Allocations, MrForms
<1>4. \A name \in {"irmovq", "iaddq"} : FormsOf(name) = {<<"NUM", ",", "REG">>, <<"IDENT", ",", "REG">>}
  BY DEF FormsOf, Moves, Jumps, Alus, Allocations
<1>7. \A name \in VNames : FormsOf(name) = {<<"NUM">>, <<"IDENT">>}
  BY ZenonT(60) DEF FormsOf, Moves, Jumps, Alus, Allocations, Values, VNames
<1>8. \A name \in RNames : FormsOf(name) = {<<"REG", ",", "REG">>}
  BY ZenonT(60) DEF FormsOf, Moves, Jumps, Alus, Allocations, RNames
<1>9. \A name \in {".pos", ".align"} : FormsOf(name) = {<<"NUM">>}
  BY DEF FormsOf, Moves, Jumps, Alus, Allocations
<1>10. \A name \in {"pushq", "popq"} : FormsOf(name) = {<<"REG">>}
  BY DEF FormsOf, Moves, Jumps, Alus, Allocations
<1>11. \A name \in Halts : FormsOf(name) = {<<>>}
  BY DEF FormsOf, Moves, Jumps, Alus, Allocations, Halts
<1> QED BY <1>1, <1>2, <1>4, <1>7, <1>8, <1>9, <1>10, <1>11, Zenon

\* The names, in classes by their forms.
Class(name) ==
  CASE name = "rmmovq" -> "rm"
    [] name = "mrmovq" -> "mr"
    [] name \in {"irmovq", "iaddq"} -> "value to register"
    [] name \in VNames -> "value"
    [] name \in RNames -> "register to register"
    [] name \in {".pos", ".align"} -> "directive"
    [] name \in {"pushq", "popq"} -> "register"
    [] name \in Halts -> "alone"

LEMMA Classes ==
  ASSUME NEW name \in InstrNames \cup {".pos", ".align"}
  PROVE  \/ name = "rmmovq" /\ Class(name) = "rm"
         \/ name = "mrmovq" /\ Class(name) = "mr"
         \/ name \in {"irmovq", "iaddq"} /\ Class(name) = "value to register"
         \/ name \in VNames /\ Class(name) = "value"
         \/ name \in RNames /\ Class(name) = "register to register"
         \/ name \in {".pos", ".align"} /\ Class(name) = "directive"
         \/ name \in {"pushq", "popq"} /\ Class(name) = "register"
         \/ name \in Halts /\ Class(name) = "alone"
<1>1. Class("rmmovq") = "rm" /\ Class("mrmovq") = "mr"
  BY DEF Halts, VNames, RNames, Jumps, Allocations, Moves, Alus, Class
<1>2. \A nm \in {"irmovq", "iaddq"} : Class(nm) = "value to register"
  BY DEF Halts, VNames, RNames, Jumps, Allocations, Moves, Alus, Class
<1>3. \A nm \in VNames : Class(nm) = "value"
  BY DEF Halts, VNames, RNames, Jumps, Allocations, Moves, Alus, Class
<1>4. \A nm \in RNames : Class(nm) = "register to register"
  BY ZenonT(60) DEF Halts, VNames, RNames, Jumps, Allocations, Moves, Alus, Class
<1>5. \A nm \in {".pos", ".align"} : Class(nm) = "directive"
  BY DEF Halts, VNames, RNames, Jumps, Allocations, Moves, Alus, Class
<1>6. \A nm \in {"pushq", "popq"} : Class(nm) = "register"
  BY DEF Halts, VNames, RNames, Jumps, Allocations, Moves, Alus, Class
<1>7. \A nm \in Halts : Class(nm) = "alone"
  BY DEF Halts, VNames, RNames, Jumps, Allocations, Moves, Alus, Class
<1>8. \/ name = "rmmovq" \/ name = "mrmovq" \/ name \in {"irmovq", "iaddq"} \/ name \in VNames \/ name \in RNames
      \/ name \in {".pos", ".align"} \/ name \in {"pushq", "popq"} \/ name \in Halts
  BY Zenon DEF InstrNames, VNames, RNames, Halts
<1> QED BY <1>1, <1>2, <1>3, <1>4, <1>5, <1>6, <1>7, <1>8, Zenon

\* A form with its kinds written out, for each of the lengths there are.
GoesAfter(last, next) == (next = "(" /\ last # ")") \/ (next \in {"NUM", "IDENT"} /\ last = ",")
Sees(line, k) == Look(line.tokens, FirstOf(line.tokens) + k)

LEMMA FormsSeen ==
  ASSUME NEW line \in SourceLines, LabelOk(line), IsStatement(line)
  PROVE  /\ Name(line) # "rmmovq" => Matches(line, <<>>)
         /\ Name(line) # "rmmovq" => \A a \in Kinds : Matches(line, <<a>>) <=> Sees(line, 1) = a
         /\ \A a, b \in Kinds :
              Matches(line, <<a, b>>) <=>
                /\ Sees(line, 1) = a /\ Sees(line, 2) = b
                /\ Name(line) = "rmmovq" => ~GoesAfter(b, Sees(line, 3))
         /\ \A a, b, c \in Kinds :
              Matches(line, <<a, b, c>>) <=>
                /\ Sees(line, 1) = a /\ Sees(line, 2) = b /\ Sees(line, 3) = c
                /\ Name(line) = "rmmovq" => ~GoesAfter(c, Sees(line, 4))
         /\ \A a, b, c, d, e \in Kinds :
              Matches(line, <<a, b, c, d, e>>) <=>
                /\ Sees(line, 1) = a /\ Sees(line, 2) = b /\ Sees(line, 3) = c /\ Sees(line, 4) = d /\ Sees(line, 5) = e
                /\ Name(line) = "rmmovq" => ~GoesAfter(e, Sees(line, 6))
         /\ \A a, b, c, d, e, g \in Kinds :
              Matches(line, <<a, b, c, d, e, g>>) <=>
                /\ Sees(line, 1) = a /\ Sees(line, 2) = b /\ Sees(line, 3) = c
                   /\ Sees(line, 4) = d /\ Sees(line, 5) = e /\ Sees(line, 6) = g
                /\ Name(line) = "rmmovq" => ~GoesAfter(g, Sees(line, 7))
<1>1. ASSUME NEW form \in Seq(Kinds)
      PROVE  Matches(line, form) <=>
               /\ \A j \in 1 .. Len(form) : Sees(line, j) = form[j]
               /\ Name(line) = "rmmovq" => ~GoesOn(form, Sees(line, Len(form) + 1))
  <2>1. FirstOf(line.tokens) \in {1, 3} /\ Len(form) \in Nat BY LenProperties, Zenon DEF FirstOf
  <2>2. FirstOf(line.tokens) + Len(form) + 1 = FirstOf(line.tokens) + (Len(form) + 1) BY <2>1
  <2> QED BY <2>2, MatchesMeans DEF Sees
<1>2. ASSUME NEW form, NEW next PROVE GoesOn(form, next) <=> GoesAfter(form[Len(form)], next)
  BY DEF GoesOn, GoesAfter, Values
<1>3. 1 + 1 = 2 /\ 2 + 1 = 3 /\ 3 + 1 = 4 /\ 5 + 1 = 6 /\ 6 + 1 = 7 OBVIOUS
<1> DEFINE K == Kinds
           At(k) == Sees(line, k)
<1> HIDE DEF K, At
<1>4. Name(line) # "rmmovq" => Matches(line, <<>>)
  <2>1. <<>> \in Seq(K) /\ Len(<<>>) = 0 /\ \A j \in 1 .. 0 : At(j) = <<>>[j] BY EmptySeq
  <2> QED BY <1>1, <2>1, Zenon DEF K, At
<1>5. Name(line) # "rmmovq" => \A a \in K : Matches(line, <<a>>) <=> At(1) = a
  <2> SUFFICES ASSUME Name(line) # "rmmovq", NEW a \in K PROVE Matches(line, <<a>>) <=> At(1) = a
    OBVIOUS
  <2>1. <<a>> \in Seq(K) /\ Len(<<a>>) = 1 /\ ((\A j \in 1 .. 1 : At(j) = <<a>>[j]) <=> At(1) = a)
    OBVIOUS
  <2> QED BY <1>1, <2>1, Zenon DEF K, At
<1>6. \A a, b \in K :
       Matches(line, <<a, b>>) <=>
         /\ At(1) = a /\ At(2) = b
         /\ Name(line) = "rmmovq" => ~GoesAfter(b, At(3))
  <2> TAKE a, b \in K
  <2>1. <<a, b>> \in Seq(K) /\ Len(<<a, b>>) = 2 /\ <<a, b>>[2] = b OBVIOUS
  <2>2. (\A j \in 1 .. 2 : At(j) = <<a, b>>[j]) <=> At(1) = a /\ At(2) = b OBVIOUS
  <2> QED BY <1>1, <1>2, <1>3, <2>1, <2>2, Zenon DEF K, At
<1>7. \A a, b, c \in K :
       Matches(line, <<a, b, c>>) <=>
         /\ At(1) = a /\ At(2) = b /\ At(3) = c
         /\ Name(line) = "rmmovq" => ~GoesAfter(c, At(4))
  <2> TAKE a, b, c \in K
  <2>1. <<a, b, c>> \in Seq(K) /\ Len(<<a, b, c>>) = 3 /\ <<a, b, c>>[3] = c OBVIOUS
  <2>2. (\A j \in 1 .. 3 : At(j) = <<a, b, c>>[j]) <=> At(1) = a /\ At(2) = b /\ At(3) = c OBVIOUS
  <2> QED BY <1>1, <1>2, <1>3, <2>1, <2>2, Zenon DEF K, At
<1>8. \A a, b, c, d, e \in K :
       Matches(line, <<a, b, c, d, e>>) <=>
         /\ At(1) = a /\ At(2) = b /\ At(3) = c /\ At(4) = d /\ At(5) = e
         /\ Name(line) = "rmmovq" => ~GoesAfter(e, At(6))
  <2> TAKE a, b, c, d, e \in K
  <2>1. <<a, b, c, d, e>> \in Seq(K) /\ Len(<<a, b, c, d, e>>) = 5 /\ <<a, b, c, d, e>>[5] = e OBVIOUS
  <2>2. (\A j \in 1 .. 5 : At(j) = <<a, b, c, d, e>>[j])
           <=> At(1) = a /\ At(2) = b /\ At(3) = c /\ At(4) = d /\ At(5) = e OBVIOUS
  <2> QED BY <1>1, <1>2, <1>3, <2>1, <2>2, Zenon DEF K, At
<1>9. \A a, b, c, d, e, g \in K :
       Matches(line, <<a, b, c, d, e, g>>) <=>
         /\ At(1) = a /\ At(2) = b /\ At(3) = c /\ At(4) = d /\ At(5) = e /\ At(6) = g
         /\ Name(line) = "rmmovq" => ~GoesAfter(g, At(7))
  <2> TAKE a, b, c, d, e, g \in K
  <2>1. <<a, b, c, d, e, g>> \in Seq(K) /\ Len(<<a, b, c, d, e, g>>) = 6 /\ <<a, b, c, d, e, g>>[6] = g OBVIOUS
  <2>2. (\A j \in 1 .. 6 : At(j) = <<a, b, c, d, e, g>>[j])
           <=> At(1) = a /\ At(2) = b /\ At(3) = c /\ At(4) = d /\ At(5) = e /\ At(6) = g OBVIOUS
  <2> QED BY <1>1, <1>2, <1>3, <2>1, <2>2, Zenon DEF K, At
<1> QED BY <1>4, <1>5, <1>6, <1>7, <1>8, <1>9, Zenon DEF K, At

\* A memory operand at one of two places, and what finish_line asks of each instruction's operands.
MemoryAt(line, k, l, m, n) ==
  IF Sees(line, k) \in {"NUM", "IDENT"} THEN Sees(line, l) = "(" => Sees(line, m) = "REG" /\ Sees(line, n) = ")"
  ELSE Sees(line, k) = "(" => Sees(line, l) = "REG" /\ Sees(line, m) = ")"
Formed(line, class) ==
  /\ class = "rm" => Sees(line, 1) = "REG" /\ Sees(line, 2) = "," /\ MemoryAt(line, 3, 4, 5, 6)
  /\ class = "mr" =>
       /\ MemoryAt(line, 1, 2, 3, 4)
       /\ IF Sees(line, 1) \in {"NUM", "IDENT"}
          THEN IF Sees(line, 2) = "(" THEN Sees(line, 5) = "," /\ Sees(line, 6) = "REG"
               ELSE Sees(line, 2) = "," /\ Sees(line, 3) = "REG"
          ELSE IF Sees(line, 1) = "(" THEN Sees(line, 4) = "," /\ Sees(line, 5) = "REG"
               ELSE Sees(line, 1) = "," /\ Sees(line, 2) = "REG"
  /\ class = "value to register" =>
       Sees(line, 1) \in {"NUM", "IDENT"} /\ Sees(line, 2) = "," /\ Sees(line, 3) = "REG"
  /\ class = "value" => Sees(line, 1) \in {"NUM", "IDENT"}
  /\ class = "register to register" => Sees(line, 1) = "REG" /\ Sees(line, 2) = "," /\ Sees(line, 3) = "REG"
  /\ class = "directive" => Sees(line, 1) = "NUM"
  /\ class = "register" => Sees(line, 1) = "REG"

LEMMA SomeForm ==
  ASSUME NEW line \in SourceLines, LabelOk(line), IsStatement(line), Name(line) \in InstrNames \cup {".pos", ".align"}
  PROVE  (\E form \in FormsOf(Name(line)) : Matches(line, form)) <=> Formed(line, Class(Name(line)))
<1> DEFINE S(k) == Sees(line, k)
           M(form) == Matches(line, form)
           F(class) == Formed(line, class)
           name == Name(line)
<1> SUFFICES (\E form \in FormsOf(name) : M(form)) <=> F(Class(name)) OBVIOUS
<1>1. "NUM" \in Kinds /\ "IDENT" \in Kinds /\ "REG" \in Kinds /\ "," \in Kinds /\ "(" \in Kinds /\ ")" \in Kinds
  BY DEF Kinds
<1>a. name # "rmmovq" => M(<<>>) BY FormsSeen, Zenon
<1>b. name # "rmmovq" => \A a \in Kinds : M(<<a>>) <=> S(1) = a BY FormsSeen, Zenon
<1>c. \A a, b \in Kinds :
        M(<<a, b>>) <=> /\ S(1) = a /\ S(2) = b
                        /\ name = "rmmovq" => ~GoesAfter(b, S(3))
  BY FormsSeen, Zenon
<1>d. \A a, b, c \in Kinds :
        M(<<a, b, c>>) <=> /\ S(1) = a /\ S(2) = b /\ S(3) = c
                           /\ name = "rmmovq" => ~GoesAfter(c, S(4))
  BY FormsSeen, Zenon
<1> DEFINE Five(a, b, c, d, e) ==
             M(<<a, b, c, d, e>>) <=> /\ S(1) = a /\ S(2) = b /\ S(3) = c /\ S(4) = d /\ S(5) = e
                                      /\ name = "rmmovq" => ~GoesAfter(e, S(6))
           Six(a, b, c, d, e, g) ==
             M(<<a, b, c, d, e, g>>) <=> /\ S(1) = a /\ S(2) = b /\ S(3) = c /\ S(4) = d /\ S(5) = e /\ S(6) = g
                                         /\ name = "rmmovq" => ~GoesAfter(g, S(7))
<1>e. \A a, b, c, d, e \in Kinds : Five(a, b, c, d, e) BY FormsSeen, Zenon
<1>f. \A a, b, c, d, e, g \in Kinds : Six(a, b, c, d, e, g) BY FormsSeen, Zenon
<1>3. /\ F("rm") <=> S(1) = "REG" /\ S(2) = "," /\ MemoryAt(line, 3, 4, 5, 6)
      /\ F("mr") <=>
           /\ MemoryAt(line, 1, 2, 3, 4)
           /\ IF S(1) \in {"NUM", "IDENT"}
              THEN IF S(2) = "(" THEN S(5) = "," /\ S(6) = "REG" ELSE S(2) = "," /\ S(3) = "REG"
              ELSE IF S(1) = "(" THEN S(4) = "," /\ S(5) = "REG" ELSE S(1) = "," /\ S(2) = "REG"
      /\ F("value to register") <=> S(1) \in {"NUM", "IDENT"} /\ S(2) = "," /\ S(3) = "REG"
      /\ F("value") <=> S(1) \in {"NUM", "IDENT"}
      /\ F("register to register") <=> S(1) = "REG" /\ S(2) = "," /\ S(3) = "REG"
      /\ F("directive") <=> S(1) = "NUM"
      /\ F("register") <=> S(1) = "REG"
      /\ F("alone")
  BY Zenon DEF Formed
<1>4. /\ MemoryAt(line, 3, 4, 5, 6) <=>
           IF S(3) \in {"NUM", "IDENT"} THEN S(4) = "(" => S(5) = "REG" /\ S(6) = ")"
           ELSE S(3) = "(" => S(4) = "REG" /\ S(5) = ")"
      /\ MemoryAt(line, 1, 2, 3, 4) <=>
           IF S(1) \in {"NUM", "IDENT"} THEN S(2) = "(" => S(3) = "REG" /\ S(4) = ")"
           ELSE S(1) = "(" => S(2) = "REG" /\ S(3) = ")"
  BY Zenon DEF MemoryAt
<1> HIDE DEF S, M, F, name, Five, Six
<1>g. /\ Five("REG", ",", "(", "REG", ")") /\ Five("(", "REG", ")", ",", "REG")
      /\ Six("REG", ",", "NUM", "(", "REG", ")") /\ Six("REG", ",", "IDENT", "(", "REG", ")")
      /\ Six("NUM", "(", "REG", ")", ",", "REG") /\ Six("IDENT", "(", "REG", ")", ",", "REG")
  BY <1>1, <1>e, <1>f
<1>5. CASE name = "rmmovq" /\ Class(name) = "rm"
  <2>1. M(<<"REG", ",">>) <=> S(1) = "REG" /\ S(2) = "," /\ ~GoesAfter(",", S(3))
    BY <1>1, <1>c, <1>5, Zenon
  <2>2. M(<<"REG", ",", "NUM">>) <=> S(1) = "REG" /\ S(2) = "," /\ S(3) = "NUM" /\ ~GoesAfter("NUM", S(4))
    BY <1>1, <1>d, <1>5, Zenon
  <2>3. M(<<"REG", ",", "IDENT">>) <=> S(1) = "REG" /\ S(2) = "," /\ S(3) = "IDENT" /\ ~GoesAfter("IDENT", S(4))
    BY <1>1, <1>d, <1>5, Zenon
  <2>4. M(<<"REG", ",", "(", "REG", ")">>) <=>
          S(1) = "REG" /\ S(2) = "," /\ S(3) = "(" /\ S(4) = "REG" /\ S(5) = ")" /\ ~GoesAfter(")", S(6))
    BY <1>g, <1>5, Zenon DEF Five, Six
  <2>5. M(<<"REG", ",", "NUM", "(", "REG", ")">>) <=>
          /\ S(1) = "REG" /\ S(2) = "," /\ S(3) = "NUM" /\ S(4) = "(" /\ S(5) = "REG" /\ S(6) = ")"
          /\ ~GoesAfter(")", S(7))
    BY <1>g, <1>5, Zenon DEF Five, Six
  <2>6. M(<<"REG", ",", "IDENT", "(", "REG", ")">>) <=>
          /\ S(1) = "REG" /\ S(2) = "," /\ S(3) = "IDENT" /\ S(4) = "(" /\ S(5) = "REG" /\ S(6) = ")"
          /\ ~GoesAfter(")", S(7))
    BY <1>g, <1>5, Zenon DEF Five, Six
  <2>7. (\E form \in FormsOf(name) : M(form)) <=>
          \/ M(<<"REG", ",">>) \/ M(<<"REG", ",", "NUM">>) \/ M(<<"REG", ",", "IDENT">>)
          \/ M(<<"REG", ",", "(", "REG", ")">>) \/ M(<<"REG", ",", "NUM", "(", "REG", ")">>)
          \/ M(<<"REG", ",", "IDENT", "(", "REG", ")">>)
    BY <1>5, FormsAre, Zenon DEF RmForms
  <2>8. (\E form \in FormsOf(name) : M(form)) <=> F("rm")
    BY <1>3, <1>4, <2>1, <2>2, <2>3, <2>4, <2>5, <2>6, <2>7 DEF GoesAfter
  <2> QED BY <1>5, <2>8, Zenon
<1>6. CASE name = "mrmovq" /\ Class(name) = "mr"
  <2>0. name # "rmmovq" BY <1>6
  <2>1. M(<<",", "REG">>) <=> S(1) = "," /\ S(2) = "REG"
    BY <1>1, <1>c, <2>0, Zenon
  <2>2. M(<<"NUM", ",", "REG">>) <=> S(1) = "NUM" /\ S(2) = "," /\ S(3) = "REG"
    BY <1>1, <1>d, <2>0, Zenon
  <2>3. M(<<"IDENT", ",", "REG">>) <=> S(1) = "IDENT" /\ S(2) = "," /\ S(3) = "REG"
    BY <1>1, <1>d, <2>0, Zenon
  <2>4. M(<<"(", "REG", ")", ",", "REG">>) <=>
          S(1) = "(" /\ S(2) = "REG" /\ S(3) = ")" /\ S(4) = "," /\ S(5) = "REG"
    BY <1>g, <2>0, Zenon DEF Five, Six
  <2>5. M(<<"NUM", "(", "REG", ")", ",", "REG">>) <=>
          S(1) = "NUM" /\ S(2) = "(" /\ S(3) = "REG" /\ S(4) = ")" /\ S(5) = "," /\ S(6) = "REG"
    BY <1>g, <2>0, Zenon DEF Five, Six
  <2>6. M(<<"IDENT", "(", "REG", ")", ",", "REG">>) <=>
          S(1) = "IDENT" /\ S(2) = "(" /\ S(3) = "REG" /\ S(4) = ")" /\ S(5) = "," /\ S(6) = "REG"
    BY <1>g, <2>0, Zenon DEF Five, Six
  <2>7. (\E form \in FormsOf(name) : M(form)) <=>
          \/ M(<<",", "REG">>) \/ M(<<"NUM", ",", "REG">>) \/ M(<<"IDENT", ",", "REG">>)
          \/ M(<<"(", "REG", ")", ",", "REG">>) \/ M(<<"NUM", "(", "REG", ")", ",", "REG">>)
          \/ M(<<"IDENT", "(", "REG", ")", ",", "REG">>)
    BY <1>6, FormsAre, Zenon DEF MrForms
  <2>8. (\E form \in FormsOf(name) : M(form)) <=> F("mr")
    BY <1>3, <1>4, <2>1, <2>2, <2>3, <2>4, <2>5, <2>6, <2>7
  <2> QED BY <1>6, <2>8, Zenon
<1>7. ASSUME name # "rmmovq"
      PROVE  /\ M(<<>>)
             /\ M(<<"NUM">>) <=> S(1) = "NUM"
             /\ M(<<"IDENT">>) <=> S(1) = "IDENT"
             /\ M(<<"REG">>) <=> S(1) = "REG"
             /\ M(<<"NUM", ",", "REG">>) <=> S(1) = "NUM" /\ S(2) = "," /\ S(3) = "REG"
             /\ M(<<"IDENT", ",", "REG">>) <=> S(1) = "IDENT" /\ S(2) = "," /\ S(3) = "REG"
             /\ M(<<"REG", ",", "REG">>) <=> S(1) = "REG" /\ S(2) = "," /\ S(3) = "REG"
  <2>1. M(<<>>) BY <1>a, <1>7, Zenon
  <2>2. M(<<"NUM">>) <=> S(1) = "NUM" BY <1>1, <1>b, <1>7, Zenon
  <2>3. M(<<"IDENT">>) <=> S(1) = "IDENT" BY <1>1, <1>b, <1>7, Zenon
  <2>4. M(<<"REG">>) <=> S(1) = "REG" BY <1>1, <1>b, <1>7, Zenon
  <2>5. M(<<"NUM", ",", "REG">>) <=> S(1) = "NUM" /\ S(2) = "," /\ S(3) = "REG" BY <1>1, <1>d, <1>7, Zenon
  <2>6. M(<<"IDENT", ",", "REG">>) <=> S(1) = "IDENT" /\ S(2) = "," /\ S(3) = "REG" BY <1>1, <1>d, <1>7, Zenon
  <2>7. M(<<"REG", ",", "REG">>) <=> S(1) = "REG" /\ S(2) = "," /\ S(3) = "REG" BY <1>1, <1>d, <1>7, Zenon
  <2> QED BY <2>1, <2>2, <2>3, <2>4, <2>5, <2>6, <2>7, Zenon
<1>8. Class("rmmovq") = "rm" BY DEF Class, Halts, VNames, RNames, Jumps, Allocations, Moves, Alus
<1>9. CASE name \in {"irmovq", "iaddq"} /\ Class(name) = "value to register"
  <2>0. name # "rmmovq" BY <1>8, <1>9
  <2>1. (\E form \in FormsOf(name) : M(form)) <=> M(<<"NUM", ",", "REG">>) \/ M(<<"IDENT", ",", "REG">>)
  BY <1>9, FormsAre, Zenon
  <2> QED BY <1>3, <1>7, <1>9, <2>0, <2>1, Zenon
<1>10. CASE name \in VNames /\ Class(name) = "value"
  <2>0. name # "rmmovq" BY <1>8, <1>10
  <2>1. (\E form \in FormsOf(name) : M(form)) <=> M(<<"NUM">>) \/ M(<<"IDENT">>) BY <1>10, FormsAre, Zenon
  <2> QED BY <1>3, <1>7, <1>10, <2>0, <2>1, Zenon
<1>11. CASE name \in RNames /\ Class(name) = "register to register"
  <2>0. name # "rmmovq" BY <1>8, <1>11
  <2>1. (\E form \in FormsOf(name) : M(form)) <=> M(<<"REG", ",", "REG">>) BY <1>11, FormsAre, Zenon
  <2> QED BY <1>3, <1>7, <1>11, <2>0, <2>1, Zenon
<1>12. CASE name \in {".pos", ".align"} /\ Class(name) = "directive"
  <2>0. name # "rmmovq" BY <1>8, <1>12
  <2>1. (\E form \in FormsOf(name) : M(form)) <=> M(<<"NUM">>) BY <1>12, FormsAre, Zenon
  <2> QED BY <1>3, <1>7, <1>12, <2>0, <2>1, Zenon
<1>13. CASE name \in {"pushq", "popq"} /\ Class(name) = "register"
  <2>0. name # "rmmovq" BY <1>8, <1>13
  <2>1. (\E form \in FormsOf(name) : M(form)) <=> M(<<"REG">>) BY <1>13, FormsAre, Zenon
  <2> QED BY <1>3, <1>7, <1>13, <2>0, <2>1, Zenon
<1>14. CASE name \in Halts /\ Class(name) = "alone"
  <2>0. name # "rmmovq" BY <1>8, <1>14
  <2>1. (\E form \in FormsOf(name) : M(form)) <=> M(<<>>) BY <1>14, FormsAre, Zenon
  <2> QED BY <1>3, <1>7, <1>14, <2>0, <2>1, Zenon
<1> QED BY <1>5, <1>6, <1>9, <1>10, <1>11, <1>12, <1>13, <1>14, Classes, Zenon DEF M, F, name

\* In a form at most one place can hold a name, the same one in all forms of a class.
ValueAt(class) == IF class = "rm" THEN 3 ELSE 1
ValueOnlyAt(form, i) ==
  /\ form \in Seq(Kinds)
  /\ \A k \in 1 .. Len(form) : form[k] = "IDENT" => k = i
  /\ i <= Len(form) \/ form \in {<<>>, <<"REG", ",">>}

LEMMA ValuePlaces ==
  ASSUME NEW name \in InstrNames \cup {".pos", ".align"}, NEW form \in FormsOf(name)
  PROVE  ValueOnlyAt(form, ValueAt(Class(name))) /\ (form = <<>> => Class(name) = "alone")
<1>1. "NUM" \in Kinds /\ "IDENT" \in Kinds /\ "REG" \in Kinds /\ "," \in Kinds /\ "(" \in Kinds /\ ")" \in Kinds
  BY DEF Kinds
<1> DEFINE K == Kinds
           Is(k, a, i) == a = "IDENT" => k = i
           One(a, i) == Is(1, a, i) /\ i <= 1 => ValueOnlyAt(<<a>>, i)
           Two(a, b, i) == Is(1, a, i) /\ Is(2, b, i)
                         /\ (i <= 2 \/ <<a, b>> = <<"REG", ",">>) => ValueOnlyAt(<<a, b>>, i)
           Three(a, b, c, i) == Is(1, a, i) /\ Is(2, b, i) /\ Is(3, c, i) /\ i <= 3 => ValueOnlyAt(<<a, b, c>>, i)
           Five(a, b, c, d, e, i) ==
             Is(1, a, i) /\ Is(2, b, i) /\ Is(3, c, i) /\ Is(4, d, i) /\ Is(5, e, i) /\ i <= 5 =>
               ValueOnlyAt(<<a, b, c, d, e>>, i)
           Six(a, b, c, d, e, g, i) ==
             Is(1, a, i) /\ Is(2, b, i) /\ Is(3, c, i) /\ Is(4, d, i) /\ Is(5, e, i) /\ Is(6, g, i) /\ i <= 6 =>
               ValueOnlyAt(<<a, b, c, d, e, g>>, i)
<1> HIDE DEF K
<1>2. \A a \in K, i \in {1, 3} : One(a, i)
  <2> TAKE a \in K, i \in {1, 3}
  <2>1. <<a>> \in Seq(K) /\ Len(<<a>>) = 1 OBVIOUS
  <2>2. <<a>>[1] = a OBVIOUS
  <2>3. ASSUME Is(1, a, i),
               NEW k \in 1 .. 1, <<a>>[k] = "IDENT"
        PROVE  k = i
    <3>1. k = 1 OBVIOUS
    <3> QED BY <2>2, <2>3, <3>1, Zenon
  <2> QED BY <2>1, <2>3, Zenon DEF ValueOnlyAt, K
<1>3. \A a, b \in K, i \in {1, 3} : Two(a, b, i)
  <2> TAKE a, b \in K, i \in {1, 3}
  <2>1. <<a, b>> \in Seq(K) /\ Len(<<a, b>>) = 2 OBVIOUS
  <2>2. <<a, b>>[1] = a /\ <<a, b>>[2] = b OBVIOUS
  <2>3. ASSUME Is(1, a, i), Is(2, b, i),
               NEW k \in 1 .. 2, <<a, b>>[k] = "IDENT"
        PROVE  k = i
    <3>1. k = 1 \/ k = 2 OBVIOUS
    <3> QED BY <2>2, <2>3, <3>1, Zenon
  <2> QED BY <2>1, <2>3, Zenon DEF ValueOnlyAt, K
<1>4. \A a, b, c \in K, i \in {1, 3} : Three(a, b, c, i)
  <2> TAKE a, b, c \in K, i \in {1, 3}
  <2>1. <<a, b, c>> \in Seq(K) /\ Len(<<a, b, c>>) = 3 OBVIOUS
  <2>2. <<a, b, c>>[1] = a /\ <<a, b, c>>[2] = b /\ <<a, b, c>>[3] = c OBVIOUS
  <2>3. ASSUME Is(1, a, i), Is(2, b, i), Is(3, c, i),
               NEW k \in 1 .. 3, <<a, b, c>>[k] = "IDENT"
        PROVE  k = i
    <3>1. k = 1 \/ k = 2 \/ k = 3 OBVIOUS
    <3> QED BY <2>2, <2>3, <3>1, Zenon
  <2> QED BY <2>1, <2>3, Zenon DEF ValueOnlyAt, K
<1>5. \A a, b, c, d, e \in K, i \in {1, 3} : Five(a, b, c, d, e, i)
  <2> TAKE a, b, c, d, e \in K, i \in {1, 3}
  <2>1. <<a, b, c, d, e>> \in Seq(K) /\ Len(<<a, b, c, d, e>>) = 5 OBVIOUS
  <2>2. /\ <<a, b, c, d, e>>[1] = a
        /\ <<a, b, c, d, e>>[2] = b
        /\ <<a, b, c, d, e>>[3] = c
        /\ <<a, b, c, d, e>>[4] = d
        /\ <<a, b, c, d, e>>[5] = e
  OBVIOUS
  <2>3. ASSUME Is(1, a, i), Is(2, b, i), Is(3, c, i), Is(4, d, i), Is(5, e, i),
               NEW k \in 1 .. 5, <<a, b, c, d, e>>[k] = "IDENT"
        PROVE  k = i
    <3>1. k = 1 \/ k = 2 \/ k = 3 \/ k = 4 \/ k = 5 OBVIOUS
    <3> QED BY <2>2, <2>3, <3>1, Zenon
  <2> QED BY <2>1, <2>3, Zenon DEF ValueOnlyAt, K
<1>6. \A a, b, c, d, e, g \in K, i \in {1, 3} : Six(a, b, c, d, e, g, i)
  <2> TAKE a, b, c, d, e, g \in K, i \in {1, 3}
  <2>1. <<a, b, c, d, e, g>> \in Seq(K) /\ Len(<<a, b, c, d, e, g>>) = 6 OBVIOUS
  <2>2. /\ <<a, b, c, d, e, g>>[1] = a
        /\ <<a, b, c, d, e, g>>[2] = b
        /\ <<a, b, c, d, e, g>>[3] = c
        /\ <<a, b, c, d, e, g>>[4] = d
        /\ <<a, b, c, d, e, g>>[5] = e
        /\ <<a, b, c, d, e, g>>[6] = g
  OBVIOUS
  <2>3. ASSUME Is(1, a, i), Is(2, b, i), Is(3, c, i), Is(4, d, i), Is(5, e, i), Is(6, g, i),
               NEW k \in 1 .. 6, <<a, b, c, d, e, g>>[k] = "IDENT"
        PROVE  k = i
    <3>1. k = 1 \/ k = 2 \/ k = 3 \/ k = 4 \/ k = 5 \/ k = 6 OBVIOUS
    <3> QED BY <2>2, <2>3, <3>1, Zenon
  <2> QED BY <2>1, <2>3, Zenon DEF ValueOnlyAt, K
<1> DEFINE V(f, i) == ValueOnlyAt(f, i)
<1> HIDE DEF One, Two, Three, Five, Six
<1>7. /\ Two("REG", ",", 3) /\ Three("REG", ",", "NUM", 3) /\ Three("REG", ",", "IDENT", 3)
      /\ Five("REG", ",", "(", "REG", ")", 3) /\ Six("REG", ",", "NUM", "(", "REG", ")", 3)
      /\ Six("REG", ",", "IDENT", "(", "REG", ")", 3)
  BY <1>1, <1>3, <1>4, <1>5, <1>6 DEF K
<1>8. /\ Two(",", "REG", 1) /\ Three("NUM", ",", "REG", 1) /\ Three("IDENT", ",", "REG", 1)
      /\ Five("(", "REG", ")", ",", "REG", 1) /\ Six("NUM", "(", "REG", ")", ",", "REG", 1)
      /\ Six("IDENT", "(", "REG", ")", ",", "REG", 1)
  BY <1>1, <1>3, <1>4, <1>5, <1>6 DEF K
<1>9. Three("REG", ",", "REG", 1) /\ One("NUM", 1) /\ One("IDENT", 1) /\ One("REG", 1)
  BY <1>1, <1>2, <1>4 DEF K
<1>10. 1 <= 1 /\ 1 <= 2 /\ 1 <= 3 /\ 3 <= 3 /\ 3 <= 5 /\ 3 <= 6 /\ 1 <= 5 /\ 1 <= 6 OBVIOUS
<1>11. \A f \in RmForms : V(f, 3)
  <2>1. V(<<"REG", ",">>, 3) BY <1>7, Zenon DEF Two
  <2>2. V(<<"REG", ",", "NUM">>, 3) /\ V(<<"REG", ",", "IDENT">>, 3) BY <1>7, <1>10, Zenon DEF Three
  <2>3. V(<<"REG", ",", "(", "REG", ")">>, 3) BY <1>7, <1>10, Zenon DEF Five
  <2>4. V(<<"REG", ",", "NUM", "(", "REG", ")">>, 3) /\ V(<<"REG", ",", "IDENT", "(", "REG", ")">>, 3)
    BY <1>7, <1>10, Zenon DEF Six
  <2> HIDE DEF V
  <2> QED BY <2>1, <2>2, <2>3, <2>4, Zenon DEF RmForms
<1>13. V(<<"NUM", ",", "REG">>, 1) /\ V(<<"IDENT", ",", "REG">>, 1) BY <1>8, <1>10, Zenon DEF Three
<1>12. \A f \in MrForms : V(f, 1)
  <2>1. V(<<",", "REG">>, 1) BY <1>8, <1>10, Zenon DEF Two
  <2>3. V(<<"(", "REG", ")", ",", "REG">>, 1) BY <1>8, <1>10, Zenon DEF Five
  <2>4. V(<<"NUM", "(", "REG", ")", ",", "REG">>, 1) /\ V(<<"IDENT", "(", "REG", ")", ",", "REG">>, 1)
    BY <1>8, <1>10, Zenon DEF Six
  <2> HIDE DEF V
  <2> QED BY <1>13, <2>1, <2>3, <2>4, Zenon DEF MrForms
<1>14. V(<<"REG", ",", "REG">>, 1) /\ V(<<"NUM">>, 1) /\ V(<<"IDENT">>, 1) /\ V(<<"REG">>, 1)
  <2>1. V(<<"REG", ",", "REG">>, 1) BY <1>9, <1>10, Zenon DEF Three
  <2>2. V(<<"NUM">>, 1) /\ V(<<"IDENT">>, 1) /\ V(<<"REG">>, 1) BY <1>9, <1>10, Zenon DEF One
  <2> QED BY <2>1, <2>2
<1>15. V(<<>>, 1) BY DEF ValueOnlyAt
<1>16. /\ \A f \in RmForms \cup MrForms : f # <<>>
       /\ <<"NUM", ",", "REG">> # <<>> /\ <<"IDENT", ",", "REG">> # <<>> /\ <<"REG", ",", "REG">> # <<>>
       /\ <<"NUM">> # <<>> /\ <<"IDENT">> # <<>> /\ <<"REG">> # <<>>
  BY DEF RmForms, MrForms
<1> HIDE DEF V
<1> SUFFICES V(form, ValueAt(Class(name))) /\ (form = <<>> => Class(name) = "alone") BY DEF V
<1>17. ValueAt("rm") = 3 /\ \A class : class # "rm" => ValueAt(class) = 1 BY DEF ValueAt
<1>18. CASE name = "rmmovq" /\ Class(name) = "rm"
  <2>1. form \in RmForms BY <1>18, FormsAre
  <2>2. V(form, ValueAt(Class(name))) BY <1>11, <1>17, <1>18, <2>1
  <2> QED BY <1>16, <2>1, <2>2
<1>19. CASE name = "mrmovq" /\ Class(name) = "mr"
  <2>1. form \in MrForms BY <1>19, FormsAre
  <2>2. V(form, ValueAt(Class(name))) BY <1>12, <1>17, <1>19, <2>1
  <2> QED BY <1>16, <2>1, <2>2
<1>26. ASSUME \A f \in FormsOf(name) : V(f, 1) /\ f # <<>>, Class(name) # "rm"
       PROVE  V(form, ValueAt(Class(name))) /\ (form = <<>> => Class(name) = "alone")
  <2>1. ValueAt(Class(name)) = 1 BY <1>17, <1>26, Zenon
  <2>2. V(form, 1) /\ form # <<>> BY <1>26, Zenon
  <2> QED BY <2>1, <2>2, Zenon
<1>20. CASE name \in {"irmovq", "iaddq"} /\ Class(name) = "value to register"
  <2>1. FormsOf(name) = {<<"NUM", ",", "REG">>, <<"IDENT", ",", "REG">>} BY <1>20, FormsAre, Zenon
  <2>2. \A f \in FormsOf(name) : V(f, 1) /\ f # <<>> BY <1>13, <1>16, <2>1, Zenon
  <2>3. Class(name) # "rm" BY <1>20
  <2> QED BY <1>26, <2>2, <2>3, Zenon
<1>21. CASE name \in VNames /\ Class(name) = "value"
  <2>1. FormsOf(name) = {<<"NUM">>, <<"IDENT">>} BY <1>21, FormsAre, Zenon
  <2>2. \A f \in FormsOf(name) : V(f, 1) /\ f # <<>> BY <1>14, <1>16, <2>1, Zenon
  <2>3. Class(name) # "rm" BY <1>21
  <2> QED BY <1>26, <2>2, <2>3, Zenon
<1>22. CASE name \in RNames /\ Class(name) = "register to register"
  <2>1. FormsOf(name) = {<<"REG", ",", "REG">>} BY <1>22, FormsAre, Zenon
  <2>2. \A f \in FormsOf(name) : V(f, 1) /\ f # <<>> BY <1>14, <1>16, <2>1, Zenon
  <2>3. Class(name) # "rm" BY <1>22
  <2> QED BY <1>26, <2>2, <2>3, Zenon
<1>23. CASE name \in {".pos", ".align"} /\ Class(name) = "directive"
  <2>1. FormsOf(name) = {<<"NUM">>} BY <1>23, FormsAre, Zenon
  <2>2. \A f \in FormsOf(name) : V(f, 1) /\ f # <<>> BY <1>14, <1>16, <2>1, Zenon
  <2>3. Class(name) # "rm" BY <1>23
  <2> QED BY <1>26, <2>2, <2>3, Zenon
<1>24. CASE name \in {"pushq", "popq"} /\ Class(name) = "register"
  <2>1. FormsOf(name) = {<<"REG">>} BY <1>24, FormsAre, Zenon
  <2>2. \A f \in FormsOf(name) : V(f, 1) /\ f # <<>> BY <1>14, <1>16, <2>1, Zenon
  <2>3. Class(name) # "rm" BY <1>24
  <2> QED BY <1>26, <2>2, <2>3, Zenon
<1>25. CASE name \in Halts /\ Class(name) = "alone"
  BY <1>15, <1>17, <1>25, FormsAre, Zenon
<1> QED BY <1>18, <1>19, <1>20, <1>21, <1>22, <1>23, <1>24, <1>25, Classes, Zenon

\* The operands are the tokens that the form goes over.
LEMMA OperandsAre ==
  ASSUME NEW line \in SourceLines, LabelOk(line), IsStatement(line), Name(line) \in InstrNames \cup {".pos", ".align"},
         HasForm(line)
  PROVE  \E form \in FormsOf(Name(line)) :
           /\ Matches(line, form) /\ form \in Seq(Kinds) /\ Len(form) \in Nat
           /\ FirstOf(line.tokens) + Len(form) <= Len(line.tokens)
           /\ DOMAIN Operands(line) = 1 .. Len(form) /\ Len(Operands(line)) = Len(form)
           /\ \A k \in 1 .. Len(form) : /\ Operands(line)[k] = TokenOf(line.tokens, FirstOf(line.tokens) + k)
                                        /\ Sees(line, k) = form[k]
<1> DEFINE toks == line.tokens
           f == FirstOf(toks)
           st == StatementOf(line)
           name == Name(line)
           F == CHOOSE form \in FormsOf(Name(line)) : Matches(line, form)
           m == Len(F)
<1>1. F \in FormsOf(name) /\ Matches(line, F) BY Zenon DEF HasForm
<1>2. ValueOnlyAt(F, ValueAt(Class(name))) BY <1>1, ValuePlaces
<1> HIDE DEF F
<1>3. F \in Seq(Kinds) /\ m \in Nat BY <1>2, LenProperties, Zenon DEF ValueOnlyAt
<1>4. \A j \in 1 .. m : Sees(line, j) = F[j] BY <1>1, <1>3, MatchesMeans, Zenon DEF Sees
<1>5. toks \in Seq(Tokens) /\ Len(toks) \in Nat /\ f \in {1, 3} /\ st \in Seq(Tokens) /\ Len(st) = Len(toks) - f + 1
  <2>1. toks \in Seq(Tokens) BY DEF SourceLines
  <2> QED BY <2>1, StatementAt, LenProperties
<1>6. \A k \in 1 .. Len(toks) - f + 1 : st[k] = toks[f + k - 1] BY StatementAt
<1> HIDE DEF toks, f, st
<1>7. m <= Len(toks) - f
  <2>1. m <= Len(Tail(Shape(StatementOf(line)))) BY <1>1, Zenon DEF Matches
  <2> QED BY <2>1, ShapeAt DEF toks, f
<1>8. Operands(line) = SubSeq(st, 2, 1 + m) BY Zenon DEF Operands, F, st
<1>9. /\ DOMAIN Operands(line) = 1 .. m /\ Len(Operands(line)) = m
      /\ \A k \in 1 .. m : Operands(line)[k] = toks[f + k] /\ toks[f + k] = TokenOf(toks, f + k)
  <2>1. \A k \in 2 .. 1 + m : st[k] \in Tokens BY <1>3, <1>5, <1>7, ElementOfSeq
  <2>2. /\ SubSeq(st, 2, 1 + m) \in Seq(Tokens) /\ Len(SubSeq(st, 2, 1 + m)) = m
        /\ \A k \in 1 .. m : SubSeq(st, 2, 1 + m)[k] = st[k + 1]
    <3> HIDE DEF Tokens, m
    <3>1. Len(SubSeq(st, 2, 1 + m)) = IF 2 <= 1 + m THEN (1 + m) - 2 + 1 ELSE 0
      BY <1>3, <2>1, SubSeqProperties
    <3>2. \A k \in 1 .. (1 + m) - 2 + 1 : SubSeq(st, 2, 1 + m)[k] = st[2 + k - 1]
      BY <1>3, <2>1, SubSeqProperties
    <3>3. SubSeq(st, 2, 1 + m) \in Seq(Tokens) BY <1>3, <2>1, SubSeqProperties
    <3> QED BY <1>3, <3>1, <3>2, <3>3
  <2>3. \A k \in 1 .. m : st[k + 1] = toks[f + k]
    <3> TAKE k \in 1 .. m
    <3>1. k + 1 \in 1 .. Len(toks) - f + 1 /\ f + (k + 1) - 1 = f + k BY <1>3, <1>5, <1>7
    <3> QED BY <1>6, <3>1
  <2>4. \A k \in 1 .. m : f + k <= Len(toks) BY <1>3, <1>5, <1>7
  <2>5. DOMAIN SubSeq(st, 2, 1 + m) = 1 .. m BY <2>2, LenProperties
  <2>6. \A k \in 1 .. m : Operands(line)[k] = toks[f + k] /\ toks[f + k] = TokenOf(toks, f + k)
    BY <1>8, <2>2, <2>3, <2>4, Zenon DEF TokenOf
  <2> QED BY <1>8, <2>2, <2>5, <2>6, Zenon
<1>10. f + m <= Len(toks) BY <1>3, <1>5, <1>7
<1>11. \A k \in 1 .. m : Operands(line)[k] = TokenOf(toks, f + k) BY <1>9, Zenon
<1> QED BY <1>1, <1>3, <1>4, <1>9, <1>10, <1>11, Zenon DEF toks, f

\* The operands name labels where the value of the form is.
Known(line, labels) ==
  LET at == FirstOf(line.tokens) + ValueAt(Class(Name(line))) IN
  Class(Name(line)) # "alone" /\ Look(line.tokens, at) = "IDENT" => TokenOf(line.tokens, at)[2] \in labels

LEMMA UsesMeans ==
  ASSUME NEW line \in SourceLines, LabelOk(line), IsStatement(line), Name(line) \in InstrNames \cup {".pos", ".align"},
         HasForm(line)
  PROVE  UsesLabels(line) <=> Known(line, Labels)
<1> DEFINE toks == line.tokens
           f == FirstOf(toks)
           name == Name(line)
           i == ValueAt(Class(name))
           Ident(k) == Look(toks, f + k) = "IDENT"
           Fine(k) == TokenOf(toks, f + k)[2] \in Labels
<1>1. PICK F \in FormsOf(name) :
        /\ Matches(line, F) /\ F \in Seq(Kinds) /\ Len(F) \in Nat /\ f + Len(F) <= Len(toks)
        /\ DOMAIN Operands(line) = 1 .. Len(F)
        /\ \A k \in 1 .. Len(F) : Operands(line)[k] = TokenOf(toks, f + k) /\ Sees(line, k) = F[k]
  BY OperandsAre, Zenon
<1> DEFINE m == Len(F)
<1>2. ValueOnlyAt(F, i) /\ (F = <<>> => Class(name) = "alone") BY ValuePlaces
<1>3. F \in Seq(Kinds) /\ m \in Nat BY <1>1, Zenon
<1>4. /\ \A j \in 1 .. m : Look(toks, f + j) = F[j]
      /\ name = "rmmovq" => ~GoesOn(F, Look(toks, f + m + 1))
  BY <1>1, <1>3, MatchesMeans
<1>5. toks \in Seq(Tokens) /\ Len(toks) \in Nat /\ f \in {1, 3}
  <2>1. toks \in Seq(Tokens) BY DEF SourceLines
  <2> QED BY <2>1, StatementAt, LenProperties
<1> HIDE DEF toks, f
<1>9. /\ DOMAIN Operands(line) = 1 .. m /\ f + m <= Len(toks)
      /\ \A k \in 1 .. m : Operands(line)[k] = TokenOf(toks, f + k)
  BY <1>1, Zenon
<1>10. \A k \in 1 .. m : TokenOf(toks, f + k)[1] = "IDENT" <=> Ident(k)
  <2> TAKE k \in 1 .. m
  <2>1. f + k \in Nat \ {0} /\ f + k <= Len(toks) BY <1>3, <1>5, <1>9
  <2>2. toks[f + k][1] = "IDENT" <=> Ident(k) BY <1>5, <2>1, LookKinds, Zenon
  <2> QED BY <2>1, <2>2, Zenon DEF TokenOf
<1>11. UsesLabels(line) <=> \A k \in 1 .. m : Ident(k) => Fine(k)
  BY <1>9, <1>10, Zenon DEF UsesLabels
<1>12. Known(line, Labels) <=> (Class(name) # "alone" /\ Ident(i) => Fine(i))
  BY Zenon DEF Known, toks, f
<1>13. \A k \in 1 .. m : Ident(k) => k = i
  <2> SUFFICES ASSUME NEW k \in 1 .. m, Ident(k) PROVE k = i OBVIOUS
  <2>1. F[k] = "IDENT" BY <1>4, Zenon
  <2>2. \A j \in 1 .. m : F[j] = "IDENT" => j = i BY <1>2, Zenon DEF ValueOnlyAt
  <2> QED BY <2>1, <2>2, Zenon
<1>14. Class(name) = "alone" => m = 0
  <2> SUFFICES ASSUME Class(name) = "alone" PROVE m = 0 OBVIOUS
  <2>1. name \in Halts BY Classes, Zenon
  <2>2. F = <<>> BY <1>1, <2>1, FormsAre, Zenon
  <2> QED BY <2>2
<1>15. ASSUME Class(name) # "alone", Ident(i) PROVE i \in 1 .. m
  <2>1. i \in {1, 3} BY DEF ValueAt
  <2>2. CASE i <= m BY <1>3, <2>1, <2>2
  <2>3. CASE F = <<"REG", ",">> /\ ~(i <= m)
    <3>1. m = 2 BY <2>3
    <3>a. F[m] = "," BY <2>3, <3>1
    <3>0. ~(i <= m) BY <2>3
    <3>2. i = 3
      <4> HIDE DEF i, m
      <4> QED BY <2>1, <3>0, <3>1
    <3>3. Class(name) = "rm" BY <3>2 DEF ValueAt
    <3>4. name = "rmmovq" BY <3>3, Classes, Zenon
    <3>5. f + m + 1 = f + i
      <4> HIDE DEF i, m
      <4> QED BY <1>5, <3>1, <3>2
    <3>6. ~GoesOn(F, "IDENT") BY <1>4, <1>15, <3>4, <3>5
    <3>7. <<"IDENT">> \in Values BY DEF Values
    <3> QED BY <3>a, <3>6, <3>7, Zenon DEF GoesOn
  <2> QED BY <1>2, <1>15, <2>2, <2>3, Zenon DEF ValueOnlyAt
<1>16. UsesLabels(line) => Known(line, Labels) BY <1>11, <1>12, <1>15, Zenon
<1>17. Known(line, Labels) => UsesLabels(line)
  <2> SUFFICES ASSUME Known(line, Labels), NEW k \in 1 .. m, Ident(k) PROVE Fine(k) BY <1>11, Zenon
  <2>1. k = i BY <1>13
  <2>2. Class(name) # "alone" BY <1>14
  <2> QED BY <1>12, <2>1, <2>2, Zenon
<1> QED BY <1>16, <1>17

-----------------------------------------------------------------------------
(* What the encoder finds in the operands. *)

\* An encoding.
Enc(cd, t, fl, pr) == [code |-> cd, tpos |-> t, failed |-> fl, printed |-> pr]

\* An encoding without errors that has come to a token, and one with an error.
OkAt(enc, t) == \E cd, fl, pr : enc = Enc(cd, t, fl, pr) /\ fl = FALSE /\ pr = TRUE
Bad(enc) == \E cd, t, fl, pr : enc = Enc(cd, t, fl, pr) /\ fl = TRUE

LEMMA OkOrBad ==
  ASSUME NEW enc, NEW t
  PROVE  /\ OkAt(enc, t) => enc.printed /\ ~enc.failed
         /\ Bad(enc) => ~(enc.printed /\ ~enc.failed)
<1>1. ASSUME OkAt(enc, t) PROVE enc.printed /\ ~enc.failed
  <2>1. PICK cd, fl, pr : enc = Enc(cd, t, fl, pr) /\ fl = FALSE /\ pr = TRUE BY <1>1, Zenon DEF OkAt
  <2>2. Enc(cd, t, fl, pr).printed = pr /\ Enc(cd, t, fl, pr).failed = fl BY DEF Enc
  <2> QED BY <2>1, <2>2, Zenon
<1>2. ASSUME Bad(enc) PROVE ~(enc.printed /\ ~enc.failed)
  <2>1. PICK cd, at, fl, pr : enc = Enc(cd, at, fl, pr) /\ fl = TRUE BY <1>2, Zenon DEF Bad
  <2>2. Enc(cd, at, fl, pr).failed = fl BY DEF Enc
  <2> QED BY <2>1, <2>2, Zenon
<1> QED BY <1>1, <1>2, Zenon

LEMMA Intro ==
  ASSUME NEW cd, NEW t, NEW fl, NEW pr
  PROVE  /\ fl = FALSE /\ pr = TRUE => OkAt(Enc(cd, t, fl, pr), t)
         /\ fl = TRUE => Bad(Enc(cd, t, fl, pr))
<1>1. fl = FALSE /\ pr = TRUE => OkAt(Enc(cd, t, fl, pr), t) BY Zenon DEF OkAt
<1>2. fl = TRUE => Bad(Enc(cd, t, fl, pr)) BY Zenon DEF Bad
<1> QED BY <1>1, <1>2, Zenon

\* The next token changes nothing of that, and a comma that is missing is an error.
LEMMA MovedOn ==
  ASSUME NEW enc, NEW t, NEW x
  PROVE  /\ OkAt(enc, t) => OkAt([enc EXCEPT !.tpos = x], x) /\ enc.tpos = t
         /\ Bad(enc) => Bad([enc EXCEPT !.tpos = x])
         /\ OkAt(enc, t) \/ Bad(enc) => Bad([Failed(enc) EXCEPT !.printed = FALSE])
<1>1. ASSUME OkAt(enc, t) PROVE OkAt([enc EXCEPT !.tpos = x], x) /\ enc.tpos = t
  <2>1. PICK cd, fl, pr : enc = Enc(cd, t, fl, pr) /\ fl = FALSE /\ pr = TRUE BY <1>1, Zenon DEF OkAt
  <2>2. OkAt(Enc(cd, x, fl, pr), x) BY <2>1, Intro, Zenon
  <2>3. enc = Enc(cd, t, fl, pr) BY <2>1, Zenon
  <2>4. [enc EXCEPT !.tpos = x] = Enc(cd, x, fl, pr) /\ enc.tpos = t BY <2>3 DEF Enc
  <2> QED BY <2>2, <2>4, Zenon
<1>2. ASSUME Bad(enc) PROVE Bad([enc EXCEPT !.tpos = x])
  <2>1. PICK cd, at, fl, pr : enc = Enc(cd, at, fl, pr) /\ fl = TRUE BY <1>2, Zenon DEF Bad
  <2>2. Bad(Enc(cd, x, fl, pr)) BY <2>1, Intro, Zenon
  <2>3. enc = Enc(cd, at, fl, pr) BY <2>1, Zenon
  <2>4. [enc EXCEPT !.tpos = x] = Enc(cd, x, fl, pr) BY <2>3 DEF Enc
  <2> QED BY <2>2, <2>4, Zenon
<1>3. ASSUME OkAt(enc, t) \/ Bad(enc) PROVE Bad([Failed(enc) EXCEPT !.printed = FALSE])
  <2>1. PICK cd, at, fl, pr : enc = Enc(cd, at, fl, pr) BY <1>3, Zenon DEF OkAt, Bad
  <2>2. ASSUME NEW yes, NEW no, yes = TRUE
        PROVE  Bad([[enc EXCEPT !.failed = yes] EXCEPT !.printed = no])
    <3>1. [enc EXCEPT !.failed = yes] = Enc(cd, at, yes, pr) BY <2>1 DEF Enc
    <3>2. [Enc(cd, at, yes, pr) EXCEPT !.printed = no] = Enc(cd, at, yes, no) BY DEF Enc
    <3>3. Bad(Enc(cd, at, yes, no)) BY <2>2, Intro, Zenon
    <3> QED BY <3>1, <3>2, <3>3, Zenon
  <2> QED BY <2>2, Zenon DEF Failed
<1> QED BY <1>1, <1>2, <1>3

\* The operands, one kind after the other, of an encoding whose error so far is fl.
RegCode(cd, t, arg) ==
  LET rval == find_register(Token(t)[2]) IN
  [cd EXCEPT ![arg.pos] = IF arg.hi = 1 THEN HPACK(rval, LO4(cd[arg.pos])) ELSE HPACK(HI4(cd[arg.pos]), rval)]
RegRead(cd, t, fl, pr, arg) ==
    IF Type(t) = "REG" THEN get_reg(Enc(cd, t, fl, pr), arg) = Enc(RegCode(cd, t, arg), t + 1, fl, pr)
    ELSE \E yes : yes = TRUE /\ get_reg(Enc(cd, t, fl, pr), arg) = Enc(cd, t, yes, pr)
LEMMA GetReg ==
  ASSUME NEW cd, NEW t, NEW fl, NEW pr, NEW arg
  PROVE  RegRead(cd, t, fl, pr, arg)
<1> DEFINE e == Enc(cd, t, fl, pr)
           x == IF arg.hi = 1 THEN HPACK(find_register(Token(e.tpos)[2]), LO4(e.code[arg.pos]))
                              ELSE HPACK(HI4(e.code[arg.pos]), find_register(Token(e.tpos)[2]))
<1>1. e.tpos = t /\ e.code = cd BY DEF Enc
<1>2. CASE Type(t) = "REG"
  <2> DEFINE p == arg.pos
  <2>6. [cd EXCEPT ![p] = x] = RegCode(cd, t, arg) BY <1>1 DEF RegCode
  <2>1. get_reg(e, arg) = [e EXCEPT !.tpos = e.tpos + 1, !.code[p] = x] BY <1>1, <1>2 DEF get_reg
  <2> HIDE DEF x, p
  <2>2. [e EXCEPT !.tpos = t + 1, !.code[p] = x] = [[e EXCEPT !.tpos = t + 1] EXCEPT !.code[p] = x] OBVIOUS
  <2>3. [e EXCEPT !.tpos = t + 1] = Enc(cd, t + 1, fl, pr) BY DEF Enc
  <2>4. [Enc(cd, t + 1, fl, pr) EXCEPT !.code[p] = x] = Enc([cd EXCEPT ![p] = x], t + 1, fl, pr) BY DEF Enc
  <2> HIDE DEF e
  <2>5. get_reg(e, arg) = Enc([cd EXCEPT ![p] = x], t + 1, fl, pr) BY <1>1, <2>1, <2>2, <2>3, <2>4, Zenon
  <2> QED BY <1>2, <2>5, <2>6, Zenon DEF RegRead, e
<1>3. CASE Type(t) # "REG"
  <2>1. get_reg(e, arg) = [e EXCEPT !.failed = TRUE] BY <1>1, <1>3, Zenon DEF get_reg, Failed
  <2> DEFINE yes == TRUE
  <2>2. yes = TRUE OBVIOUS
  <2>3. [e EXCEPT !.failed = TRUE] = [e EXCEPT !.failed = yes] OBVIOUS
  <2> HIDE DEF yes
  <2>4. [e EXCEPT !.failed = yes] = Enc(cd, t, yes, pr) BY DEF Enc
  <2> QED BY <1>3, <2>1, <2>2, <2>3, <2>4, Zenon DEF RegRead
<1> QED BY <1>2, <1>3, Zenon

NumCode(cd, t, arg) == Put(cd, arg.pos, arg.hi, Value(t))
NumRead(cd, t, fl, pr, arg, un) ==
    IF IsValue(t) THEN get_num(Enc(cd, t, fl, pr), arg) = Enc(NumCode(cd, t, arg), t + 1, un, pr)
    ELSE \E yes : yes = TRUE /\ get_num(Enc(cd, t, fl, pr), arg) = Enc(cd, t, yes, pr)
LEMMA GetNum ==
  ASSUME NEW cd, NEW t, NEW fl, NEW pr, NEW arg, NEW un, un = (fl \/ Unknown(t))
  PROVE  NumRead(cd, t, fl, pr, arg, un)
<1> DEFINE e == Enc(cd, t, fl, pr)
           c == Put(e.code, arg.pos, arg.hi, Value(e.tpos))
<1>1. e.tpos = t /\ e.failed = fl /\ e.code = cd BY DEF Enc
<1>2. CASE IsValue(t)
  <2>7. c = NumCode(cd, t, arg) BY <1>1, Zenon DEF NumCode
  <2>1. get_num(e, arg) = [e EXCEPT !.tpos = t + 1, !.failed = un, !.code = c]
    BY <1>1, <1>2, Zenon DEF get_num
  <2> HIDE DEF c
  <2>2. [e EXCEPT !.tpos = t + 1, !.failed = un, !.code = c] =
          [[[e EXCEPT !.tpos = t + 1] EXCEPT !.failed = un] EXCEPT !.code = c]
    OBVIOUS
  <2>3. [e EXCEPT !.tpos = t + 1] = Enc(cd, t + 1, fl, pr) BY DEF Enc
  <2>4. [Enc(cd, t + 1, fl, pr) EXCEPT !.failed = un] = Enc(cd, t + 1, un, pr) BY DEF Enc
  <2>5. [Enc(cd, t + 1, un, pr) EXCEPT !.code = c] = Enc(c, t + 1, un, pr) BY DEF Enc
  <2> HIDE DEF e
  <2>6. get_num(e, arg) = Enc(c, t + 1, un, pr) BY <2>1, <2>2, <2>3, <2>4, <2>5, Zenon
  <2> QED BY <1>2, <2>6, <2>7, Zenon DEF NumRead, e
<1>3. CASE ~IsValue(t)
  <2>1. get_num(e, arg) = [e EXCEPT !.failed = TRUE] BY <1>1, <1>3, Zenon DEF get_num, Failed
  <2> DEFINE yes == TRUE
  <2>2. yes = TRUE OBVIOUS
  <2>3. [e EXCEPT !.failed = TRUE] = [e EXCEPT !.failed = yes] OBVIOUS
  <2> HIDE DEF yes
  <2>4. [e EXCEPT !.failed = yes] = Enc(cd, t, yes, pr) BY DEF Enc
  <2> QED BY <1>3, <2>1, <2>2, <2>3, <2>4, Zenon DEF NumRead
<1> QED BY <1>2, <1>3, Zenon

Based(t) == IF IsValue(t) THEN t + 1 ELSE t
MemCode(cd, t, arg, rval) ==
  Put([cd EXCEPT ![arg.pos] = HPACK(HI4(cd[arg.pos]), rval)], arg.pos + 1, 8, IF IsValue(t) THEN Value(t) ELSE 0)
MemRead(cd, t, fl, pr, arg, un) ==
    LET b == Based(t)
    IN IF ~Punct(b, "(") THEN get_mem(Enc(cd, t, fl, pr), arg) = Enc(MemCode(cd, t, arg, REG_NONE), b, un, pr)
       ELSE IF Type(b + 1) = "REG" /\ Punct(b + 2, ")")
       THEN get_mem(Enc(cd, t, fl, pr), arg) =
              Enc(MemCode(cd, t, arg, find_register(Token(b + 1)[2])), b + 3, un, pr)
       ELSE \E at, yes : yes = TRUE /\ get_mem(Enc(cd, t, fl, pr), arg) = Enc(cd, at, yes, pr)
LEMMA GetMem ==
  ASSUME NEW cd, NEW t, NEW fl, NEW pr, NEW arg, NEW un, un = (fl \/ Unknown(t))
  PROVE  MemRead(cd, t, fl, pr, arg, un)
<1> DEFINE e == Enc(cd, t, fl, pr)
           b == Based(t)
           val == IF IsValue(t) THEN Value(t) ELSE 0
           after == [e EXCEPT !.failed = e.failed \/ Unknown(e.tpos)]
           Code(rval) == Put([e.code EXCEPT ![arg.pos] = HPACK(HI4(@), rval)], arg.pos + 1, 8, val)
           To(rval, at) == [after EXCEPT !.tpos = at, !.code = Code(rval)]
           FailedAt(at) == Failed([after EXCEPT !.tpos = at])
<1>1. e.tpos = t /\ e.failed = fl /\ e.code = cd BY DEF Enc
<1>c. \A rval : Code(rval) = MemCode(cd, t, arg, rval) BY <1>1 DEF MemCode
<1>2. after = Enc(cd, t, un, pr) BY <1>1 DEF Enc
<1> HIDE DEF e
<1>3. get_mem(e, arg) =
        CASE ~Punct(b, "(") -> To(REG_NONE, b)
          [] Punct(b, "(") /\ Type(b + 1) # "REG" -> FailedAt(b + 1)
          [] Punct(b, "(") /\ Type(b + 1) = "REG" /\ Punct(b + 2, ")") ->
               To(find_register(Token(b + 1)[2]), b + 3)
          [] OTHER -> FailedAt(IF Type(b + 2) = "PUNCT" THEN b + 3 ELSE b + 2)
  BY <1>1 DEF get_mem, Based
<1> HIDE DEF Code, b, after
<1>4. \A rval, at : To(rval, at) = Enc(Code(rval), at, un, pr)
  <2> TAKE rval, at
  <2> DEFINE c == Code(rval)
  <2> HIDE DEF c
  <2>1. [after EXCEPT !.tpos = at, !.code = c] = [[after EXCEPT !.tpos = at] EXCEPT !.code = c] OBVIOUS
  <2>2. [after EXCEPT !.tpos = at] = Enc(cd, at, un, pr) BY <1>2 DEF Enc
  <2>3. [Enc(cd, at, un, pr) EXCEPT !.code = c] = Enc(c, at, un, pr) BY DEF Enc
  <2> QED BY <2>1, <2>2, <2>3, Zenon DEF c
<1> DEFINE yes == TRUE
<1>y. yes = TRUE OBVIOUS
<1>5. \A at : FailedAt(at) = Enc(cd, at, yes, pr)
  <2> TAKE at
  <2>1. [after EXCEPT !.tpos = at] = Enc(cd, at, un, pr) BY <1>2 DEF Enc
  <2>2. FailedAt(at) = [[after EXCEPT !.tpos = at] EXCEPT !.failed = yes] BY DEF Failed
  <2> HIDE DEF yes, FailedAt
  <2>3. [Enc(cd, at, un, pr) EXCEPT !.failed = yes] = Enc(cd, at, yes, pr) BY DEF Enc
  <2> QED BY <2>1, <2>2, <2>3, Zenon
<1> HIDE DEF yes
<1> HIDE DEF To, FailedAt
<1>6. CASE ~Punct(b, "(") BY <1>3, <1>4, <1>6, <1>c, Zenon DEF MemRead, b, e
<1>7. CASE Punct(b, "(") /\ Type(b + 1) = "REG" /\ Punct(b + 2, ")")
  BY <1>3, <1>4, <1>7, <1>c, Zenon DEF MemRead, b, e
<1>8. CASE Punct(b, "(") /\ ~(Type(b + 1) = "REG" /\ Punct(b + 2, ")"))
  BY <1>3, <1>5, <1>8, <1>y, Zenon DEF MemRead, b, e
<1> QED BY <1>6, <1>7, <1>8, Zenon

\* What an operand of a kind asks of the tokens from t on, and where the next one is looked for.
ArgKinds == {"R_ARG", "M_ARG", "I_ARG", "NO_ARG"}
Good(kind, t) ==
  /\ kind = "R_ARG" => Type(t) = "REG"
  /\ kind = "I_ARG" => IsValue(t) /\ ~Unknown(t)
  /\ kind = "M_ARG" =>
       ~Unknown(t) /\ (Punct(Based(t), "(") => Type(Based(t) + 1) = "REG" /\ Punct(Based(t) + 2, ")"))
Past(kind, t) ==
  CASE kind \in {"R_ARG", "I_ARG"} -> t + 1
    [] kind = "M_ARG" -> IF Punct(Based(t), "(") THEN Based(t) + 3 ELSE Based(t)
    [] kind = "NO_ARG" -> t

LEMMA OperandReads ==
  ASSUME NEW enc, NEW t, OkAt(enc, t), NEW arg, arg.kind \in ArgKinds
  PROVE  IF Good(arg.kind, t) THEN OkAt(Operand(enc, arg), Past(arg.kind, t)) ELSE Bad(Operand(enc, arg))
<1>1. PICK cd, fl, pr : enc = Enc(cd, t, fl, pr) /\ fl = FALSE /\ pr = TRUE BY Zenon DEF OkAt
<1> DEFINE un == fl \/ Unknown(t)
<1>0. un = (fl \/ Unknown(t)) /\ (Unknown(t) => un = TRUE) /\ (~Unknown(t) => un = FALSE) BY <1>1 DEF Unknown
<1> HIDE DEF un
<1>2. CASE arg.kind = "R_ARG"
  <2>1. Operand(enc, arg) = get_reg(enc, arg) BY <1>2 DEF Operand
  <2>2. Past(arg.kind, t) = t + 1 /\ (Good(arg.kind, t) <=> Type(t) = "REG") BY <1>2 DEF Past, Good
  <2>3. IF Type(t) = "REG" THEN get_reg(enc, arg) = Enc(RegCode(cd, t, arg), t + 1, fl, pr)
        ELSE \E yes : yes = TRUE /\ get_reg(enc, arg) = Enc(cd, t, yes, pr)
    <3>1. RegRead(cd, t, fl, pr, arg) BY GetReg, Zenon
    <3> QED BY <1>1, <3>1, Zenon DEF RegRead
  <2> QED BY <1>1, <2>1, <2>2, <2>3, Zenon DEF OkAt, Bad
<1>3. CASE arg.kind = "I_ARG"
  <2>1. Operand(enc, arg) = get_num(enc, arg) BY <1>3 DEF Operand
  <2>2. Past(arg.kind, t) = t + 1 /\ (Good(arg.kind, t) <=> IsValue(t) /\ ~Unknown(t)) BY <1>3 DEF Past, Good
  <2>3. IF IsValue(t) THEN get_num(enc, arg) = Enc(NumCode(cd, t, arg), t + 1, un, pr)
        ELSE \E yes : yes = TRUE /\ get_num(enc, arg) = Enc(cd, t, yes, pr)
    <3>1. NumRead(cd, t, fl, pr, arg, un) BY <1>0, GetNum, Zenon
    <3> QED BY <1>1, <3>1, Zenon DEF NumRead
  <2> QED BY <1>0, <1>1, <2>1, <2>2, <2>3, Zenon DEF OkAt, Bad
<1>4. CASE arg.kind = "M_ARG"
  <2> DEFINE b == Based(t)
  <2>1. Operand(enc, arg) = get_mem(enc, arg) BY <1>4 DEF Operand
  <2>2. /\ Past(arg.kind, t) = IF Punct(b, "(") THEN b + 3 ELSE b
        /\ Good(arg.kind, t) <=> ~Unknown(t) /\ (Punct(b, "(") => Type(b + 1) = "REG" /\ Punct(b + 2, ")"))
    BY <1>4 DEF Past, Good
  <2>3. IF ~Punct(b, "(") THEN get_mem(enc, arg) = Enc(MemCode(cd, t, arg, REG_NONE), b, un, pr)
        ELSE IF Type(b + 1) = "REG" /\ Punct(b + 2, ")")
        THEN get_mem(enc, arg) = Enc(MemCode(cd, t, arg, find_register(Token(b + 1)[2])), b + 3, un, pr)
        ELSE \E at, yes : yes = TRUE /\ get_mem(enc, arg) = Enc(cd, at, yes, pr)
    <3>1. MemRead(cd, t, fl, pr, arg, un) BY <1>0, GetMem, Zenon
    <3> QED BY <1>1, <3>1, Zenon DEF MemRead
  <2> HIDE DEF b
  <2>4. CASE Good(arg.kind, t) BY <1>0, <1>1, <2>1, <2>2, <2>3, <2>4, Zenon DEF OkAt
  <2>5. CASE ~Good(arg.kind, t) BY <1>0, <1>1, <2>1, <2>2, <2>3, <2>5, Zenon DEF Bad
  <2> QED BY <2>4, <2>5, Zenon
<1>5. CASE arg.kind = "NO_ARG"
  <2>1. Operand(enc, arg) = enc /\ Past(arg.kind, t) = t /\ Good(arg.kind, t) BY <1>5 DEF Operand, Past, Good
  <2> QED BY <2>1, Zenon
<1> QED BY <1>2, <1>3, <1>4, <1>5, Zenon DEF ArgKinds

\* A failure is kept.
LEMMA BadStays ==
  ASSUME NEW enc, Bad(enc), NEW arg, arg.kind \in ArgKinds
  PROVE  Bad(Operand(enc, arg))
<1>1. PICK cd, t, fl, pr : enc = Enc(cd, t, fl, pr) /\ fl = TRUE BY Zenon DEF Bad
<1> DEFINE un == fl \/ Unknown(t)
<1>0. un = (fl \/ Unknown(t)) /\ un = TRUE BY <1>1
<1> HIDE DEF un
<1>2. CASE arg.kind = "R_ARG"
  <2>1. Operand(enc, arg) = get_reg(enc, arg) BY <1>2 DEF Operand
  <2>2. IF Type(t) = "REG" THEN get_reg(enc, arg) = Enc(RegCode(cd, t, arg), t + 1, fl, pr)
        ELSE \E yes : yes = TRUE /\ get_reg(enc, arg) = Enc(cd, t, yes, pr)
    <3>1. RegRead(cd, t, fl, pr, arg) BY GetReg, Zenon
    <3> QED BY <1>1, <3>1, Zenon DEF RegRead
  <2> QED BY <1>1, <2>1, <2>2, Zenon DEF Bad
<1>3. CASE arg.kind = "I_ARG"
  <2>1. Operand(enc, arg) = get_num(enc, arg) BY <1>3 DEF Operand
  <2>2. IF IsValue(t) THEN get_num(enc, arg) = Enc(NumCode(cd, t, arg), t + 1, un, pr)
        ELSE \E yes : yes = TRUE /\ get_num(enc, arg) = Enc(cd, t, yes, pr)
    <3>1. NumRead(cd, t, fl, pr, arg, un) BY <1>0, GetNum, Zenon
    <3> QED BY <1>1, <3>1, Zenon DEF NumRead
  <2> QED BY <1>0, <2>1, <2>2, Zenon DEF Bad
<1>4. CASE arg.kind = "M_ARG"
  <2> DEFINE b == Based(t)
  <2>1. Operand(enc, arg) = get_mem(enc, arg) BY <1>4 DEF Operand
  <2>2. IF ~Punct(b, "(") THEN get_mem(enc, arg) = Enc(MemCode(cd, t, arg, REG_NONE), b, un, pr)
        ELSE IF Type(b + 1) = "REG" /\ Punct(b + 2, ")")
        THEN get_mem(enc, arg) = Enc(MemCode(cd, t, arg, find_register(Token(b + 1)[2])), b + 3, un, pr)
        ELSE \E at, yes : yes = TRUE /\ get_mem(enc, arg) = Enc(cd, at, yes, pr)
    <3>1. MemRead(cd, t, fl, pr, arg, un) BY <1>0, GetMem, Zenon
    <3> QED BY <1>1, <3>1, Zenon DEF MemRead
  <2> QED BY <1>0, <2>1, <2>2, Zenon DEF Bad
<1>5. CASE arg.kind = "NO_ARG"
  <2>1. Operand(enc, arg) = enc BY <1>5 DEF Operand
  <2> QED BY <2>1, Zenon
<1> QED BY <1>2, <1>3, <1>4, <1>5, Zenon DEF ArgKinds

\* The encoding of a line is without errors if its operands are what the instruction asks for.
LEMMA EncodeReads ==
  ASSUME NEW instr, NEW t, instr.arg1.kind \in ArgKinds, instr.arg2.kind \in ArgKinds
  PROVE  LET k1 == instr.arg1.kind
             k2 == instr.arg2.kind
             comma == Past(k1, t)
         IN Encode(instr, t).printed /\ ~Encode(instr, t).failed <=>
              Good(k1, t) /\ (k2 # "NO_ARG" => Punct(comma, ",") /\ Good(k2, comma + 1))
<1> DEFINE k1 == instr.arg1.kind
           k2 == instr.arg2.kind
           comma == Past(k1, t)
           e0 == Enc(Opcode(instr), t, FALSE, TRUE)
           e1 == Operand(e0, instr.arg1)
           e2 == SecondOperand(e1, instr.arg2)
<1>1. Encode(instr, t) = e2 BY Zenon DEF Encode, Enc
<1>2. OkAt(e0, t)
  <2>1. ASSUME NEW no, NEW yes, no = FALSE, yes = TRUE PROVE OkAt(Enc(Opcode(instr), t, no, yes), t)
    BY <2>1, Intro, Zenon
  <2> QED BY <2>1, Zenon
<1> HIDE DEF e0
<1>3. IF Good(k1, t) THEN OkAt(e1, comma) ELSE Bad(e1) BY <1>2, OperandReads, Zenon
<1> HIDE DEF e1, comma
<1>4. CASE k2 = "NO_ARG"
  <2>1. e2 = e1 BY <1>4 DEF SecondOperand
  <2> HIDE DEF e2
  <2>2. e2.printed /\ ~e2.failed <=> Good(k1, t) BY <1>3, <2>1, OkOrBad, Zenon
  <2> QED BY <1>1, <1>4, <2>2, Zenon DEF comma
<1>5. CASE k2 # "NO_ARG"
  <2> DEFINE asked == Punct(e1.tpos, ",")
             moved == [e1 EXCEPT !.tpos = e1.tpos + 1]
  <2>1. e2 = IF asked THEN Operand(moved, instr.arg2) ELSE [Failed(e1) EXCEPT !.printed = FALSE]
    BY <1>5 DEF SecondOperand
  <2>2. ~asked => Bad(e2) BY <1>3, <2>1, MovedOn, Zenon
  <2>3. CASE Good(k1, t)
    <3>2. e1.tpos = comma BY <1>3, <2>3, MovedOn, Zenon
    <3>4. OkAt(moved, comma + 1) BY <1>3, <2>3, <3>2, MovedOn, Zenon
    <3> HIDE DEF moved
    <3>5. IF Good(k2, comma + 1) THEN OkAt(Operand(moved, instr.arg2), Past(k2, comma + 1))
          ELSE Bad(Operand(moved, instr.arg2))
      BY <3>4, OperandReads, Zenon
    <3> HIDE DEF e2
    <3>6. e2.printed /\ ~e2.failed <=> Punct(comma, ",") /\ Good(k2, comma + 1)
      BY <2>1, <2>2, <3>2, <3>5, OkOrBad, Zenon
    <3> QED BY <1>1, <1>5, <2>3, <3>6, Zenon DEF comma
  <2>4. CASE ~Good(k1, t)
    <3>3. Bad(moved) BY <1>3, <2>4, MovedOn, Zenon
    <3> HIDE DEF moved
    <3>4. Bad(Operand(moved, instr.arg2)) BY <3>3, BadStays, Zenon
    <3> HIDE DEF e2
    <3>5. ~(e2.printed /\ ~e2.failed) BY <2>1, <2>2, <3>4, OkOrBad, Zenon
    <3> QED BY <1>1, <2>4, <3>5, Zenon
  <2> QED BY <2>3, <2>4
<1> QED BY <1>4, <1>5, Zenon

\* What the encoder and the forms tell of a token is the same.
LEMMA Looks ==
  ASSUME tokens \in Seq(Tokens), NEW k \in Nat \ {0}
  PROVE  /\ \A c \in {"NUM", "IDENT", "REG", "INSTR"} : Type(k) = c <=> Look(tokens, k) = c
         /\ IsValue(k) <=> Look(tokens, k) \in {"NUM", "IDENT"}
         /\ \A c \in {"(", ")", ":", ","} : Punct(k, c) <=> Look(tokens, k) = c
<1>1. Token(k) = TokenOf(tokens, k) BY Zenon DEF Token, TokenOf
<1>2. Type(k) = TokenOf(tokens, k)[1] BY <1>1, Zenon DEF Type
<1>3. \A c \in {"NUM", "IDENT", "REG", "INSTR"} : Type(k) = c <=> Look(tokens, k) = c
  <2> TAKE c \in {"NUM", "IDENT", "REG", "INSTR"}
  <2>1. CASE k <= Len(tokens)
    <3>1. Type(k) = tokens[k][1] BY <1>2, <2>1, Zenon DEF TokenOf
    <3>2. /\ Look(tokens, k) \in {"NUM", "IDENT", "REG", "INSTR"} => tokens[k][1] = Look(tokens, k)
          /\ tokens[k][1] \in {"NUM", "IDENT", "REG", "INSTR"} => Look(tokens, k) = tokens[k][1]
      BY <2>1, LookKinds, Zenon
    <3> QED BY <3>1, <3>2, Zenon
  <2>2. CASE k > Len(tokens)
    <3>1. Look(tokens, k) = "ERR" /\ TokenOf(tokens, k)[1] = "ERR" BY <2>2, LookKinds, Zenon
    <3>2. c # "ERR" OBVIOUS
    <3> QED BY <1>2, <3>1, <3>2, Zenon
  <2>3. k <= Len(tokens) \/ k > Len(tokens)
    <3> HIDE DEF Tokens
    <3>1. Len(tokens) \in Nat BY LenProperties
    <3> QED BY <3>1
  <2> QED BY <2>1, <2>2, <2>3
<1>4. IsValue(k) <=> Look(tokens, k) \in {"NUM", "IDENT"} BY <1>3, Zenon DEF IsValue
<1>5. \A c \in {"(", ")", ":", ","} : Punct(k, c) <=> Look(tokens, k) = c
  BY <1>1, LookKinds, Zenon DEF Punct
<1> QED BY <1>3, <1>4, <1>5, Zenon

\* The symbols that are known, and whether the token k places after the name is none that is not.
SymbolNames == {symbol_table[s].name : s \in DOMAIN symbol_table}
KnownAt(line, k) ==
  Sees(line, k) = "IDENT" => TokenOf(line.tokens, FirstOf(line.tokens) + k)[2] \in SymbolNames
Beyond(line, k) ==
  IF Sees(line, k) \in {"NUM", "IDENT"} THEN IF Sees(line, k + 1) = "(" THEN k + 4 ELSE k + 1
  ELSE IF Sees(line, k) = "(" THEN k + 3 ELSE k

LEMMA GoodSeen ==
  ASSUME NEW line \in SourceLines, tokens = line.tokens, NEW k \in Nat \ {0}
  PROVE  /\ tpos0 = FirstOf(line.tokens)
         /\ Good("R_ARG", tpos0 + k) <=> Sees(line, k) = "REG"
         /\ Good("I_ARG", tpos0 + k) <=> Sees(line, k) \in {"NUM", "IDENT"} /\ KnownAt(line, k)
         /\ Good("M_ARG", tpos0 + k) <=> MemoryAt(line, k, k + 1, k + 2, k + 3) /\ KnownAt(line, k)
         /\ Good("NO_ARG", tpos0 + k)
         /\ \A kind \in {"R_ARG", "I_ARG"} : Past(kind, tpos0 + k) = tpos0 + (k + 1)
         /\ Past("M_ARG", tpos0 + k) = tpos0 + Beyond(line, k)
         /\ Past("NO_ARG", tpos0 + k) = tpos0 + k
<1> DEFINE f == FirstOf(line.tokens)
           S(i) == Sees(line, i)
           V == {"NUM", "IDENT"}
<1>0. f \in {1, 3} /\ \A i \in Nat : f + i + 1 = f + (i + 1) /\ f + i + 2 = f + (i + 2) /\ f + i + 3 = f + (i + 3)
  BY DEF FirstOf
<1>1. tokens \in Seq(Tokens) BY DEF SourceLines
<1>2. tpos0 = f /\ f \in {1, 3} BY DEF tpos0, FirstOf, Labelled, Type, Token, TokenOf
<1> HIDE DEF f
<1>3. \A i \in Nat \ {0} : Look(tokens, f + i) = S(i) BY Zenon DEF Sees, f
<1>4. \A i \in Nat \ {0} : f + i \in Nat \ {0} BY <1>2
<1>5. \A i \in Nat \ {0} :
        /\ Type(f + i) = "REG" <=> S(i) = "REG"
        /\ Type(f + i) = "IDENT" <=> S(i) = "IDENT"
        /\ IsValue(f + i) <=> S(i) \in V
        /\ \A c \in {"(", ")", ":", ","} : Punct(f + i, c) <=> S(i) = c
  BY <1>1, <1>3, <1>4, Looks, Zenon
<1> HIDE DEF S, V
<1>6. ~Unknown(f + k) <=> KnownAt(line, k)
  <2>1. Token(f + k) = TokenOf(line.tokens, f + k) BY Zenon DEF Token, TokenOf
  <2> QED BY <1>5, <2>1, Zenon DEF Unknown, KnownAt, SymbolNames, S, f
<1>7. Based(f + k) = IF S(k) \in V THEN f + (k + 1) ELSE f + k
  BY <1>0, <1>5, Zenon DEF Based
<1>k. k + 1 \in Nat \ {0} /\ k + 2 \in Nat \ {0} /\ k + 3 \in Nat \ {0} /\ k \in Nat
      /\ k + 1 + 1 = k + 2 /\ k + 1 + 2 = k + 3 /\ k + 1 + 3 = k + 4
  OBVIOUS
<1>8. Good("R_ARG", f + k) <=> S(k) = "REG" BY <1>5, Zenon DEF Good
<1>9. Good("I_ARG", f + k) <=> S(k) \in V /\ KnownAt(line, k) BY <1>5, <1>6 DEF Good
<1>10. Good("M_ARG", f + k) <=> MemoryAt(line, k, k + 1, k + 2, k + 3) /\ KnownAt(line, k)
  <2>1. Good("M_ARG", f + k) <=>
          /\ ~Unknown(f + k)
          /\ Punct(Based(f + k), "(") => Type(Based(f + k) + 1) = "REG" /\ Punct(Based(f + k) + 2, ")")
    BY Zenon DEF Good
  <2>2. CASE S(k) \in V
    <3>1. /\ Based(f + k) = f + (k + 1) /\ Based(f + k) + 1 = f + (k + 2) /\ Based(f + k) + 2 = f + (k + 3)
      BY <1>0, <1>7, <1>k, <2>2, Zenon
    <3> QED BY <1>5, <1>6, <1>k, <2>1, <2>2, <3>1, Zenon DEF MemoryAt, S, V
  <2>3. CASE S(k) \notin V
    <3>1. /\ Based(f + k) = f + k /\ Based(f + k) + 1 = f + (k + 1) /\ Based(f + k) + 2 = f + (k + 2)
      BY <1>0, <1>7, <1>k, <2>3, Zenon
    <3> QED BY <1>5, <1>6, <1>k, <2>1, <2>3, <3>1, Zenon DEF MemoryAt, S, V
  <2> QED BY <2>2, <2>3
<1>11. Good("NO_ARG", f + k) BY DEF Good
<1>12. \A kind \in {"R_ARG", "I_ARG"} : Past(kind, f + k) = f + (k + 1)
  BY <1>0, <1>k DEF Past
<1>13. Past("NO_ARG", f + k) = f + k BY DEF Past
<1>14. Past("M_ARG", f + k) = f + Beyond(line, k)
  <2>1. Past("M_ARG", f + k) = IF Punct(Based(f + k), "(") THEN Based(f + k) + 3 ELSE Based(f + k)
    BY DEF Past
  <2>2. CASE S(k) \in V
    <3>1. Based(f + k) = f + (k + 1) /\ Based(f + k) + 3 = f + (k + 4)
      BY <1>0, <1>7, <1>k, <2>2
    <3> QED BY <1>5, <1>k, <2>1, <2>2, <3>1, Zenon DEF Beyond, S, V
  <2>3. CASE S(k) \notin V
    <3>1. Based(f + k) = f + k /\ Based(f + k) + 3 = f + (k + 3)
      BY <1>0, <1>7, <1>k, <2>3
    <3> QED BY <1>5, <2>1, <2>3, <3>1, Zenon DEF Beyond, S, V
  <2> QED BY <2>2, <2>3
<1> QED BY <1>2, <1>8, <1>9, <1>10, <1>11, <1>12, <1>13, <1>14, Zenon DEF S, V, f

\* The operands an instruction takes, by its class.
LEMMA RowKinds ==
  LET Takes2(nm, k1, k2) == find_instr(nm).arg1.kind = k1 /\ find_instr(nm).arg2.kind = k2 IN
  /\ Takes2("rmmovq", "R_ARG", "M_ARG") /\ Takes2("mrmovq", "M_ARG", "R_ARG")
  /\ \A nm \in {"irmovq", "iaddq"} : Takes2(nm, "I_ARG", "R_ARG")
  /\ \A nm \in VNames : Takes2(nm, "I_ARG", "NO_ARG")
  /\ \A nm \in RNames : Takes2(nm, "R_ARG", "R_ARG")
  /\ \A nm \in {"pushq", "popq"} : Takes2(nm, "R_ARG", "NO_ARG")
  /\ \A nm \in Halts : Takes2(nm, "NO_ARG", "NO_ARG")
<1>1. find_instr("rmmovq").arg1.kind = "R_ARG" /\ find_instr("rmmovq").arg2.kind = "M_ARG"
  BY DEF find_instr, Row, HiReg, LoReg, Memory, NoArg, Imm, Arg, Moves, Alus, Jumps, Allocations
<1>2. find_instr("mrmovq").arg1.kind = "M_ARG" /\ find_instr("mrmovq").arg2.kind = "R_ARG"
  BY DEF find_instr, Row, HiReg, LoReg, Memory, NoArg, Imm, Arg, Moves, Alus, Jumps, Allocations
<1>3. ASSUME NEW nm \in {"irmovq", "iaddq"}
      PROVE  find_instr(nm).arg1.kind = "I_ARG" /\ find_instr(nm).arg2.kind = "R_ARG"
  BY DEF find_instr, Row, HiReg, LoReg, Memory, NoArg, Imm, Arg, Moves, Alus, Jumps, Allocations
<1>4. ASSUME NEW nm \in VNames PROVE find_instr(nm).arg1.kind = "I_ARG" /\ find_instr(nm).arg2.kind = "NO_ARG"
  BY DEF find_instr, Row, HiReg, LoReg, Memory, NoArg, Imm, Arg, Moves, Alus, Jumps, Allocations, VNames
<1>5. ASSUME NEW nm \in RNames PROVE find_instr(nm).arg1.kind = "R_ARG" /\ find_instr(nm).arg2.kind = "R_ARG"
  BY DEF find_instr, Row, HiReg, LoReg, Memory, NoArg, Imm, Arg, Moves, Alus, Jumps, Allocations, RNames
<1>6. ASSUME NEW nm \in {"pushq", "popq"}
      PROVE  find_instr(nm).arg1.kind = "R_ARG" /\ find_instr(nm).arg2.kind = "NO_ARG"
  BY DEF find_instr, Row, HiReg, LoReg, Memory, NoArg, Imm, Arg, Moves, Alus, Jumps, Allocations
<1>7. ASSUME NEW nm \in Halts PROVE find_instr(nm).arg1.kind = "NO_ARG" /\ find_instr(nm).arg2.kind = "NO_ARG"
  BY DEF find_instr, Row, HiReg, LoReg, Memory, NoArg, Imm, Arg, Moves, Alus, Jumps, Allocations, Halts
<1> QED BY <1>1, <1>2, <1>3, <1>4, <1>5, <1>6, <1>7, Zenon

\* The encoder finds no error in a line exactly if the line has a form of its instruction, with
\* no name in it that is unknown.
LEMMA EncodeParsed ==
  ASSUME NEW line \in SourceLines, tokens = line.tokens, Mnemonic = Name(line), Name(line) \in InstrNames
  PROVE  LET enc == Encode(find_instr(Mnemonic), tpos0 + 1)
         IN enc.printed /\ ~enc.failed <=> Formed(line, Class(Name(line))) /\ Known(line, SymbolNames)
<1> DEFINE name == Name(line)
           S(i) == Sees(line, i)
           V == {"NUM", "IDENT"}
           enc == Encode(find_instr(name), tpos0 + 1)
           Fine == enc.printed /\ ~enc.failed
           K(i) == KnownAt(line, i)
           G(kind, i) == Good(kind, tpos0 + i)
           P(kind, i) == Past(kind, tpos0 + i)
           Takes2(k1, k2) == find_instr(name).arg1.kind = k1 /\ find_instr(name).arg2.kind = k2
<1>0. \A i \in Nat \ {0} : tpos0 + i + 1 = tpos0 + (i + 1) BY DEF tpos0
<1>a. /\ \A i \in Nat \ {0} : G("R_ARG", i) <=> S(i) = "REG"
      /\ \A i \in Nat \ {0} : G("I_ARG", i) <=> S(i) \in V /\ K(i)
      /\ \A i \in Nat \ {0} : G("M_ARG", i) <=> MemoryAt(line, i, i + 1, i + 2, i + 3) /\ K(i)
      /\ \A i \in Nat \ {0} : G("NO_ARG", i)
      /\ \A i \in Nat \ {0} : P("R_ARG", i) = tpos0 + (i + 1)
      /\ \A i \in Nat \ {0} : P("I_ARG", i) = tpos0 + (i + 1)
      /\ \A i \in Nat \ {0} : P("M_ARG", i) = tpos0 + Beyond(line, i)
      /\ \A i \in Nat \ {0} : P("NO_ARG", i) = tpos0 + i
  BY GoodSeen, Zenon
<1>b. \A i \in Nat \ {0} : Punct(tpos0 + i, ",") <=> S(i) = ","
  <2>1. tokens \in Seq(Tokens) BY DEF SourceLines
  <2>2. tpos0 = FirstOf(line.tokens) /\ tpos0 \in {1, 3} BY GoodSeen DEF tpos0
  <2> TAKE i \in Nat \ {0}
  <2>3. tpos0 + i \in Nat \ {0} BY <2>2
  <2>4. Punct(tpos0 + i, ",") <=> Look(tokens, tpos0 + i) = "," BY <2>1, <2>3, Looks, Zenon
  <2> QED BY <2>2, <2>4, Zenon DEF Sees
<1>c. \A k1, k2 \in ArgKinds :
        Takes2(k1, k2) =>
          (Fine <=> G(k1, 1) /\ (k2 # "NO_ARG" => Punct(P(k1, 1), ",") /\ Good(k2, P(k1, 1) + 1)))
  BY EncodeReads, Zenon
<1>d. Known(line, SymbolNames) <=> (Class(name) # "alone" => K(ValueAt(Class(name))))
  BY Zenon DEF Known, KnownAt, Sees
<1>e. "R_ARG" \in ArgKinds /\ "M_ARG" \in ArgKinds /\ "I_ARG" \in ArgKinds /\ "NO_ARG" \in ArgKinds BY DEF ArgKinds
<1>f. 1 \in Nat \ {0} /\ 2 \in Nat \ {0} /\ 3 \in Nat \ {0} /\ 4 \in Nat \ {0} /\ 5 \in Nat \ {0}
      /\ 1 + 1 = 2 /\ 1 + 2 = 3 /\ 1 + 3 = 4 /\ 2 + 1 = 3 /\ 3 + 1 = 4 /\ 3 + 2 = 5 /\ 3 + 3 = 6
      /\ 1 + 4 = 5 /\ 4 + 1 = 5
      /\ 5 + 1 = 6
  OBVIOUS
<1>g. S(1) = "REG" => K(1) BY DEF KnownAt
<1>h. P("R_ARG", 1) = tpos0 + 2 /\ P("I_ARG", 1) = tpos0 + 2 /\ tpos0 + 2 + 1 = tpos0 + 3
  <2>1. P("R_ARG", 1) = tpos0 + (1 + 1) /\ P("I_ARG", 1) = tpos0 + (1 + 1) BY <1>a, <1>f, Zenon
  <2>2. tpos0 + (1 + 1) = tpos0 + 2 /\ tpos0 + 2 + 1 = tpos0 + 3 BY DEF tpos0
  <2> HIDE DEF P
  <2> QED BY <2>1, <2>2, Zenon
<1> HIDE DEF S, K, G, P, Fine
<1>1. CASE name = "rmmovq" /\ Class(name) = "rm"
  <2>1. Takes2("R_ARG", "M_ARG") BY <1>1, RowKinds, Zenon
  <2>2. Fine <=> G("R_ARG", 1) /\ Punct(P("R_ARG", 1), ",") /\ Good("M_ARG", P("R_ARG", 1) + 1)
    <3>1. "M_ARG" # "NO_ARG" OBVIOUS
    <3> QED BY <1>c, <1>e, <2>1, <3>1, Zenon
  <2>3. P("R_ARG", 1) = tpos0 + 2 /\ P("R_ARG", 1) + 1 = tpos0 + 3 BY <1>h, Zenon
  <2>4. Fine <=> S(1) = "REG" /\ S(2) = "," /\ MemoryAt(line, 3, 4, 5, 6) /\ K(3)
    BY <1>a, <1>b, <1>f, <2>2, <2>3, Zenon DEF G
  <2>5. Formed(line, "rm") <=> S(1) = "REG" /\ S(2) = "," /\ MemoryAt(line, 3, 4, 5, 6) BY DEF Formed, S
  <2>6. ValueAt("rm") = 3 /\ "rm" # "alone" BY DEF ValueAt
  <2> QED BY <1>1, <1>d, <2>4, <2>5, <2>6, Zenon DEF Fine
<1>2. CASE name = "mrmovq" /\ Class(name) = "mr"
  <2>1. Takes2("M_ARG", "R_ARG") BY <1>2, RowKinds, Zenon
  <2> DEFINE b == Beyond(line, 1)
  <2>2. Fine <=> G("M_ARG", 1) /\ Punct(P("M_ARG", 1), ",") /\ Good("R_ARG", P("M_ARG", 1) + 1)
    <3>1. "R_ARG" # "NO_ARG" OBVIOUS
    <3> QED BY <1>c, <1>e, <2>1, <3>1, Zenon
  <2>3. b = IF S(1) \in V THEN IF S(2) = "(" THEN 5 ELSE 2 ELSE IF S(1) = "(" THEN 4 ELSE 1
    BY <1>f, Zenon DEF Beyond, S
  <2>4. b \in Nat \ {0} BY <1>f, <2>3, Zenon
  <2>5. P("M_ARG", 1) = tpos0 + b /\ P("M_ARG", 1) + 1 = tpos0 + (b + 1) BY <1>0, <1>a, <1>f, <2>4, Zenon
  <2>6. b + 1 \in Nat \ {0} BY <2>4
  <2>7. Fine <=> MemoryAt(line, 1, 2, 3, 4) /\ K(1) /\ S(b) = "," /\ S(b + 1) = "REG"
    BY <1>a, <1>b, <1>f, <2>2, <2>4, <2>5, <2>6, ZenonT(60) DEF G
  <2>8. Formed(line, "mr") <=>
          /\ MemoryAt(line, 1, 2, 3, 4)
          /\ IF S(1) \in V THEN IF S(2) = "(" THEN S(5) = "," /\ S(6) = "REG" ELSE S(2) = "," /\ S(3) = "REG"
             ELSE IF S(1) = "(" THEN S(4) = "," /\ S(5) = "REG" ELSE S(1) = "," /\ S(2) = "REG"
    BY DEF Formed, S
  <2>9. ValueAt("mr") = 1 /\ "mr" # "alone" BY DEF ValueAt
  <2> HIDE DEF b
  <2>10. S(b) = "," /\ S(b + 1) = "REG" <=>
           IF S(1) \in V THEN IF S(2) = "(" THEN S(5) = "," /\ S(6) = "REG" ELSE S(2) = "," /\ S(3) = "REG"
           ELSE IF S(1) = "(" THEN S(4) = "," /\ S(5) = "REG" ELSE S(1) = "," /\ S(2) = "REG"
    BY <1>f, <2>3, Zenon
  <2> QED BY <1>2, <1>d, <2>7, <2>8, <2>9, <2>10, Zenon DEF Fine
<1>3. CASE name \in {"irmovq", "iaddq"} /\ Class(name) = "value to register"
  <2>1. Takes2("I_ARG", "R_ARG") BY <1>3, RowKinds, Zenon
  <2>2. Fine <=> G("I_ARG", 1) /\ Punct(P("I_ARG", 1), ",") /\ Good("R_ARG", P("I_ARG", 1) + 1)
    <3>1. "R_ARG" # "NO_ARG" OBVIOUS
    <3> QED BY <1>c, <1>e, <2>1, <3>1, Zenon
  <2>3. P("I_ARG", 1) = tpos0 + 2 /\ P("I_ARG", 1) + 1 = tpos0 + 3 BY <1>h, Zenon
  <2>4. Fine <=> S(1) \in V /\ K(1) /\ S(2) = "," /\ S(3) = "REG" BY <1>a, <1>b, <1>f, <2>2, <2>3, Zenon DEF G
  <2>5. Formed(line, "value to register") <=> S(1) \in V /\ S(2) = "," /\ S(3) = "REG" BY DEF Formed, S
  <2>6. ValueAt("value to register") = 1 /\ "value to register" # "alone" BY DEF ValueAt
  <2> QED BY <1>3, <1>d, <2>4, <2>5, <2>6, Zenon DEF Fine
<1>4. CASE name \in VNames /\ Class(name) = "value"
  <2>1. Takes2("I_ARG", "NO_ARG") BY <1>4, RowKinds, Zenon
  <2>2. Fine <=> S(1) \in V /\ K(1) BY <1>a, <1>c, <1>e, <1>f, <2>1, Zenon
  <2>3. Formed(line, "value") <=> S(1) \in V BY DEF Formed, S
  <2>4. ValueAt("value") = 1 /\ "value" # "alone" BY DEF ValueAt
  <2> QED BY <1>4, <1>d, <2>2, <2>3, <2>4, Zenon DEF Fine
<1>5. CASE name \in RNames /\ Class(name) = "register to register"
  <2>1. Takes2("R_ARG", "R_ARG") BY <1>5, RowKinds, Zenon
  <2>2. Fine <=> G("R_ARG", 1) /\ Punct(P("R_ARG", 1), ",") /\ Good("R_ARG", P("R_ARG", 1) + 1)
    <3>1. "R_ARG" # "NO_ARG" OBVIOUS
    <3> QED BY <1>c, <1>e, <2>1, <3>1, Zenon
  <2>3. P("R_ARG", 1) = tpos0 + 2 /\ P("R_ARG", 1) + 1 = tpos0 + 3 BY <1>h, Zenon
  <2>4. Fine <=> S(1) = "REG" /\ S(2) = "," /\ S(3) = "REG" BY <1>a, <1>b, <1>f, <2>2, <2>3, Zenon DEF G
  <2>5. Formed(line, "register to register") <=> S(1) = "REG" /\ S(2) = "," /\ S(3) = "REG" BY DEF Formed, S
  <2>6. ValueAt("register to register") = 1 /\ "register to register" # "alone" BY DEF ValueAt
  <2> QED BY <1>5, <1>d, <1>g, <2>4, <2>5, <2>6, Zenon DEF Fine
<1>6. CASE name \in {"pushq", "popq"} /\ Class(name) = "register"
  <2>1. Takes2("R_ARG", "NO_ARG") BY <1>6, RowKinds, Zenon
  <2>2. Fine <=> S(1) = "REG" BY <1>a, <1>c, <1>e, <1>f, <2>1, Zenon
  <2>3. Formed(line, "register") <=> S(1) = "REG" BY DEF Formed, S
  <2>4. ValueAt("register") = 1 /\ "register" # "alone" BY DEF ValueAt
  <2> QED BY <1>6, <1>d, <1>g, <2>2, <2>3, <2>4, Zenon DEF Fine
<1>7. CASE name \in Halts /\ Class(name) = "alone"
  <2>1. Takes2("NO_ARG", "NO_ARG") BY <1>7, RowKinds, Zenon
  <2>2. Fine BY <1>a, <1>c, <1>e, <1>f, <2>1, Zenon
  <2>3. Formed(line, "alone") BY DEF Formed
  <2> QED BY <1>7, <1>d, <2>2, <2>3, Zenon DEF Fine
<1>8. ~(name \in {".pos", ".align"})
  BY DEF InstrNames, Moves, Jumps, Alus, Allocations
<1>9. name \in InstrNames \cup {".pos", ".align"} OBVIOUS
<1> QED BY <1>1, <1>2, <1>3, <1>4, <1>5, <1>6, <1>7, <1>8, <1>9, Classes, Zenon

-----------------------------------------------------------------------------
(* Where a line goes: finish_line moves as the meaning of the line says.     *)

\* Division with a remainder.
LEMMA DivMod ==
  ASSUME NEW x \in Int, NEW n \in Nat \ {0}
  PROVE  x \div n \in Int /\ x % n \in Int /\ x = n * (x \div n) + (x % n) /\ 0 <= x % n /\ x % n < n
OBVIOUS

\* Multiples of a number that are nearer to each other than it are the same.
LEMMA Close ==
  ASSUME NEW n \in Nat \ {0}, NEW a \in Int, NEW b \in Int, a * n - b * n < n, b * n - a * n < n
  PROVE  a = b
<1>1. CASE a < b
  <2>1. PICK d \in Nat : b = a + 1 + d BY <1>1
  <2>2. b * n = a * n + n + d * n BY <2>1
  <2>3. d * n >= 0 BY <2>1
  <2> QED BY <2>2, <2>3
<1>2. CASE b < a
  <2>1. PICK d \in Nat : a = b + 1 + d BY <1>2
  <2>2. a * n = b * n + n + d * n BY <2>1
  <2>3. d * n >= 0 BY <2>1
  <2> QED BY <2>2, <2>3
<1> QED BY <1>1, <1>2

LEMMA TimesMod ==
  ASSUME NEW n \in Nat \ {0}, NEW k \in Int
  PROVE  (k * n) % n = 0
<1> DEFINE x == k * n
           q == x \div n
           r == x % n
<1>1. x \in Int OBVIOUS
<1>2. q \in Int /\ r \in Int /\ x = n * q + r /\ 0 <= r /\ r < n BY <1>1, DivMod
<1> HIDE DEF q, r
<1>3. k * n - q * n < n /\ q * n - k * n < n BY <1>2
<1>4. k = q BY <1>2, <1>3, Close
<1> QED BY <1>2, <1>4 DEF q, r

\* There is one multiple of n among n numbers in a row.
LEMMA MultipleIs ==
  ASSUME NEW n \in Nat \ {0}, NEW lo \in Int, NEW k \in Int, lo <= k * n, k * n < lo + n
  PROVE  Multiple(n, lo) = k * n
<1> DEFINE q == (-lo) \div n
           r == (-lo) % n
           j == -q
<1>1. -lo \in Int OBVIOUS
<1>2. q \in Int /\ r \in Int /\ -lo = n * q + r /\ 0 <= r /\ r < n BY <1>1, DivMod
<1>3. Multiple(n, lo) = lo + r BY Zenon DEF Multiple
<1> HIDE DEF q, r
<1>4. j \in Int /\ lo + r = j * n
  <2>1. j * n = -(n * q) BY <1>2
  <2> QED BY <1>2, <2>1
<1> HIDE DEF j
<1>5. j * n - k * n < n /\ k * n - j * n < n BY <1>2, <1>4
<1>6. j = k BY <1>4, <1>5, Close
<1> QED BY <1>3, <1>4, <1>6

\* yas aligns at a multiple, with the division of C, unless the sum overflows.
LEMMA AlignedIs ==
  ASSUME NEW pos \in Int, NEW n \in Nat \ {0}, pos <= INT_MAX - n + 1
  PROVE  Aligned(pos, n) = Multiple(n, IF pos > -n THEN pos ELSE pos + n - 1)
<1> DEFINE x == pos + n - 1
<1>0. Plus(pos, n - 1) = x
  <2>1. n - 1 \in Nat /\ INT_MAX \in Int BY SMT DEF INT_MAX
  <2>2. pos + (n - 1) <= INT_MAX BY <2>1
  <2>3. Plus(pos, n - 1) = pos + (n - 1) BY <2>1, <2>2, PlusInt
  <2> QED BY <2>1, <2>3
<1>a. Aligned(pos, n) = Quotient(x, n) * n BY <1>0, Zenon DEF Aligned
<1>1. CASE pos > -n
  <2> DEFINE q == x \div n
             r == x % n
  <2>1. x \in Int /\ x >= 0 BY <1>1
  <2>2. q \in Int /\ r \in Int /\ x = n * q + r /\ 0 <= r /\ r < n BY <2>1, DivMod
  <2>3. Aligned(pos, n) = q * n BY <1>a, <2>1 DEF Quotient
  <2> HIDE DEF q, r
  <2>4. pos <= q * n /\ q * n < pos + n BY <2>2
  <2>5. Multiple(n, pos) = q * n BY <2>2, <2>4, MultipleIs
  <2> QED BY <1>1, <2>3, <2>5
<1>2. CASE ~(pos > -n)
  <2> DEFINE y == x + (n - 1)
             q == y \div n
             r == y % n
  <2>1. x \in Int /\ x < 0 /\ y \in Int BY <1>2
  <2>2. q \in Int /\ r \in Int /\ y = n * q + r /\ 0 <= r /\ r < n BY <2>1, DivMod
  <2>3. Aligned(pos, n) = q * n BY <1>a, <2>1 DEF Quotient
  <2> HIDE DEF q, r
  <2>4. x <= q * n /\ q * n < x + n BY <2>1, <2>2
  <2> HIDE DEF x, y
  <2>5. Multiple(n, x) = q * n BY <2>1, <2>2, <2>4, MultipleIs
  <2> QED BY <1>2, <2>3, <2>5 DEF x
<1> QED BY <1>1, <1>2

\* The bytes of an instruction: of what it allocates, or one, one of registers and eight of a word.
LEMMA SizeOfRow ==
  ASSUME NEW name \in InstrNames
  PROVE  /\ find_instr(name).bytes =
              IF name \in DOMAIN Allocations THEN Allocations[name]
              ELSE 1 + (IF name \in WithRegisters THEN 1 ELSE 0) + (IF name \in WithWord THEN 8 ELSE 0)
         /\ find_instr(name).bytes \in Nat
<1>1. find_instr(name).bytes \in Nat BY BytesAreNat
<1>2. CASE name \in DOMAIN Allocations
  BY <1>2 DEF find_instr, Row, Moves, Jumps, Alus, Allocations
<1>3. CASE name \notin DOMAIN Allocations
  <2> DEFINE b == find_instr(name).bytes
  <2>1. CASE name \in DOMAIN Moves
    BY <2>1 DEF find_instr, Row, Moves, Jumps, Alus, Allocations, WithRegisters, WithWord
  <2>2. CASE name \in DOMAIN Alus
    BY <2>2 DEF find_instr, Row, Moves, Jumps, Alus, Allocations, WithRegisters, WithWord
  <2>3. CASE name \in DOMAIN Jumps
    BY <2>3 DEF find_instr, Row, Moves, Jumps, Alus, Allocations, WithRegisters, WithWord
  <2>4. CASE name \in {"irmovq", "rmmovq", "mrmovq", "iaddq"}
    BY <2>4 DEF find_instr, Row, Moves, Jumps, Alus, Allocations, WithRegisters, WithWord
  <2>5. CASE name \in {"nop", "halt", "call", "ret", "pushq", "popq"}
    BY <2>5 DEF find_instr, Row, Moves, Jumps, Alus, Allocations, WithRegisters, WithWord
  <2> QED BY <1>3, <2>1, <2>2, <2>3, <2>4, <2>5, Zenon DEF InstrNames
<1> QED BY <1>1, <1>2, <1>3

\* The tokens that finish_line looks at are those of the statement.
LEMMA StatementTokens ==
  ASSUME NEW line \in SourceLines, LabelOk(line)
  PROVE  LET toks == line.tokens
             f == FirstOf(toks)
         IN /\ IsStatement(line) => /\ StatementOf(line)[1] = TokenOf(toks, f) /\ Name(line) = TokenOf(toks, f)[2]
                                    /\ TokenOf(toks, f) \in Tokens
            /\ IsStatement(line) /\ Sees(line, 1) = "NUM" =>
                 Number(line) = TokenOf(toks, f + 1)[2] /\ TokenOf(toks, f + 1)[1] = "NUM" /\ Number(line) \in Int
            /\ ~IsStatement(line) => TokenOf(toks, f)[1] = "ERR"
<1> DEFINE toks == line.tokens
           f == FirstOf(toks)
           st == StatementOf(line)
<1>1. toks \in Seq(Tokens) /\ Len(toks) \in Nat BY DEF SourceLines
<1>2. /\ f \in {1, 3} /\ st \in Seq(Tokens) /\ Len(st) = Len(toks) - f + 1
      /\ \A k \in 1 .. Len(toks) - f + 1 : st[k] = toks[f + k - 1]
      /\ IsStatement(line) <=> f <= Len(toks)
  BY StatementAt
<1> HIDE DEF toks, f, st
<1>3. ASSUME IsStatement(line) PROVE st[1] = TokenOf(toks, f) /\ TokenOf(toks, f) \in Tokens
  <2>1. f <= Len(toks) BY <1>2, <1>3
  <2>2. 1 \in 1 .. Len(toks) - f + 1 /\ f + 1 - 1 = f /\ f \in 1 .. Len(toks) BY <1>1, <1>2, <2>1
  <2>3. st[1] = toks[f] BY <1>2, <2>2
  <2>4. toks[f] \in Tokens BY <1>1, <2>2, ElementOfSeq, Zenon
  <2> QED BY <2>1, <2>3, <2>4, Zenon DEF TokenOf
<1>4. ASSUME IsStatement(line), Sees(line, 1) = "NUM"
      PROVE  st[2] = TokenOf(toks, f + 1) /\ TokenOf(toks, f + 1)[1] = "NUM" /\ st[2][2] \in Int
  <2>0. Look(toks, f + 1) = "NUM" BY <1>4, Zenon DEF Sees, toks, f
  <2>a. f + 1 \in Nat \ {0} BY <1>2
  <2>1. Look(toks, f + 1) = "NUM" /\ f + 1 \in Nat \ {0} BY <2>0, <2>a, Zenon
  <2>2. f + 1 <= Len(toks)
    <3>1. "NUM" # "ERR" OBVIOUS
    <3>2. ~(f + 1 > Len(toks)) BY <1>1, <2>1, <3>1, LookKinds, Zenon
    <3> QED BY <1>1, <1>2, <3>2
  <2>3. 2 \in 1 .. Len(toks) - f + 1 /\ f + 2 - 1 = f + 1 /\ f + 1 \in 1 .. Len(toks) BY <1>1, <1>2, <2>2
  <2>4. st[2] = toks[f + 1] BY <1>2, <2>3
  <2>5. toks[f + 1] \in Tokens BY <1>1, <2>3, ElementOfSeq, Zenon
  <2>6. toks[f + 1][1] = "NUM" BY <1>1, <2>1, <2>2, LookKinds, Zenon
  <2>7. toks[f + 1][2] \in Int BY <2>5, <2>6, TokenKinds, Zenon
  <2> QED BY <2>2, <2>4, <2>6, <2>7, Zenon DEF TokenOf
<1>5. ASSUME ~IsStatement(line) PROVE TokenOf(toks, f)[1] = "ERR"
  <2>1. ~(f <= Len(toks)) BY <1>2, <1>5
  <2>2. TokenOf(toks, f) = <<"ERR", "">> BY <2>1, Zenon DEF TokenOf
  <2>3. <<"ERR", "">>[1] = "ERR" OBVIOUS
  <2> QED BY <2>2, <2>3, Zenon
<1> QED BY <1>3, <1>4, <1>5, Zenon DEF Name, Number, toks, f, st

\* What the first pass finds wrong in no line, and what in this only depends on the line.
Sound1(line) ==
  /\ LabelOk(line)
  /\ IsStatement(line) =>
       /\ StatementOf(line)[1][1] = "INSTR"
       /\ Name(line) \in {".pos", ".align"} => Sees(line, 1) = "NUM"
       /\ Name(line) = ".align" => Number(line) > 0

\* Where yas puts a line, and where it goes on.
Landing(line, pos) ==
  CASE Names(line, {".pos"}) -> Number(line)
    [] Names(line, {".align"}) -> Aligned(pos, Number(line))
    [] OTHER -> pos
Onward(line, pos) == IF Takes(line) THEN Plus(Landing(line, pos), Size(line)) ELSE Landing(line, pos)

\* On a line the first pass finds no error in, the position moves from number to number; as long as
\* nothing overflows, it does so as in the meaning.
LEMMA AfterIs ==
  ASSUME NEW line \in SourceLines, Sound1(line), NEW pos \in Int
  PROVE  /\ After(line.tokens, pos) = Onward(line, pos)
         /\ Landing(line, pos) \in Int /\ Onward(line, pos) \in Int
         /\ Moved(line, pos) \in Int /\ Size(line) \in Nat
         /\ Names(line, {".align"}) /\ pos <= INT_MAX - Number(line) + 1 => Landing(line, pos) = Moved(line, pos)
         /\ ~Names(line, {".align"}) => Landing(line, pos) = Moved(line, pos)
         /\ ~Takes(line) => Size(line) = 0
<1> DEFINE toks == line.tokens
           f == FirstOf(toks)
           name == Name(line)
<1>1. LabelOk(line) BY Zenon DEF Sound1
<1>2. After(toks, pos) =
        IF TokenOf(toks, f)[1] # "INSTR" THEN pos
        ELSE IF TokenOf(toks, f)[2] = ".pos" THEN TokenOf(toks, f + 1)[2]
        ELSE IF TokenOf(toks, f)[2] = ".align" THEN Aligned(pos, TokenOf(toks, f + 1)[2])
        ELSE Plus(pos, find_instr(TokenOf(toks, f)[2]).bytes)
  BY Zenon DEF After
<1>3. CASE ~IsStatement(line)
  <2>1. "ERR" # "INSTR" OBVIOUS
  <2>2. After(toks, pos) = pos BY <1>1, <1>2, <1>3, <2>1, StatementTokens, Zenon
  <2>3. (\A names : ~Names(line, names)) /\ ~Takes(line) BY <1>3, Zenon DEF Names, Takes
  <2>4. Moved(line, pos) = pos BY <2>3 DEF Moved
  <2>5. Landing(line, pos) = pos BY <2>3 DEF Landing
  <2>6. Onward(line, pos) = pos BY <2>3, <2>5, Zenon DEF Onward
  <2>7. Size(line) = 0 BY <2>3, Zenon DEF Size
  <2> QED BY <2>2, <2>3, <2>4, <2>5, <2>6, <2>7
<1>4. CASE IsStatement(line)
  <2>1. /\ StatementOf(line)[1][1] = "INSTR" /\ TokenOf(toks, f)[1] = "INSTR" /\ name = TokenOf(toks, f)[2]
        /\ TokenOf(toks, f) \in Tokens
    BY <1>1, <1>4, StatementTokens, Zenon DEF Sound1
  <2>2. name \in InstrNames \cup {".pos", ".align"} BY <2>1, TokenKinds, Zenon
  <2>3. \A names : Names(line, names) <=> name \in names BY <1>4, <2>1, Zenon DEF Names
  <2>4. name \in {".pos", ".align"} =>
          Number(line) = TokenOf(toks, f + 1)[2] /\ Number(line) \in Int
    BY <1>1, <1>4, StatementTokens, Zenon DEF Sound1
  <2>5. name = ".align" => Number(line) > 0 BY <1>4, Zenon DEF Sound1
  <2>6. \A nm \in InstrNames : nm \notin {".pos", ".align"}
    BY DEF InstrNames, Moves, Jumps, Alus, Allocations
  <2>7. DOMAIN Allocations \subseteq InstrNames BY Zenon DEF InstrNames
  <2>8. CASE name \in {".pos", ".align"}
    <3>1. Size(line) = 0 /\ ~Takes(line) BY <2>3, <2>6, <2>7, <2>8, Zenon DEF Size, Takes, IsDirective
    <3>2. Onward(line, pos) = Landing(line, pos) BY <3>1, Zenon DEF Onward
    <3>3. CASE name = ".pos"
      <4>1. After(toks, pos) = Number(line) BY <1>2, <2>1, <2>4, <3>3, Zenon
      <4>2. Moved(line, pos) = Number(line) BY <2>3, <3>3 DEF Moved
      <4>3. Landing(line, pos) = Number(line) BY <2>3, <3>3 DEF Landing
      <4>4. Number(line) \in Int BY <2>4, <3>3
      <4> QED BY <3>1, <3>2, <4>1, <4>2, <4>3, <4>4
    <3>4. CASE name = ".align"
      <4> DEFINE n == Number(line)
                 from == IF pos > -n THEN pos ELSE pos + n - 1
                 m == Multiple(n, from)
      <4>1. ".align" # ".pos" OBVIOUS
      <4>2. After(toks, pos) = Aligned(pos, n) BY <1>2, <2>1, <2>4, <3>4, <4>1, Zenon
      <4>3. Moved(line, pos) = m BY <2>3, <3>4 DEF Moved
      <4>4. Landing(line, pos) = Aligned(pos, n) BY <2>3, <3>4 DEF Landing
      <4>5. n \in Nat \ {0} BY <2>4, <2>5, <3>4
      <4> HIDE DEF n
      <4>6. pos <= INT_MAX - n + 1 => Aligned(pos, n) = m BY <4>5, AlignedIs, Zenon
      <4>7. Aligned(pos, n) \in Int BY <4>5, AlignedInt, Zenon
      <4>8. m \in Int
        <5>1. from \in Int BY <4>5
        <5> HIDE DEF from
        <5>2. from + ((-from) % n) \in Int BY <4>5, <5>1
        <5> QED BY <5>2, Zenon DEF Multiple
      <4> HIDE DEF m
      <4>9. Names(line, {".align"}) BY <2>3, <3>4, Zenon
      <4>10. Size(line) \in Nat BY <3>1
      <4> QED BY <3>1, <3>2, <4>2, <4>3, <4>4, <4>6, <4>7, <4>8, <4>9, <4>10, Zenon DEF n
    <3> QED BY <2>8, <3>3, <3>4
  <2>9. CASE name \notin {".pos", ".align"}
    <3>1. name \in InstrNames BY <2>2, <2>9, Zenon
    <3>2. After(toks, pos) = Plus(pos, find_instr(name).bytes) BY <1>2, <2>1, <2>9, Zenon
    <3>3. Moved(line, pos) = pos /\ Landing(line, pos) = pos BY <2>3, <2>9 DEF Moved, Landing
    <3>4. Takes(line) BY <1>4, <2>3, <2>9, Zenon DEF Takes, IsDirective
    <3>5. Size(line) = IF name \in DOMAIN Allocations THEN Allocations[name]
                       ELSE 1 + (IF name \in WithRegisters THEN 1 ELSE 0) + (IF name \in WithWord THEN 8 ELSE 0)
      BY <2>3, <3>4, Zenon DEF Size
    <3>6. Size(line) = find_instr(name).bytes /\ find_instr(name).bytes \in Nat BY <3>1, <3>5, SizeOfRow, Zenon
    <3>7. Onward(line, pos) = Plus(pos, Size(line)) BY <3>3, <3>4, Zenon DEF Onward
    <3>8. Plus(pos, Size(line)) \in Int /\ Size(line) \in Nat BY <3>6, PlusInt
    <3> QED BY <3>2, <3>3, <3>4, <3>6, <3>7, <3>8, Zenon
  <2> QED BY <2>8, <2>9
<1> QED BY <1>3, <1>4

\* A recursion over the lines has a solution.
StepsOnInt(s, n) == \A k \in 1 .. n, x \in Int : s[k][x] \in Int
Follows(g, s, n) == g[0] = 0 /\ (\A k \in 1 .. n : g[k] = s[k][g[k - 1]]) /\ \A k \in 0 .. n : g[k] \in Int
LEMMA Iterates ==
  ASSUME NEW n \in Nat, NEW s, StepsOnInt(s, n)
  PROVE  \E g : Follows(g, s, n)
<1> DEFINE Solves(g, m) == g[0] = 0 /\ (\A k \in 1 .. m : g[k] = s[k][g[k - 1]]) /\ \A k \in 0 .. m : g[k] \in Int
           S == {m \in Nat : m <= n => \E g : Solves(g, m)}
<1>0. \A k \in 1 .. n, x \in Int : s[k][x] \in Int BY DEF StepsOnInt
<1>1. 0 \in S
  <2> DEFINE g == [k \in {0} |-> 0]
  <2>1. g[0] = 0 /\ 1 .. 0 = {} /\ 0 .. 0 = {0} OBVIOUS
  <2> HIDE DEF g
  <2>2. Solves(g, 0) BY <2>1
  <2> HIDE DEF Solves
  <2> QED BY <2>2
<1>2. ASSUME NEW m \in Nat, m \in S PROVE m + 1 \in S
  <2> SUFFICES ASSUME m + 1 <= n PROVE \E h : Solves(h, m + 1) OBVIOUS
  <2>1. PICK g : Solves(g, m)
    <3> HIDE DEF Solves
    <3> QED BY <1>2
  <2> DEFINE next == s[m + 1][g[m]]
             h == [k \in 0 .. m + 1 |-> IF k = m + 1 THEN next ELSE g[k]]
  <2>2. next \in Int
    <3>1. g[m] \in Int /\ m + 1 \in 1 .. n BY <2>1
    <3> QED BY <1>0, <3>1
  <2>3. h[m + 1] = next /\ \A k \in 0 .. m : h[k] = g[k] OBVIOUS
  <2>4. h[m + 1] = s[m + 1][h[m]] BY <2>3
  <2> HIDE DEF h, next
  <2>5. h[0] = 0 BY <2>1, <2>3
  <2>6. ASSUME NEW k \in 1 .. m + 1 PROVE h[k] = s[k][h[k - 1]]
    <3>1. CASE k = m + 1
      <4>1. k - 1 = m BY <3>1
      <4> QED BY <2>4, <3>1, <4>1, Zenon
    <3>2. CASE k # m + 1
      <4>1. k \in 1 .. m /\ k \in 0 .. m /\ k - 1 \in 0 .. m BY <3>2
      <4>2. g[k] = s[k][g[k - 1]] BY <2>1, <4>1
      <4> QED BY <2>3, <4>1, <4>2, Zenon
    <3> QED BY <3>1, <3>2
  <2>7. ASSUME NEW k \in 0 .. m + 1 PROVE h[k] \in Int
    <3>1. CASE k = m + 1 BY <2>2, <2>3, <3>1
    <3>2. CASE k # m + 1
      <4>1. k \in 0 .. m BY <3>2
      <4>2. g[k] \in Int BY <2>1, <4>1
      <4> QED BY <2>3, <4>1, <4>2, Zenon
    <3> QED BY <3>1, <3>2
  <2>8. Solves(h, m + 1) BY <2>5, <2>6, <2>7
  <2> HIDE DEF Solves
  <2> QED BY <2>8
<1> HIDE DEF S
<1>3. n \in S
  <2>1. Nat \subseteq S BY <1>1, <1>2, SetInduction
  <2> QED BY <2>1
<1> QED BY <1>3 DEF S, Follows

\* The positions that the meaning has.
LEMMA PositionsAre ==
  ASSUME source \in Seq(SourceLines), \A k \in 1 .. Len(source) : Sound1(source[k])
  PROVE  \E p : /\ p[1] = 0
                /\ \A k \in 1 .. Len(source) :
                     /\ Positions[k] = p[k] /\ p[k] \in Int /\ Place(k) = Moved(source[k], p[k]) /\ Place(k) \in Int
                     /\ p[k + 1] = Place(k) + Size(source[k]) /\ p[k + 1] \in Int /\ Size(source[k]) \in Nat
<1> DEFINE n == Len(source)
           Step(g, k) == IF k = 0 THEN 0 ELSE Moved(source[k], g[k - 1]) + Size(source[k])
           F(g) == [k \in 0 .. n |-> Step(g, k)]
           after == CHOOSE g : g = F(g)
           To(k, x) == Moved(source[k], x) + Size(source[k])
           s == [k \in 1 .. n |-> [x \in Int |-> To(k, x)]]
<1>1. n \in Nat /\ DOMAIN source = 1 .. n /\ \A k \in 1 .. n : source[k] \in SourceLines
  <2> HIDE DEF SourceLines
  <2> QED BY LenProperties, ElementOfSeq
<1>2. Positions = [k \in DOMAIN source |-> after[k - 1]] BY Zenon DEF Positions
<1>3. \A k \in 1 .. n, x \in Int : Moved(source[k], x) \in Int /\ Size(source[k]) \in Nat
  BY <1>1, AfterIs, Zenon
<1> HIDE DEF n
<1>4. \A k \in 1 .. n, x \in Int : s[k][x] = To(k, x) /\ s[k][x] \in Int
  <2>1. \A k \in 1 .. n, x \in Int : To(k, x) \in Int BY <1>3
  <2> HIDE DEF To
  <2>2. \A k \in 1 .. n, x \in Int : s[k][x] = To(k, x) OBVIOUS
  <2> HIDE DEF s
  <2> QED BY <2>1, <2>2, Zenon
<1> HIDE DEF s
<1>g. PICK g : Follows(g, s, n)
  <2>1. StepsOnInt(s, n) BY <1>4, Zenon DEF StepsOnInt
  <2> QED BY <1>1, <2>1, Iterates, Zenon
<1>5. g[0] = 0 /\ (\A k \in 1 .. n : g[k] = s[k][g[k - 1]]) /\ \A k \in 0 .. n : g[k] \in Int
  BY <1>g, Zenon DEF Follows
<1>6. \A k \in 1 .. n : k \in 0 .. n /\ k # 0 /\ k - 1 \in 0 .. n /\ (k - 1) + 1 = k /\ (k + 1) - 1 = k BY <1>1
<1>7. \A k \in 1 .. n : g[k] = Moved(source[k], g[k - 1]) + Size(source[k]) BY <1>4, <1>5, <1>6, Zenon
<1> DEFINE q == [k \in 0 .. n |-> g[k]]
<1>8. q = F(q)
  <2>1. \A k \in 0 .. n : q[k] = Step(q, k)
    <3> TAKE k \in 0 .. n
    <3>1. CASE k = 0 BY <1>5, <3>1
    <3>2. CASE k # 0
      <4>1. k \in 1 .. n BY <1>1, <3>2
      <4>2. q[k] = g[k] /\ q[k - 1] = g[k - 1] BY <1>6, <4>1
      <4> HIDE DEF q
      <4> QED BY <1>7, <3>2, <4>1, <4>2
    <3> QED BY <3>1, <3>2
  <2>2. q = [k \in 0 .. n |-> q[k]] OBVIOUS
  <2> HIDE DEF q, Step
  <2> QED BY <2>1, <2>2
<1> HIDE DEF q
<1>9. after = F(after)
  <2> HIDE DEF F
  <2> QED BY <1>8, Zenon
<1> HIDE DEF after
<1>10. after[0] = 0 /\ \A k \in 1 .. n : after[k] = Moved(source[k], after[k - 1]) + Size(source[k])
  <2>1. \A k \in 0 .. n : after[k] = Step(after, k)
    <3> TAKE k \in 0 .. n
    <3>1. F(after)[k] = Step(after, k) OBVIOUS
    <3> HIDE DEF F, Step
    <3> QED BY <1>9, <3>1, Zenon
  <2>2. after[0] = 0
    <3>1. 0 \in 0 .. n BY <1>1
    <3> QED BY <2>1, <3>1
  <2> QED BY <1>6, <2>1, <2>2
<1>11. \A k \in 0 .. n : after[k] \in Int
  <2> DEFINE S == {k \in Nat : k <= n => after[k] \in Int}
  <2>1. 0 \in S BY <1>10
  <2>2. ASSUME NEW k \in Nat, k \in S PROVE k + 1 \in S
    <3> SUFFICES ASSUME k + 1 <= n PROVE after[k + 1] \in Int OBVIOUS
    <3>1. k + 1 \in 1 .. n /\ k <= n /\ (k + 1) - 1 = k BY <1>1
    <3>2. after[k] \in Int BY <2>2, <3>1
    <3> DEFINE to == Moved(source[k + 1], after[k])
               size == Size(source[k + 1])
    <3>3. after[k + 1] = to + size BY <1>10, <3>1
    <3>4. to \in Int /\ size \in Nat BY <1>3, <3>1, <3>2
    <3> HIDE DEF to, size
    <3> QED BY <3>3, <3>4
  <2> HIDE DEF S
  <2>3. Nat \subseteq S BY <2>1, <2>2, SetInduction
  <2> QED BY <1>1, <2>3 DEF S
<1> DEFINE p == [k \in 1 .. n + 1 |-> after[k - 1]]
<1>12. p[1] = 0 /\ \A k \in 1 .. n : p[k] = after[k - 1] /\ p[k + 1] = after[k]
  <2>1. 1 \in 1 .. n + 1 /\ 1 - 1 = 0 BY <1>1
  <2>2. \A k \in 1 .. n : k \in 1 .. n + 1 /\ k + 1 \in 1 .. n + 1 /\ (k + 1) - 1 = k BY <1>1
  <2> QED BY <1>10, <2>1, <2>2
<1> HIDE DEF p
<1>13. ASSUME NEW k \in 1 .. n
       PROVE  /\ Positions[k] = p[k] /\ p[k] \in Int /\ Place(k) = Moved(source[k], p[k]) /\ Place(k) \in Int
              /\ p[k + 1] = Place(k) + Size(source[k]) /\ p[k + 1] \in Int /\ Size(source[k]) \in Nat
  <2>1. Positions[k] = p[k] BY <1>1, <1>2, <1>12 DEF n
  <2>2. p[k] \in Int /\ p[k + 1] \in Int BY <1>6, <1>11, <1>12, Zenon
  <2>3. Place(k) = Moved(source[k], p[k]) BY <2>1, Zenon DEF Place
  <2>4. p[k + 1] = Place(k) + Size(source[k]) BY <1>10, <1>12, <2>3, Zenon
  <2> QED BY <1>3, <2>1, <2>2, <2>3, <2>4, Zenon
<1> QED BY <1>12, <1>13, Zenon DEF n

\* The positions that yas counts, of which there is one row only, and the place where it prints a line.
Spots == CHOOSE p : Measures(source, p, Len(source))
LandedAt(k) == Landing(source[k], Spots[k])

LEMMA SpotsAre ==
  ASSUME source \in Seq(SourceLines), \A k \in 1 .. Len(source) : Sound1(source[k]),
         NEW p, Measures(source, p, Len(source))
  PROVE  \A k \in 1 .. Len(source) : Spots[k] = p[k] /\ p[k] \in Int /\ LandedAt(k) \in Int
<1> DEFINE n == Len(source)
<1>1. n \in Nat /\ DOMAIN source = 1 .. n /\ \A k \in 1 .. n : source[k] \in SourceLines
  <2> HIDE DEF SourceLines
  <2> QED BY LenProperties, ElementOfSeq
<1>2. Measures(source, Spots, n) BY Zenon DEF Spots
<1>3. /\ p[1] = 0 /\ \A k \in 1 .. n : p[k + 1] = After(source[k].tokens, p[k])
      /\ Spots[1] = 0 /\ \A k \in 1 .. n : Spots[k + 1] = After(source[k].tokens, Spots[k])
  BY <1>2, Zenon DEF Measures
<1>4. \A k \in 1 .. n, x \in Int : After(source[k].tokens, x) \in Int /\ Landing(source[k], x) \in Int
  BY <1>1, AfterIs, Zenon
<1> HIDE DEF n
<1>5. \A k \in 0 .. n : Spots[k + 1] = p[k + 1] /\ p[k + 1] \in Int
  <2> DEFINE S == {k \in Nat : k <= n => Spots[k + 1] = p[k + 1] /\ p[k + 1] \in Int}
  <2>1. 0 \in S BY <1>3
  <2>2. ASSUME NEW k \in Nat, k \in S PROVE k + 1 \in S
    <3> SUFFICES ASSUME k + 1 <= n PROVE Spots[(k + 1) + 1] = p[(k + 1) + 1] /\ p[(k + 1) + 1] \in Int OBVIOUS
    <3>1. k + 1 \in 1 .. n /\ k <= n BY <1>1
    <3>2. Spots[k + 1] = p[k + 1] /\ p[k + 1] \in Int BY <2>2, <3>1
    <3> QED BY <1>3, <1>4, <3>1, <3>2, Zenon
  <2> HIDE DEF S
  <2>3. Nat \subseteq S BY <2>1, <2>2, SetInduction
  <2> QED BY <1>1, <2>3 DEF S
<1>6. \A k \in 1 .. n : Spots[k] = p[k] /\ p[k] \in Int
  <2> TAKE k \in 1 .. n
  <2>1. k - 1 \in 0 .. n /\ (k - 1) + 1 = k BY <1>1
  <2> QED BY <1>5, <2>1
<1> QED BY <1>4, <1>6, Zenon DEF LandedAt, n

\* There is such a row.
LEMMA SpotsExist ==
  ASSUME source \in Seq(SourceLines), \A k \in 1 .. Len(source) : Sound1(source[k])
  PROVE  Measures(source, Spots, Len(source))
<1> DEFINE n == Len(source)
           To(k, x) == After(source[k].tokens, x)
           s == [k \in 1 .. n |-> [x \in Int |-> To(k, x)]]
<1>1. n \in Nat /\ DOMAIN source = 1 .. n /\ \A k \in 1 .. n : source[k] \in SourceLines
  <2> HIDE DEF SourceLines
  <2> QED BY LenProperties, ElementOfSeq
<1>2. \A k \in 1 .. n, x \in Int : After(source[k].tokens, x) \in Int BY <1>1, AfterIs, Zenon
<1> HIDE DEF n
<1>3. \A k \in 1 .. n, x \in Int : s[k][x] = After(source[k].tokens, x)
  <2> HIDE DEF To
  <2>1. \A k \in 1 .. n, x \in Int : s[k][x] = To(k, x) OBVIOUS
  <2> QED BY <2>1, Zenon DEF To
<1> HIDE DEF s
<1>g. PICK g : Follows(g, s, n)
  <2>1. StepsOnInt(s, n) BY <1>2, <1>3, Zenon DEF StepsOnInt
  <2> QED BY <1>1, <2>1, Iterates, Zenon
<1>4. g[0] = 0 /\ (\A k \in 1 .. n : g[k] = s[k][g[k - 1]]) /\ \A k \in 0 .. n : g[k] \in Int
  BY <1>g, Zenon DEF Follows
<1> DEFINE p == [k \in 1 .. n + 1 |-> g[k - 1]]
<1>5. p[1] = 0 /\ \A k \in 1 .. n : p[k] = g[k - 1] /\ p[k + 1] = g[k] /\ k - 1 \in 0 .. n
  <2>1. 1 \in 1 .. n + 1 /\ 1 - 1 = 0 BY <1>1
  <2>2. \A k \in 1 .. n : k \in 1 .. n + 1 /\ k + 1 \in 1 .. n + 1 /\ (k + 1) - 1 = k /\ k - 1 \in 0 .. n BY <1>1
  <2> QED BY <1>4, <2>1, <2>2
<1> HIDE DEF p
<1>6. ASSUME NEW k \in 1 .. n PROVE p[k + 1] = After(source[k].tokens, p[k])
  <2>1. p[k] = g[k - 1] /\ p[k + 1] = g[k] /\ g[k - 1] \in Int /\ g[k] = s[k][g[k - 1]] BY <1>4, <1>5, Zenon
  <2>2. s[k][g[k - 1]] = After(source[k].tokens, g[k - 1]) BY <1>3, <2>1, Zenon
  <2> QED BY <2>1, <2>2, Zenon
<1>7. Measures(source, p, n) BY <1>5, <1>6, Zenon DEF Measures
<1> QED BY <1>7, Zenon DEF Spots, n

-----------------------------------------------------------------------------
(* The verdict.  A source is well formed when its lines are; a line may be *)
(* spoilt whatever the others are, and then nothing that follows helps.    *)

Sound(line) ==
  /\ LabelOk(line)
  /\ IsStatement(line) => HasForm(line)
  /\ Names(line, {".align"}) => Number(line) > 0
Spoilt(line) == line.end = "junk" \/ (line.tokens # <<>> /\ (~Sound(line) \/ Unended(line)))
FineLine(k) ==
  source[k].tokens # <<>> =>
    /\ Sound(source[k])
    /\ IsStatement(source[k]) => UsesLabels(source[k])
    /\ LandedAt(k) < 16^4
Junked == source # <<>> /\ source[Len(source)].end = "cutjunk"

\* What has been found of a source in which no error was found so far.
Starts ==
  /\ start \in {"INITIAL", "ERR"}
  /\ pass = 1 => (start = "ERR" <=> Junked)
  /\ pass = 2 => /\ ~Junked => start = "INITIAL"
                 /\ Junked => IF lineno = 0 THEN start = "ERR" ELSE OnlyJunk
Ends ==
  /\ \A k \in 1 .. Len(source) : source[k].end # "junk" /\ (Unended(source[k]) => k = Len(source))
  /\ pass = 1 /\ ~newline /\ tokens # <<>> => source # <<>> /\ Spoilt(source[Len(source)])
Sounds == newline \/ tokens = <<>> => \A k \in 1 .. (IF pass = 1 THEN Finished ELSE Len(source)) : Sound1(source[k])
Track ==
  /\ Starts
  /\ Ends
  /\ Sounds
  /\ SymbolNames \subseteq Labels
  /\ pass = 2 => \A k \in 1 .. Finished : FineLine(k)

\* What both passes accept: the positions are those that yas counts, with its wraps.
Passable ==
  \/ OnlyJunk
  \/ /\ \A k \in DOMAIN source : WellFormedLine(source[k])
     /\ \A k \in DOMAIN source : source[k].tokens # <<>> => LandedAt(k) < 16^4

Refused == IF pass = 1 THEN \E k \in DOMAIN source : Spoilt(source[k]) ELSE ~Passable
VerdictInv ==
  /\ PassInv
  /\ status \in {"assembling", "assembled", "failed"}
  /\ status = "failed" => hit_error
  /\ status = "assembled" => Passable
  /\ hit_error => Refused
  /\ ~hit_error => Track

\* All of that is said of the source alone.
LEMMA SameSource ==
  ASSUME source' = source
  PROVE  /\ Labels' = Labels /\ (Passable <=> Passable') /\ (OnlyJunk <=> OnlyJunk') /\ (Junked <=> Junked')
         /\ \A k \in 1 .. Len(source) : FineLine(k)' <=> FineLine(k)
<1>1. Spots' = Spots BY Zenon DEF Spots
<1>2. Labels' = Labels BY SMT DEF Labels
<1>3. \A k \in DOMAIN source : LandedAt(k)' = LandedAt(k) BY <1>1, Zenon DEF LandedAt
<1>4. \A line : UsesLabels(line)' <=> UsesLabels(line) BY <1>2, Zenon DEF UsesLabels
<1>5. (OnlyJunk <=> OnlyJunk') /\ (Junked <=> Junked') BY Zenon DEF OnlyJunk, Junked
<1>6. \A line : WellFormedLine(line)' <=> WellFormedLine(line) BY <1>4, Zenon DEF WellFormedLine
<1>7. Passable <=> Passable' BY <1>3, <1>5, <1>6, Zenon DEF Passable
<1>8. \A k \in DOMAIN source : FineLine(k)' <=> FineLine(k) BY <1>3, <1>4, Zenon DEF FineLine
<1> QED BY <1>2, <1>5, <1>7, <1>8

\* A line without tokens says nothing wrong.
LEMMA NoTokens ==
  ASSUME NEW line, line.tokens = <<>>
  PROVE  ~IsStatement(line) /\ ~HasLabel(line) /\ Sound(line) /\ Sound1(line)
<1>1. ~HasLabel(line) BY DEF HasLabel
<1>2. ~IsStatement(line) BY <1>1, Zenon DEF IsStatement, StatementOf
<1>3. TokenOf(line.tokens, 1)[1] # "IDENT" BY DEF TokenOf
<1> QED BY <1>1, <1>2, <1>3, Zenon DEF Sound, Sound1, LabelOk, Names

\* The conditions on a line that do not depend on the others.
LEMMA WellFormedLineIs ==
  ASSUME NEW line \in SourceLines
  PROVE  WellFormedLine(line) <=> Ended(line) /\ Sound(line) /\ (IsStatement(line) => UsesLabels(line))
<1>1. LabelOk(line) <=> ((line.tokens # <<>> /\ line.tokens[1][1] = "IDENT") => HasLabel(line))
  <2>1. line.tokens \in Seq(Tokens) /\ Len(line.tokens) \in Nat BY DEF SourceLines
  <2>2. CASE line.tokens = <<>> BY <2>2, NoTokens, Zenon DEF Sound
  <2>3. CASE line.tokens # <<>>
    <3>1. 1 <= Len(line.tokens) BY <2>1, <2>3, EmptySeq
    <3> QED BY <2>3, <3>1, Zenon DEF LabelOk, TokenOf
  <2> QED BY <2>2, <2>3
<1> QED BY <1>1, Zenon DEF WellFormedLine, Sound

\* A spoilt line spoils the source.
LEMMA SpoiltSource ==
  ASSUME source \in Seq(SourceLines), NEW k \in DOMAIN source, Spoilt(source[k])
  PROVE  ~Passable
<1>1. source[k] \in SourceLines /\ k \in 1 .. Len(source)
  <2> HIDE DEF SourceLines
  <2> QED BY ElementOfSeq, LenProperties
<1>2. ~WellFormedLine(source[k])
  <2>1. Ended(source[k]) => source[k].end # "junk" /\ (source[k].tokens # <<>> => ~Unended(source[k]))
    BY DEF Ended, Unended
  <2> QED BY <1>1, <2>1, WellFormedLineIs, Zenon DEF Spoilt
<1>3. ~OnlyJunk
  <2> SUFFICES ASSUME OnlyJunk PROVE FALSE OBVIOUS
  <2>1. k = 1 BY <1>1 DEF OnlyJunk
  <2>2. source[k].end = "cutjunk" /\ source[k].tokens = <<>> BY <2>1, Zenon DEF OnlyJunk
  <2>3. "cutjunk" # "junk" OBVIOUS
  <2> QED BY <2>2, <2>3, Zenon DEF Spoilt
<1> QED BY <1>2, <1>3, Zenon DEF Passable

\* Whether a line is fine is what the encoder finds, and where the line is printed.
LEMMA SoundIs ==
  ASSUME NEW line \in SourceLines
  PROVE  /\ Sound(line) => Sound1(line)
         /\ Sound1(line) => (Sound(line) <=> (IsStatement(line) => Formed(line, Class(Name(line)))))
<1> DEFINE name == Name(line)
           Dir == {".pos", ".align"}
<1>1. ASSUME LabelOk(line), IsStatement(line), StatementOf(line)[1][1] = "INSTR"
      PROVE  name \in InstrNames \cup Dir
  BY <1>1, StatementTokens, TokenKinds, Zenon
<1>2. ASSUME LabelOk(line), IsStatement(line), StatementOf(line)[1][1] = "INSTR"
      PROVE  HasForm(line) <=> Formed(line, Class(name))
  BY <1>1, <1>2, SomeForm, Zenon DEF HasForm
<1>3. ASSUME Sound(line), IsStatement(line), name \in Dir PROVE Sees(line, 1) = "NUM"
  <2>1. Formed(line, Class(name)) BY <1>2, <1>3, Zenon DEF Sound, HasForm
  <2>2. Class(name) = "directive"
    <3>1. Class(".pos") = "directive" /\ Class(".align") = "directive"
      BY DEF Class, Halts, VNames, RNames, Jumps, Allocations, Moves, Alus
    <3> QED BY <1>3, <3>1, Zenon
  <2> QED BY <2>1, <2>2, Zenon DEF Formed
<1>4. \A names : IsStatement(line) /\ StatementOf(line)[1][1] = "INSTR" => (Names(line, names) <=> name \in names)
  BY Zenon DEF Names
<1>5. Sound(line) => Sound1(line)
  BY <1>3, <1>4, Zenon DEF Sound, Sound1, HasForm
<1>6. Sound1(line) => (Sound(line) <=> (IsStatement(line) => Formed(line, Class(name))))
  <2>1. Sound1(line) /\ Names(line, {".align"}) => Number(line) > 0
    BY Zenon DEF Sound1, Names
  <2> QED BY <1>2, <2>1, Zenon DEF Sound, Sound1, HasForm
<1> QED BY <1>5, <1>6

LEMMA FineIs ==
  ASSUME NEW k, source[k] \in SourceLines, source[k].tokens # <<>>, Sound1(source[k])
  PROVE  FineLine(k) <=>
           /\ IsStatement(source[k]) =>
                Formed(source[k], Class(Name(source[k]))) /\ Known(source[k], Labels)
           /\ LandedAt(k) < 16^4
<1> DEFINE line == source[k]
           Ok == Formed(line, Class(Name(line)))
<1>1. Sound(line) <=> (IsStatement(line) => Ok) BY SoundIs, Zenon
<1>2. ASSUME IsStatement(line), Ok PROVE UsesLabels(line) <=> Known(line, Labels)
  <2>1. HasForm(line) BY <1>1, <1>2, Zenon DEF Sound
  <2>2. LabelOk(line) /\ StatementOf(line)[1][1] = "INSTR" BY <1>2, Zenon DEF Sound1
  <2>3. Name(line) \in InstrNames \cup {".pos", ".align"} BY <1>2, <2>2, StatementTokens, TokenKinds, ZenonT(60)
  <2> QED BY <1>2, <2>1, <2>2, <2>3, UsesMeans, Zenon
<1> QED BY <1>1, <1>2, Zenon DEF FineLine

LEMMA LabelFills ==
  ASSUME NEW f \in {1, 3}, NEW n \in Nat, f <= n + 1
  PROVE  f <= n <=> n # 0 /\ ~(f = 3 /\ n = 2)
OBVIOUS

\* What finish_line looks at, said of the line.
LEMMA LineSeen ==
  ASSUME NEW line \in SourceLines, tokens = line.tokens
  PROVE  /\ LabelOk(line) <=> (Labelled => Punct(2, ":"))
         /\ LabelOk(line) => (IsStatement(line) <=> tokens # <<>> /\ ~(Labelled /\ Len(tokens) = 2))
         /\ LabelOk(line) /\ IsStatement(line) =>
              /\ Type(tpos0) = StatementOf(line)[1][1] /\ Mnemonic = Name(line)
              /\ \A name : Token(tpos0) = <<"INSTR", name>> <=> Type(tpos0) = "INSTR" /\ Mnemonic = name
              /\ Type(tpos0 + 1) = "NUM" <=> Sees(line, 1) = "NUM"
              /\ Sees(line, 1) = "NUM" => Token(tpos0 + 1)[2] = Number(line)
<1> DEFINE toks == line.tokens
           f == FirstOf(toks)
<1>1. toks \in Seq(Tokens) /\ Len(toks) \in Nat BY DEF SourceLines
<1>2. tpos0 = f /\ f \in {1, 3} /\ (Labelled <=> f = 3) /\ (Labelled <=> TokenOf(toks, 1)[1] = "IDENT")
  BY DEF tpos0, FirstOf, Labelled, Type, Token, TokenOf
<1>3. \A i : Token(i) = TokenOf(toks, i) BY Zenon DEF Token, TokenOf
<1>4. LabelOk(line) <=> (Labelled => Punct(2, ":"))
  <2>1. Labelled => (HasLabel(line) <=> Punct(2, ":"))
    <3> SUFFICES ASSUME Labelled PROVE HasLabel(line) <=> Punct(2, ":") OBVIOUS
    <3>1. TokenOf(toks, 1)[1] = "IDENT" BY <1>2
    <3>2. Len(toks) >= 1
      <4>1. "ERR" # "IDENT" /\ <<"ERR", "">>[1] = "ERR" OBVIOUS
      <4>2. 1 <= Len(toks) BY <3>1, <4>1, Zenon DEF TokenOf
      <4> QED BY <1>1, <4>2
    <3>3. toks[1][1] = "IDENT" BY <3>1, <3>2 DEF TokenOf
    <3>4. CASE Len(toks) >= 2
      <4>1. Punct(2, ":") <=> toks[2] = <<"PUNCT", ":">> BY <1>1, <3>4 DEF Punct, Token
      <4> QED BY <3>3, <3>4, <4>1, Zenon DEF HasLabel
    <3>5. CASE ~(Len(toks) >= 2)
      <4>1. ~(2 <= Len(toks)) BY <1>1, <3>5
      <4>2. Token(2) = <<"ERR", "">> BY <1>3, <4>1, Zenon DEF TokenOf
      <4>3. <<"ERR", "">> # <<"PUNCT", ":">> OBVIOUS
      <4> QED BY <3>5, <4>2, <4>3, Zenon DEF Punct, HasLabel
    <3> QED BY <3>4, <3>5
  <2> QED BY <1>2, <2>1, Zenon DEF LabelOk
<1>5. LabelOk(line) => (IsStatement(line) <=> tokens # <<>> /\ ~(Labelled /\ Len(tokens) = 2))
  <2> SUFFICES ASSUME LabelOk(line) PROVE IsStatement(line) <=> tokens # <<>> /\ ~(Labelled /\ Len(tokens) = 2)
    OBVIOUS
  <2>1. /\ f <= Len(toks) + 1 /\ (IsStatement(line) <=> f <= Len(toks))
    BY StatementAt
  <2>2. toks = <<>> <=> Len(toks) = 0 BY <1>1, EmptySeq
  <2>3. (tokens # <<>> <=> Len(toks) # 0) /\ Len(tokens) = Len(toks) BY <2>2
  <2>4. f <= Len(toks) <=> Len(toks) # 0 /\ ~(f = 3 /\ Len(toks) = 2)
    <3>1. f \in {1, 3} /\ Len(toks) \in Nat /\ f <= Len(toks) + 1 BY <1>1, <1>2, <2>1, Zenon
    <3> QED BY <3>1, LabelFills, Zenon
  <2> QED BY <1>2, <2>1, <2>3, <2>4, Zenon
<1>6. ASSUME LabelOk(line), IsStatement(line)
      PROVE  /\ Type(tpos0) = StatementOf(line)[1][1] /\ Mnemonic = Name(line)
             /\ \A name : Token(tpos0) = <<"INSTR", name>> <=> Type(tpos0) = "INSTR" /\ Mnemonic = name
             /\ Type(tpos0 + 1) = "NUM" <=> Sees(line, 1) = "NUM"
             /\ Sees(line, 1) = "NUM" => Token(tpos0 + 1)[2] = Number(line)
  <2>1. /\ StatementOf(line)[1] = TokenOf(toks, f) /\ Name(line) = TokenOf(toks, f)[2] /\ TokenOf(toks, f) \in Tokens
        /\ Sees(line, 1) = "NUM" => Number(line) = TokenOf(toks, f + 1)[2]
    BY <1>6, StatementTokens, Zenon
  <2>2. Token(tpos0) = TokenOf(toks, f) /\ Token(tpos0 + 1) = TokenOf(toks, f + 1) BY <1>2, <1>3, Zenon
  <2>3. \A name : Token(tpos0) = <<"INSTR", name>> <=> Type(tpos0) = "INSTR" /\ Mnemonic = name
    <3>1. Token(tpos0) = <<Token(tpos0)[1], Token(tpos0)[2]>> BY <2>1, <2>2, TokenKinds, Zenon
    <3>2. \A name : <<"INSTR", name>>[1] = "INSTR" /\ <<"INSTR", name>>[2] = name OBVIOUS
    <3> QED BY <3>1, <3>2, Zenon DEF Type, Mnemonic
  <2>4. Type(tpos0 + 1) = "NUM" <=> Sees(line, 1) = "NUM"
    <3>1. f + 1 \in Nat \ {0} BY <1>2
    <3>2. Type(f + 1) = "NUM" <=> Look(tokens, f + 1) = "NUM" BY <1>1, <3>1, Looks, Zenon
    <3> QED BY <1>2, <3>2, Zenon DEF Sees
  <2> QED BY <2>1, <2>2, <2>3, <2>4, Zenon DEF Type, Mnemonic
<1> QED BY <1>4, <1>5, <1>6

\* The first pass finds what is wrong with a line by itself.
LEMMA FinishOne ==
  ASSUME Types, finish_line, pass = 1, ~hit_error, ~error_mode,
         NEW line \in SourceLines, tokens = line.tokens
  PROVE  /\ hit_error' => tokens # <<>> /\ ~Sound1(line)
         /\ ~hit_error' => Sound1(line)
<1>0. pass # 2 OBVIOUS
<1>1. CASE EmptyLine BY <1>1, NoTokens, Zenon DEF EmptyLine
<1>2. CASE ErroneousLine BY <1>2, Zenon DEF ErroneousLine
<1>3. CASE MissingColon
  <2>1. ~LabelOk(line) BY <1>3, LineSeen, Zenon DEF MissingColon
  <2> QED BY <1>3, <2>1, Zenon DEF MissingColon, Line, fail, Sound1
<1>4. CASE GoodLabel /\ tokens # <<>> /\ LabelOnly
  <2>1. LabelOk(line) /\ ~IsStatement(line) BY <1>4, LineSeen, Zenon DEF LabelOnly, GoodLabel
  <2> QED BY <1>0, <1>4, <2>1, Zenon DEF LabelOnly, PrintInPass2, Sound1
<1> DEFINE St == Statement
<1>5. ASSUME Statement
      PROVE  /\ tokens # <<>> /\ LabelOk(line) /\ IsStatement(line)
             /\ Sound1(line) <=> /\ Type(tpos0) = "INSTR"
                                 /\ Mnemonic \in {".pos", ".align"} => Type(tpos0 + 1) = "NUM"
                                 /\ Mnemonic = ".align" => Number(line) > 0
             /\ \A name : Token(tpos0) = <<"INSTR", name>> <=> Type(tpos0) = "INSTR" /\ Mnemonic = name
             /\ Type(tpos0 + 1) = "NUM" => Token(tpos0 + 1)[2] = Number(line)
  <2>1. tokens # <<>> /\ (Labelled => Punct(2, ":")) /\ ~(Labelled /\ Len(tokens) = 2)
    BY <1>5, Zenon DEF Statement, GoodLabel, Line
  <2>2. LabelOk(line) /\ IsStatement(line) BY <2>1, LineSeen, Zenon
  <2> QED BY <2>1, <2>2, LineSeen, Zenon DEF Sound1
<1>6. CASE BadInstruction BY <1>5, <1>6, Zenon DEF BadInstruction, fail
<1>7. CASE InvalidAddress
  <2>1. Type(tpos0) = "INSTR" /\ Mnemonic = ".pos" BY <1>5, <1>7, Zenon DEF InvalidAddress, Directive
  <2>2. ~Sound1(line) BY <1>5, <1>7, <2>1, Zenon DEF InvalidAddress, Directive
  <2> QED BY <1>5, <1>7, <2>2, Zenon DEF InvalidAddress, Directive, fail
<1>a. ".pos" # ".align" OBVIOUS
<1>8. CASE Pos
  <2>1. Type(tpos0) = "INSTR" /\ Mnemonic = ".pos" /\ Type(tpos0 + 1) = "NUM"
    BY <1>5, <1>8, Zenon DEF Pos, Directive
  <2>2. Sound1(line) BY <1>5, <1>8, <1>a, <2>1, Zenon DEF Pos, Directive
  <2> QED BY <1>0, <1>8, <2>2, Zenon DEF Pos, MoveTo, PrintInPass2
<1>9. CASE InvalidAlignment
  <2>1. Type(tpos0) = "INSTR" /\ Mnemonic = ".align" BY <1>5, <1>9, Zenon DEF InvalidAlignment, Directive
  <2>2. ~Sound1(line) BY <1>5, <1>9, <2>1, Zenon DEF InvalidAlignment, ValidAlignment, Directive
  <2> QED BY <1>5, <1>9, <2>2, Zenon DEF InvalidAlignment, Directive, fail
<1>10. CASE Align
  <2>1. Type(tpos0) = "INSTR" /\ Mnemonic = ".align" /\ Type(tpos0 + 1) = "NUM" /\ Number(line) > 0
    BY <1>5, <1>10, Zenon DEF Align, ValidAlignment, Directive
  <2>2. Sound1(line) BY <1>5, <1>10, <2>1, Zenon DEF Align, Directive
  <2> QED BY <1>0, <1>10, <2>2, Zenon DEF Align, MoveTo, PrintInPass2
<1>11. CASE Measure
  <2>1. Type(tpos0) = "INSTR" /\ Mnemonic \notin {".pos", ".align"} BY <1>11, Zenon DEF Measure, Instruction
  <2>2. Sound1(line) BY <1>5, <1>11, <2>1, Zenon DEF Measure, Instruction
  <2> QED BY <1>11, <2>2, Zenon DEF Measure
<1>12. CASE EncodeLine BY <1>0, <1>12, Zenon DEF EncodeLine
<1>13. LabelOnly => GoodLabel /\ tokens # <<>> BY Zenon DEF LabelOnly, GoodLabel, Line
<1> QED BY <1>1, <1>2, <1>3, <1>4, <1>6, <1>7, <1>8, <1>9, <1>10, <1>11, <1>12, <1>13, Zenon DEF finish_line

\* What print_code finds wrong with a position.
LEMMA Prints ==
  ASSUME NEW pos \in Int, NEW bytes, NEW failed, print_code(pos, bytes, failed), ~hit_error
  PROVE  hit_error' <=> (failed \/ ~(pos < 16^4))
<1>1. pos > 16^4 - 1 <=> ~(pos < 16^4) OBVIOUS
<1>2. CASE pos > 16^4 - 1 BY <1>1, <1>2, Zenon DEF print_code
<1>3. CASE ~(pos > 16^4 - 1)
  <2>1. hit_error' = (hit_error \/ failed) BY <1>3, Zenon DEF print_code
  <2>2. hit_error' <=> failed BY <2>1, Zenon
  <2> QED BY <1>1, <1>3, <2>2, Zenon
<1> QED BY <1>2, <1>3

\* It ends in no other way than with an error.
LEMMA FinishStatus ==
  ASSUME finish_line
  PROVE  status = "assembling" /\ status' \in {"assembling", "failed"} /\ (status' = "failed" => hit_error')
<1>0. "assembling" # "failed" OBVIOUS
<1>1. status = "assembling"
  BY DEF finish_line, EmptyLine, ErroneousLine, MissingColon, LabelOnly, BadInstruction, InvalidAddress, Pos,
         InvalidAlignment, Align, Measure, EncodeLine, Line, GoodLabel, Statement, Directive, Instruction, Finish
<1> DEFINE Ends2 == status' = status \/ (status' = "failed" /\ hit_error')
<1>2. ASSUME NEW pos, NEW bytes, NEW failed, print_code(pos, bytes, failed) PROVE Ends2
  BY <1>2, Zenon DEF print_code
<1>3. ASSUME NEW pos, PrintInPass2(pos) PROVE Ends2
  BY <1>2, <1>3, Zenon DEF PrintInPass2
<1>4. ASSUME EncodeLine PROVE Ends2
  BY <1>2, <1>4, Zenon DEF EncodeLine
<1>5. Ends2
  BY <1>3, <1>4, Zenon DEF finish_line, EmptyLine, ErroneousLine, MissingColon, LabelOnly, BadInstruction,
     InvalidAddress, Pos, InvalidAlignment, Align, MoveTo, Measure, fail
<1> QED BY <1>0, <1>1, <1>5, Zenon

LEMMA MovedIs ==
  ASSUME NEW line, NEW pos
  PROVE  /\ Names(line, {".pos"}) => Moved(line, pos) = Number(line)
         /\ ~Names(line, {".pos"}) /\ ~Names(line, {".align"}) => Moved(line, pos) = pos
<1> DEFINE P == Names(line, {".pos"})
           A == Names(line, {".align"})
           n == Number(line)
           m == Multiple(n, IF pos > -n THEN pos ELSE pos + n - 1)
<1>1. Moved(line, pos) = CASE P -> n [] A -> m [] OTHER -> pos BY Zenon DEF Moved
<1>2. P => ~A
  <2>1. ".pos" \notin {".align"} /\ \A x : x \in {".pos"} => x = ".pos" OBVIOUS
  <2> QED BY <2>1, Zenon DEF Names
<1> HIDE DEF P, A, n, m
<1>3. /\ P => Moved(line, pos) = n
      /\ ~P /\ ~A => Moved(line, pos) = pos
  BY <1>1, <1>2
<1> QED BY <1>3 DEF P, A, n

LEMMA LandingIs ==
  ASSUME NEW line, NEW pos
  PROVE  /\ Names(line, {".pos"}) => Landing(line, pos) = Number(line)
         /\ ~Names(line, {".pos"}) /\ Names(line, {".align"}) => Landing(line, pos) = Aligned(pos, Number(line))
         /\ ~Names(line, {".pos"}) /\ ~Names(line, {".align"}) => Landing(line, pos) = pos
<1> DEFINE P == Names(line, {".pos"})
           A == Names(line, {".align"})
           n == Number(line)
           m == Aligned(pos, n)
<1>1. Landing(line, pos) = CASE P -> n [] A -> m [] OTHER -> pos BY Zenon DEF Landing
<1>2. P => ~A
  <2>1. ".pos" \notin {".align"} /\ \A x : x \in {".pos"} => x = ".pos" OBVIOUS
  <2> QED BY <2>1, Zenon DEF Names
<1> HIDE DEF P, A, n, m
<1>3. /\ P => Landing(line, pos) = n
      /\ ~P /\ A => Landing(line, pos) = m
      /\ ~P /\ ~A => Landing(line, pos) = pos
  BY <1>1, <1>2
<1> QED BY <1>3 DEF P, A, n, m

\* The second pass finds an error in a line exactly if the line is not fine.
LEMMA FinishTwo ==
  ASSUME Types, finish_line, pass = 2, ~hit_error, ~error_mode, SymbolNames = Labels,
         NEW line \in SourceLines, line = source[lineno], tokens = line.tokens, Sound1(line),
         bytepos = Spots[lineno], bytepos \in Int, LandedAt(lineno) \in Int
  PROVE  hit_error' <=> ~FineLine(lineno)
<1> DEFINE name == Name(line)
           Ok == Formed(line, Class(name)) /\ Known(line, Labels)
           at == LandedAt(lineno)
           Goal == hit_error' <=> ~FineLine(lineno)
<1>0. pass # 1 OBVIOUS
<1>a. LabelOk(line) BY Zenon DEF Sound1
<1>b. Labelled => Punct(2, ":") BY <1>a, LineSeen, Zenon
<1>c. at = Landing(line, bytepos) BY Zenon DEF LandedAt
<1>d. tokens # <<>> => (FineLine(lineno) <=> (IsStatement(line) => Ok) /\ at < 16^4)
  BY FineIs, Zenon
<1>e. \A names : Names(line, names) <=> IsStatement(line) /\ name \in names
  BY Zenon DEF Names, Sound1
<1> HIDE DEF Ok, at, name
<1>1. CASE EmptyLine BY <1>0, <1>1, Zenon DEF EmptyLine, FineLine
<1>2. CASE ErroneousLine BY <1>2, Zenon DEF ErroneousLine
<1>3. CASE MissingColon BY <1>b, <1>3, Zenon DEF MissingColon
<1>4. CASE LabelOnly
  <2>1. tokens # <<>> /\ print_code(bytepos, <<>>, FALSE)
    BY <1>4, Zenon DEF LabelOnly, GoodLabel, Line, PrintInPass2
  <2>2. ~IsStatement(line) BY <1>4, <1>a, LineSeen, Zenon DEF LabelOnly
  <2>3. at = bytepos
    <3>1. ~Names(line, {".pos"}) /\ ~Names(line, {".align"}) BY <1>e, <2>2, Zenon
    <3> QED BY <1>c, <3>1, LandingIs, Zenon
  <2>4. \A no : no = FALSE /\ print_code(bytepos, <<>>, no) => (hit_error' <=> ~(bytepos < 16^4))
    BY <1>0, Prints, Zenon
  <2>5. hit_error' <=> ~(bytepos < 16^4) BY <2>1, <2>4, Zenon
  <2> QED BY <1>0, <1>d, <2>1, <2>2, <2>3, <2>5, Prints, Zenon
<1>5. ASSUME Statement
      PROVE  /\ tokens # <<>> /\ IsStatement(line) /\ Type(tpos0) = "INSTR" /\ Mnemonic = name
             /\ name \in {".pos", ".align"} => Type(tpos0 + 1) = "NUM"
             /\ name = ".align" => Number(line) > 0
             /\ \A nm : Token(tpos0) = <<"INSTR", nm>> <=> name = nm
             /\ Type(tpos0 + 1) = "NUM" => Token(tpos0 + 1)[2] = Number(line)
             /\ name \in InstrNames \cup {".pos", ".align"}
  <2>1. tokens # <<>> /\ ~(Labelled /\ Len(tokens) = 2)
    BY <1>5, Zenon DEF Statement, GoodLabel, Line
  <2>2. IsStatement(line) BY <1>a, <2>1, LineSeen, Zenon
  <2>3. /\ Type(tpos0) = "INSTR" /\ Mnemonic = name
        /\ \A nm : Token(tpos0) = <<"INSTR", nm>> <=> Type(tpos0) = "INSTR" /\ Mnemonic = nm
        /\ Type(tpos0 + 1) = "NUM" <=> Sees(line, 1) = "NUM"
        /\ Sees(line, 1) = "NUM" => Token(tpos0 + 1)[2] = Number(line)
    BY <1>a, <2>2, LineSeen, Zenon DEF Sound1, name
  <2>4. name \in InstrNames \cup {".pos", ".align"}
    BY <1>a, <2>2, StatementTokens, TokenKinds, ZenonT(60) DEF name, Sound1
  <2> QED BY <2>1, <2>2, <2>3, <2>4, Zenon DEF Sound1, name
<1>6. CASE BadInstruction BY <1>5, <1>6, Zenon DEF BadInstruction
<1>7. CASE InvalidAddress BY <1>5, <1>7, Zenon DEF InvalidAddress, Directive
<1>9. CASE InvalidAlignment BY <1>5, <1>9, Zenon DEF InvalidAlignment, ValidAlignment, Directive
<1>f. ASSUME name \in {".pos", ".align"}, IsStatement(line) PROVE Ok
  <2>1. Class(".pos") = "directive" /\ Class(".align") = "directive"
    BY DEF Class, Halts, VNames, RNames, Jumps, Allocations, Moves, Alus
  <2>2. Class(name) = "directive" BY <1>f, <2>1, Zenon
  <2>3. Sees(line, 1) = "NUM" BY <1>f, Zenon DEF Sound1, name
  <2>4. /\ "directive" # "rm" /\ "directive" # "mr" /\ "directive" # "value to register" /\ "directive" # "value"
        /\ "directive" # "register to register" /\ "directive" # "register" /\ "NUM" # "IDENT"
    OBVIOUS
  <2>5. Formed(line, Class(name)) BY <2>2, <2>3, <2>4, Zenon DEF Formed
  <2>6. ValueAt(Class(name)) = 1 BY <2>2, <2>4, Zenon DEF ValueAt
  <2>7. Look(line.tokens, FirstOf(line.tokens) + ValueAt(Class(Name(line)))) = "NUM"
    BY <2>3, <2>6, Zenon DEF Sees, name
  <2>8. Known(line, Labels) BY <2>4, <2>7, Zenon DEF Known
  <2> QED BY <2>5, <2>8, Zenon DEF Ok
<1>g. ASSUME IsStatement(line), tokens # <<>>, name \in {".pos", ".align"}, print_code(at, <<>>, FALSE) PROVE Goal
  <2>1. at \in Int BY DEF at
  <2>2. \A no : no = FALSE /\ print_code(at, <<>>, no) => (hit_error' <=> ~(at < 16^4))
    BY <1>0, <2>1, Prints, Zenon
  <2>3. hit_error' <=> ~(at < 16^4) BY <1>g, <2>2, Zenon
  <2>4. FineLine(lineno) <=> at < 16^4 BY <1>d, <1>f, <1>g, Zenon
  <2> QED BY <1>0, <1>g, <2>1, <2>3, <2>4, Prints, Zenon
<1>8. CASE Pos
  <2>1. name = ".pos" /\ IsStatement(line) /\ tokens # <<>> /\ Token(tpos0 + 1)[2] = Number(line)
    BY <1>5, <1>8, Zenon DEF Pos, Directive
  <2>2. at = Number(line)
    <3>1. Names(line, {".pos"}) BY <1>e, <2>1, Zenon
    <3> QED BY <1>c, <3>1, LandingIs, Zenon
  <2>3. print_code(at, <<>>, FALSE) BY <1>8, <2>1, <2>2, Zenon DEF Pos, MoveTo, PrintInPass2
  <2> QED BY <1>g, <2>1, <2>3, Zenon
<1>10. CASE Align
  <2>1. name = ".align" /\ IsStatement(line) /\ tokens # <<>> /\ Token(tpos0 + 1)[2] = Number(line) /\ Number(line) > 0
    BY <1>5, <1>10, Zenon DEF Align, Directive, ValidAlignment
  <2>2. at = Aligned(bytepos, Number(line))
    <3>0. ".align" \notin {".pos"} OBVIOUS
    <3>1. Names(line, {".align"}) /\ ~Names(line, {".pos"}) BY <1>e, <2>1, <3>0, Zenon
    <3> QED BY <1>c, <3>1, LandingIs, Zenon
  <2>3. print_code(at, <<>>, FALSE) BY <1>10, <2>1, <2>2, Zenon DEF Align, MoveTo, PrintInPass2
  <2> QED BY <1>g, <2>1, <2>3, Zenon
<1>11. CASE Measure BY <1>0, <1>11, Zenon DEF Measure
<1>12. CASE EncodeLine
  <2> DEFINE enc == Encode(find_instr(Mnemonic), tpos0 + 1)
             bytes == [k \in 1 .. find_instr(Mnemonic).bytes |-> enc.code[k - 1]]
  <2>1. tokens # <<>> /\ IsStatement(line) /\ Mnemonic = name /\ name \in InstrNames /\ name \notin {".pos", ".align"}
    BY <1>5, <1>12, Zenon DEF EncodeLine, Instruction
  <2>2. at = bytepos
    <3>1. ~Names(line, {".pos"}) /\ ~Names(line, {".align"}) BY <1>e, <2>1, Zenon
    <3> QED BY <1>c, <3>1, LandingIs, Zenon
  <2>3. enc.printed /\ ~enc.failed <=> Ok
    BY <2>1, EncodeParsed, Zenon DEF Ok, name
  <2>4. /\ enc.printed => print_code(bytepos, bytes, enc.failed)
        /\ ~enc.printed => hit_error' = TRUE /\ UNCHANGED <<yo, status>>
    BY <1>12, Zenon DEF EncodeLine
  <2>5. FineLine(lineno) <=> Ok /\ at < 16^4 BY <1>d, <2>1, Zenon
  <2> HIDE DEF enc, bytes
  <2>6. CASE enc.printed
    <3>1. hit_error' <=> (enc.failed \/ ~(bytepos < 16^4))
      <4>1. bytepos > 16^4 - 1 <=> ~(bytepos < 16^4) OBVIOUS
      <4>2. IF bytepos > 16^4 - 1 THEN hit_error' = TRUE ELSE hit_error' = (hit_error \/ enc.failed)
        BY <2>4, <2>6, Zenon DEF print_code
      <4> QED BY <4>1, <4>2, Zenon
    <3> QED BY <2>2, <2>3, <2>5, <2>6, <3>1, Zenon
  <2>7. CASE ~enc.printed
    <3>1. hit_error' BY <2>4, <2>7, Zenon
    <3> QED BY <1>0, <2>3, <2>5, <2>7, <3>1, Zenon
  <2> QED BY <2>6, <2>7
<1> QED BY <1>1, <1>2, <1>3, <1>4, <1>6, <1>7, <1>8, <1>9, <1>10, <1>11, <1>12, Zenon DEF finish_line

-----------------------------------------------------------------------------
(* The steps of the verdict's invariant. *)

LEMMA VerdictInit == Init => VerdictInv
<1> SUFFICES ASSUME Init PROVE VerdictInv OBVIOUS
<1>1. /\ source = <<>> /\ lineno = 0 /\ pass = 1 /\ status = "assembling" /\ start = "INITIAL" /\ newline = FALSE
      /\ tokens = <<>> /\ hit_error = FALSE /\ symbol_table = <<>>
  BY DEF Init, YasInit
<1>2. Starts /\ Ends
  <2>1. 1 .. Len(source) = {} BY <1>1
  <2>2. "INITIAL" # "ERR" /\ pass # 2 BY <1>1
  <2>3. ~Junked BY <1>1, Zenon DEF Junked
  <2> QED BY <1>1, <2>1, <2>2, <2>3, Zenon DEF Starts, Ends
<1>3. Sounds /\ 1 .. Finished = {}
  <2>1. Finished = 0 BY <1>1, Zenon DEF Finished
  <2>2. 1 .. Finished = {} BY <2>1
  <2> QED BY <1>1, <2>2, Zenon DEF Sounds
<1>4. SymbolNames \subseteq Labels
  <2>1. DOMAIN symbol_table = {} BY <1>1
  <2>2. SymbolNames = {} BY <2>1, Zenon DEF SymbolNames
  <2> QED BY <2>2
<1>5. Track BY <1>2, <1>3, <1>4, Zenon DEF Track
<1>6. "assembling" # "failed" /\ "assembling" # "assembled" OBVIOUS
<1> QED BY <1>1, <1>5, <1>6, PassInit, Zenon DEF VerdictInv

\* Lines are added at the end, in the first pass only.
LEMMA Grows ==
  ASSUME source \in Seq(SourceLines), NEW line \in SourceLines, source' = Append(source, line)
  PROVE  /\ Labels \subseteq Labels'
         /\ \A k \in DOMAIN source : k \in DOMAIN source' /\ source'[k] = source[k]
         /\ Len(source') = Len(source) + 1 /\ Len(source) \in Nat /\ DOMAIN source = 1 .. Len(source)
         /\ Len(source) + 1 \in DOMAIN source' /\ source'[Len(source) + 1] = line /\ source' # <<>>
         /\ \A k \in 1 .. Len(source') : k \in DOMAIN source \/ k = Len(source) + 1
<1> HIDE DEF SourceLines
<1>1. /\ Len(source') = Len(source) + 1 /\ Len(source) \in Nat /\ DOMAIN source = 1 .. Len(source)
      /\ DOMAIN source' = 1 .. Len(source) + 1
      /\ \A k \in 1 .. Len(source) : source'[k] = source[k]
      /\ source'[Len(source) + 1] = line
  BY Appending
<1>2. \A k \in DOMAIN source : k \in DOMAIN source' /\ source'[k] = source[k] BY <1>1
<1>3. Labels \subseteq Labels' BY <1>2, Zenon DEF Labels
<1>4. source' # <<>> BY <1>1
<1>5. Len(source) + 1 \in DOMAIN source' /\ \A k \in 1 .. Len(source') : k \in DOMAIN source \/ k = Len(source) + 1
  BY <1>1
<1> QED BY <1>1, <1>2, <1>3, <1>4, <1>5

\* The scanner, with the first error it finds and without.
LEMMA ScanRefuses ==
  ASSUME VerdictInv, ScanLine \/ SkipLine
  PROVE  hit_error' => Refused'
<1>1. PICK line \in NextLines :
        /\ ReadLine(line)
        /\ \/ start = "INITIAL" /\ hit_error' = (hit_error \/ line.end = "junk")
           \/ start = "ERR" /\ hit_error' = (hit_error \/ ~Unended(line))
  BY Zenon DEF ScanLine, SkipLine
<1>2. Types BY Zenon DEF VerdictInv, PassInv
<1>3. pass' = pass BY <1>1, Zenon DEF ReadLine
<1>4. CASE pass = 1
  <2>1. line \in SourceLines /\ source \in Seq(SourceLines) /\ source' = Append(source, line) /\ ~AtLastLine
    <3>1. source \in Seq(SourceLines) BY <1>2, Zenon DEF Types
    <3> QED BY <1>1, <1>2, <1>4, <3>1, LinesTaken, Zenon DEF ReadLine
  <2>2. hit_error => Refused'
    <3> SUFFICES ASSUME hit_error PROVE Refused' OBVIOUS
    <3>1. PICK k \in DOMAIN source : Spoilt(source[k]) BY <1>4, Zenon DEF VerdictInv, Refused
    <3>2. k \in DOMAIN source' /\ source'[k] = source[k] BY <2>1, Grows, Zenon
    <3> QED BY <1>3, <1>4, <3>1, <3>2, Zenon DEF Refused
  <2>3. CASE hit_error BY <2>2, <2>3
  <2>4. CASE ~hit_error
    <3>1. start # "ERR"
      <4>1. start = "ERR" => Junked BY <1>4, <2>4, Zenon DEF VerdictInv, Track, Starts
      <4>2. Junked => AtLastLine BY DEF Junked, AtLastLine, Unended
      <4> QED BY <2>1, <4>1, <4>2, Zenon
    <3>2. hit_error' => line.end = "junk" BY <1>1, <2>4, <3>1, Zenon
    <3>3. line.end = "junk" => Refused'
      <4>1. Len(source) + 1 \in DOMAIN source' /\ source'[Len(source) + 1] = line BY <2>1, Grows, Zenon
      <4> QED BY <1>3, <1>4, <4>1, Zenon DEF Refused, Spoilt
    <3> QED BY <3>2, <3>3
  <2> QED BY <2>3, <2>4
<1>5. CASE pass = 2
  <2>0. pass # 1 BY <1>5
  <2>1. source' = source /\ lineno + 1 \in 1 .. Len(source) /\ line = source[lineno + 1]
    BY <1>1, <1>2, <1>5, <2>0, LinesTaken, Zenon DEF ReadLine
  <2>2. Refused' <=> ~Passable BY <1>3, <2>0, <2>1, SameSource, Zenon DEF Refused
  <2>3. CASE hit_error BY <2>0, <2>2, <2>3, Zenon DEF VerdictInv, Refused
  <2>4. CASE ~hit_error
    <3>1. Starts /\ Ends BY <2>4, Zenon DEF VerdictInv, Track
    <3>2. line.end # "junk" BY <2>1, <3>1, Zenon DEF Ends
    <3>3. ASSUME start = "ERR", ~Unended(line) PROVE ~Passable
      <4>0. "INITIAL" # "ERR" OBVIOUS
      <4>1. Junked BY <1>5, <3>1, <3>3, <4>0, Zenon DEF Starts
      <4>2. Len(source) \in DOMAIN source /\ source[Len(source)].end = "cutjunk" /\ source \in Seq(SourceLines)
        <5> HIDE DEF SourceLines
        <5>1. source \in Seq(SourceLines) /\ source # <<>> BY <1>2, <4>1, Zenon DEF Junked, Types
        <5>2. Len(source) \in DOMAIN source BY <5>1
        <5> QED BY <4>1, <5>1, <5>2, Zenon DEF Junked
      <4>3. ~WellFormedLine(source[Len(source)])
        <5>1. ~Ended(source[Len(source)]) BY <4>2 DEF Ended
        <5> QED BY <5>1, Zenon DEF WellFormedLine
      <4>4. ~OnlyJunk
        <5> SUFFICES ASSUME OnlyJunk PROVE FALSE OBVIOUS
        <5>1. lineno + 1 = 1 BY <2>1 DEF OnlyJunk
        <5>2. Unended(source[1]) BY DEF OnlyJunk, Unended
        <5> QED BY <2>1, <3>3, <5>1, <5>2, Zenon
      <4> QED BY <4>2, <4>3, <4>4, Zenon DEF Passable
    <3> QED BY <1>1, <2>2, <2>4, <3>2, <3>3, Zenon
  <2> QED BY <2>3, <2>4
<1> QED BY <1>2, <1>4, <1>5, Zenon DEF Types

LEMMA ScanTracks ==
  ASSUME VerdictInv, ScanLine \/ SkipLine, ~hit_error'
  PROVE  Track'
<1>1. PICK line \in NextLines :
        /\ ReadLine(line)
        /\ \/ /\ start = "INITIAL" /\ tokens' = tokens \o line.tokens /\ newline' = (line.end = "newline")
              /\ start' = IF line.end = "cutjunk" THEN "ERR" ELSE "INITIAL"
              /\ line.end # "junk"
           \/ start = "ERR" /\ Unended(line) /\ UNCHANGED <<newline, tokens, start>> /\ line.end # "junk"
  BY DEF ScanLine, SkipLine, Unended
<1>2. ~hit_error /\ ~newline BY DEF ScanLine, SkipLine, Reading
<1>3. Types /\ Clean /\ Track BY <1>2, Zenon DEF VerdictInv, PassInv
<1>4. line \in SourceLines /\ lineno \in Nat /\ Len(source) \in Nat /\ source \in Seq(SourceLines)
  <2>1. line \in SourceLines BY <1>3, LinesTaken, Zenon
  <2>2. source \in Seq(SourceLines) BY <1>3, Zenon DEF Types
  <2> HIDE DEF SourceLines
  <2>3. lineno \in Nat /\ Len(source) \in Nat BY <1>3 DEF Types
  <2> QED BY <2>1, <2>2, <2>3
<1>5. lineno' = lineno + 1 /\ pass' = pass /\ symbol_table' = symbol_table
  BY <1>1, Zenon DEF ReadLine
<1>6. tokens = <<>> /\ (pass = 1 => start # "ERR" /\ ~AtLastLine)
  BY <1>2, <1>3, LinesTaken DEF Clean, Types
<1>7. start = "INITIAL" => tokens' = line.tokens
  BY <1>1, <1>4, <1>6 DEF SourceLines
<1>8. line.end \in {"newline", "cut", "cutjunk"}
  BY <1>1, <1>4 DEF SourceLines
<1>9. SymbolNames' = SymbolNames BY <1>5, Zenon DEF SymbolNames
<1>10. pass \in {1, 2} BY <1>3, Zenon DEF Types
<1>11. CASE pass = 1
  <2>0. pass' # 2 /\ pass' = 1 BY <1>5, <1>11
  <2>1. /\ start = "INITIAL" /\ tokens' = line.tokens /\ newline' = (line.end = "newline")
        /\ start' = IF line.end = "cutjunk" THEN "ERR" ELSE "INITIAL"
    BY <1>1, <1>6, <1>7, <1>11, Zenon
  <2>2. source' = Append(source, line) /\ lineno = Len(source)
    BY <1>1, <1>3, <1>11, Zenon DEF ReadLine, Types
  <2>3. /\ Labels \subseteq Labels' /\ Len(source') = lineno + 1 /\ source'[lineno + 1] = line /\ source' # <<>>
        /\ DOMAIN source = 1 .. lineno /\ \A k \in 1 .. lineno : source'[k] = source[k]
        /\ \A k \in 1 .. Len(source') : k \in 1 .. lineno \/ k = lineno + 1
    BY <1>4, <2>2, Grows, Zenon
  <2>4. Starts'
    <3>1. Junked' <=> line.end = "cutjunk" BY <2>3, Zenon DEF Junked
    <3>2. "ERR" # "INITIAL" OBVIOUS
    <3> QED BY <2>0, <2>1, <3>1, <3>2, Zenon DEF Starts
  <2>5. Ends'
    <3>1. ASSUME NEW k \in 1 .. Len(source') PROVE source'[k].end # "junk" /\ (Unended(source'[k]) => k = Len(source'))
      <4>1. CASE k = lineno + 1 BY <1>1, <2>3, <4>1, Zenon
      <4>2. CASE k \in 1 .. lineno
        <5>1. source[k].end # "junk" /\ (Unended(source[k]) => k = Len(source))
          BY <1>3, <2>2, <4>2, Zenon DEF Track, Ends
        <5>2. ~Unended(source[Len(source)])
          <6>1. source # <<>> BY <1>4, <2>2, <4>2
          <6> QED BY <1>6, <1>11, <6>1, Zenon DEF AtLastLine
        <5> QED BY <2>3, <4>2, <5>1, <5>2, Zenon
      <4> QED BY <2>3, <4>1, <4>2, Zenon
    <3>2. ~newline' /\ tokens' # <<>> => source' # <<>> /\ Spoilt(source'[Len(source')])
      <4> SUFFICES ASSUME ~newline', tokens' # <<>> PROVE Spoilt(line) BY <2>3, Zenon
      <4>1. Unended(line) BY <1>8, <2>1 DEF Unended
      <4> QED BY <2>1, <4>1, Zenon DEF Spoilt
    <3> QED BY <3>1, <3>2, Zenon DEF Ends
  <2>6. Sounds'
    <3>1. \A k \in 1 .. lineno : Sound1(source[k])
      BY <1>2, <1>3, <1>6, <1>11, Zenon DEF Track, Sounds, Finished
    <3>2. ASSUME newline' \/ tokens' = <<>>, NEW k \in 1 .. Finished' PROVE Sound1(source'[k])
      <4>1. CASE newline'
        <5>1. Finished' = lineno BY <1>4, <1>5, <4>1 DEF Finished
        <5> QED BY <2>3, <3>1, <3>2, <5>1, Zenon
      <4>2. CASE ~newline'
        <5>1. Finished' = lineno + 1 BY <1>5, <4>2, Zenon DEF Finished
        <5>2. Sound1(line) BY <2>1, <3>2, <4>2, NoTokens, Zenon
        <5> QED BY <2>3, <3>1, <3>2, <5>1, <5>2, Zenon
      <4> QED BY <4>1, <4>2
    <3> QED BY <2>0, <3>2, Zenon DEF Sounds
  <2>7. SymbolNames' \subseteq Labels' BY <1>3, <1>9, <2>3 DEF Track
  <2> QED BY <2>0, <2>4, <2>5, <2>6, <2>7, Zenon DEF Track
<1>12. CASE pass = 2
  <2>0. pass' # 1 /\ pass # 1 /\ pass' = 2 BY <1>5, <1>12
  <2>1. source' = source /\ lineno + 1 \in 1 .. Len(source) /\ line = source[lineno + 1]
    BY <1>1, <1>3, <1>12, <2>0, LinesTaken, Zenon DEF ReadLine
  <2>2. /\ Labels' = Labels /\ (OnlyJunk <=> OnlyJunk') /\ (Junked <=> Junked')
        /\ \A k \in 1 .. Len(source) : FineLine(k)' <=> FineLine(k)
    BY <2>1, SameSource, Zenon
  <2>3. Unended(line) => lineno + 1 = Len(source) /\ line.tokens = <<>>
    BY <1>3, <1>6, <2>1, Zenon DEF Track, Ends, Clean
  <2>4. OnlyJunk => lineno = 0 BY <1>4, <2>1 DEF OnlyJunk
  <2>5. Starts'
    <3>0. "INITIAL" # "ERR" /\ lineno' # 0 BY <1>4, <1>5
    <3>1. CASE start = "INITIAL"
      <4>1. ~Junked
        <5>1. Junked => (IF lineno = 0 THEN start = "ERR" ELSE OnlyJunk) BY <1>3, <1>12, Zenon DEF Track, Starts
        <5> QED BY <2>4, <3>0, <3>1, <5>1, Zenon
      <4>2. line.end # "cutjunk"
        <5> SUFFICES ASSUME line.end = "cutjunk" PROVE Junked BY <4>1
        <5>1. Unended(line) BY DEF Unended
        <5>2. source # <<>> BY <1>4, <2>1
        <5> QED BY <2>1, <2>3, <5>1, <5>2, Zenon DEF Junked
      <4>3. start' = "INITIAL" BY <1>1, <3>0, <3>1, <4>2, Zenon
      <4> QED BY <2>0, <2>2, <3>0, <4>1, <4>3, Zenon DEF Starts
    <3>2. CASE start = "ERR"
      <4>1. Junked BY <1>3, <1>12, <3>0, <3>2, Zenon DEF Track, Starts
      <4>2. Unended(line) /\ start' = "ERR" BY <1>1, <3>0, <3>2, Zenon
      <4>3. OnlyJunk
        <5>1. Len(source) = 1
          <6>1. lineno = 0 BY <1>3, <1>12, <2>4, <4>1, Zenon DEF Track, Starts
          <6> QED BY <2>3, <4>2, <6>1
        <5>2. lineno + 1 = 1 BY <2>3, <4>2, <5>1
        <5> QED BY <2>1, <2>3, <4>1, <4>2, <5>1, <5>2, Zenon DEF OnlyJunk, Junked
      <4> QED BY <2>0, <2>2, <3>0, <4>1, <4>2, <4>3, Zenon DEF Starts
    <3> QED BY <1>1, <3>1, <3>2, Zenon
  <2>6. Ends' BY <1>3, <2>0, <2>1, Zenon DEF Track, Ends
  <2>7. Sounds' BY <1>3, <1>6, <2>0, <2>1, Zenon DEF Track, Sounds
  <2>8. SymbolNames' \subseteq Labels' BY <1>3, <1>9, <2>2, Zenon DEF Track
  <2>9. \A k \in 1 .. Finished' : FineLine(k)'
    <3> TAKE k \in 1 .. Finished'
    <3>1. \A j \in 1 .. lineno : FineLine(j)
      BY <1>2, <1>3, <1>12, Zenon DEF Track, Finished
    <3>2. 1 .. lineno + 1 \subseteq 1 .. Len(source) /\ 1 .. lineno \subseteq 1 .. Len(source)
      BY <1>4, <2>1
    <3>3. CASE newline'
      <4>1. Finished' = lineno BY <1>4, <1>5, <3>3 DEF Finished
      <4> QED BY <2>2, <3>1, <3>2, <4>1, Zenon
    <3>4. CASE ~newline'
      <4>1. Finished' = lineno + 1 BY <1>5, <3>4, Zenon DEF Finished
      <4>2. Unended(line) BY <1>1, <1>8, <3>4 DEF Unended
      <4>3. FineLine(lineno + 1) BY <2>1, <2>3, <4>2, Zenon DEF FineLine
      <4>4. k \in 1 .. lineno \/ k = lineno + 1 BY <1>4, <4>1
      <4>5. FineLine(k) BY <3>1, <4>3, <4>4, Zenon
      <4> QED BY <2>2, <3>2, <4>1, <4>5, Zenon
    <3> QED BY <3>3, <3>4
  <2> QED BY <2>5, <2>6, <2>7, <2>8, <2>9, Zenon DEF Track
<1> QED BY <1>10, <1>11, <1>12

\* Where the first error of a line is found.
LEMMA FinishJudges ==
  ASSUME VerdictInv, finish_line
  PROVE  (hit_error' => Refused') /\ (~hit_error' => Track')
<1>1. /\ newline /\ ~newline' /\ tokens' = <<>> /\ source' = source
      /\ lineno' = lineno /\ pass' = pass /\ start' = start
      /\ hit_error => hit_error'
  BY FinishFrame, Zenon
<1>2. Types BY Zenon DEF VerdictInv, PassInv
<1>3. lineno \in 1 .. Len(source) /\ Len(source) \in Nat /\ DOMAIN source = 1 .. Len(source) /\ lineno \in Nat
      /\ source \in Seq(SourceLines) /\ source[lineno] \in SourceLines
  <2>1. source \in Seq(SourceLines) /\ lineno \in 0 .. Len(source) /\ lineno # 0 BY <1>1, <1>2, Zenon DEF Types
  <2> HIDE DEF SourceLines
  <2> QED BY <2>1
<1>4. (Refused <=> Refused') /\ \A k \in 1 .. Len(source) : FineLine(k)' <=> FineLine(k)
  BY <1>1, SameSource, Zenon DEF Refused
<1>5. CASE hit_error BY <1>1, <1>4, <1>5, Zenon DEF VerdictInv
<1> SUFFICES ASSUME ~hit_error PROVE (hit_error' => Refused') /\ (~hit_error' => Track') BY <1>5
<1>6. Clean /\ Track /\ ~error_mode BY Zenon DEF VerdictInv, PassInv
<1> DEFINE line == source[lineno]
<1>7. tokens = line.tokens /\ Agreed BY <1>1, <1>6, Zenon DEF Clean
<1>8. Starts' /\ Ends'
  <2>1. Junked' <=> Junked BY <1>1, SameSource, Zenon
  <2>2. OnlyJunk' <=> OnlyJunk BY <1>1, SameSource, Zenon
  <2>3. Starts' BY <1>1, <1>6, <2>1, <2>2, Zenon DEF Track, Starts
  <2>4. Ends' BY <1>1, <1>6, Zenon DEF Track, Ends
  <2> QED BY <2>3, <2>4
<1>9. ~hit_error' => SymbolNames' \subseteq Labels'
  <2> SUFFICES ASSUME ~hit_error' PROVE SymbolNames' \subseteq Labels' OBVIOUS
  <2>1. Labels' = Labels BY <1>1, SameSource, Zenon
  <2>2. Moves1(tokens) BY <1>2, <1>6, FinishMoves, Zenon
  <2>3. SymbolNames \subseteq Labels BY <1>6, Zenon DEF Track
  <2>4. CASE symbol_table' = symbol_table BY <2>1, <2>3, <2>4, Zenon DEF SymbolNames
  <2>5. CASE symbol_table' # symbol_table
    <3>1. Labelled /\ symbol_table' = Append(symbol_table, [name |-> Token(1)[2], pos |-> bytepos])
      BY <2>2, <2>5, Zenon DEF Moves1
    <3>2. LabelOk(line) BY <1>3, <1>7, <2>2, LineSeen, Zenon DEF Moves1
    <3>3. HasLabel(line) /\ Token(1) = TokenOf(line.tokens, 1)
      <4>1. Token(1) = TokenOf(line.tokens, 1) BY <1>7, Zenon DEF Token, TokenOf
      <4> QED BY <3>1, <3>2, <4>1, Zenon DEF LabelOk, Labelled, Type
    <3>4. Token(1)[2] = LabelOf(line)
      <4>1. Len(line.tokens) >= 2 BY <3>3, Zenon DEF HasLabel
      <4>2. Len(line.tokens) \in Nat
        <5>1. line.tokens \in Seq(Tokens) BY <1>3 DEF SourceLines
        <5> QED BY <5>1, LenProperties, Zenon
      <4>3. 1 <= Len(line.tokens) BY <4>1, <4>2
      <4> QED BY <3>3, <4>3, Zenon DEF LabelOf, TokenOf
    <3>5. LabelOf(line) \in Labels BY <1>3, <3>3, Zenon DEF Labels
    <3> DEFINE S == [name : STRING, pos : Int]
               e == [name |-> Token(1)[2], pos |-> bytepos]
    <3>6. symbol_table \in Seq(S) /\ e \in S /\ e.name = Token(1)[2]
      <4>1. Token(1)[2] \in STRING /\ bytepos \in Int
        BY <1>2, <3>1, TokenValues DEF Labelled, Types
      <4> QED BY <1>2, <4>1 DEF Types
    <3> HIDE DEF S, e
    <3>7. /\ DOMAIN symbol_table' = 1 .. Len(symbol_table) + 1 /\ DOMAIN symbol_table = 1 .. Len(symbol_table)
          /\ \A k \in 1 .. Len(symbol_table) : symbol_table'[k] = symbol_table[k]
          /\ symbol_table'[Len(symbol_table) + 1] = e /\ Len(symbol_table) \in Nat
      BY <3>1, <3>6, Appending DEF e
    <3>8. ASSUME NEW s \in DOMAIN symbol_table' PROVE symbol_table'[s].name \in Labels
      <4>1. s \in 1 .. Len(symbol_table) \/ s = Len(symbol_table) + 1 BY <3>7
      <4>2. CASE s \in 1 .. Len(symbol_table)
        <5>1. symbol_table[s].name \in SymbolNames BY <3>7, <4>2, Zenon DEF SymbolNames
        <5> QED BY <2>3, <3>7, <4>2, <5>1, Zenon
      <4>3. CASE s = Len(symbol_table) + 1 BY <3>4, <3>5, <3>6, <3>7, <4>3, Zenon
      <4> QED BY <4>1, <4>2, <4>3
    <3> QED BY <2>1, <3>8, Zenon DEF SymbolNames
  <2> QED BY <2>4, <2>5
<1>10. CASE pass = 1
  <2>0. pass' # 2 /\ pass' = 1 BY <1>1, <1>10
  <2>1. /\ hit_error' => tokens # <<>> /\ ~Sound1(line)
        /\ ~hit_error' => Sound1(line)
    BY <1>2, <1>3, <1>6, <1>7, <1>10, FinishOne, Zenon
  <2>2. hit_error' => Spoilt(line) BY <1>3, <1>7, <2>1, SoundIs, Zenon DEF Spoilt
  <2>3. hit_error' => Refused' BY <1>1, <1>3, <2>0, <2>2, Zenon DEF Refused
  <2>4. ASSUME ~hit_error' PROVE Sounds'
    <3>1. \A k \in 1 .. lineno - 1 : Sound1(source[k])
      BY <1>1, <1>6, <1>10, Zenon DEF Track, Sounds, Finished
    <3>2. Finished' = lineno BY <1>1, Zenon DEF Finished
    <3>3. \A k \in 1 .. lineno : k \in 1 .. lineno - 1 \/ k = lineno BY <1>3
    <3>4. \A k \in 1 .. lineno : Sound1(source[k]) BY <2>1, <2>4, <3>1, <3>3, Zenon
    <3> QED BY <1>1, <2>0, <3>2, <3>4, Zenon DEF Sounds
  <2> QED BY <1>8, <1>9, <2>0, <2>3, <2>4, Zenon DEF Track
<1>11. CASE pass = 2
  <2>0. pass' # 1 /\ pass # 1 /\ pass' = 2 BY <1>1, <1>11
  <2>1. \A k \in 1 .. Len(source) : Sound1(source[k]) BY <1>1, <1>6, <2>0, Zenon DEF Track, Sounds
  <2>2. PICK p : Measures(source, p, Len(source)) /\ Enters(source, symbol_table, p, Len(source)) /\ bytepos = p[lineno]
    <3>1. Finished = lineno - 1 /\ (lineno - 1) + 1 = lineno BY <1>1, <1>3 DEF Finished
    <3> QED BY <1>7, <2>0, <3>1, Zenon DEF Agreed
  <2>3. bytepos = Spots[lineno] /\ bytepos \in Int BY <1>3, <2>1, <2>2, SpotsAre, Zenon
  <2>4. LandedAt(lineno) \in Int BY <1>3, <2>1, <2>2, SpotsAre, Zenon
  <2>5. SymbolNames = Labels
    <3>1. Labels \subseteq SymbolNames
      <4> SUFFICES ASSUME NEW k \in DOMAIN source, HasLabel(source[k]) PROVE LabelOf(source[k]) \in SymbolNames
        BY Zenon DEF Labels
      <4>0. k \in 1 .. Len(source) /\ Enters(source, symbol_table, p, Len(source)) BY <1>3, <2>2, Zenon
      <4>1. PICK s \in DOMAIN symbol_table : symbol_table[s] = [name |-> LabelOf(source[k]), pos |-> p[k]]
        BY <4>0, EntersFinds
      <4>2. symbol_table[s].name = LabelOf(source[k]) BY <4>1
      <4> QED BY <4>2, Zenon DEF SymbolNames
    <3> QED BY <1>6, <3>1, Zenon DEF Track
  <2>6. hit_error' <=> ~FineLine(lineno)
    BY <1>2, <1>3, <1>6, <1>7, <1>11, <2>1, <2>3, <2>4, <2>5, FinishTwo, Zenon
  <2>7. ASSUME ~FineLine(lineno) PROVE ~Passable
    <3>1. line.tokens # <<>> BY <2>7, Zenon DEF FineLine
    <3>2. ~OnlyJunk
      <4> SUFFICES ASSUME OnlyJunk PROVE FALSE OBVIOUS
      <4>1. lineno = 1 BY <1>3 DEF OnlyJunk
      <4> QED BY <3>1, <4>1, Zenon DEF OnlyJunk
    <3>3. ~(WellFormedLine(line) /\ LandedAt(lineno) < 16^4)
      BY <1>3, <2>7, WellFormedLineIs, Zenon DEF FineLine
    <3> QED BY <1>3, <3>1, <3>2, <3>3, Zenon DEF Passable
  <2>8. hit_error' => Refused' BY <1>4, <2>0, <2>6, <2>7, Zenon DEF Refused
  <2>9. ASSUME ~hit_error' PROVE Track'
    <3>1. Sounds' BY <1>1, <2>0, <2>1, Zenon DEF Sounds
    <3>2. \A k \in 1 .. lineno : FineLine(k)
      <4>1. \A k \in 1 .. lineno - 1 : FineLine(k) BY <1>1, <1>6, <1>11, Zenon DEF Track, Finished
      <4>2. \A k \in 1 .. lineno : k \in 1 .. lineno - 1 \/ k = lineno BY <1>3
      <4> QED BY <2>6, <2>9, <4>1, <4>2, Zenon
    <3>3. \A k \in 1 .. lineno : FineLine(k)'
      <4>1. \A k \in 1 .. lineno : k \in 1 .. Len(source) BY <1>3
      <4> QED BY <1>4, <3>2, <4>1, Zenon
    <3>4. Finished' = lineno BY <1>1, Zenon DEF Finished
    <3> QED BY <1>8, <1>9, <2>0, <2>9, <3>1, <3>3, <3>4, Zenon DEF Track
  <2> QED BY <2>8, <2>9
<1> QED BY <1>2, <1>10, <1>11, Zenon DEF Types

\* A source through which both passes came without an error is well formed.
LEMMA BothPasses ==
  ASSUME Types, Clean, Track, pass = 2, ~newline, lineno = Len(source)
  PROVE  Passable
<1>0. source \in Seq(SourceLines) /\ Len(source) \in Nat /\ DOMAIN source = 1 .. Len(source)
      /\ (source = <<>> <=> Len(source) = 0) /\ \A k \in 1 .. Len(source) : source[k] \in SourceLines
  <2>1. source \in Seq(SourceLines) BY Zenon DEF Types
  <2> HIDE DEF SourceLines
  <2> QED BY <2>1
<1>1. CASE Junked
  <2>1. source # <<>> BY <1>1, Zenon DEF Junked
  <2>2. lineno # 0 BY <1>0, <2>1, Zenon
  <2> QED BY <1>1, <2>2, Zenon DEF Track, Starts, Passable
<1>2. CASE ~Junked
  <2>1. tokens = <<>> /\ \A k \in 1 .. Len(source) : Unended(source[k]) => source[k].tokens = <<>>
    BY Zenon DEF Clean
  <2>2. \A k \in 1 .. Len(source) : FineLine(k) BY Zenon DEF Track, Finished
  <2>3. ASSUME NEW k \in 1 .. Len(source) PROVE WellFormedLine(source[k])
    <3>1. Ended(source[k])
      <4>1. source[k].end \in {"newline", "junk", "cut", "cutjunk"} BY <1>0 DEF SourceLines
      <4>2. source[k].end # "junk" /\ (Unended(source[k]) => k = Len(source)) BY Zenon DEF Track, Ends
      <4>3. CASE source[k].end = "newline" BY <4>3, Zenon DEF Ended
      <4>4. CASE source[k].end \in {"cut", "cutjunk"}
        <5>1. Unended(source[k]) BY <4>4, Zenon DEF Unended
        <5>2. source # <<>>
          <6>1. Len(source) # 0 BY <1>0
          <6> QED BY <1>0, <6>1, Zenon
        <5>3. source[k].end # "cutjunk" BY <1>2, <4>2, <5>1, <5>2, Zenon DEF Junked
        <5>4. source[k].end = "cut" BY <4>4, <5>3, Zenon
        <5> QED BY <2>1, <5>1, <5>4, Zenon DEF Ended
      <4> QED BY <4>1, <4>2, <4>3, <4>4
    <3>2. Sound(source[k]) /\ (IsStatement(source[k]) => UsesLabels(source[k]))
      BY <2>2, NoTokens, Zenon DEF FineLine
    <3> QED BY <1>0, <3>1, <3>2, WellFormedLineIs, Zenon
  <2> QED BY <1>0, <2>2, <2>3, Zenon DEF Passable, FineLine
<1> QED BY <1>1, <1>2

LEMMA VerdictEnd ==
  ASSUME VerdictInv, EndOfFile
  PROVE  VerdictInv'
<1>1. /\ status = "assembling" /\ ~newline /\ (pass = 2 => lineno = Len(source)) /\ hit_error' = Erred
      /\ source' = source /\ start' = start /\ newline' = newline /\ tokens' = tokens /\ symbol_table' = symbol_table
  BY Zenon DEF EndOfFile, AtEnd, Reading
<1>2. Types BY Zenon DEF VerdictInv, PassInv
<1>3. PassInv' BY EndKeeps, Zenon DEF VerdictInv
<1>4. "assembling" # "failed" /\ "assembling" # "assembled" /\ "failed" # "assembled" OBVIOUS
<1>5. /\ SymbolNames' \subseteq Labels' <=> SymbolNames \subseteq Labels
      /\ (Junked <=> Junked') /\ (OnlyJunk <=> OnlyJunk') /\ (Passable <=> Passable')
      /\ \A k \in 1 .. Len(source) : FineLine(k)' <=> FineLine(k)
  <2>1. SymbolNames' = SymbolNames BY <1>1, Zenon DEF SymbolNames
  <2> QED BY <1>1, <2>1, SameSource, Zenon
<1>6. ~Erred => ~hit_error /\ tokens = <<>> /\ Clean /\ Track
  BY Zenon DEF Erred, VerdictInv, PassInv
<1>7. CASE pass = 1 /\ ~Erred /\ SecondPass /\ status' = status
  <2>0. pass' = 2 /\ pass' # 1 /\ lineno' = 0 BY <1>7 DEF SecondPass
  <2>1. Starts' BY <1>1, <1>5, <1>6, <1>7, <2>0, Zenon DEF Track, Starts
  <2>2. Ends' BY <1>1, <1>6, <1>7, <2>0, Zenon DEF Track, Ends
  <2>3. Sounds'
    <3>1. \A k \in 1 .. Len(source) : Sound1(source[k])
      BY <1>1, <1>2, <1>6, <1>7, Zenon DEF Track, Sounds, Finished, Types
    <3> QED BY <1>1, <2>0, <3>1, Zenon DEF Sounds
  <2>4. 1 .. Finished' = {}
    <3>1. Finished' = 0 BY <1>1, <2>0, Zenon DEF Finished
    <3> QED BY <3>1
  <2>5. Track' BY <1>5, <1>6, <1>7, <2>1, <2>2, <2>3, <2>4, Zenon DEF Track
  <2> QED BY <1>1, <1>3, <1>4, <1>7, <2>5, Zenon DEF VerdictInv
<1>8. ASSUME UNCHANGED <<pass, lineno>> PROVE (Refused <=> Refused') /\ (Track => Track')
  <2>1. Refused <=> Refused' BY <1>1, <1>5, <1>8, Zenon DEF Refused
  <2>2. (Starts => Starts') /\ (Ends => Ends') /\ (Sounds => Sounds')
    BY <1>1, <1>5, <1>8, Zenon DEF Starts, Ends, Sounds, Finished
  <2>3. (\A k \in 1 .. Finished : FineLine(k)) => \A k \in 1 .. Finished' : FineLine(k)'
    <3>1. Finished' = lineno /\ Finished = lineno BY <1>1, <1>8, Zenon DEF Finished
    <3>2. \A k \in 1 .. lineno : k \in 1 .. Len(source)
      <4>1. lineno \in 0 .. Len(source) /\ Len(source) \in Nat
        <5> HIDE DEF SourceLines
        <5> QED BY <1>2 DEF Types
      <4> QED BY <4>1
    <3> QED BY <1>5, <3>1, <3>2, Zenon
  <2> QED BY <1>5, <1>8, <2>1, <2>2, <2>3, Zenon DEF Track
<1>9. CASE pass = 1 /\ Erred /\ status' = "failed" /\ UNCHANGED <<pass, lineno>>
  <2>1. Refused
    <3>1. CASE hit_error BY <3>1, Zenon DEF VerdictInv
    <3>2. CASE ~hit_error
      <4>1. tokens # <<>> BY <1>9, <3>2, Zenon DEF Erred
      <4>2. source # <<>> /\ Spoilt(source[Len(source)])
        BY <1>1, <1>9, <3>2, <4>1, Zenon DEF VerdictInv, Track, Ends
      <4>3. Len(source) \in DOMAIN source
        <5> HIDE DEF SourceLines
        <5> QED BY <1>2, <4>2 DEF Types
      <4> QED BY <1>9, <4>2, <4>3, Zenon DEF Refused
    <3> QED BY <3>1, <3>2
  <2> QED BY <1>1, <1>3, <1>4, <1>8, <1>9, <2>1, Zenon DEF VerdictInv
<1>10. CASE pass = 2 /\ status' = (IF Erred THEN "failed" ELSE "assembled") /\ UNCHANGED <<pass, lineno>>
  <2>0. pass # 1 BY <1>10
  <2>1. CASE Erred
    <3>1. hit_error
      <4> SUFFICES ASSUME ~hit_error PROVE FALSE OBVIOUS
      <4>1. tokens # <<>> /\ Clean BY <2>1, Zenon DEF Erred, VerdictInv, PassInv
      <4> QED BY <1>1, <1>10, <4>1, Zenon DEF Clean
    <3>2. Refused BY <3>1, Zenon DEF VerdictInv
    <3> QED BY <1>1, <1>3, <1>4, <1>8, <1>10, <2>1, <3>2, Zenon DEF VerdictInv
  <2>2. CASE ~Erred
    <3>1. Passable BY <1>1, <1>2, <1>6, <1>10, <2>2, BothPasses, Zenon
    <3> QED BY <1>1, <1>3, <1>4, <1>5, <1>6, <1>8, <1>10, <2>2, <3>1, Zenon DEF VerdictInv
  <2> QED BY <2>1, <2>2
<1> QED BY <1>7, <1>9, <1>10, Zenon DEF EndOfFile

LEMMA VerdictNext == VerdictInv /\ [Next]_vars => VerdictInv'
<1> SUFFICES ASSUME VerdictInv, [Next]_vars PROVE VerdictInv' OBVIOUS
<1>0. PassInv' BY PassNext, Zenon DEF VerdictInv
<1>a. "assembling" # "failed" /\ "assembling" # "assembled" /\ "failed" # "assembled" OBVIOUS
<1>1. CASE ScanLine \/ SkipLine
  <2>1. status' = "assembling" BY <1>1, Zenon DEF ScanLine, SkipLine, Reading, ReadLine
  <2> QED BY <1>0, <1>1, <1>a, <2>1, ScanRefuses, ScanTracks, Zenon DEF VerdictInv
<1>2. CASE finish_line
  <2>1. status' \in {"assembling", "failed"} /\ (status' = "failed" => hit_error') BY <1>2, FinishStatus, Zenon
  <2> QED BY <1>0, <1>2, <1>a, <2>1, FinishJudges, Zenon DEF VerdictInv
<1>3. CASE EndOfFile BY <1>3, VerdictEnd
<1>4. CASE UNCHANGED yasvars
  <2>1. /\ source' = source /\ pass' = pass /\ lineno' = lineno /\ newline' = newline /\ start' = start
        /\ tokens' = tokens /\ symbol_table' = symbol_table /\ hit_error' = hit_error /\ status' = status
    BY <1>4, Zenon DEF yasvars
  <2>2. /\ Labels' = Labels /\ (Passable <=> Passable') /\ (OnlyJunk <=> OnlyJunk') /\ (Junked <=> Junked')
        /\ \A k \in 1 .. Len(source) : FineLine(k)' <=> FineLine(k)
    BY <2>1, SameSource, Zenon
  <2>3. Refused <=> Refused' BY <2>1, <2>2, Zenon DEF Refused
  <2>4. Finished' = Finished /\ SymbolNames' = SymbolNames BY <2>1, Zenon DEF Finished, SymbolNames
  <2>5. (Starts => Starts') /\ (Ends => Ends') /\ (Sounds => Sounds')
    BY <2>1, <2>2, <2>4, Zenon DEF Starts, Ends, Sounds
  <2>6. 1 .. Finished \subseteq 1 .. Len(source)
    <3>1. lineno \in 0 .. Len(source) /\ Len(source) \in Nat
      <4> HIDE DEF SourceLines
      <4> QED BY DEF VerdictInv, PassInv, Types
    <3> QED BY <3>1 DEF Finished
  <2>7. Track => Track' BY <2>1, <2>2, <2>4, <2>5, <2>6, Zenon DEF Track
  <2> QED BY <1>0, <2>1, <2>2, <2>3, <2>7, Zenon DEF VerdictInv
<1> QED BY <1>1, <1>2, <1>3, <1>4, Zenon DEF Next, YasNext, vars

-----------------------------------------------------------------------------
(* The positions that yas counts are those of the meaning, up to the first  *)
(* line that cannot be printed, as long as no alignment overflows.          *)

\* The size of a statement that takes room.
LEMMA Taking ==
  ASSUME NEW line \in SourceLines, Sound1(line)
  PROVE  /\ Takes(line) <=> IsStatement(line) /\ Name(line) \notin {".pos", ".align"}
         /\ Takes(line) => /\ Name(line) \in InstrNames
                           /\ Size(line) = find_instr(Name(line)).bytes /\ Size(line) \in Nat
                           /\ Size(line) =
                                IF Name(line) \in DOMAIN Allocations THEN Allocations[Name(line)]
                                ELSE 1 + (IF Name(line) \in WithRegisters THEN 1 ELSE 0)
                                       + (IF Name(line) \in WithWord THEN 8 ELSE 0)
<1> DEFINE name == Name(line)
           Dir == {".pos", ".align"}
<1>1. \A names : IsStatement(line) => (Names(line, names) <=> name \in names)
  BY Zenon DEF Names, Sound1
<1>2. Takes(line) <=> IsStatement(line) /\ name \notin Dir
  BY <1>1, Zenon DEF Takes, IsDirective
<1>3. ASSUME IsStatement(line), name \notin Dir
      PROVE  /\ name \in InstrNames
             /\ Size(line) = find_instr(name).bytes /\ Size(line) \in Nat
             /\ Size(line) = IF name \in DOMAIN Allocations THEN Allocations[name]
                             ELSE 1 + (IF name \in WithRegisters THEN 1 ELSE 0) + (IF name \in WithWord THEN 8 ELSE 0)
  <2>1. name \in InstrNames
    <3>1. LabelOk(line) /\ StatementOf(line)[1][1] = "INSTR" BY <1>3, Zenon DEF Sound1
    <3>2. TokenOf(line.tokens, FirstOf(line.tokens)) \in Tokens
          /\ StatementOf(line)[1] = TokenOf(line.tokens, FirstOf(line.tokens))
          /\ Name(line) = TokenOf(line.tokens, FirstOf(line.tokens))[2]
      BY <1>3, <3>1, StatementTokens, Zenon
    <3>3. name \in InstrNames \cup Dir BY <3>1, <3>2, TokenKinds, Zenon
    <3> QED BY <1>3, <3>3, Zenon
  <2>2. Size(line) = IF name \in DOMAIN Allocations THEN Allocations[name]
                     ELSE 1 + (IF name \in WithRegisters THEN 1 ELSE 0) + (IF name \in WithWord THEN 8 ELSE 0)
    BY <1>1, <1>2, <1>3, Zenon DEF Size
  <2>3. Size(line) = find_instr(name).bytes /\ find_instr(name).bytes \in Nat BY <2>1, <2>2, SizeOfRow, Zenon
  <2> QED BY <2>1, <2>2, <2>3, Zenon
<1> QED BY <1>2, <1>3, Zenon

LEMMA SizeBound ==
  ASSUME NEW line \in SourceLines, Sound1(line)
  PROVE  /\ Size(line) \in 0 .. 10 /\ (Takes(line) => Size(line) # 0) /\ (~Takes(line) => Size(line) = 0)
         /\ Takes(line) => line.tokens # <<>>
<1> DEFINE nm == Name(line)
<1>1. ASSUME Takes(line) PROVE Size(line) \in 1 .. 10
  <2>1. Size(line) = IF nm \in DOMAIN Allocations THEN Allocations[nm]
                     ELSE 1 + (IF nm \in WithRegisters THEN 1 ELSE 0) + (IF nm \in WithWord THEN 8 ELSE 0)
    BY <1>1, Taking, Zenon
  <2> HIDE DEF nm
  <2>2. nm \in DOMAIN Allocations => Allocations[nm] \in 1 .. 10 BY DEF Allocations
  <2> QED BY <2>1, <2>2
<1>2. ASSUME ~Takes(line) PROVE Size(line) = 0
  <2>1. ~Names(line, DOMAIN Allocations)
    <3>1. \A nm1 \in DOMAIN Allocations : nm1 \notin {".pos", ".align"} BY DEF Allocations
    <3> QED BY <1>2, <3>1, Zenon DEF Names, Takes, IsDirective
  <2> QED BY <1>2, <2>1, Zenon DEF Size
<1>3. Takes(line) => line.tokens # <<>> BY NoTokens, Zenon DEF Takes
<1> QED BY <1>1, <1>2, <1>3

\* The lines up to n can be printed: where the meaning puts them, and where yas puts them.
FitsTo(n) == \A j \in 1 .. n : source[j].tokens # <<>> => Place(j) < 16^4
FitsAsPut(n) == \A j \in 1 .. n : source[j].tokens # <<>> => LandedAt(j) < 16^4
Exact == \A k \in DOMAIN source : Spots[k] = Positions[k]

LEMMA FitsMore ==
  ASSUME NEW n \in Nat
  PROVE  /\ FitsTo(n + 1) <=> FitsTo(n) /\ (source[n + 1].tokens # <<>> => Place(n + 1) < 16^4)
         /\ FitsAsPut(n + 1) <=> FitsAsPut(n) /\ (source[n + 1].tokens # <<>> => LandedAt(n + 1) < 16^4)
<1>1. \A j \in 1 .. n + 1 : j \in 1 .. n \/ j = n + 1 OBVIOUS
<1>2. n + 1 \in 1 .. n + 1 /\ \A j \in 1 .. n : j \in 1 .. n + 1 OBVIOUS
<1> QED BY <1>1, <1>2, Zenon DEF FitsTo, FitsAsPut

\* One line on.
LEMMA Advances ==
  ASSUME NEW line \in SourceLines, Sound1(line), NEW pos \in Int,
         Names(line, {".align"}) => pos <= INT_MAX - Number(line) + 1
  PROVE  /\ Landing(line, pos) = Moved(line, pos)
         /\ (line.tokens # <<>> => Moved(line, pos) < 16^4) =>
              After(line.tokens, pos) = Moved(line, pos) + Size(line)
<1> DEFINE at == Moved(line, pos)
           size == Size(line)
<1>1. Landing(line, pos) = at BY AfterIs, Zenon
<1>2. at \in Int /\ size \in Nat /\ After(line.tokens, pos) = IF Takes(line) THEN Plus(at, size) ELSE at
  BY <1>1, AfterIs, Zenon DEF Onward
<1>3. size \in 0 .. 10 /\ (~Takes(line) => size = 0) /\ (Takes(line) => line.tokens # <<>>)
  BY SizeBound, Zenon
<1>4. ASSUME line.tokens # <<>> => at < 16^4 PROVE After(line.tokens, pos) = at + size
  <2> HIDE DEF at, size
  <2>1. CASE Takes(line)
    <3>1. at < 16^4 BY <1>3, <1>4, <2>1, Zenon
    <3>2. at + size <= INT_MAX BY <1>2, <1>3, <3>1, SMT DEF INT_MAX
    <3>3. Plus(at, size) = at + size BY <1>2, <3>2, PlusInt
    <3> QED BY <1>2, <2>1, <3>3, Zenon
  <2>2. CASE ~Takes(line)
    <3>1. at + size = at BY <1>2, <1>3, <2>2
    <3> QED BY <1>2, <2>2, <3>1, Zenon
  <2> QED BY <2>1, <2>2
<1> QED BY <1>1, <1>4, Zenon

LEMMA Reached ==
  ASSUME source \in Seq(SourceLines), \A k \in DOMAIN source : WellFormedLine(source[k]), ~Overflow
  PROVE  /\ FitsTo(Len(source)) <=> FitsAsPut(Len(source))
         /\ FitsTo(Len(source)) => Exact /\ \A k \in 1 .. Len(source) : LandedAt(k) = Place(k)
<1> DEFINE n == Len(source)
           Clear(k) == Names(source[k], {".align"}) => Positions[k] <= INT_MAX - Number(source[k]) + 1
<1>1. n \in Nat /\ DOMAIN source = 1 .. n /\ \A k \in 1 .. n : source[k] \in SourceLines
  <2> HIDE DEF SourceLines
  <2> QED BY LenProperties, ElementOfSeq
<1>2. \A k \in 1 .. n : Sound1(source[k]) BY <1>1, WellFormedLineIs, SoundIs, Zenon
<1>3. PICK r : /\ r[1] = 0
               /\ \A k \in 1 .. n :
                    /\ Positions[k] = r[k] /\ r[k] \in Int /\ Place(k) = Moved(source[k], r[k])
                    /\ r[k + 1] = Place(k) + Size(source[k])
  BY <1>2, PositionsAre, Zenon
<1>4. Spots[1] = 0 /\ \A k \in 1 .. n : Spots[k + 1] = After(source[k].tokens, Spots[k])
  BY <1>2, SpotsExist, Zenon DEF Measures
<1>5. ASSUME NEW k \in 1 .. n, FitsTo(k - 1) PROVE Clear(k)
  <2>1. \A j \in 1 .. k - 1 : source[j].tokens # <<>> => Place(j) < 16^4 BY <1>5, Zenon DEF FitsTo
  <2> SUFFICES ASSUME Names(source[k], {".align"}) PROVE Positions[k] <= INT_MAX - Number(source[k]) + 1
    OBVIOUS
  <2>2. ~(Positions[k] > INT_MAX - Number(source[k]) + 1) BY <1>1, <2>1, Zenon DEF Overflow
  <2>3. Positions[k] \in Int BY <1>3, Zenon
  <2>4. Number(source[k]) \in Int
    <3>1. \A y : y \in {".align"} => y = ".align" /\ y \in {".pos", ".align"} OBVIOUS
    <3>2. IsStatement(source[k]) /\ Name(source[k]) \in {".pos", ".align"} BY <3>1, Zenon DEF Names
    <3>3. LabelOk(source[k]) /\ Sees(source[k], 1) = "NUM" BY <1>2, <3>2, Zenon DEF Sound1
    <3> QED BY <1>1, <3>2, <3>3, StatementTokens, Zenon
  <2>5. INT_MAX \in Int BY SMT DEF INT_MAX
  <2> QED BY <2>2, <2>3, <2>4, <2>5
<1>6. ASSUME NEW k \in 1 .. n, FitsTo(k - 1), Spots[k] = r[k]
      PROVE  /\ LandedAt(k) = Place(k)
             /\ (source[k].tokens # <<>> => Place(k) < 16^4) => Spots[k + 1] = r[k + 1]
  <2>1. Clear(k) BY <1>5, <1>6
  <2>2. /\ Landing(source[k], r[k]) = Moved(source[k], r[k])
        /\ (source[k].tokens # <<>> => Moved(source[k], r[k]) < 16^4) =>
             After(source[k].tokens, r[k]) = Moved(source[k], r[k]) + Size(source[k])
    BY <1>1, <1>2, <1>3, <2>1, Advances, Zenon
  <2> QED BY <1>3, <1>4, <1>6, <2>2, Zenon DEF LandedAt
<1> DEFINE Alike(k) == (FitsTo(k) <=> FitsAsPut(k)) /\ (FitsTo(k) => Spots[k + 1] = r[k + 1])
           S == {k \in Nat : k <= n => Alike(k)}
<1> HIDE DEF n, Clear
<1>7. 0 \in S
  <2>1. 1 .. 0 = {} /\ 0 + 1 = 1 OBVIOUS
  <2>2. FitsTo(0) /\ FitsAsPut(0) BY <2>1, Zenon DEF FitsTo, FitsAsPut
  <2>3. Alike(0) BY <1>3, <1>4, <2>1, <2>2, Zenon
  <2> HIDE DEF Alike
  <2> QED BY <2>3
<1>8. ASSUME NEW k \in Nat, k \in S PROVE k + 1 \in S
  <2> SUFFICES ASSUME k + 1 <= n PROVE Alike(k + 1)
    <3> HIDE DEF Alike
    <3> QED OBVIOUS
  <2>1. k + 1 \in 1 .. n /\ k <= n /\ (k + 1) - 1 = k BY <1>1
  <2>2. Alike(k)
    <3> HIDE DEF Alike
    <3> QED BY <1>8, <2>1
  <2>3. /\ FitsTo(k + 1) <=> FitsTo(k) /\ (source[k + 1].tokens # <<>> => Place(k + 1) < 16^4)
        /\ FitsAsPut(k + 1) <=> FitsAsPut(k) /\ (source[k + 1].tokens # <<>> => LandedAt(k + 1) < 16^4)
    BY FitsMore
  <2>4. CASE FitsTo(k)
    <3>1. /\ LandedAt(k + 1) = Place(k + 1)
          /\ (source[k + 1].tokens # <<>> => Place(k + 1) < 16^4) => Spots[(k + 1) + 1] = r[(k + 1) + 1]
      BY <1>6, <2>1, <2>2, <2>4, Zenon
    <3> QED BY <2>2, <2>3, <2>4, <3>1, Zenon
  <2>5. CASE ~FitsTo(k) BY <2>2, <2>3, <2>5, Zenon
  <2> QED BY <2>4, <2>5
<1> HIDE DEF S
<1>9. \A k \in 0 .. n : Alike(k)
  <2>1. Nat \subseteq S BY <1>7, <1>8, SetInduction
  <2> HIDE DEF Alike
  <2> QED BY <1>1, <2>1 DEF S
<1>10. FitsTo(n) <=> FitsAsPut(n)
  <2>1. n \in 0 .. n BY <1>1
  <2> QED BY <1>9, <2>1, Zenon
<1>11. ASSUME FitsTo(n), NEW k \in 1 .. n PROVE Spots[k] = Positions[k] /\ LandedAt(k) = Place(k)
  <2>1. k - 1 \in 0 .. n /\ (k - 1) + 1 = k /\ \A j \in 1 .. k - 1 : j \in 1 .. n BY <1>1
  <2>2. FitsTo(k - 1) BY <1>11, <2>1, Zenon DEF FitsTo
  <2>3. Spots[(k - 1) + 1] = r[(k - 1) + 1] BY <1>9, <2>1, <2>2, Zenon
  <2>4. Spots[k] = r[k] BY <2>1, <2>3, Zenon
  <2> QED BY <1>3, <1>6, <2>2, <2>4, Zenon
<1> QED BY <1>1, <1>10, <1>11, Zenon DEF Exact, n

\* Then what both passes accept is what is well formed.
LEMMA PassableIs ==
  ASSUME source \in Seq(SourceLines), ~Overflow
  PROVE  Passable <=> WellFormed
<1>1. DOMAIN source = 1 .. Len(source)
  <2> HIDE DEF SourceLines
  <2> QED BY LenProperties
<1>2. CASE \A k \in DOMAIN source : WellFormedLine(source[k])
  <2>1. FitsTo(Len(source)) <=> FitsAsPut(Len(source)) BY <1>2, Reached, Zenon
  <2> QED BY <1>1, <1>2, <2>1, Zenon DEF FitsTo, FitsAsPut, Passable, WellFormed
<1>3. CASE ~\A k \in DOMAIN source : WellFormedLine(source[k])
  BY <1>3, Zenon DEF Passable, WellFormed
<1> QED BY <1>2, <1>3

\* The exit status of yas says whether the source is well formed, for all lines that the scanner can
\* find, unless an alignment overflows: no error is lost, whichever lines or pass hide it, and none is
\* made up (yas.c fail, finish_line, get_arg, yywrap, main).
THEOREM VerdictCorrect == Spec => []Verdict
<1>1. VerdictInv => Verdict
  <2> SUFFICES ASSUME VerdictInv, status # "assembling", ~Overflow PROVE status = "assembled" <=> WellFormed
    BY Zenon DEF Verdict
  <2>0. "failed" # "assembled" OBVIOUS
  <2>a. source \in Seq(SourceLines) BY Zenon DEF VerdictInv, PassInv, Types
  <2>b. Passable <=> WellFormed BY <2>a, PassableIs, Zenon
  <2>1. CASE status = "assembled" BY <2>b, <2>1, Zenon DEF VerdictInv
  <2>2. CASE status = "failed"
    <3>1. Refused BY <2>2, Zenon DEF VerdictInv
    <3>2. ~Passable
      <4>1. CASE pass = 1 BY <2>a, <3>1, <4>1, SpoiltSource, Zenon DEF Refused
      <4>2. CASE pass # 1 BY <3>1, <4>2, Zenon DEF Refused
      <4> QED BY <4>1, <4>2
    <3> QED BY <2>0, <2>b, <2>2, <3>2, Zenon
  <2> QED BY <2>1, <2>2, Zenon DEF VerdictInv
<1> QED BY <1>1, VerdictInit, VerdictNext, PTL DEF Spec

\* The operands of a line by their places: a register, and the word and the base of a memory operand.
TokenAt(line, k) == TokenOf(line.tokens, FirstOf(line.tokens) + k)
RegAt(line, k) == find_register(TokenAt(line, k)[2])
ValueSeen(line, k) == Sees(line, k) \in {"NUM", "IDENT"}
WordAt(line, k) == IF ValueSeen(line, k) THEN Meant(TokenAt(line, k)) ELSE 0
BaseAt(line, k) ==
  IF ValueSeen(line, k) THEN IF Sees(line, k + 1) = "(" THEN RegAt(line, k + 2) ELSE REG_NONE
  ELSE IF Sees(line, k) = "(" THEN RegAt(line, k + 1) ELSE REG_NONE

\* ops are m tokens of the line from its place 1 on.
TakenFrom(ops, line, m) ==
  /\ m \in Nat /\ FirstOf(line.tokens) + m <= Len(line.tokens)
  /\ DOMAIN ops = 1 .. m /\ Len(ops) = m /\ \A k \in 1 .. m : ops[k] = TokenAt(line, k)

LEMMA OperandTypes ==
  ASSUME NEW line \in SourceLines, NEW ops, NEW m, TakenFrom(ops, line, m), NEW k \in 1 .. m
  PROVE  /\ <<ops[k][1]>> \in Values <=> ValueSeen(line, k)
         /\ ops[k] = <<"PUNCT", "(">> <=> Sees(line, k) = "("
         /\ Sees(line, k) = "REG" => TokenAt(line, k)[2] \in RegNames
         /\ ValueSeen(line, k) => TokenAt(line, k)[1] = Sees(line, k)
         /\ Sees(line, k) = "NUM" => TokenAt(line, k)[2] \in Ints
         /\ TokenAt(line, k) \in Tokens
<1> DEFINE toks == line.tokens
           f == FirstOf(toks)
           tok == TokenOf(toks, f + k)
<1>1. toks \in Seq(Tokens) /\ Len(toks) \in Nat /\ f \in {1, 3} BY DEF SourceLines, FirstOf
<1> HIDE DEF toks, f
<1>2. m \in Nat /\ f + m <= Len(toks) /\ ops[k] = tok BY Zenon DEF TakenFrom, toks, f, TokenAt
<1>3. f + k \in Nat \ {0} /\ f + k <= Len(toks) /\ f + k \in 1 .. Len(toks) BY <1>1, <1>2
<1>4. tok = toks[f + k] BY <1>3, Zenon DEF TokenOf
<1>5. tok \in Tokens
  <2> HIDE DEF tok, Tokens
  <2>1. toks[f + k] \in Tokens BY <1>1, <1>3
  <2> QED BY <1>4, <2>1, Zenon
<1> DEFINE look == Look(toks, f + k)
<1>6. /\ look \in {"NUM", "IDENT", "REG", "INSTR"} => tok[1] = look
      /\ tok[1] \in {"NUM", "IDENT", "REG", "INSTR"} => look = tok[1]
      /\ look = "(" <=> tok = <<"PUNCT", "(">>
  BY <1>1, <1>3, <1>4, LookKinds, Zenon
<1> HIDE DEF tok
<1>7. Sees(line, k) = look /\ TokenAt(line, k) = tok BY Zenon DEF Sees, toks, f, tok, TokenAt
<1>8. \A x : <<x>> \in Values <=> x \in {"NUM", "IDENT"} BY DEF Values
<1> HIDE DEF look
<1>9. <<ops[k][1]>> \in Values <=> look \in {"NUM", "IDENT"} BY <1>2, <1>6, <1>8, Zenon
<1>10. look = "REG" => tok[2] \in RegNames BY <1>5, <1>6, TokenKinds, Zenon
<1>11. look = "NUM" => tok[2] \in Ints BY <1>5, <1>6, TokenKinds, Zenon
<1> QED BY <1>2, <1>5, <1>6, <1>7, <1>9, <1>10, <1>11, Zenon DEF ValueSeen

\* The word and the base that operands mean, by the place of the value and of the parenthesis.
LEMMA WordIs ==
  ASSUME NEW line \in SourceLines, NEW ops, NEW m, TakenFrom(ops, line, m)
  PROVE  /\ \A i \in 1 .. m : ValueSeen(line, i) /\ (\A k \in 1 .. m : ValueSeen(line, k) => k = i) =>
                                Word(ops) = Meant(TokenAt(line, i))
         /\ (\A k \in 1 .. m : ~ValueSeen(line, k)) => Word(ops) = 0
<1> DEFINE at == {k \in DOMAIN ops : <<ops[k][1]>> \in Values}
<1>1. DOMAIN ops = 1 .. m /\ \A k \in 1 .. m : ops[k] = TokenAt(line, k) BY Zenon DEF TakenFrom
<1>2. \A k : k \in at <=> k \in 1 .. m /\ ValueSeen(line, k) BY <1>1, OperandTypes, Zenon
<1>3. Word(ops) = IF at = {} THEN 0 ELSE Meant(ops[CHOOSE k \in at : TRUE]) BY Zenon DEF Word
<1> HIDE DEF at
<1>4. ASSUME NEW i \in 1 .. m, ValueSeen(line, i), \A k \in 1 .. m : ValueSeen(line, k) => k = i
      PROVE  Word(ops) = Meant(TokenAt(line, i))
  <2> DEFINE c == CHOOSE k \in at : TRUE
  <2>1. i \in at BY <1>2, <1>4, Zenon
  <2>2. c \in at BY <2>1, Zenon
  <2> HIDE DEF c
  <2>3. c = i BY <1>2, <1>4, <2>2, Zenon
  <2> QED BY <1>1, <1>3, <2>1, <2>3, Zenon DEF c
<1>5. ASSUME \A k \in 1 .. m : ~ValueSeen(line, k) PROVE Word(ops) = 0
  <2>1. at = {} BY <1>2, <1>5, Zenon
  <2> QED BY <1>3, <2>1, Zenon
<1> QED BY <1>4, <1>5, Zenon

LEMMA BaseIs ==
  ASSUME NEW line \in SourceLines, NEW ops, NEW m, TakenFrom(ops, line, m)
  PROVE  /\ \A i \in 1 .. m : Sees(line, i) = "(" /\ (\A k \in 1 .. m : Sees(line, k) = "(" => k = i)
                                 /\ i + 1 \in 1 .. m
                                => Base(ops) = RegAt(line, i + 1)
         /\ (\A k \in 1 .. m : Sees(line, k) # "(") => Base(ops) = REG_NONE
<1> DEFINE at == {k \in DOMAIN ops : ops[k] = <<"PUNCT", "(">>}
<1>1. DOMAIN ops = 1 .. m /\ \A k \in 1 .. m : ops[k] = TokenAt(line, k) BY Zenon DEF TakenFrom
<1>2. \A k : k \in at <=> k \in 1 .. m /\ Sees(line, k) = "("
  <2> DEFINE tok == <<"PUNCT", "(">>
  <2>1. \A k \in 1 .. m : ops[k] = tok <=> Sees(line, k) = "(" BY OperandTypes, Zenon
  <2>2. \A k : k \in at <=> k \in 1 .. m /\ ops[k] = tok BY <1>1, Zenon
  <2> HIDE DEF at, tok
  <2> QED BY <2>1, <2>2, Zenon
<1>3. Base(ops) = IF at = {} THEN REG_NONE ELSE find_register(ops[(CHOOSE k \in at : TRUE) + 1][2]) BY Zenon DEF Base
<1> HIDE DEF at
<1>4. ASSUME NEW i \in 1 .. m, Sees(line, i) = "(", \A k \in 1 .. m : Sees(line, k) = "(" => k = i, i + 1 \in 1 .. m
      PROVE  Base(ops) = RegAt(line, i + 1)
  <2> DEFINE c == CHOOSE k \in at : TRUE
  <2>1. i \in at BY <1>2, <1>4, Zenon
  <2>2. c \in at BY <2>1, Zenon
  <2> HIDE DEF c
  <2>3. c = i BY <1>2, <1>4, <2>2, Zenon
  <2> QED BY <1>1, <1>3, <1>4, <2>1, <2>3, Zenon DEF c, RegAt
<1>5. ASSUME \A k \in 1 .. m : Sees(line, k) # "(" PROVE Base(ops) = REG_NONE
  <2>1. at = {} BY <1>2, <1>5, Zenon
  <2> QED BY <1>3, <2>1, Zenon
<1> QED BY <1>4, <1>5, Zenon

\* The first and the last operand.
LEMMA EndsAre ==
  ASSUME NEW line, NEW ops, NEW m, TakenFrom(ops, line, m), m # 0
  PROVE  FirstReg(ops) = RegAt(line, 1) /\ LastReg(ops) = RegAt(line, m)
<1>1. m \in Nat /\ Len(ops) = m /\ \A k \in 1 .. m : ops[k] = TokenAt(line, k) BY Zenon DEF TakenFrom
<1>2. 1 \in 1 .. m /\ m \in 1 .. m BY <1>1
<1> QED BY <1>1, <1>2, Zenon DEF FirstReg, LastReg, RegAt

\* A value at place i or nowhere among m operands, and a base in parentheses right after it.
Based1(line, m, i) ==
  LET b == IF ValueSeen(line, i) THEN i + 1 ELSE i IN
  /\ \A k \in 1 .. m : ValueSeen(line, k) => k = i
  /\ \A k \in 1 .. m : Sees(line, k) = "(" => k = b
  /\ ValueSeen(line, i) => i \in 1 .. m
  /\ Sees(line, b) = "(" => b \in 1 .. m /\ b + 1 \in 1 .. m

LEMMA WordBase ==
  ASSUME NEW line \in SourceLines, NEW ops, NEW m, TakenFrom(ops, line, m), NEW i \in Nat \ {0}, Based1(line, m, i)
  PROVE  Word(ops) = WordAt(line, i) /\ Base(ops) = BaseAt(line, i)
<1> DEFINE b == IF ValueSeen(line, i) THEN i + 1 ELSE i
<1>1. /\ \A k \in 1 .. m : ValueSeen(line, k) => k = i
      /\ \A k \in 1 .. m : Sees(line, k) = "(" => k = b
      /\ ValueSeen(line, i) => i \in 1 .. m
      /\ Sees(line, b) = "(" => b \in 1 .. m /\ b + 1 \in 1 .. m
  BY Zenon DEF Based1
<1>2. Word(ops) = WordAt(line, i)
  <2>1. CASE ValueSeen(line, i) BY <1>1, <2>1, WordIs, Zenon DEF WordAt
  <2>2. CASE ~ValueSeen(line, i)
    <3>1. \A k \in 1 .. m : ~ValueSeen(line, k) BY <1>1, <2>2, Zenon
    <3> QED BY <2>2, <3>1, WordIs, Zenon DEF WordAt
  <2> QED BY <2>1, <2>2, Zenon
<1>3. BaseAt(line, i) = IF Sees(line, b) = "(" THEN RegAt(line, b + 1) ELSE REG_NONE
  <2>1. i + 1 + 1 = i + 2 OBVIOUS
  <2> QED BY <2>1, Zenon DEF BaseAt
<1> HIDE DEF b
<1>4. Base(ops) = BaseAt(line, i)
  <2>1. CASE Sees(line, b) = "("
    <3>1. b \in 1 .. m /\ b + 1 \in 1 .. m /\ \A k \in 1 .. m : Sees(line, k) = "(" => k = b BY <1>1, <2>1, Zenon
    <3>2. Base(ops) = RegAt(line, b + 1) BY <2>1, <3>1, BaseIs, Zenon
    <3> QED BY <1>3, <2>1, <3>2, Zenon
  <2>2. CASE Sees(line, b) # "("
    <3>1. \A k \in 1 .. m : Sees(line, k) # "(" BY <1>1, <2>2, Zenon
    <3> QED BY <1>3, <2>2, <3>1, BaseIs, Zenon
  <2> QED BY <2>1, <2>2, Zenon
<1> QED BY <1>2, <1>4, Zenon

\* The places of at most six operands.
LEMMA Few ==
  /\ \A k \in 1 .. 1 : k = 1
  /\ \A k \in 1 .. 2 : k = 1 \/ k = 2
  /\ \A k \in 1 .. 3 : k = 1 \/ k = 2 \/ k = 3
  /\ \A k \in 1 .. 5 : k = 1 \/ k = 2 \/ k = 3 \/ k = 4 \/ k = 5
  /\ \A k \in 1 .. 6 : k = 1 \/ k = 2 \/ k = 3 \/ k = 4 \/ k = 5 \/ k = 6
  /\ 1 \in 1 .. 1 /\ \A n \in {2, 3, 5, 6} : 1 \in 1 .. n /\ 2 \in 1 .. n
  /\ \A n \in {3, 5, 6} : 3 \in 1 .. n
  /\ \A n \in {5, 6} : 4 \in 1 .. n /\ 5 \in 1 .. n
  /\ 6 \in 1 .. 6
  /\ 1 + 1 = 2 /\ 2 + 1 = 3 /\ 3 + 1 = 4 /\ 4 + 1 = 5 /\ 5 + 1 = 6 /\ 6 + 1 = 7
OBVIOUS

\* The kinds that a line of a form has, and what does not follow them.
LEMMA Shown ==
  ASSUME NEW line \in SourceLines, LabelOk(line), IsStatement(line), NEW F \in Seq(Kinds), Matches(line, F)
  PROVE  /\ \A j \in 1 .. Len(F) : Sees(line, j) = F[j]
         /\ Name(line) = "rmmovq" => ~GoesAfter(F[Len(F)], Sees(line, Len(F) + 1))
<1>1. FirstOf(line.tokens) \in {1, 3} /\ Len(F) \in Nat BY LenProperties, Zenon DEF FirstOf
<1>2. FirstOf(line.tokens) + Len(F) + 1 = FirstOf(line.tokens) + (Len(F) + 1) BY <1>1
<1>3. \A next : GoesOn(F, next) <=> GoesAfter(F[Len(F)], next) BY DEF GoesOn, GoesAfter, Values
<1> QED BY <1>2, <1>3, MatchesMeans, Zenon DEF Sees

LEMMA RmOperands ==
  ASSUME NEW line \in SourceLines, LabelOk(line), IsStatement(line), Name(line) = "rmmovq",
         NEW F \in RmForms, F \in Seq(Kinds), Matches(line, F)
  PROVE  Sees(line, 1) = "REG" /\ Based1(line, Len(F), 3) /\ Len(F) # 0
<1> DEFINE S(k) == Sees(line, k)
           D == /\ \A x \in {"NUM", "IDENT"} : x # "(" /\ x # "REG" /\ x # "," /\ x # ")"
                /\ "(" # "REG" /\ "(" # "," /\ "(" # ")"
           G(m) == (\A j \in 1 .. m : S(j) = F[j]) /\ ~GoesAfter(F[m], S(m + 1))
<1>0. D OBVIOUS
<1>a. \A k : ValueSeen(line, k) <=> S(k) \in {"NUM", "IDENT"} BY Zenon DEF ValueSeen
<1>g. G(Len(F)) BY Shown, Zenon
<1> HIDE DEF S, D
<1>1. CASE F = <<"REG", ",">>
  <2> DEFINE T == <<"REG", ",">>
  <2>0. T[1] = "REG" /\ T[2] = "," /\ Len(T) = 2 /\ 2 # 0 OBVIOUS
  <2> HIDE DEF T
  <2>1. F[1] = "REG" /\ F[2] = "," /\ Len(F) = 2 /\ 2 # 0 BY <1>1, <2>0, Zenon DEF T
  <2>2. S(1) = "REG" /\ S(2) = "," /\ ~GoesAfter(",", S(3)) BY <1>g, <2>1, Few, Zenon
  <2>3. S(3) # "(" /\ S(3) \notin {"NUM", "IDENT"} BY <1>0, <2>2, Zenon DEF GoesAfter, D
  <2>4. Based1(line, 2, 3) BY <1>0, <1>a, <2>2, <2>3, Few, Zenon DEF Based1, S, D
  <2> QED BY <2>1, <2>2, <2>4, Zenon DEF S
<1>2. CASE \E v \in {"NUM", "IDENT"} : F = <<"REG", ",", v>>
  <2>0. PICK v \in {"NUM", "IDENT"} : F = <<"REG", ",", v>> BY <1>2
  <2> DEFINE T == <<"REG", ",", v>>
  <2>9. T[1] = "REG" /\ T[2] = "," /\ T[3] = v /\ Len(T) = 3 /\ 3 # 0 OBVIOUS
  <2> HIDE DEF T
  <2>1. F[1] = "REG" /\ F[2] = "," /\ F[3] = v /\ Len(F) = 3 /\ 3 # 0 BY <2>0, <2>9, Zenon DEF T
  <2>2. S(1) = "REG" /\ S(2) = "," /\ S(3) = v /\ ~GoesAfter(v, S(4)) BY <1>g, <2>1, Few, Zenon
  <2>3. S(4) # "(" BY <1>0, <2>2, Zenon DEF GoesAfter, D
  <2>4. Based1(line, 3, 3) BY <1>0, <1>a, <2>2, <2>3, Few, Zenon DEF Based1, S, D
  <2> QED BY <2>1, <2>2, <2>4, Zenon DEF S
<1>3. CASE F = <<"REG", ",", "(", "REG", ")">>
  <2> DEFINE T == <<"REG", ",", "(", "REG", ")">>
  <2>0. T[1] = "REG" /\ T[2] = "," /\ T[3] = "(" /\ T[4] = "REG" /\ T[5] = ")" /\ Len(T) = 5 /\ 5 # 0 OBVIOUS
  <2> HIDE DEF T
  <2>1. F[1] = "REG" /\ F[2] = "," /\ F[3] = "(" /\ F[4] = "REG" /\ F[5] = ")" /\ Len(F) = 5 /\ 5 # 0
    BY <1>3, <2>0, Zenon DEF T
  <2>2. S(1) = "REG" /\ S(2) = "," /\ S(3) = "(" /\ S(4) = "REG" /\ S(5) = ")" BY <1>g, <2>1, Few, Zenon
  <2>4. Based1(line, 5, 3) BY <1>0, <1>a, <2>2, Few, Zenon DEF Based1, S, D
  <2> QED BY <2>1, <2>2, <2>4, Zenon DEF S
<1>4. CASE \E v \in {"NUM", "IDENT"} : F = <<"REG", ",", v, "(", "REG", ")">>
  <2>0. PICK v \in {"NUM", "IDENT"} : F = <<"REG", ",", v, "(", "REG", ")">> BY <1>4
  <2> DEFINE T == <<"REG", ",", v, "(", "REG", ")">>
  <2>9. /\ T[1] = "REG" /\ T[2] = "," /\ T[3] = v /\ T[4] = "(" /\ T[5] = "REG" /\ T[6] = ")"
        /\ Len(T) = 6 /\ 6 # 0
    OBVIOUS
  <2> HIDE DEF T
  <2>1. F[1] = "REG" /\ F[2] = "," /\ F[3] = v /\ F[4] = "(" /\ F[5] = "REG" /\ F[6] = ")" /\ Len(F) = 6 /\ 6 # 0
    BY <2>0, <2>9, Zenon DEF T
  <2>2. S(1) = "REG" /\ S(2) = "," /\ S(3) = v /\ S(4) = "(" /\ S(5) = "REG" /\ S(6) = ")"
    BY <1>g, <2>1, Few, Zenon
  <2>4. Based1(line, 6, 3) BY <1>0, <1>a, <2>2, Few, Zenon DEF Based1, S, D
  <2> QED BY <2>1, <2>2, <2>4, Zenon DEF S
<1> QED BY <1>1, <1>2, <1>3, <1>4, Zenon DEF RmForms

LEMMA MrOperands ==
  ASSUME NEW line \in SourceLines, LabelOk(line), IsStatement(line),
         NEW F \in MrForms, F \in Seq(Kinds), Matches(line, F)
  PROVE  Based1(line, Len(F), 1) /\ Len(F) # 0 /\ Len(F) = Beyond(line, 1) + 1
<1> DEFINE S(k) == Sees(line, k)
           D == /\ \A x \in {"NUM", "IDENT"} : x # "(" /\ x # "REG" /\ x # "," /\ x # ")"
                /\ "(" # "REG" /\ "(" # "," /\ "(" # ")"
           G(m) == \A j \in 1 .. m : S(j) = F[j]
           B == IF S(1) \in {"NUM", "IDENT"} THEN IF S(2) = "(" THEN 5 ELSE 2 ELSE IF S(1) = "(" THEN 4 ELSE 1
<1>0. D OBVIOUS
<1>a. \A k : ValueSeen(line, k) <=> S(k) \in {"NUM", "IDENT"} BY Zenon DEF ValueSeen
<1>b. Beyond(line, 1) = B
  <2>1. 1 + 1 = 2 /\ 1 + 3 = 4 /\ 1 + 4 = 5 OBVIOUS
  <2> QED BY <2>1, Zenon DEF Beyond
<1>g. G(Len(F)) BY Shown, Zenon
<1> HIDE DEF S, D, B
<1>1. CASE F = <<",", "REG">>
  <2> DEFINE T == <<",", "REG">>
  <2>0. T[1] = "," /\ T[2] = "REG" /\ Len(T) = 2 /\ 2 # 0 OBVIOUS
  <2> HIDE DEF T
  <2>1. F[1] = "," /\ F[2] = "REG" /\ Len(F) = 2 /\ 2 # 0 BY <1>1, <2>0, Zenon DEF T
  <2>2. S(1) = "," /\ S(2) = "REG" BY <1>g, <2>1, Few, Zenon
  <2>5. B = 1 BY <1>0, <2>2, Zenon DEF D, B
  <2>3. B + 1 = 2 BY <2>5, Few, Zenon
  <2>4. Based1(line, 2, 1) BY <1>0, <1>a, <2>2, Few, Zenon DEF Based1, S, D
  <2> QED BY <1>b, <2>1, <2>3, <2>4, Zenon
<1>2. CASE \E v \in {"NUM", "IDENT"} : F = <<v, ",", "REG">>
  <2>0. PICK v \in {"NUM", "IDENT"} : F = <<v, ",", "REG">> BY <1>2
  <2> DEFINE T == <<v, ",", "REG">>
  <2>9. T[1] = v /\ T[2] = "," /\ T[3] = "REG" /\ Len(T) = 3 /\ 3 # 0 OBVIOUS
  <2> HIDE DEF T
  <2>1. F[1] = v /\ F[2] = "," /\ F[3] = "REG" /\ Len(F) = 3 /\ 3 # 0 BY <2>0, <2>9, Zenon DEF T
  <2>2. S(1) = v /\ S(2) = "," /\ S(3) = "REG" BY <1>g, <2>1, Few, Zenon
  <2>5. B = 2 BY <1>0, <2>2, Zenon DEF D, B
  <2>3. B + 1 = 3 BY <2>5, Few, Zenon
  <2>4. Based1(line, 3, 1) BY <1>0, <1>a, <2>2, Few, Zenon DEF Based1, S, D
  <2> QED BY <1>b, <2>1, <2>3, <2>4, Zenon
<1>3. CASE F = <<"(", "REG", ")", ",", "REG">>
  <2> DEFINE T == <<"(", "REG", ")", ",", "REG">>
  <2>0. T[1] = "(" /\ T[2] = "REG" /\ T[3] = ")" /\ T[4] = "," /\ T[5] = "REG" /\ Len(T) = 5 /\ 5 # 0 OBVIOUS
  <2> HIDE DEF T
  <2>1. F[1] = "(" /\ F[2] = "REG" /\ F[3] = ")" /\ F[4] = "," /\ F[5] = "REG" /\ Len(F) = 5 /\ 5 # 0
    BY <1>3, <2>0, Zenon DEF T
  <2>2. S(1) = "(" /\ S(2) = "REG" /\ S(3) = ")" /\ S(4) = "," /\ S(5) = "REG" BY <1>g, <2>1, Few, Zenon
  <2>5. B = 4 BY <1>0, <2>2, Zenon DEF D, B
  <2>3. B + 1 = 5 BY <2>5, Few, Zenon
  <2>4. Based1(line, 5, 1) BY <1>0, <1>a, <2>2, Few, Zenon DEF Based1, S, D
  <2> QED BY <1>b, <2>1, <2>3, <2>4, Zenon
<1>4. CASE \E v \in {"NUM", "IDENT"} : F = <<v, "(", "REG", ")", ",", "REG">>
  <2>0. PICK v \in {"NUM", "IDENT"} : F = <<v, "(", "REG", ")", ",", "REG">> BY <1>4
  <2> DEFINE T == <<v, "(", "REG", ")", ",", "REG">>
  <2>9. /\ T[1] = v /\ T[2] = "(" /\ T[3] = "REG" /\ T[4] = ")" /\ T[5] = "," /\ T[6] = "REG"
        /\ Len(T) = 6 /\ 6 # 0
    OBVIOUS
  <2> HIDE DEF T
  <2>1. F[1] = v /\ F[2] = "(" /\ F[3] = "REG" /\ F[4] = ")" /\ F[5] = "," /\ F[6] = "REG" /\ Len(F) = 6 /\ 6 # 0
    BY <2>0, <2>9, Zenon DEF T
  <2>2. S(1) = v /\ S(2) = "(" /\ S(3) = "REG" /\ S(4) = ")" /\ S(5) = "," /\ S(6) = "REG"
    BY <1>g, <2>1, Few, Zenon
  <2>5. B = 5 BY <1>0, <2>2, Zenon DEF D, B
  <2>3. B + 1 = 6 BY <2>5, Few, Zenon
  <2>4. Based1(line, 6, 1) BY <1>0, <1>a, <2>2, Few, Zenon DEF Based1, S, D
  <2> QED BY <1>b, <2>1, <2>3, <2>4, Zenon
<1> QED BY <1>1, <1>2, <1>3, <1>4, Zenon DEF MrForms

\* The operands of a line by their places, for each class of instructions.
Operated(line, class) ==
  LET ops == Operands(line) IN
  /\ class = "rm" => FirstReg(ops) = RegAt(line, 1) /\ Word(ops) = WordAt(line, 3) /\ Base(ops) = BaseAt(line, 3)
  /\ class = "mr" => /\ LastReg(ops) = RegAt(line, Beyond(line, 1) + 1)
                     /\ Word(ops) = WordAt(line, 1) /\ Base(ops) = BaseAt(line, 1)
  /\ class = "value to register" => Word(ops) = WordAt(line, 1) /\ LastReg(ops) = RegAt(line, 3)
  /\ class = "value" => Word(ops) = WordAt(line, 1)
  /\ class = "register to register" => FirstReg(ops) = RegAt(line, 1) /\ LastReg(ops) = RegAt(line, 3)
  /\ class = "register" => FirstReg(ops) = RegAt(line, 1)

LEMMA OperandsSeen ==
  ASSUME NEW line \in SourceLines, LabelOk(line), IsStatement(line), Name(line) \in InstrNames, HasForm(line)
  PROVE  Operated(line, Class(Name(line)))
<1> DEFINE name == Name(line)
           ops == Operands(line)
           S(k) == Sees(line, k)
<1>1. PICK F \in FormsOf(name) :
        /\ Matches(line, F) /\ F \in Seq(Kinds) /\ Len(F) \in Nat
        /\ FirstOf(line.tokens) + Len(F) <= Len(line.tokens)
        /\ DOMAIN ops = 1 .. Len(F) /\ Len(ops) = Len(F)
        /\ \A k \in 1 .. Len(F) : /\ ops[k] = TokenOf(line.tokens, FirstOf(line.tokens) + k)
                                  /\ Sees(line, k) = F[k]
  BY OperandsAre, Zenon
<1>2. TakenFrom(ops, line, Len(F)) BY <1>1, Zenon DEF TakenFrom, TokenAt
<1> HIDE DEF ops
<1>a. \A k : ValueSeen(line, k) <=> S(k) \in {"NUM", "IDENT"} BY Zenon DEF ValueSeen
<1>d. /\ "REG" \notin {"NUM", "IDENT"} /\ "," \notin {"NUM", "IDENT"} OBVIOUS
<1>e. /\ \A i \in {1, 3} : i \in Nat \ {0}
      /\ \A v \in {"NUM", "IDENT"} : v # "(" /\ "," # "(" /\ "REG" # "("
  OBVIOUS
<1>n. /\ "rm" \notin {"mr", "value to register", "value", "register to register", "register", "directive", "alone"}
      /\ "mr" \notin {"rm", "value to register", "value", "register to register", "register", "directive", "alone"}
      /\ "value to register" \notin {"rm", "mr", "value", "register to register", "register", "directive", "alone"}
      /\ "value" \notin {"rm", "mr", "value to register", "register to register", "register", "directive", "alone"}
      /\ "register to register" \notin {"rm", "mr", "value to register", "value", "register", "directive", "alone"}
      /\ "register" \notin {"rm", "mr", "value to register", "value", "register to register", "directive", "alone"}
      /\ "directive" \notin {"rm", "mr", "value to register", "value", "register to register", "register", "alone"}
      /\ "alone" \notin {"rm", "mr", "value to register", "value", "register to register", "register", "directive"}
  OBVIOUS
<1> HIDE DEF S
<1>3. CASE name = "rmmovq" /\ Class(name) = "rm"
  <2>1. F \in RmForms BY <1>1, <1>3, FormsAre, Zenon
  <2>2. Sees(line, 1) = "REG" /\ Based1(line, Len(F), 3) /\ Len(F) # 0 BY <1>1, <1>3, <2>1, RmOperands, Zenon
  <2>3. FirstReg(ops) = RegAt(line, 1) BY <1>2, <2>2, EndsAre, Zenon
  <2>4. Word(ops) = WordAt(line, 3) /\ Base(ops) = BaseAt(line, 3) BY <1>e, <1>2, <2>2, WordBase, Zenon
  <2> QED BY <1>n, <1>3, <2>3, <2>4, Zenon DEF Operated, ops
<1>4. CASE name = "mrmovq" /\ Class(name) = "mr"
  <2>1. F \in MrForms BY <1>1, <1>4, FormsAre, Zenon
  <2>2. Based1(line, Len(F), 1) /\ Len(F) # 0 /\ Len(F) = Beyond(line, 1) + 1 BY <1>1, <2>1, MrOperands, Zenon
  <2>3. LastReg(ops) = RegAt(line, Beyond(line, 1) + 1) BY <1>2, <2>2, EndsAre, Zenon
  <2>4. Word(ops) = WordAt(line, 1) /\ Base(ops) = BaseAt(line, 1) BY <1>e, <1>2, <2>2, WordBase, Zenon
  <2> QED BY <1>n, <1>4, <2>3, <2>4, Zenon DEF Operated, ops
<1>5. CASE name \in {"irmovq", "iaddq"} /\ Class(name) = "value to register"
  <2>1. F \in {<<"NUM", ",", "REG">>, <<"IDENT", ",", "REG">>} BY <1>1, <1>5, FormsAre, Zenon
  <2>2. PICK v \in {"NUM", "IDENT"} : F = <<v, ",", "REG">> BY <2>1, Zenon
  <2> DEFINE T == <<v, ",", "REG">>
  <2>3. T[1] = v /\ T[2] = "," /\ T[3] = "REG" /\ Len(T) = 3 /\ 3 # 0 OBVIOUS
  <2> HIDE DEF T
  <2>4. F[1] = v /\ F[2] = "," /\ F[3] = "REG" /\ Len(F) = 3 /\ 3 # 0 BY <2>2, <2>3, Zenon DEF T
  <2>5. S(1) = v /\ S(2) = "," /\ S(3) = "REG" BY <1>1, <2>4, Few, Zenon DEF S
  <2>6. Based1(line, 3, 1) BY <1>a, <1>d, <1>e, <2>5, Few, Zenon DEF Based1, S
  <2>7. LastReg(ops) = RegAt(line, 3) BY <1>2, <2>4, EndsAre, Zenon
  <2>8. Word(ops) = WordAt(line, 1) BY <1>e, <1>2, <2>4, <2>6, WordBase, Zenon
  <2> QED BY <1>n, <1>5, <2>7, <2>8, Zenon DEF Operated, ops
<1>6. CASE name \in VNames /\ Class(name) = "value"
  <2>1. F \in {<<"NUM">>, <<"IDENT">>} BY <1>1, <1>6, FormsAre, Zenon
  <2>2. PICK v \in {"NUM", "IDENT"} : F = <<v>> BY <2>1, Zenon
  <2> DEFINE T == <<v>>
  <2>3. T[1] = v /\ Len(T) = 1 OBVIOUS
  <2> HIDE DEF T
  <2>4. F[1] = v /\ Len(F) = 1 BY <2>2, <2>3, Zenon DEF T
  <2>5. S(1) = v BY <1>1, <2>4, Few, Zenon DEF S
  <2>6. Word(ops) = Meant(TokenAt(line, 1)) BY <1>a, <1>2, <2>4, <2>5, Few, WordIs, ZenonT(60)
  <2>7. Word(ops) = WordAt(line, 1) BY <1>a, <2>5, <2>6, Zenon DEF WordAt
  <2> QED BY <1>n, <1>6, <2>7, Zenon DEF Operated, ops
<1>7. CASE name \in RNames /\ Class(name) = "register to register"
  <2>1. F = <<"REG", ",", "REG">> BY <1>1, <1>7, FormsAre, Zenon
  <2> DEFINE T == <<"REG", ",", "REG">>
  <2>3. Len(T) = 3 /\ 3 # 0 OBVIOUS
  <2> HIDE DEF T
  <2>4. Len(F) = 3 /\ 3 # 0 BY <2>1, <2>3, Zenon DEF T
  <2>7. FirstReg(ops) = RegAt(line, 1) /\ LastReg(ops) = RegAt(line, 3) BY <1>2, <2>4, EndsAre, Zenon
  <2> QED BY <1>n, <1>7, <2>7, Zenon DEF Operated, ops
<1>8. CASE name \in {"pushq", "popq"} /\ Class(name) = "register"
  <2>1. F = <<"REG">> BY <1>1, <1>8, FormsAre, Zenon
  <2> DEFINE T == <<"REG">>
  <2>3. Len(T) = 1 /\ 1 # 0 OBVIOUS
  <2> HIDE DEF T
  <2>4. Len(F) = 1 /\ 1 # 0 BY <2>1, <2>3, Zenon DEF T
  <2>7. FirstReg(ops) = RegAt(line, 1) BY <1>2, <2>4, EndsAre, Zenon
  <2> QED BY <1>n, <1>8, <2>7, Zenon DEF Operated, ops
<1>9. CASE name \in Halts /\ Class(name) = "alone" BY <1>n, <1>9, Zenon DEF Operated
<1>10. ~(name \in {".pos", ".align"})
  BY DEF InstrNames, Moves, Jumps, Alus, Allocations
<1>11. name \in InstrNames \cup {".pos", ".align"} OBVIOUS
<1> QED BY <1>3, <1>4, <1>5, <1>6, <1>7, <1>8, <1>9, <1>10, <1>11, Classes, Zenon

\* A byte has two halves.
LEMMA Halves ==
  ASSUME NEW a \in 0 .. 15, NEW b \in 0 .. 15
  PROVE  HPACK(a, b) \in 0 .. 255 /\ HI4(HPACK(a, b)) = a /\ LO4(HPACK(a, b)) = b /\ HPACK(a, b) = a * 16 + b
<1>1. a % 16 = a /\ b % 16 = b OBVIOUS
<1>2. HPACK(a, b) = a * 16 + b BY <1>1 DEF HPACK
<1>3. (a * 16 + b) \div 16 = a /\ (a * 16 + b) % 16 = b OBVIOUS
<1> QED BY <1>2, <1>3 DEF HI4, LO4

LEMMA RegisterIs ==
  ASSUME NEW name \in RegNames
  PROVE  find_register(name) \in 0 .. 14
<1>1. \E id \in 0 .. 14 : reg_table[id + 1] = name BY Zenon DEF RegNames
<1> QED BY <1>1, Zenon DEF find_register

\* A register among the operands.
LEMMA RegSeen ==
  ASSUME NEW line \in SourceLines, tokens = line.tokens, NEW k \in Nat \ {0}, Sees(line, k) = "REG"
  PROVE  /\ find_register(Token(tpos0 + k)[2]) = RegAt(line, k)
         /\ RegAt(line, k) \in 0 .. 14
<1>1. line.tokens \in Seq(Tokens) /\ Len(line.tokens) \in Nat BY DEF SourceLines
<1>2. tpos0 = FirstOf(line.tokens) /\ tpos0 \in {1, 3} BY GoodSeen DEF tpos0
<1> DEFINE j == tpos0 + k
<1>3. j \in Nat \ {0} BY <1>2
<1>4. Token(j) = TokenOf(line.tokens, j) BY Zenon DEF Token, TokenOf
<1>5. Look(line.tokens, j) = "REG" BY <1>2, Zenon DEF Sees
<1> HIDE DEF j
<1>6. Token(j)[2] \in RegNames
  <2>1. j <= Len(line.tokens)
    <3>1. "REG" # "ERR" OBVIOUS
    <3>2. ~(j > Len(line.tokens)) BY <1>1, <1>3, <1>5, <3>1, LookKinds, Zenon
    <3> QED BY <1>1, <1>3, <3>2
  <2>2. j \in 1 .. Len(line.tokens) BY <1>1, <1>3, <2>1
  <2>3. line.tokens[j] \in Tokens BY <1>1, <2>2, ElementOfSeq, Zenon
  <2>4. line.tokens[j][1] = "REG" BY <1>1, <1>3, <1>5, <2>1, LookKinds, Zenon
  <2>5. line.tokens[j][2] \in RegNames BY <2>3, <2>4, TokenKinds, Zenon
  <2> QED BY <1>4, <2>1, <2>5, Zenon DEF TokenOf
<1> QED BY <1>2, <1>4, <1>6, RegisterIs, Zenon DEF RegAt, TokenAt, j

\* A symbol is found with the position of the first line that has it as its label.
LEMMA SymbolIs ==
  ASSUME NEW n \in Nat, DOMAIN source = 1 .. n, NEW m \in Nat, DOMAIN symbol_table = 1 .. m,
         NEW p, Enters(source, symbol_table, p, n), NEW name \in SymbolNames
  PROVE  /\ find_symbol(name) = p[Definition(name)]
         /\ Definition(name) \in 1 .. n /\ HasLabel(source[Definition(name)])
<1> DEFINE hits == {s \in DOMAIN symbol_table : symbol_table[s].name = name}
           c == CHOOSE s \in hits : \A other \in hits : s <= other
           Defines(k) == /\ HasLabel(source[k]) /\ LabelOf(source[k]) = name
                         /\ \A j \in 1 .. k - 1 : HasLabel(source[j]) => LabelOf(source[j]) # name
<1>1. hits # {} BY DEF SymbolNames
<1>2. hits \subseteq Nat BY <1>1
<1>3. \E s \in hits : \A other \in hits : s <= other BY <1>1, <1>2, LeastElement, Zenon
<1>4. c \in hits /\ \A other \in hits : c <= other BY <1>3, Zenon
<1>5. find_symbol(name) = symbol_table[c].pos BY <1>1, Zenon DEF find_symbol
<1> HIDE DEF c
<1>6. PICK at : Lists(source, symbol_table, p, n, at) BY Zenon DEF Enters
<1>7. \A s \in 1 .. m : /\ at[s] \in 1 .. n /\ HasLabel(source[at[s]])
                        /\ symbol_table[s] = Entry(source, p, at[s])
  BY <1>6, Zenon DEF Lists
<1>8. \A k : Entry(source, p, k).name = LabelOf(source[k]) /\ Entry(source, p, k).pos = p[k] BY DEF Entry
<1> DEFINE d == at[c]
<1>9. c \in 1 .. m /\ d \in 1 .. n /\ HasLabel(source[d]) /\ LabelOf(source[d]) = name /\ symbol_table[c].pos = p[d]
  BY <1>4, <1>7, <1>8, Zenon
<1>10. \A k \in 1 .. n : HasLabel(source[k]) /\ LabelOf(source[k]) = name => d <= k
  <2> SUFFICES ASSUME NEW k \in 1 .. n, HasLabel(source[k]), LabelOf(source[k]) = name PROVE d <= k OBVIOUS
  <2>1. PICK s \in 1 .. m : at[s] = k BY <1>6, Zenon DEF Lists
  <2>2. symbol_table[s].name = name BY <1>7, <1>8, <2>1, Zenon
  <2>3. c <= s BY <1>4, <2>2, Zenon
  <2>4. c < s => at[c] < at[s] BY <1>6, <1>9, <2>1, Zenon DEF Lists
  <2>5. c = s \/ c < s BY <1>9, <2>3
  <2>6. d = k \/ d < k BY <2>1, <2>4, <2>5, Zenon
  <2> QED BY <1>9, <2>6
<1> HIDE DEF d
<1>11. Defines(d)
  <2>1. \A j \in 1 .. d - 1 : j \in 1 .. n /\ ~(d <= j) BY <1>9
  <2> QED BY <1>9, <1>10, <2>1, Zenon
<1>12. \A k \in 1 .. n : Defines(k) => k = d
  <2> SUFFICES ASSUME NEW k \in 1 .. n, Defines(k) PROVE k = d OBVIOUS
  <2>1. d <= k BY <1>10, Zenon
  <2>2. ~(d \in 1 .. k - 1) BY <1>9, Zenon
  <2> QED BY <1>9, <2>1, <2>2
<1>13. Definition(name) = CHOOSE k \in 1 .. n : Defines(k) BY Zenon DEF Definition
<1>14. Definition(name) = d
  <2> DEFINE e == CHOOSE k \in 1 .. n : Defines(k)
  <2>1. e \in 1 .. n /\ Defines(e) BY <1>9, <1>11, Zenon
  <2> QED BY <1>12, <1>13, <2>1, Zenon
<1> QED BY <1>5, <1>9, <1>14, Zenon

\* The table gives the labels the positions that they have.
Resolves ==
  /\ SymbolNames \subseteq Labels
  /\ \A name \in SymbolNames : /\ find_symbol(name) = Positions[Definition(name)]
                               /\ Definition(name) \in DOMAIN source /\ HasLabel(source[Definition(name)])

LEMMA ValueIs ==
  ASSUME Resolves, NEW line \in SourceLines, tokens = line.tokens, NEW k \in Nat \ {0}, KnownAt(line, k)
  PROVE  WordAt(line, k) = IF IsValue(tpos0 + k) THEN Value(tpos0 + k) ELSE 0
<1>1. line.tokens \in Seq(Tokens) /\ Len(line.tokens) \in Nat BY DEF SourceLines
<1>2. tpos0 = FirstOf(line.tokens) /\ tpos0 \in {1, 3} BY GoodSeen DEF tpos0
<1> DEFINE j == tpos0 + k
<1>3. j \in Nat \ {0} BY <1>2
<1>4. Token(j) = TokenOf(line.tokens, j) BY Zenon DEF Token, TokenOf
<1>5. Token(j) = TokenAt(line, k) /\ Sees(line, k) = Look(tokens, j) BY <1>2, <1>4, Zenon DEF TokenAt, Sees
<1>6. IsValue(j) <=> ValueSeen(line, k) BY <1>1, <1>3, <1>5, Looks, Zenon DEF ValueSeen
<1>7. /\ Type(j) = "IDENT" <=> Sees(line, k) = "IDENT"
      /\ Type(j) = "NUM" <=> Sees(line, k) = "NUM"
  BY <1>1, <1>3, <1>5, Looks, Zenon
<1> HIDE DEF j
<1>8. CASE Type(j) = "IDENT"
  <2>1. Token(j)[2] \in SymbolNames BY <1>2, <1>5, <1>7, <1>8, Zenon DEF KnownAt, TokenAt
  <2>2. Value(j) = Positions[Definition(Token(j)[2])] BY <1>8, <2>1, Zenon DEF Resolves, Value
  <2>3. "IDENT" # "NUM" OBVIOUS
  <2>4. Meant(Token(j)) = Positions[Definition(Token(j)[2])] BY <1>8, <2>3, Zenon DEF Meant, Type
  <2> QED BY <1>5, <1>6, <1>8, <2>2, <2>4, Zenon DEF WordAt, IsValue, j
<1>9. CASE Type(j) = "NUM"
  <2>1. "IDENT" # "NUM" OBVIOUS
  <2>2. Value(j) = Token(j)[2] /\ Meant(Token(j)) = Token(j)[2] BY <1>9, <2>1, Zenon DEF Value, Meant, Type
  <2> QED BY <1>5, <1>6, <1>9, <2>2, Zenon DEF WordAt, IsValue, j
<1>10. CASE Type(j) \notin {"NUM", "IDENT"}
  <2>1. ~IsValue(j) BY <1>10, Zenon DEF IsValue
  <2> QED BY <1>6, <2>1, Zenon DEF WordAt, j
<1> QED BY <1>8, <1>9, <1>10, Zenon

\* The register that get_mem puts in the low half, if there is a base or none.
LEMMA BaseSeen ==
  ASSUME NEW line \in SourceLines, tokens = line.tokens, NEW k \in Nat \ {0}, MemoryAt(line, k, k + 1, k + 2, k + 3)
  PROVE  LET b == Based(tpos0 + k) IN
         /\ BaseAt(line, k) = IF Punct(b, "(") THEN find_register(Token(b + 1)[2]) ELSE REG_NONE
         /\ BaseAt(line, k) \in 0 .. 15
<1> DEFINE f == tpos0
           b == Based(f + k)
           i == IF ValueSeen(line, k) THEN k + 1 ELSE k
<1>1. line.tokens \in Seq(Tokens) BY DEF SourceLines
<1>2. f = FirstOf(line.tokens) /\ f \in {1, 3} BY GoodSeen DEF tpos0
<1>3. f + k \in Nat \ {0} /\ i \in Nat \ {0} /\ f + i \in Nat \ {0} /\ f + i + 1 = f + (i + 1) /\ i + 1 \in Nat \ {0}
  BY <1>2
<1>4. IsValue(f + k) <=> ValueSeen(line, k) BY <1>1, <1>2, <1>3, Looks, Zenon DEF ValueSeen, Sees
<1>5. b = f + i
  <2>1. f + k + 1 = f + (k + 1) BY <1>2
  <2> QED BY <1>4, <2>1, Zenon DEF Based
<1>6. Punct(f + i, "(") <=> Sees(line, i) = "("
  <2>1. Punct(f + i, "(") <=> Look(tokens, f + i) = "(" BY <1>1, <1>3, Looks, Zenon
  <2> QED BY <1>2, <2>1, Zenon DEF Sees
<1>7. BaseAt(line, k) = IF Sees(line, i) = "(" THEN RegAt(line, i + 1) ELSE REG_NONE
  <2>1. k + 1 + 1 = k + 2 OBVIOUS
  <2> QED BY <2>1, Zenon DEF BaseAt
<1>8. Sees(line, i) = "(" => Sees(line, i + 1) = "REG"
  <2>1. k + 1 + 1 = k + 2 OBVIOUS
  <2> QED BY <2>1, Zenon DEF MemoryAt, ValueSeen
<1> HIDE DEF b, i, f
<1>9. CASE Sees(line, i) = "("
  <2>1. find_register(Token(f + (i + 1))[2]) = RegAt(line, i + 1) /\ RegAt(line, i + 1) \in 0 .. 14
    BY <1>3, <1>8, <1>9, RegSeen, Zenon DEF f
  <2>2. RegAt(line, i + 1) \in 0 .. 15 BY <2>1
  <2> QED BY <1>3, <1>5, <1>6, <1>7, <1>9, <2>1, <2>2, Zenon DEF b, f
<1>10. CASE Sees(line, i) # "("
  <2>1. REG_NONE \in 0 .. 15 BY DEF REG_NONE
  <2> QED BY <1>5, <1>6, <1>7, <1>10, <2>1, Zenon DEF b, f
<1> QED BY <1>9, <1>10, Zenon

\* What an operand of a kind writes, when there is no error in it.
BaseRead(t) == IF Punct(Based(t), "(") THEN find_register(Token(Based(t) + 1)[2]) ELSE REG_NONE
WordRead(t) == IF IsValue(t) THEN Value(t) ELSE 0
Writes(cd, t, arg) ==
  CASE arg.kind = "R_ARG" -> RegCode(cd, t, arg)
    [] arg.kind = "I_ARG" -> NumCode(cd, t, arg)
    [] arg.kind = "M_ARG" -> MemCode(cd, t, arg, BaseRead(t))
    [] arg.kind = "NO_ARG" -> cd
OkWith(enc, cd, t) == \E fl, pr : enc = Enc(cd, t, fl, pr) /\ fl = FALSE /\ pr = TRUE

LEMMA OperandWrites ==
  ASSUME NEW enc, NEW cd, NEW t, OkWith(enc, cd, t), NEW arg, arg.kind \in ArgKinds, Good(arg.kind, t)
  PROVE  OkWith(Operand(enc, arg), Writes(cd, t, arg), Past(arg.kind, t))
<1>1. PICK fl, pr : enc = Enc(cd, t, fl, pr) /\ fl = FALSE /\ pr = TRUE BY Zenon DEF OkWith
<1> DEFINE un == fl \/ Unknown(t)
<1>0. un = (fl \/ Unknown(t)) /\ (~Unknown(t) => un = FALSE) BY <1>1 DEF Unknown
<1> HIDE DEF un
<1>2. CASE arg.kind = "R_ARG"
  <2>1. Operand(enc, arg) = get_reg(enc, arg) /\ Writes(cd, t, arg) = RegCode(cd, t, arg) BY <1>2 DEF Operand, Writes
  <2>2. Past(arg.kind, t) = t + 1 /\ Type(t) = "REG" BY <1>2 DEF Past, Good
  <2>3. RegRead(cd, t, fl, pr, arg) BY GetReg, Zenon
  <2>4. get_reg(enc, arg) = Enc(RegCode(cd, t, arg), t + 1, fl, pr) BY <1>1, <2>2, <2>3, Zenon DEF RegRead
  <2> QED BY <1>1, <2>1, <2>2, <2>4, Zenon DEF OkWith
<1>3. CASE arg.kind = "I_ARG"
  <2>1. Operand(enc, arg) = get_num(enc, arg) /\ Writes(cd, t, arg) = NumCode(cd, t, arg) BY <1>3 DEF Operand, Writes
  <2>2. Past(arg.kind, t) = t + 1 /\ IsValue(t) /\ ~Unknown(t) BY <1>3 DEF Past, Good
  <2>3. NumRead(cd, t, fl, pr, arg, un) BY <1>0, GetNum, Zenon
  <2>4. get_num(enc, arg) = Enc(NumCode(cd, t, arg), t + 1, un, pr) BY <1>1, <2>2, <2>3, Zenon DEF NumRead
  <2> QED BY <1>0, <1>1, <2>1, <2>2, <2>4, Zenon DEF OkWith
<1>4. CASE arg.kind = "M_ARG"
  <2> DEFINE b == Based(t)
             rval == BaseRead(t)
  <2>1. Operand(enc, arg) = get_mem(enc, arg) /\ Writes(cd, t, arg) = MemCode(cd, t, arg, rval)
    BY <1>4 DEF Operand, Writes
  <2>2. /\ Past(arg.kind, t) = IF Punct(b, "(") THEN b + 3 ELSE b
        /\ ~Unknown(t) /\ (Punct(b, "(") => Type(b + 1) = "REG" /\ Punct(b + 2, ")"))
    BY <1>4 DEF Past, Good
  <2>3. MemRead(cd, t, fl, pr, arg, un) BY <1>0, GetMem, Zenon
  <2> HIDE DEF b
  <2>4. CASE Punct(b, "(")
    <3>1. rval = find_register(Token(b + 1)[2]) BY <2>4, Zenon DEF BaseRead, b
    <3> HIDE DEF rval
    <3>2. get_mem(enc, arg) = Enc(MemCode(cd, t, arg, rval), b + 3, un, pr)
      BY <1>1, <2>2, <2>3, <2>4, <3>1, Zenon DEF MemRead, b
    <3> QED BY <1>0, <1>1, <2>1, <2>2, <2>4, <3>2, Zenon DEF OkWith
  <2>5. CASE ~Punct(b, "(")
    <3>1. rval = REG_NONE BY <2>5, Zenon DEF BaseRead, b
    <3> HIDE DEF rval
    <3>2. get_mem(enc, arg) = Enc(MemCode(cd, t, arg, rval), b, un, pr)
      BY <1>1, <2>2, <2>3, <2>5, <3>1, Zenon DEF MemRead, b
    <3> QED BY <1>0, <1>1, <2>1, <2>2, <2>5, <3>2, Zenon DEF OkWith
  <2> QED BY <2>4, <2>5, Zenon
<1>5. CASE arg.kind = "NO_ARG"
  <2>1. Operand(enc, arg) = enc /\ Past(arg.kind, t) = t /\ Writes(cd, t, arg) = cd BY <1>5 DEF Operand, Past, Writes
  <2> QED BY <2>1, Zenon
<1> QED BY <1>2, <1>3, <1>4, <1>5, Zenon DEF ArgKinds

LEMMA MovedWith ==
  ASSUME NEW enc, NEW cd, NEW t, OkWith(enc, cd, t), NEW x
  PROVE  OkWith([enc EXCEPT !.tpos = x], cd, x) /\ enc.tpos = t /\ enc.code = cd
<1>1. PICK fl, pr : enc = Enc(cd, t, fl, pr) /\ fl = FALSE /\ pr = TRUE BY Zenon DEF OkWith
<1>2. enc = Enc(cd, t, fl, pr) BY <1>1, Zenon
<1>3. [enc EXCEPT !.tpos = x] = Enc(cd, x, fl, pr) /\ enc.tpos = t /\ enc.code = cd BY <1>2 DEF Enc
<1> QED BY <1>1, <1>3, Zenon DEF OkWith

LEMMA EncodeWrites ==
  ASSUME NEW instr, NEW t, instr.arg1.kind \in ArgKinds, instr.arg2.kind \in ArgKinds, Good(instr.arg1.kind, t),
         instr.arg2.kind # "NO_ARG" =>
           Punct(Past(instr.arg1.kind, t), ",") /\ Good(instr.arg2.kind, Past(instr.arg1.kind, t) + 1)
  PROVE  LET first == Writes(Opcode(instr), t, instr.arg1) IN
         Encode(instr, t).code = IF instr.arg2.kind = "NO_ARG" THEN first
                                 ELSE Writes(first, Past(instr.arg1.kind, t) + 1, instr.arg2)
<1> DEFINE k1 == instr.arg1.kind
           k2 == instr.arg2.kind
           comma == Past(k1, t)
           c0 == Opcode(instr)
           e0 == Enc(c0, t, FALSE, TRUE)
           e1 == Operand(e0, instr.arg1)
           e2 == SecondOperand(e1, instr.arg2)
           first == Writes(c0, t, instr.arg1)
<1>1. Encode(instr, t) = e2 BY Zenon DEF Encode, Enc
<1>2. OkWith(e0, c0, t)
  <2>1. ASSUME NEW no, NEW yes, no = FALSE, yes = TRUE PROVE OkWith(Enc(c0, t, no, yes), c0, t)
    BY <2>1, Zenon DEF OkWith
  <2> QED BY <2>1, Zenon
<1> HIDE DEF e0, c0
<1>3. OkWith(e1, first, comma) BY <1>2, OperandWrites, Zenon
<1> HIDE DEF e1, comma, first
<1>4. CASE k2 = "NO_ARG"
  <2>1. e2 = e1 BY <1>4 DEF SecondOperand
  <2> HIDE DEF e2
  <2>2. e2.code = first BY <1>3, <2>1, MovedWith, Zenon
  <2> QED BY <1>1, <1>4, <2>2, Zenon DEF first, c0
<1>5. CASE k2 # "NO_ARG"
  <2> DEFINE asked == Punct(e1.tpos, ",")
             moved == [e1 EXCEPT !.tpos = e1.tpos + 1]
  <2>1. e2 = IF asked THEN Operand(moved, instr.arg2) ELSE [Failed(e1) EXCEPT !.printed = FALSE]
    BY <1>5 DEF SecondOperand
  <2>2. e1.tpos = comma BY <1>3, MovedWith, Zenon
  <2>3. Punct(comma, ",") /\ Good(k2, comma + 1) BY <1>5, Zenon DEF comma
  <2>4. OkWith(moved, first, comma + 1) BY <1>3, <2>2, MovedWith, Zenon
  <2> HIDE DEF moved, e2
  <2>5. OkWith(Operand(moved, instr.arg2), Writes(first, comma + 1, instr.arg2), Past(k2, comma + 1))
    BY <2>3, <2>4, OperandWrites, Zenon
  <2>6. e2.code = Writes(first, comma + 1, instr.arg2) BY <2>1, <2>2, <2>3, <2>5, MovedWith, Zenon
  <2> QED BY <1>1, <1>5, <2>6, Zenon DEF first, c0, comma
<1> QED BY <1>4, <1>5, Zenon

\* What writing does to the bytes of a code.
IsCode(cd) == DOMAIN cd = 0 .. 9
Spread(cd, at, val) == \A i \in 0 .. 7 : cd[at + i] = Byte(val, i)

SetsHi(w, cd, r) == IsCode(w) /\ w[1] = HPACK(r, LO4(cd[1])) /\ \A i \in 0 .. 9 : i # 1 => w[i] = cd[i]
SetsLo(w, cd, r) == IsCode(w) /\ w[1] = HPACK(HI4(cd[1]), r) /\ \A i \in 0 .. 9 : i # 1 => w[i] = cd[i]
SetsMem(w, cd, base, val) ==
  IsCode(w) /\ w[0] = cd[0] /\ w[1] = HPACK(HI4(cd[1]), base) /\ Spread(w, 2, val)
SetsWord(w, cd, pos, val) == IsCode(w) /\ w[0] = cd[0] /\ (pos = 2 => w[1] = cd[1]) /\ Spread(w, pos, val)
SetsData(w, n, val) == IsCode(w) /\ \A i \in 0 .. n - 1 : w[i] = Byte(val, i)

LEMMA WritesReg ==
  ASSUME NEW cd, IsCode(cd), NEW t
  PROVE  /\ SetsHi(Writes(cd, t, HiReg), cd, find_register(Token(t)[2]))
         /\ SetsLo(Writes(cd, t, LoReg), cd, find_register(Token(t)[2]))
<1> DEFINE r == find_register(Token(t)[2])
           x == HPACK(r, LO4(cd[1]))
           y == HPACK(HI4(cd[1]), r)
<1>1. HiReg.kind = "R_ARG" /\ HiReg.pos = 1 /\ HiReg.hi = 1 /\ LoReg.kind = "R_ARG" /\ LoReg.pos = 1 /\ LoReg.hi = 0
  BY DEF HiReg, LoReg, Arg
<1>2. Writes(cd, t, HiReg) = RegCode(cd, t, HiReg) /\ Writes(cd, t, LoReg) = RegCode(cd, t, LoReg) BY <1>1 DEF Writes
<1>3. RegCode(cd, t, HiReg) = [cd EXCEPT ![1] = x] BY <1>1 DEF RegCode
<1>4. RegCode(cd, t, LoReg) = [cd EXCEPT ![1] = y] BY <1>1 DEF RegCode
<1> HIDE DEF x, y
<1> DEFINE u == [cd EXCEPT ![1] = x]
           v == [cd EXCEPT ![1] = y]
<1>5. IsCode(u) /\ u[1] = x /\ \A i \in 0 .. 9 : i # 1 => u[i] = cd[i] BY DEF IsCode
<1>6. IsCode(v) /\ v[1] = y /\ \A i \in 0 .. 9 : i # 1 => v[i] = cd[i] BY DEF IsCode
<1>7. Writes(cd, t, HiReg) = u /\ Writes(cd, t, LoReg) = v BY <1>2, <1>3, <1>4, Zenon
<1> HIDE DEF u, v
<1> QED BY <1>5, <1>6, <1>7, Zenon DEF x, y, r, SetsHi, SetsLo

LEMMA PutEight ==
  ASSUME NEW cd, NEW val, NEW pos \in {1, 2}
  PROVE  SetsWord(Put(cd, pos, 8, val), cd, pos, val)
<1> DEFINE B(i) == Byte(val, i)
           w == Put(cd, pos, 8, val)
<1>1. w = [i \in 0 .. 9 |-> IF i \in pos .. pos + 8 - 1 THEN B(i - pos) ELSE cd[i]] BY Zenon DEF Put
<1> HIDE DEF w, B
<1>2. IsCode(w) /\ \A i \in 0 .. 9 : w[i] = IF i \in pos .. pos + 8 - 1 THEN B(i - pos) ELSE cd[i]
  BY <1>1 DEF IsCode
<1>3. \A i \in 0 .. 7 : pos + i \in 0 .. 9 /\ pos + i \in pos .. pos + 8 - 1 /\ (pos + i) - pos = i OBVIOUS
<1>4. 0 \in 0 .. 9 /\ 1 \in 0 .. 9 /\ ~(0 \in pos .. pos + 8 - 1) /\ (pos = 2 => ~(1 \in pos .. pos + 8 - 1)) OBVIOUS
<1>5. Spread(w, pos, val) BY <1>2, <1>3, Zenon DEF B, Spread
<1> QED BY <1>2, <1>4, <1>5, Zenon DEF w, SetsWord

LEMMA PutData ==
  ASSUME NEW cd, NEW val, NEW n \in {1, 2, 4, 8}
  PROVE  SetsData(Put(cd, 0, n, val), n, val)
<1> DEFINE B(i) == Byte(val, i)
           w == Put(cd, 0, n, val)
<1>1. w = [i \in 0 .. 9 |-> IF i \in 0 .. 0 + n - 1 THEN B(i - 0) ELSE cd[i]] BY Zenon DEF Put
<1> HIDE DEF w, B
<1>2. IsCode(w) /\ \A i \in 0 .. 9 : w[i] = IF i \in 0 .. 0 + n - 1 THEN B(i - 0) ELSE cd[i]
  BY <1>1 DEF IsCode
<1>3. \A i \in 0 .. n - 1 : i \in 0 .. 9 /\ i \in 0 .. 0 + n - 1 /\ i - 0 = i OBVIOUS
<1>4. \A i \in 0 .. n - 1 : w[i] = Byte(val, i) BY <1>2, <1>3, Zenon DEF B
<1> QED BY <1>2, <1>4, Zenon DEF w, SetsData

LEMMA WritesNum ==
  ASSUME NEW cd, NEW t, NEW pos \in Nat, NEW n \in Nat, IsValue(t)
  PROVE  Writes(cd, t, Imm(pos, n)) = Put(cd, pos, n, Value(t))
<1>1. Imm(pos, n).kind = "I_ARG" /\ Imm(pos, n).pos = pos /\ Imm(pos, n).hi = n BY DEF Imm, Arg
<1>2. Writes(cd, t, Imm(pos, n)) = NumCode(cd, t, Imm(pos, n)) BY <1>1 DEF Writes
<1> QED BY <1>1, <1>2, Zenon DEF NumCode

LEMMA WritesMem ==
  ASSUME NEW cd, IsCode(cd), NEW t
  PROVE  SetsMem(Writes(cd, t, Memory), cd, BaseRead(t), WordRead(t))
<1> DEFINE rval == BaseRead(t)
           val == WordRead(t)
           x == HPACK(HI4(cd[1]), rval)
           c1 == [cd EXCEPT ![1] = x]
           w == Put(c1, 2, 8, val)
<1>1. Memory.kind = "M_ARG" /\ Memory.pos = 1 BY DEF Memory, Arg
<1>2. Writes(cd, t, Memory) = MemCode(cd, t, Memory, rval) BY <1>1 DEF Writes
<1> HIDE DEF rval
<1>3. MemCode(cd, t, Memory, rval) = w
  <2>1. 1 + 1 = 2 OBVIOUS
  <2> QED BY <1>1, <2>1, Zenon DEF MemCode, WordRead
<1> HIDE DEF x, val
<1>4. IsCode(c1) /\ c1[1] = x /\ \A i \in 0 .. 9 : i # 1 => c1[i] = cd[i] BY DEF IsCode
<1> HIDE DEF c1
<1>5. /\ 2 \in Nat /\ 8 \in Nat /\ 0 \in 0 .. 9 /\ 1 \in 0 .. 9 /\ ~(0 \in 2 .. 2 + 8 - 1) /\ ~(1 \in 2 .. 2 + 8 - 1)
      /\ 0 # 1 /\ \A i \in 0 .. 7 : i \in 0 .. 8 - 1 /\ 2 + i \in 0 .. 9
  OBVIOUS
<1>6. /\ IsCode(w)
      /\ \A i \in 0 .. 9 : ~(i \in 2 .. 2 + 8 - 1) => w[i] = c1[i]
      /\ \A i \in 0 .. 8 - 1 : 2 + i \in 0 .. 9 => w[2 + i] = Byte(val, i)
  <2> DEFINE B(i) == Byte(val, i)
  <2>1. w = [i \in 0 .. 9 |-> IF i \in 2 .. 2 + 8 - 1 THEN B(i - 2) ELSE c1[i]] BY Zenon DEF Put
  <2> HIDE DEF w, B
  <2>2. IsCode(w) /\ \A i \in 0 .. 9 : w[i] = IF i \in 2 .. 2 + 8 - 1 THEN B(i - 2) ELSE c1[i]
    BY <2>1 DEF IsCode
  <2>3. \A i \in 0 .. 8 - 1 : 2 + i \in 0 .. 9 => 2 + i \in 2 .. 2 + 8 - 1 /\ (2 + i) - 2 = i OBVIOUS
  <2> QED BY <2>2, <2>3, Zenon DEF B
<1> HIDE DEF w
<1>7. IsCode(w) /\ w[0] = cd[0] /\ w[1] = x /\ Spread(w, 2, val) BY <1>4, <1>5, <1>6, Zenon DEF Spread
<1> QED BY <1>2, <1>3, <1>7, Zenon DEF x, val, rval, SetsMem

\* The rows of instruction_set that the names have.
IsRow(nm, c, arg1, arg2) == find_instr(nm).code = c /\ find_instr(nm).arg1 = arg1 /\ find_instr(nm).arg2 = arg2

LEMMA Rows ==
  /\ IsRow("rmmovq", HPACK(I_RMMOVQ, F_NONE), HiReg, Memory)
  /\ IsRow("mrmovq", HPACK(I_MRMOVQ, F_NONE), Memory, HiReg)
  /\ IsRow("irmovq", HPACK(I_IRMOVQ, F_NONE), Imm(2, 8), LoReg)
  /\ IsRow("iaddq", HPACK(I_IADDQ, F_NONE), Imm(2, 8), LoReg)
  /\ \A nm \in DOMAIN Jumps : IsRow(nm, HPACK(I_JMP, Jumps[nm]), Imm(1, 8), NoArg)
  /\ IsRow("call", HPACK(I_CALL, F_NONE), Imm(1, 8), NoArg)
  /\ \A nm \in DOMAIN Allocations : IsRow(nm, 0, Imm(0, Allocations[nm]), NoArg)
  /\ \A nm \in DOMAIN Moves : IsRow(nm, HPACK(I_RRMOVQ, Moves[nm]), HiReg, LoReg)
  /\ \A nm \in DOMAIN Alus : IsRow(nm, HPACK(I_ALU, Alus[nm]), HiReg, LoReg)
  /\ IsRow("pushq", HPACK(I_PUSHQ, F_NONE), HiReg, NoArg)
  /\ IsRow("popq", HPACK(I_POPQ, F_NONE), HiReg, NoArg)
  /\ IsRow("nop", HPACK(I_NOP, F_NONE), NoArg, NoArg)
  /\ IsRow("halt", HPACK(I_HALT, F_NONE), NoArg, NoArg)
  /\ IsRow("ret", HPACK(I_RET, F_NONE), NoArg, NoArg)
<1> USE DEF find_instr, IsRow, Row, Moves, Jumps, Alus, Allocations
<1>1. IsRow("rmmovq", HPACK(I_RMMOVQ, F_NONE), HiReg, Memory) /\ IsRow("mrmovq", HPACK(I_MRMOVQ, F_NONE), Memory, HiReg)
  OBVIOUS
<1>2. IsRow("irmovq", HPACK(I_IRMOVQ, F_NONE), Imm(2, 8), LoReg)
      /\ IsRow("iaddq", HPACK(I_IADDQ, F_NONE), Imm(2, 8), LoReg)
  OBVIOUS
<1>3. ASSUME NEW nm \in DOMAIN Jumps PROVE IsRow(nm, HPACK(I_JMP, Jumps[nm]), Imm(1, 8), NoArg) OBVIOUS
<1>4. IsRow("call", HPACK(I_CALL, F_NONE), Imm(1, 8), NoArg) OBVIOUS
<1>5. ASSUME NEW nm \in DOMAIN Allocations PROVE IsRow(nm, 0, Imm(0, Allocations[nm]), NoArg) OBVIOUS
<1>6. ASSUME NEW nm \in DOMAIN Moves PROVE IsRow(nm, HPACK(I_RRMOVQ, Moves[nm]), HiReg, LoReg) OBVIOUS
<1>7. ASSUME NEW nm \in DOMAIN Alus PROVE IsRow(nm, HPACK(I_ALU, Alus[nm]), HiReg, LoReg) OBVIOUS
<1>8. IsRow("pushq", HPACK(I_PUSHQ, F_NONE), HiReg, NoArg) /\ IsRow("popq", HPACK(I_POPQ, F_NONE), HiReg, NoArg) OBVIOUS
<1>9. IsRow("nop", HPACK(I_NOP, F_NONE), NoArg, NoArg) /\ IsRow("halt", HPACK(I_HALT, F_NONE), NoArg, NoArg)
      /\ IsRow("ret", HPACK(I_RET, F_NONE), NoArg, NoArg)
  OBVIOUS
<1> HIDE DEF find_instr, IsRow, Row, Moves, Jumps, Alus, Allocations
<1> QED BY <1>1, <1>2, <1>3, <1>4, <1>5, <1>6, <1>7, <1>8, <1>9, Zenon

\* What the instructions mean.
Means(line, icode, ifun, rA, rB, valC) ==
  LET m == Meaning(line) IN
  /\ m.icode = icode /\ m.ifun = ifun /\ m.rA = rA /\ m.rB = rB /\ m.valC = valC
  /\ DOMAIN m = {"icode", "ifun", "rA", "rB", "valC"}

LEMMA Meanings ==
  ASSUME NEW line
  PROVE  LET nm == Name(line)
             ops == Operands(line)
         IN /\ nm = "rmmovq" => Means(line, I_RMMOVQ, F_NONE, FirstReg(ops), Base(ops), Word(ops))
            /\ nm = "mrmovq" => Means(line, I_MRMOVQ, F_NONE, LastReg(ops), Base(ops), Word(ops))
            /\ nm = "irmovq" => Means(line, I_IRMOVQ, F_NONE, REG_NONE, LastReg(ops), Word(ops))
            /\ nm = "iaddq" => Means(line, I_IADDQ, F_NONE, REG_NONE, LastReg(ops), Word(ops))
            /\ nm \in DOMAIN Jumps => Means(line, I_JMP, Jumps[nm], REG_NONE, REG_NONE, Word(ops))
            /\ nm = "call" => Means(line, I_CALL, F_NONE, REG_NONE, REG_NONE, Word(ops))
            /\ nm \in DOMAIN Moves => Means(line, I_RRMOVQ, Moves[nm], FirstReg(ops), LastReg(ops), 0)
            /\ nm \in DOMAIN Alus => Means(line, I_ALU, Alus[nm], FirstReg(ops), LastReg(ops), 0)
            /\ nm = "pushq" => Means(line, I_PUSHQ, F_NONE, FirstReg(ops), REG_NONE, 0)
            /\ nm = "popq" => Means(line, I_POPQ, F_NONE, FirstReg(ops), REG_NONE, 0)
            /\ nm = "nop" => Means(line, I_NOP, F_NONE, REG_NONE, REG_NONE, 0)
            /\ nm = "halt" => Means(line, I_HALT, F_NONE, REG_NONE, REG_NONE, 0)
            /\ nm = "ret" => Means(line, I_RET, F_NONE, REG_NONE, REG_NONE, 0)
<1> DEFINE nm == Name(line)
           ops == Operands(line)
           f == FirstReg(ops)
           l == LastReg(ops)
           w == Word(ops)
           b == Base(ops)
<1>0. ASSUME NEW ic, NEW fn, NEW ra, NEW rb, NEW v, Meaning(line) = Does(ic, fn, ra, rb, v)
      PROVE  Means(line, ic, fn, ra, rb, v)
  BY <1>0 DEF Does, Means
<1> HIDE DEF nm, f, l, w, b
<1> USE DEF Moves, Jumps, Alus, Meaning, nm, f, l, w, b
<1>1. nm = "rmmovq" => Means(line, I_RMMOVQ, F_NONE, f, b, w)
  <2>1. nm = "rmmovq" => Meaning(line) = Does(I_RMMOVQ, F_NONE, f, b, w) OBVIOUS
  <2> HIDE DEF Moves, Jumps, Alus, Meaning, nm, f, l, w, b
  <2> QED BY <1>0, <2>1, Zenon
<1>2. nm = "mrmovq" => Means(line, I_MRMOVQ, F_NONE, l, b, w)
  <2>1. nm = "mrmovq" => Meaning(line) = Does(I_MRMOVQ, F_NONE, l, b, w) OBVIOUS
  <2> HIDE DEF Moves, Jumps, Alus, Meaning, nm, f, l, w, b
  <2> QED BY <1>0, <2>1, Zenon
<1>3. nm = "irmovq" => Means(line, I_IRMOVQ, F_NONE, REG_NONE, l, w)
  <2>1. nm = "irmovq" => Meaning(line) = Does(I_IRMOVQ, F_NONE, REG_NONE, l, w) OBVIOUS
  <2> HIDE DEF Moves, Jumps, Alus, Meaning, nm, f, l, w, b
  <2> QED BY <1>0, <2>1, Zenon
<1>4. nm = "iaddq" => Means(line, I_IADDQ, F_NONE, REG_NONE, l, w)
  <2>1. nm = "iaddq" => Meaning(line) = Does(I_IADDQ, F_NONE, REG_NONE, l, w) OBVIOUS
  <2> HIDE DEF Moves, Jumps, Alus, Meaning, nm, f, l, w, b
  <2> QED BY <1>0, <2>1, Zenon
<1>5. nm \in DOMAIN Jumps => Means(line, I_JMP, Jumps[nm], REG_NONE, REG_NONE, w)
  <2>1. nm \in DOMAIN Jumps => Meaning(line) = Does(I_JMP, Jumps[nm], REG_NONE, REG_NONE, w) OBVIOUS
  <2> HIDE DEF Moves, Jumps, Alus, Meaning, nm, f, l, w, b
  <2> QED BY <1>0, <2>1, Zenon
<1>6. nm = "call" => Means(line, I_CALL, F_NONE, REG_NONE, REG_NONE, w)
  <2>1. nm = "call" => Meaning(line) = Does(I_CALL, F_NONE, REG_NONE, REG_NONE, w) OBVIOUS
  <2> HIDE DEF Moves, Jumps, Alus, Meaning, nm, f, l, w, b
  <2> QED BY <1>0, <2>1, Zenon
<1>7. nm \in DOMAIN Moves => Means(line, I_RRMOVQ, Moves[nm], f, l, 0)
  <2>1. nm \in DOMAIN Moves => Meaning(line) = Does(I_RRMOVQ, Moves[nm], f, l, 0) OBVIOUS
  <2> HIDE DEF Moves, Jumps, Alus, Meaning, nm, f, l, w, b
  <2> QED BY <1>0, <2>1, Zenon
<1>8. nm \in DOMAIN Alus => Means(line, I_ALU, Alus[nm], f, l, 0)
  <2>1. nm \in DOMAIN Alus => Meaning(line) = Does(I_ALU, Alus[nm], f, l, 0) OBVIOUS
  <2> HIDE DEF Moves, Jumps, Alus, Meaning, nm, f, l, w, b
  <2> QED BY <1>0, <2>1, Zenon
<1>9. nm = "pushq" => Means(line, I_PUSHQ, F_NONE, f, REG_NONE, 0)
  <2>1. nm = "pushq" => Meaning(line) = Does(I_PUSHQ, F_NONE, f, REG_NONE, 0) OBVIOUS
  <2> HIDE DEF Moves, Jumps, Alus, Meaning, nm, f, l, w, b
  <2> QED BY <1>0, <2>1, Zenon
<1>10. nm = "popq" => Means(line, I_POPQ, F_NONE, f, REG_NONE, 0)
  <2>1. nm = "popq" => Meaning(line) = Does(I_POPQ, F_NONE, f, REG_NONE, 0) OBVIOUS
  <2> HIDE DEF Moves, Jumps, Alus, Meaning, nm, f, l, w, b
  <2> QED BY <1>0, <2>1, Zenon
<1>11. nm = "nop" => Means(line, I_NOP, F_NONE, REG_NONE, REG_NONE, 0)
  <2>1. nm = "nop" => Meaning(line) = Does(I_NOP, F_NONE, REG_NONE, REG_NONE, 0) OBVIOUS
  <2> HIDE DEF Moves, Jumps, Alus, Meaning, nm, f, l, w, b
  <2> QED BY <1>0, <2>1, Zenon
<1>12. nm = "halt" => Means(line, I_HALT, F_NONE, REG_NONE, REG_NONE, 0)
  <2>1. nm = "halt" => Meaning(line) = Does(I_HALT, F_NONE, REG_NONE, REG_NONE, 0) OBVIOUS
  <2> HIDE DEF Moves, Jumps, Alus, Meaning, nm, f, l, w, b
  <2> QED BY <1>0, <2>1, Zenon
<1>13. nm = "ret" => Means(line, I_RET, F_NONE, REG_NONE, REG_NONE, 0)
  <2>1. nm = "ret" => Meaning(line) = Does(I_RET, F_NONE, REG_NONE, REG_NONE, 0) OBVIOUS
  <2> HIDE DEF Moves, Jumps, Alus, Meaning, nm, f, l, w, b
  <2> QED BY <1>0, <2>1, Zenon
<1> HIDE DEF Moves, Jumps, Alus, Meaning, nm, f, l, w, b
<1> QED BY <1>1, <1>2, <1>3, <1>4, <1>5, <1>6, <1>7, <1>8, <1>9, <1>10, <1>11, <1>12, <1>13, Zenon DEF nm, f, l, w, b

\* Where the word of an instruction begins.
WordStart(nm) == IF nm \in WithRegisters THEN 2 ELSE 1

\* The bytes that an instruction has if they say what its line means.
Coded(line, c) ==
  LET nm == Name(line)  m == Meaning(line) IN
  IF nm \in DOMAIN Allocations THEN \A i \in 0 .. Allocations[nm] - 1 : c[i] = Byte(Word(Operands(line)), i)
  ELSE /\ c[0] = HPACK(m.icode, m.ifun)
       /\ nm \in WithRegisters => c[1] = HPACK(m.rA, m.rB)
       /\ nm \in WithWord => Spread(c, WordStart(nm), m.valC)

LEMMA Contents ==
  /\ \A nm \in DOMAIN Moves \cup DOMAIN Alus \cup {"pushq", "popq"} :
       nm \in WithRegisters /\ nm \notin WithWord /\ nm \notin DOMAIN Allocations
  /\ \A nm \in {"irmovq", "iaddq", "rmmovq", "mrmovq"} :
       nm \in WithRegisters /\ nm \in WithWord /\ nm \notin DOMAIN Allocations /\ WordStart(nm) = 2
  /\ \A nm \in DOMAIN Jumps \cup {"call"} :
       nm \notin WithRegisters /\ nm \in WithWord /\ nm \notin DOMAIN Allocations /\ WordStart(nm) = 1
  /\ \A nm \in {"nop", "halt", "ret"} :
       nm \notin WithRegisters /\ nm \notin WithWord /\ nm \notin DOMAIN Allocations
<1> USE DEF Moves, Alus, Jumps, Allocations, WithRegisters, WithWord, WordStart
<1>1. \A nm \in DOMAIN Moves \cup DOMAIN Alus \cup {"pushq", "popq"} :
        nm \in WithRegisters /\ nm \notin WithWord /\ nm \notin DOMAIN Allocations
  OBVIOUS
<1>2. \A nm \in {"irmovq", "iaddq", "rmmovq", "mrmovq"} :
        nm \in WithRegisters /\ nm \in WithWord /\ nm \notin DOMAIN Allocations /\ WordStart(nm) = 2
  OBVIOUS
<1>3. \A nm \in DOMAIN Jumps \cup {"call"} :
        nm \notin WithRegisters /\ nm \in WithWord /\ nm \notin DOMAIN Allocations /\ WordStart(nm) = 1
  OBVIOUS
<1>4. \A nm \in {"nop", "halt", "ret"} :
        nm \notin WithRegisters /\ nm \notin WithWord /\ nm \notin DOMAIN Allocations
  OBVIOUS
<1> HIDE DEF Moves, Alus, Jumps, Allocations, WithRegisters, WithWord, WordStart
<1> QED BY <1>1, <1>2, <1>3, <1>4, Zenon

LEMMA CodedByMeans ==
  ASSUME NEW line, NEW c, NEW ic, NEW fn, NEW ra, NEW rb, NEW v, Means(line, ic, fn, ra, rb, v),
         Name(line) \notin DOMAIN Allocations, c[0] = HPACK(ic, fn),
         Name(line) \in WithRegisters => c[1] = HPACK(ra, rb),
         Name(line) \in WithWord => Spread(c, WordStart(Name(line)), v)
  PROVE  Coded(line, c)
BY Zenon DEF Coded, Means

LEMMA SpreadStays ==
  ASSUME NEW cd, NEW w, NEW val, Spread(cd, 2, val), \A i \in 0 .. 9 : i # 1 => w[i] = cd[i]
  PROVE  Spread(w, 2, val) /\ w[0] = cd[0]
<1>1. \A i \in 0 .. 7 : 2 + i \in 0 .. 9 /\ 2 + i # 1 OBVIOUS
<1>2. 0 \in 0 .. 9 /\ 0 # 1 OBVIOUS
<1> QED BY <1>1, <1>2, Zenon DEF Spread

LEMMA Opened ==
  ASSUME IsCode(code), NEW instr
  PROVE  LET c == Opcode(instr) IN IsCode(c) /\ c[0] = instr.code /\ c[1] = HPACK(REG_NONE, REG_NONE)
<1> DEFINE x == instr.code
           y == HPACK(REG_NONE, REG_NONE)
<1> DEFINE c == [code EXCEPT ![0] = x, ![1] = y]
<1>1. Opcode(instr) = c BY DEF Opcode
<1> HIDE DEF x, y
<1>2. IsCode(c) /\ c[0] = x /\ c[1] = y BY DEF IsCode
<1> HIDE DEF c
<1> QED BY <1>1, <1>2, Zenon DEF x, y

\* In a line without errors the encoder writes what the line means.
LEMMA CodedLine ==
  ASSUME Resolves, IsCode(code), NEW line \in SourceLines, tokens = line.tokens, LabelOk(line), IsStatement(line),
         Name(line) \in InstrNames, HasForm(line), Formed(line, Class(Name(line))), Known(line, SymbolNames)
  PROVE  Coded(line, Encode(find_instr(Name(line)), tpos0 + 1).code)
         /\ IsCode(Encode(find_instr(Name(line)), tpos0 + 1).code)
<1> DEFINE nm == Name(line)
           instr == find_instr(nm)
           c0 == Opcode(instr)
           t == tpos0
           c == Encode(instr, t + 1).code
           S(k) == Sees(line, k)
           V == {"NUM", "IDENT"}
<1>0. IsCode(c0) /\ c0[0] = instr.code /\ c0[1] = HPACK(15, 15)
  <2>1. REG_NONE = 15 BY DEF REG_NONE
  <2> QED BY <2>1, Opened, Zenon
<1>f. \A k \in Nat \ {0} : t + k + 1 = t + (k + 1) BY DEF tpos0
<1>n. 1 \in Nat \ {0} /\ 2 \in Nat \ {0} /\ 3 \in Nat \ {0} /\ 1 + 1 = 2 /\ 2 + 1 = 3 /\ 0 # 1
      /\ 0 \in 0 .. 9 /\ 1 \in 0 .. 9 /\ 15 \in 0 .. 15 /\ \A r \in 0 .. 14 : r \in 0 .. 15
  OBVIOUS
<1>a. Class(nm) # "alone" => KnownAt(line, ValueAt(Class(nm))) BY Zenon DEF Known, KnownAt, Sees
<1> HIDE DEF c0, t
<1>w. \A k \in Nat \ {0} : KnownAt(line, k) => WordRead(t + k) = WordAt(line, k) BY ValueIs, Zenon DEF WordRead, t
<1>b. \A k \in Nat \ {0} : MemoryAt(line, k, k + 1, k + 2, k + 3) =>
                             BaseRead(t + k) = BaseAt(line, k) /\ BaseAt(line, k) \in 0 .. 15
  BY BaseSeen, Zenon DEF BaseRead, t
<1>r. \A k \in Nat \ {0} : S(k) = "REG" =>
        find_register(Token(t + k)[2]) = RegAt(line, k) /\ RegAt(line, k) \in 0 .. 15
  BY <1>n, RegSeen, Zenon DEF t
<1>o. Operated(line, Class(nm)) BY OperandsSeen, Zenon
<1>g. /\ \A k \in Nat \ {0} : Good("R_ARG", t + k) <=> S(k) = "REG"
      /\ \A k \in Nat \ {0} : Good("I_ARG", t + k) <=> S(k) \in V /\ KnownAt(line, k)
      /\ \A k \in Nat \ {0} : Good("M_ARG", t + k) <=> MemoryAt(line, k, k + 1, k + 2, k + 3) /\ KnownAt(line, k)
      /\ \A k \in Nat \ {0} : Past("R_ARG", t + k) = t + (k + 1)
      /\ \A k \in Nat \ {0} : Past("I_ARG", t + k) = t + (k + 1)
      /\ \A k \in Nat \ {0} : Past("M_ARG", t + k) = t + Beyond(line, k)
  BY GoodSeen, Zenon DEF t
<1>p. \A k \in Nat \ {0} : (Punct(t + k, ",") <=> S(k) = ",") /\ (IsValue(t + k) <=> S(k) \in V)
  <2>1. tokens \in Seq(Tokens) BY DEF SourceLines
  <2>2. t = FirstOf(line.tokens) /\ t \in {1, 3} BY GoodSeen DEF tpos0, t
  <2> TAKE k \in Nat \ {0}
  <2>3. t + k \in Nat \ {0} BY <2>2
  <2>4. (Punct(t + k, ",") <=> Look(tokens, t + k) = ",") /\ (IsValue(t + k) <=> Look(tokens, t + k) \in V)
    BY <2>1, <2>3, Looks, Zenon
  <2> QED BY <2>2, <2>4, Zenon DEF Sees
<1>k. /\ HiReg.kind = "R_ARG" /\ LoReg.kind = "R_ARG" /\ Memory.kind = "M_ARG" /\ NoArg.kind = "NO_ARG"
      /\ \A pos, n : Imm(pos, n).kind = "I_ARG"
      /\ "R_ARG" \in ArgKinds /\ "M_ARG" \in ArgKinds /\ "NO_ARG" \in ArgKinds /\ "I_ARG" \in ArgKinds
      /\ "R_ARG" # "NO_ARG" /\ "M_ARG" # "NO_ARG" /\ "I_ARG" # "NO_ARG"
  BY DEF HiReg, LoReg, Memory, NoArg, Imm, Arg, ArgKinds
<1> DEFINE Fits(a1, a2) ==
             /\ instr.arg1 = a1 /\ instr.arg2 = a2 /\ a1.kind \in ArgKinds /\ a2.kind \in ArgKinds
             /\ Good(a1.kind, t + 1)
             /\ a2.kind # "NO_ARG" => Punct(Past(a1.kind, t + 1), ",") /\ Good(a2.kind, Past(a1.kind, t + 1) + 1)
<1>e. \A a1, a2 : Fits(a1, a2) =>
        c = IF a2.kind = "NO_ARG" THEN Writes(c0, t + 1, a1)
            ELSE Writes(Writes(c0, t + 1, a1), Past(a1.kind, t + 1) + 1, a2)
  BY EncodeWrites, Zenon DEF c0
<1>h. \A a, b \in 0 .. 15 : HPACK(a, b) \in 0 .. 255 /\ HI4(HPACK(a, b)) = a /\ LO4(HPACK(a, b)) = b
  BY Halves, Zenon
<1>i. \A pos, n : ~(HiReg.kind = "NO_ARG") /\ ~(LoReg.kind = "NO_ARG") /\ ~(Memory.kind = "NO_ARG")
                  /\ ~(Imm(pos, n).kind = "NO_ARG")
  BY <1>k, Zenon
<1>z. \A cd, k : k \in Nat \ {0} /\ IsCode(cd) /\ S(k) = "REG" =>
        SetsHi(Writes(cd, t + k, HiReg), cd, RegAt(line, k)) /\ SetsLo(Writes(cd, t + k, LoReg), cd, RegAt(line, k))
  BY <1>r, WritesReg, Zenon
<1>m. \A cd, k : k \in Nat \ {0} /\ IsCode(cd) /\ MemoryAt(line, k, k + 1, k + 2, k + 3) /\ KnownAt(line, k) =>
        SetsMem(Writes(cd, t + k, Memory), cd, BaseAt(line, k), WordAt(line, k))
  BY <1>b, <1>w, WritesMem, Zenon
<1>j. \A cd, k : k \in Nat \ {0} /\ S(k) \in V /\ KnownAt(line, k) =>
        /\ \A pos \in {1, 2} : SetsWord(Writes(cd, t + k, Imm(pos, 8)), cd, pos, WordAt(line, k))
        /\ \A n \in {1, 2, 4, 8} : SetsData(Writes(cd, t + k, Imm(0, n)), n, WordAt(line, k))
  <2> SUFFICES ASSUME NEW cd, NEW k \in Nat \ {0}, S(k) \in V, KnownAt(line, k)
               PROVE  /\ \A pos \in {1, 2} : SetsWord(Writes(cd, t + k, Imm(pos, 8)), cd, pos, WordAt(line, k))
                      /\ \A n \in {1, 2, 4, 8} : SetsData(Writes(cd, t + k, Imm(0, n)), n, WordAt(line, k))
    BY Zenon
  <2>1. IsValue(t + k) BY <1>p, Zenon
  <2>2. Value(t + k) = WordAt(line, k) BY <1>w, <2>1, Zenon DEF WordRead
  <2>3. ASSUME NEW pos \in {1, 2} PROVE SetsWord(Writes(cd, t + k, Imm(pos, 8)), cd, pos, WordAt(line, k))
    <3>1. pos \in Nat /\ 8 \in Nat OBVIOUS
    <3>2. Writes(cd, t + k, Imm(pos, 8)) = Put(cd, pos, 8, WordAt(line, k)) BY <2>1, <2>2, <3>1, WritesNum, Zenon
    <3> QED BY <3>2, PutEight, Zenon
  <2>4. ASSUME NEW n \in {1, 2, 4, 8} PROVE SetsData(Writes(cd, t + k, Imm(0, n)), n, WordAt(line, k))
    <3>1. 0 \in Nat /\ n \in Nat OBVIOUS
    <3>2. Writes(cd, t + k, Imm(0, n)) = Put(cd, 0, n, WordAt(line, k)) BY <2>1, <2>2, <3>1, WritesNum, Zenon
    <3> QED BY <3>2, PutData, Zenon
  <2> QED BY <2>3, <2>4, Zenon
<1>q. LO4(HPACK(15, 15)) = 15 /\ HI4(HPACK(15, 15)) = 15 BY <1>h, <1>n, Zenon
<1>u. \A k \in Nat \ {0} : S(k) = "REG" => HI4(HPACK(RegAt(line, k), 15)) = RegAt(line, k)
  BY <1>h, <1>n, <1>r, Zenon
<1>v. \A k \in Nat \ {0} : MemoryAt(line, k, k + 1, k + 2, k + 3) => LO4(HPACK(15, BaseAt(line, k))) = BaseAt(line, k)
  BY <1>b, <1>h, <1>n, Zenon
<1> HIDE DEF S, Fits, instr
<1>c. \A nm2, cd, a1, a2 : nm2 = nm /\ IsRow(nm2, cd, a1, a2) => instr.code = cd /\ instr.arg1 = a1 /\ instr.arg2 = a2
  BY Zenon DEF IsRow, instr
<1>1. CASE nm = "rmmovq" /\ Class(nm) = "rm"
  <2>1. S(1) = "REG" /\ S(2) = "," /\ MemoryAt(line, 3, 3 + 1, 3 + 2, 3 + 3)
    <3>1. 3 + 1 = 4 /\ 3 + 2 = 5 /\ 3 + 3 = 6 OBVIOUS
    <3> QED BY <1>1, <3>1, Zenon DEF Formed, S
  <2>2. KnownAt(line, 3)
    <3>1. ValueAt("rm") = 3 /\ "rm" # "alone" BY DEF ValueAt
    <3> QED BY <1>1, <1>a, <3>1, Zenon
  <2>3. instr.code = HPACK(I_RMMOVQ, F_NONE) /\ instr.arg1 = HiReg /\ instr.arg2 = Memory
    BY <1>1, <1>c, Rows, Zenon
  <2>4. Past("R_ARG", t + 1) = t + 2 /\ t + 2 + 1 = t + 3 BY <1>f, <1>g, <1>n, Zenon
  <2>5. Fits(HiReg, Memory) BY <1>g, <1>k, <1>n, <1>p, <2>1, <2>2, <2>3, <2>4, ZenonT(60) DEF Fits
  <2> DEFINE w == Writes(c0, t + 1, HiReg)
             u == Writes(w, t + 3, Memory)
  <2>6. c = u BY <1>e, <1>i, <1>k, <2>4, <2>5, Zenon
  <2>7. IsCode(w) /\ w[1] = HPACK(RegAt(line, 1), 15) /\ w[0] = c0[0]
    <3>1. SetsHi(w, c0, RegAt(line, 1)) BY <1>0, <1>n, <1>z, <2>1, Zenon
    <3> HIDE DEF w
    <3> QED BY <1>0, <1>n, <1>q, <3>1, Zenon DEF SetsHi
  <2> HIDE DEF w
  <2>8. HI4(w[1]) = RegAt(line, 1) BY <1>n, <1>u, <2>1, <2>7, Zenon
  <2>9. SetsMem(u, w, BaseAt(line, 3), WordAt(line, 3)) BY <1>m, <1>n, <2>1, <2>2, <2>7, Zenon
  <2> HIDE DEF u, c
  <2>10. IsCode(c) /\ c[0] = HPACK(I_RMMOVQ, F_NONE) /\ c[1] = HPACK(RegAt(line, 1), BaseAt(line, 3))
         /\ Spread(c, 2, WordAt(line, 3))
    BY <1>0, <2>3, <2>6, <2>7, <2>8, <2>9, Zenon DEF SetsMem
  <2>11. Means(line, I_RMMOVQ, F_NONE, RegAt(line, 1), BaseAt(line, 3), WordAt(line, 3))
    BY <1>1, <1>o, Meanings, Zenon DEF Operated
  <2>12. nm \in WithRegisters /\ nm \notin DOMAIN Allocations /\ WordStart(nm) = 2 BY <1>1, Contents, Zenon
  <2>13. Coded(line, c) BY <2>10, <2>11, <2>12, CodedByMeans, Zenon
  <2> QED BY <2>10, <2>13, Zenon DEF c, instr, t
<1>2. CASE nm = "mrmovq" /\ Class(nm) = "mr"
  <2> DEFINE b == Beyond(line, 1)
  <2>0. b = IF S(1) \in V THEN IF S(2) = "(" THEN 5 ELSE 2 ELSE IF S(1) = "(" THEN 4 ELSE 1
    <3>1. 1 + 1 = 2 /\ 1 + 3 = 4 /\ 1 + 4 = 5 OBVIOUS
    <3> QED BY <3>1, Zenon DEF Beyond, S
  <2> HIDE DEF b
  <2>x. b \in Nat \ {0} /\ b + 1 \in Nat \ {0} BY <2>0
  <2>1. MemoryAt(line, 1, 1 + 1, 1 + 2, 1 + 3) /\ S(b) = "," /\ S(b + 1) = "REG"
    <3>1. 1 + 1 = 2 /\ 1 + 2 = 3 /\ 1 + 3 = 4 /\ 2 + 1 = 3 /\ 5 + 1 = 6 /\ 4 + 1 = 5 OBVIOUS
    <3>2. /\ MemoryAt(line, 1, 2, 3, 4)
          /\ IF S(1) \in V THEN IF S(2) = "(" THEN S(5) = "," /\ S(6) = "REG" ELSE S(2) = "," /\ S(3) = "REG"
             ELSE IF S(1) = "(" THEN S(4) = "," /\ S(5) = "REG" ELSE S(1) = "," /\ S(2) = "REG"
      BY <1>2, Zenon DEF Formed, S
    <3>3. S(b) = "," /\ S(b + 1) = "REG" BY <2>0, <3>1, <3>2, Zenon
    <3> QED BY <3>1, <3>2, <3>3, Zenon
  <2>2. KnownAt(line, 1)
    <3>1. ValueAt("mr") = 1 /\ "mr" # "alone" BY DEF ValueAt
    <3> QED BY <1>2, <1>a, <3>1, Zenon
  <2>3. instr.code = HPACK(I_MRMOVQ, F_NONE) /\ instr.arg1 = Memory /\ instr.arg2 = HiReg
    BY <1>2, <1>c, Rows, Zenon
  <2>4. Past("M_ARG", t + 1) = t + b /\ t + b + 1 = t + (b + 1) BY <1>f, <1>g, <1>n, <2>x, Zenon DEF b
  <2>z. Good("M_ARG", t + 1) /\ Punct(t + b, ",") /\ Good("R_ARG", t + (b + 1))
    BY <1>g, <1>n, <1>p, <2>x, <2>1, <2>2, Zenon
  <2>5. Fits(Memory, HiReg) BY <1>k, <2>3, <2>4, <2>z, Zenon DEF Fits
  <2> DEFINE w == Writes(c0, t + 1, Memory)
             u == Writes(w, t + (b + 1), HiReg)
  <2>6. c = u BY <1>e, <1>i, <1>k, <2>4, <2>5, Zenon
  <2>7. SetsMem(w, c0, BaseAt(line, 1), WordAt(line, 1)) BY <1>0, <1>m, <1>n, <2>1, <2>2, Zenon
  <2> HIDE DEF w
  <2>8. /\ IsCode(w) /\ w[0] = c0[0] /\ w[1] = HPACK(15, BaseAt(line, 1)) /\ Spread(w, 2, WordAt(line, 1))
        /\ LO4(w[1]) = BaseAt(line, 1)
    BY <1>0, <1>n, <1>q, <1>v, <2>1, <2>7, Zenon DEF SetsMem
  <2>9. SetsHi(u, w, RegAt(line, b + 1)) BY <1>z, <2>x, <2>1, <2>8, Zenon
  <2> HIDE DEF u, c
  <2>y. IsCode(u) /\ u[1] = HPACK(RegAt(line, b + 1), BaseAt(line, 1)) /\ \A i \in 0 .. 9 : i # 1 => u[i] = w[i]
    BY <2>8, <2>9, Zenon DEF SetsHi
  <2>10. IsCode(c) /\ c[0] = HPACK(I_MRMOVQ, F_NONE) /\ c[1] = HPACK(RegAt(line, b + 1), BaseAt(line, 1))
         /\ Spread(c, 2, WordAt(line, 1))
    BY <1>0, <2>3, <2>6, <2>8, <2>y, SpreadStays, Zenon
  <2>11. Means(line, I_MRMOVQ, F_NONE, RegAt(line, b + 1), BaseAt(line, 1), WordAt(line, 1))
    BY <1>2, <1>o, Meanings, Zenon DEF Operated, b
  <2>12. nm \in WithRegisters /\ nm \notin DOMAIN Allocations /\ WordStart(nm) = 2 BY <1>2, Contents, Zenon
  <2>13. Coded(line, c) BY <2>10, <2>11, <2>12, CodedByMeans, Zenon
  <2> QED BY <2>10, <2>13, Zenon DEF c, instr, t
<1>3. CASE nm \in {"irmovq", "iaddq"} /\ Class(nm) = "value to register"
  <2>1. S(1) \in V /\ S(2) = "," /\ S(3) = "REG" BY <1>3, Zenon DEF Formed, S
  <2>2. KnownAt(line, 1)
    <3>1. ValueAt("value to register") = 1 /\ "value to register" # "alone" BY DEF ValueAt
    <3> QED BY <1>3, <1>a, <3>1, Zenon
  <2>3. PICK ic : /\ instr.code = HPACK(ic, F_NONE) /\ instr.arg1 = Imm(2, 8) /\ instr.arg2 = LoReg
                  /\ Means(line, ic, F_NONE, REG_NONE, LastReg(Operands(line)), Word(Operands(line)))
    <3>1. CASE nm = "irmovq"
      <4>1. IsRow(nm, HPACK(I_IRMOVQ, F_NONE), Imm(2, 8), LoReg) BY <3>1, Rows, Zenon
      <4>2. Means(line, I_IRMOVQ, F_NONE, REG_NONE, LastReg(Operands(line)), Word(Operands(line)))
        BY <3>1, Meanings, Zenon
      <4> QED BY <1>c, <4>1, <4>2, Zenon
    <3>2. CASE nm = "iaddq"
      <4>1. IsRow(nm, HPACK(I_IADDQ, F_NONE), Imm(2, 8), LoReg) BY <3>2, Rows, Zenon
      <4>2. Means(line, I_IADDQ, F_NONE, REG_NONE, LastReg(Operands(line)), Word(Operands(line)))
        BY <3>2, Meanings, Zenon
      <4> QED BY <1>c, <4>1, <4>2, Zenon
    <3> QED BY <1>3, <3>1, <3>2, Zenon
  <2>4. Past("I_ARG", t + 1) = t + 2 /\ t + 2 + 1 = t + 3 BY <1>f, <1>g, <1>n, Zenon
  <2>z. Good("I_ARG", t + 1) /\ Punct(t + 2, ",") /\ Good("R_ARG", t + 3) BY <1>g, <1>n, <1>p, <2>1, <2>2, Zenon
  <2> DEFINE imm == Imm(2, 8)
  <2>v. imm.kind = "I_ARG" BY <1>k, Zenon
  <2> HIDE DEF imm
  <2>5. Fits(imm, LoReg) BY <1>k, <2>3, <2>4, <2>z, <2>v, Zenon DEF Fits, imm
  <2> DEFINE w == Writes(c0, t + 1, imm)
             u == Writes(w, t + 3, LoReg)
  <2>6. c = u BY <1>e, <1>i, <1>k, <2>4, <2>5, <2>v, Zenon
  <2>7. SetsWord(w, c0, 2, WordAt(line, 1))
    <3>1. 2 \in {1, 2} OBVIOUS
    <3> QED BY <1>j, <1>n, <2>1, <2>2, <3>1, Zenon DEF imm
  <2> HIDE DEF w
  <2>8. IsCode(w) /\ w[0] = c0[0] /\ HI4(w[1]) = 15 /\ Spread(w, 2, WordAt(line, 1))
    BY <1>0, <1>q, <2>7, Zenon DEF SetsWord
  <2>9. SetsLo(u, w, RegAt(line, 3)) BY <1>n, <1>z, <2>1, <2>8, Zenon
  <2> HIDE DEF u, c
  <2>y. IsCode(u) /\ u[1] = HPACK(15, RegAt(line, 3)) /\ \A i \in 0 .. 9 : i # 1 => u[i] = w[i]
    BY <2>8, <2>9, Zenon DEF SetsLo
  <2>10. IsCode(c) /\ c[0] = HPACK(ic, F_NONE)
       /\ c[1] = HPACK(REG_NONE, RegAt(line, 3)) /\ Spread(c, 2, WordAt(line, 1))
    <3>1. REG_NONE = 15 BY DEF REG_NONE
    <3> QED BY <1>0, <2>3, <2>6, <2>8, <2>y, <3>1, SpreadStays, Zenon
  <2>11. Means(line, ic, F_NONE, REG_NONE, RegAt(line, 3), WordAt(line, 1)) BY <1>3, <1>o, <2>3, Zenon DEF Operated
  <2>12. nm \in WithRegisters /\ nm \notin DOMAIN Allocations /\ WordStart(nm) = 2 BY <1>3, Contents, Zenon
  <2>13. Coded(line, c) BY <2>10, <2>11, <2>12, CodedByMeans, Zenon
  <2> QED BY <2>10, <2>13, Zenon DEF c, instr, t
<1>4. CASE nm \in VNames /\ Class(nm) = "value"
  <2>1. S(1) \in V BY <1>4, Zenon DEF Formed, S
  <2>2. KnownAt(line, 1)
    <3>1. ValueAt("value") = 1 /\ "value" # "alone" BY DEF ValueAt
    <3> QED BY <1>4, <1>a, <3>1, Zenon
  <2>3. Word(Operands(line)) = WordAt(line, 1) BY <1>4, <1>o, Zenon DEF Operated
  <2>4. CASE nm \in DOMAIN Allocations
    <3> DEFINE n == Allocations[nm]
    <3>1. n \in {1, 2, 4, 8} BY <2>4 DEF Allocations
    <3> HIDE DEF n
    <3> DEFINE imm == Imm(0, n)
    <3>0. IsRow(nm, 0, imm, NoArg) BY <2>4, Rows, Zenon DEF n
    <3>v. imm.kind = "I_ARG" BY <1>k, Zenon
    <3> HIDE DEF imm
    <3>2. instr.arg1 = imm /\ instr.arg2 = NoArg BY <1>c, <3>0, Zenon
    <3>y. Good("I_ARG", t + 1) BY <1>g, <1>n, <2>1, <2>2, Zenon
    <3>3. Fits(imm, NoArg) BY <1>k, <3>2, <3>v, <3>y, Zenon DEF Fits
    <3> DEFINE w == Writes(c0, t + 1, imm)
    <3>4. c = w BY <1>e, <1>k, <3>3, Zenon
    <3>5. SetsData(w, n, WordAt(line, 1)) BY <1>j, <1>n, <2>1, <2>2, <3>1, Zenon DEF imm
    <3> HIDE DEF w, c
    <3>6. IsCode(c) /\ \A i \in 0 .. n - 1 : c[i] = Byte(Word(Operands(line)), i)
      BY <2>3, <3>4, <3>5, Zenon DEF SetsData
    <3>7. Coded(line, c) BY <2>4, <3>6, Zenon DEF Coded, n
    <3> QED BY <3>6, <3>7, Zenon DEF c, instr, t
  <2>5. CASE nm \in DOMAIN Jumps \cup {"call"}
    <3>3. PICK ic, fn : /\ instr.code = HPACK(ic, fn) /\ instr.arg1 = Imm(1, 8) /\ instr.arg2 = NoArg
                        /\ Means(line, ic, fn, REG_NONE, REG_NONE, Word(Operands(line)))
      <4>1. CASE nm \in DOMAIN Jumps
        <5>1. IsRow(nm, HPACK(I_JMP, Jumps[nm]), Imm(1, 8), NoArg) BY <4>1, Rows, Zenon
        <5>2. Means(line, I_JMP, Jumps[nm], REG_NONE, REG_NONE, Word(Operands(line))) BY <4>1, Meanings, Zenon
        <5> QED BY <1>c, <5>1, <5>2, Zenon
      <4>2. CASE nm = "call"
        <5>1. IsRow(nm, HPACK(I_CALL, F_NONE), Imm(1, 8), NoArg) BY <4>2, Rows, Zenon
        <5>2. Means(line, I_CALL, F_NONE, REG_NONE, REG_NONE, Word(Operands(line))) BY <4>2, Meanings, Zenon
        <5> QED BY <1>c, <5>1, <5>2, Zenon
      <4> QED BY <2>5, <4>1, <4>2, Zenon
    <3> DEFINE imm == Imm(1, 8)
    <3>v. imm.kind = "I_ARG" BY <1>k, Zenon
    <3> HIDE DEF imm
    <3>y. Good("I_ARG", t + 1) BY <1>g, <1>n, <2>1, <2>2, Zenon
    <3>5. Fits(imm, NoArg) BY <1>k, <3>3, <3>v, <3>y, Zenon DEF Fits, imm
    <3> DEFINE w == Writes(c0, t + 1, imm)
    <3>6. c = w BY <1>e, <1>k, <3>5, Zenon
    <3>7. SetsWord(w, c0, 1, WordAt(line, 1))
      <4>1. 1 \in {1, 2} OBVIOUS
      <4> QED BY <1>j, <1>n, <2>1, <2>2, <4>1, Zenon DEF imm
    <3> HIDE DEF w, c
    <3>8. IsCode(c) /\ c[0] = HPACK(ic, fn) /\ Spread(c, 1, WordAt(line, 1))
      BY <1>0, <3>3, <3>6, <3>7, Zenon DEF SetsWord
    <3>9. nm \notin WithRegisters /\ nm \notin DOMAIN Allocations /\ WordStart(nm) = 1 BY <2>5, Contents, Zenon
    <3>10. Coded(line, c) BY <2>3, <3>3, <3>8, <3>9, CodedByMeans, Zenon
    <3> QED BY <3>8, <3>10, Zenon DEF c, instr, t
  <2> QED BY <1>4, <2>4, <2>5, Zenon DEF VNames
<1>5. CASE nm \in RNames /\ Class(nm) = "register to register"
  <2>1. S(1) = "REG" /\ S(2) = "," /\ S(3) = "REG" BY <1>5, Zenon DEF Formed, S
  <2>3. PICK ic, fn : /\ instr.code = HPACK(ic, fn) /\ instr.arg1 = HiReg /\ instr.arg2 = LoReg
                      /\ Means(line, ic, fn, FirstReg(Operands(line)), LastReg(Operands(line)), 0)
    <3>1. CASE nm \in DOMAIN Moves
      <4>1. IsRow(nm, HPACK(I_RRMOVQ, Moves[nm]), HiReg, LoReg) BY <3>1, Rows, Zenon
      <4>2. Means(line, I_RRMOVQ, Moves[nm], FirstReg(Operands(line)), LastReg(Operands(line)), 0)
        BY <3>1, Meanings, Zenon
      <4> QED BY <1>c, <4>1, <4>2, Zenon
    <3>2. CASE nm \in DOMAIN Alus
      <4>1. IsRow(nm, HPACK(I_ALU, Alus[nm]), HiReg, LoReg) BY <3>2, Rows, Zenon
      <4>2. Means(line, I_ALU, Alus[nm], FirstReg(Operands(line)), LastReg(Operands(line)), 0)
        BY <3>2, Meanings, Zenon
      <4> QED BY <1>c, <4>1, <4>2, Zenon
    <3> QED BY <1>5, <3>1, <3>2, Zenon DEF RNames
  <2>4. Past("R_ARG", t + 1) = t + 2 /\ t + 2 + 1 = t + 3 BY <1>f, <1>g, <1>n, Zenon
  <2>5. Fits(HiReg, LoReg) BY <1>g, <1>k, <1>n, <1>p, <2>1, <2>3, <2>4, ZenonT(60) DEF Fits
  <2> DEFINE w == Writes(c0, t + 1, HiReg)
             u == Writes(w, t + 3, LoReg)
  <2>6. c = u BY <1>e, <1>i, <1>k, <2>4, <2>5, Zenon
  <2>7. SetsHi(w, c0, RegAt(line, 1)) BY <1>0, <1>n, <1>z, <2>1, Zenon
  <2> HIDE DEF w
  <2>8. IsCode(w) /\ w[0] = c0[0] /\ HI4(w[1]) = RegAt(line, 1)
    BY <1>0, <1>n, <1>q, <1>u, <2>1, <2>7, Zenon DEF SetsHi
  <2>9. SetsLo(u, w, RegAt(line, 3)) BY <1>n, <1>z, <2>1, <2>8, Zenon
  <2> HIDE DEF u, c
  <2>10. IsCode(c) /\ c[0] = HPACK(ic, fn) /\ c[1] = HPACK(RegAt(line, 1), RegAt(line, 3))
    BY <1>0, <1>n, <2>3, <2>6, <2>8, <2>9, Zenon DEF SetsLo
  <2>11. Means(line, ic, fn, RegAt(line, 1), RegAt(line, 3), 0) BY <1>5, <1>o, <2>3, Zenon DEF Operated
  <2>12. nm \in WithRegisters /\ nm \notin WithWord /\ nm \notin DOMAIN Allocations
    BY <1>5, Contents, Zenon DEF RNames
  <2>13. Coded(line, c) BY <2>10, <2>11, <2>12, CodedByMeans, Zenon
  <2> QED BY <2>10, <2>13, Zenon DEF c, instr, t
<1>6. CASE nm \in {"pushq", "popq"} /\ Class(nm) = "register"
  <2>1. S(1) = "REG" BY <1>6, Zenon DEF Formed, S
  <2>3. PICK ic : /\ instr.code = HPACK(ic, F_NONE) /\ instr.arg1 = HiReg /\ instr.arg2 = NoArg
                  /\ Means(line, ic, F_NONE, FirstReg(Operands(line)), REG_NONE, 0)
    BY <1>6, <1>c, Rows, Meanings, Zenon
  <2>5. Fits(HiReg, NoArg) BY <1>g, <1>k, <1>n, <2>1, <2>3, Zenon DEF Fits
  <2> DEFINE w == Writes(c0, t + 1, HiReg)
  <2>6. c = w BY <1>e, <1>k, <2>5, Zenon
  <2>7. SetsHi(w, c0, RegAt(line, 1)) BY <1>0, <1>n, <1>z, <2>1, Zenon
  <2> HIDE DEF w, c
  <2>10. IsCode(c) /\ c[0] = HPACK(ic, F_NONE) /\ c[1] = HPACK(RegAt(line, 1), REG_NONE)
    <3>1. REG_NONE = 15 BY DEF REG_NONE
    <3> QED BY <1>0, <1>n, <1>q, <2>3, <2>6, <2>7, <3>1, Zenon DEF SetsHi
  <2>11. Means(line, ic, F_NONE, RegAt(line, 1), REG_NONE, 0) BY <1>6, <1>o, <2>3, Zenon DEF Operated
  <2>12. nm \in WithRegisters /\ nm \notin WithWord /\ nm \notin DOMAIN Allocations BY <1>6, Contents, Zenon
  <2>13. Coded(line, c) BY <2>10, <2>11, <2>12, CodedByMeans, Zenon
  <2> QED BY <2>10, <2>13, Zenon DEF c, instr, t
<1>7. CASE nm \in Halts /\ Class(nm) = "alone"
  <2>3. PICK ic : /\ instr.code = HPACK(ic, F_NONE) /\ instr.arg1 = NoArg /\ instr.arg2 = NoArg
                  /\ Means(line, ic, F_NONE, REG_NONE, REG_NONE, 0)
    BY <1>7, <1>c, Rows, Meanings, Zenon DEF Halts
  <2>5. Fits(NoArg, NoArg)
    <3>1. Good("NO_ARG", t + 1) BY DEF Good
    <3> QED BY <1>k, <2>3, <3>1, Zenon DEF Fits
  <2>6. c = Writes(c0, t + 1, NoArg) BY <1>e, <1>k, <2>5, Zenon
  <2>7. Writes(c0, t + 1, NoArg) = c0 BY <1>k DEF Writes
  <2> HIDE DEF c
  <2>10. IsCode(c) /\ c[0] = HPACK(ic, F_NONE) BY <1>0, <2>3, <2>6, <2>7, Zenon
  <2>12. nm \notin WithRegisters /\ nm \notin WithWord /\ nm \notin DOMAIN Allocations
    BY <1>7, Contents, Zenon DEF Halts
  <2>13. Coded(line, c) BY <2>3, <2>10, <2>12, CodedByMeans, Zenon
  <2> QED BY <2>10, <2>13, Zenon DEF c, instr, t
<1>8. ~(nm \in {".pos", ".align"})
  BY DEF InstrNames, Moves, Jumps, Alus, Allocations
<1>9. nm \in InstrNames \cup {".pos", ".align"} OBVIOUS
<1> QED BY <1>1, <1>2, <1>3, <1>4, <1>5, <1>6, <1>7, <1>8, <1>9, Classes, Zenon

\* A word is a number of the source or the position of a line with a label.
IsWord(w) == w \in Ints \/ \E k \in DOMAIN source : HasLabel(source[k]) /\ w = Positions[k]

LEMMA WordSeen ==
  ASSUME Resolves, NEW line \in SourceLines, NEW k \in Nat \ {0}, KnownAt(line, k)
  PROVE  IsWord(WordAt(line, k))
<1> DEFINE toks == line.tokens
           j == FirstOf(toks) + k
           tok == TokenOf(toks, j)
<1>1. toks \in Seq(Tokens) /\ Len(toks) \in Nat BY DEF SourceLines
<1>2. j \in Nat \ {0} BY DEF FirstOf
<1>3. Sees(line, k) = Look(toks, j) /\ TokenAt(line, k) = tok BY Zenon DEF Sees, TokenAt
<1> HIDE DEF toks, j
<1>4. CASE Sees(line, k) = "IDENT"
  <2>1. tok[1] = "IDENT" /\ tok[2] \in SymbolNames
    <3>1. tok[2] \in SymbolNames BY <1>4, Zenon DEF KnownAt, toks, j
    <3>2. "IDENT" # "ERR" OBVIOUS
    <3>3. ~(j > Len(toks)) BY <1>1, <1>2, <1>3, <1>4, <3>2, LookKinds, Zenon
    <3>4. j <= Len(toks) BY <1>1, <1>2, <3>3
    <3>5. toks[j][1] = "IDENT" BY <1>1, <1>2, <1>3, <1>4, <3>4, LookKinds, Zenon
    <3> QED BY <3>1, <3>4, <3>5, Zenon DEF TokenOf
  <2>2. "IDENT" # "NUM" OBVIOUS
  <2>3. Meant(tok) = Positions[Definition(tok[2])] BY <2>1, <2>2, Zenon DEF Meant
  <2>4. WordAt(line, k) = Meant(tok) BY <1>3, <1>4, Zenon DEF WordAt, ValueSeen
  <2> QED BY <2>1, <2>3, <2>4, Zenon DEF Resolves, IsWord
<1>5. CASE Sees(line, k) = "NUM"
  <2>1. tok[1] = "NUM" /\ tok[2] \in Ints
    <3>2. "NUM" # "ERR" OBVIOUS
    <3>3. ~(j > Len(toks)) BY <1>1, <1>2, <1>3, <1>5, <3>2, LookKinds, Zenon
    <3>4. j \in 1 .. Len(toks) /\ j <= Len(toks) BY <1>1, <1>2, <3>3
    <3>5. toks[j][1] = "NUM" BY <1>1, <1>2, <1>3, <1>5, <3>4, LookKinds, Zenon
    <3>6. toks[j] \in Tokens BY <1>1, <3>4, ElementOfSeq, Zenon
    <3>7. toks[j][2] \in Ints BY <3>5, <3>6, TokenKinds, Zenon
    <3> QED BY <3>4, <3>5, <3>7, Zenon DEF TokenOf
  <2>3. Meant(tok) = tok[2] BY <2>1, Zenon DEF Meant
  <2>4. WordAt(line, k) = Meant(tok) BY <1>3, <1>5, Zenon DEF WordAt, ValueSeen
  <2> QED BY <2>1, <2>3, <2>4, Zenon DEF IsWord
<1>6. CASE Sees(line, k) \notin {"NUM", "IDENT"}
  <2>1. 0 \in Ints
    <3>1. INT_MIN \in Int /\ INT_MAX \in Int /\ INT_MIN <= 0 /\ 0 <= INT_MAX BY SMT DEF INT_MIN, INT_MAX
    <3> QED BY <3>1, SMT DEF Ints
  <2>2. WordAt(line, k) = 0 BY <1>6, Zenon DEF WordAt, ValueSeen
  <2> QED BY <2>1, <2>2, Zenon DEF IsWord
<1> QED BY <1>4, <1>5, <1>6, Zenon

\* What the meaning of a line may be: it has the parts that step_state finds by the instruction's code.
Shaped(line) ==
  LET nm == Name(line)  m == Meaning(line) IN
  /\ nm \in DOMAIN Allocations \/ nm \in WithWord => IsWord(Word(Operands(line)))
  /\ nm \notin DOMAIN Allocations =>
       /\ m.icode \in 0 .. 15 /\ m.ifun \in 0 .. 15 /\ m.rA \in 0 .. 15 /\ m.rB \in 0 .. 15
       /\ nm \in WithRegisters <=> Yis!NeedRegids(m.icode)
       /\ nm \in WithWord <=> Yis!NeedImm(m.icode)
       /\ nm \notin WithRegisters => m.rA = 15 /\ m.rB = 15
       /\ m.valC = IF nm \in WithWord THEN Word(Operands(line)) ELSE 0
       /\ DOMAIN m = {"icode", "ifun", "rA", "rB", "valC"}

ShapeOf(nm, word, ic, fn, ra, rb, v) ==
  /\ ic \in 0 .. 15 /\ fn \in 0 .. 15 /\ ra \in 0 .. 15 /\ rb \in 0 .. 15
  /\ nm \in WithRegisters <=> Yis!NeedRegids(ic)
  /\ nm \in WithWord <=> Yis!NeedImm(ic)
  /\ nm \notin WithRegisters => ra = 15 /\ rb = 15
  /\ v = IF nm \in WithWord THEN word ELSE 0
  /\ nm \notin DOMAIN Allocations

LEMMA CodesNeed ==
  ASSUME NEW word, NEW a \in 0 .. 15, NEW b \in 0 .. 15
  PROVE  /\ ShapeOf("rmmovq", word, I_RMMOVQ, F_NONE, a, b, word)
         /\ ShapeOf("mrmovq", word, I_MRMOVQ, F_NONE, a, b, word)
         /\ ShapeOf("irmovq", word, I_IRMOVQ, F_NONE, REG_NONE, b, word)
         /\ ShapeOf("iaddq", word, I_IADDQ, F_NONE, REG_NONE, b, word)
         /\ \A nm \in DOMAIN Jumps : ShapeOf(nm, word, I_JMP, Jumps[nm], REG_NONE, REG_NONE, word)
         /\ ShapeOf("call", word, I_CALL, F_NONE, REG_NONE, REG_NONE, word)
         /\ \A nm \in DOMAIN Moves : ShapeOf(nm, word, I_RRMOVQ, Moves[nm], a, b, 0)
         /\ \A nm \in DOMAIN Alus : ShapeOf(nm, word, I_ALU, Alus[nm], a, b, 0)
         /\ \A nm \in {"pushq"} : ShapeOf(nm, word, I_PUSHQ, F_NONE, a, REG_NONE, 0)
         /\ \A nm \in {"popq"} : ShapeOf(nm, word, I_POPQ, F_NONE, a, REG_NONE, 0)
         /\ ShapeOf("nop", word, I_NOP, F_NONE, REG_NONE, REG_NONE, 0)
         /\ ShapeOf("halt", word, I_HALT, F_NONE, REG_NONE, REG_NONE, 0)
         /\ ShapeOf("ret", word, I_RET, F_NONE, REG_NONE, REG_NONE, 0)
<1>0. /\ \A ic \in {I_RMMOVQ, I_MRMOVQ, I_IRMOVQ, I_IADDQ} : ic \in 0 .. 15 /\ Yis!NeedRegids(ic) /\ Yis!NeedImm(ic)
      /\ \A ic \in {I_JMP, I_CALL} : ic \in 0 .. 15 /\ ~Yis!NeedRegids(ic) /\ Yis!NeedImm(ic)
      /\ \A ic \in {I_RRMOVQ, I_ALU, I_PUSHQ, I_POPQ} : ic \in 0 .. 15 /\ Yis!NeedRegids(ic) /\ ~Yis!NeedImm(ic)
      /\ \A ic \in {I_NOP, I_HALT, I_RET} : ic \in 0 .. 15 /\ ~Yis!NeedRegids(ic) /\ ~Yis!NeedImm(ic)
  BY DEF Yis!NeedRegids, Yis!NeedImm, Yis!I_RRMOVQ, Yis!I_ALU, Yis!I_PUSHQ, Yis!I_POPQ, Yis!I_IRMOVQ, Yis!I_RMMOVQ,
         Yis!I_MRMOVQ, Yis!I_IADDQ, Yis!I_JMP, Yis!I_CALL, I_NOP, I_HALT, I_RET, I_RRMOVQ, I_ALU, I_PUSHQ, I_POPQ,
         I_IRMOVQ, I_RMMOVQ, I_MRMOVQ, I_IADDQ, I_JMP, I_CALL
<1>1. F_NONE \in 0 .. 15 /\ REG_NONE = 15 /\ 15 \in 0 .. 15 BY DEF F_NONE, REG_NONE
<1>2. \A nm \in DOMAIN Jumps : Jumps[nm] \in 0 .. 15 BY DEF Jumps
<1>3. \A nm \in DOMAIN Moves : Moves[nm] \in 0 .. 15 BY DEF Moves
<1>4. \A nm \in DOMAIN Alus : Alus[nm] \in 0 .. 15 BY DEF Alus
<1> USE <1>0, <1>1, Contents
<1>5. ShapeOf("rmmovq", word, I_RMMOVQ, F_NONE, a, b, word) /\ ShapeOf("mrmovq", word, I_MRMOVQ, F_NONE, a, b, word)
  BY Zenon DEF ShapeOf
<1>6. ShapeOf("irmovq", word, I_IRMOVQ, F_NONE, REG_NONE, b, word)
      /\ ShapeOf("iaddq", word, I_IADDQ, F_NONE, REG_NONE, b, word)
  BY Zenon DEF ShapeOf
<1>7. \A nm \in DOMAIN Jumps : ShapeOf(nm, word, I_JMP, Jumps[nm], REG_NONE, REG_NONE, word)
  BY <1>2, Zenon DEF ShapeOf
<1>8. ShapeOf("call", word, I_CALL, F_NONE, REG_NONE, REG_NONE, word)
  BY Zenon DEF ShapeOf
<1>9. \A nm \in DOMAIN Moves : ShapeOf(nm, word, I_RRMOVQ, Moves[nm], a, b, 0)
  BY <1>3, Zenon DEF ShapeOf
<1>10. \A nm \in DOMAIN Alus : ShapeOf(nm, word, I_ALU, Alus[nm], a, b, 0)
  BY <1>4, Zenon DEF ShapeOf
<1>11. \A nm \in {"pushq"} : ShapeOf(nm, word, I_PUSHQ, F_NONE, a, REG_NONE, 0) BY Zenon DEF ShapeOf
<1>12. \A nm \in {"popq"} : ShapeOf(nm, word, I_POPQ, F_NONE, a, REG_NONE, 0) BY Zenon DEF ShapeOf
<1>13. ShapeOf("nop", word, I_NOP, F_NONE, REG_NONE, REG_NONE, 0)
       /\ ShapeOf("halt", word, I_HALT, F_NONE, REG_NONE, REG_NONE, 0)
       /\ ShapeOf("ret", word, I_RET, F_NONE, REG_NONE, REG_NONE, 0)
  BY Zenon DEF ShapeOf
<1> QED BY <1>5, <1>6, <1>7, <1>8, <1>9, <1>10, <1>11, <1>12, <1>13, Zenon

LEMMA ShapedByMeans ==
  ASSUME NEW line, NEW ic, NEW fn, NEW ra, NEW rb, NEW v, Means(line, ic, fn, ra, rb, v),
         ShapeOf(Name(line), Word(Operands(line)), ic, fn, ra, rb, v),
         Name(line) \in WithWord => IsWord(Word(Operands(line)))
  PROVE  Shaped(line)
BY Zenon DEF Shaped, Means, ShapeOf

\* The meaning of a line without errors.
LEMMA ShapedLine ==
  ASSUME Resolves, NEW line \in SourceLines, tokens = line.tokens, LabelOk(line), IsStatement(line),
         Name(line) \in InstrNames, HasForm(line), Formed(line, Class(Name(line))), Known(line, SymbolNames)
  PROVE  Shaped(line)
<1> DEFINE nm == Name(line)
           ops == Operands(line)
           f == FirstReg(ops)
           l == LastReg(ops)
           w == Word(ops)
           b == Base(ops)
           R == 0 .. 15
           S(k) == Sees(line, k)
<1>n. 1 \in Nat \ {0} /\ 2 \in Nat \ {0} /\ 3 \in Nat \ {0} /\ \A r \in 0 .. 14 : r \in R
  OBVIOUS
<1>a. Class(nm) # "alone" => KnownAt(line, ValueAt(Class(nm))) BY Zenon DEF Known, KnownAt, Sees
<1>b. \A k \in Nat \ {0} : MemoryAt(line, k, k + 1, k + 2, k + 3) => BaseAt(line, k) \in R
  BY BaseSeen, Zenon
<1>r. \A k \in Nat \ {0} : S(k) = "REG" => RegAt(line, k) \in R
  BY <1>n, RegSeen, Zenon
<1>w. \A k \in Nat \ {0} : KnownAt(line, k) => IsWord(WordAt(line, k))
  BY WordSeen, Zenon
<1>o. Operated(line, Class(nm)) BY OperandsSeen, Zenon
<1> HIDE DEF S, R
<1>0. 15 \in R BY DEF R
<1>s. ASSUME NEW a \in R, NEW d \in R
      PROVE  /\ ShapeOf("rmmovq", w, I_RMMOVQ, F_NONE, a, d, w)
             /\ ShapeOf("mrmovq", w, I_MRMOVQ, F_NONE, a, d, w)
             /\ ShapeOf("irmovq", w, I_IRMOVQ, F_NONE, REG_NONE, d, w)
             /\ ShapeOf("iaddq", w, I_IADDQ, F_NONE, REG_NONE, d, w)
             /\ \A name \in DOMAIN Jumps : ShapeOf(name, w, I_JMP, Jumps[name], REG_NONE, REG_NONE, w)
             /\ ShapeOf("call", w, I_CALL, F_NONE, REG_NONE, REG_NONE, w)
             /\ \A name \in DOMAIN Moves : ShapeOf(name, w, I_RRMOVQ, Moves[name], a, d, 0)
             /\ \A name \in DOMAIN Alus : ShapeOf(name, w, I_ALU, Alus[name], a, d, 0)
             /\ \A name \in {"pushq"} : ShapeOf(name, w, I_PUSHQ, F_NONE, a, REG_NONE, 0)
             /\ \A name \in {"popq"} : ShapeOf(name, w, I_POPQ, F_NONE, a, REG_NONE, 0)
             /\ ShapeOf("nop", w, I_NOP, F_NONE, REG_NONE, REG_NONE, 0)
             /\ ShapeOf("halt", w, I_HALT, F_NONE, REG_NONE, REG_NONE, 0)
             /\ ShapeOf("ret", w, I_RET, F_NONE, REG_NONE, REG_NONE, 0)
  BY CodesNeed, Zenon DEF R
<1> HIDE DEF ops, f, l, w, b
<1>1. CASE nm = "rmmovq" /\ Class(nm) = "rm"
  <2>1. S(1) = "REG" /\ MemoryAt(line, 3, 3 + 1, 3 + 2, 3 + 3)
    <3>1. 3 + 1 = 4 /\ 3 + 2 = 5 /\ 3 + 3 = 6 OBVIOUS
    <3> QED BY <1>1, <3>1, Zenon DEF Formed, S
  <2>2. KnownAt(line, 3)
    <3>1. ValueAt("rm") = 3 /\ "rm" # "alone" BY DEF ValueAt
    <3> QED BY <1>1, <1>a, <3>1, Zenon
  <2>3. f \in R /\ b \in R /\ IsWord(w)
    BY <1>1, <1>b, <1>n, <1>o, <1>r, <1>w, <2>1, <2>2, Zenon DEF Operated, f, b, w, ops
  <2>4. ShapeOf(nm, w, I_RMMOVQ, F_NONE, f, b, w) BY <1>1, <1>s, <2>3, Zenon
  <2>5. Means(line, I_RMMOVQ, F_NONE, f, b, w) BY <1>1, Meanings, Zenon DEF f, b, w, ops
  <2> QED BY <2>3, <2>4, <2>5, ShapedByMeans, Zenon DEF w, ops
<1>2. CASE nm = "mrmovq" /\ Class(nm) = "mr"
  <2> DEFINE e == Beyond(line, 1)
  <2>0. e = IF S(1) \in {"NUM", "IDENT"} THEN IF S(2) = "(" THEN 5 ELSE 2 ELSE IF S(1) = "(" THEN 4 ELSE 1
    <3>1. 1 + 1 = 2 /\ 1 + 3 = 4 /\ 1 + 4 = 5 OBVIOUS
    <3> QED BY <3>1, Zenon DEF Beyond, S
  <2> HIDE DEF e
  <2>x. e + 1 \in Nat \ {0} BY <2>0
  <2>1. MemoryAt(line, 1, 1 + 1, 1 + 2, 1 + 3) /\ S(e + 1) = "REG"
    <3>1. 1 + 1 = 2 /\ 1 + 2 = 3 /\ 1 + 3 = 4 /\ 2 + 1 = 3 /\ 5 + 1 = 6 /\ 4 + 1 = 5 OBVIOUS
    <3>2. /\ MemoryAt(line, 1, 2, 3, 4)
          /\ IF S(1) \in {"NUM", "IDENT"}
             THEN IF S(2) = "(" THEN S(5) = "," /\ S(6) = "REG" ELSE S(2) = "," /\ S(3) = "REG"
             ELSE IF S(1) = "(" THEN S(4) = "," /\ S(5) = "REG" ELSE S(1) = "," /\ S(2) = "REG"
      BY <1>2, Zenon DEF Formed, S
    <3>3. S(e + 1) = "REG" BY <2>0, <3>1, <3>2, Zenon
    <3> QED BY <3>1, <3>2, <3>3, Zenon
  <2>2. KnownAt(line, 1)
    <3>1. ValueAt("mr") = 1 /\ "mr" # "alone" BY DEF ValueAt
    <3> QED BY <1>2, <1>a, <3>1, Zenon
  <2>3. l \in R /\ b \in R /\ IsWord(w)
    <3>1. l = RegAt(line, e + 1) /\ b = BaseAt(line, 1) /\ w = WordAt(line, 1)
      BY <1>2, <1>o, Zenon DEF Operated, l, b, w, ops, e
    <3> QED BY <1>b, <1>n, <1>r, <1>w, <2>x, <2>1, <2>2, <3>1, Zenon
  <2>4. ShapeOf(nm, w, I_MRMOVQ, F_NONE, l, b, w) BY <1>2, <1>s, <2>3, Zenon
  <2>5. Means(line, I_MRMOVQ, F_NONE, l, b, w) BY <1>2, Meanings, Zenon DEF l, b, w, ops
  <2> QED BY <2>3, <2>4, <2>5, ShapedByMeans, Zenon DEF w, ops
<1>3. CASE nm \in {"irmovq", "iaddq"} /\ Class(nm) = "value to register"
  <2>1. S(3) = "REG" BY <1>3, Zenon DEF Formed, S
  <2>2. KnownAt(line, 1)
    <3>1. ValueAt("value to register") = 1 /\ "value to register" # "alone" BY DEF ValueAt
    <3> QED BY <1>3, <1>a, <3>1, Zenon
  <2>3. l \in R /\ IsWord(w)
    BY <1>3, <1>n, <1>o, <1>r, <1>w, <2>1, <2>2, Zenon DEF Operated, l, w, ops
  <2>4. CASE nm = "irmovq"
    <3>1. ShapeOf(nm, w, I_IRMOVQ, F_NONE, REG_NONE, l, w) BY <1>0, <1>s, <2>3, <2>4, Zenon
    <3>2. Means(line, I_IRMOVQ, F_NONE, REG_NONE, l, w) BY <2>4, Meanings, Zenon DEF l, w, ops
    <3> QED BY <2>3, <3>1, <3>2, ShapedByMeans, Zenon DEF w, ops
  <2>5. CASE nm = "iaddq"
    <3>1. ShapeOf(nm, w, I_IADDQ, F_NONE, REG_NONE, l, w) BY <1>0, <1>s, <2>3, <2>5, Zenon
    <3>2. Means(line, I_IADDQ, F_NONE, REG_NONE, l, w) BY <2>5, Meanings, Zenon DEF l, w, ops
    <3> QED BY <2>3, <3>1, <3>2, ShapedByMeans, Zenon DEF w, ops
  <2> QED BY <1>3, <2>4, <2>5, Zenon
<1>4. CASE nm \in VNames /\ Class(nm) = "value"
  <2>2. KnownAt(line, 1)
    <3>1. ValueAt("value") = 1 /\ "value" # "alone" BY DEF ValueAt
    <3> QED BY <1>4, <1>a, <3>1, Zenon
  <2>3. IsWord(w) BY <1>4, <1>n, <1>o, <1>w, <2>2, Zenon DEF Operated, w, ops
  <2>4. CASE nm \in DOMAIN Allocations BY <2>3, <2>4, Zenon DEF Shaped, w, ops
  <2>5. CASE nm \in DOMAIN Jumps
    <3>1. ShapeOf(nm, w, I_JMP, Jumps[nm], REG_NONE, REG_NONE, w) BY <1>0, <1>s, <2>5, Zenon
    <3>2. Means(line, I_JMP, Jumps[nm], REG_NONE, REG_NONE, w) BY <2>5, Meanings, Zenon DEF w, ops
    <3> QED BY <2>3, <3>1, <3>2, ShapedByMeans, Zenon DEF w, ops
  <2>6. CASE nm = "call"
    <3>1. ShapeOf(nm, w, I_CALL, F_NONE, REG_NONE, REG_NONE, w) BY <1>0, <1>s, <2>6, Zenon
    <3>2. Means(line, I_CALL, F_NONE, REG_NONE, REG_NONE, w) BY <2>6, Meanings, Zenon DEF w, ops
    <3> QED BY <2>3, <3>1, <3>2, ShapedByMeans, Zenon DEF w, ops
  <2> QED BY <1>4, <2>4, <2>5, <2>6, Zenon DEF VNames
<1>5. CASE nm \in RNames /\ Class(nm) = "register to register"
  <2>1. S(1) = "REG" /\ S(3) = "REG" BY <1>5, Zenon DEF Formed, S
  <2>3. f \in R /\ l \in R
    BY <1>5, <1>n, <1>o, <1>r, <2>1, Zenon DEF Operated, f, l, ops
  <2>x. nm \notin WithWord BY <1>5, Contents, Zenon DEF RNames
  <2>4. CASE nm \in DOMAIN Moves
    <3>1. ShapeOf(nm, w, I_RRMOVQ, Moves[nm], f, l, 0) BY <1>s, <2>3, <2>4, Zenon
    <3>2. Means(line, I_RRMOVQ, Moves[nm], f, l, 0) BY <2>4, Meanings, Zenon DEF f, l, ops
    <3> QED BY <2>x, <3>1, <3>2, ShapedByMeans, Zenon DEF w, ops
  <2>5. CASE nm \in DOMAIN Alus
    <3>1. ShapeOf(nm, w, I_ALU, Alus[nm], f, l, 0) BY <1>s, <2>3, <2>5, Zenon
    <3>2. Means(line, I_ALU, Alus[nm], f, l, 0) BY <2>5, Meanings, Zenon DEF f, l, ops
    <3> QED BY <2>x, <3>1, <3>2, ShapedByMeans, Zenon DEF w, ops
  <2> QED BY <1>5, <2>4, <2>5, Zenon DEF RNames
<1>6. CASE nm \in {"pushq", "popq"} /\ Class(nm) = "register"
  <2>1. S(1) = "REG" BY <1>6, Zenon DEF Formed, S
  <2>3. f \in R BY <1>6, <1>n, <1>o, <1>r, <2>1, Zenon DEF Operated, f, ops
  <2>x. nm \notin WithWord BY <1>6, Contents, Zenon
  <2>4. CASE nm = "pushq"
    <3>1. ShapeOf(nm, w, I_PUSHQ, F_NONE, f, REG_NONE, 0) BY <1>0, <1>s, <2>3, <2>4, Zenon
    <3>2. Means(line, I_PUSHQ, F_NONE, f, REG_NONE, 0) BY <2>4, Meanings, Zenon DEF f, ops
    <3> QED BY <2>x, <3>1, <3>2, ShapedByMeans, Zenon DEF w, ops
  <2>5. CASE nm = "popq"
    <3>1. ShapeOf(nm, w, I_POPQ, F_NONE, f, REG_NONE, 0) BY <1>0, <1>s, <2>3, <2>5, Zenon
    <3>2. Means(line, I_POPQ, F_NONE, f, REG_NONE, 0) BY <2>5, Meanings, Zenon DEF f, ops
    <3> QED BY <2>x, <3>1, <3>2, ShapedByMeans, Zenon DEF w, ops
  <2> QED BY <1>6, <2>4, <2>5, Zenon
<1>7. CASE nm \in Halts /\ Class(nm) = "alone"
  <2>x. nm \notin WithWord BY <1>7, Contents, Zenon DEF Halts
  <2>4. CASE nm = "nop"
    <3>1. ShapeOf(nm, w, I_NOP, F_NONE, REG_NONE, REG_NONE, 0) BY <1>0, <1>s, <2>4, Zenon
    <3>2. Means(line, I_NOP, F_NONE, REG_NONE, REG_NONE, 0) BY <2>4, Meanings, Zenon
    <3> QED BY <2>x, <3>1, <3>2, ShapedByMeans, Zenon DEF w, ops
  <2>5. CASE nm = "halt"
    <3>1. ShapeOf(nm, w, I_HALT, F_NONE, REG_NONE, REG_NONE, 0) BY <1>0, <1>s, <2>5, Zenon
    <3>2. Means(line, I_HALT, F_NONE, REG_NONE, REG_NONE, 0) BY <2>5, Meanings, Zenon
    <3> QED BY <2>x, <3>1, <3>2, ShapedByMeans, Zenon DEF w, ops
  <2>6. CASE nm = "ret"
    <3>1. ShapeOf(nm, w, I_RET, F_NONE, REG_NONE, REG_NONE, 0) BY <1>0, <1>s, <2>6, Zenon
    <3>2. Means(line, I_RET, F_NONE, REG_NONE, REG_NONE, 0) BY <2>6, Meanings, Zenon
    <3> QED BY <2>x, <3>1, <3>2, ShapedByMeans, Zenon DEF w, ops
  <2> QED BY <1>7, <2>4, <2>5, <2>6, Zenon DEF Halts
<1>8. ~(nm \in {".pos", ".align"})
  BY DEF InstrNames, Moves, Jumps, Alus, Allocations
<1>9. nm \in InstrNames \cup {".pos", ".align"} OBVIOUS
<1> QED BY <1>1, <1>2, <1>3, <1>4, <1>5, <1>6, <1>7, <1>8, <1>9, Classes, Zenon

-----------------------------------------------------------------------------
(* The loader. *)

\* What yas prints, as the loader takes it, and what there is in memory when some lines are read.
YoLines == [addr : Nat, bytes : Seq(Int)]
PlacesOf(i) == Yis!Places(yo[i])
Whole(i) == Yis!Stored(yo[i]) = Len(yo[i].bytes)
Fill(n) ==
  /\ \A a \in DOMAIN contents : \E i \in 1 .. n :
       /\ a \in PlacesOf(i) /\ contents[a] = yo[i].bytes[a - yo[i].addr + 1]
       /\ \A j \in i + 1 .. n : a \notin PlacesOf(j)
  /\ \A i \in 1 .. n : PlacesOf(i) \subseteq DOMAIN contents
  /\ byte_cnt \in Nat /\ (byte_cnt = 0 <=> \A i \in 1 .. n : Yis!Stored(yo[i]) = 0)
Loading ==
  /\ loadlines \in 0 .. Len(yo) /\ Fill(loadlines)
  /\ outcome \in {"loading", "loaded", "rejected"}
  /\ outcome # "rejected" => \A i \in 1 .. loadlines : Whole(i)
  /\ outcome = "loaded" => loadlines = Len(yo) /\ byte_cnt # 0
  /\ outcome = "rejected" => (loadlines = Len(yo) /\ byte_cnt = 0) \/ \E i \in 1 .. loadlines : ~Whole(i)

\* A line has as many places as bytes are stored.
LEMMA StoredIs ==
  ASSUME NEW line \in YoLines
  PROVE  /\ Yis!Stored(line) \in 0 .. Len(line.bytes) /\ Len(line.bytes) \in Nat /\ line.addr \in Nat
         /\ \A a \in Yis!Places(line) : a \in Nat /\ a - line.addr + 1 \in 1 .. Len(line.bytes)
         /\ Yis!Stored(line) = Len(line.bytes) => Yis!Places(line) = line.addr .. line.addr + Len(line.bytes) - 1
         /\ Yis!Stored(line) = Len(line.bytes) <=> line.addr + Len(line.bytes) <= MEM_SIZE \/ Len(line.bytes) = 0
<1> DEFINE n == Len(line.bytes)
           room == MEM_SIZE - line.addr
<1>1. line.addr \in Nat /\ n \in Nat /\ MEM_SIZE \in Nat BY MemAssumption DEF YoLines
<1>2. Yis!Stored(line) = IF n <= room THEN n ELSE IF room > 0 THEN room ELSE 0 BY DEF Yis!Stored
<1> HIDE DEF n
<1>3. Yis!Stored(line) \in 0 .. n BY <1>1, <1>2
<1>4. Yis!Stored(line) = n <=> line.addr + n <= MEM_SIZE \/ n = 0 BY <1>1, <1>2
<1>5. Yis!Places(line) = line.addr .. line.addr + Yis!Stored(line) - 1 BY DEF Yis!Places
<1>6. \A a \in Yis!Places(line) : a \in Nat /\ a - line.addr + 1 \in 1 .. n BY <1>1, <1>3, <1>5
<1> QED BY <1>1, <1>3, <1>4, <1>5, <1>6 DEF n

LEMMA LoadStep ==
  ASSUME yo \in Seq(YoLines), Loading, Yis!load_mem, yo' = yo
  PROVE  Loading'
<1>0. Len(yo) \in Nat /\ loadlines \in Nat /\ loadlines <= Len(yo) BY DEF Loading
<1>1. outcome = "loading" BY DEF Yis!load_mem
<1>a. "loading" # "rejected" /\ "loading" # "loaded" /\ "loaded" # "rejected" OBVIOUS
<1>2. Fill(loadlines) /\ \A i \in 1 .. loadlines : Whole(i) BY <1>1, <1>a, Zenon DEF Loading
<1>3. \A i : PlacesOf(i)' = PlacesOf(i) /\ (Whole(i)' <=> Whole(i)) /\ Yis!Stored(yo[i])' = Yis!Stored(yo[i])
  BY DEF PlacesOf, Whole, Yis!Places, Yis!Stored
<1>4. CASE Yis!EndOfLoad
  <2>1. /\ loadlines = Len(yo) /\ contents' = contents /\ loadlines' = loadlines /\ byte_cnt' = byte_cnt
        /\ outcome' = IF byte_cnt = 0 THEN "rejected" ELSE "loaded"
    BY <1>4 DEF Yis!EndOfLoad
  <2>2. Fill(loadlines)' BY <1>2, <1>3, <2>1, Zenon DEF Fill
  <2>3. \A i \in 1 .. loadlines' : Whole(i)' BY <1>2, <1>3, <2>1, Zenon
  <2>4. loadlines' \in 0 .. Len(yo') BY <1>0, <2>1
  <2>5. CASE byte_cnt = 0 BY <1>a, <2>1, <2>2, <2>3, <2>4, <2>5, Zenon DEF Loading
  <2>6. CASE byte_cnt # 0 BY <1>a, <2>1, <2>2, <2>3, <2>4, <2>6, Zenon DEF Loading
  <2> QED BY <2>5, <2>6
<1>5. CASE loadlines < Len(yo) /\ Yis!LoadLine(yo[loadlines + 1])
  <2> DEFINE n == loadlines
             line == yo[n + 1]
             k == Yis!Stored(line)
  <2>1. n + 1 \in 1 .. Len(yo) /\ n + 1 \in Nat BY <1>0, <1>5
  <2>2. line \in YoLines BY <2>1
  <2>3. /\ k \in 0 .. Len(line.bytes) /\ k \in Nat
    BY <2>2, StoredIs
  <2>4. /\ contents' = [a \in DOMAIN contents \cup PlacesOf(n + 1) |->
                          IF a \in PlacesOf(n + 1) THEN line.bytes[a - line.addr + 1] ELSE contents[a]]
        /\ byte_cnt' = byte_cnt + k /\ loadlines' = n + 1
        /\ outcome' = IF Whole(n + 1) THEN "loading" ELSE "rejected"
    BY <1>5 DEF Yis!LoadLine, PlacesOf, Whole
  <2>5. DOMAIN contents' = DOMAIN contents \cup PlacesOf(n + 1) BY <2>4
  <2>6. \A a \in PlacesOf(n + 1) : contents'[a] = line.bytes[a - line.addr + 1] BY <2>4
  <2>7. \A a \in DOMAIN contents : a \notin PlacesOf(n + 1) => contents'[a] = contents[a] BY <2>4
  <2> HIDE DEF line, k
  <2>8. \A i \in 1 .. n + 1 : i \in 1 .. n \/ i = n + 1 BY <1>0
  <2>9. \A i \in 1 .. n : i \in 1 .. n + 1 BY <1>0
  <2>b. n + 1 \in 1 .. n + 1 BY <1>0
  <2>10. \A a \in DOMAIN contents' : \E i \in 1 .. n + 1 :
          /\ a \in PlacesOf(i) /\ contents'[a] = yo[i].bytes[a - yo[i].addr + 1]
          /\ \A j \in i + 1 .. n + 1 : a \notin PlacesOf(j)
    <3> TAKE a \in DOMAIN contents'
    <3>1. CASE a \in PlacesOf(n + 1)
      <4>1. (n + 1) + 1 .. n + 1 = {} BY <1>0
      <4> QED BY <2>6, <2>b, <3>1, <4>1, Zenon DEF line
    <3>2. CASE a \notin PlacesOf(n + 1)
      <4>1. a \in DOMAIN contents BY <2>5, <3>2
      <4>2. PICK i \in 1 .. n : /\ a \in PlacesOf(i) /\ contents[a] = yo[i].bytes[a - yo[i].addr + 1]
                                /\ \A j \in i + 1 .. n : a \notin PlacesOf(j)
        BY <1>2, <4>1, Zenon DEF Fill
      <4>3. \A j \in i + 1 .. n + 1 : j \in i + 1 .. n \/ j = n + 1 BY <1>0, <4>2
      <4> QED BY <2>7, <2>9, <3>2, <4>1, <4>2, <4>3, Zenon
    <3> QED BY <3>1, <3>2
  <2>11. \A i \in 1 .. n + 1 : PlacesOf(i) \subseteq DOMAIN contents'
    <3>1. \A i \in 1 .. n : PlacesOf(i) \subseteq DOMAIN contents BY <1>2, Zenon DEF Fill
    <3> QED BY <2>5, <2>8, <3>1
  <2>12. byte_cnt' \in Nat /\ (byte_cnt' = 0 <=> \A i \in 1 .. n + 1 : Yis!Stored(yo[i]) = 0)
    <3>1. byte_cnt \in Nat /\ (byte_cnt = 0 <=> \A i \in 1 .. n : Yis!Stored(yo[i]) = 0)
      BY <1>2, Zenon DEF Fill
    <3>2. byte_cnt' = 0 <=> byte_cnt = 0 /\ k = 0 BY <2>3, <2>4, <3>1
    <3>3. (\A i \in 1 .. n + 1 : Yis!Stored(yo[i]) = 0) <=> (\A i \in 1 .. n : Yis!Stored(yo[i]) = 0) /\ k = 0
      BY <2>8, <2>9, <2>b, Zenon DEF k, line
    <3>4. byte_cnt' \in Nat BY <2>3, <2>4, <3>1
    <3> QED BY <3>1, <3>2, <3>3, <3>4, Zenon
  <2>13. Fill(loadlines)' BY <1>3, <2>4, <2>10, <2>11, <2>12, Zenon DEF Fill
  <2>14. loadlines' \in 0 .. Len(yo') BY <1>0, <1>5, <2>4
  <2>15. Whole(n + 1) => \A i \in 1 .. n + 1 : Whole(i)' BY <1>2, <1>3, <2>8, Zenon
  <2>16. CASE Whole(n + 1) BY <1>a, <2>4, <2>13, <2>14, <2>15, <2>16, Zenon DEF Loading
  <2>17. CASE ~Whole(n + 1) BY <1>3, <1>a, <2>4, <2>13, <2>14, <2>b, <2>17, Zenon DEF Loading
  <2> QED BY <2>16, <2>17
<1> QED BY <1>4, <1>5 DEF Yis!load_mem

-----------------------------------------------------------------------------
(* What the second pass prints of a line. *)

\* The address that is printed for a position.
Address(pos) == IF pos < 16^3 THEN pos % 16^3 ELSE pos

LEMMA AddressIs ==
  ASSUME NEW pos \in Int
  PROVE  Address(pos) \in Nat /\ (pos >= 0 => Address(pos) = pos)
BY DEF Address

\* The second pass comes to each line at its position, and knows the labels, if the positions that are
\* counted are those of the meaning.
LEMMA SecondSees ==
  ASSUME VerdictInv, newline, pass = 2, ~hit_error
  PROVE  /\ lineno \in 1 .. Len(source) /\ source[lineno] \in SourceLines /\ tokens = source[lineno].tokens
         /\ Len(source) \in Nat /\ DOMAIN source = 1 .. Len(source)
         /\ Types /\ ~error_mode /\ Sound1(source[lineno]) /\ Finished = lineno - 1 /\ lineno \in Nat
         /\ bytepos \in Int /\ \A k \in DOMAIN source : Positions[k] \in Int
         /\ SymbolNames = Labels
         /\ Exact => bytepos = Positions[lineno] /\ Resolves
<1>0. pass # 1 OBVIOUS
<1>1. Types /\ Clean /\ Track /\ ~error_mode BY Zenon DEF VerdictInv, PassInv
<1>2. lineno \in 1 .. Len(source) /\ Len(source) \in Nat /\ DOMAIN source = 1 .. Len(source) /\ lineno \in Nat
      /\ source \in Seq(SourceLines) /\ source[lineno] \in SourceLines
  <2>1. source \in Seq(SourceLines) /\ lineno \in 0 .. Len(source) /\ lineno # 0 BY <1>1, Zenon DEF Types
  <2> HIDE DEF SourceLines
  <2> QED BY <2>1
<1>3. tokens = source[lineno].tokens /\ Agreed BY <1>1, Zenon DEF Clean
<1>4. \A k \in 1 .. Len(source) : Sound1(source[k]) BY <1>0, <1>1, Zenon DEF Track, Sounds
<1>5. Finished = lineno - 1 /\ (lineno - 1) + 1 = lineno BY <1>2 DEF Finished
<1>6. PICK p : Measures(source, p, Len(source)) /\ Enters(source, symbol_table, p, Len(source)) /\ bytepos = p[lineno]
  BY <1>0, <1>3, <1>5, Zenon DEF Agreed
<1>7. \A k \in 1 .. Len(source) : Spots[k] = p[k] /\ p[k] \in Int BY <1>2, <1>4, <1>6, SpotsAre, Zenon
<1>p. \A k \in 1 .. Len(source) : Positions[k] \in Int BY <1>2, <1>4, PositionsAre, Zenon
<1>8. SymbolNames = Labels
  <2>1. ASSUME NEW k \in DOMAIN source, HasLabel(source[k]) PROVE LabelOf(source[k]) \in SymbolNames
    <3>0. k \in 1 .. Len(source) /\ Enters(source, symbol_table, p, Len(source)) BY <1>2, <1>6, Zenon
    <3>1. PICK s \in DOMAIN symbol_table : symbol_table[s] = [name |-> LabelOf(source[k]), pos |-> p[k]]
      BY <2>1, <3>0, EntersFinds
    <3>2. symbol_table[s].name = LabelOf(source[k]) BY <3>1
    <3> QED BY <3>2, Zenon DEF SymbolNames
  <2>2. Labels \subseteq SymbolNames BY <2>1, Zenon DEF Labels
  <2> QED BY <1>1, <2>2, Zenon DEF Track
<1>9. ASSUME Exact PROVE Resolves
  <2>1. PICK m \in Nat : DOMAIN symbol_table = 1 .. m
    <3>1. symbol_table \in Seq([name : STRING, pos : Int]) BY <1>1, Zenon DEF Types
    <3> DEFINE S == [name : STRING, pos : Int]
    <3> HIDE DEF S
    <3>2. symbol_table \in Seq(S) BY <3>1 DEF S
    <3>3. Len(symbol_table) \in Nat /\ DOMAIN symbol_table = 1 .. Len(symbol_table) BY <3>2
    <3> QED BY <3>3, Zenon
  <2>2. ASSUME NEW name \in SymbolNames
        PROVE  /\ find_symbol(name) = p[Definition(name)]
               /\ Definition(name) \in 1 .. Len(source) /\ HasLabel(source[Definition(name)])
    BY <1>2, <1>6, <2>1, SymbolIs, Zenon
  <2>3. \A k \in 1 .. Len(source) : p[k] = Positions[k] BY <1>2, <1>7, <1>9, Zenon DEF Exact
  <2> QED BY <1>2, <1>8, <2>2, <2>3, Zenon DEF Resolves
<1>10. Exact => bytepos = Positions[lineno] BY <1>2, <1>6, <1>7, Zenon DEF Exact
<1> QED BY <1>1, <1>2, <1>3, <1>4, <1>5, <1>6, <1>7, <1>p, <1>8, <1>9, <1>10, Zenon

\* The bytes of an instruction are bytes.
LEMMA BytesOf ==
  ASSUME NEW line \in SourceLines, Sound1(line), Takes(line), Shaped(line), NEW c, Coded(line, c),
         \A k \in DOMAIN source : Positions[k] \in Int
  PROVE  \A i \in 0 .. Size(line) - 1 : c[i] \in 0 .. 255
<1> DEFINE nm == Name(line)
           w == Word(Operands(line))
           m == Meaning(line)
<1>1. \A v \in Int, i \in Nat : Byte(v, i) \in 0 .. 255
  <2> SUFFICES ASSUME NEW v \in Int, NEW i \in Nat PROVE Byte(v, i) \in 0 .. 255 OBVIOUS
  <2>1. CASE i < 4
    <3> DEFINE d == Weight[i + 1]
    <3>1. d \in Nat \ {0}
      <4>1. i \in {0, 1, 2, 3} BY <2>1
      <4> QED BY <4>1, SMT DEF Weight
    <3> HIDE DEF d
    <3>2. v \div d \in Int BY <3>1
    <3>3. (v \div d) % 256 \in 0 .. 255 BY <3>2
    <3>4. Byte(v, i) = (v \div d) % 256 BY <2>1, Zenon DEF Byte, d
    <3> QED BY <3>3, <3>4
  <2>2. CASE ~(i < 4) BY <2>2 DEF Byte
  <2> QED BY <2>1, <2>2
<1>2. \A v : IsWord(v) => v \in Int BY IntsAre, Zenon DEF IsWord
<1>3. Size(line) = IF nm \in DOMAIN Allocations THEN Allocations[nm]
                   ELSE 1 + (IF nm \in WithRegisters THEN 1 ELSE 0) + (IF nm \in WithWord THEN 8 ELSE 0)
  BY Taking, Zenon
<1>4. CASE nm \in DOMAIN Allocations
  <2>1. w \in Int BY <1>2, <1>4, Zenon DEF Shaped
  <2>2. Size(line) \in Nat BY Taking, Zenon
  <2>3. \A i \in 0 .. Size(line) - 1 : c[i] = Byte(w, i) BY <1>3, <1>4, Zenon DEF Coded
  <2> HIDE DEF w
  <2>4. \A i \in 0 .. Size(line) - 1 : i \in Nat BY <2>2
  <2> QED BY <1>1, <2>1, <2>3, <2>4, Zenon
<1>5. CASE nm \notin DOMAIN Allocations
  <2>1. /\ m.icode \in 0 .. 15 /\ m.ifun \in 0 .. 15 /\ m.rA \in 0 .. 15 /\ m.rB \in 0 .. 15
        /\ m.valC = IF nm \in WithWord THEN w ELSE 0
        /\ nm \in WithWord => IsWord(w)
    BY <1>5, Zenon DEF Shaped
  <2>2. /\ c[0] = HPACK(m.icode, m.ifun)
        /\ nm \in WithRegisters => c[1] = HPACK(m.rA, m.rB)
        /\ nm \in WithWord => Spread(c, WordStart(nm), m.valC)
    BY <1>5, Zenon DEF Coded
  <2>3. c[0] \in 0 .. 255 /\ (nm \in WithRegisters => c[1] \in 0 .. 255)
    <3> DEFINE B == 0 .. 255
               R == 0 .. 15
    <3>1. \A a, b \in R : HPACK(a, b) \in B BY Halves, Zenon
    <3>2. m.icode \in R /\ m.ifun \in R /\ m.rA \in R /\ m.rB \in R BY <2>1, Zenon
    <3> HIDE DEF B, R, m, nm
    <3>3. c[0] \in B /\ (nm \in WithRegisters => c[1] \in B) BY <2>2, <3>1, <3>2
    <3> QED BY <3>3 DEF B
  <2>4. nm \in WithWord => m.valC \in Int BY <1>2, <2>1, Zenon
  <2> DEFINE v == m.valC
             s == WordStart(nm)
  <2>5. s = IF nm \in WithRegisters THEN 2 ELSE 1 BY Zenon DEF WordStart
  <2>6. nm \in WithWord => \A i \in 0 .. 7 : c[s + i] \in 0 .. 255
    <3>1. \A i \in 0 .. 7 : i \in Nat OBVIOUS
    <3> QED BY <1>1, <2>2, <2>4, <3>1, ZenonT(60) DEF Spread
  <2> HIDE DEF v, s, m, w, nm
  <2>7. ASSUME NEW i \in 0 .. Size(line) - 1 PROVE i = 0 \/ (i = 1 /\ nm \in WithRegisters)
                                                 \/ (nm \in WithWord /\ i - s \in 0 .. 7 /\ s + (i - s) = i)
    BY <1>3, <1>5, <2>5, <2>7
  <2> QED BY <2>3, <2>6, <2>7, Zenon
<1> QED BY <1>4, <1>5

\* A line of the output shows the bytes that its source line means, at the line's position.
Shows(bytes, line) ==
  /\ ~Takes(line) => bytes = <<>>
  /\ Takes(line) => /\ Shaped(line) /\ Len(bytes) = Size(line)
                    /\ \E c : Coded(line, c) /\ \A i \in 1 .. Size(line) : bytes[i] = c[i - 1]
Printed(y, k) ==
  /\ Shows(y.bytes, source[k])
  /\ Takes(source[k]) => y.addr = Address(Positions[k])

LEMMA PrintsLine ==
  ASSUME NEW pos \in Int, NEW bytes \in Seq(Int), NEW failed, print_code(pos, bytes, failed), ~hit_error'
  PROVE  \E y \in YoLines : yo' = Append(yo, y) /\ y.bytes = bytes /\ y.addr = Address(pos)
<1> DEFINE a == Address(pos)
           y == [addr |-> a, bytes |-> bytes]
<1>1. ~(pos > 16^4 - 1) BY Zenon DEF print_code
<1>2. yo' = Append(yo, y) BY <1>1, Zenon DEF print_code, Address
<1>3. a \in Nat BY AddressIs
<1> HIDE DEF a
<1>4. y \in YoLines /\ y.bytes = bytes /\ y.addr = a BY <1>3 DEF YoLines
<1> HIDE DEF y
<1> QED BY <1>2, <1>4, Zenon DEF a

LEMMA FinishPrints ==
  ASSUME VerdictInv, Exact, IsCode(code), finish_line, pass = 2, ~hit_error, ~hit_error'
  PROVE  /\ IsCode(code')
         /\ tokens = <<>> => yo' = yo
         /\ tokens # <<>> => \E y \in YoLines : yo' = Append(yo, y) /\ Printed(y, lineno)
<1> DEFINE line == source[lineno]
           name == Name(line)
           Goal == \E y \in YoLines : yo' = Append(yo, y) /\ Printed(y, lineno)
<1>0. pass # 1 OBVIOUS
<1>1. newline /\ ~newline' /\ source' = source /\ lineno' = lineno /\ pass' = pass BY FinishFrame, Zenon
<1>2. /\ lineno \in 1 .. Len(source) /\ line \in SourceLines /\ tokens = line.tokens
      /\ Len(source) \in Nat /\ DOMAIN source = 1 .. Len(source)
      /\ Types /\ ~error_mode /\ Sound1(line) /\ lineno \in Nat
      /\ bytepos = Positions[lineno] /\ bytepos \in Int
      /\ \A k \in DOMAIN source : Positions[k] \in Int
      /\ SymbolNames = Labels /\ Resolves
  BY <1>1, SecondSees, Zenon
<1>3. FineLine(lineno)
  <2>1. Track' BY FinishJudges, Zenon
  <2>2. Finished' = lineno BY <1>1, Zenon DEF Finished
  <2>3. pass' = 2 BY <1>1
  <2>4. lineno \in 1 .. lineno BY <1>2
  <2>5. FineLine(lineno)' BY <1>1, <2>1, <2>2, <2>3, <2>4, Zenon DEF Track
  <2> QED BY <1>1, <1>2, <2>5, SameSource, Zenon
<1>4. LabelOk(line) BY <1>2, Zenon DEF Sound1
<1>5. Labelled => Punct(2, ":") BY <1>2, <1>4, LineSeen, Zenon
<1>6. Takes(line) <=> IsStatement(line) /\ name \notin {".pos", ".align"} BY <1>2, Taking, Zenon
<1>7. tokens # <<>> /\ IsStatement(line) => Formed(line, Class(name)) /\ Known(line, Labels)
  BY <1>2, <1>3, FineIs, Zenon
<1>8. <<>> \in Seq(Int) OBVIOUS
<1> HIDE DEF line, name
<1>9. ASSUME NEW pos \in Int, print_code(pos, <<>>, FALSE), ~Takes(line), code' = code
      PROVE  IsCode(code') /\ Goal
  <2>1. PICK y \in YoLines : yo' = Append(yo, y) /\ y.bytes = <<>>
    <3>1. \A no : no = FALSE /\ print_code(pos, <<>>, no) =>
                    \E y \in YoLines : yo' = Append(yo, y) /\ y.bytes = <<>>
      BY <1>8, PrintsLine, Zenon
    <3> QED BY <1>9, <3>1, Zenon
  <2>2. Printed(y, lineno) BY <1>9, <2>1, Zenon DEF Printed, Shows, line
  <2> QED BY <1>9, <2>1, <2>2, Zenon
<1>10. CASE EmptyLine BY <1>10, Zenon DEF EmptyLine, Finish
<1>11. CASE ErroneousLine BY <1>2, <1>11, Zenon DEF ErroneousLine
<1>12. CASE MissingColon BY <1>5, <1>12, Zenon DEF MissingColon
<1>13. CASE LabelOnly
  <2>1. tokens # <<>> /\ print_code(bytepos, <<>>, FALSE) /\ code' = code
    BY <1>0, <1>13, Zenon DEF LabelOnly, GoodLabel, Line, PrintInPass2
  <2>2. ~IsStatement(line) BY <1>2, <1>4, <1>13, LineSeen, Zenon DEF LabelOnly
  <2> QED BY <1>2, <1>6, <1>9, <2>1, <2>2, Zenon
<1>14. CASE BadInstruction BY <1>14, Zenon DEF BadInstruction, fail
<1>15. CASE InvalidAddress BY <1>15, Zenon DEF InvalidAddress, fail
<1>16. CASE InvalidAlignment BY <1>16, Zenon DEF InvalidAlignment, fail
<1>17. ASSUME Statement
       PROVE  /\ tokens # <<>> /\ IsStatement(line) /\ Type(tpos0) = "INSTR" /\ Mnemonic = name
              /\ \A nm : Token(tpos0) = <<"INSTR", nm>> <=> name = nm
              /\ Type(tpos0 + 1) = "NUM" => Token(tpos0 + 1)[2] = Number(line) /\ Number(line) \in Int
  <2>1. tokens # <<>> /\ ~(Labelled /\ Len(tokens) = 2)
    BY <1>17, Zenon DEF Statement, GoodLabel, Line
  <2>2. IsStatement(line) BY <1>2, <1>4, <2>1, LineSeen, Zenon
  <2>3. StatementOf(line)[1][1] = "INSTR" BY <1>2, <2>2, Zenon DEF Sound1
  <2>4. /\ Type(tpos0) = "INSTR" /\ Mnemonic = name
        /\ \A nm : Token(tpos0) = <<"INSTR", nm>> <=> Type(tpos0) = "INSTR" /\ Mnemonic = nm
        /\ Type(tpos0 + 1) = "NUM" <=> Sees(line, 1) = "NUM"
        /\ Sees(line, 1) = "NUM" => Token(tpos0 + 1)[2] = Number(line)
    BY <1>2, <1>4, <2>2, <2>3, LineSeen, Zenon DEF name
  <2>5. Sees(line, 1) = "NUM" => Number(line) \in Int BY <1>2, <1>4, <2>2, StatementTokens, Zenon
  <2> QED BY <2>1, <2>2, <2>4, <2>5, Zenon
<1>18. CASE Pos
  <2>1. /\ name = ".pos" /\ tokens # <<>> /\ Token(tpos0 + 1)[2] \in Int
        /\ print_code(Token(tpos0 + 1)[2], <<>>, FALSE) /\ code' = code
    BY <1>0, <1>17, <1>18, Zenon DEF Pos, Directive, MoveTo, PrintInPass2
  <2>2. ~Takes(line) BY <1>6, <2>1, Zenon
  <2> QED BY <1>9, <2>1, <2>2, Zenon
<1>19. CASE Align
  <2>1. /\ name = ".align" /\ tokens # <<>> /\ Token(tpos0 + 1)[2] \in Int /\ Token(tpos0 + 1)[2] > 0
        /\ print_code(Aligned(bytepos, Token(tpos0 + 1)[2]), <<>>, FALSE) /\ code' = code
    BY <1>0, <1>17, <1>19, Zenon DEF Align, ValidAlignment, Directive, MoveTo, PrintInPass2
  <2>2. ~Takes(line) BY <1>6, <2>1, Zenon
  <2>3. Aligned(bytepos, Token(tpos0 + 1)[2]) \in Int
    <3> DEFINE n == Token(tpos0 + 1)[2]
    <3>1. n \in Nat \ {0} BY <2>1
    <3> HIDE DEF n
    <3>2. bytepos \in Int BY <1>2, Zenon
    <3>3. Aligned(bytepos, n) \in Int BY <3>1, <3>2, AlignedInt, Zenon
    <3> QED BY <3>3 DEF n
  <2> QED BY <1>9, <2>1, <2>2, <2>3, Zenon
<1>20. CASE Measure BY <1>0, <1>20, Zenon DEF Measure
<1>21. CASE EncodeLine
  <2> DEFINE instr == find_instr(name)
             enc == Encode(instr, tpos0 + 1)
             n == instr.bytes
             bytes == [k \in 1 .. n |-> enc.code[k - 1]]
  <2>1. tokens # <<>> /\ IsStatement(line) /\ Mnemonic = name /\ name \notin {".pos", ".align"}
    BY <1>17, <1>21, Zenon DEF EncodeLine, Instruction
  <2>2. Takes(line) BY <1>6, <2>1, Zenon
  <2>3. name \in InstrNames /\ n = Size(line) /\ n \in Nat BY <1>2, <2>2, Taking, Zenon DEF name
  <2>4. Formed(line, Class(name)) /\ Known(line, SymbolNames) BY <1>2, <1>7, <2>1, Zenon
  <2>5. HasForm(line)
    <3>1. Sound(line) BY <1>2, <1>3, <2>1, Zenon DEF FineLine, line
    <3> QED BY <2>1, <3>1, Zenon DEF Sound
  <2>6. Coded(line, enc.code) /\ IsCode(enc.code)
    BY <1>2, <1>4, <2>1, <2>3, <2>4, <2>5, CodedLine, Zenon DEF name
  <2>7. Shaped(line) BY <1>2, <1>4, <2>1, <2>3, <2>4, <2>5, ShapedLine, Zenon DEF name
  <2>8. /\ enc.printed => print_code(bytepos, bytes, enc.failed)
        /\ ~enc.printed => hit_error' = TRUE
        /\ code' = enc.code
    BY <1>21, <2>1, Zenon DEF EncodeLine
  <2> HIDE DEF enc, instr, n
  <2>9. \A i \in 0 .. Size(line) - 1 : enc.code[i] \in 0 .. 255 BY <1>2, <2>2, <2>6, <2>7, BytesOf, Zenon
  <2>10. bytes \in Seq(Int) /\ Len(bytes) = n /\ \A i \in 1 .. n : bytes[i] = enc.code[i - 1]
    <3>1. \A i \in 1 .. n : i - 1 \in 0 .. n - 1 BY <2>3
    <3>2. \A i \in 1 .. n : enc.code[i - 1] \in Int
      <4>1. \A x \in 0 .. 255 : x \in Int OBVIOUS
      <4> QED BY <2>3, <2>9, <3>1, <4>1, Zenon
    <3> QED BY <2>3, <3>2
  <2> HIDE DEF bytes
  <2>11. print_code(bytepos, bytes, enc.failed) BY <2>8, Zenon
  <2>12. PICK y \in YoLines : yo' = Append(yo, y) /\ y.bytes = bytes /\ y.addr = Address(bytepos)
    BY <1>2, <2>10, <2>11, PrintsLine, Zenon
  <2>13. Shows(bytes, line) BY <2>2, <2>3, <2>6, <2>7, <2>10, Zenon DEF Shows
  <2>14. Printed(y, lineno) BY <1>2, <2>12, <2>13, Zenon DEF Printed, line
  <2> QED BY <2>1, <2>6, <2>8, <2>12, <2>14, Zenon
<1> QED BY <1>10, <1>11, <1>12, <1>13, <1>14, <1>15, <1>16, <1>18, <1>19, <1>20, <1>21, Zenon DEF finish_line

-----------------------------------------------------------------------------
(* The output of the second pass. *)

\* The output has a line for each of the first n lines of the source that are not empty, in their order.
Listed(n, at) ==
  /\ \A i \in 1 .. Len(yo) : at[i] \in 1 .. n /\ source[at[i]].tokens # <<>>
  /\ \A i \in 1 .. Len(yo), y \in YoLines : y = yo[i] => Printed(y, at[i])
  /\ \A i, j \in 1 .. Len(yo) : i < j => at[i] < at[j]
  /\ \A k \in 1 .. n : source[k].tokens # <<>> => \E i \in 1 .. Len(yo) : at[i] = k
Printing == yo \in Seq(YoLines) /\ \E at : Listed(Finished, at)

YoInv ==
  /\ ~hit_error /\ (pass = 1 \/ Exact) => IsCode(code)
  /\ pass = 1 => yo = <<>>
  /\ pass = 2 /\ ~hit_error /\ Exact => Printing
  /\ status = "assembled" => pass = 2 /\ ~hit_error /\ ~newline /\ lineno = Len(source)

\* Both counts of the positions are made of the source alone, and so is what is printed of a line.
LEMMA ExactStays ==
  ASSUME source' = source
  PROVE  Exact' <=> Exact
<1>1. Positions' = Positions BY SMT DEF Positions
<1>2. Spots' = Spots BY Zenon DEF Spots
<1> QED BY <1>1, <1>2, Zenon DEF Exact

LEMMA PrintedStays ==
  ASSUME source' = source
  PROVE  \A y, k : Printed(y, k) => Printed(y, k)'
<1>1. Positions' = Positions BY SMT DEF Positions
<1>2. \A name : Definition(name)' = Definition(name) BY SMT DEF Definition
<1>3. \A tok : Meant(tok)' = Meant(tok) BY <1>1, <1>2, SMT DEF Meant
<1>4. \A ops : Word(ops)' = Word(ops) BY <1>3, SMT DEF Word
<1>5. \A line : Meaning(line)' = Meaning(line) BY <1>4, SMT DEF Meaning
<1>6. \A w : IsWord(w) => IsWord(w)' BY <1>1, SMT DEF IsWord
<1>7. \A line : Shaped(line) => Shaped(line)' BY <1>4, <1>5, <1>6, Zenon DEF Shaped
<1>8. \A line, c : Coded(line, c) => Coded(line, c)' BY <1>4, <1>5, Zenon DEF Coded
<1>9. \A bytes, line : Shows(bytes, line) => Shows(bytes, line)' BY <1>7, <1>8, Zenon DEF Shows
<1> QED BY <1>1, <1>9, Zenon DEF Printed

\* A line of the source without tokens has none in the output.
LEMMA ListedMore ==
  ASSUME NEW n \in Nat, NEW at, Listed(n, at), source[n + 1].tokens = <<>>
  PROVE  Listed(n + 1, at)
<1>1. \A k \in 1 .. n + 1 : k \in 1 .. n \/ k = n + 1 OBVIOUS
<1>2. \A k \in 1 .. n : k \in 1 .. n + 1 OBVIOUS
<1> QED BY <1>1, <1>2, Zenon DEF Listed

LEMMA ListedStays ==
  ASSUME source' = source, yo' = yo, NEW n, NEW at, Listed(n, at)
  PROVE  Listed(n, at)'
BY PrintedStays, Zenon DEF Listed

\* One that has tokens is listed next.
LEMMA ListedNext ==
  ASSUME source' = source, NEW n \in Nat, NEW at, Listed(n, at), yo \in Seq(YoLines),
         NEW y \in YoLines, yo' = Append(yo, y), Printed(y, n + 1), source[n + 1].tokens # <<>>
  PROVE  yo' \in Seq(YoLines) /\ \E to : Listed(n + 1, to)'
<1>0. PICK m \in Nat : m = Len(yo) OBVIOUS
<1>1. /\ yo' \in Seq(YoLines) /\ Len(yo') = m + 1
      /\ \A i \in 1 .. m : yo'[i] = yo[i]
      /\ yo'[m + 1] = y
  <2> HIDE DEF YoLines
  <2> QED BY <1>0, Appending
<1>2. PICK to : to[m + 1] = n + 1 /\ \A i \in 1 .. m : to[i] = at[i]
  <2> DEFINE F == [i \in 1 .. m + 1 |-> IF i = m + 1 THEN n + 1 ELSE at[i]]
  <2>1. F[m + 1] = n + 1 /\ \A i \in 1 .. m : F[i] = at[i] BY <1>0
  <2> QED BY <2>1, Zenon
<1>3. \A i \in 1 .. m + 1 : i \in 1 .. m \/ i = m + 1 BY <1>0
<1>4. /\ \A i \in 1 .. m : at[i] \in 1 .. n /\ source[at[i]].tokens # <<>>
      /\ \A i \in 1 .. m, z \in YoLines : z = yo[i] => Printed(z, at[i])
  BY <1>0, Zenon DEF Listed
<1>5. \A k \in 1 .. n : k \in 1 .. n + 1 /\ k < n + 1 /\ k \in Nat OBVIOUS
<1>6. n + 1 \in 1 .. n + 1 /\ m + 1 \in 1 .. m + 1 /\ \A i \in 1 .. m : i \in 1 .. m + 1 BY <1>0
<1>7. /\ \A i \in 1 .. m + 1 : to[i] \in 1 .. n + 1 /\ source'[to[i]].tokens # <<>>
      /\ \A i \in 1 .. m + 1, z \in YoLines : z = yo'[i] => Printed(z, to[i])'
  <2>1. \A x, k : Printed(x, k) => Printed(x, k)' BY PrintedStays, Zenon
  <2>2. ASSUME NEW i \in 1 .. m
        PROVE  /\ to[i] \in 1 .. n + 1 /\ source'[to[i]].tokens # <<>>
               /\ \A z \in YoLines : z = yo'[i] => Printed(z, to[i])'
    <3>1. yo'[i] = yo[i] /\ to[i] = at[i] BY <1>1, <1>2, Zenon
    <3>2. at[i] \in 1 .. n + 1 /\ source'[at[i]].tokens # <<>> BY <1>4, <1>5, Zenon
    <3>3. \A z \in YoLines : z = yo'[i] => Printed(z, at[i])' BY <1>4, <2>1, <3>1, Zenon
    <3> QED BY <3>1, <3>2, <3>3, Zenon
  <2>3. /\ to[m + 1] \in 1 .. n + 1 /\ source'[to[m + 1]].tokens # <<>>
        /\ \A z \in YoLines : z = yo'[m + 1] => Printed(z, to[m + 1])'
    <3>1. Printed(y, n + 1)' BY <2>1, Zenon
    <3>2. \A z \in YoLines : z = yo'[m + 1] => Printed(z, n + 1)' BY <1>1, <3>1, Zenon
    <3> QED BY <1>2, <1>6, <3>2, Zenon
  <2> QED BY <1>3, <2>2, <2>3, Zenon
<1>8. \A i, j \in 1 .. m + 1 : i < j => to[i] < to[j]
  <2> SUFFICES ASSUME NEW i \in 1 .. m + 1, NEW j \in 1 .. m + 1, i < j PROVE to[i] < to[j] OBVIOUS
  <2>1. i \in 1 .. m BY <1>0
  <2>2. CASE j = m + 1 BY <1>2, <1>4, <1>5, <2>1, <2>2, Zenon
  <2>3. CASE j \in 1 .. m BY <1>0, <1>2, <2>1, <2>3, Zenon DEF Listed
  <2> QED BY <1>3, <2>2, <2>3, Zenon
<1>9. \A k \in 1 .. n + 1 : source'[k].tokens # <<>> => \E i \in 1 .. m + 1 : to[i] = k
  <2> TAKE k \in 1 .. n + 1
  <2>1. k \in 1 .. n \/ k = n + 1 OBVIOUS
  <2>2. CASE k = n + 1 BY <1>2, <1>6, <2>2, Zenon
  <2>3. CASE k \in 1 .. n
    <3> SUFFICES ASSUME source[k].tokens # <<>> PROVE \E i \in 1 .. m + 1 : to[i] = k BY Zenon
    <3>1. PICK i \in 1 .. m : at[i] = k BY <1>0, <2>3, Zenon DEF Listed
    <3> QED BY <1>2, <1>6, <3>1, Zenon
  <2> QED BY <2>1, <2>2, <2>3, Zenon
<1>10. Listed(n + 1, to)' BY <1>1, <1>7, <1>8, <1>9, Zenon DEF Listed
<1> QED BY <1>1, <1>10, Zenon

LEMMA YoInit == Init => YoInv
<1> SUFFICES ASSUME Init PROVE YoInv OBVIOUS
<1>1. pass = 1 /\ yo = <<>> /\ status = "assembling" /\ IsCode(code) BY DEF Init, YasInit, IsCode
<1>2. "assembling" # "assembled" /\ pass # 2 BY <1>1
<1> QED BY <1>1, <1>2, Zenon DEF YoInv

LEMMA YoScan ==
  ASSUME VerdictInv, YoInv, ScanLine \/ SkipLine
  PROVE  YoInv'
<1>1. PICK line \in NextLines :
        /\ ReadLine(line)
        /\ \/ /\ start = "INITIAL" /\ tokens' = tokens \o line.tokens /\ newline' = (line.end = "newline")
              /\ hit_error' = (hit_error \/ line.end = "junk")
           \/ start = "ERR" /\ newline' = newline /\ hit_error' = (hit_error \/ ~Unended(line))
  BY DEF ScanLine, SkipLine
<1>2. status = "assembling" /\ ~newline BY Zenon DEF ScanLine, SkipLine, Reading
<1>3. lineno' = lineno + 1 /\ UNCHANGED <<pass, status, code, yo>>
  BY <1>1, Zenon DEF ReadLine
<1>4. "assembling" # "assembled" OBVIOUS
<1>5. hit_error => hit_error' BY <1>1, Zenon
<1>p. pass = 1 \/ pass = 2 BY Zenon DEF VerdictInv, PassInv, Types
<1>s. ASSUME pass = 2, ~hit_error'
      PROVE  /\ ~hit_error /\ Types /\ Clean /\ Track
             /\ source' = source /\ lineno + 1 \in 1 .. Len(source) /\ line = source[lineno + 1] /\ (Exact' <=> Exact)
  <2>0. pass # 1 BY <1>s
  <2>1. ~hit_error BY <1>5, <1>s
  <2>2. Types /\ Clean /\ Track BY <2>1, Zenon DEF VerdictInv, PassInv
  <2>3. source' = source /\ lineno + 1 \in 1 .. Len(source) /\ line = source[lineno + 1]
    BY <1>1, <1>s, <2>0, <2>2, LinesTaken, Zenon DEF ReadLine
  <2> QED BY <2>1, <2>2, <2>3, ExactStays, Zenon
<1>6. ASSUME ~hit_error', pass = 1 \/ Exact' PROVE IsCode(code)'
  <2>1. ~hit_error BY <1>5, <1>6
  <2>2. pass = 1 \/ Exact BY <1>p, <1>s, <1>6, Zenon
  <2>3. IsCode(code) BY <2>1, <2>2, Zenon DEF YoInv
  <2> QED BY <1>3, <2>3, Zenon DEF IsCode
<1>7. ASSUME pass = 2, ~hit_error', Exact' PROVE Printing'
  <2>0. pass # 1 BY <1>7
  <2>1. ~hit_error /\ Exact BY <1>s, <1>7, Zenon
  <2>2. Types /\ Clean /\ Track BY <1>s, <1>7, Zenon
  <2>3. source' = source /\ lineno + 1 \in 1 .. Len(source) /\ line = source[lineno + 1]
    BY <1>s, <1>7, Zenon
  <2>4. tokens = <<>> /\ line \in SourceLines /\ lineno \in Nat
    <3>1. line \in SourceLines /\ lineno \in 0 .. Len(source) /\ source \in Seq(SourceLines)
      BY <2>2, LinesTaken, Zenon DEF Types
    <3> HIDE DEF SourceLines
    <3> QED BY <1>2, <1>7, <2>2, <3>1 DEF Clean
  <2>5. PICK at : Listed(lineno, at) BY <1>2, <1>7, <2>1, Zenon DEF YoInv, Printing, Finished
  <2>6. PICK n \in Nat : n = lineno BY <2>4, Zenon
  <2>7. Listed(n, at) BY <2>5, <2>6, Zenon
  <2>8. CASE newline'
    <3>1. Finished' = n BY <1>3, <2>6, <2>8 DEF Finished
    <3>2. Listed(n, at)' BY <1>3, <2>3, <2>7, ListedStays, Zenon
    <3> QED BY <1>3, <1>7, <2>1, <3>1, <3>2, Zenon DEF Printing, YoInv
  <2>9. CASE ~newline'
    <3>1. Unended(line)
      <4>1. line.end \in {"newline", "junk", "cut", "cutjunk"} BY <2>4 DEF SourceLines
      <4> QED BY <1>1, <1>7, <2>9, <4>1 DEF Unended
    <3>2. source[n + 1].tokens = <<>> BY <2>2, <2>3, <2>4, <2>6, <3>1, Zenon DEF Clean
    <3>3. Listed(n + 1, at) BY <2>7, <3>2, ListedMore, Zenon
    <3>4. Finished' = n + 1 BY <1>3, <2>6, <2>9, Zenon DEF Finished
    <3>5. Listed(n + 1, at)' BY <1>3, <2>3, <3>3, ListedStays, Zenon
    <3> QED BY <1>3, <1>7, <2>1, <3>4, <3>5, Zenon DEF Printing, YoInv
  <2> QED BY <2>8, <2>9
<1> QED BY <1>2, <1>3, <1>4, <1>6, <1>7, Zenon DEF YoInv

\* Without an error the first pass prints nothing.
LEMMA FinishQuiet ==
  ASSUME finish_line, pass = 1
  PROVE  yo' = yo /\ code' = code
<1>1. \A pos : PrintInPass2(pos) => yo' = yo BY DEF PrintInPass2
<1> QED
  BY <1>1 DEF finish_line, EmptyLine, ErroneousLine, MissingColon, LabelOnly, BadInstruction, InvalidAddress, Pos,
                    InvalidAlignment, Align, MoveTo, Measure, EncodeLine, Instruction, fail

LEMMA YoFinish ==
  ASSUME VerdictInv, YoInv, finish_line
  PROVE  YoInv'
<1>1. /\ newline /\ ~newline' /\ source' = source /\ lineno' = lineno /\ pass' = pass
      /\ hit_error => hit_error'
  BY FinishFrame, Zenon
<1>2. status' # "assembled"
  <2>1. "assembling" # "assembled" /\ "failed" # "assembled" OBVIOUS
  <2> QED BY <2>1, FinishStatus, Zenon
<1>3. pass \in {1, 2} BY Zenon DEF VerdictInv, PassInv, Types
<1>4. CASE pass = 1
  <2>1. yo' = yo /\ code' = code /\ pass' = 1 /\ pass' # 2 BY <1>1, <1>4, FinishQuiet
  <2>2. IsCode(code) => IsCode(code') BY <2>1
  <2>3. ~hit_error' => IsCode(code') BY <1>1, <1>4, <2>2, Zenon DEF YoInv
  <2> QED BY <1>1, <1>2, <1>4, <2>1, <2>3, Zenon DEF YoInv
<1>5. CASE pass = 2
  <2>0. pass' = 2 /\ pass' # 1 BY <1>1, <1>5
  <2>1. ASSUME ~hit_error', Exact' PROVE IsCode(code)' /\ Printing'
    <3>1. ~hit_error /\ Exact BY <1>1, <2>1, ExactStays, Zenon
    <3>2. Finished = lineno - 1 /\ tokens = source[lineno].tokens /\ lineno \in 1 .. Len(source) /\ Len(source) \in Nat
      BY <1>1, <1>5, <3>1, SecondSees, Zenon
    <3>3. PICK n \in Nat : n + 1 = lineno /\ n = lineno - 1
      <4>1. lineno - 1 \in Nat /\ (lineno - 1) + 1 = lineno BY <3>2
      <4> QED BY <4>1, Zenon
    <3>4. yo \in Seq(YoLines) /\ \E at : Listed(n, at) BY <1>5, <3>1, <3>2, <3>3, Zenon DEF YoInv, Printing
    <3>5. PICK at : Listed(n, at) BY <3>4, Zenon
    <3>6. Finished' = n + 1 BY <1>1, <3>3, Zenon DEF Finished
    <3>7. IsCode(code) BY <3>1, Zenon DEF YoInv
    <3>8. IsCode(code')
      BY <1>5, <2>1, <3>1, <3>7, FinishPrints, Zenon
    <3>9. CASE tokens = <<>>
      <4>1. yo' = yo BY <1>5, <2>1, <3>1, <3>7, <3>9, FinishPrints, Zenon
      <4>2. Listed(n + 1, at) BY <3>2, <3>3, <3>5, <3>9, ListedMore, Zenon
      <4>3. Listed(n + 1, at)' BY <1>1, <4>1, <4>2, ListedStays, Zenon
      <4>4. Printing' BY <3>4, <3>6, <4>1, <4>3, Zenon DEF Printing
      <4> QED BY <3>8, <4>4, Zenon
    <3>10. CASE tokens # <<>>
      <4>1. PICK y \in YoLines : yo' = Append(yo, y) /\ Printed(y, lineno)
        BY <1>5, <2>1, <3>1, <3>7, <3>10, FinishPrints, Zenon
      <4>2. Printed(y, n + 1) /\ source[n + 1].tokens # <<>> BY <3>2, <3>3, <3>10, <4>1, Zenon
      <4>3. yo' \in Seq(YoLines) /\ \E to : Listed(n + 1, to)'
        BY <1>1, <3>4, <3>5, <4>1, <4>2, ListedNext, Zenon
      <4>4. Printing' BY <3>6, <4>3, Zenon DEF Printing
      <4> QED BY <3>8, <4>4, Zenon
    <3> QED BY <3>9, <3>10
  <2> QED BY <1>2, <2>0, <2>1, Zenon DEF YoInv
<1> QED BY <1>3, <1>4, <1>5

LEMMA YoEnd ==
  ASSUME VerdictInv, YoInv, EndOfFile
  PROVE  YoInv'
<1>1. /\ status = "assembling" /\ ~newline /\ (pass = 2 => lineno = Len(source)) /\ hit_error' = Erred
      /\ source' = source /\ newline' = newline /\ code' = code /\ yo' = yo
  BY Zenon DEF EndOfFile, AtEnd, Reading
<1>2. hit_error => hit_error' BY <1>1, Zenon DEF Erred
<1>e. Exact' <=> Exact BY <1>1, ExactStays, Zenon
<1>3. ~hit_error' /\ (pass = 1 \/ Exact') => IsCode(code)' BY <1>1, <1>2, <1>e, Zenon DEF YoInv, IsCode
<1>4. "assembling" # "assembled" /\ "failed" # "assembled" OBVIOUS
<1>5. CASE pass = 1 /\ SecondPass /\ status' = status
  <2>1. pass' = 2 /\ pass' # 1 /\ lineno' = 0 /\ yo = <<>> BY <1>5 DEF SecondPass, YoInv
  <2>2. Finished' = 0 BY <1>1, <2>1, Zenon DEF Finished
  <2>3. yo' \in Seq(YoLines) /\ Len(yo') = 0 BY <1>1, <2>1
  <2>4. \A at : Listed(0, at)'
    <3>1. 1 .. Len(yo') = {} /\ 1 .. 0 = {} BY <2>3
    <3> QED BY <3>1, Zenon DEF Listed
  <2>5. Printing' BY <2>2, <2>3, <2>4, Zenon DEF Printing
  <2> QED BY <1>1, <1>3, <1>4, <1>5, <2>1, <2>5, Zenon DEF YoInv
<1>6. CASE pass = 1 /\ status' = "failed" /\ UNCHANGED <<pass, lineno>>
  <2>1. pass' = 1 /\ pass' # 2 BY <1>6
  <2> QED BY <1>1, <1>3, <1>4, <1>6, <2>1, Zenon DEF YoInv
<1>7. CASE pass = 2 /\ status' = (IF Erred THEN "failed" ELSE "assembled") /\ UNCHANGED <<pass, lineno>>
  <2>1. pass' = 2 /\ pass' # 1 BY <1>7
  <2>2. Finished' = Finished BY <1>1, <1>7, Zenon DEF Finished
  <2>3. ASSUME ~hit_error', Exact' PROVE Printing'
    <3>1. yo \in Seq(YoLines) /\ \E at : Listed(Finished, at) BY <1>2, <1>e, <1>7, <2>3, Zenon DEF YoInv, Printing
    <3>2. PICK n : n = Finished BY Zenon
    <3>3. PICK at : Listed(n, at) BY <3>1, <3>2, Zenon
    <3>4. Listed(n, at)' BY <1>1, <3>3, ListedStays, Zenon
    <3> QED BY <1>1, <2>2, <3>1, <3>2, <3>4, Zenon DEF Printing
  <2>4. status' = "assembled" => ~hit_error' BY <1>1, <1>4, <1>7, Zenon
  <2> QED BY <1>1, <1>3, <1>7, <2>1, <2>3, <2>4, Zenon DEF YoInv
<1> QED BY <1>5, <1>6, <1>7, Zenon DEF EndOfFile

LEMMA YoNext == VerdictInv /\ YoInv /\ [Next]_vars => YoInv'
<1> SUFFICES ASSUME VerdictInv, YoInv, [Next]_vars PROVE YoInv' OBVIOUS
<1>1. CASE UNCHANGED yasvars
  <2>1. /\ source' = source /\ pass' = pass /\ lineno' = lineno /\ newline' = newline /\ code' = code /\ yo' = yo
        /\ hit_error' = hit_error /\ status' = status
    BY <1>1, Zenon DEF yasvars
  <2>2. Finished' = Finished BY <2>1, Zenon DEF Finished
  <2>3. Printing => Printing'
    <3> SUFFICES ASSUME Printing PROVE Printing' OBVIOUS
    <3>1. yo \in Seq(YoLines) /\ \E at : Listed(Finished, at) BY Zenon DEF Printing
    <3>2. PICK n : n = Finished BY Zenon
    <3>3. PICK at : Listed(n, at) BY <3>1, <3>2, Zenon
    <3>4. Listed(n, at)' BY <2>1, <3>3, ListedStays, Zenon
    <3> QED BY <2>1, <2>2, <3>1, <3>2, <3>4, Zenon DEF Printing
  <2>4. IsCode(code) => IsCode(code)' BY <2>1, Zenon DEF IsCode
  <2>5. Exact' <=> Exact BY <2>1, ExactStays, Zenon
  <2> QED BY <2>1, <2>3, <2>4, <2>5, Zenon DEF YoInv
<1> QED BY <1>1, YoScan, YoFinish, YoEnd, Zenon DEF Next, YasNext, vars

-----------------------------------------------------------------------------
(* The loader, which starts when the assembler is done. *)

Waiting == contents = <<>> /\ loadlines = 0 /\ byte_cnt = 0 /\ outcome = "loading"
LoadInv ==
  /\ status # "assembled" => Waiting
  /\ status = "assembled" /\ Exact => Loading

LEMMA LoadInit == Init => LoadInv
<1> SUFFICES ASSUME Init PROVE LoadInv OBVIOUS
<1>1. status = "assembling" /\ Waiting BY DEF Init, YasInit, Yis!init_mem, Waiting
<1> QED BY <1>1 DEF LoadInv

LEMMA WaitingIsLoading ==
  ASSUME Waiting, yo \in Seq(YoLines)
  PROVE  Loading
<1>1. Len(yo) \in Nat OBVIOUS
<1>2. 0 \in 0 .. Len(yo) /\ 1 .. 0 = {} BY <1>1
<1>3. DOMAIN contents = {} /\ loadlines = 0 /\ byte_cnt = 0 /\ outcome = "loading" BY DEF Waiting
<1>4. Fill(0) BY <1>2, <1>3 DEF Fill
<1> QED BY <1>2, <1>3, <1>4 DEF Loading

LEMMA LoadNext == VerdictInv /\ YoInv /\ YoInv' /\ LoadInv /\ [Next]_vars => LoadInv'
<1> SUFFICES ASSUME VerdictInv, YoInv, YoInv', LoadInv, [Next]_vars PROVE LoadInv' OBVIOUS
<1>a. "assembling" # "assembled" OBVIOUS
<1>1. CASE YasNext /\ UNCHANGED <<contents, loadlines, byte_cnt, outcome>>
  <2>1. status = "assembling"
    BY <1>1, FinishStatus, Zenon DEF YasNext, ScanLine, SkipLine, EndOfFile, AtEnd, Reading
  <2>2. Waiting' BY <1>1, <1>a, <2>1, Zenon DEF LoadInv, Waiting
  <2>3. CASE status' = "assembled" /\ Exact'
    <3>1. yo' \in Seq(YoLines) BY <2>3, Zenon DEF YoInv, Printing
    <3>2. Loading'
      <4>1. Waiting /\ yo \in Seq(YoLines) => Loading BY WaitingIsLoading, Zenon
      <4>2. (Waiting /\ yo \in Seq(YoLines) => Loading)' BY WaitingIsLoading, PTL
      <4> QED BY <2>2, <3>1, <4>2
    <3> QED BY <2>3, <3>2, Zenon DEF LoadInv
  <2>4. CASE status' # "assembled" BY <2>2, <2>4, Zenon DEF LoadInv
  <2>5. CASE status' = "assembled" /\ ~Exact' BY <2>5, Zenon DEF LoadInv
  <2> QED BY <2>3, <2>4, <2>5
<1>2. CASE status = "assembled" /\ Yis!load_mem /\ UNCHANGED yasvars
  <2>1. status' = "assembled" /\ yo' = yo /\ (Exact' <=> Exact)
    <3>1. source' = source BY <1>2, Zenon DEF yasvars
    <3> QED BY <1>2, <3>1, ExactStays, Zenon DEF yasvars
  <2>2. ASSUME Exact PROVE Loading'
    <3>1. yo \in Seq(YoLines) BY <1>2, <2>2, Zenon DEF YoInv, Printing
    <3> QED BY <1>2, <2>1, <2>2, <3>1, LoadStep, Zenon DEF LoadInv
  <2> QED BY <2>1, <2>2, Zenon DEF LoadInv
<1>3. CASE UNCHANGED vars
  <2>1. /\ status' = status /\ yo' = yo /\ contents' = contents /\ loadlines' = loadlines /\ byte_cnt' = byte_cnt
        /\ outcome' = outcome /\ source' = source
    BY <1>3, Zenon DEF vars, yasvars
  <2>2. Waiting => Waiting' BY <2>1, Zenon DEF Waiting
  <2>3. Loading => Loading'
    <3>1. \A i : PlacesOf(i)' = PlacesOf(i) /\ (Whole(i)' <=> Whole(i)) /\ Yis!Stored(yo[i])' = Yis!Stored(yo[i])
      BY <2>1 DEF PlacesOf, Whole, Yis!Places, Yis!Stored
    <3> QED BY <2>1, <3>1, Zenon DEF Loading, Fill
  <2>4. Exact' <=> Exact BY <2>1, ExactStays, Zenon
  <2> QED BY <2>1, <2>2, <2>3, <2>4, Zenon DEF LoadInv
<1> QED BY <1>1, <1>2, <1>3, Zenon DEF Next

-----------------------------------------------------------------------------
(* The bytes of a number put together again. *)

Signed(b) == IF b < 128 THEN b ELSE b - 256
\* What is left of a number from its byte k on.
Rest(v, k) == IF k < 4 THEN v \div Weight[k + 1] ELSE IF v < 0 THEN -1 ELSE 0

LEMMA Bytes4 ==
  ASSUME NEW v \in Int
  PROVE  /\ Rest(v, 0) = v /\ Byte(v, 0) = v % 256
         /\ Rest(v, 1) = v \div 256 /\ Byte(v, 1) = (v \div 256) % 256
         /\ Rest(v, 2) = v \div 65536 /\ Byte(v, 2) = (v \div 65536) % 256
         /\ Rest(v, 3) = v \div 16777216 /\ Byte(v, 3) = (v \div 16777216) % 256
         /\ \A k \in 4 .. 8 : Rest(v, k) = (IF v < 0 THEN -1 ELSE 0) /\ Byte(v, k) = IF v < 0 THEN 255 ELSE 0
<1>1. Weight[1] = 1 /\ Weight[2] = 256 /\ Weight[3] = 65536 /\ Weight[4] = 16777216 BY SMT DEF Weight
<1>2. v \div 1 = v BY SMT
<1>3. Rest(v, 0) = v /\ Byte(v, 0) = v % 256 BY <1>1, <1>2, SMT DEF Rest, Byte
<1>4. Rest(v, 1) = v \div 256 /\ Byte(v, 1) = (v \div 256) % 256 BY <1>1, SMT DEF Rest, Byte
<1>5. Rest(v, 2) = v \div 65536 /\ Byte(v, 2) = (v \div 65536) % 256 BY <1>1, SMT DEF Rest, Byte
<1>6. Rest(v, 3) = v \div 16777216 /\ Byte(v, 3) = (v \div 16777216) % 256 BY <1>1, SMT DEF Rest, Byte
<1>7. \A k \in 4 .. 8 : Rest(v, k) = (IF v < 0 THEN -1 ELSE 0) /\ Byte(v, k) = IF v < 0 THEN 255 ELSE 0
  BY SMT DEF Rest, Byte
<1> QED BY <1>3, <1>4, <1>5, <1>6, <1>7, SMT

LEMMA Digits ==
  ASSUME NEW v \in Ints
  PROVE  /\ v \in Int /\ Rest(v, 0) = v
         /\ \A k \in 0 .. 7 : Rest(v, k) \in Int /\ Byte(v, k) \in 0 .. 255
         /\ \A k \in 0 .. 6 : Rest(v, k) = Rest(v, k + 1) * 256 + Byte(v, k)
         /\ \A k \in 3 .. 7 : Signed(Byte(v, k)) = Rest(v, k)
         /\ (Signed(Byte(v, 0)) - v) % 256 = 0
         /\ (Signed(Byte(v, 1)) * 256 + Byte(v, 0) - v) % 65536 = 0
<1>1. v \in Int /\ -2147483648 <= v /\ v <= 2147483647
  <2>1. v \in Int /\ INT_MIN <= v /\ v <= INT_MAX BY IntsAre
  <2> QED BY <2>1, SMT DEF INT_MIN, INT_MAX
<1>v. v \in Int BY <1>1, SMT
<1> DEFINE a == v \div 256
           b == v \div 65536
           c == v \div 16777216
<1>2. a \in Int /\ b \in Int /\ c \in Int BY <1>1, SMT
<1>3. v = a * 256 + (v % 256) /\ v % 256 \in 0 .. 255 BY <1>1, SMT
<1>4. a = b * 256 + (a % 256) /\ a % 256 \in 0 .. 255 BY <1>1, SMT
<1>5. b = c * 256 + (b % 256) /\ b % 256 \in 0 .. 255 BY <1>1, SMT
<1>6. /\ c \in -128 .. 127 /\ (v < 0 <=> c < 0) BY <1>1, SMT
<1> HIDE DEF a, b, c
<1>7. c % 256 \in 0 .. 255 /\ c % 256 = (IF c < 0 THEN c + 256 ELSE c) BY <1>6, SMT
<1>8. /\ Rest(v, 0) = v /\ Byte(v, 0) = v % 256
      /\ Rest(v, 1) = a /\ Byte(v, 1) = a % 256
      /\ Rest(v, 2) = b /\ Byte(v, 2) = b % 256
      /\ Rest(v, 3) = c /\ Byte(v, 3) = c % 256
      /\ \A k \in 4 .. 8 : Rest(v, k) = (IF v < 0 THEN -1 ELSE 0) /\ Byte(v, k) = IF v < 0 THEN 255 ELSE 0
  BY <1>1, Bytes4, SMT DEF a, b, c
<1>9. \A k \in 0 .. 7 : k \in {0, 1, 2, 3} \/ k \in 4 .. 8 OBVIOUS
<1>10. \A k \in 0 .. 7 : Rest(v, k) \in Int /\ Byte(v, k) \in 0 .. 255
  <2>1. \A k \in {0, 1, 2, 3} : Rest(v, k) \in Int /\ Byte(v, k) \in 0 .. 255
    <3>1. Rest(v, 0) \in Int /\ Byte(v, 0) \in 0 .. 255 BY <1>v, <1>3, <1>8, Zenon
    <3>2. Rest(v, 1) \in Int /\ Byte(v, 1) \in 0 .. 255 BY <1>2, <1>4, <1>8, Zenon
    <3>3. Rest(v, 2) \in Int /\ Byte(v, 2) \in 0 .. 255 BY <1>2, <1>5, <1>8, Zenon
    <3>4. Rest(v, 3) \in Int /\ Byte(v, 3) \in 0 .. 255 BY <1>2, <1>7, <1>8, Zenon
    <3> QED BY <3>1, <3>2, <3>3, <3>4, Zenon
  <2>2. \A k \in 4 .. 8 : Rest(v, k) \in Int /\ Byte(v, k) \in 0 .. 255 BY <1>8, SMT
  <2> QED BY <1>9, <2>1, <2>2, SMT
<1>11. \A k \in 0 .. 6 : Rest(v, k) = Rest(v, k + 1) * 256 + Byte(v, k)
  <2>1. \A k \in {0, 1, 2} : Rest(v, k) = Rest(v, k + 1) * 256 + Byte(v, k)
    BY <1>3, <1>4, <1>5, <1>8, SMT
  <2>2. Rest(v, 3) = Rest(v, 4) * 256 + Byte(v, 3) BY <1>2, <1>6, <1>7, <1>8, SMT
  <2>3. \A k \in 4 .. 6 : Rest(v, k) = Rest(v, k + 1) * 256 + Byte(v, k) BY <1>8, SMT
  <2>4. \A k \in 0 .. 6 : k \in {0, 1, 2} \/ k = 3 \/ k \in 4 .. 6 OBVIOUS
  <2> QED BY <2>1, <2>2, <2>3, <2>4, SMT
<1>12. \A k \in 3 .. 7 : Signed(Byte(v, k)) = Rest(v, k)
  <2>1. Signed(Byte(v, 3)) = Rest(v, 3) BY <1>6, <1>7, <1>8, SMT DEF Signed
  <2>2. \A k \in 4 .. 7 : Signed(Byte(v, k)) = Rest(v, k) BY <1>8, SMT DEF Signed
  <2> QED BY <2>1, <2>2, SMT
<1>13. (Signed(Byte(v, 0)) - v) % 256 = 0
  <2> DEFINE d == v % 256
  <2>d. Byte(v, 0) = d BY <1>8
  <2>e. v = a * 256 + d /\ d \in 0 .. 255 BY <1>3
  <2> HIDE DEF d
  <2>s. Signed(d) = d \/ Signed(d) = d - 256 BY <2>e, SMT DEF Signed
  <2>1. Signed(Byte(v, 0)) - v = (-a) * 256 \/ Signed(Byte(v, 0)) - v = (-a - 1) * 256
    BY <1>2, <2>d, <2>e, <2>s, SMT
  <2> QED BY <1>2, <2>1, SMT
<1>14. (Signed(Byte(v, 1)) * 256 + Byte(v, 0) - v) % 65536 = 0
  <2>1. Signed(a % 256) = (a % 256) \/ Signed(a % 256) = (a % 256) - 256 BY <1>4, SMT DEF Signed
  <2>2. v = b * 65536 + ((a % 256) * 256) + (v % 256) BY <1>2, <1>3, <1>4, SMT
  <2>3. \/ (Signed(a % 256) * 256) + (v % 256) - v = -b * 65536
        \/ (Signed(a % 256) * 256) + (v % 256) - v = (-b - 1) * 65536
    BY <1>1, <1>2, <1>3, <1>4, <2>1, <2>2, SMT
  <2> QED BY <1>2, <1>8, <2>3, SMT
<1> QED BY <1>1, <1>8, <1>10, <1>11, <1>12, <1>13, <1>14, SMT

\* f sums up the bytes b to the number t of the last of them, byte e.
SumsUp(f, e, t, b) == \A k \in 0 .. e : f[k] = IF k = e THEN t ELSE f[k + 1] * 256 + b[k]

\* A number that is put together from its last byte on comes out in one way.
LEMMA OneSum ==
  ASSUME NEW e \in Nat, NEW t, NEW b, NEW f, NEW g,
         SumsUp(f, e, t, b), SumsUp(g, e, t, b)
  PROVE  f[0] = g[0]
<1> DEFINE S == {j \in Nat : j <= e => f[e - j] = g[e - j]}
<1>1. 0 \in S
  <2>1. e \in 0 .. e /\ e - 0 = e /\ 0 \in Nat OBVIOUS
  <2>2. f[e] = t /\ g[e] = t BY <2>1, ZenonT(60) DEF SumsUp
  <2> QED BY <2>1, <2>2, Zenon
<1>2. ASSUME NEW j \in Nat, j \in S PROVE j + 1 \in S
  <2> SUFFICES ASSUME j + 1 <= e PROVE f[e - (j + 1)] = g[e - (j + 1)] OBVIOUS
  <2> DEFINE k == e - (j + 1)
  <2>1. k \in 0 .. e /\ k # e /\ k + 1 = e - j /\ j <= e OBVIOUS
  <2>2. f[k + 1] = g[k + 1] BY <1>2, <2>1
  <2> HIDE DEF k
  <2>3. f[k] = f[k + 1] * 256 + b[k] /\ g[k] = g[k + 1] * 256 + b[k] BY <2>1, ZenonT(60) DEF SumsUp
  <2> QED BY <2>2, <2>3 DEF k
<1> HIDE DEF S
<1>3. Nat \subseteq S BY <1>1, <1>2, SetInduction
<1>4. e \in S BY <1>3
<1>5. e - e = 0 /\ e <= e OBVIOUS
<1> QED BY <1>4, <1>5 DEF S

-----------------------------------------------------------------------------
(* Memory that holds the bytes of a line gives the line's meaning back. *)

\* The bytes of v from byte k of n bytes on, as a number with a sign.
Whence(v, n, k) ==
  IF k = n - 1 THEN Signed(Byte(v, k)) ELSE IF n < 4 THEN Signed(Byte(v, 1)) * 256 + Byte(v, 0) ELSE Rest(v, k)

LEMMA WhenceIs ==
  ASSUME NEW v \in Ints, NEW n \in {1, 2, 4, 8}
  PROVE  /\ \A k \in 0 .. n - 1 : Whence(v, n, k) = IF k = n - 1 THEN Signed(Byte(v, n - 1))
                                                    ELSE Whence(v, n, k + 1) * 256 + Byte(v, k)
         /\ n < 4 => (Whence(v, n, 0) - v) % Weight[n + 1] = 0
         /\ n >= 4 => Whence(v, n, 0) = v
<1>1. /\ v \in Int /\ Rest(v, 0) = v
      /\ \A k \in 0 .. 6 : Rest(v, k) = Rest(v, k + 1) * 256 + Byte(v, k)
      /\ \A k \in 3 .. 7 : Signed(Byte(v, k)) = Rest(v, k)
      /\ (Signed(Byte(v, 0)) - v) % 256 = 0
      /\ (Signed(Byte(v, 1)) * 256 + Byte(v, 0) - v) % 65536 = 0
  BY Digits, SMT
<1>w. Weight[2] = 256 /\ Weight[3] = 65536 BY SMT DEF Weight
<1>2. CASE n = 1
  <2>1. \A k \in 0 .. n - 1 : k = 0 /\ k = n - 1 BY <1>2
  <2>2. Whence(v, n, 0) = Signed(Byte(v, 0)) BY <1>2, SMT DEF Whence
  <2> QED BY <1>1, <1>2, <1>w, <2>1, <2>2, SMT
<1>3. CASE n = 2
  <2>1. \A k \in 0 .. n - 1 : k = 0 \/ k = 1 BY <1>3
  <2>2. Whence(v, n, 1) = Signed(Byte(v, 1)) /\ Whence(v, n, 0) = Signed(Byte(v, 1)) * 256 + Byte(v, 0)
    BY <1>3, SMT DEF Whence
  <2>w. n + 1 = 3 BY <1>3
  <2>z. Byte(v, 0) \in 0 .. 255 /\ Byte(v, 1) \in 0 .. 255 BY Digits, SMT
  <2>s. Signed(Byte(v, 1)) \in Int BY <2>z, SMT DEF Signed
  <2>x. ((Signed(Byte(v, 1)) * 256 + Byte(v, 0)) - v) % Weight[3] = 0 BY <1>1, <1>w, <2>s, <2>z, SMT
  <2>3. (Whence(v, n, 0) - v) % Weight[n + 1] = 0
    <3> DEFINE x == Signed(Byte(v, 1)) * 256 + Byte(v, 0)
               m == 3
    <3>1. (x - v) % Weight[m] = 0 BY <2>x, SMT
    <3>2. Whence(v, n, 0) = x /\ n + 1 = m BY <2>2, <2>w
    <3> HIDE DEF x, m
    <3> QED BY <3>1, <3>2, Zenon
  <2>4. \A k \in 0 .. n - 1 : Whence(v, n, k) = IF k = n - 1 THEN Signed(Byte(v, n - 1))
                                                ELSE Whence(v, n, k + 1) * 256 + Byte(v, k)
    <3>1. 0 # 1 /\ n - 1 = 1 /\ 0 + 1 = 1 BY <1>3
    <3>2. CASE TRUE
      <4> TAKE k \in 0 .. n - 1
      <4>1. CASE k = 0 BY <2>2, <3>1, <4>1
      <4>2. CASE k = 1 BY <2>2, <3>1, <4>2
      <4> QED BY <2>1, <4>1, <4>2
    <3> QED BY <3>2
  <2>5. ~(n >= 4) BY <1>3
  <2> QED BY <2>3, <2>4, <2>5, Zenon
<1>4. CASE n \in {4, 8}
  <2>1. \A k \in 0 .. n - 1 : Whence(v, n, k) = Rest(v, k)
    <3> TAKE k \in 0 .. n - 1
    <3>1. k = n - 1 => k \in 3 .. 7 BY <1>4
    <3>2. ~(n < 4) BY <1>4
    <3> QED BY <1>1, <3>1, <3>2, SMT DEF Whence
  <2>2. Whence(v, n, n - 1) = Signed(Byte(v, n - 1)) BY SMT DEF Whence
  <2>3. \A k \in 0 .. n - 1 : k # n - 1 => k + 1 \in 0 .. n - 1 /\ k \in 0 .. 6 BY <1>4
  <2>4. 0 \in 0 .. n - 1 BY <1>4
  <2> QED BY <1>1, <1>4, <2>1, <2>2, <2>3, <2>4, SMT
<1> QED BY <1>2, <1>3, <1>4

\* How the bytes from pos on are summed up, in byte_val and word_val alike.
Summing(g, e, t, pos) == [k \in 0 .. e |-> IF k = e THEN t ELSE g[k + 1] * 256 + Yis!get_byte_val(pos + k)]
Summed(q, e, t, pos) == \A k \in 0 .. e : q[k] = IF k = e THEN t ELSE q[k + 1] * 256 + Yis!get_byte_val(pos + k)
SumOf(e, t, pos) == (CHOOSE g : g = Summing(g, e, t, pos))[0]

LEMMA SumFound ==
  ASSUME NEW e \in Nat, NEW t, NEW pos, NEW q, Summed(q, e, t, pos), q = [k \in 0 .. e |-> q[k]]
  PROVE  SumOf(e, t, pos) = q[0]
<1> DEFINE B(k) == Yis!get_byte_val(pos + k)
           b == [k \in 0 .. e |-> B(k)]
           val == CHOOSE g : g = Summing(g, e, t, pos)
<1>0. \A k \in 0 .. e : b[k] = B(k)
  <2> HIDE DEF B
  <2> QED OBVIOUS
<1>s. \A g : Summing(g, e, t, pos) = [k \in 0 .. e |-> IF k = e THEN t ELSE g[k + 1] * 256 + B(k)]
  BY Zenon DEF Summing
<1>1. q = Summing(q, e, t, pos)
  <2>1. \A k \in 0 .. e : q[k] = IF k = e THEN t ELSE q[k + 1] * 256 + B(k) BY Zenon DEF Summed
  <2> HIDE DEF B
  <2>2. [k \in 0 .. e |-> q[k]] = [k \in 0 .. e |-> IF k = e THEN t ELSE q[k + 1] * 256 + B(k)] BY <2>1
  <2> QED BY <1>s, <2>2, ZenonT(60)
<1>2. val = Summing(val, e, t, pos) BY <1>1, Zenon
<1> HIDE DEF val
<1>4. SumsUp(val, e, t, b)
  <2>1. \A k \in 0 .. e : val[k] = IF k = e THEN t ELSE val[k + 1] * 256 + B(k)
    <3> HIDE DEF B
    <3> QED BY <1>2, <1>s
  <2> HIDE DEF B, b
  <2> QED BY <1>0, <2>1 DEF SumsUp
<1>5. SumsUp(q, e, t, b)
  <2>1. \A k \in 0 .. e : q[k] = IF k = e THEN t ELSE q[k + 1] * 256 + B(k) BY Zenon DEF Summed
  <2> HIDE DEF B, b
  <2> QED BY <1>0, <2>1, ZenonT(60) DEF SumsUp
<1>6. val[0] = q[0]
  <2> HIDE DEF b, B
  <2> QED BY <1>4, <1>5, OneSum
<1> QED BY <1>6, Zenon DEF val, SumOf

LEMMA HeldIs ==
  ASSUME NEW pos \in Int, NEW v \in Ints, NEW n \in {1, 2, 4, 8},
         \A i \in 0 .. n - 1 : Yis!get_byte_val(pos + i) = Byte(v, i)
  PROVE  Holds(pos, n, v) /\ (n = 8 => Yis!get_word_val(pos) = v)
<1>0. n \in Nat /\ n - 1 \in Nat /\ n - 1 \in 0 .. n - 1 /\ 0 \in 0 .. n - 1 /\ pos + (n - 1) = pos + n - 1 OBVIOUS
<1> DEFINE top == Yis!get_byte_val(pos + n - 1)
           t == IF top < 128 THEN top ELSE top - 256
           q == [k \in 0 .. n - 1 |-> Whence(v, n, k)]
<1>1. t = Signed(Byte(v, n - 1)) BY <1>0 DEF Signed
<1>2. \A k \in 0 .. n - 1 : q[k] = IF k = n - 1 THEN t ELSE q[k + 1] * 256 + Yis!get_byte_val(pos + k)
  <2> TAKE k \in 0 .. n - 1
  <2>1. Whence(v, n, k) = IF k = n - 1 THEN Signed(Byte(v, n - 1)) ELSE Whence(v, n, k + 1) * 256 + Byte(v, k)
    BY WhenceIs
  <2>2. q[k] = Whence(v, n, k) BY Zenon
  <2>3. CASE k = n - 1
    <3> HIDE DEF q, t
    <3> QED BY <1>1, <2>1, <2>2, <2>3
  <2>4. CASE k # n - 1
    <3>1. k + 1 \in 0 .. n - 1 BY <1>0, <2>4
    <3>2. q[k + 1] = Whence(v, n, k + 1) BY <3>1, Zenon
    <3> HIDE DEF q, t
    <3> QED BY <2>1, <2>2, <2>4, <3>2
  <2> QED BY <2>3, <2>4
<1>3. q = [k \in 0 .. n - 1 |-> q[k]] OBVIOUS
<1>s. Summed(q, n - 1, t, pos)
  <2> HIDE DEF q, t
  <2> QED BY <1>2, Zenon DEF Summed
<1>4. q[0] = Whence(v, n, 0) BY <1>0
<1>5. Held(pos, n) = q[0]
  <2> DEFINE G == SumOf(n - 1, t, pos)
  <2>1. G = q[0]
    <3> HIDE DEF q, t
    <3> QED BY <1>0, <1>3, <1>s, SumFound
  <2>2. Held(pos, n) = G BY Zenon DEF Held, Summing, SumOf
  <2> HIDE DEF G, q
  <2> QED BY <2>1, <2>2
<1>7. ASSUME n = 8 PROVE Yis!get_word_val(pos) = q[0]
  <2> DEFINE u == IF Yis!get_byte_val(pos + 7) < 128 THEN Yis!get_byte_val(pos + 7) ELSE Yis!get_byte_val(pos + 7) - 256
             G == SumOf(7, u, pos)
  <2>1. n - 1 = 7 /\ pos + n - 1 = pos + 7 /\ 7 \in Nat BY <1>7
  <2>2. u = t
    <3>1. top = Yis!get_byte_val(pos + 7) BY <2>1, Zenon
    <3> QED BY <3>1
  <2> HIDE DEF u, t, q
  <2>3. Summed(q, 7, u, pos) BY <1>s, <2>1, <2>2, Zenon
  <2>4. q = [k \in 0 .. 7 |-> q[k]]
    <3>1. \A m : m = n - 1 => q = [k \in 0 .. m |-> q[k]] BY <1>3, Zenon
    <3> QED BY <2>1, <3>1, Zenon
  <2>5. G = q[0]
    <3> DEFINE e == 7
    <3>1. e \in Nat /\ Summed(q, e, u, pos) /\ q = [k \in 0 .. e |-> q[k]] BY <2>1, <2>3, <2>4, Zenon
    <3> HIDE DEF e
    <3>2. SumOf(e, u, pos) = q[0] BY <3>1, SumFound
    <3> QED BY <3>2, Zenon DEF e
  <2>6. Yis!get_word_val(pos) = G BY Zenon DEF Yis!get_word_val, u, Summing, SumOf
  <2> HIDE DEF G
  <2> QED BY <2>5, <2>6
<1> HIDE DEF q
<1>8. Holds(pos, n, v)
  <2>1. n < 4 => (Whence(v, n, 0) - v) % Weight[n + 1] = 0 BY WhenceIs
  <2>2. n >= 4 => Whence(v, n, 0) = v BY WhenceIs
  <2>3. n >= 4 <=> ~(n < 4) BY <1>0
  <2> QED BY <1>4, <1>5, <2>1, <2>2, <2>3, Zenon DEF Holds
<1>9. ASSUME n = 8 PROVE Yis!get_word_val(pos) = v
  <2>1. Whence(v, n, 0) = v BY <1>9, WhenceIs
  <2> QED BY <1>4, <1>7, <1>9, <2>1, Zenon
<1> QED BY <1>8, <1>9

\* The bytes at pos are those of an instruction with these parts, and these are the parts fetched there.
BytesAt(pos, ic, fn, ra, rb, v, imm) ==
  /\ ic \in 0 .. 15 /\ fn \in 0 .. 15 /\ ra \in 0 .. 15 /\ rb \in 0 .. 15
  /\ Yis!NeedRegids(ic) => imm = pos + 2
  /\ ~Yis!NeedRegids(ic) => imm = pos + 1
  /\ Yis!get_byte_val(pos) = HPACK(ic, fn)
  /\ Yis!NeedRegids(ic) => Yis!get_byte_val(pos + 1) = HPACK(ra, rb)
  /\ ~Yis!NeedRegids(ic) => ra = 15 /\ rb = 15
  /\ Yis!NeedImm(ic) => Yis!get_word_val(imm) = v
  /\ ~Yis!NeedImm(ic) => v = 0
Fetches(f, ic, fn, ra, rb, v, imm) ==
  /\ f.icode = ic /\ f.ifun = fn /\ f.rA = ra /\ f.rB = rb /\ f.valC = v
  /\ Yis!NeedImm(ic) => f.ftpc = imm + 8
  /\ ~Yis!NeedImm(ic) => f.ftpc = imm

LEMMA FetchIs ==
  ASSUME NEW pos \in Int, NEW ic, NEW fn, NEW ra, NEW rb, NEW v, NEW imm, BytesAt(pos, ic, fn, ra, rb, v, imm)
  PROVE  Fetches(Yis!Fetch(pos), ic, fn, ra, rb, v, imm)
<1> USE DEF BytesAt
<1> DEFINE b0 == Yis!get_byte_val(pos)
           hi0 == Yis!HI4(b0)
           none == Yis!HPACK(Yis!REG_NONE, Yis!REG_NONE)
           b1 == IF Yis!NeedRegids(hi0) THEN Yis!get_byte_val(pos + 1) ELSE none
           at == IF Yis!NeedRegids(hi0) THEN pos + 2 ELSE pos + 1
           valC == IF Yis!NeedImm(hi0) THEN Yis!get_word_val(at) ELSE 0
           next == IF Yis!NeedImm(hi0) THEN at + 8 ELSE at
           ifun == Yis!LO4(b0)
           rA == Yis!HI4(b1)
           rB == Yis!LO4(b1)
           F == [icode |-> hi0, ifun |-> ifun, rA |-> rA, rB |-> rB, valC |-> valC, ftpc |-> next]
<1>1. Yis!Fetch(pos) = F BY Zenon DEF Yis!Fetch
<1>2. \A x : Yis!HI4(x) = HI4(x) /\ Yis!LO4(x) = LO4(x) BY Zenon DEF Yis!HI4, Yis!LO4, HI4, LO4
<1>3. \A a, b \in 0 .. 15 : HI4(HPACK(a, b)) = a /\ LO4(HPACK(a, b)) = b BY Halves
<1>4. hi0 = ic /\ ifun = fn
  <2> HIDE DEF b0
  <2>1. b0 = HPACK(ic, fn) BY Zenon DEF b0
  <2> QED BY <1>2, <1>3, <2>1
<1>5. Yis!HI4(none) = 15 /\ Yis!LO4(none) = 15
  <2>1. none = 255 BY DEF Yis!HPACK, Yis!REG_NONE
  <2> HIDE DEF none
  <2> QED BY <2>1 DEF Yis!HI4, Yis!LO4
<1> HIDE DEF hi0, none, ifun
<1>6. rA = ra /\ rB = rb
  <2>1. CASE Yis!NeedRegids(ic)
    <3>1. b1 = HPACK(ra, rb) BY <1>4, <2>1
    <3> HIDE DEF b1
    <3> QED BY <1>2, <1>3, <3>1
  <2>2. CASE ~Yis!NeedRegids(ic)
    <3>1. b1 = none BY <1>4, <2>2
    <3> HIDE DEF b1
    <3> QED BY <1>5, <2>2, <3>1
  <2> QED BY <2>1, <2>2
<1> HIDE DEF rA, rB
<1>7. at = imm BY <1>4
<1> HIDE DEF at
<1>8. valC = v BY <1>4, <1>7
<1>9. next = IF Yis!NeedImm(ic) THEN imm + 8 ELSE imm BY <1>4, <1>7
<1> HIDE DEF valC, next
<1>10. /\ F.icode = hi0 /\ F.ifun = ifun /\ F.rA = rA /\ F.rB = rB /\ F.valC = valC /\ F.ftpc = next OBVIOUS
<1> HIDE DEF F
<1> QED BY <1>1, <1>4, <1>6, <1>8, <1>9, <1>10 DEF Fetches

\* A line whose bytes are in memory at its position is in place.
LEMMA InMemory ==
  ASSUME NEW k \in DOMAIN source, source[k] \in SourceLines, Sound1(source[k]), Takes(source[k]), Shaped(source[k]),
         NEW c, Coded(source[k], c), Positions[k] \in Int, \A w : IsWord(w) => w \in Ints,
         \A i \in 0 .. Size(source[k]) - 1 : Yis!get_byte_val(Positions[k] + i) = c[i]
  PROVE  InPlace(k)
<1> DEFINE line == source[k]
           pos == Positions[k]
           nm == Name(line)
           w == Word(Operands(line))
           m == Meaning(line)
           s == Size(line)
<1>1. \A names : Names(line, names) <=> nm \in names
  <2>1. IsStatement(line) BY Zenon DEF Takes
  <2> QED BY <2>1, Zenon DEF Names, Sound1
<1>2. s = IF nm \in DOMAIN Allocations THEN Allocations[nm]
          ELSE 1 + (IF nm \in WithRegisters THEN 1 ELSE 0) + (IF nm \in WithWord THEN 8 ELSE 0)
  BY Taking, Zenon
<1>3. CASE nm \in DOMAIN Allocations
  <2>1. s = Allocations[nm] BY <1>2, <1>3, Zenon
  <2>2. s \in {1, 2, 4, 8}
    <3> HIDE DEF s, nm
    <3> QED BY <1>3, <2>1 DEF Allocations
  <2>3. w \in Ints BY <1>3, Zenon DEF Shaped
  <2>4. \A i \in 0 .. s - 1 : Yis!get_byte_val(pos + i) = Byte(w, i) BY <1>3, <2>1, Zenon DEF Coded
  <2>5. Holds(pos, s, w)
    <3> HIDE DEF s, w, pos
    <3>1. pos \in Int BY DEF pos
    <3> QED BY <2>2, <2>3, <2>4, <3>1, HeldIs
  <2>6. Names(line, DOMAIN Allocations) BY <1>1, <1>3, Zenon
  <2> QED BY <2>5, <2>6, Zenon DEF InPlace
<1>4. CASE nm \notin DOMAIN Allocations
  <2>1. /\ m.icode \in 0 .. 15 /\ m.ifun \in 0 .. 15 /\ m.rA \in 0 .. 15 /\ m.rB \in 0 .. 15
        /\ nm \in WithRegisters <=> Yis!NeedRegids(m.icode)
        /\ nm \in WithWord <=> Yis!NeedImm(m.icode)
        /\ nm \notin WithRegisters => m.rA = 15 /\ m.rB = 15
        /\ m.valC = IF nm \in WithWord THEN w ELSE 0
        /\ DOMAIN m = {"icode", "ifun", "rA", "rB", "valC"}
        /\ nm \in WithWord => IsWord(w)
    BY <1>4, Zenon DEF Shaped
  <2>2. /\ c[0] = HPACK(m.icode, m.ifun)
        /\ nm \in WithRegisters => c[1] = HPACK(m.rA, m.rB)
        /\ nm \in WithWord => \A i \in 0 .. 7 : c[WordStart(nm) + i] = Byte(m.valC, i)
    BY <1>4, Zenon DEF Coded, Spread
  <2>3. s = 1 + (IF nm \in WithRegisters THEN 1 ELSE 0) + (IF nm \in WithWord THEN 8 ELSE 0) BY <1>2, <1>4, Zenon
  <2>4. \A i \in 0 .. s - 1 : Yis!get_byte_val(pos + i) = c[i] BY Zenon
  <2>5. Names(line, DOMAIN Allocations) => FALSE BY <1>1, <1>4, Zenon
  <2>6. WordStart(nm) = IF nm \in WithRegisters THEN 2 ELSE 1 BY Zenon DEF WordStart
  <2>7. nm \in WithWord => m.valC \in Ints BY <2>1, Zenon
  <2>8. nm \notin WithWord => m.valC = 0 BY <2>1, Zenon
  <2>p. pos \in Int OBVIOUS
  <2> DEFINE at == WordStart(nm)
             G(i) == Yis!get_byte_val(pos + i)
             Regs == nm \in WithRegisters
             Imms == nm \in WithWord
  <2> HIDE DEF pos, m, s, G, at, nm, w, Regs, Imms
  <2>9. G(0) = HPACK(m.icode, m.ifun) /\ pos + 0 = pos
    <3>1. 0 \in 0 .. s - 1 /\ pos + 0 = pos BY <2>3, <2>p
    <3> QED BY <2>2, <2>4, <3>1, Zenon DEF G
  <2>10. ASSUME Regs PROVE G(1) = HPACK(m.rA, m.rB)
    <3>1. 1 \in 0 .. s - 1 BY <2>3, <2>10 DEF Regs
    <3> QED BY <2>2, <2>4, <2>10, <3>1, Zenon DEF G, Regs
  <2>a. at = IF Regs THEN 2 ELSE 1 BY <2>6, Zenon DEF at, Regs
  <2>11. ASSUME Imms PROVE Yis!get_word_val(pos + at) = m.valC
    <3>1. \A i \in 0 .. 7 : at + i \in 0 .. s - 1 /\ pos + (at + i) = (pos + at) + i
      BY <2>3, <2>11, <2>a, <2>p DEF Imms, Regs
    <3>2. \A i \in 0 .. 7 : Yis!get_byte_val(pos + (at + i)) = Byte(m.valC, i)
      BY <2>2, <2>4, <2>11, <3>1, Zenon DEF at, Imms
    <3> DEFINE p == pos + at
               n == 8
               v == m.valC
    <3>3. p \in Int /\ n \in {1, 2, 4, 8} /\ n - 1 = 7 BY <2>a, <2>p
    <3>4. \A i \in 0 .. 7 : Yis!get_byte_val(p + i) = Byte(v, i) BY <3>1, <3>2
    <3>5. \A i \in 0 .. n - 1 : Yis!get_byte_val(p + i) = Byte(v, i) BY <3>4
    <3>6. v \in Ints BY <2>7, <2>11, Zenon DEF Imms
    <3>7. n = 8 OBVIOUS
    <3> HIDE DEF p, n, v
    <3>8. Yis!get_word_val(p) = v BY <3>3, <3>5, <3>6, <3>7, HeldIs
    <3> QED BY <3>8, Zenon DEF p, v
  <2> DEFINE imm == pos + at
             f == Yis!Fetch(pos)
  <2>12. imm = IF Yis!NeedRegids(m.icode) THEN pos + 2 ELSE pos + 1 BY <2>1, <2>a DEF Regs
  <2>13. /\ Yis!get_byte_val(pos) = HPACK(m.icode, m.ifun)
         /\ Yis!NeedRegids(m.icode) => Yis!get_byte_val(pos + 1) = HPACK(m.rA, m.rB)
         /\ ~Yis!NeedRegids(m.icode) => m.rA = 15 /\ m.rB = 15
         /\ Yis!NeedImm(m.icode) => Yis!get_word_val(imm) = m.valC
         /\ ~Yis!NeedImm(m.icode) => m.valC = 0
    BY <2>1, <2>8, <2>9, <2>10, <2>11, Zenon DEF G, Regs, Imms
  <2> HIDE DEF imm
  <2>14. /\ f.icode = m.icode /\ f.ifun = m.ifun /\ f.rA = m.rA /\ f.rB = m.rB /\ f.valC = m.valC
         /\ f.ftpc = IF Yis!NeedImm(m.icode) THEN imm + 8 ELSE imm
    <3> DEFINE ic == m.icode
               fn == m.ifun
               ra == m.rA
               rb == m.rB
               v == m.valC
    <3>1. BytesAt(pos, ic, fn, ra, rb, v, imm) BY <2>1, <2>12, <2>13, Zenon DEF BytesAt
    <3> HIDE DEF ic, fn, ra, rb, v, f
    <3>2. Fetches(Yis!Fetch(pos), ic, fn, ra, rb, v, imm) BY <2>p, <3>1, FetchIs
    <3>3. /\ f.icode = ic /\ f.ifun = fn /\ f.rA = ra /\ f.rB = rb /\ f.valC = v
          /\ f.ftpc = IF Yis!NeedImm(ic) THEN imm + 8 ELSE imm
      BY <3>2, Zenon DEF Fetches, f
    <3> QED BY <3>3, Zenon DEF ic, fn, ra, rb, v
  <2>15. (IF Yis!NeedImm(m.icode) THEN imm + 8 ELSE imm) = pos + s
    BY <2>1, <2>3, <2>a, <2>p DEF imm, Regs
  <2> HIDE DEF f
  <2>16. [x \in DOMAIN m |-> f[x]] = m
    <3>1. m = [x \in DOMAIN m |-> m[x]]
      <4>1. \E a, b, d, e, g : m = Does(a, b, d, e, g)
        <5>1. nm \in InstrNames BY Taking, Zenon DEF nm
        <5> QED BY <1>4, <5>1 DEF m, nm, Meaning, InstrNames
      <4> QED BY <4>1 DEF Does
    <3>2. \A x \in DOMAIN m : f[x] = m[x] BY <2>1, <2>14
    <3> HIDE DEF m
    <3> QED BY <3>1, <3>2
  <2> QED BY <2>5, <2>14, <2>15, <2>16, Zenon DEF InPlace, Fetched, f, m, pos, s
<1> QED BY <1>3, <1>4

-----------------------------------------------------------------------------
(* Where the lines of a source that is assembled go. *)

LEMMA MovedForward ==
  ASSUME NEW line \in SourceLines, Sound1(line), NEW pos \in Nat, Names(line, {".pos"}) => Number(line) >= 0
  PROVE  Moved(line, pos) \in Nat /\ (Takes(line) \/ line.tokens = <<>> => Moved(line, pos) = pos)
<1>i. pos \in Int OBVIOUS
<1>0. Moved(line, pos) \in Int BY <1>i, AfterIs, Zenon
<1>1. CASE Names(line, {".pos"})
  <2>1. Moved(line, pos) = Number(line) BY <1>1, MovedIs
  <2>2. ~Takes(line) /\ line.tokens # <<>>
    <3>1. ".pos" \in {".pos", ".align"} /\ \A x : x \in {".pos"} => x = ".pos" OBVIOUS
    <3> QED BY <1>1, <3>1, NoTokens, Zenon DEF Names, Takes, IsDirective
  <2> QED BY <1>0, <1>1, <2>1, <2>2
<1>2. CASE ~Names(line, {".pos"}) /\ Names(line, {".align"})
  <2> DEFINE n == Number(line)
  <2>1. IsStatement(line) /\ Name(line) = ".align" /\ ~Takes(line) /\ line.tokens # <<>>
    <3>1. ".align" \in {".pos", ".align"} /\ \A y : y \in {".align"} => y = ".align" OBVIOUS
    <3> QED BY <1>2, <3>1, NoTokens, Zenon DEF Names, Takes, IsDirective
  <2>2. n > 0 /\ n \in Int
    <3>1. Sees(line, 1) = "NUM" /\ n > 0 BY <2>1, Zenon DEF Sound1
    <3>2. Number(line) \in Int BY <2>1, StatementTokens, Zenon DEF Sound1
    <3> QED BY <3>1, <3>2
  <2> HIDE DEF n
  <2>3. n \in Nat \ {0} /\ pos > -n BY <2>2
  <2>4. Moved(line, pos) = Multiple(n, pos) BY <1>2, <2>3 DEF Moved, n
  <2>5. pos + ((-pos) % n) \in Nat BY <2>3
  <2>6. Multiple(n, pos) \in Nat BY <2>5, Zenon DEF Multiple
  <2> QED BY <2>1, <2>4, <2>6
<1>3. CASE ~Names(line, {".pos"}) /\ ~Names(line, {".align"})
  <2>1. Moved(line, pos) = pos BY <1>3, MovedIs
  <2> QED BY <2>1
<1> QED BY <1>1, <1>2, <1>3

\* In a source that is assembled every position has a place in the output.
Laid ==
  /\ Len(source) \in Nat /\ DOMAIN source = 1 .. Len(source)
  /\ \A k \in 1 .. Len(source) :
       /\ source[k] \in SourceLines /\ Sound1(source[k])
       /\ Positions[k] \in Nat
       /\ Takes(source[k]) => Address(Positions[k]) = Positions[k]
  /\ \A w : IsWord(w) => w \in Ints

LEMMA LaidOut ==
  ASSUME VerdictInv, YoInv, status = "assembled", NoNegativePosition, ~OnlyJunk, ~Overflow
  PROVE  Exact /\ Laid /\ Printing /\ Finished = Len(source)
<1>0. pass = 2 /\ ~hit_error /\ ~newline /\ lineno = Len(source) BY Zenon DEF YoInv
<1>a. pass # 1 BY <1>0
<1>1. source \in Seq(SourceLines) BY Zenon DEF VerdictInv, PassInv, Types
<1>2. Finished = Len(source) BY <1>0, Zenon DEF Finished
<1>3. Len(source) \in Nat /\ DOMAIN source = 1 .. Len(source) /\ \A k \in 1 .. Len(source) : source[k] \in SourceLines
  <2> HIDE DEF SourceLines
  <2> QED BY <1>1
<1>w. /\ \A k \in DOMAIN source : WellFormedLine(source[k])
      /\ \A k \in DOMAIN source : source[k].tokens # <<>> => LandedAt(k) < 16^4
  BY Zenon DEF VerdictInv, Passable
<1>f. FitsTo(Len(source)) /\ Exact
  <2>1. FitsAsPut(Len(source)) BY <1>3, <1>w, Zenon DEF FitsAsPut
  <2> QED BY <1>1, <1>w, <2>1, Reached, Zenon
<1>t. Printing BY <1>0, <1>f, Zenon DEF YoInv
<1>4. \A k \in 1 .. Len(source) : Sound1(source[k]) BY <1>3, <1>w, WellFormedLineIs, SoundIs, Zenon
<1> DEFINE n == Len(source)
           top == 16^4 + 9
<1>5. PICK p : /\ p[1] = 0
               /\ \A k \in 1 .. n : /\ Positions[k] = p[k] /\ p[k] \in Int
                                     /\ p[k + 1] = Place(k) + Size(source[k]) /\ Place(k) = Moved(source[k], p[k])
                                     /\ p[k + 1] \in Int /\ Size(source[k]) \in Nat
  BY <1>1, <1>4, PositionsAre, Zenon
<1> DEFINE In(k) == p[k + 1] >= 0 /\ p[k + 1] <= top
<1>6. \A k \in 1 .. n : /\ Positions[k] = p[k] /\ p[k] \in Int
                        /\ p[k + 1] = Place(k) + Size(source[k]) /\ Place(k) = Moved(source[k], p[k])
                        /\ p[k + 1] \in Int /\ Size(source[k]) \in Nat
  BY <1>5, Zenon
<1>7. p[1] = 0 BY <1>5, Zenon
<1> HIDE DEF n
<1>n. n \in Nat BY <1>3 DEF n
<1>8. ASSUME NEW k \in 1 .. n, p[k] >= 0, p[k] <= top PROVE In(k)
  <2>0. p[k] \in Nat BY <1>6, <1>8
  <2>1. source[k] \in SourceLines /\ Sound1(source[k]) BY <1>3, <1>4, Zenon DEF n
  <2>2. Names(source[k], {".pos"}) => Number(source[k]) >= 0 BY <1>3, Zenon DEF n, NoNegativePosition
  <2>3. Place(k) = Moved(source[k], p[k]) /\ p[k + 1] = Place(k) + Size(source[k]) BY <1>6, Zenon
  <2>4. Place(k) \in Nat /\ (source[k].tokens = <<>> => Place(k) = p[k])
    BY <2>0, <2>1, <2>2, <2>3, MovedForward, Zenon
  <2>5. Size(source[k]) \in 0 .. 10 /\ (source[k].tokens = <<>> => Size(source[k]) = 0)
    BY <2>1, SizeBound, NoTokens, Zenon DEF Takes
  <2>6. source[k].tokens # <<>> => Place(k) < 16^4 BY <1>f, Zenon DEF FitsTo, n
  <2>7. CASE source[k].tokens = <<>>
    <3>1. p[k + 1] = p[k] BY <2>0, <2>3, <2>4, <2>5, <2>7
    <3> QED BY <1>8, <3>1
  <2>8. CASE source[k].tokens # <<>>
    <3> DEFINE at == Place(k)
               s == Size(source[k])
    <3>1. at \in Nat /\ at < 16^4 /\ s \in 0 .. 10 /\ p[k + 1] = at + s BY <2>3, <2>4, <2>5, <2>6, <2>8
    <3> HIDE DEF at, s
    <3> QED BY <3>1
  <2> QED BY <2>7, <2>8
<1>9. \A k \in 0 .. n : In(k)
  <2> DEFINE S == {k \in Nat : k <= n => In(k)}
  <2>1. 0 \in S BY <1>7
  <2>2. ASSUME NEW k \in Nat, k \in S PROVE k + 1 \in S
    <3> SUFFICES ASSUME k + 1 <= n PROVE In(k + 1) OBVIOUS
    <3>1. k + 1 \in 1 .. n /\ k <= n BY <1>n
    <3> HIDE DEF top
    <3>2. p[k + 1] >= 0 /\ p[k + 1] <= top BY <2>2, <3>1
    <3> HIDE DEF In
    <3> QED BY <1>8, <3>1, <3>2
  <2> HIDE DEF S
  <2>3. Nat \subseteq S BY <2>1, <2>2, SetInduction
  <2> HIDE DEF In
  <2> QED BY <1>n, <2>3 DEF S
<1>10. \A k \in 1 .. n : Positions[k] \in Nat /\ Positions[k] <= top
  <2> HIDE DEF top
  <2> TAKE k \in 1 .. n
  <2>1. k - 1 \in 0 .. n /\ (k - 1) + 1 = k BY <1>n
  <2>2. p[k] >= 0 /\ p[k] <= top BY <1>9, <2>1
  <2>3. Positions[k] = p[k] /\ p[k] \in Int BY <1>6, Zenon
  <2> QED BY <2>2, <2>3
<1>11. \A k \in 1 .. n : Address(Positions[k]) = Positions[k] BY <1>10, AddressIs
<1>12. \A w : IsWord(w) => w \in Ints
  <2>1. \A x \in Nat : x <= top => x \in Ints
    <3>1. INT_MIN \in Int /\ INT_MIN <= 0 /\ INT_MAX \in Int /\ top <= INT_MAX BY SMT DEF INT_MIN, INT_MAX
    <3> HIDE DEF top
    <3>2. top \in Nat BY DEF top
    <3> QED BY <3>1, <3>2, SMT DEF Ints
  <2> HIDE DEF top
  <2> QED BY <1>3, <1>10, <2>1, Zenon DEF IsWord, n
<1> QED BY <1>f, <1>t, <1>2, <1>3, <1>4, <1>10, <1>11, <1>12, Zenon DEF Laid, n

-----------------------------------------------------------------------------
(* What is in memory when the output of an assembled source is loaded. *)

InRoom(k) == Footprint(k) \subseteq 0 .. MEM_SIZE - 1

\* A line of the output has the position and the bytes of line k of the source.
Bears(y, k) ==
  /\ y.addr = Positions[k]
  /\ \E c : /\ Shaped(source[k]) /\ Coded(source[k], c)
            /\ \A o \in 0 .. Size(source[k]) - 1 : y.bytes[o + 1] = c[o]

\* A line of the output takes the room of the statement it was printed for.
LEMMA LineLoads ==
  ASSUME Laid, yo \in Seq(YoLines), NEW at, Listed(Len(source), at), NEW i \in 1 .. Len(yo)
  PROVE  /\ at[i] \in 1 .. Len(source) /\ yo[i] \in YoLines
         /\ Takes(source[at[i]]) =>
              /\ Whole(i) <=> InRoom(at[i])
              /\ Whole(i) => PlacesOf(i) = Footprint(at[i]) /\ Yis!Stored(yo[i]) # 0
              /\ Bears(yo[i], at[i])
         /\ ~Takes(source[at[i]]) => Whole(i) /\ PlacesOf(i) = {} /\ Yis!Stored(yo[i]) = 0
<1> DEFINE y == yo[i]
           k == at[i]
           line == source[k]
           pos == Positions[k]
           s == Size(line)
           n == Len(y.bytes)
<1>1. y \in YoLines
  <2> HIDE DEF YoLines
  <2> QED OBVIOUS
<1>2. k \in 1 .. Len(source) /\ Printed(y, k) BY <1>1, Zenon DEF Listed
<1>3. line \in SourceLines /\ Sound1(line) /\ pos \in Nat /\ (Takes(line) => Address(pos) = pos)
  BY <1>2, Zenon DEF Laid
<1>4. Shows(y.bytes, line) /\ (Takes(line) => y.addr = pos) BY <1>2, <1>3, Zenon DEF Printed
<1>5. /\ Yis!Stored(y) \in 0 .. n /\ n \in Nat /\ y.addr \in Nat
      /\ Yis!Stored(y) = n => Yis!Places(y) = y.addr .. y.addr + n - 1
      /\ Yis!Stored(y) = n <=> y.addr + n <= MEM_SIZE \/ n = 0
  BY <1>1, StoredIs, Zenon
<1>6. (Whole(i) <=> Yis!Stored(y) = n) /\ PlacesOf(i) = Yis!Places(y) BY Zenon DEF Whole, PlacesOf
<1>7. s \in 0 .. 10 /\ (Takes(line) => s # 0) BY <1>3, SizeBound, Zenon
<1>8. ASSUME Takes(line)
      PROVE  /\ Whole(i) <=> InRoom(k)
             /\ Whole(i) => PlacesOf(i) = Footprint(k) /\ Yis!Stored(y) # 0
             /\ Bears(y, k)
  <2>1. n = s /\ Shaped(line) BY <1>4, <1>8, Zenon DEF Shows
  <2>2. PICK c : Coded(line, c) /\ \A j \in 1 .. s : y.bytes[j] = c[j - 1] BY <1>4, <1>8, Zenon DEF Shows
  <2>3. y.addr = pos BY <1>4, <1>8
  <2>4. Footprint(k) = pos .. pos + s - 1 BY Zenon DEF Footprint
  <2>5. InRoom(k) <=> pos + s <= MEM_SIZE
    <3> HIDE DEF pos, s
    <3>1. MEM_SIZE \in Nat BY MemAssumption
    <3>2. pos \in Nat /\ s \in 0 .. 10 /\ s # 0 BY <1>3, <1>7, <1>8
    <3>3. pos \in pos .. pos + s - 1 /\ pos + s - 1 \in pos .. pos + s - 1 BY <3>2
    <3>4. InRoom(k) <=> pos .. pos + s - 1 \subseteq 0 .. MEM_SIZE - 1 BY <2>4, Zenon DEF InRoom
    <3> QED BY <3>1, <3>2, <3>3, <3>4
  <2>6. Whole(i) <=> InRoom(k)
    <3> HIDE DEF y, n, pos, s
    <3> QED BY <1>5, <1>6, <1>7, <1>8, <2>1, <2>3, <2>5
  <2>7. ASSUME Whole(i) PROVE PlacesOf(i) = Footprint(k) /\ Yis!Stored(y) # 0
    <3> HIDE DEF y, n, pos, s
    <3> QED BY <1>5, <1>6, <1>7, <1>8, <2>1, <2>3, <2>4, <2>7
  <2>8. \A o \in 0 .. s - 1 : y.bytes[o + 1] = c[o]
    <3> TAKE o \in 0 .. s - 1
    <3> HIDE DEF s
    <3>1. o + 1 \in 1 .. s /\ (o + 1) - 1 = o BY <1>7
    <3> QED BY <2>2, <3>1
  <2>9. Bears(y, k) BY <2>1, <2>2, <2>3, <2>8, Zenon DEF Bears
  <2> QED BY <2>6, <2>7, <2>9, Zenon
<1>9. ASSUME ~Takes(line) PROVE Whole(i) /\ PlacesOf(i) = {} /\ Yis!Stored(y) = 0
  <2>1. y.bytes = <<>> BY <1>4, <1>9, Zenon DEF Shows
  <2>2. n = 0 BY <2>1
  <2> HIDE DEF y, n
  <2> QED BY <1>5, <1>6, <2>2
<1> QED BY <1>1, <1>2, <1>8, <1>9, Zenon

\* Each statement has a line of the output.
LEMMA StatementListed ==
  ASSUME Laid, NEW at, Listed(Len(source), at), NEW k \in Statements
  PROVE  /\ k \in 1 .. Len(source) /\ Takes(source[k])
         /\ \E i \in 1 .. Len(yo) : at[i] = k
<1>1. k \in 1 .. Len(source) /\ Takes(source[k]) BY Zenon DEF Statements, Laid
<1>2. source[k].tokens # <<>> BY <1>1, SizeBound, Zenon DEF Laid
<1> QED BY <1>1, <1>2, Zenon DEF Listed

LEMMA StatementIs ==
  ASSUME Laid, NEW k \in 1 .. Len(source), Takes(source[k])
  PROVE  k \in Statements
BY Zenon DEF Statements, Laid

\* yis loads the file exactly if it has bytes, all of them within the memory.
LEMMA LoadedWhen ==
  ASSUME Laid, yo \in Seq(YoLines), NEW at, Listed(Len(source), at), Loading, outcome # "loading"
  PROVE  outcome = "loaded" <=> Statements # {} /\ \A k \in Statements : InRoom(k)
<1> DEFINE m == Len(yo)
           Fits == Statements # {} /\ \A k \in Statements : InRoom(k)
<1>0. m \in Nat /\ loadlines \in 0 .. m BY DEF Loading
<1>a. "loaded" # "rejected" OBVIOUS
<1>b. \A i \in 1 .. loadlines : i \in 1 .. m BY <1>0
<1>1. ASSUME outcome = "loaded" PROVE Fits
  <2>1. loadlines = m /\ byte_cnt # 0 /\ (\A i \in 1 .. loadlines : Whole(i)) /\ Fill(loadlines)
    BY <1>1, <1>a, Zenon DEF Loading
  <2>2. PICK i \in 1 .. m : Yis!Stored(yo[i]) # 0 BY <2>1, Zenon DEF Fill
  <2>3. at[i] \in Statements BY <2>2, LineLoads, StatementIs, Zenon
  <2>4. ASSUME NEW k \in Statements PROVE InRoom(k)
    <3>1. PICK j \in 1 .. m : at[j] = k BY StatementListed, Zenon
    <3>2. Takes(source[at[j]]) BY <3>1, StatementListed, Zenon
    <3> QED BY <2>1, <3>1, <3>2, LineLoads, Zenon
  <2> QED BY <2>3, <2>4, Zenon
<1>2. ASSUME Fits PROVE outcome = "loaded"
  <2>0. \A i \in 1 .. m : Whole(i) BY <1>2, LineLoads, StatementIs, Zenon
  <2>1. outcome # "rejected"
    <3> SUFFICES ASSUME outcome = "rejected" PROVE FALSE OBVIOUS
    <3>1. loadlines = m /\ byte_cnt = 0 BY <1>b, <2>0, Zenon DEF Loading
    <3>2. \A i \in 1 .. m : Yis!Stored(yo[i]) = 0 BY <3>1, Zenon DEF Loading, Fill
    <3>3. PICK k \in Statements : TRUE BY <1>2, Zenon
    <3>4. PICK j \in 1 .. m : at[j] = k BY StatementListed, Zenon
    <3>5. Takes(source[at[j]]) BY <3>4, StatementListed, Zenon
    <3> QED BY <2>0, <3>2, <3>5, LineLoads, Zenon
  <2>2. outcome \in {"loading", "loaded", "rejected"} BY Zenon DEF Loading
  <2> QED BY <2>1, <2>2
<1> QED BY <1>1, <1>2, Zenon

\* Every byte there is belongs to a statement, and each statement has its bytes but those another was put over.
LEMMA LoadedThen ==
  ASSUME Laid, yo \in Seq(YoLines), NEW at, Listed(Len(source), at), Loading, outcome = "loaded"
  PROVE  /\ DOMAIN contents = UNION {Footprint(k) : k \in Statements}
         /\ \A k \in Statements : Overwritten(k) \/ InPlace(k)
<1> DEFINE m == Len(yo)
<1>0. m \in Nat BY DEF Loading
<1>a. "loaded" # "rejected" OBVIOUS
<1>1. loadlines = m /\ (\A i \in 1 .. m : Whole(i)) /\ Fill(m) BY <1>a, Zenon DEF Loading
<1>2. \A i \in 1 .. m : Takes(source[at[i]]) => at[i] \in Statements /\ PlacesOf(i) = Footprint(at[i])
  BY <1>1, LineLoads, StatementIs, Zenon
<1>3. \A i \in 1 .. m : \A a : a \in PlacesOf(i) => at[i] \in Statements /\ a \in Footprint(at[i])
  BY <1>1, <1>2, LineLoads, Zenon
<1>4. ASSUME NEW k \in Statements PROVE Footprint(k) \subseteq DOMAIN contents
  <2>1. PICK i \in 1 .. m : at[i] = k BY StatementListed, Zenon
  <2>2. Takes(source[at[i]]) BY <2>1, StatementListed, Zenon
  <2>3. PlacesOf(i) \subseteq DOMAIN contents BY <1>1, Zenon DEF Fill
  <2> QED BY <1>2, <2>1, <2>2, <2>3, Zenon
<1>5. ASSUME NEW a \in DOMAIN contents PROVE \E k \in Statements : a \in Footprint(k)
  <2>1. PICK i \in 1 .. m : a \in PlacesOf(i) BY <1>1, Zenon DEF Fill
  <2> QED BY <1>3, <2>1, Zenon
<1>6. DOMAIN contents = UNION {Footprint(k) : k \in Statements} BY <1>4, <1>5
<1>7. ASSUME NEW k \in Statements, ~Overwritten(k) PROVE InPlace(k)
  <2>1. k \in 1 .. Len(source) /\ Takes(source[k]) /\ k \in DOMAIN source BY StatementListed, Zenon DEF Laid
  <2>2. PICK i \in 1 .. m : at[i] = k BY StatementListed, Zenon
  <2>3. Takes(source[at[i]]) BY <2>1, <2>2
  <2> DEFINE pos == Positions[k]
             s == Size(source[k])
  <2>4. PlacesOf(i) = Footprint(k) BY <1>2, <2>2, <2>3, Zenon
  <2>5. yo[i].addr = pos
        /\ \E c : /\ Shaped(source[k]) /\ Coded(source[k], c) /\ \A o \in 0 .. s - 1 : yo[i].bytes[o + 1] = c[o]
    <3>1. Bears(yo[i], at[i]) BY <2>3, LineLoads, Zenon
    <3>2. Bears(yo[i], k) BY <2>2, <3>1, Zenon
    <3> QED BY <3>2, Zenon DEF Bears
  <2>6. PICK c : /\ Shaped(source[k]) /\ Coded(source[k], c) /\ \A o \in 0 .. s - 1 : yo[i].bytes[o + 1] = c[o]
    BY <2>5, Zenon
  <2>7. pos \in Nat /\ source[k] \in SourceLines /\ Sound1(source[k]) /\ \A w : IsWord(w) => w \in Ints
    BY <2>1, Zenon DEF Laid
  <2>8. s \in 0 .. 10 BY <2>7, SizeBound, Zenon
  <2>9. Footprint(k) = pos .. pos + s - 1 BY Zenon DEF Footprint
  <2> HIDE DEF pos, s
  <2>10. ASSUME NEW o \in 0 .. s - 1 PROVE Yis!get_byte_val(pos + o) = c[o]
    <3> DEFINE a == pos + o
    <3>1. a \in Footprint(k) /\ a - pos + 1 = o + 1 BY <2>7, <2>8, <2>9
    <3> HIDE DEF a
    <3>2. a \in DOMAIN contents BY <1>4, <3>1, Zenon
    <3>3. PICK j \in 1 .. m : /\ a \in PlacesOf(j) /\ contents[a] = yo[j].bytes[a - yo[j].addr + 1]
                              /\ \A l \in j + 1 .. m : a \notin PlacesOf(l)
      BY <1>1, <3>2, Zenon DEF Fill
    <3>4. ~(i > j)
      <4>1. i > j => i \in j + 1 .. m BY <1>0
      <4> QED BY <2>4, <3>1, <3>3, <4>1, Zenon
    <3>5. ~(j > i)
      <4> SUFFICES ASSUME j > i PROVE FALSE OBVIOUS
      <4>1. at[j] \in Statements /\ a \in Footprint(at[j]) BY <1>3, <3>3, Zenon
      <4>2. at[i] < at[j]
        <5>1. i < j OBVIOUS
        <5> QED BY <5>1, Zenon DEF Listed
      <4>3. at[j] > k
        <5>1. at[j] \in Int /\ k \in Int BY <2>1, <4>1 DEF Laid, Statements
        <5> QED BY <2>2, <4>2, <5>1
      <4> QED BY <1>7, <3>1, <4>1, <4>3 DEF Overwritten
    <3>6. i = j BY <1>0, <3>4, <3>5
    <3>7. contents[a] = c[o] BY <2>5, <2>6, <3>1, <3>3, <3>6, Zenon
    <3> QED BY <3>2, <3>7, Zenon DEF Yis!get_byte_val, a
  <2>11. pos \in Int BY <2>7
  <2> QED BY <2>1, <2>6, <2>7, <2>10, <2>11, InMemory, Zenon DEF pos, s
<1> QED BY <1>6, <1>7, Zenon

-----------------------------------------------------------------------------
LoadedInv == VerdictInv /\ YoInv /\ LoadInv

LEMMA LoadedMeans == LoadedInv => LoadedMeansSource
<1> SUFFICES ASSUME LoadedInv, outcome # "loading", ~OnlyJunk, ~Overflow, NoNegativePosition
             PROVE  /\ outcome = "loaded" <=> /\ Statements # {}
                                              /\ \A k \in Statements : Footprint(k) \subseteq 0 .. MEM_SIZE - 1
                    /\ outcome = "loaded" =>
                         /\ DOMAIN contents = UNION {Footprint(k) : k \in Statements}
                         /\ \A k \in Statements : Overwritten(k) \/ InPlace(k)
  BY Zenon DEF LoadedMeansSource
<1>1. VerdictInv /\ YoInv /\ LoadInv BY Zenon DEF LoadedInv
<1>a. status = "assembled" BY <1>1, Zenon DEF LoadInv, Waiting
<1>3. Exact /\ Laid /\ Printing /\ Finished = Len(source) BY <1>a, <1>1, LaidOut, Zenon
<1>2. status = "assembled" /\ Loading BY <1>1, <1>a, <1>3, Zenon DEF LoadInv
<1>4. PICK at : Listed(Len(source), at) BY <1>3, Zenon DEF Printing
<1>5. yo \in Seq(YoLines) BY <1>3, Zenon DEF Printing
<1>6. outcome = "loaded" <=> Statements # {} /\ \A k \in Statements : InRoom(k)
  BY <1>2, <1>3, <1>4, <1>5, LoadedWhen, Zenon
<1>7. outcome = "loaded" => /\ DOMAIN contents = UNION {Footprint(k) : k \in Statements}
                            /\ \A k \in Statements : Overwritten(k) \/ InPlace(k)
  BY <1>2, <1>3, <1>4, <1>5, LoadedThen, Zenon
<1> QED BY <1>6, <1>7, Zenon DEF InRoom

\* A source that yas accepts and yis loads is in memory as it was meant, for all lines that the
\* scanner can find and every size of memory, unless an alignment overflows or .pos is negative:
\* the simulator fetches the instructions that were written, at the positions that were counted
\* and with the labels resolved, and finds the data (yas.c
\* get_reg, get_num, get_mem and print_code, isa.c load_mem and step_state).
THEOREM LoadedCorrect == Spec => []LoadedMeansSource
<1>1. Init => LoadedInv BY VerdictInit, YoInit, LoadInit, Zenon DEF LoadedInv
<1>2. LoadedInv /\ [Next]_vars => LoadedInv'
  <2> SUFFICES ASSUME LoadedInv, [Next]_vars PROVE LoadedInv' OBVIOUS
  <2>1. VerdictInv /\ YoInv /\ LoadInv BY Zenon DEF LoadedInv
  <2>2. VerdictInv' BY <2>1, VerdictNext, Zenon
  <2>3. YoInv' BY <2>1, YoNext, Zenon
  <2>4. LoadInv' BY <2>1, <2>3, LoadNext, Zenon
  <2> QED BY <2>2, <2>3, <2>4, Zenon DEF LoadedInv
<1> QED BY <1>1, <1>2, LoadedMeans, PTL DEF Spec
=============================================================================
