------------------------------ MODULE Assemble ------------------------------
(***************************************************************************)
(* A source assembled by yas and, when yas exits with 0, loaded by yis; and *)
(* what it means, said from the source alone: where each statement goes,    *)
(* what it stands for and which sources are well formed.                    *)
(***************************************************************************)
EXTENDS Yas

CONSTANT MEM_SIZE
ASSUME MemAssumption == MEM_SIZE \in Nat

VARIABLES contents, loadlines, byte_cnt, outcome
Yis == INSTANCE Loader WITH file <- yo, lineno <- loadlines
vars == <<yasvars, contents, loadlines, byte_cnt, outcome>>

Init == YasInit /\ Yis!init_mem
Next ==
  \/ YasNext /\ UNCHANGED <<contents, loadlines, byte_cnt, outcome>>
  \/ status = "assembled" /\ Yis!load_mem /\ UNCHANGED yasvars
Spec == Init /\ [][Next]_vars

-----------------------------------------------------------------------------
(* The forms of statements. *)

HasLabel(line) == Len(line.tokens) >= 2 /\ line.tokens[1][1] = "IDENT" /\ line.tokens[2] = <<"PUNCT", ":">>
LabelOf(line) == line.tokens[1][2]
StatementOf(line) == IF HasLabel(line) THEN SubSeq(line.tokens, 3, Len(line.tokens)) ELSE line.tokens
IsStatement(line) == StatementOf(line) # <<>>
Name(line) == StatementOf(line)[1][2]

Shape(toks) == [k \in DOMAIN toks |-> IF toks[k][1] = "PUNCT" THEN toks[k][2] ELSE toks[k][1]]

Values == {<<"NUM">>, <<"IDENT">>}

FormsOf(name) ==
  CASE name \in {".pos", ".align"} -> {<<"NUM">>}
    [] name \in DOMAIN Jumps \cup DOMAIN Allocations \cup {"call"} -> Values
    [] name \in DOMAIN Moves \cup DOMAIN Alus -> {<<"REG", ",", "REG">>}
    [] name \in {"irmovq", "iaddq"} -> {<<"NUM", ",", "REG">>, <<"IDENT", ",", "REG">>}
    [] name = "rmmovq" ->
         {<<"REG", ",">>, <<"REG", ",", "NUM">>, <<"REG", ",", "IDENT">>, <<"REG", ",", "(", "REG", ")">>,
          <<"REG", ",", "NUM", "(", "REG", ")">>, <<"REG", ",", "IDENT", "(", "REG", ")">>}
    [] name = "mrmovq" ->
         {<<",", "REG">>, <<"NUM", ",", "REG">>, <<"IDENT", ",", "REG">>, <<"(", "REG", ")", ",", "REG">>,
          <<"NUM", "(", "REG", ")", ",", "REG">>, <<"IDENT", "(", "REG", ")", ",", "REG">>}
    [] name \in {"pushq", "popq"} -> {<<"REG">>}
    [] name \in {"nop", "halt", "ret"} -> {<<>>}

\* What follows the operands is ignored, unless the memory operand of rmmovq might go on with it.
GoesOn(form, next) ==
  \/ next = "(" /\ form[Len(form)] # ")"
  \/ <<next>> \in Values /\ form[Len(form)] = ","
Matches(line, form) ==
  LET shape == Tail(Shape(StatementOf(line))) IN
  /\ Len(form) <= Len(shape) /\ SubSeq(shape, 1, Len(form)) = form
  /\ Name(line) = "rmmovq" /\ Len(form) < Len(shape) => ~GoesOn(form, shape[Len(form) + 1])
HasForm(line) ==
  /\ StatementOf(line)[1][1] = "INSTR"
  /\ \E form \in FormsOf(Name(line)) : Matches(line, form)
Operands(line) ==
  SubSeq(StatementOf(line), 2, 1 + Len(CHOOSE form \in FormsOf(Name(line)) : Matches(line, form)))

-----------------------------------------------------------------------------
(* Where the statements go, and what they stand for. *)

Names(line, names) == IsStatement(line) /\ StatementOf(line)[1][1] = "INSTR" /\ Name(line) \in names
IsDirective(line) == Names(line, {".pos", ".align"})
Takes(line) == IsStatement(line) /\ ~IsDirective(line)

WithRegisters ==
  DOMAIN Moves \cup DOMAIN Alus \cup {"irmovq", "iaddq", "rmmovq", "mrmovq", "pushq", "popq"}
WithWord == DOMAIN Jumps \cup {"call", "irmovq", "iaddq", "rmmovq", "mrmovq"}
Size(line) ==
  IF Names(line, DOMAIN Allocations) THEN Allocations[Name(line)]
  ELSE IF ~Takes(line) THEN 0
  ELSE 1 + (IF Names(line, WithRegisters) THEN 1 ELSE 0) + (IF Names(line, WithWord) THEN 8 ELSE 0)

Number(line) == StatementOf(line)[2][2]
\* The multiple of n not before pos; alignment takes one further on when n does not reach 0.
Multiple(n, pos) == pos + ((-pos) % n)
Moved(line, pos) ==
  CASE Names(line, {".pos"}) -> Number(line)
    [] Names(line, {".align"}) -> Multiple(Number(line), IF pos > -Number(line) THEN pos ELSE pos + Number(line) - 1)
    [] OTHER -> pos

\* The position of each line, counted from the start of the source.
Positions ==
  LET after[k \in 0 .. Len(source)] == IF k = 0 THEN 0 ELSE Moved(source[k], after[k - 1]) + Size(source[k])
  IN [k \in DOMAIN source |-> after[k - 1]]
Place(k) == Moved(source[k], Positions[k])
Footprint(k) == Positions[k] .. Positions[k] + Size(source[k]) - 1

Labels == {LabelOf(source[k]) : k \in {j \in DOMAIN source : HasLabel(source[j])}}
Definition(name) ==
  CHOOSE k \in DOMAIN source :
    /\ HasLabel(source[k]) /\ LabelOf(source[k]) = name
    /\ \A j \in 1 .. k - 1 : HasLabel(source[j]) => LabelOf(source[j]) # name

Meant(token) == IF token[1] = "NUM" THEN token[2] ELSE Positions[Definition(token[2])]
Word(ops) ==
  LET at == {k \in DOMAIN ops : <<ops[k][1]>> \in Values}
  IN IF at = {} THEN 0 ELSE Meant(ops[CHOOSE k \in at : TRUE])
Base(ops) ==
  LET at == {k \in DOMAIN ops : ops[k] = <<"PUNCT", "(">>}
  IN IF at = {} THEN REG_NONE ELSE find_register(ops[(CHOOSE k \in at : TRUE) + 1][2])
FirstReg(ops) == find_register(ops[1][2])
LastReg(ops) == find_register(ops[Len(ops)][2])

Does(icode, ifun, rA, rB, valC) == [icode |-> icode, ifun |-> ifun, rA |-> rA, rB |-> rB, valC |-> valC]
Meaning(line) ==
  LET name == Name(line)  ops == Operands(line) IN
  CASE name \in DOMAIN Moves -> Does(I_RRMOVQ, Moves[name], FirstReg(ops), LastReg(ops), 0)
    [] name \in DOMAIN Alus -> Does(I_ALU, Alus[name], FirstReg(ops), LastReg(ops), 0)
    [] name \in DOMAIN Jumps -> Does(I_JMP, Jumps[name], REG_NONE, REG_NONE, Word(ops))
    [] name = "call" -> Does(I_CALL, F_NONE, REG_NONE, REG_NONE, Word(ops))
    [] name = "irmovq" -> Does(I_IRMOVQ, F_NONE, REG_NONE, LastReg(ops), Word(ops))
    [] name = "iaddq" -> Does(I_IADDQ, F_NONE, REG_NONE, LastReg(ops), Word(ops))
    [] name = "rmmovq" -> Does(I_RMMOVQ, F_NONE, FirstReg(ops), Base(ops), Word(ops))
    [] name = "mrmovq" -> Does(I_MRMOVQ, F_NONE, LastReg(ops), Base(ops), Word(ops))
    [] name = "pushq" -> Does(I_PUSHQ, F_NONE, FirstReg(ops), REG_NONE, 0)
    [] name = "popq" -> Does(I_POPQ, F_NONE, FirstReg(ops), REG_NONE, 0)
    [] name = "halt" -> Does(I_HALT, F_NONE, REG_NONE, REG_NONE, 0)
    [] name = "nop" -> Does(I_NOP, F_NONE, REG_NONE, REG_NONE, 0)
    [] name = "ret" -> Does(I_RET, F_NONE, REG_NONE, REG_NONE, 0)

-----------------------------------------------------------------------------
(* The properties. *)

\* Every line ends in a newline; after the last one there may be blanks.
Ended(line) == line.end = "newline" \/ (line.end = "cut" /\ line.tokens = <<>>)
UsesLabels(line) == \A k \in DOMAIN Operands(line) : Operands(line)[k][1] = "IDENT" => Operands(line)[k][2] \in Labels

WellFormedLine(line) ==
  /\ Ended(line)
  /\ (line.tokens # <<>> /\ line.tokens[1][1] = "IDENT") => HasLabel(line)
  /\ IsStatement(line) => HasForm(line) /\ UsesLabels(line)
  /\ Names(line, {".align"}) => Number(line) > 0

\* A last line of junk spoils the second pass, unless it is all there is.
OnlyJunk == Len(source) = 1 /\ source[1].end = "cutjunk" /\ source[1].tokens = <<>>

\* Every position that is printed has at most four digits.
WellFormed ==
  \/ OnlyJunk
  \/ /\ \A k \in DOMAIN source : WellFormedLine(source[k])
     /\ \A k \in DOMAIN source : source[k].tokens # <<>> => Place(k) < 16^4

\* An alignment is reached at a position to which it cannot be added in an int (yas.c 372): the position
\* wraps, and a line may be printed that should not be.
Overflow ==
  /\ \A k \in DOMAIN source : WellFormedLine(source[k])
  /\ \E k \in DOMAIN source :
       /\ Names(source[k], {".align"})
       /\ \A j \in 1 .. k - 1 : source[j].tokens # <<>> => Place(j) < 16^4
       /\ Positions[k] > INT_MAX - Number(source[k]) + 1

\* Unless an alignment overflows, yas exits with 0 exactly for a well-formed source: every line has
\* one of the forms, every label used is defined somewhere, and no error of either pass, however it
\* hides the lines after it or is reported once only, is lost in the exit status (yas.c fail,
\* finish_line, yywrap, main).
Verdict == status # "assembling" /\ ~Overflow => (status = "assembled" <=> WellFormed)

\* Where an operand names a label the second pass puts the position that the label's line really
\* has: at each line with a label both passes have counted the same bytes (yas.c 387, 333).
PassesAgree ==
  pass = 2 /\ newline /\ status = "assembling" /\ ~hit_error /\ HasLabel(source[lineno]) =>
    \E s \in DOMAIN symbol_table : symbol_table[s] = [name |-> LabelOf(source[lineno]), pos |-> bytepos]

\* What n bytes hold, as a number with a sign.
Held(pos, n) ==
  LET top == Yis!get_byte_val(pos + n - 1)
      val[k \in 0 .. n - 1] ==
        IF k = n - 1 THEN (IF top < 128 THEN top ELSE top - 256) ELSE val[k + 1] * 256 + Yis!get_byte_val(pos + k)
  IN val[0]
Holds(pos, n, value) == IF n < 4 THEN (Held(pos, n) - value) % Weight[n + 1] = 0 ELSE Held(pos, n) = value

Fetched(pos) == Yis!Fetch(pos)
InPlace(k) ==
  LET line == source[k]  pos == Positions[k] IN
  IF Names(line, DOMAIN Allocations) THEN Holds(pos, Size(line), Word(Operands(line)))
  ELSE /\ [f \in DOMAIN Meaning(line) |-> Fetched(pos)[f]] = Meaning(line)
       /\ Fetched(pos).ftpc = pos + Size(line)

Statements == {k \in DOMAIN source : Takes(source[k])}
Overwritten(k) == \E j \in Statements : j > k /\ Footprint(j) \cap Footprint(k) # {}
NoNegativePosition == \A k \in DOMAIN source : Names(source[k], {".pos"}) => Number(source[k]) >= 0

\* A source that yas accepts and yis loads is in memory as it was meant: the simulator fetches at
\* each statement's position the instruction written there, with its labels resolved, and finds the
\* data with the least byte first, unless a later line was put on top; nothing else was stored.
\* It is said of sources without a negative .pos in which no alignment overflows.  yis turns a file
\* away only when it has no bytes or some beyond the end of the memory.
LoadedMeansSource ==
  outcome # "loading" /\ ~OnlyJunk /\ ~Overflow /\ NoNegativePosition =>
    /\ outcome = "loaded" <=> /\ Statements # {}
                              /\ \A k \in Statements : Footprint(k) \subseteq 0 .. MEM_SIZE - 1
    /\ outcome = "loaded" =>
         /\ DOMAIN contents = UNION {Footprint(k) : k \in Statements}
         /\ \A k \in Statements : Overwritten(k) \/ InPlace(k)
=============================================================================
