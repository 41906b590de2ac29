-------------------------------- MODULE Hcl --------------------------------
(***************************************************************************)
(* hcl2c, which translates the control logic of the processors into C:     *)
(* the table-driven parser that bison made of hcl.y (misc/hcl.tab.c), its  *)
(* semantic actions and main, over the tokens of the scanner.              *)
(*                                                                         *)
(* The source is not fixed beforehand.  When the parser asks for a token   *)
(* it gets one of the current scene: first its prefix, then anything from  *)
(* its menu or the end of the file, of which a file of limit tokens is     *)
(* sure.  A token is a kind and a text; the scanner has already made a     *)
(* node of the text of a name, a number, a string or a comparison.         *)
(***************************************************************************)
EXTENDS HclNode

CONSTANTS
  Scenes,    \* [prefix, menu, limit] of the sources to read
  SYM_LIM    \* room in the symbol table

VARIABLES
  scene,     \* one of Scenes
  src,       \* the tokens read so far
  look,      \* yychar and yylval: the token read and not shifted, or Empty
  stack,     \* yyss and yyvs: a state and a value for each symbol
  symtab,    \* sym_tab
  errcnt,    \* errors so far
  out,       \* what was printed: a name and a body for each definition
  status     \* "parsing", how yyparse ended, or how the process ended before
vars == <<scene, src, look, stack, symtab, errcnt, out, status>>

ERRLIM == 5
Empty  == <<"empty", "">>
EOF    == <<"EOF", "">>

-----------------------------------------------------------------------------
(* The tables of hcl.tab.c; At(t, i) is t[i]. *)

YYFINAL == 2
YYLAST == 78
YYNTOKENS == 26
YYPACT_NINF == -18
At(table, i) == table[i + 1]

TokenKinds == <<"EOF", "error", "UNDEF", "QUOTE", "BOOLARG", "BOOL", "WORDARG", "WORD", "QSTRING",
  "VAR", "NUM", "ASSIGN", "SEMI", "COLON", "COMMA", "LPAREN", "RPAREN", "LBRACE", "RBRACE",
  "LBRACK", "RBRACK", "AND", "OR", "NOT", "COMP", "IN">>
YYTRANSLATE(token) == CHOOSE n \in 0 .. YYNTOKENS - 1 : At(TokenKinds, n) = token[1]

yypact == <<-18, 66, -18, -7, -3, 8, 18, 23, -18, -18, -4, 22, 26, 32, -18, 21, -18, 21, -18, -18,
  21, -18, 21, 25, 30, -14, 6, -5, -18, 21, 21, 21, 24, -18, -18, -18, 43, -5, 14, 20, 21, 21, 53,
  4, 36, 21, -18, -18, 53>>
yydefact == <<2, 0, 1, 0, 0, 0, 0, 0, 3, 4, 0, 0, 0, 0, 5, 0, 6, 0, 9, 10, 0, 20, 0, 0, 0, 0, 0, 12,
  7, 0, 0, 0, 0, 8, 11, 17, 0, 13, 14, 15, 0, 0, 18, 0, 0, 0, 16, 21, 19>>
yypgoto == <<-18, -18, -18, -17, -18, -18>>
yydefgoto == <<0, 1, 8, 23, 43, 26>>
yytable == <<24, 9, 34, 25, 14, 27, 10, 29, 30, 36, 31, 32, 37, 38, 39, 18, 19, 11, 45, 31, 32, 20,
  46, 42, 44, 21, 35, 12, 48, 22, 18, 19, 13, 15, 16, 29, 20, 28, 31, 32, 21, 40, 33, 17, 22, 32,
  29, 30, 47, 31, 32, 29, 30, 0, 31, 32, 41, 29, 30, 0, 31, 32, 0, 0, 29, 30, 2, 31, 32, 3, 4, 5,
  6, 7, 29, 30, 0, 31, 32>>
yycheck == <<17, 8, 16, 20, 8, 22, 9, 21, 22, 26, 24, 25, 29, 30, 31, 9, 10, 9, 14, 24, 25, 15, 18,
  40, 41, 19, 20, 9, 45, 23, 9, 10, 9, 11, 8, 21, 15, 12, 24, 25, 19, 17, 12, 11, 23, 25, 21, 22,
  12, 24, 25, 21, 22, -1, 24, 25, 13, 21, 22, -1, 24, 25, -1, -1, 21, 22, 0, 24, 25, 3, 4, 5, 6, 7,
  21, 22, -1, 24, 25>>
yyr1 == <<0, 26, 27, 27, 28, 28, 28, 28, 28, 29, 29, 29, 29, 29, 29, 29, 29, 29, 30, 30, 31, 31>>
yyr2 == <<0, 2, 0, 2, 2, 3, 3, 5, 5, 1, 1, 3, 2, 3, 3, 3, 5, 3, 1, 3, 0, 5>>

-----------------------------------------------------------------------------
(* What to do: shift to a state, or reduce by a rule, rule 0 being an error. *)

Top(st) == st[Len(st)].state
InTable(n, symbol) == n \in 0 .. YYLAST /\ At(yycheck, n) = symbol

DefaultRule(state) == [shift |-> 0, rule |-> At(yydefact, state)]

Decision(state, token) ==
  LET n == At(yypact, state) + YYTRANSLATE(token) IN
  IF ~InTable(n, YYTRANSLATE(token)) THEN DefaultRule(state)
  ELSE IF At(yytable, n) > 0 THEN [shift |-> At(yytable, n), rule |-> 0]
  ELSE [shift |-> 0, rule |-> -At(yytable, n)]

NeedsLook == At(yypact, Top(stack)) # YYPACT_NINF
Parsing == status = "parsing" /\ Top(stack) # YYFINAL

\* The state that a reduced symbol leads to from the state uncovered below it.
Goto(rule, state) ==
  LET lhs == At(yyr1, rule) - YYNTOKENS
      i == At(yypgoto, lhs) + state
  IN IF InTable(i, state) THEN At(yytable, i) ELSE At(yydefgoto, lhs)

-----------------------------------------------------------------------------
(* The semantic actions of the rules: value, report, declarations, output. *)

Effect(val, report, symbols, printed) ==
  [val |-> val, report |-> report, symtab |-> symbols, out |-> printed]
Value(val) == Effect(val, Nothing, symtab, out)
Node(made) == Effect(made.node, made.report, symtab, out)

Declare(var, qstring, isbool) ==
  Effect(NULL, Error(Full(symtab, SYM_LIM)), add_arg(symtab, var, qstring, isbool, SYM_LIM), out)

\* A null expression prints nothing; one with errors is printed all the same.
Define(var, expr, isbool) ==
  LET report == gen_funct(symtab, expr, isbool) IN
  Effect(NULL, report, symtab,
         IF expr = NULL THEN out ELSE Append(out, [name |-> var[1].sval, body |-> report.tokens]))

\* d[k] is the k-th value of the right-hand side.
Semantics(rule, d) ==
  CASE rule \in {2, 3} -> Value(NULL)
    [] rule = 4 -> Effect(NULL, Nothing, symtab,
                          Append(out, [name |-> "quote", body |-> << <<"text", d[2][1].sval>> >>]))
    [] rule = 5 -> Declare(d[2], d[3], TRUE)
    [] rule = 6 -> Declare(d[2], d[3], FALSE)
    [] rule = 7 -> Define(d[2], d[4], TRUE)
    [] rule = 8 -> Define(d[2], d[4], FALSE)
    [] rule \in {9, 10, 18} -> Value(d[1])
    [] rule \in {11, 17} -> Value(d[2])
    [] rule = 12 -> Node(make_not(symtab, d[2]))
    [] rule = 13 -> Node(make_and(symtab, d[1], d[3]))
    [] rule = 14 -> Node(make_or(symtab, d[1], d[3]))
    [] rule = 15 -> Node(make_comp(symtab, d[2], d[1], d[3]))
    [] rule = 16 -> Node(make_ele(symtab, d[1], d[4]))
    [] rule = 19 -> Value(concat(d[1], d[3]))
    [] rule = 20 -> Value(NULL)
    [] rule = 21 -> LET made == make_case(symtab, d[2], d[4])
                    IN Effect(concat(d[1], made.node), made.report, symtab, out)

-----------------------------------------------------------------------------
Init ==
  /\ scene \in Scenes
  /\ src = <<>> /\ look = Empty
  /\ stack = << [state |-> 0, val |-> NULL] >>
  /\ symtab = <<>> /\ errcnt = 0 /\ out = <<>> /\ status = "parsing"

\* yyerror: the sixth error ends the process.
yyerror(n, otherwise) ==
  /\ errcnt' = IF errcnt + n > ERRLIM THEN ERRLIM + 1 ELSE errcnt + n
  /\ status' = IF errcnt + n > ERRLIM THEN "aborted" ELSE otherwise

NextTokens ==
  CASE Len(src) < Len(scene.prefix) -> {scene.prefix[Len(src) + 1]}
    [] Len(src) >= Len(scene.prefix) /\ Len(src) < scene.limit -> scene.menu \cup {EOF}
    [] Len(src) >= scene.limit -> {EOF}

yylex ==
  /\ Parsing /\ NeedsLook /\ look = Empty
  /\ look' \in NextTokens
  /\ src' = IF look' = EOF THEN src ELSE Append(src, look')
  /\ UNCHANGED <<scene, stack, symtab, errcnt, out, status>>

NodeOf(token) ==
  CASE token[1] = "NUM" -> make_num(token[2])
    [] token[1] = "QSTRING" -> make_quote(token[2])
    [] token[1] \in {"VAR", "COMP"} -> make_var(token[2])
    [] OTHER -> NULL

Shift ==
  /\ Parsing /\ NeedsLook /\ look # Empty
  /\ LET to == Decision(Top(stack), look).shift IN
       /\ to # 0
       /\ stack' = Append(stack, [state |-> to, val |-> NodeOf(look)])
  /\ look' = Empty
  /\ UNCHANGED <<scene, src, symtab, errcnt, out, status>>

\* The rule to reduce by: the default one where no token is needed to choose.
Rule == IF NeedsLook THEN Decision(Top(stack), look) ELSE DefaultRule(Top(stack))
Decided == Parsing /\ (NeedsLook => look # Empty) /\ Rule.shift = 0

Reduce ==
  /\ Decided /\ Rule.rule # 0
  /\ LET rule == Rule.rule
         rest == SubSeq(stack, 1, Len(stack) - At(yyr2, rule))
         rhs == [k \in 1 .. At(yyr2, rule) |-> stack[Len(rest) + k].val]
         effect == Semantics(rule, rhs)
     IN /\ stack' = Append(rest, [state |-> Goto(rule, Top(rest)), val |-> effect.val])
        /\ symtab' = effect.symtab /\ out' = effect.out
        /\ yyerror(effect.report.errors, IF effect.report.crash THEN "crashed" ELSE "parsing")
  /\ UNCHANGED <<scene, src, look>>

\* No rule mentions error, so every state is popped and yyparse gives up.
SyntaxError ==
  /\ Decided /\ Rule.rule = 0
  /\ stack' = SubSeq(stack, 1, 1)
  /\ yyerror(1, "failed")
  /\ UNCHANGED <<scene, src, look, symtab, out>>

Accept ==
  /\ status = "parsing" /\ Top(stack) = YYFINAL
  /\ status' = "accepted"
  /\ UNCHANGED <<scene, src, look, stack, symtab, errcnt, out>>

Next == yylex \/ Shift \/ Reduce \/ SyntaxError \/ Accept

Spec == Init /\ [][Next]_vars

\* main returns errcnt != 0.
Succeeded == status = "accepted" /\ errcnt = 0
=============================================================================
