----------------------------- MODULE HclMeaning ----------------------------
(***************************************************************************)
(* What a source means, read off the grammar and the precedences that      *)
(* hcl.y declares and not off the parser, and what a C expression means.   *)
(* With them, what hcl2c promises: it succeeds on well-formed sources, and *)
(* the C that it prints then means what the source means.                  *)
(***************************************************************************)
EXTENDS Hcl, FiniteSets

CONSTANT Endings   \* ways to complete a source that the parser gave up on

-----------------------------------------------------------------------------
(* Sequences of tokens with brackets; opens and closes are kinds or texts. *)

Before(s, i) == SubSeq(s, 1, i - 1)
After(s, i)  == SubSeq(s, i + 1, Len(s))
Inside(s)    == SubSeq(s, 2, Len(s) - 1)

Largest(S)  == CHOOSE i \in S : \A k \in S : k <= i
Smallest(S) == CHOOSE i \in S : \A k \in S : i <= k

Depth(s, i, opens, closes) ==
  Cardinality({k \in 1 .. i - 1 : s[k] \in opens}) - Cardinality({k \in 1 .. i - 1 : s[k] \in closes})

\* The first bracket of s is closed by its last token and no sooner.
Wraps(s, open, close, opens, closes) ==
  /\ Len(s) >= 2 /\ s[1] = open /\ s[Len(s)] = close
  /\ \A i \in 2 .. Len(s) : Depth(s, i, opens, closes) >= 1

\* s cut at the positions in cuts.
RECURSIVE Pieces(_, _)
Pieces(s, cuts) ==
  IF cuts = {} THEN <<s>>
  ELSE LET c == Smallest(cuts) IN
       <<Before(s, c)>> \o Pieces(After(s, c), {k - c : k \in cuts \ {c}})

-----------------------------------------------------------------------------
(* Expressions: OR binds loosest, then AND, NOT, COMP and IN; each operator *)
(* groups to the left.  NOT reaches as far right as its precedence allows.  *)

Tok(kind) == <<kind, "">>
Opens  == {Tok("LPAREN"), Tok("LBRACE"), Tok("LBRACK")}
Closes == {Tok("RPAREN"), Tok("RBRACE"), Tok("RBRACK")}
At0(s, kind) == {i \in DOMAIN s : s[i][1] = kind /\ Depth(s, i, Opens, Closes) = 0}
Wrapped(s, open, close) == Wraps(s, Tok(open), Tok(close), Opens, Closes)

Bad == [kind |-> "bad"]
Leaf(token) == [kind |-> token[1], text |-> token[2]]

RECURSIVE Tree(_), Arms(_)

\* condition : value ; ...
Arms(s) ==
  IF s = <<>> THEN <<>>
  ELSE LET colons == At0(s, "COLON")  semis == At0(s, "SEMI") IN
    IF colons = {} \/ semis = {} \/ Smallest(colons) >= Smallest(semis) THEN << <<Bad, Bad>> >>
    ELSE << <<Tree(Before(s, Smallest(colons))),
              Tree(SubSeq(s, Smallest(colons) + 1, Smallest(semis) - 1))>> >>
         \o Arms(After(s, Smallest(semis)))

Tree(s) ==
  LET nots == At0(s, "NOT")
      \* a comparison to the right of a top-level NOT is an operand of it
      comps == {i \in At0(s, "COMP") : \A k \in nots : i < k}
      ins == At0(s, "IN")
      Split(kind, i) == [kind |-> kind, op |-> s[i][2],
                         left |-> Tree(Before(s, i)), right |-> Tree(After(s, i))]
  IN
  CASE s = <<>> -> Bad
    [] At0(s, "OR") # {} -> Split("OR", Largest(At0(s, "OR")))
    [] At0(s, "OR") = {} /\ At0(s, "AND") # {} -> Split("AND", Largest(At0(s, "AND")))
    [] OTHER ->
  CASE s[1] = Tok("NOT") -> [kind |-> "NOT", arg |-> Tree(Tail(s))]
    [] s[1] # Tok("NOT") /\ comps # {} -> Split("COMP", Largest(comps))
    [] s[1] # Tok("NOT") /\ comps = {} /\ ins # {} ->
         LET i == Largest(ins)  set == After(s, i) IN
         IF Wrapped(set, "LBRACE", "RBRACE")
         THEN LET pieces == Pieces(Inside(set), At0(Inside(set), "COMMA")) IN
              [kind |-> "IN", left |-> Tree(Before(s, i)),
               members |-> [k \in DOMAIN pieces |-> Tree(pieces[k])]]
         ELSE Bad
    [] OTHER ->
         IF Len(s) = 1 /\ s[1][1] \in {"VAR", "NUM"} THEN Leaf(s[1])
         ELSE IF Wrapped(s, "LPAREN", "RPAREN") THEN Tree(Inside(s))
         ELSE IF Wrapped(s, "LBRACK", "RBRACK") THEN [kind |-> "CASE", arms |-> Arms(Inside(s))]
         ELSE Bad

\* Does an expression, and all that it is made of, have the type wanted?  Names
\* are looked up in decls.  The type of a member of a set is not looked at.
RECURSIVE Typed(_, _, _)
Typed(t, wantbool, decls) ==
  CASE t.kind = "bad" -> FALSE
    [] t.kind = "VAR" -> Declared(decls, t.text) /\ find_symbol(decls, t.text).isbool = wantbool
    [] t.kind = "NUM" -> wantbool => t.text \in {0, 1}
    [] t.kind = "NOT" -> wantbool /\ Typed(t.arg, TRUE, decls)
    [] t.kind \in {"AND", "OR"} -> wantbool /\ Typed(t.left, TRUE, decls) /\ Typed(t.right, TRUE, decls)
    [] t.kind = "COMP" -> wantbool /\ Typed(t.left, FALSE, decls) /\ Typed(t.right, FALSE, decls)
    [] t.kind = "IN" ->
         /\ wantbool /\ Typed(t.left, FALSE, decls)
         /\ \A i \in DOMAIN t.members : \E b \in BOOLEAN : Typed(t.members[i], b, decls)
    [] t.kind = "CASE" ->
         /\ ~wantbool /\ t.arms # <<>>
         /\ \A i \in DOMAIN t.arms : Typed(t.arms[i][1], TRUE, decls) /\ Typed(t.arms[i][2], FALSE, decls)

Truth(b) == IF b THEN 1 ELSE 0

Compare(op, a, b) ==
  CASE op = "==" -> Truth(a = b) [] op = "!=" -> Truth(a # b)
    [] op = "<" -> Truth(a < b)  [] op = "<=" -> Truth(a <= b)
    [] op = ">" -> Truth(a > b)  [] op = ">=" -> Truth(a >= b)

\* env gives a value to the C text of each signal.
RECURSIVE Meaning(_, _, _)
Meaning(t, decls, env) ==
  CASE t.kind = "VAR" -> env[find_symbol(decls, t.text).text]
    [] t.kind = "NUM" -> t.text
    [] t.kind = "NOT" -> 1 - Meaning(t.arg, decls, env)
    [] t.kind = "AND" -> Meaning(t.left, decls, env) * Meaning(t.right, decls, env)
    [] t.kind = "OR" -> Truth(Meaning(t.left, decls, env) + Meaning(t.right, decls, env) > 0)
    [] t.kind = "COMP" -> Compare(t.op, Meaning(t.left, decls, env), Meaning(t.right, decls, env))
    [] t.kind = "IN" -> Truth(\E i \in DOMAIN t.members :
                                Meaning(t.left, decls, env) = Meaning(t.members[i], decls, env))
    [] t.kind = "CASE" ->
         LET chosen == {i \in DOMAIN t.arms : Meaning(t.arms[i][1], decls, env) = 1} IN
         IF chosen = {} THEN 0 ELSE Meaning(t.arms[Smallest(chosen)][2], decls, env)

\* concat joins two lists by their next fields, and next is also what holds the
\* arms of a case expression together: a case expression in a set falls apart.
RECURSIVE CaseInSet(_)
CaseInSet(t) ==
  CASE t.kind = "NOT" -> CaseInSet(t.arg)
    [] t.kind \in {"AND", "OR", "COMP"} -> CaseInSet(t.left) \/ CaseInSet(t.right)
    [] t.kind = "IN" -> \/ CaseInSet(t.left)
                        \/ \E i \in DOMAIN t.members : t.members[i].kind = "CASE" \/ CaseInSet(t.members[i])
    [] t.kind = "CASE" -> \E i \in DOMAIN t.arms : CaseInSet(t.arms[i][1]) \/ CaseInSet(t.arms[i][2])
    [] OTHER -> FALSE

-----------------------------------------------------------------------------
(* Statements, in order.  A definition is a name, its type and its tree.    *)

Kinds(s, kinds) == Len(s) >= Len(kinds) /\ \A i \in DOMAIN kinds : s[i][1] = kinds[i]

RECURSIVE Statements(_)
Statements(s) ==
  LET semis == At0(s, "SEMI")
      drop(n) == Statements(SubSeq(s, n + 1, Len(s)))
  IN
  CASE s = <<>> -> <<>>
    [] Kinds(s, <<"QUOTE", "QSTRING">>) -> << [kind |-> "quote", text |-> s[2][2]] >> \o drop(2)
    [] Kinds(s, <<"BOOLARG", "VAR", "QSTRING">>) \/ Kinds(s, <<"WORDARG", "VAR", "QSTRING">>) ->
         << [kind |-> "declare", name |-> s[2][2], text |-> s[3][2], isbool |-> s[1][1] = "BOOLARG"] >> \o drop(3)
    [] (Kinds(s, <<"BOOL", "VAR", "ASSIGN">>) \/ Kinds(s, <<"WORD", "VAR", "ASSIGN">>)) /\ semis # {} ->
         << [kind |-> "define", name |-> s[2][2], isbool |-> s[1][1] = "BOOL",
             tree |-> Tree(SubSeq(s, 4, Smallest(semis) - 1))] >> \o drop(Smallest(semis))
    [] OTHER -> << [kind |-> "bad"] >>

\* The declarations ahead of statement i.
DeclsBefore(p, i) == SelectSeq(SubSeq(p, 1, i - 1), LAMBDA d : d.kind = "declare")

WellFormed(p) ==
  /\ \A i \in DOMAIN p : p[i].kind # "bad"
  /\ \A i \in DOMAIN p : p[i].kind = "define" => Typed(p[i].tree, p[i].isbool, DeclsBefore(p, i))
  /\ Len(DeclsBefore(p, Len(p) + 1)) <= SYM_LIM

NoCaseInSet(p) == \A i \in DOMAIN p : p[i].kind = "define" => ~CaseInSet(p[i].tree)

-----------------------------------------------------------------------------
(* C, as far as gen_expr uses it: the value of printed tokens.  From loose  *)
(* to tight: ?:, ||, |, &, equality, order, !.                              *)

Sym(text) == <<"op", text>>
Equalities == {Sym("=="), Sym("!=")}
Orders == {Sym("<"), Sym("<="), Sym(">"), Sym(">=")}

RECURSIVE CValue(_, _)
CValue(s, env) ==
  LET Ops(syms) == {i \in DOMAIN s : s[i] \in syms /\ Depth(s, i, {Sym("(")}, {Sym(")")}) = 0}
      \* the colon of the first question mark
      colon == Smallest({i \in Ops({Sym(":")}) :
                 Cardinality({k \in Ops({Sym("?")}) : k < i}) = Cardinality({k \in Ops({Sym(":")}) : k <= i})})
      Left(syms) == CValue(Before(s, Largest(Ops(syms))), env)
      Right(syms) == CValue(After(s, Largest(Ops(syms))), env)
      op(syms) == s[Largest(Ops(syms))][2]
  IN
  IF Ops({Sym("?")}) # {} THEN
    LET q == Smallest(Ops({Sym("?")})) IN
    IF CValue(Before(s, q), env) # 0 THEN CValue(SubSeq(s, q + 1, colon - 1), env) ELSE CValue(After(s, colon), env)
  ELSE IF Ops({Sym("||")}) # {} THEN Truth(Left({Sym("||")}) # 0 \/ Right({Sym("||")}) # 0)
  ELSE IF Ops({Sym("|")}) # {} THEN Truth(Left({Sym("|")}) = 1 \/ Right({Sym("|")}) = 1)
  ELSE IF Ops({Sym("&")}) # {} THEN Truth(Left({Sym("&")}) = 1 /\ Right({Sym("&")}) = 1)
  ELSE IF Ops(Equalities) # {} THEN Compare(op(Equalities), Left(Equalities), Right(Equalities))
  ELSE IF Ops(Orders) # {} THEN Compare(op(Orders), Left(Orders), Right(Orders))
  ELSE IF s[1] = Sym("!") THEN Truth(CValue(Tail(s), env) = 0)
  ELSE IF Wraps(s, Sym("("), Sym(")"), {Sym("(")}, {Sym(")")}) THEN CValue(Inside(s), env)
  ELSE IF s[1][1] = "text" THEN env[s[1][2]] ELSE s[1][2]

\* Values of the signals: 0 or 1 for Boolean ones.
Environments(decls) ==
  LET texts == {decls[i].text : i \in DOMAIN decls}
      Boolean(t) == \E i \in DOMAIN decls : decls[i].text = t /\ decls[i].isbool
  IN {e \in [texts -> 0 .. 2] : \A t \in texts : Boolean(t) => e[t] \in {0, 1}}

-----------------------------------------------------------------------------
\* hcl2c succeeds on the well-formed sources and on no others: no error of type
\* or syntax, unknown name or full table is missed, whatever the order in which
\* the parser meets it, and nothing correct is refused.  A source that the parser
\* gave up on early is none that one of the Endings could have saved.
\* (Case expressions in sets excepted, for which it is false.)
Verdict ==
  status # "parsing" =>
    \A ending \in IF status = "accepted" \/ look = EOF THEN {<<>>} ELSE Endings :
      LET p == Statements(src \o ending) IN
      NoCaseInSet(p) => (Succeeded <=> WellFormed(p))

\* The printed C, by the precedences of C, has the value of the source, by those
\* of HCL, for every value of the signals, definition for definition and in order.
GeneratedMeansHcl ==
  Succeeded =>
    LET p == Statements(src)
        printing == SelectSeq([i \in DOMAIN p |-> [at |-> i, kind |-> p[i].kind]], LAMBDA e : e.kind # "declare")
    IN NoCaseInSet(p) =>
       /\ Len(printing) = Len(out)
       /\ \A i \in DOMAIN out :
            LET s == p[printing[i].at]  decls == DeclsBefore(p, printing[i].at) IN
            IF s.kind = "quote" THEN out[i].body = << <<"text", s.text>> >>
            ELSE /\ out[i].name = s.name
                 /\ \A env \in Environments(decls) :
                      CValue(out[i].body, env) = Meaning(s.tree, decls, env)
=============================================================================
