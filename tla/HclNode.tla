------------------------------ MODULE HclNode ------------------------------
(***************************************************************************)
(* The parse tree of an HCL expression, what checks it, and what prints it *)
(* as C (misc/node.c).                                                     *)
(*                                                                         *)
(* A node_ptr is the list that starts there and goes on through next: a    *)
(* sequence of nodes, NULL being the empty one.  Following a pointer to    *)
(* one node means looking at the head.  Column and indentation of the      *)
(* printed C (outgen.c) are left out.                                      *)
(***************************************************************************)
EXTENDS Integers, Sequences

NULL == <<>>

new_node(type, isbool, sval, arg1, arg2) ==
  << [type |-> type, isbool |-> isbool, sval |-> sval, arg1 |-> arg1, arg2 |-> arg2] >>

\* What the scanner makes of a name or an operator, and of a number.
make_var(name) == new_node("VAR", FALSE, name, NULL, NULL)
make_num(name) == new_node("NUM", FALSE, name, NULL, NULL)
make_quote(qstring) == new_node("QUOTE", FALSE, qstring, NULL, NULL)

concat(n1, n2) == n1 \o n2

-----------------------------------------------------------------------------
(* The symbol table: a sequence of declarations, searched from the front. *)

Declaring(symtab, name) == {i \in DOMAIN symtab : symtab[i].name = name}

\* find_symbol reports a name it does not find.
Declared(symtab, name) == Declaring(symtab, name) # {}
find_symbol(symtab, name) ==
  symtab[CHOOSE i \in Declaring(symtab, name) : \A k \in Declaring(symtab, name) : i <= k]

\* add_arg with add_symbol and set_bool: a full table reports and keeps nothing.
Full(symtab, SYM_LIM) == Len(symtab) >= SYM_LIM
add_arg(symtab, var, qstring, isbool, SYM_LIM) ==
  IF Full(symtab, SYM_LIM) THEN symtab
  ELSE Append(symtab, [name |-> var[1].sval, text |-> qstring[1].sval, isbool |-> isbool])

-----------------------------------------------------------------------------
(* A report is what a routine prints, how often it calls yyerror, and      *)
(* whether it follows NULL.  A C token is a kind and a text.               *)

Printed(tokens) == [tokens |-> tokens, errors |-> 0, crash |-> FALSE]
Op(text) == Printed(<< <<"op", text>> >>)
Reported(n) == [tokens |-> <<>>, errors |-> n, crash |-> FALSE]
Crash == [tokens |-> <<>>, errors |-> 0, crash |-> TRUE]
Nothing == Reported(0)

\* One routine after another, unless the first was the last.
p ** q == IF p.crash THEN p
          ELSE [tokens |-> p.tokens \o q.tokens, errors |-> p.errors + q.errors, crash |-> q.crash]

-----------------------------------------------------------------------------
(* Checks. *)

\* show_expr writes the expression into a message, as far as 80 characters,
\* which is farther than expressions go here.  It follows what it shows.
RECURSIVE Showable(_)
Showable(expr) ==
  expr # NULL /\
  CASE expr[1].type \in {"VAR", "NUM", "QUOTE"} -> TRUE
    [] expr[1].type = "NOT" -> Showable(expr[1].arg1)
    [] expr[1].type \in {"AND", "OR", "COMP"} -> Showable(expr[1].arg1) /\ Showable(expr[1].arg2)
    [] expr[1].type = "ELE" ->
         /\ Showable(expr[1].arg1)
         /\ \A i \in DOMAIN expr[1].arg2 : Showable(SubSeq(expr[1].arg2, i, Len(expr[1].arg2)))
    [] expr[1].type = "CASE" -> \A i \in DOMAIN expr : Showable(expr[i].arg1) /\ Showable(expr[i].arg2)

Error(condition) == Reported(IF condition THEN 1 ELSE 0)

CheckVar(symtab, name, wantbool) ==
  IF Declared(symtab, name) THEN Error(wantbool # find_symbol(symtab, name).isbool)
  ELSE Reported(2)   \* once by find_symbol, once by check_arg

\* Faulty variant: a number passes for a Boolean whatever its value.
FaultyCheckArg(symtab, arg, wantbool) ==
  CASE arg = NULL -> Reported(1)
    [] arg # NULL /\ arg[1].type = "VAR" -> CheckVar(symtab, arg[1].sval, wantbool)
    [] arg # NULL /\ arg[1].type = "NUM" -> Nothing
    [] arg # NULL /\ arg[1].type \notin {"VAR", "NUM"} ->
         IF wantbool = arg[1].isbool THEN Nothing
         ELSE IF Showable(arg) THEN Reported(1) ELSE Crash

check_arg(symtab, arg, wantbool) ==
  CASE arg = NULL -> Reported(1)
    [] arg # NULL /\ arg[1].type = "VAR" -> CheckVar(symtab, arg[1].sval, wantbool)
    [] arg # NULL /\ arg[1].type = "NUM" -> Error(wantbool /\ arg[1].sval \notin {0, 1})
    [] arg # NULL /\ arg[1].type \notin {"VAR", "NUM"} ->
         IF wantbool = arg[1].isbool THEN Nothing
         ELSE IF Showable(arg) THEN Reported(1) ELSE Crash

\* The node constructors: the node, and the report of its checks.
Made(node, report) == [node |-> node, report |-> report]

Binary(symtab, type, sval, arg1, arg2, wantbool) ==
  Made(new_node(type, TRUE, sval, arg1, arg2),
       check_arg(symtab, arg1, wantbool) ** check_arg(symtab, arg2, wantbool))

make_not(symtab, arg) ==
  Made(new_node("NOT", TRUE, "!", arg, NULL), check_arg(symtab, arg, TRUE))
make_and(symtab, arg1, arg2) == Binary(symtab, "AND", "&", arg1, arg2, TRUE)
make_or(symtab, arg1, arg2) == Binary(symtab, "OR", "|", arg1, arg2, TRUE)
make_comp(symtab, op, arg1, arg2) == Binary(symtab, "COMP", op[1].sval, arg1, arg2, FALSE)

\* The loop meant for the members of the set runs over arg1 a second time.
RECURSIVE CheckEach(_, _)
CheckEach(symtab, list) ==
  IF list = NULL THEN Nothing ELSE check_arg(symtab, list, FALSE) ** CheckEach(symtab, Tail(list))
make_ele(symtab, arg1, arg2) ==
  Made(new_node("ELE", TRUE, "in", arg1, arg2),
       check_arg(symtab, arg1, FALSE) ** CheckEach(symtab, arg1))

make_case(symtab, arg1, arg2) ==
  Made(new_node("CASE", FALSE, ":", arg1, arg2),
       check_arg(symtab, arg1, TRUE) ** check_arg(symtab, arg2, FALSE))

-----------------------------------------------------------------------------
(* Printing. *)

IsDefault(arm) == arm.arg1[1].type = "NUM" /\ arm.arg1[1].sval = 1

RECURSIVE gen_expr(_, _), GenMembers(_, _, _), GenArms(_, _)

\* arg1 == member || arg1 == member ..., each member with the nodes behind it.
GenMembers(symtab, arg1, members) ==
  IF members = NULL THEN Nothing
  ELSE gen_expr(symtab, arg1) ** Op("==") ** gen_expr(symtab, members)
         ** (IF Tail(members) = NULL THEN Nothing ELSE Op("||"))
         ** GenMembers(symtab, arg1, Tail(members))

\* condition ? value : ..., up to a condition 1, or else to 0.
GenArms(symtab, arms) ==
  CASE arms = NULL -> Printed(<< <<"num", 0>> >>)
    [] arms # NULL /\ arms[1].arg1 = NULL -> Crash
    [] arms # NULL /\ arms[1].arg1 # NULL ->
         IF IsDefault(arms[1]) THEN gen_expr(symtab, arms[1].arg2)
         ELSE gen_expr(symtab, arms[1].arg1) ** Op("?") ** gen_expr(symtab, arms[1].arg2)
                ** Op(":") ** GenArms(symtab, Tail(arms))

\* Faulty variant: an operand is printed bare.
FaultyInParens(inner) == inner
InParens(inner) == Op("(") ** inner ** Op(")")

gen_expr(symtab, expr) ==
  IF expr = NULL THEN Crash
  ELSE LET node == expr[1] IN
    CASE node.type = "VAR" ->
           IF Declared(symtab, node.sval)
           THEN InParens(Printed(<< <<"text", find_symbol(symtab, node.sval).text>> >>))
           ELSE Reported(2)
      [] node.type = "NUM" -> Printed(<< <<"num", node.sval>> >>)
      [] node.type \in {"AND", "OR", "COMP"} ->
           InParens(gen_expr(symtab, node.arg1) ** Op(node.sval) ** gen_expr(symtab, node.arg2))
      [] node.type = "NOT" -> Op("!") ** gen_expr(symtab, node.arg1)
      [] node.type = "ELE" -> InParens(GenMembers(symtab, node.arg1, node.arg2))
      [] node.type = "CASE" -> InParens(GenArms(symtab, expr))

\* The body of the function that gen_funct prints.
gen_funct(symtab, expr, isbool) ==
  IF expr = NULL THEN Reported(1)
  ELSE check_arg(symtab, expr, isbool) ** gen_expr(symtab, expr)
=============================================================================
