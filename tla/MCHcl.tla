------------------------------- MODULE MCHcl -------------------------------
(* Sources for HclMeaning: what TLC may write after each prefix. *)
EXTENDS HclMeaning

W(name) == <<"VAR", name>>
N(value) == <<"NUM", value>>
Signals == <<Tok("WORDARG"), W("x"), <<"QSTRING", "X">>, Tok("BOOLARG"), W("b"), <<"QSTRING", "B">>>>

Operators ==
  [prefix |-> Signals \o <<Tok("BOOL"), W("f"), Tok("ASSIGN")>>, limit |-> 16,
   menu |-> {W("x"), W("b"), N(1), N(2), <<"COMP", "==">>}
            \cup {Tok(k) : k \in {"LPAREN", "RPAREN", "AND", "OR", "NOT", "SEMI"}}]
Sets ==
  [prefix |-> Signals \o <<Tok("BOOL"), W("f"), Tok("ASSIGN")>>, limit |-> 18,
   menu |-> {W("x"), W("b"), <<"COMP", "==">>}
            \cup {Tok(k) : k \in {"IN", "LBRACE", "RBRACE", "COMMA", "NOT", "SEMI"}}]
Cases ==
  [prefix |-> Signals \o <<Tok("WORD"), W("g"), Tok("ASSIGN"), Tok("LBRACK")>>, limit |-> 21,
   menu |-> {W("x"), W("b"), N(1)} \cup {Tok(k) : k \in {"COLON", "LBRACK", "RBRACK", "SEMI"}}]
CasesInSets ==
  [prefix |-> Signals \o <<Tok("BOOL"), W("f"), Tok("ASSIGN"), W("x"), Tok("IN"), Tok("LBRACE"), Tok("LBRACK")>>,
   limit |-> 22,
   menu |-> {W("x"), N(1)} \cup {Tok(k) : k \in {"COLON", "COMMA", "RBRACE", "RBRACK", "SEMI"}}]
Declarations ==
  [prefix |-> <<>>, limit |-> 11,
   menu |-> {W("x"), <<"QSTRING", "X">>, <<"QSTRING", "B">>}
            \cup {Tok(k) : k \in {"QUOTE", "WORDARG", "BOOLARG", "WORD", "BOOL", "ASSIGN", "AND", "SEMI"}}]
AllScenes == {Operators, Sets, Cases, CasesInSets, Declarations}

SomeEndings == {<<>>} \cup
  { w \o <<Tok("SEMI")>> : w \in {<<>>, <<W("x")>>, <<W("b")>>, <<Tok("RPAREN")>>, <<W("b"), Tok("RPAREN")>>,
      <<Tok("RBRACE")>>, <<W("x"), Tok("RBRACE")>>, <<Tok("RBRACK")>>,
      <<W("x"), Tok("SEMI"), Tok("RBRACK")>>, <<Tok("SEMI"), Tok("RBRACK")>>} }
=============================================================================
