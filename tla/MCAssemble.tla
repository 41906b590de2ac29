----------------------------- MODULE MCAssemble -----------------------------
(* Lines for Assemble. *)
EXTENDS Assemble

I(name) == <<"IDENT", name>>
N(value) == <<"NUM", value>>
R(name) == <<"REG", name>>
X(name) == <<"INSTR", name>>
P(c) == <<"PUNCT", c>>
L(toks) == [tokens |-> toks, end |-> "newline"]
Label(name) == <<I(name), P(":")>>
Based(reg) == <<P("("), R(reg), P(")")>>

\* One statement of each kind, and what may be wrong with it.
Forms ==
  [limit |-> 2,
   menu |-> {L(toks) : toks \in
     {<<>>, Label("a"), <<I("a")>>, <<I("a"), N(1)>>, <<R("%rax")>>, Label("a") \o <<I("a")>>,
      <<X("halt")>>, <<X("ret")>>, <<X("nop"), N(1)>>,
      <<X("cmovl"), R("%rax"), P(","), R("%rsp")>>, <<X("xorq"), R("%r14"), P(","), R("%rbx")>>,
      <<X("rrmovq"), R("%rax"), R("%rbx")>>, <<X("addq"), R("%rax"), P(","), N(1)>>,
      <<X("addq"), N(1), P(","), R("%rax")>>,
      <<X("irmovq"), N(-2), P(","), R("%rdi")>>, <<X("irmovq"), I("a"), P(","), R("%rdi")>>,
      <<X("iaddq"), N(300), P(","), R("%r8")>>, <<X("irmovq"), R("%rax"), P(","), R("%rdi")>>,
      <<X("jle"), I("a")>>, <<X("call"), N(70000)>>, <<X("jmp"), P("(")>>,
      <<X("pushq"), R("%rbp")>>, <<X("popq"), N(1)>>, <<X("popq")>>,
      <<X("rmmovq"), R("%rcx"), P(","), I("a")>> \o Based("%rdx"), <<X("rmmovq"), R("%rcx"), P(","), N(9)>>,
      <<X("rmmovq"), R("%rcx"), P(",")>>, <<X("rmmovq"), R("%rcx"), P(","), N(9), P("("), R("%rdx")>>,
      <<X("rmmovq"), R("%rcx"), P(","), P("("), N(9), P(")")>>,
      <<X("mrmovq"), N(-8)>> \o Based("%rsi") \o <<P(","), R("%r9")>>,
      <<X("mrmovq")>> \o Based("%rsi") \o <<P(","), R("%r9")>>, <<X("mrmovq"), I("a"), P(","), R("%r9")>>,
      <<X("mrmovq"), N(8), R("%rsi")>>, <<X("mrmovq"), N(8), P("("), R("%rsi"), P(",")>>,
      <<X(".byte"), N(511)>>, <<X(".word"), N(-3)>>, <<X(".long"), N(66000)>>, <<X(".quad"), I("a")>>,
      <<X(".quad"), R("%rax")>>, <<X(".pos"), N(5)>>, <<X(".pos"), I("a")>>, <<X(".pos"), N(-5)>>,
      <<X(".align"), N(8)>>, <<X(".align"), N(0)>>, <<X(".align"), R("%rax")>>}}]

\* Labels before and after their use, defined twice, on directives; places that meet.
Layout ==
  [limit |-> 4,
   menu |-> {L(toks) : toks \in
     {Label("a"), Label("b") \o <<X("halt")>>, Label("a") \o <<X(".align"), N(4)>>,
      Label("b") \o <<X(".pos"), N(3)>>, <<X("jmp"), I("a")>>,
      <<X("irmovq"), I("b"), P(","), R("%rbx")>>, <<X("pushq"), R("%rax")>>, <<X(".quad"), I("b")>>}}]

\* Lines that the scanner cannot read, and those that the file ends in.
Unreadable ==
  [limit |-> 3,
   menu |-> {L(toks) : toks \in {<<>>, <<X("halt")>>, Label("a"), <<X("jmp"), I("a")>>, <<X("jmp"), I("b")>>}}
            \cup {[tokens |-> toks, end |-> end] :
                    toks \in {<<>>, <<X("halt")>>, <<I("a")>>}, end \in {"junk", "cutjunk"}}
            \cup {[tokens |-> toks, end |-> "cut"] : toks \in {<<>>, <<X("halt")>>}}]

\* The last places of an address of three and of four digits, of the memory and of an int; places before 0.
Limits ==
  [limit |-> 4,
   menu |-> {L(toks) : toks \in
     {<<X(".pos"), N(-70000)>>, <<X(".pos"), N(4094)>>, <<X(".pos"), N(8182)>>, <<X(".pos"), N(65534)>>,
      <<X(".align"), N(65536)>>, <<X(".align"), N(INT_MAX)>>, <<X("halt")>>, <<X("pushq"), R("%rax")>>, Label("a"),
      <<X("irmovq"), I("a"), P(","), R("%rbx")>>}}]

AllScenes == {Forms, Layout, Unreadable, Limits}
=============================================================================
