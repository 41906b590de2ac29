------------------------------- MODULE PipeIsa -------------------------------
(***************************************************************************)
(* The pipelined processor against the instruction set.  An instruction    *)
(* counts as executed when it leaves the execute stage: it can no longer   *)
(* be cancelled, its condition codes are set with that step, and what it   *)
(* writes to registers and memory is under way in M and W.                 *)
(***************************************************************************)
EXTENDS Pipe

\* What an instruction in M or W will have done to the registers.  step_state changes %rsp before a
\* call, push or pop turns out to have an invalid address; the processors stop before the write.
Written(r, icode, s, dstE, valE, dstM, valM) ==
  CASE s \in {AOK, BUB} -> set_reg_val(set_reg_val(r, dstE, valE), dstM, valM)
    [] s = ADR /\ icode # "IRET" -> set_reg_val(r, dstE, valE)
    [] OTHER -> r

AfterW == Written(reg, W.icode, W.stat, W.dstE, W.valE, W.dstM, W.valM)
isa_reg == Written(AfterW, M.icode, m_stat, M.dstE, M.valE, M.dstM, m_valM)
isa_mem == IF mem_write THEN set_word_val(mem, mem_addr, M.valA) ELSE mem

isa_stat == IF W.stat \in Stopped THEN W.stat ELSE IF m_stat \in Stopped THEN m_stat ELSE AOK

\* The instruction that a fault stopped, or else the oldest one that has not left E.
isa_pc == CASE W.stat \in Stopped -> W.pc
            [] W.stat \notin Stopped /\ m_stat \in Stopped -> M.pc
            [] isa_stat = AOK /\ E.stat # BUB -> E.pc
            [] isa_stat = AOK /\ E.stat = BUB /\ D.stat # BUB -> D.pc
            [] isa_stat = AOK /\ E.stat = BUB /\ D.stat = BUB /\ M.icode = "IRET" -> m_valM
            [] OTHER -> f_pc

I == INSTANCE Isa WITH pc <- isa_pc, reg <- isa_reg, mem <- isa_mem, stat <- isa_stat

\* Every step of the pipeline executes the next instruction of the program or none: forwarding,
\* stalls, bubbles and cancelled paths leave no trace in what the program computes.
RefinesIsa == I!Spec

\* pipe-full.hcl, "At most one of these can be true": no pipeline register is told to stall and to
\* take a bubble, for any instructions that meet in the pipeline.
NoConflict == ~(D_stall /\ D_bubble) /\ PIP \notin {D.stat, E.stat, M.stat, W.stat}

\* A return has nothing behind it until it leaves W, a mispredicted branch nothing once it is in M: so
\* no instruction of a wrong path gets as far as M, and at most one of them redirects the fetch.
Empty(stages) == \A s \in stages : s.stat = BUB
RedirectsAlone ==
  /\ E.icode = "IRET" => Empty({D})
  /\ M.icode = "IRET" => Empty({D, E})
  /\ W.icode = "IRET" => Empty({D, E, M})
  /\ M.icode = "IJXX" /\ ~M.Cnd => Empty({D, E})

\* Instructions keep arriving at write-back until one stops the processor: no instructions make the
\* control logic stall or cancel for ever.
Retires == []<>(W.stat # BUB)

\* The condition codes describe the exact result of the addition or subtraction that set them, not
\* the wrapped one: a taken jl or cmovl means less, whatever overflowed.
Exact == IF alufun = A_SUB THEN aluB - aluA ELSE aluA + aluB
CodesExact ==
  [][Cycle /\ set_cc /\ alufun \in {A_ADD, A_SUB} =>
       /\ cc'.of <=> Exact \notin Words
       /\ cond_holds(cc', C_L) <=> Exact < 0
       /\ cond_holds(cc', C_LE) <=> Exact <= 0]_vars

Stages == [stat : {AOK, BUB, PIP} \cup Excepting, icode : AllIcodes]
StageOK(s) == [stat |-> s.stat, icode |-> s.icode] \in Stages
OperandsOK == /\ {D.rA, D.rB, E.srcA, E.srcB, E.dstE, E.dstM, M.dstE, M.dstM, W.dstE, W.dstM}
                   \subseteq Regs \cup {RNONE}
              /\ {F, D.valC, D.valP, E.valA, E.valB, E.valC, M.valA, M.valE, W.valE, W.valM} \subseteq Words
              /\ {D.pc, E.pc, M.pc, W.pc} \subseteq Words
\* Every value in a pipeline register fits a word, and registers are named by ids that exist.
TypeOK == /\ code \in [Text -> Instr \cup {NotYet}]
          /\ reg \in [Regs -> Words] /\ mem \in [Data -> Words] /\ cc \in Flags
          /\ \A s \in {D, E, M, W} : StageOK(s)
          /\ OperandsOK
=============================================================================
