-------------------------------- MODULE Pipe --------------------------------
(***************************************************************************)
(* The pipelined processor: the control logic of pipe/pipe-full.hcl, under *)
(* the names it has there, and the stages and the clock of pipe/psim.c.    *)
(* The state is that after a call of sim_step_pipe, from which its stage   *)
(* functions compute every signal; Cycle is the next call, while the limit *)
(* on the number of instructions is far.                                   *)
(***************************************************************************)
EXTENDS Y86

VARIABLES code, reg, mem, cc,   \* text, register file, memory, condition codes
          F, D, E, M, W         \* the pipeline registers; F is the predicted PC
vars == <<code, reg, mem, cc, F, D, E, M, W>>

bubble_if_id  == [stat |-> BUB, icode |-> "INOP", ifun |-> F_NONE, rA |-> RNONE, rB |-> RNONE,
                  valC |-> 0, valP |-> 0, pc |-> 0]
bubble_id_ex  == [stat |-> BUB, icode |-> "INOP", ifun |-> F_NONE, valC |-> 0, valA |-> 0, valB |-> 0,
                  srcA |-> RNONE, srcB |-> RNONE, dstE |-> RNONE, dstM |-> RNONE, pc |-> 0]
bubble_ex_mem == [stat |-> BUB, icode |-> "INOP", Cnd |-> FALSE, valE |-> 0, valA |-> 0,
                  dstE |-> RNONE, dstM |-> RNONE, pc |-> 0]
bubble_mem_wb == [stat |-> BUB, icode |-> "INOP", valE |-> 0, valM |-> 0,
                  dstE |-> RNONE, dstM |-> RNONE, pc |-> 0]

Init == /\ code = Image
        /\ mem \in [Data -> Quads]
        /\ reg = [r \in Regs |-> 0] /\ cc = DEFAULT_CC
        /\ F = 0 /\ D = bubble_if_id /\ E = bubble_id_ex /\ M = bubble_ex_mem /\ W = bubble_mem_wb

----------------------------------------------------------------------------
\* Memory stage.
mem_addr == CASE M.icode \in {"IRMMOVQ", "IPUSHQ", "ICALL", "IMRMOVQ"} -> M.valE
              [] M.icode \in {"IPOPQ", "IRET"} -> M.valA
              [] OTHER -> 0
mem_read == M.icode \in {"IMRMOVQ", "IPOPQ", "IRET"}
mem_write == M.icode \in {"IRMMOVQ", "IPUSHQ", "ICALL"}
dmem_error == (mem_read \/ mem_write) /\ mem_addr \notin Data

m_valM == IF mem_read THEN get_word_val(mem, mem_addr) ELSE 0
m_stat == IF dmem_error THEN ADR ELSE M.stat

m_next == [stat |-> m_stat, icode |-> M.icode, valE |-> M.valE, valM |-> m_valM,
           dstE |-> M.dstE, dstM |-> M.dstM, pc |-> M.pc]

----------------------------------------------------------------------------
\* Execute stage.
aluA == CASE E.icode \in {"IRRMOVQ", "IOPQ"} -> E.valA
          [] E.icode \in {"IIRMOVQ", "IRMMOVQ", "IMRMOVQ", "IIADDQ"} -> E.valC
          [] E.icode \in {"ICALL", "IPUSHQ"} -> -1
          [] E.icode \in {"IRET", "IPOPQ"} -> 1
          [] OTHER -> 0
aluB == IF E.icode \in {"IRMMOVQ", "IMRMOVQ", "IOPQ", "ICALL", "IPUSHQ", "IRET", "IPOPQ", "IIADDQ"}
        THEN E.valB ELSE 0
alufun == IF E.icode = "IOPQ" THEN E.ifun ELSE A_ADD

Excepting == {ADR, INS, HLT}
set_cc == E.icode \in {"IOPQ", "IIADDQ"} /\ m_stat \notin Excepting /\ W.stat \notin Excepting

e_Cnd == cond_holds(cc, E.ifun)
e_valE == compute_alu(alufun, aluA, aluB)
e_valA == IF E.icode \in {"IRMMOVQ", "IPUSHQ"} /\ E.srcA = M.dstM THEN m_valM ELSE E.valA
e_dstE == IF E.icode = "IRRMOVQ" /\ ~e_Cnd THEN RNONE ELSE E.dstE

e_next == [stat |-> E.stat, icode |-> E.icode, Cnd |-> e_Cnd, valE |-> e_valE, valA |-> e_valA,
           dstE |-> e_dstE, dstM |-> E.dstM, pc |-> E.pc]

----------------------------------------------------------------------------
\* Decode stage.
d_srcA == CASE D.icode \in {"IRRMOVQ", "IRMMOVQ", "IOPQ", "IPUSHQ"} -> D.rA
            [] D.icode \in {"IPOPQ", "IRET"} -> "rsp"
            [] OTHER -> RNONE
d_srcB == CASE D.icode \in {"IOPQ", "IRMMOVQ", "IMRMOVQ", "IIADDQ"} -> D.rB
            [] D.icode \in {"IPUSHQ", "IPOPQ", "ICALL", "IRET"} -> "rsp"
            [] OTHER -> RNONE
d_dstE == CASE D.icode \in {"IRRMOVQ", "IIRMOVQ", "IOPQ", "IIADDQ"} -> D.rB
            [] D.icode \in {"IPUSHQ", "IPOPQ", "ICALL", "IRET"} -> "rsp"
            [] OTHER -> RNONE
d_dstM == IF D.icode \in {"IMRMOVQ", "IPOPQ"} THEN D.rA ELSE RNONE

\* The value of a source register: the youngest instruction ahead that writes it has it.
FaultyForward(src) ==
  CASE src = e_dstE -> e_valE
    [] src # e_dstE /\ src = M.dstE -> M.valE
    [] src \notin {e_dstE, M.dstE} /\ src = M.dstM -> m_valM
    [] src \notin {e_dstE, M.dstM, M.dstE} /\ src = W.dstM -> W.valM
    [] src \notin {e_dstE, M.dstM, M.dstE, W.dstM} /\ src = W.dstE -> W.valE
    [] OTHER -> get_reg_val(reg, src)

Forward(src) ==
  CASE src = e_dstE -> e_valE
    [] src # e_dstE /\ src = M.dstM -> m_valM
    [] src \notin {e_dstE, M.dstM} /\ src = M.dstE -> M.valE
    [] src \notin {e_dstE, M.dstM, M.dstE} /\ src = W.dstM -> W.valM
    [] src \notin {e_dstE, M.dstM, M.dstE, W.dstM} /\ src = W.dstE -> W.valE
    [] OTHER -> get_reg_val(reg, src)

d_valA == IF D.icode \in {"ICALL", "IJXX"} THEN D.valP ELSE Forward(d_srcA)
d_valB == Forward(d_srcB)

d_next == [stat |-> D.stat, icode |-> D.icode, ifun |-> D.ifun, valC |-> D.valC,
           valA |-> d_valA, valB |-> d_valB, srcA |-> d_srcA, srcB |-> d_srcB,
           dstE |-> d_dstE, dstM |-> d_dstM, pc |-> D.pc]

----------------------------------------------------------------------------
\* Fetch stage.
f_pc == CASE M.icode = "IJXX" /\ ~M.Cnd -> M.valA
          [] ~(M.icode = "IJXX" /\ ~M.Cnd) /\ W.icode = "IRET" -> W.valM
          [] OTHER -> F
imem_error == f_pc \notin Text
imem == code[f_pc]
f_icode == IF imem_error THEN "INOP" ELSE imem.icode
f_ifun == IF imem_error THEN F_NONE ELSE imem.ifun
instr_valid == f_icode \in Icodes
f_stat == CASE imem_error -> ADR
            [] ~imem_error /\ ~instr_valid -> INS
            [] ~imem_error /\ f_icode = "IHALT" -> HLT
            [] OTHER -> AOK

need_regids == f_icode \in {"IRRMOVQ", "IOPQ", "IPUSHQ", "IPOPQ", "IIRMOVQ", "IRMMOVQ", "IMRMOVQ", "IIADDQ"}
need_valC == f_icode \in {"IIRMOVQ", "IRMMOVQ", "IMRMOVQ", "IJXX", "ICALL", "IIADDQ"}
f_valC == IF need_valC THEN imem.valC ELSE 0
f_valP == Wrap(f_pc + 1)
f_predPC == IF f_icode \in {"IJXX", "ICALL"} THEN f_valC ELSE f_valP

f_next == [stat |-> f_stat, icode |-> f_icode, ifun |-> f_ifun,
           rA |-> IF need_regids THEN imem.rA ELSE RNONE, rB |-> IF need_regids THEN imem.rB ELSE RNONE,
           valC |-> f_valC, valP |-> f_valP, pc |-> f_pc]

----------------------------------------------------------------------------
\* Control of the pipeline registers.
\* Without looking at the instruction in E.
FaultyLoadUse ==
  E.dstM = d_srcB \/ (E.dstM = d_srcA /\ D.icode \notin {"IRMMOVQ", "IPUSHQ"})

\* A load whose result the next instruction needs sooner than the memory stage can forward it.
LoadUse ==
  /\ E.icode \in {"IMRMOVQ", "IPOPQ"}
  /\ E.dstM = d_srcB \/ (E.dstM = d_srcA /\ D.icode \notin {"IRMMOVQ", "IPUSHQ"})
\* Forgets the return in D.
FaultyReturning == "IRET" \in {E.icode, M.icode}
Returning == "IRET" \in {D.icode, E.icode, M.icode}
Mispredicted == E.icode = "IJXX" /\ ~e_Cnd

F_stall == LoadUse \/ Returning
D_stall == LoadUse
\* Whatever a load in E does to D.
FaultyD_bubble == Mispredicted \/ Returning
D_bubble == Mispredicted \/ (~LoadUse /\ Returning)
E_bubble == Mispredicted \/ LoadUse
M_bubble == m_stat \in Excepting \/ W.stat \in Excepting
W_stall == W.stat \in Excepting

\* What a register holds next.  Stalled and bubbled at once is a fault of the control logic (P_ERROR).
Update(stall, bubble, current, next, bubbleVal) ==
  CASE stall /\ bubble -> [bubbleVal EXCEPT !.stat = PIP]
    [] stall /\ ~bubble -> current
    [] ~stall /\ bubble -> bubbleVal
    [] OTHER -> next

Update_state(update_mem, update_cc) ==
  /\ reg' = set_reg_val(set_reg_val(reg, W.dstE, W.valE), W.dstM, W.valM)
  /\ mem' = IF update_mem /\ mem_write THEN set_word_val(mem, mem_addr, M.valA) ELSE mem
  /\ cc' = IF update_cc /\ set_cc THEN compute_cc(alufun, aluA, aluB) ELSE cc

Update_pipes ==
  /\ F' = IF F_stall THEN F ELSE f_predPC
  /\ D' = Update(D_stall, D_bubble, D, f_next, bubble_if_id)
  /\ E' = Update(FALSE, E_bubble, E, d_next, bubble_id_ex)
  /\ M' = Update(FALSE, M_bubble, M, e_next, bubble_ex_mem)
  /\ W' = Update(W_stall, FALSE, W, m_next, bubble_mem_wb)

Running == W.stat \notin Stopped
Loaded == ~imem_error => imem # NotYet

Load == \E i \in Instrs : Running /\ ~Loaded /\ code' = [code EXCEPT ![f_pc] = i]
                            /\ UNCHANGED <<reg, mem, cc, F, D, E, M, W>>
Cycle == Running /\ Loaded /\ Update_state(TRUE, TRUE) /\ Update_pipes /\ UNCHANGED code

Next == Load \/ Cycle
Spec == Init /\ [][Next]_vars
FairSpec == Spec /\ WF_vars(Next)
=============================================================================
