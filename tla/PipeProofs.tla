----------------------------- MODULE PipeProofs -----------------------------
(***************************************************************************)
(* Theorems about the pipelined processor, for words of any width, any     *)
(* registers, text and data.                                               *)
(***************************************************************************)
EXTENDS PipeIsa, TLAPS

----------------------------------------------------------------------------
(* Arithmetic: results are words, and the condition codes describe the exact result. *)

LEMMA WrapSum == ASSUME NEW a \in Words, NEW b \in Words
                 PROVE  Wrap(a + b) \in Words /\ Wrap(b - a) \in Words
BY Y86Assumption DEF Words, Wrap

LEMMA AluWord == ASSUME NEW op, NEW a \in Words, NEW b \in Words
                 PROVE  compute_alu(op, a, b) \in Words
<1>1. 0 \in Words
  BY Y86Assumption DEF Words
<1>2. BitAnd(a, b) \in Words /\ BitXor(a, b) \in Words
  BY Y86Assumption
<1> HIDE DEF Words
<1> QED BY <1>1, <1>2, WrapSum DEF compute_alu, A_ADD, A_SUB, A_AND, A_XOR

LEMMA AluAdd == ASSUME NEW a \in Words, NEW b \in Words
                PROVE  compute_alu(A_ADD, a, b) = Wrap(b + a)
<1>1. compute_alu(A_ADD, a, b) = Wrap(a + b)
  BY DEF compute_alu, A_ADD, A_SUB, A_AND, A_XOR
<1>2. a + b = b + a
  BY Y86Assumption DEF Words
<1> QED BY <1>1, <1>2

LEMMA WrapWord == ASSUME NEW a \in Words
                  PROVE  Wrap(0 + a) = a /\ Wrap(a) = a
BY Y86Assumption DEF Words, Wrap

LEMMA CcFlags == ASSUME NEW op, NEW a, NEW b
                 PROVE  compute_cc(op, a, b) \in Flags
<1> DEFINE val == compute_alu(op, a, b)
           of == CASE op = A_ADD -> (a < 0) = (b < 0) /\ (val < 0) # (a < 0)
                   [] op = A_SUB -> (a > 0) = (b < 0) /\ (val < 0) # (b < 0)
                   [] OTHER -> FALSE
<1>1. of \in BOOLEAN
  BY DEF A_ADD, A_SUB
<1>2. compute_cc(op, a, b) = [zf |-> val = 0, sf |-> val < 0, of |-> of]
  BY DEF compute_cc
<1> HIDE DEF val, of
<1> QED BY <1>1, <1>2 DEF Flags

\* What the flags say of the exact result x, of which v is what fits a word.
LEMMA FlagsSay ==
  ASSUME NEW x \in Int, NEW c \in Flags,
         c.zf <=> Wrap(x) = 0, c.sf <=> Wrap(x) < 0, c.of <=> x \notin Words,
         -2 * Half <= x, x < 2 * Half
  PROVE  /\ cond_holds(c, C_L) <=> x < 0
         /\ cond_holds(c, C_LE) <=> x <= 0
<1>1. (c.sf # c.of) <=> x < 0
  BY Y86Assumption DEF Words, Wrap, Flags
<1>2. (c.sf # c.of) \/ c.zf <=> x <= 0
  BY <1>1, Y86Assumption DEF Words, Wrap, Flags
<1>3. cond_holds(c, C_L) = (c.sf # c.of) /\ cond_holds(c, C_LE) = ((c.sf # c.of) \/ c.zf)
  BY DEF cond_holds, C_YES, C_LE, C_L, C_E, C_NE, C_GE, C_G, Flags
<1> QED BY <1>1, <1>2, <1>3

\* The condition codes of an addition and of a subtraction: jl is taken if and only if the exact
\* result is negative.
LEMMA AddCodes ==
  ASSUME NEW a \in Words, NEW b \in Words
  PROVE  /\ compute_cc(A_ADD, a, b).of <=> a + b \notin Words
         /\ cond_holds(compute_cc(A_ADD, a, b), C_L) <=> a + b < 0
         /\ cond_holds(compute_cc(A_ADD, a, b), C_LE) <=> a + b <= 0
<1> DEFINE x == a + b
           c == compute_cc(A_ADD, a, b)
<1>1. c = [zf |-> Wrap(x) = 0, sf |-> Wrap(x) < 0,
           of |-> (a < 0) = (b < 0) /\ (Wrap(x) < 0) # (a < 0)]
  BY DEF compute_cc, compute_alu, A_ADD, A_SUB, A_AND, A_XOR
<1>2. (a < 0) = (b < 0) /\ (Wrap(x) < 0) # (a < 0) <=> x \notin Words
  BY Y86Assumption DEF Words, Wrap
<1>3. x \in Int /\ -2 * Half <= x /\ x < 2 * Half
  BY Y86Assumption DEF Words
<1>4. c \in Flags
  BY CcFlags
<1>5. c.zf = (Wrap(x) = 0) /\ c.sf = (Wrap(x) < 0) /\ c.of = ((a < 0) = (b < 0) /\ (Wrap(x) < 0) # (a < 0))
  BY <1>1
<1> HIDE DEF x, c
<1>6. (c.zf <=> Wrap(x) = 0) /\ (c.sf <=> Wrap(x) < 0) /\ (c.of <=> x \notin Words)
  BY <1>2, <1>5
<1>7. (cond_holds(c, C_L) <=> x < 0) /\ (cond_holds(c, C_LE) <=> x <= 0)
  BY <1>3, <1>4, <1>6, FlagsSay
<1> QED BY <1>6, <1>7 DEF x, c

LEMMA SubCodes ==
  ASSUME NEW a \in Words, NEW b \in Words
  PROVE  /\ compute_cc(A_SUB, a, b).of <=> b - a \notin Words
         /\ cond_holds(compute_cc(A_SUB, a, b), C_L) <=> b - a < 0
         /\ cond_holds(compute_cc(A_SUB, a, b), C_LE) <=> b - a <= 0
<1> DEFINE x == b - a
           c == compute_cc(A_SUB, a, b)
<1>1. c = [zf |-> Wrap(x) = 0, sf |-> Wrap(x) < 0,
           of |-> (a > 0) = (b < 0) /\ (Wrap(x) < 0) # (b < 0)]
  BY DEF compute_cc, compute_alu, A_ADD, A_SUB, A_AND, A_XOR
<1>2. (a > 0) = (b < 0) /\ (Wrap(x) < 0) # (b < 0) <=> x \notin Words
  BY Y86Assumption DEF Words, Wrap
<1>3. x \in Int /\ -2 * Half <= x /\ x < 2 * Half
  BY Y86Assumption DEF Words
<1>4. c \in Flags
  BY CcFlags
<1>5. c.zf = (Wrap(x) = 0) /\ c.sf = (Wrap(x) < 0) /\ c.of = ((a > 0) = (b < 0) /\ (Wrap(x) < 0) # (b < 0))
  BY <1>1
<1> HIDE DEF x, c
<1>6. (c.zf <=> Wrap(x) = 0) /\ (c.sf <=> Wrap(x) < 0) /\ (c.of <=> x \notin Words)
  BY <1>2, <1>5
<1>7. (cond_holds(c, C_L) <=> x < 0) /\ (cond_holds(c, C_LE) <=> x <= 0)
  BY <1>3, <1>4, <1>6, FlagsSay
<1> QED BY <1>6, <1>7 DEF x, c

----------------------------------------------------------------------------
(* The pipeline registers. *)

LEMMA NeverBoth == ~(D_stall /\ D_bubble)
BY DEF D_stall, D_bubble, Mispredicted, LoadUse

\* What each pipeline register holds after a cycle.
LEMMA Latched ==
  ASSUME Cycle
  PROVE  /\ D' = IF D_stall THEN D ELSE IF D_bubble THEN bubble_if_id ELSE f_next
         /\ E' = IF E_bubble THEN bubble_id_ex ELSE d_next
         /\ M' = IF M_bubble THEN bubble_ex_mem ELSE e_next
         /\ W' = IF W_stall THEN W ELSE m_next
<1>1. D' = Update(D_stall, D_bubble, D, f_next, bubble_if_id)
      /\ E' = Update(FALSE, E_bubble, E, d_next, bubble_id_ex)
      /\ M' = Update(FALSE, M_bubble, M, e_next, bubble_ex_mem)
      /\ W' = Update(W_stall, FALSE, W, m_next, bubble_mem_wb)
  BY DEF Cycle, Update_pipes
<1>2. ASSUME NEW stall \in BOOLEAN, NEW bubble \in BOOLEAN, ~(stall /\ bubble), NEW c, NEW n, NEW b
      PROVE  Update(stall, bubble, c, n, b) = IF stall THEN c ELSE IF bubble THEN b ELSE n
  BY <1>2 DEF Update
<1>3. /\ D_stall \in BOOLEAN /\ D_bubble \in BOOLEAN /\ E_bubble \in BOOLEAN
      /\ M_bubble \in BOOLEAN /\ W_stall \in BOOLEAN
  BY DEF D_stall, D_bubble, E_bubble, M_bubble, W_stall, LoadUse, Mispredicted, Returning
<1>4. D' = IF D_stall THEN D ELSE IF D_bubble THEN bubble_if_id ELSE f_next
  BY <1>1, <1>2, <1>3, NeverBoth
<1>5. E' = IF E_bubble THEN bubble_id_ex ELSE d_next
  BY <1>1, <1>3 DEF Update
<1>6. M' = IF M_bubble THEN bubble_ex_mem ELSE e_next
  BY <1>1, <1>3 DEF Update
<1>7. W' = IF W_stall THEN W ELSE m_next
  BY <1>1, <1>3 DEF Update
<1> QED BY <1>4, <1>5, <1>6, <1>7

\* No conflict has left its mark, and an empty D or E holds a nop: it neither loads nor returns.
StatsOK == /\ PIP \notin {D.stat, E.stat, M.stat, W.stat}
           /\ D.stat = BUB => D.icode = "INOP"
           /\ E.stat = BUB => E.icode = "INOP"

LEMMA StatsInit == Init => StatsOK /\ RedirectsAlone
BY DEF Init, StatsOK, RedirectsAlone, Empty, bubble_if_id, bubble_id_ex, bubble_ex_mem, bubble_mem_wb,
       PIP, BUB

LEMMA StatsNext == StatsOK /\ Cycle => StatsOK'
<1> SUFFICES ASSUME StatsOK, Cycle PROVE StatsOK'
  OBVIOUS
<1>1. f_next.stat # PIP /\ f_next.stat # BUB
  BY DEF f_next, f_stat, PIP, BUB, ADR, INS, HLT, AOK
<1>2. d_next.stat = D.stat /\ d_next.icode = D.icode /\ e_next.stat = E.stat /\ m_next.stat \in {ADR, M.stat}
  BY DEF d_next, e_next, m_next, m_stat
<1>3. BUB # PIP /\ ADR # PIP
  BY DEF BUB, PIP, ADR
<1>4. /\ bubble_if_id.stat = BUB /\ bubble_id_ex.stat = BUB /\ bubble_ex_mem.stat = BUB
      /\ bubble_if_id.icode = "INOP" /\ bubble_id_ex.icode = "INOP"
  BY DEF bubble_if_id, bubble_id_ex, bubble_ex_mem
<1> QED BY <1>1, <1>2, <1>3, <1>4, Latched DEF StatsOK

\* A return in D, E or M keeps what is fetched behind it from D, since it is not a load; what it
\* leaves behind are bubbles that move with it.
LEMMA RedirectsNext == StatsOK /\ RedirectsAlone /\ Cycle => RedirectsAlone'
<1> SUFFICES ASSUME StatsOK, RedirectsAlone, Cycle PROVE RedirectsAlone'
  OBVIOUS
<1>1. /\ bubble_if_id.stat = BUB /\ bubble_id_ex.stat = BUB /\ bubble_ex_mem.stat = BUB
      /\ bubble_if_id.icode = "INOP" /\ bubble_id_ex.icode = "INOP" /\ bubble_ex_mem.icode = "INOP"
  BY DEF bubble_if_id, bubble_id_ex, bubble_ex_mem
<1>2. /\ d_next.stat = D.stat /\ d_next.icode = D.icode
      /\ e_next.stat = E.stat /\ e_next.icode = E.icode /\ e_next.Cnd = e_Cnd
      /\ m_next.icode = M.icode
  BY DEF d_next, e_next, m_next
<1>4. ASSUME E'.icode = "IRET" PROVE D'.stat = BUB
  <2>1. ~E_bubble /\ D.icode = "IRET"
    BY <1>1, <1>2, <1>4, Latched
  <2>2. ~D_stall /\ D_bubble
    BY <2>1 DEF E_bubble, D_stall, D_bubble, Returning
  <2> QED BY <1>1, <2>2, Latched
<1>5. ASSUME M'.icode = "IRET" PROVE D'.stat = BUB /\ E'.stat = BUB
  <2>1. E.icode = "IRET"
    BY <1>1, <1>2, <1>5, Latched
  <2>2. ~D_stall /\ D_bubble /\ D.stat = BUB
    BY <2>1 DEF D_stall, D_bubble, LoadUse, Returning, RedirectsAlone, Empty
  <2> QED BY <1>1, <1>2, <2>2, Latched
<1>6. ASSUME W'.icode = "IRET" PROVE D'.stat = BUB /\ E'.stat = BUB /\ M'.stat = BUB
  <2>1. ~W_stall
    BY DEF Cycle, Running, W_stall, Stopped, Excepting
  <2>2. M.icode = "IRET"
    BY <1>2, <1>6, <2>1, Latched
  <2>3. D.stat = BUB /\ E.stat = BUB /\ E.icode = "INOP"
    BY <2>2 DEF RedirectsAlone, Empty, StatsOK
  <2>4. ~D_stall /\ D_bubble
    BY <2>2, <2>3 DEF D_stall, D_bubble, LoadUse, Returning
  <2> QED BY <1>1, <1>2, <2>3, <2>4, Latched
<1>7. ASSUME M'.icode = "IJXX", ~M'.Cnd PROVE D'.stat = BUB /\ E'.stat = BUB
  <2>1. E.icode = "IJXX" /\ ~e_Cnd
    BY <1>1, <1>2, <1>7, Latched
  <2>2. ~D_stall /\ D_bubble /\ E_bubble
    BY <2>1 DEF D_stall, D_bubble, E_bubble, LoadUse, Mispredicted
  <2> QED BY <1>1, <2>2, Latched
<1> QED BY <1>4, <1>5, <1>6, <1>7 DEF RedirectsAlone, Empty

\* Load, which only makes an instruction known, leaves the pipeline registers alone.
LEMMA LoadKeeps == Load \/ UNCHANGED vars => UNCHANGED <<D, E, M, W>>
BY DEF Load, vars

\* A ret and a mispredicted branch have nothing behind them, whatever instructions meet.
THEOREM RedirectsAloneHolds == Spec => []RedirectsAlone
<1>1. Init => StatsOK /\ RedirectsAlone
  BY StatsInit
<1>2. StatsOK /\ RedirectsAlone /\ [Next]_vars => (StatsOK /\ RedirectsAlone)'
  <2> SUFFICES ASSUME StatsOK, RedirectsAlone, [Next]_vars PROVE (StatsOK /\ RedirectsAlone)'
    OBVIOUS
  <2>1. CASE Cycle
    BY <2>1, StatsNext, RedirectsNext
  <2>2. CASE Load \/ UNCHANGED vars
    BY <2>2, LoadKeeps DEF StatsOK, RedirectsAlone, Empty
  <2> QED BY <2>1, <2>2 DEF Next
<1> QED BY <1>1, <1>2, PTL DEF Spec

\* No pipeline register is ever told to stall and to take a bubble.
THEOREM NoConflictHolds == Spec => []NoConflict
<1>1. Init => StatsOK
  BY StatsInit
<1>2. StatsOK /\ [Next]_vars => StatsOK'
  <2> SUFFICES ASSUME StatsOK, [Next]_vars PROVE StatsOK'
    OBVIOUS
  <2>1. CASE Cycle
    BY <2>1, StatsNext
  <2>2. CASE Load \/ UNCHANGED vars
    BY <2>2, LoadKeeps DEF StatsOK
  <2> QED BY <2>1, <2>2 DEF Next
<1>3. StatsOK => NoConflict
  BY NeverBoth DEF StatsOK, NoConflict
<1> QED BY <1>1, <1>2, <1>3, PTL DEF Spec

----------------------------------------------------------------------------
(* Types: every signal is a word, a register id or none, or an instruction code. *)

Ids == Regs \cup {RNONE}

LEMMA Small == 0 \in Words /\ 1 \in Words /\ -1 \in Words
BY Y86Assumption DEF Words

LEMMA Step1 == ASSUME NEW a \in Words PROVE Wrap(a + 1) \in Words
BY Small, WrapSum

LEMMA SetReg == ASSUME NEW r \in [Regs -> Words], NEW id \in Ids, NEW v \in Words
                PROVE  set_reg_val(r, id, v) \in [Regs -> Words]
BY DEF set_reg_val, Ids

LEMMA GetReg == ASSUME NEW r \in [Regs -> Words], NEW id \in Ids
                PROVE  get_reg_val(r, id) \in Words
BY Small DEF get_reg_val, Ids

LEMMA MemoryTypes ==
  ASSUME TypeOK
  PROVE  /\ m_valM \in Words /\ m_stat \in {ADR, M.stat} /\ m_next.valE \in Words /\ m_next.valM \in Words
         /\ m_next.dstE \in Ids /\ m_next.dstM \in Ids /\ m_next.pc \in Words
         /\ m_next.icode = M.icode /\ m_next.stat = m_stat
<1>1. M.valE \in Words /\ M.dstE \in Ids /\ M.dstM \in Ids /\ M.pc \in Words /\ mem \in [Data -> Words]
  BY DEF TypeOK, OperandsOK, Ids
<1>2. m_valM \in Words
  BY <1>1, Small DEF m_valM, get_word_val
<1> QED BY <1>1, <1>2 DEF m_next, m_stat

LEMMA ExecuteTypes ==
  ASSUME TypeOK
  PROVE  /\ aluA \in Words /\ aluB \in Words /\ e_valE \in Words
         /\ e_next.valE \in Words /\ e_next.valA \in Words /\ e_next.dstE \in Ids /\ e_next.dstM \in Ids
         /\ e_next.pc \in Words /\ e_next.icode = E.icode /\ e_next.stat = E.stat /\ e_dstE \in Ids
<1>1. /\ E.valA \in Words /\ E.valB \in Words /\ E.valC \in Words /\ E.pc \in Words
      /\ E.dstE \in Ids /\ E.dstM \in Ids
  BY DEF TypeOK, OperandsOK, Ids
<1>2. aluA \in Words
  BY <1>1, Small DEF aluA
<1>3. aluB \in Words
  BY <1>1, Small DEF aluB
<1>4. e_valE \in Words
  BY <1>2, <1>3, AluWord DEF e_valE
<1>5. e_valA \in Words
  BY <1>1, MemoryTypes DEF e_valA
<1>6. e_dstE \in Ids
  BY <1>1 DEF e_dstE, Ids
<1> QED BY <1>1, <1>2, <1>3, <1>4, <1>5, <1>6 DEF e_next

LEMMA ForwardTypes == ASSUME TypeOK, NEW src \in Ids PROVE Forward(src) \in Words
<1>1. M.valE \in Words /\ W.valE \in Words /\ W.valM \in Words /\ reg \in [Regs -> Words]
  BY DEF TypeOK, OperandsOK
<1> QED BY <1>1, ExecuteTypes, MemoryTypes, GetReg DEF Forward

LEMMA DecodeTypes ==
  ASSUME TypeOK
  PROVE  /\ d_next.valA \in Words /\ d_next.valB \in Words /\ d_next.valC \in Words /\ d_next.pc \in Words
         /\ d_next.srcA \in Ids /\ d_next.srcB \in Ids /\ d_next.dstE \in Ids /\ d_next.dstM \in Ids
         /\ d_next.icode = D.icode /\ d_next.stat = D.stat
<1>1. D.rA \in Ids /\ D.rB \in Ids /\ D.valC \in Words /\ D.valP \in Words /\ D.pc \in Words
  BY DEF TypeOK, OperandsOK, Ids
<1>2. "rsp" \in Ids /\ RNONE \in Ids
  BY DEF Ids, Regs
<1>3. d_srcA \in Ids
  BY <1>1, <1>2 DEF d_srcA
<1>4. d_srcB \in Ids
  BY <1>1, <1>2 DEF d_srcB
<1>5. d_dstE \in Ids
  BY <1>1, <1>2 DEF d_dstE
<1>6. d_dstM \in Ids
  BY <1>1, <1>2 DEF d_dstM
<1>7. d_valA \in Words /\ d_valB \in Words
  BY <1>1, <1>3, <1>4, ForwardTypes DEF d_valA, d_valB
<1> QED BY <1>1, <1>3, <1>4, <1>5, <1>6, <1>7 DEF d_next

LEMMA FetchTypes ==
  ASSUME TypeOK, Loaded
  PROVE  /\ f_next.rA \in Ids /\ f_next.rB \in Ids /\ f_next.valC \in Words /\ f_next.valP \in Words
         /\ f_next.pc \in Words /\ f_next.icode \in AllIcodes /\ f_next.stat \in {AOK} \cup Excepting
         /\ f_predPC \in Words
<1>1. M.valA \in Words /\ W.valM \in Words /\ F \in Words /\ code \in [Text -> Instr \cup {NotYet}]
  BY DEF TypeOK, OperandsOK
<1>2. f_pc \in Words
  BY <1>1 DEF f_pc
<1>3. ~imem_error => imem \in Instr
  BY <1>1 DEF imem_error, imem, Loaded
<1>4. ~imem_error => imem.rA \in Ids /\ imem.rB \in Ids /\ imem.valC \in Words /\ imem.icode \in AllIcodes
  BY <1>3 DEF Instr, Ids
<1>5. "INOP" \in AllIcodes
  BY DEF AllIcodes, Icodes
<1>6. f_icode \in AllIcodes
  BY <1>4, <1>5 DEF f_icode
<1>7. need_regids \/ need_valC => ~imem_error
  BY DEF need_regids, need_valC, f_icode
<1>8. f_valC \in Words
  BY <1>4, <1>7, Small DEF f_valC
<1>9. f_valP \in Words
  BY <1>2, Step1 DEF f_valP
<1>10. f_predPC \in Words
  BY <1>8, <1>9 DEF f_predPC
<1>11. RNONE \in Ids
  BY DEF Ids
<1>12. f_stat \in {AOK} \cup Excepting
  BY DEF f_stat, Excepting
<1> QED BY <1>2, <1>4, <1>6, <1>7, <1>8, <1>9, <1>10, <1>11, <1>12 DEF f_next

StatusesOK == \A s \in {D, E, M, W} : s.icode \in AllIcodes /\ s.stat \in {AOK, BUB, PIP} \cup Excepting

LEMMA StageStatus == (\A s \in {D, E, M, W} : StageOK(s)) <=> StatusesOK
BY DEF StageOK, Stages, StatusesOK

LEMMA TypeInit == Init => TypeOK
<1> SUFFICES ASSUME Init PROVE TypeOK
  OBVIOUS
<1>1. code \in [Text -> Instr \cup {NotYet}] /\ mem \in [Data -> Words] /\ reg \in [Regs -> Words]
  BY Y86Assumption, Small DEF Init
<1>2. cc \in Flags
  BY DEF Init, DEFAULT_CC, Flags
<1>3. StatusesOK
  BY DEF Init, StatusesOK, AllIcodes, Icodes, bubble_if_id, bubble_id_ex, bubble_ex_mem, bubble_mem_wb
<1>4. OperandsOK
  BY Small DEF Init, OperandsOK, bubble_if_id, bubble_id_ex, bubble_ex_mem, bubble_mem_wb
<1> QED BY <1>1, <1>2, <1>3, <1>4, StageStatus DEF TypeOK

LEMMA TypeCycle == TypeOK /\ Cycle => TypeOK'
<1> SUFFICES ASSUME TypeOK, Cycle PROVE TypeOK'
  OBVIOUS
<1>1. code' \in [Text -> Instr \cup {NotYet}]
  BY DEF TypeOK, Cycle
<1>2. reg' \in [Regs -> Words]
  <2>1. /\ reg \in [Regs -> Words] /\ W.valE \in Words /\ W.valM \in Words
        /\ W.dstE \in Ids /\ W.dstM \in Ids
    BY DEF TypeOK, OperandsOK, Ids
  <2>2. reg' = set_reg_val(set_reg_val(reg, W.dstE, W.valE), W.dstM, W.valM)
    BY DEF Cycle, Update_state
  <2> QED BY <2>1, <2>2, SetReg
<1>3. mem' \in [Data -> Words]
  <2>1. mem \in [Data -> Words] /\ M.valA \in Words
    BY DEF TypeOK, OperandsOK
  <2>2. mem' = IF mem_write THEN set_word_val(mem, mem_addr, M.valA) ELSE mem
    BY DEF Cycle, Update_state
  <2> QED BY <2>1, <2>2 DEF set_word_val
<1>4. cc' \in Flags
  BY CcFlags DEF TypeOK, Cycle, Update_state
<1>5. F' \in Words
  <2>1. F \in Words /\ Loaded
    BY DEF TypeOK, OperandsOK, Cycle
  <2> QED BY <2>1, FetchTypes DEF Cycle, Update_pipes
<1>6. /\ D'.rA \in Ids /\ D'.rB \in Ids /\ D'.valC \in Words /\ D'.valP \in Words /\ D'.pc \in Words
      /\ D'.icode \in AllIcodes /\ D'.stat \in {AOK, BUB, PIP} \cup Excepting
  <2>1. /\ D.rA \in Ids /\ D.rB \in Ids /\ D.valC \in Words /\ D.valP \in Words /\ D.pc \in Words
        /\ D.icode \in AllIcodes /\ D.stat \in {AOK, BUB, PIP} \cup Excepting
    BY StageStatus DEF TypeOK, OperandsOK, StatusesOK, Ids
  <2>2. CASE D' = D
    BY <2>1, <2>2
  <2>3. CASE D' = bubble_if_id
    BY <2>3, Small DEF bubble_if_id, Ids, AllIcodes, Icodes
  <2>4. CASE D' = f_next
    BY <2>4, FetchTypes DEF Cycle
  <2> QED BY <2>2, <2>3, <2>4, Latched
<1>7. /\ E'.valA \in Words /\ E'.valB \in Words /\ E'.valC \in Words /\ E'.pc \in Words
      /\ E'.srcA \in Ids /\ E'.srcB \in Ids /\ E'.dstE \in Ids /\ E'.dstM \in Ids
      /\ E'.icode \in AllIcodes /\ E'.stat \in {AOK, BUB, PIP} \cup Excepting
  <2>1. CASE E' = bubble_id_ex
    BY <2>1, Small DEF bubble_id_ex, Ids, AllIcodes, Icodes
  <2>2. CASE E' = d_next
    <3>1. D.icode \in AllIcodes /\ D.stat \in {AOK, BUB, PIP} \cup Excepting
      BY StageStatus DEF TypeOK, StatusesOK
    <3> QED BY <2>2, <3>1, DecodeTypes
  <2> QED BY <2>1, <2>2, Latched
<1>8. /\ M'.valA \in Words /\ M'.valE \in Words /\ M'.pc \in Words /\ M'.dstE \in Ids /\ M'.dstM \in Ids
      /\ M'.icode \in AllIcodes /\ M'.stat \in {AOK, BUB, PIP} \cup Excepting
  <2>1. CASE M' = bubble_ex_mem
    BY <2>1, Small DEF bubble_ex_mem, Ids, AllIcodes, Icodes
  <2>2. CASE M' = e_next
    <3>1. E.icode \in AllIcodes /\ E.stat \in {AOK, BUB, PIP} \cup Excepting
      BY StageStatus DEF TypeOK, StatusesOK
    <3> QED BY <2>2, <3>1, ExecuteTypes
  <2> QED BY <2>1, <2>2, Latched
<1>9. /\ W'.valE \in Words /\ W'.valM \in Words /\ W'.pc \in Words /\ W'.dstE \in Ids /\ W'.dstM \in Ids
      /\ W'.icode \in AllIcodes /\ W'.stat \in {AOK, BUB, PIP} \cup Excepting
  <2>1. CASE W' = W
    BY <2>1, StageStatus DEF TypeOK, OperandsOK, StatusesOK, Ids
  <2>2. CASE W' = m_next
    <3>1. M.icode \in AllIcodes /\ m_stat \in {AOK, BUB, PIP} \cup Excepting
      BY StageStatus, MemoryTypes DEF TypeOK, StatusesOK, Excepting
    <3> QED BY <2>2, <3>1, MemoryTypes
  <2> QED BY <2>1, <2>2, Latched
<1>10. StatusesOK'
  BY <1>6, <1>7, <1>8, <1>9 DEF StatusesOK
<1>11. OperandsOK'
  BY <1>5, <1>6, <1>7, <1>8, <1>9 DEF OperandsOK, Ids
<1>12. (\A s \in {D, E, M, W} : StageOK(s))'
  BY <1>10 DEF StageOK, Stages, StatusesOK
<1> QED BY <1>1, <1>2, <1>3, <1>4, <1>11, <1>12 DEF TypeOK

LEMMA TypeNext == TypeOK /\ [Next]_vars => TypeOK'
<1> SUFFICES ASSUME TypeOK, [Next]_vars PROVE TypeOK'
  OBVIOUS
<1>1. CASE Cycle
  BY <1>1, TypeCycle
<1>2. CASE Load
  <2>1. code' \in [Text -> Instr \cup {NotYet}]
    BY <1>2, Y86Assumption DEF TypeOK, Load
  <2> QED BY <1>2, <2>1 DEF TypeOK, Load, StageOK, OperandsOK
<1>3. CASE UNCHANGED vars
  BY <1>3 DEF TypeOK, vars, StageOK, OperandsOK
<1> QED BY <1>1, <1>2, <1>3 DEF Next

\* Every value fits a word and every register id exists.
THEOREM TypeCorrect == Spec => []TypeOK
<1> QED BY TypeInit, TypeNext, PTL DEF Spec

\* The condition codes mean the exact result, for words of any width.
THEOREM CodesExactHolds == Spec => CodesExact
<1> DEFINE A == Cycle /\ set_cc /\ alufun \in {A_ADD, A_SUB} =>
                  /\ cc'.of <=> Exact \notin Words
                  /\ cond_holds(cc', C_L) <=> Exact < 0
                  /\ cond_holds(cc', C_LE) <=> Exact <= 0
<1>1. TypeOK => A
  <2> SUFFICES ASSUME TypeOK, Cycle, set_cc, alufun \in {A_ADD, A_SUB}
               PROVE  /\ cc'.of <=> Exact \notin Words
                      /\ cond_holds(cc', C_L) <=> Exact < 0
                      /\ cond_holds(cc', C_LE) <=> Exact <= 0
    OBVIOUS
  <2>1. aluA \in Words /\ aluB \in Words
    BY ExecuteTypes
  <2>2. cc' = compute_cc(alufun, aluA, aluB)
    BY DEF Cycle, Update_state
  <2>3. CASE alufun = A_ADD
    <3>1. Exact = aluA + aluB
      BY <2>3 DEF Exact, A_ADD, A_SUB
    <3> QED BY <2>1, <2>2, <2>3, <3>1, AddCodes
  <2>4. CASE alufun = A_SUB
    <3>1. Exact = aluB - aluA
      BY <2>4 DEF Exact
    <3> QED BY <2>1, <2>2, <2>4, <3>1, SubCodes
  <2> QED BY <2>3, <2>4
<1> QED BY <1>1, TypeInit, TypeNext, PTL DEF Spec, CodesExact

----------------------------------------------------------------------------
(* The pipeline against the instruction set.  A program is well-formed if its instructions name the  *)
(* registers that their operations read and write, as yas makes them do (get_reg), except that it    *)
(* also takes an address without a base register: then a load or a store may be given a value        *)
(* that is forwarded to no register, as the run pipe_absolute shows.                                 *)

NeedsA == {"IRRMOVQ", "IRMMOVQ", "IMRMOVQ", "IOPQ", "IPUSHQ", "IPOPQ"}
NeedsB == {"IRRMOVQ", "IIRMOVQ", "IRMMOVQ", "IMRMOVQ", "IOPQ", "IIADDQ"}
NeedsC == {"IIRMOVQ", "IRMMOVQ", "IMRMOVQ", "IJXX", "ICALL", "IIADDQ"}
Named(i) == /\ i.icode \in NeedsA => i.rA \in Regs
            /\ i.icode \in NeedsB => i.rB \in Regs
WellFormed == /\ \A i \in Instrs : Named(i)
              /\ \A a \in Text : Image[a] # NotYet => Named(Image[a])

\* What the stages make of the instruction at a, and the address that the fetch goes on from.
Icode(a) == IF a \in Text THEN code[a].icode ELSE "INOP"
StatOf(a) == IF a \notin Text THEN ADR ELSE IF Icode(a) \notin Icodes THEN INS
             ELSE IF Icode(a) = "IHALT" THEN HLT ELSE AOK
SrcA(a) == CASE Icode(a) \in {"IRRMOVQ", "IRMMOVQ", "IOPQ", "IPUSHQ"} -> code[a].rA
             [] Icode(a) \in {"IPOPQ", "IRET"} -> "rsp"
             [] OTHER -> RNONE
SrcB(a) == CASE Icode(a) \in {"IOPQ", "IRMMOVQ", "IMRMOVQ", "IIADDQ"} -> code[a].rB
             [] Icode(a) \in {"IPUSHQ", "IPOPQ", "ICALL", "IRET"} -> "rsp"
             [] OTHER -> RNONE
DstE(a) == CASE Icode(a) \in {"IRRMOVQ", "IIRMOVQ", "IOPQ", "IIADDQ"} -> code[a].rB
             [] Icode(a) \in {"IPUSHQ", "IPOPQ", "ICALL", "IRET"} -> "rsp"
             [] OTHER -> RNONE
DstM(a) == IF Icode(a) \in {"IMRMOVQ", "IPOPQ"} THEN code[a].rA ELSE RNONE
Pred(a) == IF Icode(a) \in {"IJXX", "ICALL"} THEN code[a].valC ELSE Wrap(a + 1)

\* D and E hold the instructions that the text has at their pcs, and what comes behind an
\* instruction is the one that is predicted to follow it.
Known(s) == /\ s.pc \in Text => code[s.pc] # NotYet /\ s.ifun = code[s.pc].ifun
            /\ s.icode = Icode(s.pc) /\ s.stat = StatOf(s.pc)
            /\ s.icode \in NeedsC => s.valC = code[s.pc].valC
HeldInD == D.stat # BUB =>
             /\ Known(D) /\ D.valP = Wrap(D.pc + 1)
             /\ D.icode \in NeedsA => D.rA = code[D.pc].rA
             /\ D.icode \in NeedsB => D.rB = code[D.pc].rB
HeldInE == /\ E.stat # BUB =>
                /\ Known(E)
                /\ E.srcA = SrcA(E.pc) /\ E.srcB = SrcB(E.pc) /\ E.dstE = DstE(E.pc) /\ E.dstM = DstM(E.pc)
                /\ E.icode \in {"ICALL", "IJXX"} => E.valA = Wrap(E.pc + 1)
           /\ E.stat = BUB => E.dstE = RNONE /\ E.dstM = RNONE
Follows == /\ D.stat # BUB => F = Pred(D.pc)
           /\ E.stat # BUB => IF D.stat # BUB THEN D.pc = Pred(E.pc) ELSE E.icode = "IRET"

\* The instruction in E has the operands that it would have if those ahead of it had finished.
Operands == isa_stat = AOK /\ E.stat # BUB =>
              /\ E.srcA \in Regs => e_valA = isa_reg[E.srcA]
              /\ E.srcB \in Regs => E.valB = isa_reg[E.srcB]

TextOK == \A a \in Text : code[a] # NotYet => Named(code[a])
IInv == TypeOK /\ StatsOK /\ RedirectsAlone /\ TextOK /\ HeldInD /\ HeldInE /\ Follows /\ Operands

LEMMA SameOperators ==
  /\ I!Regs = Regs /\ I!Icodes = Icodes
  /\ I!AOK = AOK /\ I!ADR = ADR /\ I!HLT = HLT /\ I!INS = INS /\ I!A_ADD = A_ADD
  /\ I!DEFAULT_CC = DEFAULT_CC
  /\ \A x : I!Wrap(x) = Wrap(x)
  /\ \A c, f : I!cond_holds(c, f) = cond_holds(c, f)
  /\ \A f, a, b : I!compute_alu(f, a, b) = compute_alu(f, a, b)
  /\ \A f, a, b : I!compute_cc(f, a, b) = compute_cc(f, a, b)
  /\ \A r, id : I!get_reg_val(r, id) = get_reg_val(r, id)
  /\ \A r, id, v : I!set_reg_val(r, id, v) = set_reg_val(r, id, v)
<1>1. I!Regs = Regs /\ I!Icodes = Icodes
  BY DEF I!Regs, Regs, I!Icodes, Icodes
<1>2. I!AOK = AOK /\ I!ADR = ADR /\ I!HLT = HLT /\ I!INS = INS
  BY DEF I!AOK, AOK, I!ADR, ADR, I!HLT, HLT, I!INS, INS
<1>3. I!DEFAULT_CC = DEFAULT_CC
  BY DEF I!DEFAULT_CC, DEFAULT_CC
<1>4. \A x : I!Wrap(x) = Wrap(x)
  BY DEF I!Wrap, Wrap
<1>5. I!A_ADD = A_ADD /\ I!A_SUB = A_SUB /\ I!A_AND = A_AND /\ I!A_XOR = A_XOR
  BY DEF I!A_ADD, A_ADD, I!A_SUB, A_SUB, I!A_AND, A_AND, I!A_XOR, A_XOR
<1>6. \A f, a, b : I!compute_alu(f, a, b) = compute_alu(f, a, b)
  BY <1>4, <1>5 DEF I!compute_alu, compute_alu
<1>7. \A f, a, b : I!compute_cc(f, a, b) = compute_cc(f, a, b)
  <2> TAKE f, a, b
  <2> QED BY <1>5, <1>6, Zenon DEF I!compute_cc, compute_cc
<1>8. \A c, f : I!cond_holds(c, f) = cond_holds(c, f)
  BY DEF I!cond_holds, cond_holds, I!C_YES, C_YES, I!C_LE, C_LE, I!C_L, C_L, I!C_E, C_E,
         I!C_NE, C_NE, I!C_GE, C_GE, I!C_G, C_G
<1>9. \A r, id : I!get_reg_val(r, id) = get_reg_val(r, id)
  BY DEF I!get_reg_val, get_reg_val
<1>10. \A r, id, v : I!set_reg_val(r, id, v) = set_reg_val(r, id, v)
  BY DEF I!set_reg_val, set_reg_val
<1> QED BY <1>1, <1>2, <1>3, <1>4, <1>5, <1>6, <1>7, <1>8, <1>9, <1>10

----------------------------------------------------------------------------
(* What a cycle does to the state that the instruction set sees. *)

\* A processor that runs has not been stopped in W; a fault of the instruction in M stops it.
LEMMA Live ==
  ASSUME TypeOK, StatsOK, Cycle
  PROVE  /\ W.stat \in {AOK, BUB} /\ W' = m_next
         /\ m_stat \in {AOK, BUB} \cup Excepting /\ (m_stat \in Stopped <=> m_stat \in Excepting)
         /\ isa_stat = IF m_stat \in Excepting THEN m_stat ELSE AOK
         /\ M' = IF m_stat \in Excepting THEN bubble_ex_mem ELSE e_next
         /\ set_cc <=> E.icode \in {"IOPQ", "IIADDQ"} /\ m_stat \notin Excepting
<1>1. W.stat \in {AOK, BUB} /\ M.stat \in {AOK, BUB} \cup Excepting
  BY StageStatus DEF TypeOK, StatusesOK, StatsOK, Cycle, Running, Stopped, Excepting
<1>2. m_stat \in {AOK, BUB} \cup Excepting
  BY <1>1 DEF m_stat, Excepting
<1>3. W.stat \notin Excepting /\ W.stat \notin Stopped
  BY <1>1 DEF Excepting, Stopped, AOK, BUB, ADR, INS, HLT, PIP
<1>4. m_stat \in Stopped <=> m_stat \in Excepting
  BY <1>2 DEF Excepting, Stopped, AOK, BUB, ADR, INS, HLT, PIP
<1>5. W' = m_next
  BY <1>3, Latched DEF W_stall
<1>6. M' = IF m_stat \in Excepting THEN bubble_ex_mem ELSE e_next
  BY <1>3, Latched DEF M_bubble
<1>7. isa_stat = IF m_stat \in Excepting THEN m_stat ELSE AOK
  BY <1>3, <1>4 DEF isa_stat
<1>8. set_cc <=> E.icode \in {"IOPQ", "IIADDQ"} /\ m_stat \notin Excepting
  BY <1>3 DEF set_cc
<1> QED BY <1>1, <1>2, <1>4, <1>5, <1>6, <1>7, <1>8

\* The write-back of W and the memory stage of M are steps the instruction set has taken before.
LEMMA Commits ==
  ASSUME TypeOK, StatsOK, Cycle
  PROVE  /\ mem' = isa_mem
         /\ isa_reg' = Written(isa_reg, M'.icode, m_stat', M'.dstE, M'.valE, M'.dstM, m_valM')
         /\ isa_mem' = IF mem_write' THEN set_word_val(isa_mem, mem_addr', M'.valA) ELSE isa_mem
<1>1. mem' = isa_mem
  BY DEF Cycle, Update_state, isa_mem
<1>2. reg' = AfterW
  <2>1. reg' = set_reg_val(set_reg_val(reg, W.dstE, W.valE), W.dstM, W.valM)
    BY DEF Cycle, Update_state
  <2> QED BY <2>1, Live DEF AfterW, Written, AOK, BUB, ADR
<1>3. AfterW' = isa_reg
  <2>1. AfterW' = Written(reg', W'.icode, W'.stat, W'.dstE, W'.valE, W'.dstM, W'.valM)
    BY DEF AfterW
  <2>2. /\ W'.icode = M.icode /\ W'.stat = m_stat /\ W'.dstE = M.dstE /\ W'.valE = M.valE
        /\ W'.dstM = M.dstM /\ W'.valM = m_valM
    BY Live DEF m_next
  <2> QED BY <1>2, <2>1, <2>2 DEF isa_reg
<1>4. isa_reg' = Written(AfterW', M'.icode, m_stat', M'.dstE, M'.valE, M'.dstM, m_valM')
  BY DEF isa_reg
<1>5. isa_mem' = IF mem_write' THEN set_word_val(mem', mem_addr', M'.valA) ELSE mem'
  BY DEF isa_mem
<1> QED BY <1>1, <1>3, <1>4, <1>5

\* An instruction that neither accesses memory nor writes registers.
LEMMA NoTrace ==
  ASSUME TypeOK, StatsOK, Cycle, M'.dstE = RNONE, M'.dstM = RNONE,
         M'.icode \notin {"IRMMOVQ", "IPUSHQ", "ICALL", "IMRMOVQ", "IPOPQ", "IRET"}
  PROVE  m_stat' = M'.stat /\ isa_reg' = isa_reg /\ isa_mem' = isa_mem
<1>1. ~mem_write' /\ ~mem_read'
  BY DEF mem_write, mem_read
<1>2. m_stat' = M'.stat
  BY <1>1 DEF m_stat, dmem_error
<1>3. isa_reg' = isa_reg
  BY Commits DEF Written, set_reg_val
<1> QED BY <1>1, <1>2, <1>3, Commits

\* A fault in M stops everything behind it.
LEMMA StopsBehind ==
  ASSUME TypeOK, StatsOK, Cycle, m_stat \in Excepting
  PROVE  UNCHANGED <<isa_pc, isa_reg, isa_mem, cc, isa_stat>>
<1>1. /\ M'.stat = BUB /\ M'.dstE = RNONE /\ M'.dstM = RNONE /\ M'.icode = "INOP"
  BY Live DEF bubble_ex_mem
<1>2. m_stat' = BUB /\ isa_reg' = isa_reg /\ isa_mem' = isa_mem
  BY <1>1, NoTrace
<1>3. W'.stat = m_stat /\ W'.pc = M.pc
  BY Live DEF m_next
<1>4. m_stat \in Stopped /\ W.stat \notin Stopped /\ isa_stat = m_stat
  BY Live DEF Cycle, Running
<1>5. isa_stat' = isa_stat
  <2>1. isa_stat' = IF W'.stat \in Stopped THEN W'.stat ELSE IF m_stat' \in Stopped THEN m_stat' ELSE AOK
    BY DEF isa_stat, Stopped, AOK, HLT, ADR, INS, PIP
  <2> QED BY <1>3, <1>4, <2>1
<1>6. isa_pc = M.pc
  BY <1>4 DEF isa_pc, Stopped, AOK, HLT, ADR, INS, PIP
<1>7. isa_pc' = W'.pc
  <2>1. W'.stat \in Stopped
    BY <1>3, <1>4
  <2> QED BY <2>1, <1>5, <1>4 DEF isa_pc, Stopped, AOK, HLT, ADR, INS, PIP
<1>8. cc' = cc
  BY Live DEF Cycle, Update_state
<1> QED BY <1>2, <1>3, <1>5, <1>6, <1>7, <1>8

\* Which instruction is the next to execute.
LEMMA NextPc ==
  ASSUME TypeOK, StatsOK, Cycle, m_stat \notin Excepting
  PROVE  /\ isa_stat = AOK
         /\ isa_pc = IF E.stat # BUB THEN E.pc ELSE IF D.stat # BUB THEN D.pc
                     ELSE IF M.icode = "IRET" THEN m_valM ELSE f_pc
         /\ M' = e_next /\ W'.stat \in {AOK, BUB}
         /\ isa_stat' = IF m_stat' \in Stopped THEN m_stat' ELSE AOK
         /\ m_stat' \in Stopped => isa_pc' = M'.pc
         /\ m_stat' \notin Stopped =>
              isa_pc' = IF E'.stat # BUB THEN E'.pc ELSE IF D'.stat # BUB THEN D'.pc
                        ELSE IF M'.icode = "IRET" THEN m_valM' ELSE f_pc'
<1>1. /\ m_stat \notin Stopped /\ isa_stat = AOK /\ W.stat \notin Stopped /\ M' = e_next
      /\ W'.stat = m_stat /\ W'.stat \in {AOK, BUB}
  <2>1. W.stat \notin Stopped
    BY DEF Cycle, Running
  <2> QED BY <2>1, Live DEF m_next
<1>2. isa_pc = IF E.stat # BUB THEN E.pc ELSE IF D.stat # BUB THEN D.pc
               ELSE IF M.icode = "IRET" THEN m_valM ELSE f_pc
  BY <1>1 DEF isa_pc
<1>3. isa_stat' = IF W'.stat \in Stopped THEN W'.stat ELSE IF m_stat' \in Stopped THEN m_stat' ELSE AOK
  BY DEF isa_stat, Stopped, AOK, HLT, ADR, INS, PIP
<1>4. W'.stat \notin Stopped
  BY <1>1
<1>5. isa_stat' = IF m_stat' \in Stopped THEN m_stat' ELSE AOK
  BY <1>3, <1>4
<1>6. isa_pc' = CASE W'.stat \in Stopped -> W'.pc
            [] W'.stat \notin Stopped /\ m_stat' \in Stopped -> M'.pc
            [] isa_stat' = AOK /\ E'.stat # BUB -> E'.pc
            [] isa_stat' = AOK /\ E'.stat = BUB /\ D'.stat # BUB -> D'.pc
            [] isa_stat' = AOK /\ E'.stat = BUB /\ D'.stat = BUB /\ M'.icode = "IRET" -> m_valM'
            [] OTHER -> f_pc'
  BY Zenon DEF isa_pc, Stopped, AOK, HLT, ADR, INS, PIP, BUB
<1>7. AOK \notin Stopped
  BY DEF Stopped, AOK, HLT, ADR, INS, PIP
<1>8. m_stat' \in Stopped => isa_pc' = M'.pc
  BY <1>4, <1>5, <1>6, <1>7
<1>9. m_stat' \notin Stopped =>
              isa_pc' = IF E'.stat # BUB THEN E'.pc ELSE IF D'.stat # BUB THEN D'.pc
                        ELSE IF M'.icode = "IRET" THEN m_valM' ELSE f_pc'
  BY <1>4, <1>5, <1>6
<1> QED BY <1>1, <1>2, <1>5, <1>8, <1>9

\* Nothing in E: the instructions ahead move on and those behind catch up, and no more.
LEMMA NothingExecutes ==
  ASSUME IInv, Cycle, m_stat \notin Excepting, E.stat = BUB
  PROVE  UNCHANGED <<isa_pc, isa_reg, isa_mem, cc, isa_stat>>
<1>1. TypeOK /\ StatsOK /\ E.icode = "INOP" /\ E.dstE = RNONE /\ E.dstM = RNONE
  BY DEF IInv, StatsOK, HeldInE
<1>2. /\ M'.stat = BUB /\ M'.icode = "INOP" /\ M'.dstE = RNONE /\ M'.dstM = RNONE
  BY <1>1, NextPc DEF e_next, e_dstE
<1>3. m_stat' = BUB /\ isa_reg' = isa_reg /\ isa_mem' = isa_mem
  BY <1>1, <1>2, NoTrace
<1>4. BUB \notin Stopped
  BY DEF BUB, Stopped, HLT, ADR, INS, PIP
<1>5. isa_stat' = isa_stat
  BY <1>1, <1>3, <1>4, NextPc
<1>6. cc' = cc
  BY <1>1, Live DEF Cycle, Update_state
<1>7. isa_pc' = IF E'.stat # BUB THEN E'.pc ELSE IF D'.stat # BUB THEN D'.pc ELSE f_pc'
  BY <1>1, <1>2, <1>3, <1>4, NextPc
<1>8. isa_pc = IF D.stat # BUB THEN D.pc ELSE IF M.icode = "IRET" THEN m_valM ELSE f_pc
  BY <1>1, NextPc
<1>9. ~LoadUse /\ ~Mispredicted /\ E' = d_next /\ D' = IF Returning THEN bubble_if_id ELSE f_next
  BY <1>1, Latched DEF LoadUse, Mispredicted, E_bubble, D_bubble, D_stall
<1>10. E'.stat = D.stat /\ E'.pc = D.pc
  BY <1>9 DEF d_next
<1>11. isa_pc' = isa_pc
  <2>1. CASE D.stat # BUB
    BY <1>7, <1>8, <1>10, <2>1
  <2>2. CASE D.stat = BUB /\ M.icode = "IRET"
    <3>1. D'.stat = BUB
      BY <1>9, <2>2 DEF Returning, bubble_if_id
    <3>2. W'.icode = "IRET" /\ W'.valM = m_valM
      BY <1>1, <2>2, Live DEF m_next
    <3>3. f_pc' = m_valM
      BY <1>2, <3>2 DEF f_pc
    <3> QED BY <1>7, <1>8, <1>10, <2>2, <3>1, <3>3
  <2>3. CASE D.stat = BUB /\ M.icode # "IRET"
    <3>1. D' = f_next
      BY <1>1, <1>9, <2>3 DEF Returning, StatsOK
    <3>2. D'.stat # BUB /\ D'.pc = f_pc
      BY <3>1 DEF f_next, f_stat, BUB, ADR, INS, HLT, AOK
    <3> QED BY <1>7, <1>8, <1>10, <2>3, <3>2
  <2> QED BY <2>1, <2>2, <2>3
<1> QED BY <1>3, <1>5, <1>6, <1>11

\* The instruction that leaves E is followed by the one that the instruction set says comes next: the
\* predicted one, or what a mispredicted branch and a return lead to.
LEMMA FollowedBy ==
  ASSUME IInv, Cycle, m_stat \notin Excepting, E.stat # BUB, m_stat' \notin Stopped
  PROVE  isa_pc' = IF E.icode = "IRET" THEN m_valM'
                   ELSE IF Mispredicted THEN Wrap(E.pc + 1) ELSE Pred(E.pc)
<1>1. TypeOK /\ StatsOK /\ RedirectsAlone
  BY DEF IInv
<1>2. M'.icode = E.icode /\ M'.Cnd = e_Cnd /\ M'.valA = e_valA
  BY <1>1, NextPc DEF e_next
<1>3. isa_pc' = IF E'.stat # BUB THEN E'.pc ELSE IF D'.stat # BUB THEN D'.pc
                ELSE IF E.icode = "IRET" THEN m_valM' ELSE f_pc'
  BY <1>1, <1>2, NextPc
<1>4. bubble_if_id.stat = BUB /\ bubble_id_ex.stat = BUB /\ d_next.stat = D.stat /\ d_next.pc = D.pc
  BY DEF bubble_if_id, bubble_id_ex, d_next
<1>5. CASE E.icode = "IRET"
  <2>1. D.stat = BUB
    BY <1>1, <1>5 DEF RedirectsAlone, Empty
  <2>2. ~D_stall /\ ~E_bubble /\ D_bubble
    BY <1>5 DEF D_stall, E_bubble, D_bubble, LoadUse, Mispredicted, Returning
  <2>3. E'.stat = BUB /\ D'.stat = BUB
    BY <1>4, <2>1, <2>2, Latched
  <2> QED BY <1>3, <1>5, <2>3
<1>6. CASE Mispredicted
  <2>1. E.icode = "IJXX" /\ ~e_Cnd
    BY <1>6 DEF Mispredicted
  <2>2. ~D_stall /\ E_bubble /\ D_bubble
    BY <1>6, <2>1 DEF D_stall, E_bubble, D_bubble, LoadUse
  <2>3. E'.stat = BUB /\ D'.stat = BUB
    BY <1>4, <2>2, Latched
  <2>4. f_pc' = e_valA
    BY <1>2, <2>1 DEF f_pc
  <2>5. e_valA = Wrap(E.pc + 1)
    BY <2>1 DEF e_valA, IInv, HeldInE
  <2> QED BY <1>3, <1>6, <2>1, <2>3, <2>4, <2>5
<1>7. CASE E.icode # "IRET" /\ ~Mispredicted
  <2>1. D.stat # BUB /\ D.pc = Pred(E.pc)
    BY <1>7 DEF IInv, Follows
  <2>2. CASE LoadUse
    <3>1. E'.stat = BUB /\ D' = D
      BY <1>4, <2>2, Latched DEF D_stall, E_bubble
    <3> QED BY <1>3, <1>7, <2>1, <3>1
  <2>3. CASE ~LoadUse
    <3>1. E'.stat = D.stat /\ E'.pc = D.pc
      BY <1>4, <1>7, <2>3, Latched DEF E_bubble
    <3> QED BY <1>3, <1>7, <2>1, <3>1
  <2> QED BY <2>2, <2>3
<1> QED BY <1>5, <1>6, <1>7

----------------------------------------------------------------------------
(* The instruction in E leaves it: that is one step of the instruction set. *)

LEMMA WrittenTypes ==
  ASSUME NEW r \in [Regs -> Words], NEW icode, NEW s, NEW dstE \in Ids, NEW valE \in Words,
         NEW dstM \in Ids, NEW valM \in Words
  PROVE  Written(r, icode, s, dstE, valE, dstM, valM) \in [Regs -> Words]
<1>1. set_reg_val(r, dstE, valE) \in [Regs -> Words]
  BY SetReg
<1>2. set_reg_val(set_reg_val(r, dstE, valE), dstM, valM) \in [Regs -> Words]
  BY <1>1, SetReg
<1> QED BY <1>1, <1>2 DEF Written, AOK, BUB, ADR

LEMMA IsaTypes ==
  ASSUME TypeOK
  PROVE  isa_reg \in [Regs -> Words] /\ isa_mem \in [Data -> Words]
<1>1. /\ reg \in [Regs -> Words] /\ mem \in [Data -> Words]
      /\ W.dstE \in Ids /\ W.dstM \in Ids /\ W.valE \in Words /\ W.valM \in Words
      /\ M.dstE \in Ids /\ M.dstM \in Ids /\ M.valE \in Words /\ M.valA \in Words /\ m_valM \in Words
  BY MemoryTypes DEF TypeOK, OperandsOK, Ids
<1>2. AfterW \in [Regs -> Words]
  BY <1>1, WrittenTypes DEF AfterW
<1>3. isa_reg \in [Regs -> Words]
  BY <1>1, <1>2, WrittenTypes DEF isa_reg
<1>4. isa_mem \in [Data -> Words]
  BY <1>1 DEF isa_mem, set_word_val
<1> QED BY <1>3, <1>4

\* What the instruction in E is.
LEMMA InE ==
  ASSUME IInv, E.stat # BUB
  PROVE  /\ E.pc \in Words /\ E.icode = Icode(E.pc) /\ E.stat = StatOf(E.pc)
         /\ E.dstE = DstE(E.pc) /\ E.dstM = DstM(E.pc) /\ E.srcA = SrcA(E.pc) /\ E.srcB = SrcB(E.pc)
         /\ E.icode \in {"ICALL", "IJXX"} => E.valA = Wrap(E.pc + 1)
         /\ E.icode \in NeedsC => E.valC = code[E.pc].valC
         /\ E.pc \in Text => /\ code[E.pc] \in Instr /\ Named(code[E.pc]) /\ code[E.pc] # NotYet
                             /\ E.icode = code[E.pc].icode /\ E.ifun = code[E.pc].ifun
<1>1. Known(E) /\ E.pc \in Words /\ code \in [Text -> Instr \cup {NotYet}] /\ TextOK
  BY DEF IInv, HeldInE, TypeOK, OperandsOK
<1> QED BY <1>1 DEF IInv, HeldInE, Known, TextOK, Icode

reads == {"IMRMOVQ", "IPOPQ", "IRET"}
writes == {"IRMMOVQ", "IPUSHQ", "ICALL"}
\* The word that it accesses, and what it finds there.
address == IF E.icode \in {"IPOPQ", "IRET"} THEN e_valA ELSE e_valE
Invalid == E.icode \in reads \cup writes /\ address \notin Data
found == IF E.icode \in reads THEN isa_mem[address] ELSE 0

LEMMA Outcome ==
  ASSUME IInv, Cycle, m_stat \notin Excepting, E.stat = AOK
  PROVE  /\ isa_stat = AOK /\ isa_pc = E.pc /\ code' = code
         /\ cc' = IF E.icode \in {"IOPQ", "IIADDQ"} THEN compute_cc(alufun, aluA, aluB) ELSE cc
         /\ Invalid => /\ isa_stat' = ADR /\ isa_pc' = E.pc /\ isa_mem' = isa_mem
                       /\ isa_reg' = IF E.icode = "IRET" THEN isa_reg ELSE set_reg_val(isa_reg, e_dstE, e_valE)
         /\ ~Invalid => /\ isa_stat' = AOK
                        /\ isa_reg' = set_reg_val(set_reg_val(isa_reg, e_dstE, e_valE), E.dstM, found)
                        /\ isa_mem' = IF E.icode \in writes THEN [isa_mem EXCEPT ![address] = e_valA] ELSE isa_mem
                        /\ isa_pc' = IF E.icode = "IRET" THEN found
                                     ELSE IF Mispredicted THEN Wrap(E.pc + 1) ELSE Pred(E.pc)
<1>1. TypeOK /\ StatsOK
  BY DEF IInv
<1>2. E.stat # BUB
  BY DEF AOK, BUB
<1>3. /\ M'.stat = AOK /\ M'.icode = E.icode /\ M'.dstE = e_dstE /\ M'.dstM = E.dstM
      /\ M'.valE = e_valE /\ M'.valA = e_valA /\ M'.pc = E.pc
  BY <1>1, NextPc DEF e_next
<1>4. /\ mem_read' <=> E.icode \in reads
      /\ mem_write' <=> E.icode \in writes
      /\ E.icode \in reads \cup writes => mem_addr' = address
  BY <1>3 DEF mem_read, mem_write, mem_addr, address, reads, writes
<1>5. mem' = isa_mem /\ isa_mem \in [Data -> Words]
  BY <1>1, Commits, IsaTypes
<1>6. dmem_error' <=> Invalid
  BY <1>4 DEF dmem_error, Invalid
<1>7. m_stat' = IF Invalid THEN ADR ELSE AOK
  BY <1>3, <1>6 DEF m_stat
<1>8. ~Invalid => m_valM' = found
  BY <1>4, <1>5 DEF m_valM, found, get_word_val, Invalid
<1>9. isa_reg' = Written(isa_reg, E.icode, m_stat', e_dstE, e_valE, E.dstM, m_valM')
  BY <1>1, <1>3, Commits
<1>10. Invalid => isa_reg' = IF E.icode = "IRET" THEN isa_reg ELSE set_reg_val(isa_reg, e_dstE, e_valE)
  BY <1>7, <1>9 DEF Written, AOK, BUB, ADR
<1>11. ~Invalid => isa_reg' = set_reg_val(set_reg_val(isa_reg, e_dstE, e_valE), E.dstM, found)
  BY <1>7, <1>8, <1>9 DEF Written, AOK, BUB, ADR
<1>12. isa_mem' = IF E.icode \in writes THEN set_word_val(isa_mem, address, e_valA) ELSE isa_mem
  BY <1>1, <1>3, <1>4, Commits
<1>13. isa_mem' = IF E.icode \in writes /\ ~Invalid THEN [isa_mem EXCEPT ![address] = e_valA] ELSE isa_mem
  BY <1>12 DEF set_word_val, Invalid
<1>14. AOK \notin Stopped /\ ADR \in Stopped
  BY DEF Stopped, AOK, HLT, ADR, INS, PIP
<1>15. isa_stat = AOK /\ isa_pc = E.pc /\ isa_stat' = (IF Invalid THEN ADR ELSE AOK)
  BY <1>1, <1>2, <1>7, <1>14, NextPc
<1>16. Invalid => isa_pc' = E.pc
  BY <1>1, <1>3, <1>7, <1>14, NextPc
<1>17. ~Invalid => isa_pc' = IF E.icode = "IRET" THEN found
                             ELSE IF Mispredicted THEN Wrap(E.pc + 1) ELSE Pred(E.pc)
  BY <1>2, <1>7, <1>8, <1>14, FollowedBy
<1>18. code' = code /\ cc' = IF E.icode \in {"IOPQ", "IIADDQ"} THEN compute_cc(alufun, aluA, aluB) ELSE cc
  <2>1. code' = code /\ cc' = IF set_cc THEN compute_cc(alufun, aluA, aluB) ELSE cc
    BY DEF Cycle, Update_state
  <2> QED BY <1>1, <2>1, Live
<1> QED BY <1>10, <1>11, <1>13, <1>15, <1>16, <1>17, <1>18

\* An instruction that was not fetched, is none, or is halt.
LEMMA StopInstructions ==
  ASSUME IInv, Cycle, m_stat \notin Excepting, E.stat \in Excepting
  PROVE  I!step_state
<1>1. TypeOK /\ StatsOK /\ E.stat # BUB
  BY DEF IInv, Excepting, BUB, ADR, INS, HLT
<1>2. E.icode \in {"INOP", "IHALT", "IPOP2"} /\ (E.stat = ADR => E.icode = "INOP")
  <2>1. E.icode \in AllIcodes
    BY <1>1, StageStatus DEF TypeOK, StatusesOK
  <2> QED BY <1>1, <2>1, InE DEF StatOf, Icode, AllIcodes, Excepting, AOK, ADR, INS, HLT
<1>3. E.dstE = RNONE /\ E.dstM = RNONE
  BY <1>1, <1>2, InE DEF DstE, DstM
<1>4. /\ M'.stat = E.stat /\ M'.icode = E.icode /\ M'.dstE = RNONE /\ M'.dstM = RNONE /\ M'.pc = E.pc
  BY <1>1, <1>3, NextPc DEF e_next, e_dstE
<1>5. m_stat' = E.stat /\ isa_reg' = isa_reg /\ isa_mem' = isa_mem
  BY <1>1, <1>2, <1>4, NoTrace
<1>6. isa_stat = AOK /\ isa_pc = E.pc /\ isa_stat' = E.stat /\ isa_pc' = E.pc
  <2>1. E.stat \in Stopped
    BY DEF Excepting, Stopped
  <2> QED BY <1>1, <1>4, <1>5, <2>1, NextPc
<1>7. code' = code /\ cc' = cc
  BY <1>1, <1>2, Live DEF Cycle, Update_state
<1>8. I!Stop(E.stat) /\ UNCHANGED isa_reg
  BY <1>5, <1>6, <1>7 DEF I!Stop
<1>9. CASE E.pc \notin Text
  BY <1>1, <1>6, <1>8, <1>9, InE, SameOperators DEF I!step_state, StatOf
<1>10. CASE E.pc \in Text
  <2>1. /\ code[E.pc] # NotYet /\ code[E.pc].icode = E.icode
        /\ E.stat = IF E.icode \notin Icodes THEN INS ELSE IF E.icode = "IHALT" THEN HLT ELSE AOK
    BY <1>1, <1>10, InE DEF StatOf
  <2>2. AOK \notin Excepting
    BY DEF Excepting, AOK, ADR, INS, HLT
  <2>3. I!Execute(code[E.pc])
    BY <1>8, <2>1, <2>2, SameOperators DEF I!Execute, I!Halt, I!Bad
  <2> QED BY <1>6, <1>10, <2>1, <2>3, SameOperators DEF I!step_state
<1> QED BY <1>9, <1>10

LEMMA Instruction ==
  ASSUME IInv, Cycle, m_stat \notin Excepting, E.stat = AOK, NEW i, i = code[E.pc]
  PROVE  /\ i \in Instr /\ E.icode = i.icode /\ E.ifun = i.ifun /\ i.icode \in Icodes \ {"IHALT"}
         /\ i.icode \in NeedsA => i.rA \in Regs
         /\ i.icode \in NeedsB => i.rB \in Regs
         /\ i.icode \in NeedsC => E.valC = i.valC
         /\ ~I!BadRegister(i)
         /\ E.dstE = DstE(E.pc) /\ E.dstM = DstM(E.pc) /\ Icode(E.pc) = i.icode
         /\ E.srcA = SrcA(E.pc) /\ (E.srcA \in Regs => e_valA = isa_reg[E.srcA])
         /\ E.srcB = SrcB(E.pc) /\ (E.srcB \in Regs => E.valB = isa_reg[E.srcB])
         /\ i.icode \in {"ICALL", "IJXX"} => E.valA = Wrap(E.pc + 1)
         /\ I!ftpc = Wrap(E.pc + 1)
         /\ I!Execute(i) => I!step_state
<1>1. E.stat # BUB /\ isa_stat = AOK /\ isa_pc = E.pc
  BY Outcome DEF AOK, BUB
<1>2. E.pc \in Text /\ E.icode \in Icodes \ {"IHALT"}
  BY <1>1, InE DEF StatOf, AOK, ADR, INS, HLT
<1>3. i \in Instr /\ Named(i) /\ i # NotYet /\ E.icode = i.icode /\ E.ifun = i.ifun
  BY <1>1, <1>2, InE
<1>4. ~I!BadRegister(i)
  BY <1>3, SameOperators DEF I!BadRegister, I!reg_valid, Named, NeedsA, NeedsB, Instr
<1>5. I!Execute(i) => I!step_state
  BY <1>1, <1>2, <1>3, SameOperators DEF I!step_state
<1>6. I!ftpc = Wrap(E.pc + 1)
  BY <1>1, SameOperators DEF I!ftpc
<1> QED BY <1>1, <1>2, <1>3, <1>4, <1>5, <1>6, InE DEF Named, IInv, Operands, Icode

\* Instructions that neither read nor write memory.
LEMMA RegisterInstructions ==
  ASSUME IInv, Cycle, m_stat \notin Excepting, E.stat = AOK,
         E.icode \in {"INOP", "IRRMOVQ", "IIRMOVQ", "IOPQ", "IIADDQ", "IJXX"}
  PROVE  I!step_state
<1> DEFINE i == code[E.pc]
           r == isa_reg
<1>1. /\ i \in Instr /\ E.icode = i.icode /\ E.ifun = i.ifun /\ ~I!BadRegister(i)
      /\ I!ftpc = Wrap(E.pc + 1) /\ e_Cnd = cond_holds(cc, i.ifun)
      /\ E.dstE = DstE(E.pc) /\ E.dstM = RNONE /\ Icode(E.pc) = i.icode
      /\ I!Execute(i) => I!step_state
  BY Instruction DEF e_Cnd, DstM
<1>2. /\ r \in [Regs -> Words] /\ aluA \in Words /\ aluB \in Words /\ RNONE \notin Regs
      /\ i.valC \in Words
  BY <1>1, IsaTypes, ExecuteTypes, Y86Assumption DEF IInv, Instr
<1>3. /\ UNCHANGED isa_mem /\ UNCHANGED code /\ UNCHANGED isa_stat
      /\ isa_reg' = set_reg_val(r, e_dstE, e_valE)
      /\ isa_pc' = IF Mispredicted THEN Wrap(E.pc + 1) ELSE Pred(E.pc)
      /\ cc' = IF i.icode \in {"IOPQ", "IIADDQ"} THEN compute_cc(alufun, aluA, aluB) ELSE cc
  <2>1. E.icode \notin reads \cup writes /\ E.icode # "IRET"
    BY DEF reads, writes
  <2> HIDE DEF i
  <2> QED BY <1>1, <2>1, Outcome DEF Invalid, set_reg_val
<1>4. isa_pc' = IF i.icode = "IJXX" /\ cond_holds(cc, i.ifun) THEN i.valC ELSE Wrap(E.pc + 1)
  BY <1>1, <1>3 DEF Mispredicted, Pred
<1>5. /\ i.icode \in NeedsA => i.rA \in Regs
      /\ i.icode \in NeedsB => i.rB \in Regs
      /\ i.icode \in NeedsC => E.valC = i.valC
  BY Instruction
<1>6. /\ i.icode \in {"IRRMOVQ", "IOPQ"} => E.valA = r[i.rA]
      /\ i.icode \in {"IOPQ", "IIADDQ"} => E.valB = r[i.rB]
  <2>1. /\ E.srcA = SrcA(E.pc) /\ (E.srcA \in Regs => e_valA = r[E.srcA])
        /\ E.srcB = SrcB(E.pc) /\ (E.srcB \in Regs => E.valB = r[E.srcB])
    BY Instruction
  <2>2. e_valA = E.valA
    BY DEF e_valA
  <2> HIDE DEF r
  <2> QED BY <1>1, <1>5, <2>1, <2>2 DEF SrcA, SrcB, NeedsA, NeedsB
<1> HIDE DEF i, r
<1>7. I!GoTo(isa_pc') /\ UNCHANGED isa_mem
  BY <1>3 DEF I!GoTo
<1>8. I!GoTo(IF i.icode = "IJXX" /\ cond_holds(cc, i.ifun) THEN i.valC ELSE I!ftpc) /\ UNCHANGED isa_mem
  BY <1>1, <1>4, <1>7
<1>9. CASE i.icode = "INOP"
  <2>1. E.dstE = RNONE
    BY <1>1, <1>9 DEF DstE
  <2>2. isa_reg' = isa_reg
    BY <1>1, <1>3, <1>9, <2>1 DEF e_dstE, set_reg_val, r
  <2> QED BY <1>1, <1>3, <1>8, <1>9, <2>2 DEF I!Execute, I!Nop
<1>10. CASE i.icode = "IJXX"
  <2>1. E.dstE = RNONE
    BY <1>1, <1>10 DEF DstE
  <2>2. isa_reg' = isa_reg
    BY <1>1, <1>3, <1>10, <2>1 DEF e_dstE, set_reg_val, r
  <2> QED BY <1>1, <1>3, <1>8, <1>10, <2>2, SameOperators DEF I!Execute, I!Jxx
<1>11. CASE i.icode = "IIRMOVQ"
  <2>1. e_dstE = i.rB /\ i.rB \in Regs
    BY <1>1, <1>5, <1>11 DEF DstE, e_dstE, NeedsB, i
  <2>2. e_valE = i.valC
    <3>1. aluA = i.valC /\ aluB = 0 /\ alufun = A_ADD
      BY <1>1, <1>5, <1>11 DEF aluA, aluB, alufun, NeedsC
    <3> QED BY <1>2, <3>1, AluAdd, WrapWord DEF e_valE
  <2> QED BY <1>1, <1>2, <1>3, <1>8, <1>11, <2>1, <2>2 DEF I!Execute, I!Irmovq, set_reg_val, r
<1>12. CASE i.icode = "IRRMOVQ"
  <2>1. e_dstE = (IF cond_holds(cc, i.ifun) THEN i.rB ELSE RNONE) /\ i.rA \in Regs /\ i.rB \in Regs
    BY <1>1, <1>5, <1>12 DEF DstE, e_dstE, NeedsA, NeedsB, i
  <2>2. e_valE = r[i.rA]
    <3>1. aluA = r[i.rA] /\ aluB = 0 /\ alufun = A_ADD
      BY <1>1, <1>6, <1>12 DEF aluA, aluB, alufun
    <3> QED BY <1>2, <3>1, AluAdd, WrapWord DEF e_valE
  <2> QED BY <1>1, <1>2, <1>3, <1>8, <1>12, <2>1, <2>2, SameOperators DEF I!Execute, I!Rrmovq, set_reg_val, r
<1>13. CASE i.icode = "IOPQ"
  <2>1. e_dstE = i.rB /\ i.rA \in Regs /\ i.rB \in Regs
    BY <1>1, <1>5, <1>13 DEF DstE, e_dstE, NeedsA, NeedsB, i
  <2>2. aluA = get_reg_val(r, i.rA) /\ aluB = get_reg_val(r, i.rB) /\ alufun = i.ifun
    BY <1>1, <1>2, <1>6, <1>13, <2>1 DEF aluA, aluB, alufun, get_reg_val
  <2> QED BY <1>1, <1>3, <1>8, <1>13, <2>1, <2>2, SameOperators DEF I!Execute, I!Opq, e_valE, r
<1>14. CASE i.icode = "IIADDQ"
  <2>1. e_dstE = i.rB /\ i.rB \in Regs
    BY <1>1, <1>5, <1>14 DEF DstE, e_dstE, NeedsB, i
  <2>2. aluA = i.valC /\ aluB = r[i.rB] /\ alufun = A_ADD
    BY <1>1, <1>5, <1>6, <1>14 DEF aluA, aluB, alufun, NeedsC
  <2>3. e_valE = Wrap(r[i.rB] + i.valC)
    BY <1>2, <2>2, AluAdd DEF e_valE
  <2> QED BY <1>1, <1>2, <1>3, <1>8, <1>14, <2>1, <2>2, <2>3, SameOperators
          DEF I!Execute, I!Iaddq, set_reg_val, r
<1> QED BY <1>1, <1>9, <1>10, <1>11, <1>12, <1>13, <1>14

\* Instructions that access memory: an invalid address stops them, after the write to %rsp if they
\* are a call, push or pop.
LEMMA MemoryInstructions ==
  ASSUME IInv, Cycle, m_stat \notin Excepting, E.stat = AOK, E.icode \in reads \cup writes
  PROVE  I!step_state
<1> DEFINE i == code[E.pc]
           r == isa_reg
           rm == isa_mem
<1>1. /\ i \in Instr /\ E.icode = i.icode /\ ~I!BadRegister(i) /\ I!ftpc = Wrap(E.pc + 1)
      /\ E.dstE = DstE(E.pc) /\ E.dstM = DstM(E.pc) /\ Icode(E.pc) = i.icode
      /\ I!Execute(i) => I!step_state
  BY Instruction
<1>2. /\ r \in [Regs -> Words] /\ rm \in [Data -> Words] /\ e_valE \in Words
      /\ RNONE \notin Regs /\ "rsp" \in Regs /\ i.valC \in Words
  BY <1>1, IsaTypes, ExecuteTypes, Y86Assumption DEF IInv, Instr, Regs
<1>3. /\ i.icode \in NeedsA => i.rA \in Regs
      /\ i.icode \in NeedsB => i.rB \in Regs
      /\ i.icode \in NeedsC => E.valC = i.valC
      /\ E.srcA = SrcA(E.pc) /\ (E.srcA \in Regs => e_valA = r[E.srcA])
      /\ E.srcB = SrcB(E.pc) /\ (E.srcB \in Regs => E.valB = r[E.srcB])
  BY Instruction
<1>4. e_dstE = E.dstE /\ alufun = A_ADD /\ ~Mispredicted
  BY DEF e_dstE, alufun, Mispredicted, reads, writes
<1>5. /\ UNCHANGED code /\ UNCHANGED cc /\ (Invalid <=> address \notin Data)
      /\ Invalid => /\ isa_stat' = ADR /\ UNCHANGED isa_pc /\ UNCHANGED isa_mem
                    /\ isa_reg' = IF i.icode = "IRET" THEN r ELSE set_reg_val(r, E.dstE, e_valE)
      /\ ~Invalid => /\ UNCHANGED isa_stat
                     /\ isa_reg' = set_reg_val(set_reg_val(r, E.dstE, e_valE), E.dstM, found)
                     /\ isa_mem' = IF i.icode \in writes THEN [rm EXCEPT ![address] = e_valA] ELSE rm
                     /\ isa_pc' = IF i.icode = "IRET" THEN found ELSE Pred(E.pc)
  <2>1. E.icode \notin {"IOPQ", "IIADDQ"}
    BY DEF reads, writes
  <2> HIDE DEF i
  <2> QED BY <1>1, <1>4, <2>1, Outcome DEF Invalid
<1>6. Pred(E.pc) = IF i.icode = "ICALL" THEN i.valC ELSE I!ftpc
  BY <1>1 DEF Pred, reads, writes
<1>7. i.icode \in reads => found = rm[address]
  BY <1>1 DEF found
<1> HIDE DEF i, r, rm
<1>8. Invalid => I!Stop(ADR)
  BY <1>5 DEF I!Stop
<1>9. ~Invalid => I!GoTo(isa_pc')
  BY <1>5 DEF I!GoTo
<1>10. I!rsp_ = r["rsp"] /\ r["rsp"] \in Words
  BY <1>2 DEF I!rsp_, r
<1>11. CASE i.icode \in {"IRMMOVQ", "IMRMOVQ"}
  <2>1. i.rA \in Regs /\ i.rB \in Regs /\ E.dstE = RNONE
    BY <1>1, <1>3, <1>11 DEF NeedsA, NeedsB, DstE
  <2>2. aluA = i.valC /\ aluB = r[i.rB]
    BY <1>1, <1>3, <1>11, <2>1 DEF aluA, aluB, NeedsC, SrcB, i
  <2>3. r[i.rB] + i.valC = i.valC + r[i.rB] /\ r[i.rB] \in Words
    BY <1>2, <2>1, Y86Assumption DEF Words
  <2>4. address = Wrap(i.valC + r[i.rB])
    BY <1>1, <1>2, <1>4, <1>11, <2>2, <2>3, AluAdd DEF address, e_valE
  <2>5. I!Address(i) = address
    BY <1>2, <2>1, <2>4, SameOperators DEF I!Address, get_reg_val, r
  <2>6. CASE i.icode = "IRMMOVQ"
    <3>1. e_valA = r[i.rA] /\ E.dstM = RNONE /\ i.icode \in writes
      BY <1>1, <1>3, <2>1, <2>6 DEF SrcA, DstM, writes, i
    <3>2. isa_reg' = r
      BY <1>5, <2>1, <2>6, <3>1 DEF set_reg_val
    <3>3. I!Rmmovq(i)
      BY <1>5, <1>6, <1>8, <1>9, <2>5, <2>6, <3>1, <3>2, SameOperators DEF I!Rmmovq, r, rm
    <3> QED BY <1>1, <3>3 DEF I!Execute
  <2>7. CASE i.icode = "IMRMOVQ"
    <3>1. E.dstM = i.rA /\ i.icode \in reads /\ i.icode \notin writes
      BY <1>1, <2>7 DEF DstM, reads, writes, i
    <3>2. isa_reg' = IF Invalid THEN r ELSE [r EXCEPT ![i.rA] = rm[address]]
      BY <1>2, <1>5, <1>7, <2>1, <2>7, <3>1 DEF set_reg_val
    <3>3. I!Mrmovq(i)
      BY <1>5, <1>6, <1>8, <1>9, <2>5, <2>7, <3>1, <3>2, SameOperators DEF I!Mrmovq, r, rm
    <3> QED BY <1>1, <3>3 DEF I!Execute
  <2> QED BY <1>11, <2>6, <2>7
<1>12. ASSUME i.icode \in {"ICALL", "IPUSHQ"}
       PROVE  e_valE = I!Push /\ address = I!Push /\ E.dstE = "rsp" /\ E.dstM = RNONE /\ i.icode \in writes
  <2>1. aluA = -1 /\ aluB = r["rsp"] /\ E.dstE = "rsp" /\ E.dstM = RNONE /\ i.icode \in writes
        /\ address = e_valE
    BY <1>1, <1>2, <1>3, <1>12 DEF aluA, aluB, SrcB, DstE, DstM, writes, address
  <2>2. r["rsp"] + -1 = r["rsp"] - 1
    BY <1>10, Y86Assumption DEF Words
  <2>3. e_valE = Wrap(r["rsp"] - 1)
    BY <1>4, <1>10, <2>1, <2>2, Small, AluAdd DEF e_valE
  <2> QED BY <1>10, <2>1, <2>3, SameOperators DEF I!Push
<1>13. ASSUME i.icode \in {"IRET", "IPOPQ"}
       PROVE  /\ e_valE = I!Pop /\ address = I!rsp_ /\ E.dstE = "rsp"
              /\ i.icode \in reads /\ i.icode \notin writes
  <2>1. /\ aluA = 1 /\ aluB = r["rsp"] /\ e_valA = r["rsp"] /\ E.dstE = "rsp" /\ address = e_valA
        /\ i.icode \in reads /\ i.icode \notin writes
    BY <1>1, <1>2, <1>3, <1>13 DEF aluA, aluB, SrcA, SrcB, DstE, reads, writes, address
  <2>2. e_valE = Wrap(r["rsp"] + 1)
    BY <1>4, <1>10, <2>1, Small, AluAdd DEF e_valE
  <2> QED BY <1>10, <2>1, <2>2, SameOperators DEF I!Pop
<1>14. CASE i.icode = "ICALL"
  <2>1. e_valA = I!ftpc
    BY <1>1, <1>14, Instruction DEF e_valA, i
  <2>2. isa_reg' = [r EXCEPT !["rsp"] = I!Push]
    BY <1>2, <1>5, <1>12, <1>14 DEF set_reg_val
  <2>3. I!Call(i)
    BY <1>5, <1>6, <1>8, <1>9, <1>12, <1>14, <2>1, <2>2, SameOperators DEF I!Call, I!Stack, r, rm
  <2> QED BY <1>1, <2>3 DEF I!Execute
<1>15. CASE i.icode = "IPUSHQ"
  <2>1. e_valA = r[i.rA]
    BY <1>1, <1>3, <1>15 DEF SrcA, NeedsA, i
  <2>2. isa_reg' = [r EXCEPT !["rsp"] = I!Push]
    BY <1>2, <1>5, <1>12, <1>15 DEF set_reg_val
  <2>3. I!Pushq(i)
    BY <1>5, <1>6, <1>8, <1>9, <1>12, <1>15, <2>1, <2>2, SameOperators DEF I!Pushq, I!Stack, r, rm
  <2> QED BY <1>1, <2>3 DEF I!Execute
<1>16. CASE i.icode = "IRET"
  <2>1. E.dstM = RNONE
    BY <1>1, <1>16 DEF DstM
  <2>2. ~Invalid => isa_pc' = rm[I!rsp_]
    BY <1>5, <1>7, <1>13, <1>16
  <2>3. isa_reg' = IF Invalid THEN r ELSE [r EXCEPT !["rsp"] = I!Pop]
    BY <1>2, <1>5, <1>13, <1>16, <2>1 DEF set_reg_val
  <2>4. [r EXCEPT !["rsp"] = I!rsp_] = r
    BY <1>2, <1>10
  <2>5. I!Ret(i)
    BY <1>5, <1>8, <1>9, <1>13, <1>16, <2>2, <2>3, <2>4, SameOperators DEF I!Ret, I!Stack, r, rm
  <2> QED BY <1>1, <2>5 DEF I!Execute
<1>17. CASE i.icode = "IPOPQ"
  <2>1. i.rA \in Regs /\ E.dstM = i.rA
    BY <1>1, <1>3, <1>17 DEF NeedsA, DstM, i
  <2>2. isa_reg' = IF Invalid THEN [r EXCEPT !["rsp"] = I!Pop]
                   ELSE [[r EXCEPT !["rsp"] = I!Pop] EXCEPT ![i.rA] = rm[I!rsp_]]
    BY <1>2, <1>5, <1>7, <1>13, <1>17, <2>1 DEF set_reg_val
  <2>3. [[r EXCEPT !["rsp"] = I!Pop] EXCEPT ![i.rA] = rm[I!rsp_]] = [r EXCEPT !["rsp"] = I!Pop, ![i.rA] = rm[I!rsp_]]
    OBVIOUS
  <2>4. I!Popq(i)
    BY <1>5, <1>6, <1>8, <1>9, <1>13, <1>17, <2>2, <2>3, SameOperators DEF I!Popq, I!Stack, r, rm
  <2> QED BY <1>1, <2>4 DEF I!Execute
<1> QED BY <1>1, <1>11, <1>14, <1>15, <1>16, <1>17 DEF reads, writes

LEMMA StepRefines ==
  ASSUME IInv, Cycle, m_stat \notin Excepting, E.stat # BUB
  PROVE  I!step_state
<1>1. E.stat \in {AOK} \cup Excepting
  BY StageStatus DEF IInv, TypeOK, StatusesOK, StatsOK
<1>2. CASE E.stat \in Excepting
  BY <1>2, StopInstructions
<1>3. CASE E.stat = AOK
  <2>1. E.icode \in Icodes \ {"IHALT"}
    BY <1>3, Instruction
  <2>2. \/ E.icode \in {"INOP", "IRRMOVQ", "IIRMOVQ", "IOPQ", "IIADDQ", "IJXX"}
        \/ E.icode \in reads \cup writes
    BY <2>1 DEF Icodes, reads, writes
  <2> QED BY <1>3, <2>2, RegisterInstructions, MemoryInstructions
<1> QED BY <1>1, <1>2, <1>3

----------------------------------------------------------------------------
(* The invariant. *)

LEMMA InitIInv == ASSUME WellFormed, Init PROVE IInv
<1>1. TypeOK /\ StatsOK /\ RedirectsAlone
  BY TypeInit, StatsInit
<1>2. TextOK
  BY DEF Init, TextOK, WellFormed
<1>3. HeldInD /\ HeldInE /\ Follows /\ Operands
  BY DEF Init, bubble_if_id, bubble_id_ex, HeldInD, HeldInE, Follows, Operands
<1> QED BY <1>1, <1>2, <1>3 DEF IInv

\* The text does not change in a cycle.
LEMMA SameText ==
  ASSUME code' = code
  PROVE  /\ TextOK' <=> TextOK
         /\ \A a : /\ Icode(a)' = Icode(a) /\ StatOf(a)' = StatOf(a) /\ Pred(a)' = Pred(a)
                   /\ SrcA(a)' = SrcA(a) /\ SrcB(a)' = SrcB(a) /\ DstE(a)' = DstE(a) /\ DstM(a)' = DstM(a)
BY DEF TextOK, Icode, StatOf, Pred, SrcA, SrcB, DstE, DstM

\* What is fetched is what the text holds.
LEMMA Fetched ==
  ASSUME Loaded
  PROVE  /\ f_next.pc \in Text => code[f_next.pc] # NotYet /\ f_next.ifun = code[f_next.pc].ifun
         /\ f_next.icode = Icode(f_next.pc) /\ f_next.stat = StatOf(f_next.pc)
         /\ f_next.icode \in NeedsC => f_next.valC = code[f_next.pc].valC
         /\ f_next.icode \in NeedsA => f_next.rA = code[f_next.pc].rA
         /\ f_next.icode \in NeedsB => f_next.rB = code[f_next.pc].rB
         /\ f_next.pc = f_pc /\ f_next.valP = Wrap(f_pc + 1) /\ f_next.stat # BUB
         /\ f_predPC = Pred(f_pc)
<1>1. f_icode = Icode(f_pc) /\ f_stat = StatOf(f_pc) /\ f_stat # BUB
  <2>1. f_icode = Icode(f_pc)
    BY DEF f_icode, imem, imem_error, Icode
  <2>2. f_stat = IF imem_error THEN ADR ELSE IF f_icode \notin Icodes THEN INS
                 ELSE IF f_icode = "IHALT" THEN HLT ELSE AOK
    BY DEF f_stat, imem_error, instr_valid, Icodes
  <2>3. f_stat = StatOf(f_pc)
    BY <2>1, <2>2 DEF StatOf, imem_error
  <2> QED BY <2>1, <2>2, <2>3 DEF BUB, ADR, INS, HLT, AOK
<1>2. f_icode \in NeedsC => f_valC = code[f_pc].valC
  BY DEF f_valC, need_valC, NeedsC, imem
<1>3. f_predPC = Pred(f_pc)
  BY <1>1, <1>2 DEF f_predPC, Pred, NeedsC, f_valP
<1>4. f_pc \in Text => code[f_pc] # NotYet /\ f_ifun = code[f_pc].ifun
  BY DEF Loaded, imem_error, imem, f_ifun
<1>5. f_icode \in NeedsA \cup NeedsB => need_regids
  BY DEF need_regids, NeedsA, NeedsB
<1> QED BY <1>1, <1>2, <1>3, <1>4, <1>5 DEF f_next, f_valP, imem

LEMMA HeldInDNext == ASSUME IInv, Cycle PROVE HeldInD'
<1>1. code' = code /\ Loaded
  BY DEF Cycle
<1>2. CASE D' = D
  BY <1>1, <1>2, SameText DEF IInv, HeldInD, Known
<1>3. CASE D' = bubble_if_id
  BY <1>3 DEF HeldInD, bubble_if_id
<1>4. CASE D' = f_next
  BY <1>1, <1>4, SameText, Fetched DEF HeldInD, Known
<1> QED BY <1>2, <1>3, <1>4, Latched

\* Decoding names the registers of the instruction.
LEMMA HeldInENext == ASSUME IInv, Cycle PROVE HeldInE'
<1>1. code' = code
  BY DEF Cycle
<1>2. CASE E' = bubble_id_ex
  BY <1>2 DEF HeldInE, bubble_id_ex
<1>3. CASE E' = d_next /\ D.stat = BUB
  <2>1. D.icode = "INOP"
    BY <1>3 DEF IInv, StatsOK
  <2> QED BY <1>3, <2>1 DEF HeldInE, d_next, d_dstE, d_dstM
<1>4. CASE E' = d_next /\ D.stat # BUB
  <2>1. /\ Known(D) /\ D.valP = Wrap(D.pc + 1)
        /\ D.icode \in NeedsA => D.rA = code[D.pc].rA
        /\ D.icode \in NeedsB => D.rB = code[D.pc].rB
    BY <1>4 DEF IInv, HeldInD
  <2>2. /\ d_srcA = SrcA(D.pc) /\ d_srcB = SrcB(D.pc) /\ d_dstE = DstE(D.pc) /\ d_dstM = DstM(D.pc)
        /\ D.icode \in {"ICALL", "IJXX"} => d_valA = Wrap(D.pc + 1)
    BY <2>1 DEF Known, NeedsA, NeedsB, d_srcA, d_srcB, d_dstE, d_dstM, d_valA, SrcA, SrcB, DstE, DstM
  <2>3. /\ E'.stat = D.stat /\ E'.icode = D.icode /\ E'.ifun = D.ifun /\ E'.pc = D.pc /\ E'.valC = D.valC
        /\ E'.valA = d_valA
        /\ E'.srcA = d_srcA /\ E'.srcB = d_srcB /\ E'.dstE = d_dstE /\ E'.dstM = d_dstM
    BY <1>4 DEF d_next
  <2>4. Known(E)'
    BY <1>1, <2>1, <2>3, SameText DEF Known
  <2> QED BY <1>1, <1>4, <2>2, <2>3, <2>4, SameText DEF HeldInE
<1> QED BY <1>2, <1>3, <1>4, Latched

LEMMA FollowsNext == ASSUME IInv, Cycle PROVE Follows'
<1>1. code' = code /\ Loaded /\ F' = (IF F_stall THEN F ELSE f_predPC)
  BY DEF Cycle, Update_pipes
<1>2. ASSUME D'.stat # BUB PROVE F' = Pred(D'.pc)
  <2>1. CASE D_stall
    <3>1. D' = D /\ F' = F
      BY <1>1, <2>1, Latched DEF D_stall, F_stall
    <3> QED BY <1>2, <3>1 DEF IInv, Follows
  <2>2. CASE ~D_stall
    <3>1. D' = f_next /\ ~D_bubble
      BY <1>2, <2>2, Latched DEF bubble_if_id
    <3>2. F' = f_predPC
      BY <1>1, <2>2, <3>1 DEF D_bubble, D_stall, F_stall
    <3> QED BY <1>1, <3>1, <3>2, Fetched
  <2> QED BY <2>1, <2>2
<1>3. ASSUME E'.stat # BUB
      PROVE  IF D'.stat # BUB THEN D'.pc = Pred(E'.pc) ELSE E'.icode = "IRET"
  <2>1. E' = d_next /\ ~Mispredicted /\ ~LoadUse
    BY <1>3, Latched DEF bubble_id_ex, E_bubble
  <2>2. E'.stat = D.stat /\ E'.pc = D.pc /\ E'.icode = D.icode /\ D.stat # BUB
    BY <1>3, <2>1 DEF d_next
  <2>3. D' = IF Returning THEN bubble_if_id ELSE f_next
    BY <2>1, Latched DEF D_stall, D_bubble
  <2>4. f_pc = F
    BY <2>2 DEF f_pc, IInv, RedirectsAlone, Empty
  <2>5. F = Pred(D.pc)
    BY <2>2 DEF IInv, Follows
  <2>6. Returning => D.icode = "IRET"
    BY <2>2 DEF Returning, IInv, RedirectsAlone, Empty
  <2>7. bubble_if_id.stat = BUB
    BY DEF bubble_if_id
  <2> QED BY <1>1, <2>2, <2>3, <2>4, <2>5, <2>6, <2>7, Fetched
<1> QED BY <1>1, <1>2, <1>3, SameText DEF Follows

\* The register file that the instruction set sees, behind the instructions in M and W.
LEMMA Ahead ==
  ASSUME TypeOK, StatsOK, Cycle, m_stat \notin Excepting, m_stat' \notin Stopped, NEW src \in Regs
  PROVE  isa_reg'[src] = IF src = E.dstM THEN m_valM' ELSE Forward(src)
<1>1. /\ W.stat \in {AOK, BUB} /\ m_stat \in {AOK, BUB} /\ M' = e_next
  BY Live
<1>2. M'.stat \in {AOK, BUB, PIP} \cup Excepting
  BY TypeCycle, StageStatus DEF TypeOK, StageOK, Stages
<1>3. m_stat' \in {AOK, BUB}
  BY <1>2 DEF m_stat, Excepting, Stopped
<1>4. isa_reg = set_reg_val(set_reg_val(set_reg_val(set_reg_val(reg, W.dstE, W.valE), W.dstM, W.valM),
                                        M.dstE, M.valE), M.dstM, m_valM)
  BY <1>1 DEF isa_reg, AfterW, Written, AOK, BUB, ADR
<1>5. isa_reg' = set_reg_val(set_reg_val(isa_reg, e_dstE, e_valE), E.dstM, m_valM')
  <2>1. isa_reg' = Written(isa_reg, M'.icode, m_stat', M'.dstE, M'.valE, M'.dstM, m_valM')
    BY Commits
  <2> QED BY <1>1, <1>3, <2>1 DEF Written, AOK, BUB, ADR, e_next
<1>6. /\ reg \in [Regs -> Words] /\ isa_reg \in [Regs -> Words] /\ W.valE \in Words /\ W.valM \in Words
      /\ W.dstE \in Ids /\ W.dstM \in Ids /\ M.dstE \in Ids /\ M.dstM \in Ids /\ M.valE \in Words /\ m_valM \in Words
      /\ e_dstE \in Ids /\ e_valE \in Words /\ RNONE \notin Regs
  BY IsaTypes, MemoryTypes, ExecuteTypes, Y86Assumption DEF TypeOK, OperandsOK, Ids
<1>7. ASSUME NEW r \in [Regs -> Words], NEW id \in Ids, NEW v
      PROVE  set_reg_val(r, id, v)[src] = IF src = id THEN v ELSE r[src]
  BY <1>6 DEF set_reg_val, Ids
<1>8. isa_reg[src] = IF src = M.dstM THEN m_valM ELSE IF src = M.dstE THEN M.valE
                     ELSE IF src = W.dstM THEN W.valM ELSE IF src = W.dstE THEN W.valE ELSE reg[src]
  <2> DEFINE r1 == set_reg_val(reg, W.dstE, W.valE)
             r2 == set_reg_val(r1, W.dstM, W.valM)
             r3 == set_reg_val(r2, M.dstE, M.valE)
  <2>1. r1 \in [Regs -> Words]
    BY <1>6, SetReg
  <2>2. r2 \in [Regs -> Words]
    BY <1>6, <2>1, SetReg
  <2>3. r3 \in [Regs -> Words]
    BY <1>6, <2>2, SetReg
  <2>4. r1[src] = IF src = W.dstE THEN W.valE ELSE reg[src]
    BY <1>6, <1>7
  <2>5. r2[src] = IF src = W.dstM THEN W.valM ELSE r1[src]
    BY <1>6, <1>7, <2>1
  <2>6. r3[src] = IF src = M.dstE THEN M.valE ELSE r2[src]
    BY <1>6, <1>7, <2>2
  <2>7. isa_reg[src] = IF src = M.dstM THEN m_valM ELSE r3[src]
    BY <1>4, <1>6, <1>7, <2>3
  <2> HIDE DEF r1, r2, r3
  <2> QED BY <2>4, <2>5, <2>6, <2>7
<1>9. Forward(src) = IF src = e_dstE THEN e_valE ELSE isa_reg[src]
  BY <1>6, <1>8 DEF Forward, get_reg_val
<1>10. set_reg_val(isa_reg, e_dstE, e_valE) \in [Regs -> Words]
  BY <1>6, SetReg
<1>11. E.dstM \in Ids
  BY DEF TypeOK, OperandsOK, Ids
<1> QED BY <1>5, <1>6, <1>7, <1>9, <1>10, <1>11

\* Forwarding gives the instruction that enters E what those ahead will have left in its registers: a
\* load directly ahead of it is stalled for, or else hands its result over in M.
LEMMA OperandsNext == ASSUME IInv, Cycle PROVE Operands'
<1> SUFFICES ASSUME isa_stat' = AOK, E'.stat # BUB
             PROVE  /\ E'.srcA \in Regs => e_valA' = isa_reg'[E'.srcA]
                    /\ E'.srcB \in Regs => E'.valB = isa_reg'[E'.srcB]
  BY DEF Operands, AOK, BUB
<1>1. TypeOK /\ StatsOK /\ RNONE \notin Regs
  BY Y86Assumption DEF IInv
<1>2. m_stat \notin Excepting
  <2>1. CASE m_stat \in Excepting
    <3>1. isa_stat' = isa_stat /\ isa_stat = m_stat
      BY <1>1, <2>1, StopsBehind, Live
    <3> QED BY <2>1, <3>1 DEF Excepting, AOK, ADR, INS, HLT
  <2> QED BY <2>1
<1>3. m_stat' \notin Stopped /\ M' = e_next
  <2>1. isa_stat' = IF m_stat' \in Stopped THEN m_stat' ELSE AOK
    BY <1>1, <1>2, NextPc
  <2>2. AOK \notin Stopped
    BY DEF Stopped, AOK, ADR, INS, HLT, PIP
  <2> QED BY <1>1, <1>2, <2>1, <2>2, NextPc
<1>4. E' = d_next /\ ~LoadUse
  BY Latched DEF bubble_id_ex, E_bubble
<1>5. /\ E'.srcA = d_srcA /\ E'.valA = d_valA /\ E'.srcB = d_srcB /\ E'.valB = d_valB /\ E'.icode = D.icode
      /\ M'.dstM = E.dstM
  BY <1>3, <1>4 DEF d_next, e_next
<1>6. E.dstM \in Regs => E.icode \in {"IMRMOVQ", "IPOPQ"}
  BY <1>1, InE DEF DstM, IInv, HeldInE
<1>7. d_srcB \in Regs => d_srcB # E.dstM
  BY <1>4, <1>6 DEF LoadUse
<1>8. d_srcA \in Regs /\ d_srcA = E.dstM => D.icode \in {"IRMMOVQ", "IPUSHQ"}
  BY <1>4, <1>6 DEF LoadUse
<1>9. d_srcA \in Regs => d_valA = Forward(d_srcA)
  BY <1>1 DEF d_valA, d_srcA
<1>10. ASSUME NEW src \in Regs
       PROVE  isa_reg'[src] = IF src = E.dstM THEN m_valM' ELSE Forward(src)
  BY <1>1, <1>2, <1>3, Ahead
<1>11. e_valA' = IF D.icode \in {"IRMMOVQ", "IPUSHQ"} /\ d_srcA = E.dstM THEN m_valM' ELSE d_valA
  BY <1>5 DEF e_valA
<1>12. d_valB = Forward(d_srcB)
  BY DEF d_valB
<1> QED BY <1>5, <1>7, <1>8, <1>9, <1>10, <1>11, <1>12

LEMMA CycleIInv == ASSUME IInv, Cycle PROVE IInv'
<1>1. (TypeOK /\ StatsOK /\ RedirectsAlone)'
  BY TypeCycle, StatsNext, RedirectsNext DEF IInv
<1>2. TextOK'
  BY SameText DEF Cycle, IInv
<1> QED BY <1>1, <1>2, HeldInDNext, HeldInENext, FollowsNext, OperandsNext DEF IInv

\* Load changes nothing but the text, at an address that nothing in the pipeline comes from.
LEMMA LoadLeaves ==
  ASSUME UNCHANGED <<reg, mem, cc, F, D, E, M, W>>
  PROVE  UNCHANGED <<isa_pc, isa_reg, isa_mem, cc, isa_stat>> /\ e_valA' = e_valA
<1>1. mem_read' = mem_read /\ mem_write' = mem_write /\ mem_addr' = mem_addr
  BY DEF mem_read, mem_write, mem_addr
<1>2. m_valM' = m_valM /\ m_stat' = m_stat
  BY <1>1 DEF m_valM, m_stat, dmem_error
<1>3. AfterW' = AfterW
  BY DEF AfterW
<1>4. isa_reg' = isa_reg /\ isa_mem' = isa_mem
  BY <1>1, <1>2, <1>3 DEF isa_reg, isa_mem
<1>5. isa_stat' = isa_stat
  BY <1>2 DEF isa_stat
<1>6. f_pc' = f_pc /\ e_valA' = e_valA
  BY <1>2 DEF f_pc, e_valA
<1>7. isa_pc' = isa_pc
  BY <1>2, <1>5, <1>6 DEF isa_pc
<1> QED BY <1>4, <1>5, <1>6, <1>7

LEMMA LoadIInv == ASSUME WellFormed, IInv, Load PROVE IInv'
<1>1. PICK i \in Instrs : Running /\ ~Loaded /\ code' = [code EXCEPT ![f_pc] = i]
                          /\ UNCHANGED <<reg, mem, cc, F, D, E, M, W>>
  BY DEF Load
<1>2. f_pc \in Text /\ code[f_pc] = NotYet /\ code \in [Text -> Instr \cup {NotYet}]
  BY <1>1 DEF Loaded, imem_error, imem, IInv, TypeOK
<1>3. (TypeOK /\ StatsOK /\ RedirectsAlone)'
  <2>1. TypeOK'
    <3>1. TypeOK /\ [Next]_vars
      BY DEF IInv, Next
    <3> QED BY <3>1, TypeNext
  <2>2. UNCHANGED <<D, E, M, W>>
    BY LoadKeeps
  <2> QED BY <2>1, <2>2 DEF IInv, StatsOK, RedirectsAlone, Empty
<1>4. TextOK'
  BY <1>1, <1>2 DEF TextOK, IInv, WellFormed
<1>5. \A a : (a \in Text => code[a] # NotYet) =>
             /\ a \in Text => code'[a] = code[a]
             /\ Icode(a)' = Icode(a) /\ StatOf(a)' = StatOf(a) /\ Pred(a)' = Pred(a)
             /\ SrcA(a)' = SrcA(a) /\ SrcB(a)' = SrcB(a) /\ DstE(a)' = DstE(a) /\ DstM(a)' = DstM(a)
  <2> SUFFICES ASSUME NEW a, a \in Text => code[a] # NotYet
               PROVE  /\ a \in Text => code'[a] = code[a]
                      /\ Icode(a)' = Icode(a) /\ StatOf(a)' = StatOf(a) /\ Pred(a)' = Pred(a)
                      /\ SrcA(a)' = SrcA(a) /\ SrcB(a)' = SrcB(a) /\ DstE(a)' = DstE(a) /\ DstM(a)' = DstM(a)
    OBVIOUS
  <2>1. a \in Text => code'[a] = code[a]
    BY <1>1, <1>2
  <2>2. Icode(a)' = Icode(a) /\ (Icode(a) # "INOP" => code'[a] = code[a])
    BY <2>1 DEF Icode
  <2> QED BY <2>1, <2>2 DEF StatOf, Pred, SrcA, SrcB, DstE, DstM
<1>6. ASSUME NEW s, Known(s)
      PROVE  /\ s.pc \in Text => code[s.pc] # NotYet
             /\ s.icode \in NeedsA \cup NeedsB \cup NeedsC => s.pc \in Text
  BY <1>6 DEF Known, Icode, NeedsA, NeedsB, NeedsC
<1>7. D' = D /\ E' = E /\ F' = F
  BY <1>1
<1>8. HeldInD'
  <2>1. CASE D.stat = BUB
    BY <1>7, <2>1 DEF HeldInD
  <2>2. CASE D.stat # BUB
    <3>1. Known(D)
      BY <2>2 DEF IInv, HeldInD
    <3>2. /\ D.pc \in Text => code[D.pc] # NotYet /\ code'[D.pc] = code[D.pc]
          /\ D.icode \in NeedsA \cup NeedsB \cup NeedsC => D.pc \in Text
          /\ Icode(D.pc)' = Icode(D.pc) /\ StatOf(D.pc)' = StatOf(D.pc)
      BY <1>5, <1>6, <1>7, <3>1
    <3> QED BY <1>7, <2>2, <3>2 DEF IInv, HeldInD, Known
  <2> QED BY <2>1, <2>2
<1>9. HeldInE'
  <2>1. CASE E.stat = BUB
    BY <1>7, <2>1 DEF IInv, HeldInE
  <2>2. CASE E.stat # BUB
    <3>1. Known(E)
      BY <2>2 DEF IInv, HeldInE
    <3>2. /\ E.pc \in Text => code[E.pc] # NotYet /\ code'[E.pc] = code[E.pc]
          /\ E.icode \in NeedsA \cup NeedsB \cup NeedsC => E.pc \in Text
          /\ Icode(E.pc)' = Icode(E.pc) /\ StatOf(E.pc)' = StatOf(E.pc)
          /\ SrcA(E.pc)' = SrcA(E.pc) /\ SrcB(E.pc)' = SrcB(E.pc)
          /\ DstE(E.pc)' = DstE(E.pc) /\ DstM(E.pc)' = DstM(E.pc)
      BY <1>5, <1>6, <1>7, <3>1
    <3> QED BY <1>7, <2>2, <3>2 DEF IInv, HeldInE, Known
  <2> QED BY <2>1, <2>2
<1>10. Follows'
  <2>1. D.stat # BUB => Pred(D.pc)' = Pred(D.pc)
    BY <1>5, <1>7 DEF IInv, HeldInD, Known
  <2>2. E.stat # BUB => Pred(E.pc)' = Pred(E.pc)
    BY <1>5, <1>7 DEF IInv, HeldInE, Known
  <2> QED BY <1>7, <2>1, <2>2 DEF IInv, Follows
<1>11. Operands'
  <2>1. isa_stat' = isa_stat /\ e_valA' = e_valA /\ isa_reg' = isa_reg
    BY <1>1, LoadLeaves
  <2> QED BY <1>7, <2>1 DEF IInv, Operands
<1> QED BY <1>3, <1>4, <1>8, <1>9, <1>10, <1>11 DEF IInv

LEMMA IInvHolds == ASSUME WellFormed PROVE Spec => []IInv
<1>1. Init => IInv
  BY InitIInv
<1>2. IInv /\ [Next]_vars => IInv'
  <2> SUFFICES ASSUME IInv, [Next]_vars PROVE IInv'
    OBVIOUS
  <2>1. CASE Load BY <2>1, LoadIInv
  <2>2. CASE Cycle BY <2>2, CycleIInv
  <2>3. CASE UNCHANGED vars
    <3>1. UNCHANGED <<code, reg, mem, cc, F, D, E, M, W>>
      BY <2>3 DEF vars
    <3>3. isa_stat' = isa_stat /\ e_valA' = e_valA /\ isa_reg' = isa_reg
      BY <3>1, LoadLeaves
    <3>4. (TypeOK /\ StatsOK /\ RedirectsAlone)'
      BY <3>1, TypeNext DEF IInv, StatsOK, RedirectsAlone, Empty
    <3> QED BY <3>1, <3>3, <3>4, SameText
            DEF IInv, HeldInD, HeldInE, Known, Follows, Operands
  <2> QED BY <2>1, <2>2, <2>3 DEF Next
<1> QED BY <1>1, <1>2, PTL DEF Spec

\* psim.c and pipe-full.hcl execute every well-formed program as step_state does, for words of any
\* width and any registers, text and data: each cycle executes the next instruction or none, and
\* stalls, bubbles, forwarding and the cancelled instructions of a wrong path leave no trace.
THEOREM PipeRefinesIsa == ASSUME WellFormed PROVE Spec => RefinesIsa
<1>1. Init => I!Init
  <2> SUFFICES ASSUME Init PROVE I!Init
    OBVIOUS
  <2>1. D = bubble_if_id /\ E = bubble_id_ex /\ M = bubble_ex_mem /\ W = bubble_mem_wb /\ F = 0
    BY DEF Init
  <2>2. ~mem_read /\ ~mem_write /\ m_stat = BUB
    BY <2>1 DEF mem_read, mem_write, m_stat, dmem_error, bubble_ex_mem
  <2>3. isa_mem = mem /\ AfterW = reg
    BY <2>1, <2>2 DEF isa_mem, AfterW, Written, bubble_mem_wb, set_reg_val, AOK, BUB, ADR
  <2>4. isa_reg = reg
    BY <2>1, <2>2, <2>3 DEF isa_reg, Written, bubble_ex_mem, set_reg_val, AOK, BUB, ADR
  <2>5. isa_stat = AOK /\ W.stat = BUB /\ BUB \notin Stopped
    BY <2>1, <2>2 DEF isa_stat, bubble_mem_wb, BUB, Stopped, HLT, ADR, INS, PIP
  <2>6. isa_pc = 0
    BY <2>1, <2>2, <2>5 DEF isa_pc, f_pc, bubble_if_id, bubble_id_ex, bubble_ex_mem, bubble_mem_wb
  <2> QED BY <2>3, <2>4, <2>5, <2>6, SameOperators DEF Init, I!Init
<1>2. IInv /\ [Next]_vars => [I!Next]_(I!vars)
  <2> SUFFICES ASSUME IInv, [Next]_vars PROVE I!Next \/ UNCHANGED I!vars
    OBVIOUS
  <2>1. CASE Load
    <3>1. PICK i \in Instrs : ~Loaded /\ code' = [code EXCEPT ![f_pc] = i]
                              /\ UNCHANGED <<reg, mem, cc, F, D, E, M, W>>
      BY <2>1 DEF Load
    <3>2. UNCHANGED <<isa_pc, isa_reg, isa_mem, cc, isa_stat>>
      BY <3>1, LoadLeaves
    <3>3. f_pc \in Text /\ code[f_pc] = NotYet
      BY <3>1 DEF Loaded, imem_error, imem
    <3> QED BY <3>1, <3>2, <3>3 DEF I!Next, I!Load
  <2>2. CASE Cycle
    <3>1. CASE m_stat \notin Excepting /\ E.stat # BUB
      BY <2>2, <3>1, StepRefines DEF I!Next
    <3>2. CASE m_stat \in Excepting \/ E.stat = BUB
      <4>1. UNCHANGED <<isa_pc, isa_reg, isa_mem, cc, isa_stat>> /\ code' = code
        BY <2>2, <3>2, StopsBehind, NothingExecutes DEF IInv, Cycle
      <4> QED BY <4>1 DEF I!vars
    <3> QED BY <3>1, <3>2
  <2>3. CASE UNCHANGED vars
    <3>1. UNCHANGED <<code, reg, mem, cc, F, D, E, M, W>>
      BY <2>3 DEF vars
    <3>3. UNCHANGED <<isa_pc, isa_reg, isa_mem, cc, isa_stat>>
      BY <3>1, LoadLeaves
    <3> QED BY <3>1, <3>3 DEF I!vars
  <2> QED BY <2>1, <2>2, <2>3 DEF Next
<1> QED BY <1>1, <1>2, IInvHolds, PTL DEF Spec, RefinesIsa, I!Spec
=============================================================================
