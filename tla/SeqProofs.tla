----------------------------- MODULE SeqProofs -----------------------------
(***************************************************************************)
(* The sequential processor implements the instruction set, for words of   *)
(* any width, any registers, text and data, and every program whose        *)
(* instructions name the registers that they need.                         *)
(***************************************************************************)
EXTENDS Seq, TLAPS

----------------------------------------------------------------------------
(* Arithmetic stays in a word. *)

LEMMA WrapSum == ASSUME NEW a \in Words, NEW b \in Words
                 PROVE  Wrap(a + b) \in Words /\ Wrap(b - a) \in Words
BY Y86Assumption DEF Words, Wrap

LEMMA AluWord == ASSUME NEW op, NEW a \in Words, NEW b \in Words
                 PROVE  compute_alu(op, a, b) \in Words
<1>1. 0 \in Words
  BY Y86Assumption DEF Words
<1>2. BitAnd(a, b) \in Words /\ BitXor(a, b) \in Words
  BY Y86Assumption
<1> HIDE DEF Words
<1> QED BY <1>1, <1>2, WrapSum DEF compute_alu, A_ADD, A_SUB, A_AND, A_XOR

LEMMA AluAdd == ASSUME NEW a \in Words, NEW b \in Words
                PROVE  compute_alu(A_ADD, a, b) = Wrap(b + a)
<1>1. compute_alu(A_ADD, a, b) = Wrap(a + b)
  BY DEF compute_alu, A_ADD, A_SUB, A_AND, A_XOR
<1>2. a + b = b + a
  BY Y86Assumption DEF Words
<1> QED BY <1>1, <1>2

LEMMA WrapWord == ASSUME NEW a \in Words
                  PROVE  Wrap(0 + a) = a /\ Wrap(a) = a
BY Y86Assumption DEF Words, Wrap

Well(i) == i \in Instr /\ ~I!BadRegister(i)
WellFormed == /\ \A i \in Instrs : Well(i)
              /\ \A a \in Text : Image[a] # NotYet => Well(Image[a])

\* What the next call of sim_step finds.
IInv == /\ code \in [Text -> Instr \cup {NotYet}]
        /\ \A a \in Text : code[a] # NotYet => Well(code[a])
        /\ status = AOK => reg0 \in [Regs -> Words] /\ mem0 \in [Data -> Words]

----------------------------------------------------------------------------
(* Isa's copies of the pure operators. *)

LEMMA SameOperators ==
  /\ I!Regs = Regs /\ I!Icodes = Icodes
  /\ I!AOK = AOK /\ I!ADR = ADR /\ I!HLT = HLT /\ I!INS = INS /\ I!A_ADD = A_ADD
  /\ I!DEFAULT_CC = DEFAULT_CC
  /\ \A x : I!Wrap(x) = Wrap(x)
  /\ \A c, f : I!cond_holds(c, f) = cond_holds(c, f)
  /\ \A f, a, b : I!compute_alu(f, a, b) = compute_alu(f, a, b)
  /\ \A f, a, b : I!compute_cc(f, a, b) = compute_cc(f, a, b)
  /\ \A r, id : I!get_reg_val(r, id) = get_reg_val(r, id)
  /\ \A r, id, v : I!set_reg_val(r, id, v) = set_reg_val(r, id, v)
<1>1. I!Regs = Regs /\ I!Icodes = Icodes
  BY DEF I!Regs, Regs, I!Icodes, Icodes
<1>2. I!AOK = AOK /\ I!ADR = ADR /\ I!HLT = HLT /\ I!INS = INS
  BY DEF I!AOK, AOK, I!ADR, ADR, I!HLT, HLT, I!INS, INS
<1>3. I!DEFAULT_CC = DEFAULT_CC
  BY DEF I!DEFAULT_CC, DEFAULT_CC
<1>4. \A x : I!Wrap(x) = Wrap(x)
  BY DEF I!Wrap, Wrap
<1>5. I!A_ADD = A_ADD /\ I!A_SUB = A_SUB /\ I!A_AND = A_AND /\ I!A_XOR = A_XOR
  BY DEF I!A_ADD, A_ADD, I!A_SUB, A_SUB, I!A_AND, A_AND, I!A_XOR, A_XOR
<1>6. \A f, a, b : I!compute_alu(f, a, b) = compute_alu(f, a, b)
  BY <1>4, <1>5 DEF I!compute_alu, compute_alu
<1>7. \A f, a, b : I!compute_cc(f, a, b) = compute_cc(f, a, b)
  <2> TAKE f, a, b
  <2> QED BY <1>5, <1>6, Zenon DEF I!compute_cc, compute_cc
<1>8. \A c, f : I!cond_holds(c, f) = cond_holds(c, f)
  BY DEF I!cond_holds, cond_holds, I!C_YES, C_YES, I!C_LE, C_LE, I!C_L, C_L, I!C_E, C_E,
         I!C_NE, C_NE, I!C_GE, C_GE, I!C_G, C_G
<1>9. \A r, id : I!get_reg_val(r, id) = get_reg_val(r, id)
  BY DEF I!get_reg_val, get_reg_val
<1>10. \A r, id, v : I!set_reg_val(r, id, v) = set_reg_val(r, id, v)
  BY DEF I!set_reg_val, set_reg_val
<1> QED BY <1>1, <1>2, <1>3, <1>4, <1>5, <1>6, <1>7, <1>8, <1>9, <1>10

----------------------------------------------------------------------------
(* The state after a call, as the instruction set sees it. *)

LEMMA Outcome ==
  ASSUME sim_step
  PROVE  /\ status' = Stat /\ code' = code
         /\ mem0' = (IF writes THEN set_word_val(mem0, address, data) ELSE mem0)
         /\ cc_in' = (IF set_cc THEN compute_cc(alufun, aluA, aluB) ELSE cc_in)
         /\ Stat = AOK => /\ reg0' = set_reg_val(set_reg_val(reg0, dstE, valE), dstM, valM)
                          /\ isa_reg' = reg0' /\ isa_pc' = new_pc
         /\ Stat # AOK => isa_pc' = pc_in
         /\ Stat = ADR /\ icode_ # "IRET" => isa_reg' = set_reg_val(reg0, dstE, valE)
         /\ Stat = ADR /\ icode_ = "IRET" => isa_reg' = reg0
         /\ Stat \in {HLT, INS} => isa_reg' = reg0
<1>1. /\ status' = Stat /\ code' = code /\ reg' = reg0 /\ mem' = mem0 /\ pc' = pc_in /\ icode' = icode_
      /\ pc_in' = new_pc /\ destE' = dstE /\ vale' = valE /\ destM' = dstM /\ valm' = valM
      /\ mem_write' = writes /\ mem_addr' = address /\ mem_data' = data
      /\ cc_in' = (IF set_cc THEN compute_cc(alufun, aluA, aluB) ELSE cc_in)
  BY DEF sim_step, update_state
<1>2. reg0' = set_reg_val(set_reg_val(reg', destE', vale'), destM', valm')
  BY DEF reg0
<1>3. mem0' = (IF mem_write' THEN set_word_val(mem', mem_addr', mem_data') ELSE mem')
  BY DEF mem0
<1>4. isa_reg' = CASE status' = AOK -> reg0'
                   [] status' = ADR /\ icode' # "IRET" -> set_reg_val(reg', destE', vale')
                   [] OTHER -> reg'
  BY DEF isa_reg
<1>5. isa_pc' = IF status' = AOK THEN pc_in' ELSE pc'
  BY DEF isa_pc
<1> HIDE DEF reg0, mem0, isa_reg, isa_pc
<1> QED BY <1>1, <1>2, <1>3, <1>4, <1>5 DEF AOK, ADR, HLT, INS

LEMMA Before ==
  ASSUME status = AOK
  PROVE  isa_reg = reg0 /\ isa_pc = pc_in
BY DEF isa_reg, isa_pc, AOK, ADR

----------------------------------------------------------------------------
(* The signals of a well-formed instruction. *)

LEMMA Signals ==
  ASSUME IInv, status = AOK, ~imem_error, imem # NotYet
  PROVE  /\ imem \in Instr /\ ~I!BadRegister(imem)
         /\ icode_ = imem.icode /\ ifun = imem.ifun /\ Cnd = cond_holds(cc_in, imem.ifun)
         /\ reg0 \in [Regs -> Words] /\ mem0 \in [Data -> Words]
         /\ valA \in Words /\ valB \in Words /\ valC \in Words /\ valP \in Words
         /\ valE \in Words /\ dstE \in Regs \cup {RNONE} /\ dstM \in Regs \cup {RNONE}
<1>1. pc_in \in Text /\ imem \in Instr /\ ~I!BadRegister(imem)
  BY DEF IInv, imem_error, imem, Well
<1>2. icode_ = imem.icode /\ ifun = imem.ifun /\ Cnd = cond_holds(cc_in, imem.ifun)
  BY DEF icode_, ifun, Cnd
<1>3. reg0 \in [Regs -> Words] /\ mem0 \in [Data -> Words]
  BY DEF IInv
<1>4. 0 \in Words /\ 1 \in Words /\ -1 \in Words /\ pc_in \in Words /\ RNONE \notin Regs
  BY <1>1, Y86Assumption DEF Words
<1>5. rA \in Regs \cup {RNONE} /\ rB \in Regs \cup {RNONE} /\ valC \in Words
  <2> HIDE DEF imem, Words, Regs
  <2> QED BY <1>1, <1>4 DEF rA, rB, valC, Instr
<1>6. "rsp" \in Regs
  BY DEF Regs
<1>7. srcA \in Regs \cup {RNONE} /\ srcB \in Regs \cup {RNONE}
      /\ dstE \in Regs \cup {RNONE} /\ dstM \in Regs \cup {RNONE}
  BY <1>5, <1>6 DEF srcA, srcB, dstE, dstM
<1>8. valA \in Words /\ valB \in Words
  <2> HIDE DEF reg0, srcA, srcB, Words
  <2> QED BY <1>3, <1>4, <1>7 DEF valA, valB, get_reg_val
<1>9. valP \in Words
  BY <1>4, WrapSum DEF valP
<1>10. aluA \in Words /\ aluB \in Words
  <2> HIDE DEF valA, valB, valC, Words
  <2> QED BY <1>4, <1>5, <1>8 DEF aluA, aluB
<1>11. valE \in Words
  BY <1>10, AluWord DEF valE
<1> QED BY <1>1, <1>2, <1>3, <1>5, <1>7, <1>8, <1>9, <1>11

----------------------------------------------------------------------------
(* One call of sim_step is one step of the instruction set. *)

LEMMA Ends ==
  ASSUME sim_step, status = AOK, isa_reg' = reg0, cc_in' = cc_in, mem0' = mem0, Stat # AOK
  PROVE  I!Stop(Stat) /\ isa_reg' = isa_reg
BY Outcome, Before DEF I!Stop

LEMMA FetchFails ==
  ASSUME sim_step, status = AOK, imem_error
  PROVE  I!step_state
<1>1. icode_ = "INOP" /\ Stat = ADR /\ dstE = RNONE /\ ~writes /\ ~set_cc
  BY DEF icode_, Stat, dstE, writes, set_cc, ADR
<1>2. isa_reg' = reg0 /\ mem0' = mem0 /\ cc_in' = cc_in
  BY <1>1, Outcome DEF set_reg_val, ADR
<1>3. I!Stop(ADR) /\ isa_reg' = isa_reg
  <2> HIDE DEF isa_reg, reg0, mem0, Stat, sim_step
  <2> QED BY <1>1, <1>2, Ends DEF AOK, ADR
<1> QED BY <1>3, Before, SameOperators DEF I!step_state, imem_error

\* What is left to show of each instruction.
LEMMA Executes ==
  ASSUME status = AOK, ~imem_error, imem # NotYet, I!Execute(imem)
  PROVE  I!step_state
BY Before, SameOperators DEF I!step_state, imem_error, imem

LEMMA StopInstructions ==
  ASSUME IInv, sim_step, status = AOK, ~imem_error, imem # NotYet, imem.icode \in {"IHALT", "IPOP2"}
  PROVE  I!Execute(imem)
<1>1. icode_ = imem.icode
  BY Signals
<1>2. Stat = (IF icode_ = "IHALT" THEN HLT ELSE INS) /\ ~writes /\ ~set_cc
  BY <1>1 DEF Stat, dmem_error, mem_read, writes, set_cc, instr_valid, Icodes
<1>3. isa_reg' = reg0 /\ mem0' = mem0 /\ cc_in' = cc_in
  BY <1>2, Outcome
<1>4. I!Stop(Stat) /\ isa_reg' = isa_reg
  <2> HIDE DEF isa_reg, reg0, mem0, Stat, sim_step
  <2> QED BY <1>2, <1>3, Ends DEF AOK, HLT, INS
<1> QED BY <1>1, <1>2, <1>4, SameOperators DEF I!Execute, I!Halt, I!Bad, Icodes

\* Instructions that neither read nor write memory.
LEMMA RegisterInstructions ==
  ASSUME IInv, sim_step, status = AOK, ~imem_error, imem # NotYet,
         imem.icode \in {"INOP", "IRRMOVQ", "IIRMOVQ", "IOPQ", "IIADDQ", "IJXX"}
  PROVE  I!Execute(imem)
<1> DEFINE i == imem
           r == reg0
<1>1. /\ i \in Instr /\ ~I!BadRegister(i) /\ icode_ = i.icode /\ ifun = i.ifun
      /\ Cnd = cond_holds(cc_in, i.ifun)
      /\ r \in [Regs -> Words] /\ valC \in Words
  BY Signals
<1>2. Stat = AOK /\ ~writes /\ dstM = RNONE
  BY <1>1 DEF Stat, dmem_error, mem_read, writes, instr_valid, Icodes, dstM
<1>3. /\ mem0' = mem0 /\ code' = code /\ status' = status
      /\ isa_reg' = set_reg_val(r, dstE, valE) /\ isa_pc' = new_pc
      /\ cc_in' = (IF set_cc THEN compute_cc(alufun, aluA, aluB) ELSE cc_in)
  <2> HIDE DEF isa_reg, reg0, mem0, Stat, sim_step
  <2> QED BY <1>2, Outcome DEF set_reg_val
<1>4. isa_reg = r /\ isa_pc = pc_in
  BY Before
<1> HIDE DEF r
<1>5. new_pc = IF i.icode = "IJXX" /\ cond_holds(cc_in, i.ifun) THEN i.valC ELSE Wrap(pc_in + 1)
  BY <1>1 DEF new_pc, valP, valC, need_valC
<1>6. I!ftpc = Wrap(pc_in + 1)
  BY <1>4, SameOperators DEF I!ftpc
<1>7. RNONE \notin Regs /\ i.rA \in Regs \cup {RNONE} /\ i.rB \in Regs \cup {RNONE} /\ 0 \in Words
  BY <1>1, Y86Assumption DEF Instr, Words
<1>8. I!GoTo(new_pc) /\ mem0' = mem0
  BY <1>3 DEF I!GoTo
<1>9. CASE i.icode = "INOP"
  <2>1. dstE = RNONE /\ ~set_cc
    BY <1>1, <1>9 DEF dstE, set_cc
  <2> QED BY <1>3, <1>4, <1>5, <1>6, <1>8, <1>9, <2>1 DEF I!Execute, I!Nop, set_reg_val
<1>10. CASE i.icode = "IJXX"
  <2>1. dstE = RNONE /\ ~set_cc
    BY <1>1, <1>10 DEF dstE, set_cc
  <2> QED BY <1>1, <1>3, <1>4, <1>5, <1>6, <1>8, <1>10, <2>1, SameOperators DEF I!Execute, I!Jxx, set_reg_val
<1>11. CASE i.icode = "IIRMOVQ"
  <2>1. dstE = i.rB /\ ~set_cc /\ aluA = i.valC /\ aluB = 0 /\ alufun = A_ADD
    BY <1>1, <1>11 DEF dstE, set_cc, aluA, aluB, alufun, rB, need_regids, valC, need_valC
  <2>2. valE = i.valC
    <3>1. i.valC \in Words
      BY <1>1 DEF Instr
    <3> QED BY <1>7, <2>1, <3>1, AluAdd, WrapWord DEF valE
  <2>3. i.rB \in Regs
    BY <1>1, <1>11, SameOperators DEF I!BadRegister, I!reg_valid
  <2> QED BY <1>1, <1>3, <1>4, <1>5, <1>6, <1>7, <1>8, <1>11, <2>1, <2>2, <2>3
          DEF I!Execute, I!Irmovq, set_reg_val
<1>12. CASE i.icode = "IRRMOVQ"
  <2>1. i.rA \in Regs /\ i.rB \in Regs
    BY <1>1, <1>12, SameOperators DEF I!BadRegister, I!reg_valid
  <2>2. dstE = (IF cond_holds(cc_in, i.ifun) THEN i.rB ELSE RNONE)
        /\ ~set_cc /\ aluA = r[i.rA] /\ aluB = 0 /\ alufun = A_ADD
    BY <1>1, <1>7, <1>12, <2>1 DEF dstE, set_cc, aluA, aluB, alufun, rA, rB, need_regids, valA, srcA,
         get_reg_val, r
  <2>3. valE = r[i.rA]
    <3>1. r[i.rA] \in Words
      BY <1>1, <2>1
    <3> QED BY <1>7, <2>2, <3>1, AluAdd, WrapWord DEF valE
  <2> QED BY <1>1, <1>3, <1>4, <1>5, <1>6, <1>7, <1>8, <1>12, <2>1, <2>2, <2>3, SameOperators
          DEF I!Execute, I!Rrmovq, set_reg_val
<1>13. CASE i.icode = "IOPQ"
  <2>1. /\ dstE = i.rB /\ set_cc /\ alufun = i.ifun
        /\ aluA = get_reg_val(r, i.rA) /\ aluB = get_reg_val(r, i.rB)
    BY <1>1, <1>13 DEF dstE, set_cc, aluA, aluB, alufun, rA, rB, need_regids, valA, valB, srcA, srcB, r
  <2>2. valE = compute_alu(i.ifun, get_reg_val(r, i.rA), get_reg_val(r, i.rB))
    BY <2>1 DEF valE
  <2> QED BY <1>1, <1>3, <1>4, <1>5, <1>6, <1>8, <1>13, <2>1, <2>2, SameOperators DEF I!Execute, I!Opq
<1>14. CASE i.icode = "IIADDQ"
  <2>1. i.rB \in Regs
    BY <1>1, <1>14, SameOperators DEF I!BadRegister, I!reg_valid
  <2>2. dstE = i.rB /\ set_cc /\ alufun = A_ADD /\ aluA = i.valC /\ aluB = r[i.rB]
    BY <1>1, <1>7, <1>14, <2>1 DEF dstE, set_cc, aluA, aluB, alufun, rB, need_regids, valB, srcB,
         valC, need_valC, get_reg_val, r
  <2>3. valE = Wrap(r[i.rB] + i.valC)
    <3>1. i.valC \in Words /\ r[i.rB] \in Words
      BY <1>1, <2>1 DEF Instr
    <3> QED BY <2>2, <3>1, AluAdd DEF valE
  <2> QED BY <1>1, <1>3, <1>4, <1>5, <1>6, <1>7, <1>8, <1>14, <2>1, <2>2, <2>3, SameOperators
          DEF I!Execute, I!Iaddq, set_reg_val
<1> QED BY <1>9, <1>10, <1>11, <1>12, <1>13, <1>14
\* Instructions that access memory: an invalid address stops them, after the write to %rsp if they
\* are a call, push or pop.
LEMMA MemoryInstructions ==
  ASSUME IInv, sim_step, status = AOK, ~imem_error, imem # NotYet,
         imem.icode \in {"IRMMOVQ", "IMRMOVQ", "ICALL", "IRET", "IPUSHQ", "IPOPQ"}
  PROVE  I!Execute(imem)
<1> DEFINE i == imem
           r == reg0
           rm == mem0
<1>1. /\ i \in Instr /\ ~I!BadRegister(i) /\ icode_ = i.icode
      /\ r \in [Regs -> Words] /\ rm \in [Data -> Words] /\ valC \in Words
  BY Signals
<1>2. /\ RNONE \notin Regs /\ "rsp" \in Regs
      /\ i.rA \in Regs \cup {RNONE} /\ i.rB \in Regs \cup {RNONE} /\ i.valC \in Words
      /\ 0 \in Words /\ 1 \in Words /\ -1 \in Words
  BY <1>1, Y86Assumption DEF Instr, Words, Regs
<1>3. /\ ~imem_error /\ instr_valid /\ icode_ # "IHALT" /\ ~set_cc /\ alufun = A_ADD
      /\ dmem_error = (address \notin Data)
  BY <1>1 DEF instr_valid, Icodes, set_cc, alufun, dmem_error, mem_read, writes
<1>4. Stat = IF address \in Data THEN AOK ELSE ADR
  <2> HIDE DEF address, imem_error
  <2> QED BY <1>3 DEF Stat
<1>5. /\ mem0' = (IF writes /\ address \in Data THEN [rm EXCEPT ![address] = data] ELSE rm)
      /\ code' = code /\ status' = (IF address \in Data THEN AOK ELSE ADR) /\ cc_in' = cc_in
      /\ address \in Data => isa_reg' = set_reg_val(set_reg_val(r, dstE, valE), dstM, valM)
                             /\ isa_pc' = new_pc
      /\ address \notin Data => isa_reg' = (IF icode_ = "IRET" THEN r ELSE set_reg_val(r, dstE, valE))
                                /\ isa_pc' = pc_in
  <2> HIDE DEF isa_reg, isa_pc, reg0, Stat, sim_step, address, data
  <2> QED BY <1>3, <1>4, Outcome DEF set_word_val, AOK, ADR
<1>6. isa_reg = r /\ isa_pc = pc_in
  BY Before
<1>7. I!ftpc = Wrap(pc_in + 1) /\ valP = Wrap(pc_in + 1)
  BY <1>6, SameOperators DEF I!ftpc, valP
<1>8. mem_read => valM = IF address \in Data THEN rm[address] ELSE valm
  BY <1>3 DEF valM
<1>9. rA = i.rA \/ icode_ \in {"ICALL", "IRET"}
  BY <1>1 DEF rA, need_regids
<1> HIDE DEF r, rm
<1>10. address \notin Data => /\ status' = ADR /\ isa_pc' = isa_pc /\ mem0' = rm
                              /\ cc_in' = cc_in /\ code' = code
  BY <1>5, <1>6
<1>11. address \in Data => /\ status' = status /\ isa_pc' = new_pc /\ cc_in' = cc_in /\ code' = code
  BY <1>5
<1>12. address \notin Data => I!Stop(ADR)
  BY <1>10 DEF I!Stop, rm
<1>13. address \in Data => I!GoTo(new_pc)
  BY <1>11 DEF I!GoTo
<1>14. CASE i.icode \in {"IRMMOVQ", "IMRMOVQ"}
  <2>1. i.rA \in Regs /\ rA = i.rA
    BY <1>1, <1>9, <1>14, SameOperators DEF I!BadRegister, I!reg_valid
  <2>2. aluA = i.valC /\ aluB = get_reg_val(r, i.rB) /\ dstE = RNONE
    BY <1>1, <1>14 DEF aluA, aluB, valB, srcB, rB, need_regids, valC, need_valC, dstE, r
  <2>3. get_reg_val(r, i.rB) \in Words
    BY <1>1, <1>2 DEF get_reg_val
  <2>4. valE = Wrap(get_reg_val(r, i.rB) + i.valC) /\ address = valE
    BY <1>1, <1>2, <1>3, <1>14, <2>2, <2>3, AluAdd DEF valE, address
  <2>5. get_reg_val(r, i.rB) + i.valC = i.valC + get_reg_val(r, i.rB)
    BY <1>2, <2>3, Y86Assumption DEF Words
  <2>6. I!Address(i) = address
    BY <1>6, <2>4, <2>5, SameOperators DEF I!Address
  <2>7. new_pc = I!ftpc
    BY <1>1, <1>7, <1>14 DEF new_pc
  <2>8. CASE i.icode = "IRMMOVQ"
    <3>1. writes /\ data = r[i.rA] /\ dstM = RNONE
      BY <1>1, <1>2, <2>1, <2>8 DEF writes, data, valA, srcA, dstM, get_reg_val, r
    <3>2. isa_reg' = r
      BY <1>1, <1>5, <2>2, <2>8, <3>1 DEF set_reg_val
    <3> QED BY <1>1, <1>5, <1>6, <1>11, <1>12, <1>13, <2>6, <2>7, <2>8, <3>1, <3>2, SameOperators
            DEF I!Execute, I!Rmmovq, rm
  <2>9. CASE i.icode = "IMRMOVQ"
    <3>1. ~writes /\ mem_read /\ dstM = i.rA
      BY <1>1, <2>1, <2>9 DEF writes, mem_read, dstM
    <3>2. isa_reg' = IF address \in Data THEN [r EXCEPT ![i.rA] = rm[address]] ELSE r
      BY <1>1, <1>2, <1>5, <1>8, <2>1, <2>2, <2>9, <3>1 DEF set_reg_val
    <3> QED BY <1>1, <1>5, <1>6, <1>11, <1>12, <1>13, <2>6, <2>7, <2>9, <3>1, <3>2, SameOperators
            DEF I!Execute, I!Mrmovq, rm
  <2> QED BY <1>14, <2>8, <2>9
<1>15. I!rsp_ = r["rsp"] /\ r["rsp"] \in Words
  BY <1>1, <1>2, <1>6 DEF I!rsp_
<1>16. ASSUME i.icode \in {"ICALL", "IPUSHQ"}
       PROVE  valE = I!Push /\ address = I!Push /\ dstE = "rsp" /\ dstM = RNONE /\ writes
  <2>1. aluA = -1 /\ aluB = r["rsp"] /\ dstE = "rsp" /\ dstM = RNONE /\ writes /\ address = valE
    BY <1>1, <1>2, <1>16 DEF aluA, aluB, valB, srcB, dstE, dstM, writes, address, get_reg_val, r
  <2>2. r["rsp"] + -1 = r["rsp"] - 1
    BY <1>15, Y86Assumption DEF Words
  <2>3. valE = Wrap(r["rsp"] - 1)
    BY <1>2, <1>3, <1>15, <2>1, <2>2, AluAdd DEF valE
  <2> QED BY <1>15, <2>1, <2>3, SameOperators DEF I!Push
<1>17. ASSUME i.icode \in {"IRET", "IPOPQ"}
       PROVE  valE = I!Pop /\ address = I!rsp_ /\ dstE = "rsp" /\ mem_read /\ ~writes
  <2>1. aluA = 1 /\ aluB = r["rsp"] /\ valA = r["rsp"] /\ dstE = "rsp" /\ mem_read /\ ~writes
        /\ address = valA
    BY <1>1, <1>2, <1>17 DEF aluA, aluB, valA, srcA, valB, srcB, dstE, mem_read, writes, address, get_reg_val, r
  <2>2. valE = Wrap(r["rsp"] + 1)
    BY <1>2, <1>3, <1>15, <2>1, AluAdd DEF valE
  <2> QED BY <1>15, <2>1, <2>2, SameOperators DEF I!Pop
<1>18. CASE i.icode = "ICALL"
  <2>1. data = I!ftpc /\ new_pc = i.valC
    BY <1>1, <1>7, <1>18 DEF data, new_pc, valC, need_valC
  <2>2. isa_reg' = [r EXCEPT !["rsp"] = I!Push]
    BY <1>1, <1>2, <1>5, <1>16, <1>18 DEF set_reg_val
  <2> QED BY <1>1, <1>5, <1>6, <1>11, <1>12, <1>13, <1>16, <1>18, <2>1, <2>2, SameOperators
          DEF I!Execute, I!Call, I!Stack, rm
<1>19. CASE i.icode = "IPUSHQ"
  <2>1. i.rA \in Regs /\ rA = i.rA
    BY <1>1, <1>9, <1>19, SameOperators DEF I!BadRegister, I!reg_valid
  <2>2. data = r[i.rA] /\ new_pc = I!ftpc
    BY <1>1, <1>2, <1>7, <1>19, <2>1 DEF data, new_pc, valA, srcA, get_reg_val, r
  <2>3. isa_reg' = [r EXCEPT !["rsp"] = I!Push]
    BY <1>1, <1>2, <1>5, <1>16, <1>19 DEF set_reg_val
  <2> QED BY <1>1, <1>5, <1>6, <1>11, <1>12, <1>13, <1>16, <1>19, <2>2, <2>3, SameOperators
          DEF I!Execute, I!Pushq, I!Stack, rm
<1>20. CASE i.icode = "IRET"
  <2>1. dstM = RNONE
    BY <1>1, <1>20 DEF dstM
  <2>2. address \in Data => new_pc = rm[I!rsp_]
    BY <1>1, <1>8, <1>17, <1>20 DEF new_pc
  <2>3. isa_reg' = IF address \in Data THEN [r EXCEPT !["rsp"] = I!Pop] ELSE r
    BY <1>1, <1>2, <1>5, <1>17, <1>20, <2>1 DEF set_reg_val
  <2>4. [r EXCEPT !["rsp"] = I!rsp_] = r
    BY <1>1, <1>15
  <2> QED BY <1>1, <1>5, <1>6, <1>11, <1>12, <1>13, <1>17, <1>20, <2>2, <2>3, <2>4, SameOperators
          DEF I!Execute, I!Ret, I!Stack, rm
<1>21. CASE i.icode = "IPOPQ"
  <2>1. i.rA \in Regs /\ rA = i.rA
    BY <1>1, <1>9, <1>21, SameOperators DEF I!BadRegister, I!reg_valid
  <2>2. dstM = i.rA /\ new_pc = I!ftpc
    BY <1>1, <1>7, <1>21, <2>1 DEF dstM, new_pc
  <2>3. isa_reg' = IF address \in Data
                   THEN [[r EXCEPT !["rsp"] = I!Pop] EXCEPT ![i.rA] = rm[I!rsp_]]
                   ELSE [r EXCEPT !["rsp"] = I!Pop]
    BY <1>1, <1>2, <1>5, <1>8, <1>17, <1>21, <2>1, <2>2 DEF set_reg_val
  <2>4. [[r EXCEPT !["rsp"] = I!Pop] EXCEPT ![i.rA] = rm[I!rsp_]] = [r EXCEPT !["rsp"] = I!Pop, ![i.rA] = rm[I!rsp_]]
    OBVIOUS
  <2> QED BY <1>1, <1>5, <1>6, <1>11, <1>12, <1>13, <1>17, <1>21, <2>2, <2>3, <2>4, SameOperators
          DEF I!Execute, I!Popq, I!Stack, rm
<1> QED BY <1>14, <1>18, <1>19, <1>20, <1>21
LEMMA StepRefines ==
  ASSUME IInv, sim_step
  PROVE  I!step_state
<1>1. status = AOK /\ (~imem_error => imem # NotYet)
  BY DEF sim_step, Loaded
<1>2. CASE imem_error
  BY <1>1, <1>2, FetchFails
<1>3. CASE ~imem_error
  <2>1. imem.icode \in AllIcodes
    BY <1>1, <1>3, Signals DEF Instr
  <2>2. I!Execute(imem)
    BY <1>1, <1>3, <2>1, StopInstructions, RegisterInstructions, MemoryInstructions DEF AllIcodes, Icodes
  <2> QED BY <1>1, <1>3, <2>2, Executes
<1> QED BY <1>2, <1>3

----------------------------------------------------------------------------
(* The invariant. *)

LEMMA InitIInv == ASSUME WellFormed, Init PROVE IInv
<1>1. code \in [Text -> Instr \cup {NotYet}] /\ \A a \in Text : code[a] # NotYet => Well(code[a])
  BY Y86Assumption DEF Init, WellFormed
<1>2. 0 \in Words
  BY Y86Assumption DEF Words
<1>3. reg0 = reg /\ mem0 = mem
  BY DEF Init, reg0, mem0, set_reg_val
<1>4. reg \in [Regs -> Words] /\ mem \in [Data -> Words]
  <2> HIDE DEF Words
  <2> QED BY <1>2, Y86Assumption DEF Init
<1> QED BY <1>1, <1>3, <1>4 DEF IInv

LEMMA LoadIInv == ASSUME WellFormed, IInv, Load PROVE IInv'
<1>1. PICK i \in Instrs : status = AOK /\ ~Loaded /\ code' = [code EXCEPT ![pc_in] = i]
                          /\ UNCHANGED <<reg, mem, status, pending>>
  BY DEF Load
<1>2. reg0' = reg0 /\ mem0' = mem0
  BY <1>1 DEF reg0, mem0, pending
<1>3. i \in Instr /\ Well(i)
  BY Y86Assumption DEF WellFormed
<1> QED BY <1>1, <1>2, <1>3 DEF IInv

LEMMA StepIInv == ASSUME IInv, sim_step PROVE IInv'
<1>1. status = AOK /\ (~imem_error => imem # NotYet) /\ code' = code /\ status' = Stat
  BY Outcome DEF sim_step, Loaded
<1>2. ASSUME Stat = AOK
      PROVE  reg0' \in [Regs -> Words] /\ mem0' \in [Data -> Words]
  <2>1. ~imem_error /\ ~dmem_error
    BY <1>2 DEF Stat, ADR, AOK, HLT, INS
  <2>2. /\ imem \in Instr /\ icode_ = imem.icode
        /\ reg0 \in [Regs -> Words] /\ mem0 \in [Data -> Words]
        /\ valA \in Words /\ valC \in Words /\ valP \in Words
        /\ valE \in Words /\ dstE \in Regs \cup {RNONE} /\ dstM \in Regs \cup {RNONE}
    BY <1>1, <2>1, Signals
  <2>3. reg0' = set_reg_val(set_reg_val(reg0, dstE, valE), dstM, valM)
        /\ mem0' = (IF writes THEN set_word_val(mem0, address, data) ELSE mem0)
    BY <1>2, Outcome
  <2>4. dstM # RNONE => valM \in Words
    <3>1. dstM # RNONE => mem_read
      BY DEF dstM, mem_read
    <3>2. mem_read => address \in Data
      BY <2>1 DEF dmem_error
    <3> HIDE DEF mem0, address, mem_read
    <3> QED BY <2>1, <2>2, <3>1, <3>2 DEF valM
  <2>5. writes => data \in Words
    BY <2>2 DEF writes, data
  <2> HIDE DEF reg0, mem0, valA, valC, valP, valE, dstE, dstM, valM, address, data, writes, Words, Stat
  <2>6. set_reg_val(reg0, dstE, valE) \in [Regs -> Words]
    BY <2>2 DEF set_reg_val
  <2>7. reg0' \in [Regs -> Words]
    BY <2>2, <2>3, <2>4, <2>6 DEF set_reg_val
  <2>8. mem0' \in [Data -> Words]
    BY <2>2, <2>3, <2>5 DEF set_word_val
  <2> QED BY <2>7, <2>8
<1> QED BY <1>1, <1>2 DEF IInv

LEMMA IInvHolds == ASSUME WellFormed PROVE Spec => []IInv
<1>1. Init => IInv
  BY InitIInv
<1>2. IInv /\ [Next]_vars => IInv'
  <2> SUFFICES ASSUME IInv, [Next]_vars PROVE IInv'
    OBVIOUS
  <2>1. CASE Load BY <2>1, LoadIInv
  <2>2. CASE sim_step BY <2>2, StepIInv
  <2>3. CASE UNCHANGED vars
    <3>1. code' = code /\ status' = status /\ reg0' = reg0 /\ mem0' = mem0
      BY <2>3 DEF vars, pending, reg0, mem0
    <3> QED BY <3>1 DEF IInv
  <2> QED BY <2>1, <2>2, <2>3 DEF Next
<1> QED BY <1>1, <1>2, PTL DEF Spec

\* ssim.c and seq-full.hcl execute every well-formed program as step_state does: after any number of
\* calls of sim_step, the registers, codes, memory, pc and status are those of as many steps.
THEOREM SeqRefinesIsa == ASSUME WellFormed PROVE Spec => RefinesIsa
<1>1. Init => I!Init
  <2> SUFFICES ASSUME Init PROVE I!Init
    OBVIOUS
  <2>1. reg0 = reg /\ mem0 = mem
    BY DEF Init, reg0, mem0, set_reg_val
  <2>2. status = AOK
    BY DEF Init
  <2> QED BY <2>1, <2>2, Before, SameOperators DEF Init, I!Init
<1>2. IInv /\ [Next]_vars => [I!Next]_(I!vars)
  <2> SUFFICES ASSUME IInv, [Next]_vars PROVE I!Next \/ UNCHANGED I!vars
    OBVIOUS
  <2>1. CASE Load
    <3>1. PICK i \in Instrs : status = AOK /\ ~Loaded /\ code' = [code EXCEPT ![pc_in] = i]
                              /\ UNCHANGED <<pc, reg, mem, cc, status, icode, pending>>
      BY <2>1 DEF Load
    <3>2. reg0' = reg0 /\ mem0' = mem0 /\ cc_in' = cc_in /\ pc_in' = pc_in
      BY <3>1 DEF reg0, mem0, pending
    <3>3. isa_reg' = isa_reg /\ isa_pc' = isa_pc
      BY <3>1, <3>2 DEF isa_reg, isa_pc, pending
    <3>4. pc_in \in Text /\ code[pc_in] = NotYet
      BY <3>1 DEF Loaded, imem_error, imem
    <3> QED BY <3>1, <3>2, <3>3, <3>4 DEF I!Next, I!Load
  <2>2. CASE sim_step
    BY <2>2, StepRefines DEF I!Next
  <2>3. CASE UNCHANGED vars
    BY <2>3 DEF vars, pending, I!vars, isa_reg, isa_pc, reg0, mem0
  <2> QED BY <2>1, <2>2, <2>3 DEF Next
<1> QED BY <1>1, <1>2, IInvHolds, PTL DEF Spec, RefinesIsa, I!Spec
=============================================================================
