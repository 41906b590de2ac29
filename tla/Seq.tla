-------------------------------- MODULE Seq --------------------------------
(***************************************************************************)
(* The sequential processor: the control logic of seq/seq-full.hcl, under  *)
(* the names it has there, clocked by sim_step of seq/ssim.c.  A call      *)
(* first makes the writes that the call before it decided on, so the last  *)
(* instruction of a run leaves its writes undone: those of an instruction  *)
(* that faults never happen.  The limit on the number of instructions is   *)
(* not reached.                                                            *)
(***************************************************************************)
EXTENDS Y86

VARIABLES code, pc, reg, mem, cc, status, icode,
          pc_in, cc_in, destE, vale, destM, valm, mem_write, mem_addr, mem_data  \* decided, not yet written
pending == <<pc_in, cc_in, destE, vale, destM, valm, mem_write, mem_addr, mem_data>>
vars == <<code, pc, reg, mem, cc, status, icode, pending>>

Init == /\ code = Image
        /\ mem \in [Data -> Quads]
        /\ reg = [r \in Regs |-> 0] /\ cc = DEFAULT_CC /\ pc = 0
        /\ status = AOK /\ icode = "INOP"
        /\ pc_in = 0 /\ cc_in = DEFAULT_CC
        /\ destE = RNONE /\ vale = 0 /\ destM = RNONE /\ valm = 0
        /\ mem_write = FALSE /\ mem_addr = 0 /\ mem_data = 0

----------------------------------------------------------------------------
\* update_state: the state that the next instruction starts from.
FaultyReg0 == set_reg_val(set_reg_val(reg, destM, valm), destE, vale)
reg0 == set_reg_val(set_reg_val(reg, destE, vale), destM, valm)
mem0 == IF mem_write THEN set_word_val(mem, mem_addr, mem_data) ELSE mem

\* Fetch.
imem_error == pc_in \notin Text
imem == code[pc_in]
icode_ == IF imem_error THEN "INOP" ELSE imem.icode
ifun == IF imem_error THEN F_NONE ELSE imem.ifun
instr_valid == icode_ \in Icodes
need_regids == icode_ \in {"IRRMOVQ", "IOPQ", "IPUSHQ", "IPOPQ", "IIRMOVQ", "IRMMOVQ", "IMRMOVQ", "IIADDQ"}
need_valC == icode_ \in {"IIRMOVQ", "IRMMOVQ", "IMRMOVQ", "IJXX", "ICALL", "IIADDQ"}
rA == IF need_regids THEN imem.rA ELSE RNONE
rB == IF need_regids THEN imem.rB ELSE RNONE
valC == IF need_valC THEN imem.valC ELSE 0
valP == Wrap(pc_in + 1)

\* Decode.
Cnd == cond_holds(cc_in, ifun)
srcA == CASE icode_ \in {"IRRMOVQ", "IRMMOVQ", "IOPQ", "IPUSHQ"} -> rA
          [] icode_ \in {"IPOPQ", "IRET"} -> "rsp"
          [] OTHER -> RNONE
srcB == CASE icode_ \in {"IOPQ", "IRMMOVQ", "IMRMOVQ", "IIADDQ"} -> rB
          [] icode_ \in {"IPUSHQ", "IPOPQ", "ICALL", "IRET"} -> "rsp"
          [] OTHER -> RNONE
dstE == CASE icode_ = "IRRMOVQ" /\ Cnd -> rB
          [] icode_ \in {"IIRMOVQ", "IOPQ", "IIADDQ"} -> rB
          [] icode_ \in {"IPUSHQ", "IPOPQ", "ICALL", "IRET"} -> "rsp"
          [] OTHER -> RNONE
dstM == IF icode_ \in {"IMRMOVQ", "IPOPQ"} THEN rA ELSE RNONE
valA == get_reg_val(reg0, srcA)
valB == get_reg_val(reg0, srcB)

\* Execute.
aluA == CASE icode_ \in {"IRRMOVQ", "IOPQ"} -> valA
          [] icode_ \in {"IIRMOVQ", "IRMMOVQ", "IMRMOVQ", "IIADDQ"} -> valC
          [] icode_ \in {"ICALL", "IPUSHQ"} -> -1
          [] icode_ \in {"IRET", "IPOPQ"} -> 1
          [] OTHER -> 0
aluB == IF icode_ \in {"IRMMOVQ", "IMRMOVQ", "IOPQ", "ICALL", "IPUSHQ", "IRET", "IPOPQ", "IIADDQ"}
        THEN valB ELSE 0
alufun == IF icode_ = "IOPQ" THEN ifun ELSE A_ADD
set_cc == icode_ \in {"IOPQ", "IIADDQ"}
valE == compute_alu(alufun, aluA, aluB)

\* Memory.
mem_read == icode_ \in {"IMRMOVQ", "IPOPQ", "IRET"}
writes == icode_ \in {"IRMMOVQ", "IPUSHQ", "ICALL"}
address == CASE icode_ \in {"IRMMOVQ", "IPUSHQ", "ICALL", "IMRMOVQ"} -> valE
             [] icode_ \in {"IPOPQ", "IRET"} -> valA
             [] OTHER -> 0
data == CASE icode_ \in {"IRMMOVQ", "IPUSHQ"} -> valA
          [] icode_ = "ICALL" -> valP
          [] OTHER -> 0
dmem_error == (mem_read \/ writes) /\ address \notin Data
\* A read that fails leaves the value of an earlier one.
valM == IF mem_read THEN IF dmem_error THEN valm ELSE mem0[address] ELSE 0

Stat == CASE imem_error \/ dmem_error -> ADR
          [] ~imem_error /\ ~dmem_error /\ ~instr_valid -> INS
          [] ~imem_error /\ icode_ = "IHALT" -> HLT
          [] OTHER -> AOK

new_pc == CASE icode_ = "ICALL" -> valC
            [] icode_ = "IJXX" /\ Cnd -> valC
            [] icode_ = "IRET" -> valM
            [] OTHER -> valP

----------------------------------------------------------------------------
Loaded == ~imem_error => imem # NotYet
Load == \E i \in Instrs : status = AOK /\ ~Loaded /\ code' = [code EXCEPT ![pc_in] = i]
                            /\ UNCHANGED <<pc, reg, mem, cc, status, icode, pending>>

update_state == pc' = pc_in /\ cc' = cc_in /\ reg' = reg0 /\ mem' = mem0
sim_step ==
  /\ status = AOK /\ Loaded
  /\ update_state
  /\ icode' = icode_ /\ status' = Stat
  /\ pc_in' = new_pc
  /\ cc_in' = IF set_cc THEN compute_cc(alufun, aluA, aluB) ELSE cc_in
  /\ destE' = dstE /\ vale' = valE /\ destM' = dstM /\ valm' = valM
  /\ mem_write' = writes /\ mem_addr' = address /\ mem_data' = data
  /\ UNCHANGED code

Next == Load \/ sim_step
Spec == Init /\ [][Next]_vars

----------------------------------------------------------------------------
\* The instruction set's view: the pending writes have happened, except those of an instruction that
\* faulted.  step_state has changed %rsp by then, if the fault is that of a call, push or pop.
isa_reg == CASE status = AOK -> reg0
             [] status = ADR /\ icode # "IRET" -> set_reg_val(reg, destE, vale)
             [] OTHER -> reg
isa_pc == IF status = AOK THEN pc_in ELSE pc

I == INSTANCE Isa WITH pc <- isa_pc, reg <- isa_reg, mem <- mem0, cc <- cc_in, stat <- status

\* Every call of sim_step executes one instruction as step_state does, faults included.
RefinesIsa == I!Spec
=============================================================================
