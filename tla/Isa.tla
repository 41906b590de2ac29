-------------------------------- MODULE Isa --------------------------------
(***************************************************************************)
(* The instruction set, as step_state of misc/isa.c executes it: the state *)
(* a program sees, one action per instruction.  Registers are checked where*)
(* the code checks them; a call, push or pop whose address is invalid has  *)
(* already changed %rsp when it stops.                                     *)
(***************************************************************************)
EXTENDS Y86

VARIABLES code, pc, reg, mem, cc, stat
vars == <<code, pc, reg, mem, cc, stat>>

reg_valid(id) == id \in Regs

Init == /\ code = Image
        /\ mem \in [Data -> Quads]
        /\ reg = [r \in Regs |-> 0]
        /\ pc = 0 /\ cc = DEFAULT_CC /\ stat = AOK

\* What a program holds at an address comes to light when a processor first reads it.
Load == \E a \in Text, i \in Instrs :
          code[a] = NotYet /\ code' = [code EXCEPT ![a] = i] /\ UNCHANGED <<pc, reg, mem, cc, stat>>

ftpc == Wrap(pc + 1)
Stop(s) == stat' = s /\ UNCHANGED <<pc, mem, cc, code>>
GoTo(a) == pc' = a /\ UNCHANGED <<stat, code>>

\* Sets %rsp, then reads or writes the stack at a; the rest happens if a is valid.
Stack(rsp, a, rest) ==
  IF a \in Data THEN rest ELSE reg' = [reg EXCEPT !["rsp"] = rsp] /\ Stop(ADR)

rsp_ == reg["rsp"]
Push == Wrap(rsp_ - 1)
Pop == Wrap(rsp_ + 1)

Halt(i) == i.icode = "IHALT" /\ Stop(HLT) /\ UNCHANGED reg
Bad(i)  == i.icode \notin Icodes /\ Stop(INS) /\ UNCHANGED reg
Nop(i)  == i.icode = "INOP" /\ GoTo(ftpc) /\ UNCHANGED <<reg, mem, cc>>

\* The registers that each instruction insists on.
BadRegister(i) ==
  \/ i.icode \in {"IRRMOVQ", "IRMMOVQ", "IMRMOVQ", "IPUSHQ", "IPOPQ"} /\ ~reg_valid(i.rA)
  \/ i.icode \in {"IRRMOVQ", "IIRMOVQ", "IIADDQ"} /\ ~reg_valid(i.rB)
BadRegs(i) == BadRegister(i) /\ Stop(INS) /\ UNCHANGED reg

Rrmovq(i) == /\ i.icode = "IRRMOVQ"
             /\ reg' = IF cond_holds(cc, i.ifun) THEN [reg EXCEPT ![i.rB] = reg[i.rA]] ELSE reg
             /\ GoTo(ftpc) /\ UNCHANGED <<mem, cc>>
Irmovq(i) == /\ i.icode = "IIRMOVQ"
             /\ reg' = [reg EXCEPT ![i.rB] = i.valC]
             /\ GoTo(ftpc) /\ UNCHANGED <<mem, cc>>

Address(i) == Wrap(i.valC + get_reg_val(reg, i.rB))
Rmmovq(i) == /\ i.icode = "IRMMOVQ" /\ UNCHANGED reg
             /\ IF Address(i) \in Data
                THEN mem' = [mem EXCEPT ![Address(i)] = reg[i.rA]] /\ GoTo(ftpc) /\ UNCHANGED cc
                ELSE Stop(ADR)
Mrmovq(i) == /\ i.icode = "IMRMOVQ"
             /\ IF Address(i) \in Data
                THEN /\ reg' = [reg EXCEPT ![i.rA] = mem[Address(i)]]
                     /\ GoTo(ftpc) /\ UNCHANGED <<mem, cc>>
                ELSE Stop(ADR) /\ UNCHANGED reg

Opq(i) == /\ i.icode = "IOPQ"
          /\ LET a == get_reg_val(reg, i.rA)
                 b == get_reg_val(reg, i.rB)
             IN  reg' = set_reg_val(reg, i.rB, compute_alu(i.ifun, a, b)) /\ cc' = compute_cc(i.ifun, a, b)
          /\ GoTo(ftpc) /\ UNCHANGED mem
Iaddq(i) == /\ i.icode = "IIADDQ"
            /\ reg' = [reg EXCEPT ![i.rB] = Wrap(@ + i.valC)]
            /\ cc' = compute_cc(A_ADD, i.valC, reg[i.rB])
            /\ GoTo(ftpc) /\ UNCHANGED mem
Jxx(i) == /\ i.icode = "IJXX"
          /\ GoTo(IF cond_holds(cc, i.ifun) THEN i.valC ELSE ftpc) /\ UNCHANGED <<reg, mem, cc>>

Call(i) == /\ i.icode = "ICALL"
           /\ Stack(Push, Push, /\ reg' = [reg EXCEPT !["rsp"] = Push]
                                /\ mem' = [mem EXCEPT ![Push] = ftpc]
                                /\ GoTo(i.valC) /\ UNCHANGED cc)
Ret(i) == /\ i.icode = "IRET"
          /\ Stack(rsp_, rsp_, /\ reg' = [reg EXCEPT !["rsp"] = Pop]
                               /\ GoTo(mem[rsp_]) /\ UNCHANGED <<mem, cc>>)
Pushq(i) == /\ i.icode = "IPUSHQ"
            /\ Stack(Push, Push, /\ reg' = [reg EXCEPT !["rsp"] = Push]
                                 /\ mem' = [mem EXCEPT ![Push] = reg[i.rA]]
                                 /\ GoTo(ftpc) /\ UNCHANGED cc)
Popq(i) == /\ i.icode = "IPOPQ"
           /\ Stack(Pop, rsp_, /\ reg' = [reg EXCEPT !["rsp"] = Pop, ![i.rA] = mem[rsp_]]
                               /\ GoTo(ftpc) /\ UNCHANGED <<mem, cc>>)

Execute(i) ==
  \/ Halt(i) \/ Bad(i) \/ Nop(i) \/ BadRegs(i)
  \/ /\ ~BadRegister(i)
     /\ \/ Rrmovq(i) \/ Irmovq(i) \/ Rmmovq(i) \/ Mrmovq(i) \/ Opq(i) \/ Iaddq(i) \/ Jxx(i)
        \/ Call(i) \/ Ret(i) \/ Pushq(i) \/ Popq(i)

step_state ==
  /\ stat = AOK
  /\ IF pc \in Text THEN code[pc] # NotYet /\ Execute(code[pc]) ELSE Stop(ADR) /\ UNCHANGED reg

Next == Load \/ step_state
Spec == Init /\ [][Next]_vars
=============================================================================
