----------------------------- MODULE TshProofs -----------------------------
(***************************************************************************)
(* Invariants of the tiny shell, for any number of processes, slots and    *)
(* keystrokes.                                                             *)
(***************************************************************************)
EXTENDS Tsh, NatLemmas, SequenceTheorems, FiniteSetTheorems

-----------------------------------------------------------------------------
(* What each call into the job table does to a well-typed table, and the   *)
(* invariants of the table on its own.                                     *)

USE TableAssumption

\* A scan that finds something stops at the least matching slot.
LEMMA FirstIsLeast ==
  ASSUME NEW S \in SUBSET Slots, S # {}
  PROVE  First(S) \in S /\ \A j \in S : First(S) <= j
<1>1. \E x \in S : \A y \in S : x <= y
  BY LeastElement DEF Slots
<1> QED BY <1>1 DEF First

\* maxjid returns an upper bound of the job ids, and a natural number.
LEMMA MaxJidIsBound ==
  ASSUME NEW js \in [Slots -> Job]
  PROVE  MaxJid(js) \in Nat /\ \A i \in Slots : js[i].jid <= MaxJid(js)
<1> DEFINE S == {0} \cup {js[i].jid : i \in Slots}
<1>1. \E m \in S : \A y \in S : y <= m
  <2> DEFINE f == [i \in 1 .. MaxJobs |-> js[i].jid]
  <2>1. f \in [1 .. MaxJobs -> Nat] BY DEF Slots, Job
  <2>2. S = {0} \cup {f[i] : i \in 1 .. MaxJobs} BY DEF Slots
  <2> HIDE DEF f, S
  <2> QED BY <2>1, <2>2, GreatestElement
<1>2. S \subseteq Nat BY DEF Job
<1>3. Max(S) \in S /\ \A y \in S : Max(S) >= y
  <2> HIDE DEF S
  <2>1. \E m \in S : \A y \in S : m >= y BY <1>1, <1>2
  <2> QED BY <2>1 DEF Max
<1> QED BY <1>2, <1>3 DEF MaxJid

\* addjob changes nothing, or writes the new job into one free slot.
LEMMA AddJobEffect ==
  ASSUME TableTypeOK, NEW p \in Pids \cup {NoPid}, NEW st \in JobStates, AddJob(p, st)
  PROVE  \/ (p = NoPid \/ FreeSlots = {}) /\ UNCHANGED table
         \/ /\ p # NoPid
            /\ \E i \in FreeSlots :
                 jobs' = [jobs EXCEPT ![i] = [pid |-> p, jid |-> nextjid, state |-> st]]
            /\ nextjid' = IF nextjid + 1 > MaxJobs THEN 1 ELSE nextjid + 1
<1>1. CASE p = NoPid \/ FreeSlots = {} BY <1>1 DEF AddJob
<1>2. CASE ~(p = NoPid \/ FreeSlots = {})
  <2>1. First(FreeSlots) \in FreeSlots BY <1>2, FirstIsLeast DEF FreeSlots
  <2> QED BY <1>2, <2>1 DEF AddJob
<1> QED BY <1>1, <1>2

\* deletejob changes nothing, or clears one slot of the process and puts the
\* counter above every job id that is left.
LEMMA DeleteJobEffect ==
  ASSUME TableTypeOK, NEW p, DeleteJob(p)
  PROVE  \/ SlotsOfPid(p) = {} /\ UNCHANGED table
         \/ /\ \E i \in SlotsOfPid(p) : jobs' = [jobs EXCEPT ![i] = ClearedJob]
            /\ jobs' \in [Slots -> Job] /\ nextjid' \in Nat \ {0}
            /\ \A k \in Slots : jobs'[k].jid < nextjid'
<1>1. CASE SlotsOfPid(p) = {} BY <1>1 DEF DeleteJob
<1>2. CASE SlotsOfPid(p) # {}
  <2>1. First(SlotsOfPid(p)) \in SlotsOfPid(p) BY <1>2, FirstIsLeast DEF SlotsOfPid
  <2>2. jobs' = [jobs EXCEPT ![First(SlotsOfPid(p))] = ClearedJob]
        /\ nextjid' = MaxJid(jobs') + 1
    BY <1>2 DEF DeleteJob
  <2>3. jobs' \in [Slots -> Job]
    BY <2>2 DEF TableTypeOK, Job, ClearedJob, JobStates
  <2>4. MaxJid(jobs') \in Nat /\ \A i \in Slots : jobs'[i].jid <= MaxJid(jobs')
    BY <2>3, MaxJidIsBound
  <2>5. \A k \in Slots : jobs'[k].jid \in Nat BY <2>3 DEF Job
  <2>6. nextjid' \in Nat \ {0} /\ \A k \in Slots : jobs'[k].jid < nextjid'
    <3>1. nextjid' = MaxJid(jobs') + 1 /\ MaxJid(jobs') \in Nat BY <2>2, <2>4
    <3>2. nextjid' \in Nat \ {0} BY <3>1
    <3>3. ASSUME NEW k \in Slots PROVE jobs'[k].jid < nextjid'
      <4>1. jobs'[k].jid \in Nat /\ jobs'[k].jid <= MaxJid(jobs') BY <2>4, <2>5
      <4> QED BY <3>1, <4>1
    <3> QED BY <3>2, <3>3
  <2> QED BY <2>1, <2>2, <2>3, <2>6, Zenon
<1> QED BY <1>1, <1>2

\* Every call keeps the table well typed.
LEMMA AddJobType ==
  ASSUME TableTypeOK, NEW p \in Pids \cup {NoPid}, NEW st \in JobStates, AddJob(p, st)
  PROVE  TableTypeOK'
BY AddJobEffect DEF TableTypeOK, Job, FreeSlots, table

LEMMA DeleteJobType ==
  ASSUME TableTypeOK, NEW p, DeleteJob(p)
  PROVE  TableTypeOK'
BY DeleteJobEffect DEF TableTypeOK, table

LEMMA SetStateType ==
  ASSUME TableTypeOK, NEW i \in Slots, NEW st \in JobStates, SetState(i, st)
  PROVE  TableTypeOK'
BY DEF TableTypeOK, SetState, Job

-----------------------------------------------------------------------------
\* Type correctness of the table on its own.
THEOREM TableTypeCorrect == TableSpec => []TableTypeOK
<1>1. InitJobs => TableTypeOK
  BY DEF InitJobs, TableTypeOK, Job, ClearedJob, JobStates
<1>2. TableTypeOK /\ [TableNext]_table => TableTypeOK'
  <2> SUFFICES ASSUME TableTypeOK, [TableNext]_table PROVE TableTypeOK'
    OBVIOUS
  <2>1. ASSUME NEW p \in Pids, TableAdd(p) PROVE TableTypeOK'
    BY <2>1, AddJobType DEF TableAdd, JobStates
  <2>2. ASSUME NEW p \in Pids, TableDelete(p) PROVE TableTypeOK'
    BY <2>2, DeleteJobType DEF TableDelete
  <2>3. CASE UNCHANGED table BY <2>3 DEF table, TableTypeOK
  <2> QED BY <2>1, <2>2, <2>3 DEF TableNext
<1> QED BY <1>1, <1>2, PTL DEF TableSpec

\* A slot is never left half cleared, whatever the sequence of calls.
THEOREM SlotsWholeCorrect == TableSpec => []SlotsWhole
<1>1. InitJobs => SlotsWhole
  BY DEF InitJobs, SlotsWhole, ClearedJob
<1>2. TableTypeOK /\ SlotsWhole /\ [TableNext]_table => SlotsWhole'
  <2> SUFFICES ASSUME TableTypeOK, SlotsWhole, [TableNext]_table PROVE SlotsWhole'
    OBVIOUS
  <2>1. ASSUME NEW p \in Pids, TableAdd(p) PROVE SlotsWhole'
    <3>1. PICK st \in {"FG", "BG"} : AddJob(p, st) BY <2>1 DEF TableAdd
    <3>2. CASE UNCHANGED table BY <3>2 DEF table, SlotsWhole
    <3>3. ASSUME NEW i \in FreeSlots,
                 jobs' = [jobs EXCEPT ![i] = [pid |-> p, jid |-> nextjid, state |-> st]]
          PROVE  SlotsWhole'
      BY <3>3 DEF SlotsWhole, TableTypeOK, Job
    <3> QED BY <3>1, <3>2, <3>3, AddJobEffect DEF JobStates
  <2>2. ASSUME NEW p \in Pids, TableDelete(p) PROVE SlotsWhole'
    <3>1. DeleteJob(p) BY <2>2 DEF TableDelete
    <3>2. CASE UNCHANGED table BY <3>2 DEF table, SlotsWhole
    <3>3. ASSUME NEW i \in SlotsOfPid(p), jobs' = [jobs EXCEPT ![i] = ClearedJob]
          PROVE  SlotsWhole'
      BY <3>3 DEF SlotsWhole, TableTypeOK, Job, ClearedJob
    <3> QED BY <3>1, <3>2, <3>3, DeleteJobEffect
  <2>3. CASE UNCHANGED table BY <2>3 DEF table, SlotsWhole
  <2> QED BY <2>1, <2>2, <2>3 DEF TableNext
<1> QED BY <1>1, <1>2, TableTypeCorrect, PTL DEF TableSpec

\* The next job id is fresh until a live job is numbered MAXJOBS.
THEOREM NextJidFreshCorrect == TableSpec => []NextJidFresh
<1>1. InitJobs => NextJidFresh
  BY DEF InitJobs, NextJidFresh, ClearedJob
<1>2. TableTypeOK /\ SlotsWhole /\ NextJidFresh /\ [TableNext]_table => NextJidFresh'
  <2> SUFFICES ASSUME TableTypeOK, SlotsWhole, NextJidFresh, [TableNext]_table
               PROVE  NextJidFresh'
    OBVIOUS
  <2>1. ASSUME NEW p \in Pids, TableAdd(p) PROVE NextJidFresh'
    <3>1. PICK st \in {"FG", "BG"} : AddJob(p, st) BY <2>1 DEF TableAdd
    <3>2. CASE UNCHANGED table BY <3>2 DEF table, NextJidFresh
    <3>3. ASSUME NEW i \in FreeSlots,
                 jobs' = [jobs EXCEPT ![i] = [pid |-> p, jid |-> nextjid, state |-> st]],
                 nextjid' = (IF nextjid + 1 > MaxJobs THEN 1 ELSE nextjid + 1)
          PROVE  NextJidFresh'
      <4> SUFFICES ASSUME \A k \in Slots : jobs'[k].jid < MaxJobs,
                          NEW k \in Slots
                   PROVE  jobs'[k].jid < nextjid'
        BY DEF NextJidFresh
      <4>1. i \in Slots /\ jobs'[i].jid = nextjid /\ jobs[i].jid = 0
        BY <3>3 DEF FreeSlots, TableTypeOK, SlotsWhole
      <4>2. \A j \in Slots \ {i} : jobs'[j].jid = jobs[j].jid
        BY <3>3 DEF TableTypeOK
      <4>3. \A j \in Slots : jobs[j].jid < MaxJobs
        BY <4>1, <4>2
      <4>4. \A j \in Slots : jobs[j].jid < nextjid
        BY <4>3 DEF NextJidFresh
      <4>5. nextjid < MaxJobs BY <4>1
      <4>6. nextjid \in Nat /\ \A j \in Slots : jobs[j].jid \in Nat BY DEF TableTypeOK, Job
      <4>7. nextjid' = nextjid + 1 BY <3>3, <4>5, <4>6
      <4> QED BY <4>1, <4>2, <4>4, <4>6, <4>7
    <3> QED BY <3>1, <3>2, <3>3, AddJobEffect DEF JobStates
  <2>2. ASSUME NEW p \in Pids, TableDelete(p) PROVE NextJidFresh'
    BY <2>2, DeleteJobEffect DEF TableDelete, NextJidFresh, table
  <2>3. CASE UNCHANGED table BY <2>3 DEF table, NextJidFresh
  <2> QED BY <2>1, <2>2, <2>3 DEF TableNext
<1> QED BY <1>1, <1>2, TableTypeCorrect, SlotsWholeCorrect, PTL DEF TableSpec

-----------------------------------------------------------------------------
(* The shell. *)

USE ShellAssumption

\* The pointers do_bgfg can hold point into the array.
LEMMA NameableSlots == Nameable \subseteq Slots
<1>1. ASSUME NEW p \in Pids, SlotsOfPid(p) # {} PROVE First(SlotsOfPid(p)) \in Slots
  BY <1>1, FirstIsLeast DEF SlotsOfPid
<1>2. ASSUME NEW i \in Slots PROVE First(SlotsOfJid(jobs[i].jid)) \in Slots
  <2>1. i \in SlotsOfJid(jobs[i].jid) BY DEF SlotsOfJid
  <2> QED BY <2>1, FirstIsLeast DEF SlotsOfJid
<1> QED BY <1>1, <1>2 DEF Nameable

\* The innermost handler is one of the three, and popping it keeps a sequence.
LEMMA StackTop ==
  ASSUME TypeOK, stack # <<>>
  PROVE  Head(stack) \in Handled /\ Tail(stack) \in Seq(Handled)
BY HeadTailProperties DEF TypeOK

\* HandlerReturns keeps the types of what it writes.
LEMMA HandlerReturnsType ==
  ASSUME TypeOK, NEW s \in Handled, HandlerAt(s, hpc[s]), HandlerReturns(s)
  PROVE  /\ stack' \in Seq(Handled)
         /\ hpc' \in [Handled -> {"idle", "reap", "act", "look", "kill"}]
         /\ hpid' \in [Handled -> Pids \cup {NoPid}]
         /\ mpc' \in {"read", "fork", "add", "unblock", "cont", "setstate",
                      "wait", "suspend", "asleep", "exited", "crashed"}
BY StackTop DEF TypeOK, HandlerReturns, HandlerAt

LEMMA TypeOKInit == Init => TypeOK
<1> SUFFICES ASSUME Init PROVE TypeOK OBVIOUS
<1>1. TableTypeOK BY DEF Init, InitJobs, TableTypeOK, Job, ClearedJob, JobStates
<1>2. 1 \in Slots BY DEF Slots
<1>3. stack \in Seq(Handled) BY EmptySeq DEF Init
<1>4. proc \in [Pids -> Phases] /\ psig \in [Pids -> SUBSET {"INT", "TSTP"}]
  BY DEF Init, Phases
<1>5. hpc \in [Handled -> {"idle", "reap", "act", "look", "kill"}]
      /\ hpid \in [Handled -> Pids \cup {NoPid}]
  BY DEF Init
<1> QED BY <1>1, <1>2, <1>3, <1>4, <1>5 DEF Init, TypeOK, Phases, Zombie

LEMMA TypeOKStep == TypeOK /\ [Next]_vars => TypeOK'
<1> SUFFICES ASSUME TypeOK, [Next]_vars PROVE TypeOK' OBVIOUS
<1> USE DEF table, mainVars, sigVars, childVars
<1>1. CASE ReadCommand BY <1>1 DEF ReadCommand, TypeOK, TableTypeOK
<1>2. CASE Fork BY <1>2 DEF Fork, TypeOK, TableTypeOK, Phases
<1>3. CASE ForkFails BY <1>3 DEF ForkFails, TypeOK, TableTypeOK
<1>4. CASE Add
  <2>1. TableTypeOK' BY <1>4, AddJobType DEF Add, TypeOK, JobStates
  <2> QED BY <1>4, <2>1 DEF Add, TypeOK
<1>5. CASE Unblock BY <1>5 DEF Unblock, Return, TypeOK, TableTypeOK
<1>6. CASE BgFg BY <1>6, NameableSlots DEF BgFg, TypeOK, TableTypeOK
<1>7. CASE SendCont
  <2> DEFINE p == jobs[slot].pid
  <2>1. pending' \subseteq Handled BY <1>7 DEF SendCont, TypeOK, Handled
  <2>2. proc' \in [Pids -> Phases] BY <1>7 DEF SendCont, TypeOK, Phases
  <2>3. psig' \in [Pids -> SUBSET {"INT", "TSTP"}]
    <3>1. UNCHANGED psig \/ psig' = [psig EXCEPT ![p] = @ \ {"TSTP"}]
      BY <1>7 DEF SendCont
    <3>2. CASE psig' = [psig EXCEPT ![p] = @ \ {"TSTP"}]
      <4> HIDE DEF p
      <4>1. psig' = [q \in Pids |-> IF q = p THEN psig[q] \ {"TSTP"} ELSE psig[q]]
        BY <3>2 DEF TypeOK
      <4>2. \A q \in Pids : psig[q] \in SUBSET {"INT", "TSTP"} BY DEF TypeOK
      <4> QED BY <4>1, <4>2
    <3> QED BY <3>1, <3>2 DEF TypeOK
  <2>4. unreported' \subseteq Pids BY <1>7 DEF SendCont, TypeOK
  <2> QED BY <1>7, <2>1, <2>2, <2>3, <2>4 DEF SendCont, TypeOK, TableTypeOK
<1>8. CASE SetJobState
  <2>1. TableTypeOK' BY <1>8, SetStateType DEF SetJobState, TypeOK, JobStates
  <2>2. 1 \in Slots BY DEF Slots
  <2> QED BY <1>8, <2>1, <2>2 DEF SetJobState, Return, TypeOK
<1>9. CASE WaitTest BY <1>9 DEF WaitTest, TypeOK, TableTypeOK
<1>10. CASE Suspend BY <1>10 DEF Suspend, TypeOK, TableTypeOK
<1>11. CASE Exit BY <1>11 DEF Exit, TypeOK, TableTypeOK
<1>12. ASSUME NEW s \in Handled, Deliver(s) PROVE TypeOK'
  <2>1. <<s>> \o stack \in Seq(Handled) BY ConcatProperties DEF TypeOK
  <2> QED BY <1>12, <2>1 DEF Deliver, TypeOK, TableTypeOK
<1>13. CASE Reap
  <2>1. PICK p \in Waitable :
          /\ hpid' = [hpid EXCEPT !["CHLD"] = p]
          /\ hst' = proc[p]
          /\ proc' = [proc EXCEPT ![p] = IF @ \in Zombie THEN "none" ELSE @]
          /\ unreported' = unreported \ {p}
    BY <1>13 DEF Reap
  <2>2. p \in Pids BY DEF Waitable, TypeOK
  <2>3. proc' \in [Pids -> Phases] BY <2>1, <2>2 DEF TypeOK, Phases
  <2> QED BY <1>13, <2>1, <2>2, <2>3 DEF Reap, TypeOK, TableTypeOK
<1>14. CASE ReapNone
  <2>1. HandlerAt("CHLD", hpc["CHLD"]) BY <1>14 DEF ReapNone, HandlerAt
  <2> QED BY <1>14, <2>1, HandlerReturnsType DEF ReapNone, TypeOK, TableTypeOK, Handled
<1>15. CASE Act
  <2> DEFINE p == hpid["CHLD"]
  <2>1. TableTypeOK' /\ dropped' \subseteq Pids /\ mpc' \in {mpc, "crashed"}
    <3>1. CASE DeleteJob(p) /\ dropped' = dropped \ {p} /\ UNCHANGED mpc
      BY <3>1, DeleteJobType DEF TypeOK
    <3>2. CASE SlotsOfPid(p) # {} /\ SetState(First(SlotsOfPid(p)), "ST") /\ UNCHANGED <<mpc, dropped>>
      <4>1. First(SlotsOfPid(p)) \in Slots BY <3>2, FirstIsLeast DEF SlotsOfPid
      <4> QED BY <3>2, <4>1, SetStateType DEF TypeOK, JobStates
    <3>3. CASE mpc' = "crashed" /\ UNCHANGED <<table, dropped>>
      BY <3>3 DEF TypeOK, TableTypeOK
    <3> QED BY <1>15, <3>1, <3>2, <3>3 DEF Act
  <2> QED BY <1>15, <2>1 DEF Act, ActFrame, TypeOK, Phases, Zombie, Handled
<1>16. ASSUME NEW s \in {"INT", "TSTP"}, Look(s) PROVE TypeOK'
  <2>1. s \in Handled BY DEF Handled
  <2>2. CASE FgPid # NoPid
    <3>1. FgPid \in Pids \cup {NoPid}
      <4>1. First(FgSlots) \in Slots BY <2>2, FirstIsLeast DEF FgPid, FgSlots
      <4> QED BY <4>1 DEF FgPid, TypeOK, TableTypeOK, Job
    <3> QED BY <1>16, <2>1, <2>2, <3>1 DEF Look, TypeOK, TableTypeOK
  <2>3. CASE FgPid = NoPid
    <3>1. HandlerAt(s, hpc[s]) BY <1>16 DEF Look, HandlerAt
    <3> QED BY <1>16, <2>1, <2>3, <3>1, HandlerReturnsType DEF Look, TypeOK, TableTypeOK
  <2> QED BY <2>2, <2>3
<1>17. ASSUME NEW s \in {"INT", "TSTP"}, Kill(s) PROVE TypeOK'
  <2>1. s \in Handled /\ HandlerAt(s, hpc[s]) BY <1>17 DEF Kill, HandlerAt, Handled
  <2>2. psig' \in [Pids -> SUBSET {"INT", "TSTP"}] BY <1>17 DEF Kill, TypeOK
  <2> QED BY <1>17, <2>1, <2>2, HandlerReturnsType DEF Kill, TypeOK, TableTypeOK
<1>18. ASSUME NEW p \in Pids, SetPgid(p) PROVE TypeOK'
  BY <1>18 DEF SetPgid, ChildTo, TypeOK, TableTypeOK, Phases
<1>19. ASSUME NEW p \in Pids, Execve(p) PROVE TypeOK'
  BY <1>19 DEF Execve, ChildTo, TypeOK, TableTypeOK, Phases
<1>20. ASSUME NEW p \in Pids, Die(p) PROVE TypeOK'
  BY <1>20 DEF Die, ChildTo, TypeOK, TableTypeOK, Phases, Zombie, Handled
<1>21. ASSUME NEW p \in Pids, Stop(p) PROVE TypeOK'
  BY <1>21 DEF Stop, ChildTo, TypeOK, TableTypeOK, Phases, Handled
<1>22. ASSUME NEW p \in Pids, TakeSignal(p) PROVE TypeOK'
  BY <1>20, <1>21, <1>22 DEF TakeSignal, TypeOK, TableTypeOK
<1>23. ASSUME NEW s \in {"INT", "TSTP"}, Key(s) PROVE TypeOK'
  BY <1>23 DEF Key, TypeOK, TableTypeOK, Handled
<1>24. CASE UNCHANGED vars BY <1>24 DEF vars, TypeOK, TableTypeOK
<1> QED
  BY <1>1, <1>2, <1>3, <1>4, <1>5, <1>6, <1>7, <1>8, <1>9, <1>10, <1>11, <1>12, <1>13,
     <1>14, <1>15, <1>16, <1>17, <1>18, <1>19, <1>20, <1>21, <1>22, <1>23, <1>24
  DEF Next, MainStep, HandlerStep, ChildStep

\* Every variable stays in its type.
THEOREM TypeCorrect == Spec => []TypeOK
BY TypeOKInit, TypeOKStep, PTL DEF Spec

-----------------------------------------------------------------------------
(* Who writes what: each lemma names the steps that can change a variable. *)

LEMMA TableWriters ==
  [Next]_vars => UNCHANGED jobs \/ Add \/ SetJobState \/ Act
BY DEF Next, vars, table, mainVars, sigVars, childVars, MainStep, HandlerStep, ChildStep,
       ReadCommand, Fork, ForkFails, Unblock, BgFg, SendCont, WaitTest, Suspend, Exit,
       Deliver, Reap, ReapNone, Look, Kill, SetPgid, Execve, Die, Stop, TakeSignal, Key

LEMMA DroppedWriters ==
  [Next]_vars => UNCHANGED dropped \/ Add \/ Act
BY DEF Next, vars, table, mainVars, sigVars, childVars, MainStep, HandlerStep, ChildStep,
       ReadCommand, Fork, ForkFails, Unblock, BgFg, SendCont, SetJobState, WaitTest, Suspend,
       Exit, Deliver, Reap, ReapNone, Look, Kill, SetPgid, Execve, Die, Stop, TakeSignal, Key

LEMMA StackWriters ==
  [Next]_vars => \/ UNCHANGED <<stack, hpc>>
                 \/ \E s \in Handled : Deliver(s)
                 \/ Reap \/ ReapNone \/ Act
                 \/ \E s \in {"INT", "TSTP"} : Look(s) \/ Kill(s)
BY DEF Next, vars, table, mainVars, sigVars, childVars, MainStep, HandlerStep, ChildStep,
       ReadCommand, Fork, ForkFails, Add, Unblock, BgFg, SendCont, SetJobState, WaitTest,
       Suspend, Exit, SetPgid, Execve, Die, Stop, TakeSignal, Key

\* Only the SIGCHLD handler writes its own locals.
LEMMA ChldWriters ==
  [Next]_vars /\ TypeOK =>
    \/ hpc'["CHLD"] = hpc["CHLD"] /\ hpid'["CHLD"] = hpid["CHLD"] /\ hst' = hst
    \/ Deliver("CHLD") \/ Reap \/ ReapNone \/ Act
BY DEF Next, vars, table, mainVars, sigVars, childVars, MainStep, HandlerStep, ChildStep,
       ReadCommand, Fork, ForkFails, Add, Unblock, BgFg, SendCont, SetJobState, WaitTest,
       Suspend, Exit, SetPgid, Execve, Die, Stop, TakeSignal, Key, Deliver, Look, Kill,
       HandlerReturns, TypeOK, Handled

\* Only main creates a child, and only waitpid removes one.
LEMMA ProcWriters ==
  [Next]_vars /\ TypeOK =>
    \/ \A p \in Pids : proc'[p] = "none" <=> proc[p] = "none"
    \/ Fork \/ Reap
<1> SUFFICES ASSUME [Next]_vars, TypeOK,
                    NEW p \in Pids, ~(proc'[p] = "none" <=> proc[p] = "none")
             PROVE  Fork \/ Reap
  OBVIOUS
<1>1. ~UNCHANGED proc OBVIOUS
<1>2. ~SendCont
  <2> SUFFICES ASSUME SendCont PROVE FALSE OBVIOUS
  <2> DEFINE q == jobs[slot].pid
  <2>1. proc[q] = "stopped" /\ proc' = [proc EXCEPT ![q] = "running"]
    BY <1>1 DEF SendCont, childVars
  <2> HIDE DEF q
  <2> QED BY <2>1 DEF TypeOK
<1>3. \A q \in Pids : ~SetPgid(q) /\ ~Execve(q)
  BY DEF SetPgid, Execve, ChildTo, TypeOK
<1>4. \A q \in Pids : ~Die(q) /\ ~Stop(q)
  BY DEF Die, Stop, ChildTo, TypeOK, Phases, Zombie
<1>5. \A q \in Pids : ~TakeSignal(q)
  BY <1>1, <1>4 DEF TakeSignal
<1> QED
  BY <1>1, <1>2, <1>3, <1>4, <1>5
  DEF Next, vars, table, mainVars, sigVars, childVars, MainStep, HandlerStep, ChildStep,
      ReadCommand, ForkFails, Add, Unblock, BgFg, SetJobState, WaitTest, Suspend, Exit,
      Deliver, ReapNone, Act, ActFrame, Look, Kill, Key

\* main moves itself; a handler only wakes it from sigsuspend or, at worst,
\* crashes it; the child's pid is eval's own.
LEMMA MainWriters ==
  [Next]_vars =>
    \/ /\ UNCHANGED <<cur, blocked>>
       /\ mpc' = mpc \/ (mpc = "asleep" /\ mpc' = "wait") \/ mpc' \in {"exited", "crashed"}
    \/ ReadCommand \/ Fork \/ ForkFails \/ Add \/ Unblock \/ BgFg \/ SendCont
    \/ SetJobState \/ WaitTest \/ Suspend
BY DEF Next, vars, table, mainVars, sigVars, childVars, MainStep, HandlerStep, ChildStep,
       Exit, Deliver, Reap, ReapNone, Act, ActFrame, Look, Kill, HandlerReturns,
       SetPgid, Execve, Die, Stop, TakeSignal, Key

-----------------------------------------------------------------------------
(* ShellInv is inductive: one lemma per part. *)

\* While main runs, no handler does.
LEMMA MainRunsAlone ==
  ASSUME RunningOnStack, TypeOK, stack = <<>>
  PROVE  \A s \in Handled : hpc[s] = "idle"
BY DEF RunningOnStack, TypeOK

LEMMA RunningOnStackStep == ShellInv /\ [Next]_vars => RunningOnStack'
<1> SUFFICES ASSUME ShellInv, [Next]_vars,
                    NEW t \in Handled, hpc'[t] # "idle"
             PROVE  \E i \in 1 .. Len(stack') : stack'[i] = t
  BY DEF RunningOnStack
<1> USE DEF ShellInv
<1>1. ASSUME UNCHANGED stack, hpc[t] # "idle" PROVE \E i \in 1 .. Len(stack') : stack'[i] = t
  BY <1>1 DEF RunningOnStack
<1>2. ASSUME NEW s \in Handled, Deliver(s) PROVE \E i \in 1 .. Len(stack') : stack'[i] = t
  <2>1. stack' = <<s>> \o stack /\ stack \in Seq(Handled) /\ <<s>> \in Seq(Handled)
    BY <1>2 DEF Deliver, TypeOK
  <2>2. Len(stack') = 1 + Len(stack) /\ stack'[1] = s
        /\ \A i \in 1 .. Len(stack) : stack'[i + 1] = stack[i]
    BY <2>1
  <2>3. CASE t = s BY <2>1, <2>2, <2>3
  <2>4. CASE t # s
    <3>1. hpc[t] # "idle" BY <1>2, <2>4 DEF Deliver, TypeOK
    <3>2. PICK i \in 1 .. Len(stack) : stack[i] = t BY <3>1 DEF RunningOnStack
    <3> QED BY <2>1, <2>2, <3>2
  <2> QED BY <2>3, <2>4
<1>3. ASSUME NEW s \in Handled, HandlerAt(s, hpc[s]), HandlerReturns(s)
      PROVE  \E i \in 1 .. Len(stack') : stack'[i] = t
  <2>1. t # s /\ hpc[t] # "idle" BY <1>3 DEF HandlerReturns, TypeOK
  <2>2. stack \in Seq(Handled) /\ stack # <<>> /\ Head(stack) = s /\ stack' = Tail(stack)
    BY <1>3 DEF HandlerAt, HandlerReturns, TypeOK
  <2>3. PICK i \in 1 .. Len(stack) : stack[i] = t BY <2>1 DEF RunningOnStack
  <2>4. i # 1 BY <2>1, <2>2, <2>3
  <2>5. i - 1 \in 1 .. Len(stack') /\ stack'[i - 1] = t
    BY <2>2, <2>3, <2>4, HeadTailProperties
  <2> QED BY <2>5
<1>4. CASE Reap
  <2>1. UNCHANGED stack /\ hpc[t] # "idle"
    BY <1>4 DEF Reap, HandlerAt, TypeOK, Handled
  <2> QED BY <1>1, <2>1
<1>5. CASE Act
  <2>1. UNCHANGED stack /\ hpc[t] # "idle"
    BY <1>5 DEF Act, ActFrame, HandlerAt, TypeOK, Handled
  <2> QED BY <1>1, <2>1
<1>6. CASE ReapNone
  BY <1>6, <1>3 DEF ReapNone, HandlerAt, Handled
<1>7. ASSUME NEW s \in {"INT", "TSTP"}, Look(s)
      PROVE  \E i \in 1 .. Len(stack') : stack'[i] = t
  <2>1. CASE FgPid # NoPid
    <3>1. UNCHANGED stack /\ hpc[t] # "idle"
      BY <1>7, <2>1 DEF Look, HandlerAt, TypeOK, Handled
    <3> QED BY <1>1, <3>1
  <2>2. CASE FgPid = NoPid BY <1>3, <1>7, <2>2 DEF Look, HandlerAt, Handled
  <2> QED BY <2>1, <2>2
<1>8. ASSUME NEW s \in {"INT", "TSTP"}, Kill(s)
      PROVE  \E i \in 1 .. Len(stack') : stack'[i] = t
  BY <1>3, <1>8 DEF Kill, HandlerAt, Handled
<1>9. CASE UNCHANGED <<stack, hpc>> BY <1>1, <1>9
<1> QED BY <1>2, <1>4, <1>5, <1>6, <1>7, <1>8, <1>9, StackWriters

LEMMA ForkWindowStep == ShellInv /\ [Next]_vars => ForkWindow'
<1> SUFFICES ASSUME ShellInv, [Next]_vars PROVE ForkWindow' OBVIOUS
<1> USE DEF ShellInv
<1> DEFINE Window == mpc \in {"fork", "add", "unblock"}
<1>1. ASSUME mpc' \in {"fork", "add", "unblock"} PROVE blocked' /\ hpc'["CHLD"] = "idle"
  <2>1. CASE ReadCommand
    <3>1. stack = <<>> /\ blocked' /\ UNCHANGED hpc BY <2>1 DEF ReadCommand, MainAt, sigVars
    <3> QED BY <3>1, MainRunsAlone DEF Handled
  <2>2. ASSUME Window, blocked' = blocked PROVE blocked' /\ hpc'["CHLD"] = "idle"
    <3>1. blocked /\ hpc["CHLD"] = "idle" BY <2>2 DEF ForkWindow
    <3>2. ~Deliver("CHLD") /\ ~Reap /\ ~ReapNone /\ ~Act
      BY <3>1 DEF Deliver, Masked, Reap, ReapNone, Act, HandlerAt
    <3> QED BY <2>2, <3>1, <3>2, ChldWriters
  <2>3. CASE Fork \/ ForkFails \/ Add
    BY <2>2, <2>3 DEF Fork, ForkFails, Add, MainAt
  <2>4. ~Unblock /\ ~BgFg /\ ~SendCont /\ ~SetJobState /\ ~WaitTest /\ ~Suspend
    BY <1>1 DEF Unblock, BgFg, SendCont, SetJobState, WaitTest, Suspend, Return
  <2>5. CASE mpc' = mpc /\ UNCHANGED <<cur, blocked>> BY <1>1, <2>2, <2>5
  <2> QED BY <1>1, <2>1, <2>3, <2>4, <2>5, MainWriters
<1>2. ASSUME mpc' = "add", cur' # NoPid PROVE proc'[cur'] # "none" /\ SlotsOfPid(cur)' = {}
  <2>1. CASE Fork
    <3>1. PICK p \in Pids : proc[p] = "none" /\ cur' = p /\ proc' = [proc EXCEPT ![p] = "forked"]
      BY <2>1 DEF Fork
    <3>2. hpc["CHLD"] = "idle" BY <2>1 DEF Fork, MainAt, ForkWindow
    <3>3. SlotsOfPid(p) = {}
      BY <3>1, <3>2, TableAssumption DEF NoStaleEntry, SlotsOfPid
    <3>4. UNCHANGED jobs BY <2>1 DEF Fork, table
    <3> QED BY <3>1, <3>3, <3>4 DEF SlotsOfPid, TypeOK
  <2>2. CASE ForkFails BY <1>2, <2>2 DEF ForkFails
  <2>3. CASE mpc = "add" /\ UNCHANGED cur
    <3>1. cur \in Pids /\ proc[cur] # "none" /\ SlotsOfPid(cur) = {} /\ hpc["CHLD"] = "idle"
      BY <1>2, <2>3 DEF ForkWindow, TypeOK
    <3>2. ~Reap /\ ~Act /\ ~Fork /\ ~Add /\ ~SetJobState
      BY <1>2, <2>3, <3>1 DEF Reap, Act, HandlerAt, Fork, Add, SetJobState, MainAt
    <3>3. UNCHANGED jobs BY <3>2, TableWriters
    <3>4. proc'[cur] # "none" BY <3>1, <3>2, ProcWriters
    <3> QED BY <2>3, <3>1, <3>3, <3>4 DEF SlotsOfPid
  <2>4. ~ReadCommand /\ ~Add /\ ~Unblock /\ ~BgFg /\ ~SendCont /\ ~SetJobState /\ ~WaitTest
        /\ ~Suspend
    BY <1>2
    DEF ReadCommand, Add, Unblock, BgFg, SendCont, SetJobState, WaitTest, Suspend, Return
  <2> QED BY <1>2, <2>1, <2>2, <2>3, <2>4, MainWriters
<1> QED BY <1>1, <1>2 DEF ForkWindow

\* What one run of the handler's loop body does to the table.
LEMMA ActEffect ==
  ASSUME ShellInv, Act
  PROVE  LET p == hpid["CHLD"] IN
         /\ hpc["CHLD"] = "act" /\ hpc'["CHLD"] = "reap" /\ p \in Pids
         /\ \/ /\ proc[p] = "none" /\ dropped' = dropped \ {p} /\ UNCHANGED mpc
               /\ \/ SlotsOfPid(p) = {} /\ UNCHANGED jobs
                  \/ \E i \in SlotsOfPid(p) : jobs' = [jobs EXCEPT ![i] = ClearedJob]
            \/ /\ proc[p] # "none" /\ UNCHANGED <<dropped, mpc>>
               /\ \E i \in SlotsOfPid(p) : jobs' = [jobs EXCEPT ![i].state = "ST"]
            \/ /\ SlotsOfPid(p) = {} /\ UNCHANGED <<jobs, dropped>> /\ mpc' = "crashed"
<1> USE DEF ShellInv
<1> DEFINE p == hpid["CHLD"]
<1>1. hpc["CHLD"] = "act" /\ hpc'["CHLD"] = "reap" /\ p \in Pids
  BY DEF Act, ActFrame, HandlerAt, ReapedChild, TypeOK, Handled
<1>2. CASE hst \in Zombie /\ DeleteJob(p) /\ dropped' = dropped \ {p} /\ UNCHANGED mpc
  <2>1. proc[p] = "none" BY <1>1, <1>2 DEF ReapedChild
  <2>2. \/ SlotsOfPid(p) = {} /\ UNCHANGED jobs
        \/ \E i \in SlotsOfPid(p) : jobs' = [jobs EXCEPT ![i] = ClearedJob]
    BY <1>2, DeleteJobEffect DEF TypeOK, table
  <2> QED BY <1>1, <1>2, <2>1, <2>2
<1>3. CASE /\ hst = "stopped" /\ SlotsOfPid(p) # {}
           /\ SetState(First(SlotsOfPid(p)), "ST") /\ UNCHANGED <<mpc, dropped>>
  <2>1. proc[p] # "none" BY <1>1, <1>3 DEF ReapedChild, Zombie
  <2>2. First(SlotsOfPid(p)) \in SlotsOfPid(p) BY <1>3, FirstIsLeast DEF SlotsOfPid
  <2>3. jobs' = [jobs EXCEPT ![First(SlotsOfPid(p))].state = "ST"] BY <1>3 DEF SetState
  <2> HIDE DEF p
  <2> QED BY <1>1, <1>3, <2>1, <2>2, <2>3 DEF p
<1>4. CASE SlotsOfPid(p) = {} /\ mpc' = "crashed" /\ UNCHANGED <<table, dropped>>
  BY <1>1, <1>4 DEF table
<1> QED BY <1>2, <1>3, <1>4 DEF Act

LEMMA StopsCurrentStep == ShellInv /\ [Next]_vars => StopsCurrent'
<1> SUFFICES ASSUME ShellInv, [Next]_vars PROVE StopsCurrent' OBVIOUS
<1> USE DEF ShellInv, StopsCurrent
<1>1. CASE Fork BY <1>1 DEF Fork, TypeOK
<1>2. CASE SendCont
  <2> DEFINE p == jobs[slot].pid
  <2>1. CASE UNCHANGED <<proc, unreported>> BY <2>1
  <2>2. CASE proc' = [proc EXCEPT ![p] = "running"] /\ unreported' = unreported \ {p}
    <3> HIDE DEF p
    <3> QED BY <2>2 DEF TypeOK
  <2> QED BY <1>2, <2>1, <2>2 DEF SendCont, childVars
<1>3. CASE Reap BY <1>3 DEF Reap, Waitable, TypeOK, Zombie
<1>4. ASSUME NEW p \in Pids, SetPgid(p) \/ Execve(p) PROVE StopsCurrent'
  BY <1>4 DEF SetPgid, Execve, ChildTo, TypeOK
<1>5. ASSUME NEW p \in Pids, Die(p) PROVE StopsCurrent'
  BY <1>5 DEF Die, ChildTo, TypeOK
<1>6. ASSUME NEW p \in Pids, Stop(p) PROVE StopsCurrent'
  BY <1>6 DEF Stop, ChildTo, TypeOK
<1>7. ASSUME NEW p \in Pids, TakeSignal(p) PROVE StopsCurrent'
  BY <1>5, <1>6, <1>7 DEF TakeSignal
<1>8. CASE UNCHANGED <<proc, unreported>> BY <1>8
<1> QED
  BY <1>1, <1>2, <1>3, <1>4, <1>5, <1>6, <1>7, <1>8
  DEF Next, vars, table, mainVars, sigVars, childVars, MainStep, HandlerStep, ChildStep,
      ReadCommand, ForkFails, Add, Unblock, BgFg, SetJobState, WaitTest, Suspend, Exit,
      Deliver, ReapNone, Act, ActFrame, Look, Kill, Key

\* While the SIGCHLD handler runs, main does not.
LEMMA MainInterrupted ==
  ASSUME ShellInv, hpc["CHLD"] # "idle"
  PROVE  stack # <<>> /\ ~Fork /\ ~Add /\ ~SetJobState
<1>1. stack # <<>> BY MainRunsAlone DEF ShellInv, Handled
<1> QED BY <1>1 DEF Fork, Add, SetJobState, MainAt

LEMMA ReapedChildStep == ShellInv /\ [Next]_vars => ReapedChild'
<1> SUFFICES ASSUME ShellInv, [Next]_vars, hpc'["CHLD"] = "act"
             PROVE  /\ hpid'["CHLD"] \in Pids
                    /\ hst' \in Zombie <=> proc'[hpid'["CHLD"]] = "none"
                    /\ SlotsOfPid(hpid["CHLD"])' # {} \/ hpid'["CHLD"] \in dropped'
  BY DEF ReapedChild
<1> USE DEF ShellInv
<1>1. CASE Reap
  <2>1. PICK p \in Waitable :
          /\ hpid' = [hpid EXCEPT !["CHLD"] = p]
          /\ hst' = proc[p]
          /\ proc' = [proc EXCEPT ![p] = IF @ \in Zombie THEN "none" ELSE @]
    BY <1>1 DEF Reap
  <2>2. p \in Pids /\ hpid'["CHLD"] = p BY <2>1 DEF Waitable, TypeOK, Handled
  <2>3. proc[p] \in Zombie \cup {"stopped"} BY DEF Waitable, StopsCurrent
  <2>4. hst' \in Zombie <=> proc'[p] = "none"
    BY <2>1, <2>2, <2>3 DEF TypeOK, Zombie
  <2>5. mpc # "add" BY <1>1 DEF Reap, HandlerAt, ForkWindow
  <2>6. SlotsOfPid(p) # {} \/ p \in dropped
    BY <1>1, <2>2, <2>3, <2>5 DEF ChildrenTracked, Reap, HandlerAt, Zombie
  <2>7. UNCHANGED <<jobs, dropped>> BY <1>1 DEF Reap, table
  <2> QED BY <2>2, <2>4, <2>6, <2>7 DEF SlotsOfPid
<1>2. CASE hpc["CHLD"] = "act" /\ hpid'["CHLD"] = hpid["CHLD"] /\ hst' = hst
  <2>1. ~Act /\ ~Reap
    BY <1>2, ActEffect DEF Reap, HandlerAt
  <2>2. ~Fork /\ ~Add /\ ~SetJobState BY <1>2, MainInterrupted
  <2>3. UNCHANGED <<jobs, dropped>> BY <2>1, <2>2, TableWriters, DroppedWriters
  <2>4. \A p \in Pids : proc'[p] = "none" <=> proc[p] = "none"
    BY <2>1, <2>2, ProcWriters
  <2> QED BY <1>2, <2>3, <2>4 DEF ReapedChild, SlotsOfPid
<1>3. ~Deliver("CHLD") /\ ~ReapNone /\ ~Act
  BY ActEffect DEF Deliver, ReapNone, HandlerReturns, TypeOK, Handled
<1> QED BY <1>1, <1>2, <1>3, ChldWriters

LEMMA NoStaleEntryStep == ShellInv /\ [Next]_vars => NoStaleEntry'
<1> SUFFICES ASSUME ShellInv, [Next]_vars, NEW i \in Slots, jobs'[i].pid # NoPid
             PROVE  \/ proc'[jobs'[i].pid] # "none"
                    \/ hpc'["CHLD"] = "act" /\ hpid'["CHLD"] = jobs'[i].pid
  BY DEF NoStaleEntry
<1> USE DEF ShellInv
<1> DEFINE q == jobs'[i].pid
<1>1. CASE Add
  <2>1. UNCHANGED <<proc, hpc, hpid>> BY <1>1 DEF Add, childVars, sigVars
  <2>2. q = jobs[i].pid \/ (q = cur /\ cur # NoPid)
    BY <1>1, AddJobEffect DEF Add, TypeOK, TableTypeOK, JobStates, FreeSlots, table
  <2>3. q = cur /\ cur # NoPid => proc[q] # "none"
    BY <1>1 DEF Add, MainAt, ForkWindow
  <2> QED BY <2>1, <2>2, <2>3 DEF NoStaleEntry
<1>2. CASE SetJobState
  <2>1. UNCHANGED <<proc, hpc, hpid>> BY <1>2 DEF SetJobState, childVars, sigVars
  <2>2. q = jobs[i].pid BY <1>2 DEF SetJobState, SetState, TypeOK, TableTypeOK
  <2> QED BY <2>1, <2>2 DEF NoStaleEntry
<1>3. CASE Act
  <2> DEFINE p == hpid["CHLD"]
  <2>1. UNCHANGED proc BY <1>3 DEF Act, ActFrame, childVars
  <2>2. q = jobs[i].pid
    <3>1. CASE UNCHANGED jobs BY <3>1
    <3>2. ASSUME NEW k \in Slots, jobs' = [jobs EXCEPT ![k] = ClearedJob] PROVE q = jobs[i].pid
      BY <3>2 DEF ClearedJob, TypeOK, TableTypeOK
    <3>3. ASSUME NEW k \in Slots, jobs' = [jobs EXCEPT ![k].state = "ST"] PROVE q = jobs[i].pid
      BY <3>3 DEF TypeOK, TableTypeOK, Job
    <3> QED BY <1>3, <3>1, <3>2, <3>3, ActEffect DEF SlotsOfPid
  <2>3. CASE proc[q] # "none" BY <2>1, <2>3
  <2>4. CASE q = p
    <3>1. i \in SlotsOfPid(p) BY <2>2, <2>4 DEF SlotsOfPid
    <3>2. \A k \in SlotsOfPid(p) : k = i BY <2>2, <2>4 DEF PidsUnique, SlotsOfPid
    <3>3. ~(jobs' = [jobs EXCEPT ![i] = ClearedJob]) BY DEF ClearedJob, TypeOK, TableTypeOK
    <3>4. proc[p] # "none" BY <1>3, <3>1, <3>2, <3>3, ActEffect
    <3> QED BY <2>1, <2>4, <3>4
  <2> QED BY <2>2, <2>3, <2>4 DEF NoStaleEntry
<1>4. CASE UNCHANGED jobs
  <2>1. q = jobs[i].pid /\ q \in Pids BY <1>4 DEF TypeOK, TableTypeOK, Job
  <2>2. CASE Act BY <1>3, <2>2
  <2>3. CASE Reap
    <3>1. PICK p \in Waitable :
            /\ hpid' = [hpid EXCEPT !["CHLD"] = p]
            /\ proc' = [proc EXCEPT ![p] = IF @ \in Zombie THEN "none" ELSE @]
            /\ hpc' = [hpc EXCEPT !["CHLD"] = "act"] /\ hpc["CHLD"] = "reap"
      BY <2>3 DEF Reap, HandlerAt
    <3>2. proc[q] # "none" BY <2>1, <3>1 DEF NoStaleEntry
    <3>3. CASE p = q BY <3>1, <3>3 DEF TypeOK, Handled
    <3>4. CASE p # q BY <2>1, <3>1, <3>2, <3>4 DEF TypeOK
    <3> QED BY <3>3, <3>4
  <2>4. CASE proc[q] # "none" /\ ~Reap
    <3>1. proc'[q] # "none"
      BY <2>1, <2>4, ProcWriters DEF Fork, TypeOK
    <3> QED BY <3>1
  <2>5. CASE ~Reap /\ ~Act /\ hpc["CHLD"] = "act" /\ hpid["CHLD"] = q
    <3>1. ~Deliver("CHLD") /\ ~ReapNone
      BY <2>5 DEF Deliver, Masked, ReapNone, HandlerAt
    <3> QED BY <2>5, <3>1, ChldWriters
  <2> QED BY <2>1, <2>2, <2>3, <2>4, <2>5 DEF NoStaleEntry
<1> QED BY <1>1, <1>2, <1>3, <1>4, TableWriters

\* Every step keeps the pid of a slot, except that addjob fills one free slot
\* with the child just forked and deletejob clears one.
LEMMA PidsStep ==
  ASSUME ShellInv, [Next]_vars
  PROVE  \/ \A k \in Slots : jobs'[k].pid = jobs[k].pid
         \/ /\ Add /\ cur \in Pids
            /\ \E i \in FreeSlots :
                 /\ jobs'[i].pid = cur
                 /\ \A k \in Slots \ {i} : jobs'[k].pid = jobs[k].pid
         \/ /\ Act /\ proc[hpid["CHLD"]] = "none"
            /\ \E i \in SlotsOfPid(hpid["CHLD"]) :
                 /\ jobs'[i].pid = NoPid
                 /\ \A k \in Slots \ {i} : jobs'[k].pid = jobs[k].pid
<1> USE DEF ShellInv
<1>1. CASE Add
  <2>1. CASE UNCHANGED jobs BY <2>1
  <2>2. ASSUME cur # NoPid, NEW i \in FreeSlots,
               jobs' = [jobs EXCEPT ![i] = [pid |-> cur, jid |-> nextjid, state |-> want]]
        PROVE  /\ cur \in Pids /\ jobs'[i].pid = cur
               /\ \A k \in Slots \ {i} : jobs'[k].pid = jobs[k].pid
    BY <2>2 DEF TypeOK, TableTypeOK, FreeSlots
  <2>3. \/ UNCHANGED jobs
        \/ /\ cur # NoPid
           /\ \E i \in FreeSlots :
                jobs' = [jobs EXCEPT ![i] = [pid |-> cur, jid |-> nextjid, state |-> want]]
    BY <1>1, AddJobEffect DEF Add, TypeOK, JobStates, table
  <2> QED BY <1>1, <2>1, <2>2, <2>3
<1>2. CASE SetJobState
  BY <1>2 DEF SetJobState, SetState, TypeOK, TableTypeOK
<1>3. CASE Act
  <2>1. CASE UNCHANGED jobs BY <2>1
  <2>2. ASSUME NEW i \in Slots, jobs' = [jobs EXCEPT ![i] = ClearedJob]
        PROVE  jobs'[i].pid = NoPid /\ \A k \in Slots \ {i} : jobs'[k].pid = jobs[k].pid
    BY <2>2 DEF ClearedJob, TypeOK, TableTypeOK
  <2>3. ASSUME NEW i \in Slots, jobs' = [jobs EXCEPT ![i].state = "ST"]
        PROVE  \A k \in Slots : jobs'[k].pid = jobs[k].pid
    BY <2>3 DEF TypeOK, TableTypeOK, Job
  <2> QED BY <1>3, <2>1, <2>2, <2>3, ActEffect DEF SlotsOfPid
<1>4. CASE UNCHANGED jobs BY <1>4
<1> QED BY <1>1, <1>2, <1>3, <1>4, TableWriters

LEMMA PidsUniqueStep == ShellInv /\ [Next]_vars => PidsUnique'
<1> SUFFICES ASSUME ShellInv, [Next]_vars PROVE PidsUnique' OBVIOUS
<1> USE DEF ShellInv
<1>1. CASE \A k \in Slots : jobs'[k].pid = jobs[k].pid BY <1>1 DEF PidsUnique
<1>2. ASSUME Add, cur \in Pids, NEW i \in FreeSlots, jobs'[i].pid = cur,
             \A k \in Slots \ {i} : jobs'[k].pid = jobs[k].pid
      PROVE  PidsUnique'
  <2>1. SlotsOfPid(cur) = {} BY <1>2 DEF Add, MainAt, ForkWindow
  <2>2. \A k \in Slots : jobs[k].pid # cur BY <2>1 DEF SlotsOfPid
  <2> QED BY <1>2, <2>2 DEF PidsUnique, FreeSlots
<1>3. ASSUME NEW i \in SlotsOfPid(hpid["CHLD"]), jobs'[i].pid = NoPid,
             \A k \in Slots \ {i} : jobs'[k].pid = jobs[k].pid
      PROVE  PidsUnique'
  BY <1>3 DEF PidsUnique, SlotsOfPid
<1> QED BY <1>1, <1>2, <1>3, PidsStep

LEMMA StaysDead == [Next]_vars /\ ~Alive => ~Alive'
BY DEF Next, vars, table, mainVars, sigVars, childVars, MainStep, HandlerStep, ChildStep,
       ReadCommand, Fork, ForkFails, Add, Unblock, BgFg, SendCont, SetJobState, WaitTest,
       Suspend, Exit, Deliver, Reap, ReapNone, Act, Look, Kill, SetPgid, Execve, Die, Stop,
       TakeSignal, Key, MainAt, HandlerAt, Alive

LEMMA ChildrenTrackedStep == ShellInv /\ [Next]_vars => ChildrenTracked'
<1> SUFFICES ASSUME ShellInv, [Next]_vars, Alive', NEW p \in Pids, proc'[p] # "none"
             PROVE  SlotsOfPid(p)' # {} \/ (mpc' = "add" /\ cur' = p) \/ p \in dropped'
  BY DEF ChildrenTracked
<1> USE DEF ShellInv
<1>1. CASE Fork /\ proc[p] = "none"
  BY <1>1 DEF Fork, TypeOK
<1>2. CASE proc[p] # "none"
  <2>1. SlotsOfPid(p) # {} \/ (mpc = "add" /\ cur = p) \/ p \in dropped
    BY <1>2, StaysDead DEF ChildrenTracked
  <2>2. CASE SlotsOfPid(p) # {}
    <3>1. PICK i \in Slots : jobs[i].pid = p BY <2>2 DEF SlotsOfPid
    <3>2. jobs'[i].pid = p
      <4>1. p # NoPid BY TableAssumption
      <4>2. i \notin FreeSlots BY <3>1, <4>1 DEF FreeSlots
      <4>3. proc[hpid["CHLD"]] = "none" => i \notin SlotsOfPid(hpid["CHLD"])
        BY <1>2, <3>1 DEF SlotsOfPid
      <4> QED BY <3>1, <4>2, <4>3, PidsStep
    <3> QED BY <3>2 DEF SlotsOfPid
  <2>3. CASE mpc = "add" /\ cur = p
    <3>1. CASE Add
      <4>1. p # NoPid BY TableAssumption
      <4>2. CASE FreeSlots = {} BY <2>3, <3>1, <4>1, <4>2 DEF Add
      <4>3. CASE FreeSlots # {}
        <5>1. \E i \in FreeSlots :
                jobs' = [jobs EXCEPT ![i] = [pid |-> p, jid |-> nextjid, state |-> want]]
          BY <2>3, <3>1, <4>1, <4>3, AddJobEffect DEF Add, TypeOK, JobStates
        <5> QED BY <5>1 DEF SlotsOfPid, FreeSlots, TypeOK, TableTypeOK
      <4> QED BY <4>2, <4>3
    <3>2. CASE ~Add
      <4>1. ~ReadCommand /\ ~Fork /\ ~ForkFails /\ ~Unblock /\ ~BgFg /\ ~SendCont
            /\ ~SetJobState /\ ~WaitTest /\ ~Suspend
        BY <2>3
        DEF MainAt, ReadCommand, Fork, ForkFails, Unblock, BgFg, SendCont, SetJobState,
            WaitTest, Suspend
      <4> QED BY <2>3, <3>2, <4>1, MainWriters DEF Alive
    <3> QED BY <3>1, <3>2
  <2>4. CASE p \in dropped
    <3>1. CASE Act
      <4>1. p # hpid["CHLD"] \/ proc[hpid["CHLD"]] # "none" BY <1>2
      <4> QED BY <2>4, <3>1, <4>1, ActEffect
    <3>2. CASE Add BY <2>4, <3>2 DEF Add
    <3> QED BY <2>4, <3>1, <3>2, DroppedWriters
  <2> QED BY <2>1, <2>2, <2>3, <2>4
<1> QED BY <1>1, <1>2, ProcWriters DEF Reap, TypeOK

\* The shell dies of a null pointer only in the handler's loop body.
LEMMA CrashWriters == [Next]_vars /\ mpc' = "crashed" => mpc = "crashed" \/ Act
BY DEF Next, vars, table, mainVars, sigVars, childVars, MainStep, HandlerStep, ChildStep,
       ReadCommand, Fork, ForkFails, Add, Unblock, BgFg, SendCont, SetJobState, WaitTest,
       Suspend, Exit, Deliver, Reap, ReapNone, Look, Kill, HandlerReturns, Return, SetPgid,
       Execve, Die, Stop, TakeSignal, Key

LEMMA CrashOnlyIfDroppedStep == ShellInv /\ [Next]_vars => CrashOnlyIfDropped'
<1> SUFFICES ASSUME ShellInv, [Next]_vars, mpc' = "crashed" PROVE dropped' # {}
  BY DEF CrashOnlyIfDropped
<1> USE DEF ShellInv
<1>1. CASE mpc = "crashed"
  <2>1. ~Add /\ ~Act BY <1>1 DEF Add, MainAt, Act, HandlerAt, Alive
  <2> QED BY <1>1, <2>1, DroppedWriters DEF CrashOnlyIfDropped
<1>2. CASE Act /\ mpc # "crashed"
  <2>1. SlotsOfPid(hpid["CHLD"]) = {} /\ UNCHANGED dropped BY <1>2, ActEffect
  <2>2. hpid["CHLD"] \in dropped BY <1>2, <2>1, ActEffect DEF ReapedChild
  <2> QED BY <2>1, <2>2
<1> QED BY <1>1, <1>2, CrashWriters

-----------------------------------------------------------------------------
(* The theorems *)

LEMMA ShellInvInit == Init => ShellInv
<1> SUFFICES ASSUME Init PROVE ShellInv OBVIOUS
<1>1. TypeOK BY TypeOKInit
<1>2. \A i \in Slots : jobs[i].pid = NoPid BY DEF Init, InitJobs, ClearedJob
<1>3. \A s \in Handled : hpc[s] = "idle" BY DEF Init
<1>4. "CHLD" \in Handled BY DEF Handled
<1> QED
  BY <1>1, <1>2, <1>3, <1>4
  DEF Init, ShellInv, RunningOnStack, ForkWindow, ReapedChild, StopsCurrent, NoStaleEntry,
      PidsUnique, ChildrenTracked, CrashOnlyIfDropped

LEMMA ShellInvStep == ShellInv /\ [Next]_vars => ShellInv'
<1> SUFFICES ASSUME ShellInv, [Next]_vars PROVE ShellInv' OBVIOUS
<1>1. TypeOK' BY TypeOKStep DEF ShellInv
<1>2. RunningOnStack' /\ ForkWindow' /\ ReapedChild' /\ StopsCurrent'
  BY RunningOnStackStep, ForkWindowStep, ReapedChildStep, StopsCurrentStep
<1>3. NoStaleEntry' /\ PidsUnique' /\ ChildrenTracked' /\ CrashOnlyIfDropped'
  BY NoStaleEntryStep, PidsUniqueStep, ChildrenTrackedStep, CrashOnlyIfDroppedStep
<1> QED BY <1>1, <1>2, <1>3 DEF ShellInv

\* The conjunction of the shell's safety properties is an invariant.
THEOREM ShellInvariant == Spec => []ShellInv
BY ShellInvInit, ShellInvStep, PTL DEF Spec

\* No slot outlives its process, outside the handler that has just reaped it:
\* blocking SIGCHLD around fork and addjob does what it is there for.
THEOREM NoStaleEntryCorrect == Spec => []NoStaleEntry
<1>1. ShellInv => NoStaleEntry BY DEF ShellInv
<1> QED BY <1>1, ShellInvariant, PTL

\* A process has at most one slot.
THEOREM PidsUniqueCorrect == Spec => []PidsUnique
<1>1. ShellInv => PidsUnique BY DEF ShellInv
<1> QED BY <1>1, ShellInvariant, PTL

\* The shell loses a child only when addjob finds the table full.
THEOREM ChildrenTrackedCorrect == Spec => []ChildrenTracked
<1>1. ShellInv => ChildrenTracked BY DEF ShellInv
<1> QED BY <1>1, ShellInvariant, PTL

\* sigchld_handler dereferences a null job only after addjob dropped a child.
THEOREM CrashOnlyIfDroppedCorrect == Spec => []CrashOnlyIfDropped
<1>1. ShellInv => CrashOnlyIfDropped BY DEF ShellInv
<1> QED BY <1>1, ShellInvariant, PTL

\* addjob finds a slot when there are no more processes than slots: the others have one slot each
\* at most, and the child that it is called for has none.
LEMMA RoomForTheChild ==
  ASSUME ShellInv, mpc = "add", cur # NoPid, IsFiniteSet(Pids), Cardinality(Pids) <= MaxJobs
  PROVE  FreeSlots # {}
<1> SUFFICES ASSUME FreeSlots = {} PROVE FALSE OBVIOUS
<1> DEFINE f == [i \in Slots |-> jobs[i].pid]
<1>1. cur \in Pids /\ SlotsOfPid(cur) = {}
  BY DEF ShellInv, TypeOK, ForkWindow
<1>2. f \in [Slots -> Pids \ {cur}]
  <2> SUFFICES ASSUME NEW i \in Slots PROVE jobs[i].pid \in Pids \ {cur} OBVIOUS
  <2>1. jobs[i].pid # NoPid BY DEF FreeSlots
  <2>2. jobs[i].pid \in Pids \cup {NoPid} BY DEF ShellInv, TypeOK, TableTypeOK, Job
  <2> QED BY <1>1, <2>1, <2>2 DEF SlotsOfPid
<1>3. IsFiniteSet(Pids \ {cur}) /\ Cardinality(Pids \ {cur}) = Cardinality(Pids) - 1
  BY <1>1, FS_RemoveElement
<1>4. IsFiniteSet(Slots) /\ Cardinality(Slots) = MaxJobs
  BY FS_Interval, TableAssumption DEF Slots
<1>5. Cardinality(Pids) \in Nat BY FS_CardinalityType
<1>6. Cardinality(Pids \ {cur}) < Cardinality(Slots) BY <1>3, <1>4, <1>5, TableAssumption
<1> HIDE DEF f
<1>7. PICK i \in Slots, k \in Slots : i # k /\ f[i] = f[k]
  BY <1>2, <1>3, <1>4, <1>6, FS_PigeonHole
<1>8. jobs[i].pid = jobs[k].pid /\ jobs[i].pid # NoPid
  BY <1>7 DEF f, FreeSlots
<1> QED BY <1>7, <1>8 DEF ShellInv, PidsUnique

\* With no more processes than MAXJOBS slots no handler ever follows a null pointer:
\* getjobpid finds the child that waitpid has returned.
THEOREM NoNullDerefCorrect ==
  ASSUME IsFiniteSet(Pids), Cardinality(Pids) <= MaxJobs
  PROVE  Spec => []NoNullDeref
<1> DEFINE Inv == ShellInv /\ dropped = {}
<1>1. Init => Inv BY ShellInvInit DEF Init
<1>2. Inv /\ [Next]_vars => Inv'
  <2> SUFFICES ASSUME Inv, [Next]_vars PROVE Inv' OBVIOUS
  <2>1. ShellInv' BY ShellInvStep
  <2>2. CASE Add
    <3>1. mpc = "add" BY <2>2 DEF Add, MainAt
    <3>2. cur = NoPid \/ FreeSlots # {} BY <3>1, RoomForTheChild
    <3>3. dropped' = {} BY <2>2, <3>2 DEF Add
    <3> QED BY <2>1, <3>3
  <2>3. CASE Act
    <3>1. dropped' = {} BY <2>3, ActEffect DEF ShellInv
    <3> QED BY <2>1, <3>1
  <2> QED BY <2>1, <2>2, <2>3, DroppedWriters
<1>3. Inv => NoNullDeref BY DEF ShellInv, CrashOnlyIfDropped, NoNullDeref
<1> QED BY <1>1, <1>2, <1>3, PTL DEF Spec

-----------------------------------------------------------------------------
(* The foreground, for a shell whose user never types fg. *)

\* What a step does to the set of foreground slots.
LEMMA ForegroundStep ==
  ASSUME ShellInv, ForegroundInv, [Next]_vars
  PROVE  \/ /\ FgSlots' \subseteq FgSlots
            /\ \A i \in FgSlots' : jobs'[i].pid # NoPid
         \/ /\ Add /\ want = "FG"
            /\ \E i \in Slots : FgSlots' \subseteq {i} /\ jobs'[i].pid # NoPid
<1> USE DEF ShellInv, ForegroundInv
<1>1. CASE UNCHANGED jobs BY <1>1 DEF FgSlots
<1>2. CASE Add /\ ~UNCHANGED jobs
  <2>1. PICK i \in FreeSlots :
          jobs' = [jobs EXCEPT ![i] = [pid |-> cur, jid |-> nextjid, state |-> want]]
          /\ cur # NoPid
    BY <1>2, AddJobEffect DEF Add, TypeOK, JobStates, table
  <2>2. FgSlots = {} BY <1>2 DEF Add, MainAt, PromptMeansNoFg
  <2>3. i \in Slots /\ jobs'[i].pid = cur /\ jobs'[i].state = want
        /\ \A k \in Slots \ {i} : jobs'[k] = jobs[k]
    BY <2>1 DEF FreeSlots, TypeOK, TableTypeOK
  <2>4. CASE want = "FG" BY <1>2, <2>1, <2>2, <2>3, <2>4 DEF FgSlots
  <2>5. CASE want # "FG" BY <2>2, <2>3, <2>5 DEF FgSlots
  <2> QED BY <2>4, <2>5
<1>3. CASE SetJobState
  <2>1. want = "BG" BY <1>3 DEF SetJobState, MainAt
  <2>2. jobs'[slot].state = "BG" /\ \A k \in Slots \ {slot} : jobs'[k] = jobs[k]
    BY <1>3, <2>1 DEF SetJobState, SetState, TypeOK, TableTypeOK, Job
  <2> QED BY <2>2 DEF FgSlots
<1>4. CASE Act
  <2>1. ASSUME NEW i \in Slots,
               jobs' = [jobs EXCEPT ![i] = ClearedJob] \/ jobs' = [jobs EXCEPT ![i].state = "ST"]
        PROVE  FgSlots' \subseteq FgSlots /\ \A k \in FgSlots' : jobs'[k].pid # NoPid
    <3>1. jobs'[i].state # "FG" /\ \A k \in Slots \ {i} : jobs'[k] = jobs[k]
      BY <2>1 DEF TypeOK, TableTypeOK, ClearedJob, Job
    <3> QED BY <3>1 DEF FgSlots
  <2> QED BY <1>1, <1>4, <2>1, ActEffect DEF SlotsOfPid
<1> QED BY <1>1, <1>2, <1>3, <1>4, TableWriters

\* want changes only where a command is read and where it is finished.
LEMMA WantWriters ==
  [Next]_vars => UNCHANGED want \/ ReadCommand \/ BgFg \/ Unblock \/ SetJobState
BY DEF Next, vars, table, mainVars, sigVars, childVars, MainStep, HandlerStep, ChildStep,
       Fork, ForkFails, Add, SendCont, WaitTest, Suspend, Exit, Deliver, Reap, ReapNone, Act, ActFrame,
       Look, Kill, SetPgid, Execve, Die, Stop, TakeSignal, Key

LEMMA ForegroundInvStep ==
  ASSUME "FG" \notin Builtins
  PROVE  ShellInv /\ ForegroundInv /\ [Next]_vars => ForegroundInv'
<1> SUFFICES ASSUME ShellInv, ForegroundInv, [Next]_vars PROVE ForegroundInv' OBVIOUS
<1> USE DEF ForegroundInv
<1>1. AtMostOneFg' /\ \A i \in FgSlots' : jobs'[i].pid # NoPid
  <2>1. CASE FgSlots' \subseteq FgSlots /\ \A i \in FgSlots' : jobs'[i].pid # NoPid
    BY <2>1 DEF AtMostOneFg
  <2>2. ASSUME NEW i \in Slots, FgSlots' \subseteq {i}, jobs'[i].pid # NoPid
        PROVE  AtMostOneFg' /\ \A k \in FgSlots' : jobs'[k].pid # NoPid
    BY <2>2 DEF AtMostOneFg
  <2> QED BY <2>1, <2>2, ForegroundStep
<1>2. PromptMeansNoFg' /\ (mpc' = "unblock" /\ want' = "BG" => FgSlots' = {})
  <2>1. SUFFICES ASSUME \/ mpc' \in {"read", "fork", "add", "cont", "setstate"}
                        \/ mpc' = "unblock" /\ want' = "BG"
                 PROVE  FgSlots' = {}
    BY DEF PromptMeansNoFg
  <2>2. CASE FgSlots = {} /\ ~(Add /\ want = "FG")
    BY <2>2, ForegroundStep
  <2>3. CASE Add /\ want = "FG"
    BY <2>1, <2>3 DEF Add
  <2>4. CASE WaitTest /\ FgSlots # {}
    <3>1. First(FgSlots) \in FgSlots BY <2>4, FirstIsLeast DEF FgSlots
    <3>2. FgPid # NoPid BY <2>4, <3>1 DEF FgPid
    <3> QED BY <2>1, <2>4, <3>2 DEF WaitTest
  <2>5. CASE FgSlots # {} /\ ~WaitTest /\ ~Add
    <3>1. mpc \notin {"read", "fork", "add", "cont", "setstate"}
          /\ ~(mpc = "unblock" /\ want = "BG")
      BY <2>5 DEF PromptMeansNoFg
    <3>2. ~ReadCommand /\ ~Fork /\ ~ForkFails /\ ~BgFg /\ ~SendCont /\ ~SetJobState
      BY <3>1 DEF MainAt, ReadCommand, Fork, ForkFails, BgFg, SendCont, SetJobState
    <3>3. ~Unblock /\ ~Suspend
      BY <2>1, <3>1 DEF MainAt, Unblock, Suspend, Return, ShellInv, TypeOK
    <3>4. UNCHANGED want BY <3>2, <3>3, WantWriters
    <3> QED BY <2>1, <2>5, <3>1, <3>2, <3>3, <3>4, MainWriters
  <2> QED BY <2>2, <2>3, <2>4, <2>5 DEF Add, MainAt, PromptMeansNoFg
<1>3. mpc' \in {"cont", "setstate"} => want' = "BG"
  <2> SUFFICES ASSUME mpc' \in {"cont", "setstate"} PROVE want' = "BG" OBVIOUS
  <2>1. CASE BgFg BY <2>1 DEF BgFg
  <2>2. CASE SendCont BY <2>2 DEF SendCont, MainAt
  <2>3. ~ReadCommand /\ ~Fork /\ ~ForkFails /\ ~Add /\ ~Unblock /\ ~SetJobState /\ ~WaitTest
        /\ ~Suspend
    BY DEF ReadCommand, Fork, ForkFails, Add, Unblock, SetJobState, WaitTest, Suspend, Return
  <2> QED BY <2>1, <2>2, <2>3, MainWriters, WantWriters
<1>4. \A i \in Slots : jobs'[i].pid # NoPid => jobs'[i].state # "UNDEF"
  <2> SUFFICES ASSUME NEW i \in Slots, jobs'[i].pid # NoPid PROVE jobs'[i].state # "UNDEF"
    OBVIOUS
  <2> USE DEF ShellInv
  <2>1. CASE UNCHANGED jobs BY <2>1
  <2>2. CASE Add
    BY <2>1, <2>2, AddJobEffect DEF Add, TypeOK, TableTypeOK, JobStates, FreeSlots, table
  <2>3. CASE SetJobState
    BY <2>3 DEF SetJobState, SetState, TypeOK, TableTypeOK, Job
  <2>4. CASE Act
    <3>1. ASSUME NEW k \in Slots,
                 jobs' = [jobs EXCEPT ![k] = ClearedJob] \/ jobs' = [jobs EXCEPT ![k].state = "ST"]
          PROVE  jobs'[i].state # "UNDEF"
      <4>1. CASE i # k
        <5>1. jobs'[i] = jobs[i] BY <3>1, <4>1 DEF TypeOK, TableTypeOK
        <5> QED BY <5>1
      <4>2. CASE i = k /\ jobs' = [jobs EXCEPT ![k].state = "ST"]
        BY <4>2 DEF TypeOK, TableTypeOK, Job
      <4>3. CASE i = k /\ jobs' = [jobs EXCEPT ![k] = ClearedJob]
        BY <4>3 DEF TypeOK, TableTypeOK, ClearedJob
      <4> QED BY <3>1, <4>1, <4>2, <4>3
    <3> QED BY <2>1, <2>4, <3>1, ActEffect DEF SlotsOfPid
  <2> QED BY <2>1, <2>2, <2>3, <2>4, TableWriters
<1> QED BY <1>1, <1>2, <1>3, <1>4

\* Without fg, at most one job is in the foreground and none is when the
\* prompt is back, however the handlers interrupt the shell and whatever
\* becomes of a job between bg's kill and its write of job->state.
THEOREM ForegroundCorrect ==
  ASSUME "FG" \notin Builtins
  PROVE  Spec => [](AtMostOneFg /\ PromptMeansNoFg)
<1>1. Init => ForegroundInv
  BY DEF Init, InitJobs, ClearedJob, ForegroundInv, AtMostOneFg, PromptMeansNoFg, FgSlots
<1>2. ShellInv /\ ForegroundInv /\ [Next]_vars => ForegroundInv'
  BY ForegroundInvStep
<1>3. ForegroundInv => AtMostOneFg /\ PromptMeansNoFg BY DEF ForegroundInv
<1> QED BY <1>1, <1>2, <1>3, ShellInvariant, PTL DEF Spec

\* In particular the prompt comes back only when no job is in the foreground.
THEOREM PromptMeansNoFgCorrect ==
  ASSUME "FG" \notin Builtins
  PROVE  Spec => []PromptMeansNoFg
<1>1. Spec => [](AtMostOneFg /\ PromptMeansNoFg) BY ForegroundCorrect
<1>2. AtMostOneFg /\ PromptMeansNoFg => PromptMeansNoFg OBVIOUS
<1> QED BY <1>1, <1>2, PTL

-----------------------------------------------------------------------------
(* Refinement of JobControl, for the same shell. *)

\* The status of a process is the state of its one slot.
LEMMA StatusOfSlot ==
  ASSUME PidsUnique, NEW i \in Slots, jobs[i].pid \in Pids
  PROVE  Status(jobs[i].pid) = jobs[i].state
<1>1. SlotsOfPid(jobs[i].pid) = {i}
  BY TableAssumption DEF PidsUnique, SlotsOfPid
<1>2. First({i}) = i BY <1>1, FirstIsLeast DEF Slots
<1> QED BY <1>1, <1>2 DEF Status

LEMMA StatusNone ==
  ASSUME NEW p \in Pids, SlotsOfPid(p) = {}
  PROVE  Status(p) = "none"
BY DEF Status

\* A job in the foreground, for JobControl, holds a slot in state FG.
LEMMA ForegroundSlots ==
  ASSUME TypeOK, FgSlots = {}
  PROVE  JobControl!Foreground = {}
<1> SUFFICES ASSUME NEW p \in Pids, Status(p) = "FG" PROVE FALSE
  BY DEF JobControl!Foreground
<1>1. SlotsOfPid(p) # {} BY DEF Status
<1>2. First(SlotsOfPid(p)) \in Slots /\ jobs[First(SlotsOfPid(p))].state = "FG"
  BY <1>1, FirstIsLeast DEF SlotsOfPid, Status
<1> QED BY <1>2 DEF FgSlots

\* A process whose slots a step leaves alone keeps its status.
LEMMA StatusLocal ==
  ASSUME NEW q \in Pids,
         \A k \in Slots : jobs[k].pid = q \/ jobs'[k].pid = q => jobs'[k] = jobs[k]
  PROVE  Status(q)' = Status(q)
<1>1. SlotsOfPid(q)' = SlotsOfPid(q) BY DEF SlotsOfPid
<1>2. CASE SlotsOfPid(q) = {} BY <1>1, <1>2 DEF Status
<1>3. CASE SlotsOfPid(q) # {}
  <2>1. First(SlotsOfPid(q)) \in SlotsOfPid(q) BY <1>3, FirstIsLeast DEF SlotsOfPid
  <2>2. jobs'[First(SlotsOfPid(q))] = jobs[First(SlotsOfPid(q))] BY <2>1 DEF SlotsOfPid
  <2>3. Status(q)' = jobs'[First(SlotsOfPid(q))].state BY <1>1, <1>3 DEF Status, First
  <2> QED BY <1>3, <2>2, <2>3 DEF Status
<1> QED BY <1>2, <1>3

\* Steps of JobControl, pointwise.
LEMMA BecomeIntro ==
  ASSUME NEW p \in Pids, NEW st, Status(p)' = st,
         \A q \in Pids \ {p} : Status(q)' = Status(q)
  PROVE  JobControl!Become(p, st)
BY DEF JobControl!Become

LEMMA SameStatus ==
  ASSUME \A q \in Pids : Status(q)' = Status(q)
  PROVE  UNCHANGED [p \in Pids |-> Status(p)]
OBVIOUS

\* A step that only rewrites the state of slot i is a step of its process.
LEMMA StateWrite ==
  ASSUME TypeOK, PidsUnique, PidsUnique', NEW i \in Slots, NEW st \in JobStates,
         jobs' = [jobs EXCEPT ![i].state = st]
  PROVE  /\ jobs[i].pid \in Pids => JobControl!Become(jobs[i].pid, st)
         /\ jobs[i].pid \notin Pids => UNCHANGED [p \in Pids |-> Status(p)]
<1>1. /\ jobs'[i].pid = jobs[i].pid /\ jobs'[i].state = st
      /\ \A k \in Slots \ {i} : jobs'[k] = jobs[k]
  BY DEF TypeOK, TableTypeOK, Job
<1>2. \A q \in Pids : q # jobs[i].pid => Status(q)' = Status(q)
  BY <1>1, StatusLocal
<1>3. CASE jobs[i].pid \in Pids
  <2> DEFINE p == jobs[i].pid
  <2>1. jobs'[i].pid \in Pids BY <1>1, <1>3
  <2>2. SlotsOfPid(p)' = {i} BY <1>1, <1>3, TableAssumption DEF PidsUnique, SlotsOfPid
  <2>3. First({i}) = i BY FirstIsLeast DEF Slots
  <2>4. Status(p)' = st BY <1>1, <2>2, <2>3, ZenonT(60) DEF Status, First
  <2> QED BY <1>2, <1>3, <2>4, BecomeIntro
<1> QED BY <1>2, <1>3, SameStatus

LEMMA RefinementStep ==
  ASSUME "FG" \notin Builtins, ShellInv, ShellInv', ForegroundInv, [Next]_vars
  PROVE  [JobControl!Next]_[p \in Pids |-> Status(p)]
<1> USE DEF ShellInv
<1> DEFINE Goal == JobControl!Next \/ UNCHANGED [p \in Pids |-> Status(p)]
<1>1. CASE UNCHANGED jobs
  BY <1>1, StatusLocal, SameStatus
<1>2. CASE Add /\ ~UNCHANGED jobs
  <2>1. PICK i \in FreeSlots :
          jobs' = [jobs EXCEPT ![i] = [pid |-> cur, jid |-> nextjid, state |-> want]]
          /\ cur # NoPid
    BY <1>2, AddJobEffect DEF Add, TypeOK, JobStates, table
  <2>2. cur \in Pids /\ SlotsOfPid(cur) = {} /\ want \in {"FG", "BG"}
    BY <1>2, <2>1 DEF Add, MainAt, ForkWindow, TypeOK
  <2>3. i \in Slots /\ jobs[i].pid = NoPid /\ jobs'[i].pid = cur /\ jobs'[i].state = want
        /\ \A k \in Slots \ {i} : jobs'[k] = jobs[k]
    BY <2>1 DEF FreeSlots, TypeOK, TableTypeOK
  <2>4. \A q \in Pids \ {cur} : Status(q)' = Status(q)
    BY <2>2, <2>3, StatusLocal, TableAssumption
  <2>5. SlotsOfPid(cur)' = {i}
    <3>1. cur' = cur BY <1>2 DEF Add
    <3> QED BY <2>2, <2>3, <3>1 DEF SlotsOfPid
  <2>6. First({i}) = i BY <2>3, FirstIsLeast DEF Slots
  <2>7. Status(cur)' = want
    <3>1. cur' = cur BY <1>2 DEF Add
    <3> QED BY <2>3, <2>5, <2>6, <3>1, ZenonT(60) DEF Status, First
  <2>8. JobControl!Become(cur, want)
    <3>1. cur' = cur BY <1>2 DEF Add
    <3> QED BY <2>2, <2>4, <2>7, <3>1 DEF JobControl!Become
  <2>9. Status(cur) = "none" BY <2>2, StatusNone
  <2>10. JobControl!Foreground = {}
    BY <1>2, ForegroundSlots DEF ForegroundInv, PromptMeansNoFg, Add, MainAt
  <2>11. JobControl!Start(cur) BY <2>2, <2>8, <2>9, <2>10 DEF JobControl!Start
  <2> QED BY <2>2, <2>11 DEF JobControl!Next
<1>3. CASE SetJobState
  <2>1. want = "BG" /\ slot \in Slots /\ jobs' = [jobs EXCEPT ![slot].state = "BG"]
    BY <1>3 DEF SetJobState, SetState, MainAt, ForegroundInv, TypeOK
  <2>2. CASE jobs[slot].pid \in Pids
    <3>1. JobControl!Foreground = {} /\ jobs[slot].state # "FG"
      BY <1>3, <2>1, ForegroundSlots
      DEF ForegroundInv, PromptMeansNoFg, SetJobState, MainAt, FgSlots
    <3>2. Status(jobs[slot].pid) \in {"BG", "ST"}
      <4>1. Status(jobs[slot].pid) = jobs[slot].state BY <2>1, <2>2, StatusOfSlot
      <4>2. jobs[slot].state \in JobStates BY <2>1 DEF TypeOK, TableTypeOK, Job
      <4>3. jobs[slot].state # "UNDEF"
        BY <2>1, <2>2, TableAssumption DEF ForegroundInv
      <4> QED BY <3>1, <4>1, <4>2, <4>3 DEF JobStates
    <3>3. JobControl!Become(jobs[slot].pid, "BG") BY <2>1, <2>2, StateWrite DEF JobStates
    <3>4. JobControl!Resume(jobs[slot].pid) BY <2>2, <3>1, <3>2, <3>3 DEF JobControl!Resume
    <3> QED BY <2>2, <3>4 DEF JobControl!Next
  <2>3. CASE jobs[slot].pid \notin Pids BY <2>1, <2>3, StateWrite DEF JobStates
  <2> QED BY <2>2, <2>3
<1>4. CASE Act /\ ~UNCHANGED jobs
  <2> DEFINE p == hpid["CHLD"]
  <2>1. ASSUME NEW i \in SlotsOfPid(p), jobs' = [jobs EXCEPT ![i] = ClearedJob] PROVE Goal
    <3>1. i \in Slots /\ jobs[i].pid = p /\ p \in Pids
      BY <1>4, ActEffect DEF SlotsOfPid
    <3>2. jobs'[i].pid = NoPid /\ \A k \in Slots \ {i} : jobs'[k] = jobs[k]
      BY <2>1, <3>1 DEF ClearedJob, TypeOK, TableTypeOK
    <3>3. \A k \in Slots : jobs'[k].pid # p
      BY <3>1, <3>2, TableAssumption DEF PidsUnique
    <3>4. \A q \in Pids \ {p} : Status(q)' = Status(q)
      BY <3>1, <3>2, StatusLocal, TableAssumption
    <3>5. JobControl!Become(jobs[i].pid, "none")
      <4>1. jobs[i].pid \in Pids BY <3>1
      <4>2. [q \in Pids |-> Status(q)]' = [[q \in Pids |-> Status(q)] EXCEPT ![jobs[i].pid] = "none"]
        <5>1. ASSUME NEW q \in Pids, q = p PROVE Status(q)' = "none"
          BY <3>3, <5>1 DEF Status, SlotsOfPid
        <5> QED BY <3>1, <3>4, <5>1
      <4> QED BY <4>2 DEF JobControl!Become
    <3>6. Status(jobs[i].pid) # "none"
      <4>1. Status(jobs[i].pid) = jobs[i].state BY <3>1, StatusOfSlot
      <4> QED BY <3>1, <4>1 DEF TypeOK, TableTypeOK, Job, JobStates
    <3>7. JobControl!End(jobs[i].pid) BY <3>1, <3>5, <3>6 DEF JobControl!End
    <3> QED BY <3>1, <3>7 DEF JobControl!Next
  <2>2. ASSUME NEW i \in SlotsOfPid(p), jobs' = [jobs EXCEPT ![i].state = "ST"] PROVE Goal
    <3>1. i \in Slots /\ jobs[i].pid = p /\ p \in Pids
      BY <1>4, ActEffect DEF SlotsOfPid
    <3>2. JobControl!Become(jobs[i].pid, "ST") BY <2>2, <3>1, StateWrite DEF JobStates
    <3>3. Status(jobs[i].pid) = jobs[i].state BY <3>1, StatusOfSlot
    <3>4. jobs[i].state # "ST"
      BY <1>4, <2>2, <3>1 DEF TypeOK, TableTypeOK, Job
    <3>5. jobs[i].state \in {"FG", "BG"}
      BY <3>1, <3>4, TableAssumption DEF ForegroundInv, TypeOK, TableTypeOK, Job, JobStates
    <3>6. JobControl!Halt(jobs[i].pid) BY <3>1, <3>2, <3>3, <3>5 DEF JobControl!Halt
    <3> QED BY <3>1, <3>6 DEF JobControl!Next
  <2> HIDE DEF Goal
  <2>3. Goal BY <1>4, <2>1, <2>2, ActEffect
  <2> QED BY <2>3 DEF Goal
<1> QED BY <1>1, <1>2, <1>3, <1>4, TableWriters

\* Without fg, what the job table says of each process is a behaviour of
\* JobControl: every step of the shell, its handlers and its children is one
\* of the abstract transitions or leaves every status alone.
THEOREM RefinesJobControlCorrect ==
  ASSUME "FG" \notin Builtins
  PROVE  Spec => RefinesJobControl
<1>1. Init => JobControl!Init
  <2> SUFFICES ASSUME Init PROVE \A p \in Pids : Status(p) = "none"
    BY DEF JobControl!Init
  <2>1. \A i \in Slots : jobs[i].pid = NoPid BY DEF Init, InitJobs, ClearedJob
  <2> QED BY <2>1, StatusNone, TableAssumption DEF SlotsOfPid
<1>2. Init => ForegroundInv
  BY DEF Init, InitJobs, ClearedJob, ForegroundInv, AtMostOneFg, PromptMeansNoFg, FgSlots
<1>3. ShellInv /\ ForegroundInv /\ [Next]_vars => ForegroundInv'
  BY ForegroundInvStep
<1>4. ShellInv /\ ShellInv' /\ ForegroundInv /\ [Next]_vars
        => [JobControl!Next]_[p \in Pids |-> Status(p)]
  BY RefinementStep
<1> QED
  BY <1>1, <1>2, <1>3, <1>4, ShellInvariant, PTL DEF Spec, RefinesJobControl, JobControl!Spec

-----------------------------------------------------------------------------
(* Job states and process states, for a shell whose user types neither bg   *)
(* nor fg.                                                                  *)

Acting(p) == hpc["CHLD"] = "act" /\ hpid["CHLD"] = p

\* What waitpid would find has been announced, or the handler is still looking.
Notified == Waitable # {} => "CHLD" \in pending \/ hpc["CHLD"] # "idle"

\* A stop the handler is about to record is not over, unless the process died.
StopHeld == hpc["CHLD"] = "act" /\ hst \notin Zombie =>
              proc[hpid["CHLD"]] \in {"stopped"} \cup Zombie

\* A job shown as stopped does not run.
StoppedJobs == \A i \in Slots : jobs[i].pid # NoPid /\ jobs[i].state = "ST" =>
                 proc[jobs[i].pid] \in {"stopped", "none"} \cup Zombie

\* A stopped process is shown as such, or will be: its stop is not yet reported
\* or just being recorded.
StopsShown == \A p \in Pids : proc[p] = "stopped" =>
                \/ p \in unreported \cup dropped \/ Acting(p)
                \/ \E i \in SlotsOfPid(p) : jobs[i].state = "ST"

\* A child addjob had no slot for never gets one.
DroppedApart ==
  /\ \A p \in dropped : SlotsOfPid(p) = {} /\ (proc[p] # "none" \/ Acting(p))
  /\ mpc = "add" => cur \notin dropped

ShownInv ==
  Alive => /\ mpc \notin {"cont", "setstate"}
           /\ Notified /\ StopHeld /\ StoppedJobs /\ StopsShown /\ DroppedApart

\* What a step other than bg's kill does to one process.
LEMMA ProcMoves ==
  ASSUME ShellInv, [Next]_vars, ~SendCont, NEW p \in Pids
  PROVE  \/ proc'[p] = proc[p] /\ (p \in unreported' <=> p \in unreported)
         \/ Fork /\ cur' = p /\ proc[p] = "none" /\ proc'[p] = "forked"
         \/ /\ proc[p] \in {"forked", "grouped"} /\ proc'[p] \in {"grouped", "running"}
            /\ p \in unreported' <=> p \in unreported
         \/ /\ proc[p] \notin {"none"} \cup Zombie /\ proc'[p] \in Zombie
            /\ p \notin unreported' /\ "CHLD" \in pending'
         \/ proc[p] = "running" /\ proc'[p] = "stopped" /\ p \in unreported' /\ "CHLD" \in pending'
         \/ /\ Reap /\ hpc'["CHLD"] = "act" /\ hpid'["CHLD"] = p /\ p \in Waitable
            /\ hst' = proc[p] /\ p \notin unreported'
            /\ proc'[p] = IF proc[p] \in Zombie THEN "none" ELSE proc[p]
<1> DEFINE Same(q) == proc'[q] = proc[q] /\ (q \in unreported' <=> q \in unreported)
<1> USE DEF ShellInv
<1>1. CASE Fork
  <2>1. PICK q \in Pids : proc[q] = "none" /\ cur' = q /\ proc' = [proc EXCEPT ![q] = "forked"]
    BY <1>1 DEF Fork
  <2>2. UNCHANGED unreported BY <1>1 DEF Fork
  <2> QED BY <1>1, <2>1, <2>2 DEF TypeOK
<1>2. CASE Reap
  <2>1. PICK q \in Waitable :
          /\ hpid' = [hpid EXCEPT !["CHLD"] = q] /\ hst' = proc[q]
          /\ proc' = [proc EXCEPT ![q] = IF @ \in Zombie THEN "none" ELSE @]
          /\ unreported' = unreported \ {q}
    BY <1>2 DEF Reap
  <2>2. q \in Pids /\ hpid'["CHLD"] = q BY <2>1 DEF Waitable, TypeOK, Handled
  <2>3. hpc'["CHLD"] = "act" BY <1>2 DEF Reap, TypeOK, Handled
  <2>4. CASE p = q BY <1>2, <2>1, <2>2, <2>3, <2>4 DEF TypeOK
  <2>5. CASE p # q BY <2>1, <2>2, <2>5 DEF TypeOK
  <2> QED BY <2>4, <2>5
<1>3. ASSUME NEW q \in Pids, SetPgid(q) \/ Execve(q)
      PROVE  \/ Same(p)
             \/ /\ proc[p] \in {"forked", "grouped"} /\ proc'[p] \in {"grouped", "running"}
                /\ p \in unreported' <=> p \in unreported
  BY <1>3 DEF SetPgid, Execve, ChildTo, TypeOK
<1>4. ASSUME NEW q \in Pids, Die(q)
      PROVE  \/ Same(p)
             \/ /\ proc[p] \notin {"none"} \cup Zombie /\ proc'[p] \in Zombie
                /\ p \notin unreported' /\ "CHLD" \in pending'
  <2>1. /\ proc[q] \notin {"none"} \cup Zombie
        /\ \E st \in Zombie : proc' = [proc EXCEPT ![q] = st]
        /\ unreported' = unreported \ {q} /\ "CHLD" \in pending'
    BY <1>4 DEF Die, ChildTo, Phases, Zombie
  <2> QED BY <2>1 DEF TypeOK
<1>5. ASSUME NEW q \in Pids, Stop(q)
      PROVE  \/ Same(p)
             \/ /\ proc[p] = "running" /\ proc'[p] = "stopped" /\ p \in unreported'
                /\ "CHLD" \in pending'
  BY <1>5 DEF Stop, ChildTo, TypeOK
<1>6. ASSUME NEW q \in Pids, TakeSignal(q)
      PROVE  Die(q) \/ Stop(q) \/ UNCHANGED <<proc, unreported>>
  BY <1>6 DEF TakeSignal
<1>7. CASE UNCHANGED <<proc, unreported>> BY <1>7, Zenon
<1> QED
  BY <1>1, <1>2, <1>3, <1>4, <1>5, <1>6, <1>7
  DEF Next, vars, table, mainVars, sigVars, childVars, MainStep, HandlerStep, ChildStep,
      ReadCommand, ForkFails, Add, Unblock, BgFg, SetJobState, WaitTest, Suspend, Exit,
      Deliver, ReapNone, Act, ActFrame, Look, Kill, Key

\* A SIGCHLD is not forgotten: it stays pending until its handler starts, and
\* the handler returns only when waitpid finds no child.
LEMMA NoticeKept ==
  ASSUME TypeOK, [Next]_vars, "CHLD" \in pending \/ hpc["CHLD"] # "idle"
  PROVE  "CHLD" \in pending' \/ hpc'["CHLD"] # "idle" \/ ReapNone
BY DEF Next, vars, table, mainVars, sigVars, childVars, MainStep, HandlerStep, ChildStep,
       ReadCommand, Fork, ForkFails, Add, Unblock, BgFg, SendCont, SetJobState, WaitTest,
       Suspend, Exit, SetPgid, Execve, Die, Stop, TakeSignal, Key, Deliver, Reap, Act, ActFrame,
       Look, Kill, HandlerReturns, TypeOK, Handled

\* Between waitpid and the end of the loop body only that body touches the
\* handler's locals and the job table.
LEMMA ActingKept ==
  ASSUME ShellInv, [Next]_vars, hpc["CHLD"] = "act", ~Act
  PROVE  /\ hpc'["CHLD"] = "act" /\ hpid'["CHLD"] = hpid["CHLD"] /\ hst' = hst
         /\ ~Fork /\ ~Reap /\ UNCHANGED <<jobs, dropped>>
<1>1. ~Deliver("CHLD") /\ ~Reap /\ ~ReapNone
  BY DEF Deliver, Masked, Reap, ReapNone, HandlerAt
<1>2. ~Fork /\ ~Add /\ ~SetJobState BY MainInterrupted
<1> QED BY <1>1, <1>2, ChldWriters, TableWriters, DroppedWriters DEF ShellInv

LEMMA NotifiedStep ==
  ASSUME ShellInv, Notified, ~SendCont, [Next]_vars
  PROVE  Notified'
<1> SUFFICES ASSUME NEW p \in Waitable' PROVE "CHLD" \in pending' \/ hpc'["CHLD"] # "idle"
  BY DEF Notified
<1>1. TypeOK' /\ StopsCurrent' BY ShellInvStep DEF ShellInv
<1>2. p \in Pids /\ proc'[p] \in {"stopped"} \cup Zombie
  BY <1>1 DEF Waitable, TypeOK, StopsCurrent
<1>3. CASE p \in Waitable
  <2>1. ~ReapNone BY <1>3 DEF ReapNone
  <2> QED BY <1>3, <2>1, NoticeKept DEF Notified, ShellInv
<1>4. CASE p \notin Waitable /\ "CHLD" \notin pending'
  <2>1. proc'[p] = proc[p] => (p \in unreported' <=> p \in unreported) \/ Reap
    BY <1>2, <1>4, ProcMoves DEF Zombie
  <2>2. CASE Reap BY <2>2 DEF Reap, ShellInv, TypeOK, Handled
  <2>3. CASE ~Reap
    <3>1. proc'[p] = proc[p]
      BY <1>2, <1>4, <2>3, ProcMoves DEF Zombie
    <3> QED BY <1>2, <1>4, <2>1, <2>3, <3>1 DEF Waitable
  <2> QED BY <2>2, <2>3
<1> QED BY <1>3, <1>4

LEMMA StopHeldStep ==
  ASSUME ShellInv, StopHeld, ~SendCont, [Next]_vars
  PROVE  StopHeld'
<1> SUFFICES ASSUME hpc'["CHLD"] = "act", hst' \notin Zombie
             PROVE  proc'[hpid'["CHLD"]] \in {"stopped"} \cup Zombie
  BY DEF StopHeld
<1>1. hpid'["CHLD"] \in Pids BY ShellInvStep DEF ShellInv, ReapedChild
<1>2. CASE Reap
  <2>1. PICK q \in Waitable :
          /\ hpid' = [hpid EXCEPT !["CHLD"] = q] /\ hst' = proc[q]
          /\ proc' = [proc EXCEPT ![q] = IF @ \in Zombie THEN "none" ELSE @]
    BY <1>2 DEF Reap
  <2>2. hpid'["CHLD"] = q BY <2>1 DEF ShellInv, TypeOK, Handled
  <2>3. proc[q] = "stopped" BY <2>1 DEF Waitable, ShellInv, StopsCurrent
  <2> QED BY <1>1, <2>1, <2>2, <2>3 DEF ShellInv, TypeOK
<1>3. CASE ~Reap
  <2>1. ~Act BY ActEffect
  <2>2. hpc["CHLD"] = "act"
    BY <1>3, <2>1, ChldWriters
    DEF Deliver, ReapNone, HandlerReturns, ShellInv, TypeOK, Handled
  <2>3. hpid'["CHLD"] = hpid["CHLD"] /\ hst' = hst /\ ~Fork
    BY <2>1, <2>2, ActingKept
  <2>4. proc[hpid["CHLD"]] \in {"stopped"} \cup Zombie
    BY <2>2, <2>3 DEF StopHeld
  <2> QED BY <1>1, <1>3, <2>3, <2>4, ProcMoves DEF Zombie
<1> QED BY <1>2, <1>3

LEMMA StoppedJobsStep ==
  ASSUME ShellInv, StopHeld, StoppedJobs, ~SendCont, ~SetJobState, [Next]_vars
  PROVE  StoppedJobs'
<1> SUFFICES ASSUME NEW i \in Slots, jobs'[i].pid # NoPid, jobs'[i].state = "ST"
             PROVE  proc'[jobs'[i].pid] \in {"stopped", "none"} \cup Zombie
  BY DEF StoppedJobs
<1> USE DEF ShellInv
<1>1. CASE UNCHANGED jobs
  <2> DEFINE p == jobs[i].pid
  <2>1. p \in Pids BY <1>1 DEF TypeOK, TableTypeOK, Job
  <2>2. proc[p] \in {"stopped", "none"} \cup Zombie BY <1>1 DEF StoppedJobs
  <2>3. proc[p] = "none" => ~Fork
    BY <1>1, MainInterrupted DEF NoStaleEntry
  <2> HIDE DEF p
  <2>4. proc'[p] \in {"stopped", "none"} \cup Zombie
    BY <2>1, <2>2, <2>3, ProcMoves DEF Zombie
  <2> QED BY <1>1, <2>4 DEF p
<1>2. CASE Add
  <2>1. jobs'[i] = jobs[i]
    BY <1>2, AddJobEffect DEF Add, TypeOK, TableTypeOK, JobStates, FreeSlots, table
  <2>2. UNCHANGED proc BY <1>2 DEF Add, childVars
  <2> QED BY <2>1, <2>2 DEF StoppedJobs
<1>3. CASE Act
  <2> DEFINE p == hpid["CHLD"]
  <2>1. UNCHANGED proc BY <1>3 DEF Act, ActFrame, childVars
  <2>2. CASE UNCHANGED jobs BY <1>1, <2>2
  <2>3. ASSUME NEW k \in Slots, jobs' = [jobs EXCEPT ![k] = ClearedJob]
        PROVE  jobs'[i] = jobs[i]
    BY <2>3 DEF ClearedJob, TypeOK, TableTypeOK
  <2>4. ASSUME NEW k \in SlotsOfPid(p), jobs' = [jobs EXCEPT ![k].state = "ST"], proc[p] # "none"
        PROVE  proc'[jobs'[i].pid] \in {"stopped", "none"} \cup Zombie
    <3>1. k \in Slots /\ jobs[k].pid = p BY DEF SlotsOfPid
    <3>2. CASE i # k
      <4>1. jobs'[i] = jobs[i] BY <2>4, <3>2 DEF TypeOK, TableTypeOK
      <4> QED BY <2>1, <4>1 DEF StoppedJobs
    <3>3. CASE i = k
      <4>1. jobs'[i].pid = p BY <2>4, <3>1, <3>3 DEF TypeOK, TableTypeOK, Job
      <4>2. hst \notin Zombie BY <1>3, <2>4, ActEffect DEF ReapedChild
      <4> QED BY <1>3, <2>1, <4>1, <4>2, ActEffect DEF StopHeld
    <3> QED BY <3>2, <3>3
  <2>5. CASE jobs'[i] = jobs[i] BY <2>1, <2>5 DEF StoppedJobs
  <2> QED BY <1>3, <2>2, <2>3, <2>4, <2>5, ActEffect DEF SlotsOfPid
<1> QED BY <1>1, <1>2, <1>3, TableWriters

LEMMA StopsShownStep ==
  ASSUME ShellInv, StopsShown, ~SendCont, ~SetJobState, [Next]_vars, Alive'
  PROVE  StopsShown'
<1> SUFFICES ASSUME NEW p \in Pids, proc'[p] = "stopped"
             PROVE  \/ p \in unreported' \cup dropped' \/ Acting(p)'
                    \/ \E i \in SlotsOfPid(p)' : jobs'[i].state = "ST"
  BY DEF StopsShown
<1> USE DEF ShellInv
<1>1. CASE proc[p] # "stopped" BY <1>1, ProcMoves DEF Zombie
<1>2. CASE Reap /\ hpid'["CHLD"] = p
  BY <1>2 DEF Reap, Acting, TypeOK, Handled
<1>3. CASE proc[p] = "stopped" /\ (p \in unreported' <=> p \in unreported)
  <2>1. CASE p \in unreported BY <1>3, <2>1
  <2>2. CASE p \in dropped
    <3>1. CASE Act
      <4>1. p # hpid["CHLD"] \/ proc[hpid["CHLD"]] # "none" BY <1>3
      <4>2. p \in dropped' BY <2>2, <3>1, <4>1, ActEffect
      <4> QED BY <4>2
    <3>2. p \in dropped' \/ Act BY <2>2, DroppedWriters DEF Add
    <3> QED BY <3>1, <3>2
  <2>3. CASE Acting(p)
    <3>1. CASE ~Act BY <2>3, <3>1, ActingKept DEF Acting
    <3>2. CASE Act
      <4>1. mpc' # "crashed" BY DEF Alive
      <4>2. PICK i \in SlotsOfPid(p) : jobs' = [jobs EXCEPT ![i].state = "ST"]
        BY <1>3, <2>3, <3>2, <4>1, ActEffect DEF Acting
      <4>3. i \in SlotsOfPid(p)' /\ jobs'[i].state = "ST"
        BY <4>2 DEF SlotsOfPid, TypeOK, TableTypeOK, Job
      <4> QED BY <4>3
    <3> QED BY <3>1, <3>2
  <2>4. ASSUME NEW i \in SlotsOfPid(p), jobs[i].state = "ST"
        PROVE  i \in SlotsOfPid(p)' /\ jobs'[i].state = "ST"
    <3>1. i \in Slots /\ jobs[i].pid = p /\ p # NoPid BY <2>4, TableAssumption DEF SlotsOfPid
    <3>2. CASE UNCHANGED jobs BY <2>4, <3>1, <3>2 DEF SlotsOfPid
    <3>3. CASE Add
      <4>1. jobs'[i] = jobs[i]
        BY <3>1, <3>3, AddJobEffect DEF Add, TypeOK, TableTypeOK, JobStates, FreeSlots, table
      <4> QED BY <2>4, <3>1, <4>1 DEF SlotsOfPid
    <3>4. CASE Act
      <4>1. ASSUME NEW k \in SlotsOfPid(hpid["CHLD"]), proc[hpid["CHLD"]] = "none",
                   jobs' = [jobs EXCEPT ![k] = ClearedJob]
            PROVE  jobs'[i] = jobs[i]
        <5>1. i # k BY <1>3, <3>1, <4>1 DEF SlotsOfPid
        <5> QED BY <3>1, <4>1, <5>1 DEF TypeOK, TableTypeOK
      <4>2. ASSUME NEW k \in Slots, jobs' = [jobs EXCEPT ![k].state = "ST"]
            PROVE  jobs'[i].pid = p /\ jobs'[i].state = "ST"
        BY <2>4, <3>1, <4>2 DEF TypeOK, TableTypeOK, Job
      <4>3. CASE jobs'[i] = jobs[i] BY <2>4, <3>1, <4>3 DEF SlotsOfPid
      <4>4. CASE jobs'[i].pid = p /\ jobs'[i].state = "ST" BY <3>1, <4>4 DEF SlotsOfPid
      <4> QED BY <3>2, <3>4, <4>1, <4>2, <4>3, <4>4, ActEffect DEF SlotsOfPid
    <3> QED BY <3>2, <3>3, <3>4, TableWriters
  <2> QED BY <1>3, <2>1, <2>2, <2>3, <2>4 DEF StopsShown
<1> QED BY <1>1, <1>2, <1>3, ProcMoves DEF Zombie

LEMMA DroppedApartStep ==
  ASSUME ShellInv, DroppedApart, ~SendCont, ~SetJobState, [Next]_vars, Alive'
  PROVE  DroppedApart'
<1> USE DEF ShellInv
<1>1. ASSUME NEW p \in dropped' PROVE SlotsOfPid(p)' = {} /\ (proc'[p] # "none" \/ Acting(p)')
  <2>1. CASE Add
    <3>1. UNCHANGED <<proc, hpc, hpid, cur>> BY <2>1 DEF Add, childVars, sigVars
    <3>2. CASE p \in dropped
      <4>1. SlotsOfPid(p) = {} /\ (proc[p] # "none" \/ Acting(p)) /\ p # cur
        BY <2>1, <3>2 DEF DroppedApart, Add, MainAt
      <4>2. p # NoPid BY <3>2, TableAssumption DEF TypeOK
      <4>3. ~Act BY <2>1, MainInterrupted, ActEffect
      <4>4. \A k \in Slots : jobs'[k].pid = jobs[k].pid \/ jobs'[k].pid = cur
        BY <4>3, PidsStep
      <4> QED BY <3>1, <4>1, <4>4 DEF SlotsOfPid, Acting
    <3>3. CASE p \notin dropped
      <4>1. p = cur /\ cur # NoPid /\ FreeSlots = {} BY <2>1, <3>3 DEF Add
      <4>2. SlotsOfPid(p) = {} /\ proc[p] # "none"
        BY <2>1, <4>1 DEF Add, MainAt, ForkWindow
      <4>3. UNCHANGED jobs BY <2>1, <4>1 DEF Add, AddJob, table
      <4> QED BY <3>1, <4>2, <4>3 DEF SlotsOfPid
    <3> QED BY <3>2, <3>3
  <2>2. CASE Act
    <3>1. UNCHANGED proc BY <2>2 DEF Act, ActFrame, childVars
    <3>2. p \in dropped /\ (p = hpid["CHLD"] => proc[p] # "none")
      BY <2>2, ActEffect DEF Alive
    <3>3. SlotsOfPid(p) = {} /\ proc[p] # "none"
      BY <3>2 DEF DroppedApart, Acting
    <3>4. p # NoPid BY <3>2, TableAssumption DEF TypeOK
    <3>5. ~Add BY <2>2, MainInterrupted, ActEffect
    <3>6. \A k \in Slots : jobs'[k].pid = jobs[k].pid \/ jobs'[k].pid = NoPid
      BY <3>5, PidsStep
    <3> QED BY <3>1, <3>3, <3>4, <3>6 DEF SlotsOfPid
  <2>3. CASE ~Add /\ ~Act
    <3>1. UNCHANGED <<jobs, dropped>> BY <2>3, TableWriters, DroppedWriters
    <3>2. SlotsOfPid(p) = {} /\ (proc[p] # "none" \/ Acting(p)) /\ p \in Pids
      BY <3>1 DEF DroppedApart, TypeOK
    <3>3. SlotsOfPid(p)' = {} BY <3>1, <3>2 DEF SlotsOfPid
    <3>4. CASE Acting(p) BY <2>3, <3>3, <3>4, ActingKept DEF Acting
    <3>5. CASE proc[p] # "none"
      BY <3>2, <3>3, <3>5, ProcMoves DEF Acting, Zombie
    <3> QED BY <3>2, <3>4, <3>5
  <2> QED BY <2>1, <2>2, <2>3
<1>2. ASSUME mpc' = "add" PROVE cur' \notin dropped'
  <2>1. CASE Fork
    <3>1. UNCHANGED dropped /\ proc[cur'] = "none" BY <2>1 DEF Fork
    <3>2. hpc["CHLD"] = "idle" BY <2>1, MainInterrupted
    <3> QED BY <3>1, <3>2 DEF DroppedApart, Acting
  <2>2. CASE ForkFails
    BY <2>2, TableAssumption DEF ForkFails, TypeOK
  <2>3. CASE ~Fork /\ ~ForkFails
    <3>1. mpc = "add" /\ cur' = cur
      BY <1>2, <2>3, MainWriters
      DEF ReadCommand, Add, Unblock, Return, BgFg, SendCont, SetJobState, WaitTest, Suspend
    <3>2. ~Add BY <1>2 DEF Add
    <3>3. dropped' \subseteq dropped BY <3>2, DroppedWriters, ActEffect
    <3> QED BY <3>1, <3>3 DEF DroppedApart
  <2> QED BY <2>1, <2>2, <2>3
<1> QED BY <1>1, <1>2 DEF DroppedApart

LEMMA ShownInvStep ==
  ASSUME Builtins = {}
  PROVE  ShellInv /\ ShownInv /\ [Next]_vars => ShownInv'
<1> SUFFICES ASSUME ShellInv, ShownInv, [Next]_vars, Alive'
             PROVE  /\ mpc' \notin {"cont", "setstate"}
                    /\ Notified' /\ StopHeld' /\ StoppedJobs' /\ StopsShown' /\ DroppedApart'
  BY DEF ShownInv
<1>1. Alive BY StaysDead
<1>2. mpc \notin {"cont", "setstate"} /\ Notified /\ StopHeld /\ StoppedJobs /\ StopsShown
      /\ DroppedApart
  BY <1>1 DEF ShownInv
<1>3. ~SendCont /\ ~SetJobState /\ ~BgFg BY <1>2 DEF SendCont, SetJobState, BgFg, MainAt
<1>4. mpc' \notin {"cont", "setstate"}
  BY <1>2, <1>3, MainWriters
  DEF ReadCommand, Fork, ForkFails, Add, Unblock, Return, WaitTest, Suspend
<1> QED
  BY <1>2, <1>3, <1>4, NotifiedStep, StopHeldStep, StoppedJobsStep, StopsShownStep,
     DroppedApartStep

\* Whenever the shell has handled its signals and waits for a command or for
\* the foreground job, a job is shown as stopped exactly if its process is:
\* for a user who types neither bg nor fg, however children stop, end and are
\* killed, and even when the table is too small.
THEOREM StatesTrueCorrect ==
  ASSUME Builtins = {}
  PROVE  Spec => []StatesTrue
<1>1. Init => ShownInv
  BY DEF Init, InitJobs, ClearedJob, ShownInv, Notified, Waitable, Zombie, StopHeld,
         StoppedJobs, StopsShown, DroppedApart, Handled
<1>2. ShellInv /\ ShownInv /\ [Next]_vars => ShownInv' BY ShownInvStep
<1>3. ShellInv /\ ShownInv => StatesTrue
  <2> SUFFICES ASSUME ShellInv, ShownInv, Settled, NEW i \in Slots, jobs[i].pid # NoPid
               PROVE  jobs[i].state = "ST" <=> proc[jobs[i].pid] = "stopped"
    BY DEF StatesTrue
  <2> USE DEF ShellInv
  <2> DEFINE p == jobs[i].pid
  <2>1. Alive BY DEF Settled, Alive
  <2>2. hpc["CHLD"] = "idle" BY MainRunsAlone DEF Settled, Handled
  <2>3. Waitable = {} BY <2>1, <2>2 DEF ShownInv, Notified, Settled
  <2>4. p \in Pids /\ proc[p] # "none" BY <2>2 DEF TypeOK, TableTypeOK, Job, NoStaleEntry
  <2>5. proc[p] \notin Zombie /\ p \notin unreported BY <2>3, <2>4 DEF Waitable
  <2>6. jobs[i].state = "ST" => proc[p] = "stopped"
    BY <2>1, <2>4, <2>5 DEF ShownInv, StoppedJobs
  <2>7. ASSUME proc[p] = "stopped" PROVE jobs[i].state = "ST"
    <3>1. i \in SlotsOfPid(p) BY DEF SlotsOfPid
    <3>2. p \notin dropped BY <2>1, <3>1 DEF ShownInv, DroppedApart
    <3>3. PICK k \in SlotsOfPid(p) : jobs[k].state = "ST"
      BY <2>1, <2>2, <2>4, <2>5, <2>7, <3>2 DEF ShownInv, StopsShown, Acting
    <3>4. k = i BY <3>1, <3>3 DEF PidsUnique, SlotsOfPid
    <3> QED BY <3>3, <3>4
  <2> QED BY <2>6, <2>7
<1> QED BY <1>1, <1>2, <1>3, ShellInvariant, PTL DEF Spec

-----------------------------------------------------------------------------
(* Keystrokes. *)

\* A handler about to call kill holds the pid of a job that was in the
\* foreground when it looked; since then only sigchld_handler has run.
AimInv ==
  \A s \in {"INT", "TSTP"} : hpc[s] = "kill" =>
    hpid[s] \in Pids /\ \A i \in SlotsOfPid(hpid[s]) : jobs[i].state # "BG"

\* Only the two handlers write the locals of theirs.
LEMMA AimWriters ==
  ASSUME ShellInv, [Next]_vars, NEW s \in {"INT", "TSTP"}, ~Look(s)
  PROVE  hpc'[s] = "kill" => hpc[s] = "kill" /\ hpid'[s] = hpid[s]
<1> USE DEF ShellInv
<1> DEFINE Kept == hpc'[s] = "kill" => hpc[s] = "kill" /\ hpid'[s] = hpid[s]
<1>1. ASSUME NEW t \in Handled, HandlerReturns(t) PROVE Kept
  BY <1>1 DEF HandlerReturns, TypeOK
<1>2. ASSUME NEW t \in {"INT", "TSTP"}, Look(t) PROVE Kept
  BY <1>2 DEF Look, HandlerReturns, TypeOK, Handled
<1>3. ASSUME NEW t \in Handled, Deliver(t) PROVE Kept
  BY <1>3 DEF Deliver, TypeOK
<1>4. CASE Reap BY <1>4 DEF Reap, TypeOK, Handled
<1>5. CASE Act BY <1>5 DEF Act, ActFrame, TypeOK, Handled
<1>6. CASE UNCHANGED <<hpc, hpid>> BY <1>6
<1> QED
  BY <1>1, <1>2, <1>3, <1>4, <1>5, <1>6
  DEF Next, vars, table, mainVars, sigVars, childVars, MainStep, HandlerStep, ChildStep,
      ReadCommand, Fork, ForkFails, Add, Unblock, BgFg, SendCont, SetJobState, WaitTest,
      Suspend, Exit, SetPgid, Execve, Die, Stop, TakeSignal, Key, ReapNone, Kill, Handled

LEMMA AimInvStep == ShellInv /\ AimInv /\ [Next]_vars => AimInv'
<1> SUFFICES ASSUME ShellInv, AimInv, [Next]_vars, NEW s \in {"INT", "TSTP"}, hpc'[s] = "kill"
             PROVE  hpid'[s] \in Pids /\ \A i \in SlotsOfPid(hpid[s])' : jobs'[i].state # "BG"
  BY DEF AimInv
<1> USE DEF ShellInv
<1>1. CASE Look(s)
  <2>1. FgPid # NoPid /\ hpid'[s] = FgPid /\ UNCHANGED jobs
    BY <1>1 DEF Look, HandlerReturns, TypeOK, Handled, table
  <2>2. FgSlots # {} BY <2>1 DEF FgPid
  <2>3. First(FgSlots) \in FgSlots BY <2>2, FirstIsLeast DEF FgSlots
  <2> DEFINE k == First(FgSlots)
  <2>4. k \in Slots /\ jobs[k].pid = FgPid /\ jobs[k].state = "FG"
    BY <2>2, <2>3 DEF FgPid, FgSlots
  <2> HIDE DEF k
  <2>5. FgPid \in Pids BY <2>1, <2>4 DEF TypeOK, TableTypeOK, Job
  <2>6. \A i \in Slots : jobs[i].pid = FgPid => i = k BY <2>1, <2>4 DEF PidsUnique
  <2> QED BY <2>1, <2>4, <2>5, <2>6 DEF SlotsOfPid
<1>2. CASE ~Look(s)
  <2>1. hpc[s] = "kill" /\ hpid'[s] = hpid[s] BY <1>2, AimWriters
  <2>2. hpid[s] \in Pids /\ \A i \in SlotsOfPid(hpid[s]) : jobs[i].state # "BG"
    BY <2>1 DEF AimInv
  <2>3. stack # <<>> BY <2>1, MainRunsAlone DEF Handled
  <2>4. ~Add /\ ~SetJobState BY <2>3 DEF Add, SetJobState, MainAt
  <2>5. CASE UNCHANGED jobs BY <2>1, <2>2, <2>5 DEF SlotsOfPid
  <2>6. CASE Act
    <3>1. ASSUME NEW k \in Slots,
                 jobs' = [jobs EXCEPT ![k] = ClearedJob] \/ jobs' = [jobs EXCEPT ![k].state = "ST"],
                 NEW i \in Slots
          PROVE  jobs'[i] = jobs[i] \/ jobs'[i].state # "BG"
      BY <3>1 DEF ClearedJob, TypeOK, TableTypeOK, Job
    <3>2. \A i \in Slots : jobs'[i] = jobs[i] \/ jobs'[i].state # "BG"
      BY <2>6, <3>1, ActEffect DEF SlotsOfPid
    <3> QED BY <2>1, <2>2, <3>2 DEF SlotsOfPid
  <2> QED BY <2>4, <2>5, <2>6, TableWriters
<1> QED BY <1>1, <1>2

\* A signal becomes pending at a child only through kill in a handler.
LEMMA SignalWriters ==
  ASSUME ShellInv, [Next]_vars, NEW p \in Pids, ~(psig'[p] \subseteq psig[p])
  PROVE  \E s \in {"INT", "TSTP"} : hpc[s] = "kill" /\ hpid[s] = p
<1> USE DEF ShellInv
<1>1. ASSUME NEW s \in {"INT", "TSTP"}, Kill(s) PROVE hpc[s] = "kill" /\ hpid[s] = p
  BY <1>1 DEF Kill, HandlerAt, TypeOK
<1>2. CASE SendCont
  <2> DEFINE q == jobs[slot].pid
  <2>1. UNCHANGED psig \/ psig' = [psig EXCEPT ![q] = @ \ {"TSTP"}]
    BY <1>2 DEF SendCont, childVars
  <2> HIDE DEF q
  <2> QED BY <2>1 DEF TypeOK
<1>3. ASSUME NEW q \in Pids, Die(q) PROVE FALSE BY <1>3 DEF Die, TypeOK
<1>4. ASSUME NEW q \in Pids, Stop(q) PROVE FALSE BY <1>4 DEF Stop, TypeOK
<1>5. ASSUME NEW q \in Pids, TakeSignal(q) PROVE FALSE
  BY <1>3, <1>4, <1>5 DEF TakeSignal, TypeOK
<1>6. ~UNCHANGED psig OBVIOUS
<1> QED
  BY <1>1, <1>2, <1>3, <1>4, <1>5, <1>6
  DEF Next, vars, table, mainVars, sigVars, childVars, MainStep, HandlerStep, ChildStep,
      ReadCommand, Fork, ForkFails, Add, Unblock, BgFg, SetJobState, WaitTest,
      Suspend, Exit, SetPgid, Execve, Key, Deliver, Reap, ReapNone, Act, ActFrame, Look

\* ctrl-c and ctrl-z never reach a background job, bg and fg included: a job
\* that leaves the foreground between the handler's look and its kill has
\* ended or stopped, for main cannot run and put it in the background.
THEOREM KeysSpareBackgroundCorrect == Spec => KeysSpareBackground
<1>1. Init => AimInv BY DEF Init, AimInv, Handled
<1>2. ShellInv /\ AimInv /\ [Next]_vars => AimInv' BY AimInvStep
<1>3. ShellInv /\ AimInv /\ [Next]_vars
        => [\A p \in Pids : ~(psig'[p] \subseteq psig[p]) =>
              \A i \in SlotsOfPid(p) : jobs[i].state # "BG"]_vars
  BY SignalWriters DEF AimInv
<1> QED BY <1>1, <1>2, <1>3, ShellInvariant, PTL DEF Spec, KeysSpareBackground
=============================================================================
