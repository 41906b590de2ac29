------------------------------ MODULE JobTable ------------------------------
(***************************************************************************)
(* The job list of the tiny shell: the array jobs[MAXJOBS], the counter    *)
(* nextjid and the helper routines that manipulate them.  A job is a       *)
(* record [pid, jid, state]; its command line is only ever printed and is  *)
(* left out.  Slots are numbered from 1.                                   *)
(***************************************************************************)
EXTENDS Integers, FiniteSets, FiniteSetsExt

CONSTANTS
  Pids,      \* process ids the kernel may hand out (all > 0)
  NoPid,     \* the pid 0 of a cleared slot, and what a failed fork leaves
  MaxJobs,   \* MAXJOBS, the number of slots
  JidCap     \* bound on nextjid, so that the state space is finite

ASSUME TableAssumption ==
  /\ NoPid \notin Pids
  /\ MaxJobs \in Nat \ {0}
  /\ JidCap \in Nat

VARIABLES
  jobs,      \* jobs[MAXJOBS]
  nextjid    \* next job id to allocate

table == <<jobs, nextjid>>

Slots     == 1 .. MaxJobs
JobStates == {"UNDEF", "FG", "BG", "ST"}
Job       == [pid : Pids \cup {NoPid}, jid : Nat, state : JobStates]

ClearedJob == [pid |-> NoPid, jid |-> 0, state |-> "UNDEF"]

\* initjobs, and the static initialiser of nextjid
InitJobs ==
  /\ jobs = [i \in Slots |-> ClearedJob]
  /\ nextjid = 1

\* Every helper scans the array upwards and stops at the first match.
First(S) == CHOOSE i \in S : \A j \in S : i <= j

FreeSlots     == {i \in Slots : jobs[i].pid = NoPid}
SlotsOfPid(p) == {i \in Slots : jobs[i].pid = p}
SlotsOfJid(j) == {i \in Slots : jobs[i].jid = j}
\* Faulty variant: any job that is not stopped counts as the foreground job.
RunningSlots  == {i \in Slots : jobs[i].state \in {"FG", "BG"}}
FgSlots       == {i \in Slots : jobs[i].state = "FG"}

\* fgpid: the pid of the first slot in state FG (which may be 0), else 0.
FgPid == IF FgSlots = {} THEN NoPid ELSE jobs[First(FgSlots)].pid

MaxJid(js) == Max({0} \cup {js[i].jid : i \in Slots})

\* Faulty variant: the counter wraps one id early.
AddJobWrapsEarly(p, st) ==
  IF p = NoPid \/ FreeSlots = {}
  THEN UNCHANGED table
  ELSE /\ jobs' = [jobs EXCEPT ![First(FreeSlots)] =
                     [pid |-> p, jid |-> nextjid, state |-> st]]
       /\ nextjid' = IF nextjid + 1 >= MaxJobs THEN 1 ELSE nextjid + 1

(***************************************************************************)
(* addjob(jobs, pid, state).  A pid below 1 is refused at once; otherwise  *)
(* the first free slot gets the job and the counter wraps past MAXJOBS.    *)
(* A full table changes nothing.                                           *)
(***************************************************************************)
AddJob(p, st) ==
  IF p = NoPid \/ FreeSlots = {}
  THEN UNCHANGED table
  ELSE /\ jobs' = [jobs EXCEPT ![First(FreeSlots)] =
                     [pid |-> p, jid |-> nextjid, state |-> st]]
       /\ nextjid' = IF nextjid + 1 > MaxJobs THEN 1 ELSE nextjid + 1

\* Faulty variants: the counter restarts at the largest id, not above it; the
\* slot loses its pid only.
DeleteJobReusesId(p) ==
  IF SlotsOfPid(p) = {}
  THEN UNCHANGED table
  ELSE /\ jobs' = [jobs EXCEPT ![First(SlotsOfPid(p))] = ClearedJob]
       /\ nextjid' = MaxJid(jobs')
DeleteJobPidOnly(p) ==
  IF SlotsOfPid(p) = {}
  THEN UNCHANGED table
  ELSE /\ jobs' = [jobs EXCEPT ![First(SlotsOfPid(p))].pid = NoPid]
       /\ nextjid' = MaxJid(jobs') + 1

(***************************************************************************)
(* deletejob(jobs, pid): clear the slot of pid and restart the counter     *)
(* above the largest job id left.  An unknown pid changes nothing.         *)
(***************************************************************************)
DeleteJob(p) ==
  IF SlotsOfPid(p) = {}
  THEN UNCHANGED table
  ELSE /\ jobs' = [jobs EXCEPT ![First(SlotsOfPid(p))] = ClearedJob]
       /\ nextjid' = MaxJid(jobs') + 1

\* job->state = st through the pointer to slot i, whatever the slot holds.
SetState(i, st) ==
  /\ jobs' = [jobs EXCEPT ![i].state = st]
  /\ UNCHANGED nextjid

-----------------------------------------------------------------------------
(***************************************************************************)
(* The table on its own, driven by every sequence of calls a shell with    *)
(* distinct live pids can make.                                            *)
(***************************************************************************)
TableAdd(p)    == /\ nextjid <= JidCap
                  /\ SlotsOfPid(p) = {}
                  /\ \E st \in {"FG", "BG"} : AddJob(p, st)
TableDelete(p) == SlotsOfPid(p) # {} /\ DeleteJob(p)

TableNext == \E p \in Pids : TableAdd(p) \/ TableDelete(p)

TableSpec == InitJobs /\ [][TableNext]_table

TableTypeOK ==
  /\ jobs \in [Slots -> Job]
  /\ nextjid \in Nat \ {0}

\* A slot is occupied, numbered and in a state, or it is none of the three:
\* a call never leaves a slot half cleared (clearjob, addjob, deletejob).
SlotsWhole ==
  \A i \in Slots :
    /\ jobs[i].pid = NoPid <=> jobs[i].jid = 0
    /\ jobs[i].pid = NoPid <=> jobs[i].state = "UNDEF"

\* As long as no live job is numbered MAXJOBS or more, so that the counter has
\* not wrapped past one, the id the next addjob hands out is free: deletejob
\* puts the counter back above every live id and addjob keeps it there.
NextJidFresh ==
  (\A i \in Slots : jobs[i].jid < MaxJobs) => \A i \in Slots : jobs[i].jid < nextjid
=============================================================================
