-------------------------------- MODULE Tsh --------------------------------
(***************************************************************************)
(* The tiny shell: its read/eval loop, its three asynchronous signal       *)
(* handlers, the children it forks and the part of the kernel they meet    *)
(* in (pending signals, waitpid, process groups).                          *)
(*                                                                         *)
(* The shell is one thread.  A handler interrupts whatever is running, at  *)
(* any step, unless its signal is blocked: SIGCHLD by eval around fork and *)
(* addjob, and every signal by its own running handler only, because       *)
(* Signal() leaves sa_mask empty.  So handlers nest: stack holds the       *)
(* running ones, the innermost first, and main runs when it is empty.      *)
(*                                                                         *)
(* A job is one process.  Calls into the job table are single steps: the   *)
(* only code that can run inside one is a handler that reads one slot, and *)
(* what it reads is what it would have read just before or just after.     *)
(* A local variable that is dead has its initial value.                    *)
(***************************************************************************)
EXTENDS JobTable, Sequences

CONSTANTS
  Builtins,  \* states the user may ask for by name: {} or some of "FG", "BG"
  MaxKeys    \* bound on ctrl-c and ctrl-z keystrokes

ASSUME ShellAssumption ==
  /\ Builtins \subseteq {"FG", "BG"}
  /\ MaxKeys \in Nat

VARIABLES
  mpc,        \* where main is
  cur,        \* eval: pid, as fork returned it
  want,       \* eval: bg ? BG : FG;  do_bgfg: the state the builtin stands for
  slot,       \* do_bgfg: the job pointer
  blocked,    \* eval: is SIGCHLD in main's signal mask?
  pending,    \* signals sent to the shell and not yet delivered
  stack,      \* running handlers, innermost first
  hpc,        \* where each handler is
  hpid,       \* each handler's local pid
  hst,        \* sigchld_handler: what status tells
  proc,       \* state of each child process
  psig,       \* signals pending at each child
  unreported, \* stopped children waitpid has not reported yet
  dropped,    \* children addjob found no slot for
  keys        \* keystrokes so far

mainVars  == <<mpc, cur, want, slot, blocked>>
sigVars   == <<pending, stack, hpc, hpid, hst>>
childVars == <<proc, psig, unreported>>
vars      == <<table, mainVars, sigVars, childVars, dropped, keys>>

Handled == {"CHLD", "INT", "TSTP"}
Zombie  == {"zexited", "zsignaled"}
Phases  == {"none", "forked", "grouped", "running", "stopped"} \cup Zombie

Init ==
  /\ InitJobs
  /\ mpc = "read" /\ cur = NoPid /\ want = "FG" /\ slot = 1 /\ blocked = FALSE
  /\ pending = {} /\ stack = <<>>
  /\ hpc = [s \in Handled |-> "idle"] /\ hpid = [s \in Handled |-> NoPid]
  /\ hst = "zexited"
  /\ proc = [p \in Pids |-> "none"] /\ psig = [p \in Pids |-> {}]
  /\ unreported = {} /\ dropped = {} /\ keys = 0

Alive == mpc \notin {"exited", "crashed"}

-----------------------------------------------------------------------------
(* main, eval, do_bgfg and waitfg *)

MainAt(l) == mpc = l /\ stack = <<>>
Return    == IF want = "FG" THEN "wait" ELSE "read"

\* Faulty variant: eval forgets to block SIGCHLD.
ReadCommandUnblocked ==
  /\ MainAt("read") /\ nextjid <= JidCap
  /\ want' \in {"FG", "BG"} /\ mpc' = "fork"
  /\ UNCHANGED <<table, cur, slot, blocked, sigVars, childVars, dropped, keys>>

\* main reads a command that is not builtin; eval blocks SIGCHLD.
ReadCommand ==
  /\ MainAt("read") /\ nextjid <= JidCap
  /\ want' \in {"FG", "BG"}
  /\ blocked' = TRUE /\ mpc' = "fork"
  /\ UNCHANGED <<table, cur, slot, sigVars, childVars, dropped, keys>>

Fork ==
  /\ MainAt("fork")
  /\ \E p \in {q \in Pids : proc[q] = "none"} :
       /\ cur' = p
       /\ proc' = [proc EXCEPT ![p] = "forked"]
  /\ mpc' = "add"
  /\ UNCHANGED <<table, want, slot, blocked, sigVars, psig, unreported, dropped, keys>>

\* fork returns -1 and eval goes on with it.
ForkFails ==
  /\ MainAt("fork")
  /\ cur' = NoPid /\ mpc' = "add"
  /\ UNCHANGED <<table, want, slot, blocked, sigVars, childVars, dropped, keys>>

Add ==
  /\ MainAt("add")
  /\ AddJob(cur, want)
  /\ dropped' = IF cur # NoPid /\ FreeSlots = {} THEN dropped \cup {cur} ELSE dropped
  /\ mpc' = "unblock"
  /\ UNCHANGED <<cur, want, slot, blocked, sigVars, childVars, keys>>

Unblock ==
  /\ MainAt("unblock")
  /\ blocked' = FALSE /\ mpc' = Return
  /\ cur' = NoPid /\ want' = "FG"
  /\ UNCHANGED <<table, slot, sigVars, childVars, dropped, keys>>

\* do_bgfg: the pointer getjobpid or getjobjid returns for an argument that
\* names a job.  An argument that names none only prints a message.
Nameable ==
  {First(SlotsOfPid(p)) : p \in {q \in Pids : SlotsOfPid(q) # {}}} \cup
  {First(SlotsOfJid(jobs[i].jid)) : i \in {k \in Slots : jobs[k].jid >= 1}}

BgFg ==
  /\ MainAt("read")
  /\ want' \in Builtins
  /\ slot' \in Nameable
  /\ mpc' = "cont"
  /\ UNCHANGED <<table, cur, blocked, sigVars, childVars, dropped, keys>>

\* kill(-(job->pid), SIGCONT) reads the pid through the pointer.  A child that
\* has not called setpgid yet has no group of its own; pid 0 (the job was
\* reaped since) addresses the shell's own group, and SIGCONT then throws away
\* a SIGTSTP pending there.
SendCont ==
  /\ MainAt("cont")
  /\ LET p == jobs[slot].pid IN
       \/ /\ p = NoPid
          /\ pending' = pending \ {"TSTP"}
          /\ UNCHANGED childVars
       \/ /\ p # NoPid /\ proc[p] = "stopped"
          /\ proc' = [proc EXCEPT ![p] = "running"]
          /\ psig' = [psig EXCEPT ![p] = @ \ {"TSTP"}]
          /\ unreported' = unreported \ {p}
          /\ pending' = pending \cup {"CHLD"}
       \/ /\ p # NoPid /\ proc[p] # "stopped"
          /\ psig' = [psig EXCEPT ![p] = @ \ {"TSTP"}]
          /\ UNCHANGED <<proc, unreported, pending>>
  /\ mpc' = "setstate"
  /\ UNCHANGED <<table, cur, want, slot, blocked, stack, hpc, hpid, hst, dropped, keys>>

SetJobState ==
  /\ MainAt("setstate")
  /\ SetState(slot, want)
  /\ mpc' = Return
  /\ want' = "FG" /\ slot' = 1
  /\ UNCHANGED <<cur, blocked, sigVars, childVars, dropped, keys>>

\* waitfg: test, then sleep.  A handler may run between the two.
WaitTest ==
  /\ MainAt("wait")
  /\ mpc' = IF FgPid # NoPid THEN "suspend" ELSE "read"
  /\ UNCHANGED <<table, cur, want, slot, blocked, sigVars, childVars, dropped, keys>>

\* Faulty variant: the mask given to sigsuspend holds SIGCHLD.
SuspendMasked ==
  /\ MainAt("suspend")
  /\ mpc' = "asleep" /\ blocked' = TRUE
  /\ UNCHANGED <<table, cur, want, slot, sigVars, childVars, dropped, keys>>

Suspend ==
  /\ MainAt("suspend")
  /\ mpc' = "asleep"
  /\ UNCHANGED <<table, cur, want, slot, blocked, sigVars, childVars, dropped, keys>>

\* quit or end of file at the prompt; SIGQUIT anywhere.
Exit ==
  /\ Alive /\ mpc' = "exited"
  /\ UNCHANGED <<table, cur, want, slot, blocked, sigVars, childVars, dropped, keys>>

-----------------------------------------------------------------------------
(* signal delivery and the handlers *)

Masked(s) == hpc[s] # "idle" \/ (s = "CHLD" /\ blocked)

Deliver(s) ==
  /\ Alive /\ s \in pending /\ ~Masked(s)
  /\ pending' = pending \ {s}
  /\ stack' = <<s>> \o stack
  /\ hpc' = [hpc EXCEPT ![s] = IF s = "CHLD" THEN "reap" ELSE "look"]
  /\ UNCHANGED <<table, mainVars, hpid, hst, childVars, dropped, keys>>

HandlerAt(s, l) == Alive /\ stack # <<>> /\ Head(stack) = s /\ hpc[s] = l

\* Faulty variant: waitfg tests once (if), and returns with sigsuspend.
HandlerReturnsOnce(s) ==
  /\ stack' = Tail(stack)
  /\ hpc' = [hpc EXCEPT ![s] = "idle"] /\ hpid' = [hpid EXCEPT ![s] = NoPid]
  /\ mpc' = IF mpc = "asleep" /\ Tail(stack) = <<>> THEN "read" ELSE mpc

\* Return from the innermost handler; sigsuspend returns with the outermost,
\* to the test in waitfg.
HandlerReturns(s) ==
  /\ stack' = Tail(stack)
  /\ hpc' = [hpc EXCEPT ![s] = "idle"]
  /\ hpid' = [hpid EXCEPT ![s] = NoPid]
  /\ mpc' = IF mpc = "asleep" /\ Tail(stack) = <<>> THEN "wait" ELSE mpc

Waitable == {p \in Pids : proc[p] \in Zombie} \cup unreported

\* waitpid(-1, &status, WNOHANG | WUNTRACED) finds a child ...
Reap ==
  /\ HandlerAt("CHLD", "reap")
  /\ \E p \in Waitable :
       /\ hpid' = [hpid EXCEPT !["CHLD"] = p]
       /\ hst' = proc[p]
       /\ proc' = [proc EXCEPT ![p] = IF @ \in Zombie THEN "none" ELSE @]
       /\ unreported' = unreported \ {p}
  /\ hpc' = [hpc EXCEPT !["CHLD"] = "act"]
  /\ UNCHANGED <<table, mainVars, pending, stack, psig, dropped, keys>>

\* ... or none, and the handler returns.
ReapNone ==
  /\ HandlerAt("CHLD", "reap")
  /\ Waitable = {}
  /\ HandlerReturns("CHLD")
  /\ UNCHANGED <<table, cur, want, slot, blocked, pending, hst, childVars, dropped, keys>>

ActFrame ==
  /\ hpid' = [hpid EXCEPT !["CHLD"] = NoPid] /\ hst' = "zexited"
  /\ UNCHANGED <<cur, want, slot, blocked, pending, stack, childVars, keys>>

\* Faulty variants: a stop deletes the job; a stop is ignored; one child is
\* reaped for each SIGCHLD (if).
ActDeletesStopped ==
  /\ HandlerAt("CHLD", "act")
  /\ DeleteJob(hpid["CHLD"]) /\ dropped' = dropped \ {hpid["CHLD"]}
  /\ hpc' = [hpc EXCEPT !["CHLD"] = "reap"]
  /\ ActFrame /\ UNCHANGED mpc
ActIgnoresStop ==
  /\ HandlerAt("CHLD", "act")
  /\ IF hst = "stopped" THEN UNCHANGED <<table, dropped>>
     ELSE DeleteJob(hpid["CHLD"]) /\ dropped' = dropped \ {hpid["CHLD"]}
  /\ hpc' = [hpc EXCEPT !["CHLD"] = "reap"]
  /\ ActFrame /\ UNCHANGED mpc
ActOnce ==
  /\ HandlerAt("CHLD", "act")
  /\ IF hst = "stopped" THEN UNCHANGED <<table, dropped>>
     ELSE DeleteJob(hpid["CHLD"]) /\ dropped' = dropped \ {hpid["CHLD"]}
  /\ HandlerReturns("CHLD") /\ hst' = "zexited"
  /\ UNCHANGED <<cur, want, slot, blocked, pending, childVars, keys>>

\* The body of the loop.  For a child that is not in the table, job is NULL:
\* harmless if it exited, a null dereference if it was killed or stopped.
Act ==
  /\ HandlerAt("CHLD", "act")
  /\ LET p == hpid["CHLD"] IN
       \/ /\ hst \in Zombie
          /\ hst = "zexited" \/ SlotsOfPid(p) # {}
          /\ DeleteJob(p)
          /\ dropped' = dropped \ {p}
          /\ UNCHANGED mpc
       \/ /\ hst = "stopped" /\ SlotsOfPid(p) # {}
          /\ SetState(First(SlotsOfPid(p)), "ST")
          /\ UNCHANGED <<mpc, dropped>>
       \/ /\ hst # "zexited" /\ SlotsOfPid(p) = {}
          /\ mpc' = "crashed"
          /\ UNCHANGED <<table, dropped>>
  /\ hpc' = [hpc EXCEPT !["CHLD"] = "reap"]
  /\ ActFrame

\* sigint_handler and sigtstp_handler: look for the foreground job ...
Look(s) ==
  /\ HandlerAt(s, "look")
  /\ IF FgPid # NoPid
     THEN /\ hpid' = [hpid EXCEPT ![s] = FgPid]
          /\ hpc' = [hpc EXCEPT ![s] = "kill"]
          /\ UNCHANGED <<stack, mpc>>
     ELSE HandlerReturns(s)
  /\ UNCHANGED <<table, cur, want, slot, blocked, pending, hst, childVars, dropped, keys>>

\* ... and kill(-fg_pid, sig).  Nothing happens if the group is gone or, the
\* child being still short of its setpgid, not there yet.
Kill(s) ==
  /\ HandlerAt(s, "kill")
  /\ psig' = IF proc[hpid[s]] \in {"grouped", "running", "stopped"}
             THEN [psig EXCEPT ![hpid[s]] = @ \cup {s}] ELSE psig
  /\ HandlerReturns(s)
  /\ UNCHANGED <<table, cur, want, slot, blocked, pending, hst, proc, unreported, dropped, keys>>

-----------------------------------------------------------------------------
(* the children and the user *)

ChildTo(p, st) == proc' = [proc EXCEPT ![p] = st]

SetPgid(p) ==
  /\ Alive /\ proc[p] = "forked" /\ ChildTo(p, "grouped")
  /\ UNCHANGED <<table, mainVars, sigVars, psig, unreported, dropped, keys>>

Execve(p) ==
  /\ Alive /\ proc[p] = "grouped" /\ ChildTo(p, "running")
  /\ UNCHANGED <<table, mainVars, sigVars, psig, unreported, dropped, keys>>

\* exit, also after a failed execve; or death by a signal from elsewhere.
Die(p) ==
  /\ Alive
  /\ \/ proc[p] \in {"grouped", "running"} /\ ChildTo(p, "zexited")
     \/ proc[p] \in Phases \ ({"none"} \cup Zombie) /\ ChildTo(p, "zsignaled")
  /\ psig' = [psig EXCEPT ![p] = {}]
  /\ unreported' = unreported \ {p}
  /\ pending' = pending \cup {"CHLD"}
  /\ UNCHANGED <<table, mainVars, stack, hpc, hpid, hst, dropped, keys>>

\* A running program stops: a SIGTSTP is pending, or it stops itself (mystop).
Stop(p) ==
  /\ Alive /\ proc[p] = "running" /\ ChildTo(p, "stopped")
  /\ psig' = [psig EXCEPT ![p] = @ \ {"TSTP"}]
  /\ unreported' = unreported \cup {p}
  /\ pending' = pending \cup {"CHLD"}
  /\ UNCHANGED <<table, mainVars, stack, hpc, hpid, hst, dropped, keys>>

\* The default action of a pending SIGINT or SIGTSTP is taken.  Before execve
\* the child still has the shell's handlers, and its copy of the job list has
\* no foreground job: the signal is swallowed.
TakeSignal(p) ==
  \/ "INT" \in psig[p] /\ proc[p] = "running" /\ Die(p) /\ proc'[p] = "zsignaled"
  \/ "TSTP" \in psig[p] /\ Stop(p)
  \/ /\ Alive /\ proc[p] = "grouped" /\ psig[p] # {}
     /\ \E s \in psig[p] : psig' = [psig EXCEPT ![p] = @ \ {s}]
     /\ UNCHANGED <<table, mainVars, sigVars, proc, unreported, dropped, keys>>

Key(s) ==
  /\ Alive /\ keys < MaxKeys
  /\ keys' = keys + 1
  /\ pending' = pending \cup {s}
  /\ UNCHANGED <<table, mainVars, stack, hpc, hpid, hst, childVars, dropped>>

-----------------------------------------------------------------------------

\* What the shell does by itself, without waiting for a new command.
MainStep == Fork \/ ForkFails \/ Add \/ Unblock \/ SendCont \/ SetJobState
              \/ WaitTest \/ Suspend
HandlerStep == Reap \/ ReapNone \/ Act \/ \E s \in {"INT", "TSTP"} : Look(s) \/ Kill(s)
ChildStep(p) == SetPgid(p) \/ Execve(p) \/ TakeSignal(p)

Next ==
  \/ ReadCommand \/ BgFg \/ Exit
  \/ MainStep \/ HandlerStep
  \/ \E s \in Handled : Deliver(s)
  \/ \E p \in Pids : ChildStep(p) \/ Die(p) \/ Stop(p)
  \/ \E s \in {"INT", "TSTP"} : Key(s)

Spec == Init /\ [][Next]_vars

(***************************************************************************)
(* The scheduler runs the shell and its children, and the kernel delivers  *)
(* what is pending and not blocked: strongly fair, because a signal that   *)
(* becomes unblocked is delivered before sigprocmask, sigsuspend or the    *)
(* return from its own handler completes, not merely if it stays unblocked *)
(* for ever.  Nothing makes a program end, a user type, or the shell exit. *)
(***************************************************************************)
Fairness ==
  /\ WF_vars(MainStep)
  /\ WF_vars(HandlerStep)
  /\ \A s \in Handled : SF_vars(Deliver(s))
  /\ \A p \in Pids : WF_vars(ChildStep(p))

FairSpec == Spec /\ Fairness

-----------------------------------------------------------------------------
(* What the shell promises *)

TypeOK ==
  /\ TableTypeOK
  /\ mpc \in {"read", "fork", "add", "unblock", "cont", "setstate",
              "wait", "suspend", "asleep", "exited", "crashed"}
  /\ cur \in Pids \cup {NoPid} /\ want \in {"FG", "BG"}
  /\ slot \in Slots /\ blocked \in BOOLEAN
  /\ pending \subseteq Handled
  /\ stack \in Seq(Handled)
  /\ hpc \in [Handled -> {"idle", "reap", "act", "look", "kill"}]
  /\ hpid \in [Handled -> Pids \cup {NoPid}]
  /\ hst \in Phases
  /\ proc \in [Pids -> Phases] /\ psig \in [Pids -> SUBSET {"INT", "TSTP"}]
  /\ unreported \subseteq Pids /\ dropped \subseteq Pids
  /\ keys \in Nat

\* The point of blocking SIGCHLD around fork and addjob: a job is deleted
\* after it was added, so no slot outlives the process it stands for, except
\* inside the handler that has just reaped the process.
NoStaleEntry ==
  \A i \in Slots : jobs[i].pid # NoPid =>
    \/ proc[jobs[i].pid] # "none"
    \/ hpc["CHLD"] = "act" /\ hpid["CHLD"] = jobs[i].pid

\* A process is one job: getjobpid and deletejob, which take the first match,
\* cannot pick the wrong slot, even when the kernel uses a pid again.
PidsUnique ==
  \A i, k \in Slots : jobs[i].pid = jobs[k].pid /\ jobs[i].pid # NoPid => i = k

\* The converse of NoStaleEntry: every child the shell has not reaped is in
\* the table, is about to be added, or is one addjob had no room for.
ChildrenTracked ==
  Alive => \A p \in Pids : proc[p] # "none" =>
    SlotsOfPid(p) # {} \/ (mpc = "add" /\ cur = p) \/ p \in dropped

\* "At most 1 job can be in the FG state" (tsh.c:39).
AtMostOneFg == \A i, k \in FgSlots : i = k

\* The prompt comes back only when no job is left in the foreground, so that
\* the user never types a command over a running foreground job.
PromptMeansNoFg ==
  mpc \in {"read", "fork", "add", "cont", "setstate"} => FgSlots = {}

\* "BG (running in background), ST (stopped)" (tsh.c:27-30): once every signal
\* has been handled, the state shown for a job is that of its process.
Settled == stack = <<>> /\ "CHLD" \notin pending /\ mpc \in {"read", "asleep"}
StatesTrue ==
  Settled => \A i \in Slots : jobs[i].pid # NoPid =>
               (jobs[i].state = "ST" <=> proc[jobs[i].pid] = "stopped")

\* A key typed at the keyboard reaches the foreground job, or one that has
\* just stopped being it, and never a background job (tsh.c:166-168).
KeysSpareBackground ==
  [][\A p \in Pids : ~(psig'[p] \subseteq psig[p]) =>
       \A i \in SlotsOfPid(p) : jobs[i].state # "BG"]_vars

\* sigchld_handler never follows a NULL job, as long as addjob never ran out
\* of slots.
CrashOnlyIfDropped == mpc = "crashed" => dropped # {}

\* The same without the excuse: the shell survives every workload of no more children than slots.
NoNullDeref == mpc # "crashed"

-----------------------------------------------------------------------------
(***************************************************************************)
(* The strengthening of NoStaleEntry, PidsUnique, ChildrenTracked and      *)
(* CrashOnlyIfDropped that every step preserves.                           *)
(***************************************************************************)

\* A handler that is not idle is on the stack.
RunningOnStack ==
  \A s \in Handled : hpc[s] # "idle" => \E i \in 1 .. Len(stack) : stack[i] = s

\* From fork to the end of addjob no SIGCHLD handler runs or can start, and
\* the child is alive, or a zombie, and not in the table.
ForkWindow ==
  /\ mpc \in {"fork", "add", "unblock"} => blocked /\ hpc["CHLD"] = "idle"
  /\ mpc = "add" /\ cur # NoPid => proc[cur] # "none" /\ SlotsOfPid(cur) = {}

\* Between waitpid and the end of the loop body: the process is gone iff it
\* is a zombie that was reaped, and it is a job or one addjob refused.
ReapedChild ==
  hpc["CHLD"] = "act" =>
    /\ hpid["CHLD"] \in Pids
    /\ hst \in Zombie <=> proc[hpid["CHLD"]] = "none"
    /\ SlotsOfPid(hpid["CHLD"]) # {} \/ hpid["CHLD"] \in dropped

\* A stop is reported while it lasts: SIGCONT and death withdraw the report,
\* so waitpid never tells the handler of a stop that is over.
StopsCurrent == \A p \in unreported : proc[p] = "stopped"

\* The inductive invariant of the shell.
ShellInv ==
  /\ TypeOK /\ RunningOnStack /\ ForkWindow /\ ReapedChild /\ StopsCurrent
  /\ NoStaleEntry /\ PidsUnique /\ ChildrenTracked /\ CrashOnlyIfDropped

\* Why the foreground is never lost track of while fg is not used: main holds
\* the only way into FG, and it is at the prompt only when FG is empty.  A slot
\* that bg wrote after its job was reaped shows BG, which waitfg ignores.
ForegroundInv ==
  /\ AtMostOneFg /\ PromptMeansNoFg
  /\ mpc \in {"cont", "setstate"} => want = "BG"
  /\ mpc = "unblock" /\ want = "BG" => FgSlots = {}
  /\ \A i \in FgSlots : jobs[i].pid # NoPid
  /\ \A i \in Slots : jobs[i].pid # NoPid => jobs[i].state # "UNDEF"

\* What the table says of each process is a run of the abstract job control.
Status(p) == IF SlotsOfPid(p) = {} THEN "none" ELSE jobs[First(SlotsOfPid(p))].state
JobControl == INSTANCE JobControl WITH status <- [p \in Pids |-> Status(p)]

\* As far as the user can tell from job states, the shell is JobControl: a job
\* starts only under an empty foreground, ends once, stops from the foreground
\* or the background, and bg resumes it.
RefinesJobControl == JobControl!Spec

\* "your shell should reap all of its zombie children" (README.md:111), also
\* when several children end while one SIGCHLD is pending.
ZombiesReaped ==
  \A p \in Pids : proc[p] \in Zombie ~> proc[p] = "none" \/ ~Alive

\* A SIGCHLD that arrives while the shell sleeps in sigsuspend wakes it.
WakesOnSignal ==
  (mpc = "asleep" /\ "CHLD" \in pending) ~> mpc # "asleep"

\* "Block until process pid is no longer the foreground process" (tsh.c:347):
\* and no longer than that.
WaitfgReturns ==
  (mpc = "asleep" /\ FgPid = NoPid) ~> mpc # "asleep"
=============================================================================
