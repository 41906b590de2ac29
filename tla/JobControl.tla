----------------------------- MODULE JobControl -----------------------------
(***************************************************************************)
(* What the tiny shell promises of job states (the comment at tsh.c:32-40  *)
(* and the transitions its handlers and builtins make): a job is absent,   *)
(* in the foreground, in the background or stopped, and a job enters the   *)
(* foreground, or the shell takes a command at all, only while no other    *)
(* job is in the foreground.                                               *)
(***************************************************************************)
CONSTANT Pids

VARIABLE status    \* of the job of each process

Foreground == {p \in Pids : status[p] = "FG"}

Become(p, st) == status' = [status EXCEPT ![p] = st]

Init == status = [p \in Pids |-> "none"]

\* A command line starts a job.
Start(p) ==
  /\ Foreground = {} /\ status[p] = "none"
  /\ \E st \in {"FG", "BG"} : Become(p, st)

\* The job exits or is killed.
End(p) == status[p] # "none" /\ Become(p, "none")

\* The job stops: ctrl-z, or a stop signal from elsewhere.
Halt(p) == status[p] \in {"FG", "BG"} /\ Become(p, "ST")

\* bg and fg.
Resume(p) ==
  /\ Foreground = {} /\ status[p] \in {"BG", "ST"}
  /\ \E st \in {"FG", "BG"} : Become(p, st)

Next == \E p \in Pids : Start(p) \/ End(p) \/ Halt(p) \/ Resume(p)

Spec == Init /\ [][Next]_status
=============================================================================
