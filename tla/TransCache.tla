----------------------------- MODULE TransCache -----------------------------
(***************************************************************************)
(* The grading of transpose_submit: test-trans.c replays the memory trace  *)
(* of a call on a direct-mapped cache of 32 blocks of 32 bytes.  The loops *)
(* of trans.c produce the trace, csim.c's cache replays it.  The reference *)
(* simulator that test-trans runs is a binary; csim.c was made to print    *)
(* the same numbers.                                                       *)
(***************************************************************************)
EXTENDS Trans, Sequences, FiniteSets

CONSTANTS ABase,       \* the address of A in tracegen, B starting where A[256][256] ends
          ClockMax, MaxAccesses

VARIABLES todo,        \* the accesses that the current iteration still makes
          ended,       \* the trace has reached the end marker
          cache, lru_clock, hits, misses, evictions, used, again
cacheVars == <<cache, lru_clock, hits, misses, evictions, used, again>>
gradeVars == <<vars, todo, ended, cacheVars>>

BBase == ABase + 4 * 256 * 256
Cache == INSTANCE Csim WITH S <- 32, E <- 1, B <- 32, Addresses <- Nat

AtA(r, c) == ABase + 4 * (r * M + c)
AtB(r, c) == BBase + 4 * (r * N + c)

\* Elements from, from + 1, ... of a row or a column.
RowOfA(r, from, n) == [d \in 1 .. n |-> AtA(r, from + d - 1)]
RowOfB(r, from, n) == [d \in 1 .. n |-> AtB(r, from + d - 1)]
ColOfA(c, from, n) == [d \in 1 .. n |-> AtA(from + d - 1, c)]
ColOfB(c, from, n) == [d \in 1 .. n |-> AtB(from + d - 1, c)]

\* The upper half without the set-aside: A's right part goes straight to the lower rows of B.
FaultyAccesses ==
  LET i == at.i
      j == at.j
      k == at.k
  IN  CASE at.phase = "block8" -> RowOfA(k, j, 8) \o ColOfB(k, j, 8)
        [] at.phase = "upper" -> RowOfA(k, j, 8) \o ColOfB(k, j, 4) \o ColOfB(k, j + 4, 4)
        [] at.phase = "middle" -> ColOfA(k, i + 4, 4) \o RowOfB(k, i + 4, 4)
        [] at.phase = "lower" -> RowOfA(k, j + 4, 4) \o ColOfB(k, j + 4, 4)
        [] at.phase = "block16" ->
             [n \in 1 .. 2 * Cardinality(BlockCols) |-> LET c == j + (n - 1) \div 2
                                                       IN  IF n % 2 = 1 THEN AtA(k, c) ELSE AtB(c, k)]

\* The loads and stores of one iteration, in the order of the statements.
Accesses ==
  LET i == at.i
      j == at.j
      k == at.k
  IN  CASE at.phase = "block8" -> RowOfA(k, j, 8) \o ColOfB(k, j, 8)
        [] at.phase = "upper" -> RowOfA(k, j, 8) \o ColOfB(k, j, 4) \o ColOfB(k + 4, j, 4)
        [] at.phase = "middle" -> RowOfB(k, i + 4, 4) \o ColOfA(k, i + 4, 4)
                                    \o RowOfB(k, i + 4, 4) \o RowOfB(k + 4, i, 4)
        [] at.phase = "lower" -> RowOfA(k, j + 4, 4) \o ColOfB(k, j + 4, 4)
        [] at.phase = "block16" ->
             [n \in 1 .. 2 * Cardinality(BlockCols) |-> LET c == j + (n - 1) \div 2
                                                       IN  IF n % 2 = 1 THEN AtA(k, c) ELSE AtB(c, k)]

\* What tracegen does between its two markers, around the loops: it stores to MARKER_START, fetches
\* the function's pointer and the arguments N and M, and after the call stores to MARKER_END.
\* The places are those of trace.tmp, the trace of the last graded run.
CallAccesses == <<ABase - 32, BBase + 4 * 256 * 256 + 32, BBase + 4 * 256 * 256 + 4, BBase + 4 * 256 * 256>>
EndMarker == <<ABase - 31>>

GradeInit == /\ Init
             /\ todo = CallAccesses
             /\ ended = FALSE
             /\ Cache!Init

Access == /\ todo # <<>>
          /\ Cache!LoadOrStore(Head(todo))
          /\ todo' = Tail(todo)
          /\ UNCHANGED <<vars, ended>>

Iterate == /\ todo = <<>>
           /\ Next
           /\ todo' = Accesses
           /\ UNCHANGED <<ended, cacheVars>>

Return == /\ todo = <<>> /\ at.phase = "done" /\ ~ended
          /\ todo' = EndMarker
          /\ ended' = TRUE
          /\ UNCHANGED <<vars, cacheVars>>

GradeNext == Access \/ Iterate \/ Return

GradeSpec == GradeInit /\ [][GradeNext]_gradeVars

\* One thread replays the trace of another: nothing waits.
FairGradeSpec == GradeSpec /\ WF_gradeVars(GradeNext)

-----------------------------------------------------------------------------
(* Properties *)

\* The three results that report.md gives, each below the threshold for full marks: 300 misses for
\* 32 by 32, 1300 for 64 by 64 and 2000 for 61 by 67.
MissesAsReported ==
  ended /\ todo = <<>> =>
    /\ <<M, N>> = <<32, 32>> => misses = 288
    /\ <<M, N>> = <<64, 64>> => misses = 1228
    /\ <<M, N>> = <<61, 67>> => misses = 1993

\* The measurement ends.
Graded == <>(ended /\ todo = <<>>)
=============================================================================
