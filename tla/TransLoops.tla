---------------------------- MODULE TransLoops ----------------------------
(***************************************************************************)
(* The loops of transpose_submit in Exp.4/trans.c: which block, which part *)
(* of it and which row or column is next.  One position is one iteration   *)
(* of an innermost block loop (ii, or jj for the middle part).             *)
(***************************************************************************)
EXTENDS Naturals

CONSTANT Shapes  \* the <<M, N>> the function may be called with

ASSUME ShapesAssumption == Shapes \subseteq (1 .. 256) \X (1 .. 256)

VARIABLES M, N,  \* the arguments: A is N by M, B is M by N
          at     \* the next iteration: phase, block corner i and j, and ii or jj in k

Block == IF at.phase = "block16" THEN 16 ELSE 8

First == IF M = 32 /\ N = 32 THEN "block8"
         ELSE IF M = 64 /\ N = 64 THEN "upper"
         ELSE "block16"

InitLoops == /\ \E s \in Shapes : M = s[1] /\ N = s[2]
             /\ at = [phase |-> First, i |-> 0, j |-> 0, k |-> 0]

\* Whole blocks only: the last rows of A are left out when N is no multiple of the block.
FaultyNextBlock == IF at.j + Block < M
                     THEN [phase |-> First, i |-> at.i, j |-> at.j + Block, k |-> at.i]
                   ELSE IF at.i + Block + Block <= N
                     THEN [phase |-> First, i |-> at.i + Block, j |-> 0, k |-> at.i + Block]
                   ELSE [at EXCEPT !.phase = "done"]
\* An inner loop that counts with i leaves it where it was.
StuckNextBlock == IF at.j + Block < M
                    THEN [phase |-> First, i |-> at.i, j |-> at.j + Block, k |-> at.i]
                  ELSE IF at.i + Block < N
                    THEN [phase |-> First, i |-> at.i, j |-> 0, k |-> at.i]
                  ELSE [at EXCEPT !.phase = "done"]
\* The two outer loops: j steps through the columns of A, then i through its rows.
NextBlock == IF at.j + Block < M
               THEN [phase |-> First, i |-> at.i, j |-> at.j + Block, k |-> at.i]
             ELSE IF at.i + Block < N
               THEN [phase |-> First, i |-> at.i + Block, j |-> 0, k |-> at.i + Block]
             ELSE [at EXCEPT !.phase = "done"]

\* Without the test ii < N.
FaultyLast == IF at.phase = "upper" THEN at.i + 4
              ELSE IF at.phase = "middle" THEN at.j + 4 ELSE at.i + Block
\* The iterations of the loop that is running end before k reaches Last.
Last == CASE at.phase = "block8" -> at.i + 8
          [] at.phase = "upper" -> at.i + 4
          [] at.phase = "middle" -> at.j + 4
          [] at.phase = "lower" -> at.i + 8
          [] at.phase = "block16" -> IF at.i + 16 < N THEN at.i + 16 ELSE N

\* The columns of A in the block, which end at the matrix's edge in the general case.
BlockCols == at.j .. (IF at.j + Block < M THEN at.j + Block ELSE M) - 1

Advance == IF at.k + 1 < Last THEN [at EXCEPT !.k = @ + 1]
           ELSE CASE at.phase = "upper" -> [at EXCEPT !.phase = "middle", !.k = at.j]
                  [] at.phase = "middle" -> [at EXCEPT !.phase = "lower", !.k = at.i + 4]
                  [] OTHER -> NextBlock
=============================================================================
