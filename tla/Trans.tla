------------------------------- MODULE Trans -------------------------------
(***************************************************************************)
(* What transpose_submit of Exp.4/trans.c does to the matrices.  Every     *)
(* iteration loads its elements into t0 .. t7 before it stores any, so an  *)
(* iteration is one step that assigns to B from the B and A before it.     *)
(***************************************************************************)
EXTENDS TransLoops

CONSTANTS A(_, _),   \* A(r, c): the element of A in row r and column c
          B0(_, _)   \* what B holds when the function is called

VARIABLE B           \* B[r][c]
vars == <<M, N, at, B>>

Rows == 0 .. M - 1   \* of B
Cols == 0 .. N - 1

Init == /\ InitLoops
        /\ B = [r \in Rows |-> [c \in Cols |-> B0(r, c)]]

Go(phase) == at.phase = phase /\ at' = Advance /\ UNCHANGED <<M, N>>

\* Row k of the block becomes column k of B.
Block8 == /\ Go("block8")
          /\ B' = [r \in Rows |-> [c \in Cols |->
                    IF c = at.k /\ r \in at.j .. at.j + 7 THEN A(c, r) ELSE B[r][c]]]

\* Row k of the upper half: its left part where it belongs, its right part set aside in B's
\* upper right quarter.
Upper == /\ Go("upper")
         /\ B' = [r \in Rows |-> [c \in Cols |->
                   IF r \in at.j .. at.j + 3 /\ c = at.k THEN A(c, r)
                   ELSE IF r \in at.j .. at.j + 3 /\ c = at.k + 4 THEN A(at.k, r + 4)
                   ELSE B[r][c]]]

\* The values set aside are stored over before they are read.
FaultyMiddle == /\ Go("middle")
                /\ B' = [r \in Rows |-> [c \in Cols |->
                          IF r = at.k /\ c \in at.i + 4 .. at.i + 7 THEN A(c, r)
                          ELSE IF r = at.k + 4 /\ c \in at.i .. at.i + 3 THEN A(c + 4, at.k)
                          ELSE B[r][c]]]

\* Column k of the lower left quarter of A takes the place of the values set aside, which move
\* to the row of B they belong to.
Middle == /\ Go("middle")
          /\ B' = [r \in Rows |-> [c \in Cols |->
                    IF r = at.k /\ c \in at.i + 4 .. at.i + 7 THEN A(c, r)
                    ELSE IF r = at.k + 4 /\ c \in at.i .. at.i + 3 THEN B[at.k][c + 4]
                    ELSE B[r][c]]]

Lower == /\ Go("lower")
         /\ B' = [r \in Rows |-> [c \in Cols |->
                   IF c = at.k /\ r \in at.j + 4 .. at.j + 7 THEN A(c, r) ELSE B[r][c]]]

Block16 == /\ Go("block16")
           /\ B' = [r \in Rows |-> [c \in Cols |->
                     IF c = at.k /\ r \in BlockCols THEN A(c, r) ELSE B[r][c]]]

Next == Block8 \/ Upper \/ Middle \/ Lower \/ Block16

Spec == Init /\ [][Next]_vars

-----------------------------------------------------------------------------
(* Properties *)

Correct(r, c) == B[c][r] = A(r, c)   \* element (r, c) of A has arrived

\* The rows and columns of A that the next iteration uses, from its loads.
UsedRows == IF at.phase = "middle" THEN at.i + 4 .. at.i + 7 ELSE {at.k}
UsedCols == CASE at.phase \in {"block8", "upper"} -> at.j .. at.j + 7
              [] at.phase = "middle" -> {at.k, at.k + 4}
              [] at.phase = "lower" -> at.j + 4 .. at.j + 7
              [] at.phase = "block16" -> BlockCols

\* B keeps its shape, and no iteration reaches outside the matrices.
TypeOK == /\ <<M, N>> \in Shapes
          /\ DOMAIN B = Rows /\ \A r \in Rows : DOMAIN B[r] = Cols
          /\ at.phase # "done" => UsedRows \subseteq Cols /\ UsedCols \subseteq Rows

\* When the function returns, B is the transpose of A.
Transposed == at.phase = "done" => \A r \in Cols, c \in Rows : Correct(r, c)

\* Blocks left behind stay correct: an element of A is in place as soon as its block is done,
\* although the 64 by 64 case uses B for values on their way to another place.
Behind(r, c) == r < at.i \/ (r < at.i + Block /\ c < at.j)
BlocksStayDone == at.phase # "done" =>
                    \A r \in Cols, c \in Rows : Behind(r, c) => Correct(r, c)
=============================================================================
