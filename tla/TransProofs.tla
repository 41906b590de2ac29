---------------------------- MODULE TransProofs ----------------------------
(***************************************************************************)
(* transpose_submit transposes: for every shape, every matrix A and every  *)
(* content B has at the call, B is the transpose of A when the function    *)
(* returns, and a block is in place as soon as the loops leave it.         *)
(***************************************************************************)
EXTENDS Trans, Integers, TLAPS

USE ShapesAssumption

Corners32 == {0, 8, 16, 24}
Corners64 == {0, 8, 16, 24, 32, 40, 48, 56}

\* The values that the loop variables take in each phase.
Positions ==
  /\ M \in 1 .. 256 /\ N \in 1 .. 256 /\ <<M, N>> \in Shapes
  /\ at \in [phase : {"block8", "upper", "middle", "lower", "block16", "done"}, i : Nat, j : Nat, k : Nat]
  /\ at.phase = "block8" => /\ M = 32 /\ N = 32
                            /\ at.i \in Corners32 /\ at.j \in Corners32
                            /\ at.i <= at.k /\ at.k < at.i + 8
  /\ at.phase \in {"upper", "middle", "lower"} =>
       M = 64 /\ N = 64 /\ at.i \in Corners64 /\ at.j \in Corners64
  /\ at.phase = "upper" => at.i <= at.k /\ at.k < at.i + 4
  /\ at.phase = "middle" => at.j <= at.k /\ at.k < at.j + 4
  /\ at.phase = "lower" => at.i + 4 <= at.k /\ at.k < at.i + 8
  /\ at.phase = "block16" => /\ First = "block16"
                             /\ at.i < N /\ at.j < M
                             /\ at.i <= at.k /\ at.k < at.i + 16 /\ at.k < N

\* The elements of A that the iterations so far have put in place.
Settled(r, c) ==
  \/ Behind(r, c)
  \/ /\ at.phase \in {"block8", "block16"}
     /\ at.i <= r /\ r < at.k /\ at.j <= c /\ c < at.j + Block
  \/ /\ at.phase = "upper"
     /\ at.i <= r /\ r < at.k /\ at.j <= c /\ c < at.j + 4
  \/ /\ at.phase = "middle"
     /\ \/ at.i <= r /\ r < at.i + 4 /\ at.j <= c /\ c < at.j + 4
        \/ at.i + 4 <= r /\ r < at.i + 8 /\ at.j <= c /\ c < at.k
        \/ at.i <= r /\ r < at.i + 4 /\ at.j + 4 <= c /\ c < at.k + 4
  \/ /\ at.phase = "lower"
     /\ \/ at.i <= r /\ r < at.i + 8 /\ at.j <= c /\ c < at.j + 4
        \/ at.i <= r /\ r < at.i + 4 /\ at.j + 4 <= c /\ c < at.j + 8
        \/ at.i + 4 <= r /\ r < at.k /\ at.j + 4 <= c /\ c < at.j + 8

\* The places of B that hold an element on its way: row c, column r + 4 holds A(r, c + 4).
Aside(r, c) ==
  \/ at.phase = "upper" /\ at.i <= r /\ r < at.k /\ at.j <= c /\ c < at.j + 4
  \/ at.phase = "middle" /\ at.i <= r /\ r < at.i + 4 /\ at.k <= c /\ c < at.j + 4

InPlace == at.phase # "done" =>
             \A r \in Cols, c \in Rows : /\ Settled(r, c) => Correct(r, c)
                                         /\ Aside(r, c) => B[c][r + 4] = A(r, c + 4)

Shaped == DOMAIN B = Rows /\ \A r \in Rows : DOMAIN B[r] = Cols

TInv == Positions /\ Shaped /\ InPlace /\ Transposed

-----------------------------------------------------------------------------
(* Where the loops go *)

\* Leaving a block: to the block on its right, to the first block of the next band, or out.
LEMMA Leaves ==
  ASSUME Positions, at.phase # "done", at' = NextBlock
  PROVE  \/ /\ at.j + Block < M
            /\ at' = [phase |-> First, i |-> at.i, j |-> at.j + Block, k |-> at.i]
         \/ /\ ~(at.j + Block < M) /\ at.i + Block < N
            /\ at' = [phase |-> First, i |-> at.i + Block, j |-> 0, k |-> at.i + Block]
         \/ /\ ~(at.j + Block < M) /\ ~(at.i + Block < N)
            /\ at' = [phase |-> "done", i |-> at.i, j |-> at.j, k |-> at.k]
BY DEF NextBlock, Positions

LEMMA PositionsBlock8 ==
  ASSUME Positions, Go("block8")
  PROVE  Positions'
<1>1. /\ at.phase = "block8" /\ M = 32 /\ N = 32 /\ First = "block8" /\ Block = 8
      /\ at.i \in Corners32 /\ at.j \in Corners32 /\ at.k \in Nat
      /\ at.i <= at.k /\ at.k < at.i + 8 /\ UNCHANGED <<M, N>> /\ at' = Advance /\ Last = at.i + 8
  BY DEF Go, Positions, First, Block, Last
<1>2. CASE at.k + 1 < at.i + 8
  <2>1. at' = [at EXCEPT !.k = @ + 1] BY <1>1, <1>2 DEF Advance
  <2> QED BY <1>1, <1>2, <2>1 DEF Positions
<1>3. CASE ~(at.k + 1 < at.i + 8)
  <2>1. at' = NextBlock BY <1>1, <1>3 DEF Advance
  <2> QED BY <1>1, <2>1, Leaves DEF Positions, Corners32
<1> QED BY <1>2, <1>3
LEMMA PositionsSplit ==
  ASSUME Positions, Go("upper") \/ Go("middle") \/ Go("lower")
  PROVE  Positions'
<1>1. /\ M = 64 /\ N = 64 /\ First = "upper" /\ Block = 8
      /\ at.i \in Corners64 /\ at.j \in Corners64 /\ at.k \in Nat
      /\ UNCHANGED <<M, N>> /\ at' = Advance
  BY DEF Go, Positions, First, Block
<1>2. CASE Go("upper")
  <2>1. at.phase = "upper" /\ Last = at.i + 4 /\ at.i <= at.k /\ at.k < at.i + 4
    BY <1>2 DEF Go, Last, Positions
  <2>2. CASE at.k + 1 < at.i + 4
    <3>1. at' = [at EXCEPT !.k = @ + 1] BY <1>1, <2>1, <2>2 DEF Advance
    <3> QED BY <1>1, <2>1, <2>2, <3>1 DEF Positions
  <2>3. CASE ~(at.k + 1 < at.i + 4)
    <3>1. at' = [at EXCEPT !.phase = "middle", !.k = at.j] BY <1>1, <2>1, <2>3 DEF Advance
    <3>2. at' = [phase |-> "middle", i |-> at.i, j |-> at.j, k |-> at.j] BY <3>1 DEF Positions
    <3>3. at.i \in Nat /\ at.j \in Nat BY <1>1 DEF Corners64
    <3>4. at' \in [phase : {"block8", "upper", "middle", "lower", "block16", "done"}, i : Nat, j : Nat, k : Nat]
      BY <3>2, <3>3
    <3>5. at'.phase = "middle" /\ at'.i = at.i /\ at'.j = at.j /\ at'.k = at.j BY <3>2
    <3> QED BY <1>1, <3>3, <3>4, <3>5 DEF Positions
  <2> QED BY <2>2, <2>3
<1>3. CASE Go("middle")
  <2>1. at.phase = "middle" /\ Last = at.j + 4 /\ at.j <= at.k /\ at.k < at.j + 4
    BY <1>3 DEF Go, Last, Positions
  <2>2. CASE at.k + 1 < at.j + 4
    <3>1. at' = [at EXCEPT !.k = @ + 1] BY <1>1, <2>1, <2>2 DEF Advance
    <3> QED BY <1>1, <2>1, <2>2, <3>1 DEF Positions
  <2>3. CASE ~(at.k + 1 < at.j + 4)
    <3>1. at' = [at EXCEPT !.phase = "lower", !.k = at.i + 4] BY <1>1, <2>1, <2>3 DEF Advance
    <3>2. at' = [phase |-> "lower", i |-> at.i, j |-> at.j, k |-> at.i + 4] BY <3>1, ZenonT(60) DEF Positions
    <3>3. at.i \in Nat /\ at.j \in Nat BY <1>1 DEF Corners64
    <3>4. at' \in [phase : {"block8", "upper", "middle", "lower", "block16", "done"}, i : Nat, j : Nat, k : Nat]
      BY <3>2, <3>3
    <3>5. at'.phase = "lower" /\ at'.i = at.i /\ at'.j = at.j /\ at'.k = at.i + 4 BY <3>2
    <3> QED BY <1>1, <3>3, <3>4, <3>5 DEF Positions
  <2> QED BY <2>2, <2>3
<1>4. CASE Go("lower")
  <2>1. at.phase = "lower" /\ Last = at.i + 8 /\ at.i + 4 <= at.k /\ at.k < at.i + 8
    BY <1>4 DEF Go, Last, Positions
  <2>2. CASE at.k + 1 < at.i + 8
    <3>1. at' = [at EXCEPT !.k = @ + 1] BY <1>1, <2>1, <2>2 DEF Advance
    <3> QED BY <1>1, <2>1, <2>2, <3>1 DEF Positions
  <2>3. CASE ~(at.k + 1 < at.i + 8)
    <3>1. at' = NextBlock BY <1>1, <2>1, <2>3 DEF Advance
    <3> QED BY <1>1, <2>1, <3>1, Leaves DEF Positions, Corners64
  <2> QED BY <2>2, <2>3
<1> QED BY <1>2, <1>3, <1>4

LEMMA PositionsBlock16 ==
  ASSUME Positions, Go("block16")
  PROVE  Positions'
<1>1. /\ at.phase = "block16" /\ First = "block16" /\ Block = 16
      /\ at.i \in Nat /\ at.j \in Nat /\ at.k \in Nat /\ M \in Nat /\ N \in Nat
      /\ at.i < N /\ at.j < M /\ at.i <= at.k /\ at.k < at.i + 16 /\ at.k < N
      /\ UNCHANGED <<M, N>> /\ at' = Advance /\ First' = First
      /\ Last = IF at.i + 16 < N THEN at.i + 16 ELSE N
  BY DEF Go, Positions, First, Block, Last
<1>2. CASE at.k + 1 < Last
  <2>1. at' = [at EXCEPT !.k = @ + 1] BY <1>1, <1>2 DEF Advance
  <2> QED BY <1>1, <1>2, <2>1 DEF Positions
<1>3. CASE ~(at.k + 1 < Last)
  <2>1. at' = NextBlock BY <1>1, <1>3 DEF Advance
  <2> QED BY <1>1, <2>1, Leaves DEF Positions
<1> QED BY <1>2, <1>3

-----------------------------------------------------------------------------
(* What an iteration of each phase puts in place *)

\* A row of the block becomes a column of B.
LEMMA InPlaceWholeRow ==
  ASSUME Positions, InPlace, Block8 \/ Block16
  PROVE  InPlace' /\ Transposed'
<1>1. /\ at.phase \in {"block8", "block16"} /\ Block \in Nat /\ Block \in {8, 16}
      /\ at.i \in Nat /\ at.j \in Nat /\ at.k \in Nat /\ M \in Nat /\ N \in Nat
      /\ at.i <= at.k /\ at.k < at.i + Block /\ at.k < N /\ at.j < M /\ at.i < N
      /\ UNCHANGED <<M, N>> /\ at' = Advance
      /\ Last = IF at.i + Block < N THEN at.i + Block ELSE N
      /\ Cols' = Cols /\ Rows' = Rows /\ First \in {"block8", "block16"} /\ First = at.phase
  <2>1. CASE Block8
    <3>1. at.phase = "block8" /\ UNCHANGED <<M, N>> /\ at' = Advance BY <2>1 DEF Block8, Go
    <3>2. /\ M = 32 /\ N = 32 /\ at.i \in Corners32 /\ at.j \in Corners32 /\ at.k \in Nat
          /\ at.i <= at.k /\ at.k < at.i + 8
      BY <3>1 DEF Positions
    <3>3. Block = 8 /\ Last = at.i + 8 /\ First = "block8" BY <3>1, <3>2 DEF Block, Last, First
    <3> QED BY <3>1, <3>2, <3>3 DEF Corners32, Cols, Rows
  <2>2. CASE Block16
    <3>1. at.phase = "block16" /\ UNCHANGED <<M, N>> /\ at' = Advance BY <2>2 DEF Block16, Go
    <3>2. Block = 16 /\ Last = IF at.i + 16 < N THEN at.i + 16 ELSE N BY <3>1 DEF Block, Last
    <3> QED BY <3>1, <3>2 DEF Positions, Cols, Rows
  <2> QED BY <2>1, <2>2
<1>2. \A r \in Cols, c \in Rows :
        B'[c][r] = IF r = at.k /\ at.j <= c /\ c < at.j + Block THEN A(r, c) ELSE B[c][r]
  <2>1. CASE Block8
    <3>1. Block = 8 BY <2>1 DEF Block8, Go, Block
    <3> QED BY <1>1, <2>1, <3>1, SMTT(30) DEF Block8, Rows, Cols
  <2>2. CASE Block16 BY <1>1, <2>2, SMTT(30) DEF Block16, BlockCols, Rows, Cols
  <2> QED BY <2>1, <2>2
<1>3. \A r \in Cols, c \in Rows : Behind(r, c) \/ (at.i <= r /\ r < at.k /\ at.j <= c /\ c < at.j + Block)
                                => Correct(r, c)
  BY <1>1 DEF InPlace, Settled
<1>4. \A r \in Cols, c \in Rows : Behind(r, c) \/ (at.i <= r /\ r <= at.k /\ at.j <= c /\ c < at.j + Block)
                                => B'[c][r] = A(r, c)
  BY <1>1, <1>2, <1>3 DEF Correct, Behind, Rows, Cols
<1>5. CASE at.k + 1 < Last
  <2>1. at' = [at EXCEPT !.k = @ + 1] BY <1>1, <1>5 DEF Advance
  <2>2. at'.phase = at.phase /\ at'.i = at.i /\ at'.j = at.j /\ at'.k = at.k + 1 /\ Block' = Block
    BY <2>1 DEF Positions, Block
  <2>3. InPlace' BY <1>1, <1>4, <2>2 DEF InPlace, Settled, Behind, Correct, Aside, Rows, Cols
  <2> QED BY <1>1, <2>2, <2>3 DEF Transposed
<1>6. CASE ~(at.k + 1 < Last)
  <2>1. at' = NextBlock BY <1>1, <1>6 DEF Advance
  <2>2. \A r \in Cols, c \in Rows : r < at.i \/ (r < at.i + Block /\ c < at.j + Block) => B'[c][r] = A(r, c)
    BY <1>1, <1>4, <1>6 DEF Behind, Rows, Cols
  <2>3. \/ /\ at.j + Block < M
           /\ at' = [phase |-> First, i |-> at.i, j |-> at.j + Block, k |-> at.i]
        \/ /\ ~(at.j + Block < M) /\ at.i + Block < N
           /\ at' = [phase |-> First, i |-> at.i + Block, j |-> 0, k |-> at.i + Block]
        \/ /\ ~(at.j + Block < M) /\ ~(at.i + Block < N)
           /\ at' = [phase |-> "done", i |-> at.i, j |-> at.j, k |-> at.k]
    BY <1>1, <2>1, Leaves
  <2>4. CASE at'.phase = "done"
    <3>1. ~(at.j + Block < M) /\ ~(at.i + Block < N) BY <1>1, <2>3, <2>4
    <3>2. \A r \in Cols, c \in Rows : B'[c][r] = A(r, c) BY <1>1, <2>2, <3>1 DEF Rows, Cols
    <3> QED BY <1>1, <2>4, <3>2 DEF InPlace, Transposed, Correct
  <2>5. CASE at'.phase # "done"
    <3>1. at'.phase = First /\ Block' = Block BY <1>1, <2>3, <2>5 DEF Block
    <3>2. \A r \in Cols, c \in Rows : r < at'.i \/ (r < at'.i + Block /\ c < at'.j) => B'[c][r] = A(r, c)
      BY <1>1, <2>2, <2>3, <2>5 DEF Rows, Cols
    <3>3. at'.k = at'.i /\ at'.i \in Nat BY <1>1, <2>3, <2>5
    <3>4. InPlace'
      BY <1>1, <3>1, <3>2, <3>3 DEF InPlace, Settled, Behind, Correct, Aside, Rows, Cols
    <3> QED BY <2>5, <3>4 DEF Transposed
  <2> QED BY <2>4, <2>5
<1> QED BY <1>5, <1>6
\* The three parts of a block in the 64 by 64 case.
LEMMA InPlaceSplit ==
  ASSUME Positions, InPlace, Upper \/ Middle \/ Lower
  PROVE  InPlace' /\ Transposed'
<1> DEFINE i == at.i
           j == at.j
           k == at.k
<1>1. /\ M = 64 /\ N = 64 /\ First = "upper" /\ Block = 8
      /\ at.i \in Corners64 /\ at.j \in Corners64 /\ at.k \in Nat
      /\ UNCHANGED <<M, N>> /\ at' = Advance
      /\ Cols' = Cols /\ Rows' = Rows
      /\ at.phase \in {"upper", "middle", "lower"}
  <2>1. at.phase \in {"upper", "middle", "lower"} /\ at' = Advance /\ UNCHANGED <<M, N>>
    BY DEF Upper, Middle, Lower, Go
  <2>2. M = 64 /\ N = 64 /\ at.i \in Corners64 /\ at.j \in Corners64 /\ at.k \in Nat
    BY <2>1 DEF Positions
  <2> QED BY <2>1, <2>2 DEF First, Block, Cols, Rows
<1>2. i \in Nat /\ j \in Nat /\ k \in Nat /\ i <= 56 /\ j <= 56 BY <1>1 DEF Corners64, i, j, k
<1>a. \A r : (r \in Cols <=> r \in Int /\ 0 <= r /\ r <= 63) /\ (r \in Rows <=> r \in Int /\ 0 <= r /\ r <= 63)
  BY <1>1 DEF Cols, Rows
<1> HIDE DEF i, j, k
<1>3. CASE Upper
  <2>1. at.phase = "upper" /\ Last = i + 4 /\ i <= k /\ k < i + 4 BY <1>3 DEF Upper, Go, Last, Positions, i, j, k
  <2>2. \A r \in Cols, c \in Rows :
          B'[c][r] = IF j <= c /\ c < j + 4 /\ r = k THEN A(r, c)
                     ELSE IF j <= c /\ c < j + 4 /\ r = k + 4 THEN A(k, c + 4) ELSE B[c][r]
    BY <1>a, <1>1, <1>2, <1>3 DEF Upper, i, j, k
  <2>3. /\ \A r \in Cols, c \in Rows : r < i \/ (r < i + 8 /\ c < j) => B[c][r] = A(r, c)
        /\ \A r \in Cols, c \in Rows : i <= r /\ r < k /\ j <= c /\ c < j + 4
                                      => B[c][r] = A(r, c) /\ B[c][r + 4] = A(r, c + 4)
    BY <1>1, <2>1 DEF InPlace, Settled, Behind, Correct, Aside, i, j, k
  <2>4. \A r \in Cols, c \in Rows : r < i \/ (r < i + 8 /\ c < j) => B'[c][r] = A(r, c)
    <3> SUFFICES ASSUME NEW r \in Cols, NEW c \in Rows, r < i \/ (r < i + 8 /\ c < j)
                 PROVE  B'[c][r] = A(r, c)
      OBVIOUS
    <3>1. ~(j <= c /\ c < j + 4 /\ r = k) /\ ~(j <= c /\ c < j + 4 /\ r = k + 4)
      BY <1>a, <1>2, <2>1
    <3>2. B'[c][r] = B[c][r] BY <2>2, <3>1
    <3>3. B[c][r] = A(r, c) BY <2>3
    <3> QED BY <3>2, <3>3
  <2>5. \A r \in Cols, c \in Rows : i <= r /\ r <= k /\ j <= c /\ c < j + 4 => B'[c][r] = A(r, c)
    BY <1>a, <1>1, <1>2, <2>1, <2>2, <2>3
  <2>6. ASSUME NEW r \in Cols, NEW c \in Rows, i <= r, r <= k, j <= c, c < j + 4
        PROVE  B'[c][r + 4] = A(r, c + 4)
    <3>1. r + 4 \in Cols /\ r + 4 # k BY <1>a, <1>1, <1>2, <2>1, <2>6
    <3> QED BY <1>a, <1>1, <1>2, <2>1, <2>2, <2>3, <2>6, <3>1
  <2>7. CASE k + 1 < i + 4
    <3>1. at' = [at EXCEPT !.k = @ + 1] BY <1>a, <1>1, <2>1, <2>7 DEF Advance, i, j, k
    <3>2. at'.phase = "upper" /\ at'.i = i /\ at'.j = j /\ at'.k = k + 1 /\ Block' = 8
      BY <2>1, <3>1 DEF Positions, Block, i, j, k
    <3>3. InPlace' BY <1>a, <1>1, <1>2, <2>4, <2>5, <2>6, <3>2 DEF InPlace, Settled, Behind, Correct, Aside, i, j, k
    <3> QED BY <3>2, <3>3 DEF Transposed
  <2>8. CASE ~(k + 1 < i + 4)
    <3>1. at' = [at EXCEPT !.phase = "middle", !.k = at.j] BY <1>a, <1>1, <2>1, <2>8 DEF Advance, i, j, k
    <3>2. at'.phase = "middle" /\ at'.i = i /\ at'.j = j /\ at'.k = j /\ Block' = 8
      BY <3>1 DEF Positions, Block, i, j, k
    <3>3. k = i + 3 BY <1>a, <1>1, <1>2, <2>1, <2>8
    <3>4. InPlace' BY <1>a, <1>1, <1>2, <2>4, <2>5, <2>6, <3>2, <3>3 DEF InPlace, Settled, Behind, Correct, Aside, i, j, k
    <3> QED BY <3>2, <3>4 DEF Transposed
  <2> QED BY <2>7, <2>8
<1>4. CASE Middle
  <2>1. at.phase = "middle" /\ Last = j + 4 /\ j <= k /\ k < j + 4 BY <1>4 DEF Middle, Go, Last, Positions, i, j, k
  <2>2. \A r \in Cols, c \in Rows :
          B'[c][r] = IF c = k /\ i + 4 <= r /\ r < i + 8 THEN A(r, c)
                     ELSE IF c = k + 4 /\ i <= r /\ r < i + 4 THEN B[k][r + 4] ELSE B[c][r]
    BY <1>a, <1>1, <1>2, <1>4 DEF Middle, i, j, k
  <2>3. \A r \in Cols, c \in Rows :
          /\ r < i \/ (r < i + 8 /\ c < j) => B[c][r] = A(r, c)
          /\ i <= r /\ r < i + 4 /\ j <= c /\ c < j + 4 => B[c][r] = A(r, c)
          /\ i + 4 <= r /\ r < i + 8 /\ j <= c /\ c < k => B[c][r] = A(r, c)
          /\ i <= r /\ r < i + 4 /\ j + 4 <= c /\ c < k + 4 => B[c][r] = A(r, c)
          /\ i <= r /\ r < i + 4 /\ k <= c /\ c < j + 4 => B[c][r + 4] = A(r, c + 4)
    BY <1>a, <1>1, <2>1 DEF InPlace, Settled, Behind, Correct, Aside, i, j, k
  <2>4. \A r \in Cols, c \in Rows :
          /\ r < i \/ (r < i + 8 /\ c < j) => B'[c][r] = A(r, c)
          /\ i <= r /\ r < i + 4 /\ j <= c /\ c < j + 4 => B'[c][r] = A(r, c)
    BY <1>a, <1>1, <1>2, <2>1, <2>2, <2>3
  <2>5. \A r \in Cols, c \in Rows : i + 4 <= r /\ r < i + 8 /\ j <= c /\ c <= k => B'[c][r] = A(r, c)
    BY <1>a, <1>1, <1>2, <2>1, <2>2, <2>3
  <2>6. ASSUME NEW r \in Cols, NEW c \in Rows, i <= r, r < i + 4, j + 4 <= c, c <= k + 4
        PROVE  B'[c][r] = A(r, c)
    <3>1. CASE c = k + 4
      <4>1. k \in Rows /\ c = k + 4 BY <1>a, <1>1, <1>2, <2>1, <3>1
      <4>2. B[k][r + 4] = A(r, k + 4) BY <1>a, <1>1, <1>2, <2>1, <2>3, <2>6, <4>1
      <4> QED BY <1>a, <1>1, <1>2, <2>1, <2>2, <2>6, <4>1, <4>2
    <3>2. CASE c # k + 4 BY <1>a, <1>1, <1>2, <2>1, <2>2, <2>3, <2>6, <3>2
    <3> QED BY <3>1, <3>2
  <2>7. ASSUME NEW r \in Cols, NEW c \in Rows, i <= r, r < i + 4, k + 1 <= c, c < j + 4
        PROVE  B'[c][r + 4] = A(r, c + 4)
    <3>1. r + 4 \in Cols /\ c # k /\ c # k + 4 BY <1>a, <1>1, <1>2, <2>1, <2>7
    <3>2. B'[c][r + 4] = B[c][r + 4] BY <2>2, <3>1
    <3> QED BY <1>a, <1>1, <1>2, <2>1, <2>3, <2>7, <3>2
  <2>8. CASE k + 1 < j + 4
    <3>1. at' = [at EXCEPT !.k = @ + 1] BY <1>a, <1>1, <2>1, <2>8 DEF Advance, i, j, k
    <3>2. at'.phase = "middle" /\ at'.i = i /\ at'.j = j /\ at'.k = k + 1 /\ Block' = 8
      BY <2>1, <3>1 DEF Positions, Block, i, j, k
    <3>3. InPlace'
      BY <1>a, <1>1, <1>2, <2>1, <2>4, <2>5, <2>6, <2>7, <3>2 DEF InPlace, Settled, Behind, Correct, Aside, i, j, k
    <3> QED BY <3>2, <3>3 DEF Transposed
  <2>9. CASE ~(k + 1 < j + 4)
    <3>1. at' = [at EXCEPT !.phase = "lower", !.k = at.i + 4] BY <1>a, <1>1, <2>1, <2>9 DEF Advance, i, j, k
    <3>2. at'.phase = "lower" /\ at'.i = i /\ at'.j = j /\ at'.k = i + 4 /\ Block' = 8
      BY <3>1 DEF Positions, Block, i, j, k
    <3>3. k = j + 3 BY <1>a, <1>1, <1>2, <2>1, <2>9
    <3>4. InPlace' BY <1>a, <1>1, <1>2, <2>4, <2>5, <2>6, <3>2, <3>3 DEF InPlace, Settled, Behind, Correct, Aside, i, j, k
    <3> QED BY <3>2, <3>4 DEF Transposed
  <2> QED BY <2>8, <2>9
<1>5. CASE Lower
  <2>1. at.phase = "lower" /\ Last = i + 8 /\ i + 4 <= k /\ k < i + 8 BY <1>5 DEF Lower, Go, Last, Positions, i, j, k
  <2>2. \A r \in Cols, c \in Rows :
          B'[c][r] = IF r = k /\ j + 4 <= c /\ c < j + 8 THEN A(r, c) ELSE B[c][r]
    BY <1>a, <1>1, <1>2, <1>5 DEF Lower, i, j, k
  <2>3. \A r \in Cols, c \in Rows :
          \/ r < i \/ (r < i + 8 /\ c < j)
          \/ i <= r /\ r < i + 8 /\ j <= c /\ c < j + 4
          \/ i <= r /\ r < i + 4 /\ j + 4 <= c /\ c < j + 8
          \/ i + 4 <= r /\ r < k /\ j + 4 <= c /\ c < j + 8
          => B[c][r] = A(r, c)
    BY <1>a, <1>1, <2>1 DEF InPlace, Settled, Behind, Correct, i, j, k
  <2>4. \A r \in Cols, c \in Rows :
          \/ r < i \/ (r < i + 8 /\ c < j)
          \/ i <= r /\ r < i + 8 /\ j <= c /\ c < j + 4
          \/ i <= r /\ r < i + 4 /\ j + 4 <= c /\ c < j + 8
          \/ i + 4 <= r /\ r <= k /\ j + 4 <= c /\ c < j + 8
          => B'[c][r] = A(r, c)
    BY <1>a, <1>1, <1>2, <2>1, <2>2, <2>3
  <2>5. CASE k + 1 < i + 8
    <3>1. at' = [at EXCEPT !.k = @ + 1] BY <1>a, <1>1, <2>1, <2>5 DEF Advance, i, j, k
    <3>2. at'.phase = "lower" /\ at'.i = i /\ at'.j = j /\ at'.k = k + 1 /\ Block' = 8
      BY <2>1, <3>1 DEF Positions, Block, i, j, k
    <3>3. InPlace' BY <1>a, <1>1, <1>2, <2>4, <3>2 DEF InPlace, Settled, Behind, Correct, Aside, i, j, k
    <3> QED BY <3>2, <3>3 DEF Transposed
  <2>6. CASE ~(k + 1 < i + 8)
    <3>1. at' = NextBlock BY <1>a, <1>1, <2>1, <2>6 DEF Advance, i, j, k
    <3>2. \/ /\ at.j + 8 < M
             /\ at' = [phase |-> First, i |-> at.i, j |-> at.j + 8, k |-> at.i]
          \/ /\ ~(at.j + 8 < M) /\ at.i + 8 < N
             /\ at' = [phase |-> First, i |-> at.i + 8, j |-> 0, k |-> at.i + 8]
          \/ /\ ~(at.j + 8 < M) /\ ~(at.i + 8 < N)
             /\ at' = [phase |-> "done", i |-> at.i, j |-> at.j, k |-> at.k]
      BY <1>1, <3>1, Leaves DEF i, j, k
    <3>3. \A r \in Cols, c \in Rows : r < i \/ (r < i + 8 /\ c < j + 8) => B'[c][r] = A(r, c)
      BY <1>a, <1>1, <1>2, <2>1, <2>4, <2>6
    <3>4. CASE at'.phase = "done"
      <4>1. ~(j + 8 < 64) /\ ~(i + 8 < 64) BY <1>1, <3>2, <3>4 DEF i, j, k
      <4>2. \A r \in Cols, c \in Rows : B'[c][r] = A(r, c) BY <1>a, <1>1, <1>2, <3>3, <4>1
      <4> QED BY <1>1, <3>4, <4>2 DEF InPlace, Transposed, Correct
    <3>5. CASE at'.phase # "done"
      <4>1. at'.phase = "upper" /\ Block' = 8 BY <1>1, <3>2, <3>5 DEF Block
      <4>2. \A r \in Cols, c \in Rows : r < at'.i \/ (r < at'.i + 8 /\ c < at'.j) => B'[c][r] = A(r, c)
        BY <1>a, <1>1, <1>2, <3>2, <3>3, <3>5 DEF i, j, k
      <4>3. at'.k = at'.i /\ at'.i \in Nat BY <1>a, <1>1, <1>2, <3>2, <3>5 DEF i, j, k
      <4>4. InPlace' BY <1>a, <1>1, <4>1, <4>2, <4>3 DEF InPlace, Settled, Behind, Correct, Aside, i, j, k
      <4> QED BY <3>5, <4>4 DEF Transposed
    <3> QED BY <3>4, <3>5
  <2> QED BY <2>5, <2>6
<1> QED BY <1>3, <1>4, <1>5

-----------------------------------------------------------------------------
(* The theorems *)

LEMMA TransInit == Init => TInv
<1> SUFFICES ASSUME Init PROVE TInv OBVIOUS
<1>1. /\ <<M, N>> \in Shapes /\ M \in 1 .. 256 /\ N \in 1 .. 256
      /\ at = [phase |-> First, i |-> 0, j |-> 0, k |-> 0]
      /\ at.phase = First /\ at.i = 0 /\ at.j = 0 /\ at.k = 0
  BY DEF Init, InitLoops
<1>2. First \in {"block8", "upper", "block16"} /\ (First = "block8" => M = 32 /\ N = 32)
      /\ (First = "upper" => M = 64 /\ N = 64)
  BY DEF First
<1>3. Positions BY <1>1, <1>2 DEF Positions, Corners32, Corners64
<1>4. Shaped BY DEF Init, Shaped
<1>5. InPlace BY <1>1, <1>2 DEF InPlace, Settled, Behind, Aside, Rows, Cols
<1>6. Transposed BY <1>1, <1>2 DEF Transposed
<1> QED BY <1>3, <1>4, <1>5, <1>6 DEF TInv

LEMMA TransNext == TInv /\ [Next]_vars => TInv'
<1> SUFFICES ASSUME TInv, [Next]_vars PROVE TInv' OBVIOUS
<1>0. Positions /\ Shaped /\ InPlace /\ Transposed BY DEF TInv
<1>1. CASE Next
  <2>1. Positions'
    BY <1>0, <1>1, PositionsBlock8, PositionsSplit, PositionsBlock16
       DEF Next, Block8, Upper, Middle, Lower, Block16
  <2>2. Shaped'
    <3>1. UNCHANGED <<M, N>> BY <1>1 DEF Next, Block8, Upper, Middle, Lower, Block16, Go
    <3>2. Rows' = Rows /\ Cols' = Cols BY <3>1 DEF Rows, Cols
    <3>3. DOMAIN B' = Rows /\ \A r \in Rows : DOMAIN B'[r] = Cols
      BY <1>1 DEF Next, Block8, Upper, Middle, Lower, Block16
    <3> QED BY <3>2, <3>3 DEF Shaped
  <2>3. InPlace' /\ Transposed' BY <1>0, <1>1, InPlaceWholeRow, InPlaceSplit DEF Next
  <2> QED BY <2>1, <2>2, <2>3 DEF TInv
<1>2. CASE UNCHANGED vars
  BY <1>0, <1>2 DEF vars, TInv, Positions, First, Shaped, Rows, Cols, InPlace, Settled, Behind, Block,
     Correct, Aside, Transposed
<1> QED BY <1>1, <1>2

\* No iteration reaches outside the matrices.
THEOREM TransTypeCorrect == Spec => []TypeOK
<1>1. TInv => TypeOK
  <2> SUFFICES ASSUME TInv PROVE TypeOK OBVIOUS
  <2>1. Positions /\ Shaped BY DEF TInv
  <2>2. at.phase # "done" => UsedRows \subseteq Cols
    BY <2>1 DEF Positions, UsedRows, Rows, Cols, Corners32, Corners64
  <2>3. at.phase # "done" => UsedCols \subseteq Rows
    BY <2>1 DEF Positions, UsedCols, BlockCols, Block, Rows, Cols, Corners32, Corners64
  <2> QED BY <2>1, <2>2, <2>3 DEF TypeOK, Positions, Shaped
<1> QED BY <1>1, TransInit, TransNext, PTL DEF Spec

\* When the function returns, B is the transpose of A.
THEOREM TransposedCorrect == Spec => []Transposed
<1>1. TInv => Transposed BY DEF TInv
<1> QED BY <1>1, TransInit, TransNext, PTL DEF Spec

\* A block that the loops have left stays in place.
THEOREM BlocksStayDoneCorrect == Spec => []BlocksStayDone
<1>1. TInv => BlocksStayDone BY DEF TInv, InPlace, Settled, BlocksStayDone
<1> QED BY <1>1, TransInit, TransNext, PTL DEF Spec
=============================================================================
