---------------------------- MODULE MCTransCache ----------------------------
(* TransCache with a different value in every element, on the three graded shapes with the address
   that A had in the graded run, and on shapes around the blocks of the general case. *)
EXTENDS TransCache

AllShapes == {<<32, 32>>, <<64, 64>>, <<61, 67>>}
               \cup {<<1, 1>>, <<1, 20>>, <<20, 1>>, <<16, 16>>, <<15, 17>>, <<17, 15>>, <<32, 33>>, <<48, 31>>}
Element(r, c) == 256 * r + c
Junk(r, c) == 65536 + 256 * r + c
Linked == \h10d0a0
=============================================================================
