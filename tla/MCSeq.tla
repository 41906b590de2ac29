------------------------------- MODULE MCSeq -------------------------------
(* Seq on the programs of Programs. *)
EXTENDS Seq, Programs
=============================================================================
