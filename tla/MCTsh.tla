------------------------------- MODULE MCTsh -------------------------------
(* Small instances of Tsh for TLC. *)
EXTENDS Tsh, TLC

MCSymmetry == Permutations(Pids)
=============================================================================
