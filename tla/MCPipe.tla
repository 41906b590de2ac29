------------------------------- MODULE MCPipe -------------------------------
(* PipeIsa on the programs of Programs. *)
EXTENDS PipeIsa, Programs
=============================================================================
