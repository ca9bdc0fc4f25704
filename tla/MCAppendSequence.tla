-------------------------- MODULE MCAppendSequence --------------------------
(* Instances of AppendSequence for TLC. *)
EXTENDS AppendSequence
CONSTANTS a1, a2, a3, a4, a5

MCCalls == {a1, a2, a3, a4, a5}
=============================================================================
