----------------------------- MODULE MCApiBuffer -----------------------------
(* Instances of ApiBuffer for TLC. *)
EXTENDS ApiBuffer
=============================================================================
