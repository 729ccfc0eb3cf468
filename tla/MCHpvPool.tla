------------------------------ MODULE MCHpvPool ------------------------------
(* Instances of HpvPool for TLC. *)
EXTENDS HpvPool
=============================================================================
