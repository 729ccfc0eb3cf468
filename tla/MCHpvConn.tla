------------------------------ MODULE MCHpvConn ------------------------------
(* Instances of HpvConn for TLC. *)
EXTENDS HpvConn

MCFrameSizes == {3, 6, 7}
=============================================================================
