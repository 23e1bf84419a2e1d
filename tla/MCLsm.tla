------------------------------- MODULE MCLsm -------------------------------
(* Small instances of Lsm for TLC: the constants are in the cfg files. *)
EXTENDS Lsm
=============================================================================
