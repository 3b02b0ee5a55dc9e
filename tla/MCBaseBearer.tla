---------------------------- MODULE MCBaseBearer ----------------------------
(* BaseBearer for TLC.                                                       *)
EXTENDS BaseBearer
=============================================================================
