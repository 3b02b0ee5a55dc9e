-------------------------- MODULE MCPortScheduling --------------------------
(* PortScheduling for TLC: the ports of a modem.  Without symmetry, because  *)
(* the runs check liveness too.                                              *)
EXTENDS PortScheduling

CONSTANTS s1, s2, s3
=============================================================================
