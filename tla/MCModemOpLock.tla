--------------------------- MODULE MCModemOpLock ---------------------------
(* ModemOpLock for TLC: ordinary requests and one override.  Without         *)
(* symmetry, because the run checks liveness too.                            *)
EXTENDS ModemOpLock

CONSTANTS r1, r2, r3, o1
=============================================================================
