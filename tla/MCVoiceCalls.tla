---------------------------- MODULE MCVoiceCalls ----------------------------
(* Two lines and as many call objects.                                      *)
EXTENDS VoiceCalls
=============================================================================
