------------------------------ MODULE MCStream ------------------------------
(* Small instances of Stream for TLC: every header with numbers up to one  *)
(* past U64Max.                                                            *)
EXTENDS Stream
=============================================================================
