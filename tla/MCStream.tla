------------------------------ MODULE MCStream -------------------------------
(* Instances of Stream for TLC: two guards, a buffer of two bytes that one    *)
(* write fills, overflows or bypasses.                                        *)
EXTENDS Stream
=============================================================================
