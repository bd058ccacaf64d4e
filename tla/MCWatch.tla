------------------------------- MODULE MCWatch -------------------------------
(* An instance of Watch for TLC: four versions of the sources, one of them    *)
(* broken.                                                                    *)
EXTENDS Watch
=============================================================================
