---------------------------- MODULE MCDebugAids ----------------------------
(* Two addresses and the letter T, which strtol() reads as 0.              *)
EXTENDS DebugAids

MCValue == [t \in {"0", "1c", "T"} |-> IF t = "1c" THEN 28 ELSE 0]
=============================================================================
