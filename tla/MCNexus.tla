------------------------------ MODULE MCNexus ------------------------------
(* Instances of Nexus for TLC: two clicks on one file.                     *)
EXTENDS Nexus

CONSTANTS c1, c2, f1

MCFileOf == [c \in {c1, c2} |-> f1]
=============================================================================
