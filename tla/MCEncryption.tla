---------------------------- MODULE MCEncryption ----------------------------
(* Instances of Encryption for TLC: two bundles that start unencrypted,    *)
(* one of them with a companion PAK to clean.                              *)
EXTENDS Encryption

CONSTANTS m1, m2, w1, w2

MCStart == [m \in {m1, m2} |->
  [pak |-> IF m = m1 THEN "dirty" ELSE "clean", utoc |-> "plain", ucas |-> "plain"]]
MCBatches == {<<m1, m2>>}
=============================================================================
