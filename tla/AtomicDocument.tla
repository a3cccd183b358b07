--------------------------- MODULE AtomicDocument ---------------------------
(***************************************************************************)
(* What the metadata store promises its callers: one document, changed by  *)
(* one call at a time, that keeps every change it acknowledged.            *)
(***************************************************************************)
EXTENDS FiniteSets

CONSTANTS Changes, Staged

VARIABLES document,  \* the content every reader gets
          promised   \* the changes acknowledged since the last restore

Init == document = {} /\ promised = {}

Update(c) == document' = document \cup {c} /\ promised' = promised \cup {c}
Restore == document' = {Staged} /\ promised' = {}

Next == Restore \/ \E c \in Changes : Update(c)

Spec == Init /\ [][Next]_<<document, promised>>
=============================================================================
