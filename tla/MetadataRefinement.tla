------------------------- MODULE MetadataRefinement -------------------------
(* MetadataStore implements AtomicDocument for as long as nothing outside  *)
(* Cratebug damages the file and no restore runs into a gated call.        *)
EXTENDS MetadataStore

Document == INSTANCE AtomicDocument WITH document <- NextLoad, promised <- acked

(* Loads, quarantines, copies and failed saves are invisible, and the one  *)
(* rename of a Save is the whole change: metadataGate "serializes every    *)
(* metadata read and write" and writeFileAtomically replaces the file at   *)
(* once, so no call, failure or crash shows a document nobody asked for.   *)
OneDocument ==
  Document!Init /\ [][Undisturbed' => Document!Next]_<<NextLoad, acked>>
=============================================================================
