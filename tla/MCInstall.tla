----------------------------- MODULE MCInstall -----------------------------
(* Instances of Install for TLC.  Session s1 stages two loose files of one *)
(* stem from two folders; session s2 stages a Nexus archive with an        *)
(* IoStore bundle and a classic mod.  The library holds an IoStore bundle  *)
(* at the first destination; the folder of the second does not exist.      *)
EXTENDS Install

CONSTANTS s1, s2, zip, near, far, n1, n2, sub

MCHolds == [o \in {zip, near, far} |->
  CASE o = zip -> {<<"b", "pak">>, <<"b", "utoc">>, <<"b", "ucas">>, <<"c", "pak">>}
    [] o = near -> {<<"a", "pak">>, <<"a", "utoc">>, <<"a", "ucas">>}
    [] OTHER -> {<<"a", "pak">>, <<"a", "utoc">>}]
Loose(o, e) == [from |-> o, stem |-> "a", ext |-> e]
MCSelected == [s \in {s1, s2} |->
  IF s = s1 THEN <<Loose(near, "pak"), Loose(far, "pak")>> ELSE <<Loose(zip, "pak")>>]
MCFolderOf == [n \in {n1, n2} |-> IF n = n1 THEN Root ELSE sub]
MCStart == [x \in {n1, n2} \X {"pak", "utoc", "ucas"} |-> IF x[1] = n1 THEN Old ELSE None]
Take(area, stem, n, over, code) ==
  [mod |-> <<area, stem>>, to |-> n, overwrite |-> over, encrypt |-> code]
MCOffers == [s \in {s1, s2} |->
  IF s = s1 THEN {<<Take("loose", "a", n1, TRUE, TRUE)>>, <<Take("loose", "a", n2, FALSE, FALSE)>>}
  ELSE {<<Take(zip, "b", n1, TRUE, TRUE), Take(zip, "c", n2, FALSE, FALSE)>>,
        <<Take(zip, "c", n1, FALSE, FALSE)>>}]
=============================================================================
