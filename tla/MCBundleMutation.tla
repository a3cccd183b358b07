-------------------------- MODULE MCBundleMutation --------------------------
(* Instances of BundleMutation for TLC: bundle a is an IoStore mod with    *)
(* three files, bundle b a classic mod, c a stem nothing uses yet.         *)
EXTENDS BundleRefinement

CONSTANTS aPak, aToc, aCas, bPak, ext, root

MCFiles == {aPak, aToc, aCas, bPak, ext}
MCQuietFiles == {aPak, aToc, aCas, bPak}
MCStems == {"a", "b", "c"}
Grp(s) == [folder |-> root, stem |-> s]
PathOf(s, e) == [folder |-> root, stem |-> s, ext |-> e]

MCDisk == [f \in Files |->
  CASE f = aPak -> PathOf("a", "pak") [] f = aToc -> PathOf("a", "utoc")
    [] f = aCas -> PathOf("a", "ucas") [] f = bPak -> PathOf("b", "pak")
    [] OTHER -> Unborn]

Relocate(s, t) == [op |-> "relocate", entry |-> Grp(s), to |-> Grp(t)]
InPlace(o, s) == [op |-> o, entry |-> Grp(s), to |-> Grp(s)]

(* Calls that race for one bundle. *)
MCRacing == {Relocate("a", "c"), Relocate("a", "b"), InPlace("disable", "a"), InPlace("delete", "a")}
(* A session on the whole library. *)
MCSession == {Relocate("a", "c"), Relocate("c", "a"), Relocate("b", "a"), InPlace("disable", "a"),
              InPlace("enable", "a"), InPlace("disable", "c"), InPlace("delete", "b")}
=============================================================================
