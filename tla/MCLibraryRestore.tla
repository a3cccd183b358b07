-------------------------- MODULE MCLibraryRestore --------------------------
(* Instances of LibraryRestore for TLC: a library of a mod file and a      *)
(* folder, a backup with the same file name, the folder and a new file,    *)
(* a second backup, and a file and a folder other programs may add.        *)
EXTENDS LibraryRestore

CONSTANTS oldMod, oldDir, newMod, newDir, newer, outMod, outDir, s1, s2

MCItems == {oldMod, oldDir, newMod, newDir, newer, outMod, outDir}
MCName == [i \in Items |-> CASE i \in {oldMod, newMod, outMod} -> "mod"
                             [] i \in {oldDir, newDir, outDir} -> "folder"
                             [] OTHER -> "other"]
MCDirs == Items \cap {oldDir, newDir, outDir}
MCOld == {oldMod, oldDir}
MCStaged == [s \in Sessions |-> IF s = s1 THEN {newMod, newDir} ELSE {newer}]
=============================================================================
