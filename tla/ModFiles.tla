------------------------------ MODULE ModFiles ------------------------------
(***************************************************************************)
(* The mod folder as Cratebug's scanner sees it (internal/discovery).      *)
(*                                                                         *)
(* A path is a folder, a filename stem and an extension.  The disk is a    *)
(* function from files to the place each file is at, so that what happens  *)
(* to a file can be followed through renames.  Scanner operators take the  *)
(* disk as a parameter.                                                    *)
(*                                                                         *)
(* Abstracted: stems are already folded to one case, sizes and contents    *)
(* are not kept, links and special files do not occur.                     *)
(***************************************************************************)
EXTENDS Naturals, Sequences

CONSTANTS
  Files,        \* the files of the run, each with an identity of its own
  Folders,      \* the physical folders below the mod root, the root included
  Stems,        \* filename stems
  Unborn,       \* place of a file nobody has created yet
  Trashed,      \* place of a file in the Recycle Bin or the desktop trash
  Overwritten,  \* place of a file that was replaced by another one
  Taken         \* place of a file another program removed

(* discovery/scan.go: the six extensions the scanner recognizes. *)
PrimaryExts == {"pak", "pak_crateoff", "bak_bento", "pak_disabled"}
DisabledExts == PrimaryExts \ {"pak"}
SidecarExts == {"utoc", "ucas"}
Exts == PrimaryExts \cup SidecarExts

Path == [folder : Folders, stem : Stems, ext : Exts]
OffDisk == {Unborn, Trashed, Overwritten, Taken}
Place == Path \cup OffDisk
Disk == [Files -> Place]

ASSUME OffDiskAssumption ==
  /\ OffDisk \cap Path = {}
  /\ Overwritten \notin {Unborn, Trashed, Taken} /\ Unborn \notin {Trashed, Taken}

(* A group is what shares one folder and one stem: scan.go's fileGroupKey. *)
Group == [folder : Folders, stem : Stems]
At(g, e) == [folder |-> g.folder, stem |-> g.stem, ext |-> e]
GroupOf(path) == [folder |-> path.folder, stem |-> path.stem]

Occupied(disk, path) == \E f \in Files : disk[f] = path
FileAt(disk, path) == CHOOSE f \in Files : disk[f] = path

(* The primaries and the sidecars of one group: splitRecords. *)
Primaries(disk, g) == {e \in PrimaryExts : Occupied(disk, At(g, e))}
Sidecars(disk, g) == {e \in SidecarExts : Occupied(disk, At(g, e))}

(* An entry a mutation can address: modEntryID gives every primary of an   *)
(* ambiguous group an ID with its extension, so the plain ID of a group is *)
(* in the scan exactly when the group has one primary.                     *)
HasEntry(disk, g) == \E e \in PrimaryExts : Primaries(disk, g) = {e}
PrimaryOf(disk, g) == CHOOSE e \in PrimaryExts : e \in Primaries(disk, g)

(* An IoStore bundle with one sidecar missing: issue missing-utoc/-ucas.   *)
Incomplete(disk, g) == Sidecars(disk, g) \notin {{}, SidecarExts}
=============================================================================
