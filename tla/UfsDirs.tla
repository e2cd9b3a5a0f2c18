------------------------------ MODULE UfsDirs ------------------------------
(***************************************************************************)
(* What the forensic walks see of a UFS directory tree.                    *)
(*                                                                         *)
(* A partition is abstracted to the answers the reader gives about it:     *)
(* for every inode number, the verdict of list_dir_all (the decoded slots, *)
(* or an error when the inode cannot be located or read) and whether the   *)
(* dinode's mode says "directory".  Both are fixed for the whole analysis: *)
(* the analyzer borrows the partition immutably.  An image record may hold *)
(* further fields; this module only constrains the two it reads.           *)
(***************************************************************************)
EXTENDS Integers, Sequences, FiniteSets, SequencesExt

CONSTANTS
    Ino,      \* inode numbers, 0 excepted: any a d_ino field can hold
    RootIno,  \* UFS_ROOTINO
    Name,     \* entry names; ".", ".." and "" have their usual meaning
    Images,   \* the partitions under analysis
    Budget    \* 1 << 20 in the code, of each walk

VARIABLE image  \* the partition; never written

(* DirEntryType: how a d_type byte is classified (Other stands for every   *)
(* byte the format does not define).                                       *)
DirEntryType ==
    {"Unknown", "Fifo", "CharDevice", "Directory", "BlockDevice", "Regular",
     "Symlink", "Socket", "Whiteout", "Other"}

(* struct DirEntry; its `deleted` flag is derived below.                   *)
DirEntry == [ino : Ino \cup {0}, name : Name, file_type : DirEntryType]

(* What list_dir_all answers: the slots in block order, or an error.       *)
Listing == [ok : BOOLEAN, entries : Seq(DirEntry)]

IsImage(img) ==
    /\ img.listing \in [Ino -> Listing]
    /\ \A d \in Ino : ~img.listing[d].ok => img.listing[d].entries = << >>
    /\ img.is_dir \in [Ino -> BOOLEAN]

ASSUME InoAssumption == Ino \subseteq Nat \ {0} /\ RootIno \in Ino
ASSUME ImagesAssumption == \A img \in Images : IsImage(img)
ASSUME BudgetAssumption == Budget \in Nat

-----------------------------------------------------------------------------

(* walk_block flags a slot as deleted exactly when its d_ino is zero.      *)
Deleted(e) == e.ino = 0

(* The self and parent links, which both walks step over.                  *)
IsDot(e) == e.name \in {".", ".."}

(* is_dir_entry: the walk trusts the d_type byte, not the inode's mode.    *)
is_dir_entry(e) == e.file_type = "Directory"

Entries(img, d) == img.listing[d].entries

(* The entries through which something is named: live, not "." or "..".    *)
Names(e) == ~Deleted(e) /\ ~IsDot(e)

NamingEntries(img, d) == { e \in ToSet(Entries(img, d)) : Names(e) }

(* Everything the slots of d name, whatever kind of inode d is.            *)
Children(img, d) == { e.ino : e \in NamingEntries(img, d) }

(* The children the slots of d call directories.                           *)
DirChildren(img, d) ==
    { e.ino : e \in { f \in NamingEntries(img, d) : is_dir_entry(f) } }

(* The tree the file system means: only inodes whose mode says directory   *)
(* have children.  This is the edge relation read_by_path descends.        *)
TreeChildren(img, d) == IF img.is_dir[d] THEN Children(img, d) ELSE {}

(* Every naming entry of a directory classifies its target as the target's *)
(* mode does: true of the entries a modern UFS writes, false of old-format *)
(* directories, whose entries all carry DT_UNKNOWN.                        *)
TypesFaithful(img) ==
    /\ img.is_dir[RootIno]
    /\ \A d \in Ino : img.is_dir[d] =>
          \A e \in NamingEntries(img, d) : is_dir_entry(e) <=> img.is_dir[e.ino]

(* S holds the root and everything its members name.                       *)
ClosedFromRoot(edges, S) == RootIno \in S /\ \A x \in S : edges[x] \subseteq S

(* Reachability, as the least closed set.                                  *)
ReachableFrom(edges) ==
    { x \in Ino : \A S \in SUBSET Ino : ClosedFromRoot(edges, S) => x \in S }
=============================================================================
