------------------------------- MODULE Carve -------------------------------
(***************************************************************************)
(* recover_deleted over the life of a file system: files are created and   *)
(* unlinked by the operating system, the disk is imaged at some moment,    *)
(* and the analyzer then collects residual names and carves free-but-      *)
(* intact inodes.  Files have one block and live in the root directory;    *)
(* the walk of a deeper tree is DeletedWalk's subject and the block map of *)
(* a larger file is BlockMap's.                                            *)
(*                                                                         *)
(* The file system's own actions are external: they are what the analyzer  *)
(* and its documentation say UFS does (a freed dinode and its block are    *)
(* left as they were; a zeroed slot keeps its name, or is merged into the  *)
(* entry before it, whose d_reclen then jumps over it).                    *)
(***************************************************************************)
EXTENDS Integers, Sequences, FiniteSets, SequencesExt

CONSTANTS
    Ipg, Ncg,  \* fs_ipg, fs_ncg
    RootIno,   \* UFS_ROOTINO
    Block,     \* data blocks, 0 excluded
    FileName,  \* names files are given
    MaxGen,    \* bound: how many files are ever created
    Allocated, \* bound: the inodes the operating system hands out
    None       \* Option::None, and the content of a file never created

ASSUME CarveAssumption ==
    /\ Ipg \in Nat \ {0} /\ Ncg \in Nat /\ RootIno \in Nat /\ MaxGen \in Nat
    /\ 0 \notin Block /\ None \notin Nat
    /\ Allocated \subseteq (RootIno + 1)..(Ipg * Ncg - 1)

Ino == (RootIno + 1)..(Ipg * Ncg - 1)

VARIABLES
    \* the disk
    used,      \* inodes set in the inode bitmaps
    dinode,    \* [Ino -> [regular, size, db0]]
    content,   \* [Block -> the number of the creation whose bytes it holds, or None]
    owned,     \* blocks allocated to live files
    slots,     \* the root directory's slots: [ino, name]
    gen,       \* files created so far
    wrote,     \* history: what each inode's last file contained
    \* the analyzer
    phase,     \* "live", "names", "group", "inode", "end"
    lost,      \* groups whose bitmap, and inodes whose dinode or content,
               \* cannot be read (read_inode or read_file gives Err)
    deleted,   \* collect_deleted_dirents' result
    cg, within,
    files      \* the DeletedFile items pushed, in order

disk == <<used, dinode, content, owned, slots, gen, wrote>>
analyzer == <<phase, lost, deleted, cg, within, files>>
vars == <<disk, analyzer>>

Blank == [regular |-> FALSE, size |-> 0, db0 |-> 0]

Init ==
    /\ used = {} /\ owned = {} /\ slots = << >> /\ gen = 0
    /\ dinode = [i \in Ino |-> Blank]
    /\ content = [b \in Block |-> None]
    /\ wrote = [i \in Ino |-> None]
    /\ phase = "live"
    /\ lost = [groups |-> {}, inodes |-> {}]
    /\ deleted = << >> /\ files = << >>
    /\ cg = 0 /\ within = 0

-----------------------------------------------------------------------------

LiveNames == { slots[k].name : k \in { j \in DOMAIN slots : slots[j].ino # 0 } }

(* A file is created: a free inode and block, and a slot for its name, be  *)
(* it a zeroed slot or fresh space.                                        *)
Create(i, n, b) ==
    /\ phase = "live" /\ gen < MaxGen
    /\ i \notin used /\ b \notin owned /\ n \notin LiveNames
    /\ gen' = gen + 1
    /\ used' = used \cup {i} /\ owned' = owned \cup {b}
    /\ dinode' = [dinode EXCEPT ![i] = [regular |-> TRUE, size |-> 1, db0 |-> b]]
    /\ content' = [content EXCEPT ![b] = gen + 1]
    /\ wrote' = [wrote EXCEPT ![i] = gen + 1]
    /\ \/ \E k \in DOMAIN slots :
            /\ slots[k].ino = 0
            /\ slots' = [slots EXCEPT ![k] = [ino |-> i, name |-> n]]
       \/ slots' = Append(slots, [ino |-> i, name |-> n])
    /\ UNCHANGED analyzer

(* A file is unlinked: its inode and block are free, its dinode is left    *)
(* intact or cleared, its slot is zeroed or merged into the slot before.   *)
Unlink(k) ==
    /\ phase = "live"
    /\ slots[k].ino # 0
    /\ LET i == slots[k].ino
       IN  /\ used' = used \ {i}
           /\ owned' = owned \ {dinode[i].db0}
           /\ dinode' \in {dinode, [dinode EXCEPT ![i] = Blank]}
    /\ \/ slots' = [slots EXCEPT ![k].ino = 0]
       \/ k > 1 /\ slots' = RemoveAt(slots, k)
    /\ UNCHANGED <<content, gen, wrote, analyzer>>

(* The disk is imaged, perhaps with a damaged group or inode.              *)
Image(groups, inodes) ==
    /\ phase = "live"
    /\ lost' = [groups |-> groups, inodes |-> inodes]
    /\ phase' = "names"
    /\ UNCHANGED <<disk, deleted, cg, within, files>>

-----------------------------------------------------------------------------

(* collect_deleted_dirents: the residual name and (zero) inode of every    *)
(* zeroed slot, in slot order.                                             *)
CollectNames ==
    /\ phase = "names"
    /\ LET zeroed == SelectSeq(slots, LAMBDA s : s.ino = 0)
       IN  deleted' = [ k \in DOMAIN zeroed |-> <<zeroed[k].name, zeroed[k].ino>> ]
    /\ phase' = "group"
    /\ UNCHANGED <<disk, lost, cg, within, files>>

(* cg_inode_bitmap gave None: skip the whole group.                        *)
SkipGroupStops ==
    /\ phase = "group" /\ cg < Ncg /\ cg \in lost.groups
    /\ phase' = "end"
    /\ UNCHANGED <<disk, lost, deleted, cg, within, files>>
SkipGroup ==
    /\ phase = "group" /\ cg < Ncg /\ cg \in lost.groups
    /\ cg' = cg + 1
    /\ UNCHANGED <<disk, phase, lost, deleted, within, files>>

EnterGroup ==
    /\ phase = "group" /\ cg < Ncg /\ cg \notin lost.groups
    /\ within' = 0
    /\ phase' = "inode"
    /\ UNCHANGED <<disk, lost, deleted, cg, files>>

ino == cg * Ipg + within

(* Free in the bitmap, readable, and still a regular file with a size and  *)
(* a first block.                                                          *)
IsCandidateUsedToo ==
    /\ ino >= RootIno + 1 /\ ino < Ipg * Ncg
    /\ ino \notin lost.inodes
    /\ dinode[ino].regular /\ dinode[ino].size # 0 /\ dinode[ino].db0 # 0
IsCandidate ==
    /\ ino >= RootIno + 1 /\ ino < Ipg * Ncg
    /\ ino \notin used
    /\ ino \notin lost.inodes
    /\ dinode[ino].regular /\ dinode[ino].size # 0 /\ dinode[ino].db0 # 0

(* The name of the first collected dirent whose inode number is this one.  *)
PairedName ==
    LET hits == SelectSeq(deleted, LAMBDA d : d[2] = ino)
    IN  IF hits = << >> THEN None ELSE hits[1][1]

CarveFileStale ==
    /\ phase = "inode" /\ within < Ipg
    /\ IsCandidate
    /\ files' = Append(files, [inode |-> ino, name |-> PairedName,
                               content |-> content[CHOOSE b \in Block : TRUE]])
    /\ within' = within + 1
    /\ UNCHANGED <<disk, phase, lost, deleted, cg>>
CarveFile ==
    /\ phase = "inode" /\ within < Ipg
    /\ IsCandidate
    /\ files' = Append(files, [inode |-> ino, name |-> PairedName,
                               content |-> content[dinode[ino].db0]])
    /\ within' = within + 1
    /\ UNCHANGED <<disk, phase, lost, deleted, cg>>

PassInode ==
    /\ phase = "inode" /\ within < Ipg
    /\ ~IsCandidate
    /\ within' = within + 1
    /\ UNCHANGED <<disk, phase, lost, deleted, cg, files>>

LeaveGroup ==
    /\ phase = "inode" /\ within >= Ipg
    /\ cg' = cg + 1
    /\ phase' = "group"
    /\ UNCHANGED <<disk, lost, deleted, within, files>>

EndSweep ==
    /\ phase = "group" /\ cg >= Ncg
    /\ phase' = "end"
    /\ UNCHANGED <<disk, lost, deleted, cg, within, files>>

Recover ==
    \/ CollectNames \/ SkipGroup \/ EnterGroup \/ CarveFile \/ PassInode
    \/ LeaveGroup \/ EndSweep

Next ==
    \/ \E i \in Allocated, n \in FileName, b \in Block : Create(i, n, b)
    \/ \E k \in DOMAIN slots : Unlink(k)
    \/ \E g \in SUBSET (0..(Ncg - 1)), x \in {{}} \cup {{i} : i \in Allocated} : Image(g, x)
    \/ Recover
    \/ phase = "end" /\ UNCHANGED vars

Spec == Init /\ [][Next]_vars

-----------------------------------------------------------------------------

(* carve_deleted_inodes never passes a live file off as a deleted one, nor *)
(* reports an inode twice, whatever was created, unlinked and re-created   *)
(* in its place before the disk was imaged.                                *)
NoLiveFileCarved ==
    /\ \A k \in DOMAIN slots, j \in DOMAIN files :
          slots[k].ino # 0 => slots[k].ino # files[j].inode
    /\ \A j, k \in DOMAIN files : j < k => files[j].inode < files[k].inode

(* What a carved file contains is the deleted file's own content or that   *)
(* of a file created after it: blocks are only ever overwritten by later   *)
(* files, and carve_deleted_inodes follows the freed inode's own block     *)
(* pointer.                                                                *)
CarvedContentNeverOlder ==
    \A j \in DOMAIN files :
        /\ files[j].content # None
        /\ files[j].content >= wrote[files[j].inode]

(* Every deleted file whose dinode and block still are what the deletion   *)
(* left, in a group and an inode that can be read, is recovered: an        *)
(* unreadable group or inode hides only its own files.                     *)
IntactResidueIsRecovered ==
    phase = "end" =>
        \A i \in Ino :
            /\ i \notin used /\ i \notin lost.inodes /\ (i \div Ipg) \notin lost.groups
            /\ dinode[i].regular /\ content[dinode[i].db0] = wrote[i]
            => \E j \in DOMAIN files : files[j].inode = i /\ files[j].content = wrote[i]

(* The disk's types.                                                       *)
DiskOK ==
    /\ gen \in Nat
    /\ used \subseteq Ino
    /\ dinode \in [Ino -> [regular : BOOLEAN, size : Nat, db0 : Block \cup {0}]]
    /\ content \in [Block -> Nat \cup {None}]
    /\ wrote \in [Ino -> Nat \cup {None}]
    /\ slots \in Seq([ino : Ino \cup {0}, name : FileName])

(* A live slot names an allocated inode that no other slot names.          *)
SlotsNameUsed ==
    \A k, l \in DOMAIN slots : slots[k].ino # 0 =>
        slots[k].ino \in used /\ (slots[k].ino = slots[l].ino => k = l)

(* An intact dinode points at a block whose bytes are of its own file or   *)
(* of a later one.                                                         *)
BytesNeverOlder ==
    /\ \A i \in Ino : wrote[i] \in Nat => wrote[i] <= gen
    /\ \A i \in Ino : dinode[i].regular =>
          /\ dinode[i].size # 0 /\ dinode[i].db0 \in Block /\ wrote[i] \in Nat
          /\ content[dinode[i].db0] \in Nat /\ content[dinode[i].db0] >= wrote[i]

(* Where the sweep is.                                                     *)
SweepPosition ==
    /\ phase \in {"live", "names", "group", "inode", "end"}
    /\ cg \in 0..Ncg /\ within \in Nat
    /\ phase \in {"live", "names"} => cg = 0 /\ files = << >>
    /\ phase = "inode" => cg < Ncg /\ cg \notin lost.groups /\ within <= Ipg
    /\ phase = "end" => cg = Ncg

(* The first inode number the sweep has not dealt with.                    *)
Frontier == cg * Ipg + (IF phase = "inode" THEN within ELSE 0)

Candidates ==
    { i \in Ino :
        /\ i \notin used /\ i \notin lost.inodes /\ (i \div Ipg) \notin lost.groups
        /\ dinode[i].regular /\ dinode[i].size # 0 /\ dinode[i].db0 # 0 }

(* What has been carved are the candidates before the frontier, each with  *)
(* the bytes its block pointer leads to, in ascending order.               *)
CarvedSoFar ==
    /\ files \in Seq(ToSet(files))
    /\ { f.inode : f \in ToSet(files) } = { i \in Candidates : i < Frontier }
    /\ \A f \in ToSet(files) : f.content = content[dinode[f.inode].db0]
    /\ \A j, k \in DOMAIN files : j < k => files[j].inode < files[k].inode

(* The inductive invariant behind the three properties.                    *)
CarveInv == DiskOK /\ SlotsNameUsed /\ BytesNeverOlder /\ SweepPosition /\ CarvedSoFar

(* "returns nothing rather than fabricate once the residue is gone": a     *)
(* carved content is one its inode's file really had.                      *)
DocNeverFabricates ==
    \A j \in DOMAIN files : files[j].content = wrote[files[j].inode]
=============================================================================
