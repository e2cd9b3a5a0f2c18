# A TLA+ model of ufs-forensic

`ufs-forensic` reads UFS1/UFS2 (FFS) partitions and reports structural
anomalies and deleted residue. It is sequential, read-only Rust: every entry
point borrows an immutable byte slice and computes a result. What is hard in it
is not concurrency but *hostile or damaged input*: directory graphs with
cycles, fields that lie about sizes, addresses that overflow, structures cut
off by the end of the image, residue that has been overwritten, and loops whose
bounds and early exits decide what an examiner is told. The modules model those
loops statement by statement and quantify over the images.

## 1. The system

| Component | State it keeps | Operations | Interacts with |
|---|---|---|---|
| Superblock decode (`core/src/superblock.rs`) | none (value) | `parse`, `validate_geometry` | called by the two superblock searches and by the backup check |
| Primary superblock search (`vfs.rs` `ufs_probe`, `UfsFs::open`; `forensic/src/lib.rs` `parse_primary_sb`) | the offset being tried | a probe and two independent searches of the same partition | everything else runs on the superblock they return |
| Inode location and decode (`inode.rs`) | none | `read_inode`, `parse_with_maxsymlink` | every walk |
| Directory block walk (`dir.rs`) | cursor in a block, bytes of `di_size` left | `list_dir_all`, `list_dir_entries`, `walk_block`, `read_block` | both forensic walks, path walk |
| Path walk (`dir.rs`, `file.rs`) | current inode | `read_by_path`, `read_path_content` | directory walk, file content |
| File content (`file.rs`) | output buffer, `remaining`, `written`, `bi` | `read_inode_file`, `resolve_block`, `indirect_ptr`, `read_symlink_target` | carving, VFS |
| Reachable-inode walk (`reachable_inodes`) | `queue`, `reachable`, `budget` | one depth-first walk | orphan check |
| Deleted-dirent walk (`collect_deleted_dirents`) | `queue`, `visited`, `budget`, `deleted` | one depth-first walk | carving |
| Orphan check (`check_orphaned_inodes`) | group, position, result | walk, then a sweep of all inode bitmaps | reachable-inode walk |
| Cylinder-group audit (`check_impossible_geometry`, `check_all_cgs`, `check_backup_sb`, `check_cg_magic`) | group index, result | one pass over the groups | superblock decode |
| Carving (`recover_deleted`, `carve_deleted_inodes`) | group, position, result | names, then a sweep of all inode tables | deleted walk, file content |
| VFS adapter (`vfs.rs`) | the image in memory and its superblock | `open`, `read_dir`, `lookup`, `extents`, `read_at`, `read_link`, `meta` | all of the reader; the source it reads once |
| Finding conversion, hashing, byte readers, errors | none | formatting and decoding | |

The two public analyses compose them:

    audit_image:      parse_primary_sb -> check_impossible_geometry -> check_all_cgs
                      -> reachable_inodes -> check_orphaned_inodes
    recover_deleted:  parse_primary_sb -> collect_deleted_dirents -> carve_deleted_inodes

What makes each correct, in one line:

* search: reader and analyzer agree on the superblock, silence is explained;
* walks: they terminate on any graph, a drained queue means *complete*, a
  directory is dealt with once, an unlistable directory costs only itself, and
  the budget can only be spent by what it is meant to bound;
* directory walk: exactly the live names and the zeroed slots of the direct
  blocks, damage costing only its own block, and no loop or over-read;
* inode sweep: each inode judged once, by its own bit and its own dinode;
* adapter: lookup, path, listing, metadata, windows, extents and links tell one
  story about the volume, also about a volume delivered in part;
* orphan check and group audit: the report is exactly the set that unbounded
  arithmetic and graph reachability define, one broken group hiding no other;
* file content: exactly `di_size` bytes, in block-map order;
* carving: no live file is passed off as deleted, every intact residue is found.

The hard-to-test places are listed with their lines under `hazards` in
`PROJECT.json`; every property below aims at one of them.

## 2. Modules

| Module | Models |
|---|---|
| `UfsDirs` | what the walks see of a partition: the listing of every inode, the kind of every inode; entries, naming, reachability |
| `DirSearch` | *abstract*: a search of a directory graph from a root |
| `ReachableWalk` | `reachable_inodes`; implements `DirSearch` |
| `DeletedWalk` | `collect_deleted_dirents`; implements `DirSearch` |
| `OrphanSweep` | `check_orphaned_inodes`; extends `ReachableWalk` and runs it as its first phase |
| `PrimarySb` | `ufs_probe`, `UfsFs::open` and `parse_primary_sb` on the same partition; `Superblock::parse` by verdict |
| `CgAudit` | `check_impossible_geometry`, `check_all_cgs`, `check_backup_sb`, `check_cg_magic` with saturating arithmetic |
| `GroupSweep` | the sweep of `check_orphaned_inodes` and `carve_deleted_inodes` down to bytes: `CylinderGroup::parse`, `cg_inode_bitmap`, `bitmap_bit`, `read_inode`; extends `CgAudit` and runs after it for `audit_image`, alone for `recover_deleted` |
| `DirBlock` | `list_dir`, `list_dir_all`, `list_dir_entries`, `walk_block`, over a directory the operating system has changed and an image with one damage |
| `BlockTree`, `FileStream` | the block map of an inode and its leaf order (successor on digits, no division); *abstract*: reading a file leaf by leaf |
| `BlockMap` | `read_inode_file` over `resolve_block`; implements `FileStream` |
| `VfsSession` | the `FileSystem` calls of `UfsFs` over one volume; `parse_with_maxsymlink`, `read_by_path`, `read_symlink_target`, `read_path_content`; extends `BlockTree` |
| `Carve` | `recover_deleted`, after an arbitrary history of creations and deletions |
| `CommonLemmas` | lemmas several proofs cite: push, pop and concatenation of sequences, counting, ascending pushes, the numbers of the inodes of a group, least and greatest elements, induction in the form of a set that holds 0 and is closed under successor |
| `DeletedWalkProofs`, `CarveProofs`, `BlockMapProofs`, `DirBlockProofs` | the theorems about the module of that name |
| `OrphanSweepProofs` | those of `ReachableWalk` and of `OrphanSweep`, which runs it |
| `GroupSweepProofs` | those of `CgAudit` and of `GroupSweep`, which runs after it |
| `VfsProofs` | those of `VfsSession`, and of the superblock search before it (it extends both) |
| `MC*` | the instances TLC checks |

Reading conventions. A Rust local is a variable of the same name (in `DeletedWalk`,
which shares a run with `ReachableWalk`, with a `d` before the names both have); a loop body is
one action per path through it (each `continue` and `break` is its own action),
so the guard of an action is the conjunction of the conditions on its path. `pc`
or `phase` says which loop is running. A `Vec` used only through `push` and
`contains` is a set (`reachable`, `visited`); one that is popped or reported is a
sequence. The image never changes during an analysis (`&[u8]`), so it is a
variable chosen in `Init` and never assigned. A definition placed just before
another with a suffixed name (`ScanSeenRequeues` before `ScanSeen`) is a
plausible wrong version of it, kept to show which property would notice.

Notable points of correspondence:

* `ReachableWalk`: an inode is recorded before it is queued, so `contains`
  guards both; `BudgetSpent` happens after the pop, as in the code, so the
  popped directory is lost. Repeats are charged to nobody.
* `DeletedWalk`: the opposite discipline. A directory is queued once per entry
  that names it and filtered when popped, so the budget is spent per entry.
  `decode_name` maps every name that is not UTF-8 to one lossy value.
* `OrphanSweep`: the bitmap of a group is `None` or a set of positions, the
  inode is unreadable (`-1`) or has a link count.
* `PrimarySb`: the two searches interleave freely; they share only the image.
* `CgAudit`: `U64Max` is a constant, so that TLC reaches saturation.
  `audit_image`'s clamping of negative fields to 0 is part of `IsVolume`.
* `GroupSweep`: group addresses use the raw, signed `fs_cblkno`, which the
  audit clamps; a header is `little`, `big` or `bad`, and `check_cg_magic`
  accepts the first two where `cg_inode_bitmap` wants the superblock's order.
  `seen` records what each trip of the inode loop found; which of those the two
  callers report is `IsOrphan` in `OrphanSweep` and `IsCandidate` in `Carve`.
  A bitmap byte is the sum of its bits' weights, `b >> bit` a division by one.
* `DirBlock`: lengths count words of `DIR_ROUNDUP` bytes. `Enter` and `Unlink`
  are external: they compact a record into the slack of another, grow the
  directory by a chunk, zero the first record of a chunk or merge a later one
  into its predecessor, leaving the old bytes. A word at which no head was ever
  written decodes to anything in `Junk`. `list_dir` is given by the positions
  in `entries` that it keeps.
* `VfsSession`: a fragment carries one byte, a pointer is one byte (UFS1) or
  two (UFS2) in the volume's byte order, and a pointer cut by the end of the
  memory reads as 0. The slots of a directory are given with their positions;
  `DirBlock` models how they are decoded. `read_inode` is its three outcomes,
  `GroupSweep` has its arithmetic. The fan-out is a block's size over a
  pointer's; that `file.rs:99` takes it from the unvalidated `fs_nindir` is
  covered in `BlockMap`. That a target of exactly `fs_maxsymlinklen`
  bytes is inline is the rule this repository documents; it is an assumption
  about the operating system that wrote the volume (`LinkStored`, which also
  says how a longer target lies in blocks; `Enc` is how a pointer is written,
  `Word` how it is read). A listing is a function on the positions of the slots
  it keeps, and an extent is kept with the number of its block: the order is
  that of the positions. `Stages` gives where each prefix of a path leads, so
  that the loop of `read_by_path` is a recursive function.
* `Carve`: `Create`, `Unlink` and `Image` are external, modelled from what the
  analyzer's comments say UFS leaves behind. Files have one block and live in
  the root directory; the deeper walk is `DeletedWalk`, larger files are
  `BlockMap`. An unlinked entry is zeroed in place or merged into the one
  before it, and then no longer part of the listing. `lost.inodes` stands for
  `read_inode` or `read_file` failing.

## 3. Model checking

All runs are exhaustive over the instance. Deadlock checking is on except in
`vfs_session`, where a failed mount really ends the session; each other module
has a stuttering step only for "the function has returned".

| Run | Properties | What it shows |
|---|---|---|
| `dir_walks` | `TypeOK`, `OnlyNamedInodes`, `DrainedWalkIsReachability`, `BreakMeansManyDirectories`, `NoDirectoryTwice`, `OrphansExact`, `SweepReturns`, `ImplementsSearch`; `EachSlotCollectedOnce`, `BreakMeansManySlots`, `CollectReturns`, `CollectImplementsSearch` | on graphs over a root and three more inodes with up to two slots in two directories (cycles, repeats, dots, deleted slots, lying types, an unlistable directory) the reachable walk finds exactly the reachable set and breaks only beyond `Budget` directories; the sweep then reports exactly the orphans by definition, ascending, each once, an unreadable bitmap costing only its group; the deleted walk reports each residual name as often as a slot holds it, however often its directory is linked; all return |
| `recovery` | `AuditorReadsWhatOpenerMounts`, `SilenceExplained`, `ProbeAgreesWithOpen`; `NoLiveFileCarved`, `CarvedContentNeverOlder`, `IntactResidueIsRecovered` | over all pairs of superblock regions with boundary field values, the analyzer says nothing exactly where nothing mounts and no full structure has a wrong magic, and probe and open part only over a refused geometry or a superblock at the other version's offset; behind a sound superblock, all histories of up to three creations over two inodes, two blocks and two names, with damage |
| `group_sweep` | `SweepTypeOK`, `GeometryVerdictExact`, `GroupFindingsExact`, `DinodeAddressExact`, `BitsReadAsWritten`, `InodesJudgedOnce`, `SilentSkipsExplained` | partitions ending at, before and after each structure of the last group, all combinations of backup defects and header byte orders over three groups, 2, 8 and 9 inodes per group, and saturating geometries, with the audit before the sweep and without it; the findings are the bad headers and, of backups that parse, the four compared fields |
| `dir_block` | `LiveListingExact`, `DeletedSlotsExact`, `SlotsInsideBounds`, `CutShortensOneName`, `WalkReturns` | three additions or removals in any order over a directory that outgrows its two direct blocks, then a sound image or one with a wrong `d_reclen`, `d_namlen` or `di_size`, a hole or a cut block |
| `block_map` | `TypeOK`, `CountersAgree`, `ImplementsFileStream` | files ending around the edge of every indirect level, with one pointer punched out, pointer or data blocks cut short, `fs_nindir` negative, too small and right |
| `vfs_session` | `TypeOK`, `ChainIsPath`, `WindowsReassemble`, `ShortSourceNeverLies`, `ExtentsMatchContent`, `LinkIsTarget`, `ListingAgrees` | eight volumes in both formats and byte orders, with holes, an indirect block, duplicate and cut names, an inode out of range and inline, boundary and block symlinks, of which the source delivers a prefix of any of twelve lengths |

Two runs take components one after the other, as the analyses do: `WalksSpec`
(`MCDirWalks`) runs the orphan check and then the deleted walk over the same
image, `RecoverSpec` (`MCRecover`) the superblock search and then the file
system's history and the carve. Each of their steps is a step of one component
and leaves the other's variables alone, so a property of a component is checked
in all the behaviours of its own specification, the one the theorems are about.

Why the bounds are enough. A walk has three relations between two directories
(new, pending, done) and a budget edge; four inodes with two slots each realise
all of them, and `Budget = 3` lies between the graphs of three and of four
directories, and between two and three slots that name one. The block map instance has a fan-out of two, so each of the three
levels has a first, an inner and a last leaf, and all twelve direct pointers.
The group instance has a first group (not compared), an inner and a last one;
a group of nine inodes needs a second, partial bitmap byte. The directory has
chunks that share a block, a block boundary and a chunk past the direct
pointers, and enough operations for a slot to be freed, its space to be taken
and the new entry to be removed again. The session's delivery lengths end
before and inside each structure of the volume, and two names in a row pass
through a directory, a non-directory and back. The carving instance lets
an inode, a block, a slot and a name each be
freed and taken again in every order. The bounds on behaviour are
`MaxGen` and `Allocated` in `Carve`, `Budget` in the walks (the code's own),
`MaxOps` and `MaxChunks` in `DirBlock`, `MaxTrail` in `VfsSession`, and there
that a client finishes a sequence of windows before its next call; `UfsFs` is
only ever borrowed immutably, so calls cannot affect one another.

Fairness. `WF` on the function's own steps: a called function keeps running,
nothing else holds the thread. Nothing stronger is assumed. What a client or the
operating system does is under no fairness.

### Where code and documentation disagree

Six runs check a sentence of the repository and find it violated; the quotes
are under `findings`.

* `primary_sb_doc` (`DocTriesBothOffsets`): "try both". `parse_primary_sb`
  returns at the first wrong magic, so a UFS1 partition that is longer than
  64 KiB and has anything else at the UFS2 offset is reported magic-invalid and
  never audited or carved, though `UfsFs::open` mounts it.
* `primary_sb_notufs_doc` (`DocNotUfsMeansNoSuperblock`): "`NotUfs` when neither
  offset holds superblock-sized data". A full superblock with a good magic whose
  geometry is refused ends there too. `SilenceExplained` is what does hold.
* `backup_defects_doc` (`DocBackupDefectsReported`): "flag each geometry field
  that diverges from the primary", and of a backup that does not parse that it
  "is reported via the primary/cg paths". Four fields are compared, and no path
  looks at a backup that does not parse when the group's header is sound. The
  property says that one sentence or the other holds of every volume; the volume
  that violates it, with one backup of each kind and an empty report, refutes
  both. `GroupFindingsExact` states what is reported.
* `reachable_walk_doc` (`DocReachableSet`): a subdirectory whose entry carries
  `DT_UNKNOWN` (old-format directories) is not descended; all inodes below it
  count as orphans.
* `carve_fabricates_doc` (`DocNeverFabricates`): a freed dinode whose block has
  been re-allocated is carved with the later file's content. `CarvedContentNeverOlder`
  is what does hold.
* `vfs_resident_doc` (`DocResidentHasNoRuns`): `meta` calls an inline symlink
  resident, `extents` still reports allocated runs for it, at addresses made of
  the target's characters. `read_at` on such a node likewise reads wherever
  those addresses lead; `read_link` is right (`LinkIsTarget`).

Others seen while modelling, without a run of their own: a carved file never
gets a name, since names are paired by the inode number of slots collected
because that number is 0 (`lib.rs:703`); a header in the other byte order
passes `check_cg_magic` and makes both sweeps skip the group in silence
(`lib.rs:735`; `SilentSkipsExplained` lists all such cases); `cg_initediblk` is
decoded and never consulted (`cg.rs:86`), so dinodes that were never written
are judged as freed ones; a directory that outgrows its direct blocks loses the
rest of its entries (`dir.rs:227`, the guard of `LiveListingExact`); a source
that delivers a prefix is mounted without a word (`vfs.rs:120`) and its missing
content reads as zeros (`ShortSourceNeverLies` says what is never wrong), its
last directory entry perhaps under a shortened name, which may shadow another
(`ChainIsPath` and `ListingAgrees` cannot notice, since both walks see the same
listing; `CutShortensOneName` bounds it to the one name at the cut); `lookup` descends through
files that `read_by_path` refuses (`ChainIsPath`). Then, smaller: the note of an
impossible-geometry finding says the value "exceeds" a limit it may equal
(`lib.rs:338`; `GeometryVerdictExact` states what holds); `resolve_block`'s "cov:unreachable" guard at `file.rs:163` is
reached when `fs_nindir` is too small, which is never validated (the
`block_map` run covers that path and shows it yields a hole); names in reclen
slack (`lib.rs:562`) are never looked at.

## 4. Proofs

No theorem has a bound on inodes, entries, groups, blocks, sizes or budgets.
Each proof module first shows an inductive invariant (the `...Invariant`
theorem: it holds initially, every action preserves it, one step per action),
then reads the property off it. The invariants are conjunctions of named parts,
next to the properties or at the head of the proof module, and TLC has checked
the parts on the instances above. Every invariant of every passing run, and
every refinement, is the statement of a theorem.

| Module | Theorem | States |
|---|---|---|
| `OrphanSweepProofs` | `TypeCorrect` | `Spec => []TypeOK` |
| | `WalkIsSound` | `Spec => []OnlyNamedInodes` |
| | `WalkIsExact` | `Spec => []DrainedWalkIsReachability` |
| | `BreakNeedsManyDirectories` | `Spec => []BreakMeansManyDirectories` |
| | `EachDirectoryOnce` | `Spec => []NoDirectoryTwice` |
| | `WalkRefinesSearch` | `Spec => ImplementsSearch` |
| | `OrphansAreExact` | `SweepSpec => []OrphansExact` |
| `DeletedWalkProofs` | `TypeCorrect` | `CollectSpec => []CollectTypeOK` |
| | `CollectsEachSlotOnce` | `CollectSpec => []EachSlotCollectedOnce` |
| | `BreakNeedsManySlots` | `CollectSpec => []BreakMeansManySlots` |
| | `WalkRefinesSearch` | `CollectSpec => CollectImplementsSearch` |
| `GroupSweepProofs` | `SweepTypeCorrect` | `SweepSpec => []SweepTypeOK` |
| | `GeometryIsExact` | `SweepSpec => []GeometryVerdictExact` |
| | `FindingsAreExact` | `SweepSpec => []GroupFindingsExact` |
| | `EachInodeJudgedOnce` | `SweepSpec => []InodesJudgedOnce` |
| | `DinodeAddresses` | `SweepSpec => []DinodeAddressExact` |
| | `BitsAreRead` | `SweepSpec => []BitsReadAsWritten` |
| | `SilentSkips` | `SweepSpec => []SilentSkipsExplained` |
| `CarveProofs` | `LiveFilesAreSafe` | `Spec => []NoLiveFileCarved` |
| | `ContentIsNeverOlder` | `Spec => []CarvedContentNeverOlder` |
| | `IntactResidue` | `Spec => []IntactResidueIsRecovered` |
| `BlockMapProofs` | `TypeCorrect` | `Spec => []TypeOK` |
| | `CountersNeverDrift` | `Spec => []CountersAgree` |
| | `ReadRefinesStream` | `Spec => ImplementsFileStream` |
| `DirBlockProofs` | `SlotsStayInside` | `Spec => []SlotsInsideBounds` |
| | `LiveListing` | `Spec => []LiveListingExact` |
| | `DeletedSlots` | `Spec => []DeletedSlotsExact` |
| | `CutNames` | `Spec => []CutShortensOneName` |
| `VfsProofs` | `NoFreeIdentity` | `Spec => []TypeOK` |
| | `ChainAndPathAgree` | `Spec => []ChainIsPath` |
| | `WindowsAreTheFile` | `Spec => []WindowsReassemble` |
| | `ShortSourceIsHonest` | `Spec => []ShortSourceNeverLies` |
| | `ExtentsAreContent` | `Spec => []ExtentsMatchContent` |
| | `LinksAreTargets` | `Spec => []LinkIsTarget` |
| | `OneStory` | `Spec => []ListingAgrees` |
| | `OneSuperblock` | `SearchSpec => []AuditorReadsWhatOpenerMounts` |
| | `SilenceIsExplained` | `SearchSpec => []SilenceExplained` |
| | `ProbeVersusOpen` | `SearchSpec => []ProbeAgreesWithOpen` |

### From which assumptions

`InoAssumption` (inode numbers are positive naturals, the root among them),
`ImagesAssumption` (an image answers for every inode), `BudgetAssumption` (a
natural); no proof about the walks uses that `Ino` is finite. `GroupAssumption`:
it is finite for the sweep (inode numbers are `u32` or `u64`), contains the numbers
the superblock spans, and a group's bitmap has positions below `fs_ipg`.
`VolumeAssumption` and `InodeAssumption`: the fields have the ranges their Rust
types and `audit_image`'s clamping give them, `U64Max` is any natural, a
partition that has a primary superblock is long enough to hold it,
`fs_ipg * fs_ncg` fits a `u64` (a product of a 31-bit and a 32-bit number), and
the bytes up to `cg_magic` are not more than the header `CylinderGroup::parse`
asks for, and the bitmap of a group has a byte for each of its positions.
`CarveAssumption`: at least one inode per group, block addresses
differ from 0, "no content" is no generation number. `TreeAssumption`: an inode
has a direct pointer, 0 is an address (the hole) and a byte, and each file is a
record of its fields' types; `fs_nindir` is any integer, since the code
validates none. `DirAssumption`: a chunk holds a record, and the directory is
well formed (`IsDirectory`) and its records in use before the first operation;
what stray bytes decode to, and where and how the image is damaged, is
arbitrary. `VolumeAssumption` of `VfsSession`: the fields have their types, a
pointer's bytes make an address, a name that is looked up is not empty (an
entry's may be). `LinkAssumption`: where `fs_maxsymlinklen` is not above the
pointer region, a link's target is stored by the rule of `LinkStored`, inline
up to that length and else in blocks that the direct pointers and at most one
pointer block reach (the longest path is 1024 bytes, less than one block). Only
`LinksAreTargets` uses it; all other theorems hold for arbitrary dinodes.

### Along which argument

*Reachable walk.* `DrainedWalkIsReachability` is not inductive: while the walk
runs, recorded directories may have unrecorded children. `WalkInv` adds where
such a directory must be (`NothingForgotten`: pending, or under the cursor with
the slots before the cursor dealt with), that pending directories are recorded
(`PendingIsRecorded`), that only an empty queue ends the loop normally
(`DoneIsDrained`), that everything recorded stays inside each closed set
(`InsideClosedSets`), and that each trip round the loop is paid for by a
distinct recorded directory (`BudgetAccounts`, which rests on
`NoDirectoryTwice`). A drained queue turns `NothingForgotten` into closure, and
closure with `InsideClosedSets` is reachability. The refinement maps `reachable`
to `found` and a step that records a new inode to `Discover`.

*Deleted walk.* `CollectInv` has the same shape over *slots*, pairs of a directory and a
position. `Scanned` are those dealt with; `CollectedExactly` counts the result
against them, and `SlotsPayBudget` is an equation (trips made plus trips pending
are slots that name directories, plus the call itself), because this walk queues
per entry and filters when popping. A step of the walk changes `Scanned` by at
most the slot under the cursor, so both counts move together. In the refinement
a directory is found when it is visited.

*Orphan check.* `SweepInv` joins `WalkInv` to `FlaggedSoFar`: what is flagged is
what lies below `Frontier`, the first number not dealt with, over the set the
walk returned. At the end the frontier is `fs_ipg * fs_ncg`. That the set is the
reachable one needs the walk not to have broken, which is where
`BreakMeansManyDirectories` and the finiteness of `Ino` come in.

*Superblock search.* `SearchInv` says of each of the three searches what its own
position implies about the regions it has tried; they share nothing they write.

*Group audit and sweep.* Saturating products are compared with exact ones once,
in lemmas: a saturated value is at least the partition's length, so a bounds
check against the partition decides the same way on both. `AuditInv` says the
anomalies pushed so far are those of the groups before `cg`
(`ExpectedSoFar`), each once. `SweepInv` adds which bitmaps have been read and
that `seen` lists the numbers below the frontier in the groups that were read,
each judged at its own position (`Judgement`). `BitOfByte` gives back each of
the eight bits of a bitmap byte, `BitAsWritten` finds the byte, the partial last
one of a group included.

*Carving.* `CarveInv` carries two facts about the disk through every history:
live slots name distinct allocated inodes (`SlotsNameUsed`), and the block of
an intact dinode holds that file's bytes or later ones (`BytesNeverOlder`). The
sweep then adds `CarvedSoFar`, over the candidates below the frontier.

*Block map.* `BlockInv` gives the remainder as a function of the block index
(`RemainderIsRest`), from which the agreement of the three counters follows, and
says that the buffer is zero behind the cursor (`TailIsZero`), so that a hole or
a short block leaves exactly the zeros the stream emits. The refinement rests on
two lemmas about `resolve_block`, for every fan-out: the index arithmetic reads
the leaf of the slot that `SlotOf` gives (`ResolvesToLeaf`), and adding one to
the block index is the successor on digits (`SlotsInOrder`, from `NextOfTwo`,
`NextOfThree` and the carry of one digit, `CountUp`).

*Directory block walk.* Two halves. `LifeInv`: whatever names come and go, the
records are a chain that covers the directory, every chunk beginning with one
(`Split`, `Merged`, `Grown`: what the three ways of changing it do to the
chain), and the cleared slots are the records without an inode. `WalkPart`: what
is left of `di_size` is what lies behind the block (`WalkPosition`), the heads
pushed lie behind the cursor, in order and apart (`SlotsBehind`), and in a block
no damage touches the cursor stands at a record or at the end (`OnChain`), so
that what is listed from it is stored (`ListedAsStored`) and what is stored
before the cursor is listed (`StoredAreListed`). A hole, a cut, a wrong length
or a wrong size only ever removes a block from those the last three speak of.
`CutPart` is the same for a block that is cut: the cursor stands at a record
until it passes the cut (`RecordInBlock`: a record ends in its block), and with
the first name the cut shortens it has passed it.

*Session.* `SessionInv` says that the windows so far are a stretch of the file
(`WindowsHeld`), that a short one reached its end (`EndSeen`) and that the last
answer is what the call returns now (`LastAnswer`: nothing the client does
changes the volume). The properties then are about the reader's operators.
*Short source*: `Under` relates a file to itself read with less in memory; a
pointer found with less is the true one or a hole, at every level
(`PointerUnder`, `ResolveUnder`), so a byte is the true one or a zero
(`ContentUnder`). *Links*: a stored pointer reads back (`StoredReads`, both
widths and byte orders), hence `resolve_block` leads to the blocks of the target
(`LinkBlocks`) and each byte is the target's (`LinkContent`). *Paths*: `ChainIsPath`
is not inductive, since it only speaks of the path as a client would write it;
`ChainInv` says the same of the bare trail, `OneMore` is the step (one name
more is one `Descend` more), and `SlashesIgnored` carries it to the path with
slashes. What `Stages` yields is shown by induction over the components
(`StageFacts`, `StagePrefix`, `SlashesIgnored`).

### Only model-checked

Liveness (`SweepReturns`, `CollectReturns`, `WalkReturns`): fairness is out of the
prover's reach. The proofs that need induction over data have it in the form of
sets (`SetInduction` in `CommonLemmas`: a set of naturals that holds 0 and the
successor of each of its elements is all of them), which is enough for the
recursive function of `read_by_path`.

## 5. Not modelled

Field offsets of superblocks, group headers and dinodes (straight-line,
bounds-checked reads: one wrong constant changes no control, and the
repository's tests compare them with a real image); owner, link count and the
other times of an inode, which the adapter passes through; the error enum beyond
its names; formatting of findings; SHA-256; the fuzz targets and the tests.
`d_ino == 0` slots found in reclen slack are a possible extension of the
program, not part of it.

Left abstract where modules meet: `ReachableWalk`, `DeletedWalk` and `VfsSession`
take directory listings as given (what `DirBlock` produces), `OrphanSweep` and
`Carve` take the bitmap of a group as given (what `GroupSweep` produces).

## 6. Plan

1. *(done)* the two walks, their abstract search, the orphan check, the
   superblock search, the group audit, the block map, carving; the theorems of
   `ReachableWalk`.
2. *(done)* the directory block walk, the inode sweep and its addresses, the
   probe, the adapter session.
3. *(done)* proofs: the deleted walk, the orphan check, the superblock search,
   the group audit and the inode sweep, carving, the block map and its
   refinement of the file stream.
4. *(done)* proofs: the directory block walk under any history and damage, the
   adapter session, the bits of the inode bitmaps. Every invariant of every
   passing run has its theorem.
