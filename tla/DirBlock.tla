------------------------------ MODULE DirBlock ------------------------------
(***************************************************************************)
(* list_dir and list_dir_all: the walk over a directory's direct blocks    *)
(* and, in each, over its records by d_reclen, against a directory that    *)
(* the operating system has been adding names to and removing them from,   *)
(* imaged with at most one kind of damage.                                 *)
(*                                                                         *)
(* Positions and lengths count words of DIR_ROUNDUP bytes from the start   *)
(* of the directory file.  A cell holds the record head stored at that     *)
(* word, or Blank where no head was ever written: there the walk decodes   *)
(* whatever the bytes happen to be.                                        *)
(***************************************************************************)
EXTENDS Integers, Sequences, FiniteSets, SequencesExt, FiniteSetsExt

CONSTANTS
    UFS_NDADDR,      \* direct pointers of an inode, 12 in the format
    DIRBLKSIZ,       \* words in a directory chunk, which no record crosses
    ChunksPerBlock,  \* fs_bsize / DIRBLKSIZ
    MaxChunks,       \* bound: chunks the directory may grow to
    MaxOps,          \* bound: names added and removed before imaging
    Name,
    First,           \* the directory's cells before the first operation
    FirstStarts,     \* where its records start
    Junk,            \* the heads that stray bytes decode to
    Damages          \* what may be wrong with the image

DIRECT_HEAD == 2
Dots == {".", ".."}
Blank == [blank |-> TRUE]
Direct == [ino : Nat, reclen : Nat, namlen : Nat, name : Name]
Words == 0..(MaxChunks * DIRBLKSIZ - 1)
bsize == ChunksPerBlock * DIRBLKSIZ

(* A damage is a wrong d_reclen, d_namlen or di_size, a zeroed direct      *)
(* pointer or a block that the end of the image cuts to `value` words.     *)
Damage == [kind : {"none", "reclen", "namlen", "size", "hole", "cut"}, at : Nat, value : Nat]

Used(h) == DIRECT_HEAD + h.namlen
FirstSize == (Max(FirstStarts) \div DIRBLKSIZ + 1) * DIRBLKSIZ

(* A directory as the operating system keeps it: whole chunks, each with a *)
(* record at its start, every record as long as what it holds at least and *)
(* ending where the next one starts or the directory ends, no name twice.  *)
IsDirectory(cells, recs, len) ==
    /\ \E c \in 1..MaxChunks : len = c * DIRBLKSIZ
    /\ recs \subseteq 0..(len - 1)
    /\ \A c \in 0..(MaxChunks - 1) : c * DIRBLKSIZ < len => c * DIRBLKSIZ \in recs
    /\ \A p \in recs :
          /\ cells[p] \in Direct /\ Used(cells[p]) <= cells[p].reclen
          /\ p + cells[p].reclen \in recs \cup {len}
          /\ \A q \in recs : ~(p < q /\ q < p + cells[p].reclen)
    /\ \A p, q \in recs :
          cells[p].ino # 0 /\ cells[q].ino # 0 /\ cells[p].name = cells[q].name => p = q

ASSUME DirAssumption ==
    /\ {UFS_NDADDR, DIRBLKSIZ, ChunksPerBlock, MaxChunks, MaxOps} \subseteq Nat \ {0}
    /\ DIRBLKSIZ > DIRECT_HEAD
    /\ DOMAIN First = Words /\ \A p \in Words : First[p] \in Direct \cup {Blank}
    /\ IsDirectory(First, FirstStarts, FirstSize) /\ \A p \in FirstStarts : First[p].ino # 0
    /\ Junk \subseteq Direct /\ Damages \subseteq Damage

VARIABLES
    disk,       \* the directory's cells
    starts,     \* ghost: where the operating system's records start
    zeroed,     \* ghost: the slots whose entry was removed by clearing d_ino
    size,       \* di_size
    ops,        \* operations left before imaging
    damage,
    pc,         \* "life", "next", "block", "done"
    k,          \* position in inode.direct
    remaining,
    blen,       \* block.len()
    off,
    entries     \* what list_dir_all returns

dirVars == <<disk, starts, zeroed, size, ops>>
walkVars == <<pc, k, remaining, blen, off, entries>>
vars == <<dirVars, damage, walkVars>>

Init ==
    /\ disk = First /\ starts = FirstStarts /\ zeroed = {}
    /\ size = FirstSize
    /\ ops = MaxOps
    /\ damage = [kind |-> "none", at |-> 0, value |-> 0]
    /\ pc = "life" /\ k = 0 /\ remaining = 0 /\ blen = 0 /\ off = 0 /\ entries = << >>

-----------------------------------------------------------------------------
(* The life of the directory.                                              *)

Room(p) == disk[p].reclen - (IF disk[p].ino = 0 THEN 0 ELSE Used(disk[p]))

(* A record of n written at p, over whatever was there.                    *)
Write(cells, p, n, len) ==
    [ q \in Words |->
        IF q = p THEN [ino |-> 3, reclen |-> len, namlen |-> 1, name |-> n]
        ELSE IF q \in (p + 1)..(p + DIRECT_HEAD) THEN Blank ELSE cells[q] ]

Operation == pc = "life" /\ ops > 0 /\ ops' = ops - 1 /\ UNCHANGED <<damage, walkVars>>
Present(n) == \E p \in starts : disk[p].name = n /\ disk[p].ino # 0

(* A new name takes over a cleared slot, or the slack behind an entry, or  *)
(* a fresh chunk.                                                          *)
Enter(n) ==
    /\ Operation
    /\ ~Present(n)
    /\ LET fits == { p \in starts : Room(p) >= DIRECT_HEAD + 1 }
           p == Min(fits)
           q == IF disk[p].ino = 0 THEN p ELSE p + Used(disk[p])
       IN  IF fits # {}
           THEN /\ disk' = Write([disk EXCEPT ![p].reclen = q - p], q, n, Room(p))
                /\ starts' = starts \cup {q}
                /\ zeroed' = zeroed \ {q}
                /\ size' = size
           ELSE /\ size < MaxChunks * DIRBLKSIZ
                /\ disk' = Write(disk, size, n, DIRBLKSIZ)
                /\ starts' = starts \cup {size}
                /\ size' = size + DIRBLKSIZ
                /\ zeroed' = zeroed

(* The first entry of a chunk has its d_ino cleared; any other is merged   *)
(* into the record before it, head and name left in the slack.             *)
Unlink(p) ==
    /\ Operation
    /\ disk[p].ino # 0 /\ disk[p].name \notin Dots
    /\ IF p % DIRBLKSIZ = 0
       THEN /\ disk' = [disk EXCEPT ![p].ino = 0]
            /\ zeroed' = zeroed \cup {p}
            /\ UNCHANGED <<starts, size>>
       ELSE LET prev == Max({ q \in starts : q < p })
            IN  /\ disk' = [disk EXCEPT ![prev].reclen = @ + disk[p].reclen]
                /\ starts' = starts \ {p}
                /\ UNCHANGED <<zeroed, size>>

-----------------------------------------------------------------------------

(* The image is taken, and list_dir_all called on it.                      *)
di_size == IF damage.kind = "size" THEN damage.value ELSE size
StartWalk ==
    /\ pc = "life"
    /\ damage' \in { d \in Damages : d.kind \in {"reclen", "namlen"} => d.at \in starts }
    /\ UNCHANGED <<dirVars, k, blen, off, entries>>
    /\ remaining' = di_size'
    /\ pc' = "next"

(* inode.direct[i] is not a hole.                                          *)
Mapped(i) == i * bsize < size /\ ~(damage.kind = "hole" /\ damage.at = i)

(* What the head at word p decodes to.                                     *)
Decoded(p) ==
    IF p \notin Words \/ disk[p] = Blank THEN Junk
    ELSE IF damage.kind = "reclen" /\ damage.at = p THEN {[disk[p] EXCEPT !.reclen = damage.value]}
    ELSE IF damage.kind = "namlen" /\ damage.at = p THEN {[disk[p] EXCEPT !.namlen = damage.value]}
    ELSE {disk[p]}

Least(a, b) == IF a < b THEN a ELSE b
SatSub(a, b) == IF a > b THEN a - b ELSE 0

ListEnd ==
    /\ pc = "next"
    /\ remaining = 0 \/ k >= UFS_NDADDR
    /\ pc' = "done"
    /\ UNCHANGED <<dirVars, damage, k, remaining, blen, off, entries>>

(* A hole still uses up a block of the logical size.                       *)
Hole ==
    /\ pc = "next" /\ remaining > 0 /\ k < UFS_NDADDR
    /\ ~Mapped(k)
    /\ remaining' = SatSub(remaining, bsize)
    /\ k' = k + 1
    /\ UNCHANGED <<dirVars, damage, pc, blen, off, entries>>

(* read_block of min(remaining, bsize), clamped to what the image holds.   *)
EnterBlock ==
    /\ pc = "next" /\ remaining > 0 /\ k < UFS_NDADDR
    /\ Mapped(k)
    /\ LET want == Least(remaining, bsize)
       IN  blen' = IF damage.kind = "cut" /\ damage.at = k THEN Least(want, damage.value) ELSE want
    /\ off' = 0
    /\ pc' = "block"
    /\ UNCHANGED <<dirVars, damage, k, remaining, entries>>

(* One trip round the loop of walk_block that pushes a slot: the name is   *)
(* clamped to the record, then to the block.                               *)
NameEndUnclamped(h) == Least(off + DIRECT_HEAD + h.namlen, blen)
NameEndShort(h) == Least(off + DIRECT_HEAD + Least(h.namlen, h.reclen - DIRECT_HEAD), blen - 1)
NameEnd(h) == Least(off + DIRECT_HEAD + Least(h.namlen, h.reclen - DIRECT_HEAD), blen)
StepByUse(h) == Used(h)
Step(h) == h.reclen

SlotIfInUse ==
    /\ pc = "block" /\ off + DIRECT_HEAD <= blen
    /\ \E h \in Decoded(k * bsize + off) :
          /\ h.reclen >= DIRECT_HEAD
          /\ entries' = IF h.ino = 0 THEN entries ELSE Append(entries,
                [ pos |-> k * bsize + off, ino |-> h.ino, reclen |-> h.reclen,
                  name |-> h.name, len |-> NameEnd(h) - (off + DIRECT_HEAD) ])
          /\ off' = off + Step(h)
    /\ UNCHANGED <<dirVars, damage, pc, k, remaining, blen>>
Slot ==
    /\ pc = "block" /\ off + DIRECT_HEAD <= blen
    /\ \E h \in Decoded(k * bsize + off) :
          /\ h.reclen >= DIRECT_HEAD
          /\ entries' = Append(entries,
                [ pos |-> k * bsize + off, ino |-> h.ino, reclen |-> h.reclen,
                  name |-> h.name, len |-> NameEnd(h) - (off + DIRECT_HEAD) ])
          /\ off' = off + Step(h)
    /\ UNCHANGED <<dirVars, damage, pc, k, remaining, blen>>

(* A d_reclen that cannot hold the head ends the block, as does its end.   *)
LeaveBlock ==
    /\ remaining' = SatSub(remaining, bsize)
    /\ k' = k + 1
    /\ pc' = "next"
    /\ UNCHANGED <<dirVars, damage, blen, off, entries>>
BadReclenContinues ==
    /\ pc = "block" /\ off + DIRECT_HEAD <= blen
    /\ \E h \in Decoded(k * bsize + off) : h.reclen < DIRECT_HEAD
    /\ UNCHANGED vars
BadReclen ==
    /\ pc = "block" /\ off + DIRECT_HEAD <= blen
    /\ \E h \in Decoded(k * bsize + off) : h.reclen < DIRECT_HEAD
    /\ LeaveBlock
BlockEnd == pc = "block" /\ off + DIRECT_HEAD > blen /\ LeaveBlock

Walk == ListEnd \/ Hole \/ EnterBlock \/ Slot \/ BadReclen \/ BlockEnd

Next ==
    \/ \E n \in Name \ Dots : Enter(n)
    \/ \E p \in starts : Unlink(p)
    \/ StartWalk \/ Walk
    \/ pc = "done" /\ UNCHANGED vars

(* A called function keeps running; the directory may live for ever.       *)
Spec == Init /\ [][Next]_vars /\ WF_vars(Walk)

-----------------------------------------------------------------------------

Deleted(e) == e.ino = 0
list_dir == { i \in DOMAIN entries : ~Deleted(entries[i]) }   \* the entries it keeps

(* The blocks whose listing the damage can touch.                          *)
Damaged ==
    CASE damage.kind = "none" -> {}
      [] damage.kind = "size" -> Nat
      [] damage.kind \in {"reclen", "namlen"} -> {damage.at \div bsize}
      [] OTHER -> {damage.at}

(* The slots listed from sound direct blocks, and what is shown of them.   *)
SoundBlocks == (0..(UFS_NDADDR - 1)) \ Damaged
FromSound(I) == { i \in I : (entries[i].pos \div bsize) \in SoundBlocks }
Shown(i) == <<entries[i].name, entries[i].len>>
Records(S) == { <<disk[p].name, disk[p].namlen>> : p \in { q \in S : (q \div bsize) \in SoundBlocks } }

(* list_dir returns the directory's entries, each once, with their whole   *)
(* names, after any history of additions and removals: no removed entry    *)
(* comes back out of a predecessor's slack, a damaged block costs nothing  *)
(* of the other blocks, and the entries lost without damage are exactly    *)
(* those stored beyond the direct blocks.                                  *)
LiveListingExact ==
    pc = "done" =>
        /\ { Shown(i) : i \in FromSound(list_dir) } = Records({ p \in starts : disk[p].ino # 0 })
        /\ \A i, j \in FromSound(list_dir) : Shown(i) = Shown(j) => i = j

(* The deleted slots list_dir_all adds are exactly the removed entries     *)
(* that stood first in their chunk and whose slot no later entry took.     *)
DeletedSlotsExact ==
    pc = "done" =>
        { Shown(i) : i \in FromSound(DOMAIN entries \ list_dir) } = Records(zeroed)

(* Whatever the image holds, a slot's head lies inside di_size and inside  *)
(* the block, its name inside its own record and the block, and no byte is *)
(* the head of two slots.                                                  *)
SlotsInsideBounds ==
    \A i \in DOMAIN entries :
        LET e == entries[i]
            end == e.pos + DIRECT_HEAD + e.len
        IN  /\ e.pos + DIRECT_HEAD <= di_size
            /\ e.len >= 0
            /\ end <= Least(e.pos + e.reclen, (e.pos \div bsize + 1) * bsize)
            /\ end <= di_size
            /\ \A j \in 1..(i - 1) : entries[j].pos + DIRECT_HEAD <= e.pos

(* A block cut by the end of the image yields the directory's own slots,   *)
(* and of these only the last of the block, at the very cut, can appear    *)
(* under a shortened name: at most one name per image is not its own.      *)
CutShortensOneName ==
    damage.kind = "cut" =>
        \A i \in DOMAIN entries :
            LET e == entries[i]
            IN  (e.pos \div bsize) = damage.at =>
                  /\ e.pos \in starts
                  /\ e.ino = disk[e.pos].ino /\ e.name = disk[e.pos].name
                  /\ \/ e.len = disk[e.pos].namlen
                     \/ /\ e.pos + DIRECT_HEAD + e.len = damage.at * bsize + damage.value
                        /\ \A j \in DOMAIN entries :
                              j > i => (entries[j].pos \div bsize) # damage.at

(* The block walk returns once called, whatever the record lengths say.    *)
WalkReturns == pc = "next" ~> pc = "done"
=============================================================================
