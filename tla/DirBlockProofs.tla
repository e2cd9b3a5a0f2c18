--------------------------- MODULE DirBlockProofs ---------------------------
(***************************************************************************)
(* The theorems of DirBlock, for every directory, history, damage and      *)
(* geometry.  The inductive invariant has two halves: whatever names come  *)
(* and go, the records stay a chain that covers the directory; and the     *)
(* walk, whatever it decodes, stays inside the block and the size, and in  *)
(* a sound block follows that chain.                                       *)
(***************************************************************************)
EXTENDS DirBlock, CommonLemmas

IsCells(cells) == DOMAIN cells = Words /\ \A x \in Words : cells[x] \in Direct \cup {Blank}

(* The directory is well formed after any additions and removals, and the  *)
(* cleared slots are the records without an inode.                         *)
LifeInv ==
    /\ IsCells(disk)
    /\ IsDirectory(disk, starts, size)
    /\ zeroed = { p \in starts : disk[p].ino = 0 }

(* Where the walk stands: what is left of di_size is what lies behind the  *)
(* block, and the block read lies inside both.                             *)
WalkPosition ==
    /\ pc \in {"life", "next", "block", "done"}
    /\ k \in Nat /\ remaining \in Nat /\ blen \in Nat /\ off \in Nat
    /\ damage \in Damage
    /\ pc = "life" => k = 0 /\ entries = << >>
    /\ pc \in {"next", "block"} => remaining = SatSub(di_size, k * bsize)
    /\ pc = "block" => k < UFS_NDADDR /\ blen <= bsize /\ k * bsize + blen <= di_size

(* What a slot is, and that its head and name are where they belong.       *)
SlotType == [pos : Nat, ino : Nat, reclen : Nat, name : Name, len : Nat]

SlotOk(e, limit) ==
    /\ e.pos \in Nat /\ e.ino \in Nat /\ e.reclen \in Nat /\ e.len \in Nat
    /\ LET end == e.pos + DIRECT_HEAD + e.len
       IN  /\ end <= limit
           /\ end <= e.pos + e.reclen
           /\ end <= (e.pos \div bsize + 1) * bsize

(* The heads pushed lie behind the cursor, in order and apart.             *)
SlotsBehind ==
    /\ entries \in Seq(SlotType)
    /\ \A i \in DOMAIN entries :
          /\ SlotOk(entries[i], di_size)
          /\ pc = "next" => entries[i].pos + DIRECT_HEAD <= k * bsize
          /\ pc = "block" => /\ entries[i].pos + DIRECT_HEAD <= k * bsize + off
                             /\ entries[i].pos + DIRECT_HEAD <= k * bsize + blen
          /\ \A j \in 1..(i - 1) : entries[j].pos + DIRECT_HEAD <= entries[i].pos

(* In a sound block the cursor stands at a record or at the end.           *)
OnChain ==
    pc = "block" /\ k \in SoundBlocks =>
        /\ k * bsize < size
        /\ blen = Least(size - k * bsize, bsize)
        /\ off <= blen
        /\ off < blen => k * bsize + off \in starts

(* A slot listed from a sound block is a record of the directory ...       *)
ListedAsStored ==
    \A i \in DOMAIN entries :
        LET e == entries[i]
        IN  (e.pos \div bsize) \in SoundBlocks =>
              /\ e.pos \in starts
              /\ e.ino = disk[e.pos].ino /\ e.name = disk[e.pos].name /\ e.len = disk[e.pos].namlen

(* ... and a record of a sound block the walk is past has been listed.     *)
Passed(p) ==
    \/ pc = "done"
    \/ p \div bsize < k
    \/ pc = "block" /\ p \div bsize = k /\ p < k * bsize + off

StoredAreListed ==
    pc # "life" =>
        \A p \in starts : (p \div bsize) \in SoundBlocks /\ Passed(p) =>
            \E i \in DOMAIN entries : entries[i].pos = p

(* In a block cut by the end of the image the cursor stands at a record or *)
(* past the cut ...                                                        *)
CutCursor ==
    damage.kind = "cut" /\ pc = "block" /\ k = damage.at =>
        /\ k * bsize < size
        /\ blen = Least(Least(size - k * bsize, bsize), damage.value)
        /\ off < blen => k * bsize + off \in starts

(* ... and what is listed from it are records, whole unless the cursor has *)
(* passed the cut with them.                                               *)
CutSlot(i) ==
    LET e == entries[i]
    IN  /\ e.pos \in starts
        /\ e.ino = disk[e.pos].ino /\ e.name = disk[e.pos].name
        /\ \/ e.len = disk[e.pos].namlen
           \/ /\ e.pos + DIRECT_HEAD + e.len = damage.at * bsize + damage.value
              /\ \A j \in DOMAIN entries : j > i => (entries[j].pos \div bsize) # damage.at
              /\ pc = "block" /\ k = damage.at => off >= blen

CutPart ==
    /\ CutCursor
    /\ damage.kind = "cut" =>
          \A i \in DOMAIN entries : (entries[i].pos \div bsize) = damage.at => CutSlot(i)

-----------------------------------------------------------------------------
(* The life of the directory.                                              *)

(* The geometry: chunks that hold a record, blocks of whole chunks.        *)
LEMMA Geometry ==
    /\ DIRBLKSIZ \in Nat /\ DIRBLKSIZ >= DIRECT_HEAD + 1
    /\ bsize \in Nat \ {0} /\ bsize = ChunksPerBlock * DIRBLKSIZ
    /\ ChunksPerBlock \in Nat \ {0} /\ MaxChunks \in Nat \ {0} /\ UFS_NDADDR \in Nat \ {0}
<1>1. /\ DIRBLKSIZ \in Nat \ {0} /\ ChunksPerBlock \in Nat \ {0} /\ DIRBLKSIZ >= DIRECT_HEAD + 1
      /\ MaxChunks \in Nat \ {0} /\ UFS_NDADDR \in Nat \ {0}
  BY DirAssumption DEF DIRECT_HEAD
<1>2. \A a, b \in Nat \ {0} : a * b \in Nat \ {0}
  OBVIOUS
<1> QED BY <1>1, <1>2 DEF bsize

(* The least and the greatest record of a choice of records.               *)
LEMMA MinFacts ==
    ASSUME NEW T, T \subseteq Nat, T # {}
    PROVE  Min(T) \in T
  BY LeastElement DEF Min

LEMMA MaxFacts ==
    ASSUME NEW T, T \subseteq Nat, T # {}, NEW b \in Nat, \A x \in T : x <= b
    PROVE  Max(T) \in T /\ \A y \in T : Max(T) >= y
  BY GreatestElement DEF Max

(* What a well-formed directory says of one record.                        *)
LEMMA RecordFacts ==
    ASSUME NEW cells, NEW recs, NEW len, IsDirectory(cells, recs, len), NEW p \in recs
    PROVE  /\ p \in Nat /\ len \in Nat /\ p < len /\ recs \subseteq Nat
           /\ cells[p] \in Direct /\ cells[p].reclen \in Nat /\ cells[p].namlen \in Nat
           /\ cells[p].ino \in Nat
           /\ cells[p].reclen >= DIRECT_HEAD + cells[p].namlen /\ Used(cells[p]) <= cells[p].reclen
           /\ p + cells[p].reclen <= len
           /\ p + cells[p].reclen \in recs \cup {len}
           /\ \A q \in recs : p < q => q >= p + cells[p].reclen
<1>1. len \in Nat /\ recs \subseteq 0..(len - 1)
  <2>1. PICK c \in 1..MaxChunks : len = c * DIRBLKSIZ
    BY DEF IsDirectory
  <2>2. c \in Nat
    BY Geometry
  <2> QED BY <2>1, <2>2, Geometry DEF IsDirectory
<1>2. /\ cells[p] \in Direct /\ Used(cells[p]) <= cells[p].reclen
      /\ p + cells[p].reclen \in recs \cup {len}
      /\ \A q \in recs : ~(p < q /\ q < p + cells[p].reclen)
  BY DEF IsDirectory
<1>3. cells[p].reclen \in Nat /\ cells[p].namlen \in Nat /\ cells[p].ino \in Nat
  BY <1>2 DEF Direct
<1>4. p \in Nat /\ p < len /\ recs \subseteq Nat
  BY <1>1
<1>5. cells[p].reclen >= DIRECT_HEAD + cells[p].namlen
  BY <1>2, <1>3 DEF Used, DIRECT_HEAD
<1>6. \A q \in recs : p < q => q >= p + cells[p].reclen
  BY <1>2, <1>3, <1>4
<1>7. p + cells[p].reclen <= len
  BY <1>1, <1>2, <1>3, <1>4
<1> QED BY <1>1, <1>2, <1>3, <1>4, <1>5, <1>6, <1>7

(* A record whose inode or name changes but not its length: an entry takes *)
(* over a cleared slot, or a slot is cleared.                              *)
LEMMA Rewritten ==
    ASSUME NEW cells, NEW recs, NEW len, IsDirectory(cells, recs, len), NEW p \in recs,
           NEW new, \A s \in recs \ {p} : new[s] = cells[s],
           new[p] \in Direct, new[p].reclen = cells[p].reclen, Used(new[p]) <= new[p].reclen,
           new[p].ino # 0 => \A s \in recs \ {p} : cells[s].ino # 0 => cells[s].name # new[p].name
    PROVE  IsDirectory(new, recs, len)
<1>1. \A s \in recs : new[s] \in Direct /\ Used(new[s]) <= new[s].reclen /\ new[s].reclen = cells[s].reclen
  BY DEF IsDirectory
<1>2. \A s, t \in recs : new[s].ino # 0 /\ new[t].ino # 0 /\ new[s].name = new[t].name => s = t
  <2> SUFFICES ASSUME NEW s \in recs, NEW t \in recs, s # t,
                      new[s].ino # 0, new[t].ino # 0, new[s].name = new[t].name
               PROVE  FALSE
    OBVIOUS
  <2>1. CASE s = p
    BY <2>1
  <2>2. CASE t = p
    BY <2>2
  <2>3. CASE s # p /\ t # p
    BY <2>3 DEF IsDirectory
  <2> QED BY <2>1, <2>2, <2>3
<1> QED BY <1>1, <1>2 DEF IsDirectory

(* An entry squeezed into the slack behind another.                        *)
LEMMA Split ==
    ASSUME NEW cells, NEW recs, NEW len, IsDirectory(cells, recs, len), NEW p \in recs,
           NEW q \in Nat, p < q, q < p + cells[p].reclen,
           NEW new, \A s \in recs \ {p} : new[s] = cells[s],
           new[p] \in Direct, new[p].reclen = q - p, Used(new[p]) <= q - p,
           new[p].ino = cells[p].ino, new[p].name = cells[p].name,
           new[q] \in Direct, new[q].reclen = cells[p].reclen - (q - p), Used(new[q]) <= new[q].reclen,
           \A s \in recs : cells[s].ino # 0 => cells[s].name # new[q].name
    PROVE  IsDirectory(new, recs \cup {q}, len)
<1> DEFINE R == recs \cup {q}
<1>0. /\ p \in Nat /\ len \in Nat /\ recs \subseteq Nat /\ cells[p].reclen \in Nat
      /\ p + cells[p].reclen <= len /\ p + cells[p].reclen \in recs \cup {len}
      /\ \A s \in recs : p < s => s >= p + cells[p].reclen
  BY RecordFacts
<1>1. q \notin recs /\ q # p
  BY <1>0
<1>2. R \subseteq 0..(len - 1)
  BY <1>0 DEF IsDirectory
<1>3. /\ \E c \in 1..MaxChunks : len = c * DIRBLKSIZ
      /\ \A c \in 0..(MaxChunks - 1) : c * DIRBLKSIZ < len => c * DIRBLKSIZ \in R
  BY DEF IsDirectory
<1>4. ASSUME NEW s \in R
      PROVE  /\ new[s] \in Direct /\ Used(new[s]) <= new[s].reclen
             /\ s + new[s].reclen \in R \cup {len}
             /\ \A t \in R : ~(s < t /\ t < s + new[s].reclen)
  <2>1. CASE s = p
    <3>1. s + new[s].reclen = q
      BY <1>0, <2>1
    <3>2. \A t \in R : ~(p < t /\ t < q)
      BY <1>0
    <3> QED BY <2>1, <3>1, <3>2
  <2>2. CASE s = q
    <3>1. s + new[s].reclen = p + cells[p].reclen
      BY <1>0, <2>2
    <3>2. \A t \in R : ~(q < t /\ t < p + cells[p].reclen)
      BY <1>0
    <3> QED BY <1>0, <2>2, <3>1, <3>2
  <2>3. CASE s \in recs \ {p}
    <3>1. new[s] = cells[s]
      BY <2>3
    <3>2. /\ s \in Nat /\ cells[s] \in Direct /\ cells[s].reclen \in Nat /\ Used(cells[s]) <= cells[s].reclen
          /\ s + cells[s].reclen \in recs \cup {len}
          /\ \A t \in recs : s < t => t >= s + cells[s].reclen
      BY <2>3, RecordFacts
    <3>3. ~(s < q /\ q < s + cells[s].reclen)
      <4> SUFFICES ASSUME s < q, q < s + cells[s].reclen PROVE FALSE
        OBVIOUS
      <4>1. CASE s < p
        BY <1>0, <3>2, <4>1
      <4>2. CASE p < s
        BY <1>0, <2>3, <3>2, <4>2
      <4> QED BY <1>0, <2>3, <3>2, <4>1, <4>2
    <3>4. \A t \in R : ~(s < t /\ t < s + cells[s].reclen)
      BY <1>0, <3>2, <3>3
    <3> QED BY <3>1, <3>2, <3>4
  <2> QED BY <2>1, <2>2, <2>3
<1>5. ASSUME NEW s \in R, NEW t \in R,
             new[s].ino # 0, new[t].ino # 0, new[s].name = new[t].name
      PROVE  s = t
  <2>1. \A r \in recs : new[r].ino = cells[r].ino /\ new[r].name = cells[r].name
    OBVIOUS
  <2>2. CASE s \in recs /\ t \in recs
    BY <1>5, <2>1, <2>2 DEF IsDirectory
  <2>3. CASE s = q /\ t \in recs
    BY <1>5, <2>1, <2>3
  <2>4. CASE t = q /\ s \in recs
    BY <1>5, <2>1, <2>4
  <2> QED BY <2>2, <2>3, <2>4
<1> QED BY <1>2, <1>3, <1>4, <1>5 DEF IsDirectory

(* A record merged into the one before it.                                 *)
LEMMA Merged ==
    ASSUME NEW cells, NEW recs, NEW len, IsDirectory(cells, recs, len),
           NEW p \in recs, NEW prev \in recs, prev < p, p % DIRBLKSIZ # 0,
           \A q \in recs : q < p => prev >= q,
           NEW new, \A s \in recs \ {prev} : new[s] = cells[s],
           new[prev] = [cells[prev] EXCEPT !.reclen = @ + cells[p].reclen]
    PROVE  IsDirectory(new, recs \ {p}, len)
<1> DEFINE R == recs \ {p}
<1>0. /\ p \in Nat /\ len \in Nat /\ recs \subseteq Nat /\ p < len /\ cells[p].reclen \in Nat
      /\ p + cells[p].reclen <= len /\ p + cells[p].reclen \in recs \cup {len}
      /\ \A s \in recs : p < s => s >= p + cells[p].reclen
      /\ cells[p].reclen >= DIRECT_HEAD + cells[p].namlen /\ cells[p].namlen \in Nat
  BY RecordFacts
<1>1. /\ prev \in Nat /\ cells[prev] \in Direct /\ cells[prev].reclen \in Nat /\ cells[prev].namlen \in Nat
      /\ prev + cells[prev].reclen \in recs \cup {len}
      /\ \A s \in recs : prev < s => s >= prev + cells[prev].reclen
      /\ cells[prev].reclen >= DIRECT_HEAD + cells[prev].namlen
  BY RecordFacts
<1>2. cells[p].reclen > 0 /\ cells[prev].reclen > 0
  BY <1>0, <1>1 DEF DIRECT_HEAD
<1>3. prev + cells[prev].reclen = p
  <2>1. prev + cells[prev].reclen <= p
    BY <1>1
  <2>2. prev + cells[prev].reclen \in recs
    BY <1>0, <1>1, <2>1
  <2> QED BY <1>0, <1>1, <1>2, <2>1, <2>2
<1>4. /\ new[prev] \in Direct /\ new[prev].reclen = cells[prev].reclen + cells[p].reclen
      /\ new[prev].namlen = cells[prev].namlen
      /\ new[prev].ino = cells[prev].ino /\ new[prev].name = cells[prev].name
  BY <1>0, <1>1 DEF Direct
<1>5. /\ \E c \in 1..MaxChunks : len = c * DIRBLKSIZ
      /\ R \subseteq 0..(len - 1)
  BY DEF IsDirectory
<1>6. ASSUME NEW c \in 0..(MaxChunks - 1), c * DIRBLKSIZ < len
      PROVE  c * DIRBLKSIZ \in R
  <2>1. c * DIRBLKSIZ \in recs
    BY <1>6 DEF IsDirectory
  <2>2. c \in Nat /\ DIRBLKSIZ \in Nat \ {0}
    BY Geometry DEF DIRECT_HEAD
  <2>3. (c * DIRBLKSIZ) % DIRBLKSIZ = 0
    <3>1. 0 \in 0..(DIRBLKSIZ - 1) /\ c * DIRBLKSIZ + 0 = c * DIRBLKSIZ
      BY <2>2
    <3> QED BY <2>2, <3>1, PositionOf
  <2> QED BY <2>1, <2>3
<1>7. ASSUME NEW s \in R
      PROVE  /\ new[s] \in Direct /\ Used(new[s]) <= new[s].reclen
             /\ s + new[s].reclen \in R \cup {len}
             /\ \A t \in R : ~(s < t /\ t < s + new[s].reclen)
  <2>1. CASE s = prev
    <3>1. prev + new[prev].reclen = p + cells[p].reclen
      BY <1>0, <1>1, <1>3, <1>4
    <3>2. \A t \in R : ~(prev < t /\ t < p + cells[p].reclen)
      BY <1>0, <1>1, <1>3
    <3>3. p + cells[p].reclen \in R \cup {len}
      BY <1>0, <1>2
    <3>4. Used(new[prev]) <= new[prev].reclen
      BY <1>0, <1>1, <1>4 DEF Used, DIRECT_HEAD
    <3> QED BY <1>4, <2>1, <3>1, <3>2, <3>3, <3>4
  <2>2. CASE s # prev
    <3>1. new[s] = cells[s] /\ s \in recs
      BY <2>2
    <3>2. /\ s \in Nat /\ cells[s] \in Direct /\ cells[s].reclen \in Nat /\ Used(cells[s]) <= cells[s].reclen
          /\ s + cells[s].reclen \in recs \cup {len}
          /\ \A t \in recs : s < t => t >= s + cells[s].reclen
      BY <3>1, RecordFacts
    <3>3. s + cells[s].reclen # p
      <4> SUFFICES ASSUME s + cells[s].reclen = p PROVE FALSE
        OBVIOUS
      <4>1. s <= p /\ s # p
        BY <1>0, <3>2
      <4>2. s < prev
        BY <1>1, <2>2, <3>1, <3>2, <4>1
      <4> QED BY <1>1, <3>2, <4>2
    <3> QED BY <1>0, <3>1, <3>2, <3>3
  <2> QED BY <2>1, <2>2
<1>8. ASSUME NEW s \in R, NEW t \in R,
             new[s].ino # 0, new[t].ino # 0, new[s].name = new[t].name
      PROVE  s = t
  <2>1. \A r \in R : new[r].ino = cells[r].ino /\ new[r].name = cells[r].name
    BY <1>4
  <2> QED BY <1>8, <2>1 DEF IsDirectory
<1> QED BY <1>5, <1>6, <1>7, <1>8 DEF IsDirectory

(* A fresh chunk at the end, one record long.                              *)
LEMMA Grown ==
    ASSUME NEW cells, NEW recs, NEW len, IsDirectory(cells, recs, len),
           len < MaxChunks * DIRBLKSIZ,
           NEW new, \A s \in recs : new[s] = cells[s],
           new[len] \in Direct, new[len].reclen = DIRBLKSIZ, Used(new[len]) <= DIRBLKSIZ,
           \A s \in recs : cells[s].ino # 0 => cells[s].name # new[len].name
    PROVE  IsDirectory(new, recs \cup {len}, len + DIRBLKSIZ)
<1> DEFINE R == recs \cup {len}
           end == len + DIRBLKSIZ
<1>1. PICK C \in 1..MaxChunks : len = C * DIRBLKSIZ
  BY DEF IsDirectory
<1>2. C \in Nat /\ C + 1 \in 1..MaxChunks /\ end = (C + 1) * DIRBLKSIZ /\ len \in Nat /\ DIRBLKSIZ \in Nat \ {0}
  BY <1>1, Geometry DEF DIRECT_HEAD
<1>3. \E c \in 1..MaxChunks : end = c * DIRBLKSIZ
  BY <1>2
<1>4. recs \subseteq 0..(len - 1) /\ len \notin recs
  BY <1>2 DEF IsDirectory
<1>5. R \subseteq 0..(end - 1)
  BY <1>2, <1>4
<1>6. ASSUME NEW c \in 0..(MaxChunks - 1), c * DIRBLKSIZ < end
      PROVE  c * DIRBLKSIZ \in R
  <2>1. c \in Nat /\ c * DIRBLKSIZ < (C + 1) * DIRBLKSIZ
    BY <1>2, <1>6, Geometry
  <2>2. c < C + 1
    BY <1>2, <2>1
  <2>3. CASE c = C
    BY <1>1, <2>3
  <2>4. CASE c < C
    <3>1. c * DIRBLKSIZ < len
      BY <1>1, <1>2, <2>1, <2>4
    <3> QED BY <3>1 DEF IsDirectory
  <2> QED BY <1>2, <2>1, <2>2, <2>3, <2>4
<1>7. ASSUME NEW s \in R
      PROVE  /\ new[s] \in Direct /\ Used(new[s]) <= new[s].reclen
             /\ s + new[s].reclen \in R \cup {end}
             /\ \A t \in R : ~(s < t /\ t < s + new[s].reclen)
  <2>1. CASE s = len
    <3>1. \A t \in R : ~(len < t /\ t < len + DIRBLKSIZ)
      BY <1>2, <1>4
    <3> QED BY <2>1, <3>1
  <2>2. CASE s \in recs
    <3>1. new[s] = cells[s]
      BY <2>2
    <3>2. /\ s \in Nat /\ cells[s] \in Direct /\ cells[s].reclen \in Nat /\ Used(cells[s]) <= cells[s].reclen
          /\ s + cells[s].reclen \in recs \cup {len} /\ s + cells[s].reclen <= len
          /\ \A t \in recs : s < t => t >= s + cells[s].reclen
      BY <2>2, RecordFacts
    <3> QED BY <1>2, <3>1, <3>2
  <2> QED BY <2>1, <2>2
<1>8. ASSUME NEW s \in R, NEW t \in R,
             new[s].ino # 0, new[t].ino # 0, new[s].name = new[t].name
      PROVE  s = t
  <2>1. CASE s \in recs /\ t \in recs
    BY <1>8, <2>1 DEF IsDirectory
  <2>2. CASE s = len /\ t \in recs
    BY <1>8, <2>2
  <2>3. CASE t = len /\ s \in recs
    BY <1>8, <2>3
  <2> QED BY <2>1, <2>2, <2>3
<1> HIDE DEF end
<1>9. IsDirectory(new, R, end)
  BY <1>3, <1>5, <1>6, <1>7, <1>8 DEF IsDirectory
<1> QED BY <1>9 DEF end

(* The records lie among the cells of the directory.                       *)
LEMMA StartsInWords ==
    ASSUME LifeInv
    PROVE  /\ size \in Nat /\ size <= MaxChunks * DIRBLKSIZ /\ MaxChunks * DIRBLKSIZ \in Nat
           /\ starts \subseteq Words /\ starts \subseteq Nat
<1>1. PICK c \in 1..MaxChunks : size = c * DIRBLKSIZ
  BY DEF LifeInv, IsDirectory
<1>2. c \in Nat /\ c <= MaxChunks /\ MaxChunks \in Nat /\ DIRBLKSIZ \in Nat
  BY Geometry
<1>3. size \in Nat /\ size <= MaxChunks * DIRBLKSIZ /\ MaxChunks * DIRBLKSIZ \in Nat
  BY <1>1, <1>2
<1>4. starts \subseteq 0..(size - 1)
  BY DEF LifeInv, IsDirectory
<1>5. \A p \in starts : p \in 0..(MaxChunks * DIRBLKSIZ - 1)
  BY <1>3, <1>4
<1> QED BY <1>3, <1>4, <1>5 DEF Words

(* What Write leaves in each cell.                                         *)
LEMMA WriteFacts ==
    ASSUME NEW cells, IsCells(cells), NEW q \in Words, NEW n \in Name, NEW len \in Nat,
           NEW w, w = Write(cells, q, n, len)
    PROVE  /\ IsCells(w)
           /\ w[q] \in Direct /\ w[q].ino = 3 /\ w[q].reclen = len /\ w[q].name = n
           /\ Used(w[q]) = DIRECT_HEAD + 1
           /\ \A x \in Words : x # q /\ x \notin (q + 1)..(q + DIRECT_HEAD) => w[x] = cells[x]
<1> DEFINE rec == [ino |-> 3, reclen |-> len, namlen |-> 1, name |-> n]
<1>1. rec \in Direct /\ rec.ino = 3 /\ rec.reclen = len /\ rec.name = n /\ Used(rec) = DIRECT_HEAD + 1
  BY DEF Direct, Used, DIRECT_HEAD
<1>2. DOMAIN w = Words /\ w[q] = rec
  BY DEF Write
<1>3. \A x \in Words : w[x] \in Direct \cup {Blank}
  BY <1>1 DEF Write, IsCells
<1>4. \A x \in Words : x # q /\ x \notin (q + 1)..(q + DIRECT_HEAD) => w[x] = cells[x]
  BY DEF Write
<1> QED BY <1>1, <1>2, <1>3, <1>4 DEF IsCells

(* A new name keeps the directory well formed, wherever it is put.         *)
LEMMA EnterKeepsLife ==
    ASSUME LifeInv, NEW n \in Name, Enter(n)
    PROVE  LifeInv'
<1> DEFINE fits == { s \in starts : Room(s) >= DIRECT_HEAD + 1 }
           p == Min(fits)
           q == IF disk[p].ino = 0 THEN p ELSE p + Used(disk[p])
<1>0. /\ IsDirectory(disk, starts, size) /\ zeroed = { s \in starts : disk[s].ino = 0 }
      /\ IsCells(disk)
  BY DEF LifeInv, IsCells
<1>1. /\ size \in Nat /\ size <= MaxChunks * DIRBLKSIZ /\ MaxChunks * DIRBLKSIZ \in Nat
      /\ starts \subseteq Words /\ starts \subseteq Nat
  BY StartsInWords
<1>2. \A s \in starts : disk[s].ino # 0 => disk[s].name # n
  BY DEF Enter, Present
<1>3. CASE fits # {}
  <2>1. p \in starts /\ Room(p) >= DIRECT_HEAD + 1
    <3>1. fits \subseteq Nat
      BY <1>1
    <3>2. p \in fits
      BY <1>3, <3>1, MinFacts
    <3> QED BY <3>2
  <2>2. /\ disk' = Write([disk EXCEPT ![p].reclen = q - p], q, n, Room(p))
        /\ starts' = starts \cup {q} /\ zeroed' = zeroed \ {q} /\ size' = size
    BY <1>3 DEF Enter
  <2> HIDE DEF p
  <2>3. /\ p \in Nat /\ p \in Words /\ disk[p] \in Direct /\ disk[p].reclen \in Nat /\ disk[p].namlen \in Nat
        /\ disk[p].ino \in Nat /\ p + disk[p].reclen <= size
        /\ \A s \in starts : p < s => s >= p + disk[p].reclen
        /\ disk[p].reclen >= DIRECT_HEAD + disk[p].namlen
    BY <1>0, <1>1, <2>1, RecordFacts
  <2> DEFINE old == [disk EXCEPT ![p].reclen = q - p]
  <2>4. CASE disk[p].ino = 0
    <3>1. q = p /\ Room(p) = disk[p].reclen /\ q - p = 0
      BY <2>3, <2>4 DEF Room
    <3>2. starts' = starts /\ disk' = Write(old, p, n, disk[p].reclen)
      BY <2>1, <2>2, <3>1
    <3>3. IsCells(old)
      BY <1>0, <2>3, <3>1 DEF Direct, IsCells
    <3>4. \A x \in Words \ {p} : old[x] = disk[x]
      BY <1>0 DEF IsCells
    <3> HIDE DEF old
    <3>5. PICK w : w = Write(old, p, n, disk[p].reclen)
      OBVIOUS
    <3>6. /\ IsCells(w)
          /\ w[p] \in Direct /\ w[p].ino = 3 /\ w[p].reclen = disk[p].reclen /\ w[p].name = n
          /\ Used(w[p]) = DIRECT_HEAD + 1
          /\ \A x \in Words : x # p /\ x \notin (p + 1)..(p + DIRECT_HEAD) => w[x] = old[x]
      <4>1. p \in Words /\ disk[p].reclen \in Nat
        BY <2>3
      <4> HIDE DEF q
      <4> QED BY <3>3, <3>5, <4>1, WriteFacts
    <3>7. \A s \in starts \ {p} : w[s] = disk[s]
      <4> TAKE s \in starts \ {p}
      <4>1. s \in Nat /\ s \in Words
        BY <1>1
      <4>2. s \notin (p + 1)..(p + DIRECT_HEAD)
        BY <2>1, <2>3, <3>1, <4>1 DEF DIRECT_HEAD
      <4> QED BY <3>4, <3>6, <4>1, <4>2
    <3>8. Used(w[p]) <= w[p].reclen
      BY <2>1, <3>1, <3>6
    <3>9. IsDirectory(w, starts, size)
      BY <1>0, <1>2, <2>1, <3>6, <3>7, <3>8, Rewritten
    <3>10. zeroed \ {p} = { s \in starts : w[s].ino = 0 }
      BY <1>0, <2>1, <3>6, <3>7
    <3> QED BY <2>2, <3>1, <3>2, <3>5, <3>6, <3>9, <3>10 DEF LifeInv, IsCells
  <2>5. CASE disk[p].ino # 0
    <3>1. /\ q = p + Used(disk[p]) /\ Room(p) = disk[p].reclen - Used(disk[p])
          /\ Used(disk[p]) = DIRECT_HEAD + disk[p].namlen
      BY <2>5 DEF Room, Used
    <3> HIDE DEF q
    <3>2. /\ q \in Nat /\ q - p = Used(disk[p]) /\ q - p \in Nat /\ p < q
          /\ q + Room(p) = p + disk[p].reclen /\ Room(p) \in Nat
          /\ q + DIRECT_HEAD + 1 <= p + disk[p].reclen /\ q < p + disk[p].reclen
          /\ Room(p) = disk[p].reclen - (q - p)
      BY <2>1, <2>3, <3>1 DEF DIRECT_HEAD
    <3>3. q \in Words
      BY <1>1, <2>3, <3>2 DEF Words
    <3>4. /\ DOMAIN old = Words /\ old[p] = [disk[p] EXCEPT !.reclen = q - p]
          /\ \A x \in Words \ {p} : old[x] = disk[x]
      BY <1>0, <2>3 DEF IsCells
    <3>5. /\ old[p] \in Direct /\ old[p].reclen = q - p /\ Used(old[p]) <= q - p
          /\ old[p].ino = disk[p].ino /\ old[p].name = disk[p].name
      BY <2>3, <3>2, <3>4 DEF Direct, Used
    <3>6. IsCells(old)
      BY <1>0, <3>4, <3>5 DEF IsCells
    <3> HIDE DEF old
    <3>7. PICK w : w = Write(old, q, n, Room(p))
      OBVIOUS
    <3>8. PICK room \in Nat : room = Room(p)
      BY <3>2
    <3>9. /\ IsCells(w)
          /\ w[q] \in Direct /\ w[q].ino = 3 /\ w[q].reclen = room /\ w[q].name = n
          /\ Used(w[q]) = DIRECT_HEAD + 1
          /\ \A x \in Words : x # q /\ x \notin (q + 1)..(q + DIRECT_HEAD) => w[x] = old[x]
      BY <3>3, <3>6, <3>7, <3>8, WriteFacts
    <3>10. \A s \in starts : w[s] = old[s]
      <4> TAKE s \in starts
      <4>1. s \in Nat /\ s \in Words
        BY <1>1
      <4>2. s # q /\ s \notin (q + 1)..(q + DIRECT_HEAD)
        BY <2>3, <3>2, <4>1 DEF DIRECT_HEAD
      <4> QED BY <3>9, <4>1, <4>2
    <3>11. \A s \in starts \ {p} : w[s] = disk[s]
      BY <1>1, <3>4, <3>10
    <3>12. w[p] = old[p]
      BY <2>1, <3>10
    <3>13. Used(w[q]) <= w[q].reclen /\ w[q].reclen = disk[p].reclen - (q - p)
      BY <2>1, <3>2, <3>8, <3>9
    <3>14. \A s \in starts : disk[s].ino # 0 => disk[s].name # w[q].name
      BY <1>2, <3>9
    <3>15. IsDirectory(w, starts \cup {q}, size)
      <4>1. /\ w[p] \in Direct /\ w[p].reclen = q - p /\ Used(w[p]) <= q - p
            /\ w[p].ino = disk[p].ino /\ w[p].name = disk[p].name
        BY <3>5, <3>12
      <4>2. /\ w[q] \in Direct /\ w[q].reclen = disk[p].reclen - (q - p) /\ Used(w[q]) <= w[q].reclen
            /\ q \in Nat /\ p < q /\ q < p + disk[p].reclen
        BY <3>2, <3>9, <3>13
      <4>3. IsDirectory(disk, starts, size) /\ p \in starts
        BY <1>0, <2>1
      <4> QED BY <3>11, <3>14, <4>1, <4>2, <4>3, Split
    <3>16. zeroed \ {q} = { s \in starts \cup {q} : w[s].ino = 0 }
      BY <1>0, <2>5, <3>5, <3>9, <3>11, <3>12
    <3> QED BY <2>2, <3>7, <3>9, <3>15, <3>16 DEF LifeInv, IsCells, old
  <2> QED BY <2>4, <2>5
<1>4. CASE fits = {}
  <2>1. /\ size < MaxChunks * DIRBLKSIZ
        /\ disk' = Write(disk, size, n, DIRBLKSIZ)
        /\ starts' = starts \cup {size} /\ size' = size + DIRBLKSIZ /\ zeroed' = zeroed
    BY <1>4 DEF Enter
  <2>2. size \in Words /\ DIRBLKSIZ \in Nat
    BY <1>1, <2>1, Geometry DEF Words
  <2>3. PICK w : w = Write(disk, size, n, DIRBLKSIZ)
    OBVIOUS
  <2>4. /\ IsCells(w)
        /\ w[size] \in Direct /\ w[size].ino = 3 /\ w[size].reclen = DIRBLKSIZ /\ w[size].name = n
        /\ Used(w[size]) = DIRECT_HEAD + 1
        /\ \A x \in Words : x # size /\ x \notin (size + 1)..(size + DIRECT_HEAD) => w[x] = disk[x]
    BY <1>0, <2>2, <2>3, WriteFacts
  <2>5. \A s \in starts : w[s] = disk[s] /\ s # size
    <3> TAKE s \in starts
    <3>1. s \in Nat /\ s \in Words /\ s < size
      BY <1>0, <1>1, RecordFacts
    <3> QED BY <1>1, <2>4, <3>1
  <2>6. Used(w[size]) <= DIRBLKSIZ
    BY <2>4, Geometry
  <2>7. \A s \in starts : disk[s].ino # 0 => disk[s].name # w[size].name
    BY <1>2, <2>4
  <2>8. IsDirectory(w, starts \cup {size}, size + DIRBLKSIZ)
    BY <1>0, <2>1, <2>4, <2>5, <2>6, <2>7, Grown
  <2>9. zeroed = { s \in starts \cup {size} : w[s].ino = 0 }
    BY <1>0, <2>4, <2>5
  <2> QED BY <2>1, <2>3, <2>4, <2>8, <2>9 DEF LifeInv, IsCells
<1> QED BY <1>3, <1>4

(* Removing an entry keeps the directory well formed, whether its slot is  *)
(* cleared or given to the record before it.                               *)
LEMMA UnlinkKeepsLife ==
    ASSUME LifeInv, NEW p \in starts, Unlink(p)
    PROVE  LifeInv'
<1>0. /\ IsDirectory(disk, starts, size) /\ zeroed = { s \in starts : disk[s].ino = 0 }
      /\ IsCells(disk)
  BY DEF LifeInv, IsCells
<1>1. /\ size \in Nat /\ size <= MaxChunks * DIRBLKSIZ /\ MaxChunks * DIRBLKSIZ \in Nat
      /\ starts \subseteq Words /\ starts \subseteq Nat
  BY StartsInWords
<1>2. /\ p \in Nat /\ p \in Words /\ disk[p] \in Direct /\ disk[p].reclen \in Nat
      /\ Used(disk[p]) <= disk[p].reclen /\ disk[p].ino # 0
  BY <1>0, <1>1, RecordFacts DEF Unlink
<1>3. CASE p % DIRBLKSIZ = 0
  <2>1. /\ disk' = [disk EXCEPT ![p].ino = 0] /\ zeroed' = zeroed \cup {p}
        /\ starts' = starts /\ size' = size
    BY <1>3 DEF Unlink
  <2>2. PICK w : w = [disk EXCEPT ![p].ino = 0]
    OBVIOUS
  <2>3. /\ DOMAIN w = Words /\ w[p] = [disk[p] EXCEPT !.ino = 0]
        /\ \A x \in Words \ {p} : w[x] = disk[x]
    BY <1>0, <1>2, <2>2 DEF IsCells
  <2>4. /\ w[p] \in Direct /\ w[p].reclen = disk[p].reclen /\ Used(w[p]) <= w[p].reclen
        /\ w[p].ino = 0
    BY <1>2, <2>3 DEF Direct, Used
  <2>5. \A s \in starts \ {p} : w[s] = disk[s]
    BY <1>1, <2>3
  <2>6. IsDirectory(w, starts, size)
    BY <1>0, <2>4, <2>5, Rewritten
  <2>7. IsCells(w)
    BY <1>0, <2>3, <2>4 DEF IsCells
  <2>8. zeroed \cup {p} = { s \in starts : w[s].ino = 0 }
    BY <1>0, <2>4, <2>5
  <2> QED BY <2>1, <2>2, <2>6, <2>7, <2>8 DEF LifeInv, IsCells
<1>4. CASE p % DIRBLKSIZ # 0
  <2> DEFINE before == { q \in starts : q < p }
             prev == Max(before)
  <2>1. /\ disk' = [disk EXCEPT ![prev].reclen = @ + disk[p].reclen]
        /\ starts' = starts \ {p} /\ zeroed' = zeroed /\ size' = size
    BY <1>4 DEF Unlink
  <2>2. 0 \in before
    <3>1. 0 \in starts
      <4>1. 0 \in 0..(MaxChunks - 1) /\ 0 * DIRBLKSIZ = 0 /\ 0 < size
        BY <1>0, <1>1, <1>2, Geometry, RecordFacts
      <4> QED BY <1>0, <4>1 DEF IsDirectory
    <3>2. p # 0
      BY <1>4, Geometry DEF DIRECT_HEAD
    <3> QED BY <1>2, <3>1, <3>2
  <2>3. before \subseteq Nat /\ \A x \in before : x <= p
    <3>1. ASSUME NEW x \in before PROVE x \in Nat /\ x <= p
      BY <1>1, <1>2
    <3> QED BY <3>1
  <2>4. prev \in before /\ \A y \in before : prev >= y
    <3> HIDE DEF before
    <3> QED BY <1>2, <2>2, <2>3, MaxFacts
  <2>5. prev \in starts /\ prev < p /\ \A q \in starts : q < p => prev >= q
    BY <2>4
  <2> HIDE DEF prev
  <2>6. /\ prev \in Nat /\ prev \in Words /\ disk[prev] \in Direct /\ disk[prev].reclen \in Nat
    BY <1>0, <1>1, <2>5, RecordFacts
  <2>7. PICK w : w = [disk EXCEPT ![prev].reclen = @ + disk[p].reclen]
    OBVIOUS
  <2>8. /\ DOMAIN w = Words /\ w[prev] = [disk[prev] EXCEPT !.reclen = @ + disk[p].reclen]
        /\ \A x \in Words \ {prev} : w[x] = disk[x]
    BY <1>0, <2>6, <2>7 DEF IsCells
  <2>9. w[prev] \in Direct /\ w[prev].ino = disk[prev].ino
    BY <1>2, <2>6, <2>8 DEF Direct
  <2>10. \A s \in starts \ {prev} : w[s] = disk[s]
    BY <1>1, <2>8
  <2>11. IsDirectory(w, starts \ {p}, size)
    BY <1>0, <1>4, <2>5, <2>8, <2>10, Merged
  <2>12. IsCells(w)
    BY <1>0, <2>8, <2>9 DEF IsCells
  <2>13. zeroed = { s \in starts \ {p} : w[s].ino = 0 }
    BY <1>0, <1>2, <2>9, <2>10
  <2> QED BY <2>1, <2>7, <2>11, <2>12, <2>13 DEF LifeInv, IsCells
<1> QED BY <1>3, <1>4

-----------------------------------------------------------------------------
(* The walk.                                                               *)

(* What is left of the size when a block of it has been dealt with.        *)
LEMMA RestOfSize ==
    ASSUME NEW s \in Nat, NEW w \in Nat \ {0}, NEW i \in Nat
    PROVE  /\ SatSub(s, i * w) \in Nat
           /\ SatSub(SatSub(s, i * w), w) = SatSub(s, (i + 1) * w)
           /\ SatSub(s, i * w) = 0 <=> s <= i * w
           /\ SatSub(s, i * w) > 0 => s = i * w + SatSub(s, i * w)
           /\ i * w \in Nat /\ (i + 1) * w = i * w + w
<1>1. i * w \in Nat /\ (i + 1) * w = i * w + w
  OBVIOUS
<1> DEFINE a == i * w
<1> HIDE DEF a
<1>2. a \in Nat
  BY <1>1 DEF a
<1>3. /\ SatSub(s, a) \in Nat /\ SatSub(SatSub(s, a), w) = SatSub(s, a + w)
      /\ SatSub(s, a) = 0 <=> s <= a
      /\ SatSub(s, a) > 0 => s = a + SatSub(s, a)
  BY <1>2 DEF SatSub
<1> QED BY <1>1, <1>3 DEF a

(* The damage spares a sound block.                                        *)
LEMMA SoundFacts ==
    ASSUME damage \in Damage, NEW i \in SoundBlocks
    PROVE  /\ i \in Nat /\ i < UFS_NDADDR
           /\ damage.kind # "size" /\ di_size = size
           /\ damage.kind \in {"reclen", "namlen"} => damage.at \div bsize # i
           /\ damage.kind \in {"hole", "cut"} => damage.at # i
<1>1. i \in 0..(UFS_NDADDR - 1) /\ i \notin Damaged
  BY DEF SoundBlocks
<1>2. i \in Nat /\ i < UFS_NDADDR
  BY <1>1, Geometry
<1>3. damage.kind \in {"none", "reclen", "namlen", "size", "hole", "cut"}
  BY DEF Damage
<1>4. damage.kind # "size"
  BY <1>1, <1>2 DEF Damaged
<1>5. damage.kind \in {"reclen", "namlen"} => damage.at \div bsize # i
  BY <1>1 DEF Damaged
<1>6. damage.kind \in {"hole", "cut"} => damage.at # i
  BY <1>1 DEF Damaged
<1> QED BY <1>2, <1>4, <1>5, <1>6 DEF di_size

(* A head decodes to a head, whatever the damage.                          *)
LEMMA DecodedType ==
    ASSUME LifeInv, damage \in Damage, NEW p, NEW h \in Decoded(p)
    PROVE  h \in Direct
<1>1. CASE p \notin Words \/ disk[p] = Blank
  BY <1>1, DirAssumption DEF Decoded
<1>2. CASE p \in Words /\ disk[p] # Blank
  <2>1. disk[p] \in Direct
    BY <1>2 DEF LifeInv, IsCells
  <2>2. damage.value \in Nat
    BY DEF Damage
  <2>3. h \in {[disk[p] EXCEPT !.reclen = damage.value], [disk[p] EXCEPT !.namlen = damage.value], disk[p]}
    BY <1>2 DEF Decoded
  <2> QED BY <2>1, <2>2, <2>3 DEF Direct
<1> QED BY <1>1, <1>2

(* A record of a sound block decodes to what is stored.                    *)
LEMMA SoundDecodes ==
    ASSUME LifeInv, damage \in Damage, NEW p \in starts, (p \div bsize) \in SoundBlocks
    PROVE  Decoded(p) = {disk[p]}
<1>1. p \in Words /\ disk[p] \in Direct
  BY StartsInWords DEF LifeInv, IsDirectory
<1>2. disk[p] # Blank
  <2>1. ASSUME NEW d \in Direct PROVE "ino" \in DOMAIN d
    BY DEF Direct
  <2>2. "ino" \notin DOMAIN Blank
    BY DEF Blank
  <2> QED BY <1>1, <2>1, <2>2
<1>3. ~(damage.kind \in {"reclen", "namlen"} /\ damage.at = p)
  BY SoundFacts
<1> QED BY <1>1, <1>2, <1>3 DEF Decoded

(* Every block of the directory begins with a record.                      *)
LEMMA BlockStarts ==
    ASSUME LifeInv, NEW i \in Nat, i * bsize < size
    PROVE  i * bsize \in starts
<1>1. PICK c \in 1..MaxChunks : size = c * DIRBLKSIZ
  BY DEF LifeInv, IsDirectory
<1> DEFINE d == i * ChunksPerBlock
<1>2. d \in Nat /\ d * DIRBLKSIZ = i * bsize /\ c \in Nat /\ DIRBLKSIZ \in Nat /\ c <= MaxChunks
  <2>1. i \in Nat /\ ChunksPerBlock \in Nat /\ DIRBLKSIZ \in Nat /\ bsize = ChunksPerBlock * DIRBLKSIZ
    BY Geometry
  <2>2. \A a, b, e \in Nat : (a * b) * e = a * (b * e)
    OBVIOUS
  <2> QED BY <2>1, <2>2, Geometry
<1>3. d * DIRBLKSIZ < c * DIRBLKSIZ
  BY <1>1, <1>2
<1> HIDE DEF d
<1>4. d < c
  <2>1. \A a, b, e \in Nat : a * e < b * e => a < b
    OBVIOUS
  <2> QED BY <1>2, <1>3, <2>1
<1>5. d \in 0..(MaxChunks - 1)
  BY <1>2, <1>4, Geometry
<1> QED BY <1>2, <1>5 DEF LifeInv, IsDirectory

WalkPart == WalkPosition /\ SlotsBehind /\ OnChain /\ ListedAsStored /\ StoredAreListed

(* The walk reads the image and never writes it.                           *)
LEMMA SameImage ==
    ASSUME UNCHANGED <<dirVars, damage>>
    PROVE  /\ di_size' = di_size /\ SoundBlocks' = SoundBlocks
           /\ disk' = disk /\ starts' = starts /\ size' = size /\ damage' = damage
       BY DEF dirVars, di_size, SoundBlocks, Damaged

(* The types the walk's arithmetic needs.                                  *)
LEMMA WalkTypes ==
    ASSUME LifeInv, WalkPosition
    PROVE  /\ di_size \in Nat /\ size \in Nat /\ starts \subseteq Nat
           /\ k \in Nat /\ bsize \in Nat \ {0} /\ k * bsize \in Nat
           /\ remaining \in Nat /\ blen \in Nat /\ off \in Nat
           /\ \A p \in starts : p < size
<1>1. damage.value \in Nat
  BY DEF WalkPosition, Damage
<1>2. \A p \in starts : p < size
  BY RecordFacts DEF LifeInv
<1>3. k * bsize \in Nat
  BY Geometry DEF WalkPosition
<1> QED BY <1>1, <1>2, <1>3, StartsInWords, Geometry DEF WalkPosition, di_size

(* list_dir_entries returns at the end of the size or of the pointers.     *)
LEMMA ListEndKeeps ==
    ASSUME LifeInv, WalkPart, ListEnd
    PROVE  WalkPart'
<1>1. /\ pc = "next" /\ pc' = "done" /\ UNCHANGED <<dirVars, damage, k, remaining, blen, off, entries>>
      /\ remaining = 0 \/ k >= UFS_NDADDR
  BY DEF ListEnd
<1>2. /\ di_size' = di_size /\ SoundBlocks' = SoundBlocks
      /\ disk' = disk /\ starts' = starts /\ size' = size /\ damage' = damage
  BY <1>1, SameImage
<1>3. WalkPosition'
  BY <1>1, <1>2 DEF WalkPart, WalkPosition
<1>4. SlotsBehind'
  BY <1>1, <1>2 DEF WalkPart, SlotsBehind
<1>5. OnChain' /\ ListedAsStored'
  BY <1>1, <1>2 DEF WalkPart, OnChain, ListedAsStored
<1>6. StoredAreListed'
  <2> SUFFICES ASSUME NEW p \in starts, (p \div bsize) \in SoundBlocks
               PROVE  \E i \in DOMAIN entries : entries[i].pos = p
    BY <1>1, <1>2 DEF StoredAreListed
  <2>1. /\ di_size \in Nat /\ size \in Nat /\ p \in Nat /\ p < size
        /\ k \in Nat /\ bsize \in Nat \ {0}
    BY WalkTypes DEF WalkPart
  <2>2. p \div bsize < UFS_NDADDR /\ p \div bsize \in Nat /\ di_size = size
    BY SoundFacts DEF WalkPart, WalkPosition
  <2>3. CASE k >= UFS_NDADDR
    <3>1. p \div bsize < k
      BY <2>1, <2>2, <2>3, Geometry
    <3> QED BY <1>1, <3>1 DEF WalkPart, StoredAreListed, Passed
  <2>4. CASE remaining = 0
    <3>1. SatSub(di_size, k * bsize) = 0
      BY <1>1, <2>4 DEF WalkPart, WalkPosition
    <3>2. size <= k * bsize /\ k * bsize \in Nat
      BY <2>1, <2>2, <3>1, RestOfSize
    <3>3. p < k * bsize
      BY <2>1, <3>2
    <3>4. p \div bsize < k
      BY <2>1, <3>3, GroupRange
    <3> QED BY <1>1, <3>4 DEF WalkPart, StoredAreListed, Passed
  <2> QED BY <1>1, <2>3, <2>4
<1> QED BY <1>3, <1>4, <1>5, <1>6 DEF WalkPart

(* A hole holds no record of the directory that it could hide, unless the  *)
(* damage is the hole.                                                     *)
LEMMA HoleKeeps ==
    ASSUME LifeInv, WalkPart, Hole
    PROVE  WalkPart'
<1>1. /\ pc = "next" /\ pc' = "next" /\ k' = k + 1 /\ remaining' = SatSub(remaining, bsize)
      /\ UNCHANGED <<dirVars, damage, blen, off, entries>> /\ ~Mapped(k) /\ k < UFS_NDADDR
  BY DEF Hole
<1>2. /\ di_size' = di_size /\ SoundBlocks' = SoundBlocks
      /\ disk' = disk /\ starts' = starts /\ size' = size /\ damage' = damage
  BY <1>1, SameImage
<1>3. /\ di_size \in Nat /\ size \in Nat /\ starts \subseteq Nat
      /\ k \in Nat /\ bsize \in Nat \ {0} /\ k * bsize \in Nat
      /\ \A p \in starts : p < size
  BY WalkTypes DEF WalkPart
<1>4. /\ SatSub(di_size, k * bsize) \in Nat
      /\ SatSub(SatSub(di_size, k * bsize), bsize) = SatSub(di_size, (k + 1) * bsize)
      /\ (k + 1) * bsize = k * bsize + bsize
  BY <1>3, RestOfSize
<1>5. remaining = SatSub(di_size, k * bsize)
  BY <1>1 DEF WalkPart, WalkPosition
<1>6. remaining' = SatSub(di_size, (k + 1) * bsize) /\ remaining' \in Nat /\ k + 1 \in Nat
  <2>1. k + 1 \in Nat
    BY <1>3
  <2>2. SatSub(di_size, (k + 1) * bsize) \in Nat
    BY <1>3, <2>1, RestOfSize
  <2> QED BY <1>1, <1>4, <1>5, <2>1, <2>2
<1>7. WalkPosition'
  BY <1>1, <1>2, <1>6 DEF WalkPart, WalkPosition
<1>8. SlotsBehind'
  <2>1. ASSUME NEW i \in DOMAIN entries, entries[i].pos + DIRECT_HEAD <= k * bsize, SlotOk(entries[i], di_size)
        PROVE  entries[i].pos + DIRECT_HEAD <= (k + 1) * bsize
    BY <1>3, <1>4, <2>1 DEF SlotOk, DIRECT_HEAD
  <2> QED BY <1>1, <1>2, <2>1 DEF WalkPart, SlotsBehind
<1>9. OnChain' /\ ListedAsStored'
  BY <1>1, <1>2 DEF WalkPart, OnChain, ListedAsStored
<1>10. StoredAreListed'
  <2> SUFFICES ASSUME NEW p \in starts, (p \div bsize) \in SoundBlocks, p \div bsize < k + 1
               PROVE  \E i \in DOMAIN entries : entries[i].pos = p
    BY <1>1, <1>2 DEF StoredAreListed, Passed
  <2>1. p \in Nat /\ p < size /\ p \div bsize \in Nat
    BY <1>3, SoundFacts DEF WalkPart, WalkPosition
  <2>2. p \div bsize # k
    <3> SUFFICES ASSUME p \div bsize = k PROVE FALSE
      OBVIOUS
    <3>1. k * bsize <= p
      BY <1>3, <2>1, GroupRange
    <3>2. k * bsize < size
      BY <1>3, <2>1, <3>1
    <3>3. damage.kind = "hole" /\ damage.at = k
      BY <1>1, <3>2 DEF Mapped
    <3> QED BY <3>3, SoundFacts DEF WalkPart, WalkPosition
  <2>3. p \div bsize < k
    BY <1>3, <2>1, <2>2
  <2> QED BY <1>1, <2>3 DEF WalkPart, StoredAreListed, Passed
<1> QED BY <1>7, <1>8, <1>9, <1>10 DEF WalkPart

(* A block is entered at the record it begins with.                        *)
LEMMA EnterBlockKeeps ==
    ASSUME LifeInv, WalkPart, EnterBlock
    PROVE  WalkPart'
<1> DEFINE want == Least(remaining, bsize)
<1>1. /\ pc = "next" /\ pc' = "block" /\ k < UFS_NDADDR /\ remaining > 0 /\ Mapped(k) /\ off' = 0
      /\ blen' = (IF damage.kind = "cut" /\ damage.at = k THEN Least(want, damage.value) ELSE want)
      /\ UNCHANGED <<dirVars, damage, k, remaining, entries>>
  BY DEF EnterBlock
<1>2. /\ di_size' = di_size /\ SoundBlocks' = SoundBlocks
      /\ disk' = disk /\ starts' = starts /\ size' = size /\ damage' = damage
  BY <1>1, SameImage
<1>3. /\ di_size \in Nat /\ size \in Nat /\ starts \subseteq Nat
      /\ k \in Nat /\ bsize \in Nat \ {0} /\ k * bsize \in Nat /\ remaining \in Nat
      /\ \A p \in starts : p < size
  BY WalkTypes DEF WalkPart
<1>4. damage.value \in Nat /\ damage \in Damage
  BY DEF WalkPart, WalkPosition, Damage
<1>5. remaining = SatSub(di_size, k * bsize) /\ di_size = k * bsize + remaining
  <2>1. remaining = SatSub(di_size, k * bsize)
    BY <1>1 DEF WalkPart, WalkPosition
  <2> QED BY <1>1, <1>3, <2>1, RestOfSize
<1>6. want \in Nat /\ want <= remaining /\ want <= bsize
  BY <1>3 DEF Least
<1>7. blen' \in Nat /\ blen' <= want
  <2> HIDE DEF want
  <2> QED BY <1>1, <1>4, <1>6 DEF Least
<1>8. blen' \in Nat /\ blen' <= bsize /\ k * bsize + blen' <= di_size
  <2> HIDE DEF want
  <2> QED BY <1>3, <1>5, <1>6, <1>7
<1>9. WalkPosition'
  BY <1>1, <1>2, <1>8 DEF WalkPart, WalkPosition
<1>10. SlotsBehind'
  <2>1. ASSUME NEW i \in DOMAIN entries, entries[i].pos + DIRECT_HEAD <= k * bsize, SlotOk(entries[i], di_size)
        PROVE  /\ entries[i].pos + DIRECT_HEAD <= k * bsize + off'
               /\ entries[i].pos + DIRECT_HEAD <= k * bsize + blen'
    <3>1. PICK b \in Nat : b = blen'
      BY <1>7
    <3>2. entries[i].pos + DIRECT_HEAD <= k * bsize + b
      BY <1>3, <2>1 DEF SlotOk, DIRECT_HEAD
    <3> QED BY <1>1, <1>3, <2>1, <3>1, <3>2
  <2> QED BY <1>1, <1>2, <2>1 DEF WalkPart, SlotsBehind
<1>11. OnChain'
  <2> SUFFICES ASSUME k \in SoundBlocks
               PROVE  /\ k * bsize < size /\ blen' = Least(size - k * bsize, bsize)
                      /\ 0 <= blen' /\ k * bsize + 0 \in starts
    BY <1>1, <1>2 DEF OnChain
  <2>1. di_size = size /\ ~(damage.kind = "cut" /\ damage.at = k)
    BY <1>4, SoundFacts
  <2>2. k * bsize < size /\ size - k * bsize = remaining
    <3>1. PICK a \in Nat : a = k * bsize
      BY <1>3
    <3>2. size = a + remaining
      BY <1>5, <2>1, <3>1
    <3>3. a < size /\ size - a = remaining
      BY <1>1, <1>3, <3>2
    <3> QED BY <3>1, <3>3
  <2>3. k * bsize \in starts
    BY <1>3, <2>2, BlockStarts
  <2> QED BY <1>1, <1>3, <1>7, <2>1, <2>2, <2>3
<1>12. ListedAsStored'
  BY <1>1, <1>2 DEF WalkPart, ListedAsStored
<1>13. StoredAreListed'
  <2> SUFFICES ASSUME NEW p \in starts, (p \div bsize) \in SoundBlocks,
                      p \div bsize < k \/ (p \div bsize = k /\ p < k * bsize + 0)
               PROVE  \E i \in DOMAIN entries : entries[i].pos = p
    BY <1>1, <1>2 DEF StoredAreListed, Passed
  <2>1. p \in Nat
    BY <1>3
  <2>2. p \div bsize < k
    BY <1>3, <2>1, GroupRange
  <2> QED BY <1>1, <2>2 DEF WalkPart, StoredAreListed, Passed
<1> QED BY <1>9, <1>10, <1>11, <1>12, <1>13 DEF WalkPart

(* From a record of a sound block the walk steps to the next one, or to    *)
(* the end of the block, and never beyond.                                 *)
LEMMA ChainStep ==
    ASSUME LifeInv, WalkPart, pc = "block", k \in SoundBlocks, off < blen
    PROVE  LET p == k * bsize + off
           IN  /\ p \in starts /\ p \div bsize = k
               /\ disk[p].reclen \in Nat /\ disk[p].namlen \in Nat
               /\ DIRECT_HEAD + disk[p].namlen <= disk[p].reclen
               /\ off + disk[p].reclen <= blen
               /\ off + disk[p].reclen < blen => p + disk[p].reclen \in starts
               /\ \A s \in starts : p < s => s >= p + disk[p].reclen
<1> DEFINE p == k * bsize + off
           end == k * bsize + blen
<1>1. /\ size \in Nat /\ starts \subseteq Nat /\ k \in Nat /\ bsize \in Nat \ {0} /\ k * bsize \in Nat
      /\ blen \in Nat /\ off \in Nat
      /\ \A s \in starts : s < size
  BY WalkTypes DEF WalkPart
<1>2. /\ k * bsize < size /\ blen = Least(size - k * bsize, bsize) /\ p \in starts
  BY DEF WalkPart, OnChain
<1>3. blen <= bsize /\ end <= size /\ (end = size \/ blen = bsize)
  BY <1>1, <1>2 DEF Least
<1>4. /\ p \in Nat /\ p < end /\ end \in Nat
      /\ off + disk[p].reclen = p + disk[p].reclen - k * bsize
  <2>1. PICK r \in Nat : r = disk[p].reclen
    BY <1>2, RecordFacts DEF LifeInv
  <2>2. PICK a \in Nat : a = k * bsize
    BY <1>1
  <2>3. a + off \in Nat /\ a + off < a + blen /\ a + blen \in Nat /\ off + r = a + off + r - a
    BY <1>1
  <2> QED BY <2>1, <2>2, <2>3
<1>5. p \div bsize = k
  <2>1. k * bsize <= p /\ p < (k + 1) * bsize
    BY <1>1, <1>3
  <2> QED BY <1>1, <1>4, <2>1, GroupRange
<1>6. end \in starts \cup {size}
  <2>1. CASE blen = bsize /\ end # size
    <3>1. k + 1 \in Nat /\ end = (k + 1) * bsize /\ (k + 1) * bsize < size
      BY <1>1, <1>3, <1>4, <2>1
    <3> QED BY <3>1, BlockStarts
  <2> QED BY <1>3, <2>1
<1> HIDE DEF end, p
<1>7. /\ disk[p].reclen \in Nat /\ disk[p].namlen \in Nat
      /\ DIRECT_HEAD + disk[p].namlen <= disk[p].reclen
      /\ p + disk[p].reclen \in starts \cup {size} /\ p + disk[p].reclen <= size
      /\ \A s \in starts : p < s => s >= p + disk[p].reclen
  BY <1>2, RecordFacts DEF LifeInv, DIRECT_HEAD
<1>8. p + disk[p].reclen <= end
  BY <1>1, <1>4, <1>6, <1>7
<1>9. off + disk[p].reclen <= blen
  BY <1>1, <1>4, <1>7, <1>8 DEF end
<1>10. off + disk[p].reclen < blen => p + disk[p].reclen \in starts
  <2> SUFFICES ASSUME off + disk[p].reclen < blen PROVE p + disk[p].reclen # size
    BY <1>7
  <2>1. p + disk[p].reclen < end
    BY <1>1, <1>4, <1>7 DEF end, p
  <2> QED BY <1>1, <1>3, <1>4, <1>7, <2>1
<1> QED BY <1>2, <1>5, <1>7, <1>9, <1>10 DEF p

(* What walk_block pushes for the head h at the cursor.                    *)
Pushed(h) ==
    [ pos |-> k * bsize + off, ino |-> h.ino, reclen |-> h.reclen,
      name |-> h.name, len |-> NameEnd(h) - (off + DIRECT_HEAD) ]

(* The slot pushed lies inside its record, the block and the size,         *)
(* whatever the head says.                                                 *)
LEMMA PushedOk ==
    ASSUME LifeInv, WalkPart, pc = "block", off + DIRECT_HEAD <= blen,
           NEW h \in Direct, h.reclen >= DIRECT_HEAD
    PROVE  /\ SlotOk(Pushed(h), di_size)
           /\ Pushed(h).pos = k * bsize + off
           /\ Pushed(h).ino = h.ino /\ Pushed(h).name = h.name /\ Pushed(h).reclen = h.reclen
           /\ Pushed(h).len = NameEnd(h) - (off + DIRECT_HEAD)
           /\ Pushed(h).len <= h.namlen
<1>1. /\ di_size \in Nat /\ k \in Nat /\ bsize \in Nat \ {0} /\ k * bsize \in Nat
      /\ blen \in Nat /\ off \in Nat
  BY WalkTypes DEF WalkPart
<1>2. blen <= bsize /\ k * bsize + blen <= di_size
  BY DEF WalkPart, WalkPosition
<1>3. h.ino \in Nat /\ h.reclen \in Nat /\ h.namlen \in Nat
  BY DEF Direct
<1>4. PICK len \in Nat : len = NameEnd(h) - (off + DIRECT_HEAD)
  BY <1>1, <1>3 DEF NameEnd, Least, DIRECT_HEAD
<1>5. /\ off + DIRECT_HEAD + len <= blen
      /\ DIRECT_HEAD + len <= h.reclen /\ len <= h.namlen
  BY <1>1, <1>3, <1>4 DEF NameEnd, Least, DIRECT_HEAD
<1>6. PICK a \in Nat : a = k * bsize + off
  BY <1>1
<1>7. a \div bsize = k
  <2>1. k * bsize <= a /\ a < (k + 1) * bsize
    BY <1>1, <1>2, <1>6 DEF DIRECT_HEAD
  <2> QED BY <1>1, <2>1, GroupRange
<1>8. a + DIRECT_HEAD + len <= di_size
  BY <1>1, <1>2, <1>5, <1>6 DEF DIRECT_HEAD
<1>9. a + DIRECT_HEAD + len <= a + h.reclen
  BY <1>3, <1>5 DEF DIRECT_HEAD
<1>10. a + DIRECT_HEAD + len <= (a \div bsize + 1) * bsize
  <2>1. (k + 1) * bsize = k * bsize + bsize
    BY <1>1
  <2> QED BY <1>1, <1>2, <1>5, <1>6, <1>7, <2>1 DEF DIRECT_HEAD
<1>11. Pushed(h) = [pos |-> a, ino |-> h.ino, reclen |-> h.reclen, name |-> h.name, len |-> len]
  BY <1>4, <1>6 DEF Pushed
<1> QED BY <1>3, <1>4, <1>5, <1>6, <1>8, <1>9, <1>10, <1>11 DEF SlotOk

(* One trip round the loop of walk_block.                                  *)
LEMMA SlotKeeps ==
    ASSUME LifeInv, WalkPart, Slot
    PROVE  WalkPart'
<1>1. /\ pc = "block" /\ pc' = "block" /\ off + DIRECT_HEAD <= blen
      /\ UNCHANGED <<dirVars, damage, k, remaining, blen>>
  BY DEF Slot
<1>2. PICK h \in Decoded(k * bsize + off) :
         h.reclen >= DIRECT_HEAD /\ entries' = Append(entries, Pushed(h)) /\ off' = off + h.reclen
  BY DEF Slot, Pushed, Step
<1>3. /\ di_size' = di_size /\ SoundBlocks' = SoundBlocks
      /\ disk' = disk /\ starts' = starts /\ size' = size /\ damage' = damage
  BY <1>1, SameImage
<1>4. /\ di_size \in Nat /\ size \in Nat /\ starts \subseteq Nat
      /\ k \in Nat /\ bsize \in Nat \ {0} /\ k * bsize \in Nat /\ remaining \in Nat
      /\ blen \in Nat /\ off \in Nat
      /\ \A p \in starts : p < size
  BY WalkTypes DEF WalkPart
<1>5. damage \in Damage
  BY DEF WalkPart, WalkPosition
<1>6. h \in Direct /\ h.reclen \in Nat /\ h.namlen \in Nat
  <2>1. h \in Direct
    BY <1>2, <1>5, DecodedType
  <2> QED BY <2>1 DEF Direct
<1>7. PICK e : e = Pushed(h)
  OBVIOUS
<1>8. /\ SlotOk(e, di_size) /\ e.pos = k * bsize + off
      /\ e.ino = h.ino /\ e.name = h.name /\ e.reclen = h.reclen
      /\ e.len = NameEnd(h) - (off + DIRECT_HEAD) /\ e.len <= h.namlen
  BY <1>1, <1>2, <1>6, <1>7, PushedOk
<1>9. /\ off + h.reclen \in Nat /\ off' = off + h.reclen
      /\ entries' = Append(entries, e)
  BY <1>2, <1>4, <1>6, <1>7
<1>10. WalkPosition'
  BY <1>1, <1>3, <1>9 DEF WalkPart, WalkPosition
<1>11. PICK n \in Nat : n = Len(entries)
  BY DEF WalkPart, SlotsBehind
<1>12. entries \in Seq(SlotType) /\ e \in SlotType
  <2>1. h.ino \in Nat /\ h.name \in Name /\ e.len \in Nat /\ e.pos \in Nat
    BY <1>6, <1>8 DEF Direct, SlotOk
  <2>2. Pushed(h).len \in Nat /\ Pushed(h).pos \in Nat
    BY <1>7, <2>1
  <2>3. Pushed(h) \in SlotType
    BY <1>6, <2>1, <2>2 DEF Pushed, SlotType
  <2> QED BY <1>7, <2>3 DEF WalkPart, SlotsBehind
<1>13. /\ DOMAIN entries' = 1..(n + 1) /\ Len(entries') = n + 1 /\ entries'[n + 1] = e
       /\ \A i \in 1..n : entries'[i] = entries[i]
       /\ DOMAIN entries = 1..n
  BY <1>9, <1>11, <1>12
<1>14. SlotsBehind'
  <2>1. entries' \in Seq(SlotType)
    BY <1>9, <1>12
  <2> DEFINE c == k * bsize + off
  <2>2. c \in Nat /\ e.pos = c /\ c + DIRECT_HEAD <= k * bsize + off + h.reclen /\ c + DIRECT_HEAD <= k * bsize + blen
    <3>1. PICK a \in Nat : a = k * bsize
      BY <1>4
    <3>2. /\ a + off \in Nat /\ a + off + DIRECT_HEAD <= a + off + h.reclen
          /\ a + off + DIRECT_HEAD <= a + blen
      BY <1>1, <1>2, <1>4, <1>6 DEF DIRECT_HEAD
    <3> QED BY <1>8, <3>1, <3>2
  <2>3. ASSUME NEW i \in 1..n
        PROVE  /\ SlotOk(entries[i], di_size) /\ entries[i].pos \in Nat
               /\ entries[i].pos + DIRECT_HEAD <= c
               /\ entries[i].pos + DIRECT_HEAD <= k * bsize + blen
               /\ \A j \in 1..(i - 1) : entries[j].pos + DIRECT_HEAD <= entries[i].pos
    BY <1>1, <1>13 DEF WalkPart, SlotsBehind, SlotOk
  <2>4. ASSUME NEW i \in 1..n
        PROVE  entries[i].pos + DIRECT_HEAD <= k * bsize + off + h.reclen
    <3> HIDE DEF c
    <3> QED BY <2>2, <2>3, <1>4, <1>6 DEF DIRECT_HEAD
  <2>5. ASSUME NEW i \in 1..(n + 1)
        PROVE  /\ SlotOk(entries'[i], di_size)
               /\ entries'[i].pos + DIRECT_HEAD <= k * bsize + off + h.reclen
               /\ entries'[i].pos + DIRECT_HEAD <= k * bsize + blen
               /\ \A j \in 1..(i - 1) : entries'[j].pos + DIRECT_HEAD <= entries'[i].pos
    <3>1. CASE i = n + 1
      <4>1. \A j \in 1..n : entries'[j].pos + DIRECT_HEAD <= c
        BY <1>13, <2>3
      <4>2. 1..(i - 1) = 1..n
        BY <3>1
      <4> HIDE DEF c
      <4> QED BY <1>8, <1>13, <2>2, <3>1, <4>1, <4>2
    <3>2. CASE i \in 1..n
      <4>1. entries'[i] = entries[i] /\ \A j \in 1..(i - 1) : entries'[j] = entries[j]
        BY <1>13, <3>2
      <4> QED BY <2>3, <2>4, <3>2, <4>1
    <3> QED BY <3>1, <3>2
  <2>6. k' * bsize + off' = k * bsize + off + h.reclen /\ k' * bsize + blen' = k * bsize + blen
    <3>1. PICK a \in Nat : a = k * bsize
      BY <1>4
    <3>2. a + (off + h.reclen) = a + off + h.reclen
      BY <1>4, <1>6
    <3> QED BY <1>1, <1>9, <3>1, <3>2
  <2>7. ASSUME NEW i \in DOMAIN entries'
        PROVE  /\ SlotOk(entries'[i], di_size')
               /\ entries'[i].pos + DIRECT_HEAD <= k' * bsize + off'
               /\ entries'[i].pos + DIRECT_HEAD <= k' * bsize + blen'
               /\ \A j \in 1..(i - 1) : entries'[j].pos + DIRECT_HEAD <= entries'[i].pos
    BY <1>3, <1>13, <2>5, <2>6
  <2> QED BY <1>1, <2>1, <2>7 DEF SlotsBehind
<1>15. ASSUME k \in SoundBlocks
       PROVE  LET p == k * bsize + off
              IN  /\ p \in starts /\ p \div bsize = k /\ h = disk[p]
                  /\ e.len = disk[p].namlen
                  /\ off + h.reclen <= blen
                  /\ off + h.reclen < blen => p + h.reclen \in starts
                  /\ \A s \in starts : p < s => s >= p + h.reclen
  <2> DEFINE p == k * bsize + off
  <2>1. off < blen
    BY <1>1, <1>4 DEF DIRECT_HEAD
  <2>2. /\ p \in starts /\ p \div bsize = k
        /\ disk[p].reclen \in Nat /\ disk[p].namlen \in Nat
        /\ DIRECT_HEAD + disk[p].namlen <= disk[p].reclen
        /\ off + disk[p].reclen <= blen
        /\ off + disk[p].reclen < blen => p + disk[p].reclen \in starts
        /\ \A s \in starts : p < s => s >= p + disk[p].reclen
    BY <1>1, <1>15, <2>1, ChainStep
  <2>3. h = disk[p]
    <3>1. Decoded(p) = {disk[p]}
      BY <1>5, <1>15, <2>2, SoundDecodes
    <3> QED BY <1>2, <3>1
  <2> HIDE DEF p
  <2>4. NameEnd(h) - (off + DIRECT_HEAD) = h.namlen
    BY <1>4, <1>6, <2>2, <2>3 DEF NameEnd, Least, DIRECT_HEAD
  <2> QED BY <1>8, <2>2, <2>3, <2>4 DEF p
<1>16. OnChain'
  <2> SUFFICES ASSUME k \in SoundBlocks
               PROVE  /\ k * bsize < size /\ blen = Least(size - k * bsize, bsize)
                      /\ off + h.reclen <= blen
                      /\ off + h.reclen < blen => k * bsize + (off + h.reclen) \in starts
    BY <1>1, <1>3, <1>9 DEF OnChain
  <2>1. k * bsize < size /\ blen = Least(size - k * bsize, bsize)
    BY <1>1 DEF WalkPart, OnChain
  <2>2. k * bsize + (off + h.reclen) = k * bsize + off + h.reclen
    BY <1>4, <1>6
  <2> QED BY <1>15, <2>1, <2>2
<1>17. ListedAsStored'
  <2> SUFFICES ASSUME NEW i \in 1..(n + 1), (entries'[i].pos \div bsize) \in SoundBlocks
               PROVE  /\ entries'[i].pos \in starts
                      /\ entries'[i].ino = disk[entries'[i].pos].ino
                      /\ entries'[i].name = disk[entries'[i].pos].name
                      /\ entries'[i].len = disk[entries'[i].pos].namlen
    BY <1>3, <1>13 DEF ListedAsStored
  <2>1. CASE i \in 1..n
    <3>1. entries'[i] = entries[i] /\ i \in DOMAIN entries
      BY <1>13, <2>1
    <3> QED BY <3>1 DEF WalkPart, ListedAsStored
  <2>2. CASE i = n + 1
    <3>1. entries'[i] = e
      BY <1>13, <2>2
    <3>2. k * bsize <= e.pos /\ e.pos < (k + 1) * bsize /\ e.pos \in Nat
      <4>1. blen <= bsize /\ (k + 1) * bsize = k * bsize + bsize
        BY <1>1, <1>4 DEF WalkPart, WalkPosition
      <4> QED BY <1>1, <1>4, <1>8, <4>1 DEF DIRECT_HEAD
    <3>3. e.pos \div bsize = k
      BY <1>4, <3>2, GroupRange
    <3>4. k \in SoundBlocks
      BY <3>1, <3>3
    <3> QED BY <1>8, <1>15, <3>1, <3>4
  <2> QED BY <2>1, <2>2
<1>18. StoredAreListed'
  <2> SUFFICES ASSUME NEW p \in starts, (p \div bsize) \in SoundBlocks,
                      p \div bsize < k \/ (p \div bsize = k /\ p < k * bsize + (off + h.reclen))
               PROVE  \E i \in DOMAIN entries' : entries'[i].pos = p
    BY <1>1, <1>3, <1>9 DEF StoredAreListed, Passed
  <2>1. ASSUME Passed(p) PROVE \E i \in DOMAIN entries' : entries'[i].pos = p
    <3>1. PICK i \in DOMAIN entries : entries[i].pos = p
      BY <1>1, <2>1 DEF WalkPart, StoredAreListed
    <3>2. i \in DOMAIN entries' /\ entries'[i] = entries[i]
      BY <1>13, <3>1
    <3> QED BY <3>1, <3>2
  <2>2. CASE p = k * bsize + off
    <3>1. n + 1 \in DOMAIN entries' /\ entries'[n + 1].pos = p
      BY <1>8, <1>13, <2>2
    <3> QED BY <3>1
  <2>3. CASE p # k * bsize + off
    <3>1. p \div bsize < k \/ (p \div bsize = k /\ p < k * bsize + off)
      <4> SUFFICES ASSUME p \div bsize = k, p < k * bsize + (off + h.reclen) PROVE p < k * bsize + off
        OBVIOUS
      <4>1. p > k * bsize + off => p >= k * bsize + off + h.reclen
        BY <1>15
      <4>2. p \in Nat
        BY <1>4
      <4> QED BY <1>4, <1>6, <2>3, <4>1, <4>2
    <3>2. Passed(p)
      BY <1>1, <3>1 DEF Passed
    <3> QED BY <2>1, <3>2
  <2> QED BY <2>2, <2>3
<1> QED BY <1>10, <1>14, <1>16, <1>17, <1>18 DEF WalkPart

(* Leaving a block: in a sound one the walk has come to its end.           *)
LEMMA LeaveKeeps ==
    ASSUME LifeInv, WalkPart, BadReclen \/ BlockEnd
    PROVE  WalkPart'
<1>1. /\ pc = "block" /\ pc' = "next" /\ k' = k + 1 /\ remaining' = SatSub(remaining, bsize)
      /\ UNCHANGED <<dirVars, damage, blen, off, entries>>
  BY DEF BadReclen, BlockEnd, LeaveBlock
<1>2. /\ di_size' = di_size /\ SoundBlocks' = SoundBlocks
      /\ disk' = disk /\ starts' = starts /\ size' = size /\ damage' = damage
  BY <1>1, SameImage
<1>3. /\ di_size \in Nat /\ size \in Nat /\ starts \subseteq Nat
      /\ k \in Nat /\ bsize \in Nat \ {0} /\ k * bsize \in Nat /\ blen \in Nat /\ off \in Nat
      /\ \A p \in starts : p < size
  BY WalkTypes DEF WalkPart
<1>4. /\ SatSub(SatSub(di_size, k * bsize), bsize) = SatSub(di_size, (k + 1) * bsize)
      /\ (k + 1) * bsize = k * bsize + bsize
  BY <1>3, RestOfSize
<1>5. remaining' = SatSub(di_size, (k + 1) * bsize) /\ remaining' \in Nat /\ k + 1 \in Nat
  <2>1. k + 1 \in Nat
    BY <1>3
  <2>2. SatSub(di_size, (k + 1) * bsize) \in Nat
    BY <1>3, <2>1, RestOfSize
  <2>3. remaining = SatSub(di_size, k * bsize)
    BY <1>1 DEF WalkPart, WalkPosition
  <2> QED BY <1>1, <1>4, <2>1, <2>2, <2>3
<1>6. WalkPosition'
  BY <1>1, <1>2, <1>5 DEF WalkPart, WalkPosition
<1>7. SlotsBehind'
  <2>1. blen <= bsize
    BY <1>1 DEF WalkPart, WalkPosition
  <2>2. ASSUME NEW i \in DOMAIN entries, entries[i].pos + DIRECT_HEAD <= k * bsize + blen, SlotOk(entries[i], di_size)
        PROVE  entries[i].pos + DIRECT_HEAD <= (k + 1) * bsize
    BY <1>3, <1>4, <2>1, <2>2 DEF SlotOk, DIRECT_HEAD
  <2> QED BY <1>1, <1>2, <2>2 DEF WalkPart, SlotsBehind
<1>8. OnChain' /\ ListedAsStored'
  BY <1>1, <1>2 DEF WalkPart, OnChain, ListedAsStored
<1>9. ASSUME k \in SoundBlocks
      PROVE  off = blen /\ blen = Least(size - k * bsize, bsize) /\ k * bsize < size
  <2>1. off <= blen /\ blen = Least(size - k * bsize, bsize) /\ k * bsize < size
    BY <1>1, <1>9 DEF WalkPart, OnChain
  <2>2. off < blen => FALSE
    <3> SUFFICES ASSUME off < blen PROVE FALSE
      OBVIOUS
    <3> DEFINE p == k * bsize + off
    <3>1. /\ p \in starts /\ p \div bsize = k
          /\ disk[p].reclen \in Nat /\ disk[p].namlen \in Nat
          /\ DIRECT_HEAD + disk[p].namlen <= disk[p].reclen
          /\ off + disk[p].reclen <= blen
      BY <1>1, <1>9, ChainStep
    <3>2. off + DIRECT_HEAD <= blen /\ ~(disk[p].reclen < DIRECT_HEAD)
      <4> HIDE DEF p
      <4> QED BY <1>3, <3>1 DEF DIRECT_HEAD
    <3>3. ~BlockEnd
      BY <1>3, <3>2 DEF BlockEnd, DIRECT_HEAD
    <3>4. Decoded(p) = {disk[p]}
      BY <1>9, <3>1, SoundDecodes DEF WalkPart, WalkPosition
    <3>5. ~BadReclen
      BY <3>2, <3>4 DEF BadReclen
    <3> QED BY <3>3, <3>5
  <2> QED BY <1>3, <2>1, <2>2
<1>10. StoredAreListed'
  <2> SUFFICES ASSUME NEW p \in starts, (p \div bsize) \in SoundBlocks, p \div bsize < k + 1
               PROVE  \E i \in DOMAIN entries : entries[i].pos = p
    BY <1>1, <1>2 DEF StoredAreListed, Passed
  <2>1. p \in Nat /\ p < size /\ p \div bsize \in Nat
    BY <1>3, SoundFacts DEF WalkPart, WalkPosition
  <2>2. CASE p \div bsize < k
    BY <1>1, <2>2 DEF WalkPart, StoredAreListed, Passed
  <2>3. CASE p \div bsize = k
    <3>1. p < (k + 1) * bsize
      BY <1>3, <2>1, <2>3, GroupRange
    <3>2. off = blen /\ blen = Least(size - k * bsize, bsize) /\ k * bsize < size
      BY <1>9, <2>3
    <3>3. p < k * bsize + off
      BY <1>3, <1>4, <2>1, <3>1, <3>2 DEF Least
    <3> QED BY <1>1, <2>3, <3>3 DEF WalkPart, StoredAreListed, Passed
  <2> QED BY <1>3, <2>1, <2>2, <2>3
<1> QED BY <1>6, <1>7, <1>8, <1>10 DEF WalkPart

(* No record lies before block 0.                                          *)
LEMMA RecordBlock ==
    ASSUME NEW cells, NEW recs, NEW len, IsDirectory(cells, recs, len)
    PROVE  \A p \in recs : ~(p \div bsize < 0)
<1> SUFFICES ASSUME NEW p \in recs PROVE p \div bsize \in Nat
  OBVIOUS
<1>1. p \in Nat /\ bsize \in Nat \ {0}
  BY RecordFacts, Geometry
<1> QED BY <1>1

(* DirInv holds of the directory before the first operation.               *)
LEMMA DirInit == Init => LifeInv /\ WalkPart
<1> SUFFICES ASSUME Init PROVE LifeInv /\ WalkPart
  OBVIOUS
<1>1. LifeInv
  <2>1. IsCells(First) /\ IsDirectory(First, FirstStarts, FirstSize) /\ \A p \in FirstStarts : First[p].ino # 0
    BY DirAssumption DEF IsCells
  <2>2. {} = { p \in FirstStarts : First[p].ino = 0 }
    BY <2>1
  <2> QED BY <2>1, <2>2 DEF Init, LifeInv
<1>2. WalkPosition
  BY DEF Init, WalkPosition, Damage
<1>3. \A p \in starts : ~(p \div bsize < 0)
  <2>1. IsDirectory(disk, starts, size)
    BY <1>1 DEF LifeInv
  <2> QED BY <2>1, RecordBlock
<1>4. WalkPart
  BY <1>2, <1>3
  DEF Init, WalkPart, SlotsBehind, ListedAsStored, OnChain, StoredAreListed, Passed
<1> QED BY <1>1, <1>4

(* Every step of the operating system and of the walk preserves both       *)
(* halves.                                                                 *)
LEMMA DirStep == LifeInv /\ WalkPart /\ [Next]_vars => LifeInv' /\ WalkPart'
<1> SUFFICES ASSUME LifeInv, WalkPart, [Next]_vars PROVE LifeInv' /\ WalkPart'
  OBVIOUS
<1>0. ASSUME LifeInv', WalkPosition', pc' \in {"life", "next"}, k' = 0, entries' = << >>
      PROVE  WalkPart'
  <2>1. IsDirectory(disk', starts', size')
    BY <1>0 DEF LifeInv
  <2>2. \A p \in starts' : ~(p \div bsize < 0)
    BY <2>1, RecordBlock
  <2>3. SlotsBehind' /\ ListedAsStored' /\ OnChain'
    BY <1>0 DEF SlotsBehind, ListedAsStored, OnChain
  <2>4. StoredAreListed'
    BY <1>0, <2>2 DEF StoredAreListed, Passed
  <2> QED BY <1>0, <2>3, <2>4 DEF WalkPart
<1>1. ASSUME LifeInv', Operation PROVE WalkPart'
  <2>1. /\ WalkPosition' /\ pc' \in {"life", "next"} /\ k' = 0 /\ entries' = << >>
    BY <1>1 DEF Operation, walkVars, WalkPart, WalkPosition
  <2> QED BY <1>0, <1>1, <2>1
<1>2. ASSUME NEW n \in Name \ Dots, Enter(n) PROVE LifeInv' /\ WalkPart'
  <2>1. LifeInv'
    BY <1>2, EnterKeepsLife
  <2> QED BY <1>1, <1>2, <2>1 DEF Enter
<1>3. ASSUME NEW p \in starts, Unlink(p) PROVE LifeInv' /\ WalkPart'
  <2>1. LifeInv'
    BY <1>3, UnlinkKeepsLife
  <2> QED BY <1>1, <1>3, <2>1 DEF Unlink
<1>4. ASSUME UNCHANGED dirVars PROVE LifeInv'
  BY <1>4 DEF LifeInv, dirVars
<1>5. CASE StartWalk
  <2>1. LifeInv'
    BY <1>4, <1>5 DEF StartWalk, dirVars
  <2>2. damage' \in Damage /\ di_size' \in Nat
    <3>1. damage' \in Damage /\ size' \in Nat
      BY <1>5, <2>1, DirAssumption, StartsInWords DEF StartWalk, dirVars
    <3> QED BY <3>1 DEF di_size, Damage
  <2>3. SatSub(di_size', 0 * bsize) = di_size'
    <3>1. 0 * bsize = 0
      BY Geometry
    <3> QED BY <2>2, <3>1 DEF SatSub
  <2>4. WalkPosition' /\ pc' \in {"life", "next"} /\ k' = 0 /\ entries' = << >>
    BY <1>5, <2>2, <2>3 DEF StartWalk, WalkPart, WalkPosition
  <2> QED BY <1>0, <2>1, <2>4
<1>6. CASE Walk
  <2>1. LifeInv'
    BY <1>4, <1>6 DEF Walk, ListEnd, Hole, EnterBlock, Slot, BadReclen, BlockEnd, LeaveBlock
  <2> QED BY <1>6, <2>1, ListEndKeeps, HoleKeeps, EnterBlockKeeps, SlotKeeps, LeaveKeeps DEF Walk
<1>7. CASE UNCHANGED vars
  <2>1. LifeInv'
    BY <1>4, <1>7 DEF vars
  <2>2. /\ UNCHANGED <<dirVars, damage>>
        /\ pc' = pc /\ k' = k /\ remaining' = remaining /\ blen' = blen /\ off' = off /\ entries' = entries
    BY <1>7 DEF vars, walkVars
  <2>3. /\ di_size' = di_size /\ SoundBlocks' = SoundBlocks
        /\ disk' = disk /\ starts' = starts /\ size' = size /\ damage' = damage
    BY <2>2, SameImage
  <2>4. WalkPosition' /\ SlotsBehind' /\ OnChain'
    BY <2>2, <2>3 DEF WalkPart, WalkPosition, SlotsBehind, OnChain
  <2>5. ListedAsStored' /\ StoredAreListed'
    BY <2>2, <2>3 DEF WalkPart, ListedAsStored, StoredAreListed, Passed
  <2> QED BY <2>1, <2>4, <2>5 DEF WalkPart
<1> QED BY <1>2, <1>3, <1>5, <1>6, <1>7 DEF Next

(* The directory stays well formed and the walk on its chain, for every    *)
(* history and every damage.                                               *)
THEOREM DirInvariant == Spec => [](LifeInv /\ WalkPart)
  BY DirInit, DirStep, PTL DEF Spec

(* Whatever the image holds, walk_block stays inside the size, the block   *)
(* and each record, and takes no byte for the head of two slots.           *)
THEOREM SlotsStayInside == Spec => []SlotsInsideBounds
<1>1. LifeInv /\ WalkPart => SlotsInsideBounds
  <2> SUFFICES ASSUME LifeInv, WalkPart, NEW i \in DOMAIN entries, NEW e, e = entries[i]
               PROVE  /\ e.pos + DIRECT_HEAD <= di_size
                      /\ e.len >= 0
                      /\ e.pos + DIRECT_HEAD + e.len <= Least(e.pos + e.reclen, (e.pos \div bsize + 1) * bsize)
                      /\ e.pos + DIRECT_HEAD + e.len <= di_size
                      /\ \A j \in 1..(i - 1) : entries[j].pos + DIRECT_HEAD <= e.pos
    BY DEF SlotsInsideBounds
  <2>1. SlotOk(e, di_size) /\ \A j \in 1..(i - 1) : entries[j].pos + DIRECT_HEAD <= e.pos
    BY DEF WalkPart, SlotsBehind
  <2>2. di_size \in Nat
    BY WalkTypes DEF WalkPart
  <2> QED BY <2>1, <2>2 DEF SlotOk, Least, DIRECT_HEAD
<1> QED BY <1>1, DirInvariant, PTL

(* The slots listed from sound blocks, each with the record it stands for. *)
LEMMA ListedRecords ==
    ASSUME LifeInv, WalkPart, pc = "done"
    PROVE  /\ \A i \in FromSound(DOMAIN entries) :
                 /\ entries[i].pos \in starts /\ (entries[i].pos \div bsize) \in SoundBlocks
                 /\ Shown(i) = <<disk[entries[i].pos].name, disk[entries[i].pos].namlen>>
                 /\ entries[i].ino = disk[entries[i].pos].ino
           /\ \A p \in starts : (p \div bsize) \in SoundBlocks =>
                 \E i \in FromSound(DOMAIN entries) : entries[i].pos = p
           /\ \A i, j \in DOMAIN entries : entries[i].pos = entries[j].pos => i = j
<1>1. \A i \in FromSound(DOMAIN entries) :
         /\ entries[i].pos \in starts /\ (entries[i].pos \div bsize) \in SoundBlocks
         /\ Shown(i) = <<disk[entries[i].pos].name, disk[entries[i].pos].namlen>>
         /\ entries[i].ino = disk[entries[i].pos].ino
  BY DEF FromSound, Shown, WalkPart, ListedAsStored
<1>2. \A p \in starts : (p \div bsize) \in SoundBlocks =>
         \E i \in FromSound(DOMAIN entries) : entries[i].pos = p
  BY DEF FromSound, WalkPart, StoredAreListed, Passed
<1>3. ASSUME NEW i \in DOMAIN entries, NEW j \in DOMAIN entries, entries[i].pos = entries[j].pos
      PROVE  i = j
  <2>1. entries \in Seq(SlotType)
    BY DEF WalkPart, SlotsBehind
  <2>2. ASSUME NEW a \in DOMAIN entries, NEW b \in DOMAIN entries, a < b
        PROVE  entries[a].pos # entries[b].pos
    <3>1. entries[a].pos \in Nat /\ entries[b].pos \in Nat
      BY DEF WalkPart, SlotsBehind, SlotOk
    <3>2. a \in 1..(b - 1)
      BY <2>1, <2>2
    <3>3. entries[a].pos + DIRECT_HEAD <= entries[b].pos
      BY <3>2 DEF WalkPart, SlotsBehind
    <3> QED BY <3>1, <3>3 DEF DIRECT_HEAD
  <2>3. i \in Nat /\ j \in Nat
    BY <2>1
  <2>4. ~(i < j) /\ ~(j < i)
    BY <1>3, <2>2
  <2> QED BY <2>3, <2>4
<1> QED BY <1>1, <1>2, <1>3

(* list_dir returns the directory's live entries, each once and whole,     *)
(* from every direct block the damage spares, after any history.           *)
THEOREM LiveListing == Spec => []LiveListingExact
<1>1. LifeInv /\ WalkPart => LiveListingExact
  <2> SUFFICES ASSUME LifeInv, WalkPart, pc = "done" PROVE LiveListingExact
    BY DEF LiveListingExact
  <2> DEFINE live == FromSound(list_dir)
             recs == { p \in starts : disk[p].ino # 0 }
  <2>1. \A i : i \in live <=> i \in FromSound(DOMAIN entries) /\ entries[i].ino # 0
    BY DEF FromSound, list_dir, Deleted
  <2>2. ASSUME NEW i \in live PROVE Shown(i) \in Records(recs)
    <3>1. entries[i].pos \in recs
      BY <2>1, ListedRecords
    <3> QED BY <2>1, <3>1, ListedRecords DEF Records
  <2>3. ASSUME NEW r \in Records(recs) PROVE \E i \in live : Shown(i) = r
    <3>1. PICK p \in recs : (p \div bsize) \in SoundBlocks /\ r = <<disk[p].name, disk[p].namlen>>
      BY DEF Records
    <3>2. PICK i \in FromSound(DOMAIN entries) : entries[i].pos = p
      BY <3>1, ListedRecords
    <3>3. i \in live /\ Shown(i) = r
      BY <2>1, <3>1, <3>2, ListedRecords
    <3> QED BY <3>3
  <2>4. ASSUME NEW i \in live, NEW j \in live, Shown(i) = Shown(j) PROVE i = j
    <3>1. /\ entries[i].pos \in starts /\ entries[j].pos \in starts
          /\ disk[entries[i].pos].ino # 0 /\ disk[entries[j].pos].ino # 0
          /\ disk[entries[i].pos].name = disk[entries[j].pos].name
      BY <2>1, <2>4, ListedRecords
    <3>2. entries[i].pos = entries[j].pos
      BY <3>1 DEF LifeInv, IsDirectory
    <3>3. i \in DOMAIN entries /\ j \in DOMAIN entries
      BY DEF FromSound, list_dir
    <3> QED BY <3>2, <3>3, ListedRecords
  <2> HIDE DEF live, recs
  <2>5. { Shown(i) : i \in live } = Records(recs)
    BY <2>2, <2>3
  <2> QED BY <2>4, <2>5 DEF LiveListingExact, live, recs
<1> QED BY <1>1, DirInvariant, PTL

(* The deleted slots list_dir_all adds are exactly the cleared ones.       *)
THEOREM DeletedSlots == Spec => []DeletedSlotsExact
<1>1. LifeInv /\ WalkPart => DeletedSlotsExact
  <2> SUFFICES ASSUME LifeInv, WalkPart, pc = "done" PROVE DeletedSlotsExact
    BY DEF DeletedSlotsExact
  <2> DEFINE gone == FromSound(DOMAIN entries \ list_dir)
  <2>1. \A i : i \in gone <=> i \in FromSound(DOMAIN entries) /\ entries[i].ino = 0
    BY DEF FromSound, list_dir, Deleted
  <2>2. \A p : p \in zeroed <=> p \in starts /\ disk[p].ino = 0
    BY DEF LifeInv
  <2>3. ASSUME NEW i \in gone PROVE Shown(i) \in Records(zeroed)
    <3>1. /\ entries[i].pos \in zeroed
          /\ (entries[i].pos \div bsize) \in SoundBlocks
          /\ Shown(i) = <<disk[entries[i].pos].name, disk[entries[i].pos].namlen>>
      BY <2>1, <2>2, ListedRecords
    <3> HIDE DEF gone
    <3> QED BY <3>1 DEF Records
  <2>4. ASSUME NEW r \in Records(zeroed) PROVE \E i \in gone : Shown(i) = r
    <3>1. PICK p \in zeroed : (p \div bsize) \in SoundBlocks /\ r = <<disk[p].name, disk[p].namlen>>
      BY DEF Records
    <3>2. PICK i \in FromSound(DOMAIN entries) : entries[i].pos = p
      BY <2>2, <3>1, ListedRecords
    <3>3. i \in gone /\ Shown(i) = r
      BY <2>1, <2>2, <3>1, <3>2, ListedRecords
    <3> QED BY <3>3
  <2> HIDE DEF gone
  <2>5. { Shown(i) : i \in gone } = Records(zeroed)
    BY <2>3, <2>4
  <2> QED BY <2>5 DEF DeletedSlotsExact, gone
<1> QED BY <1>1, DirInvariant, PTL

-----------------------------------------------------------------------------
(* A block that the end of the image cuts.                                 *)

(* A record that starts in a block ends in it.                             *)
LEMMA RecordInBlock ==
    ASSUME LifeInv, NEW i \in Nat, i * bsize < size, NEW o \in Nat,
           o < Least(size - i * bsize, bsize), i * bsize + o \in starts
    PROVE  LET r == disk[i * bsize + o]
           IN  /\ r.reclen \in Nat /\ r.namlen \in Nat /\ DIRECT_HEAD + r.namlen <= r.reclen
               /\ o + r.reclen <= Least(size - i * bsize, bsize)
               /\ o + r.reclen < Least(size - i * bsize, bsize) => i * bsize + (o + r.reclen) \in starts
<1>1. PICK a \in Nat : a = i * bsize
  BY Geometry
<1>2. size \in Nat /\ bsize \in Nat \ {0} /\ starts \subseteq Nat
  BY StartsInWords, Geometry
<1> DEFINE p == a + o
           want == Least(size - a, bsize)
<1>3. want \in Nat /\ a + want <= size /\ (a + want = size \/ want = bsize) /\ p \in Nat /\ p < a + want
  BY <1>1, <1>2 DEF Least
<1>4. a + want \in starts \cup {size}
  <2>1. CASE want = bsize /\ a + want # size
    <3>1. i + 1 \in Nat /\ a + want = (i + 1) * bsize /\ (i + 1) * bsize < size
      BY <1>1, <1>2, <1>3, <2>1
    <3> QED BY <3>1, BlockStarts
  <2> QED BY <1>3, <2>1
<1>5. /\ p \in starts /\ disk[p].reclen \in Nat /\ disk[p].namlen \in Nat
      /\ DIRECT_HEAD + disk[p].namlen <= disk[p].reclen
      /\ p + disk[p].reclen \in starts \cup {size} /\ p + disk[p].reclen <= size
      /\ \A s \in starts : p < s => s >= p + disk[p].reclen
  <2>1. p \in starts
    BY <1>1
  <2> QED BY <2>1, RecordFacts DEF LifeInv, DIRECT_HEAD
<1> HIDE DEF want
<1>6. p + disk[p].reclen <= a + want
  BY <1>2, <1>3, <1>4, <1>5
<1>7. o + disk[p].reclen <= want
  BY <1>3, <1>5, <1>6
<1>8. o + disk[p].reclen < want => a + (o + disk[p].reclen) \in starts
  <2> SUFFICES ASSUME o + disk[p].reclen < want PROVE a + (o + disk[p].reclen) \in starts
    OBVIOUS
  <2>1. p + disk[p].reclen = a + (o + disk[p].reclen) /\ p + disk[p].reclen < size
    BY <1>2, <1>3, <1>5
  <2> QED BY <1>2, <1>5, <2>1
<1> QED BY <1>1, <1>5, <1>7, <1>8 DEF want

(* A step that pushes nothing and ends outside a block.                    *)
LEMMA CutOutside ==
    ASSUME CutPart, UNCHANGED <<dirVars, damage, entries>>, pc' # "block"
    PROVE  CutPart'
<1>1. disk' = disk /\ starts' = starts /\ size' = size /\ damage' = damage /\ entries' = entries
  BY DEF dirVars
<1>2. CutCursor'
  BY DEF CutCursor
<1>3. ASSUME damage.kind = "cut", NEW i \in DOMAIN entries, (entries[i].pos \div bsize) = damage.at
      PROVE  CutSlot(i)'
  <2>1. CutSlot(i)
    BY <1>3 DEF CutPart
  <2> QED BY <1>1, <2>1 DEF CutSlot
<1> QED BY <1>1, <1>2, <1>3 DEF CutPart

(* A cut block is entered at its first record, with nothing of it listed.  *)
LEMMA CutEnter ==
    ASSUME LifeInv, WalkPart, CutPart, EnterBlock
    PROVE  CutPart'
<1>1. /\ pc = "next" /\ pc' = "block" /\ remaining > 0 /\ Mapped(k) /\ off' = 0
      /\ blen' = (IF damage.kind = "cut" /\ damage.at = k
                     THEN Least(Least(remaining, bsize), damage.value) ELSE Least(remaining, bsize))
      /\ UNCHANGED <<dirVars, damage, k, remaining, entries>>
  BY DEF EnterBlock
<1>2. /\ disk' = disk /\ starts' = starts /\ size' = size /\ damage' = damage
      /\ k' = k /\ entries' = entries
  BY <1>1, SameImage
<1>3. /\ size \in Nat /\ k \in Nat /\ bsize \in Nat \ {0} /\ k * bsize \in Nat /\ remaining \in Nat
  BY WalkTypes DEF WalkPart
<1>4. ASSUME damage.kind = "cut"
      PROVE  k * bsize < size /\ remaining = size - k * bsize
  <2>1. remaining = SatSub(size, k * bsize)
    BY <1>1, <1>4 DEF WalkPart, WalkPosition, di_size
  <2>2. size = k * bsize + remaining
    BY <1>1, <1>3, <2>1, RestOfSize
  <2>3. PICK a \in Nat : a = k * bsize
    BY <1>3
  <2>4. a < size /\ remaining = size - a
    BY <1>1, <1>3, <2>2, <2>3
  <2> QED BY <2>3, <2>4
<1>5. CutCursor'
  <2> SUFFICES ASSUME damage.kind = "cut", k = damage.at
               PROVE  /\ k * bsize < size
                      /\ blen' = Least(Least(size - k * bsize, bsize), damage.value)
                      /\ k * bsize + 0 \in starts
    BY <1>1, <1>2 DEF CutCursor
  <2>1. k * bsize \in starts
    BY <1>3, <1>4, BlockStarts
  <2> QED BY <1>1, <1>3, <1>4, <2>1
<1>6. ASSUME damage.kind = "cut", NEW i \in DOMAIN entries, (entries[i].pos \div bsize) = damage.at
      PROVE  CutSlot(i)'
  <2>1. CutSlot(i)
    BY <1>6 DEF CutPart
  <2>2. entries[i].pos \in Nat /\ entries[i].pos + DIRECT_HEAD <= k * bsize
    BY <1>1 DEF WalkPart, SlotsBehind, SlotOk
  <2>3. entries[i].pos < k * bsize
    BY <1>3, <2>2 DEF DIRECT_HEAD
  <2>4. k # damage.at
    <3>1. (entries[i].pos \div bsize) < k
      BY <1>3, <2>2, <2>3, GroupRange
    <3> QED BY <1>3, <1>6, <3>1
  <2> QED BY <1>2, <2>1, <2>4 DEF CutSlot
<1> QED BY <1>2, <1>5, <1>6 DEF CutPart

(* One trip round the loop of walk_block: before the cut the records of    *)
(* the block, and the cursor leaves it with the first name it shortens.    *)
LEMMA CutPush ==
    ASSUME LifeInv, WalkPart, CutPart, Slot
    PROVE  CutPart'
<1> SUFFICES ASSUME damage.kind = "cut" PROVE CutPart'
  BY DEF Slot, CutPart, CutCursor
<1>1. /\ pc = "block" /\ pc' = "block" /\ off + DIRECT_HEAD <= blen
      /\ UNCHANGED <<dirVars, damage, k, remaining, blen>>
  BY DEF Slot
<1>2. PICK h \in Decoded(k * bsize + off) :
         h.reclen >= DIRECT_HEAD /\ entries' = Append(entries, Pushed(h)) /\ off' = off + h.reclen
  BY DEF Slot, Pushed, Step
<1>3. disk' = disk /\ starts' = starts /\ size' = size /\ damage' = damage /\ k' = k /\ blen' = blen
  BY <1>1, SameImage
<1>4. /\ size \in Nat /\ starts \subseteq Nat /\ k \in Nat /\ bsize \in Nat \ {0} /\ k * bsize \in Nat
      /\ blen \in Nat /\ off \in Nat /\ damage \in Damage /\ damage.value \in Nat
  BY WalkTypes DEF WalkPart, WalkPosition, Damage
<1>5. h \in Direct
  BY <1>2, <1>4, DecodedType
<1>6. PICK e : e = Pushed(h)
  OBVIOUS
<1>7. /\ e.pos = k * bsize + off /\ e.pos \in Nat /\ e.ino = h.ino /\ e.name = h.name
      /\ e.len = NameEnd(h) - (off + DIRECT_HEAD) /\ SlotOk(e, di_size)
  BY <1>1, <1>2, <1>4, <1>5, <1>6, PushedOk DEF SlotOk
<1>8. PICK n \in Nat : n = Len(entries)
  BY DEF WalkPart, SlotsBehind
<1>9. /\ DOMAIN entries' = 1..(n + 1) /\ entries'[n + 1] = e
      /\ \A i \in 1..n : entries'[i] = entries[i]
      /\ DOMAIN entries = 1..n
  BY <1>2, <1>6, <1>8 DEF WalkPart, SlotsBehind
<1>10. e.pos \div bsize = k
  <2>1. blen <= bsize /\ (k + 1) * bsize = k * bsize + bsize
    BY <1>1, <1>4 DEF WalkPart, WalkPosition
  <2>2. k * bsize <= e.pos /\ e.pos < (k + 1) * bsize
    BY <1>1, <1>4, <1>7, <2>1 DEF DIRECT_HEAD
  <2> QED BY <1>4, <1>7, <2>2, GroupRange
<1>11. CASE k # damage.at
  <2>1. CutCursor'
    BY <1>3, <1>11 DEF CutCursor
  <2>2. ASSUME NEW i \in 1..(n + 1), (entries'[i].pos \div bsize) = damage.at
        PROVE  CutSlot(i)'
    <3>1. i \in 1..n /\ entries'[i] = entries[i]
      BY <1>8, <1>9, <1>10, <1>11, <2>2
    <3>2. CutSlot(i)
      BY <1>9, <2>2, <3>1 DEF CutPart
    <3>3. ASSUME \A j \in DOMAIN entries : j > i => (entries[j].pos \div bsize) # damage.at
          PROVE  \A j \in DOMAIN entries' : j > i => (entries'[j].pos \div bsize) # damage.at
      BY <1>8, <1>9, <1>10, <1>11, <3>3
    <3> QED BY <1>3, <1>11, <3>1, <3>2, <3>3 DEF CutSlot
  <2> QED BY <1>3, <1>9, <2>1, <2>2 DEF CutPart
<1>12. CASE k = damage.at
  <2> DEFINE p == k * bsize + off
             want == Least(size - k * bsize, bsize)
  <2>1. k * bsize < size /\ blen = Least(want, damage.value) /\ p \in starts
    BY <1>1, <1>4, <1>12 DEF CutPart, CutCursor, DIRECT_HEAD
  <2>2. want \in Nat /\ blen <= want /\ (blen = want \/ blen = damage.value) /\ off < want
    <3>1. want \in Nat
      BY <1>4, <2>1 DEF Least
    <3> HIDE DEF want
    <3> QED BY <1>1, <1>4, <2>1, <3>1 DEF Least, DIRECT_HEAD
  <2>3. /\ disk[p].reclen \in Nat /\ disk[p].namlen \in Nat
        /\ DIRECT_HEAD + disk[p].namlen <= disk[p].reclen
        /\ off + disk[p].reclen <= want
        /\ off + disk[p].reclen < want => k * bsize + (off + disk[p].reclen) \in starts
    BY <1>4, <2>1, <2>2, RecordInBlock
  <2>4. h = disk[p]
    <3>1. p \in Words /\ disk[p] \in Direct
      BY <2>1, StartsInWords DEF LifeInv, IsDirectory
    <3>2. disk[p] # Blank
      <4>1. ASSUME NEW d \in Direct PROVE "ino" \in DOMAIN d
        BY DEF Direct
      <4>2. "ino" \notin DOMAIN Blank
        BY DEF Blank
      <4> QED BY <3>1, <4>1, <4>2
    <3> QED BY <1>2, <3>1, <3>2 DEF Decoded
  <2> HIDE DEF want, p
  <2>5. \/ e.len = h.namlen
        \/ /\ blen = damage.value /\ off + DIRECT_HEAD + e.len = blen
           /\ off + h.reclen >= blen
    <3>1. PICK r \in Nat, m \in Nat : r = h.reclen /\ m = h.namlen
      BY <2>3, <2>4
    <3>2. DIRECT_HEAD + m <= r /\ off + r <= want
      BY <2>3, <2>4, <3>1
    <3>3. Least(m, r - DIRECT_HEAD) = m
      BY <3>2 DEF Least, DIRECT_HEAD
    <3>4. e.len = Least(off + DIRECT_HEAD + m, blen) - (off + DIRECT_HEAD)
      BY <1>7, <3>1, <3>3 DEF NameEnd
    <3>5. \/ e.len = m
          \/ blen = damage.value /\ off + DIRECT_HEAD + e.len = blen /\ off + r >= blen
      BY <1>1, <1>4, <2>2, <3>2, <3>4 DEF Least, DIRECT_HEAD
    <3> QED BY <3>1, <3>5
  <2>6. CutCursor'
    <3> SUFFICES ASSUME off + h.reclen < blen PROVE k * bsize + (off + h.reclen) \in starts
      BY <1>2, <1>3, <2>1 DEF CutCursor, want
    <3>1. off + h.reclen < want
      BY <1>4, <2>2, <2>3, <2>4
    <3> QED BY <2>3, <2>4, <3>1
  <2>7. ASSUME NEW i \in 1..n, (entries[i].pos \div bsize) = damage.at
        PROVE  CutSlot(i)'
    <3>1. CutSlot(i)
      BY <1>9, <2>7 DEF CutPart
    <3>2. ~(off >= blen)
      BY <1>1, <1>4 DEF DIRECT_HEAD
    <3>3. /\ entries[i].pos \in starts /\ entries[i].len = disk[entries[i].pos].namlen
          /\ entries[i].ino = disk[entries[i].pos].ino /\ entries[i].name = disk[entries[i].pos].name
      BY <1>1, <1>12, <3>1, <3>2 DEF CutSlot
    <3> QED BY <1>3, <1>9, <3>3 DEF CutSlot
  <2>8. CutSlot(n + 1)'
    <3>1. e.pos = p
      BY <1>7 DEF p
    <3>2. CASE e.len = h.namlen
      BY <1>3, <1>7, <1>9, <2>1, <2>4, <3>1, <3>2 DEF CutSlot
    <3>3. CASE blen = damage.value /\ off + DIRECT_HEAD + e.len = blen /\ off + h.reclen >= blen
      <4>1. e.pos + DIRECT_HEAD + e.len = damage.at * bsize + damage.value
        <5>1. PICK a \in Nat : a = k * bsize
          BY <1>4
        <5>2. e.len \in Nat
          BY <1>7 DEF SlotOk
        <5>3. a + off + DIRECT_HEAD + e.len = a + blen
          BY <1>4, <3>3, <5>2 DEF DIRECT_HEAD
        <5> QED BY <1>7, <1>12, <3>3, <5>1, <5>3
      <4>2. \A j \in 1..(n + 1) : ~(j > n + 1)
        BY <1>8
      <4> QED BY <1>2, <1>3, <1>7, <1>9, <2>1, <2>4, <3>1, <3>3, <4>1, <4>2 DEF CutSlot
    <3> QED BY <2>5, <3>2, <3>3
  <2>9. ASSUME NEW i \in 1..(n + 1), (entries'[i].pos \div bsize) = damage.at
        PROVE  CutSlot(i)'
    <3>1. CASE i = n + 1
      BY <2>8, <3>1
    <3>2. CASE i \in 1..n
      BY <1>9, <2>7, <2>9, <3>2
    <3> QED BY <1>8, <3>1, <3>2
  <2> QED BY <1>3, <1>9, <2>6, <2>9 DEF CutPart
<1> QED BY <1>11, <1>12

(* Every step preserves what is known of a cut block.                      *)
LEMMA CutStep == LifeInv /\ WalkPart /\ CutPart /\ [Next]_vars => CutPart'
<1> SUFFICES ASSUME LifeInv, WalkPart, CutPart, [Next]_vars PROVE CutPart'
  OBVIOUS
<1>1. ASSUME pc' # "block", entries' = << >> PROVE CutPart'
  BY <1>1 DEF CutPart, CutCursor
<1>2. ASSUME Operation PROVE CutPart'
  BY <1>1, <1>2 DEF Operation, walkVars, WalkPart, WalkPosition
<1>3. CASE StartWalk
  BY <1>1, <1>3 DEF StartWalk, WalkPart, WalkPosition
<1>4. CASE ListEnd \/ Hole \/ BadReclen \/ BlockEnd
  BY <1>4, CutOutside DEF ListEnd, Hole, BadReclen, BlockEnd, LeaveBlock
<1>5. CASE EnterBlock
  BY <1>5, CutEnter
<1>6. CASE Slot
  BY <1>6, CutPush
<1>7. CASE UNCHANGED vars
  BY <1>7 DEF vars, dirVars, walkVars, CutPart, CutCursor, CutSlot
<1> QED BY <1>2, <1>3, <1>4, <1>5, <1>6, <1>7 DEF Next, Walk, Enter, Unlink

(* A block cut by the end of the image costs the names behind the cut and  *)
(* shortens at most the one that lies across it.                           *)
THEOREM CutNames == Spec => []CutShortensOneName
<1>1. Init => CutPart
  BY DEF Init, CutPart, CutCursor
<1>2. CutPart => CutShortensOneName
  BY DEF CutPart, CutSlot, CutShortensOneName
<1> QED BY <1>1, <1>2, CutStep, DirInvariant, PTL DEF Spec
=============================================================================
