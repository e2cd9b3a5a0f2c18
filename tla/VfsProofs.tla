----------------------------- MODULE VfsProofs -----------------------------
(***************************************************************************)
(* The theorems of VfsSession, for every set of volumes, every amount of   *)
(* each the source delivers and every session of a client; at the end      *)
(* those of PrimarySb, the search for the superblock that open begins with.*)
(***************************************************************************)
EXTENDS VfsSession, PrimarySb, CommonLemmas, SequenceTheorems

-----------------------------------------------------------------------------
(* Decoding: what the bytes of a volume can yield.                         *)

(* What the block map needs of a decoded inode.                            *)
IsInode(inode) ==
    /\ inode.size \in Nat
    /\ inode.direct \in [0..(UFS_NDADDR - 1) -> Addr]
    /\ inode.indirect \in [0..(UFS_NIADDR - 1) -> Addr]

(* The parts of a volume the proofs use.                                   *)
LEMMA VolumeFacts ==
    ASSUME NEW v \in Volumes
    PROVE  /\ v.bytes \in Seq(Byte) /\ v.bsize \in Nat \ {0}
           /\ PtrSize(v) \in {1, 2} /\ RegionLen(v) \in Nat
           /\ \A i \in Ino : /\ v.dinode[i].size \in Nat
                             /\ v.dinode[i].region \in Seq(Byte)
                             /\ v.slots[i] \in Seq(RawSlot)
<1>1. IsVolume(v)
  BY VolumeAssumption
<1>2. PtrSize(v) \in {1, 2}
  BY DEF PtrSize
<1>3. RegionLen(v) \in Nat
  BY <1>2, TreeAssumption DEF RegionLen, UFS_NIADDR
<1>4. v.bytes \in Seq(Byte) /\ v.bsize \in Nat \ {0}
  BY <1>1 DEF IsVolume
<1>5. ASSUME NEW i \in Ino
      PROVE  /\ v.dinode[i].size \in Nat
             /\ v.dinode[i].region \in Seq(Byte)
             /\ v.slots[i] \in Seq(RawSlot)
  BY <1>1 DEF IsVolume
<1> QED BY <1>2, <1>3, <1>4, <1>5

(* A byte is an integer.                                                   *)
LEMMA ByteInt == Byte \subseteq Nat
  BY VolumeAssumption

(* Two bytes make an address, whichever comes first.                       *)
LEMMA TwoBytes ==
    ASSUME NEW a \in Byte, NEW b \in Byte
    PROVE  a + Radix * b \in Addr /\ a \in Addr
<1>1. Radix \in Nat /\ a \in 0..(Radix - 1) /\ b \in 0..(Radix - 1)
  BY VolumeAssumption
<1>2. Radix * b \in Nat /\ Radix * b + Radix <= Radix * Radix
  <2>1. Radix - 1 - b \in Nat
    BY <1>1
  <2>2. Radix * (Radix - 1 - b) \in Nat
    BY <1>1, <2>1
  <2>3. Radix * (Radix - 1 - b) = Radix * Radix - Radix - Radix * b
    BY <1>1
  <2>4. Radix * b \in Nat /\ Radix * Radix \in Nat
    BY <1>1
  <2> QED BY <1>1, <2>2, <2>3, <2>4
<1>3. a + Radix * b \in 0..(Radix * Radix - 1) /\ a \in 0..(Radix * Radix - 1)
  BY <1>1, <1>2
<1> QED BY <1>3, VolumeAssumption

(* Whatever the bytes, a pointer is an address.                            *)
LEMMA WordType ==
    ASSUME NEW v \in Volumes, NEW bs \in Seq(Byte), NEW k \in Nat
    PROVE  WordAt(v, bs, k) \in Addr
<1> DEFINE p == PtrSize(v)
           w == SubSeq(bs, k * p + 1, (k + 1) * p)
<1>1. p \in {1, 2}
  BY VolumeFacts
<1>2. CASE (k + 1) * p <= Len(bs)
  <2>1. w \in Seq(Byte) /\ Len(w) = p
    <3>1. PICK m \in Nat : m = k * p
      BY <1>1
    <3>2. (k + 1) * p = m + p
      BY <1>1, <3>1
    <3>3. \A j \in (m + 1)..(m + p) : bs[j] \in Byte
      BY <1>1, <1>2, <3>2
    <3>4. SubSeq(bs, m + 1, m + p) \in Seq(Byte) /\ Len(SubSeq(bs, m + 1, m + p)) = p
      BY <1>1, <1>2, <3>2, <3>3, SubSeqProperties
    <3> QED BY <3>1, <3>2, <3>4
  <2>2. w[1] \in Byte /\ (p = 2 => w[2] \in Byte)
    <3> HIDE DEF p, w
    <3>1. 1 \in 1..Len(w) /\ (p = 2 => 2 \in 1..Len(w))
      BY <1>1, <2>1
    <3> QED BY <2>1, <3>1, ElementOfSeq
  <2> HIDE DEF w
  <2>3. Word(v, w) \in Addr
    <3>1. CASE p = 1
      BY <2>1, <2>2, <3>1, TwoBytes DEF Word
    <3>2. CASE p = 2
      <4>1. w[1] + Radix * w[2] \in Addr /\ w[2] + Radix * w[1] \in Addr
        BY <2>2, <3>2, TwoBytes
      <4>2. w[2] + Radix * w[1] = Radix * w[1] + w[2]
        <5>1. w[1] \in Int /\ w[2] \in Int /\ Radix \in Int
          BY <2>2, <3>2, VolumeAssumption, ByteInt
        <5>2. PICK z \in Int : z = Radix * w[1]
          BY <5>1
        <5> QED BY <5>1, <5>2
      <4> QED BY <2>1, <3>2, <4>1, <4>2 DEF Word
    <3> QED BY <1>1, <3>1, <3>2
  <2> QED BY <1>2, <2>3 DEF WordAt, w
<1>3. CASE ~((k + 1) * p <= Len(bs))
  BY <1>3, TreeAssumption DEF WordAt
<1> QED BY <1>2, <1>3

(* An inode decoded from a dinode has addresses for pointers.              *)
LEMMA InodeType ==
    ASSUME NEW v \in Volumes, NEW i \in Ino
    PROVE  /\ IsInode(parse_with_maxsymlink(v, v.dinode[i]))
           /\ parse_with_maxsymlink(v, v.dinode[i]).size = v.dinode[i].size
<1> DEFINE d == v.dinode[i]
<1>1. d.region \in Seq(Byte) /\ d.size \in Nat
  BY VolumeFacts
<1> HIDE DEF d
<1>2. \A k \in Nat : WordAt(v, d.region, k) \in Addr
  BY <1>1, WordType
<1>3. \A k \in 0..(UFS_NDADDR - 1) : WordAt(v, d.region, k) \in Addr
  BY <1>2, TreeAssumption
<1>4. \A k \in 0..(UFS_NIADDR - 1) : WordAt(v, d.region, UFS_NDADDR + k) \in Addr
  BY <1>2, TreeAssumption DEF UFS_NIADDR
<1>5. IsInode(parse_with_maxsymlink(v, d)) /\ parse_with_maxsymlink(v, d).size = d.size
  BY <1>1, <1>3, <1>4 DEF parse_with_maxsymlink, IsInode
<1> QED BY <1>5 DEF d

(* What is in memory of a block: the bytes of the volume from its address  *)
(* on, as many as a block has and the memory reaches.                      *)
LEMMA HeldFacts ==
    ASSUME NEW v \in Volumes, NEW n \in 0..Len(v.bytes), NEW a \in Nat
    PROVE  /\ Held(v, n, a) \in Seq(Byte)
           /\ Len(Held(v, n, a)) = IF a >= n THEN 0 ELSE IF a + v.bsize < n THEN v.bsize ELSE n - a
           /\ \A j \in 1..Len(Held(v, n, a)) : Held(v, n, a)[j] = v.bytes[a + j]
<1> DEFINE bs == v.bytes
           e == IF a + v.bsize < n THEN a + v.bsize ELSE n
<1>1. bs \in Seq(Byte) /\ v.bsize \in Nat \ {0} /\ Len(bs) \in Nat /\ n \in Nat /\ n <= Len(bs)
  BY VolumeFacts
<1> HIDE DEF bs
<1>2. CASE a >= n
  BY <1>2 DEF Held
<1>3. CASE ~(a >= n)
  <2>1. a + 1 \in Int /\ e \in Int /\ e > a /\ e <= Len(bs)
    BY <1>1, <1>3
  <2>2. \A j \in (a + 1)..e : bs[j] \in Byte
    BY <1>1, <2>1
  <2>3. Held(v, n, a) = SubSeq(bs, a + 1, e)
    BY <1>3 DEF Held, bs
  <2> HIDE DEF e
  <2>4. /\ SubSeq(bs, a + 1, e) \in Seq(Byte)
        /\ Len(SubSeq(bs, a + 1, e)) = IF a + 1 <= e THEN e - (a + 1) + 1 ELSE 0
        /\ \A j \in 1..(e - (a + 1) + 1) : SubSeq(bs, a + 1, e)[j] = bs[a + 1 + j - 1]
    BY <2>1, <2>2, SubSeqProperties
  <2>5. Len(SubSeq(bs, a + 1, e)) = e - a /\ e - (a + 1) + 1 = e - a
    BY <2>1, <2>4
  <2>6. \A j \in 1..(e - a) : a + 1 + j - 1 = a + j
    BY <2>1
  <2>7. e - a = IF a + v.bsize < n THEN v.bsize ELSE n - a
    BY <1>1 DEF e
  <2> QED BY <1>3, <2>3, <2>4, <2>5, <2>6, <2>7 DEF bs
<1> QED BY <1>2, <1>3

(* The file BlockTree is given is one it knows how to read.                *)
LEMMA FileOfIsFile ==
    ASSUME NEW v \in Volumes, NEW n \in 0..Len(v.bytes), NEW inode, IsInode(inode)
    PROVE  IsFile(FileOf(v, n, inode))
<1>1. v.bsize \in Nat \ {0} /\ PtrSize(v) \in {1, 2} /\ n \in Nat /\ Addr \subseteq Nat
  BY VolumeFacts, VolumeAssumption
<1>2. v.bsize \div PtrSize(v) \in Int
  BY <1>1
<1>3. \A a \in Addr \ {0} : Held(v, n, a) \in Seq(Byte)
  BY <1>1, HeldFacts
<1>4. ASSUME NEW a \in Addr \ {0}
      PROVE  [ k \in 1..(Len(Held(v, n, a)) \div PtrSize(v)) |-> WordAt(v, Held(v, n, a), k - 1) ] \in Seq(Addr)
  <2>1. Held(v, n, a) \in Seq(Byte)
    BY <1>3
  <2>2. Len(Held(v, n, a)) \div PtrSize(v) \in Nat
    BY <1>1, <2>1
  <2>3. \A k \in 1..(Len(Held(v, n, a)) \div PtrSize(v)) : WordAt(v, Held(v, n, a), k - 1) \in Addr
    BY <2>1, <2>2, WordType
  <2> QED BY <2>2, <2>3
<1> QED BY <1>1, <1>2, <1>3, <1>4 DEF IsFile, FileOf, IsInode

-----------------------------------------------------------------------------
(* Reading a file with less of the volume in memory.                       *)

IsPrefixSeq(s, t) == Len(s) <= Len(t) /\ \A j \in 1..Len(s) : s[j] = t[j]

(* f and g are one inode, f read with less of the volume in memory.        *)
Under(f, g) ==
    /\ f.bsize = g.bsize /\ f.nindir = g.nindir
    /\ f.direct = g.direct /\ f.indirect = g.indirect
    /\ \A a \in Addr \ {0} : IsPrefixSeq(f.ptrs[a], g.ptrs[a]) /\ IsPrefixSeq(f.data[a], g.data[a])

(* A pointer that less memory yields is the true one or a hole, even where *)
(* the pointer block was itself found through such pointers.               *)
LEMMA PointerUnder ==
    ASSUME NEW f, NEW g, IsFile(f), IsFile(g), Under(f, g),
           NEW b \in Addr, NEW a \in {0, b}, NEW i \in Nat
    PROVE  /\ indirect_ptr(f, a, i) \in {0, indirect_ptr(g, b, i)}
           /\ indirect_ptr(g, b, i) \in Addr
<1>1. indirect_ptr(g, b, i) \in Addr
  <2>1. CASE b # 0 /\ i < Len(g.ptrs[b])
    <3>1. g.ptrs[b] \in Seq(Addr)
      BY <2>1 DEF IsFile
    <3>2. i + 1 \in 1..Len(g.ptrs[b])
      BY <2>1, <3>1
    <3> QED BY <2>1, <3>1, <3>2 DEF indirect_ptr
  <2>2. CASE ~(b # 0 /\ i < Len(g.ptrs[b]))
    BY <2>2, TreeAssumption DEF indirect_ptr
  <2> QED BY <2>1, <2>2
<1>2. CASE a # 0 /\ i < Len(f.ptrs[a])
  <2>1. a = b /\ b \in Addr \ {0}
    BY <1>2
  <2>2. IsPrefixSeq(f.ptrs[b], g.ptrs[b]) /\ f.ptrs[b] \in Seq(Addr) /\ g.ptrs[b] \in Seq(Addr)
    BY <2>1 DEF Under, IsFile
  <2>3. i + 1 \in 1..Len(f.ptrs[b]) /\ i < Len(g.ptrs[b]) /\ f.ptrs[b][i + 1] = g.ptrs[b][i + 1]
    BY <1>2, <2>1, <2>2 DEF IsPrefixSeq
  <2> QED BY <1>1, <1>2, <2>1, <2>3 DEF indirect_ptr
<1>3. CASE ~(a # 0 /\ i < Len(f.ptrs[a]))
  BY <1>1, <1>3 DEF indirect_ptr
<1> QED BY <1>2, <1>3

(* So is the block a file offset resolves to.                              *)
LEMMA ResolveUnder ==
    ASSUME NEW f, NEW g, IsFile(f), IsFile(g), Under(f, g), NEW b \in Nat
    PROVE  /\ resolve_block(f, b, Fanout(f)) \in {0, resolve_block(g, b, Fanout(g))}
           /\ resolve_block(g, b, Fanout(g)) \in Addr
<1> DEFINE n == Fanout(g)
           i == b - UFS_NDADDR
           i2 == i - n
           i3 == i2 - n * n
<1>0. n \in Nat /\ UFS_NDADDR \in Nat \ {0} /\ 0 \in Addr /\ Fanout(f) = n
  BY TreeAssumption DEF Fanout, IsFile, Under
<1>d. f.direct = g.direct /\ f.indirect = g.indirect
  BY DEF Under
<1> SUFFICES /\ resolve_block(f, b, n) \in {0, resolve_block(g, b, n)}
             /\ resolve_block(g, b, n) \in Addr
  BY <1>0
<1>1. CASE b < UFS_NDADDR
  <2>1. b \in 0..(UFS_NDADDR - 1)
    BY <1>0, <1>1
  <2> QED BY <1>1, <1>d, <2>1 DEF resolve_block, IsFile
<1>2. CASE ~(b < UFS_NDADDR) /\ n = 0
  BY <1>0, <1>2 DEF resolve_block
<1>3. CASE ~(b < UFS_NDADDR) /\ n # 0
  <2>0. g.indirect[0] \in Addr /\ g.indirect[1] \in Addr /\ g.indirect[2] \in Addr
    BY DEF IsFile, UFS_NIADDR
  <2>1. CASE i < n
    <3>1. i \in Nat
      BY <1>0, <1>3
    <3>2. /\ indirect_ptr(f, g.indirect[0], i) \in {0, indirect_ptr(g, g.indirect[0], i)}
          /\ indirect_ptr(g, g.indirect[0], i) \in Addr
      BY <2>0, <3>1, PointerUnder
    <3> QED BY <1>3, <1>d, <2>1, <3>2 DEF resolve_block
  <2>2. CASE ~(i < n) /\ i2 < n * n
    <3>1. i2 \in Nat
      BY <1>0, <1>3, <2>2
    <3>2. i2 \div n \in Nat /\ i2 % n \in Nat
      <4>1. n \in Nat \ {0}
        BY <1>0, <1>3
      <4> HIDE DEF i2, n
      <4> QED BY <3>1, <4>1, NumberOf
    <3> DEFINE p(h) == indirect_ptr(h, g.indirect[1], i2 \div n)
               q(h) == indirect_ptr(h, p(h), i2 % n)
    <3>3. p(f) \in {0, p(g)} /\ p(g) \in Addr
      BY <2>0, <3>2, PointerUnder
    <3>4. q(f) \in {0, q(g)} /\ q(g) \in Addr
      <4> HIDE DEF p
      <4> QED BY <3>2, <3>3, PointerUnder
    <3>5. resolve_block(f, b, n) = q(f) /\ resolve_block(g, b, n) = q(g)
      BY <1>3, <1>d, <2>2 DEF resolve_block
    <3> QED BY <3>4, <3>5
  <2>3. CASE ~(i < n) /\ ~(i2 < n * n) /\ ~(i3 >= n * n * n)
    <3> DEFINE m == n * n
               r == i3 % m
    <3>1. i3 \in Nat /\ m \in Nat \ {0}
      BY <1>0, <1>3, <2>3
    <3>2. i3 \div m \in Nat /\ r \in Nat
      <4> HIDE DEF i3, m
      <4> QED BY <3>1, NumberOf
    <3>3. r \div n \in Nat /\ r % n \in Nat
      <4>1. n \in Nat \ {0}
        BY <1>0, <1>3
      <4>2. r \in Nat
        BY <3>2
      <4> HIDE DEF r, n
      <4> QED BY <4>1, <4>2, NumberOf
    <3> DEFINE p(h) == indirect_ptr(h, g.indirect[2], i3 \div m)
               q(h) == indirect_ptr(h, p(h), r \div n)
               s(h) == indirect_ptr(h, q(h), r % n)
    <3>4. p(f) \in {0, p(g)} /\ p(g) \in Addr
      BY <2>0, <3>2, PointerUnder
    <3>5. q(f) \in {0, q(g)} /\ q(g) \in Addr
      <4> HIDE DEF p
      <4> QED BY <3>3, <3>4, PointerUnder
    <3>6. s(f) \in {0, s(g)} /\ s(g) \in Addr
      <4> HIDE DEF q
      <4> QED BY <3>3, <3>5, PointerUnder
    <3>7. resolve_block(f, b, n) = s(f) /\ resolve_block(g, b, n) = s(g)
      BY <1>3, <1>d, <2>3 DEF resolve_block
    <3> QED BY <3>6, <3>7
  <2>4. CASE ~(i < n) /\ ~(i2 < n * n) /\ i3 >= n * n * n
    BY <1>0, <1>3, <2>4 DEF resolve_block
  <2> QED BY <2>1, <2>2, <2>3, <2>4
<1> QED BY <1>1, <1>2, <1>3

(* A byte of a block: the data's where there is some, else zero.           *)
LEMMA BlockByte ==
    ASSUME NEW f, IsFile(f), NEW a \in Addr, NEW len \in Nat, NEW m \in 0..(len - 1)
    PROVE  /\ BlockBytes(f, a, len)[m + 1] =
                IF a # 0 /\ m < Len(f.data[a]) THEN f.data[a][m + 1] ELSE 0
           /\ BlockBytes(f, a, len)[m + 1] \in Byte
<1> DEFINE d == f.data[a]
           c == IF len < Len(d) THEN len ELSE Len(d)
           b == IF a = 0 THEN << >> ELSE read_block(f, a, len)
           z == Zeros(len - Len(b))
<1>1. /\ Len(b) \in 0..len /\ b \in Seq(Byte)
      /\ a = 0 => Len(b) = 0
      /\ a # 0 => d \in Seq(Byte) /\ Len(b) = c /\ \A j \in 1..c : b[j] = d[j]
  <2>1. CASE a = 0
    BY <2>1
  <2>2. CASE a # 0
    <3>1. d \in Seq(Byte)
      BY <2>2 DEF IsFile
    <3> HIDE DEF d
    <3>2. c \in 0..Len(d) /\ c \in 0..len /\ c \in Int
      BY <3>1
    <3>3. b = SubSeq(d, 1, c)
      BY <2>2 DEF read_block, d
    <3> HIDE DEF b, c
    <3>4. \A j \in 1..c : d[j] \in Byte
      BY <3>1, <3>2
    <3>5. /\ SubSeq(d, 1, c) \in Seq(Byte)
          /\ Len(SubSeq(d, 1, c)) = IF 1 <= c THEN c - 1 + 1 ELSE 0
          /\ \A j \in 1..(c - 1 + 1) : SubSeq(d, 1, c)[j] = d[1 + j - 1]
      BY <3>2, <3>4, SubSeqProperties
    <3>6. \A j \in 1..c : 1 + j - 1 = j
      BY <3>2
    <3> QED BY <2>2, <3>1, <3>2, <3>3, <3>5, <3>6 DEF d
  <2> QED BY <2>1, <2>2
<1>2. z \in Seq(Byte) /\ Len(z) = len - Len(b) /\ \A j \in 1..Len(z) : z[j] = 0
  <2>1. len - Len(b) \in Nat
    BY <1>1
  <2> HIDE DEF b
  <2> QED BY <2>1, TreeAssumption DEF Zeros
<1>3. BlockBytes(f, a, len) = b \o z
  BY DEF BlockBytes
<1> HIDE DEF b, z
<1>4. /\ Len(b \o z) = len
      /\ \A j \in 1..len : (b \o z)[j] = IF j <= Len(b) THEN b[j] ELSE z[j - Len(b)]
  BY <1>1, <1>2, ConcatProperties
<1>5. CASE m + 1 <= Len(b)
  <2>1. a # 0
    BY <1>1, <1>5
  <2>2. m + 1 \in 1..c /\ m < Len(d) /\ m + 1 \in 1..Len(b) /\ m + 1 \in 1..len
    BY <1>1, <1>5, <2>1
  <2> QED BY <1>1, <1>3, <1>4, <1>5, <2>1, <2>2
<1>6. CASE ~(m + 1 <= Len(b))
  <2>1. m + 1 - Len(b) \in 1..Len(z) /\ m + 1 \in 1..len
    BY <1>1, <1>2, <1>6
  <2>2. a # 0 => ~(m < Len(d))
    BY <1>1, <1>6
  <2>3. (b \o z)[m + 1] = 0
    BY <1>2, <1>4, <1>6, <2>1
  <2> QED BY <1>3, <2>2, <2>3, TreeAssumption
<1> QED BY <1>5, <1>6

(* A byte of content that less memory yields is the true one or a zero.    *)
LEMMA ContentUnder ==
    ASSUME NEW f, NEW g, IsFile(f), IsFile(g), Under(f, g), NEW j \in Nat
    PROVE  /\ ContentByte(f, j) \in {0, ContentByte(g, j)}
           /\ ContentByte(g, j) \in Byte
<1> DEFINE w == g.bsize
           a == resolve_block(f, j \div w, Fanout(f))
           b == resolve_block(g, j \div w, Fanout(g))
           m == j % w
<1>1. w \in Nat \ {0} /\ f.bsize = w
  BY DEF IsFile, Under
<1> HIDE DEF w
<1>2. j \div w \in Nat /\ m \in 0..(w - 1)
  BY <1>1, NumberOf
<1>3. a \in {0, b} /\ b \in Addr /\ a \in Addr
  BY <1>2, ResolveUnder, TreeAssumption
<1>4. ContentByte(f, j) = BlockBytes(f, a, w)[m + 1] /\ ContentByte(g, j) = BlockBytes(g, b, w)[m + 1]
  BY <1>1 DEF ContentByte, w
<1> HIDE DEF a, b, m
<1>5. /\ BlockBytes(f, a, w)[m + 1] = IF a # 0 /\ m < Len(f.data[a]) THEN f.data[a][m + 1] ELSE 0
      /\ BlockBytes(g, b, w)[m + 1] = IF b # 0 /\ m < Len(g.data[b]) THEN g.data[b][m + 1] ELSE 0
      /\ BlockBytes(g, b, w)[m + 1] \in Byte
  BY <1>1, <1>2, <1>3, BlockByte
<1>6. CASE a # 0 /\ m < Len(f.data[a])
  <2>1. a = b /\ b \in Addr \ {0}
    BY <1>3, <1>6
  <2>2. IsPrefixSeq(f.data[b], g.data[b]) /\ f.data[b] \in Seq(Byte) /\ g.data[b] \in Seq(Byte)
    BY <2>1 DEF Under, IsFile
  <2>3. m + 1 \in 1..Len(f.data[b]) /\ m < Len(g.data[b])
    BY <1>2, <1>6, <2>1, <2>2 DEF IsPrefixSeq
  <2>4. f.data[b][m + 1] = g.data[b][m + 1]
    BY <2>2, <2>3 DEF IsPrefixSeq
  <2> QED BY <1>4, <1>5, <1>6, <2>1, <2>3, <2>4
<1>7. CASE ~(a # 0 /\ m < Len(f.data[a]))
  BY <1>4, <1>5, <1>7
<1> QED BY <1>6, <1>7

(* A word that lies in the shorter run of bytes is the same in the longer. *)
LEMMA WordUnder ==
    ASSUME NEW v \in Volumes, NEW bs \in Seq(Byte), NEW cs \in Seq(Byte), IsPrefixSeq(bs, cs),
           NEW k \in Nat, (k + 1) * PtrSize(v) <= Len(bs)
    PROVE  WordAt(v, bs, k) = WordAt(v, cs, k)
<1> DEFINE p == PtrSize(v)
<1>1. p \in {1, 2}
  BY VolumeFacts
<1>2. PICK m \in Nat : m = k * p
  BY <1>1
<1>3. (k + 1) * p = m + p
  BY <1>1, <1>2
<1>4. m + p <= Len(bs) /\ m + p <= Len(cs) /\ Len(bs) \in Nat /\ Len(cs) \in Nat
  BY <1>1, <1>3 DEF IsPrefixSeq
<1> DEFINE s == SubSeq(bs, m + 1, m + p)
           t == SubSeq(cs, m + 1, m + p)
<1>5. \A j \in (m + 1)..(m + p) : j \in 1..Len(bs) /\ j \in 1..Len(cs) /\ bs[j] \in Byte /\ cs[j] \in Byte
  BY <1>1, <1>4
<1>6. /\ s \in Seq(Byte) /\ t \in Seq(Byte) /\ Len(s) = p /\ Len(t) = p
      /\ \A j \in 1..p : s[j] = bs[m + 1 + j - 1] /\ t[j] = cs[m + 1 + j - 1]
  <2> HIDE DEF p
  <2>1. m + 1 \in Int /\ m + p \in Int /\ p \in Nat /\ m + p - (m + 1) + 1 = p
    BY <1>1
  <2> QED BY <1>1, <1>5, <2>1, SubSeqProperties
<1>7. \A j \in 1..p : s[j] = t[j]
  <2> SUFFICES ASSUME NEW j \in 1..p PROVE s[j] = t[j]
    OBVIOUS
  <2>1. m + 1 + j - 1 \in 1..Len(bs)
    BY <1>1, <1>4
  <2> QED BY <1>6, <2>1 DEF IsPrefixSeq
<1> HIDE DEF s, t
<1>8. s = t
  BY <1>6, <1>7, SeqEqual
<1> QED BY <1>2, <1>3, <1>4, <1>8 DEF WordAt, s, t

(* The file read from less of a volume is under the one read from more.    *)
LEMMA FileUnder ==
    ASSUME NEW v \in Volumes, NEW n \in 0..Len(v.bytes), NEW N \in 0..Len(v.bytes), n <= N, NEW inode
    PROVE  Under(FileOf(v, n, inode), FileOf(v, N, inode))
<1> DEFINE p == PtrSize(v)
           F == FileOf(v, n, inode)
           G == FileOf(v, N, inode)
<1>1. p \in {1, 2} /\ v.bsize \in Nat \ {0} /\ n \in Nat /\ N \in Nat
  BY VolumeFacts
<1>2. ASSUME NEW a \in Addr \ {0}
      PROVE  IsPrefixSeq(F.ptrs[a], G.ptrs[a]) /\ IsPrefixSeq(F.data[a], G.data[a])
  <2> DEFINE h == Held(v, n, a)
             k == Held(v, N, a)
             hl == Len(h) \div p
             kl == Len(k) \div p
  <2>1. /\ h \in Seq(Byte) /\ k \in Seq(Byte) /\ a \in Nat
        /\ \A j \in 1..Len(h) : h[j] = v.bytes[a + j]
        /\ \A j \in 1..Len(k) : k[j] = v.bytes[a + j]
    BY VolumeAssumption, HeldFacts
  <2>2. Len(h) <= Len(k)
    <3>1. /\ Len(h) = IF a >= n THEN 0 ELSE IF a + v.bsize < n THEN v.bsize ELSE n - a
          /\ Len(k) = IF a >= N THEN 0 ELSE IF a + v.bsize < N THEN v.bsize ELSE N - a
      BY <2>1, HeldFacts
    <3> HIDE DEF h, k
    <3> QED BY <1>1, <2>1, <3>1
  <2>3. /\ F.data[a] = h /\ F.ptrs[a] = [ j \in 1..hl |-> WordAt(v, h, j - 1) ]
        /\ G.data[a] = k /\ G.ptrs[a] = [ j \in 1..kl |-> WordAt(v, k, j - 1) ]
    BY DEF FileOf
  <2> HIDE DEF h, k, p, F, G
  <2>4. IsPrefixSeq(h, k)
    <3>1. \A j \in 1..Len(h) : j \in 1..Len(k)
      BY <2>1, <2>2
    <3> QED BY <2>1, <2>2, <3>1 DEF IsPrefixSeq
  <2>5. hl \in Nat /\ kl \in Nat /\ hl <= kl
    <3>1. Len(h) \in Nat /\ Len(k) \in Nat
      BY <2>1
    <3>2. CASE p = 1
      BY <2>2, <3>1, <3>2
    <3>3. CASE p = 2
      BY <2>2, <3>1, <3>3
    <3> QED BY <1>1, <3>2, <3>3
  <2>6. ASSUME NEW j \in 1..hl PROVE WordAt(v, h, j - 1) = WordAt(v, k, j - 1)
    <3>1. j - 1 \in Nat /\ (j - 1 + 1) * p <= Len(h)
      <4>1. Len(h) \in Nat
        BY <2>1
      <4>2. CASE p = 1
        BY <4>1, <4>2
      <4>3. CASE p = 2
        BY <4>1, <4>3
      <4> QED BY <1>1, <4>2, <4>3
    <3> QED BY <2>1, <2>4, <3>1, WordUnder DEF p
  <2>7. Len(F.ptrs[a]) = hl /\ Len(G.ptrs[a]) = kl
    BY <2>3, <2>5
  <2>8. \A j \in 1..hl : F.ptrs[a][j] = G.ptrs[a][j]
    <3>1. \A j \in 1..hl : j \in 1..kl
      BY <2>5
    <3> QED BY <2>3, <2>6, <3>1
  <2> QED BY <2>3, <2>4, <2>5, <2>7, <2>8 DEF IsPrefixSeq
<1> QED BY <1>2 DEF Under, FileOf

-----------------------------------------------------------------------------
(* The operations of the reader.                                           *)

(* read_inode decodes the dinode or refuses; more memory refuses less.     *)
LEMMA ReadInodeFacts ==
    ASSUME NEW v \in Volumes, NEW i \in Ino, NEW n \in Nat, NEW N \in Nat, n <= N
    PROVE  /\ read_inode(v, n, i).ok \in BOOLEAN
           /\ read_inode(v, n, i).ok =>
                 /\ read_inode(v, n, i) = Ok(parse_with_maxsymlink(v, v.dinode[i]))
                 /\ read_inode(v, N, i) = read_inode(v, n, i)
<1>1. v.dinode[i].pos \in Nat
  <2>1. IsVolume(v)
    BY VolumeAssumption
  <2> QED BY <2>1 DEF IsVolume
<1>2. CASE i >= v.count
  BY <1>2 DEF read_inode, Err
<1>3. CASE ~(i >= v.count) /\ v.dinode[i].pos >= n
  BY <1>3 DEF read_inode, Err
<1>4. CASE ~(i >= v.count) /\ ~(v.dinode[i].pos >= n)
  <2>1. ~(v.dinode[i].pos >= N)
    BY <1>1, <1>4
  <2> QED BY <1>4, <2>1 DEF read_inode, Ok
<1> QED BY <1>2, <1>3, <1>4

(* read_file yields di_size bytes, each the one the block map leads to.    *)
LEMMA ReadFileFacts ==
    ASSUME NEW v \in Volumes, NEW i \in Ino, NEW n \in 0..Len(v.bytes),
           NEW d, d = parse_with_maxsymlink(v, v.dinode[i]),
           NEW r, r = read_file(v, n, i)
    PROVE  /\ r.ok \in BOOLEAN
           /\ r.ok <=> read_inode(v, n, i).ok /\ d.size <= n
           /\ r.ok => /\ r.value \in Seq(Byte) /\ Len(r.value) = d.size /\ r = Ok(r.value)
                      /\ \A j \in 1..d.size : r.value[j] = ContentByte(FileOf(v, n, d), j - 1)
<1> DEFINE q == read_inode(v, n, i)
           f == FileOf(v, n, d)
           c == [ j \in 1..d.size |-> ContentByte(f, j - 1) ]
<1>1. n \in Nat /\ d.size \in Nat /\ IsInode(d)
  BY VolumeFacts, InodeType DEF IsInode
<1>2. IsFile(f)
  BY <1>1, FileOfIsFile
<1>3. Under(f, f)
  BY <1>1, FileUnder
<1>4. q.ok \in BOOLEAN /\ (q.ok => q = Ok(d))
  BY <1>1, ReadInodeFacts
<1> HIDE DEF q, f
<1>5. \A j \in 1..d.size : ContentByte(f, j - 1) \in Byte
  <2> SUFFICES ASSUME NEW j \in 1..d.size PROVE ContentByte(f, j - 1) \in Byte
    OBVIOUS
  <2>1. j - 1 \in Nat
    BY <1>1
  <2> QED BY <1>2, <1>3, <2>1, ContentUnder
<1>6. c \in Seq(Byte) /\ Len(c) = d.size
  BY <1>1, <1>5
<1>7. CASE ~q.ok
  BY <1>4, <1>7 DEF read_file, q
<1>8. CASE q.ok /\ d.size > n
  <2>1. r = Err("ImpossibleGeometry")
    BY <1>4, <1>8 DEF read_file, read_inode_file, q, Ok
  <2> QED BY <1>1, <1>8, <2>1 DEF Err, q
<1>9. CASE q.ok /\ ~(d.size > n)
  <2>1. r = Ok(c)
    <3>1. q.value = d
      BY <1>4, <1>9 DEF Ok
    <3>2. r = read_inode_file(v, n, d)
      BY <1>9, <3>1 DEF read_file, q
    <3> QED BY <1>9, <3>2 DEF read_inode_file, f
  <2>2. r.ok = TRUE /\ r.value = c
    BY <2>1 DEF Ok
  <2>3. d.size <= n
    BY <1>1, <1>9
  <2>4. \A j \in 1..d.size : c[j] = ContentByte(f, j - 1)
    OBVIOUS
  <2> HIDE DEF c
  <2> QED BY <1>6, <1>9, <2>1, <2>2, <2>3, <2>4 DEF q, f
<1> QED BY <1>4, <1>7, <1>8, <1>9

(* What less memory reads of a file, more memory reads too, byte for byte  *)
(* but for zeros.                                                          *)
LEMMA ReadFileUnder ==
    ASSUME NEW v \in Volumes, NEW i \in Ino,
           NEW n \in 0..Len(v.bytes), NEW N \in 0..Len(v.bytes), n <= N,
           NEW r, r = read_file(v, n, i), r.ok,
           NEW R, R = read_file(v, N, i)
    PROVE  /\ R.ok /\ Len(R.value) = Len(r.value)
           /\ \A j \in 1..Len(r.value) : r.value[j] \in {0, R.value[j]}
<1> DEFINE d == parse_with_maxsymlink(v, v.dinode[i])
<1>1. n \in Nat /\ N \in Nat /\ d.size \in Nat /\ IsInode(d)
  BY VolumeFacts, InodeType DEF IsInode
<1> HIDE DEF d
<1>2. /\ read_inode(v, n, i).ok /\ d.size <= n /\ Len(r.value) = d.size
      /\ \A j \in 1..d.size : r.value[j] = ContentByte(FileOf(v, n, d), j - 1)
  BY ReadFileFacts DEF d
<1>3. read_inode(v, N, i).ok /\ d.size <= N
  <2>1. read_inode(v, N, i) = read_inode(v, n, i)
    BY <1>1, <1>2, ReadInodeFacts
  <2> QED BY <1>1, <1>2, <2>1
<1>4. /\ R.ok /\ Len(R.value) = d.size
      /\ \A j \in 1..d.size : R.value[j] = ContentByte(FileOf(v, N, d), j - 1)
  BY <1>3, ReadFileFacts DEF d
<1>5. /\ IsFile(FileOf(v, n, d)) /\ IsFile(FileOf(v, N, d))
      /\ Under(FileOf(v, n, d), FileOf(v, N, d))
  BY <1>1, FileOfIsFile, FileUnder
<1>6. ASSUME NEW j \in 1..d.size PROVE r.value[j] \in {0, R.value[j]}
  <2>1. j - 1 \in Nat
    BY <1>1
  <2>2. ContentByte(FileOf(v, n, d), j - 1) \in {0, ContentByte(FileOf(v, N, d), j - 1)}
    BY <1>5, <2>1, ContentUnder
  <2> QED BY <1>2, <1>4, <2>2
<1> QED BY <1>2, <1>4, <1>6

(* An error of the reader stays an error for the client.                   *)
LEMMA MapErrFacts ==
    ASSUME NEW r, r.ok \in BOOLEAN
    PROVE  map_err(r).ok = r.ok /\ (r.ok => map_err(r) = r)
  BY DEF map_err, Err

(* A listing holds slots of the directory, each with an inode number that  *)
(* is not zero.                                                            *)
LEMMA ListFacts ==
    ASSUME NEW v \in Volumes, NEW i \in Ino, NEW n \in Nat, NEW r, r = list_dir(v, n, i)
    PROVE  /\ r.ok \in BOOLEAN /\ (r.ok <=> read_inode(v, n, i).ok)
           /\ r.ok => /\ DOMAIN r.value \subseteq Nat
                      /\ \A k \in DOMAIN r.value : r.value[k].ino \in Ino \ {0}
<1> DEFINE s == v.slots[i]
           q == read_inode(v, n, i)
           D == { j \in DOMAIN s : s[j].pos < n /\ (TRUE => s[j].ino # 0) }
<1>1. s \in Seq(RawSlot) /\ q.ok \in BOOLEAN
  BY VolumeFacts, ReadInodeFacts
<1> HIDE DEF s, q
<1>2. r = IF q.ok THEN Ok(Slots(v, n, i, TRUE)) ELSE q
  BY DEF list_dir, q
<1>3. \A k \in D : k \in Nat /\ s[k].ino \in Ino \ {0}
  <2> SUFFICES ASSUME NEW k \in D PROVE k \in Nat /\ s[k].ino \in Ino \ {0}
    OBVIOUS
  <2>1. k \in 1..Len(s) /\ s[k].ino # 0
    BY <1>1
  <2>2. s[k] \in RawSlot
    BY <1>1, <2>1, ElementOfSeq
  <2> QED BY <1>1, <2>1, <2>2 DEF RawSlot
<1>4. /\ DOMAIN Slots(v, n, i, TRUE) = D
      /\ \A k \in D : Slots(v, n, i, TRUE)[k].ino = s[k].ino
  BY DEF Slots, s
<1> HIDE DEF D
<1>5. Ok(Slots(v, n, i, TRUE)).ok = TRUE /\ Ok(Slots(v, n, i, TRUE)).value = Slots(v, n, i, TRUE)
  BY DEF Ok
<1> QED BY <1>1, <1>2, <1>3, <1>4, <1>5 DEF q

(* A lookup finds the first entry of a name, if there is one.              *)
LEMMA FindFacts ==
    ASSUME NEW es, DOMAIN es \subseteq Nat, NEW name
    PROVE  \/ /\ Find(es, name) = None
              /\ \A k \in DOMAIN es : es[k].name # name
           \/ \E j \in DOMAIN es :
                 /\ es[j].name = name /\ Find(es, name) = Some(es[j].ino)
                 /\ \A h \in DOMAIN es : es[h].name = name => j <= h
<1> DEFINE hits == { k \in DOMAIN es : es[k].name = name }
           j == CHOOSE k \in hits : \A m \in hits : k <= m
<1>1. CASE hits = {}
  BY <1>1 DEF Find
<1>2. CASE hits # {}
  <2>1. \E k \in hits : \A m \in hits : k <= m
    BY <1>2, LeastElement
  <2>2. j \in hits /\ \A m \in hits : j <= m
    BY <2>1
  <2>3. Find(es, name) = Some(es[j].ino)
    BY <1>2 DEF Find
  <2> HIDE DEF j
  <2> QED BY <2>2, <2>3
<1> QED BY <1>1, <1>2

-----------------------------------------------------------------------------
(* The session.                                                            *)

(* What the windows gave so far is that stretch of the file.               *)
WindowsHeld ==
    got # << >> =>
        /\ Contents.ok /\ base + Len(got) <= Len(Contents.value)
        /\ \A j \in 1..Len(got) : got[j] = Contents.value[base + j]

(* A window that came back short reached the end.                          *)
EndSeen ==
    answer.call = "read_at" /\ answer.result.ok /\ answer.result.value < answer.len =>
        base + Len(got) >= Len(Contents.value)

(* The last answer is about the node the client still holds.               *)
LastAnswer ==
    /\ answer.call = "read_dir" => answer.result = Listing(node)
    /\ answer.call = "meta" => answer.result = MetaOf(vol, have, node)
    /\ answer.call = "extents" => answer.result = ExtentsOf(node)

(* Nothing was asked of a volume that is not open.                         *)
Untouched == mount = "closed" => base = 0 /\ got = << >> /\ answer.call = "none"

(* The inductive invariant of a session.                                   *)
SessionInv == TypeOK /\ WindowsHeld /\ EndSeen /\ LastAnswer /\ Untouched

(* What is true of every state of a session.                               *)
LEMMA SessionTypes ==
    ASSUME TypeOK
    PROVE  /\ vol \in Volumes /\ vol.bytes \in Seq(Byte) /\ vol.bsize \in Nat \ {0} /\ Len(vol.bytes) \in Nat
           /\ have \in 0..Len(vol.bytes) /\ have \in Nat /\ node \in Ino /\ base \in Nat
           /\ got \in Seq(Byte) /\ Len(got) \in Nat /\ trail \in Seq(Name) /\ Len(trail) \in Nat
<1>1. vol \in Volumes /\ have \in 0..Len(vol.bytes) /\ node \in Ino /\ base \in Nat /\ got \in Seq(Byte) /\ trail \in Seq(Name)
  BY DEF TypeOK
<1>2. vol.bytes \in Seq(Byte) /\ vol.bsize \in Nat \ {0}
  BY <1>1, VolumeFacts
<1> QED BY <1>1, <1>2

(* A mount begins at the root with nothing read.                           *)
LEMMA SessionInit == Init => SessionInv
<1> SUFFICES ASSUME Init PROVE SessionInv
  OBVIOUS
<1>1. vol.bytes \in Seq(Byte)
  BY VolumeFacts DEF Init
<1>2. 0 \in 0..Len(vol.bytes)
  BY <1>1
<1>3. TypeOK
  BY <1>2, VolumeAssumption DEF Init, TypeOK
<1>4. WindowsHeld /\ EndSeen /\ LastAnswer /\ Untouched
  BY DEF Init, WindowsHeld, EndSeen, LastAnswer, Untouched
<1> QED BY <1>3, <1>4 DEF SessionInv

(* A call that answers about the node and changes nothing else.            *)
LEMMA AnswerKeeps ==
    ASSUME SessionInv, Fresh, Stay, NEW c, NEW x, Answer(c, x), c \notin {"read_at", "none"},
           c = "read_dir" => x = Listing(node),
           c = "meta" => x = MetaOf(vol, have, node),
           c = "extents" => x = ExtentsOf(node)
    PROVE  SessionInv'
<1>1. /\ vol' = vol /\ have' = have /\ mount' = mount /\ node' = node /\ trail' = trail /\ base' = base
      /\ got' = got /\ got = << >> /\ mount = "open" /\ answer'.call = c /\ answer'.result = x
  BY DEF Fresh, Holds, Stay, Answer
<1>2. TypeOK'
  BY <1>1 DEF SessionInv, TypeOK
<1>3. WindowsHeld' /\ EndSeen' /\ Untouched'
  BY <1>1 DEF WindowsHeld, EndSeen, Untouched
<1>4. Listing(node)' = Listing(node) /\ ExtentsOf(node)' = ExtentsOf(node)
  BY <1>1 DEF Listing, entry_kind, ExtentsOf, RunsOf
<1>5. LastAnswer'
  BY <1>1, <1>4 DEF LastAnswer
<1> QED BY <1>2, <1>3, <1>5 DEF SessionInv

(* A window is what the file holds from its offset on, as far as the       *)
(* buffer and the file reach.                                              *)
LEMMA WindowFacts ==
    ASSUME NEW file \in Seq(Byte), NEW off \in Nat, NEW len \in Nat, NEW w, w = Window(file, off, len)
    PROVE  /\ w \in Seq(Byte)
           /\ off > Len(file) => w = << >>
           /\ off <= Len(file) => Len(w) = (IF off + len < Len(file) THEN off + len ELSE Len(file)) - off
           /\ \A j \in 1..Len(w) : w[j] = file[off + j]
<1> DEFINE e == IF off + len < Len(file) THEN off + len ELSE Len(file)
<1>1. Len(file) \in Nat
  OBVIOUS
<1>2. CASE off > Len(file)
  BY <1>1, <1>2 DEF Window
<1>3. CASE ~(off > Len(file))
  <2>1. off + 1 \in Int /\ e \in Int /\ e >= off /\ e <= Len(file)
    BY <1>1, <1>3
  <2>2. w = SubSeq(file, off + 1, e)
    BY <1>3 DEF Window
  <2>3. \A j \in (off + 1)..e : file[j] \in Byte
    BY <1>1, <2>1
  <2> DEFINE z == e
  <2>4. z = e
    OBVIOUS
  <2> HIDE DEF e, z
  <2>5. /\ SubSeq(file, off + 1, e) \in Seq(Byte)
        /\ Len(SubSeq(file, off + 1, e)) = IF off + 1 <= e THEN e - (off + 1) + 1 ELSE 0
        /\ \A j \in 1..(e - (off + 1) + 1) : SubSeq(file, off + 1, e)[j] = file[off + 1 + j - 1]
    BY <2>1, <2>3, SubSeqProperties
  <2>6. Len(w) = e - off
    BY <2>1, <2>2, <2>5
  <2>7. ASSUME NEW j \in 1..Len(w) PROVE w[j] = file[off + j]
    <3>1. j \in 1..(e - (off + 1) + 1) /\ off + 1 + j - 1 = off + j
      BY <2>1, <2>6
    <3> QED BY <2>2, <2>5, <3>1
  <2> QED BY <1>1, <1>3, <2>2, <2>5, <2>6, <2>7 DEF e
<1> QED BY <1>1, <1>2, <1>3

(* The next window continues the ones before it.                           *)
LEMMA ReadAtKeeps ==
    ASSUME SessionInv, NEW len \in Windows, ReadAt(len)
    PROVE  SessionInv'
<1> DEFINE C == Contents
           off == base + Len(got)
           w == Window(C.value, off, len)
<1>0. TypeOK /\ len \in Nat
  BY VolumeAssumption DEF SessionInv
<1>1. /\ vol' = vol /\ have' = have /\ mount' = mount /\ node' = node /\ trail' = trail /\ base' = base
      /\ mount = "open" /\ answer'.call = "read_at" /\ answer'.len = len
  BY DEF ReadAt, Holds
<1>2. Contents' = C
  BY <1>1 DEF Contents
<1>3. C.ok \in BOOLEAN /\ (C.ok => C.value \in Seq(Byte))
  <2>1. C = read_file(vol, have, node)
    BY DEF Contents
  <2> QED BY <1>0, <2>1, SessionTypes, ReadFileFacts
<1>4. map_err(C).ok = C.ok /\ (C.ok => map_err(C) = C)
  BY <1>3, MapErrFacts
<1>5. off \in Nat
  BY <1>0, SessionTypes
<1>6. Untouched' /\ LastAnswer'
  BY <1>1 DEF Untouched, LastAnswer
<1>7. CASE ~C.ok
  <2>1. got' = got /\ answer'.result.ok = FALSE
    BY <1>3, <1>4, <1>7 DEF ReadAt, Contents
  <2>2. TypeOK' /\ WindowsHeld'
    BY <1>1, <1>2, <2>1 DEF SessionInv, TypeOK, WindowsHeld
  <2>3. EndSeen'
    BY <2>1 DEF EndSeen
  <2> QED BY <1>6, <2>2, <2>3 DEF SessionInv
<1>8. CASE C.ok
  <2>1. got' = got \o w /\ answer'.result = Ok(Len(w))
    BY <1>4, <1>8 DEF ReadAt, Contents
  <2>2. answer'.result.value = Len(w)
    BY <2>1 DEF Ok
  <2> HIDE DEF C
  <2>3. /\ w \in Seq(Byte)
        /\ off > Len(C.value) => w = << >>
        /\ off <= Len(C.value) => Len(w) = (IF off + len < Len(C.value) THEN off + len ELSE Len(C.value)) - off
        /\ \A j \in 1..Len(w) : w[j] = C.value[off + j]
    <3> HIDE DEF off
    <3> QED BY <1>0, <1>3, <1>5, <1>8, WindowFacts
  <2> HIDE DEF w
  <2>4. Len(C.value) \in Nat /\ Len(w) \in Nat /\ base \in Nat /\ Len(got) \in Nat /\ got \in Seq(Byte)
    BY <1>0, <1>3, <1>8, <2>3, SessionTypes
  <2>5. /\ got' \in Seq(Byte) /\ Len(got') = Len(got) + Len(w)
        /\ \A j \in 1..(Len(got) + Len(w)) : got'[j] = IF j <= Len(got) THEN got[j] ELSE w[j - Len(got)]
    BY <2>1, <2>3, <2>4, ConcatProperties
  <2>6. TypeOK'
    BY <1>1, <2>5 DEF SessionInv, TypeOK
  <2>7. EndSeen'
    <3> SUFFICES ASSUME Len(w) < len PROVE base + Len(got') >= Len(C.value)
      BY <1>1, <1>2, <2>2 DEF EndSeen
    <3>1. CASE off > Len(C.value)
      BY <2>4, <2>5, <3>1
    <3>2. CASE ~(off > Len(C.value))
      BY <1>0, <2>3, <2>4, <2>5, <3>2
    <3> QED BY <3>1, <3>2
  <2>8. WindowsHeld'
    <3> SUFFICES ASSUME got' # << >>
                 PROVE  /\ base + Len(got') <= Len(C.value)
                        /\ \A j \in 1..Len(got') : got'[j] = C.value[base + j]
      BY <1>1, <1>2, <1>8 DEF WindowsHeld
    <3>1. \A j \in 1..Len(got) : base + Len(got) <= Len(C.value) /\ got[j] = C.value[base + j]
      <4> SUFFICES ASSUME NEW j \in 1..Len(got)
                   PROVE  base + Len(got) <= Len(C.value) /\ got[j] = C.value[base + j]
        OBVIOUS
      <4>1. got # << >>
        BY <2>4
      <4> QED BY <4>1 DEF SessionInv, WindowsHeld, C
    <3>2. base + Len(got') <= Len(C.value)
      <4>1. CASE w = << >>
        <5>1. Len(w) = 0 /\ Len(got') = Len(got)
          BY <2>4, <2>5, <4>1
        <5>2. 1 \in 1..Len(got)
          BY <2>4, <2>5, <5>1
        <5> QED BY <3>1, <5>1, <5>2
      <4>2. CASE w # << >>
        <5>1. off <= Len(C.value)
          BY <1>5, <2>3, <2>4, <4>2
        <5> QED BY <1>0, <2>3, <2>4, <2>5, <5>1
      <4> QED BY <4>1, <4>2
    <3>3. ASSUME NEW j \in 1..Len(got') PROVE got'[j] = C.value[base + j]
      <4>1. CASE j <= Len(got)
        <5>1. j \in 1..Len(got) /\ j \in 1..(Len(got) + Len(w))
          BY <2>4, <2>5, <4>1
        <5> QED BY <2>5, <3>1, <4>1, <5>1
      <4>2. CASE ~(j <= Len(got))
        <5>1. j - Len(got) \in 1..Len(w) /\ off + (j - Len(got)) = base + j /\ j \in 1..(Len(got) + Len(w))
          BY <2>4, <2>5, <4>2
        <5>2. w[j - Len(got)] = C.value[off + (j - Len(got))]
          BY <2>3, <5>1
        <5> QED BY <2>5, <4>2, <5>1, <5>2
      <4> QED BY <4>1, <4>2
    <3> QED BY <3>2, <3>3
  <2> QED BY <1>6, <2>6, <2>7, <2>8 DEF SessionInv
<1> QED BY <1>3, <1>7, <1>8

(* The client follows a name to an inode of the volume, never to a free    *)
(* slot.                                                                   *)
LEMMA LookupKeeps ==
    ASSUME SessionInv, NEW name \in Name, Lookup(name)
    PROVE  SessionInv'
<1> DEFINE l == list_dir(vol, have, node)
           r == LookupResult(node, name)
<1>0. TypeOK
  BY DEF SessionInv
<1>1. CASE ~(r.ok /\ r.value.some)
  <2>1. Fresh /\ Stay /\ Answer("lookup", r)
    BY <1>1 DEF Lookup
  <2> QED BY <2>1, AnswerKeeps
<1>2. CASE r.ok /\ r.value.some
  <2>1. /\ vol' = vol /\ have' = have /\ mount' = mount /\ base' = base /\ got' = got
        /\ node' = r.value.value /\ trail' = Append(trail, name)
        /\ answer'.call = "lookup" /\ got = << >> /\ mount = "open"
    BY <1>2 DEF Lookup, Answer, Fresh, Holds
  <2>2. /\ l.ok \in BOOLEAN
        /\ l.ok => DOMAIN l.value \subseteq Nat /\ \A k \in DOMAIN l.value : l.value[k].ino \in Ino \ {0}
    BY <1>0, SessionTypes, ListFacts
  <2>3. l.ok /\ r = Ok(Find(l.value, name))
    <3> HIDE DEF l
    <3>1. map_err(l).ok = l.ok /\ (l.ok => map_err(l) = l)
      BY <2>2, MapErrFacts
    <3>2. r = IF map_err(l).ok THEN Ok(Find(map_err(l).value, name)) ELSE map_err(l)
      BY DEF LookupResult, l
    <3> QED BY <1>2, <2>2, <3>1, <3>2
  <2>4. r.value = Find(l.value, name)
    BY <2>3 DEF Ok
  <2> HIDE DEF l, r
  <2>5. PICK j \in DOMAIN l.value : Find(l.value, name) = Some(l.value[j].ino)
    BY <1>2, <2>2, <2>3, <2>4, FindFacts DEF None
  <2>6. node' = l.value[j].ino
    BY <2>1, <2>4, <2>5 DEF Some
  <2>7. trail' \in Seq(Name)
    BY <1>0, <2>1, SessionTypes
  <2>8. TypeOK'
    BY <1>0, <2>1, <2>2, <2>3, <2>6, <2>7 DEF TypeOK
  <2>9. WindowsHeld' /\ EndSeen' /\ LastAnswer' /\ Untouched'
    BY <2>1 DEF WindowsHeld, EndSeen, LastAnswer, Untouched
  <2> QED BY <2>8, <2>9 DEF SessionInv
<1> QED BY <1>1, <1>2

(* Every call of a session preserves SessionInv.                           *)
LEMMA SessionStep == SessionInv /\ [Next]_vars => SessionInv'
<1> SUFFICES ASSUME SessionInv, [Next]_vars PROVE SessionInv'
  OBVIOUS
<1>0. TypeOK
  BY DEF SessionInv
<1>1. ASSUME NEW n \in Deliveries, n <= Len(vol.bytes), Open(n) PROVE SessionInv'
  <2>1. /\ vol' = vol /\ node' = node /\ trail' = trail /\ base' = base /\ got' = got /\ answer' = answer
        /\ mount = "closed" /\ have' = n /\ mount' \in {"open", "failed"}
    BY <1>1 DEF Open
  <2>2. n \in 0..Len(vol.bytes)
    BY <1>0, <1>1, SessionTypes, VolumeAssumption
  <2>3. TypeOK'
    BY <1>0, <2>1, <2>2 DEF TypeOK
  <2>4. WindowsHeld' /\ EndSeen' /\ LastAnswer' /\ Untouched'
    BY <2>1 DEF SessionInv, WindowsHeld, EndSeen, LastAnswer, Untouched
  <2> QED BY <2>3, <2>4 DEF SessionInv
<1>2. CASE OpenFails
  <2>1. /\ vol' = vol /\ node' = node /\ trail' = trail /\ base' = base /\ got' = got /\ answer' = answer
        /\ mount = "closed" /\ have' = have /\ mount' = "failed"
    BY <1>2 DEF OpenFails
  <2>2. TypeOK'
    BY <1>0, <2>1 DEF TypeOK
  <2>3. WindowsHeld' /\ EndSeen' /\ LastAnswer' /\ Untouched'
    BY <2>1 DEF SessionInv, WindowsHeld, EndSeen, LastAnswer, Untouched
  <2> QED BY <2>2, <2>3 DEF SessionInv
<1>3. ASSUME NEW call \in {"foreign_id", "named_stream"}, Refuse(call) PROVE SessionInv'
  BY <1>3, AnswerKeeps DEF Refuse
<1>4. CASE ReadDir
  BY <1>4, AnswerKeeps DEF ReadDir
<1>5. CASE Meta
  BY <1>5, AnswerKeeps DEF Meta
<1>6. CASE Extents
  BY <1>6, AnswerKeeps DEF Extents
<1>7. CASE Deleted
  BY <1>7, AnswerKeeps DEF Deleted
<1>8. ASSUME NEW w \in Windows, ReadLink(w) PROVE SessionInv'
  BY <1>8, AnswerKeeps DEF ReadLink
<1>9. ASSUME NEW w \in Windows, Seek(w) PROVE SessionInv'
  <2>1. /\ vol' = vol /\ node' = node /\ trail' = trail /\ have' = have /\ got' = got /\ got = << >>
        /\ mount' = mount /\ mount = "open" /\ base' = w /\ w \in Nat /\ answer'.call = "none"
    BY <1>9, VolumeAssumption DEF Seek, Fresh, Holds
  <2>2. TypeOK'
    BY <1>0, <2>1 DEF TypeOK
  <2>3. WindowsHeld' /\ EndSeen' /\ LastAnswer' /\ Untouched'
    BY <2>1 DEF WindowsHeld, EndSeen, LastAnswer, Untouched
  <2> QED BY <2>2, <2>3 DEF SessionInv
<1>10. CASE UNCHANGED vars
  <2>1. /\ vol' = vol /\ node' = node /\ trail' = trail /\ have' = have /\ got' = got
        /\ mount' = mount /\ base' = base /\ answer' = answer
    BY <1>10 DEF vars
  <2>2. Contents' = Contents /\ Listing(node)' = Listing(node) /\ ExtentsOf(node)' = ExtentsOf(node)
    BY <2>1 DEF Contents, Listing, entry_kind, ExtentsOf, RunsOf
  <2>3. TypeOK' /\ WindowsHeld' /\ EndSeen' /\ Untouched'
    BY <2>1, <2>2 DEF SessionInv, TypeOK, WindowsHeld, EndSeen, Untouched
  <2>4. LastAnswer'
    BY <2>1, <2>2 DEF SessionInv, LastAnswer
  <2> QED BY <2>3, <2>4 DEF SessionInv
<1> QED
  BY <1>1, <1>2, <1>3, <1>4, <1>5, <1>6, <1>7, <1>8, <1>9, <1>10, ReadAtKeeps, LookupKeeps DEF Next

(* Every reachable state of a session satisfies SessionInv.                *)
THEOREM SessionInvariant == Spec => []SessionInv
  BY SessionInit, SessionStep, PTL DEF Spec

-----------------------------------------------------------------------------
(* What follows from the invariant.                                        *)

(* A client only ever holds the identity of an inode, never that of a free *)
(* slot.                                                                   *)
THEOREM NoFreeIdentity == Spec => []TypeOK
<1>1. SessionInv => TypeOK
  BY DEF SessionInv
<1> QED BY <1>1, SessionInvariant, PTL

(* Windows read one after the other put the file together, wherever they   *)
(* began and however long each was.                                        *)
THEOREM WindowsAreTheFile == Spec => []WindowsReassemble
<1>1. SessionInv => WindowsReassemble
  <2> SUFFICES ASSUME SessionInv, Contents.ok PROVE WindowsReassemble
    BY DEF WindowsReassemble
  <2>1. ASSUME NEW j \in DOMAIN got PROVE got[j] = Contents.value[base + j]
    <3>1. got \in Seq(Byte)
      BY DEF SessionInv, TypeOK
    <3>2. j \in 1..Len(got) /\ got # << >>
      BY <3>1
    <3> QED BY <3>2 DEF SessionInv, WindowsHeld
  <2>2. EndSeen
    BY DEF SessionInv
  <2> QED BY <2>1, <2>2 DEF WindowsReassemble, EndSeen
<1> QED BY <1>1, SessionInvariant, PTL

(* A source that delivered less than the volume costs errors and zeros,    *)
(* never a wrong size, kind or byte.                                       *)
THEOREM ShortSourceIsHonest == Spec => []ShortSourceNeverLies
<1>1. SessionInv => ShortSourceNeverLies
  <2> SUFFICES ASSUME SessionInv PROVE ShortSourceNeverLies
    OBVIOUS
  <2>0. TypeOK /\ Whole = Len(vol.bytes)
    BY DEF SessionInv, Whole
  <2>1. have \in Nat /\ Whole \in Nat /\ have <= Whole /\ have \in 0..Len(vol.bytes) /\ Whole \in 0..Len(vol.bytes)
    BY <2>0, SessionTypes
  <2>2. ASSUME answer.call = "meta", answer.result.ok
        PROVE  answer.result = MetaOf(vol, Whole, node)
    <3>1. answer.result = MetaOf(vol, have, node)
      BY <2>2 DEF SessionInv, LastAnswer
    <3> DEFINE q == read_inode(vol, have, node)
    <3>2. q.ok \in BOOLEAN /\ (q.ok => read_inode(vol, Whole, node) = q)
      BY <2>0, <2>1, SessionTypes, ReadInodeFacts
    <3>3. map_err(q).ok = q.ok
      BY <3>2, MapErrFacts
    <3>4. MetaOf(vol, have, node).ok => map_err(q).ok
      BY DEF MetaOf
    <3>5. read_inode(vol, Whole, node) = q
      BY <2>2, <3>1, <3>2, <3>3, <3>4
    <3> QED BY <3>1, <3>5 DEF MetaOf
  <2> DEFINE full == read_file(vol, Whole, node)
  <2>3. ASSUME got # << >>
        PROVE  full.ok /\ \A j \in DOMAIN got : got[j] \in {0, full.value[base + j]}
    <3>1. /\ Contents.ok /\ base + Len(got) <= Len(Contents.value)
          /\ \A j \in 1..Len(got) : got[j] = Contents.value[base + j]
      BY <2>3 DEF SessionInv, WindowsHeld
    <3>2. /\ full.ok /\ Len(full.value) = Len(Contents.value)
          /\ \A j \in 1..Len(Contents.value) : Contents.value[j] \in {0, full.value[j]}
      <4>1. Contents = read_file(vol, have, node)
        BY DEF Contents
      <4>2. vol \in Volumes /\ node \in Ino
        BY <2>0, SessionTypes
      <4>3. full = read_file(vol, Whole, node)
        OBVIOUS
      <4> HIDE DEF full
      <4> QED BY <2>1, <3>1, <4>1, <4>2, <4>3, ReadFileUnder
    <3>3. Contents.value \in Seq(Byte)
      <4>1. Contents = read_file(vol, have, node)
        BY DEF Contents
      <4> QED BY <2>0, <2>1, <3>1, <4>1, SessionTypes, ReadFileFacts
    <3> HIDE DEF full
    <3>4. ASSUME NEW j \in DOMAIN got PROVE got[j] \in {0, full.value[base + j]}
      <4>1. j \in 1..Len(got) /\ base \in Nat /\ Len(got) \in Nat
        BY <2>0, SessionTypes
      <4>2. base + j \in 1..Len(Contents.value)
        BY <3>1, <3>3, <4>1
      <4> QED BY <3>1, <3>2, <4>1, <4>2
    <3> QED BY <3>2, <3>4
  <2> QED BY <2>2, <2>3 DEF ShortSourceNeverLies
<1> QED BY <1>1, SessionInvariant, PTL

(* read_dir, lookup and meta tell one story about every entry.             *)
THEOREM OneStory == Spec => []ListingAgrees
<1>1. SessionInv => ListingAgrees
  <2> SUFFICES ASSUME SessionInv, answer.call = "read_dir", answer.result.ok,
                      NEW es, es = answer.result.value, NEW k \in DOMAIN es,
                      NEW m, m = MetaOf(vol, have, es[k].id)
               PROVE  /\ es[k].kind = IF m.ok THEN m.value.kind ELSE "Other"
                      /\ \E j \in DOMAIN es :
                            /\ j <= k /\ es[j].name = es[k].name
                            /\ LookupResult(node, es[k].name) = Ok(Some(es[j].id))
                            /\ \A h \in DOMAIN es : h < j => es[h].name # es[k].name
    BY DEF ListingAgrees
  <2> DEFINE l == list_dir(vol, have, node)
  <2>0. TypeOK
    BY DEF SessionInv
  <2>1. /\ l.ok \in BOOLEAN
        /\ l.ok => DOMAIN l.value \subseteq Nat /\ \A h \in DOMAIN l.value : l.value[h].ino \in Ino \ {0}
    BY <2>0, SessionTypes, ListFacts
  <2>2. map_err(l).ok = l.ok /\ (l.ok => map_err(l) = l)
    BY <2>1, MapErrFacts
  <2>3. answer.result = Listing(node)
    BY DEF SessionInv, LastAnswer
  <2>4. /\ l.ok /\ DOMAIN es = DOMAIN l.value
        /\ \A h \in DOMAIN es : /\ es[h].name = l.value[h].name /\ es[h].id = l.value[h].ino
                                /\ es[h].kind = entry_kind(l.value[h].ino)
    <3> HIDE DEF l
    <3>1. Listing(node) = IF ~map_err(l).ok THEN map_err(l)
                          ELSE Ok([ h \in DOMAIN map_err(l).value |->
                                     [name |-> map_err(l).value[h].name, id |-> map_err(l).value[h].ino,
                                      kind |-> entry_kind(map_err(l).value[h].ino)] ])
      BY DEF Listing, l
    <3>2. l.ok
      BY <2>1, <2>2, <2>3, <3>1
    <3>3. es = [ h \in DOMAIN l.value |->
                  [name |-> l.value[h].name, id |-> l.value[h].ino, kind |-> entry_kind(l.value[h].ino)] ]
      BY <2>2, <2>3, <3>1, <3>2 DEF Ok
    <3> QED BY <3>2, <3>3
  <2> HIDE DEF l
  <2>5. es[k].kind = IF m.ok THEN m.value.kind ELSE "Other"
    <3> DEFINE i == es[k].id
               q == read_inode(vol, have, i)
    <3>1. i \in Ino
      BY <2>1, <2>4
    <3>2. q.ok \in BOOLEAN
      BY <2>0, <3>1, SessionTypes, ReadInodeFacts
    <3>3. map_err(q).ok = q.ok /\ (q.ok => map_err(q) = q)
      BY <3>2, MapErrFacts
    <3>4. es[k].kind = IF q.ok THEN node_kind(q.value.file_type) ELSE "Other"
      BY <2>4 DEF entry_kind
    <3>5. CASE q.ok
      <4>1. m.ok = TRUE /\ m.value.kind = node_kind(q.value.file_type)
        BY <3>3, <3>5 DEF MetaOf, Ok
      <4> QED BY <3>4, <3>5, <4>1
    <3>6. CASE ~q.ok
      <4>1. m = map_err(q)
        BY <3>2, <3>3, <3>6 DEF MetaOf
      <4> QED BY <3>2, <3>3, <3>4, <3>6, <4>1
    <3> QED BY <3>5, <3>6
  <2>6. PICK j \in DOMAIN es : /\ es[j].name = es[k].name /\ Find(l.value, es[k].name) = Some(es[j].id)
                               /\ \A h \in DOMAIN es : es[h].name = es[k].name => j <= h
    BY <2>1, <2>4, FindFacts
  <2>7. LookupResult(node, es[k].name) = Ok(Some(es[j].id))
    <3>1. LookupResult(node, es[k].name) = Ok(Find(l.value, es[k].name))
      BY <2>2, <2>4 DEF LookupResult, l
    <3> QED BY <2>6, <3>1
  <2>8. \A h \in DOMAIN es : h \in Nat
    BY <2>1, <2>4
  <2> QED BY <2>5, <2>6, <2>7, <2>8
<1> QED BY <1>1, SessionInvariant, PTL

(* A byte of a mapped direct block is the byte of the image at the block's *)
(* address, or zero past the end of the image.                             *)
LEMMA DirectByte ==
    ASSUME TypeOK, NEW d, IsInode(d), NEW k \in 0..(UFS_NDADDR - 1), d.direct[k] # 0,
           NEW m \in 0..(vol.bsize - 1)
    PROVE  ContentByte(FileOf(vol, have, d), k * vol.bsize + m) = ImageByte(d.direct[k] + m)
<1> DEFINE f == FileOf(vol, have, d)
           a == d.direct[k]
           w == vol.bsize
           h == Held(vol, have, a)
<1>1. /\ vol \in Volumes /\ have \in 0..Len(vol.bytes) /\ have \in Nat /\ w \in Nat \ {0}
      /\ k \in Nat /\ a \in Addr \ {0} /\ a \in Nat /\ Len(vol.bytes) \in Nat
  <2>1. vol \in Volumes /\ have \in 0..Len(vol.bytes) /\ have \in Nat /\ w \in Nat \ {0} /\ Len(vol.bytes) \in Nat
    BY SessionTypes
  <2>2. k \in Nat
    BY TreeAssumption
  <2>3. a \in Addr \ {0}
    BY DEF IsInode
  <2>4. a \in Nat
    BY <2>3, VolumeAssumption
  <2> QED BY <2>1, <2>2, <2>3, <2>4
<1>2. IsFile(f) /\ f.bsize = w /\ f.direct = d.direct /\ f.data[a] = h
  BY <1>1, FileOfIsFile DEF FileOf
<1>3. /\ h \in Seq(Byte) /\ \A j \in 1..Len(h) : h[j] = vol.bytes[a + j]
      /\ Len(h) = IF a >= have THEN 0 ELSE IF a + w < have THEN w ELSE have - a
  BY <1>1, HeldFacts
<1> HIDE DEF f, h, w
<1>4. (k * w + m) \div w = k /\ (k * w + m) % w = m
  BY <1>1, PositionOf DEF w
<1>5. resolve_block(f, k, Fanout(f)) = a
  BY <1>1, <1>2, TreeAssumption DEF resolve_block
<1>6. ContentByte(f, k * w + m) = BlockBytes(f, a, w)[m + 1]
  BY <1>2, <1>4, <1>5 DEF ContentByte
<1> HIDE DEF a
<1>7. BlockBytes(f, a, w)[m + 1] = IF a # 0 /\ m < Len(h) THEN h[m + 1] ELSE 0
  <2>1. w \in Nat /\ m \in 0..(w - 1) /\ a \in Addr
    BY <1>1 DEF w
  <2> QED BY <1>2, <2>1, BlockByte
<1>8. m \in Nat /\ m < w
  BY <1>1 DEF w
<1>9. m < Len(h) <=> a + m < have
  BY <1>1, <1>3, <1>8
<1>10. m < Len(h) => h[m + 1] = vol.bytes[a + m + 1]
  <2> SUFFICES ASSUME m < Len(h) PROVE h[m + 1] = vol.bytes[a + m + 1]
    OBVIOUS
  <2>1. m + 1 \in 1..Len(h) /\ a + (m + 1) = a + m + 1
    BY <1>1, <1>3, <1>8
  <2> QED BY <1>3, <2>1
<1> QED BY <1>1, <1>6, <1>7, <1>9, <1>10 DEF ImageByte, f, a, w

(* The extents are where read_at gets the mapped direct blocks from.       *)
THEOREM ExtentsAreContent == Spec => []ExtentsMatchContent
<1>1. SessionInv => ExtentsMatchContent
  <2> SUFFICES ASSUME SessionInv, answer.call = "extents", answer.result.ok, Contents.ok,
                      NEW d, d = read_inode(vol, have, node).value,
                      NEW runs, runs = answer.result.value
               PROVE  /\ \A k \in 0..(UFS_NDADDR - 1) :
                            k \in DOMAIN runs <=> d.direct[k] # 0 /\ k * vol.bsize < d.size
                      /\ \A k \in DOMAIN runs : runs[k].len = vol.bsize \/ k * vol.bsize + runs[k].len = d.size
                      /\ \A k \in DOMAIN runs : \A m \in 0..(runs[k].len - 1) :
                            /\ k * vol.bsize + m < d.size
                            /\ Contents.value[k * vol.bsize + m + 1] = ImageByte(runs[k].off + m)
    BY DEF ExtentsMatchContent
  <2> DEFINE q == read_inode(vol, have, node)
             w == vol.bsize
             left(k) == d.size - k * w
  <2>0. /\ TypeOK /\ vol \in Volumes /\ node \in Ino /\ have \in Nat /\ have \in 0..Len(vol.bytes)
        /\ w \in Nat \ {0} /\ UFS_NDADDR \in Nat
    BY SessionTypes, TreeAssumption DEF SessionInv
  <2>1. q.ok \in BOOLEAN /\ (q.ok => q = Ok(parse_with_maxsymlink(vol, vol.dinode[node])))
    BY <2>0, ReadInodeFacts
  <2>2. map_err(q).ok = q.ok /\ (q.ok => map_err(q) = q)
    BY <2>1, MapErrFacts
  <2>3. answer.result = IF map_err(q).ok THEN Ok(RunsOf(map_err(q).value)) ELSE map_err(q)
    BY DEF SessionInv, LastAnswer, ExtentsOf
  <2>4. q.ok /\ runs = RunsOf(d)
    BY <2>1, <2>2, <2>3 DEF Ok
  <2>5. d = parse_with_maxsymlink(vol, vol.dinode[node])
    BY <2>1, <2>4 DEF Ok
  <2>6. IsInode(d) /\ d.size \in Nat
    BY <2>0, <2>5, InodeType DEF IsInode
  <2>7. \A j \in 1..d.size : Contents.value[j] = ContentByte(FileOf(vol, have, d), j - 1)
    <3>1. Contents = read_file(vol, have, node)
      BY DEF Contents
    <3> QED BY <2>0, <2>5, <3>1, ReadFileFacts
  <2>8. /\ DOMAIN runs = { k \in 0..(UFS_NDADDR - 1) : d.direct[k] # 0 /\ left(k) > 0 }
        /\ \A k \in DOMAIN runs : /\ runs[k].off = d.direct[k]
                                  /\ runs[k].len = IF left(k) < w THEN left(k) ELSE w
    BY <2>4 DEF RunsOf
  <2>9. ASSUME NEW k \in 0..(UFS_NDADDR - 1)
        PROVE  left(k) > 0 <=> k * w < d.size
    <3>1. PICK z \in Nat : z = k * w
      BY <2>0
    <3> QED BY <2>6, <3>1
  <2>10. ASSUME NEW k \in DOMAIN runs
         PROVE  /\ runs[k].len = w \/ k * w + runs[k].len = d.size
                /\ \A m \in 0..(runs[k].len - 1) :
                      /\ k * w + m < d.size
                      /\ Contents.value[k * w + m + 1] = ImageByte(runs[k].off + m)
    <3>1. k \in 0..(UFS_NDADDR - 1) /\ d.direct[k] # 0 /\ left(k) > 0
      BY <2>8
    <3>2. PICK z \in Nat : z = k * w
      BY <2>0, <3>1
    <3>3. left(k) = d.size - z /\ d.size - z > 0
      BY <3>1, <3>2
    <3>4. runs[k].len = (IF d.size - z < w THEN d.size - z ELSE w) /\ runs[k].off = d.direct[k]
      BY <2>8, <3>3
    <3>5. runs[k].len = w \/ k * w + runs[k].len = d.size
      BY <2>0, <2>6, <3>2, <3>4
    <3>6. ASSUME NEW m \in 0..(runs[k].len - 1)
          PROVE  /\ k * w + m < d.size
                 /\ Contents.value[k * w + m + 1] = ImageByte(runs[k].off + m)
      <4>1. m \in 0..(w - 1) /\ z + m < d.size /\ z + m \in Nat
        BY <2>0, <2>6, <3>3, <3>4
      <4>2. z + m + 1 \in 1..d.size /\ z + m + 1 - 1 = z + m
        BY <2>6, <4>1
      <4>3. Contents.value[z + m + 1] = ContentByte(FileOf(vol, have, d), z + m)
        BY <2>7, <4>2
      <4>4. ContentByte(FileOf(vol, have, d), k * w + m) = ImageByte(d.direct[k] + m)
        BY <2>0, <2>6, <3>1, <4>1, DirectByte
      <4> QED BY <3>2, <3>4, <4>1, <4>3, <4>4
    <3> QED BY <3>5, <3>6
  <2>11. \A k \in 0..(UFS_NDADDR - 1) : k \in DOMAIN runs <=> d.direct[k] # 0 /\ k * w < d.size
    BY <2>8, <2>9
  <2> QED BY <2>10, <2>11
<1> QED BY <1>1, SessionInvariant, PTL

-----------------------------------------------------------------------------
(* Paths.  What a recursive function yields is shown by induction over its *)
(* argument, as a fact about the set of arguments it holds for.            *)

(* Each stage of a path is one Descend further than the one before it.     *)
LEMMA StageFacts ==
    ASSUME NEW v, NEW n, NEW path, Len(path) \in Nat, NEW at, at = Stages(v, n, path)
    PROVE  /\ at[0] = PathRoot(v, n)
           /\ \A j \in 1..Len(path) : at[j] = Descend(v, n, at[j - 1], path[j])
<1> DEFINE L == Len(path)
           D(c, j) == Descend(v, n, c, path[j])
           R == PathRoot(v, n)
           G(f, m) == [ j \in 0..m |-> IF j = 0 THEN R ELSE D(f[j - 1], j) ]
           T == { m \in 0..L : \E f : f = G(f, m) }
<1>0. L \in Nat
  OBVIOUS
<1>1. at = CHOOSE f : f = G(f, L)
  BY DEF Stages
<1> HIDE DEF D, R, L
<1>2. 0 \in T
  <2> DEFINE f == [ j \in 0..0 |-> R ]
  <2>1. f = G(f, 0)
    OBVIOUS
  <2> HIDE DEF f, G
  <2> QED BY <1>0, <2>1
<1>3. ASSUME NEW m \in 0..(L - 1), m \in T PROVE m + 1 \in T
  <2>1. PICK f : f = G(f, m)
    BY <1>3
  <2> DEFINE h == [ j \in 0..(m + 1) |-> IF j <= m THEN f[j] ELSE D(f[m], m + 1) ]
  <2>2. \A j \in 0..m : f[j] = IF j = 0 THEN R ELSE D(f[j - 1], j)
    BY <2>1
  <2>3. ASSUME NEW j \in 0..(m + 1) PROVE h[j] = IF j = 0 THEN R ELSE D(h[j - 1], j)
    <3>0. m \in Nat
      BY <1>0
    <3>1. CASE j = 0
      BY <2>2, <3>0, <3>1
    <3>2. CASE j # 0 /\ j <= m
      <4>1. j - 1 \in 0..(m + 1) /\ j - 1 <= m /\ j \in 0..m
        BY <3>0, <3>2
      <4>2. h[j] = f[j] /\ h[j - 1] = f[j - 1]
        BY <3>2, <4>1
      <4> QED BY <2>2, <3>2, <4>1, <4>2
    <3>3. CASE ~(j <= m)
      <4>1. j = m + 1 /\ j # 0 /\ j - 1 = m /\ m \in 0..(m + 1) /\ m <= m
        BY <3>0, <3>3
      <4>2. h[j] = D(f[m], m + 1) /\ h[m] = f[m]
        BY <3>3, <4>1
      <4> QED BY <4>1, <4>2
    <3> QED BY <3>0, <3>1, <3>2, <3>3
  <2>4. h = [ j \in 0..(m + 1) |-> h[j] ]
    OBVIOUS
  <2> HIDE DEF h
  <2>5. h = G(h, m + 1)
    BY <2>3, <2>4
  <2>6. m + 1 \in 0..L
    BY <1>0
  <2> HIDE DEF G
  <2> QED BY <2>5, <2>6
<1>4. T = 0..L
  <2>1. T \subseteq 0..L
    OBVIOUS
  <2> HIDE DEF T
  <2> QED BY <1>0, <1>2, <1>3, <2>1, SetInduction
<1>5. \E f : f = G(f, L)
  BY <1>0, <1>4
<1>6. at = G(at, L)
  <2> HIDE DEF G
  <2> QED BY <1>1, <1>5
<1>7. \A j \in 0..L : at[j] = IF j = 0 THEN R ELSE D(at[j - 1], j)
  BY <1>6
<1> HIDE DEF G, T
<1> QED BY <1>0, <1>7 DEF D, R, L

(* A prefix of a path leads where the path's own first components lead.    *)
LEMMA StagePrefix ==
    ASSUME NEW v, NEW n, NEW p, NEW q, Len(p) \in Nat, Len(q) \in Nat, IsPrefixSeq(q, p)
    PROVE  \A j \in 0..Len(q) : Stages(v, n, p)[j] = Stages(v, n, q)[j]
<1> DEFINE a == Stages(v, n, p)
           b == Stages(v, n, q)
           T == { j \in 0..Len(q) : a[j] = b[j] }
<1>1. a[0] = PathRoot(v, n) /\ \A j \in 1..Len(p) : a[j] = Descend(v, n, a[j - 1], p[j])
  BY StageFacts
<1>2. b[0] = PathRoot(v, n) /\ \A j \in 1..Len(q) : b[j] = Descend(v, n, b[j - 1], q[j])
  BY StageFacts
<1> HIDE DEF a, b
<1>3. 0 \in T
  BY <1>1, <1>2
<1>4. ASSUME NEW m \in 0..(Len(q) - 1), m \in T PROVE m + 1 \in T
  <2>1. m + 1 \in 1..Len(q) /\ m + 1 \in 1..Len(p) /\ m + 1 - 1 = m /\ m + 1 \in 0..Len(q)
    BY DEF IsPrefixSeq
  <2>2. p[m + 1] = q[m + 1] /\ a[m] = b[m]
    BY <1>4, <2>1 DEF IsPrefixSeq
  <2>3. a[m + 1] = Descend(v, n, a[m], p[m + 1]) /\ b[m + 1] = Descend(v, n, b[m], q[m + 1])
    BY <1>1, <1>2, <2>1
  <2> QED BY <2>1, <2>2, <2>3
<1>5. T = 0..Len(q)
  <2>1. T \subseteq 0..Len(q)
    OBVIOUS
  <2> HIDE DEF T
  <2> QED BY <1>3, <1>4, <2>1, SetInduction
<1> QED BY <1>5 DEF a, b

(* An empty component leads nowhere else.                                  *)
LEMMA EmptyStays ==
    ASSUME NEW v, NEW n, NEW c
    PROVE  Descend(v, n, c, Empty) = c
  BY DEF Descend

(* A path with slashes at its ends, component by component.                *)
LEMMA SlashedPath ==
    ASSUME NEW t \in Seq(Name), NEW path, path = <<Empty>> \o t \o <<Empty>>
    PROVE  /\ Len(path) = Len(t) + 2 /\ path[1] = Empty /\ path[Len(t) + 2] = Empty
           /\ \A j \in 1..Len(t) : path[j + 1] = t[j]
<1> DEFINE L == Len(t)
           S == Name \cup {Empty}
           e == <<Empty>>
           u == e \o t
<1>0. L \in Nat /\ DOMAIN t = 1..L
  OBVIOUS
<1>1. e \in Seq(S) /\ t \in Seq(S) /\ Len(e) = 1 /\ e[1] = Empty
  <2>1. \A j \in 1..L : t[j] \in S
    BY <1>0
  <2> QED BY <1>0, <2>1
<1> HIDE DEF e
<1>2. /\ u \in Seq(S) /\ Len(u) = L + 1
      /\ \A j \in 1..(L + 1) : u[j] = IF j <= 1 THEN e[j] ELSE t[j - 1]
  <2>1. /\ e \o t \in Seq(S) /\ Len(e \o t) = Len(e) + Len(t)
        /\ \A j \in 1..(Len(e) + Len(t)) : (e \o t)[j] = IF j <= Len(e) THEN e[j] ELSE t[j - Len(e)]
    BY <1>1, ConcatProperties
  <2>2. Len(e) + Len(t) = L + 1
    BY <1>0, <1>1
  <2> QED BY <1>1, <2>1, <2>2
<1> HIDE DEF u, S
<1>3. /\ Len(u \o e) = L + 2
      /\ \A j \in 1..(L + 2) : (u \o e)[j] = IF j <= L + 1 THEN u[j] ELSE e[j - (L + 1)]
  <2>1. /\ Len(u \o e) = Len(u) + Len(e)
        /\ \A j \in 1..(Len(u) + Len(e)) : (u \o e)[j] = IF j <= Len(u) THEN u[j] ELSE e[j - Len(u)]
    BY <1>1, <1>2, ConcatProperties
  <2>2. Len(u) + Len(e) = L + 2
    BY <1>0, <1>1, <1>2
  <2> QED BY <1>2, <2>1, <2>2
<1>4. path = u \o e
  BY DEF u, e
<1>5. path[1] = Empty /\ path[L + 2] = Empty
  BY <1>0, <1>1, <1>2, <1>3, <1>4
<1>6. ASSUME NEW j \in 1..L PROVE path[j + 1] = t[j]
  <2>1. j + 1 \in 1..(L + 2) /\ j + 1 \in 1..(L + 1) /\ j + 1 <= L + 1 /\ ~(j + 1 <= 1) /\ j + 1 - 1 = j
    BY <1>0
  <2> QED BY <1>2, <1>3, <1>4, <2>1
<1> QED BY <1>3, <1>4, <1>5, <1>6

(* Slashes at the ends of a path change nothing.                           *)
LEMMA SlashesIgnored ==
    ASSUME NEW v, NEW n, NEW t, NEW path, Len(t) \in Nat,
           Len(path) = Len(t) + 2, path[1] = Empty, path[Len(t) + 2] = Empty,
           \A j \in 1..Len(t) : path[j + 1] = t[j]
    PROVE  read_by_path(v, n, path) = read_by_path(v, n, t)
<1> DEFINE L == Len(t)
           a == Stages(v, n, path)
           b == Stages(v, n, t)
           T == { j \in 0..L : a[j + 1] = b[j] }
<1>0. L \in Nat
  OBVIOUS
<1>1. /\ Len(path) = L + 2 /\ path[1] = Empty /\ path[L + 2] = Empty
      /\ \A j \in 1..L : path[j + 1] = t[j]
  OBVIOUS
<1>2. a[0] = PathRoot(v, n) /\ \A j \in 1..(L + 2) : a[j] = Descend(v, n, a[j - 1], path[j])
  <2>1. Len(path) \in Nat
    BY <1>0, <1>1
  <2>2. a[0] = PathRoot(v, n) /\ \A j \in 1..Len(path) : a[j] = Descend(v, n, a[j - 1], path[j])
    BY <2>1, StageFacts
  <2> QED BY <1>1, <2>2
<1>3. b[0] = PathRoot(v, n) /\ \A j \in 1..L : b[j] = Descend(v, n, b[j - 1], t[j])
  BY <1>0, StageFacts
<1> HIDE DEF a, b, L
<1>4. 0 \in T
  <2>1. 1 \in 1..(L + 2) /\ 1 - 1 = 0 /\ 0 + 1 = 1 /\ 0 \in 0..L
    BY <1>0
  <2>2. a[1] = Descend(v, n, a[0], Empty)
    BY <1>1, <1>2, <2>1
  <2> QED BY <1>2, <1>3, <2>1, <2>2, EmptyStays
<1>5. ASSUME NEW m \in 0..(L - 1), m \in T PROVE m + 1 \in T
  <2>1. m + 1 \in 1..L /\ m + 2 \in 1..(L + 2) /\ m + 2 - 1 = m + 1 /\ m + 1 + 1 = m + 2 /\ m + 1 - 1 = m
        /\ m + 1 \in 0..L
    BY <1>0
  <2>2. path[m + 2] = t[m + 1]
    BY <1>1, <2>1
  <2>3. a[m + 2] = Descend(v, n, a[m + 1], path[m + 2]) /\ b[m + 1] = Descend(v, n, b[m], t[m + 1])
    <3>1. a[m + 2] = Descend(v, n, a[m + 2 - 1], path[m + 2])
      BY <1>2, <2>1
    <3>2. b[m + 1] = Descend(v, n, b[m + 1 - 1], t[m + 1])
      BY <1>3, <2>1
    <3> QED BY <2>1, <3>1, <3>2
  <2>4. a[m + 2] = b[m + 1]
    BY <1>5, <2>2, <2>3
  <2> QED BY <2>1, <2>4
<1>6. T = 0..L
  <2>1. T \subseteq 0..L
    OBVIOUS
  <2> HIDE DEF T
  <2> QED BY <1>0, <1>4, <1>5, <2>1, SetInduction
<1>7. a[L + 1] = b[L]
  BY <1>0, <1>6
<1>8. a[L + 2] = a[L + 1]
  <2>1. L + 2 \in 1..(L + 2) /\ L + 2 - 1 = L + 1
    BY <1>0
  <2>2. a[L + 2] = Descend(v, n, a[L + 1], Empty)
    <3>1. PICK z \in 1..(L + 2) : z = L + 2
      BY <2>1
    <3>2. a[z] = Descend(v, n, a[z - 1], path[z])
      BY <1>2
    <3>3. z - 1 = L + 1
      BY <1>0, <3>1
    <3> QED BY <1>1, <3>1, <3>2, <3>3
  <2> QED BY <2>2, EmptyStays
<1> QED BY <1>1, <1>7, <1>8 DEF read_by_path, a, b, L

(* One more component is one Descend more, and the shorter prefixes are    *)
(* the same.                                                               *)
LEMMA OneMore ==
    ASSUME NEW v, NEW n, NEW t \in Seq(Name), NEW x \in Name, NEW u \in Seq(Name),
           Len(u) = Len(t) + 1, u[Len(t) + 1] = x, \A j \in 1..Len(t) : u[j] = t[j]
    PROVE  /\ read_by_path(v, n, u) = Descend(v, n, read_by_path(v, n, t), x)
           /\ \A j \in 0..Len(t) : SubSeq(u, 1, j) = SubSeq(t, 1, j)
           /\ SubSeq(t, 1, Len(t)) = t
<1> DEFINE L == Len(t)
<1>1. /\ L \in Nat /\ Len(u) = L + 1 /\ u[L + 1] = x
      /\ \A j \in 1..L : u[j] = t[j] /\ t[j] \in Name
  OBVIOUS
<1>2. IsPrefixSeq(t, u)
  BY <1>1 DEF IsPrefixSeq
<1>3. Stages(v, n, u)[L] = Stages(v, n, t)[L]
  <2>1. L \in 0..Len(t)
    BY <1>1
  <2> QED BY <1>1, <1>2, <2>1, StagePrefix
<1>4. Stages(v, n, u)[L + 1] = Descend(v, n, Stages(v, n, u)[L], x)
  <2> DEFINE a == Stages(v, n, u)
  <2>0. Len(u) \in Nat
    BY <1>1
  <2>1. \A j \in 1..Len(u) : a[j] = Descend(v, n, a[j - 1], u[j])
    BY <2>0, StageFacts
  <2> HIDE DEF a, L
  <2>2. L + 1 \in 1..Len(u) /\ L + 1 - 1 = L
    BY <1>1
  <2>3. a[L + 1] = Descend(v, n, a[L], x)
    BY <1>1, <2>1, <2>2
  <2> QED BY <2>3 DEF a
<1>5. ASSUME NEW j \in 0..L PROVE SubSeq(u, 1, j) = SubSeq(t, 1, j)
  <2>1. j \in Int /\ 1 \in Int /\ \A i \in 1..j : u[i] \in Name /\ t[i] \in Name /\ u[i] = t[i]
    BY <1>1
  <2>2. /\ SubSeq(u, 1, j) \in Seq(Name) /\ SubSeq(t, 1, j) \in Seq(Name)
        /\ Len(SubSeq(u, 1, j)) = (IF 1 <= j THEN j - 1 + 1 ELSE 0)
        /\ Len(SubSeq(t, 1, j)) = (IF 1 <= j THEN j - 1 + 1 ELSE 0)
        /\ \A i \in 1..(j - 1 + 1) : SubSeq(u, 1, j)[i] = u[1 + i - 1] /\ SubSeq(t, 1, j)[i] = t[1 + i - 1]
    BY <2>1, SubSeqProperties
  <2>3. ASSUME NEW i \in 1..Len(SubSeq(u, 1, j)) PROVE SubSeq(u, 1, j)[i] = SubSeq(t, 1, j)[i]
    <3>1. i \in 1..(j - 1 + 1) /\ 1 + i - 1 = i /\ i \in 1..j
      BY <2>1, <2>2
    <3> QED BY <2>1, <2>2, <3>1
  <2> QED BY <2>2, <2>3, SeqEqual
<1>6. SubSeq(t, 1, L) = t
  <2>1. L \in Int /\ 1 \in Int /\ \A i \in 1..L : t[i] \in Name
    BY <1>1
  <2>2. /\ SubSeq(t, 1, L) \in Seq(Name) /\ Len(SubSeq(t, 1, L)) = (IF 1 <= L THEN L - 1 + 1 ELSE 0)
        /\ \A i \in 1..(L - 1 + 1) : SubSeq(t, 1, L)[i] = t[1 + i - 1]
    BY <2>1, SubSeqProperties
  <2>3. Len(SubSeq(t, 1, L)) = L
    BY <1>1, <2>2
  <2>4. ASSUME NEW i \in 1..L PROVE SubSeq(t, 1, L)[i] = t[i]
    <3>1. i \in 1..(L - 1 + 1) /\ 1 + i - 1 = i
      BY <1>1
    <3> QED BY <2>2, <3>1
  <2> QED BY <2>2, <2>3, <2>4, SeqEqual
<1> QED BY <1>1, <1>3, <1>4, <1>5, <1>6 DEF read_by_path

(* The chain went through something that is no directory.                  *)
Detour(v, n, t) ==
    \E j \in 0..(Len(t) - 1) :
        LET q == read_by_path(v, n, SubSeq(t, 1, j))
        IN  q.ok /\ q.value.some /\ read_inode(v, n, q.value.value).value.file_type # "Directory"

(* Following the names of t one by one led to i: so does the path, unless  *)
(* i cannot be read or the chain made a detour.                            *)
ChainAt(v, n, t, i) ==
    \/ read_by_path(v, n, t) = Ok(Some(i))
    \/ ~read_by_path(v, n, t).ok /\ ~read_inode(v, n, i).ok
    \/ read_by_path(v, n, t) = Ok(None) /\ Detour(v, n, t)

ChainInv ==
    /\ mount = "closed" => trail = << >> /\ node = RootIno
    /\ mount = "open" => ChainAt(vol, have, trail, node)

(* The empty path leads to the root.                                       *)
LEMMA ChainStarts ==
    ASSUME NEW v \in Volumes, NEW n \in Nat
    PROVE  ChainAt(v, n, << >>, RootIno)
<1> DEFINE q == read_inode(v, n, RootIno)
           e == Stages(v, n, << >>)
<1>1. e[0] = PathRoot(v, n)
  <2>1. Len(<< >>) \in Nat
    OBVIOUS
  <2> QED BY <2>1, StageFacts
<1>2. read_by_path(v, n, << >>) = PathRoot(v, n)
  BY <1>1 DEF read_by_path
<1>3. q.ok \in BOOLEAN
  BY VolumeAssumption, ReadInodeFacts
<1>4. CASE q.ok
  BY <1>2, <1>4 DEF PathRoot, ChainAt
<1>5. CASE ~q.ok
  BY <1>2, <1>5 DEF PathRoot, ChainAt
<1> QED BY <1>3, <1>4, <1>5

(* One more lookup keeps the chain and the path together.                  *)
LEMMA ChainGrows ==
    ASSUME NEW v \in Volumes, NEW n \in Nat, NEW i \in Ino, NEW k \in Ino,
           NEW t \in Seq(Name), NEW x \in Name, NEW u \in Seq(Name),
           Len(u) = Len(t) + 1, u[Len(t) + 1] = x, \A j \in 1..Len(t) : u[j] = t[j],
           ChainAt(v, n, t, i), read_inode(v, n, i).ok,
           Find(list_dir(v, n, i).value, x) = Some(k)
    PROVE  ChainAt(v, n, u, k)
<1> DEFINE p == read_by_path(v, n, t)
           q == read_inode(v, n, i)
           s == read_inode(v, n, k)
<1>1. /\ read_by_path(v, n, u) = Descend(v, n, p, x)
      /\ \A j \in 0..Len(t) : SubSeq(u, 1, j) = SubSeq(t, 1, j)
      /\ SubSeq(t, 1, Len(t)) = t
  BY OneMore
<1>2. Len(t) \in Nat
  OBVIOUS
<1>3. x # Empty
  BY VolumeAssumption
<1>4. CASE p = Ok(Some(i)) /\ q.value.file_type = "Directory"
  <2>1. p.ok = TRUE /\ p.value.some = TRUE /\ p.value.value = i
    BY <1>4 DEF Ok, Some
  <2>2. Some(k).some = TRUE /\ Some(k).value = k
    BY DEF Some
  <2>3. Descend(v, n, p, x) = IF s.ok THEN Ok(Some(k)) ELSE s
    <3> HIDE DEF p
    <3> QED BY <1>3, <1>4, <2>1, <2>2 DEF Descend
  <2>4. s.ok \in BOOLEAN
    BY ReadInodeFacts
  <2> QED BY <1>1, <2>3, <2>4 DEF ChainAt
<1>5. CASE p = Ok(Some(i)) /\ q.value.file_type # "Directory"
  <2>1. p.ok = TRUE /\ p.value.some = TRUE /\ p.value.value = i
    BY <1>5 DEF Ok, Some
  <2>2. Descend(v, n, p, x) = Ok(None)
    <3> HIDE DEF p
    <3> QED BY <1>3, <1>5, <2>1 DEF Descend
  <2>3. Detour(v, n, u)
    <3>1. Len(t) \in 0..(Len(u) - 1) /\ Len(t) \in 0..Len(t)
      BY <1>2
    <3>2. read_by_path(v, n, SubSeq(u, 1, Len(t))) = p
      BY <1>1, <3>1
    <3> QED BY <1>5, <2>1, <3>1, <3>2 DEF Detour
  <2> QED BY <1>1, <2>2, <2>3 DEF ChainAt
<1>6. CASE p = Ok(None) /\ Detour(v, n, t)
  <2>1. p.ok = TRUE /\ p.value.some = FALSE
    BY <1>6 DEF Ok, None
  <2>2. Descend(v, n, p, x) = p
    <3> HIDE DEF p
    <3> QED BY <2>1 DEF Descend
  <2>3. Detour(v, n, u)
    <3>1. PICK j \in 0..(Len(t) - 1) :
             LET a == read_by_path(v, n, SubSeq(t, 1, j))
             IN  a.ok /\ a.value.some /\ read_inode(v, n, a.value.value).value.file_type # "Directory"
      BY <1>6 DEF Detour
    <3>2. j \in 0..(Len(u) - 1) /\ j \in 0..Len(t)
      BY <1>2
    <3>3. SubSeq(u, 1, j) = SubSeq(t, 1, j)
      BY <1>1, <3>2
    <3> QED BY <3>1, <3>2, <3>3 DEF Detour
  <2> QED BY <1>1, <1>6, <2>2, <2>3 DEF ChainAt
<1> QED BY <1>4, <1>5, <1>6 DEF ChainAt

(* Every step keeps the client's chain of lookups and the path together.   *)
LEMMA ChainStep == SessionInv /\ ChainInv /\ [Next]_vars => ChainInv'
<1> SUFFICES ASSUME SessionInv, ChainInv, [Next]_vars PROVE ChainInv'
  OBVIOUS
<1>0. TypeOK
  BY DEF SessionInv
<1>1. ASSUME vol' = vol, have' = have, mount' = mount, node' = node, trail' = trail PROVE ChainInv'
  BY <1>1 DEF ChainInv
<1>2. ASSUME NEW n \in Deliveries, n <= Len(vol.bytes), Open(n) PROVE ChainInv'
  <2>1. vol' = vol /\ have' = n /\ mount' # "closed" /\ trail' = << >> /\ node' = RootIno /\ n \in Nat
    BY <1>2, VolumeAssumption DEF Open, ChainInv
  <2>2. ChainAt(vol, n, << >>, RootIno)
    BY <1>0, <2>1, SessionTypes, ChainStarts
  <2> QED BY <2>1, <2>2 DEF ChainInv
<1>3. CASE OpenFails
  BY <1>3 DEF OpenFails, ChainInv
<1>4. ASSUME NEW name \in Name, Lookup(name) PROVE ChainInv'
  <2> DEFINE l == list_dir(vol, have, node)
             r == LookupResult(node, name)
  <2>1. CASE ~(r.ok /\ r.value.some)
    BY <1>1, <1>4, <2>1 DEF Lookup, Stay
  <2>2. CASE r.ok /\ r.value.some
    <3>1. /\ vol' = vol /\ have' = have /\ mount' = mount /\ mount = "open"
          /\ node' = r.value.value /\ trail' = Append(trail, name)
      BY <1>4, <2>2 DEF Lookup, Fresh, Holds
    <3>2. vol \in Volumes /\ have \in Nat /\ node \in Ino /\ trail \in Seq(Name)
      BY <1>0, SessionTypes
    <3>3. /\ l.ok \in BOOLEAN /\ (l.ok <=> read_inode(vol, have, node).ok)
          /\ l.ok => DOMAIN l.value \subseteq Nat /\ \A k \in DOMAIN l.value : l.value[k].ino \in Ino \ {0}
      BY <3>2, ListFacts
    <3>4. l.ok /\ r = Ok(Find(l.value, name))
      <4> HIDE DEF l
      <4>1. map_err(l).ok = l.ok /\ (l.ok => map_err(l) = l)
        BY <3>3, MapErrFacts
      <4>2. r = IF map_err(l).ok THEN Ok(Find(map_err(l).value, name)) ELSE map_err(l)
        BY DEF LookupResult, l
      <4> QED BY <2>2, <3>3, <4>1, <4>2
    <3>5. r.value = Find(l.value, name)
      BY <3>4 DEF Ok
    <3> HIDE DEF l, r
    <3>6. PICK j \in DOMAIN l.value : Find(l.value, name) = Some(l.value[j].ino)
      BY <2>2, <3>3, <3>4, <3>5, FindFacts DEF None
    <3>7. node' = l.value[j].ino /\ node' \in Ino /\ Find(l.value, name) = Some(node')
      BY <3>1, <3>3, <3>4, <3>5, <3>6 DEF Some
    <3>8. /\ trail' \in Seq(Name) /\ Len(trail') = Len(trail) + 1 /\ trail'[Len(trail) + 1] = name
          /\ \A h \in 1..Len(trail) : trail'[h] = trail[h]
      BY <3>1, <3>2
    <3>9. ChainAt(vol, have, trail, node) /\ read_inode(vol, have, node).ok
      BY <3>1, <3>3, <3>4 DEF ChainInv
    <3>10. PICK u \in Seq(Name) : u = trail'
      BY <3>8
    <3>11. ChainAt(vol, have, u, node')
      <4>1. Len(u) = Len(trail) + 1 /\ u[Len(trail) + 1] = name /\ \A h \in 1..Len(trail) : u[h] = trail[h]
        BY <3>8, <3>10
      <4>2. Find(list_dir(vol, have, node).value, name) = Some(node')
        BY <3>7 DEF l
      <4> QED BY <3>2, <3>7, <3>9, <4>1, <4>2, ChainGrows
    <3> QED BY <3>1, <3>10, <3>11 DEF ChainInv
  <2> QED BY <2>1, <2>2
<1> QED BY <1>1, <1>2, <1>3, <1>4
  DEF Next, Refuse, ReadDir, Meta, Extents, Deleted, ReadLink, ReadAt, Seek, Stay, vars

(* The path of the names a client looked up one after the other leads to   *)
(* the inode it holds, and to its content, but for unreadable inodes and   *)
(* chains through something that is no directory.                          *)
THEOREM ChainAndPathAgree == Spec => []ChainIsPath
<1>1. Init => ChainInv
  BY DEF Init, ChainInv
<1>2. SessionInv /\ ChainInv => ChainIsPath
  <2> SUFFICES ASSUME SessionInv, ChainInv, Holds,
                      NEW path, path = <<Empty>> \o trail \o <<Empty>>,
                      NEW p, p = read_by_path(vol, have, path)
               PROVE  \/ /\ p = Ok(Some(node))
                         /\ read_path_content(vol, have, path) =
                              IF Contents.ok THEN Ok(Some(Contents.value)) ELSE Contents
                      \/ ~p.ok /\ ~read_inode(vol, have, node).ok
                      \/ p = Ok(None) /\ Detour(vol, have, trail)
    BY DEF ChainIsPath, Detour
  <2>1. trail \in Seq(Name) /\ Len(trail) \in Nat
    BY SessionTypes DEF SessionInv
  <2>2. /\ Len(path) = Len(trail) + 2 /\ path[1] = Empty /\ path[Len(trail) + 2] = Empty
        /\ \A j \in 1..Len(trail) : path[j + 1] = trail[j]
    BY <2>1, SlashedPath
  <2>3. p = read_by_path(vol, have, trail)
    BY <2>1, <2>2, SlashesIgnored
  <2>4. ChainAt(vol, have, trail, node)
    BY DEF ChainInv, Holds
  <2>5. ASSUME p = Ok(Some(node))
        PROVE  read_path_content(vol, have, path) =
                 IF Contents.ok THEN Ok(Some(Contents.value)) ELSE Contents
    <3>1. p.ok = TRUE /\ p.value.some = TRUE /\ p.value.value = node
      BY <2>5 DEF Ok, Some
    <3> QED BY <3>1 DEF read_path_content, Contents
  <2> QED BY <2>3, <2>4, <2>5 DEF ChainAt
<1> QED BY <1>1, <1>2, ChainStep, SessionInvariant, PTL DEF Spec

-----------------------------------------------------------------------------
(* Link targets.                                                           *)

(* A pointer reads back as it was stored, in either width and byte order.  *)
LEMMA StoredReads ==
    ASSUME NEW v \in Volumes, NEW bs \in Seq(Byte), NEW k \in Nat, (k + 1) * PtrSize(v) <= Len(bs),
           NEW w \in Addr, Stored(v, bs, 0, k, w)
    PROVE  WordAt(v, bs, k) = w
<1> DEFINE p == PtrSize(v)
<1>1. p \in {1, 2} /\ Len(bs) \in Nat
  BY VolumeFacts
<1>2. PICK m \in Nat : m = k * p
  BY <1>1
<1>3. (k + 1) * p = m + p
  BY <1>1, <1>2
<1>4. \A j \in (m + 1)..(m + p) : bs[j] \in Byte
  BY <1>1, <1>3
<1> DEFINE s == SubSeq(bs, m + 1, m + p)
<1>5. Len(s) = p /\ \A j \in 1..p : s[j] = bs[m + 1 + j - 1]
  <2> HIDE DEF p
  <2>1. m + 1 \in Int /\ m + p \in Int /\ p \in Nat /\ m + p - (m + 1) + 1 = p
    BY <1>1
  <2> QED BY <1>1, <1>4, <2>1, SubSeqProperties
<1>6. \A j \in 1..p : s[j] = Enc(v, w)[j]
  <2> SUFFICES ASSUME NEW j \in 1..p PROVE s[j] = Enc(v, w)[j]
    OBVIOUS
  <2>1. bs[0 + k * p + j] = Enc(v, w)[j]
    BY DEF Stored
  <2>2. 0 + k * p + j = m + 1 + j - 1
    BY <1>1, <1>2
  <2> QED BY <1>5, <2>1, <2>2
<1>7. WordAt(v, bs, k) = Word(v, s)
  BY <1>2, <1>3 DEF WordAt
<1> HIDE DEF s
<1>8. CASE p = 1
  <2>1. Enc(v, w) = <<w>>
    BY <1>8 DEF Enc
  <2>2. s[1] = w /\ Len(s) = 1
    BY <1>5, <1>6, <1>8, <2>1
  <2> QED BY <1>7, <2>2 DEF Word
<1>9. CASE p = 2
  <2>1. w \in Nat /\ Radix \in Nat \ {0}
    BY VolumeAssumption, TreeAssumption
  <2>2. w \div Radix \in Nat /\ w % Radix \in 0..(Radix - 1) /\ w = (w \div Radix) * Radix + (w % Radix)
    BY <2>1, NumberOf
  <2>3. PICK q \in Nat : q = w \div Radix
    BY <2>2
  <2>4. PICK r \in Nat : r = w % Radix
    BY <2>1, <2>2
  <2>5. q * Radix = Radix * q /\ q * Radix \in Nat
    BY <2>1
  <2>6. w = r + Radix * q /\ w = Radix * q + r
    <3>1. PICK z \in Nat : z = q * Radix
      BY <2>5
    <3> QED BY <2>2, <2>3, <2>4, <2>5, <3>1
  <2>7. Enc(v, w) = IF v.endian = "Little" THEN <<r, q>> ELSE <<q, r>>
    BY <1>9, <2>3, <2>4 DEF Enc
  <2>8. Len(s) = 2 /\ s[1] = Enc(v, w)[1] /\ s[2] = Enc(v, w)[2]
    BY <1>5, <1>6, <1>9
  <2>9. CASE v.endian = "Little"
    BY <1>7, <2>6, <2>7, <2>8, <2>9 DEF Word
  <2>10. CASE v.endian # "Little"
    BY <1>7, <2>6, <2>7, <2>8, <2>10 DEF Word
  <2> QED BY <2>9, <2>10
<1> QED BY <1>1, <1>8, <1>9

(* What is assumed of a link whose target lies in blocks.                  *)
InBlocks(v, d) ==
    /\ d.size \in Nat /\ d.region \in Seq(Byte) /\ Len(d.region) = RegionLen(v)
    /\ d.blocks \in Seq(Addr \ {0}) /\ d.ib \in Addr
    /\ d.target \in Seq(Byte) /\ LinkStored(v, d) /\ ~d.inline

(* The block map leads to the blocks the target was stored in.             *)
LEMMA LinkBlocks ==
    ASSUME NEW v \in Volumes, NEW d, InBlocks(v, d), NEW n, n = Len(v.bytes),
           NEW f, f = FileOf(v, n, parse_with_maxsymlink(v, d)), NEW b \in 0..(Len(d.blocks) - 1)
    PROVE  resolve_block(f, b, Fanout(f)) = d.blocks[b + 1]
<1> DEFINE p == PtrSize(v)
           w == d.blocks[b + 1]
           D == UFS_NDADDR
<1>1. /\ p \in {1, 2} /\ v.bsize \in Nat \ {0} /\ D \in Nat \ {0} /\ b \in Nat
      /\ v.bytes \in Seq(Byte) /\ n \in Nat /\ n \in 0..Len(v.bytes) /\ Len(d.blocks) \in Nat
  BY VolumeFacts, TreeAssumption DEF InBlocks
<1>2. w \in Addr \ {0}
  BY <1>1 DEF InBlocks
<1>3. d.region \in Seq(Byte) /\ Len(d.region) = (D + 3) * p /\ d.ib \in Addr
  BY DEF InBlocks, RegionLen, UFS_NIADDR
<1>4. IF b < D THEN Stored(v, d.region, 0, b, w)
      ELSE /\ b - D < v.bsize \div p /\ d.ib # 0 /\ d.ib + v.bsize <= Len(v.bytes)
           /\ Stored(v, d.region, 0, D, d.ib) /\ Stored(v, v.bytes, d.ib, b - D, w)
  BY DEF InBlocks, LinkStored
<1>5. \A k \in 0..D : (k + 1) * p <= Len(d.region)
  BY <1>1, <1>3
<1>6. /\ \A k \in 0..(D - 1) : f.direct[k] = WordAt(v, d.region, k)
      /\ f.indirect[0] = WordAt(v, d.region, D)
      /\ f.nindir = v.bsize \div p
      /\ \A a \in Addr \ {0} : f.ptrs[a] =
            [ k \in 1..(Len(Held(v, n, a)) \div p) |-> WordAt(v, Held(v, n, a), k - 1) ]
  BY <1>1 DEF FileOf, parse_with_maxsymlink, UFS_NIADDR
<1> HIDE DEF p, w
<1>7. CASE b < D
  <2>1. b \in 0..D /\ b \in 0..(D - 1)
    BY <1>1, <1>7
  <2>2. WordAt(v, d.region, b) = w
    BY <1>1, <1>2, <1>3, <1>4, <1>5, <1>7, <2>1, StoredReads DEF p
  <2> QED BY <1>6, <1>7, <2>1, <2>2 DEF resolve_block, w
<1>8. CASE ~(b < D)
  <2> DEFINE i == b - D
             h == Held(v, n, d.ib)
  <2>1. /\ i \in Nat /\ D \in 0..D /\ D \in Nat /\ d.ib \in Nat
        /\ i < v.bsize \div p /\ d.ib # 0 /\ d.ib + v.bsize <= n
        /\ Stored(v, d.region, 0, D, d.ib) /\ Stored(v, v.bytes, d.ib, i, w)
    <3>1. i \in Nat /\ D \in 0..D /\ D \in Nat
      BY <1>1, <1>8
    <3>2. d.ib \in Nat
      BY <1>3, VolumeAssumption
    <3> QED BY <1>4, <1>8, <3>1, <3>2
  <2>2. f.indirect[0] = d.ib
    BY <1>3, <1>5, <1>6, <2>1, StoredReads DEF p
  <2>3. h \in Seq(Byte) /\ Len(h) = v.bsize /\ \A j \in 1..v.bsize : h[j] = v.bytes[d.ib + j]
    <3>1. /\ h \in Seq(Byte) /\ \A j \in 1..Len(h) : h[j] = v.bytes[d.ib + j]
          /\ Len(h) = IF d.ib >= n THEN 0 ELSE IF d.ib + v.bsize < n THEN v.bsize ELSE n - d.ib
      <4>1. d.ib \in Nat /\ n \in 0..Len(v.bytes)
        BY <1>1, <2>1
      <4> QED BY <4>1, HeldFacts
    <3>2. Len(h) = v.bsize
      <4> HIDE DEF h
      <4> QED BY <1>1, <2>1, <3>1
    <3> QED BY <3>1, <3>2
  <2> HIDE DEF h
  <2>4. PICK c \in Nat : c = v.bsize \div p
    BY <1>1
  <2>5. (i + 1) * p <= v.bsize
    BY <1>1, <2>1, <2>4
  <2>6. Stored(v, h, 0, i, w)
    <3> SUFFICES ASSUME NEW e \in 1..p PROVE h[0 + i * p + e] = Enc(v, w)[e]
      BY DEF Stored, p
    <3>1. PICK m \in Nat : m = i * p
      BY <1>1, <2>1
    <3>2. m + e \in 1..v.bsize /\ 0 + m + e = m + e /\ d.ib + m + e = d.ib + (m + e)
      <4>1. e \in Nat /\ 1 <= e /\ e <= p /\ p \in Nat
        BY <1>1
      <4>2. (i + 1) * p = m + p
        BY <1>1, <2>1, <3>1
      <4> QED BY <1>1, <2>1, <2>5, <3>1, <4>1, <4>2
    <3>3. v.bytes[d.ib + i * p + e] = Enc(v, w)[e]
      BY <2>1 DEF Stored, p
    <3> QED BY <2>3, <3>1, <3>2, <3>3
  <2>7. WordAt(v, h, i) = w
    BY <1>2, <2>1, <2>3, <2>5, <2>6, StoredReads DEF p
  <2>8. f.ptrs[d.ib] = [ k \in 1..c |-> WordAt(v, h, k - 1) ]
    <3>1. d.ib \in Addr \ {0}
      BY <1>3, <2>1
    <3> QED BY <1>6, <2>3, <2>4, <3>1 DEF h
  <2>9. Len(f.ptrs[d.ib]) = c /\ i < c /\ i + 1 \in 1..c /\ (i + 1) - 1 = i
    BY <2>1, <2>4, <2>8
  <2>10. indirect_ptr(f, d.ib, i) = w
    BY <2>1, <2>7, <2>8, <2>9 DEF indirect_ptr
  <2>11. Fanout(f) = c /\ c # 0
    BY <1>6, <2>1, <2>4 DEF Fanout
  <2> QED BY <1>8, <2>2, <2>9, <2>10, <2>11 DEF resolve_block, w
<1> QED BY <1>7, <1>8

(* Each byte of the content of such a link is the byte of its target.      *)
LEMMA LinkContent ==
    ASSUME NEW v \in Volumes, NEW d, InBlocks(v, d), NEW n, n = Len(v.bytes),
           IsInode(parse_with_maxsymlink(v, d)),
           NEW f, f = FileOf(v, n, parse_with_maxsymlink(v, d)), NEW j \in 0..(d.size - 1)
    PROVE  ContentByte(f, j) = d.target[j + 1]
<1> DEFINE w == v.bsize
           b == j \div w
           m == j % w
<1>1. w \in Nat \ {0} /\ d.size \in Nat /\ Len(d.blocks) \in Nat /\ n \in Nat /\ n \in 0..Len(v.bytes) /\ j \in Nat
  BY VolumeFacts DEF InBlocks
<1> HIDE DEF w
<1>2. b \in Nat /\ m \in 0..(w - 1) /\ j = b * w + m
  BY <1>1, NumberOf
<1>3. j < Len(d.blocks) * w
  BY <1>1 DEF InBlocks, LinkStored, w
<1>4. b \in 0..(Len(d.blocks) - 1)
  <2>1. PICK L \in Nat : L = Len(d.blocks)
    BY <1>1
  <2>2. ASSUME b >= L PROVE FALSE
    <3>1. PICK c \in Nat : b = L + c
      <4>1. b - L \in Nat /\ b = L + (b - L)
        BY <1>2, <2>2
      <4> QED BY <4>1
    <3>2. b * w = L * w + c * w /\ c * w \in Nat /\ L * w \in Nat
      BY <1>1, <3>1
    <3> HIDE DEF b, m
    <3>3. PICK x \in Nat : x = L * w
      BY <3>2
    <3>4. PICK y \in Nat : y = c * w
      BY <3>2
    <3>5. j < x
      BY <1>3, <2>1, <3>3
    <3>6. j = x + y + m /\ m \in Nat
      BY <1>1, <1>2, <3>2, <3>3, <3>4
    <3> QED BY <1>1, <3>5, <3>6
  <2> QED BY <1>2, <2>1, <2>2
<1> DEFINE a == d.blocks[b + 1]
<1>5. resolve_block(f, b, Fanout(f)) = a
  BY <1>4, LinkBlocks
<1>6. a \in Addr \ {0} /\ a \in Nat
  <2>1. b + 1 \in 1..Len(d.blocks) /\ d.blocks \in Seq(Addr \ {0})
    BY <1>1, <1>4 DEF InBlocks
  <2>2. a \in Addr \ {0}
    BY <2>1
  <2> QED BY <2>2, VolumeAssumption
<1>7. IsFile(f) /\ f.bsize = w /\ f.data[a] = Held(v, n, a)
  BY <1>1, <1>6, FileOfIsFile DEF FileOf, w
<1>8. ContentByte(f, j) = BlockBytes(f, a, w)[m + 1]
  BY <1>5, <1>7 DEF ContentByte
<1>9. a + m < n /\ v.bytes[a + m + 1] = d.target[j + 1]
  BY DEF InBlocks, LinkStored, w
<1> HIDE DEF a, b, m
<1>10. BlockBytes(f, a, w)[m + 1] = IF a # 0 /\ m < Len(Held(v, n, a)) THEN Held(v, n, a)[m + 1] ELSE 0
  <2>1. w \in Nat /\ a \in Addr
    BY <1>1, <1>6
  <2> QED BY <1>2, <1>7, <2>1, BlockByte
<1>11. /\ \A e \in 1..Len(Held(v, n, a)) : Held(v, n, a)[e] = v.bytes[a + e]
       /\ Len(Held(v, n, a)) = IF a >= n THEN 0 ELSE IF a + w < n THEN w ELSE n - a
  BY <1>1, <1>6, HeldFacts DEF w
<1>12. m < Len(Held(v, n, a)) /\ m + 1 \in 1..Len(Held(v, n, a)) /\ a + (m + 1) = a + m + 1
  <2>1. PICK h : h = Len(Held(v, n, a))
    OBVIOUS
  <2>2. /\ h = IF a >= n THEN 0 ELSE IF a + w < n THEN w ELSE n - a
        /\ m \in Nat /\ m < w /\ w \in Nat
    BY <1>1, <1>2, <1>11, <2>1
  <2>3. m < h /\ h \in Nat
    BY <1>1, <1>6, <1>9, <2>2
  <2> QED BY <1>6, <2>1, <2>2, <2>3
<1> QED BY <1>6, <1>8, <1>9, <1>10, <1>11, <1>12

(* read_symlink_target yields the stored target, inline or in blocks.      *)
LEMMA TargetRead ==
    ASSUME NEW v \in Volumes, NEW i \in Ino, NEW d, d = v.dinode[i],
           FileType(d.mode) = "Symlink", v.maxsymlinklen <= RegionLen(v)
    PROVE  /\ read_symlink_target(v, Len(v.bytes), parse_with_maxsymlink(v, d)) = Ok(d.target)
           /\ parse_with_maxsymlink(v, d).fast_symlink.some = d.inline
           /\ d.target \in Seq(Byte)
<1> DEFINE inode == parse_with_maxsymlink(v, d)
           n == Len(v.bytes)
<1>1. LinkStored(v, d)
  BY LinkAssumption
<1>2. /\ d.size \in Nat /\ d.region \in Seq(Byte) /\ Len(d.region) = RegionLen(v)
      /\ d.blocks \in Seq(Addr \ {0}) /\ d.ib \in Addr /\ d.target \in Seq(Byte)
      /\ d.inline \in BOOLEAN /\ v.maxsymlinklen \in Int
  <2>1. IsVolume(v)
    BY VolumeAssumption
  <2> QED BY <2>1 DEF IsVolume
<1>3. IsInode(inode) /\ inode.size = d.size /\ inode.fast_symlink = fast_symlink(v, d)
  BY InodeType DEF parse_with_maxsymlink
<1>4. Len(d.target) = d.size /\ (d.inline <=> v.maxsymlinklen > 0 /\ d.size <= v.maxsymlinklen)
  BY <1>1 DEF LinkStored
<1> HIDE DEF inode
<1>5. CASE d.inline
  <2> DEFINE s == SubSeq(d.region, 1, IF d.size < RegionLen(v) THEN d.size ELSE RegionLen(v))
             t == SubSeq(d.region, 1, d.size)
  <2>1. RegionLen(v) \in Nat
    BY VolumeFacts
  <2>2. fast_symlink(v, d) = Some(s)
    BY <1>4, <1>5 DEF fast_symlink
  <2>3. d.size <= RegionLen(v)
    BY <1>2, <1>4, <1>5, <2>1
  <2>4. s = t
    BY <1>2, <2>1, <2>3
  <2>5. \A j \in 1..d.size : d.region[j] \in Byte
    BY <1>2, <2>1, <2>3
  <2>6. t \in Seq(Byte) /\ Len(t) = d.size /\ \A j \in 1..d.size : t[j] = d.region[j]
    <3>1. /\ t \in Seq(Byte) /\ Len(t) = IF 1 <= d.size THEN d.size - 1 + 1 ELSE 0
          /\ \A j \in 1..(d.size - 1 + 1) : t[j] = d.region[1 + j - 1]
      <4>1. 1 \in Int /\ d.size \in Int
        BY <1>2
      <4> QED BY <2>5, <4>1, SubSeqProperties
    <3>2. d.size - 1 + 1 = d.size /\ \A j \in 1..d.size : 1 + j - 1 = j
      BY <1>2
    <3> QED BY <1>2, <3>1, <3>2
  <2>7. \A j \in 1..d.size : d.region[j] = d.target[j]
    BY <1>1, <1>5 DEF LinkStored
  <2> HIDE DEF s, t
  <2>8. t = d.target
    BY <1>2, <1>4, <2>6, <2>7, SeqEqual
  <2>9. inode.fast_symlink = Some(d.target)
    BY <1>3, <2>2, <2>4, <2>8
  <2>10. read_symlink_target(v, n, inode) = Ok(d.target) /\ inode.fast_symlink.some = TRUE
    BY <2>9 DEF read_symlink_target, Some
  <2> QED BY <1>2, <1>5, <2>10 DEF inode
<1>6. CASE ~d.inline
  <2>1. InBlocks(v, d)
    BY <1>1, <1>2, <1>6 DEF InBlocks
  <2>2. inode.fast_symlink = None
    BY <1>3, <1>4, <1>6 DEF fast_symlink
  <2> DEFINE f == FileOf(v, n, inode)
             c == [ j \in 1..d.size |-> ContentByte(f, j - 1) ]
  <2>3. d.size <= n
    BY <1>1, <1>6 DEF LinkStored
  <2>4. n \in Nat
    BY VolumeFacts
  <2>5. read_inode_file(v, n, inode) = Ok(c)
    <3>1. ~(inode.size > n)
      BY <1>2, <1>3, <2>3, <2>4
    <3> QED BY <1>3, <3>1 DEF read_inode_file
  <2>6. ASSUME NEW j \in 1..d.size PROVE ContentByte(f, j - 1) = d.target[j]
    <3>1. j - 1 \in 0..(d.size - 1) /\ (j - 1) + 1 = j
      BY <1>2
    <3> QED BY <1>3, <2>1, <3>1, LinkContent DEF inode
  <2> HIDE DEF f
  <2>7. c = d.target
    <3>1. d.target = [ j \in 1..d.size |-> d.target[j] ]
      BY <1>2, <1>4
    <3> QED BY <2>6, <3>1
  <2>8. read_symlink_target(v, n, inode) = Ok(d.target) /\ inode.fast_symlink.some = FALSE
    BY <2>2, <2>5, <2>7 DEF read_symlink_target, None
  <2> QED BY <1>2, <1>6, <2>8 DEF inode
<1> QED BY <1>2, <1>5, <1>6

(* read_link gives the target that was stored, wherever it was stored, and *)
(* meta says where.                                                        *)
THEOREM LinksAreTargets == Spec => []LinkIsTarget
<1>1. SessionInv => LinkIsTarget
  <2> SUFFICES ASSUME SessionInv, have = Whole, FileType(Dinode.mode) = "Symlink",
                      vol.maxsymlinklen <= RegionLen(vol), read_inode(vol, have, node).ok
               PROVE  /\ \A cap \in Windows : LinkOf(node, cap) = Ok(Window(Dinode.target, 0, cap))
                      /\ answer.call = "meta" => answer.result.value.resident.some = Dinode.inline
    BY DEF LinkIsTarget
  <2> DEFINE d == vol.dinode[node]
             inode == parse_with_maxsymlink(vol, d)
             r == read_inode(vol, have, node)
             t == read_symlink_target(vol, have, inode)
  <2>0. TypeOK /\ have = Len(vol.bytes) /\ Dinode = d
    BY DEF SessionInv, Whole, Dinode
  <2>1. vol \in Volumes /\ node \in Ino /\ have \in Nat
    BY <2>0, SessionTypes
  <2>2. r = Ok(inode)
    BY <2>1, ReadInodeFacts
  <2>3. t = Ok(d.target) /\ inode.fast_symlink.some = d.inline /\ d.target \in Seq(Byte)
    BY <2>0, <2>1, TargetRead
  <2>4. inode.file_type = "Symlink"
    BY <2>0 DEF parse_with_maxsymlink
  <2> HIDE DEF inode, r, t, d
  <2>5. map_err(r) = r /\ map_err(t) = t /\ r.ok /\ r.value = inode /\ t.ok /\ t.value = d.target
    BY <2>2, <2>3 DEF map_err, Ok
  <2>6. \A cap \in Windows : LinkOf(node, cap) = Ok(Window(d.target, 0, cap))
    BY <2>4, <2>5 DEF LinkOf, r, t
  <2>7. MetaOf(vol, have, node).value.resident.some = d.inline
    <3>1. MetaOf(vol, have, node) =
            Ok([ kind |-> node_kind(inode.file_type), size |-> inode.size, born |-> inode.birthtime,
                 resident |-> IF inode.fast_symlink.some
                              THEN Some(Len(inode.fast_symlink.value)) ELSE None ])
      BY <2>5 DEF MetaOf, r
    <3>2. d.inline \in BOOLEAN
      <4>1. IsVolume(vol)
        BY <2>1, VolumeAssumption
      <4> QED BY <2>1, <4>1 DEF IsVolume, d
    <3> DEFINE res == IF inode.fast_symlink.some
                      THEN Some(Len(inode.fast_symlink.value)) ELSE None
    <3>3. MetaOf(vol, have, node).value.resident = res
      <4> HIDE DEF res
      <4>1. MetaOf(vol, have, node) =
              Ok([ kind |-> node_kind(inode.file_type), size |-> inode.size,
                   born |-> inode.birthtime, resident |-> res ])
        BY <3>1 DEF res
      <4> QED BY <4>1 DEF Ok
    <3>4. CASE d.inline
      <4>1. res.some = TRUE
        BY <2>3, <3>4 DEF Some
      <4> QED BY <3>3, <3>4, <4>1
    <3>5. CASE ~d.inline
      <4>1. res.some = FALSE
        BY <2>3, <3>5 DEF None
      <4>2. d.inline = FALSE
        BY <3>2, <3>5
      <4> QED BY <3>3, <4>1, <4>2
    <3> QED BY <3>2, <3>4, <3>5
  <2> QED BY <2>0, <2>6, <2>7 DEF SessionInv, LastAnswer
<1> QED BY <1>1, SessionInvariant, PTL

-----------------------------------------------------------------------------
(* Before a volume can be mounted its superblock has to be found: the      *)
(* theorems of PrimarySb, for every set of field values a superblock may   *)
(* hold.  The inductive invariant says what each search has learnt from    *)
(* where it stands.                                                        *)

(* The verdicts of Superblock::parse exclude one another, and a region     *)
(* with a magic is refused only for its size or its geometry.              *)
LEMMA ParseVerdicts ==
    ASSUME NEW r
    PROVE  /\ Parse(r) \in {"Truncated", "BadMagic", "ImpossibleGeometry", "Ok"}
           /\ r.size = "full" /\ r.magic # "neither" => Parse(r) \in {"ImpossibleGeometry", "Ok"}
           /\ Parse(r) = "Ok" => r.size = "full" /\ r.magic # "neither"
           /\ Parse(r) = "BadMagic" <=> r.size = "full" /\ r.magic = "neither"
  BY DEF Parse

(* What UfsFs::open has learnt: it stands at the UFS1 offset only after    *)
(* the UFS2 one failed, and its verdict is that of the offset it names.    *)
OpenerKnows ==
    \/ opener = [at |-> "SBLOCK_UFS2", verdict |-> "trying"]
    \/ /\ opener = [at |-> "SBLOCK_UFS2", verdict |-> "Ok"]
       /\ Parse(region["SBLOCK_UFS2"]) = "Ok"
    \/ /\ opener \in { [at |-> "SBLOCK_UFS1", verdict |-> "trying"],
                       [at |-> "SBLOCK_UFS1", verdict |-> Parse(region["SBLOCK_UFS1"])] }
       /\ Parse(region["SBLOCK_UFS2"]) # "Ok"

(* What parse_primary_sb has learnt: it passed over the UFS2 offset only   *)
(* for a missing or unusable region, called a magic invalid only where it  *)
(* is, and gave up only after both.                                        *)
Unusable(off) == Parse(region[off]) \in {"Truncated", "ImpossibleGeometry"}

AuditorKnows ==
    \/ auditor = [at |-> "SBLOCK_UFS2", verdict |-> "trying"]
    \/ /\ auditor = [at |-> "SBLOCK_UFS2", verdict |-> "Ok"]
       /\ Parse(region["SBLOCK_UFS2"]) = "Ok"
    \/ /\ auditor = [at |-> "SBLOCK_UFS2", verdict |-> "MagicInvalid"]
       /\ Parse(region["SBLOCK_UFS2"]) = "BadMagic"
    \/ /\ Unusable("SBLOCK_UFS2")
       /\ \/ auditor = [at |-> "SBLOCK_UFS1", verdict |-> "trying"]
          \/ /\ auditor = [at |-> "SBLOCK_UFS1", verdict |-> "Ok"]
             /\ Parse(region["SBLOCK_UFS1"]) = "Ok"
          \/ /\ auditor = [at |-> "SBLOCK_UFS1", verdict |-> "MagicInvalid"]
             /\ Parse(region["SBLOCK_UFS1"]) = "BadMagic"
          \/ /\ auditor = [at |-> "SBLOCK_UFS1", verdict |-> "NotUfs"]
             /\ Unusable("SBLOCK_UFS1")

(* What ufs_probe has learnt: its answer is about its window.              *)
ProbeKnows ==
    \/ probe.verdict = "trying"
    \/ /\ probe.verdict = "Yes" /\ probe.window \subseteq Offsets
       /\ \E off \in probe.window : Sniffed(off)
    \/ probe.verdict = "No" /\ \A off \in probe.window : ~Sniffed(off)

(* The inductive invariant: the three searches share the partition and     *)
(* nothing else.                                                           *)
SearchInv == OpenerKnows /\ AuditorKnows /\ ProbeKnows

(* SearchInv holds before the first step of any of the three searches.     *)
LEMMA SearchInvInit == SearchInit => SearchInv
  BY DEF SearchInit, SearchInv, OpenerKnows, AuditorKnows, ProbeKnows

(* Every step of a search preserves SearchInv, in whatever order the       *)
(* reader, the analyzer and the probe take turns.                          *)
LEMMA SearchInvStep == SearchInv /\ [SearchNext]_searchVars => SearchInv'
<1> SUFFICES ASSUME SearchInv, [SearchNext]_searchVars PROVE SearchInv'
  OBVIOUS
<1> USE DEF SearchInv
<1>1. CASE OpenTryUfs2 \/ OpenTryUfs1
  <2>1. UNCHANGED <<region, auditor, probe>>
    BY <1>1 DEF OpenTryUfs2, OpenTryUfs1
  <2>2. OpenerKnows'
    BY <1>1, <2>1 DEF OpenTryUfs2, OpenTryUfs1, OpenerKnows
  <2>3. AuditorKnows' /\ ProbeKnows'
    BY <2>1 DEF AuditorKnows, ProbeKnows, Unusable, Sniffed
  <2> QED BY <2>2, <2>3
<1>2. ASSUME NEW off \in Offsets, AuditParses(off) \/ AuditBadMagic(off) \/ AuditUnusable(off)
      PROVE  SearchInv'
  <2>1. UNCHANGED <<region, opener, probe>>
    BY <1>2 DEF AuditParses, AuditBadMagic, AuditUnusable
  <2>2. AuditorKnows'
    <3>1. CASE off = "SBLOCK_UFS2"
      BY <1>2, <2>1, <3>1
         DEF AuditParses, AuditBadMagic, AuditUnusable, AuditorKnows, Unusable
    <3>2. CASE off = "SBLOCK_UFS1"
      BY <1>2, <2>1, <3>2
         DEF AuditParses, AuditBadMagic, AuditUnusable, AuditorKnows, Unusable
    <3> QED BY <3>1, <3>2 DEF Offsets
  <2>3. OpenerKnows' /\ ProbeKnows'
    BY <2>1 DEF OpenerKnows, ProbeKnows, Sniffed
  <2> QED BY <2>2, <2>3
<1>3. ASSUME NEW window \in SUBSET Offsets, ufs_probe(window) PROVE SearchInv'
  <2>1. UNCHANGED <<region, opener, auditor>>
    BY <1>3 DEF ufs_probe
  <2>2. ProbeKnows'
    BY <1>3, <2>1 DEF ufs_probe, ProbeKnows, Sniffed
  <2>3. OpenerKnows' /\ AuditorKnows'
    BY <2>1 DEF OpenerKnows, AuditorKnows, Unusable
  <2> QED BY <2>2, <2>3
<1>4. CASE UNCHANGED searchVars
  BY <1>4 DEF searchVars, OpenerKnows, AuditorKnows, ProbeKnows, Unusable, Sniffed
<1>5. {"SBLOCK_UFS1"} \in SUBSET Offsets /\ Offsets \in SUBSET Offsets
  BY DEF Offsets
<1> QED BY <1>1, <1>2, <1>3, <1>4, <1>5 DEF SearchNext, Search, AllReturned

(* Every reachable state of the three searches satisfies SearchInv.        *)
THEOREM SearchInvariant == SearchSpec => []SearchInv
  BY SearchInvInit, SearchInvStep, PTL DEF SearchSpec

(* The reader and the analyzer never work from different superblocks.      *)
THEOREM OneSuperblock == SearchSpec => []AuditorReadsWhatOpenerMounts
<1>1. SearchInv => AuditorReadsWhatOpenerMounts
  <2> SUFFICES ASSUME SearchInv, Returned, auditor.verdict = "Ok"
               PROVE  opener.verdict = "Ok" /\ opener.at = auditor.at
    BY DEF AuditorReadsWhatOpenerMounts
  <2>1. \/ auditor.at = "SBLOCK_UFS2" /\ Parse(region["SBLOCK_UFS2"]) = "Ok"
        \/ /\ auditor.at = "SBLOCK_UFS1" /\ Parse(region["SBLOCK_UFS1"]) = "Ok"
           /\ Parse(region["SBLOCK_UFS2"]) # "Ok"
    BY DEF SearchInv, AuditorKnows, Unusable
  <2> QED BY <2>1 DEF SearchInv, OpenerKnows, Returned
<1> QED BY <1>1, SearchInvariant, PTL

(* The analyzer says nothing of a partition exactly when the reader cannot *)
(* mount it and no full structure in it has a wrong magic.                 *)
THEOREM SilenceIsExplained == SearchSpec => []SilenceExplained
<1>1. SearchInv => SilenceExplained
  <2> SUFFICES ASSUME SearchInv, Returned
               PROVE  auditor.verdict = "NotUfs" <=>
                         /\ opener.verdict # "Ok"
                         /\ \A off \in Offsets : region[off].size = "full" => region[off].magic # "neither"
    BY DEF SilenceExplained
  <2>1. ASSUME auditor.verdict = "NotUfs"
        PROVE  /\ opener.verdict # "Ok"
               /\ \A off \in Offsets : region[off].size = "full" => region[off].magic # "neither"
    <3>1. \A off \in Offsets : Unusable(off)
      BY <2>1 DEF SearchInv, AuditorKnows, Offsets
    <3>2. opener.verdict # "Ok"
      BY <3>1 DEF SearchInv, OpenerKnows, Returned, Unusable, Offsets
    <3>3. \A off \in Offsets : region[off].size = "full" => region[off].magic # "neither"
      BY <3>1, ParseVerdicts DEF Unusable
    <3> QED BY <3>2, <3>3
  <2>2. ASSUME auditor.verdict # "NotUfs"
        PROVE  \/ opener.verdict = "Ok"
               \/ \E off \in Offsets : region[off].size = "full" /\ region[off].magic = "neither"
    <3>1. auditor.verdict = "Ok" \/ \E off \in Offsets : Parse(region[off]) = "BadMagic"
      BY <2>2 DEF SearchInv, AuditorKnows, Returned, Offsets
    <3>2. CASE auditor.verdict = "Ok"
      BY <3>2 DEF SearchInv, AuditorKnows, OpenerKnows, Returned, Unusable
    <3>3. CASE \E off \in Offsets : Parse(region[off]) = "BadMagic"
      BY <3>3, ParseVerdicts
    <3> QED BY <3>1, <3>2, <3>3
  <2> QED BY <2>1, <2>2
<1> QED BY <1>1, SearchInvariant, PTL

(* Probe and open part only over a refused geometry, or over a superblock  *)
(* that stands at the other version's offset.                              *)
THEOREM ProbeVersusOpen == SearchSpec => []ProbeAgreesWithOpen
<1>1. SearchInv => ProbeAgreesWithOpen
  <2> SUFFICES ASSUME SearchInv, Returned PROVE ProbeAgreesWithOpen
    BY DEF ProbeAgreesWithOpen
  <2>1. ASSUME probe.verdict = "Yes", opener.verdict # "Ok"
        PROVE  \E off \in Offsets : Parse(region[off]) = "ImpossibleGeometry"
    <3>1. PICK off \in Offsets : Sniffed(off)
      BY <2>1 DEF SearchInv, ProbeKnows
    <3>2. Parse(region[off]) \in {"ImpossibleGeometry", "Ok"}
      BY <3>1, ParseVerdicts DEF Sniffed, Native
    <3>3. \A o \in Offsets : Parse(region[o]) # "Ok"
      BY <2>1 DEF SearchInv, OpenerKnows, Returned, Offsets
    <3> QED BY <3>2, <3>3
  <2>2. ASSUME probe.verdict = "No", probe.window = Offsets, opener.verdict = "Ok"
        PROVE  region[opener.at].magic \notin Native(opener.at)
    <3>1. opener.at \in Offsets /\ Parse(region[opener.at]) = "Ok"
      BY <2>2 DEF SearchInv, OpenerKnows, Offsets
    <3>2. region[opener.at].size = "full"
      BY <3>1, ParseVerdicts
    <3> QED BY <2>2, <3>1, <3>2 DEF SearchInv, ProbeKnows, Sniffed
  <2> QED BY <2>1, <2>2 DEF ProbeAgreesWithOpen
<1> QED BY <1>1, SearchInvariant, PTL
=============================================================================
