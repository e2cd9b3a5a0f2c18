-------------------------- MODULE GroupSweepProofs --------------------------
(***************************************************************************)
(* The geometry audit and the sweep of the inode tables, for every volume: *)
(* saturating addresses never mislead them, no finding is lost, invented   *)
(* or repeated, and every inode of a readable group is judged once.        *)
(***************************************************************************)
EXTENDS GroupSweep, CommonLemmas

(* Saturating operations return the exact value, or U64Max in its place    *)
(* when it is larger.                                                      *)
Clamped(x) == IF x > U64Max THEN U64Max ELSE x

LEMMA SatMulIs ==
    ASSUME NEW a \in Nat, NEW b \in Nat
    PROVE  SatMul(a, b) = Clamped(a * b)
<1>0. U64Max \in Nat
  BY VolumeAssumption
<1>1. CASE b = 0
  BY <1>0, <1>1 DEF SatMul, Clamped
<1>2. CASE b > 0
  <2>1. /\ U64Max \div b \in Nat /\ U64Max % b \in 0..(b - 1)
        /\ U64Max = (U64Max \div b) * b + (U64Max % b)
    BY <1>0, <1>2, NumberOf
  <2>2. a > U64Max \div b <=> a * b > U64Max
    BY <1>0, <1>2, <2>1
  <2> QED BY <1>0, <1>2, <2>2 DEF SatMul, Clamped
<1> QED BY <1>1, <1>2

LEMMA SatAddIs ==
    ASSUME NEW a \in Nat, NEW b \in Nat
    PROVE  SatAdd(a, b) = Clamped(a + b)
  BY VolumeAssumption DEF SatAdd, Clamped

(* A clamped factor or summand does not change the clamped result.         *)
LEMMA ClampTwice ==
    ASSUME NEW a \in Nat, NEW b \in Nat
    PROVE  /\ Clamped(a) \in 0..U64Max
           /\ Clamped(Clamped(a) + b) = Clamped(a + b)
           /\ Clamped(a + Clamped(b)) = Clamped(a + b)
           /\ Clamped(Clamped(a) * b) = Clamped(a * b)
           /\ Clamped(a * Clamped(b)) = Clamped(a * b)
<1>0. U64Max \in Nat
  BY VolumeAssumption
<1>1. Clamped(a) \in 0..U64Max
  BY <1>0 DEF Clamped
<1>2. Clamped(Clamped(a) + b) = Clamped(a + b) /\ Clamped(a + Clamped(b)) = Clamped(a + b)
  BY <1>0 DEF Clamped
<1>3. ASSUME NEW x \in Nat, NEW y \in Nat PROVE Clamped(Clamped(x) * y) = Clamped(x * y)
  <2>1. CASE x <= U64Max
    BY <1>0, <2>1 DEF Clamped
  <2>2. CASE x > U64Max /\ y = 0
    BY <1>0, <2>2 DEF Clamped
  <2>3. CASE x > U64Max /\ y > 0
    <3>1. U64Max * y >= U64Max /\ x * y >= x /\ U64Max * y \in Nat /\ x * y \in Nat
      BY <1>0, <2>3
    <3> QED BY <1>0, <2>3, <3>1 DEF Clamped
  <2> QED BY <1>0, <2>1, <2>2, <2>3
<1>4. Clamped(a * Clamped(b)) = Clamped(a * b)
  <2>1. Clamped(b) \in Nat
    BY <1>0 DEF Clamped
  <2>2. a * Clamped(b) = Clamped(b) * a /\ a * b = b * a
    BY <2>1
  <2> QED BY <1>3, <2>2
<1> QED BY <1>1, <1>2, <1>3, <1>4

(* Saturating operations may therefore be chained.                         *)
LEMMA SatChain ==
    ASSUME NEW a \in Nat, NEW b \in Nat
    PROVE  /\ Clamped(a) \in Nat /\ a * b \in Nat /\ a + b \in Nat
           /\ SatMul(a, b) = Clamped(a * b)
           /\ SatMul(Clamped(a), b) = Clamped(a * b)
           /\ SatMul(a, Clamped(b)) = Clamped(a * b)
           /\ SatAdd(Clamped(a), b) = Clamped(a + b)
           /\ SatAdd(Clamped(a), Clamped(b)) = Clamped(a + b)
<1>0. U64Max \in Nat
  BY VolumeAssumption
<1>1. Clamped(a) \in Nat /\ Clamped(b) \in Nat
  BY <1>0 DEF Clamped
<1>2. a * b \in Nat /\ a + b \in Nat
  OBVIOUS
<1>3. SatMul(a, b) = Clamped(a * b)
  BY SatMulIs
<1>4. SatMul(Clamped(a), b) = Clamped(Clamped(a) * b)
  BY <1>1, SatMulIs
<1>5. SatMul(a, Clamped(b)) = Clamped(a * Clamped(b))
  BY <1>1, SatMulIs
<1>6. SatAdd(Clamped(a), b) = Clamped(a + b)
  BY <1>0 DEF SatAdd, Clamped
<1>7. SatAdd(Clamped(a), Clamped(b)) = Clamped(a + b)
  BY <1>0 DEF SatAdd, Clamped
<1> QED BY <1>1, <1>2, <1>3, <1>4, <1>5, <1>6, <1>7, ClampTwice

(* An address of check_all_cgs, cg_inode_bitmap or read_inode is the exact *)
(* one, clamped, wherever on the way the arithmetic saturated.             *)
LEMMA ChainIs ==
    ASSUME NEW c \in Nat, NEW fpg \in Nat, NEW frag \in Nat, NEW fsize \in Nat
    PROVE  /\ (c * fpg + frag) * fsize \in Nat
           /\ SatMul(SatAdd(SatMul(c, fpg), frag), fsize) = Clamped((c * fpg + frag) * fsize)
<1>1. SatMul(c, fpg) = Clamped(c * fpg) /\ c * fpg \in Nat
  BY SatChain
<1>2. ASSUME NEW m \in Nat
      PROVE  SatAdd(Clamped(m), frag) = Clamped(m + frag) /\ m + frag \in Nat
  BY SatChain
<1>3. ASSUME NEW m \in Nat
      PROVE  SatMul(Clamped(m), fsize) = Clamped(m * fsize) /\ m * fsize \in Nat
  BY SatChain
<1>4. SatAdd(SatMul(c, fpg), frag) = Clamped(c * fpg + frag) /\ c * fpg + frag \in Nat
  BY <1>1, <1>2
<1> QED BY <1>3, <1>4

LEMMA AddressIs ==
    ASSUME IsVolume(vol), NEW c \in Nat, NEW frag \in Nat
    PROVE  /\ ExactAddress(c, frag) \in Nat
           /\ Address(c, frag) = Clamped(ExactAddress(c, frag))
<1>1. vol.fpg \in Nat /\ vol.fsize \in Nat
  BY VolumeAssumption DEF IsVolume
<1> QED BY <1>1, ChainIs DEF Address, ExactAddress

(* partition.get at a saturating address finds n bytes exactly when the    *)
(* partition holds them at the exact one.                                  *)
LEMMA HoldsExactly ==
    ASSUME IsVolume(vol), NEW c \in Nat, NEW frag \in Nat, NEW n \in Nat \ {0}
    PROVE  Holds(Address(c, frag), n) <=> ExactAddress(c, frag) + n <= vol.part_len
<1>0. vol.part_len \in 0..U64Max /\ U64Max \in Nat
  BY VolumeAssumption DEF IsVolume, SBLOCK_UFS1
<1>1. /\ ExactAddress(c, frag) \in Nat
      /\ Address(c, frag) = Clamped(ExactAddress(c, frag))
  BY AddressIs
<1> QED BY <1>0, <1>1 DEF Holds, Clamped

(* The last group starts past the end in saturating arithmetic exactly     *)
(* when it does in unbounded arithmetic, and the limit reported is then    *)
(* not above the number of groups.                                         *)
LEMMA LastBaseIs ==
    ASSUME NEW n \in Nat, NEW m \in Nat, NEW len \in 1..U64Max
    PROVE  /\ SatMul(n, Clamped(m)) >= len <=> n * m >= len
           /\ n * m >= len => len \div Clamped(m) \in 0..n
<1>0. U64Max \in Nat /\ Clamped(m) \in Nat /\ n * m \in Nat
  BY VolumeAssumption, SatChain
<1>1. SatMul(n, Clamped(m)) = Clamped(n * m)
  BY SatChain
<1>2. SatMul(n, Clamped(m)) >= len <=> n * m >= len
  BY <1>0, <1>1 DEF Clamped
<1>3. ASSUME n * m >= len, NEW b \in Nat, b = Clamped(m) PROVE len \div b \in 0..n
  <2>1. n * b >= len /\ n * b \in Nat
    <3>1. SatMul(n, b) = Clamped(n * b) /\ n * b \in Nat
      BY <1>3, SatChain
    <3> QED BY <1>0, <1>1, <1>2, <1>3, <3>1 DEF Clamped
  <2>2. b > 0
    BY <2>1
  <2>3. len \div b \in Nat /\ len % b \in 0..(b - 1) /\ len = (len \div b) * b + (len % b)
    <3>1. len \in Nat /\ b \in Nat \ {0}
      BY <1>0, <2>2
    <3> QED BY <3>1, NumberOf
  <2>4. ASSUME NEW d \in Nat, d * b <= n * b PROVE d <= n
    BY <2>2, <2>4
  <2>5. (len \div b) * b <= n * b
    BY <2>1, <2>3
  <2> QED BY <2>3, <2>4, <2>5
<1> QED BY <1>0, <1>2, <1>3

LEMMA PastEndExactly ==
    ASSUME IsVolume(vol), Measurable
    PROVE  /\ PastEnd <=> ExactAddress(vol.ncg - 1, 0) >= vol.part_len
           /\ PastEnd => vol.part_len \div cg_bytes + 1 <= vol.ncg
<1>1. /\ vol.part_len \in 1..U64Max /\ U64Max \in Nat
      /\ vol.fpg \in Nat /\ vol.fsize \in Nat /\ vol.ncg - 1 \in Nat /\ vol.ncg \in Nat
  BY VolumeAssumption DEF IsVolume, SBLOCK_UFS1, Measurable
<1>2. cg_bytes = Clamped(vol.fpg * vol.fsize) /\ vol.fpg * vol.fsize \in Nat
  BY <1>1, SatChain DEF cg_bytes
<1>3. ExactAddress(vol.ncg - 1, 0) = (vol.ncg - 1) * (vol.fpg * vol.fsize)
  <2>1. ASSUME NEW n \in Nat, NEW p \in Nat, NEW f \in Nat PROVE (n * p + 0) * f = n * (p * f)
    OBVIOUS
  <2> QED BY <1>1, <2>1 DEF ExactAddress
<1>4. /\ PastEnd <=> (vol.ncg - 1) * (vol.fpg * vol.fsize) >= vol.part_len
      /\ PastEnd => vol.part_len \div cg_bytes \in 0..(vol.ncg - 1)
  BY <1>1, <1>2, LastBaseIs DEF PastEnd, last_base
<1> QED BY <1>1, <1>3, <1>4

-----------------------------------------------------------------------------

(* The volume under audit is never written.                                *)
LEMMA VolumeIsFixed == [Next]_vars => vol' = vol
  BY DEF Next, Audit, GeometryImpossible, GeometryPlausible, CompareBackup, SkipBackup,
         CheckHeader, AllGroupsChecked, Terminating, vars

LEMMA TypeStep == TypeOK /\ AuditProgress /\ [Next]_vars => TypeOK'
<1> SUFFICES ASSUME TypeOK, AuditProgress, [Next]_vars PROVE TypeOK'
  OBVIOUS
<1>1. vol' = vol /\ vol.ncg \in Nat /\ IsVolume(vol)' /\ cg \in 0..vol.ncg
  BY VolumeIsFixed, VolumeAssumption DEF TypeOK, IsVolume
<1>2. CASE GeometryImpossible \/ GeometryPlausible \/ CompareBackup \/ SkipBackup
           \/ AllGroupsChecked \/ Terminating \/ UNCHANGED vars
  BY <1>1, <1>2 DEF TypeOK, GeometryImpossible, GeometryPlausible, CompareBackup, SkipBackup,
                    AllGroupsChecked, Terminating, vars
<1>3. CASE CheckHeader
  BY <1>1, <1>3 DEF TypeOK, AuditProgress, CheckHeader
<1> QED BY <1>2, <1>3 DEF Next, Audit

LEMMA ProgressStep == TypeOK /\ AuditProgress /\ [Next]_vars => AuditProgress'
<1> SUFFICES ASSUME TypeOK, AuditProgress, [Next]_vars PROVE AuditProgress'
  OBVIOUS
<1>1. /\ vol' = vol /\ vol.ncg \in Nat /\ cg \in 0..vol.ncg
      /\ Measurable' = Measurable /\ PastEnd' = PastEnd /\ cg_bytes' = cg_bytes
  BY VolumeIsFixed, VolumeAssumption
     DEF TypeOK, IsVolume, Measurable, PastEnd, last_base, cg_bytes
<1> HIDE DEF PastEnd, cg_bytes
<1>2. CASE GeometryImpossible
  <2>1. out' = <<[kind |-> "ImpossibleGeometry", value |-> vol.ncg,
                  limit |-> vol.part_len \div cg_bytes + 1]>>
    BY <1>2 DEF GeometryImpossible, AuditProgress
  <2> QED BY <1>1, <1>2, <2>1 DEF GeometryImpossible, AuditProgress
<1>3. CASE GeometryPlausible
  BY <1>1, <1>3 DEF GeometryPlausible, AuditProgress, Measurable
<1>4. CASE CompareBackup \/ SkipBackup
  BY <1>1, <1>4 DEF CompareBackup, SkipBackup, AuditProgress
<1>5. CASE CheckHeader
  BY <1>1, <1>5 DEF CheckHeader, AuditProgress
<1>6. CASE AllGroupsChecked
  BY <1>1, <1>6 DEF AllGroupsChecked, AuditProgress
<1>7. CASE UNCHANGED vars
  BY <1>1, <1>7 DEF AuditProgress, vars
<1> QED BY <1>2, <1>3, <1>4, <1>5, <1>6, <1>7 DEF Next, Audit, Terminating

(* The verdicts on one group are the exact ones.                           *)
LEMMA HeaderBadExactly ==
    ASSUME IsVolume(vol), NEW c \in Nat
    PROVE  BadHeaderOf(c) = IF HeaderBad(c) THEN {Anomaly("CgMagicInvalid", c, "cg_magic")} ELSE {}
<1>1. vol.cblkno \in Nat /\ CG_HEAD_LEN \in Nat \ {0}
  BY VolumeAssumption DEF IsVolume
<1>2. Holds(Address(c, vol.cblkno), CG_HEAD_LEN)
        <=> ExactAddress(c, vol.cblkno) + CG_HEAD_LEN <= vol.part_len
  BY <1>1, HoldsExactly
<1> QED BY <1>2 DEF HeaderBad, BadHeaderOf

LEMMA DivergenceFacts ==
    ASSUME NEW c \in Nat, NEW f \in Compared
    PROVE  /\ Divergence(c, f) \in Seq({Anomaly("BackupSuperblockDivergence", c, f)})
           /\ ToSet(Divergence(c, f)) =
                IF f \in vol.backup[c].differs
                THEN {Anomaly("BackupSuperblockDivergence", c, f)} ELSE {}
           /\ IsInjective(Divergence(c, f))
<1> DEFINE a == Anomaly("BackupSuperblockDivergence", c, f)
<1>1. << >> \in Seq({a}) /\ ToSet(<< >>) = {} /\ IsInjective(<< >>)
  BY DEF ToSet, IsInjective
<1>2. <<a>> \in Seq({a}) /\ ToSet(<<a>>) = {a} /\ IsInjective(<<a>>)
  <2> HIDE DEF a
  <2> QED BY DEF ToSet, IsInjective
<1> QED BY <1>1, <1>2 DEF Divergence

(* check_backup_sb pushes the diverging fields of a readable backup, each  *)
(* once.                                                                   *)
LEMMA DivergencesExactly ==
    ASSUME IsVolume(vol), NEW c \in Nat
    PROVE  /\ BackupReadable(c) => /\ Divergences(c) \in Seq(DivergencesOf(c))
                                   /\ ToSet(Divergences(c)) = DivergencesOf(c)
                                   /\ IsInjective(Divergences(c))
           /\ ~BackupReadable(c) => DivergencesOf(c) = {}
<1>1. vol.sblkno \in Nat /\ SB_MIN_LEN \in Nat \ {0}
  BY VolumeAssumption DEF IsVolume
<1>2. Holds(Address(c, vol.sblkno), SB_MIN_LEN)
        <=> ExactAddress(c, vol.sblkno) + SB_MIN_LEN <= vol.part_len
  BY <1>1, HoldsExactly
<1>3. ASSUME ~BackupReadable(c) PROVE DivergencesOf(c) = {}
  BY <1>2, <1>3 DEF BackupReadable, DivergencesOf
<1>4. ASSUME BackupReadable(c)
      PROVE  /\ Divergences(c) \in Seq(DivergencesOf(c))
             /\ ToSet(Divergences(c)) = DivergencesOf(c)
             /\ IsInjective(Divergences(c))
  <2> DEFINE An(f) == Anomaly("BackupSuperblockDivergence", c, f)
             D == DivergencesOf(c)
             B == { An(f) : f \in Compared }
             H(f) == IF f \in vol.backup[c].differs THEN {An(f)} ELSE {}
             p == Divergence(c, "fs_ipg")
             q == Divergence(c, "fs_fpg")
             r == Divergence(c, "fs_bsize")
             s == Divergence(c, "fs_ncg")
  <2>1. D = H("fs_ipg") \cup H("fs_fpg") \cup H("fs_bsize") \cup H("fs_ncg")
    <3>1. D = { a \in B : a.field \in vol.backup[c].differs }
      BY <1>2, <1>4 DEF BackupReadable, DivergencesOf
    <3> QED BY <3>1 DEF Compared, Anomaly
  <2>2. \A f, g \in Compared : f # g => H(f) \cap H(g) = {}
    BY DEF Anomaly
  <2>3. ASSUME NEW f \in Compared, H(f) \subseteq D
        PROVE  /\ Divergence(c, f) \in Seq(D) /\ ToSet(Divergence(c, f)) = H(f)
               /\ IsInjective(Divergence(c, f))
    <3>1. ToSet(Divergence(c, f)) = H(f) /\ IsInjective(Divergence(c, f))
      BY DivergenceFacts
    <3>2. CASE f \in vol.backup[c].differs
      <4>1. An(f) \in D
        BY <2>3, <3>2
      <4> HIDE DEF D
      <4> QED BY <3>1, <3>2, <4>1 DEF Divergence
    <3>3. CASE f \notin vol.backup[c].differs
      BY <3>1, <3>3 DEF Divergence
    <3> QED BY <3>2, <3>3
  <2>4. /\ "fs_ipg" \in Compared /\ "fs_fpg" \in Compared
        /\ "fs_bsize" \in Compared /\ "fs_ncg" \in Compared
    BY DEF Compared
  <2>5. /\ p \in Seq(D) /\ q \in Seq(D) /\ r \in Seq(D) /\ s \in Seq(D)
        /\ ToSet(p) = H("fs_ipg") /\ ToSet(q) = H("fs_fpg")
        /\ ToSet(r) = H("fs_bsize") /\ ToSet(s) = H("fs_ncg")
        /\ IsInjective(p) /\ IsInjective(q) /\ IsInjective(r) /\ IsInjective(s)
    BY <2>1, <2>3, <2>4
  <2>6. Divergences(c) = ((p \o q) \o r) \o s
    BY DEF Divergences
  <2> HIDE DEF D, H, p, q, r, s
  <2>7. p \o q \in Seq(D) /\ ToSet(p \o q) = ToSet(p) \cup ToSet(q) /\ IsInjective(p \o q)
    <3>1. ToSet(p) \cap ToSet(q) = {}
      BY <2>2, <2>4, <2>5
    <3> QED BY <2>5, <3>1, ConcatFacts
  <2>8. /\ (p \o q) \o r \in Seq(D)
        /\ ToSet((p \o q) \o r) = (ToSet(p) \cup ToSet(q)) \cup ToSet(r)
        /\ IsInjective((p \o q) \o r)
    <3>1. ToSet(p) \cap ToSet(r) = {} /\ ToSet(q) \cap ToSet(r) = {}
      BY <2>2, <2>4, <2>5
    <3>2. ToSet(p \o q) \cap ToSet(r) = {}
      BY <2>7, <3>1
    <3> HIDE DEF p, q
    <3> DEFINE pq == p \o q
    <3>3. pq \in Seq(D) /\ IsInjective(pq) /\ ToSet(pq) \cap ToSet(r) = {}
      BY <2>7, <3>2
    <3> HIDE DEF pq
    <3>4. pq \o r \in Seq(D) /\ ToSet(pq \o r) = ToSet(pq) \cup ToSet(r) /\ IsInjective(pq \o r)
      BY <2>5, <3>3, ConcatFacts
    <3> QED BY <2>7, <3>4 DEF pq
  <2>9. /\ ((p \o q) \o r) \o s \in Seq(D)
        /\ ToSet(((p \o q) \o r) \o s) = ((ToSet(p) \cup ToSet(q)) \cup ToSet(r)) \cup ToSet(s)
        /\ IsInjective(((p \o q) \o r) \o s)
    <3>1. /\ ToSet(p) \cap ToSet(s) = {} /\ ToSet(q) \cap ToSet(s) = {}
          /\ ToSet(r) \cap ToSet(s) = {}
      BY <2>2, <2>4, <2>5
    <3> DEFINE pqr == (p \o q) \o r
    <3>2. pqr \in Seq(D) /\ IsInjective(pqr)
          /\ ToSet(pqr) = (ToSet(p) \cup ToSet(q)) \cup ToSet(r)
      BY <2>8
    <3> HIDE DEF pqr
    <3>3. ToSet(pqr) \cap ToSet(s) = {}
      BY <3>1, <3>2
    <3>4. pqr \o s \in Seq(D) /\ ToSet(pqr \o s) = ToSet(pqr) \cup ToSet(s) /\ IsInjective(pqr \o s)
      BY <2>5, <3>2, <3>3, ConcatFacts
    <3> QED BY <3>2, <3>4 DEF pqr
  <2> QED BY <2>1, <2>5, <2>6, <2>9 DEF D
<1> QED BY <1>3, <1>4

(* A finding belongs to one group, and is of one of two kinds.             *)
LEMMA FindingOf ==
    ASSUME NEW c, NEW a \in DivergencesOf(c) \cup BadHeaderOf(c)
    PROVE  /\ a.cg = c
           /\ a.kind \in {"BackupSuperblockDivergence", "CgMagicInvalid"}
           /\ a.kind = "CgMagicInvalid" <=> a \in BadHeaderOf(c)
           /\ a.kind = "CgMagicInvalid" => a = Anomaly("CgMagicInvalid", c, "cg_magic")
  BY DEF DivergencesOf, BadHeaderOf, Anomaly

(* Findings of a group appended to those of groups not after it leave the  *)
(* report without repetitions and in the order of the groups.              *)
LEMMA ReportGrows ==
    ASSUME NEW S, NEW q \in Seq(S), NEW r \in Seq(S), NEW c \in Int,
           IsInjective(q), IsInjective(r), ToSet(q) \cap ToSet(r) = {},
           \A x \in ToSet(q) : x.cg \in Int /\ x.cg <= c,
           \A x \in ToSet(r) : x.cg = c,
           \A j, k \in DOMAIN q : j < k => q[j].cg <= q[k].cg
    PROVE  /\ q \o r \in Seq(S) /\ IsInjective(q \o r)
           /\ ToSet(q \o r) = ToSet(q) \cup ToSet(r)
           /\ \A j, k \in DOMAIN (q \o r) : j < k => (q \o r)[j].cg <= (q \o r)[k].cg
<1>1. q \o r \in Seq(S) /\ IsInjective(q \o r) /\ ToSet(q \o r) = ToSet(q) \cup ToSet(r)
  BY ConcatFacts
<1> DEFINE p == q \o r
<1>2. /\ Len(q) \in Nat /\ Len(r) \in Nat
      /\ DOMAIN q = 1..Len(q) /\ DOMAIN r = 1..Len(r) /\ DOMAIN p = 1..(Len(q) + Len(r))
      /\ \A i \in 1..Len(q) : p[i] = q[i]
      /\ \A i \in (Len(q) + 1)..(Len(q) + Len(r)) : p[i] = r[i - Len(q)]
  OBVIOUS
<1> HIDE DEF p
<1>3. ASSUME NEW j \in DOMAIN p, NEW k \in DOMAIN p, j < k PROVE p[j].cg <= p[k].cg
  <2>1. CASE k <= Len(q)
    BY <1>2, <1>3, <2>1
  <2>2. CASE k > Len(q)
    <3>1. k - Len(q) \in DOMAIN r /\ p[k] = r[k - Len(q)]
      BY <1>2, <2>2
    <3>2. p[k].cg = c
      BY <3>1 DEF ToSet
    <3>3. CASE j <= Len(q)
      <4>1. j \in DOMAIN q /\ p[j] = q[j]
        BY <1>2, <3>3
      <4>2. p[j] \in ToSet(q)
        BY <4>1 DEF ToSet
      <4> QED BY <3>2, <4>2
    <3>4. CASE j > Len(q)
      <4>1. j - Len(q) \in DOMAIN r /\ p[j] = r[j - Len(q)]
        BY <1>2, <3>4
      <4>2. p[j].cg = c
        BY <4>1 DEF ToSet
      <4> QED BY <3>2, <4>2
    <3> QED BY <1>2, <3>3, <3>4
  <2> QED BY <1>2, <2>1, <2>2
<1> QED BY <1>1, <1>3 DEF p

LEMMA ReportedStep ==
    TypeOK /\ AuditProgress /\ ReportedSoFar /\ [Next]_vars => ReportedSoFar'
<1> SUFFICES ASSUME TypeOK, AuditProgress, ReportedSoFar, [Next]_vars, Measurable', ~PastEnd'
             PROVE  /\ out' \in Seq(Expected') /\ IsInjective(out')
                    /\ ToSet(out') = ExpectedSoFar'
                    /\ \A j, k \in DOMAIN out' : j < k => out'[j].cg <= out'[k].cg
  BY DEF ReportedSoFar
<1> DEFINE Of(c) == DivergencesOf(c) \cup BadHeaderOf(c)
           Before(n) == UNION { Of(c) : c \in 0..(n - 1) }
<1>1. /\ vol' = vol /\ vol.ncg \in Nat /\ cg \in 0..vol.ncg /\ cg \in Nat /\ IsVolume(vol)
      /\ Measurable /\ ~PastEnd
  BY VolumeIsFixed, VolumeAssumption
     DEF TypeOK, IsVolume, Measurable, PastEnd, last_base, cg_bytes
<1>2. \A c : DivergencesOf(c)' = DivergencesOf(c) /\ BadHeaderOf(c)' = BadHeaderOf(c)
  BY <1>1 DEF DivergencesOf, BadHeaderOf, ExactAddress, Anomaly
<1>3. Expected' = Expected
  BY <1>1, <1>2 DEF Expected
<1>4. /\ out \in Seq(Expected) /\ IsInjective(out) /\ ToSet(out) = ExpectedSoFar
      /\ \A j, k \in DOMAIN out : j < k => out[j].cg <= out[k].cg
  BY <1>1 DEF ReportedSoFar
<1>5. /\ ExpectedSoFar = Before(cg) \cup (IF pc = "header" THEN DivergencesOf(cg) ELSE {})
      /\ ExpectedSoFar' = Before(cg') \cup (IF pc' = "header" THEN DivergencesOf(cg') ELSE {})
  BY <1>2 DEF ExpectedSoFar
<1>6. ASSUME NEW x \in Before(cg) PROVE x.cg \in Int /\ x.cg < cg
  BY <1>1, FindingOf
<1>7. ASSUME cg < vol.ncg PROVE Of(cg) \subseteq Expected
  BY <1>1, <1>7 DEF Expected
<1> HIDE DEF Before, Of
<1>8. CASE UNCHANGED out /\ ExpectedSoFar' = ExpectedSoFar
  BY <1>3, <1>4, <1>8
<1>9. CASE GeometryImpossible
  BY <1>1, <1>9 DEF GeometryImpossible
<1>10. CASE GeometryPlausible \/ AllGroupsChecked \/ UNCHANGED vars
  BY <1>5, <1>8, <1>10 DEF GeometryPlausible, AllGroupsChecked, vars
<1>11. CASE SkipBackup
  <2>1. pc = "backup" /\ pc' = "header" /\ cg' = cg /\ out' = out /\ DivergencesOf(cg) = {}
    BY <1>1, <1>11, DivergencesExactly DEF SkipBackup
  <2> QED BY <1>5, <1>8, <2>1
<1>12. CASE CompareBackup
  <2>1. /\ pc = "backup" /\ pc' = "header" /\ cg' = cg /\ cg < vol.ncg
        /\ out' = out \o Divergences(cg) /\ BackupReadable(cg)
    BY <1>12 DEF CompareBackup
  <2> DEFINE r == Divergences(cg)
  <2>2. r \in Seq(DivergencesOf(cg)) /\ ToSet(r) = DivergencesOf(cg) /\ IsInjective(r)
    BY <1>1, <2>1, DivergencesExactly
  <2> HIDE DEF r
  <2>3. r \in Seq(Expected)
    <3>1. DivergencesOf(cg) \subseteq Expected
      BY <1>7, <2>1 DEF Of
    <3> QED BY <2>2, <3>1
  <2>4. ToSet(out) = Before(cg) /\ (\A x \in ToSet(out) : x.cg \in Int /\ x.cg < cg)
    BY <1>4, <1>5, <1>6, <2>1
  <2>5. \A x \in ToSet(r) : x.cg = cg
    BY <2>2, FindingOf
  <2>6. ToSet(out) \cap ToSet(r) = {}
    BY <1>1, <2>4, <2>5
  <2>7. /\ out \o r \in Seq(Expected) /\ IsInjective(out \o r)
        /\ ToSet(out \o r) = ToSet(out) \cup ToSet(r)
        /\ \A j, k \in DOMAIN (out \o r) : j < k => (out \o r)[j].cg <= (out \o r)[k].cg
    <3>1. \A x \in ToSet(out) : x.cg \in Int /\ x.cg <= cg
      BY <1>1, <2>4
    <3>2. cg \in Int
      BY <1>1
    <3> QED BY <1>4, <2>2, <2>3, <2>5, <2>6, <3>1, <3>2, ReportGrows
  <2>8. ExpectedSoFar' = Before(cg) \cup DivergencesOf(cg)
    BY <1>5, <2>1
  <2> QED BY <1>3, <2>1, <2>2, <2>4, <2>7, <2>8 DEF r
<1>13. CASE CheckHeader
  <2>1. pc = "header" /\ pc' = "backup" /\ cg' = cg + 1 /\ cg < vol.ncg
    BY <1>13 DEF CheckHeader, AuditProgress
  <2> DEFINE a == Anomaly("CgMagicInvalid", cg, "cg_magic")
             r == IF HeaderBad(cg) THEN <<a>> ELSE << >>
  <2>2. out' = out \o r
    BY <1>4, <1>13 DEF CheckHeader
  <2>3. r \in Seq(BadHeaderOf(cg)) /\ ToSet(r) = BadHeaderOf(cg) /\ IsInjective(r)
    <3>1. CASE HeaderBad(cg)
      <4>1. BadHeaderOf(cg) = {a} /\ r = <<a>>
        BY <1>1, <3>1, HeaderBadExactly
      <4> HIDE DEF a, r
      <4> QED BY <4>1 DEF ToSet, IsInjective
    <3>2. CASE ~HeaderBad(cg)
      <4>1. BadHeaderOf(cg) = {} /\ r = << >>
        BY <1>1, <3>2, HeaderBadExactly
      <4> HIDE DEF r
      <4> QED BY <4>1 DEF ToSet, IsInjective
    <3> QED BY <3>1, <3>2
  <2> HIDE DEF r
  <2>4. r \in Seq(Expected)
    <3>1. BadHeaderOf(cg) \subseteq Expected
      BY <1>7, <2>1 DEF Of
    <3> QED BY <2>3, <3>1
  <2>5. /\ ToSet(out) = Before(cg) \cup DivergencesOf(cg)
        /\ \A x \in ToSet(out) : x.cg \in Int /\ x.cg <= cg
    <3>1. ToSet(out) = Before(cg) \cup DivergencesOf(cg)
      BY <1>4, <1>5, <2>1
    <3>2. \A x \in DivergencesOf(cg) : x.cg = cg
      BY FindingOf
    <3> QED BY <1>1, <1>6, <3>1, <3>2
  <2>6. \A x \in ToSet(r) : x.cg = cg
    BY <2>3, FindingOf
  <2>7. ToSet(out) \cap ToSet(r) = {}
    <3>1. ASSUME NEW x \in ToSet(r) PROVE x \notin Before(cg)
      BY <1>1, <1>6, <2>6
    <3>2. ASSUME NEW x \in ToSet(r) PROVE x \notin DivergencesOf(cg)
      BY <2>3 DEF BadHeaderOf, DivergencesOf, Anomaly
    <3> QED BY <2>5, <3>1, <3>2
  <2>8. /\ out \o r \in Seq(Expected) /\ IsInjective(out \o r)
        /\ ToSet(out \o r) = ToSet(out) \cup ToSet(r)
        /\ \A j, k \in DOMAIN (out \o r) : j < k => (out \o r)[j].cg <= (out \o r)[k].cg
    <3>1. cg \in Int
      BY <1>1
    <3> QED BY <1>4, <2>3, <2>4, <2>5, <2>6, <2>7, <3>1, ReportGrows
  <2>9. ExpectedSoFar' = Before(cg) \cup Of(cg)
    <3>1. 0..((cg + 1) - 1) = 0..(cg - 1) \cup {cg}
      BY <1>1
    <3> QED BY <1>5, <2>1, <3>1 DEF Before
  <2> QED BY <1>3, <2>2, <2>3, <2>5, <2>8, <2>9 DEF Of
<1> QED BY <1>9, <1>10, <1>11, <1>12, <1>13 DEF Next, Audit, Terminating

LEMMA AuditInit == Init => AuditInv
<1> SUFFICES ASSUME Init PROVE AuditInv
  OBVIOUS
<1>1. /\ IsVolume(vol) /\ vol.ncg \in Nat /\ cg = 0 /\ pc = "geometry" /\ out = << >>
  BY VolumeAssumption DEF Init, IsVolume
<1>2. TypeOK
  BY <1>1 DEF TypeOK
<1>3. AuditProgress
  BY <1>1 DEF AuditProgress
<1>4. ExpectedSoFar = {} /\ ToSet(out) = {}
  BY <1>1 DEF ExpectedSoFar, ToSet
<1>5. out \in Seq(Expected) /\ IsInjective(out) /\ DOMAIN out = {}
  BY <1>1 DEF IsInjective
<1>6. ReportedSoFar
  BY <1>4, <1>5 DEF ReportedSoFar
<1> QED BY <1>2, <1>3, <1>6 DEF AuditInv

LEMMA AuditStep == AuditInv /\ [Next]_vars => AuditInv'
  BY TypeStep, ProgressStep, ReportedStep DEF AuditInv

(* Every reachable state of the geometry audit satisfies AuditInv.         *)
THEOREM AuditInvariant == Spec => []AuditInv
  BY AuditInit, AuditStep, PTL DEF Spec

(* A finding of the per-group checks is no verdict on the geometry.        *)
LEMMA NoVerdictAmongFindings ==
    ASSUME AuditInv, Measurable, ~PastEnd
    PROVE  \A a \in ToSet(out) : a.kind # "ImpossibleGeometry"
<1>1. ToSet(out) = ExpectedSoFar
  BY DEF AuditInv, ReportedSoFar
<1>2. ASSUME NEW a \in ExpectedSoFar
      PROVE  \E c : a \in DivergencesOf(c) \cup BadHeaderOf(c)
  BY DEF ExpectedSoFar
<1> QED BY <1>1, <1>2, FindingOf

LEMMA GeometryFromInv == AuditInv => GeometryVerdictExact
<1> SUFFICES ASSUME AuditInv, pc = "end"
             PROVE  /\ (\E k \in DOMAIN out : IsGeometryVerdict(out[k]))
                          <=> Measurable /\ ExactAddress(vol.ncg - 1, 0) >= vol.part_len
                    /\ \A k \in DOMAIN out :
                          IsGeometryVerdict(out[k]) => out[k].limit <= out[k].value
  BY DEF GeometryVerdictExact
<1>0. IsVolume(vol) /\ AuditProgress
  BY DEF AuditInv, TypeOK
<1>1. CASE ~Measurable
  BY <1>0, <1>1 DEF AuditProgress
<1>2. CASE Measurable /\ ~PastEnd
  <2>1. \A k \in DOMAIN out : ~IsGeometryVerdict(out[k])
    BY <1>2, NoVerdictAmongFindings DEF ToSet, IsGeometryVerdict
  <2> QED BY <1>0, <1>2, <2>1, PastEndExactly
<1>3. CASE Measurable /\ PastEnd
  <2> DEFINE v == [kind |-> "ImpossibleGeometry", value |-> vol.ncg,
                   limit |-> vol.part_len \div cg_bytes + 1]
  <2>1. out = <<v>>
    BY <1>0, <1>3 DEF AuditProgress
  <2>2. IsGeometryVerdict(v) /\ v.limit <= v.value
    BY <1>0, <1>3, PastEndExactly DEF IsGeometryVerdict
  <2> HIDE DEF v
  <2>3. DOMAIN out = {1} /\ out[1] = v
    BY <2>1
  <2> QED BY <1>0, <1>3, <2>2, <2>3, PastEndExactly
<1> QED BY <1>1, <1>2, <1>3

LEMMA FindingsFromInv == AuditInv => GroupFindingsExact
<1> SUFFICES ASSUME AuditInv, pc = "end", Measurable,
                    ExactAddress(vol.ncg - 1, 0) < vol.part_len
             PROVE  /\ ToSet(out) = Expected
                    /\ Len(out) = Cardinality(Expected)
                    /\ \A j, k \in DOMAIN out : j < k => out[j].cg <= out[k].cg
  BY DEF GroupFindingsExact
<1>1. IsVolume(vol) /\ vol.ncg \in Nat /\ vol.part_len \in Nat
  BY VolumeAssumption DEF AuditInv, TypeOK, IsVolume, SBLOCK_UFS1
<1>2. ~PastEnd
  <2>1. ExactAddress(vol.ncg - 1, 0) \in Nat
    <3>1. vol.ncg - 1 \in Nat
      BY <1>1 DEF Measurable
    <3> QED BY <1>1, <3>1, AddressIs
  <2> QED BY <1>1, <2>1, PastEndExactly
<1>3. cg = vol.ncg /\ ExpectedSoFar = Expected
  <2>1. cg = vol.ncg
    BY <1>2 DEF AuditInv, AuditProgress
  <2> QED BY <2>1 DEF ExpectedSoFar, Expected
<1>4. /\ out \in Seq(Expected) /\ IsInjective(out) /\ ToSet(out) = Expected
      /\ \A j, k \in DOMAIN out : j < k => out[j].cg <= out[k].cg
  BY <1>2, <1>3 DEF AuditInv, ReportedSoFar
<1>5. Len(out) = Cardinality(ToSet(out))
  BY <1>4, DistinctCounts
<1> QED BY <1>4, <1>5

-----------------------------------------------------------------------------

(* A step of the sweep is a step of the audit or leaves the audit alone.   *)
LEMMA SweepIsAudit == [SweepNext]_allVars => [Next]_vars
  BY DEF SweepNext, Sweep, AuditOn, AuditGivesUp, StartSweep, SkipGroup, EnterGroup,
         Judge, LeaveGroup, EndSweep, Next, allVars

(* What is read of the volume stays as it is.                              *)
LEMMA ReadsAreFixed ==
    ASSUME vol' = vol
    PROVE  /\ \A c : HasBitmap(c)' <=> HasBitmap(c)
           /\ Judgement' = Judgement
<1>1. \A c : HasBitmap(c)' <=> HasBitmap(c)
  BY DEF HasBitmap, HeaderParses, Holds, Address, bitmap_bytes
<1>2. \A i : read_inode(i)' = read_inode(i) /\ ByteOffset(i)' = ByteOffset(i)
  BY DEF read_inode, ByteOffset, Address
<1>3. \A c, w : bitmap_bit(c, w)' <=> bitmap_bit(c, w)
  BY DEF bitmap_bit, bitmap_bytes
<1>4. Judgement' = Judgement
  BY <1>2, <1>3 DEF Judgement
<1> QED BY <1>1, <1>4

(* What the assumptions say of the volume.                                 *)
LEMMA VolumeFacts ==
    ASSUME vol \in Volumes
    PROVE  /\ IsVolume(vol) /\ HasInodes(vol)
           /\ vol.ncg \in Nat /\ vol.ipg \in Int /\ vol.ipg * vol.ncg <= U64Max
           /\ vol.part_len \in 0..U64Max /\ U64Max \in Nat /\ RootIno \in Nat
           /\ vol.iblkno \in Int /\ vol.inode_size \in Nat \ {0}
           /\ vol.fpg \in Nat /\ vol.fsize \in Nat
<1>1. IsVolume(vol) /\ HasInodes(vol)
  BY VolumeAssumption, InodeAssumption
<1>2. /\ vol.ncg \in Nat /\ vol.part_len \in 0..U64Max /\ U64Max \in Nat
      /\ vol.fpg \in Nat /\ vol.fsize \in Nat
  BY <1>1, VolumeAssumption DEF IsVolume, SBLOCK_UFS1
<1>3. /\ vol.ipg \in Int /\ vol.ipg * vol.ncg <= U64Max /\ vol.iblkno \in Int
      /\ vol.inode_size \in Nat \ {0}
  BY <1>1 DEF HasInodes
<1> QED BY <1>1, <1>2, <1>3, InodeAssumption

(* The number of the inode under the sweep does not saturate, and is that  *)
(* of its group and position.                                              *)
LEMMA NumberIsExact ==
    ASSUME vol \in Volumes, NEW c \in 0..(vol.ncg - 1), NEW w \in 0..(vol.ipg - 1)
    PROVE  /\ SatAdd(SatMul(c, vol.ipg), w) = c * vol.ipg + w
           /\ SatMul(vol.ipg, vol.ncg) = vol.ipg * vol.ncg
           /\ c * vol.ipg + w \in Nat /\ c * vol.ipg + w < vol.ipg * vol.ncg
           /\ (c * vol.ipg + w) \div vol.ipg = c
           /\ (c * vol.ipg + w) % vol.ipg = w
<1>1. /\ vol.ipg \in Nat \ {0} /\ vol.ncg \in Nat /\ c \in Nat /\ w \in Nat
      /\ vol.ipg * vol.ncg <= U64Max /\ U64Max \in Nat /\ w < vol.ipg /\ c + 1 <= vol.ncg
  BY VolumeFacts
<1>2. ASSUME NEW p \in Nat \ {0}, NEW n \in Nat, w < p, c + 1 <= n
      PROVE  c * p + w < p * n /\ c * p <= c * p + w /\ c * p \in Nat /\ p * n \in Nat
    <2>1. (c + 1) * p <= n * p
      BY <1>1, <1>2
    <2> QED BY <1>1, <1>2, <2>1
<1>3. /\ c * vol.ipg + w < vol.ipg * vol.ncg /\ c * vol.ipg <= c * vol.ipg + w
      /\ c * vol.ipg \in Nat /\ vol.ipg * vol.ncg \in Nat
  BY <1>1, <1>2
<1>4. SatMul(c, vol.ipg) = Clamped(c * vol.ipg) /\ SatMul(vol.ipg, vol.ncg) = Clamped(vol.ipg * vol.ncg)
  BY <1>1, SatChain
<1>5. SatMul(c, vol.ipg) = c * vol.ipg /\ SatMul(vol.ipg, vol.ncg) = vol.ipg * vol.ncg
  BY <1>1, <1>3, <1>4 DEF Clamped
<1>6. SatAdd(c * vol.ipg, w) = c * vol.ipg + w
  <2>1. SatAdd(c * vol.ipg, w) = Clamped(c * vol.ipg + w)
    BY <1>1, <1>3, SatAddIs
  <2> QED BY <1>1, <1>3, <2>1 DEF Clamped
<1> QED BY <1>1, <1>3, <1>5, <1>6, PositionOf

LEMMA SweepTypeStep ==
    SweepInv /\ [SweepNext]_allVars => SweepTypeOK' /\ (vol \in Volumes)'
<1> SUFFICES ASSUME SweepInv, [SweepNext]_allVars PROVE SweepTypeOK' /\ (vol \in Volumes)'
  OBVIOUS
<1>1. TypeOK' /\ vol' = vol /\ vol \in Volumes /\ vol.ncg \in Nat /\ U64Max \in Nat
  BY SweepIsAudit, AuditStep, VolumeIsFixed, VolumeFacts DEF SweepInv, AuditInv
<1>2. SweepTypeOK /\ SweepPosition
  BY DEF SweepInv
<1>3. CASE AuditOn \/ AuditGivesUp \/ StartSweep \/ EndSweep \/ UNCHANGED allVars
  BY <1>1, <1>2, <1>3 DEF SweepTypeOK, AuditOn, AuditGivesUp, StartSweep, EndSweep,
                          allVars, sweepVars
<1>4. CASE SkipGroup \/ EnterGroup \/ LeaveGroup
  BY <1>1, <1>2, <1>4 DEF SweepTypeOK, SweepPosition, SkipGroup, EnterGroup, LeaveGroup
<1>5. CASE Judge
  <2>1. /\ within < vol.ipg /\ vol.ipg \in Nat /\ vol.ncg \in Nat \ {0}
        /\ vol.ipg * vol.ncg <= U64Max /\ within \in Nat
    BY <1>1, <1>2, <1>5, VolumeFacts DEF Judge, SweepPosition, SweepTypeOK
  <2>2. vol.ipg <= vol.ipg * vol.ncg
    BY <2>1
  <2>3. within + 1 \in 0..U64Max
    BY <1>1, <2>1, <2>2
  <2> QED BY <1>1, <1>2, <1>5, <2>3 DEF SweepTypeOK, Judge
<1> QED BY <1>1, <1>3, <1>4, <1>5 DEF SweepNext, Sweep

LEMMA PositionStep == SweepInv /\ [SweepNext]_allVars => SweepPosition'
<1> SUFFICES ASSUME SweepInv, [SweepNext]_allVars PROVE SweepPosition'
  OBVIOUS
<1>1. /\ vol' = vol /\ vol \in Volumes /\ vol.ncg \in Nat /\ vol.ipg \in Int
      /\ SweepTypeOK /\ SweepPosition /\ scg \in Nat /\ scg <= vol.ncg /\ within \in Nat
  BY SweepIsAudit, VolumeIsFixed, VolumeFacts DEF SweepInv, SweepTypeOK
<1>2. \A c : HasBitmap(c)' <=> HasBitmap(c)
  BY <1>1, ReadsAreFixed
<1> DEFINE Has(n) == { c \in 0..(n - 1) : HasBitmap(c) }
<1>3. \A n : Has(n)' = Has(n)
  BY <1>2
<1>4. read = Has(scg) \cup (IF stage = "inode" THEN {scg} ELSE {})
  BY <1>1 DEF SweepPosition
<1>5. (HasBitmap(scg) => Has(scg + 1) = Has(scg) \cup {scg})
      /\ (~HasBitmap(scg) => Has(scg + 1) = Has(scg))
  <2>1. 0..((scg + 1) - 1) = 0..(scg - 1) \cup {scg}
    BY <1>1
  <2> QED BY <2>1
<1>6. SUFFICES /\ stage' = "audit" => scg' = 0
               /\ stage' # "audit" /\ caller' = "audit_image" => pc' = "end"
               /\ stage' \in {"group", "inode"} => vol.ipg > 0
               /\ stage' = "inode" => scg' < vol.ncg /\ HasBitmap(scg') /\ within' <= vol.ipg
               /\ stage' = "end" => scg' = vol.ncg \/ (scg' = 0 /\ (vol.ipg <= 0 \/ GaveUp'))
               /\ read' = Has(scg') \cup (IF stage' = "inode" THEN {scg'} ELSE {})
  BY <1>1, <1>2 DEF SweepPosition
<1> HIDE DEF Has
<1>7. CASE AuditOn
  BY <1>1, <1>4, <1>7 DEF AuditOn, sweepVars, SweepPosition
<1>8. CASE AuditGivesUp
  <2>1. GaveUp'
    BY <1>8 DEF AuditGivesUp, GaveUp, vars
  <2> QED BY <1>1, <1>4, <1>8, <2>1 DEF AuditGivesUp, vars, SweepPosition
<1>9. CASE StartSweep
  BY <1>1, <1>4, <1>9 DEF StartSweep, vars, SweepPosition
<1>10. CASE SkipGroup
  BY <1>1, <1>4, <1>5, <1>10 DEF SkipGroup, vars, SweepPosition
<1>11. CASE EnterGroup
  BY <1>1, <1>4, <1>11 DEF EnterGroup, vars, SweepPosition
<1>12. CASE Judge
  BY <1>1, <1>4, <1>12 DEF Judge, vars, SweepPosition
<1>13. CASE LeaveGroup
  BY <1>1, <1>4, <1>5, <1>13 DEF LeaveGroup, vars, SweepPosition
<1>14. CASE EndSweep
  BY <1>1, <1>4, <1>14 DEF EndSweep, vars, SweepPosition
<1>15. CASE UNCHANGED allVars
  BY <1>1, <1>4, <1>15 DEF allVars, sweepVars, vars, SweepPosition, GaveUp
<1> QED BY <1>7, <1>8, <1>9, <1>10, <1>11, <1>12, <1>13, <1>14, <1>15 DEF SweepNext, Sweep

(* The entry pushed for an inode is the judgement of its position.         *)
LEMMA JudgedRecord ==
    ASSUME vol \in Volumes, NEW c \in 0..(vol.ncg - 1), NEW w \in 0..(vol.ipg - 1), NEW i,
           i = c * vol.ipg + w, i \in Nat, HasBitmap(c)
    PROVE  [ ino |-> i, cg |-> c, within |-> w, used |-> bitmap_bit(c, w),
             inode |-> read_inode(i), at |-> ByteOffset(i) ] \in Judgement
<1>1. vol.fsize > 0 /\ vol.fpg > 0 /\ vol.ipg > 0
  BY DEF HasBitmap
<1>2. read_inode(i) \in Answer
  BY DEF read_inode, Answer
<1>3. bitmap_bit(c, w) \in BOOLEAN
  BY DEF bitmap_bit
<1>4. ByteOffset(i) \in Int
  <2>1. /\ U64Max \in Int /\ vol.fpg \in Int /\ vol.fsize \in Int /\ vol.ipg \in Nat \ {0}
        /\ vol.iblkno \in Int /\ vol.inode_size \in Int
    BY <1>1, VolumeFacts
  <2>2. ASSUME NEW a \in Int, NEW b \in Int PROVE SatMul(a, b) \in Int /\ SatAdd(a, b) \in Int
    BY <2>1 DEF SatMul, SatAdd
  <2>3. i \div vol.ipg \in Int /\ i % vol.ipg \in Int
    BY <2>1
  <2>4. Address(i \div vol.ipg, vol.iblkno) \in Int
    BY <2>1, <2>2, <2>3 DEF Address
  <2> QED BY <2>1, <2>2, <2>3, <2>4 DEF ByteOffset
<1> QED BY <1>1, <1>2, <1>3, <1>4 DEF Judgement

LEMMA JudgedStep == SweepInv /\ [SweepNext]_allVars => JudgedSoFar'
<1> SUFFICES ASSUME SweepInv, [SweepNext]_allVars PROVE JudgedSoFar'
  OBVIOUS
<1>1. /\ vol' = vol /\ vol \in Volumes /\ vol.ncg \in Nat /\ vol.ipg \in Int /\ RootIno \in Nat
      /\ SweepTypeOK /\ SweepPosition /\ scg \in Nat /\ scg <= vol.ncg /\ within \in Nat
  BY SweepIsAudit, VolumeIsFixed, VolumeFacts DEF SweepInv, SweepTypeOK
<1>2. Judgement' = Judgement
  BY <1>1, ReadsAreFixed
<1> DEFINE All == (RootIno + 1)..(vol.ipg * vol.ncg - 1)
           Upto(R, n) == { i \in All : (i \div vol.ipg) \in R /\ i < n }
           Numbers(q) == { s.ino : s \in ToSet(q) }
           Rises(q) == \A j, k \in DOMAIN q : j < k => q[j].ino < q[k].ino
<1>3. All \subseteq Nat
  BY <1>1
<1>4. seen \in Seq(Judgement) /\ Numbers(seen) = Upto(read, Frontier) /\ Rises(seen)
  BY DEF SweepInv, JudgedSoFar
<1>5. SUFFICES seen' \in Seq(Judgement) /\ Numbers(seen') = Upto(read', Frontier') /\ Rises(seen')
  BY <1>1, <1>2 DEF JudgedSoFar
<1>6. CASE seen' = seen /\ Upto(read', Frontier') = Upto(read, Frontier)
  BY <1>4, <1>6
<1>7. read \subseteq Nat /\ (stage # "inode" => \A c \in read : c < scg)
  BY <1>1 DEF SweepPosition
<1> HIDE DEF All, Numbers, Rises
<1>8. CASE AuditOn \/ AuditGivesUp \/ StartSweep \/ EndSweep \/ UNCHANGED allVars
  <2>1. seen' = seen /\ read' = read /\ scg' = scg /\ within' = within
        /\ (stage' = "inode" <=> stage = "inode")
    BY <1>8 DEF AuditOn, AuditGivesUp, StartSweep, EndSweep, allVars, sweepVars
  <2>2. Frontier' = Frontier
    BY <1>1, <2>1 DEF Frontier
  <2> QED BY <1>6, <2>1, <2>2
<1>9. CASE SkipGroup \/ EnterGroup
  <2>1. /\ seen' = seen /\ stage = "group" /\ vol.ipg \in Nat \ {0} /\ scg + 1 \in Nat
        /\ Frontier = scg * vol.ipg
    BY <1>1, <1>9 DEF SkipGroup, EnterGroup, SweepPosition, Frontier
  <2>2. ASSUME NEW i \in All
        PROVE  /\ i \div vol.ipg \in Nat
               /\ i < scg * vol.ipg <=> i \div vol.ipg < scg
               /\ i < (scg + 1) * vol.ipg <=> i \div vol.ipg < scg + 1
    <3>1. i \in Nat
      BY <1>3
    <3> QED BY <1>1, <2>1, <3>1, GroupRange, NumberOf
  <2>3. CASE SkipGroup
    <3>1. read' = read /\ Frontier' = (scg + 1) * vol.ipg
      BY <1>1, <2>1, <2>3 DEF SkipGroup, Frontier
    <3>2. ASSUME NEW i \in All, (i \div vol.ipg) \in read
          PROVE  i < (scg + 1) * vol.ipg /\ i < scg * vol.ipg
      <4>1. i \div vol.ipg < scg
        BY <1>7, <2>1, <3>2
      <4> QED BY <1>1, <2>2, <4>1
    <3>3. Upto(read', Frontier') = Upto(read, Frontier)
      BY <2>1, <3>1, <3>2
    <3> QED BY <1>6, <2>1, <3>3
  <2>4. CASE EnterGroup
    <3>1. read' = read \cup {scg} /\ Frontier' = scg * vol.ipg
      BY <1>1, <2>1, <2>4 DEF EnterGroup, Frontier
    <3>2. ASSUME NEW i \in All, i < scg * vol.ipg PROVE i \div vol.ipg # scg
      BY <1>1, <2>2, <3>2
    <3>3. Upto(read', Frontier') = Upto(read, Frontier)
      BY <2>1, <3>1, <3>2
    <3> QED BY <1>6, <2>1, <3>3
  <2> QED BY <1>9, <2>3, <2>4
<1>10. CASE LeaveGroup
  <2>1. seen' = seen /\ read' = read /\ stage = "inode" /\ stage' = "group"
        /\ scg' = scg + 1 /\ within = vol.ipg
    BY <1>1, <1>10 DEF LeaveGroup, SweepPosition
  <2>2. Frontier' = Frontier
    BY <1>1, <2>1 DEF Frontier
  <2> QED BY <1>6, <2>1, <2>2
<1>11. CASE Judge
  <2>1. /\ stage = "inode" /\ stage' = "inode" /\ read' = read /\ scg' = scg
        /\ within' = within + 1 /\ scg \in 0..(vol.ncg - 1) /\ within \in 0..(vol.ipg - 1)
        /\ HasBitmap(scg) /\ scg \in read
    BY <1>1, <1>11 DEF Judge, SweepPosition
  <2>2. /\ ino = scg * vol.ipg + within /\ ino \in Nat /\ ino < vol.ipg * vol.ncg
        /\ ino \div vol.ipg = scg /\ SatMul(vol.ipg, vol.ncg) = vol.ipg * vol.ncg
    BY <1>1, <2>1, NumberIsExact DEF ino
  <2>3. Frontier = ino /\ Frontier' = ino + 1
    BY <1>1, <2>1, <2>2 DEF Frontier
  <2> HIDE DEF ino
  <2>4. ino \in All <=> ~(ino < RootIno + 1)
    BY <1>1, <2>2 DEF All
  <2>5. Upto(read, ino + 1) = Upto(read, ino) \cup (All \cap {ino})
    <3>1. ASSUME NEW i \in All PROVE i < ino + 1 <=> i < ino \/ i = ino
      <4>1. i \in Nat
        BY <1>3
      <4> QED BY <2>2, <4>1
    <3> QED BY <2>1, <2>2, <3>1
  <2>6. ~(ino >= SatMul(vol.ipg, vol.ncg))
    BY <1>1, <2>2
  <2>7. CASE ino < RootIno + 1
    <3>1. seen' = seen
      BY <1>11, <2>7 DEF Judge
    <3> QED BY <1>6, <2>1, <2>3, <2>4, <2>5, <2>7, <3>1
  <2>8. CASE ~(ino < RootIno + 1)
    <3> DEFINE e == [ ino |-> ino, cg |-> scg, within |-> within, used |-> bitmap_bit(scg, within),
                      inode |-> read_inode(ino), at |-> ByteOffset(ino) ]
    <3>1. seen' = Append(seen, e)
      BY <1>11, <2>6, <2>8 DEF Judge
    <3>2. e \in Judgement /\ e.ino = ino
      BY <1>1, <2>1, <2>2, JudgedRecord
    <3> HIDE DEF e
    <3>3. seen' \in Seq(Judgement) /\ ToSet(seen') = ToSet(seen) \cup {e}
      BY <1>4, <3>1, <3>2, PushFacts
    <3>4. Numbers(seen') = Numbers(seen) \cup {ino}
      BY <3>2, <3>3 DEF Numbers
    <3>5. Numbers(seen') = Upto(read', Frontier')
      BY <1>4, <2>1, <2>3, <2>4, <2>5, <2>8, <3>4
    <3>6. Rises(seen')
      <4>1. /\ Len(seen) \in Nat /\ DOMAIN seen = 1..Len(seen)
            /\ DOMAIN seen' = 1..(Len(seen) + 1) /\ seen'[Len(seen) + 1] = e
            /\ \A k \in 1..Len(seen) : seen'[k] = seen[k]
        BY <1>4, <3>1
      <4>2. ASSUME NEW k \in DOMAIN seen PROVE seen[k].ino < ino
        <5>1. seen[k].ino \in Upto(read, Frontier)
          BY <1>4 DEF Numbers, ToSet
        <5> QED BY <2>3, <5>1
      <4> QED BY <1>4, <3>2, <4>1, <4>2 DEF Rises
    <3> QED BY <3>3, <3>5, <3>6
  <2> QED BY <2>7, <2>8
<1> QED BY <1>8, <1>9, <1>10, <1>11 DEF SweepNext, Sweep

(* Every reachable state of the audit and of the sweep satisfies SweepInv. *)
THEOREM SweepInvariant == SweepSpec => []SweepInv
<1>1. SweepInit => SweepInv
  <2> SUFFICES ASSUME SweepInit PROVE SweepInv
    OBVIOUS
  <2>1. vol \in Volumes /\ AuditInv
    BY AuditInit DEF SweepInit, Init
  <2>2. vol.ncg \in Nat /\ U64Max \in Nat
    BY <2>1, VolumeFacts
  <2>3. SweepTypeOK
    BY <2>1, <2>2 DEF SweepInit, SweepTypeOK, AuditInv
  <2>4. SweepPosition
    BY <2>2 DEF SweepInit, SweepPosition
  <2>5. JudgedSoFar
    <3>1. seen = << >> /\ read = {}
      BY DEF SweepInit
    <3>2. ToSet(seen) = {} /\ seen \in Seq(Judgement) /\ DOMAIN seen = {}
      BY <3>1 DEF ToSet
    <3> QED BY <3>1, <3>2 DEF JudgedSoFar
  <2> QED BY <2>1, <2>3, <2>4, <2>5 DEF SweepInv
<1>2. SweepInv /\ [SweepNext]_allVars => SweepInv'
  BY SweepIsAudit, AuditStep, SweepTypeStep, PositionStep, JudgedStep DEF SweepInv
<1> QED BY <1>1, <1>2, PTL DEF SweepSpec

(* The locals of the audit and of the sweep keep their types: the position *)
(* in a group stays a u64 and the group number within the volume.          *)
THEOREM SweepTypeCorrect == SweepSpec => []SweepTypeOK
<1>1. SweepInv => SweepTypeOK
  BY DEF SweepInv
<1> QED BY <1>1, SweepInvariant, PTL

(* check_impossible_geometry fires exactly when a group starts past the    *)
(* end of the partition, however far the products saturate.                *)
THEOREM GeometryIsExact == SweepSpec => []GeometryVerdictExact
<1>1. SweepInv => GeometryVerdictExact
  BY GeometryFromInv DEF SweepInv
<1> QED BY <1>1, SweepInvariant, PTL

(* check_all_cgs reports every bad header and every diverging field inside *)
(* the partition, once each, group by group, and nothing else.             *)
THEOREM FindingsAreExact == SweepSpec => []GroupFindingsExact
<1>1. SweepInv => GroupFindingsExact
  BY FindingsFromInv DEF SweepInv
<1> QED BY <1>1, SweepInvariant, PTL

(* The sweep judges every inode of the groups it could read once and in    *)
(* ascending order.                                                        *)
THEOREM EachInodeJudgedOnce == SweepSpec => []InodesJudgedOnce
<1>1. SweepInv => InodesJudgedOnce
  <2> SUFFICES ASSUME SweepInv, stage = "end" PROVE InodesJudgedOnce
    BY DEF InodesJudgedOnce
  <2>1. vol.ncg \in Nat /\ vol.ipg \in Int /\ SweepPosition /\ JudgedSoFar
    BY VolumeFacts DEF SweepInv
  <2>2. CASE scg = vol.ncg
    <3>1. Frontier = vol.ipg * vol.ncg
      BY <2>1, <2>2 DEF Frontier
    <3>2. \A i \in (RootIno + 1)..(vol.ipg * vol.ncg - 1) : i < Frontier
      BY <2>1, <3>1, InodeAssumption
    <3> QED BY <2>1, <3>2 DEF JudgedSoFar, InodesJudgedOnce
  <2>3. CASE scg = 0
    <3>1. read = {}
      BY <2>1, <2>3 DEF SweepPosition
    <3> QED BY <2>1, <3>1 DEF JudgedSoFar, InodesJudgedOnce
  <2> QED BY <2>1, <2>2, <2>3 DEF SweepPosition
<1> QED BY <1>1, SweepInvariant, PTL

(* read_inode locates a dinode of the table at its exact address, clamped, *)
(* and answers with it exactly when the partition holds it whole.          *)
LEMMA DinodeExactly ==
    ASSUME vol \in Volumes, vol.fsize > 0, vol.fpg > 0, vol.iblkno >= 0,
           NEW c \in 0..(vol.ncg - 1), NEW w \in 0..(vol.ipg - 1), NEW i, i = c * vol.ipg + w
    PROVE  LET exact == ExactAddress(c, vol.iblkno) + w * vol.inode_size
           IN  /\ read_inode(i) = "Ok" <=> exact + vol.inode_size <= vol.part_len
               /\ read_inode(i) = "Ok" => ByteOffset(i) = exact
<1> DEFINE base == ExactAddress(c, vol.iblkno)
           exact == base + w * vol.inode_size
           n == vol.inode_size
<1>1. /\ IsVolume(vol) /\ vol.part_len \in 0..U64Max /\ U64Max \in Nat
      /\ n \in Nat \ {0} /\ vol.iblkno \in Nat /\ c \in Nat /\ w \in Nat /\ vol.ipg > 0
      /\ vol.ncg \in Nat /\ vol.ipg \in Int
  BY VolumeFacts
<1>2. /\ i \in Nat /\ i \div vol.ipg = c /\ i % vol.ipg = w
      /\ ~(i >= SatMul(vol.ipg, vol.ncg))
  <2>1. /\ SatMul(vol.ipg, vol.ncg) = vol.ipg * vol.ncg
        /\ c * vol.ipg + w \in Nat /\ c * vol.ipg + w < vol.ipg * vol.ncg
        /\ (c * vol.ipg + w) \div vol.ipg = c /\ (c * vol.ipg + w) % vol.ipg = w
    BY NumberIsExact
  <2>2. vol.ipg * vol.ncg \in Int
    BY <1>1
  <2>3. /\ i \in Nat /\ i \div vol.ipg = c /\ i % vol.ipg = w
        /\ i < vol.ipg * vol.ncg
    BY <2>1
  <2> QED BY <2>1, <2>2, <2>3
<1>3. base \in Nat /\ Address(c, vol.iblkno) = Clamped(base)
  BY <1>1, AddressIs
<1>4. w * n \in Nat /\ SatMul(w, n) = Clamped(w * n)
  BY <1>1, SatChain
<1>5. ByteOffset(i) = Clamped(exact) /\ exact \in Nat
  <2>1. SatAdd(Clamped(base), Clamped(w * n)) = Clamped(base + w * n) /\ base + w * n \in Nat
    BY <1>3, <1>4, SatChain
  <2> QED BY <1>2, <1>3, <1>4, <2>1 DEF ByteOffset
<1> HIDE DEF exact, base
<1>6. SatAdd(ByteOffset(i), n) = Clamped(exact + n)
  BY <1>1, <1>5, SatChain
<1>7. read_inode(i) = "Ok"
        <=> /\ Clamped(exact + n) <= vol.part_len
            /\ Clamped(exact + n) - Clamped(exact) >= n
  <2>1. ~(vol.ipg <= 0 \/ vol.fpg = 0 \/ vol.fsize = 0 \/ vol.iblkno < 0)
    BY <1>1, VolumeFacts
  <2>2. read_inode(i) = IF /\ SatAdd(ByteOffset(i), n) <= vol.part_len
                           /\ SatAdd(ByteOffset(i), n) - ByteOffset(i) >= n
                        THEN "Ok" ELSE "Truncated"
    BY <1>2, <2>1 DEF read_inode
  <2> QED BY <1>5, <1>6, <2>2
<1>8. /\ read_inode(i) = "Ok" <=> exact + n <= vol.part_len
      /\ read_inode(i) = "Ok" => ByteOffset(i) = exact
  BY <1>1, <1>5, <1>7 DEF Clamped
<1> QED BY <1>8 DEF exact, base

(* read_inode answers with a dinode exactly when the one of that group and *)
(* position lies inside the partition, and then with that one.             *)
THEOREM DinodeAddresses == SweepSpec => []DinodeAddressExact
<1>1. SweepInv => DinodeAddressExact
  <2> SUFFICES ASSUME SweepInv, seen # << >>, vol.iblkno >= 0 PROVE DinodeAddressExact
    BY DEF DinodeAddressExact
  <2> DEFINE s == Last(seen)
  <2>1. s \in Judgement
    <3>1. seen \in Seq(Judgement)
      BY DEF SweepInv, JudgedSoFar
    <3> QED BY <3>1, PopFacts
  <2>2. /\ vol.fsize > 0 /\ vol.fpg > 0 /\ s.cg \in 0..(vol.ncg - 1)
        /\ s.within \in 0..(vol.ipg - 1) /\ s.ino = s.cg * vol.ipg + s.within
        /\ s.inode = read_inode(s.ino) /\ s.at = ByteOffset(s.ino)
    BY <2>1 DEF Judgement
  <2>3. vol \in Volumes
    BY DEF SweepInv
  <2> QED BY <2>2, <2>3, DinodeExactly DEF DinodeAddressExact
<1> QED BY <1>1, SweepInvariant, PTL

(* A byte of the bitmap gives back each of its eight bits.                 *)
LEMMA BitOfByte ==
    ASSUME NEW used, NEW b \in Nat, NEW k \in 0..7
    PROVE  (BitmapByte(used, b) \div Weight[k + 1]) % 2 = 1 <=> 8 * b + k \in used
<1> DEFINE On(j) == IF 8 * b + j \in used THEN 1 ELSE 0
<1>1. \A j \in 0..7 : On(j) \in {0, 1} /\ (On(j) = 1 <=> 8 * b + j \in used)
  OBVIOUS
<1>2. BitmapByte(used, b) = On(0) + 2 * On(1) + 4 * On(2) + 8 * On(3)
                            + 16 * On(4) + 32 * On(5) + 64 * On(6) + 128 * On(7)
  <2>1. /\ Weight[1] = 1 /\ Weight[2] = 2 /\ Weight[3] = 4 /\ Weight[4] = 8
        /\ Weight[5] = 16 /\ Weight[6] = 32 /\ Weight[7] = 64 /\ Weight[8] = 128
    BY DEF Weight
  <2> QED BY <2>1 DEF BitmapByte
<1> HIDE DEF On
<1>3. \A x0, x1, x2, x3, x4, x5, x6, x7 \in {0, 1} :
        LET n == x0 + 2*x1 + 4*x2 + 8*x3 + 16*x4 + 32*x5 + 64*x6 + 128*x7
        IN  /\ (n \div 1) % 2 = x0 /\ (n \div 2) % 2 = x1 /\ (n \div 4) % 2 = x2
            /\ (n \div 8) % 2 = x3 /\ (n \div 16) % 2 = x4 /\ (n \div 32) % 2 = x5
            /\ (n \div 64) % 2 = x6 /\ (n \div 128) % 2 = x7
  BY SMT
<1> DEFINE n == BitmapByte(used, b)
<1>4. /\ (n \div 1) % 2 = On(0) /\ (n \div 2) % 2 = On(1) /\ (n \div 4) % 2 = On(2)
      /\ (n \div 8) % 2 = On(3) /\ (n \div 16) % 2 = On(4) /\ (n \div 32) % 2 = On(5)
      /\ (n \div 64) % 2 = On(6) /\ (n \div 128) % 2 = On(7)
  <2>1. /\ On(0) \in {0, 1} /\ On(1) \in {0, 1} /\ On(2) \in {0, 1} /\ On(3) \in {0, 1}
        /\ On(4) \in {0, 1} /\ On(5) \in {0, 1} /\ On(6) \in {0, 1} /\ On(7) \in {0, 1}
    BY <1>1
  <2> QED BY <1>2, <1>3, <2>1
<1> HIDE DEF n
<1>5. (n \div Weight[k + 1]) % 2 = On(k)
  <2>1. k \in {0, 1, 2, 3, 4, 5, 6, 7}
    OBVIOUS
  <2> QED BY <1>4, <2>1 DEF Weight
<1> QED BY <1>1, <1>5 DEF n

(* bitmap_bit finds the byte of every position of a group, the last ones   *)
(* included, and in it the bit that was written for the position.          *)
LEMMA BitAsWritten ==
    ASSUME vol \in Volumes, NEW c \in 0..(vol.ncg - 1), NEW w \in 0..(vol.ipg - 1)
    PROVE  bitmap_bit(c, w) <=> w \in vol.used[c]
<1> DEFINE b == w \div 8
           k == w % 8
<1>1. /\ vol.ipg \in Int /\ w \in Nat /\ vol.inosused[c] \in Seq(Nat)
      /\ 8 * Len(vol.inosused[c]) >= vol.ipg
      /\ \A j \in DOMAIN vol.inosused[c] : vol.inosused[c][j] = BitmapByte(vol.used[c], j - 1)
  BY VolumeFacts DEF HasInodes
<1>2. b \in Nat /\ k \in 0..7 /\ w = 8 * b + k
  BY <1>1
<1> HIDE DEF b, k
<1>3. b < bitmap_bytes
  BY <1>1, <1>2 DEF bitmap_bytes
<1>4. b + 1 \in DOMAIN vol.inosused[c] /\ (b + 1) - 1 = b
  <2>1. Len(vol.inosused[c]) \in Nat /\ DOMAIN vol.inosused[c] = 1..Len(vol.inosused[c])
    BY <1>1
  <2> QED BY <1>1, <1>2, <2>1
<1>5. vol.inosused[c][b + 1] = BitmapByte(vol.used[c], b)
  BY <1>1, <1>4
<1>6. bitmap_bit(c, w) <=> (BitmapByte(vol.used[c], b) \div Weight[k + 1]) % 2 = 1
  BY <1>3, <1>5 DEF bitmap_bit, b, k
<1> QED BY <1>2, <1>6, BitOfByte

(* Every inode the sweep judges is judged by the bit the file system wrote *)
(* for it, whatever the number of inodes in a group.                       *)
THEOREM BitsAreRead == SweepSpec => []BitsReadAsWritten
<1>1. SweepInv => BitsReadAsWritten
  <2> SUFFICES ASSUME SweepInv, seen # << >> PROVE BitsReadAsWritten
    BY DEF BitsReadAsWritten
  <2> DEFINE s == Last(seen)
  <2>1. s \in Judgement
    <3>1. seen \in Seq(Judgement)
      BY DEF SweepInv, JudgedSoFar
    <3> QED BY <3>1, PopFacts
  <2>2. /\ s.cg \in 0..(vol.ncg - 1) /\ s.within \in 0..(vol.ipg - 1)
        /\ s.used = bitmap_bit(s.cg, s.within)
    BY <2>1 DEF Judgement
  <2>3. vol \in Volumes
    BY DEF SweepInv
  <2> QED BY <2>2, <2>3, BitAsWritten DEF BitsReadAsWritten
<1> QED BY <1>1, SweepInvariant, PTL

(* A group whose bitmap could not be read, though the geometry is sound.   *)
LEMMA NoBitmapExplained ==
    ASSUME vol \in Volumes, Measurable, vol.ipg > 0, NEW c \in 0..(vol.ncg - 1), ~HasBitmap(c)
    PROVE  \/ vol.header[c] # vol.endian
           \/ vol.raw_cblkno < 0
           \/ ExactAddress(c, vol.cblkno) + CG_MIN_LEN > vol.part_len
           \/ ExactAddress(c, vol.cblkno) + vol.iusedoff[c] + bitmap_bytes > vol.part_len
<1> SUFFICES ASSUME vol.header[c] = vol.endian, vol.raw_cblkno >= 0
             PROVE  \/ ExactAddress(c, vol.cblkno) + CG_MIN_LEN > vol.part_len
                    \/ ExactAddress(c, vol.cblkno) + vol.iusedoff[c] + bitmap_bytes > vol.part_len
  <2>1. vol.raw_cblkno \in Int
    BY VolumeFacts DEF HasInodes
  <2> QED BY <2>1
<1>1. /\ IsVolume(vol) /\ vol.part_len \in Nat /\ c \in Nat
      /\ CG_MIN_LEN \in Nat \ {0} /\ vol.ipg \in Int
  BY VolumeFacts, VolumeAssumption, InodeAssumption
<1>2. vol.cblkno = vol.raw_cblkno /\ vol.cblkno \in Nat /\ vol.iusedoff[c] \in Nat
  BY VolumeFacts DEF HasInodes
<1>3. bitmap_bytes \in Nat \ {0}
  BY <1>1 DEF bitmap_bytes
<1>4. vol.fsize > 0 /\ vol.fpg > 0
  BY VolumeFacts DEF Measurable
<1>5. vol.iusedoff[c] + bitmap_bytes \in Nat \ {0} /\ ExactAddress(c, vol.cblkno) \in Nat
  BY <1>1, <1>2, <1>3, AddressIs
<1>6. \/ ~Holds(Address(c, vol.cblkno), CG_MIN_LEN)
      \/ ~Holds(Address(c, vol.cblkno), vol.iusedoff[c] + bitmap_bytes)
  BY <1>2, <1>4 DEF HasBitmap, HeaderParses
<1>7. CASE ~Holds(Address(c, vol.cblkno), CG_MIN_LEN)
  <2>1. ~(ExactAddress(c, vol.cblkno) + CG_MIN_LEN <= vol.part_len)
    BY <1>1, <1>2, <1>7, HoldsExactly
  <2> QED BY <1>1, <1>5, <2>1
<1>8. CASE ~Holds(Address(c, vol.cblkno), vol.iusedoff[c] + bitmap_bytes)
  <2> DEFINE m == vol.iusedoff[c] + bitmap_bytes
  <2>1. m \in Nat \ {0} /\ ~Holds(Address(c, vol.cblkno), m)
    BY <1>5, <1>8
  <2> HIDE DEF m
  <2>2. ~(ExactAddress(c, vol.cblkno) + m <= vol.part_len)
    BY <1>1, <1>2, <2>1, HoldsExactly
  <2>3. ExactAddress(c, vol.cblkno) + m > vol.part_len
    BY <1>1, <1>5, <2>1, <2>2
  <2> QED BY <1>2, <1>3, <1>5, <2>3 DEF m
<1> QED BY <1>6, <1>7, <1>8

(* A group reported for its magic is never swept, and a group neither      *)
(* reported nor swept has its header in the other byte order, or lies with *)
(* its header or bitmap partly outside the partition, or has no address.   *)
THEOREM SilentSkips == SweepSpec => []SilentSkipsExplained
<1>1. SweepInv => SilentSkipsExplained
  <2> SUFFICES ASSUME SweepInv, stage = "end", caller = "audit_image", vol.ipg > 0, Measurable,
                      \A a \in ToSet(out) : a.kind # "ImpossibleGeometry",
                      NEW c \in 0..(vol.ncg - 1)
               PROVE  /\ Flagged(c) => c \notin read
                      /\ c \notin read /\ ~Flagged(c) =>
                            \/ vol.header[c] \notin {"bad", vol.endian}
                            \/ vol.raw_cblkno <= 0
                            \/ ExactAddress(c, vol.cblkno) + CG_MIN_LEN > vol.part_len
                            \/ ExactAddress(c, vol.cblkno) + vol.iusedoff[c] + bitmap_bytes
                                  > vol.part_len
    BY DEF SilentSkipsExplained
  <2>1. /\ vol \in Volumes /\ IsVolume(vol) /\ HasInodes(vol) /\ vol.ncg \in Nat /\ vol.ipg \in Int
        /\ c \in Nat /\ SweepPosition /\ AuditInv /\ pc = "end" /\ vol.part_len \in Nat
    BY VolumeFacts DEF SweepInv, SweepPosition
  <2>2. ~PastEnd /\ cg = vol.ncg
    <3>1. ASSUME PastEnd PROVE FALSE
      <4> DEFINE v == [kind |-> "ImpossibleGeometry", value |-> vol.ncg,
                       limit |-> vol.part_len \div cg_bytes + 1]
      <4>1. out = <<v>> /\ v.kind = "ImpossibleGeometry"
        BY <2>1, <3>1 DEF AuditInv, AuditProgress
      <4> HIDE DEF v
      <4>2. v \in ToSet(out)
        BY <4>1 DEF ToSet
      <4> QED BY <4>1, <4>2
    <3> QED BY <2>1, <3>1 DEF AuditInv, AuditProgress
  <2>3. read = { d \in 0..(vol.ncg - 1) : HasBitmap(d) }
    <3>1. ~GaveUp
      BY DEF GaveUp
    <3>2. scg = vol.ncg
      BY <2>1, <3>1 DEF SweepPosition
    <3> QED BY <2>1, <3>2 DEF SweepPosition
  <2>4. Flagged(c) <=> HeaderBad(c)
    <3>1. ToSet(out) = UNION { DivergencesOf(d) \cup BadHeaderOf(d) : d \in 0..(vol.ncg - 1) }
      BY <2>1, <2>2 DEF AuditInv, ReportedSoFar, ExpectedSoFar
    <3>2. ASSUME NEW a \in ToSet(out), a.kind = "CgMagicInvalid", a.cg = c
          PROVE  BadHeaderOf(c) # {}
      <4>1. PICK d \in 0..(vol.ncg - 1) : a \in DivergencesOf(d) \cup BadHeaderOf(d)
        BY <3>1
      <4>2. d = c /\ a \in BadHeaderOf(d)
        BY <3>2, <4>1, FindingOf
      <4> QED BY <4>2
    <3>3. ASSUME HeaderBad(c) PROVE Flagged(c)
      <4> DEFINE a == Anomaly("CgMagicInvalid", c, "cg_magic")
      <4>1. a \in BadHeaderOf(c) /\ a.kind = "CgMagicInvalid" /\ a.cg = c
        BY <2>1, <3>3, HeaderBadExactly DEF Anomaly
      <4> HIDE DEF a
      <4> QED BY <3>1, <4>1 DEF Flagged
    <3>4. BadHeaderOf(c) # {} => HeaderBad(c)
      BY <2>1, HeaderBadExactly
    <3> QED BY <3>2, <3>3, <3>4 DEF Flagged
  <2>5. ASSUME Flagged(c) PROVE c \notin read
    <3>1. vol.header[c] = "bad" /\ vol.endian # "bad"
      BY <2>1, <2>4, <2>5 DEF HeaderBad, HasInodes
    <3> QED BY <2>3, <3>1 DEF HasBitmap, HeaderParses
  <2>6. ASSUME c \notin read, ~Flagged(c), vol.header[c] \in {"bad", vol.endian}, vol.raw_cblkno > 0
        PROVE  \/ ExactAddress(c, vol.cblkno) + CG_MIN_LEN > vol.part_len
               \/ ExactAddress(c, vol.cblkno) + vol.iusedoff[c] + bitmap_bytes > vol.part_len
    <3>1. vol.cblkno = vol.raw_cblkno /\ vol.cblkno \in Nat /\ vol.cblkno > 0 /\ vol.raw_cblkno \in Int
      BY <2>1, <2>6 DEF HasInodes
    <3>2. CASE vol.header[c] = "bad"
      <4>1. ~Holds(Address(c, vol.cblkno), CG_HEAD_LEN)
        BY <2>4, <2>6, <3>1, <3>2 DEF HeaderBad
      <4>2. CG_HEAD_LEN \in Nat \ {0} /\ CG_MIN_LEN \in Nat /\ CG_HEAD_LEN <= CG_MIN_LEN
        BY VolumeAssumption, InodeAssumption
      <4>3. ~(ExactAddress(c, vol.cblkno) + CG_HEAD_LEN <= vol.part_len)
        BY <2>1, <3>1, <4>1, <4>2, HoldsExactly
      <4>4. ExactAddress(c, vol.cblkno) \in Nat
        BY <2>1, <3>1, AddressIs
      <4> QED BY <2>1, <4>2, <4>3, <4>4
    <3>3. CASE vol.header[c] = vol.endian
      <4>1. ~HasBitmap(c)
        BY <2>3, <2>6
      <4>2. ~(vol.raw_cblkno < 0)
        BY <2>6, <3>1
      <4> QED BY <2>1, <3>3, <4>1, <4>2, NoBitmapExplained
    <3> QED BY <2>6, <3>2, <3>3
  <2>7. vol.raw_cblkno > 0 \/ vol.raw_cblkno <= 0
    BY <2>1 DEF HasInodes
  <2> QED BY <2>5, <2>6, <2>7
<1> QED BY <1>1, SweepInvariant, PTL
=============================================================================
