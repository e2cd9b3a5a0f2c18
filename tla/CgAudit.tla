------------------------------ MODULE CgAudit ------------------------------
(***************************************************************************)
(* The geometry half of audit_image, once the primary superblock parsed:   *)
(* check_impossible_geometry, then check_all_cgs with a backup-superblock  *)
(* comparison and a header-magic check per cylinder group.                 *)
(*                                                                         *)
(* A volume is the geometry the code reads and, for every group, what the  *)
(* bytes at the two addresses it computes would decode to if they are      *)
(* inside the partition.  Offsets are u64 and saturate.                    *)
(***************************************************************************)
EXTENDS Integers, Sequences, FiniteSets, SequencesExt

CONSTANTS
    Volumes,     \* the volumes under audit
    U64Max,      \* u64::MAX
    SB_MIN_LEN,  \* 1376: what Superblock::parse needs
    CG_HEAD_LEN  \* 8: what check_cg_magic needs (CG_MAGIC_OFF + 4)

SBLOCK_UFS1 == 8192

(* The fields check_backup_sb compares, and the rest of the geometry.      *)
Compared == {"fs_ipg", "fs_fpg", "fs_bsize", "fs_ncg"}
GeometryField == Compared \cup {"fs_fsize", "fs_sblkno", "fs_cblkno"}

(* fsize, fpg, sblkno and cblkno are the clamped values audit_image        *)
(* computes; the partition is long enough for the primary superblock;      *)
(* differs is the set of fields in which the group's backup disagrees with *)
(* the primary.                                                            *)
IsVolume(v) ==
    /\ v.fsize \in 0..U64Max /\ v.fpg \in 0..U64Max /\ v.ncg \in 0..U64Max
    /\ v.sblkno \in 0..U64Max /\ v.cblkno \in 0..U64Max
    /\ v.part_len \in (SBLOCK_UFS1 + SB_MIN_LEN)..U64Max
    /\ \A c \in 0..(v.ncg - 1) :
          /\ v.backup[c] \in [parses : BOOLEAN, differs : SUBSET GeometryField]
          /\ v.header[c] \in {"little", "big", "bad"}

ASSUME VolumeAssumption ==
    /\ U64Max \in Nat /\ SB_MIN_LEN \in Nat \ {0} /\ CG_HEAD_LEN \in Nat \ {0}
    /\ \A v \in Volumes : IsVolume(v)

VARIABLES
    vol,   \* never written
    pc,    \* "geometry", "backup", "header", "end"
    cg,    \* the group under check
    out    \* the anomalies pushed, in order

vars == <<vol, pc, cg, out>>

Init ==
    /\ vol \in Volumes
    /\ pc = "geometry"
    /\ cg = 0
    /\ out = << >>

-----------------------------------------------------------------------------

(* u64::saturating_mul and saturating_add.                                 *)
SatMul(a, b) == IF b > 0 /\ a > U64Max \div b THEN U64Max ELSE a * b
SatAdd(a, b) == IF a > U64Max - b THEN U64Max ELSE a + b

Anomaly(kind, c, field) == [kind |-> kind, cg |-> c, field |-> field]

cg_bytes == SatMul(vol.fpg, vol.fsize)
last_baseNext == SatMul(vol.ncg, cg_bytes)
last_base == SatMul(vol.ncg - 1, cg_bytes)

(* The geometry can be multiplied at all.                                  *)
Measurable == vol.fsize # 0 /\ vol.fpg # 0 /\ vol.ncg # 0

(* The last group starts at or past the end of the partition.              *)
PastEnd == last_base >= vol.part_len

(* check_impossible_geometry fires.  The anomaly carries the limit it      *)
(* reports beside the value fs_ncg.                                        *)
GeometryImpossible ==
    /\ pc = "geometry"
    /\ Measurable
    /\ PastEnd
    /\ out' = Append(out, [kind |-> "ImpossibleGeometry", value |-> vol.ncg,
                           limit |-> vol.part_len \div cg_bytes + 1])
    /\ pc' = "end"
    /\ UNCHANGED <<vol, cg>>

(* It does not; check_all_cgs returns at once on zero sizes.               *)
GeometryPlausible ==
    /\ pc = "geometry"
    /\ ~(Measurable /\ PastEnd)
    /\ pc' = IF vol.fsize = 0 \/ vol.fpg = 0 \/ vol.ncg = 0 THEN "end" ELSE "backup"
    /\ UNCHANGED <<vol, cg, out>>

(* The byte address of fragment `frag` of group c.                         *)
Address(c, frag) == SatMul(SatAdd(SatMul(c, vol.fpg), frag), vol.fsize)

(* partition.get(off..) is there and at least n bytes long.                *)
Holds(off, n) == off <= vol.part_len /\ vol.part_len - off >= n

(* check_backup_sb applies to this group: not the first, and its backup    *)
(* superblock is inside the partition and parses.                          *)
BackupReadableFromFirst(c) ==
    /\ vol.sblkno > 0
    /\ Holds(Address(c, vol.sblkno), SB_MIN_LEN)
    /\ vol.backup[c].parses
BackupReadable(c) ==
    /\ c >= 1 /\ vol.sblkno > 0
    /\ Holds(Address(c, vol.sblkno), SB_MIN_LEN)
    /\ vol.backup[c].parses

(* The checks array, in its order: one anomaly for each field that differs.*)
Divergence(c, f) ==
    IF f \in vol.backup[c].differs THEN <<Anomaly("BackupSuperblockDivergence", c, f)>>
                                   ELSE << >>
Divergences(c) ==
    Divergence(c, "fs_ipg") \o Divergence(c, "fs_fpg")
      \o Divergence(c, "fs_bsize") \o Divergence(c, "fs_ncg")

CompareBackup ==
    /\ pc = "backup"
    /\ cg < vol.ncg
    /\ BackupReadable(cg)
    /\ out' = out \o Divergences(cg)
    /\ pc' = "header"
    /\ UNCHANGED <<vol, cg>>

(* No backup to compare: an unreadable or unparseable one is passed over.  *)
SkipBackup ==
    /\ pc = "backup"
    /\ cg < vol.ncg
    /\ ~BackupReadable(cg)
    /\ pc' = "header"
    /\ UNCHANGED <<vol, cg, out>>

(* check_cg_magic finds neither byte order of CG_MAGIC in a header that is *)
(* inside the partition.                                                   *)
HeaderBadLittleOnly(c) ==
    /\ vol.cblkno > 0
    /\ Holds(Address(c, vol.cblkno), CG_HEAD_LEN)
    /\ vol.header[c] # "little"
HeaderBad(c) ==
    /\ vol.cblkno > 0
    /\ Holds(Address(c, vol.cblkno), CG_HEAD_LEN)
    /\ vol.header[c] = "bad"

CheckHeader ==
    /\ pc = "header"
    /\ out' = IF HeaderBad(cg) THEN Append(out, Anomaly("CgMagicInvalid", cg, "cg_magic"))
                               ELSE out
    /\ cg' = cg + 1
    /\ pc' = "backup"
    /\ UNCHANGED vol

AllGroupsChecked ==
    /\ pc = "backup"
    /\ cg >= vol.ncg
    /\ pc' = "end"
    /\ UNCHANGED <<vol, cg, out>>

Audit ==
    \/ GeometryImpossible \/ GeometryPlausible \/ CompareBackup \/ SkipBackup
    \/ CheckHeader \/ AllGroupsChecked

Terminating == pc = "end" /\ UNCHANGED vars

Next == Audit \/ Terminating

(* A called function keeps running: nothing else holds the thread.         *)
Spec == Init /\ [][Next]_vars /\ WF_vars(Audit)

-----------------------------------------------------------------------------

(* Type correctness of the audit's locals.                                 *)
TypeOK ==
    /\ IsVolume(vol)
    /\ pc \in {"geometry", "backup", "header", "end"}
    /\ cg \in 0..vol.ncg

(* The byte address in unbounded arithmetic.                               *)
ExactAddress(c, frag) == (c * vol.fpg + frag) * vol.fsize

IsGeometryVerdict(a) == a.kind = "ImpossibleGeometry"

(* ImpossibleGeometry is reported exactly when a group starts past the end *)
(* of the partition in unbounded arithmetic: saturation neither hides nor  *)
(* invents one, and the limit printed beside fs_ncg is never above it.     *)
GeometryVerdictExact ==
    pc = "end" =>
        /\ (\E k \in DOMAIN out : IsGeometryVerdict(out[k]))
              <=> Measurable /\ ExactAddress(vol.ncg - 1, 0) >= vol.part_len
        /\ \A k \in DOMAIN out : IsGeometryVerdict(out[k]) => out[k].limit <= out[k].value

(* What the checks of one group should report, in unbounded arithmetic.    *)
BadHeaderOf(c) ==
    { a \in {Anomaly("CgMagicInvalid", c, "cg_magic")} :
        /\ vol.cblkno > 0
        /\ ExactAddress(c, vol.cblkno) + CG_HEAD_LEN <= vol.part_len
        /\ vol.header[c] = "bad" }

DivergencesOf(c) ==
    { a \in { Anomaly("BackupSuperblockDivergence", c, f) : f \in Compared } :
        /\ c >= 1 /\ vol.sblkno > 0
        /\ ExactAddress(c, vol.sblkno) + SB_MIN_LEN <= vol.part_len
        /\ vol.backup[c].parses
        /\ a.field \in vol.backup[c].differs }

Expected == UNION { DivergencesOf(c) \cup BadHeaderOf(c) : c \in 0..(vol.ncg - 1) }

(* When the geometry is possible, check_all_cgs reports every bad header   *)
(* inside the partition and, of every backup inside it that parses, each   *)
(* of the four compared fields that diverges, each once, group by group,   *)
(* and nothing else: neither another field nor a backup that does not      *)
(* parse.  One group's missing or broken structure hides no other group's. *)
GroupFindingsExact ==
    pc = "end" /\ Measurable /\ ExactAddress(vol.ncg - 1, 0) < vol.part_len =>
        /\ ToSet(out) = Expected
        /\ Len(out) = Cardinality(Expected)
        /\ \A j, k \in DOMAIN out : j < k => out[j].cg <= out[k].cg

(* What was reported of group c.                                           *)
ReportedOf(c) == { k \in DOMAIN out : ~IsGeometryVerdict(out[k]) /\ out[k].cg = c }

(* What the comments of check_backup_sb say of two defects.  A backup that *)
(* parses: "flag each geometry field that diverges from the primary".      *)
EachFieldFlagged(c) ==
    BackupReadable(c) =>
        \A f \in vol.backup[c].differs : \E k \in ReportedOf(c) : out[k].field = f

(* One that is there and does not, beside a header for check_cg_magic to   *)
(* look at: "a bad-magic backup is reported via the primary/cg paths".     *)
BrokenBackupReported(c) ==
    /\ c >= 1 /\ vol.sblkno > 0 /\ Holds(Address(c, vol.sblkno), SB_MIN_LEN)
    /\ ~vol.backup[c].parses
    /\ vol.cblkno > 0 /\ Holds(Address(c, vol.cblkno), CG_HEAD_LEN)
    => ReportedOf(c) # {}

(* One of the two sentences holds of every volume check_all_cgs goes       *)
(* through: a volume that violates this refutes both.                      *)
DocBackupDefectsReported ==
    pc = "end" /\ Measurable /\ ~PastEnd =>
        \/ \A c \in 0..(vol.ncg - 1) : EachFieldFlagged(c)
        \/ \A c \in 0..(vol.ncg - 1) : BrokenBackupReported(c)

(* How far the audit is, and what the geometry check left behind.          *)
AuditProgress ==
    /\ pc = "geometry" => cg = 0 /\ out = << >>
    /\ pc \in {"backup", "header"} => Measurable /\ ~PastEnd
    /\ pc = "header" => cg < vol.ncg
    /\ pc = "end" /\ ~Measurable => out = << >>
    /\ pc = "end" /\ Measurable /\ ~PastEnd => cg = vol.ncg
    /\ pc = "end" /\ Measurable /\ PastEnd =>
          out = <<[kind |-> "ImpossibleGeometry", value |-> vol.ncg,
                   limit |-> vol.part_len \div cg_bytes + 1]>>

(* What the groups before the current one should report, and its backup's  *)
(* divergences once they have been compared.                               *)
ExpectedSoFar ==
    (UNION { DivergencesOf(c) \cup BadHeaderOf(c) : c \in 0..(cg - 1) })
      \cup (IF pc = "header" THEN DivergencesOf(cg) ELSE {})

(* In a possible geometry the anomalies pushed are those, each once, group *)
(* by group.                                                               *)
ReportedSoFar ==
    Measurable /\ ~PastEnd =>
        /\ out \in Seq(Expected) /\ IsInjective(out)
        /\ ToSet(out) = ExpectedSoFar
        /\ \A j, k \in DOMAIN out : j < k => out[j].cg <= out[k].cg

(* The inductive invariant behind the two exactness properties.            *)
AuditInv == TypeOK /\ AuditProgress /\ ReportedSoFar
=============================================================================
