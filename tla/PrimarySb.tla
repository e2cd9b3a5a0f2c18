----------------------------- MODULE PrimarySb -----------------------------
(***************************************************************************)
(* Finding the primary superblock.  Two pieces of code do it, on the same  *)
(* partition: UfsFs::open (the reader) and parse_primary_sb (audit_image   *)
(* and recover_deleted).  Both try the UFS2 offset and then the UFS1       *)
(* offset, but they stop for different reasons.                            *)
(*                                                                         *)
(* The partition is abstracted to what Superblock::parse can tell apart at *)
(* each offset.                                                            *)
(***************************************************************************)
EXTENDS Integers

CONSTANTS BlockSizes, FragSizes, GroupCounts  \* field values that occur

VARIABLES
    region,     \* what the partition holds at each offset
    opener,     \* progress of UfsFs::open
    auditor,    \* progress of parse_primary_sb
    probe       \* what ufs_probe answered, and on which sniff window

searchVars == <<region, opener, auditor, probe>>

Offsets == {"SBLOCK_UFS2", "SBLOCK_UFS1"}

(* fs_magic as the four bytes read: one of the two magics in one of the    *)
(* two byte orders, or neither magic in either.                            *)
Magics == {"Ufs1 Little", "Ufs1 Big", "Ufs2 Little", "Ufs2 Big", "neither"}

(* size: the partition ends before the offset, or before the 1376 bytes of *)
(* the structure, or the structure is there.                               *)
Region ==
    [size : {"absent", "short", "full"}, magic : Magics,
     bsize : BlockSizes, fsize : FragSizes, ncg : GroupCounts]

MAX_NCG == 2^24

(* validate_geometry: the first field out of range, or none.               *)
validate_geometry(r) ==
    CASE r.bsize \notin 1..65536                            -> "fs_bsize"
      [] r.bsize \in 1..65536 /\ r.fsize \notin 1..r.bsize  -> "fs_fsize"
      [] r.bsize \in 1..65536 /\ r.fsize \in 1..r.bsize
           /\ r.ncg > MAX_NCG                               -> "fs_ncg"
      [] OTHER                                              -> "none"

(* Superblock::parse of a slice that begins at the region: the length      *)
(* check precedes the magic, which precedes the geometry.                  *)
Parse(r) ==
    CASE r.size # "full"                                  -> "Truncated"
      [] r.size = "full" /\ r.magic = "neither"             -> "BadMagic"
      [] r.size = "full" /\ r.magic # "neither"
           /\ validate_geometry(r) # "none"               -> "ImpossibleGeometry"
      [] OTHER                                            -> "Ok"

(* The version whose superblock belongs at each offset.                    *)
Native(off) ==
    IF off = "SBLOCK_UFS2" THEN {"Ufs2 Little", "Ufs2 Big"} ELSE {"Ufs1 Little", "Ufs1 Big"}

(* A partition long enough for the UFS2 superblock (65536) is long enough  *)
(* for the UFS1 one (8192).                                                *)
Possible(rs) ==
    rs["SBLOCK_UFS2"].size # "absent" => rs["SBLOCK_UFS1"].size = "full"

SearchInit ==
    /\ region \in { rs \in [Offsets -> Region] : Possible(rs) }
    /\ opener = [at |-> "SBLOCK_UFS2", verdict |-> "trying"]
    /\ auditor = [at |-> "SBLOCK_UFS2", verdict |-> "trying"]
    /\ probe = [window |-> {}, verdict |-> "trying"]

-----------------------------------------------------------------------------

(* UfsFs::open, first attempt: any error at the UFS2 offset moves on.      *)
OpenTryUfs2Only ==
    /\ opener = [at |-> "SBLOCK_UFS2", verdict |-> "trying"]
    /\ opener' = IF /\ Parse(region["SBLOCK_UFS2"]) = "Ok"
                    /\ region["SBLOCK_UFS2"].magic \in {"Ufs2 Little", "Ufs2 Big"}
                   THEN [opener EXCEPT !.verdict = "Ok"]
                   ELSE [opener EXCEPT !.at = "SBLOCK_UFS1"]
    /\ UNCHANGED <<region, auditor, probe>>
OpenTryUfs2 ==
    /\ opener = [at |-> "SBLOCK_UFS2", verdict |-> "trying"]
    /\ opener' = IF Parse(region["SBLOCK_UFS2"]) = "Ok"
                   THEN [opener EXCEPT !.verdict = "Ok"]
                   ELSE [opener EXCEPT !.at = "SBLOCK_UFS1"]
    /\ UNCHANGED <<region, auditor, probe>>

(* Second attempt: its verdict, error included, is the result.             *)
OpenTryUfs1 ==
    /\ opener = [at |-> "SBLOCK_UFS1", verdict |-> "trying"]
    /\ opener' = [opener EXCEPT !.verdict = Parse(region["SBLOCK_UFS1"])]
    /\ UNCHANGED <<region, auditor, probe>>

(* parse_primary_sb, one trip round its loop over the two offsets.         *)
AuditParses(off) ==
    /\ auditor = [at |-> off, verdict |-> "trying"]
    /\ Parse(region[off]) = "Ok"
    /\ auditor' = [auditor EXCEPT !.verdict = "Ok"]
    /\ UNCHANGED <<region, opener, probe>>

(* A wrong magic returns at once, at either offset.                        *)
AuditBadMagic(off) ==
    /\ auditor = [at |-> off, verdict |-> "trying"]
    /\ Parse(region[off]) = "BadMagic"
    /\ auditor' = [auditor EXCEPT !.verdict = "MagicInvalid"]
    /\ UNCHANGED <<region, opener, probe>>

(* A missing, short or geometry-rejected region: on to the next offset, or *)
(* out of the loop with NotUfs.                                            *)
AuditUnusableGivesUp(off) ==
    /\ auditor = [at |-> off, verdict |-> "trying"]
    /\ Parse(region[off]) \in {"Truncated", "ImpossibleGeometry"}
    /\ auditor' = [auditor EXCEPT !.verdict = "NotUfs"]
    /\ UNCHANGED <<region, opener, probe>>
AuditUnusable(off) ==
    /\ auditor = [at |-> off, verdict |-> "trying"]
    /\ Parse(region[off]) \in {"Truncated", "ImpossibleGeometry"}
    /\ auditor' = IF off = "SBLOCK_UFS2"
                    THEN [auditor EXCEPT !.at = "SBLOCK_UFS1"]
                    ELSE [auditor EXCEPT !.verdict = "NotUfs"]
    /\ UNCHANGED <<region, opener, probe>>

(* ufs_probe: w.has_magic at each offset the window covers, for the magic  *)
(* that belongs there, in either byte order.                               *)
SniffedLittle(off) == region[off].size = "full" /\ region[off].magic \in {"Ufs1 Little", "Ufs2 Little"}
Sniffed(off) == region[off].size = "full" /\ region[off].magic \in Native(off)
ufs_probe(window) ==
    /\ probe.verdict = "trying"
    /\ probe' = [window |-> window,
                 verdict |-> IF \E off \in window : Sniffed(off) THEN "Yes" ELSE "No"]
    /\ UNCHANGED <<region, opener, auditor>>

Search ==
    \/ ufs_probe({"SBLOCK_UFS1"}) \/ ufs_probe(Offsets)
    \/ OpenTryUfs2 \/ OpenTryUfs1
    \/ \E off \in Offsets : AuditParses(off) \/ AuditBadMagic(off) \/ AuditUnusable(off)

Returned == probe.verdict # "trying" /\ opener.verdict # "trying" /\ auditor.verdict # "trying"

AllReturned == Returned /\ UNCHANGED searchVars

SearchNext == Search \/ AllReturned

SearchSpec == SearchInit /\ [][SearchNext]_searchVars

-----------------------------------------------------------------------------

(* The reader and the analyzer never work from different superblocks: when *)
(* parse_primary_sb accepts one, UfsFs::open accepts the one at the same   *)
(* offset of the same partition.                                           *)
AuditorReadsWhatOpenerMounts ==
    Returned /\ auditor.verdict = "Ok" =>
        opener.verdict = "Ok" /\ opener.at = auditor.at

(* parse_primary_sb ends with NotUfs, an audit without a word, exactly on  *)
(* the partitions that UfsFs::open refuses too although no full structure  *)
(* in them has a wrong magic: there is no full structure, or those that    *)
(* are there have a good magic and a geometry out of range.                *)
SilenceExplained ==
    Returned =>
        (auditor.verdict = "NotUfs" <=>
            /\ opener.verdict # "Ok"
            /\ \A off \in Offsets : region[off].size = "full" => region[off].magic # "neither")

(* The probe the engine selects a file system by and the open that follows *)
(* disagree in two ways only: a volume ufs_probe takes fails to open for   *)
(* its geometry, and one it declines on a full window opens although its   *)
(* superblock stands at the other version's offset.                        *)
ProbeAgreesWithOpen ==
    Returned =>
        /\ probe.verdict = "Yes" /\ opener.verdict # "Ok" =>
              \E off \in Offsets : Parse(region[off]) = "ImpossibleGeometry"
        /\ probe.verdict = "No" /\ probe.window = Offsets /\ opener.verdict = "Ok" =>
              region[opener.at].magic \notin Native(opener.at)

(* audit_image: "UFS2 lives at byte 65536, UFS1 at 8192; try both": a file *)
(* system the reader mounts is one the analyzer audits.                    *)
DocTriesBothOffsets ==
    Returned /\ opener.verdict = "Ok" => auditor.verdict = "Ok"

(* SbError::NotUfs: "Nothing superblock-shaped at either known offset",    *)
(* returned "when neither offset holds superblock-sized data".             *)
DocNotUfsMeansNoSuperblock ==
    auditor.verdict = "NotUfs" => \A off \in Offsets : region[off].size # "full"
=============================================================================
