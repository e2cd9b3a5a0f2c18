----------------------------- MODULE GroupSweep -----------------------------
(***************************************************************************)
(* The sweep of the inode tables that check_orphaned_inodes and            *)
(* carve_deleted_inodes share, down to the addresses: per cylinder group   *)
(* the header and its inode bitmap (cg_inode_bitmap), per inode its bit    *)
(* (bitmap_bit) and its dinode (read_inode).  audit_image runs it after    *)
(* the checks of CgAudit; recover_deleted runs it without them, so also on *)
(* a geometry the audit would have refused.                                *)
(*                                                                         *)
(* A volume further holds the raw fs_ipg, fs_iblkno and fs_cblkno, the     *)
(* dinode size and byte order of the superblock and, for every group, the  *)
(* inodes the file system marked used, the bitmap bytes that say so and    *)
(* the offset at which the header claims they are.                         *)
(***************************************************************************)
EXTENDS CgAudit

CONSTANTS
    CG_MIN_LEN,  \* 124: what CylinderGroup::parse needs
    RootIno      \* UFS_ROOTINO

(* The byte that holds the bits of positions 8b to 8b+7, LSB first: bit k  *)
(* weighs Weight[k + 1].                                                   *)
Weight == <<1, 2, 4, 8, 16, 32, 64, 128>>
BitmapByte(used, b) ==
    LET Bit(k) == IF 8 * b + k \in used THEN Weight[k + 1] ELSE 0
    IN  Bit(0) + Bit(1) + Bit(2) + Bit(3) + Bit(4) + Bit(5) + Bit(6) + Bit(7)

HasInodes(v) ==
    /\ v.ipg \in Int /\ v.iblkno \in Int /\ v.raw_cblkno \in Int
    /\ v.cblkno = (IF v.raw_cblkno >= 0 THEN v.raw_cblkno ELSE 0)
    /\ v.ipg * v.ncg <= U64Max   \* an i32 times a u32
    /\ v.inode_size \in Nat \ {0}
    /\ v.endian \in {"little", "big"}
    /\ \A c \in 0..(v.ncg - 1) :
          /\ v.used[c] \subseteq 0..(v.ipg - 1) /\ v.iusedoff[c] \in Nat
          /\ v.inosused[c] \in Seq(Nat)
          /\ \A b \in DOMAIN v.inosused[c] : v.inosused[c][b] = BitmapByte(v.used[c], b - 1)
          /\ 8 * Len(v.inosused[c]) >= v.ipg

ASSUME InodeAssumption ==
    /\ CG_MIN_LEN \in Nat /\ CG_HEAD_LEN <= CG_MIN_LEN /\ RootIno \in Nat
    /\ \A v \in Volumes : HasInodes(v)

VARIABLES
    caller,  \* "audit_image" or "recover_deleted"
    stage,   \* "audit", "group", "inode", "end"
    scg,     \* the group being swept
    within,
    read,    \* the groups whose bitmap was read
    seen     \* what was found of each inode, in order

sweepVars == <<caller, stage, scg, within, read, seen>>
allVars == <<vars, sweepVars>>

SweepInit ==
    /\ Init
    /\ caller \in {"audit_image", "recover_deleted"}
    /\ stage = "audit" /\ scg = 0 /\ within = 0 /\ read = {} /\ seen = << >>

-----------------------------------------------------------------------------

(* cg_inode_bitmap: the header at the raw fs_cblkno parses in the          *)
(* superblock's byte order and the bitmap it points at is there.           *)
bitmap_bytesDown == vol.ipg \div 8
bitmap_bytes == (vol.ipg + 7) \div 8
HeaderParses(c) ==
    /\ Holds(Address(c, vol.raw_cblkno), CG_MIN_LEN)
    /\ vol.header[c] = vol.endian
HasBitmap(c) ==
    /\ vol.fsize > 0 /\ vol.fpg > 0 /\ vol.raw_cblkno >= 0 /\ vol.ipg > 0
    /\ HeaderParses(c)
    /\ Holds(Address(c, vol.raw_cblkno), vol.iusedoff[c] + bitmap_bytes)

(* bitmap_bit over the bytes cg_inode_bitmap copied.                       *)
bitmap_bit(c, idx) ==
    /\ idx \div 8 < bitmap_bytes
    /\ (vol.inosused[c][idx \div 8 + 1] \div Weight[(idx % 8) + 1]) % 2 = 1

(* read_inode: the guards in their order, the location in saturating       *)
(* arithmetic, the slice, and the length check of the decode.              *)
ByteOffsetWrapping(i) ==
    (((i \div vol.ipg) * vol.fpg + vol.iblkno) * vol.fsize + (i % vol.ipg) * vol.inode_size) % (U64Max + 1)
ByteOffset(i) ==
    SatAdd(Address(i \div vol.ipg, vol.iblkno), SatMul(i % vol.ipg, vol.inode_size))

read_inode(i) ==
    LET start == ByteOffset(i)
        end   == SatAdd(start, vol.inode_size)
    IN  IF vol.ipg <= 0 \/ vol.fpg = 0 \/ vol.fsize = 0 \/ vol.iblkno < 0 THEN "ImpossibleGeometry"
        ELSE IF i >= SatMul(vol.ipg, vol.ncg) THEN "InodeOutOfRange"
        ELSE IF end <= vol.part_len /\ end - start >= vol.inode_size THEN "Ok" ELSE "Truncated"

-----------------------------------------------------------------------------

(* audit_image runs the checks of CgAudit first.                           *)
AuditOn ==
    /\ caller = "audit_image" /\ stage = "audit"
    /\ Audit
    /\ UNCHANGED sweepVars

(* It returns early on an impossible geometry.                             *)
AuditGivesUp ==
    /\ caller = "audit_image" /\ stage = "audit" /\ pc = "end"
    /\ \E a \in ToSet(out) : a.kind = "ImpossibleGeometry"
    /\ stage' = "end"
    /\ UNCHANGED <<vars, caller, scg, within, read, seen>>

StartSweep ==
    /\ stage = "audit"
    /\ caller = "audit_image" =>
          pc = "end" /\ \A a \in ToSet(out) : a.kind # "ImpossibleGeometry"
    /\ stage' = IF vol.ipg > 0 THEN "group" ELSE "end"
    /\ UNCHANGED <<vars, caller, scg, within, read, seen>>

SkipGroup ==
    /\ stage = "group" /\ scg < vol.ncg
    /\ ~HasBitmap(scg)
    /\ scg' = scg + 1
    /\ UNCHANGED <<vars, caller, stage, within, read, seen>>

EnterGroupKeepsPosition ==
    /\ stage = "group" /\ scg < vol.ncg
    /\ HasBitmap(scg)
    /\ read' = read \cup {scg}
    /\ stage' = "inode"
    /\ UNCHANGED <<vars, caller, scg, within, seen>>
EnterGroup ==
    /\ stage = "group" /\ scg < vol.ncg
    /\ HasBitmap(scg)
    /\ read' = read \cup {scg}
    /\ within' = 0
    /\ stage' = "inode"
    /\ UNCHANGED <<vars, caller, scg, seen>>

ino == SatAdd(SatMul(scg, vol.ipg), within)

(* One inode: reserved ones and those past the last are passed over.       *)
Judge ==
    /\ stage = "inode" /\ within < vol.ipg
    /\ seen' = IF ino < RootIno + 1 \/ ino >= SatMul(vol.ipg, vol.ncg) THEN seen
               ELSE Append(seen, [ ino |-> ino, cg |-> scg, within |-> within,
                                   used |-> bitmap_bit(scg, within),
                                   inode |-> read_inode(ino), at |-> ByteOffset(ino) ])
    /\ within' = within + 1
    /\ UNCHANGED <<vars, caller, stage, scg, read>>

LeaveGroupTwice ==
    /\ stage = "inode" /\ within >= vol.ipg
    /\ scg' = scg + 2
    /\ stage' = "group"
    /\ UNCHANGED <<vars, caller, within, read, seen>>
LeaveGroup ==
    /\ stage = "inode" /\ within >= vol.ipg
    /\ scg' = scg + 1
    /\ stage' = "group"
    /\ UNCHANGED <<vars, caller, within, read, seen>>

EndSweep ==
    /\ stage = "group" /\ scg >= vol.ncg
    /\ stage' = "end"
    /\ UNCHANGED <<vars, caller, scg, within, read, seen>>

Sweep ==
    \/ AuditOn \/ AuditGivesUp \/ StartSweep \/ SkipGroup \/ EnterGroup
    \/ Judge \/ LeaveGroup \/ EndSweep

SweepNext == Sweep \/ (stage = "end" /\ UNCHANGED allVars)

(* A called function keeps running: nothing else holds the thread.         *)
SweepSpec == SweepInit /\ [][SweepNext]_allVars /\ WF_allVars(Sweep)

-----------------------------------------------------------------------------

(* Type correctness of the locals of the audit and of the sweep.           *)
SweepTypeOK ==
    /\ TypeOK
    /\ caller \in {"audit_image", "recover_deleted"}
    /\ stage \in {"audit", "group", "inode", "end"}
    /\ scg \in 0..vol.ncg
    /\ within \in 0..U64Max
    /\ read \subseteq 0..(vol.ncg - 1)

(* read_inode answers with a dinode exactly when the dinode of that group  *)
(* and position, in unbounded arithmetic, lies inside the partition, and   *)
(* then with that one: no saturated product is taken for an address.       *)
DinodeAddressExact ==
    seen # << >> /\ vol.iblkno >= 0 =>
        LET s == Last(seen)
            exact == ExactAddress(s.cg, vol.iblkno) + s.within * vol.inode_size
        IN  /\ s.inode = "Ok" <=> exact + vol.inode_size <= vol.part_len
            /\ s.inode = "Ok" => s.at = exact

(* Every inode of a group whose bitmap was read is judged by the bit the   *)
(* file system wrote for it, the last ones of a group that is no multiple  *)
(* of eight included: a used inode is never taken for a free one.          *)
BitsReadAsWritten ==
    seen # << >> => (Last(seen).used <=> Last(seen).within \in vol.used[Last(seen).cg])

(* The sweep judges each inode of the groups it could read exactly once,   *)
(* in ascending order, from the first past the root to the last of the     *)
(* file system, wherever unreadable groups lie between.                    *)
InodesJudgedOnce ==
    stage = "end" =>
        /\ { s.ino : s \in ToSet(seen) } =
              { i \in (RootIno + 1)..(vol.ipg * vol.ncg - 1) : (i \div vol.ipg) \in read }
        /\ \A j, k \in DOMAIN seen : j < k => seen[j].ino < seen[k].ino

Flagged(c) == \E a \in ToSet(out) : a.kind = "CgMagicInvalid" /\ a.cg = c

(* What audit_image says of the headers and what its sweep could use: a    *)
(* group reported for its magic is never swept, and a group neither        *)
(* reported nor swept has its header in the other byte order, or lies with *)
(* its header or bitmap partly outside the partition, or has no address.   *)
(* Those are the groups whose inodes go unjudged behind a clean report.    *)
SilentSkipsExplained ==
    stage = "end" /\ caller = "audit_image" /\ vol.ipg > 0 /\ Measurable
      /\ (\A a \in ToSet(out) : a.kind # "ImpossibleGeometry") =>
        \A c \in 0..(vol.ncg - 1) :
            /\ Flagged(c) => c \notin read
            /\ c \notin read /\ ~Flagged(c) =>
                  \/ vol.header[c] \notin {"bad", vol.endian}
                  \/ vol.raw_cblkno <= 0
                  \/ ExactAddress(c, vol.cblkno) + CG_MIN_LEN > vol.part_len
                  \/ ExactAddress(c, vol.cblkno) + vol.iusedoff[c] + bitmap_bytes > vol.part_len

GaveUp == \E a \in ToSet(out) : a.kind = "ImpossibleGeometry"

(* Where the sweep is and which bitmaps it has read: those of the groups   *)
(* before it that have one.  It ends past the last group, or before the    *)
(* first when the audit gave up or a group has no inodes.                  *)
SweepPosition ==
    /\ stage = "audit" => scg = 0
    /\ stage # "audit" /\ caller = "audit_image" => pc = "end"
    /\ stage \in {"group", "inode"} => vol.ipg > 0
    /\ stage = "inode" => scg < vol.ncg /\ HasBitmap(scg) /\ within <= vol.ipg
    /\ stage = "end" => scg = vol.ncg \/ (scg = 0 /\ (vol.ipg <= 0 \/ GaveUp))
    /\ read = { c \in 0..(scg - 1) : HasBitmap(c) } \cup (IF stage = "inode" THEN {scg} ELSE {})

(* The first inode number the sweep has not dealt with.                    *)
Frontier == scg * vol.ipg + (IF stage = "inode" THEN within ELSE 0)

Answer == {"Ok", "ImpossibleGeometry", "InodeOutOfRange", "Truncated"}

(* An entry of seen is the judgement of one position of one group, under a *)
(* number that did not saturate.                                           *)
Judgement ==
    { s \in [ino : Nat, cg : 0..(vol.ncg - 1), within : 0..(vol.ipg - 1),
             used : BOOLEAN, inode : Answer, at : Int] :
        /\ vol.fsize > 0 /\ vol.fpg > 0 /\ vol.ipg > 0
        /\ s.ino = s.cg * vol.ipg + s.within /\ s.used = bitmap_bit(s.cg, s.within)
        /\ s.inode = read_inode(s.ino) /\ s.at = ByteOffset(s.ino) }

(* What has been judged is what lies before the frontier in a group whose  *)
(* bitmap was read, in ascending order.                                    *)
JudgedSoFar ==
    /\ seen \in Seq(Judgement)
    /\ { s.ino : s \in ToSet(seen) } =
          { i \in (RootIno + 1)..(vol.ipg * vol.ncg - 1) : (i \div vol.ipg) \in read /\ i < Frontier }
    /\ \A j, k \in DOMAIN seen : j < k => seen[j].ino < seen[k].ino

(* The inductive invariant behind the properties of the sweep.             *)
SweepInv == vol \in Volumes /\ AuditInv /\ SweepTypeOK /\ SweepPosition /\ JudgedSoFar
=============================================================================
