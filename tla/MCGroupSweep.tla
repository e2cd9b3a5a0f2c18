---------------------------- MODULE MCGroupSweep ----------------------------
(***************************************************************************)
(* Volumes of up to three groups of 8192 bytes on partitions that end at,  *)
(* one byte before and one byte after the places that matter, and volumes  *)
(* whose group count drives the address arithmetic into saturation.        *)
(* U64Max is 2^16 - 1 here, eight groups' worth of bytes.                  *)
(***************************************************************************)
EXTENDS GroupSweep

Sound == [parses |-> TRUE, differs |-> {}]
Differing == [parses |-> TRUE, differs |-> {"fs_ipg", "fs_ncg"}]
Backups ==
    { Sound, Differing, [parses |-> FALSE, differs |-> {}],
      [parses |-> TRUE, differs |-> {"fs_fsize"}] }

(* Every other inode is used, from the first or the second by turns of the *)
(* groups, and the last of the even groups.                                *)
Used(ipg, c) == { w \in 0..(ipg - 1) : w % 2 = c % 2 \/ (c % 2 = 0 /\ w = ipg - 1) }

Volume(fpg, ncg, sb, cb, len, bs, hs, ipg, iblk, order) ==
    [ fsize |-> 512, fpg |-> fpg, ncg |-> ncg, sblkno |-> sb, part_len |-> len,
      cblkno |-> IF cb > 0 THEN cb ELSE 0, raw_cblkno |-> cb, ipg |-> ipg, iblkno |-> iblk,
      inode_size |-> 256, endian |-> order,
      backup |-> [ c \in 0..(ncg - 1) |-> IF c \in DOMAIN bs THEN bs[c] ELSE Differing ],
      header |-> [ c \in 0..(ncg - 1) |-> IF c \in DOMAIN hs THEN hs[c] ELSE "little" ],
      used |-> [ c \in 0..(ncg - 1) |-> Used(ipg, c) ],
      iusedoff |-> [ c \in 0..(ncg - 1) |-> 168 ],
      inosused |-> [ c \in 0..(ncg - 1) |-> [ b \in 1..2 |-> BitmapByte(Used(ipg, c), b - 1) ] ] ]

(* Group 2 starts at 16384; its backup superblock (fragment 1) ends at     *)
(* 18272, its header (fragment 4) has its magic by 18440 and its fields by *)
(* 18556, its bitmap ends at 18601 or 18602, its first dinode at 19712 and *)
(* its eighth and ninth (fragment 6) at 21504 and 21760.                   *)
MCVolumes ==
    { Volume(16, 3, sb, cb, len, bs, hs, 2, 6, "little") :
        sb \in {0, 1}, cb \in {0, 4},
        len \in {9568, 16384, 16385, 18271, 18272, 18439, 18440},
        bs \in [1..2 -> Backups], hs \in [{0, 2} -> {"big", "bad"}] }
      \cup
    { Volume(16, 3, 1, cb, len, << >>, hs, ipg, 6, order) :
        cb \in {-1, 0, 4}, ipg \in {8, 9}, order \in {"little", "big"},
        len \in {18440, 18555, 18556, 18601, 18602, 19711, 19712, 21504, 21759, 21760},
        hs \in [{0, 2} -> {"little", "big", "bad"}] }
      \cup
    { Volume(fpg, ncg, 1, 4, len, << >>, << >>, ipg, iblk, "little") :
        fpg \in {0, 16, 128}, ncg \in {0, 1, 8, 9, 40}, len \in {9568, 16384, 65534, 65535},
        ipg \in {0, 2}, iblk \in {-1, 6, 127} }
=============================================================================
