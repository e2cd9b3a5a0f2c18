----------------------------- MODULE VfsSession -----------------------------
(***************************************************************************)
(* The FileSystem adapter, UfsFs: a volume is read into memory once, in    *)
(* one call that may deliver only a prefix of it, and a client then looks  *)
(* names up, lists, reads in windows, asks for extents, metadata and link  *)
(* targets.  Inodes are decoded by parse_with_maxsymlink, content comes    *)
(* from the block map of BlockTree, paths from read_by_path.               *)
(*                                                                         *)
(* The volume is its bytes (a fragment is one byte here), and for each     *)
(* inode a raw dinode with the position of its last byte and the slots its *)
(* direct blocks decode to, each with the position of the last byte of its *)
(* head and of its name, and what the name reads as when only part of it   *)
(* was delivered (DirBlock models the decoding).  Owner, link count and    *)
(* access, change and modification times pass through unread: left out.    *)
(***************************************************************************)
EXTENDS BlockTree, FiniteSets, TLC

CONSTANTS
    Volumes,
    Ino, RootIno,
    Name,        \* the names a client may look up: path components, so not empty
    Deliveries,  \* how much of the volume the one read of the source may deliver
    MaxTrail,    \* bound: names a client looks up in a row
    Windows,     \* buffer lengths and link caps a client uses
    Radix        \* byte values are below this; 256 in the format

Versions == {"Ufs1", "Ufs2"}
PtrSize(v) == IF v.version = "Ufs1" THEN 1 ELSE 2   \* 4 and 8 bytes in the format
RegionLen(v) == (UFS_NDADDR + UFS_NIADDR) * PtrSize(v)

Empty == ""
Mode == 0..65535
RawSlot == [ino : Ino, name : Name \cup {Empty}, short : Name \cup {Empty}, pos : Nat, last : Nat]

(* target, inline, blocks and ib are ghosts: the link target the operating *)
(* system stored, whether in the dinode, else in which blocks and under    *)
(* which pointer block.                                                    *)
IsVolume(v) ==
    /\ v.version \in Versions /\ v.endian \in {"Little", "Big"}
    /\ v.bytes \in Seq(Byte) /\ v.sb_end \in Nat
    /\ v.bsize \in Nat \ {0} /\ v.maxsymlinklen \in Int /\ v.count \in Nat
    /\ DOMAIN v.dinode = Ino /\ DOMAIN v.slots = Ino
    /\ \A i \in Ino :
          /\ v.dinode[i].mode \in Mode /\ v.dinode[i].size \in Nat
          /\ v.dinode[i].pos \in Nat /\ v.dinode[i].birthtime \in Nat
          /\ v.dinode[i].region \in Seq(Byte) /\ Len(v.dinode[i].region) = RegionLen(v)
          /\ v.dinode[i].target \in Seq(Byte) /\ v.dinode[i].inline \in BOOLEAN
          /\ v.dinode[i].blocks \in Seq(Addr \ {0}) /\ v.dinode[i].ib \in Addr
          /\ v.slots[i] \in Seq(RawSlot)

ASSUME VolumeAssumption ==
    /\ RootIno \in Ino \ {0} /\ Ino \subseteq Nat /\ MaxTrail \in Nat /\ Windows \subseteq Nat /\ Deliveries \subseteq Nat
    /\ Radix \in Nat /\ Byte = 0..(Radix - 1) /\ 0..(Radix * Radix - 1) \subseteq Addr
    /\ Addr \subseteq Nat /\ Empty \notin Name
    /\ \A v \in Volumes : IsVolume(v)

VARIABLES
    vol,
    have,     \* image.len(): how much of the volume the source delivered
    mount,    \* "closed", "open", "failed"
    node,     \* the inode number in the FileId::Opaque the client holds
    trail,    \* ghost: the names that led there from the root
    base,     \* where the client's sequence of windows began
    got,      \* what the windows returned
    answer    \* the last call and its result

vars == <<vol, have, mount, node, trail, base, got, answer>>

-----------------------------------------------------------------------------
(* Decoding an inode.                                                      *)

FileType(mode) ==
    LET ifmt == mode \div 4096
        table == (1 :> "Fifo") @@ (2 :> "CharDevice") @@ (4 :> "Directory") @@ (6 :> "BlockDevice")
                 @@ (8 :> "Regular") @@ (10 :> "Symlink") @@ (12 :> "Socket") @@ (14 :> "Whiteout")
    IN  IF ifmt \in DOMAIN table THEN table[ifmt] ELSE "Other"

node_kind(ft) ==
    CASE ft = "Regular" -> "File" [] ft = "Directory" -> "Dir" [] ft = "Symlink" -> "Symlink"
      [] ft \in {"CharDevice", "BlockDevice"} -> "Device" [] OTHER -> "Other"

(* Endian::u32 and u64 of a whole word.                                    *)
Word(v, w) ==
    IF Len(w) = 1 THEN w[1]
    ELSE IF v.endian = "Little" THEN w[1] + Radix * w[2] ELSE Radix * w[1] + w[2]

(* The k-th pointer of a run of bytes; a word past its end reads as 0.     *)
WordAt(v, bs, k) ==
    LET p == PtrSize(v)
    IN  IF (k + 1) * p <= Len(bs) THEN Word(v, SubSeq(bs, k * p + 1, (k + 1) * p)) ELSE 0

(* How the operating system stores a pointer, the k-th of those at an      *)
(* offset of a run of bytes.                                               *)
Enc(v, w) ==
    IF PtrSize(v) = 1 THEN <<w>>
    ELSE IF v.endian = "Little" THEN <<w % Radix, w \div Radix>> ELSE <<w \div Radix, w % Radix>>
Stored(v, bs, offset, k, w) ==
    \A b \in 1..PtrSize(v) : bs[offset + k * PtrSize(v) + b] = Enc(v, w)[b]

(* How it stores a link target: in the pointer region when it is at most   *)
(* fs_maxsymlinklen long, else in blocks, which the direct pointers and at *)
(* most one pointer block reach.                                           *)
LinkStored(v, d) ==
    /\ Len(d.target) = d.size
    /\ d.inline <=> v.maxsymlinklen > 0 /\ d.size <= v.maxsymlinklen
    /\ d.inline => \A j \in 1..d.size : d.region[j] = d.target[j]
    /\ ~d.inline =>
          /\ d.size <= Len(v.bytes) /\ d.size <= Len(d.blocks) * v.bsize
          /\ \A k \in 0..(Len(d.blocks) - 1) :
                IF k < UFS_NDADDR THEN Stored(v, d.region, 0, k, d.blocks[k + 1])
                ELSE /\ k - UFS_NDADDR < v.bsize \div PtrSize(v)
                     /\ d.ib # 0 /\ d.ib + v.bsize <= Len(v.bytes)
                     /\ Stored(v, d.region, 0, UFS_NDADDR, d.ib)
                     /\ Stored(v, v.bytes, d.ib, k - UFS_NDADDR, d.blocks[k + 1])
          /\ \A j \in 0..(d.size - 1) :
                LET p == d.blocks[(j \div v.bsize) + 1] + (j % v.bsize)
                IN  p < Len(v.bytes) /\ v.bytes[p + 1] = d.target[j + 1]

ASSUME LinkAssumption ==
    \A v \in Volumes : \A i \in Ino :
        FileType(v.dinode[i].mode) = "Symlink" /\ v.maxsymlinklen <= RegionLen(v) =>
            LinkStored(v, v.dinode[i])

None == [some |-> FALSE]
Some(x) == [some |-> TRUE, value |-> x]

(* An inline target: a symlink whose di_size is at most fs_maxsymlinklen,  *)
(* cut to the pointer region.                                              *)
fast_symlinkStrict(v, d) ==
    IF FileType(d.mode) = "Symlink" /\ v.maxsymlinklen > 0 /\ d.size < v.maxsymlinklen
    THEN Some(SubSeq(d.region, 1, IF d.size < RegionLen(v) THEN d.size ELSE RegionLen(v)))
    ELSE None
fast_symlink(v, d) ==
    IF FileType(d.mode) = "Symlink" /\ v.maxsymlinklen > 0 /\ d.size <= v.maxsymlinklen
    THEN Some(SubSeq(d.region, 1, IF d.size < RegionLen(v) THEN d.size ELSE RegionLen(v)))
    ELSE None

parse_with_maxsymlink(v, d) ==
    [ file_type |-> FileType(d.mode), mode |-> d.mode, size |-> d.size,
      birthtime |-> IF v.version = "Ufs2" THEN Some(d.birthtime) ELSE None,
      direct    |-> [ k \in 0..(UFS_NDADDR - 1) |-> WordAt(v, d.region, k) ],
      indirect  |-> [ k \in 0..(UFS_NIADDR - 1) |-> WordAt(v, d.region, UFS_NDADDR + k) ],
      fast_symlink |-> fast_symlink(v, d) ]

Ok(x) == [ok |-> TRUE, value |-> x]
Err(e) == [ok |-> FALSE, error |-> e]

(* read_inode, with n bytes of the volume in memory.                       *)
read_inodeZeroFilled(v, n, i) ==
    IF i >= v.count THEN Err("InodeOutOfRange")
    ELSE IF v.dinode[i].pos >= n
    THEN Ok(parse_with_maxsymlink(v, [v.dinode[i] EXCEPT !.mode = 0, !.size = 0]))
    ELSE Ok(parse_with_maxsymlink(v, v.dinode[i]))
read_inode(v, n, i) ==
    IF i >= v.count THEN Err("InodeOutOfRange")
    ELSE IF v.dinode[i].pos >= n THEN Err("Truncated")
    ELSE Ok(parse_with_maxsymlink(v, v.dinode[i]))

(* What is in memory of the block at fragment a.                           *)
Held(v, n, a) ==
    IF a >= n THEN << >> ELSE SubSeq(v.bytes, a + 1, IF a + v.bsize < n THEN a + v.bsize ELSE n)

(* The file BlockTree reads: the inode's map over the bytes in memory.     *)
FileOf(v, n, inode) ==
    [ size |-> inode.size, bsize |-> v.bsize, nindir |-> v.bsize \div PtrSize(v), part_len |-> n,
      direct |-> inode.direct, indirect |-> inode.indirect,
      ptrs |-> [ a \in Addr \ {0} |->
                   [ k \in 1..(Len(Held(v, n, a)) \div PtrSize(v)) |-> WordAt(v, Held(v, n, a), k - 1) ] ],
      data |-> [ a \in Addr \ {0} |-> Held(v, n, a) ] ]

(* Byte j of the file, as FileStream promises it.                          *)
ContentByte(f, j) ==
    BlockBytes(f, resolve_block(f, j \div f.bsize, Fanout(f)), f.bsize)[(j % f.bsize) + 1]

read_inode_file(v, n, inode) ==
    LET f == FileOf(v, n, inode)
    IN  IF inode.size > n THEN Err("ImpossibleGeometry") ELSE Ok([ j \in 1..inode.size |-> ContentByte(f, j - 1) ])

read_file(v, n, i) ==
    LET r == read_inode(v, n, i) IN IF r.ok THEN read_inode_file(v, n, r.value) ELSE r

read_symlink_target(v, n, inode) ==
    IF inode.fast_symlink.some THEN Ok(inode.fast_symlink.value) ELSE read_inode_file(v, n, inode)

(* list_dir: the live slots whose head is in memory, whatever the kind of  *)
(* the inode; a name cut by the end of the memory is the part that is in.  *)
(* A listing keeps the slots' order and their positions.                   *)
Slots(v, n, i, live) ==
    LET s == v.slots[i]
    IN  [ k \in { j \in DOMAIN s : s[j].pos < n /\ (live => s[j].ino # 0) } |->
            [ino |-> s[k].ino, name |-> IF s[k].last < n THEN s[k].name ELSE s[k].short] ]
list_dirUnfiltered(v, n, i) ==
    LET r == read_inode(v, n, i) IN IF r.ok THEN Ok(Slots(v, n, i, FALSE)) ELSE r
list_dir(v, n, i) ==
    LET r == read_inode(v, n, i) IN IF r.ok THEN Ok(Slots(v, n, i, TRUE)) ELSE r

Find(es, name) ==
    LET hits == { k \in DOMAIN es : es[k].name = name }
    IN  IF hits = {} THEN None ELSE Some(es[CHOOSE k \in hits : \A j \in hits : k <= j].ino)

(* read_by_path: one component after the other, through directories only.  *)
Descend(v, n, cur, comp) ==
    LET es == list_dir(v, n, cur.value.value)
        hit == Find(es.value, comp)
    IN  IF ~cur.ok \/ ~cur.value.some \/ comp = Empty THEN cur
        ELSE IF read_inode(v, n, cur.value.value).value.file_type # "Directory" THEN Ok(None)
        ELSE IF ~hit.some THEN Ok(None)
        ELSE IF read_inode(v, n, hit.value).ok THEN Ok(hit) ELSE read_inode(v, n, hit.value)

(* Where the first j components lead from the root, for each j.            *)
PathRoot(v, n) ==
    LET root == read_inode(v, n, RootIno) IN IF root.ok THEN Ok(Some(RootIno)) ELSE root
Stages(v, n, path) ==
    LET at[j \in 0..Len(path)] ==
            IF j = 0 THEN PathRoot(v, n) ELSE Descend(v, n, at[j - 1], path[j])
    IN  at
read_by_path(v, n, path) == Stages(v, n, path)[Len(path)]

read_path_content(v, n, path) ==
    LET p == read_by_path(v, n, path)
        r == read_file(v, n, p.value.value)
    IN  IF ~p.ok \/ ~p.value.some THEN p ELSE IF r.ok THEN Ok(Some(r.value)) ELSE r

-----------------------------------------------------------------------------
(* The adapter's calls.                                                    *)

map_err(r) ==
    IF r.ok THEN r ELSE Err(IF r.error = "Truncated" THEN "OutOfRange" ELSE "Decode")

Unsupported == Err("Unsupported")

entry_kind(i) ==
    LET r == read_inode(vol, have, i) IN IF r.ok THEN node_kind(r.value.file_type) ELSE "Other"

Listing(i) ==
    LET r == map_err(list_dir(vol, have, i))
    IN  IF ~r.ok THEN r
        ELSE Ok([ k \in DOMAIN r.value |->
                   [name |-> r.value[k].name, id |-> r.value[k].ino,
                    kind |-> entry_kind(r.value[k].ino)] ])

FindLast(es, name) ==
    LET hits == { k \in DOMAIN es : es[k].name = name }
    IN  IF hits = {} THEN None ELSE Some(es[CHOOSE k \in hits : \A j \in hits : k >= j].ino)
LookupLast(i, name) ==
    LET r == map_err(list_dir(vol, have, i)) IN IF r.ok THEN Ok(FindLast(r.value, name)) ELSE r
LookupResult(i, name) ==
    LET r == map_err(list_dir(vol, have, i)) IN IF r.ok THEN Ok(Find(r.value, name)) ELSE r

MetaOf(v, n, i) ==
    LET r == map_err(read_inode(v, n, i))
    IN  IF ~r.ok THEN r
        ELSE Ok([ kind |-> node_kind(r.value.file_type), size |-> r.value.size, born |-> r.value.birthtime,
                  resident |-> IF r.value.fast_symlink.some
                               THEN Some(Len(r.value.fast_symlink.value)) ELSE None ])

(* extents: a run per mapped direct block, the last cut to di_size; each   *)
(* is kept with the number of the block it holds.                          *)
RunsFromHolesFree(inode) ==
    LET rank(k) == Cardinality({ j \in 0..(k - 1) : inode.direct[j] # 0 })
        left(k) == inode.size - rank(k) * vol.bsize
    IN  [ k \in { j \in 0..(UFS_NDADDR - 1) : inode.direct[j] # 0 /\ left(j) > 0 } |->
            [off |-> inode.direct[k], len |-> IF left(k) < vol.bsize THEN left(k) ELSE vol.bsize] ]
RunsOf(inode) ==
    LET left(k) == inode.size - k * vol.bsize
    IN  [ k \in { j \in 0..(UFS_NDADDR - 1) : inode.direct[j] # 0 /\ left(j) > 0 } |->
            [off |-> inode.direct[k], len |-> IF left(k) < vol.bsize THEN left(k) ELSE vol.bsize] ]

ExtentsOf(i) ==
    LET r == map_err(read_inode(vol, have, i)) IN IF r.ok THEN Ok(RunsOf(r.value)) ELSE r

WindowPastEnd(file, off, len) == SubSeq(file, off + 1, off + len - 1)
Window(file, off, len) ==
    IF off > Len(file) THEN << >>
    ELSE SubSeq(file, off + 1, IF off + len < Len(file) THEN off + len ELSE Len(file))

LinkOf(i, cap) ==
    LET r == map_err(read_inode(vol, have, i))
        t == map_err(read_symlink_target(vol, have, r.value))
    IN  IF ~r.ok THEN r
        ELSE IF r.value.file_type # "Symlink" THEN Ok(<< >>)
        ELSE IF t.ok THEN Ok(Window(t.value, 0, cap)) ELSE t

-----------------------------------------------------------------------------

Init ==
    /\ vol \in Volumes
    /\ have = 0 /\ mount = "closed"
    /\ node = RootIno /\ trail = << >> /\ base = 0 /\ got = << >>
    /\ answer = [call |-> "none"]

(* UfsFs::open: one read_at of the source, which may stop short; the image *)
(* is cut to what came.                                                    *)
Open(n) ==
    /\ mount = "closed"
    /\ have' = n
    /\ mount' = IF n >= vol.sb_end THEN "open" ELSE "failed"
    /\ UNCHANGED <<vol, node, trail, base, got, answer>>

(* The source's own error is passed on.                                    *)
OpenFails ==
    /\ mount = "closed"
    /\ mount' = "failed"
    /\ UNCHANGED <<vol, have, node, trail, base, got, answer>>

Answer(call, r) == answer' = [call |-> call, result |-> r]
Stay == UNCHANGED <<vol, have, mount, node, trail, base, got>>
Holds == mount = "open"
Fresh == Holds /\ base = 0 /\ got = << >>   \* bound: no other call amid a sequence of windows

(* ino_of refuses an identity of another domain, and require_default_stream *)
(* a named stream, before anything is read.                                *)
Refuse(call) == Fresh /\ Answer(call, Unsupported) /\ Stay

ReadDir == Fresh /\ Answer("read_dir", Listing(node)) /\ Stay
Meta == Fresh /\ Answer("meta", MetaOf(vol, have, node)) /\ Stay
Extents == Fresh /\ Answer("extents", ExtentsOf(node)) /\ Stay
ReadLink(cap) == Fresh /\ Answer("read_link", LinkOf(node, cap)) /\ Stay
Deleted == Fresh /\ Answer("deleted", Ok(<< >>)) /\ Stay

(* The client follows what it finds.                                       *)
Lookup(name) ==
    /\ Fresh
    /\ Len(trail) < MaxTrail
    /\ LET r == LookupResult(node, name)
       IN  /\ Answer("lookup", r)
           /\ IF r.ok /\ r.value.some
              THEN /\ node' = r.value.value /\ trail' = Append(trail, name)
                   /\ UNCHANGED <<vol, have, mount, base, got>>
              ELSE Stay

(* read_at just past what the client already has.                          *)
ReadAt(len) ==
    /\ Holds
    /\ LET r == map_err(read_file(vol, have, node))
           w == Window(r.value, base + Len(got), len)
       IN  /\ answer' = [call |-> "read_at", len |-> len,
                         result |-> IF r.ok THEN Ok(Len(w)) ELSE r]
           /\ got' = IF r.ok THEN got \o w ELSE got
    /\ UNCHANGED <<vol, have, mount, node, trail, base>>

(* The client begins a new sequence of windows somewhere.                  *)
Seek(o) ==
    /\ Fresh
    /\ base' = o
    /\ answer' = [call |-> "none"]
    /\ UNCHANGED <<vol, have, mount, node, trail, got>>

Next ==
    \/ \E n \in Deliveries : n <= Len(vol.bytes) /\ Open(n)
    \/ OpenFails
    \/ \E call \in {"foreign_id", "named_stream"} : Refuse(call)
    \/ ReadDir \/ Meta \/ Extents \/ Deleted
    \/ \E w \in Windows : ReadLink(w) \/ ReadAt(w) \/ Seek(w)
    \/ \E name \in Name : Lookup(name)

Spec == Init /\ [][Next]_vars

-----------------------------------------------------------------------------

(* Type correctness of the session; a client is never handed the identity  *)
(* of a free slot.                                                         *)
TypeOK ==
    /\ vol \in Volumes
    /\ have \in 0..Len(vol.bytes)
    /\ mount \in {"closed", "open", "failed"}
    /\ node \in Ino \ {0}
    /\ trail \in Seq(Name)
    /\ base \in Nat /\ got \in Seq(Byte)

Whole == Len(vol.bytes)
Dinode == vol.dinode[node]
Contents == read_file(vol, have, node)

(* A chain of lookups and the resolution of the same path agree: both      *)
(* reach the same inode, unless that inode itself cannot be read, or the   *)
(* chain went through something that is no directory, whose blocks lookup  *)
(* decodes as entries and read_by_path refuses to enter.  Slashes at the   *)
(* ends change nothing, and the content read by path is the inode's.       *)
ChainIsPath ==
    Holds =>
        LET path == <<Empty>> \o trail \o <<Empty>>
            p == read_by_path(vol, have, path)
        IN  \/ /\ p = Ok(Some(node))
               /\ read_path_content(vol, have, path) =
                    IF Contents.ok THEN Ok(Some(Contents.value)) ELSE Contents
            \/ ~p.ok /\ ~read_inode(vol, have, node).ok
            \/ p = Ok(None) /\ \E j \in 0..(Len(trail) - 1) :
                  LET q == read_by_path(vol, have, SubSeq(trail, 1, j))
                  IN  q.ok /\ q.value.some
                        /\ read_inode(vol, have, q.value.value).value.file_type # "Directory"

(* Windows read one after the other put the file together: what they gave  *)
(* is that stretch of the file, and one that came back short of its buffer *)
(* reached the end.                                                        *)
WindowsReassemble ==
    Holds /\ Contents.ok =>
        /\ \A j \in DOMAIN got : got[j] = Contents.value[base + j]
        /\ answer.call = "read_at" /\ answer.result.ok /\ answer.result.value < answer.len =>
              base + Len(got) >= Len(Contents.value)

(* A source that delivers less than it holds is never lied about: metadata *)
(* is that of the whole volume or an error, and a byte of content is the   *)
(* true one or a zero, even where the missing part held pointers.          *)
ShortSourceNeverLies ==
    Holds =>
        /\ answer.call = "meta" /\ answer.result.ok => answer.result = MetaOf(vol, Whole, node)
        /\ LET full == read_file(vol, Whole, node)
           IN  got # << >> => full.ok /\ \A j \in DOMAIN got : got[j] \in {0, full.value[base + j]}

ImageByte(p) == IF p < have THEN vol.bytes[p + 1] ELSE 0

(* The extents of a file are where read_at gets the mapped direct blocks   *)
(* from, each a whole block or what is left of the file, with holes left   *)
(* out; both take the pointers of an inline symlink for addresses too.     *)
ExtentsMatchContent ==
    Holds /\ answer.call = "extents" /\ answer.result.ok /\ Contents.ok =>
        LET inode == read_inode(vol, have, node).value
            runs == answer.result.value
        IN  /\ \A k \in 0..(UFS_NDADDR - 1) :
                  k \in DOMAIN runs <=> inode.direct[k] # 0 /\ k * vol.bsize < inode.size
            /\ \A k \in DOMAIN runs : runs[k].len = vol.bsize \/ k * vol.bsize + runs[k].len = inode.size
            /\ \A k \in DOMAIN runs : \A m \in 0..(runs[k].len - 1) :
                  /\ k * vol.bsize + m < inode.size
                  /\ Contents.value[k * vol.bsize + m + 1] = ImageByte(runs[k].off + m)

(* read_link gives the target the operating system stored, inline or in    *)
(* blocks, up to the cap, and meta calls it resident exactly when it is    *)
(* inline, wherever fs_maxsymlinklen is the bound the target was stored    *)
(* by and the whole volume is in memory.                                   *)
LinkIsTarget ==
    Holds /\ have = Whole /\ FileType(Dinode.mode) = "Symlink"
      /\ vol.maxsymlinklen <= RegionLen(vol) /\ read_inode(vol, have, node).ok =>
        /\ \A cap \in Windows : LinkOf(node, cap) = Ok(Window(Dinode.target, 0, cap))
        /\ answer.call = "meta" => answer.result.value.resident.some = Dinode.inline

(* read_dir, lookup and meta tell one story: a listed name is found, the   *)
(* first entry of that name decides, and its kind is the one metadata      *)
(* gives, or Other where the inode cannot be read.                         *)
ListingAgrees ==
    Holds /\ answer.call = "read_dir" /\ answer.result.ok =>
        LET es == answer.result.value
        IN  \A k \in DOMAIN es :
              LET m == MetaOf(vol, have, es[k].id)
              IN  /\ es[k].kind = IF m.ok THEN m.value.kind ELSE "Other"
                  /\ \E j \in DOMAIN es :
                        /\ j <= k /\ es[j].name = es[k].name
                        /\ LookupResult(node, es[k].name) = Ok(Some(es[j].id))
                        /\ \A h \in DOMAIN es : h < j => es[h].name # es[k].name

(* meta: "A fast (inline) symlink stores its target in the block-pointer   *)
(* bytes of the dinode -> resident; every other node's data lives out in   *)
(* blocks": a resident node has no data runs to report.                    *)
DocResidentHasNoRuns ==
    Holds /\ answer.call = "extents" /\ answer.result.ok
          /\ MetaOf(vol, have, node).value.resident.some => DOMAIN answer.result.value = {}
=============================================================================
