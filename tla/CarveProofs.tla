---------------------------- MODULE CarveProofs -----------------------------
(***************************************************************************)
(* recover_deleted over the life of a file system, for every number of     *)
(* files, blocks, names and groups and every damage: what is carved is     *)
(* never live and never older than its inode's last file, and what is      *)
(* intact is carved.                                                       *)
(***************************************************************************)
EXTENDS Carve, CommonLemmas, SequenceTheorems

(* The merge of a slot into the one before it: the other slots stay, in    *)
(* their order.                                                            *)
LEMMA RemoveAtFacts ==
    ASSUME NEW S, NEW q \in Seq(S), NEW k \in DOMAIN q
    PROVE  /\ RemoveAt(q, k) \in Seq(S)
           /\ DOMAIN RemoveAt(q, k) = 1..(Len(q) - 1)
           /\ \A i \in 1..(Len(q) - 1) :
                 RemoveAt(q, k)[i] = IF i < k THEN q[i] ELSE q[i + 1]
<1> DEFINE a == SubSeq(q, 1, k - 1)
           b == SubSeq(q, k + 1, Len(q))
<1>1. k \in 1..Len(q) /\ Len(q) \in Nat
  OBVIOUS
<1>2. a \in Seq(S) /\ Len(a) = k - 1 /\ \A i \in 1..(k - 1) : a[i] = q[i]
  BY <1>1
<1>3. /\ b \in Seq(S) /\ Len(b) = Len(q) - k
      /\ \A i \in 1..(Len(q) - k) : b[i] = q[k + i]
  BY <1>1
<1> HIDE DEF a, b
<1>4. /\ a \o b \in Seq(S) /\ Len(a \o b) = Len(q) - 1
      /\ \A i \in 1..(Len(q) - 1) : (a \o b)[i] = IF i < k THEN a[i] ELSE b[i - (k - 1)]
  <2>1. /\ a \o b \in Seq(S) /\ Len(a \o b) = Len(a) + Len(b)
        /\ \A i \in 1..(Len(a) + Len(b)) : (a \o b)[i] = IF i <= Len(a) THEN a[i] ELSE b[i - Len(a)]
    BY <1>2, <1>3, ConcatProperties
  <2>2. Len(a) + Len(b) = Len(q) - 1 /\ \A i \in 1..(Len(q) - 1) : i <= k - 1 <=> i < k
    BY <1>1, <1>2, <1>3
  <2> QED BY <1>2, <2>1, <2>2
<1>5. ASSUME NEW i \in 1..(Len(q) - 1)
      PROVE  (a \o b)[i] = IF i < k THEN q[i] ELSE q[i + 1]
  <2>1. CASE i < k
    BY <1>1, <1>2, <1>4, <2>1
  <2>2. CASE ~(i < k)
    <3>1. i - (k - 1) \in 1..(Len(q) - k) /\ k + (i - (k - 1)) = i + 1
      BY <1>1, <2>2
    <3> QED BY <1>3, <1>4, <2>2, <3>1
  <2> QED BY <2>1, <2>2
<1>6. DOMAIN (a \o b) = 1..(Len(q) - 1)
  BY <1>1, <1>4
<1> QED BY <1>4, <1>5, <1>6 DEF RemoveAt, a, b

-----------------------------------------------------------------------------

(* The analyzer only reads the disk.                                       *)
LEMMA AnalyzerReads ==
    ASSUME [Next]_vars, phase # "live"
    PROVE  /\ used' = used /\ dinode' = dinode /\ content' = content /\ slots' = slots
           /\ gen' = gen /\ wrote' = wrote /\ phase' # "live"
           /\ phase # "live" => lost' = lost
<1>1. CASE Recover
  BY <1>1 DEF Recover, CollectNames, SkipGroup, EnterGroup, CarveFile, PassInode, LeaveGroup,
              EndSweep, disk
<1>2. CASE UNCHANGED vars
  BY <1>2 DEF vars, disk, analyzer
<1> QED BY <1>1, <1>2 DEF Next, Create, Unlink, Image

(* What the operating system does keeps the disk consistent: the slot a    *)
(* created file gets, zeroed or fresh, is the only one of its inode, and   *)
(* the block it gets is overwritten by the latest content.                 *)
LEMMA DiskStep == CarveInv /\ [Next]_vars => DiskOK' /\ SlotsNameUsed' /\ BytesNeverOlder'
<1> SUFFICES ASSUME CarveInv, [Next]_vars
             PROVE  DiskOK' /\ SlotsNameUsed' /\ BytesNeverOlder'
  OBVIOUS
<1>0. DiskOK /\ SlotsNameUsed /\ BytesNeverOlder
  BY DEF CarveInv
<1>1. 0 \notin Ino /\ 0 \notin Block /\ None \notin Nat /\ Allocated \subseteq Ino
  BY CarveAssumption DEF Ino
<1> DEFINE Slot == [ino : Ino \cup {0}, name : FileName]
<1> USE DEF Slot
<1> HIDE DEF Ino
<1>2. CASE UNCHANGED disk
  BY <1>0, <1>2 DEF disk, DiskOK, SlotsNameUsed, BytesNeverOlder
<1>3. ASSUME NEW i \in Allocated, NEW n \in FileName, NEW b \in Block, Create(i, n, b)
      PROVE  DiskOK' /\ SlotsNameUsed' /\ BytesNeverOlder'
  <2>1. /\ i \in Ino /\ i \notin used /\ gen' = gen + 1 /\ used' = used \cup {i}
        /\ dinode' = [dinode EXCEPT ![i] = [regular |-> TRUE, size |-> 1, db0 |-> b]]
        /\ content' = [content EXCEPT ![b] = gen + 1]
        /\ wrote' = [wrote EXCEPT ![i] = gen + 1]
        /\ gen \in Nat /\ gen + 1 \in Nat
    BY <1>0, <1>1, <1>3 DEF Create, DiskOK
  <2> DEFINE e == [ino |-> i, name |-> n]
  <2>2. e \in Slot /\ e.ino = i /\ i # 0
    BY <1>1, <2>1
  <2> HIDE DEF e
  <2>3. slots \in Seq(Slot) /\ \A k \in DOMAIN slots : slots[k].ino # i
    BY <1>0, <1>1, <2>1 DEF DiskOK, SlotsNameUsed
  <2>4. slots' \in Seq(Slot) /\ SlotsNameUsed'
    <3>1. CASE \E k \in DOMAIN slots : slots[k].ino = 0 /\ slots' = [slots EXCEPT ![k] = e]
      <4>1. PICK k \in DOMAIN slots : slots[k].ino = 0 /\ slots' = [slots EXCEPT ![k] = e]
        BY <3>1
      <4>2. /\ slots' \in Seq(Slot) /\ DOMAIN slots' = DOMAIN slots /\ slots'[k] = e
            /\ \A l \in DOMAIN slots : l # k => slots'[l] = slots[l]
        BY <2>2, <2>3, <4>1
      <4> QED BY <1>0, <2>1, <2>2, <2>3, <4>2 DEF SlotsNameUsed
    <3>2. CASE slots' = Append(slots, e)
      <4>1. /\ slots' \in Seq(Slot) /\ Len(slots) \in Nat /\ DOMAIN slots = 1..Len(slots)
            /\ DOMAIN slots' = 1..(Len(slots) + 1) /\ slots'[Len(slots) + 1] = e
            /\ \A l \in DOMAIN slots : slots'[l] = slots[l]
        BY <2>2, <2>3, <3>2
      <4>2. \A l \in DOMAIN slots' : l \in DOMAIN slots \/ l = Len(slots) + 1
        BY <4>1
      <4> QED BY <1>0, <2>1, <2>2, <2>3, <4>1, <4>2 DEF SlotsNameUsed
    <3> QED BY <1>3, <3>1, <3>2 DEF Create, e
  <2>5. DiskOK'
    <3>1. dinode' \in [Ino -> [regular : BOOLEAN, size : Nat, db0 : Block \cup {0}]]
      BY <1>0, <2>1 DEF DiskOK
    <3>2. content' \in [Block -> Nat \cup {None}] /\ wrote' \in [Ino -> Nat \cup {None}]
      BY <1>0, <2>1 DEF DiskOK
    <3> QED BY <1>0, <2>1, <2>4, <3>1, <3>2 DEF DiskOK
  <2>6. BytesNeverOlder'
    <3>1. ASSUME NEW x \in Ino, wrote'[x] \in Nat PROVE wrote'[x] <= gen'
      BY <1>0, <2>1, <3>1 DEF BytesNeverOlder, DiskOK
    <3>2. ASSUME NEW x \in Ino, dinode'[x].regular
          PROVE  /\ dinode'[x].size # 0 /\ dinode'[x].db0 \in Block /\ wrote'[x] \in Nat
                 /\ content'[dinode'[x].db0] \in Nat /\ content'[dinode'[x].db0] >= wrote'[x]
      <4>1. CASE x = i
        <5>1. /\ dinode'[x] = [regular |-> TRUE, size |-> 1, db0 |-> b] /\ wrote'[x] = gen + 1
              /\ content'[b] = gen + 1
          BY <1>0, <2>1, <4>1 DEF DiskOK
        <5> QED BY <2>1, <5>1
      <4>2. CASE x # i
        <5>1. dinode'[x] = dinode[x] /\ wrote'[x] = wrote[x]
          BY <1>0, <2>1, <4>2 DEF DiskOK
        <5>2. /\ dinode[x].size # 0 /\ dinode[x].db0 \in Block /\ wrote[x] \in Nat
              /\ content[dinode[x].db0] \in Nat /\ content[dinode[x].db0] >= wrote[x]
              /\ wrote[x] <= gen
          BY <1>0, <3>2, <5>1 DEF BytesNeverOlder
        <5>3. content'[dinode[x].db0] \in {content[dinode[x].db0], gen + 1}
          BY <1>0, <2>1, <5>2 DEF DiskOK
        <5> QED BY <2>1, <5>1, <5>2, <5>3
      <4> QED BY <4>1, <4>2
    <3> QED BY <3>1, <3>2 DEF BytesNeverOlder
  <2> QED BY <2>4, <2>5, <2>6
<1>4. ASSUME NEW k \in DOMAIN slots, Unlink(k)
      PROVE  DiskOK' /\ SlotsNameUsed' /\ BytesNeverOlder'
  <2> DEFINE i == slots[k].ino
  <2>1. /\ i # 0 /\ used' = used \ {i}
        /\ dinode' \in {dinode, [dinode EXCEPT ![i] = Blank]}
        /\ content' = content /\ gen' = gen /\ wrote' = wrote
    BY <1>4 DEF Unlink
  <2>2. slots \in Seq(Slot) /\ slots[k] \in Slot /\ i \in Ino
    <3>1. slots \in Seq(Slot)
      BY <1>0 DEF DiskOK
    <3>2. slots[k] \in Slot
      <4> HIDE DEF Slot
      <4> QED BY <3>1
    <3> QED BY <2>1, <3>1, <3>2
  <2>3. slots' \in Seq(Slot) /\ SlotsNameUsed'
    <3>0. \A l \in DOMAIN slots : slots[l].ino # 0 /\ l # k => slots[l].ino \in used /\ slots[l].ino # i
      BY <1>0, <2>1 DEF SlotsNameUsed
    <3>1. CASE slots' = [slots EXCEPT ![k].ino = 0]
      <4>1. [slots[k] EXCEPT !.ino = 0] \in Slot /\ [slots[k] EXCEPT !.ino = 0].ino = 0
        BY <2>2
      <4>2. /\ slots' \in Seq(Slot) /\ DOMAIN slots' = DOMAIN slots /\ slots'[k].ino = 0
            /\ \A l \in DOMAIN slots : l # k => slots'[l] = slots[l]
        BY <2>2, <3>1, <4>1
      <4> QED BY <1>0, <2>1, <3>0, <4>2 DEF SlotsNameUsed
    <3>2. CASE slots' = RemoveAt(slots, k)
      <4>1. /\ slots' \in Seq(Slot) /\ DOMAIN slots' = 1..(Len(slots) - 1)
            /\ \A l \in 1..(Len(slots) - 1) : slots'[l] = IF l < k THEN slots[l] ELSE slots[l + 1]
        BY <2>2, <3>2, RemoveAtFacts
      <4>2. Len(slots) \in Nat /\ DOMAIN slots = 1..Len(slots)
        BY <2>2
      <4> DEFINE At(l) == IF l < k THEN l ELSE l + 1
      <4>3. ASSUME NEW l \in DOMAIN slots'
            PROVE  At(l) \in DOMAIN slots /\ At(l) # k /\ slots'[l] = slots[At(l)]
        BY <4>1, <4>2
      <4>4. \A l, m \in DOMAIN slots' : At(l) = At(m) => l = m
        BY <4>1, <4>2
      <4> HIDE DEF At
      <4>5. ASSUME NEW l \in DOMAIN slots', NEW m \in DOMAIN slots', slots'[l].ino # 0
            PROVE  slots'[l].ino \in used' /\ (slots'[l].ino = slots'[m].ino => l = m)
        <5>1. slots[At(l)].ino \in used /\ slots[At(l)].ino # i
          BY <3>0, <4>3, <4>5
        <5>2. slots[At(l)].ino = slots[At(m)].ino => At(l) = At(m)
          BY <1>0, <4>3, <4>5 DEF SlotsNameUsed
        <5> QED BY <2>1, <4>3, <4>4, <5>1, <5>2
      <4> QED BY <4>1, <4>5 DEF SlotsNameUsed
    <3> QED BY <1>4, <3>1, <3>2 DEF Unlink
  <2> HIDE DEF i
  <2>4. dinode' \in [Ino -> [regular : BOOLEAN, size : Nat, db0 : Block \cup {0}]]
        /\ \A x \in Ino : dinode'[x].regular => dinode'[x] = dinode[x]
    <3>1. Blank \in [regular : BOOLEAN, size : Nat, db0 : Block \cup {0}] /\ ~Blank.regular
      BY DEF Blank
    <3> QED BY <1>0, <2>1, <2>2, <3>1 DEF DiskOK
  <2>5. DiskOK'
    BY <1>0, <2>1, <2>3, <2>4 DEF DiskOK
  <2>6. BytesNeverOlder'
    BY <1>0, <2>1, <2>4 DEF BytesNeverOlder
  <2> QED BY <2>3, <2>5, <2>6
<1>5. CASE Recover
  BY <1>2, <1>5 DEF Recover, CollectNames, SkipGroup, EnterGroup, CarveFile, PassInode, LeaveGroup,
                    EndSweep
<1> QED BY <1>2, <1>3, <1>4, <1>5 DEF Next, Image, vars

-----------------------------------------------------------------------------

LEMMA PositionStep == CarveInv /\ [Next]_vars => SweepPosition'
<1> SUFFICES ASSUME CarveInv, [Next]_vars PROVE SweepPosition'
  OBVIOUS
<1>1. SweepPosition /\ Ipg \in Nat \ {0} /\ Ncg \in Nat
  BY CarveAssumption DEF CarveInv
<1>2. CASE UNCHANGED analyzer
  BY <1>1, <1>2 DEF analyzer, SweepPosition
<1>3. ASSUME NEW g, NEW x, Image(g, x) PROVE SweepPosition'
  BY <1>1, <1>3 DEF Image, SweepPosition
<1>4. CASE CollectNames
  BY <1>1, <1>4 DEF CollectNames, SweepPosition
<1>5. CASE SkipGroup
  BY <1>1, <1>5 DEF SkipGroup, SweepPosition
<1>6. CASE EnterGroup
  BY <1>1, <1>6 DEF EnterGroup, SweepPosition
<1>7. CASE CarveFile \/ PassInode
  BY <1>1, <1>7 DEF CarveFile, PassInode, SweepPosition
<1>8. CASE LeaveGroup
  BY <1>1, <1>8 DEF LeaveGroup, SweepPosition
<1>9. CASE EndSweep
  BY <1>1, <1>9 DEF EndSweep, SweepPosition
<1> QED BY <1>2, <1>3, <1>4, <1>5, <1>6, <1>7, <1>8, <1>9
        DEF Next, Recover, Create, Unlink, vars

(* The inode under the sweep is carved exactly when it is a candidate.     *)
LEMMA CandidateExact ==
    ASSUME SweepPosition, phase = "inode", within < Ipg
    PROVE  /\ ino \in Nat /\ Frontier = ino
           /\ IsCandidate <=> ino \in Candidates
<1>1. /\ Ipg \in Nat \ {0} /\ Ncg \in Nat /\ cg \in Nat /\ within \in 0..(Ipg - 1)
      /\ cg \notin lost.groups /\ RootIno \in Nat
  BY CarveAssumption DEF SweepPosition
<1>2. ino \in Nat /\ ino \div Ipg = cg /\ Frontier = ino
  BY <1>1, PositionOf DEF ino, Frontier
<1>3. ino \in Ino <=> ino >= RootIno + 1 /\ ino < Ipg * Ncg
  BY <1>1, <1>2 DEF Ino
<1> HIDE DEF ino, Ino
<1> QED BY <1>1, <1>2, <1>3 DEF IsCandidate, Candidates

LEMMA CarvedStep == CarveInv /\ [Next]_vars => CarvedSoFar'
<1> SUFFICES ASSUME CarveInv, [Next]_vars PROVE CarvedSoFar'
  OBVIOUS
<1> DEFINE Before(n) == { i \in Candidates : i < n }
           Inodes(q) == { f.inode : f \in ToSet(q) }
           Rises(q) == \A j, k \in DOMAIN q : j < k => q[j].inode < q[k].inode
<1>0. /\ SweepPosition /\ Ipg \in Nat \ {0} /\ Ncg \in Nat /\ cg \in Nat /\ within \in Nat
      /\ Ino \subseteq Nat /\ Candidates \subseteq Ino /\ RootIno \in Nat
  BY CarveAssumption DEF CarveInv, SweepPosition, Ino, Candidates
<1>1. /\ files \in Seq(ToSet(files)) /\ Inodes(files) = Before(Frontier) /\ Rises(files)
      /\ \A f \in ToSet(files) : f.content = content[dinode[f.inode].db0]
  BY DEF CarveInv, CarvedSoFar
<1>2. CASE phase = "live"
  <2>1. files' = << >> /\ cg' = 0 /\ phase' \in {"live", "names"}
    BY <1>0, <1>2 DEF Next, Create, Unlink, Image, Recover, CollectNames, SkipGroup, EnterGroup,
                      CarveFile, PassInode, LeaveGroup, EndSweep, vars, analyzer, SweepPosition
  <2>2. Frontier' = 0
    BY <1>0, <2>1 DEF Frontier
  <2>3. ASSUME NEW i \in Candidates' PROVE ~(i < 0)
    <3>1. i \in Nat
      BY <1>0 DEF Candidates
    <3> QED BY <3>1
  <2>4. ToSet(files') = {} /\ files' \in Seq(ToSet(files')) /\ DOMAIN files' = {}
    BY <2>1 DEF ToSet
  <2> QED BY <2>2, <2>3, <2>4 DEF CarvedSoFar
<1>3. CASE phase # "live"
  <2>1. used' = used /\ dinode' = dinode /\ content' = content /\ lost' = lost
    BY <1>3, AnalyzerReads
  <2>2. Candidates' = Candidates
    BY <2>1 DEF Candidates
  <2>3. SUFFICES /\ files' \in Seq(ToSet(files')) /\ Inodes(files') = Before(Frontier')
                 /\ Rises(files')
                 /\ \A f \in ToSet(files') : f.content = content[dinode[f.inode].db0]
    BY <2>1, <2>2 DEF CarvedSoFar
  <2>4. CASE files' = files /\ Before(Frontier') = Before(Frontier)
    BY <1>1, <2>4
  <2> HIDE DEF Inodes, Rises
  <2>5. CASE CollectNames \/ EnterGroup \/ EndSweep \/ UNCHANGED vars
    <3>1. files' = files /\ Frontier' = Frontier
      BY <1>0, <2>5 DEF CollectNames, EnterGroup, EndSweep, vars, analyzer, Frontier
    <3> QED BY <2>4, <3>1
  <2>6. CASE LeaveGroup
    <3>1. within = Ipg /\ phase = "inode" /\ phase' = "group" /\ cg' = cg + 1 /\ files' = files
      BY <1>0, <2>6 DEF LeaveGroup, SweepPosition
    <3>2. Frontier' = Frontier
      BY <1>0, <3>1 DEF Frontier
    <3> QED BY <2>4, <3>1, <3>2
  <2>7. CASE SkipGroup
    <3>1. phase = "group" /\ phase' = "group" /\ cg' = cg + 1 /\ files' = files
          /\ cg \in lost.groups
      BY <2>7 DEF SkipGroup
    <3>2. Frontier = cg * Ipg /\ Frontier' = (cg + 1) * Ipg
      BY <1>0, <3>1 DEF Frontier
    <3>3. ASSUME NEW i \in Candidates PROVE i < (cg + 1) * Ipg <=> i < cg * Ipg
      <4>1. i \in Nat /\ i \div Ipg # cg /\ cg + 1 \in Nat
        BY <1>0, <3>1 DEF Candidates
      <4>2. /\ i \div Ipg \in Nat
            /\ i < cg * Ipg <=> i \div Ipg < cg
            /\ i < (cg + 1) * Ipg <=> i \div Ipg < cg + 1
        BY <1>0, <4>1, GroupRange, NumberOf
      <4> QED BY <1>0, <4>1, <4>2
    <3> QED BY <2>4, <3>1, <3>2, <3>3
  <2>8. CASE CarveFile \/ PassInode
    <3>1. /\ phase = "inode" /\ phase' = "inode" /\ cg' = cg /\ within' = within + 1
          /\ within < Ipg
      BY <2>8 DEF CarveFile, PassInode
    <3>2. Frontier = ino /\ ino \in Nat /\ (IsCandidate <=> ino \in Candidates)
      BY <1>0, <3>1, CandidateExact
    <3>3. Frontier' = ino + 1
      BY <1>0, <3>1 DEF Frontier, ino
    <3> HIDE DEF ino
    <3>4. Before(ino + 1) = Before(ino) \cup (Candidates \cap {ino})
      <4>1. ASSUME NEW i \in Candidates PROVE i < ino + 1 <=> i < ino \/ i = ino
        <5>1. i \in Nat
          BY <1>0
        <5> QED BY <3>2, <5>1
      <4> QED BY <3>2, <4>1
    <3>5. CASE PassInode
      <4>1. files' = files /\ ino \notin Candidates
        BY <3>2, <3>5 DEF PassInode
      <4>2. Before(Frontier') = Before(Frontier)
        BY <3>2, <3>3, <3>4, <4>1
      <4> QED BY <2>4, <4>1, <4>2
    <3>6. CASE CarveFile
      <4> DEFINE e == [inode |-> ino, name |-> PairedName, content |-> content[dinode[ino].db0]]
                 T == ToSet(files) \cup {e}
      <4>1. files' = Append(files, e) /\ ino \in Candidates
        BY <3>2, <3>6 DEF CarveFile
      <4>2. e.inode = ino /\ e.content = content[dinode[e.inode].db0]
        OBVIOUS
      <4> HIDE DEF e
      <4>3. files \in Seq(T) /\ e \in T
        BY <1>1, SeqMonotonic
      <4>4. files' \in Seq(T) /\ ToSet(files') = T
        <5> HIDE DEF T
        <5>1. files' \in Seq(T) /\ ToSet(files') = ToSet(files) \cup {e}
          BY <4>1, <4>3, PushFacts
        <5> QED BY <5>1 DEF T
      <4>5. Inodes(files') = Inodes(files) \cup {ino}
        BY <4>2, <4>4 DEF Inodes
      <4>6. Inodes(files') = Before(Frontier')
        BY <1>1, <3>2, <3>3, <3>4, <4>1, <4>5
      <4>7. Rises(files')
        <5>1. /\ Len(files) \in Nat /\ DOMAIN files = 1..Len(files)
              /\ DOMAIN files' = 1..(Len(files) + 1) /\ files'[Len(files) + 1] = e
              /\ \A k \in 1..Len(files) : files'[k] = files[k]
          BY <1>1, <4>1
        <5>2. ASSUME NEW k \in DOMAIN files PROVE files[k].inode < ino
          <6>1. files[k].inode \in Before(Frontier)
            BY <1>1 DEF Inodes, ToSet
          <6> QED BY <3>2, <6>1
        <5> QED BY <1>1, <4>2, <5>1, <5>2 DEF Rises
      <4> QED BY <1>1, <4>2, <4>4, <4>6, <4>7
    <3> QED BY <2>8, <3>5, <3>6
  <2> QED BY <1>3, <2>5, <2>6, <2>7, <2>8 DEF Next, Create, Unlink, Image, Recover
<1> QED BY <1>2, <1>3

(* Every reachable state satisfies CarveInv.                               *)
THEOREM CarveInvariant == Spec => []CarveInv
<1>1. Init => CarveInv
  <2> SUFFICES ASSUME Init PROVE CarveInv
    OBVIOUS
  <2>1. DiskOK /\ SlotsNameUsed
    BY DEF Init, DiskOK, SlotsNameUsed, Blank
  <2>2. BytesNeverOlder
    BY CarveAssumption DEF Init, BytesNeverOlder, Blank
  <2>3. SweepPosition
    BY CarveAssumption DEF Init, SweepPosition
  <2>4. CarvedSoFar
    <3>1. files = << >> /\ Frontier = 0
      BY CarveAssumption DEF Init, Frontier
    <3>2. ToSet(files) = {} /\ files \in Seq(ToSet(files)) /\ DOMAIN files = {}
      BY <3>1 DEF ToSet
    <3>3. ASSUME NEW i \in Candidates PROVE ~(i < 0)
      BY CarveAssumption DEF Candidates, Ino
    <3> QED BY <3>1, <3>2, <3>3 DEF CarvedSoFar
  <2> QED BY <2>1, <2>2, <2>3, <2>4 DEF CarveInv
<1>2. CarveInv /\ [Next]_vars => CarveInv'
  BY DiskStep, PositionStep, CarvedStep DEF CarveInv
<1> QED BY <1>1, <1>2, PTL DEF Spec

(* A carved file's inode is a candidate, and its bytes are where its block *)
(* pointer leads.                                                          *)
LEMMA CarvedFacts ==
    ASSUME CarveInv, NEW j \in DOMAIN files
    PROVE  /\ files[j].inode \in Candidates
           /\ files[j].content = content[dinode[files[j].inode].db0]
<1>1. files[j] \in ToSet(files)
  BY DEF ToSet
<1> QED BY <1>1 DEF CarveInv, CarvedSoFar

(* No live file is carved and no inode twice, whatever was created,        *)
(* unlinked and re-created before the disk was imaged.                     *)
THEOREM LiveFilesAreSafe == Spec => []NoLiveFileCarved
<1>1. CarveInv => NoLiveFileCarved
  <2> SUFFICES ASSUME CarveInv PROVE NoLiveFileCarved
    OBVIOUS
  <2>1. ASSUME NEW k \in DOMAIN slots, NEW j \in DOMAIN files, slots[k].ino # 0
        PROVE  slots[k].ino # files[j].inode
    <3>1. slots[k].ino \in used
      BY <2>1 DEF CarveInv, SlotsNameUsed
    <3>2. files[j].inode \notin used
      BY CarvedFacts DEF Candidates
    <3> QED BY <3>1, <3>2
  <2>2. \A j, k \in DOMAIN files : j < k => files[j].inode < files[k].inode
    BY DEF CarveInv, CarvedSoFar
  <2> QED BY <2>1, <2>2 DEF NoLiveFileCarved
<1> QED BY <1>1, CarveInvariant, PTL

(* A carved content is its inode's last file's or a later one's.           *)
THEOREM ContentIsNeverOlder == Spec => []CarvedContentNeverOlder
<1>1. CarveInv => CarvedContentNeverOlder
  <2> SUFFICES ASSUME CarveInv, NEW j \in DOMAIN files
               PROVE  files[j].content # None /\ files[j].content >= wrote[files[j].inode]
    BY DEF CarvedContentNeverOlder
  <2>1. files[j].inode \in Ino /\ dinode[files[j].inode].regular
    BY CarvedFacts DEF Candidates
  <2>2. /\ content[dinode[files[j].inode].db0] \in Nat
        /\ content[dinode[files[j].inode].db0] >= wrote[files[j].inode]
    BY <2>1 DEF CarveInv, BytesNeverOlder
  <2> QED BY <2>2, CarvedFacts, CarveAssumption
<1> QED BY <1>1, CarveInvariant, PTL

(* Every deleted file whose dinode and block still are what the deletion   *)
(* left, where the image can be read, is recovered.                        *)
THEOREM IntactResidue == Spec => []IntactResidueIsRecovered
<1>1. CarveInv => IntactResidueIsRecovered
  <2> SUFFICES ASSUME CarveInv, phase = "end", NEW i \in Ino,
                      i \notin used, i \notin lost.inodes, (i \div Ipg) \notin lost.groups,
                      dinode[i].regular, content[dinode[i].db0] = wrote[i]
               PROVE  \E j \in DOMAIN files : files[j].inode = i /\ files[j].content = wrote[i]
    BY DEF IntactResidueIsRecovered
  <2>1. i \in Candidates
    BY CarveAssumption DEF CarveInv, BytesNeverOlder, Candidates
  <2>2. i < Frontier
    <3>1. Frontier = Ipg * Ncg
      BY CarveAssumption DEF CarveInv, SweepPosition, Frontier
    <3> QED BY <3>1, CarveAssumption DEF Ino
  <2>3. PICK f \in ToSet(files) : f.inode = i
    BY <2>1, <2>2 DEF CarveInv, CarvedSoFar
  <2>4. f.content = wrote[i]
    BY <2>3 DEF CarveInv, CarvedSoFar
  <2> QED BY <2>3, <2>4 DEF ToSet
<1> QED BY <1>1, CarveInvariant, PTL
=============================================================================
