------------------------- MODULE DeletedWalkProofs -------------------------
(***************************************************************************)
(* The theorems of DeletedWalk, for every set of inode numbers, every set  *)
(* of images and every budget.  CollectInv is the inductive invariant; its *)
(* central notion is Scanned, the slots the walk has dealt with, which     *)
(* grows by one slot per trip round the for loop and by nothing else.      *)
(***************************************************************************)
EXTENDS DeletedWalk, CommonLemmas, FiniteSetTheorems, TLAPS

(* What an image is: its listings are total over Ino.                      *)
LEMMA ListingFacts ==
    ASSUME NEW img, IsImage(img), NEW d \in Ino
    PROVE  /\ Entries(img, d) \in Seq(DirEntry)
           /\ Len(Entries(img, d)) \in Nat
           /\ DOMAIN Entries(img, d) = 1..Len(Entries(img, d))
           /\ ~img.listing[d].ok => Entries(img, d) = << >>
<1>1. Entries(img, d) \in Seq(DirEntry) /\ (~img.listing[d].ok => Entries(img, d) = << >>)
  BY DEF IsImage, Listing, Entries
<1> QED BY <1>1

(* The entry under the cursor of the for loop.                             *)
LEMMA CurrentFacts ==
    ASSUME CollectTypeOK, AtSlot
    PROVE  /\ CurrentSlot \in DirEntry
           /\ didx \in DOMAIN Entries(image, dir_ino)
           /\ CurrentSlot = SlotAt(image, <<dir_ino, didx>>)
           /\ Names(CurrentSlot) => CurrentSlot.ino \in Ino
           /\ IsResidual(CurrentSlot) =>
                 Residue(CurrentSlot) \in (Name \cup {"lossy"}) \X {0}
<1>1. /\ Entries(image, dir_ino) \in Seq(DirEntry)
      /\ DOMAIN Entries(image, dir_ino) = 1..Len(Entries(image, dir_ino))
      /\ Len(Entries(image, dir_ino)) \in Nat
  BY ListingFacts DEF CollectTypeOK
<1>2. didx \in DOMAIN Entries(image, dir_ino)
  BY <1>1 DEF CollectTypeOK, AtSlot
<1>3. CurrentSlot \in DirEntry
  BY <1>1, <1>2 DEF CurrentSlot
<1>4. CurrentSlot = SlotAt(image, <<dir_ino, didx>>)
  BY DEF CurrentSlot, SlotAt
<1>5. Names(CurrentSlot) => CurrentSlot.ino \in Ino
  BY <1>3 DEF Names, Deleted, DirEntry
<1>6. IsResidual(CurrentSlot) => Residue(CurrentSlot) \in (Name \cup {"lossy"}) \X {0}
  BY <1>3 DEF IsResidual, Residue, Deleted, DirEntry, decode_name
<1> QED BY <1>2, <1>3, <1>4, <1>5, <1>6

(* The partition is borrowed immutably: no step writes it.                 *)
LEMMA ImageIsFixed == [CollectNext]_collectVars => image' = image
  BY DEF CollectNext, CollectWalk, CollectTerminating,
         CollectDrained, CollectSpent, PopVisited, PopNewUnlistable,
         PopNew, Collect, EnterDir, SkipEntry, SlotsEnd, AdvanceSlot, collectVars

(* Type correctness is preserved by every step of the walk.                *)
LEMMA TypeStep == CollectTypeOK /\ [CollectNext]_collectVars => CollectTypeOK'
<1> SUFFICES ASSUME CollectTypeOK, [CollectNext]_collectVars PROVE CollectTypeOK'
  OBVIOUS
<1>0. /\ IsImage(image) /\ dqueue \in Seq(Ino) /\ visited \in SUBSET Ino
      /\ dbudget \in 0..Budget /\ dir_ino \in Ino /\ Budget \in Nat
      /\ dpc \in {"pop", "scan", "done", "broke"}
      /\ didx \in 1..(Len(Entries(image, dir_ino)) + 1)
      /\ Len(Entries(image, dir_ino)) \in Nat
      /\ deleted \in Seq((Name \cup {"lossy"}) \X (Ino \cup {0}))
  BY ListingFacts, BudgetAssumption DEF CollectTypeOK
<1>1. CASE CollectDrained \/ SlotsEnd \/ UNCHANGED collectVars
  BY <1>0, <1>1 DEF CollectDrained, SlotsEnd, CollectTypeOK, Entries, collectVars
<1>2. CASE CollectSpent
  <2>1. Front(dqueue) \in Seq(Ino)
    BY <1>0, <1>2, PopFacts DEF CollectSpent
  <2> QED BY <1>0, <1>2, <2>1 DEF CollectSpent, CollectTypeOK, Entries
<1>3. CASE PopVisited \/ PopNewUnlistable \/ PopNew
  <2>1. dqueue # << >> /\ dbudget > 0 /\ dqueue' = Front(dqueue) /\ dbudget' = dbudget - 1
        /\ image' = image /\ deleted' = deleted
    BY <1>3 DEF PopVisited, PopNewUnlistable, PopNew, Pop
  <2>2. dqueue' \in Seq(Ino) /\ Last(dqueue) \in Ino /\ dbudget' \in 0..Budget
    BY <1>0, <2>1, PopFacts
  <2>3. visited' \in SUBSET Ino
    BY <1>0, <1>3, <2>2 DEF PopVisited, PopNewUnlistable, PopNew
  <2>4. CASE PopNew
    <3>1. Len(Entries(image, Last(dqueue))) \in Nat
      BY <1>0, <2>2, ListingFacts
    <3>2. dir_ino' = Last(dqueue) /\ didx' = 1 /\ dpc' = "scan"
      BY <2>4 DEF PopNew
    <3>3. didx' \in 1..(Len(Entries(image', dir_ino')) + 1)
      BY <2>1, <3>1, <3>2
    <3> QED BY <1>0, <2>1, <2>2, <2>3, <3>2, <3>3 DEF CollectTypeOK
  <2>5. CASE PopVisited \/ PopNewUnlistable
    <3>1. dir_ino' = dir_ino /\ didx' = didx /\ dpc' = dpc
      BY <2>5 DEF PopVisited, PopNewUnlistable
    <3>2. didx' \in 1..(Len(Entries(image', dir_ino')) + 1)
      BY <1>0, <2>1, <3>1
    <3> QED BY <1>0, <2>1, <2>2, <2>3, <3>1, <3>2 DEF CollectTypeOK
  <2> QED BY <1>3, <2>4, <2>5
<1>4. CASE Collect \/ EnterDir \/ SkipEntry
  <2>1. AtSlot /\ AdvanceSlot
    BY <1>4 DEF Collect, EnterDir, SkipEntry
  <2>2. didx' \in 1..(Len(Entries(image', dir_ino')) + 1)
    BY <1>0, <2>1 DEF AtSlot, AdvanceSlot
  <2>3. dqueue' \in Seq(Ino)
    <3>1. CASE EnterDir
      BY <1>0, <2>1, <3>1, CurrentFacts, PushFacts DEF EnterDir
    <3>2. CASE Collect \/ SkipEntry
      BY <1>0, <3>2 DEF Collect, SkipEntry
    <3> QED BY <1>4, <3>1, <3>2
  <2>4. deleted' \in Seq((Name \cup {"lossy"}) \X (Ino \cup {0}))
    <3>1. CASE Collect
      <4>1. Residue(CurrentSlot) \in (Name \cup {"lossy"}) \X (Ino \cup {0})
        BY <2>1, <3>1, CurrentFacts DEF Collect
      <4> QED BY <1>0, <3>1, <4>1 DEF Collect, Residue
    <3>2. CASE EnterDir \/ SkipEntry
      BY <1>0, <3>2 DEF EnterDir, SkipEntry
    <3> QED BY <1>4, <3>1, <3>2
  <2> QED BY <1>0, <2>1, <2>2, <2>3, <2>4 DEF AdvanceSlot, CollectTypeOK
<1> QED BY <1>1, <1>2, <1>3, <1>4 DEF CollectNext, CollectWalk, CollectTerminating

(* A slot of D is a pair of a directory of D and a position in it.         *)
LEMMA SlotsOfFacts ==
    ASSUME NEW img, IsImage(img), NEW D \in SUBSET Ino, NEW s
    PROVE  s \in SlotsOf(img, D) <=>
              \E d \in D, i \in Int : i \in DOMAIN Entries(img, d) /\ s = <<d, i>>
<1>1. \A d \in D : DOMAIN Entries(img, d) \subseteq Int
  BY ListingFacts
<1> QED BY <1>1 DEF SlotsOf

(* A trip round the for loop deals with the slot under the cursor, which   *)
(* was not dealt with before.                                              *)
LEMMA ScannedGrows ==
    ASSUME CollectTypeOK, PendingIsNamed, AtSlot, AdvanceSlot
    PROVE  /\ <<dir_ino, didx>> \notin Scanned
           /\ Scanned' = Scanned \cup {<<dir_ino, didx>>}
<1>1. /\ dpc = "scan" /\ dpc' = "scan" /\ image' = image /\ visited' = visited
      /\ dir_ino' = dir_ino /\ didx' = didx + 1 /\ dir_ino \in visited /\ didx \in Nat
      /\ visited \subseteq Ino /\ IsImage(image)
      /\ didx \in DOMAIN Entries(image, dir_ino)
  BY CurrentFacts DEF AtSlot, AdvanceSlot, PendingIsNamed, CollectTypeOK
<1>2. <<dir_ino, didx>> \in SlotsOf(image, visited)
  BY <1>1, SlotsOfFacts
<1>3. <<dir_ino, didx>> \notin Scanned
  BY <1>1 DEF Scanned
<1>4. ASSUME NEW s \in SlotsOf(image, visited)
      PROVE  (s[1] = dir_ino => s[2] < didx + 1)
               <=> (s[1] = dir_ino => s[2] < didx) \/ s = <<dir_ino, didx>>
  <2>1. PICK d \in visited, i \in Int : i \in DOMAIN Entries(image, d) /\ s = <<d, i>>
    BY <1>1, SlotsOfFacts
  <2>2. i \in Nat
    BY <1>1, <2>1, ListingFacts
  <2> QED BY <1>1, <2>1, <2>2
<1>5. Scanned = { s \in SlotsOf(image, visited) : s[1] = dir_ino => s[2] < didx }
  BY <1>1 DEF Scanned
<1>6. Scanned' = { s \in SlotsOf(image, visited) : s[1] = dir_ino => s[2] < didx + 1 }
  BY <1>1 DEF Scanned
<1> QED BY <1>2, <1>3, <1>4, <1>5, <1>6

(* Nothing else does: popping a directory adds a directory with no slot    *)
(* dealt with, or one without slots, and the end of a scan leaves none.    *)
LEMMA ScannedStays ==
    ASSUME CollectTypeOK, [CollectNext]_collectVars, ~(Collect \/ EnterDir \/ SkipEntry)
    PROVE  Scanned' = Scanned
<1>0. IsImage(image) /\ visited \subseteq Ino /\ image' = image
      /\ didx \in 1..(Len(Entries(image, dir_ino)) + 1) /\ dir_ino \in Ino
  BY ImageIsFixed DEF CollectTypeOK
<1>1. CASE dpc # "scan" /\ dpc' # "scan" /\ visited' = visited
  BY <1>0, <1>1 DEF Scanned
<1>2. CASE UNCHANGED collectVars
  BY <1>2 DEF Scanned, collectVars
<1>3. CASE SlotsEnd
  <2>1. dpc = "scan" /\ dpc' = "pop" /\ visited' = visited /\ didx > Len(Entries(image, dir_ino))
    BY <1>3 DEF SlotsEnd
  <2>2. ASSUME NEW s \in SlotsOf(image, visited), s[1] = dir_ino PROVE s[2] < didx
    <3>1. PICK d \in visited, i \in Int : i \in DOMAIN Entries(image, d) /\ s = <<d, i>>
      BY <1>0, SlotsOfFacts
    <3> QED BY <1>0, <2>1, <2>2, <3>1, ListingFacts
  <2>3. Scanned = SlotsOf(image, visited)
    BY <2>2 DEF Scanned
  <2>4. Scanned' = SlotsOf(image, visited)
    BY <1>0, <2>1 DEF Scanned
  <2> QED BY <2>3, <2>4
<1>4. CASE PopNewUnlistable
  <2> DEFINE x == Last(dqueue)
  <2>1. /\ dpc = "pop" /\ dpc' = "pop" /\ visited' = visited \cup {x}
        /\ ~image.listing[x].ok /\ dqueue # << >>
    BY <1>4 DEF PopNewUnlistable, Pop
  <2>2. x \in Ino
    BY <2>1, PopFacts DEF CollectTypeOK
  <2>3. DOMAIN Entries(image, x) = {}
    BY <1>0, <2>1, <2>2, ListingFacts
  <2> HIDE DEF x
  <2>4. \A s : s \in SlotsOf(image, visited') <=> s \in SlotsOf(image, visited)
    BY <1>0, <2>1, <2>2, <2>3, SlotsOfFacts
  <2>5. SlotsOf(image, visited') = SlotsOf(image, visited)
    BY <2>4
  <2> QED BY <1>0, <2>1, <2>5 DEF Scanned
<1>5. CASE PopNew
  <2> DEFINE x == Last(dqueue)
  <2>1. /\ dpc = "pop" /\ dpc' = "scan" /\ visited' = visited \cup {x} /\ x \notin visited
        /\ dir_ino' = x /\ didx' = 1 /\ dqueue # << >>
    BY <1>5 DEF PopNew, Pop
  <2>2. x \in Ino
    BY <2>1, PopFacts DEF CollectTypeOK
  <2> HIDE DEF x
  <2>3. Scanned = SlotsOf(image, visited)
    BY <2>1 DEF Scanned
  <2>4. Scanned' = { s \in SlotsOf(image, visited \cup {x}) : s[1] = x => s[2] < 1 }
    BY <1>0, <2>1 DEF Scanned
  <2>5. ASSUME NEW s \in SlotsOf(image, visited \cup {x}), s[1] = x => s[2] < 1
        PROVE  s \in SlotsOf(image, visited)
    <3>1. PICK d \in visited \cup {x}, i \in Int : i \in DOMAIN Entries(image, d) /\ s = <<d, i>>
      BY <1>0, <2>2, SlotsOfFacts
    <3>2. d # x
      BY <1>0, <2>2, <2>5, <3>1, ListingFacts
    <3> QED BY <1>0, <3>1, <3>2, SlotsOfFacts
  <2>6. ASSUME NEW s \in SlotsOf(image, visited)
        PROVE  s \in SlotsOf(image, visited \cup {x}) /\ s[1] # x
    <3>1. PICK d \in visited, i \in Int : i \in DOMAIN Entries(image, d) /\ s = <<d, i>>
      BY <1>0, <2>2, SlotsOfFacts
    <3> QED BY <1>0, <2>1, <2>2, <3>1, SlotsOfFacts
  <2> QED BY <2>3, <2>4, <2>5, <2>6
<1> QED
  BY <1>1, <1>2, <1>3, <1>4, <1>5
     DEF CollectNext, CollectWalk, CollectTerminating, CollectDrained, CollectSpent, PopVisited, Pop

(* What the slots dealt with name: entering a directory adds the slot that *)
(* names it, and no other step adds one.                                   *)
LEMMA NamesGrow ==
    ASSUME CollectTypeOK, PendingIsNamed, [CollectNext]_collectVars
    PROVE  LET D == DirSlots(image, Scanned)
           IN  /\ EnterDir  => D' = D \cup {<<dir_ino, didx>>} /\ <<dir_ino, didx>> \notin D
               /\ ~EnterDir => D' = D
<1> DEFINE D == DirSlots(image, Scanned)
           Here == Names(SlotAt(image, <<dir_ino, didx>>))
                   /\ is_dir_entry(SlotAt(image, <<dir_ino, didx>>))
<1>1. image' = image
  BY ImageIsFixed
<1>2. CASE Collect \/ EnterDir \/ SkipEntry
  <2>1. AtSlot /\ AdvanceSlot
    BY <1>2 DEF Collect, EnterDir, SkipEntry
  <2>2. <<dir_ino, didx>> \notin Scanned /\ Scanned' = Scanned \cup {<<dir_ino, didx>>}
    BY <2>1, ScannedGrows
  <2>3. EnterDir <=> Here
    BY <1>2, <2>1, CurrentFacts DEF Collect, EnterDir, SkipEntry, IsResidual, Names
  <2>4. <<dir_ino, didx>> \notin D
    BY <2>2 DEF DirSlots
  <2>5. D' = D \cup { s \in {<<dir_ino, didx>>} : Here }
    BY <1>1, <2>2 DEF DirSlots
  <2> QED BY <2>3, <2>4, <2>5
<1>3. CASE ~(Collect \/ EnterDir \/ SkipEntry)
  <2>1. Scanned' = Scanned
    BY <1>3, ScannedStays
  <2> QED BY <1>1, <1>3, <2>1 DEF DirSlots
<1> QED BY <1>2, <1>3

(* Entering a directory pushes what the slot under the cursor names.       *)
LEMMA PushStep ==
    ASSUME CollectTypeOK, EnterDir
    PROVE  /\ AtSlot /\ AdvanceSlot
           /\ CurrentSlot = SlotAt(image, <<dir_ino, didx>>)
           /\ Names(CurrentSlot) /\ is_dir_entry(CurrentSlot) /\ CurrentSlot.ino \in Ino
           /\ ToSet(dqueue') = ToSet(dqueue) \cup {CurrentSlot.ino}
           /\ Len(dqueue') = Len(dqueue) + 1
<1>1. /\ AtSlot /\ AdvanceSlot /\ Names(CurrentSlot) /\ is_dir_entry(CurrentSlot)
      /\ dqueue' = Append(dqueue, CurrentSlot.ino)
  BY DEF EnterDir
<1>2. CurrentSlot.ino \in Ino /\ CurrentSlot = SlotAt(image, <<dir_ino, didx>>)
  BY <1>1, CurrentFacts
<1>3. dqueue \in Seq(Ino)
  BY DEF CollectTypeOK
<1>4. /\ ToSet(Append(dqueue, CurrentSlot.ino)) = ToSet(dqueue) \cup {CurrentSlot.ino}
      /\ Len(Append(dqueue, CurrentSlot.ino)) = Len(dqueue) + 1
  BY <1>2, <1>3, PushFacts
<1> QED BY <1>1, <1>2, <1>4

(* What each kind of step does to the pending and the visited directories. *)
LEMMA QueueSteps ==
    ASSUME CollectTypeOK, [CollectNext]_collectVars
    PROVE  \/ /\ EnterDir
              /\ ToSet(dqueue') = ToSet(dqueue) \cup {CurrentSlot.ino}
              /\ Len(dqueue') = Len(dqueue) + 1
              /\ visited' = visited
           \/ /\ PopVisited \/ PopNewUnlistable \/ PopNew
              /\ ToSet(dqueue) = ToSet(dqueue') \cup {Last(dqueue)}
              /\ Len(dqueue') = Len(dqueue) - 1
              /\ visited' = visited \cup {Last(dqueue)}
              /\ dpc = "pop" /\ dpc' \in {"pop", "scan"} /\ dbudget > 0 /\ dbudget' = dbudget - 1
           \/ /\ CollectSpent
              /\ ToSet(dqueue) = ToSet(dqueue') \cup {Last(dqueue)}
              /\ visited' = visited
           \/ /\ CollectDrained \/ SlotsEnd \/ Collect \/ SkipEntry \/ UNCHANGED collectVars
              /\ dqueue' = dqueue
              /\ visited' = visited
<1>0. dqueue \in Seq(Ino)
  BY DEF CollectTypeOK
<1>1. CASE EnterDir
  BY <1>1, PushStep DEF AdvanceSlot
<1>2. CASE PopVisited \/ PopNewUnlistable \/ PopNew
  <2>1. /\ dqueue # << >> /\ dqueue' = Front(dqueue) /\ dpc = "pop" /\ dpc' \in {"pop", "scan"}
        /\ dbudget > 0 /\ dbudget' = dbudget - 1
        /\ visited' = visited \cup {Last(dqueue)}
    BY <1>2 DEF PopVisited, PopNewUnlistable, PopNew, Pop
  <2> QED BY <1>0, <1>2, <2>1, PopFacts
<1>3. CASE CollectSpent
  BY <1>0, <1>3, PopFacts DEF CollectSpent
<1>4. CASE CollectDrained \/ SlotsEnd \/ Collect \/ SkipEntry \/ UNCHANGED collectVars
  BY <1>4 DEF CollectDrained, SlotsEnd, Collect, SkipEntry, AdvanceSlot, collectVars
<1> QED BY <1>1, <1>2, <1>3, <1>4 DEF CollectNext, CollectWalk, CollectTerminating

(* What is pending stays named, and the directory under the cursor stays   *)
(* visited.                                                                *)
LEMMA PendingStep ==
    CollectTypeOK /\ PendingIsNamed /\ [CollectNext]_collectVars => PendingIsNamed'
<1> SUFFICES ASSUME CollectTypeOK, PendingIsNamed, [CollectNext]_collectVars PROVE PendingIsNamed'
  OBVIOUS
<1> DEFINE D == DirSlots(image, Scanned)
<1>0. image' = image
  BY ImageIsFixed
<1>1. (dpc = "scan" => dir_ino \in visited)'
  BY DEF PendingIsNamed, CollectNext, CollectWalk, CollectTerminating,
         CollectDrained, CollectSpent, PopVisited,
         PopNewUnlistable, PopNew, Pop, Collect, EnterDir, SkipEntry, SlotsEnd, AtSlot,
         AdvanceSlot, collectVars
<1>2. D \subseteq D'
  BY NamesGrow
<1>3. ASSUME NEW y \in ToSet(dqueue'), y \in ToSet(dqueue)
      PROVE  y = RootIno \/ \E s \in D' : SlotAt(image', s).ino = y
  BY <1>0, <1>2, <1>3 DEF PendingIsNamed
<1>4. ASSUME NEW y \in ToSet(dqueue'), y \notin ToSet(dqueue)
      PROVE  \E s \in D' : SlotAt(image', s).ino = y
  <2>1. EnterDir /\ y = CurrentSlot.ino
    BY <1>4, QueueSteps
  <2>2. <<dir_ino, didx>> \in D'
    BY <2>1, NamesGrow
  <2>3. CurrentSlot = SlotAt(image, <<dir_ino, didx>>)
    BY <2>1, CurrentFacts DEF EnterDir
  <2> QED BY <1>0, <2>1, <2>2, <2>3
<1> QED BY <1>1, <1>3, <1>4 DEF PendingIsNamed

(* No directory that a slot named is dropped before it is visited.         *)
LEMMA ForgottenStep ==
    CollectTypeOK /\ PendingIsNamed /\ NoSlotForgotten /\ [CollectNext]_collectVars
        => NoSlotForgotten'
<1> SUFFICES ASSUME CollectTypeOK, PendingIsNamed, NoSlotForgotten,
                    [CollectNext]_collectVars, dpc' # "broke"
             PROVE  NoSlotForgotten'
  BY DEF NoSlotForgotten
<1> DEFINE D == DirSlots(image, Scanned)
           Known == visited \cup ToSet(dqueue)
<1>0. image' = image /\ dpc # "broke" /\ ~CollectSpent
  BY ImageIsFixed
     DEF CollectNext, CollectWalk, CollectTerminating, Collected,
         CollectDrained, CollectSpent, PopVisited,
         PopNewUnlistable, PopNew, Pop, Collect, EnterDir, SkipEntry, SlotsEnd, AtSlot, collectVars
<1>1. Known \subseteq Known'
  BY <1>0, QueueSteps
<1>2. RootIno \in Known /\ \A s \in D : SlotAt(image, s).ino \in Known
  BY <1>0 DEF NoSlotForgotten
<1>3. ASSUME NEW s \in D' PROVE SlotAt(image, s).ino \in Known'
  <2>1. CASE s \in D
    BY <1>1, <1>2, <2>1
  <2>2. CASE s \notin D
    <3>1. EnterDir /\ s = <<dir_ino, didx>>
      BY <1>3, <2>2, NamesGrow
    <3>2. CurrentSlot = SlotAt(image, s) /\ CurrentSlot.ino \in ToSet(dqueue')
      BY <3>1, PushStep
    <3> QED BY <3>2
  <2> QED BY <2>1, <2>2
<1> QED BY <1>0, <1>1, <1>2, <1>3 DEF NoSlotForgotten

(* Only an empty queue ends the loop normally.                             *)
LEMMA DrainedStep == CollectDoneIsDrained /\ [CollectNext]_collectVars => CollectDoneIsDrained'
  BY DEF CollectDoneIsDrained, CollectNext, CollectWalk, CollectTerminating,
         CollectDrained, CollectSpent, PopVisited,
         PopNewUnlistable, PopNew, Pop, Collect, EnterDir, SkipEntry, SlotsEnd, AtSlot,
         AdvanceSlot, collectVars

(* Each residue is counted once per slot dealt with that holds it.         *)
LEMMA CollectedStep ==
    CollectTypeOK /\ PendingIsNamed /\ CollectedExactly /\ [CollectNext]_collectVars
        => CollectedExactly'
<1> SUFFICES ASSUME CollectTypeOK, PendingIsNamed, CollectedExactly, [CollectNext]_collectVars
             PROVE  CollectedExactly'
  OBVIOUS
<1> DEFINE P == (Name \cup {"lossy"}) \X {0}
<1>0. image' = image
  BY ImageIsFixed
<1>1. IsFiniteSet(Scanned)
  BY DEF CollectedExactly, Occurrences
<1>2. ASSUME NEW p \in P
      PROVE  /\ IsFiniteSet(ResidualSlots(image, Scanned, p))
             /\ Cardinality(ResidualSlots(image, Scanned, p)) \in Nat
             /\ Occurrences(deleted, p) = Cardinality(ResidualSlots(image, Scanned, p))
  <2>1. ResidualSlots(image, Scanned, p) \in SUBSET Scanned
    BY DEF ResidualSlots
  <2> QED BY <1>1, <1>2, <2>1, FS_Subset, FS_CardinalityType DEF CollectedExactly, Occurrences
<1>3. CASE Collect \/ EnterDir \/ SkipEntry
  <2>1. AtSlot /\ AdvanceSlot
    BY <1>3 DEF Collect, EnterDir, SkipEntry
  <2>2. <<dir_ino, didx>> \notin Scanned /\ Scanned' = Scanned \cup {<<dir_ino, didx>>}
    BY <2>1, ScannedGrows
  <2>3. IsFiniteSet(Scanned')
    BY <1>1, <2>2, FS_AddElement
  <2>4. CurrentSlot = SlotAt(image, <<dir_ino, didx>>)
    BY <2>1, CurrentFacts
  <2>5. ASSUME NEW p \in P
        PROVE  Occurrences(deleted', p) = Cardinality(ResidualSlots(image', Scanned', p))
    <3> DEFINE R == ResidualSlots(image, Scanned, p)
    <3>1. <<dir_ino, didx>> \notin R
      BY <2>2 DEF ResidualSlots
    <3>2. ResidualSlots(image', Scanned', p)
            = R \cup { s \in {<<dir_ino, didx>>} : IsResidual(CurrentSlot)
                                                   /\ Residue(CurrentSlot) = p }
      BY <1>0, <2>2, <2>4 DEF ResidualSlots
    <3> HIDE DEF R
    <3>3. CASE Collect
      <4>1. /\ IsResidual(CurrentSlot)
            /\ deleted' = Append(deleted, Residue(CurrentSlot))
        BY <3>3 DEF Collect, Residue
      <4>2. deleted \in Seq((Name \cup {"lossy"}) \X (Ino \cup {0}))
            /\ Residue(CurrentSlot) \in (Name \cup {"lossy"}) \X (Ino \cup {0})
        BY <2>1, <4>1, CurrentFacts DEF CollectTypeOK
      <4>3. /\ Residue(CurrentSlot) = p =>
                  Occurrences(deleted', p) = Occurrences(deleted, p) + 1
            /\ Residue(CurrentSlot) # p => Occurrences(deleted', p) = Occurrences(deleted, p)
        BY <4>1, <4>2, PushCounts
      <4>4. CASE Residue(CurrentSlot) = p
        <5>1. ResidualSlots(image', Scanned', p) = R \cup {<<dir_ino, didx>>}
          BY <3>2, <4>1, <4>4
        <5>2. Cardinality(R \cup {<<dir_ino, didx>>}) = Cardinality(R) + 1
          BY <1>2, <3>1, FS_AddElement DEF R
        <5> QED BY <1>2, <4>1, <4>3, <4>4, <5>1, <5>2 DEF R
      <4>5. CASE Residue(CurrentSlot) # p
        <5>1. ResidualSlots(image', Scanned', p) = R
          BY <3>2, <4>5
        <5> QED BY <1>2, <4>1, <4>3, <4>5, <5>1 DEF R
      <4> QED BY <4>4, <4>5
    <3>4. CASE EnterDir \/ SkipEntry
      <4>1. deleted' = deleted /\ ~IsResidual(CurrentSlot)
        BY <3>4 DEF EnterDir, SkipEntry, IsResidual, Names
      <4>2. ResidualSlots(image', Scanned', p) = R
        BY <3>2, <4>1
      <4> QED BY <1>2, <4>1, <4>2 DEF R
    <3> QED BY <1>3, <3>3, <3>4
  <2> QED BY <2>3, <2>5 DEF CollectedExactly, Occurrences
<1>4. CASE ~(Collect \/ EnterDir \/ SkipEntry)
  <2>1. Scanned' = Scanned
    BY <1>4, ScannedStays
  <2>2. deleted' = deleted
    BY <1>4 DEF CollectNext, CollectWalk, CollectTerminating,
                CollectDrained, CollectSpent, PopVisited, PopNewUnlistable,
                PopNew, SlotsEnd, collectVars
  <2> QED BY <1>0, <2>1, <2>2 DEF CollectedExactly, Occurrences
<1> QED BY <1>3, <1>4

(* Every trip round the loop is paid for by a slot that names a directory. *)
LEMMA BudgetStep ==
    CollectTypeOK /\ PendingIsNamed /\ CollectedExactly /\ SlotsPayBudget /\ [CollectNext]_collectVars
      => SlotsPayBudget'
<1> SUFFICES ASSUME CollectTypeOK, PendingIsNamed, CollectedExactly, SlotsPayBudget,
                    [CollectNext]_collectVars
             PROVE  SlotsPayBudget'
  OBVIOUS
<1> DEFINE D == DirSlots(image, Scanned)
           pushed == Cardinality(D)
<1>0. /\ dbudget \in 0..Budget /\ Budget \in Nat /\ Len(dqueue) \in Nat
      /\ dpc # "broke" => (Budget - dbudget) + Len(dqueue) = pushed + 1
      /\ dpc = "broke" => pushed >= Budget
  BY BudgetAssumption DEF CollectTypeOK, SlotsPayBudget
<1>1. IsFiniteSet(D) /\ pushed \in Nat
  <2>1. D \in SUBSET Scanned
    BY DEF DirSlots
  <2> QED BY <2>1, FS_Subset, FS_CardinalityType DEF CollectedExactly
<1>2. CASE EnterDir
  <2>1. pushed' = pushed + 1
    BY <1>1, <1>2, NamesGrow, FS_AddElement
  <2>2. Len(dqueue') = Len(dqueue) + 1 /\ dbudget' = dbudget /\ dpc = "scan" /\ dpc' = "scan"
    BY <1>2, PushStep DEF AtSlot, AdvanceSlot
  <2> QED BY <1>0, <1>1, <2>1, <2>2 DEF SlotsPayBudget
<1>3. CASE PopVisited \/ PopNewUnlistable \/ PopNew
  <2>1. /\ dqueue # << >> /\ dqueue' = Front(dqueue) /\ dpc = "pop" /\ dpc' \in {"pop", "scan"}
        /\ dbudget' = dbudget - 1
    BY <1>3 DEF PopVisited, PopNewUnlistable, PopNew, Pop
  <2>2. Len(dqueue') = Len(dqueue) - 1
    BY <2>1, PopFacts DEF CollectTypeOK
  <2>3. pushed' = pushed
    BY <1>3, <2>1, NamesGrow DEF EnterDir, AtSlot
  <2> QED BY <1>0, <1>1, <2>1, <2>2, <2>3 DEF SlotsPayBudget
<1>4. CASE CollectSpent
  <2>1. /\ dqueue # << >> /\ dpc = "pop" /\ dpc' = "broke" /\ dbudget = 0
    BY <1>4 DEF CollectSpent
  <2>2. Len(dqueue) >= 1
    BY <2>1, PopFacts DEF CollectTypeOK
  <2>3. pushed' = pushed
    BY <1>4, <2>1, NamesGrow DEF EnterDir, AtSlot
  <2> QED BY <1>0, <1>1, <2>1, <2>2, <2>3 DEF SlotsPayBudget
<1>5. CASE CollectDrained \/ SlotsEnd \/ Collect \/ SkipEntry \/ UNCHANGED collectVars
  <2>1. /\ dqueue' = dqueue /\ dbudget' = dbudget /\ (dpc' = "broke" <=> dpc = "broke")
    BY <1>5 DEF CollectDrained, SlotsEnd, Collect, SkipEntry, AtSlot, AdvanceSlot, collectVars
  <2>2. ~EnterDir
    BY <1>0, <2>1, PushStep
  <2>3. pushed' = pushed
    BY <2>2, NamesGrow
  <2> QED BY <1>0, <2>1, <2>3 DEF SlotsPayBudget
<1> QED BY <1>2, <1>3, <1>4, <1>5 DEF CollectNext, CollectWalk, CollectTerminating

(* A slot that names a directory is an edge of the graph, and every edge   *)
(* is such a slot.                                                         *)
LEMMA SlotIsEdge ==
    ASSUME NEW img, IsImage(img), NEW D \in SUBSET Ino
    PROVE  /\ \A s \in DirSlots(img, SlotsOf(img, D)) :
                 s[1] \in D /\ SlotAt(img, s).ino \in DirChildren(img, s[1])
           /\ \A d \in D : \A y \in DirChildren(img, d) :
                 \E s \in DirSlots(img, SlotsOf(img, D)) : SlotAt(img, s).ino = y
<1>1. ASSUME NEW s \in DirSlots(img, SlotsOf(img, D))
      PROVE  s[1] \in D /\ SlotAt(img, s).ino \in DirChildren(img, s[1])
  <2>1. s \in SlotsOf(img, D) /\ Names(SlotAt(img, s)) /\ is_dir_entry(SlotAt(img, s))
    BY DEF DirSlots
  <2>2. PICK d \in D, i \in Int : i \in DOMAIN Entries(img, d) /\ s = <<d, i>>
    BY <2>1, SlotsOfFacts
  <2>3. s[1] = d /\ SlotAt(img, s) = Entries(img, d)[i]
    BY <2>2 DEF SlotAt
  <2>4. SlotAt(img, s) \in ToSet(Entries(img, d))
    BY <2>2, <2>3 DEF ToSet
  <2> QED BY <2>1, <2>3, <2>4 DEF DirChildren, NamingEntries
<1>2. ASSUME NEW d \in D, NEW y \in DirChildren(img, d)
      PROVE  \E s \in DirSlots(img, SlotsOf(img, D)) : SlotAt(img, s).ino = y
  <2>1. PICK e \in ToSet(Entries(img, d)) : Names(e) /\ is_dir_entry(e) /\ y = e.ino
    BY DEF DirChildren, NamingEntries
  <2>2. PICK i \in DOMAIN Entries(img, d) : e = Entries(img, d)[i]
    BY <2>1 DEF ToSet
  <2>3. i \in Int
    BY ListingFacts
  <2>4. <<d, i>> \in SlotsOf(img, D) /\ SlotAt(img, <<d, i>>) = e
    BY <2>2, <2>3, SlotsOfFacts DEF SlotAt
  <2>5. <<d, i>> \in DirSlots(img, SlotsOf(img, D))
    BY <2>1, <2>4 DEF DirSlots
  <2> QED BY <2>1, <2>4, <2>5
<1> QED BY <1>1, <1>2

(* The walk never leaves a set closed under the graph it explores.         *)
LEMMA InsideStep ==
    CollectTypeOK /\ PendingIsNamed /\ VisitedInsideClosedSets /\ [CollectNext]_collectVars
        => VisitedInsideClosedSets'
<1> SUFFICES ASSUME CollectTypeOK, PendingIsNamed, VisitedInsideClosedSets,
                    [CollectNext]_collectVars,
                    NEW S \in SUBSET Ino, ClosedFromRoot(DirGraph(image'), S)
             PROVE  visited' \cup ToSet(dqueue') \subseteq S
  BY DEF VisitedInsideClosedSets
<1>1. ClosedFromRoot(DirGraph(image), S) /\ visited \cup ToSet(dqueue) \subseteq S
  BY ImageIsFixed DEF VisitedInsideClosedSets
<1>2. CASE EnterDir
  <2>1. /\ AtSlot /\ Names(CurrentSlot) /\ is_dir_entry(CurrentSlot)
        /\ ToSet(dqueue') = ToSet(dqueue) \cup {CurrentSlot.ino} /\ visited' = visited
    BY <1>2, PushStep DEF AdvanceSlot
  <2>2. dir_ino \in visited /\ dir_ino \in Ino
    BY <2>1 DEF AtSlot, PendingIsNamed, CollectTypeOK
  <2>3. CurrentSlot \in ToSet(Entries(image, dir_ino))
    BY <2>1, CurrentFacts DEF CurrentSlot, ToSet
  <2>4. CurrentSlot.ino \in DirGraph(image)[dir_ino]
    BY <2>1, <2>2, <2>3 DEF DirGraph, DirChildren, NamingEntries
  <2> QED BY <1>1, <2>1, <2>2, <2>4 DEF ClosedFromRoot
<1>3. CASE ~EnterDir
  <2>1. visited' \cup ToSet(dqueue') \subseteq visited \cup ToSet(dqueue)
    BY <1>3, QueueSteps
  <2> QED BY <1>1, <2>1
<1> QED BY <1>2, <1>3

(* The invariant holds initially and is inductive.                         *)
LEMMA WalkInit == CollectInit => CollectInv
<1> SUFFICES ASSUME CollectInit PROVE CollectInv
  OBVIOUS
<1>0. /\ IsImage(image) /\ RootIno \in Ino /\ Budget \in Nat
      /\ dpc = "pop" /\ dqueue = <<RootIno>> /\ visited = {} /\ deleted = << >>
      /\ dbudget = Budget /\ dir_ino = RootIno /\ didx = 1
  BY ImagesAssumption, InoAssumption, BudgetAssumption DEF CollectInit, CollectStart
<1>1. ToSet(dqueue) = {RootIno} /\ Len(dqueue) = 1 /\ dqueue \in Seq(Ino)
  BY <1>0 DEF ToSet
<1>2. CollectTypeOK
  <2>1. Len(Entries(image, dir_ino)) \in Nat
    BY <1>0, ListingFacts
  <2> QED BY <1>0, <1>1, <2>1 DEF CollectTypeOK
<1>3. Scanned = {}
  BY <1>0 DEF Scanned, SlotsOf
<1>4. DirSlots(image, Scanned) = {} /\ \A p : ResidualSlots(image, Scanned, p) = {}
  BY <1>3 DEF DirSlots, ResidualSlots
<1>5. PendingIsNamed
  BY <1>0, <1>1 DEF PendingIsNamed
<1>6. NoSlotForgotten /\ CollectDoneIsDrained
  BY <1>0, <1>1, <1>4 DEF NoSlotForgotten, CollectDoneIsDrained
<1>7. CollectedExactly
  <2>1. \A p : { k \in DOMAIN deleted : deleted[k] = p } = {}
    BY <1>0
  <2> QED BY <1>3, <1>4, <2>1, FS_EmptySet DEF CollectedExactly
<1>8. SlotsPayBudget
  BY <1>0, <1>1, <1>4, FS_EmptySet DEF SlotsPayBudget
<1>9. VisitedInsideClosedSets
  BY <1>0, <1>1 DEF VisitedInsideClosedSets, ClosedFromRoot
<1> QED BY <1>2, <1>5, <1>6, <1>7, <1>8, <1>9 DEF CollectInv

LEMMA WalkStep == CollectInv /\ [CollectNext]_collectVars => CollectInv'
  BY TypeStep, PendingStep, ForgottenStep, DrainedStep, CollectedStep, BudgetStep,
     InsideStep
     DEF CollectInv

(* Every reachable state of collect_deleted_dirents satisfies CollectInv.  *)
THEOREM WalkInvariant == CollectSpec => []CollectInv
  BY WalkInit, WalkStep, PTL DEF CollectSpec

(* The walk's locals keep their types: the cursor stays within one past    *)
(* the end of the entries and the budget never underflows.                 *)
THEOREM TypeCorrect == CollectSpec => []CollectTypeOK
<1>1. CollectInv => CollectTypeOK
  BY DEF CollectInv
<1> QED BY <1>1, WalkInvariant, PTL

(* Outside the for loop every slot of a visited directory is dealt with.   *)
LEMMA ScannedIsAll ==
    ASSUME dpc # "scan"
    PROVE  Scanned = SlotsOf(image, visited)
  BY DEF Scanned

(* With an empty queue the visited directories are closed under the graph. *)
LEMMA DrainedIsClosed ==
    ASSUME CollectInv, dpc \in {"pop", "done"}, dqueue = << >>
    PROVE  RootIno \in visited /\ \A x \in visited : DirChildren(image, x) \subseteq visited
<1>1. IsImage(image) /\ visited \in SUBSET Ino
  BY DEF CollectInv, CollectTypeOK
<1>2. visited \cup ToSet(dqueue) = visited
  BY DEF ToSet
<1>3. /\ RootIno \in visited
      /\ \A s \in DirSlots(image, SlotsOf(image, visited)) : SlotAt(image, s).ino \in visited
  BY <1>2, ScannedIsAll DEF CollectInv, NoSlotForgotten
<1> QED BY <1>1, <1>3, SlotIsEdge

(* collect_deleted_dirents reports every residual name of every directory  *)
(* it can reach exactly as often as a slot holds it.                       *)
THEOREM CollectsEachSlotOnce == CollectSpec => []EachSlotCollectedOnce
<1>1. CollectInv => EachSlotCollectedOnce
  <2> SUFFICES ASSUME CollectInv, dpc = "done" PROVE EachSlotCollectedOnce
    BY DEF EachSlotCollectedOnce
  <2> DEFINE G == DirGraph(image)
  <2>1. visited \in SUBSET Ino /\ dqueue = << >>
    BY DEF CollectInv, CollectTypeOK, CollectDoneIsDrained
  <2>2. RootIno \in visited /\ \A x \in visited : DirChildren(image, x) \subseteq visited
    BY <2>1, DrainedIsClosed
  <2>3. ClosedFromRoot(G, visited)
    BY <2>1, <2>2 DEF ClosedFromRoot, DirGraph
  <2>4. \A S \in SUBSET Ino : ClosedFromRoot(G, S) => visited \subseteq S
    BY DEF CollectInv, VisitedInsideClosedSets
  <2> HIDE DEF G
  <2>5. visited = ReachableFrom(G)
    BY <2>1, <2>3, <2>4 DEF ReachableFrom
  <2>6. Scanned = SlotsOf(image, ReachableFrom(DirGraph(image)))
    BY <2>5, ScannedIsAll DEF G
  <2> QED BY <2>6 DEF CollectInv, CollectedExactly, EachSlotCollectedOnce
<1> QED BY <1>1, WalkInvariant, PTL

(* The break is out of reach of every image whose directories hold fewer   *)
(* than Budget slots that name directories.                                *)
THEOREM BreakNeedsManySlots == CollectSpec => []BreakMeansManySlots
<1>1. CollectInv => BreakMeansManySlots
  BY ScannedIsAll DEF CollectInv, SlotsPayBudget, BreakMeansManySlots
<1> QED BY <1>1, WalkInvariant, PTL

(* The walk implements the abstract search: popping a new directory is a   *)
(* discovery, the empty queue a complete search, the break a partial one.  *)
THEOREM WalkRefinesSearch == CollectSpec => CollectImplementsSearch
<1>1. CollectInit => CollectSearch!Init
  <2> SUFFICES ASSUME CollectInit PROVE CollectSearch!Init
    OBVIOUS
  <2>1. IsImage(image)
    BY ImagesAssumption DEF CollectInit
  <2>2. ASSUME NEW d \in Ino, NEW e \in NamingEntries(image, d) PROVE e.ino \in Ino
    <3>1. e \in DirEntry /\ Names(e)
      BY <2>1, ListingFacts DEF NamingEntries, ToSet
    <3> QED BY <3>1 DEF DirEntry, Names, Deleted
  <2>3. DirGraph(image) \in [Ino -> SUBSET Ino]
    BY <2>2 DEF DirGraph, DirChildren
  <2> QED BY <2>3 DEF CollectInit, CollectStart, CollectSearch!Init
<1>2. CollectInv /\ [CollectNext]_collectVars => [CollectSearch!Next]_(CollectSearch!vars)
  <2> SUFFICES ASSUME CollectInv, [CollectNext]_collectVars
               PROVE [CollectSearch!Next]_(CollectSearch!vars)
    OBVIOUS
  <2>0. image' = image /\ DirGraph(image') = DirGraph(image)
        /\ IsImage(image) /\ visited \in SUBSET Ino /\ CollectTypeOK
    BY ImageIsFixed DEF CollectInv, CollectTypeOK
  <2>1. CASE PopVisited \/ PopNewUnlistable \/ PopNew
    <3> DEFINE y == Last(dqueue)
    <3>1. /\ dpc = "pop" /\ dpc' \in {"pop", "scan"} /\ visited' = visited \cup {y}
          /\ dqueue # << >>
      BY <2>1 DEF PopVisited, PopNewUnlistable, PopNew, Pop
    <3>2. CASE y \in visited \cup {RootIno}
      <4>1. visited' \cup {RootIno} = visited \cup {RootIno}
        BY <3>1, <3>2
      <4> QED BY <2>0, <3>1, <4>1 DEF CollectSearch!vars
    <3>3. CASE y \notin visited \cup {RootIno}
      <4>0. dqueue \in Seq(Ino)
        BY <2>0 DEF CollectTypeOK
      <4>1. y \in ToSet(dqueue)
        <5>1. ToSet(dqueue) = ToSet(Front(dqueue)) \cup {Last(dqueue)}
          BY <4>0, <3>1, PopFacts
        <5> QED BY <5>1
      <4>2. PICK s \in DirSlots(image, SlotsOf(image, visited)) : SlotAt(image, s).ino = y
        BY <3>1, <3>3, <4>1, ScannedIsAll DEF CollectInv, PendingIsNamed
      <4>3. s[1] \in visited /\ y \in DirChildren(image, s[1])
        BY <2>0, <4>2, SlotIsEdge
      <4>4. y \in DirGraph(image)[s[1]] \ (visited \cup {RootIno})
        BY <2>0, <3>3, <4>3 DEF DirGraph
      <4>5. CollectSearch!Discover
        BY <2>0, <3>1, <4>3, <4>4 DEF CollectSearch!Discover
      <4> QED BY <4>5 DEF CollectSearch!Next
    <3> QED BY <3>2, <3>3
  <2>2. CASE CollectDrained
    <3>1. dpc = "pop" /\ dpc' = "done" /\ visited' = visited /\ dqueue = << >>
      BY <2>2 DEF CollectDrained
    <3>2. RootIno \in visited /\ \A x \in visited : DirChildren(image, x) \subseteq visited
      BY <3>1, DrainedIsClosed
    <3>3. \A x \in visited \cup {RootIno} : DirGraph(image)[x] \subseteq visited \cup {RootIno}
      BY <2>0, <3>2 DEF DirGraph
    <3>4. CollectSearch!Conclude
      BY <2>0, <3>1, <3>3 DEF CollectSearch!Conclude
    <3> QED BY <3>4 DEF CollectSearch!Next
  <2>3. CASE CollectSpent
    <3>1. CollectSearch!GiveUp
      BY <2>0, <2>3 DEF CollectSpent, CollectSearch!GiveUp
    <3> QED BY <3>1 DEF CollectSearch!Next
  <2>4. CASE Collect \/ EnterDir \/ SkipEntry \/ SlotsEnd \/ UNCHANGED collectVars
    <3>1. visited' = visited /\ (dpc' = "done" <=> dpc = "done") /\ (dpc' = "broke" <=> dpc = "broke")
      BY <2>4 DEF Collect, EnterDir, SkipEntry, SlotsEnd, AtSlot, AdvanceSlot, collectVars
    <3> QED BY <2>0, <3>1 DEF CollectSearch!vars
  <2> QED BY <2>1, <2>2, <2>3, <2>4 DEF CollectNext, CollectWalk, CollectTerminating
<1> QED BY <1>1, <1>2, WalkInvariant, PTL
     DEF CollectSpec, CollectImplementsSearch, CollectSearch!Spec
=============================================================================
