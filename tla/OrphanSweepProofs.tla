------------------------- MODULE OrphanSweepProofs -------------------------
(***************************************************************************)
(* The theorems of ReachableWalk, for every set of images and every        *)
(* budget, with WalkInv as the inductive invariant; then those of          *)
(* OrphanSweep, which carries that invariant through the sweep and adds    *)
(* the sweep's own.                                                        *)
(***************************************************************************)
EXTENDS OrphanSweep, CommonLemmas

(* What an image is: its listings and its modes are total over Ino.        *)
LEMMA ImageFacts ==
    ASSUME NEW img, IsImage(img), NEW d \in Ino
    PROVE  /\ Entries(img, d) \in Seq(DirEntry)
           /\ img.listing[d].ok \in BOOLEAN
           /\ img.is_dir[d] \in BOOLEAN
           /\ ~img.listing[d].ok => Entries(img, d) = << >>
  BY DEF IsImage, Listing, Entries

(* The entry under the cursor of the for loop, when it names something.    *)
LEMMA CurrentFacts ==
    ASSUME TypeOK, AtEntry, Names(Current)
    PROVE  /\ Current \in NamingEntries(image, dir)
           /\ Current.ino \in Ino
           /\ Current.ino \in Children(image, dir)
           /\ is_dir_entry(Current) => Current.ino \in CalledDir(image)
<1>1. Entries(image, dir) \in Seq(DirEntry) /\ dir \in Ino
  BY ImageFacts DEF TypeOK
<1>2. idx \in 1..Len(Entries(image, dir))
  BY <1>1 DEF TypeOK, AtEntry
<1>3. Current \in DirEntry /\ Current \in ToSet(Entries(image, dir))
  BY <1>1, <1>2 DEF Current, ToSet
<1>4. Current \in NamingEntries(image, dir)
  BY <1>3 DEF NamingEntries
<1>5. Current.ino \in Ino
  BY <1>3 DEF Names, Deleted, DirEntry
<1>6. Current.ino \in Children(image, dir)
  BY <1>4 DEF Children
<1>7. is_dir_entry(Current) => Current.ino \in CalledDir(image)
  BY <1>1, <1>4 DEF DirChildren, CalledDir
<1> QED BY <1>4, <1>5, <1>6, <1>7

(* The partition is borrowed immutably: no step writes it.                 *)
LEMMA ImageIsFixed == [Next]_vars => image' = image
  BY DEF Next, Walk, Terminating, Drained, BudgetSpent, PopListed, PopUnlistable,
         ScanSkip, ScanSeen, ScanDir, ScanFile, ScanEnd, Advance, vars

(* Type correctness is preserved by every step of the walk.                *)
LEMMA TypeStep == TypeOK /\ [Next]_vars => TypeOK'
<1> SUFFICES ASSUME TypeOK, [Next]_vars PROVE TypeOK'
  OBVIOUS
<1>0. /\ IsImage(image) /\ queue \in Seq(Ino) /\ reachable \in SUBSET Ino
      /\ budget \in 0..Budget /\ dir \in Ino
      /\ idx \in 1..(Len(Entries(image, dir)) + 1)
      /\ pc \in {"pop", "scan", "done", "broke"}
      /\ Budget \in Nat
      /\ Len(Entries(image, dir)) \in Nat
  BY ImageFacts, BudgetAssumption DEF TypeOK
<1>1. CASE Drained
  BY <1>0, <1>1 DEF Drained, TypeOK, Entries
<1>2. CASE BudgetSpent
  <2>1. Front(queue) \in Seq(Ino)
    BY <1>0, <1>2, PopFacts DEF BudgetSpent
  <2> QED BY <1>0, <1>2, <2>1 DEF BudgetSpent, TypeOK, Entries
<1>3. CASE PopListed
  <2>1. Front(queue) \in Seq(Ino) /\ Last(queue) \in Ino
    BY <1>0, <1>3, PopFacts DEF PopListed, PopWith
  <2>2. Len(Entries(image, Last(queue))) \in Nat
    BY <1>0, <2>1, ImageFacts
  <2>3. budget - 1 \in 0..Budget
    BY <1>0, <1>3 DEF PopListed, PopWith
  <2>4. 1 \in 1..(Len(Entries(image, Last(queue))) + 1)
    BY <2>2
  <2>5. image' = image /\ dir' = Last(queue) /\ idx' = 1 /\ pc' = "scan"
        /\ queue' = Front(queue) /\ budget' = budget - 1 /\ reachable' = reachable
    BY <1>3 DEF PopListed, PopWith
  <2> QED BY <1>0, <2>1, <2>3, <2>4, <2>5 DEF TypeOK, Entries
<1>4. CASE PopUnlistable
  <2>1. Front(queue) \in Seq(Ino)
    BY <1>0, <1>4, PopFacts DEF PopUnlistable, PopWith
  <2>3. budget - 1 \in 0..Budget
    BY <1>0, <1>4 DEF PopUnlistable, PopWith
  <2> QED BY <1>0, <1>4, <2>1, <2>3 DEF PopUnlistable, PopWith, TypeOK, Entries
<1>5. CASE AtEntry /\ Advance /\ queue' \in Seq(Ino) /\ reachable' \in SUBSET Ino
  <2>1. idx + 1 \in 1..(Len(Entries(image, dir)) + 1)
    BY <1>0, <1>5 DEF AtEntry
  <2> QED BY <1>0, <1>5, <2>1 DEF Advance, TypeOK, Entries
<1>6. CASE ScanSkip
  BY <1>0, <1>5, <1>6 DEF ScanSkip
<1>7. CASE ScanSeen
  BY <1>0, <1>5, <1>7 DEF ScanSeen
<1>8. CASE ScanDir
  <2>1. Current.ino \in Ino
    BY <1>8, CurrentFacts DEF ScanDir
  <2>2. Append(queue, Current.ino) \in Seq(Ino)
    BY <1>0, <2>1, PushFacts
  <2> QED BY <1>0, <1>5, <1>8, <2>1, <2>2 DEF ScanDir, Record
<1>9. CASE ScanFile
  <2>1. Current.ino \in Ino
    BY <1>9, CurrentFacts DEF ScanFile
  <2> QED BY <1>0, <1>5, <1>9, <2>1 DEF ScanFile, Record
<1>10. CASE ScanEnd
  BY <1>0, <1>10 DEF ScanEnd, TypeOK, Entries
<1>11. CASE UNCHANGED vars
  BY <1>0, <1>11 DEF vars, TypeOK, Entries
<1> QED
  BY <1>1, <1>2, <1>3, <1>4, <1>6, <1>7, <1>8, <1>9, <1>10, <1>11
     DEF Next, Walk, Terminating

(* How each action of the walk changes its bookkeeping.                    *)
LEMMA PendingStep == TypeOK /\ PendingIsRecorded /\ [Next]_vars => PendingIsRecorded'
<1> SUFFICES ASSUME TypeOK, PendingIsRecorded, [Next]_vars
             PROVE  PendingIsRecorded'
  OBVIOUS
<1>0. /\ queue \in Seq(Ino) /\ dir \in Ino
      /\ RootIno \in reachable /\ ToSet(queue) \subseteq reachable /\ dir \in reachable
      /\ TypesFaithful(image) =>
            image.is_dir[dir] /\ \A x \in ToSet(queue) : image.is_dir[x]
  BY DEF TypeOK, PendingIsRecorded
<1>1. CASE UNCHANGED <<image, queue, dir, reachable>>
  BY <1>0, <1>1 DEF PendingIsRecorded
<1>2. CASE BudgetSpent
  <2>1. ToSet(Front(queue)) \subseteq ToSet(queue)
    BY <1>0, <1>2, PopFacts DEF BudgetSpent
  <2> QED BY <1>0, <1>2, <2>1 DEF BudgetSpent, PendingIsRecorded
<1>3. CASE PopListed
  <2>1. ToSet(Front(queue)) \subseteq ToSet(queue) /\ Last(queue) \in ToSet(queue)
    BY <1>0, <1>3, PopFacts DEF PopListed, PopWith
  <2>2. image' = image /\ dir' = Last(queue)
        /\ queue' = Front(queue) /\ reachable' = reachable
    BY <1>3 DEF PopListed, PopWith
  <2> QED BY <1>0, <2>1, <2>2 DEF PendingIsRecorded
<1>4. CASE PopUnlistable
  <2>1. ToSet(Front(queue)) \subseteq ToSet(queue)
    BY <1>0, <1>4, PopFacts DEF PopUnlistable, PopWith
  <2> QED BY <1>0, <1>4, <2>1 DEF PopUnlistable, PopWith, PendingIsRecorded
<1>5. CASE ScanDir
  <2>1. Current.ino \in Ino /\ Current \in NamingEntries(image, dir)
    BY <1>5, CurrentFacts DEF ScanDir
  <2>2. ToSet(queue') = ToSet(queue) \cup {Current.ino}
    BY <1>0, <1>5, <2>1, PushFacts DEF ScanDir, Record
  <2>3. TypesFaithful(image) => image.is_dir[Current.ino]
    BY <1>0, <1>5, <2>1 DEF ScanDir, TypesFaithful
  <2>4. image' = image /\ dir' = dir /\ reachable' = reachable \cup {Current.ino}
    BY <1>5 DEF ScanDir, Record, Advance
  <2> QED BY <1>0, <2>2, <2>3, <2>4 DEF PendingIsRecorded
<1>6. CASE ScanFile
  BY <1>0, <1>6 DEF ScanFile, Record, Advance, PendingIsRecorded
<1> QED
  BY <1>1, <1>2, <1>3, <1>4, <1>5, <1>6
     DEF Next, Walk, Terminating, Drained, ScanSkip, ScanSeen, ScanEnd, Advance, vars

(* A directory all of whose entries have been dealt with is covered.       *)
LEMMA PrefixCovers ==
    ASSUME TypeOK, ScannedPrefix, idx > Len(Entries(image, dir))
    PROVE  Children(image, dir) \subseteq reachable
<1>1. /\ idx - 1 = Len(Entries(image, dir))
      /\ DOMAIN Entries(image, dir) = 1..Len(Entries(image, dir))
  BY ImageFacts DEF TypeOK
<1> QED BY <1>1 DEF ScannedPrefix, Children, NamingEntries, ToSet

(* Once the entry under the cursor is dealt with, the prefix grows by it.  *)
LEMMA PrefixGrows ==
    ASSUME TypeOK, AtEntry, Advance,
           reachable \subseteq reachable',
           Names(Current) => Current.ino \in reachable'
    PROVE  ScannedPrefix => ScannedPrefix'
<1> SUFFICES ASSUME ScannedPrefix, NEW i \in 1..(idx' - 1),
                    Names(Entries(image, dir)[i])
             PROVE  Entries(image, dir)[i].ino \in reachable'
  BY DEF ScannedPrefix, Advance, Entries
<1>1. idx \in Nat /\ idx' = idx + 1
  BY ImageFacts DEF TypeOK, Advance
<1>2. CASE i = idx
  BY <1>2 DEF Current
<1>3. CASE i # idx
  <2>1. i \in 1..(idx - 1)
    BY <1>1, <1>3
  <2> QED BY <2>1 DEF ScannedPrefix
<1> QED BY <1>2, <1>3

(* No step of the walk forgets a directory it has recorded.                *)
LEMMA ForgottenStep ==
    TypeOK /\ PendingIsRecorded /\ NothingForgotten /\ [Next]_vars => NothingForgotten'
<1> SUFFICES ASSUME TypeOK, PendingIsRecorded, NothingForgotten, [Next]_vars
             PROVE  NothingForgotten'
  OBVIOUS
<1>a. image' = image
  BY ImageIsFixed
<1> SUFFICES ASSUME TypesFaithful(image), pc' # "broke"
             PROVE  NothingForgotten'
  BY <1>a DEF NothingForgotten
<1> DEFINE Kept(x) == \/ ~image.is_dir[x]
                      \/ x \in ToSet(queue)
                      \/ pc = "scan" /\ x = dir /\ ScannedPrefix
                      \/ Children(image, x) \subseteq reachable
<1>0. queue \in Seq(Ino) /\ dir \in Ino /\ IsImage(image)
  BY DEF TypeOK
<1>1. pc # "broke"
  BY DEF Next, Walk, Terminating, Drained, BudgetSpent, PopListed, PopUnlistable,
         PopWith, ScanSkip, ScanSeen, ScanDir, ScanFile, ScanEnd, AtEntry, vars
<1>2. \A x \in reachable : Kept(x)
  BY <1>1 DEF NothingForgotten
<1>3. SUFFICES ASSUME NEW x \in reachable'
               PROVE  \/ ~image.is_dir[x]
                      \/ x \in ToSet(queue')
                      \/ pc' = "scan" /\ x = dir' /\ ScannedPrefix'
                      \/ Children(image, x) \subseteq reachable'
  BY <1>a DEF NothingForgotten
<1>4. CASE UNCHANGED vars
  <2>1. ScannedPrefix => ScannedPrefix'
    BY <1>4 DEF vars, ScannedPrefix, Entries
  <2> QED BY <1>2, <1>4, <2>1 DEF vars
<1>5. CASE Drained
  BY <1>2, <1>5 DEF Drained
<1>6. CASE BudgetSpent
  BY <1>6 DEF BudgetSpent
<1>7. CASE PopListed
  <2>1. ToSet(queue) = ToSet(queue') \cup {Last(queue)} /\ dir' = Last(queue)
    BY <1>0, <1>7, PopFacts DEF PopListed, PopWith
  <2>2. pc = "pop" /\ pc' = "scan" /\ idx' = 1 /\ reachable' = reachable
    BY <1>7 DEF PopListed, PopWith
  <2>3. ScannedPrefix'
    BY <2>2 DEF ScannedPrefix
  <2> QED BY <1>2, <2>1, <2>2, <2>3
<1>8. CASE PopUnlistable
  <2>1. ToSet(queue) = ToSet(queue') \cup {Last(queue)} /\ Last(queue) \in Ino
    BY <1>0, <1>8, PopFacts DEF PopUnlistable, PopWith
  <2>2. pc = "pop" /\ ~image.listing[Last(queue)].ok /\ reachable' = reachable
    BY <1>0, <1>8, <2>1, ImageFacts DEF PopUnlistable, PopWith
  <2>3. Children(image, Last(queue)) = {}
    <3>1. Entries(image, Last(queue)) = << >>
      BY <1>0, <2>1, <2>2, ImageFacts
    <3> QED BY <3>1 DEF Children, NamingEntries, ToSet
  <2> QED BY <1>2, <2>1, <2>2, <2>3
<1>9. ASSUME AtEntry, Advance, reachable \subseteq reachable',
             ToSet(queue) \subseteq ToSet(queue'),
             Names(Current) => Current.ino \in reachable',
             x \in reachable
      PROVE  \/ ~image.is_dir[x]
             \/ x \in ToSet(queue')
             \/ pc' = "scan" /\ x = dir' /\ ScannedPrefix'
             \/ Children(image, x) \subseteq reachable'
  <2>1. ScannedPrefix => ScannedPrefix'
    BY <1>9, PrefixGrows
  <2>2. pc' = pc /\ dir' = dir
    BY <1>9 DEF Advance
  <2> QED BY <1>2, <1>9, <2>1, <2>2
<1>10. CASE ScanSkip
  BY <1>9, <1>10 DEF ScanSkip
<1>11. CASE ScanSeen
  BY <1>9, <1>11 DEF ScanSeen
<1>12. CASE ScanDir
  <2>1. Current.ino \in Ino
    BY <1>12, CurrentFacts DEF ScanDir
  <2>2. /\ ToSet(queue') = ToSet(queue) \cup {Current.ino}
        /\ reachable' = reachable \cup {Current.ino}
    BY <1>0, <1>12, <2>1, PushFacts DEF ScanDir, Record
  <2>3. CASE x = Current.ino
    BY <2>2, <2>3
  <2>4. CASE x # Current.ino
    BY <1>9, <1>12, <2>2, <2>4 DEF ScanDir
  <2> QED BY <2>3, <2>4
<1>13. CASE ScanFile
  <2>1. Current \in NamingEntries(image, dir) /\ Current.ino \in Ino
    BY <1>13, CurrentFacts DEF ScanFile
  <2>2. image.is_dir[dir]
    BY DEF PendingIsRecorded
  <2>3. ~image.is_dir[Current.ino]
    BY <1>0, <1>13, <2>1, <2>2 DEF ScanFile, TypesFaithful
  <2>4. reachable' = reachable \cup {Current.ino} /\ queue' = queue
    BY <1>13 DEF ScanFile, Record
  <2>5. CASE x = Current.ino
    BY <2>3, <2>5
  <2>6. CASE x # Current.ino
    BY <1>9, <1>13, <2>4, <2>6 DEF ScanFile
  <2> QED BY <2>5, <2>6
<1>14. CASE ScanEnd
  <2>1. pc = "scan" /\ idx > Len(Entries(image, dir))
        /\ queue' = queue /\ reachable' = reachable
    BY <1>14 DEF ScanEnd
  <2>2. ScannedPrefix => Children(image, dir) \subseteq reachable
    BY <2>1, PrefixCovers
  <2> QED BY <1>2, <2>1, <2>2
<1> QED
  BY <1>4, <1>5, <1>6, <1>7, <1>8, <1>10, <1>11, <1>12, <1>13, <1>14
     DEF Next, Walk, Terminating

(* `contains` keeps every directory from being pending twice.              *)
LEMMA TwiceStep ==
    TypeOK /\ PendingIsRecorded /\ NoDirectoryTwice /\ [Next]_vars => NoDirectoryTwice'
<1> SUFFICES ASSUME TypeOK, PendingIsRecorded, NoDirectoryTwice, [Next]_vars
             PROVE  NoDirectoryTwice'
  OBVIOUS
<1>0. /\ queue \in Seq(Ino) /\ IsInjective(queue)
      /\ pc = "scan" => dir \notin ToSet(queue)
      /\ ToSet(queue) \subseteq reachable /\ dir \in reachable
  BY DEF TypeOK, NoDirectoryTwice, PendingIsRecorded
<1>1. CASE queue' = queue /\ (pc' = "scan" => pc = "scan" /\ dir' = dir)
  BY <1>0, <1>1 DEF NoDirectoryTwice
<1>2. CASE queue # << >> /\ queue' = Front(queue) /\ (pc' = "scan" => dir' = Last(queue))
  <2>1. IsInjective(Front(queue)) /\ Last(queue) \notin ToSet(Front(queue))
    BY <1>0, <1>2, PopKeepsDistinct
  <2> QED BY <1>2, <2>1 DEF NoDirectoryTwice
<1>3. CASE ScanDir
  <2>1. Current.ino \in Ino /\ Current.ino \notin reachable /\ dir' = dir /\ pc = "scan"
    BY <1>3, CurrentFacts DEF ScanDir, Advance, AtEntry
  <2>2. queue' = Append(queue, Current.ino)
    BY <1>3 DEF ScanDir, Record
  <2>3. ToSet(queue') = ToSet(queue) \cup {Current.ino} /\ IsInjective(queue')
    BY <1>0, <2>1, <2>2, PushFacts
  <2> QED BY <1>0, <2>1, <2>3 DEF NoDirectoryTwice
<1>4. CASE PopListed \/ PopUnlistable \/ BudgetSpent
  BY <1>2, <1>4 DEF PopListed, PopUnlistable, BudgetSpent, PopWith
<1>5. CASE Drained \/ ScanSkip \/ ScanSeen \/ ScanFile \/ ScanEnd \/ UNCHANGED vars
  BY <1>1, <1>5 DEF Drained, ScanSkip, ScanSeen, ScanFile, ScanEnd, Advance, Record, vars
<1> QED BY <1>3, <1>4, <1>5 DEF Next, Walk, Terminating

(* Each trip round the loop is paid for by a directory recorded once, so   *)
(* the break needs more than Budget of them.                               *)
LEMMA BudgetStep ==
    TypeOK /\ BudgetAccounts /\ [Next]_vars => BudgetAccounts'
<1> SUFFICES ASSUME TypeOK, BudgetAccounts, [Next]_vars
             PROVE  BudgetAccounts'
  OBVIOUS
<1> DEFINE D == CalledDir(image)
           C == Cardinality(reachable \cap D)
<1> HIDE DEF D
<1>0. /\ queue \in Seq(Ino) /\ Len(queue) \in Nat
      /\ budget \in 0..Budget /\ Budget \in Nat
      /\ pc \in {"pop", "scan", "done", "broke"}
  BY BudgetAssumption DEF TypeOK
<1>1. /\ IsFiniteSet(reachable)
      /\ pc # "broke" => (Budget - budget) + Len(queue) <= C
      /\ pc = "broke" => C > Budget
  BY DEF BudgetAccounts, D
<1>2. IsFiniteSet(reachable \cap D) /\ C \in Nat
  BY <1>1, FS_Intersection, FS_CardinalityType
<1>3. CalledDir(image') = D
  BY ImageIsFixed DEF D
<1>4. CASE Drained \/ ScanSkip \/ ScanSeen \/ ScanEnd \/ UNCHANGED vars
  <2>1. /\ UNCHANGED <<queue, reachable, budget>>
        /\ pc' = "broke" <=> pc = "broke"
    BY <1>0, <1>4 DEF Drained, ScanSkip, ScanSeen, ScanEnd, Advance, vars
  <2> QED BY <1>1, <1>3, <2>1 DEF BudgetAccounts, D
<1>5. CASE BudgetSpent
  <2>1. /\ pc = "pop" /\ budget = 0 /\ pc' = "broke" /\ reachable' = reachable
        /\ queue # << >>
    BY <1>5 DEF BudgetSpent
  <2>2. Len(queue) > 0
    BY <1>0, <2>1
  <2>3. C > Budget
    BY <1>0, <1>1, <1>2, <2>1, <2>2
  <2> QED BY <1>1, <1>3, <2>1, <2>3 DEF BudgetAccounts, D
<1>6. CASE PopListed \/ PopUnlistable
  <2>1. /\ pc = "pop" /\ pc' # "broke" /\ reachable' = reachable
        /\ queue # << >> /\ queue' = Front(queue) /\ budget' = budget - 1
    BY <1>6 DEF PopListed, PopUnlistable, PopWith
  <2>2. Len(queue') = Len(queue) - 1
    BY <1>0, <2>1, PopFacts
  <2>3. (Budget - budget') + Len(queue') <= C
    BY <1>0, <1>1, <1>2, <2>1, <2>2
  <2> QED BY <1>1, <1>3, <2>1, <2>3 DEF BudgetAccounts, D
<1>7. CASE ScanDir
  <2>1. /\ pc = "scan" /\ pc' = "scan" /\ budget' = budget
        /\ reachable' = reachable \cup {Current.ino}
        /\ queue' = Append(queue, Current.ino)
        /\ Current.ino \notin reachable
    BY <1>7 DEF ScanDir, AtEntry, Advance, Record
  <2>2. Current.ino \in Ino /\ Current.ino \in D
    BY <1>7, CurrentFacts DEF ScanDir, D
  <2>3. Len(queue') = Len(queue) + 1
    BY <1>0, <2>1, <2>2, PushFacts
  <2>4. reachable' \cap D = (reachable \cap D) \cup {Current.ino}
    BY <2>1, <2>2
  <2>5. Cardinality(reachable' \cap D) = C + 1
    BY <1>2, <2>1, <2>4, FS_AddElement
  <2>6. IsFiniteSet(reachable')
    BY <1>1, <2>1, FS_AddElement
  <2>7. (Budget - budget') + Len(queue') <= Cardinality(reachable' \cap D)
    BY <1>0, <1>1, <1>2, <2>1, <2>3, <2>5
  <2> QED BY <1>3, <2>1, <2>6, <2>7 DEF BudgetAccounts
<1>8. CASE ScanFile
  <2>1. /\ pc = "scan" /\ pc' = "scan" /\ budget' = budget /\ queue' = queue
        /\ reachable' = reachable \cup {Current.ino}
    BY <1>8 DEF ScanFile, AtEntry, Advance, Record
  <2>2. IsFiniteSet(reachable') /\ IsFiniteSet(reachable' \cap D)
    BY <1>1, <2>1, FS_AddElement, FS_Intersection
  <2>3. Cardinality(reachable' \cap D) \in Nat /\ C <= Cardinality(reachable' \cap D)
    <3>1. (reachable \cap D) \in SUBSET (reachable' \cap D)
      BY <2>1
    <3> QED BY <2>2, <3>1, FS_Subset, FS_CardinalityType
  <2>4. (Budget - budget') + Len(queue') <= Cardinality(reachable' \cap D)
    BY <1>0, <1>1, <1>2, <2>1, <2>3
  <2> QED BY <1>3, <2>1, <2>2, <2>4 DEF BudgetAccounts
<1> QED BY <1>4, <1>5, <1>6, <1>7, <1>8 DEF Next, Walk, Terminating

(* The entry under the cursor is an edge of the graph the walk explores.   *)
LEMMA CurrentIsEdge ==
    ASSUME TypeOK, PendingIsRecorded, AtEntry, Names(Current)
    PROVE  dir \in reachable /\ Current.ino \in Graph(image)[dir]
<1>1. dir \in Ino /\ dir \in reachable /\ (TypesFaithful(image) => image.is_dir[dir])
  BY DEF TypeOK, PendingIsRecorded
<1>2. Current.ino \in Children(image, dir)
  BY CurrentFacts
<1> QED BY <1>1, <1>2 DEF Graph, TreeChildren

(* The walk never leaves a set closed under the graph it explores.         *)
LEMMA InsideStep ==
    TypeOK /\ PendingIsRecorded /\ InsideClosedSets /\ [Next]_vars => InsideClosedSets'
<1> SUFFICES ASSUME TypeOK, PendingIsRecorded, InsideClosedSets, [Next]_vars,
                    NEW S \in SUBSET Ino, ClosedFromRoot(Graph(image'), S)
             PROVE  reachable' \subseteq S
  BY DEF InsideClosedSets
<1>1. ClosedFromRoot(Graph(image), S)
  BY ImageIsFixed
<1>2. reachable \subseteq S
  BY <1>1 DEF InsideClosedSets
<1>3. CASE reachable' = reachable
  BY <1>2, <1>3
<1>4. CASE ScanDir \/ ScanFile
  <2>1. /\ AtEntry /\ Names(Current)
        /\ reachable' = reachable \cup {Current.ino}
    BY <1>4 DEF ScanDir, ScanFile, Record
  <2>2. dir \in reachable /\ Current.ino \in Graph(image)[dir]
    BY <2>1, CurrentIsEdge
  <2> QED BY <1>1, <1>2, <2>1, <2>2 DEF ClosedFromRoot
<1> QED
  BY <1>3, <1>4
     DEF Next, Walk, Terminating, Drained, BudgetSpent, PopListed, PopUnlistable,
         ScanSkip, ScanSeen, ScanEnd, vars

(* The invariant holds initially.                                          *)
LEMMA WalkInit == Init => WalkInv
<1> SUFFICES ASSUME Init PROVE WalkInv
  OBVIOUS
<1>0. /\ IsImage(image) /\ RootIno \in Ino /\ Budget \in Nat
      /\ pc = "pop" /\ queue = <<RootIno>> /\ reachable = {RootIno}
      /\ budget = Budget /\ dir = RootIno /\ idx = 1
  BY ImagesAssumption, InoAssumption, BudgetAssumption DEF Init
<1>1. ToSet(queue) = {RootIno} /\ IsInjective(queue) /\ Len(queue) = 1
      /\ queue \in Seq(Ino)
  BY <1>0 DEF ToSet, IsInjective
<1>2. TypeOK
  <2>1. Len(Entries(image, dir)) \in Nat
    BY <1>0, ImageFacts
  <2> QED BY <1>0, <1>1, <2>1 DEF TypeOK
<1>3. PendingIsRecorded
  BY <1>0, <1>1 DEF PendingIsRecorded, TypesFaithful
<1>4. NothingForgotten
  BY <1>0, <1>1 DEF NothingForgotten
<1>5. NoDirectoryTwice
  BY <1>0, <1>1 DEF NoDirectoryTwice
<1>6. BudgetAccounts
  <2>1. reachable \cap CalledDir(image) = {RootIno}
    BY <1>0 DEF CalledDir
  <2>2. IsFiniteSet({RootIno}) /\ Cardinality({RootIno}) = 1
    BY FS_Singleton
  <2> QED BY <1>0, <1>1, <2>1, <2>2 DEF BudgetAccounts
<1>7. InsideClosedSets
  BY <1>0 DEF InsideClosedSets, ClosedFromRoot
<1>8. DoneIsDrained
  BY <1>0 DEF DoneIsDrained
<1> QED BY <1>2, <1>3, <1>4, <1>5, <1>6, <1>7, <1>8 DEF WalkInv

(* The walk is done only with an empty queue.                              *)
LEMMA DrainedStep == DoneIsDrained /\ [Next]_vars => DoneIsDrained'
  BY DEF DoneIsDrained, Next, Walk, Terminating, Drained, BudgetSpent, PopListed,
         PopUnlistable, PopWith, ScanSkip, ScanSeen, ScanDir, ScanFile, ScanEnd,
         AtEntry, Advance, vars

(* The invariant is inductive.                                             *)
LEMMA WalkStep == WalkInv /\ [Next]_vars => WalkInv'
  BY TypeStep, PendingStep, DrainedStep, ForgottenStep, TwiceStep, BudgetStep, InsideStep
     DEF WalkInv

(* Every reachable state of reachable_inodes satisfies WalkInv.            *)
THEOREM WalkInvariant == Spec => []WalkInv
  BY WalkInit, WalkStep, PTL DEF Spec

(* The walk's locals keep their types: the cursor stays within one past    *)
(* the end of the entries and the budget never underflows.                 *)
THEOREM TypeCorrect == Spec => []TypeOK
<1>1. WalkInv => TypeOK
  BY DEF WalkInv
<1> QED BY <1>1, WalkInvariant, PTL

(* reachable_inodes records only inodes that a chain of live slots joins   *)
(* to the root.                                                            *)
THEOREM WalkIsSound == Spec => []OnlyNamedInodes
<1>1. WalkInv => OnlyNamedInodes
  <2> SUFFICES ASSUME WalkInv, NEW S \in SUBSET Ino,
                      ClosedFromRoot([d \in Ino |-> Children(image, d)], S)
               PROVE  reachable \subseteq S
    BY DEF OnlyNamedInodes
  <2>1. ClosedFromRoot(Graph(image), S)
    BY DEF ClosedFromRoot, Graph, TreeChildren
  <2> QED BY <2>1 DEF WalkInv, InsideClosedSets
<1> QED BY <1>1, WalkInvariant, PTL

(* When the queue drains and the types are faithful, the walk has recorded *)
(* a closed set.                                                           *)
LEMMA DrainedIsClosed ==
    ASSUME WalkInv, TypesFaithful(image), pc \in {"pop", "done"}, queue = << >>
    PROVE  \A x \in reachable : TreeChildren(image, x) \subseteq reachable
<1>1. ToSet(queue) = {}
  BY DEF ToSet
<1> QED BY <1>1 DEF WalkInv, NothingForgotten, TreeChildren

(* That closed set is the least one, so it is what the tree reaches.       *)
LEMMA DrainedIsExact == WalkInv => DrainedWalkIsReachability
<1> DEFINE T == [d \in Ino |-> TreeChildren(image, d)]
<1> SUFFICES ASSUME WalkInv, pc = "done", TypesFaithful(image)
             PROVE  reachable = ReachableFrom(T)
  BY DEF DrainedWalkIsReachability
<1>1. Graph(image) = T
  BY DEF Graph
<1>2. /\ reachable \in SUBSET Ino /\ RootIno \in reachable
      /\ \A S \in SUBSET Ino : ClosedFromRoot(T, S) => reachable \subseteq S
  BY <1>1 DEF WalkInv, TypeOK, PendingIsRecorded, InsideClosedSets
<1>3. ClosedFromRoot(T, reachable)
  <2>1. \A x \in reachable : TreeChildren(image, x) \subseteq reachable
    BY DrainedIsClosed DEF WalkInv, DoneIsDrained
  <2> QED BY <1>2, <2>1 DEF ClosedFromRoot
<1> HIDE DEF T
<1> QED BY <1>2, <1>3 DEF ReachableFrom

(* A drained walk of an image with faithful types has recorded exactly the *)
(* inodes the directory tree reaches: no referenced inode is an orphan.    *)
THEOREM WalkIsExact == Spec => []DrainedWalkIsReachability
  BY DrainedIsExact, WalkInvariant, PTL

(* The break of reachable_inodes is out of reach of every image with at    *)
(* most Budget directories, however cyclic.                                *)
THEOREM BreakNeedsManyDirectories == Spec => []BreakMeansManyDirectories
<1>1. WalkInv => BreakMeansManyDirectories
  BY DEF WalkInv, BudgetAccounts, BreakMeansManyDirectories
<1> QED BY <1>1, WalkInvariant, PTL

(* No directory is ever pending twice, nor while it is being scanned.      *)
THEOREM EachDirectoryOnce == Spec => []NoDirectoryTwice
<1>1. WalkInv => NoDirectoryTwice
  BY DEF WalkInv
<1> QED BY <1>1, WalkInvariant, PTL

(* The walk implements the abstract search: it starts where DirSearch      *)
(* starts, and each of its steps is a discovery, a verdict or a stutter.   *)
THEOREM WalkRefinesSearch == Spec => ImplementsSearch
<1>1. Init => Search!Init
  <2> SUFFICES ASSUME Init PROVE Search!Init
    OBVIOUS
  <2>1. TypeOK
    BY WalkInit DEF WalkInv
  <2>2. \A d \in Ino : Children(image, d) \subseteq Ino
    <3> SUFFICES ASSUME NEW d \in Ino, NEW e \in NamingEntries(image, d)
                 PROVE  e.ino \in Ino
      BY DEF Children
    <3>1. Entries(image, d) \in Seq(DirEntry)
      BY <2>1, ImageFacts DEF TypeOK
    <3>2. e \in DirEntry /\ Names(e)
      BY <3>1 DEF NamingEntries, ToSet
    <3> QED BY <3>2 DEF DirEntry, Names, Deleted
  <2>3. Graph(image) \in [Ino -> SUBSET Ino]
    BY <2>2 DEF Graph, TreeChildren
  <2> QED BY <2>3 DEF Init, Search!Init, Returned
<1>2. WalkInv /\ [Next]_vars => [Search!Next]_(Search!vars)
  <2> SUFFICES ASSUME WalkInv, [Next]_vars PROVE [Search!Next]_(Search!vars)
    OBVIOUS
  <2>0. image' = image /\ Graph(image') = Graph(image)
        /\ (TypesFaithful(image') <=> TypesFaithful(image))
    BY ImageIsFixed
  <2>1. CASE ScanDir \/ ScanFile
    <3>1. /\ AtEntry /\ Names(Current) /\ Current.ino \notin reachable
          /\ reachable' = reachable \cup {Current.ino}
          /\ pc = "scan" /\ pc' = "scan"
      BY <2>1 DEF ScanDir, ScanFile, Record, AtEntry, Advance
    <3>2. dir \in reachable /\ Current.ino \in Graph(image)[dir]
      BY <3>1, CurrentIsEdge DEF WalkInv
    <3>3. Search!Discover
      BY <2>0, <3>1, <3>2 DEF Search!Discover, Returned
    <3> QED BY <3>3 DEF Search!Next
  <2>2. CASE Drained
    <3>1. /\ pc = "pop" /\ queue = << >> /\ pc' = "done" /\ reachable' = reachable
      BY <2>2 DEF Drained
    <3>2. CASE TypesFaithful(image)
      <4>1. \A x \in reachable : Graph(image)[x] \subseteq reachable
        <5>1. \A x \in reachable : TreeChildren(image, x) \subseteq reachable
          BY <3>1, <3>2, DrainedIsClosed
        <5>2. reachable \subseteq Ino
          BY DEF WalkInv, TypeOK
        <5> QED BY <3>2, <5>1, <5>2 DEF Graph
      <4>2. Search!Conclude
        BY <2>0, <3>1, <3>2, <4>1 DEF Search!Conclude, Returned
      <4> QED BY <4>2 DEF Search!Next
    <3>3. CASE ~TypesFaithful(image)
      <4>1. Search!GiveUp
        BY <2>0, <3>1, <3>3 DEF Search!GiveUp, Returned
      <4> QED BY <4>1 DEF Search!Next
    <3> QED BY <3>2, <3>3
  <2>3. CASE BudgetSpent
    <3>1. Search!GiveUp
      BY <2>0, <2>3 DEF BudgetSpent, Search!GiveUp, Returned
    <3> QED BY <3>1 DEF Search!Next
  <2>4. CASE \/ PopListed \/ PopUnlistable \/ ScanSkip \/ ScanSeen \/ ScanEnd
             \/ UNCHANGED vars
    <3>1. /\ reachable' = reachable
          /\ (Returned' <=> Returned) /\ (pc' = "done" <=> pc = "done")
      BY <2>4 DEF PopListed, PopUnlistable, PopWith, ScanSkip, ScanSeen, ScanEnd,
                  AtEntry, Advance, Returned, vars
    <3> QED BY <2>0, <3>1 DEF Search!vars
  <2> QED BY <2>1, <2>2, <2>3, <2>4 DEF Next, Walk, Terminating
<1> QED BY <1>1, <1>2, WalkInvariant, PTL DEF Spec, ImplementsSearch, Search!Spec
-----------------------------------------------------------------------------

(* A step of the sweep is a step of the walk or leaves the walk alone.     *)
LEMMA SweepIsWalk == [SweepNext]_allVars => [Next]_vars
  BY DEF SweepNext, Sweep, WalkOn, StartSweep, SkipGroup, EnterGroup, Flag, Pass,
         LeaveGroup, EndSweep, Next, allVars

(* No step after the walk touches what the walk recorded.                  *)
LEMMA AfterTheWalk ==
    [SweepNext]_allVars /\ phase # "walk" => UNCHANGED <<image, pc, reachable>>
  BY DEF SweepNext, Sweep, WalkOn, StartSweep, SkipGroup, EnterGroup, Flag, Pass,
         LeaveGroup, EndSweep, allVars, vars

LEMMA PositionStep == SweepPosition /\ [SweepNext]_allVars => SweepPosition'
<1> SUFFICES ASSUME SweepPosition, [SweepNext]_allVars PROVE SweepPosition'
  OBVIOUS
<1>1. CASE WalkOn
  BY <1>1, GroupAssumption DEF SweepPosition, WalkOn, sweepVars
<1>2. CASE StartSweep
  BY <1>2, GroupAssumption DEF SweepPosition, StartSweep, Returned, vars
<1>3. CASE SkipGroup
  BY <1>3, GroupAssumption DEF SweepPosition, SkipGroup, Returned, vars
<1>4. CASE EnterGroup
  BY <1>4, GroupAssumption DEF SweepPosition, EnterGroup, Returned, vars
<1>5. CASE Flag
  BY <1>5, GroupAssumption DEF SweepPosition, Flag, Returned, vars
<1>6. CASE Pass
  BY <1>6, GroupAssumption DEF SweepPosition, Pass, Returned, vars
<1>7. CASE LeaveGroup
  BY <1>7, GroupAssumption DEF SweepPosition, LeaveGroup, Returned, vars
<1>8. CASE EndSweep
  BY <1>8, GroupAssumption DEF SweepPosition, EndSweep, Returned, vars
<1>9. CASE UNCHANGED allVars
  BY <1>9, GroupAssumption DEF SweepPosition, allVars, sweepVars, vars, Returned
<1> QED BY <1>1, <1>2, <1>3, <1>4, <1>5, <1>6, <1>7, <1>8, <1>9 DEF SweepNext, Sweep

(* The sweep deals with one number at a time: before the frontier it is    *)
(* done, and the number at the frontier is the one of the current group    *)
(* and position.                                                           *)
LEMMA FrontierNumber ==
    ASSUME SweepPosition, phase = "inode", within < Ipg
    PROVE  /\ ino \in Nat /\ Frontier = ino
           /\ ino \div Ipg = cg /\ ino % Ipg = within
           /\ cg < Ncg /\ ino < total
<1>1. /\ Ipg \in Nat \ {0} /\ cg \in Nat /\ within \in 0..(Ipg - 1)
      /\ Ncg \in Nat /\ cg + 1 <= Ncg
  BY GroupAssumption DEF SweepPosition
<1>2. cg * Ipg + within < (cg + 1) * Ipg
  BY <1>1
<1>3. (cg + 1) * Ipg <= Ncg * Ipg
  BY <1>1
<1> QED BY <1>1, <1>2, <1>3, PositionOf DEF ino, total, Frontier

(* The inode under the sweep is flagged exactly when it is allocated,      *)
(* linked and was not reached.                                             *)
LEMMA FlagExact ==
    ASSUME SweepPosition, phase = "inode", within < Ipg
    PROVE  IsOrphan <=> ino \in AllocatedOutside(reachable)
<1>1. /\ ino \in Nat /\ ino \div Ipg = cg /\ ino % Ipg = within
      /\ cg < Ncg /\ ino < total /\ image.bitmap[cg].ok /\ RootIno \in Nat
      /\ Ncg \in Nat /\ Ipg \in Int /\ total \in Int /\ total = Ipg * Ncg
  BY FrontierNumber, GroupAssumption, InoAssumption DEF SweepPosition, total
<1>2. ino > RootIno => ino \in Ino
  BY <1>1, GroupAssumption
<1> HIDE DEF ino, total
<1> QED BY <1>1, <1>2 DEF IsOrphan, AllocatedOutside

LEMMA FlaggedStep ==
    WalkInv /\ SweepPosition /\ FlaggedSoFar /\ [SweepNext]_allVars => FlaggedSoFar'
<1> SUFFICES ASSUME WalkInv, SweepPosition, FlaggedSoFar, [SweepNext]_allVars
             PROVE  FlaggedSoFar'
  OBVIOUS
<1> DEFINE A == AllocatedOutside(reachable)
<1>0. /\ Ipg \in Int /\ Ncg \in Nat /\ Ino \subseteq Nat
      /\ cg \in Nat /\ within \in Nat /\ A \subseteq Ino /\ RootIno \in Nat
      /\ orphans \in Seq(Ino)
  <2>1. orphans \in Seq(Ino)
    BY DEF FlaggedSoFar
  <2>2. Ino \subseteq Nat /\ RootIno \in Nat
    BY InoAssumption
  <2> QED BY <2>1, <2>2, GroupAssumption DEF SweepPosition, AllocatedOutside
<1>a. phase # "walk" => AllocatedOutside(reachable)' = A
  BY AfterTheWalk DEF AllocatedOutside
<1>b. \A i \in A : i \in Nat /\ image.bitmap[i \div Ipg].ok /\ i < total
  BY <1>0 DEF AllocatedOutside
<1> HIDE DEF A
<1>1. CASE WalkOn
  BY <1>1 DEF WalkOn, sweepVars, FlaggedSoFar
<1>2. CASE StartSweep
  <2>1. /\ phase = "walk" /\ cg = 0 /\ cg' = 0 /\ orphans = << >> /\ orphans' = << >>
        /\ phase' \in {"group", "end"}
    BY <1>2 DEF StartSweep, SweepPosition, FlaggedSoFar
  <2>2. Frontier' = 0
    BY <1>0, <2>1 DEF Frontier
  <2>3. AllocatedOutside(reachable)' \subseteq Ino
    BY DEF AllocatedOutside
  <2>4. ToSet(orphans') = {}
    BY <2>1 DEF ToSet
  <2>5. { i \in AllocatedOutside(reachable)' : i < Frontier' } = {}
    <3>1. ASSUME NEW i \in AllocatedOutside(reachable)' PROVE ~(i < 0)
      <4>1. i \in Nat
        BY <2>3, InoAssumption
      <4> QED BY <4>1
    <3> QED BY <2>2, <3>1
  <2> QED BY <2>1, <2>4, <2>5 DEF FlaggedSoFar
<1>3. CASE SkipGroup
  <2>1. /\ phase = "group" /\ phase' = "group" /\ cg' = cg + 1 /\ orphans' = orphans
        /\ cg < Ncg /\ ~image.bitmap[cg].ok /\ Ipg \in Nat \ {0}
    BY <1>0, <1>3 DEF SkipGroup, SweepPosition
  <2>2. Frontier = cg * Ipg /\ Frontier' = (cg + 1) * Ipg
    BY <1>0, <2>1 DEF Frontier
  <2>3. ASSUME NEW i \in A PROVE i < Frontier' <=> i < Frontier
    <3>1. i \in Nat /\ i \div Ipg # cg
      BY <1>b, <2>1
    <3>2. /\ i \div Ipg \in Nat
          /\ i < cg * Ipg <=> i \div Ipg < cg
          /\ i < (cg + 1) * Ipg <=> i \div Ipg < cg + 1
      <4>1. cg + 1 \in Nat
        BY <1>0
      <4> QED BY <1>0, <2>1, <3>1, <4>1, GroupRange, NumberOf
    <3> QED BY <1>0, <2>2, <3>1, <3>2
  <2> QED BY <1>a, <2>1, <2>3 DEF FlaggedSoFar, A
<1>4. CASE EnterGroup
  <2>1. /\ phase = "group" /\ phase' = "inode" /\ cg' = cg /\ within' = 0 /\ orphans' = orphans
    BY <1>4 DEF EnterGroup
  <2>2. Frontier' = Frontier
    BY <1>0, <2>1 DEF Frontier
  <2> QED BY <1>a, <2>1, <2>2 DEF FlaggedSoFar, A
<1>5. CASE Flag \/ Pass
  <2>1. /\ phase = "inode" /\ phase' = "inode" /\ cg' = cg /\ within' = within + 1 /\ within < Ipg
        /\ Ipg > 0
    BY <1>5 DEF Flag, Pass, SweepPosition
  <2>2. Frontier = ino /\ ino \in Nat /\ Frontier' = ino + 1
    <3>1. Frontier = ino /\ ino \in Nat
      BY <2>1, FrontierNumber
    <3> QED BY <1>0, <2>1, <3>1 DEF Frontier, ino
  <2>3. ToSet(orphans) = { i \in A : i < ino }
        /\ \A j, k \in DOMAIN orphans : j < k => orphans[j] < orphans[k]
    BY <2>1, <2>2 DEF FlaggedSoFar, A
  <2> HIDE DEF ino
  <2>4. { i \in A : i < ino + 1 } = { i \in A : i < ino } \cup (A \cap {ino})
    <3>1. ASSUME NEW i \in A PROVE i < ino + 1 <=> i < ino \/ i = ino
      <4>1. i \in Nat
        BY <1>0
      <4> QED BY <2>2, <4>1
    <3> QED BY <2>2, <3>1
  <2>5. CASE Pass
    <3>1. orphans' = orphans /\ ino \notin A
      BY <2>1, <2>5, FlagExact DEF Pass, A
    <3>2. ToSet(orphans') = { i \in A : i < ino + 1 }
      BY <2>3, <2>4, <3>1
    <3> QED BY <1>0, <1>a, <2>1, <2>2, <2>3, <3>1, <3>2 DEF FlaggedSoFar, A
  <2>6. CASE Flag
    <3>1. orphans' = Append(orphans, ino) /\ ino \in A /\ ino \in Ino
      BY <1>0, <2>1, <2>6, FlagExact DEF Flag, A
    <3>2. ToSet(orphans') = ToSet(orphans) \cup {ino} /\ orphans' \in Seq(Ino)
      BY <1>0, <3>1, PushFacts
    <3>3. ToSet(orphans') = { i \in A : i < ino + 1 }
      BY <2>3, <2>4, <3>1, <3>2
    <3>4. \A j, k \in DOMAIN orphans' : j < k => orphans'[j] < orphans'[k]
      <4>1. \A x \in ToSet(orphans) : x < ino
        BY <2>3
      <4> QED BY <1>0, <2>2, <2>3, <3>1, <4>1, PushAscends
    <3> QED BY <1>a, <2>1, <2>2, <3>2, <3>3, <3>4 DEF FlaggedSoFar, A
  <2> QED BY <1>5, <2>5, <2>6
<1>6. CASE LeaveGroup
  <2>1. /\ phase = "inode" /\ phase' = "group" /\ cg' = cg + 1 /\ orphans' = orphans
        /\ within = Ipg
    BY <1>0, <1>6 DEF LeaveGroup, SweepPosition
  <2>2. Frontier' = Frontier
    BY <1>0, <2>1 DEF Frontier
  <2> QED BY <1>a, <2>1, <2>2 DEF FlaggedSoFar, A
<1>7. CASE EndSweep
  <2>1. phase = "group" /\ phase' = "end" /\ cg' = cg /\ orphans' = orphans
    BY <1>7 DEF EndSweep
  <2>2. Frontier' = Frontier
    BY <1>0, <2>1 DEF Frontier
  <2> QED BY <1>a, <2>1, <2>2 DEF FlaggedSoFar, A
<1>8. CASE UNCHANGED allVars
  BY <1>8 DEF allVars, sweepVars, vars, FlaggedSoFar, Frontier, AllocatedOutside
<1> QED BY <1>1, <1>2, <1>3, <1>4, <1>5, <1>6, <1>7, <1>8 DEF SweepNext, Sweep

(* Every reachable state of check_orphaned_inodes satisfies SweepInv.      *)
THEOREM SweepInvariant == SweepSpec => []SweepInv
<1>1. SweepInit => SweepInv
  <2> SUFFICES ASSUME SweepInit PROVE SweepInv
    OBVIOUS
  <2>1. WalkInv
    BY WalkInit DEF SweepInit
  <2>2. SweepPosition
    BY GroupAssumption DEF SweepInit, SweepPosition
  <2>3. FlaggedSoFar
    BY DEF SweepInit, FlaggedSoFar
  <2> QED BY <2>1, <2>2, <2>3 DEF SweepInv
<1>2. SweepInv /\ [SweepNext]_allVars => SweepInv'
  BY SweepIsWalk, WalkStep, PositionStep, FlaggedStep DEF SweepInv
<1> QED BY <1>1, <1>2, PTL DEF SweepSpec

(* check_orphaned_inodes flags exactly the true orphans, each once and in  *)
(* ascending order, when the types are faithful and the directories fit    *)
(* the budget: a walk that broke would have recorded more directories than *)
(* the image has.                                                          *)
THEOREM OrphansAreExact == SweepSpec => []OrphansExact
<1>1. SweepInv => OrphansExact
  <2> SUFFICES ASSUME SweepInv, phase = "end", Ipg > 0, TypesFaithful(image),
                      Cardinality(CalledDir(image)) <= Budget
               PROVE  /\ ToSet(orphans) = TrueOrphans
                      /\ \A j, k \in DOMAIN orphans : j < k => orphans[j] < orphans[k]
    BY DEF OrphansExact
  <2>1. pc = "done"
    <3> SUFFICES ASSUME pc = "broke" PROVE FALSE
      BY DEF SweepInv, SweepPosition, Returned
    <3>1. IsImage(image) /\ IsFiniteSet(Ino)
      BY GroupAssumption DEF SweepInv, WalkInv, TypeOK
    <3>2. CalledDir(image) \subseteq Ino
      <4>1. ASSUME NEW d \in Ino PROVE DirChildren(image, d) \subseteq Ino
        <5>1. ASSUME NEW e \in NamingEntries(image, d) PROVE e.ino \in Ino
          <6>1. e \in DirEntry /\ Names(e)
            BY <3>1, ImageFacts DEF NamingEntries, ToSet
          <6> QED BY <6>1 DEF DirEntry, Names, Deleted
        <5> QED BY <5>1 DEF DirChildren
      <4> QED BY <4>1, InoAssumption DEF CalledDir
    <3>3. IsFiniteSet(CalledDir(image)) /\ Cardinality(CalledDir(image)) \in Nat
      BY <3>1, <3>2, FS_Subset, FS_CardinalityType
    <3>4. /\ reachable \cap CalledDir(image) \in SUBSET CalledDir(image)
          /\ Cardinality(reachable \cap CalledDir(image)) \in Nat
          /\ Cardinality(reachable \cap CalledDir(image)) <= Cardinality(CalledDir(image))
      <4>1. reachable \cap CalledDir(image) \in SUBSET CalledDir(image)
        OBVIOUS
      <4> QED BY <3>3, <4>1, FS_Subset, FS_CardinalityType
    <3>5. Cardinality(reachable \cap CalledDir(image)) > Budget
      BY DEF SweepInv, WalkInv, BudgetAccounts
    <3> QED BY <3>3, <3>4, <3>5, BudgetAssumption
  <2>2. reachable = ReachableFrom([d \in Ino |-> TreeChildren(image, d)])
    BY <2>1, DrainedIsExact DEF SweepInv, DrainedWalkIsReachability
  <2>3. Frontier = total
    BY GroupAssumption DEF SweepInv, SweepPosition, Frontier, total
  <2>4. ToSet(orphans) = AllocatedOutside(reachable)
    <3>1. \A i \in AllocatedOutside(reachable) : i < Frontier
      BY <2>3 DEF AllocatedOutside
    <3> QED BY <3>1 DEF SweepInv, FlaggedSoFar
  <2> QED BY <2>2, <2>4 DEF TrueOrphans, SweepInv, FlaggedSoFar
<1> QED BY <1>1, SweepInvariant, PTL
=============================================================================
