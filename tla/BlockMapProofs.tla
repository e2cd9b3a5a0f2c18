--------------------------- MODULE BlockMapProofs ---------------------------
(***************************************************************************)
(* read_inode_file keeps its counters together and implements the file     *)
(* stream, for every file, block size and fan-out: the divisions and       *)
(* remainders of resolve_block count through the leaves of the block map   *)
(* in tree order.                                                          *)
(***************************************************************************)
EXTENDS BlockMap, CommonLemmas, SequenceTheorems

(* The fan-out is a natural, whatever fs_nindir says.                      *)
LEMMA FanoutType ==
    ASSUME NEW f, IsFile(f)
    PROVE  Fanout(f) \in Nat
  BY DEF Fanout, IsFile

(* The divisions of the triple level: splitting off the top digit first,   *)
(* as resolve_block does, gives the same three digits as counting.         *)
LEMMA ThreeDigits ==
    ASSUME NEW n \in Nat \ {0}, NEW i \in Nat
    PROVE  /\ (i % (n * n)) \div n = (i \div n) % n
           /\ (i % (n * n)) % n = i % n
           /\ i \div (n * n) = (i \div n) \div n
<1> DEFINE q == i \div n
           z == i % n
           x == q \div n
           y == q % n
<1>1. q \in Nat /\ z \in 0..(n - 1) /\ i = q * n + z
  BY NumberOf
<1>2. x \in Nat /\ y \in 0..(n - 1) /\ q = x * n + y
  <2> HIDE DEF q
  <2>1. q \in Nat
    BY <1>1
  <2> QED BY <2>1, NumberOf
<1> HIDE DEF q, z, x, y
<1>3. n * n \in Nat \ {0}
  OBVIOUS
<1>4. y * n + z \in 0..(n * n - 1) /\ y * n + z \in Nat
  <2>1. y * n <= (n - 1) * n
    BY <1>2
  <2> QED BY <1>1, <1>2, <2>1
<1>5. i = x * (n * n) + (y * n + z)
  BY <1>1, <1>2
<1>6. i \div (n * n) = x /\ i % (n * n) = y * n + z
  <2> DEFINE m == n * n
             w == y * n + z
  <2>1. m \in Nat \ {0} /\ w \in 0..(m - 1) /\ i = x * m + w
    BY <1>3, <1>4, <1>5
  <2> HIDE DEF m, w
  <2>2. i \div m = x /\ i % m = w
    BY <1>2, <2>1, PositionOf
  <2> QED BY <2>2 DEF m, w
<1>7. (y * n + z) \div n = y /\ (y * n + z) % n = z
  BY <1>1, <1>2, PositionOf
<1> QED BY <1>6, <1>7 DEF q, z, x, y

(* resolve_block reads the leaf of the slot its block index stands for.    *)
LEMMA ResolvesToLeaf ==
    ASSUME NEW f, IsFile(f), NEW b \in Nat
    PROVE  resolve_block(f, b, Fanout(f)) = Leaf(f, SlotOf(f, b))
<1> DEFINE n == Fanout(f)
           i1 == b - UFS_NDADDR
           i2 == i1 - n
           i3 == i2 - n * n
<1>0. n \in Nat /\ UFS_NDADDR \in Nat \ {0}
  BY FanoutType, TreeAssumption
<1>1. CASE b < UFS_NDADDR
  BY <1>1 DEF resolve_block, SlotOf, Leaf
<1>2. CASE ~(b < UFS_NDADDR) /\ n = 0
  <2>1. ~(i1 < n) /\ ~(i2 < n * n) /\ ~(i3 < n * n * n)
    BY <1>0, <1>2
  <2>2. SlotOf(f, b) = EndSlot
    BY <1>2, <2>1 DEF SlotOf
  <2> QED BY <1>2, <2>2 DEF resolve_block, Leaf, EndSlot, UFS_NIADDR
<1>3. CASE ~(b < UFS_NDADDR) /\ n # 0
  <2>1. CASE i1 < n
    BY <1>3, <2>1 DEF resolve_block, SlotOf, Leaf
  <2>2. CASE ~(i1 < n) /\ i2 < n * n
    BY <1>3, <2>2 DEF resolve_block, SlotOf, Leaf
  <2>3. CASE ~(i1 < n) /\ ~(i2 < n * n) /\ i3 < n * n * n
    <3>1. i3 \in Nat
      BY <1>0, <1>3, <2>3
    <3> DEFINE d == <<i3 \div (n * n), (i3 \div n) % n, i3 % n>>
    <3>2. SlotOf(f, b) = [level |-> 3, digits |-> d]
      BY <1>3, <2>3 DEF SlotOf
    <3>3. Leaf(f, SlotOf(f, b)) =
            indirect_ptr(f, indirect_ptr(f, indirect_ptr(f, f.indirect[2], d[1]), d[2]), d[3])
      BY <3>2 DEF Leaf
    <3>4. ~(i3 >= n * n * n)
      BY <1>0, <3>1, <2>3
    <3>5. resolve_block(f, b, n) =
            indirect_ptr(f, indirect_ptr(f, indirect_ptr(f, f.indirect[2], i3 \div (n * n)),
                                            (i3 % (n * n)) \div n), (i3 % (n * n)) % n)
      BY <1>3, <2>3, <3>4 DEF resolve_block
    <3>6. (i3 % (n * n)) \div n = d[2] /\ (i3 % (n * n)) % n = d[3] /\ i3 \div (n * n) = d[1]
      <4> HIDE DEF n, i3
      <4>1. (i3 % (n * n)) \div n = (i3 \div n) % n /\ (i3 % (n * n)) % n = i3 % n
        BY <1>0, <1>3, <3>1, ThreeDigits
      <4> QED BY <4>1
    <3> QED BY <3>3, <3>5, <3>6
  <2>4. CASE ~(i1 < n) /\ ~(i2 < n * n) /\ ~(i3 < n * n * n)
    <3>1. SlotOf(f, b) = EndSlot
      BY <1>3, <2>4 DEF SlotOf
    <3>2. i3 >= n * n * n
      BY <1>0, <1>3, <2>4
    <3>3. resolve_block(f, b, n) = 0
      BY <1>3, <2>4, <3>2 DEF resolve_block
    <3> QED BY <3>1, <3>3 DEF Leaf, EndSlot, UFS_NIADDR
  <2> QED BY <2>1, <2>2, <2>3, <2>4
<1> QED BY <1>1, <1>2, <1>3

(* The next slot when digit k is the last that can still count: it counts, *)
(* the ones behind it start again.                                         *)
LEMMA NextOfLevel ==
    ASSUME NEW f, NEW l \in 0..UFS_NIADDR, NEW d, NEW k \in DOMAIN d \cap Nat,
           DOMAIN d \subseteq Nat,
           d[k] < Base(f, l) - 1,
           \A j \in DOMAIN d : j > k => ~(d[j] < Base(f, l) - 1)
    PROVE  NextSlot(f, [level |-> l, digits |-> d]) =
             [level |-> l, digits |-> [ j \in DOMAIN d |->
                IF j < k THEN d[j] ELSE IF j = k THEN d[j] + 1 ELSE 0 ]]
<1> DEFINE s == [level |-> l, digits |-> d]
           open == { m \in DOMAIN d : d[m] < Base(f, l) - 1 }
           c == CHOOSE m \in open : \A n \in open : n <= m
<1>1. s.level = l /\ s.digits = d /\ s # EndSlot
  BY DEF EndSlot, UFS_NIADDR
<1>2. k \in open /\ \A n \in open : n <= k
  OBVIOUS
<1>3. c \in open /\ \A n \in open : n <= c
  BY <1>2
<1>4. c = k
  BY <1>2, <1>3
<1>5. open # {}
  BY <1>2
<1>6. NextSlot(f, s) = [s EXCEPT !.digits = [ j \in DOMAIN d |->
          IF j < c THEN d[j] ELSE IF j = c THEN d[j] + 1 ELSE 0 ]]
  BY <1>1, <1>5 DEF NextSlot
<1> HIDE DEF c, open
<1> QED BY <1>4, <1>6

(* The next slot when no digit can count any more.                         *)
LEMMA NextLevelUp ==
    ASSUME NEW f, NEW l \in 0..UFS_NIADDR, NEW d,
           \A j \in DOMAIN d : ~(d[j] < Base(f, l) - 1)
    PROVE  NextSlot(f, [level |-> l, digits |-> d]) = FirstOfLevel(f, l + 1)
<1> DEFINE s == [level |-> l, digits |-> d]
<1>1. s.level = l /\ s.digits = d /\ s # EndSlot
  BY DEF EndSlot, UFS_NIADDR
<1>2. { k \in DOMAIN d : d[k] < Base(f, l) - 1 } = {}
  OBVIOUS
<1> QED BY <1>1, <1>2 DEF NextSlot

(* The successor of a number in digits: the last digit counts, or starts   *)
(* again and the rest counts.                                              *)
LEMMA CountUp ==
    ASSUME NEW n \in Nat \ {0}, NEW i \in Nat
    PROVE  /\ i % n < n - 1  => (i + 1) \div n = i \div n /\ (i + 1) % n = (i % n) + 1
           /\ i % n = n - 1  => (i + 1) \div n = i \div n + 1 /\ (i + 1) % n = 0
<1> DEFINE q == i \div n
           z == i % n
<1>1. q \in Nat /\ z \in 0..(n - 1) /\ i = q * n + z
  BY NumberOf
<1> HIDE DEF q, z
<1>2. CASE z < n - 1
  <2>1. i + 1 = q * n + (z + 1) /\ z + 1 \in 0..(n - 1)
    BY <1>1, <1>2
  <2>2. (i + 1) \div n = q /\ (i + 1) % n = z + 1
    BY <1>1, <2>1, PositionOf
  <2> QED BY <1>1, <1>2, <2>2 DEF q, z
<1>3. CASE z = n - 1
  <2> DEFINE c == q + 1
             w == z - (n - 1)
  <2>1. i + 1 = c * n + w /\ w \in 0..(n - 1) /\ c \in Nat /\ w = 0
    BY <1>1, <1>3
  <2> HIDE DEF c, w
  <2>2. (i + 1) \div n = c /\ (i + 1) % n = w
    BY <2>1, PositionOf
  <2>3. (i + 1) \div n = q + 1 /\ (i + 1) % n = 0
    BY <2>1, <2>2 DEF c
  <2> QED BY <1>1, <1>3, <2>3 DEF q, z
<1> QED BY <1>1, <1>2, <1>3 DEF z

(* Counting within and out of a level of two digits.                       *)
LEMMA NextOfTwo ==
    ASSUME NEW f, Fanout(f) \in Nat \ {0}, NEW i \in Nat, i < Fanout(f) * Fanout(f)
    PROVE  LET n == Fanout(f)
               S(j) == [level |-> 2, digits |-> <<j \div n, j % n>>]
           IN  /\ i + 1 < n * n => NextSlot(f, S(i)) = S(i + 1)
               /\ i + 1 = n * n => NextSlot(f, S(i)) = FirstOfLevel(f, 3)
<1> DEFINE n == Fanout(f)
           q == i \div n
           r == i % n
           d == <<q, r>>
           s == [level |-> 2, digits |-> d]
<1>1. q \in Nat /\ r \in 0..(n - 1) /\ i = q * n + r
  BY NumberOf
<1>2. Base(f, 2) = n /\ 2 \in 0..UFS_NIADDR
  BY DEF Base, UFS_NIADDR
<1>3. /\ r < n - 1  => (i + 1) \div n = q /\ (i + 1) % n = r + 1
      /\ r = n - 1  => (i + 1) \div n = q + 1 /\ (i + 1) % n = 0
  BY CountUp
<1>4. n \in Nat \ {0} /\ i \in Nat /\ i < n * n
  OBVIOUS
<1> HIDE DEF n, q, r
<1>5. q < n
  <2>1. SUFFICES ASSUME q >= n PROVE FALSE
    BY <1>1, <1>4
  <2>2. q * n >= n * n
    BY <1>1, <1>4, <2>1
  <2> QED BY <1>1, <1>4, <2>2
<1>6. DOMAIN d = 1..2 /\ d[1] = q /\ d[2] = r
  OBVIOUS
<1>7. CASE r < n - 1
  <2>1. NextSlot(f, s) = [level |-> 2, digits |-> [ j \in DOMAIN d |->
            IF j < 2 THEN d[j] ELSE IF j = 2 THEN d[j] + 1 ELSE 0 ]]
    <3> HIDE DEF d
    <3>1. /\ 2 \in DOMAIN d \cap Nat /\ DOMAIN d \subseteq Nat
          /\ d[2] < Base(f, 2) - 1
          /\ \A j \in DOMAIN d : j > 2 => ~(d[j] < Base(f, 2) - 1)
      BY <1>2, <1>6, <1>7
    <3> QED BY <1>2, <3>1, NextOfLevel
  <2>2. [ j \in DOMAIN d |-> IF j < 2 THEN d[j] ELSE IF j = 2 THEN d[j] + 1 ELSE 0 ] = <<q, r + 1>>
    BY <1>6
  <2>3. i + 1 # n * n
    <3>1. q * n <= (n - 1) * n
      BY <1>1, <1>4, <1>5
    <3> QED BY <1>1, <1>4, <1>7, <3>1
  <2> QED BY <1>3, <1>7, <2>1, <2>2, <2>3 DEF n, q, r
<1>8. CASE r = n - 1 /\ q < n - 1
  <2>1. NextSlot(f, s) = [level |-> 2, digits |-> [ j \in DOMAIN d |->
            IF j < 1 THEN d[j] ELSE IF j = 1 THEN d[j] + 1 ELSE 0 ]]
    <3> HIDE DEF d
    <3>1. /\ 1 \in DOMAIN d \cap Nat /\ DOMAIN d \subseteq Nat
          /\ d[1] < Base(f, 2) - 1
          /\ \A j \in DOMAIN d : j > 1 => ~(d[j] < Base(f, 2) - 1)
      BY <1>2, <1>4, <1>6, <1>8
    <3> QED BY <1>2, <3>1, NextOfLevel
  <2>2. [ j \in DOMAIN d |-> IF j < 1 THEN d[j] ELSE IF j = 1 THEN d[j] + 1 ELSE 0 ] = <<q + 1, 0>>
    BY <1>6
  <2>3. i + 1 # n * n
    <3>1. (q + 1) * n <= (n - 1) * n
      BY <1>1, <1>4, <1>8
    <3> QED BY <1>1, <1>4, <1>8, <3>1
  <2> QED BY <1>3, <1>8, <2>1, <2>2, <2>3 DEF n, q, r
<1>9. CASE r = n - 1 /\ q = n - 1
  <2>1. i + 1 = n * n
    BY <1>1, <1>4, <1>9
  <2>2. NextSlot(f, s) = FirstOfLevel(f, 2 + 1)
    <3> HIDE DEF d
    <3>1. \A j \in DOMAIN d : ~(d[j] < Base(f, 2) - 1)
      BY <1>2, <1>4, <1>6, <1>9
    <3> QED BY <1>2, <3>1, NextLevelUp
  <2>3. ~(i + 1 < n * n)
    BY <1>4, <2>1
  <2> QED BY <2>2, <2>3 DEF n, q, r
<1> QED BY <1>1, <1>4, <1>5, <1>7, <1>8, <1>9

(* Counting within and out of a level of three digits.                     *)
LEMMA NextOfThree ==
    ASSUME NEW f, Fanout(f) \in Nat \ {0}, NEW i \in Nat,
           i < Fanout(f) * Fanout(f) * Fanout(f)
    PROVE  LET n == Fanout(f)
               S(j) == [level |-> 3, digits |-> <<j \div (n * n), (j \div n) % n, j % n>>]
           IN  /\ i + 1 < n * n * n => NextSlot(f, S(i)) = S(i + 1)
               /\ i + 1 = n * n * n => NextSlot(f, S(i)) = EndSlot
<1> DEFINE n == Fanout(f)
           S(j) == [level |-> 3, digits |-> <<j \div (n * n), (j \div n) % n, j % n>>]
           q == i \div n
           z == i % n
           x == q \div n
           y == q % n
           d == <<x, y, z>>
           s == [level |-> 3, digits |-> d]
<1>1. q \in Nat /\ z \in 0..(n - 1) /\ i = q * n + z
  BY NumberOf
<1>2. Base(f, 3) = n /\ 3 \in 0..UFS_NIADDR
  BY DEF Base, UFS_NIADDR
<1>3. /\ z < n - 1  => (i + 1) \div n = q /\ (i + 1) % n = z + 1
      /\ z = n - 1  => (i + 1) \div n = q + 1 /\ (i + 1) % n = 0
  BY CountUp
<1>4. n \in Nat \ {0} /\ i \in Nat /\ i < n * n * n /\ n * n \in Nat
  OBVIOUS
<1> HIDE DEF n
<1> SUFFICES /\ i + 1 < n * n * n => NextSlot(f, S(i)) = S(i + 1)
             /\ i + 1 = n * n * n => NextSlot(f, S(i)) = EndSlot
  BY DEF n
<1>5. x \in Nat /\ y \in 0..(n - 1) /\ q = x * n + y
  <2> HIDE DEF q
  <2> QED BY <1>1, <1>4, NumberOf
<1>6. /\ y < n - 1  => (q + 1) \div n = x /\ (q + 1) % n = y + 1
      /\ y = n - 1  => (q + 1) \div n = x + 1 /\ (q + 1) % n = 0
  <2> HIDE DEF q
  <2> QED BY <1>1, <1>4, CountUp
<1>7. (i + 1) \div (n * n) = ((i + 1) \div n) \div n /\ i \div (n * n) = q \div n
  <2>1. i + 1 \in Nat
    BY <1>4
  <2> QED BY <1>4, <2>1, ThreeDigits
<1>8. S(i) = s
  BY <1>7
<1> HIDE DEF q, z, x, y
<1>9. DOMAIN d = 1..3 /\ d[1] = x /\ d[2] = y /\ d[3] = z
  OBVIOUS
<1>10. x < n /\ q <= n * n - 1
  <2>1. q < n * n
    <3>1. SUFFICES ASSUME q >= n * n PROVE FALSE
      BY <1>1, <1>4
    <3>2. q * n >= n * n * n
      BY <1>1, <1>4, <3>1
    <3> QED BY <1>1, <1>4, <3>2
  <2>2. SUFFICES ASSUME x >= n PROVE FALSE
    BY <1>1, <1>4, <1>5, <2>1
  <2>3. x * n >= n * n
    BY <1>4, <1>5, <2>2
  <2> QED BY <1>4, <1>5, <2>1, <2>3
<1>11. CASE z < n - 1
  <2>1. NextSlot(f, s) = [level |-> 3, digits |-> [ j \in DOMAIN d |->
            IF j < 3 THEN d[j] ELSE IF j = 3 THEN d[j] + 1 ELSE 0 ]]
    <3> HIDE DEF d
    <3>1. /\ 3 \in DOMAIN d \cap Nat /\ DOMAIN d \subseteq Nat
          /\ d[3] < Base(f, 3) - 1
          /\ \A j \in DOMAIN d : j > 3 => ~(d[j] < Base(f, 3) - 1)
      BY <1>2, <1>4, <1>9, <1>11
    <3> QED BY <1>2, <3>1, NextOfLevel
  <2>2. [ j \in DOMAIN d |-> IF j < 3 THEN d[j] ELSE IF j = 3 THEN d[j] + 1 ELSE 0 ] = <<x, y, z + 1>>
    BY <1>9
  <2>3. i + 1 # n * n * n
    <3>1. q * n <= (n * n - 1) * n
      BY <1>1, <1>4, <1>10
    <3> QED BY <1>1, <1>4, <1>11, <3>1
  <2>4. S(i + 1) = [level |-> 3, digits |-> <<x, y, z + 1>>]
    BY <1>1, <1>3, <1>4, <1>5, <1>6, <1>7, <1>11 DEF x, y
  <2> QED BY <1>8, <2>1, <2>2, <2>3, <2>4
<1>12. CASE z = n - 1 /\ y < n - 1
  <2>1. NextSlot(f, s) = [level |-> 3, digits |-> [ j \in DOMAIN d |->
            IF j < 2 THEN d[j] ELSE IF j = 2 THEN d[j] + 1 ELSE 0 ]]
    <3> HIDE DEF d
    <3>1. /\ 2 \in DOMAIN d \cap Nat /\ DOMAIN d \subseteq Nat
          /\ d[2] < Base(f, 3) - 1
          /\ \A j \in DOMAIN d : j > 2 => ~(d[j] < Base(f, 3) - 1)
      BY <1>2, <1>4, <1>9, <1>12
    <3> QED BY <1>2, <3>1, NextOfLevel
  <2>2. [ j \in DOMAIN d |-> IF j < 2 THEN d[j] ELSE IF j = 2 THEN d[j] + 1 ELSE 0 ] = <<x, y + 1, 0>>
    BY <1>9
  <2>3. i + 1 # n * n * n
    <3>1. q + 1 < n * n
      <4>1. x * n <= (n - 1) * n
        BY <1>4, <1>5, <1>10
      <4> QED BY <1>4, <1>5, <1>12, <4>1
    <3>2. (q + 1) * n < n * n * n
      BY <1>1, <1>4, <3>1
    <3> QED BY <1>1, <1>4, <1>12, <3>2
  <2>4. S(i + 1) = [level |-> 3, digits |-> <<x, y + 1, 0>>]
    BY <1>1, <1>3, <1>4, <1>5, <1>6, <1>7, <1>12
  <2> QED BY <1>8, <2>1, <2>2, <2>3, <2>4
<1>13. CASE z = n - 1 /\ y = n - 1 /\ x < n - 1
  <2>1. NextSlot(f, s) = [level |-> 3, digits |-> [ j \in DOMAIN d |->
            IF j < 1 THEN d[j] ELSE IF j = 1 THEN d[j] + 1 ELSE 0 ]]
    <3> HIDE DEF d
    <3>1. /\ 1 \in DOMAIN d \cap Nat /\ DOMAIN d \subseteq Nat
          /\ d[1] < Base(f, 3) - 1
          /\ \A j \in DOMAIN d : j > 1 => ~(d[j] < Base(f, 3) - 1)
      BY <1>2, <1>4, <1>9, <1>13
    <3> QED BY <1>2, <3>1, NextOfLevel
  <2>2. [ j \in DOMAIN d |-> IF j < 1 THEN d[j] ELSE IF j = 1 THEN d[j] + 1 ELSE 0 ] = <<x + 1, 0, 0>>
    BY <1>9
  <2>3. i + 1 # n * n * n
    <3>1. q + 1 < n * n
      <4>1. (x + 1) * n <= (n - 1) * n
        BY <1>4, <1>5, <1>13
      <4> QED BY <1>4, <1>5, <1>13, <4>1
    <3>2. (q + 1) * n < n * n * n
      BY <1>1, <1>4, <3>1
    <3> QED BY <1>1, <1>4, <1>13, <3>2
  <2>4. S(i + 1) = [level |-> 3, digits |-> <<x + 1, 0, 0>>]
    BY <1>1, <1>3, <1>4, <1>5, <1>6, <1>7, <1>13
  <2> QED BY <1>8, <2>1, <2>2, <2>3, <2>4
<1>14. CASE z = n - 1 /\ y = n - 1 /\ x = n - 1
  <2>1. q = n * n - 1
    BY <1>4, <1>5, <1>14
  <2>2. i + 1 = n * n * n
    BY <1>1, <1>4, <1>14, <2>1
  <2>3. NextSlot(f, s) = FirstOfLevel(f, 3 + 1)
    <3> HIDE DEF d
    <3>1. \A j \in DOMAIN d : ~(d[j] < Base(f, 3) - 1)
      BY <1>2, <1>4, <1>9, <1>14
    <3> QED BY <1>2, <3>1, NextLevelUp
  <2>4. FirstOfLevel(f, 3 + 1) = EndSlot
    BY DEF FirstOfLevel, UFS_NIADDR
  <2>5. ~(i + 1 < n * n * n)
    BY <1>4, <2>2
  <2> QED BY <1>8, <2>3, <2>4, <2>5
<1> QED BY <1>1, <1>4, <1>5, <1>10, <1>11, <1>12, <1>13, <1>14

(* The next block index stands for the next leaf in tree order.            *)
LEMMA SlotsInOrder ==
    ASSUME NEW f, IsFile(f), NEW b \in Nat
    PROVE  NextSlot(f, SlotOf(f, b)) = SlotOf(f, b + 1)
<1> DEFINE n == Fanout(f)
           i1 == b - UFS_NDADDR
           i2 == i1 - n
           i3 == i2 - n * n
<1>0. n \in Nat /\ UFS_NDADDR \in Nat \ {0} /\ n * n \in Nat /\ n * n * n \in Nat
  BY FanoutType, TreeAssumption
<1>1. /\ (b + 1) - UFS_NDADDR = i1 + 1
      /\ (i1 + 1) - n = i2 + 1
      /\ (i2 + 1) - n * n = i3 + 1
  BY <1>0
<1>2. SlotOf(f, b + 1) =
        IF b + 1 < UFS_NDADDR THEN [level |-> 0, digits |-> <<b + 1>>]
        ELSE IF i1 + 1 < n THEN [level |-> 1, digits |-> <<i1 + 1>>]
        ELSE IF i2 + 1 < n * n THEN [level |-> 2, digits |-> <<(i2 + 1) \div n, (i2 + 1) % n>>]
        ELSE IF i3 + 1 < n * n * n
             THEN [level |-> 3, digits |-> <<(i3 + 1) \div (n * n), ((i3 + 1) \div n) % n, (i3 + 1) % n>>]
        ELSE EndSlot
  BY <1>1 DEF SlotOf
<1>3. /\ FirstOfLevel(f, 1) = IF n = 0 THEN EndSlot ELSE [level |-> 1, digits |-> <<0>>]
      /\ FirstOfLevel(f, 2) = IF n = 0 THEN EndSlot ELSE [level |-> 2, digits |-> <<0, 0>>]
      /\ FirstOfLevel(f, 3) = IF n = 0 THEN EndSlot ELSE [level |-> 3, digits |-> <<0, 0, 0>>]
  <2>1. /\ [k \in 1..1 |-> 0] = <<0>>
        /\ [k \in 1..2 |-> 0] = <<0, 0>>
        /\ [k \in 1..3 |-> 0] = <<0, 0, 0>>
    OBVIOUS
  <2> QED BY <2>1 DEF FirstOfLevel, UFS_NIADDR
<1>4. CASE b < UFS_NDADDR
  <2> DEFINE d == <<b>>
  <2>1. SlotOf(f, b) = [level |-> 0, digits |-> d] /\ DOMAIN d = 1..1 /\ d[1] = b
    BY <1>4 DEF SlotOf
  <2>2. Base(f, 0) = UFS_NDADDR /\ 0 \in 0..UFS_NIADDR
    BY DEF Base, UFS_NIADDR
  <2>3. CASE b + 1 < UFS_NDADDR
    <3>1. NextSlot(f, SlotOf(f, b)) = [level |-> 0, digits |-> [ j \in DOMAIN d |->
              IF j < 1 THEN d[j] ELSE IF j = 1 THEN d[j] + 1 ELSE 0 ]]
      <4> HIDE DEF d
      <4>1. /\ 1 \in DOMAIN d \cap Nat /\ DOMAIN d \subseteq Nat
            /\ d[1] < Base(f, 0) - 1
            /\ \A j \in DOMAIN d : j > 1 => ~(d[j] < Base(f, 0) - 1)
        BY <1>0, <2>1, <2>2, <2>3
      <4> QED BY <2>1, <2>2, <4>1, NextOfLevel
    <3>2. [ j \in DOMAIN d |-> IF j < 1 THEN d[j] ELSE IF j = 1 THEN d[j] + 1 ELSE 0 ] = <<b + 1>>
      BY <2>1
    <3> QED BY <1>2, <2>3, <3>1, <3>2
  <2>4. CASE ~(b + 1 < UFS_NDADDR)
    <3>1. NextSlot(f, SlotOf(f, b)) = FirstOfLevel(f, 0 + 1)
      <4> HIDE DEF d
      <4>1. \A j \in DOMAIN d : ~(d[j] < Base(f, 0) - 1)
        BY <1>0, <2>1, <2>2, <2>4
      <4> QED BY <2>1, <2>2, <4>1, NextLevelUp
    <3>2. i1 + 1 = 0
      BY <1>0, <1>4, <2>4
    <3>3. CASE n = 0
      <4>1. ~(i1 + 1 < n) /\ ~(i2 + 1 < n * n) /\ ~(i3 + 1 < n * n * n)
        BY <1>0, <3>2, <3>3
      <4> QED BY <1>2, <1>3, <2>4, <3>1, <3>3, <4>1
    <3>4. CASE n # 0
      BY <1>0, <1>2, <1>3, <2>4, <3>1, <3>2, <3>4
    <3> QED BY <3>3, <3>4
  <2> QED BY <2>3, <2>4
<1>5. CASE ~(b < UFS_NDADDR) /\ i1 < n
  <2> DEFINE d == <<i1>>
  <2>0. i1 \in Nat /\ n \in Nat \ {0} /\ ~(b + 1 < UFS_NDADDR)
    BY <1>0, <1>5
  <2>1. SlotOf(f, b) = [level |-> 1, digits |-> d] /\ DOMAIN d = 1..1 /\ d[1] = i1
    BY <1>5 DEF SlotOf
  <2>2. Base(f, 1) = n /\ 1 \in 0..UFS_NIADDR
    BY DEF Base, UFS_NIADDR
  <2>3. CASE i1 + 1 < n
    <3>1. NextSlot(f, SlotOf(f, b)) = [level |-> 1, digits |-> [ j \in DOMAIN d |->
              IF j < 1 THEN d[j] ELSE IF j = 1 THEN d[j] + 1 ELSE 0 ]]
      <4> HIDE DEF d, n, i1
      <4>1. /\ 1 \in DOMAIN d \cap Nat /\ DOMAIN d \subseteq Nat
            /\ d[1] < Base(f, 1) - 1
            /\ \A j \in DOMAIN d : j > 1 => ~(d[j] < Base(f, 1) - 1)
        BY <2>0, <2>1, <2>2, <2>3
      <4> QED BY <2>1, <2>2, <4>1, NextOfLevel
    <3>2. [ j \in DOMAIN d |-> IF j < 1 THEN d[j] ELSE IF j = 1 THEN d[j] + 1 ELSE 0 ] = <<i1 + 1>>
      BY <2>1
    <3> QED BY <1>2, <2>0, <2>3, <3>1, <3>2
  <2>4. CASE ~(i1 + 1 < n)
    <3>1. NextSlot(f, SlotOf(f, b)) = FirstOfLevel(f, 1 + 1)
      <4> HIDE DEF d, n, i1
      <4>1. \A j \in DOMAIN d : ~(d[j] < Base(f, 1) - 1)
        BY <2>0, <2>1, <2>2, <2>4
      <4> QED BY <2>1, <2>2, <4>1, NextLevelUp
    <3>2. i2 + 1 = 0 /\ i2 + 1 < n * n
      BY <1>0, <1>5, <2>0, <2>4
    <3>3. 0 \div n = 0 /\ 0 % n = 0
      <4> HIDE DEF n
      <4> QED BY <2>0
    <3>4. SlotOf(f, b + 1) = [level |-> 2, digits |-> <<0, 0>>]
      <4> HIDE DEF n, i1, i2, i3
      <4> QED BY <1>2, <2>0, <2>4, <3>2, <3>3
    <3> QED BY <1>3, <2>0, <3>1, <3>4
  <2> QED BY <2>3, <2>4
<1>6. CASE ~(b < UFS_NDADDR) /\ ~(i1 < n) /\ i2 < n * n
  <2>0. i2 \in Nat /\ n \in Nat \ {0} /\ ~(b + 1 < UFS_NDADDR) /\ ~(i1 + 1 < n)
    BY <1>0, <1>6
  <2>1. SlotOf(f, b) = [level |-> 2, digits |-> <<i2 \div n, i2 % n>>]
    BY <1>6 DEF SlotOf
  <2>2. /\ i2 + 1 < n * n => NextSlot(f, SlotOf(f, b)) =
              [level |-> 2, digits |-> <<(i2 + 1) \div n, (i2 + 1) % n>>]
        /\ i2 + 1 = n * n => NextSlot(f, SlotOf(f, b)) = FirstOfLevel(f, 3)
    <3> HIDE DEF i2
    <3> QED BY <1>6, <2>0, <2>1, NextOfTwo
  <2>3. CASE i2 + 1 < n * n
    BY <1>2, <2>0, <2>2, <2>3
  <2>4. CASE ~(i2 + 1 < n * n)
    <3>1. i2 + 1 = n * n /\ i3 + 1 = 0 /\ 0 < n * n * n
      BY <1>0, <1>6, <2>0, <2>4
    <3>2. 0 \div n = 0 /\ 0 % n = 0 /\ 0 \div (n * n) = 0
      <4> DEFINE m == n * n
      <4>1. m \in Nat \ {0}
        BY <2>0
      <4> HIDE DEF m, n
      <4>2. 0 \div m = 0
        BY <4>1
      <4>3. 0 \div n = 0 /\ 0 % n = 0
        BY <2>0
      <4> QED BY <4>2, <4>3 DEF m
    <3>3. SlotOf(f, b + 1) = [level |-> 3, digits |-> <<0, 0, 0>>]
      <4> HIDE DEF n, i1, i2, i3
      <4> QED BY <1>2, <2>0, <2>4, <3>1, <3>2
    <3> QED BY <1>3, <2>0, <2>2, <3>1, <3>3
  <2> QED BY <2>3, <2>4
<1>7. CASE ~(b < UFS_NDADDR) /\ ~(i1 < n) /\ ~(i2 < n * n) /\ i3 < n * n * n
  <2>0. /\ i3 \in Nat /\ n \in Nat \ {0} /\ ~(b + 1 < UFS_NDADDR)
        /\ ~(i1 + 1 < n) /\ ~(i2 + 1 < n * n)
    BY <1>0, <1>7
  <2>1. SlotOf(f, b) = [level |-> 3, digits |-> <<i3 \div (n * n), (i3 \div n) % n, i3 % n>>]
    BY <1>7 DEF SlotOf
  <2>2. /\ i3 + 1 < n * n * n => NextSlot(f, SlotOf(f, b)) =
              [level |-> 3, digits |-> <<(i3 + 1) \div (n * n), ((i3 + 1) \div n) % n, (i3 + 1) % n>>]
        /\ i3 + 1 = n * n * n => NextSlot(f, SlotOf(f, b)) = EndSlot
    <3> HIDE DEF i3
    <3> QED BY <1>7, <2>0, <2>1, NextOfThree
  <2>3. i3 + 1 < n * n * n \/ i3 + 1 = n * n * n
    BY <1>0, <1>7, <2>0
  <2>4. i3 + 1 = n * n * n => ~(i3 + 1 < n * n * n)
    BY <1>0, <2>0
  <2> HIDE DEF n, i1, i2, i3
  <2> QED BY <1>2, <2>0, <2>2, <2>3, <2>4
<1>8. CASE ~(b < UFS_NDADDR) /\ ~(i1 < n) /\ ~(i2 < n * n) /\ ~(i3 < n * n * n)
  <2>1. SlotOf(f, b) = EndSlot
    BY <1>8 DEF SlotOf
  <2>2. /\ ~(b + 1 < UFS_NDADDR) /\ ~(i1 + 1 < n)
        /\ ~(i2 + 1 < n * n) /\ ~(i3 + 1 < n * n * n)
    BY <1>0, <1>8
  <2>3. NextSlot(f, EndSlot) = EndSlot
    BY DEF NextSlot
  <2> HIDE DEF n, i1, i2, i3
  <2> QED BY <1>2, <2>1, <2>2, <2>3
<1> QED BY <1>4, <1>5, <1>6, <1>7, <1>8

-----------------------------------------------------------------------------

(* indirect_ptr yields an address whatever the index.                      *)
LEMMA PointerType ==
    ASSUME NEW f, IsFile(f), NEW a \in Addr, NEW i \in Nat
    PROVE  indirect_ptr(f, a, i) \in Addr
<1>1. CASE a # 0 /\ i < Len(f.ptrs[a])
  <2>1. f.ptrs[a] \in Seq(Addr)
    BY <1>1 DEF IsFile
  <2>2. i + 1 \in 1..Len(f.ptrs[a])
    BY <1>1, <2>1
  <2> QED BY <1>1, <2>1, <2>2 DEF indirect_ptr
<1>2. CASE ~(a # 0 /\ i < Len(f.ptrs[a]))
  BY <1>2, TreeAssumption DEF indirect_ptr
<1> QED BY <1>1, <1>2

(* resolve_block yields an address for every block index.                  *)
LEMMA ResolveType ==
    ASSUME NEW f, IsFile(f), NEW b \in Nat
    PROVE  resolve_block(f, b, Fanout(f)) \in Addr
<1> DEFINE n == Fanout(f)
           i == b - UFS_NDADDR
           i2 == i - n
           i3 == i2 - n * n
<1>0. n \in Nat /\ UFS_NDADDR \in Nat \ {0} /\ 0 \in Addr
  BY FanoutType, TreeAssumption
<1>1. CASE b < UFS_NDADDR
  <2>1. b \in 0..(UFS_NDADDR - 1)
    BY <1>0, <1>1
  <2> QED BY <1>1, <2>1 DEF resolve_block, IsFile
<1>2. CASE ~(b < UFS_NDADDR) /\ n = 0
  BY <1>0, <1>2 DEF resolve_block
<1>3. CASE ~(b < UFS_NDADDR) /\ n # 0
  <2>0. f.indirect[0] \in Addr /\ f.indirect[1] \in Addr /\ f.indirect[2] \in Addr
    BY DEF IsFile, UFS_NIADDR
  <2>1. CASE i < n
    <3>1. i \in Nat
      BY <1>0, <1>3
    <3> QED BY <1>3, <2>0, <2>1, <3>1, PointerType DEF resolve_block
  <2>2. CASE ~(i < n) /\ i2 < n * n
    <3>1. i2 \in Nat
      BY <1>0, <1>3, <2>2
    <3>2. i2 \div n \in Nat /\ i2 % n \in Nat
      <4> HIDE DEF i2, n
      <4> QED BY <1>0, <1>3, <3>1, NumberOf
    <3>3. indirect_ptr(f, indirect_ptr(f, f.indirect[1], i2 \div n), i2 % n) \in Addr
      BY <2>0, <3>2, PointerType
    <3> QED BY <1>3, <2>2, <3>3 DEF resolve_block
  <2>3. CASE ~(i < n) /\ ~(i2 < n * n) /\ ~(i3 >= n * n * n)
    <3> DEFINE m == n * n
               r == i3 % m
    <3>1. i3 \in Nat /\ m \in Nat \ {0}
      BY <1>0, <1>3, <2>3
    <3>2. i3 \div m \in Nat /\ r \in Nat
      <4> HIDE DEF i3, m
      <4> QED BY <3>1, NumberOf
    <3>3. r \div n \in Nat /\ r % n \in Nat
      <4> HIDE DEF r, n
      <4> QED BY <1>0, <1>3, <3>2, NumberOf
    <3>4. indirect_ptr(f, indirect_ptr(f, indirect_ptr(f, f.indirect[2], i3 \div m), r \div n), r % n) \in Addr
      <4>1. indirect_ptr(f, f.indirect[2], i3 \div m) \in Addr
        BY <2>0, <3>2, PointerType
      <4>2. indirect_ptr(f, indirect_ptr(f, f.indirect[2], i3 \div m), r \div n) \in Addr
        BY <3>3, <4>1, PointerType
      <4> QED BY <3>3, <4>2, PointerType
    <3> QED BY <1>3, <2>3, <3>4 DEF resolve_block
  <2>4. CASE ~(i < n) /\ ~(i2 < n * n) /\ i3 >= n * n * n
    BY <1>0, <1>3, <2>4 DEF resolve_block
  <2> QED BY <2>1, <2>2, <2>3, <2>4
<1> QED BY <1>1, <1>2, <1>3

(* What CopyBlock copies over the zeros.                                   *)
Present(f, addr, len) == IF addr = 0 THEN << >> ELSE read_block(f, addr, len)

(* That is a run of bytes no longer than read_block was asked for.         *)
LEMMA PresentFacts ==
    ASSUME NEW f, IsFile(f), NEW a \in Addr, NEW len \in Nat
    PROVE  /\ Present(f, a, len) \in Seq(Byte)
           /\ Len(Present(f, a, len)) \in 0..len
<1>1. CASE a = 0
  BY <1>1 DEF Present
<1>2. CASE a # 0
  <2> DEFINE d == f.data[a]
             m == IF len < Len(d) THEN len ELSE Len(d)
  <2>1. d \in Seq(Byte)
    BY <1>2 DEF IsFile
  <2> HIDE DEF d
  <2>2. m \in 0..Len(d) /\ m \in 0..len /\ m \in Int
    BY <2>1
  <2> HIDE DEF m
  <2>3. 1 \in Int /\ m \in Int /\ \A j \in 1..m : d[j] \in Byte
    BY <2>1, <2>2
  <2>4. /\ SubSeq(d, 1, m) \in Seq(Byte)
        /\ Len(SubSeq(d, 1, m)) = IF 1 <= m THEN m - 1 + 1 ELSE 0
    BY <2>3
  <2>5. Present(f, a, len) = SubSeq(d, 1, m)
    BY <1>2 DEF Present, read_block, d, m
  <2> QED BY <2>2, <2>4, <2>5
<1> QED BY <1>1, <1>2

(* div_ceil counts the blocks that begin inside the file.                  *)
LEMMA BlocksInside ==
    ASSUME NEW s \in Nat, NEW w \in Nat \ {0}, NEW b \in Nat
    PROVE  b < (s + w - 1) \div w <=> b * w < s
<1> DEFINE i == s + w - 1
           c == b + 1
<1>1. i \in Nat /\ c \in Nat
  OBVIOUS
<1>2. i < c * w <=> i \div w < c
  <2> HIDE DEF i, c
  <2> QED BY <1>1, GroupRange
<1>3. i < c * w <=> ~(b * w < s)
  OBVIOUS
<1>4. i \div w < c <=> ~(b < i \div w)
  <2>1. i \div w \in Nat
    <3> HIDE DEF i
    <3> QED BY <1>1, NumberOf
  <2> HIDE DEF i
  <2> QED BY <2>1
<1> QED BY <1>2, <1>3, <1>4

(* The counters of one trip, over numbers alone.                           *)
LEMMA TripArithmetic ==
    ASSUME NEW s \in Nat, NEW w \in Nat \ {0}, NEW b \in Nat, NEW r \in Nat,
           r = SaturatingSub(s, b * w), b * w < s,
           NEW t, t = IF r < w THEN r ELSE w
    PROVE  /\ t \in Nat \ {0} /\ t <= r
           /\ SaturatingSub(r, w) \in Nat
           /\ t + SaturatingSub(r, w) = r
           /\ SaturatingSub(r, w) = SaturatingSub(s, (b + 1) * w)
<1>1. b * w \in Nat /\ (b + 1) * w = b * w + w
  OBVIOUS
<1> DEFINE p == b * w
           q == (b + 1) * w
<1>2. p \in Nat /\ q = p + w /\ p < s /\ r = SaturatingSub(s, p)
  BY <1>1
<1> HIDE DEF p, q
<1>3. SaturatingSub(r, w) = SaturatingSub(s, q) /\ r = s - p
  BY <1>2 DEF SaturatingSub
<1>4. /\ t \in Nat \ {0} /\ t <= r
      /\ SaturatingSub(r, w) \in Nat
      /\ t + SaturatingSub(r, w) = r
  BY <1>2, <1>3 DEF SaturatingSub
<1> QED BY <1>3, <1>4 DEF q

(* The buffer o with block copied to it behind the first w bytes, and a    *)
(* buffer that holds only zeros behind them.                               *)
Overlay(o, block, w) ==
    [ j \in DOMAIN o |-> IF j - w \in 1..Len(block) THEN block[j - w] ELSE o[j] ]
ZeroBehind(o, w) == \A j \in DOMAIN o : j > w => o[j] = 0

(* A block of at most t bytes for the buffer o behind its first w bytes.   *)
Fits(o, block, w, t) ==
    /\ o \in Seq(Byte) /\ block \in Seq(Byte) /\ w \in Nat /\ t \in Nat
    /\ w + t <= Len(o) /\ Len(block) \in 0..t
    /\ ZeroBehind(o, w)

(* The copy of one trip: it touches the trip's stretch of the buffer only, *)
(* and leaves there the block's bytes followed by zeros.                   *)
LEMMA CopyFacts ==
    ASSUME NEW o \in Seq(Byte), NEW block \in Seq(Byte), NEW w \in Nat, NEW t \in Nat,
           Fits(o, block, w, t)
    PROVE  LET p == Overlay(o, block, w)
           IN  /\ p \in Seq(Byte) /\ Len(p) = Len(o)
               /\ ZeroBehind(p, w + t)
               /\ SubSeq(p, 1, w + t) = SubSeq(o, 1, w) \o (block \o Zeros(t - Len(block)))
<1> DEFINE p == Overlay(o, block, w)
<1> USE DEF Fits
<1> DEFINE b == Len(block)
<1>0. /\ p = [ j \in DOMAIN o |-> IF j - w \in 1..Len(block) THEN block[j - w] ELSE o[j] ]
      /\ \A j \in DOMAIN o : j > w => o[j] = 0
  BY DEF Overlay, ZeroBehind
<1> HIDE DEF p
<1>1. Len(o) \in Nat /\ DOMAIN o = 1..Len(o) /\ b \in Nat /\ b <= t /\ w + t \in Nat
  OBVIOUS
<1>2. ASSUME NEW j \in 1..Len(o) PROVE p[j] \in Byte
  <2>1. CASE j - w \in 1..b
    BY <1>0, <1>1, <2>1
  <2>2. CASE j - w \notin 1..b
    BY <1>0, <1>1, <2>2
  <2> QED BY <2>1, <2>2
<1>3. DOMAIN p = 1..Len(o) /\ p = [ j \in 1..Len(o) |-> p[j] ]
  BY <1>0, <1>1
<1>4. p \in Seq(Byte) /\ Len(p) = Len(o)
  <2> QED BY <1>1, <1>2, <1>3
<1>5. ASSUME NEW j \in DOMAIN p, j > w + t PROVE p[j] = 0
  BY <1>0, <1>1, <1>3, <1>5
<1>6. ASSUME NEW j \in 1..w PROVE p[j] = o[j]
  BY <1>0, <1>1
<1>7. ASSUME NEW j \in 1..b PROVE p[w + j] = block[j]
  <2>1. w + j \in 1..Len(o) /\ (w + j) - w = j
    BY <1>1
  <2> QED BY <1>0, <1>1, <2>1
<1>8. ASSUME NEW j \in (b + 1)..t PROVE p[w + j] = 0
  <2> DEFINE h == w + j
  <2>1. h \in 1..Len(o) /\ h > w /\ h - w \notin 1..b
    BY <1>1
  <2> HIDE DEF h
  <2>2. p[h] = o[h] /\ o[h] = 0
    BY <1>0, <1>1, <2>1
  <2> QED BY <2>2 DEF h
<1> DEFINE z == Zeros(t - b)
           e == block \o z
           u == SubSeq(o, 1, w)
           v == SubSeq(p, 1, w + t)
<1>9. z \in Seq(Byte) /\ Len(z) = t - b /\ \A j \in 1..(t - b) : z[j] = 0
  <2> DEFINE m == t - b
  <2>1. m \in Nat
    BY <1>1
  <2> HIDE DEF m
  <2>2. z = [i \in 1..m |-> 0]
    BY DEF Zeros, m
  <2>3. /\ z \in Seq(Byte) /\ Len(z) = m /\ \A j \in 1..m : z[j] = 0
    <3> HIDE DEF z
    <3>1. 0 \in Byte
      BY TreeAssumption
    <3> QED BY <2>1, <2>2, <3>1
  <2> QED BY <2>3 DEF m
<1> HIDE DEF z
<1>10. /\ e \in Seq(Byte) /\ Len(e) = t
       /\ \A j \in 1..b : e[j] = block[j]
       /\ \A j \in (b + 1)..t : e[j] = 0
  <2>1. /\ e \in Seq(Byte) /\ Len(e) = b + (t - b)
        /\ \A j \in 1..b : e[j] = block[j]
        /\ \A j \in 1..(t - b) : e[b + j] = z[j]
    BY <1>1, <1>9
  <2>2. ASSUME NEW j \in (b + 1)..t PROVE e[j] = 0
    <3>1. j - b \in 1..(t - b) /\ b + (j - b) = j
      BY <1>1
    <3> QED BY <1>9, <2>1, <3>1
  <2> QED BY <1>1, <2>1, <2>2
<1> HIDE DEF e, b
<1>11. u \in Seq(Byte) /\ Len(u) = w /\ \A j \in 1..w : u[j] = o[j]
  <2>1. \A j \in 1..w : o[j] \in Byte
    BY <1>1
  <2> QED BY <1>1, <2>1
<1>12. v \in Seq(Byte) /\ Len(v) = w + t /\ \A j \in 1..(w + t) : v[j] = p[j]
  <2> DEFINE m == w + t
  <2>1. m \in Nat /\ \A j \in 1..m : p[j] \in Byte
    BY <1>1, <1>2
  <2> HIDE DEF m
  <2>2. SubSeq(p, 1, m) \in Seq(Byte) /\ Len(SubSeq(p, 1, m)) = m /\ \A j \in 1..m : SubSeq(p, 1, m)[j] = p[j]
    BY <2>1
  <2> QED BY <2>2 DEF m
<1> HIDE DEF u, v
<1>13. v = u \o e
  <2>1. /\ u \o e \in Seq(Byte) /\ Len(u \o e) = w + t
        /\ \A j \in 1..w : (u \o e)[j] = u[j]
        /\ \A j \in 1..t : (u \o e)[w + j] = e[j]
    <3>1. /\ u \o e \in Seq(Byte) /\ Len(u \o e) = Len(u) + Len(e)
          /\ \A j \in 1..Len(u) : (u \o e)[j] = u[j]
          /\ \A j \in 1..Len(e) : (u \o e)[Len(u) + j] = e[j]
      <4>1. u \in Seq(Byte) /\ e \in Seq(Byte)
        BY <1>10, <1>11
      <4> QED BY <4>1
    <3> QED BY <1>10, <1>11, <3>1
  <2>2. ASSUME NEW j \in 1..(w + t) PROVE v[j] = (u \o e)[j]
    <3>1. CASE j \in 1..w
      <4>1. v[j] = p[j]
        BY <1>12
      <4>2. p[j] = o[j] /\ u[j] = o[j]
        BY <1>6, <1>11, <3>1
      <4>3. (u \o e)[j] = u[j]
        BY <2>1, <3>1
      <4> QED BY <4>1, <4>2, <4>3
    <3>2. CASE j \notin 1..w
      <4> DEFINE k == j - w
      <4>1. k \in 1..t /\ w + k = j
        BY <3>2
      <4> HIDE DEF k
      <4>2. k \in 1..b \/ k \in (b + 1)..t
        BY <1>1, <4>1 DEF b
      <4>3. p[w + k] = e[k]
        BY <1>7, <1>8, <1>10, <4>2
      <4> QED BY <1>12, <2>1, <4>1, <4>3
    <3> QED BY <3>1, <3>2
  <2> QED BY <1>12, <2>1, <2>2, SeqEqual
<1>14. SubSeq(p, 1, w + t) = SubSeq(o, 1, w) \o (block \o Zeros(t - Len(block)))
  BY <1>13 DEF u, v, e, z, b
<1> QED BY <1>4, <1>5, <1>14 DEF ZeroBehind, p

-----------------------------------------------------------------------------

(* A trip round the block loop, in the terms of the lemmas above.          *)
LEMMA TripFacts ==
    ASSUME BlockInv, CopyBlock
    PROVE  LET addr  == resolve_block(file, bi, Fanout(file))
               block == Present(file, addr, this_len)
           IN  /\ pc = "loop" /\ pc' = "loop" /\ file' = file
               /\ bi' = bi + 1
               /\ written' = written + this_len
               /\ this_len \in Nat \ {0} /\ this_len <= remaining
               /\ remaining' \in Nat /\ this_len + remaining' = remaining
               /\ remaining' = SaturatingSub(file.size, (bi + 1) * file.bsize)
               /\ addr \in Addr
               /\ out' \in Seq(Byte) /\ Len(out') = Len(out)
               /\ \A j \in DOMAIN out' : j > written' => out'[j] = 0
               /\ SubSeq(out', 1, written') =
                    SubSeq(out, 1, written) \o (block \o Zeros(this_len - Len(block)))
<1> DEFINE addr == resolve_block(file, bi, Fanout(file))
           block == Present(file, addr, this_len)
<1>1. /\ IsFile(file) /\ bi \in Nat /\ written \in Nat /\ remaining \in Nat /\ out \in Seq(Byte)
      /\ pc = "loop" /\ bi < n_blocks
      /\ Len(out) = file.size /\ written + remaining = file.size
      /\ remaining = SaturatingSub(file.size, bi * file.bsize)
      /\ \A j \in DOMAIN out : j > written => out[j] = 0
  BY DEF BlockInv, TypeOK, CopyBlock, BufferSized, RemainderIsRest, TailIsZero
<1>2. file.size \in Nat /\ file.bsize \in Nat \ {0}
  BY <1>1 DEF IsFile
<1>3. bi * file.bsize < file.size
  BY <1>1, <1>2, BlocksInside DEF n_blocks
<1>4. /\ pc' = pc /\ file' = file /\ bi' = bi + 1
      /\ written' = written + this_len
      /\ remaining' = SaturatingSub(remaining, file.bsize)
      /\ out' = [ j \in DOMAIN out |->
                    IF j - written \in 1..Len(block) THEN block[j - written] ELSE out[j] ]
  BY DEF CopyBlock, Present
<1>5. /\ this_len \in Nat \ {0} /\ this_len <= remaining
      /\ remaining' \in Nat /\ this_len + remaining' = remaining
      /\ remaining' = SaturatingSub(file.size, (bi + 1) * file.bsize)
  <2>1. this_len = IF remaining < file.bsize THEN remaining ELSE file.bsize
    BY DEF this_len
  <2> HIDE DEF this_len
  <2>2. /\ this_len \in Nat \ {0} /\ this_len <= remaining
        /\ SaturatingSub(remaining, file.bsize) \in Nat
        /\ this_len + SaturatingSub(remaining, file.bsize) = remaining
        /\ SaturatingSub(remaining, file.bsize) = SaturatingSub(file.size, (bi + 1) * file.bsize)
    BY <1>1, <1>2, <1>3, <2>1, TripArithmetic
  <2> QED BY <1>4, <2>2
<1>6. addr \in Addr
  BY <1>1, ResolveType
<1>7. block \in Seq(Byte) /\ Len(block) \in 0..this_len
  BY <1>1, <1>5, <1>6, PresentFacts
<1>8. written + this_len <= Len(out)
  BY <1>1, <1>2, <1>5
<1> HIDE DEF block, addr
<1>9. /\ out' \in Seq(Byte) /\ Len(out') = Len(out)
      /\ \A j \in DOMAIN out' : j > written + this_len => out'[j] = 0
      /\ SubSeq(out', 1, written + this_len) =
           SubSeq(out, 1, written) \o (block \o Zeros(this_len - Len(block)))
  <2>1. PICK t \in Nat : t = this_len
    BY <1>5
  <2>2. PICK o : o = out'
    OBVIOUS
  <2>3. Fits(out, block, written, t)
    BY <1>1, <1>7, <1>8, <2>1 DEF Fits, ZeroBehind
  <2>4. o = Overlay(out, block, written)
    BY <1>4, <2>2 DEF Overlay
  <2>5. /\ o \in Seq(Byte) /\ Len(o) = Len(out)
        /\ ZeroBehind(o, written + t)
        /\ SubSeq(o, 1, written + t) = SubSeq(out, 1, written) \o (block \o Zeros(t - Len(block)))
    <3>1. out \in Seq(Byte) /\ block \in Seq(Byte) /\ written \in Nat /\ t \in Nat
      BY <1>1, <1>7
    <3> QED BY <2>3, <2>4, <3>1, CopyFacts
  <2> QED BY <2>1, <2>2, <2>5 DEF ZeroBehind
<1>10. /\ \A j \in DOMAIN out' : j > written' => out'[j] = 0
       /\ SubSeq(out', 1, written') =
           SubSeq(out, 1, written) \o (block \o Zeros(this_len - Len(block)))
  BY <1>4, <1>9
<1> QED BY <1>1, <1>4, <1>5, <1>6, <1>9, <1>10 DEF block, addr

(* Every step of read_inode_file preserves the invariant of its loop.      *)
THEOREM BlockInvariant == Spec => []BlockInv
<1>1. Init => BlockInv
  BY TreeAssumption DEF Init, BlockInv, TypeOK, BeforeLoop, BufferSized, RemainderIsRest, TailIsZero
<1>2. BlockInv /\ [Next]_vars => BlockInv'
  <2> SUFFICES ASSUME BlockInv, [Next]_vars PROVE BlockInv'
    OBVIOUS
  <2>0. /\ file \in Files /\ IsFile(file) /\ file.size \in Nat /\ file.bsize \in Nat \ {0}
        /\ out \in Seq(Byte) /\ remaining \in Nat /\ written \in Nat /\ bi \in Nat
    BY DEF BlockInv, TypeOK, IsFile
  <2>1. CASE RefuseSize
    BY <2>1 DEF RefuseSize, BlockInv, TypeOK, BeforeLoop, BufferSized, RemainderIsRest, TailIsZero
  <2>2. CASE Allocate
    <3>1. /\ pc = "start" /\ written = 0 /\ bi = 0
          /\ out' = Zeros(file.size) /\ remaining' = file.size
          /\ file' = file /\ written' = 0 /\ bi' = 0
          /\ pc' \in {"loop", "done"} /\ file.size <= file.part_len
      BY <2>2 DEF Allocate, BlockInv, BeforeLoop
    <3>2. out' \in Seq(Byte) /\ Len(out') = file.size /\ \A j \in DOMAIN out' : out'[j] = 0
      <4>1. 0 \in Byte
        BY TreeAssumption
      <4>2. out' = [ j \in 1..file.size |-> 0 ]
        BY <3>1 DEF Zeros
      <4> QED BY <2>0, <4>1, <4>2
    <3>3. remaining' = SaturatingSub(file.size, bi' * file.bsize)
      BY <2>0, <3>1 DEF SaturatingSub
    <3> QED BY <2>0, <3>1, <3>2, <3>3
            DEF BlockInv, TypeOK, BeforeLoop, BufferSized, RemainderIsRest, TailIsZero
  <2>3. CASE CopyBlock
    <3>1. /\ pc = "loop" /\ pc' = "loop" /\ file' = file
          /\ bi' = bi + 1
          /\ written' = written + this_len
          /\ this_len \in Nat \ {0}
          /\ remaining' \in Nat /\ this_len + remaining' = remaining
          /\ remaining' = SaturatingSub(file.size, (bi + 1) * file.bsize)
          /\ out' \in Seq(Byte) /\ Len(out') = Len(out)
          /\ \A j \in DOMAIN out' : j > written' => out'[j] = 0
      BY <2>3, TripFacts
    <3>2. TypeOK'
      BY <2>0, <3>1 DEF TypeOK
    <3>3. BufferSized'
      <4>1. file.size <= file.part_len /\ Len(out) = file.size /\ written + remaining = file.size
        BY <3>1 DEF BlockInv, BufferSized
      <4>2. /\ written' = written + this_len /\ this_len \in Nat
            /\ remaining' \in Nat /\ this_len + remaining' = remaining
        BY <3>1
      <4>3. written' + remaining' = file.size
        <5>1. PICK t \in Nat : t = this_len
          BY <4>2
        <5>2. PICK m \in Nat : m = remaining'
          BY <4>2
        <5>3. t + m = remaining
          BY <4>2, <5>1, <5>2
        <5>4. (written + t) + m = written + remaining
          BY <2>0, <5>3
        <5> QED BY <4>1, <4>2, <5>1, <5>2, <5>4
      <4> QED BY <3>1, <4>1, <4>3 DEF BufferSized
    <3>4. BeforeLoop' /\ RemainderIsRest' /\ TailIsZero'
      BY <3>1 DEF BeforeLoop, RemainderIsRest, TailIsZero
    <3> QED BY <2>0, <3>1, <3>2, <3>3, <3>4 DEF BlockInv
  <2>4. CASE LoopEnd
    BY <2>4 DEF LoopEnd, BlockInv, TypeOK, BeforeLoop, BufferSized, RemainderIsRest, TailIsZero
  <2>5. CASE UNCHANGED vars
    BY <2>5 DEF vars, BlockInv, TypeOK, BeforeLoop, BufferSized, RemainderIsRest, TailIsZero
  <2> QED BY <2>1, <2>2, <2>3, <2>4, <2>5 DEF Next, Read, Terminating
<1> QED BY <1>1, <1>2, PTL DEF Spec

(* The locals of read_inode_file keep their types.                         *)
THEOREM TypeCorrect == Spec => []TypeOK
<1>1. BlockInv => TypeOK
  BY DEF BlockInv
<1> QED BY <1>1, BlockInvariant, PTL

(* remaining, written and bi agree at every trip round the block loop, for *)
(* every size and block size: the copy stays inside the buffer, and the    *)
(* partial last block is neither lost nor read twice.                      *)
THEOREM CountersNeverDrift == Spec => []CountersAgree
<1>1. BlockInv => CountersAgree
  <2> SUFFICES ASSUME BlockInv, pc = "loop"
               PROVE  /\ Len(out) = file.size
                      /\ written + remaining = file.size
                      /\ bi < n_blocks <=> remaining > 0
                      /\ remaining > 0 => written = bi * file.bsize
    BY DEF CountersAgree
  <2>1. /\ file.size \in Nat /\ file.bsize \in Nat \ {0} /\ bi \in Nat
        /\ written \in Nat /\ remaining \in Nat
        /\ Len(out) = file.size /\ written + remaining = file.size
        /\ remaining = SaturatingSub(file.size, bi * file.bsize)
    BY DEF BlockInv, TypeOK, IsFile, BufferSized, RemainderIsRest
  <2>2. bi < n_blocks <=> bi * file.bsize < file.size
    BY <2>1, BlocksInside DEF n_blocks
  <2> DEFINE p == bi * file.bsize
  <2>3. p \in Nat /\ remaining = SaturatingSub(file.size, p)
    BY <2>1
  <2> HIDE DEF p
  <2>4. (p < file.size <=> remaining > 0) /\ (remaining > 0 => written = p)
    <3>1. /\ file.size \in Nat /\ written \in Nat /\ remaining \in Nat
          /\ written + remaining = file.size
      BY <2>1
    <3> QED BY <2>3, <3>1 DEF SaturatingSub
  <2> QED BY <2>1, <2>2, <2>4 DEF p
<1> QED BY <1>1, BlockInvariant, PTL

-----------------------------------------------------------------------------

(* An empty prefix.                                                        *)
LEMMA NothingWritten ==
    ASSUME NEW o
    PROVE  SubSeq(o, 1, 0) = << >>
  BY SubSeqEmpty

(* read_inode_file implements the file stream for every file, whatever its *)
(* size, block size, fan-out, holes and missing blocks: each trip emits    *)
(* the bytes of the next leaf in tree order, and the function returns with *)
(* exactly di_size of them, or refuses a size the partition cannot hold.   *)
THEOREM ReadRefinesStream == Spec => ImplementsFileStream
<1>1. Init => Stream!Init
  <2> SUFFICES ASSUME Init PROVE Stream!Init
    OBVIOUS
  <2>1. SubSeq(out, 1, written) = << >>
    BY NothingWritten DEF Init
  <2>2. SlotOf(file, bi) = FirstSlot
    BY TreeAssumption DEF Init, SlotOf, FirstSlot
  <2> QED BY <2>1, <2>2 DEF Init, Stream!Init, Stream!FirstSlot, FirstSlot
<1>2. BlockInv /\ [Next]_vars => [Stream!Next]_(Stream!vars)
  <2> SUFFICES ASSUME BlockInv, [Next]_vars PROVE [Stream!Next]_(Stream!vars)
    OBVIOUS
  <2>0. /\ file \in Files /\ IsFile(file) /\ file.size \in Nat /\ file.bsize \in Nat \ {0}
        /\ file.part_len \in Nat
        /\ out \in Seq(Byte) /\ remaining \in Nat /\ written \in Nat /\ bi \in Nat
    BY DEF BlockInv, TypeOK, IsFile
  <2>1. CASE RefuseSize
    <3>1. /\ pc = "start" /\ pc' = "refused" /\ file.size > file.part_len
          /\ file' = file /\ out' = out /\ written' = written /\ bi' = bi /\ written = 0
      BY <2>1 DEF RefuseSize, BlockInv, BeforeLoop
    <3>2. SubSeq(out, 1, written) = << >>
      BY <3>1, NothingWritten
    <3>3. Stream!Refuse
      BY <3>1, <3>2 DEF Stream!Refuse
    <3> QED BY <3>3 DEF Stream!Next
  <2>2. CASE Allocate
    <3>1. /\ pc = "start" /\ pc' = (IF file.size = 0 THEN "done" ELSE "loop")
          /\ file.size <= file.part_len
          /\ file' = file /\ written' = 0 /\ written = 0 /\ bi' = bi
      BY <2>2 DEF Allocate, BlockInv, BeforeLoop
    <3>2. SubSeq(out, 1, written) = << >> /\ SubSeq(out', 1, written') = << >>
      BY <3>1, NothingWritten
    <3>3. CASE file.size = 0
      <4>1. Stream!Finish
        BY <3>1, <3>2, <3>3 DEF Stream!Finish
      <4> QED BY <4>1 DEF Stream!Next
    <3>4. CASE file.size # 0
      BY <3>1, <3>2, <3>4 DEF Stream!vars
    <3> QED BY <3>3, <3>4
  <2>3. CASE CopyBlock
    <3> DEFINE addr == resolve_block(file, bi, Fanout(file))
               block == Present(file, addr, this_len)
               bytes == SubSeq(out, 1, written)
    <3>1. /\ pc = "loop" /\ pc' = "loop" /\ file' = file
          /\ bi' = bi + 1
          /\ this_len \in Nat \ {0} /\ this_len <= remaining
          /\ SubSeq(out', 1, written') = bytes \o (block \o Zeros(this_len - Len(block)))
      BY <2>3, TripFacts
    <3>2. file.size <= file.part_len /\ Len(out) = file.size /\ written + remaining = file.size
      BY <3>1 DEF BlockInv, BufferSized
    <3>3. Len(bytes) = written
      <4>1. written <= Len(out)
        BY <2>0, <3>2
      <4>2. \A j \in 1..written : out[j] \in Byte
        BY <2>0, <4>1
      <4> QED BY <2>0, <4>2
    <3>4. Len(bytes) < file.size
      <4>1. PICK t \in Nat \ {0} : t = this_len
        BY <3>1
      <4>2. t <= remaining
        BY <3>1, <4>1
      <4> QED BY <2>0, <3>2, <3>3, <4>2
    <3>5. this_len = IF file.size - Len(bytes) < file.bsize
                     THEN file.size - Len(bytes) ELSE file.bsize
      <4>1. file.size - Len(bytes) = remaining
        BY <2>0, <3>2, <3>3
      <4> QED BY <4>1 DEF this_len
    <3>6. block \o Zeros(this_len - Len(block)) =
            Stream!BlockBytes(file, Stream!Leaf(file, SlotOf(file, bi)), this_len)
      <4>1. addr = Leaf(file, SlotOf(file, bi))
        BY <2>0, ResolvesToLeaf
      <4>2. Stream!Leaf(file, SlotOf(file, bi)) = Leaf(file, SlotOf(file, bi))
        BY DEF Stream!Leaf, Leaf, Stream!indirect_ptr, indirect_ptr
      <4>3. Stream!BlockBytes(file, addr, this_len) = block \o Zeros(this_len - Len(block))
        BY DEF Stream!BlockBytes, Present, Stream!read_block, read_block, Stream!Zeros, Zeros
      <4> QED BY <4>1, <4>2, <4>3
    <3>7. SlotOf(file', bi') = Stream!NextSlot(file, SlotOf(file, bi))
      <4>1. Stream!NextSlot(file, SlotOf(file, bi)) = NextSlot(file, SlotOf(file, bi))
        BY DEF Stream!NextSlot, NextSlot, Stream!Base, Base, Stream!Fanout, Fanout,
               Stream!EndSlot, EndSlot, Stream!FirstOfLevel, FirstOfLevel,
               Stream!UFS_NIADDR, UFS_NIADDR
      <4>2. NextSlot(file, SlotOf(file, bi)) = SlotOf(file, bi + 1)
        BY <2>0, SlotsInOrder
      <4> QED BY <3>1, <4>1, <4>2
    <3> HIDE DEF addr, block, bytes
    <3>8. Stream!Emit
      BY <3>1, <3>2, <3>4, <3>5, <3>6, <3>7 DEF Stream!Emit, bytes
    <3> QED BY <3>8 DEF Stream!Next
  <2>4. CASE LoopEnd
    <3>1. /\ pc = "loop" /\ pc' = "done" /\ bi >= n_blocks
          /\ file' = file /\ out' = out /\ written' = written /\ bi' = bi
      BY <2>4 DEF LoopEnd
    <3>2. /\ file.size <= file.part_len /\ Len(out) = file.size /\ written + remaining = file.size
          /\ remaining = SaturatingSub(file.size, bi * file.bsize)
      BY <3>1 DEF BlockInv, BufferSized, RemainderIsRest
    <3>3. written = file.size
      <4>1. ~(bi < n_blocks)
        <5>1. n_blocks \in Nat
          <6> DEFINE i == file.size + file.bsize - 1
          <6>1. i \in Nat
            BY <2>0
          <6> HIDE DEF i
          <6>2. i \div file.bsize \in Nat
            BY <2>0, <6>1, NumberOf
          <6> QED BY <6>2 DEF n_blocks, i
        <5> QED BY <2>0, <3>1, <5>1
      <4>2. ~(bi * file.bsize < file.size)
        BY <2>0, <4>1, BlocksInside DEF n_blocks
      <4> DEFINE p == bi * file.bsize
      <4>3. p \in Nat /\ remaining = SaturatingSub(file.size, p) /\ ~(p < file.size)
        BY <2>0, <3>2, <4>2
      <4> HIDE DEF p
      <4>4. remaining = 0
        BY <2>0, <4>3 DEF SaturatingSub
      <4> QED BY <2>0, <3>2, <4>4
    <3>4. Len(SubSeq(out, 1, written)) = file.size
      <4>1. \A j \in 1..written : out[j] \in Byte
        BY <2>0, <3>2, <3>3
      <4> QED BY <2>0, <3>3, <4>1
    <3>5. Stream!Finish
      BY <3>1, <3>2, <3>4 DEF Stream!Finish
    <3> QED BY <3>5 DEF Stream!Next
  <2>5. CASE UNCHANGED vars
    BY <2>5 DEF vars, Stream!vars
  <2> QED BY <2>1, <2>2, <2>3, <2>4, <2>5 DEF Next, Read, Terminating
<1> QED BY <1>1, <1>2, BlockInvariant, PTL DEF Spec, ImplementsFileStream, Stream!Spec
=============================================================================
