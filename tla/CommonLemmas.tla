--------------------------- MODULE CommonLemmas ----------------------------
(***************************************************************************)
(* Facts several proofs rest on: the sequence a depth-first walk uses as   *)
(* its stack, the vector a sweep pushes its results onto, and the numbers  *)
(* of the inodes of a cylinder group.                                      *)
(***************************************************************************)
EXTENDS Integers, Sequences, SequencesExt, FiniteSetTheorems, WellFoundedInduction, TLAPS

(* Popping a non-empty stack yields an element and a stack one shorter     *)
(* that holds the rest (the queue.pop() of both walks).                    *)
LEMMA PopFacts ==
    ASSUME NEW S, NEW q \in Seq(S), q # << >>
    PROVE  /\ Len(q) \in Nat \ {0}
           /\ Front(q) \in Seq(S)
           /\ Last(q) \in S
           /\ Len(Front(q)) = Len(q) - 1
           /\ \A i \in 1..(Len(q) - 1) : Front(q)[i] = q[i]
           /\ ToSet(q) = ToSet(Front(q)) \cup {Last(q)}
<1>1. Len(q) \in Nat \ {0}
  OBVIOUS
<1>2. /\ Front(q) \in Seq(S)
      /\ Len(Front(q)) = Len(q) - 1
      /\ \A i \in 1..(Len(q) - 1) : Front(q)[i] = q[i]
  <2>1. \A i \in 1..(Len(q) - 1) : q[i] \in S
    BY <1>1
  <2>2. Len(q) - 1 \in Int
    BY <1>1
  <2> DEFINE n == Len(q) - 1
  <2> HIDE DEF n
  <2>3. 1 \in Int /\ n \in Int /\ \A i \in 1..n : q[i] \in S
    BY <2>1, <2>2 DEF n
  <2>4. /\ SubSeq(q, 1, n) \in Seq(S)
        /\ Len(SubSeq(q, 1, n)) = IF 1 <= n THEN n - 1 + 1 ELSE 0
        /\ \A i \in 1..(n - 1 + 1) : SubSeq(q, 1, n)[i] = q[1 + i - 1]
    BY <2>3
  <2>5. n \in Nat /\ n = Len(q) - 1
    BY <1>1 DEF n
  <2>6. n - 1 + 1 = n /\ \A i \in 1..n : 1 + i - 1 = i
    BY <2>5
  <2>7. Len(SubSeq(q, 1, n)) = n
    BY <2>4, <2>5
  <2>8. Front(q) = SubSeq(q, 1, n)
    BY DEF Front, n
  <2>9. \A i \in 1..n : Front(q)[i] = q[i]
    BY <2>4, <2>6, <2>8
  <2> QED BY <2>4, <2>5, <2>7, <2>8, <2>9
<1>3. Last(q) \in S
  BY <1>1 DEF Last
<1>4. ToSet(q) = ToSet(Front(q)) \cup {Last(q)}
  <2>1. ASSUME NEW i \in DOMAIN q
        PROVE  q[i] \in ToSet(Front(q)) \cup {Last(q)}
    <3>1. CASE i = Len(q)
      BY <3>1 DEF Last
    <3>2. CASE i # Len(q)
      <4>1. i \in DOMAIN Front(q) /\ Front(q)[i] = q[i]
        BY <1>1, <1>2, <3>2
      <4> QED BY <4>1 DEF ToSet
    <3> QED BY <3>1, <3>2
  <2>2. ASSUME NEW i \in DOMAIN Front(q)
        PROVE  Front(q)[i] \in ToSet(q)
    <3>1. i \in DOMAIN q /\ Front(q)[i] = q[i]
      BY <1>1, <1>2
    <3> QED BY <3>1 DEF ToSet
  <2>3. Last(q) \in ToSet(q)
    BY <1>1 DEF Last, ToSet
  <2> QED BY <2>1, <2>2, <2>3 DEF ToSet
<1> QED BY <1>1, <1>2, <1>3, <1>4

(* Popping a stack without repetitions leaves none, and what was popped is *)
(* no longer pending.                                                      *)
LEMMA PopKeepsDistinct ==
    ASSUME NEW S, NEW q \in Seq(S), q # << >>, IsInjective(q)
    PROVE  IsInjective(Front(q)) /\ Last(q) \notin ToSet(Front(q))
<1>1. /\ Len(q) \in Nat \ {0}
      /\ Front(q) \in Seq(S)
      /\ Len(Front(q)) = Len(q) - 1
      /\ \A i \in 1..(Len(q) - 1) : Front(q)[i] = q[i]
  BY PopFacts
<1>2. \A a, b \in DOMAIN q : q[a] = q[b] => a = b
  BY DEF IsInjective
<1>3. IsInjective(Front(q))
  BY <1>1, <1>2 DEF IsInjective
<1>4. ASSUME NEW i \in DOMAIN Front(q), Front(q)[i] = Last(q)
      PROVE  FALSE
  BY <1>1, <1>2, <1>4 DEF Last
<1> QED BY <1>3, <1>4 DEF ToSet

(* Pushing one element (the queue.push of both walks).                     *)
LEMMA PushFacts ==
    ASSUME NEW S, NEW q \in Seq(S), NEW e \in S
    PROVE  /\ Append(q, e) \in Seq(S)
           /\ Len(Append(q, e)) = Len(q) + 1
           /\ ToSet(Append(q, e)) = ToSet(q) \cup {e}
           /\ IsInjective(q) /\ e \notin ToSet(q) => IsInjective(Append(q, e))
<1> DEFINE p == Append(q, e)
<1>1. /\ p \in Seq(S) /\ Len(p) = Len(q) + 1 /\ Len(q) \in Nat
      /\ \A i \in 1..Len(q) : p[i] = q[i]
      /\ p[Len(q) + 1] = e
      /\ DOMAIN q = 1..Len(q) /\ DOMAIN p = 1..(Len(q) + 1)
  OBVIOUS
<1> HIDE DEF p
<1>2. ToSet(p) = ToSet(q) \cup {e}
  <2>1. ASSUME NEW i \in DOMAIN p PROVE p[i] \in ToSet(q) \cup {e}
    <3>1. i \in DOMAIN q \/ i = Len(q) + 1
      BY <1>1
    <3> QED BY <1>1, <3>1 DEF ToSet
  <2>2. ASSUME NEW i \in DOMAIN q PROVE q[i] \in ToSet(p)
    <3>1. i \in DOMAIN p /\ p[i] = q[i]
      BY <1>1
    <3> QED BY <3>1 DEF ToSet
  <2>3. e \in ToSet(p)
    <3>1. Len(q) + 1 \in DOMAIN p
      BY <1>1
    <3> QED BY <1>1, <3>1 DEF ToSet
  <2> QED BY <2>1, <2>2, <2>3 DEF ToSet
<1>3. ASSUME IsInjective(q), e \notin ToSet(q) PROVE IsInjective(p)
  <2>1. \A a, b \in DOMAIN q : q[a] = q[b] => a = b
    BY <1>3 DEF IsInjective
  <2>2. \A a \in DOMAIN q : q[a] # e
    BY <1>3 DEF ToSet
  <2> QED BY <1>1, <2>1, <2>2 DEF IsInjective
<1> QED BY <1>1, <1>2, <1>3 DEF p

(* Extending a result vector by another one.                               *)
LEMMA ConcatFacts ==
    ASSUME NEW S, NEW q \in Seq(S), NEW r \in Seq(S)
    PROVE  /\ q \o r \in Seq(S)
           /\ ToSet(q \o r) = ToSet(q) \cup ToSet(r)
           /\ IsInjective(q) /\ IsInjective(r) /\ ToSet(q) \cap ToSet(r) = {}
                => IsInjective(q \o r)
<1> DEFINE p == q \o r
<1>1. /\ p \in Seq(S)
      /\ Len(q) \in Nat /\ Len(r) \in Nat
      /\ DOMAIN q = 1..Len(q) /\ DOMAIN r = 1..Len(r) /\ DOMAIN p = 1..(Len(q) + Len(r))
      /\ \A i \in 1..Len(q) : p[i] = q[i]
      /\ \A i \in 1..Len(r) : p[Len(q) + i] = r[i]
  OBVIOUS
<1> HIDE DEF p
<1>2. ASSUME NEW i \in DOMAIN p
      PROVE  \/ i \in DOMAIN q /\ p[i] = q[i]
             \/ i - Len(q) \in DOMAIN r /\ p[i] = r[i - Len(q)]
  <2>1. CASE i <= Len(q)
    BY <1>1, <2>1
  <2>2. CASE i > Len(q)
    <3>1. i - Len(q) \in 1..Len(r) /\ Len(q) + (i - Len(q)) = i
      BY <1>1, <2>2
    <3> QED BY <1>1, <3>1
  <2> QED BY <1>1, <2>1, <2>2
<1>3. ToSet(p) = ToSet(q) \cup ToSet(r)
  <2>1. ToSet(p) \subseteq ToSet(q) \cup ToSet(r)
    BY <1>2 DEF ToSet
  <2>2. ASSUME NEW i \in DOMAIN q PROVE q[i] \in ToSet(p)
    <3>1. i \in DOMAIN p /\ p[i] = q[i]
      BY <1>1
    <3> QED BY <3>1 DEF ToSet
  <2>3. ASSUME NEW i \in DOMAIN r PROVE r[i] \in ToSet(p)
    <3>1. Len(q) + i \in DOMAIN p /\ p[Len(q) + i] = r[i]
      BY <1>1
    <3> QED BY <3>1 DEF ToSet
  <2> QED BY <2>1, <2>2, <2>3 DEF ToSet
<1>4. ASSUME IsInjective(q), IsInjective(r), ToSet(q) \cap ToSet(r) = {}
      PROVE  IsInjective(p)
  <2>1. /\ \A a, b \in DOMAIN q : q[a] = q[b] => a = b
        /\ \A a, b \in DOMAIN r : r[a] = r[b] => a = b
        /\ \A a \in DOMAIN q, b \in DOMAIN r : q[a] # r[b]
    BY <1>4 DEF IsInjective, ToSet
  <2>2. ASSUME NEW a \in DOMAIN p, NEW b \in DOMAIN p, p[a] = p[b]
        PROVE  a = b
    <3>1. CASE a \in DOMAIN q /\ p[a] = q[a] /\ b \in DOMAIN q /\ p[b] = q[b]
      BY <2>1, <2>2, <3>1
    <3>2. CASE a - Len(q) \in DOMAIN r /\ p[a] = r[a - Len(q)]
               /\ b - Len(q) \in DOMAIN r /\ p[b] = r[b - Len(q)]
      <4>1. a - Len(q) = b - Len(q)
        BY <2>1, <2>2, <3>2
      <4> QED BY <1>1, <4>1
    <3> QED BY <1>2, <2>1, <2>2, <3>1, <3>2
  <2> QED BY <2>2 DEF IsInjective
<1> QED BY <1>1, <1>3, <1>4 DEF p

(* A vector without repetitions is as long as it has elements.             *)
LEMMA DistinctCounts ==
    ASSUME NEW S, NEW q \in Seq(S), IsInjective(q)
    PROVE  Len(q) = Cardinality(ToSet(q))
<1>1. Len(q) \in Nat /\ DOMAIN q = 1..Len(q) /\ \A i \in 1..Len(q) : q[i] \in ToSet(q)
  BY DEF ToSet
<1>2. q \in [1..Len(q) -> ToSet(q)]
  BY <1>1
<1>3. q \in Injection(1..Len(q), ToSet(q))
  BY <1>1, <1>2 DEF Injection, IsInjective
<1>4. q \in Surjection(1..Len(q), ToSet(q))
  BY <1>1, <1>2 DEF Surjection, ToSet
<1>5. ExistsBijection(1..Len(q), ToSet(q))
  BY <1>3, <1>4 DEF ExistsBijection, Bijection
<1> QED BY <1>1, <1>5, FS_CountingElements

(* How often p occurs in a result vector.                                  *)
Occurrences(q, p) == Cardinality({ k \in DOMAIN q : q[k] = p })

(* Pushing onto a result vector: p occurs once more when it was p that was *)
(* pushed, and as often as before when something else was.                 *)
LEMMA PushCounts ==
    ASSUME NEW S, NEW q \in Seq(S), NEW e \in S, NEW p
    PROVE  /\ Occurrences(q, p) \in Nat
           /\ e = p => Occurrences(Append(q, e), p) = Occurrences(q, p) + 1
           /\ e # p => Occurrences(Append(q, e), p) = Occurrences(q, p)
<1> DEFINE r == Append(q, e)
           K == { k \in DOMAIN q : q[k] = p }
           L == { k \in DOMAIN r : r[k] = p }
<1>1. /\ Len(r) = Len(q) + 1 /\ Len(q) \in Nat
      /\ \A i \in 1..Len(q) : r[i] = q[i]
      /\ r[Len(q) + 1] = e
      /\ DOMAIN q = 1..Len(q) /\ DOMAIN r = 1..(Len(q) + 1)
  OBVIOUS
<1> HIDE DEF r
<1>2. IsFiniteSet(K) /\ Cardinality(K) \in Nat
  <2>1. IsFiniteSet(DOMAIN q)
    BY <1>1, FS_Interval
  <2>2. K \in SUBSET DOMAIN q
    OBVIOUS
  <2> QED BY <2>1, <2>2, FS_Subset, FS_CardinalityType
<1>3. Len(q) + 1 \notin K
  BY <1>1
<1>4. CASE e = p
  <2>1. L = K \cup {Len(q) + 1}
    BY <1>1, <1>4
  <2>2. Cardinality(L) = Cardinality(K) + 1
    BY <1>2, <1>3, <2>1, FS_AddElement
  <2> QED BY <1>2, <1>4, <2>2 DEF r, Occurrences
<1>5. CASE e # p
  <2>1. L = K
    BY <1>1, <1>5
  <2> QED BY <1>2, <1>5, <2>1 DEF r, Occurrences
<1> QED BY <1>4, <1>5

(* Pushing a number above all those pushed so far keeps a result vector    *)
(* ascending.                                                              *)
LEMMA PushAscends ==
    ASSUME NEW S \in SUBSET Int, NEW q \in Seq(S), NEW e \in Int,
           \A j, k \in DOMAIN q : j < k => q[j] < q[k],
           \A x \in ToSet(q) : x < e
    PROVE  \A j, k \in DOMAIN Append(q, e) : j < k => Append(q, e)[j] < Append(q, e)[k]
<1> DEFINE p == Append(q, e)
<1>1. /\ Len(q) \in Nat /\ DOMAIN q = 1..Len(q)
      /\ DOMAIN p = 1..(Len(q) + 1)
      /\ \A i \in 1..Len(q) : p[i] = q[i]
      /\ p[Len(q) + 1] = e
  OBVIOUS
<1> HIDE DEF p
<1>2. ASSUME NEW i \in DOMAIN q PROVE q[i] < e /\ q[i] \in Int
  <2>1. q[i] \in S
    OBVIOUS
  <2>2. q[i] \in ToSet(q)
    BY DEF ToSet
  <2> QED BY <2>1, <2>2
<1>3. \A j, k \in DOMAIN p : j < k => p[j] < p[k]
  BY <1>1, <1>2
<1> QED BY <1>3 DEF p

(* The number c * n + w is that of position w of group c.                  *)
LEMMA PositionOf ==
    ASSUME NEW n \in Nat \ {0}, NEW c \in Nat, NEW w \in 0..(n - 1)
    PROVE  /\ (c * n + w) \div n = c
           /\ (c * n + w) % n = w
           /\ c * n + w \in Nat
  OBVIOUS

(* Every number is that of one position of one group.                      *)
LEMMA NumberOf ==
    ASSUME NEW n \in Nat \ {0}, NEW i \in Nat
    PROVE  /\ i \div n \in Nat
           /\ i % n \in 0..(n - 1)
           /\ i = (i \div n) * n + (i % n)
  OBVIOUS

(* The numbers of group c lie between the first of it and the first of the *)
(* next, and nowhere else.                                                 *)
LEMMA GroupRange ==
    ASSUME NEW n \in Nat \ {0}, NEW c \in Nat, NEW i \in Nat
    PROVE  /\ c * n <= i /\ i < (c + 1) * n <=> i \div n = c
           /\ i < c * n <=> i \div n < c
  BY NumberOf

(* Every set of naturals that is not empty has a least element.            *)
LEMMA LeastElement ==
    ASSUME NEW T, T \subseteq Nat, T # {}
    PROVE  \E x \in T : \A y \in T : x <= y
<1> DEFINE R == {ss \in Nat \X Nat : ss[1] < ss[2]}
<1>1. IsWellFoundedOn(R, Nat)
  BY NatLessThanWellFounded DEF OpToRel
<1>2. \E x \in T : \A y \in T : ~(<<y, x>> \in R)
  <2> HIDE DEF R
  <2> QED BY <1>1, WFMin
<1>3. PICK x \in T : \A y \in T : ~(<<y, x>> \in R)
  BY <1>2
<1>4. ASSUME NEW y \in T PROVE x <= y
  <2>1. x \in Nat /\ y \in Nat /\ ~(<<y, x>> \in R)
    BY <1>3
  <2> QED BY <2>1
<1> QED BY <1>4

(* A bounded one has a greatest element.                                   *)
LEMMA GreatestElement ==
    ASSUME NEW T, T \subseteq Nat, T # {}, NEW b \in Nat, \A x \in T : x <= b
    PROVE  \E x \in T : \A y \in T : x >= y
<1> DEFINE U == { b - x : x \in T }
<1>1. U \subseteq Nat /\ U # {}
  <2>1. ASSUME NEW x \in T PROVE b - x \in Nat
    <3>1. x \in Nat /\ x <= b
      OBVIOUS
    <3> QED BY <3>1
  <2>2. PICK x \in T : TRUE
    OBVIOUS
  <2>3. b - x \in U
    OBVIOUS
  <2> QED BY <2>1, <2>3
<1>2. PICK u \in U : \A y \in U : u <= y
  BY <1>1, LeastElement
<1>3. PICK x \in T : u = b - x
  OBVIOUS
<1>4. \A y \in T : b - y \in U
  OBVIOUS
<1>5. ASSUME NEW y \in T PROVE x >= y
  <2>1. b - x <= b - y
    BY <1>2, <1>3, <1>4
  <2>2. x \in Nat /\ y \in Nat
    OBVIOUS
  <2> QED BY <2>1, <2>2
<1> QED BY <1>5

(* Induction, as a fact about sets: one that holds 0 and with each number  *)
(* the next holds them all.                                                *)
LEMMA SetInduction ==
    ASSUME NEW n \in Nat, NEW T, T \subseteq 0..n, 0 \in T, \A m \in 0..(n-1) : m \in T => m + 1 \in T
    PROVE  T = 0..n
<1> SUFFICES ASSUME 0..n \ T # {} PROVE FALSE
  OBVIOUS
<1>1. 0..n \ T \subseteq Nat
  OBVIOUS
<1>2. PICK m \in 0..n \ T : \A y \in 0..n \ T : m <= y
  BY <1>1, LeastElement
<1>3. m # 0 /\ m \in Nat
  BY <1>2
<1>4. m - 1 \in 0..(n-1) /\ m - 1 \in T
  BY <1>2, <1>3
<1> QED BY <1>2, <1>4
=============================================================================
