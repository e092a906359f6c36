---------------------------- MODULE ListProofs ----------------------------
(***************************************************************************)
(* What filtering a list leaves, for every list: the induction is by the   *)
(* least place at which it could go wrong.                                 *)
(***************************************************************************)
EXTENDS Lists, WellFoundedInduction, FiniteSetTheorems, TLAPS

Less == {ss \in Nat \X Nat : ss[1] < ss[2]}

\* A set of naturals that is not empty has a least element.
LEMMA LeastOf ==
  ASSUME NEW T \in SUBSET Nat, T # {}
  PROVE  \E n \in T : \A m \in T : n <= m
<1>1. IsWellFoundedOn(Less, Nat)
  BY NatLessThanWellFounded DEF OpToRel, Less
<1>2. PICK n \in T : \A m \in T : <<m, n>> \notin Less
  BY <1>1, WFMin
<1>3. \A m \in T : ~(m < n)
  BY <1>2 DEF Less
<1>4. QED
  BY <1>3

\* KeptUpTo is the function its recursion describes.
LEMMA KeptIsDefined ==
  ASSUME NEW list, NEW drop, Len(list) \in Nat
  PROVE  /\ KeptUpTo(list, drop)[0] = <<>>
         /\ \A i \in 1 .. Len(list) :
               KeptUpTo(list, drop)[i] =
                   IF list[i] \in drop THEN KeptUpTo(list, drop)[i - 1]
                   ELSE Append(KeptUpTo(list, drop)[i - 1], list[i])
<1> DEFINE n == Len(list)
           next(g, i) == IF i = 0 THEN <<>>
                         ELSE IF list[i] \in drop THEN g[i - 1] ELSE Append(g[i - 1], list[i])
           Good(m) == \E g : g = [i \in 0 .. m |-> next(g, i)]
           bad == {m \in Nat : ~Good(m)}
<1>1. bad = {}
  <2> SUFFICES ASSUME bad # {} PROVE FALSE
    OBVIOUS
  <2>1. PICK m \in bad : \A k \in bad : m <= k
    BY LeastOf
  <2>2. CASE m = 0
    <3> DEFINE g == [i \in 0 .. 0 |-> <<>>]
    <3>1. g = [i \in 0 .. 0 |-> next(g, i)]
      OBVIOUS
    <3>2. QED
      BY <2>1, <2>2, <3>1
  <2>3. CASE m # 0
    <3>0. m \in Nat /\ m - 1 \in Nat /\ ~(m <= m - 1)
      <4>1. m \in Nat
        BY <2>1
      <4> HIDE DEF bad
      <4>2. QED
        BY <2>3, <4>1
    <3>1. m - 1 \in Nat /\ m \in Nat /\ m - 1 \notin bad
      BY <2>1, <3>0
    <3>2. PICK g : g = [i \in 0 .. m - 1 |-> next(g, i)]
      BY <3>1
    <3> DEFINE h == [i \in 0 .. m |-> IF i = m THEN next(g, m) ELSE g[i]]
    <3>3. ASSUME NEW i \in 0 .. m - 1 PROVE h[i] = g[i] /\ g[i] = next(g, i)
      <4>1. i \in 0 .. m /\ i # m
        BY <3>0
      <4>2. h[i] = g[i]
        BY <4>1
      <4>3. g[i] = next(g, i)
        <5> HIDE DEF next
        <5>1. [k \in 0 .. m - 1 |-> next(g, k)][i] = next(g, i)
          OBVIOUS
        <5>2. QED
          BY <3>2, <5>1
      <4>4. QED
        BY <4>2, <4>3
    <3>4. ASSUME NEW i \in 0 .. m PROVE h[i] = next(h, i)
      <4>1. CASE i = 0
        <5>1. i \in 0 .. m - 1
          BY <2>3, <3>0, <4>1
        <5>2. h[i] = g[i] /\ g[i] = next(g, i)
          BY <3>3, <5>1
        <5>3. next(g, i) = <<>> /\ next(h, i) = <<>>
          BY <4>1
        <5> HIDE DEF next, h
        <5>4. QED
          BY <5>2, <5>3
      <4>2. CASE i # 0
        <5>1. i - 1 \in 0 .. m - 1 /\ h[i - 1] = g[i - 1]
          BY <3>1, <3>3, <4>2
        <5>2. next(h, i) = next(g, i)
          BY <5>1
        <5>3. h[i] = next(g, i)
          <6>1. CASE i = m
            BY <6>1
          <6>2. CASE i # m
            <7>1. i \in 0 .. m - 1
              BY <3>1, <6>2
            <7>2. QED
              BY <3>3, <7>1
          <6>3. QED
            BY <6>1, <6>2
        <5>4. QED
          BY <5>2, <5>3
      <4>3. QED
        BY <4>1, <4>2
    <3>5. h = [i \in 0 .. m |-> next(h, i)]
      <4> HIDE DEF next
      <4>1. h = [i \in 0 .. m |-> h[i]]
        OBVIOUS
      <4> HIDE DEF h
      <4>2. QED
        BY <3>4, <4>1
    <3>6. QED
      BY <2>1, <3>5
  <2>4. QED
    BY <2>2, <2>3
<1>2. Good(n)
  BY <1>1
<1>3. KeptUpTo(list, drop) = [i \in 0 .. n |-> next(KeptUpTo(list, drop), i)]
  BY <1>2 DEF KeptUpTo
<1> HIDE DEF n
<1>4. n \in Nat
  BY DEF n
<1> DEFINE kept == KeptUpTo(list, drop)
<1> HIDE DEF kept
<1>5. kept = [i \in 0 .. n |-> next(kept, i)]
  BY <1>3 DEF kept
<1>6. \A i \in 0 .. n : kept[i] = next(kept, i)
  BY <1>5
<1>7. kept[0] = <<>>
  BY <1>4, <1>6
<1>8. ASSUME NEW i \in 1 .. n
      PROVE  kept[i] = IF list[i] \in drop THEN kept[i - 1] ELSE Append(kept[i - 1], list[i])
  <2>1. i \in 0 .. n /\ i # 0
    BY <1>4
  <2>2. QED
    BY <1>6, <2>1
<1>9. QED
  BY <1>7, <1>8 DEF kept, n

\* How often the first i entries name p.
Among(list, i, p) == Cardinality({j \in 1 .. i : list[j] = p})

\* One more entry counts once for the name it has.
LEMMA AmongMore ==
  ASSUME NEW list, NEW i \in Nat \ {0}, NEW p
  PROVE  /\ Among(list, i, p) \in Nat
         /\ Among(list, i, p) = Among(list, i - 1, p) + (IF list[i] = p THEN 1 ELSE 0)
<1> DEFINE upTo(k) == {j \in 1 .. k : list[j] = p}
<1>1. \A k \in Nat : IsFiniteSet(upTo(k))
  <2> SUFFICES ASSUME NEW k \in Nat PROVE IsFiniteSet(upTo(k))
    OBVIOUS
  <2>1. IsFiniteSet(1 .. k)
    BY FS_Interval
  <2>2. QED
    BY <2>1, FS_Subset
<1>2. \A k \in Nat : Cardinality(upTo(k)) \in Nat
  BY <1>1, FS_CardinalityType
<1>3. i - 1 \in Nat
  OBVIOUS
<1>4. CASE list[i] = p
  <2>1. upTo(i) = upTo(i - 1) \cup {i}
    BY <1>4
  <2>2. i \notin upTo(i - 1)
    OBVIOUS
  <2>3. Cardinality(upTo(i)) = Cardinality(upTo(i - 1)) + 1
    <3> HIDE DEF upTo
    <3>1. QED
      BY <1>1, <1>3, <2>1, <2>2, FS_AddElement
  <2>4. QED
    BY <1>2, <1>4, <2>3 DEF Among
<1>5. CASE list[i] # p
  <2>1. upTo(i) = upTo(i - 1)
    BY <1>5
  <2>2. Cardinality(upTo(i)) = Cardinality(upTo(i - 1)) + 0
    <3> HIDE DEF upTo
    <3>1. QED
      BY <1>2, <1>3, <2>1
  <2>3. QED
    BY <1>2, <1>5, <2>2 DEF Among
<1>6. QED
  BY <1>4, <1>5

LEMMA AmongNone ==
  ASSUME NEW list, NEW p
  PROVE  Among(list, 0, p) = 0
<1>1. {j \in 1 .. 0 : list[j] = p} = {}
  OBVIOUS
<1>2. QED
  BY <1>1, FS_EmptySet DEF Among

LEMMA EntriesAmong ==
  ASSUME NEW S, NEW list \in Seq(S), NEW p
  PROVE  Entries(list, p) = Among(list, Len(list), p) /\ Entries(list, p) \in Nat
<1>1. Entries(list, p) = Among(list, Len(list), p)
  BY DEF Entries, Among
<1>2. Among(list, Len(list), p) \in Nat
  <2>1. CASE Len(list) = 0
    BY <2>1, AmongNone
  <2>2. CASE Len(list) # 0
    BY <2>2, AmongMore
  <2>3. QED
    BY <2>1, <2>2
<1>3. QED
  BY <1>1, <1>2

\* Counting sees only what a list holds up to there.
LEMMA AmongSame ==
  ASSUME NEW one, NEW other, NEW i \in Nat, NEW p, \A j \in 1 .. i : one[j] = other[j]
  PROVE  Among(one, i, p) = Among(other, i, p)
<1>1. {j \in 1 .. i : one[j] = p} = {j \in 1 .. i : other[j] = p}
  OBVIOUS
<1>2. QED
  BY <1>1 DEF Among

LEMMA EntriesAppend ==
  ASSUME NEW S, NEW list \in Seq(S), NEW new \in S, NEW p
  PROVE  Entries(Append(list, new), p) = Entries(list, p) + (IF new = p THEN 1 ELSE 0)
<1> DEFINE longer == Append(list, new)
           i == Len(longer)
<1>1. longer \in Seq(S) /\ i = Len(list) + 1 /\ longer[i] = new /\ i \in Nat \ {0}
  OBVIOUS
<1>2. \A j \in 1 .. i - 1 : longer[j] = list[j]
  OBVIOUS
<1> HIDE DEF longer, i
<1>3. Entries(longer, p) = Among(longer, i, p)
  BY <1>1, EntriesAmong DEF i
<1>4. Among(longer, i - 1, p) = Among(list, Len(list), p)
  <2>1. i - 1 = Len(list) /\ i - 1 \in Nat
    BY <1>1
  <2>2. QED
    BY <1>2, <2>1, AmongSame
<1>5. Among(longer, i, p) = Among(longer, i - 1, p) + (IF longer[i] = p THEN 1 ELSE 0)
  BY <1>1, AmongMore
<1>6. Entries(list, p) = Among(list, Len(list), p)
  BY EntriesAmong
<1>7. QED
  BY <1>1, <1>3, <1>4, <1>5, <1>6 DEF longer

\* A list without the names in drop: what is left, in a list no longer than it was.
LEMMA WithoutFacts ==
  ASSUME NEW S, NEW list \in Seq(S), NEW drop
  PROVE  /\ Without(list, drop) \in Seq(S \ drop)
         /\ Len(Without(list, drop)) <= Len(list)
         /\ \A p : Entries(Without(list, drop), p) = IF p \in drop THEN 0 ELSE Entries(list, p)
<1> DEFINE n == Len(list)
           kept == KeptUpTo(list, drop)
           Good(i) == /\ kept[i] \in Seq(S \ drop)
                      /\ Len(kept[i]) <= i
                      /\ \A p : Entries(kept[i], p) = IF p \in drop THEN 0 ELSE Among(list, i, p)
           bad == {i \in 0 .. n : ~Good(i)}
<1>1. n \in Nat /\ \A i \in 1 .. n : list[i] \in S
  OBVIOUS
<1>2. /\ kept[0] = <<>>
      /\ \A i \in 1 .. n : kept[i] = IF list[i] \in drop THEN kept[i - 1]
                                     ELSE Append(kept[i - 1], list[i])
  BY <1>1, KeptIsDefined
<1> HIDE DEF kept, n
<1>3. Good(0)
  <2>1. <<>> \in Seq(S \ drop) /\ Len(<<>>) <= 0
    OBVIOUS
  <2>2. ASSUME NEW p PROVE Entries(<<>>, p) = 0
    <3>0. <<>> \in Seq(S) /\ Len(<<>>) = 0
      OBVIOUS
    <3>1. Entries(<<>>, p) = Among(<<>>, 0, p)
      BY <3>0 DEF Entries, Among
    <3>2. QED
      BY <3>1, AmongNone
  <2>3. QED
    BY <1>2, <2>1, <2>2, AmongNone
<1>4. ASSUME NEW i \in 1 .. n, Good(i - 1) PROVE Good(i)
  <2>1. /\ i \in Nat \ {0} /\ i - 1 \in Nat
        /\ kept[i] = IF list[i] \in drop THEN kept[i - 1] ELSE Append(kept[i - 1], list[i])
        /\ list[i] \in S
    BY <1>1, <1>2
  <2>2. /\ kept[i - 1] \in Seq(S \ drop) /\ Len(kept[i - 1]) <= i - 1
        /\ \A p : Entries(kept[i - 1], p) = IF p \in drop THEN 0 ELSE Among(list, i - 1, p)
    BY <1>4
  <2>3. CASE list[i] \in drop
    <3>1. kept[i] = kept[i - 1]
      BY <2>1, <2>3
    <3>2. kept[i] \in Seq(S \ drop) /\ Len(kept[i]) <= i
      BY <2>1, <2>2, <3>1
    <3>3. ASSUME NEW p
          PROVE  Entries(kept[i], p) = IF p \in drop THEN 0 ELSE Among(list, i, p)
      <4>1. CASE p \in drop
        BY <2>2, <3>1, <4>1
      <4>2. CASE p \notin drop
        <5>1. list[i] # p
          BY <2>3, <4>2
        <5>2. Among(list, i, p) = Among(list, i - 1, p) + 0 /\ Among(list, i, p) \in Nat
          BY <2>1, <5>1, AmongMore
        <5>3. Among(list, i - 1, p) = Entries(kept[i], p)
          BY <2>2, <3>1, <4>2
        <5>4. kept[i - 1] \in Seq(S \ drop)
          BY <2>2
        <5>5. Entries(kept[i], p) \in Nat
          BY <3>1, <5>4, EntriesAmong
        <5>6. QED
          BY <4>2, <5>2, <5>3, <5>5
      <4>3. QED
        BY <4>1, <4>2
    <3>4. QED
      BY <3>2, <3>3
  <2>4. CASE list[i] \notin drop
    <3>1. kept[i] = Append(kept[i - 1], list[i]) /\ list[i] \in S \ drop
      BY <2>1, <2>4
    <3>2. kept[i] \in Seq(S \ drop) /\ Len(kept[i]) <= i
      BY <2>1, <2>2, <3>1
    <3>3. ASSUME NEW p
          PROVE  Entries(kept[i], p) = IF p \in drop THEN 0 ELSE Among(list, i, p)
      <4>0. kept[i - 1] \in Seq(S \ drop)
        BY <2>2
      <4>1. Entries(kept[i], p) = Entries(kept[i - 1], p) + (IF list[i] = p THEN 1 ELSE 0)
        BY <3>1, <4>0, EntriesAppend
      <4>2. CASE p \in drop
        <5>1. list[i] # p /\ Entries(kept[i - 1], p) = 0
          BY <2>2, <2>4, <4>2
        <5>2. QED
          BY <4>1, <4>2, <5>1
      <4>3. CASE p \notin drop
        <5>1. Entries(kept[i - 1], p) = Among(list, i - 1, p)
          BY <2>2, <4>3
        <5>2. Among(list, i, p) = Among(list, i - 1, p) + (IF list[i] = p THEN 1 ELSE 0)
          BY <2>1, AmongMore
        <5>3. QED
          BY <4>1, <4>3, <5>1, <5>2
      <4>4. QED
        BY <4>2, <4>3
    <3>4. QED
      BY <3>2, <3>3
  <2>5. QED
    BY <2>3, <2>4
<1> HIDE DEF Good
<1>5. bad = {}
  <2> SUFFICES ASSUME bad # {} PROVE FALSE
    OBVIOUS
  <2>1. bad \in SUBSET Nat
    BY <1>1
  <2>2. PICK i \in bad : \A k \in bad : i <= k
    BY <2>1, LeastOf
  <2>3. i \in 0 .. n /\ ~Good(i) /\ i # 0
    BY <1>3, <2>2
  <2>4. i \in 1 .. n /\ i - 1 \in 0 .. n /\ ~(i <= i - 1)
    BY <1>1, <2>3
  <2>5. i - 1 \notin bad
    BY <2>2, <2>4
  <2>6. Good(i - 1)
    BY <2>4, <2>5
  <2>7. QED
    BY <1>4, <2>3, <2>4, <2>6
<1>6. Good(n)
  BY <1>1, <1>5
<1>7. Without(list, drop) = kept[n]
  BY DEF Without, kept, n
<1>8. \A p : Entries(list, p) = Among(list, n, p)
  BY EntriesAmong DEF n
<1>9. QED
  BY <1>6, <1>7, <1>8 DEF Good, n
=============================================================================
