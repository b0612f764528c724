---------------------------- MODULE DataTheorems ----------------------------
(***************************************************************************)
(* Facts about data that the proofs of all components share: least         *)
(* elements, which take the place of induction; inserting into a sequence  *)
(* and removing from one; and SumOver, for every function and finite set.  *)
(***************************************************************************)
EXTENDS Sums, Integers, SequencesExt, FiniteSetTheorems, SequenceTheorems,
        WellFoundedInduction, TLAPS

\* Every set of natural numbers has a least element.
LEMMA LeastNatural ==
  ASSUME NEW S \in SUBSET Nat, S # {}
  PROVE  \E x \in S : \A y \in S : x <= y
<1> DEFINE less == {p \in Nat \X Nat : p[1] < p[2]}
<1>1. IsWellFoundedOn(less, Nat)
  BY NatLessThanWellFounded DEF OpToRel
<1>2. PICK x \in S : \A y \in S : ~(<<y, x>> \in less)
  BY <1>1, WFMin
<1>3. ASSUME NEW y \in S PROVE x <= y
  <2>1. x \in Nat /\ y \in Nat /\ ~(y < x)
    BY <1>2
  <2> QED
    BY <2>1
<1> QED
  BY <1>3

\* Min finds it.
LEMMA MinIsLeast ==
  ASSUME NEW S \in SUBSET Nat, S # {}
  PROVE  Min(S) \in S /\ \A y \in S : Min(S) <= y
BY LeastNatural DEF Min

-----------------------------------------------------------------------------
\* InsertAt makes room at i and moves what was there and behind it.
LEMMA InsertAtProperties ==
  ASSUME NEW S, NEW s \in Seq(S), NEW i \in 1..(Len(s) + 1), NEW e \in S
  PROVE  /\ InsertAt(s, i, e) \in Seq(S)
         /\ Len(InsertAt(s, i, e)) = Len(s) + 1
         /\ \A k \in 1..(Len(s) + 1) :
              InsertAt(s, i, e)[k] = IF k < i THEN s[k] ELSE IF k = i THEN e ELSE s[k - 1]
<1> DEFINE front == SubSeq(s, 1, i - 1)
           back  == SubSeq(s, i, Len(s))
<1>1. /\ front \in Seq(S) /\ Len(front) = i - 1
      /\ \A k \in 1..(i - 1) : front[k] = s[k]
  OBVIOUS
<1>2. /\ back \in Seq(S) /\ Len(back) = Len(s) - i + 1
      /\ \A k \in 1..(Len(s) - i + 1) : back[k] = s[i + k - 1]
  OBVIOUS
<1> HIDE DEF front, back
<1> DEFINE middle == front \o <<e>>
<1>3. /\ middle \in Seq(S) /\ Len(middle) = i
      /\ \A k \in 1..i : middle[k] = IF k = i THEN e ELSE front[k]
  BY <1>1
<1> HIDE DEF middle
<1> DEFINE whole == middle \o back
<1>4. /\ whole \in Seq(S) /\ Len(whole) = Len(s) + 1
      /\ \A k \in 1..(Len(s) + 1) :
           whole[k] = IF k <= i THEN middle[k] ELSE back[k - i]
  <2>1. /\ whole \in Seq(S) /\ Len(whole) = Len(middle) + Len(back)
        /\ \A k \in 1..(Len(middle) + Len(back)) :
             whole[k] = IF k <= Len(middle) THEN middle[k] ELSE back[k - Len(middle)]
    BY <1>2, <1>3, ConcatProperties
  <2>4. Len(middle) = i /\ Len(middle) + Len(back) = Len(s) + 1
    BY <1>2, <1>3
  <2> HIDE DEF whole
  <2> QED
    BY <2>1, <2>4
<1> HIDE DEF whole
<1>5. ASSUME NEW k \in 1..(Len(s) + 1)
      PROVE  whole[k] = IF k < i THEN s[k] ELSE IF k = i THEN e ELSE s[k - 1]
  <2>1. CASE k < i
    BY <2>1, <1>1, <1>3, <1>4
  <2>2. CASE k = i
    BY <2>2, <1>3, <1>4
  <2>3. CASE k > i
    <3>1. whole[k] = back[k - i]
      BY <2>3, <1>4
    <3>2. k - i \in 1..(Len(s) - i + 1)
      BY <2>3
    <3>3. i + (k - i) - 1 = k - 1
      BY <2>3
    <3> QED
      BY <2>3, <3>1, <3>2, <3>3, <1>2
  <2>4. k < i \/ k = i \/ k > i
    OBVIOUS
  <2> QED
    BY <2>1, <2>2, <2>3, <2>4
<1>6. InsertAt(s, i, e) = whole
  BY DEF InsertAt, whole, middle, front, back
<1> QED
  BY <1>4, <1>5, <1>6

\* RemoveAt closes the gap at i and moves what was behind it.
LEMMA RemoveAtProperties ==
  ASSUME NEW S, NEW s \in Seq(S), NEW i \in 1..Len(s)
  PROVE  /\ RemoveAt(s, i) \in Seq(S)
         /\ Len(RemoveAt(s, i)) = Len(s) - 1
         /\ \A k \in 1..(Len(s) - 1) :
              RemoveAt(s, i)[k] = IF k < i THEN s[k] ELSE s[k + 1]
<1> DEFINE front == SubSeq(s, 1, i - 1)
           back  == SubSeq(s, i + 1, Len(s))
<1>1. /\ front \in Seq(S) /\ Len(front) = i - 1
      /\ \A k \in 1..(i - 1) : front[k] = s[k]
  OBVIOUS
<1>2. /\ back \in Seq(S) /\ Len(back) = Len(s) - i
      /\ \A k \in 1..(Len(s) - i) : back[k] = s[i + k]
  OBVIOUS
<1> HIDE DEF front, back
<1> DEFINE whole == front \o back
<1>3. /\ whole \in Seq(S) /\ Len(whole) = Len(s) - 1
      /\ \A k \in 1..(Len(s) - 1) :
           whole[k] = IF k <= i - 1 THEN front[k] ELSE back[k - (i - 1)]
  <2>1. /\ whole \in Seq(S) /\ Len(whole) = Len(front) + Len(back)
        /\ \A k \in 1..(Len(front) + Len(back)) :
             whole[k] = IF k <= Len(front) THEN front[k] ELSE back[k - Len(front)]
    BY <1>1, <1>2, ConcatProperties
  <2>2. Len(front) = i - 1 /\ Len(front) + Len(back) = Len(s) - 1
    BY <1>1, <1>2
  <2> HIDE DEF whole
  <2> QED
    BY <2>1, <2>2
<1> HIDE DEF whole
<1>4. ASSUME NEW k \in 1..(Len(s) - 1)
      PROVE  whole[k] = IF k < i THEN s[k] ELSE s[k + 1]
  <2>1. CASE k < i
    BY <1>1, <1>3, <2>1
  <2>2. CASE ~(k < i)
    <3>1. whole[k] = back[k - (i - 1)]
      BY <1>3, <2>2
    <3>2. k - (i - 1) \in 1..(Len(s) - i) /\ i + (k - (i - 1)) = k + 1
      BY <2>2
    <3> QED
      BY <1>2, <2>2, <3>1, <3>2
  <2> QED
    BY <2>1, <2>2
<1>5. RemoveAt(s, i) = whole
  BY DEF RemoveAt, whole, front, back
<1> QED
  BY <1>3, <1>4, <1>5

-----------------------------------------------------------------------------
\* The units of a sum are a finite set, so a sum is a natural number.
LEMMA SumNat ==
  ASSUME NEW S, IsFiniteSet(S), NEW f, \A i \in S : f[i] \in Nat
  PROVE  IsFiniteSet(UnitsOf(f, S)) /\ SumOver(f, S) \in Nat
<1> DEFINE parts == {{i} \X (1..f[i]) : i \in S}
<1> DEFINE part  == [i \in S |-> {i} \X (1..f[i])]
<1>1. part \in Surjection(S, parts)
  BY DEF Surjection
<1>2. IsFiniteSet(parts)
  BY <1>1, FS_Surjection
<1>3. ASSUME NEW P \in parts PROVE IsFiniteSet(P)
  <2>1. PICK i \in S : P = {i} \X (1..f[i])
    OBVIOUS
  <2>2. IsFiniteSet({i})
    BY FS_Singleton
  <2>3. 1 \in Int /\ f[i] \in Int
    OBVIOUS
  <2>4. IsFiniteSet(1..f[i])
    BY <2>3, FS_Interval
  <2> QED
    BY <2>1, <2>2, <2>4, FS_Product
<1>4. IsFiniteSet(UNION parts)
  BY <1>2, <1>3, FS_UNION
<1> QED
  BY <1>4, FS_CardinalityType DEF UnitsOf, SumOver

\* An empty sum is 0.
LEMMA SumEmpty == \A f : SumOver(f, {}) = 0
BY FS_EmptySet DEF SumOver, UnitsOf

\* The sum over one element is the value there.
LEMMA SumSingle ==
  ASSUME NEW x, NEW f, f[x] \in Nat
  PROVE  SumOver(f, {x}) = f[x]
<1>1. UnitsOf(f, {x}) = {x} \X (1..f[x])
  BY DEF UnitsOf
<1>2. IsFiniteSet({x}) /\ Cardinality({x}) = 1
  BY FS_Singleton
<1>3. 1 \in Int /\ f[x] \in Int
  OBVIOUS
<1>4. IsFiniteSet(1..f[x]) /\ Cardinality(1..f[x]) = IF 1 > f[x] THEN 0 ELSE f[x] - 1 + 1
  BY <1>3, FS_Interval
<1>5. Cardinality({x} \X (1..f[x])) = Cardinality({x}) * Cardinality(1..f[x])
  BY <1>2, <1>4, FS_Product
<1>6. Cardinality(1..f[x]) = f[x]
  BY <1>4
<1>7. Cardinality({x} \X (1..f[x])) = 1 * f[x]
  BY <1>2, <1>5, <1>6
<1>8. 1 * f[x] = f[x]
  OBVIOUS
<1> QED
  BY <1>1, <1>7, <1>8 DEF SumOver

\* Sums over disjoint sets add up.
LEMMA SumUnion ==
  ASSUME NEW S, NEW T, IsFiniteSet(S), IsFiniteSet(T), S \cap T = {},
         NEW f, \A i \in S \cup T : f[i] \in Nat
  PROVE  SumOver(f, S \cup T) = SumOver(f, S) + SumOver(f, T)
<1>1. IsFiniteSet(UnitsOf(f, S)) /\ SumOver(f, S) \in Nat
  BY SumNat
<1>2. IsFiniteSet(UnitsOf(f, T)) /\ SumOver(f, T) \in Nat
  BY SumNat
<1>3. UnitsOf(f, S \cup T) = UnitsOf(f, S) \cup UnitsOf(f, T)
  BY DEF UnitsOf
<1>4. UnitsOf(f, S) \cap UnitsOf(f, T) = {}
  BY DEF UnitsOf
<1>5. Cardinality(UnitsOf(f, S) \cap UnitsOf(f, T)) = 0
  BY <1>4, FS_EmptySet
<1>6. Cardinality(UnitsOf(f, S) \cup UnitsOf(f, T))
        = Cardinality(UnitsOf(f, S)) + Cardinality(UnitsOf(f, T))
            - Cardinality(UnitsOf(f, S) \cap UnitsOf(f, T))
  BY <1>1, <1>2, FS_Union
<1>7. SumOver(f, S \cup T) = SumOver(f, S) + SumOver(f, T)
                                - Cardinality(UnitsOf(f, S) \cap UnitsOf(f, T))
  BY <1>3, <1>6 DEF SumOver
<1> QED
  BY <1>1, <1>2, <1>5, <1>7

\* A new element adds its value.
LEMMA SumAdd ==
  ASSUME NEW S, IsFiniteSet(S), NEW x, x \notin S,
         NEW f, \A i \in S \cup {x} : f[i] \in Nat
  PROVE  SumOver(f, S \cup {x}) = SumOver(f, S) + f[x]
<1>1. IsFiniteSet({x})
  BY FS_Singleton
<1>2. SumOver(f, S \cup {x}) = SumOver(f, S) + SumOver(f, {x})
  BY <1>1, SumUnion
<1> QED
  BY <1>2, SumSingle

\* An element taken out takes its value with it.
LEMMA SumRemove ==
  ASSUME NEW S, IsFiniteSet(S), NEW x \in S,
         NEW f, \A i \in S : f[i] \in Nat
  PROVE  SumOver(f, S) = SumOver(f, S \ {x}) + f[x]
<1>1. IsFiniteSet(S \ {x}) /\ x \notin S \ {x} /\ (S \ {x}) \cup {x} = S
  BY FS_RemoveElement
<1> QED
  BY <1>1, SumAdd

\* A sum depends only on the values it adds.
LEMMA SumEqual ==
  ASSUME NEW S, NEW f, NEW g, \A i \in S : f[i] = g[i]
  PROVE  SumOver(f, S) = SumOver(g, S)
<1>1. UnitsOf(f, S) = UnitsOf(g, S)
  BY DEF UnitsOf
<1> QED
  BY <1>1 DEF SumOver

\* Smaller values have a smaller sum.
LEMMA SumMonotone ==
  ASSUME NEW S, IsFiniteSet(S), NEW f, NEW g,
         \A i \in S : f[i] \in Nat /\ g[i] \in Nat /\ f[i] <= g[i]
  PROVE  SumOver(f, S) <= SumOver(g, S)
<1>1. UnitsOf(f, S) \subseteq UnitsOf(g, S)
  BY DEF UnitsOf
<1>2. IsFiniteSet(UnitsOf(g, S))
  BY SumNat
<1> QED
  BY <1>1, <1>2, FS_Subset DEF SumOver

\* When one value changes, the sum changes by as much.
LEMMA SumUpdate ==
  ASSUME NEW S, IsFiniteSet(S), NEW x \in S, NEW f, NEW g,
         \A i \in S : f[i] \in Nat /\ g[i] \in Nat,
         \A i \in S \ {x} : f[i] = g[i]
  PROVE  SumOver(g, S) = SumOver(f, S) - f[x] + g[x]
<1>1. SumOver(f, S \ {x}) = SumOver(g, S \ {x})
  BY SumEqual
<1>2. SumOver(f, S) = SumOver(f, S \ {x}) + f[x]
  BY SumRemove
<1>3. SumOver(g, S) = SumOver(g, S \ {x}) + g[x]
  BY SumRemove
<1>4. IsFiniteSet(S \ {x})
  BY FS_RemoveElement
<1>5. SumOver(f, S \ {x}) \in Nat
  BY <1>4, SumNat
<1> QED
  BY <1>1, <1>2, <1>3, <1>5

-----------------------------------------------------------------------------
\* A set that holds 0 and, with every number below C, the next one, holds all
\* of 0..C: an argument along the cores of a node, or the places of a queue.
LEMMA UpTo ==
  ASSUME NEW C \in Nat, NEW S \in SUBSET (0..C), 0 \in S,
         \A k \in 0..(C - 1) : k \in S => k + 1 \in S
  PROVE  S = 0..C
<1> SUFFICES ASSUME S # 0..C PROVE FALSE
  OBVIOUS
<1> DEFINE missing == (0..C) \ S
<1>1. missing \in SUBSET Nat /\ missing # {}
  <2>1. 0..C \subseteq Nat
    OBVIOUS
  <2> QED
    BY <2>1
<1>2. PICK x \in missing : \A y \in missing : x <= y
  BY <1>1, LeastNatural
<1>3. x \in 1..C
  BY <1>2
<1>4. x - 1 \in 0..(C - 1) /\ x - 1 \in S
  BY <1>2, <1>3
<1>5. x - 1 + 1 = x
  BY <1>3
<1> QED
  BY <1>2, <1>4, <1>5

\* The sum over the places before the next one.
LEMMA SumNext ==
  ASSUME NEW k \in Nat, NEW f, \A i \in 0..k : f[i] \in Nat
  PROVE  /\ SumOver(f, 0..(k - 1)) \in Nat
         /\ SumOver(f, 0..((k + 1) - 1)) = SumOver(f, 0..(k - 1)) + f[k]
<1>1. 0 \in Int /\ k - 1 \in Int
  OBVIOUS
<1>2. IsFiniteSet(0..(k - 1))
  BY <1>1, FS_Interval
<1>3. k \notin 0..(k - 1) /\ 0..((k + 1) - 1) = (0..(k - 1)) \cup {k}
  OBVIOUS
<1>4. SumOver(f, 0..(k - 1)) \in Nat
  BY <1>2, SumNat
<1>5. \A i \in (0..(k - 1)) \cup {k} : f[i] \in Nat
  OBVIOUS
<1>6. SumOver(f, (0..(k - 1)) \cup {k}) = SumOver(f, 0..(k - 1)) + f[k]
  BY <1>2, <1>3, <1>5, SumAdd
<1> QED
  BY <1>3, <1>4, <1>6

\* Equal values add up to a product.
LEMMA SumConstant ==
  ASSUME NEW S, IsFiniteSet(S), NEW f, NEW v \in Nat, \A i \in S : f[i] = v
  PROVE  SumOver(f, S) = Cardinality(S) * v
<1>1. UnitsOf(f, S) = S \X (1..v)
  BY DEF UnitsOf
<1>2. 1 \in Int /\ v \in Int
  OBVIOUS
<1>3. IsFiniteSet(1..v) /\ Cardinality(1..v) = IF 1 > v THEN 0 ELSE v - 1 + 1
  BY <1>2, FS_Interval
<1>4. Cardinality(1..v) = v
  BY <1>3
<1>5. Cardinality(S \X (1..v)) = Cardinality(S) * Cardinality(1..v)
  BY <1>3, FS_Product
<1> QED
  BY <1>1, <1>4, <1>5 DEF SumOver

\* A sum is 0 only when nothing in it is more.
LEMMA SumZero ==
  ASSUME NEW S, IsFiniteSet(S), NEW f, \A i \in S : f[i] \in Nat
  PROVE  SumOver(f, S) = 0 <=> \A i \in S : f[i] = 0
<1>1. ASSUME SumOver(f, S) = 0, NEW x \in S PROVE f[x] = 0
  <2>1. SumOver(f, S) = SumOver(f, S \ {x}) + f[x]
    BY SumRemove
  <2>2. IsFiniteSet(S \ {x})
    BY FS_RemoveElement
  <2>3. SumOver(f, S \ {x}) \in Nat
    BY <2>2, SumNat
  <2> QED
    BY <1>1, <2>1, <2>3
<1>2. ASSUME \A i \in S : f[i] = 0 PROVE SumOver(f, S) = 0
  <2>1. SumOver(f, S) = Cardinality(S) * 0
    BY <1>2, SumConstant
  <2>2. Cardinality(S) \in Nat
    BY FS_CardinalityType
  <2> QED
    BY <2>1, <2>2
<1> QED
  BY <1>1, <1>2
=============================================================================
