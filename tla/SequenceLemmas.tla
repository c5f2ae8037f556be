--------------------------- MODULE SequenceLemmas ---------------------------
(***************************************************************************)
(* What the proofs of several modules need of sequences: the removal of an *)
(* element, a change of every element in its place, and how many elements  *)
(* of a kind there are.  A set of naturals has a least element, which is   *)
(* how facts about a recursive function on a sequence are proved.          *)
(***************************************************************************)
EXTENDS Integers, SequencesExt, SequenceTheorems, FiniteSetTheorems,
        WellFoundedInduction, TLAPS

LEMMA LeastElement ==
    ASSUME NEW T, T \subseteq Nat, T # {}
    PROVE  \E x \in T : \A y \in T : x <= y
  <1>1. PICK x \in T : \A y \in T : <<y, x>> \notin OpToRel(<, Nat)
    BY NatLessThanWellFounded, WFMin
  <1>2. \A y \in T : y < x => <<y, x>> \in OpToRel(<, Nat)
    BY Zenon DEF OpToRel
  <1>3. \A y \in T : ~(y < x)
    BY <1>1, <1>2, Zenon
  <1> QED
    BY <1>3

(* Vec::remove takes one element out and keeps the others.                 *)
LEMMA RemoveAtType ==
    ASSUME NEW S, NEW s \in Seq(S), NEW k \in DOMAIN s
    PROVE  /\ RemoveAt(s, k) \in Seq(S)
           /\ Len(RemoveAt(s, k)) = Len(s) - 1
  <1>1. k \in 1..Len(s)
    OBVIOUS
  <1>2. /\ SubSeq(s, 1, k-1) \in Seq(S)
        /\ Len(SubSeq(s, 1, k-1)) = k - 1
    BY <1>1
  <1>3. /\ SubSeq(s, k+1, Len(s)) \in Seq(S)
        /\ Len(SubSeq(s, k+1, Len(s))) = Len(s) - k
    BY <1>1
  <1>4. /\ SubSeq(s, 1, k-1) \o SubSeq(s, k+1, Len(s)) \in Seq(S)
        /\ Len(SubSeq(s, 1, k-1) \o SubSeq(s, k+1, Len(s))) = (k - 1) + (Len(s) - k)
    BY <1>2, <1>3, ConcatProperties
  <1>5. (k - 1) + (Len(s) - k) = Len(s) - 1
    BY <1>1
  <1> QED
    BY <1>4, <1>5 DEF RemoveAt

(* Vec::remove(k) keeps what is before k and moves the rest one down.      *)
LEMMA RemoveAtElements ==
    ASSUME NEW S, NEW s \in Seq(S), NEW k \in DOMAIN s
    PROVE  /\ DOMAIN RemoveAt(s, k) = 1..(Len(s) - 1)
           /\ \A i \in 1..(Len(s) - 1) :
                  RemoveAt(s, k)[i] = IF i < k THEN s[i] ELSE s[i + 1]
  <1> DEFINE front == SubSeq(s, 1, k-1)
             back  == SubSeq(s, k+1, Len(s))
  <1>1. k \in 1..Len(s) /\ Len(s) \in Nat
    BY LenProperties
  <1>2. /\ front \in Seq(S) /\ Len(front) = k - 1
        /\ \A i \in 1..(k-1) : front[i] = s[i]
    BY <1>1
  <1>3. /\ back \in Seq(S) /\ Len(back) = Len(s) - k
        /\ \A i \in 1..(Len(s)-k) : back[i] = s[k+i]
    BY <1>1
  <1>4. RemoveAt(s, k) = front \o back
    BY DEF RemoveAt
  <1> HIDE DEF front, back
  <1>5. DOMAIN RemoveAt(s, k) = 1..(Len(s) - 1)
    BY <1>1, RemoveAtType, LenProperties
  <1>6. ASSUME NEW i \in 1..(Len(s) - 1)
        PROVE  RemoveAt(s, k)[i] = IF i < k THEN s[i] ELSE s[i + 1]
    <2>0. i \in Int /\ k \in Int
      BY <1>1
    <2>1. CASE i < k
      <3>1. i \in 1..(k - 1)
        BY <1>1, <2>0, <2>1
      <3>2. (front \o back)[i] = front[i]
        BY <1>1, <1>2, <1>3, <3>1, ConcatProperties
      <3> QED
        BY <1>2, <1>4, <2>1, <3>1, <3>2
    <2>2. CASE ~(i < k)
      <3>1. i - (k - 1) \in 1..(Len(s) - k) /\ k + (i - (k - 1)) = i + 1
        BY <1>1, <2>0, <2>2
      <3>2. (front \o back)[i] = back[i - (k - 1)]
        BY <1>1, <1>2, <1>3, <2>2, ConcatProperties
      <3> QED
        BY <1>3, <1>4, <2>2, <3>1, <3>2
    <2> QED
      BY <2>1, <2>2
  <1> QED
    BY <1>5, <1>6

(* A sequence whose elements were changed in their places is one still.    *)
LEMMA InPlaceType ==
    ASSUME NEW S, NEW s \in Seq(S), NEW t, DOMAIN t = DOMAIN s,
           t = [k \in DOMAIN s |-> t[k]], \A k \in DOMAIN s : t[k] \in S
    PROVE  t \in Seq(S) /\ Len(t) = Len(s)
  <1>1. DOMAIN s = 1..Len(s) /\ Len(s) \in Nat
    BY LenProperties
  <1>2. t \in [1..Len(s) -> S]
    BY <1>1
  <1>3. t \in Seq(S)
    BY <1>1, <1>2, IsASeq
  <1> QED
    BY <1>1, <1>3, LenProperties

(* The places of a sequence, after the first so many, whose element is in  *)
(* a set.                                                                  *)
ElementsAfter(s, from, T) == {k \in DOMAIN s : k > from /\ s[k] \in T}

LEMMA CountAppended ==
    ASSUME NEW S, NEW s \in Seq(S), NEW e \in S, NEW T, NEW from \in Nat, from <= Len(s)
    PROVE  /\ Cardinality(ElementsAfter(s, from, T)) \in Nat
           /\ Cardinality(ElementsAfter(Append(s, e), from, T)) =
                 Cardinality(ElementsAfter(s, from, T)) + (IF e \in T THEN 1 ELSE 0)
  <1> DEFINE n   == Len(s)
             t   == Append(s, e)
             old == ElementsAfter(s, from, T)
             new == ElementsAfter(t, from, T)
  <1>1. /\ n \in Nat /\ DOMAIN s = 1..n /\ DOMAIN t = 1..(n + 1)
        /\ \A k \in 1..n : t[k] = s[k]
        /\ t[n + 1] = e
    BY AppendProperties, LenProperties
  <1>2. IsFiniteSet(old) /\ n + 1 \notin old
    <2>1. old \in SUBSET (1..n) /\ IsFiniteSet(1..n)
      BY <1>1, FS_Interval DEF ElementsAfter
    <2> QED
      BY <1>1, <2>1, FS_Subset
  <1>3. new = IF e \in T THEN old \cup {n + 1} ELSE old
    BY <1>1 DEF ElementsAfter
  <1>4. Cardinality(old) \in Nat /\ Cardinality(old \cup {n + 1}) = Cardinality(old) + 1
    BY <1>2, FS_CardinalityType, FS_AddElement
  <1> HIDE DEF old, new
  <1>5. Cardinality(new) = Cardinality(old) + (IF e \in T THEN 1 ELSE 0)
    BY <1>3, <1>4
  <1> QED
    BY <1>4, <1>5 DEF old, new
=============================================================================
