-------------------------- MODULE SubsequencesProofs --------------------------
(***************************************************************************)
(* What the functions of Subsequences return, for all finite sets of       *)
(* numbers and all sequences.                                              *)
(***************************************************************************)
EXTENDS Subsequences, SequencesExt, FiniteSetTheorems, TLAPS

Numbers == Nat

\* How many of a set come before a number tells where it stands in the order.
Earlier(ids, id) == {other \in ids : other < id}
Rank(ids, id) == Cardinality(Earlier(ids, id))

LEMMA RanksDiffer ==
  ASSUME NEW ids \in SUBSET Nat, IsFiniteSet(ids)
  PROVE  /\ \A id \in ids : Rank(ids, id) \in Nat /\ Rank(ids, id) < Cardinality(ids)
         /\ \A a, b \in ids : a < b => Rank(ids, a) < Rank(ids, b)
<1>1. ASSUME NEW S, NEW T, IsFiniteSet(T), S \subseteq T, NEW x \in T, x \notin S
      PROVE  Cardinality(S) \in Nat /\ Cardinality(T) \in Nat /\ Cardinality(S) < Cardinality(T)
  <2>1. IsFiniteSet(S) /\ Cardinality(S) <= Cardinality(T) /\ Cardinality(T) # Cardinality(S)
    BY <1>1, FS_Subset
  <2>2. Cardinality(S) \in Nat /\ Cardinality(T) \in Nat
    BY <1>1, <2>1, FS_CardinalityType
  <2> QED
    BY <2>1, <2>2
<1>2. ASSUME NEW id \in ids PROVE Rank(ids, id) \in Nat /\ Rank(ids, id) < Cardinality(ids)
  <2>1. Earlier(ids, id) \subseteq ids /\ id \notin Earlier(ids, id)
    BY DEF Earlier
  <2> QED
    BY <1>1, <2>1 DEF Rank
<1>3. ASSUME NEW a \in ids, NEW b \in ids, a < b PROVE Rank(ids, a) < Rank(ids, b)
  <2>1. /\ Earlier(ids, a) \subseteq Earlier(ids, b)
        /\ a \in Earlier(ids, b) /\ a \notin Earlier(ids, a)
    <3>1. \A x \in ids : x < a => x < b
      BY <1>3
    <3>2. ~(a < a)
      OBVIOUS
    <3> QED
      BY <1>3, <3>1, <3>2 DEF Earlier
  <2>2. IsFiniteSet(Earlier(ids, b))
    BY FS_Subset DEF Earlier
  <2> QED
    BY <1>1, <2>1, <2>2 DEF Rank
<1> QED
  BY <1>2, <1>3

LEMMA InOrderDoes ==
  ASSUME NEW ids \in SUBSET Nat, IsFiniteSet(ids)
  PROVE  /\ InOrder(ids) \in Seq(Numbers) /\ IsInjective(InOrder(ids))
         /\ Len(InOrder(ids)) = Cardinality(ids) /\ ToSet(InOrder(ids)) = ids
<1> DEFINE N == Cardinality(ids)
           place == [id \in ids |-> Rank(ids, id) + 1]
           s == InOrder(ids)
<1>1. N \in Nat
  BY FS_CardinalityType
<1>2. \A a, b \in ids : Rank(ids, a) = Rank(ids, b) => a = b
  <2>1. \A a, b \in ids : a < b \/ b < a \/ a = b
    OBVIOUS
  <2> QED
    BY <2>1, RanksDiffer
<1>3. place \in Injection(ids, 1 .. N)
  <2>1. \A id \in ids : Rank(ids, id) + 1 \in 1 .. N
    BY <1>1, RanksDiffer
  <2>2. \A a, b \in ids : place[a] = place[b] => a = b
    BY <1>2, RanksDiffer
  <2> QED
    BY <2>1, <2>2 DEF Injection, IsInjective
<1>4. IsFiniteSet(1 .. N) /\ Cardinality(1 .. N) = N
  BY <1>1, FS_Interval
<1>5. place \in Surjection(ids, 1 .. N)
  BY <1>3, <1>4, FS_Injection
<1>6. \A n \in 1 .. N : \E id \in ids : Rank(ids, id) = n - 1
  <2> SUFFICES ASSUME NEW n \in 1 .. N PROVE \E id \in ids : Rank(ids, id) = n - 1
    OBVIOUS
  <2>1. PICK id \in ids : place[id] = n
    BY <1>5 DEF Surjection
  <2>2. Rank(ids, id) + 1 = n /\ Rank(ids, id) \in Nat
    BY <2>1, RanksDiffer
  <2> QED
    BY <2>2
<1> HIDE DEF place, N
<1>7. s = [n \in 1 .. N |-> CHOOSE id \in ids : Rank(ids, id) = n - 1]
  BY DEF InOrder, Rank, Earlier, N
<1>8. \A n \in 1 .. N : s[n] \in ids /\ Rank(ids, s[n]) = n - 1
  BY <1>6, <1>7
<1> HIDE DEF s
<1>9. s \in Seq(Numbers) /\ DOMAIN s = 1 .. N /\ Len(s) = N
  <2>1. s \in [1 .. N -> Nat]
    BY <1>7, <1>8
  <2> QED
    BY <1>1, <2>1 DEF Numbers
<1>10. IsInjective(s)
  <2> SUFFICES ASSUME NEW a \in 1 .. N, NEW b \in 1 .. N, s[a] = s[b] PROVE a = b
    BY <1>9 DEF IsInjective
  <2>1. a - 1 = b - 1
    BY <1>8
  <2> QED
    BY <1>1, <2>1
<1>11. ToSet(s) \subseteq ids
  BY <1>8, <1>9 DEF ToSet
<1>12. ids \subseteq ToSet(s)
  <2> SUFFICES ASSUME NEW id \in ids PROVE id \in ToSet(s)
    OBVIOUS
  <2>1. Rank(ids, id) + 1 \in 1 .. N /\ (Rank(ids, id) + 1) - 1 = Rank(ids, id)
    BY <1>1, RanksDiffer DEF N
  <2>2. s[Rank(ids, id) + 1] \in ids /\ Rank(ids, s[Rank(ids, id) + 1]) = Rank(ids, id)
    BY <1>8, <2>1
  <2>3. s[Rank(ids, id) + 1] = id
    BY <1>2, <2>2
  <2> QED
    BY <1>9, <2>1, <2>3 DEF ToSet
<1> QED
  BY <1>9, <1>10, <1>11, <1>12 DEF s, N

\* The items keep their order, and none is taken twice.
LEMMA EntriesAtDoes ==
  ASSUME NEW S, NEW s \in Seq(S), NEW places \in SUBSET (1 .. Len(s))
  PROVE  LET t == EntriesAt(s, places)
         IN  /\ t \in Seq(S)
             /\ \A n \in 1 .. Len(t) : \E p \in places : t[n] = s[p]
             /\ \A p \in places : \E n \in 1 .. Len(t) : t[n] = s[p]
             /\ (\A i, j \in 1 .. Len(s) : s[i] = s[j] => i = j)
                  => (\A i, j \in 1 .. Len(t) : t[i] = t[j] => i = j)
<1> DEFINE N == Cardinality(places)
           order == InOrder(places)
           t == EntriesAt(s, places)
<1>1. IsFiniteSet(1 .. Len(s)) /\ places \subseteq Nat
  BY FS_Interval
<1>2. IsFiniteSet(places)
  BY <1>1, FS_Subset
<1>3. /\ order \in Seq(Numbers) /\ IsInjective(order)
      /\ Len(order) = N /\ ToSet(order) = places
  BY <1>1, <1>2, InOrderDoes
<1>4. t = [n \in 1 .. N |-> s[order[n]]]
  BY DEF EntriesAt
<1>5. N \in Nat
  BY <1>2, FS_CardinalityType
<1> HIDE DEF order, t, N
<1>6. DOMAIN order = 1 .. N
  BY <1>3
<1>7. \A n \in 1 .. N : order[n] \in places
  BY <1>3, <1>6 DEF ToSet
<1>8. \A p \in places : \E n \in 1 .. N : order[n] = p
  BY <1>3, <1>6 DEF ToSet
<1>9. \A n \in 1 .. N : t[n] = s[order[n]] /\ t[n] \in S
  <2>1. \A p \in places : s[p] \in S
    OBVIOUS
  <2>2. \A n \in 1 .. N : t[n] = s[order[n]]
    BY <1>4
  <2> QED
    BY <1>7, <2>1, <2>2
<1>10. t \in Seq(S) /\ Len(t) = N
  BY <1>4, <1>5, <1>9
<1>11. \A a, b \in 1 .. N : order[a] = order[b] => a = b
  BY <1>3, <1>6 DEF IsInjective
<1>12. \A n \in 1 .. N : \E p \in places : t[n] = s[p]
  BY <1>7, <1>9
<1>13. \A p \in places : \E n \in 1 .. N : t[n] = s[p]
  BY <1>8, <1>9
<1>14. ASSUME \A i, j \in 1 .. Len(s) : s[i] = s[j] => i = j,
              NEW a \in 1 .. N, NEW b \in 1 .. N, t[a] = t[b]
       PROVE  a = b
  <2>1. order[a] \in 1 .. Len(s) /\ order[b] \in 1 .. Len(s) /\ s[order[a]] = s[order[b]]
    BY <1>7, <1>9, <1>14
  <2> QED
    BY <1>11, <1>14, <2>1
<1> QED
  BY <1>10, <1>12, <1>13, <1>14 DEF t
=============================================================================
