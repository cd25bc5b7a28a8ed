------------------------- MODULE ChatMessagesProofs -------------------------
(***************************************************************************)
(* Proofs about ChatMessages for every set of clients and of groups, any   *)
(* caps, and any number of messages, calls under way, failures and         *)
(* restarts.                                                               *)
(***************************************************************************)
EXTENDS ChatMessages, SubsequencesProofs, WellFoundedInduction, SequenceTheorems

-----------------------------------------------------------------------------
(* Parts of a history. *)

LEMMA MembersOf ==
  ASSUME NEW S, NEW s \in Seq(S)
  PROVE  /\ \A n \in 1 .. Len(s) : s[n] \in ToSet(s)
         /\ \A x \in ToSet(s) : \E n \in 1 .. Len(s) : s[n] = x
         /\ ToSet(s) \subseteq S
  BY DEF ToSet

\* A history is cut in two: together the parts have its messages, none twice.
LEMMA PartsOf ==
  ASSUME NEW S, NEW s \in Seq(S), NEW n \in 0 .. Len(s),
         NEW old \in Seq(S), NEW new \in Seq(S),
         Len(old) = n, Len(new) = Len(s) - n,
         \A i \in 1 .. n : old[i] = s[i],
         \A i \in 1 .. Len(s) - n : new[i] = s[n + i]
  PROVE  /\ ToSet(s) = ToSet(old) \cup ToSet(new)
         /\ IsInjective(s) => /\ IsInjective(old) /\ IsInjective(new)
                              /\ ToSet(old) \cap ToSet(new) = {}
<1>1. /\ DOMAIN old = 1 .. n /\ DOMAIN new = 1 .. Len(s) - n /\ DOMAIN s = 1 .. Len(s)
      /\ \A i \in 1 .. n : old[i] = s[i]
      /\ \A i \in 1 .. Len(s) - n : new[i] = s[n + i]
  OBVIOUS
<1>2. ToSet(s) = ToSet(old) \cup ToSet(new)
  <2>1. ASSUME NEW i \in 1 .. Len(s) PROVE s[i] \in ToSet(old) \cup ToSet(new)
    <3>1. CASE i <= n
      BY <1>1, <3>1 DEF ToSet
    <3>2. CASE i > n
      <4>0. i - n \in 1 .. Len(s) - n /\ n + (i - n) = i
        BY <3>2
      <4>1. i - n \in 1 .. Len(s) - n /\ new[i - n] = s[i]
        BY <4>0
      <4> QED
        BY <4>1, <1>1 DEF ToSet
    <3> QED
      BY <3>1, <3>2
  <2>2. ASSUME NEW i \in 1 .. n PROVE old[i] \in ToSet(s)
    <3>1. i \in 1 .. Len(s)
      OBVIOUS
    <3> QED
      BY <3>1, <1>1 DEF ToSet
  <2>3. ASSUME NEW i \in 1 .. Len(s) - n PROVE new[i] \in ToSet(s)
    <3>1. n + i \in 1 .. Len(s)
      OBVIOUS
    <3> QED
      BY <3>1, <1>1 DEF ToSet
  <2>4. ToSet(s) \subseteq ToSet(old) \cup ToSet(new)
    BY <2>1, <1>1 DEF ToSet
  <2>5. DOMAIN old = 1 .. n /\ DOMAIN new = 1 .. Len(s) - n
    BY <1>1
  <2>6. ToSet(old) \subseteq ToSet(s)
    <3> SUFFICES ASSUME NEW x \in ToSet(old) PROVE x \in ToSet(s)
      OBVIOUS
    <3>1. PICK i \in 1 .. n : old[i] = x
      BY <2>5 DEF ToSet
    <3> QED
      BY <2>2, <3>1
  <2>7. ToSet(new) \subseteq ToSet(s)
    <3> SUFFICES ASSUME NEW x \in ToSet(new) PROVE x \in ToSet(s)
      OBVIOUS
    <3>1. PICK i \in 1 .. Len(s) - n : new[i] = x
      BY <2>5 DEF ToSet
    <3> QED
      BY <2>3, <3>1
  <2> QED
    BY <2>4, <2>6, <2>7
<1>3. ASSUME IsInjective(s)
      PROVE  IsInjective(old) /\ IsInjective(new) /\ ToSet(old) \cap ToSet(new) = {}
  <2>1. IsInjective(old)
    BY <1>1, <1>3 DEF IsInjective
  <2>2. IsInjective(new)
    <3> SUFFICES ASSUME NEW i \in 1 .. Len(s) - n, NEW j \in 1 .. Len(s) - n, new[i] = new[j]
                 PROVE  i = j
      BY <1>1 DEF IsInjective
    <3>1. n + i \in DOMAIN s /\ n + j \in DOMAIN s /\ s[n + i] = s[n + j]
      BY <1>1
    <3>2. n + i = n + j
      BY <3>1, <1>3 DEF IsInjective
    <3> QED
      BY <3>2
  <2>3. ASSUME NEW i \in 1 .. n, NEW j \in 1 .. Len(s) - n PROVE old[i] # new[j]
    <3>1. i \in DOMAIN s /\ n + j \in DOMAIN s /\ i # n + j /\ old[i] = s[i] /\ new[j] = s[n + j]
      BY <1>1
    <3> QED
      BY <3>1, <1>3 DEF IsInjective
  <2> QED
    BY <2>1, <2>2, <2>3, <1>1 DEF ToSet
<1> QED
  BY <1>2, <1>3

Oldest(s, n) == SubSeq(s, 1, n)
Rest(s, n) == SubSeq(s, n + 1, Len(s))

LEMMA CutInTwo ==
  ASSUME NEW S, NEW s \in Seq(S), NEW n \in 0 .. Len(s)
  PROVE  /\ Rest(s, n) \in Seq(S) /\ Len(Rest(s, n)) = Len(s) - n
         /\ ToSet(s) = ToSet(Oldest(s, n)) \cup ToSet(Rest(s, n))
         /\ IsInjective(s) =>
              IsInjective(Rest(s, n)) /\ ToSet(Oldest(s, n)) \cap ToSet(Rest(s, n)) = {}
<1>1. /\ Oldest(s, n) \in Seq(S) /\ Rest(s, n) \in Seq(S)
      /\ Len(Oldest(s, n)) = n /\ Len(Rest(s, n)) = Len(s) - n
      /\ \A i \in 1 .. n : Oldest(s, n)[i] = s[i]
      /\ \A i \in 1 .. Len(s) - n : Rest(s, n)[i] = s[n + i]
  BY DEF Oldest, Rest
<1> QED
  BY <1>1, PartsOf

LEMMA Appended ==
  ASSUME NEW S, NEW s \in Seq(S), NEW x \in S, x \notin ToSet(s)
  PROVE  /\ Append(s, x) \in Seq(S)
         /\ Len(Append(s, x)) = Len(s) + 1
         /\ ToSet(Append(s, x)) = ToSet(s) \cup {x}
         /\ IsInjective(s) => IsInjective(Append(s, x))
<1> DEFINE t == Append(s, x)
<1>1. /\ t \in Seq(S) /\ Len(t) = Len(s) + 1
      /\ DOMAIN t = 1 .. Len(s) + 1 /\ DOMAIN s = 1 .. Len(s)
      /\ t[Len(s) + 1] = x
      /\ \A i \in 1 .. Len(s) : t[i] = s[i]
  OBVIOUS
<1> HIDE DEF t
<1>2. ToSet(t) = ToSet(s) \cup {x}
  <2>1. \A i \in 1 .. Len(s) + 1 : i \in 1 .. Len(s) \/ i = Len(s) + 1
    OBVIOUS
  <2>2. \A i \in 1 .. Len(s) : i \in 1 .. Len(s) + 1
    OBVIOUS
  <2> QED
    BY <1>1, <2>1, <2>2 DEF ToSet
<1>3. ASSUME IsInjective(s) PROVE IsInjective(t)
  <2>1. \A i \in 1 .. Len(s) : s[i] # x
    BY <1>1 DEF ToSet
  <2>2. \A i \in 1 .. Len(s) + 1 : i \in 1 .. Len(s) \/ i = Len(s) + 1
    OBVIOUS
  <2> QED
    BY <1>1, <1>3, <2>1, <2>2 DEF IsInjective
<1> QED
  BY <1>1, <1>2, <1>3 DEF t

\* What DeleteChatMessage of the server leaves of a history.
LEMMA WithoutDoes ==
  ASSUME NEW S, NEW s \in Seq(S), IsInjective(s), NEW x
  PROVE  /\ Without(s, x) \in Seq(S) /\ IsInjective(Without(s, x))
         /\ Len(Without(s, x)) <= Len(s)
         /\ ToSet(Without(s, x)) = ToSet(s) \ {x}
<1>1. CASE x \notin ToSet(s)
  BY <1>1 DEF Without
<1>2. CASE x \in ToSet(s)
  <2> DEFINE n == CHOOSE n \in DOMAIN s : s[n] = x
             t == Without(s, x)
  <2>1. n \in 1 .. Len(s) /\ s[n] = x
    BY <1>2 DEF ToSet
  <2>2. t = SubSeq(s, 1, n - 1) \o SubSeq(s, n + 1, Len(s))
    BY <1>2 DEF Without, RemoveAt
  <2> HIDE DEF n, t
  <2>3. /\ t \in Seq(S) /\ Len(t) = Len(s) - 1
        /\ DOMAIN t = 1 .. Len(s) - 1 /\ DOMAIN s = 1 .. Len(s)
        /\ \A i \in 1 .. Len(s) - 1 : t[i] = IF i < n THEN s[i] ELSE s[i + 1]
    <3> DEFINE p == SubSeq(s, 1, n - 1)
               q == SubSeq(s, n + 1, Len(s))
    <3>1. /\ p \in Seq(S) /\ q \in Seq(S) /\ Len(p) = n - 1 /\ Len(q) = Len(s) - n
          /\ \A i \in 1 .. n - 1 : p[i] = s[i]
          /\ \A i \in 1 .. Len(s) - n : q[i] = s[n + i]
      BY <2>1
    <3>2. t = p \o q
      BY <2>2
    <3> HIDE DEF p, q
    <3>3. /\ t \in Seq(S) /\ Len(t) = Len(s) - 1
          /\ \A i \in 1 .. Len(s) - 1 : t[i] = IF i <= n - 1 THEN p[i] ELSE q[i - (n - 1)]
      <4>1. /\ p \o q \in Seq(S) /\ Len(p \o q) = Len(p) + Len(q)
            /\ \A i \in 1 .. Len(p) + Len(q) : (p \o q)[i] = IF i <= Len(p) THEN p[i] ELSE q[i - Len(p)]
        BY <3>1, ConcatProperties
      <4>2. Len(p) + Len(q) = Len(s) - 1
        BY <2>1, <3>1
      <4> QED
        BY <3>1, <3>2, <4>1, <4>2
    <3>4. ASSUME NEW i \in 1 .. Len(s) - 1 PROVE t[i] = IF i < n THEN s[i] ELSE s[i + 1]
      <4>1. CASE i < n
        BY <2>1, <3>1, <3>3, <4>1
      <4>2. CASE ~(i < n)
        <5>1. i - (n - 1) \in 1 .. Len(s) - n /\ n + (i - (n - 1)) = i + 1
          BY <2>1, <4>2
        <5> QED
          BY <2>1, <3>1, <3>3, <4>2, <5>1
      <4> QED
        BY <4>1, <4>2
    <3> QED
      BY <3>3, <3>4
  <2>4. ASSUME NEW i \in 1 .. Len(s) - 1 PROVE t[i] \in ToSet(s) /\ t[i] # x
    <3>1. CASE i < n
      <4>1. i \in 1 .. Len(s) /\ i # n /\ t[i] = s[i]
        BY <2>1, <2>3, <3>1
      <4> QED
        BY <2>1, <2>3, <4>1 DEF ToSet, IsInjective
    <3>2. CASE ~(i < n)
      <4>1. i + 1 \in 1 .. Len(s) /\ i + 1 # n /\ t[i] = s[i + 1]
        BY <2>1, <2>3, <3>2
      <4> QED
        BY <2>1, <2>3, <4>1 DEF ToSet, IsInjective
    <3> QED
      BY <3>1, <3>2
  <2>5. ASSUME NEW j \in 1 .. Len(s), s[j] # x PROVE \E i \in 1 .. Len(s) - 1 : t[i] = s[j]
    <3>1. CASE j < n
      <4>1. j \in 1 .. Len(s) - 1 /\ t[j] = s[j]
        BY <2>1, <2>3, <3>1
      <4> QED
        BY <4>1
    <3>2. CASE ~(j < n)
      <4>1. j # n
        BY <2>1, <2>5
      <4>2. j - 1 \in 1 .. Len(s) - 1 /\ ~(j - 1 < n) /\ (j - 1) + 1 = j
        BY <2>1, <3>2, <4>1
      <4>3. t[j - 1] = s[j]
        BY <2>3, <4>2
      <4> QED
        BY <4>2, <4>3
    <3> QED
      BY <3>1, <3>2
  <2>6. ToSet(t) = ToSet(s) \ {x}
    <3>1. ToSet(t) \subseteq ToSet(s) \ {x}
      BY <2>3, <2>4 DEF ToSet
    <3>2. ToSet(s) \ {x} \subseteq ToSet(t)
      BY <2>3, <2>5 DEF ToSet
    <3> QED
      BY <3>1, <3>2
  <2>7. IsInjective(t)
    <3> SUFFICES ASSUME NEW i \in 1 .. Len(s) - 1, NEW j \in 1 .. Len(s) - 1, t[i] = t[j]
                 PROVE  i = j
      BY <2>3 DEF IsInjective
    <3> DEFINE at(m) == IF m < n THEN m ELSE m + 1
    <3>1. /\ at(i) \in DOMAIN s /\ at(j) \in DOMAIN s
          /\ t[i] = s[at(i)] /\ t[j] = s[at(j)]
      BY <2>1, <2>3
    <3>2. at(i) = at(j)
      BY <3>1 DEF IsInjective
    <3> QED
      BY <3>2, <2>1
  <2> QED
    BY <2>3, <2>6, <2>7 DEF t
<1> QED
  BY <1>1, <1>2

-----------------------------------------------------------------------------
(* Weights and caps. *)

LEMMA SmallestOf ==
  ASSUME NEW S \in SUBSET Nat, S # {}
  PROVE  Min(S) \in S
<1>1. \E x \in S : \A y \in S : ~(<<y, x>> \in OpToRel(<, Nat))
  BY NatLessThanWellFounded, WFMin
<1>2. ASSUME NEW x \in Nat, NEW y \in Nat, ~(<<y, x>> \in OpToRel(<, Nat))
      PROVE  x <= y
  <2>1. <<y, x>> \in Nat \X Nat /\ <<y, x>>[1] = y /\ <<y, x>>[2] = x
    OBVIOUS
  <2>2. ~(y < x)
    BY <1>2, <2>1 DEF OpToRel
  <2> QED
    BY <2>2
<1>3. \E x \in S : \A y \in S : x <= y
  BY <1>1, <1>2
<1> QED
  BY <1>3 DEF Min

LEMMA NumbersFinite ==
  ASSUME NEW n \in Nat, NEW ids \in SUBSET (1 .. n)
  PROVE  IsFiniteSet(ids)
<1>1. IsFiniteSet(1 .. n)
  BY FS_Interval
<1> QED
  BY <1>1, FS_Subset

LEMMA WeightIsNat ==
  ASSUME NEW log, NEW recalled, NEW ids, IsFiniteSet(ids)
  PROVE  WeightOf(log, recalled, ids) \in Nat
<1>1. IsFiniteSet({id \in ids \ recalled : log[id].text})
  BY FS_Subset
<1> QED
  BY <1>1, FS_CardinalityType DEF WeightOf

LEMMA WeightOfNone ==
  ASSUME NEW log, NEW recalled
  PROVE  WeightOf(log, recalled, {}) = 0
<1>1. {id \in {} \ recalled : log[id].text} = {}
  OBVIOUS
<1> QED
  BY <1>1, FS_EmptySet DEF WeightOf

LEMMA WeightSplits ==
  ASSUME NEW log, NEW recalled, NEW A, NEW B, IsFiniteSet(A), IsFiniteSet(B), A \cap B = {}
  PROVE  WeightOf(log, recalled, A \cup B) = WeightOf(log, recalled, A) + WeightOf(log, recalled, B)
<1> DEFINE heavy(ids) == {id \in ids \ recalled : log[id].text}
<1>1. heavy(A \cup B) = heavy(A) \cup heavy(B) /\ heavy(A) \cap heavy(B) = {}
  OBVIOUS
<1>2. IsFiniteSet(heavy(A)) /\ IsFiniteSet(heavy(B))
  BY FS_Subset
<1>3. \A ids : WeightOf(log, recalled, ids) = Cardinality(heavy(ids))
  BY DEF WeightOf
<1> HIDE DEF heavy
<1>4. Cardinality(heavy(A) \cup heavy(B))
        = Cardinality(heavy(A)) + Cardinality(heavy(B)) - Cardinality(heavy(A) \cap heavy(B))
  BY <1>2, FS_Union
<1>5. Cardinality({}) = 0 /\ Cardinality(heavy(A)) \in Nat /\ Cardinality(heavy(B)) \in Nat
  BY <1>2, FS_EmptySet, FS_CardinalityType
<1>6. /\ WeightOf(log, recalled, A \cup B) = Cardinality(heavy(A) \cup heavy(B))
      /\ WeightOf(log, recalled, A) = Cardinality(heavy(A))
      /\ WeightOf(log, recalled, B) = Cardinality(heavy(B))
      /\ Cardinality(heavy(A) \cap heavy(B)) = 0
  BY <1>1, <1>3, <1>5
<1> QED
  BY <1>4, <1>5, <1>6

\* The weight of a set depends on its own messages only.
LEMMA WeightStays ==
  ASSUME NEW log, NEW recalled, NEW log2, NEW recalled2, NEW ids,
         \A id \in ids : log2[id] = log[id] /\ (id \in recalled2 <=> id \in recalled)
  PROVE  WeightOf(log2, recalled2, ids) = WeightOf(log, recalled, ids)
<1>1. {id \in ids \ recalled2 : log2[id].text} = {id \in ids \ recalled : log[id].text}
  OBVIOUS
<1> QED
  BY <1>1 DEF WeightOf

LEMMA RecalledWeighsNothing ==
  ASSUME NEW log, NEW recalled, NEW id, id \in recalled
  PROVE  WeightOf(log, recalled, {id}) = 0
<1>1. {other \in {id} \ recalled : log[other].text} = {}
  OBVIOUS
<1> QED
  BY <1>1, FS_EmptySet DEF WeightOf

\* What the loop of appendChatMessage stops at.
LEMMA ExcessIs ==
  ASSUME NEW k, NEW log, NEW recalled, NEW S, NEW s \in Seq(S), NEW total,
         NEW n, n = Excess(k, log, recalled, s, total)
  PROVE  /\ n \in 0 .. Len(s)
         /\ \/ n = Len(s)
            \/ /\ Len(s) - n <= MaxHistory
               /\ \/ k.kind = "userGroup"
                  \/ total - WeightOf(log, recalled, ToSet(SubSeq(s, 1, n))) <= MaxBytes
<1> DEFINE enough(m) ==
             \/ m = Len(s)
             \/ /\ Len(s) - m <= MaxHistory
                /\ \/ k.kind = "userGroup"
                   \/ total - WeightOf(log, recalled, ToSet(SubSeq(s, 1, m))) <= MaxBytes
           choice == {m \in 0 .. Len(s) : enough(m)}
<1>1. n = Min(choice)
  BY DEF Excess
<1>2. choice \in SUBSET Nat /\ Len(s) \in choice
  OBVIOUS
<1> HIDE DEF enough
<1>3. n \in choice
  BY <1>1, <1>2, SmallestOf
<1>4. n \in 0 .. Len(s) /\ enough(n)
  BY <1>3
<1> QED
  BY <1>4 DEF enough

-----------------------------------------------------------------------------
(* Histories: the counter is exact and the caps hold. *)

GoodHistory(log, recalled, k, s, b) ==
  /\ s \in Seq(Numbers) /\ ToSet(s) \subseteq 1 .. Len(log) /\ IsInjective(s)
  /\ \A id \in ToSet(s) : log[id].to = k
  /\ b = WeightOf(log, recalled, ToSet(s))
  /\ Len(s) <= MaxHistory
  /\ k.kind # "userGroup" => b <= MaxBytes

LEMMA GoodIsFinite ==
  ASSUME NEW S, NEW log \in Seq(S), NEW recalled, NEW k, NEW s, NEW b, GoodHistory(log, recalled, k, s, b)
  PROVE  /\ ToSet(s) \subseteq 1 .. Len(log) /\ IsFiniteSet(ToSet(s)) /\ b \in Nat
<1>1. ToSet(s) \subseteq 1 .. Len(log) /\ Len(log) \in Nat
  BY DEF GoodHistory
<1>2. IsFiniteSet(ToSet(s))
  BY <1>1, NumbersFinite
<1> QED
  BY <1>1, <1>2, WeightIsNat DEF GoodHistory

LEMMA GoodEmpty ==
  ASSUME NEW log, NEW recalled, NEW k
  PROVE  GoodHistory(log, recalled, k, <<>>, 0) /\ ToSet(<<>>) = {}
<1>1. ToSet(<<>>) = {}
  BY DEF ToSet
<1>2. <<>> \in Seq(Numbers) /\ IsInjective(<<>>) /\ Len(<<>>) = 0
  BY DEF IsInjective
<1>3. WeightOf(log, recalled, {}) = 0
  BY WeightOfNone
<1>4. 0 <= MaxHistory /\ 0 <= MaxBytes
  BY MessagesAssumption
<1> QED
  BY <1>1, <1>2, <1>3, <1>4 DEF GoodHistory

\* Caps: what is left of a history when its oldest messages are cut off.
LEMMA GoodRest ==
  ASSUME NEW S, NEW log \in Seq(S), NEW recalled, NEW k,
         NEW s \in Seq(Numbers), ToSet(s) \subseteq 1 .. Len(log), \A id \in ToSet(s) : log[id].to = k,
         NEW n \in 0 .. Len(s), NEW old, NEW new \in Seq(Numbers),
         Len(new) = Len(s) - n, IsInjective(new),
         ToSet(s) = old \cup ToSet(new), old \cap ToSet(new) = {},
         NEW total, total = WeightOf(log, recalled, ToSet(s)),
         \/ n = Len(s)
         \/ /\ Len(s) - n <= MaxHistory
            /\ k.kind = "userGroup" \/ total - WeightOf(log, recalled, old) <= MaxBytes
  PROVE  GoodHistory(log, recalled, k, new, total - WeightOf(log, recalled, old))
<1> DEFINE weight(ids) == WeightOf(log, recalled, ids)
<1>1. ToSet(s) \subseteq 1 .. Len(log) /\ Len(log) \in Nat
  OBVIOUS
<1>2. IsFiniteSet(old) /\ IsFiniteSet(ToSet(new))
  <2>1. old \subseteq 1 .. Len(log) /\ ToSet(new) \subseteq 1 .. Len(log)
    BY <1>1
  <2> QED
    BY <1>1, <2>1, NumbersFinite
<1>3. weight(ToSet(s)) = weight(old) + weight(ToSet(new))
  <2>1. ASSUME NEW rest, rest = ToSet(new)
        PROVE  WeightOf(log, recalled, old \cup rest)
                 = WeightOf(log, recalled, old) + WeightOf(log, recalled, rest)
    <3>1. IsFiniteSet(old) /\ IsFiniteSet(rest) /\ old \cap rest = {}
      BY <1>2, <2>1
    <3> QED
      BY <3>1, WeightSplits, SMTT(20)
  <2> QED
    BY <2>1
<1>4. weight(old) \in Nat /\ weight(ToSet(new)) \in Nat
  BY <1>2, WeightIsNat
<1>5. total - weight(old) = weight(ToSet(new))
  BY <1>3, <1>4
<1>6. n = Len(s) => ToSet(new) = {}
  <2>1. DOMAIN new = 1 .. Len(s) - n
    OBVIOUS
  <2> QED
    BY <2>1 DEF ToSet
<1>7. n = Len(s) => weight(ToSet(new)) = 0
  BY <1>6, WeightOfNone
<1> HIDE DEF weight
<1>8. MaxHistory \in Nat /\ MaxBytes \in Nat /\ Len(s) \in Nat
  BY MessagesAssumption
<1>9. CASE n = Len(s)
  <2>1. Len(new) <= MaxHistory /\ total - weight(old) <= MaxBytes
    BY <1>5, <1>7, <1>8, <1>9
  <2> QED
    BY <1>5, <2>1 DEF GoodHistory, weight
<1>10. CASE n # Len(s)
  <2>1. Len(new) <= MaxHistory /\ (k.kind = "userGroup" \/ total - weight(old) <= MaxBytes)
    BY <1>10 DEF weight
  <2> QED
    BY <1>5, <2>1 DEF GoodHistory, weight
<1> QED
  BY <1>9, <1>10

LEMMA GoodCut ==
  ASSUME NEW S, NEW log \in Seq(S), NEW recalled, NEW k,
         NEW s \in Seq(Numbers), ToSet(s) \subseteq 1 .. Len(log), IsInjective(s),
         \A id \in ToSet(s) : log[id].to = k
  PROVE  LET total == WeightOf(log, recalled, ToSet(s))
             n == Excess(k, log, recalled, s, total)
             old == ToSet(Oldest(s, n))
         IN  /\ GoodHistory(log, recalled, k, Rest(s, n), total - WeightOf(log, recalled, old))
             /\ ToSet(s) = old \cup ToSet(Rest(s, n)) /\ old \cap ToSet(Rest(s, n)) = {}
<1> DEFINE total == WeightOf(log, recalled, ToSet(s))
           n == Excess(k, log, recalled, s, total)
           old == ToSet(Oldest(s, n))
<1> HIDE DEF total, n, old
<1>1. /\ n \in 0 .. Len(s)
      /\ \/ n = Len(s)
         \/ /\ Len(s) - n <= MaxHistory
            /\ k.kind = "userGroup" \/ total - WeightOf(log, recalled, old) <= MaxBytes
  BY ExcessIs DEF Oldest, n, old
<1>2. /\ Rest(s, n) \in Seq(Numbers) /\ Len(Rest(s, n)) = Len(s) - n
      /\ ToSet(s) = old \cup ToSet(Rest(s, n))
      /\ IsInjective(Rest(s, n)) /\ old \cap ToSet(Rest(s, n)) = {}
  BY ONLY <1>1, s \in Seq(Numbers), IsInjective(s), CutInTwo DEF old
<1>3. total = WeightOf(log, recalled, ToSet(s))
  BY DEF total
<1>4. GoodHistory(log, recalled, k, Rest(s, n), total - WeightOf(log, recalled, old))
  BY ONLY <1>1, <1>2, <1>3, log \in Seq(S), s \in Seq(Numbers), ToSet(s) \subseteq 1 .. Len(log),
          \A id \in ToSet(s) : log[id].to = k, GoodRest
<1> QED
  BY <1>2, <1>4 DEF total, n, old

\* appendChatMessage.
LEMMA GoodAppend ==
  ASSUME NEW S, NEW log \in Seq(S), NEW recalled, NEW k, NEW s, NEW b,
         GoodHistory(log, recalled, k, s, b),
         NEW id \in 1 .. Len(log), id \notin ToSet(s), log[id].to = k
  PROVE  LET t == Append(s, id)
             total == b + WeightOf(log, recalled, {id})
             n == Excess(k, log, recalled, t, total)
             old == ToSet(Oldest(t, n))
         IN  /\ GoodHistory(log, recalled, k, Rest(t, n), total - WeightOf(log, recalled, old))
             /\ ToSet(s) \cup {id} = old \cup ToSet(Rest(t, n)) /\ old \cap ToSet(Rest(t, n)) = {}
<1> DEFINE t == Append(s, id)
           total == b + WeightOf(log, recalled, {id})
<1>1. /\ s \in Seq(Numbers) /\ ToSet(s) \subseteq 1 .. Len(log) /\ IsInjective(s)
      /\ b = WeightOf(log, recalled, ToSet(s)) /\ \A other \in ToSet(s) : log[other].to = k
  BY DEF GoodHistory
<1>2. id \in Numbers
  BY DEF Numbers
<1>3. t \in Seq(Numbers) /\ IsInjective(t) /\ ToSet(t) = ToSet(s) \cup {id}
  BY ONLY <1>1, <1>2, id \notin ToSet(s), Appended
<1> HIDE DEF t
<1>4. total = WeightOf(log, recalled, ToSet(t))
  <2>1. IsFiniteSet(ToSet(s)) /\ IsFiniteSet({id}) /\ ToSet(s) \cap {id} = {}
    BY GoodIsFinite, FS_Singleton
  <2>2. WeightOf(log, recalled, ToSet(s) \cup {id})
          = WeightOf(log, recalled, ToSet(s)) + WeightOf(log, recalled, {id})
    BY ONLY <2>1, WeightSplits
  <2> QED
    BY <1>1, <1>3, <2>2
<1> HIDE DEF total
<1>5. ToSet(t) \subseteq 1 .. Len(log) /\ \A other \in ToSet(t) : log[other].to = k
  BY <1>1, <1>3
<1>6. LET all == WeightOf(log, recalled, ToSet(t))
          m == Excess(k, log, recalled, t, all)
          first == ToSet(Oldest(t, m))
      IN  /\ GoodHistory(log, recalled, k, Rest(t, m), all - WeightOf(log, recalled, first))
          /\ ToSet(t) = first \cup ToSet(Rest(t, m)) /\ first \cap ToSet(Rest(t, m)) = {}
  BY ONLY <1>3, <1>5, log \in Seq(S), GoodCut
<1>7. LET n == Excess(k, log, recalled, t, total)
          old == ToSet(Oldest(t, n))
      IN  /\ GoodHistory(log, recalled, k, Rest(t, n), total - WeightOf(log, recalled, old))
          /\ ToSet(s) \cup {id} = old \cup ToSet(Rest(t, n)) /\ old \cap ToSet(Rest(t, n)) = {}
  BY ONLY <1>3, <1>4, <1>6
<1> QED
  BY <1>7 DEF t, total

\* A history is as good as it was when messages of others are sent or recalled.
LEMMA GoodStays ==
  ASSUME NEW S, NEW log \in Seq(S), NEW recalled, NEW k, NEW s, NEW b,
         GoodHistory(log, recalled, k, s, b),
         NEW log2 \in Seq(S), NEW recalled2, Len(log) <= Len(log2),
         \A id \in ToSet(s) : log2[id] = log[id] /\ (id \in recalled2 <=> id \in recalled)
  PROVE  GoodHistory(log2, recalled2, k, s, b)
<1>1. WeightOf(log2, recalled2, ToSet(s)) = WeightOf(log, recalled, ToSet(s))
  BY WeightStays
<1>2. ToSet(s) \subseteq 1 .. Len(log2)
  BY DEF GoodHistory
<1> QED
  BY <1>1, <1>2 DEF GoodHistory

\* The weight of one message of a history is part of its counter.
LEMMA OneLess ==
  ASSUME NEW S, NEW log \in Seq(S), NEW recalled, NEW k, NEW s, NEW b,
         GoodHistory(log, recalled, k, s, b), NEW id \in ToSet(s)
  PROVE  /\ WeightOf(log, recalled, {id}) \in Nat /\ WeightOf(log, recalled, ToSet(s) \ {id}) \in Nat
         /\ b = WeightOf(log, recalled, {id}) + WeightOf(log, recalled, ToSet(s) \ {id})
<1>1. IsFiniteSet(ToSet(s)) /\ IsFiniteSet({id}) /\ b = WeightOf(log, recalled, ToSet(s))
  BY GoodIsFinite, FS_Singleton DEF GoodHistory
<1>2. IsFiniteSet(ToSet(s) \ {id})
  BY <1>1, FS_Subset
<1>3. {id} \cap (ToSet(s) \ {id}) = {} /\ {id} \cup (ToSet(s) \ {id}) = ToSet(s)
  OBVIOUS
<1>4. WeightOf(log, recalled, {id} \cup (ToSet(s) \ {id}))
        = WeightOf(log, recalled, {id}) + WeightOf(log, recalled, ToSet(s) \ {id})
  BY <1>1, <1>2, <1>3, WeightSplits
<1> QED
  BY <1>1, <1>2, <1>3, <1>4, WeightIsNat

LEMMA GoodRecalled ==
  ASSUME NEW S, NEW log \in Seq(S), NEW recalled, NEW k, NEW s, NEW b,
         GoodHistory(log, recalled, k, s, b), NEW id \in ToSet(s)
  PROVE  GoodHistory(log, recalled \cup {id}, k, s, b - WeightOf(log, recalled, {id}))
<1> DEFINE rest == ToSet(s) \ {id}
           now == recalled \cup {id}
           less == b - WeightOf(log, recalled, {id})
<1>1. /\ WeightOf(log, recalled, {id}) \in Nat /\ WeightOf(log, recalled, rest) \in Nat
      /\ b = WeightOf(log, recalled, {id}) + WeightOf(log, recalled, rest)
  BY OneLess
<1>2. WeightOf(log, now, rest) = WeightOf(log, recalled, rest)
  BY WeightStays
<1>3. WeightOf(log, now, {id}) = 0
  BY RecalledWeighsNothing
<1>4. IsFiniteSet(ToSet(s)) /\ IsFiniteSet({id})
  BY GoodIsFinite, FS_Singleton
<1>5. IsFiniteSet(rest) /\ {id} \cap rest = {} /\ {id} \cup rest = ToSet(s)
  BY <1>4, FS_Subset
<1>6. WeightOf(log, now, {id} \cup rest) = WeightOf(log, now, {id}) + WeightOf(log, now, rest)
  BY <1>4, <1>5, WeightSplits
<1>7. less = WeightOf(log, now, ToSet(s)) /\ less <= b
  <2>1. WeightOf(log, now, ToSet(s)) = WeightOf(log, now, {id} \cup rest)
    BY <1>5
  <2>2. WeightOf(log, now, ToSet(s)) = WeightOf(log, recalled, rest)
    BY <1>1, <1>2, <1>3, <1>6, <2>1
  <2> QED
    BY <1>1, <2>2
<1>8. k.kind # "userGroup" => less <= MaxBytes
  <2>1. b \in Nat /\ less \in Int /\ MaxBytes \in Nat
    BY <1>1, MessagesAssumption
  <2>2. k.kind # "userGroup" => b <= MaxBytes
    BY DEF GoodHistory
  <2> QED
    BY <1>7, <2>1, <2>2
<1> QED
  BY <1>7, <1>8 DEF GoodHistory

LEMMA GoodWithout ==
  ASSUME NEW S, NEW log \in Seq(S), NEW recalled, NEW k, NEW s, NEW b,
         GoodHistory(log, recalled, k, s, b), NEW id
  PROVE  /\ ToSet(Without(s, id)) = ToSet(s) \ {id}
         /\ id \in ToSet(s) =>
              GoodHistory(log, recalled, k, Without(s, id), b - WeightOf(log, recalled, {id}))
         /\ id \notin ToSet(s) => GoodHistory(log, recalled, k, Without(s, id), b)
<1> DEFINE c == IF id \in ToSet(s) THEN b - WeightOf(log, recalled, {id}) ELSE b
<1>1. /\ s \in Seq(Numbers) /\ ToSet(s) \subseteq 1 .. Len(log) /\ IsInjective(s)
      /\ b = WeightOf(log, recalled, ToSet(s)) /\ \A other \in ToSet(s) : log[other].to = k
      /\ Len(s) <= MaxHistory /\ (k.kind # "userGroup" => b <= MaxBytes)
  BY DEF GoodHistory
<1>2. /\ Without(s, id) \in Seq(Numbers) /\ IsInjective(Without(s, id))
      /\ Len(Without(s, id)) <= Len(s) /\ ToSet(Without(s, id)) = ToSet(s) \ {id}
  BY <1>1, WithoutDoes
<1>3. Len(Without(s, id)) <= MaxHistory
  <2>1. Len(Without(s, id)) \in Nat /\ Len(s) \in Nat /\ MaxHistory \in Nat
    BY <1>1, <1>2, MessagesAssumption
  <2> QED
    BY <1>1, <1>2, <2>1
<1>4. c = WeightOf(log, recalled, ToSet(s) \ {id}) /\ (k.kind # "userGroup" => c <= MaxBytes)
  <2>1. CASE id \in ToSet(s)
    <3>1. /\ WeightOf(log, recalled, {id}) \in Nat /\ WeightOf(log, recalled, ToSet(s) \ {id}) \in Nat
          /\ b = WeightOf(log, recalled, {id}) + WeightOf(log, recalled, ToSet(s) \ {id})
      BY ONLY <2>1, log \in Seq(S), GoodHistory(log, recalled, k, s, b), OneLess
    <3>2. MaxBytes \in Nat
      BY MessagesAssumption
    <3> QED
      BY <1>1, <2>1, <3>1, <3>2
  <2>2. CASE id \notin ToSet(s)
    <3>1. ToSet(s) \ {id} = ToSet(s)
      BY <2>2
    <3> QED
      BY <1>1, <2>2, <3>1
  <2> QED
    BY <2>1, <2>2
<1> QED
  BY <1>1, <1>2, <1>3, <1>4 DEF GoodHistory

-----------------------------------------------------------------------------
(* The rows in the order of their time, and what the loader makes of them. *)

\* What SetPersistence loads: rows of the conversation, within the caps.
LEMMA GoodLoaded ==
  ASSUME NEW S, sent \in Seq(S), stored \subseteq Ids, NEW k \in Conversations
  PROVE  /\ GoodHistory(sent, recalledStored, k, Loaded(k), WeightOf(sent, recalledStored, ToSet(Loaded(k))))
         /\ ToSet(Loaded(k)) \subseteq RowsOf(k)
<1> DEFINE all == InOrder(RowsOf(k))
           m == IF Len(all) > MaxHistory THEN Len(all) - MaxHistory ELSE 0
           last == Rest(all, m)
           total == WeightOf(sent, recalledStored, ToSet(last))
           n == Excess(k, sent, recalledStored, last, total)
           old == ToSet(Oldest(last, n))
<1>1. /\ RowsOf(k) \in SUBSET (1 .. Len(sent)) /\ RowsOf(k) \in SUBSET Nat
      /\ Len(sent) \in Nat /\ \A id \in RowsOf(k) : sent[id].to = k
  <2>1. RowsOf(k) \subseteq stored /\ \A id \in RowsOf(k) : sent[id].to = k
    BY DEF RowsOf
  <2>2. Len(sent) \in Nat /\ stored \subseteq 1 .. Len(sent)
    BY DEF Ids
  <2>3. RowsOf(k) \subseteq 1 .. Len(sent)
    BY <2>1, <2>2
  <2>4. 1 .. Len(sent) \subseteq Nat
    BY <2>2
  <2>5. RowsOf(k) \subseteq Nat
    BY <2>3, <2>4
  <2> QED
    BY <2>1, <2>2, <2>3, <2>5
<1>2. IsFiniteSet(RowsOf(k))
  BY <1>1, NumbersFinite
<1>3. /\ all \in Seq(Numbers) /\ IsInjective(all) /\ ToSet(all) = RowsOf(k)
  BY <1>1, <1>2, InOrderDoes
<1> HIDE DEF all
<1>4. m \in 0 .. Len(all)
  BY <1>3, MessagesAssumption
<1>5. last = SubSeq(all, IF Len(all) > MaxHistory THEN Len(all) - MaxHistory + 1 ELSE 1, Len(all))
  <2>1. m + 1 = IF Len(all) > MaxHistory THEN Len(all) - MaxHistory + 1 ELSE 1
    OBVIOUS
  <2> QED
    BY <2>1 DEF Rest
<1> HIDE DEF m
<1>6. /\ last \in Seq(Numbers) /\ IsInjective(last) /\ ToSet(last) \subseteq RowsOf(k)
  <2>1. last \in Seq(Numbers) /\ ToSet(all) = ToSet(Oldest(all, m)) \cup ToSet(last) /\ IsInjective(last)
    BY <1>3, <1>4, CutInTwo
  <2> QED
    BY <1>3, <2>1
<1> HIDE DEF last
<1>7. ToSet(last) \subseteq 1 .. Len(sent) /\ \A id \in ToSet(last) : sent[id].to = k
  BY <1>1, <1>6
<1>8. /\ GoodHistory(sent, recalledStored, k, Rest(last, n), total - WeightOf(sent, recalledStored, old))
      /\ ToSet(last) = old \cup ToSet(Rest(last, n))
  BY <1>6, <1>7, GoodCut
<1>9. CASE Loaded(k) = Rest(last, n)
  <2>1. total - WeightOf(sent, recalledStored, old) = WeightOf(sent, recalledStored, ToSet(Rest(last, n)))
    BY <1>8 DEF GoodHistory
  <2> QED
    BY <1>6, <1>8, <1>9, <2>1
<1>10. CASE Loaded(k) = <<>>
  <2>1. GoodHistory(sent, recalledStored, k, <<>>, 0) /\ ToSet(<<>>) = {}
    BY GoodEmpty
  <2>2. WeightOf(sent, recalledStored, ToSet(<<>>)) = 0
    BY <2>1, WeightOfNone
  <2> QED
    BY <1>10, <2>1, <2>2
<1>11. Loaded(k) = Rest(last, n) \/ Loaded(k) = <<>>
  BY <1>5 DEF Loaded, Rest, all
<1> QED
  BY <1>9, <1>10, <1>11

-----------------------------------------------------------------------------
(* The inductive invariant. *)

Senders == Clients \cup {Admin}
Message == [by : Senders, to : Conversations, text : BOOLEAN]
JobSteps == {"streaming", "saved", "refused", "delete", "clear", "visitor"}
Uploading(job) == job.step \in {"streaming", "saved"}

IsJob(job, log) ==
  /\ job = Job(job.kind, job.step, job.id, job.who)
  /\ job.step \in JobSteps
  /\ job.step \in {"streaming", "saved", "refused", "delete"} => job.id \in 1 .. Len(log)

MessagesTyped ==
  /\ sent \in Seq(Message)
  /\ shown = [k \in Conversations |-> shown[k]] /\ bytes = [k \in Conversations |-> bytes[k]]
  /\ members = [g \in Groups |-> members[g]]
  /\ stored \subseteq Ids /\ swept \subseteq Ids
  /\ recalledShown \subseteq Ids /\ readShown \subseteq Ids
  /\ recalledStored \subseteq stored /\ readStored \subseteq stored
  /\ \A job \in jobs : IsJob(job, sent)

LinksTyped == link \in [Clients -> {"gone", "online", "detached"}]

Histories == \A k \in Conversations : GoodHistory(sent, recalledShown, k, shown[k], bytes[k])

\* An upload that is not published yet is nobody else's: it is not shown and
\* not marked, and its row is there from the moment it is saved, unless a
\* deletion has swept it.
UploadsApart ==
  \A job \in jobs : Uploading(job) =>
    /\ job.id \notin Shown
    /\ job.id \notin recalledShown \cup readShown \cup recalledStored \cup readStored
    /\ job.step = "streaming" => job.id \notin stored /\ job.id \notin swept
    /\ job.step = "saved" => job.id \in stored \/ job.id \in swept
    /\ \A other \in jobs : Uploading(other) /\ other.id = job.id => other = job

SweptIsGone == swept \cap stored = {}

\* A job may still erase, or publish, the row of message id.
AtStake(id, to, job) ==
  \/ job.step \in {"refused", "delete", "saved"} /\ id = job.id
  \/ job.step = "clear"
  \/ job.step = "visitor" /\ to = AdminChat(job.who)

Explained(id) ==
  \/ id \in cut \/ id \in undelivered \/ id \in abandoned
  \/ \E g \in Groups : sent[id].to = GroupChat(g) /\ members[g] = {}
  \/ \E job \in jobs : AtStake(id, sent[id].to, job)

Hidden == \A id \in stored : id \in Shown \/ Explained(id)

RowsInv == UploadsApart /\ ShownAsStored /\ SweptIsGone /\ Hidden

MessagesInv == MessagesTyped /\ LinksTyped /\ Histories /\ RowsInv

LEMMA ShownIs ==
  /\ \A k \in Conversations : \A id \in ToSet(shown[k]) : id \in Shown
  /\ \A id \in Shown : \E k \in Conversations : id \in ToSet(shown[k])
  BY DEF Shown

LEMMA ShownIsNext ==
  /\ \A k \in Conversations : \A id \in ToSet(shown'[k]) : id \in Shown'
  /\ \A id \in Shown' : \E k \in Conversations : id \in ToSet(shown'[k])
  BY DEF Shown

\* Where a message in memory is, and that nobody else has it.
LEMMA ShownIn ==
  ASSUME MessagesTyped, Histories
  PROVE  /\ \A id \in Shown : id \in Ids
         /\ \A k \in Conversations : \A id \in ToSet(shown[k]) : sent[id].to = k
<1>1. \A k \in Conversations : \A id \in ToSet(shown[k]) : id \in 1 .. Len(sent) /\ sent[id].to = k
  BY DEF Histories, GoodHistory
<1> QED
  BY <1>1, ShownIs DEF Ids

LEMMA StakeIs ==
  ASSUME NEW job, IsJob(job, sent), NEW id \in stored
  PROVE  id \in RowsAtStake(job) <=> AtStake(id, sent[id].to, job)
<1>1. CASE job.step \in {"refused", "delete", "saved"}
  BY <1>1 DEF RowsAtStake, AtStake
<1>2. CASE job.step = "clear"
  BY <1>2 DEF RowsAtStake, AtStake
<1>3. CASE job.step = "visitor"
  BY <1>3 DEF RowsAtStake, AtStake, RowsOf
<1>4. CASE job.step = "streaming"
  BY <1>4 DEF RowsAtStake, AtStake
<1> QED
  BY <1>1, <1>2, <1>3, <1>4 DEF IsJob, JobSteps

LEMMA HiddenMeans ==
  ASSUME MessagesTyped, Hidden
  PROVE  HiddenRowsExplained
<1> SUFFICES ASSUME NEW id \in stored \ Shown
             PROVE  \/ id \in cut \cup undelivered \cup abandoned
                    \/ \E g \in Groups : sent[id].to = GroupChat(g) /\ members[g] = {}
                    \/ \E job \in jobs : id \in RowsAtStake(job)
  BY DEF HiddenRowsExplained
<1>1. Explained(id)
  BY DEF Hidden
<1>2. \A job \in jobs : id \in RowsAtStake(job) <=> AtStake(id, sent[id].to, job)
  BY StakeIs DEF MessagesTyped
<1> QED
  BY <1>1, <1>2 DEF Explained

LEMMA InvInit ==
  ASSUME MessagesInit
  PROVE  MessagesInv
<1> USE DEF MessagesInit
<1>1. Shown = {}
  <2>1. \A k \in Conversations : shown[k] = <<>> /\ ToSet(<<>>) = {}
    BY GoodEmpty
  <2> QED
    BY <2>1, ShownIs
<1>2. MessagesTyped
  BY DEF MessagesTyped
<1>3. Histories
  <2>1. \A k \in Conversations : shown[k] = <<>> /\ bytes[k] = 0
    OBVIOUS
  <2> QED
    BY <2>1, GoodEmpty DEF Histories
<1>4. LinksTyped
  BY DEF LinksTyped
<1>5. RowsInv
  BY <1>1 DEF RowsInv, UploadsApart, ShownAsStored, SweptIsGone, Hidden
<1> QED
  BY <1>2, <1>3, <1>4, <1>5 DEF MessagesInv

-----------------------------------------------------------------------------
(* One lemma per kind of step. *)

Core == MessagesTyped /\ Histories /\ RowsInv

LEMMA QuietKeeps ==
  ASSUME Core, UNCHANGED <<members, sent, memory, rows, jobs, notes>>
  PROVE  Core'
<1>1. /\ UNCHANGED <<members, sent, shown, bytes, recalledShown, readShown, stored, recalledStored,
                     readStored, jobs, cut, undelivered, swept, abandoned>>
  BY DEF memory, rows, notes
<1>2. Shown' = Shown /\ Ids' = Ids
  BY <1>1 DEF Shown, Ids
<1>3. MessagesTyped'
  BY <1>1, <1>2 DEF Core, MessagesTyped
<1>4. Histories'
  BY <1>1 DEF Core, Histories
<1>5. RowsInv'
  BY <1>1, <1>2 DEF Core, RowsInv, UploadsApart, ShownAsStored, SweptIsGone, Hidden, Explained
<1> QED
  BY <1>3, <1>4, <1>5 DEF Core

\* Evicted conversations are lost, noted, and nothing else happens to memory.
LEMMA EvictDoes ==
  ASSUME Core, NEW log \in Seq(Message), Len(sent) <= Len(log),
         \A other \in Ids : log[other] = sent[other],
         NEW out, sent' = log, Evict(out)
  PROVE  /\ Histories'
         /\ shown' = [c \in Conversations |-> shown'[c]] /\ bytes' = [c \in Conversations |-> bytes'[c]]
         /\ Shown' \subseteq Shown /\ Shown \subseteq Shown' \cup cut'
         /\ cut \subseteq cut' /\ recalledShown' = recalledShown /\ readShown' = readShown
<1>1. /\ shown' = [c \in Conversations |-> IF c \in AdminChats(out) THEN <<>> ELSE shown[c]]
      /\ bytes' = [c \in Conversations |-> IF c \in AdminChats(out) THEN 0 ELSE bytes[c]]
      /\ cut' = cut \cup LostWith(out) /\ recalledShown' = recalledShown /\ readShown' = readShown
  BY DEF Evict, Forget
<1>2. sent \in Seq(Message)
  BY DEF Core, MessagesTyped
<1>3. Histories'
  <2> SUFFICES ASSUME NEW c \in Conversations
               PROVE  GoodHistory(log, recalledShown, c, shown'[c], bytes'[c])
    BY <1>1 DEF Histories
  <2>1. CASE c \in AdminChats(out)
    BY <1>1, <2>1, GoodEmpty
  <2>2. CASE c \notin AdminChats(out)
    <3>1. GoodHistory(sent, recalledShown, c, shown[c], bytes[c])
      BY DEF Core, Histories
    <3>2. \A x \in ToSet(shown[c]) : log[x] = sent[x]
      BY <3>1 DEF GoodHistory, Ids
    <3>3. GoodHistory(log, recalledShown, c, shown[c], bytes[c])
      BY ONLY <1>2, <3>1, <3>2, log \in Seq(Message), Len(sent) <= Len(log), GoodStays
    <3> QED
      BY <1>1, <2>2, <3>3
  <2> QED
    BY <2>1, <2>2
<1>4. Shown' \subseteq Shown
  <2> SUFFICES ASSUME NEW x \in Shown' PROVE x \in Shown
    OBVIOUS
  <2>1. PICK c \in Conversations : x \in ToSet(shown'[c])
    BY ShownIsNext
  <2>2. shown'[c] = shown[c]
    BY <1>1, <2>1, GoodEmpty
  <2> QED
    BY <2>1, <2>2, ShownIs
<1>5. Shown \subseteq Shown' \cup cut'
  <2> SUFFICES ASSUME NEW x \in Shown, x \notin Shown' PROVE x \in cut'
    OBVIOUS
  <2>1. PICK c \in Conversations : x \in ToSet(shown[c])
    BY ShownIs
  <2>2. sent[x].to = c
    BY <2>1, ShownIn DEF Core
  <2>3. c \in AdminChats(out)
    BY <1>1, <2>1, ShownIsNext
  <2> QED
    BY <1>1, <2>2, <2>3 DEF LostWith
<1> QED
  BY <1>1, <1>3, <1>4, <1>5

\* appendChatMessage: the message is shown or cut off, and so is every older
\* one; an evicted conversation, which is another one, is noted.
LEMMA AppendDoes ==
  ASSUME Core, NEW k \in Conversations, NEW out, k \notin AdminChats(out),
         NEW log \in Seq(Message), Len(sent) <= Len(log),
         \A other \in Ids : log[other] = sent[other],
         NEW id \in 1 .. Len(log), id \notin Shown, log[id].to = k,
         sent' = log, AppendChatMessage(k, id, log, out)
  PROVE  /\ Histories'
         /\ shown' = [c \in Conversations |-> shown'[c]] /\ bytes' = [c \in Conversations |-> bytes'[c]]
         /\ Shown' \subseteq Shown \cup {id} /\ Shown \cup {id} \subseteq Shown' \cup cut'
         /\ cut \subseteq cut' /\ recalledShown' = recalledShown /\ readShown' = readShown
<1> DEFINE t == Append(shown[k], id)
           total == bytes[k] + WeightOf(log, recalledShown, {id})
           n == Excess(k, log, recalledShown, t, total)
           old == ToSet(Oldest(t, n))
           new == Rest(t, n)
           rest == total - WeightOf(log, recalledShown, old)
<1>1. /\ shown = [c \in Conversations |-> shown[c]] /\ bytes = [c \in Conversations |-> bytes[c]]
      /\ sent \in Seq(Message)
  BY DEF Core, MessagesTyped
<1>2. /\ shown' = [Forget(shown, out, <<>>) EXCEPT ![k] = new]
      /\ bytes' = [Forget(bytes, out, 0) EXCEPT ![k] = rest]
      /\ cut' = cut \cup LostWith(out) \cup old /\ recalledShown' = recalledShown /\ readShown' = readShown
  BY DEF AppendChatMessage, Oldest, Rest
<1>3. /\ shown' = [c \in Conversations |-> shown'[c]] /\ bytes' = [c \in Conversations |-> bytes'[c]]
      /\ shown'[k] = new /\ bytes'[k] = rest
      /\ \A c \in Conversations \ {k} :
           /\ c \in AdminChats(out) => shown'[c] = <<>> /\ bytes'[c] = 0
           /\ c \notin AdminChats(out) => shown'[c] = shown[c] /\ bytes'[c] = bytes[c]
  BY ONLY <1>2, k \in Conversations DEF Forget
<1>4. \A c \in Conversations : GoodHistory(log, recalledShown, c, shown[c], bytes[c])
  <2> SUFFICES ASSUME NEW c \in Conversations
               PROVE  GoodHistory(log, recalledShown, c, shown[c], bytes[c])
    OBVIOUS
  <2>1. GoodHistory(sent, recalledShown, c, shown[c], bytes[c])
    BY DEF Core, Histories
  <2>2. \A other \in ToSet(shown[c]) : log[other] = sent[other]
    BY <2>1 DEF GoodHistory, Ids
  <2> QED
    BY ONLY <1>1, <2>1, <2>2, log \in Seq(Message), Len(sent) <= Len(log), GoodStays
<1>5. id \notin ToSet(shown[k])
  BY ShownIs
<1>6. /\ GoodHistory(log, recalledShown, k, new, rest)
      /\ ToSet(shown[k]) \cup {id} = old \cup ToSet(new)
  <2>1. GoodHistory(log, recalledShown, k, shown[k], bytes[k])
    BY <1>4
  <2> QED
    BY ONLY <1>5, <2>1, log \in Seq(Message), id \in 1 .. Len(log), log[id].to = k, GoodAppend
<1> HIDE DEF t, total, n, old, new, rest
<1>7. Histories'
  <2> SUFFICES ASSUME NEW c \in Conversations
               PROVE  GoodHistory(sent', recalledShown', c, shown'[c], bytes'[c])
    BY DEF Histories
  <2>1. CASE c = k
    BY <1>2, <1>3, <1>6, <2>1
  <2>2. CASE c # k /\ c \in AdminChats(out)
    BY <1>2, <1>3, <2>2, GoodEmpty
  <2>3. CASE c # k /\ c \notin AdminChats(out)
    BY <1>2, <1>3, <1>4, <2>3
  <2> QED
    BY <2>1, <2>2, <2>3
<1>8. Shown' \subseteq Shown \cup {id}
  <2> SUFFICES ASSUME NEW x \in Shown' PROVE x \in Shown \cup {id}
    OBVIOUS
  <2>1. PICK c \in Conversations : x \in ToSet(shown'[c])
    BY ShownIsNext
  <2>2. CASE c = k
    <3>1. x \in ToSet(shown[k]) \cup {id}
      BY <1>3, <1>6, <2>1, <2>2
    <3> QED
      BY <3>1, ShownIs
  <2>3. CASE c # k
    <3>1. shown'[c] = shown[c]
      BY <1>3, <2>1, <2>3, GoodEmpty
    <3> QED
      BY <2>1, <3>1, ShownIs
  <2> QED
    BY <2>2, <2>3
<1>9. Shown \cup {id} \subseteq Shown' \cup cut'
  <2> SUFFICES ASSUME NEW x \in Shown \cup {id} PROVE x \in Shown' \cup cut'
    OBVIOUS
  <2>1. CASE x \in ToSet(shown[k]) \cup {id}
    <3>1. x \in old \/ x \in ToSet(shown'[k])
      BY <1>3, <1>6, <2>1
    <3> QED
      BY <1>2, <3>1, ShownIsNext
  <2>2. CASE x \notin ToSet(shown[k]) \cup {id}
    <3>1. PICK c \in Conversations : x \in ToSet(shown[c])
      BY <2>2, ShownIs
    <3>2. c # k /\ x \in Shown /\ sent[x].to = c
      BY <2>2, <3>1, ShownIs, ShownIn DEF Core
    <3>3. CASE c \in AdminChats(out)
      BY <1>2, <3>2, <3>3 DEF LostWith
    <3>4. CASE c \notin AdminChats(out)
      BY <1>3, <3>1, <3>2, <3>4, ShownIsNext
    <3> QED
      BY <3>3, <3>4
  <2> QED
    BY <2>1, <2>2
<1> QED
  BY <1>2, <1>3, <1>7, <1>8, <1>9

\* The log grows by one message.
LEMMA LogGrows ==
  ASSUME sent \in Seq(Message), NEW m \in Message, NEW log, log = Append(sent, m)
  PROVE  /\ log \in Seq(Message) /\ Len(log) = Len(sent) + 1 /\ Len(sent) \in Nat
         /\ \A id \in Ids : log[id] = sent[id] /\ id # Len(sent) + 1 /\ id \in 1 .. Len(log)
         /\ log[Len(sent) + 1] = m /\ Len(sent) + 1 \in 1 .. Len(log) /\ Len(sent) + 1 \notin Ids
  BY DEF Ids

LEMMA TypedLogGrows ==
  ASSUME NEW job, IsJob(job, sent), sent \in Seq(Message), NEW log \in Seq(Message), Len(sent) <= Len(log)
  PROVE  IsJob(job, log)
<1>1. job.id \in 1 .. Len(sent) => job.id \in 1 .. Len(log)
  OBVIOUS
<1> QED
  BY <1>1 DEF IsJob

\* A text becomes a row and is shown, cut off at once, or reported as undelivered.
LEMMA PersistedRow ==
  ASSUME Core, NEW m \in Message, NEW id, id = Len(sent) + 1,
         sent' = Append(sent, m), stored' = stored \cup {id},
         UNCHANGED <<recalledShown, readShown, recalledStored, readStored, jobs, members, swept, abandoned>>,
         Shown' \subseteq Shown \cup {id}, Shown \cup {id} \subseteq Shown' \cup cut' \cup undelivered',
         cut \subseteq cut', undelivered \subseteq undelivered'
  PROVE  RowsInv'
<1>1. /\ sent \in Seq(Message) /\ stored \subseteq Ids /\ swept \subseteq Ids /\ recalledShown \subseteq Ids
      /\ readShown \subseteq Ids /\ recalledStored \subseteq stored /\ readStored \subseteq stored
      /\ \A job \in jobs : IsJob(job, sent)
  BY DEF Core, MessagesTyped
<1>2. id \notin Ids /\ \A x \in Ids : sent'[x] = sent[x]
  BY <1>1, LogGrows
<1>3. \A job \in jobs : Uploading(job) => job.id # id
  BY <1>1, <1>2 DEF IsJob, Uploading, Ids
<1>4. UploadsApart'
  BY <1>3 DEF Core, RowsInv, UploadsApart
<1>5. ShownAsStored'
  <2> SUFFICES ASSUME NEW x \in Shown', x \notin swept
               PROVE  /\ x \in stored' /\ (x \in recalledShown <=> x \in recalledStored)
                      /\ (x \in readShown <=> x \in readStored)
    BY DEF ShownAsStored
  <2>1. CASE x = id
    BY <1>1, <1>2, <2>1
  <2>2. CASE x \in Shown
    BY <2>2 DEF Core, RowsInv, ShownAsStored
  <2> QED
    BY <2>1, <2>2
<1>6. SweptIsGone'
  BY <1>1, <1>2 DEF Core, RowsInv, SweptIsGone
<1>7. Hidden'
  <2> SUFFICES ASSUME NEW x \in stored', x \notin Shown' PROVE Explained(x)'
    BY DEF Hidden
  <2>1. CASE x \in Shown \cup {id}
    BY <2>1 DEF Explained
  <2>2. CASE x \notin Shown \cup {id}
    <3>1. x \in stored /\ Explained(x)
      BY <2>2 DEF Core, RowsInv, Hidden
    <3>2. sent'[x].to = sent[x].to
      BY <1>1, <1>2, <3>1
    <3> QED
      BY <3>1, <3>2 DEF Explained
  <2> QED
    BY <2>1, <2>2
<1> QED
  BY <1>4, <1>5, <1>6, <1>7 DEF RowsInv

LEMMA PersistKeeps ==
  ASSUME Core, NEW by \in Senders, NEW k \in Conversations, NEW appended \in BOOLEAN,
         NEW out, k \notin AdminChats(out), Persist(by, k, appended, out), UNCHANGED <<jobs, members>>
  PROVE  Core'
<1> DEFINE m == [by |-> by, to |-> k, text |-> TRUE]
           id == Len(sent) + 1
           log == Append(sent, m)
<1>1. sent \in Seq(Message) /\ m \in Message
  BY DEF Core, MessagesTyped, Message
<1>2. /\ sent' = log /\ stored' = stored \cup {id}
      /\ UNCHANGED <<recalledStored, readStored, swept, abandoned>>
      /\ appended => AppendChatMessage(k, id, log, out) /\ UNCHANGED undelivered
      /\ ~appended => undelivered' = undelivered \cup {id} /\ Evict(out)
  BY DEF Persist
<1>3. /\ log \in Seq(Message) /\ Len(log) = Len(sent) + 1 /\ Len(sent) \in Nat
      /\ \A x \in Ids : log[x] = sent[x] /\ x # id /\ x \in 1 .. Len(log)
      /\ log[id] = m /\ id \in 1 .. Len(log) /\ id \notin Ids
  BY ONLY <1>1, LogGrows
<1>4. m.to = k
  OBVIOUS
<1> HIDE DEF m, id, log
<1>5. id \notin Shown
  BY <1>3, ShownIn DEF Core
<1>6. /\ Histories'
      /\ shown' = [c \in Conversations |-> shown'[c]] /\ bytes' = [c \in Conversations |-> bytes'[c]]
      /\ Shown' \subseteq Shown \cup {id} /\ Shown \cup {id} \subseteq Shown' \cup cut' \cup undelivered'
      /\ cut \subseteq cut' /\ undelivered \subseteq undelivered'
      /\ recalledShown' = recalledShown /\ readShown' = readShown
  <2>1. CASE appended
    <3>1. Len(sent) <= Len(log) /\ log[id].to = k /\ \A x \in Ids : log[x] = sent[x]
      BY <1>3, <1>4
    <3>2. /\ Histories'
          /\ shown' = [c \in Conversations |-> shown'[c]] /\ bytes' = [c \in Conversations |-> bytes'[c]]
          /\ Shown' \subseteq Shown \cup {id} /\ Shown \cup {id} \subseteq Shown' \cup cut'
          /\ cut \subseteq cut' /\ recalledShown' = recalledShown /\ readShown' = readShown
      BY ONLY Core, k \in Conversations, k \notin AdminChats(out), <1>2, <1>3, <1>5, <2>1, <3>1, AppendDoes
    <3> QED
      BY <1>2, <2>1, <3>2
  <2>2. CASE ~appended
    <3>1. Len(sent) <= Len(log) /\ \A x \in Ids : log[x] = sent[x]
      BY <1>3
    <3>2. /\ Histories'
          /\ shown' = [c \in Conversations |-> shown'[c]] /\ bytes' = [c \in Conversations |-> bytes'[c]]
          /\ Shown' \subseteq Shown /\ Shown \subseteq Shown' \cup cut'
          /\ cut \subseteq cut' /\ recalledShown' = recalledShown /\ readShown' = readShown
      BY ONLY Core, <1>2, <1>3, <2>2, <3>1, EvictDoes
    <3> QED
      BY <1>2, <2>2, <3>2
  <2> QED
    BY <2>1, <2>2
<1>7. MessagesTyped'
  <2>1. sent' \in Seq(Message) /\ Ids \subseteq Ids' /\ id \in Ids'
    BY <1>2, <1>3 DEF Ids
  <2>2. \A job \in jobs' : IsJob(job, sent')
    <3>1. Len(sent) <= Len(log)
      BY <1>3
    <3>2. \A job \in jobs : IsJob(job, sent)
      BY DEF Core, MessagesTyped
    <3>3. \A job \in jobs : IsJob(job, log)
      BY ONLY <1>1, <1>3, <3>1, <3>2, TypedLogGrows
    <3> QED
      BY <1>2, <3>3
  <2> QED
    BY <1>2, <1>6, <2>1, <2>2 DEF Core, MessagesTyped
<1>8. RowsInv'
  <2>1. sent' = Append(sent, m) /\ id = Len(sent) + 1
    BY <1>2 DEF log, id
  <2> QED
    BY ONLY Core, UNCHANGED <<jobs, members>>, <1>1, <1>2, <1>6, <2>1, PersistedRow
<1> QED
  BY <1>6, <1>7, <1>8 DEF Core

LEMMA ReadKeeps ==
  ASSUME Core, NEW ids \in SUBSET Shown,
         readShown' = readShown \cup ids, MarkChatMessagesRead(ids),
         UNCHANGED <<sent, shown, bytes, recalledShown, stored, recalledStored, jobs, members, notes>>
  PROVE  Core'
<1>1. /\ readStored' = readStored \cup (ids \cap stored)
      /\ UNCHANGED <<cut, undelivered, swept, abandoned>>
  BY DEF MarkChatMessagesRead, notes
<1>2. Shown' = Shown /\ Ids' = Ids /\ Shown \subseteq Ids
  BY ShownIn DEF Shown, Ids, Core
<1>3. MessagesTyped'
  BY <1>1, <1>2 DEF Core, MessagesTyped
<1>4. Histories'
  BY DEF Core, Histories
<1>5. UploadsApart'
  BY <1>1, <1>2 DEF Core, RowsInv, UploadsApart
<1>6. ShownAsStored'
  BY <1>1, <1>2 DEF Core, RowsInv, ShownAsStored
<1>7. SweptIsGone' /\ Hidden'
  BY <1>1, <1>2 DEF Core, RowsInv, SweptIsGone, Hidden, Explained
<1> QED
  BY <1>3, <1>4, <1>5, <1>6, <1>7 DEF Core, RowsInv

LEMMA RecallKeeps ==
  ASSUME Core, NEW k \in Conversations, NEW id \in ToSet(shown[k]), id \notin recalledShown,
         bytes' = [bytes EXCEPT ![k] = @ - WeightOf(sent, recalledShown, {id})],
         RecallChatMessage(id), recalledShown' = recalledShown \cup {id},
         readShown' = IF id \in readStored THEN readShown \cup {id} ELSE readShown \ {id},
         UNCHANGED <<sent, shown, stored, readStored, jobs, members, notes>>
  PROVE  Core'
<1>1. /\ id \in stored /\ recalledStored' = recalledStored \cup {id}
      /\ UNCHANGED <<cut, undelivered, swept, abandoned>>
  BY DEF RecallChatMessage, notes
<1>2. Shown' = Shown /\ Ids' = Ids /\ id \in Shown /\ id \in Ids /\ sent[id].to = k
  <2>1. Shown' = Shown /\ Ids' = Ids
    BY DEF Shown, Ids
  <2>2. id \in Shown
    BY ShownIs
  <2> QED
    BY <2>1, <2>2, ShownIn DEF Core
<1>3. MessagesTyped'
  <2>1. readShown' \subseteq Ids /\ recalledShown' \subseteq Ids /\ recalledStored' \subseteq stored
    BY <1>1, <1>2 DEF Core, MessagesTyped
  <2> QED
    BY <1>1, <1>2, <2>1 DEF Core, MessagesTyped
<1>4. Histories'
  <2> SUFFICES ASSUME NEW c \in Conversations
               PROVE  GoodHistory(sent, recalledShown \cup {id}, c, shown[c], bytes'[c])
    BY DEF Histories
  <2>1. GoodHistory(sent, recalledShown, c, shown[c], bytes[c]) /\ sent \in Seq(Message)
    BY DEF Core, Histories, MessagesTyped
  <2>2. CASE c = k
    <3>1. bytes'[c] = bytes[c] - WeightOf(sent, recalledShown, {id})
      BY <2>2 DEF Core, MessagesTyped
    <3>2. id \in ToSet(shown[c])
      BY <2>2
    <3>3. GoodHistory(sent, recalledShown \cup {id}, c, shown[c], bytes[c] - WeightOf(sent, recalledShown, {id}))
      BY ONLY <2>1, <3>2, GoodRecalled
    <3> QED
      BY <3>1, <3>3
  <2>3. CASE c # k
    <3>1. bytes'[c] = bytes[c]
      BY <2>3 DEF Core, MessagesTyped
    <3>2. \A other \in ToSet(shown[c]) : other # id
      BY <1>2, <2>1, <2>3 DEF GoodHistory
    <3>3. Len(sent) <= Len(sent)
      BY <2>1
    <3>4. \A other \in ToSet(shown[c]) :
            sent[other] = sent[other] /\ (other \in recalledShown \cup {id} <=> other \in recalledShown)
      BY <3>2
    <3>5. GoodHistory(sent, recalledShown \cup {id}, c, shown[c], bytes[c])
      BY ONLY <2>1, <3>3, <3>4, GoodStays
    <3> QED
      BY <3>1, <3>5
  <2> QED
    BY <2>2, <2>3
<1>5. UploadsApart'
  <2>1. \A job \in jobs : Uploading(job) => job.id # id
    BY <1>2 DEF Core, RowsInv, UploadsApart
  <2>2. /\ \A x : x # id => (x \in recalledShown' <=> x \in recalledShown)
        /\ \A x : x # id => (x \in readShown' <=> x \in readShown)
        /\ \A x : x # id => (x \in recalledStored' <=> x \in recalledStored)
    BY <1>1
  <2> QED
    BY <1>1, <1>2, <2>1, <2>2 DEF Core, RowsInv, UploadsApart
<1>6. ShownAsStored'
  <2> SUFFICES ASSUME NEW x \in Shown, x \notin swept
               PROVE  /\ x \in stored /\ (x \in recalledShown' <=> x \in recalledStored')
                      /\ (x \in readShown' <=> x \in readStored)
    BY <1>1, <1>2 DEF ShownAsStored
  <2>1. /\ x \in stored /\ (x \in recalledShown <=> x \in recalledStored)
        /\ (x \in readShown <=> x \in readStored)
    BY DEF Core, RowsInv, ShownAsStored
  <2> QED
    BY <1>1, <2>1
<1>7. SweptIsGone' /\ Hidden'
  BY <1>1, <1>2 DEF Core, RowsInv, SweptIsGone, Hidden, Explained
<1> QED
  BY <1>3, <1>4, <1>5, <1>6, <1>7 DEF Core, RowsInv

LEMMA AdmitKeeps ==
  ASSUME Core, NEW by \in Senders, NEW k \in Conversations, NEW route, NEW who, NEW out,
         Admit(by, k, route, who, out)
  PROVE  Core'
<1> DEFINE m == [by |-> by, to |-> k, text |-> FALSE]
           id == Len(sent) + 1
           log == Append(sent, m)
           new == Job(route, "streaming", id, who)
<1>1. sent \in Seq(Message) /\ m \in Message
  BY DEF Core, MessagesTyped, Message
<1>2. /\ sent' = log /\ jobs' = jobs \cup {new}
      /\ Evict(out)
      /\ UNCHANGED <<members, recalledShown, readShown, stored, recalledStored, readStored,
                     undelivered, swept, abandoned>>
  BY DEF Admit, Begun, Evict, rows
<1>3. /\ log \in Seq(Message) /\ Len(log) = Len(sent) + 1 /\ Len(sent) \in Nat
      /\ \A x \in Ids : log[x] = sent[x] /\ x # id /\ x \in 1 .. Len(log)
      /\ id \in 1 .. Len(log) /\ id \notin Ids
  BY ONLY <1>1, LogGrows
<1>4. new = Job(new.kind, new.step, new.id, new.who) /\ new.step = "streaming" /\ new.id = id
  BY DEF Job
<1> HIDE DEF m, id, log, new
<1>5. Shown \subseteq Ids /\ Len(sent) <= Len(log)
  BY <1>2, <1>3, ShownIn DEF Core
<1>6. /\ Histories'
      /\ shown' = [c \in Conversations |-> shown'[c]] /\ bytes' = [c \in Conversations |-> bytes'[c]]
      /\ Shown' \subseteq Shown /\ Shown \subseteq Shown' \cup cut' /\ cut \subseteq cut'
  <2>1. /\ log \in Seq(Message) /\ Len(sent) <= Len(log) /\ \A x \in Ids : log[x] = sent[x]
        /\ sent' = log /\ Evict(out)
    BY <1>2, <1>3, <1>5
  <2> QED
    BY ONLY Core, <2>1, EvictDoes
<1>7. /\ stored \subseteq Ids /\ swept \subseteq Ids /\ recalledShown \subseteq Ids
      /\ readShown \subseteq Ids /\ recalledStored \subseteq stored /\ readStored \subseteq stored
      /\ \A job \in jobs : IsJob(job, sent)
  BY DEF Core, MessagesTyped
<1>8. MessagesTyped'
  <2>1. Ids \subseteq Ids'
    BY <1>2, <1>3 DEF Ids
  <2>2. \A job \in jobs : IsJob(job, log)
    BY ONLY <1>1, <1>3, <1>5, <1>7, TypedLogGrows
  <2>3. IsJob(new, log)
    BY <1>3, <1>4 DEF IsJob, JobSteps
  <2> QED
    BY <1>2, <1>3, <1>6, <1>7, <2>1, <2>2, <2>3 DEF Core, MessagesTyped
<1>9. \A job \in jobs : Uploading(job) => job.id # id
  BY <1>3, <1>7 DEF IsJob, Uploading, Ids
<1>10. UploadsApart'
  <2> SUFFICES ASSUME NEW job \in jobs', Uploading(job)
               PROVE  /\ job.id \notin Shown
                      /\ job.id \notin recalledShown \cup readShown \cup recalledStored \cup readStored
                      /\ job.step = "streaming" => job.id \notin stored /\ job.id \notin swept
                      /\ job.step = "saved" => job.id \in stored \/ job.id \in swept
                      /\ \A other \in jobs' : Uploading(other) /\ other.id = job.id => other = job
    BY <1>2, <1>6 DEF UploadsApart
  <2>1. CASE job \in jobs
    BY <1>2, <1>4, <1>9, <2>1 DEF Core, RowsInv, UploadsApart
  <2>2. CASE job = new
    BY <1>2, <1>3, <1>4, <1>5, <1>7, <1>9, <2>2
  <2> QED
    BY <1>2, <2>1, <2>2
<1>11. ShownAsStored' /\ SweptIsGone'
  BY <1>2, <1>6 DEF Core, RowsInv, ShownAsStored, SweptIsGone
<1>12. Hidden'
  <2> SUFFICES ASSUME NEW x \in stored, x \notin Shown' PROVE Explained(x)'
    BY <1>2 DEF Hidden
  <2>1. sent'[x].to = sent[x].to
    BY <1>2, <1>3, <1>7
  <2>2. CASE x \in Shown
    BY <1>6, <2>2 DEF Explained
  <2>3. CASE x \notin Shown
    <3>1. Explained(x)
      BY <2>3 DEF Core, RowsInv, Hidden
    <3> QED
      BY <1>2, <1>6, <2>1, <3>1 DEF Explained
  <2> QED
    BY <2>2, <2>3
<1> QED
  BY <1>6, <1>8, <1>10, <1>11, <1>12 DEF Core, RowsInv

\* Steps of calls under way. A job whose step advances keeps its message.
LEMMA AdvancedJob ==
  ASSUME NEW job, NEW log, IsJob(job, log), NEW step
  PROVE  LET next == [job EXCEPT !.step = step]
         IN  /\ next = Job(job.kind, step, job.id, job.who)
             /\ next.kind = job.kind /\ next.step = step /\ next.id = job.id /\ next.who = job.who
<1>1. job = [kind |-> job.kind, step |-> job.step, id |-> job.id, who |-> job.who]
  BY DEF IsJob, Job
<1>2. [job EXCEPT !.step = step] = [kind |-> job.kind, step |-> step, id |-> job.id, who |-> job.who]
  BY <1>1
<1> QED
  BY <1>2 DEF Job

LEMMA SavedKeeps ==
  ASSUME Core, NEW job \in jobs, AttachmentSaved(job)
  PROVE  Core'
<1> DEFINE next == [job EXCEPT !.step = "saved"]
<1>1. /\ job.step = "streaming" /\ stored' = stored \cup {job.id}
      /\ jobs' = (jobs \ {job}) \cup {next}
      /\ UNCHANGED <<members, sent, shown, bytes, recalledShown, readShown, recalledStored, readStored,
                     cut, undelivered, swept, abandoned>>
  BY DEF AttachmentSaved, Advanced, people, memory, notes
<1>2. IsJob(job, sent) /\ job.id \in Ids
  BY <1>1 DEF Core, MessagesTyped, IsJob, Ids
<1>3. /\ next = Job(job.kind, "saved", job.id, job.who)
      /\ next.kind = job.kind /\ next.step = "saved" /\ next.id = job.id /\ next.who = job.who
  BY ONLY <1>2, AdvancedJob
<1> HIDE DEF next
<1>4. Shown' = Shown /\ Ids' = Ids
  BY <1>1 DEF Shown, Ids
<1>5. MessagesTyped'
  <2>1. IsJob(next, sent)
    BY <1>2, <1>3 DEF IsJob, JobSteps, Ids
  <2> QED
    BY <1>1, <1>2, <1>4, <2>1 DEF Core, MessagesTyped
<1>6. Histories'
  BY <1>1 DEF Core, Histories
<1>7. /\ job.id \notin Shown /\ job.id \notin swept /\ job.id \notin stored
      /\ job.id \notin recalledShown \cup readShown \cup recalledStored \cup readStored
      /\ \A other \in jobs : Uploading(other) /\ other.id = job.id => other = job
  BY <1>1 DEF Core, RowsInv, UploadsApart, Uploading
<1>8. UploadsApart'
  <2> SUFFICES ASSUME NEW j \in jobs', Uploading(j)
               PROVE  /\ j.id \notin Shown
                      /\ j.id \notin recalledShown \cup readShown \cup recalledStored \cup readStored
                      /\ j.step = "streaming" => j.id \notin stored' /\ j.id \notin swept
                      /\ j.step = "saved" => j.id \in stored' \/ j.id \in swept
                      /\ \A other \in jobs' : Uploading(other) /\ other.id = j.id => other = j
    BY <1>1, <1>4 DEF UploadsApart
  <2>1. CASE j \in jobs \ {job}
    BY <1>1, <1>3, <1>7, <2>1 DEF Core, RowsInv, UploadsApart
  <2>2. CASE j = next
    BY <1>1, <1>3, <1>7, <2>2
  <2> QED
    BY <1>1, <2>1, <2>2
<1>9. ShownAsStored' /\ SweptIsGone'
  BY <1>1, <1>4, <1>7 DEF Core, RowsInv, ShownAsStored, SweptIsGone
<1>10. Hidden'
  <2> SUFFICES ASSUME NEW x \in stored', x \notin Shown PROVE Explained(x)'
    BY <1>1, <1>4 DEF Hidden
  <2>1. CASE x = job.id
    <3>1. AtStake(x, sent[x].to, next) /\ next \in jobs'
      BY <1>1, <1>3, <2>1 DEF AtStake
    <3> QED
      BY <1>1, <3>1 DEF Explained
  <2>2. CASE x \in stored
    <3>1. Explained(x) /\ ~AtStake(x, sent[x].to, job)
      BY <1>1, <2>2 DEF Core, RowsInv, Hidden, AtStake
    <3> QED
      BY <1>1, <3>1 DEF Explained
  <2> QED
    BY <1>1, <2>1, <2>2
<1> QED
  BY <1>5, <1>6, <1>8, <1>9, <1>10 DEF Core, RowsInv

LEMMA NotSavedKeeps ==
  ASSUME Core, NEW job \in jobs, AttachmentNotSaved(job)
  PROVE  Core'
<1>1. /\ job.step = "streaming" /\ jobs' = jobs \ {job}
      /\ UNCHANGED <<members, sent, shown, bytes, recalledShown, readShown, stored, recalledStored,
                     readStored, cut, undelivered, swept, abandoned>>
  BY DEF AttachmentNotSaved, Ended, people, memory, rows, notes
<1>2. Shown' = Shown /\ Ids' = Ids
  BY <1>1 DEF Shown, Ids
<1>3. MessagesTyped' /\ Histories'
  BY <1>1, <1>2 DEF Core, MessagesTyped, Histories
<1>4. UploadsApart' /\ ShownAsStored' /\ SweptIsGone'
  BY <1>1, <1>2 DEF Core, RowsInv, UploadsApart, ShownAsStored, SweptIsGone
<1>5. Hidden'
  <2>1. \A x, to : ~AtStake(x, to, job)
    BY <1>1 DEF AtStake
  <2> QED
    BY <1>1, <1>2, <2>1 DEF Core, RowsInv, Hidden, Explained
<1> QED
  BY <1>3, <1>4, <1>5 DEF Core, RowsInv

LEMMA PublishedKeeps ==
  ASSUME Core, NEW job \in jobs, AttachmentPublished(job)
  PROVE  Core'
<1> DEFINE k == sent[job.id].to
<1>1. /\ job.step = "saved" /\ jobs' = jobs \ {job} /\ AppendChatMessage(k, job.id, sent, {})
      /\ UNCHANGED <<members, sent, stored, recalledStored, readStored, undelivered, swept, abandoned>>
  BY DEF AttachmentPublished, Ended, people, rows
<1>2. sent \in Seq(Message) /\ job.id \in 1 .. Len(sent) /\ job.id \in Ids
  BY <1>1 DEF Core, MessagesTyped, IsJob, Ids
<1>3. k \in Conversations /\ Len(sent) <= Len(sent)
  <2>1. sent[job.id] \in Message
    BY <1>2
  <2> QED
    BY <1>2, <2>1 DEF Message
<1>4. /\ job.id \notin Shown /\ (job.id \in stored \/ job.id \in swept)
      /\ job.id \notin recalledShown \cup readShown \cup recalledStored \cup readStored
      /\ \A other \in jobs : Uploading(other) /\ other.id = job.id => other = job
  BY <1>1 DEF Core, RowsInv, UploadsApart, Uploading
<1>5. k = sent[job.id].to
  OBVIOUS
<1> HIDE DEF k
<1>6. /\ Histories'
      /\ shown' = [c \in Conversations |-> shown'[c]] /\ bytes' = [c \in Conversations |-> bytes'[c]]
      /\ Shown' \subseteq Shown \cup {job.id} /\ Shown \cup {job.id} \subseteq Shown' \cup cut'
      /\ cut \subseteq cut' /\ recalledShown' = recalledShown /\ readShown' = readShown
  <2>1. ASSUME NEW id, id = job.id, NEW log, log = sent
        PROVE  /\ Histories'
               /\ shown' = [c \in Conversations |-> shown'[c]] /\ bytes' = [c \in Conversations |-> bytes'[c]]
               /\ Shown' \subseteq Shown \cup {id} /\ Shown \cup {id} \subseteq Shown' \cup cut'
               /\ cut \subseteq cut' /\ recalledShown' = recalledShown /\ readShown' = readShown
    <3>1. /\ log \in Seq(Message) /\ Len(sent) <= Len(log) /\ \A x \in Ids : log[x] = sent[x]
          /\ id \in 1 .. Len(log) /\ id \notin Shown /\ log[id].to = k /\ sent' = log
          /\ AppendChatMessage(k, id, log, {}) /\ k \notin AdminChats({})
      BY <1>1, <1>2, <1>3, <1>4, <1>5, <2>1 DEF AdminChats
    <3> QED
      BY ONLY Core, <1>3, <3>1, AppendDoes
  <2> QED
    BY <2>1
<1>7. MessagesTyped'
  <2>1. Ids' = Ids
    BY <1>1 DEF Ids
  <2> QED
    BY <1>1, <1>6, <2>1 DEF Core, MessagesTyped
<1>8. UploadsApart'
  <2>1. \A j \in jobs \ {job} : Uploading(j) => j.id # job.id
    BY <1>4
  <2> QED
    BY <1>1, <1>6, <2>1 DEF Core, RowsInv, UploadsApart
<1>9. ShownAsStored'
  <2> SUFFICES ASSUME NEW x \in Shown', x \notin swept
               PROVE  /\ x \in stored /\ (x \in recalledShown <=> x \in recalledStored)
                      /\ (x \in readShown <=> x \in readStored)
    BY <1>1, <1>6 DEF ShownAsStored
  <2>1. CASE x = job.id
    BY <1>4, <2>1
  <2>2. CASE x \in Shown
    BY <2>2 DEF Core, RowsInv, ShownAsStored
  <2> QED
    BY <1>6, <2>1, <2>2
<1>10. SweptIsGone'
  BY <1>1 DEF Core, RowsInv, SweptIsGone
<1>11. Hidden'
  <2> SUFFICES ASSUME NEW x \in stored, x \notin Shown' PROVE Explained(x)'
    BY <1>1 DEF Hidden
  <2>1. CASE x \in Shown \cup {job.id}
    BY <1>6, <2>1 DEF Explained
  <2>2. CASE x \notin Shown \cup {job.id}
    <3>1. Explained(x) /\ ~AtStake(x, sent[x].to, job)
      BY <1>1, <2>2 DEF Core, RowsInv, Hidden, AtStake
    <3> QED
      BY <1>1, <1>6, <3>1 DEF Explained
  <2> QED
    BY <2>1, <2>2
<1> QED
  BY <1>6, <1>7, <1>8, <1>9, <1>10, <1>11 DEF Core, RowsInv

LEMMA RefusedKeeps ==
  ASSUME Core, NEW job \in jobs, AttachmentRefused(job)
  PROVE  Core'
<1> DEFINE next == [job EXCEPT !.step = "refused"]
<1>1. /\ job.step = "saved" /\ jobs' = (jobs \ {job}) \cup {next}
      /\ UNCHANGED <<members, sent, shown, bytes, recalledShown, readShown, stored, recalledStored,
                     readStored, cut, undelivered, swept, abandoned>>
  BY DEF AttachmentRefused, Advanced, people, memory, rows, notes
<1>2. IsJob(job, sent) /\ job.id \in Ids
  BY <1>1 DEF Core, MessagesTyped, IsJob, Ids
<1>3. /\ next = Job(job.kind, "refused", job.id, job.who)
      /\ next.kind = job.kind /\ next.step = "refused" /\ next.id = job.id /\ next.who = job.who
  BY ONLY <1>2, AdvancedJob
<1> HIDE DEF next
<1>4. Shown' = Shown /\ Ids' = Ids
  BY <1>1 DEF Shown, Ids
<1>5. MessagesTyped'
  <2>1. IsJob(next, sent)
    BY <1>2, <1>3 DEF IsJob, JobSteps, Ids
  <2> QED
    BY <1>1, <1>4, <2>1 DEF Core, MessagesTyped
<1>6. Histories'
  BY <1>1 DEF Core, Histories
<1>7. UploadsApart'
  <2>1. ~Uploading(next)
    BY <1>3 DEF Uploading
  <2> QED
    BY <1>1, <1>4, <2>1 DEF Core, RowsInv, UploadsApart
<1>8. ShownAsStored' /\ SweptIsGone'
  BY <1>1, <1>4 DEF Core, RowsInv, ShownAsStored, SweptIsGone
<1>9. Hidden'
  <2>1. \A x, to : AtStake(x, to, job) => AtStake(x, to, next)
    BY <1>1, <1>3 DEF AtStake
  <2> QED
    BY <1>1, <1>4, <2>1 DEF Core, RowsInv, Hidden, Explained
<1> QED
  BY <1>5, <1>6, <1>7, <1>8, <1>9 DEF Core, RowsInv

\* Rows disappear: those a call was to delete, all of them, and with each the
\* stake the call had in it.
LEMMA ErasedKeeps ==
  ASSUME Core, NEW job \in jobs, ~Uploading(job), NEW ids,
         \A x \in stored : AtStake(x, sent[x].to, job) => x \in ids,
         Erased(ids), swept' = swept \cup SweptWith(ids), Ended(job),
         UNCHANGED <<members, sent, memory, cut, undelivered, abandoned>>
  PROVE  Core'
<1>1. /\ stored' = stored \ ids /\ recalledStored' = recalledStored \ ids /\ readStored' = readStored \ ids
      /\ jobs' = jobs \ {job}
      /\ UNCHANGED <<members, sent, shown, bytes, recalledShown, readShown, cut, undelivered, abandoned>>
  BY DEF Erased, Ended, memory
<1>2. Shown' = Shown /\ Ids' = Ids /\ Shown \subseteq Ids
  BY <1>1, ShownIn DEF Shown, Ids, Core
<1>3. /\ \A x : x \in swept' <=> \/ x \in swept
                                 \/ x \in ids /\ x \in Shown
                                 \/ x \in ids /\ \E j \in jobs : j.step = "saved" /\ j.id = x
      /\ \A j \in jobs : j.step = "saved" => j.id \in Ids
  BY DEF SweptWith, Core, MessagesTyped, IsJob, Ids
<1>4. MessagesTyped'
  <2>1. swept' \subseteq Ids
    BY <1>2, <1>3 DEF Core, MessagesTyped
  <2> QED
    BY <1>1, <1>2, <2>1 DEF Core, MessagesTyped
<1>5. Histories'
  BY <1>1 DEF Core, Histories
<1>6. UploadsApart'
  <2> SUFFICES ASSUME NEW j \in jobs, Uploading(j)
               PROVE  /\ j.id \notin Shown
                      /\ j.id \notin recalledShown \cup readShown \cup recalledStored \cup readStored
                      /\ j.step = "streaming" => j.id \notin stored /\ j.id \notin swept'
                      /\ j.step = "saved" => j.id \in stored' \/ j.id \in swept'
                      /\ \A other \in jobs : Uploading(other) /\ other.id = j.id => other = j
    BY <1>1, <1>2 DEF UploadsApart
  <2>1. /\ j.id \notin Shown
        /\ j.id \notin recalledShown \cup readShown \cup recalledStored \cup readStored
        /\ j.step = "streaming" => j.id \notin stored /\ j.id \notin swept
        /\ j.step = "saved" => j.id \in stored \/ j.id \in swept
        /\ \A other \in jobs : Uploading(other) /\ other.id = j.id => other = j
    BY DEF Core, RowsInv, UploadsApart
  <2>2. ASSUME j.step = "streaming" PROVE j.id \notin swept'
    <3>1. \A other \in jobs : other.step = "saved" => other.id # j.id
      BY <2>1, <2>2 DEF Uploading
    <3> QED
      BY <1>3, <2>1, <2>2, <3>1
  <2>3. ASSUME j.step = "saved" PROVE j.id \in stored' \/ j.id \in swept'
    BY <1>1, <1>3, <2>1, <2>3
  <2> QED
    BY <2>1, <2>2, <2>3
<1>7. ShownAsStored'
  <2> SUFFICES ASSUME NEW x \in Shown, x \notin swept'
               PROVE  /\ x \in stored' /\ (x \in recalledShown <=> x \in recalledStored')
                      /\ (x \in readShown <=> x \in readStored')
    BY <1>1, <1>2 DEF ShownAsStored
  <2>1. x \notin ids /\ x \notin swept
    BY <1>3
  <2>2. /\ x \in stored /\ (x \in recalledShown <=> x \in recalledStored)
        /\ (x \in readShown <=> x \in readStored)
    BY <2>1 DEF Core, RowsInv, ShownAsStored
  <2> QED
    BY <1>1, <2>1, <2>2
<1>8. SweptIsGone'
  BY <1>1, <1>3 DEF Core, RowsInv, SweptIsGone
<1>9. Hidden'
  <2> SUFFICES ASSUME NEW x \in stored', x \notin Shown PROVE Explained(x)'
    BY <1>2 DEF Hidden
  <2>1. x \in stored /\ Explained(x) /\ ~AtStake(x, sent[x].to, job)
    BY <1>1 DEF Core, RowsInv, Hidden
  <2> QED
    BY <1>1, <2>1 DEF Explained
<1> QED
  BY <1>4, <1>5, <1>6, <1>7, <1>8, <1>9 DEF Core, RowsInv

LEMMA DeletionsKeep ==
  ASSUME Core, NEW job \in jobs, RowDeleted(job) \/ RowsCleared(job) \/ VisitorRowsDeleted(job)
  PROVE  Core'
<1>1. CASE RowDeleted(job)
  <2> DEFINE ids == {job.id}
  <2>1. /\ ~Uploading(job) /\ Erased(ids) /\ swept' = swept \cup SweptWith(ids) /\ Ended(job)
        /\ UNCHANGED <<members, sent, memory, cut, undelivered, abandoned>>
        /\ \A x \in stored : AtStake(x, sent[x].to, job) => x \in ids
    BY <1>1 DEF RowDeleted, Uploading, AtStake, people
  <2> HIDE DEF ids
  <2> QED
    BY ONLY Core, job \in jobs, <2>1, ErasedKeeps
<1>2. CASE RowsCleared(job)
  <2>1. /\ ~Uploading(job) /\ Erased(stored) /\ swept' = swept \cup SweptWith(stored) /\ Ended(job)
        /\ UNCHANGED <<members, sent, memory, cut, undelivered, abandoned>>
        /\ \A x \in stored : AtStake(x, sent[x].to, job) => x \in stored
    BY <1>2 DEF RowsCleared, Uploading, people
  <2> QED
    BY ONLY Core, job \in jobs, <2>1, ErasedKeeps
<1>3. CASE VisitorRowsDeleted(job)
  <2> DEFINE ids == RowsOf(AdminChat(job.who))
  <2>1. /\ ~Uploading(job) /\ Erased(ids) /\ swept' = swept \cup SweptWith(ids) /\ Ended(job)
        /\ UNCHANGED <<members, sent, memory, cut, undelivered, abandoned>>
        /\ \A x \in stored : AtStake(x, sent[x].to, job) => x \in ids
    BY <1>3 DEF VisitorRowsDeleted, Uploading, AtStake, people, RowsOf
  <2> HIDE DEF ids
  <2> QED
    BY ONLY Core, job \in jobs, <2>1, ErasedKeeps
<1> QED
  BY <1>1, <1>2, <1>3

LEMMA FailureKeeps ==
  ASSUME Core, NEW job \in jobs, DeletionFails(job)
  PROVE  Core'
<1>1. /\ ~Uploading(job) /\ jobs' = jobs \ {job} /\ abandoned' = abandoned \cup RowsAtStake(job)
      /\ UNCHANGED <<members, sent, shown, bytes, recalledShown, readShown, stored, recalledStored,
                     readStored, cut, undelivered, swept>>
  BY DEF DeletionFails, Uploading, Ended, people, memory, rows
<1>2. Shown' = Shown /\ Ids' = Ids
  BY <1>1 DEF Shown, Ids
<1>3. MessagesTyped' /\ Histories'
  BY <1>1, <1>2 DEF Core, MessagesTyped, Histories
<1>4. UploadsApart' /\ ShownAsStored' /\ SweptIsGone'
  BY <1>1, <1>2 DEF Core, RowsInv, UploadsApart, ShownAsStored, SweptIsGone
<1>5. Hidden'
  <2> SUFFICES ASSUME NEW x \in stored, x \notin Shown PROVE Explained(x)'
    BY <1>1, <1>2 DEF Hidden
  <2>1. Explained(x)
    BY DEF Core, RowsInv, Hidden
  <2>2. AtStake(x, sent[x].to, job) => x \in abandoned'
    BY <1>1, StakeIs DEF Core, MessagesTyped
  <2> QED
    BY <1>1, <2>1, <2>2 DEF Explained
<1> QED
  BY <1>3, <1>4, <1>5 DEF Core, RowsInv

\* Memory shrinks: what disappears from it is explained from now on.
LEMMA ShrinkKeeps ==
  ASSUME Core, NEW new, jobs' = jobs \cup new,
         \A job \in new : IsJob(job, sent) /\ ~Uploading(job),
         Histories',
         shown' = [k \in Conversations |-> shown'[k]], bytes' = [k \in Conversations |-> bytes'[k]],
         members' = [g \in Groups |-> members'[g]],
         \A g \in Groups : members[g] = {} => members'[g] = {},
         Shown' \subseteq Shown, \A x \in stored : x \in Shown /\ x \notin Shown' => Explained(x)',
         UNCHANGED <<sent, recalledShown, readShown, rows, notes>>
  PROVE  Core'
<1>1. UNCHANGED <<stored, recalledStored, readStored, cut, undelivered, swept, abandoned>>
  BY DEF rows, notes
<1>2. MessagesTyped'
  BY <1>1 DEF Core, MessagesTyped, Ids
<1>3. UploadsApart'
  BY <1>1 DEF Core, RowsInv, UploadsApart
<1>4. ShownAsStored' /\ SweptIsGone'
  BY <1>1 DEF Core, RowsInv, ShownAsStored, SweptIsGone
<1>5. Hidden'
  <2> SUFFICES ASSUME NEW x \in stored, x \notin Shown' PROVE Explained(x)'
    BY <1>1 DEF Hidden
  <2>1. CASE x \in Shown
    BY <2>1
  <2>2. CASE x \notin Shown
    BY <1>1, <2>2 DEF Core, RowsInv, Hidden, Explained
  <2> QED
    BY <2>1, <2>2
<1> QED
  BY <1>2, <1>3, <1>4, <1>5 DEF Core, RowsInv

\* A conversation whose history is emptied; the others stay.
LEMMA EmptiedHistories ==
  ASSUME Core, NEW gone, UNCHANGED <<sent, recalledShown>>,
         shown' = [k \in Conversations |-> shown'[k]],
         \A k \in Conversations : k \in gone => shown'[k] = <<>> /\ bytes'[k] = 0,
         \A k \in Conversations : k \notin gone => shown'[k] = shown[k] /\ bytes'[k] = bytes[k]
  PROVE  /\ Histories' /\ Shown' \subseteq Shown
         /\ \A x \in Shown : x \notin Shown' => sent[x].to \in gone /\ sent[x].to \in Conversations
<1>1. Histories'
  <2> SUFFICES ASSUME NEW k \in Conversations
               PROVE  GoodHistory(sent, recalledShown, k, shown'[k], bytes'[k])
    BY DEF Histories
  <2>1. CASE k \in gone
    BY <2>1, GoodEmpty
  <2>2. CASE k \notin gone
    BY <2>2 DEF Core, Histories
  <2> QED
    BY <2>1, <2>2
<1>2. Shown' \subseteq Shown
  <2> SUFFICES ASSUME NEW x \in Shown' PROVE x \in Shown
    OBVIOUS
  <2>1. PICK k \in Conversations : x \in ToSet(shown'[k])
    BY ShownIsNext
  <2>2. k \notin gone
    BY <2>1, GoodEmpty
  <2> QED
    BY <2>1, <2>2, ShownIs
<1>3. ASSUME NEW x \in Shown, x \notin Shown'
      PROVE  sent[x].to \in gone /\ sent[x].to \in Conversations
  <2>1. PICK k \in Conversations : x \in ToSet(shown[k])
    BY ShownIs
  <2>2. sent[x].to = k
    BY <2>1, ShownIn DEF Core
  <2>3. k \in gone
    BY <1>3, <2>1, ShownIsNext
  <2> QED
    BY <2>2, <2>3
<1> QED
  BY <1>1, <1>2, <1>3

LEMMA GroupShrinksKeeps ==
  ASSUME Core, NEW g \in Groups, NEW left, GroupShrinks(g, left)
  PROVE  Core'
<1> DEFINE gone == IF left = {} THEN {GroupChat(g)} ELSE {}
<1>1. /\ members' = [members EXCEPT ![g] = left] /\ left # members[g] /\ left \subseteq members[g]
      /\ shown' = IF left = {} THEN [shown EXCEPT ![GroupChat(g)] = <<>>] ELSE shown
      /\ bytes' = IF left = {} THEN [bytes EXCEPT ![GroupChat(g)] = 0] ELSE bytes
      /\ UNCHANGED <<sent, recalledShown, readShown, rows, jobs, notes>>
  BY DEF GroupShrinks
<1>2. /\ shown = [k \in Conversations |-> shown[k]] /\ bytes = [k \in Conversations |-> bytes[k]]
      /\ members = [h \in Groups |-> members[h]]
  BY DEF Core, MessagesTyped
<1>3. GroupChat(g) \in Conversations
  BY DEF Conversations
<1>4. /\ shown' = [k \in Conversations |-> shown'[k]] /\ bytes' = [k \in Conversations |-> bytes'[k]]
      /\ \A k \in Conversations : k \in gone => shown'[k] = <<>> /\ bytes'[k] = 0
      /\ \A k \in Conversations : k \notin gone => shown'[k] = shown[k] /\ bytes'[k] = bytes[k]
  <2>1. CASE left = {}
    BY <1>1, <1>2, <1>3, <2>1
  <2>2. CASE left # {}
    BY <1>1, <1>2, <2>2
  <2> QED
    BY <2>1, <2>2
<1>5. \A k \in gone : k = GroupChat(g) /\ left = {}
  OBVIOUS
<1> HIDE DEF gone
<1>6. /\ Histories' /\ Shown' \subseteq Shown
      /\ \A x \in Shown : x \notin Shown' => sent[x].to \in gone /\ sent[x].to \in Conversations
  BY ONLY Core, <1>1, <1>4, EmptiedHistories
<1>7. /\ members' = [h \in Groups |-> members'[h]]
      /\ \A h \in Groups : members[h] = {} => members'[h] = {}
      /\ members'[g] = left
  BY <1>1, <1>2
<1>8. \A x \in stored : x \in Shown /\ x \notin Shown' => Explained(x)'
  <2> SUFFICES ASSUME NEW x \in stored, x \in Shown, x \notin Shown' PROVE Explained(x)'
    OBVIOUS
  <2>1. sent'[x].to = GroupChat(g) /\ members'[g] = {}
    BY <1>1, <1>5, <1>6, <1>7
  <2> QED
    BY <2>1 DEF Explained
<1>9. jobs' = jobs \cup {} /\ \A job \in {} : IsJob(job, sent) /\ ~Uploading(job)
  BY <1>1
<1> QED
  BY ONLY Core, <1>1, <1>4, <1>6, <1>7, <1>8, <1>9, ShrinkKeeps

LEMMA DeleteKeeps ==
  ASSUME Core, NEW id \in Ids, DeleteChatMessage(id)
  PROVE  Core'
<1> DEFINE job == Job("delete", "delete", id, Admin)
<1>1. /\ shown' = [k \in Conversations |-> Without(shown[k], id)]
      /\ bytes' = [k \in Conversations |->
                     IF id \in ToSet(shown[k]) THEN bytes[k] - WeightOf(sent, recalledShown, {id})
                                               ELSE bytes[k]]
      /\ jobs' = jobs \cup {job}
      /\ UNCHANGED <<sent, members, recalledShown, readShown, rows, notes>>
  BY DEF DeleteChatMessage, Begun, people
<1>2. job.step = "delete" /\ job.id = id /\ job = Job(job.kind, job.step, job.id, job.who)
  BY DEF Job
<1> HIDE DEF job
<1>3. IsJob(job, sent) /\ ~Uploading(job)
  BY <1>2 DEF IsJob, JobSteps, Uploading, Ids
<1>4. \A k \in Conversations : /\ GoodHistory(sent, recalledShown, k, shown'[k], bytes'[k])
                               /\ ToSet(shown'[k]) = ToSet(shown[k]) \ {id}
  <2> SUFFICES ASSUME NEW k \in Conversations
               PROVE  /\ GoodHistory(sent, recalledShown, k, shown'[k], bytes'[k])
                      /\ ToSet(shown'[k]) = ToSet(shown[k]) \ {id}
    OBVIOUS
  <2>1. GoodHistory(sent, recalledShown, k, shown[k], bytes[k]) /\ sent \in Seq(Message)
    BY DEF Core, Histories, MessagesTyped
  <2>2. /\ shown'[k] = Without(shown[k], id)
        /\ bytes'[k] = IF id \in ToSet(shown[k]) THEN bytes[k] - WeightOf(sent, recalledShown, {id})
                                                 ELSE bytes[k]
    BY <1>1
  <2>3. /\ ToSet(Without(shown[k], id)) = ToSet(shown[k]) \ {id}
        /\ id \in ToSet(shown[k]) =>
             GoodHistory(sent, recalledShown, k, Without(shown[k], id),
                         bytes[k] - WeightOf(sent, recalledShown, {id}))
        /\ id \notin ToSet(shown[k]) =>
             GoodHistory(sent, recalledShown, k, Without(shown[k], id), bytes[k])
    BY ONLY <2>1, GoodWithout
  <2> QED
    BY <2>2, <2>3
<1>5. Histories'
  BY <1>1, <1>4 DEF Histories
<1>6. Shown' \subseteq Shown /\ \A x \in Shown : x \notin Shown' => x = id
  <2>1. ASSUME NEW x \in Shown' PROVE x \in Shown
    BY <1>4, ShownIs, ShownIsNext
  <2>2. ASSUME NEW x \in Shown, x # id PROVE x \in Shown'
    BY <1>4, <2>2, ShownIs, ShownIsNext
  <2> QED
    BY <2>1, <2>2
<1>7. \A x \in stored : x \in Shown /\ x \notin Shown' => Explained(x)'
  <2> SUFFICES ASSUME NEW x \in stored, x = id PROVE Explained(x)'
    BY <1>6
  <2>1. AtStake(x, sent'[x].to, job) /\ job \in jobs'
    BY <1>1, <1>2 DEF AtStake
  <2> QED
    BY <2>1 DEF Explained
<1>8. /\ shown' = [k \in Conversations |-> shown'[k]] /\ bytes' = [k \in Conversations |-> bytes'[k]]
      /\ members' = [h \in Groups |-> members'[h]] /\ \A h \in Groups : members[h] = {} => members'[h] = {}
  <2>1. shown' = [k \in Conversations |-> shown'[k]]
    BY <1>1
  <2>2. bytes' = [k \in Conversations |-> bytes'[k]]
    BY <1>1
  <2> QED
    BY <1>1, <2>1, <2>2 DEF Core, MessagesTyped
<1>9. \A j \in {job} : IsJob(j, sent) /\ ~Uploading(j)
  BY <1>3
<1> QED
  BY ONLY Core, <1>1, <1>5, <1>6, <1>7, <1>8, <1>9, ShrinkKeeps

LEMMA ClearKeeps ==
  ASSUME Core, ClearChatHistory
  PROVE  Core'
<1> DEFINE job == Job("clear", "clear", 0, Admin)
           gone == {k \in Conversations : Emptied(k)}
<1>1. /\ shown' = [k \in Conversations |-> IF Emptied(k) THEN <<>> ELSE shown[k]]
      /\ bytes' = [k \in Conversations |-> IF Emptied(k) THEN 0 ELSE bytes[k]]
      /\ jobs' = jobs \cup {job}
      /\ UNCHANGED <<sent, members, recalledShown, readShown, rows, notes>>
  BY DEF ClearChatHistory, Begun, people
<1>2. job.step = "clear" /\ job = Job(job.kind, job.step, job.id, job.who)
  BY DEF Job
<1>3. /\ shown' = [k \in Conversations |-> shown'[k]] /\ bytes' = [k \in Conversations |-> bytes'[k]]
      /\ \A k \in Conversations : k \in gone => shown'[k] = <<>> /\ bytes'[k] = 0
      /\ \A k \in Conversations : k \notin gone => shown'[k] = shown[k] /\ bytes'[k] = bytes[k]
  BY <1>1
<1> HIDE DEF job, gone
<1>4. IsJob(job, sent) /\ ~Uploading(job)
  BY <1>2 DEF IsJob, JobSteps, Uploading
<1>5. /\ Histories' /\ Shown' \subseteq Shown
      /\ \A x \in Shown : x \notin Shown' => sent[x].to \in gone /\ sent[x].to \in Conversations
  BY ONLY Core, <1>1, <1>3, EmptiedHistories
<1>6. \A x \in stored : x \in Shown /\ x \notin Shown' => Explained(x)'
  <2> SUFFICES ASSUME NEW x \in stored PROVE Explained(x)'
    OBVIOUS
  <2>1. AtStake(x, sent'[x].to, job) /\ job \in jobs'
    BY <1>1, <1>2 DEF AtStake
  <2> QED
    BY <2>1 DEF Explained
<1>7. members' = [h \in Groups |-> members'[h]] /\ \A h \in Groups : members[h] = {} => members'[h] = {}
  BY <1>1 DEF Core, MessagesTyped
<1>8. \A j \in {job} : IsJob(j, sent) /\ ~Uploading(j)
  BY <1>4
<1>9. /\ shown' = [k \in Conversations |-> shown'[k]] /\ bytes' = [k \in Conversations |-> bytes'[k]]
      /\ Histories' /\ Shown' \subseteq Shown /\ jobs' = jobs \cup {job}
      /\ UNCHANGED <<sent, recalledShown, readShown, rows, notes>>
  BY <1>1, <1>3, <1>5
<1> QED
  BY ONLY Core, <1>6, <1>7, <1>8, <1>9, ShrinkKeeps

LEMMA VisitorKeeps ==
  ASSUME Core, NEW c \in Clients, RemoveChatVisitor(c)
  PROVE  Core'
<1> DEFINE job == Job("visitor", "visitor", 0, c)
           gone == {AdminChat(c)}
<1>1. /\ shown' = [shown EXCEPT ![AdminChat(c)] = <<>>] /\ bytes' = [bytes EXCEPT ![AdminChat(c)] = 0]
      /\ jobs' = jobs \cup {job}
      /\ UNCHANGED <<sent, members, recalledShown, readShown, rows, notes>>
  BY DEF RemoveChatVisitor, Begun
<1>2. job.step = "visitor" /\ job.who = c /\ job = Job(job.kind, job.step, job.id, job.who)
  BY DEF Job
<1>3. AdminChat(c) \in Conversations
  BY DEF Conversations
<1>4. /\ shown = [k \in Conversations |-> shown[k]] /\ bytes = [k \in Conversations |-> bytes[k]]
  BY DEF Core, MessagesTyped
<1>5. /\ shown' = [k \in Conversations |-> shown'[k]] /\ bytes' = [k \in Conversations |-> bytes'[k]]
      /\ \A k \in Conversations : k \in gone => shown'[k] = <<>> /\ bytes'[k] = 0
      /\ \A k \in Conversations : k \notin gone => shown'[k] = shown[k] /\ bytes'[k] = bytes[k]
  BY <1>1, <1>3, <1>4
<1>6. \A k \in gone : k = AdminChat(c)
  OBVIOUS
<1> HIDE DEF job, gone
<1>7. IsJob(job, sent) /\ ~Uploading(job)
  BY <1>2 DEF IsJob, JobSteps, Uploading
<1>8. /\ Histories' /\ Shown' \subseteq Shown
      /\ \A x \in Shown : x \notin Shown' => sent[x].to \in gone /\ sent[x].to \in Conversations
  BY ONLY Core, <1>1, <1>5, EmptiedHistories
<1>9. \A x \in stored : x \in Shown /\ x \notin Shown' => Explained(x)'
  <2> SUFFICES ASSUME NEW x \in stored, x \in Shown, x \notin Shown' PROVE Explained(x)'
    OBVIOUS
  <2>1. AtStake(x, sent'[x].to, job) /\ job \in jobs'
    BY <1>1, <1>2, <1>6, <1>8 DEF AtStake
  <2> QED
    BY <2>1 DEF Explained
<1>10. members' = [h \in Groups |-> members'[h]] /\ \A h \in Groups : members[h] = {} => members'[h] = {}
  BY <1>1 DEF Core, MessagesTyped
<1>11. \A j \in {job} : IsJob(j, sent) /\ ~Uploading(j)
  BY <1>7
<1>12. /\ shown' = [k \in Conversations |-> shown'[k]] /\ bytes' = [k \in Conversations |-> bytes'[k]]
       /\ Histories' /\ Shown' \subseteq Shown /\ jobs' = jobs \cup {job}
       /\ UNCHANGED <<sent, recalledShown, readShown, rows, notes>>
  BY <1>1, <1>5, <1>8
<1> QED
  BY ONLY Core, <1>9, <1>10, <1>11, <1>12, ShrinkKeeps

\* A restart: what is loaded has its rows, and what is not is noted.
LEMMA RestartKeeps ==
  ASSUME Core, CrashAndRestart
  PROVE  Core'
<1>1. /\ shown' = [k \in Conversations |-> Loaded(k)]
      /\ bytes' = [k \in Conversations |-> WeightOf(sent, recalledStored, ToSet(Loaded(k)))]
      /\ recalledShown' = recalledStored /\ readShown' = readStored /\ jobs' = {}
      /\ cut' = cut \cup (stored \ UNION {ToSet(Loaded(k)) : k \in Conversations})
      /\ UNCHANGED <<members, sent, stored, recalledStored, readStored, undelivered, swept>>
  BY DEF CrashAndRestart, rows
<1>2. sent \in Seq(Message) /\ stored \subseteq Ids /\ recalledStored \subseteq Ids /\ readStored \subseteq Ids
  BY DEF Core, MessagesTyped
<1>3. \A k \in Conversations :
        /\ GoodHistory(sent, recalledStored, k, Loaded(k), WeightOf(sent, recalledStored, ToSet(Loaded(k))))
        /\ ToSet(Loaded(k)) \subseteq RowsOf(k)
  BY <1>2, GoodLoaded
<1>4. Histories'
  BY <1>1, <1>3 DEF Histories
<1>5. Shown' \subseteq stored
  <2> SUFFICES ASSUME NEW x \in Shown' PROVE x \in stored
    OBVIOUS
  <2>1. PICK k \in Conversations : x \in ToSet(shown'[k])
    BY ShownIsNext
  <2>2. x \in RowsOf(k)
    BY <1>1, <1>3, <2>1
  <2> QED
    BY <2>2 DEF RowsOf
<1>6. stored \subseteq Shown' \cup cut'
  <2>1. Shown' = UNION {ToSet(Loaded(k)) : k \in Conversations}
    <3>1. \A k \in Conversations : shown'[k] = Loaded(k)
      BY <1>1
    <3> QED
      BY <3>1, Zenon DEF Shown
  <2> QED
    BY <1>1, <2>1
<1>7. MessagesTyped'
  <2>1. shown' = [k \in Conversations |-> shown'[k]]
    BY <1>1
  <2>2. bytes' = [k \in Conversations |-> bytes'[k]]
    BY <1>1
  <2>3. Ids' = Ids
    BY <1>1 DEF Ids
  <2> QED
    BY <1>1, <1>2, <2>1, <2>2, <2>3 DEF Core, MessagesTyped
<1>8. UploadsApart'
  BY <1>1 DEF UploadsApart
<1>9. ShownAsStored' /\ SweptIsGone'
  BY <1>1, <1>5 DEF Core, RowsInv, ShownAsStored, SweptIsGone
<1>10. Hidden'
  BY <1>1, <1>6 DEF Hidden, Explained
<1> QED
  BY <1>4, <1>7, <1>8, <1>9, <1>10 DEF Core, RowsInv

-----------------------------------------------------------------------------
(* Every step keeps the invariant. *)

LEMMA LinksKept ==
  ASSUME LinksTyped, MessagesNext
  PROVE  LinksTyped'
<1> DEFINE states == {"gone", "online", "detached"}
<1>1. \A who : Detached(who) \in [Clients -> states]
  BY DEF LinksTyped, Detached
<1>2. ASSUME NEW c \in Clients, BrowserStep(c) PROVE LinksTyped'
  <2>1. CASE Connect(c)
    BY <2>1 DEF Connect, LinksTyped
  <2>2. CASE HangUp(c)
    BY <2>2 DEF HangUp, LinksTyped
  <2>3. CASE UNCHANGED link
    BY <2>3 DEF LinksTyped
  <2> QED
    BY <1>2, <2>1, <2>2, <2>3 DEF BrowserStep, ReceivePeerChatMessage, ReceiveDirectMessage,
       ReceiveAdministratorPrivateMessage, ReceiveUserGroupMessage, MarkMessagesRead,
       RecallPeerMessage, ReceiveHTTPAttachment, Admit, people
<1>3. ASSUME AdministratorStep PROVE LinksTyped'
  <2>1. CASE SetEnabled
    BY <1>1, <2>1 DEF SetEnabled, LinksTyped
  <2>2. CASE SetGroupEnabled
    BY <1>1, <2>2 DEF SetGroupEnabled, LinksTyped
  <2>3. ASSUME NEW c \in Clients, SetChatUserBlacklisted(c) PROVE LinksTyped'
    BY <1>1, <2>3 DEF SetChatUserBlacklisted, LinksTyped
  <2>4. CASE UNCHANGED link
    BY <2>4 DEF LinksTyped
  <2>5. CASE SendAdminToAll \/ ReceiveAdminAttachment \/ SetPrivateMessagesEnabled \/ ClearChatHistory
    BY <2>4, <2>5 DEF SendAdminToAll, ReceiveAdminAttachment, Admit, SetPrivateMessagesEnabled,
       ClearChatHistory, people
  <2>6. ASSUME NEW c \in Clients,
               RemoveChatVisitor(c) \/ \E taken \in BOOLEAN : SendAdminChatMessage(c, taken)
        PROVE  LinksTyped'
    BY <2>4, <2>6 DEF RemoveChatVisitor, SendAdminChatMessage
  <2>7. ASSUME \/ \E g \in Groups, left \in SUBSET Clients : GroupShrinks(g, left)
               \/ \E id \in Ids : DeleteChatMessage(id)
        PROVE  LinksTyped'
    BY <2>4, <2>7 DEF GroupShrinks, DeleteChatMessage, people
  <2> QED
    BY <1>3, <2>1, <2>2, <2>3, <2>5, <2>6, <2>7 DEF AdministratorStep
<1>4. ASSUME NEW job \in jobs, JobStep(job) PROVE LinksTyped'
  <2>1. link' = link
    BY <1>4 DEF JobStep, AttachmentSaved, AttachmentNotSaved, AttachmentPublished, AttachmentRefused,
       RowDeleted, RowsCleared, VisitorRowsDeleted, DeletionFails, people
  <2> QED
    BY <2>1 DEF LinksTyped
<1>5. CASE CrashAndRestart
  BY <1>5 DEF CrashAndRestart, LinksTyped
<1> QED
  BY <1>2, <1>3, <1>4, <1>5 DEF MessagesNext

\* Where a message may go is a conversation.
LEMMA ConversationsAre ==
  /\ SystemGroup \in Conversations
  /\ \A c \in Clients : AdminChat(c) \in Conversations
  /\ \A g \in Groups : GroupChat(g) \in Conversations
  /\ \A c, d \in Clients : c # d => Direct(c, d) \in Conversations
<1>1. ASSUME NEW c \in Clients, NEW d \in Clients, c # d PROVE Direct(c, d) \in Conversations
  <2>1. \A e : Direct(c, d) # Direct(e, e)
    <3>1. \A e : {c, d} # {e, e}
      BY <1>1
    <3> QED
      BY <3>1 DEF Direct, Conversation
  <2> QED
    BY <2>1 DEF Conversations
<1> QED
  BY <1>1 DEF Conversations

\* Nobody who is online is evicted, and only conversations with the administrator are.
LEMMA Spared ==
  ASSUME NEW c \in Clients, link[c] = "online", NEW out \in RoomFor(c)
  PROVE  AdminChat(c) \notin AdminChats(out) /\ SystemGroup \notin AdminChats(out)
<1>1. c \notin out
  BY DEF RoomFor, Online
<1>2. \A d \in out : AdminChat(d) # AdminChat(c)
  <2>1. \A d \in out : {d} # {c}
    BY <1>1
  <2> QED
    BY <2>1 DEF AdminChat, Conversation
<1>3. \A d : AdminChat(d) # SystemGroup
  BY DEF AdminChat, SystemGroup, Conversation
<1> QED
  BY <1>2, <1>3 DEF AdminChats

\* An entry that evicts another one, and nothing else.
LEMMA EvictKeeps ==
  ASSUME Core, NEW out, Evict(out),
         UNCHANGED <<members, sent, rows, jobs, undelivered, swept, abandoned>>
  PROVE  Core'
<1>1. /\ UNCHANGED <<members, sent, stored, recalledStored, readStored, jobs, undelivered, swept, abandoned,
                     recalledShown, readShown>>
  BY DEF rows, Evict
<1>2. Ids' = Ids /\ sent \in Seq(Message)
  BY <1>1 DEF Ids, Core, MessagesTyped
<1>3. /\ Histories'
      /\ shown' = [c \in Conversations |-> shown'[c]] /\ bytes' = [c \in Conversations |-> bytes'[c]]
      /\ Shown' \subseteq Shown /\ Shown \subseteq Shown' \cup cut' /\ cut \subseteq cut'
  <2>1. ASSUME NEW log, log = sent
        PROVE  /\ Histories'
               /\ shown' = [c \in Conversations |-> shown'[c]] /\ bytes' = [c \in Conversations |-> bytes'[c]]
               /\ Shown' \subseteq Shown /\ Shown \subseteq Shown' \cup cut' /\ cut \subseteq cut'
    <3>1. /\ log \in Seq(Message) /\ Len(sent) <= Len(log) /\ \A x \in Ids : log[x] = sent[x]
          /\ sent' = log /\ Evict(out)
      BY <1>1, <1>2, <2>1
    <3> QED
      BY ONLY Core, <3>1, EvictDoes
  <2> QED
    BY <2>1
<1>4. MessagesTyped'
  BY <1>1, <1>2, <1>3 DEF Core, MessagesTyped
<1>5. UploadsApart' /\ ShownAsStored' /\ SweptIsGone'
  BY <1>1, <1>3 DEF Core, RowsInv, UploadsApart, ShownAsStored, SweptIsGone
<1>6. Hidden'
  <2> SUFFICES ASSUME NEW x \in stored, x \notin Shown' PROVE Explained(x)'
    BY <1>1 DEF Hidden
  <2>1. CASE x \in Shown
    BY <1>3, <2>1 DEF Explained
  <2>2. CASE x \notin Shown
    <3>1. Explained(x)
      BY <2>2 DEF Core, RowsInv, Hidden
    <3> QED
      BY <1>1, <1>3, <3>1 DEF Explained
  <2> QED
    BY <2>1, <2>2
<1> QED
  BY <1>3, <1>4, <1>5, <1>6 DEF Core, RowsInv

LEMMA AdministratorSends == Admin \in Senders /\ \A c \in Clients : c \in Senders
  BY DEF Senders

LEMMA Nobody == \A k : k \notin AdminChats({})
  BY DEF AdminChats

LEMMA BrowserKeeps ==
  ASSUME Core, NEW c \in Clients, BrowserStep(c)
  PROVE  Core'
<1> USE ConversationsAre, AdministratorSends, Nobody
<1>1. CASE Connect(c) \/ HangUp(c)
  <2>1. CASE Connect(c)
    <3>1. PICK out \in RoomFor(c) \cup {{}} : Evict(out)
      BY <2>1 DEF Connect
    <3>2. UNCHANGED <<members, sent, rows, jobs, undelivered, swept, abandoned>>
      BY <2>1 DEF Connect
    <3> QED
      BY ONLY Core, <3>1, <3>2, EvictKeeps
  <2>2. CASE HangUp(c)
    <3>1. UNCHANGED <<members, sent, memory, rows, jobs, notes>>
      BY <2>2 DEF HangUp
    <3> QED
      BY ONLY Core, <3>1, QuietKeeps
  <2> QED
    BY <1>1, <2>1, <2>2
<1>2. ASSUME NEW taken \in BOOLEAN, ReceivePeerChatMessage(c, taken) PROVE Core'
  <2>1. UNCHANGED <<jobs, members>> /\ link[c] = "online"
    BY <1>2 DEF ReceivePeerChatMessage
  <2>2. PICK out \in RoomFor(c) :
          \/ Persist(c, SystemGroup, TRUE, out)
          \/ Persist(c, AdminChat(c), taken, out)
          \/ Evict(out) /\ UNCHANGED <<sent, rows, undelivered, swept, abandoned>>
    BY <1>2 DEF ReceivePeerChatMessage
  <2>3. AdminChat(c) \notin AdminChats(out) /\ SystemGroup \notin AdminChats(out)
    BY <2>1, Spared
  <2>4. CASE Persist(c, SystemGroup, TRUE, out)
    BY <2>1, <2>3, <2>4, PersistKeeps
  <2>5. CASE Persist(c, AdminChat(c), taken, out)
    BY <2>1, <2>3, <2>5, PersistKeeps
  <2>6. CASE Evict(out) /\ UNCHANGED <<sent, rows, undelivered, swept, abandoned>>
    <3>1. UNCHANGED <<members, sent, rows, jobs, undelivered, swept, abandoned>>
      BY <2>1, <2>6
    <3> QED
      BY ONLY Core, <2>6, <3>1, EvictKeeps
  <2> QED
    BY <2>2, <2>4, <2>5, <2>6
<1>3. ASSUME NEW d \in Clients, ReceiveDirectMessage(c, d) PROVE Core'
  <2>1. c # d /\ Persist(c, Direct(c, d), TRUE, {}) /\ UNCHANGED <<jobs, members>>
    BY <1>3 DEF ReceiveDirectMessage
  <2> QED
    BY <2>1, PersistKeeps
<1>4. ASSUME ReceiveAdministratorPrivateMessage(c) PROVE Core'
  <2>1. Persist(c, AdminChat(c), TRUE, {}) /\ UNCHANGED <<jobs, members>>
    BY <1>4 DEF ReceiveAdministratorPrivateMessage
  <2> QED
    BY <2>1, PersistKeeps
<1>5. ASSUME NEW g \in Groups, ReceiveUserGroupMessage(c, g) PROVE Core'
  <2>1. Persist(c, GroupChat(g), TRUE, {}) /\ UNCHANGED <<jobs, members>>
    BY <1>5 DEF ReceiveUserGroupMessage
  <2> QED
    BY <2>1, PersistKeeps
<1>6. ASSUME NEW d \in Clients \ {c}, NEW ids \in SUBSET Unread(c, d), MarkMessagesRead(c, d, ids)
      PROVE  Core'
  <2>1. /\ MarkChatMessagesRead(ids) /\ readShown' = readShown \cup ids
        /\ UNCHANGED <<sent, shown, bytes, recalledShown, stored, recalledStored, jobs, members, notes>>
    BY <1>6 DEF MarkMessagesRead, people
  <2>2. ids \subseteq Shown
    BY ShownIs DEF Unread
  <2> QED
    BY ONLY Core, <2>1, <2>2, ReadKeeps
<1>7. ASSUME NEW id \in Shown, RecallPeerMessage(c, id) PROVE Core'
  <2>1. PICK k \in Recallable(c) :
          /\ id \in ToSet(shown[k])
          /\ bytes' = [bytes EXCEPT ![k] = @ - WeightOf(sent, recalledShown, {id})]
    BY <1>7 DEF RecallPeerMessage
  <2>2. k \in Conversations
    BY DEF Recallable
  <2>3. /\ id \notin recalledShown /\ RecallChatMessage(id) /\ recalledShown' = recalledShown \cup {id}
        /\ readShown' = IF id \in readStored THEN readShown \cup {id} ELSE readShown \ {id}
        /\ UNCHANGED <<sent, shown, stored, readStored, jobs, members, notes>>
    BY <1>7 DEF RecallPeerMessage, people
  <2> QED
    BY ONLY Core, <2>1, <2>2, <2>3, RecallKeeps
<1>8. ASSUME ReceiveHTTPAttachment(c) PROVE Core'
  <2>1. PICK k, route, who, out : k \in Conversations /\ Admit(c, k, route, who, out)
    BY <1>8 DEF ReceiveHTTPAttachment
  <2> QED
    BY <2>1, AdmitKeeps
<1> QED
  BY <1>1, <1>2, <1>3, <1>4, <1>5, <1>6, <1>7, <1>8 DEF BrowserStep

LEMMA AdministratorKeeps ==
  ASSUME Core, AdministratorStep
  PROVE  Core'
<1> USE ConversationsAre, AdministratorSends, Nobody
<1>1. CASE SendAdminToAll
  <2>1. Persist(Admin, SystemGroup, TRUE, {}) /\ UNCHANGED <<jobs, members>>
    BY <1>1 DEF SendAdminToAll, people
  <2> QED
    BY <2>1, PersistKeeps
<1>2. ASSUME NEW c \in Clients, NEW taken \in BOOLEAN, SendAdminChatMessage(c, taken) PROVE Core'
  <2>1. Persist(Admin, AdminChat(c), taken, {}) /\ UNCHANGED <<jobs, members>>
    BY <1>2 DEF SendAdminChatMessage
  <2> QED
    BY <2>1, PersistKeeps
<1>3. CASE ReceiveAdminAttachment
  <2>1. PICK k, route, who, out : k \in Conversations /\ Admit(Admin, k, route, who, out)
    BY <1>3 DEF ReceiveAdminAttachment, Online
  <2> QED
    BY <2>1, AdmitKeeps
<1>4. ASSUME \/ SetEnabled \/ SetGroupEnabled \/ SetPrivateMessagesEnabled
             \/ \E c \in Clients : SetChatUserBlacklisted(c)
      PROVE  Core'
  <2>1. UNCHANGED <<members, sent, memory, rows, jobs, notes>>
    BY <1>4 DEF SetEnabled, SetGroupEnabled, SetPrivateMessagesEnabled, SetChatUserBlacklisted, people
  <2> QED
    BY ONLY Core, <2>1, QuietKeeps
<1> QED
  BY <1>1, <1>2, <1>3, <1>4, VisitorKeeps, GroupShrinksKeeps, DeleteKeeps, ClearKeeps DEF AdministratorStep

LEMMA NextKeeps ==
  ASSUME MessagesInv, [MessagesNext]_messageVars
  PROVE  MessagesInv'
<1>1. Core /\ LinksTyped
  BY DEF MessagesInv, Core
<1>2. CASE MessagesNext
  <2>1. Core'
    <3>1. ASSUME NEW job \in jobs, JobStep(job) PROVE Core'
      BY <1>1, <3>1, SavedKeeps, NotSavedKeeps, PublishedKeeps, RefusedKeeps, DeletionsKeep, FailureKeeps
         DEF JobStep
    <3> QED
      BY <1>1, <1>2, <3>1, BrowserKeeps, AdministratorKeeps, RestartKeeps DEF MessagesNext
  <2> QED
    BY <1>1, <1>2, <2>1, LinksKept DEF MessagesInv, Core
<1>3. CASE UNCHANGED messageVars
  <2>1. UNCHANGED <<link, members, sent, memory, rows, jobs, notes>>
    BY <1>3 DEF messageVars, people
  <2>2. Core'
    BY ONLY <1>1, <2>1, QuietKeeps
  <2> QED
    BY <1>1, <2>1, <2>2 DEF MessagesInv, Core, LinksTyped
<1> QED
  BY <1>2, <1>3

-----------------------------------------------------------------------------
(* The theorems. *)

\* The inductive invariant holds throughout.
THEOREM MessagesCorrect == MessagesSpec => []MessagesInv
<1>1. MessagesInit => MessagesInv
  BY InvInit
<1>2. MessagesInv /\ [MessagesNext]_messageVars => MessagesInv'
  BY NextKeeps
<1> QED
  BY <1>1, <1>2, PTL DEF MessagesSpec

\* Every variable has its type, and memory shows a message once and in its
\* own conversation.
THEOREM MessagesTypeCorrect == MessagesSpec => []MessagesTypeOK
<1>1. MessagesInv => MessagesTypeOK
  <2> SUFFICES ASSUME MessagesInv PROVE MessagesTypeOK
    OBVIOUS
  <2>1. \A k \in Conversations :
          /\ IsInjective(shown[k])
          /\ \A id \in ToSet(shown[k]) : id \in Ids /\ sent[id].to = k
    BY DEF MessagesInv, Histories, GoodHistory, Ids
  <2> QED
    BY <2>1 DEF MessagesInv, LinksTyped, MessagesTyped, MessagesTypeOK
<1> QED
  BY <1>1, MessagesCorrect, PTL

\* historyBytes is exact after every append, cut, recall, deletion, clearing
\* and restart, and both caps hold in every conversation.
THEOREM HistoryAlwaysCounted == MessagesSpec => []HistoryCounted
<1>1. MessagesInv => HistoryCounted
  BY DEF MessagesInv, Histories, GoodHistory, HistoryCounted
<1> QED
  BY <1>1, MessagesCorrect, PTL

\* What a browser sees has its row, with the same recall and receipt, unless a
\* deletion, a clearing or the removal of a visitor swept the row.
THEOREM AlwaysShownAsStored == MessagesSpec => []ShownAsStored
<1>1. MessagesInv => ShownAsStored
  BY DEF MessagesInv, RowsInv
<1> QED
  BY <1>1, MessagesCorrect, PTL

\* Every row that memory does not show is accounted for: cut off, undelivered,
\* of a dissolved group, at stake in a call, or left by a failure.
THEOREM HiddenRowsAlwaysExplained == MessagesSpec => []HiddenRowsExplained
<1>1. MessagesInv => HiddenRowsExplained
  BY HiddenMeans DEF MessagesInv, RowsInv
<1> QED
  BY <1>1, MessagesCorrect, PTL

\* The marks of a message that is there before and after a step.
MarksKept ==
  /\ \A id \in Shown \cap Shown' :
       /\ id \in recalledShown => id \in recalledShown'
       /\ id \in readShown => id \in readShown'
  /\ \A id \in stored \cap stored' :
       /\ id \in recalledStored => id \in recalledStored'
       /\ id \in readStored => id \in readStored'

\* Marks that only grow are kept.
LEMMA GrowingMarks ==
  ASSUME recalledShown \subseteq recalledShown', readShown \subseteq readShown',
         recalledStored \subseteq recalledStored', readStored \subseteq readStored'
  PROVE  MarksKept
  BY DEF MarksKept

LEMMA RecallKeepsMarks ==
  ASSUME MessagesInv, NEW c, NEW id \in Shown, RecallPeerMessage(c, id)
  PROVE  MarksKept
<1>1. /\ id \in stored /\ recalledStored' = recalledStored \cup {id} /\ UNCHANGED readStored
      /\ recalledShown' = recalledShown \cup {id}
      /\ readShown' = IF id \in readStored THEN readShown \cup {id} ELSE readShown \ {id}
  BY DEF RecallPeerMessage, RecallChatMessage
<1>2. id \in readShown <=> id \in readStored
  <2>1. id \notin swept
    BY <1>1 DEF MessagesInv, RowsInv, SweptIsGone
  <2> QED
    BY <2>1 DEF MessagesInv, RowsInv, ShownAsStored
<1>3. readShown \subseteq readShown'
  BY <1>1, <1>2
<1> QED
  BY <1>1, <1>3, GrowingMarks

LEMMA ErasureKeepsMarks ==
  ASSUME NEW ids, Erased(ids), UNCHANGED memory
  PROVE  MarksKept
  BY DEF Erased, memory, MarksKept

LEMMA RestartKeepsMarks ==
  ASSUME MessagesInv, CrashAndRestart
  PROVE  MarksKept
<1>1. /\ recalledShown' = recalledStored /\ readShown' = readStored
      /\ UNCHANGED <<stored, recalledStored, readStored>>
  BY DEF CrashAndRestart, rows
<1>2. Shown' \subseteq stored
  <2> SUFFICES ASSUME NEW id \in Shown' PROVE id \in stored
    OBVIOUS
  <2>1. PICK k \in Conversations : id \in ToSet(shown'[k])
    BY ShownIsNext
  <2>2. shown'[k] = Loaded(k) /\ ToSet(Loaded(k)) \subseteq RowsOf(k)
    BY GoodLoaded DEF CrashAndRestart, MessagesInv, MessagesTyped
  <2> QED
    BY <2>1, <2>2 DEF RowsOf
<1>3. \A id \in Shown \cap Shown' : /\ id \in recalledShown <=> id \in recalledStored
                                    /\ id \in readShown <=> id \in readStored
  <2>1. \A id \in Shown \cap Shown' : id \notin swept
    BY <1>2 DEF MessagesInv, RowsInv, SweptIsGone
  <2> QED
    BY <2>1 DEF MessagesInv, RowsInv, ShownAsStored
<1> QED
  BY <1>1, <1>3 DEF MarksKept

LEMMA UntouchedMarks ==
  ASSUME UNCHANGED <<recalledShown, readShown, recalledStored, readStored>>
  PROVE  MarksKept
  BY DEF MarksKept

LEMMA BrowserKeepsMarks ==
  ASSUME MessagesInv, NEW c \in Clients, BrowserStep(c)
  PROVE  MarksKept
<1>1. ASSUME NEW by, NEW k, NEW appended, NEW out, Persist(by, k, appended, out) PROVE MarksKept
  BY <1>1, UntouchedMarks DEF Persist, AppendChatMessage, Evict
<1>2. ASSUME NEW by, NEW k, NEW route, NEW who, NEW out, Admit(by, k, route, who, out) PROVE MarksKept
  BY <1>2, UntouchedMarks DEF Admit, Evict, rows
<1>3. CASE Connect(c) \/ HangUp(c)
  BY <1>3, UntouchedMarks DEF Connect, HangUp, Evict, memory, rows
<1>4. ASSUME NEW d, NEW ids, MarkMessagesRead(c, d, ids) PROVE MarksKept
  BY <1>4, GrowingMarks DEF MarkMessagesRead, MarkChatMessagesRead
<1>5. ASSUME ReceiveHTTPAttachment(c) PROVE MarksKept
  BY <1>2, <1>5 DEF ReceiveHTTPAttachment
<1>6. ASSUME NEW taken, ReceivePeerChatMessage(c, taken) PROVE MarksKept
  BY <1>1, <1>6, UntouchedMarks DEF ReceivePeerChatMessage, Evict, rows
<1>7. ASSUME NEW d, ReceiveDirectMessage(c, d) PROVE MarksKept
  BY <1>1, <1>7 DEF ReceiveDirectMessage
<1>8. ASSUME ReceiveAdministratorPrivateMessage(c) PROVE MarksKept
  BY <1>1, <1>8 DEF ReceiveAdministratorPrivateMessage
<1>9. ASSUME NEW g, ReceiveUserGroupMessage(c, g) PROVE MarksKept
  BY <1>1, <1>9 DEF ReceiveUserGroupMessage
<1> QED
  BY <1>3, <1>4, <1>5, <1>6, <1>7, <1>8, <1>9, RecallKeepsMarks DEF BrowserStep

LEMMA AdministratorKeepsMarks ==
  ASSUME AdministratorStep
  PROVE  MarksKept
<1>1. ASSUME NEW by, NEW k, NEW appended, NEW out, Persist(by, k, appended, out) PROVE MarksKept
  BY <1>1, UntouchedMarks DEF Persist, AppendChatMessage, Evict
<1>2. ASSUME NEW by, NEW k, NEW route, NEW who, NEW out, Admit(by, k, route, who, out) PROVE MarksKept
  BY <1>2, UntouchedMarks DEF Admit, Evict, rows
<1>3. CASE SendAdminToAll \/ ReceiveAdminAttachment
  BY <1>1, <1>2, <1>3 DEF SendAdminToAll, ReceiveAdminAttachment
<1>4. ASSUME NEW c, NEW taken, SendAdminChatMessage(c, taken) PROVE MarksKept
  BY <1>1, <1>4 DEF SendAdminChatMessage
<1>5. ASSUME \/ SetEnabled \/ SetGroupEnabled \/ SetPrivateMessagesEnabled \/ ClearChatHistory
             \/ \E c \in Clients : SetChatUserBlacklisted(c) \/ RemoveChatVisitor(c)
             \/ \E g \in Groups, left \in SUBSET Clients : GroupShrinks(g, left)
             \/ \E id \in Ids : DeleteChatMessage(id)
      PROVE  MarksKept
  <2>1. UNCHANGED <<recalledShown, readShown, recalledStored, readStored>>
    BY <1>5 DEF SetEnabled, SetGroupEnabled, SetPrivateMessagesEnabled, ClearChatHistory,
       SetChatUserBlacklisted, RemoveChatVisitor, GroupShrinks, DeleteChatMessage, memory, rows
  <2> QED
    BY <2>1, UntouchedMarks
<1> QED
  BY <1>3, <1>4, <1>5 DEF AdministratorStep

LEMMA JobKeepsMarks ==
  ASSUME NEW job, JobStep(job)
  PROVE  MarksKept
<1>1. CASE RowDeleted(job) \/ RowsCleared(job) \/ VisitorRowsDeleted(job)
  BY <1>1, ErasureKeepsMarks DEF RowDeleted, RowsCleared, VisitorRowsDeleted
<1>2. CASE \/ AttachmentSaved(job) \/ AttachmentNotSaved(job)
           \/ AttachmentPublished(job) \/ AttachmentRefused(job) \/ DeletionFails(job)
  <2>1. UNCHANGED <<recalledShown, readShown, recalledStored, readStored>>
    BY <1>2 DEF AttachmentSaved, AttachmentNotSaved, AttachmentPublished, AttachmentRefused,
       DeletionFails, AppendChatMessage, memory, rows
  <2> QED
    BY <2>1, UntouchedMarks
<1> QED
  BY <1>1, <1>2 DEF JobStep

\* A recall stands and a receipt stands, in memory and in the database, as long
\* as the copy that carries it is there: no step takes either back.
THEOREM MarksAlwaysStand == MessagesSpec => MarksStand
<1>1. MessagesInv /\ [MessagesNext]_messageVars => [MarksKept]_messageVars
  BY BrowserKeepsMarks, AdministratorKeepsMarks, JobKeepsMarks, RestartKeepsMarks DEF MessagesNext
<1>2. [MarksKept]_messageVars
        => [/\ \A id \in Shown \cap Shown' :
                 /\ id \in recalledShown => id \in recalledShown'
                 /\ id \in readShown => id \in readShown'
            /\ \A id \in stored \cap stored' :
                 /\ id \in recalledStored => id \in recalledStored'
                 /\ id \in readStored => id \in readStored']_messageVars
  BY DEF MarksKept
<1> QED
  BY <1>1, <1>2, MessagesCorrect, PTL DEF MessagesSpec, MarksStand
=============================================================================
