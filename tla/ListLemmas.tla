------------------------------ MODULE ListLemmas ------------------------------
(***************************************************************************)
(* Lists without repetition: what putting an element first or last, taking *)
(* it out and going through the list preserve.                             *)
(***************************************************************************)
EXTENDS Integers, Sequences, FiniteSets, SequencesExt, FiniteSetTheorems,
        WellFoundedInduction, TLAPS

OnList(s, t) == \E i \in DOMAIN s : s[i] = t

NoRepeat(s) == \A i, j \in DOMAIN s : s[i] = s[j] => i = j

\* The members of E come last.
Sorted(s, E) == \A i, j \in DOMAIN s : i < j /\ s[i] \in E => s[j] \in E

Suffix(rest, s) ==
    /\ Len(rest) \in 1 .. Len(s)
    /\ \A i \in 1 .. Len(rest) : rest[i] = s[i + (Len(s) - Len(rest))]

\* RemoveFirst takes out the one entry that there is.
LEMMA RemoveAtEntry ==
    ASSUME NEW T, NEW s \in Seq(T), NoRepeat(s), NEW k \in DOMAIN s
    PROVE  /\ Len(RemoveFirst(s, s[k])) = Len(s) - 1
           /\ RemoveFirst(s, s[k]) \in Seq(T)
           /\ \A j \in 1 .. Len(s) - 1 :
                  RemoveFirst(s, s[k])[j] = IF j < k THEN s[j] ELSE s[j + 1]
<1>1. Len(s) \in Nat /\ DOMAIN s = 1 .. Len(s) /\ k \in 1 .. Len(s)
  OBVIOUS
<1>2. SelectInSeq(s, LAMBDA v : v = s[k]) = k
  <2>1. {i \in 1 .. Len(s) : s[i] = s[k]} = {k}
    BY <1>1 DEF NoRepeat
  <2>2. Min({k}) = k
    BY <1>1 DEF Min
  <2> QED
    BY <2>1, <2>2 DEF SelectInSeq
<1>3. RemoveFirst(s, s[k]) = SubSeq(s, 1, k - 1) \o SubSeq(s, k + 1, Len(s))
  BY <1>1, <1>2 DEF RemoveFirst, RemoveAt
<1> DEFINE front == SubSeq(s, 1, k - 1)
           back == SubSeq(s, k + 1, Len(s))
<1>4. /\ front \in Seq(T) /\ Len(front) = k - 1
      /\ \A j \in 1 .. k - 1 : front[j] = s[j]
  BY <1>1
<1>5. /\ back \in Seq(T) /\ Len(back) = Len(s) - k
      /\ \A j \in 1 .. Len(s) - k : back[j] = s[j + k]
  BY <1>1
<1> HIDE DEF front, back
<1>6. /\ front \o back \in Seq(T) /\ Len(front \o back) = Len(s) - 1
      /\ \A j \in 1 .. Len(front) : (front \o back)[j] = front[j]
      /\ \A j \in 1 .. Len(back) : (front \o back)[j + Len(front)] = back[j]
  <2> DEFINE both == front \o back
  <2>1. front \in Seq(T) /\ back \in Seq(T) /\ Len(front) \in Nat /\ Len(back) \in Nat
    BY <1>4, <1>5
  <2>2. both \in Seq(T) /\ Len(both) = Len(front) + Len(back)
    BY <2>1
  <2>3. \A j \in 1 .. Len(front) + Len(back) :
            both[j] = IF j <= Len(front) THEN front[j] ELSE back[j - Len(front)]
    BY <2>1
  <2>4. Len(front) + Len(back) = Len(s) - 1
    BY <1>1, <1>4, <1>5
  <2>5. ASSUME NEW j \in 1 .. Len(front) PROVE both[j] = front[j]
    BY <2>1, <2>3
  <2>6. ASSUME NEW j \in 1 .. Len(back) PROVE both[j + Len(front)] = back[j]
    BY <2>1, <2>3
  <2> QED
    BY <2>2, <2>4, <2>5, <2>6
<1>7. ASSUME NEW j \in 1 .. Len(s) - 1
      PROVE  (front \o back)[j] = IF j < k THEN s[j] ELSE s[j + 1]
  <2>1. CASE j < k
    <3>1. j \in 1 .. Len(front) /\ j \in 1 .. k - 1
      BY <1>1, <1>4, <2>1
    <3> QED
      BY <1>4, <1>6, <2>1, <3>1
  <2>2. CASE ~(j < k)
    <3>1. j - (k - 1) \in 1 .. Len(s) - k /\ (j - (k - 1)) + k = j + 1
      BY <1>1, <2>2
    <3>2. j = (j - (k - 1)) + Len(front)
      BY <1>1, <1>4
    <3>3. (front \o back)[(j - (k - 1)) + Len(front)] = back[j - (k - 1)]
      BY <1>5, <1>6, <3>1
    <3> QED
      BY <1>5, <2>2, <3>1, <3>2, <3>3
  <2> QED
    BY <2>1, <2>2
<1> QED
  BY <1>3, <1>6, <1>7 DEF front, back

LEMMA RemoveAbsent ==
    ASSUME NEW T, NEW s \in Seq(T), NEW t, ~OnList(s, t)
    PROVE  RemoveFirst(s, t) = s
BY DEF RemoveFirst, OnList

\* What is left when an element is taken off a list.
LEMMA RemoveFacts ==
    ASSUME NEW T, NEW s \in Seq(T), NoRepeat(s), NEW t \in T
    PROVE  /\ RemoveFirst(s, t) \in Seq(T)
           /\ NoRepeat(RemoveFirst(s, t))
           /\ \A u : OnList(RemoveFirst(s, t), u) <=> (OnList(s, u) /\ u # t)
           /\ \A E : Sorted(s, E) => Sorted(RemoveFirst(s, t), E)
<1>1. CASE ~OnList(s, t)
  BY <1>1, RemoveAbsent DEF OnList
<1>2. CASE OnList(s, t)
  <2>1. PICK k \in DOMAIN s : s[k] = t
    BY <1>2 DEF OnList
  <2> DEFINE w == RemoveFirst(s, t)
             back(j) == IF j < k THEN j ELSE j + 1
  <2>2. /\ Len(w) = Len(s) - 1 /\ w \in Seq(T)
        /\ \A j \in 1 .. Len(s) - 1 : w[j] = IF j < k THEN s[j] ELSE s[j + 1]
    BY <2>1, RemoveAtEntry
  <2>3. Len(s) \in Nat /\ DOMAIN s = 1 .. Len(s) /\ k \in 1 .. Len(s)
    OBVIOUS
  <2>4. DOMAIN w = 1 .. Len(s) - 1
    BY <2>2
  <2> HIDE DEF w
  <2>5. \A j \in DOMAIN w : back(j) \in DOMAIN s /\ back(j) # k /\ w[j] = s[back(j)]
    BY <2>2, <2>3, <2>4
  <2>6. \A i, j \in DOMAIN w : (i < j <=> back(i) < back(j)) /\ (back(i) = back(j) => i = j)
    BY <2>3, <2>4
  <2>7. \A i \in DOMAIN s : i # k => \E j \in DOMAIN w : back(j) = i
    <3> SUFFICES ASSUME NEW i \in DOMAIN s, i # k
                 PROVE  \E j \in DOMAIN w : back(j) = i
      OBVIOUS
    <3>1. CASE i < k
      BY <2>3, <2>4, <3>1
    <3>2. CASE i > k
      <4>1. i - 1 \in DOMAIN w /\ back(i - 1) = i
        BY <2>3, <2>4, <3>2
      <4> QED
        BY <4>1
    <3> QED
      BY <2>3, <3>1, <3>2
  <2> HIDE DEF back
  <2>8. NoRepeat(w)
    BY <2>5, <2>6 DEF NoRepeat
  <2>9. ASSUME NEW u
        PROVE  OnList(w, u) <=> (OnList(s, u) /\ u # t)
    <3>1. ASSUME OnList(w, u) PROVE OnList(s, u) /\ u # t
      <4>1. PICK j \in DOMAIN w : w[j] = u
        BY <3>1 DEF OnList
      <4> QED
        BY <2>1, <2>5, <4>1 DEF OnList, NoRepeat
    <3>2. ASSUME OnList(s, u), u # t PROVE OnList(w, u)
      <4>1. PICK i \in DOMAIN s : s[i] = u
        BY <3>2 DEF OnList
      <4>2. PICK j \in DOMAIN w : back(j) = i
        BY <2>1, <2>7, <3>2, <4>1
      <4> QED
        BY <2>5, <4>1, <4>2 DEF OnList
    <3> QED
      BY <3>1, <3>2
  <2>10. ASSUME NEW E, Sorted(s, E) PROVE Sorted(w, E)
    BY <2>5, <2>6, <2>10 DEF Sorted
  <2> QED
    BY <2>2, <2>8, <2>9, <2>10 DEF w
<1> QED
  BY <1>1, <1>2

\* An element that is on no list is put on one.
LEMMA AppendFacts ==
    ASSUME NEW T, NEW s \in Seq(T), NoRepeat(s), NEW t \in T, ~OnList(s, t)
    PROVE  /\ Append(s, t) \in Seq(T)
           /\ NoRepeat(Append(s, t))
           /\ \A u : OnList(Append(s, t), u) <=> (OnList(s, u) \/ u = t)
           /\ \A E : Sorted(s, E) => Sorted(Append(s, t), E \cup {t})
<1> DEFINE w == Append(s, t)
<1>1. /\ Len(s) \in Nat /\ DOMAIN s = 1 .. Len(s) /\ w \in Seq(T)
      /\ DOMAIN w = 1 .. Len(s) + 1
      /\ \A i \in 1 .. Len(s) : w[i] = s[i]
      /\ w[Len(s) + 1] = t
  OBVIOUS
<1> HIDE DEF w
<1>2. \A i \in DOMAIN s : s[i] # t
  BY DEF OnList
<1>3. \A i \in DOMAIN w : (i \in DOMAIN s /\ w[i] = s[i]) \/ (i = Len(s) + 1 /\ w[i] = t)
  BY <1>1
<1>4. NoRepeat(w)
  BY <1>1, <1>2, <1>3 DEF NoRepeat
<1>5. ASSUME NEW u PROVE OnList(w, u) <=> (OnList(s, u) \/ u = t)
  <2>1. OnList(w, u) => (OnList(s, u) \/ u = t)
    BY <1>3 DEF OnList
  <2>2. OnList(s, u) => OnList(w, u)
    BY <1>1 DEF OnList
  <2>3. OnList(w, t)
    BY <1>1 DEF OnList
  <2> QED
    BY <2>1, <2>2, <2>3
<1>6. ASSUME NEW E, Sorted(s, E) PROVE Sorted(w, E \cup {t})
  BY <1>1, <1>2, <1>3, <1>6 DEF Sorted
<1> QED
  BY <1>1, <1>4, <1>5, <1>6 DEF w

LEMMA PrependFacts ==
    ASSUME NEW T, NEW s \in Seq(T), NoRepeat(s), NEW t \in T, ~OnList(s, t)
    PROVE  /\ <<t>> \o s \in Seq(T)
           /\ NoRepeat(<<t>> \o s)
           /\ \A u : OnList(<<t>> \o s, u) <=> (OnList(s, u) \/ u = t)
           /\ \A E : Sorted(s, E) => Sorted(<<t>> \o s, E \ {t})
<1> DEFINE w == <<t>> \o s
<1>1. /\ Len(s) \in Nat /\ DOMAIN s = 1 .. Len(s) /\ w \in Seq(T)
      /\ DOMAIN w = 1 .. Len(s) + 1
      /\ \A i \in 2 .. Len(s) + 1 : w[i] = s[i - 1]
      /\ w[1] = t
  OBVIOUS
<1> HIDE DEF w
<1>2. \A i \in DOMAIN s : s[i] # t
  BY DEF OnList
<1>3. \A i \in DOMAIN w : (i - 1 \in DOMAIN s /\ w[i] = s[i - 1]) \/ (i = 1 /\ w[i] = t)
  BY <1>1
<1>4. NoRepeat(w)
  BY <1>1, <1>2, <1>3 DEF NoRepeat
<1>5. ASSUME NEW u PROVE OnList(w, u) <=> (OnList(s, u) \/ u = t)
  <2>1. OnList(w, u) => (OnList(s, u) \/ u = t)
    BY <1>3 DEF OnList
  <2>2. OnList(s, u) => OnList(w, u)
    <3> SUFFICES ASSUME NEW i \in DOMAIN s, s[i] = u PROVE OnList(w, u)
      BY DEF OnList
    <3>1. i + 1 \in DOMAIN w /\ w[i + 1] = s[(i + 1) - 1] /\ (i + 1) - 1 = i
      BY <1>1
    <3> QED
      BY <3>1 DEF OnList
  <2>3. OnList(w, t)
    BY <1>1 DEF OnList
  <2> QED
    BY <2>1, <2>2, <2>3
<1>6. ASSUME NEW E, Sorted(s, E) PROVE Sorted(w, E \ {t})
  BY <1>1, <1>2, <1>3, <1>6 DEF Sorted
<1> QED
  BY <1>1, <1>4, <1>5, <1>6 DEF w

\* An element that is not on the list may be exclusive or not.
LEMMA SortedElsewhere ==
    ASSUME NEW s, NEW t, ~OnList(s, t), NEW E, Sorted(s, E)
    PROVE  Sorted(s, E \cup {t}) /\ Sorted(s, E \ {t})
BY DEF Sorted, OnList

\* There are no more entries on a list than there are elements.
LEMMA ListFits ==
    ASSUME NEW T, NEW s \in Seq(T), NoRepeat(s), IsFiniteSet(T)
    PROVE  Len(s) <= Cardinality(T) /\ Cardinality(T) \in Nat
<1>1. IsFiniteSet(T) /\ Cardinality(T) \in Nat
  BY FS_CardinalityType
<1>2. Len(s) \in Nat /\ s \in [1 .. Len(s) -> T]
  OBVIOUS
<1>3. s \in Injection(1 .. Len(s), T)
  BY <1>2 DEF NoRepeat, Injection, IsInjective
<1>4. Cardinality(1 .. Len(s)) = Len(s)
  BY <1>2, FS_Interval
<1> QED
  BY <1>1, <1>3, <1>4, FS_Injection

\* An element is on such a list once, or not at all.
LEMMA EntriesOf ==
    ASSUME NEW T, NEW s \in Seq(T), NoRepeat(s), NEW t
    PROVE  Cardinality({i \in DOMAIN s : s[i] = t}) = IF OnList(s, t) THEN 1 ELSE 0
<1>1. CASE OnList(s, t)
  <2>1. PICK k \in DOMAIN s : s[k] = t
    BY <1>1 DEF OnList
  <2>2. {i \in DOMAIN s : s[i] = t} = {k}
    BY <2>1 DEF NoRepeat
  <2> QED
    BY <1>1, <2>2, FS_Singleton
<1>2. CASE ~OnList(s, t)
  <2>1. {i \in DOMAIN s : s[i] = t} = {}
    BY <1>2 DEF OnList
  <2> QED
    BY <1>2, <2>1, FS_EmptySet
<1> QED
  BY <1>1, <1>2

\* The rest of a list is its end, and stays so when its head is taken off.
LEMMA SuffixFacts ==
    ASSUME NEW T, NEW s \in Seq(T), NEW rest \in Seq(T), Suffix(rest, s)
    PROVE  /\ Len(rest) > 1 => Suffix(Tail(rest), s) /\ Len(Tail(rest)) = Len(rest) - 1
           /\ \A t : OnList(rest, t) => OnList(s, t)
           /\ \A E : Sorted(s, E) => Sorted(rest, E)
           /\ Head(rest) = rest[1] /\ 1 \in DOMAIN rest
<1> DEFINE d == Len(s) - Len(rest)
<1>1. /\ Len(s) \in Nat /\ DOMAIN s = 1 .. Len(s)
      /\ Len(rest) \in Nat /\ DOMAIN rest = 1 .. Len(rest)
      /\ Len(rest) >= 1 /\ Len(rest) <= Len(s)
  BY DEF Suffix
<1>2. d \in Nat /\ \A i \in DOMAIN rest : i + d \in DOMAIN s /\ rest[i] = s[i + d]
  BY <1>1 DEF Suffix
<1>3. ASSUME Len(rest) > 1
      PROVE  Suffix(Tail(rest), s) /\ Len(Tail(rest)) = Len(rest) - 1
  <2>1. Len(Tail(rest)) = Len(rest) - 1 /\ \A i \in 1 .. Len(rest) - 1 : Tail(rest)[i] = rest[i + 1]
    BY <1>1, <1>3
  <2>2. ASSUME NEW i \in 1 .. Len(rest) - 1
        PROVE  Tail(rest)[i] = s[i + (Len(s) - (Len(rest) - 1))]
    <3>1. i + 1 \in DOMAIN rest /\ (i + 1) + d = i + (Len(s) - (Len(rest) - 1))
      BY <1>1
    <3> QED
      BY <1>2, <2>1, <3>1
  <2>3. Len(Tail(rest)) \in 1 .. Len(s)
    BY <1>1, <1>3, <2>1
  <2>4. \A i \in 1 .. Len(Tail(rest)) : Tail(rest)[i] = s[i + (Len(s) - Len(Tail(rest)))]
    BY <2>1, <2>2
  <2> QED
    BY <2>1, <2>3, <2>4 DEF Suffix
<1>4. ASSUME NEW t, OnList(rest, t) PROVE OnList(s, t)
  BY <1>2, <1>4 DEF OnList
<1>5. ASSUME NEW E, Sorted(s, E) PROVE Sorted(rest, E)
  <2> HIDE DEF d
  <2> QED
    BY <1>1, <1>2, <1>5 DEF Sorted
<1>6. Head(rest) = rest[1] /\ 1 \in DOMAIN rest
  BY <1>1
<1> QED
  BY <1>3, <1>4, <1>5, <1>6

LEMMA MoreThanOne ==
    ASSUME NEW T, NEW s \in Seq(T), Len(s) > 1
    PROVE  Len(s) # 1 /\ Tail(s) # << >>
<1>1. Len(s) \in Nat
  OBVIOUS
<1>2. Len(Tail(s)) = Len(s) - 1
  BY <1>1
<1>3. Len(s) # 1 /\ Len(s) - 1 # 0
  <2> DEFINE n == Len(s)
  <2>1. n \in Nat /\ n > 1
    BY <1>1
  <2> HIDE DEF n
  <2>2. n # 1 /\ n - 1 # 0
    BY <2>1
  <2> QED
    BY <2>2 DEF n
<1>4. Len(<< >>) = 0
  OBVIOUS
<1> QED
  BY <1>2, <1>3, <1>4

\* Who is on a list and not first is on its tail.
LEMMA OnTail ==
    ASSUME NEW T, NEW rest \in Seq(T), NEW t, OnList(rest, t), t # Head(rest)
    PROVE  Len(rest) > 1 /\ OnList(Tail(rest), t)
<1>1. PICK i \in DOMAIN rest : rest[i] = t
  BY DEF OnList
<1>2. Len(rest) \in Nat /\ DOMAIN rest = 1 .. Len(rest) /\ i \in 1 .. Len(rest)
  OBVIOUS
<1>3. i # 1
  BY <1>1, <1>2
<1>4. /\ Len(rest) > 1 /\ DOMAIN Tail(rest) = 1 .. Len(rest) - 1
      /\ i - 1 \in 1 .. Len(rest) - 1 /\ Tail(rest)[i - 1] = rest[(i - 1) + 1]
  BY <1>2, <1>3
<1>5. (i - 1) + 1 = i
  BY <1>2
<1> QED
  BY <1>1, <1>4, <1>5 DEF OnList

LEMMA LessThanWellFounded == IsWellFoundedOn({ss \in Nat \X Nat : ss[1] < ss[2]}, Nat)
BY NatLessThanWellFounded DEF OpToRel

\* Min of a set of natural numbers.
LEMMA LeastNumber ==
    ASSUME NEW S \in SUBSET Nat, S # {}
    PROVE  Min(S) \in S /\ \A m \in S : Min(S) <= m
<1> DEFINE Less == {ss \in Nat \X Nat : ss[1] < ss[2]}
<1>1. PICK n \in S : \A m \in S : <<m, n>> \notin Less
  <2>1. IsWellFoundedOn(Less, Nat)
    BY LessThanWellFounded
  <2> QED
    BY <2>1, WFMin
<1>2. \A m \in S : ~(m < n)
  BY <1>1
<1>3. n \in Nat /\ \A m \in S : m \in Nat
  OBVIOUS
<1>4. \A m \in S : n <= m
  BY <1>2, <1>3
<1> QED
  BY <1>4 DEF Min
-----------------------------------------------------------------------------
(* Recursion over the first numbers.                                       *)

\* f is the sequence v, G[v], G[G[v]], ... up to N.
Iterates(f, V, G, v, N) ==
    f \in [0 .. N -> V] /\ f[0] = v /\ \A i \in 1 .. N : f[i] = G[f[i - 1]]

\* A function defined by recursion over the first numbers exists.
LEMMA IterationExists ==
    ASSUME NEW V, NEW G \in [V -> V], NEW v \in V, NEW N \in Nat
    PROVE  \E f : Iterates(f, V, G, v, N)
<1> USE DEF Iterates
<1> DEFINE Is(f, m) == Iterates(f, V, G, v, m)
           S == {m \in Nat : ~\E f : Is(f, m)}
<1>1. Is([i \in 0 .. 0 |-> v], 0)
  OBVIOUS
<1>2. ASSUME NEW m \in Nat, NEW f, Is(f, m) PROVE \E g : Is(g, m + 1)
  <2> DEFINE g == [i \in 0 .. m + 1 |-> IF i = m + 1 THEN G[f[m]] ELSE f[i]]
  <2>1. f[m] \in V
    BY <1>2
  <2>2. g \in [0 .. m + 1 -> V] /\ g[0] = v
    BY <1>2, <2>1
  <2>3. ASSUME NEW i \in 1 .. m + 1 PROVE g[i] = G[g[i - 1]]
    <3>1. CASE i = m + 1
      <4>1. g[i] = G[f[m]] /\ i - 1 = m /\ m \in 0 .. m + 1 /\ m # m + 1
        BY <3>1
      <4>2. g[m] = f[m]
        BY <4>1
      <4> QED
        BY <4>1, <4>2
    <3>2. CASE i # m + 1
      <4>1. i \in 1 .. m /\ i - 1 \in 0 .. m + 1 /\ i - 1 # m + 1 /\ i \in 0 .. m + 1
        BY <3>2
      <4>2. g[i] = f[i] /\ g[i - 1] = f[i - 1]
        BY <3>2, <4>1
      <4>3. f[i] = G[f[i - 1]]
        BY <1>2, <4>1
      <4> QED
        BY <4>2, <4>3
    <3> QED
      BY <3>1, <3>2
  <2>4. Is(g, m + 1)
    BY <2>2, <2>3
  <2> QED
    BY <2>4
<1> HIDE DEF Is, Iterates
<1>3. S = {}
  <2> SUFFICES ASSUME S # {} PROVE FALSE
    OBVIOUS
  <2>1. PICK m \in S : \A j \in S : m <= j
    <3>1. Min(S) \in S /\ \A j \in S : Min(S) <= j
      BY LeastNumber
    <3> QED
      BY <3>1
  <2>2. m \in Nat /\ m # 0
    BY <1>1
  <2>3. m - 1 \in Nat /\ m - 1 \notin S /\ (m - 1) + 1 = m
    BY <2>1, <2>2
  <2>4. \E f : Is(f, m - 1)
    BY <2>3
  <2>5. \E g : Is(g, m)
    BY <1>2, <2>3, <2>4
  <2> QED
    BY <2>1, <2>5
<1>4. PICK f : Is(f, N)
  BY <1>3
<1> QED
  BY <1>4 DEF Is
=============================================================================
