----------------------------- MODULE GateProofs -----------------------------
(***************************************************************************)
(* Proofs about module Gate, for every tree, every set of contents and any *)
(* number of edits under the walk: nothing that had to be measured is left *)
(* out of a run that succeeds, every error has its cause, a report says of *)
(* every entry what it was and says it once, and two runs over a tree that *)
(* nobody edits agree.                                                     *)
(***************************************************************************)
EXTENDS Gate, FiniteSetTheorems, FunctionTheorems, SequenceTheorems,
        WellFoundedInduction, TLAPS

-----------------------------------------------------------------------------
\* Sorting.  R orders the elements; places with equal elements keep their order.

IsWeakOrder(R, S) ==
  /\ R \subseteq S \X S
  /\ \A a, b \in S : <<a, b>> \in R => <<b, a>> \notin R
  /\ \A a, b, c \in S : <<a, c>> \in R => <<a, b>> \in R \/ <<b, c>> \in R

\* The places of s that do not come after place i in the sorted sequence.
UpTo(s, R, i) ==
  {j \in DOMAIN s : <<s[j], s[i]>> \in R \/ (j =< i /\ <<s[i], s[j]>> \notin R)}

\* The elements up to a place are finitely many.
LEMMA UpToIsFinite ==
  ASSUME NEW S, NEW s \in Seq(S), NEW R, NEW i
  PROVE  /\ IsFiniteSet(UpTo(s, R, i)) /\ Cardinality(UpTo(s, R, i)) \in Nat
         /\ Cardinality(UpTo(s, R, i)) =< Len(s)
<1>1. DOMAIN s = 1 .. Len(s) /\ Len(s) \in Nat
  OBVIOUS
<1>2. IsFiniteSet(1 .. Len(s)) /\ Cardinality(1 .. Len(s)) = Len(s)
  BY <1>1, FS_Interval
<1>3. UpTo(s, R, i) \subseteq 1 .. Len(s)
  BY <1>1 DEF UpTo
<1> QED BY <1>1, <1>2, <1>3, FS_Subset, FS_CardinalityType

\* Of two places one is sorted before the other.
LEMMA UpToGrows ==
  ASSUME NEW S, NEW s \in Seq(S), NEW R, IsWeakOrder(R, S),
         NEW i \in DOMAIN s, NEW k \in DOMAIN s, i # k,
         <<s[i], s[k]>> \in R \/ (i < k /\ <<s[k], s[i]>> \notin R)
  PROVE  Cardinality(UpTo(s, R, i)) < Cardinality(UpTo(s, R, k))
<1>1. DOMAIN s \subseteq Nat /\ \A j \in DOMAIN s : s[j] \in S
  <2>1. DOMAIN s = 1 .. Len(s)
    OBVIOUS
  <2> QED BY <2>1, ElementOfSeq
<1>2. k \in UpTo(s, R, k)
  BY <1>1 DEF UpTo, IsWeakOrder
<1>3. k \notin UpTo(s, R, i)
  BY <1>1 DEF UpTo, IsWeakOrder
<1>4. UpTo(s, R, i) \subseteq UpTo(s, R, k)
  <2> SUFFICES ASSUME NEW j \in DOMAIN s,
                      <<s[j], s[i]>> \in R \/ (j =< i /\ <<s[i], s[j]>> \notin R)
               PROVE  <<s[j], s[k]>> \in R \/ (j =< k /\ <<s[k], s[j]>> \notin R)
    BY DEF UpTo
  <2>1. <<s[k], s[i]>> \notin R
    BY <1>1 DEF IsWeakOrder
  <2>2. CASE <<s[j], s[i]>> \in R
    BY <1>1, <2>1, <2>2 DEF IsWeakOrder
  <2>3. CASE j =< i /\ <<s[i], s[j]>> \notin R
    <3>1. CASE <<s[i], s[k]>> \in R
      BY <1>1, <2>3, <3>1 DEF IsWeakOrder
    <3>2. CASE i < k /\ <<s[k], s[i]>> \notin R
      <4>1. <<s[k], s[j]>> \notin R
        BY <1>1, <2>3, <3>2 DEF IsWeakOrder
      <4>2. i \in Nat /\ j \in Nat /\ k \in Nat
        BY <1>1
      <4> QED BY <2>3, <3>2, <4>1, <4>2
    <3> QED BY <3>1, <3>2
  <2> QED BY <2>2, <2>3
<1>5. UpTo(s, R, i) \subseteq UpTo(s, R, k) \ {k}
  BY <1>3, <1>4
<1> DEFINE low == UpTo(s, R, i)  high == UpTo(s, R, k)
<1>6. /\ IsFiniteSet(high) /\ Cardinality(high) \in Nat
      /\ IsFiniteSet(low) /\ Cardinality(low) \in Nat
  BY UpToIsFinite
<1>7. Cardinality(high \ {k}) = Cardinality(high) - 1 /\ IsFiniteSet(high \ {k})
  BY <1>2, <1>6, FS_RemoveElement
<1>8. Cardinality(low) =< Cardinality(high \ {k})
  BY <1>5, <1>7, FS_Subset
<1> HIDE DEF low, high
<1>9. Cardinality(low) < Cardinality(high)
  BY <1>6, <1>7, <1>8
<1> QED BY <1>9 DEF low, high

\* Every place of the sorted sequence is taken, and by one element only.
LEMMA PlacesAreTaken ==
  ASSUME NEW S, NEW s \in Seq(S), NEW R, IsWeakOrder(R, S)
  PROVE  /\ \A k \in DOMAIN s : \E i \in DOMAIN s : Cardinality(UpTo(s, R, i)) = k
         /\ \A i \in DOMAIN s : Cardinality(UpTo(s, R, i)) \in DOMAIN s
         /\ \A i, k \in DOMAIN s :
              Cardinality(UpTo(s, R, i)) = Cardinality(UpTo(s, R, k)) => i = k
<1> DEFINE D == 1 .. Len(s)
           place == [i \in D |-> Cardinality(UpTo(s, R, i))]
<1>1. DOMAIN s = D /\ Len(s) \in Nat /\ D \subseteq Nat /\ \A j \in D : s[j] \in S
  BY ElementOfSeq
<1>2. ASSUME NEW i \in D PROVE place[i] \in D
  <2>1. Cardinality(UpTo(s, R, i)) \in Nat /\ Cardinality(UpTo(s, R, i)) =< Len(s)
        /\ IsFiniteSet(UpTo(s, R, i))
    BY UpToIsFinite
  <2>2. i \in UpTo(s, R, i)
    BY <1>1, <1>2 DEF UpTo, IsWeakOrder
  <2>3. Cardinality(UpTo(s, R, i)) # 0
    BY <2>1, <2>2, FS_EmptySet
  <2> DEFINE card == Cardinality(UpTo(s, R, i))
  <2> HIDE DEF card
  <2>4. card \in D
    BY <1>1, <2>1, <2>3 DEF card
  <2> QED BY <1>2, <2>4 DEF card
<1>3. ASSUME NEW i \in D, NEW k \in D, i # k PROVE place[i] # place[k]
  <2>1. i \in DOMAIN s /\ k \in DOMAIN s /\ s[i] \in S /\ s[k] \in S /\ i \in Nat /\ k \in Nat
    BY <1>1
  <2>2. \/ <<s[i], s[k]>> \in R \/ (i < k /\ <<s[k], s[i]>> \notin R)
        \/ <<s[k], s[i]>> \in R \/ (k < i /\ <<s[i], s[k]>> \notin R)
    BY <1>3, <2>1
  <2>3. /\ Cardinality(UpTo(s, R, i)) \in Nat /\ Cardinality(UpTo(s, R, k)) \in Nat
    BY UpToIsFinite
  <2>4. \/ Cardinality(UpTo(s, R, i)) < Cardinality(UpTo(s, R, k))
        \/ Cardinality(UpTo(s, R, k)) < Cardinality(UpTo(s, R, i))
    BY <1>3, <2>1, <2>2, UpToGrows
  <2>5. Cardinality(UpTo(s, R, i)) # Cardinality(UpTo(s, R, k))
    BY <2>3, <2>4
  <2> QED BY <2>5
<1> HIDE DEF place
<1>4. place \in [D -> D]
  BY <1>2 DEF place
<1>5. place \in Injection(D, D)
  BY <1>3, <1>4 DEF Injection, IsInjective
<1>6. IsFiniteSet(D)
  BY <1>1, FS_Interval
<1>7. place \in Surjection(D, D)
  BY <1>5, <1>6, FS_Injection
<1>8. \A k \in D : \E i \in D : place[i] = k
  BY <1>7 DEF Surjection
<1>9. \A i \in D : place[i] = Cardinality(UpTo(s, R, i))
  BY DEF place
<1>10. \A k \in D : \E i \in D : Cardinality(UpTo(s, R, i)) = k
  BY <1>8, <1>9
<1>11. \A i \in D : Cardinality(UpTo(s, R, i)) \in D
  BY <1>2, <1>9
<1>12. \A i, k \in D : Cardinality(UpTo(s, R, i)) = Cardinality(UpTo(s, R, k)) => i = k
  BY <1>3, <1>9
<1> HIDE DEF D
<1> QED BY <1>1, <1>10, <1>11, <1>12

\* t has the elements of s, at other places.
IsReordering(t, s) ==
  /\ DOMAIN t = DOMAIN s
  /\ \E to \in Bijection(DOMAIN s, DOMAIN s) : \A i \in DOMAIN s : t[to[i]] = s[i]

\* What sorting yields: the same elements, in order.
LEMMA SortedSequence ==
  ASSUME NEW S, NEW s \in Seq(S), NEW R, IsWeakOrder(R, S),
         NEW t \in [DOMAIN s -> S],
         \A k \in DOMAIN s : \E i \in DOMAIN s : t[k] = s[i] /\ Cardinality(UpTo(s, R, i)) = k
  PROVE  /\ t \in Seq(S) /\ Len(t) = Len(s) /\ DOMAIN t = DOMAIN s
         /\ \A k \in DOMAIN s : \E i \in DOMAIN s : t[k] = s[i]
         /\ \A i \in DOMAIN s : \E k \in DOMAIN s : t[k] = s[i]
         /\ \A j, k \in DOMAIN s : j < k => <<t[k], t[j]>> \notin R
         /\ IsReordering(t, s)
<1>1. DOMAIN s = 1 .. Len(s) /\ Len(s) \in Nat /\ \A i \in DOMAIN s : s[i] \in S
  BY ElementOfSeq
<1>2. t \in [1 .. Len(s) -> S]
  BY <1>1
<1>3. t \in Seq(S) /\ Len(t) = Len(s) /\ DOMAIN t = DOMAIN s
  BY <1>1, <1>2
<1>4. ASSUME NEW i \in DOMAIN s
      PROVE  LET k == Cardinality(UpTo(s, R, i)) IN k \in DOMAIN s /\ t[k] = s[i]
  <2> DEFINE k == Cardinality(UpTo(s, R, i))
  <2>1. k \in DOMAIN s
    BY PlacesAreTaken
  <2>2. PICK m \in DOMAIN s : t[k] = s[m] /\ Cardinality(UpTo(s, R, m)) = k
    BY <2>1
  <2>3. m = i
    BY <2>2, PlacesAreTaken
  <2> QED BY <2>1, <2>2, <2>3
<1>5. ASSUME NEW j \in DOMAIN s, NEW k \in DOMAIN s, j < k, <<t[k], t[j]>> \in R
      PROVE  FALSE
  <2>1. PICK h \in DOMAIN s : t[k] = s[h] /\ Cardinality(UpTo(s, R, h)) = k
    OBVIOUS
  <2>2. PICK i \in DOMAIN s : t[j] = s[i] /\ Cardinality(UpTo(s, R, i)) = j
    OBVIOUS
  <2>3. h # i /\ <<s[h], s[i]>> \in R
    BY <1>1, <1>5, <2>1, <2>2
  <2> DEFINE low == Cardinality(UpTo(s, R, h))  high == Cardinality(UpTo(s, R, i))
  <2>4. low < high
    BY <2>3, UpToGrows
  <2>5. k < j
    <3>1. low = k /\ high = j
      BY <2>1, <2>2
    <3> HIDE DEF low, high
    <3> QED BY <2>4, <3>1
  <2>6. j \in Nat /\ k \in Nat
    <3>1. DOMAIN s \subseteq Nat
      BY <1>1
    <3> QED BY <3>1
  <2> QED BY <1>5, <2>5, <2>6
<1>6. IsReordering(t, s)
  <2> DEFINE D == DOMAIN s
             to == [i \in D |-> Cardinality(UpTo(s, R, i))]
  <2>1. \A i \in D : to[i] \in D /\ t[to[i]] = s[i]
    BY <1>4
  <2>2. \A i, k \in D : to[i] = to[k] => i = k
    BY PlacesAreTaken
  <2>3. \A k \in D : \E i \in D : to[i] = k
    BY PlacesAreTaken
  <2>4. to \in [D -> D]
    BY <2>1
  <2> HIDE DEF to
  <2>5. to \in Bijection(D, D)
    BY <2>2, <2>3, <2>4 DEF Bijection, Injection, IsInjective, Surjection
  <2> QED BY <1>3, <2>1, <2>5 DEF IsReordering
<1>7. \A i \in DOMAIN s : \E k \in DOMAIN s : t[k] = s[i]
  BY <1>4
<1> QED BY <1>3, <1>5, <1>6, <1>7

\* Sorting files gives the same files, in order,
LEMMA SortFilesSorts ==
  ASSUME NEW s \in Seq(Nat)
  PROVE  LET t == StableSort(s, <)
         IN  /\ t \in Seq(Nat) /\ Len(t) = Len(s) /\ DOMAIN t = DOMAIN s
             /\ \A k \in DOMAIN s : \E i \in DOMAIN s : t[k] = s[i]
             /\ \A i \in DOMAIN s : \E k \in DOMAIN s : t[k] = s[i]
             /\ \A j, k \in DOMAIN s : j < k => ~ (t[k] < t[j])
             /\ IsReordering(t, s)
<1> DEFINE R == {p \in Nat \X Nat : p[1] < p[2]}
           place(i) == Cardinality({j \in DOMAIN s : s[j] < s[i]
                                     \/ (j =< i /\ ~ (s[i] < s[j]))})
           t == [k \in DOMAIN s |-> s[CHOOSE i \in DOMAIN s : place(i) = k]]
<1>1. \A i \in DOMAIN s : s[i] \in Nat
  BY ElementOfSeq
<1>2. \A a, b \in Nat : <<a, b>> \in R <=> a < b
  OBVIOUS
<1>3. IsWeakOrder(R, Nat)
  BY <1>2 DEF IsWeakOrder
<1> HIDE DEF R
<1>4. ASSUME NEW i \in DOMAIN s
      PROVE  place(i) = Cardinality(UpTo(s, R, i))
  <2>1. {j \in DOMAIN s : s[j] < s[i] \/ (j =< i /\ ~ (s[i] < s[j]))} = UpTo(s, R, i)
    BY <1>1, <1>2 DEF UpTo
  <2> QED BY <2>1
<1> HIDE DEF place
<1>5. ASSUME NEW k \in DOMAIN s
      PROVE  \E i \in DOMAIN s : t[k] = s[i] /\ Cardinality(UpTo(s, R, i)) = k
  <2>1. \E i \in DOMAIN s : place(i) = k
    BY <1>3, <1>4, PlacesAreTaken
  <2> QED BY <1>4, <2>1
<1>6. t \in [DOMAIN s -> Nat]
  BY <1>1, <1>5
<1>6a. \A k \in DOMAIN s : \E i \in DOMAIN s : t[k] = s[i] /\ Cardinality(UpTo(s, R, i)) = k
  BY <1>5
<1>7. StableSort(s, <) = t
  BY DEF StableSort, place
<1> HIDE DEF t
<1>8. /\ t \in Seq(Nat) /\ Len(t) = Len(s) /\ DOMAIN t = DOMAIN s
      /\ \A k \in DOMAIN s : \E i \in DOMAIN s : t[k] = s[i]
      /\ \A i \in DOMAIN s : \E k \in DOMAIN s : t[k] = s[i]
      /\ \A j, k \in DOMAIN s : j < k => <<t[k], t[j]>> \notin R
      /\ IsReordering(t, s)
  BY <1>3, <1>6, <1>6a, SortedSequence
<1>9. \A k \in DOMAIN s : t[k] \in Nat
  BY <1>6
<1>10. \A j, k \in DOMAIN s : j < k => ~ (t[k] < t[j])
  BY <1>2, <1>8, <1>9
<1> QED BY <1>7, <1>8, <1>10

\* and so does sorting violations.
LEMMA SortViolationsSorts ==
  ASSUME NEW s \in Seq(Violation)
  PROVE  LET t == SortViolations(s)
         IN  /\ t \in Seq(Violation) /\ Len(t) = Len(s) /\ DOMAIN t = DOMAIN s
             /\ \A k \in DOMAIN s : \E i \in DOMAIN s : t[k] = s[i]
             /\ \A i \in DOMAIN s : \E k \in DOMAIN s : t[k] = s[i]
             /\ \A j, k \in DOMAIN s : j < k => ~ Before(t[k], t[j])
             /\ IsReordering(t, s)
<1> DEFINE R == {p \in Violation \X Violation : Before(p[1], p[2])}
           place(i) == Cardinality({j \in DOMAIN s : Before(s[j], s[i])
                                     \/ (j =< i /\ ~ Before(s[i], s[j]))})
           t == [k \in DOMAIN s |-> s[CHOOSE i \in DOMAIN s : place(i) = k]]
<1>1. \A i \in DOMAIN s : s[i] \in Violation
  BY ElementOfSeq
<1>2. \A a, b \in Violation : <<a, b>> \in R <=> Before(a, b)
  OBVIOUS
<1>3. IsWeakOrder(R, Violation)
  <2>1. \A a \in Violation : a.path \in Nat /\ a.line \in Nat /\ a.rule \in Nat
    BY GateAssumption DEF Violation, Entries, Rule
  <2>2. \A a, b \in Violation : Before(a, b) => ~ Before(b, a)
    BY <2>1 DEF Before
  <2>3. \A a, b, c \in Violation : Before(a, c) => Before(a, b) \/ Before(b, c)
    BY <2>1 DEF Before
  <2>4. R \subseteq Violation \X Violation
    OBVIOUS
  <2> HIDE DEF R
  <2> QED BY <1>2, <2>2, <2>3, <2>4 DEF IsWeakOrder
<1> HIDE DEF R
<1>4. ASSUME NEW i \in DOMAIN s
      PROVE  place(i) = Cardinality(UpTo(s, R, i))
  <2>1. {j \in DOMAIN s : Before(s[j], s[i]) \/ (j =< i /\ ~ Before(s[i], s[j]))}
          = UpTo(s, R, i)
    BY <1>1, <1>2 DEF UpTo
  <2> QED BY <2>1
<1> HIDE DEF place
<1>5. ASSUME NEW k \in DOMAIN s
      PROVE  \E i \in DOMAIN s : t[k] = s[i] /\ Cardinality(UpTo(s, R, i)) = k
  <2>1. \E i \in DOMAIN s : place(i) = k
    BY <1>3, <1>4, PlacesAreTaken
  <2> QED BY <1>4, <2>1
<1>6. t \in [DOMAIN s -> Violation]
  BY <1>1, <1>5
<1>6a. \A k \in DOMAIN s : \E i \in DOMAIN s : t[k] = s[i] /\ Cardinality(UpTo(s, R, i)) = k
  BY <1>5
<1>7. SortViolations(s) = t
  BY DEF SortViolations, StableSort, place
<1> HIDE DEF t
<1>8. /\ t \in Seq(Violation) /\ Len(t) = Len(s) /\ DOMAIN t = DOMAIN s
      /\ \A k \in DOMAIN s : \E i \in DOMAIN s : t[k] = s[i]
      /\ \A i \in DOMAIN s : \E k \in DOMAIN s : t[k] = s[i]
      /\ \A j, k \in DOMAIN s : j < k => <<t[k], t[j]>> \notin R
      /\ IsReordering(t, s)
  BY <1>3, <1>6, <1>6a, SortedSequence
<1>9. \A k \in DOMAIN s : t[k] \in Violation
  BY <1>6
<1>10. \A j, k \in DOMAIN s : j < k => ~ Before(t[k], t[j])
  BY <1>2, <1>8, <1>9
<1> QED BY <1>7, <1>8, <1>10

-----------------------------------------------------------------------------
\* Sequences: what Tail and Append leave of the elements.

\* What a sequence loses with its head.
LEMMA TailLosesHead ==
  ASSUME NEW S, NEW s \in Seq(S), s # <<>>
  PROVE  /\ Head(s) \in S /\ Tail(s) \in Seq(S)
         /\ \A i \in DOMAIN s : s[i] = Head(s) \/ \E j \in DOMAIN Tail(s) : Tail(s)[j] = s[i]
         /\ \A j \in DOMAIN Tail(s) : \E i \in DOMAIN s : s[i] = Tail(s)[j]
         /\ \E i \in DOMAIN s : s[i] = Head(s)
<1> DEFINE n == Len(s)
<1>1. /\ n \in Nat /\ n # 0 /\ DOMAIN s = 1 .. n /\ Head(s) = s[1] /\ Head(s) \in S
      /\ Tail(s) \in Seq(S) /\ Len(Tail(s)) = n - 1 /\ DOMAIN Tail(s) = 1 .. n - 1
      /\ \A j \in 1 .. n - 1 : Tail(s)[j] = s[j + 1]
  BY HeadTailProperties, EmptySeq
<1> HIDE DEF n
<1>2. ASSUME NEW i \in DOMAIN s, i # 1
      PROVE  \E j \in DOMAIN Tail(s) : Tail(s)[j] = s[i]
  <2>1. i - 1 \in 1 .. n - 1 /\ (i - 1) + 1 = i
    BY <1>1, <1>2
  <2>2. Tail(s)[i - 1] = s[i]
    BY <1>1, <2>1
  <2> QED BY <1>1, <2>1, <2>2
<1>3. ASSUME NEW j \in DOMAIN Tail(s)
      PROVE  \E i \in DOMAIN s : s[i] = Tail(s)[j]
  <2>1. j + 1 \in DOMAIN s
    BY <1>1
  <2> QED BY <1>1, <2>1
<1>4. 1 \in DOMAIN s
  BY <1>1
<1> QED BY <1>1, <1>2, <1>3, <1>4

-----------------------------------------------------------------------------
\* The directories above an entry.

UpClosed(S) == \A k \in S : Parent[k] # 0 => Parent[k] \in S

\* An entry and the directories above it.
Path(n) == {m \in Entries : \A S \in SUBSET Entries : n \in S /\ UpClosed(S) => m \in S}

\* An entry stands after the directory it is in.
LEMMA ParentIsAbove ==
  ASSUME NEW n \in Entries
  PROVE  n \in Nat /\ Parent[n] \in Nat /\ Parent[n] < n /\ (Parent[n] # 0 => Parent[n] \in Entries)
BY GateAssumption DEF Entries

\* The directories above an entry are on its path,
LEMMA PathIsClosed ==
  ASSUME NEW n \in Entries
  PROVE  n \in Path(n) /\ Path(n) \subseteq Entries /\ UpClosed(Path(n))
BY ParentIsAbove DEF Path, UpClosed

\* and nothing else is.
LEMMA PathIsLeast ==
  ASSUME NEW S \in SUBSET Entries, NEW n \in S, UpClosed(S)
  PROVE  Path(n) \subseteq S
BY DEF Path

\* Every path begins below the workspace root.
LEMMA PathHasRoot ==
  ASSUME NEW n \in Entries
  PROVE  \E m \in Path(n) : Parent[m] = 0
<1> DEFINE R == OpToRel(<, Nat)
<1>1. IsWellFoundedOn(R, Nat)
  BY NatLessThanWellFounded
<1>2. Path(n) \in SUBSET Nat /\ Path(n) # {}
  BY PathIsClosed, ParentIsAbove
<1>3. PICK m \in Path(n) : \A k \in Path(n) : <<k, m>> \notin R
  <2> HIDE DEF R
  <2> QED BY <1>1, <1>2, WFMin
<1>4. \A k \in Path(n) : ~ (k < m)
  BY <1>2, <1>3 DEF OpToRel
<1>5. Parent[m] \notin Path(n)
  BY <1>4, PathIsClosed, ParentIsAbove
<1> QED BY <1>5, PathIsClosed DEF UpClosed

\* A path goes from a directory down through an entry of it.
LEMMA PathGoesDown ==
  ASSUME NEW n \in Entries, NEW d \in Path(n), d # n
  PROVE  \E c \in Children(d) : c \in Path(n)
<1> SUFFICES ASSUME \A c \in Children(d) : c \notin Path(n)
             PROVE  FALSE
  OBVIOUS
<1> DEFINE S == Path(n) \ {d}
<1>1. S \in SUBSET Entries /\ n \in S
  BY PathIsClosed
<1>2. UpClosed(S)
  BY PathIsClosed DEF UpClosed, Children
<1>3. Path(n) \subseteq S
  BY <1>1, <1>2, PathIsLeast
<1> QED BY <1>3

\* There is nothing below what is no directory.
LEMMA AbsentBelow ==
  ASSUME NEW t, IsTree(t), NEW d \in Entries, t[d] \notin Directories,
         NEW n \in Entries, d \in Path(n), n # d
  PROVE  t[n] = "absent"
<1> SUFFICES ASSUME t[n] # "absent"
             PROVE  FALSE
  OBVIOUS
<1> DEFINE S == {m \in Entries : t[m] # "absent" /\ m # d}
<1>1. S \in SUBSET Entries /\ n \in S
  OBVIOUS
<1>2. UpClosed(S)
  BY ParentIsAbove DEF UpClosed, IsTree, Directories
<1>3. Path(n) \subseteq S
  BY <1>1, <1>2, PathIsLeast
<1> QED BY <1>3

-----------------------------------------------------------------------------
\* The inductive invariant.

Call == [directory : Entries, left : SUBSET [entry : Entries, node : Nodes]]

GateTypes ==
  /\ pc \in {"setup", "walk", "scan", "render", "exited"}
  /\ IsTree(tree) /\ prepared \in BOOLEAN
  /\ roots \in Seq(Children(0)) /\ stack \in Seq(Call) /\ files \in Seq(SourceNamed)
  /\ violations \in Seq(Violation)
  /\ outcome \in Outcome /\ previous \in Outcome
  /\ status \in {NoStatus, Success, Failure, Panic}
  /\ seen \in [Entries -> SUBSET Nodes] /\ \A n \in Entries : tree[n] \in seen[n]

\* What is over in each phase, and what has yet to come.
GatePhases ==
  /\ pc # "walk" => roots = <<>> /\ stack = <<>>
  /\ pc \in {"setup", "walk", "scan"} => outcome = NoOutcome
  /\ pc # "exited" => status = NoStatus
  /\ pc = "exited" => status \in {StatusOf(outcome), Panic}

\* Every entry below m was absent at some moment.
Hidden(m, s) == \A n \in Entries : m \in Path(n) /\ n # m => "absent" \in s[n]

\* A directory that is listed could be opened, and what the listing says of an
\* entry was true of it: nothing was below one that it says is no directory.
CallIsTrue(c, s) ==
  /\ "directory" \in s[c.directory] \/ "flawed" \in s[c.directory]
  /\ \A e \in c.left :
       /\ Parent[e.entry] = c.directory
       /\ e.node \in s[e.entry]
       /\ e.node \notin Directories => Hidden(e.entry, s)

WasFile(n, s) == \E node \in s[n] : node \in Files

ListingsAreTrue ==
  /\ \A i \in DOMAIN stack : CallIsTrue(stack[i], seen)
  /\ \A i \in DOMAIN files : WasFile(files[i], seen)

\* The entry was something to be read, or nothing, that has no finding.
WellRead(n) == \E node \in Sound(n) : Due(n, node) = <<>>

\* The walk has yet to come to an entry.
Waits(m, r, k) ==
  \/ \E i \in DOMAIN r : r[i] = m
  \/ \E i \in DOMAIN k : \E e \in k[i].left : e.entry = m

\* An entry is collected, or listed now, or the walk has yet to come to it or to
\* a directory above it.
Reached(n, r, k, f) ==
  \/ \E i \in DOMAIN f : f[i] = n
  \/ \E i \in DOMAIN k : k[i].directory = n
  \/ \E m \in Path(n) : Waits(m, r, k)

NothingIsLost ==
  /\ pc \in {"walk", "scan"} /\ violations = <<>> =>
       \A n \in Entries : WellRead(n) \/ Reached(n, roots, stack, files)
  /\ IsClean(outcome) => \A n \in Entries : WellRead(n)

GateInv == GateTypes /\ GatePhases /\ ListingsAreTrue /\ NothingIsLost /\ ErrorHasCause

\* A root that is about to be opened was a directory when it was looked at.
RootIsTrue ==
  /\ isDir \in BOOLEAN
  /\ isDir => pc = "walk" /\ roots # <<>> /\ \E node \in seen[Head(roots)] : node \in Directories

-----------------------------------------------------------------------------
\* Entries that were well read.

\* The kinds of nodes are apart.
LEMMA NamesOfNodes ==
  /\ "absent" \notin Files /\ "link" \notin Files
  /\ \A d \in Directories : d \notin Files
  /\ "absent" \notin Directories /\ "link" \notin Directories
  /\ Directories \subseteq Nodes /\ Files \subseteq Nodes
BY GateAssumption DEF Files, Directories, Nodes

\* An entry that is neither a directory nor a source file is passed over.
LEMMA PassedIsWellRead ==
  ASSUME NEW n \in Entries, NEW node \in seen[n], node \notin Directories,
         ~ (node \in Files /\ n \in SourceNamed)
  PROVE  WellRead(n)
BY DEF WellRead, Sound, Due, IsFaulty, Directories

\* An entry that was absent when it was looked at was read well enough.
LEMMA AbsentIsWellRead ==
  ASSUME NEW n \in Entries, "absent" \in seen[n]
  PROVE  WellRead(n)
BY PassedIsWellRead, NamesOfNodes

\* A directory that could be opened, and that is not flawed now, could be read.
LEMMA ListedIsWellRead ==
  ASSUME NEW n \in Entries, "directory" \in seen[n] \/ "flawed" \in seen[n],
         tree[n] \in seen[n], tree[n] # "flawed"
  PROVE  WellRead(n)
<1>1. ~ IsFaulty(n, "directory") /\ Due(n, "directory") = <<>>
  BY NamesOfNodes DEF IsFaulty, Due, Directories
<1>2. "directory" \in Sound(n)
  BY <1>1 DEF Sound
<1> QED BY <1>1, <1>2 DEF WellRead

\* What an entry was stays what it was.
LEMMA WellReadStays ==
  ASSUME NEW n \in Entries, seen[n] \subseteq seen'[n], WellRead(n)
  PROVE  WellRead(n)'
BY DEF WellRead, Sound

\* A listing that was true of what was seen stays true when more is seen.
LEMMA CallStaysTrue ==
  ASSUME NEW s, NEW t, \A n \in Entries : s[n] \subseteq t[n],
         NEW c \in Call, CallIsTrue(c, s)
  PROVE  CallIsTrue(c, t)
BY DEF CallIsTrue, Hidden, Call

-----------------------------------------------------------------------------
\* Listings.

\* A directory that is opened leads on to all that is below it.
LEMMA ListingIsTrue ==
  ASSUME GateTypes, NEW d \in Entries, CanOpen(d)
  PROVE  /\ Opened(d) \in Call /\ Opened(d).directory = d /\ CallIsTrue(Opened(d), seen)
         /\ \A n \in Entries : d \in Path(n) /\ n # d =>
              \/ "absent" \in seen[n]
              \/ \E m \in Path(n) : \E e \in Opened(d).left : e.entry = m
<1> DEFINE L == Listing(d)
<1>1. Opened(d).directory = d /\ Opened(d).left = L
  BY DEF Opened
<1>2. \A e \in L : /\ e.entry \in Entries /\ Parent[e.entry] = d /\ e.node = tree[e.entry]
                  /\ e = [entry |-> e.entry, node |-> e.node]
  BY DEF Listing, Children
<1>3. \A n \in Entries : tree[n] \in Nodes /\ tree[n] \in seen[n]
  BY GateAssumption DEF GateTypes, IsTree
<1>4. L \subseteq [entry : Entries, node : Nodes]
  BY <1>2, <1>3
<1>5. Opened(d) \in Call
  BY <1>4 DEF Opened, Call
<1>6. \A m \in Entries : tree[m] \notin Directories => Hidden(m, seen)
  <2> SUFFICES ASSUME NEW m \in Entries, tree[m] \notin Directories,
                      NEW n \in Entries, m \in Path(n), n # m
               PROVE  "absent" \in seen[n]
    BY DEF Hidden
  <2>1. tree[n] = "absent"
    BY AbsentBelow DEF GateTypes
  <2> QED BY <1>3, <2>1
<1>7. CallIsTrue(Opened(d), seen)
  <2>1. "directory" \in seen[d] \/ "flawed" \in seen[d]
    BY <1>3 DEF CanOpen
  <2>2. ASSUME NEW e \in L
        PROVE  /\ Parent[e.entry] = d /\ e.node \in seen[e.entry]
               /\ e.node \notin Directories => Hidden(e.entry, seen)
    BY <1>2, <1>3, <1>6
  <2> HIDE DEF L
  <2> QED BY <1>1, <2>1, <2>2 DEF CallIsTrue
<1>8. ASSUME NEW n \in Entries, d \in Path(n), n # d, "absent" \notin seen[n]
      PROVE  \E m \in Path(n) : \E e \in L : e.entry = m
  <2>1. PICK c \in Children(d) : c \in Path(n)
    BY <1>8, PathGoesDown
  <2>2. c \in Entries
    BY DEF Children
  <2>3. tree[c] # "absent"
    <3> SUFFICES ASSUME tree[c] = "absent"
                 PROVE  FALSE
      OBVIOUS
    <3>1. tree[n] = "absent"
      <4>1. CASE n = c
        BY <4>1
      <4>2. CASE n # c
        BY <2>1, <2>2, <4>2, AbsentBelow, NamesOfNodes DEF GateTypes
      <4> QED BY <4>1, <4>2
    <3> QED BY <1>3, <1>8, <3>1
  <2>4. [entry |-> c, node |-> tree[c]] \in L
    BY <2>1, <2>3 DEF Listing
  <2> QED BY <2>1, <2>4
<1> HIDE DEF L
<1> QED BY <1>1, <1>5, <1>7, <1>8

\* An entry that a call yields is no longer to come; nothing else changes.
LEMMA YieldedIsTrue ==
  ASSUME GateTypes, ListingsAreTrue, NEW e \in Pending
  PROVE  /\ stack # <<>> /\ Yielded(e) \in Seq(Call) /\ DOMAIN Yielded(e) = DOMAIN stack
         /\ e \in [entry : Entries, node : Nodes]
         /\ e.node \in seen[e.entry]
         /\ e.node \notin Directories => Hidden(e.entry, seen)
         /\ \A i \in DOMAIN stack :
              /\ CallIsTrue(Yielded(e)[i], seen)
              /\ Yielded(e)[i].directory = stack[i].directory
              /\ \A x \in stack[i].left : x = e \/ x \in Yielded(e)[i].left
<1> DEFINE top  == Len(stack)
           call == [stack[top] EXCEPT !.left = @ \ {e}]
<1>1. /\ stack \in Seq(Call) /\ stack # <<>> /\ DOMAIN stack = 1 .. top /\ top \in Nat
      /\ e \in stack[top].left
  BY DEF Pending, Last, GateTypes
<1>2. top \in DOMAIN stack
  BY <1>1
<1>3. stack[top] \in Call /\ CallIsTrue(stack[top], seen)
  BY <1>1, <1>2, ElementOfSeq DEF ListingsAreTrue
<1>4. /\ call \in Call /\ call.directory = stack[top].directory
      /\ call.left = stack[top].left \ {e}
  BY <1>3 DEF Call
<1>5. CallIsTrue(call, seen)
  BY <1>3, <1>4 DEF CallIsTrue
<1>6. Yielded(e) = [stack EXCEPT ![top] = call]
  BY DEF Yielded
<1> HIDE DEF top, call
<1>7. Yielded(e) \in Seq(Call) /\ DOMAIN Yielded(e) = DOMAIN stack
  BY <1>1, <1>2, <1>4, <1>6, ExceptSeq
<1>8. /\ Yielded(e)[top] = call
      /\ \A i \in DOMAIN stack : i # top => Yielded(e)[i] = stack[i]
  BY <1>2, <1>6
<1>9. ASSUME NEW i \in DOMAIN stack
      PROVE  /\ CallIsTrue(Yielded(e)[i], seen)
             /\ Yielded(e)[i].directory = stack[i].directory
             /\ \A x \in stack[i].left : x = e \/ x \in Yielded(e)[i].left
  <2>1. CASE i = top
    BY <1>4, <1>5, <1>8, <2>1
  <2>2. CASE i # top
    BY <1>8, <2>2 DEF ListingsAreTrue
  <2> QED BY <2>1, <2>2
<1>10. e \in [entry : Entries, node : Nodes]
  BY <1>1, <1>3 DEF Call
<1>11. e.node \in seen[e.entry] /\ (e.node \notin Directories => Hidden(e.entry, seen))
  BY <1>1, <1>3 DEF CallIsTrue
<1> QED BY <1>1, <1>7, <1>9, <1>10, <1>11

-----------------------------------------------------------------------------
\* The invariant holds at first, and every step keeps it.

\* The kinds of outcomes are apart.
LEMMA NamesOfOutcomes ==
  /\ NoOutcome \in Outcome /\ NoOutcome.kind = "none" /\ ~ IsClean(NoOutcome)
  /\ \A p \in {"setup", "walk", "scan"}, n \in Entries \cup {0} :
       Error(p, n) \in Outcome
  /\ \A p, n : /\ Error(p, n).kind = "error" /\ Error(p, n).phase = p
               /\ Error(p, n).entry = n /\ ~ IsClean(Error(p, n)) /\ Error(p, n) # NoOutcome
  /\ \A v \in Seq(Violation) : Report(v) \in Outcome
  /\ \A v : /\ Report(v).kind = "report" /\ Report(v).violations = v
            /\ IsClean(Report(v)) <=> v = <<>>
<1>1. NoOutcome \in Outcome /\ NoOutcome.kind = "none" /\ ~ IsClean(NoOutcome)
  BY DEF NoOutcome, Outcome, IsClean
<1>2. \A p \in {"setup", "walk", "scan"}, n \in Entries \cup {0} : Error(p, n) \in Outcome
  BY DEF Outcome
<1>3. \A p, n : /\ Error(p, n).kind = "error" /\ Error(p, n).phase = p
                /\ Error(p, n).entry = n
  BY DEF Error
<1>4. \A p, n : ~ IsClean(Error(p, n)) /\ Error(p, n) # NoOutcome
  BY <1>1, <1>3 DEF IsClean
<1>5. \A v \in Seq(Violation) : Report(v) \in Outcome
  BY DEF Report, Outcome
<1>6. \A v : Report(v).kind = "report" /\ Report(v).violations = v
  BY DEF Report
<1>7. \A v : IsClean(Report(v)) <=> v = <<>>
  BY <1>6 DEF IsClean
<1> QED BY <1>1, <1>2, <1>3, <1>4, <1>5, <1>6, <1>7

\* The gate starts in the invariant.
LEMMA GateInvInit == Init => GateInv
<1> SUFFICES ASSUME Init
             PROVE  GateInv
  OBVIOUS
<1>1. /\ \A S : <<>> \in Seq(S)
      /\ DOMAIN stack = {} /\ DOMAIN files = {}
  BY DEF Init
<1>2. IsTree(tree)
  BY DEF Init, Trees
<1>3. seen \in [Entries -> SUBSET Nodes] /\ \A n \in Entries : tree[n] \in seen[n]
  <2>1. \A n \in Entries : tree[n] \in Nodes
    BY <1>2, GateAssumption DEF IsTree
  <2> QED BY <2>1 DEF Init
<1>4. GateTypes
  BY <1>1, <1>2, <1>3, NamesOfOutcomes DEF GateTypes, Init
<1>5. GatePhases
  BY DEF GatePhases, Init
<1>6. ListingsAreTrue
  BY <1>1 DEF ListingsAreTrue
<1>7. NothingIsLost
  BY NamesOfOutcomes DEF NothingIsLost, Init
<1>8. ErrorHasCause
  BY NamesOfOutcomes DEF ErrorHasCause, Init
<1> QED BY <1>4, <1>5, <1>6, <1>7, <1>8 DEF GateInv

\* A run that fails has dropped what it had found, and says why.
LEMMA FailKeeps ==
  ASSUME GateInv, pc # "exited",
         NEW phase \in {"setup", "walk", "scan"}, NEW n \in Entries \cup {0}, Fail(phase, n),
         IF phase = "setup" THEN ~ prepared ELSE n \in Edited \/ IsFaulty(n, tree[n])
  PROVE  GateInv'
<1>1. /\ \A S : <<>> \in Seq(S)
      /\ DOMAIN stack' = {} /\ DOMAIN files' = {}
  BY DEF Fail
<1>2. outcome' = Error(phase, n) /\ pc' = "render"
  BY DEF Fail
<1>3. GateTypes'
  BY <1>1, <1>2, NamesOfOutcomes DEF Fail, GateInv, GateTypes, world
<1>4. GatePhases'
  BY DEF Fail, GateInv, GatePhases
<1>5. ListingsAreTrue'
  BY <1>1 DEF ListingsAreTrue
<1>6. NothingIsLost'
  BY <1>2, NamesOfOutcomes DEF NothingIsLost
<1>7. ErrorHasCause'
  <2>1. Edited' = Edited /\ tree' = tree /\ prepared' = prepared
    BY DEF Fail, world, Edited
  <2> QED BY <1>2, <2>1, NamesOfOutcomes DEF ErrorHasCause
<1> QED BY <1>3, <1>4, <1>5, <1>6, <1>7 DEF GateInv

\* What a step of the walk has to leave as it is.
LEMMA WalkKeeps ==
  ASSUME GateInv, Walk,
         roots' \in Seq(Children(0)), stack' \in Seq(Call), files' \in Seq(SourceNamed),
         \A i \in DOMAIN stack' : CallIsTrue(stack'[i], seen),
         \A i \in DOMAIN files' : WasFile(files'[i], seen),
         \A n \in Entries : Reached(n, roots, stack, files)
                              => WellRead(n) \/ Reached(n, roots', stack', files')
  PROVE  GateInv'
<1>1. seen' = seen /\ tree' = tree /\ outcome' = outcome /\ violations' = violations
      /\ pc' = "walk" /\ pc = "walk" /\ prepared' = prepared /\ status' = status
  BY DEF Walk, world
<1>2. GateTypes'
  BY DEF Walk, world, GateInv, GateTypes
<1>3. GatePhases'
  BY <1>1 DEF GateInv, GatePhases
<1>4. ListingsAreTrue'
  BY <1>1 DEF ListingsAreTrue
<1>5. NothingIsLost'
  <2>1. ASSUME NEW n \in Entries, WellRead(n)
        PROVE  WellRead(n)'
    BY <1>1, <2>1, WellReadStays
  <2>2. ~ IsClean(outcome)'
    BY <1>1, NamesOfOutcomes DEF GateInv, GatePhases
  <2>3. ASSUME violations' = <<>>, NEW n \in Entries
        PROVE  WellRead(n)' \/ Reached(n, roots', stack', files')
    <3>1. WellRead(n) \/ Reached(n, roots, stack, files)
      BY <1>1, <2>3 DEF GateInv, NothingIsLost
    <3> QED BY <2>1, <3>1
  <2> QED BY <2>2, <2>3 DEF NothingIsLost
<1>6. ErrorHasCause'
  BY <1>1 DEF GateInv, ErrorHasCause, Edited
<1> QED BY <1>2, <1>3, <1>4, <1>5, <1>6 DEF GateInv

\* The setup keeps it,
LEMMA SetupKeeps == GateInv /\ (SetupFails \/ SetupPasses) => GateInv'
<1> SUFFICES ASSUME GateInv, SetupFails \/ SetupPasses
             PROVE  GateInv'
  OBVIOUS
<1>1. CASE SetupFails
  BY <1>1, FailKeeps DEF SetupFails
<1>2. CASE SetupPasses
  <2>1. /\ pc = "setup" /\ pc' = "walk" /\ roots' = SourceRoots
        /\ stack' = stack /\ files' = files /\ violations' = violations
        /\ outcome' = outcome /\ status' = status /\ seen' = seen /\ tree' = tree
        /\ prepared' = prepared /\ previous' = previous
    BY <1>2 DEF SetupPasses, world
  <2>2. \A m \in Children(0) : \E i \in DOMAIN SourceRoots : SourceRoots[i] = m
    BY GateAssumption
  <2>3. SourceRoots \in Seq(Children(0))
    <3>1. SourceRoots \in Seq(Entries) /\ \A i \in DOMAIN SourceRoots : SourceRoots[i] \in Children(0)
      BY GateAssumption
    <3>2. SourceRoots \in [1 .. Len(SourceRoots) -> Children(0)] /\ Len(SourceRoots) \in Nat
      BY <3>1
    <3> QED BY <3>2
  <2>4. GateTypes'
    BY <2>1, <2>3 DEF GateInv, GateTypes
  <2>5. GatePhases'
    BY <2>1 DEF GateInv, GatePhases
  <2>6. ListingsAreTrue'
    BY <2>1 DEF GateInv, ListingsAreTrue
  <2>7. NothingIsLost'
    <3>1. ASSUME NEW n \in Entries
          PROVE  Reached(n, roots', stack', files')
      <4>1. PICK m \in Path(n) : Parent[m] = 0
        BY PathHasRoot
      <4>2. m \in Children(0)
        BY <4>1, PathIsClosed DEF Children
      <4> QED BY <2>1, <2>2, <4>2 DEF Reached, Waits
    <3>2. ~ IsClean(outcome)'
      BY <2>1, NamesOfOutcomes DEF GateInv, GatePhases
    <3> QED BY <3>1, <3>2 DEF NothingIsLost
  <2>8. ErrorHasCause'
    BY <2>1 DEF GateInv, ErrorHasCause, Edited
  <2> QED BY <2>4, <2>5, <2>6, <2>7, <2>8 DEF GateInv
<1> QED BY <1>1, <1>2

-----------------------------------------------------------------------------
\* Steps of the walk.

\* a root that is passed,
LEMMA PassRootKeeps == GateInv /\ PassRoot => GateInv'
<1> SUFFICES ASSUME GateInv, PassRoot
             PROVE  GateInv'
  OBVIOUS
<1>1. /\ Walk /\ roots \in Seq(Children(0)) /\ roots # <<>> /\ roots' = Tail(roots)
      /\ stack' = stack /\ files' = files /\ tree[Head(roots)] \notin Directories
  BY DEF PassRoot, AtRoot, GateInv, GateTypes
<1>2. /\ Head(roots) \in Children(0) /\ roots' \in Seq(Children(0))
      /\ \A i \in DOMAIN roots : roots[i] = Head(roots) \/ \E j \in DOMAIN roots' : roots'[j] = roots[i]
  BY <1>1, TailLosesHead
<1> DEFINE r == Head(roots)
<1>3. r \in Entries
  BY <1>2 DEF Children
<1>4. WellRead(r)
  <2>1. tree[r] \in seen[r] /\ r \notin SourceNamed
    BY <1>2, <1>3, GateAssumption DEF GateInv, GateTypes
  <2> QED BY <1>1, <1>3, <2>1, PassedIsWellRead
<1>5. ASSUME NEW n \in Entries, r \in Path(n)
      PROVE  WellRead(n)
  <2>1. CASE n = r
    BY <1>4, <2>1
  <2>2. CASE n # r
    <3>1. tree[n] = "absent"
      BY <1>1, <1>3, <1>5, <2>2, AbsentBelow DEF GateInv, GateTypes
    <3>2. "absent" \in seen[n]
      BY <3>1 DEF GateInv, GateTypes
    <3> QED BY <3>2, AbsentIsWellRead
  <2> QED BY <2>1, <2>2
<1> HIDE DEF r
<1>6. ASSUME NEW n \in Entries, Reached(n, roots, stack, files)
      PROVE  WellRead(n) \/ Reached(n, roots', stack', files')
  <2>1. CASE \E m \in Path(n) : Waits(m, roots, stack)
    <3>1. PICK m \in Path(n) : Waits(m, roots, stack)
      BY <2>1
    <3>2. m = r \/ Waits(m, roots', stack')
      BY <1>1, <1>2, <3>1 DEF Waits, r
    <3> QED BY <1>5, <3>1, <3>2 DEF Reached
  <2> QED BY <1>1, <1>6, <2>1 DEF Reached
<1>7. /\ stack' \in Seq(Call) /\ files' \in Seq(SourceNamed)
      /\ \A i \in DOMAIN stack' : CallIsTrue(stack'[i], seen)
      /\ \A i \in DOMAIN files' : WasFile(files'[i], seen)
  BY <1>1 DEF GateInv, GateTypes, ListingsAreTrue
<1> QED BY <1>1, <1>2, <1>6, <1>7, WalkKeeps

\* a root that is found to be a directory,
LEMMA FindRootKeeps == GateInv /\ FindRoot => GateInv'
<1> SUFFICES ASSUME GateInv, FindRoot
             PROVE  GateInv'
  OBVIOUS
<1>1. Walk /\ roots' = roots /\ stack' = stack /\ files' = files
  BY DEF FindRoot
<1>2. /\ roots' \in Seq(Children(0)) /\ stack' \in Seq(Call) /\ files' \in Seq(SourceNamed)
      /\ \A i \in DOMAIN stack' : CallIsTrue(stack'[i], seen)
      /\ \A i \in DOMAIN files' : WasFile(files'[i], seen)
  BY <1>1 DEF GateInv, GateTypes, ListingsAreTrue
<1>3. \A n \in Entries : Reached(n, roots, stack, files) => Reached(n, roots', stack', files')
  BY <1>1
<1> QED BY <1>1, <1>2, <1>3, WalkKeeps

\* a root that is entered,
LEMMA EnterRootKeeps == GateInv /\ EnterRoot => GateInv'
<1> SUFFICES ASSUME GateInv, EnterRoot
             PROVE  GateInv'
  OBVIOUS
<1> DEFINE r == Head(roots)
<1>1. /\ Walk /\ roots \in Seq(Children(0)) /\ roots # <<>> /\ roots' = Tail(roots)
      /\ stack = <<>> /\ stack' = <<Opened(r)>> /\ files' = files /\ CanOpen(r)
  BY DEF EnterRoot, AtRoot, GateInv, GateTypes
<1>2. /\ r \in Children(0) /\ roots' \in Seq(Children(0))
      /\ \A i \in DOMAIN roots : roots[i] = r \/ \E j \in DOMAIN roots' : roots'[j] = roots[i]
  BY <1>1, TailLosesHead
<1>3. r \in Entries
  BY <1>2 DEF Children
<1>4. /\ Opened(r) \in Call /\ Opened(r).directory = r /\ CallIsTrue(Opened(r), seen)
      /\ \A n \in Entries : r \in Path(n) /\ n # r =>
           \/ "absent" \in seen[n]
           \/ \E m \in Path(n) : \E e \in Opened(r).left : e.entry = m
  BY <1>1, <1>3, ListingIsTrue DEF GateInv
<1>5. stack' \in Seq(Call) /\ DOMAIN stack' = {1} /\ stack'[1] = Opened(r)
  BY <1>1, <1>4
<1> HIDE DEF r
<1>6. ASSUME NEW n \in Entries, Reached(n, roots, stack, files)
      PROVE  WellRead(n) \/ Reached(n, roots', stack', files')
  <2>1. CASE \E m \in Path(n) : Waits(m, roots, stack)
    <3>1. PICK m \in Path(n) : Waits(m, roots, stack)
      BY <2>1
    <3>2. m = r \/ Waits(m, roots', stack')
      BY <1>1, <1>2, <3>1 DEF Waits, r
    <3>3. CASE m = r /\ n = r
      BY <1>4, <1>5, <3>3 DEF Reached
    <3>4. CASE m = r /\ n # r
      <4>1. CASE "absent" \in seen[n]
        BY <4>1, AbsentIsWellRead
      <4>2. CASE \E k \in Path(n) : \E e \in Opened(r).left : e.entry = k
        BY <1>5, <4>2 DEF Reached, Waits
      <4> QED BY <1>4, <3>1, <3>4, <4>1, <4>2
    <3> QED BY <3>1, <3>2, <3>3, <3>4 DEF Reached
  <2> QED BY <1>1, <1>6, <2>1 DEF Reached
<1>7. /\ files' \in Seq(SourceNamed)
      /\ \A i \in DOMAIN stack' : CallIsTrue(stack'[i], seen)
      /\ \A i \in DOMAIN files' : WasFile(files'[i], seen)
  BY <1>1, <1>4, <1>5 DEF GateInv, GateTypes, ListingsAreTrue
<1> QED BY <1>1, <1>2, <1>5, <1>6, <1>7, WalkKeeps

\* An entry that is yielded and what is below it are the only ones that may be lost.
LEMMA YieldedReaches ==
  ASSUME GateInv, NEW e \in Pending, NEW n \in Entries, NEW f, NEW k,
         Reached(n, roots, stack, files), ~ Reached(n, roots, k, f),
         DOMAIN stack \subseteq DOMAIN k,
         \A i \in DOMAIN stack : k[i] = Yielded(e)[i],
         \A i \in DOMAIN files : i \in DOMAIN f /\ f[i] = files[i]
  PROVE  e.entry \in Path(n)
<1>1. \A i \in DOMAIN stack :
        /\ k[i].directory = stack[i].directory
        /\ \A x \in stack[i].left : x = e \/ x \in k[i].left
  BY YieldedIsTrue DEF GateInv
<1>2. PICK m \in Path(n) : Waits(m, roots, stack)
  BY <1>1 DEF Reached
<1>3. ~ Waits(m, roots, k)
  BY <1>2 DEF Reached
<1>4. m = e.entry
  BY <1>1, <1>2, <1>3 DEF Waits
<1> QED BY <1>2, <1>4

\* a directory that is entered,
LEMMA EnterDirectoryKeeps ==
  ASSUME GateInv, NEW e \in Pending, EnterDirectory(e)
  PROVE  GateInv'
<1> DEFINE d == e.entry
           k == Yielded(e)
           top == Len(k)
<1>1. /\ Walk /\ CanOpen(d) /\ stack' = Append(k, Opened(d)) /\ roots' = roots /\ files' = files
  BY DEF EnterDirectory
<1>2. /\ k \in Seq(Call) /\ DOMAIN k = DOMAIN stack /\ d \in Entries
      /\ \A i \in DOMAIN k : CallIsTrue(k[i], seen)
  BY YieldedIsTrue DEF GateInv
<1>3. /\ Opened(d) \in Call /\ Opened(d).directory = d /\ CallIsTrue(Opened(d), seen)
      /\ \A n \in Entries : d \in Path(n) /\ n # d =>
           \/ "absent" \in seen[n]
           \/ \E m \in Path(n) : \E x \in Opened(d).left : x.entry = m
  BY <1>1, <1>2, ListingIsTrue DEF GateInv
<1> HIDE DEF k
<1>4. /\ stack' \in Seq(Call) /\ top \in Nat /\ DOMAIN k = 1 .. top
      /\ DOMAIN stack' = 1 .. top + 1 /\ stack'[top + 1] = Opened(d)
      /\ \A i \in DOMAIN k : stack'[i] = k[i]
  BY <1>1, <1>2, <1>3, AppendProperties
<1> HIDE DEF top, d
<1>5. /\ DOMAIN k \subseteq DOMAIN stack' /\ top + 1 \in DOMAIN stack'
      /\ \A i \in DOMAIN stack' : i \in DOMAIN k \/ i = top + 1
  BY <1>4
<1>6. \A i \in DOMAIN stack' : CallIsTrue(stack'[i], seen)
  BY <1>2, <1>3, <1>4, <1>5
<1>7. ASSUME NEW n \in Entries, Reached(n, roots, stack, files)
      PROVE  WellRead(n) \/ Reached(n, roots', stack', files')
  <2> SUFFICES ASSUME ~ Reached(n, roots', stack', files')
               PROVE  WellRead(n)
    OBVIOUS
  <2>1. ~ Reached(n, roots, stack', files)
    BY <1>1
  <2>2. d \in Path(n)
    BY <1>2, <1>4, <1>5, <1>7, <2>1, YieldedReaches DEF d, k
  <2>3. n # d
    BY <1>3, <1>4, <1>5 DEF Reached
  <2>4. ~ \E m \in Path(n) : \E x \in Opened(d).left : x.entry = m
    BY <1>4, <1>5 DEF Reached, Waits
  <2> QED BY <1>3, <2>2, <2>3, <2>4, AbsentIsWellRead
<1>8. /\ roots' \in Seq(Children(0)) /\ files' \in Seq(SourceNamed)
      /\ \A i \in DOMAIN files' : WasFile(files'[i], seen)
  BY <1>1 DEF GateInv, GateTypes, ListingsAreTrue
<1> QED BY <1>1, <1>4, <1>6, <1>7, <1>8, WalkKeeps

\* a file that is collected,
LEMMA CollectFileKeeps ==
  ASSUME GateInv, NEW e \in Pending, CollectFile(e)
  PROVE  GateInv'
<1> DEFINE k == Yielded(e)
           n0 == Len(files)
<1>1. /\ Walk /\ IsSourceFile(e) /\ stack' = k /\ roots' = roots
      /\ files' = Append(files, e.entry)
  BY DEF CollectFile
<1>2. /\ k \in Seq(Call) /\ DOMAIN k = DOMAIN stack /\ e.entry \in Entries
      /\ \A i \in DOMAIN k : CallIsTrue(k[i], seen)
      /\ e.node \in seen[e.entry] /\ (e.node \notin Directories => Hidden(e.entry, seen))
  BY YieldedIsTrue DEF GateInv
<1>3. e.node \in Files /\ e.entry \in SourceNamed /\ e.node \notin Directories
  BY <1>1, NamesOfNodes DEF IsSourceFile
<1>4. files \in Seq(SourceNamed)
  BY DEF GateInv, GateTypes
<1>5. /\ files' \in Seq(SourceNamed) /\ n0 \in Nat /\ DOMAIN files = 1 .. n0
      /\ DOMAIN files' = 1 .. n0 + 1 /\ files'[n0 + 1] = e.entry
      /\ \A i \in DOMAIN files : files'[i] = files[i]
  BY <1>1, <1>3, <1>4, AppendProperties
<1> HIDE DEF k, n0
<1>6. /\ DOMAIN files \subseteq DOMAIN files' /\ n0 + 1 \in DOMAIN files'
      /\ \A i \in DOMAIN files' : i \in DOMAIN files \/ i = n0 + 1
  BY <1>5
<1>7. \A i \in DOMAIN files' : WasFile(files'[i], seen)
  <2>1. WasFile(e.entry, seen)
    BY <1>2, <1>3 DEF WasFile
  <2> QED BY <1>5, <1>6, <2>1 DEF GateInv, ListingsAreTrue
<1>8. ASSUME NEW n \in Entries, Reached(n, roots, stack, files)
      PROVE  WellRead(n) \/ Reached(n, roots', stack', files')
  <2> SUFFICES ASSUME ~ Reached(n, roots', stack', files')
               PROVE  WellRead(n)
    OBVIOUS
  <2>1. ~ Reached(n, roots, k, files')
    BY <1>1
  <2>2. e.entry \in Path(n)
    BY <1>2, <1>5, <1>6, <1>8, <2>1, YieldedReaches DEF k
  <2>3. n # e.entry
    BY <1>5, <1>6 DEF Reached
  <2>4. "absent" \in seen[n]
    BY <1>2, <1>3, <2>2, <2>3 DEF Hidden
  <2> QED BY <2>4, AbsentIsWellRead
<1>9. roots' \in Seq(Children(0))
  BY <1>1 DEF GateInv, GateTypes
<1> QED BY <1>1, <1>2, <1>5, <1>7, <1>8, <1>9, WalkKeeps

\* an entry that is passed,
LEMMA PassEntryKeeps ==
  ASSUME GateInv, NEW e \in Pending, PassEntry(e)
  PROVE  GateInv'
<1> DEFINE k == Yielded(e)
<1>1. /\ Walk /\ e.node \notin Directories /\ ~ (e.node \in Files /\ e.entry \in SourceNamed)
      /\ stack' = k /\ roots' = roots /\ files' = files
  BY DEF PassEntry, IsDirectory, IsSourceFile
<1>2. /\ k \in Seq(Call) /\ DOMAIN k = DOMAIN stack /\ e.entry \in Entries
      /\ \A i \in DOMAIN k : CallIsTrue(k[i], seen)
      /\ e.node \in seen[e.entry] /\ Hidden(e.entry, seen)
  BY <1>1, YieldedIsTrue DEF GateInv
<1> HIDE DEF k
<1>3. ASSUME NEW n \in Entries, Reached(n, roots, stack, files)
      PROVE  WellRead(n) \/ Reached(n, roots', stack', files')
  <2> SUFFICES ASSUME ~ Reached(n, roots', stack', files')
               PROVE  WellRead(n)
    OBVIOUS
  <2>1. ~ Reached(n, roots, k, files)
    BY <1>1
  <2>2. e.entry \in Path(n)
    BY <1>2, <1>3, <2>1, YieldedReaches DEF k
  <2>3. CASE n = e.entry
    BY <1>1, <1>2, <2>3, PassedIsWellRead
  <2>4. CASE n # e.entry
    BY <1>2, <2>2, <2>4, AbsentIsWellRead DEF Hidden
  <2> QED BY <2>3, <2>4
<1>4. /\ roots' \in Seq(Children(0)) /\ files' \in Seq(SourceNamed)
      /\ \A i \in DOMAIN files' : WasFile(files'[i], seen)
  BY <1>1 DEF GateInv, GateTypes, ListingsAreTrue
<1> QED BY <1>1, <1>2, <1>3, <1>4, WalkKeeps

\* the end of a directory,
LEMMA LeaveDirectoryKeeps == GateInv /\ LeaveDirectory => GateInv'
<1> SUFFICES ASSUME GateInv, LeaveDirectory
             PROVE  GateInv'
  OBVIOUS
<1> DEFINE top == Len(stack)
           d == stack[top].directory
<1>1. /\ Walk /\ stack \in Seq(Call) /\ stack # <<>> /\ stack' = SubSeq(stack, 1, top - 1)
      /\ roots' = roots /\ files' = files
      /\ stack[top].left = {} /\ tree[d] # "flawed"
  BY DEF LeaveDirectory, Pending, IsFlawed, Last, Front, GateInv, GateTypes
<1>2. top \in Nat /\ top # 0 /\ DOMAIN stack = 1 .. top /\ top \in DOMAIN stack
  BY <1>1, EmptySeq
<1> HIDE DEF top
<1>3. /\ stack' \in Seq(Call) /\ DOMAIN stack' = 1 .. top - 1
      /\ \A i \in 1 .. top - 1 : stack'[i] = stack[i]
  <2>1. 1 .. top - 1 \subseteq DOMAIN stack
    BY <1>2
  <2>2. SubSeq(stack, 1, top - 1) = [i \in 1 .. top - 1 |-> stack[i]]
    BY <1>1, <1>2
  <2>3. \A i \in 1 .. top - 1 : stack[i] \in Call
    BY <1>1, <2>1, ElementOfSeq
  <2> QED BY <1>1, <1>2, <2>2, <2>3
<1>4. DOMAIN stack' \subseteq DOMAIN stack /\ \A i \in DOMAIN stack : i \in DOMAIN stack' \/ i = top
  BY <1>2, <1>3
<1>5. \A i \in DOMAIN stack' : CallIsTrue(stack'[i], seen)
  BY <1>3, <1>4 DEF GateInv, ListingsAreTrue
<1>6. WellRead(d)
  <2>1. stack[top] \in Call /\ CallIsTrue(stack[top], seen)
    BY <1>1, <1>2, ElementOfSeq DEF GateInv, ListingsAreTrue
  <2>2. d \in Entries
    BY <2>1 DEF Call
  <2> QED BY <1>1, <2>1, <2>2, ListedIsWellRead DEF CallIsTrue, GateInv, GateTypes
<1> HIDE DEF d
<1>7. ASSUME NEW n \in Entries, Reached(n, roots, stack, files)
      PROVE  WellRead(n) \/ Reached(n, roots', stack', files')
  <2>1. \A m : Waits(m, roots, stack) => Waits(m, roots', stack')
    BY <1>1, <1>3, <1>4 DEF Waits
  <2>2. CASE \E i \in DOMAIN stack : stack[i].directory = n
    <3>1. PICK i \in DOMAIN stack : stack[i].directory = n
      BY <2>2
    <3>2. CASE i = top
      BY <1>6, <3>1, <3>2 DEF d
    <3>3. CASE i # top
      BY <1>3, <1>4, <3>1, <3>3 DEF Reached
    <3> QED BY <3>2, <3>3
  <2> QED BY <1>1, <1>7, <2>1, <2>2 DEF Reached
<1>8. /\ roots' \in Seq(Children(0)) /\ files' \in Seq(SourceNamed)
      /\ \A i \in DOMAIN files' : WasFile(files'[i], seen)
  BY <1>1 DEF GateInv, GateTypes, ListingsAreTrue
<1> QED BY <1>1, <1>3, <1>5, <1>7, <1>8, WalkKeeps

\* The ways in which the walk fails: a root that was found to be a directory, or an
\* entry that the listing said is one, was one, so that if it cannot be opened it is
\* sealed now, or was edited.
LEMMA WalkFailureKeeps ==
  ASSUME GateInv, RootIsTrue, RootFails \/ EntryFails \/ (\E e \in Pending : EnterFails(e))
  PROVE  GateInv'
<1>1. CASE RootFails
  <2> DEFINE r == Head(roots)
  <2>1. /\ pc = "walk" /\ Fail("walk", r) /\ ~ CanOpen(r)
        /\ roots \in Seq(Children(0)) /\ roots # <<>>
    BY <1>1 DEF RootFails, AtRoot, GateInv, GateTypes
  <2>2. r \in Entries
    BY <2>1, TailLosesHead DEF Children
  <2>3. PICK node \in seen[r] : node \in Directories
    BY <1>1 DEF RootFails, RootIsTrue
  <2>4. r \in Edited \/ IsFaulty(r, tree[r])
    BY <2>1, <2>2, <2>3 DEF Edited, IsFaulty, CanOpen, Directories
  <2> HIDE DEF r
  <2> QED BY <2>1, <2>2, <2>4, FailKeeps
<1>2. CASE EntryFails
  <2> DEFINE d == stack[Len(stack)].directory
  <2>1. /\ pc = "walk" /\ Fail("walk", d) /\ tree[d] = "flawed"
        /\ stack \in Seq(Call) /\ stack # <<>>
    BY <1>2 DEF EntryFails, IsFlawed, Last, GateInv, GateTypes
  <2>2. d \in Entries
    <3>1. Len(stack) \in DOMAIN stack
      BY <2>1, EmptySeq
    <3>2. stack[Len(stack)] \in Call
      BY <2>1, <3>1, ElementOfSeq
    <3> QED BY <3>2 DEF Call
  <2>3. IsFaulty(d, tree[d])
    BY <2>1 DEF IsFaulty
  <2> HIDE DEF d
  <2> QED BY <2>1, <2>2, <2>3, FailKeeps
<1>3. ASSUME NEW e \in Pending, EnterFails(e)
      PROVE  GateInv'
  <2> DEFINE d == e.entry
  <2>1. pc = "walk" /\ Fail("walk", d) /\ e.node \in Directories /\ ~ CanOpen(d)
    BY <1>3 DEF EnterFails, IsDirectory
  <2>2. d \in Entries /\ e.node \in seen[d]
    BY YieldedIsTrue DEF GateInv
  <2>3. d \in Edited \/ IsFaulty(d, tree[d])
    <3> SUFFICES ASSUME d \notin Edited
                 PROVE  IsFaulty(d, tree[d])
      OBVIOUS
    <3>1. e.node = tree[d]
      BY <2>2 DEF Edited
    <3> QED BY <2>1, <3>1 DEF IsFaulty, CanOpen, Directories
  <2> HIDE DEF d
  <2> QED BY <2>1, <2>2, <2>3, FailKeeps
<1> QED BY <1>1, <1>2, <1>3

\* and the sorting of what was collected.
LEMMA SortFilesKeeps == GateInv /\ SortFiles => GateInv'
<1> SUFFICES ASSUME GateInv, SortFiles
             PROVE  GateInv'
  OBVIOUS
<1>1. /\ pc = "walk" /\ pc' = "scan" /\ files' = StableSort(files, <)
      /\ stack = <<>> /\ roots = <<>> /\ stack' = stack /\ roots' = roots
      /\ violations' = violations /\ outcome' = outcome /\ status' = status
      /\ tree' = tree /\ seen' = seen /\ prepared' = prepared /\ previous' = previous
  BY DEF SortFiles, walking, world
<1>2. files \in Seq(SourceNamed) /\ files \in Seq(Nat)
  <2>1. SourceNamed \subseteq Nat
    BY GateAssumption DEF Entries
  <2> QED BY <2>1, SeqMonotonic DEF GateInv, GateTypes
<1>3. /\ files' \in Seq(Nat) /\ DOMAIN files' = DOMAIN files
      /\ \A k \in DOMAIN files : \E i \in DOMAIN files : files'[k] = files[i]
      /\ \A i \in DOMAIN files : \E k \in DOMAIN files : files'[k] = files[i]
  BY <1>1, <1>2, SortFilesSorts
<1>4. files' \in Seq(SourceNamed)
  <2>1. \A k \in DOMAIN files' : files'[k] \in SourceNamed
    BY <1>2, <1>3, ElementOfSeq
  <2>2. files' \in [1 .. Len(files') -> SourceNamed] /\ Len(files') \in Nat
    BY <1>3, <2>1
  <2> QED BY <2>2
<1>5. GateTypes'
  BY <1>1, <1>4 DEF GateInv, GateTypes
<1>6. GatePhases'
  BY <1>1 DEF GateInv, GatePhases
<1>7. ListingsAreTrue'
  BY <1>1, <1>3 DEF GateInv, ListingsAreTrue
<1>8. NothingIsLost'
  <2>1. ~ IsClean(outcome)'
    BY <1>1, NamesOfOutcomes DEF GateInv, GatePhases
  <2>2. ASSUME NEW n \in Entries, Reached(n, roots, stack, files)
        PROVE  Reached(n, roots', stack', files')
    <3>1. CASE \E i \in DOMAIN files : files[i] = n
      BY <1>3, <3>1 DEF Reached
    <3>2. CASE \A i \in DOMAIN files : files[i] # n
      <4>1. \/ \E i \in DOMAIN stack : stack[i].directory = n
            \/ \E m \in Path(n) : Waits(m, roots, stack)
        BY <2>2, <3>2 DEF Reached
      <4>2. stack' = stack /\ roots' = roots
        BY <1>1
      <4> QED BY ONLY <4>1, <4>2 DEF Reached
    <3> QED BY <3>1, <3>2
  <2>3. ASSUME NEW n \in Entries, WellRead(n)
        PROVE  WellRead(n)'
    BY <1>1, <2>3, WellReadStays
  <2> QED BY <1>1, <2>1, <2>2, <2>3 DEF GateInv, NothingIsLost
<1>9. ErrorHasCause'
  BY <1>1 DEF GateInv, ErrorHasCause, Edited
<1> QED BY <1>5, <1>6, <1>7, <1>8, <1>9 DEF GateInv

-----------------------------------------------------------------------------
\* Steps of the scan and of the report.

\* What a file is measured as is violations, and all are about that file.
LEMMA MeasureType ==
  ASSUME NEW n \in SourceNamed, NEW content, IsReadable(n, content)
  PROVE  /\ Measure(n, content) \in Seq(Violation)
         /\ \A i \in DOMAIN Measure(n, content) : Measure(n, content)[i].path = n
<1> DEFINE s == CheckFileLength(n, content)
           t == Analyze(n, content)
           V == {v \in Violation : v.path = n}
<1>1. s \in Seq(V)
  <2>1. [path |-> n, line |-> 1, rule |-> 1] \in V
    BY DEF Violation, Rule
  <2> HIDE DEF V
  <2> QED BY <2>1 DEF CheckFileLength
<1>2. t \in Seq(V)
  <2>1. CASE n \in RustNamed
    <3> DEFINE found == Analysis[content]
    <3>1. found \in Seq([line : Nat, rule : Rule])
      BY <2>1, GateAssumption DEF IsReadable, Contents
    <3> HIDE DEF found
    <3>2. \A i \in DOMAIN found : found[i] \in [line : Nat, rule : Rule]
      <4>1. Len(found) \in Nat /\ DOMAIN found = 1 .. Len(found)
        BY <3>1
      <4> QED BY <3>1, <4>1, ElementOfSeq
    <3> USE DEF found
    <3>3. \A i \in DOMAIN Analysis[content] :
            [path |-> n, line |-> Analysis[content][i].line, rule |-> Analysis[content][i].rule] \in V
      BY <3>2 DEF Violation
    <3>4. t \in [1 .. Len(Analysis[content]) -> V]
      BY <2>1, <3>1, <3>3 DEF Analyze
    <3>5. Len(Analysis[content]) \in Nat
      BY <3>1
    <3> QED BY <3>4, <3>5
  <2>2. CASE n \notin RustNamed
    BY <2>2 DEF Analyze
  <2> QED BY <2>1, <2>2
<1> HIDE DEF s, t, V
<1>3. s \o t \in Seq(V)
  BY <1>1, <1>2, ConcatProperties
<1>3a. s \o t \in Seq(Violation)
  <2>1. V \subseteq Violation
    BY DEF V
  <2> QED BY <1>3, <2>1, SeqMonotonic
<1>4. \A i \in DOMAIN (s \o t) : (s \o t)[i] \in V
  BY <1>3, ElementOfSeq
<1>5. Measure(n, content) = s \o t
  BY DEF Measure, s, t
<1> QED BY <1>3a, <1>4, <1>5 DEF V

\* A file that was read without a finding was well read.
LEMMA MeasuredIsWellRead ==
  ASSUME GateTypes, NEW n \in SourceNamed, IsReadable(n, tree[n]), Measure(n, tree[n]) = <<>>
  PROVE  WellRead(n)
<1>1. n \in Entries /\ tree[n] \in seen[n]
  BY GateAssumption DEF GateTypes
<1>2. tree[n] \in Files /\ tree[n] \notin Directories
  BY GateAssumption DEF IsReadable, Files
<1>3. ~ IsFaulty(n, tree[n]) /\ Due(n, tree[n]) = <<>>
  BY <1>2 DEF IsFaulty, Due, Directories
<1> QED BY <1>1, <1>3 DEF WellRead, Sound

\* Reading a file keeps the invariant, or failing to,
LEMMA ReadKeeps == GateInv /\ (ReadFile \/ ReadFails) => GateInv'
<1> SUFFICES ASSUME GateInv, ReadFile \/ ReadFails
             PROVE  GateInv'
  OBVIOUS
<1> DEFINE n == Head(files)
           found == Measure(n, tree[n])
<1>1. pc = "scan" /\ files # <<>> /\ files \in Seq(SourceNamed)
  BY DEF ReadFile, ReadFails, GateInv, GateTypes
<1>2. /\ n \in SourceNamed /\ n \in Entries /\ Tail(files) \in Seq(SourceNamed)
      /\ \A i \in DOMAIN files : files[i] = n \/ \E j \in DOMAIN Tail(files) : Tail(files)[j] = files[i]
      /\ \A j \in DOMAIN Tail(files) : \E i \in DOMAIN files : files[i] = Tail(files)[j]
      /\ \E i \in DOMAIN files : files[i] = n
  BY <1>1, TailLosesHead, GateAssumption
<1>3. CASE ReadFails
  <2>1. Fail("scan", n) /\ ~ IsReadable(n, tree[n])
    BY <1>3 DEF ReadFails
  <2>2. n \in Edited \/ IsFaulty(n, tree[n])
    <3> SUFFICES ASSUME n \notin Edited
                 PROVE  IsFaulty(n, tree[n])
      OBVIOUS
    <3>1. PICK node \in seen[n] : node \in Files
      BY <1>2 DEF GateInv, ListingsAreTrue, WasFile
    <3>2. node = tree[n]
      BY <1>2, <3>1 DEF Edited
    <3> QED BY <1>2, <2>1, <3>1, <3>2 DEF IsFaulty
  <2> HIDE DEF n
  <2> QED BY <1>1, <1>2, <2>1, <2>2, FailKeeps
<1>4. CASE ReadFile
  <2>1. /\ IsReadable(n, tree[n]) /\ violations' = violations \o found /\ files' = Tail(files)
        /\ pc' = pc /\ stack' = stack /\ roots' = roots /\ outcome' = outcome
        /\ status' = status /\ tree' = tree /\ seen' = seen /\ prepared' = prepared
        /\ previous' = previous
    BY <1>4 DEF ReadFile, walking, world
  <2>2. found \in Seq(Violation) /\ violations \in Seq(Violation)
    BY <1>2, <2>1, MeasureType DEF GateInv, GateTypes
  <2> HIDE DEF n, found
  <2>3. /\ violations' \in Seq(Violation)
        /\ violations' = <<>> => violations = <<>> /\ found = <<>>
    <3>1. /\ violations' \in Seq(Violation) /\ Len(violations') = Len(violations) + Len(found)
          /\ Len(violations) \in Nat /\ Len(found) \in Nat
      BY <2>1, <2>2, ConcatProperties
    <3>2. violations' = <<>> => Len(violations') = 0
      BY <3>1, EmptySeq
    <3>3. violations' = <<>> => Len(violations) = 0 /\ Len(found) = 0
      BY <3>1, <3>2
    <3> QED BY <2>2, <3>1, <3>3, EmptySeq
  <2>4. GateTypes'
    BY <1>2, <2>1, <2>3 DEF GateInv, GateTypes
  <2>5. GatePhases'
    BY <2>1 DEF GateInv, GatePhases
  <2>6. ListingsAreTrue'
    BY <1>2, <2>1 DEF GateInv, ListingsAreTrue
  <2>7. NothingIsLost'
    <3>1. ~ IsClean(outcome)'
      BY <1>1, <2>1, NamesOfOutcomes DEF GateInv, GatePhases
    <3>2. ASSUME violations' = <<>>, NEW m \in Entries
          PROVE  WellRead(m)' \/ Reached(m, roots', stack', files')
      <4>1. WellRead(n)
        BY <1>2, <2>1, <2>3, <3>2, MeasuredIsWellRead DEF GateInv, found
      <4>2. WellRead(m) \/ Reached(m, roots, stack, files)
        BY <1>1, <2>3, <3>2 DEF GateInv, NothingIsLost
      <4>3. CASE m = n \/ WellRead(m)
        BY <2>1, <4>1, <4>3, WellReadStays
      <4>4. CASE m # n /\ Reached(m, roots, stack, files)
        BY <1>2, <2>1, <4>4 DEF Reached
      <4> QED BY <4>2, <4>3, <4>4
    <3> QED BY <3>1, <3>2 DEF NothingIsLost
  <2>8. ErrorHasCause'
    BY <2>1 DEF GateInv, ErrorHasCause, Edited
  <2> QED BY <2>4, <2>5, <2>6, <2>7, <2>8 DEF GateInv
<1> QED BY <1>3, <1>4

\* the end of the scan,
LEMMA FinishScanKeeps == GateInv /\ FinishScan => GateInv'
<1> SUFFICES ASSUME GateInv, FinishScan
             PROVE  GateInv'
  OBVIOUS
<1> DEFINE sorted == SortViolations(violations)
<1>1. /\ pc = "scan" /\ files = <<>> /\ outcome' = Report(sorted) /\ violations' = <<>>
      /\ pc' = "render" /\ files' = files /\ stack' = stack /\ roots' = roots
      /\ status' = status /\ tree' = tree /\ seen' = seen /\ prepared' = prepared
      /\ previous' = previous
  BY DEF FinishScan, walking, world
<1>2. sorted \in Seq(Violation) /\ Len(sorted) = Len(violations) /\ violations \in Seq(Violation)
  BY SortViolationsSorts DEF GateInv, GateTypes
<1>3. sorted = <<>> => violations = <<>>
  <2> HIDE DEF sorted
  <2> QED BY <1>2, EmptySeq
<1> HIDE DEF sorted
<1>4. stack = <<>> /\ roots = <<>>
  BY <1>1 DEF GateInv, GatePhases
<1>5. GateTypes'
  BY <1>1, <1>2, NamesOfOutcomes DEF GateInv, GateTypes
<1>6. GatePhases'
  BY <1>1, <1>4 DEF GateInv, GatePhases
<1>7. ListingsAreTrue'
  BY <1>1 DEF GateInv, ListingsAreTrue
<1>8. NothingIsLost'
  <2>1. ASSUME IsClean(outcome'), NEW n \in Entries
        PROVE  WellRead(n)'
    <3>1. violations = <<>>
      BY <1>1, <1>3, <2>1, NamesOfOutcomes
    <3>2. ~ Reached(n, roots, stack, files)
      BY <1>1, <1>4 DEF Reached, Waits
    <3>3. WellRead(n)
      BY <1>1, <3>1, <3>2 DEF GateInv, NothingIsLost
    <3> QED BY <1>1, <3>3, WellReadStays
  <2> QED BY <1>1, <2>1 DEF NothingIsLost
<1>9. ErrorHasCause'
  BY <1>1, NamesOfOutcomes DEF ErrorHasCause
<1> QED BY <1>5, <1>6, <1>7, <1>8, <1>9 DEF GateInv

\* the report,
LEMMA RenderKeeps == GateInv /\ Render => GateInv'
<1> SUFFICES ASSUME GateInv, Render
             PROVE  GateInv'
  OBVIOUS
<1>1. /\ pc = "render" /\ pc' = "exited" /\ status' \in {StatusOf(outcome), Panic}
      /\ files' = files /\ stack' = stack /\ roots' = roots /\ violations' = violations
      /\ outcome' = outcome /\ tree' = tree /\ seen' = seen /\ prepared' = prepared
      /\ previous' = previous
  BY DEF Render, walking, world
<1>2. GateTypes'
  BY <1>1 DEF GateInv, GateTypes, StatusOf
<1>3. GatePhases'
  BY <1>1 DEF GateInv, GatePhases, StatusOf, IsClean
<1>4. ListingsAreTrue'
  BY <1>1 DEF GateInv, ListingsAreTrue
<1>5. NothingIsLost'
  <2>1. ASSUME NEW n \in Entries, WellRead(n)
        PROVE  WellRead(n)'
    BY <1>1, <2>1, WellReadStays
  <2> QED BY <1>1, <2>1 DEF GateInv, NothingIsLost, IsClean
<1>6. ErrorHasCause'
  BY <1>1 DEF GateInv, ErrorHasCause, Edited
<1> QED BY <1>2, <1>3, <1>4, <1>5, <1>6 DEF GateInv

-----------------------------------------------------------------------------
\* What others do: edit the tree, and check it a second time.

\* and a second run.
LEMMA CheckAgainKeeps == GateInv /\ CheckAgain => GateInv'
<1> SUFFICES ASSUME GateInv, CheckAgain
             PROVE  GateInv'
  OBVIOUS
<1>1. /\ pc = "exited" /\ pc' = "setup" /\ previous' = outcome /\ outcome' = NoOutcome
      /\ status' = NoStatus /\ files' = files /\ stack' = stack /\ roots' = roots
      /\ violations' = violations /\ tree' = tree /\ seen' = seen /\ prepared' = prepared
  BY DEF CheckAgain, walking
<1>2. GateTypes'
  BY <1>1, NamesOfOutcomes DEF GateInv, GateTypes
<1>3. GatePhases'
  BY <1>1 DEF GateInv, GatePhases
<1>4. ListingsAreTrue'
  BY <1>1 DEF GateInv, ListingsAreTrue
<1>5. NothingIsLost'
  BY <1>1, NamesOfOutcomes DEF NothingIsLost
<1>6. ErrorHasCause'
  BY <1>1, NamesOfOutcomes DEF ErrorHasCause
<1> QED BY <1>2, <1>3, <1>4, <1>5, <1>6 DEF GateInv

\* An edit adds to what an entry was and takes nothing from it.
LEMMA EditKeeps ==
  ASSUME GateInv, NEW n \in Entries, NEW node \in Possible[n], Edit(n, node)
  PROVE  GateInv'
<1>1. /\ pc \notin {"render", "exited"} /\ tree' = [tree EXCEPT ![n] = node] /\ IsTree(tree')
      /\ seen' = [seen EXCEPT ![n] = @ \cup {node}]
      /\ pc' = pc /\ files' = files /\ stack' = stack /\ roots' = roots
      /\ violations' = violations /\ outcome' = outcome /\ status' = status
      /\ prepared' = prepared /\ previous' = previous
  BY DEF Edit, process, walking
<1>2. DOMAIN tree = Entries /\ seen \in [Entries -> SUBSET Nodes] /\ node \in Nodes
  BY GateAssumption DEF GateInv, GateTypes, IsTree
<1>3. /\ seen' \in [Entries -> SUBSET Nodes]
      /\ \A m \in Entries : seen[m] \subseteq seen'[m] /\ tree'[m] \in seen'[m]
  BY <1>1, <1>2 DEF GateInv, GateTypes
<1>4. GateTypes'
  BY <1>1, <1>3 DEF GateInv, GateTypes
<1>5. GatePhases'
  BY <1>1 DEF GateInv, GatePhases
<1>6. ListingsAreTrue'
  <2>1. ASSUME NEW i \in DOMAIN stack
        PROVE  CallIsTrue(stack[i], seen')
    <3>1. stack[i] \in Call
      BY ElementOfSeq DEF GateInv, GateTypes
    <3> QED BY <1>3, <3>1, CallStaysTrue DEF GateInv, ListingsAreTrue
  <2>2. ASSUME NEW i \in DOMAIN files
        PROVE  WasFile(files[i], seen')
    <3>1. files[i] \in Entries
      BY ElementOfSeq, GateAssumption DEF GateInv, GateTypes
    <3> QED BY <1>3, <3>1 DEF GateInv, ListingsAreTrue, WasFile
  <2> QED BY <1>1, <2>1, <2>2 DEF ListingsAreTrue
<1>7. NothingIsLost'
  <2>1. ASSUME NEW m \in Entries, WellRead(m)
        PROVE  WellRead(m)'
    BY <1>3, <2>1, WellReadStays
  <2>2. outcome' = NoOutcome
    BY <1>1 DEF GateInv, GatePhases, GateTypes
  <2> QED BY <1>1, <2>1, <2>2, NamesOfOutcomes DEF GateInv, NothingIsLost
<1>8. ErrorHasCause'
  <2>1. outcome' = NoOutcome
    BY <1>1 DEF GateInv, GatePhases, GateTypes
  <2> QED BY <2>1, NamesOfOutcomes DEF ErrorHasCause
<1> QED BY <1>4, <1>5, <1>6, <1>7, <1>8 DEF GateInv

\* So every step keeps it,
LEMMA GateInvStep == GateInv /\ RootIsTrue /\ [Next]_vars => GateInv'
<1> SUFFICES ASSUME GateInv, RootIsTrue, [Next]_vars
             PROVE  GateInv'
  OBVIOUS
<1>1. CASE SetupFails \/ SetupPasses
  BY <1>1, SetupKeeps
<1>2. CASE Walker
  <2>1. ASSUME NEW e \in Pending, EnterDirectory(e) \/ CollectFile(e) \/ PassEntry(e)
        PROVE  GateInv'
    BY <2>1, EnterDirectoryKeeps, CollectFileKeeps, PassEntryKeeps
  <2> QED BY <1>2, <2>1, PassRootKeeps, FindRootKeeps, EnterRootKeeps, LeaveDirectoryKeeps,
             SortFilesKeeps, WalkFailureKeeps DEF Walker
<1>3. CASE ReadFile \/ ReadFails
  BY <1>3, ReadKeeps
<1>4. CASE FinishScan \/ Render
  BY <1>4, FinishScanKeeps, RenderKeeps
<1>5. CASE CheckAgain
  BY <1>5, CheckAgainKeeps
<1>6. ASSUME NEW n \in Entries, NEW node \in Possible[n], Edit(n, node)
      PROVE  GateInv'
  BY <1>6, EditKeeps
<1>7. CASE UNCHANGED vars
  <2>1. /\ pc' = pc /\ files' = files /\ stack' = stack /\ roots' = roots
        /\ violations' = violations /\ outcome' = outcome /\ status' = status
        /\ tree' = tree /\ seen' = seen /\ prepared' = prepared /\ previous' = previous
    BY <1>7 DEF vars, process, walking, world
  <2>2. GateTypes' /\ GatePhases'
    BY <2>1 DEF GateInv, GateTypes, GatePhases
  <2>3. ListingsAreTrue' /\ ErrorHasCause'
    BY <2>1 DEF GateInv, ListingsAreTrue, ErrorHasCause, Edited
  <2>4. ASSUME NEW m \in Entries, WellRead(m)
        PROVE  WellRead(m)'
    BY <2>1, <2>4, WellReadStays
  <2>5. NothingIsLost'
    BY <2>1, <2>4 DEF GateInv, NothingIsLost, IsClean
  <2> QED BY <2>2, <2>3, <2>5 DEF GateInv
<1> QED BY <1>1, <1>2, <1>3, <1>4, <1>5, <1>6, <1>7 DEF Next, Process

\* what was found of a root stays true as well,
LEMMA RootIsTrueStep == GateInv /\ RootIsTrue /\ [Next]_vars => RootIsTrue'
<1> SUFFICES ASSUME GateInv, RootIsTrue, [Next]_vars
             PROVE  RootIsTrue'
  OBVIOUS
<1>1. CASE isDir' = FALSE
  BY <1>1 DEF RootIsTrue
<1>2. CASE FindRoot
  <2> DEFINE r == Head(roots)
  <2>1. /\ pc' = "walk" /\ isDir' = TRUE /\ roots' = roots /\ seen' = seen
        /\ roots # <<>> /\ roots \in Seq(Children(0)) /\ tree[r] \in Directories
    BY <1>2 DEF FindRoot, AtRoot, Walk, world, GateInv, GateTypes
  <2>2. r \in Entries
    BY <2>1, TailLosesHead DEF Children
  <2>3. tree[r] \in seen[r]
    BY <2>2 DEF GateInv, GateTypes
  <2> QED BY <2>1, <2>3 DEF RootIsTrue
<1>3. CASE pc' = pc /\ isDir' = isDir /\ roots' = roots /\ seen' = seen
  BY <1>3 DEF RootIsTrue
<1>4. ASSUME NEW n \in Entries, NEW node \in Possible[n], Edit(n, node)
      PROVE  RootIsTrue'
  <2>1. /\ pc' = pc /\ isDir' = isDir /\ roots' = roots
        /\ seen' = [seen EXCEPT ![n] = @ \cup {node}]
    BY <1>4 DEF Edit, process, walking
  <2>2. roots # <<>> => Head(roots) \in Entries
    BY TailLosesHead DEF GateInv, GateTypes, Children
  <2>3. \A m \in Entries : seen[m] \subseteq seen'[m]
    BY <2>1 DEF GateInv, GateTypes
  <2> QED BY <2>1, <2>2, <2>3 DEF RootIsTrue
<1>5. CASE SetupFails \/ RootFails \/ EntryFails \/ ReadFails \/ (\E e \in Pending : EnterFails(e))
  BY <1>1, <1>5 DEF SetupFails, RootFails, EntryFails, ReadFails, EnterFails, Fail
<1>6. CASE PassRoot \/ EnterRoot \/ SortFiles
  <2>1. isDir' = FALSE
    BY <1>6 DEF PassRoot, EnterRoot, SortFiles, walking, RootIsTrue
  <2> QED BY <1>1, <2>1
<1>7. CASE SetupPasses \/ ReadFile \/ FinishScan \/ Render \/ CheckAgain
  <2>1. isDir' = FALSE
    BY <1>7 DEF SetupPasses, ReadFile, FinishScan, Render, CheckAgain, walking, RootIsTrue
  <2> QED BY <1>1, <2>1
<1>8. CASE LeaveDirectory \/ (\E e \in Pending : EnterDirectory(e) \/ CollectFile(e) \/ PassEntry(e))
  <2>1. pc' = pc /\ isDir' = isDir /\ roots' = roots /\ seen' = seen
    BY <1>8 DEF LeaveDirectory, EnterDirectory, CollectFile, PassEntry, Walk, world
  <2> QED BY <1>3, <2>1
<1>9. CASE UNCHANGED vars
  BY <1>3, <1>9 DEF vars, process, walking, world
<1> QED BY <1>2, <1>4, <1>5, <1>6, <1>7, <1>8, <1>9 DEF Next, Process, Walker

\* and both hold.
LEMMA GateInvHolds == Spec => [](GateInv /\ RootIsTrue)
<1>1. Init => RootIsTrue
  BY DEF Init, RootIsTrue
<1> QED BY <1>1, GateInvInit, GateInvStep, RootIsTrueStep, PTL DEF Spec

-----------------------------------------------------------------------------
\* The paths, the directories that are open, what was collected and found, and the
\* outcome have the shape that the code gives them.
THEOREM TypeCorrect == Spec => []TypeOK
<1>1. GateInv /\ RootIsTrue => TypeOK
  <2> SUFFICES ASSUME GateInv, RootIsTrue
               PROVE  TypeOK
    OBVIOUS
  <2>1. ASSUME NEW i \in DOMAIN stack
        PROVE  /\ stack[i].directory \in Entries
               /\ \A e \in stack[i].left : Parent[e.entry] = stack[i].directory /\ e.node \in Nodes
    <3>1. stack[i] \in Call /\ CallIsTrue(stack[i], seen)
      BY ElementOfSeq DEF GateInv, GateTypes, ListingsAreTrue
    <3> QED BY <3>1 DEF Call, CallIsTrue
  <2> QED BY <2>1 DEF TypeOK, GateInv, GateTypes, RootIsTrue
<1> QED BY <1>1, GateInvHolds, PTL

\* run_check ends with a failure only for a cause: a pin, an entry that cannot be
\* opened, listed, read or parsed, or one that somebody edited under the walk.
THEOREM ErrorsHaveCauses == Spec => []ErrorHasCause
<1>1. GateInv => ErrorHasCause
  BY DEF GateInv
<1> QED BY <1>1, GateInvHolds, PTL

\* run_check ends with success only if nothing was left out: every entry below the
\* source roots was, at some moment of the run, something that has no finding,
\* whatever was edited under the walk.
THEOREM SuccessMeansRead == Spec => []SuccessIsEarned
<1>1. GateInv => SuccessIsEarned
  <2> SUFFICES ASSUME GateInv, status = Success
               PROVE  \A n \in Entries : WellRead(n)
    BY DEF SuccessIsEarned, WellRead
  <2>1. pc = "exited" /\ StatusOf(outcome) = Success
    BY DEF GateInv, GatePhases, NoStatus, Success, Panic
  <2>2. IsClean(outcome)
    BY <2>1 DEF StatusOf, Success, Failure
  <2> QED BY <2>2 DEF GateInv, NothingIsLost
<1> QED BY <1>1, GateInvHolds, PTL

-----------------------------------------------------------------------------
\* How often an element occurs.

\* Times counts places of a finite sequence.
LEMMA TimesIsNat ==
  ASSUME NEW S, NEW s \in Seq(S), NEW v
  PROVE  /\ IsFiniteSet({i \in DOMAIN s : s[i] = v}) /\ Times(s, v) \in Nat
         /\ Times(s, v) = 0 <=> \A i \in DOMAIN s : s[i] # v
<1>1. DOMAIN s = 1 .. Len(s) /\ Len(s) \in Nat
  OBVIOUS
<1>2. IsFiniteSet(DOMAIN s)
  BY <1>1, FS_Interval
<1> DEFINE P == {i \in DOMAIN s : s[i] = v}
<1>3. IsFiniteSet(P) /\ Cardinality(P) \in Nat /\ (Cardinality(P) = 0 <=> P = {})
  BY <1>2, FS_Subset, FS_CardinalityType, FS_EmptySet
<1>4. Times(s, v) = Cardinality(P)
  BY DEF Times
<1> QED BY <1>3, <1>4

\* A sequence in another order has every element as often.
LEMMA ReorderingKeepsTimes ==
  ASSUME NEW S, NEW s \in Seq(S), NEW t, IsReordering(t, s), NEW v
  PROVE  Times(t, v) = Times(s, v)
<1> DEFINE D == DOMAIN s
           A == {i \in D : s[i] = v}
           B == {i \in D : t[i] = v}
<1>1. PICK to \in Bijection(D, D) : \A i \in D : t[to[i]] = s[i]
  BY DEF IsReordering
<1>2. /\ to \in [D -> D] /\ \A i, k \in D : to[i] = to[k] => i = k
      /\ \A k \in D : \E i \in D : to[i] = k
  BY DEF Bijection, Injection, IsInjective, Surjection
<1> DEFINE f == [i \in A |-> to[i]]
<1>3. f \in [A -> B]
  BY <1>1, <1>2
<1>4. \A i, k \in A : f[i] = f[k] => i = k
  BY <1>2
<1>5. \A k \in B : \E i \in A : f[i] = k
  BY <1>1, <1>2
<1>6. IsFiniteSet(A) /\ Times(s, v) = Cardinality(A)
  BY TimesIsNat DEF Times
<1>7. Times(t, v) = Cardinality(B)
  BY DEF Times, IsReordering
<1> HIDE DEF f, A, B
<1>8. f \in Bijection(A, B)
  BY <1>3, <1>4, <1>5 DEF Bijection, Injection, IsInjective, Surjection
<1>9. Cardinality(B) = Cardinality(A)
  BY <1>6, <1>8, FS_Bijection DEF ExistsBijection
<1> QED BY <1>6, <1>7, <1>9

\* What one of two sequences does not have occurs in both as often as in the other.
LEMMA TimesOfConcat ==
  ASSUME NEW S, NEW s \in Seq(S), NEW t \in Seq(S), NEW v
  PROVE  /\ (\A i \in DOMAIN t : t[i] # v) => Times(s \o t, v) = Times(s, v)
         /\ (\A i \in DOMAIN s : s[i] # v) => Times(s \o t, v) = Times(t, v)
<1> DEFINE m == Len(s)
           n == Len(t)
           b == s \o t
<1>1. /\ m \in Nat /\ n \in Nat /\ DOMAIN s = 1 .. m /\ DOMAIN t = 1 .. n
      /\ DOMAIN b = 1 .. m + n
      /\ \A i \in 1 .. m + n : b[i] = IF i <= m THEN s[i] ELSE t[i - m]
  BY ConcatProperties, LenProperties
<1> DEFINE A == {i \in DOMAIN s : s[i] = v}
           B == {i \in DOMAIN t : t[i] = v}
           C == {i \in DOMAIN b : b[i] = v}
<1>2. Times(s, v) = Cardinality(A) /\ Times(t, v) = Cardinality(B) /\ Times(b, v) = Cardinality(C)
  BY DEF Times
<1> HIDE DEF b, m, n
<1>3. ASSUME \A i \in DOMAIN t : t[i] # v
      PROVE  C = A
  <2>1. ASSUME NEW i \in C
        PROVE  i \in A
    <3>1. i \in 1 .. m + n /\ b[i] = v
      BY <1>1
    <3>2. CASE i <= m
      BY <1>1, <3>1, <3>2
    <3>3. CASE ~ (i <= m)
      <4>1. i - m \in DOMAIN t /\ t[i - m] = v
        BY <1>1, <3>1, <3>3
      <4> QED BY <1>3, <4>1
    <3> QED BY <3>2, <3>3
  <2>2. ASSUME NEW i \in A
        PROVE  i \in C
    BY <1>1
  <2> QED BY <2>1, <2>2
<1>4. ASSUME \A i \in DOMAIN s : s[i] # v
      PROVE  Cardinality(C) = Cardinality(B)
  <2> DEFINE f == [i \in B |-> i + m]
  <2>1. ASSUME NEW i \in B
        PROVE  i + m \in C
    <3>1. i \in Nat /\ i + m \in 1 .. m + n /\ ~ (i + m <= m) /\ (i + m) - m = i /\ t[i] = v
      BY <1>1
    <3> QED BY <1>1, <3>1
  <2>2. f \in [B -> C]
    BY <2>1
  <2>3. \A i, k \in B : f[i] = f[k] => i = k
    BY <1>1
  <2>4. ASSUME NEW k \in C
        PROVE  \E i \in B : f[i] = k
    <3>1. k \in 1 .. m + n /\ b[k] = v
      BY <1>1
    <3>2. ~ (k <= m)
      <4> SUFFICES ASSUME k <= m
                   PROVE  FALSE
        OBVIOUS
      <4>1. k \in DOMAIN s /\ s[k] = v
        BY <1>1, <3>1
      <4> QED BY <1>4, <4>1
    <3>3. k - m \in B /\ (k - m) + m = k
      BY <1>1, <3>1, <3>2
    <3> QED BY <3>3
  <2>5. IsFiniteSet(B)
    BY TimesIsNat
  <2> HIDE DEF f, B, C
  <2>6. f \in Bijection(B, C)
    BY <2>2, <2>3, <2>4 DEF Bijection, Injection, IsInjective, Surjection
  <2> QED BY <2>5, <2>6, FS_Bijection DEF ExistsBijection
<1> HIDE DEF A, B, C
<1>5. (\A i \in DOMAIN t : t[i] # v) => Times(b, v) = Times(s, v)
  BY <1>2, <1>3
<1>6. (\A i \in DOMAIN s : s[i] # v) => Times(b, v) = Times(t, v)
  BY <1>2, <1>4
<1> QED BY <1>5, <1>6 DEF b

-----------------------------------------------------------------------------
\* Violations in order are determined by how often each of them occurs.

IsOrdered(s) == \A i, j \in DOMAIN s : i < j => ~ Before(s[j], s[i])

\* Violations are totally ordered.
LEMMA BeforeIsTotal ==
  ASSUME NEW v \in Violation, NEW w \in Violation
  PROVE  /\ ~ Before(v, v)
         /\ v # w => Before(v, w) \/ Before(w, v)
<1>1. /\ v.path \in Nat /\ v.line \in Nat /\ v.rule \in Nat
      /\ w.path \in Nat /\ w.line \in Nat /\ w.rule \in Nat
  BY GateAssumption DEF Violation, Entries, Rule
<1>2. v.path = w.path /\ v.line = w.line /\ v.rule = w.rule => v = w
  BY DEF Violation
<1> QED BY <1>1, <1>2 DEF Before

\* Where two sequences first differ, the one with the smaller violation, or with one
\* more, has that violation more often.
LEMMA FirstDifference ==
  ASSUME NEW s \in Seq(Violation), NEW t \in Seq(Violation), IsOrdered(t),
         NEW m \in Nat, m < Len(s), m =< Len(t), \A i \in 1 .. m : s[i] = t[i],
         m < Len(t) => Before(s[m + 1], t[m + 1])
  PROVE  Times(t, s[m + 1]) < Times(s, s[m + 1])
<1> DEFINE v == s[m + 1]
           A == {i \in DOMAIN s : s[i] = v}
           B == {i \in DOMAIN t : t[i] = v}
<1>1. /\ DOMAIN s = 1 .. Len(s) /\ DOMAIN t = 1 .. Len(t) /\ Len(s) \in Nat /\ Len(t) \in Nat
      /\ m + 1 \in DOMAIN s
  OBVIOUS
<1>2. v \in Violation
  BY <1>1, ElementOfSeq
<1>3. m + 1 \in A
  BY <1>1
<1>4. ASSUME NEW i \in B
      PROVE  i \in A /\ i # m + 1
  <2>1. i \in Nat /\ i \in 1 .. Len(t) /\ t[i] = v
    BY <1>1
  <2>2. i =< m
    <3> SUFFICES ASSUME i > m
                 PROVE  FALSE
      BY <2>1
    <3>1. m + 1 \in DOMAIN t /\ Before(v, t[m + 1])
      BY <1>1, <2>1
    <3>2. CASE i = m + 1
      BY <1>2, <2>1, <3>1, <3>2, BeforeIsTotal
    <3>3. CASE i # m + 1
      <4>1. m + 1 < i
        BY <2>1, <3>3
      <4> QED BY <2>1, <3>1, <4>1 DEF IsOrdered
    <3> QED BY <3>2, <3>3
  <2>3. i \in 1 .. m
    BY <2>1, <2>2
  <2>4. s[i] = v
    BY <2>1, <2>3
  <2>5. i \in DOMAIN s
    BY <1>1, <2>3
  <2> QED BY <2>2, <2>4, <2>5, <2>1
<1>5. /\ IsFiniteSet(A) /\ Times(s, v) = Cardinality(A) /\ Times(s, v) \in Nat
      /\ IsFiniteSet(B) /\ Times(t, v) = Cardinality(B) /\ Times(t, v) \in Nat
  BY TimesIsNat DEF Times
<1> HIDE DEF A, B
<1>6. B \subseteq A \ {m + 1}
  BY <1>4
<1>7. IsFiniteSet(A \ {m + 1}) /\ Cardinality(A \ {m + 1}) = Cardinality(A) - 1
  BY <1>3, <1>5, FS_RemoveElement
<1>8. Cardinality(B) =< Cardinality(A \ {m + 1})
  BY <1>6, <1>7, FS_Subset
<1> QED BY <1>5, <1>7, <1>8

\* Two reports in order that say everything equally often are the same.
LEMMA OrderedIsUnique ==
  ASSUME NEW s \in Seq(Violation), NEW t \in Seq(Violation), IsOrdered(s), IsOrdered(t),
         \A v \in Violation : Times(s, v) = Times(t, v)
  PROVE  s = t
<1>1. /\ DOMAIN s = 1 .. Len(s) /\ DOMAIN t = 1 .. Len(t) /\ Len(s) \in Nat /\ Len(t) \in Nat
      /\ \A i \in 1 .. Len(s) : s[i] \in Violation
      /\ \A i \in 1 .. Len(t) : t[i] \in Violation
  BY ElementOfSeq
<1> DEFINE Differ(m) == /\ m < Len(s) \/ m < Len(t)
                        /\ m < Len(s) /\ m < Len(t) => s[m + 1] # t[m + 1]
           M == {m \in Nat : Differ(m)}
<1>2. ASSUME M # {}
      PROVE  FALSE
  <2> DEFINE R == OpToRel(<, Nat)
  <2>1. IsWellFoundedOn(R, Nat)
    BY NatLessThanWellFounded
  <2>2. PICK m \in M : \A k \in M : <<k, m>> \notin R
    <3>1. M \in SUBSET Nat
      OBVIOUS
    <3> HIDE DEF R, M
    <3> QED BY <1>2, <2>1, <3>1, WFMin
  <2>3. \A k \in M : ~ (k < m)
    BY <2>2 DEF OpToRel
  <2>4. m =< Len(s) /\ m =< Len(t)
    <3>1. CASE Len(s) < m
      <4>1. Len(s) \in M
        BY <1>1, <3>1
      <4> QED BY <2>3, <3>1, <4>1
    <3>2. CASE Len(t) < m
      <4>1. Len(t) \in M
        BY <1>1, <3>2
      <4> QED BY <2>3, <3>2, <4>1
    <3> QED BY <1>1, <3>1, <3>2
  <2>5. ASSUME NEW i \in 1 .. m
        PROVE  s[i] = t[i]
    <3>1. i - 1 \in Nat /\ i - 1 < m /\ (i - 1) + 1 = i
      OBVIOUS
    <3>2. ~ Differ(i - 1)
      BY <2>3, <3>1
    <3>3. i - 1 < Len(s) /\ i - 1 < Len(t)
      BY <1>1, <2>4, <3>1
    <3> QED BY <3>1, <3>2, <3>3
  <2>6. m \in Nat /\ Differ(m)
    OBVIOUS
  <2> HIDE DEF M
  <2>7. CASE m < Len(s) /\ (m < Len(t) => Before(s[m + 1], t[m + 1]))
    <3>1. Times(t, s[m + 1]) < Times(s, s[m + 1])
      BY <2>4, <2>5, <2>6, <2>7, FirstDifference
    <3>2. s[m + 1] \in Violation
      BY <1>1, <2>6, <2>7
    <3> DEFINE v == s[m + 1]
    <3>3. Times(t, v) \in Nat /\ Times(s, v) \in Nat /\ Times(s, v) = Times(t, v)
      BY <3>2, TimesIsNat
    <3> QED BY <3>1, <3>3
  <2>8. CASE m < Len(t) /\ (m < Len(s) => Before(t[m + 1], s[m + 1]))
    <3>1. Times(s, t[m + 1]) < Times(t, t[m + 1])
      <4>1. \A i \in 1 .. m : t[i] = s[i]
        BY <2>5
      <4> QED BY <2>4, <2>6, <2>8, <4>1, FirstDifference
    <3>2. t[m + 1] \in Violation
      BY <1>1, <2>6, <2>8
    <3> DEFINE v == t[m + 1]
    <3>3. Times(t, v) \in Nat /\ Times(s, v) \in Nat /\ Times(s, v) = Times(t, v)
      BY <3>2, TimesIsNat
    <3> QED BY <3>1, <3>3
  <2>9. CASE m < Len(s) /\ m < Len(t)
    <3>1. s[m + 1] \in Violation /\ t[m + 1] \in Violation
      BY <1>1, <2>6, <2>9
    <3> QED BY <2>6, <2>7, <2>8, <2>9, <3>1, BeforeIsTotal
  <2>10. m < Len(s) \/ m < Len(t)
    BY <2>6
  <2>11. CASE m < Len(s) /\ ~ (m < Len(t))
    BY <2>7, <2>11
  <2>12. CASE m < Len(t) /\ ~ (m < Len(s))
    BY <2>8, <2>12
  <2> QED BY <2>9, <2>10, <2>11, <2>12
<1>3. \A m \in Nat : ~ Differ(m)
  BY <1>2
<1>4. Len(s) = Len(t)
  <2>1. ~ Differ(Len(s)) /\ ~ Differ(Len(t))
    <3> HIDE DEF Differ
    <3> QED BY <1>1, <1>3
  <2>2. ~ (Len(s) < Len(t))
    <3>1. Len(s) < Len(t) => Differ(Len(s))
      BY <1>1
    <3> HIDE DEF Differ
    <3> QED BY <2>1, <3>1
  <2>3. ~ (Len(t) < Len(s))
    <3>1. Len(t) < Len(s) => Differ(Len(t))
      BY <1>1
    <3> HIDE DEF Differ
    <3> QED BY <2>1, <3>1
  <2>4. Len(s) \in Nat /\ Len(t) \in Nat
    OBVIOUS
  <2> QED BY ONLY <2>2, <2>3, <2>4
<1>5. ASSUME NEW i \in 1 .. Len(s)
      PROVE  s[i] = t[i]
  <2>1. i - 1 \in Nat /\ i - 1 < Len(s) /\ (i - 1) + 1 = i
    BY <1>1
  <2> QED BY <1>3, <1>4, <2>1
<1> QED BY <1>4, <1>5, SeqEqual

-----------------------------------------------------------------------------
\* The walk comes to an entry once.

\* An entry is collected, or is a directory that is listed now.
IsMet(n, k, f) ==
  \/ \E i \in DOMAIN f : f[i] = n
  \/ \E i \in DOMAIN k : k[i].directory = n

\* Nothing is named twice, and an entry that was met waits no more, nor does a
\* directory above it.
Once(r, k, f) ==
  /\ IsInjective(r) /\ IsInjective(f)
  /\ \A i, j \in DOMAIN k : k[i].directory = k[j].directory => i = j
  /\ \A i \in DOMAIN k : \A d, e \in k[i].left : d.entry = e.entry => d = e
  /\ \A n \in Entries : IsMet(n, k, f) => \A m \in Path(n) : ~ Waits(m, r, k)

\* The path of an entry is that of its directory, and the entry.
LEMMA PathOfEntry ==
  ASSUME NEW n \in Entries
  PROVE  /\ \A m \in Path(n) : m = n \/ (Parent[n] # 0 /\ m \in Path(Parent[n]))
         /\ \A m \in Path(n) : m =< n
<1>1. ASSUME NEW m \in Path(n)
      PROVE  m = n \/ (Parent[n] # 0 /\ m \in Path(Parent[n]))
  <2> DEFINE S == {k \in Entries : k = n \/ (Parent[n] # 0 /\ k \in Path(Parent[n]))}
  <2>1. n \in S /\ S \in SUBSET Entries
    OBVIOUS
  <2>2. UpClosed(S)
    <3> SUFFICES ASSUME NEW k \in S, Parent[k] # 0
                 PROVE  Parent[k] \in S
      BY DEF UpClosed
    <3>1. Parent[k] \in Entries
      BY ParentIsAbove
    <3>2. CASE k = n
      BY <3>1, <3>2, PathIsClosed
    <3>3. CASE Parent[n] # 0 /\ k \in Path(Parent[n])
      <4>1. Parent[n] \in Entries
        BY <3>3, ParentIsAbove
      <4> QED BY <3>1, <3>3, <4>1, PathIsClosed DEF UpClosed
    <3> QED BY <3>2, <3>3
  <2>3. Path(n) \subseteq S
    BY <2>1, <2>2, PathIsLeast
  <2> QED BY <2>3
<1>2. ASSUME NEW m \in Path(n)
      PROVE  m =< n
  <2> DEFINE S == {k \in Entries : k =< n}
  <2>1. n \in S /\ S \in SUBSET Entries
    BY ParentIsAbove
  <2>2. UpClosed(S)
    BY ParentIsAbove DEF UpClosed
  <2>3. Path(n) \subseteq S
    BY <2>1, <2>2, PathIsLeast
  <2> QED BY <2>3
<1> QED BY <1>1, <1>2

\* A root that is taken waits no more.
LEMMA RootIsTaken ==
  ASSUME GateTypes, Once(roots, stack, files), roots # <<>>, stack = <<>>
  PROVE  /\ Head(roots) \in Entries /\ Once(Tail(roots), stack, files)
         /\ \A m \in Path(Head(roots)) : ~ Waits(m, Tail(roots), stack)
         /\ \A n \in Entries : Head(roots) \in Path(n) => ~ IsMet(n, stack, files)
<1> DEFINE r == Head(roots)
           rest == Tail(roots)
           n == Len(roots)
<1>1. /\ roots \in Seq(Children(0)) /\ n \in Nat /\ n # 0 /\ DOMAIN roots = 1 .. n
      /\ r = roots[1] /\ r \in Children(0)
      /\ DOMAIN rest = 1 .. n - 1 /\ \A j \in 1 .. n - 1 : rest[j] = roots[j + 1]
  BY HeadTailProperties, EmptySeq DEF GateTypes
<1>2. r \in Entries /\ Parent[r] = 0
  BY <1>1 DEF Children
<1>3. DOMAIN stack = {}
  OBVIOUS
<1> HIDE DEF r, rest, n
<1>4. IsInjective(roots) /\ IsInjective(files)
  BY DEF Once
<1>5. \A j \in DOMAIN rest : j + 1 \in DOMAIN roots /\ rest[j] = roots[j + 1] /\ j + 1 # 1 /\ j \in Nat
  BY <1>1
<1>6. IsInjective(rest)
  BY <1>4, <1>5 DEF IsInjective
<1>7. \A m : Waits(m, rest, stack) => Waits(m, roots, stack)
  BY <1>5 DEF Waits
<1>8. ~ Waits(r, rest, stack)
  <2>1. 1 \in DOMAIN roots
    BY <1>1
  <2> QED BY <1>1, <1>3, <1>4, <1>5, <2>1 DEF Waits, IsInjective
<1>9. Waits(r, roots, stack)
  <2>1. 1 \in DOMAIN roots
    BY <1>1
  <2> QED BY <1>1, <2>1 DEF Waits
<1>10. \A m \in Path(r) : m = r
  BY <1>2, PathOfEntry
<1>11. Once(rest, stack, files)
  BY <1>3, <1>4, <1>6, <1>7 DEF Once
<1>12. \A m \in Entries : r \in Path(m) => ~ IsMet(m, stack, files)
  BY <1>9 DEF Once
<1> QED BY <1>2, <1>8, <1>10, <1>11, <1>12 DEF r, rest

\* An entry that is yielded waits no more, nor does a directory above it.
LEMMA YieldedIsTaken ==
  ASSUME GateTypes, ListingsAreTrue, Once(roots, stack, files), NEW e \in Pending
  PROVE  /\ e.entry \in Entries /\ Once(roots, Yielded(e), files)
         /\ \A m \in Path(e.entry) : ~ Waits(m, roots, Yielded(e))
         /\ \A n \in Entries : e.entry \in Path(n) => ~ IsMet(n, Yielded(e), files)
<1> DEFINE k == Yielded(e)
           top == Len(stack)
           d == stack[top].directory
<1>1. /\ stack # <<>> /\ k \in Seq(Call) /\ DOMAIN k = DOMAIN stack
      /\ e \in [entry : Entries, node : Nodes]
      /\ \A i \in DOMAIN stack : k[i].directory = stack[i].directory
  BY YieldedIsTrue
<1>2. /\ stack \in Seq(Call) /\ DOMAIN stack = 1 .. top /\ top \in Nat /\ top \in DOMAIN stack
      /\ e \in stack[top].left
  BY <1>1, EmptySeq DEF Pending, Last, GateTypes
<1>3. stack[top] \in Call /\ d \in Entries /\ Parent[e.entry] = d
  <2>1. stack[top] \in Call
    BY <1>2, ElementOfSeq
  <2>2. CallIsTrue(stack[top], seen)
    BY <1>2 DEF ListingsAreTrue
  <2> QED BY <1>2, <2>1, <2>2 DEF Call, CallIsTrue
<1>4. /\ k[top].left = stack[top].left \ {e}
      /\ \A i \in DOMAIN stack : i # top => k[i] = stack[i]
  <2> DEFINE call == [stack[top] EXCEPT !.left = @ \ {e}]
  <2>1. call.left = stack[top].left \ {e}
    BY <1>3 DEF Call
  <2>2. k = [stack EXCEPT ![top] = call]
    BY DEF Yielded
  <2> HIDE DEF call, k
  <2> QED BY <1>2, <2>1, <2>2
<1>5. e.entry \in Entries /\ d # 0 /\ \A i \in DOMAIN stack : k[i].left \subseteq stack[i].left
  BY <1>1, <1>3, <1>4, ParentIsAbove DEF Entries
<1> HIDE DEF k, top
<1>6. \A m : Waits(m, roots, k) => Waits(m, roots, stack)
  BY <1>1, <1>5 DEF Waits
<1>7. \A n : IsMet(n, k, files) <=> IsMet(n, stack, files)
  BY <1>1 DEF IsMet
<1>8. Once(roots, k, files)
  <2>1. IsInjective(roots) /\ IsInjective(files)
    BY DEF Once
  <2>2. \A i, j \in DOMAIN k : k[i].directory = k[j].directory => i = j
    BY <1>1 DEF Once
  <2>3. \A i \in DOMAIN k : \A x, y \in k[i].left : x.entry = y.entry => x = y
    BY <1>1, <1>5 DEF Once
  <2>4. \A n \in Entries : IsMet(n, k, files) => \A m \in Path(n) : ~ Waits(m, roots, k)
    BY <1>6, <1>7 DEF Once
  <2> QED BY <2>1, <2>2, <2>3, <2>4 DEF Once
<1>9. Waits(e.entry, roots, stack)
  BY <1>2 DEF Waits
<1>10. ~ Waits(e.entry, roots, k)
  <2>1. ASSUME NEW i \in DOMAIN roots, roots[i] = e.entry
        PROVE  FALSE
    <3>1. roots[i] \in Children(0)
      BY ElementOfSeq DEF GateTypes
    <3> QED BY <1>3, <1>5, <2>1, <3>1 DEF Children
  <2>2. ASSUME NEW i \in DOMAIN k, NEW x \in k[i].left, x.entry = e.entry
        PROVE  FALSE
    <3>1. Parent[x.entry] = stack[i].directory
      BY <1>1, <1>5 DEF ListingsAreTrue, CallIsTrue
    <3>2. i = top
      BY <1>1, <1>2, <1>3, <2>2, <3>1 DEF Once
    <3>3. x \in stack[top].left /\ x # e
      BY <1>4, <3>2
    <3> QED BY <1>2, <2>2, <3>3 DEF Once
  <2> QED BY <2>1, <2>2 DEF Waits
<1>11. ASSUME NEW m \in Path(e.entry), m # e.entry
       PROVE  ~ Waits(m, roots, k)
  <2>1. m \in Path(d)
    BY <1>3, <1>5, <1>11, PathOfEntry
  <2>2. IsMet(d, stack, files)
    BY <1>2 DEF IsMet
  <2>3. ~ Waits(m, roots, stack)
    BY <1>3, <2>1, <2>2 DEF Once
  <2> QED BY <1>6, <2>3
<1>12. \A n \in Entries : e.entry \in Path(n) => ~ IsMet(n, k, files)
  BY <1>7, <1>9 DEF Once
<1> QED BY <1>5, <1>8, <1>10, <1>11, <1>12 DEF k

\* A directory that is opened is met once, and what it lists was not met.
LEMMA OpenedIsNew ==
  ASSUME GateTypes, NEW r, NEW k \in Seq(Call), Once(r, k, files), NEW d \in Entries,
         \A m \in Path(d) : ~ Waits(m, r, k),
         \A n \in Entries : d \in Path(n) => ~ IsMet(n, k, files),
         CanOpen(d)
  PROVE  Once(r, Append(k, Opened(d)), files)
<1> DEFINE l == Append(k, Opened(d))
           top == Len(k)
<1>1. /\ Opened(d) \in Call /\ Opened(d).directory = d
      /\ \A e \in Opened(d).left : Parent[e.entry] = d
      /\ \A x, y \in Opened(d).left : x.entry = y.entry => x = y
      /\ \A e \in Opened(d).left : e.entry \in Entries
  <2>1. /\ \A e \in Opened(d).left : Parent[e.entry] = d /\ e.entry \in Entries
        /\ \A x, y \in Opened(d).left : x.entry = y.entry => x = y
    BY DEF Opened, Listing, Children
  <2> QED BY <2>1, ListingIsTrue
<1>2. /\ top \in Nat /\ DOMAIN k = 1 .. top /\ DOMAIN l = 1 .. top + 1
      /\ l[top + 1] = Opened(d) /\ \A i \in DOMAIN k : l[i] = k[i]
  BY <1>1, AppendProperties
<1> HIDE DEF l, top
<1>3. /\ DOMAIN k \subseteq DOMAIN l /\ top + 1 \in DOMAIN l /\ top + 1 \notin DOMAIN k
      /\ \A i \in DOMAIN l : i \in DOMAIN k \/ i = top + 1
  BY <1>2
<1>4. d \in Path(d)
  BY PathIsClosed
<1>5. \A i \in DOMAIN k : k[i].directory # d
  BY <1>4 DEF IsMet
<1>6. \A i, j \in DOMAIN l : l[i].directory = l[j].directory => i = j
  BY <1>1, <1>2, <1>3, <1>5 DEF Once
<1>7. \A i \in DOMAIN l : \A x, y \in l[i].left : x.entry = y.entry => x = y
  BY <1>1, <1>2, <1>3 DEF Once
<1>8. \A m : Waits(m, r, l) => Waits(m, r, k) \/ (m \in Entries /\ Parent[m] = d)
  BY <1>1, <1>2, <1>3 DEF Waits
<1>9. \A n : IsMet(n, l, files) => IsMet(n, k, files) \/ n = d
  BY <1>1, <1>2, <1>3 DEF IsMet
<1>10. ASSUME NEW n \in Entries, IsMet(n, l, files), NEW m \in Path(n), Waits(m, r, l)
       PROVE  FALSE
  <2>1. CASE n = d
    <3>1. m \in Entries /\ Parent[m] = d
      BY <1>8, <1>10, <2>1
    <3>2. m =< d
      BY <1>10, <2>1, PathOfEntry
    <3> QED BY <3>1, <3>2, ParentIsAbove
  <2>2. CASE n # d
    <3>1. IsMet(n, k, files)
      BY <1>9, <1>10, <2>2
    <3>2. m \in Entries /\ Parent[m] = d
      BY <1>8, <1>10, <3>1 DEF Once
    <3>3. d \in Path(n)
      <4>1. d # 0
        BY DEF Entries
      <4> QED BY <1>10, <3>2, <4>1, PathIsClosed DEF UpClosed
    <3> QED BY <3>1, <3>3
  <2> QED BY <2>1, <2>2
<1>11. IsInjective(r) /\ IsInjective(files)
  BY DEF Once
<1>12. \A n \in Entries : IsMet(n, l, files) => \A m \in Path(n) : ~ Waits(m, r, l)
  BY <1>10
<1> QED BY <1>6, <1>7, <1>11, <1>12 DEF Once, l

\* A file that is collected was not met.
LEMMA CollectedIsNew ==
  ASSUME NEW r, NEW k, NEW f \in Seq(Entries), Once(r, k, f), NEW n \in Entries,
         \A m \in Path(n) : ~ Waits(m, r, k),
         ~ IsMet(n, k, f)
  PROVE  Once(r, k, Append(f, n))
<1> DEFINE g == Append(f, n)
           top == Len(f)
<1>1. /\ top \in Nat /\ DOMAIN f = 1 .. top /\ DOMAIN g = 1 .. top + 1
      /\ g[top + 1] = n /\ \A i \in DOMAIN f : g[i] = f[i]
  BY AppendProperties
<1> HIDE DEF g, top
<1>2. /\ DOMAIN f \subseteq DOMAIN g /\ top + 1 \in DOMAIN g /\ top + 1 \notin DOMAIN f
      /\ \A i \in DOMAIN g : i \in DOMAIN f \/ i = top + 1
  BY <1>1
<1>3. IsInjective(g)
  BY <1>1, <1>2 DEF Once, IsInjective, IsMet
<1>4. \A m : IsMet(m, k, g) => IsMet(m, k, f) \/ m = n
  BY <1>1, <1>2 DEF IsMet
<1>5. \A m \in Entries : IsMet(m, k, g) => \A x \in Path(m) : ~ Waits(x, r, k)
  BY <1>4 DEF Once
<1> QED BY <1>3, <1>5 DEF Once, g

-----------------------------------------------------------------------------
\* What a run has found so far, and what it says at the end.  Here was, t and p stand
\* for seen, tree and prepared.

SoundOf(n, was) ==
  {node \in was[n] : ~ IsFaulty(n, node)}
    \cup {node \in {"directory"} : "flawed" \in was[n] /\ was[n] # {"flawed"}}

\* The violations of s in an entry are those of something that the entry was.
Settled(n, s, was) ==
  \E node \in SoundOf(n, was) :
    \A v \in Violation : v.path = n => Times(s, v) = Times(Due(n, node), v)

HasNone(n, s) == \A i \in DOMAIN s : s[i].path # n

IsListed(n, f) == \E i \in DOMAIN f : f[i] = n

\* While files are read, in order, an entry is still to be read or is settled.
ReadsInOrder ==
  /\ \A i, j \in DOMAIN files : i < j => files[i] < files[j]
  /\ \A n \in Entries : IF IsListed(n, files) THEN HasNone(n, violations)
                                              ELSE Settled(n, violations, seen)

IsUnedited(t, was) == \A n \in Entries : was[n] = {t[n]}

IsBroken(n, t) == t[n] \in {"sealed", "flawed"}

IsFirstFault(n, t) ==
  /\ IsFaulty(n, t[n])
  /\ \A m \in Entries : ~ IsBroken(m, t) /\ (m < n => ~ IsFaulty(m, t[m]))

\* What an outcome says, of the tree as well if nobody edits it.
Told(o, t, p, was) ==
  /\ o.kind = "report" =>
       p /\ IsOrdered(o.violations) /\ \A n \in Entries : Settled(n, o.violations, was)
  /\ o.kind = "error" /\ IsUnedited(t, was) =>
       \/ o = Error("setup", 0) /\ ~ p
       \/ p /\ \E n \in Entries : o = Error("walk", n) /\ IsBroken(n, t)
       \/ p /\ \E n \in Entries : o = Error("scan", n) /\ IsFirstFault(n, t)

RunInv ==
  /\ Once(roots, stack, files)
  /\ pc # "scan" => violations = <<>>
  /\ pc \notin {"walk", "scan"} => files = <<>>
  /\ pc \in {"walk", "scan"} => prepared
  /\ pc = "scan" => ReadsInOrder
  /\ Told(outcome, tree, prepared, seen) /\ Told(previous, tree, prepared, seen)

\* An outcome is none, an error or a report of violations.
LEMMA OutcomeKinds ==
  ASSUME NEW o \in Outcome
  PROVE  /\ o = NoOutcome \/ o.kind = "error" \/ o.kind = "report"
         /\ o.kind = "report" => o = Report(o.violations) /\ o.violations \in Seq(Violation)
<1>1. CASE o = NoOutcome
  BY <1>1, NamesOfOutcomes
<1>2. CASE o \in {Error(p, n) : p \in {"setup", "walk", "scan"}, n \in Entries \cup {0}}
  <2>1. PICK p, n : o = Error(p, n)
    BY <1>2
  <2> QED BY <2>1, NamesOfOutcomes
<1>3. CASE o \in [kind : {"report"}, violations : Seq(Violation)]
  BY <1>3 DEF Report
<1> QED BY <1>1, <1>2, <1>3 DEF Outcome

\* What was settled stays so when more is seen.
LEMMA SettledStays ==
  ASSUME NEW was, NEW is, NEW n \in Entries, was[n] \subseteq is[n],
         NEW s, NEW t, Settled(n, s, was),
         \A v \in Violation : v.path = n => Times(t, v) = Times(s, v)
  PROVE  Settled(n, t, is)
BY DEF Settled, SoundOf

\* What an outcome says stays true when somebody edits the tree.
LEMMA ToldStays ==
  ASSUME NEW o, NEW t, NEW p, NEW was, NEW u, NEW is, Told(o, t, p, was),
         \A n \in Entries : was[n] \subseteq is[n], ~ IsUnedited(u, is)
  PROVE  Told(o, u, p, is)
<1>1. \A n \in Entries : Settled(n, o.violations, was) => Settled(n, o.violations, is)
  BY SettledStays
<1> QED BY <1>1 DEF Told

\* No outcome, nothing said.
LEMMA NothingTold == \A t, p, was : Told(NoOutcome, t, p, was)
BY NamesOfOutcomes DEF Told

\* Nothing is met where nothing is listed or collected.
LEMMA OnceAtFirst ==
  ASSUME NEW r, IsInjective(r)
  PROVE  Once(r, <<>>, <<>>)
<1>1. DOMAIN <<>> = {}
  OBVIOUS
<1> QED BY <1>1 DEF Once, IsMet, IsInjective

\* A run starts with nothing met and nothing said.
LEMMA RunInvInit == Init => RunInv
<1> SUFFICES ASSUME Init
             PROVE  RunInv
  OBVIOUS
<1>1. DOMAIN <<>> = {}
  OBVIOUS
<1>2. Once(roots, stack, files)
  <2>1. IsInjective(<<>>)
    BY <1>1 DEF IsInjective
  <2> QED BY <2>1, OnceAtFirst DEF Init
<1>3. Told(outcome, tree, prepared, seen) /\ Told(previous, tree, prepared, seen)
  BY NothingTold DEF Init
<1> QED BY <1>2, <1>3 DEF RunInv, Init

\* A run that fails says why.
LEMMA FailTells ==
  ASSUME RunInv, NEW phase, NEW n, Fail(phase, n), Told(Error(phase, n), tree, prepared, seen)
  PROVE  RunInv'
<1>1. /\ pc' = "render" /\ roots' = <<>> /\ stack' = <<>> /\ files' = <<>> /\ violations' = <<>>
      /\ outcome' = Error(phase, n) /\ tree' = tree /\ prepared' = prepared /\ seen' = seen
      /\ previous' = previous
  BY DEF Fail, world
<1>2. Once(roots', stack', files')
  <2>1. IsInjective(<<>>)
    BY DEF IsInjective
  <2> QED BY <1>1, <2>1, OnceAtFirst
<1>3. Told(outcome', tree', prepared', seen') /\ Told(previous', tree', prepared', seen')
  BY <1>1 DEF RunInv
<1> QED BY <1>1, <1>2, <1>3 DEF RunInv

\* The walk changes only what waits and what is met.
LEMMA WalkTells ==
  ASSUME GateInv, RunInv, Walk, Once(roots', stack', files')
  PROVE  RunInv'
<1>1. /\ pc = "walk" /\ pc' = "walk" /\ violations' = violations /\ outcome' = outcome
      /\ tree' = tree /\ prepared' = prepared /\ seen' = seen /\ previous' = previous
  BY DEF Walk, world
<1> QED BY <1>1 DEF RunInv

\* The walk starts at roots that are named once.
LEMMA SetupTells == GateInv /\ RunInv /\ (SetupFails \/ SetupPasses) => RunInv'
<1> SUFFICES ASSUME GateInv, RunInv, SetupFails \/ SetupPasses
             PROVE  RunInv'
  OBVIOUS
<1>1. CASE SetupFails
  <2>1. Told(Error("setup", 0), tree, prepared, seen)
    BY <1>1, NamesOfOutcomes DEF Told, SetupFails
  <2> QED BY <1>1, <2>1, FailTells DEF SetupFails
<1>2. CASE SetupPasses
  <2>1. /\ pc = "setup" /\ pc' = "walk" /\ roots' = SourceRoots /\ prepared
        /\ stack' = stack /\ files' = files /\ violations' = violations
        /\ outcome' = outcome /\ seen' = seen /\ tree' = tree
        /\ prepared' = prepared /\ previous' = previous
    BY <1>2 DEF SetupPasses, world
  <2>2. stack = <<>> /\ files = <<>>
    BY <2>1 DEF GateInv, GatePhases, RunInv
  <2>3. Once(roots', stack', files')
    BY <2>1, <2>2, OnceAtFirst, GateAssumption
  <2> QED BY <2>1, <2>3 DEF RunInv
<1> QED BY <1>1, <1>2

\* A step of the walk comes to no entry a second time.
LEMMA WalkerTells ==
  ASSUME GateInv, RunInv,
         \/ PassRoot \/ FindRoot \/ EnterRoot \/ LeaveDirectory
         \/ \E e \in Pending : EnterDirectory(e) \/ CollectFile(e) \/ PassEntry(e)
  PROVE  RunInv'
<1>1. GateTypes /\ ListingsAreTrue /\ Once(roots, stack, files)
  BY DEF GateInv, RunInv
<1>2. CASE PassRoot
  <2>1. Walk /\ stack = <<>> /\ roots # <<>> /\ roots' = Tail(roots) /\ stack' = stack /\ files' = files
    BY <1>2 DEF PassRoot, AtRoot
  <2>2. Once(roots', stack', files')
    BY <1>1, <2>1, RootIsTaken
  <2> QED BY <2>1, <2>2, WalkTells
<1>3. CASE EnterRoot
  <2> DEFINE r == Head(roots)
  <2>1. /\ Walk /\ stack = <<>> /\ roots # <<>> /\ roots' = Tail(roots) /\ files' = files
        /\ stack' = Append(stack, Opened(r)) /\ CanOpen(r)
    BY <1>3 DEF EnterRoot, AtRoot
  <2>2. /\ r \in Entries /\ Once(Tail(roots), stack, files)
        /\ \A m \in Path(r) : ~ Waits(m, Tail(roots), stack)
        /\ \A n \in Entries : r \in Path(n) => ~ IsMet(n, stack, files)
    BY <1>1, <2>1, RootIsTaken
  <2>3. stack \in Seq(Call)
    BY <1>1 DEF GateTypes
  <2> HIDE DEF r
  <2>4. Once(Tail(roots), Append(stack, Opened(r)), files)
    BY <1>1, <2>1, <2>2, <2>3, OpenedIsNew
  <2>5. Once(roots', stack', files')
    BY <2>1, <2>4
  <2> QED BY <2>1, <2>5, WalkTells
<1>4. CASE LeaveDirectory
  <2> DEFINE top == Len(stack)
  <2>1. /\ Walk /\ stack \in Seq(Call) /\ stack # <<>> /\ stack' = SubSeq(stack, 1, top - 1)
        /\ roots' = roots /\ files' = files
    BY <1>1, <1>4 DEF LeaveDirectory, Front, GateTypes
  <2>2. top \in Nat /\ top # 0 /\ DOMAIN stack = 1 .. top
    BY <2>1, EmptySeq
  <2> HIDE DEF top
  <2>3. DOMAIN stack' = 1 .. top - 1 /\ \A i \in 1 .. top - 1 : stack'[i] = stack[i]
    BY <2>1, <2>2
  <2>4. DOMAIN stack' \subseteq DOMAIN stack /\ \A i \in DOMAIN stack' : stack'[i] = stack[i]
    BY <2>2, <2>3
  <2>5. /\ \A m : Waits(m, roots', stack') => Waits(m, roots, stack)
        /\ \A n : IsMet(n, stack', files') => IsMet(n, stack, files)
    BY <2>1, <2>4 DEF Waits, IsMet
  <2>6. Once(roots', stack', files')
    <3>1. \A n \in Entries : IsMet(n, stack', files') => \A m \in Path(n) : ~ Waits(m, roots', stack')
      BY <1>1, <2>5 DEF Once
    <3> QED BY <1>1, <2>1, <2>4, <3>1 DEF Once
  <2> QED BY <2>1, <2>6, WalkTells
<1>5. ASSUME NEW e \in Pending, EnterDirectory(e) \/ CollectFile(e) \/ PassEntry(e)
      PROVE  RunInv'
  <2> DEFINE k == Yielded(e)
             n == e.entry
  <2>1. /\ n \in Entries /\ Once(roots, k, files)
        /\ \A m \in Path(n) : ~ Waits(m, roots, k)
        /\ \A m \in Entries : n \in Path(m) => ~ IsMet(m, k, files)
    BY <1>1, YieldedIsTaken
  <2>2. k \in Seq(Call)
    BY <1>1, YieldedIsTrue
  <2>3. files \in Seq(Entries)
    BY <1>1, GateAssumption, SeqMonotonic DEF GateTypes
  <2>4. /\ Walk /\ roots' = roots
        /\ \/ stack' = Append(k, Opened(n)) /\ files' = files /\ CanOpen(n)
           \/ stack' = k /\ files' = Append(files, n)
           \/ stack' = k /\ files' = files
    BY <1>5 DEF EnterDirectory, CollectFile, PassEntry
  <2> HIDE DEF k, n
  <2>5. Once(roots, Append(k, Opened(n)), files) \/ ~ CanOpen(n)
    BY <1>1, <2>1, <2>2, OpenedIsNew
  <2>6. Once(roots, k, Append(files, n))
    <3>1. ~ IsMet(n, k, files)
      BY <2>1, PathIsClosed
    <3> QED BY <2>1, <2>3, <3>1, CollectedIsNew
  <2>7. Once(roots', stack', files')
    BY <2>1, <2>4, <2>5, <2>6
  <2> QED BY <2>4, <2>7, WalkTells
<1>6. CASE FindRoot
  <2>1. Walk /\ Once(roots', stack', files')
    BY <1>1, <1>6 DEF FindRoot
  <2> QED BY <2>1, WalkTells
<1> QED BY <1>2, <1>3, <1>4, <1>5, <1>6

\* A walk that fails does so at a directory that is broken, if nobody edits the tree.
LEMMA WalkFailureTells ==
  ASSUME GateInv, RootIsTrue, RunInv, RootFails \/ EntryFails \/ (\E e \in Pending : EnterFails(e))
  PROVE  RunInv'
<1>1. ASSUME NEW d \in Entries, pc = "walk", Fail("walk", d),
             IsUnedited(tree, seen) => IsBroken(d, tree)
      PROVE  RunInv'
  <2>1. prepared
    BY <1>1 DEF RunInv
  <2>2. Told(Error("walk", d), tree, prepared, seen)
    BY <1>1, <2>1, NamesOfOutcomes DEF Told
  <2> QED BY <1>1, <2>2, FailTells
<1>2. CASE RootFails
  <2> DEFINE r == Head(roots)
  <2>1. /\ pc = "walk" /\ Fail("walk", r) /\ ~ CanOpen(r)
        /\ roots \in Seq(Children(0)) /\ roots # <<>>
    BY <1>2 DEF RootFails, AtRoot, GateInv, GateTypes
  <2>2. r \in Entries
    BY <2>1, TailLosesHead DEF Children
  <2>3. PICK node \in seen[r] : node \in Directories
    BY <1>2 DEF RootFails, RootIsTrue
  <2>4. IsUnedited(tree, seen) => IsBroken(r, tree)
    BY <2>1, <2>2, <2>3 DEF IsUnedited, IsBroken, CanOpen, Directories
  <2> HIDE DEF r
  <2> QED BY <1>1, <2>1, <2>2, <2>4
<1>3. CASE EntryFails
  <2> DEFINE d == stack[Len(stack)].directory
  <2>1. /\ pc = "walk" /\ Fail("walk", d) /\ tree[d] = "flawed"
        /\ stack \in Seq(Call) /\ stack # <<>>
    BY <1>3 DEF EntryFails, IsFlawed, Last, GateInv, GateTypes
  <2>2. d \in Entries
    <3>1. Len(stack) \in DOMAIN stack
      BY <2>1, EmptySeq
    <3>2. stack[Len(stack)] \in Call
      BY <2>1, <3>1, ElementOfSeq
    <3> QED BY <3>2 DEF Call
  <2>3. IsBroken(d, tree)
    BY <2>1 DEF IsBroken
  <2> HIDE DEF d
  <2> QED BY <1>1, <2>1, <2>2, <2>3
<1>4. ASSUME NEW e \in Pending, EnterFails(e)
      PROVE  RunInv'
  <2> DEFINE d == e.entry
  <2>1. pc = "walk" /\ Fail("walk", d) /\ e.node \in Directories /\ ~ CanOpen(d)
    BY <1>4 DEF EnterFails, IsDirectory
  <2>2. d \in Entries /\ e.node \in seen[d]
    BY YieldedIsTrue DEF GateInv
  <2>3. IsUnedited(tree, seen) => IsBroken(d, tree)
    BY <2>1, <2>2 DEF IsUnedited, IsBroken, CanOpen, Directories
  <2> HIDE DEF d
  <2> QED BY <1>1, <2>1, <2>2, <2>3
<1> QED BY <1>2, <1>3, <1>4

\* An entry that is not on the list when it is sorted was well read, without a finding.
LEMMA SortFilesTells == GateInv /\ RunInv /\ SortFiles => RunInv'
<1> SUFFICES ASSUME GateInv, RunInv, SortFiles
             PROVE  RunInv'
  OBVIOUS
<1>1. /\ pc = "walk" /\ pc' = "scan" /\ files' = StableSort(files, <)
      /\ stack = <<>> /\ roots = <<>> /\ stack' = stack /\ roots' = roots
      /\ violations' = violations /\ outcome' = outcome
      /\ tree' = tree /\ seen' = seen /\ prepared' = prepared /\ previous' = previous
  BY DEF SortFiles, walking, world
<1>1a. DOMAIN <<>> = {}
  OBVIOUS
<1>1b. DOMAIN roots = {} /\ DOMAIN stack = {}
  BY <1>1, <1>1a, Zenon
<1>2. files \in Seq(SourceNamed) /\ files \in Seq(Nat)
  <2>1. SourceNamed \subseteq Nat
    BY GateAssumption DEF Entries
  <2> QED BY <2>1, SeqMonotonic DEF GateInv, GateTypes
<1>3. /\ files' \in Seq(Nat) /\ DOMAIN files' = DOMAIN files
      /\ \A i \in DOMAIN files : \E k \in DOMAIN files : files'[k] = files[i]
      /\ \A j, k \in DOMAIN files : j < k => ~ (files'[k] < files'[j])
      /\ IsReordering(files', files)
  BY <1>1, <1>2, SortFilesSorts
<1>4. PICK to \in Bijection(DOMAIN files, DOMAIN files) : \A i \in DOMAIN files : files'[to[i]] = files[i]
  BY <1>3 DEF IsReordering
<1>5. IsInjective(files)
  BY DEF RunInv, Once
<1>6. \A k \in DOMAIN files : \E i \in DOMAIN files : to[i] = k
  BY DEF Bijection, Surjection
<1>7. \A j, k \in DOMAIN files : files'[j] = files'[k] => j = k
  BY <1>4, <1>5, <1>6 DEF IsInjective
<1>8. /\ DOMAIN files \subseteq Nat
      /\ \A k \in DOMAIN files : files'[k] \in Nat
  <2>1. DOMAIN files' = 1 .. Len(files') /\ \A k \in 1 .. Len(files') : files'[k] \in Nat
    BY <1>3, ElementOfSeq
  <2> QED BY <1>3, <2>1
<1>9. \A i, j \in DOMAIN files' : i < j => files'[i] < files'[j]
  BY <1>3, <1>7, <1>8
<1>10. violations = <<>> /\ prepared
  BY <1>1 DEF RunInv
<1>11. ASSUME NEW n \in Entries
       PROVE  IF IsListed(n, files') THEN HasNone(n, violations') ELSE Settled(n, violations', seen')
  <2>1. HasNone(n, violations')
    <3>1. DOMAIN violations' = {}
      BY ONLY <1>1, <1>1a, <1>10
    <3> QED BY ONLY <3>1 DEF HasNone
  <2>2. ASSUME ~ IsListed(n, files')
        PROVE  Settled(n, violations', seen')
    <3>1. ~ Reached(n, roots, stack, files)
      <4>1. \A i \in DOMAIN files : files[i] # n
        BY <1>3, <2>2 DEF IsListed
      <4> QED BY <1>1b, <4>1 DEF Reached, Waits
    <3>2. WellRead(n)
      BY <1>1, <1>10, <3>1 DEF GateInv, NothingIsLost
    <3>3. PICK node \in SoundOf(n, seen) : Due(n, node) = <<>>
      BY <3>2 DEF WellRead, Sound, SoundOf
    <3> QED BY <1>1, <1>10, <3>3 DEF Settled
  <2> QED BY <2>1, <2>2
<1>12. Once(roots', stack', files')
  <2>1. IsInjective(files')
    BY <1>3, <1>7 DEF IsInjective
  <2>2. IsInjective(roots')
    BY <1>1, <1>1b DEF IsInjective
  <2>3. \A m : ~ Waits(m, roots', stack')
    BY <1>1, <1>1b DEF Waits
  <2>4. DOMAIN stack' = {}
    BY <1>1, <1>1b
  <2> QED BY <2>1, <2>2, <2>3, <2>4 DEF Once
<1>13. ReadsInOrder'
  BY <1>9, <1>11 DEF ReadsInOrder
<1> QED BY <1>1, <1>10, <1>12, <1>13 DEF RunInv

\* A file that is read settles its entry, and no other.
LEMMA ReadFileTells == GateInv /\ RunInv /\ ReadFile => RunInv'
<1> SUFFICES ASSUME GateInv, RunInv, ReadFile
             PROVE  RunInv'
  OBVIOUS
<1> DEFINE n == Head(files)
           found == Measure(n, tree[n])
           rest == Tail(files)
           len == Len(files)
<1>1. /\ pc = "scan" /\ pc' = "scan" /\ files # <<>> /\ files \in Seq(SourceNamed)
      /\ IsReadable(n, tree[n]) /\ violations' = violations \o found /\ files' = rest
      /\ stack' = stack /\ roots' = roots /\ outcome' = outcome
      /\ tree' = tree /\ seen' = seen /\ prepared' = prepared /\ previous' = previous
  BY DEF ReadFile, walking, world, GateInv, GateTypes
<1>2. /\ len \in Nat /\ len # 0 /\ DOMAIN files = 1 .. len /\ n = files[1] /\ n \in SourceNamed
      /\ DOMAIN rest = 1 .. len - 1 /\ \A j \in 1 .. len - 1 : rest[j] = files[j + 1]
  BY <1>1, HeadTailProperties, EmptySeq
<1>3. found \in Seq(Violation) /\ \A m : m # n => HasNone(m, found)
  BY <1>1, <1>2, MeasureType DEF HasNone
<1>4. /\ n \in Entries /\ tree[n] \in seen[n] /\ violations \in Seq(Violation)
  BY <1>2, GateAssumption DEF GateInv, GateTypes
<1>5. Due(n, tree[n]) = found /\ tree[n] \in SoundOf(n, seen)
  <2>1. tree[n] \in Files /\ tree[n] \notin Directories
    BY <1>1, GateAssumption DEF IsReadable, Files
  <2> QED BY <1>1, <1>2, <1>4, <2>1 DEF Due, IsFaulty, SoundOf, Directories
<1> HIDE DEF n, found, rest, len
<1>6. /\ \A i, j \in DOMAIN files : i < j => files[i] < files[j]
      /\ \A m \in Entries : IF IsListed(m, files) THEN HasNone(m, violations)
                                                  ELSE Settled(m, violations, seen)
  BY <1>1 DEF RunInv, ReadsInOrder
<1>7. \A j \in DOMAIN rest : j \in Nat /\ j + 1 \in DOMAIN files /\ rest[j] = files[j + 1] /\ 1 < j + 1
  BY <1>2
<1>8. 1 \in DOMAIN files /\ \A i \in DOMAIN files : i = 1 \/ (i - 1 \in DOMAIN rest /\ rest[i - 1] = files[i])
  <2>1. 1 \in DOMAIN files
    BY <1>2
  <2>2. ASSUME NEW i \in DOMAIN files, i # 1
        PROVE  i - 1 \in DOMAIN rest /\ rest[i - 1] = files[i]
    <3>1. i - 1 \in 1 .. len - 1 /\ (i - 1) + 1 = i
      BY <1>2, <2>2
    <3> QED BY <1>2, <3>1
  <2> QED BY <2>1, <2>2
<1>9. \A i, j \in DOMAIN rest : i < j => rest[i] < rest[j]
  BY <1>6, <1>7
<1>10. ~ IsListed(n, rest)
  <2> SUFFICES ASSUME NEW j \in DOMAIN rest, rest[j] = n
               PROVE  FALSE
    BY DEF IsListed
  <2>1. n < n
    BY <1>2, <1>6, <1>7, <1>8
  <2> QED BY <1>4, <2>1 DEF Entries
<1>11. IsListed(n, files) /\ \A m : m # n => (IsListed(m, files) <=> IsListed(m, rest))
  <2>1. IsListed(n, files)
    BY <1>2, <1>8 DEF IsListed
  <2>2. ASSUME NEW m, m # n, IsListed(m, files)
        PROVE  IsListed(m, rest)
    BY <1>2, <1>8, <2>2 DEF IsListed
  <2>3. ASSUME NEW m, IsListed(m, rest)
        PROVE  IsListed(m, files)
    BY <1>7, <2>3 DEF IsListed
  <2> QED BY <2>1, <2>2, <2>3
<1>12. ASSUME NEW m, HasNone(m, violations), HasNone(m, found)
       PROVE  HasNone(m, violations \o found)
  <2> DEFINE V == {v \in Violation : v.path # m}
  <2>1. violations \in Seq(V) /\ found \in Seq(V)
    <3>1. \A i \in DOMAIN violations : violations[i] \in V
      BY <1>4, <1>12, ElementOfSeq DEF HasNone
    <3>2. \A i \in DOMAIN found : found[i] \in V
      BY <1>3, <1>12, ElementOfSeq DEF HasNone
    <3>3. violations \in [1 .. Len(violations) -> V] /\ Len(violations) \in Nat
      BY <1>4, <3>1
    <3>4. found \in [1 .. Len(found) -> V] /\ Len(found) \in Nat
      BY <1>3, <3>2
    <3> QED BY <3>3, <3>4
  <2> HIDE DEF V
  <2>2. violations \o found \in Seq(V)
    BY <2>1, ConcatProperties
  <2>3. \A i \in DOMAIN (violations \o found) : (violations \o found)[i] \in V
    BY <2>2, ElementOfSeq
  <2> QED BY <2>3 DEF HasNone, V
<1>13. ASSUME NEW m \in Entries
       PROVE  IF IsListed(m, rest) THEN HasNone(m, violations \o found)
                                   ELSE Settled(m, violations \o found, seen)
  <2>1. CASE m = n
    <3>1. HasNone(n, violations)
      BY <1>4, <1>6, <1>11
    <3>2. ASSUME NEW v \in Violation, v.path = n
          PROVE  Times(violations \o found, v) = Times(found, v)
      <4>1. \A i \in DOMAIN violations : violations[i] # v
        BY <3>1, <3>2 DEF HasNone
      <4> QED BY <1>3, <1>4, <4>1, TimesOfConcat
    <3>3. Settled(n, violations \o found, seen)
      BY <1>5, <3>2 DEF Settled
    <3> QED BY <1>10, <2>1, <3>3
  <2>2. CASE m # n /\ IsListed(m, rest)
    <3>1. HasNone(m, violations) /\ HasNone(m, found)
      BY <1>3, <1>6, <1>11, <2>2
    <3> QED BY <1>12, <2>2, <3>1
  <2>3. CASE m # n /\ ~ IsListed(m, rest)
    <3>1. Settled(m, violations, seen) /\ HasNone(m, found)
      BY <1>3, <1>6, <1>11, <2>3
    <3>2. ASSUME NEW v \in Violation, v.path = m
          PROVE  Times(violations \o found, v) = Times(violations, v)
      <4>1. \A i \in DOMAIN found : found[i] # v
        BY <3>1, <3>2 DEF HasNone
      <4> QED BY <1>3, <1>4, <4>1, TimesOfConcat
    <3>3. Settled(m, violations \o found, seen)
      BY <3>1, <3>2, SettledStays
    <3> QED BY <2>3, <3>3
  <2> QED BY <2>1, <2>2, <2>3
<1>14. ReadsInOrder'
  <2>1. \A m \in Entries : IF IsListed(m, files') THEN HasNone(m, violations')
                                                  ELSE Settled(m, violations', seen')
    BY <1>1, <1>13
  <2>2. \A i, j \in DOMAIN files' : i < j => files'[i] < files'[j]
    BY <1>1, <1>9
  <2> QED BY <2>1, <2>2 DEF ReadsInOrder
<1>15. Once(roots', stack', files')
  <2>1. roots = <<>> /\ stack = <<>>
    BY <1>1 DEF GateInv, GatePhases
  <2>2. DOMAIN <<>> = {}
    OBVIOUS
  <2>3. DOMAIN stack' = {} /\ \A m : ~ Waits(m, roots', stack')
    BY <1>1, <2>1, <2>2, Zenon DEF Waits
  <2>4. IsInjective(files) /\ IsInjective(roots)
    BY DEF RunInv, Once
  <2>5. IsInjective(rest)
    BY <1>7, <2>4 DEF IsInjective
  <2> QED BY <1>1, <2>3, <2>4, <2>5 DEF Once
<1> QED BY <1>1, <1>14, <1>15 DEF RunInv

\* The first file that cannot be read is the first faulty entry of the tree, if
\* nobody edits it.
LEMMA ReadFailsTells == GateInv /\ RunInv /\ ReadFails => RunInv'
<1> SUFFICES ASSUME GateInv, RunInv, ReadFails
             PROVE  RunInv'
  OBVIOUS
<1> DEFINE n == Head(files)
           len == Len(files)
<1>1. /\ pc = "scan" /\ files # <<>> /\ files \in Seq(SourceNamed)
      /\ ~ IsReadable(n, tree[n]) /\ Fail("scan", n) /\ prepared
  BY DEF ReadFails, GateInv, GateTypes, RunInv
<1>2. len \in Nat /\ len # 0 /\ DOMAIN files = 1 .. len /\ n = files[1] /\ n \in SourceNamed
  BY <1>1, HeadTailProperties, EmptySeq
<1>3. n \in Entries
  BY <1>2, GateAssumption
<1> HIDE DEF n, len
<1>4. ASSUME IsUnedited(tree, seen), NEW m \in Entries, IsListed(m, files)
      PROVE  tree[m] \in Files /\ n =< m
  <2>1. PICK i \in DOMAIN files : files[i] = m
    BY <1>4 DEF IsListed
  <2>2. tree[m] \in Files
    BY <1>4, <2>1 DEF GateInv, ListingsAreTrue, WasFile, IsUnedited
  <2>3. \A j \in DOMAIN files : 1 < j => files[1] < files[j]
    BY <1>1, <1>2 DEF RunInv, ReadsInOrder
  <2>4. n =< m
    BY <1>2, <1>3, <2>1, <2>3 DEF Entries
  <2> QED BY <2>2, <2>4
<1>5. ASSUME IsUnedited(tree, seen), NEW m \in Entries, ~ IsListed(m, files)
      PROVE  ~ IsFaulty(m, tree[m])
  <2>1. Settled(m, violations, seen)
    BY <1>1, <1>5 DEF RunInv, ReadsInOrder
  <2>2. seen[m] = {tree[m]}
    BY <1>5 DEF IsUnedited
  <2> QED BY <2>1, <2>2 DEF Settled, SoundOf
<1>6. IsListed(n, files)
  BY <1>2 DEF IsListed
<1>7. IsUnedited(tree, seen) => IsFirstFault(n, tree)
  <2> SUFFICES ASSUME IsUnedited(tree, seen)
               PROVE  IsFirstFault(n, tree)
    OBVIOUS
  <2>1. IsFaulty(n, tree[n])
    BY <1>1, <1>2, <1>3, <1>4, <1>6 DEF IsFaulty
  <2>2. ASSUME NEW m \in Entries
        PROVE  ~ IsBroken(m, tree) /\ (m < n => ~ IsFaulty(m, tree[m]))
    <3>1. CASE IsListed(m, files)
      <4>1. tree[m] \in Files /\ n =< m
        BY <1>4, <3>1
      <4>2. ~ IsBroken(m, tree)
        BY <4>1, NamesOfNodes DEF IsBroken, Directories
      <4> QED BY <1>3, <4>1, <4>2 DEF Entries
    <3>2. CASE ~ IsListed(m, files)
      BY <1>5, <3>2 DEF IsFaulty, IsBroken
    <3> QED BY <3>1, <3>2
  <2> QED BY <2>1, <2>2 DEF IsFirstFault
<1>8. Told(Error("scan", n), tree, prepared, seen)
  BY <1>1, <1>3, <1>7, NamesOfOutcomes DEF Told
<1> QED BY <1>1, <1>8, FailTells

\* The report says of every entry what was found, and in order.
LEMMA FinishScanTells == GateInv /\ RunInv /\ FinishScan => RunInv'
<1> SUFFICES ASSUME GateInv, RunInv, FinishScan
             PROVE  RunInv'
  OBVIOUS
<1> DEFINE sorted == SortViolations(violations)
<1>1. /\ pc = "scan" /\ files = <<>> /\ outcome' = Report(sorted) /\ violations' = <<>>
      /\ pc' = "render" /\ files' = files /\ stack' = stack /\ roots' = roots
      /\ tree' = tree /\ seen' = seen /\ prepared' = prepared /\ previous' = previous
  BY DEF FinishScan, walking, world
<1>2. /\ violations \in Seq(Violation) /\ DOMAIN sorted = DOMAIN violations
      /\ \A j, k \in DOMAIN violations : j < k => ~ Before(sorted[k], sorted[j])
      /\ IsReordering(sorted, violations)
  BY SortViolationsSorts DEF GateInv, GateTypes
<1> HIDE DEF sorted
<1>3. IsOrdered(sorted)
  BY <1>2 DEF IsOrdered
<1>4. ASSUME NEW n \in Entries
      PROVE  Settled(n, sorted, seen)
  <2>1. ~ IsListed(n, files)
    <3>1. DOMAIN <<>> = {}
      OBVIOUS
    <3> QED BY <1>1, <3>1, Zenon DEF IsListed
  <2>2. Settled(n, violations, seen)
    BY <1>1, <2>1 DEF RunInv, ReadsInOrder
  <2>3. \A v : Times(sorted, v) = Times(violations, v)
    BY <1>2, ReorderingKeepsTimes
  <2> QED BY <2>2, <2>3, SettledStays
<1>5. Told(Report(sorted), tree, prepared, seen)
  <2>1. prepared
    BY <1>1 DEF RunInv
  <2> QED BY <1>3, <1>4, <2>1, NamesOfOutcomes DEF Told
<1> QED BY <1>1, <1>5 DEF RunInv

\* What else the process does, and a second run, change nothing that was said.
LEMMA RenderTells == GateInv /\ RunInv /\ (Render \/ CheckAgain) => RunInv'
<1> SUFFICES ASSUME GateInv, RunInv, Render \/ CheckAgain
             PROVE  RunInv'
  OBVIOUS
<1>1. /\ pc \in {"render", "exited"} /\ pc' \in {"exited", "setup"}
      /\ files' = files /\ stack' = stack /\ roots' = roots /\ violations' = violations
      /\ tree' = tree /\ seen' = seen /\ prepared' = prepared
      /\ \/ outcome' = outcome /\ previous' = previous
         \/ outcome' = NoOutcome /\ previous' = outcome
  BY DEF Render, CheckAgain, walking, world
<1>2. Told(outcome', tree', prepared', seen') /\ Told(previous', tree', prepared', seen')
  BY <1>1, NothingTold DEF RunInv
<1> QED BY <1>1, <1>2 DEF RunInv

\* An edit leaves true what was found, and nothing is said of the tree any more.
LEMMA EditTells ==
  ASSUME GateInv, RunInv, NEW n \in Entries, NEW node \in Possible[n], Edit(n, node)
  PROVE  RunInv'
<1>1. /\ pc \notin {"render", "exited"} /\ tree[n] # node /\ tree' = [tree EXCEPT ![n] = node]
      /\ seen' = [seen EXCEPT ![n] = @ \cup {node}]
      /\ pc' = pc /\ files' = files /\ stack' = stack /\ roots' = roots
      /\ violations' = violations /\ outcome' = outcome
      /\ prepared' = prepared /\ previous' = previous
  BY DEF Edit, process, walking
<1>2. DOMAIN tree = Entries /\ seen \in [Entries -> SUBSET Nodes] /\ tree[n] \in seen[n]
  BY DEF GateInv, GateTypes, IsTree
<1>3. \A m \in Entries : seen[m] \subseteq seen'[m]
  BY <1>1, <1>2
<1>4. ~ IsUnedited(tree', seen')
  <2>1. tree[n] \in seen'[n] /\ node \in seen'[n] /\ tree'[n] = node
    BY <1>1, <1>2
  <2> QED BY <1>1, <2>1 DEF IsUnedited
<1>5. outcome' = NoOutcome
  BY <1>1 DEF GateInv, GatePhases, GateTypes
<1>6. Told(outcome', tree', prepared', seen') /\ Told(previous', tree', prepared', seen')
  <2>1. Told(previous, tree', prepared, seen')
    BY <1>3, <1>4, ToldStays DEF RunInv
  <2> QED BY <1>1, <1>5, <2>1, NothingTold
<1>7. pc = "scan" => ReadsInOrder'
  <2> SUFFICES ASSUME pc = "scan"
               PROVE  ReadsInOrder'
    OBVIOUS
  <2>1. ASSUME NEW m \in Entries, Settled(m, violations, seen)
        PROVE  Settled(m, violations, seen')
    BY <1>3, <2>1, SettledStays
  <2> QED BY <1>1, <2>1 DEF RunInv, ReadsInOrder
<1> QED BY <1>1, <1>6, <1>7 DEF RunInv

\* Every step keeps what a run has found and said true.
LEMMA RunInvStep == GateInv /\ RootIsTrue /\ RunInv /\ [Next]_vars => RunInv'
<1> SUFFICES ASSUME GateInv, RootIsTrue, RunInv, [Next]_vars
             PROVE  RunInv'
  OBVIOUS
<1>1. CASE SetupFails \/ SetupPasses
  BY <1>1, SetupTells
<1>2. CASE Walker
  BY <1>2, WalkerTells, WalkFailureTells, SortFilesTells DEF Walker
<1>3. CASE ReadFile \/ ReadFails \/ FinishScan \/ Render \/ CheckAgain
  BY <1>3, ReadFileTells, ReadFailsTells, FinishScanTells, RenderTells
<1>4. ASSUME NEW n \in Entries, NEW node \in Possible[n], Edit(n, node)
      PROVE  RunInv'
  BY <1>4, EditTells
<1>5. CASE UNCHANGED vars
  <2>1. /\ pc' = pc /\ files' = files /\ stack' = stack /\ roots' = roots
        /\ violations' = violations /\ outcome' = outcome
        /\ tree' = tree /\ seen' = seen /\ prepared' = prepared /\ previous' = previous
    BY <1>5 DEF vars, process, walking, world
  <2> QED BY <2>1 DEF RunInv, ReadsInOrder
<1> QED BY <1>1, <1>2, <1>3, <1>4, <1>5 DEF Next, Process

\* So it is true always.
LEMMA RunInvHolds == Spec => []RunInv
BY RunInvInit, RunInvStep, GateInvHolds, PTL DEF Spec

-----------------------------------------------------------------------------
\* What an entry calls for is violations.
LEMMA DueType ==
  ASSUME NEW n \in Entries, NEW was, NEW node \in SoundOf(n, was)
  PROVE  Due(n, node) \in Seq(Violation)
<1>1. CASE node \in Files /\ n \in SourceNamed
  <2>1. ~ IsFaulty(n, node)
    <3>1. node # "directory"
      BY <1>1, NamesOfNodes DEF Directories
    <3> QED BY <3>1 DEF SoundOf
  <2>2. IsReadable(n, node)
    BY <1>1, <2>1 DEF IsFaulty
  <2>3. Measure(n, node) \in Seq(Violation)
    BY <1>1, <2>2, MeasureType
  <2> QED BY <1>1, <2>3 DEF Due
<1>2. CASE ~ (node \in Files /\ n \in SourceNamed)
  BY <1>2 DEF Due
<1> QED BY <1>1, <1>2

\* A report leaves nothing out, makes nothing up and says nothing twice, whatever is
\* edited under the walk: what it says of an entry is what the limits say of something
\* that the entry was during the run, as often, and in the order of path, line and rule.
THEOREM ReportsAreTrue == Spec => []ReportWasTrue
<1>1. GateInv /\ RunInv => ReportWasTrue
  <2> SUFFICES ASSUME GateInv, RunInv, outcome.kind = "report"
               PROVE  ReportWasTrue
    BY DEF ReportWasTrue, ReportIsOrdered
  <2> DEFINE s == outcome.violations
  <2>1. IsOrdered(s) /\ \A n \in Entries : Settled(n, s, seen)
    BY DEF RunInv, Told
  <2>2. ReportIsOrdered
    BY <2>1 DEF ReportIsOrdered, IsOrdered
  <2>3. s \in Seq(Violation)
    BY OutcomeKinds DEF GateInv, GateTypes
  <2>4. ASSUME NEW n \in Entries
        PROVE  \E node \in Sound(n) :
                 \A v \in ToSet(s) \cup ToSet(Due(n, node)) :
                   v.path = n => Times(s, v) = Times(Due(n, node), v)
    <3>1. PICK node \in SoundOf(n, seen) :
                 \A v \in Violation : v.path = n => Times(s, v) = Times(Due(n, node), v)
      BY <2>1 DEF Settled
    <3>2. node \in Sound(n)
      BY DEF Sound, SoundOf
    <3>3. Due(n, node) \in Seq(Violation)
      BY DueType
    <3>4. ToSet(s) \subseteq Violation /\ ToSet(Due(n, node)) \subseteq Violation
      BY <2>3, <3>3, ElementOfSeq DEF ToSet
    <3> HIDE DEF s
    <3> QED BY <3>1, <3>2, <3>4
  <2> QED BY <2>2, <2>4 DEF ReportWasTrue
<1> QED BY <1>1, GateInvHolds, RunInvHolds, PTL

\* Two reports of the same tree are the same.
LEMMA ReportsOfOneTree ==
  ASSUME NEW s \in Seq(Violation), NEW t \in Seq(Violation), NEW is, NEW was,
         IsUnedited(is, was), IsOrdered(s), IsOrdered(t),
         \A n \in Entries : Settled(n, s, was) /\ Settled(n, t, was)
  PROVE  s = t
<1>1. ASSUME NEW v \in Violation
      PROVE  Times(s, v) = Times(t, v)
  <2> DEFINE n == v.path
  <2>1. n \in Entries
    BY GateAssumption DEF Violation
  <2>2. \A node \in SoundOf(n, was) : node = is[n]
    BY <2>1 DEF SoundOf, IsUnedited
  <2>3. PICK node \in SoundOf(n, was) : Times(s, v) = Times(Due(n, node), v)
    BY <2>1 DEF Settled
  <2>4. PICK other \in SoundOf(n, was) : Times(t, v) = Times(Due(n, other), v)
    BY <2>1 DEF Settled
  <2>5. node = other
    BY <2>2
  <2> QED BY <2>3, <2>4, <2>5
<1> QED BY <1>1, OrderedIsUnique

\* Two runs over one tree that nobody edits end in the same report or, if a file is
\* what stops them, in the same error.
THEOREM RunsAgreeOnOneTree == Spec => []RunsAgree
<1>1. GateInv /\ RunInv => RunsAgree
  <2> SUFFICES ASSUME GateInv, RunInv, previous # NoOutcome, outcome # NoOutcome, Edited = {}
               PROVE  \/ outcome = previous
                      \/ \A o \in {outcome, previous} : o.kind = "error" /\ o.phase = "walk"
    BY DEF RunsAgree
  <2>1. IsUnedited(tree, seen)
    BY DEF Edited, IsUnedited
  <2> DEFINE IsReport(o) == /\ prepared /\ o = Report(o.violations) /\ o.violations \in Seq(Violation)
                            /\ IsOrdered(o.violations)
                            /\ \A n \in Entries : Settled(n, o.violations, seen)
             IsWalkError(o) == /\ o.kind = "error" /\ o.phase = "walk"
                               /\ prepared /\ \E n \in Entries : IsBroken(n, tree)
             IsScanError(o) == prepared /\ \E n \in Entries : o = Error("scan", n) /\ IsFirstFault(n, tree)
             IsSetupError(o) == o = Error("setup", 0) /\ ~ prepared
  <2>2. ASSUME NEW o \in Outcome, o # NoOutcome, Told(o, tree, prepared, seen)
        PROVE  IsReport(o) \/ IsWalkError(o) \/ IsScanError(o) \/ IsSetupError(o)
    <3>1. CASE o.kind = "report"
      BY <2>2, <3>1, OutcomeKinds DEF Told
    <3>2. CASE o.kind = "error"
      BY <2>1, <2>2, <3>2, NamesOfOutcomes DEF Told
    <3> QED BY <2>2, <3>1, <3>2, OutcomeKinds
  <2>3. ASSUME NEW o, NEW u, IsReport(o), IsReport(u)
        PROVE  o = u
    BY <2>1, <2>3, ReportsOfOneTree
  <2>4. ASSUME NEW o, IsReport(o), NEW n \in Entries
        PROVE  ~ IsFaulty(n, tree[n])
    <3>1. Settled(n, o.violations, seen) /\ seen[n] = {tree[n]}
      BY <2>1, <2>4 DEF IsUnedited
    <3> QED BY <3>1 DEF Settled, SoundOf
  <2>5. \A n : IsBroken(n, tree) => IsFaulty(n, tree[n])
    BY DEF IsBroken, IsFaulty
  <2>6. ASSUME NEW o, NEW u, IsScanError(o), IsScanError(u)
        PROVE  o = u
    <3>1. PICK n \in Entries : o = Error("scan", n) /\ IsFirstFault(n, tree)
      BY <2>6
    <3>2. PICK m \in Entries : u = Error("scan", m) /\ IsFirstFault(m, tree)
      BY <2>6
    <3>3. ~ (m < n) /\ ~ (n < m)
      BY <3>1, <3>2 DEF IsFirstFault
    <3>4. n = m
      BY <3>3 DEF Entries
    <3> QED BY <3>1, <3>2, <3>4
  <2>7. ASSUME NEW o, NEW u, IsReport(o), IsWalkError(u) \/ IsScanError(u)
        PROVE  FALSE
    BY <2>4, <2>5, <2>7 DEF IsFirstFault
  <2>8. ASSUME NEW o, NEW u, IsWalkError(o), IsScanError(u)
        PROVE  FALSE
    BY <2>8 DEF IsFirstFault
  <2>9. /\ IsReport(outcome) \/ IsWalkError(outcome) \/ IsScanError(outcome) \/ IsSetupError(outcome)
        /\ IsReport(previous) \/ IsWalkError(previous) \/ IsScanError(previous) \/ IsSetupError(previous)
    BY <2>2 DEF RunInv, GateInv, GateTypes
  <2>10. \A o : IsSetupError(o) => ~ prepared /\ o = Error("setup", 0)
    OBVIOUS
  <2>11. \A o : IsReport(o) \/ IsWalkError(o) \/ IsScanError(o) => prepared
    OBVIOUS
  <2>12. \A o : IsWalkError(o) => o.kind = "error" /\ o.phase = "walk"
    OBVIOUS
  <2> HIDE DEF IsReport, IsWalkError, IsScanError, IsSetupError
  <2> QED BY <2>3, <2>6, <2>7, <2>8, <2>9, <2>10, <2>11, <2>12
<1> QED BY <1>1, GateInvHolds, RunInvHolds, PTL
=============================================================================
