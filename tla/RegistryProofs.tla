--------------------------- MODULE RegistryProofs ---------------------------
(***************************************************************************)
(* Proofs about module Registry, for every set of patterns, every query    *)
(* and lists of every length.  The inductive invariant is RegistryInv: the *)
(* answer is the best one because the snapshot is strictly ordered, no     *)
(* entry that was passed over answers the query, and of two entries that   *)
(* own one name the order puts first the one that the policy prefers.      *)
(***************************************************************************)
EXTENDS Registry, NameProofs

USE DEF First

-----------------------------------------------------------------------------
\* The order of a snapshot.

\* The rank of an exact pattern is the least one; wildcards come after it, those
\* with more labels first.
LEMMA RankOrder ==
  ASSUME NEW p \in Pattern, NEW q \in Pattern
  PROVE  /\ p.kind = "Exact" /\ q.kind = "Exact" => ResolutionRank(p) = ResolutionRank(q)
         /\ p.kind = "Exact" /\ q.kind = "Wildcard" => RankLess(ResolutionRank(p), ResolutionRank(q))
         /\ p.kind = "Wildcard" /\ q.kind = "Wildcard" =>
              /\ RankLess(ResolutionRank(p), ResolutionRank(q))
                   <=> LabelCount(q.name) < LabelCount(p.name)
              /\ ResolutionRank(p) = ResolutionRank(q)
                   <=> LabelCount(q.name) = LabelCount(p.name)
<1>1. LabelCount(p.name) \in Nat /\ LabelCount(q.name) \in Nat
  BY DotsAreFinite DEF Pattern
<1>2. UsizeMax \in Nat
  BY NamesAssumption
<1> QED BY <1>1, <1>2 DEF ResolutionRank, RankLess

\* The comparator never calls a rank less than itself, nor two ranks each less
\* than the other.
LEMMA RankAsymmetric ==
  ASSUME NEW p \in Pattern, NEW q \in Pattern,
         RankLess(ResolutionRank(p), ResolutionRank(q))
  PROVE  /\ ~ RankLess(ResolutionRank(q), ResolutionRank(p))
         /\ ResolutionRank(p) # ResolutionRank(q)
<1>1. LabelCount(p.name) \in Nat /\ LabelCount(q.name) \in Nat
  BY DotsAreFinite DEF Pattern
<1>2. UsizeMax \in Nat
  BY NamesAssumption
<1> QED BY <1>1, <1>2 DEF ResolutionRank, RankLess, Pattern

\* No pattern comes before itself.
LEMMA PrecedesIrreflexive ==
  ASSUME NEW p \in Pattern
  PROVE  ~ Precedes(p, p)
<1>1. ~ RankLess(ResolutionRank(p), ResolutionRank(p))
  BY RankAsymmetric
<1>2. ~ TextLess(p.name, p.name)
  BY TextLessIrreflexive DEF Pattern
<1> QED BY <1>1, <1>2 DEF Precedes, PatternLess

\* The comparator orders any two different patterns.
LEMMA PrecedesTotal ==
  ASSUME NEW p \in Pattern, NEW q \in Pattern, p # q
  PROVE  Precedes(p, q) \/ Precedes(q, p)
<1>0. /\ p.kind \in {"Exact", "Wildcard"} /\ p.name \in Text
      /\ q.kind \in {"Exact", "Wildcard"} /\ q.name \in Text
  BY DEF Pattern
<1>1. CASE p.kind # q.kind
  BY <1>0, <1>1, RankOrder DEF Precedes
<1>2. CASE p.kind = q.kind
  <2>1. p.name # q.name
    BY <1>2 DEF Pattern
  <2>2. TextLess(p.name, q.name) \/ TextLess(q.name, p.name)
    BY <1>0, <2>1, TextLessTotal
  <2>3. PatternLess(p, q) \/ PatternLess(q, p)
    BY <1>2, <2>2 DEF PatternLess
  <2>4. \/ RankLess(ResolutionRank(p), ResolutionRank(q))
        \/ RankLess(ResolutionRank(q), ResolutionRank(p))
        \/ ResolutionRank(p) = ResolutionRank(q)
    <3>1. LabelCount(p.name) \in Nat /\ LabelCount(q.name) \in Nat
      BY <1>0, DotsAreFinite
    <3>2. \A m, n \in Nat : m < n \/ n < m \/ m = n
      OBVIOUS
    <3> QED BY <1>0, <1>2, <3>1, <3>2, RankOrder
  <2> QED BY <2>3, <2>4 DEF Precedes
<1> QED BY <1>1, <1>2

\* Of two patterns that own one name, the one that the snapshot puts first is
\* the one that the policy prefers.
THEOREM PrecedesIsPreference ==
  ASSUME NEW p \in Pattern, NEW q \in Pattern, NEW name \in Text,
         Owns(p, name), Owns(q, name), Precedes(p, q)
  PROVE  Outranks(p, q)
<1>0. p.kind \in {"Exact", "Wildcard"} /\ q.kind \in {"Exact", "Wildcard"}
  BY DEF Pattern
<1>1. p # q
  BY PrecedesIrreflexive
<1>2. CASE p.kind = "Exact" /\ q.kind = "Exact"
  BY <1>1, <1>2 DEF Owns, Pattern
<1>3. CASE p.kind = "Exact" /\ q.kind = "Wildcard"
  BY <1>3 DEF Outranks
<1>4. CASE p.kind = "Wildcard" /\ q.kind = "Exact"
  <2>1. RankLess(ResolutionRank(q), ResolutionRank(p))
    BY <1>4, RankOrder
  <2> QED BY <2>1, RankAsymmetric DEF Precedes
<1>5. CASE p.kind = "Wildcard" /\ q.kind = "Wildcard"
  <2>1. LabelCount(p.name) # LabelCount(q.name)
    BY <1>1, <1>5, OneOwnerPerLabelCount
  <2>2. LabelCount(q.name) < LabelCount(p.name)
    BY <1>5, <2>1, RankOrder DEF Precedes
  <2> QED BY <1>5, <2>2 DEF Outranks
<1> QED BY <1>0, <1>2, <1>3, <1>4, <1>5

\* What a sort returns: a list of the same entries, no later one of which comes
\* before an earlier one.
LEMMA SortingFacts ==
  ASSUME NEW list \in Seq(Mapping), NEW sorted \in Sortings(list)
  PROVE  /\ sorted \in Seq(Mapping)
         /\ Len(sorted) = Len(list)
         /\ \E order \in [1 .. Len(list) -> 1 .. Len(list)] :
              /\ \A i, j \in 1 .. Len(list) : order[i] = order[j] => i = j
              /\ \A i \in 1 .. Len(list) : sorted[i] = list[order[i]]
         /\ \A i, j \in 1 .. Len(list) :
              i < j => ~ Precedes(sorted[j].pattern, sorted[i].pattern)
<1>0. DOMAIN list = 1 .. Len(list) /\ Len(list) \in Nat
  OBVIOUS
<1>1. PICK order \in [1 .. Len(list) -> 1 .. Len(list)] :
        /\ \A i, j \in 1 .. Len(list) : order[i] = order[j] => i = j
        /\ \A i, j \in 1 .. Len(list) :
             i < j => ~ Precedes(list[order[j]].pattern, list[order[i]].pattern)
        /\ sorted = [i \in 1 .. Len(list) |-> list[order[i]]]
  BY <1>0 DEF Sortings
<1>2. \A i \in 1 .. Len(list) : list[order[i]] \in Mapping
  BY <1>1, ElementOfSeq
<1>3. sorted \in [1 .. Len(list) -> Mapping]
  BY <1>1, <1>2
<1>4. sorted \in Seq(Mapping) /\ Len(sorted) = Len(list)
  BY <1>0, <1>3
<1> QED BY <1>1, <1>4

\* A sorted list without a repeated pattern is strictly ordered.
LEMMA SortedIsStrict ==
  ASSUME NEW list \in Seq(Mapping), NEW sorted \in Sortings(list),
         \A i, j \in 1 .. Len(list) : list[i].pattern = list[j].pattern => i = j
  PROVE  \A i, j \in DOMAIN sorted :
           i < j => Precedes(sorted[i].pattern, sorted[j].pattern)
<1>1. PICK order \in [1 .. Len(list) -> 1 .. Len(list)] :
        /\ \A i, j \in 1 .. Len(list) : order[i] = order[j] => i = j
        /\ \A i \in 1 .. Len(list) : sorted[i] = list[order[i]]
  BY SortingFacts
<1>2. sorted \in Seq(Mapping) /\ DOMAIN sorted = 1 .. Len(list) /\ Len(list) \in Nat
  BY SortingFacts
<1>3. SUFFICES ASSUME NEW i \in 1 .. Len(list), NEW j \in 1 .. Len(list), i < j
               PROVE  Precedes(sorted[i].pattern, sorted[j].pattern)
  BY <1>2
<1>4. sorted[i] \in Mapping /\ sorted[j] \in Mapping
  BY <1>2, ElementOfSeq
<1>5. sorted[i].pattern \in Pattern /\ sorted[j].pattern \in Pattern
  BY <1>4 DEF Mapping
<1>6. i # j
  BY <1>2, <1>3
<1>7. sorted[i].pattern # sorted[j].pattern
  BY <1>1, <1>6
<1>8. ~ Precedes(sorted[j].pattern, sorted[i].pattern)
  BY <1>3, SortingFacts
<1> QED BY <1>5, <1>7, <1>8, PrecedesTotal

-----------------------------------------------------------------------------
\* Types.

\* The registry starts with variables of their types,
LEMMA InitType == Init => TypeOK
BY RegistryAssumption DEF Init, TypeOK, Snapshot, Outcome, NoReply

\* Every step of the caller and of the two functions keeps the types.
LEMMA StepType == TypeOK /\ [Next]_vars => TypeOK'
<1> SUFFICES ASSUME TypeOK, [Next]_vars PROVE TypeOK'
  OBVIOUS
<1>1. CASE \E p \in Patterns, t \in Targets : AddMapping(p, t)
  <2>1. PICK p \in Patterns, t \in Targets : AddMapping(p, t)
    BY <1>1
  <2>2. MappingNew(p, t) \in Mapping
    BY RegistryAssumption DEF MappingNew, Mapping
  <2>3. draft' \in Seq(Mapping)
    BY <2>1, <2>2 DEF AddMapping, Edit, TypeOK
  <2> QED BY <2>1, <2>3 DEF AddMapping, Edit, TypeOK, newVars, Outcome, NoReply
<1>2. CASE \E i \in DOMAIN draft, on \in BOOLEAN : SetEnabled(i, on)
  <2>1. PICK i \in DOMAIN draft, on \in BOOLEAN : SetEnabled(i, on)
    BY <1>2
  <2>2. draft[i] \in Mapping
    BY ElementOfSeq DEF TypeOK
  <2>3. WithEnabled(draft[i], on) \in Mapping
    BY <2>2 DEF WithEnabled, Mapping
  <2>4. draft' = [draft EXCEPT ![i] = WithEnabled(draft[i], on)]
    BY <2>1 DEF SetEnabled, Edit
  <2>5. draft' \in Seq(Mapping)
    BY <2>3, <2>4, ExceptSeq DEF TypeOK
  <2> QED BY <2>1, <2>5 DEF SetEnabled, Edit, TypeOK, newVars, Outcome, NoReply
<1>3. CASE Checkout
  BY <1>3 DEF Checkout, Edit, TypeOK, newVars, Outcome, NoReply, Snapshot
<1>4. CASE \E r \in Revisions : CallNew(r)
  BY <1>4, RegistryAssumption DEF CallNew, TypeOK, Outcome, NoReply
<1>5. CASE \E name \in Queries : CallResolve(name)
  BY <1>5, RegistryAssumption DEF CallResolve, TypeOK, Outcome, NoReply, newVars
<1>6. CASE InsertPattern
  <2>1. mappings[cursor] \in Mapping
    BY <1>6, ElementOfSeq DEF InsertPattern, TypeOK
  <2> QED BY <1>6, <2>1 DEF InsertPattern, TypeOK, callerVars, Mapping
<1>7. CASE RejectDuplicate
  <2>1. mappings[cursor] \in Mapping
    BY <1>7, ElementOfSeq DEF RejectDuplicate, TypeOK
  <2>2. Duplicate(mappings[cursor].pattern) \in Outcome
    BY <2>1 DEF Duplicate, Outcome, Mapping
  <2> QED BY <1>7, <2>2 DEF RejectDuplicate, ReturnFromNew, TypeOK
<1>8. CASE SortMappings
  <2>1. PICK sorted \in Sortings(mappings) :
          snapshot' = [revision |-> revision, mappings |-> sorted]
    BY <1>8 DEF SortMappings
  <2>2. snapshot' \in Snapshot
    BY <2>1, SortingFacts DEF TypeOK, Snapshot
  <2> QED BY <1>8, <2>2 DEF SortMappings, ReturnFromNew, TypeOK, Outcome, Built
<1>9. CASE FindNext
  BY <1>9 DEF FindNext, TypeOK, callerVars, newVars
<1>10. CASE FindHit
  <2>1. snapshot.mappings[cursor] \in Mapping
    BY <1>10, ElementOfSeq DEF FindHit, TypeOK, Snapshot
  <2>2. Found(snapshot.mappings[cursor]) \in Outcome
    BY <2>1 DEF Found, Outcome
  <2> QED BY <1>10, <2>2 DEF FindHit, ReturnFromResolve, TypeOK, newVars
<1>11. CASE FindEnd
  BY <1>11 DEF FindEnd, ReturnFromResolve, TypeOK, newVars, Outcome, Unmapped
<1>12. CASE UNCHANGED vars
  BY <1>12 DEF vars, callerVars, newVars, TypeOK
<1> QED
  BY <1>1, <1>2, <1>3, <1>4, <1>5, <1>6, <1>7, <1>8, <1>9, <1>10, <1>11, <1>12
  DEF Next, Caller, Callee

\* The variables of the registry, its caller and its loops keep their types,
\* whatever lists are submitted and whatever the sort returns.
THEOREM TypeCorrect == Spec => []TypeOK
BY InitType, StepType, PTL DEF Spec

-----------------------------------------------------------------------------
\* The inductive invariant.

\* A step of the caller starts a call or forgets the last answer.
LEMMA CallerStep ==
  ASSUME Caller
  PROVE  /\ outcome' = NoReply
         /\ \/ pc' = "idle"
            \/ pc' = "insert" /\ cursor' = 1 /\ patterns' = {}
            \/ pc' = "find" /\ cursor' = 1
         /\ UNCHANGED snapshot
BY DEF Caller, AddMapping, SetEnabled, Checkout, Edit, CallNew, CallResolve, newVars

\* The registry starts in the invariant,
LEMMA InitInv == Init => RegistryInv
<1> SUFFICES ASSUME Init PROVE RegistryInv
  OBVIOUS
<1>1. TypeOK
  BY InitType
<1>2. StrictlyOrdered
  BY DEF Init, StrictlyOrdered
<1>3. InsertedSoFar /\ SkippedSoFar
  BY DEF Init, InsertedSoFar, SkippedSoFar
<1>4. AnswerIsBest
  BY DEF Init, AnswerIsBest, NoReply
<1> QED BY <1>1, <1>2, <1>3, <1>4 DEF RegistryInv

\* new leaves a strictly ordered list, because the loop before the sort has
\* seen every pattern and none of them twice.
LEMMA StepOrdered == RegistryInv /\ [Next]_vars => StrictlyOrdered'
<1> SUFFICES ASSUME RegistryInv, [Next]_vars PROVE StrictlyOrdered'
  OBVIOUS
<1> USE DEF RegistryInv
<1>1. CASE SortMappings
  <2>1. PICK sorted \in Sortings(mappings) :
          snapshot' = [revision |-> revision, mappings |-> sorted]
    BY <1>1 DEF SortMappings
  <2>2. mappings \in Seq(Mapping) /\ cursor \in Nat
    BY DEF TypeOK
  <2>3. cursor - 1 = Len(mappings)
    BY <1>1, <2>2 DEF SortMappings, InsertedSoFar
  <2>4. \A i, j \in 1 .. Len(mappings) :
          mappings[i].pattern = mappings[j].pattern => i = j
    BY <1>1, <2>3 DEF SortMappings, InsertedSoFar
  <2>5. \A i, j \in DOMAIN sorted : i < j => Precedes(sorted[i].pattern, sorted[j].pattern)
    BY <2>2, <2>4, SortedIsStrict
  <2> QED BY <2>1, <2>5 DEF StrictlyOrdered
<1>2. CASE UNCHANGED snapshot
  BY <1>2 DEF StrictlyOrdered
<1>3. SortMappings \/ UNCHANGED snapshot
  BY CallerStep DEF Next, Callee, InsertPattern, RejectDuplicate, FindNext, FindHit,
     FindEnd, ReturnFromResolve, callerVars, vars
<1> QED BY <1>1, <1>2, <1>3

\* Each pass of the loop in new keeps the set and the list in step.
LEMMA StepInserted == RegistryInv /\ [Next]_vars => InsertedSoFar'
<1> SUFFICES ASSUME RegistryInv, [Next]_vars PROVE InsertedSoFar'
  OBVIOUS
<1> USE DEF RegistryInv
<1>0. mappings \in Seq(Mapping) /\ cursor \in Nat \ {0}
  BY DEF TypeOK
<1>1. CASE Caller
  <2>1. CASE pc' # "insert"
    BY <2>1 DEF InsertedSoFar
  <2>2. CASE pc' = "insert"
    <3>1. /\ mappings' \in Seq(Mapping) /\ cursor' = 1 /\ patterns' = {}
      BY <1>1, <2>2, CallerStep, StepType DEF TypeOK
    <3>2. Len(mappings') \in Nat
      BY <3>1
    <3> QED BY <3>1, <3>2 DEF InsertedSoFar
  <2> QED BY <2>1, <2>2
<1>2. CASE InsertPattern
  <2>1. /\ pc = "insert" /\ cursor =< Len(mappings)
        /\ mappings[cursor].pattern \notin patterns
        /\ patterns' = patterns \cup {mappings[cursor].pattern}
        /\ cursor' = cursor + 1
        /\ UNCHANGED mappings
    BY <1>2 DEF InsertPattern
  <2>2. /\ patterns = {mappings[i].pattern : i \in 1 .. (cursor - 1)}
        /\ \A i, j \in 1 .. (cursor - 1) :
             mappings[i].pattern = mappings[j].pattern => i = j
    BY <2>1 DEF InsertedSoFar
  <2>3. /\ 1 .. (cursor' - 1) = (1 .. (cursor - 1)) \cup {cursor}
        /\ cursor' =< Len(mappings) + 1
    BY <1>0, <2>1
  <2>4. patterns' = {mappings[i].pattern : i \in 1 .. (cursor' - 1)}
    BY <2>1, <2>2, <2>3
  <2>5. \A i \in 1 .. (cursor - 1) : mappings[i].pattern # mappings[cursor].pattern
    BY <2>1, <2>2
  <2>6. \A i, j \in 1 .. (cursor' - 1) :
          mappings[i].pattern = mappings[j].pattern => i = j
    BY <2>2, <2>3, <2>5
  <2> QED BY <2>1, <2>3, <2>4, <2>6 DEF InsertedSoFar
<1>3. CASE RejectDuplicate \/ SortMappings
  BY <1>3 DEF RejectDuplicate, SortMappings, ReturnFromNew, InsertedSoFar
<1>4. CASE FindNext \/ FindHit \/ FindEnd
  BY <1>4 DEF FindNext, FindHit, FindEnd, ReturnFromResolve, InsertedSoFar
<1>5. CASE UNCHANGED vars
  BY <1>5 DEF vars, newVars, InsertedSoFar
<1> QED BY <1>1, <1>2, <1>3, <1>4, <1>5 DEF Next, Callee

\* Each pass of the search in resolve skips an entry that does not answer.
LEMMA StepSkipped == RegistryInv /\ [Next]_vars => SkippedSoFar'
<1> SUFFICES ASSUME RegistryInv, [Next]_vars PROVE SkippedSoFar'
  OBVIOUS
<1> USE DEF RegistryInv
<1>0. /\ snapshot.mappings \in Seq(Mapping) /\ Len(snapshot.mappings) \in Nat
      /\ cursor \in Nat \ {0}
  BY DEF TypeOK, Snapshot
<1>1. CASE Caller
  <2>1. CASE pc' # "find"
    BY <2>1 DEF SkippedSoFar
  <2>2. CASE pc' = "find"
    <3>1. cursor' = 1 /\ UNCHANGED snapshot
      BY <1>1, <2>2, CallerStep
    <3> QED BY <1>0, <3>1 DEF SkippedSoFar
  <2> QED BY <2>1, <2>2
<1>2. CASE FindNext
  <2>1. /\ pc = "find" /\ cursor =< Len(snapshot.mappings)
        /\ ~ Hits(snapshot.mappings[cursor], query)
        /\ cursor' = cursor + 1
        /\ UNCHANGED <<snapshot, query>>
    BY <1>2 DEF FindNext, callerVars
  <2>2. \A i \in 1 .. (cursor - 1) : ~ Hits(snapshot.mappings[i], query)
    BY <2>1 DEF SkippedSoFar
  <2>3. /\ 1 .. (cursor' - 1) = (1 .. (cursor - 1)) \cup {cursor}
        /\ cursor' =< Len(snapshot.mappings) + 1
    BY <1>0, <2>1
  <2> QED BY <2>1, <2>2, <2>3 DEF SkippedSoFar
<1>3. CASE InsertPattern \/ RejectDuplicate \/ SortMappings
  BY <1>3 DEF InsertPattern, RejectDuplicate, SortMappings, ReturnFromNew, SkippedSoFar
<1>4. CASE FindHit \/ FindEnd
  BY <1>4 DEF FindHit, FindEnd, ReturnFromResolve, SkippedSoFar
<1>5. CASE UNCHANGED vars
  BY <1>5 DEF vars, callerVars, SkippedSoFar
<1> QED BY <1>1, <1>2, <1>3, <1>4, <1>5 DEF Next, Callee

\* The test of the search is the policy's claim.
LEMMA HitsIsClaims ==
  ASSUME NEW m \in Mapping, NEW name \in Text
  PROVE  Hits(m, name) <=> Claims(m, name)
<1>1. m.pattern \in Pattern
  BY DEF Mapping
<1> QED BY <1>1, MatchesIsOwns DEF Hits, Claims

\* The first hit is the best of the snapshot: an entry before it does not claim
\* the name, and one after it is outranked.
LEMMA FirstHitIsBest ==
  ASSUME TypeOK, StrictlyOrdered, SkippedSoFar, FindHit
  PROVE  IsBest(snapshot.mappings[cursor], ToSet(snapshot.mappings), query)
<1> DEFINE list == snapshot.mappings
           best == list[cursor]
<1>1. /\ list \in Seq(Mapping) /\ Len(list) \in Nat /\ DOMAIN list = 1 .. Len(list)
      /\ query \in Text /\ cursor \in 1 .. Len(list)
      /\ Hits(best, query)
  BY DEF TypeOK, Snapshot, FindHit
<1>2. best \in Mapping /\ best.pattern \in Pattern
  <2>1. best \in Mapping
    BY <1>1, ElementOfSeq
  <2> QED BY <2>1 DEF Mapping
<1>3. best \in ToSet(list) /\ Claims(best, query)
  BY <1>1, <1>2, HitsIsClaims DEF ToSet
<1>4. ASSUME NEW other \in ToSet(list) \ {best}, Claims(other, query)
      PROVE  Outranks(best.pattern, other.pattern)
  <2>1. PICK i \in 1 .. Len(list) : list[i] = other
    BY <1>1, <1>4 DEF ToSet
  <2>2. other \in Mapping /\ other.pattern \in Pattern
    <3>1. other \in Mapping
      BY <1>1, <2>1, ElementOfSeq
    <3> QED BY <3>1 DEF Mapping
  <2>3. Hits(other, query)
    BY <1>1, <1>4, <2>2, HitsIsClaims
  <2>4. ~ (i < cursor)
    <3>1. \A j \in 1 .. (cursor - 1) : ~ Hits(list[j], query)
      BY DEF SkippedSoFar, FindHit
    <3> QED BY <1>1, <2>1, <2>3, <3>1
  <2>5. cursor < i
    BY <1>1, <1>4, <2>1, <2>4
  <2>6. Precedes(best.pattern, other.pattern)
    BY <1>1, <2>1, <2>5 DEF StrictlyOrdered
  <2>7. Owns(best.pattern, query) /\ Owns(other.pattern, query)
    BY <1>3, <1>4 DEF Claims
  <2> QED BY <1>1, <1>2, <2>2, <2>6, <2>7, PrecedesIsPreference
<1> QED BY <1>3, <1>4 DEF IsBest

\* A search that reaches the end has found that no entry claims the name.
LEMMA EndIsUnclaimed ==
  ASSUME TypeOK, SkippedSoFar, FindEnd
  PROVE  IsUnclaimed(ToSet(snapshot.mappings), query)
<1>1. /\ snapshot.mappings \in Seq(Mapping) /\ Len(snapshot.mappings) \in Nat
      /\ query \in Text /\ cursor \in Nat
  BY DEF TypeOK, Snapshot
<1>2. cursor - 1 = Len(snapshot.mappings)
  BY <1>1 DEF FindEnd, SkippedSoFar
<1>3. \A i \in 1 .. Len(snapshot.mappings) : ~ Hits(snapshot.mappings[i], query)
  BY <1>2 DEF FindEnd, SkippedSoFar
<1>4. \A m \in ToSet(snapshot.mappings) : m \in Mapping /\ ~ Hits(m, query)
  BY <1>1, <1>3, ElementOfSeq DEF ToSet
<1> QED BY <1>1, <1>4, HitsIsClaims DEF IsUnclaimed

\* A lookup returns the best answer, and no other step produces one.
LEMMA StepAnswer == RegistryInv /\ [Next]_vars => AnswerIsBest'
<1> SUFFICES ASSUME RegistryInv, [Next]_vars PROVE AnswerIsBest'
  OBVIOUS
<1> USE DEF RegistryInv
<1>1. CASE FindHit
  <2>1. IsBest(snapshot.mappings[cursor], ToSet(snapshot.mappings), query)
    BY <1>1, FirstHitIsBest
  <2> QED BY <1>1, <2>1 DEF FindHit, ReturnFromResolve, Found, AnswerIsBest
<1>2. CASE FindEnd
  <2>1. IsUnclaimed(ToSet(snapshot.mappings), query)
    BY <1>2, EndIsUnclaimed
  <2> QED BY <1>2, <2>1 DEF FindEnd, ReturnFromResolve, Unmapped, AnswerIsBest
<1>3. CASE Caller
  BY <1>3, CallerStep DEF NoReply, AnswerIsBest
<1>4. CASE RejectDuplicate \/ SortMappings
  BY <1>4 DEF RejectDuplicate, SortMappings, ReturnFromNew, Duplicate, Built, AnswerIsBest
<1>5. CASE InsertPattern \/ FindNext \/ UNCHANGED vars
  BY <1>5 DEF InsertPattern, FindNext, vars, callerVars, AnswerIsBest
<1> QED BY <1>1, <1>2, <1>3, <1>4, <1>5 DEF Next, Callee

\* and every step keeps it.
LEMMA StepInv == RegistryInv /\ [Next]_vars => RegistryInv'
BY StepType, StepOrdered, StepInserted, StepSkipped, StepAnswer DEF RegistryInv

\* Every snapshot is strictly ordered and free of repeated patterns; the loops
\* of new and of resolve keep their books; and every answer is the one that the
\* policy selects among the enabled mappings that own the name.
THEOREM RegistryCorrect ==
  Spec => [](StrictlyOrdered /\ LoopsSoFar /\ AnswerIsBest)
<1>1. Spec => []RegistryInv
  BY InitInv, StepInv, PTL DEF Spec
<1>2. RegistryInv => StrictlyOrdered /\ LoopsSoFar /\ AnswerIsBest
  BY DEF RegistryInv, LoopsSoFar
<1> QED BY <1>1, <1>2, PTL

-----------------------------------------------------------------------------
\* Refinement.

\* A sort loses no entry and adds none.
LEMMA SortKeepsEntries ==
  ASSUME NEW list \in Seq(Mapping), NEW sorted \in Sortings(list)
  PROVE  ToSet(sorted) = ToSet(list)
<1>1. PICK order \in [1 .. Len(list) -> 1 .. Len(list)] :
        /\ \A i, j \in 1 .. Len(list) : order[i] = order[j] => i = j
        /\ \A i \in 1 .. Len(list) : sorted[i] = list[order[i]]
  BY SortingFacts
<1>2. /\ DOMAIN sorted = 1 .. Len(list) /\ DOMAIN list = 1 .. Len(list)
      /\ Len(list) \in Nat
  BY SortingFacts
<1>3. order \in Injection(1 .. Len(list), 1 .. Len(list))
  BY <1>1 DEF Injection, IsInjective
<1>4. IsFiniteSet(1 .. Len(list))
  BY <1>2, FS_Interval
<1>5. order \in Surjection(1 .. Len(list), 1 .. Len(list))
  BY <1>3, <1>4, FS_Injection
<1>6. \A j \in 1 .. Len(list) : \E i \in 1 .. Len(list) : order[i] = j
  BY <1>5 DEF Surjection
<1>7. ToSet(sorted) = {sorted[i] : i \in 1 .. Len(list)}
      /\ ToSet(list) = {list[i] : i \in 1 .. Len(list)}
  BY <1>2 DEF ToSet
<1>8. {sorted[i] : i \in 1 .. Len(list)} \subseteq {list[i] : i \in 1 .. Len(list)}
  BY <1>1
<1>9. {list[i] : i \in 1 .. Len(list)} \subseteq {sorted[i] : i \in 1 .. Len(list)}
  <2>1. ASSUME NEW j \in 1 .. Len(list)
        PROVE  \E i \in 1 .. Len(list) : sorted[i] = list[j]
    BY <1>1, <1>6
  <2> QED BY <2>1
<1> QED BY <1>7, <1>8, <1>9

\* The copy of the policy that the instance of Resolution holds counts labels
\* as the original does.
LEMMA SameCardinality == \A S : Abstract!Cardinality(S) = Cardinality(S)
BY Zenon DEF Cardinality, Abstract!Cardinality

\* Each step of the detailed registry is a step of module Resolution, or none.
LEMMA StepRefines ==
  RegistryInv /\ [Next]_vars => [Abstract!SpecNext]_(Abstract!specVars)
<1> SUFFICES ASSUME RegistryInv, [Next]_vars
             PROVE  [Abstract!SpecNext]_(Abstract!specVars)
  OBVIOUS
<1>0. TypeOK
  BY DEF RegistryInv
<1>1. CASE \E p \in Patterns, t \in Targets : AddMapping(p, t)
  BY <1>1 DEF AddMapping, Edit, newVars, NoReply, Abstract!SpecNext, Abstract!Consume, Abstract!NoReply
<1>2. CASE (\E i \in DOMAIN draft, on \in BOOLEAN : SetEnabled(i, on)) \/ Checkout
  BY <1>2 DEF SetEnabled, Checkout, Edit, newVars, NoReply, Abstract!SpecNext,
     Abstract!Consume, Abstract!NoReply
<1>3. CASE \E r \in Revisions : CallNew(r)
  BY <1>0, <1>3 DEF CallNew, TypeOK, NoReply, Mapping, Abstract!SpecNext,
     Abstract!Submit, Abstract!NoReply
<1>4. CASE \E name \in Queries : CallResolve(name)
  BY <1>4 DEF CallResolve, newVars, NoReply, Abstract!SpecNext, Abstract!Ask, Abstract!NoReply
<1>5. CASE InsertPattern \/ FindNext \/ UNCHANGED vars
  BY <1>5 DEF InsertPattern, FindNext, vars, callerVars, newVars, Abstract!specVars
<1>6. CASE RejectDuplicate
  <2>1. /\ pc = "insert" /\ cursor =< Len(mappings)
        /\ mappings[cursor].pattern \in patterns
    BY <1>6 DEF RejectDuplicate
  <2>2. /\ mappings \in Seq(Mapping) /\ Len(mappings) \in Nat /\ cursor \in Nat \ {0}
    BY <1>0 DEF TypeOK
  <2>3. PICK j \in 1 .. (cursor - 1) : mappings[j].pattern = mappings[cursor].pattern
    BY <2>1 DEF RegistryInv, InsertedSoFar
  <2>4. cursor \in DOMAIN mappings /\ j \in DOMAIN mappings /\ j < cursor
    BY <2>1, <2>2, <2>3
  <2>5. mappings[cursor].pattern \in Abstract!Repeated(mappings)
    BY <2>3, <2>4 DEF Abstract!Repeated
  <2>6. Abstract!Refuse
    BY <1>6, <2>5 DEF RejectDuplicate, ReturnFromNew, Duplicate, Abstract!Refuse,
       Abstract!Duplicate
  <2> QED BY <2>6 DEF Abstract!SpecNext
<1>7. CASE SortMappings
  <2>1. PICK sorted \in Sortings(mappings) :
          snapshot' = [revision |-> revision, mappings |-> sorted]
    BY <1>7 DEF SortMappings
  <2>2. /\ mappings \in Seq(Mapping) /\ Len(mappings) \in Nat /\ cursor \in Nat
        /\ DOMAIN mappings = 1 .. Len(mappings)
    BY <1>0 DEF TypeOK
  <2>3. cursor - 1 = Len(mappings)
    BY <1>7, <2>2 DEF SortMappings, RegistryInv, InsertedSoFar
  <2>4. \A i, j \in 1 .. Len(mappings) :
          mappings[i].pattern = mappings[j].pattern => i = j
    BY <1>7, <2>3 DEF SortMappings, RegistryInv, InsertedSoFar
  <2>5. Abstract!Repeated(mappings) = {}
    BY <2>2, <2>4 DEF Abstract!Repeated
  <2>6. ToSet(snapshot'.mappings) = ToSet(mappings)
    BY <2>1, <2>2, SortKeepsEntries
  <2>7. Abstract!Accept
    BY <1>7, <2>5, <2>6 DEF SortMappings, ReturnFromNew, Built, Abstract!Accept,
       Abstract!Built, ToSet, Abstract!ToSet
  <2> QED BY <2>7 DEF Abstract!SpecNext
<1>8. CASE FindHit
  <2>1. IsBest(snapshot.mappings[cursor], ToSet(snapshot.mappings), query)
    BY <1>8, FirstHitIsBest DEF RegistryInv
  <2>2. Abstract!IsBest(snapshot.mappings[cursor], ToSet(snapshot.mappings), query)
    BY <2>1, SameCardinality DEF IsBest, Abstract!IsBest, Claims, Abstract!Claims, Owns, Abstract!Owns,
       Outranks, Abstract!Outranks, LabelCount, Abstract!LabelCount, Dots, Abstract!Dots,
       TailAfter, Abstract!TailAfter, Dot, Abstract!Dot
  <2>3. snapshot.mappings[cursor] \in ToSet(snapshot.mappings)
    BY <2>1 DEF IsBest
  <2>4. Abstract!Answer
    BY <1>8, <2>2, <2>3 DEF FindHit, ReturnFromResolve, newVars, Found,
       Abstract!Answer, Abstract!Found
  <2> QED BY <2>4 DEF Abstract!SpecNext
<1>9. CASE FindEnd
  <2>1. IsUnclaimed(ToSet(snapshot.mappings), query)
    BY <1>9, EndIsUnclaimed DEF RegistryInv
  <2>2. Abstract!IsUnclaimed(ToSet(snapshot.mappings), query)
    BY <2>1 DEF IsUnclaimed, Abstract!IsUnclaimed, Claims, Abstract!Claims, Owns,
       Abstract!Owns, Dots, Abstract!Dots, TailAfter, Abstract!TailAfter, Dot, Abstract!Dot
  <2>3. Abstract!Answer
    BY <1>9, <2>2 DEF FindEnd, ReturnFromResolve, newVars, Unmapped,
       Abstract!Answer, Abstract!Unmapped
  <2> QED BY <2>3 DEF Abstract!SpecNext
<1> QED
  BY <1>1, <1>2, <1>3, <1>4, <1>5, <1>6, <1>7, <1>8, <1>9 DEF Next, Caller, Callee

\* RegistrySnapshot implements the abstract registry: a list replaces it as a
\* whole or is refused for a pattern it repeats, and lookups follow the policy.
THEOREM RegistryRefines == Spec => ImplementsResolution
<1>1. Spec => []RegistryInv
  BY InitInv, StepInv, PTL DEF Spec
<1>2. Init => Abstract!SpecInit
  BY DEF Init, NoReply, ToSet, Abstract!SpecInit, Abstract!NoReply
<1> QED BY <1>1, <1>2, StepRefines, PTL DEF Spec, ImplementsResolution, Abstract!Spec
=============================================================================
