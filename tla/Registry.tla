------------------------------ MODULE Registry ------------------------------
(***************************************************************************)
(* RegistrySnapshot and its caller (crates/remap-core/src/mapping.rs).     *)
(*                                                                         *)
(* The caller assembles a list of mappings and hands it to                 *)
(* RegistrySnapshot::new, which inserts the patterns one by one into a     *)
(* set, gives up at the first repeated one, and otherwise sorts the list.  *)
(* RegistrySnapshot::resolve scans the sorted list for the first enabled   *)
(* mapping that matches.  Both loops are modelled one iteration per step.  *)
(***************************************************************************)
EXTENDS Precedence

CONSTANTS
  Patterns,      \* the parsed patterns the caller uses
  Queries,       \* the parsed names the caller resolves
  Revisions,     \* the revision numbers the caller passes
  MaxMappings    \* bound on the length of the caller's list

ASSUME RegistryAssumption ==
  /\ Patterns \subseteq Pattern
  /\ Queries \subseteq Text
  /\ Queries # {}
  /\ Revisions \subseteq Nat
  /\ MaxMappings \in Nat

VARIABLES
  pc,         \* "idle" in the caller, "insert" in new, "find" in resolve
  draft,      \* the caller's list
  mappings,   \* new: the list it was given
  patterns,   \* new: the patterns inserted so far
  revision,   \* new: its other argument
  cursor,     \* the loop's position, in new and in resolve
  query,      \* resolve: the name it was given last
  snapshot,   \* the snapshot the caller holds
  outcome     \* what the last call returned

callerVars  == <<draft, snapshot, outcome>>
newVars     == <<mappings, patterns, revision>>
vars        == <<pc, callerVars, newVars, cursor, query>>

NoReply      == [kind |-> "none"]
Built        == [kind |-> "built"]
Duplicate(p) == [kind |-> "duplicate", pattern |-> p]
Found(m)     == [kind |-> "found", mapping |-> m]
Unmapped     == [kind |-> "unmapped"]

Outcome == {NoReply, Built, Unmapped} \cup [kind : {"duplicate"}, pattern : Pattern]
             \cup [kind : {"found"}, mapping : Mapping]

Snapshot == [revision : Nat, mappings : Seq(Mapping)]

MappingNew(p, t)   == [pattern |-> p, target |-> t, enabled |-> TRUE]
WithEnabled(m, on) == [m EXCEPT !.enabled = on]

-----------------------------------------------------------------------------
\* The order of a snapshot.

\* The comparator of the sort answers Less.
Precedes(p, q) ==
  LET left == ResolutionRank(p)  right == ResolutionRank(q)
  IN  RankLess(left, right) \/ (left = right /\ PatternLess(p, q))

\* Variant of Sortings: the list is left as it was given.
SortingsForgotten(list) == {list}

\* What sort_by may leave of a list: the same entries, none before one that
\* the comparator puts after it.
Sortings(list) ==
  LET Index == DOMAIN list
  IN  {[i \in Index |-> list[order[i]]] :
         order \in {f \in [Index -> Index] :
           /\ \A i, j \in Index : f[i] = f[j] => i = j
           /\ \A i, j \in Index :
                i < j => ~ Precedes(list[f[j]].pattern, list[f[i]].pattern)}}

-----------------------------------------------------------------------------
\* Variants of First: a loop that starts one place early, or late.
FirstIsZero == 0
FirstIsTwo  == 2

\* Where both loops start.
First == 1

Init ==
  /\ pc = "idle"
  /\ draft = <<>>
  /\ mappings = <<>>
  /\ patterns = {}
  /\ revision \in Revisions
  /\ cursor = First
  /\ query \in Queries
  /\ snapshot = [revision |-> 0, mappings |-> <<>>]
  /\ outcome = NoReply

\* The caller builds or edits its list; the last outcome has been used.

Edit(list) ==
  /\ pc = "idle"
  /\ draft' = list
  /\ outcome' = NoReply
  /\ UNCHANGED <<pc, snapshot, newVars, cursor, query>>

AddMapping(p, t) ==
  Len(draft) < MaxMappings /\ Edit(Append(draft, MappingNew(p, t)))

SetEnabled(i, on) == Edit([draft EXCEPT ![i] = WithEnabled(@, on)])

\* The next revision starts from a copy of the current one.
Checkout == Edit(snapshot.mappings)

\* RegistrySnapshot::new.

CallNew(r) ==
  /\ pc = "idle"
  /\ pc' = "insert"
  /\ mappings' = draft
  /\ draft' = <<>>
  /\ revision' = r
  /\ patterns' = {}
  /\ cursor' = First
  /\ outcome' = NoReply
  /\ UNCHANGED <<snapshot, query>>

\* Variant of InsertPattern: what the set's insert answers is not looked at.
InsertAnyPattern ==
  /\ pc = "insert"
  /\ cursor =< Len(mappings)
  /\ patterns' = patterns \cup {mappings[cursor].pattern}
  /\ cursor' = cursor + 1
  /\ UNCHANGED <<pc, callerVars, mappings, revision, query>>

InsertPattern ==
  /\ pc = "insert"
  /\ cursor =< Len(mappings)
  /\ mappings[cursor].pattern \notin patterns
  /\ patterns' = patterns \cup {mappings[cursor].pattern}
  /\ cursor' = cursor + 1
  /\ UNCHANGED <<pc, callerVars, mappings, revision, query>>

\* new returns: its list and set are gone.
ReturnFromNew(result) ==
  /\ outcome' = result
  /\ pc' = "idle"
  /\ mappings' = <<>>
  /\ patterns' = {}
  /\ cursor' = First
  /\ UNCHANGED <<draft, revision, query>>

RejectDuplicate ==
  /\ pc = "insert"
  /\ cursor =< Len(mappings)
  /\ mappings[cursor].pattern \in patterns
  /\ ReturnFromNew(Duplicate(mappings[cursor].pattern))
  /\ UNCHANGED snapshot

SortMappings ==
  /\ pc = "insert"
  /\ cursor > Len(mappings)
  /\ \E sorted \in Sortings(mappings) :
       snapshot' = [revision |-> revision, mappings |-> sorted]
  /\ ReturnFromNew(Built)

\* RegistrySnapshot::resolve.

CallResolve(name) ==
  /\ pc = "idle"
  /\ pc' = "find"
  /\ query' = name
  /\ cursor' = First
  /\ outcome' = NoReply
  /\ UNCHANGED <<draft, snapshot, newVars>>

Hits(m, name) == m.enabled /\ Matches(m.pattern, name)

\* Variant of FindNext: the search stays where it is.
FindNextStuck ==
  /\ pc = "find"
  /\ cursor =< Len(snapshot.mappings)
  /\ ~ Hits(snapshot.mappings[cursor], query)
  /\ UNCHANGED vars

FindNext ==
  /\ pc = "find"
  /\ cursor =< Len(snapshot.mappings)
  /\ ~ Hits(snapshot.mappings[cursor], query)
  /\ cursor' = cursor + 1
  /\ UNCHANGED <<pc, callerVars, newVars, query>>

ReturnFromResolve(result) ==
  /\ outcome' = result
  /\ pc' = "idle"
  /\ cursor' = First
  /\ UNCHANGED <<draft, snapshot, newVars, query>>

FindHit ==
  /\ pc = "find"
  /\ cursor =< Len(snapshot.mappings)
  /\ Hits(snapshot.mappings[cursor], query)
  /\ ReturnFromResolve(Found(snapshot.mappings[cursor]))

FindEnd ==
  /\ pc = "find"
  /\ cursor > Len(snapshot.mappings)
  /\ ReturnFromResolve(Unmapped)

Caller ==
  \/ \E p \in Patterns, t \in Targets : AddMapping(p, t)
  \/ \E i \in DOMAIN draft, on \in BOOLEAN : SetEnabled(i, on)
  \/ Checkout
  \/ \E r \in Revisions : CallNew(r)
  \/ \E name \in Queries : CallResolve(name)

Callee ==
  InsertPattern \/ RejectDuplicate \/ SortMappings \/ FindNext \/ FindHit \/ FindEnd

Next == Caller \/ Callee

\* A call that has begun runs: the caller's thread is scheduled.
Spec == Init /\ [][Next]_vars /\ WF_vars(Callee)

-----------------------------------------------------------------------------
TypeOK ==
  /\ pc \in {"idle", "insert", "find"}
  /\ draft \in Seq(Mapping)
  /\ mappings \in Seq(Mapping)
  /\ patterns \subseteq Pattern
  /\ revision \in Nat
  /\ cursor \in Nat \ {0}
  /\ query \in Text
  /\ snapshot \in Snapshot
  /\ outcome \in Outcome

\* A snapshot is strictly ordered: no pattern occurs twice, and the caller's
\* order cannot show in it, whichever of two equal entries came first.
StrictlyOrdered ==
  \A i, j \in DOMAIN snapshot.mappings :
    i < j => Precedes(snapshot.mappings[i].pattern, snapshot.mappings[j].pattern)

\* resolve answers with the enabled mapping that the policy prefers to every
\* other enabled mapping owning the name, and finds none only if none owns it.
AnswerIsBest ==
  LET registry == ToSet(snapshot.mappings)
  IN  /\ outcome.kind = "found" => IsBest(outcome.mapping, registry, query)
      /\ outcome.kind = "unmapped" => IsUnclaimed(registry, query)

\* The set that new has built so far is the patterns it has passed, and they
\* are all different.
InsertedSoFar ==
  pc = "insert" =>
    /\ cursor =< Len(mappings) + 1
    /\ patterns = {mappings[i].pattern : i \in 1 .. (cursor - 1)}
    /\ \A i, j \in 1 .. (cursor - 1) :
         mappings[i].pattern = mappings[j].pattern => i = j

\* resolve has passed over nothing that answers the query.
SkippedSoFar ==
  pc = "find" =>
    /\ cursor =< Len(snapshot.mappings) + 1
    /\ \A i \in 1 .. (cursor - 1) : ~ Hits(snapshot.mappings[i], query)

\* The loops of new and of resolve keep their books: a repeated pattern is met
\* where it first repeats, and no entry that answers is passed over.
LoopsSoFar == InsertedSoFar /\ SkippedSoFar

\* The inductive invariant behind AnswerIsBest.
RegistryInv ==
  TypeOK /\ StrictlyOrdered /\ InsertedSoFar /\ SkippedSoFar /\ AnswerIsBest

Abstract == INSTANCE Resolution WITH
  phase    <- pc,
  batch    <- mappings,
  asked    <- query,
  registry <- ToSet(snapshot.mappings),
  reply    <- outcome,
  Batches  <- Seq(Mapping)

\* The two loops do what module Resolution promises: new replaces the registry
\* by the whole list or refuses it, and resolve picks what the policy picks.
ImplementsResolution == Abstract!Spec

\* Every call of new and of resolve returns.
CallsReturn == Abstract!RequestsAnswered
=============================================================================
