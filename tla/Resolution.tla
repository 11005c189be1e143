----------------------------- MODULE Resolution -----------------------------
(***************************************************************************)
(* What a registry promises its caller, as a request/response machine over *)
(* a set of mappings: a submitted batch replaces the registry as a whole   *)
(* or is refused because it names a pattern twice, and a name resolves to  *)
(* the mapping the policy of module Precedence selects.                    *)
(***************************************************************************)
EXTENDS Precedence

CONSTANTS
  Batches,   \* the lists of mappings a caller may submit
  Queries    \* the canonical names a caller may resolve

VARIABLES
  phase,     \* "idle", "insert" (a batch is submitted) or "find" (a name is)
  batch,     \* the submitted list of mappings
  asked,     \* the name being resolved, or the last one
  registry,  \* the mappings in force
  reply      \* the answer to the last request

specVars == <<phase, batch, asked, registry, reply>>

NoReply      == [kind |-> "none"]
Built        == [kind |-> "built"]
Duplicate(p) == [kind |-> "duplicate", pattern |-> p]
Found(m)     == [kind |-> "found", mapping |-> m]
Unmapped     == [kind |-> "unmapped"]

\* The patterns that two entries of a list claim.
Repeated(list) ==
  {list[i].pattern : i \in {k \in DOMAIN list :
      \E j \in DOMAIN list : j < k /\ list[j].pattern = list[k].pattern}}

SpecInit ==
  /\ phase = "idle"
  /\ batch = <<>>
  /\ asked \in Queries
  /\ registry = {}
  /\ reply = NoReply

Submit ==
  /\ phase = "idle"
  /\ phase' = "insert"
  /\ batch' \in Batches
  /\ reply' = NoReply
  /\ UNCHANGED <<asked, registry>>

\* A batch is accepted exactly when it repeats no pattern, and then it is
\* the whole registry.
Accept ==
  /\ phase = "insert"
  /\ Repeated(batch) = {}
  /\ registry' = ToSet(batch)
  /\ reply' = Built
  /\ phase' = "idle"
  /\ batch' = <<>>
  /\ UNCHANGED asked

Refuse ==
  /\ phase = "insert"
  /\ \E p \in Repeated(batch) : reply' = Duplicate(p)
  /\ phase' = "idle"
  /\ batch' = <<>>
  /\ UNCHANGED <<asked, registry>>

Ask ==
  /\ phase = "idle"
  /\ phase' = "find"
  /\ asked' \in Queries
  /\ reply' = NoReply
  /\ UNCHANGED <<batch, registry>>

Answer ==
  /\ phase = "find"
  /\ \/ \E m \in registry : IsBest(m, registry, asked) /\ reply' = Found(m)
     \/ IsUnclaimed(registry, asked) /\ reply' = Unmapped
  /\ phase' = "idle"
  /\ UNCHANGED <<batch, asked, registry>>

\* The caller has used the reply.
Consume ==
  /\ phase = "idle"
  /\ reply' = NoReply
  /\ UNCHANGED <<phase, batch, asked, registry>>

SpecNext == Submit \/ Accept \/ Refuse \/ Ask \/ Answer \/ Consume

Spec == SpecInit /\ [][SpecNext]_specVars

\* Every request is answered.
RequestsAnswered == (phase # "idle") ~> (phase = "idle")
=============================================================================
