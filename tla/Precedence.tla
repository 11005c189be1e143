----------------------------- MODULE Precedence -----------------------------
(***************************************************************************)
(* The resolution policy, stated over a set of mappings and independently  *)
(* of how the registry stores or scans them: an exact name wins, then the  *)
(* wildcard with the most labels (docs/architecture/ARCHITECTURE.md, and   *)
(* the doc comment of RegistrySnapshot::resolve).                          *)
(***************************************************************************)
EXTENDS Names

CONSTANT Targets    \* the destinations a mapping may have

Mapping == [pattern : Pattern, target : Targets, enabled : BOOLEAN]

\* What follows the dot at position cut of a name.
TailAfter(name, cut) == SubSeq(name, cut + 1, Len(name))

\* A wildcard owns the names that continue its suffix to the left by a dot.
Owns(p, name) ==
  \/ p.kind = "Exact" /\ p.name = name
  \/ p.kind = "Wildcard" /\ \E cut \in Dots(name) : TailAfter(name, cut) = p.name

Claims(m, name) == m.enabled /\ Owns(m.pattern, name)

\* p beats q for the names that both own.
Outranks(p, q) ==
  \/ p.kind = "Exact" /\ q.kind = "Wildcard"
  \/ /\ p.kind = "Wildcard" /\ q.kind = "Wildcard"
     /\ LabelCount(q.name) < LabelCount(p.name)

IsBest(m, registry, name) ==
  /\ m \in registry
  /\ Claims(m, name)
  /\ \A other \in registry \ {m} :
       Claims(other, name) => Outranks(m.pattern, other.pattern)

IsUnclaimed(registry, name) == \A m \in registry : ~ Claims(m, name)
=============================================================================
