---------------------------- MODULE MCNameEntry ----------------------------
(***************************************************************************)
(* Values of the constants of module NameEntry for TLC.  The limits are    *)
(* small, so that texts run past them: names of 5 bytes, labels of 3.      *)
(* One alphabet is for spellings, one for patterns against names.          *)
(***************************************************************************)
EXTENDS NameEntry

UpperA == 65  LowerA == 97  LowerB == 98

SpellingAlphabet ==
  [patternBytes |-> {UpperA, LowerA, Hyphen, Dot, Star, Colon}, maxPattern |-> 6,
   nameBytes |-> {}, maxName |-> 0]

MatchingAlphabet ==
  [patternBytes |-> {LowerA, Dot, Star}, maxPattern |-> 6,
   nameBytes |-> {LowerA, LowerB, Dot}, maxName |-> 6]

MCAlphabets == {SpellingAlphabet, MatchingAlphabet}

\* The IPv6 addresses among the texts over these bytes of at most n bytes: one
\* "::", no other colon at an end, and groups of at most four digits.
IPv6Texts(n) ==
  {t \in Texts({UpperA, LowerA, Colon}, n) :
     LET colons == {i \in DOMAIN t : t[i] = Colon}
         pairs  == {i \in colons : i + 1 \in colons}
     IN  /\ Cardinality(pairs) = 1
         /\ 1 \in colons => 1 \in pairs
         /\ Len(t) \in colons => Len(t) - 1 \in pairs
         /\ \A i \in DOMAIN t : i .. (i + 4) \subseteq DOMAIN t =>
              colons \cap (i .. (i + 4)) # {}}

MCAddressLiterals == IPv6Texts(6)
=============================================================================
