------------------------------- MODULE Names -------------------------------
(***************************************************************************)
(* Lookup names and name patterns of remap-core (crates/remap-core/src/    *)
(* name.rs): parsing, canonical form, matching and the order in which      *)
(* patterns are tried.                                                     *)
(*                                                                         *)
(* A text is the sequence of its bytes, so lengths, suffixes and the order *)
(* of texts are those of a Rust String.  An error is represented by its    *)
(* variant; the offending text that a variant carries is left out.         *)
(*                                                                         *)
(* An operator introduced as a variant is a plausible mistake in the one   *)
(* it precedes; nothing uses it, and README.md says which property would   *)
(* notice it.                                                              *)
(***************************************************************************)
EXTENDS Integers, Sequences, FiniteSets, SequencesExt

CONSTANTS
  MaxName,          \* longest canonical name in bytes (253 in the code)
  MaxLabel,         \* longest label in bytes (63 in the code)
  UsizeMax,         \* usize::MAX
  AddressLiterals   \* the texts std::net::IpAddr parses

Byte == 0 .. 255
Text == Seq(Byte)

Star   == 42
Hyphen == 45
Dot    == 46
Colon  == 58

\* A text with its letters in upper case at the given places, in lower elsewhere.
AsciiLower(c) == IF c \in 65 .. 90 THEN c + 32 ELSE c
AsciiUpper(c) == IF c \in 97 .. 122 THEN c - 32 ELSE c
Letters(t)    == {i \in DOMAIN t : t[i] \in (65 .. 90) \cup (97 .. 122)}

InCase(t, uppers) ==
  [i \in DOMAIN t |-> IF i \in uppers THEN AsciiUpper(t[i]) ELSE AsciiLower(t[i])]

(***************************************************************************)
(* A name has fewer labels than bytes, so the subtraction in               *)
(* ResolutionRank stays in range when a name fits in a usize.  An address  *)
(* is written with a colon, or with digits and dots alone, and its letters *)
(* in either case.                                                         *)
(***************************************************************************)
ASSUME NamesAssumption ==
  /\ MaxName \in Nat \ {0}
  /\ MaxLabel \in Nat \ {0}
  /\ UsizeMax \in Nat
  /\ MaxName =< UsizeMax
  /\ AddressLiterals \subseteq Text
  /\ \A t \in AddressLiterals :
       \/ \E i \in DOMAIN t : t[i] = Colon
       \/ \A i \in DOMAIN t : t[i] \in (48 .. 57) \cup {Dot}
  /\ \A t \in AddressLiterals : \A uppers \in SUBSET Letters(t) :
       InCase(t, uppers) \in AddressLiterals

Ok(v)  == [ok |-> TRUE, value |-> v]
Err(e) == [ok |-> FALSE, error |-> e]

-----------------------------------------------------------------------------
\* Bytes and texts.

IsAsciiAlphanumeric(c) == c \in (48 .. 57) \cup (65 .. 90) \cup (97 .. 122)

ToAsciiLowercase(t) == [i \in DOMAIN t |-> AsciiLower(t[i])]

BeginsWith(t, c) == t # <<>> /\ t[1] = c
EndsWith(t, c)   == t # <<>> /\ t[Len(t)] = c

StripRootDot(t) == IF EndsWith(t, Dot) THEN Front(t) ELSE t

\* The order of strings: by the first byte in which they differ.
TextLess(s, t) ==
  \E k \in 1 .. Len(t) :
    /\ \A i \in 1 .. (k - 1) : i =< Len(s) /\ s[i] = t[i]
    /\ k > Len(s) \/ s[k] < t[k]

Dots(t) == {i \in 1 .. Len(t) : t[i] = Dot}

\* split('.'): where each label of t starts and ends; an empty label ends
\* just before it starts.
LabelSpans(t) ==
  {span \in (1 .. Len(t) + 1) \X (0 .. Len(t)) :
     /\ span[1] =< span[2] + 1
     /\ span[1] - 1 \in Dots(t) \cup {0}
     /\ span[2] + 1 \in Dots(t) \cup {Len(t) + 1}
     /\ \A i \in span[1] .. span[2] : t[i] # Dot}

LabelCount(t) == Cardinality(Dots(t)) + 1

-----------------------------------------------------------------------------
\* RemapName.

NameErrors == {"Empty", "AddressLiteral", "NameTooLong", "EmptyLabel", "LabelTooLong",
               "LabelStartsWithHyphen", "LabelEndsWithHyphen", "InvalidCharacter",
               "WildcardWithoutSuffix"}

\* Variant of LabelFault: the rule for a hyphen at the end is forgotten.
LabelFaultNoEndRule(label) ==
  IF label = <<>>                  THEN "EmptyLabel"
  ELSE IF Len(label) > MaxLabel    THEN "LabelTooLong"
  ELSE IF BeginsWith(label, Hyphen) THEN "LabelStartsWithHyphen"
  ELSE IF \E i \in DOMAIN label :
            ~ IsAsciiAlphanumeric(label[i]) /\ label[i] # Hyphen
                                   THEN "InvalidCharacter"
  ELSE "None"

\* The first of the label rules a label breaks, "None" when it breaks none.
LabelFault(label) ==
  IF label = <<>>                  THEN "EmptyLabel"
  ELSE IF Len(label) > MaxLabel    THEN "LabelTooLong"
  ELSE IF BeginsWith(label, Hyphen) THEN "LabelStartsWithHyphen"
  ELSE IF EndsWith(label, Hyphen)  THEN "LabelEndsWithHyphen"
  ELSE IF \E i \in DOMAIN label :
            ~ IsAsciiAlphanumeric(label[i]) /\ label[i] # Hyphen
                                   THEN "InvalidCharacter"
  ELSE "None"

FaultAt(t, span) == LabelFault(SubSeq(t, span[1], span[2]))

FaultySpans(t) == {span \in LabelSpans(t) : FaultAt(t, span) # "None"}

\* Variant of FirstFault: the first label is blamed for any fault.
FirstFaultOfFirstLabel(t) ==
  FaultAt(t, CHOOSE span \in LabelSpans(t) : span[1] = 1)

\* Variant of FirstFault: the scan goes on, and the last fault is what it tells.
LastFault(t) ==
  FaultAt(t, CHOOSE span \in FaultySpans(t) :
               \A other \in FaultySpans(t) : span[1] >= other[1])

FirstFault(t) ==
  FaultAt(t, CHOOSE span \in FaultySpans(t) :
               \A other \in FaultySpans(t) : span[1] =< other[1])

\* Variants of RemapNameParse: an address followed by a root dot is not
\* recognised; the length of the input, root dot included, is what is limited.
RemapNameParseDottedAddress(input) ==
  LET bare      == StripRootDot(input)
      canonical == ToAsciiLowercase(bare)
  IN  IF input = <<>> \/ bare = <<>>      THEN Err("Empty")
      ELSE IF input \in AddressLiterals   THEN Err("AddressLiteral")
      ELSE IF Len(canonical) > MaxName    THEN Err("NameTooLong")
      ELSE IF FaultySpans(canonical) # {} THEN Err(FirstFault(canonical))
      ELSE Ok(canonical)

RemapNameParseRootDotCounts(input) ==
  LET bare      == StripRootDot(input)
      canonical == ToAsciiLowercase(bare)
  IN  IF input = <<>> \/ bare = <<>>      THEN Err("Empty")
      ELSE IF bare \in AddressLiterals    THEN Err("AddressLiteral")
      ELSE IF Len(input) > MaxName        THEN Err("NameTooLong")
      ELSE IF FaultySpans(canonical) # {} THEN Err(FirstFault(canonical))
      ELSE Ok(canonical)

RemapNameParse(input) ==
  LET bare      == StripRootDot(input)
      canonical == ToAsciiLowercase(bare)
  IN  IF input = <<>> \/ bare = <<>>      THEN Err("Empty")
      ELSE IF bare \in AddressLiterals    THEN Err("AddressLiteral")
      ELSE IF Len(canonical) > MaxName    THEN Err("NameTooLong")
      ELSE IF FaultySpans(canonical) # {} THEN Err(FirstFault(canonical))
      ELSE Ok(canonical)

-----------------------------------------------------------------------------
\* NamePattern.

Exact(name)      == [kind |-> "Exact", name |-> name]
Wildcard(suffix) == [kind |-> "Wildcard", name |-> suffix]
Pattern          == [kind : {"Exact", "Wildcard"}, name : Text]

StarDot == <<Star, Dot>>

PatternParse(input) ==
  LET suffix == SubSeq(input, 3, Len(input))
      parsed == RemapNameParse(IF IsPrefix(StarDot, input) THEN suffix ELSE input)
  IN  IF input \in {<<Star>>, StarDot}   THEN Err("WildcardWithoutSuffix")
      ELSE IF ~ parsed.ok                THEN parsed
      ELSE IF IsPrefix(StarDot, input)   THEN Ok(Wildcard(parsed.value))
      ELSE Ok(Exact(parsed.value))

\* Variant of PatternDisplay: the dot after the star is not written.
PatternDisplayNoDot(p) == IF p.kind = "Exact" THEN p.name ELSE <<Star>> \o p.name

PatternDisplay(p) == IF p.kind = "Exact" THEN p.name ELSE StarDot \o p.name

\* Variant of Matches: any text that ends with the suffix matches.
MatchesAnySuffix(p, name) ==
  \/ p.kind = "Exact" /\ name = p.name
  \/ p.kind = "Wildcard" /\ name # p.name /\ IsSuffix(p.name, name)

Matches(p, name) ==
  \/ p.kind = "Exact" /\ name = p.name
  \/ /\ p.kind = "Wildcard"
     /\ name # p.name
     /\ IsSuffix(p.name, name)
     /\ EndsWith(SubSeq(name, 1, Len(name) - Len(p.name)), Dot)

\* The derived order of patterns: exact ones first, then by text.
PatternLess(p, q) ==
  \/ p.kind = "Exact" /\ q.kind = "Wildcard"
  \/ p.kind = q.kind /\ TextLess(p.name, q.name)

\* Variant of WildcardSpecificity: the complement that the rank uses.
WildcardSpecificityOfRank(p) == IF p.kind = "Exact" THEN 0 ELSE UsizeMax - LabelCount(p.name)

\* An exact pattern has none, here 0.
WildcardSpecificity(p) == IF p.kind = "Exact" THEN 0 ELSE LabelCount(p.name)

\* Variants of ResolutionRank: the broadest wildcard comes first; all wildcards
\* rank alike.
ResolutionRankBroadFirst(p) ==
  IF p.kind = "Exact" THEN <<0, 0>> ELSE <<1, LabelCount(p.name)>>

ResolutionRankFlat(p) == IF p.kind = "Exact" THEN <<0, 0>> ELSE <<1, 0>>

ResolutionRank(p) ==
  IF p.kind = "Exact" THEN <<0, 0>> ELSE <<1, UsizeMax - LabelCount(p.name)>>

RankLess(a, b) == a[1] < b[1] \/ (a[1] = b[1] /\ a[2] < b[2])
=============================================================================
