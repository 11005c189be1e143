----------------------------- MODULE NameEntry -----------------------------
(***************************************************************************)
(* A pattern and a name typed one byte at a time: every text over a small  *)
(* alphabet is the input of NamePattern::parse and RemapName::parse, and   *)
(* what they accept is compared with reference definitions: a grammar for  *)
(* names, and label sequences for matching.                                *)
(***************************************************************************)
EXTENDS Names

\* Each alphabet has the bytes of a pattern, and how many, and those of a name.
CONSTANT Alphabets

\* A letter is among the bytes, as in the code, where they are all there is.
ASSUME NameEntryAssumption ==
  /\ Alphabets \subseteq [patternBytes : SUBSET (0 .. 255), maxPattern : Nat,
                          nameBytes : SUBSET (0 .. 255), maxName : Nat]
  /\ \E a \in Alphabets : a.patternBytes \cap (97 .. 122) # {}

VARIABLES
  alphabet,   \* the one in use
  pattern,    \* the input of NamePattern::parse
  typed       \* the input of RemapName::parse

vars == <<alphabet, pattern, typed>>

Init == alphabet \in Alphabets /\ pattern = <<>> /\ typed = <<>>

Parsed == PatternParse(pattern)
Name   == RemapNameParse(typed)

TypePattern(c) ==
  /\ typed = <<>>
  /\ Len(pattern) < alphabet.maxPattern
  /\ pattern' = Append(pattern, c)
  /\ UNCHANGED <<alphabet, typed>>

\* A name is typed to be matched by a pattern that was accepted.
TypeName(c) ==
  /\ Parsed.ok
  /\ Len(typed) < alphabet.maxName
  /\ typed' = Append(typed, c)
  /\ UNCHANGED <<alphabet, pattern>>

Next ==
  \/ \E c \in alphabet.patternBytes : TypePattern(c)
  \/ \E c \in alphabet.nameBytes : TypeName(c)

Spec == Init /\ [][Next]_vars

-----------------------------------------------------------------------------
\* The grammar of canonical names over the typed bytes.

Texts(bytes, n) == UNION {[1 .. k -> bytes] : k \in 0 .. n}

Bytes     == UNION {a.patternBytes \cup a.nameBytes : a \in Alphabets}
LetDigHyp == {AsciiLower(c) : c \in {b \in Bytes : IsAsciiAlphanumeric(b) \/ b = Hyphen}}

Labels == {t \in Texts(LetDigHyp, MaxLabel) \ {<<>>} : Hyphen \notin {t[1], t[Len(t)]}}

\* The labels with a dot between them, put together from the last one on.
Join(labels) ==
  LET n == Len(labels) - 1
      joined[k \in 0 .. n] == IF k = 0 THEN labels[n + 1]
                              ELSE labels[n - k + 1] \o <<Dot>> \o joined[k - 1]
  IN  joined[n]

\* An address that is written like a name is no name.
Hostnames ==
  {t \in {Join(ls) : ls \in BoundedSeq(Labels, (MaxName + 1) \div 2) \ {<<>>}} :
     Len(t) =< MaxName} \ AddressLiterals

\* The labels of a text, read from its last byte to its first: a dot starts a
\* label of its own, any other byte belongs to the label it stands before.
Before(c, labels) ==
  IF c = Dot THEN <<(<<>>)>> \o labels ELSE [labels EXCEPT ![1] = <<c>> \o @]

LabelsOf(t) ==
  LET n == Len(t)
      last[k \in 0 .. n] == IF k = 0 THEN <<(<<>>)>> ELSE Before(t[n - k + 1], last[k - 1])
  IN  last[n]

IsProperSuffix(s, t) == s # t /\ IsSuffix(s, t)

-----------------------------------------------------------------------------
\* Every input is answered: with a pattern, or with one of the errors.
TypeOK ==
  /\ alphabet \in Alphabets
  /\ pattern \in Seq(alphabet.patternBytes) /\ Len(pattern) =< alphabet.maxPattern
  /\ typed \in Seq(alphabet.nameBytes) /\ Len(typed) =< alphabet.maxName
  /\ Parsed \in [ok : {TRUE}, value : Pattern] \cup [ok : {FALSE}, error : NameErrors]

\* The scan of RemapName::parse accepts the lower and upper case spellings of
\* the grammar's names, with or without a root dot, and nothing else.
AcceptsHostnames ==
  /\ RemapNameParse(pattern).ok <=> ToAsciiLowercase(StripRootDot(pattern)) \in Hostnames
  /\ RemapNameParse(pattern).ok => RemapNameParse(pattern).value \in Hostnames

LabelErrors ==
  {"EmptyLabel", "LabelTooLong", "LabelStartsWithHyphen", "LabelEndsWithHyphen", "InvalidCharacter"}

\* RemapName::parse blames the first faulty label: what refuses the labels before a
\* dot, or those after it when the ones before are accepted, refuses the whole, and
\* for the same reason, unless the whole is too long or an address.  The labels before
\* a second of two dots, taken alone, would lose the first as a root dot.
FirstFaultIsBlamed ==
  \A d \in {i \in Dots(pattern) : i - 1 \notin Dots(pattern)} :
    LET head  == RemapNameParse(SubSeq(pattern, 1, d - 1))
        rest  == RemapNameParse(SubSeq(pattern, d + 1, Len(pattern)))
        first == IF head.ok THEN rest ELSE head
    IN  ~ first.ok /\ first.error \in LabelErrors =>
          RemapNameParse(pattern) \in {first, Err("NameTooLong"), Err("AddressLiteral")}

\* A pattern that is printed and read again is the same pattern, so a registry
\* that is written out keeps its keys.
DisplayIsReadBack == Parsed.ok => PatternParse(PatternDisplay(Parsed.value)) = Parsed

\* Case and one root dot never show: not in the parsed pattern, and not in
\* whether, or why, it is refused, at the length limits too.
SpellingIsInvisible ==
  /\ PatternParse(ToAsciiLowercase(pattern)) = Parsed
  /\ ~ EndsWith(pattern, Dot) => PatternParse(Append(pattern, Dot)) = Parsed

\* A wildcard that was accepted has a descendant, unless its suffix leaves no
\* room for one more label in a name: such a mapping can never answer.
MatchesSomeNameIfRoom ==
  Parsed.ok /\ Parsed.value.kind = "Wildcard" =>
    ((\E name \in Hostnames : Matches(Parsed.value, name))
       <=> Len(Parsed.value.name) + 2 =< MaxName)

\* The textual suffix test of matches agrees with whole labels.
MatchesByLabels ==
  Parsed.ok /\ Name.ok =>
    LET mine == LabelsOf(Parsed.value.name)  other == LabelsOf(Name.value)
    IN  Matches(Parsed.value, Name.value) <=>
          \/ Parsed.value.kind = "Exact" /\ mine = other
          \/ Parsed.value.kind = "Wildcard" /\ IsProperSuffix(mine, other)

\* Among the patterns that match one name, no two have the same rank: the text
\* order that breaks ties in a snapshot never decides a resolution.
RankDecides ==
  Parsed.ok /\ Name.ok /\ Matches(Parsed.value, Name.value) =>
    \A i \in DOMAIN Name.value :
      LET rival == Wildcard(SubSeq(Name.value, i, Len(Name.value)))
      IN  Matches(rival, Name.value) /\ ResolutionRank(rival) = ResolutionRank(Parsed.value)
            => rival = Parsed.value

\* Wildcards that own one name are nested, and their specificity says which is
\* the inner one: the one with more labels matches nothing that the other does not.
SpecificityNests ==
  Parsed.ok /\ Parsed.value.kind = "Wildcard" /\ Name.ok /\ Matches(Parsed.value, Name.value) =>
    \A i \in DOMAIN Name.value :
      LET rival == Wildcard(SubSeq(Name.value, i, Len(Name.value)))
      IN  Matches(rival, Name.value) =>
            (WildcardSpecificity(rival) > WildcardSpecificity(Parsed.value)
               <=> Matches(Parsed.value, rival.name))
=============================================================================
