----------------------------- MODULE NameProofs -----------------------------
(***************************************************************************)
(* Facts about names and patterns, for texts of every length: the order of *)
(* texts is strict and total, every byte of a name lies in a label that    *)
(* was checked, no accepted name is the spelling of an address, the        *)
(* textual test of NamePattern::matches is ownership by labels, and a name *)
(* has at most one owning wildcard of each label count.                    *)
(***************************************************************************)
EXTENDS Precedence, WellFoundedInduction, FiniteSetTheorems, SequenceTheorems, TLAPS

-----------------------------------------------------------------------------
\* The order of texts.

\* A set of numbers that is not empty has a least element.
LEMMA LeastNumber ==
  ASSUME NEW S \in SUBSET Nat, S # {}
  PROVE  \E k \in S : \A j \in S : k =< j
<1> DEFINE R == OpToRel(<, Nat)
<1>1. IsWellFoundedOn(R, Nat)
  BY NatLessThanWellFounded
<1>2. PICK k \in S : \A j \in S : <<j, k>> \notin R
  <2> HIDE DEF R
  <2> QED BY <1>1, WFMin
<1>3. \A j \in S : ~ (j < k)
  BY <1>2 DEF OpToRel
<1> QED BY <1>3

\* No text comes before itself.
LEMMA TextLessIrreflexive ==
  ASSUME NEW t \in Text
  PROVE  ~ TextLess(t, t)
<1>1. SUFFICES ASSUME NEW k \in 1 .. Len(t), k > Len(t) \/ t[k] < t[k]
               PROVE  FALSE
  BY DEF TextLess
<1>2. Len(t) \in Nat /\ t[k] \in Byte
  BY <1>1, ElementOfSeq DEF Text
<1>3. \A b \in Byte : ~ (b < b)
  BY DEF Byte
<1> QED BY <1>1, <1>2, <1>3

\* Of two different texts one comes before the other: by the first place where
\* they differ, or because the shorter one ends.
LEMMA TextLessTotal ==
  ASSUME NEW s \in Text, NEW t \in Text, s # t
  PROVE  TextLess(s, t) \/ TextLess(t, s)
<1> DEFINE Common(i) == i =< Len(s) /\ i =< Len(t) /\ s[i] = t[i]
           Different == {i \in 1 .. (Len(s) + Len(t) + 1) : ~ Common(i)}
<1>0. Len(s) \in Nat /\ Len(t) \in Nat
  BY DEF Text
<1>1. \E k \in Different : \A j \in Different : k =< j
  <2>1. Len(s) + Len(t) + 1 \in Different
    BY <1>0
  <2>2. Different \in SUBSET Nat
    BY <1>0
  <2> HIDE DEF Different
  <2> QED BY <2>1, <2>2, LeastNumber
<1>2. PICK k \in Different : \A j \in Different : k =< j
  BY <1>1
<1>3. k \in Nat \ {0} /\ ~ Common(k)
  BY <1>0, <1>2
<1>4. \A i \in 1 .. (k - 1) : Common(i)
  BY <1>0, <1>2, <1>3
<1>5. CASE k =< Len(s) /\ k =< Len(t)
  <2>1. s[k] \in Byte /\ t[k] \in Byte /\ s[k] # t[k]
    BY <1>3, <1>5 DEF Text
  <2>2. s[k] < t[k] \/ t[k] < s[k]
    <3>1. \A b, c \in Byte : b # c => b < c \/ c < b
      BY DEF Byte
    <3> QED BY <2>1, <3>1
  <2> QED BY <1>0, <1>3, <1>4, <1>5, <2>2 DEF TextLess
<1>6. CASE k > Len(s) /\ k =< Len(t)
  BY <1>0, <1>3, <1>4, <1>6 DEF TextLess
<1>7. CASE k =< Len(s) /\ k > Len(t)
  BY <1>0, <1>3, <1>4, <1>7 DEF TextLess
<1>8. CASE k > Len(s) /\ k > Len(t)
  <2>1. Len(s) = k - 1 /\ Len(t) = k - 1
    <3>1. k - 1 >= Len(s) /\ k - 1 >= Len(t)
      BY <1>0, <1>3, <1>8
    <3>2. k = 1 \/ k - 1 \in 1 .. (k - 1)
      BY <1>3
    <3> QED BY <1>0, <1>3, <1>4, <3>1, <3>2
  <2> QED BY <1>0, <1>4, <2>1, SeqEqual DEF Text
<1> QED BY <1>0, <1>3, <1>5, <1>6, <1>7, <1>8

-----------------------------------------------------------------------------
\* What RemapName::parse accepts.

\* Every byte that is no dot lies in a label: the one between the last dot
\* before it and the first dot after it.
LEMMA ByteIsInLabel ==
  ASSUME NEW t \in Text, NEW i \in 1 .. Len(t), t[i] # Dot
  PROVE  \E span \in LabelSpans(t) : i \in span[1] .. span[2]
<1> DEFINE Back    == {k \in 1 .. i : i - k \in Dots(t) \cup {0}}
           Forward == {j \in (i + 1) .. (Len(t) + 1) : j \in Dots(t) \cup {Len(t) + 1}}
<1>0. Len(t) \in Nat /\ i \in Nat \ {0} /\ i =< Len(t)
  BY DEF Text
<1>1. PICK k \in Back : \A other \in Back : k =< other
  <2>1. i \in Back /\ Back \in SUBSET Nat
    BY <1>0
  <2> HIDE DEF Back
  <2> QED BY <2>1, LeastNumber
<1>2. PICK j \in Forward : \A other \in Forward : j =< other
  <2>1. Len(t) + 1 \in Forward /\ Forward \in SUBSET Nat
    BY <1>0
  <2> HIDE DEF Forward
  <2> QED BY <2>1, LeastNumber
<1> DEFINE first == i - k + 1
           last  == j - 1
<1>3. /\ first \in 1 .. i /\ last \in i .. Len(t)
      /\ first - 1 \in Dots(t) \cup {0}
      /\ last + 1 \in Dots(t) \cup {Len(t) + 1}
  BY <1>0, <1>1, <1>2
<1>4. ASSUME NEW m \in first .. last PROVE t[m] # Dot
  <2>1. m \in 1 .. Len(t) /\ m \in Nat
    BY <1>0, <1>3
  <2>2. CASE m < i
    <3>1. i - m \in Nat /\ i - m \in 1 .. i /\ i - (i - m) = m /\ ~ (k =< i - m)
      BY <1>0, <1>1, <1>4, <2>1, <2>2
    <3>2. i - m \notin Back
      BY <1>1, <3>1
    <3> QED BY <2>1, <3>1, <3>2 DEF Dots
  <2>3. CASE m = i
    BY <2>3
  <2>4. CASE m > i
    <3>1. m \in (i + 1) .. (Len(t) + 1) /\ ~ (j =< m)
      BY <1>0, <1>2, <1>4, <2>1, <2>4
    <3>2. m \notin Forward
      BY <1>2, <3>1
    <3> QED BY <2>1, <3>1, <3>2 DEF Dots
  <2> QED BY <1>0, <2>1, <2>2, <2>3, <2>4
<1>5. <<first, last>> \in LabelSpans(t)
  <2>1. <<first, last>> \in (1 .. Len(t) + 1) \X (0 .. Len(t)) /\ first =< last + 1
    BY <1>0, <1>3
  <2> HIDE DEF first, last
  <2> QED BY <1>3, <1>4, <2>1 DEF LabelSpans
<1> QED BY <1>0, <1>3, <1>5

\* A label without a fault is made of letters, digits and hyphens.
LEMMA FaultlessLabelBytes ==
  ASSUME NEW label, LabelFault(label) = "None", NEW i \in DOMAIN label
  PROVE  label[i] = Hyphen \/ IsAsciiAlphanumeric(label[i])
BY DEF LabelFault

\* So is a text without a faulty label, up to its dots.
LEMMA FaultlessTextBytes ==
  ASSUME NEW t \in Text, FaultySpans(t) = {}, NEW i \in 1 .. Len(t)
  PROVE  t[i] = Dot \/ t[i] = Hyphen \/ IsAsciiAlphanumeric(t[i])
<1>1. SUFFICES ASSUME t[i] # Dot PROVE t[i] = Hyphen \/ IsAsciiAlphanumeric(t[i])
  OBVIOUS
<1>2. PICK span \in LabelSpans(t) : i \in span[1] .. span[2]
  BY <1>1, ByteIsInLabel
<1> DEFINE label == SubSeq(t, span[1], span[2])
           place == i - span[1] + 1
<1>3. span[1] \in 1 .. Len(t) + 1 /\ span[2] \in 0 .. Len(t) /\ Len(t) \in Nat
  BY DEF LabelSpans, Text
<1>4. place \in DOMAIN label /\ label[place] = t[i]
  <2>1. Len(label) = span[2] - span[1] + 1 /\ DOMAIN label = 1 .. Len(label)
    BY <1>2, <1>3 DEF Text
  <2>2. place \in 1 .. Len(label)
    BY <1>2, <1>3, <2>1
  <2>3. label[place] = t[span[1] + place - 1]
    BY <1>2, <1>3, <2>1, <2>2 DEF Text
  <2> QED BY <1>2, <1>3, <2>1, <2>2, <2>3
<1>5. LabelFault(label) = "None"
  BY DEF FaultySpans, FaultAt
<1> QED
  <2> HIDE DEF label, place
  <2> QED BY <1>4, <1>5, FaultlessLabelBytes

\* Without its root dot a text is still a text.
LEMMA StripRootDotIsText ==
  ASSUME NEW t \in Text
  PROVE  StripRootDot(t) \in Text
BY DEF StripRootDot, EndsWith, Front, Text

\* Lower case keeps the length and the bytes that are no capitals.
LEMMA LowercaseIsText ==
  ASSUME NEW t \in Text
  PROVE  /\ ToAsciiLowercase(t) \in Text
         /\ DOMAIN ToAsciiLowercase(t) = DOMAIN t
         /\ \A i \in DOMAIN t : ToAsciiLowercase(t)[i] = AsciiLower(t[i])
<1>1. t \in [1 .. Len(t) -> Byte] /\ Len(t) \in Nat
  BY DEF Text
<1>2. \A c \in Byte : AsciiLower(c) \in Byte
  BY DEF AsciiLower, Byte
<1>3. ToAsciiLowercase(t) \in [1 .. Len(t) -> Byte]
  BY <1>1, <1>2 DEF ToAsciiLowercase
<1> QED BY <1>1, <1>3, SeqDef DEF ToAsciiLowercase, Text

\* A name that RemapName::parse accepts is no address literal: the input was
\* not one, and neither folding its case nor dropping its root dot makes it one.
THEOREM NamesNotAddresses ==
  ASSUME NEW input \in Text, RemapNameParse(input).ok
  PROVE  /\ RemapNameParse(input).value \in Text
         /\ RemapNameParse(input).value \notin AddressLiterals
<1> DEFINE bare      == StripRootDot(input)
           canonical == ToAsciiLowercase(bare)
<1>1. /\ RemapNameParse(input).value = canonical
      /\ bare \notin AddressLiterals
      /\ FaultySpans(canonical) = {}
  BY DEF RemapNameParse, Ok, Err
<1>2. bare \in Text /\ canonical \in Text /\ DOMAIN canonical = DOMAIN bare
  BY StripRootDotIsText, LowercaseIsText
<1>3. \A i \in DOMAIN bare : canonical[i] = AsciiLower(bare[i]) /\ bare[i] \in Byte
  BY <1>2, LowercaseIsText DEF Text
<1>4. SUFFICES ASSUME canonical \in AddressLiterals PROVE FALSE
  BY <1>1, <1>2
<1>5. \A i \in DOMAIN canonical : canonical[i] # Colon
  <2>1. \A i \in 1 .. Len(canonical) :
          \/ canonical[i] = Dot
          \/ canonical[i] = Hyphen
          \/ IsAsciiAlphanumeric(canonical[i])
    BY <1>1, <1>2, FaultlessTextBytes
  <2>2. DOMAIN canonical = 1 .. Len(canonical)
    BY <1>2 DEF Text
  <2>3. \A c : c = Dot \/ c = Hyphen \/ IsAsciiAlphanumeric(c) => c # Colon
    BY DEF Dot, Hyphen, Colon, IsAsciiAlphanumeric
  <2> HIDE DEF canonical
  <2> QED BY <2>1, <2>2, <2>3
<1>6. \A i \in DOMAIN canonical : canonical[i] \in (48 .. 57) \cup {Dot}
  BY <1>4, <1>5, NamesAssumption
<1>7. \A i \in DOMAIN bare : canonical[i] = bare[i]
  <2>1. \A c \in Byte : AsciiLower(c) \in (48 .. 57) \cup {Dot} => AsciiLower(c) = c
    BY DEF AsciiLower, Byte, Dot
  <2> QED BY <1>2, <1>3, <1>6, <2>1
<1>8. canonical = bare
  <2>1. canonical \in [DOMAIN bare -> Byte] /\ bare \in [DOMAIN bare -> Byte]
    BY <1>2 DEF Text
  <2> HIDE DEF canonical, bare
  <2> QED BY <1>7, <2>1
<1> QED BY <1>1, <1>4, <1>8

-----------------------------------------------------------------------------
\* The canonical form.

\* Folding the case of a folded text changes nothing.
LEMMA LowercaseIsFixed ==
  ASSUME NEW t \in Text
  PROVE  ToAsciiLowercase(ToAsciiLowercase(t)) = ToAsciiLowercase(t)
<1> DEFINE low == ToAsciiLowercase(t)
<1>1. low \in Text /\ DOMAIN low = DOMAIN t /\ \A i \in DOMAIN t : low[i] = AsciiLower(t[i])
  BY LowercaseIsText
<1>2. \A c \in Byte : AsciiLower(AsciiLower(c)) = AsciiLower(c)
  BY DEF AsciiLower, Byte
<1>3. \A i \in DOMAIN t : t[i] \in Byte
  BY ElementOfSeq DEF Text
<1>4. \A i \in DOMAIN low : AsciiLower(low[i]) = low[i]
  BY <1>1, <1>2, <1>3
<1>5. low = [i \in DOMAIN low |-> low[i]]
  <2>1. low \in [1 .. Len(low) -> Byte]
    BY <1>1 DEF Text
  <2> HIDE DEF low
  <2> QED BY <2>1
<1> HIDE DEF low
<1>6. ToAsciiLowercase(low) = [i \in DOMAIN low |-> low[i]]
  BY <1>4 DEF ToAsciiLowercase
<1> QED BY <1>5, <1>6 DEF low

\* Folding keeps every byte that is no letter where it is, and adds none.
LEMMA LowercaseKeeps ==
  ASSUME NEW t \in Text, NEW c \in {Dot, Star, Hyphen}, NEW i \in DOMAIN t
  PROVE  ToAsciiLowercase(t)[i] = c <=> t[i] = c
<1>1. t[i] \in Byte /\ ToAsciiLowercase(t)[i] = AsciiLower(t[i])
  BY ElementOfSeq, LowercaseIsText DEF Text
<1>2. \A b \in Byte : AsciiLower(b) = c <=> b = c
  BY DEF AsciiLower, Byte, Dot, Star, Hyphen
<1> QED BY <1>1, <1>2

\* A text is a function on its positions.
LEMMA TextLength ==
  ASSUME NEW t \in Text
  PROVE  /\ Len(t) \in Nat /\ DOMAIN t = 1 .. Len(t) /\ t \in [1 .. Len(t) -> Byte]
         /\ t = <<>> <=> Len(t) = 0
BY EmptySeq DEF Text

\* Lower case keeps the length,
LEMMA LowercaseLength ==
  ASSUME NEW t \in Text
  PROVE  /\ Len(ToAsciiLowercase(t)) = Len(t)
         /\ ToAsciiLowercase(t) = <<>> <=> t = <<>>
BY LowercaseIsText, TextLength

\* What is in front of a root dot.
LEMMA StrippedText ==
  ASSUME NEW t \in Text, EndsWith(t, Dot)
  PROVE  /\ StripRootDot(t) \in Text /\ Len(StripRootDot(t)) = Len(t) - 1
         /\ \A i \in 1 .. (Len(t) - 1) : StripRootDot(t)[i] = t[i]
<1>1. Len(t) \in Nat /\ Len(t) # 0
  BY TextLength DEF EndsWith
<1>2. \A i \in 1 .. (Len(t) - 1) : t[i] \in Byte
  BY <1>1, ElementOfSeq DEF Text
<1>3. /\ SubSeq(t, 1, Len(t) - 1) \in Seq(Byte)
      /\ Len(SubSeq(t, 1, Len(t) - 1)) = IF 1 =< Len(t) - 1 THEN Len(t) - 1 - 1 + 1 ELSE 0
      /\ \A i \in 1 .. (Len(t) - 1 - 1 + 1) : SubSeq(t, 1, Len(t) - 1)[i] = t[1 + i - 1]
  BY <1>1, <1>2, SubSeqProperties
<1>4. StripRootDot(t) = SubSeq(t, 1, Len(t) - 1)
  BY DEF StripRootDot, Front
<1>5. /\ Len(t) - 1 - 1 + 1 = Len(t) - 1
      /\ (IF 1 =< Len(t) - 1 THEN Len(t) - 1 - 1 + 1 ELSE 0) = Len(t) - 1
      /\ \A i \in 1 .. (Len(t) - 1) : 1 + i - 1 = i
  <2>1. ASSUME NEW n \in Nat \ {0}
        PROVE  /\ n - 1 - 1 + 1 = n - 1
               /\ (IF 1 =< n - 1 THEN n - 1 - 1 + 1 ELSE 0) = n - 1
               /\ \A i \in 1 .. (n - 1) : 1 + i - 1 = i
    OBVIOUS
  <2> QED BY <1>1, <2>1
<1>6. \A i \in 1 .. (Len(t) - 1) : SubSeq(t, 1, Len(t) - 1)[i] = t[i]
  BY <1>3, <1>5
<1> QED BY <1>3, <1>4, <1>5, <1>6 DEF Text

\* and the root dot.
LEMMA EndsInLowercase ==
  ASSUME NEW t \in Text
  PROVE  EndsWith(ToAsciiLowercase(t), Dot) <=> EndsWith(t, Dot)
<1>1. /\ Len(ToAsciiLowercase(t)) = Len(t) /\ Len(t) \in Nat /\ DOMAIN t = 1 .. Len(t)
      /\ ToAsciiLowercase(t) = <<>> <=> t = <<>>
  BY LowercaseLength, TextLength
<1>2. CASE t = <<>>
  BY <1>1, <1>2 DEF EndsWith
<1>3. CASE t # <<>>
  <2>1. Len(t) \in DOMAIN t
    BY <1>1, <1>3, TextLength
  <2> QED BY <1>1, <1>3, <2>1, LowercaseKeeps DEF EndsWith
<1> QED BY <1>2, <1>3

\* Stripping the root dot and folding the case may be done in either order.
LEMMA StripAndLowercase ==
  ASSUME NEW t \in Text
  PROVE  StripRootDot(ToAsciiLowercase(t)) = ToAsciiLowercase(StripRootDot(t))
<1> DEFINE low == ToAsciiLowercase(t)
           bare == StripRootDot(t)
<1>1. low \in Text /\ Len(low) = Len(t) /\ bare \in Text
  BY LowercaseIsText, LowercaseLength, StripRootDotIsText
<1>2. CASE ~ EndsWith(t, Dot)
  BY <1>2, EndsInLowercase DEF StripRootDot
<1>3. CASE EndsWith(t, Dot)
  <2>1. /\ StripRootDot(low) \in Text /\ Len(StripRootDot(low)) = Len(t) - 1
        /\ \A i \in 1 .. (Len(t) - 1) : StripRootDot(low)[i] = low[i]
    BY <1>1, <1>3, EndsInLowercase, StrippedText
  <2>2. bare \in Text /\ Len(bare) = Len(t) - 1 /\ \A i \in 1 .. (Len(t) - 1) : bare[i] = t[i]
    BY <1>3, StrippedText
  <2>3. /\ ToAsciiLowercase(bare) \in Text /\ Len(ToAsciiLowercase(bare)) = Len(t) - 1
        /\ \A i \in DOMAIN bare : ToAsciiLowercase(bare)[i] = AsciiLower(bare[i])
    BY <2>2, LowercaseIsText, LowercaseLength
  <2>4. \A i \in 1 .. (Len(t) - 1) : low[i] = AsciiLower(t[i])
    <3>1. 1 .. (Len(t) - 1) \subseteq DOMAIN t
      BY TextLength
    <3> QED BY <3>1, LowercaseIsText
  <2>5. DOMAIN bare = 1 .. (Len(t) - 1)
    BY <2>2, TextLength
  <2> HIDE DEF low, bare
  <2>6. \A i \in 1 .. (Len(t) - 1) : StripRootDot(low)[i] = ToAsciiLowercase(bare)[i]
    BY <2>1, <2>2, <2>3, <2>4, <2>5
  <2>7. StripRootDot(low) = ToAsciiLowercase(bare)
    BY <2>1, <2>3, <2>6, SeqEqual DEF Text
  <2> QED BY <2>7 DEF low, bare
<1> QED BY <1>2, <1>3

\* A text is an address in every case or in none.
LEMMA AddressInAnyCase ==
  ASSUME NEW t \in Text
  PROVE  ToAsciiLowercase(t) \in AddressLiterals <=> t \in AddressLiterals
<1> DEFINE low == ToAsciiLowercase(t)
           capitals == {i \in DOMAIN t : t[i] \in 65 .. 90}
<1>0. low \in Text /\ DOMAIN low = DOMAIN t /\ \A i \in DOMAIN t : low[i] = AsciiLower(t[i])
  BY LowercaseIsText
<1>1. low = InCase(t, {}) /\ {} \subseteq Letters(t)
  BY DEF ToAsciiLowercase, InCase
<1>2. capitals \subseteq Letters(low)
  BY <1>0 DEF Letters, AsciiLower
<1>3. t = InCase(low, capitals)
  <2>1. \A i \in DOMAIN t : t[i] \in Byte
    BY ElementOfSeq DEF Text
  <2>2. \A c \in Byte : /\ c \in 65 .. 90 => AsciiUpper(AsciiLower(c)) = c
                        /\ c \notin 65 .. 90 => AsciiLower(AsciiLower(c)) = c
    BY DEF AsciiLower, AsciiUpper, Byte
  <2>3. \A i \in DOMAIN t :
          t[i] = IF i \in capitals THEN AsciiUpper(low[i]) ELSE AsciiLower(low[i])
    BY <1>0, <2>1, <2>2
  <2>4. t \in [DOMAIN t -> Byte]
    BY TextLength
  <2> HIDE DEF low, capitals
  <2> QED BY <1>0, <2>3, <2>4 DEF InCase
<1> HIDE DEF low, capitals
<1> QED BY <1>1, <1>2, <1>3, NamesAssumption DEF low

-----------------------------------------------------------------------------
\* RemapName::parse.

\* The set of faults has a first one, so an error is always a fault of some label.
LEMMA FirstFaultIsFault ==
  ASSUME NEW t \in Text, FaultySpans(t) # {}
  PROVE  FirstFault(t) \in NameErrors
<1> DEFINE Starts == {span[1] : span \in FaultySpans(t)}
<1>1. Len(t) \in Nat
  BY TextLength
<1>2. Starts \in SUBSET Nat /\ Starts # {}
  BY <1>1 DEF FaultySpans, LabelSpans
<1>3. PICK k \in Starts : \A j \in Starts : k =< j
  <2> HIDE DEF Starts
  <2> QED BY <1>2, LeastNumber
<1>4. \E span \in FaultySpans(t) : \A other \in FaultySpans(t) : span[1] =< other[1]
  BY <1>3
<1>5. \E span \in FaultySpans(t) : FirstFault(t) = FaultAt(t, span)
  BY <1>4 DEF FirstFault
<1>6. \A label : LabelFault(label) \in NameErrors \cup {"None"}
  BY DEF LabelFault, NameErrors
<1> QED BY <1>5, <1>6 DEF FaultySpans, FaultAt

\* Every input of RemapName::parse is answered, with a name or with an error.
LEMMA NameAnswers ==
  ASSUME NEW input \in Text
  PROVE  RemapNameParse(input) \in [ok : {TRUE}, value : Text] \cup [ok : {FALSE}, error : NameErrors]
<1> DEFINE bare == StripRootDot(input)  canonical == ToAsciiLowercase(bare)
<1>1. canonical \in Text
  BY StripRootDotIsText, LowercaseIsText
<1>2. FaultySpans(canonical) # {} => FirstFault(canonical) \in NameErrors
  BY <1>1, FirstFaultIsFault
<1> DEFINE Answers == [ok : {TRUE}, value : Text] \cup [ok : {FALSE}, error : NameErrors]
<1>3. Ok(canonical) \in Answers
  BY <1>1 DEF Ok
<1>4. \A e \in NameErrors : Err(e) \in Answers
  BY DEF Err
<1>5. {"Empty", "AddressLiteral", "NameTooLong"} \subseteq NameErrors
  BY DEF NameErrors
<1>6. RemapNameParse(input) \in
        {Ok(canonical), Err("Empty"), Err("AddressLiteral"), Err("NameTooLong")}
          \cup {Err(e) : e \in NameErrors}
  <2> HIDE DEF canonical
  <2>1. CASE input = <<>> \/ bare = <<>>
    BY <2>1 DEF RemapNameParse
  <2>2. CASE ~ (input = <<>> \/ bare = <<>>) /\ bare \in AddressLiterals
    BY <2>2 DEF RemapNameParse
  <2>3. CASE ~ (input = <<>> \/ bare = <<>>) /\ bare \notin AddressLiterals
    BY <1>2, <2>3 DEF RemapNameParse, canonical
  <2> QED BY <2>1, <2>2, <2>3
<1> HIDE DEF Answers, canonical
<1> QED BY <1>3, <1>4, <1>5, <1>6 DEF Answers

\* A text of which no label is empty does not end with a dot.
LEMMA FaultlessHasNoRootDot ==
  ASSUME NEW t \in Text, FaultySpans(t) = {}
  PROVE  ~ EndsWith(t, Dot)
<1> SUFFICES ASSUME EndsWith(t, Dot)
             PROVE  FALSE
  OBVIOUS
<1>1. Len(t) \in Nat \ {0} /\ t[Len(t)] = Dot
  BY TextLength DEF EndsWith
<1> DEFINE last == <<Len(t) + 1, Len(t)>>
<1>2. last \in LabelSpans(t)
  <2>1. Len(t) \in Dots(t) /\ (Len(t) + 1) - 1 = Len(t)
    BY <1>1 DEF Dots
  <2>2. last \in (1 .. Len(t) + 1) \X (0 .. Len(t)) /\ last[1] =< last[2] + 1
    BY <1>1
  <2>3. \A i \in last[1] .. last[2] : t[i] # Dot
    BY <1>1
  <2> QED BY <2>1, <2>2, <2>3 DEF LabelSpans
<1>3. SubSeq(t, Len(t) + 1, Len(t)) = <<>>
  BY <1>1, SubSeqEmpty
<1>4. FaultAt(t, last) = "EmptyLabel"
  BY <1>3 DEF FaultAt, LabelFault
<1> QED BY <1>2, <1>4 DEF FaultySpans

\* What RemapName::parse accepts it gives back in the form that it checked.
LEMMA AcceptedName ==
  ASSUME NEW input \in Text, RemapNameParse(input).ok
  PROVE  LET name == RemapNameParse(input).value
         IN  /\ name \in Text /\ name # <<>> /\ name \notin AddressLiterals
             /\ Len(name) =< MaxName /\ FaultySpans(name) = {}
             /\ ToAsciiLowercase(name) = name /\ StripRootDot(name) = name
<1> DEFINE bare == StripRootDot(input)  canonical == ToAsciiLowercase(bare)
<1>1. /\ RemapNameParse(input).value = canonical /\ bare # <<>>
      /\ ~ (Len(canonical) > MaxName) /\ FaultySpans(canonical) = {}
  BY DEF RemapNameParse, Ok, Err
<1>2. bare \in Text /\ canonical \in Text /\ canonical # <<>>
  BY <1>1, StripRootDotIsText, LowercaseIsText, LowercaseLength
<1>3. canonical \notin AddressLiterals
  BY <1>1, NamesNotAddresses
<1>4. ToAsciiLowercase(canonical) = canonical
  BY <1>2, LowercaseIsFixed
<1>5. StripRootDot(canonical) = canonical
  BY <1>1, <1>2, FaultlessHasNoRootDot DEF StripRootDot
<1>6. Len(canonical) =< MaxName
  BY <1>1, <1>2, TextLength, NamesAssumption
<1> HIDE DEF bare, canonical
<1> QED BY <1>1, <1>2, <1>3, <1>4, <1>5, <1>6

\* A name that was accepted is accepted again, and stays as it is.
THEOREM NameIsReadBack ==
  ASSUME NEW input \in Text, RemapNameParse(input).ok
  PROVE  RemapNameParse(RemapNameParse(input).value) = RemapNameParse(input)
<1> DEFINE name == RemapNameParse(input).value
<1>1. /\ name \in Text /\ name # <<>> /\ name \notin AddressLiterals
      /\ Len(name) =< MaxName /\ FaultySpans(name) = {}
      /\ ToAsciiLowercase(name) = name /\ StripRootDot(name) = name
  BY AcceptedName
<1>2. ~ (Len(name) > MaxName)
  BY <1>1, TextLength, NamesAssumption
<1>3. RemapNameParse(input) = Ok(name)
  BY NameAnswers DEF Ok, RemapNameParse, Err
<1> HIDE DEF name
<1>4. RemapNameParse(name) = Ok(name)
  BY <1>1, <1>2 DEF RemapNameParse
<1> QED BY <1>3, <1>4 DEF name

\* A root dot and the case of a name show neither in it nor in why it is refused.
THEOREM NameSpelling ==
  ASSUME NEW input \in Text
  PROVE  /\ RemapNameParse(ToAsciiLowercase(input)) = RemapNameParse(input)
         /\ ~ EndsWith(input, Dot) =>
              RemapNameParse(Append(input, Dot)) = RemapNameParse(input)
<1>1. RemapNameParse(ToAsciiLowercase(input)) = RemapNameParse(input)
  <2> DEFINE bare == StripRootDot(input)  low == ToAsciiLowercase(input)
             canonical == ToAsciiLowercase(bare)
  <2>1. /\ bare \in Text /\ StripRootDot(low) = canonical
        /\ low = <<>> <=> input = <<>>
    BY StripRootDotIsText, StripAndLowercase, LowercaseLength
  <2>2. /\ canonical = <<>> <=> bare = <<>>
        /\ canonical \in AddressLiterals <=> bare \in AddressLiterals
        /\ ToAsciiLowercase(canonical) = canonical
    BY <2>1, LowercaseLength, AddressInAnyCase, LowercaseIsFixed
  <2> HIDE DEF bare, low, canonical
  <2>3. RemapNameParse(input) =
          IF input = <<>> \/ bare = <<>>      THEN Err("Empty")
          ELSE IF bare \in AddressLiterals    THEN Err("AddressLiteral")
          ELSE IF Len(canonical) > MaxName    THEN Err("NameTooLong")
          ELSE IF FaultySpans(canonical) # {} THEN Err(FirstFault(canonical))
          ELSE Ok(canonical)
    BY DEF RemapNameParse, bare, canonical
  <2>4. RemapNameParse(low) =
          IF low = <<>> \/ canonical = <<>>   THEN Err("Empty")
          ELSE IF canonical \in AddressLiterals THEN Err("AddressLiteral")
          ELSE IF Len(canonical) > MaxName    THEN Err("NameTooLong")
          ELSE IF FaultySpans(canonical) # {} THEN Err(FirstFault(canonical))
          ELSE Ok(canonical)
    BY <2>1, <2>2 DEF RemapNameParse
  <2>5. RemapNameParse(low) = RemapNameParse(input)
    BY <2>1, <2>2, <2>3, <2>4
  <2> QED BY <2>5 DEF low
<1>2. ASSUME ~ EndsWith(input, Dot)
      PROVE  RemapNameParse(Append(input, Dot)) = RemapNameParse(input)
  <2> DEFINE dotted == Append(input, Dot)
  <2>1. Dot \in Byte
    BY DEF Dot, Byte
  <2>2. /\ dotted \in Text /\ Len(dotted) = Len(input) + 1 /\ dotted[Len(dotted)] = Dot
        /\ \A i \in 1 .. Len(input) : dotted[i] = input[i]
    BY <2>1 DEF Text
  <2>3. Len(input) \in Nat /\ dotted # <<>>
    BY <2>2, TextLength
  <2> HIDE DEF dotted
  <2>4. EndsWith(dotted, Dot)
    BY <2>2, <2>3 DEF EndsWith
  <2>5. StripRootDot(dotted) = input
    <3>1. /\ StripRootDot(dotted) \in Text /\ Len(StripRootDot(dotted)) = Len(dotted) - 1
          /\ \A i \in 1 .. (Len(dotted) - 1) : StripRootDot(dotted)[i] = dotted[i]
      BY <2>2, <2>4, StrippedText
    <3>2. Len(dotted) - 1 = Len(input)
      BY <2>2, <2>3
    <3> QED BY <2>2, <3>1, <3>2, SeqEqual DEF Text
  <2>6. StripRootDot(input) = input
    BY <1>2 DEF StripRootDot
  <2>7. RemapNameParse(dotted) = RemapNameParse(input)
    BY <2>3, <2>5, <2>6 DEF RemapNameParse
  <2> QED BY <2>7 DEF dotted
<1> QED BY <1>1, <1>2

-----------------------------------------------------------------------------
\* NamePattern::parse.

\* Whether a text begins with "*." is told by its first two bytes.
LEMMA WildcardPrefix ==
  ASSUME NEW t \in Text
  PROVE  IsPrefix(StarDot, t) <=> Len(t) >= 2 /\ t[1] = Star /\ t[2] = Dot
<1>1. /\ StarDot \in Seq(Byte) /\ Len(StarDot) = 2 /\ StarDot[1] = Star /\ StarDot[2] = Dot
  BY DEF StarDot, Star, Dot, Byte
<1>2. Len(t) \in Nat /\ \A i \in 1 .. Len(t) : t[i] \in Byte
  BY TextLength, ElementOfSeq DEF Text
<1>3. SubSeq(StarDot, 1, 2) = StarDot
  BY <1>1, SubSeqFull
<1>4. ASSUME Len(t) >= 2
      PROVE  /\ SubSeq(t, 1, 2) \in Seq(Byte) /\ Len(SubSeq(t, 1, 2)) = 2
             /\ \A i \in 1 .. 2 : SubSeq(t, 1, 2)[i] = t[i]
  <2>1. \A i \in 1 .. 2 : t[i] \in Byte
    BY <1>2, <1>4
  <2>2. /\ SubSeq(t, 1, 2) \in Seq(Byte)
        /\ Len(SubSeq(t, 1, 2)) = IF 1 =< 2 THEN 2 - 1 + 1 ELSE 0
        /\ \A i \in 1 .. (2 - 1 + 1) : SubSeq(t, 1, 2)[i] = t[1 + i - 1]
    BY <2>1, SubSeqProperties
  <2>3. \A i \in 1 .. 2 : 1 + i - 1 = i
    OBVIOUS
  <2> QED BY <2>2, <2>3
<1>5. ASSUME Len(t) >= 2
      PROVE  StarDot = SubSeq(t, 1, 2) <=> t[1] = Star /\ t[2] = Dot
  <2> DEFINE u == SubSeq(t, 1, 2)
  <2>1. u \in Seq(Byte) /\ Len(u) = 2 /\ u[1] = t[1] /\ u[2] = t[2]
    BY <1>4, <1>5
  <2> HIDE DEF u
  <2>2. \A i \in 1 .. 2 : i = 1 \/ i = 2
    OBVIOUS
  <2>3. u[1] = Star /\ u[2] = Dot => u = StarDot
    BY <1>1, <2>1, <2>2, SeqEqual
  <2>4. u = StarDot => u[1] = Star /\ u[2] = Dot
    BY <1>1
  <2>5. StarDot = u <=> t[1] = Star /\ t[2] = Dot
    BY <2>1, <2>3, <2>4
  <2> QED BY <2>5 DEF u
<1> QED BY <1>1, <1>2, <1>3, <1>5 DEF IsPrefix

\* What follows the first two bytes of a text.
LEMMA SuffixText ==
  ASSUME NEW t \in Text, Len(t) >= 2
  PROVE  /\ SubSeq(t, 3, Len(t)) \in Text
         /\ Len(SubSeq(t, 3, Len(t))) = Len(t) - 2
         /\ \A i \in 1 .. (Len(t) - 2) : SubSeq(t, 3, Len(t))[i] = t[i + 2]
<1>1. Len(t) \in Nat
  BY TextLength
<1>2. \A i \in 3 .. Len(t) : t[i] \in Byte
  <2>1. 3 .. Len(t) \subseteq 1 .. Len(t)
    BY <1>1
  <2> QED BY <2>1, ElementOfSeq DEF Text
<1>3. /\ SubSeq(t, 3, Len(t)) \in Seq(Byte)
      /\ Len(SubSeq(t, 3, Len(t))) = IF 3 =< Len(t) THEN Len(t) - 3 + 1 ELSE 0
      /\ \A i \in 1 .. (Len(t) - 3 + 1) : SubSeq(t, 3, Len(t))[i] = t[3 + i - 1]
  BY <1>1, <1>2, SubSeqProperties
<1>4. ASSUME NEW n \in Nat, n >= 2
      PROVE  /\ n - 3 + 1 = n - 2 /\ (IF 3 =< n THEN n - 3 + 1 ELSE 0) = n - 2
             /\ \A i \in 1 .. (n - 2) : 3 + i - 1 = i + 2
  BY <1>4
<1>5. \A i \in 1 .. (Len(t) - 2) : SubSeq(t, 3, Len(t))[i] = t[i + 2]
  BY <1>1, <1>3, <1>4
<1> QED BY <1>1, <1>3, <1>4, <1>5 DEF Text

\* Two texts, one after the other.
LEMMA JoinedTexts ==
  ASSUME NEW s \in Text, NEW t \in Text
  PROVE  /\ s \o t \in Text /\ Len(s \o t) = Len(s) + Len(t)
         /\ \A i \in 1 .. Len(s) : (s \o t)[i] = s[i]
         /\ \A i \in 1 .. Len(t) : (s \o t)[Len(s) + i] = t[i]
<1>1. /\ s \o t \in Seq(Byte) /\ Len(s \o t) = Len(s) + Len(t)
      /\ \A i \in 1 .. (Len(s) + Len(t)) :
           (s \o t)[i] = IF i =< Len(s) THEN s[i] ELSE t[i - Len(s)]
  BY ConcatProperties DEF Text
<1>2. ASSUME NEW m \in Nat, NEW n \in Nat
      PROVE  /\ \A i \in 1 .. m : i \in 1 .. (m + n) /\ i =< m
             /\ \A i \in 1 .. n : /\ m + i \in 1 .. (m + n) /\ ~ (m + i =< m)
                                 /\ (m + i) - m = i
  OBVIOUS
<1>3. Len(s) \in Nat /\ Len(t) \in Nat
  BY TextLength
<1>4. /\ \A i \in 1 .. Len(s) : i \in 1 .. (Len(s) + Len(t)) /\ i =< Len(s)
      /\ \A i \in 1 .. Len(t) : /\ Len(s) + i \in 1 .. (Len(s) + Len(t))
                                /\ ~ (Len(s) + i =< Len(s)) /\ (Len(s) + i) - Len(s) = i
  BY <1>2, <1>3
<1> QED BY <1>1, <1>4 DEF Text

\* The inputs that are refused for want of a suffix.
LEMMA BareStar ==
  ASSUME NEW t \in Text
  PROVE  t \in {<<Star>>, StarDot} <=>
           /\ Len(t) \in {1, 2} /\ t[1] = Star
           /\ Len(t) = 2 => t[2] = Dot
<1>1. /\ StarDot \in Seq(Byte) /\ Len(StarDot) = 2 /\ StarDot[1] = Star /\ StarDot[2] = Dot
      /\ <<Star>> \in Seq(Byte) /\ Len(<<Star>>) = 1 /\ <<Star>>[1] = Star
  BY DEF StarDot, Star, Dot, Byte
<1>2. \A i \in 1 .. 2 : i = 1 \/ i = 2
  OBVIOUS
<1>3. \A i \in 1 .. 1 : i = 1
  OBVIOUS
<1>4. ASSUME Len(t) = 1, t[1] = Star
      PROVE  t = <<Star>>
  BY <1>1, <1>3, <1>4, SeqEqual DEF Text
<1>5. ASSUME Len(t) = 2, t[1] = Star, t[2] = Dot
      PROVE  t = StarDot
  BY <1>1, <1>2, <1>5, SeqEqual DEF Text
<1>6. t = <<Star>> => Len(t) = 1 /\ t[1] = Star
  BY <1>1
<1>7. t = StarDot => Len(t) = 2 /\ t[1] = Star /\ t[2] = Dot
  BY <1>1
<1>8. 1 # 2
  OBVIOUS
<1> QED BY <1>4, <1>5, <1>6, <1>7, <1>8

\* What NamePattern::parse hands on to RemapName::parse.
Stem(t) == IF IsPrefix(StarDot, t) THEN SubSeq(t, 3, Len(t)) ELSE t

\* The name in a pattern is a text,
LEMMA StemIsText ==
  ASSUME NEW t \in Text
  PROVE  Stem(t) \in Text
BY WildcardPrefix, SuffixText DEF Stem

\* and the pattern is parsed by parsing it.
LEMMA PatternByStem ==
  ASSUME NEW t
  PROVE  PatternParse(t) =
           IF t \in {<<Star>>, StarDot} THEN Err("WildcardWithoutSuffix")
           ELSE IF ~ RemapNameParse(Stem(t)).ok THEN RemapNameParse(Stem(t))
           ELSE IF IsPrefix(StarDot, t) THEN Ok(Wildcard(RemapNameParse(Stem(t)).value))
           ELSE Ok(Exact(RemapNameParse(Stem(t)).value))
<1>1. CASE IsPrefix(StarDot, t)
  BY <1>1 DEF PatternParse, Stem
<1>2. CASE ~ IsPrefix(StarDot, t)
  BY <1>2 DEF PatternParse, Stem
<1> QED BY <1>1, <1>2

\* Every input of NamePattern::parse is answered, with a pattern or with an error.
LEMMA PatternAnswers ==
  ASSUME NEW input \in Text
  PROVE  PatternParse(input) \in [ok : {TRUE}, value : Pattern] \cup [ok : {FALSE}, error : NameErrors]
<1> DEFINE parsed == RemapNameParse(Stem(input))
           Answers == [ok : {TRUE}, value : Pattern] \cup [ok : {FALSE}, error : NameErrors]
<1>1. parsed \in [ok : {TRUE}, value : Text] \cup [ok : {FALSE}, error : NameErrors]
  BY StemIsText, NameAnswers
<1> HIDE DEF parsed
<1>2. Err("WildcardWithoutSuffix") \in Answers
  BY DEF Err, NameErrors
<1>3. ~ parsed.ok => parsed \in Answers
  BY <1>1
<1>4. parsed.ok => Ok(Wildcard(parsed.value)) \in Answers /\ Ok(Exact(parsed.value)) \in Answers
  BY <1>1 DEF Ok, Wildcard, Exact, Pattern
<1> HIDE DEF Answers
<1>5. PatternParse(input) \in Answers
  <2>1. PatternParse(input) =
           IF input \in {<<Star>>, StarDot} THEN Err("WildcardWithoutSuffix")
           ELSE IF ~ parsed.ok THEN parsed
           ELSE IF IsPrefix(StarDot, input) THEN Ok(Wildcard(parsed.value))
           ELSE Ok(Exact(parsed.value))
    BY PatternByStem DEF parsed
  <2> QED BY <1>2, <1>3, <1>4, <2>1
<1> QED BY <1>5 DEF Answers

\* A pattern that was accepted has a name that was accepted.
LEMMA AcceptedPattern ==
  ASSUME NEW input \in Text, PatternParse(input).ok
  PROVE  LET p == PatternParse(input).value
         IN  /\ PatternParse(input) = Ok(p) /\ p \in Pattern
             /\ p = IF IsPrefix(StarDot, input) THEN Wildcard(p.name) ELSE Exact(p.name)
             /\ RemapNameParse(Stem(input)).ok /\ RemapNameParse(Stem(input)).value = p.name
<1> DEFINE parsed == RemapNameParse(Stem(input))  p == PatternParse(input).value
<1>1. parsed.ok \in BOOLEAN
  BY StemIsText, NameAnswers
<1>2. /\ parsed.ok
      /\ PatternParse(input) = Ok(IF IsPrefix(StarDot, input) THEN Wildcard(parsed.value)
                                  ELSE Exact(parsed.value))
  <2> HIDE DEF parsed
  <2>1. PatternParse(input) =
           IF input \in {<<Star>>, StarDot} THEN Err("WildcardWithoutSuffix")
           ELSE IF ~ parsed.ok THEN parsed
           ELSE IF IsPrefix(StarDot, input) THEN Ok(Wildcard(parsed.value))
           ELSE Ok(Exact(parsed.value))
    BY PatternByStem DEF parsed
  <2>2. input \notin {<<Star>>, StarDot}
    BY <2>1 DEF Err
  <2> QED BY <1>1, <2>1, <2>2
<1>3. p = IF IsPrefix(StarDot, input) THEN Wildcard(parsed.value) ELSE Exact(parsed.value)
  BY <1>2 DEF Ok
<1>4. p.name = parsed.value
  BY <1>3 DEF Wildcard, Exact
<1>5. p \in Pattern
  BY PatternAnswers
<1> HIDE DEF parsed, p
<1>6. PatternParse(input) = Ok(p)
  BY <1>2, <1>3
<1> QED BY <1>2, <1>3, <1>4, <1>5, <1>6 DEF parsed, p

\* What fmt prints for a pattern is parsed as the same pattern.
THEOREM PatternIsReadBack ==
  ASSUME NEW input \in Text, PatternParse(input).ok
  PROVE  PatternParse(PatternDisplay(PatternParse(input).value)) = PatternParse(input)
<1> DEFINE p == PatternParse(input).value
           n == p.name
           d == PatternDisplay(p)
<1>1. /\ PatternParse(input) = Ok(p)
      /\ p = Wildcard(n) \/ p = Exact(n)
      /\ RemapNameParse(Stem(input)).ok /\ RemapNameParse(Stem(input)).value = n
      /\ Stem(input) \in Text
  BY AcceptedPattern, StemIsText
<1>2. n \in Text /\ n # <<>> /\ FaultySpans(n) = {}
  BY <1>1, AcceptedName
<1>3. RemapNameParse(n).ok /\ RemapNameParse(n).value = n
  BY <1>1, NameIsReadBack
<1> HIDE DEF p, n
<1>4. Len(n) \in Nat \ {0}
  BY <1>2, TextLength
<1>5. CASE p = Exact(n)
  <2>1. d = n
    BY <1>5 DEF PatternDisplay, Exact
  <2>2. n[1] # Star
    <3>1. n[1] = Dot \/ n[1] = Hyphen \/ IsAsciiAlphanumeric(n[1])
      BY <1>2, <1>4, FaultlessTextBytes
    <3> QED BY <3>1 DEF IsAsciiAlphanumeric, Star, Dot, Hyphen
  <2>3. ~ IsPrefix(StarDot, n) /\ n \notin {<<Star>>, StarDot}
    BY <1>2, <2>2, WildcardPrefix, BareStar
  <2>4. PatternParse(n) = Ok(Exact(n))
    BY <1>3, <2>3, PatternByStem DEF Stem
  <2> QED BY <1>1, <1>5, <2>1, <2>4 DEF p
<1>6. CASE p = Wildcard(n)
  <2>1. d = StarDot \o n
    BY <1>6 DEF PatternDisplay, Wildcard
  <2> HIDE DEF d
  <2>2. /\ StarDot \in Seq(Byte) /\ Len(StarDot) = 2 /\ StarDot[1] = Star /\ StarDot[2] = Dot
    BY DEF StarDot, Star, Dot, Byte
  <2>3. /\ d \in Text /\ Len(d) = 2 + Len(n) /\ d[1] = Star /\ d[2] = Dot
        /\ \A i \in 1 .. Len(n) : d[i + 2] = n[i]
    <3>1. /\ d \in Text /\ Len(d) = 2 + Len(n)
          /\ \A i \in 1 .. 2 : d[i] = StarDot[i]
          /\ \A i \in 1 .. Len(n) : d[2 + i] = n[i]
      <4>1. n \in Seq(Byte) /\ StarDot \in Seq(Byte) /\ Len(StarDot) = 2
        BY <1>2, <2>2 DEF Text
      <4>2. /\ StarDot \o n \in Seq(Byte)
            /\ Len(StarDot \o n) = Len(StarDot) + Len(n)
            /\ \A i \in 1 .. Len(StarDot) : (StarDot \o n)[i] = StarDot[i]
            /\ \A i \in 1 .. Len(n) : (StarDot \o n)[Len(StarDot) + i] = n[i]
        BY <4>1, JoinedTexts DEF Text
      <4>3. d \in Text /\ Len(d) = 2 + Len(n)
        BY <2>1, <4>1, <4>2 DEF Text
      <4> QED BY <2>1, <4>1, <4>2, <4>3
    <3>2. \A i \in 1 .. Len(n) : i + 2 = 2 + i
      BY <1>4
    <3> QED BY <2>2, <3>1, <3>2
  <2>4. Len(d) >= 2 /\ Len(d) \notin {1, 2} /\ Len(d) - 2 = Len(n)
    BY <1>4, <2>3
  <2>5. IsPrefix(StarDot, d) /\ d \notin {<<Star>>, StarDot}
    BY <2>3, <2>4, WildcardPrefix, BareStar
  <2>6. SubSeq(d, 3, Len(d)) = n
    <3>1. /\ SubSeq(d, 3, Len(d)) \in Text /\ Len(SubSeq(d, 3, Len(d))) = Len(n)
          /\ \A i \in 1 .. Len(n) : SubSeq(d, 3, Len(d))[i] = d[i + 2]
      BY <2>3, <2>4, SuffixText
    <3> QED BY <1>2, <2>3, <3>1, SeqEqual DEF Text
  <2>7. PatternParse(d) = Ok(Wildcard(n))
    BY <1>3, <2>5, <2>6, PatternByStem DEF Stem
  <2> QED BY <1>1, <1>6, <2>7 DEF d, p
<1> QED BY <1>1, <1>5, <1>6

\* Lower case keeps what kind of pattern a text is,
LEMMA StemInLowercase ==
  ASSUME NEW t \in Text
  PROVE  LET low == ToAsciiLowercase(t)
         IN  /\ IsPrefix(StarDot, low) <=> IsPrefix(StarDot, t)
             /\ low \in {<<Star>>, StarDot} <=> t \in {<<Star>>, StarDot}
             /\ Stem(low) = ToAsciiLowercase(Stem(t))
<1> DEFINE low == ToAsciiLowercase(t)
<1>1. /\ low \in Text /\ Len(low) = Len(t) /\ DOMAIN t = 1 .. Len(t) /\ Len(t) \in Nat
      /\ \A i \in DOMAIN t : low[i] = AsciiLower(t[i])
      /\ \A i \in DOMAIN t : low[i] = Star <=> t[i] = Star
      /\ \A i \in DOMAIN t : low[i] = Dot <=> t[i] = Dot
  BY LowercaseIsText, LowercaseLength, LowercaseKeeps, TextLength
<1>2. ASSUME NEW n \in Nat, n >= 2 PROVE 1 \in 1 .. n /\ 2 \in 1 .. n
  BY <1>2
<1> HIDE DEF low
<1>3. IsPrefix(StarDot, low) <=> IsPrefix(StarDot, t)
  <2>1. Len(t) >= 2 => 1 \in DOMAIN t /\ 2 \in DOMAIN t
    BY <1>1, <1>2
  <2> QED BY <1>1, <2>1, WildcardPrefix
<1>4. low \in {<<Star>>, StarDot} <=> t \in {<<Star>>, StarDot}
  <2>1. Len(t) \in {1, 2} => 1 \in DOMAIN t
    BY <1>1
  <2>2. Len(t) = 2 => 2 \in DOMAIN t
    BY <1>1
  <2> QED BY <1>1, <2>1, <2>2, BareStar
<1>5. Stem(low) = ToAsciiLowercase(Stem(t))
  <2>1. CASE ~ IsPrefix(StarDot, t)
    BY <1>3, <2>1 DEF Stem, low
  <2>2. CASE IsPrefix(StarDot, t)
    <3> DEFINE u == SubSeq(t, 3, Len(t))  v == SubSeq(low, 3, Len(low))
    <3>1. Len(t) >= 2
      BY <2>2, WildcardPrefix
    <3>2. /\ u \in Text /\ Len(u) = Len(t) - 2 /\ \A i \in 1 .. (Len(t) - 2) : u[i] = t[i + 2]
      BY <3>1, SuffixText
    <3>3. /\ v \in Text /\ Len(v) = Len(t) - 2 /\ \A i \in 1 .. (Len(t) - 2) : v[i] = low[i + 2]
      BY <1>1, <3>1, SuffixText
    <3> HIDE DEF u, v
    <3>4. /\ ToAsciiLowercase(u) \in Text /\ Len(ToAsciiLowercase(u)) = Len(t) - 2
          /\ \A i \in 1 .. (Len(t) - 2) : ToAsciiLowercase(u)[i] = AsciiLower(u[i])
      BY <3>2, LowercaseIsText, LowercaseLength, TextLength
    <3>5. ASSUME NEW i \in 1 .. (Len(t) - 2) PROVE i + 2 \in DOMAIN t
      BY <1>1
    <3>6. \A i \in 1 .. (Len(t) - 2) : v[i] = ToAsciiLowercase(u)[i]
      BY <1>1, <3>2, <3>3, <3>4, <3>5
    <3>7. v = ToAsciiLowercase(u)
      BY <3>3, <3>4, <3>6, SeqEqual DEF Text
    <3> QED BY <1>3, <2>2, <3>7 DEF Stem, u, v
  <2> QED BY <2>1, <2>2
<1> QED BY <1>3, <1>4, <1>5 DEF low

\* and so does a root dot.
LEMMA StemWithRootDot ==
  ASSUME NEW t \in Text, ~ EndsWith(t, Dot), t \notin {<<Star>>, StarDot}
  PROVE  LET dotted == Append(t, Dot)
         IN  /\ IsPrefix(StarDot, dotted) <=> IsPrefix(StarDot, t)
             /\ dotted \notin {<<Star>>, StarDot}
             /\ Stem(dotted) = Append(Stem(t), Dot) /\ ~ EndsWith(Stem(t), Dot)
<1> DEFINE dotted == Append(t, Dot)
<1>1. /\ dotted \in Text /\ Len(dotted) = Len(t) + 1 /\ dotted[Len(t) + 1] = Dot
      /\ \A i \in 1 .. Len(t) : dotted[i] = t[i]
      /\ Len(t) \in Nat
  BY TextLength DEF Text, Dot, Byte
<1>2. ~ (Len(t) \in {1, 2} /\ t[1] = Star /\ (Len(t) = 2 => t[2] = Dot))
  BY BareStar
<1>3. Len(t) # 0 => t[Len(t)] # Dot
  BY TextLength DEF EndsWith
<1> HIDE DEF dotted
<1>4. CASE Len(t) = 0
  <2>1. Len(dotted) = 1 /\ dotted[1] = Dot
    BY <1>1, <1>4
  <2>2. t = <<>> /\ ~ IsPrefix(StarDot, t) /\ ~ IsPrefix(StarDot, dotted)
    BY <1>1, <1>4, <2>1, TextLength, WildcardPrefix
  <2>3. dotted \notin {<<Star>>, StarDot}
    BY <1>1, <2>1, BareStar DEF Star, Dot
  <2> QED BY <2>2, <2>3 DEF Stem, EndsWith, dotted
<1>5. CASE Len(t) = 1
  <2>1. Len(dotted) = 2 /\ dotted[1] = t[1] /\ t[1] # Star
    BY <1>1, <1>2, <1>5
  <2>2. ~ IsPrefix(StarDot, t) /\ ~ IsPrefix(StarDot, dotted)
    BY <1>1, <1>5, <2>1, WildcardPrefix
  <2>3. dotted \notin {<<Star>>, StarDot}
    BY <1>1, <2>1, BareStar
  <2> QED BY <2>2, <2>3 DEF Stem, dotted
<1>6. CASE Len(t) >= 2
  <2>1. /\ dotted[1] = t[1] /\ dotted[2] = t[2] /\ Len(dotted) >= 2 /\ Len(dotted) \notin {1, 2}
    BY <1>1, <1>6
  <2>2. IsPrefix(StarDot, dotted) <=> IsPrefix(StarDot, t)
    BY <1>1, <1>6, <2>1, WildcardPrefix
  <2>3. dotted \notin {<<Star>>, StarDot}
    BY <1>1, <2>1, BareStar
  <2>4. CASE ~ IsPrefix(StarDot, t)
    BY <2>2, <2>3, <2>4 DEF Stem, dotted
  <2>5. CASE IsPrefix(StarDot, t)
    <3> DEFINE u == SubSeq(t, 3, Len(t))  v == SubSeq(dotted, 3, Len(dotted))
    <3>1. Len(t) >= 2 /\ Len(t) # 2 /\ Len(dotted) - 2 = Len(t) - 2 + 1
      BY <1>1, <1>2, <1>6, <2>5, WildcardPrefix
    <3>2. u \in Text /\ Len(u) = Len(t) - 2 /\ \A i \in 1 .. (Len(t) - 2) : u[i] = t[i + 2]
      BY <1>6, SuffixText
    <3>3. /\ v \in Text /\ Len(v) = Len(t) - 2 + 1
          /\ \A i \in 1 .. (Len(t) - 2 + 1) : v[i] = dotted[i + 2]
      BY <1>1, <2>1, <3>1, SuffixText
    <3> HIDE DEF u, v
    <3>4. /\ Append(u, Dot) \in Text /\ Len(Append(u, Dot)) = Len(t) - 2 + 1
          /\ Append(u, Dot)[Len(t) - 2 + 1] = Dot
          /\ \A i \in 1 .. (Len(t) - 2) : Append(u, Dot)[i] = u[i]
      BY <3>2 DEF Text, Dot, Byte
    <3>5. ASSUME NEW i \in 1 .. (Len(t) - 2 + 1)
          PROVE  v[i] = Append(u, Dot)[i]
      <4>1. CASE i = Len(t) - 2 + 1
        <5>1. i + 2 = Len(t) + 1
          BY <1>1, <4>1
        <5> QED BY <1>1, <3>3, <3>4, <4>1, <5>1
      <4>2. CASE i # Len(t) - 2 + 1
        <5>1. i \in 1 .. (Len(t) - 2) /\ i + 2 \in 1 .. Len(t)
          BY <1>1, <3>5, <4>2
        <5> QED BY <1>1, <3>2, <3>3, <3>4, <3>5, <5>1
      <4> QED BY <4>1, <4>2
    <3>6. v = Append(u, Dot)
      BY <3>3, <3>4, <3>5, SeqEqual DEF Text
    <3>7. ~ EndsWith(u, Dot)
      <4>1. ASSUME NEW n \in Nat, n >= 2, n # 2
            PROVE  n - 2 \in 1 .. (n - 2) /\ (n - 2) + 2 = n /\ n # 0
        BY <4>1
      <4>2. Len(t) - 2 \in 1 .. (Len(t) - 2) /\ (Len(t) - 2) + 2 = Len(t) /\ Len(t) # 0
        BY <1>1, <3>1, <4>1
      <4> QED BY <1>3, <3>2, <4>2 DEF EndsWith
    <3> QED BY <2>2, <2>3, <2>5, <3>6, <3>7 DEF Stem, u, v, dotted
  <2> QED BY <2>4, <2>5
<1>7. \A n \in Nat : n = 0 \/ n = 1 \/ n >= 2
  OBVIOUS
<1> QED BY <1>1, <1>4, <1>5, <1>6, <1>7

\* A root dot and the case of a pattern show neither in it nor in why it is refused.
THEOREM PatternSpelling ==
  ASSUME NEW input \in Text
  PROVE  /\ PatternParse(ToAsciiLowercase(input)) = PatternParse(input)
         /\ ~ EndsWith(input, Dot) => PatternParse(Append(input, Dot)) = PatternParse(input)
<1>1. PatternParse(ToAsciiLowercase(input)) = PatternParse(input)
  <2> DEFINE low == ToAsciiLowercase(input)
  <2>1. /\ IsPrefix(StarDot, low) <=> IsPrefix(StarDot, input)
        /\ low \in {<<Star>>, StarDot} <=> input \in {<<Star>>, StarDot}
        /\ Stem(low) = ToAsciiLowercase(Stem(input))
    BY StemInLowercase
  <2>2. RemapNameParse(ToAsciiLowercase(Stem(input))) = RemapNameParse(Stem(input))
    BY StemIsText, NameSpelling
  <2> HIDE DEF low
  <2>3. RemapNameParse(Stem(low)) = RemapNameParse(Stem(input))
    BY <2>1, <2>2
  <2>4. PatternParse(low) = PatternParse(input)
    BY <2>1, <2>3, PatternByStem
  <2> QED BY <2>4 DEF low
<1>2. ASSUME ~ EndsWith(input, Dot)
      PROVE  PatternParse(Append(input, Dot)) = PatternParse(input)
  <2>1. CASE input \in {<<Star>>, StarDot}
    <3>1. input = <<Star>>
      BY <1>2, <2>1 DEF EndsWith, StarDot
    <3>2. Append(input, Dot) \in {<<Star>>, StarDot}
      <4>1. Len(input) = 1 /\ input[1] = Star
        BY <3>1
      <4>2. /\ Append(input, Dot) \in Text /\ Len(Append(input, Dot)) = Len(input) + 1
            /\ Append(input, Dot)[Len(input) + 1] = Dot
            /\ \A i \in 1 .. Len(input) : Append(input, Dot)[i] = input[i]
        BY AppendProperties DEF Text, Dot, Byte
      <4>3. Len(Append(input, Dot)) = 2 /\ Append(input, Dot)[2] = Dot
            /\ Append(input, Dot)[1] = Star
        BY <4>1, <4>2
      <4> QED BY <4>2, <4>3, BareStar
    <3> QED BY <2>1, <3>2, PatternByStem
  <2>2. CASE input \notin {<<Star>>, StarDot}
    <3> DEFINE dotted == Append(input, Dot)
    <3>1. /\ IsPrefix(StarDot, dotted) <=> IsPrefix(StarDot, input)
          /\ dotted \notin {<<Star>>, StarDot}
          /\ Stem(dotted) = Append(Stem(input), Dot) /\ ~ EndsWith(Stem(input), Dot)
      BY <1>2, <2>2, StemWithRootDot
    <3> HIDE DEF dotted
    <3>2. RemapNameParse(Stem(dotted)) = RemapNameParse(Stem(input))
      BY <3>1, StemIsText, NameSpelling
    <3>3. PatternParse(dotted) = PatternParse(input)
      BY <2>2, <3>1, <3>2, PatternByStem
    <3> QED BY <3>3 DEF dotted
  <2> QED BY <2>1, <2>2
<1> QED BY <1>1, <1>2

-----------------------------------------------------------------------------
\* Matching.

\* ends_with, byte by byte; the same for any sequences.
LEMMA SuffixByBytes ==
  ASSUME NEW S, NEW s \in Seq(S), NEW t \in Seq(S)
  PROVE  IsSuffix(s, t) <=>
           /\ Len(s) =< Len(t)
           /\ \A i \in 1 .. Len(s) : s[i] = t[Len(t) - Len(s) + i]
<1> DEFINE r == Reverse(s)
           q == Reverse(t)
<1>0. Len(s) \in Nat /\ Len(t) \in Nat
  OBVIOUS
<1>1. /\ r \in Seq(S) /\ Len(r) = Len(s)
      /\ \A i \in 1 .. Len(s) : r[i] = s[(Len(s) - i) + 1]
  BY <1>0 DEF Reverse
<1>2. /\ q \in Seq(S) /\ Len(q) = Len(t)
      /\ \A i \in 1 .. Len(t) : q[i] = t[(Len(t) - i) + 1]
  BY <1>0 DEF Reverse
<1> HIDE DEF r, q
<1>3. SubSeq(r, 1, Len(r)) = r
  BY <1>1, SubSeqFull
<1>4. ASSUME Len(s) =< Len(t)
      PROVE  r = SubSeq(q, 1, Len(r)) <=> \A i \in 1 .. Len(s) : r[i] = q[i]
  <2>1. /\ SubSeq(q, 1, Len(r)) \in Seq(S)
        /\ Len(SubSeq(q, 1, Len(r))) = Len(s)
        /\ \A i \in 1 .. Len(s) : SubSeq(q, 1, Len(r))[i] = q[i]
    <3>1. \A i \in 1 .. Len(r) : q[i] \in S
      BY <1>0, <1>1, <1>2, <1>4, ElementOfSeq
    <3> QED BY <1>0, <1>1, <3>1, SubSeqProperties
  <2>2. r \in Seq(S)
    BY <1>1
  <2> QED BY <1>1, <2>1, <2>2, SeqEqual
<1>5. ASSUME Len(s) =< Len(t)
      PROVE  (\A i \in 1 .. Len(s) : r[i] = q[i])
               <=> \A i \in 1 .. Len(s) : s[i] = t[Len(t) - Len(s) + i]
  <2>1. ASSUME NEW i \in 1 .. Len(s)
        PROVE  /\ (Len(s) - i) + 1 \in 1 .. Len(s)
               /\ r[i] = s[(Len(s) - i) + 1]
               /\ q[i] = t[Len(t) - Len(s) + ((Len(s) - i) + 1)]
               /\ (Len(s) - ((Len(s) - i) + 1)) + 1 = i
    <3>1. /\ (Len(s) - i) + 1 \in 1 .. Len(s)
          /\ i \in 1 .. Len(t)
          /\ (Len(s) - ((Len(s) - i) + 1)) + 1 = i
          /\ (Len(t) - i) + 1 = Len(t) - Len(s) + ((Len(s) - i) + 1)
      BY <1>0, <1>5
    <3>2. r[i] = s[(Len(s) - i) + 1] /\ q[i] = t[(Len(t) - i) + 1]
      BY <1>1, <1>2, <3>1
    <3> QED BY <3>1, <3>2
  <2>2. ASSUME \A j \in 1 .. Len(s) : r[j] = q[j], NEW i \in 1 .. Len(s)
        PROVE  s[i] = t[Len(t) - Len(s) + i]
    <3>1. PICK j \in 1 .. Len(s) : j = (Len(s) - i) + 1 /\ (Len(s) - j) + 1 = i
      BY <2>1
    <3>2. r[j] = s[i] /\ q[j] = t[Len(t) - Len(s) + i]
      BY <2>1, <3>1
    <3> QED BY <2>2, <3>2
  <2>3. ASSUME \A j \in 1 .. Len(s) : s[j] = t[Len(t) - Len(s) + j], NEW i \in 1 .. Len(s)
        PROVE  r[i] = q[i]
    <3>1. PICK j \in 1 .. Len(s) : j = (Len(s) - i) + 1
      BY <2>1
    <3>2. r[i] = s[j] /\ q[i] = t[Len(t) - Len(s) + j]
      BY <2>1, <3>1
    <3> QED BY <2>3, <3>2
  <2> QED BY <2>2, <2>3
<1> QED BY <1>1, <1>2, <1>3, <1>4, <1>5 DEF IsSuffix, IsPrefix, r, q

\* What follows a dot.
LEMMA TailProperties ==
  ASSUME NEW t \in Text, NEW cut \in Dots(t)
  PROVE  /\ cut \in 1 .. Len(t)
         /\ TailAfter(t, cut) \in Text
         /\ Len(TailAfter(t, cut)) = Len(t) - cut
         /\ \A i \in 1 .. (Len(t) - cut) : TailAfter(t, cut)[i] = t[cut + i]
<1>1. Len(t) \in Nat /\ cut \in 1 .. Len(t)
  BY DEF Text, Dots
<1>2. \A i \in (cut + 1) .. Len(t) : t[i] \in Byte
  BY <1>1, ElementOfSeq DEF Text
<1>3. /\ SubSeq(t, cut + 1, Len(t)) \in Seq(Byte)
      /\ Len(SubSeq(t, cut + 1, Len(t))) =
           IF cut + 1 =< Len(t) THEN Len(t) - (cut + 1) + 1 ELSE 0
      /\ \A i \in 1 .. (Len(t) - (cut + 1) + 1) :
           SubSeq(t, cut + 1, Len(t))[i] = t[(cut + 1) + i - 1]
  BY <1>1, <1>2, SubSeqProperties
<1> QED BY <1>1, <1>3 DEF TailAfter, Text

\* What a non-empty prefix of a text ends with.
LEMMA PrefixEnd ==
  ASSUME NEW t \in Text, NEW n \in 1 .. Len(t), NEW c
  PROVE  EndsWith(SubSeq(t, 1, n), c) <=> t[n] = c
<1>0. Len(t) \in Nat /\ n \in Nat \ {0}
  BY DEF Text
<1>1. \A i \in 1 .. n : t[i] \in Byte
  BY <1>0, ElementOfSeq DEF Text
<1>2. /\ SubSeq(t, 1, n) \in Seq(Byte)
      /\ Len(SubSeq(t, 1, n)) = IF 1 =< n THEN n - 1 + 1 ELSE 0
      /\ \A i \in 1 .. (n - 1 + 1) : SubSeq(t, 1, n)[i] = t[1 + i - 1]
  BY <1>0, <1>1, SubSeqProperties
<1>3. n - 1 + 1 = n /\ 1 + n - 1 = n /\ n \in 1 .. (n - 1 + 1)
  BY <1>0
<1>4. Len(SubSeq(t, 1, n)) = n /\ SubSeq(t, 1, n)[n] = t[n]
  BY <1>0, <1>2, <1>3
<1>5. SubSeq(t, 1, n) # <<>>
  BY <1>0, <1>4, EmptySeq
<1> QED BY <1>4, <1>5 DEF EndsWith

\* NamePattern::matches, which compares bytes, decides ownership by labels: an
\* accepted suffix match always falls on a label boundary.
THEOREM MatchesIsOwns ==
  ASSUME NEW p \in Pattern, NEW name \in Text
  PROVE  Matches(p, name) <=> Owns(p, name)
<1>0. p.name \in Text /\ Len(p.name) \in Nat /\ Len(name) \in Nat
  BY DEF Pattern, Text
<1>1. CASE p.kind = "Exact"
  BY <1>1 DEF Matches, Owns
<1>2. CASE p.kind = "Wildcard"
  <2>1. ASSUME Matches(p, name)
        PROVE  \E c \in Dots(name) : TailAfter(name, c) = p.name
    <3>0. Len(name) - Len(p.name) \in Int
      BY <1>0
    <3>1. PICK cut \in Int : cut = Len(name) - Len(p.name)
      BY <3>0
    <3>2. IsSuffix(p.name, name) /\ EndsWith(SubSeq(name, 1, cut), Dot)
      BY <1>2, <2>1, <3>1 DEF Matches
    <3>3. /\ Len(p.name) =< Len(name)
          /\ \A i \in 1 .. Len(p.name) : p.name[i] = name[cut + i]
      BY <1>0, <3>1, <3>2, SuffixByBytes DEF Text
    <3>4. cut >= 1
      <4>1. cut < 1 => SubSeq(name, 1, cut) = <<>>
        BY <3>1, SubSeqEmpty
      <4> QED BY <3>1, <3>2, <4>1 DEF EndsWith
    <3>5. cut \in 1 .. Len(name)
      BY <1>0, <3>1, <3>4
    <3>6. cut \in Dots(name)
      BY <3>2, <3>5, PrefixEnd DEF Dots
    <3>7. /\ TailAfter(name, cut) \in Text
          /\ Len(TailAfter(name, cut)) = Len(name) - cut
          /\ \A i \in 1 .. (Len(name) - cut) : TailAfter(name, cut)[i] = name[cut + i]
      BY <3>6, TailProperties
    <3>8. Len(name) - cut = Len(p.name)
      BY <1>0, <3>1
    <3>9. TailAfter(name, cut) = p.name
      BY <1>0, <3>3, <3>7, <3>8, SeqEqual DEF Text
    <3> QED BY <3>6, <3>9
  <2>2. ASSUME NEW c \in Dots(name), TailAfter(name, c) = p.name
        PROVE  Matches(p, name)
    <3>1. /\ c \in 1 .. Len(name)
          /\ Len(p.name) = Len(name) - c
          /\ \A i \in 1 .. (Len(name) - c) : p.name[i] = name[c + i]
      BY <2>2, TailProperties
    <3>2. Len(name) - Len(p.name) = c /\ Len(p.name) =< Len(name)
      BY <1>0, <3>1
    <3>3. \A i \in 1 .. Len(p.name) : p.name[i] = name[Len(name) - Len(p.name) + i]
      BY <3>1, <3>2
    <3>4. IsSuffix(p.name, name)
      BY <1>0, <3>2, <3>3, SuffixByBytes DEF Text
    <3>5. name # p.name
      BY <1>0, <3>1
    <3>6. EndsWith(SubSeq(name, 1, Len(name) - Len(p.name)), Dot)
      BY <3>1, <3>2, PrefixEnd DEF Dots
    <3> QED BY <1>2, <3>4, <3>5, <3>6 DEF Matches
  <2> QED BY <1>2, <2>1, <2>2 DEF Owns
<1> QED BY <1>1, <1>2 DEF Pattern

-----------------------------------------------------------------------------
\* Label counts.

\* Labels are counted.
LEMMA DotsAreFinite ==
  ASSUME NEW t \in Text
  PROVE  /\ IsFiniteSet(Dots(t))
         /\ LabelCount(t) \in Nat
<1>1. Len(t) \in Nat
  BY DEF Text
<1>2. IsFiniteSet(1 .. Len(t))
  BY <1>1, FS_Interval
<1>3. Dots(t) \in SUBSET (1 .. Len(t))
  BY DEF Dots
<1>4. IsFiniteSet(Dots(t))
  BY <1>2, <1>3, FS_Subset
<1>5. Cardinality(Dots(t)) \in Nat
  BY <1>4, FS_CardinalityType
<1> QED BY <1>4, <1>5 DEF LabelCount

\* A tail that starts further right has fewer labels: its dots, shifted, are
\* dots of the other tail, which has the dot it starts after as well.
LEMMA LaterTailIsShorter ==
  ASSUME NEW t \in Text, NEW c \in Dots(t), NEW d \in Dots(t), c < d
  PROVE  LabelCount(TailAfter(t, d)) < LabelCount(TailAfter(t, c))
<1> DEFINE early == Dots(TailAfter(t, c))
           late  == Dots(TailAfter(t, d))
           shift == [i \in late |-> i + (d - c)]
<1>1. /\ c \in 1 .. Len(t) /\ d \in 1 .. Len(t) /\ Len(t) \in Nat
      /\ t[d] = Dot
  BY DEF Dots, Text
<1>2. early = {i \in 1 .. (Len(t) - c) : t[c + i] = Dot}
  BY <1>1, TailProperties DEF Dots
<1>3. late = {i \in 1 .. (Len(t) - d) : t[d + i] = Dot}
  BY <1>1, TailProperties DEF Dots
<1>4. IsFiniteSet(early) /\ IsFiniteSet(late)
  BY TailProperties, DotsAreFinite
<1>5. d - c \in early
  BY <1>1, <1>2
<1>6. ASSUME NEW i \in late
      PROVE  i + (d - c) \in early \ {d - c}
  BY <1>1, <1>2, <1>3, <1>6
<1>7. shift \in Injection(late, early \ {d - c})
  <2>1. shift \in [late -> early \ {d - c}]
    BY <1>6
  <2>2. \A i, j \in late : shift[i] = shift[j] => i = j
    BY <1>1, <1>3
  <2> QED BY <2>1, <2>2 DEF Injection, IsInjective
<1>8. /\ IsFiniteSet(early \ {d - c})
      /\ Cardinality(early \ {d - c}) = Cardinality(early) - 1
  BY <1>4, <1>5, FS_RemoveElement
<1>9. Cardinality(late) =< Cardinality(early) - 1
  BY <1>7, <1>8, FS_Injection
<1>10. Cardinality(late) \in Nat /\ Cardinality(early) \in Nat
  BY <1>4, FS_CardinalityType
<1> QED BY <1>9, <1>10 DEF LabelCount

\* Two wildcards that own one name and have equally many labels are the same,
\* so the text order that breaks ties in a snapshot never picks an answer.
THEOREM OneOwnerPerLabelCount ==
  ASSUME NEW p \in Pattern, NEW q \in Pattern, NEW name \in Text,
         p.kind = "Wildcard", q.kind = "Wildcard",
         Owns(p, name), Owns(q, name),
         LabelCount(p.name) = LabelCount(q.name)
  PROVE  p = q
<1>1. PICK c \in Dots(name) : TailAfter(name, c) = p.name
  BY DEF Owns
<1>2. PICK d \in Dots(name) : TailAfter(name, d) = q.name
  BY DEF Owns
<1>3. LabelCount(p.name) \in Nat /\ c \in Nat /\ d \in Nat
  <2>1. p.name \in Text /\ Len(name) \in Nat
    BY DEF Pattern, Text
  <2>2. LabelCount(p.name) \in Nat
    BY <2>1, DotsAreFinite
  <2> QED BY <2>1, <2>2 DEF Dots
<1>4. ~ (c < d) /\ ~ (d < c)
  BY <1>1, <1>2, <1>3, LaterTailIsShorter
<1>5. p.name = q.name
  BY <1>1, <1>2, <1>3, <1>4
<1> QED BY <1>5 DEF Pattern

\* Of two patterns that own one name at most one has any given rank.
THEOREM OneOwnerPerRank ==
  ASSUME NEW p \in Pattern, NEW q \in Pattern, NEW name \in Text,
         Matches(p, name), Matches(q, name), ResolutionRank(p) = ResolutionRank(q)
  PROVE  p = q
<1>1. Owns(p, name) /\ Owns(q, name) /\ p.name \in Text /\ q.name \in Text
  BY MatchesIsOwns DEF Pattern
<1>2. p.kind = q.kind
  <2>1. \A r \in Pattern : ResolutionRank(r)[1] = IF r.kind = "Exact" THEN 0 ELSE 1
    BY DEF ResolutionRank
  <2> QED BY <2>1 DEF Pattern
<1>3. CASE p.kind = "Exact"
  <2>1. p.name = name /\ q.name = name
    BY <1>1, <1>2, <1>3 DEF Owns
  <2> QED BY <1>2, <2>1 DEF Pattern
<1>4. CASE p.kind = "Wildcard"
  <2> DEFINE m == LabelCount(p.name)  n == LabelCount(q.name)
  <2>1. m \in Nat /\ n \in Nat /\ UsizeMax \in Nat
    BY <1>1, DotsAreFinite, NamesAssumption
  <2>2. UsizeMax - m = UsizeMax - n
    BY <1>2, <1>4 DEF ResolutionRank
  <2> HIDE DEF m, n
  <2>3. m = n
    BY <2>1, <2>2
  <2> QED BY <1>1, <1>2, <1>4, <2>3, OneOwnerPerLabelCount DEF m, n
<1> QED BY <1>2, <1>3, <1>4 DEF Pattern

\* Wildcards that own one name are nested: the one with more labels is below the other.
THEOREM OwnersAreNested ==
  ASSUME NEW p \in Pattern, NEW q \in Pattern, NEW name \in Text,
         p.kind = "Wildcard", q.kind = "Wildcard", Matches(p, name), Matches(q, name)
  PROVE  WildcardSpecificity(q) > WildcardSpecificity(p) <=> Matches(p, q.name)
<1>1. p.name \in Text /\ q.name \in Text
  BY DEF Pattern
<1>2. PICK c \in Dots(name) : TailAfter(name, c) = p.name
  BY MatchesIsOwns DEF Owns
<1>3. PICK d \in Dots(name) : TailAfter(name, d) = q.name
  BY MatchesIsOwns DEF Owns
<1>4. c \in Nat /\ d \in Nat /\ Len(name) \in Nat /\ c =< Len(name) /\ d =< Len(name)
  BY TextLength DEF Dots
<1> DEFINE m == LabelCount(p.name)  n == LabelCount(q.name)
<1>5. m \in Nat /\ n \in Nat /\ WildcardSpecificity(p) = m /\ WildcardSpecificity(q) = n
  BY <1>1, DotsAreFinite DEF WildcardSpecificity
<1>6. /\ c < d => n < m
      /\ d < c => m < n
      /\ c = d => m = n
  BY <1>2, <1>3, LaterTailIsShorter
<1> HIDE DEF m, n
<1>7. n > m <=> d < c
  BY <1>4, <1>5, <1>6
<1>8. /\ Len(p.name) = Len(name) - c /\ Len(q.name) = Len(name) - d
      /\ \A i \in 1 .. (Len(name) - c) : p.name[i] = name[c + i]
      /\ \A i \in 1 .. (Len(name) - d) : q.name[i] = name[d + i]
      /\ name[c] = Dot
  BY <1>2, <1>3, TailProperties DEF Dots
<1>9. ASSUME d < c
      PROVE  Owns(p, q.name)
  <2> DEFINE e == c - d
  <2>1. e \in 1 .. (Len(name) - d) /\ d + e = c /\ Len(name) - d - e = Len(name) - c
    BY <1>4, <1>9
  <2>2. e \in Dots(q.name)
    BY <1>8, <2>1 DEF Dots
  <2>3. /\ TailAfter(q.name, e) \in Text /\ Len(TailAfter(q.name, e)) = Len(name) - c
        /\ \A i \in 1 .. (Len(name) - c) : TailAfter(q.name, e)[i] = q.name[e + i]
    <3>1. Len(q.name) - e = Len(name) - c
      BY <1>8, <2>1
    <3> HIDE DEF e
    <3> QED BY <1>1, <2>2, <3>1, TailProperties
  <2>4. ASSUME NEW i \in 1 .. (Len(name) - c)
        PROVE  e + i \in 1 .. (Len(name) - d) /\ d + (e + i) = c + i
    BY <1>4, <1>9
  <2> HIDE DEF e
  <2>5. \A i \in 1 .. (Len(name) - c) : TailAfter(q.name, e)[i] = p.name[i]
    BY <1>8, <2>3, <2>4
  <2>6. TailAfter(q.name, e) = p.name
    BY <1>1, <1>8, <2>3, <2>5, SeqEqual DEF Text
  <2> QED BY <2>2, <2>6 DEF Owns
<1>10. ASSUME Owns(p, q.name)
       PROVE  d < c
  <2>1. PICK e \in Dots(q.name) : TailAfter(q.name, e) = p.name
    BY <1>10 DEF Owns
  <2>2. e \in 1 .. Len(q.name) /\ Len(p.name) = Len(q.name) - e
    BY <1>1, <2>1, TailProperties
  <2> QED BY <1>4, <1>8, <2>2
<1> QED BY <1>1, <1>5, <1>7, <1>9, <1>10, MatchesIsOwns

\* The subtraction in NamePattern::resolution_rank stays in range: an accepted name
\* has no more labels than bytes, as its last byte is no dot.
THEOREM RankIsInRange ==
  ASSUME NEW input \in Text, PatternParse(input).ok
  PROVE  ResolutionRank(PatternParse(input).value)[2] \in 0 .. UsizeMax
<1> DEFINE p == PatternParse(input).value  n == p.name
<1>1. RemapNameParse(Stem(input)).ok /\ RemapNameParse(Stem(input)).value = n
  BY AcceptedPattern
<1>2. n \in Text /\ n # <<>> /\ Len(n) =< MaxName /\ FaultySpans(n) = {}
  BY <1>1, StemIsText, AcceptedName
<1> HIDE DEF n
<1>3. Len(n) \in Nat \ {0} /\ MaxName \in Nat /\ UsizeMax \in Nat /\ MaxName =< UsizeMax
  BY <1>2, TextLength, NamesAssumption
<1>4. Dots(n) \subseteq 1 .. (Len(n) - 1)
  <2>1. n[Len(n)] # Dot
    BY <1>2, FaultlessHasNoRootDot DEF EndsWith
  <2> QED BY <1>3, <2>1 DEF Dots
<1>5. /\ IsFiniteSet(1 .. (Len(n) - 1)) /\ Cardinality(1 .. (Len(n) - 1)) = Len(n) - 1
      /\ Cardinality(Dots(n)) =< Cardinality(1 .. (Len(n) - 1)) /\ Cardinality(Dots(n)) \in Nat
  <2>1. /\ IsFiniteSet(1 .. (Len(n) - 1))
        /\ Cardinality(1 .. (Len(n) - 1)) = IF 1 > Len(n) - 1 THEN 0 ELSE Len(n) - 1 - 1 + 1
    BY <1>3, FS_Interval
  <2>2. \A k \in Nat \ {0} : (IF 1 > k - 1 THEN 0 ELSE k - 1 - 1 + 1) = k - 1
    OBVIOUS
  <2> QED BY <1>3, <1>4, <2>1, <2>2, FS_Subset, FS_CardinalityType
<1> DEFINE labels == LabelCount(n)
<1>6. labels \in Nat /\ labels =< UsizeMax
  <2> DEFINE dots == Cardinality(Dots(n))  bytes == Len(n)
  <2>1. labels = dots + 1 /\ dots =< bytes - 1 /\ dots \in Nat /\ bytes \in Nat
    BY <1>3, <1>5 DEF LabelCount
  <2>2. bytes =< UsizeMax
    BY <1>2, <1>3
  <2> HIDE DEF dots, bytes, labels
  <2> QED BY <1>3, <2>1, <2>2
<1>7. ResolutionRank(p)[2] = IF p.kind = "Exact" THEN 0 ELSE UsizeMax - labels
  BY DEF ResolutionRank, n
<1> HIDE DEF labels, p
<1>8. ResolutionRank(p)[2] \in 0 .. UsizeMax
  BY <1>3, <1>6, <1>7
<1> QED BY <1>8 DEF p
=============================================================================
