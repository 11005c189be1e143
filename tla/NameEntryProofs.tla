-------------------------- MODULE NameEntryProofs --------------------------
(***************************************************************************)
(* Proofs about module NameEntry, for patterns and names of every length,  *)
(* over all alphabets and with any limits.  The invariant is the type of   *)
(* the two texts; what the parser makes of them is in module NameProofs.   *)
(* The labels of a text and the text of labels are shown to undo each      *)
(* other, by adding one byte or one label in front, and with them that the *)
(* scan accepts the grammar of names and that matching is by labels.  That *)
(* the first faulty label is blamed is shown by splitting a text at a dot. *)
(***************************************************************************)
EXTENDS NameEntry, NameProofs

\* What was typed are texts over the alphabet in use, as long as it allows.
EntryInv ==
  /\ alphabet \in Alphabets
  /\ pattern \in Seq(alphabet.patternBytes) /\ Len(pattern) =< alphabet.maxPattern
  /\ typed \in Seq(alphabet.nameBytes) /\ Len(typed) =< alphabet.maxName

\* The parts of an alphabet.
LEMMA AlphabetType ==
  ASSUME NEW a \in Alphabets
  PROVE  /\ a.patternBytes \subseteq Byte /\ a.nameBytes \subseteq Byte
         /\ a.maxPattern \in Nat /\ a.maxName \in Nat
BY NameEntryAssumption DEF Byte

\* One more byte keeps a text a text, within the bound.
LEMMA TypedOneMore ==
  ASSUME NEW B, NEW t \in Seq(B), NEW c \in B, NEW n \in Nat, Len(t) < n
  PROVE  Append(t, c) \in Seq(B) /\ Len(Append(t, c)) =< n
<1>1. Len(t) \in Nat /\ Append(t, c) \in Seq(B) /\ Len(Append(t, c)) = Len(t) + 1
  BY AppendProperties
<1>2. \A k \in Nat : k < n => k + 1 =< n
  OBVIOUS
<1> QED BY <1>1, <1>2

\* Both inputs keep to the alphabet that is in use,
LEMMA EntryInvHolds == Spec => []EntryInv
<1>1. Init => EntryInv
  BY AlphabetType, EmptySeq DEF Init, EntryInv
<1>2. EntryInv /\ [Next]_vars => EntryInv'
  <2> SUFFICES ASSUME EntryInv, [Next]_vars
               PROVE  EntryInv'
    OBVIOUS
  <2>1. ASSUME NEW c \in alphabet.patternBytes, TypePattern(c)
        PROVE  EntryInv'
    BY <2>1, AlphabetType, TypedOneMore DEF TypePattern, EntryInv
  <2>2. ASSUME NEW c \in alphabet.nameBytes, TypeName(c)
        PROVE  EntryInv'
    BY <2>2, AlphabetType, TypedOneMore DEF TypeName, EntryInv
  <2>3. CASE UNCHANGED vars
    BY <2>3 DEF vars, EntryInv
  <2> QED BY <2>1, <2>2, <2>3 DEF Next
<1> QED BY <1>1, <1>2, PTL DEF Spec

\* so that both are texts.
LEMMA InputsAreTexts == EntryInv => pattern \in Text /\ typed \in Text
<1> SUFFICES ASSUME EntryInv
             PROVE  pattern \in Text /\ typed \in Text
  OBVIOUS
<1>1. alphabet.patternBytes \subseteq Byte /\ alphabet.nameBytes \subseteq Byte
  BY AlphabetType DEF EntryInv
<1> QED BY <1>1, SeqMonotonic DEF EntryInv, Text

\* A wildcard over a tail of an accepted name is a pattern.
LEMMA TailIsPattern ==
  ASSUME NEW t \in Text, NEW i \in DOMAIN t
  PROVE  Wildcard(SubSeq(t, i, Len(t))) \in Pattern
<1>1. Len(t) \in Nat /\ i \in 1 .. Len(t)
  BY TextLength
<1>2. \A j \in i .. Len(t) : t[j] \in Byte
  <2>1. i .. Len(t) \subseteq 1 .. Len(t)
    BY <1>1
  <2> QED BY <2>1, ElementOfSeq DEF Text
<1>3. SubSeq(t, i, Len(t)) \in Seq(Byte)
  BY <1>1, <1>2, SubSeqProperties
<1> QED BY <1>3 DEF Wildcard, Pattern, Text

\* What was parsed, when it was accepted.
LEMMA ParsedType ==
  ASSUME EntryInv
  PROVE  /\ Parsed.ok => Parsed.value \in Pattern
         /\ Name.ok => Name.value \in Text
<1>1. pattern \in Text /\ typed \in Text
  BY InputsAreTexts
<1> QED BY <1>1, AcceptedPattern, AcceptedName DEF Parsed, Name

-----------------------------------------------------------------------------
\* Recursive functions on an interval.

\* A step from one value to the next, for every number up to n; a function that
\* starts with a value and takes the step each time.
IsStep(step, V, n)   == step \in [(1 .. n) \X V -> V]
Runs(f, first, step, n) == f[0] = first /\ \A k \in 1 .. n : f[k] = step[<<k, f[k - 1]>>]

\* A step that stays within a set can be taken any number of times: there is no
\* least number of times for which it cannot.
LEMMA RunExists ==
  ASSUME NEW V, NEW first \in V, NEW n \in Nat, NEW step, IsStep(step, V, n)
  PROVE  \E f \in [0 .. n -> V] : Runs(f, first, step, n)
<1> DEFINE Upto(f, m) == f[0] = first /\ \A k \in 1 .. m : f[k] = step[<<k, f[k - 1]>>]
           bad == {m \in 0 .. n : ~ \E f \in [0 .. m -> V] : Upto(f, m)}
<1>1. bad = {}
  <2> SUFFICES ASSUME bad # {} PROVE FALSE
    OBVIOUS
  <2>1. bad \in SUBSET Nat
    OBVIOUS
  <2>2. PICK m \in bad : \A j \in bad : m =< j
    BY <2>1, LeastNumber
  <2>3. m \in 0 .. n /\ m \in Nat
    BY <2>2
  <2>4. CASE m = 0
    <3> DEFINE start == [k \in 0 .. 0 |-> first]
    <3>1. start \in [0 .. m -> V] /\ Upto(start, m)
      BY <2>4
    <3> QED BY <2>2, <3>1
  <2>5. CASE m # 0
    <3>1. m - 1 \in 0 .. n /\ m - 1 \notin bad /\ m \in 1 .. n
      <4>1. m - 1 \in 0 .. n /\ m \in 1 .. n /\ ~ m =< m - 1
        BY <2>3, <2>5
      <4> HIDE DEF bad
      <4> QED BY <2>2, <4>1
    <3>2. PICK f \in [0 .. (m - 1) -> V] : Upto(f, m - 1)
      BY <3>1
    <3> DEFINE g == [k \in 0 .. m |-> IF k = m THEN step[<<m, f[m - 1]>>] ELSE f[k]]
    <3>3. f[m - 1] \in V /\ step[<<m, f[m - 1]>>] \in V
      <4>1. f[m - 1] \in V
        BY <2>3, <2>5, <3>2
      <4>2. <<m, f[m - 1]>> \in (1 .. n) \X V
        BY <3>1, <4>1
      <4> QED BY <4>1, <4>2 DEF IsStep
    <3>4. g \in [0 .. m -> V]
      BY <2>3, <3>2, <3>3
    <3>5. g[0] = first
      BY <2>3, <2>5, <3>2
    <3>6. ASSUME NEW k \in 1 .. m
          PROVE  g[k] = step[<<k, g[k - 1]>>]
      <4>1. CASE k = m
        <5>1. g[m] = step[<<m, f[m - 1]>>] /\ g[m - 1] = f[m - 1]
          BY <2>3, <2>5
        <5> QED BY <4>1, <5>1
      <4>2. CASE k # m
        <5>1. k \in 1 .. (m - 1) /\ g[k] = f[k] /\ g[k - 1] = f[k - 1]
          BY <2>3, <3>6, <4>2
        <5> QED BY <3>2, <5>1
      <4> QED BY <4>1, <4>2
    <3> HIDE DEF g
    <3> QED BY <2>2, <3>4, <3>5, <3>6
  <2> QED BY <2>4, <2>5
<1>2. n \in 0 .. n
  OBVIOUS
<1> QED BY <1>1, <1>2 DEF Runs

StepAlike(f, g, n) == f[0] = g[0] /\ \A k \in 1 .. n : f[k - 1] = g[k - 1] => f[k] = g[k]

\* Two functions that start alike and step alike are alike.
LEMMA RunsAgree ==
  ASSUME NEW n \in Nat, NEW f, NEW g, StepAlike(f, g, n)
  PROVE  \A k \in 0 .. n : f[k] = g[k]
<1> DEFINE bad == {k \in 0 .. n : f[k] # g[k]}
<1>1. bad = {}
  <2> SUFFICES ASSUME bad # {} PROVE FALSE
    OBVIOUS
  <2>1. bad \in SUBSET Nat
    OBVIOUS
  <2>2. PICK k \in bad : \A j \in bad : k =< j
    BY <2>1, LeastNumber
  <2>3. k \in 0 .. n /\ f[k] # g[k] /\ k # 0
    BY <2>2 DEF StepAlike
  <2>4. k \in 1 .. n /\ k - 1 \in 0 .. n /\ ~ k =< k - 1
    BY <2>3
  <2>5. k - 1 \notin bad
    <3> HIDE DEF bad
    <3> QED BY <2>2, <2>4
  <2> QED BY <2>3, <2>4, <2>5 DEF StepAlike
<1> QED BY <1>1

-----------------------------------------------------------------------------
\* The labels of a text.

Labelled == Seq(Text) \ {<<>>}

\* What Before makes of labels.
LEMMA BeforeType ==
  ASSUME NEW c \in Byte, NEW ls \in Labelled
  PROVE  /\ Before(c, ls) \in Labelled
         /\ c = Dot => Before(c, ls) = <<(<<>>)>> \o ls
         /\ c # Dot => Before(c, ls) = <<(<<c>> \o Head(ls))>> \o Tail(ls)
<1>1. ls \in Seq(Text) /\ Len(ls) \in Nat \ {0} /\ ls[1] \in Text /\ Head(ls) = ls[1]
  BY EmptySeq DEF Labelled
<1>2. CASE c = Dot
  <2>1. <<>> \in Text
    BY DEF Text
  <2>2. <<(<<>>)>> \o ls \in Seq(Text) /\ Len(<<(<<>>)>> \o ls) = 1 + Len(ls)
    BY <1>1, <2>1
  <2>3. <<(<<>>)>> \o ls # <<>>
    BY <1>1, <2>2
  <2> QED BY <1>2, <2>2, <2>3 DEF Before, Labelled
<1>3. CASE c # Dot
  <2> DEFINE h == <<c>> \o ls[1]  b == [ls EXCEPT ![1] = h]
  <2>1. h \in Text
    BY <1>1 DEF Text
  <2>2. Before(c, ls) = b
    BY <1>3 DEF Before
  <2> HIDE DEF h
  <2>3. b \in Seq(Text) /\ Len(b) = Len(ls) /\ b[1] = h /\ \A i \in 2 .. Len(ls) : b[i] = ls[i]
    BY <1>1, <2>1
  <2>4. /\ <<h>> \o Tail(ls) \in Seq(Text) /\ Len(<<h>> \o Tail(ls)) = Len(ls)
        /\ (<<h>> \o Tail(ls))[1] = h
        /\ \A i \in 2 .. Len(ls) : (<<h>> \o Tail(ls))[i] = ls[i]
    BY <1>1, <2>1
  <2>5. b = <<h>> \o Tail(ls)
    <3> HIDE DEF b
    <3>1. \A i \in 1 .. Len(ls) : i = 1 \/ i \in 2 .. Len(ls)
      BY <1>1
    <3> QED BY <2>3, <2>4, <3>1, SeqEqual
  <2>6. b # <<>>
    <3> HIDE DEF b
    <3> QED BY <1>1, <2>3
  <2> QED BY <1>1, <1>3, <2>2, <2>3, <2>5, <2>6 DEF Labelled, h
<1> QED BY <1>2, <1>3

\* The recursion in LabelsOf.
IsReading(f, t) ==
  f = [k \in 0 .. Len(t) |-> IF k = 0 THEN <<(<<>>)>> ELSE Before(t[Len(t) - k + 1], f[k - 1])]

\* It has a solution, which holds labels.
LEMMA ReadingExists ==
  ASSUME NEW t \in Text
  PROVE  \E f \in [0 .. Len(t) -> Labelled] : IsReading(f, t)
<1> DEFINE n == Len(t)  empty == <<(<<>>)>>
           step == [x \in (1 .. n) \X Labelled |-> Before(t[n - x[1] + 1], x[2])]
<1>1. n \in Nat /\ \A i \in 1 .. n : t[i] \in Byte
  BY TextLength
<1>2. empty \in Labelled
  BY DEF Labelled, Text
<1> HIDE DEF n, empty
<1>3. step \in [(1 .. n) \X Labelled -> Labelled]
  <2>1. ASSUME NEW k \in 1 .. n, NEW ls \in Labelled
        PROVE  Before(t[n - k + 1], ls) \in Labelled
    <3>1. n - k + 1 \in 1 .. n
      BY <1>1
    <3>2. t[n - k + 1] \in Byte
      BY <1>1, <3>1
    <3> QED BY <3>2, BeforeType
  <2> QED BY <2>1
<1>4. PICK f \in [0 .. n -> Labelled] : Runs(f, empty, step, n)
  <2>1. IsStep(step, Labelled, n)
    BY <1>3 DEF IsStep
  <2> HIDE DEF step
  <2> QED BY <1>1, <1>2, <2>1, RunExists
<1>5. ASSUME NEW k \in 1 .. n
      PROVE  f[k] = Before(t[n - k + 1], f[k - 1])
  <2>1. k - 1 \in 0 .. n
    BY <1>1
  <2>2. f[k - 1] \in Labelled
    BY <1>4, <2>1
  <2>3. step[<<k, f[k - 1]>>] = Before(t[n - k + 1], f[k - 1])
    BY <2>2
  <2> QED BY <1>4, <2>3 DEF Runs
<1>6. ASSUME NEW k \in 0 .. n
      PROVE  f[k] = IF k = 0 THEN empty ELSE Before(t[n - k + 1], f[k - 1])
  <2>1. k = 0 \/ k \in 1 .. n
    BY <1>1
  <2> QED BY <1>4, <1>5, <2>1 DEF Runs
<1>7. f = [k \in 0 .. n |-> f[k]]
  BY <1>4
<1>8. f = [k \in 0 .. n |-> IF k = 0 THEN empty ELSE Before(t[n - k + 1], f[k - 1])]
  BY <1>6, <1>7
<1> QED BY <1>4, <1>8 DEF IsReading, n, empty

\* What a solution says.
LEMMA ReadingSteps ==
  ASSUME NEW t \in Text, NEW f, IsReading(f, t)
  PROVE  /\ f[0] = <<(<<>>)>>
         /\ \A k \in 1 .. Len(t) : f[k] = Before(t[Len(t) - k + 1], f[k - 1])
<1>1. Len(t) \in Nat
  BY TextLength
<1>2. \A k \in 0 .. Len(t) : f[k] = IF k = 0 THEN <<(<<>>)>> ELSE Before(t[Len(t) - k + 1], f[k - 1])
  BY DEF IsReading
<1>3. 0 \in 0 .. Len(t) /\ \A k \in 1 .. Len(t) : k \in 0 .. Len(t) /\ k # 0
  BY <1>1
<1> QED BY <1>2, <1>3

\* LabelsOf reads with a solution.
LEMMA LabelsOfIs ==
  ASSUME NEW t \in Text
  PROVE  \E f : IsReading(f, t) /\ LabelsOf(t) = f[Len(t)]
<1> DEFINE first == CHOOSE f : IsReading(f, t)
<1>1. IsReading(first, t)
  BY ReadingExists
<1>2. LabelsOf(t) = first[Len(t)]
  BY DEF LabelsOf, IsReading
<1> QED BY <1>1, <1>2

\* An empty text has one label,
LEMMA LabelsOfEmpty == LabelsOf(<<>>) = <<(<<>>)>>
<1>1. <<>> \in Text /\ Len(<<>>) = 0
  BY DEF Text
<1>2. PICK f : IsReading(f, <<>>) /\ LabelsOf(<<>>) = f[Len(<<>>)]
  BY <1>1, LabelsOfIs
<1> QED BY <1>1, <1>2, ReadingSteps

\* and every byte in front of a text changes its labels as Before says.
LEMMA LabelsOfLonger ==
  ASSUME NEW t \in Text, NEW c \in Byte
  PROVE  /\ LabelsOf(t) \in Labelled
         /\ LabelsOf(<<c>> \o t) = Before(c, LabelsOf(t))
<1> DEFINE s == <<c>> \o t  n == Len(t)
<1>1. <<c>> \in Text /\ Len(<<c>>) = 1 /\ <<c>>[1] = c
  BY DEF Text
<1>2. n \in Nat /\ s \in Text /\ Len(s) = n + 1 /\ s[1] = c /\ \A i \in 1 .. n : s[1 + i] = t[i]
  BY <1>1, TextLength, JoinedTexts
<1>3. PICK f \in [0 .. n -> Labelled] : IsReading(f, t)
  BY ReadingExists
<1>4. PICK g : IsReading(g, t) /\ LabelsOf(t) = g[n]
  BY LabelsOfIs
<1>5. PICK h : IsReading(h, s) /\ LabelsOf(s) = h[n + 1]
  BY <1>2, LabelsOfIs
<1> HIDE DEF s, n
<1>6. f[0] = <<(<<>>)>> /\ \A k \in 1 .. n : f[k] = Before(t[n - k + 1], f[k - 1])
  BY <1>3, ReadingSteps DEF n
<1>7. g[0] = <<(<<>>)>> /\ \A k \in 1 .. n : g[k] = Before(t[n - k + 1], g[k - 1])
  BY <1>4, ReadingSteps DEF n
<1>8. h[0] = <<(<<>>)>> /\ \A k \in 1 .. n + 1 : h[k] = Before(s[(n + 1) - k + 1], h[k - 1])
  BY <1>2, <1>5, ReadingSteps
<1>9. ASSUME NEW k \in 1 .. n
      PROVE  h[k] = Before(t[n - k + 1], h[k - 1])
  <2>1. k \in 1 .. n + 1 /\ n - k + 1 \in 1 .. n /\ (n + 1) - k + 1 = 1 + (n - k + 1)
    BY <1>2
  <2>2. s[(n + 1) - k + 1] = t[n - k + 1]
    BY <1>2, <2>1
  <2> QED BY <1>8, <2>1, <2>2
<1>10. \A k \in 0 .. n : f[k] = g[k]
  <2>1. StepAlike(f, g, n)
    BY <1>6, <1>7 DEF StepAlike
  <2> QED BY <1>2, <2>1, RunsAgree
<1>11. \A k \in 0 .. n : g[k] = h[k]
  <2>1. StepAlike(g, h, n)
    BY <1>7, <1>8, <1>9 DEF StepAlike
  <2> QED BY <1>2, <2>1, RunsAgree
<1>12. h[n + 1] = Before(s[1], h[n])
  <2>1. n + 1 \in 1 .. n + 1 /\ (n + 1) - (n + 1) + 1 = 1 /\ (n + 1) - 1 = n
    BY <1>2
  <2> QED BY <1>8, <2>1
<1>13. n \in 0 .. n
  BY <1>2
<1>14. g[n] \in Labelled
  BY <1>3, <1>10, <1>13
<1> QED BY <1>2, <1>4, <1>5, <1>11, <1>12, <1>13, <1>14 DEF s

-----------------------------------------------------------------------------
\* Labels put together.

\* A label with a dot behind it, and a text behind that.
LEMMA DotBetween ==
  ASSUME NEW l \in Text, NEW t \in Text
  PROVE  /\ (l \o <<Dot>>) \o t \in Text
         /\ Len((l \o <<Dot>>) \o t) = Len(l) + 1 + Len(t)
         /\ \A i \in 1 .. Len(l) : ((l \o <<Dot>>) \o t)[i] = l[i]
         /\ ((l \o <<Dot>>) \o t)[Len(l) + 1] = Dot
         /\ \A i \in 1 .. Len(t) : ((l \o <<Dot>>) \o t)[Len(l) + 1 + i] = t[i]
<1> DEFINE d == l \o <<Dot>>  u == d \o t  m == Len(l)  n == Len(t)
<1>1. <<Dot>> \in Text /\ Len(<<Dot>>) = 1 /\ <<Dot>>[1] = Dot /\ 1 \in 1 .. 1
  BY DEF Text, Byte, Dot
<1>2. /\ d \in Text /\ Len(d) = m + 1 /\ m \in Nat /\ n \in Nat
      /\ d[m + 1] = Dot /\ \A i \in 1 .. m : d[i] = l[i]
  BY <1>1, JoinedTexts, TextLength
<1> HIDE DEF d
<1>3. /\ u \in Text /\ Len(u) = Len(d) + n
      /\ \A i \in 1 .. Len(d) : u[i] = d[i]
      /\ \A i \in 1 .. n : u[Len(d) + i] = t[i]
  BY <1>2, JoinedTexts
<1> HIDE DEF u, m, n
<1>4. m + 1 \in 1 .. Len(d) /\ \A i \in 1 .. m : i \in 1 .. Len(d)
  BY <1>2
<1>5. /\ Len(u) = m + 1 + n /\ u[m + 1] = Dot
      /\ \A i \in 1 .. m : u[i] = l[i]
      /\ \A i \in 1 .. n : u[m + 1 + i] = t[i]
  BY <1>2, <1>3, <1>4
<1> QED BY <1>3, <1>5 DEF u, d, m, n

\* The recursion in Join.
IsJoining(f, ls) ==
  f = [k \in 0 .. Len(ls) - 1 |->
         IF k = 0 THEN ls[Len(ls) - 1 + 1] ELSE (ls[Len(ls) - 1 - k + 1] \o <<Dot>>) \o f[k - 1]]

\* It has a solution, which holds texts.
LEMMA JoiningExists ==
  ASSUME NEW ls \in Labelled
  PROVE  \E f \in [0 .. Len(ls) - 1 -> Text] : IsJoining(f, ls)
<1> DEFINE n == Len(ls) - 1
           step == [x \in (1 .. n) \X Text |-> (ls[n - x[1] + 1] \o <<Dot>>) \o x[2]]
<1>1. n \in Nat /\ ls \in Seq(Text) /\ Len(ls) = n + 1
  BY EmptySeq DEF Labelled
<1> HIDE DEF n
<1>2. \A i \in 1 .. n + 1 : ls[i] \in Text
  BY <1>1, ElementOfSeq
<1>3. ls[n + 1] \in Text
  BY <1>1, <1>2
<1>4. step \in [(1 .. n) \X Text -> Text]
  <2>1. ASSUME NEW k \in 1 .. n, NEW t \in Text
        PROVE  (ls[n - k + 1] \o <<Dot>>) \o t \in Text
    <3>1. n - k + 1 \in 1 .. n + 1
      BY <1>1
    <3>2. ls[n - k + 1] \in Text
      BY <1>2, <3>1
    <3> QED BY <3>2, DotBetween
  <2> QED BY <2>1
<1>5. PICK f \in [0 .. n -> Text] : Runs(f, ls[n + 1], step, n)
  <2>1. IsStep(step, Text, n)
    BY <1>4 DEF IsStep
  <2> HIDE DEF step
  <2> QED BY <1>1, <1>3, <2>1, RunExists
<1>6. ASSUME NEW k \in 1 .. n
      PROVE  f[k] = (ls[n - k + 1] \o <<Dot>>) \o f[k - 1]
  <2>1. k - 1 \in 0 .. n
    BY <1>1
  <2>2. f[k - 1] \in Text
    BY <1>5, <2>1
  <2>3. step[<<k, f[k - 1]>>] = (ls[n - k + 1] \o <<Dot>>) \o f[k - 1]
    BY <2>2
  <2> HIDE DEF step
  <2> QED BY <1>5, <2>3 DEF Runs
<1>7. ASSUME NEW k \in 0 .. n
      PROVE  f[k] = IF k = 0 THEN ls[n + 1] ELSE (ls[n - k + 1] \o <<Dot>>) \o f[k - 1]
  <2>1. k = 0 \/ k \in 1 .. n
    BY <1>1
  <2> QED BY <1>5, <1>6, <2>1 DEF Runs
<1>8. f = [k \in 0 .. n |-> f[k]]
  BY <1>5
<1>9. f = [k \in 0 .. n |-> IF k = 0 THEN ls[n + 1] ELSE (ls[n - k + 1] \o <<Dot>>) \o f[k - 1]]
  BY <1>7, <1>8
<1> QED BY <1>5, <1>9 DEF IsJoining, n

\* What a solution says.
LEMMA JoiningSteps ==
  ASSUME NEW ls \in Labelled, NEW f, IsJoining(f, ls), NEW n \in Nat, Len(ls) = n + 1
  PROVE  /\ f[0] = ls[n + 1]
         /\ \A k \in 1 .. n : f[k] = (ls[n - k + 1] \o <<Dot>>) \o f[k - 1]
<1>1. Len(ls) - 1 = n
  OBVIOUS
<1>2. \A k \in 0 .. n : f[k] = IF k = 0 THEN ls[n + 1] ELSE (ls[n - k + 1] \o <<Dot>>) \o f[k - 1]
  BY <1>1 DEF IsJoining
<1>3. 0 \in 0 .. n /\ \A k \in 1 .. n : k \in 0 .. n /\ k # 0
  OBVIOUS
<1> QED BY <1>2, <1>3

\* Join puts together with a solution.
LEMMA JoinIs ==
  ASSUME NEW ls \in Labelled
  PROVE  \E f : IsJoining(f, ls) /\ Join(ls) = f[Len(ls) - 1]
<1> DEFINE first == CHOOSE f : IsJoining(f, ls)
<1>1. IsJoining(first, ls)
  BY JoiningExists
<1>2. Join(ls) = first[Len(ls) - 1]
  BY DEF Join, IsJoining
<1> QED BY <1>1, <1>2

\* One label is the text itself,
LEMMA JoinOfOne ==
  ASSUME NEW l \in Text
  PROVE  <<l>> \in Labelled /\ Join(<<l>>) = l
<1>1. <<l>> \in Labelled /\ Len(<<l>>) = 0 + 1 /\ <<l>>[0 + 1] = l /\ Len(<<l>>) - 1 = 0
  BY DEF Labelled
<1>2. PICK f : IsJoining(f, <<l>>) /\ Join(<<l>>) = f[Len(<<l>>) - 1]
  BY <1>1, JoinIs
<1> QED BY <1>1, <1>2, JoiningSteps

\* and a label in front of others is put before them with a dot.
LEMMA JoinOfLonger ==
  ASSUME NEW l \in Text, NEW ls \in Labelled
  PROVE  /\ <<l>> \o ls \in Labelled /\ Join(ls) \in Text
         /\ Join(<<l>> \o ls) = (l \o <<Dot>>) \o Join(ls)
<1> DEFINE ms == <<l>> \o ls  n == Len(ls) - 1
<1>1. n \in Nat /\ ls \in Seq(Text) /\ Len(ls) = n + 1
  BY EmptySeq DEF Labelled
<1>2. /\ ms \in Seq(Text) /\ Len(ms) = (n + 1) + 1 /\ ms[1] = l
      /\ \A i \in 1 .. n + 1 : ms[1 + i] = ls[i]
  BY <1>1
<1>3. ms \in Labelled
  BY <1>1, <1>2, EmptySeq DEF Labelled
<1>4. PICK f \in [0 .. n -> Text] : IsJoining(f, ls)
  BY JoiningExists
<1>5. PICK g : IsJoining(g, ls) /\ Join(ls) = g[n]
  BY JoinIs
<1> HIDE DEF ms, n
<1>6. PICK h : IsJoining(h, ms) /\ Join(ms) = h[n + 1]
  <2>1. Len(ms) - 1 = n + 1
    BY <1>1, <1>2
  <2> QED BY <1>3, <2>1, JoinIs
<1>7. f[0] = ls[n + 1] /\ \A k \in 1 .. n : f[k] = (ls[n - k + 1] \o <<Dot>>) \o f[k - 1]
  BY <1>1, <1>4, JoiningSteps
<1>8. g[0] = ls[n + 1] /\ \A k \in 1 .. n : g[k] = (ls[n - k + 1] \o <<Dot>>) \o g[k - 1]
  BY <1>1, <1>5, JoiningSteps
<1>9. /\ h[0] = ms[(n + 1) + 1]
      /\ \A k \in 1 .. n + 1 : h[k] = (ms[(n + 1) - k + 1] \o <<Dot>>) \o h[k - 1]
  <2>1. n + 1 \in Nat
    BY <1>1
  <2> QED BY <1>2, <1>3, <1>6, <2>1, JoiningSteps
<1>10. h[0] = ls[n + 1]
  <2>1. n + 1 \in 1 .. n + 1 /\ (n + 1) + 1 = 1 + (n + 1)
    BY <1>1
  <2> QED BY <1>2, <1>9, <2>1
<1>11. ASSUME NEW k \in 1 .. n
       PROVE  h[k] = (ls[n - k + 1] \o <<Dot>>) \o h[k - 1]
  <2>1. k \in 1 .. n + 1 /\ n - k + 1 \in 1 .. n + 1 /\ (n + 1) - k + 1 = 1 + (n - k + 1)
    BY <1>1
  <2>2. ms[(n + 1) - k + 1] = ls[n - k + 1]
    BY <1>2, <2>1
  <2> QED BY <1>9, <2>1, <2>2
<1>12. \A k \in 0 .. n : f[k] = g[k]
  <2>1. StepAlike(f, g, n)
    BY <1>7, <1>8 DEF StepAlike
  <2> QED BY <1>1, <2>1, RunsAgree
<1>13. \A k \in 0 .. n : g[k] = h[k]
  <2>1. StepAlike(g, h, n)
    BY <1>8, <1>10, <1>11 DEF StepAlike
  <2> QED BY <1>1, <2>1, RunsAgree
<1>14. h[n + 1] = (l \o <<Dot>>) \o h[n]
  <2>1. n + 1 \in 1 .. n + 1 /\ (n + 1) - (n + 1) + 1 = 1 /\ (n + 1) - 1 = n
    BY <1>1
  <2> QED BY <1>2, <1>9, <2>1
<1>15. n \in 0 .. n
  BY <1>1
<1>16. g[n] \in Text
  BY <1>4, <1>12, <1>15
<1> QED BY <1>3, <1>5, <1>6, <1>13, <1>14, <1>15, <1>16 DEF ms

\* The text of any labels.
LEMMA JoinIsText ==
  ASSUME NEW ls \in Labelled
  PROVE  Join(ls) \in Text
BY JoinOfLonger, EmptySeq DEF Text

\* One more byte in front of the labels is one more in front of the text.
LEMMA JoinOfBefore ==
  ASSUME NEW c \in Byte, NEW ls \in Labelled
  PROVE  Join(Before(c, ls)) = <<c>> \o Join(ls)
<1>1. /\ <<c>> \in Text /\ <<>> \in Text /\ <<Dot>> \in Text
      /\ ls \in Seq(Text) /\ Head(ls) \in Text /\ Tail(ls) \in Seq(Text) /\ ls = <<Head(ls)>> \o Tail(ls)
  <2>1. <<c>> \in Text /\ <<>> \in Text /\ <<Dot>> \in Text
    BY DEF Text, Byte, Dot
  <2>2. ls \in Seq(Text) /\ ls # <<>>
    BY DEF Labelled
  <2>3. Head(ls) \in Text /\ Tail(ls) \in Seq(Text) /\ ls = <<Head(ls)>> \o Tail(ls)
    BY <2>2, HeadTailProperties
  <2> QED BY <2>1, <2>2, <2>3
<1> DEFINE h == Head(ls)  r == Tail(ls)
<1>2. <<c>> \o h \in Text
  BY <1>1, JoinedTexts
<1>3. CASE c = Dot
  <2>1. Join(Before(c, ls)) = (<<>> \o <<Dot>>) \o Join(ls)
    BY <1>1, <1>3, BeforeType, JoinOfLonger
  <2>2. <<>> \o <<Dot>> = <<Dot>>
    BY <1>1, ConcatEmptySeq DEF Text
  <2> QED BY <1>3, <2>1, <2>2
<1>4. CASE c # Dot
  <2>1. Before(c, ls) = <<(<<c>> \o h)>> \o r
    BY <1>4, BeforeType
  <2> HIDE DEF h, r
  <2>2. CASE r = <<>>
    <3>1. ls = <<h>> /\ Before(c, ls) = <<(<<c>> \o h)>>
      <4>1. <<h>> \o <<>> = <<h>> /\ <<(<<c>> \o h)>> \o <<>> = <<(<<c>> \o h)>>
        OBVIOUS
      <4>2. ls = <<h>> \o r
        BY <1>1 DEF h, r
      <4> QED BY <2>1, <2>2, <4>1, <4>2
    <3> QED BY <1>1, <1>2, <3>1, JoinOfOne DEF h
  <2>3. CASE r # <<>>
    <3>1. r \in Labelled
      BY <1>1, <2>3 DEF Labelled, r
    <3>2. Join(Before(c, ls)) = ((<<c>> \o h) \o <<Dot>>) \o Join(r)
      BY <1>2, <2>1, <3>1, JoinOfLonger
    <3>3. Join(ls) = (h \o <<Dot>>) \o Join(r) /\ Join(r) \in Text
      BY <1>1, <3>1, JoinOfLonger DEF h, r
    <3>4. h \in Text /\ h \o <<Dot>> \in Text
      BY <1>1, JoinedTexts DEF h
    <3>5. (<<c>> \o h) \o <<Dot>> = <<c>> \o (h \o <<Dot>>)
      BY <1>1, <3>4, ConcatAssociative DEF Text
    <3>6. (<<c>> \o (h \o <<Dot>>)) \o Join(r) = <<c>> \o ((h \o <<Dot>>) \o Join(r))
      BY <1>1, <3>3, <3>4, ConcatAssociative DEF Text
    <3> QED BY <3>2, <3>3, <3>5, <3>6
  <2> QED BY <2>2, <2>3
<1> QED BY <1>3, <1>4

-----------------------------------------------------------------------------
\* A text and its labels.

\* A set of sequences that has the empty one, and with each one the longer ones.
GrowsInFront(S, V) == <<>> \in S /\ \A x \in V : \A s \in S : <<x>> \o s \in S

\* It has all sequences: there is no shortest one that it lacks.
LEMMA FrontInduction ==
  ASSUME NEW V, NEW S \in SUBSET Seq(V), GrowsInFront(S, V)
  PROVE  S = Seq(V)
<1> DEFINE bad == {n \in Nat : \E s \in Seq(V) : Len(s) = n /\ s \notin S}
<1>1. bad = {}
  <2> SUFFICES ASSUME bad # {} PROVE FALSE
    OBVIOUS
  <2>1. bad \in SUBSET Nat
    OBVIOUS
  <2>2. PICK n \in bad : \A m \in bad : n =< m
    BY <2>1, LeastNumber
  <2>3. PICK s \in Seq(V) : Len(s) = n /\ s \notin S
    BY <2>2
  <2>4. s # <<>>
    BY <2>3 DEF GrowsInFront
  <2>5. /\ Head(s) \in V /\ Tail(s) \in Seq(V) /\ Len(Tail(s)) = n - 1 /\ s = <<Head(s)>> \o Tail(s)
        /\ n - 1 \in Nat /\ ~ n =< n - 1
    BY <2>3, <2>4, HeadTailProperties, EmptySeq
  <2>6. n - 1 \notin bad
    <3> HIDE DEF bad
    <3> QED BY <2>2, <2>5
  <2>7. Tail(s) \in S
    BY <2>5, <2>6
  <2> QED BY <2>3, <2>5, <2>7 DEF GrowsInFront
<1>2. ASSUME NEW s \in Seq(V)
      PROVE  s \in S
  <2>1. Len(s) \in Nat
    OBVIOUS
  <2> QED BY <1>1, <2>1
<1> QED BY <1>2

\* Taken apart and put together a text is what it was: so two texts with the
\* same labels are the same.
LEMMA JoinOfLabels ==
  ASSUME NEW t \in Text
  PROVE  LabelsOf(t) \in Labelled /\ Join(LabelsOf(t)) = t
<1> DEFINE S == {u \in Text : LabelsOf(u) \in Labelled /\ Join(LabelsOf(u)) = u}
<1>1. <<>> \in S
  <2>1. <<>> \in Text
    BY DEF Text
  <2> QED BY <2>1, LabelsOfEmpty, JoinOfOne
<1>2. ASSUME NEW c \in Byte, NEW u \in S
      PROVE  <<c>> \o u \in S
  <2>1. <<c>> \o u \in Text
    BY DEF Text
  <2>2. LabelsOf(u) \in Labelled /\ LabelsOf(<<c>> \o u) = Before(c, LabelsOf(u))
    BY LabelsOfLonger
  <2>3. Before(c, LabelsOf(u)) \in Labelled /\ Join(Before(c, LabelsOf(u))) = <<c>> \o Join(LabelsOf(u))
    BY <2>2, BeforeType, JoinOfBefore
  <2> QED BY <2>1, <2>2, <2>3
<1>3. S \in SUBSET Text
  OBVIOUS
<1> HIDE DEF S
<1>4. S = Seq(Byte)
  <2>1. GrowsInFront(S, Byte)
    BY <1>1, <1>2 DEF GrowsInFront
  <2> QED BY <1>3, <2>1, FrontInduction DEF Text
<1>5. t \in S
  BY <1>4 DEF Text
<1> QED BY <1>5 DEF S

\* A text of one label.
Dotless == {l \in Text : \A i \in DOMAIN l : l[i] # Dot}

\* No label has a dot.
LEMMA LabelsAreDotless ==
  ASSUME NEW t \in Text
  PROVE  LabelsOf(t) \in Seq(Dotless) \ {<<>>}
<1> DEFINE S == {u \in Text : LabelsOf(u) \in Seq(Dotless) \ {<<>>}}
<1>0. <<>> \in Dotless /\ Dotless \subseteq Text
  BY DEF Dotless, Text
<1>1. <<>> \in S
  <2>1. <<>> \in Text
    BY DEF Text
  <2>2. <<(<<>>)>> \in Seq(Dotless) /\ <<(<<>>)>> # <<>>
    BY <1>0
  <2> QED BY <2>1, <2>2, LabelsOfEmpty
<1>2. ASSUME NEW c \in Byte, NEW u \in S
      PROVE  <<c>> \o u \in S
  <2> DEFINE ls == LabelsOf(u)
  <2>1. <<c>> \o u \in Text
    BY DEF Text
  <2>2. ls \in Labelled /\ LabelsOf(<<c>> \o u) = Before(c, ls) /\ ls \in Seq(Dotless) /\ ls # <<>>
    BY LabelsOfLonger
  <2> HIDE DEF ls
  <2>3. Head(ls) \in Dotless /\ Tail(ls) \in Seq(Dotless)
    BY <2>2, HeadTailProperties
  <2>4. CASE c = Dot
    <3>1. Before(c, ls) = <<(<<>>)>> \o ls /\ Before(c, ls) # <<>>
      BY <2>2, <2>4, BeforeType DEF Labelled
    <3>2. <<(<<>>)>> \in Seq(Dotless)
      BY <1>0
    <3>3. <<(<<>>)>> \o ls \in Seq(Dotless)
      BY <2>2, <3>2, ConcatProperties
    <3> QED BY <2>1, <2>2, <3>1, <3>3
  <2>5. CASE c # Dot
    <3>1. Before(c, ls) = <<(<<c>> \o Head(ls))>> \o Tail(ls) /\ Before(c, ls) # <<>>
      BY <2>2, <2>5, BeforeType DEF Labelled
    <3>2. <<c>> \o Head(ls) \in Dotless
      <4>1. PICK h \in Dotless : h = Head(ls)
        BY <2>3
      <4>2. <<c>> \in Text /\ Len(<<c>>) = 1 /\ <<c>>[1] = c /\ h \in Text
        BY DEF Text, Dotless
      <4>3. /\ <<c>> \o h \in Text /\ Len(<<c>> \o h) = 1 + Len(h) /\ (<<c>> \o h)[1] = c
            /\ \A i \in 1 .. Len(h) : (<<c>> \o h)[1 + i] = h[i]
        BY <4>2, JoinedTexts
      <4>4. ASSUME NEW i \in 1 .. 1 + Len(h)
            PROVE  (<<c>> \o h)[i] # Dot
        <5>1. i = 1 \/ (i - 1 \in 1 .. Len(h) /\ 1 + (i - 1) = i)
          BY <4>2, TextLength
        <5>2. \A j \in 1 .. Len(h) : h[j] # Dot
          BY TextLength DEF Dotless
        <5> QED BY <2>5, <4>3, <5>1, <5>2
      <4> QED BY <4>1, <4>3, <4>4, TextLength DEF Dotless
    <3>3. <<(<<c>> \o Head(ls))>> \in Seq(Dotless)
      BY <3>2
    <3>4. <<(<<c>> \o Head(ls))>> \o Tail(ls) \in Seq(Dotless)
      BY <2>3, <3>3, ConcatProperties
    <3> QED BY <2>1, <2>2, <3>1, <3>4
  <2> QED BY <2>4, <2>5
<1>3. S \in SUBSET Text
  OBVIOUS
<1> HIDE DEF S
<1>4. S = Seq(Byte)
  <2>1. GrowsInFront(S, Byte)
    BY <1>1, <1>2 DEF GrowsInFront
  <2> QED BY <1>3, <2>1, FrontInduction DEF Text
<1>5. t \in S
  BY <1>4 DEF Text
<1> QED BY <1>5 DEF S

-----------------------------------------------------------------------------
\* Ends of a text and ends of its labels.

\* What is left of a sequence behind its first element is cut in the same places.
LEMMA CutBehindFirst ==
  ASSUME NEW V, NEW x \in V, NEW r \in Seq(V), NEW i \in 1 .. Len(r) + 1
  PROVE  SubSeq(<<x>> \o r, 1 + i, 1 + Len(r)) = SubSeq(r, i, Len(r))
<1> DEFINE s == <<x>> \o r  n == Len(r)
<1>1. n \in Nat /\ s \in Seq(V) /\ Len(s) = 1 + n /\ \A j \in 1 .. n : s[1 + j] = r[j]
  OBVIOUS
<1>2. \A j \in 1 .. n : r[j] \in V
  BY <1>1, ElementOfSeq
<1> HIDE DEF s, n
<1>3. \A j \in 1 + i .. 1 + n : s[j] \in V
  <2>1. \A j \in 1 + i .. 1 + n : j \in 1 .. 1 + n
    BY <1>1
  <2> QED BY <1>1, <2>1, ElementOfSeq
<1>4. \A j \in i .. n : r[j] \in V
  <2>1. \A j \in i .. n : j \in 1 .. n
    BY <1>1
  <2> QED BY <1>2, <2>1
<1>5. /\ SubSeq(s, 1 + i, 1 + n) \in Seq(V)
      /\ Len(SubSeq(s, 1 + i, 1 + n)) = IF 1 + i =< 1 + n THEN (1 + n) - (1 + i) + 1 ELSE 0
      /\ \A j \in 1 .. (1 + n) - (1 + i) + 1 : SubSeq(s, 1 + i, 1 + n)[j] = s[(1 + i) + j - 1]
  BY <1>1, <1>3, SubSeqProperties
<1>6. /\ SubSeq(r, i, n) \in Seq(V)
      /\ Len(SubSeq(r, i, n)) = IF i =< n THEN n - i + 1 ELSE 0
      /\ \A j \in 1 .. n - i + 1 : SubSeq(r, i, n)[j] = r[i + j - 1]
  BY <1>1, <1>4, SubSeqProperties
<1>7. i \in Nat \ {0} /\ i =< n + 1
  BY <1>1 DEF n
<1>8. /\ (IF 1 + i =< 1 + n THEN (1 + n) - (1 + i) + 1 ELSE 0) = n - i + 1
      /\ (IF i =< n THEN n - i + 1 ELSE 0) = n - i + 1
      /\ (1 + n) - (1 + i) + 1 = n - i + 1
      /\ \A j \in 1 .. n - i + 1 : (1 + i) + j - 1 = 1 + (i + j - 1) /\ i + j - 1 \in 1 .. n
  BY <1>1, <1>7
<1>9. \A j \in 1 .. n - i + 1 : SubSeq(s, 1 + i, 1 + n)[j] = SubSeq(r, i, n)[j]
  BY <1>1, <1>5, <1>6, <1>8
<1>10. SubSeq(s, 1 + i, 1 + n) = SubSeq(r, i, n)
  BY <1>5, <1>6, <1>8, <1>9, SeqEqual
<1> QED BY <1>10 DEF s, n

\* The proper ends of labels, and what follows the dots of a text.
Ends(ls)      == {SubSeq(ls, i, Len(ls)) : i \in 2 .. Len(ls)}
AfterDots(t)  == {TailAfter(t, cut) : cut \in Dots(t)}

\* The ends of a longer sequence are those of the shorter one, and that one.
LEMMA EndsOfLonger ==
  ASSUME NEW x \in Text, NEW r \in Seq(Text)
  PROVE  Ends(<<x>> \o r) = IF r = <<>> THEN {} ELSE {r} \cup Ends(r)
<1> DEFINE s == <<x>> \o r  n == Len(r)
<1>1. n \in Nat /\ Len(s) = 1 + n /\ (r = <<>> <=> n = 0)
  BY EmptySeq
<1>2. \A i \in 1 .. n : SubSeq(s, 1 + i, 1 + n) = SubSeq(r, i, n)
  <2>1. \A i \in 1 .. n : i \in 1 .. n + 1
    BY <1>1
  <2> QED BY <2>1, CutBehindFirst
<1>3. SubSeq(r, 1, n) = r
  BY SubSeqFull
<1> HIDE DEF s, n
<1>4. Ends(s) = {SubSeq(r, i, n) : i \in 1 .. n}
  <2>1. ASSUME NEW j \in 2 .. 1 + n
        PROVE  \E i \in 1 .. n : SubSeq(s, j, 1 + n) = SubSeq(r, i, n)
    <3>1. j - 1 \in 1 .. n /\ 1 + (j - 1) = j
      BY <1>1
    <3> QED BY <1>2, <3>1
  <2>2. ASSUME NEW i \in 1 .. n
        PROVE  \E j \in 2 .. 1 + n : SubSeq(r, i, n) = SubSeq(s, j, 1 + n)
    <3>1. 1 + i \in 2 .. 1 + n
      BY <1>1
    <3> QED BY <1>2, <3>1
  <2>3. Ends(s) = {SubSeq(s, j, 1 + n) : j \in 2 .. 1 + n}
    BY <1>1 DEF Ends
  <2> QED BY <2>1, <2>2, <2>3
<1>5. CASE n = 0
  BY <1>1, <1>4, <1>5 DEF s
<1>6. CASE n # 0
  <2>1. Ends(r) = {SubSeq(r, i, n) : i \in 2 .. n}
    BY DEF Ends, n
  <2>2. \A i : i \in 1 .. n <=> i = 1 \/ i \in 2 .. n
    BY <1>1, <1>6
  <2>3. {SubSeq(r, i, n) : i \in 1 .. n} = {SubSeq(r, 1, n)} \cup {SubSeq(r, i, n) : i \in 2 .. n}
    BY <2>2
  <2> QED BY <1>1, <1>3, <1>4, <1>6, <2>1, <2>3 DEF s
<1> QED BY <1>1, <1>5, <1>6

\* What follows the dots of a longer text.
LEMMA AfterDotsOfLonger ==
  ASSUME NEW c \in Byte, NEW t \in Text
  PROVE  AfterDots(<<c>> \o t) = IF c = Dot THEN {t} \cup AfterDots(t) ELSE AfterDots(t)
<1> DEFINE s == <<c>> \o t  n == Len(t)
<1>1. <<c>> \in Text /\ Len(<<c>>) = 1 /\ <<c>>[1] = c
  BY DEF Text
<1>2. n \in Nat /\ s \in Text /\ Len(s) = 1 + n /\ s[1] = c /\ \A i \in 1 .. n : s[1 + i] = t[i]
  BY <1>1, TextLength, JoinedTexts
<1>3. \A i \in 1 .. n + 1 : SubSeq(s, 1 + i, 1 + n) = SubSeq(t, i, n)
  BY CutBehindFirst DEF Text
<1>4. SubSeq(t, 1, n) = t
  BY SubSeqFull DEF Text
<1> HIDE DEF s
<1>5. TailAfter(s, 1) = t
  <2>1. 1 \in 1 .. n + 1
    BY <1>2
  <2> QED BY <1>2, <1>3, <1>4, <2>1 DEF TailAfter
<1>6. ASSUME NEW d \in 1 .. n
      PROVE  TailAfter(s, 1 + d) = TailAfter(t, d)
  <2>1. d + 1 \in 1 .. n + 1 /\ (1 + d) + 1 = 1 + (d + 1)
    BY <1>2
  <2> QED BY <1>2, <1>3, <2>1 DEF TailAfter
<1>7. Dots(t) \subseteq 1 .. n
  BY DEF Dots
<1>8. ASSUME NEW d
      PROVE  d \in Dots(s) <=> (d = 1 /\ c = Dot) \/ \E e \in Dots(t) : d = 1 + e
  <2> HIDE DEF n
  <2>1. ASSUME d \in Dots(s), d # 1
        PROVE  \E e \in Dots(t) : d = 1 + e
    <3>1. d \in 1 .. 1 + n /\ s[d] = Dot
      BY <1>2, <2>1 DEF Dots
    <3>2. d - 1 \in 1 .. n /\ d = 1 + (d - 1)
      BY <1>2, <2>1, <3>1
    <3>3. t[d - 1] = Dot
      BY <1>2, <3>1, <3>2
    <3> QED BY <3>2, <3>3 DEF Dots, n
  <2>2. ASSUME NEW e \in Dots(t), d = 1 + e
        PROVE  d \in Dots(s)
    <3>1. e \in 1 .. n /\ t[e] = Dot
      BY DEF Dots, n
    <3>2. d \in 1 .. 1 + n
      BY <1>2, <2>2, <3>1
    <3> QED BY <1>2, <2>2, <3>1, <3>2 DEF Dots
  <2>3. 1 \in Dots(s) <=> c = Dot
    <3>1. 1 \in 1 .. 1 + n
      BY <1>2
    <3> QED BY <1>2, <3>1 DEF Dots
  <2> QED BY <2>1, <2>2, <2>3
<1> HIDE DEF n
<1>9. ASSUME NEW u
      PROVE  u \in AfterDots(s) <=> (c = Dot /\ u = t) \/ u \in AfterDots(t)
  <2>1. ASSUME NEW d \in Dots(s), u = TailAfter(s, d)
        PROVE  (c = Dot /\ u = t) \/ u \in AfterDots(t)
    BY <1>5, <1>6, <1>7, <1>8, <2>1 DEF AfterDots
  <2>2. ASSUME NEW e \in Dots(t), u = TailAfter(t, e)
        PROVE  u \in AfterDots(s)
    BY <1>6, <1>7, <1>8, <2>2 DEF AfterDots
  <2>3. ASSUME c = Dot, u = t
        PROVE  u \in AfterDots(s)
    BY <1>5, <1>8, <2>3 DEF AfterDots
  <2> QED BY <2>1, <2>2, <2>3 DEF AfterDots
<1>10. AfterDots(s) = IF c = Dot THEN {t} \cup AfterDots(t) ELSE AfterDots(t)
  BY <1>9
<1> QED BY <1>10 DEF s

\* The ends of a text's labels are the labels of what follows its dots.
LEMMA EndsOfLabels ==
  ASSUME NEW t \in Text
  PROVE  Ends(LabelsOf(t)) = {LabelsOf(u) : u \in AfterDots(t)}
<1> DEFINE S == {u \in Text : Ends(LabelsOf(u)) = {LabelsOf(v) : v \in AfterDots(u)}}
<1>1. <<>> \in S
  <2>1. <<>> \in Text /\ Dots(<<>>) = {}
    BY DEF Text, Dots
  <2>2. AfterDots(<<>>) = {}
    BY <2>1 DEF AfterDots
  <2>3. Len(<<(<<>>)>>) = 1 /\ 2 .. 1 = {}
    OBVIOUS
  <2>4. Ends(<<(<<>>)>>) = {}
    BY <2>3 DEF Ends
  <2> QED BY <2>1, <2>2, <2>4, LabelsOfEmpty
<1>2. ASSUME NEW c \in Byte, NEW u \in S
      PROVE  <<c>> \o u \in S
  <2> DEFINE ls == LabelsOf(u)  cu == <<c>> \o u
  <2>1. cu \in Text
    BY DEF Text
  <2>2. ls \in Labelled /\ LabelsOf(cu) = Before(c, ls) /\ Ends(ls) = {LabelsOf(v) : v \in AfterDots(u)}
    BY LabelsOfLonger
  <2>3. AfterDots(cu) = IF c = Dot THEN {u} \cup AfterDots(u) ELSE AfterDots(u)
    BY AfterDotsOfLonger
  <2> HIDE DEF cu
  <2>4. ls \in Seq(Text) /\ ls # <<>>
    BY <2>2 DEF Labelled
  <2>5. CASE c = Dot
    <3>1. <<>> \in Text
      BY DEF Text
    <3>2. Ends(Before(c, ls)) = {ls} \cup Ends(ls)
      BY <2>2, <2>4, <2>5, <3>1, BeforeType, EndsOfLonger
    <3>3. {LabelsOf(v) : v \in AfterDots(cu)} = {ls} \cup {LabelsOf(v) : v \in AfterDots(u)}
      BY <2>3, <2>5
    <3> QED BY <2>1, <2>2, <3>2, <3>3 DEF cu
  <2>6. CASE c # Dot
    <3> HIDE DEF ls
    <3>1. Head(ls) \in Text /\ Tail(ls) \in Seq(Text) /\ ls = <<Head(ls)>> \o Tail(ls)
      BY <2>4, HeadTailProperties
    <3>2. <<c>> \o Head(ls) \in Text
      BY <3>1 DEF Text
    <3>3. Before(c, ls) = <<(<<c>> \o Head(ls))>> \o Tail(ls)
      BY <2>2, <2>6, BeforeType
    <3>4. Ends(Before(c, ls)) = Ends(ls)
      <4>1. PICK h \in Text, r \in Seq(Text) : ls = <<h>> \o r /\ h = Head(ls) /\ r = Tail(ls)
        BY <3>1
      <4>2. Ends(<<h>> \o r) = IF r = <<>> THEN {} ELSE {r} \cup Ends(r)
        BY EndsOfLonger
      <4>3. Ends(<<(<<c>> \o h)>> \o r) = IF r = <<>> THEN {} ELSE {r} \cup Ends(r)
        BY <3>2, <4>1, EndsOfLonger
      <4> QED BY <3>3, <4>1, <4>2, <4>3
    <3> QED BY <2>1, <2>2, <2>3, <2>6, <3>4 DEF cu, ls
  <2> QED BY <2>5, <2>6
<1>3. S \in SUBSET Text
  OBVIOUS
<1> HIDE DEF S
<1>4. S = Seq(Byte)
  <2>1. GrowsInFront(S, Byte)
    BY <1>1, <1>2 DEF GrowsInFront
  <2> QED BY <1>3, <2>1, FrontInduction DEF Text
<1>5. t \in S
  BY <1>4 DEF Text
<1> QED BY <1>5 DEF S

\* What is a proper suffix of labels is one of their ends.
LEMMA ProperSuffixIsEnd ==
  ASSUME NEW s \in Labelled, NEW t \in Labelled
  PROVE  IsProperSuffix(s, t) <=> s \in Ends(t)
<1> DEFINE m == Len(s)  n == Len(t)
<1>1. /\ s \in Seq(Text) /\ t \in Seq(Text) /\ m \in Nat \ {0} /\ n \in Nat \ {0}
  BY EmptySeq DEF Labelled
<1>2. \A i \in 1 .. n : t[i] \in Text
  BY <1>1, ElementOfSeq
<1>3. IsSuffix(s, t) <=> m =< n /\ \A i \in 1 .. m : s[i] = t[n - m + i]
  BY <1>1, SuffixByBytes
<1> HIDE DEF m, n
<1>4. ASSUME NEW k \in 2 .. n
      PROVE  /\ SubSeq(t, k, n) \in Seq(Text) /\ Len(SubSeq(t, k, n)) = n - k + 1
             /\ \A i \in 1 .. n - k + 1 : SubSeq(t, k, n)[i] = t[k + i - 1]
  <2>1. \A i \in k .. n : i \in 1 .. n
    BY <1>1
  <2>2. \A i \in k .. n : t[i] \in Text
    BY <1>2, <2>1
  <2>3. k \in Int /\ n \in Int /\ k =< n
    BY <1>1
  <2> QED BY <2>2, <2>3, SubSeqProperties
<1>5. ASSUME s # t, IsSuffix(s, t)
      PROVE  s \in Ends(t)
  <2>1. m # n
    <3>1. SUFFICES ASSUME m = n PROVE FALSE
      OBVIOUS
    <3>2. \A i \in 1 .. m : n - m + i = i
      BY <1>1, <3>1
    <3>3. \A i \in 1 .. m : s[i] = t[i]
      BY <1>3, <1>5, <3>2
    <3> QED BY <1>1, <1>5, <3>1, <3>3, SeqEqual DEF m, n
  <2>2. PICK k \in 2 .. n : k = n - m + 1
    BY <1>1, <1>3, <1>5, <2>1
  <2>3. n - k + 1 = m /\ \A i \in 1 .. m : k + i - 1 = n - m + i
    BY <1>1, <2>2
  <2>4. /\ SubSeq(t, k, n) \in Seq(Text) /\ Len(SubSeq(t, k, n)) = m
        /\ \A i \in 1 .. m : SubSeq(t, k, n)[i] = s[i]
    BY <1>3, <1>4, <1>5, <2>3
  <2>5. s = SubSeq(t, k, n)
    BY <1>1, <2>4, SeqEqual DEF m
  <2> QED BY <2>5 DEF Ends, n
<1>6. ASSUME NEW k \in 2 .. n, s = SubSeq(t, k, n)
      PROVE  s # t /\ IsSuffix(s, t)
  <2>1. m = n - k + 1
    BY <1>4, <1>6 DEF m
  <2>2. m =< n /\ m # n /\ \A i \in 1 .. m : k + i - 1 = n - m + i
    BY <1>1, <2>1
  <2>3. \A i \in 1 .. m : s[i] = t[n - m + i]
    BY <1>4, <1>6, <2>1, <2>2
  <2> QED BY <1>3, <2>2, <2>3 DEF m, n
<1> QED BY <1>5, <1>6 DEF IsProperSuffix, Ends, n

\* NamePattern::matches by labels: the labels of the name, or an end of them.
LEMMA MatchesIsByLabels ==
  ASSUME NEW p \in Pattern, NEW name \in Text
  PROVE  Matches(p, name) <=>
           \/ p.kind = "Exact" /\ LabelsOf(p.name) = LabelsOf(name)
           \/ p.kind = "Wildcard" /\ IsProperSuffix(LabelsOf(p.name), LabelsOf(name))
<1>1. p.name \in Text
  BY DEF Pattern
<1>2. \A s \in Text, t \in Text : LabelsOf(s) = LabelsOf(t) => s = t
  BY JoinOfLabels
<1>3. AfterDots(name) \subseteq Text
  BY TailProperties DEF AfterDots
<1>4. LabelsOf(p.name) \in Labelled /\ LabelsOf(name) \in Labelled
  BY <1>1, JoinOfLabels
<1>5. IsProperSuffix(LabelsOf(p.name), LabelsOf(name)) <=> p.name \in AfterDots(name)
  <2>1. IsProperSuffix(LabelsOf(p.name), LabelsOf(name)) <=> LabelsOf(p.name) \in Ends(LabelsOf(name))
    BY <1>4, ProperSuffixIsEnd
  <2>2. Ends(LabelsOf(name)) = {LabelsOf(u) : u \in AfterDots(name)}
    BY EndsOfLabels
  <2> QED BY <1>1, <1>2, <1>3, <2>1, <2>2
<1>6. Matches(p, name) <=> Owns(p, name)
  BY MatchesIsOwns
<1>7. p.name \in AfterDots(name) <=> \E cut \in Dots(name) : TailAfter(name, cut) = p.name
  BY DEF AfterDots
<1>8. p.name = name <=> LabelsOf(p.name) = LabelsOf(name)
  BY <1>1, <1>2
<1>9. CASE p.kind = "Exact"
  BY <1>6, <1>8, <1>9 DEF Owns
<1>10. CASE p.kind = "Wildcard"
  BY <1>5, <1>6, <1>7, <1>10 DEF Owns
<1> QED BY <1>9, <1>10 DEF Pattern

-----------------------------------------------------------------------------
\* The labels that the scan checks.

\* The texts between the dots.
SpanTexts(t) == {SubSeq(t, span[1], span[2]) : span \in LabelSpans(t)}

\* A text is faulty when one of them is.
LEMMA FaultlessBySpans ==
  ASSUME NEW t \in Text
  PROVE  FaultySpans(t) = {} <=> \A l \in SpanTexts(t) : LabelFault(l) = "None"
BY DEF FaultySpans, FaultAt, SpanTexts

\* Where a label starts and ends.
LEMMA SpanIs ==
  ASSUME NEW t \in Text, NEW a, NEW b
  PROVE  <<a, b>> \in LabelSpans(t) <=>
           /\ a \in 1 .. Len(t) + 1 /\ b \in 0 .. Len(t) /\ a =< b + 1
           /\ a - 1 \in Dots(t) \cup {0}
           /\ b + 1 \in Dots(t) \cup {Len(t) + 1}
           /\ \A i \in a .. b : t[i] # Dot
BY DEF LabelSpans

\* The text between the two is one that is checked.
LEMMA SpanTextIn ==
  ASSUME NEW t, NEW a, NEW b, <<a, b>> \in LabelSpans(t)
  PROVE  SubSeq(t, a, b) \in SpanTexts(t)
<1> DEFINE span == <<a, b>>
<1>1. span[1] = a /\ span[2] = b /\ span \in LabelSpans(t)
  OBVIOUS
<1> HIDE DEF span
<1> QED BY <1>1 DEF SpanTexts

\* The text of a label.
LEMMA SpanTextIs ==
  ASSUME NEW t \in Text, NEW a \in 1 .. Len(t) + 1, NEW b \in 0 .. Len(t), a =< b + 1
  PROVE  /\ SubSeq(t, a, b) \in Text /\ Len(SubSeq(t, a, b)) = b - a + 1
         /\ \A i \in 1 .. b - a + 1 : a + i - 1 \in 1 .. Len(t) /\ SubSeq(t, a, b)[i] = t[a + i - 1]
<1>1. Len(t) \in Nat /\ a \in Nat \ {0} /\ b \in Nat
  BY TextLength
<1>2. \A i \in a .. b : t[i] \in Byte
  <2>1. \A i \in a .. b : i \in 1 .. Len(t)
    BY <1>1
  <2> QED BY <2>1, ElementOfSeq DEF Text
<1>3. /\ SubSeq(t, a, b) \in Seq(Byte)
      /\ Len(SubSeq(t, a, b)) = IF a =< b THEN b - a + 1 ELSE 0
      /\ \A i \in 1 .. b - a + 1 : SubSeq(t, a, b)[i] = t[a + i - 1]
  BY <1>1, <1>2, SubSeqProperties
<1>4. (IF a =< b THEN b - a + 1 ELSE 0) = b - a + 1
  BY <1>1
<1>5. \A i \in 1 .. b - a + 1 : a + i - 1 \in 1 .. Len(t)
  BY <1>1
<1> QED BY <1>3, <1>4, <1>5 DEF Text

\* A text without a dot is one label.
LEMMA SpansOfLabel ==
  ASSUME NEW l \in Dotless
  PROVE  SpanTexts(l) = {l}
<1> DEFINE n == Len(l)
<1>1. l \in Text /\ n \in Nat /\ Dots(l) = {} /\ \A i \in 1 .. n : l[i] # Dot
  BY TextLength DEF Dotless, Dots
<1>2. SubSeq(l, 1, n) = l
  BY <1>1, SubSeqFull DEF Text
<1> HIDE DEF n
<1>3. <<1, n>> \in LabelSpans(l)
  <2>1. 1 \in 1 .. n + 1 /\ n \in 0 .. n /\ 1 =< n + 1 /\ 1 - 1 = 0
    BY <1>1
  <2> QED BY <1>1, <2>1, SpanIs DEF n
<1>4. ASSUME NEW span \in LabelSpans(l)
      PROVE  span[1] = 1 /\ span[2] = n
  <2>1. span[1] \in 1 .. n + 1 /\ span[2] \in 0 .. n /\ span[1] - 1 = 0 /\ span[2] + 1 = n + 1
    BY <1>1 DEF LabelSpans, n
  <2> QED BY <1>1, <2>1
<1>5. ASSUME NEW u
      PROVE  u \in SpanTexts(l) <=> u = l
  <2>1. u \in SpanTexts(l) => u = l
    BY <1>2, <1>4 DEF SpanTexts
  <2>2. l \in SpanTexts(l)
    <3>1. PICK span \in LabelSpans(l) : span[1] = 1 /\ span[2] = n
      BY <1>3, <1>4
    <3> QED BY <1>2, <3>1 DEF SpanTexts
  <2> QED BY <2>1, <2>2
<1> QED BY <1>5

\* A label, a dot and a text: the label is one more than the text has.
LEMMA SpansBehindLabel ==
  ASSUME NEW l \in Dotless, NEW u \in Text
  PROVE  SpanTexts((l \o <<Dot>>) \o u) = {l} \cup SpanTexts(u)
<1> DEFINE t == (l \o <<Dot>>) \o u  m == Len(l)  n == Len(u)
<1>1. l \in Text /\ m \in Nat /\ n \in Nat /\ \A i \in 1 .. m : l[i] # Dot
  BY TextLength DEF Dotless
<1>2. /\ t \in Text /\ Len(t) = m + 1 + n /\ t[m + 1] = Dot
      /\ \A i \in 1 .. m : t[i] = l[i]
      /\ \A i \in 1 .. n : t[m + 1 + i] = u[i]
  BY <1>1, DotBetween
<1> HIDE DEF t, m, n
<1>3. ASSUME NEW i \in 1 .. m + 1 + n
      PROVE  i \in 1 .. m \/ i = m + 1 \/ (i - (m + 1) \in 1 .. n /\ m + 1 + (i - (m + 1)) = i)
  BY <1>1
<1>4. ASSUME NEW i
      PROVE  i \in Dots(t) <=> i = m + 1 \/ \E j \in Dots(u) : i = m + 1 + j
  <2>1. ASSUME i \in Dots(t), i # m + 1
        PROVE  \E j \in Dots(u) : i = m + 1 + j
    <3>1. i \in 1 .. m + 1 + n /\ t[i] = Dot
      BY <1>2, <2>1 DEF Dots
    <3>2. i \notin 1 .. m
      BY <1>1, <1>2, <3>1
    <3>3. i - (m + 1) \in 1 .. n /\ m + 1 + (i - (m + 1)) = i
      BY <1>3, <2>1, <3>1, <3>2
    <3>4. u[i - (m + 1)] = Dot
      BY <1>2, <3>1, <3>3
    <3> QED BY <3>3, <3>4 DEF Dots, n
  <2>2. ASSUME NEW j \in Dots(u), i = m + 1 + j
        PROVE  i \in Dots(t)
    <3>1. j \in 1 .. n /\ u[j] = Dot
      BY DEF Dots, n
    <3>2. i \in 1 .. Len(t)
      BY <1>1, <1>2, <2>2, <3>1
    <3> QED BY <1>2, <2>2, <3>1, <3>2 DEF Dots
  <2>3. m + 1 \in Dots(t)
    <3>1. m + 1 \in 1 .. Len(t)
      BY <1>1, <1>2
    <3> QED BY <1>2, <3>1 DEF Dots
  <2> QED BY <2>1, <2>2, <2>3
<1>5. Dots(u) \subseteq 1 .. n
  BY DEF Dots, n
\* The first label.
<1>6. <<1, m>> \in LabelSpans(t) /\ SubSeq(t, 1, m) = l
  <2>1. 1 \in 1 .. Len(t) + 1 /\ m \in 0 .. Len(t) /\ 1 =< m + 1 /\ 1 - 1 = 0 /\ m - 1 + 1 = m
    BY <1>1, <1>2
  <2>2. \A i \in 1 .. m : t[i] # Dot
    BY <1>1, <1>2
  <2>3. <<1, m>> \in LabelSpans(t)
    BY <1>2, <1>4, <2>1, <2>2, SpanIs
  <2>4. /\ SubSeq(t, 1, m) \in Text /\ Len(SubSeq(t, 1, m)) = m
        /\ \A i \in 1 .. m - 1 + 1 : SubSeq(t, 1, m)[i] = t[1 + i - 1]
    BY <1>2, <2>1, SpanTextIs
  <2>5. \A i \in 1 .. m : SubSeq(t, 1, m)[i] = l[i]
    <3>1. \A i \in 1 .. m : 1 + i - 1 = i
      BY <1>1
    <3> QED BY <1>2, <2>1, <2>4, <3>1
  <2>6. SubSeq(t, 1, m) = l
    BY <1>1, <2>4, <2>5, SeqEqual DEF Text, m
  <2> QED BY <2>3, <2>6
\* The labels of u, moved by the length of what stands before it.
<1>7. ASSUME NEW a \in 1 .. n + 1, NEW b \in 0 .. n, a =< b + 1
      PROVE  SubSeq(t, m + 1 + a, m + 1 + b) = SubSeq(u, a, b)
  <2>1. /\ SubSeq(u, a, b) \in Text /\ Len(SubSeq(u, a, b)) = b - a + 1
        /\ \A i \in 1 .. b - a + 1 : a + i - 1 \in 1 .. n /\ SubSeq(u, a, b)[i] = u[a + i - 1]
    BY <1>7, SpanTextIs DEF n
  <2>2. /\ m + 1 + a \in 1 .. Len(t) + 1 /\ m + 1 + b \in 0 .. Len(t) /\ m + 1 + a =< (m + 1 + b) + 1
        /\ (m + 1 + b) - (m + 1 + a) + 1 = b - a + 1
        /\ \A i \in 1 .. b - a + 1 : (m + 1 + a) + i - 1 = m + 1 + (a + i - 1)
    BY <1>1, <1>2, <1>7
  <2> DEFINE c == m + 1 + a  d == m + 1 + b
  <2>3. /\ SubSeq(t, c, d) \in Text /\ Len(SubSeq(t, c, d)) = d - c + 1
        /\ \A i \in 1 .. d - c + 1 : SubSeq(t, c, d)[i] = t[c + i - 1]
    <3> HIDE DEF c, d
    <3> QED BY <1>2, <2>2, SpanTextIs DEF c, d
  <2>4. \A i \in 1 .. b - a + 1 : SubSeq(t, c, d)[i] = u[a + i - 1]
    BY <1>2, <2>1, <2>2, <2>3
  <2> HIDE DEF c, d
  <2>5. Len(SubSeq(t, c, d)) = b - a + 1
    BY <2>2, <2>3 DEF c, d
  <2>6. SubSeq(t, c, d) = SubSeq(u, a, b)
    <3>1. \A i \in 1 .. b - a + 1 : SubSeq(t, c, d)[i] = SubSeq(u, a, b)[i]
      BY <2>1, <2>4
    <3> QED BY <2>1, <2>3, <2>5, <3>1, SeqEqual DEF Text
  <2> QED BY <2>6 DEF c, d
<1>8. ASSUME NEW a, NEW b, <<a, b>> \in LabelSpans(u)
      PROVE  <<m + 1 + a, m + 1 + b>> \in LabelSpans(t)
  <2>1. /\ a \in 1 .. n + 1 /\ b \in 0 .. n /\ a =< b + 1
        /\ a - 1 \in Dots(u) \cup {0}
        /\ b + 1 \in Dots(u) \cup {n + 1}
        /\ \A i \in a .. b : u[i] # Dot
    BY <1>8, SpanIs DEF n
  <2>2. /\ m + 1 + a \in 1 .. Len(t) + 1 /\ m + 1 + b \in 0 .. Len(t) /\ m + 1 + a =< (m + 1 + b) + 1
        /\ (m + 1 + a) - 1 = m + 1 + (a - 1) /\ (m + 1 + b) + 1 = m + 1 + (b + 1)
        /\ m + 1 + 0 = m + 1 /\ m + 1 + (n + 1) = Len(t) + 1
    BY <1>1, <1>2, <2>1
  <2>3. (m + 1 + a) - 1 \in Dots(t) \cup {0}
    BY <1>4, <2>1, <2>2
  <2>4. (m + 1 + b) + 1 \in Dots(t) \cup {Len(t) + 1}
    BY <1>4, <2>1, <2>2
  <2>5. ASSUME NEW i \in m + 1 + a .. m + 1 + b
        PROVE  t[i] # Dot
    <3>1. i - (m + 1) \in a .. b /\ i - (m + 1) \in 1 .. n /\ m + 1 + (i - (m + 1)) = i
      BY <1>1, <2>1
    <3> QED BY <1>2, <2>1, <3>1
  <2> QED BY <1>2, <2>2, <2>3, <2>4, <2>5, SpanIs
<1>9. ASSUME NEW c, NEW d, <<c, d>> \in LabelSpans(t)
      PROVE  \/ c = 1 /\ d = m
             \/ \E a \in 1 .. n + 1, b \in 0 .. n :
                  <<a, b>> \in LabelSpans(u) /\ a =< b + 1 /\ c = m + 1 + a /\ d = m + 1 + b
  <2>1. /\ c \in 1 .. Len(t) + 1 /\ d \in 0 .. Len(t) /\ c =< d + 1
        /\ c - 1 \in Dots(t) \cup {0}
        /\ d + 1 \in Dots(t) \cup {Len(t) + 1}
        /\ \A i \in c .. d : t[i] # Dot
    BY <1>2, <1>9, SpanIs
  <2>2. c \in Nat \ {0} /\ d \in Nat /\ Len(t) + 1 = m + 1 + (n + 1)
    BY <1>1, <1>2, <2>1
  <2>3. d + 1 = m + 1 \/ \E j \in 1 .. n + 1 : d + 1 = m + 1 + j /\ j \in Dots(u) \cup {n + 1}
    <3>1. n + 1 \in 1 .. n + 1 /\ 1 .. n \subseteq 1 .. n + 1
      BY <1>1
    <3> QED BY <1>4, <1>5, <2>1, <2>2, <3>1
  <2>4. CASE c - 1 = 0
    <3>1. c = 1
      BY <2>2, <2>4
    <3>2. m + 1 \notin c .. d
      BY <1>2, <2>1
    <3>3. d < m + 1
      BY <1>1, <2>2, <3>1, <3>2
    <3>4. d = m
      BY <1>1, <2>2, <2>3, <3>3
    <3> QED BY <3>1, <3>4
  <2>5. CASE c - 1 # 0
    <3>1. c - 1 = m + 1 \/ \E j \in Dots(u) : c - 1 = m + 1 + j
      BY <1>4, <2>1, <2>5
    <3>2. PICK e \in 0 .. n : c - 1 = m + 1 + e /\ e \in Dots(u) \cup {0}
      <4>1. 0 \in 0 .. n /\ m + 1 = m + 1 + 0 /\ 1 .. n \subseteq 0 .. n
        BY <1>1
      <4> QED BY <1>5, <3>1, <4>1
    <3>3. PICK j \in 1 .. n + 1 : d + 1 = m + 1 + j /\ j \in Dots(u) \cup {n + 1}
      BY <1>1, <2>1, <2>2, <2>3, <3>2
    <3>4. PICK a \in 1 .. n + 1 : a = e + 1
      BY <1>1
    <3>5. PICK b \in 0 .. n : b = j - 1
      BY <1>1
    <3>6. c = m + 1 + a /\ d = m + 1 + b /\ a =< b + 1 /\ a - 1 = e /\ b + 1 = j
      BY <1>1, <2>1, <2>2, <3>2, <3>3, <3>4, <3>5
    <3>7. ASSUME NEW i \in a .. b
          PROVE  u[i] # Dot
      <4>1. i \in 1 .. n /\ m + 1 + i \in c .. d
        BY <1>1, <3>6
      <4> QED BY <1>2, <2>1, <4>1
    <3>8. <<a, b>> \in LabelSpans(u)
      BY <3>2, <3>3, <3>6, <3>7, SpanIs DEF n
    <3> QED BY <3>6, <3>8
  <2> QED BY <2>4, <2>5
<1>10. ASSUME NEW w
       PROVE  w \in SpanTexts(t) <=> w = l \/ w \in SpanTexts(u)
  <2>1. ASSUME NEW span \in LabelSpans(t), w = SubSeq(t, span[1], span[2])
        PROVE  w = l \/ w \in SpanTexts(u)
    <3>1. PICK c, d : span = <<c, d>>
      BY DEF LabelSpans
    <3>2. <<c, d>> \in LabelSpans(t) /\ w = SubSeq(t, c, d)
      BY <2>1, <3>1
    <3>3. ASSUME NEW a \in 1 .. n + 1, NEW b \in 0 .. n,
                 <<a, b>> \in LabelSpans(u), a =< b + 1, c = m + 1 + a, d = m + 1 + b
          PROVE  w \in SpanTexts(u)
      <4>1. w = SubSeq(u, a, b)
        BY <1>7, <3>2, <3>3
      <4> QED BY <3>3, <4>1, SpanTextIn
    <3> QED BY <1>6, <1>9, <3>2, <3>3
  <2>2. ASSUME NEW span \in LabelSpans(u), w = SubSeq(u, span[1], span[2])
        PROVE  w \in SpanTexts(t)
    <3>1. PICK a, b : span = <<a, b>>
      BY DEF LabelSpans
    <3>2. <<a, b>> \in LabelSpans(u) /\ w = SubSeq(u, a, b)
      BY <2>2, <3>1
    <3>3. a \in 1 .. n + 1 /\ b \in 0 .. n /\ a =< b + 1
      BY <3>2, SpanIs DEF n
    <3>4. w = SubSeq(t, m + 1 + a, m + 1 + b) /\ <<m + 1 + a, m + 1 + b>> \in LabelSpans(t)
      BY <1>7, <1>8, <3>2, <3>3
    <3> QED BY <3>4, SpanTextIn
  <2>3. l \in SpanTexts(t)
    BY <1>6 DEF SpanTexts
  <2> QED BY <2>1, <2>2, <2>3 DEF SpanTexts
<1>11. SpanTexts(t) = {l} \cup SpanTexts(u)
  BY <1>10
<1> QED BY <1>11 DEF t

\* Of labels put together the scan checks each one.
LEMMA SpansOfJoin ==
  ASSUME NEW ls \in Seq(Dotless) \ {<<>>}
  PROVE  ls \in Labelled /\ SpanTexts(Join(ls)) = {ls[i] : i \in 1 .. Len(ls)}
<1> DEFINE S == {ms \in Seq(Dotless) :
                   ms # <<>> => /\ ms \in Labelled
                                /\ SpanTexts(Join(ms)) = {ms[i] : i \in 1 .. Len(ms)}}
<1>1. <<>> \in S
  OBVIOUS
<1>2. ASSUME NEW l \in Dotless, NEW ms \in S
      PROVE  <<l>> \o ms \in S
  <2> DEFINE lms == <<l>> \o ms  n == Len(ms)
  <2>1. l \in Text /\ ms \in Seq(Dotless)
    BY DEF Dotless
  <2>2. /\ lms \in Seq(Dotless) /\ n \in Nat /\ Len(lms) = 1 + n /\ lms[1] = l
        /\ \A i \in 1 .. n : lms[1 + i] = ms[i]
    BY <2>1
  <2>3. {lms[i] : i \in 1 .. 1 + n} = {l} \cup {ms[i] : i \in 1 .. n}
    <3> HIDE DEF lms, n
    <3>1. ASSUME NEW i \in 1 .. 1 + n
          PROVE  i = 1 \/ (i - 1 \in 1 .. n /\ 1 + (i - 1) = i)
      BY <2>2
    <3>2. 1 \in 1 .. 1 + n /\ \A i \in 1 .. n : 1 + i \in 1 .. 1 + n
      BY <2>2
    <3>3. ASSUME NEW v
          PROVE  (\E i \in 1 .. 1 + n : v = lms[i]) <=> v = l \/ \E i \in 1 .. n : v = ms[i]
      <4>1. ASSUME NEW i \in 1 .. 1 + n, v = lms[i]
            PROVE  v = l \/ \E j \in 1 .. n : v = ms[j]
        BY <2>2, <3>1, <4>1
      <4>2. ASSUME NEW i \in 1 .. n, v = ms[i]
            PROVE  \E j \in 1 .. 1 + n : v = lms[j]
        BY <2>2, <3>2, <4>2
      <4>3. v = l => \E j \in 1 .. 1 + n : v = lms[j]
        BY <2>2, <3>2
      <4> QED BY <4>1, <4>2, <4>3
    <3> QED BY <3>3
  <2>4. CASE ms = <<>>
    <3>1. lms = <<l>> /\ n = 0
      BY <2>4
    <3>2. lms \in Labelled /\ SpanTexts(Join(lms)) = {l}
      BY <2>1, <3>1, JoinOfOne, SpansOfLabel
    <3>3. {ms[i] : i \in 1 .. n} = {}
      BY <3>1
    <3> HIDE DEF lms, n
    <3> QED BY <2>2, <2>3, <3>2, <3>3 DEF lms
  <2>5. CASE ms # <<>>
    <3>1. ms \in Labelled /\ SpanTexts(Join(ms)) = {ms[i] : i \in 1 .. n}
      BY <2>5
    <3>2. lms \in Labelled /\ Join(ms) \in Text /\ Join(lms) = (l \o <<Dot>>) \o Join(ms)
      BY <2>1, <3>1, JoinOfLonger
    <3>3. SpanTexts(Join(lms)) = {l} \cup SpanTexts(Join(ms))
      BY <3>2, SpansBehindLabel
    <3> HIDE DEF lms, n
    <3> QED BY <2>2, <2>3, <3>1, <3>2, <3>3 DEF lms
  <2> QED BY <2>4, <2>5
<1>3. S \in SUBSET Seq(Dotless)
  OBVIOUS
<1> HIDE DEF S
<1>4. S = Seq(Dotless)
  <2>1. GrowsInFront(S, Dotless)
    BY <1>1, <1>2 DEF GrowsInFront
  <2> QED BY <1>3, <2>1, FrontInduction
<1>5. ls \in S
  BY <1>4
<1> QED BY <1>5 DEF S

\* So the labels of a text are the ones that the scan checks.
LEMMA SpansAreLabels ==
  ASSUME NEW t \in Text
  PROVE  SpanTexts(t) = {LabelsOf(t)[i] : i \in 1 .. Len(LabelsOf(t))}
BY LabelsAreDotless, JoinOfLabels, SpansOfJoin

-----------------------------------------------------------------------------
\* The grammar.

\* The letters, digits and hyphens of the grammar are bytes, none of them a dot.
LEMMA LetDigHypBytes ==
  ASSUME NEW c \in LetDigHyp
  PROVE  c \in Byte /\ c # Dot /\ (IsAsciiAlphanumeric(c) \/ c = Hyphen)
<1>1. PICK b \in Bytes : c = AsciiLower(b) /\ (IsAsciiAlphanumeric(b) \/ b = Hyphen)
  BY DEF LetDigHyp
<1>2. b \in (48 .. 57) \cup (65 .. 90) \cup (97 .. 122) \cup {45}
  BY <1>1 DEF IsAsciiAlphanumeric, Hyphen
<1> QED BY <1>1, <1>2 DEF AsciiLower, IsAsciiAlphanumeric, Hyphen, Dot, Byte

\* Texts of bounded length.
LEMMA TextsAre ==
  ASSUME NEW B \in SUBSET Byte, NEW n \in Nat, NEW t
  PROVE  t \in Texts(B, n) <=> t \in Text /\ Len(t) =< n /\ \A i \in 1 .. Len(t) : t[i] \in B
<1>1. ASSUME NEW k \in 0 .. n, t \in [1 .. k -> B]
      PROVE  t \in Text /\ Len(t) =< n /\ \A i \in 1 .. Len(t) : t[i] \in B
  <2>1. k \in Nat /\ k =< n
    OBVIOUS
  <2>2. t \in Seq(B) /\ Len(t) = k
    BY <1>1, <2>1
  <2>3. t \in Text
    BY <2>2, SeqMonotonic DEF Text
  <2> QED BY <2>1, <2>2, <2>3, ElementOfSeq
<1>2. ASSUME t \in Text, Len(t) =< n, \A i \in 1 .. Len(t) : t[i] \in B
      PROVE  \E k \in 0 .. n : t \in [1 .. k -> B]
  <2>1. Len(t) \in 0 .. n /\ t \in [1 .. Len(t) -> Byte]
    BY <1>2, TextLength
  <2>2. t \in [1 .. Len(t) -> B]
    BY <1>2, <2>1
  <2> QED BY <2>1, <2>2
<1> QED BY <1>1, <1>2 DEF Texts

\* A label of the grammar is one in which LabelFault finds nothing.
LEMMA LabelIs ==
  ASSUME NEW l \in Text, \A i \in 1 .. Len(l) : l[i] \in LetDigHyp
  PROVE  l \in Labels <=> LabelFault(l) = "None"
<1>1. Len(l) \in Nat /\ DOMAIN l = 1 .. Len(l) /\ MaxLabel \in Nat
  BY TextLength, NamesAssumption
<1>2. l \in Texts(LetDigHyp, MaxLabel) <=> Len(l) =< MaxLabel
  <2>1. LetDigHyp \in SUBSET Byte
    BY LetDigHypBytes
  <2> QED BY <1>1, <2>1, TextsAre
<1>3. l \in Labels <=> l # <<>> /\ Len(l) =< MaxLabel /\ Hyphen # l[1] /\ Hyphen # l[Len(l)]
  BY <1>2 DEF Labels
<1>4. \A i \in DOMAIN l : IsAsciiAlphanumeric(l[i]) \/ l[i] = Hyphen
  BY <1>1, LetDigHypBytes
<1>5. LabelFault(l) = "None" <=> l # <<>> /\ ~ Len(l) > MaxLabel /\ ~ BeginsWith(l, Hyphen) /\ ~ EndsWith(l, Hyphen)
  BY <1>4 DEF LabelFault
<1> QED BY <1>1, <1>3, <1>5 DEF BeginsWith, EndsWith

\* Labels of the grammar are short of a dot, and not empty.
LEMMA LabelsOfGrammar ==
  ASSUME NEW l \in Labels
  PROVE  /\ l \in Dotless /\ LabelFault(l) = "None" /\ Len(l) \in Nat \ {0}
         /\ \A i \in 1 .. Len(l) : l[i] \in LetDigHyp
<1>1. LetDigHyp \in SUBSET Byte /\ MaxLabel \in Nat
  BY LetDigHypBytes, NamesAssumption
<1>2. l \in Text /\ l # <<>> /\ \A i \in 1 .. Len(l) : l[i] \in LetDigHyp
  BY <1>1, TextsAre DEF Labels
<1>3. LabelFault(l) = "None"
  BY <1>2, LabelIs
<1>4. l \in Dotless
  BY <1>2, LetDigHypBytes, TextLength DEF Dotless
<1>5. Len(l) \in Nat \ {0}
  BY <1>2, EmptySeq DEF Text
<1> QED BY <1>2, <1>3, <1>4, <1>5

\* Labels put together: at least a byte of each label, and the dots between.
LEMMA JoinOfGrammar ==
  ASSUME NEW ls \in Seq(Labels) \ {<<>>}
  PROVE  /\ Join(ls) \in Text /\ 2 * Len(ls) =< Len(Join(ls)) + 1
         /\ \A i \in 1 .. Len(Join(ls)) : Join(ls)[i] \in LetDigHyp \cup {Dot}
<1> DEFINE Fits(t, n) == /\ t \in Text /\ 2 * n =< Len(t) + 1
                         /\ \A i \in 1 .. Len(t) : t[i] \in LetDigHyp \cup {Dot}
           S == {ms \in Seq(Labels) : ms # <<>> => Fits(Join(ms), Len(ms))}
<1>1. <<>> \in S
  OBVIOUS
<1>2. ASSUME NEW l \in Labels, NEW ms \in S
      PROVE  <<l>> \o ms \in S
  <2> DEFINE lms == <<l>> \o ms  n == Len(ms)
  <2>1. /\ l \in Text /\ ms \in Seq(Labels) /\ Labels \subseteq Text /\ Len(l) \in Nat \ {0}
        /\ \A i \in 1 .. Len(l) : l[i] \in LetDigHyp
    BY LabelsOfGrammar DEF Dotless
  <2>2. lms \in Seq(Labels) /\ n \in Nat /\ Len(lms) = 1 + n
    BY <2>1
  <2>3. CASE ms = <<>>
    <3>1. lms = <<l>> /\ Len(lms) = 1
      BY <2>3
    <3>2. Join(lms) = l
      BY <2>1, <3>1, JoinOfOne
    <3>3. 2 * 1 =< Len(l) + 1
      BY <2>1
    <3> HIDE DEF lms, n
    <3> QED BY <2>1, <2>2, <3>1, <3>2, <3>3 DEF lms
  <2>4. CASE ms # <<>>
    <3>1. Fits(Join(ms), n)
      BY <2>4
    <3>2. ms \in Labelled
      <4>1. ms \in Seq(Text)
        BY <2>1, SeqMonotonic
      <4> QED BY <2>4, <4>1 DEF Labelled
    <3>3. Join(lms) = (l \o <<Dot>>) \o Join(ms)
      BY <2>1, <3>2, JoinOfLonger
    <3> HIDE DEF lms, n
    <3>4. PICK u \in Text : u = Join(ms)
      BY <3>1
    <3>5. PICK t : t = Join(lms)
      OBVIOUS
    <3>6. /\ t \in Text /\ Len(t) = Len(l) + 1 + Len(u)
          /\ \A i \in 1 .. Len(l) : t[i] = l[i]
          /\ t[Len(l) + 1] = Dot
          /\ \A i \in 1 .. Len(u) : t[Len(l) + 1 + i] = u[i]
      <4>1. t = (l \o <<Dot>>) \o u
        BY <3>3, <3>4, <3>5
      <4> QED BY <2>1, <4>1, DotBetween
    <3>7. Len(u) \in Nat /\ 2 * n =< Len(u) + 1 /\ \A i \in 1 .. Len(u) : u[i] \in LetDigHyp \cup {Dot}
      BY <3>1, <3>4, TextLength
    <3>8. 2 * (1 + n) =< Len(t) + 1
      BY <2>1, <2>2, <3>6, <3>7
    <3>9. ASSUME NEW i \in 1 .. Len(t)
          PROVE  t[i] \in LetDigHyp \cup {Dot}
      <4>1. \/ i \in 1 .. Len(l)
            \/ i = Len(l) + 1
            \/ i - (Len(l) + 1) \in 1 .. Len(u) /\ Len(l) + 1 + (i - (Len(l) + 1)) = i
        BY <2>1, <3>6, <3>7
      <4> QED BY <2>1, <3>6, <3>7, <4>1
    <3> QED BY <2>2, <3>5, <3>6, <3>8, <3>9 DEF lms
  <2> QED BY <2>3, <2>4
<1>3. S \in SUBSET Seq(Labels)
  OBVIOUS
<1> HIDE DEF S
<1>4. S = Seq(Labels)
  <2>1. GrowsInFront(S, Labels)
    BY <1>1, <1>2 DEF GrowsInFront
  <2> QED BY <1>3, <2>1, FrontInduction
<1>5. ls \in S
  BY <1>4
<1> QED BY <1>5 DEF S

\* Sequences of bounded length.
LEMMA BoundedSeqIs ==
  ASSUME NEW V, NEW n \in Nat, NEW s
  PROVE  s \in BoundedSeq(V, n) <=> s \in Seq(V) /\ Len(s) =< n
<1>1. ASSUME NEW k \in 0 .. n, s \in [1 .. k -> V]
      PROVE  s \in Seq(V) /\ Len(s) =< n
  <2>1. k \in Nat /\ k =< n
    OBVIOUS
  <2>2. s \in Seq(V) /\ Len(s) = k
    BY <1>1, <2>1
  <2> QED BY <2>1, <2>2
<1>2. ASSUME s \in Seq(V), Len(s) =< n
      PROVE  \E k \in 0 .. n : s \in [1 .. k -> V]
  <2>1. Len(s) \in 0 .. n /\ s \in [1 .. Len(s) -> V]
    BY <1>2
  <2> QED BY <2>1
<1> QED BY <1>1, <1>2 DEF BoundedSeq, SeqOf

\* The names of the grammar are the texts that the scan finds no fault in, within
\* the length and no addresses.
LEMMA HostnameIs ==
  ASSUME NEW t
  PROVE  t \in Hostnames <=>
           /\ t \in Text /\ t \notin AddressLiterals /\ Len(t) =< MaxName
           /\ FaultySpans(t) = {} /\ \A i \in 1 .. Len(t) : t[i] \in LetDigHyp \cup {Dot}
<1>1. MaxName \in Nat /\ (MaxName + 1) \div 2 \in Nat
  BY NamesAssumption
<1>2. ASSUME t \in Hostnames
      PROVE  /\ t \in Text /\ t \notin AddressLiterals /\ Len(t) =< MaxName
             /\ FaultySpans(t) = {} /\ \A i \in 1 .. Len(t) : t[i] \in LetDigHyp \cup {Dot}
  <2>1. PICK ls \in BoundedSeq(Labels, (MaxName + 1) \div 2) \ {<<>>} : t = Join(ls)
    BY <1>2 DEF Hostnames
  <2>2. ls \in Seq(Labels) \ {<<>>}
    BY <1>1, <2>1, BoundedSeqIs
  <2>3. t \in Text /\ \A i \in 1 .. Len(t) : t[i] \in LetDigHyp \cup {Dot}
    BY <2>1, <2>2, JoinOfGrammar
  <2>4. ls \in Seq(Dotless)
    <3>1. Labels \subseteq Dotless
      BY LabelsOfGrammar
    <3> QED BY <2>2, <3>1, SeqMonotonic
  <2>5. SpanTexts(t) = {ls[i] : i \in 1 .. Len(ls)}
    BY <2>1, <2>2, <2>4, SpansOfJoin
  <2>6. \A i \in 1 .. Len(ls) : LabelFault(ls[i]) = "None"
    BY <2>2, ElementOfSeq, LabelsOfGrammar
  <2>7. FaultySpans(t) = {}
    BY <2>3, <2>5, <2>6, FaultlessBySpans
  <2> QED BY <1>2, <2>3, <2>7 DEF Hostnames
<1>3. ASSUME t \in Text, t \notin AddressLiterals, Len(t) =< MaxName,
             FaultySpans(t) = {}, \A i \in 1 .. Len(t) : t[i] \in LetDigHyp \cup {Dot}
      PROVE  t \in Hostnames
  <2>1. PICK ls \in Seq(Dotless) \ {<<>>} : ls = LabelsOf(t)
    BY <1>3, LabelsAreDotless
  <2>2. Join(ls) = t /\ SpanTexts(t) = {ls[i] : i \in 1 .. Len(ls)}
    BY <1>3, <2>1, JoinOfLabels, SpansAreLabels
  <2>3. ASSUME NEW i \in 1 .. Len(ls)
        PROVE  ls[i] \in Labels
    <3>1. PICK l \in Dotless : l = ls[i]
      BY <2>1, ElementOfSeq
    <3>2. l \in SpanTexts(t)
      BY <2>2, <3>1
    <3>3. LabelFault(l) = "None"
      BY <1>3, <3>2, FaultlessBySpans
    <3>4. PICK a, b : <<a, b>> \in LabelSpans(t) /\ l = SubSeq(t, a, b)
      <4>1. PICK span \in LabelSpans(t) : l = SubSeq(t, span[1], span[2])
        BY <3>2 DEF SpanTexts
      <4>2. span = <<span[1], span[2]>>
        BY DEF LabelSpans
      <4> QED BY <4>1, <4>2
    <3>5. a \in 1 .. Len(t) + 1 /\ b \in 0 .. Len(t) /\ a =< b + 1
      BY <1>3, <3>4, SpanIs
    <3>6. /\ Len(l) = b - a + 1
          /\ \A j \in 1 .. b - a + 1 : a + j - 1 \in 1 .. Len(t) /\ l[j] = t[a + j - 1]
      BY <1>3, <3>4, <3>5, SpanTextIs
    <3>7. \A j \in 1 .. Len(l) : l[j] \in LetDigHyp
      <4>1. \A j \in 1 .. Len(l) : l[j] # Dot
        BY TextLength DEF Dotless
      <4> QED BY <1>3, <3>6, <4>1
    <3>8. l \in Text
      BY DEF Dotless
    <3> QED BY <3>1, <3>3, <3>7, <3>8, LabelIs
  <2>4. ls \in Seq(Labels) /\ ls # <<>> /\ Len(ls) \in Nat
    BY <2>1, <2>3
  <2>5. 2 * Len(ls) =< Len(t) + 1 /\ Len(t) \in Nat
    BY <1>3, <2>2, <2>4, JoinOfGrammar, TextLength
  <2>6. Len(ls) =< (MaxName + 1) \div 2
    <3>1. \A k, m \in Nat : 2 * k =< m + 1 => k =< (m + 1) \div 2
      OBVIOUS
    <3>2. 2 * Len(ls) =< MaxName + 1
      BY <1>1, <1>3, <2>4, <2>5
    <3> QED BY <1>1, <2>4, <3>1, <3>2
  <2>7. ls \in BoundedSeq(Labels, (MaxName + 1) \div 2) \ {<<>>}
    BY <1>1, <2>4, <2>6, BoundedSeqIs
  <2> QED BY <1>3, <2>2, <2>7 DEF Hostnames
<1> QED BY <1>2, <1>3

\* An empty label is a fault.
LEMMA EmptyLabelIsFault == LabelFault(<<>>) = "EmptyLabel"
BY DEF LabelFault

\* The canonical form of what was typed keeps to the letters of the grammar, when
\* the scan finds no fault in it.
LEMMA CanonicalBytes ==
  ASSUME NEW input \in Text, \A i \in 1 .. Len(input) : input[i] \in Bytes,
         FaultySpans(ToAsciiLowercase(StripRootDot(input))) = {}
  PROVE  LET t == ToAsciiLowercase(StripRootDot(input))
         IN  \A i \in 1 .. Len(t) : t[i] \in LetDigHyp \cup {Dot}
<1> DEFINE bare == StripRootDot(input)  t == ToAsciiLowercase(bare)
<1>1. bare \in Text /\ t \in Text /\ Len(t) = Len(bare) /\ Len(bare) \in Nat
  BY StripRootDotIsText, LowercaseIsText, LowercaseLength, TextLength
<1>2. \A i \in 1 .. Len(bare) : i \in 1 .. Len(input) /\ bare[i] = input[i]
  <2>1. CASE EndsWith(input, Dot)
    <3>1. Len(bare) = Len(input) - 1 /\ Len(input) \in Nat /\ \A i \in 1 .. Len(bare) : bare[i] = input[i]
      BY <2>1, StrippedText, TextLength
    <3> HIDE DEF bare
    <3> QED BY <1>1, <3>1
  <2>2. CASE ~ EndsWith(input, Dot)
    BY <2>2 DEF StripRootDot
  <2> QED BY <2>1, <2>2
<1>3. \A i \in 1 .. Len(bare) : t[i] = AsciiLower(bare[i])
  BY <1>1, TextLength DEF ToAsciiLowercase
<1> HIDE DEF bare, t
<1>4. FaultySpans(t) = {}
  BY DEF t, bare
<1>5. ASSUME NEW i \in 1 .. Len(t)
      PROVE  t[i] \in LetDigHyp \cup {Dot}
  <2>1. PICK b \in Bytes : b = input[i] /\ t[i] = AsciiLower(b)
    BY <1>1, <1>2, <1>3
  <2>2. t[i] = Dot \/ t[i] = Hyphen \/ IsAsciiAlphanumeric(t[i])
    BY <1>1, <1>4, FaultlessTextBytes
  <2>3. b \in Byte
    <3>1. i \in 1 .. Len(input)
      BY <1>1, <1>2
    <3> QED BY <2>1, <3>1, TextLength
  <2>4. t[i] = Dot \/ b = Hyphen \/ IsAsciiAlphanumeric(b)
    BY <2>1, <2>2, <2>3 DEF AsciiLower, Hyphen, IsAsciiAlphanumeric, Byte
  <2> QED BY <2>1, <2>4 DEF LetDigHyp
<1> QED BY <1>5 DEF t, bare

\* RemapName::parse accepts the spellings of the grammar's names.
LEMMA ParseIsGrammar ==
  ASSUME NEW input \in Text, \A i \in 1 .. Len(input) : input[i] \in Bytes
  PROVE  /\ RemapNameParse(input).ok <=> ToAsciiLowercase(StripRootDot(input)) \in Hostnames
         /\ RemapNameParse(input).ok =>
              RemapNameParse(input).value = ToAsciiLowercase(StripRootDot(input))
<1> DEFINE bare == StripRootDot(input)  t == ToAsciiLowercase(bare)
<1>1. bare \in Text /\ t \in Text /\ Len(t) = Len(bare)
  BY StripRootDotIsText, LowercaseIsText, LowercaseLength
<1>2. RemapNameParse(input) =
        IF input = <<>> \/ bare = <<>>      THEN Err("Empty")
        ELSE IF bare \in AddressLiterals    THEN Err("AddressLiteral")
        ELSE IF Len(t) > MaxName            THEN Err("NameTooLong")
        ELSE IF FaultySpans(t) # {}         THEN Err(FirstFault(t))
        ELSE Ok(t)
  BY DEF RemapNameParse
<1>3. ASSUME RemapNameParse(input).ok
      PROVE  t \in Hostnames /\ RemapNameParse(input).value = t
  <2>1. RemapNameParse(input).value = t
    BY <1>2, <1>3 DEF Ok, Err
  <2>2. t \notin AddressLiterals /\ Len(t) =< MaxName /\ FaultySpans(t) = {}
    BY <1>3, <2>1, AcceptedName
  <2>3. \A i \in 1 .. Len(t) : t[i] \in LetDigHyp \cup {Dot}
    BY <2>2, CanonicalBytes
  <2> HIDE DEF t
  <2> QED BY <1>1, <2>1, <2>2, <2>3, HostnameIs
<1>4. ASSUME t \in Hostnames
      PROVE  RemapNameParse(input).ok
  <2>1. t \notin AddressLiterals /\ Len(t) =< MaxName /\ FaultySpans(t) = {}
    BY <1>4, HostnameIs
  <2>2. t # <<>>
    <3>1. SUFFICES ASSUME t = <<>> PROVE FALSE
      OBVIOUS
    <3>2. <<>> \in Dotless
      BY DEF Dotless, Text
    <3>3. <<>> \in SpanTexts(t)
      BY <3>1, <3>2, SpansOfLabel
    <3> HIDE DEF t
    <3> QED BY <1>1, <2>1, <3>3, FaultlessBySpans, EmptyLabelIsFault
  <2>3. bare # <<>>
    BY <1>1, <2>2, EmptySeq DEF Text
  <2>4. input # <<>>
    BY <2>3 DEF StripRootDot, EndsWith
  <2>5. bare \notin AddressLiterals
    BY <1>1, <2>1, AddressInAnyCase
  <2>6. ~ Len(t) > MaxName
    BY <1>1, <2>1, TextLength, NamesAssumption
  <2> HIDE DEF t, bare
  <2> QED BY <1>2, <2>1, <2>3, <2>4, <2>5, <2>6 DEF Ok
<1> QED BY <1>3, <1>4

-----------------------------------------------------------------------------
\* The first faulty label.

\* Where p stands in t, behind k bytes,
IsPart(p, t, k) ==
  /\ k + Len(p) =< Len(t)
  /\ \A i \in 1 .. Len(p) : p[i] = t[k + i]

\* and what stands around it: a dot, or the edge of t.
IsSplit(p, t, k) ==
  /\ IsPart(p, t, k)
  /\ k \in Dots(t) \cup {0}
  /\ k + Len(p) + 1 \in Dots(t) \cup {Len(t) + 1}

\* Texts within a part are texts of the whole.
LEMMA PartText ==
  ASSUME NEW t \in Text, NEW p \in Text, NEW k \in Nat, IsPart(p, t, k),
         NEW a \in 1 .. Len(p) + 1, NEW b \in 0 .. Len(p), a =< b + 1
  PROVE  SubSeq(p, a, b) = SubSeq(t, k + a, k + b)
<1>1. /\ Len(t) \in Nat /\ Len(p) \in Nat /\ k + Len(p) =< Len(t)
      /\ \A i \in 1 .. Len(p) : p[i] = t[k + i]
  BY TextLength DEF IsPart
<1>2. /\ SubSeq(p, a, b) \in Text /\ Len(SubSeq(p, a, b)) = b - a + 1
      /\ \A i \in 1 .. b - a + 1 : a + i - 1 \in 1 .. Len(p) /\ SubSeq(p, a, b)[i] = p[a + i - 1]
  BY SpanTextIs
<1> DEFINE c == k + a  d == k + b
<1>3. /\ c \in 1 .. Len(t) + 1 /\ d \in 0 .. Len(t) /\ c =< d + 1 /\ d - c + 1 = b - a + 1
      /\ \A i \in 1 .. b - a + 1 : c + i - 1 = k + (a + i - 1)
  BY <1>1
<1> HIDE DEF c, d
<1>4. /\ SubSeq(t, c, d) \in Text /\ Len(SubSeq(t, c, d)) = d - c + 1
      /\ \A i \in 1 .. d - c + 1 : SubSeq(t, c, d)[i] = t[c + i - 1]
  BY <1>3, SpanTextIs
<1>5. \A i \in 1 .. b - a + 1 : SubSeq(p, a, b)[i] = SubSeq(t, c, d)[i]
  BY <1>1, <1>2, <1>3, <1>4
<1>6. Len(SubSeq(t, c, d)) = b - a + 1
  BY <1>3, <1>4
<1>7. SubSeq(p, a, b) = SubSeq(t, c, d)
  BY <1>2, <1>4, <1>5, <1>6, SeqEqual DEF Text
<1> QED BY <1>7 DEF c, d

\* The labels of a part that is split off are labels of the whole,
LEMMA PartSpan ==
  ASSUME NEW t \in Text, NEW p \in Text, NEW k \in Nat, IsSplit(p, t, k),
         NEW a \in 1 .. Len(p) + 1, NEW b \in 0 .. Len(p)
  PROVE  <<a, b>> \in LabelSpans(p) <=> <<k + a, k + b>> \in LabelSpans(t)
<1>1. /\ Len(t) \in Nat /\ Len(p) \in Nat /\ k + Len(p) =< Len(t)
      /\ \A i \in 1 .. Len(p) : p[i] = t[k + i]
      /\ k \in Dots(t) \cup {0}
      /\ k + Len(p) + 1 \in Dots(t) \cup {Len(t) + 1}
  BY TextLength DEF IsSplit, IsPart
<1>2. ASSUME NEW i \in 1 .. Len(p)
      PROVE  /\ i \in Dots(p) <=> k + i \in Dots(t)
             /\ k + i \in 1 .. Len(t)
  BY <1>1 DEF Dots
<1>3. /\ k + a \in 1 .. Len(t) + 1 /\ k + b \in 0 .. Len(t)
      /\ a =< b + 1 <=> k + a =< (k + b) + 1
  BY <1>1
<1>4. a - 1 \in Dots(p) \cup {0} <=> (k + a) - 1 \in Dots(t) \cup {0}
  <2>1. CASE a = 1
    <3>1. a - 1 = 0 /\ (k + a) - 1 = k
      BY <2>1
    <3> QED BY <1>1, <3>1
  <2>2. CASE a # 1
    <3>1. PICK i \in 1 .. Len(p) : i = a - 1 /\ (k + a) - 1 = k + i /\ i # 0 /\ k + i # 0
      BY <1>1, <2>2
    <3> QED BY <1>2, <3>1
  <2> QED BY <2>1, <2>2
<1>5. b + 1 \in Dots(p) \cup {Len(p) + 1} <=> (k + b) + 1 \in Dots(t) \cup {Len(t) + 1}
  <2>1. CASE b = Len(p)
    <3>1. (k + b) + 1 = k + Len(p) + 1
      BY <1>1, <2>1
    <3> QED BY <1>1, <2>1, <3>1
  <2>2. CASE b # Len(p)
    <3>1. PICK i \in 1 .. Len(p) : i = b + 1 /\ (k + b) + 1 = k + i
      BY <1>1, <2>2
    <3>2. i # Len(p) + 1 /\ k + i # Len(t) + 1
      BY <1>1, <1>2
    <3> QED BY <1>2, <3>1, <3>2
  <2> QED BY <2>1, <2>2
<1>6. (\A i \in a .. b : p[i] # Dot) <=> (\A i \in k + a .. k + b : t[i] # Dot)
  <2>1. ASSUME NEW i \in a .. b, p[i] = Dot
        PROVE  \E j \in k + a .. k + b : t[j] = Dot
    <3>1. k + i \in k + a .. k + b /\ i \in 1 .. Len(p)
      BY <1>1
    <3> QED BY <1>1, <2>1, <3>1
  <2>2. ASSUME NEW j \in k + a .. k + b, t[j] = Dot
        PROVE  \E i \in a .. b : p[i] = Dot
    <3>1. PICK i \in a .. b : j = k + i /\ i \in 1 .. Len(p)
      <4>1. j - k \in a .. b /\ j = k + (j - k) /\ j - k \in 1 .. Len(p)
        BY <1>1
      <4> QED BY <4>1
    <3> QED BY <1>1, <2>2, <3>1
  <2> QED BY <2>1, <2>2
<1> DEFINE c == k + a  d == k + b
<1>7. <<a, b>> \in LabelSpans(p) <=>
        /\ a =< b + 1 /\ a - 1 \in Dots(p) \cup {0} /\ b + 1 \in Dots(p) \cup {Len(p) + 1}
        /\ \A i \in a .. b : p[i] # Dot
  BY SpanIs
<1>8. <<c, d>> \in LabelSpans(t) <=>
        /\ c =< d + 1 /\ c - 1 \in Dots(t) \cup {0} /\ d + 1 \in Dots(t) \cup {Len(t) + 1}
        /\ \A i \in c .. d : t[i] # Dot
  <2> HIDE DEF c, d
  <2> QED BY <1>3, SpanIs DEF c, d
<1> QED BY <1>3, <1>4, <1>5, <1>6, <1>7, <1>8

\* and are faulty in the same way.
LEMMA PartFault ==
  ASSUME NEW t \in Text, NEW p \in Text, NEW k \in Nat, IsSplit(p, t, k),
         NEW a \in 1 .. Len(p) + 1, NEW b \in 0 .. Len(p)
  PROVE  /\ <<a, b>> \in FaultySpans(p) <=> <<k + a, k + b>> \in FaultySpans(t)
         /\ <<a, b>> \in FaultySpans(p) => FaultAt(p, <<a, b>>) = FaultAt(t, <<k + a, k + b>>)
<1>1. <<a, b>> \in LabelSpans(p) <=> <<k + a, k + b>> \in LabelSpans(t)
  BY PartSpan
<1>2. <<a, b>> \in LabelSpans(p) => FaultAt(p, <<a, b>>) = FaultAt(t, <<k + a, k + b>>)
  <2> SUFFICES ASSUME <<a, b>> \in LabelSpans(p)
               PROVE  FaultAt(p, <<a, b>>) = FaultAt(t, <<k + a, k + b>>)
    OBVIOUS
  <2>1. a =< b + 1
    BY SpanIs
  <2>2. SubSeq(p, a, b) = SubSeq(t, k + a, k + b)
    BY <2>1, PartText DEF IsSplit
  <2>3. FaultAt(p, <<a, b>>) = LabelFault(SubSeq(p, a, b))
    BY DEF FaultAt
  <2>4. FaultAt(t, <<k + a, k + b>>) = LabelFault(SubSeq(t, k + a, k + b))
    BY DEF FaultAt
  <2> QED BY <2>2, <2>3, <2>4
<1> QED BY <1>1, <1>2 DEF FaultySpans

\* A dot splits a text in two, and every label is in one of them.
LEMMA SpanSides ==
  ASSUME NEW t \in Text, NEW d \in Dots(t), NEW span \in FaultySpans(t)
  PROVE  \/ \E a \in 1 .. (d - 1) + 1, b \in 0 .. d - 1 : span = <<a, b>>
         \/ /\ d < span[1]
            /\ \E a \in 1 .. (Len(t) - d) + 1, b \in 0 .. Len(t) - d : span = <<d + a, d + b>>
<1>1. PICK s, e : span = <<s, e>> /\ <<s, e>> \in LabelSpans(t)
  BY DEF FaultySpans, LabelSpans
<1>2. /\ s \in 1 .. Len(t) + 1 /\ e \in 0 .. Len(t) /\ s =< e + 1
      /\ \A i \in s .. e : t[i] # Dot
  BY <1>1, SpanIs
<1>3. Len(t) \in Nat /\ d \in 1 .. Len(t) /\ t[d] = Dot
  BY TextLength DEF Dots
<1>4. d \notin s .. e
  BY <1>2, <1>3
<1>5. CASE e < d
  <2>1. s \in 1 .. (d - 1) + 1 /\ e \in 0 .. d - 1
    BY <1>2, <1>3, <1>5
  <2> QED BY <1>1, <2>1
<1>6. CASE ~ e < d
  <2>1. d < s
    BY <1>2, <1>3, <1>4, <1>6
  <2>2. PICK a \in 1 .. (Len(t) - d) + 1, b \in 0 .. Len(t) - d : s = d + a /\ e = d + b
    <3>1. /\ s - d \in 1 .. (Len(t) - d) + 1 /\ e - d \in 0 .. Len(t) - d
          /\ s = d + (s - d) /\ e = d + (e - d)
      BY <1>2, <1>3, <1>6, <2>1
    <3> QED BY <3>1
  <2> QED BY <1>1, <2>1, <2>2
<1> QED BY <1>5, <1>6

\* Where a label starts says which one it is.
LEMMA SpanByStart ==
  ASSUME NEW t \in Text, NEW one \in LabelSpans(t), NEW other \in LabelSpans(t),
         one[1] = other[1]
  PROVE  one = other
<1>1. PICK a, b, e : /\ one = <<a, b>> /\ other = <<a, e>>
                     /\ <<a, b>> \in LabelSpans(t) /\ <<a, e>> \in LabelSpans(t)
  <2>1. PICK a, b : one = <<a, b>>
    BY DEF LabelSpans
  <2>2. PICK c, e : other = <<c, e>>
    BY DEF LabelSpans
  <2>3. a = c
    BY <2>1, <2>2
  <2> QED BY <2>1, <2>2, <2>3
<1>2. /\ a \in 1 .. Len(t) + 1 /\ b \in 0 .. Len(t) /\ a =< b + 1
      /\ b + 1 \in Dots(t) \cup {Len(t) + 1} /\ \A i \in a .. b : t[i] # Dot
  BY <1>1, SpanIs
<1>3. /\ e \in 0 .. Len(t) /\ a =< e + 1
      /\ e + 1 \in Dots(t) \cup {Len(t) + 1} /\ \A i \in a .. e : t[i] # Dot
  BY <1>1, SpanIs
<1>4. Len(t) \in Nat /\ \A i \in Dots(t) : t[i] = Dot
  BY TextLength DEF Dots
<1>5. ~ b < e
  <2> SUFFICES ASSUME b < e PROVE FALSE
    OBVIOUS
  <2>1. b + 1 \in a .. e /\ b + 1 # Len(t) + 1
    BY <1>2, <1>3, <1>4
  <2> QED BY <1>2, <1>3, <1>4, <2>1
<1>6. ~ e < b
  <2> SUFFICES ASSUME e < b PROVE FALSE
    OBVIOUS
  <2>1. e + 1 \in a .. b /\ e + 1 # Len(t) + 1
    BY <1>2, <1>3, <1>4
  <2> QED BY <1>2, <1>3, <1>4, <2>1
<1>7. b = e
  BY <1>2, <1>3, <1>4, <1>5, <1>6
<1> QED BY <1>1, <1>7

IsFirstFault(t, span) ==
  span \in FaultySpans(t) /\ \A other \in FaultySpans(t) : span[1] =< other[1]

\* A text with faulty labels has a first one,
LEMMA FirstFaultExists ==
  ASSUME NEW t \in Text, FaultySpans(t) # {}
  PROVE  \E span : IsFirstFault(t, span)
<1> DEFINE Starts == {span[1] : span \in FaultySpans(t)}
<1>1. Len(t) \in Nat
  BY TextLength
<1>2. Starts \in SUBSET Nat /\ Starts # {}
  BY <1>1 DEF FaultySpans, LabelSpans
<1>3. PICK k \in Starts : \A j \in Starts : k =< j
  <2> HIDE DEF Starts
  <2> QED BY <1>2, LeastNumber
<1> QED BY <1>3 DEF IsFirstFault

\* whose fault is the one that is told.
LEMMA FirstFaultIs ==
  ASSUME NEW t \in Text, NEW span, IsFirstFault(t, span)
  PROVE  FirstFault(t) = FaultAt(t, span)
<1> DEFINE told == CHOOSE s \in FaultySpans(t) : \A other \in FaultySpans(t) : s[1] =< other[1]
<1>1. told \in FaultySpans(t) /\ \A other \in FaultySpans(t) : told[1] =< other[1]
  BY DEF IsFirstFault
<1>2. FirstFault(t) = FaultAt(t, told)
  BY DEF FirstFault
<1> HIDE DEF told
<1>3. span \in FaultySpans(t) /\ span[1] =< told[1] /\ told[1] =< span[1]
  BY <1>1 DEF IsFirstFault
<1>4. span[1] \in Int /\ told[1] \in Int
  <2>1. Len(t) \in Nat
    BY TextLength
  <2> QED BY <1>1, <1>3, <2>1 DEF FaultySpans, LabelSpans
<1>5. span[1] = told[1]
  BY <1>3, <1>4
<1>6. span = told
  BY <1>1, <1>3, <1>5, SpanByStart DEF FaultySpans
<1> QED BY <1>2, <1>6

\* What stands before a dot is a part, and what stands behind it.
IsHead(h, t, d) == Len(h) = d - 1 /\ IsPart(h, t, 0)
IsRest(r, t, d) == Len(r) = Len(t) - d /\ IsPart(r, t, d)

\* Faults before a dot come first,
LEMMA HeadIsBlamed ==
  ASSUME NEW t \in Text, NEW h \in Text, NEW d \in Dots(t), IsHead(h, t, d)
  PROVE  /\ \A a \in 1 .. (d - 1) + 1, b \in 0 .. d - 1 :
              <<a, b>> \in FaultySpans(h) <=> <<a, b>> \in FaultySpans(t)
         /\ FaultySpans(h) # {} => FaultySpans(t) # {} /\ FirstFault(t) = FirstFault(h)
<1>1. Len(t) \in Nat /\ d \in 1 .. Len(t) /\ Len(h) = d - 1 /\ IsPart(h, t, 0)
  BY TextLength DEF Dots, IsHead
<1>2. IsSplit(h, t, 0)
  <2>1. 0 + Len(h) + 1 = d
    BY <1>1
  <2> QED BY <1>1, <2>1 DEF IsSplit
<1>3. ASSUME NEW a \in 1 .. (d - 1) + 1, NEW b \in 0 .. d - 1
      PROVE  /\ <<a, b>> \in FaultySpans(h) <=> <<a, b>> \in FaultySpans(t)
             /\ <<a, b>> \in FaultySpans(h) => FaultAt(h, <<a, b>>) = FaultAt(t, <<a, b>>)
  <2>1. a \in 1 .. Len(h) + 1 /\ b \in 0 .. Len(h) /\ 0 + a = a /\ 0 + b = b
    BY <1>1
  <2>2. /\ <<a, b>> \in FaultySpans(h) <=> <<0 + a, 0 + b>> \in FaultySpans(t)
        /\ <<a, b>> \in FaultySpans(h) => FaultAt(h, <<a, b>>) = FaultAt(t, <<0 + a, 0 + b>>)
    BY <1>2, <2>1, PartFault
  <2> QED BY <2>1, <2>2
<1>4. ASSUME FaultySpans(h) # {}
      PROVE  FaultySpans(t) # {} /\ FirstFault(t) = FirstFault(h)
  <2>1. PICK span : IsFirstFault(h, span)
    BY <1>4, FirstFaultExists
  <2>2. PICK a \in 1 .. (d - 1) + 1, b \in 0 .. d - 1 : span = <<a, b>>
    BY <1>1, <2>1 DEF IsFirstFault, FaultySpans, LabelSpans
  <2>3. <<a, b>> \in FaultySpans(t) /\ FaultAt(h, span) = FaultAt(t, span)
    BY <1>3, <2>1, <2>2 DEF IsFirstFault
  <2>4. ASSUME NEW other \in FaultySpans(t)
        PROVE  span[1] =< other[1]
    <3>1. ASSUME NEW x \in 1 .. (d - 1) + 1, NEW y \in 0 .. d - 1, other = <<x, y>>
          PROVE  span[1] =< other[1]
      BY <1>3, <2>1, <3>1 DEF IsFirstFault
    <3>2. ASSUME d < other[1], NEW x \in 1 .. (Len(t) - d) + 1, NEW y \in 0 .. Len(t) - d,
                 other = <<d + x, d + y>>
          PROVE  span[1] =< other[1]
      <4>1. span[1] = a /\ other[1] = d + x /\ a =< d + x
        BY <1>1, <2>2, <3>2
      <4> QED BY <4>1
    <3> QED BY <3>1, <3>2, SpanSides
  <2>5. IsFirstFault(t, span)
    BY <2>2, <2>3, <2>4 DEF IsFirstFault
  <2> QED BY <2>1, <2>3, <2>5, FirstFaultIs
<1> QED BY <1>3, <1>4

\* and those behind it when there are none before.
LEMMA RestIsBlamed ==
  ASSUME NEW t \in Text, NEW h \in Text, NEW r \in Text, NEW d \in Dots(t),
         IsHead(h, t, d), IsRest(r, t, d), FaultySpans(h) = {}, FaultySpans(r) # {}
  PROVE  FaultySpans(t) # {} /\ FirstFault(t) = FirstFault(r)
<1>1. Len(t) \in Nat /\ d \in 1 .. Len(t) /\ d \in Nat /\ Len(r) = Len(t) - d /\ IsPart(r, t, d)
  BY TextLength DEF Dots, IsRest
<1>2. IsSplit(r, t, d)
  <2>1. d + Len(r) + 1 = Len(t) + 1
    BY <1>1
  <2> QED BY <1>1, <2>1 DEF IsSplit
<1>3. ASSUME NEW a \in 1 .. (Len(t) - d) + 1, NEW b \in 0 .. Len(t) - d
      PROVE  /\ <<a, b>> \in FaultySpans(r) <=> <<d + a, d + b>> \in FaultySpans(t)
             /\ <<a, b>> \in FaultySpans(r) => FaultAt(r, <<a, b>>) = FaultAt(t, <<d + a, d + b>>)
  <2>1. a \in 1 .. Len(r) + 1 /\ b \in 0 .. Len(r)
    BY <1>1
  <2> QED BY <1>1, <1>2, <2>1, PartFault
<1>4. PICK span : IsFirstFault(r, span)
  BY FirstFaultExists
<1>5. PICK a \in 1 .. (Len(t) - d) + 1, b \in 0 .. Len(t) - d : span = <<a, b>>
  <2>1. span \in (1 .. Len(r) + 1) \X (0 .. Len(r))
    BY <1>4 DEF IsFirstFault, FaultySpans, LabelSpans
  <2> QED BY <1>1, <2>1
<1> DEFINE moved == <<d + a, d + b>>
<1>6. moved \in FaultySpans(t) /\ FaultAt(r, span) = FaultAt(t, moved) /\ moved[1] = d + a
  BY <1>3, <1>4, <1>5 DEF IsFirstFault
<1> HIDE DEF moved
<1>7. ASSUME NEW other \in FaultySpans(t)
      PROVE  moved[1] =< other[1]
  <2>1. ASSUME NEW x \in 1 .. (d - 1) + 1, NEW y \in 0 .. d - 1, other = <<x, y>>
        PROVE  FALSE
    BY <2>1, HeadIsBlamed
  <2>2. ASSUME NEW x \in 1 .. (Len(t) - d) + 1, NEW y \in 0 .. Len(t) - d,
               other = <<d + x, d + y>>
        PROVE  moved[1] =< other[1]
    <3>1. <<x, y>> \in FaultySpans(r)
      BY <1>3, <2>2
    <3>2. a =< x
      <4>1. span[1] = a /\ \A o \in FaultySpans(r) : span[1] =< o[1]
        BY <1>4, <1>5 DEF IsFirstFault
      <4>2. a =< <<x, y>>[1]
        BY <3>1, <4>1
      <4> QED BY <4>2
    <3>3. d + a =< d + x /\ other[1] = d + x
      BY <1>1, <2>2, <3>2
    <3> QED BY <1>6, <3>3
  <2> QED BY <2>1, <2>2, SpanSides
<1>8. IsFirstFault(t, moved)
  BY <1>6, <1>7 DEF IsFirstFault
<1> QED BY <1>4, <1>6, <1>8, FirstFaultIs DEF IsFirstFault

\* What RemapName::parse looks for faults in.
Canonical(input) == ToAsciiLowercase(StripRootDot(input))

\* A part of a text in lower case.
LEMMA LowercasePart ==
  ASSUME NEW t \in Text, NEW p \in Text, NEW k \in Nat, IsPart(p, t, k)
  PROVE  IsPart(ToAsciiLowercase(p), ToAsciiLowercase(t), k)
<1>1. /\ Len(t) \in Nat /\ Len(p) \in Nat /\ k + Len(p) =< Len(t)
      /\ \A i \in 1 .. Len(p) : p[i] = t[k + i]
      /\ DOMAIN p = 1 .. Len(p) /\ DOMAIN t = 1 .. Len(t)
  BY TextLength DEF IsPart
<1>2. /\ Len(ToAsciiLowercase(p)) = Len(p) /\ Len(ToAsciiLowercase(t)) = Len(t)
      /\ \A i \in DOMAIN p : ToAsciiLowercase(p)[i] = AsciiLower(p[i])
      /\ \A i \in DOMAIN t : ToAsciiLowercase(t)[i] = AsciiLower(t[i])
  BY LowercaseLength, LowercaseIsText
<1>3. \A i \in 1 .. Len(p) : k + i \in 1 .. Len(t)
  BY <1>1
<1> QED BY <1>1, <1>2, <1>3 DEF IsPart

\* A text without its root dot: all of it but perhaps the last byte.
LEMMA Bared ==
  ASSUME NEW t \in Text
  PROVE  LET bare == StripRootDot(t)
         IN  /\ bare \in Text /\ IsPart(bare, t, 0)
             /\ Len(bare) = IF EndsWith(t, Dot) THEN Len(t) - 1 ELSE Len(t)
<1>1. Len(t) \in Nat
  BY TextLength
<1>2. CASE EndsWith(t, Dot)
  <2> DEFINE bare == StripRootDot(t)
  <2>1. /\ bare \in Text /\ Len(bare) = Len(t) - 1
        /\ \A i \in 1 .. Len(t) - 1 : bare[i] = t[i]
    BY <1>2, StrippedText
  <2> HIDE DEF bare
  <2>2. 0 + Len(bare) =< Len(t) /\ \A i \in 1 .. Len(bare) : bare[i] = t[0 + i]
    BY <1>1, <2>1
  <2> QED BY <1>2, <2>1, <2>2 DEF IsPart, bare
<1>3. CASE ~ EndsWith(t, Dot)
  <2>1. StripRootDot(t) = t
    BY <1>3 DEF StripRootDot
  <2>2. 0 + Len(t) =< Len(t) /\ \A i \in 1 .. Len(t) : t[i] = t[0 + i]
    BY <1>1
  <2> QED BY <1>3, <2>1, <2>2 DEF IsPart
<1> QED BY <1>2, <1>3

\* An error about a label is the first fault of a text that has one.
LEMMA LabelErrorIs ==
  ASSUME NEW input, ~ RemapNameParse(input).ok, RemapNameParse(input).error \in LabelErrors
  PROVE  /\ FaultySpans(Canonical(input)) # {}
         /\ RemapNameParse(input) = Err(FirstFault(Canonical(input)))
<1> DEFINE faults == FaultySpans(Canonical(input))  told == Err(FirstFault(Canonical(input)))
<1>1. RemapNameParse(input) =
        IF input = <<>> \/ StripRootDot(input) = <<>>  THEN Err("Empty")
        ELSE IF StripRootDot(input) \in AddressLiterals THEN Err("AddressLiteral")
        ELSE IF Len(Canonical(input)) > MaxName        THEN Err("NameTooLong")
        ELSE IF faults # {}                            THEN told
        ELSE Ok(Canonical(input))
  BY DEF RemapNameParse, Canonical
<1>2. /\ Err("Empty").error \notin LabelErrors
      /\ Err("AddressLiteral").error \notin LabelErrors
      /\ Err("NameTooLong").error \notin LabelErrors
      /\ Ok(Canonical(input)).ok
  BY DEF Err, Ok, LabelErrors
<1> HIDE DEF faults, told
<1>3. faults # {} /\ RemapNameParse(input) = told
  BY <1>1, <1>2
<1> QED BY <1>3 DEF faults, told

\* What is accepted has no fault.
LEMMA AcceptedIsFaultless ==
  ASSUME NEW input, RemapNameParse(input).ok
  PROVE  FaultySpans(Canonical(input)) = {}
BY DEF RemapNameParse, Canonical, Err, Ok

\* A text with faults is refused for the first one, unless it is too long or an address.
LEMMA FaultIsTold ==
  ASSUME NEW input, input # <<>>, StripRootDot(input) # <<>>, FaultySpans(Canonical(input)) # {}
  PROVE  RemapNameParse(input) \in
           {Err(FirstFault(Canonical(input))), Err("NameTooLong"), Err("AddressLiteral")}
BY DEF RemapNameParse, Canonical

\* A dot that is a root dot, and no other stands before it: the text is what stands
\* before it.
LEMMA BeforeRootDot ==
  ASSUME NEW t \in Text, t # <<>>, NEW h \in Text, IsPart(h, t, 0), Len(h) = Len(t) - 1,
         EndsWith(t, Dot), ~ EndsWith(h, Dot)
  PROVE  RemapNameParse(t) = RemapNameParse(h)
<1>1. /\ StripRootDot(t) \in Text /\ Len(StripRootDot(t)) = Len(t) - 1
      /\ \A i \in 1 .. Len(t) - 1 : StripRootDot(t)[i] = t[i]
  BY StrippedText
<1>2. Len(t) \in Nat /\ \A i \in 1 .. Len(t) - 1 : h[i] = t[0 + i] /\ 0 + i = i
  BY TextLength DEF IsPart
<1>3. StripRootDot(t) = h
  BY <1>1, <1>2, SeqEqual DEF Text
<1>4. StripRootDot(h) = h
  BY DEF StripRootDot
<1> QED BY <1>3, <1>4 DEF RemapNameParse

\* The first fault on both sides of a dot, when the dot before is not another one.
LEMMA FirstFaultIsTold ==
  ASSUME NEW t \in Text, NEW h \in Text, NEW r \in Text, NEW d \in Dots(t),
         IsHead(h, t, d), IsRest(r, t, d), ~ EndsWith(h, Dot),
         NEW first, first = IF RemapNameParse(h).ok THEN RemapNameParse(r) ELSE RemapNameParse(h),
         ~ first.ok, first.error \in LabelErrors
  PROVE  RemapNameParse(t) \in {first, Err("NameTooLong"), Err("AddressLiteral")}
<1>1. /\ Len(t) \in Nat /\ d \in 1 .. Len(t) /\ t[d] = Dot /\ t # <<>>
      /\ Len(h) = d - 1 /\ IsPart(h, t, 0) /\ Len(r) = Len(t) - d /\ IsPart(r, t, d)
  BY TextLength DEF Dots, IsHead, IsRest
<1>2. CASE d = Len(t)
  <2>1. RemapNameParse(t) = RemapNameParse(h)
    BY <1>1, <1>2, BeforeRootDot DEF EndsWith
  <2>2. Len(r) = 0
    BY <1>1, <1>2
  <2>3. r = <<>>
    BY <2>2, TextLength
  <2>4. ~ RemapNameParse(r).ok /\ RemapNameParse(r).error \notin LabelErrors
    BY <2>3 DEF RemapNameParse, Err, LabelErrors
  <2> QED BY <2>1, <2>4
<1>3. CASE d # Len(t)
  <2> DEFINE bare == StripRootDot(t)  behind == StripRootDot(r)
             c == Canonical(t)  u == Canonical(h)  v == Canonical(r)
  <2>1. EndsWith(r, Dot) <=> EndsWith(t, Dot)
    <3>1. Len(r) \in 1 .. Len(r) /\ d + Len(r) = Len(t)
      BY <1>1, <1>3
    <3>2. r[Len(r)] = t[Len(t)] /\ r # <<>>
      BY <1>1, <3>1, TextLength DEF IsPart
    <3> QED BY <1>1, <3>2 DEF EndsWith
  <2>2. /\ bare \in Text /\ IsPart(bare, t, 0)
        /\ Len(bare) = IF EndsWith(t, Dot) THEN Len(t) - 1 ELSE Len(t)
    BY Bared
  <2>3. /\ behind \in Text /\ IsPart(behind, r, 0)
        /\ Len(behind) = IF EndsWith(r, Dot) THEN Len(r) - 1 ELSE Len(r)
    BY Bared
  <2>4. StripRootDot(h) = h
    BY DEF StripRootDot
  <2> HIDE DEF bare, behind
  <2>5. Len(bare) \in Nat /\ d \in 1 .. Len(bare) /\ Len(behind) = Len(bare) - d
    BY <1>1, <1>3, <2>1, <2>2, <2>3
  <2>6. d \in Dots(bare) /\ bare # <<>>
    <3>1. bare[d] = t[0 + d] /\ 0 + d = d
      BY <1>1, <2>2, <2>5 DEF IsPart
    <3> QED BY <1>1, <2>2, <2>5, <3>1, TextLength DEF Dots
  <2>7. IsPart(h, bare, 0)
    <3>1. \A i \in 1 .. Len(h) : h[i] = t[0 + i] /\ i \in 1 .. Len(bare)
      BY <1>1, <2>5 DEF IsPart
    <3>2. \A i \in 1 .. Len(h) : h[i] = bare[0 + i]
      BY <2>2, <3>1 DEF IsPart
    <3>3. 0 + Len(h) =< Len(bare)
      BY <1>1, <2>5
    <3> QED BY <3>2, <3>3 DEF IsPart
  <2>8. IsPart(behind, bare, d)
    <3>1. ASSUME NEW i \in 1 .. Len(behind)
          PROVE  behind[i] = bare[d + i]
      <4>1. /\ i \in 1 .. Len(r) /\ d + i \in 1 .. Len(bare)
            /\ 0 + i = i /\ 0 + (d + i) = d + i
        BY <1>1, <2>3, <2>5
      <4>2. behind[i] = r[0 + i] /\ bare[d + i] = t[0 + (d + i)] /\ r[i] = t[d + i]
        BY <1>1, <2>2, <2>3, <4>1 DEF IsPart
      <4> QED BY <4>1, <4>2
    <3>2. d + Len(behind) =< Len(bare)
      BY <1>1, <2>5
    <3> QED BY <3>1, <3>2 DEF IsPart
  <2>9. /\ c \in Text /\ u \in Text /\ v \in Text
        /\ Len(c) = Len(bare) /\ Len(u) = Len(h) /\ Len(v) = Len(behind)
        /\ IsPart(u, c, 0) /\ IsPart(v, c, d)
    <3>1. c = ToAsciiLowercase(bare) /\ u = ToAsciiLowercase(h) /\ v = ToAsciiLowercase(behind)
      BY <2>4 DEF Canonical, bare, behind
    <3>2. d \in Nat
      BY <1>1
    <3> HIDE DEF c, u, v
    <3> QED BY <2>2, <2>3, <2>7, <2>8, <3>1, <3>2, LowercaseIsText, LowercaseLength, LowercasePart
  <2>10. d \in Dots(c)
    <3>1. c = ToAsciiLowercase(bare)
      BY DEF Canonical, bare
    <3>2. d \in DOMAIN bare /\ bare[d] = Dot
      BY <2>2, <2>5, <2>6, TextLength DEF Dots
    <3>3. c[d] = Dot
      <4> HIDE DEF c
      <4> QED BY <2>2, <3>1, <3>2, LowercaseKeeps
    <3> HIDE DEF c
    <3> QED BY <2>5, <2>9, <3>3 DEF Dots
  <2> HIDE DEF c, u, v
  <2>11. IsHead(u, c, d) /\ IsRest(v, c, d)
    BY <1>1, <2>5, <2>9 DEF IsHead, IsRest
  <2>12. FaultySpans(c) # {} /\ first = Err(FirstFault(c))
    <3>1. CASE RemapNameParse(h).ok
      <4>1. FaultySpans(u) = {}
        BY <3>1, AcceptedIsFaultless DEF u
      <4>2. first = RemapNameParse(r)
        BY <3>1
      <4>3. FaultySpans(v) # {} /\ first = Err(FirstFault(v))
        BY <4>2, LabelErrorIs DEF v
      <4> QED BY <2>9, <2>10, <2>11, <4>1, <4>3, RestIsBlamed
    <3>2. CASE ~ RemapNameParse(h).ok
      <4>1. first = RemapNameParse(h)
        BY <3>2
      <4>2. FaultySpans(u) # {} /\ first = Err(FirstFault(u))
        BY <4>1, LabelErrorIs DEF u
      <4> QED BY <2>9, <2>10, <2>11, <4>2, HeadIsBlamed
    <3> QED BY <3>1, <3>2
  <2> QED BY <1>1, <2>6, <2>12, FaultIsTold DEF c, bare
<1> QED BY <1>2, <1>3

-----------------------------------------------------------------------------
\* Descendants.

\* A name of the grammar does not begin with a dot.
LEMMA NoDotInFront ==
  ASSUME NEW t \in Text, FaultySpans(t) = {}, NEW c \in Dots(t)
  PROVE  c # 1
<1> SUFFICES ASSUME c = 1 PROVE FALSE
  OBVIOUS
<1>1. Len(t) \in Nat /\ 1 \in Dots(t)
  BY TextLength
<1>2. 1 \in 1 .. Len(t) + 1 /\ 0 \in 0 .. Len(t) /\ 1 =< 0 + 1 /\ 1 - 1 = 0 /\ 0 + 1 = 1 /\ 1 .. 0 = {}
  BY <1>1
<1>3. <<1, 0>> \in LabelSpans(t)
  BY <1>1, <1>2, SpanIs
<1>4. SubSeq(t, 1, 0) = <<>>
  BY SubSeqEmpty
<1>5. <<>> \in SpanTexts(t)
  BY <1>3, <1>4, SpanTextIn
<1> QED BY <1>5, FaultlessBySpans, EmptyLabelIsFault

\* A letter of the grammar.
LEMMA LetterExists ==
  \E a \in LetDigHyp : a \in 97 .. 122
<1>1. PICK x \in Alphabets : x.patternBytes \cap (97 .. 122) # {}
  BY NameEntryAssumption
<1>2. PICK a \in 97 .. 122 : a \in x.patternBytes
  BY <1>1
<1>3. a \in Bytes
  BY <1>2 DEF Bytes
<1>4. AsciiLower(a) = a /\ IsAsciiAlphanumeric(a)
  BY <1>2 DEF AsciiLower, IsAsciiAlphanumeric
<1> QED BY <1>2, <1>3, <1>4 DEF LetDigHyp

\* A name of the grammar with a label of one letter in front of it is one, if it
\* is short enough.
LEMMA OneLetterInFront ==
  ASSUME NEW n \in Hostnames, Len(n) + 2 =< MaxName
  PROVE  \E w \in Hostnames : n \in AfterDots(w)
<1>1. PICK a \in LetDigHyp : a \in 97 .. 122
  BY LetterExists
<1>2. PICK l : l = <<a>>
  OBVIOUS
<1>3. a \in Byte /\ a # Dot
  BY LetDigHypBytes
<1>4. l \in Text /\ Len(l) = 1 /\ l[1] = a /\ l # <<>>
  BY <1>2, <1>3 DEF Text
<1>5. l \in Labels
  <2>1. l \in Texts(LetDigHyp, MaxLabel)
    <3>1. LetDigHyp \in SUBSET Byte
      BY LetDigHypBytes
    <3>2. MaxLabel \in Nat /\ 1 =< MaxLabel
      BY NamesAssumption
    <3>3. \A i \in 1 .. Len(l) : l[i] \in LetDigHyp
      BY <1>4
    <3> QED BY <1>4, <3>1, <3>2, <3>3, TextsAre
  <2>2. Hyphen # a
    BY <1>1 DEF Hyphen
  <2> QED BY <1>4, <2>1, <2>2 DEF Labels
<1>6. l \in Dotless /\ LabelFault(l) = "None"
  BY <1>5, LabelsOfGrammar
<1>7. /\ n \in Text /\ Len(n) \in Nat /\ FaultySpans(n) = {}
      /\ \A i \in 1 .. Len(n) : n[i] \in LetDigHyp \cup {Dot}
  BY HostnameIs, TextLength
<1>8. PICK w : w = (l \o <<Dot>>) \o n
  OBVIOUS
<1>9. /\ w \in Text /\ Len(w) = 1 + 1 + Len(n) /\ w[1] = a /\ w[1 + 1] = Dot
      /\ \A i \in 1 .. Len(n) : w[1 + 1 + i] = n[i]
  <2>1. 1 \in 1 .. 1
    OBVIOUS
  <2>2. /\ w \in Text /\ Len(w) = Len(l) + 1 + Len(n) /\ w[Len(l) + 1] = Dot
        /\ \A i \in 1 .. Len(l) : w[i] = l[i]
        /\ \A i \in 1 .. Len(n) : w[Len(l) + 1 + i] = n[i]
    BY <1>4, <1>7, <1>8, DotBetween
  <2> QED BY <1>4, <2>1, <2>2
<1>10. \A i \in 1 .. Len(w) : w[i] \in LetDigHyp \cup {Dot}
  <2> SUFFICES ASSUME NEW i \in 1 .. Len(w) PROVE w[i] \in LetDigHyp \cup {Dot}
    OBVIOUS
  <2>1. i = 1 \/ i = 1 + 1 \/ (i - 2 \in 1 .. Len(n) /\ 1 + 1 + (i - 2) = i)
    BY <1>7, <1>9
  <2> QED BY <1>7, <1>9, <2>1
<1>11. FaultySpans(w) = {}
  <2>1. SpanTexts(w) = {l} \cup SpanTexts(n)
    BY <1>6, <1>7, <1>8, SpansBehindLabel
  <2>2. \A u \in SpanTexts(n) : LabelFault(u) = "None"
    BY <1>7, FaultlessBySpans
  <2> QED BY <1>6, <1>9, <2>1, <2>2, FaultlessBySpans
<1>12. w \notin AddressLiterals
  <2>1. DOMAIN w = 1 .. Len(w) /\ 1 \in 1 .. Len(w)
    BY <1>7, <1>9, TextLength
  <2>2. \A i \in DOMAIN w : w[i] # Colon
    <3>1. ASSUME NEW c \in LetDigHyp
          PROVE  c # Colon
      <4>1. c \in Byte /\ (IsAsciiAlphanumeric(c) \/ c = Hyphen)
        BY LetDigHypBytes
      <4>2. \A b \in Byte : IsAsciiAlphanumeric(b) \/ b = 45 => b # 58
        BY DEF IsAsciiAlphanumeric, Byte
      <4> QED BY <4>1, <4>2 DEF Hyphen, Colon
    <3>2. Dot # Colon
      BY DEF Dot, Colon
    <3> QED BY <1>10, <2>1, <3>1, <3>2
  <2>3. w[1] \notin (48 .. 57) \cup {Dot}
    BY <1>1, <1>9 DEF Dot
  <2> QED BY <2>1, <2>2, <2>3, NamesAssumption
<1>13. w \in Hostnames
  <2>1. Len(w) =< MaxName
    BY <1>7, <1>9, NamesAssumption
  <2> QED BY <1>9, <1>10, <1>11, <1>12, <2>1, HostnameIs
<1>14. n \in AfterDots(w)
  <2>1. 2 \in Dots(w)
    <3>1. 2 \in 1 .. Len(w) /\ 1 + 1 = 2
      BY <1>7, <1>9
    <3> QED BY <1>9, <3>1 DEF Dots
  <2>2. /\ TailAfter(w, 2) \in Text /\ Len(TailAfter(w, 2)) = Len(w) - 2
        /\ \A i \in 1 .. (Len(w) - 2) : TailAfter(w, 2)[i] = w[2 + i]
    BY <1>9, <2>1, TailProperties
  <2>3. Len(w) - 2 = Len(n) /\ 1 + 1 = 2
    BY <1>7, <1>9
  <2>4. TailAfter(w, 2) = n
    <3>1. \A i \in 1 .. Len(n) : TailAfter(w, 2)[i] = n[i]
      BY <1>9, <2>2, <2>3
    <3> QED BY <1>7, <2>2, <2>3, <3>1, SeqEqual DEF Text
  <2> QED BY <2>1, <2>4 DEF AfterDots
<1> QED BY <1>13, <1>14

\* A wildcard over a name of the grammar has a descendant just when a label of
\* one byte still fits in front of it.
LEMMA DescendantIfRoom ==
  ASSUME NEW p \in Pattern, p.kind = "Wildcard", p.name \in Hostnames
  PROVE  (\E name \in Hostnames : Matches(p, name)) <=> Len(p.name) + 2 =< MaxName
<1>1. \A name \in Text : Matches(p, name) <=> \E cut \in Dots(name) : TailAfter(name, cut) = p.name
  BY MatchesIsOwns DEF Owns
<1>2. Hostnames \subseteq Text
  BY HostnameIs
<1>3. ASSUME Len(p.name) + 2 =< MaxName
      PROVE  \E name \in Hostnames : Matches(p, name)
  <2>1. PICK w \in Hostnames : p.name \in AfterDots(w)
    BY <1>3, OneLetterInFront
  <2> QED BY <1>1, <1>2, <2>1 DEF AfterDots
<1>4. ASSUME NEW name \in Hostnames, Matches(p, name)
      PROVE  Len(p.name) + 2 =< MaxName
  <2>1. name \in Text /\ Len(name) =< MaxName /\ FaultySpans(name) = {}
    BY HostnameIs
  <2>2. PICK cut \in Dots(name) : TailAfter(name, cut) = p.name
    BY <1>1, <1>4, <2>1
  <2>3. cut \in 1 .. Len(name) /\ Len(p.name) = Len(name) - cut /\ cut # 1
    BY <2>1, <2>2, TailProperties, NoDotInFront
  <2> QED BY <2>1, <2>3, TextLength, NamesAssumption
<1> QED BY <1>3, <1>4

-----------------------------------------------------------------------------
\* What was typed.

\* The bytes of what was typed are those of the alphabets,
LEMMA InputBytes ==
  ASSUME EntryInv
  PROVE  /\ pattern \in Text /\ typed \in Text
         /\ \A i \in 1 .. Len(pattern) : pattern[i] \in Bytes
<1>1. alphabet.patternBytes \subseteq Bytes
  BY DEF EntryInv, Bytes
<1>2. \A i \in 1 .. Len(pattern) : pattern[i] \in alphabet.patternBytes
  BY ElementOfSeq DEF EntryInv
<1> QED BY <1>1, <1>2, InputsAreTexts

\* and so are those of the name in it.
LEMMA StemBytes ==
  ASSUME NEW t \in Text, \A i \in 1 .. Len(t) : t[i] \in Bytes
  PROVE  Stem(t) \in Text /\ \A i \in 1 .. Len(Stem(t)) : Stem(t)[i] \in Bytes
<1>1. CASE IsPrefix(StarDot, t)
  <2>1. Len(t) >= 2 /\ Stem(t) = SubSeq(t, 3, Len(t)) /\ Len(t) \in Nat
    BY <1>1, WildcardPrefix, TextLength DEF Stem
  <2>2. 3 \in 1 .. Len(t) + 1 /\ Len(t) \in 0 .. Len(t) /\ 3 =< Len(t) + 1
    BY <2>1
  <2>3. /\ SubSeq(t, 3, Len(t)) \in Text /\ Len(SubSeq(t, 3, Len(t))) = Len(t) - 3 + 1
        /\ \A i \in 1 .. Len(t) - 3 + 1 : 3 + i - 1 \in 1 .. Len(t) /\ SubSeq(t, 3, Len(t))[i] = t[3 + i - 1]
    BY <2>2, SpanTextIs
  <2> QED BY <2>1, <2>3
<1>2. CASE ~ IsPrefix(StarDot, t)
  BY <1>2 DEF Stem
<1> QED BY <1>1, <1>2

-----------------------------------------------------------------------------
\* The two texts stay within their alphabet and their bounds, and every pattern is
\* answered: accepted, or refused for one of the reasons in NameError.
THEOREM TypeCorrect == Spec => []TypeOK
<1>1. EntryInv => TypeOK
  <2> SUFFICES ASSUME EntryInv
               PROVE  TypeOK
    OBVIOUS
  <2>1. Parsed \in [ok : {TRUE}, value : Pattern] \cup [ok : {FALSE}, error : NameErrors]
    BY InputsAreTexts, PatternAnswers DEF Parsed
  <2> QED BY <2>1 DEF TypeOK, EntryInv
<1> QED BY <1>1, EntryInvHolds, PTL

\* What Display writes for an accepted pattern, NamePattern::parse reads back as
\* the same pattern: the star, the dot and the canonical suffix survive.
THEOREM DisplayReadsBack == Spec => []DisplayIsReadBack
<1>1. EntryInv => DisplayIsReadBack
  BY InputsAreTexts, PatternIsReadBack DEF DisplayIsReadBack, Parsed
<1> QED BY <1>1, EntryInvHolds, PTL

\* NamePattern::parse answers two spellings of one pattern alike, with a pattern
\* or with an error: case and a root dot do not count, at the length limits too.
THEOREM SpellingsAreOne == Spec => []SpellingIsInvisible
<1>1. EntryInv => SpellingIsInvisible
  BY InputsAreTexts, PatternSpelling DEF SpellingIsInvisible, Parsed
<1> QED BY <1>1, EntryInvHolds, PTL

\* Of the patterns that match a name, no two have the same rank, so the order of
\* their texts never decides a resolution.
THEOREM RanksDiffer == Spec => []RankDecides
<1>1. EntryInv => RankDecides
  <2> SUFFICES ASSUME EntryInv, Parsed.ok, Name.ok, Matches(Parsed.value, Name.value),
                      NEW i \in DOMAIN Name.value,
                      Matches(Wildcard(SubSeq(Name.value, i, Len(Name.value))), Name.value),
                      ResolutionRank(Wildcard(SubSeq(Name.value, i, Len(Name.value))))
                        = ResolutionRank(Parsed.value)
               PROVE  Wildcard(SubSeq(Name.value, i, Len(Name.value))) = Parsed.value
    BY DEF RankDecides
  <2>1. Parsed.value \in Pattern /\ Name.value \in Text
    BY ParsedType
  <2>2. Wildcard(SubSeq(Name.value, i, Len(Name.value))) \in Pattern
    BY <2>1, TailIsPattern
  <2> QED BY <2>1, <2>2, OneOwnerPerRank
<1> QED BY <1>1, EntryInvHolds, PTL

\* The wildcards that match one name are nested, and wildcard_specificity says
\* which of them is the inner one.
THEOREM WildcardsNest == Spec => []SpecificityNests
<1>1. EntryInv => SpecificityNests
  <2> SUFFICES ASSUME EntryInv, Parsed.ok, Parsed.value.kind = "Wildcard", Name.ok,
                      Matches(Parsed.value, Name.value), NEW i \in DOMAIN Name.value,
                      Matches(Wildcard(SubSeq(Name.value, i, Len(Name.value))), Name.value)
               PROVE  WildcardSpecificity(Wildcard(SubSeq(Name.value, i, Len(Name.value))))
                        > WildcardSpecificity(Parsed.value)
                        <=> Matches(Parsed.value, Wildcard(SubSeq(Name.value, i, Len(Name.value))).name)
    BY DEF SpecificityNests
  <2>1. Parsed.value \in Pattern /\ Name.value \in Text
    BY ParsedType
  <2> DEFINE rival == Wildcard(SubSeq(Name.value, i, Len(Name.value)))
  <2>2. rival \in Pattern /\ rival.kind = "Wildcard"
    BY <2>1, TailIsPattern DEF Wildcard
  <2> HIDE DEF rival
  <2>3. Matches(rival, Name.value)
    BY DEF rival
  <2>4. WildcardSpecificity(rival) > WildcardSpecificity(Parsed.value)
          <=> Matches(Parsed.value, rival.name)
    BY <2>1, <2>2, <2>3, OwnersAreNested
  <2> QED BY <2>4 DEF rival
<1> QED BY <1>1, EntryInvHolds, PTL

\* RemapName::parse accepts the spellings of the names of the grammar, in any case and
\* with or without a root dot, and nothing else, and it answers with the name.
THEOREM NamesAreThoseOfTheGrammar == Spec => []AcceptsHostnames
<1>1. EntryInv => AcceptsHostnames
  <2> SUFFICES ASSUME EntryInv PROVE AcceptsHostnames
    OBVIOUS
  <2>1. pattern \in Text /\ \A i \in 1 .. Len(pattern) : pattern[i] \in Bytes
    BY InputBytes
  <2>2. /\ RemapNameParse(pattern).ok <=> ToAsciiLowercase(StripRootDot(pattern)) \in Hostnames
        /\ RemapNameParse(pattern).ok =>
             RemapNameParse(pattern).value = ToAsciiLowercase(StripRootDot(pattern))
    BY <2>1, ParseIsGrammar
  <2> QED BY <2>2 DEF AcceptsHostnames
<1> QED BY <1>1, EntryInvHolds, PTL

\* RemapName::parse answers for the first label that is faulty, whatever is typed and
\* wherever its dots are.
THEOREM FirstFaultsAreBlamed == Spec => []FirstFaultIsBlamed
<1>1. EntryInv => FirstFaultIsBlamed
  <2> SUFFICES ASSUME EntryInv PROVE FirstFaultIsBlamed
    OBVIOUS
  <2>1. pattern \in Text /\ Len(pattern) \in Nat
    BY InputsAreTexts, TextLength
  <2>2. ASSUME NEW t \in Text, NEW d \in Dots(t), d - 1 \notin Dots(t)
        PROVE  LET head  == RemapNameParse(SubSeq(t, 1, d - 1))
                   rest  == RemapNameParse(SubSeq(t, d + 1, Len(t)))
                   first == IF head.ok THEN rest ELSE head
               IN  ~ first.ok /\ first.error \in LabelErrors =>
                     RemapNameParse(t) \in {first, Err("NameTooLong"), Err("AddressLiteral")}
    <3> DEFINE h == SubSeq(t, 1, d - 1)  r == SubSeq(t, d + 1, Len(t))
               first == IF RemapNameParse(h).ok THEN RemapNameParse(r) ELSE RemapNameParse(h)
    <3>1. Len(t) \in Nat /\ d \in 1 .. Len(t)
      BY TextLength DEF Dots
    <3>2. h \in Text /\ IsHead(h, t, d)
      <4>1. 1 \in 1 .. Len(t) + 1 /\ d - 1 \in 0 .. Len(t) /\ 1 =< (d - 1) + 1 /\ (d - 1) - 1 + 1 = d - 1
        BY <3>1
      <4>2. /\ h \in Text /\ Len(h) = (d - 1) - 1 + 1
            /\ \A i \in 1 .. (d - 1) - 1 + 1 : h[i] = t[1 + i - 1]
        BY <4>1, SpanTextIs
      <4> HIDE DEF h
      <4>3. 0 + Len(h) =< Len(t) /\ \A i \in 1 .. Len(h) : h[i] = t[0 + i]
        <5>1. \A i \in 1 .. d - 1 : 1 + i - 1 = i /\ 0 + i = i
          BY <3>1
        <5> QED BY <3>1, <4>1, <4>2, <5>1
      <4> QED BY <4>1, <4>2, <4>3 DEF IsHead, IsPart
    <3>3. r \in Text /\ IsRest(r, t, d)
      <4>1. /\ d + 1 \in 1 .. Len(t) + 1 /\ Len(t) \in 0 .. Len(t) /\ d + 1 =< Len(t) + 1
            /\ Len(t) - (d + 1) + 1 = Len(t) - d
        BY <3>1
      <4>2. /\ r \in Text /\ Len(r) = Len(t) - (d + 1) + 1
            /\ \A i \in 1 .. Len(t) - (d + 1) + 1 : r[i] = t[(d + 1) + i - 1]
        BY <4>1, SpanTextIs
      <4> HIDE DEF r
      <4>3. d + Len(r) =< Len(t) /\ \A i \in 1 .. Len(r) : r[i] = t[d + i]
        <5>1. \A i \in 1 .. Len(t) - d : (d + 1) + i - 1 = d + i
          BY <3>1
        <5> QED BY <3>1, <4>1, <4>2, <5>1
      <4> QED BY <4>1, <4>2, <4>3 DEF IsRest, IsPart
    <3> HIDE DEF h, r
    <3>4. ~ EndsWith(h, Dot)
      <4> SUFFICES ASSUME EndsWith(h, Dot) PROVE FALSE
        OBVIOUS
      <4>1. Len(h) = d - 1 /\ Len(h) \in Nat \ {0} /\ h[Len(h)] = Dot
        BY <3>2, TextLength DEF EndsWith, IsHead
      <4>2. h[d - 1] = t[d - 1] /\ d - 1 \in 1 .. Len(t)
        <5>1. d - 1 \in 1 .. Len(h) /\ 0 + (d - 1) = d - 1
          BY <3>1, <4>1
        <5>2. h[d - 1] = t[0 + (d - 1)]
          BY <3>2, <5>1 DEF IsHead, IsPart
        <5> QED BY <3>1, <4>1, <5>1, <5>2
      <4> QED BY <2>2, <4>1, <4>2 DEF Dots
    <3>5. ~ first.ok /\ first.error \in LabelErrors =>
            RemapNameParse(t) \in {first, Err("NameTooLong"), Err("AddressLiteral")}
      <4> HIDE DEF first
      <4> QED BY <3>2, <3>3, <3>4, FirstFaultIsTold DEF first
    <3> QED BY <3>5 DEF h, r
  <2> QED BY <2>1, <2>2 DEF FirstFaultIsBlamed
<1> QED BY <1>1, EntryInvHolds, PTL

\* The textual test of NamePattern::matches agrees with the labels of the pattern and
\* of the name: all of them, or a proper end of them.
THEOREM MatchingIsByLabels == Spec => []MatchesByLabels
<1>1. EntryInv => MatchesByLabels
  BY ParsedType, MatchesIsByLabels DEF MatchesByLabels
<1> QED BY <1>1, EntryInvHolds, PTL

\* A wildcard that NamePattern::parse accepts matches some name, unless its suffix is
\* so long that no label fits in front of it.
THEOREM WildcardsHaveDescendants == Spec => []MatchesSomeNameIfRoom
<1>1. EntryInv => MatchesSomeNameIfRoom
  <2> SUFFICES ASSUME EntryInv, Parsed.ok, Parsed.value.kind = "Wildcard"
               PROVE  (\E name \in Hostnames : Matches(Parsed.value, name))
                        <=> Len(Parsed.value.name) + 2 =< MaxName
    BY DEF MatchesSomeNameIfRoom
  <2>1. pattern \in Text /\ \A i \in 1 .. Len(pattern) : pattern[i] \in Bytes
    BY InputBytes
  <2>2. Stem(pattern) \in Text /\ \A i \in 1 .. Len(Stem(pattern)) : Stem(pattern)[i] \in Bytes
    BY <2>1, StemBytes
  <2>3. /\ Parsed.value \in Pattern
        /\ RemapNameParse(Stem(pattern)).ok /\ RemapNameParse(Stem(pattern)).value = Parsed.value.name
    BY <2>1, AcceptedPattern DEF Parsed
  <2>4. Parsed.value.name \in Hostnames
    BY <2>2, <2>3, ParseIsGrammar
  <2> QED BY <2>3, <2>4, DescendantIfRoom
<1> QED BY <1>1, EntryInvHolds, PTL
=============================================================================
