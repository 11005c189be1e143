---------------------------- MODULE TargetProofs ----------------------------
(***************************************************************************)
(* Facts about targets, for inputs of every length, and about the command  *)
(* that validates them.                                                    *)
(*                                                                         *)
(* Numbers and their digits come first, then the cutting and joining of    *)
(* texts, URLs put together from their parts, authorities, what the        *)
(* parsers answer and what they read back, and the theorems of what is     *)
(* typed (module TargetEntry); then the grammar of URLs, and last what is  *)
(* submitted (module Validate).                                            *)
(***************************************************************************)
EXTENDS Validate, NameProofs

-----------------------------------------------------------------------------
\* Numbers and their digits.

\* The number of one more digit, and the recursion in Number.
WithDigit(n, d)  == IF n > MaxPort THEN n ELSE 10 * n + (d - 48)
IsCountOf(f, t)  == f = [k \in 0 .. Len(t) |-> IF k = 0 THEN 0 ELSE WithDigit(f[k - 1], t[k])]

\* One more digit keeps the number an integer.
LEMMA WithDigitIsInteger ==
  ASSUME NEW n \in Int, NEW d \in Byte
  PROVE  WithDigit(n, d) \in Int
BY TargetsAssumption DEF WithDigit, Byte

\* The recursion in Number has one solution at most.
LEMMA CountIsUnique ==
  ASSUME NEW t \in Text, NEW f, NEW g, IsCountOf(f, t), IsCountOf(g, t)
  PROVE  f = g
<1> DEFINE bad == {k \in 0 .. Len(t) : f[k] # g[k]}
<1>0. Len(t) \in Nat
  BY TextLength
<1>1. \A k \in 0 .. Len(t) :
        /\ f[k] = IF k = 0 THEN 0 ELSE WithDigit(f[k - 1], t[k])
        /\ g[k] = IF k = 0 THEN 0 ELSE WithDigit(g[k - 1], t[k])
  BY DEF IsCountOf
<1>2. bad = {}
  <2> SUFFICES ASSUME bad # {} PROVE FALSE
    OBVIOUS
  <2>1. bad \in SUBSET Nat
    BY <1>0
  <2>2. PICK k \in bad : \A j \in bad : k =< j
    BY <2>1, LeastNumber
  <2>3. k \in 0 .. Len(t) /\ f[k] # g[k] /\ k # 0
    BY <1>1, <2>2
  <2>4. k - 1 \in 0 .. Len(t) /\ k - 1 \notin bad
    BY <1>0, <2>2, <2>3
  <2>5. f[k - 1] = g[k - 1]
    BY <2>4
  <2> QED BY <1>1, <2>3, <2>5
<1>3. f = [k \in 0 .. Len(t) |-> f[k]] /\ g = [k \in 0 .. Len(t) |-> g[k]]
  BY DEF IsCountOf
<1>4. \A k \in 0 .. Len(t) : f[k] = g[k]
  BY <1>2
<1> QED BY <1>3, <1>4

\* It has one: there is no least prefix without.
LEMMA CountExists ==
  ASSUME NEW t \in Text
  PROVE  \E f \in [0 .. Len(t) -> Int] : IsCountOf(f, t)
<1> DEFINE Upto(f, n) == \A k \in 0 .. n : f[k] = IF k = 0 THEN 0 ELSE WithDigit(f[k - 1], t[k])
           bad == {n \in 0 .. Len(t) : ~ \E f \in [0 .. n -> Int] : Upto(f, n)}
<1>0. Len(t) \in Nat /\ \A i \in 1 .. Len(t) : t[i] \in Byte
  BY TextLength
<1>1. bad = {}
  <2> SUFFICES ASSUME bad # {} PROVE FALSE
    OBVIOUS
  <2>1. bad \in SUBSET Nat
    BY <1>0
  <2>2. PICK n \in bad : \A j \in bad : n =< j
    BY <2>1, LeastNumber
  <2>3. n \in 0 .. Len(t) /\ n \in Nat
    BY <1>0, <2>2
  <2>4. CASE n = 0
    <3> DEFINE zero == [k \in 0 .. 0 |-> 0]
    <3>1. zero \in [0 .. n -> Int] /\ Upto(zero, n)
      BY <2>4
    <3> QED BY <2>2, <3>1
  <2>5. CASE n # 0
    <3>1. n - 1 \in 0 .. Len(t) /\ n - 1 \notin bad /\ n \in 1 .. Len(t)
      <4>1. n - 1 \in 0 .. Len(t) /\ n \in 1 .. Len(t) /\ ~ n =< n - 1
        BY <1>0, <2>3, <2>5
      <4> HIDE DEF bad
      <4> QED BY <2>2, <4>1
    <3>2. PICK f \in [0 .. (n - 1) -> Int] : Upto(f, n - 1)
      BY <3>1
    <3> DEFINE g == [k \in 0 .. n |-> IF k = n THEN WithDigit(f[n - 1], t[n]) ELSE f[k]]
    <3>3. WithDigit(f[n - 1], t[n]) \in Int
      <4>1. f[n - 1] \in Int
        BY <2>3, <2>5, <3>2
      <4> QED BY <1>0, <3>1, <4>1, WithDigitIsInteger
    <3>4. g \in [0 .. n -> Int]
      BY <2>3, <3>2, <3>3
    <3>5. Upto(g, n)
      <4> SUFFICES ASSUME NEW k \in 0 .. n
                   PROVE  g[k] = IF k = 0 THEN 0 ELSE WithDigit(g[k - 1], t[k])
        OBVIOUS
      <4>1. CASE k = n
        <5>1. g[n] = WithDigit(f[n - 1], t[n]) /\ g[n - 1] = f[n - 1]
          BY <2>3, <2>5
        <5> QED BY <2>5, <4>1, <5>1
      <4>2. CASE k # n
        <5>1. k \in 0 .. (n - 1) /\ g[k] = f[k]
          BY <2>3, <4>2
        <5>2. k # 0 => g[k - 1] = f[k - 1]
          BY <2>3, <4>2
        <5> QED BY <3>2, <5>1, <5>2
      <4> QED BY <4>1, <4>2
    <3> HIDE DEF g, Upto
    <3> QED BY <2>2, <3>4, <3>5
  <2> QED BY <2>4, <2>5
<1>2. PICK f \in [0 .. Len(t) -> Int] : Upto(f, Len(t))
  BY <1>0, <1>1
<1>3. IsCountOf(f, t)
  BY <1>2 DEF IsCountOf
<1> QED BY <1>3

\* So what solves the recursion is what Number counts with.
LEMMA NumberIs ==
  ASSUME NEW t \in Text, NEW f, IsCountOf(f, t)
  PROVE  Number(t) = f[Len(t)]
<1> DEFINE first == CHOOSE g : IsCountOf(g, t)
<1>1. IsCountOf(first, t)
  OBVIOUS
<1>2. first = f
  BY <1>1, CountIsUnique
<1>3. Number(t) = first[Len(t)]
  BY DEF Number, IsCountOf, WithDigit
<1> QED BY <1>2, <1>3

\* No digits are the number zero.
LEMMA NumberOfEmpty == Number(<<>>) = 0
<1>1. <<>> \in Text /\ Len(<<>>) = 0
  BY DEF Text
<1>2. IsCountOf([k \in 0 .. 0 |-> 0], <<>>)
  BY <1>1 DEF IsCountOf
<1> QED BY <1>1, <1>2, NumberIs

\* The recursion in Number has a solution: a digit behind a text.
LEMMA NumberOfLonger ==
  ASSUME NEW t \in Text, NEW d \in Byte
  PROVE  /\ Number(t) \in Int
         /\ Number(Append(t, d)) = WithDigit(Number(t), d)
<1>1. PICK f \in [0 .. Len(t) -> Int] : IsCountOf(f, t)
  BY CountExists
<1> DEFINE s == Append(t, d)  n == Len(t)
           g == [k \in 0 .. n + 1 |-> IF k = n + 1 THEN WithDigit(f[n], d) ELSE f[k]]
<1>2. n \in Nat /\ s \in Text /\ Len(s) = n + 1 /\ s[n + 1] = d /\ \A i \in 1 .. n : s[i] = t[i]
  BY TextLength, AppendProperties DEF Text
<1>3. Number(t) = f[n] /\ f[n] \in Int
  BY <1>1, <1>2, NumberIs
<1>4. IsCountOf(g, s)
  <2>1. \A k \in 0 .. n : f[k] = IF k = 0 THEN 0 ELSE WithDigit(f[k - 1], t[k])
    BY <1>1 DEF IsCountOf
  <2>2. ASSUME NEW k \in 0 .. n + 1
        PROVE  g[k] = IF k = 0 THEN 0 ELSE WithDigit(g[k - 1], s[k])
    <3>1. CASE k = n + 1
      <4>1. g[n + 1] = WithDigit(f[n], d) /\ g[n] = f[n]
        BY <1>2
      <4>2. n + 1 # 0 /\ (n + 1) - 1 = n
        BY <1>2
      <4> HIDE DEF g, s, n
      <4> QED BY <1>2, <3>1, <4>1, <4>2
    <3>2. CASE k # n + 1
      <4>1. k \in 0 .. n /\ g[k] = f[k] /\ (k # 0 => g[k - 1] = f[k - 1] /\ s[k] = t[k])
        BY <1>2, <3>2
      <4> HIDE DEF g, s, n
      <4> QED BY <2>1, <4>1
    <3> QED BY <3>1, <3>2
  <2>3. g = [k \in 0 .. n + 1 |-> g[k]]
    OBVIOUS
  <2> HIDE DEF g, s, n
  <2> QED BY <1>2, <2>2, <2>3 DEF IsCountOf
<1>5. Number(s) = g[n + 1]
  <2> HIDE DEF g, s
  <2> QED BY <1>2, <1>4, NumberIs
<1>6. g[n + 1] = WithDigit(f[n], d)
  BY <1>2
<1> QED BY <1>3, <1>5, <1>6

\* A zero in front of a text does not change its number.
LEMMA NumberAfterZero ==
  ASSUME NEW t \in Text
  PROVE  Number(<<48>> \o t) = Number(t)
<1>1. PICK f \in [0 .. Len(t) -> Int] : IsCountOf(f, t)
  BY CountExists
<1> DEFINE s == <<48>> \o t  n == Len(t)
           g == [k \in 0 .. n + 1 |-> IF k = 0 THEN 0 ELSE f[k - 1]]
<1>2. <<48>> \in Text /\ Len(<<48>>) = 1 /\ <<48>>[1] = 48
  BY DEF Text, Byte
<1>3. n \in Nat /\ s \in Text /\ Len(s) = n + 1 /\ s[1] = 48 /\ \A i \in 1 .. n : s[1 + i] = t[i]
  BY <1>2, TextLength, JoinedTexts
<1>4. Number(t) = f[n]
  BY <1>1, NumberIs
<1>5. IsCountOf(g, s)
  <2>1. \A k \in 0 .. n : f[k] = IF k = 0 THEN 0 ELSE WithDigit(f[k - 1], t[k])
    BY <1>1 DEF IsCountOf
  <2>2. ASSUME NEW k \in 0 .. n + 1
        PROVE  g[k] = IF k = 0 THEN 0 ELSE WithDigit(g[k - 1], s[k])
    <3>1. CASE k = 0
      BY <3>1
    <3>2. CASE k = 1
      <4>1. g[1] = f[0] /\ g[0] = 0 /\ f[0] = 0
        BY <1>3, <2>1
      <4>2. WithDigit(0, 48) = 0
        BY TargetsAssumption DEF WithDigit
      <4> HIDE DEF g, s
      <4> QED BY <1>3, <3>2, <4>1, <4>2
    <3>3. CASE k \notin {0, 1}
      <4>1. /\ k - 1 \in 1 .. n /\ k - 1 # 0 /\ k # 0
            /\ g[k] = f[k - 1] /\ g[k - 1] = f[(k - 1) - 1] /\ 1 + (k - 1) = k
        BY <1>3, <3>3
      <4>2. s[k] = t[k - 1]
        BY <1>3, <4>1
      <4>3. k - 1 \in 0 .. n
        BY <1>3, <4>1
      <4> HIDE DEF g, s, n
      <4> QED BY <2>1, <4>1, <4>2, <4>3
    <3> QED BY <3>1, <3>2, <3>3
  <2>3. g = [k \in 0 .. n + 1 |-> g[k]]
    OBVIOUS
  <2> HIDE DEF g, s, n
  <2> QED BY <1>3, <2>2, <2>3 DEF IsCountOf
<1>6. Number(s) = g[n + 1]
  <2> HIDE DEF g, s
  <2> QED BY <1>3, <1>5, NumberIs
<1>7. g[n + 1] = f[n]
  BY <1>3
<1> QED BY <1>4, <1>6, <1>7

\* The recursion in Decimal has a solution, and its digits are those of the number.
IsDecimalOf(f, m) ==
  f = [n \in 0 .. m |-> IF n < 10 THEN <<48 + n>> ELSE Append(f[n \div 10], 48 + (n % 10))]

\* Division by ten leaves the last digit, and a smaller number before it.
LEMMA LastDigit ==
  ASSUME NEW n \in Nat
  PROVE  /\ n \div 10 \in Nat /\ n % 10 \in 0 .. 9
         /\ n = 10 * (n \div 10) + (n % 10)
         /\ n >= 10 => n \div 10 >= 1 /\ n \div 10 < n
OBVIOUS

\* Two solutions of the recursion in Decimal agree where both are defined.
LEMMA DecimalIsUnique ==
  ASSUME NEW m \in Nat, NEW l \in 0 .. m, NEW f, NEW g, IsDecimalOf(f, l), IsDecimalOf(g, m),
         NEW n \in 0 .. l
  PROVE  f[n] = g[n]
<1> DEFINE bad == {k \in 0 .. l : f[k] # g[k]}
<1>1. ASSUME NEW k \in 0 .. l
      PROVE  /\ f[k] = IF k < 10 THEN <<48 + k>> ELSE Append(f[k \div 10], 48 + (k % 10))
             /\ g[k] = IF k < 10 THEN <<48 + k>> ELSE Append(g[k \div 10], 48 + (k % 10))
  <2>1. k \in 0 .. m
    OBVIOUS
  <2>2. f[k] = IF k < 10 THEN <<48 + k>> ELSE Append(f[k \div 10], 48 + (k % 10))
    BY DEF IsDecimalOf
  <2>3. g[k] = IF k < 10 THEN <<48 + k>> ELSE Append(g[k \div 10], 48 + (k % 10))
    BY <2>1 DEF IsDecimalOf
  <2> QED BY <2>2, <2>3
<1>2. bad = {}
  <2> SUFFICES ASSUME bad # {} PROVE FALSE
    OBVIOUS
  <2>1. bad \in SUBSET Nat
    OBVIOUS
  <2>2. PICK k \in bad : \A j \in bad : k =< j
    BY <2>1, LeastNumber
  <2>3. k \in 0 .. l /\ k \in Nat /\ f[k] # g[k]
    BY <2>2
  <2>4. k >= 10
    <3>1. ~ k < 10
      <4> SUFFICES ASSUME k < 10 PROVE FALSE
        OBVIOUS
      <4>1. f[k] = <<48 + k>> /\ g[k] = <<48 + k>>
        BY <1>1, <2>3
      <4> QED BY <2>3, <4>1
    <3> QED BY <2>3, <3>1
  <2>5. k \div 10 \in 0 .. l /\ ~ k =< k \div 10
    <3>1. k \div 10 \in Nat /\ k \div 10 < k
      BY <2>3, <2>4, LastDigit
    <3> DEFINE q == k \div 10
    <3> HIDE DEF q
    <3>2. q \in 0 .. l /\ ~ k =< q
      BY <2>3, <3>1 DEF q
    <3> QED BY <3>2 DEF q
  <2>6. k \div 10 \notin bad
    <3> HIDE DEF bad
    <3> QED BY <2>2, <2>5
  <2>7. f[k \div 10] = g[k \div 10]
    BY <2>5, <2>6
  <2>8. ~ k < 10
    BY <2>3, <2>4
  <2> QED BY <1>1, <2>3, <2>7, <2>8
<1> QED BY <1>2

\* The recursion in Decimal has a solution: there is no least number without.
LEMMA DecimalExists ==
  ASSUME NEW m \in Nat
  PROVE  \E f \in [0 .. m -> Text] : IsDecimalOf(f, m)
<1> DEFINE Shape(f, n) == IF n < 10 THEN <<48 + n>> ELSE Append(f[n \div 10], 48 + (n % 10))
           Upto(f, n)  == \A k \in 0 .. n : f[k] = Shape(f, k)
           bad         == {n \in 0 .. m : ~ \E f \in [0 .. n -> Text] : Upto(f, n)}
<1>0. ASSUME NEW n \in Nat, NEW f, n >= 10 => f[n \div 10] \in Text
      PROVE  Shape(f, n) \in Text
  <2>1. CASE n < 10
    <3>1. 48 + n \in Byte
      BY <2>1 DEF Byte
    <3> QED BY <2>1, <3>1 DEF Text
  <2>2. CASE ~ n < 10
    <3>1. 48 + (n % 10) \in Byte
      BY LastDigit DEF Byte
    <3>2. f[n \div 10] \in Seq(Byte)
      BY <1>0, <2>2 DEF Text
    <3> QED BY <2>2, <3>1, <3>2, AppendProperties DEF Text
  <2> QED BY <2>1, <2>2
<1>1. bad = {}
  <2> SUFFICES ASSUME bad # {} PROVE FALSE
    OBVIOUS
  <2>1. bad \in SUBSET Nat
    OBVIOUS
  <2>2. PICK n \in bad : \A j \in bad : n =< j
    BY <2>1, LeastNumber
  <2>3. n \in 0 .. m /\ n \in Nat /\ ~ \E f \in [0 .. n -> Text] : Upto(f, n)
    BY <2>2
  <2>4. CASE n = 0
    <3> DEFINE zero == [k \in 0 .. 0 |-> <<48>>]
    <3>1. <<48>> \in Text
      BY DEF Text, Byte
    <3>2. zero \in [0 .. n -> Text]
      BY <2>4, <3>1
    <3>3. \A k \in 0 .. n : k = 0 /\ zero[k] = <<48>>
      BY <2>4
    <3>4. Shape(zero, 0) = <<48>>
      OBVIOUS
    <3> HIDE DEF zero, Shape
    <3>5. Upto(zero, n)
      BY <3>3, <3>4
    <3> HIDE DEF Upto
    <3> QED BY <2>3, <3>2, <3>5
  <2>5. CASE n # 0
    <3>1. n - 1 \in 0 .. m /\ n - 1 \notin bad
      <4>1. n - 1 \in 0 .. m /\ ~ n =< n - 1
        BY <2>3, <2>5
      <4> HIDE DEF bad
      <4> QED BY <2>2, <4>1
    <3>2. PICK f \in [0 .. (n - 1) -> Text] : Upto(f, n - 1)
      BY <3>1
    <3> DEFINE g == [k \in 0 .. n |-> IF k = n THEN Shape(f, n) ELSE f[k]]
    <3>3. n >= 10 => n \div 10 \in 0 .. (n - 1)
      <4>1. n >= 10 => n \div 10 \in Nat /\ n \div 10 < n
        BY <2>3, LastDigit
      <4> DEFINE q == n \div 10
      <4> HIDE DEF q
      <4>2. n >= 10 => q \in 0 .. (n - 1)
        BY <2>3, <4>1 DEF q
      <4> QED BY <4>2 DEF q
    <3>4. Shape(f, n) \in Text
      <4>1. n >= 10 => f[n \div 10] \in Text
        BY <3>2, <3>3
      <4> HIDE DEF Shape
      <4> QED BY <1>0, <2>3, <4>1
    <3>5. g \in [0 .. n -> Text]
      <4> HIDE DEF Shape
      <4> QED BY <2>3, <3>2, <3>4
    <3>6. \A k \in 0 .. (n - 1) : k \in 0 .. n /\ k # n /\ g[k] = f[k]
      <4> HIDE DEF Shape
      <4> QED BY <2>3
    <3>7. g[n] = Shape(f, n)
      <4> HIDE DEF Shape
      <4> QED BY <2>3
    <3>8. ASSUME NEW k \in 0 .. n PROVE g[k] = Shape(g, k)
      <4>1. Shape(g, k) = Shape(f, k)
        <5>1. k >= 10 => k \div 10 \in 0 .. (n - 1)
          <6>1. k \in Nat /\ (k >= 10 => k \div 10 \in Nat /\ k \div 10 < k)
            BY <2>3, LastDigit
          <6> DEFINE q == k \div 10
          <6> HIDE DEF q
          <6>2. k >= 10 => q \in 0 .. (n - 1)
            BY <2>3, <6>1 DEF q
          <6> QED BY <6>2 DEF q
        <5>2. k >= 10 => g[k \div 10] = f[k \div 10]
          <6> HIDE DEF g
          <6> QED BY <3>6, <5>1
        <5>3. k < 10 \/ k >= 10
          BY <2>3
        <5> HIDE DEF g
        <5> QED BY <5>2, <5>3
      <4>2. CASE k = n
        <5> HIDE DEF g, Shape
        <5> QED BY <3>7, <4>1, <4>2
      <4>3. CASE k # n
        <5>1. k \in 0 .. (n - 1)
          BY <2>3, <4>3
        <5>2. f[k] = Shape(f, k)
          <6> HIDE DEF Shape
          <6> QED BY <3>2, <5>1
        <5> HIDE DEF g, Shape
        <5> QED BY <3>6, <4>1, <5>1, <5>2
      <4> QED BY <4>2, <4>3
    <3>9. Upto(g, n)
      <4> HIDE DEF g, Shape
      <4> QED BY <3>8
    <3> HIDE DEF g, Upto
    <3> QED BY <2>3, <3>5, <3>9
  <2> QED BY <2>4, <2>5
<1>2. PICK f \in [0 .. m -> Text] : Upto(f, m)
  <2>1. m \in 0 .. m /\ m \notin bad
    BY <1>1
  <2> QED BY <2>1
<1>3. IsDecimalOf(f, m)
  BY <1>2 DEF IsDecimalOf
<1> QED BY <1>3

\* So a number is printed as its front digits and its last one.
LEMMA DecimalSplits ==
  ASSUME NEW m \in Nat
  PROVE  /\ Decimal(m) \in Text
         /\ Decimal(m) = IF m < 10 THEN <<48 + m>>
                         ELSE Append(Decimal(m \div 10), 48 + (m % 10))
<1> DEFINE Chosen(n) == CHOOSE g : IsDecimalOf(g, n)
<1>1. \A n \in Nat : IsDecimalOf(Chosen(n), n)
  BY DecimalExists
<1>2. \A n \in Nat : Decimal(n) = Chosen(n)[n]
  BY DEF Decimal, IsDecimalOf
<1> HIDE DEF Chosen
<1>3. Decimal(m) \in Text
  <2>1. PICK f \in [0 .. m -> Text] : IsDecimalOf(f, m)
    BY DecimalExists
  <2>2. m \in 0 .. m
    OBVIOUS
  <2>3. Chosen(m)[m] = f[m]
    BY <1>1, <2>1, <2>2, DecimalIsUnique
  <2> QED BY <1>2, <2>1, <2>2, <2>3
<1>4. Chosen(m)[m] = IF m < 10 THEN <<48 + m>> ELSE Append(Chosen(m)[m \div 10], 48 + (m % 10))
  <2>1. m \in 0 .. m /\ IsDecimalOf(Chosen(m), m)
    BY <1>1
  <2> QED BY <2>1 DEF IsDecimalOf
<1>5. ~ m < 10 => Chosen(m)[m \div 10] = Decimal(m \div 10)
  <2> SUFFICES ASSUME ~ m < 10 PROVE Chosen(m)[m \div 10] = Decimal(m \div 10)
    OBVIOUS
  <2> DEFINE q == m \div 10
  <2>1. q \in Nat /\ q < m
    BY LastDigit
  <2> HIDE DEF q
  <2>2. q \in 0 .. m /\ q \in 0 .. q
    BY <2>1
  <2>3. Chosen(q)[q] = Chosen(m)[q]
    BY <1>1, <2>1, <2>2, DecimalIsUnique
  <2>4. Chosen(m)[q] = Decimal(q)
    BY <1>2, <2>1, <2>3
  <2> QED BY <2>4 DEF q
<1> QED BY <1>2, <1>3, <1>4, <1>5

\* The digits of a number are digits, and a port reads them as that number.
LEMMA DecimalIsRead ==
  ASSUME NEW m \in 0 .. MaxPort
  PROVE  /\ Decimal(m) \in Text /\ IsDigits(Decimal(m)) /\ Number(Decimal(m)) = m
<1> DEFINE Good(n) == IsDigits(Decimal(n)) /\ Number(Decimal(n)) = n
           bad == {n \in 0 .. MaxPort : ~ Good(n)}
<1>0. MaxPort \in Nat
  BY TargetsAssumption
<1>1. bad = {}
  <2> SUFFICES ASSUME bad # {} PROVE FALSE
    OBVIOUS
  <2>1. bad \in SUBSET Nat
    BY <1>0
  <2>2. PICK n \in bad : \A j \in bad : n =< j
    BY <2>1, LeastNumber
  <2>3. n \in 0 .. MaxPort /\ n \in Nat /\ ~ Good(n)
    BY <1>0, <2>2
  <2>4. CASE n < 10
    <3>0. Decimal(n) = <<48 + n>>
      BY <2>3, <2>4, DecimalSplits
    <3>1. Decimal(n) = <<48 + n>> /\ 48 + n \in Byte /\ 48 + n \in 48 .. 57
      BY <2>3, <2>4, <3>0 DEF Byte
    <3>2. IsDigits(Decimal(n))
      BY <3>1 DEF IsDigits
    <3>3. Decimal(n) = Append(<<>>, 48 + n) /\ <<>> \in Text
      BY <3>1 DEF Text
    <3>4. Number(Decimal(n)) = WithDigit(0, 48 + n)
      BY <3>1, <3>3, NumberOfLonger, NumberOfEmpty
    <3>5. WithDigit(0, 48 + n) = n
      BY <1>0, <2>3 DEF WithDigit
    <3> QED BY <2>3, <3>2, <3>4, <3>5
  <2>5. CASE ~ n < 10
    <3> DEFINE q == n \div 10  r == n % 10  t == Decimal(q)
    <3>1. /\ q \in Nat /\ r \in 0 .. 9 /\ n = 10 * q + r /\ q < n
          /\ Decimal(n) = Append(t, 48 + r)
      BY <2>3, <2>5, LastDigit, DecimalSplits
    <3> HIDE DEF q, r
    <3>2. q \in 0 .. MaxPort /\ ~ n =< q
      BY <1>0, <2>3, <3>1
    <3>3. Good(q)
      <4>1. q \notin bad
        <5> HIDE DEF bad
        <5> QED BY <2>2, <3>2
      <4> HIDE DEF Good
      <4> QED BY <3>2, <4>1
    <3>4. t \in Text /\ t \in Seq(Byte) /\ 48 + r \in Byte /\ 48 + r \in 48 .. 57
      BY <3>1, DecimalSplits DEF Byte, Text
    <3>5. IsDigits(Decimal(n))
      <4> HIDE DEF t
      <4>1. /\ DOMAIN t = 1 .. Len(t) /\ Len(t) \in Nat /\ DOMAIN Append(t, 48 + r) = 1 .. Len(t) + 1
            /\ Append(t, 48 + r) # <<>> /\ Append(t, 48 + r)[Len(t) + 1] = 48 + r
            /\ \A i \in 1 .. Len(t) : Append(t, 48 + r)[i] = t[i]
        <5>1. /\ Append(t, 48 + r) \in Seq(Byte) /\ Len(Append(t, 48 + r)) = Len(t) + 1
              /\ \A i \in 1 .. Len(t) : Append(t, 48 + r)[i] = t[i]
              /\ Append(t, 48 + r)[Len(t) + 1] = 48 + r
          BY <3>4, AppendProperties
        <5> QED BY <3>4, <5>1, TextLength DEF Text
      <4>2. \A i \in 1 .. Len(t) : t[i] \in 48 .. 57
        BY <3>3, <4>1 DEF IsDigits, t
      <4>3. \A i \in 1 .. Len(t) + 1 : i = Len(t) + 1 \/ i \in 1 .. Len(t)
        BY <4>1
      <4> QED BY <3>1, <3>4, <4>1, <4>2, <4>3 DEF IsDigits
    <3>6. Number(Decimal(n)) = WithDigit(q, 48 + r)
      BY <3>1, <3>3, <3>4, NumberOfLonger
    <3>7. WithDigit(q, 48 + r) = n
      BY <1>0, <3>1, <3>2 DEF WithDigit
    <3> QED BY <2>3, <3>5, <3>6, <3>7
  <2> QED BY <2>4, <2>5
<1>2. m \in Nat
  BY <1>0
<1> QED BY <1>1, <1>2, DecimalSplits

\* What ParsePort answers.
LEMMA PortAnswers ==
  ASSUME NEW raw
  PROVE  \/ /\ ParsePort(raw) = Err(<<"InvalidPort">>) /\ ~ ParsePort(raw).ok
            /\ ParsePort(raw).error = <<"InvalidPort">>
         \/ /\ ParsePort(raw) = Ok(ParsePort(raw).value) /\ ParsePort(raw).ok
            /\ ParsePort(raw).value \in 1 .. MaxPort
<1>1. Err(<<"InvalidPort">>).error = <<"InvalidPort">> /\ Err(<<"InvalidPort">>).ok = FALSE
  BY DEF Err
<1>2. \A n : Ok(n).value = n /\ Ok(n).ok = TRUE
  BY DEF Ok
<1> DEFINE digits == IF BeginsWith(raw, Plus) THEN Tail(raw) ELSE raw
<1>3. \/ ParsePort(raw) = Err(<<"InvalidPort">>)
      \/ ParsePort(raw) = Ok(Number(digits)) /\ Number(digits) \in 1 .. MaxPort
  BY DEF ParsePort
<1> HIDE DEF digits
<1> QED BY <1>1, <1>2, <1>3

\* What fmt prints for a port is read as that port, also with a zero before it.
LEMMA PortIsRead ==
  ASSUME NEW port \in 1 .. MaxPort
  PROVE  /\ Decimal(port) \in Text /\ <<48>> \o Decimal(port) \in Text
         /\ ParsePort(Decimal(port)) = Ok(port)
         /\ ParsePort(<<48>> \o Decimal(port)) = Ok(port)
         /\ IsDigits(Decimal(port)) /\ IsDigits(<<48>> \o Decimal(port))
<1> DEFINE t == Decimal(port)  s == <<48>> \o t
<1>1. t \in Text /\ IsDigits(t) /\ Number(t) = port
  BY DecimalIsRead, TargetsAssumption
<1> HIDE DEF t
<1>2. <<48>> \in Text /\ Len(<<48>>) = 1 /\ <<48>>[1] = 48
  BY DEF Text, Byte
<1>3. /\ s \in Text /\ Len(s) = 1 + Len(t) /\ Len(t) \in Nat /\ s[1] = 48
      /\ \A i \in 1 .. Len(t) : s[1 + i] = t[i]
  BY <1>1, <1>2, JoinedTexts, TextLength
<1>4. Number(s) = port
  BY <1>1, NumberAfterZero
<1> HIDE DEF s
<1>5. IsDigits(s)
  <2>1. s # <<>> /\ DOMAIN s = 1 .. 1 + Len(t)
    BY <1>3, TextLength
  <2>2. \A i \in 1 .. Len(t) : t[i] \in 48 .. 57
    BY <1>1, TextLength DEF IsDigits
  <2>3. \A i \in 1 .. 1 + Len(t) : i = 1 \/ (i - 1 \in 1 .. Len(t) /\ 1 + (i - 1) = i)
    BY <1>3
  <2>4. ASSUME NEW i \in 1 .. 1 + Len(t) PROVE s[i] \in 48 .. 57
    <3>1. CASE i = 1
      BY <1>3, <3>1
    <3>2. CASE i - 1 \in 1 .. Len(t) /\ 1 + (i - 1) = i
      <4>1. s[i] = t[i - 1]
        BY <1>3, <3>2
      <4> QED BY <2>2, <3>2, <4>1
    <3> QED BY <2>3, <3>1, <3>2
  <2> QED BY <2>1, <2>4 DEF IsDigits
<1>6. ASSUME NEW u, IsDigits(u), Number(u) = port, u \in Text PROVE ParsePort(u) = Ok(port)
  <2>1. u[1] \in 48 .. 57
    BY <1>6, TextLength DEF IsDigits
  <2>2. ~ BeginsWith(u, Plus)
    BY <2>1 DEF BeginsWith, Plus
  <2> QED BY <1>6, <2>2 DEF ParsePort
<1> QED BY <1>1, <1>3, <1>4, <1>5, <1>6 DEF s, t

-----------------------------------------------------------------------------
\* Cutting and joining texts.

\* What is least in a set is its minimum.
LEMMA MinIs ==
  ASSUME NEW S \in SUBSET Int, NEW k \in S, \A j \in S : k =< j
  PROVE  Min(S) = k
<1>1. \A a \in S : (\A j \in S : a =< j) => a = k
  OBVIOUS
<1> QED BY <1>1 DEF Min

\* Cutting two texts that were joined where the first ends gives both back.
LEMMA CutJoined ==
  ASSUME NEW s \in Text, NEW t \in Text
  PROVE  UpTo(s \o t, Len(s)) = s /\ After(s \o t, Len(s)) = t
<1> DEFINE st == s \o t  m == Len(s)  n == Len(t)
<1>1. /\ st \in Text /\ Len(st) = m + n /\ m \in Nat /\ n \in Nat
      /\ \A i \in 1 .. m : st[i] = s[i]
      /\ \A i \in 1 .. n : st[m + i] = t[i]
  BY JoinedTexts, TextLength
<1> HIDE DEF st, m, n
<1>2. \A i \in 1 .. m + n : st[i] \in Byte
  BY <1>1, ElementOfSeq DEF Text
<1>3. UpTo(st, m) = s
  <2>1. \A i \in 1 .. m : st[i] \in Byte
    BY <1>1, <1>2
  <2>2. /\ SubSeq(st, 1, m) \in Seq(Byte)
        /\ Len(SubSeq(st, 1, m)) = IF 1 =< m THEN m - 1 + 1 ELSE 0
        /\ \A i \in 1 .. m - 1 + 1 : SubSeq(st, 1, m)[i] = st[1 + i - 1]
    BY <1>1, <2>1, SubSeqProperties
  <2>3. (IF 1 =< m THEN m - 1 + 1 ELSE 0) = m /\ 1 .. m - 1 + 1 = 1 .. m /\ \A i \in 1 .. m : 1 + i - 1 = i
    BY <1>1
  <2>4. \A i \in 1 .. m : SubSeq(st, 1, m)[i] = s[i]
    BY <1>1, <2>2, <2>3
  <2> QED BY <2>2, <2>3, <2>4, SeqEqual DEF UpTo, Text, m
<1>4. After(st, m) = t
  <2>1. \A i \in m + 1 .. m + n : st[i] \in Byte
    BY <1>1, <1>2
  <2>2. /\ SubSeq(st, m + 1, m + n) \in Seq(Byte)
        /\ Len(SubSeq(st, m + 1, m + n)) = IF m + 1 =< m + n THEN (m + n) - (m + 1) + 1 ELSE 0
        /\ \A i \in 1 .. (m + n) - (m + 1) + 1 : SubSeq(st, m + 1, m + n)[i] = st[(m + 1) + i - 1]
    BY <1>1, <2>1, SubSeqProperties
  <2>3. /\ (IF m + 1 =< m + n THEN (m + n) - (m + 1) + 1 ELSE 0) = n
        /\ 1 .. (m + n) - (m + 1) + 1 = 1 .. n
        /\ \A i \in 1 .. n : (m + 1) + i - 1 = m + i
    <3>1. ASSUME NEW a \in Nat, NEW b \in Nat
          PROVE  /\ (IF a + 1 =< a + b THEN (a + b) - (a + 1) + 1 ELSE 0) = b
                 /\ (a + b) - (a + 1) + 1 = b
                 /\ \A i \in 1 .. b : (a + 1) + i - 1 = a + i
      BY <3>1
    <3> QED BY <1>1, <3>1
  <2>4. \A i \in 1 .. n : SubSeq(st, m + 1, m + n)[i] = t[i]
    BY <1>1, <2>2, <2>3
  <2>5. After(st, m) = SubSeq(st, m + 1, m + n)
    BY <1>1 DEF After
  <2> QED BY <2>2, <2>3, <2>4, <2>5, SeqEqual DEF Text, n
<1> QED BY <1>3, <1>4 DEF st, m

\* Where a byte is in two texts, one after the other.
LEMMA JoinedLacks ==
  ASSUME NEW s \in Text, NEW t \in Text, NEW c
  PROVE  Positions(s \o t, c) = {} <=> Positions(s, c) = {} /\ Positions(t, c) = {}
<1> DEFINE st == s \o t  m == Len(s)  n == Len(t)
<1>1. /\ Len(st) = m + n /\ m \in Nat /\ n \in Nat
      /\ \A i \in 1 .. m : st[i] = s[i]
      /\ \A i \in 1 .. n : st[m + i] = t[i]
  BY JoinedTexts, TextLength
<1> HIDE DEF st, m, n
<1>2. ASSUME NEW i \in 1 .. m + n
      PROVE  i \in 1 .. m \/ (i - m \in 1 .. n /\ m + (i - m) = i)
  BY <1>1
<1>3. /\ \A i \in 1 .. m : i \in 1 .. m + n
      /\ \A i \in 1 .. n : m + i \in 1 .. m + n
  BY <1>1
<1>4. (\A i \in 1 .. m + n : st[i] # c) <=> (\A i \in 1 .. m : s[i] # c) /\ (\A i \in 1 .. n : t[i] # c)
  BY <1>1, <1>2, <1>3
<1> QED BY <1>1, <1>4 DEF Positions, st, m, n

\* A byte that the first text lacks is first where the second begins with it.
LEMMA FirstInJoined ==
  ASSUME NEW s \in Text, NEW t \in Text, NEW c, Positions(s, c) = {}, BeginsWith(t, c)
  PROVE  Positions(s \o t, c) # {} /\ Min(Positions(s \o t, c)) = Len(s) + 1
<1> DEFINE st == s \o t  m == Len(s)  n == Len(t)
<1>1. /\ Len(st) = m + n /\ m \in Nat /\ n \in Nat
      /\ \A i \in 1 .. m : st[i] = s[i]
      /\ \A i \in 1 .. n : st[m + i] = t[i]
  BY JoinedTexts, TextLength
<1>2. n # 0 /\ t[1] = c
  BY TextLength DEF BeginsWith
<1>3. \A i \in 1 .. m : s[i] # c
  BY DEF Positions
<1> HIDE DEF st, m, n
<1>4. m + 1 \in 1 .. m + n /\ 1 \in 1 .. n
  BY <1>1, <1>2
<1>5. m + 1 \in Positions(st, c)
  BY <1>1, <1>2, <1>4 DEF Positions
<1>6. \A j \in Positions(st, c) : m + 1 =< j
  <2> SUFFICES ASSUME NEW j \in 1 .. m + n, st[j] = c PROVE m + 1 =< j
    BY <1>1 DEF Positions
  <2>1. j \notin 1 .. m
    BY <1>1, <1>3
  <2> QED BY <1>1, <2>1
<1>7. Positions(st, c) \in SUBSET Int
  BY <1>1 DEF Positions
<1> HIDE DEF Positions
<1> QED BY <1>5, <1>6, <1>7, MinIs DEF st, m

-----------------------------------------------------------------------------
\* URLs put together from their parts.

\* The separator, and texts of one byte.
LEMMA SmallTexts ==
  /\ SchemeEnd \in Text /\ Len(SchemeEnd) = 3
  /\ SchemeEnd[1] = Colon /\ SchemeEnd[2] = Slash /\ SchemeEnd[3] = Slash
  /\ \A c \in Byte : /\ <<c>> \in Text /\ Len(<<c>>) = 1 /\ <<c>>[1] = c
                     /\ \A d : Positions(<<c>>, d) = {} <=> c # d
<1>1. /\ SchemeEnd \in Text /\ Len(SchemeEnd) = 3
      /\ SchemeEnd[1] = Colon /\ SchemeEnd[2] = Slash /\ SchemeEnd[3] = Slash
  BY DEF SchemeEnd, Colon, Slash, Text, Byte
<1>2. ASSUME NEW c \in Byte
      PROVE  /\ <<c>> \in Text /\ Len(<<c>>) = 1 /\ <<c>>[1] = c
             /\ \A d : Positions(<<c>>, d) = {} <=> c # d
  <2>1. <<c>> \in Text /\ Len(<<c>>) = 1 /\ <<c>>[1] = c
    BY DEF Text
  <2>2. \A i \in 1 .. 1 : i = 1
    OBVIOUS
  <2>3. 1 \in 1 .. 1
    OBVIOUS
  <2> QED BY <2>1, <2>2, <2>3 DEF Positions
<1> QED BY <1>1, <1>2

\* A text without a slash is no URL.
LEMMA NoSlashNoScheme ==
  ASSUME NEW t \in Text, Positions(t, Slash) = {}
  PROVE  SchemeEnds(t) = {}
<1> SUFFICES ASSUME NEW i \in 1 .. Len(t) - 2, SubSeq(t, i, i + 2) = SchemeEnd PROVE FALSE
  BY DEF SchemeEnds
<1>1. Len(t) \in Nat
  BY TextLength
<1>2. i + 1 \in 1 .. Len(t) /\ i \in Int /\ i + 2 \in Int /\ \A j \in i .. i + 2 : j \in 1 .. Len(t)
  BY <1>1
<1>3. \A j \in i .. i + 2 : t[j] \in Byte
  BY <1>2, ElementOfSeq DEF Text
<1>4. \A j \in 1 .. (i + 2) - i + 1 : SubSeq(t, i, i + 2)[j] = t[i + j - 1]
  BY <1>2, <1>3, SubSeqProperties
<1>5. 2 \in 1 .. (i + 2) - i + 1 /\ i + 2 - 1 = i + 1
  BY <1>2
<1>6. t[i + 1] = Slash
  BY <1>4, <1>5, SmallTexts
<1> QED BY <1>2, <1>6 DEF Positions

\* The scheme ends at the first "://".
LEMMA SchemeIsFound ==
  ASSUME NEW s \in Text, NEW rest \in Text, Positions(s, Colon) = {}
  PROVE  LET url == (s \o SchemeEnd) \o rest
         IN  /\ url \in Text /\ SchemeEnds(url) # {} /\ Min(SchemeEnds(url)) = Len(s) + 1
             /\ UpTo(url, Len(s)) = s /\ After(url, (Len(s) + 1) + 2) = rest
<1> DEFINE front == s \o SchemeEnd  url == front \o rest  m == Len(s)  n == Len(rest)
<1>1. /\ front \in Text /\ Len(front) = m + 3 /\ m \in Nat /\ n \in Nat
      /\ \A i \in 1 .. m : front[i] = s[i]
      /\ \A i \in 1 .. 3 : front[m + i] = SchemeEnd[i]
  <2>1. SchemeEnd \in Text /\ Len(SchemeEnd) = 3
    BY SmallTexts
  <2>2. /\ front \in Text /\ Len(front) = Len(s) + Len(SchemeEnd)
        /\ \A i \in 1 .. Len(s) : front[i] = s[i]
        /\ \A i \in 1 .. Len(SchemeEnd) : front[Len(s) + i] = SchemeEnd[i]
    BY <2>1, JoinedTexts
  <2> HIDE DEF front
  <2> QED BY <2>1, <2>2, TextLength
<1>2. /\ url \in Text /\ Len(url) = Len(front) + n
      /\ \A i \in 1 .. Len(front) : url[i] = front[i]
  <2> HIDE DEF front
  <2> QED BY <1>1, JoinedTexts
<1>3. UpTo(url, m) = s
  <2>1. url = s \o (SchemeEnd \o rest) /\ SchemeEnd \o rest \in Text
    BY SmallTexts, ConcatAssociative, JoinedTexts DEF Text
  <2> HIDE DEF url, front
  <2> QED BY <2>1, CutJoined
<1>4. After(url, (m + 1) + 2) = rest
  <2>1. Len(front) = (m + 1) + 2
    BY <1>1
  <2> HIDE DEF front, m
  <2> QED BY <1>1, <2>1, CutJoined
<1>5. \A i \in 1 .. m : s[i] # Colon
  BY DEF Positions
<1> HIDE DEF url, front, m, n
<1>6. /\ \A i \in 1 .. m : i \in 1 .. Len(front)
      /\ \A i \in 1 .. 3 : m + i \in 1 .. Len(front)
  BY <1>1
<1>7. /\ \A i \in 1 .. m : url[i] # Colon
      /\ \A i \in 1 .. 3 : url[m + i] = SchemeEnd[i]
  BY <1>1, <1>2, <1>5, <1>6
<1>8. ASSUME NEW i \in 1 .. Len(url) - 2
      PROVE  /\ SubSeq(url, i, i + 2) \in Text /\ Len(SubSeq(url, i, i + 2)) = 3
             /\ \A j \in 1 .. 3 : SubSeq(url, i, i + 2)[j] = url[i + (j - 1)]
  <2>1. i \in Int /\ i + 2 \in Int /\ \A j \in i .. i + 2 : j \in 1 .. Len(url)
    BY <1>1, <1>2
  <2>2. \A j \in i .. i + 2 : url[j] \in Byte
    BY <1>2, <2>1, ElementOfSeq DEF Text
  <2>3. /\ SubSeq(url, i, i + 2) \in Seq(Byte)
        /\ Len(SubSeq(url, i, i + 2)) = IF i =< i + 2 THEN (i + 2) - i + 1 ELSE 0
        /\ \A j \in 1 .. (i + 2) - i + 1 : SubSeq(url, i, i + 2)[j] = url[i + j - 1]
    BY <2>1, <2>2, SubSeqProperties
  <2>4. ASSUME NEW a \in Int
        PROVE  /\ (IF a =< a + 2 THEN (a + 2) - a + 1 ELSE 0) = 3 /\ (a + 2) - a + 1 = 3
               /\ \A j \in 1 .. 3 : a + j - 1 = a + (j - 1)
    OBVIOUS
  <2> QED BY <2>1, <2>3, <2>4 DEF Text
<1>9. m + 1 \in 1 .. Len(url) - 2
  BY <1>1, <1>2
<1>10. m + 1 \in SchemeEnds(url)
  <2>1. \A j \in 1 .. 3 : (m + 1) + (j - 1) = m + j
    BY <1>1
  <2>2. \A j \in 1 .. 3 : SubSeq(url, m + 1, (m + 1) + 2)[j] = SchemeEnd[j]
    <3> SUFFICES ASSUME NEW j \in 1 .. 3
                 PROVE  SubSeq(url, m + 1, (m + 1) + 2)[j] = SchemeEnd[j]
      OBVIOUS
    <3>1. SubSeq(url, m + 1, (m + 1) + 2)[j] = url[(m + 1) + (j - 1)]
      BY <1>8, <1>9
    <3> QED BY <1>7, <2>1, <3>1
  <2>3. SubSeq(url, m + 1, (m + 1) + 2) = SchemeEnd
    <3> DEFINE u == SubSeq(url, m + 1, (m + 1) + 2)
    <3>1. u \in Seq(Byte) /\ Len(u) = 3
      BY <1>8, <1>9 DEF Text
    <3>2. SchemeEnd \in Seq(Byte) /\ Len(SchemeEnd) = 3
      BY SmallTexts DEF Text
    <3>3. \A j \in 1 .. Len(u) : u[j] = SchemeEnd[j]
      BY <2>2, <3>1
    <3> HIDE DEF u
    <3>4. u = SchemeEnd
      BY <3>1, <3>2, <3>3, SeqEqual
    <3> QED BY <3>4 DEF u
  <2> QED BY <1>9, <2>3 DEF SchemeEnds
<1>11. ASSUME NEW i \in SchemeEnds(url) PROVE m + 1 =< i
  <2>1. i \in 1 .. Len(url) - 2 /\ SubSeq(url, i, i + 2) = SchemeEnd
    BY DEF SchemeEnds
  <2>2. url[i + (1 - 1)] = Colon
    BY <1>8, <2>1, SmallTexts
  <2>3. i \in Nat /\ i + (1 - 1) = i /\ i >= 1
    BY <1>1, <1>2, <2>1
  <2>4. i \notin 1 .. m
    BY <1>7, <2>2, <2>3
  <2> QED BY <1>1, <2>3, <2>4
<1>12. SchemeEnds(url) \in SUBSET Int
  BY <1>1, <1>2 DEF SchemeEnds
<1>13. SchemeEnds(url) # {} /\ Min(SchemeEnds(url)) = m + 1
  BY <1>10, <1>11, <1>12, MinIs
<1> QED BY <1>2, <1>3, <1>4, <1>13 DEF url, front, m

\* The schemes are texts in lower case.
LEMMA SchemesAreLower ==
  ASSUME NEW s \in Schemes
  PROVE  s \in Text /\ ToAsciiLowercase(s) = s
<1>1. HttpText \in Text /\ Len(HttpText) = 4 /\ \A i \in 1 .. 4 : HttpText[i] \in 97 .. 122
  BY DEF HttpText, Text, Byte
<1>2. HttpsText \in Text /\ Len(HttpsText) = 5 /\ \A i \in 1 .. 5 : HttpsText[i] \in 97 .. 122
  <2>1. \A i \in 1 .. 5 : i = 1 \/ i = 2 \/ i = 3 \/ i = 4 \/ i = 5
    OBVIOUS
  <2>2. /\ HttpsText[1] = 104 /\ HttpsText[2] = 116 /\ HttpsText[3] = 116
        /\ HttpsText[4] = 112 /\ HttpsText[5] = 115
    BY DEF HttpsText
  <2>3. HttpsText \in Text /\ Len(HttpsText) = 5
    BY DEF HttpsText, Text, Byte
  <2>4. {104, 112, 115, 116} \subseteq 97 .. 122
    OBVIOUS
  <2> QED BY <2>1, <2>2, <2>3, <2>4
<1>3. s \in Text /\ \A i \in 1 .. Len(s) : s[i] \in 97 .. 122
  BY <1>1, <1>2 DEF Schemes
<1>4. \A i \in 1 .. Len(s) : AsciiLower(s[i]) = s[i]
  <2>1. \A b \in 97 .. 122 : AsciiLower(b) = b
    BY DEF AsciiLower
  <2> QED BY <1>3, <2>1
<1>5. ToAsciiLowercase(s) \in Text /\ Len(ToAsciiLowercase(s)) = Len(s)
      /\ \A i \in 1 .. Len(s) : ToAsciiLowercase(s)[i] = AsciiLower(s[i])
  BY <1>3, LowercaseIsText, LowercaseLength
<1> DEFINE low == ToAsciiLowercase(s)
<1> HIDE DEF low
<1>6. low = s
  BY <1>3, <1>4, <1>5, SeqEqual DEF low, Text
<1> QED BY <1>3, <1>6 DEF low

\* A scheme in any case has no colon.
LEMMA SchemeLetters ==
  ASSUME NEW s \in Text, ToAsciiLowercase(s) \in Schemes
  PROVE  Positions(s, Colon) = {}
<1>1. \A x \in Schemes : x \in Text /\ \A i \in 1 .. Len(x) : x[i] # Colon
  <2>1. /\ Len(HttpText) = 4 /\ \A i \in 1 .. 4 : HttpText[i] \in Byte \ {Colon}
        /\ HttpText \in Text
    BY DEF HttpText, Byte, Colon, Text
  <2>2. /\ Len(HttpsText) = 5 /\ \A i \in 1 .. 5 : HttpsText[i] \in Byte \ {Colon}
        /\ HttpsText \in Text
    BY DEF HttpsText, Byte, Colon, Text
  <2> QED BY <2>1, <2>2 DEF Schemes
<1>2. Len(ToAsciiLowercase(s)) = Len(s) /\ DOMAIN s = 1 .. Len(s)
  BY LowercaseLength, TextLength
<1>3. AsciiLower(Colon) = Colon
  BY DEF AsciiLower, Colon
<1>4. \A i \in 1 .. Len(s) : ToAsciiLowercase(s)[i] = AsciiLower(s[i])
  BY <1>2, LowercaseIsText
<1> QED BY <1>1, <1>2, <1>3, <1>4 DEF Positions

\* What parse_with_policy makes of a URL that was put together from a scheme in
\* any case, an authority and a path.
LEMMA AssembledUrl ==
  ASSUME NEW s \in Text, NEW authority \in Text, NEW path \in Text, NEW policy,
         ToAsciiLowercase(s) \in Schemes, authority # <<>>, BeginsWith(path, Slash),
         \A c \in {Slash, Question, Hash, At} : Positions(authority, c) = {},
         \A c \in {Question, Hash} : Positions(path, c) = {}
  PROVE  LET url == (s \o SchemeEnd) \o (authority \o path)
         IN  /\ url \in Text /\ SchemeEnds(url) # {}
             /\ HttpUpstreamParse(url, policy)
                  = UpstreamFrom(ToAsciiLowercase(s), ParseAuthority(authority), path, policy)
<1> DEFINE rest == authority \o path  url == (s \o SchemeEnd) \o rest
<1>1. rest \in Text
  BY JoinedTexts
<1>2. /\ url \in Text /\ SchemeEnds(url) # {} /\ Min(SchemeEnds(url)) = Len(s) + 1
      /\ UpTo(url, Len(s)) = s /\ After(url, (Len(s) + 1) + 2) = rest
  <2> HIDE DEF rest
  <2> QED BY <1>1, SchemeLetters, SchemeIsFound
<1>3. Positions(rest, Question) = {} /\ Positions(rest, Hash) = {}
  BY JoinedLacks
<1>4. AuthorityLength(rest) = Len(authority)
  <2>1. Positions(rest, Slash) # {} /\ Min(Positions(rest, Slash)) = Len(authority) + 1
    BY FirstInJoined
  <2>2. Len(authority) \in Nat
    BY TextLength
  <2>3. (Len(authority) + 1) - 1 = Len(authority)
    BY <2>2
  <2> HIDE DEF rest
  <2> QED BY <2>1, <2>3 DEF AuthorityLength
<1>5. UpTo(rest, Len(authority)) = authority /\ After(rest, Len(authority)) = path
  BY CutJoined
<1> HIDE DEF rest
<1>6. ParseRest(ToAsciiLowercase(s), rest, policy)
        = UpstreamFrom(ToAsciiLowercase(s), ParseAuthority(authority), path, policy)
  BY <1>3, <1>4, <1>5 DEF ParseRest
<1> HIDE DEF url
<1>7. (Len(s) + 1) - 1 = Len(s)
  <2>1. Len(s) \in Nat
    BY TextLength
  <2> QED BY <2>1
<1>8. ParseScheme(s).ok /\ ParseScheme(s).value = ToAsciiLowercase(s)
  BY DEF ParseScheme, Ok
<1>9. HttpUpstreamParse(url, policy) = ParseRest(ToAsciiLowercase(s), rest, policy)
  BY <1>2, <1>7, <1>8 DEF HttpUpstreamParse
<1> QED BY <1>2, <1>6, <1>9 DEF url, rest

-----------------------------------------------------------------------------
\* Authorities: a host, and a port behind a colon.

WithPort(raw) == <<Colon>> \o raw

\* The bytes of a port behind its colon.
LEMMA PortBehindColon ==
  ASSUME NEW raw \in Text
  PROVE  /\ WithPort(raw) \in Text /\ BeginsWith(WithPort(raw), Colon) /\ WithPort(raw) # <<>>
         /\ Len(WithPort(raw)) = 1 + Len(raw) /\ Tail(WithPort(raw)) = raw
         /\ \A i \in 1 .. Len(raw) : WithPort(raw)[1 + i] = raw[i]
         /\ \A c : Positions(WithPort(raw), c) = {} <=> c # Colon /\ Positions(raw, c) = {}
<1>1. <<Colon>> \in Text /\ Len(<<Colon>>) = 1 /\ <<Colon>>[1] = Colon
      /\ \A d : Positions(<<Colon>>, d) = {} <=> Colon # d
  <2>1. Colon \in Byte
    BY DEF Colon, Byte
  <2> QED BY <2>1, SmallTexts
<1>2. /\ WithPort(raw) \in Text /\ Len(WithPort(raw)) = 1 + Len(raw) /\ WithPort(raw)[1] = Colon
      /\ \A i \in 1 .. Len(raw) : WithPort(raw)[1 + i] = raw[i]
  BY <1>1, JoinedTexts DEF WithPort
<1>3. WithPort(raw) # <<>>
  <2>1. 1 + Len(raw) # 0
    BY TextLength
  <2> QED BY <1>2, <2>1, TextLength
<1>4. Tail(WithPort(raw)) = raw
  <2> DEFINE w == WithPort(raw)
  <2>1. w \in Seq(Byte) /\ w # <<>>
    BY <1>2, <1>3 DEF Text
  <2> HIDE DEF w
  <2>2. Tail(w) = SubSeq(w, 2, Len(w))
    BY <2>1, TailIsSubSeq
  <2>3. SubSeq(w, 2, Len(w)) = After(w, 1)
    BY DEF After
  <2>4. After(w, 1) = raw
    BY <1>1, CutJoined DEF w, WithPort
  <2> QED BY <2>2, <2>3, <2>4 DEF w
<1>5. \A c : Positions(WithPort(raw), c) = {} <=> c # Colon /\ Positions(raw, c) = {}
  BY <1>1, JoinedLacks DEF WithPort
<1> QED BY <1>2, <1>3, <1>4, <1>5 DEF BeginsWith

\* A host without brackets and colons, alone or in front of a port, is cut where it
\* ends.
LEMMA NamedAuthority ==
  ASSUME NEW host \in Text, host # <<>>, Positions(host, Colon) = {},
         ~ BeginsWith(host, OpenBracket), NEW raw \in Text, Positions(raw, Colon) = {}
  PROVE  /\ ParseAuthority(host) = HostAndPort(host, Ok(NoPort))
         /\ ParseAuthority(host \o WithPort(raw)) = HostAndPort(host, ParsePort(raw))
<1>1. ParseAuthority(host) = HostAndPort(host, Ok(NoPort))
  <2>1. ~ Cardinality({}) > 1
    BY FS_EmptySet
  <2> QED BY <2>1 DEF ParseAuthority, ParseUnbracketed
<1> DEFINE tail == WithPort(raw)  authority == host \o tail  colons == Positions(authority, Colon)
<1>2. tail \in Text /\ BeginsWith(tail, Colon) /\ Len(tail) = 1 + Len(raw) /\ Len(raw) \in Nat
      /\ \A i \in 1 .. Len(raw) : tail[1 + i] = raw[i]
  BY PortBehindColon, TextLength
<1> HIDE DEF tail
<1>3. colons # {} /\ Min(colons) = Len(host) + 1
  BY <1>2, FirstInJoined
<1>4. /\ authority \in Text /\ Len(authority) = Len(host) + (1 + Len(raw)) /\ Len(host) \in Nat
      /\ \A i \in 1 .. Len(host) : authority[i] = host[i]
      /\ \A i \in 1 .. Len(tail) : authority[Len(host) + i] = tail[i]
  <2>1. /\ authority \in Text /\ Len(authority) = Len(host) + Len(tail)
        /\ \A i \in 1 .. Len(host) : authority[i] = host[i]
        /\ \A i \in 1 .. Len(tail) : authority[Len(host) + i] = tail[i]
    BY <1>2, JoinedTexts
  <2> HIDE DEF authority
  <2> QED BY <1>2, <2>1, TextLength
<1>5. UpTo(authority, Len(host)) = host
  BY <1>2, CutJoined
<1>6. After(authority, Len(host) + 1) = raw
  <2> DEFINE front == host \o <<Colon>>
  <2>0. <<Colon>> \in Text /\ Len(<<Colon>>) = 1
    BY DEF Text, Colon, Byte
  <2>1. authority = front \o raw
    BY <2>0, ConcatAssociative DEF Text, tail, WithPort
  <2>2. front \in Text /\ Len(front) = Len(host) + 1
    BY <2>0, JoinedTexts
  <2> HIDE DEF front, authority
  <2> QED BY <2>1, <2>2, CutJoined
<1>7. colons = {Len(host) + 1}
  <2> SUFFICES ASSUME NEW i \in colons PROVE i = Len(host) + 1
    BY <1>3
  <2>1. i \in 1 .. Len(host) + (1 + Len(raw)) /\ authority[i] = Colon
    BY <1>4 DEF Positions
  <2>2. \A j \in 1 .. Len(host) : host[j] # Colon
    BY DEF Positions
  <2>3. \A j \in 1 .. Len(raw) : raw[j] # Colon
    BY DEF Positions
  <2>4. i \notin 1 .. Len(host)
    BY <1>4, <2>1, <2>2
  <2> HIDE DEF authority, colons
  <2>5. ASSUME i # Len(host) + 1 PROVE FALSE
    <3> DEFINE j == i - (Len(host) + 1)
    <3>1. j \in 1 .. Len(raw) /\ 1 + j \in 1 .. 1 + Len(raw) /\ i = Len(host) + (1 + j)
      BY <1>2, <1>4, <2>1, <2>4, <2>5
    <3> HIDE DEF j
    <3>2. authority[i] = tail[1 + j]
      BY <1>2, <1>4, <3>1
    <3> QED BY <1>2, <2>1, <2>3, <3>1, <3>2
  <2> QED BY <2>5
<1>8. ~ Cardinality(colons) > 1
  <2>1. Cardinality({Len(host) + 1}) = 1
    BY FS_Singleton
  <2> QED BY <1>7, <2>1
<1>9. ~ BeginsWith(authority, OpenBracket)
  <2>1. Len(host) # 0 /\ Len(authority) # 0
    BY <1>4, TextLength
  <2>2. authority[1] = host[1]
    BY <1>4, <2>1
  <2> QED BY <2>2 DEF BeginsWith
<1>10. (Len(host) + 1) - 1 = Len(host)
  BY <1>4
<1> HIDE DEF authority, colons
<1>11. ParseUnbracketed(authority) = HostAndPort(host, ParsePort(raw))
  BY <1>3, <1>5, <1>6, <1>8, <1>10 DEF ParseUnbracketed, colons
<1> QED BY <1>1, <1>9, <1>11 DEF ParseAuthority, authority, tail

Bracketed(t) == <<OpenBracket>> \o t \o <<CloseBracket>>

\* The bytes of an address between brackets.
LEMMA BracketedText ==
  ASSUME NEW t \in Text
  PROVE  /\ Bracketed(t) \in Text /\ Len(Bracketed(t)) = Len(t) + 2 /\ Bracketed(t) # <<>>
         /\ Bracketed(t)[1] = OpenBracket
         /\ \A i \in 1 .. Len(t) : Bracketed(t)[1 + i] = t[i]
         /\ Bracketed(t)[Len(t) + 2] = CloseBracket
<1> DEFINE front == <<OpenBracket>> \o t
<1>1. /\ <<OpenBracket>> \in Text /\ Len(<<OpenBracket>>) = 1 /\ <<OpenBracket>>[1] = OpenBracket
      /\ <<CloseBracket>> \in Text /\ Len(<<CloseBracket>>) = 1 /\ <<CloseBracket>>[1] = CloseBracket
  BY DEF Text, Byte, OpenBracket, CloseBracket
<1>2. /\ front \in Text /\ Len(front) = 1 + Len(t) /\ Len(t) \in Nat
      /\ front[1] = OpenBracket /\ \A i \in 1 .. Len(t) : front[1 + i] = t[i]
  BY <1>1, JoinedTexts, TextLength
<1> HIDE DEF front
<1> DEFINE b == front \o <<CloseBracket>>
<1>3. /\ b \in Text /\ Len(b) = Len(front) + 1
      /\ \A i \in 1 .. Len(front) : b[i] = front[i]
      /\ b[Len(front) + 1] = CloseBracket
  BY <1>1, <1>2, JoinedTexts
<1> HIDE DEF b
<1>4. 1 \in 1 .. Len(front) /\ \A i \in 1 .. Len(t) : 1 + i \in 1 .. Len(front)
  BY <1>2
<1>5. Len(b) = Len(t) + 2 /\ b # <<>> /\ Len(front) + 1 = Len(t) + 2
  BY <1>2, <1>3, TextLength
<1> QED BY <1>2, <1>3, <1>4, <1>5 DEF Bracketed, b, front

\* What stands between brackets is read as an address.
LEMMA BracketedAuthority ==
  ASSUME NEW t \in Ipv6Literals, Positions(t, CloseBracket) = {},
         NEW tail \in Text, tail = <<>> \/ BeginsWith(tail, Colon)
  PROVE  LET port == IF tail = <<>> THEN Ok(NoPort) ELSE ParsePort(Tail(tail))
         IN  ParseAuthority(Bracketed(t) \o tail) =
               IF port.ok THEN Ok([host |-> UpstreamAddress(t), port |-> port.value]) ELSE port
<1> DEFINE front == <<OpenBracket>> \o t  back == <<CloseBracket>> \o tail
           authority == Bracketed(t) \o tail
<1>1. t \in Text /\ Len(t) \in Nat
  BY TextLength, TargetsAssumption, NamesAssumption
<1>2. /\ <<OpenBracket>> \in Text /\ Len(<<OpenBracket>>) = 1 /\ <<OpenBracket>>[1] = OpenBracket
      /\ <<CloseBracket>> \in Text /\ Len(<<CloseBracket>>) = 1 /\ <<CloseBracket>>[1] = CloseBracket
      /\ Positions(<<OpenBracket>>, CloseBracket) = {}
  <2>1. OpenBracket \in Byte /\ CloseBracket \in Byte /\ OpenBracket # CloseBracket
    BY DEF Byte, OpenBracket, CloseBracket
  <2> QED BY <2>1, SmallTexts
<1>3. front \in Text /\ Len(front) = 1 + Len(t) /\ Positions(front, CloseBracket) = {}
  BY <1>1, <1>2, JoinedTexts, JoinedLacks
<1>4. /\ back \in Text /\ BeginsWith(back, CloseBracket)
      /\ Len(back) = 1 + Len(tail) /\ Len(tail) \in Nat
  <2>1. back \in Text /\ Len(back) = 1 + Len(tail) /\ back[1] = CloseBracket /\ Len(tail) \in Nat
    BY <1>2, JoinedTexts, TextLength
  <2>2. Len(back) # 0
    BY <2>1
  <2> HIDE DEF back
  <2>3. back # <<>>
    BY <2>1, <2>2, TextLength
  <2> QED BY <2>1, <2>3 DEF BeginsWith
<1>5. authority = front \o back
  <2>1. authority = (front \o <<CloseBracket>>) \o tail
    BY DEF Bracketed
  <2> HIDE DEF front, authority
  <2> QED BY <1>2, <1>3, <2>1, ConcatAssociative DEF Text
<1>6. Positions(authority, CloseBracket) # {} /\ Min(Positions(authority, CloseBracket)) = Len(t) + 2
  <2>1. Len(front) + 1 = Len(t) + 2
    BY <1>1, <1>3
  <2> HIDE DEF front, back, authority
  <2> QED BY <1>3, <1>4, <1>5, <2>1, FirstInJoined
<1>7. /\ Bracketed(t) \in Text /\ Len(Bracketed(t)) = Len(t) + 2
      /\ Bracketed(t)[1] = OpenBracket
      /\ \A i \in 1 .. Len(t) : Bracketed(t)[1 + i] = t[i]
  BY <1>1, BracketedText
<1>8. After(authority, Len(t) + 2) = tail
  BY <1>7, CutJoined
<1>9. /\ authority \in Text /\ \A i \in 1 .. Len(t) + 2 : authority[i] = Bracketed(t)[i]
      /\ Len(authority) = (Len(t) + 2) + Len(tail)
  <2> DEFINE b == Bracketed(t)
  <2>1. b \in Text /\ Len(b) = Len(t) + 2
    BY <1>7
  <2> HIDE DEF b
  <2>2. /\ b \o tail \in Text /\ Len(b \o tail) = Len(b) + Len(tail)
        /\ \A i \in 1 .. Len(b) : (b \o tail)[i] = b[i]
    BY <2>1, JoinedTexts
  <2>3. authority = b \o tail
    BY DEF b
  <2> HIDE DEF authority
  <2>4. \A i \in 1 .. Len(t) + 2 : authority[i] = b[i]
    BY <2>1, <2>2, <2>3
  <2> QED BY <2>1, <2>2, <2>3, <2>4 DEF b
<1> HIDE DEF authority
<1>10. SubSeq(authority, 2, (Len(t) + 2) - 1) = t
  <2> DEFINE n == Len(t)
  <2>1. n \in Nat /\ (n + 2) - 1 \in Int /\ 2 \in Int
    BY <1>1
  <2>2. \A i \in 2 .. (n + 2) - 1 : authority[i] \in Byte
    <3>1. \A i \in 2 .. (n + 2) - 1 : i \in 1 .. Len(authority)
      BY <1>4, <1>9, <2>1
    <3> QED BY <1>9, <3>1, ElementOfSeq DEF Text
  <2> HIDE DEF n
  <2>3. LET u == SubSeq(authority, 2, (n + 2) - 1)
        IN  /\ u \in Seq(Byte) /\ Len(u) = IF 2 =< (n + 2) - 1 THEN ((n + 2) - 1) - 2 + 1 ELSE 0
            /\ \A i \in 1 .. ((n + 2) - 1) - 2 + 1 : u[i] = authority[2 + i - 1]
    BY <2>1, <2>2, SubSeqProperties
  <2>4. /\ (IF 2 =< (n + 2) - 1 THEN ((n + 2) - 1) - 2 + 1 ELSE 0) = n
        /\ ((n + 2) - 1) - 2 + 1 = n
        /\ \A i \in 1 .. n : 2 + i - 1 = 1 + i /\ 1 + i \in 1 .. n + 2
    BY <2>1
  <2> DEFINE u == SubSeq(authority, 2, (n + 2) - 1)
  <2>5. u \in Seq(Byte) /\ Len(u) = n /\ \A i \in 1 .. n : u[i] = authority[1 + i]
    BY <2>3, <2>4
  <2> HIDE DEF u
  <2>6. \A i \in 1 .. n : u[i] = t[i]
    BY <1>7, <1>9, <2>4, <2>5 DEF n
  <2>7. u = t
    BY <1>1, <2>5, <2>6, SeqEqual DEF Text, n
  <2> QED BY <2>7 DEF u, n
<1>11. BeginsWith(authority, OpenBracket)
  <2>1. 1 \in 1 .. Len(t) + 2 /\ Len(authority) # 0
    BY <1>1, <1>4, <1>9
  <2>2. authority # <<>>
    BY <1>9, <2>1, TextLength
  <2> QED BY <1>7, <1>9, <2>1, <2>2 DEF BeginsWith
<1> DEFINE port == IF tail = <<>> THEN Ok(NoPort) ELSE ParsePort(Tail(tail))
<1>12. ParseBracketed(authority) =
         IF ~ port.ok THEN port ELSE Ok([host |-> UpstreamAddress(t), port |-> port.value])
  BY <1>6, <1>8, <1>10 DEF ParseBracketed
<1> HIDE DEF port
<1>13. ParseAuthority(authority) = IF port.ok THEN Ok([host |-> UpstreamAddress(t), port |-> port.value]) ELSE port
  BY <1>11, <1>12 DEF ParseAuthority
<1> QED BY <1>13 DEF port, authority

-----------------------------------------------------------------------------
\* The bytes of hosts.

Punctuation == {Colon, Slash, Question, At, Hash, OpenBracket, CloseBracket}

\* The bytes that separate the parts of a URL are not those of names and numbers.
LEMMA PunctuationBytes ==
  ASSUME NEW c \in Punctuation
  PROVE  /\ c \in Byte /\ ~ IsAsciiAlphanumeric(c) /\ c # Dot /\ c # Hyphen
         /\ c \notin 48 .. 57 /\ c \notin 65 .. 90 /\ c \notin 97 .. 122
BY DEF Punctuation, Colon, Slash, Question, At, Hash, OpenBracket, CloseBracket, Byte,
       IsAsciiAlphanumeric, Dot, Hyphen

\* So an accepted name has none of them,
LEMMA NameLacks ==
  ASSUME NEW name \in Text, FaultySpans(name) = {}, NEW c \in Punctuation
  PROVE  Positions(name, c) = {}
BY FaultlessTextBytes, PunctuationBytes DEF Positions

\* an address none but the colon,
LEMMA AddressLacks ==
  ASSUME NEW t \in AddressLiterals
  PROVE  /\ t \in Text /\ t # <<>> /\ ~ EndsWith(t, Dot)
         /\ \A c \in Punctuation \ {Colon} : Positions(t, c) = {}
         /\ t \notin Ipv6Literals => Positions(t, Colon) = {}
<1>1. t \in Text /\ DOMAIN t = 1 .. Len(t)
  BY NamesAssumption, TextLength
<1>2. /\ t # <<>> /\ ~ EndsWith(t, Dot)
      /\ \A i \in DOMAIN t : IsAsciiAlphanumeric(t[i]) \/ t[i] \in {Dot, Colon}
      /\ t \notin Ipv6Literals => \A i \in DOMAIN t : t[i] # Colon
  BY TargetsAssumption
<1>3. ASSUME NEW c \in Punctuation \ {Colon} PROVE Positions(t, c) = {}
  <2>1. ~ IsAsciiAlphanumeric(c) /\ c # Dot /\ c # Colon
    BY PunctuationBytes
  <2> QED BY <1>1, <1>2, <2>1 DEF Positions
<1>4. t \notin Ipv6Literals => Positions(t, Colon) = {}
  BY <1>1, <1>2 DEF Positions
<1> QED BY <1>1, <1>2, <1>3, <1>4

\* and a number none.
LEMMA DigitsLack ==
  ASSUME NEW t \in Text, IsDigits(t), NEW c \in Punctuation
  PROVE  Positions(t, c) = {}
<1>1. \A i \in 1 .. Len(t) : t[i] \in 48 .. 57
  BY TextLength DEF IsDigits
<1> QED BY <1>1, PunctuationBytes DEF Positions

\* Upper case changes letters only, and lower case takes that back.
LEMMA UppercaseIsText ==
  ASSUME NEW t \in Text
  PROVE  LET upper == ToAsciiUppercase(t)
         IN  /\ upper \in Text /\ Len(upper) = Len(t)
             /\ DOMAIN upper = DOMAIN t /\ \A i \in 1 .. Len(t) : upper[i] = AsciiUpper(t[i])
             /\ ToAsciiLowercase(upper) = ToAsciiLowercase(t)
             /\ upper = <<>> <=> t = <<>>
             /\ EndsWith(upper, Dot) <=> EndsWith(t, Dot)
             /\ \A c \in Punctuation : Positions(upper, c) = {} <=> Positions(t, c) = {}
<1> DEFINE upper == ToAsciiUppercase(t)
<1>1. t \in [1 .. Len(t) -> Byte] /\ Len(t) \in Nat /\ DOMAIN t = 1 .. Len(t)
  BY TextLength
<1>2. \A b \in Byte : AsciiUpper(b) \in Byte /\ AsciiLower(AsciiUpper(b)) = AsciiLower(b)
  BY DEF Byte, AsciiUpper, AsciiLower
<1>3. upper \in [1 .. Len(t) -> Byte]
  BY <1>1, <1>2 DEF ToAsciiUppercase
<1>4. upper \in Text /\ DOMAIN upper = DOMAIN t /\ \A i \in 1 .. Len(t) : upper[i] = AsciiUpper(t[i])
  <2>1. \A i \in 1 .. Len(t) : upper[i] = AsciiUpper(t[i])
    BY <1>1 DEF ToAsciiUppercase
  <2> HIDE DEF upper
  <2>2. upper \in Text
    BY <1>1, <1>3, SeqDef DEF Text
  <2> QED BY <1>1, <1>3, <2>1, <2>2
<1> HIDE DEF upper
<1>5. Len(upper) = Len(t)
  BY <1>1, <1>4, TextLength
<1>6. ToAsciiLowercase(upper) = ToAsciiLowercase(t)
  <2>1. \A i \in DOMAIN t : AsciiLower(upper[i]) = AsciiLower(t[i])
    BY <1>1, <1>2, <1>4
  <2> QED BY <1>4, <2>1 DEF ToAsciiLowercase
<1>7. upper = <<>> <=> t = <<>>
  BY <1>4, <1>5, TextLength
<1>8. ASSUME NEW c \in Punctuation \cup {Dot}, NEW i \in 1 .. Len(t)
      PROVE  upper[i] = c <=> t[i] = c
  <2>1. c \notin 65 .. 90 /\ c \notin 97 .. 122 /\ c \in Byte
    <3>1. CASE c = Dot
      BY <3>1 DEF Dot, Byte
    <3> QED BY <3>1, PunctuationBytes
  <2>2. \A b \in Byte : AsciiUpper(b) = c <=> b = c
    BY <2>1 DEF AsciiUpper, Byte
  <2> QED BY <1>1, <1>4, <2>2
<1>9. EndsWith(upper, Dot) <=> EndsWith(t, Dot)
  <2>1. t # <<>> => Len(t) \in 1 .. Len(t)
    BY <1>1, TextLength
  <2> QED BY <1>5, <1>7, <1>8, <2>1 DEF EndsWith
<1>10. \A c \in Punctuation : Positions(upper, c) = {} <=> Positions(t, c) = {}
  BY <1>5, <1>8 DEF Positions
<1> QED BY <1>4, <1>5, <1>6, <1>7, <1>9, <1>10 DEF upper

\* An address in upper case is the same address.
LEMMA UppercaseAddress ==
  ASSUME NEW t \in AddressLiterals
  PROVE  LET upper == ToAsciiUppercase(t)
         IN  /\ upper \in AddressLiterals /\ AddressDisplay[upper] = AddressDisplay[t]
             /\ upper \in Ipv6Literals <=> t \in Ipv6Literals
<1> DEFINE upper == ToAsciiUppercase(t)
<1>1. t \in Text /\ DOMAIN t = 1 .. Len(t) /\ \A i \in 1 .. Len(t) : t[i] \in Byte
  <2>1. t \in Text
    BY NamesAssumption
  <2> QED BY <2>1, TextLength
<1>2. upper = InCase(t, Letters(t))
  <2>1. ASSUME NEW i \in DOMAIN t
        PROVE  AsciiUpper(t[i]) = IF i \in Letters(t) THEN AsciiUpper(t[i]) ELSE AsciiLower(t[i])
    BY <1>1 DEF Letters, AsciiUpper, AsciiLower, Byte
  <2> QED BY <2>1 DEF ToAsciiUppercase, InCase
<1>3. Letters(t) \in SUBSET Letters(t)
  OBVIOUS
<1>4. upper \in AddressLiterals
  BY <1>2, <1>3, NamesAssumption
<1>5. AddressDisplay[upper] = AddressDisplay[t]
  BY <1>2, <1>3, TargetsAssumption
<1>6. /\ AddressDisplay[t] \in Ipv6Literals <=> t \in Ipv6Literals
      /\ AddressDisplay[upper] \in Ipv6Literals <=> upper \in Ipv6Literals
  BY <1>4, TargetsAssumption
<1> QED BY <1>4, <1>5, <1>6

-----------------------------------------------------------------------------
\* What the parsers answer.

\* A host as it is kept: its text is read as the same host.
IsKeptHost(host) ==
  \/ /\ host = UpstreamName(host.text) /\ host.text \in Text
     /\ RemapNameParse(host.text) = Ok(host.text)
  \/ /\ host = [kind |-> "Address", text |-> host.text] /\ host.text \in AddressLiterals
     /\ AddressDisplay[host.text] = host.text

PortRange == {NoPort} \cup 1 .. MaxPort

IsRefusal(result, errors) == result = Err(result.error) /\ result.error \in errors

IsAuthority(parsed) ==
  /\ parsed = Ok([host |-> parsed.value.host, port |-> parsed.value.port])
  /\ IsKeptHost(parsed.value.host) /\ parsed.value.port \in PortRange

IsKeptUpstream(u, policy) ==
  /\ u = [scheme |-> u.scheme, host |-> u.host, port |-> u.port, base_path |-> u.base_path,
          host_header_policy |-> policy]
  /\ u.scheme \in Schemes /\ IsKeptHost(u.host) /\ u.port \in PortRange
  /\ u.base_path \in Text /\ BeginsWith(u.base_path, Slash)
  /\ \A c \in {Question, Hash} : Positions(u.base_path, c) = {}

\* Answers are taken apart.
LEMMA Answers ==
  /\ \A v : Ok(v).ok = TRUE /\ Ok(v).value = v
  /\ \A e : Err(e).ok = FALSE /\ Err(e).error = e
BY DEF Ok, Err

\* The host that UpstreamAddress makes of a literal is kept,
LEMMA KeptAddress ==
  ASSUME NEW t \in AddressLiterals
  PROVE  IsKeptHost(UpstreamAddress(t))
<1>1. AddressDisplay[t] \in AddressLiterals /\ AddressDisplay[AddressDisplay[t]] = AddressDisplay[t]
  BY TargetsAssumption
<1>2. UpstreamAddress(t).text = AddressDisplay[t]
  BY DEF UpstreamAddress
<1> QED BY <1>1, <1>2 DEF IsKeptHost, UpstreamAddress

\* and so is the one made of an accepted name.
LEMMA KeptName ==
  ASSUME NEW t \in Text, RemapNameParse(t).ok
  PROVE  IsKeptHost(UpstreamName(RemapNameParse(t).value))
<1> DEFINE name == RemapNameParse(t).value
<1>1. name \in Text /\ RemapNameParse(name) = RemapNameParse(t)
  BY AcceptedName, NameIsReadBack
<1>2. RemapNameParse(t) = Ok(name)
  <2>1. RemapNameParse(t) \in [ok : {TRUE}, value : Text] \cup [ok : {FALSE}, error : NameErrors]
    BY NameAnswers
  <2>2. RemapNameParse(t) \in [ok : {TRUE}, value : Text]
    BY <2>1
  <2> QED BY <2>2 DEF Ok
<1>3. UpstreamName(name).text = name
  BY DEF UpstreamName
<1> HIDE DEF name
<1> QED BY <1>1, <1>2, <1>3 DEF IsKeptHost, name

\* A host and a port that was read are answered with an authority or an error.
LEMMA HostAnswers ==
  ASSUME NEW host \in Text, NEW port,
         \/ port = Ok(port.value) /\ port.value \in PortRange
         \/ port = Err(<<"InvalidPort">>)
  PROVE  \/ IsAuthority(HostAndPort(host, port))
         \/ IsRefusal(HostAndPort(host, port), HttpUpstreamErrors)
<1> DEFINE parsed == HostAndPort(host, port)  name == RemapNameParse(host)
<1>1. <<"InvalidPort">> \in HttpUpstreamErrors /\ <<"MissingHost">> \in HttpUpstreamErrors
      /\ \A e \in NameErrors : <<"InvalidHost", e>> \in HttpUpstreamErrors
  BY DEF HttpUpstreamErrors
<1>2. \A e \in HttpUpstreamErrors : IsRefusal(Err(e), HttpUpstreamErrors)
  BY Answers DEF IsRefusal
<1>3. CASE ~ port.ok
  <2>1. port = Err(<<"InvalidPort">>)
    BY <1>3, Answers
  <2>2. parsed = port
    BY <1>3 DEF HostAndPort
  <2> QED BY <1>1, <1>2, <2>1, <2>2
<1>4. CASE port.ok /\ host = <<>>
  <2>1. parsed = Err(<<"MissingHost">>)
    BY <1>4 DEF HostAndPort
  <2> QED BY <1>1, <1>2, <2>1
<1>5. ASSUME NEW h, IsKeptHost(h), port.ok, parsed = Ok([host |-> h, port |-> port.value])
      PROVE  IsAuthority(parsed)
  <2>1. port.value \in PortRange
    BY <1>5, Answers
  <2>2. parsed.value = [host |-> h, port |-> port.value]
    BY <1>5, Answers
  <2>3. parsed.value.host = h /\ parsed.value.port = port.value
    BY <2>2
  <2> HIDE DEF parsed
  <2> QED BY <1>5, <2>1, <2>3 DEF IsAuthority
<1>6. CASE port.ok /\ host # <<>> /\ host \in AddressLiterals
  <2>1. parsed = Ok([host |-> UpstreamAddress(host), port |-> port.value])
    BY <1>6 DEF HostAndPort
  <2>2. IsAuthority(parsed)
    <3> HIDE DEF parsed
    <3> QED BY <1>5, <1>6, <2>1, KeptAddress
  <2> QED BY <2>2
<1>7. CASE port.ok /\ host # <<>> /\ host \notin AddressLiterals /\ ~ name.ok
  <2>1. parsed = Err(<<"InvalidHost", name.error>>)
    BY <1>7 DEF HostAndPort
  <2>2. name.error \in NameErrors
    BY <1>7, NameAnswers
  <2> QED BY <1>1, <1>2, <2>1, <2>2
<1>8. CASE port.ok /\ host # <<>> /\ host \notin AddressLiterals /\ name.ok
  <2>1. parsed = Ok([host |-> UpstreamName(name.value), port |-> port.value])
    BY <1>8 DEF HostAndPort
  <2>2. IsAuthority(parsed)
    <3> HIDE DEF parsed
    <3> QED BY <1>5, <1>8, <2>1, KeptName
  <2> QED BY <2>2
<1> QED BY <1>3, <1>4, <1>6, <1>7, <1>8

\* The first place where a byte occurs is one of the places where it occurs.
LEMMA FirstPosition ==
  ASSUME NEW t \in Text, NEW c, Positions(t, c) # {}
  PROVE  LET first == Min(Positions(t, c))
         IN  first \in 1 .. Len(t) /\ t[first] = c /\ \A j \in Positions(t, c) : first =< j
<1>1. Positions(t, c) \in SUBSET Nat /\ Positions(t, c) \subseteq 1 .. Len(t)
  BY DEF Positions
<1>2. PICK k \in Positions(t, c) : \A j \in Positions(t, c) : k =< j
  BY <1>1, LeastNumber
<1>3. Min(Positions(t, c)) \in Positions(t, c) /\ \A j \in Positions(t, c) : Min(Positions(t, c)) =< j
  BY <1>2 DEF Min
<1> QED BY <1>1, <1>3 DEF Positions

\* Cutting a text leaves texts, and no byte that was not there.
LEMMA CutsAreTexts ==
  ASSUME NEW t \in Text, NEW i \in 0 .. Len(t)
  PROVE  /\ UpTo(t, i) \in Text /\ After(t, i) \in Text
         /\ Len(After(t, i)) = Len(t) - i
         /\ \A j \in 1 .. Len(t) - i : After(t, i)[j] = t[i + j]
         /\ \A c : Positions(t, c) = {} => Positions(After(t, i), c) = {}
<1> DEFINE n == Len(t)  rest == After(t, i)
<1>1. n \in Nat /\ i \in Int /\ i + 1 \in Int /\ \A j \in i + 1 .. n : j \in 1 .. n
  BY TextLength
<1>2. \A j \in i + 1 .. n : t[j] \in Byte
  BY <1>1, ElementOfSeq DEF Text
<1>3. /\ rest \in Seq(Byte) /\ Len(rest) = IF i + 1 =< n THEN n - (i + 1) + 1 ELSE 0
      /\ \A j \in 1 .. n - (i + 1) + 1 : rest[j] = t[(i + 1) + j - 1]
  BY <1>1, <1>2, SubSeqProperties DEF After
<1>4. ASSUME NEW m \in Nat, NEW k \in 0 .. m
      PROVE  /\ (IF k + 1 =< m THEN m - (k + 1) + 1 ELSE 0) = m - k /\ m - (k + 1) + 1 = m - k
             /\ \A j \in 1 .. m - k : (k + 1) + j - 1 = k + j /\ k + j \in 1 .. m
  OBVIOUS
<1> HIDE DEF rest
<1>5. Len(rest) = n - i /\ \A j \in 1 .. n - i : rest[j] = t[i + j] /\ i + j \in 1 .. n
  BY <1>1, <1>3, <1>4
<1>6. ASSUME NEW c, Positions(t, c) = {} PROVE Positions(rest, c) = {}
  BY <1>5, <1>6 DEF Positions
<1>7. UpTo(t, i) \in Text
  BY <1>1 DEF UpTo, Text
<1> QED BY <1>3, <1>5, <1>6, <1>7 DEF rest, Text

\* So is an authority, with brackets or without.
LEMMA AuthorityAnswers ==
  ASSUME NEW authority \in Text
  PROVE  \/ IsAuthority(ParseAuthority(authority))
         \/ IsRefusal(ParseAuthority(authority), HttpUpstreamErrors)
<1>1. \A e \in HttpUpstreamErrors : IsRefusal(Err(e), HttpUpstreamErrors)
  BY Answers DEF IsRefusal
<1>2. /\ <<"InvalidPort">> \in HttpUpstreamErrors /\ <<"MissingHost">> \in HttpUpstreamErrors
      /\ <<"InvalidUrl">> \in HttpUpstreamErrors /\ <<"UnbracketedIpv6">> \in HttpUpstreamErrors
      /\ <<"InvalidHost", "AddressLiteral">> \in HttpUpstreamErrors
  BY DEF HttpUpstreamErrors, NameErrors
<1>3. ASSUME NEW raw
      PROVE  \/ ParsePort(raw) = Ok(ParsePort(raw).value) /\ ParsePort(raw).value \in PortRange
             \/ ParsePort(raw) = Err(<<"InvalidPort">>)
  BY PortAnswers DEF PortRange
<1>4. Ok(NoPort) = Ok(Ok(NoPort).value) /\ Ok(NoPort).value \in PortRange
  BY Answers DEF PortRange
<1>5. \/ IsAuthority(ParseBracketed(authority))
      \/ IsRefusal(ParseBracketed(authority), HttpUpstreamErrors)
  <2> DEFINE close    == Min(Positions(authority, CloseBracket))
             address  == SubSeq(authority, 2, close - 1)
             trailing == After(authority, close)
             port     == IF trailing = <<>> THEN Ok(NoPort) ELSE ParsePort(Tail(trailing))
             parsed   == ParseBracketed(authority)
  <2>1. \/ port = Ok(port.value) /\ port.value \in PortRange
        \/ port = Err(<<"InvalidPort">>)
    <3>1. CASE trailing = <<>>
      BY <1>4, <3>1
    <3>2. CASE trailing # <<>>
      <4>1. port = ParsePort(Tail(trailing))
        BY <3>2
      <4> HIDE DEF port, trailing
      <4> QED BY <1>3, <4>1
    <3> QED BY <3>1, <3>2
  <2>2. \/ parsed = Err(<<"MissingHost">>)
        \/ parsed = Err(<<"InvalidHost", "AddressLiteral">>)
        \/ parsed = Err(<<"InvalidUrl">>)
        \/ parsed = port /\ ~ port.ok
        \/ /\ parsed = Ok([host |-> UpstreamAddress(address), port |-> port.value]) /\ port.ok
           /\ address \in Ipv6Literals
    BY DEF ParseBracketed
  <2> HIDE DEF address, trailing, parsed, port
  <2>3. CASE parsed = Ok([host |-> UpstreamAddress(address), port |-> port.value]) /\ port.ok
             /\ address \in Ipv6Literals
    <3>1. IsKeptHost(UpstreamAddress(address))
      BY <2>3, KeptAddress, TargetsAssumption
    <3>2. port.value \in PortRange
      BY <2>1, <2>3, Answers
    <3>3. parsed.value.host = UpstreamAddress(address) /\ parsed.value.port = port.value
      BY <2>3, Answers
    <3>4. IsAuthority(parsed)
      BY <2>3, <3>1, <3>2, <3>3 DEF IsAuthority
    <3> QED BY <3>4 DEF parsed
  <2>4. CASE parsed = port /\ ~ port.ok
    <3>1. parsed = Err(<<"InvalidPort">>)
      BY <2>1, <2>4, Answers
    <3> QED BY <1>1, <1>2, <3>1 DEF parsed
  <2> QED BY <1>1, <1>2, <2>2, <2>3, <2>4 DEF parsed
<1>6. \/ IsAuthority(ParseUnbracketed(authority))
      \/ IsRefusal(ParseUnbracketed(authority), HttpUpstreamErrors)
  <2> DEFINE colons == Positions(authority, Colon)  colon == Min(colons)
  <2>1. CASE Cardinality(colons) > 1
    BY <1>1, <1>2, <2>1 DEF ParseUnbracketed
  <2>2. CASE ~ Cardinality(colons) > 1 /\ colons = {}
    <3>1. ParseUnbracketed(authority) = HostAndPort(authority, Ok(NoPort))
      BY <2>2 DEF ParseUnbracketed
    <3> QED BY <1>4, <3>1, HostAnswers
  <2>3. CASE ~ Cardinality(colons) > 1 /\ colons # {}
    <3> DEFINE host == UpTo(authority, colon - 1)  port == ParsePort(After(authority, colon))
    <3>1. ParseUnbracketed(authority) = HostAndPort(host, port)
      BY <2>3 DEF ParseUnbracketed
    <3>2. host \in Text
      <4>1. colon \in 1 .. Len(authority) /\ Len(authority) \in Nat
        BY <2>3, FirstPosition, TextLength
      <4>2. colon - 1 \in 0 .. Len(authority)
        BY <4>1
      <4> HIDE DEF colon, colons
      <4> QED BY <4>2, CutsAreTexts
    <3> HIDE DEF host
    <3>3. \/ port = Ok(port.value) /\ port.value \in PortRange
          \/ port = Err(<<"InvalidPort">>)
      BY <1>3
    <3> HIDE DEF port
    <3> QED BY <3>1, <3>2, <3>3, HostAnswers
  <2> QED BY <2>1, <2>2, <2>3
<1> QED BY <1>5, <1>6 DEF ParseAuthority

\* parse_with_policy answers a URL with an upstream as it is kept, or refuses it.
LEMMA UpstreamAnswers ==
  ASSUME NEW url \in Text, NEW policy
  PROVE  LET parsed == HttpUpstreamParse(url, policy)
         IN  \/ parsed = Ok(parsed.value) /\ IsKeptUpstream(parsed.value, policy)
             \/ IsRefusal(parsed, HttpUpstreamErrors)
<1> DEFINE separator == Min(SchemeEnds(url))
           scheme    == ParseScheme(UpTo(url, separator - 1))
           rest      == After(url, separator + 2)
           parsed    == HttpUpstreamParse(url, policy)
<1>1. \A e \in HttpUpstreamErrors : IsRefusal(Err(e), HttpUpstreamErrors)
  BY Answers DEF IsRefusal
<1>2. \A e \in {"InvalidUrl", "UnsupportedScheme", "MissingHost", "CredentialsNotSupported",
                "QueryNotSupported", "FragmentNotSupported"} : <<e>> \in HttpUpstreamErrors
  BY DEF HttpUpstreamErrors
<1>3. CASE SchemeEnds(url) = {}
  <2>1. parsed = Err(<<"InvalidUrl">>)
    BY <1>3 DEF HttpUpstreamParse
  <2> QED BY <1>1, <1>2, <2>1
<1>4. CASE SchemeEnds(url) # {} /\ ~ scheme.ok
  <2>1. scheme = Err(<<"UnsupportedScheme">>)
    BY <1>4, Answers DEF ParseScheme
  <2>2. parsed = scheme
    BY <1>4 DEF HttpUpstreamParse
  <2> QED BY <1>1, <1>2, <2>1, <2>2
<1>5. CASE SchemeEnds(url) # {} /\ scheme.ok
  <2>1. parsed = ParseRest(scheme.value, rest, policy)
    BY <1>5 DEF HttpUpstreamParse
  <2>2. scheme.value \in Schemes
    BY <1>5, Answers DEF ParseScheme
  <2>3. rest \in Text
    <3>0. Len(url) \in Nat
      BY TextLength
    <3>1. SchemeEnds(url) \in SUBSET Nat /\ SchemeEnds(url) \subseteq 1 .. Len(url) - 2
      BY <3>0 DEF SchemeEnds
    <3>2. PICK k \in SchemeEnds(url) : \A j \in SchemeEnds(url) : k =< j
      BY <1>5, <3>1, LeastNumber
    <3>3. separator \in SchemeEnds(url)
      BY <3>2 DEF Min
    <3> HIDE DEF separator
    <3>4. separator + 2 \in 0 .. Len(url)
      BY <3>0, <3>1, <3>3
    <3> QED BY <3>4, CutsAreTexts
  <2> HIDE DEF rest, scheme, parsed
  <2> DEFINE authority == UpTo(rest, AuthorityLength(rest))
             path      == After(rest, AuthorityLength(rest))
             part      == ParseAuthority(authority)
  <2>4. \/ \E e \in {"QueryNotSupported", "FragmentNotSupported", "MissingHost",
                     "CredentialsNotSupported"} : parsed = Err(<<e>>)
        \/ /\ parsed = UpstreamFrom(scheme.value, part, path, policy)
           /\ Positions(rest, Question) = {} /\ Positions(rest, Hash) = {}
    BY <2>1 DEF ParseRest
  <2>5. CASE \E e \in {"QueryNotSupported", "FragmentNotSupported", "MissingHost",
                       "CredentialsNotSupported"} : parsed = Err(<<e>>)
    BY <1>1, <1>2, <2>5 DEF parsed
  <2>6. CASE /\ parsed = UpstreamFrom(scheme.value, part, path, policy)
             /\ Positions(rest, Question) = {} /\ Positions(rest, Hash) = {}
    <3> DEFINE cut == AuthorityLength(rest)
    <3>1. cut \in 0 .. Len(rest) /\ Len(rest) \in Nat
          /\ \/ cut = Len(rest)
             \/ cut + 1 \in 1 .. Len(rest) /\ rest[cut + 1] = Slash
      <4>1. Len(rest) \in Nat
        BY <2>3, TextLength
      <4>2. CASE Positions(rest, Slash) = {}
        BY <4>1, <4>2 DEF AuthorityLength
      <4>3. CASE Positions(rest, Slash) # {}
        <5> DEFINE first == Min(Positions(rest, Slash))
        <5>1. first \in 1 .. Len(rest) /\ rest[first] = Slash
          BY <2>3, <4>3, FirstPosition
        <5>2. cut = first - 1
          BY <4>3 DEF AuthorityLength
        <5> HIDE DEF cut, first
        <5>3. cut + 1 = first
          BY <4>1, <5>1, <5>2
        <5> QED BY <4>1, <5>1, <5>2, <5>3
      <4> QED BY <4>2, <4>3
    <3> HIDE DEF cut
    <3>2. /\ UpTo(rest, cut) \in Text /\ After(rest, cut) \in Text
          /\ Len(After(rest, cut)) = Len(rest) - cut
          /\ \A j \in 1 .. Len(rest) - cut : After(rest, cut)[j] = rest[cut + j]
          /\ \A c \in {Question, Hash} : Positions(After(rest, cut), c) = {}
      BY <2>3, <2>6, <3>1, CutsAreTexts
    <3> DEFINE base == IF path = <<>> THEN <<Slash>> ELSE path
    <3>3. base \in Text /\ BeginsWith(base, Slash) /\ \A c \in {Question, Hash} : Positions(base, c) = {}
      <4>1. CASE path = <<>>
        <5>1. <<Slash>> \in Text /\ <<Slash>>[1] = Slash /\ <<Slash>> # <<>>
              /\ \A c \in {Question, Hash} : Positions(<<Slash>>, c) = {}
          <6>1. Slash \in Byte /\ Slash \notin {Question, Hash}
            BY DEF Slash, Byte, Question, Hash
          <6>2. Len(<<Slash>>) = 1
            OBVIOUS
          <6> QED BY <6>1, <6>2, SmallTexts, TextLength
        <5> QED BY <4>1, <5>1 DEF BeginsWith
      <4>2. CASE path # <<>>
        <5>1. path = After(rest, cut)
          BY DEF cut
        <5>2. Len(rest) - cut # 0
          BY <3>2, <4>2, <5>1, TextLength
        <5>3. 1 \in 1 .. Len(rest) - cut /\ rest[cut + 1] = Slash
          BY <3>1, <5>2
        <5>4. After(rest, cut)[1] = Slash
          BY <3>2, <5>3
        <5> HIDE DEF path
        <5> QED BY <3>2, <4>2, <5>1, <5>4 DEF BeginsWith
      <4> QED BY <4>1, <4>2
    <3>4. authority \in Text
      BY <3>2 DEF cut
    <3>5. IsAuthority(part) \/ IsRefusal(part, HttpUpstreamErrors)
      <4> HIDE DEF authority
      <4> QED BY <3>4, AuthorityAnswers
    <3> HIDE DEF base, part, authority
    <3>6. CASE IsRefusal(part, HttpUpstreamErrors)
      <4>1. ~ part.ok
        BY <3>6, Answers DEF IsRefusal
      <4>2. parsed = part
        BY <2>6, <4>1 DEF UpstreamFrom
      <4> QED BY <3>6, <4>2 DEF parsed
    <3>7. CASE IsAuthority(part)
      <4> DEFINE u == [scheme |-> scheme.value, host |-> part.value.host, port |-> part.value.port,
                       base_path |-> base, host_header_policy |-> policy]
      <4>1. part.ok /\ IsKeptHost(part.value.host) /\ part.value.port \in PortRange
        BY <3>7, Answers DEF IsAuthority
      <4>2. parsed = Ok(u)
        BY <2>6, <4>1 DEF UpstreamFrom, base
      <4>3. /\ u.scheme = scheme.value /\ u.host = part.value.host /\ u.port = part.value.port
            /\ u.base_path = base
        OBVIOUS
      <4>4. u = [scheme |-> u.scheme, host |-> u.host, port |-> u.port, base_path |-> u.base_path,
                 host_header_policy |-> policy]
        OBVIOUS
      <4> HIDE DEF u
      <4>5. IsKeptUpstream(u, policy)
        BY <2>2, <3>3, <4>1, <4>3, <4>4 DEF IsKeptUpstream
      <4>6. parsed.value = u
        BY <4>2, Answers
      <4> QED BY <4>2, <4>5, <4>6 DEF parsed
    <3> QED BY <3>5, <3>6, <3>7
  <2> QED BY <2>4, <2>5, <2>6
<1> QED BY <1>3, <1>4, <1>5

-----------------------------------------------------------------------------
\* What is printed for a target is read as that target, and so are its other
\* spellings.

\* The text stands for the host in an authority, with any port behind it.
Spells(text, host) ==
  /\ text \in Text /\ text # <<>>
  /\ \A c \in {Slash, Question, Hash, At} : Positions(text, c) = {}
  /\ ParseAuthority(text) = Ok([host |-> host, port |-> NoPort])
  /\ \A raw \in Text : Positions(raw, Colon) = {} /\ ParsePort(raw).ok =>
       ParseAuthority(text \o WithPort(raw)) = Ok([host |-> host, port |-> ParsePort(raw).value])

\* A text that is read as a name stands for that host.
LEMMA NameIsSpelled ==
  ASSUME NEW text \in Text, NEW name, RemapNameParse(text) = Ok(name), text \notin AddressLiterals,
         \A c \in Punctuation : Positions(text, c) = {}
  PROVE  Spells(text, UpstreamName(name))
<1>1. text # <<>>
  BY Answers DEF RemapNameParse
<1>2. Positions(text, Colon) = {} /\ ~ BeginsWith(text, OpenBracket)
  <2>1. Positions(text, Colon) = {} /\ Positions(text, OpenBracket) = {}
    BY DEF Punctuation
  <2>2. 1 \in 1 .. Len(text)
    BY <1>1, TextLength
  <2> QED BY <2>1, <2>2 DEF BeginsWith, Positions
<1>3. RemapNameParse(text).ok /\ RemapNameParse(text).value = name
  BY Answers
<1>4. ASSUME NEW port, port.ok
      PROVE  HostAndPort(text, port) = Ok([host |-> UpstreamName(name), port |-> port.value])
  BY <1>1, <1>3, <1>4 DEF HostAndPort
<1>5. ParseAuthority(text) = Ok([host |-> UpstreamName(name), port |-> NoPort])
  <2>1. <<>> \in Text /\ Positions(<<>>, Colon) = {}
    BY DEF Text, Positions
  <2>2. ParseAuthority(text) = HostAndPort(text, Ok(NoPort))
    BY <1>1, <1>2, <2>1, NamedAuthority
  <2> QED BY <1>4, <2>2, Answers
<1>6. ASSUME NEW raw \in Text, Positions(raw, Colon) = {}, ParsePort(raw).ok
      PROVE  ParseAuthority(text \o WithPort(raw))
               = Ok([host |-> UpstreamName(name), port |-> ParsePort(raw).value])
  <2>1. ParseAuthority(text \o WithPort(raw)) = HostAndPort(text, ParsePort(raw))
    BY <1>1, <1>2, <1>6, NamedAuthority
  <2> QED BY <1>4, <1>6, <2>1
<1>7. \A c \in {Slash, Question, Hash, At} : Positions(text, c) = {}
  BY DEF Punctuation
<1> QED BY <1>1, <1>5, <1>6, <1>7 DEF Spells

\* A literal stands for its address, one of version 6 between brackets.
LEMMA AddressIsSpelled ==
  ASSUME NEW t \in AddressLiterals
  PROVE  /\ t \in Ipv6Literals => Spells(Bracketed(t), UpstreamAddress(t))
         /\ t \notin Ipv6Literals => Spells(t, UpstreamAddress(t))
<1>1. t \in Text /\ t # <<>> /\ \A c \in Punctuation \ {Colon} : Positions(t, c) = {}
  BY AddressLacks
<1>2. /\ {Slash, Question, Hash, At, OpenBracket, CloseBracket} \subseteq Punctuation \ {Colon}
      /\ OpenBracket \in Byte /\ CloseBracket \in Byte
      /\ OpenBracket \notin {Slash, Question, Hash, At}
      /\ CloseBracket \notin {Slash, Question, Hash, At}
  BY DEF Punctuation, Colon, Slash, Question, At, Hash, OpenBracket, CloseBracket, Byte
<1>3. <<>> \in Text /\ Positions(<<>>, Colon) = {}
  BY DEF Text, Positions
<1>4. ASSUME t \in Ipv6Literals PROVE Spells(Bracketed(t), UpstreamAddress(t))
  <2> DEFINE text == Bracketed(t)
  <2>1. text \in Text /\ text # <<>>
    BY <1>1, BracketedText
  <2>2. \A c \in {Slash, Question, Hash, At} : Positions(text, c) = {}
    <3> SUFFICES ASSUME NEW c \in {Slash, Question, Hash, At} PROVE Positions(text, c) = {}
      OBVIOUS
    <3>1. /\ <<OpenBracket>> \in Text /\ Positions(<<OpenBracket>>, c) = {}
          /\ <<CloseBracket>> \in Text /\ Positions(<<CloseBracket>>, c) = {}
      BY <1>2, SmallTexts
    <3>2. Positions(t, c) = {}
      BY <1>1, <1>2
    <3>3. <<OpenBracket>> \o t \in Text /\ Positions(<<OpenBracket>> \o t, c) = {}
      BY <1>1, <3>1, <3>2, JoinedTexts, JoinedLacks
    <3> QED BY <3>1, <3>3, JoinedLacks DEF Bracketed
  <2>3. Positions(t, CloseBracket) = {}
    BY <1>1, <1>2
  <2>4. ParseAuthority(text) = Ok([host |-> UpstreamAddress(t), port |-> NoPort])
    <3>1. ParseAuthority(text \o <<>>) = Ok([host |-> UpstreamAddress(t), port |-> NoPort])
      <4>1. <<>> = <<>> /\ Ok(NoPort).ok /\ Ok(NoPort).value = NoPort
        BY Answers
      <4> HIDE DEF text
      <4>2. LET port == IF <<>> = <<>> THEN Ok(NoPort) ELSE ParsePort(Tail(<<>>))
            IN  ParseAuthority(Bracketed(t) \o <<>>) =
                  IF port.ok THEN Ok([host |-> UpstreamAddress(t), port |-> port.value]) ELSE port
        BY <1>3, <1>4, <2>3, BracketedAuthority
      <4> QED BY <4>1, <4>2 DEF text
    <3> HIDE DEF text
    <3>2. text \o <<>> = text
      BY <2>1, ConcatEmptySeq DEF Text
    <3> QED BY <3>1, <3>2
  <2>5. ASSUME NEW raw \in Text, Positions(raw, Colon) = {}, ParsePort(raw).ok
        PROVE  ParseAuthority(text \o WithPort(raw))
                 = Ok([host |-> UpstreamAddress(t), port |-> ParsePort(raw).value])
    <3> DEFINE tail == WithPort(raw)
    <3>1. tail \in Text /\ BeginsWith(tail, Colon) /\ tail # <<>> /\ Tail(tail) = raw
      BY PortBehindColon
    <3> HIDE DEF tail
    <3>2. LET port == IF tail = <<>> THEN Ok(NoPort) ELSE ParsePort(Tail(tail))
          IN  ParseAuthority(Bracketed(t) \o tail) =
                IF port.ok THEN Ok([host |-> UpstreamAddress(t), port |-> port.value]) ELSE port
      BY <1>4, <2>3, <3>1, BracketedAuthority
    <3> QED BY <2>5, <3>1, <3>2 DEF tail
  <2> HIDE DEF text
  <2>6. Spells(text, UpstreamAddress(t))
    BY <2>1, <2>2, <2>4, <2>5 DEF Spells
  <2> QED BY <2>6 DEF text
<1>5. ASSUME t \notin Ipv6Literals PROVE Spells(t, UpstreamAddress(t))
  <2>1. Positions(t, Colon) = {} /\ ~ BeginsWith(t, OpenBracket)
    <3>1. Positions(t, Colon) = {} /\ Positions(t, OpenBracket) = {}
      BY <1>1, <1>2, <1>5, AddressLacks
    <3>2. 1 \in 1 .. Len(t)
      BY <1>1, TextLength
    <3> QED BY <3>1, <3>2 DEF BeginsWith, Positions
  <2>2. ASSUME NEW port, port.ok
        PROVE  HostAndPort(t, port) = Ok([host |-> UpstreamAddress(t), port |-> port.value])
    BY <1>1, <2>2 DEF HostAndPort
  <2>3. ParseAuthority(t) = Ok([host |-> UpstreamAddress(t), port |-> NoPort])
    <3>1. ParseAuthority(t) = HostAndPort(t, Ok(NoPort))
      BY <1>1, <1>3, <2>1, NamedAuthority
    <3> QED BY <2>2, <3>1, Answers
  <2>4. ASSUME NEW raw \in Text, Positions(raw, Colon) = {}, ParsePort(raw).ok
        PROVE  ParseAuthority(t \o WithPort(raw))
                 = Ok([host |-> UpstreamAddress(t), port |-> ParsePort(raw).value])
    <3>1. ParseAuthority(t \o WithPort(raw)) = HostAndPort(t, ParsePort(raw))
      BY <1>1, <2>1, <2>4, NamedAuthority
    <3> QED BY <2>2, <2>4, <3>1
  <2>5. \A c \in {Slash, Question, Hash, At} : Positions(t, c) = {}
    BY <1>1, <1>2
  <2> QED BY <1>1, <2>3, <2>4, <2>5 DEF Spells
<1> QED BY <1>4, <1>5

\* A name that was accepted, in upper case and with a root dot, is that name.
LEMMA DottedName ==
  ASSUME NEW name \in Text, RemapNameParse(name) = Ok(name)
  PROVE  LET upper == ToAsciiUppercase(name)  dotted == Append(upper, Dot)
         IN  /\ dotted \in Text /\ dotted \notin AddressLiterals /\ RemapNameParse(dotted) = Ok(name)
             /\ dotted = upper \o <<Dot>> /\ \A c \in Punctuation : Positions(dotted, c) = {}
             /\ SchemeEnds(dotted) = {}
<1> DEFINE upper == ToAsciiUppercase(name)  dotted == Append(upper, Dot)
<1>1. FaultySpans(name) = {} /\ ToAsciiLowercase(name) = name
  <2>1. RemapNameParse(name).ok /\ RemapNameParse(name).value = name
    BY Answers
  <2> QED BY <2>1, AcceptedName
<1>2. \A c \in Punctuation : Positions(name, c) = {}
  BY <1>1, NameLacks
<1>3. /\ upper \in Text /\ ToAsciiLowercase(upper) = name /\ ~ EndsWith(upper, Dot)
      /\ \A c \in Punctuation : Positions(upper, c) = {}
  BY <1>1, <1>2, FaultlessHasNoRootDot, UppercaseIsText
<1> HIDE DEF upper
<1>4. RemapNameParse(dotted) = Ok(name)
  BY <1>3, NameSpelling
<1>5. dotted \in Text /\ dotted = upper \o <<Dot>> /\ EndsWith(dotted, Dot)
  <2>1. Dot \in Byte /\ upper \in Seq(Byte)
    BY <1>3 DEF Dot, Byte, Text
  <2>2. dotted \in Seq(Byte) /\ Len(dotted) = Len(upper) + 1 /\ dotted[Len(upper) + 1] = Dot
    BY <2>1, AppendProperties
  <2>3. dotted = upper \o <<Dot>>
    BY <2>1, AppendIsConcat
  <2>4. dotted # <<>>
    <3>1. Len(upper) + 1 # 0
      BY <1>3, TextLength
    <3> HIDE DEF dotted
    <3> QED BY <2>2, <3>1, TextLength DEF Text
  <2> HIDE DEF dotted
  <2> QED BY <2>2, <2>3, <2>4 DEF EndsWith, Text
<1>6. \A c \in Punctuation : Positions(dotted, c) = {}
  <2> SUFFICES ASSUME NEW c \in Punctuation PROVE Positions(dotted, c) = {}
    OBVIOUS
  <2>1. <<Dot>> \in Text /\ Positions(<<Dot>>, c) = {}
    <3>1. Dot \in Byte /\ Dot # c
      BY PunctuationBytes DEF Dot, Byte
    <3> QED BY <3>1, SmallTexts
  <2> HIDE DEF dotted
  <2> QED BY <1>3, <1>5, <2>1, JoinedLacks
<1>7. dotted \notin AddressLiterals
  BY <1>5, AddressLacks
<1>8. SchemeEnds(dotted) = {}
  <2>1. Slash \in Punctuation
    BY DEF Punctuation
  <2> HIDE DEF dotted
  <2> QED BY <1>5, <1>6, <2>1, NoSlashNoScheme
<1> QED BY <1>4, <1>5, <1>6, <1>7, <1>8 DEF upper

\* Case and a root dot do not show in a host.
LEMMA KeptHostIsSpelled ==
  ASSUME NEW host, IsKeptHost(host)
  PROVE  /\ Spells(UpstreamHostDisplay(host), host)
         /\ Spells(RespelledHost(host), host)
<1>1. CASE /\ host = UpstreamName(host.text) /\ host.text \in Text
           /\ RemapNameParse(host.text) = Ok(host.text)
  <2> DEFINE name == host.text  upper == ToAsciiUppercase(name)  dotted == Append(upper, Dot)
  <2>1. /\ name \in Text /\ name \notin AddressLiterals /\ FaultySpans(name) = {}
        /\ ToAsciiLowercase(name) = name
    <3>1. RemapNameParse(name).ok /\ RemapNameParse(name).value = name
      BY <1>1, Answers
    <3> QED BY <1>1, <3>1, AcceptedName
  <2>2. host.kind = "Name" /\ host = UpstreamName(name)
    BY <1>1 DEF UpstreamName
  <2>3. \A c \in Punctuation : Positions(name, c) = {}
    BY <2>1, NameLacks
  <2>4. UpstreamHostDisplay(host) = name
    BY <2>2 DEF UpstreamHostDisplay
  <2>5. Spells(name, host)
    <3> HIDE DEF name
    <3>1. RemapNameParse(name) = Ok(name)
      BY <1>1 DEF name
    <3> QED BY <2>1, <2>2, <2>3, <3>1, NameIsSpelled
  <2>6. /\ dotted \in Text /\ dotted \notin AddressLiterals /\ RemapNameParse(dotted) = Ok(name)
        /\ dotted = upper \o <<Dot>> /\ \A c \in Punctuation : Positions(dotted, c) = {}
    BY <1>1, DottedName
  <2>7. Spells(dotted, host)
    <3> HIDE DEF dotted, name
    <3> QED BY <2>2, <2>6, NameIsSpelled
  <2>8. RespelledHost(host) = dotted
    <3>1. RespelledHost(host) = ToAsciiUppercase(name) \o <<Dot>>
      BY <2>2, <2>4 DEF RespelledHost
    <3> QED BY <2>6, <3>1
  <2> QED BY <2>4, <2>5, <2>7, <2>8
<1>2. CASE /\ host = [kind |-> "Address", text |-> host.text] /\ host.text \in AddressLiterals
           /\ AddressDisplay[host.text] = host.text
  <2> DEFINE t == host.text  upper == ToAsciiUppercase(t)
  <2>1. t \in AddressLiterals /\ AddressDisplay[t] = t /\ t \in Text
    BY <1>2, NamesAssumption
  <2>2. host = UpstreamAddress(t) /\ host.kind = "Address"
    BY <1>2 DEF UpstreamAddress
  <2> HIDE DEF t
  <2>3. /\ upper \in AddressLiterals /\ AddressDisplay[upper] = t
        /\ upper \in Ipv6Literals <=> t \in Ipv6Literals
    BY <2>1, UppercaseAddress
  <2>4. UpstreamAddress(upper) = host
    BY <2>1, <2>2, <2>3 DEF UpstreamAddress
  <2>5. CASE t \in Ipv6Literals
    <3>1. UpstreamHostDisplay(host) = Bracketed(t)
      BY <2>2, <2>5 DEF UpstreamHostDisplay, Bracketed, t
    <3>2. Spells(Bracketed(t), host)
      BY <2>1, <2>2, <2>5, AddressIsSpelled
    <3>3. Spells(Bracketed(upper), host)
      BY <2>3, <2>4, <2>5, AddressIsSpelled
    <3>4. ToAsciiUppercase(Bracketed(t)) = Bracketed(upper)
      <4> DEFINE b == Bracketed(t)
      <4>1. /\ b \in Text /\ Len(b) = Len(t) + 2 /\ b[1] = OpenBracket /\ Len(t) \in Nat
            /\ \A i \in 1 .. Len(t) : b[1 + i] = t[i]
            /\ b[Len(t) + 2] = CloseBracket
        BY <2>1, BracketedText, TextLength
      <4>2. upper \in Text /\ Len(upper) = Len(t) /\ \A i \in 1 .. Len(t) : upper[i] = AsciiUpper(t[i])
        BY <2>1, UppercaseIsText
      <4> HIDE DEF upper
      <4>3. /\ Bracketed(upper) \in Text /\ Len(Bracketed(upper)) = Len(t) + 2
            /\ Bracketed(upper)[1] = OpenBracket
            /\ \A i \in 1 .. Len(t) : Bracketed(upper)[1 + i] = upper[i]
            /\ Bracketed(upper)[Len(t) + 2] = CloseBracket
        BY <4>2, BracketedText
      <4> HIDE DEF b
      <4>4. /\ ToAsciiUppercase(b) \in Text /\ Len(ToAsciiUppercase(b)) = Len(b)
            /\ \A i \in 1 .. Len(b) : ToAsciiUppercase(b)[i] = AsciiUpper(b[i])
        BY <4>1, UppercaseIsText
      <4>5. AsciiUpper(OpenBracket) = OpenBracket /\ AsciiUpper(CloseBracket) = CloseBracket
        BY DEF AsciiUpper, OpenBracket, CloseBracket
      <4>6. ASSUME NEW i \in 1 .. Len(t) + 2
            PROVE  AsciiUpper(b[i]) = Bracketed(upper)[i]
        <5>1. CASE i = 1
          BY <4>1, <4>3, <4>5, <5>1
        <5>2. CASE i = Len(t) + 2
          BY <4>1, <4>3, <4>5, <5>2
        <5>3. CASE i # 1 /\ i # Len(t) + 2
          <6> DEFINE j == i - 1
          <6>1. j \in 1 .. Len(t) /\ i = 1 + j
            BY <4>1, <5>3
          <6> HIDE DEF j
          <6>2. b[i] = t[j] /\ Bracketed(upper)[i] = upper[j]
            BY <4>1, <4>3, <6>1
          <6> QED BY <4>2, <6>1, <6>2
        <5> QED BY <5>1, <5>2, <5>3
      <4> DEFINE v == ToAsciiUppercase(b)  w == Bracketed(upper)
      <4>7. /\ v \in Seq(Byte) /\ w \in Seq(Byte) /\ Len(v) = Len(w)
            /\ \A i \in 1 .. Len(v) : v[i] = w[i]
        BY <4>1, <4>3, <4>4, <4>6 DEF Text
      <4> HIDE DEF v, w
      <4>8. v = w
        BY <4>7, SeqEqual
      <4> QED BY <4>8 DEF v, w, b
    <3>5. RespelledHost(host) = Bracketed(upper)
      <4>1. RespelledHost(host) = Bracketed(upper) \o <<>>
        BY <2>2, <3>1, <3>4 DEF RespelledHost
      <4>2. Bracketed(upper) \in Seq(Byte)
        <5>1. upper \in Text
          BY <2>3, NamesAssumption
        <5> HIDE DEF upper
        <5> QED BY <5>1, BracketedText DEF Text
      <4> HIDE DEF upper
      <4> QED BY <4>1, <4>2, ConcatEmptySeq
    <3> QED BY <3>1, <3>2, <3>3, <3>5
  <2>6. CASE t \notin Ipv6Literals
    <3>1. UpstreamHostDisplay(host) = t
      BY <2>2, <2>6 DEF UpstreamHostDisplay, t
    <3>2. Spells(t, host)
      BY <2>1, <2>2, <2>6, AddressIsSpelled
    <3>3. Spells(upper, host)
      BY <2>3, <2>4, <2>6, AddressIsSpelled
    <3>4. RespelledHost(host) = upper
      <4>1. RespelledHost(host) = upper \o <<>>
        BY <2>2, <3>1 DEF RespelledHost
      <4>2. upper \in Seq(Byte)
        BY <2>3, NamesAssumption DEF Text
      <4> HIDE DEF upper
      <4> QED BY <4>1, <4>2, ConcatEmptySeq
    <3> QED BY <3>1, <3>2, <3>3, <3>4
  <2> QED BY <2>5, <2>6
<1> QED BY <1>1, <1>2 DEF IsKeptHost

\* Three texts, put together in two ways.
LEMMA ThreeJoined ==
  ASSUME NEW a \in Text, NEW b \in Text, NEW c \in Text
  PROVE  (a \o b) \o c = a \o (b \o c)
BY ConcatAssociative DEF Text

\* A URL of five parts, from left to right and as scheme and rest.
Joined(a, b, c, d, e) == a \o b \o c \o d \o e
Halves(a, b, c, d, e) == (a \o b) \o ((c \o d) \o e)

\* They are one text.
LEMMA FiveJoined ==
  ASSUME NEW a \in Text, NEW b \in Text, NEW c \in Text, NEW d \in Text, NEW e \in Text
  PROVE  Halves(a, b, c, d, e) = Joined(a, b, c, d, e)
<1>1. PICK ab \in Text : ab = a \o b
  BY JoinedTexts
<1>2. PICK cd \in Text : cd = c \o d
  BY JoinedTexts
<1>3. (ab \o c) \o d = ab \o cd
  BY <1>2, ThreeJoined
<1>4. (ab \o cd) \o e = ab \o (cd \o e)
  BY ThreeJoined
<1> QED BY <1>1, <1>2, <1>3, <1>4 DEF Halves, Joined

\* An upstream that is written out, with a host and a port spelled in any way.
LEMMA UpstreamIsRead ==
  ASSUME NEW policy, NEW u, IsKeptUpstream(u, policy),
         NEW s \in Text, ToAsciiLowercase(s) = u.scheme,
         NEW host, Spells(host, u.host),
         NEW port \in Text,
         IF u.port = NoPort THEN port = <<>>
         ELSE \E raw \in Text : /\ port = WithPort(raw) /\ IsDigits(raw)
                                /\ ParsePort(raw) = Ok(u.port)
  PROVE  LET url == s \o SchemeEnd \o host \o port \o u.base_path
         IN  /\ url \in Text /\ SchemeEnds(url) # {}
             /\ HttpUpstreamParse(url, policy) = Ok(u)
<1> DEFINE authority == host \o port  path == u.base_path
<1>1. /\ u.scheme \in Schemes /\ u.port \in PortRange /\ path \in Text /\ BeginsWith(path, Slash)
      /\ \A c \in {Question, Hash} : Positions(path, c) = {}
  BY DEF IsKeptUpstream
<1>2. /\ host \in Text /\ host # <<>>
      /\ \A c \in {Slash, Question, Hash, At} : Positions(host, c) = {}
      /\ ParseAuthority(host) = Ok([host |-> u.host, port |-> NoPort])
      /\ \A raw \in Text : Positions(raw, Colon) = {} /\ ParsePort(raw).ok =>
           ParseAuthority(host \o WithPort(raw)) = Ok([host |-> u.host, port |-> ParsePort(raw).value])
  BY DEF Spells
<1>3. /\ authority \in Text /\ authority # <<>>
      /\ \A c \in {Slash, Question, Hash, At} : Positions(authority, c) = {}
      /\ ParseAuthority(authority) = Ok([host |-> u.host, port |-> u.port])
  <2>1. CASE u.port = NoPort
    <3>1. authority = host
      BY <1>2, <2>1, ConcatEmptySeq DEF Text
    <3> QED BY <1>2, <2>1, <3>1
  <2>2. CASE u.port # NoPort
    <3>1. PICK raw \in Text : port = WithPort(raw) /\ IsDigits(raw) /\ ParsePort(raw) = Ok(u.port)
      BY <2>2
    <3>2. \A c \in Punctuation : Positions(raw, c) = {}
      BY <3>1, DigitsLack
    <3>3. Colon \in Punctuation /\ {Slash, Question, Hash, At} \subseteq Punctuation
          /\ Colon \notin {Slash, Question, Hash, At}
      BY DEF Punctuation, Colon, Slash, Question, Hash, At
    <3>4. \A c \in {Slash, Question, Hash, At} : Positions(port, c) = {}
      BY <3>1, <3>2, <3>3, PortBehindColon
    <3>5. authority \in Text /\ \A c \in {Slash, Question, Hash, At} : Positions(authority, c) = {}
      BY <1>2, <3>4, JoinedTexts, JoinedLacks
    <3>6. authority # <<>>
      BY <1>2, ConcatEqualIffEmpty DEF Text
    <3>7. ParsePort(raw).ok /\ ParsePort(raw).value = u.port
      BY <3>1, Answers
    <3>8. ParseAuthority(authority) = Ok([host |-> u.host, port |-> u.port])
      BY <1>2, <3>1, <3>2, <3>3, <3>7
    <3> QED BY <3>5, <3>6, <3>8
  <2> QED BY <2>1, <2>2
<1> DEFINE url == (s \o SchemeEnd) \o (authority \o path)
<1>4. /\ url \in Text /\ SchemeEnds(url) # {}
      /\ HttpUpstreamParse(url, policy) = UpstreamFrom(u.scheme, ParseAuthority(authority), path, policy)
  <2> HIDE DEF authority, path
  <2> QED BY <1>1, <1>3, AssembledUrl
<1>5. UpstreamFrom(u.scheme, ParseAuthority(authority), path, policy) = Ok(u)
  <2> DEFINE parsed == ParseAuthority(authority)
  <2>1. parsed.ok /\ parsed.value.host = u.host /\ parsed.value.port = u.port
    <3> HIDE DEF authority
    <3> QED BY <1>3, Answers
  <2>2. path # <<>>
    BY <1>1 DEF BeginsWith
  <2> HIDE DEF parsed, path
  <2>3. UpstreamFrom(u.scheme, parsed, path, policy)
          = Ok([scheme |-> u.scheme, host |-> u.host, port |-> u.port, base_path |-> path,
                host_header_policy |-> policy])
    BY <2>1, <2>2 DEF UpstreamFrom
  <2>4. u = [scheme |-> u.scheme, host |-> u.host, port |-> u.port, base_path |-> path,
             host_header_policy |-> policy]
    BY DEF IsKeptUpstream, path
  <2> QED BY <2>3, <2>4 DEF parsed
<1>6. url = s \o SchemeEnd \o host \o port \o path
  <2>1. SchemeEnd \in Text /\ host \in Text /\ path \in Text
    BY <1>1, <1>2, SmallTexts
  <2>2. Halves(s, SchemeEnd, host, port, path) = Joined(s, SchemeEnd, host, port, path)
    <3> HIDE DEF path
    <3> QED BY <2>1, FiveJoined
  <2> QED BY <2>2 DEF Halves, Joined
<1> QED BY <1>4, <1>5, <1>6

IsKept(target, policy) ==
  \/ /\ target = [kind |-> "DnsAddress", address |-> target.address]
     /\ target.address \in AddressLiterals /\ AddressDisplay[target.address] = target.address
  \/ /\ target = DnsAlias(target.name) /\ target.name \in Text
     /\ RemapNameParse(target.name) = Ok(target.name)
  \/ target = Http(target.upstream) /\ IsKeptUpstream(target.upstream, policy)

\* parse_with_http_policy answers every text with a target as it is kept, or with
\* one of the errors.
LEMMA TargetAnswers ==
  ASSUME NEW text \in Text, NEW policy
  PROVE  LET parsed == ParseWithHttpPolicy(text, policy)
         IN  \/ parsed = Ok(parsed.value) /\ IsKept(parsed.value, policy)
             \/ IsRefusal(parsed, MappingTargetErrors)
<1> DEFINE parsed == ParseWithHttpPolicy(text, policy)
<1>1. \A e \in MappingTargetErrors : IsRefusal(Err(e), MappingTargetErrors)
  BY Answers DEF IsRefusal
<1>2. CASE SchemeEnds(text) # {}
  <2> DEFINE upstream == HttpUpstreamParse(text, policy)
  <2>1. parsed = HttpTarget(upstream)
    BY <1>2 DEF ParseWithHttpPolicy
  <2>2. \/ upstream = Ok(upstream.value) /\ IsKeptUpstream(upstream.value, policy)
        \/ IsRefusal(upstream, HttpUpstreamErrors)
    BY UpstreamAnswers
  <2> HIDE DEF upstream, parsed
  <2>3. CASE upstream = Ok(upstream.value) /\ IsKeptUpstream(upstream.value, policy)
    <3> DEFINE u == upstream.value
    <3>1. upstream.ok
      BY <2>3, Answers
    <3>2. parsed = Ok(Http(u)) /\ parsed.value = Http(u)
      BY <2>1, <3>1, Answers DEF HttpTarget
    <3>3. parsed.value.upstream = u
      BY <3>2 DEF Http
    <3>4. IsKept(parsed.value, policy)
      BY <2>3, <3>2, <3>3 DEF IsKept
    <3> QED BY <3>2, <3>4 DEF parsed
  <2>4. CASE IsRefusal(upstream, HttpUpstreamErrors)
    <3>1. ~ upstream.ok /\ upstream.error \in HttpUpstreamErrors
      BY <2>4, Answers DEF IsRefusal
    <3>2. parsed = Err(<<"InvalidHttpUpstream">> \o upstream.error)
      BY <2>1, <3>1 DEF HttpTarget
    <3>3. <<"InvalidHttpUpstream">> \o upstream.error \in MappingTargetErrors
      BY <3>1 DEF MappingTargetErrors
    <3> QED BY <1>1, <3>2, <3>3 DEF parsed
  <2> QED BY <2>2, <2>3, <2>4
<1>3. CASE SchemeEnds(text) = {} /\ text \in AddressLiterals
  <2> DEFINE shown == AddressDisplay[text]
  <2>1. shown \in AddressLiterals /\ AddressDisplay[shown] = shown
    BY <1>3, TargetsAssumption
  <2>2. parsed = Ok([kind |-> "DnsAddress", address |-> shown])
    BY <1>3 DEF ParseWithHttpPolicy, DnsAddress
  <2> HIDE DEF shown, parsed
  <2>3. parsed.value = [kind |-> "DnsAddress", address |-> shown]
    BY <2>2, Answers
  <2>4. parsed.value.address = shown
    BY <2>3
  <2>5. IsKept(parsed.value, policy)
    BY <2>1, <2>3, <2>4 DEF IsKept
  <2> QED BY <2>2, <2>3, <2>5 DEF parsed
<1>4. CASE SchemeEnds(text) = {} /\ text \notin AddressLiterals
  <2> DEFINE alias == RemapNameParse(text)
  <2>1. parsed = AliasTarget(alias)
    BY <1>4 DEF ParseWithHttpPolicy
  <2>2. alias \in [ok : {TRUE}, value : Text] \cup [ok : {FALSE}, error : NameErrors]
    BY NameAnswers
  <2>3. CASE alias.ok
    <3> DEFINE name == alias.value
    <3>1. name \in Text /\ RemapNameParse(name) = alias
      BY <2>3, AcceptedName, NameIsReadBack
    <3>2. alias = Ok(name)
      <4> HIDE DEF alias
      <4>1. alias \in [ok : {TRUE}, value : Text]
        BY <2>2, <2>3
      <4> QED BY <4>1 DEF Ok
    <3>3. parsed = Ok(DnsAlias(name))
      BY <2>1, <2>3 DEF AliasTarget
    <3> HIDE DEF name, alias, parsed
    <3>4. parsed.value = DnsAlias(name)
      BY <3>3, Answers
    <3>5. parsed.value.name = name
      BY <3>4 DEF DnsAlias
    <3>6. IsKept(parsed.value, policy)
      BY <3>1, <3>2, <3>4, <3>5 DEF IsKept
    <3> QED BY <3>3, <3>4, <3>6 DEF parsed
  <2>4. CASE ~ alias.ok
    <3>1. parsed = Err(<<"InvalidName", alias.error>>)
      BY <2>1, <2>4 DEF AliasTarget
    <3>2. alias.error \in NameErrors
      <4> HIDE DEF alias
      <4> QED BY <2>2, <2>4
    <3>3. <<"InvalidName", alias.error>> \in MappingTargetErrors
      <4> HIDE DEF alias
      <4> QED BY <3>2 DEF MappingTargetErrors
    <3> QED BY <1>1, <3>1, <3>3
  <2> QED BY <2>3, <2>4
<1> QED BY <1>2, <1>3, <1>4

\* The policy is no part of what is printed; the parts are read one by one.
LEMMA UpstreamsAreRead ==
  ASSUME NEW policy, NEW u, IsKeptUpstream(u, policy)
  PROVE  /\ HttpUpstreamDisplay(u) \in Text /\ SchemeEnds(HttpUpstreamDisplay(u)) # {}
         /\ HttpUpstreamParse(HttpUpstreamDisplay(u), policy) = Ok(u)
         /\ RespelledUpstream(u) \in Text /\ SchemeEnds(RespelledUpstream(u)) # {}
         /\ HttpUpstreamParse(RespelledUpstream(u), policy) = Ok(u)
<1> DEFINE host1 == UpstreamHostDisplay(u.host)  host2 == RespelledHost(u.host)
           port1 == PortDisplay(u.port)
           port2 == IF u.port = NoPort THEN <<>> ELSE <<Colon, 48>> \o Decimal(u.port)
           scheme1 == u.scheme  scheme2 == ToAsciiUppercase(u.scheme)
<1>1. Spells(host1, u.host) /\ Spells(host2, u.host)
  BY KeptHostIsSpelled DEF IsKeptUpstream
<1>2. /\ scheme1 \in Text /\ ToAsciiLowercase(scheme1) = u.scheme
      /\ scheme2 \in Text /\ ToAsciiLowercase(scheme2) = u.scheme
  <2>1. u.scheme \in Text /\ ToAsciiLowercase(u.scheme) = u.scheme
    BY SchemesAreLower DEF IsKeptUpstream
  <2> QED BY <2>1, UppercaseIsText
<1>3. /\ port1 \in Text
      /\ IF u.port = NoPort THEN port1 = <<>>
         ELSE \E raw \in Text : /\ port1 = WithPort(raw) /\ IsDigits(raw)
                                /\ ParsePort(raw) = Ok(u.port)
      /\ port2 \in Text
      /\ IF u.port = NoPort THEN port2 = <<>>
         ELSE \E raw \in Text : /\ port2 = WithPort(raw) /\ IsDigits(raw)
                                /\ ParsePort(raw) = Ok(u.port)
  <2>1. CASE u.port = NoPort
    <3>1. <<>> \in Text
      BY DEF Text
    <3> QED BY <2>1, <3>1 DEF PortDisplay
  <2>2. CASE u.port # NoPort
    <3> DEFINE raw1 == Decimal(u.port)  raw2 == <<48>> \o raw1
    <3>1. /\ raw1 \in Text /\ IsDigits(raw1) /\ ParsePort(raw1) = Ok(u.port)
          /\ raw2 \in Text /\ IsDigits(raw2) /\ ParsePort(raw2) = Ok(u.port)
      <4>1. u.port \in 1 .. MaxPort
        BY <2>2 DEF IsKeptUpstream, PortRange
      <4> QED BY <4>1, PortIsRead
    <3>2. port1 = WithPort(raw1)
      BY <2>2 DEF PortDisplay, WithPort
    <3>3. port2 = WithPort(raw2)
      <4>1. port2 = <<Colon, 48>> \o raw1
        BY <2>2
      <4>2. <<Colon, 48>> = <<Colon>> \o <<48>>
        BY DEF Colon
      <4>3. <<Colon>> \in Seq(Byte) /\ <<48>> \in Seq(Byte) /\ raw1 \in Seq(Byte)
        BY <3>1 DEF Text, Colon, Byte
      <4>4. (<<Colon>> \o <<48>>) \o raw1 = <<Colon>> \o (<<48>> \o raw1)
        <5> HIDE DEF raw1
        <5> QED BY <4>3, ConcatAssociative
      <4> HIDE DEF raw1
      <4> QED BY <4>1, <4>2, <4>4 DEF WithPort
    <3>4. WithPort(raw1) \in Text /\ WithPort(raw2) \in Text
      BY <3>1, PortBehindColon
    <3> HIDE DEF raw1, raw2, port1, port2
    <3> QED BY <2>2, <3>1, <3>2, <3>3, <3>4 DEF port1, port2
  <2> QED BY <2>1, <2>2
<1>4. /\ HttpUpstreamDisplay(u) = scheme1 \o SchemeEnd \o host1 \o port1 \o u.base_path
      /\ RespelledUpstream(u) = scheme2 \o SchemeEnd \o host2 \o port2 \o u.base_path
  BY DEF HttpUpstreamDisplay, RespelledUpstream
<1> HIDE DEF host1, host2, port1, port2, scheme1, scheme2
<1>5. LET url == scheme1 \o SchemeEnd \o host1 \o port1 \o u.base_path
      IN  /\ url \in Text /\ SchemeEnds(url) # {}
          /\ HttpUpstreamParse(url, policy) = Ok(u)
  BY <1>1, <1>2, <1>3, UpstreamIsRead
<1>6. LET url == scheme2 \o SchemeEnd \o host2 \o port2 \o u.base_path
      IN  /\ url \in Text /\ SchemeEnds(url) # {}
          /\ HttpUpstreamParse(url, policy) = Ok(u)
  BY <1>1, <1>2, <1>3, UpstreamIsRead
<1> QED BY <1>4, <1>5, <1>6

\* What is printed for a target is read as the target, and so is its other
\* spelling.
LEMMA KeptIsRead ==
  ASSUME NEW policy, NEW target, IsKept(target, policy)
  PROVE  /\ MappingTargetDisplay(target) \in Text
         /\ ParseWithHttpPolicy(MappingTargetDisplay(target), policy) = Ok(target)
         /\ ParseWithHttpPolicy(Respelled(target), policy) = Ok(target)
<1>1. CASE /\ target = [kind |-> "DnsAddress", address |-> target.address]
           /\ target.address \in AddressLiterals /\ AddressDisplay[target.address] = target.address
  <2> DEFINE t == target.address  upper == ToAsciiUppercase(t)
  <2>1. /\ t \in AddressLiterals /\ AddressDisplay[t] = t
        /\ target = [kind |-> "DnsAddress", address |-> t]
    BY <1>1
  <2>2. MappingTargetDisplay(target) = t /\ Respelled(target) = upper
    BY <2>1 DEF MappingTargetDisplay, Respelled
  <2>3. t \in Text /\ Positions(t, Slash) = {}
    <3>1. Slash \in Punctuation \ {Colon}
      BY DEF Punctuation, Slash, Colon
    <3> QED BY <2>1, <3>1, AddressLacks
  <2>4. /\ upper \in AddressLiterals /\ AddressDisplay[upper] = t
        /\ upper \in Text /\ Positions(upper, Slash) = {}
    <3>1. Slash \in Punctuation
      BY DEF Punctuation
    <3> QED BY <2>1, <2>3, <3>1, UppercaseAddress, UppercaseIsText
  <2> HIDE DEF t, upper
  <2>5. \A s \in AddressLiterals : SchemeEnds(s) = {} /\ AddressDisplay[s] = t =>
          ParseWithHttpPolicy(s, policy) = Ok(target)
    BY <2>1 DEF ParseWithHttpPolicy, DnsAddress
  <2> QED BY <2>1, <2>2, <2>3, <2>4, <2>5, NoSlashNoScheme
<1>2. CASE /\ target = DnsAlias(target.name) /\ target.name \in Text
           /\ RemapNameParse(target.name) = Ok(target.name)
  <2> DEFINE name == target.name  upper == ToAsciiUppercase(name)  dotted == Append(upper, Dot)
  <2>1. /\ name \in Text /\ name \notin AddressLiterals /\ FaultySpans(name) = {}
        /\ ToAsciiLowercase(name) = name
    <3>1. RemapNameParse(name).ok /\ RemapNameParse(name).value = name
      BY <1>2, Answers
    <3> QED BY <1>2, <3>1, AcceptedName
  <2>2. target = DnsAlias(name) /\ target.kind = "DnsAlias"
    BY <1>2 DEF DnsAlias
  <2>3. MappingTargetDisplay(target) = name /\ Respelled(target) = dotted
    BY <2>2 DEF MappingTargetDisplay, Respelled
  <2>4. SchemeEnds(name) = {}
    <3>1. Slash \in Punctuation
      BY DEF Punctuation
    <3> QED BY <2>1, <3>1, NameLacks, NoSlashNoScheme
  <2>5. /\ dotted \in Text /\ dotted \notin AddressLiterals /\ SchemeEnds(dotted) = {}
        /\ RemapNameParse(dotted) = Ok(name)
    BY <1>2, <2>1, DottedName
  <2> HIDE DEF name, upper, dotted
  <2>6. \A s \in Text : /\ s \notin AddressLiterals /\ SchemeEnds(s) = {}
                        /\ RemapNameParse(s) = Ok(name)
                        => ParseWithHttpPolicy(s, policy) = Ok(target)
    BY <2>2, Answers DEF ParseWithHttpPolicy, AliasTarget
  <2>7. RemapNameParse(name) = Ok(name)
    BY <1>2 DEF name
  <2> QED BY <2>1, <2>3, <2>4, <2>5, <2>6, <2>7
<1>3. CASE target = Http(target.upstream) /\ IsKeptUpstream(target.upstream, policy)
  <2> DEFINE u == target.upstream
  <2>1. target = Http(u) /\ target.kind = "Http" /\ IsKeptUpstream(u, policy)
    BY <1>3 DEF Http
  <2>2. /\ MappingTargetDisplay(target) = HttpUpstreamDisplay(u)
        /\ Respelled(target) = RespelledUpstream(u)
    BY <2>1 DEF MappingTargetDisplay, Respelled
  <2> HIDE DEF u
  <2>3. \A s : SchemeEnds(s) # {} /\ HttpUpstreamParse(s, policy) = Ok(u) =>
          ParseWithHttpPolicy(s, policy) = Ok(target)
    BY <2>1, Answers DEF ParseWithHttpPolicy, HttpTarget
  <2> QED BY <2>1, <2>2, <2>3, UpstreamsAreRead
<1> QED BY <1>1, <1>2, <1>3 DEF IsKept

-----------------------------------------------------------------------------
\* What is typed as a destination.

TypingInv ==
  /\ vocabulary \in Vocabularies
  /\ fragments \in 0 .. MaxFragments
  /\ input \in Text

\* The variables keep their types while a destination is typed.
LEMMA TypingInvHolds == Spec => []TypingInv
<1>1. Init => TypingInv
  BY TargetEntryAssumption DEF Init, TypingInv, Text
<1>2. TypingInv /\ [Next]_vars => TypingInv'
  <2> SUFFICES ASSUME TypingInv, [Next]_vars PROVE TypingInv'
    OBVIOUS
  <2>1. ASSUME NEW fragment \in vocabulary, Type(fragment) PROVE TypingInv'
    <3>1. fragment \in Text
      BY TargetEntryAssumption DEF TypingInv
    <3>2. input' \in Text
      BY <2>1, <3>1, JoinedTexts DEF Type, TypingInv
    <3>3. fragments' \in 0 .. MaxFragments
      BY <2>1, TargetEntryAssumption DEF Type, TypingInv
    <3> QED BY <2>1, <3>2, <3>3 DEF Type, TypingInv
  <2>2. CASE UNCHANGED vars
    BY <2>2 DEF vars, TypingInv
  <2> QED BY <2>1, <2>2 DEF Next
<1> QED BY <1>1, <1>2, PTL DEF Spec

\* A target as it is kept is a target, and none of its names is an address.
LEMMA KeptIsTarget ==
  ASSUME NEW target, NEW policy \in HostHeaderPolicies, IsKept(target, policy)
  PROVE  IsTarget(target) /\ NamesIn(target) \cap AddressLiterals = {}
<1>1. ASSUME NEW name \in Text, RemapNameParse(name) = Ok(name) PROVE name \notin AddressLiterals
  <2>1. RemapNameParse(name).ok /\ RemapNameParse(name).value = name
    BY <1>1, Answers
  <2> QED BY <2>1, NamesNotAddresses
<1>2. CASE /\ target = [kind |-> "DnsAddress", address |-> target.address]
           /\ target.address \in AddressLiterals /\ AddressDisplay[target.address] = target.address
  <2>1. target.kind = "DnsAddress"
    BY <1>2
  <2> QED BY <1>2, <2>1 DEF IsTarget, NamesIn
<1>3. CASE /\ target = DnsAlias(target.name) /\ target.name \in Text
           /\ RemapNameParse(target.name) = Ok(target.name)
  <2>1. target.kind = "DnsAlias"
    BY <1>3 DEF DnsAlias
  <2> QED BY <1>1, <1>3, <2>1 DEF IsTarget, NamesIn
<1>4. CASE target = Http(target.upstream) /\ IsKeptUpstream(target.upstream, policy)
  <2> DEFINE u == target.upstream  host == u.host
  <2>1. target.kind = "Http"
    BY <1>4 DEF Http
  <2>2. IsKeptUpstream(u, policy)
    BY <1>4
  <2>3. u.port \in NoPort .. MaxPort /\ u.port # 0
    BY <2>2, TargetsAssumption DEF IsKeptUpstream, PortRange, NoPort
  <2>4. IsKeptHost(host)
    BY <2>2 DEF IsKeptUpstream
  <2> HIDE DEF host, u
  <2>5. \/ host.kind = "Name" /\ host.text \in Text \ AddressLiterals
           /\ host = [kind |-> "Name", text |-> host.text]
        \/ host.kind = "Address" /\ host.text \in AddressLiterals
           /\ host = [kind |-> "Address", text |-> host.text]
    <3>1. CASE /\ host = UpstreamName(host.text) /\ host.text \in Text
               /\ RemapNameParse(host.text) = Ok(host.text)
      BY <1>1, <3>1 DEF UpstreamName
    <3>2. CASE /\ host = [kind |-> "Address", text |-> host.text] /\ host.text \in AddressLiterals
               /\ AddressDisplay[host.text] = host.text
      BY <3>2
    <3> QED BY <2>4, <3>1, <3>2 DEF IsKeptHost
  <2>6. host \in UpstreamHost
    BY <2>5 DEF UpstreamHost
  <2>7. u \in HttpUpstream
    BY <2>2, <2>3, <2>6 DEF IsKeptUpstream, HttpUpstream, host
  <2>8. IsTarget(target)
    BY <2>1, <2>3, <2>7 DEF IsTarget, u
  <2>9. NamesIn(target) = IF host.kind = "Name" THEN {host.text} ELSE {}
    BY <2>1 DEF NamesIn, host, u
  <2> QED BY <2>5, <2>8, <2>9
<1> QED BY <1>2, <1>3, <1>4 DEF IsKept

\* What TargetAnswers says of the text that is typed.
LEMMA ParsedAnswers ==
  ASSUME TypingInv
  PROVE  \/ Parsed = Ok(Parsed.value) /\ Parsed.ok /\ IsKept(Parsed.value, "UseUpstream")
         \/ ~ Parsed.ok /\ Parsed.error \in MappingTargetErrors
<1> DEFINE parsed == ParseWithHttpPolicy(input, "UseUpstream")
<1>1. \/ parsed = Ok(parsed.value) /\ IsKept(parsed.value, "UseUpstream")
      \/ IsRefusal(parsed, MappingTargetErrors)
  BY TargetAnswers DEF TypingInv
<1> HIDE DEF parsed
<1>2. \/ parsed = Ok(parsed.value) /\ parsed.ok /\ IsKept(parsed.value, "UseUpstream")
      \/ ~ parsed.ok /\ parsed.error \in MappingTargetErrors
  BY <1>1, Answers DEF IsRefusal
<1> QED BY <1>2 DEF parsed, Parsed

\* Every text that is typed is answered, with a target in range or with one of
\* the errors of parse_with_http_policy.
THEOREM TypeCorrect == Spec => []TypeOK
<1>1. ASSUME TypingInv PROVE TypeOK
  <2>1. IF Parsed.ok THEN IsTarget(Parsed.value) ELSE Parsed.error \in MappingTargetErrors
    <3>1. "UseUpstream" \in HostHeaderPolicies
      BY DEF HostHeaderPolicies
    <3> QED BY <1>1, <3>1, ParsedAnswers, KeptIsTarget
  <2> QED BY <1>1, <2>1 DEF TypingInv, TypeOK
<1> QED BY <1>1, TypingInvHolds, PTL

\* Whatever is typed, an address is never taken for a name: neither the alias
\* nor the upstream host that the text stands for is an address literal.
THEOREM TypedNamesAreNotAddresses == Spec => []NamesAreNotAddresses
<1>1. ASSUME TypingInv PROVE NamesAreNotAddresses
  <2>1. "UseUpstream" \in HostHeaderPolicies
    BY DEF HostHeaderPolicies
  <2> QED BY <1>1, <2>1, ParsedAnswers, KeptIsTarget DEF NamesAreNotAddresses
<1> QED BY <1>1, TypingInvHolds, PTL

\* What is printed for a target that was typed is read as the same target.
THEOREM TargetReadsBack == Spec => []TargetIsReadBack
<1>1. ASSUME TypingInv PROVE TargetIsReadBack
  <2>1. ASSUME Parsed.ok
        PROVE  ParseWithHttpPolicy(MappingTargetDisplay(Parsed.value), "UseUpstream") = Parsed
    BY <1>1, <2>1, ParsedAnswers, KeptIsRead
  <2> QED BY <2>1 DEF TargetIsReadBack
<1> QED BY <1>1, TypingInvHolds, PTL

\* The case of scheme, host and address, the root dot of a name and a zero
\* before the port do not show in the target that is typed.
THEOREM TargetSpellingsAreOne == Spec => []TargetSpellingIsInvisible
<1>1. ASSUME TypingInv PROVE TargetSpellingIsInvisible
  <2>1. ASSUME Parsed.ok
        PROVE  ParseWithHttpPolicy(Respelled(Parsed.value), "UseUpstream") = Parsed
    BY <1>1, <2>1, ParsedAnswers, KeptIsRead
  <2> QED BY <2>1 DEF TargetSpellingIsInvisible
<1> QED BY <1>1, TypingInvHolds, PTL

-----------------------------------------------------------------------------
\* Numbers are compared as texts.

AreDigits(t) == \A i \in 1 .. Len(t) : t[i] \in 48 .. 57

\* What Number counts with, up to each digit.
IsCount(f, t) == f \in [0 .. Len(t) -> Int] /\ IsCountOf(f, t) /\ AreDigits(t)

\* A digit is added while the number is in range.
LEMMA CountStep ==
  ASSUME NEW t \in Text, NEW f, IsCount(f, t)
  PROVE  /\ f[0] = 0
         /\ \A k \in 1 .. Len(t) :
              /\ f[k] = IF f[k - 1] > MaxPort THEN f[k - 1] ELSE 10 * f[k - 1] + (t[k] - 48)
              /\ t[k] - 48 \in 0 .. 9 /\ f[k] \in Int /\ f[k - 1] \in Int
<1>1. Len(t) \in Nat
  BY TextLength
<1>2. \A k \in 0 .. Len(t) : f[k] = IF k = 0 THEN 0 ELSE WithDigit(f[k - 1], t[k])
  BY DEF IsCount, IsCountOf
<1>3. f[0] = 0
  BY <1>1, <1>2
<1>4. ASSUME NEW k \in 1 .. Len(t)
      PROVE  /\ f[k] = IF f[k - 1] > MaxPort THEN f[k - 1] ELSE 10 * f[k - 1] + (t[k] - 48)
             /\ t[k] - 48 \in 0 .. 9 /\ f[k] \in Int /\ f[k - 1] \in Int
  <2>1. k \in 0 .. Len(t) /\ k - 1 \in 0 .. Len(t) /\ k # 0
    BY <1>1
  <2>2. t[k] \in 48 .. 57
    BY DEF IsCount, AreDigits
  <2> QED BY <1>2, <2>1, <2>2 DEF IsCount, WithDigit
<1> QED BY <1>3, <1>4

\* One more digit does not make a number smaller.
LEMMA DigitGrows ==
  ASSUME NEW n \in Nat, NEW d \in 0 .. 9
  PROVE  LET u == IF n > MaxPort THEN n ELSE 10 * n + d
         IN  u \in Nat /\ n =< u
BY TargetsAssumption

\* The count is a natural number and never falls.
LEMMA CountGrows ==
  ASSUME NEW t \in Text, NEW f, IsCount(f, t)
  PROVE  /\ \A k \in 0 .. Len(t) : f[k] \in Nat
         /\ \A a, b \in 0 .. Len(t) : a =< b => f[a] =< f[b]
<1>0. Len(t) \in Nat /\ MaxPort \in Nat
  BY TextLength, TargetsAssumption
<1>1. \A k \in 0 .. Len(t) : f[k] \in Nat
  <2> DEFINE bad == {k \in 0 .. Len(t) : f[k] \notin Nat}
  <2> SUFFICES ASSUME bad # {} PROVE FALSE
    OBVIOUS
  <2>1. bad \in SUBSET Nat
    BY <1>0
  <2>2. PICK k \in bad : \A j \in bad : k =< j
    BY <2>1, LeastNumber
  <2>3. k \in 1 .. Len(t) /\ k - 1 \in 0 .. Len(t) /\ f[k] \notin Nat
    BY <1>0, <2>2, CountStep
  <2>4. f[k - 1] \in Nat
    BY <2>2, <2>3
  <2>5. PICK x, d, u : x = f[k - 1] /\ d = t[k] - 48 /\ u = f[k]
    OBVIOUS
  <2>6. u = (IF x > MaxPort THEN x ELSE 10 * x + d) /\ d \in 0 .. 9
    BY <2>3, <2>5, CountStep
  <2>7. x \in Nat
    BY <2>4, <2>5
  <2>8. u \in Nat
    BY <2>6, <2>7, DigitGrows
  <2> QED BY <2>3, <2>5, <2>8
<1>2. \A k \in 1 .. Len(t) : f[k - 1] =< f[k]
  <2> SUFFICES ASSUME NEW k \in 1 .. Len(t) PROVE f[k - 1] =< f[k]
    OBVIOUS
  <2>1. k - 1 \in 0 .. Len(t)
    BY <1>0
  <2>2. PICK x, d, u : x = f[k - 1] /\ d = t[k] - 48 /\ u = f[k]
    OBVIOUS
  <2>3. u = (IF x > MaxPort THEN x ELSE 10 * x + d) /\ d \in 0 .. 9
    BY <2>2, CountStep
  <2>4. x \in Nat
    BY <1>1, <2>1, <2>2
  <2>5. x =< u
    BY <2>3, <2>4, DigitGrows
  <2> QED BY <2>2, <2>5
<1>3. ASSUME NEW a \in 0 .. Len(t)
      PROVE  \A b \in 0 .. Len(t) : a =< b => f[a] =< f[b]
  <2> DEFINE bad == {b \in 0 .. Len(t) : a =< b /\ ~ f[a] =< f[b]}
  <2> SUFFICES ASSUME bad # {} PROVE FALSE
    OBVIOUS
  <2>1. bad \in SUBSET Nat
    BY <1>0
  <2>2. PICK b \in bad : \A j \in bad : b =< j
    BY <2>1, LeastNumber
  <2>3. b \in 0 .. Len(t) /\ a =< b /\ ~ f[a] =< f[b] /\ f[a] \in Nat /\ f[b] \in Nat
    BY <1>1, <2>2
  <2>4. b \in 1 .. Len(t) /\ b - 1 \in 0 .. Len(t) /\ a =< b - 1
    BY <1>0, <2>3
  <2>5. f[a] =< f[b - 1] /\ f[b - 1] \in Nat
    BY <1>1, <2>2, <2>4
  <2> QED BY <1>2, <2>3, <2>4, <2>5
<1> QED BY <1>1, <1>3

\* The m bytes of s behind a are those of t behind b.
GoAlike(s, a, t, b, m) == \A i \in 1 .. m : s[a + i] = t[b + i]

\* Two texts that go on with the same digits keep the same count.
LEMMA SameDigitsCount ==
  ASSUME NEW s \in Text, NEW f, IsCount(f, s), NEW t \in Text, NEW g, IsCount(g, t),
         NEW a \in Nat, NEW b \in Nat, NEW m \in Nat, a + m =< Len(s), b + m =< Len(t),
         f[a] = g[b], GoAlike(s, a, t, b, m)
  PROVE  f[a + m] = g[b + m]
<1>0. Len(s) \in Nat /\ Len(t) \in Nat
  BY TextLength
<1> DEFINE bad == {k \in 0 .. m : f[a + k] # g[b + k]}
<1> SUFFICES ASSUME bad # {} PROVE FALSE
  <2>1. m \in 0 .. m
    OBVIOUS
  <2> QED BY <2>1
<1>1. bad \in SUBSET Nat
  OBVIOUS
<1>2. PICK k \in bad : \A j \in bad : k =< j
  BY <1>1, LeastNumber
<1>3. k \in 1 .. m /\ f[a + k] # g[b + k]
  <2>1. k \in 0 .. m /\ f[a + k] # g[b + k]
    BY <1>2
  <2>2. a + 0 = a /\ b + 0 = b
    OBVIOUS
  <2>3. k # 0
    BY <2>1, <2>2
  <2> QED BY <2>1, <2>3
<1>4. /\ k - 1 \in 0 .. m /\ a + (k - 1) = (a + k) - 1 /\ b + (k - 1) = (b + k) - 1
      /\ a + k \in 1 .. Len(s) /\ b + k \in 1 .. Len(t)
  BY <1>0, <1>3
<1>5. f[(a + k) - 1] = g[(b + k) - 1]
  <2>1. k - 1 \notin bad
    <3> HIDE DEF bad
    <3> QED BY <1>2, <1>3
  <2>2. f[a + (k - 1)] = g[b + (k - 1)]
    BY <1>4, <2>1
  <2> QED BY <1>4, <2>2
<1>6. s[a + k] = t[b + k]
  BY <1>3 DEF GoAlike
<1>7. PICK i, j : i = a + k /\ j = b + k
  OBVIOUS
<1>8. f[i] = g[j]
  <2>1. /\ f[i] = IF f[i - 1] > MaxPort THEN f[i - 1] ELSE 10 * f[i - 1] + (s[i] - 48)
        /\ g[j] = IF g[j - 1] > MaxPort THEN g[j - 1] ELSE 10 * g[j - 1] + (t[j] - 48)
    BY <1>4, <1>7, CountStep
  <2> QED BY <1>5, <1>6, <1>7, <2>1
<1> QED BY <1>3, <1>7, <1>8

\* A count that is behind another stays behind, as long as one of them is in range.
LEMMA BehindStays ==
  ASSUME NEW s \in Text, NEW f, IsCount(f, s), NEW t \in Text, NEW g, IsCount(g, t),
         \/ \A k \in 0 .. Len(s) : f[k] =< MaxPort
         \/ \A k \in 0 .. Len(t) : g[k] =< MaxPort,
         NEW a \in Nat, NEW b \in Nat, NEW m \in Nat, a + m =< Len(s), b + m =< Len(t),
         f[a] < g[b]
  PROVE  f[a + m] < g[b + m]
<1>0. Len(s) \in Nat /\ Len(t) \in Nat /\ MaxPort \in Nat
  BY TextLength, TargetsAssumption
<1> DEFINE bad == {k \in 0 .. m : ~ f[a + k] < g[b + k]}
<1> SUFFICES ASSUME bad # {} PROVE FALSE
  <2>1. m \in 0 .. m
    OBVIOUS
  <2> QED BY <2>1
<1>1. bad \in SUBSET Nat
  OBVIOUS
<1>2. PICK k \in bad : \A j \in bad : k =< j
  BY <1>1, LeastNumber
<1>3. k \in 1 .. m /\ ~ f[a + k] < g[b + k]
  BY <1>2
<1>4. /\ k - 1 \in 0 .. m /\ a + (k - 1) = (a + k) - 1 /\ b + (k - 1) = (b + k) - 1
      /\ a + k \in 1 .. Len(s) /\ b + k \in 1 .. Len(t)
      /\ (a + k) - 1 \in 0 .. Len(s) /\ (b + k) - 1 \in 0 .. Len(t)
      /\ a + k \in 0 .. Len(s) /\ b + k \in 0 .. Len(t)
  BY <1>0, <1>3
<1>5. f[(a + k) - 1] < g[(b + k) - 1]
  <2>1. k - 1 \notin bad
    <3> HIDE DEF bad
    <3> QED BY <1>2, <1>3
  <2>2. f[a + (k - 1)] < g[b + (k - 1)]
    BY <1>4, <2>1
  <2> QED BY <1>4, <2>2
<1>6. PICK x, y, d, e, u, v :
        /\ x = f[(a + k) - 1] /\ y = g[(b + k) - 1] /\ d = s[a + k] - 48 /\ e = t[b + k] - 48
        /\ u = f[a + k] /\ v = g[b + k]
  OBVIOUS
<1>7. /\ x \in Nat /\ y \in Nat /\ u \in Nat /\ v \in Nat /\ d \in 0 .. 9 /\ e \in 0 .. 9
      /\ x < y /\ ~ u < v
      /\ u = (IF x > MaxPort THEN x ELSE 10 * x + d) /\ v = (IF y > MaxPort THEN y ELSE 10 * y + e)
  <2>1. x \in Nat /\ y \in Nat /\ u \in Nat /\ v \in Nat
    BY <1>4, <1>6, CountGrows
  <2> QED BY <1>3, <1>4, <1>5, <1>6, <2>1, CountStep
<1>8. u =< MaxPort \/ y =< MaxPort
  BY <1>4, <1>6
<1> QED BY <1>0, <1>7, <1>8

\* Of two counts that were the same, the one with the first smaller digit is behind.
LEMMA LessDigit ==
  ASSUME NEW s \in Text, NEW f, IsCount(f, s), NEW t \in Text, NEW g, IsCount(g, t),
         \/ \A k \in 0 .. Len(s) : f[k] =< MaxPort
         \/ \A k \in 0 .. Len(t) : g[k] =< MaxPort,
         NEW a \in Nat, NEW b \in Nat, NEW m \in Nat \ {0}, a + m =< Len(s), b + m =< Len(t),
         f[a] = g[b], GoAlike(s, a, t, b, m - 1), s[a + m] < t[b + m]
  PROVE  f[a + m] < g[b + m]
<1>0. Len(s) \in Nat /\ Len(t) \in Nat /\ MaxPort \in Nat
  BY TextLength, TargetsAssumption
<1>1. PICK l \in Nat : l = m - 1
  OBVIOUS
<1>2. f[a + l] = g[b + l]
  <2>1. a + l =< Len(s) /\ b + l =< Len(t)
    BY <1>0, <1>1
  <2>2. GoAlike(s, a, t, b, l)
    BY <1>1
  <2> QED BY <1>1, <2>1, <2>2, SameDigitsCount
<1>3. PICK i, j : i = a + m /\ j = b + m
  OBVIOUS
<1>4. /\ i \in 1 .. Len(s) /\ j \in 1 .. Len(t) /\ a + l = i - 1 /\ b + l = j - 1
      /\ i - 1 \in 0 .. Len(s) /\ j - 1 \in 0 .. Len(t) /\ i \in 0 .. Len(s) /\ j \in 0 .. Len(t)
  BY <1>0, <1>1, <1>3
<1>5. PICK x, y, d, e, u, v :
        /\ x = f[i - 1] /\ y = g[j - 1] /\ d = s[i] - 48 /\ e = t[j] - 48 /\ u = f[i] /\ v = g[j]
  OBVIOUS
<1>6. /\ x \in Nat /\ y = x /\ d \in 0 .. 9 /\ e \in 0 .. 9 /\ d < e
      /\ u = (IF x > MaxPort THEN x ELSE 10 * x + d) /\ v = (IF y > MaxPort THEN y ELSE 10 * y + e)
  <2>1. x \in Nat /\ y = x
    BY <1>2, <1>4, <1>5, CountGrows
  <2>2. s[i] < t[j] /\ s[i] \in 48 .. 57 /\ t[j] \in 48 .. 57
    BY <1>3, <1>4 DEF IsCount, AreDigits
  <2>3. d < e
    <3>1. PICK p, q : p = s[i] /\ q = t[j]
      OBVIOUS
    <3>2. p < q /\ p \in 48 .. 57 /\ q \in 48 .. 57 /\ d = p - 48 /\ e = q - 48
      BY <1>5, <2>2, <3>1
    <3> QED BY <3>2
  <2>4. d \in 0 .. 9 /\ u = IF x > MaxPort THEN x ELSE 10 * x + d
    BY <1>4, <1>5, CountStep
  <2>5. e \in 0 .. 9 /\ v = IF y > MaxPort THEN y ELSE 10 * y + e
    BY <1>4, <1>5, CountStep
  <2> QED BY <2>1, <2>3, <2>4, <2>5
<1>7. x =< MaxPort
  BY <1>4, <1>5, <1>6
<1>8. u < v
  BY <1>0, <1>6, <1>7
<1> QED BY <1>3, <1>5, <1>8

\* A number that is not zero is not printed with a zero first.
LEMMA DecimalBegins ==
  ASSUME NEW m \in Nat \ {0}
  PROVE  Decimal(m) \in Text /\ Len(Decimal(m)) >= 1 /\ Decimal(m)[1] # 48
<1> DEFINE Good(n) == Len(Decimal(n)) >= 1 /\ Decimal(n)[1] # 48
           bad == {n \in Nat \ {0} : ~ Good(n)}
<1>1. bad = {}
  <2> SUFFICES ASSUME bad # {} PROVE FALSE
    OBVIOUS
  <2>1. bad \in SUBSET Nat
    OBVIOUS
  <2>2. PICK n \in bad : \A j \in bad : n =< j
    BY <2>1, LeastNumber
  <2>3. n \in Nat /\ n # 0 /\ ~ Good(n)
    BY <2>2
  <2>4. CASE n < 10
    <3>1. Decimal(n) = <<48 + n>>
      BY <2>3, <2>4, DecimalSplits
    <3>2. Len(<<48 + n>>) = 1 /\ <<48 + n>>[1] = 48 + n /\ 48 + n # 48
      BY <2>3
    <3> QED BY <2>3, <3>1, <3>2
  <2>5. CASE ~ n < 10
    <3> DEFINE q == n \div 10  d == 48 + (n % 10)  front == Decimal(q)
    <3>1. q \in Nat /\ q # 0 /\ q < n
      BY <2>3, <2>5, LastDigit
    <3> HIDE DEF q
    <3>2. front \in Text
      BY <3>1, DecimalSplits
    <3>3. Good(q)
      <4>1. q \notin bad
        BY <2>2, <2>3, <3>1
      <4> QED BY <3>1, <4>1
    <3>4. Decimal(n) = Append(front, d)
      BY <2>3, <2>5, DecimalSplits DEF q
    <3>5. Len(front) >= 1 /\ front[1] # 48 /\ Len(front) \in Nat
      BY <3>2, <3>3, TextLength
    <3> HIDE DEF front, d
    <3>6. Len(Append(front, d)) = Len(front) + 1 /\ Append(front, d)[1] = front[1]
      BY <3>2, <3>5 DEF Text
    <3>7. Good(n)
      BY <3>4, <3>5, <3>6
    <3> QED BY <2>3, <3>7
  <2> QED BY <2>4, <2>5
<1> QED BY <1>1, DecimalSplits

Zeros(t)       == {i \in 0 .. Len(t) : \A j \in 1 .. i : t[j] = 48}
Significant(t) == After(t, Max(Zeros(t)))

\* What is left of a text without its leading zeros.
LEMMA SignificantText ==
  ASSUME NEW t \in Text
  PROVE  LET l == Max(Zeros(t))
             u == Significant(t)
         IN  /\ l \in 0 .. Len(t) /\ \A j \in 1 .. l : t[j] = 48
             /\ u \in Text /\ Len(u) = Len(t) - l
             /\ \A j \in 1 .. Len(t) - l : u[j] = t[l + j]
             /\ u # <<>> => u[1] # 48
<1> DEFINE n == Len(t)  Left == {n - i : i \in Zeros(t)}
<1>0. n \in Nat
  BY TextLength
<1>1. 0 \in Zeros(t) /\ Zeros(t) \subseteq 0 .. n
  BY <1>0 DEF Zeros
<1> HIDE DEF n
<1>2. Left \in SUBSET Nat /\ n - 0 \in Left
  BY <1>0, <1>1
<1>3. PICK k \in Left : \A j \in Left : k =< j
  <2> HIDE DEF Left
  <2> QED BY <1>2, LeastNumber
<1>4. PICK l \in Zeros(t) : k = n - l
  BY <1>3
<1>5. \A i \in Zeros(t) : l >= i
  <2> SUFFICES ASSUME NEW i \in Zeros(t) PROVE l >= i
    OBVIOUS
  <2>1. n - l =< n - i
    BY <1>3, <1>4
  <2> QED BY <1>0, <1>1, <2>1
<1>6. Max(Zeros(t)) = l
  <2>1. \A i \in Zeros(t) : i \in Nat
    BY <1>0, <1>1
  <2>2. \A i \in Zeros(t) : (\A j \in Zeros(t) : i >= j) => i = l
    BY <1>5, <2>1
  <2> QED BY <1>5, <2>2 DEF Max
<1>7. l \in 0 .. Len(t) /\ \A j \in 1 .. l : t[j] = 48
  BY DEF Zeros
<1> DEFINE u == Significant(t)
<1>8. u \in Text /\ Len(u) = n - l /\ \A j \in 1 .. n - l : u[j] = t[l + j]
  BY <1>6, <1>7, CutsAreTexts DEF Significant, n
<1>9. ASSUME u # <<>> PROVE u[1] # 48
  <2> SUFFICES ASSUME u[1] = 48 PROVE FALSE
    OBVIOUS
  <2> HIDE DEF u
  <2>1. Len(u) # 0
    BY <1>8, <1>9, TextLength
  <2>2. l + 1 \in 0 .. n /\ 1 \in 1 .. n - l
    BY <1>0, <1>7, <1>8, <2>1 DEF n
  <2>3. t[l + 1] = 48
    BY <1>8, <2>2
  <2>4. \A j \in 1 .. l + 1 : j \in 1 .. l \/ j = l + 1
    BY <1>7
  <2>5. l + 1 \in Zeros(t)
    BY <1>7, <2>2, <2>3, <2>4 DEF Zeros, n
  <2> QED BY <1>5, <1>7, <2>5
<1> QED BY <1>6, <1>7, <1>8, <1>9 DEF n

\* A number of digits is in the range of a port if its significant ones are no longer
\* than those of the largest port, and if as long do not come after them.
LEMMA NumbersAsTexts ==
  ASSUME NEW t \in Text, IsDigits(t)
  PROVE  LET u       == Significant(t)
             largest == Decimal(MaxPort)
         IN  Number(t) \in 1 .. MaxPort <=>
               /\ Len(u) \in 1 .. Len(largest)
               /\ Len(u) = Len(largest) => ~ TextLess(largest, u)
<1> DEFINE l == Max(Zeros(t))  u == Significant(t)  largest == Decimal(MaxPort)
           m == Len(u)  n == Len(largest)
<1>0. MaxPort \in Nat /\ MaxPort # 0 /\ Len(t) \in Nat
  BY TextLength, TargetsAssumption
<1>1. /\ l \in 0 .. Len(t) /\ \A j \in 1 .. l : t[j] = 48
      /\ u \in Text /\ m = Len(t) - l /\ \A j \in 1 .. m : u[j] = t[l + j]
      /\ u # <<>> => u[1] # 48
  BY SignificantText
<1>2. largest \in Text /\ n >= 1 /\ largest[1] # 48 /\ IsDigits(largest) /\ Number(largest) = MaxPort
      /\ n \in Nat
  <2>1. MaxPort \in 0 .. MaxPort /\ MaxPort \in Nat \ {0}
    BY <1>0
  <2> HIDE DEF l, u
  <2> QED BY <2>1, DecimalBegins, DecimalIsRead, TextLength
<1> HIDE DEF l, u, largest
<1>3. PICK f : IsCount(f, t)
  <2>1. PICK f \in [0 .. Len(t) -> Int] : IsCountOf(f, t)
    BY CountExists
  <2>2. AreDigits(t)
    BY TextLength DEF AreDigits, IsDigits
  <2> QED BY <2>1, <2>2 DEF IsCount
<1>4. PICK g : IsCount(g, largest)
  <2>1. PICK g \in [0 .. Len(largest) -> Int] : IsCountOf(g, largest)
    BY <1>2, CountExists
  <2>2. AreDigits(largest)
    BY <1>2, TextLength DEF AreDigits, IsDigits
  <2> QED BY <2>1, <2>2 DEF IsCount
<1>5. Number(t) = f[Len(t)] /\ g[n] = MaxPort
  BY <1>2, <1>3, <1>4, NumberIs DEF IsCount
<1>6. \A k \in 0 .. n : g[k] \in Nat /\ g[k] =< MaxPort
  <2>1. n \in 0 .. n /\ \A k \in 0 .. n : k =< n
    BY <1>2
  <2> QED BY <1>2, <1>4, <1>5, <2>1, CountGrows
<1>7. f[l] = 0
  <2>1. l \in Nat /\ l =< Len(t)
    BY <1>0, <1>1
  <2> DEFINE bad == {k \in 0 .. l : f[k] # 0}
  <2> SUFFICES ASSUME bad # {} PROVE FALSE
    <3>1. l \in 0 .. l
      BY <2>1
    <3> QED BY <3>1
  <2>2. bad \in SUBSET Nat
    BY <2>1
  <2>3. PICK k \in bad : \A j \in bad : k =< j
    BY <2>2, LeastNumber
  <2>4. f[0] = 0
    BY <1>3, CountStep
  <2>5. k \in 1 .. l /\ f[k] # 0 /\ k \in 1 .. Len(t) /\ k - 1 \in 0 .. l
    BY <1>0, <2>1, <2>3, <2>4
  <2>6. k - 1 \notin bad
    <3> HIDE DEF bad
    <3> QED BY <2>3, <2>5
  <2>7. f[k - 1] = 0 /\ t[k] = 48
    BY <1>1, <2>5, <2>6
  <2> QED BY <1>0, <1>3, <2>5, <2>7, CountStep
<1>8. l + m = Len(t) /\ m \in Nat /\ l \in Nat
  BY <1>0, <1>1
<1> HIDE DEF m, n
<1>9. CASE m = 0
  <2>1. Number(t) = 0
    <3>1. l = Len(t)
      BY <1>8, <1>9
    <3> QED BY <1>5, <1>7, <3>1
  <2>2. ~ Number(t) \in 1 .. MaxPort
    BY <2>1
  <2>3. ~ m \in 1 .. n
    BY <1>9
  <2> QED BY <2>2, <2>3 DEF m, n, u, largest
<1>10. CASE m # 0
  <2> DEFINE one == f[l + 1]
  <2>1. l + 1 \in 1 .. Len(t) /\ 1 \in 1 .. m /\ u # <<>> /\ (l + 1) - 1 = l
    BY <1>1, <1>8, <1>10, TextLength DEF m, n
  <2>2. t[l + 1] # 48
    BY <1>1, <2>1
  <2>3. f[l + 1] >= 1
    <3>1. f[l + 1] = 10 * 0 + (t[l + 1] - 48) /\ t[l + 1] - 48 \in 0 .. 9
      BY <1>0, <1>3, <1>7, <2>1, CountStep DEF m, n
    <3>2. t[l + 1] \in 48 .. 57
      BY <1>3, <2>1 DEF IsCount, AreDigits
    <3> QED BY <2>2, <3>1, <3>2
  <2>4. f[Len(t)] \in Nat /\ f[Len(t)] >= 1
    <3>1. l + 1 \in 0 .. Len(t) /\ Len(t) \in 0 .. Len(t) /\ l + 1 =< Len(t)
      BY <1>0, <2>1
    <3>2. f[l + 1] =< f[Len(t)] /\ f[Len(t)] \in Nat /\ f[l + 1] \in Nat
      BY <1>3, <3>1, CountGrows
    <3> QED BY <2>3, <3>2
  <2>5. Number(t) \in 1 .. MaxPort <=> f[Len(t)] =< MaxPort
    BY <1>0, <1>5, <2>4
  <2>6. CASE m < n
    <3>1. n - m \in Nat /\ n - m >= 1 /\ (n - m) + m = n /\ l + m = Len(t)
      BY <1>2, <1>8, <2>6
    <3>2. g[n - m] >= 1
      <4>1. 1 \in 1 .. n /\ 1 \in 0 .. n /\ n - m \in 0 .. n /\ 1 =< n - m /\ 1 - 1 = 0
        BY <1>2, <1>8, <3>1
      <4>2. g[0] = 0 /\ largest[1] \in 48 .. 57
        BY <1>2, <1>4, <4>1, CountStep DEF IsCount, AreDigits, m, n
      <4>3. g[1] = 10 * 0 + (largest[1] - 48)
        BY <1>0, <1>2, <1>4, <4>1, <4>2, CountStep DEF m, n
      <4>4. g[1] =< g[n - m] /\ g[n - m] \in Nat /\ g[1] \in Nat
        BY <1>2, <1>4, <4>1, CountGrows DEF m, n
      <4> QED BY <1>2, <4>2, <4>3, <4>4
    <3>3. f[l] < g[n - m]
      BY <1>7, <3>1, <3>2, <1>6 DEF m, n
    <3>4. f[l + m] < g[(n - m) + m]
      <4>1. l + m =< Len(t) /\ (n - m) + m =< Len(largest)
        BY <1>0, <1>2, <3>1 DEF m, n
      <4>2. \A k \in 0 .. Len(largest) : g[k] =< MaxPort
        BY <1>6 DEF m, n
      <4> HIDE DEF m, n
      <4> QED BY <1>2, <1>3, <1>4, <1>8, <3>1, <3>3, <4>1, <4>2, BehindStays
    <3>5. f[Len(t)] < MaxPort
      BY <1>5, <3>1, <3>4
    <3>6. m \in 1 .. n /\ ~ m = n
      BY <1>2, <1>8, <1>10, <2>6
    <3>7. f[Len(t)] =< MaxPort
      BY <1>0, <2>4, <3>5
    <3> QED BY <2>5, <3>6, <3>7 DEF m, n, u, largest
  <2>7. CASE m > n
    <3>1. m - n \in Nat /\ m - n >= 1 /\ (l + (m - n)) + n = Len(t) /\ 0 + n = n /\ l + (m - n) \in Nat
      BY <1>2, <1>8, <2>7
    <3>2. g[0] < f[l + (m - n)]
      <4>1. l + 1 \in 0 .. Len(t) /\ l + (m - n) \in 0 .. Len(t) /\ l + 1 =< l + (m - n)
        BY <1>0, <1>2, <1>8, <3>1
      <4>2. f[l + 1] =< f[l + (m - n)] /\ f[l + (m - n)] \in Nat /\ f[l + 1] \in Nat
        BY <1>3, <4>1, CountGrows
      <4>3. g[0] = 0
        BY <1>2, <1>4, CountStep
      <4> QED BY <2>3, <4>2, <4>3
    <3>3. g[0 + n] < f[(l + (m - n)) + n]
      <4>1. 0 + n =< Len(largest) /\ (l + (m - n)) + n =< Len(t)
        BY <1>0, <1>2, <3>1 DEF m, n
      <4>2. \A k \in 0 .. Len(largest) : g[k] =< MaxPort
        BY <1>6 DEF m, n
      <4>3. n \in Nat /\ 0 \in Nat
        BY <1>2
      <4> HIDE DEF m, n
      <4> QED BY <1>2, <1>3, <1>4, <3>1, <3>2, <4>1, <4>2, <4>3, BehindStays
    <3>4. MaxPort < f[Len(t)]
      BY <1>5, <3>1, <3>3
    <3>5. ~ m \in 1 .. n
      BY <1>2, <1>8, <2>7
    <3>6. ~ f[Len(t)] =< MaxPort
      BY <1>0, <2>4, <3>4
    <3> QED BY <2>5, <3>5, <3>6 DEF m, n, u, largest
  <2>8. CASE m = n
    <3>0. l + m = Len(t) /\ 0 + n = n /\ g[0] = 0
      BY <1>2, <1>4, <1>8, CountStep
    <3>1. ASSUME TextLess(u, largest) PROVE f[Len(t)] < MaxPort
      <4>1. PICK k \in 1 .. m : (\A i \in 1 .. k - 1 : u[i] = largest[i]) /\ u[k] < largest[k]
        <5>1. PICK k \in 1 .. Len(largest) :
                /\ \A i \in 1 .. (k - 1) : i =< Len(u) /\ u[i] = largest[i]
                /\ k > Len(u) \/ u[k] < largest[k]
          BY <3>1 DEF TextLess
        <5>2. k \in 1 .. m
          BY <2>8, <5>1 DEF n
        <5>3. ~ k > Len(u)
          BY <1>8, <5>2 DEF m
        <5> QED BY <5>1, <5>2, <5>3
      <4>2. f[l + k] < g[0 + k]
        <5>1. GoAlike(t, l, largest, 0, k - 1)
          BY <1>1, <1>8, <4>1 DEF GoAlike
        <5>2. t[l + k] < largest[0 + k]
          BY <1>1, <4>1
        <5>3. 0 + k =< Len(largest) /\ l + k =< Len(t) /\ k \in Nat \ {0} /\ 0 \in Nat
          BY <1>0, <1>8, <2>8, <4>1 DEF n
        <5>4. \A i \in 0 .. Len(largest) : g[i] =< MaxPort
          BY <1>6 DEF n
        <5> QED BY <1>2, <1>3, <1>4, <1>7, <1>8, <3>0, <5>1, <5>2, <5>3, <5>4, LessDigit
      <4>3. f[(l + k) + (m - k)] < g[(0 + k) + (m - k)]
        <5>1. /\ l + k \in Nat /\ 0 + k \in Nat /\ m - k \in Nat
              /\ (l + k) + (m - k) =< Len(t) /\ (0 + k) + (m - k) =< Len(largest)
          BY <1>0, <1>2, <1>8, <2>8, <4>1 DEF n
        <5>2. \A i \in 0 .. Len(largest) : g[i] =< MaxPort
          BY <1>6 DEF n
        <5> QED BY <1>2, <1>3, <1>4, <4>2, <5>1, <5>2, BehindStays
      <4>4. (l + k) + (m - k) = Len(t) /\ (0 + k) + (m - k) = n
        BY <1>2, <1>8, <2>8, <4>1
      <4> QED BY <1>5, <4>3, <4>4
    <3>2. ASSUME TextLess(largest, u) PROVE MaxPort < f[Len(t)]
      <4>1. PICK k \in 1 .. m : (\A i \in 1 .. k - 1 : largest[i] = u[i]) /\ largest[k] < u[k]
        <5>1. PICK k \in 1 .. Len(u) :
                /\ \A i \in 1 .. (k - 1) : i =< Len(largest) /\ largest[i] = u[i]
                /\ k > Len(largest) \/ largest[k] < u[k]
          BY <3>2 DEF TextLess
        <5>2. k \in 1 .. m
          BY <5>1 DEF m
        <5>3. ~ k > Len(largest)
          BY <1>8, <2>8, <5>2 DEF n
        <5> QED BY <5>1, <5>2, <5>3
      <4>2. g[0 + k] < f[l + k]
        <5>1. GoAlike(largest, 0, t, l, k - 1)
          BY <1>1, <1>8, <4>1 DEF GoAlike
        <5>2. largest[0 + k] < t[l + k]
          BY <1>1, <4>1
        <5>3. 0 + k =< Len(largest) /\ l + k =< Len(t) /\ k \in Nat \ {0} /\ 0 \in Nat
          BY <1>0, <1>8, <2>8, <4>1 DEF n
        <5>4. \A i \in 0 .. Len(largest) : g[i] =< MaxPort
          BY <1>6 DEF n
        <5> QED BY <1>2, <1>3, <1>4, <1>7, <1>8, <3>0, <5>1, <5>2, <5>3, <5>4, LessDigit
      <4>3. g[(0 + k) + (m - k)] < f[(l + k) + (m - k)]
        <5>1. /\ l + k \in Nat /\ 0 + k \in Nat /\ m - k \in Nat
              /\ (l + k) + (m - k) =< Len(t) /\ (0 + k) + (m - k) =< Len(largest)
          BY <1>0, <1>2, <1>8, <2>8, <4>1 DEF n
        <5>2. \A i \in 0 .. Len(largest) : g[i] =< MaxPort
          BY <1>6 DEF n
        <5> QED BY <1>2, <1>3, <1>4, <4>2, <5>1, <5>2, BehindStays
      <4>4. (l + k) + (m - k) = Len(t) /\ (0 + k) + (m - k) = n
        BY <1>2, <1>8, <2>8, <4>1
      <4> QED BY <1>5, <4>3, <4>4
    <3>3. ASSUME u = largest PROVE f[Len(t)] = MaxPort
      <4>1. l + n = Len(t) /\ 0 \in Nat /\ l + n =< Len(t) /\ 0 + n =< Len(largest)
        BY <1>0, <1>2, <1>8, <2>8 DEF n
      <4>2. GoAlike(t, l, largest, 0, n)
        BY <1>1, <1>2, <2>8, <3>3 DEF GoAlike
      <4>3. f[l + n] = g[0 + n]
        BY <1>2, <1>3, <1>4, <1>7, <1>8, <3>0, <4>1, <4>2, SameDigitsCount
      <4> QED BY <1>5, <3>0, <4>1, <4>3
    <3>4. u = largest => ~ TextLess(largest, u)
      BY <1>2, TextLessIrreflexive
    <3>5. u # largest => TextLess(u, largest) \/ TextLess(largest, u)
      BY <1>1, <1>2, TextLessTotal
    <3>6. f[Len(t)] =< MaxPort <=> ~ TextLess(largest, u)
      BY <1>0, <2>4, <3>1, <3>2, <3>3, <3>4, <3>5
    <3>7. m \in 1 .. n /\ m = n
      BY <1>2, <1>8, <1>10, <2>8
    <3> QED BY <2>5, <3>6, <3>7 DEF m, n, u, largest
  <2> QED BY <1>2, <1>8, <2>6, <2>7, <2>8
<1> QED BY <1>9, <1>10 DEF u, largest

-----------------------------------------------------------------------------
\* Texts that are cut.

\* The two parts of a text that is cut give it back.
LEMMA Rejoined ==
  ASSUME NEW t \in Text, NEW i \in 0 .. Len(t)
  PROVE  /\ UpTo(t, i) \in Text /\ After(t, i) \in Text
         /\ Len(UpTo(t, i)) = i /\ Len(After(t, i)) = Len(t) - i
         /\ \A j \in 1 .. i : UpTo(t, i)[j] = t[j]
         /\ t = UpTo(t, i) \o After(t, i)
<1> DEFINE n == Len(t)  a == UpTo(t, i)  b == After(t, i)  ab == a \o b
<1>1. n \in Nat /\ i \in Nat /\ i =< n /\ 1 \in Int /\ \A j \in 1 .. i : j \in 1 .. n
  BY TextLength
<1>2. b \in Text /\ Len(b) = n - i /\ \A j \in 1 .. n - i : b[j] = t[i + j]
  BY CutsAreTexts
<1>3. /\ a \in Seq(Byte) /\ Len(a) = IF 1 =< i THEN i - 1 + 1 ELSE 0
      /\ \A j \in 1 .. i - 1 + 1 : a[j] = t[1 + j - 1]
  <2>1. \A j \in 1 .. i : t[j] \in Byte
    BY <1>1, ElementOfSeq DEF Text
  <2> QED BY <1>1, <2>1, SubSeqProperties DEF UpTo
<1>4. ASSUME NEW k \in Nat
      PROVE  (IF 1 =< k THEN k - 1 + 1 ELSE 0) = k /\ k - 1 + 1 = k /\ \A j \in 1 .. k : 1 + j - 1 = j
  OBVIOUS
<1> HIDE DEF a, b, n
<1>5. a \in Text /\ Len(a) = i /\ \A j \in 1 .. i : a[j] = t[j]
  BY <1>1, <1>3, <1>4 DEF Text
<1>6. /\ ab \in Text /\ Len(ab) = Len(a) + Len(b)
      /\ \A j \in 1 .. Len(a) : ab[j] = a[j]
      /\ \A j \in 1 .. Len(b) : ab[Len(a) + j] = b[j]
  BY <1>2, <1>5, JoinedTexts
<1> HIDE DEF ab
<1>7. Len(ab) = n
  BY <1>1, <1>2, <1>5, <1>6
<1>8. ASSUME NEW j \in 1 .. n PROVE ab[j] = t[j]
  <2>1. CASE j =< i
    <3>1. j \in 1 .. i
      BY <1>1, <2>1
    <3> QED BY <1>5, <1>6, <3>1
  <2>2. CASE ~ j =< i
    <3>1. PICK k : k = j - i
      OBVIOUS
    <3>2. k \in 1 .. n - i /\ j = i + k
      BY <1>1, <2>2, <3>1
    <3> QED BY <1>2, <1>5, <1>6, <3>2
  <2> QED BY <2>1, <2>2
<1>9. ab = t
  BY <1>6, <1>7, <1>8, SeqEqual DEF Text, n
<1> QED BY <1>2, <1>5, <1>9 DEF a, b, ab, n

\* A cut of the first part of a text is a cut of the text.
LEMMA CutTwice ==
  ASSUME NEW t \in Text, NEW i \in 0 .. Len(t), NEW j \in 0 .. i
  PROVE  /\ UpTo(UpTo(t, i), j) = UpTo(t, j)
         /\ After(UpTo(t, i), j) = SubSeq(t, j + 1, i)
<1> DEFINE n == Len(t)  a == UpTo(t, i)
<1>1. n \in Nat /\ i \in Nat /\ i =< n /\ j \in Nat /\ j =< i
  BY TextLength
<1>2. a \in Text /\ Len(a) = i /\ \A k \in 1 .. i : a[k] = t[k]
  BY Rejoined
<1> HIDE DEF a
<1>3. j \in 0 .. Len(a) /\ j \in 0 .. Len(t)
  BY <1>1, <1>2 DEF n
<1>4. UpTo(a, j) = UpTo(t, j)
  <2>1. /\ UpTo(a, j) \in Text /\ Len(UpTo(a, j)) = j /\ \A k \in 1 .. j : UpTo(a, j)[k] = a[k]
        /\ UpTo(t, j) \in Text /\ Len(UpTo(t, j)) = j /\ \A k \in 1 .. j : UpTo(t, j)[k] = t[k]
    BY <1>2, <1>3, Rejoined
  <2>2. \A k \in 1 .. j : k \in 1 .. i
    BY <1>1
  <2>3. PICK x, y : x = UpTo(a, j) /\ y = UpTo(t, j)
    OBVIOUS
  <2>4. x \in Seq(Byte) /\ y \in Seq(Byte) /\ Len(x) = j /\ Len(y) = j /\ \A k \in 1 .. j : x[k] = y[k]
    BY <1>2, <2>1, <2>2, <2>3 DEF Text
  <2>5. x = y
    BY <2>4, SeqEqual
  <2> QED BY <2>3, <2>5
<1>5. After(a, j) = SubSeq(t, j + 1, i)
  <2>1. /\ After(a, j) \in Text /\ Len(After(a, j)) = i - j
        /\ \A k \in 1 .. i - j : After(a, j)[k] = a[j + k]
    BY <1>2, <1>3, CutsAreTexts
  <2>2. \A k \in j + 1 .. i : t[k] \in Byte
    <3>1. \A k \in j + 1 .. i : k \in 1 .. n
      BY <1>1
    <3> QED BY <3>1, ElementOfSeq DEF Text, n
  <2>3. /\ SubSeq(t, j + 1, i) \in Seq(Byte)
        /\ Len(SubSeq(t, j + 1, i)) = IF j + 1 =< i THEN i - (j + 1) + 1 ELSE 0
        /\ \A k \in 1 .. i - (j + 1) + 1 : SubSeq(t, j + 1, i)[k] = t[(j + 1) + k - 1]
    BY <1>1, <2>2, SubSeqProperties
  <2>4. /\ (IF j + 1 =< i THEN i - (j + 1) + 1 ELSE 0) = i - j /\ i - (j + 1) + 1 = i - j
        /\ \A k \in 1 .. i - j : (j + 1) + k - 1 = j + k /\ j + k \in 1 .. i
    BY <1>1
  <2>5. PICK x, y : x = After(a, j) /\ y = SubSeq(t, j + 1, i)
    OBVIOUS
  <2>6. /\ x \in Seq(Byte) /\ y \in Seq(Byte) /\ Len(x) = i - j /\ Len(y) = i - j
        /\ \A k \in 1 .. i - j : x[k] = y[k]
    BY <1>2, <2>1, <2>3, <2>4, <2>5 DEF Text
  <2>7. x = y
    BY <2>6, SeqEqual
  <2> QED BY <2>5, <2>7
<1> QED BY <1>4, <1>5 DEF a

\* What follows a byte is the tail of what begins with it.
LEMMA CutBeforeByte ==
  ASSUME NEW t \in Text, NEW i \in 1 .. Len(t)
  PROVE  After(t, i - 1) = <<t[i]>> \o After(t, i)
<1>1. Len(t) \in Nat
  BY TextLength
<1>2. PICK u : u = After(t, i - 1)
  OBVIOUS
<1>3. i - 1 \in 0 .. Len(t) /\ i \in 0 .. Len(t) /\ t[i] \in Byte
  BY <1>1, ElementOfSeq DEF Text
<1>4. /\ u \in Text /\ Len(u) = Len(t) - (i - 1)
      /\ \A j \in 1 .. Len(t) - (i - 1) : u[j] = t[(i - 1) + j]
  BY <1>2, <1>3, CutsAreTexts
<1>5. /\ After(t, i) \in Text /\ Len(After(t, i)) = Len(t) - i
      /\ \A j \in 1 .. Len(t) - i : After(t, i)[j] = t[i + j]
  BY <1>3, CutsAreTexts
<1>6. <<t[i]>> \in Text /\ Len(<<t[i]>>) = 1 /\ <<t[i]>>[1] = t[i]
  BY <1>3, SmallTexts
<1>7. PICK b, v : b = <<t[i]>> /\ v = b \o After(t, i)
  OBVIOUS
<1>8. /\ v \in Text /\ Len(v) = 1 + (Len(t) - i) /\ v[1] = t[i]
      /\ \A j \in 1 .. Len(t) - i : v[1 + j] = t[i + j]
  <2>1. b \in Text /\ Len(b) = 1 /\ b[1] = t[i]
    BY <1>6, <1>7
  <2>2. PICK r : r = After(t, i)
    OBVIOUS
  <2>3. /\ b \o r \in Text /\ Len(b \o r) = Len(b) + Len(r)
        /\ \A j \in 1 .. Len(b) : (b \o r)[j] = b[j]
        /\ \A j \in 1 .. Len(r) : (b \o r)[Len(b) + j] = r[j]
    BY <1>5, <2>1, <2>2, JoinedTexts
  <2>4. v = b \o r
    BY <1>7, <2>2
  <2>5. /\ v \in Text /\ Len(v) = Len(b) + Len(r)
        /\ \A j \in 1 .. Len(b) : v[j] = b[j]
        /\ \A j \in 1 .. Len(r) : v[Len(b) + j] = r[j]
    BY <2>3, <2>4
  <2> QED BY <1>5, <2>1, <2>2, <2>5
<1>9. ASSUME NEW j \in 1 .. Len(u) PROVE u[j] = v[j]
  <2>1. CASE j = 1
    <3>1. u[1] = t[(i - 1) + 1] /\ (i - 1) + 1 = i
      BY <1>1, <1>4, <2>1
    <3> QED BY <1>8, <2>1, <3>1
  <2>2. CASE j # 1
    <3>1. PICK k : k = j - 1
      OBVIOUS
    <3>2. k \in 1 .. Len(t) - i /\ j = 1 + k /\ (i - 1) + j = i + k
      BY <1>1, <1>4, <2>2, <3>1
    <3> QED BY <1>4, <1>8, <3>2
  <2> QED BY <2>1, <2>2
<1>10. Len(u) = Len(v)
  BY <1>1, <1>4, <1>8
<1>11. u = v
  BY <1>4, <1>8, <1>9, <1>10, SeqEqual DEF Text
<1> QED BY <1>2, <1>7, <1>11

\* The tail of a text that is not empty.
LEMMA TailOfText ==
  ASSUME NEW t \in Text, t # <<>>
  PROVE  Tail(t) = After(t, 1) /\ t = <<t[1]>> \o Tail(t) /\ Tail(t) \in Text
<1>1. Tail(t) = After(t, 1)
  BY TailIsSubSeq DEF Text, After
<1>2. Len(t) \in Nat /\ Len(t) # 0
  BY TextLength
<1>3. 1 \in 1 .. Len(t) /\ 1 - 1 = 0 /\ 0 \in 0 .. Len(t) /\ 1 \in 0 .. Len(t)
  BY <1>2
<1>4. After(t, 0) = <<t[1]>> \o After(t, 1)
  BY <1>3, CutBeforeByte
<1>5. After(t, 0) = t
  BY SubSeqFull DEF After, Text
<1> QED BY <1>1, <1>3, <1>4, <1>5, CutsAreTexts

-----------------------------------------------------------------------------
\* Ports.

\* What is read as a port is a number of the grammar, and nothing else.
LEMMA PortIsNumber ==
  ASSUME NEW raw \in Text
  PROVE  /\ ParsePort(raw).ok <=> IsPortNumber(raw)
         /\ ParsePort(raw).ok => \A c \in Punctuation : Positions(raw, c) = {}
<1> DEFINE digits == IF BeginsWith(raw, Plus) THEN Tail(raw) ELSE raw
           number == Significant(digits)  largest == Decimal(MaxPort)
           Fits   == /\ Len(number) \in 1 .. Len(largest)
                     /\ Len(number) = Len(largest) => ~ TextLess(largest, number)
           Figures == \A i \in DOMAIN number : number[i] \in 48 .. 57
<1>1. digits \in Text
  BY TailOfText DEF BeginsWith
<1>2. ParsePort(raw).ok <=> IsDigits(digits) /\ Number(digits) \in 1 .. MaxPort
  BY Answers DEF ParsePort
<1>3. IsPortNumber(raw) <=> Figures /\ Fits
  BY DEF IsPortNumber, Significant, Zeros
<1>4. PICK d \in Text : d = digits
  BY <1>1
<1>5. PICK l : l = Max(Zeros(d))
  OBVIOUS
<1>6. PICK u : u = Significant(d)
  OBVIOUS
<1>7. /\ l \in 0 .. Len(d) /\ \A j \in 1 .. l : d[j] = 48
      /\ u \in Text /\ Len(u) = Len(d) - l
      /\ \A j \in 1 .. Len(d) - l : u[j] = d[l + j]
  BY <1>5, <1>6, SignificantText
<1>8. Len(d) \in Nat /\ DOMAIN d = 1 .. Len(d) /\ DOMAIN u = 1 .. Len(u) /\ (d = <<>> <=> Len(d) = 0)
  BY <1>7, TextLength
<1>9. IsDigits(d) => \A i \in DOMAIN u : u[i] \in 48 .. 57
  <2>1. \A i \in 1 .. Len(u) : l + i \in 1 .. Len(d)
    BY <1>7, <1>8
  <2> QED BY <1>7, <1>8, <2>1 DEF IsDigits
<1>10. ASSUME \A i \in DOMAIN u : u[i] \in 48 .. 57, Len(u) # 0 PROVE IsDigits(d)
  <2>1. d # <<>>
    BY <1>7, <1>8, <1>10
  <2>2. ASSUME NEW i \in 1 .. Len(d) PROVE d[i] \in 48 .. 57
    <3>1. CASE i =< l
      <4>1. i \in 1 .. l /\ 48 \in 48 .. 57
        BY <1>7, <3>1
      <4> QED BY <1>7, <4>1
    <3>2. CASE ~ i =< l
      <4>1. PICK k : k = i - l
        OBVIOUS
      <4>2. k \in 1 .. Len(d) - l /\ i = l + k
        BY <1>7, <1>8, <3>2, <4>1
      <4> QED BY <1>7, <1>8, <1>10, <4>2
    <3> QED BY <3>1, <3>2
  <2> QED BY <1>8, <2>1, <2>2 DEF IsDigits
<1>11. (IsDigits(d) /\ Number(d) \in 1 .. MaxPort) <=>
         /\ \A i \in DOMAIN u : u[i] \in 48 .. 57
         /\ Len(u) \in 1 .. Len(largest)
         /\ Len(u) = Len(largest) => ~ TextLess(largest, u)
  <2>1. CASE IsDigits(d)
    BY <1>6, <1>9, <2>1, NumbersAsTexts
  <2>2. CASE ~ IsDigits(d)
    <3>1. Len(u) \in 1 .. Len(largest) => Len(u) # 0
      OBVIOUS
    <3> QED BY <1>10, <2>2, <3>1
  <2> QED BY <2>1, <2>2
<1>12. ParsePort(raw).ok <=> IsPortNumber(raw)
  <2> HIDE DEF digits
  <2>1. number = u
    BY <1>4, <1>6
  <2> QED BY <1>2, <1>3, <1>4, <1>11, <2>1
<1>13. ASSUME ParsePort(raw).ok, NEW c \in Punctuation PROVE Positions(raw, c) = {}
  <2>1. Positions(digits, c) = {}
    BY <1>1, <1>2, <1>13, DigitsLack
  <2>2. CASE BeginsWith(raw, Plus)
    <3>1. raw = <<raw[1]>> \o Tail(raw) /\ Tail(raw) \in Text /\ raw[1] = Plus
      BY <2>2, TailOfText DEF BeginsWith
    <3>2. Plus \in Byte /\ Plus # c
      BY DEF Plus, Byte, Punctuation, Colon, Slash, Question, At, Hash, OpenBracket, CloseBracket
    <3>3. <<Plus>> \in Text /\ Positions(<<Plus>>, c) = {}
      BY <3>2, SmallTexts
    <3>4. Positions(Tail(raw), c) = {}
      BY <2>1, <2>2
    <3>5. PICK p, q : p = <<Plus>> /\ q = Tail(raw)
      OBVIOUS
    <3>6. Positions(p \o q, c) = {}
      BY <3>1, <3>3, <3>4, <3>5, JoinedLacks
    <3>7. raw = p \o q
      BY <3>1, <3>5
    <3> QED BY <3>6, <3>7
  <2>3. CASE ~ BeginsWith(raw, Plus)
    BY <2>1, <2>3
  <2> QED BY <2>2, <2>3
<1> QED BY <1>12, <1>13

-----------------------------------------------------------------------------
\* Hosts.

\* Lower case does not touch punctuation.
LEMMA LowercaseKeepsPunctuation ==
  ASSUME NEW t \in Text, NEW c \in Punctuation
  PROVE  /\ \A i \in 1 .. Len(t) : ToAsciiLowercase(t)[i] = c <=> t[i] = c
         /\ Positions(ToAsciiLowercase(t), c) = {} <=> Positions(t, c) = {}
<1>1. /\ Len(ToAsciiLowercase(t)) = Len(t)
      /\ \A i \in 1 .. Len(t) : ToAsciiLowercase(t)[i] = AsciiLower(t[i]) /\ t[i] \in Byte
  BY LowercaseIsText, LowercaseLength, TextLength
<1>2. \A b \in Byte : AsciiLower(b) = c <=> b = c
  BY PunctuationBytes DEF AsciiLower, Byte
<1>3. \A i \in 1 .. Len(t) : ToAsciiLowercase(t)[i] = c <=> t[i] = c
  BY <1>1, <1>2
<1> QED BY <1>1, <1>3 DEF Positions

\* A text that is accepted as a name has no punctuation.
LEMMA AcceptedTextLacks ==
  ASSUME NEW text \in Text, RemapNameParse(text).ok, NEW c \in Punctuation
  PROVE  Positions(text, c) = {}
<1> DEFINE bare == StripRootDot(text)  canonical == ToAsciiLowercase(bare)
<1>1. FaultySpans(canonical) = {}
  BY DEF RemapNameParse, Ok, Err
<1>2. bare \in Text /\ canonical \in Text
  BY StripRootDotIsText, LowercaseIsText
<1>3. Positions(bare, c) = {}
  <2>1. Positions(canonical, c) = {}
    BY <1>1, <1>2, NameLacks
  <2> HIDE DEF bare
  <2> QED BY <1>2, <2>1, LowercaseKeepsPunctuation
<1>4. CASE EndsWith(text, Dot)
  <2>1. /\ Len(bare) = Len(text) - 1 /\ Len(text) \in Nat
        /\ \A i \in 1 .. (Len(text) - 1) : bare[i] = text[i]
    BY <1>4, StrippedText, TextLength
  <2>2. text[Len(text)] = Dot /\ Dot # c
    BY <1>4, PunctuationBytes DEF EndsWith
  <2> HIDE DEF bare
  <2>3. ASSUME NEW i \in 1 .. Len(text) PROVE text[i] # c
    <3>1. i \in 1 .. (Len(text) - 1) \/ i = Len(text)
      BY <2>1
    <3> QED BY <1>3, <2>1, <2>2, <3>1 DEF Positions
  <2> QED BY <2>3 DEF Positions
<1>5. CASE ~ EndsWith(text, Dot)
  BY <1>3, <1>5 DEF StripRootDot
<1> QED BY <1>4, <1>5

\* A text that begins and ends with brackets is what stands between them in brackets.
LEMMA BracketsAround ==
  ASSUME NEW t \in Text, BeginsWith(t, OpenBracket), EndsWith(t, CloseBracket)
  PROVE  /\ SubSeq(t, 2, Len(t) - 1) \in Text
         /\ t = Bracketed(SubSeq(t, 2, Len(t) - 1))
<1>1. Len(t) \in Nat /\ Len(t) # 0 /\ t[1] = OpenBracket /\ t[Len(t)] = CloseBracket
  BY TextLength DEF BeginsWith, EndsWith
<1>2. OpenBracket # CloseBracket
  BY DEF OpenBracket, CloseBracket
<1>3. PICK n \in Nat : n = Len(t) - 1 /\ n >= 1
  <2>1. Len(t) # 1
    BY <1>1, <1>2
  <2>2. \A k \in Nat : k # 0 /\ k # 1 => k - 1 \in Nat /\ k - 1 >= 1
    OBVIOUS
  <2>3. Len(t) - 1 \in Nat /\ Len(t) - 1 >= 1
    BY <1>1, <2>1, <2>2
  <2> QED BY <2>3
<1>4. n \in 0 .. Len(t) /\ n + 1 = Len(t) /\ 1 \in 0 .. n /\ Len(t) \in 1 .. Len(t) /\ Len(t) - 1 = n
  BY <1>1, <1>3
<1>5. PICK front, middle : front = UpTo(t, n) /\ middle = SubSeq(t, 2, n)
  OBVIOUS
<1>6. front \in Text /\ Len(front) = n /\ (\A j \in 1 .. n : front[j] = t[j]) /\ t = front \o After(t, n)
  BY <1>4, <1>5, Rejoined
<1>7. After(t, n) = <<CloseBracket>>
  <2>1. After(t, n) = <<t[Len(t)]>> \o After(t, Len(t))
    BY <1>4, CutBeforeByte
  <2>2. After(t, Len(t)) = <<>>
    <3>1. Len(t) \in 0 .. Len(t)
      BY <1>1
    <3>2. After(t, Len(t)) \in Text /\ Len(After(t, Len(t))) = Len(t) - Len(t)
      BY <3>1, CutsAreTexts
    <3>3. Len(t) - Len(t) = 0
      BY <1>1
    <3> QED BY <3>2, <3>3, TextLength
  <2>3. <<CloseBracket>> \in Text
    BY SmallTexts DEF CloseBracket, Byte
  <2>4. <<CloseBracket>> \o <<>> = <<CloseBracket>>
    BY <2>3, ConcatEmptySeq DEF Text
  <2> QED BY <1>1, <2>1, <2>2, <2>4
<1>8. front = <<OpenBracket>> \o After(front, 1) /\ After(front, 1) \in Text
  <2>1. front # <<>> /\ 1 \in 1 .. n
    BY <1>3, <1>6, TextLength
  <2>2. front[1] = OpenBracket
    BY <1>1, <1>6, <2>1
  <2>3. Tail(front) = After(front, 1) /\ front = <<front[1]>> \o Tail(front) /\ Tail(front) \in Text
    BY <1>6, <2>1, TailOfText
  <2> QED BY <2>2, <2>3
<1>9. After(front, 1) = middle
  <2>1. After(UpTo(t, n), 1) = SubSeq(t, 1 + 1, n)
    BY <1>4, CutTwice
  <2> QED BY <1>5, <2>1
<1>10. t = Bracketed(middle)
  BY <1>6, <1>7, <1>8, <1>9 DEF Bracketed
<1> QED BY <1>4, <1>5, <1>8, <1>9, <1>10

\* Every host of the grammar stands for a host.
LEMMA HostIsSpelled ==
  ASSUME NEW h \in Text, IsHost(h)
  PROVE  \E host : Spells(h, host)
<1>1. CASE h \in AddressLiterals /\ h \notin Ipv6Literals
  BY <1>1, AddressIsSpelled
<1>2. CASE RemapNameParse(h).ok /\ ~ (h \in AddressLiterals /\ h \notin Ipv6Literals)
  <2>1. \A c \in Punctuation : Positions(h, c) = {}
    BY <1>2, AcceptedTextLacks
  <2>2. h \notin AddressLiterals
    <3> SUFFICES ASSUME h \in AddressLiterals PROVE FALSE
      OBVIOUS
    <3>1. PICK i \in DOMAIN h : h[i] = Colon
      BY <1>2, TargetsAssumption
    <3>2. Colon \in Punctuation
      BY DEF Punctuation
    <3> QED BY <2>1, <3>1, <3>2, TextLength DEF Positions
  <2>3. RemapNameParse(h) = Ok(RemapNameParse(h).value)
    BY <1>2, Answers DEF RemapNameParse
  <2> QED BY <2>1, <2>2, <2>3, NameIsSpelled
<1>3. CASE /\ BeginsWith(h, OpenBracket) /\ EndsWith(h, CloseBracket)
           /\ SubSeq(h, 2, Len(h) - 1) \in Ipv6Literals
  <2>1. PICK t : t = SubSeq(h, 2, Len(h) - 1)
    OBVIOUS
  <2>2. t \in Ipv6Literals /\ t \in AddressLiterals /\ h = Bracketed(t)
    BY <1>3, <2>1, BracketsAround, TargetsAssumption
  <2> QED BY <2>2, AddressIsSpelled
<1> QED BY <1>1, <1>2, <1>3 DEF IsHost

\* A host that is read is one of the grammar, and its port was read.
LEMMA ReadHost ==
  ASSUME NEW h \in Text, Positions(h, Colon) = {}, NEW port, HostAndPort(h, port).ok
  PROVE  port.ok /\ IsHost(h)
<1>1. port.ok
  BY Answers DEF HostAndPort
<1>2. CASE h \in AddressLiterals
  <2>1. h \notin Ipv6Literals
    BY <1>2, TargetsAssumption, TextLength DEF Positions
  <2> QED BY <1>1, <1>2, <2>1 DEF IsHost
<1>3. CASE h \notin AddressLiterals
  <2>1. RemapNameParse(h).ok
    BY <1>1, <1>3, Answers DEF HostAndPort
  <2> QED BY <1>1, <2>1 DEF IsHost
<1> QED BY <1>2, <1>3

-----------------------------------------------------------------------------
\* Authorities.

\* A host of the grammar, alone or with a port behind it.
IsHostPort(a) ==
  \/ IsHost(a)
  \/ \E h, raw \in Text : a = h \o WithPort(raw) /\ IsHost(h) /\ IsPortNumber(raw)

\* A host with its port is read, and has none of the bytes that end an authority or
\* that are refused in it.
LEMMA HostPortIsRead ==
  ASSUME NEW a \in Text, IsHostPort(a)
  PROVE  /\ a # <<>> /\ ParseAuthority(a).ok
         /\ \A c \in {Slash, Question, Hash, At} : Positions(a, c) = {}
<1>1. CASE IsHost(a)
  <2>1. PICK host : Spells(a, host)
    BY <1>1, HostIsSpelled
  <2> QED BY <2>1, Answers DEF Spells
<1>2. CASE \E h, raw \in Text : a = h \o WithPort(raw) /\ IsHost(h) /\ IsPortNumber(raw)
  <2>1. PICK h \in Text, raw \in Text : a = h \o WithPort(raw) /\ IsHost(h) /\ IsPortNumber(raw)
    BY <1>2
  <2>2. PICK host : Spells(h, host)
    BY <2>1, HostIsSpelled
  <2>3. ParsePort(raw).ok /\ \A c \in Punctuation : Positions(raw, c) = {}
    BY <2>1, PortIsNumber
  <2>4. Colon \in Punctuation
    BY DEF Punctuation
  <2>5. ParseAuthority(h \o WithPort(raw)) = Ok([host |-> host, port |-> ParsePort(raw).value])
    BY <2>2, <2>3, <2>4 DEF Spells
  <2>6. ParseAuthority(a).ok
    BY <2>1, <2>5, Answers
  <2>7. PICK tail : tail = WithPort(raw)
    OBVIOUS
  <2>8. tail \in Text /\ Len(tail) = 1 + Len(raw)
    BY <2>7, PortBehindColon
  <2>9. a # <<>>
    <3>1. Len(a) = Len(h) + Len(tail)
      BY <2>1, <2>7, <2>8, JoinedTexts
    <3>2. Len(h) \in Nat /\ Len(raw) \in Nat
      BY TextLength
    <3>3. Len(a) # 0
      BY <2>8, <3>1, <3>2
    <3> QED BY <3>3, TextLength
  <2>10. ASSUME NEW c \in {Slash, Question, Hash, At} PROVE Positions(a, c) = {}
    <3>1. c \in Punctuation /\ c # Colon
      BY DEF Punctuation, Slash, Question, Hash, At, Colon
    <3>2. Positions(tail, c) = {}
      BY <2>3, <2>7, <3>1, PortBehindColon
    <3>3. Positions(h, c) = {}
      BY <2>2 DEF Spells
    <3>4. Positions(h \o tail, c) = {}
      BY <2>8, <3>2, <3>3, JoinedLacks
    <3> QED BY <2>1, <2>7, <3>4
  <2> QED BY <2>6, <2>9, <2>10
<1> QED BY <1>1, <1>2 DEF IsHostPort

\* What is cut off at a colon is a port behind it.
LEMMA CutAtColon ==
  ASSUME NEW t \in Text, NEW i \in 1 .. Len(t), t[i] = Colon
  PROVE  /\ UpTo(t, i - 1) \in Text /\ After(t, i) \in Text
         /\ t = UpTo(t, i - 1) \o WithPort(After(t, i))
         /\ Len(UpTo(t, i - 1)) = i - 1
<1>1. i - 1 \in 0 .. Len(t) /\ i \in 0 .. Len(t)
  BY TextLength
<1>2. After(t, i - 1) = WithPort(After(t, i))
  BY CutBeforeByte DEF WithPort
<1>3. /\ UpTo(t, i - 1) \in Text /\ Len(UpTo(t, i - 1)) = i - 1
      /\ t = UpTo(t, i - 1) \o After(t, i - 1)
  BY <1>1, Rejoined
<1>4. After(t, i) \in Text
  BY <1>1, Rejoined
<1> QED BY <1>2, <1>3, <1>4

\* What is read without brackets is a host of the grammar with its port.
LEMMA UnbracketedIsHostPort ==
  ASSUME NEW a \in Text, ParseUnbracketed(a).ok
  PROVE  IsHostPort(a)
<1> DEFINE colons == Positions(a, Colon)
<1>1. CASE colons = {}
  <2>1. HostAndPort(a, Ok(NoPort)).ok
    BY <1>1, Answers DEF ParseUnbracketed
  <2> QED BY <1>1, <2>1, ReadHost DEF IsHostPort
<1>2. CASE colons # {}
  <2>1. PICK i : i = Min(colons)
    OBVIOUS
  <2>2. i \in 1 .. Len(a) /\ a[i] = Colon /\ \A j \in colons : i =< j
    BY <1>2, <2>1, FirstPosition
  <2>3. PICK h, raw : h = UpTo(a, i - 1) /\ raw = After(a, i)
    OBVIOUS
  <2>4. HostAndPort(h, ParsePort(raw)).ok
    BY <1>2, <2>1, <2>3, Answers DEF ParseUnbracketed
  <2>5. h \in Text /\ raw \in Text /\ a = h \o WithPort(raw) /\ Len(h) = i - 1
    BY <2>2, <2>3, CutAtColon
  <2>6. Positions(h, Colon) = {}
    <3> SUFFICES ASSUME NEW j \in 1 .. Len(h), h[j] = Colon PROVE FALSE
      BY DEF Positions
    <3>1. i \in Nat /\ i - 1 \in 0 .. Len(a) /\ Len(a) \in Nat
      BY <2>2, TextLength
    <3>2. h[j] = a[j]
      BY <2>3, <2>5, <3>1, Rejoined
    <3>3. j \in 1 .. Len(a) /\ ~ i =< j
      BY <2>5, <3>1
    <3> QED BY <2>2, <3>2, <3>3 DEF Positions
  <2>7. ParsePort(raw).ok /\ IsHost(h)
    BY <2>4, <2>5, <2>6, ReadHost
  <2>8. IsPortNumber(raw)
    BY <2>5, <2>7, PortIsNumber
  <2> QED BY <2>5, <2>7, <2>8 DEF IsHostPort
<1> QED BY <1>1, <1>2

\* So is what is read with brackets.
LEMMA BracketedIsHostPort ==
  ASSUME NEW a \in Text, BeginsWith(a, OpenBracket), ParseBracketed(a).ok
  PROVE  IsHostPort(a)
<1>1. Positions(a, CloseBracket) # {}
  BY Answers DEF ParseBracketed
<1>2. PICK close : close = Min(Positions(a, CloseBracket))
  OBVIOUS
<1>3. close \in 1 .. Len(a) /\ a[close] = CloseBracket
  BY <1>1, <1>2, FirstPosition
<1>4. PICK h, tail : h = UpTo(a, close) /\ tail = After(a, close)
  OBVIOUS
<1>5. /\ SubSeq(a, 2, close - 1) \in Ipv6Literals
      /\ tail # <<>> => BeginsWith(tail, Colon) /\ ParsePort(Tail(tail)).ok
  BY <1>1, <1>2, <1>4, Answers DEF ParseBracketed
<1>6. /\ h \in Text /\ tail \in Text /\ Len(h) = close /\ a = h \o tail
      /\ \A j \in 1 .. close : h[j] = a[j]
  <2>1. close \in 0 .. Len(a)
    BY <1>3, TextLength
  <2> QED BY <1>4, <2>1, Rejoined
<1>7. IsHost(h)
  <2>1. Len(a) \in Nat /\ a[1] = OpenBracket
    BY TextLength DEF BeginsWith
  <2>2. close # 0 /\ 1 \in 1 .. close /\ close \in 1 .. close
    BY <1>3, <2>1
  <2>3. h # <<>> /\ h[1] = OpenBracket /\ h[Len(h)] = CloseBracket
    BY <1>3, <1>6, <2>1, <2>2, TextLength
  <2>4. SubSeq(h, 2, Len(h) - 1) = SubSeq(a, 2, close - 1)
    <3>1. close # 1
      BY <1>3, <2>1 DEF OpenBracket, CloseBracket
    <3>2. /\ close \in 0 .. Len(a) /\ close - 1 \in 0 .. close /\ 1 \in 0 .. close - 1
          /\ close - 1 \in 0 .. Len(a) /\ close - 1 \in 0 .. Len(h)
      BY <1>3, <1>6, <2>1, <3>1
    <3>3. UpTo(h, close - 1) = UpTo(a, close - 1)
      BY <1>4, <3>2, CutTwice
    <3>4. After(UpTo(h, close - 1), 1) = SubSeq(h, 1 + 1, close - 1)
      BY <1>6, <3>2, CutTwice
    <3>5. After(UpTo(a, close - 1), 1) = SubSeq(a, 1 + 1, close - 1)
      BY <3>2, CutTwice
    <3> QED BY <1>6, <3>3, <3>4, <3>5
  <2> QED BY <1>5, <2>3, <2>4 DEF IsHost, BeginsWith, EndsWith
<1>8. CASE tail = <<>>
  <2>1. a = h
    BY <1>6, <1>8, ConcatEmptySeq DEF Text
  <2> QED BY <1>7, <2>1 DEF IsHostPort
<1>9. CASE tail # <<>>
  <2>1. PICK raw : raw = Tail(tail)
    OBVIOUS
  <2>2. tail = <<tail[1]>> \o raw /\ raw \in Text /\ tail[1] = Colon
    BY <1>5, <1>6, <1>9, <2>1, TailOfText DEF BeginsWith
  <2>3. tail = WithPort(raw)
    BY <2>2 DEF WithPort
  <2>4. IsPortNumber(raw)
    BY <1>5, <1>9, <2>1, <2>2, PortIsNumber
  <2>5. a = h \o WithPort(raw)
    BY <1>6, <2>3
  <2> QED BY <1>6, <1>7, <2>2, <2>4, <2>5 DEF IsHostPort
<1> QED BY <1>8, <1>9

\* parse_authority accepts a host with its port, and nothing else.
LEMMA AuthorityIsHostPort ==
  ASSUME NEW a \in Text
  PROVE  IsHostPort(a) <=>
           a # <<>> /\ Positions(a, At) = {} /\ ParseAuthority(a).ok
<1>1. ParseAuthority(a).ok => IsHostPort(a)
  BY UnbracketedIsHostPort, BracketedIsHostPort DEF ParseAuthority
<1> QED BY <1>1, HostPortIsRead

-----------------------------------------------------------------------------
\* What follows the scheme.

\* The authority is as long as the first part without a slash.
LEMMA AuthorityIsCut ==
  ASSUME NEW rest \in Text,
         NEW pathAt \in Positions(rest, Slash) \cup {Len(rest) + 1},
         Positions(UpTo(rest, pathAt - 1), Slash) = {}
  PROVE  AuthorityLength(rest) = pathAt - 1
<1>1. Len(rest) \in Nat
  BY TextLength
<1>2. pathAt \in 1 .. Len(rest) + 1 /\ pathAt - 1 \in 0 .. Len(rest)
  BY <1>1 DEF Positions
<1>3. /\ Len(UpTo(rest, pathAt - 1)) = pathAt - 1
      /\ \A j \in 1 .. pathAt - 1 : UpTo(rest, pathAt - 1)[j] = rest[j]
  BY <1>2, Rejoined
<1>4. \A j \in 1 .. pathAt - 1 : rest[j] # Slash
  BY <1>3 DEF Positions
<1>5. \A j \in Positions(rest, Slash) : pathAt =< j
  <2> SUFFICES ASSUME NEW j \in 1 .. Len(rest), rest[j] = Slash PROVE pathAt =< j
    BY DEF Positions
  <2>1. j \notin 1 .. pathAt - 1
    BY <1>4
  <2> QED BY <1>1, <1>2, <2>1
<1>6. CASE Positions(rest, Slash) = {}
  BY <1>1, <1>6 DEF AuthorityLength
<1>7. CASE Positions(rest, Slash) # {}
  <2>1. PICK j \in Positions(rest, Slash) : TRUE
    BY <1>7
  <2>2. j \in 1 .. Len(rest) /\ pathAt =< j
    BY <1>5, <2>1 DEF Positions
  <2>3. pathAt # Len(rest) + 1
    BY <1>1, <1>2, <2>2
  <2>4. pathAt \in Positions(rest, Slash)
    BY <2>3
  <2>5. Positions(rest, Slash) \in SUBSET Int
    BY <1>1 DEF Positions
  <2>6. Min(Positions(rest, Slash)) = pathAt
    BY <1>5, <2>4, <2>5, MinIs
  <2> QED BY <1>7, <2>6 DEF AuthorityLength
<1> QED BY <1>6, <1>7

\* A part up to some slash that is a host with its port is the authority.
LEMMA HostPortEnds ==
  ASSUME NEW rest \in Text, IsHostPortPath(rest)
  PROVE  IsHostPort(UpTo(rest, AuthorityLength(rest)))
<1>1. PICK pathAt \in Positions(rest, Slash) \cup {Len(rest) + 1} :
        \E portAt \in {i \in Positions(rest, Colon) : i < pathAt} \cup {pathAt} :
          /\ IsHost(UpTo(rest, portAt - 1))
          /\ portAt < pathAt => IsPortNumber(SubSeq(rest, portAt + 1, pathAt - 1))
  BY DEF IsHostPortPath
<1>2. PICK portAt \in {i \in Positions(rest, Colon) : i < pathAt} \cup {pathAt} :
        /\ IsHost(UpTo(rest, portAt - 1))
        /\ portAt < pathAt => IsPortNumber(SubSeq(rest, portAt + 1, pathAt - 1))
  BY <1>1
<1>3. Len(rest) \in Nat
  BY TextLength
<1>4. pathAt \in 1 .. Len(rest) + 1 /\ pathAt - 1 \in 0 .. Len(rest)
  BY <1>3 DEF Positions
<1>5. PICK a : a = UpTo(rest, pathAt - 1)
  OBVIOUS
<1>6. a \in Text /\ Len(a) = pathAt - 1 /\ \A j \in 1 .. pathAt - 1 : a[j] = rest[j]
  BY <1>4, <1>5, Rejoined
<1>7. IsHostPort(a)
  <2>1. CASE portAt = pathAt
    BY <1>2, <1>5, <2>1 DEF IsHostPort
  <2>2. CASE portAt # pathAt
    <3>1. portAt \in 1 .. Len(rest) /\ rest[portAt] = Colon /\ portAt < pathAt
      BY <1>2, <2>2 DEF Positions
    <3>2. /\ portAt \in 1 .. Len(a) /\ portAt - 1 \in 0 .. pathAt - 1 /\ portAt \in 0 .. pathAt - 1
          /\ portAt \in 1 .. pathAt - 1
      BY <1>3, <1>4, <1>6, <3>1
    <3>3. a[portAt] = Colon
      BY <1>6, <3>1, <3>2
    <3>4. UpTo(a, portAt - 1) = UpTo(rest, portAt - 1)
      BY <1>4, <1>5, <3>2, CutTwice
    <3>5. After(a, portAt) = SubSeq(rest, portAt + 1, pathAt - 1)
      BY <1>4, <1>5, <3>2, CutTwice
    <3>6. PICK h, raw : h = UpTo(a, portAt - 1) /\ raw = After(a, portAt)
      OBVIOUS
    <3>7. h \in Text /\ raw \in Text /\ a = h \o WithPort(raw)
      BY <1>6, <3>2, <3>3, <3>6, CutAtColon
    <3>8. IsHost(h) /\ IsPortNumber(raw)
      BY <1>2, <3>1, <3>4, <3>5, <3>6
    <3> QED BY <3>7, <3>8 DEF IsHostPort
  <2> QED BY <2>1, <2>2
<1>8. AuthorityLength(rest) = pathAt - 1
  <2>1. Positions(a, Slash) = {}
    BY <1>6, <1>7, HostPortIsRead
  <2> QED BY <1>5, <2>1, AuthorityIsCut
<1> QED BY <1>5, <1>7, <1>8

\* Where the authority ends.
LEMMA AuthorityEnds ==
  ASSUME NEW rest \in Text
  PROVE  LET n == AuthorityLength(rest)
         IN  /\ n \in 0 .. Len(rest) /\ n + 1 \in Positions(rest, Slash) \cup {Len(rest) + 1}
             /\ (n + 1) - 1 = n /\ n \in Nat
<1>1. Len(rest) \in Nat
  BY TextLength
<1>2. CASE Positions(rest, Slash) = {}
  BY <1>1, <1>2 DEF AuthorityLength
<1>3. CASE Positions(rest, Slash) # {}
  <2>1. PICK i : i = Min(Positions(rest, Slash))
    OBVIOUS
  <2>2. i \in 1 .. Len(rest) /\ i \in Positions(rest, Slash)
    BY <1>3, <2>1, FirstPosition DEF Positions
  <2>3. i - 1 \in 0 .. Len(rest) /\ (i - 1) + 1 = i /\ i - 1 \in Nat /\ ((i - 1) + 1) - 1 = i - 1
    BY <1>1, <2>2
  <2>4. AuthorityLength(rest) = i - 1
    BY <1>3, <2>1 DEF AuthorityLength
  <2> QED BY <2>2, <2>3, <2>4
<1> QED BY <1>2, <1>3

\* An authority that is a host with its port is one in front of a path.
LEMMA HostPortBegins ==
  ASSUME NEW rest \in Text, IsHostPort(UpTo(rest, AuthorityLength(rest)))
  PROVE  IsHostPortPath(rest)
<1>1. PICK n : n = AuthorityLength(rest)
  OBVIOUS
<1>2. /\ n \in 0 .. Len(rest) /\ n + 1 \in Positions(rest, Slash) \cup {Len(rest) + 1}
      /\ (n + 1) - 1 = n /\ n \in Nat
  BY <1>1, AuthorityEnds
<1>3. PICK a : a = UpTo(rest, n)
  OBVIOUS
<1>4. a \in Text /\ Len(a) = n /\ \A j \in 1 .. n : a[j] = rest[j]
  BY <1>2, <1>3, Rejoined
<1>5. SUFFICES \E portAt \in {i \in Positions(rest, Colon) : i < n + 1} \cup {n + 1} :
                 /\ IsHost(UpTo(rest, portAt - 1))
                 /\ portAt < n + 1 => IsPortNumber(SubSeq(rest, portAt + 1, (n + 1) - 1))
  BY <1>2 DEF IsHostPortPath
<1>6. CASE IsHost(a)
  <2>1. ~ n + 1 < n + 1
    BY <1>2
  <2>2. IsHost(UpTo(rest, (n + 1) - 1))
    BY <1>2, <1>3, <1>6
  <2> QED BY <2>1, <2>2
<1>7. CASE \E h, raw \in Text : a = h \o WithPort(raw) /\ IsHost(h) /\ IsPortNumber(raw)
  <2>1. PICK h \in Text, raw \in Text : a = h \o WithPort(raw) /\ IsHost(h) /\ IsPortNumber(raw)
    BY <1>7
  <2>2. PICK i : i = Len(h) + 1
    OBVIOUS
  <2>3. PICK tail : tail = WithPort(raw)
    OBVIOUS
  <2>4. /\ tail \in Text /\ Len(tail) = 1 + Len(raw) /\ tail[1] = Colon
    BY <2>3, PortBehindColon DEF BeginsWith
  <2>5. /\ Len(a) = Len(h) + Len(tail) /\ \A j \in 1 .. Len(tail) : a[Len(h) + j] = tail[j]
    BY <2>1, <2>3, <2>4, JoinedTexts
  <2>6. /\ Len(h) \in Nat /\ Len(raw) \in Nat /\ 1 \in 1 .. Len(tail) /\ i \in 1 .. n /\ i - 1 = Len(h)
        /\ i \in 0 .. n /\ i - 1 \in 0 .. n /\ i < n + 1 /\ i \in 1 .. Len(rest) /\ i \in 1 .. Len(a)
    <3>1. Len(h) \in Nat /\ Len(raw) \in Nat /\ Len(rest) \in Nat
      BY TextLength
    <3> QED BY <1>2, <1>4, <2>2, <2>4, <2>5, <3>1
  <2>7. a[i] = Colon /\ rest[i] = Colon
    BY <1>4, <2>2, <2>4, <2>5, <2>6
  <2>8. UpTo(a, i - 1) = h /\ After(a, i) = raw
    <3>1. UpTo(a, i - 1) = h
      BY <2>1, <2>3, <2>4, <2>6, CutJoined
    <3>2. After(a, i - 1) = tail
      BY <2>1, <2>3, <2>4, <2>6, CutJoined
    <3>3. PICK b : b = After(a, i)
      OBVIOUS
    <3>4. After(a, i - 1) = <<Colon>> \o b /\ b \in Text
      <4>1. i \in 0 .. Len(a) /\ i \in 1 .. Len(a)
        BY <1>4, <2>6
      <4>2. After(a, i) \in Text
        BY <1>4, <4>1, Rejoined
      <4>3. After(a, i - 1) = <<a[i]>> \o After(a, i)
        BY <1>4, <4>1, CutBeforeByte
      <4> QED BY <2>7, <3>3, <4>2, <4>3
    <3>5. Tail(WithPort(b)) = b /\ Tail(WithPort(raw)) = raw
      BY <3>4, PortBehindColon
    <3>6. WithPort(b) = WithPort(raw)
      BY <2>3, <3>2, <3>4 DEF WithPort
    <3> QED BY <3>1, <3>3, <3>5, <3>6
  <2>9. UpTo(rest, i - 1) = h /\ SubSeq(rest, i + 1, n) = raw
    BY <1>2, <1>3, <2>6, <2>8, CutTwice
  <2>10. i \in {k \in Positions(rest, Colon) : k < n + 1}
    BY <2>6, <2>7 DEF Positions
  <2> QED BY <1>2, <2>1, <2>9, <2>10
<1> QED BY <1>1, <1>3, <1>6, <1>7 DEF IsHostPort

\* The rest of a URL is accepted if it is a host with its port in front of a path,
\* without a query and a fragment.
LEMMA RestIsHostPortPath ==
  ASSUME NEW scheme, NEW rest \in Text, NEW policy
  PROVE  ParseRest(scheme, rest, policy).ok <=>
           /\ Positions(rest, Question) = {} /\ Positions(rest, Hash) = {}
           /\ IsHostPortPath(rest)
<1> DEFINE a == UpTo(rest, AuthorityLength(rest))
<1>1. a \in Text
  BY AuthorityEnds, Rejoined
<1>2. ParseRest(scheme, rest, policy).ok <=>
        /\ Positions(rest, Question) = {} /\ Positions(rest, Hash) = {}
        /\ a # <<>> /\ Positions(a, At) = {} /\ ParseAuthority(a).ok
  BY Answers DEF ParseRest, UpstreamFrom
<1>3. IsHostPort(a) <=> a # <<>> /\ Positions(a, At) = {} /\ ParseAuthority(a).ok
  BY <1>1, AuthorityIsHostPort
<1>4. IsHostPort(a) <=> IsHostPortPath(rest)
  BY HostPortBegins, HostPortEnds
<1> HIDE DEF a
<1> QED BY <1>2, <1>3, <1>4

-----------------------------------------------------------------------------
\* URLs.

\* A text that is cut into a scheme, in any case, and what follows it.
IsUrlOf(t, s, rest) ==
  /\ s \in Text /\ rest \in Text /\ ToAsciiLowercase(s) \in Schemes
  /\ t = (s \o SchemeEnd) \o rest

\* What follows the scheme decides.
LEMMA CutUrl ==
  ASSUME NEW t, NEW s, NEW rest, IsUrlOf(t, s, rest), NEW policy
  PROVE  /\ HttpUpstreamParse(t, policy) = ParseRest(ToAsciiLowercase(s), rest, policy)
         /\ \A c \in {Question, Hash} : Positions(t, c) = {} <=> Positions(rest, c) = {}
<1>1. s \in Text /\ rest \in Text /\ ToAsciiLowercase(s) \in Schemes /\ t = (s \o SchemeEnd) \o rest
  BY DEF IsUrlOf
<1>2. Positions(s, Colon) = {}
  BY <1>1, SchemeLetters
<1>3. /\ SchemeEnds(t) # {} /\ Min(SchemeEnds(t)) = Len(s) + 1
      /\ UpTo(t, Len(s)) = s /\ After(t, (Len(s) + 1) + 2) = rest
  BY <1>1, <1>2, SchemeIsFound
<1>4. (Len(s) + 1) - 1 = Len(s)
  <2>1. Len(s) \in Nat
    BY <1>1, TextLength
  <2> QED BY <2>1
<1>5. ParseScheme(s).ok /\ ParseScheme(s).value = ToAsciiLowercase(s)
  BY <1>1 DEF ParseScheme, Ok
<1>6. HttpUpstreamParse(t, policy) = ParseRest(ToAsciiLowercase(s), rest, policy)
  BY <1>3, <1>4, <1>5 DEF HttpUpstreamParse
<1>7. ASSUME NEW c \in {Question, Hash}
      PROVE  Positions(t, c) = {} <=> Positions(rest, c) = {}
  <2>1. c \in Punctuation /\ c # Colon /\ c # Slash
    BY DEF Punctuation, Question, Hash, Colon, Slash
  <2>2. Positions(s, c) = {}
    <3>1. Positions(ToAsciiLowercase(s), c) = {}
      <4>1. HttpText \in Text /\ HttpsText \in Text
        BY SchemesAreLower DEF Schemes
      <4>2. Len(HttpText) = 4 /\ \A i \in 1 .. 4 : HttpText[i] # c
        BY DEF HttpText, Question, Hash
      <4>3. Len(HttpsText) = 5 /\ \A i \in 1 .. 5 : HttpsText[i] # c
        BY DEF HttpsText, Question, Hash
      <4> QED BY <1>1, <4>1, <4>2, <4>3 DEF Schemes, Positions
    <3> QED BY <1>1, <2>1, <3>1, LowercaseKeepsPunctuation
  <2>3. Positions(SchemeEnd, c) = {} /\ SchemeEnd \in Text
    <3>1. \A i \in 1 .. 3 : i = 1 \/ i = 2 \/ i = 3
      OBVIOUS
    <3> QED BY <2>1, <3>1, SmallTexts DEF Positions
  <2>4. PICK front : front = s \o SchemeEnd
    OBVIOUS
  <2>5. front \in Text /\ Positions(front, c) = {}
    BY <1>1, <2>2, <2>3, <2>4, JoinedTexts, JoinedLacks
  <2>6. Positions(front \o rest, c) = {} <=> Positions(rest, c) = {}
    BY <1>1, <2>5, JoinedLacks
  <2> QED BY <1>1, <2>4, <2>6
<1> QED BY <1>6, <1>7

\* A text cut at a separator is what is before it, the separator, and the rest.
LEMMA CutAtSeparator ==
  ASSUME NEW t \in Text, NEW m \in Nat, m + 3 =< Len(t),
         SubSeq(t, m + 1, m + 3) = SchemeEnd
  PROVE  /\ UpTo(t, m) \in Text /\ After(t, m + 3) \in Text
         /\ t = (UpTo(t, m) \o SchemeEnd) \o After(t, m + 3)
<1>1. Len(t) \in Nat
  BY TextLength
<1>2. m + 3 \in 0 .. Len(t) /\ m \in 0 .. m + 3 /\ m \in 0 .. Len(t)
  BY <1>1
<1>3. PICK a, rest : a = UpTo(t, m + 3) /\ rest = After(t, m + 3)
  OBVIOUS
<1>4. a \in Text /\ rest \in Text /\ Len(a) = m + 3 /\ t = a \o rest
  BY <1>2, <1>3, Rejoined
<1>5. UpTo(a, m) = UpTo(t, m) /\ After(a, m) = SchemeEnd
  BY <1>2, <1>3, CutTwice
<1>6. a = UpTo(a, m) \o After(a, m) /\ UpTo(a, m) \in Text
  BY <1>2, <1>4, Rejoined
<1> QED BY <1>3, <1>4, <1>5, <1>6

\* A URL that is accepted is cut into its scheme and the rest.
LEMMA AcceptedIsCut ==
  ASSUME NEW t \in Text, NEW policy, HttpUpstreamParse(t, policy).ok
  PROVE  \E s, rest : IsUrlOf(t, s, rest)
<1>1. PICK i : i = Min(SchemeEnds(t))
  OBVIOUS
<1>2. SchemeEnds(t) # {} /\ ParseScheme(UpTo(t, i - 1)).ok
  BY <1>1, Answers DEF HttpUpstreamParse
<1>3. i \in SchemeEnds(t)
  <2>1. Len(t) \in Nat
    BY TextLength
  <2>2. SchemeEnds(t) \in SUBSET Nat /\ SchemeEnds(t) \in SUBSET Int
    BY <2>1 DEF SchemeEnds
  <2>3. PICK k \in SchemeEnds(t) : \A j \in SchemeEnds(t) : k =< j
    BY <1>2, <2>2, LeastNumber
  <2> QED BY <1>1, <2>2, <2>3, MinIs
<1>4. PICK m : m = i - 1
  OBVIOUS
<1>5. m \in Nat /\ m + 3 =< Len(t) /\ m + 1 = i /\ m + 3 = i + 2
  BY <1>3, <1>4, TextLength DEF SchemeEnds
<1>6. SubSeq(t, m + 1, m + 3) = SchemeEnd
  BY <1>3, <1>5 DEF SchemeEnds
<1>7. /\ UpTo(t, m) \in Text /\ After(t, m + 3) \in Text
      /\ t = (UpTo(t, m) \o SchemeEnd) \o After(t, m + 3)
  BY <1>5, <1>6, CutAtSeparator
<1>8. ToAsciiLowercase(UpTo(t, m)) \in Schemes
  BY <1>2, <1>4, Answers DEF ParseScheme
<1> QED BY <1>7, <1>8 DEF IsUrlOf

\* The bytes a text begins with.
LEMMA PrefixByBytes ==
  ASSUME NEW p \in Text, NEW t \in Text
  PROVE  IsPrefix(p, t) <=> Len(p) =< Len(t) /\ \A j \in 1 .. Len(p) : p[j] = t[j]
<1>1. Len(p) \in Nat /\ Len(t) \in Nat
  BY TextLength
<1>2. SubSeq(p, 1, Len(p)) = p
  BY SubSeqFull DEF Text
<1>3. ASSUME Len(p) =< Len(t)
      PROVE  p = SubSeq(t, 1, Len(p)) <=> \A j \in 1 .. Len(p) : p[j] = t[j]
  <2>1. Len(p) \in 0 .. Len(t)
    BY <1>1, <1>3
  <2>2. PICK u : u = UpTo(t, Len(p))
    OBVIOUS
  <2>3. u \in Text /\ Len(u) = Len(p) /\ \A j \in 1 .. Len(p) : u[j] = t[j]
    BY <2>1, <2>2, Rejoined
  <2>4. p = u <=> \A j \in 1 .. Len(p) : p[j] = t[j]
    <3>1. (\A j \in 1 .. Len(p) : p[j] = t[j]) => p = u
      BY <2>3, SeqEqual DEF Text
    <3> QED BY <2>3, <3>1
  <2> QED BY <2>2, <2>4 DEF UpTo
<1> QED BY <1>1, <1>2, <1>3 DEF IsPrefix

\* A text whose lower case begins with a scheme and the separator is cut behind them,
\* and a text that is cut so begins with them.
LEMMA PrefixIsCut ==
  ASSUME NEW t \in Text, NEW scheme \in Schemes, NEW rest
  PROVE  IsPrefix(scheme \o SchemeEnd, ToAsciiLowercase(t))
           /\ rest = After(t, Len(scheme \o SchemeEnd))
         <=> \E s : IsUrlOf(t, s, rest) /\ ToAsciiLowercase(s) = scheme
<1> DEFINE low == ToAsciiLowercase(t)
<1>1. /\ low \in Text /\ Len(low) = Len(t) /\ Len(t) \in Nat
      /\ \A j \in 1 .. Len(t) : low[j] = AsciiLower(t[j])
  BY LowercaseIsText, LowercaseLength, TextLength
<1>2. PICK m : m = Len(scheme)
  OBVIOUS
<1>3. scheme \in Text /\ m \in Nat /\ SchemeEnd \in Text /\ Len(SchemeEnd) = 3
  BY <1>2, SchemesAreLower, SmallTexts, TextLength
<1>4. PICK p : p = scheme \o SchemeEnd
  OBVIOUS
<1>5. /\ p \in Text /\ Len(p) = m + 3
      /\ \A j \in 1 .. m : p[j] = scheme[j]
      /\ \A j \in 1 .. 3 : p[m + j] = SchemeEnd[j]
  <2>1. /\ scheme \o SchemeEnd \in Text /\ Len(scheme \o SchemeEnd) = Len(scheme) + Len(SchemeEnd)
        /\ \A j \in 1 .. Len(scheme) : (scheme \o SchemeEnd)[j] = scheme[j]
        /\ \A j \in 1 .. Len(SchemeEnd) : (scheme \o SchemeEnd)[Len(scheme) + j] = SchemeEnd[j]
    BY <1>3, JoinedTexts
  <2> QED BY <1>2, <1>3, <1>4, <2>1
<1> HIDE DEF low
<1>6. IsPrefix(p, low) <=> m + 3 =< Len(t) /\ \A j \in 1 .. m + 3 : p[j] = low[j]
  BY <1>1, <1>5, PrefixByBytes
<1>7. ASSUME NEW j \in 1 .. 3, NEW i \in 1 .. Len(t)
      PROVE  low[i] = SchemeEnd[j] <=> t[i] = SchemeEnd[j]
  <2>1. SchemeEnd[j] \in Punctuation
    <3>1. j = 1 \/ j = 2 \/ j = 3
      OBVIOUS
    <3> QED BY <3>1, SmallTexts DEF Punctuation
  <2> QED BY <2>1, LowercaseKeepsPunctuation DEF low
<1>8. ASSUME IsPrefix(p, low), rest = After(t, Len(p))
      PROVE  \E s : IsUrlOf(t, s, rest) /\ ToAsciiLowercase(s) = scheme
  <2>1. m + 3 =< Len(t) /\ \A j \in 1 .. m + 3 : p[j] = low[j]
    BY <1>6, <1>8
  <2>2. /\ \A j \in 1 .. m : j \in 1 .. m + 3 /\ j \in 1 .. Len(t)
        /\ \A j \in 1 .. 3 : m + j \in 1 .. m + 3 /\ m + j \in 1 .. Len(t)
        /\ m + 3 \in 0 .. Len(t) /\ m \in 0 .. m + 3 /\ m \in 0 .. Len(t)
    BY <1>1, <1>3, <2>1
  <2>3. PICK s : s = UpTo(t, m)
    OBVIOUS
  <2>4. s \in Text /\ Len(s) = m /\ \A j \in 1 .. m : s[j] = t[j]
    BY <2>2, <2>3, Rejoined
  <2>5. ToAsciiLowercase(s) = scheme
    <3>1. PICK u : u = ToAsciiLowercase(s)
      OBVIOUS
    <3>2. u \in Text /\ Len(u) = m /\ \A j \in 1 .. m : u[j] = AsciiLower(s[j])
      BY <2>4, <3>1, LowercaseIsText, LowercaseLength, TextLength
    <3>3. \A j \in 1 .. m : u[j] = scheme[j]
      BY <1>1, <1>5, <2>1, <2>2, <2>4, <3>2
    <3>4. u = scheme
      BY <1>2, <1>3, <3>2, <3>3, SeqEqual DEF Text
    <3> QED BY <3>1, <3>4
  <2>6. SubSeq(t, m + 1, m + 3) = SchemeEnd
    <3>1. PICK a, u : a = UpTo(t, m + 3) /\ u = SubSeq(t, m + 1, m + 3)
      OBVIOUS
    <3>2. a \in Text /\ Len(a) = m + 3 /\ \A j \in 1 .. m + 3 : a[j] = t[j]
      BY <2>2, <3>1, Rejoined
    <3>3. After(a, m) = u
      BY <2>2, <3>1, CutTwice
    <3>4. m \in 0 .. Len(a) /\ Len(a) - m = 3
      BY <1>3, <3>2
    <3>5. u \in Text /\ Len(u) = 3 /\ \A j \in 1 .. 3 : u[j] = a[m + j]
      BY <3>2, <3>3, <3>4, CutsAreTexts
    <3>6. \A j \in 1 .. 3 : u[j] = SchemeEnd[j]
      BY <1>5, <1>7, <2>1, <2>2, <3>2, <3>5
    <3>7. u = SchemeEnd
      BY <1>3, <3>5, <3>6, SeqEqual DEF Text
    <3> QED BY <3>1, <3>7
  <2>7. /\ UpTo(t, m) \in Text /\ After(t, m + 3) \in Text
        /\ t = (UpTo(t, m) \o SchemeEnd) \o After(t, m + 3)
    BY <1>3, <2>1, <2>6, CutAtSeparator
  <2>8. IsUrlOf(t, s, rest)
    BY <1>5, <1>8, <2>3, <2>5, <2>7 DEF IsUrlOf
  <2> QED BY <2>5, <2>8
<1>9. ASSUME NEW s, IsUrlOf(t, s, rest), ToAsciiLowercase(s) = scheme
      PROVE  IsPrefix(p, low) /\ rest = After(t, Len(p))
  <2>1. s \in Text /\ rest \in Text /\ t = (s \o SchemeEnd) \o rest
    BY <1>9 DEF IsUrlOf
  <2>2. /\ Len(s) = m
        /\ \A j \in 1 .. m : scheme[j] = AsciiLower(s[j])
    BY <1>2, <1>9, <2>1, LowercaseIsText, LowercaseLength, TextLength
  <2>3. PICK front : front = s \o SchemeEnd
    OBVIOUS
  <2>4. /\ front \in Text /\ Len(front) = m + 3
        /\ \A j \in 1 .. m : front[j] = s[j]
        /\ \A j \in 1 .. 3 : front[m + j] = SchemeEnd[j]
    <3>1. /\ s \o SchemeEnd \in Text /\ Len(s \o SchemeEnd) = Len(s) + Len(SchemeEnd)
          /\ \A j \in 1 .. Len(s) : (s \o SchemeEnd)[j] = s[j]
          /\ \A j \in 1 .. Len(SchemeEnd) : (s \o SchemeEnd)[Len(s) + j] = SchemeEnd[j]
      BY <1>3, <2>1, JoinedTexts
    <3> QED BY <1>3, <2>2, <2>3, <3>1
  <2>5. t = front \o rest
    BY <2>1, <2>3
  <2>6. Len(t) = (m + 3) + Len(rest) /\ Len(rest) \in Nat /\ \A j \in 1 .. m + 3 : t[j] = front[j]
    <3>1. /\ Len(front \o rest) = Len(front) + Len(rest)
          /\ \A j \in 1 .. Len(front) : (front \o rest)[j] = front[j]
      BY <2>1, <2>4, JoinedTexts
    <3> QED BY <2>1, <2>4, <2>5, <3>1, TextLength
  <2>7. m + 3 =< Len(t) /\ \A j \in 1 .. m + 3 : j \in 1 .. Len(t)
    BY <1>3, <2>6
  <2>8. ASSUME NEW j \in 1 .. m + 3 PROVE p[j] = low[j]
    <3>1. CASE j =< m
      <4>1. j \in 1 .. m
        BY <1>3, <3>1
      <4> QED BY <1>1, <1>5, <2>2, <2>4, <2>6, <2>7, <4>1
    <3>2. CASE ~ j =< m
      <4>1. PICK k : k = j - m
        OBVIOUS
      <4>2. k \in 1 .. 3 /\ j = m + k
        BY <1>3, <3>2, <4>1
      <4>3. t[j] = SchemeEnd[k]
        BY <2>4, <2>6, <4>2
      <4>4. low[j] = SchemeEnd[k]
        BY <1>7, <2>7, <4>2, <4>3
      <4> QED BY <1>5, <4>2, <4>4
    <3> QED BY <3>1, <3>2
  <2>9. rest = After(t, Len(p))
    BY <1>5, <2>1, <2>4, <2>5, CutJoined
  <2> QED BY <1>6, <2>7, <2>8, <2>9
<1> QED BY <1>4, <1>8, <1>9 DEF low

\* A URL is accepted if it is one of the grammar, and only then.
LEMMA UrlIsOfGrammar ==
  ASSUME NEW t \in Text, NEW policy
  PROVE  HttpUpstreamParse(t, policy).ok <=> IsUpstreamUrl(t)
<1>1. {Question, Hash} \cap {t[i] : i \in DOMAIN t} = {}
        <=> \A c \in {Question, Hash} : Positions(t, c) = {}
  <2>1. DOMAIN t = 1 .. Len(t)
    BY TextLength
  <2> QED BY <2>1 DEF Positions
<1>2. ASSUME NEW s, NEW rest, IsUrlOf(t, s, rest)
      PROVE  HttpUpstreamParse(t, policy).ok <=>
               (\A c \in {Question, Hash} : Positions(t, c) = {}) /\ IsHostPortPath(rest)
  <2>1. HttpUpstreamParse(t, policy) = ParseRest(ToAsciiLowercase(s), rest, policy)
    BY <1>2, CutUrl
  <2>2. \A c \in {Question, Hash} : Positions(t, c) = {} <=> Positions(rest, c) = {}
    BY <1>2, CutUrl
  <2>3. rest \in Text
    BY <1>2 DEF IsUrlOf
  <2>4. ParseRest(ToAsciiLowercase(s), rest, policy).ok <=>
          /\ Positions(rest, Question) = {} /\ Positions(rest, Hash) = {}
          /\ IsHostPortPath(rest)
    BY <2>3, RestIsHostPortPath
  <2> QED BY <2>1, <2>2, <2>4
<1>3. IsUpstreamUrl(t) <=>
        /\ \A c \in {Question, Hash} : Positions(t, c) = {}
        /\ \E s, rest : IsUrlOf(t, s, rest) /\ IsHostPortPath(rest)
  <2>1. ASSUME NEW scheme \in Schemes
        PROVE  IsPrefix(scheme \o SchemeEnd, ToAsciiLowercase(t))
                 /\ IsHostPortPath(After(t, Len(scheme \o SchemeEnd)))
               <=> \E s, rest : /\ IsUrlOf(t, s, rest) /\ ToAsciiLowercase(s) = scheme
                                /\ IsHostPortPath(rest)
    <3>1. PICK behind : behind = After(t, Len(scheme \o SchemeEnd))
      OBVIOUS
    <3>2. \A rest : IsPrefix(scheme \o SchemeEnd, ToAsciiLowercase(t)) /\ rest = behind
                    <=> \E s : IsUrlOf(t, s, rest) /\ ToAsciiLowercase(s) = scheme
      BY <3>1, PrefixIsCut
    <3> QED BY <3>1, <3>2
  <2>2. \A s, rest : IsUrlOf(t, s, rest) => ToAsciiLowercase(s) \in Schemes
    BY DEF IsUrlOf
  <2>3. (\E scheme \in Schemes :
           /\ IsPrefix(scheme \o SchemeEnd, ToAsciiLowercase(t))
           /\ IsHostPortPath(After(t, Len(scheme \o SchemeEnd))))
        <=> \E s, rest : IsUrlOf(t, s, rest) /\ IsHostPortPath(rest)
    BY <2>1, <2>2
  <2> QED BY <1>1, <2>3 DEF IsUpstreamUrl
<1>4. HttpUpstreamParse(t, policy).ok => \E s, rest : IsUrlOf(t, s, rest)
  BY AcceptedIsCut
<1> QED BY <1>2, <1>3, <1>4

\* The URLs that are accepted are those of the grammar, in whatever vocabulary the
\* destination is typed.
THEOREM UrlsAreThoseOfTheGrammar == Spec => []AcceptsUpstreamUrls
<1>1. ASSUME TypingInv PROVE AcceptsUpstreamUrls
  <2>1. input \in Text
    BY <1>1 DEF TypingInv
  <2> QED BY <2>1, UrlIsOfGrammar DEF AcceptsUpstreamUrls
<1> QED BY <1>1, TypingInvHolds, PTL

-----------------------------------------------------------------------------
\* The command.

\* The command types destinations in the way of module TargetEntry, so that the
\* theorems above hold of it.
THEOREM ValidateTypesTargets == ValidateSpec => Spec
<1>1. ValidateInit => Init
  BY DEF ValidateInit
<1>2. [ValidateNext]_validateVars => [Next]_vars
  <2> SUFFICES ASSUME [ValidateNext]_validateVars PROVE [Next]_vars
    OBVIOUS
  <2>1. CASE TypeTarget
    BY <2>1 DEF TypeTarget
  <2>2. ASSUME NEW fragment, TypePattern(fragment) PROVE UNCHANGED vars
    BY <2>2 DEF TypePattern
  <2>3. ASSUME NEW word, Submit(word) PROVE UNCHANGED vars
    BY <2>3 DEF Submit
  <2>4. CASE Resubmit
    BY <2>4 DEF Resubmit
  <2>5. CASE UNCHANGED validateVars
    BY <2>5 DEF validateVars
  <2> QED BY <2>1, <2>2, <2>3, <2>4, <2>5 DEF ValidateNext
<1> QED BY <1>1, <1>2, PTL DEF ValidateSpec, Spec

\* An answer is nothing yet, a diagnostic of status 2, or the report of a
\* pattern and a target as they are kept.
IsReport(a) ==
  \E i \in Text, policy \in HostHeaderPolicies :
    \E t : PatternParse(i).ok /\ IsKept(t, policy) /\ a = Report(PatternParse(i).value, t)

IsAnswer(a) == a = NoAnswer \/ a \in Diagnostics \/ IsReport(a)

ValidateInv == TypingInv /\ pattern \in Text /\ IsAnswer(answer)

Words == AcceptedPolicies \cup {"", "other"}

\* The internal error is out of reach.
LEMMA ExecuteAnswers ==
  ASSUME NEW p \in Text, NEW t \in Text, NEW word \in Words
  PROVE  Execute(p, t, word) \in Diagnostics \/ IsReport(Execute(p, t, word))
<1>1. CASE Given(word) \notin AcceptedPolicies
  BY <1>1 DEF Execute, Diagnostics
<1>2. CASE Given(word) \in AcceptedPolicies
  <2> DEFINE policy == PolicyNames[Given(word)]
             name   == PatternParse(p)
             target == ParseWithHttpPolicy(t, policy)
  <2>1. Given(word) \in DOMAIN PolicyNames /\ policy \in HostHeaderPolicies
    BY <1>2 DEF AcceptedPolicies, PolicyNames, HostHeaderPolicies
  <2>2. Execute(p, t, word) = IF ~ name.ok THEN InvalidPattern(name.error)
                              ELSE IF ~ target.ok THEN InvalidTarget(target.error)
                              ELSE Report(name.value, target.value)
    BY <1>2, <2>1 DEF Execute, Validate
  <2>3. name \in [ok : {TRUE}, value : Pattern] \cup [ok : {FALSE}, error : NameErrors]
    BY PatternAnswers
  <2>4. \/ target = Ok(target.value) /\ IsKept(target.value, policy)
        \/ IsRefusal(target, MappingTargetErrors)
    BY TargetAnswers
  <2> HIDE DEF policy, target
  <2>5. CASE ~ name.ok
    <3>1. name.error \in NameErrors
      <4> HIDE DEF name
      <4> QED BY <2>3, <2>5
    <3>2. InvalidPattern(name.error) \in Diagnostics
      BY <3>1 DEF Diagnostics
    <3> QED BY <2>2, <2>5, <3>2
  <2>6. CASE name.ok /\ ~ target.ok
    <3>1. target.error \in MappingTargetErrors
      BY <2>4, <2>6, Answers DEF IsRefusal
    <3>2. InvalidTarget(target.error) \in Diagnostics
      BY <3>1 DEF Diagnostics
    <3> QED BY <2>2, <2>6, <3>2
  <2>7. CASE name.ok /\ target.ok
    <3>1. IsKept(target.value, policy)
      BY <2>4, <2>7, Answers DEF IsRefusal
    <3>2. Execute(p, t, word) = Report(name.value, target.value)
      BY <2>2, <2>7
    <3> QED BY <2>1, <2>7, <3>1, <3>2 DEF IsReport
  <2> QED BY <2>5, <2>6, <2>7
<1> QED BY <1>1, <1>2

\* A report that is submitted again is answered with the same report.
LEMMA ReportIsFixed ==
  ASSUME NEW a, IsReport(a)
  PROVE  Execute(a.pattern, a.target, a.host_header_policy) = a
<1>1. PICK i \in Text, policy \in HostHeaderPolicies :
        \E t : PatternParse(i).ok /\ IsKept(t, policy) /\ a = Report(PatternParse(i).value, t)
  BY DEF IsReport
<1>2. PICK t : PatternParse(i).ok /\ IsKept(t, policy) /\ a = Report(PatternParse(i).value, t)
  BY <1>1
<1> DEFINE p == PatternParse(i).value
<1>3. /\ a.pattern = PatternDisplay(p) /\ a.target = MappingTargetDisplay(t)
      /\ a.host_header_policy
           = IF t.kind = "Http" THEN AsStr(t.upstream.host_header_policy) ELSE ""
  BY <1>2 DEF Report
<1>4. PatternParse(a.pattern).ok /\ PatternParse(a.pattern).value = p
  BY <1>2, <1>3, PatternIsReadBack
<1> DEFINE word == a.host_header_policy
           again == PolicyNames[Given(word)]
<1>5. /\ Given(word) \in AcceptedPolicies /\ Given(word) \in DOMAIN PolicyNames
      /\ IsKept(t, again)
  <2>1. CASE t.kind = "Http"
    <3>1. t = Http(t.upstream) /\ IsKeptUpstream(t.upstream, policy)
      BY <1>2, <2>1 DEF IsKept, DnsAlias
    <3>2. t.upstream.host_header_policy = policy
      BY <3>1 DEF IsKeptUpstream
    <3>3. word = AsStr(policy)
      BY <1>3, <2>1, <3>2
    <3>4. /\ Given(word) \in AcceptedPolicies /\ Given(word) \in DOMAIN PolicyNames
          /\ again = policy
      BY <3>3 DEF AsStr, Given, HostHeaderPolicies, PolicyNames, AcceptedPolicies
    <3> QED BY <1>2, <3>4
  <2>2. CASE t.kind # "Http"
    <3>1. word = ""
      BY <1>3, <2>2
    <3>2. Given(word) \in AcceptedPolicies /\ Given(word) \in DOMAIN PolicyNames
      BY <3>1 DEF Given, DefaultPolicy, AcceptedPolicies, PolicyNames
    <3>3. \A other : IsKept(t, other)
      BY <1>2, <2>2 DEF IsKept, Http
    <3> QED BY <3>2, <3>3
  <2> QED BY <2>1, <2>2
<1>6. ParseWithHttpPolicy(a.target, again) = Ok(t)
  <2> HIDE DEF again
  <2> QED BY <1>3, <1>5, KeptIsRead
<1>7. Execute(a.pattern, a.target, word) = Report(p, t)
  <2>1. Execute(a.pattern, a.target, word) = Validate(a.pattern, a.target, again)
    BY <1>5 DEF Execute
  <2> HIDE DEF again, p, word
  <2>2. Validate(a.pattern, a.target, again) = Report(p, t)
    BY <1>4, <1>6, Answers DEF Validate
  <2> QED BY <2>1, <2>2
<1> QED BY <1>2, <1>7

\* The three kinds of answers differ in their kind.
LEMMA AnswerKinds ==
  ASSUME NEW a
  PROVE  /\ IsReport(a) => a.kind = "report" /\ a # NoAnswer
         /\ a \in Diagnostics => a.kind = "diagnostic" /\ a # NoAnswer
<1>1. NoAnswer.kind = "none"
  BY DEF NoAnswer
<1>2. IsReport(a) => a.kind = "report"
  <2>1. \A p, t : Report(p, t).kind = "report"
    BY DEF Report
  <2> QED BY <2>1 DEF IsReport
<1>3. a \in Diagnostics => a.kind = "diagnostic"
  BY DEF Diagnostics, Usage, InvalidPattern, InvalidTarget, Diagnostic
<1> QED BY <1>1, <1>2, <1>3

\* What a step of the command keeps: a pattern is a text, an answer is one of the
\* three kinds, and it is given once.
LEMMA ValidateStep ==
  ASSUME ValidateInv, [ValidateNext]_validateVars
  PROVE  pattern' \in Text /\ IsAnswer(answer') /\ (answer # NoAnswer => answer' = answer)
<1>1. CASE TypeTarget
  BY <1>1 DEF TypeTarget, command, ValidateInv
<1>2. ASSUME NEW fragment \in PatternFragments[vocabulary], TypePattern(fragment)
      PROVE  pattern' \in Text /\ answer' = answer
  <2>1. fragment \in Text
    BY ValidateAssumption DEF ValidateInv, TypingInv
  <2> QED BY <1>2, <2>1, JoinedTexts DEF TypePattern, ValidateInv
<1>3. ASSUME NEW word \in Words, Submit(word)
      PROVE  pattern' \in Text /\ IsAnswer(answer') /\ answer = NoAnswer
  <2>1. IsAnswer(Execute(pattern, input, word))
    BY ExecuteAnswers DEF ValidateInv, TypingInv, IsAnswer
  <2> QED BY <1>3, <2>1 DEF Submit, ValidateInv
<1>4. CASE Resubmit
  <2>1. IsReport(answer)
    BY <1>4, AnswerKinds DEF Resubmit, ValidateInv, IsAnswer, NoAnswer
  <2>2. answer' = answer
    BY <1>4, <2>1, ReportIsFixed DEF Resubmit
  <2> QED BY <1>4, <2>2 DEF Resubmit, ValidateInv
<1>5. CASE UNCHANGED validateVars
  BY <1>5 DEF validateVars, command, ValidateInv
<1> QED BY <1>1, <1>2, <1>3, <1>4, <1>5 DEF ValidateNext, Words, ValidateInv

\* So the invariant of the command holds.
LEMMA ValidateInvHolds == ValidateSpec => []ValidateInv
<1>1. ValidateInit => pattern \in Text /\ IsAnswer(answer)
  <2>1. <<>> \in Text
    BY DEF Text
  <2>2. ValidateInit => pattern = <<>> /\ answer = NoAnswer
    BY DEF ValidateInit
  <2> QED BY <2>1, <2>2 DEF IsAnswer
<1>2. ASSUME TypingInv, pattern \in Text /\ IsAnswer(answer), [ValidateNext]_validateVars
      PROVE  (pattern \in Text /\ IsAnswer(answer))'
  BY <1>2, ValidateStep DEF ValidateInv
<1>3. TypingInv /\ (pattern \in Text /\ IsAnswer(answer)) => ValidateInv
  BY DEF ValidateInv
<1> QED BY <1>1, <1>2, <1>3, ValidateTypesTargets, TypingInvHolds, PTL DEF ValidateSpec

\* Whatever name, target and policy are submitted, the answer is a report or one
\* of the diagnostics of status 2: cli.rs has an arm for every policy that clap
\* lets through, and the internal error is not reached.
THEOREM AnswersExpected == ValidateSpec => []AnswersAreExpected
<1>1. ASSUME ValidateInv PROVE AnswersAreExpected
  <2>1. ASSUME IsReport(answer) PROVE answer \in Reports
    <3>1. PICK i \in Text, policy \in HostHeaderPolicies :
            \E t : /\ PatternParse(i).ok /\ IsKept(t, policy)
                   /\ answer = Report(PatternParse(i).value, t)
      BY <2>1 DEF IsReport
    <3>2. PICK t : /\ PatternParse(i).ok /\ IsKept(t, policy)
                   /\ answer = Report(PatternParse(i).value, t)
      BY <3>1
    <3> DEFINE p == PatternParse(i).value
    <3>3. PatternDisplay(p) \in Text
      <4>1. p \in Pattern
        BY <3>2, AcceptedPattern
      <4>2. StarDot \in Text
        BY DEF StarDot, Star, Dot, Text, Byte
      <4> HIDE DEF p
      <4> QED BY <4>1, <4>2, JoinedTexts DEF Pattern, PatternDisplay
    <3>4. MappingTargetDisplay(t) \in Text
      BY <3>2, KeptIsRead
    <3>5. t.kind \in {"DnsAddress", "DnsAlias", "Http"}
      <4>1. /\ \A n : DnsAlias(n).kind = "DnsAlias"
            /\ \A u : Http(u).kind = "Http"
            /\ \A x : [kind |-> "DnsAddress", address |-> x].kind = "DnsAddress"
        BY DEF DnsAlias, Http
      <4> QED BY <3>2, <4>1 DEF IsKept
    <3>6. (IF t.kind = "Http" THEN AsStr(t.upstream.host_header_policy) ELSE "")
            \in AcceptedPolicies \cup {""}
      BY DEF AsStr, AcceptedPolicies
    <3> HIDE DEF p
    <3>7. Report(p, t) \in Reports
      BY <3>3, <3>4, <3>5, <3>6 DEF Report, Reports
    <3> QED BY <3>2, <3>7 DEF p
  <2> QED BY <1>1, <2>1 DEF ValidateInv, IsAnswer, AnswersAreExpected
<1> QED BY <1>1, ValidateInvHolds, PTL

\* A report may be stored in place of the words it answers: submitted again,
\* its name, target and policy give the same report.
THEOREM ReportsStay == ValidateSpec => ReportsAreFixed
<1>1. ASSUME ValidateInv, [ValidateNext]_validateVars
      PROVE  [answer # NoAnswer => answer' = answer]_validateVars
  BY <1>1, ValidateStep
<1> QED BY <1>1, ValidateInvHolds, PTL DEF ValidateSpec, ReportsAreFixed
=============================================================================
