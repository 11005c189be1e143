----------------------------- MODULE MCRegistry -----------------------------
(***************************************************************************)
(* Values of the constants of module Registry for TLC.                     *)
(*                                                                         *)
(* The patterns are exact names and wildcards over one branch of names,    *)
(* c.a.b below a.b below b, with two exact names so that the sort must use *)
(* its second key, a wildcard inside a wildcard, and one whose suffix ca.b *)
(* ends with the text, but not with the labels, of another's.              *)
(***************************************************************************)
EXTENDS Registry

A == 97  B == 98  C == 99

NameB   == <<B>>
NameAB  == <<A, Dot, B>>
NameCAB == <<C, Dot, A, Dot, B>>
TextCAB == <<C, A, Dot, B>>          \* ca.b, which is no descendant of a.b

Accepted(inputs) == {PatternParse(t).value : t \in inputs}

MCPatterns ==
  Accepted({NameCAB, NameAB, StarDot \o NameB, StarDot \o NameAB})
SmallPatterns == Accepted({NameCAB, StarDot \o NameB, StarDot \o NameAB})

MCQueries == {NameCAB, NameAB, TextCAB}
SmallQueries == {NameCAB, TextCAB}

MCAddressLiterals == {<<58, 58>>}    \* ::
=============================================================================
