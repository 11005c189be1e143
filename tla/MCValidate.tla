----------------------------- MODULE MCValidate -----------------------------
(***************************************************************************)
(* Values of the constants of module Validate for TLC: the vocabularies of *)
(* module MCTargetEntry, with which no name is typed, and one of targets   *)
(* of the three kinds for names, wildcards and an address in several       *)
(* spellings.                                                              *)
(***************************************************************************)
EXTENDS Validate, MCTargetEntry

CommandFragments == {HttpStart, <<UpperA>>, <<Dot>>, Loopback4, Port80, <<Slash>>}
NameFragments    == {StarDot, <<UpperA>>, <<LowerA, LowerA, LowerA>>, <<Dot>>, Loopback4}

MCCommandVocabularies == MCVocabularies \cup {CommandFragments}

MCPatternFragments ==
  [v \in MCCommandVocabularies |-> IF v = CommandFragments THEN NameFragments ELSE {}]
=============================================================================
