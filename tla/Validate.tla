------------------------------ MODULE Validate ------------------------------
(***************************************************************************)
(* `remap validate NAME TARGET --host-header POLICY` (cli.rs, app.rs,      *)
(* diagnostic.rs): the two parsers of the library, one after the other,    *)
(* between the words of the user and the report or the diagnostic.         *)
(*                                                                         *)
(* The target is what module TargetEntry types.  The user then types a     *)
(* name in the fragments that go with its vocabulary, and submits both     *)
(* with a policy; a script may submit again what a report says.  An answer *)
(* is a report, or a diagnostic with its code, the error it details and    *)
(* its exit status; messages and hints are left out.                       *)
(***************************************************************************)
EXTENDS TargetEntry

CONSTANT PatternFragments   \* for each vocabulary, the fragments of a name

ASSUME ValidateAssumption == PatternFragments \in [Vocabularies -> SUBSET Text]

VARIABLES
  pattern, named,    \* the name, and how many fragments it is made of
  argument,          \* the value of --host-header, "" if it is not given
  answer             \* what the command answered last

command      == <<pattern, named, argument, answer>>
validateVars == <<vars, command>>

NoAnswer == [kind |-> "none"]

-----------------------------------------------------------------------------
\* diagnostic.rs.

Diagnostic(code, detail, exit) ==
  [kind |-> "diagnostic", code |-> code, detail |-> detail, exit |-> exit]

Usage                 == Diagnostic("R001", <<>>, 2)
InvalidPattern(error) == Diagnostic("R101", <<error>>, 2)
InvalidTarget(error)  == Diagnostic("R102", error, 2)
Internal              == Diagnostic("R900", <<>>, 70)

-----------------------------------------------------------------------------
\* cli.rs: the values clap accepts, its default, and what becomes of them.

AcceptedPolicies == {"preserve-client", "use-upstream"}
DefaultPolicy    == "preserve-client"

Given(word) == IF word = "" THEN DefaultPolicy ELSE word

\* Variant of PolicyNames: the second policy has no arm.
PolicyNamesOne == [p \in {"preserve-client"} |-> "PreserveClient"]

PolicyNames == [p \in {"preserve-client", "use-upstream"} |->
                  IF p = "preserve-client" THEN "PreserveClient" ELSE "UseUpstream"]

\* HostHeaderPolicy::as_str.
AsStr(policy) == IF policy = "PreserveClient" THEN "preserve-client" ELSE "use-upstream"

-----------------------------------------------------------------------------
\* app.rs.

Report(p, t) ==
  [kind               |-> "report",
   pattern            |-> PatternDisplay(p),
   target             |-> MappingTargetDisplay(t),
   target_kind        |-> t.kind,
   host_header_policy |-> IF t.kind = "Http" THEN AsStr(t.upstream.host_header_policy) ELSE ""]

Validate(p, t, policy) ==
  LET name        == PatternParse(p)
      destination == ParseWithHttpPolicy(t, policy)
  IN  IF ~ name.ok             THEN InvalidPattern(name.error)
      ELSE IF ~ destination.ok THEN InvalidTarget(destination.error)
      ELSE Report(name.value, destination.value)

Execute(p, t, word) ==
  IF Given(word) \notin AcceptedPolicies         THEN Usage
  ELSE IF Given(word) \notin DOMAIN PolicyNames  THEN Internal
  ELSE Validate(p, t, PolicyNames[Given(word)])

-----------------------------------------------------------------------------
ValidateInit ==
  /\ Init
  /\ pattern = <<>> /\ named = 0
  /\ argument = ""
  /\ answer = NoAnswer

TypeTarget ==
  /\ pattern = <<>>
  /\ Next
  /\ UNCHANGED command

TypePattern(fragment) ==
  /\ answer = NoAnswer
  /\ fragments + named < MaxFragments
  /\ pattern' = pattern \o fragment
  /\ named' = named + 1
  /\ UNCHANGED <<vars, argument, answer>>

Submit(word) ==
  /\ answer = NoAnswer
  /\ pattern # <<>>
  /\ argument' = word
  /\ answer' = Execute(pattern, input, word)
  /\ UNCHANGED <<vars, pattern, named>>

\* Without a policy a report is submitted without one.
Resubmit ==
  /\ answer.kind = "report"
  /\ answer' = Execute(answer.pattern, answer.target, answer.host_header_policy)
  /\ UNCHANGED <<vars, pattern, named, argument>>

ValidateNext ==
  \/ TypeTarget
  \/ \E fragment \in PatternFragments[vocabulary] : TypePattern(fragment)
  \/ \E word \in AcceptedPolicies \cup {"", "other"} : Submit(word)
  \/ Resubmit

ValidateSpec == ValidateInit /\ [][ValidateNext]_validateVars

-----------------------------------------------------------------------------
Reports ==
  [kind : {"report"}, pattern : Text, target : Text,
   target_kind : {"DnsAddress", "DnsAlias", "Http"},
   host_header_policy : AcceptedPolicies \cup {""}]

Diagnostics ==
  {Usage} \cup {InvalidPattern(e) : e \in NameErrors}
    \cup {InvalidTarget(e) : e \in MappingTargetErrors}

\* No words lead to the internal error: every policy that clap lets through has
\* its arm, and every answer is a report or one of the diagnostics of status 2.
AnswersAreExpected == answer \in {NoAnswer} \cup Reports \cup Diagnostics

\* What is reported is canonical: submitted again, name, target and policy give
\* the same report, so a script may store the report in place of the words.
ReportsAreFixed == [][answer # NoAnswer => answer' = answer]_validateVars
=============================================================================
