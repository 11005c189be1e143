---------------------------- MODULE TargetEntry ----------------------------
(***************************************************************************)
(* A destination typed one fragment at a time: every concatenation of up   *)
(* to MaxFragments fragments of one vocabulary is the input of             *)
(* MappingTarget::parse_with_http_policy, and what it accepts is compared  *)
(* with a grammar of upstream URLs and with its own display.               *)
(***************************************************************************)
EXTENDS Targets

CONSTANTS
  Vocabularies,   \* sets of fragments, texts of one or more bytes
  MaxFragments    \* how many fragments are typed

ASSUME TargetEntryAssumption ==
  /\ Vocabularies \subseteq SUBSET Text
  /\ MaxFragments \in Nat

VARIABLES
  vocabulary,   \* the fragments in use
  fragments,    \* how many were typed
  input         \* the text they make

vars == <<vocabulary, fragments, input>>

Init == vocabulary \in Vocabularies /\ fragments = 0 /\ input = <<>>

Type(fragment) ==
  /\ fragments < MaxFragments
  /\ fragments' = fragments + 1
  /\ input' = input \o fragment
  /\ UNCHANGED vocabulary

Next == \E fragment \in vocabulary : Type(fragment)

Spec == Init /\ [][Next]_vars

\* The policy that is not the default.
Parsed == ParseWithHttpPolicy(input, "UseUpstream")

-----------------------------------------------------------------------------
\* The grammar of upstream URLs: scheme://host[:port][/path].

\* A number without its sign and leading zeros is compared as a text.
IsPortNumber(t) ==
  LET digits  == IF BeginsWith(t, Plus) THEN Tail(t) ELSE t
      leading == {i \in 0 .. Len(digits) : \A j \in 1 .. i : digits[j] = 48}
      number  == After(digits, Max(leading))
      largest == Decimal(MaxPort)
  IN  /\ \A i \in DOMAIN number : number[i] \in 48 .. 57
      /\ Len(number) \in 1 .. Len(largest)
      /\ Len(number) = Len(largest) => ~ TextLess(largest, number)

IsHost(t) ==
  \/ RemapNameParse(t).ok
  \/ t \in AddressLiterals /\ t \notin Ipv6Literals
  \/ /\ BeginsWith(t, OpenBracket) /\ EndsWith(t, CloseBracket)
     /\ SubSeq(t, 2, Len(t) - 1) \in Ipv6Literals

\* The rest of a URL after "//": a path from some slash on, a port from some
\* colon on, and a host before them.
IsHostPortPath(t) ==
  \E pathAt \in Positions(t, Slash) \cup {Len(t) + 1} :
    \E portAt \in {i \in Positions(t, Colon) : i < pathAt} \cup {pathAt} :
      /\ IsHost(UpTo(t, portAt - 1))
      /\ portAt < pathAt => IsPortNumber(SubSeq(t, portAt + 1, pathAt - 1))

IsUpstreamUrl(t) ==
  /\ {Question, Hash} \cap {t[i] : i \in DOMAIN t} = {}
  /\ \E scheme \in Schemes :
       /\ IsPrefix(scheme \o SchemeEnd, ToAsciiLowercase(t))
       /\ IsHostPortPath(After(t, Len(scheme \o SchemeEnd)))

-----------------------------------------------------------------------------
\* Another spelling of the same target: upper case, a root dot after a name, a
\* port with a zero before it.

ToAsciiUppercase(t) == [i \in DOMAIN t |-> AsciiUpper(t[i])]

RespelledHost(host) ==
  ToAsciiUppercase(UpstreamHostDisplay(host)) \o (IF host.kind = "Name" THEN <<Dot>> ELSE <<>>)

RespelledUpstream(u) ==
  ToAsciiUppercase(u.scheme) \o SchemeEnd \o RespelledHost(u.host)
    \o (IF u.port = NoPort THEN <<>> ELSE <<Colon, 48>> \o Decimal(u.port)) \o u.base_path

Respelled(target) ==
  CASE target.kind = "DnsAddress" -> ToAsciiUppercase(target.address)
    [] target.kind = "DnsAlias"   -> Append(ToAsciiUppercase(target.name), Dot)
    [] target.kind = "Http"       -> RespelledUpstream(target.upstream)

-----------------------------------------------------------------------------
IsTarget(target) ==
  CASE target.kind = "DnsAddress" -> target.address \in AddressLiterals
    [] target.kind = "DnsAlias"   -> target.name \in Text
    [] target.kind = "Http"       -> target.upstream \in HttpUpstream /\ target.upstream.port # 0

\* Every input is answered: with a target whose port is in range, or with one
\* of the errors.
TypeOK ==
  /\ vocabulary \in Vocabularies
  /\ fragments \in 0 .. MaxFragments
  /\ input \in Text
  /\ IF Parsed.ok THEN IsTarget(Parsed.value) ELSE Parsed.error \in MappingTargetErrors

\* The successive splits of parse_with_policy and parse_authority accept the
\* URLs of the grammar and nothing else.
AcceptsUpstreamUrls == HttpUpstreamParse(input, "UseUpstream").ok <=> IsUpstreamUrl(input)

\* A target that is printed and read again is the same target, so a mapping that
\* is written out still points to the same service.
TargetIsReadBack ==
  Parsed.ok => ParseWithHttpPolicy(MappingTargetDisplay(Parsed.value), "UseUpstream") = Parsed

\* Two spellings of one destination are one target: the case of scheme, host and
\* address, the root dot of a name, the zeros before a port do not show.
TargetSpellingIsInvisible ==
  Parsed.ok => ParseWithHttpPolicy(Respelled(Parsed.value), "UseUpstream") = Parsed

\* The names a target has resolved: one or none.
NamesIn(target) ==
  CASE target.kind = "DnsAddress" -> {}
    [] target.kind = "DnsAlias"   -> {target.name}
    [] target.kind = "Http"       ->
         IF target.upstream.host.kind = "Name" THEN {target.upstream.host.text} ELSE {}

\* An address is never taken for a name: no alias and no upstream host that is
\* resolved by name is the spelling of an address.
NamesAreNotAddresses == Parsed.ok => NamesIn(Parsed.value) \cap AddressLiterals = {}

\* What name.rs:66 says of the error: the text it is reported for is an address
\* literal.  A host of a URL is between brackets, or in front of the port.
AddressLiteralIsAnAddress ==
  Parsed = Err(<<"InvalidHttpUpstream", "InvalidHost", "AddressLiteral">>) =>
    \E i, j \in 1 .. Len(input) : SubSeq(input, i, j) \in AddressLiterals
=============================================================================
