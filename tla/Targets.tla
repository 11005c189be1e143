------------------------------ MODULE Targets ------------------------------
(***************************************************************************)
(* Mapping targets of remap-core (crates/remap-core/src/target.rs): what a *)
(* mapping points to is inferred from its text, an address, an alias or an *)
(* HTTP(S) upstream.                                                       *)
(*                                                                         *)
(* Texts are byte sequences, as in module Names.  An error is the sequence *)
(* of the variants that wrap one another, outermost first; the texts they  *)
(* carry are left out.  An IP address is represented by the text the       *)
(* standard library prints for it.                                         *)
(***************************************************************************)
EXTENDS Names

CONSTANTS
  Ipv6Literals,     \* the texts std::net::Ipv6Addr parses
  AddressDisplay,   \* the text printed for the address a literal denotes
  MaxPort           \* u16::MAX

Plus == 43  Slash == 47  Question == 63  At == 64  Hash == 35
OpenBracket == 91  CloseBracket == 93

(***************************************************************************)
(* An address is written in digits, letters and dots, one of version 6     *)
(* with colons too, and does not end with a dot.  What is printed for it   *)
(* is a literal of the same address, which the case of letters does not    *)
(* change, and of the same family.                                         *)
(***************************************************************************)
ASSUME TargetsAssumption ==
  /\ MaxPort \in Nat \ {0}
  /\ Ipv6Literals \subseteq AddressLiterals
  /\ AddressDisplay \in [AddressLiterals -> AddressLiterals]
  /\ \A t \in AddressLiterals :
       /\ t # <<>> /\ ~ EndsWith(t, Dot)
       /\ \A i \in DOMAIN t : IsAsciiAlphanumeric(t[i]) \/ t[i] \in {Dot, Colon}
       /\ t \in Ipv6Literals <=> \E i \in DOMAIN t : t[i] = Colon
       /\ AddressDisplay[AddressDisplay[t]] = AddressDisplay[t]
       /\ AddressDisplay[t] \in Ipv6Literals <=> t \in Ipv6Literals
       /\ \A uppers \in SUBSET Letters(t) :
            AddressDisplay[InCase(t, uppers)] = AddressDisplay[t]

Positions(t, c) == {i \in 1 .. Len(t) : t[i] = c}
UpTo(t, i)      == SubSeq(t, 1, i)
After(t, i)     == SubSeq(t, i + 1, Len(t))

-----------------------------------------------------------------------------
\* HttpUpstream.

HttpText  == <<104, 116, 116, 112>>
HttpsText == <<104, 116, 116, 112, 115>>
Schemes   == {HttpText, HttpsText}

SchemeEnd == <<Colon, Slash, Slash>>

HostHeaderPolicies == {"PreserveClient", "UseUpstream"}

NoPort == -1   \* None

UpstreamName(name)       == [kind |-> "Name", text |-> name]
UpstreamAddress(literal) == [kind |-> "Address", text |-> AddressDisplay[literal]]
UpstreamHost ==
  [kind : {"Name"}, text : Text] \cup [kind : {"Address"}, text : AddressLiterals]

HttpUpstream ==
  [scheme : Schemes, host : UpstreamHost, port : NoPort .. MaxPort,
   base_path : Text, host_header_policy : HostHeaderPolicies]

HttpUpstreamErrors ==
  {<<e>> : e \in {"InvalidUrl", "UnsupportedScheme", "MissingHost", "CredentialsNotSupported",
                  "QueryNotSupported", "FragmentNotSupported", "InvalidPort",
                  "UnbracketedIpv6"}}
    \cup {<<"InvalidHost", e>> : e \in NameErrors}

IsDigits(t) == t # <<>> /\ \A i \in DOMAIN t : t[i] \in 48 .. 57

\* The number digits denote; past MaxPort it stays there.
Number(digits) ==
  LET first[k \in 0 .. Len(digits)] ==
        IF k = 0 THEN 0
        ELSE LET n == first[k - 1]
             IN  IF n > MaxPort THEN n ELSE 10 * n + (digits[k] - 48)
  IN  first[Len(digits)]

\* Variant of ParsePort: the port is a u16, and zero is a number like another.
ParsePortZero(raw) ==
  LET digits == IF BeginsWith(raw, Plus) THEN Tail(raw) ELSE raw
  IN  IF IsDigits(digits) /\ Number(digits) \in 0 .. MaxPort
      THEN Ok(Number(digits)) ELSE Err(<<"InvalidPort">>)

\* NonZeroU16::from_str takes a plus sign and leading zeros.
ParsePort(raw) ==
  LET digits == IF BeginsWith(raw, Plus) THEN Tail(raw) ELSE raw
  IN  IF IsDigits(digits) /\ Number(digits) \in 1 .. MaxPort
      THEN Ok(Number(digits)) ELSE Err(<<"InvalidPort">>)

ParseBracketed(authority) ==
  LET close    == Min(Positions(authority, CloseBracket))
      address  == SubSeq(authority, 2, close - 1)
      trailing == After(authority, close)
      port     == IF trailing = <<>> THEN Ok(NoPort) ELSE ParsePort(Tail(trailing))
  IN  IF Positions(authority, CloseBracket) = {} THEN Err(<<"MissingHost">>)
      ELSE IF address \notin Ipv6Literals        THEN Err(<<"InvalidHost", "AddressLiteral">>)
      ELSE IF trailing # <<>> /\ ~ BeginsWith(trailing, Colon)
                                                 THEN Err(<<"InvalidUrl">>)
      ELSE IF ~ port.ok                          THEN port
      ELSE Ok([host |-> UpstreamAddress(address), port |-> port.value])

\* The port was read before the host is looked at.
HostAndPort(host, port) ==
  LET name == RemapNameParse(host)
  IN  IF ~ port.ok                      THEN port
      ELSE IF host = <<>>               THEN Err(<<"MissingHost">>)
      ELSE IF host \in AddressLiterals  THEN Ok([host |-> UpstreamAddress(host),
                                                 port |-> port.value])
      ELSE IF ~ name.ok                 THEN Err(<<"InvalidHost", name.error>>)
      ELSE Ok([host |-> UpstreamName(name.value), port |-> port.value])

ParseUnbracketed(authority) ==
  LET colons == Positions(authority, Colon)
      colon  == Min(colons)
  IN  IF Cardinality(colons) > 1 THEN Err(<<"UnbracketedIpv6">>)
      ELSE IF colons = {}        THEN HostAndPort(authority, Ok(NoPort))
      ELSE HostAndPort(UpTo(authority, colon - 1), ParsePort(After(authority, colon)))

ParseAuthority(authority) ==
  IF BeginsWith(authority, OpenBracket)
  THEN ParseBracketed(authority) ELSE ParseUnbracketed(authority)

SchemeEnds(t) == {i \in 1 .. Len(t) - 2 : SubSeq(t, i, i + 2) = SchemeEnd}

\* Variant of AuthorityLength: the last slash ends the authority.
AuthorityLengthLastSlash(rest) ==
  IF Positions(rest, Slash) = {} THEN Len(rest) ELSE Max(Positions(rest, Slash)) - 1

\* The authority ends at the first slash.
AuthorityLength(rest) ==
  IF Positions(rest, Slash) = {} THEN Len(rest) ELSE Min(Positions(rest, Slash)) - 1

\* Variant of ParseScheme: schemes in lower case only.
ParseSchemeVerbatim(raw) ==
  IF raw \in Schemes THEN Ok(raw) ELSE Err(<<"UnsupportedScheme">>)

ParseScheme(raw) ==
  IF ToAsciiLowercase(raw) \in Schemes
  THEN Ok(ToAsciiLowercase(raw)) ELSE Err(<<"UnsupportedScheme">>)

UpstreamFrom(scheme, parsed, path, policy) ==
  IF parsed.ok
  THEN Ok([scheme             |-> scheme,
           host               |-> parsed.value.host,
           port               |-> parsed.value.port,
           base_path          |-> IF path = <<>> THEN <<Slash>> ELSE path,
           host_header_policy |-> policy])
  ELSE parsed

\* What follows the scheme.
ParseRest(scheme, rest, policy) ==
  LET authority == UpTo(rest, AuthorityLength(rest))
      path      == After(rest, AuthorityLength(rest))
  IN  IF Positions(rest, Question) # {}     THEN Err(<<"QueryNotSupported">>)
      ELSE IF Positions(rest, Hash) # {}    THEN Err(<<"FragmentNotSupported">>)
      ELSE IF authority = <<>>              THEN Err(<<"MissingHost">>)
      ELSE IF Positions(authority, At) # {} THEN Err(<<"CredentialsNotSupported">>)
      ELSE UpstreamFrom(scheme, ParseAuthority(authority), path, policy)

HttpUpstreamParse(input, policy) ==
  LET separator == Min(SchemeEnds(input))
      scheme    == ParseScheme(UpTo(input, separator - 1))
  IN  IF SchemeEnds(input) = {} THEN Err(<<"InvalidUrl">>)
      ELSE IF ~ scheme.ok       THEN scheme
      ELSE ParseRest(scheme.value, After(input, separator + 2), policy)

\* Variant of UpstreamHostDisplay: no brackets.
UpstreamHostDisplayBare(host) == host.text

UpstreamHostDisplay(host) ==
  IF host.kind = "Address" /\ host.text \in Ipv6Literals
  THEN <<OpenBracket>> \o host.text \o <<CloseBracket>> ELSE host.text

\* The decimal digits of a number, most significant first.
Decimal(number) ==
  LET digits[n \in 0 .. number] ==
        IF n < 10 THEN <<48 + n>> ELSE Append(digits[n \div 10], 48 + (n % 10))
  IN  digits[number]

PortDisplay(port) == IF port = NoPort THEN <<>> ELSE <<Colon>> \o Decimal(port)

HttpUpstreamDisplay(u) ==
  u.scheme \o SchemeEnd \o UpstreamHostDisplay(u.host) \o PortDisplay(u.port) \o u.base_path

-----------------------------------------------------------------------------
\* MappingTarget.

DnsAddress(literal) == [kind |-> "DnsAddress", address |-> AddressDisplay[literal]]
DnsAlias(name)      == [kind |-> "DnsAlias", name |-> name]
Http(upstream)      == [kind |-> "Http", upstream |-> upstream]
MappingTarget ==
  [kind : {"DnsAddress"}, address : AddressLiterals]
    \cup [kind : {"DnsAlias"}, name : Text]
    \cup [kind : {"Http"}, upstream : HttpUpstream]

MappingTargetErrors ==
  {<<"InvalidName", e>> : e \in NameErrors}
    \cup {<<"InvalidHttpUpstream">> \o e : e \in HttpUpstreamErrors}

HttpTarget(parsed) ==
  IF parsed.ok THEN Ok(Http(parsed.value)) ELSE Err(<<"InvalidHttpUpstream">> \o parsed.error)

AliasTarget(parsed) ==
  IF parsed.ok THEN Ok(DnsAlias(parsed.value)) ELSE Err(<<"InvalidName", parsed.error>>)

ParseWithHttpPolicy(input, policy) ==
  IF SchemeEnds(input) # {}         THEN HttpTarget(HttpUpstreamParse(input, policy))
  ELSE IF input \in AddressLiterals THEN Ok(DnsAddress(input))
  ELSE AliasTarget(RemapNameParse(input))

MappingTargetDisplay(target) ==
  CASE target.kind = "DnsAddress" -> target.address
    [] target.kind = "DnsAlias"   -> target.name
    [] target.kind = "Http"       -> HttpUpstreamDisplay(target.upstream)
=============================================================================
