--------------------------- MODULE MCTargetEntry ---------------------------
(***************************************************************************)
(* Values of the constants of module TargetEntry for TLC: one vocabulary   *)
(* for ports around their limits, one for hosts and what may stand around  *)
(* them, one for brackets and IPv6 addresses.                              *)
(***************************************************************************)
EXTENDS TargetEntry

UpperA == 65  LowerA == 97

HttpStart  == HttpText \o SchemeEnd
HttpsStart == [i \in 1 .. 8 |-> AsciiUpper((HttpsText \o SchemeEnd)[i])]

One       == 49
Loopback4 == <<One, Dot, One, Dot, One, Dot, One>>   \* 1.1.1.1
Port80    == <<Colon, 56, 48>>
NearLimit == <<54, 53, 53, 51>>                      \* 6553

PortFragments ==
  {HttpStart, <<UpperA, Colon>>, NearLimit, <<53>>, <<54>>, <<48>>, <<Plus>>, <<Slash>>}

HostFragments ==
  {HttpsStart, SchemeEnd, <<UpperA>>, Loopback4, <<Dot>>, Port80, <<At>>, <<Slash>>}

BracketFragments ==
  {HttpStart, <<OpenBracket>>, <<CloseBracket>>, <<Colon, Colon, UpperA>>, Port80, <<Question>>,
   <<Hash>>, <<Slash>>}

MCVocabularies == {PortFragments, HostFragments, BracketFragments}

\* The IPv6 addresses among the texts of at most five BracketFragments, in
\* either case: ::A, and further groups ":80".
MCIpv6Literals ==
  LET WithGroups(t) ==
        {t, t \o Port80, t \o Port80 \o Port80, t \o Port80 \o Port80 \o Port80,
         t \o Port80 \o Port80 \o Port80 \o Port80}
  IN  WithGroups(<<Colon, Colon, UpperA>>) \cup WithGroups(<<Colon, Colon, LowerA>>)

MCAddressLiterals == MCIpv6Literals \cup {Loopback4}

\* No group of these addresses is zero or begins with a zero: only the case of
\* the digits is normalised.
MCAddressDisplay == [t \in MCAddressLiterals |-> ToAsciiLowercase(t)]
=============================================================================
