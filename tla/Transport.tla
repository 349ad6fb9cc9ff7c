----------------------------- MODULE Transport -----------------------------
(***************************************************************************)
(* What the guarded HTTP client allows: the hosts, the addresses and the   *)
(* redirects.  A host is the sequence of its labels, in lower case and     *)
(* with "" for an empty one; an address is [form, range]: how it is        *)
(* written and the range of the tables it is in, where a form that holds   *)
(* an IPv4 address has the range of that address.                          *)
(***************************************************************************)
EXTENDS Integers, Sequences, SequencesExt

MaxRedirects == 5
AllowedPort  == "443"

ExactHosts  == {<<"web", "whatsapp", "com">>}
SuffixHosts == {<<"whatsapp", "net">>, <<"whatsapp", "com">>}

\* Labels that are no part of a host name: other characters.
NoHostname == {"a_b"}

\* strings.TrimSuffix(host, "."): one dot at the end
Trimmed(h) == IF Len(h) > 0 /\ h[Len(h)] = "" THEN Front(h) ELSE h

\* Only characters of host names, and no two dots in a row.  The empty label of a
\* dot at the start is let through.
IsHostname(h) == \A i \in DOMAIN h : h[i] \notin NoHostname /\ (h[i] = "" => i = 1)

\* An IP literal has no such suffix.
HostAllowed(host) ==
  LET h == Trimmed(host) IN
  \/ h \in ExactHosts
  \/ /\ \E s \in SuffixHosts : IsSuffix(s, h) /\ h # <<"">> \o s /\ Len(h) > Len(s)
     /\ IsHostname(h)

\* "" is the port of a URL that names none.
AddrAllowed(host, port) == port = AllowedPort /\ HostAllowed(host)

\* https on an allowed host, and not after MaxRedirects requests.
CheckRedirect(url, via) ==
  /\ via < MaxRedirects
  /\ url.scheme = "https"
  /\ HostAllowed(url.host)
  /\ url.port \in {"", AllowedPort}

DeniedV4 == {"this", "private", "shared", "loopback", "linklocal", "ietf", "test", "benchmark",
             "multicast", "reserved"}
DeniedV6 == {"ietf6", "doc6"}
Outside6 == {"outside6"}  \* everything that is not in 2000::/3

\* Unmap and the IPv4 address inside NAT64 and 6to4; the rest of IPv6 has to be global.
HoldsV4 == {"v4", "mapped", "nat64", "6to4"}
PublicIP(a) ==
  IF a.form \in HoldsV4 THEN a.range \notin DeniedV4 ELSE a.range \notin Outside6 \cup DeniedV6

\* Every URL, and every address: in one of the ranges or in none, "public4" and "global6".
AnyUrl     == [scheme : STRING, host : Seq(STRING), port : STRING]
AnyAddress == [form : HoldsV4, range : DeniedV4 \cup {"public4"}]
                \cup [form : {"v6"}, range : DeniedV6 \cup Outside6 \cup {"global6"}]
=============================================================================
