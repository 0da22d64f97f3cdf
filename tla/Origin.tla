-------------------------------- MODULE Origin --------------------------------
(***************************************************************************)
(* Origins, from vaults-bridge-core/src/origin.rs.  A URL's text is a      *)
(* record of what the code can tell apart in it; a host is a sequence of   *)
(* characters, because the code cuts hosts by character.  What the url     *)
(* crate does is taken from how origin.rs and its tests use it.            *)
(***************************************************************************)
EXTENDS Naturals, Sequences, SequencesExt

None == <<>>
NoPort == 0

DefaultPort(scheme) == CASE scheme = "http" -> 80 [] scheme = "https" -> 443 [] OTHER -> NoPort

(* scheme "" is a bare "host/path"; upper: letters of the scheme or the    *)
(* host are upper case; user: "user@" before the host; path: what follows  *)
(* the host, "dotted" if it has a dot; blank: where a blank is, within the *)
(* host or the path.                                                       *)
UrlText(scheme, host, port) ==
  [scheme |-> scheme, host |-> host, port |-> port,
   upper |-> FALSE, user |-> FALSE, path |-> "none", blank |-> "none"]

(* Url::parse: a blank is refused in the host and encoded in the path.  A  *)
(* bare host is not a URL, but "host:port" is one without a host, whose    *)
(* scheme is the host's name; upper case and default ports go.             *)
UrlParse(text) ==
  [ok     |-> text.blank # "host" /\ (text.scheme = "" => text.port # NoPort /\ ~text.user),
   scheme |-> IF text.scheme = "" THEN "other" ELSE text.scheme,
   user   |-> text.user,
   host   |-> IF text.scheme = "" THEN None ELSE text.host,
   port   |-> IF text.port = DefaultPort(text.scheme) THEN NoPort ELSE text.port]

(* Origin::parse: the error, or "Ok" with scheme://host[:port] as a text.  *)
OriginParse(text) ==
  LET u == UrlParse(text)
      err == CASE ~u.ok                           -> "InvalidUrl"
               [] u.scheme \notin {"http", "https"} -> "UnsupportedScheme"
               [] u.user                          -> "UserInfoNotAllowed"
               [] u.host = None                   -> "MissingHost"
               [] OTHER                           -> "Ok"
  IN [result |-> err, origin |-> UrlText(u.scheme, u.host, u.port)]

(* The list is cut down to two suffixes, one of which ends in the other's  *)
(* characters.                                                             *)
MULTI_LABEL_SUFFIXES == << <<"c", ".", "u">>, <<"a", "c", ".", "u">> >>

(* host.parse::<IpAddr>() for the one IPv4 address of the instance, or the *)
(* bracket of an IPv6 address.                                             *)
IsIp(host) == host = <<"1", ".", "1", ".", "1", ".", "1">> \/ host[1] = "["

Dots(s) == {i \in DOMAIN s : s[i] = "."}

Prefix(s, suffix) == SubSeq(s, 1, Len(s) - Len(suffix))

(* rsplit('.').next()                                                      *)
LastLabel(s) == IF Dots(s) = {} THEN s ELSE SubSeq(s, Max(Dots(s)) + 1, Len(s))

(* Mutant: the character before the suffix is not looked at.               *)
SuffixAppliesAnywhere(host, suffix) == IsSuffix(suffix, host)

(* The loop body returns for this suffix.                                  *)
SuffixApplies(host, suffix) ==
  /\ IsSuffix(suffix, host)
  /\ LET prefix == Prefix(host, suffix)
     IN \/ prefix = <<>>
        \/ Last(prefix) = "." /\ LastLabel(Front(prefix)) # <<>>

WithLabelBefore(host, suffix) ==
  LET prefix == Prefix(host, suffix)
  IN IF prefix = <<>> THEN None
     ELSE SubSeq(host, Len(host) - Len(suffix) - Len(LastLabel(Front(prefix))), Len(host))

registrable_domain(host) ==
  LET hits == {i \in DOMAIN MULTI_LABEL_SUFFIXES : SuffixApplies(host, MULTI_LABEL_SUFFIXES[i])}
      tld == LastLabel(host)
      sld == LastLabel(Prefix(host, Append(tld, ".")))
  IN CASE host = <<>> \/ IsIp(host) -> None
       [] hits # {} /\ ~IsIp(host) /\ host # <<>> ->
            WithLabelBefore(host, MULTI_LABEL_SUFFIXES[Min(hits)])
       [] OTHER -> IF Dots(host) = {} \/ tld = <<>> \/ sld = <<>> THEN None
                   ELSE sld \o <<".">> \o tld

(* The lookup key of an origin's text; a key without a port is a text too. *)
origin_match_key(origin) ==
  LET u == UrlParse(origin) rd == registrable_domain(u.host)
  IN IF u.ok /\ rd # None THEN UrlText(u.scheme, rd, NoPort) ELSE origin
-----------------------------------------------------------------------------
(* The positions of a sequence that are in a set, in ascending order.      *)
Ascending(positions, s) == SelectSeq([i \in DOMAIN s |-> i], LAMBDA i : i \in positions)

(* The reference works on labels, not characters.                          *)
Labels(host) ==
  LET cuts == <<0>> \o Ascending(Dots(host), host) \o <<Len(host) + 1>>
  IN [i \in 1..(Len(cuts) - 1) |-> SubSeq(host, cuts[i] + 1, cuts[i + 1] - 1)]

PublicSuffixLength(labels) ==
  IF \E s \in Range(MULTI_LABEL_SUFFIXES) : IsSuffix(Labels(s), labels) THEN 2 ELSE 1

RegistrableLabels(host) ==
  LET labels == Labels(host) n == PublicSuffixLength(labels)
  IN IF IsIp(host) \/ Len(labels) <= n THEN <<>>
     ELSE SubSeq(labels, Len(labels) - n, Len(labels))
=============================================================================
