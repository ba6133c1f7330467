------------------------------- MODULE RealIP -------------------------------
(***************************************************************************)
(* realip.go: whose address a request is taken to come from.  Operators    *)
(* only: a config is made of option words and validated, a header is       *)
(* parsed, and UseRealIP picks an address.  Addresses are tokens; what is  *)
(* no address (net.ParseIP returns nil) is any other token.                *)
(***************************************************************************)
EXTENDS Naturals, Sequences, FiniteSetsExt, SequencesExt

CONSTANTS
    Addresses,   \* what net.ParseIP accepts
    Private,     \* privateCIDRs
    Cloudflare   \* cloudflareRanges()

ASSUME RangesAssumption == Private \subseteq Addresses /\ Cloudflare \subseteq Addresses

HeaderNames == {"X-Forwarded-For", "X-Real-Ip", "True-Client-Ip", "Cf-Connecting-Ip"}

NewConfig == [trusted |-> {}, trustPrivate |-> FALSE, trustAny |-> FALSE,
              trustCloudflare |-> FALSE, headers |-> <<>>]

DefaultConfig == [NewConfig EXCEPT !.trustPrivate = TRUE, !.headers = <<"X-Forwarded-For">>]

TrustedRanges(c) ==
    (c.trusted \cap Addresses)
    \cup (IF c.trustPrivate THEN Private ELSE {})
    \cup (IF c.trustCloudflare THEN Cloudflare ELSE {})
    \cup (IF c.trustAny THEN Addresses ELSE {})

IsTrusted(c, ip) == ip \in TrustedRanges(c)

\* Validate: Cloudflare's header only if no other is given.
Validate(c) ==
    IF c.trustCloudflare /\ c.headers = <<>>
      THEN [c EXCEPT !.headers = <<"Cf-Connecting-Ip">>] ELSE c

Valid(c) ==
    /\ c.trusted \subseteq Addresses
    /\ TrustedRanges(c) # {}
    /\ Validate(c).headers # <<>>

\* One option word of FromStringOpts.
Option(c, word) ==
    CASE word = "cloudflare"      -> [c EXCEPT !.trustCloudflare = TRUE]
      [] word = "x-forwarded-for" -> [c EXCEPT !.headers = Append(@, "X-Forwarded-For")]
      [] word = "x-real-ip"       -> [c EXCEPT !.headers = Append(@, "X-Real-Ip")]
      [] word = "true-client-ip"  -> [c EXCEPT !.headers = Append(@, "True-Client-Ip")]
      [] word = "any"             -> [c EXCEPT !.trustAny = TRUE, !.headers = <<"X-Forwarded-For">>]
      [] word = "private"         -> [c EXCEPT !.trustPrivate = TRUE]
      [] OTHER                    -> [c EXCEPT !.trusted = @ \cup {word}]

FromStringOpts(words) ==
    LET made[k \in 0..Len(words)] ==   \* by the first k words
          IF k = 0 THEN NewConfig ELSE Option(made[k - 1], words[k])
    IN  IF words = <<>> THEN DefaultConfig ELSE Validate(made[Len(words)])

\* Mutant of Parse: the addresses in the order of the header.
ParseInOrder(headers, h) ==
    IF \E i \in DOMAIN headers[h] : headers[h][i] \notin Addresses THEN <<>> ELSE headers[h]

\* The parsers: X-Forwarded-For in reverse order, nothing if one entry is no
\* address; the others hold one address.
Parse(headers, h) ==
    IF \/ \E i \in DOMAIN headers[h] : headers[h][i] \notin Addresses
       \/ h # "X-Forwarded-For" /\ Len(headers[h]) # 1
      THEN <<>>
      ELSE Reverse(headers[h])

\* The first address that is not trusted; if all are, the last.
Pick(c, ips) ==
    LET untrusted == {i \in DOMAIN ips : ~IsTrusted(c, ips[i])}
    IN  ips[IF untrusted = {} THEN Len(ips) ELSE Min(untrusted)]

\* UseRealIP: the headers count only if the peer is trusted; the first that
\* holds addresses decides.
RemoteAddr(c, peer, headers) ==
    LET present == {i \in DOMAIN c.headers : Parse(headers, c.headers[i]) # <<>>}
    IN  IF ~IsTrusted(c, peer) \/ present = {} THEN peer
        ELSE Pick(c, Parse(headers, c.headers[Min(present)]))

=============================================================================
