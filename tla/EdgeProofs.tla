----------------------------- MODULE EdgeProofs -----------------------------
(***************************************************************************)
(* Proofs about Edge, for any clients, proxies, set-ups and number of      *)
(* fetches: whose address the handler sees, what a script may read and     *)
(* what it can rely on, and what an unsafe method may reach.               *)
(***************************************************************************)
EXTENDS Edge, WellFoundedInduction, SequenceTheorems, TLAPS

-----------------------------------------------------------------------------
(* Numbers.                                                                *)

\* A set of natural numbers has a least one.
LEMMA LeastNatural ==
    ASSUME NEW T \in SUBSET Nat, T # {}
    PROVE  \E n \in T : \A m \in T : n <= m
  <1> DEFINE R == OpToRel(<, Nat)
  <1>1. IsWellFoundedOn(R, Nat)
    BY NatLessThanWellFounded
  <1>2. \A m, n \in Nat : <<m, n>> \in R <=> m < n
    BY DEF OpToRel
  <1> HIDE DEF R
  <1>3. PICK n \in T : \A m \in T : ~ (<<m, n>> \in R)
    BY <1>1, WFMin, Zenon
  <1>4. n \in Nat /\ \A m \in T : m \in Nat
    OBVIOUS
  <1>5. \A m \in T : ~ (m < n)
    BY <1>2, <1>3, <1>4, Zenon
  <1> HIDE <1>2, <1>3
  <1> QED
    BY <1>4, <1>5

\* Min and Max are what their names say, on a set of numbers up to a bound.
LEMMA MinFacts ==
    ASSUME NEW T \in SUBSET Nat, T # {}
    PROVE  Min(T) \in T /\ \A m \in T : Min(T) <= m
  BY LeastNatural DEF Min

LEMMA MaxFacts ==
    ASSUME NEW b \in Nat, NEW T \in SUBSET 1..b, T # {}
    PROVE  Max(T) \in T /\ \A m \in T : m <= Max(T)
  <1> DEFINE U == {n \in Nat : \A m \in T : m <= n}
  <1>1. b \in U
    OBVIOUS
  <1>2. PICK n \in U : \A m \in U : n <= m
    <2>1. U \in SUBSET Nat /\ U # {}
      BY <1>1
    <2> HIDE DEF U
    <2> QED
      BY <2>1, LeastNatural
  <1>3. n \in T
    <2> SUFFICES ASSUME n \notin T PROVE FALSE
      OBVIOUS
    <2>1. PICK m \in T : TRUE
      OBVIOUS
    <2>2. n - 1 \in Nat /\ \A k \in T : k <= n - 1
      BY <1>2, <2>1
    <2> QED
      BY <1>2, <2>2
  <1>4. \A m \in T : n >= m
    BY <1>2
  <1> QED
    BY <1>2, <1>3, <1>4 DEF Max

-----------------------------------------------------------------------------
(* Origins.                                                                *)

\* What there is no glob in, is matched by itself only.
LEMMA GlobExact ==
    ASSUME NEW input, NEW match, ~HasGlob(match)
    PROVE  Glob(input, match) <=> input = match
  <1>1. {i \in DOMAIN match : match[i] = "*"} = {}
    BY DEF HasGlob
  <1> QED
    BY <1>1 DEF Glob

\* "*" matches everything.
LEMMA GlobAll ==
    ASSUME NEW input, IsSequence(input)
    PROVE  Glob(input, AllOrigins)
  <1> DEFINE match == AllOrigins
             stars == {i \in DOMAIN match : match[i] = "*"}
             Part(k) == SubSeq(match, Max({i \in stars : i < k}) + 1, k - 1)
             Goes(rest) == rest =
               [k \in {0} \cup stars |->
                  LET before == Max({i \in {0} \cup stars : i < k})
                  IN  IF k = 0 \/ k = Min(stars) THEN {input}
                      ELSE {SubSeq(s, Min(Occurs(Part(k), s)) + Len(Part(k)) + 1, Len(s)) :
                              s \in {t \in rest[before] : Occurs(Part(k), t) # {}}}]
             up == CHOOSE rest : Goes(rest)
  <1>1. /\ match \in Seq({"*"}) /\ Len(match) = 1 /\ stars = {1}
    BY DEF AllOrigins
  <1>2. Min({1}) = 1 /\ Max({1}) = 1
    BY DEF Min, Max
  <1>3. Glob(input, AllOrigins) <=>
          IF stars = {} THEN input = match
          ELSE /\ IsPrefix(SubSeq(match, 1, Min(stars) - 1), input)
               /\ \E s \in up[Max(stars)] : IsSuffix(SubSeq(match, Max(stars) + 1, Len(match)), s)
    BY Zenon DEF Glob
  <1>4. \A rest : Goes(rest) <=> rest = [k \in {0, 1} |-> {input}]
    <2> SUFFICES ASSUME NEW rest PROVE Goes(rest) <=> rest = [k \in {0, 1} |-> {input}]
      OBVIOUS
    <2> DEFINE body(k) ==
                  LET before == Max({i \in {0} \cup stars : i < k})
                  IN  IF k = 0 \/ k = Min(stars) THEN {input}
                      ELSE {SubSeq(s, Min(Occurs(Part(k), s)) + Len(Part(k)) + 1, Len(s)) :
                              s \in {t \in rest[before] : Occurs(Part(k), t) # {}}}
    <2>1. \A k \in {0} \cup stars : body(k) = {input}
      BY <1>1, <1>2, Zenon
    <2>2. Goes(rest) <=> rest = [k \in {0} \cup stars |-> body(k)]
      BY Zenon
    <2>3. {0} \cup stars = {0, 1}
      BY <1>1
    <2> HIDE DEF body, Goes, stars
    <2> QED
      BY <2>1, <2>2, <2>3
  <1> HIDE DEF Goes
  <1>5. Goes(up)
    BY <1>4
  <1>6. up = [k \in {0, 1} |-> {input}]
    BY <1>4, <1>5
  <1> HIDE DEF up, stars
  <1>7. up[Max(stars)] = {input}
    BY <1>1, <1>2, <1>6
  <1>8. PICK none : none = <<>>
    OBVIOUS
  <1>9. SubSeq(match, 1, Min(stars) - 1) = none /\ SubSeq(match, Max(stars) + 1, Len(match)) = none
    BY <1>1, <1>2, <1>8
  <1>10. IsPrefix(none, input) /\ IsSuffix(none, input)
    <2>1. \A t : IsSequence(t) => Len(t) \in Nat /\ SubSeq(t, 1, 0) = <<>>
      BY DEF IsSequence
    <2>2. IsSequence(Reverse(input)) /\ Len(Reverse(input)) \in Nat
      BY DEF IsSequence, Reverse, Range
    <2>3. Len(none) = 0 /\ SubSeq(none, 1, 0) = <<>> /\ Reverse(none) = none
      BY <1>8 DEF Reverse
    <2> QED
      BY <2>1, <2>2, <2>3 DEF IsPrefix, IsSuffix
  <1> QED
    BY <1>1, <1>3, <1>7, <1>9, <1>10

\* An origin consists of its scheme and its host; a missing one has no host.
LEMMA OriginFacts ==
    /\ \A o : IsOrigin(o) => Host(o) # <<>>
    /\ IsSequence(<<>>) /\ Host(<<>>) = <<>>
    /\ \A u, o : IsOrigin(u) /\ IsOrigin(o) /\ Host(u) = Host(o) /\ Scheme(u) = Scheme(o) => u = o
  <1>1. ASSUME NEW o, IsOrigin(o)
        PROVE  /\ o \in Seq(Range(o)) /\ Len(o) \in Nat /\ Len(o) >= 2
               /\ Host(o) \in Seq(Range(o)) /\ Len(Host(o)) = Len(o) - 1
               /\ Scheme(o)[1] = o[1] /\ \A i \in 1..(Len(o) - 1) : Host(o)[i] = o[i + 1]
    <2>1. o \in Seq(Range(o)) /\ Len(o) \in Nat /\ Len(o) >= 2
      BY <1>1 DEF IsOrigin, IsSequence
    <2> QED
      BY <2>1 DEF Host, Scheme
  <1>2. \A o : IsOrigin(o) => Host(o) # <<>>
    <2> SUFFICES ASSUME NEW o, IsOrigin(o), Host(o) = <<>> PROVE FALSE
      OBVIOUS
    <2>1. Len(Host(o)) = 0
      OBVIOUS
    <2> QED
      BY <1>1, <2>1
  <1>3. IsSequence(<<>>) /\ Host(<<>>) = <<>>
    BY DEF IsSequence, Host
  <1>4. ASSUME NEW u, NEW o, IsOrigin(u), IsOrigin(o), Host(u) = Host(o), Scheme(u) = Scheme(o)
        PROVE  u = o
    <2>1. Len(u) = Len(o) /\ DOMAIN u = DOMAIN o /\ DOMAIN u = 1..Len(u)
      BY <1>1, <1>4
    <2>2. ASSUME NEW i \in 1..Len(u) PROVE u[i] = o[i]
      <3>1. CASE i = 1
        BY <1>1, <1>4, <3>1
      <3>2. CASE i # 1
        <4>1. Len(u) \in Nat /\ i - 1 \in 1..(Len(u) - 1) /\ (i - 1) + 1 = i
          BY <1>1, <1>4, <3>2
        <4>2. u[i] = Host(u)[i - 1] /\ o[i] = Host(o)[i - 1]
          BY <1>1, <1>4, <2>1, <4>1
        <4> QED
          BY <1>4, <4>2
      <3> QED
        BY <3>1, <3>2
    <2>3. u \in Seq(Range(u)) /\ o \in Seq(Range(o))
      BY <1>1, <1>4
    <2>4. u = [i \in 1..Len(u) |-> u[i]] /\ o = [i \in 1..Len(u) |-> o[i]]
      BY <2>1, <2>3
    <2> QED
      BY <2>2, <2>4
  <1> QED
    BY <1>2, <1>3, <1>4

\* The rules of UseCrossOriginProtection trust the origins they name; their globs,
\* matched against an empty path, trust nobody.
LEMMA TrustedFacts ==
    ASSUME NEW rules, \A u \in rules : IsOrigin(u), NEW origin
    PROVE  /\ (origin = <<>> \/ IsOrigin(origin)) /\ Trusted(rules, origin) => origin \in rules
           /\ origin \in rules /\ ~HasGlob(origin) => Trusted(rules, origin)
  <1>1. ASSUME NEW g, HasGlob(g) PROVE ~Glob(g, <<>>)
    <2>1. ~HasGlob(<<>>)
      BY DEF HasGlob
    <2>2. g # <<>>
      BY <1>1, <2>1
    <2> QED
      BY <2>1, <2>2, GlobExact
  <1>2. ASSUME origin = <<>> \/ IsOrigin(origin), Trusted(rules, origin) PROVE origin \in rules
    <2>1. PICK u \in rules : Host(u) = Host(origin) /\ Scheme(u) = Scheme(origin)
      BY <1>1, <1>2 DEF Trusted
    <2>2. IsOrigin(origin)
      BY <1>2, <2>1, OriginFacts
    <2> QED
      BY <2>1, <2>2, OriginFacts
  <1>3. ASSUME origin \in rules, ~HasGlob(origin) PROVE Trusted(rules, origin)
    BY <1>3 DEF Trusted
  <1> QED
    BY <1>2, <1>3

-----------------------------------------------------------------------------
(* Addresses.                                                              *)

NamesHeaders(c) == "headers" \in DOMAIN c /\ c.headers \in Seq(HeaderNames)

\* An option word, or Validate, adds no header but those there is a parser for.
LEMMA OptionNames ==
    ASSUME NEW c, NamesHeaders(c)
    PROVE  /\ \A word : NamesHeaders(Option(c, word))
           /\ NamesHeaders(Validate(c))
  <1>1. /\ \A h \in HeaderNames : <<h>> \in Seq(HeaderNames) /\ Append(c.headers, h) \in Seq(HeaderNames)
        /\ {"X-Forwarded-For", "X-Real-Ip", "True-Client-Ip", "Cf-Connecting-Ip"} \subseteq HeaderNames
    BY DEF NamesHeaders, HeaderNames
  <1>2. ASSUME NEW word PROVE NamesHeaders(Option(c, word))
    BY <1>1 DEF NamesHeaders, Option
  <1>3. NamesHeaders(Validate(c))
    BY <1>1 DEF NamesHeaders, Validate
  <1> QED
    BY <1>2, <1>3

\* However many words there are.
LEMMA ConfigNames ==
    ASSUME NEW words, IsSequence(words)
    PROVE  NamesHeaders(Validate(FromStringOpts(words)))
  <1> DEFINE n == Len(words)
             Goes(f, m) == f = [k \in 0..m |-> IF k = 0 THEN NewConfig ELSE Option(f[k - 1], words[k])]
             Without == {m \in Nat : ~\E f : Goes(f, m)}
  <1>1. n \in Nat
    BY DEF IsSequence
  <1>2. NamesHeaders(NewConfig) /\ NamesHeaders(DefaultConfig)
    <2>1. "headers" \in DOMAIN NewConfig /\ NewConfig.headers = <<>>
      BY DEF NewConfig
    <2>2. "headers" \in DOMAIN DefaultConfig /\ DefaultConfig.headers = <<"X-Forwarded-For">>
      BY DEF NewConfig, DefaultConfig
    <2> QED
      BY <2>1, <2>2 DEF NamesHeaders, HeaderNames
  <1>3. \E f : Goes(f, 0)
    <2> DEFINE f == [k \in 0..0 |-> NewConfig]
    <2>1. \A k \in 0..0 : k = 0
      OBVIOUS
    <2>2. f = [k \in 0..0 |-> IF k = 0 THEN NewConfig ELSE Option(f[k - 1], words[k])]
      BY <2>1
    <2> HIDE DEF f
    <2> QED
      BY <2>2
  <1>4. ASSUME NEW m \in Nat, NEW f, Goes(f, m) PROVE \E g : Goes(g, m + 1)
    <2> DEFINE g == [k \in 0..(m + 1) |-> IF k <= m THEN f[k] ELSE Option(f[m], words[m + 1])]
    <2>1. \A k \in 0..m : f[k] = IF k = 0 THEN NewConfig ELSE Option(f[k - 1], words[k])
      BY <1>4
    <2>2. ASSUME NEW k \in 0..(m + 1)
          PROVE  g[k] = IF k = 0 THEN NewConfig ELSE Option(g[k - 1], words[k])
      <3>1. CASE k \in 0..m
        <4>1. g[k] = f[k] /\ (k # 0 => g[k - 1] = f[k - 1])
          BY <3>1
        <4> HIDE DEF g
        <4> QED
          BY <2>1, <3>1, <4>1
      <3>2. CASE k = m + 1
        <4>1. g[k] = Option(f[m], words[m + 1]) /\ g[k - 1] = f[m] /\ k # 0
          BY <3>2
        <4> HIDE DEF g
        <4> QED
          BY <3>2, <4>1
      <3> QED
        BY <3>1, <3>2
    <2>3. g = [k \in 0..(m + 1) |-> g[k]]
      OBVIOUS
    <2> HIDE DEF g
    <2>4. g = [k \in 0..(m + 1) |-> IF k = 0 THEN NewConfig ELSE Option(g[k - 1], words[k])]
      BY <2>2, <2>3
    <2> QED
      BY <2>4
  <1>5. \E f : Goes(f, n)
    <2> SUFFICES ASSUME ~\E f : Goes(f, n) PROVE FALSE
      OBVIOUS
    <2>1. n \in Without /\ Without \in SUBSET Nat
      BY <1>1
    <2>2. PICK m \in Without : \A j \in Without : m <= j
      <3> HIDE DEF Without
      <3> QED
        BY <2>1, LeastNatural
    <2>3. m \in Nat /\ m # 0 /\ ~\E f : Goes(f, m)
      <3>1. m \in Nat /\ ~\E f : Goes(f, m)
        BY <2>2
      <3> HIDE DEF Goes
      <3> QED
        BY <1>3, <3>1
    <2>4. m - 1 \in Nat /\ m - 1 \notin Without
      <3> HIDE DEF Without
      <3> QED
        BY <2>2, <2>3
    <2>5. PICK f : Goes(f, m - 1)
      BY <2>4
    <2> HIDE DEF Goes
    <2>6. \E g : Goes(g, (m - 1) + 1)
      BY <1>4, <2>4, <2>5
    <2>7. (m - 1) + 1 = m
      BY <2>3
    <2> QED
      BY <2>3, <2>6, <2>7
  <1> DEFINE made == CHOOSE f : Goes(f, n)
  <1>6. Goes(made, n)
    BY <1>5
  <1>7. FromStringOpts(words) = IF words = <<>> THEN DefaultConfig ELSE Validate(made[n])
    BY DEF FromStringOpts
  <1>8. \A k \in 0..n : made[k] = IF k = 0 THEN NewConfig ELSE Option(made[k - 1], words[k])
    <2> HIDE DEF made
    <2> QED
      BY <1>6
  <1> DEFINE Fails == {k \in 0..n : ~NamesHeaders(made[k])}
  <1> HIDE DEF made
  <1>9. Fails = {}
    <2> SUFFICES ASSUME Fails # {} PROVE FALSE
      OBVIOUS
    <2>1. Fails \in SUBSET Nat
      BY <1>1
    <2>2. PICK k \in Fails : \A j \in Fails : k <= j
      <3> HIDE DEF Fails
      <3> QED
        BY <2>1, LeastNatural
    <2>3. k \in 0..n /\ ~NamesHeaders(made[k])
      BY <2>2
    <2>4. k # 0
      BY <1>2, <1>8, <2>3
    <2>5. k - 1 \in 0..n /\ k - 1 \notin Fails
      BY <1>1, <2>2, <2>3, <2>4
    <2>6. NamesHeaders(made[k - 1])
      BY <2>5
    <2>7. made[k] = Option(made[k - 1], words[k])
      BY <1>8, <2>3, <2>4
    <2> QED
      BY <2>3, <2>6, <2>7, OptionNames
  <1>10. NamesHeaders(made[n])
    BY <1>1, <1>9
  <1> QED
    BY <1>2, <1>7, <1>10, OptionNames

\* The last of known that is not in T, or the first.
LastStrange(known, T) ==
    LET strange == {i \in DOMAIN known : known[i] \notin T}
    IN  IF strange = {} THEN known[1] ELSE known[Max(strange)]

\* The greatest of a set is the one that no other exceeds.
LEMMA MaxIs ==
    ASSUME NEW b \in Nat, NEW T \in SUBSET 1..b, NEW m \in T, \A j \in T : j <= m
    PROVE  Max(T) = m
  <1>1. Max(T) \in T /\ m <= Max(T)
    BY MaxFacts
  <1>2. m \in 1..b /\ Max(T) \in 1..b /\ Max(T) <= m
    <2>1. \A j \in T : j \in 1..b
      OBVIOUS
    <2> QED
      BY <1>1, <2>1
  <1> QED
    BY <1>1, <1>2

\* From the server's end: what Pick finds in the reversed header is the last
\* address that is not trusted, the peer's trusted one added.
LEMMA PickFacts ==
    ASSUME NEW X, NEW c, NEW F \in Seq(X), F # <<>>, NEW known \in Seq(X), Len(known) = Len(F) + 1,
           \A i \in 1..Len(F) : known[i] = F[i], NEW T, \A x : IsTrusted(c, x) <=> x \in T,
           known[Len(known)] \in T
    PROVE  Pick(c, Reverse(F)) = LastStrange(known, T)
  <1> DEFINE n == Len(F)
             R == Reverse(F)
             untrusted == {i \in DOMAIN R : ~IsTrusted(c, R[i])}
             strange == {i \in DOMAIN known : known[i] \notin T}
  <1>1. n \in Nat /\ n # 0 /\ DOMAIN known = 1..(n + 1) /\ known[n + 1] \in T
    OBVIOUS
  <1>2. R \in Seq(X) /\ Len(R) = n /\ DOMAIN R = 1..n /\ \A i \in 1..n : R[i] = F[(n - i) + 1]
    BY DEF Reverse
  <1> HIDE DEF n, R
  <1>3. \A i \in 1..n : (n - i) + 1 \in 1..n /\ R[i] = known[(n - i) + 1]
    <2>1. \A i \in 1..n : (n - i) + 1 \in 1..n
      BY <1>1
    <2> QED
      BY <1>2, <2>1 DEF n
  <1>4. \A i \in 1..n : i \in untrusted <=> (n - i) + 1 \in strange
    <2>1. \A i \in 1..n : (n - i) + 1 \in DOMAIN known
      BY <1>1, <1>3
    <2> QED
      BY <1>2, <1>3, <2>1
  <1>5. \A j \in strange : j \in 1..n /\ (n - j) + 1 \in 1..n /\ (n - ((n - j) + 1)) + 1 = j
    <2>1. \A j \in strange : j \in 1..(n + 1) /\ j # n + 1
      BY <1>1
    <2> HIDE DEF strange
    <2> QED
      BY <1>1, <2>1
  <1>6. Pick(c, R) = R[IF untrusted = {} THEN Len(R) ELSE Min(untrusted)]
    BY DEF Pick
  <1>7. untrusted \subseteq 1..n
    BY <1>2
  <1>8. LastStrange(known, T) = IF strange = {} THEN known[1] ELSE known[Max(strange)]
    BY DEF LastStrange
  <1> HIDE DEF untrusted, strange
  <1>9. CASE untrusted = {}
    <2>1. strange = {}
      BY <1>4, <1>5, <1>9
    <2>2. R[n] = known[1]
      <3>1. n \in 1..n /\ (n - n) + 1 = 1
        BY <1>1
      <3> QED
        BY <1>3, <3>1
    <2> QED
      BY <1>2, <1>6, <1>8, <1>9, <2>1, <2>2 DEF R
  <1>10. CASE untrusted # {}
    <2>1. PICK u : u = Min(untrusted)
      OBVIOUS
    <2>2. u \in untrusted /\ u \in 1..n /\ \A i \in untrusted : u <= i
      <3>1. untrusted \in SUBSET Nat
        BY <1>1, <1>7
      <3> QED
        BY <1>7, <1>10, <2>1, <3>1, MinFacts
    <2>3. (n - u) + 1 \in strange
      BY <1>4, <2>2
    <2>4. ASSUME NEW j \in strange PROVE j <= (n - u) + 1
      <3>1. j \in 1..n /\ (n - j) + 1 \in 1..n /\ (n - ((n - j) + 1)) + 1 = j
        BY <1>5
      <3>2. (n - j) + 1 \in untrusted
        BY <1>4, <3>1
      <3>3. u <= (n - j) + 1
        BY <2>2, <3>2
      <3> QED
        BY <1>1, <2>2, <3>1, <3>3
    <2>5. Max(strange) = (n - u) + 1
      <3>1. strange \in SUBSET 1..n
        BY <1>5
      <3> QED
        BY <1>1, <2>3, <2>4, <3>1, MaxIs
    <2>6. R[u] = known[Max(strange)]
      BY <1>3, <2>2, <2>5
    <2> QED
      BY <1>6, <1>8, <1>10, <2>1, <2>3, <2>6 DEF R
  <1> QED
    BY <1>9, <1>10


\* The way of a page to the server, and what X-Forwarded-For is then.
LEMMA WayFacts ==
    ASSUME NEW p \in Pages
    PROVE  LET A == Addrs(p)
               F == Client[p].claims \o Front(A)
               known == Client[p].claims \o A
               X == Range(Client[p].claims) \cup Addresses
           IN  /\ A \in Seq(Addresses) /\ Len(A) >= 1 /\ Last(A) = A[Len(A)]
               /\ Len(A) = Len(Client[p].route) + 1 /\ DOMAIN Client[p].route = 1..Len(Client[p].route)
               /\ Len(Client[p].route) \in Nat
               /\ Client[p].claims \in Seq(Range(Client[p].claims))
               /\ F \in Seq(X) /\ known \in Seq(X) /\ Len(known) = Len(F) + 1
               /\ Len(known) = Len(Client[p].claims) + Len(A)
               /\ \A i \in 1..Len(F) : known[i] = F[i]
               /\ \A i \in 1..Len(A) : known[Len(Client[p].claims) + i] = A[i]
               /\ Range(Client[p].claims) \subseteq Addresses => F \in Seq(Addresses)
               /\ ~(Range(Client[p].claims) \subseteq Addresses) => \E i \in DOMAIN F : F[i] \notin Addresses
  <1> DEFINE route == Client[p].route
             claims == Client[p].claims
  <1>1. /\ route \in Seq(Range(route)) /\ claims \in Seq(Range(claims))
        /\ Range(Addrs(p)) \subseteq Addresses
    BY ClientAssumption DEF IsSequence
  <1>2. /\ Addrs(p) \in Seq(Addresses) /\ Len(Addrs(p)) = Len(route) + 1
    <2> DEFINE hops == [i \in DOMAIN route |-> route[i].addr]
    <2>1. PICK first : first = <<Client[p].addr>>
      OBVIOUS
    <2>2. first \in Seq({Client[p].addr}) /\ Len(first) = 1
      BY <2>1
    <2>3. hops \in Seq(Range(hops)) /\ Len(hops) = Len(route) /\ Len(route) \in Nat
      <3>1. Len(route) \in Nat /\ DOMAIN route = 1..Len(route)
        BY <1>1
      <3>2. hops \in [1..Len(route) -> Range(hops)]
        BY <3>1 DEF Range
      <3> HIDE DEF hops
      <3> QED
        BY <3>1, <3>2
    <2>4. Addrs(p) = first \o hops
      BY <2>1 DEF Addrs
    <2> DEFINE Z == {Client[p].addr} \cup Range(hops)
    <2>5. Addrs(p) \in Seq(Z) /\ Len(Addrs(p)) = Len(route) + 1
      <3>1. first \in Seq(Z) /\ hops \in Seq(Z)
        BY <2>2, <2>3
      <3>2. PICK rest, ways : rest = hops /\ ways = route
        OBVIOUS
      <3> HIDE DEF Z, hops, route
      <3>3. first \in Seq(Z) /\ rest \in Seq(Z) /\ Len(first) = 1 /\ Len(rest) = Len(ways)
            /\ Len(ways) \in Nat
        BY <2>2, <2>3, <3>1, <3>2
      <3>4. first \o rest \in Seq(Z) /\ Len(first \o rest) = Len(first) + Len(rest)
        BY <3>3, ConcatProperties
      <3> QED
        BY <2>4, <3>2, <3>3, <3>4
    <2> HIDE DEF hops, Z
    <2> HIDE <2>4
    <2>6. Addrs(p) = [i \in 1..Len(Addrs(p)) |-> Addrs(p)[i]] /\ Len(Addrs(p)) \in Nat
      BY <2>5
    <2>7. \A i \in 1..Len(Addrs(p)) : Addrs(p)[i] \in Addresses
      BY <1>1, <2>5 DEF Range
    <2> QED
      BY <2>5, <2>6, <2>7
  <1>3. PICK A : A = Addrs(p)
    OBVIOUS
  <1>4. A \in Seq(Addresses) /\ Len(A) = Len(route) + 1
    BY <1>2, <1>3
  <1>5. /\ Len(route) \in Nat /\ DOMAIN route = 1..Len(route) /\ Len(A) >= 1 /\ Last(A) = A[Len(A)]
    BY <1>1, <1>4 DEF Last
  <1>6. /\ Front(A) \in Seq(Addresses) /\ Len(Front(A)) = Len(A) - 1
        /\ \A i \in 1..(Len(A) - 1) : Front(A)[i] = A[i]
    BY <1>4, <1>5 DEF Front
  <1>7. PICK G : G = Front(A)
    OBVIOUS
  <1>8. G \in Seq(Addresses) /\ Len(G) = Len(A) - 1 /\ \A i \in 1..(Len(A) - 1) : G[i] = A[i]
    BY <1>6, <1>7
  <1>9. PICK C : C = claims
    OBVIOUS
  <1>10. C \in Seq(Range(C))
    BY <1>1, <1>9
  <1> HIDE DEF route, claims
  <1> DEFINE F == C \o G
             known == C \o A
             X == Range(C) \cup Addresses
  <1>11. /\ F \in Seq(X) /\ known \in Seq(X) /\ Len(known) = Len(F) + 1
         /\ Len(known) = Len(C) + Len(A) /\ Len(F) = Len(C) + Len(G) /\ Len(C) \in Nat
    <2>1. C \in Seq(X) /\ G \in Seq(X) /\ A \in Seq(X)
      BY <1>4, <1>8, <1>10
    <2> HIDE DEF X
    <2> QED
      BY <1>4, <1>5, <1>8, <1>10, <2>1
  <1>12. ASSUME NEW i \in 1..Len(F) PROVE known[i] = F[i]
    <2>1. Len(C) \in Nat /\ Len(G) \in Nat /\ Len(A) = Len(G) + 1
      BY <1>8, <1>10, <1>4
    <2>2. CASE i <= Len(C)
      BY <1>4, <1>8, <1>10, <1>11, <2>1, <2>2
    <2>3. CASE i > Len(C)
      <3>1. i - Len(C) \in 1..Len(G)
        BY <1>11, <2>1, <2>3
      <3>2. F[i] = G[i - Len(C)] /\ known[i] = A[i - Len(C)]
        BY <1>4, <1>8, <1>10, <1>11, <2>1, <2>3, <3>1
      <3> QED
        BY <1>8, <2>1, <3>1, <3>2
    <2> QED
      BY <1>11, <2>1, <2>2, <2>3
  <1>13. ASSUME NEW i \in 1..Len(A) PROVE known[Len(C) + i] = A[i]
    BY <1>4, <1>10
  <1>14. ASSUME Range(C) \subseteq Addresses PROVE F \in Seq(Addresses)
    <2>1. C \in Seq(Addresses)
      BY <1>10, <1>14
    <2> QED
      BY <1>8, <2>1
  <1>15. ASSUME ~(Range(C) \subseteq Addresses) PROVE \E i \in DOMAIN F : F[i] \notin Addresses
    <2>1. PICK i \in DOMAIN C : C[i] \notin Addresses
      BY <1>15 DEF Range
    <2>2. i \in DOMAIN F /\ F[i] = C[i]
      BY <1>8, <1>10, <2>1
    <2> QED
      BY <2>1, <2>2
  <1>16. A = Addrs(p) /\ C = Client[p].claims /\ route = Client[p].route /\ G = Front(A)
    BY <1>3, <1>7, <1>9 DEF route, claims
  <1> QED
    BY <1>4, <1>5, <1>10, <1>11, <1>12, <1>13, <1>14, <1>15, <1>16


\* One address alone is what is picked.
LEMMA ParseOne ==
    ASSUME NEW c, NEW x \in Addresses, NEW headers, NEW h, headers[h] = <<x>>
    PROVE  /\ Parse(headers, h) # <<>>
           /\ Pick(c, Parse(headers, h)) = x
  <1>1. PICK xs : xs = <<x>>
    OBVIOUS
  <1>2. xs \in Seq(Addresses) /\ Len(xs) = 1 /\ DOMAIN xs = {1} /\ xs[1] = x
    BY <1>1
  <1>3. Reverse(xs) = xs /\ xs # <<>>
    BY <1>1 DEF Reverse
  <1>4. Parse(headers, h) = xs
    BY <1>1, <1>2, <1>3 DEF Parse
  <1>5. Min({1}) = 1
    BY DEF Min
  <1>6. ASSUME NEW untrusted, untrusted = {i \in DOMAIN xs : ~IsTrusted(c, xs[i])}
        PROVE  xs[IF untrusted = {} THEN Len(xs) ELSE Min(untrusted)] = x
    <2>1. untrusted = {} \/ untrusted = {1}
      BY <1>2, <1>6
    <2> QED
      BY <1>2, <1>5, <2>1
  <1> QED
    BY <1>3, <1>4, <1>6 DEF Pick

\* UseRealIP finds the address that NearestUntrusted asks for.
LEMMA AddressFacts ==
    ASSUME NEW s \in Setups, Starts(s), NEW p \in s.pages
    PROVE  LET a == RemoteAddr(Config(s), Last(Addrs(p)), Headers(p))
           IN  a = Nearest(s, p) \/ (a = Last(Addrs(p)) /\ ~Told(s, p))
  <1> DEFINE peer == Last(Addrs(p))
             broken == ~(Range(Client[p].claims) \subseteq Addresses)
             hs == Range(Config(s).headers)
             XFF == Client[p].claims \o Front(Addrs(p))
             known == Client[p].claims \o Addrs(p)
             X == Range(Client[p].claims) \cup Addresses
  <1>1. PICK c : c = Config(s)
    OBVIOUS
  <1>2. PICK headers : headers = Headers(p)
    OBVIOUS
  <1>3. p \in Pages /\ IsSequence(s.options) /\ MeansAddresses(s)
    BY SetupAssumption
  <1>4. /\ \A x : IsTrusted(c, x) <=> x \in s.trusts
        /\ peer \in s.trusts =>
             /\ "X-Forwarded-For" \in hs \/ \E h \in hs : Setters(p, h) # {}
             /\ \A h \in hs \ {"X-Forwarded-For"} : Setters(p, h) # {} =>
                   \A i \in DOMAIN Addrs(p) : Addrs(p)[i] \in s.trusts <=> i > Max(Setters(p, h))
    BY <1>1, <1>3 DEF MeansAddresses, IsTrusted
  <1>5. c.headers \in Seq(HeaderNames)
    BY <1>1, <1>3, ConfigNames DEF NamesHeaders, Config
  <1>6. /\ headers["X-Forwarded-For"] = XFF
        /\ \A h \in HeaderNames \ {"X-Forwarded-For"} :
              headers[h] = IF Setters(p, h) = {} THEN <<>> ELSE <<Addrs(p)[Max(Setters(p, h))]>>
    BY <1>2 DEF Headers, HeaderNames
  <1>7. \A h : h \in hs <=> \E i \in DOMAIN c.headers : h = c.headers[i]
    BY <1>1 DEF Range
  <1> DEFINE Present(h) == Parse(headers, h) # <<>>
             present == {i \in DOMAIN c.headers : Present(c.headers[i])}
  <1>8. RemoteAddr(c, peer, headers) =
          IF peer \notin s.trusts \/ present = {} THEN peer
          ELSE Pick(c, Parse(headers, c.headers[Min(present)]))
    BY <1>4 DEF RemoteAddr
  <1>9. /\ Nearest(s, p) = LastStrange(known, s.trusts)
        /\ Told(s, p) /\ peer \in s.trusts /\ broken => \E h \in hs \ {"X-Forwarded-For"} : Setters(p, h) # {}
    BY DEF Nearest, LastStrange, Told
  <1>10. /\ known \in Seq(X) /\ XFF \in Seq(X) /\ Len(known) = Len(XFF) + 1
         /\ \A i \in 1..Len(XFF) : known[i] = XFF[i]
         /\ known[Len(known)] = peer
         /\ ~broken => XFF \in Seq(Addresses)
         /\ broken => \E i \in DOMAIN XFF : XFF[i] \notin Addresses
    <2>1. PICK A, C : A = Addrs(p) /\ C = Client[p].claims
      OBVIOUS
    <2>2. /\ A \in Seq(Addresses) /\ Len(A) >= 1 /\ Last(A) = A[Len(A)] /\ C \in Seq(Range(C))
          /\ Len(C \o A) = Len(C) + Len(A)
          /\ \A i \in 1..Len(A) : (C \o A)[Len(C) + i] = A[i]
      BY <1>3, <2>1, WayFacts
    <2>3. (C \o A)[Len(C \o A)] = Last(A)
      BY <2>2
    <2> QED
      BY <1>3, <2>1, <2>3, WayFacts
  <1> HIDE DEF peer, hs, XFF, known, X, broken
  <1>11. ASSUME NEW h \in HeaderNames \ {"X-Forwarded-For"}, Setters(p, h) = {}
         PROVE  ~Present(h)
    <2>1. PICK none : none = <<>>
      OBVIOUS
    <2>2. headers[h] = none /\ Len(none) = 0
      BY <1>6, <1>11, <2>1
    <2> QED
      BY <1>11, <2>1, <2>2 DEF Parse
  <1>12. ASSUME NEW h \in hs \ {"X-Forwarded-For"}, h \in HeaderNames, peer \in s.trusts,
                Setters(p, h) # {}
         PROVE  /\ Present(h)
                /\ Pick(c, Parse(headers, h)) = LastStrange(known, s.trusts)
    <2>1. PICK m : m = Max(Setters(p, h))
      OBVIOUS
    <2>2. PICK A, C : A = Addrs(p) /\ C = Client[p].claims
      OBVIOUS
    <2>3. \A i \in DOMAIN A : A[i] \in s.trusts <=> i > m
      BY <1>4, <1>12, <2>1, <2>2
    <2>4. /\ A \in Seq(Addresses) /\ C \in Seq(Range(C)) /\ known = C \o A
          /\ Len(A) = Len(Client[p].route) + 1 /\ Len(Client[p].route) \in Nat
          /\ DOMAIN Client[p].route = 1..Len(Client[p].route)
          /\ Len(known) = Len(C) + Len(A)
          /\ \A i \in 1..Len(A) : known[Len(C) + i] = A[i]
      BY <1>3, <2>2, WayFacts DEF known
    <2>5. m \in 1..Len(A)
      <3>1. Setters(p, h) \in SUBSET (1..Len(Client[p].route))
        BY <2>4 DEF Setters
      <3>2. m \in Setters(p, h)
        BY <1>12, <2>1, <2>4, <3>1, MaxFacts
      <3> QED
        BY <2>4, <3>1, <3>2
    <2>6. A[m] \in Addresses /\ headers[h] = <<A[m]>>
      <3>1. A[m] \in Addresses
        BY <2>4, <2>5
      <3> QED
        BY <1>6, <1>12, <2>1, <2>2, <3>1, Zenon
    <2>7. Present(h) /\ Pick(c, Parse(headers, h)) = A[m]
      BY <2>6, ParseOne
    <2> DEFINE strange == {i \in DOMAIN known : known[i] \notin s.trusts}
    <2>8. Len(C) \in Nat /\ Len(A) \in Nat /\ DOMAIN known = 1..(Len(C) + Len(A)) /\ DOMAIN A = 1..Len(A)
      BY <1>10, <2>4
    <2>9. Len(C) + m \in strange
      <3>1. A[m] \notin s.trusts
        BY <2>3, <2>5, <2>8
      <3>2. known[Len(C) + m] = A[m] /\ Len(C) + m \in DOMAIN known
        BY <2>4, <2>5, <2>8
      <3> QED
        BY <3>1, <3>2
    <2>10. ASSUME NEW j \in strange PROVE j <= Len(C) + m
      <3> SUFFICES ASSUME ~(j <= Len(C) + m) PROVE FALSE
        OBVIOUS
      <3>1. j \in 1..(Len(C) + Len(A)) /\ known[j] \notin s.trusts
        BY <2>8, <2>10
      <3> HIDE DEF strange
      <3>2. j - Len(C) \in 1..Len(A) /\ j - Len(C) > m /\ Len(C) + (j - Len(C)) = j
        BY <2>5, <2>8, <3>1
      <3>3. known[j] = A[j - Len(C)]
        BY <2>4, <3>2
      <3> QED
        BY <2>3, <2>8, <3>1, <3>2, <3>3
    <2>11. Max(strange) = Len(C) + m
      <3>1. strange \in SUBSET (1..(Len(C) + Len(A))) /\ Len(C) + Len(A) \in Nat
        BY <2>8
      <3> HIDE DEF strange
      <3> QED
        BY <2>9, <2>10, <3>1, MaxIs
    <2>12. LastStrange(known, s.trusts) = known[Len(C) + m]
      BY <2>9, <2>11 DEF LastStrange
    <2>13. known[Len(C) + m] = A[m]
      BY <2>4, <2>5
    <2> QED
      BY <2>3, <2>7, <2>12, <2>13
  <1>13. Present("X-Forwarded-For") => ~broken /\ XFF # <<>> /\ Parse(headers, "X-Forwarded-For") = Reverse(XFF)
    <2>1. Present("X-Forwarded-For") =>
             /\ \A i \in DOMAIN XFF : XFF[i] \in Addresses
             /\ Parse(headers, "X-Forwarded-For") = Reverse(XFF)
      BY <1>6 DEF Parse
    <2>2. Reverse(<<>>) = <<>>
      BY DEF Reverse
    <2> QED
      BY <1>10, <2>1, <2>2
  <1>14. ASSUME ~broken, ~Present("X-Forwarded-For") PROVE XFF = <<>>
    <2>1. \A i \in DOMAIN XFF : XFF[i] \in Addresses
      BY <1>10, <1>14
    <2>2. Reverse(XFF) = <<>>
      BY <1>6, <1>14, <2>1 DEF Parse
    <2> QED
      BY <1>10, <2>2 DEF Reverse
  <1>15. ASSUME peer \in s.trusts, Present("X-Forwarded-For")
         PROVE  Pick(c, Parse(headers, "X-Forwarded-For")) = LastStrange(known, s.trusts)
    BY <1>4, <1>10, <1>13, <1>15, PickFacts
  <1>16. CASE peer \notin s.trusts
    <2>1. LastStrange(known, s.trusts) = peer
      <3> DEFINE strange == {i \in DOMAIN known : known[i] \notin s.trusts}
      <3>1. /\ Len(known) \in Nat /\ DOMAIN known = 1..Len(known)
            /\ Len(known) \in 1..Len(known)
        BY <1>10
      <3>2. strange \in SUBSET (1..Len(known)) /\ Len(known) \in strange
        BY <1>10, <1>16, <3>1
      <3>3. \A i \in strange : i <= Len(known)
        BY <3>1
      <3>4. LastStrange(known, s.trusts) = IF strange = {} THEN known[1] ELSE known[Max(strange)]
        BY DEF LastStrange
      <3> HIDE DEF strange
      <3>5. Max(strange) = Len(known)
        BY <3>1, <3>2, <3>3, MaxIs
      <3> QED
        BY <1>10, <3>2, <3>4, <3>5
    <2> QED
      BY <1>1, <1>2, <1>8, <1>9, <1>16, <2>1 DEF peer
  <1>17. CASE peer \in s.trusts /\ present = {} /\ ~Told(s, p)
    BY <1>1, <1>2, <1>8, <1>17 DEF peer
  <1>18. CASE peer \in s.trusts /\ present = {} /\ Told(s, p)
    <2>1. \A h \in hs : h \in HeaderNames /\ ~Present(h)
      BY <1>5, <1>7, <1>18
    <2> HIDE DEF present, Present
    <2>2. "X-Forwarded-For" \in hs /\ ~broken
      BY <1>4, <1>9, <1>12, <1>18, <2>1
    <2>3. XFF = <<>>
      BY <1>14, <2>1, <2>2
    <2>4. Len(known) = 1 /\ DOMAIN known = {1} /\ known[1] = peer
      BY <1>10, <2>3
    <2>5. LastStrange(known, s.trusts) = peer
      <3>1. {i \in DOMAIN known : known[i] \notin s.trusts} = {}
        BY <1>18, <2>4
      <3> QED
        BY <2>4, <3>1 DEF LastStrange
    <2> QED
      BY <1>1, <1>2, <1>8, <1>9, <1>18, <2>5 DEF peer
  <1>19. CASE peer \in s.trusts /\ present # {}
    <2>1. Min(present) \in present
      <3>1. present \in SUBSET Nat
        BY <1>5
      <3> HIDE DEF present
      <3> QED
        BY <1>19, <3>1, MinFacts
    <2>2. PICK h, i : i = Min(present) /\ h = c.headers[i]
      OBVIOUS
    <2>3. h \in hs /\ h \in HeaderNames /\ Present(h)
      <3>1. i \in DOMAIN c.headers /\ Present(c.headers[i])
        BY <2>1, <2>2
      <3> HIDE DEF Present, present
      <3> QED
        BY <1>5, <1>7, <2>2, <3>1
    <2>4. Pick(c, Parse(headers, h)) = LastStrange(known, s.trusts)
      <3> HIDE DEF present, Present
      <3>1. CASE h = "X-Forwarded-For"
        BY <1>13, <1>15, <1>19, <2>3, <3>1
      <3>2. CASE h # "X-Forwarded-For"
        BY <1>11, <1>12, <1>19, <2>3, <3>2
      <3> QED
        BY <3>1, <3>2
    <2> HIDE DEF present, Present
    <2> QED
      BY <1>1, <1>2, <1>8, <1>9, <1>19, <2>2, <2>4 DEF peer
  <1> HIDE DEF present
  <1> QED
    BY <1>16, <1>17, <1>18, <1>19

-----------------------------------------------------------------------------
(* Pages and requests.                                                     *)

\* The page of a browser has an origin that is neither missing nor "*".
LEMMA PageFacts ==
    ASSUME NEW p \in Pages
    PROVE  /\ Client[p].browser \in {"none", "modern", "old"}
           /\ Client[p].browser = "none" => Client[p].origin = <<>>
           /\ Client[p].browser # "none" =>
                /\ IsOrigin(Client[p].origin) /\ IsSequence(Client[p].origin)
                /\ ~HasGlob(Client[p].origin)
                /\ Client[p].origin # <<>> /\ Client[p].origin # AllOrigins
           /\ CrossSite(p) => Client[p].browser # "none"
           /\ AllOrigins # <<>>
  <1>1. \A o : IsOrigin(o) => o # <<>> /\ IsSequence(o)
    <2>1. Len(<<>>) = 0
      OBVIOUS
    <2> QED
      BY <2>1 DEF IsOrigin
  <1>2. HasGlob(AllOrigins) /\ AllOrigins # <<>>
    BY DEF HasGlob, AllOrigins
  <1> QED
    BY <1>1, <1>2, ClientAssumption DEF CrossSite

\* A fetch asks in its page's name, if to another site or with an unsafe method.
LEMMA RequestFacts ==
    ASSUME NEW p \in Pages, fetch[p] \in Fetches,
           NEW q, q = Request(p, fetch[p].method)
    PROVE  /\ q.method = fetch[p].method /\ q.method \in {"GET", "POST", "PUT"}
           /\ q.cookie = fetch[p].cookie /\ q.cookie \in BOOLEAN
           /\ ~IsPreflight(q)
           /\ CrossSite(p) => q.origin = Client[p].origin
           /\ q.method # "GET" => q.origin = Client[p].origin
           /\ q.origin = <<>> \/ IsOrigin(q.origin)
           /\ q.method = "GET" /\ ~CrossSite(p) => q.origin = <<>>
           /\ q.site = IF Client[p].browser # "modern" THEN "missing"
                       ELSE IF CrossSite(p) THEN "cross-site" ELSE "same-origin"
  <1>1. fetch[p].method \in {"GET", "POST", "PUT"} /\ fetch[p].cookie \in BOOLEAN
    BY DEF Fetches
  <1>2. /\ q.method = fetch[p].method /\ q.cookie = fetch[p].cookie /\ q.askMethod = "missing"
        /\ q.origin = IF Client[p].browser # "none" /\ (CrossSite(p) \/ fetch[p].method # "GET")
                        THEN Client[p].origin ELSE <<>>
        /\ q.site = IF Client[p].browser # "modern" THEN "missing"
                    ELSE IF CrossSite(p) THEN "cross-site" ELSE "same-origin"
    BY DEF Request
  <1> QED
    BY <1>1, <1>2, PageFacts DEF IsPreflight

\* The server's check of the origin says what the owner means.
LEMMA OriginAllowed ==
    ASSUME NEW s \in Setups, NEW p \in s.pages, CrossSite(p), NEW c, c = CORSOf(s),
           NEW q, q.origin = Client[p].origin, q.cookie \in BOOLEAN
    PROVE  /\ Granted(c, q) <=> (IF c.func THEN q.cookie => Client[p].origin \in s.partners
                                 ELSE AllowsAllOrigins(c) \/ Client[p].origin \in s.partners)
           /\ s.open <=> (c.func \/ AllowsAllOrigins(c))
           /\ AllowsAllOrigins(c) => s.partners = {}
           /\ c.func => ~AllowsAllOrigins(c)
  <1>1. p \in Pages /\ MeansOrigins(s)
    BY SetupAssumption
  <1>2. q.origin # <<>> /\ IsSequence(q.origin)
    BY <1>1, PageFacts
  <1>3. AllowsAllOrigins(c) => \E v \in c.origins : Glob(q.origin, v)
    BY <1>2, GlobAll DEF AllowsAllOrigins
  <1> QED
    BY <1>1, <1>2, <1>3 DEF MeansOrigins, Granted, AllowOriginFunc

\* What Allowed says of the origin and the cookie.
OriginMay(p) ==
    /\ Client[p].origin \in setup.partners \/ (setup.open /\ ~fetch[p].cookie)
    /\ fetch[p].cookie => CORSOf(setup).credentials

\* A script may read what the server lets its origin have, and no other response.
LEMMA SharedFacts ==
    ASSUME setup \in Setups, NEW p \in setup.pages, CrossSite(p), fetch[p] \in Fetches,
           NEW c, c = CORSOf(setup),
           NEW q, q.origin = Client[p].origin, q.cookie = fetch[p].cookie \/ q.cookie = FALSE,
           NEW r
    PROVE  /\ r.allowOrigin = <<>> => ~Shared(p, r)
           /\ r.allowOrigin = AllowOrigin(c, q) /\ r.credentials = c.credentials
                => (Granted(c, q) /\ Shared(p, r) /\ q.cookie = fetch[p].cookie => OriginMay(p))
           /\ OriginMay(p) => Granted(c, q)
           /\ r.allowOrigin = AllowOrigin(c, q) /\ r.credentials = c.credentials /\ OriginMay(p)
                => Shared(p, r)
  <1>1. p \in Pages /\ q.cookie \in BOOLEAN /\ fetch[p].cookie \in BOOLEAN
    BY SetupAssumption DEF Fetches
  <1>2. /\ Client[p].origin # <<>> /\ Client[p].origin # AllOrigins /\ AllOrigins # <<>>
    BY <1>1, PageFacts
  <1>3. /\ Granted(c, q) <=> (IF c.func THEN q.cookie => Client[p].origin \in setup.partners
                              ELSE AllowsAllOrigins(c) \/ Client[p].origin \in setup.partners)
        /\ setup.open <=> (c.func \/ AllowsAllOrigins(c))
        /\ AllowsAllOrigins(c) => setup.partners = {}
        /\ c.func => ~AllowsAllOrigins(c)
    BY <1>1, OriginAllowed
  <1>4. Shared(p, r) <=> \/ r.allowOrigin = AllOrigins /\ ~fetch[p].cookie
                         \/ r.allowOrigin = Client[p].origin /\ (fetch[p].cookie => r.credentials)
    BY DEF Shared
  <1>5. AllowOrigin(c, q) = IF AllowsAllOrigins(c) THEN AllOrigins ELSE Client[p].origin
    BY DEF AllowOrigin
  <1>6. OriginMay(p) <=> /\ Client[p].origin \in setup.partners \/ (setup.open /\ ~fetch[p].cookie)
                         /\ fetch[p].cookie => c.credentials
    BY DEF OriginMay
  <1>7. r.allowOrigin = <<>> => ~Shared(p, r)
    BY <1>2, <1>4
  <1>8. ASSUME r.allowOrigin = AllowOrigin(c, q), r.credentials = c.credentials,
               Granted(c, q), Shared(p, r), q.cookie = fetch[p].cookie
        PROVE  OriginMay(p)
    BY <1>1, <1>2, <1>3, <1>4, <1>5, <1>6, <1>8
  <1>9. ASSUME OriginMay(p) PROVE Granted(c, q)
    BY <1>1, <1>2, <1>3, <1>6, <1>9
  <1>10. ASSUME r.allowOrigin = AllowOrigin(c, q), r.credentials = c.credentials, OriginMay(p)
         PROVE  Shared(p, r)
    BY <1>1, <1>2, <1>3, <1>4, <1>5, <1>6, <1>10
  <1> QED
    BY <1>7, <1>8, <1>9, <1>10

\* The answer to a fetch.
LEMMA HandleRequestFacts ==
    ASSUME setup \in Setups, NEW p \in setup.pages, CrossSite(p), fetch[p] \in Fetches,
           NEW c, c = CORSOf(setup),
           NEW q, q.origin = Client[p].origin, q.cookie = fetch[p].cookie,
           q.method = fetch[p].method
    PROVE  Shared(p, HandleRequest(c, q)) <=> OriginMay(p) /\ fetch[p].method \in c.methods
  <1>1. q.method # "OPTIONS"
    BY DEF Fetches
  <1>2. RequestAllowed(c, q) <=> Granted(c, q) /\ fetch[p].method \in c.methods
    BY <1>1 DEF RequestAllowed
  <1>3. PICK r : r = HandleRequest(c, q)
    OBVIOUS
  <1>4. IF RequestAllowed(c, q) THEN r.allowOrigin = AllowOrigin(c, q) /\ r.credentials = c.credentials
        ELSE r.allowOrigin = <<>>
    BY <1>3 DEF HandleRequest, NoHeaders
  <1> QED
    BY <1>2, <1>3, <1>4, SharedFacts

\* What Allowed says of the headers and the network.
Approved(s, custom, public) ==
    /\ custom => {"X-Custom", "*"} \cap CORSOf(s).headers # {}
    /\ public => CORSOf(s).privateNetwork

\* The answer to a preflight.
LEMMA HandlePreflightFacts ==
    ASSUME setup \in Setups, NEW p \in setup.pages, CrossSite(p), fetch[p] \in Fetches,
           NEW c, c = CORSOf(setup), NEW r, r = HandlePreflight(c, PreflightRequest(p))
    PROVE  /\ Cleared(p, r) => Approved(setup, fetch[p].custom, Client[p].public)
           /\ Allowed(p) => Cleared(p, r)
  <1> DEFINE f == fetch[p]
             q == PreflightRequest(p)
             allowed == PreflightAllowed(c, q)
  <1>1. /\ f.method \in {"GET", "POST", "PUT"} /\ f.custom \in BOOLEAN
    BY DEF Fetches
  <1>2. /\ q.origin = Client[p].origin /\ q.cookie = FALSE /\ q.askMethod = f.method
        /\ q.askHeaders = IF f.custom THEN {"X-Custom"} ELSE {}
        /\ q.askPrivate = Client[p].public
    BY SetupAssumption, PageFacts DEF PreflightRequest, Request
  <1>3. IF allowed
          THEN /\ r.allowOrigin = AllowOrigin(c, q) /\ r.credentials = c.credentials
               /\ r.methods = {f.method} /\ r.headers = q.askHeaders
               /\ r.private <=> c.privateNetwork /\ Client[p].public
          ELSE r.allowOrigin = <<>>
    BY <1>2 DEF HandlePreflight, NoHeaders
  <1>4. allowed <=> /\ Granted(c, q) /\ f.method \in c.methods
                    /\ "*" \in c.headers \/ q.askHeaders \subseteq c.headers
    BY <1>1, <1>2 DEF PreflightAllowed
  <1>5. Cleared(p, r) <=> /\ Shared(p, r)
                          /\ f.method \in r.methods \cup {"GET", "POST"}
                          /\ f.custom => "X-Custom" \in r.headers
                          /\ Client[p].public => r.private
    BY DEF Cleared
  <1> HIDE DEF q, allowed, f
  <1>6. ASSUME Cleared(p, r) PROVE Approved(setup, f.custom, Client[p].public)
    <2>1. allowed
      BY <1>2, <1>3, <1>5, <1>6, SharedFacts
    <2> QED
      BY <1>1, <1>2, <1>3, <1>4, <1>5, <1>6, <2>1 DEF Approved
  <1>7. ASSUME Allowed(p) PROVE Cleared(p, r)
    <2>1. OriginMay(p) /\ f.method \in c.methods
          /\ (f.custom => {"X-Custom", "*"} \cap c.headers # {}) /\ (Client[p].public => c.privateNetwork)
      BY <1>7 DEF Allowed, OriginMay, f
    <2>2. Granted(c, q)
      BY <1>2, <2>1, SharedFacts
    <2>3. allowed
      BY <1>1, <1>2, <1>4, <2>1, <2>2
    <2>4. Shared(p, r)
      BY <1>2, <1>3, <2>1, <2>3, SharedFacts
    <2> QED
      BY <1>1, <1>2, <1>3, <1>5, <2>1, <2>3, <2>4
  <1> QED
    BY <1>6, <1>7 DEF f

\* What an unsafe request comes from, where cross-origin protection lets it.
FromOwnOrTrusted(p) ==
    CrossSite(p) => Named(p) \/ (Client[p].browser = "old" /\ Host(Client[p].origin) = Host(Own))

\* Cross-origin protection: safe methods pass, unsafe ones of pages that the owner
\* trusts pass, and no others.
LEMMA DeniedFacts ==
    ASSUME setup \in Setups, NEW p \in setup.pages, fetch[p] \in Fetches,
           NEW q, q = Request(p, fetch[p].method)
    PROVE  /\ q.method = "GET" => ~Denied(q)
           /\ Welcome(p) => ~Denied(q)
           /\ setup.protect /\ ~Denied(q) /\ q.method \in {"POST", "PUT"} => FromOwnOrTrusted(p)
  <1>1. /\ p \in Pages /\ IsOrigin(Own) /\ \A u \in setup.rules : IsOrigin(u)
    BY SetupAssumption, ClientAssumption
  <1>2. /\ q.method = fetch[p].method /\ q.method \in {"GET", "POST", "PUT"}
        /\ q.method # "GET" => q.origin = Client[p].origin
        /\ q.origin = <<>> \/ IsOrigin(q.origin)
        /\ q.site = IF Client[p].browser # "modern" THEN "missing"
                    ELSE IF CrossSite(p) THEN "cross-site" ELSE "same-origin"
    BY <1>1, RequestFacts
  <1>3. Denied(q) <=> setup.protect /\ ~CrossOriginCheck(setup.rules, Host(Own), q)
    BY DEF Denied
  <1>4. CrossOriginCheck(setup.rules, Host(Own), q) <=>
          \/ q.method = "GET"
          \/ q.site = "same-origin"
          \/ q.site = "missing" /\ Host(q.origin) = Host(Own)
          \/ Trusted(setup.rules, q.origin)
    BY <1>2 DEF CrossOriginCheck
  <1>5. q.method = "GET" => ~Denied(q)
    BY <1>3, <1>4
  <1>6. CrossSite(p) <=> Client[p].origin # Own /\ Client[p].browser # "none"
    BY DEF CrossSite
  <1>7. /\ Client[p].browser \in {"none", "modern", "old"}
        /\ Client[p].browser = "none" => Client[p].origin = <<>>
        /\ Client[p].browser # "none" => IsOrigin(Client[p].origin) /\ ~HasGlob(Client[p].origin)
    BY <1>1, PageFacts
  <1>8. ASSUME Welcome(p), q.method # "GET" PROVE ~Denied(q)
    <2>1. setup.protect => /\ Client[p].browser # "none"
                           /\ Client[p].origin = Own \/ Client[p].origin \in setup.rules
      BY <1>2, <1>6, <1>8 DEF Welcome
    <2>2. Client[p].browser # "none" /\ Client[p].origin \in setup.rules => Trusted(setup.rules, q.origin)
      BY <1>1, <1>2, <1>7, <1>8, TrustedFacts
    <2>3. Client[p].browser # "none" /\ Client[p].origin = Own
            => q.site = "same-origin" \/ (q.site = "missing" /\ Host(q.origin) = Host(Own))
      BY <1>2, <1>6, <1>8
    <2> QED
      BY <1>3, <1>4, <2>1, <2>2, <2>3
  <1>9. ASSUME setup.protect, ~Denied(q), q.method \in {"POST", "PUT"} PROVE FromOwnOrTrusted(p)
    <2>1. CASE q.site = "same-origin"
      BY <1>2, <1>6, <1>7, <2>1 DEF FromOwnOrTrusted
    <2>2. CASE q.site = "missing" /\ Host(q.origin) = Host(Own)
      <3>1. Client[p].origin # <<>>
        BY <1>1, <1>2, <1>9, <2>2, OriginFacts
      <3> QED
        BY <1>2, <1>7, <1>9, <2>2, <3>1 DEF FromOwnOrTrusted
    <2>3. CASE Trusted(setup.rules, q.origin)
      <3>1. q.origin \in setup.rules
        BY <1>1, <1>2, <2>3, TrustedFacts
      <3>2. Client[p].origin \in setup.rules
        BY <1>1, <1>2, <1>9, <3>1, OriginFacts
      <3>3. CrossSite(p) => Glob(Client[p].origin, Client[p].origin)
        BY <1>6, <1>7, GlobExact
      <3> QED
        BY <3>2, <3>3 DEF FromOwnOrTrusted, Named
    <2> QED
      BY <1>3, <1>4, <1>9, <2>1, <2>2, <2>3
  <1> QED
    BY <1>2, <1>5, <1>8, <1>9

\* A response with the answer to a fetch: readable only where allowed, and always
\* where it is and nothing else is in the way.
LEMMA ReadableFacts ==
    ASSUME setup \in Setups, NEW p \in setup.pages, fetch[p] \in Fetches,
           NEW q, q = Request(p, fetch[p].method),
           NEW r, r.cors = HandleRequest(CORSOf(setup), q)
    PROVE  /\ Readable(p, r) \in {"response", "error"} /\ CrossSite(p)
                => OriginMay(p) /\ fetch[p].method \in CORSOf(setup).methods
           /\ Welcome(p) /\ r.ok => Readable(p, r) = "response"
  <1>1. p \in Pages
    BY SetupAssumption
  <1>2. CrossSite(p) => (Shared(p, r.cors) <=> OriginMay(p) /\ fetch[p].method \in CORSOf(setup).methods)
    <2> SUFFICES ASSUME CrossSite(p)
                 PROVE  Shared(p, r.cors) <=> OriginMay(p) /\ fetch[p].method \in CORSOf(setup).methods
      OBVIOUS
    <2>1. q.origin = Client[p].origin /\ q.cookie = fetch[p].cookie /\ q.method = fetch[p].method
      BY <1>1, RequestFacts
    <2> QED
      BY <2>1, HandleRequestFacts
  <1>3. Readable(p, r) = IF CrossSite(p) /\ ~Shared(p, r.cors) THEN "opaque"
                         ELSE IF r.ok THEN "response" ELSE "error"
    BY DEF Readable
  <1>4. Welcome(p) /\ CrossSite(p) => OriginMay(p) /\ fetch[p].method \in CORSOf(setup).methods
    BY DEF Welcome, Permitted, Allowed, OriginMay
  <1> QED
    BY <1>2, <1>3, <1>4

\* What the server answers to a fetch.
LEMMA ResponseFacts ==
    ASSUME setup \in Setups, NEW p \in setup.pages, fetch[p] \in Fetches, NEW addr,
           NEW q, q = Request(p, fetch[p].method), NEW r, r = Response(q, addr)
    PROVE  /\ Readable(p, r) \in {"response", "error"} /\ CrossSite(p)
                => OriginMay(p) /\ fetch[p].method \in CORSOf(setup).methods
           /\ Welcome(p) => Readable(p, r) = "response"
           /\ q.method = "GET" => r.cors = HandleRequest(CORSOf(setup), q) /\ (~setup.privateOnly => r.ok)
  <1>1. p \in Pages
    BY SetupAssumption
  <1>2. ~IsPreflight(q) /\ q.method = fetch[p].method
    BY <1>1, RequestFacts
  <1>3. /\ r.ok <=> ~Denied(q) /\ ~Refused(addr)
        /\ r.cors = IF Denied(q) /\ setup.protectFirst THEN NoHeaders ELSE HandleRequest(CORSOf(setup), q)
    BY <1>2 DEF Response, Answered
  <1>4. ~setup.privateOnly => ~Refused(addr)
    BY DEF Refused
  <1>5. (q.method = "GET" => ~Denied(q)) /\ (Welcome(p) => ~Denied(q) /\ ~setup.privateOnly)
    BY DeniedFacts DEF Welcome
  <1>6. CASE r.cors = HandleRequest(CORSOf(setup), q)
    BY <1>3, <1>4, <1>5, <1>6, ReadableFacts
  <1>7. CASE r.cors = NoHeaders
    <2>1. CrossSite(p) => ~Shared(p, r.cors)
      <3>1. r.cors.allowOrigin = <<>>
        BY <1>7 DEF NoHeaders
      <3>2. Client[p].origin # <<>> \/ ~CrossSite(p)
        BY <1>1, PageFacts
      <3> QED
        BY <1>1, <3>1, <3>2, PageFacts DEF Shared
    <2>2. Readable(p, r) \in {"response", "error"} => ~CrossSite(p)
      BY <2>1 DEF Readable
    <2>3. CASE Denied(q)
      BY <1>5, <2>2, <2>3
    <2>4. CASE ~Denied(q)
      BY <1>3, <1>6, <2>4
    <2> QED
      BY <2>3, <2>4
  <1> QED
    BY <1>3, <1>6, <1>7

\* A stored response answers what it is stored for: requests that agree where the
\* answer varies are answered alike.
LEMMA KeyFacts ==
    ASSUME NEW c, NEW q1, NEW q2, q1.method = q2.method, NEW key,
           key = Key(Vary(c, q1), q1), key = Key(DOMAIN key, q2)
    PROVE  HandleRequest(c, q1) = HandleRequest(c, q2)
  <1> DEFINE V == {"Origin"} \cup (IF c.func THEN {"Cookie"} ELSE {})
  <1>1. Vary(c, q1) = V /\ Vary(c, q2) = V
    BY DEF Vary, AllowOriginFunc
  <1>2. /\ DOMAIN key = V
        /\ \A h \in V : key[h] = IF h = "Origin" THEN q1.origin ELSE <<q1.cookie>>
        /\ \A h \in V : key[h] = IF h = "Origin" THEN q2.origin ELSE <<q2.cookie>>
    BY <1>1 DEF Key
  <1>3. q1.origin = q2.origin
    BY <1>2
  <1>4. c.func => q1.cookie = q2.cookie
    <2> SUFFICES ASSUME c.func PROVE q1.cookie = q2.cookie
      OBVIOUS
    <2>1. <<q1.cookie>> = <<q2.cookie>>
      BY <1>2
    <2> QED
      BY <2>1
  <1>5. RequestAllowed(c, q1) <=> RequestAllowed(c, q2)
    BY <1>3, <1>4 DEF RequestAllowed, Granted, AllowOriginFunc
  <1> QED
    BY <1>1, <1>3, <1>5 DEF HandleRequest, AllowOrigin

-----------------------------------------------------------------------------
(* The invariant.                                                          *)

EdgeTypes ==
    /\ setup \in Setups /\ Starts(setup)
    /\ pc \in [setup.pages -> {"idle", "preflight", "send", "done"}]
    /\ fetch \in [setup.pages -> Fetches \cup {None}]
    /\ got \in [setup.pages -> {"nothing", "error", "opaque", "response"}]
    /\ handled = [p \in setup.pages |-> handled[p]]
    /\ begun \in 0..MaxFetches
    /\ \A p \in setup.pages : pc[p] # "idle" => fetch[p] \in Fetches

\* What a request without effect is kept by: its origin and its cookie.
Simple(p, cookie) ==
    [method |-> "GET", cookie |-> cookie,
     origin |-> IF CrossSite(p) THEN Client[p].origin ELSE <<>>]

\* A stored response is what the server answers the requests it is stored for.
Exact(s, e, q) ==
    /\ e.key = Key(Vary(CORSOf(s), q), q)
    /\ e.response.cors = HandleRequest(CORSOf(s), q)
    /\ ~s.privateOnly => e.response.ok

CacheExact ==
    \A e \in cache : \E p \in setup.pages, cookie \in BOOLEAN : Exact(setup, e, Simple(p, cookie))

\* A kept preflight result is one that the server would still give.
PreflightsApproved == \A x \in preflights : Approved(setup, x[3].custom, x[2])

\* A fetch that needs a preflight is sent only with what the server approves of.
FetchesApproved ==
    \A p \in setup.pages :
       /\ pc[p] = "preflight" => NeedsPreflight(p, fetch[p])
       /\ pc[p] = "send" /\ NeedsPreflight(p, fetch[p])
            => Approved(setup, fetch[p].custom, Client[p].public)

EdgeInv ==
    /\ EdgeTypes /\ CacheExact /\ PreflightsApproved /\ FetchesApproved
    /\ NearestUntrusted /\ ReadOnlyIfAllowed /\ AllowedFetchSucceeds /\ UnsafeOnlyIfTrusted

LEMMA EdgeInitInv == Init => EdgeInv
  <1> SUFFICES ASSUME Init PROVE EdgeInv
    OBVIOUS
  <1>1. EdgeTypes
    BY BoundAssumption DEF Init, EdgeTypes
  <1>2. /\ cache = {} /\ preflights = {}
        /\ \A p \in setup.pages : pc[p] = "idle" /\ got[p] = "nothing" /\ handled[p] = None
    BY DEF Init
  <1>3. CacheExact /\ PreflightsApproved /\ FetchesApproved
    BY <1>2 DEF CacheExact, PreflightsApproved, FetchesApproved
  <1>4. NearestUntrusted /\ UnsafeOnlyIfTrusted
    BY <1>2, Zenon DEF NearestUntrusted, UnsafeOnlyIfTrusted
  <1>5. ReadOnlyIfAllowed /\ AllowedFetchSucceeds
    BY <1>2 DEF ReadOnlyIfAllowed, AllowedFetchSucceeds
  <1> QED
    BY <1>1, <1>3, <1>4, <1>5 DEF EdgeInv

\* A step of one page: the set-up stays, and what it fetches but when it starts.
LEMMA StepFacts ==
    ASSUME EdgeTypes, NEW p \in setup.pages
    PROVE  /\ setup \in Setups /\ p \in Pages
           /\ Start(p) => \E f \in Fetches : /\ f \in setup.fetches /\ fetch' = [fetch EXCEPT ![p] = f]
                                             /\ fetch'[p] = f
           /\ Preflight(p) \/ FromServer(p) \/ FromCache(p) => fetch[p] \in Fetches /\ UNCHANGED fetch
           /\ Start(p) \/ Preflight(p) \/ FromServer(p) \/ FromCache(p) => UNCHANGED setup
  <1>1. setup \in Setups /\ p \in Pages /\ setup.fetches \subseteq Fetches
    BY SetupAssumption DEF EdgeTypes
  <1>2. Start(p) => \E f \in Fetches : /\ f \in setup.fetches /\ fetch' = [fetch EXCEPT ![p] = f]
                                       /\ fetch'[p] = f
    BY <1>1 DEF Start, EdgeTypes
  <1>3. Preflight(p) \/ FromServer(p) \/ FromCache(p) => fetch[p] \in Fetches /\ UNCHANGED fetch
    BY DEF Preflight, FromServer, FromCache, EdgeTypes
  <1>4. Start(p) \/ Preflight(p) \/ FromServer(p) \/ FromCache(p) => UNCHANGED setup
    BY DEF Start, Preflight, FromServer, FromCache
  <1> QED
    BY <1>1, <1>2, <1>3, <1>4

\* The handler runs for the page of the request, unless a middleware answers.
LEMMA HandleFacts ==
    ASSUME EdgeTypes, NEW p \in setup.pages, NEW q, NEW addr, Handle(p, q, addr)
    PROVE  /\ handled' = [x \in setup.pages |-> handled'[x]]
           /\ \A x \in setup.pages :
                 \/ handled'[x] = handled[x]
                 \/ /\ x = p /\ ~Denied(q) /\ ~Answered(q) /\ ~Refused(addr)
                    /\ handled'[x] = [method |-> q.method, addr |-> addr]
  <1>1. handled = [x \in setup.pages |-> handled[x]]
    BY DEF EdgeTypes
  <1>2. PICK seen : seen = [method |-> q.method, addr |-> addr]
    OBVIOUS
  <1>3. handled' = IF Denied(q) \/ Answered(q) \/ Refused(addr) THEN handled ELSE [handled EXCEPT ![p] = seen]
    BY <1>2 DEF Handle
  <1> QED
    BY <1>1, <1>2, <1>3

LEMMA TypesStep ==
    ASSUME EdgeTypes, [Next]_vars
    PROVE  EdgeTypes'
  <1>1. CASE UNCHANGED vars
    BY <1>1 DEF EdgeTypes, vars, Starts, Config
  <1>2. CASE Next
    <2>1. PICK p \in setup.pages : Start(p) \/ Preflight(p) \/ FromServer(p) \/ FromCache(p)
      BY <1>2 DEF Next
    <2>2. setup' = setup /\ Starts(setup')
      BY <2>1, StepFacts DEF EdgeTypes
    <2>3. /\ fetch' \in [setup.pages -> Fetches \cup {None}]
          /\ fetch'[p] \in Fetches /\ \A x \in setup.pages : x # p => fetch'[x] = fetch[x]
      <3>1. fetch \in [setup.pages -> Fetches \cup {None}]
        BY DEF EdgeTypes
      <3>2. CASE Start(p)
        BY <3>1, <3>2, StepFacts
      <3>3. CASE Preflight(p) \/ FromServer(p) \/ FromCache(p)
        BY <3>1, <3>3, StepFacts
      <3> QED
        BY <2>1, <3>2, <3>3
    <2>4. /\ pc' \in [setup.pages -> {"idle", "preflight", "send", "done"}]
          /\ \A x \in setup.pages : x # p => pc'[x] = pc[x]
      BY <2>1 DEF Start, Preflight, FromServer, FromCache, EdgeTypes
    <2>5. got' \in [setup.pages -> {"nothing", "error", "opaque", "response"}]
      <3>1. got \in [setup.pages -> {"nothing", "error", "opaque", "response"}]
        BY DEF EdgeTypes
      <3>2. \A r : Readable(p, r) \in {"error", "opaque", "response"}
        BY DEF Readable
      <3>3. got' = got \/ \E g \in {"nothing", "error", "opaque", "response"} : got' = [got EXCEPT ![p] = g]
        BY <2>1, <3>2 DEF Start, Preflight, FromServer, FromCache
      <3> QED
        BY <3>1, <3>3
    <2>6. handled' = [x \in setup.pages |-> handled'[x]]
      <3>1. CASE Start(p)
        BY <3>1, Zenon DEF Start, EdgeTypes
      <3>2. CASE Preflight(p)
        BY <3>2, HandleFacts DEF Preflight
      <3>3. CASE FromServer(p)
        BY <3>3, HandleFacts DEF FromServer
      <3>4. CASE FromCache(p)
        BY <3>4 DEF FromCache, EdgeTypes
      <3> QED
        BY <2>1, <3>1, <3>2, <3>3, <3>4
    <2>7. begun' \in 0..MaxFetches
      BY <2>1, BoundAssumption DEF Start, Preflight, FromServer, FromCache, EdgeTypes
    <2>8. \A x \in setup.pages : pc'[x] # "idle" => fetch'[x] \in Fetches
      BY <2>3, <2>4 DEF EdgeTypes
    <2> QED
      BY <2>2, <2>3, <2>4, <2>5, <2>6, <2>7, <2>8 DEF EdgeTypes
  <1> QED
    BY <1>1, <1>2

\* What the handler sees: by an action of its own for each of the two kinds of
\* requests, and nothing else.
LEMMA HandledStep ==
    ASSUME EdgeTypes, NEW p \in setup.pages, Start(p) \/ Preflight(p) \/ FromServer(p) \/ FromCache(p),
           NEW x \in setup.pages
    PROVE  \/ handled'[x] = handled[x] \/ handled'[x] = None
           \/ \E q, addr : /\ x = p /\ ~Denied(q) /\ ~Answered(q) /\ ~Refused(addr)
                           /\ addr = Addr(Last(Addrs(p)), Headers(p))
                           /\ handled'[x] = [method |-> q.method, addr |-> addr]
                           /\ \/ q = PreflightRequest(p)
                              \/ q = Request(p, fetch[p].method) /\ fetch[p] \in Fetches
  <1>1. CASE Start(p)
    <2>1. handled = [y \in setup.pages |-> handled[y]] /\ handled' = [handled EXCEPT ![p] = None]
      BY <1>1 DEF Start, EdgeTypes
    <2> QED
      BY <2>1, Zenon
  <1>2. CASE Preflight(p)
    <2>1. PICK q, addr : /\ q = PreflightRequest(p) /\ addr = Addr(Last(Addrs(p)), Headers(p))
                         /\ Handle(p, q, addr)
      BY <1>2 DEF Preflight
    <2>2. \/ handled'[x] = handled[x]
         \/ /\ x = p /\ ~Denied(q) /\ ~Answered(q) /\ ~Refused(addr)
            /\ handled'[x] = [method |-> q.method, addr |-> addr]
      BY <2>1, HandleFacts
    <2> QED
      BY <2>1, <2>2, Zenon
  <1>3. CASE FromServer(p)
    <2>1. PICK q, addr : /\ q = Request(p, fetch[p].method) /\ addr = Addr(Last(Addrs(p)), Headers(p))
                         /\ Handle(p, q, addr)
      BY <1>3 DEF FromServer
    <2>2. fetch[p] \in Fetches
      BY <1>3, StepFacts
    <2>3. \/ handled'[x] = handled[x]
         \/ /\ x = p /\ ~Denied(q) /\ ~Answered(q) /\ ~Refused(addr)
            /\ handled'[x] = [method |-> q.method, addr |-> addr]
      BY <2>1, HandleFacts
    <2> QED
      BY <2>1, <2>2, <2>3, Zenon
  <1>4. CASE FromCache(p)
    BY <1>4 DEF FromCache
  <1> QED
    BY <1>1, <1>2, <1>3, <1>4

LEMMA NearestStep ==
    ASSUME EdgeTypes, NearestUntrusted, [Next]_vars
    PROVE  NearestUntrusted'
  <1> DEFINE Sees(s, h, x) == /\ h.addr \in {Nearest(s, x), Last(Addrs(x))}
                              /\ Told(s, x) => /\ h.addr = Nearest(s, x)
                                               /\ s.privateOnly => Nearest(s, x) \in Private
             Found(h) == h # None
  <1>1. NearestUntrusted <=> \A x \in setup.pages : Found(handled[x]) => Sees(setup, handled[x], x)
    BY Zenon DEF NearestUntrusted
  <1>2. ASSUME setup' = setup
        PROVE  NearestUntrusted' <=>
                 \A x \in setup.pages : Found(handled'[x]) => Sees(setup, handled'[x], x)
    <2>1. \A x : Told(setup', x) <=> Told(setup, x)
      BY <1>2
    <2>2. \A x : Nearest(setup', x) = Nearest(setup, x)
      BY <1>2
    <2> QED
      BY <1>2, <2>1, <2>2, Zenon DEF NearestUntrusted
  <1>3. CASE UNCHANGED vars
    <2>1. setup' = setup /\ handled' = handled
      BY <1>3 DEF vars
    <2> HIDE DEF Sees, Found
    <2> QED
      BY <1>1, <1>2, <2>1, Zenon
  <1>4. CASE Next
    <2>1. PICK p \in setup.pages : Start(p) \/ Preflight(p) \/ FromServer(p) \/ FromCache(p)
      BY <1>4 DEF Next
    <2>2. setup' = setup
      BY <2>1, StepFacts
    <2>3. ASSUME NEW x \in setup.pages, Found(handled'[x]) PROVE Sees(setup, handled'[x], x)
      <3>1. CASE handled'[x] = handled[x]
        <4> HIDE DEF Sees, Found
        <4> QED
          BY <1>1, <2>3, <3>1, Zenon
      <3>2. CASE handled'[x] # handled[x]
        <4>1. PICK q, addr : /\ x = p /\ ~Refused(addr)
                             /\ addr = Addr(Last(Addrs(p)), Headers(p))
                             /\ handled'[x] = [method |-> q.method, addr |-> addr]
          <5> HIDE DEF Sees
          <5>1. \E q, addr : /\ x = p /\ ~Denied(q) /\ ~Answered(q) /\ ~Refused(addr)
                             /\ addr = Addr(Last(Addrs(p)), Headers(p))
                             /\ handled'[x] = [method |-> q.method, addr |-> addr]
                             /\ \/ q = PreflightRequest(p)
                                \/ q = Request(p, fetch[p].method) /\ fetch[p] \in Fetches
            BY <2>1, <2>3, <3>2, HandledStep
          <5> QED
            BY <5>1, Zenon
        <4>2. addr = Nearest(setup, x) \/ (addr = Last(Addrs(x)) /\ ~Told(setup, x))
          BY <2>3, <4>1, AddressFacts DEF Addr, EdgeTypes
        <4>3. handled'[x].addr = addr
          BY <4>1
        <4>4. setup.privateOnly => addr \in Private
          BY <4>1 DEF Refused
        <4> QED
          BY <4>2, <4>3, <4>4
      <3> QED
        BY <3>1, <3>2
    <2> HIDE DEF Sees, Found
    <2> QED
      BY <1>2, <2>2, <2>3, Zenon
  <1> QED
    BY <1>3, <1>4

LEMMA UnsafeStep ==
    ASSUME EdgeTypes, UnsafeOnlyIfTrusted, [Next]_vars
    PROVE  UnsafeOnlyIfTrusted'
  <1> DEFINE Runs(h) == setup.protect /\ h # None /\ h.method \in {"POST", "PUT"}
  <1>1. UnsafeOnlyIfTrusted <=> \A x \in setup.pages : Runs(handled[x]) => FromOwnOrTrusted(x)
    BY DEF UnsafeOnlyIfTrusted, FromOwnOrTrusted
  <1>2. ASSUME setup' = setup
        PROVE  UnsafeOnlyIfTrusted' <=> \A x \in setup.pages : Runs(handled'[x]) => FromOwnOrTrusted(x)
    <2>1. \A x : Named(x)' <=> Named(x)
      BY <1>2 DEF Named
    <2>2. \A x : CrossSite(x)' <=> CrossSite(x)
      BY DEF CrossSite
    <2> HIDE DEF Runs
    <2>3. \A x : Runs(handled[x])' <=> Runs(handled'[x])
      BY <1>2 DEF Runs
    <2> QED
      BY <1>2, <2>1, <2>2, <2>3 DEF UnsafeOnlyIfTrusted, FromOwnOrTrusted, Runs
  <1>3. CASE UNCHANGED vars
    <2>1. setup' = setup /\ handled' = handled
      BY <1>3 DEF vars
    <2> HIDE DEF Runs
    <2> QED
      BY <1>1, <1>2, <2>1, Zenon
  <1>4. CASE Next
    <2>1. PICK p \in setup.pages : Start(p) \/ Preflight(p) \/ FromServer(p) \/ FromCache(p)
      BY <1>4 DEF Next
    <2>2. setup' = setup /\ setup \in Setups
      BY <2>1, StepFacts
    <2>3. ASSUME NEW x \in setup.pages, Runs(handled'[x]) PROVE FromOwnOrTrusted(x)
      <3>1. CASE handled'[x] = handled[x]
        <4> HIDE DEF Runs
        <4> QED
          BY <1>1, <2>3, <3>1, Zenon
      <3>2. CASE handled'[x] # handled[x]
        <4>1. PICK q, addr : /\ x = p /\ ~Denied(q)
                             /\ handled'[x] = [method |-> q.method, addr |-> addr]
                             /\ \/ q = PreflightRequest(p)
                                \/ q = Request(p, fetch[p].method) /\ fetch[p] \in Fetches
          BY <2>1, <2>3, <3>2, HandledStep, Zenon
        <4>2. handled'[x].method = q.method
          BY <4>1
        <4>3. setup.protect /\ q.method \in {"POST", "PUT"}
          BY <2>3, <4>2
        <4>4. q # PreflightRequest(p)
          <5>1. PreflightRequest(p).method = "OPTIONS"
            BY DEF PreflightRequest, Request
          <5> QED
            BY <4>3, <5>1
        <4> QED
          BY <2>2, <4>1, <4>3, <4>4, DeniedFacts
      <3> QED
        BY <3>1, <3>2
    <2> HIDE DEF Runs
    <2> QED
      BY <1>2, <2>2, <2>3, Zenon
  <1> QED
    BY <1>3, <1>4

LEMMA PreflightsStep ==
    ASSUME EdgeTypes, PreflightsApproved, FetchesApproved, [Next]_vars
    PROVE  PreflightsApproved' /\ FetchesApproved'
  <1> DEFINE May(x, f) == Approved(setup, f.custom, Client[x].public)
             Fine(x, at, f) == /\ at = "preflight" => NeedsPreflight(x, f)
                               /\ at = "send" /\ NeedsPreflight(x, f) => May(x, f)
  <1>1. /\ \A x \in preflights : Approved(setup, x[3].custom, x[2])
        /\ \A x \in setup.pages : Fine(x, pc[x], fetch[x])
    BY DEF PreflightsApproved, FetchesApproved
  <1>2. ASSUME setup' = setup, \A x \in preflights' : Approved(setup, x[3].custom, x[2]),
               \A x \in setup.pages : Fine(x, pc'[x], fetch'[x])
        PROVE  PreflightsApproved' /\ FetchesApproved'
    BY <1>2 DEF PreflightsApproved, FetchesApproved
  <1>3. \A x, f : Result(x, f)[2] = Client[x].public /\ Result(x, f)[3] = f
    BY DEF Result
  <1>4. CASE UNCHANGED vars
    <2>1. setup' = setup /\ preflights' = preflights /\ pc' = pc /\ fetch' = fetch
      BY <1>4 DEF vars
    <2> HIDE DEF Fine
    <2> QED
      BY <1>1, <1>2, <2>1
  <1>5. CASE Next
    <2>1. PICK p \in setup.pages : Start(p) \/ Preflight(p) \/ FromServer(p) \/ FromCache(p)
      BY <1>5 DEF Next
    <2>2. setup' = setup /\ setup \in Setups
      BY <2>1, StepFacts
    <2>3. CASE Start(p)
      <3>1. PICK f \in setup.fetches :
               /\ fetch' = [fetch EXCEPT ![p] = f]
               /\ \/ NeedsPreflight(p, f) /\ pc' = [pc EXCEPT ![p] = "preflight"]
                  \/ /\ NeedsPreflight(p, f) => Result(p, f) \in preflights
                     /\ pc' = [pc EXCEPT ![p] = "send"]
        BY <2>3 DEF Start
      <3>2. NeedsPreflight(p, f) /\ Result(p, f) \in preflights => May(p, f)
        BY <1>1, <1>3
      <3>3. preflights' = preflights
        BY <2>3 DEF Start
      <3>4. /\ fetch'[p] = f /\ \A x \in setup.pages : x # p => fetch'[x] = fetch[x] /\ pc'[x] = pc[x]
            /\ \/ pc'[p] = "preflight" /\ NeedsPreflight(p, f)
               \/ pc'[p] = "send" /\ (NeedsPreflight(p, f) => Result(p, f) \in preflights)
        BY <3>1 DEF EdgeTypes
      <3>5. Fine(p, pc'[p], fetch'[p])
        BY <3>2, <3>4
      <3> HIDE DEF Fine, May
      <3>6. \A x \in setup.pages : Fine(x, pc'[x], fetch'[x])
        BY <1>1, <3>4, <3>5
      <3> QED
        BY <1>1, <1>2, <2>2, <3>3, <3>6
    <2>4. CASE Preflight(p)
      <3>1. PICK r : /\ \E addr : r = Response(PreflightRequest(p), addr)
                     /\ IF r.ok /\ Cleared(p, r.cors)
                          THEN /\ pc' = [pc EXCEPT ![p] = "send"]
                               /\ preflights' = IF r.cors.store
                                                  THEN preflights \cup {Result(p, fetch[p])}
                                                  ELSE preflights
                          ELSE pc' = [pc EXCEPT ![p] = "done"] /\ UNCHANGED preflights
        BY <2>4 DEF Preflight
      <3>2. fetch[p] \in Fetches /\ fetch' = fetch /\ pc[p] = "preflight" /\ NeedsPreflight(p, fetch[p])
        BY <1>1, <2>4, StepFacts DEF Preflight
      <3>3. r.ok /\ Cleared(p, r.cors) => May(p, fetch[p])
        <4> SUFFICES ASSUME r.ok, Cleared(p, r.cors) PROVE May(p, fetch[p])
          OBVIOUS
        <4>1. IsPreflight(PreflightRequest(p)) /\ ~Denied(PreflightRequest(p))
          BY <3>2 DEF IsPreflight, PreflightRequest, Request, Fetches, Denied, CrossOriginCheck
        <4>2. r.cors = HandlePreflight(CORSOf(setup), PreflightRequest(p))
          BY <3>1, <4>1 DEF Response
        <4> QED
          BY <2>2, <3>2, <4>2, HandlePreflightFacts DEF NeedsPreflight
      <3>4. \A x \in preflights' : Approved(setup, x[3].custom, x[2])
        BY <1>1, <1>3, <3>1, <3>3
      <3>5. /\ \A x \in setup.pages : x # p => pc'[x] = pc[x]
            /\ pc'[p] = "done" \/ (pc'[p] = "send" /\ May(p, fetch[p]))
        <4>1. pc' = [pc EXCEPT ![p] = "done"] \/ (pc' = [pc EXCEPT ![p] = "send"] /\ May(p, fetch[p]))
          <5> HIDE DEF May
          <5>1. CASE r.ok /\ Cleared(p, r.cors)
            BY <3>1, <3>3, <5>1
          <5>2. CASE ~(r.ok /\ Cleared(p, r.cors))
            BY <3>1, <5>2, Zenon
          <5> QED
            BY <5>1, <5>2
        <4> QED
          BY <4>1 DEF EdgeTypes
      <3>6. Fine(p, pc'[p], fetch'[p])
        BY <3>2, <3>5
      <3> HIDE DEF Fine, May
      <3>7. \A x \in setup.pages : Fine(x, pc'[x], fetch'[x])
        BY <1>1, <3>2, <3>5, <3>6
      <3> QED
        BY <1>2, <2>2, <3>4, <3>7
    <2>5. CASE FromServer(p) \/ FromCache(p)
      <3>1. fetch' = fetch /\ preflights' = preflights /\ pc' = [pc EXCEPT ![p] = "done"]
        BY <2>5 DEF FromServer, FromCache
      <3>2. pc'[p] = "done" /\ \A x \in setup.pages : x # p => pc'[x] = pc[x]
        BY <3>1 DEF EdgeTypes
      <3>3. Fine(p, pc'[p], fetch'[p])
        BY <3>2
      <3> HIDE DEF Fine, May
      <3>4. \A x \in setup.pages : Fine(x, pc'[x], fetch'[x])
        BY <1>1, <3>1, <3>2, <3>3
      <3> QED
        BY <1>1, <1>2, <2>2, <3>1, <3>4
    <2> QED
      BY <2>1, <2>3, <2>4, <2>5
  <1> QED
    BY <1>4, <1>5

\* What the fields of a safe request without a page's cookie are.
LEMMA SimpleFacts ==
    ASSUME NEW p \in Pages, fetch[p] \in Fetches, fetch[p].method = "GET", NEW c
    PROVE  /\ Simple(p, fetch[p].cookie).method = "GET"
           /\ Simple(p, fetch[p].cookie).origin = Request(p, "GET").origin
           /\ Simple(p, fetch[p].cookie).cookie = Request(p, "GET").cookie
           /\ \A V : Key(V, Simple(p, fetch[p].cookie)) = Key(V, Request(p, "GET"))
           /\ Vary(c, Simple(p, fetch[p].cookie)) = Vary(c, Request(p, "GET"))
           /\ HandleRequest(c, Simple(p, fetch[p].cookie)) = HandleRequest(c, Request(p, "GET"))
  <1>1. PICK q1, q2 : q1 = Simple(p, fetch[p].cookie) /\ q2 = Request(p, "GET")
    OBVIOUS
  <1>2. /\ q2.method = "GET" /\ q2.cookie = fetch[p].cookie
        /\ CrossSite(p) => q2.origin = Client[p].origin
        /\ ~CrossSite(p) => q2.origin = <<>>
    BY <1>1, RequestFacts
  <1>3. q1.method = q2.method /\ q1.origin = q2.origin /\ q1.cookie = q2.cookie
    BY <1>1, <1>2 DEF Simple
  <1>4. \A V : Key(V, q1) = Key(V, q2)
    BY <1>3 DEF Key
  <1>5. Vary(c, q1) = Vary(c, q2)
    BY <1>3 DEF Vary, AllowOriginFunc
  <1>6. RequestAllowed(c, q1) <=> RequestAllowed(c, q2)
    BY <1>3 DEF RequestAllowed, Granted, AllowOriginFunc
  <1>7. HandleRequest(c, q1) = HandleRequest(c, q2)
    BY <1>3, <1>5, <1>6 DEF HandleRequest, AllowOrigin
  <1> QED
    BY <1>1, <1>2, <1>3, <1>4, <1>5, <1>7

\* Every answer tells what it varies by.
LEMMA VaryFacts ==
    ASSUME NEW c, NEW q
    PROVE  HandleRequest(c, q).vary = Vary(c, q)
  BY DEF HandleRequest, NoHeaders

LEMMA CacheStep ==
    ASSUME EdgeTypes, CacheExact, [Next]_vars
    PROVE  CacheExact'
  <1>1. ASSUME setup' = setup,
               \A e \in cache' : \E x \in setup.pages, cookie \in BOOLEAN : Exact(setup, e, Simple(x, cookie))
        PROVE  CacheExact'
    BY <1>1 DEF CacheExact
  <1>2. CASE UNCHANGED vars
    BY <1>1, <1>2 DEF CacheExact, vars
  <1>3. CASE Next
    <2>1. PICK p \in setup.pages : Start(p) \/ Preflight(p) \/ FromServer(p) \/ FromCache(p)
      BY <1>3 DEF Next
    <2>2. setup' = setup /\ setup \in Setups /\ p \in Pages
      BY <2>1, StepFacts
    <2>3. CASE Start(p) \/ Preflight(p) \/ FromCache(p)
      <3>1. cache' = cache
        BY <2>3 DEF Start, Preflight, FromCache
      <3> QED
        BY <1>1, <2>2, <3>1 DEF CacheExact
    <2>4. CASE FromServer(p)
      <3>1. PICK q, r, addr :
               /\ q = Request(p, fetch[p].method) /\ r = Response(q, addr)
               /\ cache' = IF setup.cached /\ q.method = "GET"
                             THEN cache \cup {[key |-> Key(r.cors.vary, q), response |-> r]}
                             ELSE cache
        BY <2>4 DEF FromServer
      <3>2. fetch[p] \in Fetches
        BY <2>4, StepFacts
      <3>3. CASE cache' = cache
        BY <1>1, <2>2, <3>3 DEF CacheExact
      <3>4. CASE cache' # cache
        <4>1. PICK e : e = [key |-> Key(r.cors.vary, q), response |-> r]
          OBVIOUS
        <4>2. q.method = "GET" /\ cache' = cache \cup {e}
          BY <3>1, <3>4, <4>1
        <4>3. q = Request(p, "GET") /\ fetch[p].method = "GET" /\ fetch[p].cookie \in BOOLEAN
          BY <2>2, <3>1, <3>2, <4>2, RequestFacts
        <4>4. r.cors = HandleRequest(CORSOf(setup), q) /\ (~setup.privateOnly => r.ok)
          BY <2>2, <3>1, <3>2, <4>2, ResponseFacts
        <4>5. e.key = Key(Vary(CORSOf(setup), q), q) /\ e.response = r
          BY <4>1, <4>4, VaryFacts
        <4>6. Exact(setup, e, Simple(p, fetch[p].cookie))
          BY <2>2, <3>2, <4>3, <4>4, <4>5, SimpleFacts DEF Exact
        <4> QED
          BY <1>1, <2>2, <4>2, <4>3, <4>6 DEF CacheExact
      <3> QED
        BY <3>3, <3>4
    <2> QED
      BY <2>1, <2>3, <2>4
  <1> QED
    BY <1>2, <1>3

\* A response from the cache is what the server would answer.
LEMMA CacheFacts ==
    ASSUME EdgeTypes, CacheExact, NEW p \in setup.pages, fetch[p] \in Fetches, fetch[p].method = "GET",
           NEW e \in cache, e.key = Key(DOMAIN e.key, Request(p, "GET"))
    PROVE  /\ e.response.cors = HandleRequest(CORSOf(setup), Request(p, "GET"))
           /\ ~setup.privateOnly => e.response.ok
  <1>1. PICK x \in setup.pages, cookie \in BOOLEAN : Exact(setup, e, Simple(x, cookie))
    BY DEF CacheExact
  <1>2. PICK q, c : q = Simple(x, cookie) /\ c = CORSOf(setup)
    OBVIOUS
  <1>3. /\ e.key = Key(Vary(c, q), q) /\ e.response.cors = HandleRequest(c, q)
        /\ ~setup.privateOnly => e.response.ok
    BY <1>1, <1>2 DEF Exact
  <1>4. q.method = "GET" /\ Request(p, "GET").method = "GET"
    BY <1>2 DEF Simple, Request
  <1> QED
    BY <1>2, <1>3, <1>4, KeyFacts

\* What a fetch gets, from the server or from the cache.
LEMMA GotFacts ==
    ASSUME EdgeTypes, CacheExact, FetchesApproved, NEW p \in setup.pages, FromServer(p) \/ FromCache(p)
    PROVE  /\ got'[p] \in {"response", "error"} => Permitted(p)
           /\ Welcome(p) => got'[p] = "response"
           /\ \A x \in setup.pages : x # p => got'[x] = got[x]
  <1>1. setup \in Setups /\ p \in Pages /\ fetch[p] \in Fetches /\ pc[p] = "send"
    BY StepFacts DEF FromServer, FromCache
  <1>2. PICK r : /\ got' = [got EXCEPT ![p] = Readable(p, r)]
                 /\ Readable(p, r) \in {"response", "error"} /\ CrossSite(p)
                      => OriginMay(p) /\ fetch[p].method \in CORSOf(setup).methods
                 /\ Welcome(p) => Readable(p, r) = "response"
    <2>1. CASE FromServer(p)
      <3>1. PICK q, r, addr : /\ q = Request(p, fetch[p].method) /\ r = Response(q, addr)
                              /\ got' = [got EXCEPT ![p] = Readable(p, r)]
        BY <2>1 DEF FromServer
      <3>2. /\ Readable(p, r) \in {"response", "error"} /\ CrossSite(p)
                 => OriginMay(p) /\ fetch[p].method \in CORSOf(setup).methods
            /\ Welcome(p) => Readable(p, r) = "response"
        BY <1>1, <3>1, ResponseFacts
      <3> QED
        BY <3>1, <3>2
    <2>2. CASE FromCache(p)
      <3>1. PICK e \in cache : /\ e.key = Key(DOMAIN e.key, Request(p, "GET"))
                               /\ got' = [got EXCEPT ![p] = Readable(p, e.response)]
        BY <2>2 DEF FromCache
      <3>2. fetch[p].method = "GET"
        BY <2>2 DEF FromCache
      <3>3. PICK r : r = e.response
        OBVIOUS
      <3>4. r.cors = HandleRequest(CORSOf(setup), Request(p, "GET")) /\ (~setup.privateOnly => r.ok)
        BY <1>1, <3>1, <3>2, <3>3, CacheFacts
      <3>5. /\ Readable(p, r) \in {"response", "error"} /\ CrossSite(p)
                 => OriginMay(p) /\ fetch[p].method \in CORSOf(setup).methods
            /\ Welcome(p) /\ r.ok => Readable(p, r) = "response"
        BY <1>1, <3>2, <3>4, ReadableFacts
      <3>6. Welcome(p) => ~setup.privateOnly
        BY DEF Welcome
      <3> QED
        BY <3>1, <3>3, <3>4, <3>5, <3>6
    <2> QED
      BY <2>1, <2>2
  <1>3. /\ got'[p] = Readable(p, r) /\ \A x \in setup.pages : x # p => got'[x] = got[x]
    BY <1>2 DEF EdgeTypes
  <1>4. ASSUME got'[p] \in {"response", "error"}, CrossSite(p) PROVE Allowed(p)
    <2>1. OriginMay(p) /\ fetch[p].method \in CORSOf(setup).methods
      BY <1>2, <1>3, <1>4
    <2>2. NeedsPreflight(p, fetch[p]) => Approved(setup, fetch[p].custom, Client[p].public)
      BY <1>1 DEF FetchesApproved
    <2>3. fetch[p].custom \/ Client[p].public => NeedsPreflight(p, fetch[p])
      BY <1>4 DEF NeedsPreflight
    <2>4. Approved(setup, fetch[p].custom, Client[p].public)
      BY <2>2, <2>3 DEF Approved
    <2> QED
      BY <2>1, <2>4 DEF Allowed, OriginMay, Approved
  <1> QED
    BY <1>2, <1>3, <1>4 DEF Permitted

\* Whether a page's fetch is permitted and welcome is up to the page, the fetch and
\* the set-up.
LEMMA SameFetch ==
    ASSUME NEW x, setup' = setup, fetch'[x] = fetch[x]
    PROVE  Permitted(x)' = Permitted(x) /\ Welcome(x)' = Welcome(x)
  BY DEF Permitted, Allowed, Welcome, CORSOf, CrossSite

LEMMA ReadStep ==
    ASSUME EdgeTypes, CacheExact, FetchesApproved, ReadOnlyIfAllowed, [Next]_vars
    PROVE  ReadOnlyIfAllowed'
  <1>1. CASE UNCHANGED vars
    BY <1>1, SameFetch DEF ReadOnlyIfAllowed, vars
  <1>2. CASE Next
    <2>1. PICK p \in setup.pages : Start(p) \/ Preflight(p) \/ FromServer(p) \/ FromCache(p)
      BY <1>2 DEF Next
    <2>2. setup' = setup
      BY <2>1, StepFacts
    <2> SUFFICES ASSUME NEW x \in setup.pages, got'[x] \in {"response", "error"} PROVE Permitted(x)'
      BY <2>2 DEF ReadOnlyIfAllowed
    <2>3. CASE Start(p)
      <3>1. /\ fetch \in [setup.pages -> Fetches \cup {None}] /\ got' = [got EXCEPT ![p] = "nothing"]
            /\ got \in [setup.pages -> {"nothing", "error", "opaque", "response"}]
            /\ \E f : fetch' = [fetch EXCEPT ![p] = f]
        BY <2>3 DEF EdgeTypes, Start
      <3>2. x # p /\ got'[x] = got[x] /\ fetch'[x] = fetch[x]
        BY <3>1
      <3> QED
        BY <2>2, <3>2, SameFetch DEF ReadOnlyIfAllowed
    <2>4. CASE Preflight(p)
      <3>1. got' = got \/ got' = [got EXCEPT ![p] = "opaque"]
        BY <2>4 DEF Preflight
      <3>2. got'[x] = got[x] /\ fetch'[x] = fetch[x]
        BY <2>4, <3>1, StepFacts DEF EdgeTypes
      <3> QED
        BY <2>2, <3>2, SameFetch DEF ReadOnlyIfAllowed
    <2>5. CASE FromServer(p) \/ FromCache(p)
      <3>1. fetch'[x] = fetch[x] /\ (x # p => got'[x] = got[x]) /\ (x = p => Permitted(x))
        BY <2>5, StepFacts, GotFacts
      <3> QED
        BY <2>2, <3>1, SameFetch DEF ReadOnlyIfAllowed
    <2> QED
      BY <2>1, <2>3, <2>4, <2>5
  <1> QED
    BY <1>1, <1>2

\* A welcome fetch is not stopped by its preflight.
LEMMA PreflightSucceeds ==
    ASSUME EdgeTypes, FetchesApproved, NEW p \in setup.pages, Preflight(p), Welcome(p)
    PROVE  pc'[p] = "send"
  <1>1. /\ setup \in Setups /\ fetch[p] \in Fetches /\ pc[p] = "preflight"
        /\ NeedsPreflight(p, fetch[p])
    BY StepFacts DEF Preflight, FetchesApproved
  <1>2. PICK q, addr, r : /\ q = PreflightRequest(p) /\ r = Response(q, addr)
                          /\ r.ok /\ Cleared(p, r.cors) => pc' = [pc EXCEPT ![p] = "send"]
    BY DEF Preflight
  <1>3. q.method = "OPTIONS" /\ IsPreflight(q)
    BY <1>1, <1>2 DEF IsPreflight, PreflightRequest, Request, Fetches
  <1>4. ~Denied(q) /\ ~Refused(addr)
    BY <1>3 DEF Denied, CrossOriginCheck, Refused, Welcome
  <1>5. r.ok /\ r.cors = HandlePreflight(CORSOf(setup), q)
    BY <1>2, <1>3, <1>4 DEF Response
  <1>6. CrossSite(p) /\ Allowed(p)
    BY <1>1 DEF NeedsPreflight, Welcome, Permitted
  <1>7. Cleared(p, r.cors)
    BY <1>1, <1>2, <1>5, <1>6, HandlePreflightFacts
  <1> QED
    BY <1>2, <1>5, <1>7 DEF EdgeTypes

LEMMA SucceedsStep ==
    ASSUME EdgeTypes, CacheExact, FetchesApproved, AllowedFetchSucceeds, [Next]_vars
    PROVE  AllowedFetchSucceeds'
  <1>1. CASE UNCHANGED vars
    BY <1>1, SameFetch DEF AllowedFetchSucceeds, vars
  <1>2. CASE Next
    <2>1. PICK p \in setup.pages : Start(p) \/ Preflight(p) \/ FromServer(p) \/ FromCache(p)
      BY <1>2 DEF Next
    <2>2. setup' = setup
      BY <2>1, StepFacts
    <2> SUFFICES ASSUME NEW x \in setup.pages, pc'[x] = "done", Welcome(x)' PROVE got'[x] = "response"
      BY <2>2 DEF AllowedFetchSucceeds
    <2>3. CASE x = p
      <3>1. ~Start(p)
        <4>1. Start(p) => pc' = [pc EXCEPT ![p] = "preflight"] \/ pc' = [pc EXCEPT ![p] = "send"]
          BY DEF Start
        <4> QED
          BY <2>3, <4>1 DEF EdgeTypes
      <3>2. Welcome(p)
        BY <2>1, <2>2, <2>3, <3>1, StepFacts, SameFetch
      <3>3. ~Preflight(p)
        BY <2>3, <3>2, PreflightSucceeds
      <3> QED
        BY <2>1, <2>3, <3>1, <3>2, <3>3, GotFacts
    <2>4. CASE x # p
      <3>1. /\ \E f : fetch' = [fetch EXCEPT ![p] = f] \/ fetch' = fetch
            /\ \E g : got' = [got EXCEPT ![p] = g] \/ got' = got
            /\ \E at : pc' = [pc EXCEPT ![p] = at]
        BY <2>1 DEF Start, Preflight, FromServer, FromCache
      <3>2. fetch'[x] = fetch[x] /\ got'[x] = got[x] /\ pc'[x] = pc[x]
        BY <2>4, <3>1 DEF EdgeTypes
      <3> QED
        BY <2>2, <3>2, SameFetch DEF AllowedFetchSucceeds
    <2> QED
      BY <2>3, <2>4
  <1> QED
    BY <1>1, <1>2

-----------------------------------------------------------------------------
(* The theorems.                                                           *)

\* Every state that the pages, the proxies, the cache and the server reach has the
\* invariant.
THEOREM EdgeInvariance == Spec => []EdgeInv
  <1>1. Init => EdgeInv
    BY EdgeInitInv
  <1>2. EdgeInv /\ [Next]_vars => EdgeInv'
    BY TypesStep, CacheStep, PreflightsStep, NearestStep, ReadStep, SucceedsStep, UnsafeStep DEF EdgeInv
  <1> QED
    BY <1>1, <1>2, PTL DEF Spec

\* UseRealIP: whatever the clients claim and whatever headers the proxies set, the
\* handler sees the nearest address that is not a trusted proxy's or that of the
\* connection; the former always if the claims are addresses, or if a header that a
\* proxy has set tells.
THEOREM AddressIsNearestUntrusted == Spec => []NearestUntrusted
  <1>1. EdgeInv => NearestUntrusted
    BY DEF EdgeInv
  <1> QED
    BY <1>1, EdgeInvariance, PTL

\* UseCrossOriginResourceSharing: a script of another origin reads only what the
\* owner of the server allows it, also from the cache or by a kept preflight.
THEOREM ReadsAreAllowed == Spec => []ReadOnlyIfAllowed
  <1>1. EdgeInv => ReadOnlyIfAllowed
    BY DEF EdgeInv
  <1> QED
    BY <1>1, EdgeInvariance, PTL

\* And it does read what the owner allows it, whatever the cache has kept: the
\* responses vary by all that decides them.
THEOREM AllowedIsRead == Spec => []AllowedFetchSucceeds
  <1>1. EdgeInv => AllowedFetchSucceeds
    BY DEF EdgeInv
  <1> QED
    BY <1>1, EdgeInvariance, PTL

\* UseCrossOriginProtection: no unsafe method runs for a page of another site that
\* no rule names, but for a page of the server's host in an old browser.
THEOREM UnsafeIsTrusted == Spec => []UnsafeOnlyIfTrusted
  <1>1. EdgeInv => UnsafeOnlyIfTrusted
    BY DEF EdgeInv
  <1> QED
    BY <1>1, EdgeInvariance, PTL

\* Edge's variables have their types.
THEOREM EdgeTypeCorrect == Spec => []TypeOK
  <1>1. EdgeInv => TypeOK
    BY DEF EdgeInv, EdgeTypes, TypeOK
  <1> QED
    BY <1>1, EdgeInvariance, PTL

=============================================================================
