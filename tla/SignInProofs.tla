---------------------------- MODULE SignInProofs ----------------------------
(***************************************************************************)
(* Proofs about SignIn, for any number of tabs, any targets and any users: *)
(* what is stored in one tab and used in another, in any order.            *)
(***************************************************************************)
EXTENDS SignIn, TLAPS

Addresses == Target \cup {Provider}
Sessions == [auth : Users \cup {None}, begun : Tabs \cup {None}]
Stored == {AsCookie(t) : t \in Targets} \cup {None}
Answered ==
    [next : Stored \cup {Keep}, session : Sessions \cup {Keep}, ident : Users \cup {None},
     to : Addresses \cup {None}, via : {"target", "refused", "cookie", "stay"},
     q : Targets \cup {None}, wanted : Targets \cup {None}]

\* The types of all variables, the records in full.
Types ==
    /\ jar \in [next : Stored, session : Sessions]
    /\ answer \in [Tabs -> Answered \cup {None}]
    /\ where \in [Tabs -> Addresses]
    /\ signed \subseteq Users /\ asked \in Targets \cup {None}
    /\ spent \in {"no", "target", "cookie"}

\* An address of this site.
Ours(p) == p.host \in {"none", "own"} /\ (TLS => p.scheme # "http")
Relative(p) == p.scheme = "none" /\ p.host = "none"

WhereInv == \A t \in Tabs : where[t] = Provider \/ Ours(where[t])

\* The cookie is the last target the browser has asked for.
JarInv == jar.next # None => asked # None /\ jar.next = AsCookie(asked)

\* A followed target that is still in the jar is relative.
SpentInv == spent # "no" => spent = "target" /\ jar.next # None /\ Relative(jar.next)

\* What a response on its way says.
AnswerOf(a) ==
    /\ a.to # None => a.to = Provider \/ Ours(a.to)
    /\ a.via \in {"target", "cookie"} => a.to # None
    /\ a.via = "cookie" => a.next = None /\ a.to = SecureRedirect(AsCookie(a.wanted)).to
    /\ a.via = "target" => a.next = None \/ Relative(a.to)
    /\ a.next # None => a.next = IF a.q = None THEN Keep ELSE AsCookie(a.q)
AnswerInv == \A t \in Tabs : answer[t] # None => AnswerOf(answer[t])

IInv == Types /\ WhereInv /\ JarInv /\ SpentInv /\ AnswerInv

\* The identities in the jar and in the responses on their way.
IdentInv ==
    /\ jar.session.auth \in signed \cup {None}
    /\ \A t \in Tabs : answer[t] # None =>
          /\ answer[t].ident \in signed \cup {None}
          /\ answer[t].session # Keep => answer[t].session.auth \in signed \cup {None}

-----------------------------------------------------------------------------
(* SecureRedirect, SecureRedirectOrNext and Response.                      *)

\* A cookie keeps the scheme and the host of what it stores.
LEMMA CookieFacts ==
    ASSUME NEW t \in Target
    PROVE  /\ AsCookie(t) \in Target
           /\ AsCookie(t).scheme = t.scheme /\ AsCookie(t).host = t.host
  BY TargetsAssumption DEF AsCookie, Target

\* SecureRedirect sends the client to an address of this site, and does not
\* clear the cookie for a relative target only.
LEMMA RedirectFacts ==
    ASSUME NEW t \in Target
    PROVE  /\ SecureRedirect(t).to \in Target /\ Ours(SecureRedirect(t).to)
           /\ SecureRedirect(t).clears \in BOOLEAN
           /\ SecureRedirect(t).via \in {"target", "refused"}
           /\ SecureRedirect(t).via = "target" =>
                 SecureRedirect(t).clears \/ Relative(SecureRedirect(t).to)
           /\ SecureRedirect(t).via = "target" /\ Relative(SecureRedirect(t).to) => Relative(t)
  <1>1. Home \in Target /\ Ours(Home)
    BY TargetsAssumption DEF Home, Target, Ours
  <1>2. CASE t.scheme = "none" /\ t.host = "none"
    BY <1>2 DEF SecureRedirect, Ours, Relative
  <1>3. CASE t.scheme \in {"http", "https"} /\ t.host = "own"
    <2> DEFINE to == IF TLS THEN [t EXCEPT !.scheme = "https"] ELSE t
    <2>1. SecureRedirect(t) = [to |-> to, clears |-> TRUE, via |-> "target"]
      BY <1>3 DEF SecureRedirect
    <2>2. to \in Target /\ to.host = "own" /\ (TLS => to.scheme = "https")
      BY <1>3 DEF Target
    <2> QED
      BY <2>1, <2>2 DEF Ours, Relative
  <1>4. CASE ~(t.scheme = "none" /\ t.host = "none") /\ ~(t.scheme \in {"http", "https"} /\ t.host = "own")
    BY <1>1, <1>4 DEF SecureRedirect
  <1> QED
    BY <1>2, <1>3, <1>4

\* What a handler that answers with a redirect, or with none, puts into its
\* response.
Redirection(d) ==
    /\ d.to \in Addresses \cup {None} /\ d.clears \in BOOLEAN
    /\ d.via \in {"target", "refused", "cookie", "stay"}
    /\ d.to # None => d.to = Provider \/ Ours(d.to)
    /\ d.via \in {"target", "cookie"} => d.to # None
    /\ d.via = "target" => d.clears \/ Relative(d.to)
    /\ d.via = "cookie" => d.clears /\ asked # None /\ d.to = SecureRedirect(AsCookie(asked)).to

\* Such a response keeps the promises of AnswerOf.
LEMMA ResponseFacts ==
    ASSUME Types, NEW q \in Targets \cup {None}, NEW s \in Sessions \cup {Keep},
           NEW i \in Users \cup {None}, NEW d, Redirection(d)
    PROVE  Response(q, s, i, d) \in Answered /\ AnswerOf(Response(q, s, i, d))
  <1> DEFINE next == IF d.clears THEN None ELSE IF q # None THEN AsCookie(q) ELSE Keep
             wanted == IF d.via = "cookie" THEN asked ELSE None
  <1>1. next \in Stored \cup {Keep} /\ wanted \in Targets \cup {None}
    BY DEF Stored, Types
  <1>2. Response(q, s, i, d) = [next |-> next, session |-> s, ident |-> i, to |-> d.to,
                                via |-> d.via, q |-> q, wanted |-> wanted]
    BY DEF Response
  <1> HIDE DEF next, wanted
  <1>3. Response(q, s, i, d) \in Answered
    BY <1>1, <1>2 DEF Answered, Redirection
  <1>4. AnswerOf(Response(q, s, i, d))
    BY <1>2, TargetsAssumption DEF AnswerOf, Redirection, next, wanted
  <1> QED
    BY <1>3, <1>4

\* The redirects handlers answer with.
LEMMA Redirections ==
    ASSUME IInv
    PROVE  /\ Redirection(Stay)
           /\ Redirection([to |-> Provider, clears |-> FALSE, via |-> "stay"])
           /\ \A t \in Targets : Redirection(SecureRedirect(t))
           /\ \A q \in Targets \cup {None} : Redirection(SecureRedirectOrNext(q, jar.next, Home))
  <1>1. Redirection(Stay) /\ Redirection([to |-> Provider, clears |-> FALSE, via |-> "stay"])
    BY DEF Redirection, Stay, Addresses
  <1>2. ASSUME NEW t \in Target PROVE Redirection(SecureRedirect(t))
    BY RedirectFacts, TargetsAssumption DEF Redirection, Addresses
  <1>3. ASSUME NEW q \in Targets \cup {None}
        PROVE  Redirection(SecureRedirectOrNext(q, jar.next, Home))
    <2>1. Home \in Target
      BY TargetsAssumption DEF Home, Target
    <2>2. CASE q # None
      BY <1>2, <2>2, TargetsAssumption DEF SecureRedirectOrNext
    <2>3. CASE q = None /\ jar.next = None
      BY <1>2, <2>1, <2>3 DEF SecureRedirectOrNext
    <2>4. CASE q = None /\ jar.next # None
      <3> DEFINE d == SecureRedirect(jar.next)
      <3>1. asked \in Target /\ asked # None /\ jar.next = AsCookie(asked)
        BY <2>4, TargetsAssumption DEF IInv, JarInv, Types
      <3>2. d.to \in Target /\ Ours(d.to)
        BY <3>1, CookieFacts, RedirectFacts
      <3>3. SecureRedirectOrNext(q, jar.next, Home) = [to |-> d.to, clears |-> TRUE, via |-> "cookie"]
        BY <2>4 DEF SecureRedirectOrNext, SecureRedirect
      <3> HIDE DEF d
      <3>4. d.to = SecureRedirect(AsCookie(asked)).to
        BY <3>1 DEF d
      <3> QED
        BY <3>1, <3>2, <3>3, <3>4, TargetsAssumption DEF Redirection, Addresses
    <2> QED
      BY <2>2, <2>3, <2>4
  <1> QED
    BY <1>1, <1>2, <1>3, TargetsAssumption

-----------------------------------------------------------------------------
(* The initial states and the steps.                                       *)

\* Nothing is stored, on its way or followed at first.
LEMMA InitIInv == Init => IInv
  <1> SUFFICES ASSUME Init PROVE IInv
    OBVIOUS
  <1>1. Home \in Target /\ Ours(Home)
    BY TargetsAssumption DEF Home, Target, Ours
  <1>2. SignedOut \in Sessions
    BY DEF SignedOut, Sessions
  <1>3. Types
    BY <1>1, <1>2 DEF Init, Types, Stored, Addresses
  <1> QED
    BY <1>1, <1>3 DEF Init, IInv, WhereInv, JarInv, SpentInv, AnswerInv

\* A session a response may set.
LEMMA SessionFacts ==
    ASSUME Types
    PROVE  /\ SignedOut \in Sessions
           /\ \A u \in Users : [jar.session EXCEPT !.auth = u] \in Sessions
           /\ \A u \in Users : [jar.session EXCEPT !.auth = u].auth = u
           /\ \A t \in Tabs : /\ [jar.session EXCEPT !.begun = t] \in Sessions
                              /\ [jar.session EXCEPT !.begun = t].auth = jar.session.auth
           /\ \A found \in BOOLEAN : IdentFromContext(jar.session, found) \in Users \cup {None}
  BY DEF Types, Sessions, SignedOut, IdentFromContext

\* Every action but Deliver answers a request with such a response.
LEMMA AnswersStep ==
    ASSUME IInv, NEW t \in Tabs, Step(t), ~Deliver(t)
    PROVE  \E q \in Targets \cup {None}, s \in Sessions \cup {Keep}, i \in Users \cup {None} : \E d :
              /\ Redirection(d) /\ Answers(t, Response(q, s, i, d))
              /\ signed' \in SUBSET Users /\ signed \subseteq signed'
  <1>1. Types
    BY DEF IInv
  <1>2. signed' \in SUBSET Users /\ signed \subseteq signed'
    <2>1. signed' = signed \/ \E u \in Users : signed' = signed \cup {u}
      BY DEF Step, Visit, Redirect, Self, Begin, Callback, Login, Logout
    <2> QED
      BY <1>1, <2>1 DEF Types
  <1>3. CASE Visit(t) \/ Redirect(t) \/ Self(t) \/ Begin(t) \/ Logout(t)
    BY <1>1, <1>2, <1>3, SessionFacts, Redirections
    DEF Visit, Redirect, Self, Begin, Logout, Queries
  <1>4. CASE Callback(t)
    BY <1>1, <1>2, <1>4, SessionFacts, Redirections DEF Callback
  <1>5. CASE Login(t)
    BY <1>1, <1>2, <1>5, SessionFacts, Redirections DEF Login, Queries
  <1> QED
    BY <1>3, <1>4, <1>5 DEF Step

\* Sending a response keeps the invariant.
LEMMA AnswerStep ==
    ASSUME IInv, NEW t \in Tabs, Step(t), ~Deliver(t)
    PROVE  IInv'
  <1>1. PICK q \in Targets \cup {None}, s \in Sessions \cup {Keep}, i \in Users \cup {None} : \E d :
           /\ Redirection(d) /\ Answers(t, Response(q, s, i, d))
           /\ signed' \in SUBSET Users /\ signed \subseteq signed'
    BY AnswersStep
  <1>2. PICK d : /\ Redirection(d) /\ Answers(t, Response(q, s, i, d))
                 /\ signed' \in SUBSET Users
    BY <1>1
  <1>3. PICK a \in Answered : AnswerOf(a) /\ answer' = [answer EXCEPT ![t] = a]
    BY <1>2, ResponseFacts DEF IInv, Answers
  <1>4. UNCHANGED <<jar, where, spent, asked>>
    BY <1>2 DEF Answers
  <1>5. Types'
    BY <1>2, <1>3, <1>4 DEF IInv, Types
  <1>6. AnswerInv'
    BY <1>3 DEF IInv, Types, AnswerInv, AnswerOf
  <1> QED
    BY <1>4, <1>5, <1>6 DEF IInv, WhereInv, JarInv, SpentInv

\* A response that takes the client to a target of the cookie it leaves behind
\* was a redirect to a relative target.
LEMMA FollowFacts ==
    ASSUME NEW a, AnswerOf(a), NEW n \in Target \cup {None},
           n = IF a.next = Keep THEN jar.next ELSE a.next, Follows(a, n)
    PROVE  a.via = "target" /\ n # None /\ Relative(n)
  <1>1. n \in Target /\ n # None /\ a.via \in {"target", "cookie"}
        /\ SecureRedirect(n).via # "refused" /\ a.to = SecureRedirect(n).to
    BY DEF Follows
  <1>2. a.next # None
    BY <1>1, TargetsAssumption
  <1>3. a.via = "target" /\ Relative(a.to)
    BY <1>1, <1>2 DEF AnswerOf
  <1> QED
    BY <1>1, <1>3, RedirectFacts

\* So does the arrival of a response, whatever other tabs did meanwhile.
LEMMA DeliverStep ==
    ASSUME IInv, NEW t \in Tabs, Deliver(t)
    PROVE  IInv'
  <1> DEFINE a == answer[t]
             n == IF a.next = Keep THEN jar.next ELSE a.next
  <1>1. /\ a # None /\ a \in Answered /\ AnswerOf(a)
    BY DEF Deliver, IInv, Types, AnswerInv
  <1>2. /\ jar' = [next |-> n, session |-> IF a.session = Keep THEN jar.session ELSE a.session]
        /\ where' = [where EXCEPT ![t] = IF a.to = None THEN @ ELSE a.to]
        /\ asked' = IF a.q = None THEN asked ELSE a.q
        /\ spent' = IF Follows(a, n) THEN a.via ELSE IF a.next = Keep THEN spent ELSE "no"
        /\ answer' = [answer EXCEPT ![t] = None]
        /\ signed' = signed
    BY DEF Deliver
  <1>3. n \in Stored /\ n \in Target \cup {None}
    <2>1. Stored \subseteq Target \cup {None}
      BY CookieFacts, TargetsAssumption DEF Stored
    <2> QED
      BY <1>1, <2>1 DEF IInv, Types, Answered
  <1>4. Follows(a, n) => a.via = "target" /\ n # None /\ Relative(n)
    BY <1>1, <1>3, FollowFacts
  <1> HIDE DEF a, n
  <1>5. Types'
    <2>1. jar' \in [next : Stored, session : Sessions]
      BY <1>1, <1>2, <1>3 DEF IInv, Types, Answered
    <2>2. where' \in [Tabs -> Addresses] /\ asked' \in Targets \cup {None}
      BY <1>1, <1>2 DEF IInv, Types, Answered
    <2>3. spent' \in {"no", "target", "cookie"}
      BY <1>2, <1>4 DEF IInv, Types
    <2> QED
      BY <1>2, <2>1, <2>2, <2>3 DEF IInv, Types
  <1>6. WhereInv'
    BY <1>1, <1>2 DEF IInv, Types, WhereInv, AnswerOf
  <1>7. JarInv'
    <2>1. CASE a.next = None
      BY <1>2, <2>1, TargetsAssumption DEF JarInv, n
    <2>2. CASE a.next # None /\ a.q = None
      BY <1>1, <1>2, <2>2 DEF IInv, JarInv, AnswerOf, n
    <2>3. CASE a.next # None /\ a.q # None
      <3>1. a.q \in Target /\ a.next = AsCookie(a.q)
        BY <1>1, <2>3, TargetsAssumption DEF AnswerOf, Answered
      <3>2. a.next # Keep
        BY <3>1, CookieFacts, TargetsAssumption
      <3> QED
        BY <1>2, <2>3, <3>1, <3>2 DEF JarInv, n
    <2> QED
      BY <2>1, <2>2, <2>3
  <1>8. SpentInv'
    BY <1>2, <1>4 DEF IInv, SpentInv, Relative, n
  <1>9. AnswerInv'
    BY <1>2 DEF IInv, Types, AnswerInv, AnswerOf
  <1> QED
    BY <1>5, <1>6, <1>7, <1>8, <1>9 DEF IInv

\* The strengthened invariant is inductive.
LEMMA StepIInv == IInv /\ [Next]_vars => IInv'
  <1>1. CASE UNCHANGED vars
    BY <1>1 DEF vars, IInv, Types, WhereInv, JarInv, SpentInv, AnswerInv, AnswerOf
  <1> QED
    BY <1>1, AnswerStep, DeliverStep DEF Next, Step

-----------------------------------------------------------------------------
(* The theorems.                                                           *)

\* In every behaviour the cookie, the responses on their way and the addresses
\* of the tabs stay as IInv describes them.
THEOREM Invariance == Spec => []IInv
  BY InitIInv, StepIInv, PTL DEF Spec

\* Every variable keeps its type.
THEOREM TypeCorrect == Spec => []TypeOK
  <1>1. IInv => TypeOK
    BY DEF IInv, Types, TypeOK, Stored, Sessions, Answered
  <1> QED
    BY Invariance, <1>1, PTL

\* Whatever a visit has put into the "_next" cookie, and whichever tab uses it
\* later, SecureRedirect keeps the client on this site and off plain http.
THEOREM StaysHome == Spec => []RedirectsStayHome
  <1>1. IInv => RedirectsStayHome
    BY DEF IInv, WhereInv, Ours, RedirectsStayHome
  <1> QED
    BY Invariance, <1>1, PTL

\* A stored target that has been followed is gone from the jar, unless it was
\* stored by the very request that was redirected to it and is relative.
THEOREM UsedOnce == Spec => []NextUsedOnce
  <1>1. IInv => NextUsedOnce
    BY DEF IInv, SpentInv, Relative, NextUsedOnce
  <1> QED
    BY Invariance, <1>1, PTL

\* A redirect from the cookie goes to the last target the browser asked for.
THEOREM ReturnsToLast == Spec => []ReturnsToLastNext
  <1>1. IInv => ReturnsToLastNext
    BY DEF IInv, AnswerInv, AnswerOf, ReturnsToLastNext
  <1> QED
    BY Invariance, <1>1, PTL

-----------------------------------------------------------------------------
(* Identities.  For the ID types uint, uint16 and uint32 every session      *)
(* stands for the zero id, so that the claim holds only if no user has it.  *)

ZeroIsNobody == IDType \in {"uint", "uint16", "uint32"} => 0 \notin Users

\* A response that is sent names only identities accepted before.
LEMMA IdentAnswer ==
    ASSUME ZeroIsNobody, Types, IdentInv, NEW t \in Tabs, Step(t), ~Deliver(t)
    PROVE  IdentInv'
  <1>1. \A found \in BOOLEAN : IdentFromContext(jar.session, found) \in signed \cup {None}
    BY DEF IdentFromContext, getAuthIDFromSession, IdentInv, ZeroIsNobody
  <1> DEFINE Carries(s, i) == \E a : /\ answer' = [answer EXCEPT ![t] = a] /\ jar' = jar
                                     /\ a.ident = i /\ a.session = s
  <1>2. ASSUME NEW q, NEW s, NEW i, NEW d, Answers(t, Response(q, s, i, d))
        PROVE  Carries(s, i)
    <2> DEFINE a == Response(q, s, i, d)
    <2>1. a.ident = i /\ a.session = s
      BY DEF Response
    <2> HIDE DEF a
    <2> QED
      BY <1>2, <2>1 DEF Answers, a
  <1> HIDE DEF Carries
  <1>3. \E s, i : /\ Carries(s, i) /\ signed \subseteq signed' /\ i \in signed' \cup {None}
                  /\ s # Keep => s.auth \in signed' \cup {None}
    <2>1. CASE Visit(t)
      BY <1>2, <2>1 DEF Visit
    <2>2. CASE Redirect(t)
      BY <1>2, <2>2 DEF Redirect
    <2>3. CASE Self(t)
      BY <1>1, <1>2, <2>3 DEF Self
    <2>4. CASE Logout(t)
      BY <1>2, <2>4 DEF Logout, SignedOut
    <2>5. CASE Begin(t)
      BY <1>2, <2>5, SessionFacts DEF Begin, IdentInv
    <2>6. CASE Callback(t)
      <3>1. \/ (Carries(Keep, None) \/ Carries(SignedOut, None)) /\ signed' = signed
            \/ \E u \in Users : /\ Carries([jar.session EXCEPT !.auth = u], None)
                                /\ signed' = signed \cup {u}
        BY <1>2, <2>6 DEF Callback
      <3>2. SignedOut.auth = None
        BY DEF SignedOut
      <3>3. \A u \in Users : [jar.session EXCEPT !.auth = u].auth = u
        BY SessionFacts
      <3> QED
        BY <3>1, <3>2, <3>3
    <2>7. CASE Login(t)
      <3>1. \/ Carries(Keep, None) /\ signed' = signed
            \/ \E u \in Users : /\ Carries([jar.session EXCEPT !.auth = u], None)
                                /\ signed' = signed \cup {u}
        BY <1>2, <2>7 DEF Login
      <3> QED
        BY <3>1, SessionFacts
    <2> QED
      BY <2>1, <2>2, <2>3, <2>4, <2>5, <2>6, <2>7 DEF Step
  <1> QED
    BY <1>3 DEF IdentInv, Types, Carries

\* The jar takes its session over from such a response.
LEMMA IdentDeliver ==
    ASSUME Types, IdentInv, NEW t \in Tabs, Deliver(t)
    PROVE  IdentInv'
  <1>1. /\ jar'.session = IF answer[t].session = Keep THEN jar.session ELSE answer[t].session
        /\ answer[t] # None /\ answer' = [answer EXCEPT ![t] = None] /\ signed' = signed
    BY DEF Deliver
  <1> QED
    BY <1>1 DEF IdentInv, Types

\* The identity of a request is one the service accepted in a sign-in of this
\* browser, for every ID type that getAuthIDFromSession converts.
THEOREM Identified ==
    ASSUME ZeroIsNobody
    PROVE  Spec => []IdentitySignedIn
  <1>1. Init => IdentInv
    BY DEF Init, IdentInv, SignedOut
  <1>2. IInv /\ IdentInv /\ [Next]_vars => IdentInv'
    <2>1. CASE UNCHANGED vars
      BY <2>1 DEF vars, IdentInv
    <2> QED
      BY <2>1, IdentAnswer, IdentDeliver DEF Next, Step, IInv
  <1>3. IdentInv => IdentitySignedIn
    BY DEF IdentInv, IdentitySignedIn
  <1> QED
    BY Invariance, <1>1, <1>2, <1>3, PTL DEF Spec
=============================================================================
