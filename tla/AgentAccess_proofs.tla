-------------------------- MODULE AgentAccess_proofs --------------------------
(***************************************************************************)
(* Proofs about AgentAccess, for any number of agents, browser requests,   *)
(* membership changes and restarts.                                        *)
(*                                                                         *)
(* Cookies, cached tokens and tokens under way are claims of some earlier  *)
(* moment.  What they say may have ceased to be so, but it stays credible  *)
(* given who is a member now and whose membership ever changed; and every  *)
(* request that has passed the portal's policy was let in on such claims.  *)
(***************************************************************************)
EXTENDS AgentAccess, TLAPS

Ever == member \cup changed      \* has been in the group at some time

Always == member \ changed       \* has been in the group all along

Credible(a, claims) ==
  /\ claims = "overage" => a \in LargeOrg
  /\ claims = "groups" => a \in Ever
  /\ claims = "noGroups" => a \notin Always

AdmittedPoints == {"token", "api", "shown", "served", "refused"}

\* What holds of one request.
RequestSound(c) ==
  /\ Credible(call[c].agent, call[c].sent)
  /\ call[c].pc = "api" => call[c].sent \in Claims
  /\ call[c].pc \in AdmittedPoints => call[c].agent \in Ever
  /\ call[c].pc \in {"forbidden", "refused"} /\ call[c].agent \in Always
       => call[c].agent \in LargeOrg

ClaimsSound == \A a \in Agents : Credible(a, cookie[a]) /\ Credible(a, token[a])

IInv ==
  /\ TypeOK
  /\ ClaimsSound
  /\ \A c \in Calls : RequestSound(c)

-----------------------------------------------------------------------------
(* Claims are credible when they are issued, and stay so.                  *)

\* Entra issues credible claims.
LEMMA IssuedCredible ==
  ASSUME NEW a \in Agents
  PROVE  /\ ClaimsOf(a) \in Claims
         /\ Credible(a, ClaimsOf(a))
BY DEF ClaimsOf, Claims, Credible, Ever, Always

\* No step makes a former member one that never was, or one that was not
\* always a member one that was.
LEMMA MembershipOnlyLoosens ==
  ASSUME [Next]_vars
  PROVE  Ever \subseteq Ever' /\ Always' \subseteq Always
<1>1. ASSUME UNCHANGED <<member, changed>>
      PROVE  Ever \subseteq Ever' /\ Always' \subseteq Always
  BY <1>1 DEF Ever, Always
<1>2. ASSUME NEW a \in Agents, MembershipChanges(a)
      PROVE  Ever \subseteq Ever' /\ Always' \subseteq Always
  BY <1>2 DEF MembershipChanges, Ever, Always
<1>3. ASSUME NEW c \in Calls, Proceed(c)
      PROVE  UNCHANGED <<member, changed>>
  BY <1>3 DEF Proceed, SignedOut, PolicyByClaim, PolicyByGraph, AcquireToken, NoToken,
              TokenFails, ApiAnswers, ApiFails
<1>4. ASSUME NEW c \in Calls, NEW a \in Agents, NEW kind \in Kinds, Request(c, a, kind)
      PROVE  UNCHANGED <<member, changed>>
  BY <1>4 DEF Request
<1>5. ASSUME NEW c \in Calls, SignIn(c)
      PROVE  UNCHANGED <<member, changed>>
  BY <1>5 DEF SignIn
<1>6. ASSUME NEW a \in Agents, SignOut(a) \/ TokenExpires(a)
      PROVE  UNCHANGED <<member, changed>>
  BY <1>6 DEF SignOut, TokenExpires
<1>7. CASE PortalRestarts
  BY <1>7, <1>1 DEF PortalRestarts
<1>8. CASE UNCHANGED vars
  BY <1>8, <1>1 DEF vars
<1> QED
  BY <1>1, <1>2, <1>3, <1>4, <1>5, <1>6, <1>7, <1>8 DEF Next

\* Credible claims stay credible.
LEMMA CredibleKept ==
  ASSUME [Next]_vars, NEW a \in Agents, NEW claims, Credible(a, claims)
  PROVE  Credible(a, claims)'
BY MembershipOnlyLoosens DEF Credible

\* A request that a step leaves alone, or that dies with the portal, stays sound.
LEMMA RequestKept ==
  ASSUME IInv, [Next]_vars, NEW c \in Calls,
         \/ call'[c] = call[c]
         \/ call'[c] = [call[c] EXCEPT !.pc = "error"]
  PROVE  RequestSound(c)'
<1>1. /\ call[c].agent \in Agents
      /\ RequestSound(c)
      /\ call'[c].agent = call[c].agent
      /\ call'[c].sent = call[c].sent
      /\ call'[c].pc = call[c].pc \/ call'[c].pc = "error"
  BY DEF IInv, TypeOK, CallRecord
<1>2. Credible(call[c].agent, call[c].sent)'
  BY <1>1, CredibleKept DEF RequestSound, Credible
<1>3. /\ call[c].agent \in Ever => call[c].agent \in Ever'
      /\ call[c].agent \in Always' => call[c].agent \in Always
  BY MembershipOnlyLoosens
<1> QED
  BY <1>1, <1>2, <1>3 DEF RequestSound, AdmittedPoints

-----------------------------------------------------------------------------
(* Type correctness.                                                       *)

LEMMA TypeInit == Init => TypeOK
BY AccessAssumption DEF Init, TypeOK, CallRecord, Answers, Kinds, Claims

\* A step that leaves everything but the requests alone, and these well-formed.
LEMMA TypeOfCall ==
  ASSUME TypeOK, call' \in [Calls -> CallRecord],
         UNCHANGED <<member, changed, cookie, token, used>>
  PROVE  TypeOK'
BY DEF TypeOK

\* A challenged request is well-formed, and the same agent's.
LEMMA ChallengedTyped ==
  ASSUME TypeOK, NEW c \in Calls
  PROVE  /\ Challenged(c) \in CallRecord
         /\ Challenged(c).pc \in {"error", "signIn"}
         /\ Challenged(c).agent = call[c].agent
         /\ Challenged(c).sent = call[c].sent
<1>1. call[c] \in CallRecord
  BY DEF TypeOK
<1>2. CASE call[c].kind = "submit"
  BY <1>1, <1>2 DEF Challenged, CallRecord, Kinds, Answers
<1>3. CASE call[c].kind # "submit"
  BY <1>1, <1>3 DEF Challenged, CallRecord, Kinds, Answers
<1> QED
  BY <1>2, <1>3

\* A challenge leaves the requests well-formed.
LEMMA ChallengeTyped ==
  ASSUME TypeOK, NEW c \in Calls, Challenge(c)
  PROVE  /\ call' \in [Calls -> CallRecord]
         /\ call'[c] = Challenged(c)
         /\ \A d \in Calls \ {c} : call'[d] = call[d]
BY ChallengedTyped DEF TypeOK, Challenge

\* Every step keeps every variable in its type.
LEMMA TypeStep ==
  ASSUME TypeOK, [Next]_vars
  PROVE  TypeOK'
<1>1. ASSUME NEW c \in Calls, NEW a \in Agents, NEW kind \in Kinds, Request(c, a, kind)
      PROVE  TypeOK'
  <2>1. call' \in [Calls -> CallRecord]
    BY <1>1 DEF Request, CallRecord, TypeOK
  <2> QED
    BY <1>1, <2>1, TypeOfCall DEF Request
<1>2. ASSUME NEW c \in Calls, SignIn(c)
      PROVE  TypeOK'
  <2>1. ClaimsOf(call[c].agent) \in Claims
    BY DEF ClaimsOf, Claims
  <2>2. call' \in [Calls -> CallRecord]
    BY <1>2 DEF SignIn, To, CallRecord, TypeOK
  <2>3. /\ cookie' \in [Agents -> Claims \cup {"none"}]
        /\ token' \in [Agents -> Claims \cup {"none", "expired"}]
    BY <1>2, <2>1 DEF SignIn, TypeOK
  <2> QED
    BY <1>2, <2>2, <2>3 DEF SignIn, TypeOK
<1>3. ASSUME NEW c \in Calls, SignedOut(c)
      PROVE  TypeOK'
  <2>1. call' \in [Calls -> CallRecord]
    BY <1>3, ChallengeTyped DEF SignedOut
  <2> QED
    BY <1>3, <2>1, TypeOfCall DEF SignedOut
<1>4. ASSUME NEW c \in Calls, PolicyByClaim(c) \/ PolicyByGraph(c)
      PROVE  TypeOK'
  <2>1. call' \in [Calls -> CallRecord]
    BY <1>4 DEF PolicyByClaim, PolicyByGraph, Pass, To, CallRecord, Answers, TypeOK
  <2> QED
    BY <1>4, <2>1, TypeOfCall DEF PolicyByClaim, PolicyByGraph
<1>5. ASSUME NEW c \in Calls, AcquireToken(c)
      PROVE  TypeOK'
  <2>1. PICK claims \in Claims : /\ Send(c, claims)
                                 /\ token' = [token EXCEPT ![call[c].agent] = claims]
    <3>1. ClaimsOf(call[c].agent) \in Claims
      BY DEF ClaimsOf, Claims
    <3>2. call[c].agent \in Agents /\ token[call[c].agent] \in Claims \cup {"expired"}
      BY <1>5 DEF AcquireToken, TypeOK, CallRecord
    <3> QED
      BY <1>5, <3>1, <3>2 DEF AcquireToken
  <2>2. token' \in [Agents -> Claims \cup {"none", "expired"}]
    BY <2>1 DEF TypeOK
  <2>3. call' \in [Calls -> CallRecord]
    BY <2>1 DEF Send, CallRecord, TypeOK
  <2> QED
    BY <1>5, <2>2, <2>3 DEF AcquireToken, TypeOK
<1>6. ASSUME NEW c \in Calls, NoToken(c)
      PROVE  TypeOK'
  <2>1. call' \in [Calls -> CallRecord]
    <3>1. CASE Challenge(c)
      BY <3>1, ChallengeTyped
    <3>2. CASE To(c, "empty")
      BY <3>2 DEF To, CallRecord, Answers, TypeOK
    <3> QED
      BY <1>6, <3>1, <3>2 DEF NoToken
  <2> QED
    BY <1>6, <2>1, TypeOfCall DEF NoToken
<1>7. ASSUME NEW c \in Calls, TokenFails(c) \/ ApiAnswers(c) \/ ApiFails(c)
      PROVE  TypeOK'
  <2>1. call' \in [Calls -> CallRecord]
    BY <1>7 DEF TokenFails, ApiAnswers, ApiFails, To, CallRecord, Answers, TypeOK
  <2> QED
    BY <1>7, <2>1, TypeOfCall DEF TokenFails, ApiAnswers, ApiFails
<1>8. ASSUME NEW a \in Agents, SignOut(a) \/ TokenExpires(a)
      PROVE  TypeOK'
  BY <1>8 DEF SignOut, TokenExpires, TypeOK
<1>9. ASSUME NEW a \in Agents, MembershipChanges(a)
      PROVE  TypeOK'
  BY <1>9 DEF MembershipChanges, Use, TypeOK
<1>10. CASE PortalRestarts
  <2>1. call' \in [Calls -> CallRecord]
    BY <1>10 DEF PortalRestarts, CallRecord, Answers, TypeOK
  <2> QED
    BY <1>10, <2>1 DEF PortalRestarts, Use, TypeOK
<1>11. CASE UNCHANGED vars
  BY <1>11 DEF vars, TypeOK
<1> QED
  BY <1>1, <1>2, <1>3, <1>4, <1>5, <1>6, <1>7, <1>8, <1>9, <1>10, <1>11 DEF Next, Proceed

-----------------------------------------------------------------------------
(* Cookies and tokens.                                                     *)

\* "none" and "expired" claim nothing.
LEMMA NothingClaimed ==
  ASSUME NEW a, NEW claims \in {"none", "expired"}
  PROVE  Credible(a, claims)
BY DEF Credible

\* Whatever cookies and tokens are kept or issued is credible.
LEMMA ClaimsStep ==
  ASSUME IInv, [Next]_vars
  PROVE  ClaimsSound'
<1>1. SUFFICES ASSUME NEW a \in Agents
               PROVE  (Credible(a, cookie[a]) /\ Credible(a, token[a]))'
  BY DEF ClaimsSound
<1>2. Credible(a, cookie[a]) /\ Credible(a, token[a])
  BY DEF IInv, ClaimsSound
<1>3. /\ Credible(a, ClaimsOf(a))
      /\ Credible(a, "none") /\ Credible(a, "expired")
  BY IssuedCredible, NothingClaimed
<1>4. /\ cookie'[a] \in {cookie[a], "none", ClaimsOf(a)}
      /\ token'[a] \in {token[a], "none", "expired", ClaimsOf(a)}
  <2> USE DEF IInv, TypeOK, CallRecord
  <2>1. ASSUME NEW c \in Calls, SignIn(c)
        PROVE  <1>4!:
    BY <2>1 DEF SignIn
  <2>2. ASSUME NEW c \in Calls, AcquireToken(c)
        PROVE  <1>4!:
    BY <2>2 DEF AcquireToken
  <2>3. ASSUME NEW c \in Calls,
               \/ SignedOut(c) \/ PolicyByClaim(c) \/ PolicyByGraph(c) \/ NoToken(c)
               \/ TokenFails(c) \/ ApiAnswers(c) \/ ApiFails(c)
               \/ \E b \in Agents, kind \in Kinds : Request(c, b, kind)
        PROVE  <1>4!:
    BY <2>3 DEF SignedOut, PolicyByClaim, PolicyByGraph, NoToken, TokenFails, ApiAnswers,
                ApiFails, Request
  <2>4. ASSUME NEW b \in Agents, SignOut(b) \/ TokenExpires(b) \/ MembershipChanges(b)
        PROVE  <1>4!:
    BY <2>4 DEF SignOut, TokenExpires, MembershipChanges
  <2>5. CASE PortalRestarts
    BY <2>5 DEF PortalRestarts
  <2>6. CASE UNCHANGED vars
    BY <2>6 DEF vars
  <2> QED
    BY <2>1, <2>2, <2>3, <2>4, <2>5, <2>6 DEF Next, Proceed
<1>5. PICK held : held = cookie'[a] /\ Credible(a, held)
  BY <1>2, <1>3, <1>4
<1>6. PICK kept : kept = token'[a] /\ Credible(a, kept)
  BY <1>2, <1>3, <1>4
<1>7. Credible(a, held)' /\ Credible(a, kept)'
  BY <1>5, <1>6, CredibleKept
<1> QED
  BY <1>5, <1>6, <1>7 DEF Credible

-----------------------------------------------------------------------------
(* Requests.                                                               *)

\* A request that takes a step leaves the others alone.
LEMMA OthersKept ==
  ASSUME IInv, [Next]_vars, NEW c \in Calls,
         \A d \in Calls \ {c} : call'[d] = call[d],
         RequestSound(c)'
  PROVE  \A d \in Calls : RequestSound(d)'
<1> TAKE d \in Calls
<1>1. CASE d = c
  BY <1>1
<1>2. CASE d # c
  BY <1>2, RequestKept
<1> QED
  BY <1>1, <1>2

\* A request decided by the portal's policy, on a cookie's claims or by Graph.
LEMMA PolicySound ==
  ASSUME IInv, [Next]_vars, NEW c \in Calls, PolicyByClaim(c) \/ PolicyByGraph(c)
  PROVE  RequestSound(c)'
<1> DEFINE a == call[c].agent
<1>1. /\ a \in Agents
      /\ Credible(a, cookie[a])
      /\ Credible(a, call[c].sent)
      /\ UNCHANGED <<member, changed>>
  BY DEF IInv, TypeOK, CallRecord, ClaimsSound, RequestSound, PolicyByClaim, PolicyByGraph
<1>2. /\ call'[c].agent = a
      /\ call'[c].sent = call[c].sent
      /\ \/ call'[c].pc \in {"shown", "token"} /\ (cookie[a] = "groups" \/ a \in member)
         \/ call'[c].pc = "forbidden" /\ cookie[a] \in {"noGroups", "overage"}
  BY DEF IInv, TypeOK, CallRecord, PolicyByClaim, PolicyByGraph, Pass, To
<1>3. call'[c].pc \in AdmittedPoints => a \in Ever
  BY <1>1, <1>2 DEF Credible, Ever, AdmittedPoints
<1>4. call'[c].pc \in {"forbidden", "refused"} /\ a \in Always => a \in LargeOrg
  BY <1>1, <1>2 DEF Credible
<1>5. call'[c].pc # "api"
  BY <1>2
<1>6. Ever' = Ever /\ Always' = Always
  BY <1>1 DEF Ever, Always
<1> HIDE DEF a
<1> QED
  BY <1>1, <1>2, <1>3, <1>4, <1>5, <1>6 DEF RequestSound, Credible

\* A request sent to the API carries credible claims.
LEMMA AcquireSound ==
  ASSUME IInv, [Next]_vars, NEW c \in Calls, AcquireToken(c)
  PROVE  RequestSound(c)'
<1> DEFINE a == call[c].agent
<1>1. /\ a \in Agents
      /\ a \in Ever
      /\ Credible(a, token[a])
      /\ Credible(a, ClaimsOf(a))
      /\ ClaimsOf(a) \in Claims
      /\ UNCHANGED <<member, changed>>
  BY IssuedCredible DEF IInv, TypeOK, CallRecord, ClaimsSound, RequestSound, AcquireToken, AdmittedPoints
<1>2. /\ call'[c].agent = a
      /\ call'[c].pc = "api"
      /\ call'[c].sent \in {token[a], ClaimsOf(a)} \cap Claims
  BY <1>1 DEF IInv, TypeOK, CallRecord, AcquireToken, Send, Claims
<1>3. Ever' = Ever /\ Always' = Always
  BY <1>1 DEF Ever, Always
<1> HIDE DEF a
<1> QED
  BY <1>1, <1>2, <1>3 DEF RequestSound, Credible

\* The API refuses a request for the claims it carries.
LEMMA AnswerSound ==
  ASSUME IInv, [Next]_vars, NEW c \in Calls, ApiAnswers(c)
  PROVE  RequestSound(c)'
<1> DEFINE a == call[c].agent
<1>1. /\ a \in Agents
      /\ a \in Ever
      /\ Credible(a, call[c].sent)
      /\ call[c].sent \in Claims
      /\ UNCHANGED <<member, changed>>
  BY DEF IInv, TypeOK, CallRecord, RequestSound, ApiAnswers, AdmittedPoints
<1>2. /\ call'[c].agent = a
      /\ call'[c].sent = call[c].sent
      /\ \/ call'[c].pc = "served"
         \/ call'[c].pc = "refused" /\ call[c].sent # "groups"
  BY DEF IInv, TypeOK, CallRecord, ApiAnswers, To
<1>3. Ever' = Ever /\ Always' = Always
  BY <1>1 DEF Ever, Always
<1> HIDE DEF a
<1> QED
  BY <1>1, <1>2, <1>3 DEF RequestSound, Credible, Claims

\* A request that ends, or is sent to sign in, is nowhere admitted.
LEMMA NotAdmittedSound ==
  ASSUME IInv, [Next]_vars, NEW c \in Calls,
         \/ SignedOut(c) \/ SignIn(c) \/ NoToken(c) \/ TokenFails(c) \/ ApiFails(c)
         \/ \E a \in Agents, kind \in Kinds : Request(c, a, kind)
  PROVE  RequestSound(c)'
<1>1. /\ call'[c].pc \in {"policy", "signIn", "empty", "error"}
      /\ call'[c].agent \in Agents
      /\ \/ call'[c].agent = call[c].agent /\ call'[c].sent = call[c].sent
         \/ call'[c].sent = "none"
  <2>1. CASE Challenge(c)
    BY <2>1, ChallengedTyped, ChallengeTyped DEF IInv, TypeOK, CallRecord
  <2>2. CASE SignIn(c) \/ TokenFails(c) \/ ApiFails(c) \/ To(c, "empty")
    BY <2>2 DEF IInv, TypeOK, CallRecord, SignIn, TokenFails, ApiFails, To
  <2>3. CASE \E a \in Agents, kind \in Kinds : Request(c, a, kind)
    BY <2>3 DEF IInv, TypeOK, CallRecord, Request
  <2> QED
    BY <2>1, <2>2, <2>3 DEF SignedOut, NoToken
<1>2. Credible(call[c].agent, call[c].sent)
  BY DEF IInv, RequestSound
<1>3. PICK b, sent : /\ b \in Agents
                     /\ b = call'[c].agent /\ sent = call'[c].sent
                     /\ Credible(b, sent)
  BY <1>1, <1>2, NothingClaimed
<1>4. Credible(b, sent)'
  BY <1>3, CredibleKept
<1> QED
  BY <1>1, <1>3, <1>4 DEF RequestSound, Credible, AdmittedPoints

\* Every step leaves every request sound.
LEMMA RequestsStep ==
  ASSUME IInv, [Next]_vars
  PROVE  \A c \in Calls : RequestSound(c)'
<1>1. ASSUME NEW c \in Calls, Proceed(c) \/ SignIn(c)
                                \/ \E a \in Agents, kind \in Kinds : Request(c, a, kind)
      PROVE  \A d \in Calls : RequestSound(d)'
  <2>1. \A d \in Calls \ {c} : call'[d] = call[d]
    BY <1>1 DEF IInv, TypeOK, CallRecord, Proceed, SignedOut, PolicyByClaim, PolicyByGraph, AcquireToken,
                NoToken, TokenFails, ApiAnswers, ApiFails, SignIn, Request, Challenge,
                Pass, Send, To
  <2>2. RequestSound(c)'
    BY <1>1, PolicySound, AcquireSound, AnswerSound, NotAdmittedSound DEF Proceed
  <2> QED
    BY <2>1, <2>2, OthersKept
<1>2. ASSUME NEW a \in Agents, SignOut(a) \/ TokenExpires(a) \/ MembershipChanges(a)
      PROVE  \A c \in Calls : RequestSound(c)'
  <2>1. call' = call
    BY <1>2 DEF SignOut, TokenExpires, MembershipChanges
  <2> QED
    BY <2>1, RequestKept
<1>3. CASE PortalRestarts
  <2>1. \A c \in Calls : \/ call'[c] = call[c]
                         \/ call'[c] = [call[c] EXCEPT !.pc = "error"]
    BY <1>3 DEF PortalRestarts
  <2> QED
    BY <2>1, RequestKept
<1>4. CASE UNCHANGED vars
  <2>1. call' = call
    BY <1>4 DEF vars
  <2> QED
    BY <2>1, RequestKept
<1> QED
  BY <1>1, <1>2, <1>3, <1>4 DEF Next

-----------------------------------------------------------------------------
(* The theorems.                                                           *)

\* At first nothing is cached and nobody has asked for anything.
LEMMA InitSound == Init => IInv
<1> SUFFICES ASSUME Init PROVE IInv
  OBVIOUS
<1>1. TypeOK
  BY TypeInit
<1>2. ClaimsSound
  BY NothingClaimed DEF Init, ClaimsSound
<1>3. ASSUME NEW c \in Calls PROVE RequestSound(c)
  <2>1. call[c].pc = "idle" /\ call[c].sent = "none"
    BY DEF Init
  <2> QED
    BY <2>1, NothingClaimed DEF RequestSound, AdmittedPoints
<1> QED
  BY <1>1, <1>2, <1>3 DEF IInv

\* Cookies, tokens and requests stay sound: the inductive invariant of the two
\* policies.
THEOREM Invariance == Spec => []IInv
<1>1. Init => IInv
  BY InitSound
<1>2. IInv /\ [Next]_vars => IInv'
  <2> SUFFICES ASSUME IInv, [Next]_vars PROVE IInv'
    OBVIOUS
  <2>1. TypeOK'
    BY TypeStep DEF IInv
  <2> QED
    BY <2>1, ClaimsStep, RequestsStep DEF IInv
<1> QED
  BY <1>1, <1>2, PTL DEF Spec

\* Type correctness of cookies, token cache and requests.
THEOREM TypeCorrect == Spec => []TypeOK
<1>1. IInv => TypeOK
  BY DEF IInv
<1> QED
  BY <1>1, Invariance, PTL

\* However many agents, requests, renewals and restarts: nobody who was never
\* in the group is let in by either server.
THEOREM StrangersAreKeptOut == Spec => []StrangerKeptOut
<1>1. IInv => StrangerKeptOut
  BY DEF IInv, RequestSound, StrangerKeptOut, Ever, AdmittedPoints
<1> QED
  BY <1>1, Invariance, PTL

\* However stale a cookie or a token: an agent who was always in the group is
\* turned away only for being in too many.
THEOREM MembersAreTurnedAwayOnlyOnOverage == Spec => []MemberTurnedAwayOnlyOnOverage
<1>1. IInv => MemberTurnedAwayOnlyOnOverage
  BY DEF IInv, RequestSound, MemberTurnedAwayOnlyOnOverage, Always
<1> QED
  BY <1>1, Invariance, PTL

=============================================================================
