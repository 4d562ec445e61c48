----------------------------- MODULE AgentAccess -----------------------------
(***************************************************************************)
(* Who may use the helpdesk.  Two servers decide it, each on what it was   *)
(* told earlier: the portal by the claims in the cookie of the agent's     *)
(* last sign-in, the API by the claims in the access token which the       *)
(* portal keeps in memory and sends along.  Membership of the help-desk    *)
(* group may change at any time.  An agent of too many groups has no       *)
(* groups claim at all; only the portal then asks Graph.                   *)
(*                                                                         *)
(* The group is configured on both sides.                                  *)
(***************************************************************************)
EXTENDS Naturals

CONSTANTS
  Agents,       \* people with an account in the tenant
  LargeOrg,     \* those of them in more groups than a token lists
  Members,      \* those of them in the help-desk group at first
  Calls,        \* browser requests the portal may have under way at once
  MaxChanges,   \* bound: changes of membership
  MaxRestarts   \* bound: restarts of the portal

ASSUME AccessAssumption ==
  /\ LargeOrg \subseteq Agents
  /\ Members \subseteq Agents
  /\ {MaxChanges, MaxRestarts} \subseteq Nat

VARIABLES
  member,    \* the help-desk group
  changed,   \* history: agents whose membership has changed
  cookie,    \* the claims each agent's browser is signed in with
  token,     \* the portal's token cache: the claims of its token for the API
  call,      \* the requests of the browsers
  used       \* how much of each bound is used up

vars == <<member, changed, cookie, token, call, used>>

Claims == {"groups", "noGroups", "overage"}   \* "groups": the group is listed

\* A page, a page built from an answer of the API, a post, the panel's poll.
Kinds == {"create", "result", "submit", "panel"}

\* "shown": without the API; "empty": the panel's list when there is no token.
Answers == {"shown", "served", "empty", "forbidden", "refused", "error"}

CallRecord == [pc : {"idle", "policy", "token", "api", "signIn"} \cup Answers,
               agent : Agents, kind : Kinds, sent : Claims \cup {"none"}]

TypeOK ==
  /\ member \subseteq Agents
  /\ changed \subseteq Agents
  /\ cookie \in [Agents -> Claims \cup {"none"}]
  /\ token \in [Agents -> Claims \cup {"none", "expired"}]
  /\ call \in [Calls -> CallRecord]
  /\ used \in [{"changes", "restarts"} -> Nat]

Init ==
  /\ member = Members
  /\ changed = {}
  /\ cookie = [a \in Agents |-> "none"]
  /\ token = [a \in Agents |-> "none"]
  /\ call \in [Calls -> [pc : {"idle"}, agent : Agents, kind : {"create"}, sent : {"none"}]]
  /\ used = [b \in {"changes", "restarts"} |-> 0]

Use(bound, max) ==
  /\ used[bound] < max
  /\ used' = [used EXCEPT ![bound] = @ + 1]

\* What Entra writes into a cookie or a token it issues now.
ClaimsOf(a) ==
  IF a \in LargeOrg THEN "overage"
  ELSE IF a \in member THEN "groups" ELSE "noGroups"

To(c, pc) == call' = [call EXCEPT ![c].pc = pc]

Request(c, a, kind) ==
  /\ call[c].pc \in {"idle"} \cup Answers
  /\ call' = [call EXCEPT ![c] = [pc |-> "policy", agent |-> a, kind |-> kind, sent |-> "none"]]
  /\ UNCHANGED <<member, changed, cookie, token, used>>

-----------------------------------------------------------------------------
(* Signing in.                                                             *)

\* The browser is sent to sign in and comes back to the address it asked for,
\* without the form it posted.  A poll cannot follow, and goes unanswered.
Challenged(c) ==
  [call[c] EXCEPT !.pc = IF @ = "policy" /\ call[c].kind = "panel" THEN "error" ELSE "signIn",
                  !.kind = IF @ = "submit" THEN "create" ELSE @]

Challenge(c) == call' = [call EXCEPT ![c] = Challenged(c)]

SignedOut(c) ==
  /\ call[c].pc = "policy"
  /\ cookie[call[c].agent] = "none"
  /\ Challenge(c)
  /\ UNCHANGED <<member, changed, cookie, token, used>>

\* Cookie and token are issued together.
SignIn(c) ==
  /\ call[c].pc = "signIn"
  /\ cookie' = [cookie EXCEPT ![call[c].agent] = ClaimsOf(call[c].agent)]
  /\ token' = [token EXCEPT ![call[c].agent] = ClaimsOf(call[c].agent)]
  /\ To(c, "policy")
  /\ UNCHANGED <<member, changed, used>>

SignOut(a) ==
  /\ cookie[a] # "none"
  /\ cookie' = [cookie EXCEPT ![a] = "none"]
  /\ token' = [token EXCEPT ![a] = "none"]
  /\ UNCHANGED <<member, changed, call, used>>

-----------------------------------------------------------------------------
(* The portal's policy.                                                    *)

Pass(c) == To(c, IF call[c].kind = "create" THEN "shown" ELSE "token")

PolicyByClaim(c) ==
  /\ call[c].pc = "policy"
  /\ cookie[call[c].agent] \in {"groups", "noGroups"}
  /\ IF cookie[call[c].agent] = "groups" THEN Pass(c) ELSE To(c, "forbidden")
  /\ UNCHANGED <<member, changed, cookie, token, used>>

\* Mutant: an answer of Graph is taken for a yes.
PolicyByAnyAnswer(c) ==
  /\ call[c].pc = "policy"
  /\ cookie[call[c].agent] = "overage"
  /\ Pass(c)
  /\ UNCHANGED <<member, changed, cookie, token, used>>

\* Graph knows the membership of this moment; an exception is a no.
PolicyByGraph(c) ==
  /\ call[c].pc = "policy"
  /\ cookie[call[c].agent] = "overage"
  /\ \/ call[c].agent \in member /\ Pass(c)
     \/ To(c, "forbidden")
  /\ UNCHANGED <<member, changed, cookie, token, used>>

-----------------------------------------------------------------------------
(* The token for the API.                                                  *)

Send(c, claims) == call' = [call EXCEPT ![c].pc = "api", ![c].sent = claims]

\* Mutant: an expired token is sent as it is.
AcquireTokenUnrenewed(c) ==
  /\ call[c].pc = "token"
  /\ token[call[c].agent] # "none"
  /\ Send(c, token[call[c].agent])
  /\ UNCHANGED <<member, changed, cookie, token, used>>

\* From the cache, or, expired, renewed with the claims of this moment.
AcquireToken(c) ==
  /\ call[c].pc = "token"
  /\ token[call[c].agent] # "none"
  /\ LET a == call[c].agent
         claims == IF token[a] = "expired" THEN ClaimsOf(a) ELSE token[a]
     IN  Send(c, claims) /\ token' = [token EXCEPT ![a] = claims]
  /\ UNCHANGED <<member, changed, cookie, used>>

\* Nothing cached, or not renewable: pages ask for a sign-in, the poll does not.
NoToken(c) ==
  /\ call[c].pc = "token"
  /\ token[call[c].agent] \in {"none", "expired"}
  /\ IF call[c].kind = "panel" THEN To(c, "empty") ELSE Challenge(c)
  /\ UNCHANGED <<member, changed, cookie, token, used>>

TokenFails(c) ==
  /\ call[c].pc = "token"
  /\ To(c, IF call[c].kind = "panel" THEN "empty" ELSE "error")
  /\ UNCHANGED <<member, changed, cookie, token, used>>

-----------------------------------------------------------------------------
(* The API's policy: the group is listed in the token, or the call refused. *)

\* Mutants: the API looks at the signature only; for the group in another claim.
ApiAnswersAnyone(c) ==
  /\ call[c].pc = "api"
  /\ To(c, "served")
  /\ UNCHANGED <<member, changed, cookie, token, used>>

ApiAnswersNobody(c) ==
  /\ call[c].pc = "api"
  /\ To(c, "refused")
  /\ UNCHANGED <<member, changed, cookie, token, used>>

ApiAnswers(c) ==
  /\ call[c].pc = "api"
  /\ To(c, IF call[c].sent = "groups" THEN "served" ELSE "refused")
  /\ UNCHANGED <<member, changed, cookie, token, used>>

ApiFails(c) ==
  /\ call[c].pc = "api"
  /\ To(c, "error")
  /\ UNCHANGED <<member, changed, cookie, token, used>>

-----------------------------------------------------------------------------
(* What happens meanwhile.                                                 *)

TokenExpires(a) ==
  /\ token[a] \in Claims
  /\ token' = [token EXCEPT ![a] = "expired"]
  /\ UNCHANGED <<member, changed, cookie, call, used>>

\* The token cache is in memory, the cookies are in the browsers.
PortalRestarts ==
  /\ Use("restarts", MaxRestarts)
  /\ token' = [a \in Agents |-> "none"]
  /\ call' = [c \in Calls |-> IF call[c].pc \in {"policy", "token", "api"}
                                THEN [call[c] EXCEPT !.pc = "error"] ELSE call[c]]
  /\ UNCHANGED <<member, changed, cookie>>

MembershipChanges(a) ==
  /\ Use("changes", MaxChanges)
  /\ member' = IF a \in member THEN member \ {a} ELSE member \cup {a}
  /\ changed' = changed \cup {a}
  /\ UNCHANGED <<cookie, token, call>>

-----------------------------------------------------------------------------

Proceed(c) ==
  \/ SignedOut(c) \/ PolicyByClaim(c) \/ PolicyByGraph(c)
  \/ AcquireToken(c) \/ NoToken(c) \/ TokenFails(c)
  \/ ApiAnswers(c) \/ ApiFails(c)

Next ==
  \/ \E c \in Calls : \/ \E a \in Agents, kind \in Kinds : Request(c, a, kind)
                      \/ SignIn(c)
                      \/ Proceed(c)
  \/ \E a \in Agents : SignOut(a) \/ TokenExpires(a) \/ MembershipChanges(a)
  \/ PortalRestarts

Spec == Init /\ [][Next]_vars

\* The portal and the API answer, and a token lives for an hour.
Fairness ==
  /\ \A c \in Calls : WF_vars(Proceed(c))
  /\ \A a \in Agents : WF_vars(TokenExpires(a))

FairSpec == Spec /\ Fairness

-----------------------------------------------------------------------------
(* Properties.                                                             *)

\* Nobody who was never in the group sees a page, let alone an answer of the
\* API, whichever server decided by whatever copy of the claims
\* (HelpDeskAgentHandler 38-99, Api Program 31-35).
StrangerKeptOut ==
  \A c \in Calls :
    call[c].agent \notin member \cup changed
      => call[c].pc \notin {"token", "api", "shown", "served", "refused"}

\* An agent who has been in the group all along is turned away, by either
\* server, only for belonging to too many groups (HelpDeskAgentHandler 57-60,
\* AgentPortal VerificationController 317-344).
MemberTurnedAwayOnlyOnOverage ==
  \A c \in Calls :
    call[c].pc \in {"forbidden", "refused"} /\ call[c].agent \in member \ changed
      => call[c].agent \in LargeOrg

\* Somebody removed from the group for good is in the end not served any more,
\* although the portal goes on admitting the cookie: the token is renewed
\* (Api Program 31-35, AgentPortal VerificationController 326-332).
RevokedLosesAccess ==
  \A a \in Agents :
    <>[](a \notin member)
      => <>[][\A c \in Calls : call'[c].pc = "served" /\ call'[c].agent = a
                                 => call[c].pc = "served"]_vars

\* An agent whom the portal has admitted through Graph is served.  Does not
\* hold: the API looks at the groups claim, which the token does not have.
OverageAgentServed ==
  \A c \in Calls :
    call[c].pc = "refused" => call[c].agent \notin LargeOrg \cap (member \ changed)

=============================================================================
