--------------------------- MODULE VerificationApi ---------------------------
(***************************************************************************)
(* The verification API: its request handlers (generate, initiate, the     *)
(* Verified ID callback), the expiry sweep that runs beside them, and the  *)
(* session table they share.                                               *)
(*                                                                         *)
(* Handlers are ASP.NET requests: any number run at once, each suspends at *)
(* every await, and each works on a copy of the row it read.  An action is *)
(* one segment of a handler between two awaits, together with the effect   *)
(* of the store or service call it meets.  UpdateAsync replaces the whole  *)
(* row unconditionally, so a copy may overwrite what others wrote since it *)
(* was read.  The clock is compared where a row is read (the earliest it   *)
(* can be, so that whatever may pass the check passes) and stamped where   *)
(* the row is written (the latest it can be).                              *)
(*                                                                         *)
(* The Verified ID service, the caller and the clock are the environment.  *)
(***************************************************************************)
EXTENDS Naturals, FiniteSets

CONSTANTS
  Sessions,    \* session ids that Guid.NewGuid may return
  Agents,      \* help-desk agents (the oid claim)
  Emails,      \* callers, by normalised email
  Requests,    \* presentation requests the Verified ID service may issue
  Handlers,    \* HTTP requests the API may process at once
  None,        \* no row, no request, no time
  MaxPendingSessionsPerAgent,
  MaxFailedAttempts,
  CodeExpiryMinutes,
  RequireCallbackJwtValidation,
  MaxTime,        \* bound: the clock stops here
  MaxWrongCodes   \* bound: wrong codes entered against one session

ASSUME ConstantsAssumption ==
  /\ MaxPendingSessionsPerAgent \in Nat \ {0}
  /\ MaxFailedAttempts \in Nat \ {0}
  /\ CodeExpiryMinutes \in Nat \ {0}
  /\ RequireCallbackJwtValidation \in BOOLEAN
  /\ MaxTime \in Nat
  /\ MaxWrongCodes \in Nat

Statuses == {"pending", "verified", "failed", "expired"}

Row == [sessionId : Sessions,
        agentEntraId : Agents,
        callerEmail : Emails,
        status : Statuses,
        failedAttempts : Nat,
        requestId : Requests \cup {None},
        callbackTokenHash : Requests \cup {None},  \* named by the request it came with
        createdAt : Nat,
        expiresAt : Nat,
        verifiedAt : Nat \cup {None},
        verifiedClaims : Requests \cup {None}]     \* named by the request presented to

\* None is a value of its own: no row, no request and no time.
ASSUME NoneAssumption == None \notin Row \cup Requests \cup Nat

\* Where a handler is suspended: before the call its name says.
Points == {"idle", "create", "disclose", "request", "save", "reply",
           "reject", "lockout", "accept", "push"}

\* What a handler remembers across an await.
Op == [pc : Points,
       agent : Agents \cup {None},
       email : Emails \cup {None},
       row : Row \cup {None},
       request : Requests \cup {None}]

VARIABLES
  table,       \* the VerificationSessions table, one row per session id
  now,         \* the clock, in minutes
  handler,     \* what each running request remembers
  sweep,       \* rows the expiry sweep has queried and not yet written back
  presentation,\* the Verified ID service: each request's session and outcome
  disclosed,   \* sessions whose code the caller may know
  wrongCodes,  \* history: wrong codes answered with a rejection, per session
  pushed       \* history: events sent to the session's hub group

vars == <<table, now, handler, sweep, presentation, disclosed, wrongCodes, pushed>>

Stages == {"free", "issued", "shown", "verified", "error"}

TypeOK ==
  /\ table \in [Sessions -> Row \cup {None}]
  /\ now \in Nat
  /\ handler \in [Handlers -> Op]
  /\ sweep \in [Sessions -> Row \cup {None}]
  /\ presentation \in [Requests -> [session : Sessions \cup {None},
                                    stage : Stages,
                                    receipt : BOOLEAN]]
  /\ disclosed \subseteq Sessions
  /\ wrongCodes \in [Sessions -> Nat]
  /\ pushed \in [Sessions -> SUBSET {"VerificationComplete", "VerificationFailed"}]

Idle == [pc |-> "idle", agent |-> None, email |-> None, row |-> None,
         request |-> None]

Init ==
  /\ table = [s \in Sessions |-> None]
  /\ now = 0
  /\ handler = [h \in Handlers |-> Idle]
  /\ sweep = [s \in Sessions |-> None]
  /\ presentation = [r \in Requests |->
                       [session |-> None, stage |-> "free", receipt |-> FALSE]]
  /\ disclosed = {}
  /\ wrongCodes = [s \in Sessions |-> 0]
  /\ pushed = [s \in Sessions |-> {}]

-----------------------------------------------------------------------------
(* The store.                                                              *)

IsPending(s) == table[s] # None /\ table[s].status = "pending"

PendingOf(agent) == {s \in Sessions : IsPending(s) /\ table[s].agentEntraId = agent}

\* The strict > of the scan leaves a tie to the order of the rows' keys.
MostRecentPendingOf(email) ==
  LET candidates == {s \in Sessions : IsPending(s) /\ table[s].callerEmail = email}
  IN  {s \in candidates :
         \A t \in candidates : table[t].createdAt <= table[s].createdAt}

UpdateAsync(row) == table' = [table EXCEPT ![row.sessionId] = row]

\* The handler moves on to its next call, carrying the row.
Continue(h, pc, row, request) ==
  handler' = [handler EXCEPT ![h] = [Idle EXCEPT !.pc = pc, !.row = row,
                                                 !.request = request]]

Return(h) == handler' = [handler EXCEPT ![h] = Idle]

-----------------------------------------------------------------------------
(* POST generate: count the agent's pending sessions, add a row, hand the  *)
(* code out.                                                               *)

\* Mutant: the cap is compared with <=.
GenerateCountOneMore(h, agent, email) ==
  /\ handler[h].pc = "idle"
  /\ Cardinality(PendingOf(agent)) <= MaxPendingSessionsPerAgent
  /\ handler' = [handler EXCEPT ![h] = [Idle EXCEPT !.pc = "create",
                                                    !.agent = agent,
                                                    !.email = email]]
  /\ UNCHANGED <<table, now, sweep, presentation, disclosed, wrongCodes, pushed>>

GenerateCount(h, agent, email) ==
  /\ handler[h].pc = "idle"
  /\ Cardinality(PendingOf(agent)) < MaxPendingSessionsPerAgent
  /\ handler' = [handler EXCEPT ![h] = [Idle EXCEPT !.pc = "create",
                                                    !.agent = agent,
                                                    !.email = email]]
  /\ UNCHANGED <<table, now, sweep, presentation, disclosed, wrongCodes, pushed>>

\* Mutant: the status is written in another case than the filters use.
NewRowMisspelt(s, agent, email) ==
  [sessionId |-> s, agentEntraId |-> agent, callerEmail |-> email,
   status |-> "Pending", failedAttempts |-> 0,
   requestId |-> None, callbackTokenHash |-> None,
   createdAt |-> now, expiresAt |-> now + CodeExpiryMinutes,
   verifiedAt |-> None, verifiedClaims |-> None]

NewRow(s, agent, email) ==
  [sessionId |-> s, agentEntraId |-> agent, callerEmail |-> email,
   status |-> "pending", failedAttempts |-> 0,
   requestId |-> None, callbackTokenHash |-> None,
   createdAt |-> now, expiresAt |-> now + CodeExpiryMinutes,
   verifiedAt |-> None, verifiedClaims |-> None]

GenerateCreate(h, s) ==
  /\ handler[h].pc = "create"
  /\ table[s] = None
  /\ now + CodeExpiryMinutes <= MaxTime  \* bound: every session can expire
  /\ LET row == NewRow(s, handler[h].agent, handler[h].email)
     IN  /\ table' = [table EXCEPT ![s] = row]
         /\ Continue(h, "disclose", row, None)
  /\ UNCHANGED <<now, sweep, presentation, disclosed, wrongCodes, pushed>>

\* The notification, or for verbal delivery the reply, carries the code.
GenerateDisclose(h) ==
  /\ handler[h].pc = "disclose"
  /\ disclosed' = disclosed \cup {handler[h].row.sessionId}
  /\ Return(h)
  /\ UNCHANGED <<table, now, sweep, presentation, wrongCodes, pushed>>

-----------------------------------------------------------------------------
(* POST initiate: find the session by its code, ask the Verified ID        *)
(* service for a presentation request, save the request's credentials.     *)

InitiateLookup(h, s) ==
  /\ handler[h].pc = "idle"
  /\ s \in disclosed
  /\ IsPending(s)
  /\ now < table[s].expiresAt
  /\ IF table[s].failedAttempts >= MaxFailedAttempts
       THEN Continue(h, "lockout", [table[s] EXCEPT !.status = "failed"], None)
       ELSE Continue(h, "request", table[s], None)
  /\ UNCHANGED <<table, now, sweep, presentation, disclosed, wrongCodes, pushed>>

\* Mutant: the new request's id is saved, its token is not.
InitiateRequestKeepsToken(h, r) ==
  /\ handler[h].pc = "request"
  /\ presentation[r].stage = "free"
  /\ presentation' = [presentation EXCEPT
                        ![r].session = handler[h].row.sessionId,
                        ![r].stage = "issued"]
  /\ Continue(h, "save", [handler[h].row EXCEPT !.requestId = r], r)
  /\ UNCHANGED <<table, now, sweep, disclosed, wrongCodes, pushed>>

\* Mutant: a new QR code extends the session.
InitiateRequestExtends(h, r) ==
  /\ handler[h].pc = "request"
  /\ presentation[r].stage = "free"
  /\ presentation' = [presentation EXCEPT
                        ![r].session = handler[h].row.sessionId,
                        ![r].stage = "issued"]
  /\ Continue(h, "save", [handler[h].row EXCEPT !.requestId = r,
                                                !.callbackTokenHash = r,
                                                !.expiresAt = now + CodeExpiryMinutes], r)
  /\ UNCHANGED <<table, now, sweep, disclosed, wrongCodes, pushed>>

InitiateRequest(h, r) ==
  /\ handler[h].pc = "request"
  /\ presentation[r].stage = "free"
  /\ presentation' = [presentation EXCEPT
                        ![r].session = handler[h].row.sessionId,
                        ![r].stage = "issued"]
  /\ Continue(h, "save", [handler[h].row EXCEPT !.requestId = r,
                                                !.callbackTokenHash = r], r)
  /\ UNCHANGED <<table, now, sweep, disclosed, wrongCodes, pushed>>

InitiateSave(h) ==
  /\ handler[h].pc = "save"
  /\ UpdateAsync(handler[h].row)
  /\ Continue(h, "reply", handler[h].row, handler[h].request)
  /\ UNCHANGED <<now, sweep, presentation, disclosed, wrongCodes, pushed>>

\* The caller sees the QR code only when the reply gets through.
InitiateReply(h) ==
  /\ handler[h].pc = "reply"
  /\ presentation' = [presentation EXCEPT ![handler[h].request].stage = "shown"]
  /\ Return(h)
  /\ UNCHANGED <<table, now, sweep, disclosed, wrongCodes, pushed>>

-----------------------------------------------------------------------------
(* POST initiate with a wrong code: the caller's most recent pending       *)
(* session is charged with a failed attempt.                               *)

\* Mutants: the threshold is compared before the increment, or with >.
FailedLookupEarly(h, email, s) ==
  /\ handler[h].pc = "idle"
  /\ s \in MostRecentPendingOf(email)
  /\ now < table[s].expiresAt
  /\ wrongCodes[s] < MaxWrongCodes
  /\ LET attempts == table[s].failedAttempts + 1
         verdict == IF attempts + 1 >= MaxFailedAttempts THEN "failed" ELSE "pending"
     IN  Continue(h, "reject", [table[s] EXCEPT !.failedAttempts = attempts,
                                                !.status = verdict], None)
  /\ UNCHANGED <<table, now, sweep, presentation, disclosed, wrongCodes, pushed>>

FailedLookupLate(h, email, s) ==
  /\ handler[h].pc = "idle"
  /\ s \in MostRecentPendingOf(email)
  /\ now < table[s].expiresAt
  /\ wrongCodes[s] < MaxWrongCodes
  /\ LET attempts == table[s].failedAttempts + 1
         verdict == IF attempts > MaxFailedAttempts THEN "failed" ELSE "pending"
     IN  Continue(h, "reject", [table[s] EXCEPT !.failedAttempts = attempts,
                                                !.status = verdict], None)
  /\ UNCHANGED <<table, now, sweep, presentation, disclosed, wrongCodes, pushed>>

FailedLookup(h, email, s) ==
  /\ handler[h].pc = "idle"
  /\ s \in MostRecentPendingOf(email)
  /\ now < table[s].expiresAt
  /\ wrongCodes[s] < MaxWrongCodes  \* bound
  /\ LET attempts == table[s].failedAttempts + 1
         verdict == IF attempts >= MaxFailedAttempts THEN "failed" ELSE "pending"
     IN  Continue(h, "reject", [table[s] EXCEPT !.failedAttempts = attempts,
                                                !.status = verdict], None)
  /\ UNCHANGED <<table, now, sweep, presentation, disclosed, wrongCodes, pushed>>

FailedSave(h) ==
  /\ handler[h].pc \in {"reject", "lockout"}
  /\ UpdateAsync(handler[h].row)
  /\ wrongCodes' = IF handler[h].pc = "reject"
                     THEN [wrongCodes EXCEPT ![handler[h].row.sessionId] = @ + 1]
                     ELSE wrongCodes
  /\ Return(h)
  /\ UNCHANGED <<now, sweep, presentation, disclosed, pushed>>

-----------------------------------------------------------------------------
(* POST callback: the service reports how the presentation to request r    *)
(* ended.  It may report late, and any number of times.                    *)

Outcomes == {"verified", "error"}

\* Mutants: the token is not compared; the status is not looked at.
CallbackAcceptedWithoutToken(row, r) ==
  /\ row.status = "pending"
  /\ row.requestId \in {None, r}
  /\ (RequireCallbackJwtValidation /\ presentation[r].stage = "verified")
       => presentation[r].receipt

CallbackAcceptedAnyStatus(row, r) ==
  /\ row.callbackTokenHash = r
  /\ row.requestId \in {None, r}
  /\ (RequireCallbackJwtValidation /\ presentation[r].stage = "verified")
       => presentation[r].receipt

CallbackAccepted(row, r) ==
  /\ row.status = "pending"
  /\ row.callbackTokenHash = r
  /\ row.requestId \in {None, r}
  /\ (RequireCallbackJwtValidation /\ presentation[r].stage = "verified")
       => presentation[r].receipt

CallbackLoad(h, r) ==
  /\ handler[h].pc = "idle"
  /\ presentation[r].stage \in Outcomes
  /\ table[presentation[r].session] # None
  /\ CallbackAccepted(table[presentation[r].session], r)
  /\ Continue(h, "accept", table[presentation[r].session], r)
  /\ UNCHANGED <<table, now, sweep, presentation, disclosed, wrongCodes, pushed>>

DecidedRow(row, r) ==
  IF presentation[r].stage = "verified"
    THEN [row EXCEPT !.status = "verified", !.verifiedAt = now, !.verifiedClaims = r]
    ELSE [row EXCEPT !.status = "failed"]

\* Mutant: a callback that reports a failure ends with its save.
CallbackSaveUntold(h) ==
  /\ handler[h].pc = "accept"
  /\ LET row == DecidedRow(handler[h].row, handler[h].request)
     IN  /\ UpdateAsync(row)
         /\ IF row.status = "failed" THEN Return(h)
                                    ELSE Continue(h, "push", row, handler[h].request)
  /\ UNCHANGED <<now, sweep, presentation, disclosed, wrongCodes, pushed>>

CallbackSave(h) ==
  /\ handler[h].pc = "accept"
  /\ LET row == DecidedRow(handler[h].row, handler[h].request)
     IN  /\ UpdateAsync(row)
         /\ Continue(h, "push", row, handler[h].request)
  /\ UNCHANGED <<now, sweep, presentation, disclosed, wrongCodes, pushed>>

\* Mutant: one event for every outcome.
EventOfAnyOutcome(row) ==
  IF row.status \in Statuses THEN "VerificationComplete" ELSE "VerificationFailed"

EventOf(row) ==
  IF row.status = "verified" THEN "VerificationComplete" ELSE "VerificationFailed"

CallbackPush(h) ==
  /\ handler[h].pc = "push"
  /\ pushed' = [pushed EXCEPT ![handler[h].row.sessionId] =
                                @ \cup {EventOf(handler[h].row)}]
  /\ Return(h)
  /\ UNCHANGED <<table, now, sweep, presentation, disclosed, wrongCodes>>

-----------------------------------------------------------------------------
(* A handler ends early: a call it awaits throws, or the process stops.    *)

HandlerFails(h) ==
  /\ handler[h].pc # "idle"
  /\ Return(h)
  /\ UNCHANGED <<table, now, sweep, presentation, disclosed, wrongCodes, pushed>>

-----------------------------------------------------------------------------
(* The expiry sweep: query once, then write the rows back one at a time.   *)

IsOverdue(s) == IsPending(s) /\ table[s].expiresAt <= now

SweepQuery ==
  /\ \A s \in Sessions : sweep[s] = None
  /\ \E s \in Sessions : IsOverdue(s)
  /\ sweep' = [s \in Sessions |-> IF IsOverdue(s) THEN table[s] ELSE None]
  /\ UNCHANGED <<table, now, handler, presentation, disclosed, wrongCodes, pushed>>

\* Mutants: only the status is merged into the row; the status is never set.
SweepSaveMerged(s) ==
  /\ sweep[s] # None
  /\ UpdateAsync([table[s] EXCEPT !.status = "expired"])
  /\ sweep' = [sweep EXCEPT ![s] = None]
  /\ UNCHANGED <<now, handler, presentation, disclosed, wrongCodes, pushed>>

SweepSaveUnmarked(s) ==
  /\ sweep[s] # None
  /\ UpdateAsync(sweep[s])
  /\ sweep' = [sweep EXCEPT ![s] = None]
  /\ UNCHANGED <<now, handler, presentation, disclosed, wrongCodes, pushed>>

SweepSave(s) ==
  /\ sweep[s] # None
  /\ UpdateAsync([sweep[s] EXCEPT !.status = "expired"])
  /\ sweep' = [sweep EXCEPT ![s] = None]
  /\ UNCHANGED <<now, handler, presentation, disclosed, wrongCodes, pushed>>

\* An exception ends the pass; the service logs it and sweeps again later.
SweepFails ==
  /\ \E s \in Sessions : sweep[s] # None
  /\ sweep' = [s \in Sessions |-> None]
  /\ UNCHANGED <<table, now, handler, presentation, disclosed, wrongCodes, pushed>>

-----------------------------------------------------------------------------
(* The environment.                                                        *)

\* The caller scans the QR code once and presents a credential, or fails to.
CallerPresents(r) ==
  /\ presentation[r].stage = "shown"
  /\ \E outcome \in Outcomes, receipt \in BOOLEAN :
        /\ receipt => outcome = "verified"
        /\ presentation' = [presentation EXCEPT ![r] =
                              [@ EXCEPT !.stage = outcome, !.receipt = receipt]]
  /\ UNCHANGED <<table, now, handler, sweep, disclosed, wrongCodes, pushed>>

Tick ==
  /\ now < MaxTime  \* bound
  /\ now' = now + 1
  /\ UNCHANGED <<table, handler, sweep, presentation, disclosed, wrongCodes, pushed>>

-----------------------------------------------------------------------------

\* A request arrives and its first store call is answered.
Arrive(h) ==
  \/ \E agent \in Agents, email \in Emails : GenerateCount(h, agent, email)
  \/ \E s \in Sessions : InitiateLookup(h, s)
  \/ \E email \in Emails, s \in Sessions : FailedLookup(h, email, s)
  \/ \E r \in Requests : CallbackLoad(h, r)

\* A request in progress takes its next step.
Proceed(h) ==
  \/ \E s \in Sessions : GenerateCreate(h, s)
  \/ GenerateDisclose(h)
  \/ \E r \in Requests : InitiateRequest(h, r)
  \/ InitiateSave(h)
  \/ InitiateReply(h)
  \/ FailedSave(h)
  \/ CallbackSave(h)
  \/ CallbackPush(h)
  \/ HandlerFails(h)

Next ==
  \/ \E h \in Handlers : Arrive(h) \/ Proceed(h)
  \/ SweepQuery
  \/ \E s \in Sessions : SweepSave(s)
  \/ SweepFails
  \/ \E r \in Requests : CallerPresents(r)
  \/ Tick

Spec == Init /\ [][Next]_vars

\* A request in progress ends one way or another, the clock runs, and the
\* sweep is repeated for as long as the service is up; one pass may fail, but
\* a row that is overdue in every pass is written back in some pass.
Fairness ==
  /\ \A h \in Handlers : WF_vars(Proceed(h))
  /\ WF_vars(Tick)
  /\ WF_vars(SweepQuery)
  /\ \A s \in Sessions : SF_vars(SweepSave(s))

FairSpec == Spec /\ Fairness

\* The same system when requests and sweeps never overlap.
AtMostOneBusy ==
  /\ \A g, h \in Handlers :
        handler[g].pc # "idle" /\ handler[h].pc # "idle" => g = h
  /\ (\E h \in Handlers : handler[h].pc # "idle")
        => \A s \in Sessions : sweep[s] = None

SerialSpec == Init /\ [][Next /\ AtMostOneBusy']_vars

-----------------------------------------------------------------------------
(* Properties.                                                             *)

Rows == {s \in Sessions : table[s] # None}

\* The request a row names was issued for that row's session, and the callback
\* token the row expects is the one that request was given: a handler never
\* joins one request's id to another's token, however handlers overlap
\* (VerificationController 161-163 against a second initiate).
CredentialsPaired ==
  \A s \in Rows :
     /\ table[s].requestId = table[s].callbackTokenHash
     /\ table[s].requestId # None
          => presentation[table[s].requestId].session = s

\* A session reads "verified" only if a credential was presented, and accepted,
\* to the very request its row names -- with a receipt when receipts are
\* required -- and its claims are that presentation's: no overwriting of rows
\* ever invents a verification or mixes two (CallbackController 62-119).
VerifiedByItsRequest ==
  \A s \in Rows : table[s].status = "verified" =>
     /\ table[s].requestId # None
     /\ presentation[table[s].requestId].stage = "verified"
     /\ RequireCallbackJwtValidation => presentation[table[s].requestId].receipt
     /\ table[s].verifiedClaims = table[s].requestId

\* VerifiedAt and VerifiedClaims are on a row exactly while it is verified: a
\* stale copy that wins over a verified row takes the claims away with the
\* status, and never leaves half of them (AzureTableSessionStore 90-94, 118-121).
VerifiedFieldsTogether ==
  \A s \in Rows : /\ table[s].status = "verified" <=> table[s].verifiedAt # None
                  /\ table[s].status = "verified" <=> table[s].verifiedClaims # None

\* A session reads "failed" only after as many rejected codes as the lockout
\* asks for, or after a presentation error reported on its own request, and it
\* is never charged with more failures than codes were rejected
\* (VerificationController 265-274, CallbackController 138-141).
FailureIsEarned ==
  \A s \in Rows :
     /\ table[s].failedAttempts <= wrongCodes[s]
     /\ table[s].status = "failed" =>
          \/ wrongCodes[s] >= MaxFailedAttempts
          \/ /\ table[s].requestId # None
             /\ presentation[table[s].requestId].stage = "error"

\* No session is left pending at or over the threshold, so the lockout branch
\* of initiate (VerificationController 139-144) is never what ends a session.
PendingBelowThreshold ==
  \A s \in Rows :
     /\ table[s].failedAttempts <= MaxFailedAttempts
     /\ table[s].status = "pending" => table[s].failedAttempts < MaxFailedAttempts

\* The agent's page is told of a verification only when a credential was
\* accepted for that session, and of a failure only when a presentation ended
\* in an error (CallbackController 121-128, 143-147).
PushedOutcomeHappened ==
  \A s \in Sessions :
     /\ "VerificationComplete" \in pushed[s] =>
          \E r \in Requests : /\ presentation[r].session = s
                              /\ presentation[r].stage = "verified"
     /\ "VerificationFailed" \in pushed[s] =>
          \E r \in Requests : /\ presentation[r].session = s
                              /\ presentation[r].stage = "error"

\* A row never disappears or changes hands: whoever writes it back, it stays
\* the same agent's session for the same caller, with the same expiry time
\* (UpsertEntity in Replace mode, AzureTableSessionStore 90-94).
IdentityKept ==
  [][\A s \in Rows :
        /\ table'[s] # None
        /\ table'[s].sessionId = s
        /\ table'[s].agentEntraId = table[s].agentEntraId
        /\ table'[s].callerEmail = table[s].callerEmail
        /\ table'[s].createdAt = table[s].createdAt
        /\ table'[s].expiresAt = table[s].expiresAt]_vars

\* The event a callback between its save and its push has yet to send.
Owed(h) ==
  IF handler[h].pc = "push" THEN <<handler[h].row.sessionId, EventOf(handler[h].row)>>
                            ELSE <<>>

\* The life cycle this table implements, and the server its readers see.
Lifecycle ==
  INSTANCE SessionServer WITH
    Callbacks <- Handlers,
    owed <- [h \in Handlers |-> Owed(h)],
    status <- [s \in Sessions |-> IF table[s] = None THEN "absent"
                                                     ELSE table[s].status],
    presented <- {s \in Sessions : \E r \in Requests :
                    presentation[r].session = s /\ presentation[r].stage = "verified"},
    refused <- {s \in Sessions : \E r \in Requests :
                  presentation[r].session = s /\ presentation[r].stage = "error"},
    lockedOut <- {s \in Sessions : wrongCodes[s] >= MaxFailedAttempts},
    late <- {s \in Sessions : table[s] # None /\ table[s].expiresAt <= now}

\* With handlers overlapping, every status written is backed by evidence, but
\* an earlier status may come back.
ImplementsLossyLifecycle == Lifecycle!LossySpec

\* Nor is a verification, or a refused presentation, ever written without the
\* writer owing its event to the session's group, whoever overwrites whom; only
\* sweep, lockout and pending copies are silent (CallbackController 119-147,
\* VerificationController 163, 265-275).
ImplementsSessionServer == Lifecycle!ServerSpec

\* A final status is final: the life cycle as documented.  Holds when requests
\* and sweeps do not overlap; does not hold when they do.
ImplementsLifecycle == Lifecycle!Spec

\* As many wrong codes as the threshold end the session.  Serially true; two
\* overlapping rejections can be counted as one (VerificationController 261-273).
LockoutReached ==
  \A s \in Rows : wrongCodes[s] >= MaxFailedAttempts => table[s].status # "pending"

\* An agent never has more pending sessions than the cap.  Serially true; two
\* overlapping generates both pass the count (VerificationController 58-84).
PendingCapRespected ==
  \A agent \in Agents : Cardinality(PendingOf(agent)) <= MaxPendingSessionsPerAgent

\* A session's group is sent one event at most, whatever the number of requests
\* and of deliveries of their callbacks.  Serially true; of two overlapping
\* deliveries both are pushed (CallbackController 61-63, 121, 143).
PushedAtMostOnce ==
  [][\A h \in Handlers : CallbackPush(h) => pushed[handler[h].row.sessionId] = {}]_vars

\* A verified session stays verified.  Serially true (ImplementsLifecycle); a
\* handler or a sweep that read the row while it was pending writes its pending
\* copy back over it (AzureTableSessionStore 90-94).
VerifiedIsFinal ==
  [][\A s \in Rows : table[s].status = "verified" => table'[s].status = "verified"]_vars

\* No session becomes verified at or after its expiry time.
VerifiedInTime ==
  \A s \in Rows : table[s].status = "verified" => table[s].verifiedAt < table[s].expiresAt

\* Every session is in the end settled for good: no interleaving, failed pass
\* of the sweep or lost update keeps it pending (SessionExpiryService 18-33).
EventuallySettled ==
  \A s \in Sessions : IsPending(s) ~> []~IsPending(s)

=============================================================================
