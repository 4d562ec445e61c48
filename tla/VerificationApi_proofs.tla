------------------------ MODULE VerificationApi_proofs ------------------------
(***************************************************************************)
(* Theorems about VerificationApi, for every number of sessions, agents,   *)
(* callers, presentation requests and overlapping handlers.                *)
(*                                                                         *)
(* Rows are overwritten by copies read earlier, so an invariant of the     *)
(* table alone is not inductive: IInv asks the same of every copy in       *)
(* flight -- in the table, in a handler, in the sweep -- and the facts a   *)
(* copy rests on (Evolves) are ones no step takes back.                    *)
(***************************************************************************)
EXTENDS VerificationApi, TLAPS

\* Two rows are copies of one session.
SameIdentity(a, b) ==
  /\ a.sessionId = b.sessionId
  /\ a.agentEntraId = b.agentEntraId
  /\ a.callerEmail = b.callerEmail
  /\ a.createdAt = b.createdAt
  /\ a.expiresAt = b.expiresAt

\* What holds of every copy of a row, however old.
Sound(row) ==
  /\ row \in Row
  /\ table[row.sessionId] # None
  /\ SameIdentity(row, table[row.sessionId])
  /\ row.failedAttempts <= MaxFailedAttempts
  /\ row.status = "pending" => row.failedAttempts < MaxFailedAttempts
  /\ row.requestId = row.callbackTokenHash
  /\ row.requestId # None =>
        /\ presentation[row.requestId].session = row.sessionId
        /\ presentation[row.requestId].stage # "free"
  /\ row.status = "verified" =>
        /\ row.requestId # None
        /\ presentation[row.requestId].stage = "verified"
        /\ RequireCallbackJwtValidation => presentation[row.requestId].receipt
        /\ row.verifiedClaims = row.requestId
        /\ row.verifiedAt # None
  /\ row.status # "verified" => row.verifiedAt = None /\ row.verifiedClaims = None
  /\ row.status = "failed" =>
        \/ row.failedAttempts >= MaxFailedAttempts
        \/ /\ row.requestId # None
           /\ presentation[row.requestId].stage = "error"
  /\ row.status = "expired" => row.expiresAt <= now

\* The row is charged with no more failures than codes were rejected.
Charged(row) == row.failedAttempts <= wrongCodes[row.sessionId]

\* Points of a handler that holds a row.
Holding == Points \ {"idle", "create"}

OpSound(op) ==
  /\ op.pc = "create" => op.agent \in Agents /\ op.email \in Emails
  /\ op.pc \in Holding => Sound(op.row)
  /\ op.pc \in Holding \ {"reject"} => Charged(op.row)
  /\ op.pc = "reject" => op.row.failedAttempts <= wrongCodes[op.row.sessionId] + 1
  /\ op.pc = "request" => op.row.status = "pending"
  /\ op.pc \in {"save", "reply"} =>
        /\ op.request \in Requests
        /\ presentation[op.request].stage = "issued"
  /\ op.pc = "accept" =>
        /\ op.request \in Requests
        /\ presentation[op.request].stage \in Outcomes
        /\ op.row.status = "pending"
        /\ op.row.requestId = op.request
        /\ (RequireCallbackJwtValidation /\ presentation[op.request].stage = "verified")
             => presentation[op.request].receipt
  /\ op.pc = "push" =>
        /\ op.row.requestId # None
        /\ \/ /\ op.row.status = "verified"
              /\ presentation[op.row.requestId].stage = "verified"
           \/ /\ op.row.status = "failed"
              /\ presentation[op.row.requestId].stage = "error"

TableSound ==
  \A s \in Sessions : table[s] # None =>
     /\ table[s].sessionId = s
     /\ Sound(table[s])
     /\ Charged(table[s])

SweepSound ==
  \A s \in Sessions : sweep[s] # None =>
     /\ sweep[s].sessionId = s
     /\ sweep[s].status = "pending"
     /\ sweep[s].expiresAt <= now
     /\ Sound(sweep[s])
     /\ Charged(sweep[s])

HandlersSound == \A h \in Handlers : OpSound(handler[h])

\* Two initiates never hold the same fresh request.
RequestsApart ==
  \A g, h \in Handlers :
     /\ g # h
     /\ handler[g].pc \in {"save", "reply"}
     /\ handler[h].pc \in {"save", "reply"}
     => handler[g].request # handler[h].request

RequestsOwned ==
  \A r \in Requests :
     presentation[r].stage # "free" => presentation[r].session \in Sessions

IInv ==
  /\ TypeOK
  /\ TableSound
  /\ SweepSound
  /\ HandlersSound
  /\ RequestsApart
  /\ RequestsOwned
  /\ PushedOutcomeHappened

\* What a step never takes back.
Evolves ==
  /\ \A s \in Sessions : table[s] # None =>
        /\ table'[s] # None
        /\ SameIdentity(table[s], table'[s])
  /\ \A r \in Requests : presentation[r].stage # "free" =>
        /\ presentation'[r].stage # "free"
        /\ presentation'[r].session = presentation[r].session
  /\ \A r \in Requests : presentation[r].stage \in Outcomes =>
        presentation'[r] = presentation[r]
  /\ \A s \in Sessions : wrongCodes[s] <= wrongCodes'[s]
  /\ now <= now'

-----------------------------------------------------------------------------
(* Copies stay sound while the system evolves.                             *)

\* A sound copy of a row stays sound whatever the others do.
LEMMA SoundKept ==
  ASSUME TypeOK, TypeOK', Evolves, NEW row, Sound(row)
  PROVE  Sound(row)'
<1>1. row.sessionId \in Sessions /\ row.requestId \in Requests \cup {None}
  BY DEF Sound, Row
<1>2. table'[row.sessionId] # None /\ SameIdentity(row, table'[row.sessionId])
  BY <1>1 DEF Sound, Evolves, SameIdentity
<1>3. row.requestId # None =>
        /\ presentation'[row.requestId].session = row.sessionId
        /\ presentation'[row.requestId].stage # "free"
  BY <1>1 DEF Sound, Evolves
<1>4. row.requestId # None /\ presentation[row.requestId].stage \in Outcomes
        => presentation'[row.requestId] = presentation[row.requestId]
  BY <1>1 DEF Evolves
<1>5. row.status = "expired" => row.expiresAt <= now'
  <2>1. now \in Nat /\ now' \in Nat /\ now <= now' /\ row.expiresAt \in Nat
    BY DEF TypeOK, Evolves, Sound, Row
  <2> QED BY <2>1 DEF Sound
<1> QED BY <1>1, <1>2, <1>3, <1>4, <1>5 DEF Sound, Outcomes

\* A row charged fairly stays so: rejections are only ever added.
LEMMA ChargedKept ==
  ASSUME TypeOK, TypeOK', Evolves, NEW row \in Row, Charged(row)
  PROVE  Charged(row)'
<1>1. row.sessionId \in Sessions /\ row.failedAttempts \in Nat
  BY DEF Row
<1>2. /\ wrongCodes[row.sessionId] \in Nat
      /\ wrongCodes'[row.sessionId] \in Nat
      /\ wrongCodes[row.sessionId] <= wrongCodes'[row.sessionId]
  BY <1>1 DEF TypeOK, Evolves
<1> QED BY <1>1, <1>2 DEF Charged

\* A handler that does not move stays sound, provided nobody touches the
\* request it has just been issued.
LEMMA OpKept ==
  ASSUME TypeOK, TypeOK', Evolves, NEW op, OpSound(op),
         op.pc \in {"save", "reply"} =>
           presentation'[op.request].stage = presentation[op.request].stage
  PROVE  OpSound(op)'
<1>1. op.pc \in Holding => Sound(op.row)' /\ op.row \in Row
  BY SoundKept DEF OpSound, Sound
<1>2. op.pc \in Holding \ {"reject"} => Charged(op.row)'
  BY <1>1, ChargedKept DEF OpSound
<1>3. op.pc = "reject" => op.row.failedAttempts <= wrongCodes'[op.row.sessionId] + 1
  <2> SUFFICES ASSUME op.pc = "reject"
               PROVE  op.row.failedAttempts <= wrongCodes'[op.row.sessionId] + 1
    OBVIOUS
  <2>1. op.row.sessionId \in Sessions /\ op.row.failedAttempts \in Nat
    BY <1>1 DEF Holding, Points, Row
  <2>2. /\ wrongCodes[op.row.sessionId] \in Nat
        /\ wrongCodes'[op.row.sessionId] \in Nat
        /\ wrongCodes[op.row.sessionId] <= wrongCodes'[op.row.sessionId]
    BY <2>1 DEF TypeOK, Evolves
  <2> QED BY <2>1, <2>2 DEF OpSound
<1>4. op.pc = "accept" =>
        /\ op.request \in Requests
        /\ presentation'[op.request] = presentation[op.request]
  BY DEF OpSound, Evolves
<1>5. op.pc = "push" =>
        presentation'[op.row.requestId] = presentation[op.row.requestId]
  <2> SUFFICES ASSUME op.pc = "push"
               PROVE  presentation'[op.row.requestId] = presentation[op.row.requestId]
    OBVIOUS
  <2>1. op.row.requestId \in Requests
    BY <1>1 DEF OpSound, Holding, Points, Row
  <2> QED BY <2>1 DEF OpSound, Evolves, Outcomes
<1> QED BY <1>1, <1>2, <1>3, <1>4, <1>5 DEF OpSound

-----------------------------------------------------------------------------
(* The rows that the handlers build.                                       *)

\* A handler that holds a row holds a typed one, of an existing session.
LEMMA HeldRow ==
  ASSUME TypeOK, HandlersSound, NEW h \in Handlers, handler[h].pc \in Holding
  PROVE  /\ handler[h].row \in Row
         /\ handler[h].row.sessionId \in Sessions
         /\ Sound(handler[h].row)
         /\ table[handler[h].row.sessionId] # None
         /\ SameIdentity(handler[h].row, table[handler[h].row.sessionId])
BY DEF HandlersSound, OpSound, Sound, Row

\* A row the callback decides is the loaded row with status, time and claims set.
LEMMA DecidedRowFields ==
  ASSUME TypeOK, NEW row \in Row, NEW r \in Requests
  PROVE  /\ DecidedRow(row, r) \in Row
         /\ SameIdentity(DecidedRow(row, r), row)
         /\ DecidedRow(row, r).failedAttempts = row.failedAttempts
         /\ DecidedRow(row, r).requestId = row.requestId
         /\ DecidedRow(row, r).callbackTokenHash = row.callbackTokenHash
         /\ presentation[r].stage = "verified" =>
               /\ DecidedRow(row, r).status = "verified"
               /\ DecidedRow(row, r).verifiedAt = now
               /\ DecidedRow(row, r).verifiedClaims = r
         /\ presentation[r].stage # "verified" =>
               /\ DecidedRow(row, r).status = "failed"
               /\ DecidedRow(row, r).verifiedAt = row.verifiedAt
               /\ DecidedRow(row, r).verifiedClaims = row.verifiedClaims
<1>1. now \in Nat
  BY DEF TypeOK
<1> QED BY <1>1 DEF DecidedRow, Row, SameIdentity, Statuses

\* A step that writes a copy over its session's row keeps every row's identity.
LEMMA WriteEvolves ==
  ASSUME TypeOK, TableSound, NEW row \in Row,
         table[row.sessionId] # None, SameIdentity(row, table[row.sessionId]),
         UpdateAsync(row)
  PROVE  \A s \in Sessions : table[s] # None =>
            table'[s] # None /\ SameIdentity(table[s], table'[s])
<1>1. row # None
  BY NoneAssumption
<1> QED BY <1>1 DEF TypeOK, UpdateAsync, SameIdentity, Row

\* No step takes back a session's identity, a request's session or outcome, or
\* a rejection.
LEMMA StepEvolves ==
  ASSUME IInv, [Next]_vars
  PROVE  Evolves
<1> USE DEF IInv
<1>0. ASSUME UNCHANGED <<table, presentation, wrongCodes>>, now' \in {now, now + 1}
      PROVE  Evolves
  BY <1>0 DEF Evolves, SameIdentity, TypeOK
<1>1. ASSUME NEW h \in Handlers, NEW agent \in Agents, NEW email \in Emails,
             GenerateCount(h, agent, email)
      PROVE  Evolves
  BY <1>1, <1>0 DEF GenerateCount
<1>2. ASSUME NEW h \in Handlers, NEW s \in Sessions, InitiateLookup(h, s)
      PROVE  Evolves
  BY <1>2, <1>0 DEF InitiateLookup
<1>3. ASSUME NEW h \in Handlers, NEW email \in Emails, NEW s \in Sessions,
             FailedLookup(h, email, s)
      PROVE  Evolves
  BY <1>3, <1>0 DEF FailedLookup
<1>4. ASSUME NEW h \in Handlers, NEW r \in Requests, CallbackLoad(h, r)
      PROVE  Evolves
  BY <1>4, <1>0 DEF CallbackLoad
<1>5. ASSUME NEW h \in Handlers, NEW s \in Sessions, GenerateCreate(h, s)
      PROVE  Evolves
  BY <1>5 DEF GenerateCreate, Evolves, SameIdentity, TypeOK
<1>6. ASSUME NEW h \in Handlers, GenerateDisclose(h)
      PROVE  Evolves
  BY <1>6, <1>0 DEF GenerateDisclose
<1>7. ASSUME NEW h \in Handlers, NEW r \in Requests, InitiateRequest(h, r)
      PROVE  Evolves
  BY <1>7 DEF InitiateRequest, Evolves, SameIdentity, TypeOK, Outcomes
<1>8. ASSUME NEW h \in Handlers, InitiateSave(h)
      PROVE  Evolves
  <2>1. handler[h].pc \in Holding
    BY <1>8 DEF InitiateSave, Holding, Points
  <2>2. UpdateAsync(handler[h].row) /\ UNCHANGED <<now, presentation, wrongCodes>>
    BY <1>8 DEF InitiateSave
  <2> QED BY <2>1, <2>2, HeldRow, WriteEvolves DEF Evolves, TypeOK
<1>9. ASSUME NEW h \in Handlers, InitiateReply(h)
      PROVE  Evolves
  <2>1. /\ handler[h].request \in Requests
        /\ presentation[handler[h].request].stage = "issued"
    BY <1>9 DEF InitiateReply, HandlersSound, OpSound
  <2> QED BY <1>9, <2>1 DEF InitiateReply, Evolves, SameIdentity, TypeOK, Outcomes
<1>10. ASSUME NEW h \in Handlers, FailedSave(h)
       PROVE  Evolves
  <2>1. handler[h].pc \in Holding
    BY <1>10 DEF FailedSave, Holding, Points
  <2>2. UpdateAsync(handler[h].row) /\ UNCHANGED <<now, presentation>>
    BY <1>10 DEF FailedSave
  <2>3. \A s \in Sessions : wrongCodes[s] <= wrongCodes'[s]
    BY <1>10 DEF FailedSave, TypeOK
  <2> QED BY <2>1, <2>2, <2>3, HeldRow, WriteEvolves DEF Evolves, TypeOK
<1>11. ASSUME NEW h \in Handlers, CallbackSave(h)
       PROVE  Evolves
  <2> DEFINE row == DecidedRow(handler[h].row, handler[h].request)
  <2>1. handler[h].pc \in Holding /\ handler[h].request \in Requests
    BY <1>11 DEF CallbackSave, Holding, Points, HandlersSound, OpSound
  <2>2. row \in Row /\ SameIdentity(row, handler[h].row)
    BY <2>1, HeldRow, DecidedRowFields
  <2>3. table[row.sessionId] # None /\ SameIdentity(row, table[row.sessionId])
    BY <2>1, <2>2, HeldRow DEF SameIdentity
  <2>4. UpdateAsync(row) /\ UNCHANGED <<now, presentation, wrongCodes>>
    BY <1>11 DEF CallbackSave
  <2> QED BY <2>2, <2>3, <2>4, WriteEvolves DEF Evolves, TypeOK
<1>12. ASSUME NEW h \in Handlers, CallbackPush(h)
       PROVE  Evolves
  BY <1>12, <1>0 DEF CallbackPush
<1>13. ASSUME NEW h \in Handlers, HandlerFails(h)
       PROVE  Evolves
  BY <1>13, <1>0 DEF HandlerFails
<1>14. ASSUME SweepQuery
       PROVE  Evolves
  BY <1>14, <1>0 DEF SweepQuery
<1>15. ASSUME NEW s \in Sessions, SweepSave(s)
       PROVE  Evolves
  <2> DEFINE row == [sweep[s] EXCEPT !.status = "expired"]
  <2>1. sweep[s] \in Row /\ Sound(sweep[s])
    BY <1>15 DEF SweepSave, SweepSound, Sound
  <2>2. row \in Row /\ SameIdentity(row, sweep[s])
    BY <2>1 DEF Row, SameIdentity, Statuses
  <2>3. table[row.sessionId] # None /\ SameIdentity(row, table[row.sessionId])
    BY <2>1, <2>2 DEF Sound, SameIdentity
  <2>4. UpdateAsync(row) /\ UNCHANGED <<now, presentation, wrongCodes>>
    BY <1>15 DEF SweepSave
  <2> HIDE DEF row
  <2> QED BY <2>2, <2>3, <2>4, WriteEvolves DEF Evolves, TypeOK
<1>16. ASSUME SweepFails
       PROVE  Evolves
  BY <1>16, <1>0 DEF SweepFails
<1>17. ASSUME NEW r \in Requests, CallerPresents(r)
       PROVE  Evolves
  BY <1>17 DEF CallerPresents, Evolves, SameIdentity, TypeOK, Outcomes
<1>18. ASSUME Tick
       PROVE  Evolves
  BY <1>18, <1>0 DEF Tick
<1>19. CASE UNCHANGED vars
  BY <1>19, <1>0 DEF vars
<1> QED
  BY <1>1, <1>2, <1>3, <1>4, <1>5, <1>6, <1>7, <1>8, <1>9, <1>10, <1>11, <1>12,
     <1>13, <1>14, <1>15, <1>16, <1>17, <1>18, <1>19
     DEF Next, Arrive, Proceed

-----------------------------------------------------------------------------
(* Types.                                                                  *)

\* A handler that moves on or returns keeps the type of the handlers.
LEMMA ContinueTyped ==
  ASSUME TypeOK, NEW h \in Handlers,
         \/ Return(h)
         \/ \E pc \in Points, row \in Row, request \in Requests \cup {None} :
               Continue(h, pc, row, request)
  PROVE  handler' \in [Handlers -> Op]
<1>1. CASE Return(h)
  BY <1>1 DEF TypeOK, Return, Idle, Op, Points
<1>2. ASSUME NEW pc \in Points, NEW row \in Row, NEW request \in Requests \cup {None},
             Continue(h, pc, row, request)
      PROVE  handler' \in [Handlers -> Op]
  <2>1. [Idle EXCEPT !.pc = pc, !.row = row, !.request = request] \in Op
    BY DEF Idle, Op
  <2> QED BY <1>2, <2>1 DEF Continue, TypeOK
<1> QED BY <1>1, <1>2

\* Writing a row keeps the type of the table.
LEMMA UpdateTyped ==
  ASSUME TypeOK, NEW row \in Row, UpdateAsync(row)
  PROVE  table' \in [Sessions -> Row \cup {None}]
BY DEF TypeOK, UpdateAsync, Row

\* The session a wrong code is charged to is pending.
LEMMA MostRecentIsPending ==
  ASSUME NEW email \in Emails, NEW s \in MostRecentPendingOf(email)
  PROVE  s \in Sessions /\ IsPending(s)
BY DEF MostRecentPendingOf

\* Every step keeps the types.
LEMMA StepTypeOK ==
  ASSUME IInv, [Next]_vars
  PROVE  TypeOK'
<1> USE DEF IInv
<1>1. ASSUME NEW h \in Handlers, NEW agent \in Agents, NEW email \in Emails,
             GenerateCount(h, agent, email)
      PROVE  TypeOK'
  <2>1. [Idle EXCEPT !.pc = "create", !.agent = agent, !.email = email] \in Op
    BY DEF Idle, Op, Points
  <2> QED BY <1>1, <2>1 DEF GenerateCount, TypeOK
<1>2. ASSUME NEW h \in Handlers, NEW s \in Sessions, InitiateLookup(h, s)
      PROVE  TypeOK'
  <2>1. /\ table[s] \in Row
        /\ [table[s] EXCEPT !.status = "failed"] \in Row
    BY <1>2 DEF InitiateLookup, IsPending, TypeOK, Row, Statuses
  <2>2. handler' \in [Handlers -> Op]
    BY <1>2, <2>1, ContinueTyped DEF InitiateLookup, Points
  <2> QED BY <1>2, <2>2 DEF InitiateLookup, TypeOK
<1>3. ASSUME NEW h \in Handlers, NEW email \in Emails, NEW s \in Sessions,
             FailedLookup(h, email, s)
      PROVE  TypeOK'
  <2> DEFINE attempts == table[s].failedAttempts + 1
             verdict == IF attempts >= MaxFailedAttempts THEN "failed" ELSE "pending"
             row == [table[s] EXCEPT !.failedAttempts = attempts, !.status = verdict]
  <2>1. table[s] # None
    BY <1>3, MostRecentIsPending DEF FailedLookup, IsPending
  <2>2. table[s] \in Row /\ attempts \in Nat /\ verdict \in Statuses
    BY <2>1 DEF TypeOK, Row, Statuses
  <2>3. row \in Row
    BY <2>2 DEF Row
  <2>4. Continue(h, "reject", row, None)
    BY <1>3 DEF FailedLookup
  <2> HIDE DEF row
  <2>5. handler' \in [Handlers -> Op]
    BY <2>3, <2>4, ContinueTyped DEF Points
  <2> QED BY <1>3, <2>5 DEF FailedLookup, TypeOK
<1>4. ASSUME NEW h \in Handlers, NEW r \in Requests, CallbackLoad(h, r)
      PROVE  TypeOK'
  <2>1. table[presentation[r].session] \in Row
    BY <1>4 DEF CallbackLoad, Outcomes, RequestsOwned, TypeOK
  <2>2. handler' \in [Handlers -> Op]
    BY <1>4, <2>1, ContinueTyped DEF CallbackLoad, Points
  <2> QED BY <1>4, <2>2 DEF CallbackLoad, TypeOK
<1>5. ASSUME NEW h \in Handlers, NEW s \in Sessions, GenerateCreate(h, s)
      PROVE  TypeOK'
  <2> DEFINE row == NewRow(s, handler[h].agent, handler[h].email)
  <2>1. handler[h].agent \in Agents /\ handler[h].email \in Emails
    BY <1>5 DEF GenerateCreate, HandlersSound, OpSound
  <2>2. row \in Row
    BY <2>1, ConstantsAssumption DEF NewRow, Row, Statuses, TypeOK
  <2>3. /\ table' = [table EXCEPT ![s] = row]
        /\ Continue(h, "disclose", row, None)
    BY <1>5 DEF GenerateCreate
  <2> HIDE DEF row
  <2>4. handler' \in [Handlers -> Op]
    BY <2>2, <2>3, ContinueTyped DEF Points
  <2> QED BY <1>5, <2>2, <2>3, <2>4 DEF GenerateCreate, TypeOK
<1>6. ASSUME NEW h \in Handlers, GenerateDisclose(h)
      PROVE  TypeOK'
  <2>1. handler[h].row.sessionId \in Sessions
    BY <1>6, HeldRow DEF GenerateDisclose, Holding, Points
  <2>2. handler' \in [Handlers -> Op]
    BY <1>6, ContinueTyped DEF GenerateDisclose
  <2> QED BY <1>6, <2>1, <2>2 DEF GenerateDisclose, TypeOK
<1>7. ASSUME NEW h \in Handlers, NEW r \in Requests, InitiateRequest(h, r)
      PROVE  TypeOK'
  <2> DEFINE row == [handler[h].row EXCEPT !.requestId = r, !.callbackTokenHash = r]
  <2>1. handler[h].row \in Row /\ handler[h].row.sessionId \in Sessions
    BY <1>7, HeldRow DEF InitiateRequest, Holding, Points
  <2>2. row \in Row
    BY <2>1 DEF Row
  <2>3. Continue(h, "save", row, r)
    BY <1>7 DEF InitiateRequest
  <2> HIDE DEF row
  <2>4. handler' \in [Handlers -> Op]
    BY <2>2, <2>3, ContinueTyped DEF Points
  <2>5. presentation' \in [Requests -> [session : Sessions \cup {None},
                                         stage : Stages, receipt : BOOLEAN]]
    BY <1>7, <2>1 DEF InitiateRequest, TypeOK, Stages
  <2> QED BY <1>7, <2>4, <2>5 DEF InitiateRequest, TypeOK
<1>8. ASSUME NEW h \in Handlers, InitiateSave(h)
      PROVE  TypeOK'
  <2>1. handler[h].row \in Row
    BY <1>8, HeldRow DEF InitiateSave, Holding, Points
  <2>2. handler[h].request \in Requests \cup {None}
    BY DEF TypeOK, Op
  <2>3. handler' \in [Handlers -> Op]
    BY <1>8, <2>1, <2>2, ContinueTyped DEF InitiateSave, Points
  <2>4. table' \in [Sessions -> Row \cup {None}]
    BY <1>8, <2>1, UpdateTyped DEF InitiateSave
  <2> QED BY <1>8, <2>3, <2>4 DEF InitiateSave, TypeOK
<1>9. ASSUME NEW h \in Handlers, InitiateReply(h)
      PROVE  TypeOK'
  <2>1. handler' \in [Handlers -> Op]
    BY <1>9, ContinueTyped DEF InitiateReply
  <2>2. presentation' \in [Requests -> [session : Sessions \cup {None},
                                         stage : Stages, receipt : BOOLEAN]]
    BY <1>9 DEF InitiateReply, TypeOK, Stages
  <2> QED BY <1>9, <2>1, <2>2 DEF InitiateReply, TypeOK
<1>10. ASSUME NEW h \in Handlers, FailedSave(h)
       PROVE  TypeOK'
  <2>1. handler[h].row \in Row /\ handler[h].row.sessionId \in Sessions
    BY <1>10, HeldRow DEF FailedSave, Holding, Points
  <2>2. handler' \in [Handlers -> Op]
    BY <1>10, ContinueTyped DEF FailedSave
  <2>3. table' \in [Sessions -> Row \cup {None}]
    BY <1>10, <2>1, UpdateTyped DEF FailedSave
  <2>4. wrongCodes' \in [Sessions -> Nat]
    BY <1>10, <2>1 DEF FailedSave, TypeOK
  <2> QED BY <1>10, <2>2, <2>3, <2>4 DEF FailedSave, TypeOK
<1>11. ASSUME NEW h \in Handlers, CallbackSave(h)
       PROVE  TypeOK'
  <2> DEFINE row == DecidedRow(handler[h].row, handler[h].request)
  <2>1. handler[h].row \in Row /\ handler[h].request \in Requests
    BY <1>11, HeldRow DEF CallbackSave, Holding, Points, HandlersSound, OpSound
  <2>2. row \in Row
    BY <2>1, DecidedRowFields
  <2>3. UpdateAsync(row) /\ Continue(h, "push", row, handler[h].request)
    BY <1>11 DEF CallbackSave
  <2> HIDE DEF row
  <2>4. handler' \in [Handlers -> Op]
    BY <2>1, <2>2, <2>3, ContinueTyped DEF Points
  <2>5. table' \in [Sessions -> Row \cup {None}]
    BY <2>2, <2>3, UpdateTyped
  <2> QED BY <1>11, <2>4, <2>5 DEF CallbackSave, TypeOK
<1>12. ASSUME NEW h \in Handlers, CallbackPush(h)
       PROVE  TypeOK'
  <2>1. handler' \in [Handlers -> Op]
    BY <1>12, ContinueTyped DEF CallbackPush
  <2>2. pushed' \in [Sessions -> SUBSET {"VerificationComplete", "VerificationFailed"}]
    BY <1>12 DEF CallbackPush, EventOf, TypeOK
  <2> QED BY <1>12, <2>1, <2>2 DEF CallbackPush, TypeOK
<1>13. ASSUME NEW h \in Handlers, HandlerFails(h)
       PROVE  TypeOK'
  <2>1. handler' \in [Handlers -> Op]
    BY <1>13, ContinueTyped DEF HandlerFails
  <2> QED BY <1>13, <2>1 DEF HandlerFails, TypeOK
<1>14. ASSUME SweepQuery
       PROVE  TypeOK'
  BY <1>14 DEF SweepQuery, TypeOK
<1>15. ASSUME NEW s \in Sessions, SweepSave(s)
       PROVE  TypeOK'
  <2> DEFINE row == [sweep[s] EXCEPT !.status = "expired"]
  <2>1. row \in Row
    BY <1>15 DEF SweepSave, TypeOK, Row, Statuses
  <2>2. UpdateAsync(row)
    BY <1>15 DEF SweepSave
  <2> HIDE DEF row
  <2>3. table' \in [Sessions -> Row \cup {None}]
    BY <2>1, <2>2, UpdateTyped
  <2> QED BY <1>15, <2>3 DEF SweepSave, TypeOK
<1>16. ASSUME SweepFails
       PROVE  TypeOK'
  BY <1>16 DEF SweepFails, TypeOK
<1>17. ASSUME NEW r \in Requests, CallerPresents(r)
       PROVE  TypeOK'
  <2>1. PICK outcome \in Outcomes, receipt \in BOOLEAN :
           presentation' = [presentation EXCEPT ![r] =
                              [@ EXCEPT !.stage = outcome, !.receipt = receipt]]
    BY <1>17 DEF CallerPresents
  <2>2. presentation' \in [Requests -> [session : Sessions \cup {None},
                                         stage : Stages, receipt : BOOLEAN]]
    <3>1. [presentation[r] EXCEPT !.stage = outcome, !.receipt = receipt]
            \in [session : Sessions \cup {None}, stage : Stages, receipt : BOOLEAN]
      BY DEF TypeOK, Stages, Outcomes
    <3> QED BY <2>1, <3>1 DEF TypeOK
  <2> QED BY <1>17, <2>2 DEF CallerPresents, TypeOK
<1>18. ASSUME Tick
       PROVE  TypeOK'
  BY <1>18 DEF Tick, TypeOK
<1>19. CASE UNCHANGED vars
  BY <1>19 DEF vars, TypeOK
<1> QED
  BY <1>1, <1>2, <1>3, <1>4, <1>5, <1>6, <1>7, <1>8, <1>9, <1>10, <1>11, <1>12,
     <1>13, <1>14, <1>15, <1>16, <1>17, <1>18, <1>19
     DEF Next, Arrive, Proceed

-----------------------------------------------------------------------------
(* Soundness, part by part, for the steps that leave the part alone or     *)
(* change one entry of it.                                                 *)

LEMMA ContinueFields ==
  ASSUME TypeOK, NEW h \in Handlers, NEW pc, NEW row, NEW request,
         Continue(h, pc, row, request)
  PROVE  /\ handler'[h].pc = pc
         /\ handler'[h].row = row
         /\ handler'[h].request = request
         /\ \A g \in Handlers \ {h} : handler'[g] = handler[g]
BY DEF Continue, TypeOK, Idle

LEMMA ReturnFields ==
  ASSUME TypeOK, NEW h \in Handlers, Return(h)
  PROVE  /\ handler'[h].pc = "idle"
         /\ \A g \in Handlers \ {h} : handler'[g] = handler[g]
BY DEF Return, TypeOK, Idle

\* A table nobody writes to stays sound.
LEMMA TableKept ==
  ASSUME IInv, TypeOK', Evolves, UNCHANGED table
  PROVE  TableSound'
<1> SUFFICES ASSUME NEW s \in Sessions, table'[s] # None
             PROVE  (table[s].sessionId = s /\ Sound(table[s]) /\ Charged(table[s]))'
  BY DEF TableSound
<1>1. table[s] # None /\ table[s] \in Row
  BY DEF IInv, TypeOK
<1>2. PICK row \in Row : row = table[s]
  BY <1>1
<1>3. row.sessionId = s /\ Sound(row) /\ Charged(row)
  BY <1>1, <1>2 DEF IInv, TableSound
<1>4. Sound(row)' /\ Charged(row)'
  BY <1>3, SoundKept, ChargedKept DEF IInv
<1> QED BY <1>2, <1>3, <1>4 DEF Sound, Charged

\* A table one sound row is written to stays sound.
LEMMA TableWritten ==
  ASSUME IInv, TypeOK', Evolves, NEW new \in Row, UpdateAsync(new),
         Sound(new)', Charged(new)'
  PROVE  TableSound'
<1> SUFFICES ASSUME NEW s \in Sessions, table'[s] # None
             PROVE  (table[s].sessionId = s /\ Sound(table[s]) /\ Charged(table[s]))'
  BY DEF TableSound
<1>1. CASE s = new.sessionId
  <2>1. table'[s] = new
    BY <1>1 DEF UpdateAsync, IInv, TypeOK
  <2> QED BY <1>1, <2>1 DEF Sound, Charged
<1>2. CASE s # new.sessionId
  <2>1. table'[s] = table[s]
    BY <1>2 DEF UpdateAsync, IInv, TypeOK
  <2>2. table[s] # None /\ table[s] \in Row
    BY <2>1 DEF IInv, TypeOK
  <2>3. PICK row \in Row : row = table[s]
    BY <2>2
  <2>4. row.sessionId = s /\ Sound(row) /\ Charged(row)
    BY <2>2, <2>3 DEF IInv, TableSound
  <2>5. Sound(row)' /\ Charged(row)'
    BY <2>4, SoundKept, ChargedKept DEF IInv
  <2> QED BY <2>1, <2>3, <2>4, <2>5 DEF Sound, Charged
<1> QED BY <1>1, <1>2

\* A sweep that only drops rows stays sound.
LEMMA SweepKept ==
  ASSUME IInv, TypeOK', Evolves,
         \A s \in Sessions : sweep'[s] \in {sweep[s], None}
  PROVE  SweepSound'
<1> SUFFICES ASSUME NEW s \in Sessions, sweep'[s] # None
             PROVE  (/\ sweep[s].sessionId = s
                     /\ sweep[s].status = "pending"
                     /\ sweep[s].expiresAt <= now
                     /\ Sound(sweep[s])
                     /\ Charged(sweep[s]))'
  BY DEF SweepSound
<1>1. sweep'[s] = sweep[s] /\ sweep[s] # None /\ sweep[s] \in Row
  BY DEF IInv, TypeOK
<1>2. PICK row \in Row : row = sweep[s]
  BY <1>1
<1>3. row.sessionId = s /\ row.status = "pending" /\ Sound(row) /\ Charged(row)
  BY <1>1, <1>2 DEF IInv, SweepSound
<1>4. Sound(row)' /\ Charged(row)'
  BY <1>3, SoundKept, ChargedKept DEF IInv
<1>5. row.expiresAt <= now'
  <2>1. row.expiresAt <= now /\ row.expiresAt \in Nat
    BY <1>1, <1>2 DEF IInv, SweepSound, Row
  <2>2. now \in Nat /\ now' \in Nat /\ now <= now'
    BY DEF IInv, TypeOK, Evolves
  <2> QED BY <2>1, <2>2
<1> QED BY <1>1, <1>2, <1>3, <1>4, <1>5 DEF Sound, Charged

\* A handler that stands still keeps its soundness.
LEMMA HandlerKept ==
  ASSUME IInv, TypeOK', Evolves, NEW g \in Handlers, handler'[g] = handler[g],
         handler[g].pc \in {"save", "reply"} =>
           presentation'[handler[g].request].stage
             = presentation[handler[g].request].stage
  PROVE  OpSound(handler[g])'
<1>1. PICK op \in Op : op = handler[g]
  BY DEF IInv, TypeOK
<1>2. OpSound(op)
  BY <1>1 DEF IInv, HandlersSound
<1>3. OpSound(op)'
  BY <1>1, <1>2, OpKept DEF IInv
<1> QED BY <1>1, <1>3 DEF OpSound, Sound, Charged

\* Handlers that stand still do not come to share a request.
LEMMA ApartKept ==
  ASSUME IInv, UNCHANGED handler
  PROVE  RequestsApart'
BY DEF IInv, RequestsApart

\* A handler that does not move to hold a fresh request leaves them apart.
LEMMA ApartMoved ==
  ASSUME IInv, NEW h \in Handlers,
         \A g \in Handlers \ {h} : handler'[g] = handler[g],
         handler'[h].pc \in {"save", "reply"} =>
           /\ handler[h].pc \in {"save", "reply"}
           /\ handler'[h].request = handler[h].request
  PROVE  RequestsApart'
BY DEF IInv, RequestsApart

\* What was pushed stays true.
LEMMA PushedKept ==
  ASSUME IInv, TypeOK', Evolves, UNCHANGED pushed
  PROVE  PushedOutcomeHappened'
BY DEF IInv, Evolves, PushedOutcomeHappened, Outcomes

\* Issued requests keep their session.
LEMMA OwnedKept ==
  ASSUME IInv, UNCHANGED presentation
  PROVE  RequestsOwned'
BY DEF IInv, RequestsOwned

\* One handler moves while the requests stand still.
LEMMA HandlersMoved ==
  ASSUME IInv, TypeOK', Evolves, NEW h \in Handlers,
         \A g \in Handlers \ {h} : handler'[g] = handler[g],
         UNCHANGED presentation,
         OpSound(handler[h])'
  PROVE  HandlersSound'
<1> SUFFICES ASSUME NEW g \in Handlers
             PROVE  OpSound(handler[g])'
  BY DEF HandlersSound
<1>1. CASE g = h
  BY <1>1
<1>2. CASE g # h
  BY <1>2, HandlerKept
<1> QED BY <1>1, <1>2

\* A handler that now holds a sound row at one of the points that ask no more.
LEMMA HoldsRow ==
  ASSUME NEW h \in Handlers, NEW row \in Row,
         handler'[h].row = row,
         handler'[h].pc \in {"disclose", "request", "lockout"},
         handler'[h].pc = "request" => row.status = "pending",
         Sound(row)', Charged(row)'
  PROVE  OpSound(handler[h])'
<1>1. Sound(handler[h].row)' /\ Charged(handler[h].row)'
  BY DEF Sound, Charged
<1> QED BY <1>1 DEF OpSound, Holding, Points

\* A handler that is done is sound.
LEMMA IdleSound ==
  ASSUME NEW h \in Handlers, handler'[h].pc = "idle"
  PROVE  OpSound(handler[h])'
BY DEF OpSound, Holding, Points

-----------------------------------------------------------------------------
(* The steps, one lemma each where there is something to show.             *)

LEMMA GenerateCountSound ==
  ASSUME IInv, TypeOK', Evolves, NEW h \in Handlers, NEW agent \in Agents,
         NEW email \in Emails, GenerateCount(h, agent, email)
  PROVE  IInv'
<1>1. /\ handler'[h].pc = "create"
      /\ handler'[h].agent = agent
      /\ handler'[h].email = email
      /\ \A g \in Handlers \ {h} : handler'[g] = handler[g]
  BY DEF GenerateCount, Idle, IInv, TypeOK
<1>2. UNCHANGED <<table, sweep, presentation, pushed>>
  BY DEF GenerateCount
<1>3. OpSound(handler[h])'
  BY <1>1 DEF OpSound, Holding, Points
<1> QED BY <1>1, <1>2, <1>3, HandlersMoved, TableKept, SweepKept, ApartMoved,
           OwnedKept, PushedKept DEF IInv

LEMMA GenerateCreateSound ==
  ASSUME IInv, TypeOK', Evolves, NEW h \in Handlers, NEW s \in Sessions,
         GenerateCreate(h, s)
  PROVE  IInv'
<1>1. /\ handler[h].agent \in Agents
      /\ handler[h].email \in Emails
      /\ now \in Nat
  BY DEF GenerateCreate, IInv, TypeOK, HandlersSound, OpSound
<1>2. NewRow(s, handler[h].agent, handler[h].email) \in Row
  BY <1>1, ConstantsAssumption DEF NewRow, Row, Statuses
<1>3. PICK row \in Row : row = NewRow(s, handler[h].agent, handler[h].email)
  BY <1>2
<1>4. /\ table' = [table EXCEPT ![s] = row]
      /\ Continue(h, "disclose", row, None)
      /\ UNCHANGED <<sweep, presentation, wrongCodes, pushed>>
  BY <1>3 DEF GenerateCreate
<1>5. row.sessionId = s /\ row.failedAttempts = 0 /\ row # None
  BY <1>3, NoneAssumption DEF NewRow
<1>6. UpdateAsync(row)
  BY <1>4, <1>5 DEF UpdateAsync
<1>7. Sound(row)'
  <2>1. table'[s] = row
    BY <1>4 DEF IInv, TypeOK
  <2> QED BY <1>3, <1>5, <2>1, ConstantsAssumption
          DEF NewRow, Sound, SameIdentity
<1>8. Charged(row)'
  BY <1>5 DEF Charged, TypeOK
<1>9. /\ handler'[h].pc = "disclose"
      /\ handler'[h].row = row
      /\ \A g \in Handlers \ {h} : handler'[g] = handler[g]
  BY <1>4, ContinueFields DEF IInv
<1>10. OpSound(handler[h])'
  BY <1>7, <1>8, <1>9, HoldsRow
<1>11. TableSound'
  BY <1>6, <1>7, <1>8, TableWritten
<1> QED BY <1>4, <1>9, <1>10, <1>11, HandlersMoved, SweepKept, ApartMoved,
           OwnedKept, PushedKept DEF IInv

\* A handler that ends without a write (disclose, failure) leaves all sound.
LEMMA ReturnSound ==
  ASSUME IInv, TypeOK', Evolves, NEW h \in Handlers, Return(h),
         UNCHANGED <<table, sweep, presentation, pushed>>
  PROVE  IInv'
<1>1. /\ handler'[h].pc = "idle"
      /\ \A g \in Handlers \ {h} : handler'[g] = handler[g]
  BY ReturnFields DEF IInv
<1>2. OpSound(handler[h])'
  BY <1>1, IdleSound
<1> QED BY <1>1, <1>2, HandlersMoved, TableKept, SweepKept, ApartMoved,
           OwnedKept, PushedKept DEF IInv

\* The lockout branch is never taken: a pending row is below the threshold.
LEMMA InitiateLookupSound ==
  ASSUME IInv, TypeOK', Evolves, NEW h \in Handlers, NEW s \in Sessions,
         InitiateLookup(h, s)
  PROVE  IInv'
<1>1. table[s] # None /\ table[s] \in Row /\ table[s].status = "pending"
  BY DEF InitiateLookup, IsPending, IInv, TypeOK
<1>2. PICK row \in Row : row = table[s]
  BY <1>1
<1>3. Sound(row) /\ Charged(row) /\ row.status = "pending"
  BY <1>1, <1>2 DEF IInv, TableSound
<1>4. ~(row.failedAttempts >= MaxFailedAttempts)
  BY <1>3, ConstantsAssumption DEF Sound, Row
<1>5. Continue(h, "request", row, None)
  BY <1>2, <1>4 DEF InitiateLookup
<1>6. UNCHANGED <<table, sweep, presentation, pushed>>
  BY DEF InitiateLookup
<1>7. Sound(row)' /\ Charged(row)'
  BY <1>3, SoundKept, ChargedKept DEF IInv
<1>8. /\ handler'[h].pc = "request"
      /\ handler'[h].row = row
      /\ \A g \in Handlers \ {h} : handler'[g] = handler[g]
  BY <1>5, ContinueFields DEF IInv
<1>9. OpSound(handler[h])'
  BY <1>3, <1>7, <1>8, HoldsRow
<1> QED BY <1>6, <1>8, <1>9, HandlersMoved, TableKept, SweepKept, ApartMoved,
           OwnedKept, PushedKept DEF IInv

\* The request a handler is issued was free, so no row and no other handler
\* knows it yet.
LEMMA InitiateRequestSound ==
  ASSUME IInv, TypeOK', Evolves, NEW h \in Handlers, NEW r \in Requests,
         InitiateRequest(h, r)
  PROVE  IInv'
<1>1. handler[h].pc = "request" /\ presentation[r].stage = "free"
  BY DEF InitiateRequest
<1>2. PICK old \in Row : old = handler[h].row
  BY <1>1, HeldRow DEF IInv, Holding, Points
<1>3. Sound(old) /\ Charged(old) /\ old.status = "pending" /\ old.sessionId \in Sessions
  BY <1>1, <1>2 DEF IInv, HandlersSound, OpSound, Holding, Points, Row
<1>4. [old EXCEPT !.requestId = r, !.callbackTokenHash = r] \in Row
  BY DEF Row
<1>5. PICK row \in Row : row = [old EXCEPT !.requestId = r, !.callbackTokenHash = r]
  BY <1>4
<1>6. /\ Continue(h, "save", row, r)
      /\ UNCHANGED <<table, sweep, wrongCodes, pushed>>
  BY <1>2, <1>5 DEF InitiateRequest
<1>7. /\ presentation'[r].session = old.sessionId
      /\ presentation'[r].stage = "issued"
      /\ \A q \in Requests \ {r} : presentation'[q] = presentation[q]
  BY <1>2 DEF InitiateRequest, IInv, TypeOK
<1>8. /\ row.sessionId = old.sessionId
      /\ row.status = "pending"
      /\ row.failedAttempts = old.failedAttempts
      /\ row.requestId = r
      /\ row.callbackTokenHash = r
      /\ row.verifiedAt = old.verifiedAt
      /\ row.verifiedClaims = old.verifiedClaims
      /\ SameIdentity(row, old)
  BY <1>3, <1>5 DEF Row, SameIdentity
<1>9. Sound(row)'
  <2>1. Sound(old)'
    BY <1>3, SoundKept DEF IInv
  <2>2. table'[row.sessionId] # None /\ SameIdentity(row, table'[row.sessionId])
    BY <2>1, <1>8 DEF Sound, SameIdentity
  <2> QED BY <1>3, <1>7, <1>8, <2>2 DEF Sound
<1>10. Charged(row)'
  BY <1>3, <1>6, <1>8 DEF Charged
<1>11. /\ handler'[h].pc = "save"
       /\ handler'[h].row = row
       /\ handler'[h].request = r
       /\ \A g \in Handlers \ {h} : handler'[g] = handler[g]
  BY <1>6, ContinueFields DEF IInv
<1>12. \A g \in Handlers : handler[g].pc \in {"save", "reply"} =>
          handler[g].request \in Requests \ {r}
  BY <1>1 DEF IInv, HandlersSound, OpSound
<1>13. HandlersSound'
  <2> SUFFICES ASSUME NEW g \in Handlers
               PROVE  OpSound(handler[g])'
    BY DEF HandlersSound
  <2>1. CASE g = h
    <3>1. Sound(handler[h].row)' /\ Charged(handler[h].row)'
      BY <1>9, <1>10, <1>11 DEF Sound, Charged
    <3> QED BY <2>1, <3>1, <1>7, <1>11 DEF OpSound, Holding, Points
  <2>2. CASE g # h
    BY <2>2, <1>7, <1>11, <1>12, HandlerKept
  <2> QED BY <2>1, <2>2
<1>14. RequestsApart'
  BY <1>11, <1>12 DEF RequestsApart, IInv
<1>15. RequestsOwned'
  BY <1>3, <1>7 DEF RequestsOwned, IInv
<1> QED BY <1>6, <1>13, <1>14, <1>15, TableKept, SweepKept, PushedKept DEF IInv

LEMMA InitiateSaveSound ==
  ASSUME IInv, TypeOK', Evolves, NEW h \in Handlers, InitiateSave(h)
  PROVE  IInv'
<1>1. handler[h].pc = "save"
  BY DEF InitiateSave
<1>2. PICK row \in Row : row = handler[h].row
  BY <1>1, HeldRow DEF IInv, Holding, Points
<1>3. /\ Sound(row)
      /\ Charged(row)
      /\ handler[h].request \in Requests
      /\ presentation[handler[h].request].stage = "issued"
  BY <1>1, <1>2 DEF IInv, HandlersSound, OpSound, Holding, Points
<1>4. PICK request \in Requests : request = handler[h].request
  BY <1>3
<1>5. /\ UpdateAsync(row)
      /\ Continue(h, "reply", row, request)
      /\ UNCHANGED <<sweep, presentation, pushed>>
  BY <1>2, <1>4 DEF InitiateSave
<1>6. Sound(row)' /\ Charged(row)'
  BY <1>3, SoundKept, ChargedKept DEF IInv
<1>7. /\ handler'[h].pc = "reply"
      /\ handler'[h].row = row
      /\ handler'[h].request = request
      /\ \A g \in Handlers \ {h} : handler'[g] = handler[g]
  BY <1>5, ContinueFields DEF IInv
<1>8. OpSound(handler[h])'
  <2>1. Sound(handler[h].row)' /\ Charged(handler[h].row)'
    BY <1>6, <1>7 DEF Sound, Charged
  <2> QED BY <2>1, <1>3, <1>4, <1>5, <1>7 DEF OpSound, Holding, Points
<1>9. RequestsApart'
  BY <1>1, <1>4, <1>7, ApartMoved
<1> QED BY <1>5, <1>6, <1>7, <1>8, <1>9, HandlersMoved, TableWritten, SweepKept,
           OwnedKept, PushedKept DEF IInv

LEMMA InitiateReplySound ==
  ASSUME IInv, TypeOK', Evolves, NEW h \in Handlers, InitiateReply(h)
  PROVE  IInv'
<1>1. /\ handler[h].pc = "reply"
      /\ Return(h)
      /\ UNCHANGED <<table, sweep, pushed>>
  BY DEF InitiateReply
<1>2. /\ handler[h].request \in Requests
      /\ presentation[handler[h].request].stage = "issued"
  BY <1>1 DEF IInv, HandlersSound, OpSound
<1>3. /\ handler'[h].pc = "idle"
      /\ \A g \in Handlers \ {h} : handler'[g] = handler[g]
  BY <1>1, ReturnFields DEF IInv
<1>4. /\ \A q \in Requests \ {handler[h].request} : presentation'[q] = presentation[q]
      /\ \A q \in Requests : presentation'[q].session = presentation[q].session
  BY DEF InitiateReply, IInv, TypeOK
<1>5. HandlersSound'
  <2> SUFFICES ASSUME NEW g \in Handlers
               PROVE  OpSound(handler[g])'
    BY DEF HandlersSound
  <2>1. CASE g = h
    BY <2>1, <1>3, IdleSound
  <2>2. CASE g # h
    <3>1. handler[g].pc \in {"save", "reply"} =>
            handler[g].request \in Requests \ {handler[h].request}
      BY <1>1, <2>2 DEF IInv, RequestsApart, HandlersSound, OpSound
    <3> QED BY <2>2, <3>1, <1>3, <1>4, HandlerKept
  <2> QED BY <2>1, <2>2
<1>6. RequestsOwned'
  BY <1>2, <1>4 DEF IInv, RequestsOwned
<1>7. RequestsApart'
  BY <1>3, ApartMoved
<1> QED BY <1>1, <1>5, <1>6, <1>7, TableKept, SweepKept, PushedKept DEF IInv

LEMMA FailedLookupSound ==
  ASSUME IInv, TypeOK', Evolves, NEW h \in Handlers, NEW email \in Emails,
         NEW s \in Sessions, FailedLookup(h, email, s)
  PROVE  IInv'
<1>1. table[s] # None /\ table[s] \in Row /\ table[s].status = "pending"
  BY MostRecentIsPending DEF FailedLookup, IsPending, IInv, TypeOK
<1>2. PICK old \in Row : old = table[s]
  BY <1>1
<1>3. Sound(old) /\ Charged(old) /\ old.status = "pending" /\ old.sessionId \in Sessions
  BY <1>1, <1>2 DEF IInv, TableSound, Row
<1> DEFINE attempts == old.failedAttempts + 1
           verdict == IF attempts >= MaxFailedAttempts THEN "failed" ELSE "pending"
<1>4. [old EXCEPT !.failedAttempts = attempts, !.status = verdict] \in Row
  <2>1. attempts \in Nat /\ verdict \in Statuses
    BY DEF Row, Statuses
  <2> QED BY <2>1 DEF Row
<1>5. PICK row \in Row :
        row = [old EXCEPT !.failedAttempts = attempts, !.status = verdict]
  BY <1>4
<1>6. /\ Continue(h, "reject", row, None)
      /\ UNCHANGED <<table, sweep, presentation, wrongCodes, pushed>>
  BY <1>2, <1>5 DEF FailedLookup
<1>7. /\ row.sessionId = old.sessionId
      /\ row.status = verdict
      /\ row.failedAttempts = attempts
      /\ row.requestId = old.requestId
      /\ row.callbackTokenHash = old.callbackTokenHash
      /\ row.verifiedAt = old.verifiedAt
      /\ row.verifiedClaims = old.verifiedClaims
      /\ SameIdentity(row, old)
  BY <1>5 DEF Row, SameIdentity
<1>8. /\ old.failedAttempts \in Nat
      /\ old.failedAttempts < MaxFailedAttempts
      /\ MaxFailedAttempts \in Nat
      /\ wrongCodes[old.sessionId] \in Nat
      /\ old.failedAttempts <= wrongCodes[old.sessionId]
  BY <1>3, ConstantsAssumption DEF Sound, Row, Charged, IInv, TypeOK
<1>9. /\ attempts <= MaxFailedAttempts
      /\ verdict = "pending" => attempts < MaxFailedAttempts
      /\ verdict = "failed" => attempts >= MaxFailedAttempts
      /\ verdict \in {"pending", "failed"}
      /\ attempts <= wrongCodes[old.sessionId] + 1
  BY <1>8
<1> HIDE DEF attempts, verdict
<1>10. Sound(row)
  <2>1. table[row.sessionId] # None /\ SameIdentity(row, table[row.sessionId])
    BY <1>3, <1>7 DEF Sound, SameIdentity
  <2>2. row.verifiedAt = None /\ row.verifiedClaims = None
    BY <1>3, <1>7 DEF Sound
  <2>3. /\ row.requestId = row.callbackTokenHash
        /\ row.requestId # None =>
              /\ presentation[row.requestId].session = row.sessionId
              /\ presentation[row.requestId].stage # "free"
    BY <1>3, <1>7 DEF Sound
  <2> QED BY <1>7, <1>9, <2>1, <2>2, <2>3 DEF Sound
<1>11. Sound(row)'
  BY <1>10, SoundKept DEF IInv
<1>12. row.failedAttempts <= wrongCodes'[row.sessionId] + 1
  BY <1>6, <1>7, <1>9
<1>13. /\ handler'[h].pc = "reject"
       /\ handler'[h].row = row
       /\ \A g \in Handlers \ {h} : handler'[g] = handler[g]
  BY <1>6, ContinueFields DEF IInv
<1>14. OpSound(handler[h])'
  <2>1. Sound(handler[h].row)'
    BY <1>11, <1>13 DEF Sound
  <2> QED BY <2>1, <1>12, <1>13 DEF OpSound, Holding, Points
<1> QED BY <1>6, <1>13, <1>14, HandlersMoved, TableKept, SweepKept, ApartMoved,
           OwnedKept, PushedKept DEF IInv

LEMMA FailedSaveSound ==
  ASSUME IInv, TypeOK', Evolves, NEW h \in Handlers, FailedSave(h)
  PROVE  IInv'
<1>1. handler[h].pc \in {"reject", "lockout"}
  BY DEF FailedSave
<1>2. PICK row \in Row : row = handler[h].row
  BY <1>1, HeldRow DEF IInv, Holding, Points
<1>3. Sound(row) /\ row.sessionId \in Sessions /\ row.failedAttempts \in Nat
  BY <1>1, <1>2 DEF IInv, HandlersSound, OpSound, Holding, Points, Row
<1>4. /\ UpdateAsync(row)
      /\ Return(h)
      /\ UNCHANGED <<sweep, presentation, pushed>>
  BY <1>2 DEF FailedSave
<1>5. Sound(row)'
  BY <1>3, SoundKept DEF IInv
<1>6. Charged(row)'
  <2>1. CASE handler[h].pc = "reject"
    <3>1. row.failedAttempts <= wrongCodes[row.sessionId] + 1
      BY <2>1, <1>2 DEF IInv, HandlersSound, OpSound
    <3>2. wrongCodes'[row.sessionId] = wrongCodes[row.sessionId] + 1
      BY <2>1, <1>2, <1>3 DEF FailedSave, IInv, TypeOK
    <3> QED BY <3>1, <3>2 DEF Charged
  <2>2. CASE handler[h].pc = "lockout"
    <3>1. Charged(row)
      BY <2>2, <1>2 DEF IInv, HandlersSound, OpSound, Holding, Points
    <3> QED BY <3>1, ChargedKept DEF IInv
  <2> QED BY <1>1, <2>1, <2>2
<1>7. /\ handler'[h].pc = "idle"
      /\ \A g \in Handlers \ {h} : handler'[g] = handler[g]
  BY <1>4, ReturnFields DEF IInv
<1>8. OpSound(handler[h])'
  BY <1>7, IdleSound
<1> QED BY <1>4, <1>5, <1>6, <1>7, <1>8, HandlersMoved, TableWritten, SweepKept,
           ApartMoved, OwnedKept, PushedKept DEF IInv

\* The token ties the callback to the request the row names, because the two
\* are always saved together.
LEMMA CallbackLoadSound ==
  ASSUME IInv, TypeOK', Evolves, NEW h \in Handlers, NEW r \in Requests,
         CallbackLoad(h, r)
  PROVE  IInv'
<1> DEFINE s == presentation[r].session
<1>1. /\ s \in Sessions
      /\ table[s] # None
      /\ table[s] \in Row
      /\ presentation[r].stage \in Outcomes
  BY DEF CallbackLoad, Outcomes, IInv, TypeOK, RequestsOwned
<1>2. PICK row \in Row : row = table[s]
  BY <1>1
<1>3. /\ Sound(row)
      /\ Charged(row)
      /\ CallbackAccepted(row, r)
      /\ Continue(h, "accept", row, r)
      /\ UNCHANGED <<table, sweep, presentation, wrongCodes, pushed>>
  BY <1>1, <1>2 DEF IInv, TableSound, CallbackLoad
<1>4. /\ row.status = "pending"
      /\ row.requestId = r
      /\ (RequireCallbackJwtValidation /\ presentation[r].stage = "verified")
           => presentation[r].receipt
  BY <1>3 DEF CallbackAccepted, Sound
<1>5. Sound(row)' /\ Charged(row)'
  BY <1>3, SoundKept, ChargedKept DEF IInv
<1>6. /\ handler'[h].pc = "accept"
      /\ handler'[h].row = row
      /\ handler'[h].request = r
      /\ \A g \in Handlers \ {h} : handler'[g] = handler[g]
  BY <1>3, ContinueFields DEF IInv
<1>7. OpSound(handler[h])'
  <2>1. Sound(handler[h].row)' /\ Charged(handler[h].row)'
    BY <1>5, <1>6 DEF Sound, Charged
  <2>2. UNCHANGED presentation
    BY <1>3
  <2> QED BY <2>1, <2>2, <1>1, <1>4, <1>6 DEF OpSound, Holding, Points
<1> QED BY <1>3, <1>6, <1>7, HandlersMoved, TableKept, SweepKept, ApartMoved,
           OwnedKept, PushedKept DEF IInv

LEMMA CallbackSaveSound ==
  ASSUME IInv, TypeOK', Evolves, NEW h \in Handlers, CallbackSave(h)
  PROVE  IInv'
<1>1. handler[h].pc = "accept"
  BY DEF CallbackSave
<1>2. PICK old \in Row : old = handler[h].row
  BY <1>1, HeldRow DEF IInv, Holding, Points
<1>3. handler[h].request \in Requests
  BY <1>1 DEF IInv, HandlersSound, OpSound
<1>4. PICK r \in Requests : r = handler[h].request
  BY <1>3
<1>5. /\ Sound(old)
      /\ Charged(old)
      /\ old.status = "pending"
      /\ old.requestId = r
      /\ presentation[r].stage \in Outcomes
      /\ (RequireCallbackJwtValidation /\ presentation[r].stage = "verified")
           => presentation[r].receipt
  BY <1>1, <1>2, <1>4 DEF IInv, HandlersSound, OpSound, Holding, Points
<1>6. DecidedRow(old, r) \in Row
  BY DecidedRowFields DEF IInv
<1>7. PICK row \in Row : row = DecidedRow(old, r)
  BY <1>6
<1>8. /\ UpdateAsync(row)
      /\ Continue(h, "push", row, r)
      /\ UNCHANGED <<sweep, presentation, wrongCodes, pushed>>
  BY <1>2, <1>4, <1>7 DEF CallbackSave
<1>9. /\ SameIdentity(row, old)
      /\ row.failedAttempts = old.failedAttempts
      /\ row.requestId = old.requestId
      /\ row.callbackTokenHash = old.callbackTokenHash
      /\ presentation[r].stage = "verified" =>
            /\ row.status = "verified"
            /\ row.verifiedAt = now
            /\ row.verifiedClaims = r
      /\ presentation[r].stage # "verified" =>
            /\ row.status = "failed"
            /\ row.verifiedAt = old.verifiedAt
            /\ row.verifiedClaims = old.verifiedClaims
  BY <1>7, DecidedRowFields DEF IInv
<1>10. now # None /\ r # None
  BY NoneAssumption DEF IInv, TypeOK
<1>11. Sound(row)
  <2>1. table[row.sessionId] # None /\ SameIdentity(row, table[row.sessionId])
    BY <1>5, <1>9 DEF Sound, SameIdentity
  <2>2. /\ row.failedAttempts <= MaxFailedAttempts
        /\ row.requestId = row.callbackTokenHash
        /\ row.requestId = r
        /\ presentation[r].session = row.sessionId
        /\ presentation[r].stage # "free"
    BY <1>5, <1>9, <1>10 DEF Sound, SameIdentity
  <2>3. CASE presentation[r].stage = "verified"
    BY <1>5, <1>9, <1>10, <2>1, <2>2, <2>3 DEF Sound
  <2>4. CASE presentation[r].stage = "error"
    <3>1. row.verifiedAt = None /\ row.verifiedClaims = None
      BY <1>5, <1>9, <2>4 DEF Sound
    <3> QED BY <1>9, <1>10, <2>1, <2>2, <2>4, <3>1 DEF Sound
  <2> QED BY <1>5, <2>3, <2>4 DEF Outcomes
<1>12. Charged(row)
  BY <1>5, <1>9 DEF Charged, SameIdentity
<1>13. Sound(row)' /\ Charged(row)'
  BY <1>11, <1>12, SoundKept, ChargedKept DEF IInv
<1>14. /\ handler'[h].pc = "push"
       /\ handler'[h].row = row
       /\ handler'[h].request = r
       /\ \A g \in Handlers \ {h} : handler'[g] = handler[g]
  BY <1>8, ContinueFields DEF IInv
<1>15. OpSound(handler[h])'
  <2>1. Sound(handler[h].row)' /\ Charged(handler[h].row)'
    BY <1>13, <1>14 DEF Sound, Charged
  <2>2. presentation' = presentation
    BY <1>8
  <2>3. row.requestId = r /\ r # None
    BY <1>5, <1>9, <1>10
  <2>4. \/ row.status = "verified" /\ presentation[r].stage = "verified"
        \/ row.status = "failed" /\ presentation[r].stage = "error"
    BY <1>5, <1>9 DEF Outcomes
  <2> QED BY <2>1, <2>2, <2>3, <2>4, <1>14 DEF OpSound, Holding, Points
<1> QED BY <1>8, <1>13, <1>14, <1>15, HandlersMoved, TableWritten, SweepKept,
           ApartMoved, OwnedKept, PushedKept DEF IInv

LEMMA CallbackPushSound ==
  ASSUME IInv, TypeOK', Evolves, NEW h \in Handlers, CallbackPush(h)
  PROVE  IInv'
<1>1. /\ handler[h].pc = "push"
      /\ Return(h)
      /\ UNCHANGED <<table, sweep, presentation, wrongCodes>>
  BY DEF CallbackPush
<1>2. PICK row \in Row : row = handler[h].row
  BY <1>1, HeldRow DEF IInv, Holding, Points
<1>3. /\ Sound(row)
      /\ row.requestId # None
      /\ \/ row.status = "verified" /\ presentation[row.requestId].stage = "verified"
         \/ row.status = "failed" /\ presentation[row.requestId].stage = "error"
  BY <1>1, <1>2 DEF IInv, HandlersSound, OpSound, Holding, Points
<1>4. /\ row.requestId \in Requests
      /\ presentation[row.requestId].session = row.sessionId
      /\ row.sessionId \in Sessions
  BY <1>3 DEF Sound, Row
<1>5. pushed' = [pushed EXCEPT ![row.sessionId] = @ \cup {EventOf(row)}]
  BY <1>2 DEF CallbackPush
<1>6. PushedOutcomeHappened'
  <2> SUFFICES ASSUME NEW s \in Sessions
               PROVE  /\ "VerificationComplete" \in pushed'[s] =>
                           \E r \in Requests : /\ presentation[r].session = s
                                               /\ presentation[r].stage = "verified"
                      /\ "VerificationFailed" \in pushed'[s] =>
                           \E r \in Requests : /\ presentation[r].session = s
                                               /\ presentation[r].stage = "error"
    BY <1>1 DEF PushedOutcomeHappened
  <2>1. CASE s = row.sessionId
    <3>1. pushed'[s] = pushed[s] \cup {EventOf(row)}
      BY <1>4, <1>5, <2>1 DEF IInv, TypeOK
    <3>2. CASE row.status = "verified"
      BY <1>3, <1>4, <2>1, <3>1, <3>2 DEF EventOf, IInv, PushedOutcomeHappened
    <3>3. CASE row.status = "failed"
      BY <1>3, <1>4, <2>1, <3>1, <3>3 DEF EventOf, IInv, PushedOutcomeHappened
    <3> QED BY <1>3, <3>2, <3>3
  <2>2. CASE s # row.sessionId
    BY <1>4, <1>5, <2>2 DEF IInv, TypeOK, PushedOutcomeHappened
  <2> QED BY <2>1, <2>2
<1>7. /\ handler'[h].pc = "idle"
      /\ \A g \in Handlers \ {h} : handler'[g] = handler[g]
  BY <1>1, ReturnFields DEF IInv
<1>8. OpSound(handler[h])'
  BY <1>7, IdleSound
<1> QED BY <1>1, <1>6, <1>7, <1>8, HandlersMoved, TableKept, SweepKept,
           ApartMoved, OwnedKept DEF IInv

\* With the handlers and the requests standing still, handlers stay sound.
LEMMA HandlersKept ==
  ASSUME IInv, TypeOK', Evolves, UNCHANGED <<handler, presentation>>
  PROVE  HandlersSound' /\ RequestsApart' /\ RequestsOwned'
<1>1. HandlersSound'
  BY HandlerKept DEF HandlersSound
<1> QED BY <1>1, ApartKept, OwnedKept

LEMMA SweepQuerySound ==
  ASSUME IInv, TypeOK', Evolves, SweepQuery
  PROVE  IInv'
<1>1. UNCHANGED <<table, handler, presentation, pushed>>
  BY DEF SweepQuery
<1>2. SweepSound'
  <2> SUFFICES ASSUME NEW s \in Sessions, sweep'[s] # None
               PROVE  (/\ sweep[s].sessionId = s
                       /\ sweep[s].status = "pending"
                       /\ sweep[s].expiresAt <= now
                       /\ Sound(sweep[s])
                       /\ Charged(sweep[s]))'
    BY DEF SweepSound
  <2>1. /\ sweep'[s] = table[s]
        /\ table[s] # None
        /\ table[s].status = "pending"
        /\ table[s].expiresAt <= now
        /\ now' = now
        /\ table[s] \in Row
    BY DEF SweepQuery, IsOverdue, IsPending, IInv, TypeOK
  <2>2. PICK row \in Row : row = table[s]
    BY <2>1
  <2>3. row.sessionId = s /\ Sound(row) /\ Charged(row)
    BY <2>1, <2>2 DEF IInv, TableSound
  <2>4. Sound(row)' /\ Charged(row)'
    BY <2>3, SoundKept, ChargedKept DEF IInv
  <2> QED BY <2>1, <2>2, <2>3, <2>4 DEF Sound, Charged
<1> QED BY <1>1, <1>2, HandlersKept, TableKept, PushedKept DEF IInv

LEMMA SweepSaveSound ==
  ASSUME IInv, TypeOK', Evolves, NEW s \in Sessions, SweepSave(s)
  PROVE  IInv'
<1>1. sweep[s] # None /\ sweep[s] \in Row
  BY DEF SweepSave, IInv, TypeOK
<1>2. PICK old \in Row : old = sweep[s]
  BY <1>1
<1>3. Sound(old) /\ Charged(old) /\ old.status = "pending" /\ old.expiresAt <= now
  BY <1>1, <1>2 DEF IInv, SweepSound
<1>4. [old EXCEPT !.status = "expired"] \in Row
  BY DEF Row, Statuses
<1>5. PICK row \in Row : row = [old EXCEPT !.status = "expired"]
  BY <1>4
<1>6. /\ UpdateAsync(row)
      /\ UNCHANGED <<handler, presentation, pushed>>
      /\ \A t \in Sessions : sweep'[t] \in {sweep[t], None}
  BY <1>2, <1>5 DEF SweepSave, IInv, TypeOK
<1>7. Sound(row) /\ Charged(row)
  BY <1>3, <1>5 DEF Sound, Charged, SameIdentity, Row
<1>8. Sound(row)' /\ Charged(row)'
  BY <1>7, SoundKept, ChargedKept DEF IInv
<1> QED BY <1>6, <1>8, HandlersKept, TableWritten, SweepKept, PushedKept DEF IInv

\* Only a request on a caller's screen is decided; one still held by a handler
\* is not.
LEMMA CallerPresentsSound ==
  ASSUME IInv, TypeOK', Evolves, NEW r \in Requests, CallerPresents(r)
  PROVE  IInv'
<1>1. /\ presentation[r].stage = "shown"
      /\ UNCHANGED <<table, handler, sweep, pushed>>
  BY DEF CallerPresents
<1>2. \A q \in Requests \ {r} : presentation'[q] = presentation[q]
  BY DEF CallerPresents, IInv, TypeOK
<1>3. HandlersSound'
  <2> SUFFICES ASSUME NEW g \in Handlers
               PROVE  OpSound(handler[g])'
    BY DEF HandlersSound
  <2>1. handler[g].pc \in {"save", "reply"} => handler[g].request \in Requests \ {r}
    BY <1>1 DEF IInv, HandlersSound, OpSound
  <2> QED BY <2>1, <1>1, <1>2, HandlerKept
<1>4. RequestsOwned'
  BY <1>1 DEF IInv, RequestsOwned, Evolves, TypeOK, CallerPresents
<1> QED BY <1>1, <1>3, <1>4, ApartKept, TableKept, SweepKept, PushedKept DEF IInv

-----------------------------------------------------------------------------
(* The invariant.                                                          *)

LEMMA InitSound == Init => IInv
<1> SUFFICES ASSUME Init PROVE IInv
  OBVIOUS
<1>1. TypeOK
  BY DEF Init, TypeOK, Op, Idle, Points, Stages
<1>2. TableSound /\ SweepSound /\ RequestsOwned
  BY DEF Init, TableSound, SweepSound, RequestsOwned
<1>3. HandlersSound /\ RequestsApart
  BY DEF Init, HandlersSound, OpSound, RequestsApart, Idle, Holding, Points
<1>4. PushedOutcomeHappened
  BY DEF Init, PushedOutcomeHappened
<1> QED BY <1>1, <1>2, <1>3, <1>4 DEF IInv

LEMMA StepSound == IInv /\ [Next]_vars => IInv'
<1> SUFFICES ASSUME IInv, [Next]_vars PROVE IInv'
  OBVIOUS
<1>1. TypeOK' /\ Evolves
  BY StepTypeOK, StepEvolves
<1>2. ASSUME NEW h \in Handlers, Arrive(h)
      PROVE  IInv'
  BY <1>1, <1>2, GenerateCountSound, InitiateLookupSound, FailedLookupSound,
     CallbackLoadSound DEF Arrive
<1>3. ASSUME NEW h \in Handlers, Proceed(h)
      PROVE  IInv'
  <2>1. CASE GenerateDisclose(h)
    BY <1>1, <2>1, ReturnSound DEF GenerateDisclose
  <2>2. CASE HandlerFails(h)
    BY <1>1, <2>2, ReturnSound DEF HandlerFails
  <2> QED BY <1>1, <1>3, <2>1, <2>2, GenerateCreateSound, InitiateRequestSound,
             InitiateSaveSound, InitiateReplySound, FailedSaveSound,
             CallbackSaveSound, CallbackPushSound DEF Proceed
<1>4. CASE SweepFails
  <2>1. /\ UNCHANGED <<table, handler, presentation, pushed>>
        /\ \A s \in Sessions : sweep'[s] \in {sweep[s], None}
    BY <1>4 DEF SweepFails
  <2> QED BY <1>1, <2>1, HandlersKept, TableKept, SweepKept, PushedKept DEF IInv
<1>5. CASE Tick \/ UNCHANGED vars
  <2>1. UNCHANGED <<table, handler, sweep, presentation, pushed>>
    BY <1>5 DEF Tick, vars
  <2> QED BY <1>1, <2>1, HandlersKept, TableKept, SweepKept, PushedKept DEF IInv
<1> QED BY <1>1, <1>2, <1>3, <1>4, <1>5, SweepQuerySound, SweepSaveSound,
           CallerPresentsSound DEF Next

\* Every copy of every row is sound, in every reachable state.
THEOREM Invariance == Spec => []IInv
BY InitSound, StepSound, PTL DEF Spec

\* Every variable keeps its type: in particular no handler writes a row of
\* unknown status or owner.
THEOREM TypeCorrect == Spec => []TypeOK
BY Invariance, PTL DEF IInv

\* Id and token of a saved request always belong together and to the session.
THEOREM CredentialsArePaired == Spec => []CredentialsPaired
<1>1. IInv => CredentialsPaired
  BY DEF IInv, TableSound, Sound, CredentialsPaired, Rows
<1> QED BY <1>1, Invariance, PTL

\* A verified session rests on a presentation to the request it names.
THEOREM VerificationIsPresented == Spec => []VerifiedByItsRequest
<1>1. IInv => VerifiedByItsRequest
  BY DEF IInv, TableSound, Sound, VerifiedByItsRequest, Rows
<1> QED BY <1>1, Invariance, PTL

\* The verification time and the claims come and go with the status.
THEOREM VerifiedFieldsAgree == Spec => []VerifiedFieldsTogether
<1>1. IInv => VerifiedFieldsTogether
  BY NoneAssumption DEF IInv, TableSound, Sound, VerifiedFieldsTogether, Rows
<1> QED BY <1>1, Invariance, PTL

\* A failed session earned it.
THEOREM FailuresAreEarned == Spec => []FailureIsEarned
<1>1. IInv => FailureIsEarned
  <2> SUFFICES ASSUME IInv, NEW s \in Rows
               PROVE  /\ table[s].failedAttempts <= wrongCodes[s]
                      /\ table[s].status = "failed" =>
                           \/ wrongCodes[s] >= MaxFailedAttempts
                           \/ /\ table[s].requestId # None
                              /\ presentation[table[s].requestId].stage = "error"
    BY DEF FailureIsEarned
  <2>1. /\ s \in Sessions
        /\ table[s].sessionId = s
        /\ Sound(table[s])
        /\ table[s].failedAttempts <= wrongCodes[s]
        /\ table[s].failedAttempts \in Nat
        /\ wrongCodes[s] \in Nat
    BY DEF Rows, IInv, TableSound, Charged, TypeOK, Row
  <2> QED BY <2>1, ConstantsAssumption DEF Sound
<1> QED BY <1>1, Invariance, PTL

\* No pending session has reached the lockout threshold.
THEOREM PendingIsBelowThreshold == Spec => []PendingBelowThreshold
<1>1. IInv => PendingBelowThreshold
  BY DEF IInv, TableSound, Sound, PendingBelowThreshold, Rows
<1> QED BY <1>1, Invariance, PTL

\* What the agent's page was told did happen.
THEOREM PushesAreTrue == Spec => []PushedOutcomeHappened
BY Invariance, PTL DEF IInv

\* A session keeps its agent, its caller and its times for ever.
THEOREM IdentityIsKept == Spec => IdentityKept
<1>1. IInv /\ [Next]_vars =>
        [\A s \in Rows :
           /\ table'[s] # None
           /\ table'[s].sessionId = s
           /\ table'[s].agentEntraId = table[s].agentEntraId
           /\ table'[s].callerEmail = table[s].callerEmail
           /\ table'[s].createdAt = table[s].createdAt
           /\ table'[s].expiresAt = table[s].expiresAt]_vars
  <2> SUFFICES ASSUME IInv, [Next]_vars, NEW s \in Rows
               PROVE  /\ table'[s] # None
                      /\ table'[s].sessionId = s
                      /\ table'[s].agentEntraId = table[s].agentEntraId
                      /\ table'[s].callerEmail = table[s].callerEmail
                      /\ table'[s].createdAt = table[s].createdAt
                      /\ table'[s].expiresAt = table[s].expiresAt
    OBVIOUS
  <2>1. s \in Sessions /\ table[s] # None /\ table[s].sessionId = s
    BY DEF Rows, IInv, TableSound
  <2>2. Evolves
    BY StepEvolves
  <2> QED BY <2>1, <2>2 DEF Evolves, SameIdentity
<1> QED BY <1>1, Invariance, PTL DEF Spec, IdentityKept

-----------------------------------------------------------------------------
(* The refinement.                                                         *)

\* A step leaves the table alone, adds one pending row, or writes a row over
\* an earlier copy of it.
LEMMA TableSteps ==
  ASSUME IInv, [Next]_vars
  PROVE  \/ UNCHANGED table
         \/ \E s \in Sessions : /\ table[s] = None
                                /\ \E row \in Row :
                                      /\ row.status = "pending"
                                      /\ table' = [table EXCEPT ![s] = row]
         \/ \E row \in Row : table[row.sessionId] # None /\ UpdateAsync(row)
<1> USE DEF IInv
<1>1. ASSUME NEW h \in Handlers, NEW s \in Sessions, GenerateCreate(h, s)
      PROVE  \E row \in Row : /\ row.status = "pending"
                              /\ table' = [table EXCEPT ![s] = row]
  <2>1. handler[h].agent \in Agents /\ handler[h].email \in Emails
    BY <1>1 DEF GenerateCreate, HandlersSound, OpSound
  <2>2. /\ NewRow(s, handler[h].agent, handler[h].email) \in Row
        /\ NewRow(s, handler[h].agent, handler[h].email).status = "pending"
    BY <2>1, ConstantsAssumption DEF NewRow, Row, Statuses, TypeOK
  <2> QED BY <1>1, <2>2 DEF GenerateCreate
<1>2. ASSUME NEW h \in Handlers, InitiateSave(h) \/ FailedSave(h)
      PROVE  \E row \in Row : table[row.sessionId] # None /\ UpdateAsync(row)
  <2>1. handler[h].pc \in Holding /\ UpdateAsync(handler[h].row)
    BY <1>2 DEF InitiateSave, FailedSave, Holding, Points
  <2> QED BY <2>1, HeldRow
<1>3. ASSUME NEW h \in Handlers, CallbackSave(h)
      PROVE  \E row \in Row : table[row.sessionId] # None /\ UpdateAsync(row)
  <2> DEFINE row == DecidedRow(handler[h].row, handler[h].request)
  <2>1. handler[h].pc \in Holding /\ handler[h].request \in Requests
    BY <1>3 DEF CallbackSave, Holding, Points, HandlersSound, OpSound
  <2>2. row \in Row /\ SameIdentity(row, handler[h].row)
    BY <2>1, HeldRow, DecidedRowFields
  <2>3. table[row.sessionId] # None
    BY <2>1, <2>2, HeldRow DEF SameIdentity
  <2>4. UpdateAsync(row)
    BY <1>3 DEF CallbackSave
  <2> HIDE DEF row
  <2> QED BY <2>2, <2>3, <2>4
<1>4. ASSUME NEW s \in Sessions, SweepSave(s)
      PROVE  \E row \in Row : table[row.sessionId] # None /\ UpdateAsync(row)
  <2> DEFINE row == [sweep[s] EXCEPT !.status = "expired"]
  <2>1. sweep[s] \in Row /\ table[sweep[s].sessionId] # None
    BY <1>4 DEF SweepSave, SweepSound, Sound
  <2>2. row \in Row /\ row.sessionId = sweep[s].sessionId
    BY <2>1 DEF Row, Statuses
  <2>3. UpdateAsync(row)
    BY <1>4 DEF SweepSave
  <2> HIDE DEF row
  <2> QED BY <2>1, <2>2, <2>3
<1>5. ASSUME NEW h \in Handlers, Arrive(h)
      PROVE  UNCHANGED table
  BY <1>5 DEF Arrive, GenerateCount, InitiateLookup, FailedLookup, CallbackLoad
<1>6. ASSUME NEW h \in Handlers, Proceed(h)
      PROVE  \/ UNCHANGED table
             \/ InitiateSave(h) \/ FailedSave(h) \/ CallbackSave(h)
             \/ \E s \in Sessions : GenerateCreate(h, s)
  BY <1>6 DEF Proceed, GenerateDisclose, InitiateRequest, InitiateReply,
              CallbackPush, HandlerFails
<1>7. ASSUME SweepQuery \/ SweepFails \/ Tick \/ UNCHANGED vars
      PROVE  UNCHANGED table
  BY <1>7 DEF SweepQuery, SweepFails, Tick, vars
<1>8. ASSUME NEW r \in Requests, CallerPresents(r)
      PROVE  UNCHANGED table
  BY <1>8 DEF CallerPresents
<1>9. ASSUME NEW h \in Handlers, NEW s \in Sessions, GenerateCreate(h, s)
      PROVE  table[s] = None
  BY <1>9 DEF GenerateCreate
<1> QED BY <1>1, <1>2, <1>3, <1>4, <1>5, <1>6, <1>7, <1>8, <1>9 DEF Next

\* Evidence for a final status is never taken back.
LEMMA EvidenceIsKept ==
  ASSUME IInv, TypeOK', Evolves
  PROVE  Lifecycle!EvidenceGrows
<1>1. ASSUME NEW r \in Requests, presentation[r].stage \in {"verified", "error"}
      PROVE  presentation'[r] = presentation[r]
  BY <1>1 DEF Evolves, Outcomes
<1>2. ASSUME NEW s \in Sessions, wrongCodes[s] >= MaxFailedAttempts
      PROVE  wrongCodes'[s] >= MaxFailedAttempts
  <2>1. /\ wrongCodes[s] \in Nat /\ wrongCodes'[s] \in Nat
        /\ wrongCodes[s] <= wrongCodes'[s]
    BY DEF IInv, TypeOK, Evolves
  <2> QED BY <1>2, <2>1, ConstantsAssumption
<1>3. ASSUME NEW s \in Sessions, table[s] # None, table[s].expiresAt <= now
      PROVE  table'[s] # None /\ table'[s].expiresAt <= now'
  <2>1. /\ table'[s] # None
        /\ table'[s].expiresAt = table[s].expiresAt
        /\ now <= now'
    BY <1>3 DEF Evolves, SameIdentity
  <2>2. table[s].expiresAt \in Nat /\ now \in Nat /\ now' \in Nat
    BY <1>3 DEF IInv, TypeOK, Row
  <2> QED BY <1>3, <2>1, <2>2
<1> QED BY <1>1, <1>2, <1>3 DEF Lifecycle!EvidenceGrows

\* A row that holds a final status has the evidence for it.
LEMMA RowsAreJustified ==
  ASSUME IInv, IInv', NEW s \in Sessions, table'[s] # None
  PROVE  Lifecycle!Justified(s, table'[s].status)
<1>1. PICK row \in Row : row = table'[s]
  BY DEF IInv, TypeOK
<1>2. row.sessionId = s /\ Sound(row)' /\ Charged(row)'
  BY <1>1 DEF IInv, TableSound, Sound, Charged
<1>3. row.requestId # None => row.requestId \in Requests
  BY DEF Row
<1>4. row.status = "verified" =>
        \E r \in Requests : /\ presentation'[r].session = s
                            /\ presentation'[r].stage = "verified"
  BY <1>2, <1>3 DEF Sound
<1>5. row.status = "failed" =>
        \/ wrongCodes'[s] >= MaxFailedAttempts
        \/ \E r \in Requests : /\ presentation'[r].session = s
                               /\ presentation'[r].stage = "error"
  <2>1. row.failedAttempts \in Nat /\ wrongCodes'[s] \in Nat
    BY DEF IInv, TypeOK, Row
  <2>2. row.failedAttempts <= wrongCodes'[s]
    BY <1>2 DEF Charged
  <2>3. row.failedAttempts >= MaxFailedAttempts => wrongCodes'[s] >= MaxFailedAttempts
    BY <2>1, <2>2, ConstantsAssumption
  <2> QED BY <1>2, <1>3, <2>3 DEF Sound
<1>6. row.status = "expired" => row.expiresAt <= now'
  BY <1>2 DEF Sound
<1> QED BY <1>1, <1>4, <1>5, <1>6 DEF Lifecycle!Justified

\* A row written over another one is an overwrite of the life cycle.
LEMMA WritesAreJustified ==
  ASSUME IInv, IInv', NEW row \in Row, table[row.sessionId] # None, UpdateAsync(row)
  PROVE  Lifecycle!Overwrite(row.sessionId, row.status)
<1> DEFINE StatusOf(s) == IF table[s] = None THEN "absent" ELSE table[s].status
<1>1. row # None /\ row.sessionId \in Sessions /\ TypeOK
  BY NoneAssumption DEF Row, IInv
<1>2. table' = [table EXCEPT ![row.sessionId] = row]
  BY DEF UpdateAsync
<1>3. table'[row.sessionId] = row
  BY <1>1, <1>2 DEF TypeOK
<1>4. Lifecycle!Justified(row.sessionId, row.status)
  BY <1>1, <1>3, RowsAreJustified DEF Lifecycle!Justified
<1>5. [s \in Sessions |-> StatusOf(s)]'
        = [[s \in Sessions |-> StatusOf(s)] EXCEPT ![row.sessionId] = row.status]
  BY <1>1, <1>2 DEF TypeOK
<1>6. table[row.sessionId].status # "absent"
  BY <1>1 DEF TypeOK, Row, Statuses
<1> QED BY <1>1, <1>4, <1>5, <1>6 DEF Lifecycle!Overwrite

\* A row added to the table is a session created.
LEMMA NewRowsArePending ==
  ASSUME TypeOK, NEW s \in Sessions, table[s] = None, NEW row \in Row,
         row.status = "pending", table' = [table EXCEPT ![s] = row]
  PROVE  Lifecycle!Create(s)
<1>1. row # None
  BY NoneAssumption
<1> QED BY <1>1 DEF Lifecycle!Create, TypeOK

\* Overlapping handlers and sweeps may bring an earlier status back, but never
\* write one that nothing justifies: the table implements the lossy life cycle.
THEOREM TableImplementsLossyLifecycle == Spec => ImplementsLossyLifecycle
<1>1. Init => Lifecycle!Init
  BY ConstantsAssumption DEF Init, Lifecycle!Init
<1>2. IInv /\ IInv' /\ [Next]_vars => [Lifecycle!LossyNext]_(Lifecycle!vars)
  <2> SUFFICES ASSUME IInv, IInv', [Next]_vars
               PROVE  Lifecycle!LossyNext
    OBVIOUS
  <2>1. Evolves /\ TypeOK' /\ TypeOK
    BY StepEvolves DEF IInv
  <2>2. Lifecycle!EvidenceGrows
    BY <2>1, EvidenceIsKept
  <2>3. CASE UNCHANGED table
    BY <2>2, <2>3 DEF Lifecycle!LossyNext
  <2>4. ASSUME NEW s \in Sessions, table[s] = None, NEW row \in Row,
               row.status = "pending", table' = [table EXCEPT ![s] = row]
        PROVE  Lifecycle!Create(s)
    BY <2>1, <2>4, NewRowsArePending
  <2>5. ASSUME NEW row \in Row, table[row.sessionId] # None, UpdateAsync(row)
        PROVE  Lifecycle!Overwrite(row.sessionId, row.status)
    BY <2>5, WritesAreJustified
  <2>6. ASSUME NEW row \in Row
        PROVE  row.sessionId \in Sessions
                 /\ row.status \in Lifecycle!Final \cup {"pending"}
    BY DEF Row, Statuses, Lifecycle!Final
  <2> QED BY <2>2, <2>3, <2>4, <2>5, <2>6, TableSteps DEF Lifecycle!LossyNext
<1> QED BY <1>1, <1>2, Invariance, PTL
           DEF Spec, ImplementsLossyLifecycle, Lifecycle!LossySpec

-----------------------------------------------------------------------------
(* The server the pages see.                                               *)

\* Copies a handler will save without telling anybody: pending ones, or failed
\* by the lockout.
Quiet(op) ==
  /\ op.pc \in {"request", "save"} => op.row.status = "pending"
  /\ op.pc \in {"reject", "lockout"} =>
        \/ op.row.status = "pending"
        \/ op.row.status = "failed" /\ op.row.failedAttempts >= MaxFailedAttempts

HandlersQuiet == \A h \in Handlers : Quiet(handler[h])

\* Only the lookups and the request give a handler such a copy.
LEMMA HandlersQuietKept ==
  ASSUME IInv, HandlersQuiet, [Next]_vars
  PROVE  HandlersQuiet'
<1> SUFFICES ASSUME NEW g \in Handlers  PROVE Quiet(handler[g])'
  BY DEF HandlersQuiet
<1>1. TypeOK /\ Quiet(handler[g])
  BY DEF IInv, HandlersQuiet
<1>2. CASE UNCHANGED handler
  BY <1>1, <1>2 DEF Quiet
<1>3. ASSUME NEW h \in Handlers, Arrive(h) \/ Proceed(h)  PROVE Quiet(handler[g])'
  <2>1. CASE g # h
    <3>1. handler'[g] = handler[g]
      BY <1>1, <1>3, <2>1
         DEF Arrive, Proceed, GenerateCount, InitiateLookup, FailedLookup, CallbackLoad,
             GenerateCreate, GenerateDisclose, InitiateRequest, InitiateSave, InitiateReply,
             FailedSave, CallbackSave, CallbackPush, HandlerFails, Continue, Return, TypeOK
    <3> QED BY <1>1, <3>1 DEF Quiet
  <2> SUFFICES ASSUME g = h  PROVE Quiet(handler[h])'
    BY <2>1
  <2>2. ASSUME NEW agent \in Agents, NEW email \in Emails, GenerateCount(h, agent, email)
        PROVE  Quiet(handler[h])'
    BY <1>1, <2>2 DEF GenerateCount, Quiet, TypeOK, Idle
  <2>3. ASSUME NEW s \in Sessions, InitiateLookup(h, s)  PROVE Quiet(handler[h])'
    <3>1. table[s] \in Row /\ table[s].status = "pending"
      BY <1>1, <2>3 DEF InitiateLookup, IsPending, TypeOK
    <3>2. CASE table[s].failedAttempts >= MaxFailedAttempts
      <4>1. Continue(h, "lockout", [table[s] EXCEPT !.status = "failed"], None)
        BY <2>3, <3>2 DEF InitiateLookup
      <4>2. handler'[h].pc = "lockout" /\ handler'[h].row = [table[s] EXCEPT !.status = "failed"]
        BY <1>1, <4>1, ContinueFields
      <4> QED BY <3>1, <3>2, <4>2 DEF Quiet, Row
    <3>3. CASE ~(table[s].failedAttempts >= MaxFailedAttempts)
      <4>1. Continue(h, "request", table[s], None)
        BY <2>3, <3>3 DEF InitiateLookup
      <4>2. handler'[h].pc = "request" /\ handler'[h].row = table[s]
        BY <1>1, <4>1, ContinueFields
      <4> QED BY <3>1, <4>2 DEF Quiet
    <3> QED BY <3>2, <3>3
  <2>4. ASSUME NEW email \in Emails, NEW s \in Sessions, FailedLookup(h, email, s)
        PROVE  Quiet(handler[h])'
    <3> DEFINE attempts == table[s].failedAttempts + 1
               verdict == IF attempts >= MaxFailedAttempts THEN "failed" ELSE "pending"
               row == [table[s] EXCEPT !.failedAttempts = attempts, !.status = verdict]
    <3>1. Continue(h, "reject", row, None)
      BY <2>4 DEF FailedLookup
    <3>2. table[s] \in Row
      BY <1>1, <2>4, MostRecentIsPending DEF FailedLookup, IsPending, TypeOK
    <3>3. row.failedAttempts = attempts /\ row.status = verdict
      BY <3>2 DEF Row
    <3>4. handler'[h].pc = "reject" /\ handler'[h].row = row
      BY <1>1, <3>1, ContinueFields
    <3> QED BY <3>3, <3>4 DEF Quiet
  <2>5. ASSUME NEW r \in Requests, CallbackLoad(h, r)  PROVE Quiet(handler[h])'
    <3>1. handler'[h].pc = "accept"
      BY <1>1, <2>5, ContinueFields DEF CallbackLoad
    <3> QED BY <3>1 DEF Quiet
  <2>6. ASSUME NEW s \in Sessions, GenerateCreate(h, s)  PROVE Quiet(handler[h])'
    <3>1. handler'[h].pc = "disclose"
      BY <1>1, <2>6, ContinueFields DEF GenerateCreate
    <3> QED BY <3>1 DEF Quiet
  <2>7. ASSUME NEW r \in Requests, InitiateRequest(h, r)  PROVE Quiet(handler[h])'
    <3> DEFINE row == [handler[h].row EXCEPT !.requestId = r, !.callbackTokenHash = r]
    <3>1. handler[h].row \in Row /\ handler[h].row.status = "pending"
      BY <1>1, <2>7, HeldRow DEF IInv, InitiateRequest, Quiet, Holding, Points
    <3>2. row.status = "pending"
      BY <3>1 DEF Row
    <3>3. handler'[h].pc = "save" /\ handler'[h].row = row
      BY <1>1, <2>7, ContinueFields DEF InitiateRequest
    <3> QED BY <3>2, <3>3 DEF Quiet
  <2>8. CASE InitiateSave(h)
    <3>1. handler'[h].pc = "reply"
      BY <1>1, <2>8, ContinueFields DEF InitiateSave
    <3> QED BY <3>1 DEF Quiet
  <2>9. CASE CallbackSave(h)
    <3>1. handler'[h].pc = "push"
      BY <1>1, <2>9, ContinueFields DEF CallbackSave
    <3> QED BY <3>1 DEF Quiet
  <2>10. CASE Return(h)
    <3>1. handler'[h].pc = "idle"
      BY <1>1, <2>10, ReturnFields
    <3> QED BY <3>1 DEF Quiet
  <2>11. GenerateDisclose(h) \/ InitiateReply(h) \/ FailedSave(h) \/ CallbackPush(h)
           \/ HandlerFails(h) => Return(h)
    BY DEF GenerateDisclose, InitiateReply, FailedSave, CallbackPush, HandlerFails
  <2> QED BY <1>3, <2>2, <2>3, <2>4, <2>5, <2>6, <2>7, <2>8, <2>9, <2>10, <2>11
             DEF Arrive, Proceed
<1>4. SweepQuery \/ SweepFails \/ Tick \/ UNCHANGED vars => UNCHANGED handler
  BY DEF SweepQuery, SweepFails, Tick, vars
<1>5. \A s \in Sessions : SweepSave(s) => UNCHANGED handler
  BY DEF SweepSave
<1>6. \A r \in Requests : CallerPresents(r) => UNCHANGED handler
  BY DEF CallerPresents
<1> QED BY <1>2, <1>3, <1>4, <1>5, <1>6 DEF Next

\* A handler that moves alone changes what it owes alone.
LEMMA OwedMoves ==
  ASSUME NEW h \in Handlers, \A g \in Handlers \ {h} : handler'[g] = handler[g]
  PROVE  [g \in Handlers |-> Owed(g)]'
           = [[g \in Handlers |-> Owed(g)] EXCEPT ![h] = Owed(h)']
BY DEF Owed

\* What a save owes and what it writes are about one outcome of the row's request.
LEMMA CallbackReports ==
  ASSUME IInv, IInv', NEW h \in Handlers, CallbackSave(h)
  PROVE  \E row \in Row :
           /\ table[row.sessionId] # None /\ UpdateAsync(row)
           /\ row.status \in {"verified", "failed"}
           /\ row.status = "failed" =>
                \E r \in Requests : /\ presentation'[r].session = row.sessionId
                                    /\ presentation'[r].stage = "error"
           /\ Owed(h) = <<>>
           /\ Owed(h)' = <<row.sessionId, EventOf(row)>>
<1>1. handler[h].pc = "accept" /\ handler[h].pc \in Holding
        /\ handler[h].request \in Requests /\ TypeOK /\ HandlersSound
  BY DEF CallbackSave, Holding, Points, IInv, HandlersSound, OpSound
<1>2. DecidedRow(handler[h].row, handler[h].request) \in Row
        /\ SameIdentity(DecidedRow(handler[h].row, handler[h].request), handler[h].row)
  BY <1>1, HeldRow, DecidedRowFields
<1>3. PICK row \in Row : row = DecidedRow(handler[h].row, handler[h].request)
  BY <1>2
<1>4. table[row.sessionId] # None
  BY <1>1, <1>2, <1>3, HeldRow DEF SameIdentity
<1>5. UpdateAsync(row) /\ Continue(h, "push", row, handler[h].request)
  BY <1>3 DEF CallbackSave
<1>6. handler'[h].pc = "push" /\ handler'[h].row = row
  BY <1>1, <1>5, ContinueFields
<1>7. /\ row.requestId # None
      /\ \/ row.status = "verified"
         \/ row.status = "failed" /\ presentation'[row.requestId].stage = "error"
  BY <1>6 DEF IInv, HandlersSound, OpSound
<1>8. row.requestId \in Requests /\ presentation'[row.requestId].session = row.sessionId
  <2>1. Sound(handler[h].row)'
    BY <1>6 DEF IInv, HandlersSound, OpSound, Holding, Points
  <2> QED BY <1>6, <1>7, <2>1 DEF Sound, Row
<1>9. Owed(h) = <<>> /\ Owed(h)' = <<row.sessionId, EventOf(row)>>
  BY <1>1, <1>6 DEF Owed, EventOf
<1> QED BY <1>4, <1>5, <1>7, <1>8, <1>9

\* Whoever overwrites whom, a verification or a refusal is never written without
\* the writer owing its event, and all other writers are silent: the API
\* implements the server that AgentPage is checked against.
THEOREM ApiImplementsSessionServer == Spec => ImplementsSessionServer
<1> DEFINE owing == [h \in Handlers |-> Owed(h)]
<1>1. Init => Lifecycle!ServerInit
  <2> SUFFICES ASSUME Init  PROVE Lifecycle!ServerInit
    OBVIOUS
  <2>1. Lifecycle!Init
    BY ConstantsAssumption DEF Init, Lifecycle!Init
  <2>2. \A h \in Handlers : Owed(h) = <<>>
    BY DEF Init, Owed, Idle
  <2> QED BY <2>1, <2>2 DEF Lifecycle!ServerInit
<1>2. Init => HandlersQuiet
  BY DEF Init, Idle, HandlersQuiet, Quiet
<1>3. IInv /\ IInv' /\ HandlersQuiet /\ [Next]_vars
        => [Lifecycle!ServerNext]_(Lifecycle!serverVars)
  <2> SUFFICES ASSUME IInv, IInv', HandlersQuiet, [Next]_vars
               PROVE  Lifecycle!ServerNext
    OBVIOUS
  <2>1. TypeOK /\ Lifecycle!EvidenceGrows
    BY StepEvolves, EvidenceIsKept DEF IInv
  <2>2. ASSUME UNCHANGED <<table, owing>>  PROVE Lifecycle!ServerNext
    BY <2>1, <2>2 DEF Lifecycle!ServerNext
  <2>3. ASSUME UNCHANGED <<table, handler>>  PROVE Lifecycle!ServerNext
    BY <2>2, <2>3 DEF Owed
  <2>4. ASSUME NEW h \in Handlers, \A g \in Handlers \ {h} : handler'[g] = handler[g],
               handler[h].pc # "push", handler'[h].pc # "push"
        PROVE  UNCHANGED owing
    BY <2>4 DEF Owed
  <2>5. ASSUME NEW row \in Row, table[row.sessionId] # None, UpdateAsync(row),
               UNCHANGED owing, row.status \in {"pending", "failed", "expired"},
               row.status = "failed" => wrongCodes'[row.sessionId] >= MaxFailedAttempts
        PROVE  Lifecycle!ServerNext
    <3>1. row.sessionId \in Sessions
      BY DEF Row
    <3>2. Lifecycle!Overwrite(row.sessionId, row.status)
      BY <2>5, WritesAreJustified
    <3>3. Lifecycle!Quietly(row.sessionId, row.status)
      BY <2>5, <3>1, <3>2 DEF Lifecycle!Quietly
    <3> QED BY <2>1, <2>5, <3>1, <3>3 DEF Lifecycle!ServerNext, Lifecycle!Final
  <2> HIDE DEF owing
  <2>6. ASSUME NEW h \in Handlers, Arrive(h)  PROVE Lifecycle!ServerNext
    <3>1. UNCHANGED table /\ handler[h].pc = "idle"
            /\ \A g \in Handlers \ {h} : handler'[g] = handler[g]
      BY <2>1, <2>6 DEF Arrive, GenerateCount, InitiateLookup, FailedLookup, CallbackLoad,
                        Continue, TypeOK
    <3>2. handler'[h].pc # "push"
      <4>1. ASSUME NEW agent \in Agents, NEW email \in Emails, GenerateCount(h, agent, email)
            PROVE  handler'[h].pc = "create"
        BY <2>1, <4>1 DEF GenerateCount, TypeOK, Idle
      <4>2. ASSUME NEW s \in Sessions, InitiateLookup(h, s)
            PROVE  handler'[h].pc \in {"lockout", "request"}
        BY <2>1, <4>2, ContinueFields DEF InitiateLookup
      <4>3. ASSUME NEW email \in Emails, NEW s \in Sessions, FailedLookup(h, email, s)
            PROVE  handler'[h].pc = "reject"
        <5>1. PICK row : Continue(h, "reject", row, None)
          BY <4>3 DEF FailedLookup
        <5> QED BY <2>1, <5>1, ContinueFields
      <4>4. ASSUME NEW r \in Requests, CallbackLoad(h, r)
            PROVE  handler'[h].pc = "accept"
        BY <2>1, <4>4, ContinueFields DEF CallbackLoad
      <4> QED BY <2>6, <4>1, <4>2, <4>3, <4>4 DEF Arrive
    <3> QED BY <2>2, <2>4, <3>1, <3>2
  <2>7. ASSUME NEW h \in Handlers, NEW s \in Sessions, GenerateCreate(h, s)
        PROVE  Lifecycle!ServerNext
    <3> DEFINE row == NewRow(s, handler[h].agent, handler[h].email)
    <3>1. row \in Row /\ row.status = "pending"
      <4>1. handler[h].agent \in Agents /\ handler[h].email \in Emails
        BY <2>7 DEF GenerateCreate, IInv, HandlersSound, OpSound
      <4> QED BY <2>1, <4>1, ConstantsAssumption DEF NewRow, Row, Statuses, TypeOK
    <3>2. table[s] = None /\ table' = [table EXCEPT ![s] = row]
            /\ Continue(h, "disclose", row, None)
      BY <2>7 DEF GenerateCreate
    <3> HIDE DEF row
    <3>3. Lifecycle!Create(s)
      BY <2>1, <3>1, <3>2, NewRowsArePending
    <3>4. UNCHANGED owing
      BY <2>1, <2>4, <2>7, <3>2, ContinueFields DEF GenerateCreate
    <3> QED BY <2>1, <3>3, <3>4 DEF Lifecycle!ServerNext, owing
  <2>8. ASSUME NEW h \in Handlers,
               GenerateDisclose(h) \/ InitiateReply(h)
                 \/ \E r \in Requests : InitiateRequest(h, r)
        PROVE  Lifecycle!ServerNext
    <3>1. UNCHANGED table /\ handler[h].pc # "push"
      BY <2>8 DEF GenerateDisclose, InitiateReply, InitiateRequest
    <3>2. handler'[h].pc # "push" /\ \A g \in Handlers \ {h} : handler'[g] = handler[g]
      <4>1. CASE GenerateDisclose(h) \/ InitiateReply(h)
        BY <2>1, <4>1, ReturnFields DEF GenerateDisclose, InitiateReply
      <4>2. ASSUME NEW r \in Requests, InitiateRequest(h, r)
            PROVE  handler'[h].pc = "save" /\ \A g \in Handlers \ {h} : handler'[g] = handler[g]
        BY <2>1, <4>2, ContinueFields DEF InitiateRequest
      <4> QED BY <2>8, <4>1, <4>2
    <3> QED BY <2>2, <2>4, <3>1, <3>2
  <2>9. ASSUME NEW h \in Handlers, InitiateSave(h) \/ FailedSave(h)
        PROVE  Lifecycle!ServerNext
    <3>1. PICK row \in Row : row = handler[h].row
      BY <2>1, <2>9, HeldRow DEF InitiateSave, FailedSave, Holding, Points, IInv
    <3>2. UpdateAsync(row) /\ table[row.sessionId] # None
      BY <2>1, <2>9, <3>1, HeldRow DEF InitiateSave, FailedSave, Holding, Points, IInv
    <3>3. \/ row.status = "pending"
          \/ row.status = "failed" /\ row.failedAttempts >= MaxFailedAttempts
      BY <2>9, <3>1 DEF InitiateSave, FailedSave, HandlersQuiet, Quiet
    <3>4. row.status = "failed" => wrongCodes'[row.sessionId] >= MaxFailedAttempts
      <4>1. row.sessionId \in Sessions /\ table'[row.sessionId] = row /\ row # None
        BY <2>1, <3>2, NoneAssumption DEF UpdateAsync, TypeOK, Row
      <4>2. row.failedAttempts <= wrongCodes'[row.sessionId]
        BY <4>1 DEF IInv, TableSound, Charged
      <4>3. row.failedAttempts \in Nat /\ wrongCodes'[row.sessionId] \in Nat
        BY <4>1 DEF IInv, TypeOK, Row
      <4> QED BY <3>3, <4>2, <4>3, ConstantsAssumption
    <3>5. handler[h].pc # "push" /\ handler'[h].pc # "push"
            /\ \A g \in Handlers \ {h} : handler'[g] = handler[g]
      BY <2>1, <2>9, ContinueFields, ReturnFields DEF InitiateSave, FailedSave
    <3> QED BY <2>4, <2>5, <3>2, <3>3, <3>4, <3>5
  <2>10. ASSUME NEW h \in Handlers, CallbackSave(h)  PROVE Lifecycle!ServerNext
    <3>1. PICK row \in Row :
            /\ table[row.sessionId] # None /\ UpdateAsync(row)
            /\ row.status \in {"verified", "failed"}
            /\ row.status = "failed" =>
                 \E r \in Requests : /\ presentation'[r].session = row.sessionId
                                     /\ presentation'[r].stage = "error"
            /\ Owed(h) = <<>>
            /\ Owed(h)' = <<row.sessionId, EventOf(row)>>
      BY <2>10, CallbackReports
    <3>2. row.sessionId \in Sessions
      BY DEF Row
    <3>3. Lifecycle!Overwrite(row.sessionId, row.status)
      BY <3>1, WritesAreJustified
    <3>4. \A g \in Handlers \ {h} : handler'[g] = handler[g]
      BY <2>1, <2>10, ContinueFields DEF CallbackSave
    <3>5. owing' = [owing EXCEPT ![h] = <<row.sessionId, EventOf(row)>>]
      BY <3>1, <3>4, OwedMoves DEF owing
    <3>6. owing[h] = <<>>
      BY <3>1 DEF owing
    <3>7. Lifecycle!Reported(h, row.sessionId, row.status)
      BY <3>1, <3>2, <3>3, <3>5, <3>6 DEF Lifecycle!Reported, EventOf, owing
    <3> QED BY <2>1, <3>1, <3>2, <3>7 DEF Lifecycle!ServerNext, Lifecycle!Final
  <2>11. ASSUME NEW h \in Handlers, CallbackPush(h) \/ HandlerFails(h)
         PROVE  Lifecycle!ServerNext
    <3>1. UNCHANGED table /\ Return(h)
      BY <2>11 DEF CallbackPush, HandlerFails
    <3>2. handler'[h].pc = "idle" /\ \A g \in Handlers \ {h} : handler'[g] = handler[g]
      BY <2>1, <3>1, ReturnFields
    <3>3. CASE handler[h].pc # "push"
      BY <2>2, <2>4, <3>1, <3>2, <3>3
    <3>4. CASE handler[h].pc = "push"
      <4>1. Owed(h)' = <<>> /\ Owed(h) # <<>>
        BY <3>2, <3>4 DEF Owed
      <4>2. owing' = [owing EXCEPT ![h] = <<>>] /\ owing[h] # <<>>
        BY <3>2, <4>1, OwedMoves DEF owing
      <4>3. Lifecycle!SentOrLost(h)
        BY <3>1, <4>2 DEF Lifecycle!SentOrLost, owing
      <4> QED BY <2>1, <4>3 DEF Lifecycle!ServerNext
    <3> QED BY <3>3, <3>4
  <2>12. ASSUME NEW s \in Sessions, SweepSave(s)  PROVE Lifecycle!ServerNext
    <3> DEFINE row == [sweep[s] EXCEPT !.status = "expired"]
    <3>1. sweep[s] \in Row /\ table[sweep[s].sessionId] # None
      BY <2>12 DEF SweepSave, IInv, SweepSound, Sound
    <3>2. row \in Row /\ row.sessionId = sweep[s].sessionId /\ row.status = "expired"
      BY <3>1 DEF Row, Statuses
    <3>3. UpdateAsync(row) /\ UNCHANGED handler
      BY <2>12 DEF SweepSave
    <3>4. UNCHANGED owing
      BY <3>3 DEF owing, Owed
    <3> HIDE DEF row
    <3> QED BY <2>5, <3>1, <3>2, <3>3, <3>4
  <2>13. CASE SweepQuery \/ SweepFails \/ Tick \/ UNCHANGED vars
    BY <2>3, <2>13 DEF SweepQuery, SweepFails, Tick, vars
  <2>14. ASSUME NEW r \in Requests, CallerPresents(r)  PROVE Lifecycle!ServerNext
    BY <2>3, <2>14 DEF CallerPresents
  <2>15. ASSUME NEW h \in Handlers, Proceed(h)  PROVE Lifecycle!ServerNext
    BY <2>7, <2>8, <2>9, <2>10, <2>11, <2>15 DEF Proceed
  <2> QED BY <2>6, <2>12, <2>13, <2>14, <2>15 DEF Next
<1> QED BY <1>1, <1>2, <1>3, Invariance, HandlersQuietKept, PTL
           DEF Spec, ImplementsSessionServer, Lifecycle!ServerSpec

=============================================================================
