--------------------------- MODULE SerialApi_proofs ---------------------------
(***************************************************************************)
(* Theorems about VerificationApi when requests and sweeps do not overlap  *)
(* (SerialSpec): the life cycle as documented, the lockout, the cap and    *)
(* the single push hold, for every value of the constants.                 *)
(*                                                                         *)
(* SerialSpec allows no step that Spec does not, so IInv of                *)
(* VerificationApi_proofs is available.  What overlap destroys, and SInv   *)
(* adds, is freshness: the copy a request or the sweep is about to write   *)
(* was taken from a row that is still pending, and with it what was        *)
(* counted or checked when it was read is still so.                        *)
(***************************************************************************)
EXTENDS VerificationApi_proofs, FiniteSetTheorems

\* The points at which a handler is on its way to write its copy.
Writing == {"request", "save", "reject", "lockout", "accept"}

\* A pending copy counts every wrong code, the one being answered included.
Counted(op) ==
  op.row.status = "pending" =>
    IF op.pc = "reject"
      THEN wrongCodes[op.row.sessionId] + 1 <= op.row.failedAttempts
      ELSE wrongCodes[op.row.sessionId] <= op.row.failedAttempts

OpFresh(op) ==
  /\ op.pc = "create" => Cardinality(PendingOf(op.agent)) < MaxPendingSessionsPerAgent
  /\ op.pc \in Writing => IsPending(op.row.sessionId)
  /\ op.pc \in Writing \ {"accept"} => Counted(op)
  /\ op.pc = "push" => /\ ~IsPending(op.row.sessionId)
                       /\ pushed[op.row.sessionId] = {}

HandlersFresh == \A h \in Handlers : OpFresh(handler[h])

SweepFresh == \A s \in Sessions : sweep[s] # None => IsPending(s)

\* No wrong code is answered before there is a session, none is forgotten.
CodesCounted ==
  \A s \in Sessions :
    /\ table[s] = None => wrongCodes[s] = 0
    /\ IsPending(s) => wrongCodes[s] <= table[s].failedAttempts

\* The group is told once the session is settled, not before.
ToldWhenSettled ==
  \A s \in Sessions : pushed[s] # {} => table[s] # None /\ ~IsPending(s)

SInv ==
  /\ AtMostOneBusy
  /\ HandlersFresh
  /\ SweepFresh
  /\ CodesCounted
  /\ ToldWhenSettled
  /\ IsFiniteSet(Rows)
  /\ PendingCapRespected

-----------------------------------------------------------------------------
(* How a serial step changes the table.                                    *)

\* A copy is written over a row that is still pending.
Settles(row) ==
  /\ IsPending(row.sessionId)
  /\ SameIdentity(row, table[row.sessionId])
  /\ UpdateAsync(row)
  /\ row.status = "pending" => wrongCodes'[row.sessionId] <= row.failedAttempts
  /\ \A s \in Sessions \ {row.sessionId} : wrongCodes'[s] = wrongCodes[s]

\* A pending row is added, and its agent has room for it.
Adds(s, row) ==
  /\ row.status = "pending"
  /\ table[s] = None
  /\ table' = [table EXCEPT ![s] = row]
  /\ Cardinality(PendingOf(row.agentEntraId)) < MaxPendingSessionsPerAgent
  /\ UNCHANGED wrongCodes

TableStep ==
  \/ UNCHANGED <<table, wrongCodes>>
  \/ \E s \in Sessions, row \in Row : Adds(s, row)
  \/ \E row \in Row : Settles(row)

\* While one handler is busy the others are idle, and no sweep is under way.
LEMMA OthersIdle ==
  ASSUME AtMostOneBusy, NEW h \in Handlers, handler[h].pc # "idle"
  PROVE  /\ \A g \in Handlers \ {h} : handler[g].pc = "idle"
         /\ \A s \in Sessions : sweep[s] = None
BY DEF AtMostOneBusy

\* During a sweep every handler is idle.
LEMMA SweepAlone ==
  ASSUME AtMostOneBusy, NEW s \in Sessions, sweep[s] # None
  PROVE  \A h \in Handlers : handler[h].pc = "idle"
BY DEF AtMostOneBusy

\* A handler about to write holds a copy of its session's row, still pending.
LEMMA WriterFresh ==
  ASSUME IInv, SInv, NEW h \in Handlers, handler[h].pc \in Writing
  PROVE  /\ handler[h].row \in Row
         /\ handler[h].row.sessionId \in Sessions
         /\ IsPending(handler[h].row.sessionId)
         /\ SameIdentity(handler[h].row, table[handler[h].row.sessionId])
         /\ handler[h].pc # "accept" => Counted(handler[h])
<1>1. handler[h].pc \in Holding
  BY DEF Writing, Holding, Points
<1>2. OpFresh(handler[h])
  BY DEF SInv, HandlersFresh
<1> QED BY <1>1, <1>2, HeldRow DEF IInv, OpFresh

\* Without overlap, only pending rows are written over.
LEMMA SerialTableSteps ==
  ASSUME IInv, SInv, [Next]_vars
  PROVE  TableStep
<1> USE DEF IInv
<1>1. ASSUME NEW h \in Handlers, NEW s \in Sessions, GenerateCreate(h, s)
      PROVE  \E row \in Row : Adds(s, row)
  <2> DEFINE row == NewRow(s, handler[h].agent, handler[h].email)
  <2>1. handler[h].agent \in Agents /\ handler[h].email \in Emails
    BY <1>1 DEF GenerateCreate, HandlersSound, OpSound
  <2>2. /\ row \in Row
        /\ row.status = "pending"
        /\ row.agentEntraId = handler[h].agent
    BY <2>1, ConstantsAssumption DEF NewRow, Row, Statuses, TypeOK
  <2>3. Cardinality(PendingOf(handler[h].agent)) < MaxPendingSessionsPerAgent
    BY <1>1 DEF GenerateCreate, SInv, HandlersFresh, OpFresh
  <2>4. table[s] = None /\ table' = [table EXCEPT ![s] = row] /\ UNCHANGED wrongCodes
    BY <1>1 DEF GenerateCreate
  <2> HIDE DEF row
  <2> QED BY <2>2, <2>3, <2>4 DEF Adds
<1>2. ASSUME NEW h \in Handlers, InitiateSave(h)
      PROVE  Settles(handler[h].row) /\ handler[h].row \in Row
  BY <1>2, WriterFresh DEF InitiateSave, Writing, Settles, Counted
<1>3. ASSUME NEW h \in Handlers, FailedSave(h)
      PROVE  Settles(handler[h].row) /\ handler[h].row \in Row
  <2>1. handler[h].pc \in Writing
    BY <1>3 DEF FailedSave, Writing
  <2>2. CASE handler[h].pc = "reject"
    BY <1>3, <2>1, <2>2, WriterFresh DEF FailedSave, Settles, Counted, TypeOK
  <2>3. CASE handler[h].pc = "lockout"
    BY <1>3, <2>1, <2>3, WriterFresh DEF FailedSave, Settles, Counted, TypeOK
  <2> QED BY <1>3, <2>2, <2>3 DEF FailedSave
<1>4. ASSUME NEW h \in Handlers, CallbackSave(h)
      PROVE  \E row \in Row : Settles(row)
  <2> DEFINE row == DecidedRow(handler[h].row, handler[h].request)
  <2>1. handler[h].pc \in Writing /\ handler[h].request \in Requests
    BY <1>4 DEF CallbackSave, Writing, HandlersSound, OpSound
  <2>2. row \in Row /\ SameIdentity(row, handler[h].row) /\ row.status # "pending"
    BY <2>1, WriterFresh, DecidedRowFields
  <2>3. IsPending(row.sessionId) /\ SameIdentity(row, table[row.sessionId])
    BY <2>1, <2>2, WriterFresh DEF SameIdentity
  <2>4. UpdateAsync(row) /\ UNCHANGED wrongCodes
    BY <1>4 DEF CallbackSave
  <2> HIDE DEF row
  <2> QED BY <2>2, <2>3, <2>4 DEF Settles
<1>5. ASSUME NEW s \in Sessions, SweepSave(s)
      PROVE  \E row \in Row : Settles(row)
  <2> DEFINE row == [sweep[s] EXCEPT !.status = "expired"]
  <2>1. /\ sweep[s] \in Row /\ Sound(sweep[s]) /\ sweep[s].sessionId = s
        /\ IsPending(s)
    BY <1>5 DEF SweepSave, SweepSound, Sound, SInv, SweepFresh
  <2>2. row \in Row /\ SameIdentity(row, sweep[s]) /\ row.status = "expired"
    BY <2>1 DEF Row, SameIdentity, Statuses
  <2>3. IsPending(row.sessionId) /\ SameIdentity(row, table[row.sessionId])
    BY <2>1, <2>2 DEF Sound, SameIdentity
  <2>4. UpdateAsync(row) /\ UNCHANGED wrongCodes
    BY <1>5 DEF SweepSave
  <2> HIDE DEF row
  <2> QED BY <2>2, <2>3, <2>4 DEF Settles
<1>6. ASSUME NEW h \in Handlers, Arrive(h)
      PROVE  UNCHANGED <<table, wrongCodes>>
  BY <1>6 DEF Arrive, GenerateCount, InitiateLookup, FailedLookup, CallbackLoad
<1>7. ASSUME NEW h \in Handlers, Proceed(h)
      PROVE  \/ UNCHANGED <<table, wrongCodes>>
             \/ InitiateSave(h) \/ FailedSave(h) \/ CallbackSave(h)
             \/ \E s \in Sessions : GenerateCreate(h, s)
  BY <1>7 DEF Proceed, GenerateDisclose, InitiateRequest, InitiateReply,
              CallbackPush, HandlerFails
<1>8. ASSUME SweepQuery \/ SweepFails \/ Tick \/ UNCHANGED vars
      PROVE  UNCHANGED <<table, wrongCodes>>
  BY <1>8 DEF SweepQuery, SweepFails, Tick, vars
<1>9. ASSUME NEW r \in Requests, CallerPresents(r)
      PROVE  UNCHANGED <<table, wrongCodes>>
  BY <1>9 DEF CallerPresents
<1> QED BY <1>1, <1>2, <1>3, <1>4, <1>5, <1>6, <1>7, <1>8, <1>9 DEF Next, TableStep

\* A settled row stays as it is.
LEMMA SettledStays ==
  ASSUME TypeOK, TableStep, NEW s \in Sessions, table[s] # None, ~IsPending(s)
  PROVE  table'[s] = table[s]
<1>1. ASSUME NEW t \in Sessions, NEW row \in Row, Adds(t, row)
      PROVE  table'[s] = table[s]
  BY <1>1 DEF Adds, TypeOK
<1>2. ASSUME NEW row \in Row, Settles(row)
      PROVE  table'[s] = table[s]
  BY <1>2 DEF Settles, UpdateAsync, TypeOK
<1> QED BY <1>1, <1>2 DEF TableStep

-----------------------------------------------------------------------------
(* Freshness is inductive.                                                 *)

SerialStep == [Next /\ AtMostOneBusy']_vars

\* A serial step is a step, and leaves at most one request or sweep under way.
LEMMA SerialSteps ==
  ASSUME SInv, SerialStep
  PROVE  [Next]_vars /\ AtMostOneBusy'
BY DEF SInv, SerialStep, AtMostOneBusy, vars

\* Every wrong code is still counted by the row it was charged to.
LEMMA CodesStayCounted ==
  ASSUME IInv, SInv, TableStep
  PROVE  CodesCounted'
<1> SUFFICES ASSUME NEW s \in Sessions
             PROVE  /\ table'[s] = None => wrongCodes'[s] = 0
                    /\ table'[s] # None /\ table'[s].status = "pending"
                         => wrongCodes'[s] <= table'[s].failedAttempts
  BY DEF CodesCounted, IsPending
<1>1. /\ table[s] = None => wrongCodes[s] = 0
      /\ table[s] # None /\ table[s].status = "pending"
           => wrongCodes[s] <= table[s].failedAttempts
  BY DEF SInv, CodesCounted, IsPending
<1>2. TypeOK
  BY DEF IInv
<1>3. ASSUME NEW t \in Sessions, NEW row \in Row, Adds(t, row)
      PROVE  /\ table'[s] = None => wrongCodes'[s] = 0
             /\ table'[s] # None /\ table'[s].status = "pending"
                  => wrongCodes'[s] <= table'[s].failedAttempts
  <2>1. row # None /\ row.failedAttempts \in Nat
    BY NoneAssumption DEF Row
  <2> QED BY <1>1, <1>2, <1>3, <2>1 DEF Adds, TypeOK
<1>4. ASSUME NEW row \in Row, Settles(row)
      PROVE  /\ table'[s] = None => wrongCodes'[s] = 0
             /\ table'[s] # None /\ table'[s].status = "pending"
                  => wrongCodes'[s] <= table'[s].failedAttempts
  <2>1. row # None
    BY NoneAssumption
  <2> QED BY <1>1, <1>2, <1>4, <2>1 DEF Settles, UpdateAsync, TypeOK
<1> QED BY <1>1, <1>3, <1>4 DEF TableStep

\* Only the push of a callback tells the group, and its session is settled.
LEMMA ToldOnlyWhenSettled ==
  ASSUME IInv, SInv, [Next]_vars, TableStep
  PROVE  ToldWhenSettled'
<1> USE DEF IInv
<1>1. CASE UNCHANGED pushed
  BY <1>1, SettledStays DEF ToldWhenSettled, SInv, IsPending
<1>2. ASSUME NEW h \in Handlers, CallbackPush(h)
      PROVE  ToldWhenSettled'
  <2>1. handler[h].pc = "push" /\ handler[h].pc \in Holding
    BY <1>2 DEF CallbackPush, Holding, Points
  <2>2. table[handler[h].row.sessionId] # None /\ ~IsPending(handler[h].row.sessionId)
    BY <2>1, HeldRow DEF SInv, HandlersFresh, OpFresh
  <2>3. \A s \in Sessions \ {handler[h].row.sessionId} : pushed'[s] = pushed[s]
    BY <1>2 DEF CallbackPush, TypeOK
  <2> QED BY <1>2, <2>2, <2>3 DEF CallbackPush, SInv, ToldWhenSettled, IsPending
<1>3. (\E h \in Handlers : CallbackPush(h)) \/ UNCHANGED pushed
  BY DEF Next, Arrive, Proceed, GenerateCount, InitiateLookup, FailedLookup, CallbackLoad,
         GenerateCreate, GenerateDisclose, InitiateRequest, InitiateSave, InitiateReply,
         FailedSave, CallbackSave, HandlerFails, SweepQuery, SweepSave, SweepFails,
         CallerPresents, Tick, vars
<1> QED BY <1>1, <1>2, <1>3

\* The table has finitely many rows: each step adds at most one.
LEMMA RowsStayFinite ==
  ASSUME IInv, SInv, TableStep
  PROVE  IsFiniteSet(Rows)'
<1>1. IsFiniteSet(Rows) /\ TypeOK
  BY DEF IInv, SInv
<1>2. ASSUME NEW t \in Sessions, NEW row \in Row, Adds(t, row)
      PROVE  Rows' \subseteq Rows \cup {t}
  BY <1>1, <1>2 DEF Adds, Rows, TypeOK
<1>3. ASSUME NEW row \in Row, Settles(row)
      PROVE  Rows' \subseteq Rows
  BY <1>1, <1>3 DEF Settles, UpdateAsync, Rows, IsPending, TypeOK
<1>4. UNCHANGED table => Rows' \subseteq Rows
  BY DEF Rows
<1>5. ASSUME NEW t \in Sessions
      PROVE  IsFiniteSet(Rows \cup {t})
  BY <1>1, FS_AddElement
<1>6. \E bound : IsFiniteSet(bound) /\ Rows' \subseteq bound
  BY <1>1, <1>2, <1>3, <1>4, <1>5 DEF TableStep
<1> QED BY <1>6, FS_Subset

\* The cap is checked when the count is still true.
LEMMA CapStaysRespected ==
  ASSUME IInv, SInv, TableStep
  PROVE  PendingCapRespected'
<1> SUFFICES ASSUME NEW agent \in Agents
             PROVE  Cardinality(PendingOf(agent)') <= MaxPendingSessionsPerAgent
  BY DEF PendingCapRespected
<1>1. IsFiniteSet(PendingOf(agent)) /\ TypeOK
  BY FS_Subset DEF IInv, SInv, Rows, PendingOf, IsPending
<1>2. Cardinality(PendingOf(agent)) \in Nat
        /\ Cardinality(PendingOf(agent)) <= MaxPendingSessionsPerAgent
  BY <1>1, FS_CardinalityType DEF SInv, PendingCapRespected
<1>3. ASSUME PendingOf(agent)' \subseteq PendingOf(agent)
      PROVE  Cardinality(PendingOf(agent)') <= MaxPendingSessionsPerAgent
  <2>1. Cardinality(PendingOf(agent)') <= Cardinality(PendingOf(agent))
          /\ IsFiniteSet(PendingOf(agent)')
    BY <1>1, <1>3, FS_Subset
  <2>2. Cardinality(PendingOf(agent)') \in Nat
    BY <2>1, FS_CardinalityType
  <2> QED BY <1>2, <2>1, <2>2, ConstantsAssumption
<1>4. ASSUME NEW t \in Sessions, NEW row \in Row, Adds(t, row)
      PROVE  Cardinality(PendingOf(agent)') <= MaxPendingSessionsPerAgent
  <2>1. row # None
    BY NoneAssumption
  <2>2. CASE row.agentEntraId # agent
    BY <1>1, <1>3, <1>4, <2>1, <2>2 DEF Adds, PendingOf, IsPending, TypeOK
  <2>3. CASE row.agentEntraId = agent
    <3>1. PendingOf(agent)' = PendingOf(agent) \cup {t} /\ t \notin PendingOf(agent)
      BY <1>1, <1>4, <2>1, <2>3 DEF Adds, PendingOf, IsPending, TypeOK
    <3>2. Cardinality(PendingOf(agent)') = Cardinality(PendingOf(agent)) + 1
      BY <1>1, <3>1, FS_AddElement
    <3>3. Cardinality(PendingOf(agent)) < MaxPendingSessionsPerAgent
      BY <1>4, <2>3 DEF Adds
    <3> QED BY <1>2, <3>2, <3>3, ConstantsAssumption
  <2> QED BY <2>2, <2>3
<1>5. ASSUME NEW row \in Row, Settles(row)
      PROVE  Cardinality(PendingOf(agent)') <= MaxPendingSessionsPerAgent
  <2>1. PendingOf(agent)' \subseteq PendingOf(agent)
    BY <1>1, <1>5 DEF Settles, UpdateAsync, SameIdentity, PendingOf, IsPending, TypeOK
  <2> QED BY <1>3, <2>1
<1>6. UNCHANGED table => PendingOf(agent)' \subseteq PendingOf(agent)
  BY DEF PendingOf, IsPending
<1> QED BY <1>3, <1>4, <1>5, <1>6 DEF TableStep

\* A handler at any of the remaining points has nothing to keep fresh.
LEMMA RestsFresh ==
  ASSUME NEW h \in Handlers, handler'[h].pc \in {"idle", "disclose", "reply"}
  PROVE  OpFresh(handler[h])'
BY DEF OpFresh, Writing

\* One handler moves while the others are idle.
LEMMA AloneFresh ==
  ASSUME NEW h \in Handlers, OpFresh(handler[h])',
         \A g \in Handlers \ {h} : handler'[g].pc = "idle"
  PROVE  HandlersFresh'
<1> SUFFICES ASSUME NEW g \in Handlers
             PROVE  OpFresh(handler[g])'
  BY DEF HandlersFresh
<1>1. g # h => OpFresh(handler[g])'
  BY RestsFresh
<1> QED BY <1>1

\* A handler that just read a pending row holds a fresh copy of it.
LEMMA ReadsFresh ==
  ASSUME IInv, SInv, UNCHANGED <<table, wrongCodes>>,
         NEW h \in Handlers, NEW s \in Sessions, IsPending(s),
         handler'[h].row.sessionId = s,
         \/ handler'[h].pc = "accept"
         \/ handler'[h].pc = "lockout" /\ handler'[h].row.status # "pending"
         \/ handler'[h].pc = "request"
              /\ handler'[h].row.failedAttempts = table[s].failedAttempts
         \/ handler'[h].pc = "reject"
              /\ handler'[h].row.failedAttempts = table[s].failedAttempts + 1
  PROVE  OpFresh(handler[h])'
<1>1. wrongCodes[s] \in Nat /\ table[s].failedAttempts \in Nat
        /\ wrongCodes[s] <= table[s].failedAttempts
  BY DEF IInv, TypeOK, Row, IsPending, SInv, CodesCounted
<1> QED BY <1>1 DEF OpFresh, Writing, Counted, IsPending

\* A request that arrives reads what is still true.
LEMMA ArriveFresh ==
  ASSUME IInv, SInv, NEW h \in Handlers, Arrive(h)
  PROVE  OpFresh(handler[h])' /\ handler'[h].pc # "idle"
<1> USE DEF IInv
<1>1. ASSUME NEW s \in Sessions, IsPending(s)
      PROVE  table[s] \in Row /\ table[s].sessionId = s
  BY <1>1 DEF IsPending, TypeOK, TableSound
<1>2. ASSUME NEW agent \in Agents, NEW email \in Emails, GenerateCount(h, agent, email)
      PROVE  OpFresh(handler[h])' /\ handler'[h].pc # "idle"
  <2>1. handler'[h].pc = "create" /\ handler'[h].agent = agent
    BY <1>2 DEF GenerateCount, TypeOK, Idle
  <2>2. PendingOf(agent)' = PendingOf(agent)
    BY <1>2 DEF GenerateCount, PendingOf, IsPending
  <2>3. Cardinality(PendingOf(agent)) < MaxPendingSessionsPerAgent
    BY <1>2 DEF GenerateCount
  <2> QED BY <2>1, <2>2, <2>3 DEF OpFresh, Writing
<1>3. ASSUME NEW s \in Sessions, InitiateLookup(h, s)
      PROVE  OpFresh(handler[h])' /\ handler'[h].pc # "idle"
  <2>1. /\ IsPending(s) /\ UNCHANGED <<table, wrongCodes>>
        /\ \/ Continue(h, "lockout", [table[s] EXCEPT !.status = "failed"], None)
           \/ Continue(h, "request", table[s], None)
    BY <1>3 DEF InitiateLookup
  <2>2. \/ handler'[h].pc = "lockout"
             /\ handler'[h].row = [table[s] EXCEPT !.status = "failed"]
        \/ handler'[h].pc = "request" /\ handler'[h].row = table[s]
    BY <2>1, ContinueFields
  <2>3. \/ handler'[h].pc = "lockout"
             /\ handler'[h].row.status = "failed" /\ handler'[h].row.sessionId = s
        \/ /\ handler'[h].pc = "request" /\ handler'[h].row.sessionId = s
           /\ handler'[h].row.failedAttempts = table[s].failedAttempts
    BY <1>1, <2>1, <2>2 DEF Row
  <2> QED BY <2>1, <2>3, ReadsFresh
<1>4. ASSUME NEW email \in Emails, NEW s \in Sessions, FailedLookup(h, email, s)
      PROVE  OpFresh(handler[h])' /\ handler'[h].pc # "idle"
  <2> DEFINE attempts == table[s].failedAttempts + 1
             verdict == IF attempts >= MaxFailedAttempts THEN "failed" ELSE "pending"
             row == [table[s] EXCEPT !.failedAttempts = attempts, !.status = verdict]
  <2>1. /\ IsPending(s) /\ UNCHANGED <<table, wrongCodes>>
        /\ Continue(h, "reject", row, None)
    BY <1>4, MostRecentIsPending DEF FailedLookup
  <2>2. row.sessionId = s /\ row.failedAttempts = table[s].failedAttempts + 1
    BY <1>1, <2>1 DEF Row
  <2> HIDE DEF row
  <2>3. handler'[h].pc = "reject" /\ handler'[h].row = row
    BY <2>1, ContinueFields
  <2> QED BY <2>1, <2>2, <2>3, ReadsFresh
<1>5. ASSUME NEW r \in Requests, CallbackLoad(h, r)
      PROVE  OpFresh(handler[h])' /\ handler'[h].pc # "idle"
  <2> DEFINE s == presentation[r].session
  <2>1. s \in Sessions
    BY <1>5 DEF CallbackLoad, RequestsOwned, Outcomes
  <2>2. IsPending(s) /\ UNCHANGED <<table, wrongCodes>>
          /\ Continue(h, "accept", table[s], r)
    BY <1>5 DEF CallbackLoad, CallbackAccepted, IsPending
  <2> HIDE DEF s
  <2>3. handler'[h].pc = "accept" /\ handler'[h].row.sessionId = s
    BY <1>1, <2>1, <2>2, ContinueFields
  <2> QED BY <2>1, <2>2, <2>3, ReadsFresh
<1> QED BY <1>2, <1>3, <1>4, <1>5 DEF Arrive

\* A request that goes on, alone, still holds what is true.
LEMMA ProceedFresh ==
  ASSUME IInv, SInv, NEW h \in Handlers, Proceed(h)
  PROVE  OpFresh(handler[h])'
<1> USE DEF IInv
<1>1. ASSUME NEW s \in Sessions, GenerateCreate(h, s)
      PROVE  OpFresh(handler[h])'
  <2>1. handler'[h].pc = "disclose"
    BY <1>1, ContinueFields DEF GenerateCreate
  <2> QED BY <2>1, RestsFresh
<1>2. ASSUME NEW r \in Requests, InitiateRequest(h, r)
      PROVE  OpFresh(handler[h])'
  <2> DEFINE row == [handler[h].row EXCEPT !.requestId = r, !.callbackTokenHash = r]
  <2>1. handler[h].pc = "request" /\ handler[h].pc \in Writing
    BY <1>2 DEF InitiateRequest, Writing
  <2>2. /\ handler[h].row \in Row /\ IsPending(handler[h].row.sessionId)
        /\ Counted(handler[h])
    BY <2>1, WriterFresh
  <2>3. /\ row.sessionId = handler[h].row.sessionId
        /\ row.status = handler[h].row.status
        /\ row.failedAttempts = handler[h].row.failedAttempts
    BY <2>2 DEF Row
  <2> HIDE DEF row
  <2>4. handler'[h].pc = "save" /\ handler'[h].row = row /\ UNCHANGED <<table, wrongCodes>>
    BY <1>2, ContinueFields DEF InitiateRequest, row
  <2> QED BY <2>1, <2>2, <2>3, <2>4 DEF OpFresh, Writing, Counted, IsPending
<1>3. CASE InitiateSave(h)
  <2>1. handler'[h].pc = "reply"
    BY <1>3, ContinueFields DEF InitiateSave
  <2> QED BY <2>1, RestsFresh
<1>4. CASE CallbackSave(h)
  <2> DEFINE row == DecidedRow(handler[h].row, handler[h].request)
  <2>1. handler[h].pc \in Writing /\ handler[h].request \in Requests
    BY <1>4 DEF CallbackSave, Writing, HandlersSound, OpSound
  <2>2. row \in Row /\ SameIdentity(row, handler[h].row) /\ row.status # "pending"
    BY <2>1, WriterFresh, DecidedRowFields
  <2>3. row.sessionId \in Sessions /\ IsPending(row.sessionId)
    BY <2>1, <2>2, WriterFresh DEF SameIdentity
  <2>4. UpdateAsync(row) /\ UNCHANGED pushed
    BY <1>4 DEF CallbackSave
  <2> HIDE DEF row
  <2>5. handler'[h].pc = "push" /\ handler'[h].row = row
    BY <1>4, ContinueFields DEF CallbackSave, row
  <2>6. table'[row.sessionId] = row
    BY <2>3, <2>4 DEF UpdateAsync, TypeOK
  <2>7. pushed[row.sessionId] = {}
    BY <2>3 DEF SInv, ToldWhenSettled
  <2> QED BY <2>2, <2>4, <2>5, <2>6, <2>7 DEF OpFresh, Writing, IsPending
<1>5. CASE Return(h)
  BY <1>5, ReturnFields, RestsFresh
<1> QED BY <1>1, <1>2, <1>3, <1>4, <1>5
           DEF Proceed, GenerateDisclose, InitiateReply, FailedSave, CallbackPush,
               HandlerFails

\* A handler about to go on is alone.
LEMMA ProceedsAlone ==
  ASSUME IInv, SInv, NEW h \in Handlers, Proceed(h)
  PROVE  /\ \A g \in Handlers \ {h} : handler'[g].pc = "idle"
         /\ \A s \in Sessions : sweep[s] = None
         /\ UNCHANGED sweep
<1>1. handler[h].pc # "idle" /\ UNCHANGED sweep
  BY DEF Proceed, GenerateCreate, GenerateDisclose, InitiateRequest, InitiateSave,
         InitiateReply, FailedSave, CallbackSave, CallbackPush, HandlerFails
<1>2. \A g \in Handlers \ {h} : handler'[g] = handler[g]
  BY ContinueFields, ReturnFields
     DEF IInv, Proceed, GenerateCreate, GenerateDisclose, InitiateRequest, InitiateSave,
         InitiateReply, FailedSave, CallbackSave, CallbackPush, HandlerFails
<1> QED BY <1>1, <1>2, OthersIdle DEF SInv

\* Every handler keeps a fresh copy.
LEMMA HandlersStayFresh ==
  ASSUME IInv, SInv, [Next]_vars, AtMostOneBusy'
  PROVE  HandlersFresh'
<1>1. ASSUME NEW h \in Handlers, Arrive(h)
      PROVE  HandlersFresh'
  <2>1. OpFresh(handler[h])' /\ handler'[h].pc # "idle"
    BY <1>1, ArriveFresh
  <2>2. \A g \in Handlers \ {h} : handler'[g].pc = "idle"
    BY <2>1 DEF AtMostOneBusy
  <2> QED BY <2>1, <2>2, AloneFresh
<1>2. ASSUME NEW h \in Handlers, Proceed(h)
      PROVE  HandlersFresh'
  BY <1>2, ProceedFresh, ProceedsAlone, AloneFresh
<1>3. ASSUME \A h \in Handlers : handler'[h].pc = "idle"
      PROVE  HandlersFresh'
  BY <1>3, RestsFresh DEF HandlersFresh
<1>4. CASE SweepQuery
  <2>1. PICK s \in Sessions : IsOverdue(s) /\ sweep'[s] = table[s]
    BY <1>4 DEF SweepQuery
  <2>2. sweep'[s] # None
    BY <2>1 DEF IsOverdue, IsPending
  <2> QED BY <1>3, <2>2 DEF AtMostOneBusy
<1>5. ASSUME NEW s \in Sessions, SweepSave(s)
      PROVE  HandlersFresh'
  BY <1>3, <1>5, SweepAlone DEF SweepSave, SInv
<1>6. ASSUME UNCHANGED <<table, handler, wrongCodes, pushed>>
      PROVE  HandlersFresh'
  BY <1>6 DEF SInv, HandlersFresh, OpFresh, Counted, PendingOf, IsPending
<1>7. SweepFails \/ Tick \/ UNCHANGED vars \/ (\E r \in Requests : CallerPresents(r))
        => UNCHANGED <<table, handler, wrongCodes, pushed>>
  BY DEF SweepFails, Tick, CallerPresents, vars
<1> QED BY <1>1, <1>2, <1>4, <1>5, <1>6, <1>7 DEF Next

\* The sweep keeps fresh copies.
LEMMA SweepStaysFresh ==
  ASSUME IInv, SInv, [Next]_vars
  PROVE  SweepFresh'
<1>1. ASSUME UNCHANGED table, \A s \in Sessions : sweep'[s] \in {sweep[s], None}
      PROVE  SweepFresh'
  BY <1>1 DEF SInv, SweepFresh, IsPending
<1>2. ASSUME NEW h \in Handlers, Arrive(h)
      PROVE  SweepFresh'
  BY <1>1, <1>2 DEF Arrive, GenerateCount, InitiateLookup, FailedLookup, CallbackLoad
<1>3. ASSUME NEW h \in Handlers, Proceed(h)
      PROVE  SweepFresh'
  BY <1>3, ProceedsAlone DEF SweepFresh
<1>4. CASE SweepQuery
  BY <1>4 DEF SweepQuery, IsOverdue, SweepFresh, IsPending
<1>5. ASSUME NEW s \in Sessions, SweepSave(s)
      PROVE  SweepFresh'
  <2> DEFINE row == [sweep[s] EXCEPT !.status = "expired"]
  <2>1. TypeOK /\ sweep[s] \in Row /\ sweep[s].sessionId = s
    BY <1>5 DEF SweepSave, IInv, SweepSound, Sound
  <2>2. row.sessionId = s
    BY <2>1 DEF Row
  <2>3. UpdateAsync(row) /\ sweep' = [sweep EXCEPT ![s] = None]
    BY <1>5 DEF SweepSave
  <2> HIDE DEF row
  <2>4. \A t \in Sessions \ {s} : table'[t] = table[t] /\ sweep'[t] = sweep[t]
    BY <2>1, <2>2, <2>3 DEF UpdateAsync, TypeOK
  <2>5. sweep'[s] = None
    BY <2>1, <2>3 DEF TypeOK
  <2> QED BY <2>4, <2>5 DEF SInv, SweepFresh, IsPending
<1>6. CASE SweepFails
  BY <1>1, <1>6 DEF SweepFails
<1>7. ASSUME Tick \/ UNCHANGED vars \/ \E r \in Requests : CallerPresents(r)
      PROVE  SweepFresh'
  BY <1>1, <1>7 DEF Tick, CallerPresents, vars
<1> QED BY <1>2, <1>3, <1>4, <1>5, <1>6, <1>7 DEF Next

-----------------------------------------------------------------------------
(* The theorems.                                                           *)

LEMMA SerialInit == Init => SInv
<1> SUFFICES ASSUME Init  PROVE SInv
  OBVIOUS
<1>1. AtMostOneBusy /\ HandlersFresh /\ SweepFresh /\ CodesCounted /\ ToldWhenSettled
  BY DEF Init, Idle, AtMostOneBusy, HandlersFresh, OpFresh, Writing, SweepFresh,
         CodesCounted, ToldWhenSettled, IsPending
<1>2. Rows = {} /\ \A agent \in Agents : PendingOf(agent) = {}
  BY DEF Init, Rows, PendingOf, IsPending
<1>3. IsFiniteSet(Rows) /\ PendingCapRespected
  BY <1>2, FS_EmptySet, ConstantsAssumption DEF PendingCapRespected
<1> QED BY <1>1, <1>3 DEF SInv

LEMMA SerialStepSound == IInv /\ SInv /\ SerialStep => IInv' /\ SInv'
<1> SUFFICES ASSUME IInv, SInv, SerialStep
             PROVE  IInv' /\ SInv'
  OBVIOUS
<1>1. [Next]_vars /\ AtMostOneBusy'
  BY SerialSteps
<1>2. TableStep
  BY <1>1, SerialTableSteps
<1>3. HandlersFresh' /\ SweepFresh'
  BY <1>1, HandlersStayFresh, SweepStaysFresh
<1>4. CodesCounted' /\ ToldWhenSettled'
  BY <1>1, <1>2, CodesStayCounted, ToldOnlyWhenSettled
<1>5. IsFiniteSet(Rows)' /\ PendingCapRespected'
  BY <1>2, RowsStayFinite, CapStaysRespected
<1> QED BY <1>1, <1>3, <1>4, <1>5, StepSound DEF SInv

\* Without overlap every copy in flight is fresh.
THEOREM SerialInvariance == SerialSpec => [](IInv /\ SInv)
BY InitSound, SerialInit, SerialStepSound, PTL DEF SerialSpec, SerialStep

\* As many rejected codes as the threshold end the session.
THEOREM LockoutIsReached == SerialSpec => []LockoutReached
<1>1. IInv /\ SInv => LockoutReached
  <2> SUFFICES ASSUME IInv, SInv, NEW s \in Rows,
                      wrongCodes[s] >= MaxFailedAttempts, table[s].status = "pending"
               PROVE  FALSE
    BY DEF LockoutReached
  <2>1. /\ s \in Sessions /\ table[s] # None
        /\ wrongCodes[s] \in Nat /\ table[s].failedAttempts \in Nat
    BY DEF Rows, IInv, TypeOK, Row
  <2>2. wrongCodes[s] <= table[s].failedAttempts
    BY <2>1 DEF SInv, CodesCounted, IsPending
  <2>3. table[s].failedAttempts < MaxFailedAttempts
    BY <2>1 DEF IInv, TableSound, Sound
  <2> QED BY <2>1, <2>2, <2>3, ConstantsAssumption
<1> QED BY <1>1, SerialInvariance, PTL

\* No agent has more pending sessions than the cap.
THEOREM PendingCapIsRespected == SerialSpec => []PendingCapRespected
<1>1. SInv => PendingCapRespected
  BY DEF SInv
<1> QED BY <1>1, SerialInvariance, PTL

\* A session's group is sent one event at most.
THEOREM PushedOnce == SerialSpec => PushedAtMostOnce
<1>1. IInv /\ SInv /\ SerialStep =>
        [\A h \in Handlers : CallbackPush(h) => pushed[handler[h].row.sessionId] = {}]_vars
  BY DEF SInv, HandlersFresh, OpFresh, CallbackPush
<1> QED BY <1>1, SerialInvariance, PTL DEF SerialSpec, SerialStep, PushedAtMostOnce

\* A session that has been verified stays verified; overlap alone undoes it.
THEOREM VerificationIsFinal == SerialSpec => VerifiedIsFinal
<1>1. IInv /\ SInv /\ SerialStep =>
        [\A s \in Rows : table[s].status = "verified" => table'[s].status = "verified"]_vars
  <2> SUFFICES ASSUME IInv, SInv, SerialStep, NEW s \in Rows, table[s].status = "verified"
               PROVE  table'[s].status = "verified"
    OBVIOUS
  <2>1. s \in Sessions /\ table[s] # None /\ ~IsPending(s)
    BY DEF Rows, IsPending
  <2>2. TypeOK /\ TableStep
    BY SerialSteps, SerialTableSteps DEF IInv
  <2> QED BY <2>1, <2>2, SettledStays
<1> QED BY <1>1, SerialInvariance, PTL DEF SerialSpec, SerialStep, VerifiedIsFinal

\* A copy written over a pending row leaves it pending, or decides it.
LEMMA SettlingDecides ==
  ASSUME IInv, IInv', NEW row \in Row, Settles(row)
  PROVE  \/ \A s \in Sessions :
               /\ table'[s] = None <=> table[s] = None
               /\ table[s] # None => table'[s].status = table[s].status
         \/ row.status # "pending" /\ Lifecycle!Decide(row.sessionId, row.status)
<1>1. row.sessionId \in Sessions /\ TypeOK /\ row # None
  BY NoneAssumption DEF Row, IInv
<1>2. IsPending(row.sessionId) /\ table' = [table EXCEPT ![row.sessionId] = row]
  BY DEF Settles, UpdateAsync
<1>3. CASE row.status = "pending"
  BY <1>1, <1>2, <1>3 DEF IsPending, TypeOK
<1>4. CASE row.status # "pending"
  <2>1. Lifecycle!Overwrite(row.sessionId, row.status)
    BY <1>2, WritesAreJustified DEF IsPending, Settles
  <2> QED BY <1>1, <1>2, <1>4, <2>1
             DEF Lifecycle!Overwrite, Lifecycle!Decide, IsPending
<1> QED BY <1>3, <1>4

\* Without overlap the table implements the life cycle as documented: created
\* pending, decided once, on evidence, and final from then on.
THEOREM TableImplementsLifecycle == SerialSpec => ImplementsLifecycle
<1>1. Init => Lifecycle!Init
  BY ConstantsAssumption DEF Init, Lifecycle!Init
<1>2. IInv /\ SInv /\ IInv' /\ SerialStep => [Lifecycle!Next]_(Lifecycle!vars)
  <2> SUFFICES ASSUME IInv, SInv, IInv', SerialStep
               PROVE  Lifecycle!Next
    OBVIOUS
  <2>1. [Next]_vars /\ TableStep /\ TypeOK /\ TypeOK'
    BY SerialSteps, SerialTableSteps DEF IInv
  <2>2. Lifecycle!EvidenceGrows
    BY <2>1, StepEvolves, EvidenceIsKept
  <2>3. ASSUME \A s \in Sessions :
                 /\ table'[s] = None <=> table[s] = None
                 /\ table[s] # None => table'[s].status = table[s].status
        PROVE  Lifecycle!Next
    BY <2>2, <2>3 DEF Lifecycle!Next
  <2>4. ASSUME NEW s \in Sessions, NEW row \in Row, Adds(s, row)
        PROVE  Lifecycle!Next
    <3>1. Lifecycle!Create(s)
      BY <2>1, <2>4, NewRowsArePending DEF Adds
    <3> QED BY <2>2, <3>1 DEF Lifecycle!Next
  <2>5. ASSUME NEW row \in Row, Settles(row), row.status # "pending",
               Lifecycle!Decide(row.sessionId, row.status)
        PROVE  Lifecycle!Next
    <3>1. row.sessionId \in Sessions /\ row.status \in Lifecycle!Final
      BY <2>5 DEF Row, Statuses, Lifecycle!Final
    <3> QED BY <2>2, <2>5, <3>1 DEF Lifecycle!Next
  <2>6. ASSUME NEW row \in Row, Settles(row)
        PROVE  Lifecycle!Next
    BY <2>3, <2>5, <2>6, SettlingDecides
  <2>7. UNCHANGED table => Lifecycle!Next
    BY <2>3
  <2> QED BY <2>1, <2>4, <2>6, <2>7 DEF TableStep
<1> QED BY <1>1, <1>2, SerialInvariance, PTL
           DEF SerialSpec, SerialStep, ImplementsLifecycle, Lifecycle!Spec

=============================================================================
