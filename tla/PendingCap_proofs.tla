-------------------------- MODULE PendingCap_proofs --------------------------
(***************************************************************************)
(* How far the cap on an agent's pending sessions can be missed when       *)
(* requests overlap, for every value of the constants: by one session for  *)
(* each request the API processes beside another.                          *)
(*                                                                         *)
(* Two things let an agent go beyond the cap.  A generate creates a row    *)
(* although others have done so since it counted, and a handler writes a   *)
(* pending copy over a row that was settled, and whose place another       *)
(* generate may have taken.  The bound holds of the pending rows and of    *)
(* what handlers have under way of both kinds, counted together.           *)
(***************************************************************************)
EXTENDS VerificationApi_proofs, FiniteSetTheorems

\* Handlers that counted and are about to create a row of the agent's.
Creating(agent) ==
  {h \in Handlers : handler[h].pc = "create" /\ handler[h].agent = agent}

\* Handlers that may write a pending row of the agent's over what is there.
Carrying(agent) ==
  {h \in Handlers : /\ handler[h].pc \in {"request", "save", "reject", "lockout"}
                    /\ handler[h].row.status = "pending"
                    /\ handler[h].row.agentEntraId = agent}

\* The sessions of the agent that are pending, or may be made so again.
Open(agent) == PendingOf(agent) \cup {handler[h].row.sessionId : h \in Carrying(agent)}

OpenBound ==
  \A agent \in Agents :
    Cardinality(Open(agent)) + Cardinality(Creating(agent))
      < MaxPendingSessionsPerAgent + Cardinality(Handlers)

\* An agent never has as many sessions pending as the cap and the requests that the
\* API may process at once together: each request under way beside another costs
\* one at most (VerificationController 58-84, 153-163).
PendingCapMissedByOverlap ==
  \A agent \in Agents :
    Cardinality(PendingOf(agent)) < MaxPendingSessionsPerAgent + Cardinality(Handlers)

BInv == IsFiniteSet(Rows) /\ OpenBound

-----------------------------------------------------------------------------
(* Counting.                                                               *)

\* What is open has a row, whether pending or only carried.
LEMMA OpenHasRow ==
  ASSUME TypeOK, HandlersSound, NEW agent \in Agents
  PROVE  PendingOf(agent) \subseteq Open(agent) /\ Open(agent) \subseteq Rows
<1>1. ASSUME NEW h \in Carrying(agent)
      PROVE  handler[h].row.sessionId \in Rows
  <2>1. h \in Handlers /\ handler[h].pc \in Holding
    BY DEF Carrying, Holding, Points
  <2> QED BY <2>1, HeldRow DEF Rows
<1>2. PendingOf(agent) \subseteq Rows
  BY DEF PendingOf, IsPending, Rows
<1> QED BY <1>1, <1>2 DEF Open

\* All these sets are finite.
LEMMA Counts ==
  ASSUME TypeOK, HandlersSound, IsFiniteSet(Rows), IsFiniteSet(Handlers), NEW agent \in Agents
  PROVE  /\ IsFiniteSet(Open(agent)) /\ Cardinality(Open(agent)) \in Nat
         /\ IsFiniteSet(PendingOf(agent)) /\ Cardinality(PendingOf(agent)) \in Nat
         /\ Cardinality(PendingOf(agent)) <= Cardinality(Open(agent))
         /\ IsFiniteSet(Creating(agent)) /\ Cardinality(Creating(agent)) \in Nat
         /\ IsFiniteSet(Carrying(agent)) /\ Cardinality(Carrying(agent)) \in Nat
         /\ Cardinality(Handlers) \in Nat
<1>1. IsFiniteSet(Open(agent))
  BY OpenHasRow, FS_Subset
<1>2. IsFiniteSet(PendingOf(agent)) /\ Cardinality(PendingOf(agent)) <= Cardinality(Open(agent))
  BY <1>1, OpenHasRow, FS_Subset
<1>3. IsFiniteSet(Creating(agent)) /\ IsFiniteSet(Carrying(agent))
  BY FS_Subset DEF Creating, Carrying
<1> QED BY <1>1, <1>2, <1>3, FS_CardinalityType

\* A handler carries one session.
LEMMA CarriedFew ==
  ASSUME TypeOK, HandlersSound, IsFiniteSet(Rows), IsFiniteSet(Handlers), NEW agent \in Agents
  PROVE  Cardinality(Open(agent)) <= Cardinality(PendingOf(agent)) + Cardinality(Carrying(agent))
<1> DEFINE carried == {handler[h].row.sessionId : h \in Carrying(agent)}
           f == [h \in Carrying(agent) |-> handler[h].row.sessionId]
<1>1. f \in Surjection(Carrying(agent), carried)
  BY DEF Surjection
<1> HIDE DEF f
<1>2. IsFiniteSet(carried) /\ Cardinality(carried) <= Cardinality(Carrying(agent))
  BY <1>1, Counts, FS_Surjection
<1>3. Open(agent) = PendingOf(agent) \cup carried
  BY DEF Open
<1> HIDE DEF carried
<1>4. Cardinality(Open(agent)) = Cardinality(PendingOf(agent)) + Cardinality(carried)
                                   - Cardinality(PendingOf(agent) \cap carried)
  BY <1>2, <1>3, Counts, FS_Union
<1>5. Cardinality(carried) \in Nat /\ Cardinality(PendingOf(agent) \cap carried) \in Nat
  BY <1>2, Counts, FS_Intersection, FS_CardinalityType
<1> QED BY <1>2, <1>4, <1>5, Counts

\* No handler is creating and carrying, and one that is idle is neither.
LEMMA HandlersCounted ==
  ASSUME TypeOK, HandlersSound, IsFiniteSet(Rows), IsFiniteSet(Handlers), NEW agent \in Agents,
         NEW h \in Handlers, handler[h].pc = "idle"
  PROVE  Cardinality(Carrying(agent)) + Cardinality(Creating(agent)) < Cardinality(Handlers)
<1>1. /\ Carrying(agent) \cap Creating(agent) = {}
      /\ Carrying(agent) \cup Creating(agent) \subseteq Handlers \ {h}
  BY DEF Carrying, Creating
<1>2. IsFiniteSet(Handlers \ {h}) /\ Cardinality(Handlers \ {h}) = Cardinality(Handlers) - 1
  BY FS_RemoveElement
<1>3. Cardinality(Carrying(agent) \cup Creating(agent)) <= Cardinality(Handlers) - 1
  BY <1>1, <1>2, FS_Subset
<1>4. Cardinality(Carrying(agent) \cup Creating(agent))
        = Cardinality(Carrying(agent)) + Cardinality(Creating(agent))
  <2>1. Cardinality(Carrying(agent) \cup Creating(agent))
          = Cardinality(Carrying(agent)) + Cardinality(Creating(agent))
              - Cardinality(Carrying(agent) \cap Creating(agent))
    BY Counts, FS_Union
  <2>2. Cardinality(Carrying(agent) \cap Creating(agent)) = 0
    BY <1>1, FS_EmptySet
  <2> QED BY <2>1, <2>2, Counts
<1> QED BY <1>3, <1>4, Counts

-----------------------------------------------------------------------------
(* What a step does to the sets that are counted.                          *)

\* Nothing is opened, no generate has come to create.
Closing(agent) ==
  /\ Open(agent)' \subseteq Open(agent)
  /\ Creating(agent)' \subseteq Creating(agent)

\* A generate creates a row: one more is open, one handler less will create.
Creates(agent, h, s) ==
  /\ h \in Creating(agent)
  /\ Creating(agent)' = Creating(agent) \ {h}
  /\ Open(agent)' \subseteq Open(agent) \cup {s}

\* A generate has counted, and the cap leaves room.
CountsPending(agent, h) ==
  /\ handler[h].pc = "idle"
  /\ Cardinality(PendingOf(agent)) < MaxPendingSessionsPerAgent
  /\ Creating(agent)' \subseteq Creating(agent) \cup {h}
  /\ Open(agent)' = Open(agent)

\* A handler that comes to carry a row carries one that is open, of the same agent.
LEMMA HandlerCloses ==
  ASSUME TypeOK, UNCHANGED table, NEW h \in Handlers, NEW agent \in Agents,
         \A g \in Handlers \ {h} : handler'[g] = handler[g],
         handler'[h].pc # "create",
         h \in Carrying(agent)' => handler'[h].row.sessionId \in Open(agent)
  PROVE  Closing(agent)
<1>1. PendingOf(agent)' = PendingOf(agent)
  BY DEF PendingOf, IsPending
<1>2. Creating(agent)' \subseteq Creating(agent)
  BY DEF Creating
<1>3. ASSUME NEW g \in Carrying(agent)'
      PROVE  handler'[g].row.sessionId \in Open(agent)
  <2>1. CASE g = h
    BY <1>3, <2>1
  <2>2. CASE g # h
    <3>1. g \in Carrying(agent) /\ handler'[g] = handler[g]
      BY <1>3, <2>2 DEF Carrying
    <3> QED BY <3>1 DEF Open
  <2> QED BY <2>1, <2>2
<1>4. Open(agent)' \subseteq Open(agent)
  BY <1>1, <1>3 DEF Open
<1> QED BY <1>2, <1>4 DEF Closing

\* A handler that writes its copy closes, or the copy was carried.
LEMMA WriteCloses ==
  ASSUME TypeOK, NEW row \in Row, UpdateAsync(row), NEW agent \in Agents,
         row.status = "pending" /\ row.agentEntraId = agent => row.sessionId \in Open(agent),
         Carrying(agent)' \subseteq Carrying(agent),
         \A g \in Carrying(agent)' : handler'[g] = handler[g],
         Creating(agent)' \subseteq Creating(agent)
  PROVE  Closing(agent)
<1>1. row # None
  BY NoneAssumption
<1>2. PendingOf(agent)' \subseteq Open(agent)
  BY <1>1 DEF UpdateAsync, PendingOf, IsPending, Open, TypeOK
<1>3. Open(agent)' \subseteq Open(agent)
  BY <1>2 DEF Open
<1> QED BY <1>3 DEF Closing

\* The handlers' own steps, each for every agent.
LEMMA ArriveOpens ==
  ASSUME IInv, NEW h \in Handlers, Arrive(h), NEW agent \in Agents
  PROVE  Closing(agent) \/ CountsPending(agent, h)
<1> USE DEF IInv
<1>0. TypeOK /\ UNCHANGED table /\ handler[h].pc = "idle"
  BY DEF Arrive, GenerateCount, InitiateLookup, FailedLookup, CallbackLoad
<1>1. ASSUME NEW pc, NEW row \in Row, NEW request, Continue(h, pc, row, request), pc # "create",
             row.status = "pending" /\ row.agentEntraId = agent
               /\ pc \in {"request", "save", "reject", "lockout"}
                 => row.sessionId \in Open(agent)
      PROVE  Closing(agent)
  <2>1. /\ handler'[h].pc = pc /\ handler'[h].row = row
        /\ \A g \in Handlers \ {h} : handler'[g] = handler[g]
    BY <1>0, <1>1, ContinueFields
  <2> QED BY <1>0, <1>1, <2>1, HandlerCloses DEF Carrying
<1>2. ASSUME NEW other \in Agents, NEW email \in Emails, GenerateCount(h, other, email)
      PROVE  Closing(agent) \/ CountsPending(agent, h)
  <2>1. handler' = [handler EXCEPT ![h] = [Idle EXCEPT !.pc = "create", !.agent = other,
                                                       !.email = email]]
    BY <1>2 DEF GenerateCount
  <2>2. /\ handler'[h].pc = "create" /\ handler'[h].agent = other
        /\ \A g \in Handlers \ {h} : handler'[g] = handler[g]
    BY <1>0, <2>1 DEF TypeOK, Idle
  <2>3. PendingOf(agent)' = PendingOf(agent)
    BY <1>0 DEF PendingOf, IsPending
  <2>4. Carrying(agent)' = Carrying(agent) /\ \A g \in Carrying(agent) : handler'[g] = handler[g]
    BY <1>0, <2>2 DEF Carrying
  <2>5. Open(agent)' = Open(agent)
    BY <2>3, <2>4 DEF Open
  <2>6. CASE other = agent
    <3>1. Creating(agent)' \subseteq Creating(agent) \cup {h}
      BY <2>2 DEF Creating
    <3> QED BY <1>2, <2>5, <2>6, <3>1 DEF CountsPending, GenerateCount
  <2>7. CASE other # agent
    <3>1. Creating(agent)' \subseteq Creating(agent)
      BY <2>2, <2>7 DEF Creating
    <3> QED BY <2>5, <3>1 DEF Closing
  <2> QED BY <2>6, <2>7
<1>3. ASSUME NEW s \in Sessions, IsPending(s), NEW row \in Row, SameIdentity(row, table[s])
      PROVE  row.agentEntraId = agent => row.sessionId \in Open(agent)
  <2>1. table[s].sessionId = s
    BY <1>3 DEF IsPending, TableSound
  <2> QED BY <1>3, <2>1 DEF SameIdentity, Open, PendingOf
<1>4. ASSUME NEW s \in Sessions, InitiateLookup(h, s)
      PROVE  Closing(agent)
  <2>1. IsPending(s) /\ table[s] \in Row
    BY <1>4 DEF InitiateLookup, IsPending, TypeOK
  <2>2. PICK pc, row : /\ Continue(h, pc, row, None)
                       /\ pc # "create"
                       /\ row \in {table[s], [table[s] EXCEPT !.status = "failed"]}
    BY <1>4 DEF InitiateLookup
  <2>3. CASE row = table[s]
    <3>1. SameIdentity(row, table[s])
      BY <2>3 DEF SameIdentity
    <3> QED BY <1>1, <1>3, <2>1, <2>2, <2>3, <3>1
  <2>4. CASE row = [table[s] EXCEPT !.status = "failed"]
    <3>1. row \in Row /\ SameIdentity(row, table[s])
      BY <2>1, <2>4 DEF Row, Statuses, SameIdentity
    <3> QED BY <1>1, <1>3, <2>1, <2>2, <3>1
  <2> QED BY <2>2, <2>3, <2>4
<1>5. ASSUME NEW email \in Emails, NEW s \in Sessions, FailedLookup(h, email, s)
      PROVE  Closing(agent)
  <2>1. IsPending(s) /\ table[s] \in Row
    BY <1>5, MostRecentIsPending DEF FailedLookup, IsPending, TypeOK
  <2>2. PICK verdict \in {"failed", "pending"} :
           Continue(h, "reject", [table[s] EXCEPT !.failedAttempts = table[s].failedAttempts + 1,
                                                  !.status = verdict], None)
    BY <1>5 DEF FailedLookup
  <2> DEFINE row == [table[s] EXCEPT !.failedAttempts = table[s].failedAttempts + 1,
                                     !.status = verdict]
  <2>3. row \in Row /\ SameIdentity(row, table[s])
    <3>1. table[s].failedAttempts + 1 \in Nat /\ verdict \in Statuses
      BY <2>1 DEF Row, Statuses
    <3>2. row \in Row
      BY <2>1, <3>1 DEF Row
    <3>3. SameIdentity(row, table[s])
      BY <2>1 DEF Row, SameIdentity
    <3> QED BY <3>2, <3>3
  <2>4. Continue(h, "reject", row, None)
    BY <2>2
  <2> HIDE DEF row
  <2> QED BY <1>1, <1>3, <2>1, <2>3, <2>4
<1>6. ASSUME NEW r \in Requests, CallbackLoad(h, r)
      PROVE  Closing(agent)
  <2>1. PICK row : Continue(h, "accept", row, r)
    BY <1>6 DEF CallbackLoad
  <2>2. /\ handler'[h].pc = "accept"
        /\ \A g \in Handlers \ {h} : handler'[g] = handler[g]
    BY <1>0, <2>1, ContinueFields
  <2> QED BY <1>0, <2>2, HandlerCloses DEF Carrying
<1> QED BY <1>2, <1>4, <1>5, <1>6 DEF Arrive

LEMMA ProceedOpens ==
  ASSUME IInv, NEW h \in Handlers, Proceed(h), NEW agent \in Agents
  PROVE  Closing(agent) \/ \E s \in Sessions : Creates(agent, h, s)
<1> USE DEF IInv
<1>0. TypeOK /\ HandlersSound
  OBVIOUS
<1>1. ASSUME NEW s \in Sessions, GenerateCreate(h, s)
      PROVE  Closing(agent) \/ Creates(agent, h, s)
  <2> DEFINE row == NewRow(s, handler[h].agent, handler[h].email)
  <2>1. /\ table' = [table EXCEPT ![s] = row] /\ table[s] = None
        /\ row.agentEntraId = handler[h].agent
        /\ handler[h].pc = "create"
        /\ Continue(h, "disclose", row, None)
    BY <1>1 DEF GenerateCreate, NewRow
  <2>2. /\ handler'[h].pc = "disclose"
        /\ \A g \in Handlers \ {h} : handler'[g] = handler[g]
    BY <1>0, <2>1, ContinueFields
  <2> HIDE DEF row
  <2>3. Carrying(agent)' = Carrying(agent) /\ \A g \in Carrying(agent) : handler'[g] = handler[g]
    BY <2>1, <2>2 DEF Carrying
  <2>4. Creating(agent)' = Creating(agent) \ {h}
    BY <2>2 DEF Creating
  <2>5. CASE handler[h].agent = agent
    <3>1. PendingOf(agent)' \subseteq PendingOf(agent) \cup {s}
      BY <1>0, <2>1 DEF PendingOf, IsPending, TypeOK
    <3>2. Open(agent)' \subseteq Open(agent) \cup {s}
      BY <2>3, <3>1 DEF Open
    <3>3. h \in Creating(agent)
      BY <2>1, <2>5 DEF Creating
    <3> QED BY <2>4, <3>2, <3>3 DEF Creates
  <2>6. CASE handler[h].agent # agent
    <3>1. PendingOf(agent)' \subseteq PendingOf(agent)
      BY <1>0, <2>1, <2>6 DEF PendingOf, IsPending, TypeOK
    <3>2. Open(agent)' \subseteq Open(agent)
      BY <2>3, <3>1 DEF Open
    <3> QED BY <2>4, <3>2 DEF Closing
  <2> QED BY <2>5, <2>6
<1>2. ASSUME Return(h), UNCHANGED table
      PROVE  Closing(agent)
  <2>1. /\ handler'[h].pc = "idle"
        /\ \A g \in Handlers \ {h} : handler'[g] = handler[g]
    BY <1>0, <1>2, ReturnFields
  <2> QED BY <1>0, <1>2, <2>1, HandlerCloses DEF Carrying
<1>3. ASSUME NEW r \in Requests, InitiateRequest(h, r)
      PROVE  Closing(agent)
  <2> DEFINE row == [handler[h].row EXCEPT !.requestId = r, !.callbackTokenHash = r]
  <2>1. handler[h].pc = "request" /\ Continue(h, "save", row, r) /\ UNCHANGED table
    BY <1>3 DEF InitiateRequest
  <2>2. handler[h].row \in Row
    BY <1>0, <2>1, HeldRow DEF Holding, Points
  <2>3. /\ row.status = handler[h].row.status
        /\ row.agentEntraId = handler[h].row.agentEntraId
        /\ row.sessionId = handler[h].row.sessionId
    BY <2>2 DEF Row
  <2> HIDE DEF row
  <2>4. /\ handler'[h].pc = "save" /\ handler'[h].row = row
        /\ \A g \in Handlers \ {h} : handler'[g] = handler[g]
    BY <1>0, <2>1, ContinueFields
  <2>5. h \in Carrying(agent)' => handler'[h].row.sessionId \in Open(agent)
    BY <2>1, <2>3, <2>4 DEF Carrying, Open
  <2> QED BY <1>0, <2>1, <2>4, <2>5, HandlerCloses
<1>4. ASSUME NEW row \in Row, UpdateAsync(row),
             row.status = "pending" /\ row.agentEntraId = agent => row.sessionId \in Open(agent),
             handler'[h].pc \in {"idle", "reply", "push"},
             \A g \in Handlers \ {h} : handler'[g] = handler[g]
      PROVE  Closing(agent)
  <2>1. /\ Carrying(agent)' \subseteq Carrying(agent)
        /\ \A g \in Carrying(agent)' : handler'[g] = handler[g]
        /\ Creating(agent)' \subseteq Creating(agent)
    BY <1>4 DEF Carrying, Creating
  <2> QED BY <1>0, <1>4, <2>1, WriteCloses
<1>5. ASSUME InitiateSave(h) \/ FailedSave(h)
      PROVE  Closing(agent)
  <2>1. /\ handler[h].pc \in {"save", "reject", "lockout"}
        /\ UpdateAsync(handler[h].row)
        /\ Return(h) \/ Continue(h, "reply", handler[h].row, handler[h].request)
    BY <1>5 DEF InitiateSave, FailedSave
  <2>2. handler[h].row \in Row
    BY <1>0, <2>1, HeldRow DEF Holding, Points
  <2>3. handler[h].row.status = "pending" /\ handler[h].row.agentEntraId = agent
          => handler[h].row.sessionId \in Open(agent)
    BY <2>1 DEF Carrying, Open
  <2>4. /\ handler'[h].pc \in {"idle", "reply"}
        /\ \A g \in Handlers \ {h} : handler'[g] = handler[g]
    BY <1>0, <2>1, ContinueFields, ReturnFields
  <2> QED BY <1>4, <2>1, <2>2, <2>3, <2>4
<1>6. ASSUME CallbackSave(h)
      PROVE  Closing(agent)
  <2> DEFINE row == DecidedRow(handler[h].row, handler[h].request)
  <2>1. handler[h].pc \in Holding /\ handler[h].request \in Requests
    BY <1>0, <1>6 DEF CallbackSave, Holding, Points, HandlersSound, OpSound
  <2>2. row \in Row /\ row.status # "pending"
    BY <1>0, <2>1, HeldRow, DecidedRowFields
  <2>3. UpdateAsync(row) /\ Continue(h, "push", row, handler[h].request)
    BY <1>6 DEF CallbackSave
  <2> HIDE DEF row
  <2>4. /\ handler'[h].pc = "push"
        /\ \A g \in Handlers \ {h} : handler'[g] = handler[g]
    BY <1>0, <2>3, ContinueFields
  <2> QED BY <1>4, <2>2, <2>3, <2>4
<1>7. GenerateDisclose(h) \/ InitiateReply(h) \/ CallbackPush(h) \/ HandlerFails(h)
        => Return(h) /\ UNCHANGED table
  BY DEF GenerateDisclose, InitiateReply, CallbackPush, HandlerFails
<1> QED BY <1>1, <1>2, <1>3, <1>5, <1>6, <1>7 DEF Proceed

\* Every step closes, creates or counts.
LEMMA StepOpens ==
  ASSUME IInv, [Next]_vars, NEW agent \in Agents
  PROVE  \/ Closing(agent)
         \/ \E h \in Handlers, s \in Sessions : Creates(agent, h, s)
         \/ \E h \in Handlers : CountsPending(agent, h)
<1>1. ASSUME UNCHANGED <<table, handler>>
      PROVE  Closing(agent)
  BY <1>1 DEF Closing, Open, PendingOf, IsPending, Carrying, Creating
<1>2. ASSUME NEW s \in Sessions, SweepSave(s)
      PROVE  Closing(agent)
  <2> DEFINE row == [sweep[s] EXCEPT !.status = "expired"]
  <2>1. sweep[s] \in Row
    BY <1>2 DEF SweepSave, IInv, TypeOK
  <2>2. row \in Row /\ row.status # "pending"
    BY <2>1 DEF Row, Statuses
  <2>3. UpdateAsync(row) /\ UNCHANGED handler
    BY <1>2 DEF SweepSave
  <2> HIDE DEF row
  <2>4. /\ Carrying(agent)' = Carrying(agent)
        /\ \A g \in Carrying(agent)' : handler'[g] = handler[g]
        /\ Creating(agent)' = Creating(agent)
    BY <2>3 DEF Carrying, Creating
  <2> QED BY <2>2, <2>3, <2>4, WriteCloses DEF IInv
<1>3. SweepQuery \/ SweepFails \/ Tick \/ UNCHANGED vars => UNCHANGED <<table, handler>>
  BY DEF SweepQuery, SweepFails, Tick, vars
<1>4. \A r \in Requests : CallerPresents(r) => UNCHANGED <<table, handler>>
  BY DEF CallerPresents
<1>5. ASSUME NEW h \in Handlers, Arrive(h)
      PROVE  Closing(agent) \/ CountsPending(agent, h)
  BY <1>5, ArriveOpens
<1>6. ASSUME NEW h \in Handlers, Proceed(h)
      PROVE  Closing(agent) \/ \E s \in Sessions : Creates(agent, h, s)
  BY <1>6, ProceedOpens
<1> QED BY <1>1, <1>2, <1>3, <1>4, <1>5, <1>6 DEF Next

-----------------------------------------------------------------------------
(* The bound.                                                              *)

\* A step adds at most one row.
LEMMA RowsStayFinite ==
  ASSUME IInv, IsFiniteSet(Rows), [Next]_vars
  PROVE  IsFiniteSet(Rows)'
<1>1. TypeOK
  BY DEF IInv
<1>2. ASSUME NEW s \in Sessions, NEW row \in Row, table' = [table EXCEPT ![s] = row]
      PROVE  Rows' \subseteq Rows \cup {s}
  BY <1>1, <1>2 DEF Rows, TypeOK
<1>3. ASSUME NEW row \in Row, table[row.sessionId] # None, UpdateAsync(row)
      PROVE  Rows' \subseteq Rows
  BY <1>1, <1>3 DEF UpdateAsync, Rows, Row, TypeOK
<1>4. UNCHANGED table => Rows' \subseteq Rows
  BY DEF Rows
<1>5. ASSUME NEW s \in Sessions
      PROVE  IsFiniteSet(Rows \cup {s})
  BY FS_AddElement
<1>6. \E bound : IsFiniteSet(bound) /\ Rows' \subseteq bound
  BY <1>2, <1>3, <1>4, <1>5, TableSteps
<1> QED BY <1>6, FS_Subset

\* The bound survives each of the three.
LEMMA BoundKept ==
  ASSUME IsFiniteSet(Handlers), IInv, IInv', BInv, [Next]_vars
  PROVE  BInv'
<1>1. IsFiniteSet(Rows)'
  BY RowsStayFinite DEF BInv
<1> SUFFICES ASSUME NEW agent \in Agents
             PROVE  Cardinality(Open(agent)') + Cardinality(Creating(agent)')
                      < MaxPendingSessionsPerAgent + Cardinality(Handlers)
  BY <1>1 DEF BInv, OpenBound
<1>2. /\ TypeOK /\ HandlersSound /\ IsFiniteSet(Rows)
      /\ Cardinality(Open(agent)) + Cardinality(Creating(agent))
           < MaxPendingSessionsPerAgent + Cardinality(Handlers)
      /\ MaxPendingSessionsPerAgent \in Nat
  BY ConstantsAssumption DEF IInv, BInv, OpenBound
<1>3. /\ IsFiniteSet(Open(agent)) /\ Cardinality(Open(agent)) \in Nat
      /\ Cardinality(PendingOf(agent)) \in Nat
      /\ IsFiniteSet(Creating(agent)) /\ Cardinality(Creating(agent)) \in Nat
      /\ Cardinality(Carrying(agent)) \in Nat
      /\ Cardinality(Handlers) \in Nat
  BY <1>2, Counts
<1>4. CASE Closing(agent)
  <2>1. /\ IsFiniteSet(Open(agent)') /\ Cardinality(Open(agent)') <= Cardinality(Open(agent))
        /\ IsFiniteSet(Creating(agent)')
        /\ Cardinality(Creating(agent)') <= Cardinality(Creating(agent))
    BY <1>3, <1>4, FS_Subset DEF Closing
  <2>2. Cardinality(Open(agent)') \in Nat /\ Cardinality(Creating(agent)') \in Nat
    BY <2>1, FS_CardinalityType
  <2> QED BY <1>2, <1>3, <2>1, <2>2
<1>5. ASSUME NEW h \in Handlers, NEW s \in Sessions, Creates(agent, h, s)
      PROVE  Cardinality(Open(agent)') + Cardinality(Creating(agent)')
               < MaxPendingSessionsPerAgent + Cardinality(Handlers)
  <2>1. Cardinality(Creating(agent)') = Cardinality(Creating(agent)) - 1
    BY <1>3, <1>5, FS_RemoveElement DEF Creates
  <2>2. IsFiniteSet(Open(agent) \cup {s})
          /\ Cardinality(Open(agent) \cup {s}) <= Cardinality(Open(agent)) + 1
          /\ Cardinality(Open(agent) \cup {s}) \in Nat
    <3>1. /\ IsFiniteSet(Open(agent) \cup {s})
          /\ Cardinality(Open(agent) \cup {s}) = IF s \in Open(agent) THEN Cardinality(Open(agent))
                                                  ELSE Cardinality(Open(agent)) + 1
      BY <1>3, FS_AddElement
    <3> QED BY <1>3, <3>1
  <2>3. IsFiniteSet(Open(agent)')
          /\ Cardinality(Open(agent)') <= Cardinality(Open(agent) \cup {s})
    BY <1>5, <2>2, FS_Subset DEF Creates
  <2>4. Cardinality(Open(agent)') \in Nat
    BY <2>3, FS_CardinalityType
  <2> QED BY <1>2, <1>3, <2>1, <2>2, <2>3, <2>4
<1>6. ASSUME NEW h \in Handlers, CountsPending(agent, h)
      PROVE  Cardinality(Open(agent)') + Cardinality(Creating(agent)')
               < MaxPendingSessionsPerAgent + Cardinality(Handlers)
  <2>1. Cardinality(Open(agent)) <= Cardinality(PendingOf(agent)) + Cardinality(Carrying(agent))
    BY <1>2, CarriedFew
  <2>2. Cardinality(Carrying(agent)) + Cardinality(Creating(agent)) < Cardinality(Handlers)
    BY <1>2, <1>6, HandlersCounted DEF CountsPending
  <2>3. /\ IsFiniteSet(Creating(agent) \cup {h})
        /\ Cardinality(Creating(agent) \cup {h}) <= Cardinality(Creating(agent)) + 1
        /\ Cardinality(Creating(agent) \cup {h}) \in Nat
    <3>1. /\ IsFiniteSet(Creating(agent) \cup {h})
          /\ Cardinality(Creating(agent) \cup {h}) = IF h \in Creating(agent) THEN Cardinality(Creating(agent))
                                                  ELSE Cardinality(Creating(agent)) + 1
      BY <1>3, FS_AddElement
    <3> QED BY <1>3, <3>1
  <2>4. /\ IsFiniteSet(Creating(agent)')
        /\ Cardinality(Creating(agent)') <= Cardinality(Creating(agent) \cup {h})
    BY <1>6, <2>3, FS_Subset DEF CountsPending
  <2>5. Cardinality(Creating(agent)') \in Nat
    BY <2>4, FS_CardinalityType
  <2>6. Cardinality(PendingOf(agent)) < MaxPendingSessionsPerAgent
          /\ Cardinality(Open(agent)') = Cardinality(Open(agent))
    BY <1>6 DEF CountsPending
  <2> QED BY <1>2, <1>3, <2>1, <2>2, <2>3, <2>4, <2>5, <2>6
<1> QED BY <1>4, <1>5, <1>6, StepOpens

\* Initially nothing is open.
LEMMA BoundInitially ==
  ASSUME IsFiniteSet(Handlers), Init
  PROVE  BInv
<1>1. Rows = {} /\ \A agent \in Agents : Open(agent) = {} /\ Creating(agent) = {}
  BY DEF Init, Rows, Open, PendingOf, IsPending, Carrying, Creating, Idle
<1>2. IsFiniteSet({}) /\ Cardinality({}) = 0 /\ Cardinality(Handlers) \in Nat
  BY FS_EmptySet, FS_CardinalityType
<1> QED BY <1>1, <1>2, ConstantsAssumption DEF BInv, OpenBound

\* With as many requests under way as the API may process at once, an agent's pending
\* sessions stay below the cap and their number together; with one at a time beside
\* the sweep, within the cap (VerificationController 58-84).
THEOREM PendingCapIsMissedByOverlapOnly ==
  ASSUME IsFiniteSet(Handlers)
  PROVE  Spec => []PendingCapMissedByOverlap
<1>1. Init => BInv
  BY BoundInitially
<1>2. IInv /\ IInv' /\ BInv /\ [Next]_vars => BInv'
  BY BoundKept
<1>3. IInv /\ BInv => PendingCapMissedByOverlap
  <2> SUFFICES ASSUME IInv, BInv, NEW agent \in Agents
               PROVE  Cardinality(PendingOf(agent))
                        < MaxPendingSessionsPerAgent + Cardinality(Handlers)
    BY DEF PendingCapMissedByOverlap
  <2>1. /\ Cardinality(PendingOf(agent)) \in Nat /\ Cardinality(Open(agent)) \in Nat
        /\ Cardinality(Creating(agent)) \in Nat /\ Cardinality(Handlers) \in Nat
        /\ Cardinality(PendingOf(agent)) <= Cardinality(Open(agent))
        /\ MaxPendingSessionsPerAgent \in Nat
    BY Counts, ConstantsAssumption DEF IInv, BInv
  <2> QED BY <2>1 DEF BInv, OpenBound
<1> QED BY <1>1, <1>2, <1>3, Invariance, PTL DEF Spec

=============================================================================
