--------------------------- MODULE AgentPage_proofs ---------------------------
(***************************************************************************)
(* Theorems about AgentPage, for any number of polls under way and any     *)
(* number of overwrites, lost events, lost connections and page loads.     *)
(*                                                                         *)
(* What is displayed comes from an event or an answer sent earlier, so the *)
(* invariants of the display are not inductive: IInv asks the same of the  *)
(* row and of all the news under way about it.                             *)
(***************************************************************************)
EXTENDS AgentPage, TLAPS

\* The status an event or a message reports.
Reports(event) == IF event = "VerificationComplete" THEN "verified" ELSE "failed"

\* A status of the session seen anywhere has happened.
Happened(state) ==
  /\ state = "verified" => session \in presented
  /\ state = "failed" => session \in refused \cup lockedOut
  /\ state = "expired" => session \in late

\* An event sent, or to be sent, is about a callback.
Earned(event) ==
  IF event = "VerificationComplete" THEN session \in presented ELSE session \in refused

\* The callback is about to tell the page's group.
OwedHere(c) == owed[c] # <<>> /\ owed[c][1] = session

NewsIsTrue ==
  /\ Happened(status[session])
  /\ \A p \in Polls : Happened(polls[p])
  /\ \A c \in Callbacks : OwedHere(c) => Earned(owed[c][2])
  /\ \A i \in 1 .. Len(inbox) : Earned(inbox[i])

\* Before any overwrite, everything under way and everything displayed is about
\* the one final status.
NewsAgree ==
  used["overwrites"] = 0 =>
    /\ \A p \in Polls : polls[p] \in {"idle", "pending", status[session]}
    /\ \A c \in Callbacks : OwedHere(c) => status[session] = Reports(owed[c][2])
    /\ \A i \in 1 .. Len(inbox) : status[session] = Reports(inbox[i])
    /\ shown.result => status[session] = "verified"
    /\ shown.message # "none" => status[session] \in {"failed", "expired"}

IInv == TypeOK /\ NewsIsTrue /\ ShownIsTrue /\ NewsAgree

\* A page that connects or polls is the page of a session.
PageHasSession == view # "create" \/ link # "none" \/ timer => status[session] # "absent"

-----------------------------------------------------------------------------

\* Initially nothing has happened and nothing is displayed.
LEMMA InitIInv == Init => IInv
<1> SUFFICES ASSUME Init  PROVE IInv
  OBVIOUS
<1>0. status[session] = "absent" /\ \A c \in Callbacks : owed[c] = <<>>
  BY PageAssumption DEF Init, Api!ServerInit, Api!Init
<1>1. TypeOK
  <2>1. Api!ServerTypeOK
    BY DEF Init, Api!ServerInit, Api!Init, Api!ServerTypeOK, Api!LifecycleTypeOK
  <2>2. shown \in [result : BOOLEAN, message : Messages, startOver : BOOLEAN]
    BY DEF Init, Blank, Messages
  <2>3. polls \in [Polls -> {"idle", "pending"} \cup Final]
    BY DEF Init
  <2>4. used \in [Bounded -> Nat]
    BY DEF Init
  <2>5. inbox \in Seq(Events)
    BY DEF Init
  <2>6. view = "create" /\ link = "none" /\ join = "no" /\ timer = FALSE
    BY DEF Init
  <2> QED BY <2>1, <2>2, <2>3, <2>4, <2>5, <2>6 DEF TypeOK
<1>2. NewsIsTrue
  BY <1>0 DEF Init, NewsIsTrue, Happened, OwedHere
<1>3. ShownIsTrue
  BY DEF Init, ShownIsTrue, Blank
<1>4. NewsAgree
  BY <1>0 DEF Init, NewsAgree, OwedHere, Blank
<1> QED BY <1>1, <1>2, <1>3, <1>4 DEF IInv

\* Using up a bound leaves the counters natural numbers.
LEMMA UseType ==
  ASSUME NEW bound \in Bounded, NEW max, used \in [Bounded -> Nat], Use(bound, max)
  PROVE  /\ used' \in [Bounded -> Nat]
         /\ bound = "overwrites" => used'["overwrites"] # 0
         /\ bound # "overwrites" => used'["overwrites"] = used["overwrites"]
  BY DEF Use, Bounded

\* What the types say of the followed session and of what is owed.
LEMMA ServerTypes ==
  ASSUME TypeOK
  PROVE  /\ session \in Sessions
         /\ status \in [Sessions -> {"absent", "pending"} \cup Final]
         /\ owed \in [Callbacks -> (Sessions \X Events) \cup {<<>>}]
         /\ inbox \in Seq(Events)
         /\ used \in [Bounded -> Nat]
         /\ Final = {"verified", "failed", "expired"}
         /\ Events = {"VerificationComplete", "VerificationFailed"}
  BY PageAssumption DEF TypeOK, Api!ServerTypeOK, Api!LifecycleTypeOK, Final, Events,
                        Api!Final, Api!Events

\* A write over a final status of the followed session is counted.
LEMMA CountedType ==
  ASSUME NEW s \in Sessions, used \in [Bounded -> Nat], Counted(s)
  PROVE  /\ used' \in [Bounded -> Nat]
         /\ used'["overwrites"] = 0 =>
              used["overwrites"] = 0 /\ (s = session => status[session] \notin Final)
<1>1. CASE s = session /\ status[s] \in Final
  BY <1>1, UseType DEF Counted, Bounded
<1>2. CASE ~(s = session /\ status[s] \in Final)
  BY <1>2 DEF Counted
<1> QED BY <1>1, <1>2

\* Every message is one of the page's, and a Blank page displays nothing.
LEMMA DisplayType ==
  /\ Blank \in [result : BOOLEAN, message : Messages, startOver : BOOLEAN]
  /\ ~Blank.result /\ Blank.message = "none"
  BY DEF Blank, Messages

-----------------------------------------------------------------------------
(* The server.                                                             *)

\* The steps of the server, one by one, and what they all leave alone.
LEMMA ServerSteps ==
  ASSUME Server
  PROVE  /\ UNCHANGED <<view, link, join, timer, polls, shown>>
         /\ presented' \subseteq Sessions /\ refused' \subseteq Sessions
         /\ lockedOut' \subseteq Sessions /\ late' \subseteq Sessions
         /\ presented \subseteq presented' /\ refused \subseteq refused'
         /\ lockedOut \subseteq lockedOut' /\ late \subseteq late'
         /\ \/ UNCHANGED <<status, owed, inbox, used>>
            \/ \E s \in Sessions : Generate(s)
            \/ \E s \in Sessions, verdict \in Final \cup {"pending"} : SaveSilently(s, verdict)
            \/ \E c \in Callbacks, s \in Sessions, verdict \in Final \cup {"pending"} :
                 CallbackSave(c, s, verdict)
            \/ \E c \in Callbacks : Push(c) \/ PushLost(c)
  BY DEF Server, EvidenceComes, Api!EvidenceGrows

\* What the server does to the followed session: nothing, its creation, or a write on
\* evidence, which is counted unless the session was pending.
SessionMoves ==
  /\ status' \in [Sessions -> {"absent", "pending"} \cup Final]
  /\ used' \in [Bounded -> Nat]
  /\ used'["overwrites"] = 0 => used["overwrites"] = 0
  /\ \/ status'[session] = status[session]
     \/ status[session] = "absent" /\ status'[session] = "pending"
     \/ /\ status[session] # "absent" /\ status'[session] # "absent"
        /\ Happened(status[session])'
        /\ used'["overwrites"] = 0 => status[session] = "pending"

\* A write gives one session its verdict, on evidence, and is counted.
LEMMA WriteMoves ==
  ASSUME TypeOK, NEW s \in Sessions, NEW verdict \in Final \cup {"pending"},
         Api!Overwrite(s, verdict), Counted(s)
  PROVE  SessionMoves /\ (s = session => status'[session] = verdict)
<1>1. status[s] # "absent" /\ status' = [status EXCEPT ![s] = verdict]
  BY DEF Api!Overwrite
<1>2. s = session => Happened(verdict)'
  BY DEF Api!Overwrite, Api!Justified, Happened
<1>3. status' \in [Sessions -> {"absent", "pending"} \cup Final]
  BY <1>1, ServerTypes
<1>4. used' \in [Bounded -> Nat] /\ (used'["overwrites"] = 0 => used["overwrites"] = 0)
  BY CountedType, ServerTypes
<1>5. CASE s # session
  <2>1. status'[session] = status[session]
    BY <1>1, <1>5, ServerTypes
  <2> QED BY <1>3, <1>4, <1>5, <2>1 DEF SessionMoves
<1>6. CASE s = session
  <2>1. status'[session] = verdict
    BY <1>1, <1>6, ServerTypes
  <2>2. Happened(status[session])'
    BY <1>2, <1>6, <2>1 DEF Happened
  <2>3. used'["overwrites"] = 0 => status[session] = "pending"
    BY <1>1, <1>6, CountedType, ServerTypes
  <2> QED BY <1>1, <1>3, <1>4, <1>6, <2>1, <2>2, <2>3, ServerTypes DEF SessionMoves
<1> QED BY <1>5, <1>6

\* What a callback comes to owe: the event of its verdict.
LEMMA ReportedOwes ==
  ASSUME TypeOK, NEW c \in Callbacks, NEW s \in Sessions,
         NEW verdict \in Final \cup {"pending"}, Api!Reported(c, s, verdict)
  PROVE  /\ owed' \in [Callbacks -> (Sessions \X Events) \cup {<<>>}]
         /\ \A d \in Callbacks \ {c} : owed'[d] = owed[d]
         /\ owed'[c][1] = s /\ owed'[c][2] \in Events
         /\ verdict = Reports(owed'[c][2])
         /\ s = session => Earned(owed[c][2])'
<1> DEFINE event == IF verdict = "verified" THEN "VerificationComplete" ELSE "VerificationFailed"
<1>1. owed' = [owed EXCEPT ![c] = <<s, event>>]
  BY DEF Api!Reported
<1>2. event \in Events /\ verdict = Reports(event)
  BY ServerTypes DEF Api!Reported, Reports
<1>3. s = session => Earned(event)'
  BY DEF Api!Reported, Api!Overwrite, Api!Justified, Earned
<1> HIDE DEF event
<1>4. owed'[c] = <<s, event>>
  BY <1>1, ServerTypes
<1>5. <<s, event>> \in (Sessions \X Events) \cup {<<>>}
  BY <1>2
<1>6. owed' \in [Callbacks -> (Sessions \X Events) \cup {<<>>}]
  BY <1>1, <1>5, ServerTypes
<1>7. owed'[c][1] = s /\ owed'[c][2] = event
  BY <1>4
<1>8. \A d \in Callbacks \ {c} : owed'[d] = owed[d]
  BY <1>1, ServerTypes
<1>9. s = session => Earned(owed[c][2])'
  BY <1>3, <1>7 DEF Earned
<1> QED BY <1>2, <1>6, <1>7, <1>8, <1>9

\* What is owed to its group: as before, or the event of the status just written.
DebtsMove ==
  /\ owed' \in [Callbacks -> (Sessions \X Events) \cup {<<>>}]
  /\ \A d \in Callbacks :
       OwedHere(d)' => \/ OwedHere(d) /\ owed'[d] = owed[d]
                       \/ /\ Earned(owed[d][2])'
                          /\ status'[session] = Reports(owed'[d][2])

\* What is on its way to the page: as before, or what was owed to its group.
InboxMoves ==
  /\ inbox' \in Seq(Events)
  /\ \A i \in 1 .. Len(inbox') :
       \/ i \in 1 .. Len(inbox) /\ inbox'[i] = inbox[i]
       \/ \E c \in Callbacks : OwedHere(c) /\ inbox'[i] = owed[c][2]

\* A session does not go away.
LEMMA SessionStays ==
  ASSUME SessionMoves, status[session] # "absent"
  PROVE  status'[session] # "absent"
<1>1. CASE status'[session] = status[session]
  BY <1>1
<1> QED BY <1>1 DEF SessionMoves

\* Nothing new on its way.
LEMMA InboxRests ==
  ASSUME TypeOK, UNCHANGED inbox
  PROVE  InboxMoves
  BY ServerTypes DEF InboxMoves

\* Nothing new is owed.
LEMMA DebtsRest ==
  ASSUME TypeOK, UNCHANGED owed
  PROVE  DebtsMove
  BY ServerTypes DEF DebtsMove, OwedHere

\* Every step of the server is of this kind.
LEMMA ServerMoves ==
  ASSUME TypeOK, Server
  PROVE  SessionMoves /\ DebtsMove /\ InboxMoves
<1>1. CASE UNCHANGED <<status, owed, inbox, used>>
  BY <1>1, InboxRests, DebtsRest, ServerTypes DEF SessionMoves
<1>2. ASSUME NEW s \in Sessions, Generate(s)
      PROVE  SessionMoves /\ DebtsMove /\ InboxMoves
  <2>1. status[s] = "absent" /\ status' = [status EXCEPT ![s] = "pending"]
    BY <1>2 DEF Generate, Api!Create
  <2>2. SessionMoves
    BY <1>2, <2>1, ServerTypes DEF SessionMoves, Generate
  <2> QED BY <1>2, <2>2, InboxRests, DebtsRest DEF Generate
<1>3. ASSUME NEW s \in Sessions, NEW verdict \in Final \cup {"pending"}, SaveSilently(s, verdict)
      PROVE  SessionMoves /\ DebtsMove /\ InboxMoves
  <2>1. SessionMoves
    BY <1>3, WriteMoves DEF SaveSilently, Api!Quietly
  <2> QED BY <1>3, <2>1, InboxRests, DebtsRest DEF SaveSilently, Api!Quietly
<1>4. ASSUME NEW c \in Callbacks, NEW s \in Sessions, NEW verdict \in Final \cup {"pending"},
             CallbackSave(c, s, verdict)
      PROVE  SessionMoves /\ DebtsMove /\ InboxMoves
  <2>1. SessionMoves
    BY <1>4, WriteMoves DEF CallbackSave, Api!Reported
  <2>2. DebtsMove
    <3>1. s = session => status'[session] = verdict
      BY <1>4, WriteMoves DEF CallbackSave, Api!Reported
    <3>2. Api!Reported(c, s, verdict)
      BY <1>4 DEF CallbackSave
    <3> QED BY <3>1, <3>2, ReportedOwes DEF DebtsMove, OwedHere
  <2> QED BY <1>4, <2>1, <2>2, InboxRests DEF CallbackSave
<1>5. ASSUME NEW c \in Callbacks, Push(c) \/ PushLost(c)
      PROVE  SessionMoves /\ DebtsMove /\ InboxMoves
  <2>1. /\ owed[c] # <<>> /\ owed' = [owed EXCEPT ![c] = <<>>]
        /\ UNCHANGED status
    BY <1>5 DEF Push, PushLost, Api!SentOrLost
  <2>2. used' \in [Bounded -> Nat] /\ used'["overwrites"] = used["overwrites"]
    BY <1>5, UseType, ServerTypes DEF Push, PushLost, Bounded
  <2>3. SessionMoves
    BY <2>1, <2>2, ServerTypes DEF SessionMoves
  <2>4. DebtsMove
    BY <2>1, ServerTypes DEF DebtsMove, OwedHere
  <2>5. InboxMoves
    <3>1. CASE inbox' = inbox
      BY <3>1, InboxRests
    <3>2. CASE OwedHere(c) /\ inbox' = Append(inbox, owed[c][2])
      <4>1. owed[c][2] \in Events
        BY <2>1, ServerTypes
      <4>2. /\ inbox' \in Seq(Events) /\ Len(inbox') = Len(inbox) + 1
            /\ \A i \in 1 .. Len(inbox) : inbox'[i] = inbox[i]
            /\ inbox'[Len(inbox) + 1] = owed[c][2] /\ Len(inbox) \in Nat
        BY <3>2, <4>1, ServerTypes
      <4>3. \A i \in 1 .. Len(inbox') : i \in 1 .. Len(inbox) \/ i = Len(inbox) + 1
        BY <4>2
      <4> QED BY <3>2, <4>2, <4>3 DEF InboxMoves
    <3> QED BY <1>5, <2>1, <3>1, <3>2 DEF Push, PushLost, OwedHere
  <2> QED BY <2>3, <2>4, <2>5
<1> QED BY <1>1, <1>2, <1>3, <1>4, <1>5, ServerSteps

\* So what is under way and what is displayed stay true, and agree.
LEMMA ServerIInv ==
  ASSUME IInv, Server
  PROVE  IInv'
<1>0. TypeOK /\ SessionMoves /\ DebtsMove /\ InboxMoves
  BY ServerMoves DEF IInv
<1>1. TypeOK'
  <2>1. Api!ServerTypeOK'
    BY <1>0, ServerSteps DEF SessionMoves, DebtsMove, Api!ServerTypeOK, Api!LifecycleTypeOK,
                             Final, Events
  <2> QED BY <1>0, <2>1, ServerSteps DEF TypeOK, SessionMoves, InboxMoves
<1>2. ASSUME NEW state, Happened(state)  PROVE Happened(state)'
  BY <1>2, ServerSteps DEF Happened
<1>3. ASSUME NEW event, Earned(event)  PROVE Earned(event)'
  BY <1>3, ServerSteps DEF Earned
<1>4. Happened(status[session])'
  <2>1. CASE status'[session] = status[session]
    <3>1. Happened(status[session])
      BY DEF IInv, NewsIsTrue
    <3> QED BY <2>1, <3>1, ServerSteps DEF Happened
  <2>2. CASE status[session] = "absent" /\ status'[session] = "pending"
    BY <2>2 DEF Happened
  <2>3. CASE Happened(status[session])'
    BY <2>3
  <2> QED BY <1>0, <2>1, <2>2, <2>3 DEF SessionMoves
<1>5. \A p \in Polls : Happened(polls[p])'
  <2> SUFFICES ASSUME NEW p \in Polls  PROVE Happened(polls[p])'
    OBVIOUS
  <2>1. Happened(polls[p]) /\ polls' = polls
    BY ServerSteps DEF IInv, NewsIsTrue
  <2> QED BY <2>1, ServerSteps DEF Happened
<1>6. \A c \in Callbacks : OwedHere(c)' => Earned(owed[c][2])'
  <2> SUFFICES ASSUME NEW c \in Callbacks, OwedHere(c)'  PROVE Earned(owed[c][2])'
    OBVIOUS
  <2>1. CASE OwedHere(c) /\ owed'[c] = owed[c]
    <3>1. Earned(owed[c][2])
      BY <2>1 DEF IInv, NewsIsTrue
    <3> QED BY <2>1, <3>1, ServerSteps DEF Earned
  <2> QED BY <1>0, <2>1 DEF DebtsMove
<1>7. \A i \in 1 .. Len(inbox') : Earned(inbox[i])'
  <2> SUFFICES ASSUME NEW i \in 1 .. Len(inbox')  PROVE Earned(inbox[i])'
    OBVIOUS
  <2>1. Earned(inbox'[i])
    BY <1>0 DEF IInv, NewsIsTrue, InboxMoves, Earned
  <2> QED BY <2>1, ServerSteps DEF Earned
<1>8. NewsIsTrue'
  BY <1>4, <1>5, <1>6, <1>7 DEF NewsIsTrue
<1>9. ShownIsTrue'
  BY ServerSteps DEF IInv, ShownIsTrue
<1>10. NewsAgree'
  <2> SUFFICES ASSUME used'["overwrites"] = 0  PROVE NewsAgree'
    BY DEF NewsAgree
  <2>1. /\ \A p \in Polls : polls[p] \in {"idle", "pending", status[session]}
        /\ \A c \in Callbacks : OwedHere(c) => status[session] = Reports(owed[c][2])
        /\ \A i \in 1 .. Len(inbox) : status[session] = Reports(inbox[i])
        /\ shown.result => status[session] = "verified"
        /\ shown.message # "none" => status[session] \in {"failed", "expired"}
    BY <1>0 DEF IInv, NewsAgree, SessionMoves
  <2>2. CASE status'[session] = status[session]
    <3>1. \A c \in Callbacks : OwedHere(c)' => status'[session] = Reports(owed'[c][2])
      BY <1>0, <2>1, <2>2 DEF DebtsMove
    <3>2. \A i \in 1 .. Len(inbox') : status'[session] = Reports(inbox'[i])
      BY <1>0, <2>1, <2>2 DEF InboxMoves
    <3> QED BY <2>1, <2>2, <3>1, <3>2, ServerSteps DEF NewsAgree
  <2>3. CASE status[session] \in {"absent", "pending"}
    <3>1. ~shown.result /\ shown.message = "none"
      BY <2>1, <2>3
    <3>2. \A c \in Callbacks : ~OwedHere(c)
      BY <2>1, <2>3 DEF Reports
    <3>3. \A i \in 1 .. Len(inbox) : FALSE
      BY <2>1, <2>3 DEF Reports
    <3>4. \A p \in Polls : polls[p] \in {"idle", "pending"}
      <4>1. \A p \in Polls : polls[p] # "absent"
        BY <1>0, ServerTypes DEF TypeOK
      <4> QED BY <2>1, <2>3, <4>1
    <3>5. \A c \in Callbacks : OwedHere(c)' => status'[session] = Reports(owed'[c][2])
      BY <1>0, <3>2 DEF DebtsMove
    <3>6. \A i \in 1 .. Len(inbox') : status'[session] = Reports(inbox'[i])
      BY <1>0, <3>2, <3>3 DEF InboxMoves
    <3> QED BY <3>1, <3>4, <3>5, <3>6, ServerSteps DEF NewsAgree
  <2> QED BY <1>0, <2>2, <2>3 DEF SessionMoves
<1> QED BY <1>1, <1>8, <1>9, <1>10 DEF IInv

-----------------------------------------------------------------------------
(* The page.                                                               *)

\* A step of the page that leaves the row alone, takes news away and adds none
\* of its own, keeps what is under way true.
LEMMA NewsKept ==
  ASSUME IInv, UNCHANGED server,
         \A p \in Polls : polls'[p] \in {"idle", polls[p], status[session]},
         \A i \in 1 .. Len(inbox') : \E j \in 1 .. Len(inbox) : inbox'[i] = inbox[j]
  PROVE  NewsIsTrue'
  BY DEF IInv, NewsIsTrue, Happened, Earned, OwedHere, server

\* The connection's own steps change nothing that is displayed.
LEMMA LinkIInv ==
  ASSUME IInv, StartSucceeds \/ StartFails \/ JoinSession \/ LinkDrops \/ Reconnect
  PROVE  IInv'
<1>1. UNCHANGED <<server, view, polls, shown>> /\ (inbox' = inbox \/ inbox' = <<>>)
  BY DEF StartSucceeds, StartFails, JoinSession, LinkDrops, Reconnect
<1>2. used' \in [Bounded -> Nat] /\ used'["overwrites"] = used["overwrites"]
  BY UseType DEF StartSucceeds, StartFails, JoinSession, LinkDrops, Reconnect,
                 IInv, TypeOK, Bounded
<1>3. /\ link' \in {"none", "starting", "up", "down", "closed", "failed"}
      /\ join' \in {"no", "sent", "member"}
      /\ timer' \in BOOLEAN
  BY DEF StartSucceeds, StartFails, JoinSession, LinkDrops, Reconnect, IInv, TypeOK
<1>4. inbox' \in Seq(Events)
  <2>1. inbox \in Seq(Events)
    BY DEF IInv, TypeOK
  <2>2. CASE inbox' = inbox
    BY <2>1, <2>2
  <2>3. CASE inbox' = <<>>
    BY <2>3
  <2> QED BY <1>1, <2>2, <2>3
<1>5. TypeOK'
  BY <1>1, <1>2, <1>3, <1>4 DEF IInv, TypeOK, Api!ServerTypeOK, Api!LifecycleTypeOK, server
<1>6. NewsIsTrue'
  BY <1>1, NewsKept
<1>7. ShownIsTrue'
  BY <1>1 DEF IInv, ShownIsTrue, server
<1>8. NewsAgree'
  BY <1>1, <1>2 DEF IInv, NewsAgree, Reports, OwedHere, server
<1> QED BY <1>5, <1>6, <1>7, <1>8 DEF IInv

\* Leaving a page takes all its news away.
LEMMA LeaveIInv ==
  ASSUME IInv,
         NEW newView \in {"create", "pending", "result", "error"},
         NEW newLink \in {"none", "starting"},
         Leave(newView, newLink),
         newView = "result" => status[session] = "verified",
         used' \in [Bounded -> Nat],
         used'["overwrites"] = used["overwrites"]
  PROVE  IInv'
<1> USE DEF Leave
<1>1. polls' \in [Polls -> {"idle", "pending"} \cup Final] /\ inbox' \in Seq(Events)
  OBVIOUS
<1>2. TypeOK'
  BY <1>1, DisplayType DEF IInv, TypeOK, Api!ServerTypeOK, Api!LifecycleTypeOK, server
<1>3. NewsIsTrue'
  BY NewsKept
<1>4. ShownIsTrue'
  <2>1. newView = "result" => session \in presented
    BY DEF IInv, NewsIsTrue, Happened
  <2> QED BY <2>1, DisplayType DEF ShownIsTrue, server
<1>5. NewsAgree'
  BY DisplayType DEF IInv, NewsAgree, Reports, OwedHere, server
<1> QED BY <1>2, <1>3, <1>4, <1>5 DEF IInv

\* Loading any page.
LEMMA OpenIInv ==
  ASSUME IInv, OpenPending \/ OpenCreate \/ OpenResult
  PROVE  IInv'
<1>1. used \in [Bounded -> Nat]
  BY DEF IInv, TypeOK
<1>2. Use("loads", MaxLoads) \/ UNCHANGED used =>
        used' \in [Bounded -> Nat] /\ used'["overwrites"] = used["overwrites"]
  BY <1>1, UseType DEF Bounded
<1>3. CASE OpenPending
  BY <1>2, <1>3, LeaveIInv DEF OpenPending
<1>4. CASE OpenCreate
  BY <1>2, <1>4, LeaveIInv DEF OpenCreate
<1>5. CASE OpenResult
  <2>1. CASE status[session] = "verified" /\ Leave("result", "none") /\ UNCHANGED used
    BY <1>2, <2>1, LeaveIInv
  <2>2. CASE Leave("pending", "starting") /\ Use("loads", MaxLoads)
    BY <1>2, <2>2, LeaveIInv
  <2>3. CASE Leave("error", "none") /\ UNCHANGED used
    BY <1>2, <2>3, LeaveIInv
  <2> QED BY <1>5, <2>1, <2>2, <2>3 DEF OpenResult
<1> QED BY <1>3, <1>4, <1>5

\* An event is displayed: it was earned, and agrees with the row.
LEMMA ReceiveIInv ==
  ASSUME IInv, Receive
  PROVE  IInv'
<1>1. inbox \in Seq(Events) /\ inbox # <<>>
  BY DEF IInv, TypeOK, Receive
<1>2. inbox' = Tail(inbox)
  BY DEF Receive
<1>3. inbox' \in Seq(Events) /\ Head(inbox) \in Events /\ Head(inbox) = inbox[1]
        /\ 1 \in 1 .. Len(inbox)
        /\ \A i \in 1 .. Len(inbox') : i + 1 \in 1 .. Len(inbox) /\ inbox'[i] = inbox[i + 1]
  BY <1>1, <1>2
<1>4. UNCHANGED <<server, view, link, join, polls, used>>
  BY DEF Receive
<1>5. NewsIsTrue'
  BY <1>3, <1>4, NewsKept
<1>6. Earned(Head(inbox))
  BY <1>3 DEF IInv, NewsIsTrue
<1>7. used["overwrites"] = 0 => status[session] = Reports(Head(inbox))
  BY <1>3 DEF IInv, NewsAgree
<1>8. \A i \in 1 .. Len(inbox') :
        used["overwrites"] = 0 => status[session] = Reports(inbox'[i])
  BY <1>3 DEF IInv, NewsAgree
<1>9. CASE Head(inbox) = "VerificationComplete"
  <2>1. timer' = FALSE /\ ShowVerified
    BY <1>9 DEF Receive
  <2>2. shown' \in [result : BOOLEAN, message : Messages, startOver : BOOLEAN]
          /\ shown'.result /\ shown'.message = "none"
    BY <2>1 DEF ShowVerified, IInv, TypeOK, Messages
  <2>3. TypeOK'
    BY <1>3, <1>4, <2>1, <2>2 DEF IInv, TypeOK, Api!ServerTypeOK, Api!LifecycleTypeOK, server
  <2>4. ShownIsTrue'
    BY <1>4, <1>6, <1>9, <2>2 DEF Earned, ShownIsTrue, server
  <2>5. NewsAgree'
    BY <1>4, <1>7, <1>8, <1>9, <2>2 DEF IInv, NewsAgree, Reports, OwedHere, server
  <2> QED BY <1>5, <2>3, <2>4, <2>5 DEF IInv
<1>10. CASE Head(inbox) # "VerificationComplete"
  <2>1. UNCHANGED timer /\ ShowError("Verification failed")
    BY <1>10 DEF Receive
  <2>2. shown' \in [result : BOOLEAN, message : Messages, startOver : BOOLEAN]
          /\ shown'.result = shown.result /\ shown'.message = "Verification failed"
    BY <2>1 DEF ShowError, IInv, TypeOK, Messages
  <2>3. TypeOK'
    BY <1>3, <1>4, <2>1, <2>2 DEF IInv, TypeOK, Api!ServerTypeOK, Api!LifecycleTypeOK, server
  <2>4. ShownIsTrue'
    BY <1>4, <1>6, <1>10, <2>2 DEF Earned, IInv, ShownIsTrue, server
  <2>5. NewsAgree'
    BY <1>4, <1>7, <1>8, <1>10, <2>2 DEF IInv, NewsAgree, Reports, OwedHere, server
  <2> QED BY <1>5, <2>3, <2>4, <2>5 DEF IInv
<1> QED BY <1>9, <1>10

\* A poll is asked, answered or lost.
LEMMA PollIInv ==
  ASSUME IInv, PageHasSession,
         NEW p \in Polls, PollStatus(p) \/ PollAnswered(p) \/ PollFails(p)
  PROVE  IInv'
<1>1. UNCHANGED <<server, view, channel, used>>
  BY DEF PollStatus, PollAnswered, PollFails
<1>2. polls' \in [Polls -> {"idle", "pending"} \cup Final]
        /\ \A q \in Polls : polls'[q] \in {"idle", polls[q], status[session]}
  <2>1. CASE PollStatus(p)
    <3>1. status[session] \in {"pending"} \cup Final
      BY <2>1, ServerTypes DEF PollStatus, PageHasSession, IInv
    <3> QED BY <2>1, <3>1 DEF PollStatus, IInv, TypeOK
  <2>2. CASE PollAnswered(p) \/ PollFails(p)
    BY <2>2 DEF PollAnswered, PollFails, IInv, TypeOK
  <2> QED BY <2>1, <2>2
<1>3. NewsIsTrue'
  <2>1. inbox' = inbox /\ inbox \in Seq(Events)
    BY <1>1 DEF channel, IInv, TypeOK
  <2> QED BY <1>1, <1>2, <2>1, NewsKept
<1>4. timer' \in BOOLEAN
  BY DEF PollStatus, PollAnswered, PollFails, IInv, TypeOK
<1>5. \/ UNCHANGED shown
      \/ polls[p] = "verified" /\ ShowVerified
      \/ polls[p] = "failed" /\ ShowError("Session failed")
      \/ polls[p] = "expired" /\ ShowError("Session expired")
  <2>1. polls[p] \in {"idle", "pending", "verified", "failed", "expired"}
    BY ServerTypes DEF IInv, TypeOK
  <2> QED BY <2>1 DEF PollStatus, PollAnswered, PollFails
<1>6. Happened(polls[p])
  BY DEF IInv, NewsIsTrue
<1>7. used["overwrites"] = 0 => polls[p] \in {"idle", "pending", status[session]}
  BY DEF IInv, NewsAgree
<1>8. shown' \in [result : BOOLEAN, message : Messages, startOver : BOOLEAN]
  BY <1>5 DEF ShowVerified, ShowError, IInv, TypeOK, Messages
<1>9. TypeOK'
  BY <1>1, <1>2, <1>4, <1>8 DEF IInv, TypeOK, Api!ServerTypeOK, Api!LifecycleTypeOK, server, channel
<1>10. /\ shown'.result => shown.result \/ polls[p] = "verified"
       /\ shown'.message # "none" =>
            \/ shown'.message = shown.message
            \/ shown'.message = "Session failed" /\ polls[p] = "failed"
            \/ shown'.message = "Session expired" /\ polls[p] = "expired"
  BY <1>5 DEF ShowVerified, ShowError, IInv, TypeOK
<1>11. ShownIsTrue'
  BY <1>1, <1>6, <1>10 DEF Happened, IInv, ShownIsTrue, server
<1>12. NewsAgree'
  <2> SUFFICES ASSUME used'["overwrites"] = 0  PROVE NewsAgree'
    BY DEF NewsAgree
  <2>1. \A q \in Polls : polls'[q] \in {"idle", "pending", status'[session]}
    BY <1>1, <1>2 DEF IInv, NewsAgree, server
  <2>2. /\ shown'.result => status'[session] = "verified"
        /\ shown'.message # "none" => status'[session] \in {"failed", "expired"}
    BY <1>1, <1>7, <1>10 DEF IInv, NewsAgree, server
  <2>3. /\ \A c \in Callbacks : OwedHere(c)' => status'[session] = Reports(owed'[c][2])
        /\ \A i \in 1 .. Len(inbox') : status'[session] = Reports(inbox'[i])
    BY <1>1 DEF IInv, NewsAgree, OwedHere, server, channel
  <2> QED BY <2>1, <2>2, <2>3 DEF NewsAgree, Reports
<1> QED BY <1>3, <1>9, <1>11, <1>12 DEF IInv

\* The countdown only offers to start over.
LEMMA CountdownEndsIInv ==
  ASSUME IInv, CountdownEnds
  PROVE  IInv'
<1>1. UNCHANGED <<server, view, channel, timer, polls, used>>
  BY DEF CountdownEnds
<1>2. shown' \in [result : BOOLEAN, message : Messages, startOver : BOOLEAN]
        /\ shown'.result = shown.result /\ shown'.message = shown.message
  BY DEF CountdownEnds, IInv, TypeOK
<1>3. TypeOK'
  BY <1>1, <1>2 DEF IInv, TypeOK, Api!ServerTypeOK, Api!LifecycleTypeOK, server, channel
<1>4. NewsIsTrue' /\ ShownIsTrue'
  BY <1>1, <1>2 DEF IInv, NewsIsTrue, Happened, Earned, OwedHere, ShownIsTrue, server, channel
<1>5. NewsAgree'
  BY <1>1, <1>2 DEF IInv, NewsAgree, Reports, OwedHere, server, channel
<1> QED BY <1>3, <1>4, <1>5 DEF IInv

-----------------------------------------------------------------------------

\* No page is opened before its session exists, and no session goes away.
LEMMA PageHasSessionKept ==
  ASSUME TypeOK, NewsIsTrue, PageHasSession, [Next]_vars
  PROVE  PageHasSession'
<1> USE DEF PageHasSession, server, channel
<1>1. CASE UNCHANGED vars
  BY <1>1 DEF vars
<1>2. CASE Server
  <2>1. UNCHANGED <<view, link, timer>>
    BY <1>2, ServerSteps
  <2>2. status[session] # "absent" => status'[session] # "absent"
    BY <1>2, ServerMoves, SessionStays
  <2> QED BY <2>1, <2>2
<1>3. CASE Page
  <2>1. status' = status
    BY <1>3 DEF Page, OpenPending, OpenCreate, OpenResult, Leave, StartSucceeds, StartFails,
                JoinSession, LinkDrops, Reconnect, Receive, PollStatus, PollAnswered, PollFails,
                CountdownEnds
  <2>2. CASE OpenPending \/ OpenCreate \/ OpenResult
    BY <2>1, <2>2 DEF OpenPending, OpenCreate, OpenResult, Leave
  <2>3. CASE StartSucceeds \/ StartFails \/ JoinSession \/ LinkDrops \/ Reconnect
    BY <2>1, <2>3 DEF StartSucceeds, StartFails, JoinSession, LinkDrops, Reconnect
  <2>4. CASE Receive \/ CountdownEnds
    <3>1. UNCHANGED <<view, link>>
      BY <2>4 DEF Receive, CountdownEnds
    <3>2. timer' = FALSE \/ timer' = timer
      BY <2>4 DEF Receive, CountdownEnds
    <3> QED BY <2>1, <3>1, <3>2
  <2>5. ASSUME NEW p \in Polls, PollStatus(p) \/ PollAnswered(p) \/ PollFails(p)
        PROVE  PageHasSession'
    <3>1. UNCHANGED <<view, link>>
      BY <2>5 DEF PollStatus, PollAnswered, PollFails
    <3>2. timer' = FALSE \/ timer' = timer
      BY <2>5 DEF PollStatus, PollAnswered, PollFails
    <3> QED BY <2>1, <3>1, <3>2
  <2> QED BY <1>3, <2>2, <2>3, <2>4, <2>5 DEF Page
<1> QED BY <1>1, <1>2, <1>3 DEF Next

\* Every step keeps the invariant.
LEMMA NextIInv ==
  ASSUME IInv, PageHasSession, [Next]_vars
  PROVE  IInv'
<1>1. CASE UNCHANGED vars
  <2>1. TypeOK'
    BY <1>1 DEF vars, server, channel, IInv, TypeOK, Api!ServerTypeOK, Api!LifecycleTypeOK
  <2>2. NewsIsTrue' /\ ShownIsTrue'
    BY <1>1 DEF vars, server, channel, IInv, NewsIsTrue, Happened, Earned, OwedHere, ShownIsTrue
  <2>3. NewsAgree'
    BY <1>1 DEF vars, server, channel, IInv, NewsAgree, Reports, OwedHere
  <2> QED BY <2>1, <2>2, <2>3 DEF IInv
<1>2. CASE Server
  BY <1>2, ServerIInv
<1>3. CASE Page
  <2>1. ASSUME NEW p \in Polls, PollStatus(p) \/ PollAnswered(p) \/ PollFails(p)
        PROVE  IInv'
    BY <2>1, PollIInv
  <2> QED BY <1>3, <2>1, OpenIInv, LinkIInv, ReceiveIInv, CountdownEndsIInv DEF Page
<1> QED BY <1>1, <1>2, <1>3 DEF Next

\* The row, the news under way about it and what is displayed stay backed by what
\* has happened (the inductive invariant).
THEOREM Invariance == Spec => [](IInv /\ PageHasSession)
<1>1. Init => PageHasSession
  BY DEF Init, PageHasSession
<1>2. IInv => TypeOK /\ NewsIsTrue
  BY DEF IInv
<1> QED BY <1>1, <1>2, InitIInv, NextIInv, PageHasSessionKept, PTL DEF Spec

\* Type correctness of the page and its server.
THEOREM TypeCorrect == Spec => []TypeOK
  BY Invariance, PTL DEF IInv

\* The page never shows an outcome that did not happen (verification-pending.js
\* 39-46, 63-81).
THEOREM ShownOutcomeHappened == Spec => []ShownIsTrue
  BY Invariance, PTL DEF IInv

\* As long as no final status has been written over, the page never shows the
\* verified result and an error together (verification-pending.js 83-112).
THEOREM ShownOutcomesAgree == Spec => []OneVerdictShown
<1>1. IInv => OneVerdictShown
  BY DEF IInv, NewsAgree, OneVerdictShown
<1> QED BY <1>1, Invariance, PTL

=============================================================================
