------------------------------ MODULE AgentPage ------------------------------
(***************************************************************************)
(* The agent's pending page: it learns the outcome of one session through  *)
(* a SignalR connection that joins the session's hub group, or, when the   *)
(* connection cannot be started, by polling the session's public status.   *)
(*                                                                         *)
(* The server side is SessionServer, which VerificationApi is shown to     *)
(* implement: whatever the API does, the page may meet here, up to the     *)
(* bounds on overwrites and lost events.  What this module adds to it is   *)
(* where an event goes that is sent to the session's group.                *)
(***************************************************************************)
EXTENDS Naturals, Sequences

CONSTANTS
  Sessions, Callbacks,   \* of the server (see SessionServer)
  session,        \* the session the page follows
  Polls,          \* status requests the page may have under way at once
  MaxOverwrites,  \* bound: writes of a stale copy over a final status
  MaxLostPushes,  \* bound: events lost with their handler
  MaxDrops,       \* bound: losses of an established connection
  MaxLoads        \* bound: times the pending page is loaded

ASSUME PageAssumption ==
  /\ session \in Sessions
  /\ {MaxOverwrites, MaxLostPushes, MaxDrops, MaxLoads} \subseteq Nat

VARIABLES
  status, presented, refused, lockedOut, late, owed,   \* the server's
  view,        \* what the browser shows
  link,        \* the page's SignalR connection
  join,        \* its membership of the session's group
  inbox,       \* events under way to the page, in order
  timer,       \* is the polling interval set
  polls,       \* the answers under way to the page's polls
  shown,       \* what the pending page displays
  used         \* how much of each bound is used up

Api == INSTANCE SessionServer

server == <<status, presented, refused, lockedOut, late, owed>>
channel == <<link, join, inbox>>
vars == <<server, view, channel, timer, polls, shown, used>>

Final == Api!Final
Events == Api!Events
Messages == {"none", "Verification failed", "Session failed", "Session expired"}
Bounded == {"overwrites", "lostPushes", "drops", "loads"}

TypeOK ==
  /\ Api!ServerTypeOK
  /\ view \in {"create", "pending", "result", "error"}
  /\ link \in {"none", "starting", "up", "down", "closed", "failed"}
  /\ join \in {"no", "sent", "member"}
  /\ inbox \in Seq(Events)
  /\ timer \in BOOLEAN
  /\ polls \in [Polls -> {"idle", "pending"} \cup Final]
  /\ shown \in [result : BOOLEAN, message : Messages, startOver : BOOLEAN]
  /\ used \in [Bounded -> Nat]

Blank == [result |-> FALSE, message |-> "none", startOver |-> FALSE]

Init ==
  /\ Api!ServerInit
  /\ view = "create"
  /\ link = "none"
  /\ join = "no"
  /\ inbox = <<>>
  /\ timer = FALSE
  /\ polls = [p \in Polls |-> "idle"]
  /\ shown = Blank
  /\ used = [b \in Bounded |-> 0]

Use(bound, max) ==
  /\ used[bound] < max
  /\ used' = [used EXCEPT ![bound] = @ + 1]

-----------------------------------------------------------------------------
(* The server: the steps of SessionServer, each with what the page has of it. *)

\* What justifies a status may have happened at any moment before.
EvidenceComes ==
  /\ presented' \in SUBSET Sessions /\ refused' \in SUBSET Sessions
  /\ lockedOut' \in SUBSET Sessions /\ late' \in SUBSET Sessions
  /\ Api!EvidenceGrows
  /\ UNCHANGED <<view, link, join, timer, polls, shown>>

\* Mutant: the status is written in another case than it is compared with.
GenerateMisspelt(s) ==
  /\ status[s] = "absent"
  /\ status' = [status EXCEPT ![s] = "Pending"]
  /\ UNCHANGED <<owed, inbox, used>>

Generate(s) ==
  /\ Api!Create(s)
  /\ UNCHANGED <<owed, inbox, used>>

\* Over a final status, a write is one by a handler that read the row earlier.
Counted(s) ==
  IF s = session /\ status[s] \in Final THEN Use("overwrites", MaxOverwrites)
                                        ELSE UNCHANGED used

\* Mutant: the two events are swapped.
CallbackSaveSwapped(c, s, verdict) ==
  /\ owed[c] = <<>>
  /\ verdict \in {"verified", "failed"}
  /\ verdict = "failed" => s \in refused'
  /\ Api!Overwrite(s, verdict)
  /\ owed' = [owed EXCEPT ![c] = <<s, IF verdict = "verified" THEN "VerificationFailed"
                                                           ELSE "VerificationComplete">>]
  /\ Counted(s)
  /\ UNCHANGED inbox

\* The event is owed from here on.
CallbackSave(c, s, verdict) ==
  /\ Api!Reported(c, s, verdict)
  /\ Counted(s)
  /\ UNCHANGED inbox

\* The sweep and the lockout settle a session without telling the group; initiate
\* and a wrong code save the pending copy they read.
SaveSilently(s, verdict) ==
  /\ Api!Quietly(s, verdict)
  /\ Counted(s)
  /\ UNCHANGED inbox

\* The group's members get the event; nobody else does, then or later.
Push(c) ==
  /\ Api!SentOrLost(c)
  /\ inbox' = IF join = "member" /\ owed[c][1] = session THEN Append(inbox, owed[c][2])
                                                         ELSE inbox
  /\ UNCHANGED used

\* The handler dies, or the hub call throws, after the row was saved.
PushLost(c) ==
  /\ Api!SentOrLost(c)
  /\ Use("lostPushes", MaxLostPushes)
  /\ UNCHANGED inbox

-----------------------------------------------------------------------------
(* Loading pages.                                                          *)

\* A page that is left takes its connection, timer and polls with it.
Leave(newView, newLink) ==
  /\ view' = newView
  /\ link' = newLink
  /\ join' = "no"
  /\ inbox' = <<>>
  /\ timer' = FALSE
  /\ polls' = [p \in Polls |-> "idle"]
  /\ shown' = Blank
  /\ UNCHANGED server

\* After create, from the list of active sessions, or by a reload.
OpenPending ==
  /\ status[session] # "absent"
  /\ Leave("pending", "starting")
  /\ Use("loads", MaxLoads)

\* "Start New Verification" is on every pending page.
OpenCreate ==
  /\ view # "create"
  /\ Leave("create", "none")
  /\ UNCHANGED used

\* "View Verified Result": the portal asks for the status, and sends the agent
\* back to the pending page if it is not "verified" (any more).
OpenResult ==
  /\ view = "pending"
  /\ shown.result
  /\ \/ status[session] = "verified" /\ Leave("result", "none") /\ UNCHANGED used
     \/ status[session] # "verified" /\ Leave("pending", "starting") /\ Use("loads", MaxLoads)
     \/ Leave("error", "none") /\ UNCHANGED used

-----------------------------------------------------------------------------
(* The connection.                                                         *)

StartSucceeds ==
  /\ link = "starting"
  /\ link' = "up"
  /\ join' = "sent"
  /\ UNCHANGED <<server, view, inbox, timer, polls, shown, used>>

\* Mutant: a page that cannot connect does nothing else.
StartFailsSilently ==
  /\ link = "starting"
  /\ link' = "failed"
  /\ UNCHANGED <<server, view, join, inbox, timer, polls, shown, used>>

StartFails ==
  /\ link = "starting"
  /\ link' = "failed"
  /\ timer' = TRUE
  /\ UNCHANGED <<server, view, join, inbox, polls, shown, used>>

JoinSession ==
  /\ join = "sent"
  /\ join' = "member"
  /\ UNCHANGED <<server, view, link, inbox, timer, polls, shown, used>>

\* Membership and messages under way belong to the connection that is lost.
LinkDrops ==
  /\ link = "up"
  /\ Use("drops", MaxDrops)
  /\ link' = "down"
  /\ join' = "no"
  /\ inbox' = <<>>
  /\ UNCHANGED <<server, view, timer, polls, shown>>

\* The automatic reconnect opens a new connection and does not join again; it
\* gives up after four attempts.
Reconnect ==
  /\ link = "down"
  /\ link' \in {"up", "closed"}
  /\ UNCHANGED <<server, view, join, inbox, timer, polls, shown, used>>

-----------------------------------------------------------------------------
(* What the page displays.                                                 *)

ShowVerified == shown' = [shown EXCEPT !.result = TRUE, !.message = "none"]

ShowError(message) == shown' = [shown EXCEPT !.message = message, !.startOver = TRUE]


Receive ==
  /\ inbox # <<>>
  /\ inbox' = Tail(inbox)
  /\ IF Head(inbox) = "VerificationComplete"
       THEN timer' = FALSE /\ ShowVerified
       ELSE UNCHANGED timer /\ ShowError("Verification failed")
  /\ UNCHANGED <<server, view, link, join, polls, used>>

\* The interval fires, and the API answers with the row's status.
PollStatus(p) ==
  /\ timer
  /\ polls[p] = "idle"
  /\ polls' = [polls EXCEPT ![p] = status[session]]
  /\ UNCHANGED <<server, view, channel, timer, shown, used>>

PollAnswered(p) ==
  /\ polls[p] # "idle"
  /\ polls' = [polls EXCEPT ![p] = "idle"]
  /\ timer' = (timer /\ polls[p] = "pending")
  /\ CASE polls[p] = "pending"  -> UNCHANGED shown
       [] polls[p] = "verified" -> ShowVerified
       [] polls[p] = "failed"   -> ShowError("Session failed")
       [] polls[p] = "expired"  -> ShowError("Session expired")
  /\ UNCHANGED <<server, view, channel, used>>

\* A network error, or the rate limiter's 429, is ignored.
PollFails(p) ==
  /\ polls[p] # "idle"
  /\ polls' = [polls EXCEPT ![p] = "idle"]
  /\ UNCHANGED <<server, view, channel, timer, shown, used>>

\* Mutant: the end of the countdown is reported like a failed session.
CountdownEndsWithError ==
  /\ view = "pending"
  /\ ~shown.startOver
  /\ ShowError("Session expired")
  /\ UNCHANGED <<server, view, channel, timer, polls, used>>

\* The countdown runs on the page's own clock and only offers to start over.
CountdownEnds ==
  /\ view = "pending"
  /\ ~shown.startOver
  /\ shown' = [shown EXCEPT !.startOver = TRUE]
  /\ UNCHANGED <<server, view, channel, timer, polls, used>>

-----------------------------------------------------------------------------

Server ==
  /\ EvidenceComes
  /\ \/ UNCHANGED <<status, owed, inbox, used>>
     \/ \E s \in Sessions : Generate(s)
     \/ \E s \in Sessions, verdict \in Final \cup {"pending"} :
          \/ SaveSilently(s, verdict)
          \/ \E c \in Callbacks : CallbackSave(c, s, verdict)
     \/ \E c \in Callbacks : Push(c) \/ PushLost(c)

Page ==
  \/ OpenPending \/ OpenCreate \/ OpenResult
  \/ StartSucceeds \/ StartFails
  \/ JoinSession
  \/ LinkDrops \/ Reconnect
  \/ Receive
  \/ \E p \in Polls : PollStatus(p) \/ PollAnswered(p) \/ PollFails(p)
  \/ CountdownEnds

Next == Server \/ Page

Spec == Init /\ [][Next]_vars

\* Started connections and calls are answered, callbacks end, sent events arrive, the
\* interval fires, and not every poll fails.
Fairness ==
  /\ WF_vars(StartSucceeds \/ StartFails)
  /\ WF_vars(JoinSession)
  /\ WF_vars(Reconnect)
  /\ \A c \in Callbacks : WF_vars(EvidenceComes /\ (Push(c) \/ PushLost(c)))
  /\ WF_vars(Receive)
  /\ \A p \in Polls : WF_vars(PollStatus(p)) /\ SF_vars(PollAnswered(p))

FairSpec == Spec /\ Fairness

-----------------------------------------------------------------------------
(* Properties.                                                             *)

\* Whatever the page, or the result page, says happened did happen, however
\* late, out of date or out of order the news came (verification-pending.js
\* 39-46, 63-81; AgentPortal VerificationController 188-216).
ShownIsTrue ==
  /\ shown.result \/ view = "result" => session \in presented
  /\ shown.message = "Verification failed" => session \in refused
  /\ shown.message = "Session failed" => session \in refused \cup lockedOut
  /\ shown.message = "Session expired" => session \in late

\* As long as no final status has been written over, the page never shows the
\* verified result and an error together (verification-pending.js 83-112).
OneVerdictShown ==
  used["overwrites"] = 0 => ~(shown.result /\ shown.message # "none")

Told == shown.result \/ shown.message # "none"

\* A page that could not connect learns the outcome by polling, whatever polls
\* fail or are answered out of order (verification-pending.js 48-81).
PollingPageTold ==
  link = "failed" /\ status[session] \in Final
    ~> Told \/ link # "failed" \/ status[session] = "pending"


\* A pending page is told of a verification.  Does not hold: a page that is not
\* in the group when the event is sent -- it has not joined yet, or lost its
\* membership with its connection -- neither polls nor asks for the status.
VerifiedPageTold ==
  view = "pending" /\ status[session] = "verified"
    ~> shown.result \/ view # "pending" \/ status[session] # "verified"

=============================================================================
