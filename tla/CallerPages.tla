----------------------------- MODULE CallerPages -----------------------------
(***************************************************************************)
(* The caller's side: a browser with several tabs on the VerifyPortal.     *)
(* The portal posts the code to the API through an HTTP client that        *)
(* repeats a call that failed or was too slow, although initiating is not  *)
(* idempotent and the API does not notice that nobody waits any more.  It  *)
(* hands the QR code to the Present page in TempData, one cookie for all   *)
(* tabs.  The page polls the session's public status.                      *)
(***************************************************************************)
EXTENDS Naturals, Sequences

CONSTANTS
  Sessions,       \* the caller's sessions, all created and pending
  Tabs,
  Writers,        \* bound: other handlers and sweeps under way at once
  MaxCalls,       \* bound: calls of the API under way at once
  None,
  MaxRetries,     \* of the HTTP client, per submission
  MaxRequests,    \* bound: presentation requests
  MaxFaults,      \* bound: calls given up although under way, restarts of the API
  MaxPosts        \* bound: codes entered

ASSUME CallerAssumption ==
  /\ {MaxCalls, MaxRetries, MaxRequests, MaxFaults, MaxPosts} \subseteq Nat
  /\ None \notin Sessions \cup Nat

VARIABLES
  row,          \* a session's status and request id in the table
  copy,         \* the row another writer has read and will write back
  call,         \* calls of initiate: where they are, and their copies
  credential,   \* the API's certificate credential: one lazy load for all
  issued,       \* the session of each presentation request, in order of issue
  presented,    \* the requests a credential was presented to
  history,      \* outcomes each session has ever had
  tab,          \* what a tab shows, and what it waits for
  cookie,       \* TempData: the session and QR code of the last reply
  visited,      \* the sessions whose Present page this browser has the address of
  disturbed,    \* has a call been given up, lost, saved in doubt, or overlapped
  used          \* how much of each bound is used up

vars == <<row, copy, call, credential, issued, presented, history, tab, cookie, visited, disturbed, used>>
browser == <<tab, cookie, visited>>
api == <<row, copy, call, credential, issued, presented, history>>

Final == {"verified", "over"}   \* "over": failed or expired, which no page tells apart
Calls == 1 .. MaxCalls
Requests == 0 .. MaxRequests    \* 0: none
Answers == {"ok", "rejected", "error"}

Idle == [pc |-> "idle", session |-> None, request |-> 0, answer |-> "error"]
NoCopy == [session |-> None, status |-> "pending", request |-> 0]
Index == [view |-> "index", session |-> None, request |-> 0, waits |-> None,
          retries |-> 0, polling |-> FALSE, poll |-> "idle", alarm |-> FALSE]

TypeOK ==
  /\ row \in [Sessions -> [status : {"pending"} \cup Final, request : Requests]]
  /\ copy \in [Writers -> [session : Sessions \cup {None}, status : {"pending"} \cup Final,
                           request : Requests]]
  /\ call \in [Calls -> [pc : {"idle", "lookup", "request", "save", "reply"},
                         session : Sessions \cup {None}, request : Requests,
                         answer : Answers]]
  /\ credential \in {"unloaded", "loaded", "faulted"}
  /\ issued \in Seq(Sessions) /\ Len(issued) <= MaxRequests
  /\ presented \subseteq 1 .. Len(issued)
  /\ history \in [Sessions -> SUBSET Final]
  /\ tab \in [Tabs -> [view : {"index", "posting", "redirected", "present", "complete"},
                       session : Sessions \cup {None}, request : Requests,
                       waits : Calls \cup {None}, retries : 0 .. MaxRetries,
                       polling : BOOLEAN, poll : {"idle", "pending"} \cup Final,
                       alarm : BOOLEAN]]
  /\ visited \subseteq Sessions
  /\ cookie \in [session : Sessions \cup {None}, request : Requests]
  /\ disturbed \in BOOLEAN
  /\ used \in [{"faults", "posts"} -> Nat]

Init ==
  /\ row = [s \in Sessions |-> [status |-> "pending", request |-> 0]]
  /\ copy = [w \in Writers |-> NoCopy]
  /\ call = [c \in Calls |-> Idle]
  /\ credential = "unloaded"
  /\ issued = <<>>
  /\ presented = {}
  /\ history = [s \in Sessions |-> {}]
  /\ tab = [t \in Tabs |-> Index]
  /\ cookie = [session |-> None, request |-> 0]
  /\ visited = {}
  /\ disturbed = FALSE
  /\ used = [b \in {"faults", "posts"} |-> 0]

Use(bound, max) ==
  /\ used[bound] < max
  /\ used' = [used EXCEPT ![bound] = @ + 1]

-----------------------------------------------------------------------------
(* The API: initiate with the right code, callback, and the other writers. *)

\* A writer has a row of its own now, as it will write it.
Take(w, s, status, request) ==
  /\ copy[w].session = None
  /\ copy' = [copy EXCEPT ![w] = [session |-> s, status |-> status, request |-> request]]

InUse == {c \in Calls : call[c].pc # "idle"}

Awaited(c) == \E t \in Tabs : tab[t].waits = c

\* A reply needs somebody who waits for it.
AnswerWith(c, answer) ==
  call' = [call EXCEPT ![c] =
             IF Awaited(c)
             THEN [call[c] EXCEPT !.pc = "reply", !.answer = answer,
                                  !.request = IF answer = "ok" THEN @ ELSE 0]
             ELSE Idle]

\* A session that is not pending is refused; so is one whose time is over,
\* which may be so before its row says so.  The rate limiter refuses a call, and
\* the store may fail, with an answer that is worth a retry.
Lookup(c) ==
  /\ call[c].pc = "lookup"
  /\ \/ /\ row[call[c].session].status = "pending"
        /\ call' = [call EXCEPT ![c].pc = "request"]
     \/ AnswerWith(c, "rejected")
     \/ AnswerWith(c, "error")
  /\ UNCHANGED <<row, copy, credential, issued, presented, history, browser, disturbed, used>>

\* All calls share the one load of the certificate, and a failed one is kept.
LoadCredential ==
  /\ \E c \in Calls : call[c].pc = "request"
  /\ credential = "unloaded"
  /\ credential' \in {"loaded", "faulted"}
  /\ UNCHANGED <<row, copy, call, issued, presented, history, browser, disturbed, used>>

RequestIssued(c) ==
  /\ call[c].pc = "request"
  /\ credential = "loaded"
  /\ Len(issued) < MaxRequests
  /\ issued' = Append(issued, call[c].session)
  /\ call' = [call EXCEPT ![c].pc = "save", ![c].request = Len(issued) + 1]
  /\ UNCHANGED <<row, copy, credential, presented, history, browser, disturbed, used>>

RequestFails(c) ==
  /\ call[c].pc = "request"
  /\ credential # "unloaded"
  /\ AnswerWith(c, "error")
  /\ UNCHANGED <<row, copy, credential, issued, presented, history, browser, disturbed, used>>

\* Mutant: the reply is sent and the row is not saved.
SaveSkipped(c) ==
  /\ call[c].pc = "save"
  /\ AnswerWith(c, "ok")
  /\ UNCHANGED <<row, copy, credential, issued, presented, history, browser, disturbed, used>>

\* The copy that is saved was pending when it was read.
Save(c) ==
  /\ call[c].pc = "save"
  /\ AnswerWith(c, "ok")
  /\ row' = [row EXCEPT ![call[c].session] =
                          [status |-> "pending", request |-> call[c].request]]
  /\ UNCHANGED <<copy, credential, issued, presented, history, browser, disturbed, used>>

\* A failed save has written nothing, or is applied all the same: it is then one more
\* write under way that the call does not wait for.
SaveFails(c) ==
  /\ call[c].pc = "save"
  /\ AnswerWith(c, "error")
  /\ \/ UNCHANGED <<copy, disturbed>>
     \/ /\ \E w \in Writers : Take(w, call[c].session, "pending", call[c].request)
        /\ disturbed' = TRUE
  /\ UNCHANGED <<row, credential, issued, presented, history, browser, used>>

\* Calls and writers under way are lost, with or without their request and their row;
\* who waited for them gets an error.  The credential will be loaded anew.
Restart ==
  /\ Use("faults", MaxFaults)
  /\ call' = [c \in Calls |-> Idle]
  /\ copy' = [w \in Writers |-> NoCopy]
  /\ credential' = "unloaded"
  /\ tab' = [t \in Tabs |-> [tab[t] EXCEPT !.waits = None]]
  /\ disturbed' = (disturbed \/ InUse # {})
  /\ UNCHANGED <<row, issued, presented, history, cookie, visited>>

\* A handler or the sweep reads a pending row and decides what to write.
Reads(w, s, status) ==
  /\ row[s].status = "pending"
  /\ Take(w, s, status, row[s].request)
  /\ disturbed' = (disturbed \/ \E c \in InUse : call[c].session = s)
  /\ UNCHANGED <<row, call, credential, issued, presented, history, browser, used>>

\* Mutant: the request id is not compared.
CallbackAnyRequest(w, r) ==
  /\ r \in presented
  /\ Reads(w, issued[r], "verified")

\* The service reports a presentation; only the row's own request is accepted.
Callback(w, r) ==
  /\ r \in presented
  /\ row[issued[r]].request = r
  /\ Reads(w, issued[r], "verified")

\* The sweep, the lockout, a presentation that ended in an error; a wrong code that is
\* not the last one allowed leaves the row pending.
Settle(w, s) == \E status \in {"pending", "over"} : Reads(w, s, status)

\* The whole row is replaced, whatever it is by now.
Write(w) ==
  LET c == copy[w] IN
  /\ c.session # None
  /\ row' = [row EXCEPT ![c.session] = [status |-> c.status, request |-> c.request]]
  /\ history' = [history EXCEPT ![c.session] = @ \cup ({c.status} \cap Final)]
  /\ copy' = [copy EXCEPT ![w] = NoCopy]
  /\ UNCHANGED <<call, credential, issued, presented, browser, disturbed, used>>

\* The store fails, or the sweep ends early.
WriteFails(w) ==
  /\ copy[w].session # None
  /\ copy' = [copy EXCEPT ![w] = NoCopy]
  /\ UNCHANGED <<row, call, credential, issued, presented, history, browser, disturbed, used>>

-----------------------------------------------------------------------------
(* The portal: posting the code.                                           *)

\* The tab's next call, in the first free slot; page is the tab as it will be.
Post(t, c, page) ==
  /\ call[c].pc = "idle" /\ \A d \in 1 .. c - 1 : call[d].pc # "idle"
  /\ call' = [call EXCEPT ![c] = [Idle EXCEPT !.pc = "lookup", !.session = page.session]]
  /\ tab' = [tab EXCEPT ![t] = [page EXCEPT !.waits = c]]
  /\ disturbed' = (disturbed \/ InUse # {} \/ \E w \in Writers : copy[w].session = page.session)
  /\ UNCHANGED <<row, copy, credential, issued, presented, history, cookie, visited>>

EnterCode(t, s, c) ==
  /\ tab[t].view = "index"
  /\ Use("posts", MaxPosts)
  /\ Post(t, c, [Index EXCEPT !.view = "posting", !.session = s])

\* Mutant: no end to the retries.
RetryForEver(t, c) ==
  /\ tab[t].view = "posting"
  /\ tab[t].waits = None
  /\ Post(t, c, tab[t])
  /\ UNCHANGED used

\* Mutant: one retry too many.
RetryOnceMore(t, c) ==
  /\ tab[t].view = "posting"
  /\ tab[t].waits = None
  /\ tab[t].retries <= MaxRetries
  /\ Post(t, c, [tab[t] EXCEPT !.retries = @ + 1])
  /\ UNCHANGED used

Retry(t, c) ==
  /\ tab[t].view = "posting"
  /\ tab[t].waits = None
  /\ tab[t].retries < MaxRetries
  /\ Post(t, c, [tab[t] EXCEPT !.retries = @ + 1])
  /\ UNCHANGED used

\* The total timeout, an open circuit, or no retry left: the caller is asked to
\* try again.
GiveUp(t) ==
  /\ tab[t].view = "posting"
  /\ tab[t].waits = None
  /\ tab' = [tab EXCEPT ![t] = Index]
  /\ UNCHANGED <<api, cookie, visited, disturbed, used>>

\* The call is given up, and goes on in the API; its reply is lost.
TimesOut(t) ==
  /\ tab[t].waits # None
  /\ Use("faults", MaxFaults)
  /\ tab' = [tab EXCEPT ![t].waits = None]
  /\ call' = [c \in Calls |->
                IF c = tab[t].waits /\ call[c].pc = "reply" THEN Idle ELSE call[c]]
  /\ disturbed' = TRUE
  /\ UNCHANGED <<row, copy, credential, issued, presented, history, cookie, visited>>

\* The QR code goes into TempData, a rejection back
\* to the form, and an error to the retries.
Reply(t, c) ==
  /\ call[c].pc = "reply"
  /\ tab[t].waits = c
  /\ call' = [call EXCEPT ![c] = Idle]
  /\ CASE call[c].answer = "ok" ->
            /\ cookie' = [session |-> call[c].session, request |-> call[c].request]
            /\ visited' = visited \cup {call[c].session}
            /\ tab' = [tab EXCEPT ![t].view = "redirected", ![t].waits = None]
       [] call[c].answer = "rejected" ->
            /\ tab' = [tab EXCEPT ![t] = Index]
            /\ UNCHANGED <<cookie, visited>>
       [] call[c].answer = "error" ->
            /\ tab' = [tab EXCEPT ![t].waits = None]
            /\ UNCHANGED <<cookie, visited>>
  /\ UNCHANGED <<row, copy, credential, issued, presented, history, disturbed, used>>

-----------------------------------------------------------------------------
(* The Present page.                                                       *)

\* After the redirect, by a reload or from the browser's history: the session
\* comes from the URL, the QR code from TempData.  A page loaded when its time
\* is over does not poll.
OpenPresent(t, s) ==
  /\ tab[t].view # "posting"
  /\ s \in IF tab[t].view = "redirected" THEN {tab[t].session} ELSE visited
  /\ \E polling \in BOOLEAN :
       tab' = [tab EXCEPT ![t] = [Index EXCEPT !.view = "present",
                                               !.session = s,
                                               !.request = cookie.request,
                                               !.polling = polling]]
  /\ UNCHANGED <<api, cookie, visited, disturbed, used>>

Scan(t) ==
  /\ tab[t].view = "present"
  /\ tab[t].request # 0
  /\ presented' = presented \cup {tab[t].request}
  /\ UNCHANGED <<row, copy, call, credential, issued, history, browser, disturbed, used>>

PollStatus(t) ==
  /\ tab[t].polling
  /\ tab[t].poll = "idle"
  /\ tab' = [tab EXCEPT ![t].poll = row[tab[t].session].status]
  /\ UNCHANGED <<api, cookie, visited, disturbed, used>>

\* Mutant: whatever is not pending counts as done.
PollAnsweredDone(t) ==
  /\ tab[t].poll # "idle"
  /\ tab' = [tab EXCEPT
       ![t].poll = "idle",
       ![t].polling = @ /\ tab[t].poll = "pending",
       ![t].view = IF tab[t].poll # "pending" THEN "complete" ELSE @]
  /\ UNCHANGED <<api, cookie, visited, disturbed, used>>

\* Mutant: the interval is cleared for a verified session only.
PollAnsweredKeepsPolling(t) ==
  /\ tab[t].poll # "idle"
  /\ tab' = [tab EXCEPT
       ![t].poll = "idle",
       ![t].polling = @ /\ tab[t].poll # "verified",
       ![t].view = IF tab[t].poll = "verified" THEN "complete" ELSE @,
       ![t].alarm = @ \/ tab[t].poll = "over"]
  /\ UNCHANGED <<api, cookie, visited, disturbed, used>>

PollAnswered(t) ==
  /\ tab[t].poll # "idle"
  /\ tab' = [tab EXCEPT
       ![t].poll = "idle",
       ![t].polling = @ /\ tab[t].poll = "pending",
       ![t].view = IF tab[t].poll = "verified" THEN "complete" ELSE @,
       ![t].alarm = @ \/ tab[t].poll = "over"]
  /\ UNCHANGED <<api, cookie, visited, disturbed, used>>

PollFails(t) ==
  /\ tab[t].poll # "idle"
  /\ tab' = [tab EXCEPT ![t].poll = "idle"]
  /\ UNCHANGED <<api, cookie, visited, disturbed, used>>

\* A poll under way when the countdown ends is still answered.
CountdownEnds(t) ==
  /\ tab[t].view = "present"
  /\ tab[t].polling
  /\ tab' = [tab EXCEPT ![t].polling = FALSE]
  /\ UNCHANGED <<api, cookie, visited, disturbed, used>>

StartOver(t) ==
  /\ tab[t].view \in {"present", "complete"}
  /\ tab' = [tab EXCEPT ![t] = Index]
  /\ UNCHANGED <<api, cookie, visited, disturbed, used>>

-----------------------------------------------------------------------------

Proceed(c) == Lookup(c) \/ RequestIssued(c) \/ RequestFails(c) \/ Save(c)
                \/ SaveFails(c) \/ \E t \in Tabs : Reply(t, c)

Next ==
  \/ LoadCredential \/ Restart
  \/ \E c \in Calls : Proceed(c)
  \/ \E w \in Writers : \/ \E r \in 1 .. Len(issued) : Callback(w, r)
                        \/ \E s \in Sessions : Settle(w, s)
                        \/ Write(w) \/ WriteFails(w)
  \/ \E s \in Sessions, t \in Tabs : OpenPresent(t, s)
  \/ \E t \in Tabs, c \in Calls : Retry(t, c) \/ \E s \in Sessions : EnterCode(t, s, c)
  \/ \E t \in Tabs : GiveUp(t) \/ TimesOut(t) \/ Scan(t)
                       \/ PollStatus(t) \/ PollAnswered(t) \/ PollFails(t)
                       \/ CountdownEnds(t) \/ StartOver(t)

Spec == Init /\ [][Next]_vars

\* Calls of the API end, so does the HTTP client's total timeout; the interval
\* fires, and not every poll fails.
Fairness ==
  /\ WF_vars(LoadCredential)
  /\ \A c \in Calls : WF_vars(Proceed(c))
  /\ \A t \in Tabs : /\ WF_vars(GiveUp(t) \/ \E c \in Calls : Retry(t, c))
                     /\ WF_vars(PollStatus(t))
                     /\ SF_vars(PollAnswered(t))

FairSpec == Spec /\ Fairness

-----------------------------------------------------------------------------
(* Properties.                                                             *)

\* "Verified" and "expired or failed" are only shown of sessions that were,
\* however old the answer (present.js 21-37).
CallerShownTrue ==
  \A t \in Tabs :
    /\ tab[t].view = "complete" => "verified" \in history[tab[t].session]
    /\ tab[t].alarm => "over" \in history[tab[t].session]

\* Unless a call was given up or lost, or its save failed in doubt, or it ran beside
\* another call or a writer of its session's row, the QR code the portal hands out is
\* the one whose presentation the API will accept: calls that only fail, are refused
\* or repeated one after the other, and writers before and after them, leave it so
\* (Index.cshtml.cs 47-70, VerificationController 146-180, AzureTableSessionStore 90-94).
GivenRequestIsCurrent ==
  ~disturbed /\ InUse = {} /\ cookie.request # 0
    => row[cookie.session].request = cookie.request

\* A session is only ever verified through a QR code this browser displayed, issued
\* for that session (CallbackController 78-102).
VerifiedThroughOwnRequest ==
  \A s \in Sessions :
    row[s].status = "verified" =>
      row[s].request \in presented /\ issued[row[s].request] = s

\* Posting a code comes to an end, whatever fails or is too slow.
PostingEnds == \A t \in Tabs : tab[t].view = "posting" ~> tab[t].view # "posting"

\* A page whose session is settled while it polls does not poll for ever: it
\* reports an outcome, or its time is over (present.js 7-37).
Settled == {s \in Sessions : row[s].status \in Final}

PresentPageSettles ==
  \A t \in Tabs :
    tab[t].polling /\ tab[t].session \in Settled
      ~> ~tab[t].polling \/ tab[t].session \notin Settled

=============================================================================
