-------------------------- MODULE CallerPages_proofs --------------------------
(***************************************************************************)
(* Theorems about CallerPages, for any number of tabs, calls, retries,     *)
(* presentation requests, codes entered, restarts and other writers.       *)
(*                                                                         *)
(* What is displayed comes from an answer read earlier, and what a row is  *)
(* verified by from a request a call has carried since it was issued, so   *)
(* IInv asks the same of every copy on its way: rows about to be written,  *)
(* calls, cookie, tabs, polls.  That the QR code handed out is the current *)
(* one needs the order of calls and writers as well: while nothing is      *)
(* disturbed there is one call at a time, a tab that waits for it, and no  *)
(* writer that has its session's row, so every copy has the row's request. *)
(***************************************************************************)
EXTENDS CallerPages, TLAPS

\* The request, if there is one, was issued for the session.
IssuedFor(r, s) == r # 0 => r \in 1 .. Len(issued) /\ issued[r] = s

CallSound(c) ==
  /\ call[c].pc # "idle" => call[c].session \in Sessions
  /\ IssuedFor(call[c].request, call[c].session)

\* A row's status has happened, and through its own request.
RowSound(s) ==
  /\ IssuedFor(row[s].request, s)
  /\ row[s].status \in Final => row[s].status \in history[s]
  /\ row[s].status = "verified" => row[s].request \in presented

\* What a writer will write is as sound as a row.
CopySound(w) ==
  copy[w].session # None =>
    /\ IssuedFor(copy[w].request, copy[w].session)
    /\ copy[w].status = "verified" => copy[w].request \in presented

\* A page is of a session unless it is blank, and displays what has happened.
PageSound(page) ==
  /\ page.view # "index" \/ page.polling \/ page.poll \in Final \/ page.alarm
       => page.session \in Sessions
  /\ page.waits # None => page.view = "posting"
  /\ page.view = "posting" => ~page.polling /\ page.poll = "idle"
  /\ page.request \in 0 .. Len(issued)
  /\ page.poll \in Final => page.poll \in history[page.session]
  /\ page.view = "complete" => "verified" \in history[page.session]
  /\ page.alarm => "over" \in history[page.session]

CallsSound == \A c \in Calls : CallSound(c)
CopiesSound == \A w \in Writers : CopySound(w)
RowsSound == \A s \in Sessions : RowSound(s)
PagesSound == \A t \in Tabs : PageSound(tab[t])
CookieSound == IssuedFor(cookie.request, cookie.session)

\* A tab waits for a call under way, and no two wait for the same.
WaitsApart ==
  /\ \A t \in Tabs : tab[t].waits # None => tab[t].waits \in InUse
  /\ \A t, u \in Tabs : tab[t].waits # None /\ tab[t].waits = tab[u].waits => t = u

AnsweredOk(c) == call[c].pc = "reply" /\ call[c].answer = "ok"

\* Undisturbed, calls follow one another, each until its tab has the answer, and
\* the browser has the row's request or is about to get it.
OneCallAtATime ==
  ~disturbed =>
    /\ \A c, d \in InUse : c = d
    /\ \A c \in InUse : \E t \in Tabs : tab[t].waits = c

RowFollowed ==
  ~disturbed =>
    /\ \A c \in Calls : AnsweredOk(c) => row[call[c].session].request = call[c].request
    /\ cookie.request # 0 =>
         \/ row[cookie.session].request = cookie.request
         \/ \E c \in Calls : AnsweredOk(c)

\* Undisturbed, what will be written has the row's request, and no call is about to
\* replace it.
CopiesCurrent ==
  ~disturbed =>
    \A w \in Writers : copy[w].session # None =>
      /\ copy[w].request = row[copy[w].session].request
      /\ \A c \in InUse : call[c].session # copy[w].session

IInv ==
  /\ TypeOK
  /\ CallsSound
  /\ CopiesSound
  /\ RowsSound
  /\ PagesSound
  /\ CookieSound
  /\ WaitsApart
  /\ OneCallAtATime
  /\ CopiesCurrent
  /\ RowFollowed

-----------------------------------------------------------------------------
(* Types.                                                                  *)

RowType == [status : {"pending"} \cup Final, request : Requests]

CopyType == [session : Sessions \cup {None}, status : {"pending"} \cup Final,
             request : Requests]

CallType == [pc : {"idle", "lookup", "request", "save", "reply"},
             session : Sessions \cup {None}, request : Requests, answer : Answers]

TabType == [view : {"index", "posting", "redirected", "present", "complete"},
            session : Sessions \cup {None}, request : Requests,
            waits : Calls \cup {None}, retries : 0 .. MaxRetries,
            polling : BOOLEAN, poll : {"idle", "pending"} \cup Final,
            alarm : BOOLEAN]

LEMMA RecordsTyped ==
  TypeOK => /\ call \in [Calls -> CallType] /\ tab \in [Tabs -> TabType]
            /\ row \in [Sessions -> RowType] /\ copy \in [Writers -> CopyType]
BY DEF TypeOK, CallType, TabType, RowType, CopyType

LEMMA EmptyTyped == Idle \in CallType /\ Index \in TabType /\ NoCopy \in CopyType
BY CallerAssumption
   DEF Idle, Index, NoCopy, CallType, TabType, CopyType, Requests, Answers, Final

\* None is neither a session nor a call.
LEMMA NoneApart == None \notin Sessions /\ None \notin Calls
BY CallerAssumption DEF Calls

\* Using up a bound leaves the counters natural numbers.
LEMMA UseTyped ==
  ASSUME TypeOK, NEW bound \in {"faults", "posts"}, NEW max, Use(bound, max)
  PROVE  used' \in [{"faults", "posts"} -> Nat]
BY DEF TypeOK, Use

LEMMA NoRequest == 0 \in Requests
BY CallerAssumption DEF Requests

\* An answered call differs in point, answer and request, if anybody waits for it.
LEMMA Answered ==
  ASSUME TypeOK, NEW c \in Calls, NEW answer \in Answers, AnswerWith(c, answer)
  PROVE  /\ call' \in [Calls -> CallType]
         /\ \A d \in Calls \ {c} : call'[d] = call[d]
         /\ ~Awaited(c) => call'[c] = Idle
         /\ Awaited(c) =>
              /\ call'[c].pc = "reply"
              /\ call'[c].answer = answer
              /\ call'[c].session = call[c].session
              /\ call'[c].request = IF answer = "ok" THEN call[c].request ELSE 0
<1>1. call[c] \in CallType /\ call \in [Calls -> CallType]
  BY RecordsTyped
<1>2. CASE Awaited(c)
  <2>1. call'[c] = [call[c] EXCEPT !.pc = "reply", !.answer = answer,
                                   !.request = IF answer = "ok" THEN @ ELSE 0]
    BY <1>1, <1>2 DEF AnswerWith
  <2>2. call'[c] \in CallType
    BY <1>1, <2>1, NoRequest DEF CallType
  <2> QED BY <1>1, <1>2, <2>1, <2>2 DEF AnswerWith, CallType
<1>3. CASE ~Awaited(c)
  <2>1. call' = [call EXCEPT ![c] = Idle]
    BY <1>3 DEF AnswerWith
  <2> QED BY <1>1, <1>3, <2>1, EmptyTyped
<1> QED BY <1>2, <1>3

\* A tab whose poll was answered differs in what the answer changes.
LEMMA PollShown ==
  ASSUME TypeOK, NEW t \in Tabs, PollAnswered(t)
  PROVE  /\ tab' \in [Tabs -> TabType]
         /\ tab'[t].view = IF tab[t].poll = "verified" THEN "complete" ELSE tab[t].view
         /\ tab'[t].alarm = (tab[t].alarm \/ tab[t].poll = "over")
         /\ tab'[t].polling = (tab[t].polling /\ tab[t].poll = "pending")
         /\ tab'[t].poll = "idle"
         /\ tab'[t].session = tab[t].session
         /\ tab'[t].request = tab[t].request
         /\ tab'[t].waits = tab[t].waits
         /\ \A u \in Tabs \ {t} : tab'[u] = tab[u]
<1>1. tab \in [Tabs -> TabType]
  BY RecordsTyped
<1>2. tab'[t] = [tab[t] EXCEPT
                   !.poll = "idle",
                   !.polling = @ /\ tab[t].poll = "pending",
                   !.view = IF tab[t].poll = "verified" THEN "complete" ELSE @,
                   !.alarm = @ \/ tab[t].poll = "over"]
  BY <1>1 DEF PollAnswered, TabType
<1>3. /\ tab'[t].polling = (tab[t].polling /\ tab[t].poll = "pending")
      /\ tab'[t].alarm = (tab[t].alarm \/ tab[t].poll = "over")
  BY <1>1, <1>2 DEF TabType
<1>4. tab'[t].polling \in BOOLEAN /\ tab'[t].alarm \in BOOLEAN
  BY Zenon, <1>3
<1>5. tab'[t] \in TabType
  BY <1>1, <1>2, <1>4 DEF TabType
<1> QED BY <1>1, <1>2, <1>3, <1>5 DEF PollAnswered, TabType

\* A tab that is sent to the Present page.
LEMMA RedirectedPage ==
  ASSUME tab \in [Tabs -> TabType], NEW t \in Tabs,
         tab' = [tab EXCEPT ![t].view = "redirected", ![t].waits = None]
  PROVE  /\ tab' \in [Tabs -> TabType]
         /\ tab'[t].view = "redirected"
         /\ tab'[t].waits = None
         /\ tab'[t].session = tab[t].session
         /\ tab'[t].request = tab[t].request
         /\ tab'[t].polling = tab[t].polling
         /\ tab'[t].poll = tab[t].poll
         /\ tab'[t].alarm = tab[t].alarm
         /\ \A u \in Tabs \ {t} : tab'[u] = tab[u]
<1>1. tab'[t] = [tab[t] EXCEPT !.view = "redirected", !.waits = None]
  BY DEF TabType
<1>2. tab'[t] \in TabType
  BY <1>1 DEF TabType
<1> QED BY <1>1, <1>2 DEF TabType

\* A tab that no longer waits.
LEMMA PageTyped ==
  ASSUME NEW page \in TabType
  PROVE  [page EXCEPT !.waits = None] \in TabType
BY DEF TabType

\* A writer's row.
LEMMA TakeTyped ==
  ASSUME TypeOK, NEW w \in Writers, NEW s \in Sessions, NEW status \in {"pending"} \cup Final,
         NEW request \in Requests, Take(w, s, status, request)
  PROVE  copy' \in [Writers -> CopyType]
<1>1. [session |-> s, status |-> status, request |-> request] \in CopyType
  BY DEF CopyType
<1> QED BY <1>1, RecordsTyped DEF Take

\* A post keeps the types of calls and tabs.
LEMMA PostTyped ==
  ASSUME TypeOK, NEW t \in Tabs, NEW c \in Calls, NEW page \in TabType,
         Post(t, c, page), used' \in [{"faults", "posts"} -> Nat]
  PROVE  TypeOK'
<1>1. call' \in [Calls -> CallType]
  <2>1. [Idle EXCEPT !.pc = "lookup", !.session = page.session] \in CallType
    BY EmptyTyped DEF CallType, TabType
  <2> QED BY <2>1, RecordsTyped DEF Post
<1>2. tab' \in [Tabs -> TabType]
  BY RecordsTyped DEF Post, TabType
<1>3. disturbed' \in BOOLEAN
  BY DEF Post
<1> QED BY <1>1, <1>2, <1>3 DEF Post, TypeOK, CallType, TabType

\* A step that changes nothing but tabs and counters.
LEMMA TabsTyped ==
  ASSUME TypeOK, tab' \in [Tabs -> TabType],
         used' \in [{"faults", "posts"} -> Nat], disturbed' \in BOOLEAN,
         UNCHANGED <<api, cookie, visited>>
  PROVE  TypeOK'
BY DEF TypeOK, TabType, api

\* A step of the API, that leaves the browser alone.
LEMMA CallsTyped ==
  ASSUME TypeOK, call' \in [Calls -> CallType], copy' \in [Writers -> CopyType],
         UNCHANGED <<row, issued, presented, history, browser, used>>,
         disturbed' \in BOOLEAN, credential' \in {"unloaded", "loaded", "faulted"}
  PROVE  TypeOK'
BY DEF TypeOK, CallType, CopyType, browser

\* A row that is written back.
LEMMA WriteTyped ==
  ASSUME TypeOK, NEW w \in Writers, Write(w)
  PROVE  TypeOK'
<1>1. /\ row \in [Sessions -> RowType] /\ copy \in [Writers -> CopyType]
      /\ copy[w] \in CopyType /\ copy[w].session # None
  BY RecordsTyped DEF Write
<1>2. copy[w].session \in Sessions
  BY <1>1 DEF CopyType
<1>3. [status |-> copy[w].status, request |-> copy[w].request] \in RowType
  BY <1>1 DEF CopyType, RowType
<1>4. row' \in [Sessions -> RowType]
  BY <1>1, <1>2, <1>3 DEF Write
<1>5. history' \in [Sessions -> SUBSET Final]
  BY <1>2 DEF TypeOK, Write
<1>6. copy' \in [Writers -> CopyType]
  BY <1>1, EmptyTyped DEF Write
<1> QED BY <1>4, <1>5, <1>6 DEF TypeOK, RowType, CopyType, Write, browser

LEMMA StepTypeOK ==
  ASSUME IInv, [Next]_vars
  PROVE  TypeOK'
<1> USE DEF IInv
<1>0. /\ TypeOK /\ call \in [Calls -> CallType] /\ tab \in [Tabs -> TabType]
      /\ credential \in {"unloaded", "loaded", "faulted"}
      /\ used \in [{"faults", "posts"} -> Nat] /\ disturbed \in BOOLEAN
      /\ cookie.request \in Requests /\ copy \in [Writers -> CopyType]
  BY RecordsTyped DEF TypeOK
<1>1. ASSUME NEW c \in Calls, Lookup(c)
      PROVE  TypeOK'
  <2>1. call' \in [Calls -> CallType]
    BY <1>0, <1>1, Answered DEF Lookup, Answers, CallType
  <2> QED BY <1>0, <1>1, <2>1, CallsTyped DEF Lookup
<1>2. CASE LoadCredential
  BY <1>0, <1>2, CallsTyped DEF LoadCredential
<1>3. ASSUME NEW c \in Calls, RequestIssued(c)
      PROVE  TypeOK'
  <2>1. call[c].session \in Sessions
    BY <1>3 DEF RequestIssued, CallsSound, CallSound
  <2>2. /\ issued' \in Seq(Sessions) /\ Len(issued') = Len(issued) + 1
        /\ Len(issued) \in Nat /\ Len(issued') <= MaxRequests
    BY <1>0, <1>3, <2>1, CallerAssumption DEF RequestIssued, TypeOK
  <2>3. call' \in [Calls -> CallType]
    <3>1. Len(issued) + 1 \in Requests
      BY <2>2, CallerAssumption DEF Requests
    <3>2. call'[c] = [call[c] EXCEPT !.pc = "save", !.request = Len(issued) + 1]
      BY <1>0, <1>3 DEF RequestIssued, CallType
    <3>3. call'[c] \in CallType
      BY <1>0, <3>1, <3>2 DEF CallType
    <3> QED BY <1>0, <1>3, <3>3 DEF RequestIssued
  <2>4. presented' \subseteq 1 .. Len(issued')
    BY <1>0, <1>3, <2>2 DEF RequestIssued, TypeOK
  <2> QED BY <1>0, <1>3, <2>2, <2>3, <2>4 DEF RequestIssued, TypeOK, CallType, browser
<1>4. ASSUME NEW c \in Calls, RequestFails(c) \/ SaveFails(c)
      PROVE  TypeOK'
  <2>1. call' \in [Calls -> CallType]
    BY <1>0, <1>4, Answered DEF RequestFails, SaveFails, Answers
  <2>2. call[c].session \in Sessions /\ call[c].request \in Requests
    BY <1>0, <1>4 DEF RequestFails, SaveFails, CallsSound, CallSound, CallType
  <2>3. copy' \in [Writers -> CopyType] /\ disturbed' \in BOOLEAN
    BY <1>0, <1>4, <2>2, TakeTyped DEF RequestFails, SaveFails
  <2> QED BY <1>0, <1>4, <2>1, <2>3, CallsTyped DEF RequestFails, SaveFails
<1>5. ASSUME NEW c \in Calls, Save(c)
      PROVE  TypeOK'
  <2>1. call' \in [Calls -> CallType]
    BY <1>0, <1>5, Answered DEF Save, Answers
  <2>2. row' \in [Sessions -> [status : {"pending"} \cup Final, request : Requests]]
    BY <1>0, <1>5 DEF Save, TypeOK, CallType
  <2> QED BY <1>0, <1>5, <2>1, <2>2 DEF Save, TypeOK, CallType, browser
<1>6. CASE Restart
  <2>1. call' \in [Calls -> CallType]
    BY <1>6, EmptyTyped DEF Restart
  <2>2. tab' \in [Tabs -> TabType]
    BY <1>0, <1>6, PageTyped DEF Restart
  <2>3. used' \in [{"faults", "posts"} -> Nat] /\ disturbed' \in BOOLEAN
    BY <1>0, <1>6, UseTyped DEF Restart
  <2>4. copy' \in [Writers -> CopyType]
    BY <1>6, EmptyTyped DEF Restart
  <2> QED BY <1>0, <1>6, <2>1, <2>2, <2>3, <2>4 DEF Restart, TypeOK, CallType, CopyType, TabType
<1>7. ASSUME NEW w \in Writers, NEW s \in Sessions, NEW status \in {"pending"} \cup Final,
             Reads(w, s, status)
      PROVE  TypeOK'
  <2>1. row[s].request \in Requests
    BY <1>0 DEF TypeOK
  <2>2. copy' \in [Writers -> CopyType] /\ disturbed' \in BOOLEAN
    BY <1>0, <1>7, <2>1, TakeTyped DEF Reads
  <2> QED BY <1>0, <1>7, <2>2, CallsTyped DEF Reads
<1>8. ASSUME NEW w \in Writers,
             \/ \E r \in 1 .. Len(issued) : Callback(w, r)
             \/ \E s \in Sessions : Settle(w, s)
             \/ Write(w) \/ WriteFails(w)
      PROVE  TypeOK'
  <2>1. CASE \E r \in 1 .. Len(issued) : Callback(w, r)
    BY <1>0, <1>7, <2>1 DEF Callback, Final, TypeOK
  <2>2. CASE \E s \in Sessions : Settle(w, s)
    BY <1>7, <2>2 DEF Settle, Final
  <2>3. CASE WriteFails(w)
    <3>1. copy' \in [Writers -> CopyType]
      BY <1>0, <2>3, EmptyTyped DEF WriteFails
    <3> QED BY <1>0, <2>3, <3>1, CallsTyped DEF WriteFails
  <2> QED BY <1>0, <1>8, <2>1, <2>2, <2>3, WriteTyped
<1>9. ASSUME NEW t \in Tabs, NEW s \in Sessions, NEW c \in Calls, EnterCode(t, s, c)
      PROVE  TypeOK'
  <2>1. [Index EXCEPT !.view = "posting", !.session = s] \in TabType
    BY EmptyTyped DEF TabType
  <2>2. used' \in [{"faults", "posts"} -> Nat]
    BY <1>0, <1>9, UseTyped DEF EnterCode
  <2> QED BY <1>0, <1>9, <2>1, <2>2, PostTyped DEF EnterCode
<1>10. ASSUME NEW t \in Tabs, NEW c \in Calls, Retry(t, c)
       PROVE  TypeOK'
  <2>1. [tab[t] EXCEPT !.retries = @ + 1] \in TabType
    BY <1>0, <1>10, CallerAssumption DEF Retry, TabType
  <2> QED BY <1>0, <1>10, <2>1, PostTyped DEF Retry
<1>11. ASSUME NEW t \in Tabs, NEW c \in Calls, Reply(t, c)
       PROVE  TypeOK'
  <2>1. /\ call' \in [Calls -> CallType]
        /\ call[c].session \in Sessions /\ call[c].request \in Requests
        /\ call[c].answer \in Answers
    BY <1>0, <1>11, EmptyTyped DEF Reply, CallsSound, CallSound, CallType
  <2>2. CASE call[c].answer = "ok"
    <3>1. tab' = [tab EXCEPT ![t].view = "redirected", ![t].waits = None]
      BY <1>11, <2>2 DEF Reply
    <3>2. tab' \in [Tabs -> TabType]
      BY <1>0, <3>1, RedirectedPage
    <3>3. /\ cookie' = [session |-> call[c].session, request |-> call[c].request]
          /\ visited' = visited \cup {call[c].session}
      BY <1>11, <2>2 DEF Reply
    <3> QED BY <1>0, <1>11, <2>1, <3>2, <3>3 DEF Reply, TypeOK, CallType, TabType
  <2>3. CASE call[c].answer \in {"rejected", "error"}
    <3>1. tab' \in [Tabs -> TabType] /\ UNCHANGED <<cookie, visited>>
      <4>1. UNCHANGED <<cookie, visited>>
              /\ tab' \in {[tab EXCEPT ![t] = Index],
                           [tab EXCEPT ![t] = [tab[t] EXCEPT !.waits = None]]}
        BY <1>0, <1>11, <2>3 DEF Reply
      <4> QED BY <1>0, <4>1, EmptyTyped, PageTyped
    <3> QED BY <1>0, <1>11, <2>1, <3>1 DEF Reply, TypeOK, CallType, TabType
  <2> QED BY <2>1, <2>2, <2>3 DEF Answers
<1>12. ASSUME NEW t \in Tabs, GiveUp(t) \/ StartOver(t)
       PROVE  TypeOK'
  BY <1>0, <1>12, EmptyTyped, TabsTyped DEF GiveUp, StartOver
<1>13. ASSUME NEW t \in Tabs, TimesOut(t)
       PROVE  TypeOK'
  <2>1. tab' \in [Tabs -> TabType]
    BY <1>0, <1>13 DEF TimesOut, TabType
  <2>2. call' \in [Calls -> CallType]
    BY <1>0, <1>13, EmptyTyped DEF TimesOut
  <2>3. used' \in [{"faults", "posts"} -> Nat] /\ disturbed' \in BOOLEAN
    BY <1>0, <1>13, UseTyped DEF TimesOut
  <2> QED BY <1>0, <1>13, <2>1, <2>2, <2>3 DEF TimesOut, TypeOK, CallType, TabType
<1>14. ASSUME NEW t \in Tabs, NEW s \in Sessions, OpenPresent(t, s)
       PROVE  TypeOK'
  <2>1. tab' \in [Tabs -> TabType]
    <3>1. PICK polling \in BOOLEAN :
             tab' = [tab EXCEPT ![t] = [Index EXCEPT !.view = "present", !.session = s,
                                                     !.request = cookie.request,
                                                     !.polling = polling]]
      BY <1>14 DEF OpenPresent
    <3>2. [Index EXCEPT !.view = "present", !.session = s, !.request = cookie.request,
                        !.polling = polling] \in TabType
      BY <1>0, EmptyTyped DEF TabType
    <3> QED BY <1>0, <3>1, <3>2
  <2> QED BY <1>0, <1>14, <2>1, TabsTyped DEF OpenPresent
<1>15. ASSUME NEW t \in Tabs, Scan(t)
       PROVE  TypeOK'
  <2>1. tab[t].request \in 1 .. Len(issued)
    BY <1>0, <1>15 DEF Scan, PagesSound, PageSound, TypeOK
  <2> QED BY <1>0, <1>15, <2>1 DEF Scan, TypeOK, browser
<1>16. ASSUME NEW t \in Tabs, PollStatus(t)
       PROVE  TypeOK'
  <2>1. row[tab[t].session].status \in {"pending"} \cup Final
    BY <1>0, <1>16 DEF PollStatus, PagesSound, PageSound, TypeOK
  <2>2. tab' \in [Tabs -> TabType]
    BY <1>0, <1>16, <2>1 DEF PollStatus, TabType
  <2> QED BY <1>0, <1>16, <2>2, TabsTyped DEF PollStatus
<1>17. ASSUME NEW t \in Tabs, PollAnswered(t)
       PROVE  TypeOK'
  BY <1>0, <1>17, PollShown, TabsTyped DEF PollAnswered
<1>18. ASSUME NEW t \in Tabs, PollFails(t) \/ CountdownEnds(t)
       PROVE  TypeOK'
  <2>1. PollFails(t) => tab' \in [Tabs -> TabType]
    BY <1>0 DEF PollFails, TabType
  <2>2. CountdownEnds(t) => tab' \in [Tabs -> TabType]
    <3>1. [tab[t] EXCEPT !.polling = FALSE] \in TabType
      BY <1>0 DEF TabType
    <3>2. CountdownEnds(t) => tab' = [tab EXCEPT ![t].polling = FALSE]
      BY DEF CountdownEnds
    <3> QED BY <1>0, <3>1, <3>2
  <2>3. tab' \in [Tabs -> TabType]
    BY <1>18, <2>1, <2>2
  <2> QED BY <1>0, <1>18, <2>3, TabsTyped DEF PollFails, CountdownEnds
<1>19. CASE UNCHANGED vars
  BY <1>0, <1>19 DEF vars, TypeOK
<1> QED
  BY <1>1, <1>2, <1>3, <1>4, <1>5, <1>6, <1>7, <1>8, <1>9, <1>10, <1>11,
     <1>12, <1>13, <1>14, <1>15, <1>16, <1>17, <1>18, <1>19
     DEF Next, Proceed

-----------------------------------------------------------------------------
(* What is said of a session, a request or a page stays true.              *)

Grows ==
  /\ Len(issued) <= Len(issued')
  /\ \A r \in 1 .. Len(issued) : issued'[r] = issued[r]
  /\ \A s \in Sessions : history[s] \subseteq history'[s]
  /\ presented \subseteq presented'

\* Requests are added, outcomes and presentations never forgotten.
LEMMA StepGrows ==
  ASSUME TypeOK, CallsSound, [Next]_vars
  PROVE  Grows
<1>0. issued \in Seq(Sessions) /\ Len(issued) \in Nat /\ history \in [Sessions -> SUBSET Final]
  BY DEF TypeOK
<1>1. ASSUME UNCHANGED <<issued, history>>, presented \subseteq presented'
      PROVE  Grows
  BY <1>0, <1>1 DEF Grows
<1>2. ASSUME NEW c \in Calls, RequestIssued(c)
      PROVE  Grows
  <2>1. call[c].session \in Sessions
    BY <1>2 DEF RequestIssued, CallsSound, CallSound
  <2> QED BY <1>0, <1>2, <2>1 DEF RequestIssued, Grows
<1>3. ASSUME NEW w \in Writers, Write(w)
      PROVE  Grows
  <2>1. copy[w].session \in Sessions
    BY <1>3, RecordsTyped DEF Write, CopyType
  <2> QED BY <1>0, <1>3, <2>1 DEF Write, Grows
<1>4. \A w \in Writers :
        /\ \A r \in 1 .. Len(issued) : Callback(w, r) => UNCHANGED <<issued, history, presented>>
        /\ \A s \in Sessions : Settle(w, s) => UNCHANGED <<issued, history, presented>>
        /\ WriteFails(w) => UNCHANGED <<issued, history, presented>>
  BY DEF Callback, Settle, Reads, WriteFails
<1>6. \A c \in Calls : Proceed(c) => RequestIssued(c) \/ UNCHANGED <<issued, history, presented>>
  BY DEF Proceed, Lookup, RequestFails, Save, SaveFails, Reply
<1>7. LoadCredential \/ Restart \/ UNCHANGED vars => UNCHANGED <<issued, history, presented>>
  BY DEF LoadCredential, Restart, vars
<1>8. \A t \in Tabs :
        /\ \A s \in Sessions : OpenPresent(t, s) => UNCHANGED <<issued, history, presented>>
        /\ \A c \in Calls :
             /\ Retry(t, c) => UNCHANGED <<issued, history, presented>>
             /\ \A s \in Sessions : EnterCode(t, s, c) => UNCHANGED <<issued, history, presented>>
        /\ GiveUp(t) \/ TimesOut(t) \/ PollStatus(t) \/ PollAnswered(t)
             \/ PollFails(t) \/ CountdownEnds(t) \/ StartOver(t)
             => UNCHANGED <<issued, history, presented>>
        /\ Scan(t) => UNCHANGED <<issued, history>> /\ presented \subseteq presented'
  BY DEF OpenPresent, Retry, EnterCode, Post, GiveUp, TimesOut, PollStatus, PollAnswered,
         PollFails, CountdownEnds, StartOver, Scan, api
<1> QED BY <1>1, <1>2, <1>3, <1>4, <1>6, <1>7, <1>8 DEF Next

LEMMA IssuedForKept ==
  ASSUME TypeOK, TypeOK', Grows, NEW r, NEW s, IssuedFor(r, s)
  PROVE  IssuedFor(r, s)'
<1>1. Len(issued) \in Nat /\ Len(issued') \in Nat
  BY DEF TypeOK
<1> QED BY <1>1 DEF Grows, IssuedFor

LEMMA PageKept ==
  ASSUME TypeOK, TypeOK', Grows, NEW page \in TabType, PageSound(page)
  PROVE  PageSound(page)'
<1>1. Len(issued) \in Nat /\ Len(issued') \in Nat /\ Len(issued) <= Len(issued')
  BY DEF TypeOK, Grows
<1>2. page.session \in Sessions => history[page.session] \subseteq history'[page.session]
  BY DEF Grows
<1>3. page.request \in 0 .. Len(issued')
  BY <1>1 DEF PageSound, TabType, Requests
<1> QED BY <1>2, <1>3 DEF PageSound

-----------------------------------------------------------------------------
(* The calls.                                                              *)

\* How a step changes a call: it gets a request, keeps it, or has none; and it
\* belongs to a session from when it is posted.
LEMMA CallMoves ==
  ASSUME IInv, TypeOK', [Next]_vars, NEW c \in Calls
  PROVE  \/ call'[c].pc = "idle" /\ call'[c].request = 0
         \/ /\ call'[c].pc = "lookup" /\ call'[c].request = 0 /\ call'[c].session \in Sessions
            /\ ~disturbed' => \A w \in Writers : copy'[w].session # call'[c].session
         \/ /\ call'[c].session = call[c].session
            /\ call'[c].pc = "idle" => call[c].pc = "idle"
            /\ call[c].pc = "idle" => call'[c] = call[c]
            /\ call'[c].request \in {0, call[c].request}
         \/ RequestIssued(c)
<1> USE DEF IInv
<1> DEFINE Moved == \/ call'[c].pc = "idle" /\ call'[c].request = 0
                    \/ /\ call'[c].pc = "lookup" /\ call'[c].request = 0
                       /\ call'[c].session \in Sessions
                       /\ ~disturbed' => \A w \in Writers : copy'[w].session # call'[c].session
                    \/ /\ call'[c].session = call[c].session
                       /\ call'[c].pc = "idle" => call[c].pc = "idle"
                       /\ call[c].pc = "idle" => call'[c] = call[c]
                       /\ call'[c].request \in {0, call[c].request}
                    \/ RequestIssued(c)
<1>0. call \in [Calls -> CallType] /\ TypeOK
  BY RecordsTyped
<1>1. ASSUME call'[c] = call[c]  PROVE Moved
  BY <1>1
<1>2. ASSUME NEW d \in Calls, NEW answer \in Answers, AnswerWith(d, answer),
             call[d].pc # "idle"
      PROVE  Moved
  <2>1. Idle.pc = "idle" /\ Idle.request = 0
    BY DEF Idle
  <2> QED BY <1>0, <1>2, <2>1, Answered
<1>3. ASSUME NEW d \in Calls, Lookup(d)  PROVE Moved
  <2>1. CASE call' = [call EXCEPT ![d].pc = "request"]
    BY <1>0, <1>3, <2>1 DEF CallType, Lookup
  <2> QED BY <1>2, <1>3, <2>1 DEF Lookup, Answers
<1>4. ASSUME NEW d \in Calls, RequestIssued(d)  PROVE Moved
  BY <1>0, <1>1, <1>4 DEF RequestIssued
<1>5. ASSUME NEW d \in Calls, RequestFails(d) \/ Save(d) \/ SaveFails(d)  PROVE Moved
  BY <1>2, <1>5 DEF RequestFails, Save, SaveFails, Answers
<1>6. ASSUME NEW d \in Calls, call' = [call EXCEPT ![d] = Idle]  PROVE Moved
  BY <1>0, <1>6 DEF Idle
<1>7. ASSUME NEW t \in Tabs, NEW d \in Calls, NEW page, page.session \in Sessions,
             Post(t, d, page)
      PROVE  Moved
  <2>1. CASE c = d
    <3>1. call'[c] = [Idle EXCEPT !.pc = "lookup", !.session = page.session]
      BY <1>0, <1>7, <2>1 DEF Post
    <3>2. call'[c].pc = "lookup" /\ call'[c].request = 0 /\ call'[c].session = page.session
      BY <3>1 DEF Idle
    <3>3. ~disturbed' => \A w \in Writers : copy'[w].session # page.session
      BY <1>7 DEF Post
    <3> QED BY <1>7, <3>2, <3>3
  <2>2. CASE c # d
    BY <1>0, <1>1, <1>7, <2>2 DEF Post
  <2> QED BY <2>1, <2>2
<1>8. ASSUME NEW t \in Tabs, NEW d \in Calls, Retry(t, d)  PROVE Moved
  <2>1. tab[t] \in TabType /\ tab[t].session \in Sessions
    BY <1>0, <1>8, RecordsTyped DEF Retry, PagesSound, PageSound
  <2>2. [tab[t] EXCEPT !.retries = @ + 1].session \in Sessions
    BY <2>1 DEF TabType
  <2> QED BY <1>7, <1>8, <2>2 DEF Retry
<1>9. ASSUME NEW t \in Tabs, NEW s \in Sessions, NEW d \in Calls, EnterCode(t, s, d)
      PROVE  Moved
  <2>1. [Index EXCEPT !.view = "posting", !.session = s].session = s
    BY DEF Index
  <2> QED BY <1>7, <1>9, <2>1 DEF EnterCode
<1>10. ASSUME Restart  PROVE Moved
  BY <1>10 DEF Restart, Idle
<1>11. ASSUME NEW t \in Tabs, TimesOut(t)  PROVE Moved
  BY <1>1, <1>11 DEF TimesOut, Idle
<1> HIDE DEF Moved
<1>12. ASSUME NEW d \in Calls, Proceed(d)  PROVE Moved
  BY <1>3, <1>4, <1>5, <1>6, <1>12 DEF Proceed, Reply
<1>13. ASSUME UNCHANGED call  PROVE Moved
  BY <1>1, <1>13
<1>14. Moved
  BY <1>8, <1>9, <1>10, <1>12, <1>13, <1>11
     DEF Next, LoadCredential, Callback, Settle, Reads, Write, WriteFails, OpenPresent, GiveUp,
         Scan, PollStatus, PollAnswered, PollFails, CountdownEnds, StartOver, api, vars
<1> QED BY <1>14 DEF Moved

\* Calls keep their session, and requests issued for it.
LEMMA CallsStaySound ==
  ASSUME IInv, TypeOK', [Next]_vars
  PROVE  CallsSound'
<1> SUFFICES ASSUME NEW c \in Calls
             PROVE  CallSound(c)'
  BY DEF CallsSound
<1>1. TypeOK /\ Grows /\ CallSound(c)
  BY StepGrows DEF IInv, CallsSound
<1>2. CASE call'[c].request = 0 /\ (call'[c].pc = "idle" \/ call'[c].session \in Sessions)
  BY <1>2 DEF CallSound, IssuedFor
<1>3. ASSUME RequestIssued(c)  PROVE CallSound(c)'
  <2>1. call[c].session \in Sessions /\ issued \in Seq(Sessions)
    BY <1>1, <1>3 DEF RequestIssued, CallSound, TypeOK
  <2>2. call'[c].session = call[c].session /\ call'[c].request = Len(issued) + 1
    BY <1>1, <1>3, RecordsTyped DEF RequestIssued, CallType
  <2>3. issued'[Len(issued) + 1] = call[c].session /\ Len(issued') = Len(issued) + 1
          /\ Len(issued) \in Nat
    BY <1>3, <2>1 DEF RequestIssued
  <2> QED BY <2>1, <2>2, <2>3 DEF CallSound, IssuedFor
<1>4. ASSUME call'[c].session = call[c].session,
             call'[c].pc # "idle" => call[c].pc # "idle",
             call'[c].request \in {0, call[c].request}
      PROVE  CallSound(c)'
  <2>1. PICK r, s : r = call[c].request /\ s = call[c].session
    OBVIOUS
  <2>2. IssuedFor(r, s)' /\ IssuedFor(0, s)'
    BY <1>1, <2>1, IssuedForKept DEF CallSound, IssuedFor
  <2> QED BY <1>1, <1>4, <2>1, <2>2 DEF CallSound, IssuedFor
<1> QED BY <1>2, <1>3, <1>4, CallMoves DEF IInv

-----------------------------------------------------------------------------
(* The rows.                                                               *)

\* Most steps leave the rows alone.
LEMMA RowMoves ==
  ASSUME [Next]_vars
  PROVE  \/ UNCHANGED row
         \/ \E c \in Calls : Save(c)
         \/ \E w \in Writers : Write(w)
BY DEF Next, Proceed, Lookup, RequestIssued, RequestFails, SaveFails, Reply, Callback, Settle,
       Reads, WriteFails, LoadCredential, Restart, OpenPresent, Retry, EnterCode, Post, GiveUp,
       TimesOut, Scan, PollStatus, PollAnswered, PollFails, CountdownEnds, StartOver, api, vars

\* A saved row is pending, with the request of the call that saves it.
LEMMA SavedRow ==
  ASSUME TypeOK, CallsSound, NEW c \in Calls, Save(c)
  PROVE  /\ call[c].session \in Sessions
         /\ row'[call[c].session] = [status |-> "pending", request |-> call[c].request]
         /\ \A s \in Sessions \ {call[c].session} : row'[s] = row[s]
BY DEF TypeOK, CallsSound, CallSound, Save

\* A row that is written back is the writer's copy.
LEMMA WrittenRow ==
  ASSUME TypeOK, NEW w \in Writers, Write(w)
  PROVE  /\ copy[w].session \in Sessions /\ copy[w].status \in {"pending"} \cup Final
         /\ row'[copy[w].session] = [status |-> copy[w].status, request |-> copy[w].request]
         /\ copy[w].status \in Final => copy[w].status \in history'[copy[w].session]
         /\ \A s \in Sessions \ {copy[w].session} : row'[s] = row[s]
<1>1. copy[w].session \in Sessions /\ copy[w].status \in {"pending"} \cup Final
  BY RecordsTyped DEF Write, CopyType
<1> QED BY <1>1 DEF TypeOK, Write

\* A row is verified only by the presentation to its own request.
LEMMA RowsStaySound ==
  ASSUME IInv, TypeOK', [Next]_vars
  PROVE  RowsSound'
<1> SUFFICES ASSUME NEW s \in Sessions
             PROVE  RowSound(s)'
  BY DEF RowsSound
<1>1. TypeOK /\ Grows /\ CallsSound /\ RowSound(s)
  BY StepGrows DEF IInv, RowsSound
<1>2. ASSUME NEW r, IssuedFor(r, s), row'[s].request = r
      PROVE  IssuedFor(row[s].request, s)'
  BY <1>1, <1>2, IssuedForKept DEF IssuedFor
<1>3. ASSUME row'[s] = row[s]
      PROVE  RowSound(s)'
  <2>1. IssuedFor(row[s].request, s)'
    BY <1>1, <1>2, <1>3 DEF RowSound
  <2> QED BY <1>1, <1>3, <2>1 DEF RowSound, Grows
<1>4. ASSUME NEW c \in Calls, Save(c)
      PROVE  RowSound(s)'
  <2>1. CASE s = call[c].session
    <3>1. row'[s] = [status |-> "pending", request |-> call[c].request]
      BY <1>1, <1>4, <2>1, SavedRow
    <3>2. IssuedFor(row[s].request, s)'
      BY <1>1, <1>2, <2>1, <3>1 DEF CallsSound, CallSound
    <3> QED BY <3>1, <3>2 DEF RowSound, Final
  <2>2. CASE s # call[c].session
    BY <1>1, <1>3, <1>4, <2>2, SavedRow
  <2> QED BY <2>1, <2>2
<1>5. ASSUME NEW w \in Writers, Write(w)
      PROVE  RowSound(s)'
  <2>1. CASE s = copy[w].session
    <3>1. row'[s] = [status |-> copy[w].status, request |-> copy[w].request]
            /\ (copy[w].status \in Final => copy[w].status \in history'[s])
            /\ copy[w].session # None
      BY <1>1, <1>5, <2>1, WrittenRow, NoneApart
    <3>2. IssuedFor(copy[w].request, s)
            /\ (copy[w].status = "verified" => copy[w].request \in presented)
      BY <2>1, <3>1 DEF IInv, CopiesSound, CopySound
    <3>3. IssuedFor(row[s].request, s)'
      BY <1>2, <3>1, <3>2
    <3> QED BY <1>1, <3>1, <3>2, <3>3 DEF RowSound, Grows
  <2>2. CASE s # copy[w].session
    BY <1>1, <1>3, <1>5, <2>2, WrittenRow
  <2> QED BY <2>1, <2>2
<1> QED BY <1>3, <1>4, <1>5, RowMoves

-----------------------------------------------------------------------------
(* The writers.                                                            *)

\* A row is taken from the table, or left behind by a save in doubt.
LEMMA CopyMoves ==
  ASSUME IInv, [Next]_vars, NEW w \in Writers
  PROVE  \/ copy'[w] = copy[w]
         \/ copy'[w].session = None
         \/ \E s \in Sessions, status \in {"pending"} \cup Final :
               /\ Reads(w, s, status)
               /\ status = "verified" => row[s].request \in presented
         \/ \E c \in Calls : SaveFails(c) /\ disturbed' /\ call[c].pc = "save"
                               /\ Take(w, call[c].session, "pending", call[c].request)
<1>0. TypeOK /\ copy \in [Writers -> CopyType] /\ NoCopy.session = None
  BY RecordsTyped DEF IInv, NoCopy
<1>1. ASSUME UNCHANGED copy  PROVE copy'[w] = copy[w]
  BY <1>1
<1>2. ASSUME NEW v \in Writers, NEW s, NEW status, Reads(v, s, status), v # w
      PROVE  copy'[w] = copy[w]
  BY <1>0, <1>2 DEF Reads, Take
<1>3. ASSUME NEW v \in Writers, NEW r \in 1 .. Len(issued), Callback(v, r)
      PROVE  \/ copy'[w] = copy[w]
             \/ \E s \in Sessions, status \in {"pending"} \cup Final :
                   Reads(w, s, status) /\ (status = "verified" => row[s].request \in presented)
  <2>1. /\ issued[r] \in Sessions /\ row[issued[r]].request \in presented
        /\ Reads(v, issued[r], "verified")
    BY <1>0, <1>3 DEF Callback, TypeOK
  <2> QED BY <1>2, <2>1 DEF Final
<1>4. ASSUME NEW v \in Writers, NEW s \in Sessions, Settle(v, s)
      PROVE  \/ copy'[w] = copy[w]
             \/ \E u \in Sessions, status \in {"pending"} \cup Final :
                   Reads(w, u, status) /\ (status = "verified" => row[u].request \in presented)
  BY <1>2, <1>4 DEF Settle, Final
<1>5. ASSUME NEW v \in Writers, Write(v) \/ WriteFails(v)
      PROVE  copy'[w] = copy[w] \/ copy'[w].session = None
  BY <1>0, <1>5 DEF Write, WriteFails
<1>6. ASSUME NEW c \in Calls, SaveFails(c)
      PROVE  \/ copy'[w] = copy[w]
             \/ /\ disturbed' /\ call[c].pc = "save"
                /\ Take(w, call[c].session, "pending", call[c].request)
  BY <1>0, <1>6 DEF SaveFails, Take
<1>7. Restart => copy'[w].session = None
  BY <1>0 DEF Restart
<1>8. \A c \in Calls : Proceed(c) => SaveFails(c) \/ UNCHANGED copy
  BY DEF Proceed, Lookup, RequestIssued, RequestFails, Save, Reply
<1>9. \A t \in Tabs :
        /\ \A s \in Sessions : OpenPresent(t, s) => UNCHANGED copy
        /\ \A c \in Calls : /\ Retry(t, c) => UNCHANGED copy
                            /\ \A s \in Sessions : EnterCode(t, s, c) => UNCHANGED copy
        /\ GiveUp(t) \/ TimesOut(t) \/ Scan(t) \/ PollStatus(t) \/ PollAnswered(t)
             \/ PollFails(t) \/ CountdownEnds(t) \/ StartOver(t) => UNCHANGED copy
  BY DEF OpenPresent, Retry, EnterCode, Post, GiveUp, TimesOut, Scan, PollStatus, PollAnswered,
         PollFails, CountdownEnds, StartOver, api
<1>10. LoadCredential \/ UNCHANGED vars => UNCHANGED copy
  BY DEF LoadCredential, vars
<1> QED BY <1>1, <1>3, <1>4, <1>5, <1>6, <1>7, <1>8, <1>9, <1>10 DEF Next

\* A writer's row, when it has just been taken.
LEMMA TakenCopy ==
  ASSUME TypeOK, NEW w \in Writers, NEW s, NEW status, NEW request,
         Take(w, s, status, request)
  PROVE  copy'[w] = [session |-> s, status |-> status, request |-> request]
BY RecordsTyped DEF Take

\* Copies come from sound rows and sound calls.
LEMMA CopiesStaySound ==
  ASSUME IInv, TypeOK', [Next]_vars
  PROVE  CopiesSound'
<1> SUFFICES ASSUME NEW w \in Writers
             PROVE  CopySound(w)'
  BY DEF CopiesSound
<1>1. TypeOK /\ Grows /\ CallsSound /\ RowsSound /\ CopySound(w) /\ presented \subseteq presented'
  BY StepGrows DEF IInv, CopiesSound, Grows
<1>2. ASSUME NEW r, NEW s, IssuedFor(r, s), copy'[w].session = s, copy'[w].request = r
      PROVE  IssuedFor(copy[w].request, copy[w].session)'
  BY <1>1, <1>2, IssuedForKept DEF IssuedFor
<1>3. CASE copy'[w] = copy[w]
  <2>1. copy[w].session # None => IssuedFor(copy[w].request, copy[w].session)'
    BY <1>1, <1>2, <1>3 DEF CopySound
  <2> QED BY <1>1, <1>3, <2>1 DEF CopySound
<1>4. CASE copy'[w].session = None
  BY <1>4 DEF CopySound
<1>5. ASSUME NEW s \in Sessions, NEW status, Reads(w, s, status),
             status = "verified" => row[s].request \in presented
      PROVE  CopySound(w)'
  <2>1. copy'[w] = [session |-> s, status |-> status, request |-> row[s].request]
    BY <1>1, <1>5, TakenCopy DEF Reads
  <2>2. IssuedFor(row[s].request, s)
    BY <1>1 DEF RowsSound, RowSound
  <2> QED BY <1>1, <1>2, <1>5, <2>1, <2>2 DEF CopySound
<1>6. ASSUME NEW c \in Calls, Take(w, call[c].session, "pending", call[c].request)
      PROVE  CopySound(w)'
  <2>1. copy'[w] = [session |-> call[c].session, status |-> "pending",
                    request |-> call[c].request]
    BY <1>1, <1>6, TakenCopy
  <2> QED BY <1>1, <1>2, <2>1 DEF CopySound, CallsSound, CallSound
<1> QED BY <1>3, <1>4, <1>5, <1>6, CopyMoves

-----------------------------------------------------------------------------
(* The browser.                                                            *)

\* The cookie is left alone but for an answer.
LEMMA CookieMoves ==
  ASSUME TypeOK, [Next]_vars
  PROVE  \/ UNCHANGED cookie
         \/ \E t \in Tabs, c \in Calls :
               /\ Reply(t, c) /\ call[c].answer = "ok"
               /\ cookie' = [session |-> call[c].session, request |-> call[c].request]
<1>1. \A t \in Tabs, c \in Calls : Reply(t, c) =>
        \/ UNCHANGED cookie
        \/ /\ call[c].answer = "ok"
           /\ cookie' = [session |-> call[c].session, request |-> call[c].request]
  <2>1. \A c \in Calls : call[c].answer \in Answers
    BY RecordsTyped DEF CallType
  <2> QED BY <2>1 DEF Reply, Answers
<1> QED BY <1>1
   DEF Next, Proceed, Lookup, RequestIssued, RequestFails, Save, SaveFails,
       LoadCredential, Restart, Callback, Settle, Reads, Write, WriteFails, OpenPresent, Retry,
       EnterCode, Post, GiveUp, TimesOut, Scan, PollStatus, PollAnswered, PollFails, CountdownEnds, StartOver,
       browser, vars

LEMMA CookieStaysSound ==
  ASSUME IInv, TypeOK', [Next]_vars
  PROVE  CookieSound'
<1>1. TypeOK /\ Grows /\ CallsSound /\ CookieSound
  BY StepGrows DEF IInv
<1>2. \E r, s : IssuedFor(r, s) /\ cookie'.request = r /\ cookie'.session = s
  BY <1>1, CookieMoves DEF CallsSound, CallSound, CookieSound
<1> QED BY <1>1, <1>2, IssuedForKept DEF CookieSound, IssuedFor

\* A page that keeps its session and displays no more stays sound.
LEMMA PageStaysSound ==
  ASSUME IInv, TypeOK', [Next]_vars, NEW t \in Tabs, NEW page \in TabType,
         PageSound(page), tab'[t].session = page.session,
         tab'[t].request = page.request,
         tab'[t].view # "index" => page.session \in Sessions,
         tab'[t].waits # None => tab'[t].view = "posting",
         tab'[t].view = "posting" => page.view = "posting",
         tab'[t].view = "complete" => page.view = "complete" \/ page.poll = "verified",
         tab'[t].alarm => page.alarm \/ page.poll = "over",
         tab'[t].polling => page.polling,
         tab'[t].poll \in {"idle", page.poll}
  PROVE  PageSound(tab[t])'
<1>1. PageSound(page)'
  BY StepGrows, PageKept DEF IInv
<1> QED BY <1>1 DEF PageSound, Final

\* An empty page is sound.
LEMMA EmptyPageSound ==
  ASSUME TypeOK', NEW t \in Tabs, tab'[t] = Index
  PROVE  PageSound(tab[t])'
<1>1. Len(issued') \in Nat
  BY DEF TypeOK
<1> QED BY <1>1 DEF Index, PageSound, Final

\* Pages display what has happened.
LEMMA PagesStaySound ==
  ASSUME IInv, TypeOK', [Next]_vars
  PROVE  PagesSound'
<1> SUFFICES ASSUME NEW t \in Tabs
             PROVE  PageSound(tab[t])'
  BY DEF PagesSound
<1> USE DEF IInv
<1>0. /\ TypeOK /\ tab \in [Tabs -> TabType] /\ tab[t] \in TabType /\ Grows
      /\ PageSound(tab[t])
  BY RecordsTyped, StepGrows DEF PagesSound
<1>1. ASSUME tab'[t] = tab[t]  PROVE PageSound(tab[t])'
  <2>1. PICK page \in TabType : page = tab[t]
    BY <1>0
  <2> QED BY <1>0, <1>1, <2>1, PageKept DEF PageSound
<1>2. ASSUME tab'[t] = Index  PROVE PageSound(tab[t])'
  BY <1>2, EmptyPageSound
<1>3. ASSUME /\ tab'[t].session = tab[t].session
             /\ tab'[t].request = tab[t].request
             /\ tab'[t].view # "index" => tab[t].session \in Sessions
             /\ tab'[t].waits # None => tab'[t].view = "posting"
             /\ tab'[t].view = "posting" => tab[t].view = "posting"
             /\ tab'[t].view = "complete" => tab[t].view = "complete" \/ tab[t].poll = "verified"
             /\ tab'[t].alarm => tab[t].alarm \/ tab[t].poll = "over"
             /\ tab'[t].polling => tab[t].polling
             /\ tab'[t].poll \in {"idle", tab[t].poll}
      PROVE  PageSound(tab[t])'
  <2>1. PICK page \in TabType : page = tab[t]
    BY <1>0
  <2> QED BY <1>0, <1>3, <2>1, PageStaysSound
<1>4. ASSUME NEW u \in Tabs, NEW s \in Sessions, NEW c \in Calls, EnterCode(u, s, c)
      PROVE  PageSound(tab[t])'
  <2>1. CASE t = u
    <3>1. tab' = [tab EXCEPT ![t] = [[Index EXCEPT !.view = "posting", !.session = s]
                                       EXCEPT !.waits = c]]
      BY <1>4, <2>1 DEF EnterCode, Post
    <3>2. tab'[t] = [[Index EXCEPT !.view = "posting", !.session = s] EXCEPT !.waits = c]
      BY <1>0, <3>1
    <3>3. Len(issued') \in Nat
      BY DEF TypeOK
    <3> QED BY <3>2, <3>3 DEF Index, PageSound, Final
  <2>2. CASE t # u
    BY <1>0, <1>1, <1>4, <2>2 DEF EnterCode, Post
  <2> QED BY <2>1, <2>2
<1>5. ASSUME NEW u \in Tabs, NEW c \in Calls, Retry(u, c)
      PROVE  PageSound(tab[t])'
  <2>1. CASE t = u
    <3>1. tab' = [tab EXCEPT ![t] = [[tab[t] EXCEPT !.retries = @ + 1] EXCEPT !.waits = c]]
            /\ tab[t].view = "posting"
      BY <1>5, <2>1 DEF Retry, Post
    <3>2. tab'[t] = [[tab[t] EXCEPT !.retries = @ + 1] EXCEPT !.waits = c]
      BY <1>0, <3>1
    <3>3. /\ tab'[t].session = tab[t].session /\ tab'[t].request = tab[t].request
          /\ tab'[t].view = tab[t].view /\ tab'[t].poll = tab[t].poll
          /\ tab'[t].polling = tab[t].polling /\ tab'[t].alarm = tab[t].alarm
      BY <1>0, <3>2 DEF TabType
    <3> QED BY <1>0, <1>3, <3>1, <3>3 DEF PageSound
  <2>2. CASE t # u
    BY <1>0, <1>1, <1>5, <2>2 DEF Retry, Post
  <2> QED BY <2>1, <2>2
<1>6. ASSUME NEW u \in Tabs,
             \/ tab' = [tab EXCEPT ![u].waits = None]
             \/ tab' = [tab EXCEPT ![u].poll = "idle"]
             \/ tab' = [tab EXCEPT ![u].polling = FALSE]
      PROVE  PageSound(tab[t])'
  <2>1. CASE t = u
    <3>1. /\ tab'[t].session = tab[t].session /\ tab'[t].request = tab[t].request
          /\ tab'[t].view = tab[t].view /\ tab'[t].poll \in {"idle", tab[t].poll}
          /\ tab'[t].polling => tab[t].polling
          /\ tab'[t].alarm => tab[t].alarm
          /\ tab'[t].waits \in {None, tab[t].waits}
      BY <1>0, <1>6, <2>1 DEF TabType
    <3> QED BY <1>0, <1>3, <3>1 DEF PageSound
  <2>2. CASE t # u
    BY <1>0, <1>1, <1>6, <2>2
  <2> QED BY <2>1, <2>2
<1>7. CASE Restart
  <2>1. tab'[t] = [tab[t] EXCEPT !.waits = None]
    BY <1>7 DEF Restart
  <2>2. /\ tab'[t].session = tab[t].session /\ tab'[t].request = tab[t].request
        /\ tab'[t].view = tab[t].view /\ tab'[t].poll = tab[t].poll
        /\ tab'[t].polling = tab[t].polling /\ tab'[t].alarm = tab[t].alarm
        /\ tab'[t].waits = None
    BY <1>0, <2>1 DEF TabType
  <2> QED BY <1>0, <1>3, <2>2 DEF PageSound
<1>8. ASSUME NEW u \in Tabs, tab' = [tab EXCEPT ![u] = Index]
      PROVE  PageSound(tab[t])'
  BY <1>0, <1>1, <1>2, <1>8
<1>9. ASSUME NEW u \in Tabs, NEW c \in Calls, Reply(u, c)
      PROVE  PageSound(tab[t])'
  <2>1. CASE tab' = [tab EXCEPT ![u].view = "redirected", ![u].waits = None]
    <3>1. CASE t = u
      <4>1. tab[t].waits = c /\ c # None
        BY <1>9, <3>1, NoneApart DEF Reply
      <4>2. tab[t].session \in Sessions
        BY <1>0, <4>1 DEF PageSound
      <4> QED BY <1>0, <1>3, <2>1, <3>1, <4>2, RedirectedPage
    <3>2. CASE t # u
      BY <1>0, <1>1, <2>1, <3>2, RedirectedPage
    <3> QED BY <3>1, <3>2
  <2>2. call[c].answer \in Answers
    BY <1>0, RecordsTyped DEF CallType
  <2> QED BY <1>6, <1>8, <1>9, <2>1, <2>2 DEF Reply, Answers
<1>10. ASSUME NEW u \in Tabs, NEW s \in Sessions, OpenPresent(u, s)
       PROVE  PageSound(tab[t])'
  <2>1. CASE t = u
    <3>1. PICK polling \in BOOLEAN :
             tab' = [tab EXCEPT ![t] = [Index EXCEPT !.view = "present", !.session = s,
                                                     !.request = cookie.request,
                                                     !.polling = polling]]
      BY <1>10, <2>1 DEF OpenPresent
    <3>2. tab'[t] = [Index EXCEPT !.view = "present", !.session = s,
                                  !.request = cookie.request, !.polling = polling]
      BY <1>0, <3>1
    <3>3. UNCHANGED issued /\ Len(issued) \in Nat /\ cookie.request \in 0 .. Len(issued)
      BY <1>0, <1>10 DEF OpenPresent, api, CookieSound, IssuedFor, TypeOK, Requests
    <3> QED BY <3>2, <3>3 DEF Index, PageSound, Final
  <2>2. CASE t # u
    BY <1>0, <1>1, <1>10, <2>2 DEF OpenPresent
  <2> QED BY <2>1, <2>2
<1>11. ASSUME NEW u \in Tabs, PollStatus(u)
       PROVE  PageSound(tab[t])'
  <2>1. CASE t = u
    <3>1. /\ tab' = [tab EXCEPT ![t].poll = row[tab[t].session].status]
          /\ tab[t].polling /\ UNCHANGED <<issued, history>>
      BY <1>11, <2>1 DEF PollStatus, api
    <3>2. /\ tab'[t].poll = row[tab[t].session].status
          /\ tab'[t].session = tab[t].session /\ tab'[t].request = tab[t].request
          /\ tab'[t].view = tab[t].view /\ tab'[t].waits = tab[t].waits
          /\ tab'[t].polling = tab[t].polling /\ tab'[t].alarm = tab[t].alarm
      BY <1>0, <3>1 DEF TabType
    <3>3. tab[t].session \in Sessions /\ RowSound(tab[t].session)
      BY <1>0, <3>1 DEF PageSound, RowsSound
    <3> QED BY <1>0, <3>1, <3>2, <3>3 DEF PageSound, RowSound
  <2>2. CASE t # u
    BY <1>0, <1>1, <1>11, <2>2 DEF PollStatus
  <2> QED BY <2>1, <2>2
<1>12. ASSUME NEW u \in Tabs, PollAnswered(u)
       PROVE  PageSound(tab[t])'
  <2>1. CASE t = u
    <3>1. tab[t].poll # "idle" /\ tab[t].view # "posting"
      BY <1>0, <1>12, <2>1 DEF PollAnswered, PageSound
    <3>2. tab'[t].view \in {tab[t].view, "complete"}
      BY <1>0, <1>12, <2>1, PollShown
    <3>3. tab'[t].view = "complete" => tab[t].view = "complete" \/ tab[t].poll = "verified"
      BY <1>0, <1>12, <2>1, PollShown
    <3>4. tab[t].view # "index" \/ tab[t].poll = "verified" => tab[t].session \in Sessions
      BY <1>0 DEF PageSound, Final
    <3>5. tab'[t].view # "index" => tab[t].session \in Sessions
      BY <3>2, <3>3, <3>4
    <3>6. tab'[t].waits = None /\ tab'[t].view # "posting"
      BY <1>0, <1>12, <2>1, <3>1, <3>2, PollShown DEF PageSound
    <3> QED BY <1>0, <1>3, <1>12, <2>1, <3>3, <3>5, <3>6, PollShown
  <2>2. CASE t # u
    BY <1>0, <1>1, <1>12, <2>2, PollShown
  <2> QED BY <2>1, <2>2
<1>13. ASSUME NEW u \in Tabs,
              GiveUp(u) \/ StartOver(u) \/ TimesOut(u) \/ PollFails(u) \/ CountdownEnds(u)
       PROVE  PageSound(tab[t])'
  BY <1>6, <1>8, <1>13 DEF GiveUp, StartOver, TimesOut, PollFails, CountdownEnds
<1>14. ASSUME UNCHANGED tab
       PROVE  PageSound(tab[t])'
  BY <1>1, <1>14
<1> QED BY <1>4, <1>5, <1>7, <1>9, <1>10, <1>11, <1>12, <1>13, <1>14
   DEF Next, Proceed, Lookup, RequestIssued, RequestFails, Save, SaveFails,
       LoadCredential, Callback, Settle, Reads, Write, WriteFails, Scan, browser, vars

-----------------------------------------------------------------------------
(* Who waits for which call.                                               *)

\* The ways a step may bear upon calls under way and tabs that wait.
Undisturbing ==
  /\ \A t \in Tabs : tab'[t].waits = tab[t].waits
  /\ \A c \in Calls : call'[c].pc = "idle" <=> call[c].pc = "idle"
  /\ disturbed => disturbed'

Posts(t, c) ==
  /\ tab[t].waits = None /\ tab'[t].waits = c
  /\ \A u \in Tabs \ {t} : tab'[u].waits = tab[u].waits
  /\ call[c].pc = "idle" /\ call'[c].pc = "lookup"
  /\ \A d \in Calls \ {c} : call'[d] = call[d]
  /\ disturbed \/ InUse # {} => disturbed'

Ends(t, c) ==
  /\ tab[t].waits = c /\ tab'[t].waits = None
  /\ \A u \in Tabs \ {t} : tab'[u].waits = tab[u].waits
  /\ call[c].pc = "reply" /\ call'[c].pc = "idle"
  /\ \A d \in Calls \ {c} : call'[d] = call[d]
  /\ UNCHANGED disturbed

EndsUnheard(c) ==
  /\ ~Awaited(c)
  /\ call[c].pc # "idle" /\ call'[c].pc = "idle"
  /\ \A d \in Calls \ {c} : call'[d] = call[d]
  /\ UNCHANGED tab
  /\ disturbed => disturbed'

\* A post gives a tab that waits for nothing a call to wait for.
LEMMA PostWaits ==
  ASSUME TypeOK, NEW t \in Tabs, NEW c \in Calls, NEW page \in TabType, Post(t, c, page),
         tab[t].waits = None
  PROVE  Posts(t, c)
<1>1. call \in [Calls -> CallType] /\ tab \in [Tabs -> TabType]
  BY RecordsTyped
<1>2. tab'[t] = [page EXCEPT !.waits = c]
  BY <1>1 DEF Post
<1>3. tab'[t].waits = c
  BY <1>2 DEF TabType
<1>4. call'[c] = [Idle EXCEPT !.pc = "lookup", !.session = page.session]
  BY <1>1 DEF Post
<1>5. call'[c].pc = "lookup"
  BY <1>4 DEF Idle
<1> QED BY <1>1, <1>3, <1>5 DEF Post, Posts

\* A reply that somebody waits for ends the waiting and the call.
LEMMA ReplyEnds ==
  ASSUME TypeOK, NEW t \in Tabs, NEW c \in Calls, Reply(t, c)
  PROVE  Ends(t, c)
<1>1. /\ call \in [Calls -> CallType] /\ tab \in [Tabs -> TabType]
      /\ call[c].answer \in Answers
  BY RecordsTyped DEF CallType
<1>2. \/ tab' = [tab EXCEPT ![t].view = "redirected", ![t].waits = None]
      \/ tab' = [tab EXCEPT ![t] = Index]
      \/ tab' = [tab EXCEPT ![t].waits = None]
  BY <1>1 DEF Reply, Answers
<1>3. tab'[t].waits = None /\ \A u \in Tabs \ {t} : tab'[u] = tab[u]
  <2>1. CASE tab' = [tab EXCEPT ![t].view = "redirected", ![t].waits = None]
    BY <1>1, <2>1, RedirectedPage
  <2>2. CASE tab' = [tab EXCEPT ![t] = Index]
    BY <1>1, <2>2 DEF Index
  <2>3. CASE tab' = [tab EXCEPT ![t].waits = None]
    BY <1>1, <2>3 DEF TabType
  <2> QED BY <1>2, <2>1, <2>2, <2>3
<1>4. call' = [call EXCEPT ![c] = Idle] /\ call[c].pc = "reply" /\ tab[t].waits = c
        /\ UNCHANGED disturbed
  BY DEF Reply
<1> QED BY <1>1, <1>3, <1>4 DEF Ends, Idle

\* Every step does one of these, is a restart or gives a call up.
LEMMA WaitMoves ==
  ASSUME IInv, [Next]_vars
  PROVE  \/ Undisturbing
         \/ \E t \in Tabs, c \in Calls : Posts(t, c) \/ Ends(t, c)
         \/ Restart
         \/ \E t \in Tabs : TimesOut(t)
         \/ \E c \in Calls : EndsUnheard(c)
<1> USE DEF IInv
<1>0. /\ TypeOK /\ call \in [Calls -> CallType] /\ tab \in [Tabs -> TabType]
  BY RecordsTyped
<1>1. ASSUME NEW c \in Calls,
             Lookup(c) \/ RequestIssued(c) \/ RequestFails(c) \/ Save(c) \/ SaveFails(c)
      PROVE  Undisturbing \/ EndsUnheard(c)
  <2>1. /\ call[c].pc # "idle" /\ UNCHANGED tab /\ (disturbed => disturbed')
        /\ \/ \E answer \in Answers : AnswerWith(c, answer)
           \/ call' = [call EXCEPT ![c].pc = "request"]
           \/ call' = [call EXCEPT ![c].pc = "save", ![c].request = Len(issued) + 1]
    BY <1>1 DEF Lookup, RequestIssued, RequestFails, Save, SaveFails, Answers, browser
  <2>2. /\ call'[c].pc = "idle" => ~Awaited(c)
        /\ \A d \in Calls \ {c} : call'[d] = call[d]
    <3>1. ASSUME NEW answer \in Answers, AnswerWith(c, answer)
          PROVE  /\ call'[c].pc = "idle" => ~Awaited(c)
                 /\ \A d \in Calls \ {c} : call'[d] = call[d]
      BY <1>0, <3>1, Answered
    <3>2. CASE call' = [call EXCEPT ![c].pc = "request"]
      BY <1>0, <3>2 DEF CallType
    <3>3. CASE call' = [call EXCEPT ![c].pc = "save", ![c].request = Len(issued) + 1]
      BY <1>0, <3>3 DEF CallType
    <3> QED BY <2>1, <3>1, <3>2, <3>3
  <2> QED BY <2>1, <2>2 DEF Undisturbing, EndsUnheard
<1>2. ASSUME UNCHANGED <<call, disturbed>>, NEW t \in Tabs, tab[t].waits = None,
             tab'[t].waits = None, \A u \in Tabs \ {t} : tab'[u] = tab[u]
      PROVE  Undisturbing
  BY <1>2 DEF Undisturbing
<1>3. ASSUME NEW t \in Tabs, NEW s \in Sessions, OpenPresent(t, s)
      PROVE  Undisturbing
  <2>1. PICK polling \in BOOLEAN :
           tab' = [tab EXCEPT ![t] = [Index EXCEPT !.view = "present", !.session = s,
                                                   !.request = cookie.request,
                                                   !.polling = polling]]
    BY <1>3 DEF OpenPresent
  <2>2. tab'[t].waits = None
    BY <1>0, <2>1 DEF Index
  <2>3. tab[t].waits = None /\ UNCHANGED <<call, disturbed>>
    BY <1>3 DEF OpenPresent, PagesSound, PageSound, api
  <2> QED BY <1>0, <1>2, <2>1, <2>2, <2>3
<1>4. ASSUME NEW t \in Tabs, GiveUp(t) \/ StartOver(t)
      PROVE  Undisturbing
  <2>1. tab[t].waits = None /\ UNCHANGED <<call, disturbed>> /\ tab' = [tab EXCEPT ![t] = Index]
    BY <1>4 DEF GiveUp, StartOver, PagesSound, PageSound, api
  <2>2. tab'[t].waits = None
    BY <1>0, <2>1 DEF Index
  <2> QED BY <1>0, <1>2, <2>1, <2>2
<1>5. ASSUME NEW t \in Tabs, PollStatus(t) \/ PollAnswered(t) \/ PollFails(t) \/ CountdownEnds(t)
      PROVE  Undisturbing
  <2>1. UNCHANGED <<call, disturbed>>
    BY <1>5 DEF PollStatus, PollAnswered, PollFails, CountdownEnds, api
  <2>2. tab'[t].waits = tab[t].waits /\ \A u \in Tabs \ {t} : tab'[u] = tab[u]
    <3>1. CASE PollAnswered(t)
      BY <1>0, <3>1, PollShown
    <3>2. CASE PollStatus(t)
      BY <1>0, <3>2 DEF PollStatus, TabType
    <3>3. CASE PollFails(t)
      BY <1>0, <3>3 DEF PollFails, TabType
    <3>4. CASE CountdownEnds(t)
      BY <1>0, <3>4 DEF CountdownEnds, TabType
    <3> QED BY <1>5, <3>1, <3>2, <3>3, <3>4
  <2> QED BY <2>1, <2>2 DEF Undisturbing
<1>6. ASSUME NEW t \in Tabs, NEW s \in Sessions, NEW c \in Calls, EnterCode(t, s, c)
      PROVE  Posts(t, c)
  <2>1. tab[t].waits = None
    BY <1>6 DEF EnterCode, PagesSound, PageSound
  <2>2. [Index EXCEPT !.view = "posting", !.session = s] \in TabType
    BY EmptyTyped DEF TabType
  <2> QED BY <1>0, <1>6, <2>1, <2>2, PostWaits DEF EnterCode
<1>7. ASSUME NEW t \in Tabs, NEW c \in Calls, Retry(t, c)
      PROVE  Posts(t, c)
  <2>1. [tab[t] EXCEPT !.retries = @ + 1] \in TabType
    BY <1>0, <1>7, CallerAssumption DEF Retry, TabType
  <2> QED BY <1>0, <1>7, <2>1, PostWaits DEF Retry
<1>8. ASSUME UNCHANGED <<call, tab>>, disturbed => disturbed'
      PROVE  Undisturbing
  BY <1>8 DEF Undisturbing
<1>9. ASSUME NEW c \in Calls, Proceed(c)
      PROVE  Undisturbing \/ EndsUnheard(c) \/ \E t \in Tabs : Ends(t, c)
  BY <1>0, <1>1, <1>9, ReplyEnds DEF Proceed
<1>10. ASSUME NEW w \in Writers, NEW s, NEW status, Reads(w, s, status)
       PROVE  Undisturbing
  <2>1. UNCHANGED <<call, tab>> /\ (disturbed => disturbed')
    BY <1>10 DEF Reads, browser
  <2> QED BY <1>8, <2>1
<1>11. \A w \in Writers :
         /\ \A r \in 1 .. Len(issued) : Callback(w, r) => Undisturbing
         /\ \A s \in Sessions : Settle(w, s) => Undisturbing
         /\ Write(w) \/ WriteFails(w) => Undisturbing
  BY <1>8, <1>10 DEF Callback, Settle, Write, WriteFails, browser
<1>12. /\ LoadCredential \/ UNCHANGED vars => Undisturbing
       /\ \A t \in Tabs : Scan(t) => Undisturbing
  BY <1>8 DEF LoadCredential, Scan, browser, vars
<1> QED BY <1>3, <1>4, <1>5, <1>6, <1>7, <1>9, <1>11, <1>12 DEF Next

\* No two tabs come to wait for one call, nor a tab for one that has ended.
LEMMA WaitsStayApart ==
  ASSUME IInv, TypeOK', [Next]_vars
  PROVE  WaitsApart'
<1> USE DEF IInv
<1>0. /\ TypeOK /\ call \in [Calls -> CallType] /\ tab \in [Tabs -> TabType]
      /\ None \notin Calls /\ WaitsApart
      /\ \A t \in Tabs : tab[t].waits \in Calls \cup {None}
  BY RecordsTyped, NoneApart DEF TabType
<1>1. CASE Undisturbing
  BY <1>0, <1>1 DEF Undisturbing, WaitsApart, InUse
<1>2. ASSUME NEW t \in Tabs, NEW c \in Calls, Posts(t, c)
      PROVE  WaitsApart'
  BY <1>0, <1>2 DEF Posts, WaitsApart, InUse
<1>3. ASSUME NEW t \in Tabs, NEW c \in Calls, Ends(t, c)
      PROVE  WaitsApart'
  BY <1>0, <1>3 DEF Ends, WaitsApart, InUse
<1>4. ASSUME Restart  PROVE WaitsApart'
  <2>1. \A t \in Tabs : tab'[t].waits = None
    BY <1>0, <1>4 DEF Restart, TabType
  <2> QED BY <2>1 DEF WaitsApart
<1>5. ASSUME NEW t \in Tabs, TimesOut(t)
      PROVE  WaitsApart'
  <2>1. /\ tab' = [tab EXCEPT ![t].waits = None] /\ tab[t].waits # None
        /\ \A c \in Calls : c # tab[t].waits => call'[c] = call[c]
    BY <1>5 DEF TimesOut
  <2>2. tab'[t].waits = None /\ \A u \in Tabs \ {t} : tab'[u] = tab[u]
    BY <1>0, <2>1 DEF TabType
  <2> QED BY <1>0, <2>1, <2>2 DEF WaitsApart, InUse
<1>6. ASSUME NEW c \in Calls, EndsUnheard(c)
      PROVE  WaitsApart'
  BY <1>0, <1>6 DEF EndsUnheard, Awaited, WaitsApart, InUse
<1> QED BY <1>1, <1>2, <1>3, <1>4, <1>5, <1>6, WaitMoves

\* Without disturbance a call follows the other.
LEMMA OneCallStays ==
  ASSUME IInv, TypeOK', [Next]_vars
  PROVE  OneCallAtATime' /\ (disturbed => disturbed')
<1> USE DEF IInv
<1>0. /\ TypeOK /\ call \in [Calls -> CallType] /\ tab \in [Tabs -> TabType]
      /\ disturbed \in BOOLEAN /\ OneCallAtATime
  BY RecordsTyped DEF TypeOK
<1>1. CASE Undisturbing
  BY <1>0, <1>1 DEF Undisturbing, OneCallAtATime, InUse
<1>2. ASSUME NEW t \in Tabs, NEW c \in Calls, Posts(t, c)
      PROVE  OneCallAtATime' /\ (disturbed => disturbed')
  <2>1. disturbed => disturbed'
    BY <1>2 DEF Posts
  <2>2. ASSUME ~disturbed'  PROVE InUse' = {c}
    <3>1. InUse = {}
      BY <1>2, <2>2 DEF Posts
    <3> QED BY <1>2, <3>1 DEF Posts, InUse
  <2>3. tab'[t].waits = c
    BY <1>2 DEF Posts
  <2> QED BY <2>1, <2>2, <2>3 DEF OneCallAtATime
<1>3. ASSUME NEW t \in Tabs, NEW c \in Calls, Ends(t, c)
      PROVE  OneCallAtATime' /\ (disturbed => disturbed')
  <2>1. disturbed' = disturbed /\ c \in InUse /\ InUse' = InUse \ {c}
    BY <1>3 DEF Ends, InUse
  <2> QED BY <1>0, <2>1 DEF OneCallAtATime
<1>4. ASSUME Restart
      PROVE  OneCallAtATime' /\ (disturbed => disturbed')
  <2>1. InUse' = {}
    BY <1>4 DEF Restart, Idle, InUse
  <2> QED BY <1>4, <2>1 DEF Restart, OneCallAtATime
<1>5. ASSUME NEW t \in Tabs, TimesOut(t)
      PROVE  OneCallAtATime' /\ (disturbed => disturbed')
  BY <1>5 DEF TimesOut, OneCallAtATime
<1>6. ASSUME NEW c \in Calls, EndsUnheard(c)
      PROVE  OneCallAtATime' /\ (disturbed => disturbed')
  <2>1. c \in InUse /\ (disturbed => disturbed') /\ ~Awaited(c)
    BY <1>6 DEF EndsUnheard, InUse
  <2> QED BY <1>0, <2>1 DEF OneCallAtATime, Awaited
<1> QED BY <1>1, <1>2, <1>3, <1>4, <1>5, <1>6, WaitMoves

\* A step that saves no row and hands out no answer.
Unanswering ==
  /\ \A s \in Sessions : row'[s].request = row[s].request
  /\ \A c \in Calls : AnsweredOk(c) => call'[c] = call[c]
  /\ \A c \in Calls : AnsweredOk(c)' => AnsweredOk(c)
  /\ UNCHANGED cookie

\* Undisturbed, these are a save, a reply and a restart.
LEMMA AnswerMoves ==
  ASSUME IInv, [Next]_vars, ~disturbed, ~disturbed'
  PROVE  \/ Unanswering
         \/ \E c \in Calls : Save(c) \/ \E t \in Tabs : Reply(t, c)
         \/ Restart
<1> USE DEF IInv
<1>0. /\ TypeOK /\ call \in [Calls -> CallType] /\ row \in [Sessions -> RowType]
  BY RecordsTyped
<1>1. ASSUME UNCHANGED <<call, cookie>>, \A s \in Sessions : row'[s].request = row[s].request
      PROVE  Unanswering
  BY <1>1 DEF Unanswering, AnsweredOk
<1>2. ASSUME NEW w \in Writers, Write(w)
      PROVE  Unanswering
  <2>1. /\ copy[w].session \in Sessions
        /\ row'[copy[w].session].request = copy[w].request
        /\ \A s \in Sessions \ {copy[w].session} : row'[s] = row[s]
    <3>1. row'[copy[w].session] = [status |-> copy[w].status, request |-> copy[w].request]
      BY <1>0, <1>2, WrittenRow
    <3> QED BY <1>0, <1>2, <3>1, WrittenRow
  <2>2. copy[w].request = row[copy[w].session].request
    BY <2>1, NoneApart DEF CopiesCurrent
  <2> QED BY <1>1, <1>2, <2>1, <2>2 DEF Write, browser
<1>4. ASSUME UNCHANGED <<row, cookie>>, NEW c \in Calls, ~AnsweredOk(c), ~AnsweredOk(c)',
             \A d \in Calls \ {c} : call'[d] = call[d]
      PROVE  Unanswering
  BY <1>4 DEF Unanswering, AnsweredOk
<1>5. ASSUME NEW c \in Calls, NEW answer \in Answers \ {"ok"}, AnswerWith(c, answer),
             call[c].pc # "reply", UNCHANGED <<row, cookie>>
      PROVE  Unanswering
  <2>1. ~AnsweredOk(c)' /\ \A d \in Calls \ {c} : call'[d] = call[d]
    BY <1>0, <1>5, Answered DEF AnsweredOk, Idle
  <2> QED BY <1>4, <1>5, <2>1 DEF AnsweredOk
<1>6. ASSUME NEW c \in Calls, Lookup(c)
      PROVE  Unanswering
  <2>1. CASE call' = [call EXCEPT ![c].pc = "request"]
    <3>1. call'[c].pc = "request"
      BY <1>0, <2>1 DEF CallType
    <3> QED BY <1>0, <1>4, <1>6, <2>1, <3>1 DEF Lookup, AnsweredOk, browser
  <2> QED BY <1>5, <1>6, <2>1 DEF Lookup, Answers, browser
<1>7. ASSUME NEW c \in Calls, RequestIssued(c)
      PROVE  Unanswering
  <2>1. call' = [call EXCEPT ![c].pc = "save", ![c].request = Len(issued) + 1]
          /\ call[c].pc = "request" /\ UNCHANGED <<row, cookie>>
    BY <1>7 DEF RequestIssued, browser
  <2>2. call'[c].pc = "save" /\ \A d \in Calls \ {c} : call'[d] = call[d]
    BY <1>0, <2>1 DEF CallType
  <2> QED BY <1>4, <2>1, <2>2 DEF AnsweredOk
<1>8. ASSUME NEW c \in Calls, RequestFails(c) \/ SaveFails(c)
      PROVE  Unanswering
  BY <1>5, <1>8 DEF RequestFails, SaveFails, Answers, browser
<1>9. ASSUME NEW t \in Tabs, NEW c \in Calls, NEW page, Post(t, c, page)
      PROVE  Unanswering
  <2>1. call'[c].pc = "lookup"
    BY <1>0, <1>9 DEF Post, Idle
  <2> QED BY <1>0, <1>4, <1>9, <2>1 DEF Post, AnsweredOk
<1>10. ASSUME UNCHANGED <<row, call, cookie>>
       PROVE  Unanswering
  BY <1>1, <1>10
<1>11. ASSUME NEW c \in Calls, Proceed(c)
       PROVE  Unanswering \/ Save(c) \/ \E t \in Tabs : Reply(t, c)
  BY <1>6, <1>7, <1>8, <1>11 DEF Proceed
<1>12. \A t \in Tabs, c \in Calls :
         /\ Retry(t, c) => Unanswering
         /\ \A s \in Sessions : EnterCode(t, s, c) => Unanswering
  BY <1>9 DEF Retry, EnterCode
<1>13. \A t \in Tabs :
         /\ GiveUp(t) \/ Scan(t) \/ PollStatus(t) \/ PollAnswered(t)
              \/ PollFails(t) \/ CountdownEnds(t) \/ StartOver(t) => Unanswering
         /\ ~TimesOut(t)
         /\ \A s \in Sessions : OpenPresent(t, s) => Unanswering
  BY <1>10 DEF OpenPresent, GiveUp, TimesOut, Scan, PollStatus, PollAnswered, PollFails,
               CountdownEnds, StartOver, api, browser
<1>14. LoadCredential \/ UNCHANGED vars => Unanswering
  BY <1>10 DEF LoadCredential, browser, vars
<1>15. \A w \in Writers :
         /\ \A r \in 1 .. Len(issued) : Callback(w, r) => Unanswering
         /\ \A s \in Sessions : Settle(w, s) => Unanswering
         /\ WriteFails(w) => Unanswering
  BY <1>10 DEF Callback, Settle, Reads, WriteFails, browser
<1> QED BY <1>2, <1>11, <1>12, <1>13, <1>14, <1>15 DEF Next

\* Undisturbed, no writer has a row that a call replaces.
LEMMA CopiesStayCurrent ==
  ASSUME IInv, TypeOK', [Next]_vars
  PROVE  CopiesCurrent'
<1> USE DEF IInv
<1>0. /\ TypeOK /\ call \in [Calls -> CallType] /\ row \in [Sessions -> RowType]
      /\ copy \in [Writers -> CopyType]
  BY RecordsTyped
<1> SUFFICES ASSUME ~disturbed', NEW w \in Writers, copy'[w].session # None
             PROVE  /\ copy'[w].request = row'[copy'[w].session].request
                    /\ \A c \in InUse' : call'[c].session # copy'[w].session
  BY DEF CopiesCurrent
<1>1. /\ ~disturbed
      /\ \A v \in Writers : copy[v].session # None =>
           /\ copy[v].session \in Sessions
           /\ copy[v].request = row[copy[v].session].request
           /\ \A c \in InUse : call[c].session # copy[v].session
  <2>1. ~disturbed
    BY OneCallStays
  <2> QED BY <1>0, <2>1 DEF CopiesCurrent, CopyType
<1>2. ASSUME copy'[w] = copy[w]
      PROVE  /\ copy'[w].request = row'[copy'[w].session].request
             /\ \A c \in InUse' : call'[c].session # copy'[w].session
  <2> DEFINE s == copy[w].session
  <2>1. row'[s].request = row[s].request
    <3>1. ASSUME NEW c \in Calls, Save(c)  PROVE row'[s] = row[s]
      <4>1. c \in InUse
        BY <3>1 DEF Save, InUse
      <4>2. CallsSound
        OBVIOUS
      <4>3. call[c].session # s
        BY <1>1, <1>2, <4>1
      <4>4. s \in Sessions
        BY <1>1, <1>2
      <4> QED BY <1>0, <3>1, <4>2, <4>3, <4>4, SavedRow
    <3>2. ASSUME NEW v \in Writers, Write(v)  PROVE row'[s].request = row[s].request
      <4>1. copy[v].session \in Sessions /\ copy[v].session # None
        BY <1>0, <3>2, WrittenRow, NoneApart
      <4>2. /\ row'[copy[v].session] = [status |-> copy[v].status, request |-> copy[v].request]
            /\ \A u \in Sessions \ {copy[v].session} : row'[u] = row[u]
        BY <1>0, <3>2, WrittenRow
      <4>3. row'[copy[v].session].request = row[copy[v].session].request
        BY <1>1, <4>1, <4>2
      <4>4. s \in Sessions
        BY <1>1, <1>2
      <4> QED BY <4>2, <4>3, <4>4
    <3> QED BY <3>1, <3>2, RowMoves
  <2>2. ASSUME NEW c \in Calls, call'[c].pc # "idle"
        PROVE  call'[c].session # s
    <3>1. CASE RequestIssued(c)
      <4>1. call'[c].session = call[c].session /\ call[c].pc # "idle"
        BY <1>0, <3>1 DEF RequestIssued, CallType
      <4> QED BY <1>1, <1>2, <4>1 DEF InUse
    <3> QED BY <1>1, <1>2, <2>2, <3>1, CallMoves DEF InUse
  <2> QED BY <1>1, <1>2, <2>1, <2>2 DEF InUse
<1>3. ASSUME NEW s \in Sessions, NEW status, Reads(w, s, status)
      PROVE  /\ copy'[w].request = row'[copy'[w].session].request
             /\ \A c \in InUse' : call'[c].session # copy'[w].session
  <2>1. copy'[w].session = s /\ copy'[w].request = row[s].request
    <3>1. copy'[w] = [session |-> s, status |-> status, request |-> row[s].request]
      BY <1>0, <1>3, TakenCopy DEF Reads
    <3> QED BY <3>1
  <2>2. UNCHANGED <<row, call>> /\ \A c \in InUse : call[c].session # s
    BY <1>3 DEF Reads
  <2> QED BY <2>1, <2>2 DEF InUse
<1> QED BY <1>2, <1>3, CopyMoves

\* Undisturbed, only the call that was answered last has changed its row.
LEMMA RowFollowedStays ==
  ASSUME IInv, TypeOK', OneCallAtATime', [Next]_vars
  PROVE  RowFollowed'
<1> USE DEF IInv
<1>0. /\ TypeOK /\ call \in [Calls -> CallType] /\ row \in [Sessions -> RowType]
      /\ tab \in [Tabs -> TabType]
  BY RecordsTyped
<1> SUFFICES ASSUME ~disturbed'
             PROVE  /\ \A c \in Calls : AnsweredOk(c)' =>
                         row'[call'[c].session].request = call'[c].request
                    /\ cookie'.request # 0 =>
                         \/ row'[cookie'.session].request = cookie'.request
                         \/ \E c \in Calls : AnsweredOk(c)'
  BY DEF RowFollowed
<1>1. /\ ~disturbed
      /\ \A c \in Calls : AnsweredOk(c) =>
           call[c].session \in Sessions /\ row[call[c].session].request = call[c].request
      /\ cookie.request # 0 =>
           /\ cookie.session \in Sessions
           /\ \/ row[cookie.session].request = cookie.request
              \/ \E c \in Calls : AnsweredOk(c)
      /\ \A c, d \in InUse : c = d
      /\ \A c \in InUse : \E t \in Tabs : tab[t].waits = c
      /\ \A c \in Calls : AnsweredOk(c) => c \in InUse
  <2>1. ~disturbed
    BY OneCallStays
  <2>2. cookie.request # 0 => cookie.session \in Sessions
    BY <1>0 DEF CookieSound, IssuedFor, TypeOK
  <2>3. \A c \in Calls : AnsweredOk(c) => call[c].session \in Sessions /\ c \in InUse
    BY DEF CallsSound, CallSound, AnsweredOk, InUse
  <2> QED BY <2>1, <2>2, <2>3 DEF RowFollowed, OneCallAtATime
<1>2. CASE Unanswering
  BY <1>1, <1>2 DEF Unanswering, AnsweredOk
<1>3. \A c \in InUse : Awaited(c)
  BY <1>1 DEF Awaited
<1>4. ASSUME NEW c \in Calls, Save(c)
      PROVE  /\ \A d \in Calls : AnsweredOk(d)' =>
                  row'[call'[d].session].request = call'[d].request
             /\ \E d \in Calls : AnsweredOk(d)'
  <2>1. AnswerWith(c, "ok") /\ call[c].pc = "save"
    BY <1>4 DEF Save
  <2>2. /\ call'[c].pc = "reply" /\ call'[c].answer = "ok"
        /\ call'[c].session = call[c].session /\ call'[c].request = call[c].request
        /\ \A d \in Calls \ {c} : call'[d] = call[d]
    BY <1>0, <1>3, <2>1, Answered DEF Answers, InUse
  <2>3. \A d \in Calls : AnsweredOk(d)' => d = c
    BY <1>1, <2>1, <2>2 DEF AnsweredOk, InUse
  <2>4. row'[call[c].session].request = call[c].request
    <3>1. CallsSound
      OBVIOUS
    <3>2. row'[call[c].session] = [status |-> "pending", request |-> call[c].request]
      BY <1>0, <1>4, <3>1, SavedRow
    <3> QED BY <3>2
  <2> QED BY <2>2, <2>3, <2>4 DEF AnsweredOk
<1>5. ASSUME NEW c \in Calls, NEW t \in Tabs, Reply(t, c)
      PROVE  /\ \A d \in Calls : ~AnsweredOk(d)'
             /\ cookie'.request # 0 => row'[cookie'.session].request = cookie'.request
  <2>1. /\ call[c].pc = "reply" /\ call' = [call EXCEPT ![c] = Idle] /\ row' = row
    BY <1>5 DEF Reply
  <2>2. \A d \in Calls : ~AnsweredOk(d)'
    BY <1>0, <1>1, <2>1 DEF AnsweredOk, InUse, Idle
  <2>3. CASE AnsweredOk(c)
    <3>1. cookie' = [session |-> call[c].session, request |-> call[c].request]
      BY <1>5, <2>3 DEF Reply, AnsweredOk
    <3> QED BY <1>1, <2>1, <2>2, <2>3, <3>1
  <2>4. CASE ~AnsweredOk(c)
    <3>1. cookie' = cookie
      BY <1>0, <1>5, <2>4 DEF Reply, AnsweredOk, CallType, Answers
    <3>2. \A d \in Calls : ~AnsweredOk(d)
      BY <1>1, <2>1, <2>4 DEF InUse
    <3> QED BY <1>1, <2>1, <2>2, <3>1, <3>2
  <2> QED BY <2>3, <2>4
<1>6. CASE Restart
  <2>1. \A c \in Calls : ~AnsweredOk(c) /\ ~AnsweredOk(c)'
    BY <1>6 DEF Restart, AnsweredOk, InUse, Idle
  <2> QED BY <1>1, <1>6, <2>1 DEF Restart
<1> QED BY <1>1, <1>2, <1>4, <1>5, <1>6, AnswerMoves

-----------------------------------------------------------------------------
(* The theorems.                                                           *)

LEMMA InitIInv == Init => IInv
<1> SUFFICES ASSUME Init  PROVE IInv
  OBVIOUS
<1>1. TypeOK
  <2>1. row \in [Sessions -> [status : {"pending"} \cup Final, request : Requests]]
    BY NoRequest DEF Init
  <2>2. call \in [Calls -> CallType] /\ tab \in [Tabs -> TabType]
    BY EmptyTyped DEF Init
  <2>3. issued \in Seq(Sessions) /\ Len(issued) <= MaxRequests /\ presented \subseteq 1 .. Len(issued)
    BY CallerAssumption DEF Init
  <2>4. cookie \in [session : Sessions \cup {None}, request : Requests]
    BY NoRequest DEF Init
  <2>5. copy \in [Writers -> CopyType]
    BY EmptyTyped DEF Init
  <2>6. /\ credential \in {"unloaded", "loaded", "faulted"}
        /\ history \in [Sessions -> SUBSET Final]
        /\ visited \subseteq Sessions
        /\ disturbed \in BOOLEAN
        /\ used \in [{"faults", "posts"} -> Nat]
    BY DEF Init
  <2> QED BY <2>1, <2>2, <2>3, <2>4, <2>6, <2>5 DEF TypeOK, CallType, CopyType, TabType
<1>2. /\ \A c \in Calls : call[c] = Idle
      /\ \A t \in Tabs : tab[t] = Index
      /\ \A w \in Writers : copy[w].session = None
      /\ InUse = {}
  BY DEF Init, InUse, Idle, NoCopy
<1>3. CallsSound /\ CopiesSound /\ RowsSound /\ CookieSound
  BY <1>2 DEF Init, CopiesSound, CopySound, CallsSound, CallSound, RowsSound, RowSound, CookieSound, IssuedFor, Idle, Final
<1>4. PagesSound
  BY <1>1, <1>2, CallerAssumption
     DEF PagesSound, PageSound, Index, TypeOK, Final, Init
<1>5. WaitsApart /\ OneCallAtATime /\ CopiesCurrent /\ RowFollowed
  BY <1>2 DEF Init, WaitsApart, CopiesCurrent, OneCallAtATime, RowFollowed, AnsweredOk, Index, Idle
<1> QED BY <1>1, <1>3, <1>4, <1>5 DEF IInv

LEMMA StepIInv == IInv /\ [Next]_vars => IInv'
<1> SUFFICES ASSUME IInv, [Next]_vars  PROVE IInv'
  OBVIOUS
<1>1. TypeOK'
  BY StepTypeOK DEF IInv
<1> QED BY <1>1, CallsStaySound, CopiesStaySound, RowsStaySound, PagesStaySound, CookieStaysSound,
           WaitsStayApart, OneCallStays, CopiesStayCurrent, RowFollowedStays
   DEF IInv

\* Whatever is under way, given up or lost, every copy of a session, a request or
\* an outcome is one the API made (Index.cshtml.cs 47-70, present.js 8-37).
THEOREM Invariance == Spec => []IInv
BY InitIInv, StepIInv, PTL DEF Spec

\* The variables keep their types.
THEOREM TypeCorrect == Spec => []TypeOK
<1>1. IInv => TypeOK
  BY DEF IInv
<1> QED BY <1>1, Invariance, PTL

\* "Verified" and "expired or failed" are only shown of sessions that were,
\* however many tabs poll and however late the answers (present.js 21-37).
THEOREM CallerIsShownTrue == Spec => []CallerShownTrue
<1>1. IInv => CallerShownTrue
  BY DEF IInv, PagesSound, PageSound, CallerShownTrue
<1> QED BY <1>1, Invariance, PTL

\* Unless a call was given up or lost, or its save failed in doubt, or it ran beside
\* another call or a writer of its session's row, the QR code handed out is the one the
\* API accepts (Index.cshtml.cs 47-70, VerificationController 146-180).
THEOREM GivenRequestStaysCurrent == Spec => []GivenRequestIsCurrent
<1>1. IInv => GivenRequestIsCurrent
  BY DEF IInv, RowFollowed, GivenRequestIsCurrent, InUse, AnsweredOk
<1> QED BY <1>1, Invariance, PTL

\* A session is only verified through a QR code displayed and issued for it, even
\* where calls overlap and are retried (CallbackController 78-102).
THEOREM VerifiedThroughOwn == Spec => []VerifiedThroughOwnRequest
<1>1. IInv => VerifiedThroughOwnRequest
  <2> SUFFICES ASSUME IInv, NEW s \in Sessions, row[s].status = "verified"
               PROVE  row[s].request \in presented /\ issued[row[s].request] = s
    BY DEF VerifiedThroughOwnRequest
  <2>1. RowSound(s) /\ presented \subseteq 1 .. Len(issued) /\ issued \in Seq(Sessions)
    BY DEF IInv, RowsSound, TypeOK
  <2> QED BY <2>1 DEF RowSound, IssuedFor
<1> QED BY <1>1, Invariance, PTL

=============================================================================
