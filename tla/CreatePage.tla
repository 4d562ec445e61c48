------------------------------ MODULE CreatePage ------------------------------
(***************************************************************************)
(* The page on which an agent chooses a caller and requests a              *)
(* verification.  Two scripts share its submit button: the directory       *)
(* search (debounced, aborted, cached) with its manual entry, and the      *)
(* panel of active sessions, which polls.  The portal posts the form to    *)
(* the API through an HTTP client that repeats a failed generate.          *)
(*                                                                         *)
(* What the API answers is left open: how many sessions the agent has      *)
(* depends on other pages, callbacks and sweeps, and on when another       *)
(* attempt's row is created (see VerificationApi).                         *)
(*                                                                         *)
(* A query is named for the person it finds, Nobody for one that finds     *)
(* nobody.                                                                 *)
(***************************************************************************)
EXTENDS Naturals, Sequences

CONSTANTS
  People,
  Nobody, None,
  CacheSize,     \* answers the search script keeps (50)
  MaxRetries,    \* of the HTTP client, per submission
  MaxPosts,      \* bound: submissions
  MaxInputs      \* bound: edits of the search box and the manual field

ASSUME CreateAssumption ==
  /\ {MaxRetries, MaxPosts, MaxInputs} \subseteq Nat
  /\ CacheSize \in Nat \ {0}
  /\ Nobody \notin People /\ None \notin People \cup {Nobody}
  /\ People \cap {"hidden", "searching", "message", "partial"} = {}

VARIABLES
  box,         \* the query in the search box; None if it is too short
  debounce,    \* the query the search timer is set for
  searches,    \* the searches under way that were not aborted
  cache,       \* the queries whose answers are kept, oldest first
  list,        \* what the result list displays: a query's results, or not
  manual,      \* the manual field: hidden, or its text
  form,        \* whose e-mail address the form would submit
  label,       \* whom the page displays as selected
  enabled,     \* is the submit button enabled
  panel,       \* the panel's request: None, or how many sessions its answer lists
  post,        \* the submissions, in order; the last one has the page
  view,
  overtaken,   \* is a search under way, or set, for another query than the box's
  reopened,    \* did the panel enable a button the search script had disabled
  inputs

vars == <<box, debounce, searches, cache, list, manual, form, label, enabled, panel,
          post, view, overtaken, reopened, inputs>>
search == <<box, debounce, searches, cache, list, overtaken>>
choice == <<manual, form, label, enabled, reopened>>

Queries == People \cup {Nobody}
Counts == {"none", "some", "full"}
Stages == {"generate", "created", "refused", "error", "done"}

TypeOK ==
  /\ box \in Queries \cup {None}
  /\ debounce \in Queries \cup {None}
  /\ searches \subseteq Queries
  /\ cache \in Seq(Queries) /\ Len(cache) <= CacheSize
  /\ list \in People \cup {"hidden", "searching", "message"}
  /\ manual \in People \cup {"hidden", "partial"}
  /\ form \in People \cup {None}
  /\ label \in People \cup {None}
  /\ enabled \in BOOLEAN
  /\ panel \in Counts \cup {None}
  /\ post \in Seq([stage : Stages, caller : People \cup {None}, retries : 0 .. MaxRetries])
  /\ view \in {"create", "pending"}
  /\ overtaken \in BOOLEAN
  /\ reopened \in BOOLEAN
  /\ inputs \in 0 .. MaxInputs

Init ==
  /\ box = None /\ debounce = None /\ searches = {} /\ cache = <<>> /\ list = "hidden"
  /\ manual = "hidden" /\ form = None /\ label = None /\ enabled = FALSE
  /\ panel = None
  /\ post = <<>>
  /\ view = "create"
  /\ overtaken = FALSE /\ reopened = FALSE
  /\ inputs = 0

OnPage == view = "create" /\ UNCHANGED view

Input ==
  /\ OnPage
  /\ inputs < MaxInputs
  /\ inputs' = inputs + 1

-----------------------------------------------------------------------------
(* The directory search.                                                   *)

Type(q) ==
  /\ Input
  /\ box' = q
  /\ debounce' = q
  /\ overtaken' = (searches # {})
  /\ IF q = None THEN list' = "hidden" ELSE UNCHANGED list
  /\ UNCHANGED <<searches, cache, choice, panel, post>>

ShowResults(q) == list' = IF q = Nobody THEN "hidden" ELSE q

ShowMessage ==
  /\ list' = "message"
  /\ manual' = IF manual = "hidden" THEN "partial" ELSE manual

Cached(q) == \E i \in 1 .. Len(cache) : cache[i] = q

\* The kept answer is shown, and a search under way goes on.
SearchCached ==
  /\ OnPage
  /\ debounce # None /\ Cached(debounce)
  /\ debounce' = None
  /\ ShowResults(debounce)
  /\ UNCHANGED <<box, searches, cache, overtaken, choice, panel, post, inputs>>

\* Mutant: the search under way is not aborted.
SearchStartsBeside ==
  /\ OnPage
  /\ debounce # None /\ ~Cached(debounce)
  /\ debounce' = None
  /\ searches' = searches \cup {debounce}
  /\ list' = "searching"
  /\ overtaken' = (debounce # box)
  /\ UNCHANGED <<box, cache, choice, panel, post, inputs>>

SearchStarts ==
  /\ OnPage
  /\ debounce # None /\ ~Cached(debounce)
  /\ debounce' = None
  /\ searches' = {debounce}
  /\ list' = "searching"
  /\ overtaken' = (debounce # box)
  /\ UNCHANGED <<box, cache, choice, panel, post, inputs>>

\* Mutant: the oldest answer is not dropped.
KeepAll(q) == cache' = Append(cache, q)

Keep(q) ==
  LET longer == Append(cache, q)
  IN  cache' = IF Len(longer) > CacheSize THEN Tail(longer) ELSE longer

SearchAnswered(q) ==
  /\ OnPage
  /\ q \in searches
  /\ searches' = searches \ {q}
  /\ Keep(q)
  /\ ShowResults(q)
  /\ UNCHANGED <<box, debounce, overtaken, choice, panel, post, inputs>>

\* Mutant: a failed search leaves the list as it is.
SearchFailsSilently(q) ==
  /\ OnPage
  /\ q \in searches
  /\ searches' = searches \ {q}
  /\ UNCHANGED <<box, debounce, cache, list, overtaken, choice, panel, post, inputs>>

SearchFails(q) ==
  /\ OnPage
  /\ q \in searches
  /\ searches' = searches \ {q}
  /\ ShowMessage
  /\ UNCHANGED <<box, debounce, cache, overtaken, form, label, enabled, reopened, panel,
                 post, inputs>>

\* A click elsewhere.
HideResults ==
  /\ OnPage
  /\ list # "hidden"
  /\ list' = "hidden"
  /\ UNCHANGED <<box, debounce, searches, cache, overtaken, choice, panel, post, inputs>>

-----------------------------------------------------------------------------
(* Choosing the caller.                                                    *)

Choose(p) ==
  /\ form' = p
  /\ enabled' = TRUE
  /\ reopened' = FALSE

\* Mutant: an address chosen before is kept.
SelectCallerKeepsForm ==
  /\ OnPage
  /\ list \in People
  /\ Choose(IF form = None THEN list ELSE form)
  /\ label' = list
  /\ box' = list
  /\ list' = "hidden"
  /\ overtaken' = (searches # {} \/ debounce # None)
  /\ UNCHANGED <<debounce, searches, cache, manual, panel, post, inputs>>

\* Timer and search under way are left alone.
SelectCaller ==
  /\ OnPage
  /\ list \in People
  /\ Choose(list)
  /\ label' = list
  /\ box' = list
  /\ list' = "hidden"
  /\ overtaken' = (searches # {} \/ debounce # None)
  /\ UNCHANGED <<debounce, searches, cache, manual, panel, post, inputs>>

TypeManual(text) ==
  /\ Input
  /\ manual # "hidden"
  /\ manual' = text
  /\ IF text \in People
       THEN Choose(text)
       ELSE enabled' = FALSE /\ reopened' = FALSE /\ UNCHANGED form
  /\ UNCHANGED <<search, label, panel, post>>

-----------------------------------------------------------------------------
(* The panel of active sessions.                                           *)

\* The list is empty too when the portal has no token for the API.
PanelAsks ==
  /\ OnPage
  /\ panel = None
  /\ panel' \in Counts
  /\ UNCHANGED <<search, choice, post, inputs>>

\* An empty list enables the button, whoever disabled it and why.
PanelAnswered ==
  /\ OnPage
  /\ panel # None
  /\ panel' = None
  /\ enabled' = (panel = "none" \/ (panel = "some" /\ enabled))
  /\ reopened' = (reopened \/ (panel = "none" /\ ~enabled))
  /\ UNCHANGED <<search, manual, form, label, post, inputs>>

PanelFails ==
  /\ OnPage
  /\ panel # None
  /\ panel' = None
  /\ UNCHANGED <<search, choice, post, inputs>>

-----------------------------------------------------------------------------
(* Submitting: the portal's post, and generate behind it.                  *)

Last == Len(post)
Posting == view = "create" /\ post # <<>> /\ post[Last].stage # "done"

\* Without a caller the model is not valid.
Submit ==
  /\ OnPage
  /\ enabled
  /\ Last < MaxPosts
  /\ enabled' = FALSE
  /\ post' = Append(post, [stage |-> IF form = None THEN "refused" ELSE "generate",
                          caller |-> form, retries |-> 0])
  /\ UNCHANGED <<search, manual, form, label, reopened, panel, inputs>>

To(i, stage) == post' = [post EXCEPT ![i].stage = stage]

\* The portal has no token for the API: it says so, or asks for a sign-in, after
\* which the form is gone.
NoToken(i) ==
  /\ post[i].stage = "generate"
  /\ post[i].retries = 0
  /\ To(i, "error")
  /\ UNCHANGED <<search, choice, panel, view, inputs>>

\* At the cap the API refuses, and is not asked again.
Refused(i) ==
  /\ post[i].stage = "generate"
  /\ To(i, "refused")
  /\ UNCHANGED <<search, choice, panel, view, inputs>>

\* The row is created and the caller notified.
Generated(i) ==
  /\ post[i].stage = "generate"
  /\ To(i, "created")
  /\ UNCHANGED <<search, choice, panel, view, inputs>>

\* Mutant: after the last attempt the count starts anew.
FailsForEver(i) ==
  /\ post[i].stage = "generate"
  /\ post' = [post EXCEPT ![i].retries = IF @ < MaxRetries THEN @ + 1 ELSE 0]
  /\ UNCHANGED <<search, choice, panel, view, inputs>>

\* The API answers with an error or too late, before it created the row or
\* after, the notification having failed or not.  It is asked again.
Fails(i) ==
  /\ post[i].stage = "generate"
  /\ post' = [post EXCEPT ![i] =
       IF post[i].retries < MaxRetries
         THEN [post[i] EXCEPT !.retries = @ + 1]
         ELSE [post[i] EXCEPT !.stage = "error"]]
  /\ UNCHANGED <<search, choice, panel, view, inputs>>

FreshPage ==
  /\ box' = None /\ debounce' = None /\ searches' = {} /\ cache' = <<>> /\ list' = "hidden"
  /\ manual' = "hidden" /\ label' = None /\ enabled' = FALSE
  /\ panel' = None
  /\ overtaken' = FALSE /\ reopened' = FALSE

\* The last submission's answer replaces the page: by the pending page, or by
\* this page with the hidden fields that were submitted, or after an exception by the
\* error page, from which this page is opened anew.
Answered(i) ==
  /\ post[i].stage \in {"created", "refused", "error"}
  /\ To(i, "done")
  /\ IF i = Last /\ view = "create"
       THEN /\ FreshPage
            /\ view' = IF post[i].stage = "created" THEN "pending" ELSE "create"
            /\ \/ post[i].stage # "created" /\ form' = post[i].caller
               \/ post[i].stage # "refused" /\ form' = None
       ELSE UNCHANGED <<search, choice, panel, view>>
  /\ UNCHANGED inputs

OpenCreate ==
  /\ view = "pending"
  /\ view' = "create"
  /\ FreshPage
  /\ UNCHANGED <<form, post, inputs>>

-----------------------------------------------------------------------------

PostSteps(i) == NoToken(i) \/ Refused(i) \/ Generated(i) \/ Fails(i) \/ Answered(i)

Next ==
  \/ \E q \in Queries \cup {None} : Type(q)
  \/ SearchCached \/ SearchStarts
  \/ \E q \in Queries : SearchAnswered(q) \/ SearchFails(q)
  \/ HideResults \/ SelectCaller
  \/ \E text \in People \cup {"partial"} : TypeManual(text)
  \/ PanelAsks \/ PanelAnswered \/ PanelFails
  \/ Submit
  \/ \E i \in 1 .. Last : PostSteps(i)
  \/ OpenCreate

Spec == Init /\ [][Next]_vars

\* Timers fire, searches and posts are answered.
Fairness ==
  /\ WF_vars(SearchCached \/ SearchStarts)
  /\ \A q \in Queries : WF_vars(SearchAnswered(q) \/ SearchFails(q))
  /\ \A i \in 1 .. MaxPosts : WF_vars(i <= Last /\ PostSteps(i))

FairSpec == Spec /\ Fairness

-----------------------------------------------------------------------------
(* Properties.                                                             *)

\* Unless a kept answer, a cleared box or a selection has overtaken a search
\* under way, the results displayed are those of the query in the box
\* (directory-search.js 6-52).
ResultsMatchBox ==
  list \in People /\ debounce = None /\ ~overtaken => list = box

\* Unless the panel has enabled it, the button is enabled only for a caller the
\* page displays, as selected or in the manual field (directory-search.js 77-113).
EnabledForShownCaller ==
  enabled /\ ~reopened => form # None /\ form \in {label, manual}

\* The list does not say "Searching..." for ever, whatever is typed, aborted or
\* fails meanwhile (directory-search.js 22-51).
SearchingEnds == list = "searching" ~> list # "searching"

\* A submission comes to an end, whatever fails and is repeated.
PostingEnds == Posting ~> ~Posting

=============================================================================
