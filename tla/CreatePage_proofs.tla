-------------------------- MODULE CreatePage_proofs --------------------------
(***************************************************************************)
(* Theorems about CreatePage, for any directory, any size of the cache,    *)
(* any answers of the API, and any number of submissions and retries.      *)
(*                                                                         *)
(* The list shows the answer of whatever search ends, so what it shows is  *)
(* the box's query only if nothing else is on its way: not under way, and  *)
(* not set on the timer.  The button's invariant is inductive as it is,    *)
(* once the text the script writes into the manual field is nobody's.      *)
(***************************************************************************)
EXTENDS CreatePage, TLAPS

\* While nothing is overtaken, timer and searches are those of the query in the box,
\* and the timer is set only if no search is under way.
SearchesOfBox ==
  ~overtaken => /\ debounce \in {None, box}
                /\ debounce # None => searches = {}
                /\ searches \subseteq {box}

IInv ==
  /\ TypeOK
  /\ SearchesOfBox
  /\ ResultsMatchBox
  /\ EnabledForShownCaller

PostType == [stage : Stages, caller : People \cup {None}, retries : 0 .. MaxRetries]

-----------------------------------------------------------------------------
(* Types.                                                                  *)

\* A page that is opened is empty, but for the hidden fields of the form.
LEMMA FreshTyped ==
  ASSUME TypeOK, FreshPage, form' \in People \cup {None}, post' \in Seq(PostType),
         view' \in {"create", "pending"}, UNCHANGED inputs
  PROVE  TypeOK'
<1>1. cache' \in Seq(Queries) /\ Len(cache') <= CacheSize
  BY CreateAssumption DEF FreshPage
<1> QED BY <1>1 DEF TypeOK, FreshPage, PostType

\* The cache forgets its oldest answer when it is full.
LEMMA KeepTyped ==
  ASSUME TypeOK, NEW q \in Queries, Keep(q)
  PROVE  cache' \in Seq(Queries) /\ Len(cache') <= CacheSize
<1>1. cache \in Seq(Queries) /\ Len(cache) <= CacheSize /\ CacheSize \in Nat \ {0}
  BY CreateAssumption DEF TypeOK
<1> DEFINE longer == Append(cache, q)
<1>2. longer \in Seq(Queries) /\ Len(longer) = Len(cache) + 1 /\ longer # <<>>
  BY <1>1
<1>3. cache' = IF Len(longer) > CacheSize THEN Tail(longer) ELSE longer
  BY DEF Keep
<1> HIDE DEF longer
<1>4. Tail(longer) \in Seq(Queries) /\ Len(Tail(longer)) = Len(longer) - 1
  BY <1>2
<1> QED BY <1>1, <1>2, <1>3, <1>4

\* Every submission under way is a record of its stage, caller and attempts.
LEMMA PostsTyped ==
  TypeOK => post \in Seq(PostType) /\ \A i \in 1 .. Last : post[i] \in PostType
<1>1. TypeOK => post \in Seq(PostType)
  BY DEF TypeOK, PostType
<1> QED BY <1>1 DEF Last

\* Replacing one keeps the sequence a sequence of submissions; so does a new stage.
LEMMA PostTyped ==
  ASSUME TypeOK, NEW i \in 1 .. Last, NEW p \in PostType, post' = [post EXCEPT ![i] = p]
  PROVE  post' \in Seq(PostType)
BY PostsTyped DEF Last

LEMMA StageTyped ==
  ASSUME TypeOK, NEW i \in 1 .. Last, NEW stage \in Stages, To(i, stage)
  PROVE  post' \in Seq(PostType)
<1>1. post[i] \in PostType
  BY PostsTyped
<1>2. [post[i] EXCEPT !.stage = stage] \in PostType
  BY <1>1 DEF PostType
<1>3. post' = [post EXCEPT ![i] = [post[i] EXCEPT !.stage = stage]]
  BY DEF To
<1> QED BY <1>2, <1>3, PostTyped

LEMMA StepTypeOK ==
  ASSUME TypeOK, [Next]_vars
  PROVE  TypeOK'
<1>0. /\ {MaxRetries, MaxPosts, MaxInputs, CacheSize} \subseteq Nat
      /\ post \in Seq(PostType) /\ \A i \in 1 .. Last : post[i] \in PostType
  BY CreateAssumption, PostsTyped DEF TypeOK
<1>1. ASSUME NEW q \in Queries \cup {None}, Type(q)
      PROVE  TypeOK'
  BY <1>0, <1>1 DEF TypeOK, Type, Input, OnPage, choice
<1>2. CASE SearchCached
  BY <1>2 DEF TypeOK, SearchCached, ShowResults, OnPage, choice, Queries
<1>3. CASE SearchStarts
  BY <1>3 DEF TypeOK, SearchStarts, OnPage, choice
<1>4. ASSUME NEW q \in Queries, SearchAnswered(q)
      PROVE  TypeOK'
  <2>1. cache' \in Seq(Queries) /\ Len(cache') <= CacheSize
    BY <1>4, KeepTyped DEF SearchAnswered
  <2> QED BY <1>4, <2>1 DEF TypeOK, SearchAnswered, ShowResults, OnPage, choice, Queries
<1>5. ASSUME NEW q \in Queries, SearchFails(q)
      PROVE  TypeOK'
  BY <1>5 DEF TypeOK, SearchFails, ShowMessage, OnPage
<1>6. CASE HideResults
  BY <1>6 DEF TypeOK, HideResults, OnPage, choice
<1>7. CASE SelectCaller
  BY <1>7 DEF TypeOK, SelectCaller, Choose, OnPage, Queries
<1>8. ASSUME NEW text \in People \cup {"partial"}, TypeManual(text)
      PROVE  TypeOK'
  <2>1. inputs' \in 0 .. MaxInputs
    BY <1>0, <1>8 DEF TypeOK, TypeManual, Input
  <2>2. form' \in People \cup {None} /\ enabled' \in BOOLEAN /\ reopened' \in BOOLEAN
    BY <1>8 DEF TypeOK, TypeManual, Choose
  <2> QED BY <1>8, <2>1, <2>2 DEF TypeOK, TypeManual, Input, OnPage, search
<1>9. CASE PanelAsks
  BY <1>0, <1>9 DEF TypeOK, PanelAsks, OnPage, search, choice
<1>10. CASE PanelAnswered
  BY <1>10 DEF TypeOK, PanelAnswered, OnPage, search
<1>11. CASE PanelFails
  BY <1>11 DEF TypeOK, PanelFails, OnPage, search, choice
<1>12. CASE Submit
  <2>1. [stage |-> IF form = None THEN "refused" ELSE "generate",
         caller |-> form, retries |-> 0] \in PostType
    BY <1>0 DEF TypeOK, PostType, Stages
  <2>2. post' \in Seq(PostType)
    BY <1>0, <1>12, <2>1 DEF Submit
  <2> QED BY <1>12, <2>2 DEF TypeOK, Submit, OnPage, search, PostType
<1>13. ASSUME NEW i \in 1 .. Last, NoToken(i) \/ Refused(i)
       PROVE  TypeOK'
  <2>1. post' \in Seq(PostType)
    BY <1>13, StageTyped DEF NoToken, Refused, Stages
  <2> QED BY <1>13, <2>1 DEF TypeOK, NoToken, Refused, search, choice, PostType
<1>14. ASSUME NEW i \in 1 .. Last, Generated(i)
       PROVE  TypeOK'
  <2>1. post' \in Seq(PostType)
    BY <1>14, StageTyped DEF Generated, Stages
  <2> QED BY <1>0, <1>14, <2>1 DEF TypeOK, Generated, search, choice, PostType
<1>15. ASSUME NEW i \in 1 .. Last, Fails(i)
       PROVE  TypeOK'
  <2>2. PICK p : /\ post' = [post EXCEPT ![i] = p]
                 /\ p = IF post[i].retries < MaxRetries
                          THEN [post[i] EXCEPT !.retries = @ + 1]
                          ELSE [post[i] EXCEPT !.stage = "error"]
    BY <1>15 DEF Fails
  <2>3. p \in PostType
    <3>1. post[i].retries \in 0 .. MaxRetries
      BY <1>0 DEF PostType
    <3>2. CASE post[i].retries < MaxRetries
      <4>1. post[i].retries + 1 \in 0 .. MaxRetries
        BY <1>0, <3>1, <3>2
      <4> QED BY <1>0, <2>2, <3>2, <4>1 DEF PostType
    <3>3. CASE ~(post[i].retries < MaxRetries)
      BY <1>0, <2>2, <3>3 DEF PostType, Stages
    <3> QED BY <3>2, <3>3
  <2>4. post' \in Seq(PostType)
    BY <2>2, <2>3, PostTyped
  <2> QED BY <1>15, <2>4 DEF TypeOK, Fails, search, choice, PostType
<1>16. ASSUME NEW i \in 1 .. Last, Answered(i)
       PROVE  TypeOK'
  <2>1. post' \in Seq(PostType)
    BY <1>16, StageTyped DEF Answered, Stages
  <2>2. CASE i = Last /\ view = "create"
    <3>1. form' \in People \cup {None} /\ view' \in {"create", "pending"}
      BY <1>0, <1>16, <2>2 DEF Answered, PostType
    <3> QED BY <1>16, <2>1, <2>2, <3>1, FreshTyped DEF Answered
  <2>3. CASE ~(i = Last /\ view = "create")
    BY <1>16, <2>1, <2>3 DEF TypeOK, Answered, search, choice, PostType
  <2> QED BY <2>2, <2>3
<1>17. CASE OpenCreate
  BY <1>0, <1>17, FreshTyped DEF OpenCreate, TypeOK
<1>18. CASE UNCHANGED vars
  BY <1>18 DEF TypeOK, vars
<1> QED BY <1>1, <1>2, <1>3, <1>4, <1>5, <1>6, <1>7, <1>8, <1>9, <1>10, <1>11, <1>12, <1>13,
           <1>14, <1>15, <1>16, <1>17, <1>18
   DEF Next, PostSteps

-----------------------------------------------------------------------------
(* The list of results.                                                    *)

\* A step that only answers the panel or a post leaves the search alone, an opened
\* page has none.
LEMMA SearchMoves ==
  ASSUME [Next]_vars
  PROVE  \/ UNCHANGED search \/ FreshPage
         \/ \E q \in Queries \cup {None} : Type(q)
         \/ SearchCached \/ SearchStarts
         \/ \E q \in Queries : SearchAnswered(q) \/ SearchFails(q)
         \/ HideResults \/ SelectCaller
<1>1. \A i \in 1 .. Last : PostSteps(i) => UNCHANGED search \/ FreshPage
  BY DEF PostSteps, NoToken, Refused, Generated, Fails, Answered
<1>2. OpenCreate => FreshPage
  BY DEF OpenCreate
<1>3. PanelAsks \/ PanelAnswered \/ PanelFails \/ Submit \/ UNCHANGED vars
        => UNCHANGED search
  BY DEF PanelAsks, PanelAnswered, PanelFails, Submit, search, vars
<1>4. \A text \in People \cup {"partial"} : TypeManual(text) => UNCHANGED search
  BY DEF TypeManual
<1> QED BY <1>1, <1>2, <1>3, <1>4 DEF Next

\* Whatever overtakes a search under way is seen to.
LEMMA SearchesStayOfBox ==
  ASSUME IInv, [Next]_vars
  PROVE  SearchesOfBox' /\ ResultsMatchBox'
<1> USE DEF IInv, SearchesOfBox, ResultsMatchBox
<1>0. /\ People \cap {"hidden", "searching", "message", "partial"} = {}
      /\ None \notin Queries
  BY CreateAssumption DEF Queries
<1>1. CASE UNCHANGED search
  BY <1>1 DEF search
<1>2. CASE FreshPage
  BY <1>0, <1>2 DEF FreshPage
<1>3. ASSUME NEW q \in Queries \cup {None}, Type(q)
      PROVE  SearchesOfBox' /\ ResultsMatchBox'
  BY <1>0, <1>3 DEF Type
<1>4. CASE SearchCached
  BY <1>0, <1>4 DEF SearchCached, ShowResults
<1>5. CASE SearchStarts
  BY <1>0, <1>5 DEF SearchStarts
<1>6. ASSUME NEW q \in Queries, SearchAnswered(q)
      PROVE  SearchesOfBox' /\ ResultsMatchBox'
  BY <1>0, <1>6 DEF SearchAnswered, ShowResults
<1>7. ASSUME NEW q \in Queries, SearchFails(q)
      PROVE  SearchesOfBox' /\ ResultsMatchBox'
  BY <1>0, <1>7 DEF SearchFails, ShowMessage
<1>8. CASE HideResults
  BY <1>0, <1>8 DEF HideResults
<1>9. CASE SelectCaller
  BY <1>0, <1>9 DEF SelectCaller
<1> QED BY <1>1, <1>2, <1>3, <1>4, <1>5, <1>6, <1>7, <1>8, <1>9, SearchMoves

-----------------------------------------------------------------------------
(* The button.                                                             *)

\* What changes the button, the form, or what the page displays of the caller.
LEMMA ChoiceMoves ==
  ASSUME [Next]_vars
  PROVE  \/ UNCHANGED choice \/ FreshPage
         \/ \E q \in Queries : SearchFails(q)
         \/ SelectCaller
         \/ \E text \in People \cup {"partial"} : TypeManual(text)
         \/ PanelAnswered \/ Submit
<1>1. \A i \in 1 .. Last : PostSteps(i) => UNCHANGED choice \/ FreshPage
  BY DEF PostSteps, NoToken, Refused, Generated, Fails, Answered
<1>2. OpenCreate => FreshPage
  BY DEF OpenCreate
<1>3. SearchCached \/ SearchStarts \/ HideResults \/ PanelAsks \/ PanelFails
        \/ UNCHANGED vars => UNCHANGED choice
  BY DEF SearchCached, SearchStarts, HideResults, PanelAsks, PanelFails, choice, vars
<1>4. /\ \A q \in Queries \cup {None} : Type(q) => UNCHANGED choice
      /\ \A q \in Queries : SearchAnswered(q) => UNCHANGED choice
  BY DEF Type, SearchAnswered
<1> QED BY <1>1, <1>2, <1>3, <1>4 DEF Next

\* The button and the caller change together.
LEMMA ButtonStaysShown ==
  ASSUME IInv, TypeOK', [Next]_vars
  PROVE  EnabledForShownCaller'
<1> USE DEF IInv, EnabledForShownCaller
<1>0. /\ People \cap {"hidden", "searching", "message", "partial"} = {}
      /\ None \notin People
      /\ form \in People \cup {None}
      /\ enabled \in BOOLEAN /\ reopened \in BOOLEAN
  BY CreateAssumption DEF TypeOK
<1>1. CASE UNCHANGED choice
  BY <1>1 DEF choice
<1>2. CASE FreshPage
  BY <1>2 DEF FreshPage
<1>3. ASSUME NEW q \in Queries, SearchFails(q)
      PROVE  EnabledForShownCaller'
  BY <1>0, <1>3 DEF SearchFails, ShowMessage
<1>4. CASE SelectCaller
  BY <1>0, <1>4 DEF SelectCaller, Choose
<1>5. ASSUME NEW text \in People \cup {"partial"}, TypeManual(text)
      PROVE  EnabledForShownCaller'
  BY <1>0, <1>5 DEF TypeManual, Choose
<1>6. CASE PanelAnswered
  BY <1>0, <1>6 DEF PanelAnswered
<1>7. CASE Submit
  BY <1>7 DEF Submit
<1> QED BY <1>1, <1>2, <1>3, <1>4, <1>5, <1>6, <1>7, ChoiceMoves

-----------------------------------------------------------------------------
(* The theorems.                                                           *)

LEMMA InitIInv == Init => IInv
<1> SUFFICES ASSUME Init  PROVE IInv
  OBVIOUS
<1>1. TypeOK
  <2>1. cache \in Seq(Queries) /\ Len(cache) <= CacheSize /\ post \in Seq(PostType)
    BY CreateAssumption DEF Init
  <2>2. /\ panel \in Counts \cup {None}
        /\ inputs \in 0 .. MaxInputs
    BY CreateAssumption DEF Init
  <2>3. /\ box \in Queries \cup {None} /\ debounce \in Queries \cup {None}
        /\ searches \subseteq Queries
        /\ list \in People \cup {"hidden", "searching", "message"}
        /\ manual \in People \cup {"hidden", "partial"}
        /\ form \in People \cup {None} /\ label \in People \cup {None}
        /\ enabled \in BOOLEAN /\ overtaken \in BOOLEAN /\ reopened \in BOOLEAN
        /\ view \in {"create", "pending"}
    BY DEF Init
  <2> QED BY <2>1, <2>2, <2>3 DEF TypeOK, PostType
<1>2. SearchesOfBox /\ ResultsMatchBox /\ EnabledForShownCaller
  BY CreateAssumption DEF Init, SearchesOfBox, ResultsMatchBox, EnabledForShownCaller
<1> QED BY <1>1, <1>2 DEF IInv

LEMMA StepIInv == IInv /\ [Next]_vars => IInv'
<1> SUFFICES ASSUME IInv, [Next]_vars  PROVE IInv'
  OBVIOUS
<1>1. TypeOK'
  BY StepTypeOK DEF IInv
<1> QED BY <1>1, SearchesStayOfBox, ButtonStaysShown DEF IInv

\* The page's timer, searches and list, and its button, form and labels, agree
\* whatever is typed, aborted, answered or posted (directory-search.js 6-113).
THEOREM Invariance == Spec => []IInv
BY InitIInv, StepIInv, PTL DEF Spec

\* The variables keep their types: the cache its size, a submission its
\* number of attempts.
THEOREM TypeCorrect == Spec => []TypeOK
<1>1. IInv => TypeOK
  BY DEF IInv
<1> QED BY <1>1, Invariance, PTL

\* Unless a search under way was overtaken, the results displayed are those of the
\* query in the box, whatever the cache keeps (directory-search.js 6-52).
THEOREM ResultsAreOfBox == Spec => []ResultsMatchBox
<1>1. IInv => ResultsMatchBox
  BY DEF IInv
<1> QED BY <1>1, Invariance, PTL

\* Unless the panel has enabled it, the button is enabled only for a caller the
\* page displays (directory-search.js 77-113, active-sessions.js).
THEOREM ButtonIsForShownCaller == Spec => []EnabledForShownCaller
<1>1. IInv => EnabledForShownCaller
  BY DEF IInv
<1> QED BY <1>1, Invariance, PTL

=============================================================================
