--------------------------- MODULE Timeline_proofs ---------------------------
(***************************************************************************)
(* Proofs about the timeline, for every value of the constants that        *)
(* satisfies NamesAssumption and TimelineAssumption.                       *)
(***************************************************************************)
EXTENDS Timeline, TLAPS

\* The search field only ever commits a text of Domain.
LEMMA NormalizeInDomain ==
    ASSUME NEW t \in RawText, ~IsBlank(t)
    PROVE  Normalize(t) \in Domain
BY DEF Domain

\* Marking the requests of an unmounted instance dead keeps them requests.
LEMMA UnmountTyped ==
    ASSUME pending \in SUBSET Request, Unmount
    PROVE  pending' \in SUBSET Request
BY DEF Unmount, Request

\* The effect of TimelineDomainName leaves its variables typed.
LEMMA EffectTyped ==
    ASSUME TypeOK, NEW dom \in Domain \cup {Null}, NEW page \in PageIndex,
           Effect(dom, page)
    PROVE  /\ processing' \in BOOLEAN
           /\ exception' \in PageResult \cup {Null}
           /\ pending' \in SUBSET Request
           /\ nextId' \in Nat
<1>1. CASE dom = Null
  BY <1>1 DEF Effect, TypeOK
<1>2. CASE dom # Null
  <2>1. [id |-> nextId, dom |-> dom, page |-> page, live |-> TRUE] \in Request
    BY <1>2 DEF TypeOK, Request
  <2>2. /\ exception' = Null
        /\ processing' = TRUE
        /\ pending' = pending \cup {[id |-> nextId, dom |-> dom, page |-> page, live |-> TRUE]}
        /\ nextId' = nextId + 1
    BY <1>2 DEF Effect
  <2>3. pending' \in SUBSET Request
    BY <2>1, <2>2, Zenon DEF TypeOK
  <2>4. QED
    BY <2>2, <2>3 DEF TypeOK
<1>3. QED
  BY <1>1, <1>2

\* The initial states are typed.
LEMMA TypeInit == Init => TypeOK
<1> SUFFICES ASSUME Init PROVE TypeOK
  OBVIOUS
<1>1. currentPage \in PageIndex
  BY TimelineAssumption DEF Init, PageIndex
<1>2. pending \in SUBSET Request
  BY <1>1 DEF Init, Request
<1>3. QED
  BY <1>1, <1>2 DEF Init, TypeOK

\* Every step keeps the variables typed.
LEMMA TypeStep == TypeOK /\ [Next]_vars => TypeOK'
<1> USE TimelineAssumption
<1>2. TypeOK /\ [Next]_vars => TypeOK'
  <2> SUFFICES ASSUME TypeOK, [Next]_vars PROVE TypeOK'
    OBVIOUS
  <2>1. CASE ToggleMode
    BY <2>1 DEF ToggleMode, TypeOK
  <2>2. ASSUME NEW t \in RawText, SubmitBlank(t) PROVE TypeOK'
    BY <2>2 DEF SubmitBlank, TypeOK
  <2>3. ASSUME NEW t \in RawText, SubmitDomain(t) PROVE TypeOK'
    <3>1. Normalize(t) \in Domain
      BY <2>3, NormalizeInDomain DEF SubmitDomain
    <3>2. CASE route = "timeline"
      <4>1. CASE Normalize(t) # search
        BY <2>3, <3>1, <3>2, <4>1, EffectTyped DEF SubmitDomain, TypeOK
      <4>2. CASE Normalize(t) = search
        BY <2>3, <3>1, <3>2, <4>2 DEF SubmitDomain, NoEffect, TypeOK
      <4>3. QED
        BY <4>1, <4>2
    <3>3. CASE route # "timeline"
      <4>1. (IF savedPage # Null THEN savedPage ELSE 0) \in PageIndex
        BY DEF TypeOK, PageIndex
      <4>2. QED
        BY <2>3, <3>1, <3>3, <4>1, EffectTyped DEF SubmitDomain, Mount, TypeOK
    <3>4. QED
      BY <3>2, <3>3
  <2>4. ASSUME NEW t \in RawText, SubmitVisitId(t) PROVE TypeOK'
    <3>1. CASE route = "timeline"
      BY <2>4, <3>1, UnmountTyped DEF SubmitVisitId, TypeOK
    <3>2. CASE route # "timeline"
      BY <2>4, <3>2 DEF SubmitVisitId, TypeOK
    <3>3. QED
      BY <3>1, <3>2
  <2>5. ASSUME NEW target, SetCurrentPage(target) PROVE TypeOK'
    <3>1. CASE target # currentPage
      BY <2>5, <3>1, EffectTyped DEF SetCurrentPage, Clickable, ReadyView, TypeOK
    <3>2. CASE target = currentPage
      BY <2>5, <3>2 DEF SetCurrentPage, NoEffect, TypeOK
    <3>3. QED
      BY <3>1, <3>2
  <2>6. CASE \E i \in 0..MaxPage : GoToPage(i)
    BY <2>6, <2>5 DEF GoToPage
  <2>7. CASE FirstPage \/ PrevPage \/ NextPage \/ LastPage
    BY <2>7, <2>5 DEF FirstPage, PrevPage, NextPage, LastPage
  <2>8. CASE OpenVisit
    BY <2>8, UnmountTyped DEF OpenVisit, TypeOK
  <2>9. CASE Return
    <3>1. (IF savedPage # Null THEN savedPage ELSE 0) \in PageIndex
      BY DEF TypeOK, PageIndex
    <3>2. QED
      BY <2>9, <3>1, EffectTyped DEF Return, Mount, TypeOK
  <2>10. ASSUME NEW r \in pending, NEW ok \in BOOLEAN, Settle(r, ok) PROVE TypeOK'
    <3>1. r \in Request /\ Result(r) \in PageResult
      BY DEF TypeOK, Result, PageResult, Request
    <3>2. pending' \in SUBSET Request
      BY <2>10 DEF Settle, TypeOK
    <3>3. data' \in PageResult \cup {Null} /\ exception' \in PageResult \cup {Null}
      BY <2>10, <3>1 DEF Settle, TypeOK
    <3>4. processing' \in BOOLEAN
      BY <2>10 DEF Settle, TypeOK
    <3>5. QED
      BY <2>10, <3>2, <3>3, <3>4 DEF Settle, TypeOK
  <2>11. CASE UNCHANGED vars
    BY <2>11 DEF vars, TypeOK
  <2>12. QED
    BY <2>1, <2>2, <2>3, <2>4, <2>6, <2>7, <2>8, <2>9, <2>10, <2>11 DEF Next
<1>3. QED
  BY <1>2

\* The type invariant: every variable stays in its set.
THEOREM TypeCorrect == Spec => []TypeOK
BY TypeInit, TypeStep, PTL DEF Spec
-----------------------------------------------------------------------------
(* ReadyHasPage is inductive together with TypeOK: every action that ends  *)
(* "Searching ..." on the timeline applies a result or an error, every     *)
(* action that clears the error sends a request, a mount starts searching *)
(* whenever it has a domain, and no action clears data on a mounted page. *)
IInv == TypeOK /\ ReadyHasPage

\* An effect with a domain leaves the timeline searching, on a live request.
LEMMA EffectSearching ==
    ASSUME TypeOK, NEW dom \in Domain, NEW page \in PageIndex, Effect(dom, page)
    PROVE  /\ processing' = TRUE
           /\ \E r \in pending' : r.live
<1>1. dom # Null
  BY TimelineAssumption
<1>2. /\ processing' = TRUE
      /\ pending' = pending \cup {[id |-> nextId, dom |-> dom, page |-> page, live |-> TRUE]}
  BY <1>1 DEF Effect
<1>3. [id |-> nextId, dom |-> dom, page |-> page, live |-> TRUE] \in pending'
  BY <1>2
<1>4. QED
  BY <1>2, <1>3

LEMMA IInvInductive == IInv /\ [Next]_vars => IInv'
<1> SUFFICES ASSUME IInv, [Next]_vars PROVE IInv'
  OBVIOUS
<1>0. TypeOK'
  BY TypeStep DEF IInv
<1> USE TimelineAssumption DEF IInv
<1>1. CASE ToggleMode
  BY <1>0, <1>1 DEF ToggleMode, ReadyHasPage, ReadyView
<1>2. ASSUME NEW t \in RawText, SubmitBlank(t) PROVE IInv'
  BY <1>0, <1>2 DEF SubmitBlank, ReadyHasPage, ReadyView
<1>3. ASSUME NEW t \in RawText, SubmitDomain(t) PROVE IInv'
  <2>1. Normalize(t) \in Domain
    BY <1>3, NormalizeInDomain DEF SubmitDomain
  <2>2. CASE route = "timeline" /\ Normalize(t) # search
    <3>1. processing' = TRUE /\ \E r \in pending' : r.live
      BY <1>3, <2>1, <2>2, EffectSearching DEF SubmitDomain, TypeOK
    <3>2. QED
      BY <1>0, <3>1 DEF ReadyHasPage, ReadyView
  <2>3. CASE route = "timeline" /\ Normalize(t) = search
    BY <1>0, <1>3, <2>3 DEF SubmitDomain, NoEffect, ReadyHasPage, ReadyView
  <2>4. CASE route # "timeline"
    <3>1. (IF savedPage # Null THEN savedPage ELSE 0) \in PageIndex
      BY DEF TypeOK, PageIndex
    <3>2. processing' = TRUE /\ \E r \in pending' : r.live
      BY <1>3, <2>1, <2>4, <3>1, EffectSearching DEF SubmitDomain, Mount, TypeOK
    <3>3. QED
      BY <1>0, <3>2 DEF ReadyHasPage, ReadyView
  <2>5. QED
    BY <2>2, <2>3, <2>4
<1>4. ASSUME NEW t \in RawText, SubmitVisitId(t) PROVE IInv'
  BY <1>0, <1>4 DEF SubmitVisitId, ReadyHasPage, ReadyView
<1>5. ASSUME NEW target, SetCurrentPage(target) PROVE IInv'
  <2>1. CASE target # currentPage
    <3>1. search \in Domain /\ target \in PageIndex
      BY <1>5 DEF SetCurrentPage, Clickable, ReadyView, TypeOK
    <3>2. processing' = TRUE /\ \E r \in pending' : r.live
      BY <1>5, <2>1, <3>1, EffectSearching DEF SetCurrentPage
    <3>3. QED
      BY <1>0, <3>2 DEF ReadyHasPage, ReadyView
  <2>2. CASE target = currentPage
    BY <1>0, <1>5, <2>2 DEF SetCurrentPage, NoEffect, ReadyHasPage, ReadyView
  <2>3. QED
    BY <2>1, <2>2
<1>6. CASE \E i \in 0..MaxPage : GoToPage(i)
  BY <1>6, <1>5 DEF GoToPage
<1>7. CASE FirstPage \/ PrevPage \/ NextPage \/ LastPage
  BY <1>7, <1>5 DEF FirstPage, PrevPage, NextPage, LastPage
<1>8. CASE OpenVisit
  BY <1>0, <1>8 DEF OpenVisit, ReadyHasPage, ReadyView
<1>9. CASE Return
  <2>1. CASE search = Null
    <3>1. processing' = FALSE /\ search' = Null
      BY <1>9, <2>1 DEF Return, Mount, Effect
    <3>2. QED
      BY <1>0, <3>1 DEF ReadyHasPage, ReadyView
  <2>2. CASE search # Null
    <3>1. (IF savedPage # Null THEN savedPage ELSE 0) \in PageIndex
      BY DEF TypeOK, PageIndex
    <3>2. processing' = TRUE /\ \E r \in pending' : r.live
      BY <1>9, <2>2, <3>1, EffectSearching DEF Return, Mount, TypeOK
    <3>3. QED
      BY <1>0, <3>2 DEF ReadyHasPage, ReadyView
  <2>3. QED
    BY <2>1, <2>2
<1>10. ASSUME NEW r \in pending, NEW ok \in BOOLEAN, Settle(r, ok) PROVE IInv'
  <2>1. Result(r) # Null
    BY DEF TypeOK, Request, Result, PageIndex
  <2>2. CASE r.live /\ ok
    <3>1. processing' = FALSE /\ data' = Result(r)
      BY <1>10, <2>2 DEF Settle
    <3>2. QED
      BY <1>0, <2>1, <3>1 DEF ReadyHasPage
  <2>3. CASE r.live /\ ~ok
    <3>1. processing' = FALSE /\ exception' = Result(r)
      BY <1>10, <2>3 DEF Settle
    <3>2. QED
      BY <1>0, <2>1, <3>1 DEF ReadyHasPage, ReadyView
  <2>4. CASE ~r.live
    <3>1. /\ UNCHANGED <<processing, data, exception, route, search>>
          /\ pending' = pending \ {r}
      BY <1>10, <2>4 DEF Settle
    <3>2. ReadyHasPage'
      BY <3>1 DEF ReadyHasPage, ReadyView
    <3>3. QED
      BY <1>0, <3>2
  <2>5. QED
    BY <2>2, <2>3, <2>4
<1>11. CASE UNCHANGED vars
  BY <1>0, <1>11 DEF vars, ReadyHasPage, ReadyView
<1>12. QED
  BY <1>1, <1>2, <1>3, <1>4, <1>6, <1>7, <1>8, <1>9, <1>10, <1>11 DEF Next

\* The strengthened invariant holds in every reachable state.
LEMMA IInvHolds == Spec => []IInv
<1>1. Init => IInv
  <2> SUFFICES ASSUME Init PROVE IInv
    OBVIOUS
  <2>1. TypeOK
    BY TypeInit
  <2>3. ReadyHasPage
    BY DEF Init, ReadyHasPage, ReadyView
  <2>4. QED
    BY <2>1, <2>3 DEF IInv
<1>2. QED
  BY <1>1, IInvInductive, PTL DEF Spec

\* renderHtml never maps over data.dtos of the initial []: the ready view
\* always has a page applied by setData.
THEOREM ReadyHasPageHolds == Spec => []ReadyHasPage
BY IInvHolds, PTL DEF IInv
-----------------------------------------------------------------------------
(* "Searching ..." waits for the query on screen.  Every effect that sets  *)
(* processing sends a live request for the domain and page it leaves in    *)
(* state; a settling live request clears processing, and a dead one is    *)
(* never the witness.  The invariant is inductive together with TypeOK.   *)

\* An effect with a domain leaves the timeline searching, on a live request
\* for exactly that domain and page.
LEMMA EffectAwaits ==
    ASSUME NEW dom \in Domain, NEW page, Effect(dom, page)
    PROVE  /\ processing' = TRUE
           /\ \E r \in pending' : r.live /\ r.dom = dom /\ r.page = page
<1>1. dom # Null
  BY TimelineAssumption
<1>2. /\ processing' = TRUE
      /\ pending' = pending \cup {[id |-> nextId, dom |-> dom, page |-> page, live |-> TRUE]}
  BY <1>1 DEF Effect
<1>3. [id |-> nextId, dom |-> dom, page |-> page, live |-> TRUE] \in pending'
  BY <1>2
<1>4. QED
  BY <1>2, <1>3

\* A mount of the timeline for a domain leaves it searching for that domain
\* at the page it starts on.
LEMMA MountAwaits ==
    ASSUME NEW dom \in Domain, Mount(dom)
    PROVE  /\ processing' = TRUE
           /\ \E r \in pending' : r.live /\ r.dom = dom /\ r.page = currentPage'
<1> DEFINE start == IF savedPage # Null THEN savedPage ELSE 0
<1>1. Effect(dom, start) /\ currentPage' = start
  BY DEF Mount
<1>2. /\ processing' = TRUE
      /\ \E r \in pending' : r.live /\ r.dom = dom /\ r.page = start
  <2>1. dom # Null
    BY TimelineAssumption
  <2>2. /\ processing' = TRUE
        /\ [id |-> nextId, dom |-> dom, page |-> start, live |-> TRUE] \in pending'
    BY <1>1, <2>1 DEF Effect
  <2>3. QED
    BY <2>2
<1>3. QED
  BY <1>1, <1>2

LEMMA AwaitStep ==
    TypeOK /\ SearchingAwaitsCurrent /\ [Next]_vars => SearchingAwaitsCurrent'
<1> SUFFICES ASSUME TypeOK, SearchingAwaitsCurrent, [Next]_vars
             PROVE  SearchingAwaitsCurrent'
  OBVIOUS
<1>1. CASE ToggleMode
  BY <1>1 DEF ToggleMode, SearchingAwaitsCurrent
<1>2. ASSUME NEW t \in RawText, SubmitBlank(t) PROVE SearchingAwaitsCurrent'
  BY <1>2 DEF SubmitBlank, SearchingAwaitsCurrent
<1>3. ASSUME NEW t \in RawText, SubmitDomain(t) PROVE SearchingAwaitsCurrent'
  <2>1. Normalize(t) \in Domain /\ search' = Normalize(t)
    BY <1>3, NormalizeInDomain DEF SubmitDomain
  <2>2. CASE route = "timeline" /\ Normalize(t) # search
    <3>1. Effect(Normalize(t), currentPage) /\ UNCHANGED currentPage
      BY <1>3, <2>2 DEF SubmitDomain
    <3>2. QED
      BY <2>1, <3>1, EffectAwaits DEF SearchingAwaitsCurrent
  <2>3. CASE route = "timeline" /\ Normalize(t) = search
    <3>1. UNCHANGED <<route, search, processing, pending, currentPage>>
      BY <1>3, <2>1, <2>3 DEF SubmitDomain, NoEffect
    <3>2. QED
      BY <3>1 DEF SearchingAwaitsCurrent
  <2>4. CASE route # "timeline"
    <3>1. Mount(Normalize(t))
      BY <1>3, <2>4 DEF SubmitDomain
    <3>2. QED
      BY <2>1, <3>1, MountAwaits DEF SearchingAwaitsCurrent
  <2>5. QED
    BY <2>2, <2>3, <2>4
<1>4. ASSUME NEW t \in RawText, SubmitVisitId(t) PROVE SearchingAwaitsCurrent'
  BY <1>4 DEF SubmitVisitId, SearchingAwaitsCurrent
<1>5. ASSUME NEW target, SetCurrentPage(target) PROVE SearchingAwaitsCurrent'
  <2>1. CASE target # currentPage
    <3>1. search \in Domain
      BY <1>5 DEF SetCurrentPage, Clickable, ReadyView, TypeOK
    <3>2. /\ Effect(search, target)
          /\ currentPage' = target
          /\ UNCHANGED <<route, search>>
      BY <1>5, <2>1 DEF SetCurrentPage
    <3>3. QED
      BY <3>1, <3>2, EffectAwaits DEF SearchingAwaitsCurrent
  <2>2. CASE target = currentPage
    BY <1>5, <2>2 DEF SetCurrentPage, NoEffect, SearchingAwaitsCurrent
  <2>3. QED
    BY <2>1, <2>2
<1>6. CASE \E i \in 0..MaxPage : GoToPage(i)
  BY <1>6, <1>5 DEF GoToPage
<1>7. CASE FirstPage \/ PrevPage \/ NextPage \/ LastPage
  BY <1>7, <1>5 DEF FirstPage, PrevPage, NextPage, LastPage
<1>8. CASE OpenVisit
  BY <1>8 DEF OpenVisit, SearchingAwaitsCurrent
<1>9. CASE Return
  <2>1. CASE search = Null
    BY <1>9, <2>1 DEF Return, Mount, Effect, SearchingAwaitsCurrent
  <2>2. CASE search # Null
    <3>1. search \in Domain /\ Mount(search) /\ UNCHANGED search
      BY <1>9, <2>2 DEF Return, TypeOK
    <3>2. QED
      BY <3>1, MountAwaits DEF SearchingAwaitsCurrent
  <2>3. QED
    BY <2>1, <2>2
<1>10. ASSUME NEW r \in pending, NEW ok \in BOOLEAN, Settle(r, ok)
       PROVE  SearchingAwaitsCurrent'
  <2>1. CASE r.live
    BY <1>10, <2>1 DEF Settle, SearchingAwaitsCurrent
  <2>2. CASE ~r.live
    <3>1. /\ UNCHANGED <<processing, route, search, currentPage>>
          /\ pending' = pending \ {r}
      BY <1>10, <2>2 DEF Settle
    <3>2. QED
      BY <2>2, <3>1 DEF SearchingAwaitsCurrent
  <2>3. QED
    BY <2>1, <2>2
<1>11. CASE UNCHANGED vars
  BY <1>11 DEF vars, SearchingAwaitsCurrent
<1>12. QED
  BY <1>1, <1>2, <1>3, <1>4, <1>6, <1>7, <1>8, <1>9, <1>10, <1>11 DEF Next

\* While the timeline shows "Searching ...", the answer it waits for is the
\* one for the committed domain at currentPage (executeHook, lines 19-46):
\* no effect path fetches another query than the one it leaves in state.
THEOREM SearchingAwaitsCurrentHolds == Spec => []SearchingAwaitsCurrent
<1>1. Init => SearchingAwaitsCurrent
  <2> SUFFICES ASSUME Init, route = "timeline", processing
               PROVE  \E r \in pending : r.live /\ r.dom = search /\ r.page = currentPage
    BY DEF SearchingAwaitsCurrent
  <2>1. search # Null
    BY DEF Init
  <2>2. [id |-> 0, dom |-> search, page |-> currentPage, live |-> TRUE] \in pending
    BY <2>1 DEF Init
  <2>3. QED
    BY <2>2
<1>2. QED
  BY <1>1, AwaitStep, TypeCorrect, PTL DEF Spec
-----------------------------------------------------------------------------
(* Every change of the query enters Fetching.  A request an effect sends  *)
(* is new, because every request in flight has an identity below nextId; *)
(* that fact is inductive with TypeOK.                                     *)

IdsIssued == \A r \in pending : r.id < nextId

\* An effect keeps the identities below nextId.
LEMMA EffectIds ==
    ASSUME TypeOK, IdsIssued, NEW dom, NEW page, Effect(dom, page)
    PROVE  IdsIssued'
BY DEF Effect, IdsIssued, TypeOK, Request

LEMMA IdsStep == TypeOK /\ IdsIssued /\ [Next]_vars => IdsIssued'
<1> SUFFICES ASSUME TypeOK, IdsIssued, [Next]_vars PROVE IdsIssued'
  OBVIOUS
<1>1. CASE UNCHANGED <<pending, nextId>>
  BY <1>1 DEF IdsIssued
<1>2. CASE Unmount /\ UNCHANGED nextId
  BY <1>2 DEF Unmount, IdsIssued, TypeOK, Request
<1>3. CASE \E dom, page : Effect(dom, page)
  BY <1>3, EffectIds
<1>4. CASE pending' \subseteq pending /\ UNCHANGED nextId
  BY <1>4 DEF IdsIssued
<1>5. ASSUME NEW t \in RawText, SubmitDomain(t) PROVE IdsIssued'
  BY <1>5, <1>1, <1>3 DEF SubmitDomain, Mount, NoEffect
<1>6. ASSUME NEW target, SetCurrentPage(target) PROVE IdsIssued'
  BY <1>6, <1>1, <1>3 DEF SetCurrentPage, NoEffect
<1>7. QED
  <2>1. CASE ToggleMode
    BY <2>1, <1>1 DEF ToggleMode
  <2>2. CASE \E t \in RawText : SubmitBlank(t) \/ SubmitVisitId(t)
    BY <2>2, <1>1, <1>2 DEF SubmitBlank, SubmitVisitId
  <2>3. CASE \/ \E i \in 0..MaxPage : GoToPage(i)
             \/ FirstPage \/ PrevPage \/ NextPage \/ LastPage
    BY <2>3, <1>6 DEF GoToPage, FirstPage, PrevPage, NextPage, LastPage
  <2>4. CASE OpenVisit
    BY <2>4, <1>2 DEF OpenVisit
  <2>5. CASE Return
    BY <2>5, <1>3 DEF Return, Mount
  <2>6. CASE \E r \in pending, ok \in BOOLEAN : Settle(r, ok)
    BY <2>6, <1>4 DEF Settle
  <2>7. CASE UNCHANGED vars
    BY <2>7, <1>1 DEF vars
  <2>8. QED
    BY <1>5, <2>1, <2>2, <2>3, <2>4, <2>5, <2>6, <2>7 DEF Next

LEMMA IdsHold == Spec => []IdsIssued
<1>1. Init => IdsIssued
  BY DEF Init, IdsIssued
<1>2. QED
  BY <1>1, IdsStep, TypeCorrect, PTL DEF Spec

\* An effect with a domain shows "Searching ..." and sends a request that
\* was not in flight before, for exactly that domain and page.
LEMMA EffectFresh ==
    ASSUME TypeOK, IdsIssued, NEW dom \in Domain, NEW page, Effect(dom, page)
    PROVE  /\ processing' = TRUE
           /\ \E r \in pending' \ pending : r.live /\ r.dom = dom /\ r.page = page
<1> DEFINE new == [id |-> nextId, dom |-> dom, page |-> page, live |-> TRUE]
<1>1. dom # Null
  BY TimelineAssumption
<1>2. processing' = TRUE /\ pending' = pending \cup {new}
  BY <1>1 DEF Effect
<1>3. new \notin pending
  BY DEF IdsIssued, TypeOK, Request
<1>4. QED
  BY <1>2, <1>3

LEMMA FetchStep ==
    ASSUME TypeOK, IdsIssued, [Next]_vars,
           route = "timeline", route' = "timeline",
           <<search, currentPage>>' # <<search, currentPage>>
    PROVE  /\ processing'
           /\ \E r \in pending' \ pending : r.live /\ r.dom = search' /\ r.page = currentPage'
<1>1. ASSUME NEW t \in RawText, SubmitDomain(t)
      PROVE  /\ processing'
             /\ \E r \in pending' \ pending : r.live /\ r.dom = search' /\ r.page = currentPage'
  <2>1. CASE Normalize(t) # search
    <3>1. Effect(Normalize(t), currentPage) /\ UNCHANGED currentPage /\ search' = Normalize(t)
      BY <1>1, <2>1 DEF SubmitDomain
    <3>2. Normalize(t) \in Domain
      BY <1>1, NormalizeInDomain DEF SubmitDomain
    <3>3. /\ processing' = TRUE
          /\ \E r \in pending' \ pending : r.live /\ r.dom = Normalize(t) /\ r.page = currentPage
      BY <3>1, <3>2, EffectFresh
    <3>4. QED
      BY <3>1, <3>3
  <2>2. CASE Normalize(t) = search
    <3>1. UNCHANGED <<search, currentPage>>
      BY <1>1, <2>2 DEF SubmitDomain
    <3>2. QED
      BY <3>1
  <2>3. QED
    BY <2>1, <2>2
<1>2. ASSUME NEW target, SetCurrentPage(target)
      PROVE  /\ processing'
             /\ \E r \in pending' \ pending : r.live /\ r.dom = search' /\ r.page = currentPage'
  <2>1. CASE target # currentPage
    <3>1. Effect(search, target) /\ currentPage' = target /\ UNCHANGED search
      BY <1>2, <2>1 DEF SetCurrentPage
    <3>2. search \in Domain
      BY <1>2 DEF SetCurrentPage, Clickable, ReadyView, TypeOK
    <3>3. /\ processing' = TRUE
          /\ \E r \in pending' \ pending : r.live /\ r.dom = search /\ r.page = target
      BY <3>1, <3>2, EffectFresh
    <3>4. QED
      BY <3>1, <3>3
  <2>2. CASE target = currentPage
    BY <1>2, <2>2 DEF SetCurrentPage
  <2>3. QED
    BY <2>1, <2>2
<1>3. QED
  <2>1. CASE \/ ToggleMode
             \/ \E t \in RawText : SubmitBlank(t) \/ SubmitVisitId(t)
             \/ OpenVisit \/ Return
             \/ \E r \in pending, ok \in BOOLEAN : Settle(r, ok)
             \/ UNCHANGED vars
    BY <2>1 DEF ToggleMode, SubmitBlank, SubmitVisitId, OpenVisit, Return, Settle, vars
  <2>2. CASE \/ \E i \in 0..MaxPage : GoToPage(i)
             \/ FirstPage \/ PrevPage \/ NextPage \/ LastPage
    BY <2>2, <1>2 DEF GoToPage, FirstPage, PrevPage, NextPage, LastPage
  <2>3. CASE \E t \in RawText : SubmitDomain(t)
    BY <2>3, <1>1
  <2>4. QED
    BY <2>1, <2>2, <2>3 DEF Next

\* Spec 4.2: on the mounted timeline every change of the domain or the page
\* shows "Searching ..." and sends a new request for the new query
\* (useEffect on [domainName, currentPage]).
THEOREM FetchOnQueryChangeHolds == Spec => FetchOnQueryChange
<1>1. TypeOK /\ IdsIssued /\ [Next]_vars =>
        [route = "timeline" /\ route' = "timeline" /\ <<search, currentPage>>' # <<search, currentPage>>
          => /\ processing'
             /\ \E r \in pending' \ pending : r.live /\ r.dom = search' /\ r.page = currentPage']_vars
  BY FetchStep
<1>2. QED
  BY <1>1, TypeCorrect, IdsHold, PTL DEF Spec, FetchOnQueryChange
=============================================================================
