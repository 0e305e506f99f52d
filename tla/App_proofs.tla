----------------------------- MODULE App_proofs -----------------------------
(***************************************************************************)
(* Proofs about the composed front end: the card never disturbs the        *)
(* timeline (every App step is a Timeline step), the type invariant, and   *)
(* the refinement of the search-bar contract.                              *)
(***************************************************************************)
EXTENDS App, Timeline_proofs

USE TimelineAssumption

\* Every App step is a step or a stutter of the timeline page alone.
LEMMA AppStepIsTimelineStep == [AppNext]_appVars => [Next]_vars
<1> SUFFICES ASSUME [AppNext]_appVars PROVE [Next]_vars
  OBVIOUS
<1>1. CASE TimelineOnly(ToggleMode)
  BY <1>1 DEF TimelineOnly, Next
<1>2. ASSUME NEW t \in RawText,
             \/ AppSubmitBlank(t)
             \/ AppSubmitDomain(t)
             \/ AppSubmitVisitId(t)
      PROVE  [Next]_vars
  BY <1>2 DEF AppSubmitBlank, AppSubmitDomain, AppSubmitVisitId, Next
<1>3. CASE \E i \in 0..MaxPage : TimelineOnly(GoToPage(i))
  BY <1>3 DEF TimelineOnly, Next
<1>4. CASE TimelineOnly(FirstPage \/ PrevPage \/ NextPage \/ LastPage)
  BY <1>4 DEF TimelineOnly, Next
<1>5. CASE AppOpenVisit
  BY <1>5 DEF AppOpenVisit, Next
<1>6. CASE AppReturn
  BY <1>6 DEF AppReturn, Next
<1>7. CASE \E r \in pending, ok \in BOOLEAN : TimelineOnly(Settle(r, ok))
  BY <1>7 DEF TimelineOnly, Next
<1>8. CASE \/ \E r \in dnsPending, ok \in BOOLEAN : CardOnly(DnsSettle(r, ok))
           \/ CardOnly(ToggleRecords)
  BY <1>8 DEF CardOnly, vars
<1>9. CASE UNCHANGED appVars
  BY <1>9 DEF appVars, vars
<1>10. QED
  BY <1>1, <1>2, <1>3, <1>4, <1>5, <1>6, <1>7, <1>8, <1>9 DEF AppNext

\* Non-interference: the DNS card and the detail view leave the timeline
\* page behaving exactly as Timeline specifies, so every property proved or
\* checked of Timeline holds of the composed front end.
LEMMA TimelineUnaffected == AppSpec => Spec
<1>1. AppInit => Init
  BY DEF AppInit
<1>2. QED
  BY <1>1, AppStepIsTimelineStep, PTL DEF AppSpec, Spec
-----------------------------------------------------------------------------
(* Type correctness of the composition.                                    *)

LEMMA FetchTyped ==
    ASSUME CardTypeOK, NEW v \in VisitId, FetchRecords(v)
    PROVE  dnsPending' \in SUBSET DnsRequest /\ dnsNextId' \in Nat
<1>1. [id |-> dnsNextId, visit |-> v, live |-> TRUE] \in DnsRequest
  BY DEF CardTypeOK, DnsRequest
<1>2. dnsPending' = dnsPending \cup {[id |-> dnsNextId, visit |-> v, live |-> TRUE]}
  BY DEF FetchRecords
<1>3. dnsPending' \in SUBSET DnsRequest
  BY <1>1, <1>2, Zenon DEF CardTypeOK
<1>4. dnsNextId' \in Nat
  BY DEF FetchRecords, CardTypeOK
<1>5. QED
  BY <1>3, <1>4

LEMMA DnsUnmountTyped ==
    ASSUME dnsPending \in SUBSET DnsRequest, CardUnmount
    PROVE  dnsPending' \in SUBSET DnsRequest
BY DEF CardUnmount, DnsRequest

LEMMA CardUnmountTyped ==
    ASSUME CardTypeOK, CardUnmount
    PROVE  CardTypeOK'
<1>1. dnsPending' \in SUBSET DnsRequest
  BY DnsUnmountTyped DEF CardTypeOK
<1>2. QED
  BY <1>1, DetailViewAssumption DEF CardUnmount, CardTypeOK

LEMMA CardMountTyped ==
    ASSUME CardTypeOK, NEW v \in VisitId, CardMount(v)
    PROVE  CardTypeOK'
<1>1. dnsPending' \in SUBSET DnsRequest /\ dnsNextId' \in Nat
  BY FetchTyped DEF CardMount
<1>2. QED
  BY <1>1 DEF CardMount, CardTypeOK

LEMMA CardStep == CardTypeOK /\ [AppNext]_appVars => CardTypeOK'
<1> SUFFICES ASSUME CardTypeOK, [AppNext]_appVars PROVE CardTypeOK'
  OBVIOUS
<1>1. ASSUME NEW t \in RawText, AppSubmitDomain(t) PROVE CardTypeOK'
  <2>1. CASE route = "details"
    BY <1>1, <2>1, CardUnmountTyped DEF AppSubmitDomain
  <2>2. CASE route # "details"
    BY <1>1, <2>2 DEF AppSubmitDomain, cardVars, CardTypeOK
  <2>3. QED
    BY <2>1, <2>2
<1>2. ASSUME NEW t \in RawText, AppSubmitVisitId(t) PROVE CardTypeOK'
  <2>1. Normalize(t) \in VisitId
    BY DEF VisitId
  <2>2. CASE route = "details" /\ Normalize(t) # cardVisit
    BY <1>2, <2>1, <2>2, FetchTyped DEF AppSubmitVisitId, CardSetVisit, CardTypeOK
  <2>3. CASE route = "details" /\ Normalize(t) = cardVisit
    BY <1>2, <2>1, <2>3 DEF AppSubmitVisitId, CardSetVisit, CardTypeOK
  <2>4. CASE route # "details"
    BY <1>2, <2>1, <2>4, CardMountTyped DEF AppSubmitVisitId
  <2>5. QED
    BY <2>2, <2>3, <2>4
<1>3. CASE AppOpenVisit
  BY <1>3, CardMountTyped DEF AppOpenVisit
<1>4. CASE AppReturn
  BY <1>4, CardUnmountTyped DEF AppReturn
<1>5. ASSUME NEW r \in dnsPending, NEW ok \in BOOLEAN, DnsSettle(r, ok)
      PROVE  CardTypeOK'
  <2>1. [visit |-> r.visit] \in DnsResult
    BY DEF CardTypeOK, DnsRequest, DnsResult
  <2>2. QED
    BY <1>5, <2>1 DEF DnsSettle, CardTypeOK
<1>6. CASE ToggleRecords
  BY <1>6 DEF ToggleRecords, CardTypeOK
<1>7. ASSUME NEW A, TimelineOnly(A) \/ \E t \in RawText : AppSubmitBlank(t)
      PROVE  CardTypeOK'
  BY <1>7 DEF TimelineOnly, AppSubmitBlank, cardVars, CardTypeOK
<1>8. CASE UNCHANGED appVars
  BY <1>8 DEF appVars, cardVars, CardTypeOK
<1>9. QED
  BY <1>1, <1>2, <1>3, <1>4, <1>5, <1>6, <1>7, <1>8 DEF AppNext, CardOnly

LEMMA AppTypeStep == AppTypeOK /\ [AppNext]_appVars => AppTypeOK'
<1> SUFFICES ASSUME AppTypeOK, [AppNext]_appVars PROVE AppTypeOK'
  OBVIOUS
<1>1. TypeOK'
  BY AppStepIsTimelineStep, TypeStep DEF AppTypeOK
<1>2. CardTypeOK'
  BY CardStep DEF AppTypeOK
<1>3. leftFrom' \in PageIndex \cup {Null}
  BY DEF AppTypeOK, TypeOK, AppNext, TimelineOnly, CardOnly, AppSubmitBlank,
         AppSubmitDomain, AppSubmitVisitId, AppOpenVisit, AppReturn, appVars
<1>4. askedOfCard' \in SUBSET VisitId
  <2>1. ASSUME NEW t \in RawText, AppSubmitVisitId(t) PROVE askedOfCard' \in SUBSET VisitId
    <3>1. Normalize(t) \in VisitId
      BY DEF VisitId
    <3>2. QED
      BY <2>1, <3>1 DEF AppSubmitVisitId, AppTypeOK
  <2>2. CASE AppOpenVisit
    BY <2>2 DEF AppOpenVisit
  <2>3. QED
    BY <2>1, <2>2 DEF AppTypeOK, AppNext, TimelineOnly, CardOnly, AppSubmitBlank,
                      AppSubmitDomain, AppReturn, appVars
<1>5. submitted' \in RawText \cup {Null}
  BY DEF AppTypeOK, AppNext, TimelineOnly, CardOnly, AppSubmitBlank, AppSubmitDomain,
         AppSubmitVisitId, AppOpenVisit, AppReturn, appVars
<1>6. QED
  BY <1>1, <1>2, <1>3, <1>4, <1>5 DEF AppTypeOK

\* The type invariant of the composition: timeline, card and the history
\* variables stay in their sets.
THEOREM AppTypeCorrect == AppSpec => []AppTypeOK
<1>1. AppInit => AppTypeOK
  <2> SUFFICES ASSUME AppInit PROVE AppTypeOK
    OBVIOUS
  <2>1. TypeOK
    BY TypeInit DEF AppInit
  <2>2. CardTypeOK
    BY DEF AppInit, CardTypeOK
  <2>3. /\ leftFrom \in PageIndex \cup {Null}
        /\ askedOfCard \in SUBSET VisitId
        /\ submitted \in RawText \cup {Null}
    BY DEF AppInit
  <2>4. QED
    BY <2>1, <2>2, <2>3 DEF AppTypeOK
<1>2. QED
  BY <1>1, AppTypeStep, PTL DEF AppSpec
-----------------------------------------------------------------------------
(* Refinement of the search-bar contract.  The view of the contract is     *)
(* read off the route and the card's visitId, so a Back step needs the     *)
(* card to be mounted whenever the route is the detail view.               *)

CardMounted == route = "details" => cardVisit \in VisitId

LEMMA VisitIdNotNull == Null \notin VisitId
BY DetailViewAssumption, Zenon

\* The steps that neither navigate nor submit a search keep the mode, the
\* committed search, the route and the card's visit id.
LEMMA QuietSteps ==
    ASSUME \/ \E t \in RawText : AppSubmitBlank(t)
           \/ \E i \in 0..MaxPage : TimelineOnly(GoToPage(i))
           \/ TimelineOnly(FirstPage \/ PrevPage \/ NextPage \/ LastPage)
           \/ \E r \in pending, ok \in BOOLEAN : TimelineOnly(Settle(r, ok))
           \/ \E r \in dnsPending, ok \in BOOLEAN : CardOnly(DnsSettle(r, ok))
           \/ CardOnly(ToggleRecords)
    PROVE  UNCHANGED <<urlOrId, search, route, cardVisit>>
BY DEF TimelineOnly, CardOnly, AppSubmitBlank, cardVars, vars, SubmitBlank, GoToPage, SetCurrentPage,
       FirstPage, PrevPage, NextPage, LastPage, Settle, DnsSettle, ToggleRecords

LEMMA MountedStep == CardMounted /\ [AppNext]_appVars => CardMounted'
<1> SUFFICES ASSUME CardMounted, [AppNext]_appVars PROVE CardMounted'
  OBVIOUS
<1>1. CASE TimelineOnly(ToggleMode)
  BY <1>1 DEF TimelineOnly, ToggleMode, cardVars, CardMounted
<1>2. ASSUME NEW t \in RawText, AppSubmitDomain(t) PROVE CardMounted'
  BY <1>2 DEF AppSubmitDomain, SubmitDomain, CardMounted
<1>3. ASSUME NEW t \in RawText, AppSubmitVisitId(t) PROVE CardMounted'
  <2>1. Normalize(t) \in VisitId
    BY DEF VisitId
  <2>2. cardVisit' = Normalize(t)
    BY <1>3 DEF AppSubmitVisitId, CardSetVisit, CardMount
  <2>3. QED
    BY <2>1, <2>2 DEF CardMounted
<1>4. CASE AppOpenVisit
  BY <1>4 DEF AppOpenVisit, CardMount, CardMounted
<1>5. CASE AppReturn
  BY <1>5 DEF AppReturn, Return, CardMounted
<1>6. CASE \/ \E t \in RawText : AppSubmitBlank(t)
           \/ \E i \in 0..MaxPage : TimelineOnly(GoToPage(i))
           \/ TimelineOnly(FirstPage \/ PrevPage \/ NextPage \/ LastPage)
           \/ \E r \in pending, ok \in BOOLEAN : TimelineOnly(Settle(r, ok))
           \/ \E r \in dnsPending, ok \in BOOLEAN : CardOnly(DnsSettle(r, ok))
           \/ CardOnly(ToggleRecords)
  BY <1>6, QuietSteps DEF CardMounted
<1>7. CASE UNCHANGED appVars
  BY <1>7 DEF appVars, vars, cardVars, CardMounted
<1>8. QED
  BY <1>1, <1>2, <1>3, <1>4, <1>5, <1>6, <1>7 DEF AppNext

LEMMA MountedHolds == AppSpec => []CardMounted
<1>1. AppInit => CardMounted
  BY DEF AppInit, Init, CardMounted
<1>2. QED
  BY <1>1, MountedStep, PTL DEF AppSpec

\* The contract reads the same texts as the search bar.
LEMMA ContractTexts ==
    /\ SC!RawText = RawText
    /\ SC!Domain = Domain
    /\ SC!LookupId = VisitId
    /\ \A t \in RawText : SC!Normalize(t) = Normalize(t) /\ SC!IsBlank(t) = IsBlank(t)
BY DEF SC!Domain, Domain, SC!LookupId, SC!Normalize, SC!IsBlank, SC!RawText, SC!Trim, SC!ToLower,
       VisitId, Normalize, IsBlank, RawText, Trim, ToLower

\* The steps that submit nothing report no submitted text.
LEMMA SilentSteps ==
    ASSUME \/ \E i \in 0..MaxPage : TimelineOnly(GoToPage(i))
           \/ TimelineOnly(FirstPage \/ PrevPage \/ NextPage \/ LastPage)
           \/ \E r \in pending, ok \in BOOLEAN : TimelineOnly(Settle(r, ok))
           \/ \E r \in dnsPending, ok \in BOOLEAN : CardOnly(DnsSettle(r, ok))
           \/ CardOnly(ToggleRecords)
    PROVE  submitted' = Null
BY DEF TimelineOnly, CardOnly

LEMMA ContractStep ==
    CardMounted /\ [AppNext]_appVars => [SC!ContractNext]_SC!contractVars
<1> SUFFICES ASSUME CardMounted, [AppNext]_appVars
             PROVE  [SC!ContractNext]_SC!contractVars
  OBVIOUS
<1>1. CASE TimelineOnly(ToggleMode)
  <2>1. SC!SwitchMode
    BY <1>1 DEF TimelineOnly, ToggleMode, cardVars, SC!SwitchMode
  <2>2. QED
    BY <2>1 DEF SC!ContractNext
<1>2. ASSUME NEW t \in RawText, AppSubmitDomain(t)
      PROVE  [SC!ContractNext]_SC!contractVars
  <2>1. SC!Normalize(t) = Normalize(t) /\ SC!IsBlank(t) = IsBlank(t)
    BY ContractTexts
  <2>2. SC!SearchDomain(t)
    BY <1>2, <2>1 DEF AppSubmitDomain, SubmitDomain, SC!SearchDomain
  <2>3. QED
    BY <2>2, ContractTexts DEF SC!ContractNext
<1>3. ASSUME NEW t \in RawText, AppSubmitVisitId(t)
      PROVE  [SC!ContractNext]_SC!contractVars
  <2>1. SC!Normalize(t) = Normalize(t)
    BY ContractTexts
  <2>2. cardVisit' = Normalize(t)
    BY <1>3 DEF AppSubmitVisitId, CardSetVisit, CardMount
  <2>3. SC!LookupVisit(t)
    BY <1>3, <2>1, <2>2 DEF AppSubmitVisitId, SubmitVisitId, SC!LookupVisit
  <2>4. QED
    BY <2>3, ContractTexts DEF SC!ContractNext
<1>4. ASSUME NEW t \in RawText, AppSubmitBlank(t)
      PROVE  [SC!ContractNext]_SC!contractVars
  <2>1. SC!IsBlank(t) = IsBlank(t)
    BY ContractTexts
  <2>2. UNCHANGED <<urlOrId, search, route, cardVisit>>
    BY <1>4, QuietSteps
  <2>3. SC!SearchBlank(t)
    BY <1>4, <2>1, <2>2 DEF AppSubmitBlank, SubmitBlank, SC!SearchBlank
  <2>4. QED
    BY <2>3, ContractTexts DEF SC!ContractNext
<1>5. CASE AppOpenVisit
  <2>1. PICK v \in VisitId : CardMount(v)
    BY <1>5 DEF AppOpenVisit
  <2>2. v \in SC!LookupId
    BY ContractTexts
  <2>3. SC!OpenDetail(v)
    BY <1>5, <2>1 DEF AppOpenVisit, OpenVisit, Clickable, ReadyView, CardMount,
                      SC!OpenDetail
  <2>4. QED
    BY <2>2, <2>3 DEF SC!ContractNext
<1>6. CASE AppReturn
  <2>1. cardVisit # Null
    BY <1>6, VisitIdNotNull DEF AppReturn, Return, CardMounted
  <2>2. SC!Back
    BY <1>6, <2>1 DEF AppReturn, Return, SC!Back
  <2>3. QED
    BY <2>2 DEF SC!ContractNext
<1>7. CASE \/ \E i \in 0..MaxPage : TimelineOnly(GoToPage(i))
           \/ TimelineOnly(FirstPage \/ PrevPage \/ NextPage \/ LastPage)
           \/ \E r \in pending, ok \in BOOLEAN : TimelineOnly(Settle(r, ok))
           \/ \E r \in dnsPending, ok \in BOOLEAN : CardOnly(DnsSettle(r, ok))
           \/ CardOnly(ToggleRecords)
  <2>1. SC!Idle
    BY <1>7, QuietSteps, SilentSteps DEF SC!Idle
  <2>2. QED
    BY <2>1 DEF SC!ContractNext
<1>8. CASE UNCHANGED appVars
  BY <1>8 DEF appVars, vars, cardVars, SC!contractVars
<1>9. QED
  BY <1>1, <1>2, <1>3, <1>4, <1>5, <1>6, <1>7, <1>8 DEF AppNext

\* The composed front end implements the search-bar contract: a blank
\* domain search changes nothing, a domain search commits the normalised
\* text of the field and shows the timeline, a visit-id search shows the
\* DNS card of the normalised text of the field, a timeline link shows a
\* DNS card, going back shows the timeline, and nothing else changes the
\* committed search or the shown view.
THEOREM ContractRefinement == AppSpec => ImplementsContract
<1>1. AppInit => SC!ContractInit
  BY ContractTexts DEF AppInit, Init, SC!ContractInit
<1>2. QED
  BY <1>1, ContractStep, MountedHolds, PTL DEF AppSpec, ImplementsContract, SC!ContractSpec
-----------------------------------------------------------------------------
(* The saved-page handoff.  Only the timeline link writes a page into      *)
(* 'saved-page'; every other step on the details route keeps it or removes *)
(* it, so on the way back the page restored is the page left, unless an    *)
(* orphaned request erased it.                                              *)

\* The handoff invariant: while a details view entered by a timeline link
\* is open, 'saved-page' holds the page the link was followed from, or
\* nothing at all.
SavedPageIsLeftPage ==
    leftFrom # Null => route = "details" /\ savedPage \in {leftFrom, Null}

LEMMA HandoffStep ==
    SavedPageIsLeftPage /\ [AppNext]_appVars => SavedPageIsLeftPage'
<1> SUFFICES ASSUME SavedPageIsLeftPage, [AppNext]_appVars, leftFrom' # Null
             PROVE  SavedPageIsLeftPage'
  BY DEF SavedPageIsLeftPage
<1>1. CASE TimelineOnly(ToggleMode)
  BY <1>1 DEF TimelineOnly, ToggleMode, SavedPageIsLeftPage
<1>2. ASSUME NEW t \in RawText, AppSubmitBlank(t)
      PROVE  SavedPageIsLeftPage'
  BY <1>2 DEF AppSubmitBlank, SubmitBlank, SavedPageIsLeftPage
<1>3. ASSUME NEW t \in RawText, AppSubmitDomain(t) PROVE FALSE
  BY <1>3 DEF AppSubmitDomain
<1>4. ASSUME NEW t \in RawText, AppSubmitVisitId(t) PROVE SavedPageIsLeftPage'
  BY <1>4 DEF AppSubmitVisitId, SubmitVisitId, SavedPageIsLeftPage
<1>5. CASE \/ \E i \in 0..MaxPage : TimelineOnly(GoToPage(i))
           \/ TimelineOnly(FirstPage \/ PrevPage \/ NextPage \/ LastPage)
  <2>1. route = "timeline"
    BY <1>5 DEF TimelineOnly, GoToPage, FirstPage, PrevPage, NextPage, LastPage,
                SetCurrentPage, Clickable, ReadyView
  <2>2. leftFrom # Null
    BY <1>5 DEF TimelineOnly
  <2>3. QED
    BY <2>1, <2>2 DEF SavedPageIsLeftPage
<1>6. CASE AppOpenVisit
  BY <1>6 DEF AppOpenVisit, OpenVisit, SavedPageIsLeftPage
<1>7. CASE AppReturn
  BY <1>7 DEF AppReturn
<1>8. ASSUME NEW r \in pending, NEW ok \in BOOLEAN, TimelineOnly(Settle(r, ok))
      PROVE  SavedPageIsLeftPage'
  BY <1>8 DEF TimelineOnly, Settle, SavedPageIsLeftPage
<1>9. CASE \/ \E r \in dnsPending, ok \in BOOLEAN : CardOnly(DnsSettle(r, ok))
           \/ CardOnly(ToggleRecords)
  BY <1>9 DEF CardOnly, vars, SavedPageIsLeftPage
<1>10. CASE UNCHANGED appVars
  BY <1>10 DEF appVars, vars, SavedPageIsLeftPage
<1>11. QED
  BY <1>1, <1>2, <1>3, <1>4, <1>5, <1>6, <1>7, <1>8, <1>9, <1>10 DEF AppNext

\* While a details view entered by a timeline link is open, 'saved-page'
\* holds the page the link was followed from, or nothing.
LEMMA SavedPageIsLeftPageHolds == AppSpec => []SavedPageIsLeftPage
<1>1. AppInit => SavedPageIsLeftPage
  BY DEF AppInit, SavedPageIsLeftPage
<1>2. QED
  BY <1>1, HandoffStep, PTL DEF AppSpec

\* Going back restores the page left by a timeline link whenever
\* 'saved-page' survived the stay on the details view.
THEOREM ReturnRestoresUnlessErasedHolds == AppSpec => ReturnRestoresUnlessErased
<1>1. SavedPageIsLeftPage /\ [AppNext]_appVars =>
        [AppReturn /\ leftFrom # Null /\ savedPage # Null => currentPage' = leftFrom]_appVars
  BY DEF SavedPageIsLeftPage, AppReturn, Return, Mount
<1>2. QED
  BY <1>1, SavedPageIsLeftPageHolds, PTL DEF AppSpec, ReturnRestoresUnlessErased
-----------------------------------------------------------------------------
(* A card shows only answers to its own lookups.  Inductive strengthening: *)
(* no card and no lookups while the timeline is shown, and every live DNS  *)
(* request is a lookup of the mounted card.                                *)

CardIInv ==
    /\ route = "timeline" => cardVisit = Null /\ askedOfCard = {}
    /\ \A r \in dnsPending : r.live => r.visit \in askedOfCard
    /\ CardShowsAskedVisit

\* After the card unmounts none of its requests is live.
LEMMA CardUnmountKills ==
    ASSUME dnsPending \in SUBSET DnsRequest, CardUnmount
    PROVE  \A r \in dnsPending' : ~r.live
BY DEF CardUnmount, DnsRequest

\* A lookup adds one live request for its id.
LEMMA FetchAdds ==
    ASSUME NEW v, FetchRecords(v)
    PROVE  \A r \in dnsPending' : r \in dnsPending \/ (r.live /\ r.visit = v)
BY DEF FetchRecords

LEMMA CardIInvStep ==
    AppTypeOK /\ CardMounted /\ CardIInv /\ [AppNext]_appVars => CardIInv'
<1> SUFFICES ASSUME AppTypeOK, CardMounted, CardIInv, [AppNext]_appVars
             PROVE  CardIInv'
  OBVIOUS
<1>0. dnsPending \in SUBSET DnsRequest
  BY DEF AppTypeOK, CardTypeOK
<1>1. CASE TimelineOnly(ToggleMode)
  BY <1>1 DEF TimelineOnly, ToggleMode, cardVars, CardIInv, CardShowsAskedVisit
<1>2. CASE \/ \E t \in RawText : AppSubmitBlank(t)
           \/ \E i \in 0..MaxPage : TimelineOnly(GoToPage(i))
           \/ TimelineOnly(FirstPage \/ PrevPage \/ NextPage \/ LastPage)
           \/ \E r \in pending, ok \in BOOLEAN : TimelineOnly(Settle(r, ok))
  <2>1. UNCHANGED <<route, cardVars, askedOfCard>>
    BY <1>2, QuietSteps DEF TimelineOnly, AppSubmitBlank
  <2>2. QED
    BY <2>1 DEF cardVars, CardIInv, CardShowsAskedVisit
<1>3. ASSUME NEW t \in RawText, AppSubmitDomain(t) PROVE CardIInv'
  <2>1. route' = "timeline" /\ askedOfCard' = {}
    BY <1>3 DEF AppSubmitDomain, SubmitDomain
  <2>2. CASE route = "details"
    <3>1. CardUnmount
      BY <1>3, <2>2 DEF AppSubmitDomain
    <3>2. QED
      BY <2>1, <3>1, <1>0, CardUnmountKills DEF CardUnmount, CardIInv, CardShowsAskedVisit
  <2>3. CASE route # "details"
    <3>1. UNCHANGED cardVars
      BY <1>3, <2>3 DEF AppSubmitDomain
    <3>2. route = "timeline"
      BY <1>3, <2>3 DEF AppSubmitDomain, AppTypeOK, TypeOK
    <3>3. QED
      BY <2>1, <3>1, <3>2 DEF cardVars, CardIInv, CardShowsAskedVisit
  <2>4. QED
    BY <2>2, <2>3
<1>4. ASSUME NEW t \in RawText, AppSubmitVisitId(t) PROVE CardIInv'
  <2>1. route' = "details"
    BY <1>4 DEF AppSubmitVisitId, SubmitVisitId
  <2>2. CASE route = "details"
    <3>1. /\ CardSetVisit(Normalize(t))
          /\ askedOfCard' = askedOfCard \cup {Normalize(t)}
      BY <1>4, <2>2 DEF AppSubmitVisitId
    <3>2. cardVisit # Null
      BY <2>2, VisitIdNotNull DEF CardMounted
    <3>3. \A r \in dnsPending' : r.live => r.visit \in askedOfCard'
      <4>1. CASE Normalize(t) # cardVisit
        BY <3>1, <4>1, FetchAdds DEF CardSetVisit, CardIInv
      <4>2. CASE Normalize(t) = cardVisit
        BY <3>1, <4>2 DEF CardSetVisit, CardIInv
      <4>3. QED
        BY <4>1, <4>2
    <3>4. CardShowsAskedVisit'
      BY <3>1, <3>2 DEF CardSetVisit, CardIInv, CardShowsAskedVisit
    <3>5. QED
      BY <2>1, <3>3, <3>4 DEF CardIInv
  <2>3. CASE route # "details"
    <3>1. /\ CardMount(Normalize(t))
          /\ askedOfCard' = {Normalize(t)}
      BY <1>4, <2>3 DEF AppSubmitVisitId
    <3>2. askedOfCard = {}
      BY <1>4, <2>3 DEF AppSubmitVisitId, SubmitVisitId, AppTypeOK, TypeOK, CardIInv
    <3>3. \A r \in dnsPending' : r.live => r.visit \in askedOfCard'
      BY <3>1, <3>2, FetchAdds DEF CardMount, CardIInv
    <3>4. QED
      BY <2>1, <3>1, <3>3 DEF CardMount, CardIInv, CardShowsAskedVisit
  <2>4. QED
    BY <2>2, <2>3
<1>5. CASE AppOpenVisit
  <2>1. PICK v \in VisitId : CardMount(v) /\ askedOfCard' = {v}
    BY <1>5 DEF AppOpenVisit
  <2>2. route = "timeline" /\ route' = "details"
    BY <1>5 DEF AppOpenVisit, OpenVisit, Clickable, ReadyView
  <2>3. askedOfCard = {}
    BY <2>2 DEF CardIInv
  <2>4. \A r \in dnsPending' : r.live => r.visit \in askedOfCard'
    BY <2>1, <2>3, FetchAdds DEF CardMount, CardIInv
  <2>5. QED
    BY <2>1, <2>2, <2>4 DEF CardMount, CardIInv, CardShowsAskedVisit
<1>6. CASE AppReturn
  <2>1. route' = "timeline" /\ askedOfCard' = {} /\ CardUnmount
    BY <1>6 DEF AppReturn, Return
  <2>2. QED
    BY <2>1, <1>0, CardUnmountKills DEF CardUnmount, CardIInv, CardShowsAskedVisit
<1>7. ASSUME NEW r \in dnsPending, NEW ok \in BOOLEAN, CardOnly(DnsSettle(r, ok))
      PROVE  CardIInv'
  <2>1. UNCHANGED <<route, cardVisit, askedOfCard>> /\ dnsPending' \subseteq dnsPending
    BY <1>7 DEF CardOnly, DnsSettle, vars
  <2>2. r.live => r.visit \in askedOfCard
    BY DEF CardIInv
  <2>3. CardShowsAskedVisit'
    BY <1>7, <2>1, <2>2 DEF CardOnly, DnsSettle, CardIInv, CardShowsAskedVisit
  <2>4. QED
    BY <2>1, <2>3 DEF CardIInv
<1>8. CASE CardOnly(ToggleRecords)
  BY <1>8 DEF CardOnly, ToggleRecords, vars, CardIInv, CardShowsAskedVisit
<1>9. CASE UNCHANGED appVars
  BY <1>9 DEF appVars, vars, cardVars, CardIInv, CardShowsAskedVisit
<1>10. QED
  BY <1>1, <1>2, <1>3, <1>4, <1>5, <1>6, <1>7, <1>8, <1>9 DEF AppNext

\* A mounted DNS card shows only the records of a visit id it was given
\* since it mounted; answers of an earlier details page never reach it.
THEOREM CardShowsAskedVisitHolds == AppSpec => []CardShowsAskedVisit
<1>1. AppInit => CardIInv
  BY DEF AppInit, CardIInv, CardShowsAskedVisit
<1>2. []AppTypeOK /\ []CardMounted /\ [][AppNext]_appVars /\ CardIInv => []CardIInv
  BY CardIInvStep, PTL
<1>3. QED
  BY <1>1, <1>2, AppTypeCorrect, MountedHolds, PTL DEF AppSpec, CardIInv
=============================================================================
