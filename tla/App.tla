-------------------------------- MODULE App --------------------------------
(***************************************************************************)
(* The front end as one system: the search bar and the timeline page       *)
(* (Timeline) and the DNS card of the detail view (DetailView), coupled by *)
(* the route.  Entering the detail view mounts the card with the visit id  *)
(* of the URL, a new id on the detail route is a new visitId prop of the   *)
(* same card, and leaving it unmounts the card.  Every other step of one   *)
(* component leaves the other's state alone.                               *)
(***************************************************************************)
EXTENDS Timeline, DetailView

VARIABLES
    leftFrom,     \* history: the page a timeline link was followed from,
                  \* Null unless the detail view was entered by that link
    askedOfCard,  \* history: the visit ids given to the mounted card since
                  \* it mounted, {} while no card is mounted
    submitted     \* history: the raw field value search() read in this
                  \* step (line 19), Null when the step was no search()

appVars == <<vars, cardVars, leftFrom, askedOfCard, submitted>>

AppTypeOK ==
    /\ TypeOK
    /\ CardTypeOK
    /\ leftFrom \in PageIndex \cup {Null}
    /\ askedOfCard \in SUBSET VisitId
    /\ submitted \in RawText \cup {Null}

AppInit ==
    /\ Init
    /\ cardVisit = Null
    /\ cardData = Null
    /\ openRecords = FALSE
    /\ dnsPending = {}
    /\ dnsNextId = 0
    /\ leftFrom = Null
    /\ askedOfCard = {}
    /\ submitted = Null

\* Steps of the timeline page alone.
TimelineOnly(A) ==
    A /\ submitted' = Null /\ UNCHANGED <<cardVars, leftFrom, askedOfCard>>

\* Steps of the card alone.
CardOnly(A) ==
    A /\ submitted' = Null /\ UNCHANGED <<vars, leftFrom, askedOfCard>>

\* search() with a blank field in domain mode: returns at line 24.
AppSubmitBlank(t) ==
    /\ SubmitBlank(t)
    /\ submitted' = t
    /\ UNCHANGED <<cardVars, leftFrom, askedOfCard>>

\* navigate('/1') from the search bar: on the detail route the card goes.
AppSubmitDomain(t) ==
    /\ SubmitDomain(t)
    /\ IF route = "details" THEN CardUnmount ELSE UNCHANGED cardVars
    /\ leftFrom' = Null
    /\ askedOfCard' = {}
    /\ submitted' = t

\* navigate('/details/' + input): mounts the card, or gives the mounted one
\* a new visitId.
AppSubmitVisitId(t) ==
    /\ SubmitVisitId(t)
    /\ IF route = "details"
          THEN CardSetVisit(Normalize(t)) /\ askedOfCard' = askedOfCard \cup {Normalize(t)}
          ELSE CardMount(Normalize(t)) /\ askedOfCard' = {Normalize(t)}
    /\ submitted' = t
    /\ UNCHANGED leftFrom

\* A visit link of the timeline (line 161) opens the card of its visit.
AppOpenVisit ==
    /\ OpenVisit
    /\ \E v \in VisitId : CardMount(v) /\ askedOfCard' = {v}
    /\ leftFrom' = currentPage
    /\ submitted' = Null

AppReturn ==
    /\ Return
    /\ CardUnmount
    /\ leftFrom' = Null
    /\ askedOfCard' = {}
    /\ submitted' = Null

AppNext ==
    \/ TimelineOnly(ToggleMode)
    \/ \E t \in RawText : \/ AppSubmitBlank(t)
                          \/ AppSubmitDomain(t)
                          \/ AppSubmitVisitId(t)
    \/ \E i \in 0..MaxPage : TimelineOnly(GoToPage(i))
    \/ TimelineOnly(FirstPage \/ PrevPage \/ NextPage \/ LastPage)
    \/ AppOpenVisit
    \/ AppReturn
    \/ \E r \in pending, ok \in BOOLEAN : TimelineOnly(Settle(r, ok))
    \/ \E r \in dnsPending, ok \in BOOLEAN : CardOnly(DnsSettle(r, ok))
    \/ CardOnly(ToggleRecords)

AppSpec == AppInit /\ [][AppNext]_appVars
-----------------------------------------------------------------------------
(* Properties                                                              *)

\* The search-bar contract, with the shown view read off the route and the
\* visitId prop of the mounted card.
SC == INSTANCE SearchContract
        WITH mode <- urlOrId,
             committed <- search,
             view <- IF route = "timeline" THEN Null ELSE cardVisit,
             typed <- submitted

\* Refinement: the composed front end implements the search-bar contract -
\* a blank domain search changes nothing, a domain search commits the
\* normalised text of the field, a visit-id search mounts the card for the
\* normalised text of the field, and no other step changes the committed
\* search or the card's visit id without a route change.
ImplementsContract == SC!ContractSpec

\* Once its requests have settled, the DNS card shows the records of the
\* visit it is mounted for (DNSCard keeps data across a visitId change and
\* applies every answer of a mounted card, in the order they arrive).
CardShowsCurrentVisit ==
    (cardVisit # Null /\ cardData # Null /\ ~\E r \in dnsPending : r.live)
        => cardData.visit = cardVisit

\* "No data for this visit." is shown, once the card's requests have
\* settled, only for a visit without records: a failed fetch is a FetchError
\* with its own message, not an empty result (spec section 7; DNSCard only
\* logs the failure).
NoDataOnlyWhenEmpty ==
    (cardVisit # Null /\ ~\E r \in dnsPending : r.live)
        => (NoDataShown => ~HasDnsRecords[cardVisit.name])

\* Going back from a visit opened by a timeline link restores the page the
\* link was followed from (the 'saved-page' handoff of TimelineDomainName,
\* written by the link and read when the page mounts again).
ReturnRestoresSavedPage ==
    [][AppReturn /\ leftFrom # Null => currentPage' = leftFrom]_appVars

\* A mounted DNS card shows only the records of a visit id it was given
\* since it mounted: an answer to a request of an earlier details page never
\* reaches it, because React drops the setData of an unmounted card (line
\* 21) and a new card starts from {} (line 12).
CardShowsAskedVisit ==
    cardVisit # Null /\ cardData # Null => cardData.visit \in askedOfCard

\* Going back from a visit opened by a timeline link restores the page the
\* link was followed from whenever 'saved-page' survived: erasure by an
\* orphaned request is the only way the handoff of lines 16 and 162 fails.
ReturnRestoresUnlessErased ==
    [][AppReturn /\ leftFrom # Null /\ savedPage # Null => currentPage' = leftFrom]_appVars
=============================================================================
