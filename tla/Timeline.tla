------------------------------ MODULE Timeline ------------------------------
(***************************************************************************)
(* The search bar (NavigationBar.jsx) and the paginated timeline           *)
(* (TimelineDomainName.jsx) of mercator-ui, composed through the two       *)
(* localStorage slots they share ("search" and "saved-page") and through   *)
(* the route that decides whether the timeline component is mounted.       *)
(*                                                                         *)
(* Every fetch of the timeline is an asynchronous request; its response    *)
(* may come back in any order relative to other requests and user events.  *)
(* A request outlives the component instance that issued it: when the      *)
(* timeline unmounts, its in-flight requests are marked dead, their state  *)
(* setters become no-ops, but the code after the await still runs.         *)
(***************************************************************************)
EXTENDS Integers, FiniteSets, QueryInput

CONSTANTS
    NumPages,     \* the backend's amountOfPages for every domain name
    MaxPage,      \* the largest page index the model lets a button request
    MaxRequests   \* bound on the number of requests issued in a behaviour

ASSUME TimelineAssumption ==
    /\ Null \notin Domain \cup [dom : Domain, page : Int]
    /\ MaxPage \in Nat
    /\ NumPages \in [Names -> 0..(MaxPage + 1)]
    /\ MaxRequests \in Nat

VARIABLES
    urlOrId,      \* NavigationBar: FALSE = search by domain, TRUE = by visit id
    validated,    \* NavigationBar: the form's validated flag
    search,       \* localStorage "search": the committed domain
    savedPage,    \* localStorage "saved-page"
    route,        \* "timeline" (the timeline is mounted) or "details"
    data,         \* TimelineDomainName: the last page applied by setData
    processing,   \* TimelineDomainName: processing
    exception,    \* TimelineDomainName: the request whose failure is shown
    currentPage,  \* TimelineDomainName: currentPage
    pending,      \* requests sent by api.get and not yet settled
    nextId        \* identity of the next request

vars == <<urlOrId, validated, search, savedPage, route, data, processing,
          exception, currentPage, pending, nextId>>
-----------------------------------------------------------------------------
PageIndex == -1..MaxPage

\* A request: the URL it was sent for, and whether the component instance
\* that sent it is still mounted.
Request == [id : Nat, dom : Domain, page : PageIndex, live : BOOLEAN]

\* The body of a response (resp.data) or of an error (ex.response): which
\* domain and page it answers.
Result(r) == [dom |-> r.dom, page |-> r.page]
PageResult == [dom : Domain, page : PageIndex]

\* The backend's paging fields of a result (Spring Data Page semantics).
AmountOfPages(p) == NumPages[p.dom.name]
HasPrevious(p) == p.page > 0
HasNext(p) == p.page + 1 < AmountOfPages(p)
HasItems(p) == 0 <= p.page /\ p.page < AmountOfPages(p)

TypeOK ==
    /\ urlOrId \in BOOLEAN
    /\ validated \in BOOLEAN
    /\ search \in Domain \cup {Null}
    /\ savedPage \in PageIndex \cup {Null}
    /\ route \in {"timeline", "details"}
    /\ data \in PageResult \cup {Null}
    /\ processing \in BOOLEAN
    /\ exception \in PageResult \cup {Null}
    /\ currentPage \in PageIndex
    /\ pending \in SUBSET Request
    /\ nextId \in Nat
-----------------------------------------------------------------------------
(* The synchronous part of executeHook, run by React whenever domainName   *)
(* or currentPage changed since the last render: clear the error, return  *)
(* early without a domain, otherwise send the request and await it.       *)
Effect(dom, page) ==
    /\ exception' = Null
    /\ IF dom = Null
          THEN /\ processing' = FALSE
               /\ UNCHANGED <<pending, nextId>>
          ELSE /\ nextId < MaxRequests
               /\ processing' = TRUE
               /\ pending' = pending \cup {[id |-> nextId, dom |-> dom,
                                            page |-> page, live |-> TRUE]}
               /\ nextId' = nextId + 1

NoEffect == UNCHANGED <<processing, exception, pending, nextId>>

\* Mutant: currentPage = parseInt(localStorage.getItem('saved-page'))
\* without the fallback to 0 when the item is absent.
MountNoDefault(dom) ==
    /\ data' = Null
    /\ currentPage' = savedPage
    /\ Effect(dom, savedPage)

\* Mutant: the saved page is fetched but currentPage starts at 0.
MountRequestsSavedOnly(dom) ==
    LET start == IF savedPage # Null THEN savedPage ELSE 0 IN
    /\ data' = Null
    /\ currentPage' = 0
    /\ Effect(dom, start)

\* A new TimelineDomainName instance: fresh state, the page restored from
\* "saved-page", then the mount-time effect.
Mount(dom) ==
    LET start == IF savedPage # Null THEN savedPage ELSE 0 IN
    /\ data' = Null
    /\ currentPage' = start
    /\ Effect(dom, start)

\* The router leaves the timeline route and the instance goes away; its
\* requests stay in flight, orphaned (the routes are not under src/).
Unmount == pending' = {[r EXCEPT !.live = FALSE] : r \in pending}

Init ==
    /\ urlOrId = FALSE
    /\ validated = FALSE
    /\ search \in Domain \cup {Null}          \* localStorage survives reloads
    /\ savedPage \in PageIndex \cup {Null}
    /\ route = "timeline"
    /\ data = Null
    /\ currentPage = IF savedPage # Null THEN savedPage ELSE 0
    /\ exception = Null
    /\ processing = (search # Null)
    /\ pending = IF search = Null THEN {}
                 ELSE {[id |-> 0, dom |-> search, page |-> currentPage, live |-> TRUE]}
    /\ nextId = IF search = Null THEN 0 ELSE 1
-----------------------------------------------------------------------------
(* NavigationBar                                                           *)

\* changeBtn: the "Change to ..." button flips the search mode.
ToggleMode ==
    /\ urlOrId' = ~urlOrId
    /\ UNCHANGED <<validated, search, savedPage, route, data, processing,
                   exception, currentPage, pending, nextId>>

\* search(), domain mode, blank input: return before any request.
SubmitBlank(t) ==
    /\ ~urlOrId
    /\ IsBlank(t)
    /\ validated' = TRUE
    /\ UNCHANGED <<urlOrId, search, savedPage, route, data, processing,
                   exception, currentPage, pending, nextId>>

\* search(), domain mode: setSearch(input) and navigate('/1').  A mounted
\* timeline re-renders with the new domainName; otherwise one is mounted.
\* Mutant: the raw field value is committed (setSearch(textInput.current.value)).
SubmitDomainRaw(t) ==
    /\ ~urlOrId
    /\ ~IsBlank(t)
    /\ validated' = TRUE
    /\ search' = t
    /\ route' = "timeline"
    /\ IF route = "timeline"
          THEN /\ IF t # search THEN Effect(t, currentPage) ELSE NoEffect
               /\ UNCHANGED <<data, currentPage>>
          ELSE Mount(t)
    /\ UNCHANGED <<urlOrId, savedPage>>

\* Mutant: the effect's dependency list omits domainName, so a new search
\* on the mounted timeline fetches nothing.
SubmitDomainNoRefetch(t) ==
    LET input == Normalize(t) IN
    /\ ~urlOrId
    /\ ~IsBlank(t)
    /\ validated' = TRUE
    /\ search' = input
    /\ route' = "timeline"
    /\ IF route = "timeline"
          THEN NoEffect /\ UNCHANGED <<data, currentPage>>
          ELSE Mount(input)
    /\ UNCHANGED <<urlOrId, savedPage>>

SubmitDomain(t) ==
    LET input == Normalize(t) IN
    /\ ~urlOrId
    /\ ~IsBlank(t)
    /\ validated' = TRUE
    /\ search' = input
    /\ route' = "timeline"
    /\ IF route = "timeline"
          THEN /\ IF input # search THEN Effect(input, currentPage) ELSE NoEffect
               /\ UNCHANGED <<data, currentPage>>
          ELSE Mount(input)
    /\ UNCHANGED <<urlOrId, savedPage>>

\* search(), visit-id mode: navigate('/details/' + input), no check.
\* Mutant: the visit-id branch is taken whatever the mode.
SubmitVisitIdAnyMode(t) ==
    /\ validated' = TRUE
    /\ route' = "details"
    /\ IF route = "timeline" THEN Unmount ELSE UNCHANGED pending
    /\ UNCHANGED <<urlOrId, search, savedPage, data, processing, exception,
                   currentPage, nextId>>

SubmitVisitId(t) ==
    /\ urlOrId
    /\ validated' = TRUE
    /\ route' = "details"
    /\ IF route = "timeline" THEN Unmount ELSE UNCHANGED pending
    /\ UNCHANGED <<urlOrId, search, savedPage, data, processing, exception,
                   currentPage, nextId>>
-----------------------------------------------------------------------------
(* TimelineDomainName                                                      *)

\* renderHtml reaches the table and the paging buttons: no error, a
\* domain, not processing, and data.dtos to map over.
ReadyView ==
    /\ route = "timeline"
    /\ exception = Null
    /\ search # Null
    /\ ~processing

Clickable == ReadyView /\ data # Null

\* Mutant: the effect reads currentPage of the render before the click
\* (a stale closure), so it fetches the page already on screen.
SetCurrentPageStaleClosure(target) ==
    /\ Clickable
    /\ target \in PageIndex
    /\ currentPage' = target
    /\ IF target # currentPage THEN Effect(search, currentPage) ELSE NoEffect
    /\ UNCHANGED <<urlOrId, validated, search, savedPage, route, data>>

\* setCurrentPage(target): React re-renders, and runs the effect if the
\* page actually changed.
SetCurrentPage(target) ==
    /\ Clickable
    /\ target \in PageIndex
    /\ currentPage' = target
    /\ IF target # currentPage THEN Effect(search, target) ELSE NoEffect
    /\ UNCHANGED <<urlOrId, validated, search, savedPage, route, data>>

FirstPage == SetCurrentPage(0)
PrevPage == Clickable /\ HasPrevious(data) /\ SetCurrentPage(currentPage - 1)
GoToPage(i) == Clickable /\ i \in 0..(AmountOfPages(data) - 1) /\ SetCurrentPage(i)
NextPage == Clickable /\ HasNext(data) /\ SetCurrentPage(currentPage + 1)
LastPage == SetCurrentPage(AmountOfPages(data) - 1)

\* The visit-id Link: save currentPage, then leave for the details view.
OpenVisit ==
    /\ Clickable
    /\ HasItems(data)
    /\ savedPage' = currentPage
    /\ route' = "details"
    /\ Unmount
    /\ UNCHANGED <<urlOrId, validated, search, data, processing, exception,
                   currentPage, nextId>>

\* The browser goes back from the details view to the timeline.
Return ==
    /\ route = "details"
    /\ route' = "timeline"
    /\ Mount(search)
    /\ UNCHANGED <<urlOrId, validated, search, savedPage>>

\* Mutant: the failure is only logged (console.log(ex)), never shown.
SettleSwallowError(r, ok) ==
    /\ r \in pending
    /\ ok => r.page >= 0
    /\ pending' = pending \ {r}
    /\ savedPage' = Null
    /\ IF r.live
          THEN /\ processing' = FALSE
               /\ IF ok THEN data' = Result(r) ELSE UNCHANGED data
               /\ UNCHANGED exception
          ELSE UNCHANGED <<processing, data, exception>>
    /\ UNCHANGED <<urlOrId, validated, search, route, currentPage, nextId>>

\* Mutant: setProcessing(false) moved into the .then branch.
SettleClearsOnSuccessOnly(r, ok) ==
    /\ r \in pending
    /\ ok => r.page >= 0
    /\ pending' = pending \ {r}
    /\ savedPage' = Null
    /\ IF r.live
          THEN /\ processing' = (processing /\ ~ok)
               /\ IF ok THEN data' = Result(r) /\ UNCHANGED exception
                        ELSE exception' = Result(r) /\ UNCHANGED data
          ELSE UNCHANGED <<processing, data, exception>>
    /\ UNCHANGED <<urlOrId, validated, search, route, currentPage, nextId>>

\* A request settles: the rest of executeHook after the await.  A 200
\* response is applied by setData, a failure by setException; then
\* processing goes false and "saved-page" is removed.  The setters of an
\* unmounted instance do nothing; the removal still happens.  The backend
\* rejects a negative page index.
Settle(r, ok) ==
    /\ r \in pending
    /\ ok => r.page >= 0
    /\ pending' = pending \ {r}
    /\ savedPage' = Null
    /\ IF r.live
          THEN /\ processing' = FALSE
               /\ IF ok THEN data' = Result(r) /\ UNCHANGED exception
                        ELSE exception' = Result(r) /\ UNCHANGED data
          ELSE UNCHANGED <<processing, data, exception>>
    /\ UNCHANGED <<urlOrId, validated, search, route, currentPage, nextId>>
-----------------------------------------------------------------------------
Next ==
    \/ ToggleMode
    \/ \E t \in RawText : SubmitBlank(t) \/ SubmitDomain(t) \/ SubmitVisitId(t)
    \/ \E i \in 0..MaxPage : GoToPage(i)
    \/ FirstPage \/ PrevPage \/ NextPage \/ LastPage
    \/ OpenVisit
    \/ Return
    \/ \E r \in pending, ok \in BOOLEAN : Settle(r, ok)

\* The network eventually settles every request (the user does nothing
\* they are not free to leave undone).
Fairness == \A i \in 0..(MaxRequests - 1) :
                WF_vars(\E r \in pending, ok \in BOOLEAN : r.id = i /\ Settle(r, ok))

Spec == Init /\ [][Next]_vars
FairSpec == Spec /\ Fairness
-----------------------------------------------------------------------------
(* Properties                                                              *)

\* renderHtml never reaches data.dtos.map while data is still the initial
\* []: whenever no error, no "Enter a search" and no "Searching ..." is
\* shown, some response has been applied by setData.
ReadyHasPage == ReadyView => data # Null

\* While the timeline shows "Searching ...", it waits for the answer to
\* the query on screen: a request of this instance for the committed
\* domain at currentPage is in flight.  Every path that sets processing
\* (mount, new search, page click) must fetch exactly the domain and page
\* it leaves in state, and only a settling request may clear it.
SearchingAwaitsCurrent ==
    route = "timeline" /\ processing =>
        \E r \in pending : r.live /\ r.dom = search /\ r.page = currentPage

\* Spec 4.2 and 5 (stale-response suppression): the result on screen,
\* a page or an error, is the answer to the current domain and page, never
\* to a request that a newer search or page click has superseded.
ShownResultIsCurrent ==
    route = "timeline" =>
        /\ exception # Null => exception = [dom |-> search, page |-> currentPage]
        /\ ReadyView /\ data # Null => data = [dom |-> search, page |-> currentPage]

\* Spec 4.2 (persistence policy): a search for a new domain starts at page
\* 0, whatever page the previous search was on or had saved.
FreshSearchStartsAtPageZero ==
    [][search' # search => currentPage' = 0]_vars

\* Spec 4.2: the mounted timeline enters Fetching on every change of its
\* query (domain text or page index): the step that changes it shows
\* "Searching ..." and sends a request for the new domain and page
\* (useEffect on [domainName, currentPage], lines 19-49).
FetchOnQueryChange ==
    [][route = "timeline" /\ route' = "timeline" /\ <<search, currentPage>>' # <<search, currentPage>>
         => /\ processing'
            /\ \E r \in pending' \ pending : r.live /\ r.dom = search' /\ r.page = currentPage']_vars

\* "Searching ..." always ends while the user stays on the timeline.
SearchingEnds ==
    (route = "timeline" /\ processing) ~> (~processing \/ route # "timeline")
=============================================================================
