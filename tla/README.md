# Formal model of mercator-ui

TLA+ modules for the browser front end of the mercator crawl-inspection tool
(`src/mercator-ui/src/components`): the search bar, the paginated timeline of
visits and the DNS detail card. TLC checks them on small instances; TLAPS
proves the main invariants for every value of the constants.

## 1. Inventory

### Components and their state

| Component | Source | State |
|---|---|---|
| QueryInput | `NavigationBar.jsx` | `urlOrId` (search mode), `validated`, the input's raw text |
| PagedResultStore | `timelineCards/TimelineDomainName.jsx` | `data`, `processing`, `exception`, `currentPage`; reads localStorage `search`, reads/writes/removes `saved-page` |
| RecordGrouper | `detailsCards/DNSCard.jsx` `renderRecords`, `renderDataPerPrefix` | none: a pure function of the fetched records |
| Detail fetch | `DNSCard.jsx` lines 12-30, 187-206 | `data` (the records of `visitId`); `openRecords` is a prop owned by the parent |
| ViewState | `renderHtml` / `render` of both cards | derived: error / enter a search / searching / ready (timeline); no data / table (card) |
| App shell (not in src) | routes, `setSearch`, `api`, `Util` | the route, localStorage `search` |

### Operations

* QueryInput: toggle the mode (`changeBtn`); submit (`search`): in domain mode a
  blank input returns, otherwise the lower-cased trimmed text is committed with
  `setSearch` and the app navigates to `/1` (the timeline); in visit-id mode it
  navigates to `/details/<input>` with no check.
* PagedResultStore: mount (restore `saved-page` or 0); the effect on
  `[domainName, currentPage]` (clear the error, return without a domain,
  otherwise send `GET /find-visits/<domain>?page=<n>`); the request settling
  later (200 -> `setData`, failure -> `setException`, then `processing=false`
  and `removeItem('saved-page')`); the buttons first, prev, 1..n, next, last;
  the visit link (save `currentPage`, go to the details view).
* Detail fetch: the effect on `[visitId]` (`GET /requests/search/findByVisitId`),
  settling (200 -> `setData`, failure -> only logged); the More-info toggle.
* RecordGrouper: distinct prefixes in order of their first record that has
  responses; per prefix, the records with responses, in input order.

### Interactions

QueryInput and the timeline share the localStorage slot `search` and the
route; the timeline and the detail view share `saved-page` through the visit
link and the route back. Every fetch is asynchronous: the single JavaScript
thread interleaves user events (clicks, searches, navigation) with the
settling of any number of in-flight requests, in any order. A request
outlives the component that sent it: after an unmount its state setters do
nothing, but the code after its `await` (the `removeItem`) still runs.

### What is hard

* Responses of superseded requests (older search, older page) settle after
  newer ones: there is no request token (spec 5 requires one).
* `processing` is cleared by whichever request settles first.
* `currentPage` is not reset on a new domain; `saved-page` is consumed by
  whatever mount comes next, and erased by whatever request settles next,
  including one of an unmounted timeline.
* Paging buttons are computed from `data`, which may be a stale page.
* Boundaries: `amountOfPages = 0` makes the last-page button ask for page -1;
  a non-200 success leaves `data` as `[]` and the render throws.

### What makes each component correct

* QueryInput: only a normalized, non-blank domain is ever committed (spec 8).
* PagedResultStore: the result on screen is the answer to the current query
  and page (spec 4.2, 5); "Searching ..." always has a request behind it and
  always ends; the ready view always has a page; fresh searches start at
  page 0 and a saved page is restored exactly once on return (spec 4.2).
* RecordGrouper: a prefix appears iff some record of it has responses; order
  of prefixes and of records within a prefix follows the input (spec 4.3, 8).
* Detail fetch: the records shown are the current visit's; a fetch error is
  distinguishable from an empty result (spec 7).

## 2. Modules

| Module | Models | Status |
|---|---|---|
| `QueryInput.tla` | the raw text of the search field, `trim`, `toLowerCase`, the blank check | done |
| `Timeline.tla` | NavigationBar + TimelineDomainName composed through `search`, `saved-page` and the route | done |
| `MCTimeline.tla` + 5 cfgs | two domains, one with two pages and one with none | done |
| `Timeline_proofs.tla` | TypeOK, the render invariants and the orphaning of requests on unmount, for all constants | done |
| `RecordGrouper.tla` | renderRecords / renderDataPerPrefix as operators, with the spec's grouping as reference operators | done |
| `MCRecordGrouper.tla` + 2 cfgs | every record list of up to 3 records over 2 prefixes, 2 types, 0 or 1 response | done |
| `DetailView.tla` | DNSCard's `[visitId]` fetch, its settling, the "No data" branch of render and the More-info toggle | done |
| `SearchContract.tla` | the search-bar contract of spec 4.1 (mode switch, blank rejected, domain committed, visit shown), as a refinement target | done |
| `App.tla` | Timeline and DetailView composed through the routes; the refinement mapping to SearchContract | done |
| `MCApp.tla` + 5 cfgs | the two names of MCTimeline; `a` has DNS records, `b` and the blank id have none | done |
| `App_proofs.tla` | non-interference, TypeOK, the contract refinement, the saved-page handoff and the card's own answers, for all constants | done |
| `TimelineAbstract.tla` | the spec's store: Idle/Fetching/Ready/Failed with token-checked responses, as a refinement target | planned |

### How `Timeline` corresponds to the code

* Variables: `urlOrId`, `validated` (NavigationBar state); `search`,
  `savedPage` (the two localStorage items); `route` (whether the timeline is
  mounted); `data`, `processing`, `exception`, `currentPage` (the component's
  `useState`s); `pending`, the requests sent and not yet settled, each with
  the domain and page of its URL and whether its component instance is still
  mounted; `nextId`, a request identity.
* `Null` (declared in `QueryInput`, shared by every module) stands for
  `null`, for an absent localStorage item, for the initial `[]` of the
  timeline's `data` and `{}` of the card's, and for "no card mounted".
* A raw input is abstracted to `[name, padded, upper]`; `Trim`, `ToLower`
  clear exactly the flag they act on, so normalisation and the blank check
  (`trim().length === 0`) are modelled by what they do.
* `Effect(dom, page)` is the synchronous part of `executeHook`; it is part of
  every action that changes `domainName` or `currentPage` (React runs it after
  that render; a setter called with the current value re-renders nothing,
  hence `NoEffect`). `Mount` is a fresh instance followed by its effect.
* `Settle(r, ok)` is everything after the `await`, atomic because it runs in
  one chain of microtasks. A negative page can only fail (the backend's
  `PageRequest` rejects it).
* `Return` (the browser's back button) and `Unmount` (the router leaving the
  timeline route: requests in flight stay, dead) are modelled from the spec,
  since the routes are not under `src/`.

### Runs (`MCTimeline`: names `a` with 2 pages, `b` with 0 pages; `MaxPage = 2`, `MaxRequests = 4`)

| Run | cfg | Expect | Shows |
|---|---|---|---|
| timeline_render_safety | MCTimeline.cfg | pass (25k states) | TypeOK, ReadyHasPage, FetchOnQueryChange (spec 4.2: every change of domain or page on the mounted timeline shows "Searching ..." and sends a new request for exactly the new query) |
| timeline_searching_ends | MCTimelineLive.cfg | pass | SearchingEnds under fairness of the network |
| timeline_stale_response | MCTimelineStale.cfg | violation | ShownResultIsCurrent: search a, search b, a's answer lands last |
| timeline_fresh_search_page | MCTimelineFresh.cfg | violation | FreshSearchStartsAtPageZero: a new domain keeps the old/saved page |
| timeline_searching_current | MCTimelineAwait.cfg | pass (25k states) | SearchingAwaitsCurrent: while "Searching ..." shows, a live request for exactly the committed domain at currentPage is in flight, whatever order stale and current answers settle in |

Bounds: four requests are enough for two overlapping searches plus a page
click plus a remount, which is what every hazard above needs; `b` having no
pages exercises `amountOfPages = 0` (page -1); pages -1..2 cover the first,
middle, last and out-of-range pages of `a`. The initial state lets
localStorage hold any committed domain and any saved page, as it can after a
reload.

Fairness: only request settling is weakly fair (`Fairness`): the browser
eventually completes or fails every request (`api.get` sets no timeout, so
this is an assumption on the network). User actions are not fair: a user may
stop at any time.

### RecordGrouper

`DistinctPrefixes` is the loop of `renderRecords` written as a recursive
function over the loop index (`scan[i]` is `distinctPrefixes` after `i`
iterations); `RecordsOfPrefix` is the filter of `renderDataPerPrefix`, over
positions so that order is visible; `GroupedView` pairs them as the rendered
sections. The reference operators (`Kept`, `KeptKeys`, `SpecKeys`) state spec
4.3 without the scan. `MCRecordGrouper` takes every list of at most 3 records
(585 lists) as the card's `data`; a re-render is the only step.

| Run | cfg | Expect | Shows |
|---|---|---|---|
| grouper_groups | MCRecordGrouper.cfg | pass | GroupsAsSpecified: sections = prefixes with a non-empty record, each with exactly its non-empty records in order |
| grouper_key_order | MCRecordGrouperOrder.cfg | violation | KeyOrderFirstSeen: `[www(empty), mail, www]` renders mail first |

Three records suffice: the order divergence needs an empty record of one
prefix, a record of another, then a non-empty record of the first.

### DetailView and App

`DetailView` has the card's variables: `cardVisit` (the `visitId` prop, `Null`
when no card is mounted), `cardData` (`Null` for the initial `{}`, or the
records of a visit, abstracted to that visit), `openRecords` (the parent's
More-info flag), `dnsPending` and `dnsNextId` (requests, as in `Timeline`).
`CardMount` is a fresh card (`data = {}`, collapsed) plus its effect
(`FetchRecords`); `CardSetVisit` is a new `visitId` on the mounted card: the
effect runs if the id changed, `data` is kept; `CardUnmount` leaves requests in
flight, dead; `DnsSettle` applies a 200 answer of a mounted card and only logs
a failure; `ToggleRecords` is the More-info button, present when render() is
past `checkObjectIsFalsy(data)` (`NoDataShown`). Whether a visit has records is
the constant `HasDnsRecords`.

`App` extends both and couples them as the routes do (not under `src/`, so
modelled from the spec): `navigate('/details/' + input)` mounts the card or
gives it a new id, a timeline link mounts it with the link's visit, `/1` and
the back button unmount it; every other step of one component leaves the
other's variables unchanged (`TimelineOnly`, `CardOnly`). Two history
variables carry no state of the code: `leftFrom` records the page a timeline
link was followed from, and `askedOfCard` the visit ids the mounted card has
been given since it mounted (`{}` while no card is mounted).

A third history variable, `submitted`, is the raw field value `search()`
read in the step (line 19), `Null` after every other step; it lets the
contract see the input.

`SearchContract` states spec 4.1 with four variables: `mode`, `committed`,
`view` (`Null` for the timeline, else the visit id shown) and `typed` (the
text submitted by the last step). Its `SearchDomain(t)` commits exactly
`Normalize(t)` of a non-blank `t`, `SearchBlank(t)` changes nothing shown,
`LookupVisit(t)` shows exactly `Normalize(t)`, `OpenDetail`/`Back` switch the
view, and `Idle` is any other step, which changes neither the committed
search nor the view. `App` maps `mode` to `urlOrId`, `committed` to
`search`, `view` to `Null` on the timeline route and to the card's
`cardVisit` on the detail route, and `typed` to `submitted`, and checks
`ImplementsContract == SC!ContractSpec` as a PROPERTY. Without `typed` the
contract could only say that some domain was committed; with it, committing
the raw text, mounting the card for the raw id, or taking the visit-id branch
in domain mode are all refinement failures.

| Run | cfg | Expect | Shows |
|---|---|---|---|
| app_contract_refinement | MCAppContract.cfg | pass (136k states, 30 s) | AppTypeOK, ImplementsContract |
| app_card_stale_visit | MCAppCardShowsCurrentVisit.cfg | violation | CardShowsCurrentVisit: look up a, then b; b answers, then a |
| app_card_error_as_no_data | MCAppNoDataOnlyWhenEmpty.cfg | violation | NoDataOnlyWhenEmpty: a's fetch fails, the card says "No data" |
| app_return_saved_page | MCAppReturnRestoresSavedPage.cfg | violation | ReturnRestoresSavedPage: an orphan request removes `saved-page` while the details view is open |
| app_remount_handoff | MCAppRemount.cfg | pass (1.2M states, 90 s) | ReturnRestoresUnlessErased (a return with `saved-page` present shows exactly that page), CardShowsAskedVisit (a card shows only records of an id it was given since it mounted: answers of an unmounted card never reach a later one) |

Bounds: `MaxRequests = 3` (a stale search, the current one, one remount) and
`MaxDnsRequests = 2` (two ids on one card, or two mounts) are the least the
three hazards need. The contract run takes `MaxDnsRequests = 1`: DNS
answers change no contract variable, and one request still lets the card
mount, change id and unmount. The last step of the
saved-page trace is labelled `AppSubmitDomain` by TLC: re-submitting the
committed search from the details view is the same state change as `Return`.
Fairness is not used here: the properties are safety.

### Findings

1. Stale responses are applied (spec 4.2/5 violated): two overlapping searches
   show the older domain's page, or its error, under the newer heading.
2. Fresh searches do not start at page 0 (spec 4.2 violated): `currentPage`
   outlives a change of domain, and a leftover `saved-page` is applied to the
   next search.
3. DNS prefix sections are ordered by each prefix's first record with
   responses, not by its first appearance (spec 4.3/8 as written).
4. The DNS card shows the previous visit's records after a `visitId` change
   when the answers arrive in the wrong order (or the new one fails): data is
   not reset and no answer is checked against the current id (spec 3, 5).
5. A failed DNS fetch is shown as "No data for this visit.", the message of an
   empty result (spec 7 wants a dedicated error).
6. An orphaned timeline request erases `saved-page` while a details view is
   open (`removeItem` after the `await`, line 45), so the way back lands on
   page 0 (spec 4.2: restored exactly once on return).

## 3. Proofs

`Timeline_proofs.tla`, assuming `NamesAssumption` (`""` is not a name) and
`TimelineAssumption` (`Null` is no text and no result, `MaxPage` and
`MaxRequests` naturals, `NumPages` maps names to 0..MaxPage+1):

* `TypeCorrect`: `Spec => []TypeOK`, from `TypeInit` and `TypeStep`, with
  `EffectTyped` and `NormalizeInDomain` as lemmas.
* `ReadyHasPageHolds`: from the inductive invariant
  `IInv == TypeOK /\ ReadyHasPage`; `TypeOK` gives the shape of the
  request that settles and of the result it writes. Argument: every action
  that ends "Searching ..." on the timeline applies a page or an error,
  every action that clears the error sends a request, a mount starts
  searching whenever it has a domain (`EffectSearching`), and no action
  clears `data` on a mounted page.

`App_proofs.tla` (extends `Timeline_proofs`), assuming in addition
`DetailViewAssumption` (`Null` is no visit id and no card data, `HasDnsRecords`
a Boolean per id, `MaxDnsRequests` a natural):

* `AppTypeCorrect`: `AppSpec => []AppTypeOK`, reusing `TypeStep` for the
  timeline part through `AppStepIsTimelineStep`, with `CardStep` (one case per
  action, lemmas `FetchTyped`, `CardMountTyped`, `CardUnmountTyped`).
* `ContractRefinement`: `AppSpec => ImplementsContract`. The initial state
  maps to `ContractInit`, and every step maps to a contract step or stutter
  (`ContractStep`): a domain search is `SearchDomain` of the submitted text,
  a blank one `SearchBlank`, a visit-id search `LookupVisit` (the card's new
  `visitId` is `Normalize` of the submitted text), every step that neither
  submits nor navigates is `Idle` (`QuietSteps`, `SilentSteps`). A `Back`
  step needs `view # Null`, i.e. a mounted card on the detail route, which
  is the invariant `CardMounted` (`MountedHolds`); `ContractTexts` shows the
  instance's texts, `Normalize` and `IsBlank` are the search bar's.
* `ReturnRestoresUnlessErasedHolds`: from the lemma
  `SavedPageIsLeftPageHolds` (while a details view entered by a timeline
  link is open, `saved-page` is the page left or erased), which is inductive
  (`HandoffStep`); `Return` mounts the timeline at `saved-page` when it is
  present. The lemma `TimelineUnaffected` (`AppSpec => Spec`, from
  `AppStepIsTimelineStep`) lets the Timeline invariants be reused.

`SearchingAwaitsCurrentHolds`: while "Searching ..." shows, the request
awaited is the one for the query in state. It is inductive with
`TypeOK` alone (`AwaitStep`): every path that sets `processing` goes
through `Effect` with the domain and page it leaves in state (`EffectAwaits`,
`MountAwaits`), a live request settling clears `processing`, and a dead
one is never the witness. `FetchOnQueryChangeHolds` needs one more
invariant, `IdsIssued` (every request in flight has an identity below
`nextId`, `IdsHold`), so that the request an effect sends is not already
in `pending` (`EffectFresh`); `FetchStep` then has two real cases, a new
domain on the mounted timeline and a page click, and every other action
either leaves the query alone or leaves the timeline. TLC checked
`IdsIssued` on the MCTimeline model before it was proved.

`CardShowsAskedVisitHolds` (`App_proofs.tla`) needs the strengthening
`CardIInv`: on the timeline route no card is mounted and `askedOfCard = {}`;
every live DNS request is for an id in `askedOfCard`; and
`CardShowsAskedVisit` itself. The middle conjunct is the heart of it: a
settling request can only set the card's data if it is live, and then its
id was asked. `CardUnmount` kills every request (`CardUnmountKills`), and a
mount starts from an empty `askedOfCard` with only dead requests left, so
the old card's answers cannot satisfy the guard. `CardIInv` was checked by
TLC as an invariant of the app_remount_handoff model before it was proved;
the proof cites `AppTypeOK` and `CardMounted` (`CardIInvStep`).

Only model-checked: the liveness `SearchingEnds` (TLAPS does not handle
fairness or ENABLED), `GroupsAsSpecified` (what the scan of `DistinctPrefixes` and
`SelectSeq` compute for every input needs induction over data: even
unfolding a recursive function definition rests on the library's
`RecursiveFcnOfNat`, whose operator parameter the installed provers cannot
instantiate), and
the violated properties.

## 4. Not modelled

The `api` client and backend (a request that succeeds with the page for its
URL or fails), `Util` helpers, date formatting with `moment`, markup and
styling. The DNS card's table rows (`data[0].rcode`, ...) carry no state;
the details page around the card is not under `src/` and is modelled only as
the owner of `openRecords`. Browser history is one step back.

## 5. Plan for later sittings

1. `TimelineAbstract.tla`: the spec's store with token-checked responses; the
   refinement of it by a token-checked variant of `Timeline`, and its failure
   for the code as it is.
2. Liveness of the card: a mounted card's requests all settle (under the same
   network fairness as the timeline).
3. Proofs: the refinement of `TimelineAbstract` step by step, once it exists.
