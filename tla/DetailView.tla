----------------------------- MODULE DetailView -----------------------------
(***************************************************************************)
(* The DNS card of the details view (DNSCard.jsx): the records of its      *)
(* visitId prop are fetched by an effect on [visitId] and applied when the *)
(* request settles; a failure is only logged.  The "More info" flag        *)
(* openRecords is a prop owned by the details page around the card.        *)
(* The actions are parameterised by the visit id the route supplies; App   *)
(* composes them with the timeline's navigation.                           *)
(***************************************************************************)
EXTENDS Integers, QueryInput

CONSTANTS
    HasDnsRecords,   \* whether the backend holds DNS records for a visit id
    MaxDnsRequests   \* bound on the number of DNS requests in a behaviour

\* A visit id as typed in the search bar or taken from a timeline link:
\* normalised text, possibly blank (the visit-id mode has no blank check).
VisitId == {Normalize(t) : t \in RawText}

ASSUME DetailViewAssumption ==
    /\ Null \notin VisitId \cup [visit : VisitId]
    /\ HasDnsRecords \in [Names \cup {""} -> BOOLEAN]
    /\ MaxDnsRequests \in Nat

VARIABLES
    cardVisit,    \* the visitId prop of the mounted card, Null when unmounted
    cardData,     \* DNSCard data: Null ({}) or the records of a visit
    openRecords,  \* the details page's openRecords
    dnsPending,   \* DNS requests sent and not yet settled
    dnsNextId     \* identity of the next DNS request

cardVars == <<cardVisit, cardData, openRecords, dnsPending, dnsNextId>>

DnsRequest == [id : Nat, visit : VisitId, live : BOOLEAN]

\* resp.data._embedded.requests of a 200 answer: the records of a visit.
DnsResult == [visit : VisitId]

CardTypeOK ==
    /\ cardVisit \in VisitId \cup {Null}
    /\ cardData \in DnsResult \cup {Null}
    /\ openRecords \in BOOLEAN
    /\ dnsPending \in SUBSET DnsRequest
    /\ dnsNextId \in Nat

\* render(), line 133: checkObjectIsFalsy(data) - the initial {} or an
\* empty record list - shows "No data for this visit."
NoDataShown == cardData = Null \/ ~HasDnsRecords[cardData.visit.name]

\* handlerData, lines 15-29: send the request for the visit.
FetchRecords(v) ==
    /\ dnsNextId < MaxDnsRequests
    /\ dnsPending' = dnsPending \cup {[id |-> dnsNextId, visit |-> v, live |-> TRUE]}
    /\ dnsNextId' = dnsNextId + 1

\* The details route mounts the page and its card: fresh state (openRecords
\* collapsed, data {}), then the mount-time effect.
CardMount(v) ==
    /\ cardVisit' = v
    /\ cardData' = Null
    /\ openRecords' = FALSE
    /\ FetchRecords(v)

\* Mutant: a new visitId also resets data to {} before fetching.
CardSetVisitResetting(v) ==
    /\ cardVisit' = v
    /\ IF v # cardVisit
          THEN FetchRecords(v) /\ cardData' = Null
          ELSE UNCHANGED <<dnsPending, dnsNextId, cardData>>
    /\ UNCHANGED openRecords

\* The route changes visitId on the mounted card: the effect runs again if
\* the id changed; data keeps the previous visit's records meanwhile.
CardSetVisit(v) ==
    /\ cardVisit' = v
    /\ IF v # cardVisit THEN FetchRecords(v) ELSE UNCHANGED <<dnsPending, dnsNextId>>
    /\ UNCHANGED <<cardData, openRecords>>

\* The router leaves the details route: the card goes, its requests stay in
\* flight (the routes are not under src/).
CardUnmount ==
    /\ cardVisit' = Null
    /\ dnsPending' = {[r EXCEPT !.live = FALSE] : r \in dnsPending}
    /\ UNCHANGED <<cardData, openRecords, dnsNextId>>

\* Mutant: the answer is applied also after the card is gone.
DnsSettleAppliesOrphans(r, ok) ==
    /\ r \in dnsPending
    /\ dnsPending' = dnsPending \ {r}
    /\ IF ok THEN cardData' = [visit |-> r.visit] ELSE UNCHANGED cardData
    /\ UNCHANGED <<cardVisit, openRecords, dnsNextId>>

\* A DNS request settles (lines 18-26): a 200 answer of a mounted card is
\* applied by setData; a failure is only logged.
DnsSettle(r, ok) ==
    /\ r \in dnsPending
    /\ dnsPending' = dnsPending \ {r}
    /\ IF r.live /\ ok THEN cardData' = [visit |-> r.visit] ELSE UNCHANGED cardData
    /\ UNCHANGED <<cardVisit, openRecords, dnsNextId>>

\* The "More info" button, shown when there is data (lines 187-195).
ToggleRecords ==
    /\ cardVisit # Null
    /\ ~NoDataShown
    /\ openRecords' = ~openRecords
    /\ UNCHANGED <<cardVisit, cardData, dnsPending, dnsNextId>>
=============================================================================
