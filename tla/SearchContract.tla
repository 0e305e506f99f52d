--------------------------- MODULE SearchContract ---------------------------
(***************************************************************************)
(* What the search bar promises the rest of the front end (the contract of *)
(* the query input, spec section 4.1), stated without the page store or    *)
(* the cards: a two-state mode switch, a domain search that commits the    *)
(* normalised text it was given and shows the timeline, a visit-id lookup  *)
(* that shows the detail view of exactly the normalised text it was given, *)
(* a blank domain search that changes nothing, and the way back from a     *)
(* detail view to the timeline.                                            *)
(***************************************************************************)
EXTENDS QueryInput

VARIABLES
    mode,       \* FALSE: DomainSearch, TRUE: VisitIdLookup
    committed,  \* the committed search text, Null before the first search
    view,       \* the visit id whose detail view is shown, Null: the timeline
    typed       \* the raw text of the field submitted by the last step,
                \* Null when the last step submitted nothing

contractVars == <<mode, committed, view, typed>>

\* A visit id as the detail view receives it: normalised, possibly blank.
LookupId == {Normalize(t) : t \in RawText}

ContractInit ==
    /\ mode = FALSE
    /\ committed \in Domain \cup {Null}
    /\ view = Null
    /\ typed = Null

SwitchMode ==
    /\ mode' = ~mode
    /\ typed' = Null
    /\ UNCHANGED <<committed, view>>

\* A domain search of a text that is not blank commits that text,
\* normalised, and shows its timeline.
SearchDomain(t) ==
    /\ ~mode
    /\ ~IsBlank(t)
    /\ typed' = t
    /\ committed' = Normalize(t)
    /\ view' = Null
    /\ UNCHANGED mode

\* A domain search of a blank text changes nothing that is shown.
SearchBlank(t) ==
    /\ ~mode
    /\ IsBlank(t)
    /\ typed' = t
    /\ UNCHANGED <<mode, committed, view>>

\* A visit-id lookup shows the detail view of the normalised text, blank
\* or not, and keeps the committed search.
LookupVisit(t) ==
    /\ mode
    /\ typed' = t
    /\ view' = Normalize(t)
    /\ UNCHANGED <<mode, committed>>

\* The browser goes back from a detail view to the timeline of the
\* committed search.
Back ==
    /\ view # Null
    /\ view' = Null
    /\ typed' = Null
    /\ UNCHANGED <<mode, committed>>

\* A visit link of the timeline opens the detail view of some visit.
OpenDetail(v) ==
    /\ view = Null
    /\ view' = v
    /\ typed' = Null
    /\ UNCHANGED <<mode, committed>>

\* Any other step submits nothing and changes nothing that is shown.
Idle ==
    /\ typed' = Null
    /\ UNCHANGED <<mode, committed, view>>

ContractNext ==
    \/ SwitchMode
    \/ \E t \in RawText : SearchDomain(t) \/ SearchBlank(t) \/ LookupVisit(t)
    \/ \E v \in LookupId : OpenDetail(v)
    \/ Back
    \/ Idle

ContractSpec == ContractInit /\ [][ContractNext]_contractVars
=============================================================================
