--------------------------- MODULE MCRecordGrouper ---------------------------
(***************************************************************************)
(* Every record list of up to MaxRecords records over two prefixes, an A  *)
(* and a TXT type, and zero or one response, as the data of one DNS card. *)
(* The list is fetched once per card and rendered from then on, so the    *)
(* only step is a re-render, which leaves it unchanged.                   *)
(***************************************************************************)
EXTENDS RecordGrouper, FiniteSets

CONSTANT MaxRecords

VARIABLE records

Lists == UNION {[1..n -> DnsRecord(1)] : n \in 0..MaxRecords}

Init == records \in Lists

\* A re-render of the card (setOpenRecords, a parent update): data unchanged.
Rerender == UNCHANGED records

Spec == Init /\ [][Rerender]_records

TypeOK == records \in Lists

\* Spec 8: a prefix gets a section iff one of its records has responses,
\* exactly once; each section lists exactly the prefix's records with
\* responses, in input order, and no empty record.
GroupsAsSpecified ==
    LET view == GroupedView(records) IN
    /\ {view[k][1] : k \in DOMAIN view} = KeptKeys(records)
    /\ Len(view) = Cardinality(KeptKeys(records))
    /\ \A k \in DOMAIN view : /\ IsIncreasing(view[k][2])
                              /\ SeqRange(view[k][2]) = Kept(records, view[k][1])

\* Spec 4.3 and 8: the sections come in the order in which their prefixes
\* first appear in the input.
KeyOrderFirstSeen ==
    [k \in DOMAIN GroupedView(records) |-> GroupedView(records)[k][1]] = SpecKeys(records)
=============================================================================
