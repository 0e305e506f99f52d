---------------------------- MODULE RecordGrouper ----------------------------
(***************************************************************************)
(* The grouping of DNS records by prefix done while rendering DNSCard.jsx: *)
(* renderRecords (lines 99-127) scans data for the distinct prefixes that *)
(* have responses, and renderDataPerPrefix (lines 59-96) lists, for one    *)
(* prefix, the records that have responses.  A record is identified by    *)
(* its position in data, so the order of the output can be checked.       *)
(*                                                                         *)
(* No RECURSIVE operator and no community module that reaches one, so     *)
(* modules proved about can use these operators.                           *)
(***************************************************************************)
EXTENDS Naturals, Sequences

CONSTANTS
    Prefixes,      \* the record prefixes (group keys)
    RecordTypes,   \* the DNS record types, "A" and "AAAA" among them
    Responses      \* the response entries a record may carry

\* A record of resp.data._embedded.requests, with at most MaxResponses
\* response entries.
DnsRecord(maxResponses) ==
    [prefix : Prefixes, recordType : RecordTypes,
     responses : UNION {[1..n -> Responses] : n \in 0..maxResponses}]

\* The set of elements of a sequence.
SeqRange(s) == {s[i] : i \in DOMAIN s}

\* item.responses.length >= 1
HasResponses(item) == Len(item.responses) >= 1

\* Mutant: the scan keeps every new prefix, with or without responses.
DistinctPrefixesAll(data) ==
    LET scan[i \in 0..Len(data)] ==
            IF i = 0 THEN << >>
            ELSE IF data[i].prefix \notin SeqRange(scan[i - 1])
                 THEN Append(scan[i - 1], data[i].prefix)
                 ELSE scan[i - 1]
    IN  scan[Len(data)]

\* renderRecords, lines 100-108: one pass over data, pushing a prefix not
\* yet in distinctPrefixes when its record has responses.
DistinctPrefixes(data) ==
    LET scan[i \in 0..Len(data)] ==
            IF i = 0 THEN << >>
            ELSE IF data[i].prefix \notin SeqRange(scan[i - 1]) /\ HasResponses(data[i])
                 THEN Append(scan[i - 1], data[i].prefix)
                 ELSE scan[i - 1]
    IN  scan[Len(data)]

\* renderDataPerPrefix, lines 61-65: the positions of the records of the
\* prefix that have responses, in the order of data.
RecordsOfPrefix(data, prefix) ==
    SelectSeq([i \in 1..Len(data) |-> i],
              LAMBDA i : data[i].prefix = prefix /\ HasResponses(data[i]))

\* renderRecords, lines 110-126: one section per distinct prefix.
GroupedView(data) ==
    LET keys == DistinctPrefixes(data) IN
    [k \in 1..Len(keys) |-> <<keys[k], RecordsOfPrefix(data, keys[k])>>]

\* Lines 76-81: the record data of an A or AAAA record is not shown, only
\* its Geo IPs.
ShowsRecordData(item) == item.recordType \notin {"A", "AAAA"}
-----------------------------------------------------------------------------
(* Spec 4.3 and 8, stated independently of the scan, as references.       *)

\* The positions of the records of key with responses.
Kept(data, key) == {i \in 1..Len(data) : data[i].prefix = key /\ HasResponses(data[i])}

\* The keys that have at least one record with responses.
KeptKeys(data) == {k \in Prefixes : Kept(data, k) # {}}

\* The position at which key first appears in data, empty records included.
FirstIndex(data, key) == CHOOSE i \in 1..Len(data) :
                            /\ data[i].prefix = key
                            /\ \A j \in 1..(i - 1) : data[j].prefix # key

\* The kept keys in the order in which they first appear in the input.
SpecKeys(data) ==
    LET firsts == SelectSeq([i \in 1..Len(data) |-> i],
                            LAMBDA i : data[i].prefix \in KeptKeys(data)
                                       /\ FirstIndex(data, data[i].prefix) = i)
    IN  [k \in 1..Len(firsts) |-> data[firsts[k]].prefix]

IsIncreasing(s) == \A i, j \in DOMAIN s : i < j => s[i] < s[j]
=============================================================================
