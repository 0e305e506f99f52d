-------------------------------- MODULE MCApp --------------------------------
EXTENDS App

\* The timeline instance of MCTimeline; of the two names, "a" is a visit id
\* with DNS records and "b" one without (an unknown id looks like "b").
MCNames == {"a", "b"}
MCNumPages == [n \in MCNames |-> IF n = "a" THEN 2 ELSE 0]
MCHasDnsRecords == [n \in MCNames \cup {""} |-> n = "a"]
=============================================================================
