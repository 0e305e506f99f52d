----------------------------- MODULE MCTimeline -----------------------------
EXTENDS Timeline

\* Two domains: "a" has two pages of visits, "b" has none (amountOfPages 0,
\* so its "last page" button asks for page -1).
MCNames == {"a", "b"}
MCNumPages == [n \in MCNames |-> IF n = "a" THEN 2 ELSE 0]
=============================================================================
