--------------------------- MODULE MCKnowledgeBase ---------------------------
(* Small instances of KnowledgeBase for TLC.                               *)
EXTENDS KnowledgeBase

CONSTANTS a, b, c, first, second

MCPaper == {a, b, c}
MCText == {first, second}
\* The first text refers to b by its id, the second to c by author and year.
MCMentions == [t \in MCText |-> IF t = first THEN {b} ELSE {}]
MCAuthored == [t \in MCText |-> IF t = second THEN {c} ELSE {}]

MCUserEdge == {<<a, b, "cites">>}

Cites(ok, es) == [verified |-> ok, cites |-> es]
From(i) == [id |-> i, text |-> second]

\* Two claims with the same anchor, an unverified one and another anchor.
Plain == <<Cites(TRUE, <<From(b), From(a)>>), Cites(FALSE, <<From(a)>>),
           Cites(TRUE, <<From(b)>>), Cites(TRUE, <<From(c)>>)>>
\* The first evidence of the claim has no identifier.
Unanchored == <<Cites(TRUE, <<From(NoId), From(b)>>)>>

MCReport == {Plain}
MCAnyReport == {Plain, Unanchored}
=============================================================================
