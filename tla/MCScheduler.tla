----------------------------- MODULE MCScheduler -----------------------------
(* Small instances of Scheduler for TLC.                                   *)
EXTENDS Scheduler

MCKind == {"search.arxiv", "fetch.pdf", "kb.lookup"}
MCSearchKinds == {"search.arxiv"}
MCLookupKind == "kb.lookup"

MCOp == {"fetch.pdf"}
MCCovers == [o \in MCOp |-> {o}]
MCPairOp == {"fetch.pdf", "*"}
MCPairCovers == [o \in MCPairOp |-> IF o = "*" THEN MCKind ELSE {o}]

MCSpecialist == {"survey", "deep-read"}
MCCohort == [k \in {"search.arxiv", "fetch.pdf"} |->
               IF k = "fetch.pdf" THEN "deep-read" ELSE "survey"]
MCNoCohort == <<>>

\* A chain that is listed out of order, so that it takes several passes, with
\* two gated nodes; and two gated branches, one of high risk, that join.
Chain == [deps |-> <<{3}, {}, {2}>>,
          kind |-> <<"kb.lookup", "search.arxiv", "fetch.pdf">>,
          risk |-> <<"medium", "low", "medium">>]
Join == [deps |-> <<{}, {}, {1, 2}>>,
         kind |-> <<"fetch.pdf", "fetch.pdf", "kb.lookup">>,
         risk |-> <<"medium", "high", "low">>]
MCPlans == {Chain, Join}

\* For two threads at once, without a cohort.  The prefix op matches all kinds.
Pair == [deps |-> <<{2}, {}>>,
         kind |-> <<"search.arxiv", "fetch.pdf">>,
         risk |-> <<"low", "medium">>]
Lookup == [deps |-> <<{}, {1}>>,
           kind |-> <<"kb.lookup", "fetch.pdf">>,
           risk |-> <<"medium", "high">>]
MCPairPlans == {Pair, Lookup}
=============================================================================
