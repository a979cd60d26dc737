---------------------------- MODULE MCPipeline ----------------------------
(* Small instances of Pipeline for TLC.                                    *)
EXTENDS Pipeline

CONSTANTS r1, r2, n1, n2, e1, e2, ghost

D(cites, alike) == [cites |-> cites, alike |-> alike]

\* Of the first request: no claim, one that each case of the lexical tier
\* rejects, one that the writer drops, one without an anchor, good ones.  The
\* second request has no claims: it shares the spans and the memory.
Good == D(<<e1>>, TRUE)

MCDrafts ==
  r1 :> {<<D(<<e1, ghost>>, TRUE)>>, <<D(<<e1>>, FALSE), Good>>,
         <<D(<<ghost>>, TRUE), Good, D(<<e2>>, TRUE)>>}
  @@ r2 :> {<<>>}

MCPlans == r1 :> {n1, n2} @@ r2 :> {n1}

MCReturns == {{e1, e2}}

\* Together every part, with every other part that bears on it: warnings do
\* not bear on promotion or memory, and neither is needed without the other.
MCWirings == {{"critic", "probe"},
              {"kb", "memory", "critic", "judge", "scripts"}}
=============================================================================
