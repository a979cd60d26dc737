-------------------------- MODULE MCKnowledgeGraph --------------------------
(* Two graphs: a ring of five papers, where one is reached the long way    *)
(* round if the nearest do not come first, with an edge into the void; and *)
(* a small one with a paper that has no identifier and a cycle.            *)
EXTENDS KnowledgeGraph

MCPaper == {"a", "b", "c", "d", "e", "gone", ""}
MCText == {"t", "u"}
MCKind == {"cites"}

Cites(pairs) == {<<p[1], p[2], "cites">> : p \in pairs}

MCGraphs == {
  [papers |-> [p \in {"a", "b", "c", "d", "e"} |-> "t"],
   edges |-> Cites({<<"a", "b">>, <<"e", "b">>, <<"a", "c">>, <<"c", "d">>, <<"d", "e">>,
                    <<"e", "gone">>})],
  [papers |-> [p \in {"a", "b", "c", ""} |-> "u"],
   edges |-> Cites({<<"a", "b">>, <<"b", "a">>, <<"b", "">>})]}

Ask(depth, direction, max) ==
  [seed |-> "a", depth |-> depth, direction |-> direction, max |-> max]
MCAsked == {Ask(3, "both", 9), Ask(2, "both", 4), Ask(1, "out", 9), Ask(2, "in", 1),
            [Ask(1, "both", 2) EXCEPT !.seed = Nothing]}

Read1(id, text) == [id |-> id, text |-> text]
MCBatches == {<<Read1("a", "t"), Read1("b", "u")>>, <<Read1("", "t"), Read1("gone", "t")>>}
=============================================================================
