------------------------------ MODULE MCArena ------------------------------
(* The first brief of a round may get any plan over three ids as a reply   *)
(* and some odd ones; the second has no model to ask.  Two curated skills,  *)
(* a file without an end, and skills of other origins under names that are *)
(* taken or that the arena gives.                                          *)
EXTENDS Arena

MCTokenOrder == <<"+", "learned-", "x", "y">>

File(name, more) ==
  <<Line(Fence, Blank), Line("name", name), Line("description", Blank)>> \o more
    \o <<Line(Fence, Blank)>>

MCCurated == <<
  File(<<"x">>, <<Line("origin", <<"curated">>)>>),
  Front(File(<<"y">>, <<Line("origin", <<"curated">>)>>)),
  File(<<"y">>, <<Line("metadata", Blank), Indented("origin", <<"curated">>),
                  Indented("confidence", <<Junk>>), Line("confidence", Blank)>>)>>
MCImported == <<
  File(<<"learned-", "x">>, <<Line("origin", <<"imported">>)>>),
  File(<<"y">>, <<Line(NoColon, Blank), Line("origin", <<"imported">>)>>)>>
MCEvolved == <<
  File(<<"x">>, <<Line("origin", <<"evolved">>), Line("confidence", <<900>>)>>),
  File(<<"learned-", "y">>, <<Line("origin", <<"evolved">>)>>)>>

MCId == {"R1", "R2", "R3", "R4"}
Node(i, deps) == Raw(TRUE, i, deps)
Lists(i, j) == {<<>>, <<i>>, <<j>>, <<i, j>>}
Plans3 == {Object(<<Node("R1", d), Node("R2", e), Node("R3", f)>>) :
             d \in Lists("R2", "R3"), e \in Lists("R1", "R3"), f \in Lists("R1", "R2")}
OddReplies == {
  NoReply, BareValue, Object(<<>>),
  Object(<<Node("R1", <<>>), Node("R1", <<>>)>>),
  Object(<<Node("R1", <<"R4">>)>>), Object(<<Node("R1", <<"R1">>)>>),
  Object(<<Raw(FALSE, "R1", <<>>)>>),
  Object(<<Node("R1", <<"R2">>), Node("R2", <<"R3">>), Node("R3", <<"R4">>),
           Node("R4", <<>>)>>),
  Object(<<Node("R1", <<"R2">>), Node("R2", <<"R3">>), Node("R3", <<"R4">>),
           Node("R4", <<"R1">>)>>)}

MCReplies == <<Plans3 \cup OddReplies, {NoReply}>>
=============================================================================
