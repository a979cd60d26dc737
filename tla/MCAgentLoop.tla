---------------------------- MODULE MCAgentLoop ----------------------------
(* A small instance of AgentLoop for TLC.                                  *)
EXTENDS AgentLoop

CONSTANTS read, edit

T(writes, risk) == [writes |-> writes, risk |-> risk]

MCTool == {T(FALSE, "low"), T(TRUE, "destructive")}

MCRegistry == edit :> T(TRUE, "destructive")

\* No call, one, two; a reason to go on, one to end the turn with calls left.
MCReplies ==
  {[names |-> <<>>, stop |-> "end_turn"],
   [names |-> <<edit>>, stop |-> "pause_turn"],
   [names |-> <<read, edit>>, stop |-> "tool_use"]}

Hook(event, covers) == [event |-> event, covers |-> covers]

\* The four modes, each kind of rule, and rules that contradict each other.
MCSetups ==
  {[provider |-> "mock", mode |-> "plan", deny |-> {}, ask |-> {read},
    allow |-> {edit}, hooks |-> <<Hook("post", {edit})>>, maxSteps |-> 2],
   [provider |-> "mock", mode |-> "default", deny |-> {}, ask |-> {}, allow |-> {},
    hooks |-> <<Hook("pre", {edit}), Hook("pre", {read, edit})>>, maxSteps |-> 1],
   [provider |-> "anthropic", mode |-> "bypass", deny |-> {edit}, ask |-> {edit},
    allow |-> {edit}, hooks |-> <<>>, maxSteps |-> 2],
   [provider |-> "anthropic", mode |-> "acceptEdits", deny |-> {}, ask |-> {edit},
    allow |-> {edit}, hooks |-> <<>>, maxSteps |-> 2]}
=============================================================================
