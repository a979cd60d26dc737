----------------------------- MODULE AgentLoop -----------------------------
(***************************************************************************)
(* The agent loop of harness_core: AgentLoop.run (loop.py) with the        *)
(* permission resolver, the hooks, the tool registry, the tracer and the   *)
(* two providers it calls.  One thread runs the loop; what it calls out    *)
(* to, the model, the approver, a hook, a tool, answers as it likes or     *)
(* raises, and the registry may change while it waits for an answer.       *)
(*                                                                         *)
(* A call is a tool's name, its arguments left out; the content of a       *)
(* result is what became of the call: it was "refused" by the loop, the    *)
(* tool "failed", it failed with a text that "blames" a block ("blocked    *)
(* by" occurs in it), or it is "ok".                                       *)
(***************************************************************************)
EXTENDS Naturals, Sequences, FiniteSets, SequencesExt

CONSTANTS
  Name,        \* the names a call may carry, registered or not
  Tool,        \* the tools: records of writes and risk
  Replies,     \* what the model may answer: names called, raw stop reason
  Registry,    \* the tools registered at first, from names to tools
  Setups,      \* provider, mode, policy, hooks and max_steps of a loop
  Outcomes,    \* what may become of a tool's run: ok, failed or blames
  MaxRuns,     \* bound: how often run is called
  MaxChanges   \* bound: how often a tool is registered or unregistered

StopReason == {"end_turn", "tool_use", "max_tokens", "stop_sequence", "error"}
Risk == {"low", "medium", "high", "destructive"}
Mode == {"plan", "default", "acceptEdits", "bypass"}

ASSUME AgentAssumption ==
  /\ Tool \subseteq [writes : BOOLEAN, risk : Risk]
  /\ DOMAIN Registry \subseteq Name /\ \A n \in DOMAIN Registry : Registry[n] \in Tool
  /\ MaxRuns \in Nat /\ MaxChanges \in Nat
  /\ Outcomes \subseteq {"ok", "failed", "blames"}
  /\ \A r \in Replies : r.names \in Seq(Name)
  /\ \A s \in Setups :
       /\ s.provider \in {"mock", "anthropic"} /\ s.mode \in Mode
       /\ s.maxSteps \in Nat \ {0}
       /\ \A part \in {"deny", "ask", "allow"} : s[part] \subseteq Name
       /\ \A i \in DOMAIN s.hooks : s.hooks[i].covers \subseteq Name

VARIABLES
  setup,    \* what AgentLoop.__init__ was given
  tools,    \* ToolRegistry._tools, from names to tools
  changes,  \* how often it changed
  loop,     \* the locals of run and of _execute_call
  result,   \* the LoopResult a caller holds
  ends,     \* how each run ended, in order
  tracer,   \* the Tracer: open spans, closed spans, metrics
  ran       \* history: each call that reached a tool, as it was vetted

vars == <<setup, tools, changes, loop, result, ends, tracer, ran>>

Place == {"idle", "model", "call", "approve", "pre", "tool", "post"}

NoLoop == [at |-> "idle", transcript |-> <<>>, step |-> 0, count |-> 0,
           blocked |-> 0, results |-> <<>>, hook |-> 0, what |-> "ok",
           seen |-> [writes |-> FALSE, risk |-> "low"], approved |-> FALSE]

Init ==
  /\ setup \in Setups
  /\ tools = Registry
  /\ changes = 0
  /\ loop = NoLoop
  /\ result = [transcript |-> <<>>, steps |-> 0, count |-> 0, blocked |-> 0]
  /\ ends = <<>>
  /\ tracer = [stack |-> <<>>, spans |-> <<>>, calls |-> 0, denied |-> 0,
               rejected |-> 0, hookBlocked |-> 0]
  /\ ran = {}

-----------------------------------------------------------------------------
(* The tracer: a span's parent is the top of the stack when it opens.      *)
(* Spans are numbered in the order they open; no parent is 0.              *)

Top(t) == IF t.stack = <<>> THEN 0 ELSE Last(t.stack).id

Opened(t, kind) ==
  [t EXCEPT !.stack = Append(@, [kind |-> kind, parent |-> Top(t),
                                 id |-> Len(t.stack) + Len(t.spans) + 1])]

Closed(t) ==
  [t EXCEPT !.stack = Front(@), !.spans = Append(@, Last(t.stack))]

\* Leaving the with statements of run, however it is left.
Unwound(t) == Closed(Closed(t))

Counted(t, metric) == [t EXCEPT ![metric] = @ + 1]

-----------------------------------------------------------------------------
(* resolve_decision.                                                       *)

Plain == [writes |-> FALSE, risk |-> "low"]

\* What the loop knows of a tool when it decides: nothing, of an unknown one.
Found(n) == IF n \in DOMAIN tools THEN tools[n] ELSE Plain

ModeDefault(t) ==
  IF setup.mode = "acceptEdits"
  THEN IF t.risk = "destructive" THEN "ask" ELSE "allow"
  ELSE IF t.writes \/ t.risk \in {"high", "destructive"} THEN "ask" ELSE "allow"

PlanForbids(t) == setup.mode = "plan" /\ (t.writes \/ t.risk = "destructive")

\* Faulty variant: an allow rule is consulted before plan mode is.
DecisionAllowFirst(n, t) ==
  CASE n \in setup.deny -> "deny"
    [] n \in setup.allow \ setup.deny -> "allow"
    [] n \notin setup.deny \cup setup.allow -> ModeDefault(t)

Decision(n, t) ==
  CASE n \in setup.deny -> "deny"
    [] n \notin setup.deny /\ setup.mode = "bypass" -> "allow"
    [] n \notin setup.deny /\ PlanForbids(t) -> "deny"
    [] OTHER -> IF n \in setup.ask THEN "ask"
                ELSE IF n \in setup.allow THEN "allow" ELSE ModeDefault(t)

-----------------------------------------------------------------------------
(* run: the start, the model's turn, the end.                              *)

System == [role |-> "system"]
User == [role |-> "user"]

Prepared(initial) ==
  (IF \E i \in DOMAIN initial : initial[i].role = "system" THEN <<>> ELSE <<System>>)
  \o initial

\* A caller starts afresh, or goes on from the transcript it was returned.
Start(initial) ==
  /\ loop.at = "idle" /\ Len(ends) < MaxRuns
  /\ loop' = [NoLoop EXCEPT !.at = "model",
                            !.transcript = Append(Prepared(initial), User)]
  /\ tracer' = Opened(Opened(tracer, "agent.run"), "agent.step")
  /\ UNCHANGED <<setup, tools, changes, result, ends, ran>>

\* The MockLLM numbers the calls of each reply afresh; the service gives ids of
\* its own, here with the place of the reply in the transcript.
Series == IF setup.provider = "mock" THEN 0 ELSE Len(loop.transcript) + 1

\* A scripted entry stops on its tool calls, or ends the turn when it has none;
\* the adapter for the service takes an unknown stop reason for "end_turn".
StopOf(reply) ==
  IF setup.provider = "mock"
  THEN IF reply.names # <<>> THEN "tool_use" ELSE "end_turn"
  ELSE IF reply.stop \in StopReason THEN reply.stop ELSE "end_turn"

Assistant(reply) ==
  [role |-> "assistant", stop |-> StopOf(reply),
   calls |-> [i \in DOMAIN reply.names |->
                [id |-> <<Series, i>>, name |-> reply.names[i]]]]

Finish(l, how) ==
  /\ loop' = NoLoop
  /\ result' = [transcript |-> l.transcript, steps |-> l.step,
                count |-> l.count, blocked |-> l.blocked]
  /\ ends' = Append(ends, how)
  /\ UNCHANGED <<setup, tools, changes, ran>>

\* The calls of a reply that ends the turn are neither run nor answered.
Reply(reply) ==
  LET msg == Assistant(reply)
      l == [loop EXCEPT !.transcript = Append(@, msg), !.step = @ + 1]
  IN /\ loop.at = "model"
     /\ IF msg.calls = <<>> \/ msg.stop = "end_turn"
        THEN Finish(l, "end_turn") /\ tracer' = Unwound(tracer)
        ELSE /\ loop' = [l EXCEPT !.at = "call", !.results = <<>>]
             /\ UNCHANGED <<setup, tools, changes, result, ends, tracer, ran>>

\* Only the model, the approver and the hooks raise: execute wraps what a tool
\* raises.  The caller's own list is left as it was, run works on a copy.
Raise ==
  /\ loop.at \in {"model", "approve", "pre", "post"}
  /\ loop' = NoLoop
  /\ ends' = Append(ends, "raised")
  /\ tracer' = Unwound(tracer)
  /\ UNCHANGED <<setup, tools, changes, result, ran>>

-----------------------------------------------------------------------------
(* _execute_call, for the first call that has no result yet.               *)

Pending == Last(loop.transcript).calls
Call == Pending[Len(loop.results) + 1]

Goto(place) == [loop EXCEPT !.at = place, !.hook = 1]

\* Faulty variant: a message for each result.
ToldOneByOne(transcript, results) ==
  transcript \o [i \in DOMAIN results |-> [role |-> "tool", results |-> <<results[i]>>]]

Told(transcript, results) ==
  Append(transcript, [role |-> "tool", results |-> results])

Counting(l, what) ==
  [l EXCEPT !.results = Append(@, [id |-> Call.id, what |-> what]),
            !.blocked = @ + (IF what \in {"refused", "blames"} THEN 1 ELSE 0),
            !.at = "call"]

Telling(l) == [l EXCEPT !.transcript = Told(@, l.results), !.at = "model"]

\* The call has its result: the next call, the next step, or the budget is
\* exhausted.
Answered(l, what, t) ==
  LET counted == Counting(l, what)
  IN IF Len(counted.results) < Len(Pending)
     THEN /\ loop' = counted /\ tracer' = t
          /\ UNCHANGED <<setup, tools, changes, result, ends, ran>>
     ELSE IF l.step < setup.maxSteps
     THEN /\ loop' = Telling(counted) /\ tracer' = Opened(Closed(t), "agent.step")
          /\ UNCHANGED <<setup, tools, changes, result, ends, ran>>
     ELSE Finish(Telling(counted), "max_steps") /\ tracer' = Unwound(t)

Decide ==
  LET seen == Found(Call.name)
      l == [loop EXCEPT !.count = @ + 1, !.seen = seen, !.hook = 1,
                        !.approved = FALSE]
      t == Counted(tracer, "calls")
      go(place) == /\ loop' = [l EXCEPT !.at = place] /\ tracer' = t
                   /\ UNCHANGED <<setup, tools, changes, result, ends, ran>>
  IN /\ loop.at = "call"
     /\ CASE Decision(Call.name, seen) = "deny" ->
               Answered(l, "refused", Counted(t, "denied"))
          [] Decision(Call.name, seen) = "ask" -> go("approve")
          [] Decision(Call.name, seen) = "allow" -> go("pre")

Approve ==
  /\ loop.at = "approve"
  /\ loop' = [Goto("pre") EXCEPT !.approved = TRUE]
  /\ UNCHANGED <<setup, tools, changes, result, ends, tracer, ran>>

Reject ==
  /\ loop.at = "approve"
  /\ Answered(loop, "refused", Counted(tracer, "rejected"))

(* The hooks of one event, in the order of their registration.             *)
HasHook == loop.hook <= Len(setup.hooks)

Concerned ==
  HasHook /\ setup.hooks[loop.hook].event = loop.at
          /\ Call.name \in setup.hooks[loop.hook].covers

\* Faulty variant: after the last hook comes the first again.
NextHookAround ==
  /\ loop.at \in {"pre", "post"}
  /\ HasHook
  /\ loop' = [loop EXCEPT !.hook = (@ % Len(setup.hooks)) + 1]
  /\ UNCHANGED <<setup, tools, changes, result, ends, tracer, ran>>

NextHook ==
  /\ loop.at \in {"pre", "post"}
  /\ HasHook
  /\ loop' = [loop EXCEPT !.hook = @ + 1]
  /\ UNCHANGED <<setup, tools, changes, result, ends, tracer, ran>>

\* Faulty variant: a call that a hook blocks is not counted.
BlockUncounted ==
  /\ loop.at = "pre" /\ Concerned
  /\ Answered(loop, "refused", tracer)

Block ==
  /\ loop.at = "pre" /\ Concerned
  /\ Answered(loop, "refused", Counted(tracer, "hookBlocked"))

HooksPassed ==
  /\ loop.at = "pre" /\ ~HasHook
  /\ loop' = Goto("tool")
  /\ tracer' = Opened(tracer, "tool")
  /\ UNCHANGED <<setup, tools, changes, result, ends, ran>>

\* ToolRegistry.execute looks the name up again: it fails for an unknown tool
\* and for arguments the tool does not take, else the tool's run has begun.
Execute(what) ==
  /\ loop.at = "tool"
  /\ Call.name \in DOMAIN tools \/ what = "failed"
  /\ loop' = [Goto("post") EXCEPT !.what = what]
  /\ tracer' = Closed(tracer)
  /\ ran' = IF Call.name \in DOMAIN tools
            THEN ran \cup {[name |-> Call.name, seen |-> loop.seen,
                            approved |-> loop.approved]}
            ELSE ran
  /\ UNCHANGED <<setup, tools, changes, result, ends>>

\* The last hook is reached, or one that says block: that is ignored after the
\* call.  An annotation may be what blames a block.
Observe(blames) ==
  /\ loop.at = "post"
  /\ ~HasHook \/ Concerned
  /\ blames => \E i \in DOMAIN setup.hooks :
                 setup.hooks[i].event = "post" /\ Call.name \in setup.hooks[i].covers
  /\ Answered(loop, IF blames /\ loop.what = "failed" THEN "blames" ELSE loop.what, tracer)

-----------------------------------------------------------------------------
(* The registry, from a hook, an approver or another thread.               *)
MayChange == changes < MaxChanges /\ loop.at \in {"idle", "approve", "pre"}

Register(n, t) ==
  /\ MayChange /\ n \notin DOMAIN tools
  /\ tools' = [x \in DOMAIN tools \cup {n} |-> IF x = n THEN t ELSE tools[x]]
  /\ changes' = changes + 1
  /\ UNCHANGED <<setup, loop, result, ends, tracer, ran>>

Unregister(n) ==
  /\ MayChange /\ n \in DOMAIN tools
  /\ tools' = [x \in DOMAIN tools \ {n} |-> tools[x]]
  /\ changes' = changes + 1
  /\ UNCHANGED <<setup, loop, result, ends, tracer, ran>>

-----------------------------------------------------------------------------
Step ==
  \/ \E reply \in Replies : Reply(reply)
  \/ Decide \/ Approve \/ Reject
  \/ NextHook \/ Block \/ HooksPassed
  \/ \E what \in Outcomes \cup {"failed"} : Execute(what)
  \/ \E blames \in BOOLEAN : Observe(blames)

Next ==
  \/ \E initial \in {<<>>, result.transcript} : Start(initial)
  \/ Step
  \/ Raise
  \/ \E n \in Name, t \in Tool : Register(n, t)
  \/ \E n \in Name : Unregister(n)

\* The loop never waits for ever: the model, the approver, the hooks and the
\* tools return.  That they raise is never assumed.
Spec == Init /\ [][Next]_vars /\ WF_vars(Step)

-----------------------------------------------------------------------------
(* What the service is sent: the results of the tools as a turn of the     *)
(* user; the system message, which is set apart, uses and answers nothing. *)
Ids(entries) == {entries[i].id : i \in DOMAIN entries}

Turn(msg) ==
  [role |-> IF msg.role = "tool" THEN "user" ELSE msg.role,
   uses |-> IF msg.role = "assistant" THEN Ids(msg.calls) ELSE {},
   answers |-> IF msg.role = "tool" THEN Ids(msg.results) ELSE {}]

Turns(transcript) == [i \in DOMAIN transcript |-> Turn(transcript[i])]

-----------------------------------------------------------------------------
(* Properties.                                                             *)

\* The conversation that the service is sent is one it takes: only the first
\* message is the system's; the results of tools come right after the turn that
\* used them, one for each use and no other; and a use is left without a result
\* only where a reply ended the turn (AgentLoop.run, _msg_to_anthropic).
TurnsPaired ==
  \A tr \in {loop.transcript, result.transcript} :
    LET turns == Turns(tr)
    IN /\ \A i \in DOMAIN tr : tr[i].role = "system" => i = 1
       /\ \A i \in DOMAIN turns :
            /\ turns[i].answers # {} => i > 1 /\ turns[i].answers = turns[i - 1].uses
            /\ i < Len(tr) /\ turns[i].uses # {} =>
                 turns[i + 1].answers = turns[i].uses \/ tr[i].stop = "end_turn"
       /\ setup.provider = "anthropic" =>
            \A i, j \in DOMAIN turns : i # j => turns[i].uses \cap turns[j].uses = {}

\* What lets a call through that was seen to write and to risk as much.
Vetted(name, seen, approved) ==
  LET risky == seen.writes \/ seen.risk \in {"high", "destructive"}
  IN /\ name \notin setup.deny
     /\ setup.mode = "plan" => ~seen.writes /\ seen.risk # "destructive"
     /\ setup.mode # "bypass" /\ name \in setup.ask => approved
     /\ setup.mode = "default" /\ risky /\ name \notin setup.allow => approved

\* A tool's run begins only for a call that was let through: no rule denies it,
\* plan mode saw it read-only, and the approver said yes to what an ask rule
\* names or default mode found risky (resolve_decision, _execute_call).  What
\* counts is what was seen when it was decided: the registry may have changed.
RunsVetted == \A c \in ran : Vetted(c.name, c.seen, c.approved)

\* Since its last user message, a transcript holds this many results of a kind.
LastTold(tr) ==
  {i \in DOMAIN tr : tr[i].role = "tool" /\ \A k \in DOMAIN tr : k > i => tr[k].role # "user"}
Of(results, kinds) == {j \in DOMAIN results : results[j].what \in kinds}
Results(tr, kinds) ==
  Cardinality(UNION {{i} \X Of(tr[i].results, kinds) : i \in LastTold(tr)})

SpansNest ==
  LET all == tracer.spans \o tracer.stack
      within(i, kind) ==
        \E j \in DOMAIN all : all[j].id = all[i].parent /\ all[j].kind = kind
  IN /\ (loop.at = "idle") = (tracer.stack = <<>>)
     /\ \A i, j \in DOMAIN all : i # j => all[i].id # all[j].id
     /\ \A i \in DOMAIN all :
          CASE all[i].kind = "agent.run" -> all[i].parent = 0
            [] all[i].kind = "agent.step" -> within(i, "agent.run")
            [] all[i].kind = "tool" -> within(i, "agent.step")

ToolSpans(spans) == Cardinality({i \in DOMAIN spans : spans[i].kind = "tool"})
Raised == Cardinality({i \in DOMAIN ends : ends[i] = "raised"})

\* What an operator sees agrees with what the loop did, whatever raises.  The spans
\* nest: none is open between runs, and a step's parent is a run, a call's a step.
\* Each call counted was denied, rejected, blocked or has its span, but for the one
\* under way and at most one for each run that raised; and the counts of a
\* LoopResult are those of its transcript (Tracer, tool.* metrics, LoopResult).
TracerConsistent ==
  LET spans == ToolSpans(tracer.spans) + ToolSpans(tracer.stack)
      missing == tracer.calls - tracer.denied - tracer.rejected - tracer.hookBlocked - spans
      underway == IF loop.at \in {"approve", "pre"} THEN 1 ELSE 0
  IN /\ SpansNest
     /\ missing \in underway..(underway + Raised)
     /\ result.transcript # <<>> =>
          /\ result.count = Results(result.transcript, {"ok", "failed", "blames", "refused"})
          /\ result.blocked = Results(result.transcript, {"blames", "refused"})

\* Every run ends: max_steps bounds the turns, and whatever the model, the
\* approver, the hooks and the tools answer, each turn comes to its end.
RunsEnd == loop.at # "idle" ~> loop.at = "idle"
=============================================================================
