-------------------------- MODULE AgentLoopProofs --------------------------
(* What holds of AgentLoop for every model, policy, hook and registry.      *)
EXTENDS AgentLoop, TLAPS, FiniteSetTheorems, SequenceTheorems

-----------------------------------------------------------------------------
(* Typing.                                                                  *)
Ident == Nat \X Nat
Use == [id : Ident, name : Name]
Answer == [id : Ident, what : {"refused", "ok", "failed", "blames"}]
SystemMessage == [role : {"system"}]
UserMessage == [role : {"user"}]
AssistantMessage == [role : {"assistant"}, stop : StopReason, calls : Seq(Use)]
ToolMessage == [role : {"tool"}, results : Seq(Answer)]
Message == SystemMessage \cup UserMessage \cup AssistantMessage \cup ToolMessage
Seen == [writes : BOOLEAN, risk : Risk]
Loop ==
  [at : Place, transcript : Seq(Message), step : Nat, count : Nat, blocked : Nat,
   results : Seq(Answer), hook : Nat, what : {"ok", "failed", "blames"},
   seen : Seen, approved : BOOLEAN]
Result == [transcript : Seq(Message), steps : Nat, count : Nat, blocked : Nat]

(* While a reply's calls are being executed the reply is the last message,  *)
(* and the first calls of it have their results.                            *)
Busy == {"call", "approve", "pre", "tool", "post"}
Executing(l) ==
  /\ l.transcript # <<>>
  /\ Last(l.transcript) \in AssistantMessage
  /\ Len(l.results) < Len(Last(l.transcript).calls)
  /\ \A j \in DOMAIN l.results : l.results[j].id = Last(l.transcript).calls[j].id
Asking(l) ==
  /\ l.transcript # <<>>
  /\ Last(l.transcript) \in UserMessage \cup ToolMessage

LoopOK(l) ==
  /\ l \in Loop
  /\ l.at \in Busy => Executing(l)
  /\ l.at = "model" => Asking(l)

(* A reply that a run ended on has no calls or ends the turn.               *)
EndedOn(msg) ==
  \/ msg \in ToolMessage
  \/ msg \in AssistantMessage /\ (msg.calls = <<>> \/ msg.stop = "end_turn")
ResultOK(r) ==
  /\ r \in Result
  /\ r.transcript # <<>> => EndedOn(Last(r.transcript))

AgentTypeOK ==
  /\ setup \in Setups
  /\ \A n \in DOMAIN tools : tools[n] \in Tool
  /\ LoopOK(loop)
  /\ ResultOK(result)

-----------------------------------------------------------------------------
(* Sequences.                                                               *)

LEMMA LastOfAppend ==
  ASSUME NEW S, NEW s \in Seq(S), NEW e \in S
  PROVE  /\ Append(s, e) \in Seq(S) /\ Append(s, e) # <<>>
         /\ Last(Append(s, e)) = e
BY DEF Last

LEMMA LastIsIn ==
  ASSUME NEW S, NEW s \in Seq(S), s # <<>>
  PROVE  Last(s) \in S /\ Last(s) = s[Len(s)] /\ Len(s) \in DOMAIN s
BY DEF Last

-----------------------------------------------------------------------------
(* The call under way is one of the last reply.                             *)
LEMMA CallIsUse ==
  ASSUME AgentTypeOK, loop.at \in Busy
  PROVE  Call \in Use
BY DEF AgentTypeOK, LoopOK, Executing, Call, Pending, AssistantMessage, Loop

(* A call's result is the next of its reply's results.                      *)
LEMMA CountingType ==
  ASSUME AgentTypeOK, NEW l \in Loop, l.at \in Busy, NEW what \in {"refused", "ok", "failed", "blames"},
         l.transcript = loop.transcript, l.results = loop.results, loop.at \in Busy
  PROVE  LET c == Counting(l, what)
         IN /\ c \in Loop /\ c.at = "call"
            /\ c.transcript = loop.transcript
            /\ c.results = Append(loop.results, [id |-> Call.id, what |-> what])
            /\ Len(c.results) = Len(loop.results) + 1
            /\ \A j \in DOMAIN c.results : c.results[j].id = Pending[j].id
<1> DEFINE a == [id |-> Call.id, what |-> what]
           c == Counting(l, what)
<1>1. a \in Answer
  BY CallIsUse DEF Answer, Use
<1>2. loop.results \in Seq(Answer)
  BY DEF AgentTypeOK, LoopOK, Loop
<1>3. /\ Append(loop.results, a) \in Seq(Answer)
      /\ Len(Append(loop.results, a)) = Len(loop.results) + 1
      /\ \A j \in DOMAIN Append(loop.results, a) :
            Append(loop.results, a)[j] =
              IF j = Len(loop.results) + 1 THEN a ELSE loop.results[j]
      /\ \A j \in DOMAIN Append(loop.results, a) :
            j # Len(loop.results) + 1 => j \in DOMAIN loop.results
  BY <1>1, <1>2
<1>4. /\ c \in Loop /\ c.at = "call" /\ c.transcript = loop.transcript
      /\ c.results = Append(loop.results, a)
  <2> DEFINE r == Append(l.results, a)
             n == l.blocked + (IF what \in {"refused", "blames"} THEN 1 ELSE 0)
  <2>1. n \in Nat
    BY DEF Loop
  <2>2. r \in Seq(Answer)
    BY <1>3
  <2>3. c = [l EXCEPT !.results = r, !.blocked = n, !.at = "call"]
    BY DEF Counting
  <2> HIDE DEF r, n, c
  <2>4. c \in Loop /\ c.at = "call" /\ c.transcript = l.transcript /\ c.results = r
    BY <2>1, <2>2, <2>3 DEF Loop, Place
  <2> QED
    BY <2>4 DEF r
<1>5. \A j \in DOMAIN loop.results : loop.results[j].id = Pending[j].id
  BY DEF AgentTypeOK, LoopOK, Executing, Pending
<1>6. \A j \in DOMAIN c.results : c.results[j].id = Pending[j].id
  BY <1>3, <1>4, <1>5 DEF Call
<1> QED
  BY <1>3, <1>4, <1>6
(* The results told are a message to the model.                             *)
LEMMA TellingType ==
  ASSUME NEW c \in Loop
  PROVE  LET m == [role |-> "tool", results |-> c.results]
             n == Telling(c)
         IN /\ n \in Loop /\ n.at = "model" /\ Asking(n)
            /\ m \in ToolMessage /\ n.transcript = Append(c.transcript, m)
<1> DEFINE m == [role |-> "tool", results |-> c.results]
           tr == Append(c.transcript, m)
           n == Telling(c)
<1>1. m \in ToolMessage
  BY DEF ToolMessage, Loop
<1>2. /\ tr \in Seq(Message) /\ tr # <<>> /\ Last(tr) = m
  <2>1. m \in Message /\ c.transcript \in Seq(Message)
    BY <1>1 DEF Message, Loop
  <2> QED
    BY <2>1, LastOfAppend
<1>3. n = [c EXCEPT !.transcript = tr, !.at = "model"]
  BY DEF Telling, Told
<1> HIDE DEF m, tr, n
<1>4. n \in Loop /\ n.at = "model" /\ n.transcript = tr
  BY <1>2, <1>3 DEF Loop, Place
<1>5. Asking(n)
  BY <1>1, <1>2, <1>4 DEF Asking
<1> QED
  BY <1>1, <1>4, <1>5 DEF n, tr, m

LEMMA NoLoopOK == LoopOK(NoLoop)
<1>1. <<>> \in Seq(Message) /\ <<>> \in Seq(Answer)
  OBVIOUS
<1> QED
  BY <1>1 DEF LoopOK, Loop, NoLoop, Place, Busy, Seen, Risk

LEMMA FinishType ==
  ASSUME NEW l \in Loop, EndedOn(Last(l.transcript)), NEW how, Finish(l, how)
  PROVE  /\ LoopOK(loop') /\ ResultOK(result')
         /\ result'.transcript = l.transcript /\ loop' = NoLoop
         /\ UNCHANGED <<setup, tools>>
<1>1. loop' = NoLoop /\ UNCHANGED <<setup, tools>>
  BY DEF Finish
<1>3. result' = [transcript |-> l.transcript, steps |-> l.step,
                 count |-> l.count, blocked |-> l.blocked]
  BY DEF Finish
<1>4. ResultOK(result') /\ result'.transcript = l.transcript
  BY <1>3 DEF ResultOK, Result, Loop
<1> QED
  BY <1>1, <1>4, NoLoopOK

(* A call's answer leads to the next call of the reply, to the model's next *)
(* turn or to the end of the run.                                           *)
LEMMA AnsweredType ==
  ASSUME AgentTypeOK, loop.at \in Busy, NEW l \in Loop, l.at \in Busy,
         l.transcript = loop.transcript, l.results = loop.results,
         NEW what \in {"refused", "ok", "failed", "blames"}, NEW t, Answered(l, what, t)
  PROVE  AgentTypeOK'
<1> DEFINE c == Counting(l, what)
           n == Telling(c)
<1>1. /\ c \in Loop /\ c.at = "call" /\ c.transcript = loop.transcript
      /\ Len(c.results) = Len(loop.results) + 1
      /\ \A j \in DOMAIN c.results : c.results[j].id = Pending[j].id
  BY CountingType
<1>2. /\ n \in Loop /\ n.at = "model" /\ Asking(n)
      /\ [role |-> "tool", results |-> c.results] \in ToolMessage
      /\ n.transcript = Append(c.transcript, [role |-> "tool", results |-> c.results])
  BY <1>1, TellingType
<1>3. Last(n.transcript) \in ToolMessage
  <2>1. [role |-> "tool", results |-> c.results] \in Message /\ c.transcript \in Seq(Message)
    BY <1>1, <1>2 DEF Message, Loop
  <2> QED
    BY <1>2, <2>1, LastOfAppend
<1> HIDE DEF c, n
<1>4. CASE loop' = c /\ Len(c.results) < Len(Pending) /\ UNCHANGED <<setup, tools, result>>
  <2>1. Executing(c)
    BY <1>1, <1>4 DEF Executing, AgentTypeOK, LoopOK, Pending
  <2> QED
    BY <1>1, <1>4, <2>1 DEF AgentTypeOK, LoopOK, Busy
<1>5. CASE loop' = n /\ UNCHANGED <<setup, tools, result>>
  BY <1>2, <1>5 DEF AgentTypeOK, LoopOK, Busy
<1>6. CASE Finish(n, "max_steps")
  BY <1>2, <1>3, <1>6, FinishType DEF AgentTypeOK, EndedOn
<1> QED
  BY <1>4, <1>5, <1>6 DEF Answered, c, n

LEMMA AgentTypeInit == Init => AgentTypeOK
<1> SUFFICES ASSUME Init PROVE AgentTypeOK
  OBVIOUS
<1>1. <<>> \in Seq(Message)
  OBVIOUS
<1>2. ResultOK(result)
  BY <1>1 DEF Init, ResultOK, Result
<1> QED
  BY <1>2, NoLoopOK, AgentAssumption DEF Init, AgentTypeOK

(* What a loop sees of a tool is well typed, and a decision is one of three.*)
LEMMA SeenType ==
  ASSUME AgentTypeOK, NEW n
  PROVE  Found(n) \in Seen
BY AgentAssumption DEF AgentTypeOK, Found, Plain, Seen, Risk

LEMMA DecisionIs ==
  ASSUME NEW n, NEW seen
  PROVE  /\ Decision(n, seen) \in {"deny", "ask", "allow"}
         /\ Decision(n, seen) = "deny" <=>
              \/ n \in setup.deny
              \/ setup.mode # "bypass" /\ PlanForbids(seen)
         /\ Decision(n, seen) = "allow" =>
              \/ setup.mode = "bypass"
              \/ /\ n \notin setup.ask
                 /\ n \in setup.allow \/ ModeDefault(seen) = "allow"
<1>1. ModeDefault(seen) \in {"ask", "allow"}
  BY DEF ModeDefault
<1>2. CASE n \in setup.deny
  BY <1>1, <1>2 DEF Decision
<1>3. CASE n \notin setup.deny /\ setup.mode = "bypass"
  BY <1>1, <1>3 DEF Decision, PlanForbids
<1>4. CASE n \notin setup.deny /\ setup.mode # "bypass" /\ PlanForbids(seen)
  BY <1>1, <1>4 DEF Decision
<1>5. CASE n \notin setup.deny /\ setup.mode # "bypass" /\ ~PlanForbids(seen)
  BY <1>1, <1>5 DEF Decision
<1> QED
  BY <1>2, <1>3, <1>4, <1>5
(* A run starts with what it is given, after the system's message.          *)
LEMMA PreparedType ==
  ASSUME NEW tr \in Seq(Message)
  PROVE  /\ Prepared(tr) \in Seq(Message)
         /\ Prepared(tr) = tr \/ Prepared(tr) = <<System>> \o tr
<1>1. System \in Message /\ <<System>> \in Seq(Message)
  BY DEF System, Message, SystemMessage
<1>2. <<>> \o tr = tr
  OBVIOUS
<1> QED
  BY <1>1, <1>2 DEF Prepared

LEMMA StartType ==
  ASSUME AgentTypeOK, NEW initial \in {<<>>, result.transcript}, Start(initial)
  PROVE  AgentTypeOK' /\ UNCHANGED <<setup, tools, result>>
<1> DEFINE tr == Append(Prepared(initial), User)
           l == [NoLoop EXCEPT !.at = "model", !.transcript = tr]
<1>1. initial \in Seq(Message)
  <2>1. <<>> \in Seq(Message)
    OBVIOUS
  <2> QED
    BY <2>1 DEF AgentTypeOK, ResultOK, Result
<1>2. tr \in Seq(Message) /\ tr # <<>> /\ Last(tr) = User
  <2>1. User \in Message
    BY DEF User, Message, UserMessage
  <2> QED
    BY <1>1, <2>1, PreparedType, LastOfAppend
<1>3. loop' = l /\ UNCHANGED <<setup, tools, result>>
  BY DEF Start
<1> HIDE DEF tr
<1>4. NoLoop \in Loop
  BY NoLoopOK DEF LoopOK
<1>5. l \in Loop /\ l.at = "model" /\ l.transcript = tr
  BY <1>2, <1>4 DEF Loop, Place
<1> HIDE DEF l
<1>6. Asking(l)
  BY <1>2, <1>5 DEF Asking, User, UserMessage
<1> QED
  BY <1>3, <1>5, <1>6 DEF AgentTypeOK, LoopOK, Busy

(* A reply is a message of the assistant, whose stop reason is known.       *)
LEMMA AssistantType ==
  ASSUME AgentTypeOK, NEW reply \in Replies
  PROVE  /\ Assistant(reply) \in AssistantMessage
         /\ Len(Assistant(reply).calls) = Len(reply.names)
         /\ \A j \in DOMAIN Assistant(reply).calls :
              Assistant(reply).calls[j].id = <<Series, j>>
<1>1. Series \in Nat
  BY DEF Series, AgentTypeOK, LoopOK, Loop
<1>2. reply.names \in Seq(Name)
  BY AgentAssumption
<1> DEFINE calls == [j \in DOMAIN reply.names |-> [id |-> <<Series, j>>, name |-> reply.names[j]]]
<1>3. calls \in Seq(Use) /\ Len(calls) = Len(reply.names)
  <2>1. \A j \in 1..Len(reply.names) : [id |-> <<Series, j>>, name |-> reply.names[j]] \in Use
    BY <1>1, <1>2 DEF Use, Ident
  <2> QED
    BY <1>2, <2>1
<1>4. StopOf(reply) \in StopReason
  BY DEF StopOf, StopReason
<1> QED
  BY <1>2, <1>3, <1>4 DEF Assistant, AssistantMessage

(* A reply joins the transcript, and ends the run or has its calls run.     *)
LEMMA ReplyGoes ==
  ASSUME AgentTypeOK, NEW reply \in Replies, Reply(reply)
  PROVE  LET msg == Assistant(reply)
             tr == Append(loop.transcript, msg)
         IN /\ Asking(loop) /\ msg \in AssistantMessage /\ msg \in Message
            /\ UNCHANGED <<setup, tools, ran>>
            /\ \/ /\ EndedOn(msg) /\ loop' = NoLoop
                  /\ result' \in Result /\ result'.transcript = tr
               \/ /\ msg.calls # <<>> /\ result' = result
                  /\ loop' \in Loop /\ loop'.at = "call"
                  /\ loop'.transcript = tr /\ loop'.results = <<>>
<1> DEFINE msg == Assistant(reply)
           tr == Append(loop.transcript, msg)
           l == [loop EXCEPT !.transcript = tr, !.step = @ + 1]
           b == [l EXCEPT !.at = "call", !.results = <<>>]
<1>1. msg \in AssistantMessage /\ msg \in Message /\ Asking(loop)
  BY AssistantType DEF Message, Reply, AgentTypeOK, LoopOK
<1>2. tr \in Seq(Message) /\ tr # <<>> /\ Last(tr) = msg
  <2>1. loop.transcript \in Seq(Message)
    BY DEF AgentTypeOK, LoopOK, Loop
  <2> QED
    BY <1>1, <2>1, LastOfAppend
<1>3. \/ (msg.calls = <<>> \/ msg.stop = "end_turn") /\ Finish(l, "end_turn")
      \/ /\ msg.calls # <<>>
         /\ loop' = b /\ UNCHANGED <<setup, tools, result, ran>>
  BY DEF Reply
<1> HIDE DEF msg, tr
<1>4. l \in Loop /\ l.transcript = tr
  <2> DEFINE n == loop.step + 1
  <2>1. n \in Nat
    BY DEF AgentTypeOK, LoopOK, Loop
  <2>2. l = [loop EXCEPT !.transcript = tr, !.step = n]
    OBVIOUS
  <2> HIDE DEF n, l
  <2> QED
    BY <1>2, <2>1, <2>2 DEF AgentTypeOK, LoopOK, Loop
<1>5. CASE (msg.calls = <<>> \/ msg.stop = "end_turn") /\ Finish(l, "end_turn")
  <2> HIDE DEF l
  <2>1. EndedOn(msg) /\ EndedOn(Last(l.transcript))
    BY <1>1, <1>2, <1>4, <1>5 DEF EndedOn
  <2>2. /\ result' \in Result /\ result'.transcript = tr /\ loop' = NoLoop
        /\ UNCHANGED <<setup, tools, ran>>
    BY <1>4, <1>5, <2>1, FinishType DEF Finish, ResultOK
  <2> QED
    BY <1>1, <2>1, <2>2 DEF msg, tr
<1>6. CASE msg.calls # <<>> /\ loop' = b /\ UNCHANGED <<setup, tools, result, ran>>
  <2>1. b \in Loop /\ b.at = "call" /\ b.transcript = tr /\ b.results = <<>>
    <3>1. <<>> \in Seq(Answer)
      OBVIOUS
    <3> HIDE DEF l
    <3> QED
      BY <1>4, <3>1 DEF Loop, Place
  <2> HIDE DEF b
  <2> QED
    BY <1>1, <1>6, <2>1 DEF msg, tr
<1> QED
  BY <1>3, <1>5, <1>6

LEMMA ReplyType ==
  ASSUME AgentTypeOK, NEW reply \in Replies, Reply(reply)
  PROVE  AgentTypeOK'
<1> DEFINE msg == Assistant(reply)
           tr == Append(loop.transcript, msg)
<1>1. /\ msg \in AssistantMessage /\ msg \in Message
      /\ UNCHANGED <<setup, tools>>
      /\ \/ /\ EndedOn(msg) /\ loop' = NoLoop
            /\ result' \in Result /\ result'.transcript = tr
         \/ /\ msg.calls # <<>> /\ result' = result
            /\ loop' \in Loop /\ loop'.at = "call"
            /\ loop'.transcript = tr /\ loop'.results = <<>>
  BY ReplyGoes
<1>2. tr \in Seq(Message) /\ tr # <<>> /\ Last(tr) = msg
  <2>1. loop.transcript \in Seq(Message)
    BY DEF AgentTypeOK, LoopOK, Loop
  <2> QED
    BY <1>1, <2>1, LastOfAppend
<1> HIDE DEF msg, tr
<1>3. CASE EndedOn(msg) /\ loop' = NoLoop /\ result' \in Result /\ result'.transcript = tr
  BY <1>1, <1>2, <1>3, NoLoopOK DEF AgentTypeOK, ResultOK
<1>4. CASE /\ msg.calls # <<>> /\ result' = result
           /\ loop' \in Loop /\ loop'.at = "call"
           /\ loop'.transcript = tr /\ loop'.results = <<>>
  <2>1. Len(msg.calls) > 0
    BY <1>1, <1>4 DEF AssistantMessage
  <2>2. Executing(loop')
    BY <1>1, <1>2, <1>4, <2>1 DEF Executing
  <2> QED
    BY <1>1, <1>4, <2>2 DEF AgentTypeOK, LoopOK, Busy
<1> QED
  BY <1>1, <1>3, <1>4

(* A step inside a reply that moves on without an answer.                   *)
LEMMA GoingOnType ==
  ASSUME AgentTypeOK, loop.at \in Busy, NEW l \in Loop, l.at \in Busy,
         l.transcript = loop.transcript, l.results = loop.results,
         loop' = l, UNCHANGED <<setup, tools, result>>
  PROVE  AgentTypeOK'
BY DEF AgentTypeOK, LoopOK, Executing, Busy

(* The loop once it has looked a call up.                                   *)
Looked == [loop EXCEPT !.count = @ + 1, !.seen = Found(Call.name), !.hook = 1,
                       !.approved = FALSE]

LEMMA LookedType ==
  ASSUME AgentTypeOK, loop.at = "call"
  PROVE  /\ Looked \in Loop /\ Looked.at = "call"
         /\ Looked.transcript = loop.transcript /\ Looked.results = loop.results
         /\ Looked.seen = Found(Call.name) /\ Looked.approved = FALSE
<1> DEFINE seen == Found(Call.name)
           n == loop.count + 1
<1>1. seen \in Seen
  BY SeenType
<1>2. n \in Nat
  BY DEF AgentTypeOK, LoopOK, Loop
<1>3. Looked = [loop EXCEPT !.count = n, !.seen = seen, !.hook = 1, !.approved = FALSE]
  BY DEF Looked
<1> HIDE DEF seen, n
<1>4. /\ Looked \in Loop /\ Looked.at = "call"
      /\ Looked.transcript = loop.transcript /\ Looked.results = loop.results
      /\ Looked.seen = seen /\ Looked.approved = FALSE
  BY <1>1, <1>2, <1>3 DEF AgentTypeOK, LoopOK, Loop
<1> QED
  BY <1>4 DEF seen

LEMMA DecideType ==
  ASSUME AgentTypeOK, Decide
  PROVE  AgentTypeOK'
<1>1. loop.at = "call" /\ loop.at \in Busy
  BY DEF Decide, Busy
<1>2. \/ Answered(Looked, "refused", Counted(Counted(tracer, "calls"), "denied"))
      \/ \E place \in {"approve", "pre"} :
           loop' = [Looked EXCEPT !.at = place] /\ UNCHANGED <<setup, tools, result>>
  BY <1>1, DecisionIs DEF Decide, Looked
<1>3. CASE Answered(Looked, "refused", Counted(Counted(tracer, "calls"), "denied"))
  BY <1>1, <1>3, LookedType, AnsweredType
<1>4. ASSUME NEW place \in {"approve", "pre"}, loop' = [Looked EXCEPT !.at = place],
             UNCHANGED <<setup, tools, result>>
      PROVE  AgentTypeOK'
  <2>1. /\ loop' \in Loop /\ loop'.at = place
        /\ loop'.transcript = loop.transcript /\ loop'.results = loop.results
    BY <1>1, <1>4, LookedType DEF Loop, Place
  <2> QED
    BY <1>1, <1>4, <2>1, GoingOnType DEF Busy
<1> QED
  BY <1>2, <1>3, <1>4

LEMMA AgentTypeStep == AgentTypeOK /\ [Next]_vars => AgentTypeOK'
<1> SUFFICES ASSUME AgentTypeOK, [Next]_vars PROVE AgentTypeOK'
  OBVIOUS
<1>0. loop \in Loop
  BY DEF AgentTypeOK, LoopOK
<1>1. CASE UNCHANGED vars
  BY <1>1 DEF AgentTypeOK, vars
<1>2. ASSUME NEW initial \in {<<>>, result.transcript}, Start(initial) PROVE AgentTypeOK'
  BY <1>2, StartType
<1>3. ASSUME NEW reply \in Replies, Reply(reply) PROVE AgentTypeOK'
  BY <1>3, ReplyType
<1>4. CASE Raise
  BY <1>4, NoLoopOK DEF Raise, AgentTypeOK
<1>5. CASE Decide
  BY <1>5, DecideType
<1>6. CASE Approve
  <2>1. loop' \in Loop /\ loop'.at = "pre" /\ loop'.transcript = loop.transcript
        /\ loop'.results = loop.results
    BY <1>0, <1>6 DEF Approve, Goto, Loop, Place
  <2> QED
    BY <1>6, <2>1, GoingOnType DEF Approve, Busy
<1>7. CASE Reject
  BY <1>0, <1>7, AnsweredType DEF Reject, Busy
<1>8. CASE NextHook
  <2>1. loop' \in Loop /\ loop'.at = loop.at /\ loop'.transcript = loop.transcript
        /\ loop'.results = loop.results
    <3> DEFINE n == loop.hook + 1
    <3>1. n \in Nat /\ loop' = [loop EXCEPT !.hook = n]
      BY <1>0, <1>8 DEF NextHook, Loop
    <3> HIDE DEF n
    <3> QED
      BY <1>0, <3>1 DEF Loop
  <2> QED
    BY <1>8, <2>1, GoingOnType DEF NextHook, Busy
<1>9. CASE Block
  BY <1>0, <1>9, AnsweredType DEF Block, Busy
<1>10. CASE HooksPassed
  <2>1. loop' \in Loop /\ loop'.at = "tool" /\ loop'.transcript = loop.transcript
        /\ loop'.results = loop.results
    BY <1>0, <1>10 DEF HooksPassed, Goto, Loop, Place
  <2> QED
    BY <1>10, <2>1, GoingOnType DEF HooksPassed, Busy
<1>11. ASSUME NEW what \in Outcomes \cup {"failed"}, Execute(what) PROVE AgentTypeOK'
  <2>1. loop' \in Loop /\ loop'.at = "post" /\ loop'.transcript = loop.transcript
        /\ loop'.results = loop.results
    BY <1>0, <1>11, AgentAssumption DEF Execute, Goto, Loop, Place
  <2> QED
    BY <1>11, <2>1, GoingOnType DEF Execute, Busy
<1>12. ASSUME NEW blames \in BOOLEAN, Observe(blames) PROVE AgentTypeOK'
  <2>1. (IF blames /\ loop.what = "failed" THEN "blames" ELSE loop.what)
           \in {"refused", "ok", "failed", "blames"}
    BY <1>0 DEF Loop
  <2> QED
    BY <1>0, <1>12, <2>1, AnsweredType DEF Observe, Busy
<1>13. ASSUME NEW n \in Name, NEW t \in Tool, Register(n, t) PROVE AgentTypeOK'
  BY <1>13 DEF Register, AgentTypeOK
<1>14. ASSUME NEW n \in Name, Unregister(n) PROVE AgentTypeOK'
  BY <1>14 DEF Unregister, AgentTypeOK
<1> QED
  BY <1>1, <1>2, <1>3, <1>4, <1>5, <1>6, <1>7, <1>8, <1>9, <1>10, <1>11, <1>12,
     <1>13, <1>14 DEF Next, Step

(* The loop's locals keep their types and their places: while calls are     *)
(* being executed the reply that made them is the last message, and the     *)
(* results got so far are those of its first calls, in their order.         *)
THEOREM AgentTypeCorrect == Spec => []AgentTypeOK
BY AgentTypeInit, AgentTypeStep, PTL DEF Spec
-----------------------------------------------------------------------------
(* Vetting.                                                                 *)

(* What a decision rests on is kept until the tool's run begins: a call     *)
(* that waits for the approver was decided "ask", and one that is past him  *)
(* was let through as it was seen, whatever the registry is by now.         *)
VetOK ==
  /\ RunsVetted
  /\ loop.at = "approve" => Decision(Call.name, loop.seen) = "ask"
  /\ loop.at \in {"pre", "tool"} => Vetted(Call.name, loop.seen, loop.approved)

(* A call that is allowed is vetted, and one to ask about once approved.    *)
LEMMA DecisionVets ==
  ASSUME NEW n, NEW seen
  PROVE  /\ Decision(n, seen) = "allow" => Vetted(n, seen, FALSE)
         /\ Decision(n, seen) = "ask" => Vetted(n, seen, TRUE)
<1>1. Decision(n, seen) # "deny" =>
        n \notin setup.deny /\ (setup.mode # "bypass" => ~PlanForbids(seen))
  BY DecisionIs
<1>2. CASE Decision(n, seen) = "allow" /\ setup.mode = "bypass"
  BY <1>1, <1>2 DEF Vetted
<1>3. CASE Decision(n, seen) = "allow" /\ setup.mode # "bypass"
  <2>1. n \notin setup.ask /\ (n \in setup.allow \/ ModeDefault(seen) = "allow")
    BY <1>3, DecisionIs
  <2>2. setup.mode = "plan" => ~seen.writes /\ seen.risk # "destructive"
    BY <1>1, <1>3 DEF PlanForbids
  <2>3. ASSUME setup.mode = "default", n \notin setup.allow
        PROVE  ~(seen.writes \/ seen.risk \in {"high", "destructive"})
    BY <2>1, <2>3 DEF ModeDefault
  <2> QED
    BY <1>1, <1>3, <2>1, <2>2, <2>3 DEF Vetted
<1>4. CASE Decision(n, seen) = "ask"
  <2>1. setup.mode = "plan" => ~seen.writes /\ seen.risk # "destructive"
    BY <1>1, <1>4 DEF PlanForbids
  <2> QED
    BY <1>1, <1>4, <2>1 DEF Vetted
<1> QED
  BY <1>2, <1>3, <1>4

LEMMA AnsweredVets ==
  ASSUME VetOK, AgentTypeOK, NEW l \in Loop, NEW what, NEW t, Answered(l, what, t)
  PROVE  VetOK'
<1>1. loop'.at \in {"call", "model", "idle"}
  <2>1. Counting(l, what).at = "call" /\ Telling(Counting(l, what)).at = "model"
        /\ NoLoop.at = "idle"
    BY DEF Counting, Telling, Loop, NoLoop
  <2> QED
    BY <2>1 DEF Answered, Finish
<1>2. UNCHANGED <<setup, ran>>
  BY DEF Answered, Finish
<1> QED
  BY <1>1, <1>2 DEF VetOK, RunsVetted, Vetted

LEMMA VetStep ==
  ASSUME AgentTypeOK, AgentTypeOK', VetOK, [Next]_vars
  PROVE  VetOK'
<1>0. loop \in Loop /\ loop' \in Loop
  BY DEF AgentTypeOK, LoopOK
<1>1. ASSUME UNCHANGED <<setup, ran>>, loop'.at \in {"idle", "model", "call"}
      PROVE  VetOK'
  BY <1>1 DEF VetOK, RunsVetted, Vetted
<1>2. ASSUME UNCHANGED <<setup, ran>>, loop'.transcript = loop.transcript,
             loop'.results = loop.results, loop'.seen = loop.seen,
             loop'.approved = loop.approved,
             loop'.at = loop.at \/ (loop.at = "pre" /\ loop'.at = "tool")
      PROVE  VetOK'
  <2>1. Call' = Call
    BY <1>2 DEF Call, Pending
  <2>2. RunsVetted'
    BY <1>2 DEF VetOK, RunsVetted, Vetted
  <2>3. \A n, seen : Decision(n, seen)' = Decision(n, seen)
    BY <1>2 DEF Decision, PlanForbids, ModeDefault
  <2> QED
    BY <1>2, <2>1, <2>2, <2>3 DEF VetOK, Vetted
<1>3. CASE UNCHANGED vars
  BY <1>2, <1>3 DEF vars
<1>4. ASSUME NEW initial \in {<<>>, result.transcript}, Start(initial) PROVE VetOK'
  <2>1. loop'.at = "model"
    BY <1>4 DEF Start, NoLoop
  <2> QED
    BY <1>1, <1>4, <2>1 DEF Start
<1>5. ASSUME NEW reply \in Replies, Reply(reply) PROVE VetOK'
  <2>1. loop'.at \in {"idle", "call"}
    BY <1>5, ReplyGoes DEF NoLoop
  <2> QED
    BY <1>1, <1>5, <2>1, ReplyGoes
<1>6. CASE Raise
  <2>1. loop'.at = "idle"
    BY <1>6 DEF Raise, NoLoop
  <2> QED
    BY <1>1, <1>6, <2>1 DEF Raise
<1>7. CASE Decide
  <2>1. loop.at = "call"
    BY <1>7 DEF Decide
  <2>2. Looked \in Loop
    BY <2>1, LookedType
  <2>3. CASE Decision(Call.name, Found(Call.name)) = "deny"
    <3>1. Answered(Looked, "refused", Counted(Counted(tracer, "calls"), "denied"))
      BY <1>7, <2>3 DEF Decide, Looked
    <3> QED
      BY <2>2, <3>1, AnsweredVets
  <2>4. ASSUME NEW place \in {"approve", "pre"},
               Decision(Call.name, Found(Call.name)) = IF place = "pre" THEN "allow" ELSE "ask"
        PROVE  VetOK'
    <3>1. loop' = [Looked EXCEPT !.at = place] /\ UNCHANGED <<setup, ran>>
      BY <1>7, <2>4 DEF Decide, Looked
    <3>2. /\ loop'.at = place /\ loop'.transcript = loop.transcript
          /\ loop'.results = loop.results /\ loop'.seen = Found(Call.name)
          /\ loop'.approved = FALSE
      BY <2>1, <3>1, LookedType DEF Loop
    <3>3. Call' = Call
      BY <3>2 DEF Call, Pending
    <3>4. \A n, seen : Decision(n, seen)' = Decision(n, seen)
      BY <3>1 DEF Decision, PlanForbids, ModeDefault
    <3>5. RunsVetted'
      BY <3>1 DEF VetOK, RunsVetted, Vetted
    <3>6. place = "approve" => Decision(Call.name, loop.seen)' = "ask"
      BY <2>4, <3>2, <3>3, <3>4
    <3>7. place = "pre" => Vetted(Call.name, loop.seen, loop.approved)'
      <4>1. place = "pre" => Vetted(Call.name, Found(Call.name), FALSE)
        BY <2>4, DecisionVets
      <4> QED
        BY <3>1, <3>2, <3>3, <4>1 DEF Vetted
    <3> QED
      BY <3>2, <3>5, <3>6, <3>7 DEF VetOK
  <2> QED
    BY <2>3, <2>4, DecisionIs
<1>8. CASE Approve
  <2>1. /\ loop.at = "approve" /\ loop'.at = "pre" /\ loop'.transcript = loop.transcript
        /\ loop'.results = loop.results /\ loop'.seen = loop.seen /\ loop'.approved = TRUE
        /\ UNCHANGED <<setup, ran>>
    BY <1>0, <1>8 DEF Approve, Goto, Loop
  <2>2. Call' = Call
    BY <2>1 DEF Call, Pending
  <2>3. Vetted(Call.name, loop.seen, TRUE)
    BY <2>1, DecisionVets DEF VetOK
  <2> QED
    BY <2>1, <2>2, <2>3 DEF VetOK, RunsVetted, Vetted
<1>9. CASE Reject
  BY <1>0, <1>9, AnsweredVets DEF Reject
<1>10. CASE NextHook
  BY <1>0, <1>2, <1>10 DEF NextHook, Loop
<1>11. CASE Block
  BY <1>0, <1>11, AnsweredVets DEF Block
<1>12. CASE HooksPassed
  BY <1>0, <1>2, <1>12 DEF HooksPassed, Goto, Loop
<1>13. ASSUME NEW what \in Outcomes \cup {"failed"}, Execute(what) PROVE VetOK'
  <2>1. loop'.at = "post" /\ UNCHANGED setup
    BY <1>0, <1>13 DEF Execute, Goto, Loop
  <2>2. Vetted(Call.name, loop.seen, loop.approved)
    BY <1>13 DEF Execute, VetOK
  <2>3. \A c \in ran' : Vetted(c.name, c.seen, c.approved)
    BY <1>13, <2>2 DEF Execute, VetOK, RunsVetted
  <2> QED
    BY <2>1, <2>3 DEF VetOK, RunsVetted, Vetted
<1>14. ASSUME NEW blames \in BOOLEAN, Observe(blames) PROVE VetOK'
  BY <1>0, <1>14, AnsweredVets DEF Observe
<1>15. ASSUME NEW n \in Name, NEW t \in Tool, Register(n, t) PROVE VetOK'
  BY <1>2, <1>15 DEF Register
<1>16. ASSUME NEW n \in Name, Unregister(n) PROVE VetOK'
  BY <1>2, <1>16 DEF Unregister
<1> QED
  BY <1>3, <1>4, <1>5, <1>6, <1>7, <1>8, <1>9, <1>10, <1>11, <1>12, <1>13, <1>14,
     <1>15, <1>16 DEF Next, Step

(* For every policy, mode and set of tools, whatever the approver and the   *)
(* hooks say and however the registry changes meanwhile, a tool's run       *)
(* begins only for a call that was let through as it was seen.              *)
THEOREM ToolRunsAreVetted == Spec => []RunsVetted
<1>1. Init => VetOK
  BY DEF Init, VetOK, RunsVetted, NoLoop
<1>2. AgentTypeOK /\ AgentTypeOK' /\ VetOK /\ [Next]_vars => VetOK'
  BY VetStep
<1>3. VetOK => RunsVetted
  BY DEF VetOK
<1> QED
  BY <1>1, <1>2, <1>3, AgentTypeCorrect, PTL DEF Spec
-----------------------------------------------------------------------------
(* The conversation.                                                        *)

(* A transcript begins with the system's message; a message of results      *)
(* follows the reply whose calls it answers; a reply that is not the last   *)
(* is answered or ended its turn; and calls have the ids of their provider. *)
SystemFirst(tr) ==
  /\ tr # <<>> => tr[1] \in SystemMessage
  /\ \A i \in DOMAIN tr : tr[i] \in SystemMessage => i = 1
AnswersFollow(tr) ==
  \A i \in DOMAIN tr : tr[i] \in ToolMessage =>
    /\ i > 1 /\ tr[i - 1] \in AssistantMessage
    /\ Ids(tr[i].results) = Ids(tr[i - 1].calls)
CallsAnswered(tr) ==
  \A i \in DOMAIN tr :
    i < Len(tr) /\ tr[i] \in AssistantMessage =>
      tr[i + 1] \in ToolMessage \/ tr[i].calls = <<>> \/ tr[i].stop = "end_turn"
IdsOfSeries(tr) ==
  setup.provider # "mock" =>
    \A i \in DOMAIN tr : tr[i] \in AssistantMessage =>
      \A j \in DOMAIN tr[i].calls : tr[i].calls[j].id = <<i, j>>
Conversation(tr) ==
  SystemFirst(tr) /\ AnswersFollow(tr) /\ CallsAnswered(tr) /\ IdsOfSeries(tr)

TurnsOK == Conversation(loop.transcript) /\ Conversation(result.transcript)

(* What may come next in a conversation.                                    *)
LEMMA ConversationGrows ==
  ASSUME NEW tr \in Seq(Message), Conversation(tr), NEW m \in Message,
         m \in SystemMessage <=> tr = <<>>,
         m \in ToolMessage =>
           /\ tr # <<>> /\ Last(tr) \in AssistantMessage
           /\ Ids(m.results) = Ids(Last(tr).calls),
         tr # <<>> /\ Last(tr) \in AssistantMessage =>
           \/ m \in ToolMessage \/ Last(tr).calls = <<>> \/ Last(tr).stop = "end_turn",
         m \in AssistantMessage /\ setup.provider # "mock" =>
           \A j \in DOMAIN m.calls : m.calls[j].id = <<Len(tr) + 1, j>>
  PROVE  Conversation(Append(tr, m))
<1> DEFINE new == Append(tr, m)
<1>1. /\ Len(tr) \in Nat /\ DOMAIN tr = 1..Len(tr)
      /\ Len(new) = Len(tr) + 1 /\ DOMAIN new = 1..Len(tr) + 1
      /\ new[Len(tr) + 1] = m
      /\ \A i \in 1..Len(tr) : new[i] = tr[i]
  OBVIOUS
<1>2. tr # <<>> <=> Len(tr) > 0
  BY <1>1
<1>3. Last(tr) = tr[Len(tr)]
  BY DEF Last
<1> HIDE DEF new
<1>4. SystemFirst(new)
  BY <1>1, <1>2 DEF Conversation, SystemFirst
<1>5. AnswersFollow(new)
  <2> SUFFICES ASSUME NEW i \in DOMAIN new, new[i] \in ToolMessage
               PROVE  /\ i > 1 /\ new[i - 1] \in AssistantMessage
                      /\ Ids(new[i].results) = Ids(new[i - 1].calls)
    BY DEF AnswersFollow
  <2>1. CASE i = Len(tr) + 1
    BY <1>1, <1>2, <1>3, <2>1
  <2>2. CASE i # Len(tr) + 1
    <3>1. i \in DOMAIN tr /\ tr[i] \in ToolMessage /\ new[i] = tr[i]
      BY <1>1, <2>2
    <3>2. i > 1 /\ tr[i - 1] \in AssistantMessage /\ Ids(tr[i].results) = Ids(tr[i - 1].calls)
      BY <3>1 DEF Conversation, AnswersFollow
    <3>3. new[i - 1] = tr[i - 1]
      BY <1>1, <3>1, <3>2
    <3> QED
      BY <3>1, <3>2, <3>3
  <2> QED
    BY <2>1, <2>2
<1>6. CallsAnswered(new)
  <2> SUFFICES ASSUME NEW i \in DOMAIN new, i < Len(new), new[i] \in AssistantMessage
               PROVE  \/ new[i + 1] \in ToolMessage
                      \/ new[i].calls = <<>> \/ new[i].stop = "end_turn"
    BY DEF CallsAnswered
  <2>1. i \in DOMAIN tr /\ new[i] = tr[i]
    BY <1>1
  <2>2. CASE i = Len(tr)
    BY <1>1, <1>2, <1>3, <2>1, <2>2
  <2>3. CASE i < Len(tr)
    <3>1. new[i + 1] = tr[i + 1]
      BY <1>1, <2>1, <2>3
    <3> QED
      BY <2>1, <2>3, <3>1 DEF Conversation, CallsAnswered
  <2> QED
    BY <1>1, <2>1, <2>2, <2>3
<1>7. IdsOfSeries(new)
  BY <1>1 DEF Conversation, IdsOfSeries
<1> QED
  BY <1>4, <1>5, <1>6, <1>7 DEF Conversation, new

(* The four kinds of message are told apart by their role.                  *)
LEMMA Kinds ==
  ASSUME NEW m \in Message
  PROVE  /\ m.role = "system" <=> m \in SystemMessage
         /\ m.role = "user" <=> m \in UserMessage
         /\ m.role = "assistant" <=> m \in AssistantMessage
         /\ m.role = "tool" <=> m \in ToolMessage
BY DEF Message, SystemMessage, UserMessage, AssistantMessage, ToolMessage

(* A run starts from a conversation and makes the task its next message.    *)
LEMMA StartConverses ==
  ASSUME AgentTypeOK, TurnsOK, NEW initial \in {<<>>, result.transcript}, Start(initial)
  PROVE  Conversation(loop'.transcript)
<1>1. System \in SystemMessage /\ System \in Message
  BY DEF System, SystemMessage, Message
<1>2. <<>> \in Seq(Message) /\ result.transcript \in Seq(Message)
  BY DEF AgentTypeOK, ResultOK, Result
<1>3. User \in Message /\ User \in UserMessage /\ User \notin SystemMessage
      /\ User \notin ToolMessage /\ User \notin AssistantMessage
  BY DEF User, UserMessage, Message, SystemMessage, ToolMessage, AssistantMessage
<1>4. /\ Prepared(initial) \in Seq(Message) /\ Prepared(initial) # <<>>
      /\ Conversation(Prepared(initial))
      /\ EndedOn(Last(Prepared(initial))) \/ Last(Prepared(initial)) \in SystemMessage
  <2>1. CASE initial = <<>>
    <3>1. Prepared(initial) = <<System>>
      BY <2>1 DEF Prepared
    <3>2. Conversation(<<System>>)
      <4>1. System \notin ToolMessage /\ System \notin AssistantMessage
        BY DEF System, ToolMessage, AssistantMessage
      <4> QED
        BY <1>1, <4>1 DEF Conversation, SystemFirst, AnswersFollow, CallsAnswered, IdsOfSeries
    <3>3. Last(<<System>>) = System /\ <<System>> \in Seq(Message) /\ <<System>> # <<>>
      BY <1>1 DEF Last
    <3> QED
      BY <1>1, <3>1, <3>2, <3>3
  <2>2. CASE initial # <<>>
    <3>1. initial = result.transcript /\ Conversation(initial) /\ initial \in Seq(Message)
      BY <1>2, <2>2 DEF TurnsOK
    <3>2. 1 \in DOMAIN initial /\ initial[1].role = "system"
      BY <2>2, <3>1, Kinds DEF Conversation, SystemFirst, SystemMessage
    <3>3. Prepared(initial) = initial
      <4>1. \E i \in DOMAIN initial : initial[i].role = "system"
        BY <3>2
      <4>2. <<>> \o initial = initial
        BY <3>1
      <4> QED
        BY <4>1, <4>2 DEF Prepared
    <3> QED
      BY <2>2, <3>1, <3>3 DEF AgentTypeOK, ResultOK
  <2> QED
    BY <2>1, <2>2
<1> DEFINE tr == Prepared(initial)
<1>5. Last(tr) \in AssistantMessage => Last(tr).calls = <<>> \/ Last(tr).stop = "end_turn"
  BY <1>4 DEF EndedOn, ToolMessage, AssistantMessage, SystemMessage
<1>6. loop'.transcript = Append(tr, User)
  BY DEF Start, NoLoop
<1> HIDE DEF tr
<1>7. Conversation(Append(tr, User))
  BY <1>3, <1>4, <1>5, ConversationGrows DEF tr
<1> QED
  BY <1>6, <1>7

LEMMA ReplyConverses ==
  ASSUME AgentTypeOK, TurnsOK, NEW reply \in Replies, Asking(loop)
  PROVE  Conversation(Append(loop.transcript, Assistant(reply)))
<1> DEFINE m == Assistant(reply)
           tr == loop.transcript
<1>1. m \in AssistantMessage /\ m \in Message /\ m \notin SystemMessage /\ m \notin ToolMessage
  BY AssistantType DEF Message, AssistantMessage, SystemMessage, ToolMessage
<1>2. tr \in Seq(Message) /\ tr # <<>> /\ Last(tr) \notin AssistantMessage
  BY DEF AgentTypeOK, LoopOK, Loop, Asking, UserMessage, ToolMessage, AssistantMessage
<1>3. setup.provider # "mock" => \A j \in DOMAIN m.calls : m.calls[j].id = <<Len(tr) + 1, j>>
  BY AssistantType DEF Series
<1> HIDE DEF m, tr
<1>4. Conversation(tr)
  BY DEF TurnsOK, tr
<1>5. Conversation(Append(tr, m))
  BY <1>1, <1>2, <1>3, <1>4, ConversationGrows
<1> QED
  BY <1>5 DEF m, tr

(* The results told are those of the reply's calls.                         *)
LEMMA TellingConverses ==
  ASSUME AgentTypeOK, TurnsOK, loop.at \in Busy, NEW c \in Loop,
         c.transcript = loop.transcript, Len(c.results) = Len(Pending),
         \A j \in DOMAIN c.results : c.results[j].id = Pending[j].id
  PROVE  Conversation(Telling(c).transcript)
<1> DEFINE m == [role |-> "tool", results |-> c.results]
           tr == loop.transcript
<1>1. m \in ToolMessage /\ Telling(c).transcript = Append(tr, m)
  BY TellingType
<1>2. m \in Message /\ m \notin SystemMessage /\ m \notin AssistantMessage
  BY <1>1 DEF Message, ToolMessage, SystemMessage, AssistantMessage
<1>3. tr \in Seq(Message) /\ tr # <<>> /\ Last(tr) \in AssistantMessage /\ Pending = Last(tr).calls
  BY DEF AgentTypeOK, LoopOK, Loop, Executing, Pending
<1>4. Ids(m.results) = Ids(Last(tr).calls)
  <2>1. Last(tr).calls \in Seq(Use) /\ c.results \in Seq(Answer)
    BY <1>3 DEF AssistantMessage, Loop
  <2>2. DOMAIN c.results = DOMAIN Last(tr).calls
    BY <1>3, <2>1
  <2> QED
    BY <1>3, <2>2 DEF Ids
<1> HIDE DEF m, tr
<1>5. Conversation(tr)
  BY DEF TurnsOK, tr
<1>6. Conversation(Append(tr, m))
  BY <1>1, <1>2, <1>3, <1>4, <1>5, ConversationGrows
<1> QED
  BY <1>1, <1>6

LEMMA EmptyConversation == Conversation(<<>>)
BY DEF Conversation, SystemFirst, AnswersFollow, CallsAnswered, IdsOfSeries

LEMMA AnsweredConverses ==
  ASSUME AgentTypeOK, TurnsOK, loop.at \in Busy, NEW l \in Loop, l.at \in Busy,
         l.transcript = loop.transcript, l.results = loop.results,
         NEW what \in {"refused", "ok", "failed", "blames"}, NEW t, Answered(l, what, t)
  PROVE  /\ UNCHANGED setup
         /\ Conversation(loop'.transcript) /\ Conversation(result'.transcript)
<1> DEFINE c == Counting(l, what)
<1>1. /\ c \in Loop /\ c.transcript = loop.transcript
      /\ Len(c.results) = Len(loop.results) + 1
      /\ \A j \in DOMAIN c.results : c.results[j].id = Pending[j].id
  BY CountingType
<1>2. /\ Len(loop.results) \in Nat /\ Len(Pending) \in Nat
      /\ Len(loop.results) < Len(Pending)
  BY DEF AgentTypeOK, LoopOK, Loop, Executing, Pending, AssistantMessage
<1>3. Conversation(loop.transcript) /\ Conversation(result.transcript)
  BY DEF TurnsOK
<1> HIDE DEF c
<1>4. CASE loop' = c /\ UNCHANGED <<setup, result>>
  BY <1>1, <1>3, <1>4
<1>5. CASE /\ ~(Len(c.results) < Len(Pending))
           /\ \/ loop' = Telling(c) /\ UNCHANGED <<setup, result>>
              \/ Finish(Telling(c), "max_steps")
  <2>1. Conversation(Telling(c).transcript)
    BY <1>1, <1>2, <1>5, TellingConverses
  <2>2. CASE loop' = Telling(c) /\ UNCHANGED <<setup, result>>
    BY <1>3, <2>1, <2>2
  <2>3. CASE Finish(Telling(c), "max_steps")
    <3>1. /\ result'.transcript = Telling(c).transcript /\ loop'.transcript = <<>>
          /\ UNCHANGED setup
      BY <2>3 DEF Finish, NoLoop
    <3> QED
      BY <2>1, <3>1, EmptyConversation
  <2> QED
    BY <1>5, <2>2, <2>3
<1> QED
  BY <1>4, <1>5 DEF Answered, c

LEMMA TurnsStep ==
  ASSUME AgentTypeOK, TurnsOK, [Next]_vars
  PROVE  TurnsOK'
<1>0. loop \in Loop
  BY DEF AgentTypeOK, LoopOK
<1>1. ASSUME UNCHANGED setup, Conversation(loop'.transcript), Conversation(result'.transcript)
      PROVE  TurnsOK'
  BY <1>1 DEF TurnsOK, Conversation, SystemFirst, AnswersFollow, CallsAnswered, IdsOfSeries
<1>2. ASSUME UNCHANGED <<setup, result>>, loop'.transcript = loop.transcript
      PROVE  TurnsOK'
  BY <1>1, <1>2 DEF TurnsOK
<1>3. CASE UNCHANGED vars
  BY <1>2, <1>3 DEF vars
<1>4. ASSUME NEW initial \in {<<>>, result.transcript}, Start(initial) PROVE TurnsOK'
  BY <1>1, <1>4, StartConverses DEF Start, TurnsOK
<1>5. ASSUME NEW reply \in Replies, Reply(reply) PROVE TurnsOK'
  <2>1. /\ Asking(loop) /\ UNCHANGED setup
        /\ \/ /\ loop' = NoLoop
              /\ result'.transcript = Append(loop.transcript, Assistant(reply))
           \/ /\ result' = result
              /\ loop'.transcript = Append(loop.transcript, Assistant(reply))
    BY <1>5, ReplyGoes
  <2>2. Conversation(Append(loop.transcript, Assistant(reply)))
    BY <2>1, ReplyConverses
  <2>3. NoLoop.transcript = <<>>
    BY DEF NoLoop
  <2> QED
    BY <1>1, <2>1, <2>2, <2>3, EmptyConversation DEF TurnsOK
<1>6. CASE Raise
  BY <1>1, <1>6, EmptyConversation DEF Raise, NoLoop, TurnsOK
<1>7. CASE Decide
  <2>1. loop.at = "call" /\ loop.at \in Busy
    BY <1>7 DEF Decide, Busy
  <2>2. \/ Answered(Looked, "refused", Counted(Counted(tracer, "calls"), "denied"))
        \/ \E place \in {"approve", "pre"} :
             loop' = [Looked EXCEPT !.at = place] /\ UNCHANGED <<setup, tools, result>>
    BY <1>7, <2>1, DecisionIs DEF Decide, Looked
  <2>3. CASE Answered(Looked, "refused", Counted(Counted(tracer, "calls"), "denied"))
    BY <1>1, <2>1, <2>3, LookedType, AnsweredConverses
  <2>4. ASSUME NEW place \in {"approve", "pre"}, loop' = [Looked EXCEPT !.at = place],
               UNCHANGED <<setup, tools, result>>
        PROVE  TurnsOK'
    <3>1. loop'.transcript = loop.transcript
      BY <2>1, <2>4, LookedType DEF Loop
    <3> QED
      BY <1>2, <2>4, <3>1
  <2> QED
    BY <2>2, <2>3, <2>4
<1>8. CASE Approve
  BY <1>0, <1>2, <1>8 DEF Approve, Goto, Loop
<1>9. CASE Reject
  BY <1>0, <1>1, <1>9, AnsweredConverses DEF Reject, Busy
<1>10. CASE NextHook
  BY <1>0, <1>2, <1>10 DEF NextHook, Loop
<1>11. CASE Block
  BY <1>0, <1>1, <1>11, AnsweredConverses DEF Block, Busy
<1>12. CASE HooksPassed
  BY <1>0, <1>2, <1>12 DEF HooksPassed, Goto, Loop
<1>13. ASSUME NEW what \in Outcomes \cup {"failed"}, Execute(what) PROVE TurnsOK'
  BY <1>0, <1>2, <1>13 DEF Execute, Goto, Loop
<1>14. ASSUME NEW blames \in BOOLEAN, Observe(blames) PROVE TurnsOK'
  <2>1. (IF blames /\ loop.what = "failed" THEN "blames" ELSE loop.what)
           \in {"refused", "ok", "failed", "blames"}
    BY <1>0 DEF Loop
  <2> QED
    BY <1>0, <1>1, <1>14, <2>1, AnsweredConverses DEF Observe, Busy
<1>15. ASSUME NEW n \in Name, NEW t \in Tool, Register(n, t) PROVE TurnsOK'
  BY <1>2, <1>15 DEF Register
<1>16. ASSUME NEW n \in Name, Unregister(n) PROVE TurnsOK'
  BY <1>2, <1>16 DEF Unregister
<1> QED
  BY <1>3, <1>4, <1>5, <1>6, <1>7, <1>8, <1>9, <1>10, <1>11, <1>12, <1>13, <1>14,
     <1>15, <1>16 DEF Next, Step

(* What a conversation looks like to the service.                           *)
LEMMA ConversationPairs ==
  ASSUME NEW tr \in Seq(Message), Conversation(tr)
  PROVE  LET turns == Turns(tr)
         IN /\ \A i \in DOMAIN tr : tr[i].role = "system" => i = 1
            /\ \A i \in DOMAIN turns :
                 /\ turns[i].answers # {} => i > 1 /\ turns[i].answers = turns[i - 1].uses
                 /\ i < Len(tr) /\ turns[i].uses # {} =>
                      turns[i + 1].answers = turns[i].uses \/ tr[i].stop = "end_turn"
            /\ setup.provider # "mock" =>
                 \A i, j \in DOMAIN turns : i # j => turns[i].uses \cap turns[j].uses = {}
<1> DEFINE turns == Turns(tr)
<1>1. DOMAIN turns = DOMAIN tr /\ DOMAIN tr = 1..Len(tr) /\ Len(tr) \in Nat
  BY DEF Turns
<1>2. ASSUME NEW i \in DOMAIN tr
      PROVE  /\ tr[i] \in Message
             /\ turns[i].uses = IF tr[i] \in AssistantMessage THEN Ids(tr[i].calls) ELSE {}
             /\ turns[i].answers = IF tr[i] \in ToolMessage THEN Ids(tr[i].results) ELSE {}
  <2>1. tr[i] \in Message
    OBVIOUS
  <2> QED
    BY <1>2, <2>1, Kinds DEF Turns, Turn
<1> HIDE DEF turns
<1>3. \A i \in DOMAIN tr : tr[i].role = "system" => i = 1
  BY <1>2, Kinds DEF Conversation, SystemFirst
<1>4. ASSUME NEW i \in DOMAIN tr, turns[i].answers # {}
      PROVE  i > 1 /\ turns[i].answers = turns[i - 1].uses
  <2>1. tr[i] \in ToolMessage /\ turns[i].answers = Ids(tr[i].results)
    BY <1>2, <1>4
  <2>2. i > 1 /\ tr[i - 1] \in AssistantMessage /\ Ids(tr[i].results) = Ids(tr[i - 1].calls)
    BY <2>1 DEF Conversation, AnswersFollow
  <2>3. i - 1 \in DOMAIN tr
    BY <1>1, <2>2
  <2> QED
    BY <1>2, <2>1, <2>2, <2>3
<1>5. ASSUME NEW i \in DOMAIN tr, i < Len(tr), turns[i].uses # {}
      PROVE  turns[i + 1].answers = turns[i].uses \/ tr[i].stop = "end_turn"
  <2>0. Ids(<<>>) = {}
    BY DEF Ids
  <2>1. tr[i] \in AssistantMessage /\ turns[i].uses = Ids(tr[i].calls) /\ tr[i].calls # <<>>
    BY <1>2, <1>5, <2>0
  <2>2. tr[i + 1] \in ToolMessage \/ tr[i].stop = "end_turn"
    BY <1>5, <2>1 DEF Conversation, CallsAnswered
  <2>3. CASE tr[i + 1] \in ToolMessage
    <3>1. i + 1 \in DOMAIN tr /\ (i + 1) - 1 = i
      BY <1>1, <1>5
    <3>2. Ids(tr[i + 1].results) = Ids(tr[i].calls)
      BY <2>3, <3>1 DEF Conversation, AnswersFollow
    <3> QED
      BY <1>2, <2>1, <2>3, <3>1, <3>2
  <2> QED
    BY <2>2, <2>3
<1>6. ASSUME setup.provider # "mock", NEW i \in DOMAIN tr, NEW j \in DOMAIN tr,
             i # j, NEW id \in turns[i].uses \cap turns[j].uses
      PROVE  FALSE
  <2>1. /\ tr[i] \in AssistantMessage /\ id \in Ids(tr[i].calls)
        /\ tr[j] \in AssistantMessage /\ id \in Ids(tr[j].calls)
    BY <1>2, <1>6
  <2>2. PICK m \in DOMAIN tr[i].calls : id = tr[i].calls[m].id
    BY <2>1 DEF Ids
  <2>3. PICK n \in DOMAIN tr[j].calls : id = tr[j].calls[n].id
    BY <2>1 DEF Ids
  <2>4. id = <<i, m>> /\ id = <<j, n>>
    BY <1>6, <2>1, <2>2, <2>3 DEF Conversation, IdsOfSeries
  <2> QED
    BY <1>6, <2>4
<1> QED
  BY <1>1, <1>3, <1>4, <1>5, <1>6 DEF turns

(* For every model, approver, hook and tool, and however often a caller     *)
(* goes on from the transcript it was returned, the conversation is one the *)
(* service takes: results follow the turn that used them, one for each use. *)
THEOREM TurnsArePaired == Spec => []TurnsPaired
<1>1. Init => TurnsOK
  BY EmptyConversation DEF Init, TurnsOK, NoLoop
<1>2. AgentTypeOK /\ TurnsOK /\ [Next]_vars => TurnsOK'
  BY TurnsStep
<1>3. AgentTypeOK /\ TurnsOK => TurnsPaired
  <2> SUFFICES ASSUME AgentTypeOK, TurnsOK PROVE TurnsPaired
    OBVIOUS
  <2>1. loop.transcript \in Seq(Message) /\ result.transcript \in Seq(Message)
    BY DEF AgentTypeOK, LoopOK, ResultOK, Loop, Result
  <2>2. Conversation(loop.transcript) /\ Conversation(result.transcript)
    BY DEF TurnsOK
  <2>3. \A tr \in {loop.transcript, result.transcript} : tr \in Seq(Message) /\ Conversation(tr)
    BY <2>1, <2>2
  <2>4. setup.provider = "anthropic" => setup.provider # "mock"
    OBVIOUS
  <2> QED
    BY <2>3, <2>4, ConversationPairs DEF TurnsPaired
<1> QED
  BY <1>1, <1>2, <1>3, AgentTypeCorrect, PTL DEF Spec
-----------------------------------------------------------------------------
(* The tracer.                                                              *)
SpanKind == {"agent.run", "agent.step", "tool"}
Span == [kind : SpanKind, parent : Nat, id : Nat]
Tracer == [stack : Seq(Span), spans : Seq(Span), calls : Nat, denied : Nat,
           rejected : Nat, hookBlocked : Nat]
Metric == {"calls", "denied", "rejected", "hookBlocked"}

AllSpans(t) ==
  {t.spans[i] : i \in DOMAIN t.spans} \cup {t.stack[i] : i \in DOMAIN t.stack}

(* The spans that are open or closed have ids of their own, and the parent  *)
(* of each is one of them and of the right kind.                            *)
OwnIds(t) ==
  /\ \A i, j \in DOMAIN t.spans : i # j => t.spans[i].id # t.spans[j].id
  /\ \A i, j \in DOMAIN t.stack : i # j => t.stack[i].id # t.stack[j].id
  /\ \A i \in DOMAIN t.spans, j \in DOMAIN t.stack : t.spans[i].id # t.stack[j].id
  /\ \A x \in AllSpans(t) : x.id <= Len(t.spans) + Len(t.stack)
Within(x, kind, t) == \E y \in AllSpans(t) : y.id = x.parent /\ y.kind = kind
Parents(t) ==
  \A x \in AllSpans(t) :
    /\ x.kind = "agent.run" => x.parent = 0
    /\ x.kind = "agent.step" => Within(x, "agent.run", t)
    /\ x.kind = "tool" => Within(x, "agent.step", t)
Nested(t) == t \in Tracer /\ OwnIds(t) /\ Parents(t)

(* n spans are open: a run's, a step's in it and a tool's in that.          *)
Level(n) == CASE n = 1 -> "agent.run" [] n = 2 -> "agent.step" [] n = 3 -> "tool"
On(t, n) == Len(t.stack) = n /\ \A k \in 1..n : t.stack[k].kind = Level(k)

Tools(t) == ToolSpans(t.spans) + ToolSpans(t.stack)
Missing(t) == t.calls - t.denied - t.rejected - t.hookBlocked - Tools(t)

(* Where a sequence has a member of T, and how often it has one more when   *)
(* an element is appended.                                                  *)
Where(s, T) == {i \in DOMAIN s : s[i] \in T}

LEMMA CountOfAppend ==
  ASSUME NEW S, NEW s \in Seq(S), NEW x \in S, NEW T
  PROVE  /\ IsFiniteSet(Where(s, T)) /\ Cardinality(Where(s, T)) \in Nat
         /\ Cardinality(Where(Append(s, x), T)) =
              Cardinality(Where(s, T)) + IF x \in T THEN 1 ELSE 0
<1> DEFINE A == Where(s, T)
           B == Where(Append(s, x), T)
<1>1. IsFiniteSet(A)
  <2>1. IsFiniteSet(1..Len(s)) /\ DOMAIN s = 1..Len(s)
    BY FS_Interval
  <2> QED
    BY <2>1, FS_Subset DEF Where
<1>2. B = IF x \in T THEN A \cup {Len(s) + 1} ELSE A
  BY DEF Where
<1>3. Len(s) + 1 \notin A
  BY DEF Where
<1> HIDE DEF A, B
<1>4. Cardinality(A) \in Nat
  BY <1>1, FS_CardinalityType
<1>5. Cardinality(A \cup {Len(s) + 1}) = Cardinality(A) + 1
  BY <1>1, <1>3, FS_AddElement
<1>6. Cardinality(B) = Cardinality(A) + IF x \in T THEN 1 ELSE 0
  BY <1>2, <1>4, <1>5
<1> QED
  BY <1>1, <1>4, <1>6 DEF A, B

LEMMA ToolSpansOfAppend ==
  ASSUME NEW s \in Seq(Span), NEW x \in Span
  PROVE  /\ ToolSpans(s) \in Nat
         /\ ToolSpans(Append(s, x)) = ToolSpans(s) + IF x.kind = "tool" THEN 1 ELSE 0
<1> DEFINE T == {y \in Span : y.kind = "tool"}
<1>1. \A q \in Seq(Span) : ToolSpans(q) = Cardinality(Where(q, T))
  <2> SUFFICES ASSUME NEW q \in Seq(Span) PROVE ToolSpans(q) = Cardinality(Where(q, T))
    OBVIOUS
  <2>1. {i \in DOMAIN q : q[i].kind = "tool"} = Where(q, T)
    BY DEF Where
  <2> QED
    BY <2>1 DEF ToolSpans
<1>2. Append(s, x) \in Seq(Span)
  OBVIOUS
<1>3. x \in T <=> x.kind = "tool"
  OBVIOUS
<1> HIDE DEF T
<1>4. /\ Cardinality(Where(s, T)) \in Nat
      /\ Cardinality(Where(Append(s, x), T)) =
           Cardinality(Where(s, T)) + IF x \in T THEN 1 ELSE 0
  BY CountOfAppend
<1> QED
  BY <1>1, <1>2, <1>3, <1>4

LEMMA Extended ==
  ASSUME NEW S, NEW s \in Seq(S), NEW f \in Seq(S), NEW e \in S,
         Len(s) = Len(f) + 1, \A i \in 1..Len(f) : f[i] = s[i], e = s[Len(s)]
  PROVE  s = Append(f, e)
<1>1. Append(f, e) \in Seq(S) /\ Len(Append(f, e)) = Len(s)
  OBVIOUS
<1>2. \A i \in 1..Len(s) : s[i] = Append(f, e)[i]
  OBVIOUS
<1> QED
  BY <1>1, <1>2, SeqEqual

(* The front and the last element make up a sequence.                       *)
LEMMA FrontAndLast ==
  ASSUME NEW S, NEW s \in Seq(S), s # <<>>
  PROVE  /\ Front(s) \in Seq(S) /\ Last(s) \in S
         /\ Len(Front(s)) = Len(s) - 1
         /\ \A i \in 1..Len(s) - 1 : Front(s)[i] = s[i]
         /\ s = Append(Front(s), Last(s))
<1>1. Len(s) \in Nat \ {0} /\ DOMAIN s = 1..Len(s)
  OBVIOUS
<1>2. /\ Front(s) \in Seq(S) /\ Len(Front(s)) = Len(s) - 1
      /\ \A i \in 1..Len(s) - 1 : Front(s)[i] = s[i]
  BY <1>1 DEF Front
<1>3. Last(s) \in S /\ Last(s) = s[Len(s)]
  BY <1>1 DEF Last
<1>4. Len(s) = Len(Front(s)) + 1 /\ \A i \in 1..Len(Front(s)) : Front(s)[i] = s[i]
  BY <1>1, <1>2
<1>5. s = Append(Front(s), Last(s))
  BY <1>2, <1>3, <1>4, Extended
<1> QED
  BY <1>2, <1>3, <1>5

LEMMA CountedTracer ==
  ASSUME NEW t \in Tracer, Nested(t), NEW metric \in Metric
  PROVE  LET u == Counted(t, metric)
         IN /\ Nested(u) /\ u.stack = t.stack /\ u.spans = t.spans
            /\ \A m \in Metric : u[m] = IF m = metric THEN t[m] + 1 ELSE t[m]
<1> DEFINE u == Counted(t, metric)
<1>1. /\ u \in Tracer /\ u.stack = t.stack /\ u.spans = t.spans
      /\ \A m \in Metric : u[m] = IF m = metric THEN t[m] + 1 ELSE t[m]
  <2> DEFINE n == t[metric] + 1
  <2>1. n \in Nat /\ u = [t EXCEPT ![metric] = n]
    BY DEF Counted, Tracer, Metric
  <2> HIDE DEF n, u
  <2>2. /\ u \in Tracer /\ u.stack = t.stack /\ u.spans = t.spans
        /\ \A m \in Metric : u[m] = IF m = metric THEN n ELSE t[m]
    BY <2>1 DEF Tracer, Metric
  <2> QED
    BY <2>2 DEF n
<1> HIDE DEF u
<1>2. AllSpans(u) = AllSpans(t)
  BY <1>1 DEF AllSpans
<1>3. u \in Tracer /\ u.stack = t.stack /\ u.spans = t.spans
  BY <1>1
<1>4. OwnIds(u)
  BY <1>2, <1>3 DEF Nested, OwnIds
<1>5. Parents(u)
  BY <1>2 DEF Nested, Parents, Within
<1> QED
  BY <1>1, <1>4, <1>5 DEF Nested, u

(* A span that opens is a child of the one that is open on top.             *)
LEMMA OpenedTracer ==
  ASSUME NEW t \in Tracer, Nested(t), NEW n \in 0..2, On(t, n)
  PROVE  LET u == Opened(t, Level(n + 1))
         IN /\ Nested(u) /\ On(u, n + 1) /\ \A m \in Metric : u[m] = t[m]
            /\ Tools(u) = Tools(t) + IF n = 2 THEN 1 ELSE 0
            /\ Tools(t) \in Nat
<1> DEFINE kind == Level(n + 1)
           new == [kind |-> kind, parent |-> Top(t), id |-> Len(t.stack) + Len(t.spans) + 1]
           st == Append(t.stack, new)
           u == Opened(t, kind)
<1>1. /\ t.stack \in Seq(Span) /\ t.spans \in Seq(Span)
      /\ Len(t.stack) = n /\ Len(t.spans) \in Nat
      /\ DOMAIN t.stack = 1..n /\ DOMAIN t.spans = 1..Len(t.spans)
  BY DEF Tracer, On
<1>2. n # 0 => Last(t.stack) = t.stack[n] /\ t.stack[n] \in Span /\ t.stack[n].kind = Level(n)
               /\ t.stack[n] \in AllSpans(t)
  BY <1>1 DEF Last, On, AllSpans
<1>3. Top(t) \in Nat /\ (n = 0 => Top(t) = 0) /\ (n # 0 => Top(t) = t.stack[n].id)
  BY <1>1, <1>2 DEF Top, Span
<1>4. kind \in SpanKind
  BY DEF Level, SpanKind
<1>5. new \in Span /\ new.kind = kind /\ new.parent = Top(t)
      /\ new.id = n + Len(t.spans) + 1
  BY <1>1, <1>3, <1>4 DEF Span
<1>6. u = [t EXCEPT !.stack = st]
  BY DEF Opened
<1> HIDE DEF new, u, kind
<1>7. /\ st \in Seq(Span) /\ Len(st) = n + 1 /\ DOMAIN st = 1..n + 1
      /\ st[n + 1] = new /\ \A i \in 1..n : st[i] = t.stack[i]
  BY <1>1, <1>5
<1>8. ToolSpans(st) = ToolSpans(t.stack) + IF kind = "tool" THEN 1 ELSE 0
  BY <1>1, <1>5, ToolSpansOfAppend
<1> HIDE DEF st
<1>9. /\ u \in Tracer /\ u.stack = st /\ u.spans = t.spans
      /\ \A m \in Metric : u[m] = t[m]
  BY <1>6, <1>7 DEF Tracer, Metric
<1>10. AllSpans(u) = AllSpans(t) \cup {new}
  <2>1. {st[i] : i \in DOMAIN st} = {t.stack[i] : i \in DOMAIN t.stack} \cup {new}
    BY <1>1, <1>7
  <2> QED
    BY <1>9, <2>1 DEF AllSpans
<1>11. \A x \in AllSpans(t) : x.id <= n + Len(t.spans) /\ x \in Span
  BY <1>1 DEF Nested, OwnIds, AllSpans
<1>12. /\ n \in Nat /\ new.id = n + Len(t.spans) + 1
       /\ \A x \in AllSpans(t) : /\ x.id \in Nat /\ x.id <= n + Len(t.spans)
                                /\ x.id # new.id
  <2>1. \A x \in AllSpans(t) : x.id \in Nat
    BY <1>11 DEF Span
  <2> QED
    BY <1>1, <1>5, <1>11, <2>1
<1>13. OwnIds(u)
  <2>1. \A i, j \in DOMAIN u.spans : i # j => u.spans[i].id # u.spans[j].id
    BY <1>9 DEF Nested, OwnIds
  <2>2. \A i \in DOMAIN t.stack : t.stack[i].id # new.id /\ t.stack[i] \in AllSpans(t)
    <3> SUFFICES ASSUME NEW i \in DOMAIN t.stack PROVE t.stack[i].id # new.id /\ t.stack[i] \in AllSpans(t)
      OBVIOUS
    <3>1. t.stack[i] \in AllSpans(t)
      BY DEF AllSpans
    <3> QED
      BY <1>12, <3>1
  <2>3. \A i \in DOMAIN t.spans : t.spans[i].id # new.id
    <3> SUFFICES ASSUME NEW i \in DOMAIN t.spans PROVE t.spans[i].id # new.id
      OBVIOUS
    <3>1. t.spans[i] \in AllSpans(t)
      BY DEF AllSpans
    <3> QED
      BY <1>12, <3>1
  <2>4. \A i, j \in DOMAIN st : i # j => st[i].id # st[j].id
    <3> SUFFICES ASSUME NEW i \in DOMAIN st, NEW j \in DOMAIN st, i # j
                 PROVE  st[i].id # st[j].id
      OBVIOUS
    <3>0. \A k \in DOMAIN st : k = n + 1 \/ (k \in 1..n /\ st[k] = t.stack[k])
      <4>1. \A k \in 1..n + 1 : k = n + 1 \/ k \in 1..n
        OBVIOUS
      <4> QED
        BY <1>7, <4>1
    <3>1. CASE i = n + 1
      <4>1. j \in DOMAIN t.stack /\ st[j] = t.stack[j] /\ st[i] = new
        BY <1>1, <1>7, <3>0, <3>1
      <4> QED
        BY <2>2, <4>1
    <3>2. CASE j = n + 1
      <4>1. i \in DOMAIN t.stack /\ st[i] = t.stack[i] /\ st[j] = new
        BY <1>1, <1>7, <3>0, <3>2
      <4> QED
        BY <2>2, <4>1
    <3>3. CASE i # n + 1 /\ j # n + 1
      <4>1. /\ i \in DOMAIN t.stack /\ st[i] = t.stack[i]
            /\ j \in DOMAIN t.stack /\ st[j] = t.stack[j]
        BY <1>1, <3>0, <3>3
      <4> QED
        BY <4>1 DEF Nested, OwnIds
    <3> QED
      BY <3>1, <3>2, <3>3
  <2>5. \A i \in DOMAIN t.spans, j \in DOMAIN st : t.spans[i].id # st[j].id
    BY <1>1, <1>7, <2>3 DEF Nested, OwnIds
  <2>6. \A x \in AllSpans(u) : x.id <= Len(t.spans) + Len(st)
    <3>1. new.id <= Len(t.spans) + Len(st)
      BY <1>1, <1>5, <1>7
    <3>2. ASSUME NEW x \in AllSpans(t) PROVE x.id <= Len(t.spans) + Len(st)
      <4>1. Len(t.spans) + Len(st) = n + Len(t.spans) + 1
        BY <1>1, <1>7, <1>12
      <4> QED
        BY <1>1, <1>12, <4>1
    <3> QED
      BY <1>10, <3>1, <3>2
  <2> QED
    BY <1>9, <2>1, <2>4, <2>5, <2>6 DEF OwnIds
<1>14. Parents(u)
  <2>1. \A k : \A x \in AllSpans(t) : Within(x, k, t) => Within(x, k, u)
    BY <1>10 DEF Within
  <2>2. /\ new.kind = "agent.run" => new.parent = 0
        /\ new.kind = "agent.step" => Within(new, "agent.run", u)
        /\ new.kind = "tool" => Within(new, "agent.step", u)
    BY <1>2, <1>3, <1>5, <1>10 DEF Within, Level, kind
  <2> QED
    BY <1>10, <2>1, <2>2 DEF Nested, Parents
<1>15. On(u, n + 1)
  BY <1>1, <1>5, <1>7, <1>9 DEF On, kind
<1>16. Tools(t) \in Nat /\ Tools(u) = Tools(t) + IF n = 2 THEN 1 ELSE 0
  <2>1. ToolSpans(t.stack) \in Nat /\ ToolSpans(t.spans) \in Nat
    BY <1>1, <1>5, ToolSpansOfAppend
  <2>2. kind = "tool" <=> n = 2
    BY DEF kind, Level
  <2> QED
    BY <1>8, <1>9, <2>1, <2>2 DEF Tools
<1> QED
  BY <1>9, <1>13, <1>14, <1>15, <1>16 DEF Nested, u, kind

(* A span that closes joins the closed ones as it is.                       *)
LEMMA ClosedTracer ==
  ASSUME NEW t \in Tracer, Nested(t), NEW n \in 0..2, On(t, n + 1)
  PROVE  LET u == Closed(t)
         IN /\ Nested(u) /\ On(u, n) /\ \A m \in Metric : u[m] = t[m]
            /\ Tools(u) = Tools(t)
            /\ Tools(t) \in Nat
<1> DEFINE e == Last(t.stack)
           st == Front(t.stack)
           sp == Append(t.spans, e)
           u == Closed(t)
           N == Len(t.spans)
<1>1. /\ t.stack \in Seq(Span) /\ t.spans \in Seq(Span) /\ t.stack # <<>>
      /\ Len(t.stack) = n + 1 /\ N \in Nat
      /\ DOMAIN t.stack = 1..n + 1 /\ DOMAIN t.spans = 1..N
  BY DEF Tracer, On
<1>2. /\ st \in Seq(Span) /\ e \in Span /\ Len(st) = n /\ DOMAIN st = 1..n
      /\ \A i \in 1..n : st[i] = t.stack[i]
      /\ t.stack = Append(st, e)
  <2>1. /\ st \in Seq(Span) /\ e \in Span /\ Len(st) = Len(t.stack) - 1
        /\ \A i \in 1..Len(t.stack) - 1 : st[i] = t.stack[i]
        /\ t.stack = Append(st, e)
    BY <1>1, FrontAndLast
  <2>2. Len(t.stack) - 1 = n
    BY <1>1
  <2> HIDE DEF st, e
  <2>3. Len(st) = n /\ DOMAIN st = 1..n /\ \A i \in 1..n : st[i] = t.stack[i]
    BY <2>1, <2>2
  <2> QED
    BY <2>1, <2>3
<1>3. e = t.stack[n + 1]
  BY <1>1 DEF Last
<1>4. u = [t EXCEPT !.stack = st, !.spans = sp]
  BY DEF Closed
<1> HIDE DEF e, st, u
<1>5. /\ sp \in Seq(Span) /\ Len(sp) = N + 1 /\ DOMAIN sp = 1..N + 1
      /\ sp[N + 1] = e /\ \A i \in 1..N : sp[i] = t.spans[i]
  BY <1>1, <1>2
<1>6. /\ ToolSpans(sp) = ToolSpans(t.spans) + IF e.kind = "tool" THEN 1 ELSE 0
      /\ ToolSpans(t.stack) = ToolSpans(st) + IF e.kind = "tool" THEN 1 ELSE 0
      /\ ToolSpans(t.spans) \in Nat /\ ToolSpans(st) \in Nat
  BY <1>1, <1>2, ToolSpansOfAppend
<1> HIDE DEF sp, N
<1>7. /\ u \in Tracer /\ u.stack = st /\ u.spans = sp
      /\ \A m \in Metric : u[m] = t[m]
  BY <1>2, <1>4, <1>5 DEF Tracer, Metric
<1>8. AllSpans(u) = AllSpans(t)
  <2>1. {sp[i] : i \in DOMAIN sp} = {t.spans[i] : i \in DOMAIN t.spans} \cup {e}
    BY <1>1, <1>5
  <2>2. {t.stack[i] : i \in DOMAIN t.stack} = {st[i] : i \in DOMAIN st} \cup {e}
    BY <1>1, <1>2, <1>3
  <2> QED
    BY <1>7, <2>1, <2>2 DEF AllSpans
<1>9. OwnIds(u)
  <2>1. \A i \in 1..N : t.spans[i].id # e.id
    BY <1>1, <1>3 DEF Nested, OwnIds
  <2>2. \A i \in 1..n : st[i].id # e.id
    BY <1>1, <1>2, <1>3 DEF Nested, OwnIds
  <2>3. \A i, j \in DOMAIN sp : i # j => sp[i].id # sp[j].id
    <3> SUFFICES ASSUME NEW i \in DOMAIN sp, NEW j \in DOMAIN sp, i # j
                 PROVE  sp[i].id # sp[j].id
      OBVIOUS
    <3>1. CASE i = N + 1
      BY <1>1, <1>5, <2>1, <3>1
    <3>2. CASE j = N + 1
      BY <1>1, <1>5, <2>1, <3>2
    <3>3. CASE i # N + 1 /\ j # N + 1
      BY <1>1, <1>5, <3>3 DEF Nested, OwnIds
    <3> QED
      BY <3>1, <3>2, <3>3
  <2>4. \A i, j \in DOMAIN st : i # j => st[i].id # st[j].id
    BY <1>1, <1>2 DEF Nested, OwnIds
  <2>5. \A i \in DOMAIN sp, j \in DOMAIN st : sp[i].id # st[j].id
    <3> SUFFICES ASSUME NEW i \in DOMAIN sp, NEW j \in DOMAIN st
                 PROVE  sp[i].id # st[j].id
      OBVIOUS
    <3>1. CASE i = N + 1
      BY <1>2, <1>5, <2>2, <3>1
    <3>2. CASE i # N + 1
      BY <1>1, <1>2, <1>5, <3>2 DEF Nested, OwnIds
    <3> QED
      BY <3>1, <3>2
  <2>6. \A x \in AllSpans(u) : x.id <= Len(sp) + Len(st)
    <3>1. Len(sp) + Len(st) = Len(t.spans) + Len(t.stack)
      <4>1. Len(sp) = N + 1 /\ Len(st) = n /\ Len(t.stack) = n + 1 /\ N \in Nat
        BY <1>1, <1>2, <1>5
      <4>2. Len(t.spans) = N
        BY DEF N
      <4> QED
        BY <4>1, <4>2
    <3> QED
      BY <1>8, <3>1 DEF Nested, OwnIds
  <2> QED
    BY <1>7, <2>3, <2>4, <2>5, <2>6 DEF OwnIds
<1>10. Parents(u)
  BY <1>8 DEF Nested, Parents, Within
<1>11. On(u, n)
  BY <1>1, <1>2, <1>7 DEF On
<1>12. Tools(t) \in Nat /\ Tools(u) = Tools(t)
  BY <1>6, <1>7 DEF Tools
<1> QED
  BY <1>7, <1>9, <1>10, <1>11, <1>12 DEF Nested, u
End == {"end_turn", "max_steps", "raised"}
Depth(at) == IF at = "idle" THEN 0 ELSE IF at = "tool" THEN 3 ELSE 2
Underway(at) == IF at \in {"approve", "pre"} THEN 1 ELSE 0

(* As many spans are open as the place in the loop has around it, and each  *)
(* call counted is accounted for, but for the one under way and those that  *)
(* something raised in.                                                     *)
TracerOK ==
  /\ Nested(tracer) /\ On(tracer, Depth(loop.at))
  /\ ends \in Seq(End) /\ Raised \in Nat
  /\ Missing(tracer) \in Underway(loop.at)..(Underway(loop.at) + Raised)

LEMMA RaisedAfter ==
  ASSUME ends \in Seq(End), NEW how \in End, ends' = Append(ends, how)
  PROVE  /\ ends' \in Seq(End) /\ Raised \in Nat
         /\ Raised' = Raised + IF how = "raised" THEN 1 ELSE 0
<1>1. Raised = Cardinality(Where(ends, {"raised"}))
  <2>1. {i \in DOMAIN ends : ends[i] = "raised"} = Where(ends, {"raised"})
    BY DEF Where
  <2> QED
    BY <2>1 DEF Raised
<1>2. Raised' = Cardinality(Where(ends', {"raised"}))
  <2>1. {i \in DOMAIN ends' : ends'[i] = "raised"} = Where(ends', {"raised"})
    BY DEF Where
  <2> QED
    BY <2>1 DEF Raised
<1>3. how \in {"raised"} <=> how = "raised"
  OBVIOUS
<1>4. ends' \in Seq(End)
  OBVIOUS
<1> QED
  BY <1>1, <1>2, <1>3, <1>4, CountOfAppend

(* Both spans close when a run is left from inside a step.                  *)
LEMMA UnwoundTracer ==
  ASSUME NEW t, Nested(t), On(t, 2)
  PROVE  Nested(Unwound(t)) /\ On(Unwound(t), 0) /\ Missing(Unwound(t)) = Missing(t)
<1> DEFINE u == Closed(t)
<1>1. t \in Tracer /\ On(t, 1 + 1)
  BY DEF Nested
<1>2. Nested(u) /\ On(u, 1) /\ (\A m \in Metric : u[m] = t[m]) /\ Tools(u) = Tools(t)
  BY <1>1, ClosedTracer
<1> HIDE DEF u
<1>3. u \in Tracer /\ On(u, 0 + 1)
  BY <1>2 DEF Nested
<1> DEFINE v == Closed(u)
<1>4. Nested(v) /\ On(v, 0) /\ (\A m \in Metric : v[m] = u[m]) /\ Tools(v) = Tools(u)
  BY <1>2, <1>3, ClosedTracer
<1> HIDE DEF v
<1>5. Missing(v) = Missing(t)
  BY <1>2, <1>4 DEF Missing, Metric
<1> QED
  BY <1>4, <1>5 DEF Unwound, u, v

(* One step's span closes, the next one's opens.                            *)
LEMMA NextStepTracer ==
  ASSUME NEW t, Nested(t), On(t, 2)
  PROVE  LET v == Opened(Closed(t), "agent.step")
         IN Nested(v) /\ On(v, 2) /\ Missing(v) = Missing(t)
<1> DEFINE u == Closed(t)
           v == Opened(u, "agent.step")
<1>1. t \in Tracer /\ On(t, 1 + 1)
  BY DEF Nested
<1>2. Nested(u) /\ On(u, 1) /\ (\A m \in Metric : u[m] = t[m]) /\ Tools(u) = Tools(t)
  BY <1>1, ClosedTracer
<1>3. u \in Tracer /\ Level(1 + 1) = "agent.step"
  BY <1>2 DEF Nested, Level
<1> HIDE DEF u
<1>4. LET w == Opened(u, Level(1 + 1))
      IN Nested(w) /\ On(w, 2) /\ (\A m \in Metric : w[m] = u[m]) /\ Tools(w) = Tools(u)
  BY <1>2, <1>3, OpenedTracer
<1>5. Nested(v) /\ On(v, 2) /\ (\A m \in Metric : v[m] = u[m]) /\ Tools(v) = Tools(u)
  BY <1>3, <1>4
<1> HIDE DEF v
<1>6. Missing(v) = Missing(t)
  BY <1>2, <1>5 DEF Missing, Metric
<1> QED
  BY <1>5, <1>6 DEF u, v

(* What counting a metric does to the number of missing calls.              *)
LEMMA MissingCounted ==
  ASSUME NEW t, Nested(t), NEW n \in 0..3, On(t, n), NEW metric \in Metric
  PROVE  LET u == Counted(t, metric)
         IN /\ Nested(u) /\ On(u, n)
            /\ Missing(t) \in Int
            /\ Missing(u) = Missing(t) + IF metric = "calls" THEN 1 ELSE -1
<1> DEFINE u == Counted(t, metric)
<1>1. t \in Tracer
  BY DEF Nested
<1>2. /\ Nested(u) /\ u.stack = t.stack /\ u.spans = t.spans
      /\ \A m \in Metric : u[m] = IF m = metric THEN t[m] + 1 ELSE t[m]
  BY <1>1, CountedTracer
<1> HIDE DEF u
<1>3. Tools(u) = Tools(t) /\ On(u, n)
  BY <1>2 DEF Tools, On
<1>4. Tools(t) \in Nat
  <2>1. \A s \in Seq(Span) : ToolSpans(s) \in Nat
    <3> SUFFICES ASSUME NEW s \in Seq(Span) PROVE ToolSpans(s) \in Nat
      OBVIOUS
    <3>1. [kind |-> "tool", parent |-> 0, id |-> 0] \in Span
      BY DEF Span, SpanKind
    <3> QED
      BY <3>1, ToolSpansOfAppend
  <2> QED
    BY <1>1, <2>1 DEF Tools, Tracer
<1>5. /\ \A m \in Metric : t[m] \in Nat
      /\ t.calls = t["calls"] /\ t.denied = t["denied"]
      /\ t.rejected = t["rejected"] /\ t.hookBlocked = t["hookBlocked"]
  BY <1>1 DEF Tracer, Metric
<1>6. Missing(t) \in Int
  BY <1>4, <1>5 DEF Missing, Metric
<1>7. Missing(u) = Missing(t) + IF metric = "calls" THEN 1 ELSE -1
  BY <1>2, <1>3, <1>4, <1>5 DEF Missing, Metric
<1> QED
  BY <1>2, <1>3, <1>6, <1>7 DEF u
(* A step that leaves the tracer alone, and one that ends a run or not.     *)
LEMMA AnsweredTracer ==
  ASSUME NEW l \in Loop, NEW what, NEW t, Answered(l, what, t), Nested(t), On(t, 2),
         ends \in Seq(End), Raised \in Nat, Missing(t) \in 0..Raised
  PROVE  TracerOK'
<1> DEFINE c == Counting(l, what)
<1>1. c.at = "call" /\ Telling(c).at = "model" /\ NoLoop.at = "idle"
  BY DEF Counting, Telling, Loop, NoLoop
<1> HIDE DEF c
<1>2. CASE loop' = c /\ tracer' = t /\ UNCHANGED ends
  BY <1>1, <1>2 DEF TracerOK, Raised, Depth, Underway
<1>3. CASE /\ loop' = Telling(c) /\ UNCHANGED ends
           /\ tracer' = Opened(Closed(t), "agent.step")
  <2>1. Nested(tracer') /\ On(tracer', 2) /\ Missing(tracer') = Missing(t)
    BY <1>3, NextStepTracer
  <2> QED
    BY <1>1, <1>3, <2>1 DEF TracerOK, Raised, Depth, Underway
<1>4. CASE Finish(Telling(c), "max_steps") /\ tracer' = Unwound(t)
  <2>1. Nested(tracer') /\ On(tracer', 0) /\ Missing(tracer') = Missing(t)
    BY <1>4, UnwoundTracer
  <2>2. loop'.at = "idle" /\ ends' = Append(ends, "max_steps")
    BY <1>1, <1>4 DEF Finish
  <2>3. ends' \in Seq(End) /\ Raised' = Raised
    BY <2>2, RaisedAfter DEF End
  <2> QED
    BY <2>1, <2>2, <2>3 DEF TracerOK, Depth, Underway
<1> QED
  BY <1>2, <1>3, <1>4 DEF Answered, c

LEMMA TracerStep ==
  ASSUME AgentTypeOK, TracerOK, [Next]_vars
  PROVE  TracerOK'
<1>0. /\ loop \in Loop /\ tracer \in Tracer
      /\ Nested(tracer) /\ On(tracer, Depth(loop.at))
      /\ ends \in Seq(End) /\ Raised \in Nat
      /\ Missing(tracer) \in Underway(loop.at)..(Underway(loop.at) + Raised)
      /\ Depth(loop.at) \in 0..3 /\ Underway(loop.at) \in 0..1
  BY DEF AgentTypeOK, LoopOK, TracerOK, Nested, Depth, Underway
<1>1. ASSUME UNCHANGED <<tracer, ends>>,
             Depth(loop'.at) = Depth(loop.at), Underway(loop'.at) = Underway(loop.at)
      PROVE  TracerOK'
  BY <1>1 DEF TracerOK, Raised
<1>2. CASE UNCHANGED vars
  BY <1>1, <1>2 DEF vars
<1>3. ASSUME NEW initial \in {<<>>, result.transcript}, Start(initial) PROVE TracerOK'
  <2> DEFINE t == Opened(tracer, Level(0 + 1))
             u == Opened(t, Level(1 + 1))
  <2>1. /\ loop.at = "idle" /\ loop'.at = "model" /\ UNCHANGED ends
        /\ tracer' = Opened(Opened(tracer, "agent.run"), "agent.step")
    BY <1>3 DEF Start, NoLoop
  <2>2. On(tracer, 0)
    BY <1>0, <2>1 DEF Depth
  <2>3. Nested(t) /\ On(t, 0 + 1) /\ (\A m \in Metric : t[m] = tracer[m]) /\ Tools(t) = Tools(tracer)
    <3>1. Tools(tracer) \in Nat
      BY <1>0, <2>2, OpenedTracer
    <3> QED
      BY <1>0, <2>2, <3>1, OpenedTracer
  <2>4. tracer' = u
    BY <2>1 DEF Level
  <2> HIDE DEF t
  <2>5. t \in Tracer /\ On(t, 1)
    BY <2>3 DEF Nested
  <2>6. Nested(u) /\ On(u, 1 + 1) /\ (\A m \in Metric : u[m] = t[m]) /\ Tools(u) = Tools(t)
    <3>1. Tools(t) \in Nat
      BY <2>3, <2>5, OpenedTracer
    <3> QED
      BY <2>3, <2>5, <3>1, OpenedTracer
  <2> HIDE DEF u
  <2>7. Missing(u) = Missing(tracer)
    BY <2>3, <2>6 DEF Missing, Metric
  <2>8. On(u, 2)
    BY <2>6
  <2> QED
    BY <1>0, <2>1, <2>4, <2>6, <2>7, <2>8 DEF TracerOK, Raised, Depth, Underway
<1>4. ASSUME NEW reply \in Replies, Reply(reply) PROVE TracerOK'
  <2>1. loop.at = "model" /\ On(tracer, 2) /\ Missing(tracer) \in 0..Raised
    BY <1>0, <1>4 DEF Reply, Depth, Underway
  <2> DEFINE msg == Assistant(reply)
             l == [loop EXCEPT !.transcript = Append(@, msg), !.step = @ + 1]
  <2>2. CASE Finish(l, "end_turn") /\ tracer' = Unwound(tracer)
    <3>1. Nested(tracer') /\ On(tracer', 0) /\ Missing(tracer') = Missing(tracer)
      BY <1>0, <2>1, <2>2, UnwoundTracer
    <3>2. loop'.at = "idle" /\ ends' = Append(ends, "end_turn")
      BY <2>2 DEF Finish, NoLoop
    <3>3. ends' \in Seq(End) /\ Raised' = Raised
      BY <1>0, <3>2, RaisedAfter DEF End
    <3> QED
      BY <2>1, <3>1, <3>2, <3>3 DEF TracerOK, Depth, Underway
  <2>3. CASE loop' = [l EXCEPT !.at = "call", !.results = <<>>] /\ UNCHANGED <<ends, tracer>>
    <3>1. loop'.at = "call"
      BY <1>0, <2>3 DEF Loop
    <3> QED
      BY <1>1, <2>1, <2>3, <3>1 DEF Depth, Underway
  <2> QED
    BY <1>4, <2>2, <2>3 DEF Reply
<1>5. CASE Raise
  <2>1. /\ loop.at \in {"model", "approve", "pre", "post"} /\ loop'.at = "idle"
        /\ ends' = Append(ends, "raised") /\ tracer' = Unwound(tracer)
    BY <1>5 DEF Raise, NoLoop
  <2>2. On(tracer, 2)
    BY <1>0, <2>1 DEF Depth
  <2>3. Nested(tracer') /\ On(tracer', 0) /\ Missing(tracer') = Missing(tracer)
    BY <1>0, <2>1, <2>2, UnwoundTracer
  <2>4. ends' \in Seq(End) /\ Raised' = Raised + 1
    BY <1>0, <2>1, RaisedAfter DEF End
  <2>5. Missing(tracer) \in 0..Raised + 1
    BY <1>0
  <2> QED
    BY <1>0, <2>1, <2>3, <2>4, <2>5 DEF TracerOK, Depth, Underway
<1>6. CASE Decide
  <2> DEFINE t == Counted(tracer, "calls")
             u == Counted(t, "denied")
  <2>1. loop.at = "call" /\ On(tracer, 2) /\ Missing(tracer) \in 0..Raised
    BY <1>0, <1>6 DEF Decide, Depth, Underway
  <2>2. Nested(t) /\ On(t, 2) /\ Missing(t) = Missing(tracer) + 1
    BY <1>0, <2>1, MissingCounted DEF Metric
  <2> HIDE DEF t
  <2>3. Nested(u) /\ On(u, 2) /\ Missing(u) = Missing(t) - 1
    BY <2>2, MissingCounted DEF Metric
  <2> HIDE DEF u
  <2>4. Looked \in Loop /\ Looked.at = "call"
    BY <2>1, LookedType
  <2>5. \/ Answered(Looked, "refused", u)
        \/ \E place \in {"approve", "pre"} :
             loop' = [Looked EXCEPT !.at = place] /\ tracer' = t /\ UNCHANGED ends
    BY <1>6, DecisionIs DEF Decide, Looked, t, u
  <2>6. CASE Answered(Looked, "refused", u)
    <3>1. Missing(u) = Missing(tracer) /\ Missing(u) \in 0..Raised
      BY <2>1, <2>2, <2>3
    <3> QED
      BY <1>0, <2>3, <2>4, <2>6, <3>1, AnsweredTracer
  <2>7. ASSUME NEW place \in {"approve", "pre"}, loop' = [Looked EXCEPT !.at = place],
               tracer' = t, UNCHANGED ends
        PROVE  TracerOK'
    <3>1. loop'.at = place
      BY <2>4, <2>7 DEF Loop
    <3>2. Missing(t) \in 1..1 + Raised
      BY <1>0, <2>1, <2>2
    <3> QED
      BY <1>0, <2>2, <2>7, <3>1, <3>2 DEF TracerOK, Raised, Depth, Underway
  <2> QED
    BY <2>5, <2>6, <2>7
<1>7. CASE Approve
  <2>1. loop.at = "approve" /\ loop'.at = "pre" /\ UNCHANGED <<tracer, ends>>
    BY <1>0, <1>7 DEF Approve, Goto, Loop
  <2> QED
    BY <1>1, <2>1 DEF Depth, Underway
<1>8. CASE Reject
  <2> DEFINE t == Counted(tracer, "rejected")
  <2>1. loop.at = "approve" /\ On(tracer, 2) /\ Missing(tracer) \in 1..1 + Raised
    BY <1>0, <1>8 DEF Reject, Depth, Underway
  <2>2. Nested(t) /\ On(t, 2) /\ Missing(t) = Missing(tracer) - 1
    BY <1>0, <2>1, MissingCounted DEF Metric
  <2>3. Answered(loop, "refused", t)
    BY <1>8 DEF Reject
  <2> HIDE DEF t
  <2>4. Missing(t) \in 0..Raised
    BY <1>0, <2>1, <2>2
  <2> QED
    BY <1>0, <2>2, <2>3, <2>4, AnsweredTracer
<1>9. CASE NextHook
  <2>1. loop'.at = loop.at /\ UNCHANGED <<tracer, ends>>
    BY <1>0, <1>9 DEF NextHook, Loop
  <2> QED
    BY <1>1, <2>1
<1>10. CASE Block
  <2> DEFINE t == Counted(tracer, "hookBlocked")
  <2>1. loop.at = "pre" /\ On(tracer, 2) /\ Missing(tracer) \in 1..1 + Raised
    BY <1>0, <1>10 DEF Block, Depth, Underway
  <2>2. Nested(t) /\ On(t, 2) /\ Missing(t) = Missing(tracer) - 1
    BY <1>0, <2>1, MissingCounted DEF Metric
  <2>3. Answered(loop, "refused", t)
    BY <1>10 DEF Block
  <2> HIDE DEF t
  <2>4. Missing(t) \in 0..Raised
    BY <1>0, <2>1, <2>2
  <2> QED
    BY <1>0, <2>2, <2>3, <2>4, AnsweredTracer
<1>11. CASE HooksPassed
  <2>1. /\ loop.at = "pre" /\ loop'.at = "tool" /\ UNCHANGED ends
        /\ tracer' = Opened(tracer, "tool")
    BY <1>0, <1>11 DEF HooksPassed, Goto, Loop
  <2>2. On(tracer, 2) /\ Missing(tracer) \in 1..1 + Raised
    BY <1>0, <2>1 DEF Depth, Underway
  <2> DEFINE t == Opened(tracer, Level(2 + 1))
  <2>3. /\ Nested(t) /\ On(t, 2 + 1) /\ \A m \in Metric : t[m] = tracer[m]
        /\ Tools(t) = Tools(tracer) + 1 /\ Tools(tracer) \in Nat
    BY <1>0, <2>2, OpenedTracer
  <2>4. tracer' = t
    BY <2>1 DEF Level
  <2> HIDE DEF t
  <2>5. Missing(t) = Missing(tracer) - 1
    <3>1. \A m \in Metric : tracer[m] \in Nat
      BY <1>0 DEF Tracer, Metric
    <3> QED
      BY <2>3, <3>1 DEF Missing, Metric
  <2>6. Missing(t) \in 0..Raised /\ On(t, 3)
    BY <1>0, <2>2, <2>3, <2>5
  <2> QED
    BY <1>0, <2>1, <2>3, <2>4, <2>6 DEF TracerOK, Raised, Depth, Underway
<1>12. ASSUME NEW what \in Outcomes \cup {"failed"}, Execute(what) PROVE TracerOK'
  <2>1. loop.at = "tool" /\ loop'.at = "post" /\ tracer' = Closed(tracer) /\ UNCHANGED ends
    BY <1>0, <1>12 DEF Execute, Goto, Loop
  <2>2. On(tracer, 2 + 1) /\ Missing(tracer) \in 0..Raised
    BY <1>0, <2>1 DEF Depth, Underway
  <2> DEFINE t == Closed(tracer)
  <2>3. Nested(t) /\ On(t, 2) /\ (\A m \in Metric : t[m] = tracer[m]) /\ Tools(t) = Tools(tracer)
    BY <1>0, <2>2, ClosedTracer
  <2> HIDE DEF t
  <2>4. Missing(t) = Missing(tracer) /\ tracer' = t
    BY <2>1, <2>3 DEF Missing, Metric, t
  <2> QED
    BY <1>0, <2>1, <2>2, <2>3, <2>4 DEF TracerOK, Raised, Depth, Underway
<1>13. ASSUME NEW blames \in BOOLEAN, Observe(blames) PROVE TracerOK'
  <2> DEFINE what == IF blames /\ loop.what = "failed" THEN "blames" ELSE loop.what
  <2>1. loop.at = "post" /\ Answered(loop, what, tracer)
    BY <1>13 DEF Observe
  <2>2. On(tracer, 2) /\ Missing(tracer) \in 0..Raised
    BY <1>0, <2>1 DEF Depth, Underway
  <2> HIDE DEF what
  <2> QED
    BY <1>0, <2>1, <2>2, AnsweredTracer
<1>14. ASSUME NEW n \in Name, NEW t \in Tool, Register(n, t) PROVE TracerOK'
  BY <1>1, <1>14 DEF Register
<1>15. ASSUME NEW n \in Name, Unregister(n) PROVE TracerOK'
  BY <1>1, <1>15 DEF Unregister
<1> QED
  BY <1>2, <1>3, <1>4, <1>5, <1>6, <1>7, <1>8, <1>9, <1>10, <1>11, <1>12, <1>13,
     <1>14, <1>15 DEF Next, Step
-----------------------------------------------------------------------------
(* The counts of a result.                                                  *)
Every == {"ok", "failed", "blames", "refused"}
Blocking == {"blames", "refused"}
Given(l) == IF l.at \in Busy THEN l.results ELSE <<>>

(* A run's counts are those of its transcript and of the results that it    *)
(* has yet to tell, with the call under way.                                *)
CountsOK(l) ==
  l.at # "idle" =>
    /\ l.count = Results(l.transcript, Every) + Len(Given(l))
                   + (IF l.at \in {"approve", "pre", "tool", "post"} THEN 1 ELSE 0)
    /\ l.blocked = Results(l.transcript, Blocking) + Cardinality(Of(Given(l), Blocking))
ResultCounts(r) ==
  r.transcript # <<>> =>
    /\ r.count = Results(r.transcript, Every)
    /\ r.blocked = Results(r.transcript, Blocking)
ResultsOK == CountsOK(loop) /\ ResultCounts(result)

(* How many results of a kind there are with another one.                   *)
LEMMA OfAnswers ==
  ASSUME NEW rs \in Seq(Answer), NEW K
  PROVE  /\ IsFiniteSet(Of(rs, K)) /\ Cardinality(Of(rs, K)) \in Nat
         /\ Cardinality(Of(<<>>, K)) = 0
         /\ Every \subseteq K => Cardinality(Of(rs, K)) = Len(rs)
<1>1. DOMAIN rs = 1..Len(rs) /\ Len(rs) \in Nat
  OBVIOUS
<1>2. IsFiniteSet(1..Len(rs)) /\ Cardinality(1..Len(rs)) = Len(rs)
  BY <1>1, FS_Interval
<1>3. IsFiniteSet(Of(rs, K))
  BY <1>1, <1>2, FS_Subset DEF Of
<1>4. Cardinality(Of(rs, K)) \in Nat
  BY <1>3, FS_CardinalityType
<1>5. Of(<<>>, K) = {}
  BY DEF Of
<1>6. ASSUME Every \subseteq K PROVE Of(rs, K) = 1..Len(rs)
  <2>1. \A j \in 1..Len(rs) : rs[j] \in Answer
    BY <1>1
  <2>2. \A a \in Answer : a.what \in K
    BY <1>6 DEF Answer, Every
  <2> QED
    BY <1>1, <2>1, <2>2 DEF Of
<1> QED
  BY <1>2, <1>3, <1>4, <1>5, <1>6, FS_EmptySet

LEMMA OfAppend ==
  ASSUME NEW rs \in Seq(Answer), NEW a \in Answer, NEW K
  PROVE  Cardinality(Of(Append(rs, a), K)) =
           Cardinality(Of(rs, K)) + IF a.what \in K THEN 1 ELSE 0
<1> DEFINE T == {b \in Answer : b.what \in K}
<1>1. \A q \in Seq(Answer) : Of(q, K) = Where(q, T)
  BY DEF Of, Where
<1>2. Append(rs, a) \in Seq(Answer)
  OBVIOUS
<1>3. a \in T <=> a.what \in K
  OBVIOUS
<1> HIDE DEF T
<1>4. Cardinality(Where(Append(rs, a), T)) =
        Cardinality(Where(rs, T)) + IF a \in T THEN 1 ELSE 0
  BY CountOfAppend
<1> QED
  BY <1>1, <1>2, <1>3, <1>4

(* The results told since the last task are finitely many.                  *)
Slots(tr, K) == UNION {{i} \X Of(tr[i].results, K) : i \in LastTold(tr)}

LEMMA SlotsFinite ==
  ASSUME NEW tr \in Seq(Message), NEW K
  PROVE  IsFiniteSet(Slots(tr, K)) /\ Results(tr, K) \in Nat
<1> DEFINE f == [i \in LastTold(tr) |-> {i} \X Of(tr[i].results, K)]
           T == {{i} \X Of(tr[i].results, K) : i \in LastTold(tr)}
<1>1. IsFiniteSet(LastTold(tr))
  <2>1. IsFiniteSet(1..Len(tr)) /\ DOMAIN tr = 1..Len(tr)
    BY FS_Interval
  <2> QED
    BY <2>1, FS_Subset DEF LastTold
<1>2. f \in Surjection(LastTold(tr), T)
  BY DEF Surjection
<1>3. \A t \in T : IsFiniteSet(t)
  <2> SUFFICES ASSUME NEW i \in LastTold(tr) PROVE IsFiniteSet({i} \X Of(tr[i].results, K))
    OBVIOUS
  <2>1. tr[i] \in ToolMessage
    BY Kinds DEF LastTold
  <2>2. IsFiniteSet(Of(tr[i].results, K))
    BY <2>1, OfAnswers DEF ToolMessage
  <2>3. IsFiniteSet({i})
    BY FS_Singleton
  <2> QED
    BY <2>2, <2>3, FS_Product
<1> HIDE DEF f, T
<1>4. IsFiniteSet(T)
  BY <1>1, <1>2, FS_Surjection
<1>5. IsFiniteSet(UNION T)
  BY <1>3, <1>4, FS_UNION
<1>6. Slots(tr, K) = UNION T
  BY DEF Slots, T
<1> QED
  BY <1>5, <1>6, FS_CardinalityType DEF Results, Slots

LEMMA ResultsAfter ==
  ASSUME NEW tr \in Seq(Message), NEW m \in Message, NEW K
  PROVE  /\ m \in UserMessage => Results(Append(tr, m), K) = 0
         /\ m \in AssistantMessage => Results(Append(tr, m), K) = Results(tr, K)
         /\ m \in ToolMessage =>
              Results(Append(tr, m), K) = Results(tr, K) + Cardinality(Of(m.results, K))
<1> DEFINE new == Append(tr, m)
           n == Len(tr) + 1
<1>1. /\ Len(tr) \in Nat /\ DOMAIN tr = 1..Len(tr)
      /\ DOMAIN new = 1..n /\ new[n] = m /\ \A i \in 1..Len(tr) : new[i] = tr[i]
  OBVIOUS
<1>2. \A i \in LastTold(tr) : i \in 1..Len(tr)
  BY <1>1 DEF LastTold
<1> HIDE DEF new
<1>3. CASE m \in UserMessage
  <2>1. LastTold(new) = {}
    BY <1>1, <1>3, Kinds DEF LastTold
  <2>2. UNION {{i} \X Of(new[i].results, K) : i \in LastTold(new)} = {}
    BY <2>1
  <2>3. Results(new, K) = 0
    BY <2>2, FS_EmptySet DEF Results
  <2> QED
    BY <1>3, <2>3 DEF new, UserMessage, AssistantMessage, ToolMessage
<1>4. CASE m \in AssistantMessage
  <2>1. m.role \notin {"user", "tool"}
    BY <1>4, Kinds DEF AssistantMessage
  <2>2. LastTold(new) = LastTold(tr)
    BY <1>1, <2>1 DEF LastTold
  <2>3. {{i} \X Of(new[i].results, K) : i \in LastTold(new)}
          = {{i} \X Of(tr[i].results, K) : i \in LastTold(tr)}
    BY <1>1, <1>2, <2>2
  <2>4. Results(new, K) = Results(tr, K)
    BY <2>3 DEF Results
  <2> QED
    BY <1>4, <2>4 DEF new, UserMessage, AssistantMessage, ToolMessage
<1>5. CASE m \in ToolMessage
  <2> DEFINE R == {n} \X Of(m.results, K)
  <2>1. m.role = "tool"
    BY <1>5 DEF ToolMessage
  <2>2. LastTold(new) = LastTold(tr) \cup {n}
    BY <1>1, <2>1 DEF LastTold
  <2>3. Slots(new, K) = Slots(tr, K) \cup R
    <3>1. {{i} \X Of(new[i].results, K) : i \in LastTold(new)}
            = {{i} \X Of(tr[i].results, K) : i \in LastTold(tr)} \cup {R}
      BY <1>1, <1>2, <2>2
    <3> QED
      BY <3>1 DEF Slots
  <2>4. Slots(tr, K) \cap R = {}
    BY <1>1, <1>2 DEF Slots
  <2>5. /\ IsFiniteSet(Of(m.results, K)) /\ IsFiniteSet({n}) /\ Cardinality({n}) = 1
        /\ Cardinality(Of(m.results, K)) \in Nat
    BY <1>5, OfAnswers, FS_Singleton DEF ToolMessage
  <2>6. IsFiniteSet(R) /\ Cardinality(R) = Cardinality(Of(m.results, K))
    <3>1. IsFiniteSet(R) /\ Cardinality(R) = Cardinality({n}) * Cardinality(Of(m.results, K))
      BY <2>5, FS_Product
    <3> QED
      BY <2>5, <3>1
  <2> HIDE DEF R
  <2>7. /\ IsFiniteSet(Slots(tr, K)) /\ Cardinality(Slots(tr, K)) \in Nat
        /\ Cardinality({}) = 0
    BY SlotsFinite, FS_CardinalityType, FS_EmptySet
  <2>8. Cardinality(Slots(new, K)) = Cardinality(Slots(tr, K)) + Cardinality(R)
    <3>1. Cardinality(Slots(tr, K) \cup R) =
            Cardinality(Slots(tr, K)) + Cardinality(R) - Cardinality(Slots(tr, K) \cap R)
      BY <2>6, <2>7, FS_Union
    <3>2. Cardinality(Slots(tr, K) \cap R) = 0
      BY <2>4, <2>7
    <3>3. Cardinality(R) \in Nat /\ Cardinality(Slots(tr, K)) \in Nat
      BY <2>5, <2>6, <2>7
    <3> QED
      BY <2>3, <3>1, <3>2, <3>3
  <2>9. Results(new, K) = Results(tr, K) + Cardinality(Of(m.results, K))
    BY <2>6, <2>8 DEF Results, Slots
  <2> QED
    BY <1>5, <2>9 DEF new, UserMessage, AssistantMessage, ToolMessage
<1> QED
  BY <1>3, <1>4, <1>5, Kinds DEF new, UserMessage, AssistantMessage, ToolMessage

(* A call's answer keeps the counts, and so does telling the results.       *)
LEMMA AnsweredCounts ==
  ASSUME AgentTypeOK, loop.at \in Busy, NEW l \in Loop, l.at \in Busy,
         l.transcript = loop.transcript, l.results = loop.results,
         l.count = Results(l.transcript, Every) + Len(l.results) + 1,
         l.blocked = Results(l.transcript, Blocking) + Cardinality(Of(l.results, Blocking)),
         ResultCounts(result),
         NEW what \in {"refused", "ok", "failed", "blames"}, NEW t, Answered(l, what, t)
  PROVE  ResultsOK'
<1> DEFINE a == [id |-> Call.id, what |-> what]
           c == Counting(l, what)
           tr == loop.transcript
           m == [role |-> "tool", results |-> c.results]
           n == Telling(c)
<1>1. /\ c \in Loop /\ c.at = "call" /\ c.transcript = tr
      /\ c.results = Append(l.results, a) /\ Len(c.results) = Len(l.results) + 1
  BY CountingType
<1>2. /\ a \in Answer /\ a.what = what
      /\ l.results \in Seq(Answer) /\ tr \in Seq(Message) /\ Len(l.results) \in Nat
  BY CallIsUse DEF Answer, Use, Loop
<1>3. /\ c.count = l.count
      /\ c.blocked = l.blocked + IF what \in Blocking THEN 1 ELSE 0
  BY DEF Counting, Loop, Blocking
<1>4. /\ n \in Loop /\ n.at = "model" /\ m \in ToolMessage /\ n.transcript = Append(tr, m)
  BY <1>1, TellingType
<1>5. n.count = c.count /\ n.blocked = c.blocked /\ m.results = c.results
  BY <1>1 DEF Telling, Loop
<1> HIDE DEF a, c, tr, m, n
<1>6. /\ Results(tr, Every) \in Nat /\ Results(tr, Blocking) \in Nat
      /\ Cardinality(Of(l.results, Blocking)) \in Nat
      /\ Cardinality(Of(<<>>, Blocking)) = 0 /\ Len(<<>>) = 0
  BY <1>2, SlotsFinite, OfAnswers
<1>7. /\ c.count = Results(tr, Every) + Len(c.results)
      /\ c.blocked = Results(tr, Blocking) + Cardinality(Of(c.results, Blocking))
  <2>1. Cardinality(Of(c.results, Blocking)) =
          Cardinality(Of(l.results, Blocking)) + IF what \in Blocking THEN 1 ELSE 0
    BY <1>1, <1>2, OfAppend
  <2>2. l.transcript = tr
    BY DEF tr
  <2>3. c.count = Results(tr, Every) + Len(c.results)
    BY <1>1, <1>2, <1>3, <1>6, <2>2
  <2>4. CASE what \in Blocking
    BY <1>3, <1>6, <2>1, <2>2, <2>3, <2>4
  <2>5. CASE what \notin Blocking
    BY <1>3, <1>6, <2>1, <2>2, <2>3, <2>5
  <2> QED
    BY <2>4, <2>5
<1>8. n.count = Results(n.transcript, Every) /\ n.blocked = Results(n.transcript, Blocking)
  <2>1. c.results \in Seq(Answer) /\ m \in Message
    BY <1>1, <1>4 DEF Loop, Message
  <2>2. Cardinality(Of(c.results, Every)) = Len(c.results)
    BY <2>1, OfAnswers
  <2> QED
    BY <1>2, <1>4, <1>5, <1>7, <2>1, <2>2, ResultsAfter
<1>9. CASE loop' = c /\ UNCHANGED result
  <2>1. Given(c) = c.results /\ c.at \in Busy /\ Len(c.results) \in Nat
    BY <1>1 DEF Given, Busy, Loop
  <2>2. CountsOK(c)
    BY <1>1, <1>6, <1>7, <2>1 DEF CountsOK
  <2>3. ResultCounts(result)'
    BY <1>9 DEF ResultCounts
  <2> QED
    BY <1>9, <2>2, <2>3 DEF ResultsOK
<1>10. CASE loop' = n /\ UNCHANGED result
  <2>1. Given(n) = <<>>
    BY <1>4 DEF Given, Busy
  <2>2. n.count \in Nat /\ n.blocked \in Nat
    BY <1>4 DEF Loop
  <2>3. CountsOK(n)
    BY <1>4, <1>6, <1>8, <2>1, <2>2 DEF CountsOK
  <2> QED
    BY <1>10, <2>3 DEF ResultsOK
<1>11. CASE Finish(n, "max_steps")
  <2>1. loop'.at = "idle" /\ ResultCounts(result')
    BY <1>8, <1>11 DEF Finish, NoLoop, ResultCounts
  <2> QED
    BY <2>1 DEF ResultsOK, CountsOK
<1> QED
  BY <1>9, <1>10, <1>11 DEF Answered, c, n

LEMMA ResultsStep ==
  ASSUME AgentTypeOK, ResultsOK, [Next]_vars
  PROVE  ResultsOK'
<1> DEFINE waiting(l) == IF l.at \in {"approve", "pre", "tool", "post"} THEN 1 ELSE 0
<1>0. loop \in Loop /\ CountsOK(loop) /\ ResultCounts(result)
  BY DEF AgentTypeOK, LoopOK, ResultsOK
<1>1. ASSUME UNCHANGED result, loop'.transcript = loop.transcript,
             loop'.results = loop.results, loop'.count = loop.count,
             loop'.blocked = loop.blocked,
             \/ loop'.at = loop.at
             \/ loop.at \in {"approve", "pre", "tool"} /\ loop'.at \in {"pre", "tool", "post"}
      PROVE  ResultsOK'
  BY <1>0, <1>1 DEF ResultsOK, CountsOK, Given, Busy
<1>2. ASSUME loop.at \in {"approve", "pre", "post"}, NEW t,
             NEW what \in {"refused", "ok", "failed", "blames"}, Answered(loop, what, t)
      PROVE  ResultsOK'
  <2>1. loop.at \in Busy /\ Given(loop) = loop.results
    BY <1>2 DEF Given, Busy
  <2>2. /\ loop.count = Results(loop.transcript, Every) + Len(loop.results) + 1
        /\ loop.blocked = Results(loop.transcript, Blocking)
                            + Cardinality(Of(loop.results, Blocking))
    BY <1>0, <1>2, <2>1 DEF CountsOK
  <2> QED
    BY <1>0, <1>2, <2>1, <2>2, AnsweredCounts
<1>3. CASE UNCHANGED vars
  BY <1>1, <1>3 DEF vars
<1>4. ASSUME NEW initial \in {<<>>, result.transcript}, Start(initial) PROVE ResultsOK'
  <2> DEFINE tr == Prepared(initial)
  <2>1. initial \in Seq(Message)
    <3>1. <<>> \in Seq(Message)
      OBVIOUS
    <3> QED
      BY <3>1 DEF AgentTypeOK, ResultOK, Result
  <2>2. tr \in Seq(Message) /\ User \in Message /\ User \in UserMessage
    BY <2>1, PreparedType DEF User, UserMessage, Message
  <2>3. /\ loop'.at = "model" /\ loop'.transcript = Append(tr, User)
        /\ loop'.count = 0 /\ loop'.blocked = 0 /\ result' = result
    BY <1>4 DEF Start, NoLoop
  <2> HIDE DEF tr
  <2>4. Results(Append(tr, User), Every) = 0 /\ Results(Append(tr, User), Blocking) = 0
    BY <2>2, ResultsAfter
  <2>5. Given(loop') = <<>> /\ Len(<<>>) = 0 /\ Cardinality(Of(<<>>, Blocking)) = 0
    <3>1. <<>> \in Seq(Answer)
      OBVIOUS
    <3> QED
      BY <2>3, <3>1, OfAnswers DEF Given, Busy
  <2>6. CountsOK(loop')
    BY <2>3, <2>4, <2>5 DEF CountsOK
  <2> QED
    BY <1>0, <2>3, <2>6 DEF ResultsOK
<1>5. ASSUME NEW reply \in Replies, Reply(reply) PROVE ResultsOK'
  <2> DEFINE msg == Assistant(reply)
             l == [loop EXCEPT !.transcript = Append(@, msg), !.step = @ + 1]
             tr == loop.transcript
  <2>1. loop.at = "model" /\ tr \in Seq(Message)
    BY <1>0, <1>5 DEF Reply, Loop
  <2>2. msg \in AssistantMessage /\ msg \in Message
    BY AssistantType DEF Message
  <2>3. Results(Append(tr, msg), Every) = Results(tr, Every)
        /\ Results(Append(tr, msg), Blocking) = Results(tr, Blocking)
    BY <2>1, <2>2, ResultsAfter
  <2>4. /\ Len(<<>>) = 0 /\ Cardinality(Of(<<>>, Blocking)) = 0
        /\ Results(tr, Every) \in Nat /\ Results(tr, Blocking) \in Nat
    <3>1. <<>> \in Seq(Answer)
      OBVIOUS
    <3> QED
      BY <2>1, <3>1, OfAnswers, SlotsFinite
  <2>5. loop.count = Results(tr, Every) /\ loop.blocked = Results(tr, Blocking)
    BY <1>0, <2>1, <2>4 DEF CountsOK, Given, Busy
  <2>6. l.count = loop.count /\ l.blocked = loop.blocked /\ l.transcript = Append(tr, msg)
    BY <1>0 DEF Loop
  <2> HIDE DEF msg
  <2>7. CASE Finish(l, "end_turn")
    <3>1. loop'.at = "idle" /\ ResultCounts(result')
      BY <2>3, <2>5, <2>6, <2>7 DEF Finish, NoLoop, ResultCounts
    <3> QED
      BY <3>1 DEF ResultsOK, CountsOK
  <2>8. CASE loop' = [l EXCEPT !.at = "call", !.results = <<>>] /\ UNCHANGED result
    <3>1. /\ loop'.at = "call" /\ loop'.results = <<>> /\ loop'.count = loop.count
          /\ loop'.blocked = loop.blocked /\ loop'.transcript = Append(tr, msg)
      BY <1>0, <2>8 DEF Loop
    <3>2. CountsOK(loop')
      BY <2>3, <2>4, <2>5, <3>1 DEF CountsOK, Given, Busy
    <3> QED
      BY <1>0, <2>8, <3>2 DEF ResultsOK
  <2> QED
    BY <1>5, <2>7, <2>8 DEF Reply, msg
<1>6. CASE Raise
  <2>1. loop'.at = "idle" /\ result' = result
    BY <1>6 DEF Raise, NoLoop
  <2> QED
    BY <1>0, <2>1 DEF ResultsOK, CountsOK
<1>7. CASE Decide
  <2>1. loop.at = "call" /\ loop.at \in Busy /\ Given(loop) = loop.results
    BY <1>7 DEF Decide, Busy, Given
  <2>2. /\ Looked \in Loop /\ Looked.at = "call" /\ Looked.transcript = loop.transcript
        /\ Looked.results = loop.results
    BY <2>1, LookedType
  <2>3. Looked.count = loop.count + 1 /\ Looked.blocked = loop.blocked
    BY <1>0 DEF Looked, Loop
  <2>4. /\ Results(loop.transcript, Every) \in Nat /\ Len(loop.results) \in Nat
        /\ loop.count = Results(loop.transcript, Every) + Len(loop.results)
        /\ loop.blocked = Results(loop.transcript, Blocking)
                            + Cardinality(Of(loop.results, Blocking))
    <3>1. Results(loop.transcript, Every) \in Nat /\ Len(loop.results) \in Nat
      BY <1>0, SlotsFinite DEF Loop
    <3> QED
      BY <1>0, <2>1, <3>1 DEF CountsOK
  <2>5. /\ Looked.count = Results(Looked.transcript, Every) + Len(Looked.results) + 1
        /\ Looked.blocked = Results(Looked.transcript, Blocking)
                              + Cardinality(Of(Looked.results, Blocking))
    BY <2>2, <2>3, <2>4
  <2>6. \/ Answered(Looked, "refused", Counted(Counted(tracer, "calls"), "denied"))
        \/ \E place \in {"approve", "pre"} :
             loop' = [Looked EXCEPT !.at = place] /\ UNCHANGED result
    BY <1>7, DecisionIs DEF Decide, Looked
  <2>7. CASE Answered(Looked, "refused", Counted(Counted(tracer, "calls"), "denied"))
    BY <1>0, <2>1, <2>2, <2>5, <2>7, AnsweredCounts
  <2>8. ASSUME NEW place \in {"approve", "pre"}, loop' = [Looked EXCEPT !.at = place],
               UNCHANGED result
        PROVE  ResultsOK'
    <3>1. /\ loop'.at = place /\ loop'.results = Looked.results
          /\ loop'.transcript = Looked.transcript /\ loop'.count = Looked.count
          /\ loop'.blocked = Looked.blocked
      BY <2>2, <2>8 DEF Loop
    <3>2. CountsOK(loop')
      BY <2>5, <3>1 DEF CountsOK, Given, Busy
    <3> QED
      BY <1>0, <2>8, <3>2 DEF ResultsOK
  <2> QED
    BY <2>6, <2>7, <2>8
<1>8. CASE Approve
  BY <1>0, <1>1, <1>8 DEF Approve, Goto, Loop
<1>9. CASE Reject
  BY <1>2, <1>9 DEF Reject
<1>10. CASE NextHook
  BY <1>0, <1>1, <1>10 DEF NextHook, Loop
<1>11. CASE Block
  BY <1>2, <1>11 DEF Block
<1>12. CASE HooksPassed
  BY <1>0, <1>1, <1>12 DEF HooksPassed, Goto, Loop
<1>13. ASSUME NEW what \in Outcomes \cup {"failed"}, Execute(what) PROVE ResultsOK'
  BY <1>0, <1>1, <1>13 DEF Execute, Goto, Loop
<1>14. ASSUME NEW blames \in BOOLEAN, Observe(blames) PROVE ResultsOK'
  <2>1. (IF blames /\ loop.what = "failed" THEN "blames" ELSE loop.what)
           \in {"refused", "ok", "failed", "blames"}
    BY <1>0 DEF Loop
  <2> QED
    BY <1>2, <1>14, <2>1 DEF Observe
<1>15. ASSUME NEW n \in Name, NEW t \in Tool, Register(n, t) PROVE ResultsOK'
  BY <1>1, <1>15 DEF Register
<1>16. ASSUME NEW n \in Name, Unregister(n) PROVE ResultsOK'
  BY <1>1, <1>16 DEF Unregister
<1> QED
  BY <1>3, <1>4, <1>5, <1>6, <1>7, <1>8, <1>9, <1>10, <1>11, <1>12, <1>13, <1>14,
     <1>15, <1>16 DEF Next, Step

(* Before the first run nothing is traced.                                  *)
LEMMA TracerInit == Init => TracerOK
<1> SUFFICES ASSUME Init PROVE TracerOK
  OBVIOUS
<1>1. /\ tracer.stack = <<>> /\ tracer.spans = <<>> /\ loop.at = "idle" /\ ends = <<>>
      /\ tracer.calls = 0 /\ tracer.denied = 0 /\ tracer.rejected = 0
      /\ tracer.hookBlocked = 0
  BY DEF Init, NoLoop
<1>2. tracer \in Tracer
  <2>1. <<>> \in Seq(Span)
    OBVIOUS
  <2> QED
    BY <2>1 DEF Init, Tracer
<1>3. AllSpans(tracer) = {}
  BY <1>1 DEF AllSpans
<1>4. Nested(tracer) /\ On(tracer, 0)
  BY <1>1, <1>2, <1>3 DEF Nested, OwnIds, Parents, On
<1>5. ToolSpans(<<>>) = 0
  <2>1. {i \in DOMAIN <<>> : <<>>[i].kind = "tool"} = {}
    OBVIOUS
  <2> QED
    BY <2>1, FS_EmptySet DEF ToolSpans
<1>6. Missing(tracer) = 0
  BY <1>1, <1>5 DEF Missing, Tools
<1>7. ends \in Seq(End) /\ Raised = 0
  <2>1. {i \in DOMAIN ends : ends[i] = "raised"} = {}
    BY <1>1
  <2> QED
    BY <1>1, <2>1, FS_EmptySet DEF Raised
<1> QED
  BY <1>1, <1>4, <1>6, <1>7 DEF TracerOK, Depth, Underway

(* Spans that are nested are nested in the order they are reported in.      *)
LEMMA NestedSpansNest ==
  ASSUME TracerOK, loop.at \in Place
  PROVE  SpansNest
<1> DEFINE all == tracer.spans \o tracer.stack
           m == Len(tracer.spans)
           n == Len(tracer.stack)
<1>1. /\ tracer.spans \in Seq(Span) /\ tracer.stack \in Seq(Span)
      /\ Nested(tracer) /\ m \in Nat /\ n \in Nat
      /\ DOMAIN tracer.spans = 1..m /\ DOMAIN tracer.stack = 1..n
  BY DEF TracerOK, Nested, Tracer
<1>2. (loop.at = "idle") = (tracer.stack = <<>>)
  <2>1. n = Depth(loop.at)
    BY DEF TracerOK, On
  <2>2. n = 0 <=> loop.at = "idle"
    BY <2>1 DEF Depth
  <2>3. n = 0 <=> tracer.stack = <<>>
    BY <1>1
  <2> QED
    BY <2>2, <2>3
<1>3. /\ DOMAIN all = 1..m + n
      /\ \A i \in 1..m : all[i] = tracer.spans[i]
      /\ \A i \in m + 1..m + n : all[i] = tracer.stack[i - m] /\ i - m \in 1..n
  <2>1. /\ all \in Seq(Span) /\ Len(all) = m + n
        /\ \A i \in 1..m + n :
             all[i] = IF i <= m THEN tracer.spans[i] ELSE tracer.stack[i - m]
    BY <1>1, ConcatProperties
  <2>2. DOMAIN all = 1..m + n
    BY <2>1
  <2> HIDE DEF all, m, n
  <2>3. ASSUME NEW i \in 1..m PROVE all[i] = tracer.spans[i]
    BY <1>1, <2>1
  <2>4. ASSUME NEW i \in m + 1..m + n PROVE all[i] = tracer.stack[i - m] /\ i - m \in 1..n
    BY <1>1, <2>1
  <2> QED
    BY <2>2, <2>3, <2>4
<1> HIDE DEF all, m, n
<1>4. \A x : x \in AllSpans(tracer) <=> \E i \in DOMAIN all : all[i] = x
  <2> SUFFICES ASSUME NEW x PROVE x \in AllSpans(tracer) <=> \E i \in DOMAIN all : all[i] = x
    OBVIOUS
  <2>1. ASSUME NEW i \in 1..m, x = tracer.spans[i] PROVE \E k \in DOMAIN all : all[k] = x
    BY <1>1, <1>3, <2>1
  <2>2. ASSUME NEW i \in 1..n, x = tracer.stack[i] PROVE \E k \in DOMAIN all : all[k] = x
    <3>1. m + i \in m + 1..m + n /\ (m + i) - m = i /\ m + i \in DOMAIN all
      BY <1>1, <1>3
    <3> QED
      BY <1>3, <2>2, <3>1
  <2>3. ASSUME NEW i \in DOMAIN all, all[i] = x PROVE x \in AllSpans(tracer)
    <3>1. i \in 1..m \/ i \in m + 1..m + n
      BY <1>1, <1>3
    <3> QED
      BY <1>1, <1>3, <2>3, <3>1 DEF AllSpans
  <2> QED
    BY <1>1, <2>1, <2>2, <2>3 DEF AllSpans
<1>5. ASSUME NEW i \in DOMAIN all, NEW j \in DOMAIN all, i # j
      PROVE  all[i].id # all[j].id
  <2>1. (i \in 1..m \/ i \in m + 1..m + n) /\ (j \in 1..m \/ j \in m + 1..m + n)
    BY <1>1, <1>3
  <2>0. OwnIds(tracer)
    BY <1>1 DEF Nested
  <2>2. CASE i \in 1..m /\ j \in 1..m
    BY <1>1, <1>3, <1>5, <2>0, <2>2 DEF OwnIds
  <2>3. CASE i \in 1..m /\ j \in m + 1..m + n
    <3>1. all[i] = tracer.spans[i] /\ all[j] = tracer.stack[j - m] /\ j - m \in 1..n
      BY <1>3, <2>3
    <3> QED
      BY <1>1, <2>0, <2>3, <3>1 DEF OwnIds
  <2>4. CASE i \in m + 1..m + n /\ j \in 1..m
    <3>1. all[j] = tracer.spans[j] /\ all[i] = tracer.stack[i - m] /\ i - m \in 1..n
      BY <1>3, <2>4
    <3> QED
      BY <1>1, <2>0, <2>4, <3>1 DEF OwnIds
  <2>5. CASE i \in m + 1..m + n /\ j \in m + 1..m + n
    <3>1. i - m # j - m
      BY <1>1, <1>5, <2>5
    <3>2. /\ all[i] = tracer.stack[i - m] /\ i - m \in 1..n
          /\ all[j] = tracer.stack[j - m] /\ j - m \in 1..n
      BY <1>3, <2>5
    <3> QED
      BY <1>1, <2>0, <3>1, <3>2 DEF OwnIds
  <2> QED
    BY <2>1, <2>2, <2>3, <2>4, <2>5
<1>6. ASSUME NEW i \in DOMAIN all
      PROVE  CASE all[i].kind = "agent.run" -> all[i].parent = 0
               [] all[i].kind = "agent.step" ->
                    \E j \in DOMAIN all : all[j].id = all[i].parent /\ all[j].kind = "agent.run"
               [] all[i].kind = "tool" ->
                    \E j \in DOMAIN all : all[j].id = all[i].parent /\ all[j].kind = "agent.step"
  <2> DEFINE x == all[i]
  <2>1. x \in AllSpans(tracer)
    BY <1>4
  <2>2. x.kind \in {"agent.run", "agent.step", "tool"}
    <3>1. x \in Span
      BY <1>1, <2>1 DEF AllSpans
    <3> HIDE DEF x
    <3> QED
      BY <3>1 DEF Span, SpanKind
  <2>3. /\ x.kind = "agent.run" => x.parent = 0
        /\ x.kind = "agent.step" => Within(x, "agent.run", tracer)
        /\ x.kind = "tool" => Within(x, "agent.step", tracer)
    BY <1>1, <2>1 DEF Nested, Parents
  <2> HIDE DEF x
  <2>4. \A k : Within(x, k, tracer) => \E j \in DOMAIN all : all[j].id = x.parent /\ all[j].kind = k
    BY <1>4 DEF Within
  <2>5. CASE x.kind = "agent.run"
    BY <2>3, <2>5 DEF x
  <2>6. CASE x.kind = "agent.step"
    BY <2>3, <2>4, <2>6 DEF x
  <2>7. CASE x.kind = "tool"
    BY <2>3, <2>4, <2>7 DEF x
  <2> QED
    BY <2>2, <2>5, <2>6, <2>7
<1> QED
  BY <1>2, <1>5, <1>6 DEF SpansNest, all

(* Whatever the model, the approver, the hooks and the tools do, and        *)
(* whichever of them raises, the spans nest, each call counted is accounted *)
(* for, and the counts of a result are those of its transcript.             *)
THEOREM TracerIsConsistent == Spec => []TracerConsistent
<1>1. Init => ResultsOK
  BY DEF Init, ResultsOK, CountsOK, ResultCounts, NoLoop
<1>2. AgentTypeOK /\ ResultsOK /\ [Next]_vars => ResultsOK'
  BY ResultsStep
<1>3. AgentTypeOK /\ TracerOK /\ [Next]_vars => TracerOK'
  BY TracerStep
<1>4. AgentTypeOK /\ TracerOK /\ ResultsOK => TracerConsistent
  <2> SUFFICES ASSUME AgentTypeOK, TracerOK, ResultsOK PROVE TracerConsistent
    OBVIOUS
  <2>1. SpansNest
    BY NestedSpansNest DEF AgentTypeOK, LoopOK, Loop
  <2>2. Missing(tracer) \in Underway(loop.at)..(Underway(loop.at) + Raised)
    BY DEF TracerOK
  <2>3. ResultCounts(result)
    BY DEF ResultsOK
  <2> QED
    BY <2>1, <2>2, <2>3
       DEF TracerConsistent, Missing, Tools, Underway, ResultCounts, Every, Blocking
<1> QED
  BY <1>1, <1>2, <1>3, <1>4, TracerInit, AgentTypeCorrect, PTL DEF Spec
=============================================================================
