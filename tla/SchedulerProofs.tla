--------------------------- MODULE SchedulerProofs ---------------------------
(* Theorems about Scheduler, for every value of its constants.             *)
EXTENDS Scheduler, FiniteSetTheorems, SequenceTheorems, TLAPS

-----------------------------------------------------------------------------
(* The token list.                                                         *)

\* Removing an element by its index leaves a sequence over the same set.
LEMMA RemoveAtType ==
  ASSUME NEW S, NEW s \in Seq(S), NEW i \in Nat \ {0}, i <= Len(s)
  PROVE  RemoveAt(s, i) \in Seq(S)
<1>1. \A j \in 1..Len(s) : s[j] \in S
  BY ElementOfSeq
<1>2. Len(s) \in Nat
  BY LenProperties
<1>3. SubSeq(s, 1, i-1) \in Seq(S)
  BY <1>1, <1>2, SubSeqProperties
<1>4. SubSeq(s, i+1, Len(s)) \in Seq(S)
  BY <1>1, <1>2, SubSeqProperties
<1> QED
  BY <1>3, <1>4, ConcatProperties DEF RemoveAt

\* A token that was granted stays granted, and keeps its name.
LEMMA GrantKeepsTokens ==
  ASSUME PermissionTypeOK, NEW o \in Op, NEW kind \in TokenKind, Grant(o, kind)
  PROVE  /\ PermissionTypeOK'
         /\ Len(granted)' = Len(granted) + 1
         /\ \A id \in TokenId : granted'[id] = granted[id]
<1> DEFINE t == [op |-> o, kind |-> kind]
<1>1. t \in Token
  BY DEF Token
<1>2. granted' = Append(granted, t) /\ tokens' = Append(tokens, Len(granted) + 1)
      /\ UNCHANGED <<allows, scan, held>>
  BY DEF Grant
<1>3. /\ granted' \in Seq(Token)
      /\ Len(granted') = Len(granted) + 1
      /\ \A id \in TokenId : granted'[id] = granted[id]
  BY <1>1, <1>2 DEF PermissionTypeOK, TokenId
<1>4. TokenId \subseteq TokenId' /\ Len(granted) + 1 \in TokenId'
  BY <1>3 DEF TokenId, PermissionTypeOK
<1>5. tokens \in Seq(TokenId') /\ allows \in Seq(TokenId')
  BY <1>4, SeqMonotonic DEF PermissionTypeOK
<1>6. tokens' \in Seq(TokenId') /\ allows' \in Seq(TokenId')
  BY <1>2, <1>4, <1>5
<1> QED
  BY <1>2, <1>3, <1>6 DEF PermissionTypeOK

\* The steps of has_token keep the token list a list of granted tokens.
LEMMA HasTokenType ==
  ASSUME PermissionTypeOK, NEW r \in Run, NEW k \in Kind,
         \/ BeginScan(r) \/ PassOver(r, k) \/ AcceptStanding(r, k)
         \/ SeeOnce(r, k) \/ (Pop(r) /\ held[r] \in TokenId)
  PROVE  PermissionTypeOK' /\ granted' = granted
<1> USE DEF PermissionTypeOK, TokenId
<1>1. CASE BeginScan(r)
  BY <1>1 DEF BeginScan
<1>2. CASE PassOver(r, k)
  BY <1>2 DEF PassOver
<1>3. CASE AcceptStanding(r, k)
  <2>1. tokens[scan[r]] \in TokenId
    BY <1>3, ElementOfSeq DEF AcceptStanding, AtToken
  <2> QED
    BY <1>3, <2>1 DEF AcceptStanding
<1>4. CASE SeeOnce(r, k)
  <2>1. tokens[scan[r]] \in TokenId
    BY <1>4, ElementOfSeq DEF SeeOnce, AtToken
  <2> QED
    BY <1>4, <2>1 DEF SeeOnce
<1>5. CASE Pop(r) /\ held[r] \in TokenId
  <2>1. RemoveAt(tokens, scan[r]) \in Seq(TokenId)
    BY <1>5, RemoveAtType DEF Pop, AtToken
  <2> QED
    BY <1>5, <2>1 DEF Pop
<1> QED
  BY <1>1, <1>2, <1>3, <1>4, <1>5

-----------------------------------------------------------------------------
(* Type correctness.                                                       *)

\* Between finding a node ready and deciding it, the thread stays at that
\* node and the node stays ready: no other thread touches this DAG.
AtWork ==
  \A r \in Run : phase[r] \in {"check", "pop", "exec"}
                   => cursor[r] \in Node /\ Ready(r, cursor[r])

\* Between seeing a once token and popping it, the thread holds that token,
\* and the token covers the kind of the node.
HoldsToken ==
  \A r \in Run : phase[r] = "pop"
                   => held[r] \in TokenId /\ Matches(held[r], KindAt(r))

TypeInv == TypeOK /\ AtWork /\ HoldsToken

\* The plan of a run assigns each node a kind, a risk and its dependencies.
LEMMA PlanType ==
  ASSUME TypeOK, NEW r \in Run
  PROVE  /\ plan[r].deps \in [Node -> SUBSET Node]
         /\ plan[r].kind \in [Node -> Kind]
         /\ plan[r].risk \in [Node -> Risk]
BY SchedulerAssumption DEF TypeOK, Plan

LEMMA InitTypeInv == Init => TypeInv
<1> SUFFICES ASSUME Init PROVE TypeInv
  OBVIOUS
<1>1. PermissionTypeOK
  BY DEF Init, PermissionInit, PermissionTypeOK, TokenId
<1>2. (CHOOSE p \in Plans : TRUE) \in Plans
  BY SchedulerAssumption
<1>3. TypeOK
  BY <1>1, <1>2, SchedulerAssumption DEF Init, TypeOK, Status, Outside
<1> QED
  BY <1>3 DEF Init, TypeInv, AtWork, HoldsToken

\* What has changed after a thread has left its node with verdict s.
LEMMA LeaveType ==
  ASSUME TypeInv, NEW r \in Run, NEW s \in Status, cursor[r] \in Node, Leave(r, s)
  PROVE  /\ plan' \in [Run -> Plans]
         /\ status' \in [Run -> [Node -> Status]]
         /\ phase' \in [Run -> Inside \cup Outside]
         /\ cursor' \in [Run -> 1..N+1]
         /\ pass' \in [Run -> Nat \ {0}]
         /\ attempt' \in [Run -> Nat]
         /\ submitted' \in Nat
         /\ submission' \in [Run -> Nat]
<1> USE SchedulerAssumption DEF TypeInv, TypeOK
<1>1. [status[r] EXCEPT ![cursor[r]] = s] \in [Node -> Status]
  OBVIOUS
<1>2. status' = [status EXCEPT ![r] = [status[r] EXCEPT ![cursor[r]] = s]]
  BY DEF Leave
<1>3. cursor[r] + 1 \in 1..N+1
  BY DEF Node
<1>4. cursor' = [cursor EXCEPT ![r] = cursor[r] + 1]
  BY DEF Leave
<1> QED
  BY <1>1, <1>2, <1>3, <1>4 DEF Leave, GoTo, requestVars, Inside

\* A node is put on one of the lists that run() returns.
LEMMA AppendAtType ==
  ASSUME NEW f \in [Run -> Seq(Node)], NEW r \in Run, NEW n \in Node
  PROVE  [f EXCEPT ![r] = Append(@, n)] \in [Run -> Seq(Node)]
OBVIOUS

LEMMA StatsType ==
  ASSUME TypeOK, NEW r \in Run, NEW err \in {0, 1}, KindAt(r) \in Claimed,
         Dispatched(r, err)
  PROVE  stats' \in [Specialist -> [dispatched : Nat, errors : Nat]]
<1> DEFINE sp == SpecialistOf[KindAt(r)]
           new == [dispatched |-> stats[sp].dispatched + 1,
                   errors |-> stats[sp].errors + err]
<1>1. sp \in Specialist
  BY SchedulerAssumption
<1>2. stats \in [Specialist -> [dispatched : Nat, errors : Nat]]
  BY DEF TypeOK
<1>3. new \in [dispatched : Nat, errors : Nat]
  BY <1>1, <1>2
<1>4. stats' = [stats EXCEPT ![sp] = new]
  BY DEF Dispatched
<1> QED
  BY <1>2, <1>3, <1>4

\* The steps of a thread inside run().
LEMMA StepTypeOK ==
  ASSUME TypeInv, NEW r \in Run, Step(r)
  PROVE  TypeOK'
<1> USE SchedulerAssumption
<1>a. TypeOK
  BY DEF TypeInv
<1>k. cursor[r] \in Node => KindAt(r) \in Kind
  BY PlanType, <1>a DEF KindAt
<1>p. UNCHANGED permissionVars => PermissionTypeOK'
  BY <1>a DEF TypeOK, PermissionTypeOK, permissionVars, TokenId
<1>n. phase[r] \in {"check", "pop", "exec"} => cursor[r] \in Node
  BY DEF TypeInv, AtWork
<1>c. AtNode(r) => cursor[r] \in Node
  BY <1>a DEF AtNode, TypeOK, Node
<1>s. ASSUME cursor[r] \in Node, NEW ok \in BOOLEAN, Log(r, ok)
      PROVE  spans' \in Seq(Span)
  <2>1. [submission |-> submission[r], node |-> cursor[r],
         kind |-> KindAt(r), ok |-> ok] \in Span
    BY <1>a, <1>k, <1>s DEF TypeOK, Span
  <2> QED
    BY <1>a, <1>s, <2>1 DEF TypeOK, Log
<1>q. cursor[r] \in Node /\ LeaveParked(r) /\ PermissionTypeOK' => TypeOK'
  <2> SUFFICES ASSUME cursor[r] \in Node, LeaveParked(r), PermissionTypeOK'
               PROVE  TypeOK'
    OBVIOUS
  <2>1. parked' \in [Run -> Seq(Node)]
    BY <1>a, AppendAtType DEF LeaveParked, TypeOK
  <2>2. Leave(r, "parked") /\ "parked" \in Status
    BY DEF LeaveParked, Status
  <2> QED
    BY <1>a, <2>1, <2>2, LeaveType DEF LeaveParked, TypeOK, sharedVars
<1>f. ASSUME cursor[r] \in Node, NEW ok \in BOOLEAN, LeaveFailed(r), Log(r, ok),
             PermissionTypeOK', progressed' \in [Run -> BOOLEAN]
      PROVE  TypeOK'
  <2>1. failed' \in [Run -> Seq(Node)]
    BY <1>a, <1>f, AppendAtType DEF LeaveFailed, TypeOK
  <2>2. Leave(r, "failed") /\ "failed" \in Status
    BY <1>f DEF LeaveFailed, Status
  <2>3. spans' \in Seq(Span)
    BY <1>f, <1>s
  <2> QED
    BY <1>a, <1>f, <2>1, <2>2, <2>3, LeaveType DEF LeaveFailed, TypeOK
<1>1. CASE Skip(r)
  <2>1. cursor' \in [Run -> 1..N+1]
    BY <1>1, <1>a, <1>c DEF Skip, TypeOK, Node
  <2> QED
    BY <1>1, <1>a, <1>p, <2>1 DEF Skip, TypeOK, requestVars, resultVars, sharedVars
<1>2. CASE ParkListed(r)
  <2>1. cursor[r] \in Node /\ Leave(r, "parked")
    BY <1>2, <1>c DEF ParkListed, AtReady, LeaveParked
  <2>2. LeaveParked(r) /\ PermissionTypeOK'
    BY <1>2, <1>p DEF ParkListed
  <2> QED
    BY <1>q, <2>1, <2>2
<1>3. CASE AskBridge(r)
  <2>1. PermissionTypeOK'
    BY <1>3, <1>a, <1>c, <1>k, HasTokenType DEF AskBridge, AtReady, TypeOK
  <2> QED
    BY <1>3, <1>a, <2>1
    DEF AskBridge, TypeOK, GoTo, requestVars, resultVars, walkVars, sharedVars, Inside
<1>4. CASE StartUngated(r)
  BY <1>4, <1>a, <1>p
  DEF StartUngated, StartAttempts, TypeOK, GoTo, requestVars, resultVars, walkVars,
      sharedVars, Inside
<1>5. CASE NextPass(r)
  <2>1. cursor' \in [Run -> 1..N+1]
    BY <1>5, <1>a DEF NextPass, TypeOK
  <2>2. pass' \in [Run -> Nat \ {0}]
    BY <1>5, <1>a DEF NextPass, TypeOK
  <2>3. progressed' \in [Run -> BOOLEAN]
    BY <1>5, <1>a DEF NextPass, TypeOK
  <2> QED
    BY <1>5, <1>a, <1>p, <2>1, <2>2, <2>3
    DEF NextPass, TypeOK, requestVars, resultVars, sharedVars
<1>6. CASE Return(r)
  BY <1>6, <1>a, <1>p
  DEF Return, TypeOK, GoTo, requestVars, resultVars, walkVars, sharedVars, Outside
<1>7. CASE TryNextToken(r)
  <2>1. PermissionTypeOK'
    BY <1>7, <1>a, <1>n, <1>k, HasTokenType DEF TryNextToken, TypeOK
  <2> QED
    BY <1>7, <1>a, <2>1
    DEF TryNextToken, TypeOK, runVars, requestVars, resultVars, walkVars, sharedVars
<1>8. CASE FindOnce(r)
  <2>1. PermissionTypeOK'
    BY <1>8, <1>a, <1>n, <1>k, HasTokenType DEF FindOnce, TypeOK
  <2> QED
    BY <1>8, <1>a, <2>1
    DEF FindOnce, TypeOK, GoTo, requestVars, resultVars, walkVars, sharedVars, Inside
<1>9. CASE Allow(r)
  <2>1. PermissionTypeOK'
    BY <1>9, <1>a, <1>n, <1>k, HasTokenType DEF Allow, TypeOK, TypeInv, HoldsToken
  <2> QED
    BY <1>9, <1>a, <2>1
    DEF Allow, StartAttempts, TypeOK, GoTo, requestVars, resultVars, walkVars,
        sharedVars, Inside
<1>10. CASE ParkUnapproved(r)
  BY <1>10, <1>n, <1>p, <1>q DEF ParkUnapproved, NoToken
<1>11. CASE Deny(r)
  BY <1>11, <1>a, <1>n, <1>p, <1>f DEF Deny, NoToken, TypeOK
<1>12. CASE CheckRaises(r)
  BY <1>12, <1>a, <1>p
  DEF CheckRaises, PopRaises, TypeOK, GoTo, requestVars, resultVars, walkVars,
      sharedVars, Outside
<1>13. CASE AttemptRaises(r)
  <2>1. stats' \in [Specialist -> [dispatched : Nat, errors : Nat]]
    BY <1>13, <1>a, StatsType DEF AttemptRaises, TypeOK
  <2> QED
    BY <1>13, <1>a, <1>p, <2>1 DEF AttemptRaises, TypeOK, requestVars, resultVars, walkVars
<1>14. CASE GiveUp(r)
  <2>1. progressed' \in [Run -> BOOLEAN]
    BY <1>14, <1>a DEF GiveUp, TypeOK
  <2> QED
    BY <1>14, <1>n, <1>p, <1>f, <2>1 DEF GiveUp
<1>15. ASSUME NEW ev \in BOOLEAN, AttemptReturns(r, ev)
       PROVE  TypeOK'
  <2>1. cursor[r] \in Node /\ Leave(r, "done")
    BY <1>15, <1>n DEF AttemptReturns, Attempting, LeaveDone
  <2>2. spans' \in Seq(Span)
    BY <1>15, <1>s, <2>1 DEF AttemptReturns, LeaveDone
  <2>3. stats' \in [Specialist -> [dispatched : Nat, errors : Nat]]
    BY <1>15, <1>a, StatsType DEF AttemptReturns, TypeOK
  <2>4. handles' \subseteq Node
    BY <1>15, <1>a, <2>1 DEF AttemptReturns, TypeOK
  <2>5. evidence' \in [Run -> Seq(Node)]
    BY <1>15, <1>a, <2>1, AppendAtType DEF AttemptReturns, LeaveDone, TypeOK
  <2>6. progressed' \in [Run -> BOOLEAN]
    BY <1>15, <1>a DEF AttemptReturns, LeaveDone, TypeOK
  <2>7. UNCHANGED <<parked, failed, parking>> /\ PermissionTypeOK' /\ "done" \in Status
    BY <1>15, <1>p DEF AttemptReturns, LeaveDone, Status
  <2> QED
    BY <1>a, <2>1, <2>2, <2>3, <2>4, <2>5, <2>6, <2>7, LeaveType DEF TypeOK
<1> QED
  BY <1>1, <1>2, <1>3, <1>4, <1>5, <1>6, <1>7, <1>8, <1>9, <1>10, <1>11, <1>12,
     <1>13, <1>14, <1>15
  DEF Step, Walk, Check, Execute

\* A thread inside run() leaves the other threads' runs alone: what they share
\* are the tokens, the parking registry, the statistics, the handles, the spans.
Local(q) == <<plan[q], status[q], phase[q], cursor[q], pass[q], progressed[q],
              held[q], submission[q]>>

LEMMA StepIsLocal ==
  ASSUME TypeInv, NEW r \in Run, NEW q \in Run, q # r, Step(r)
  PROVE  UNCHANGED Local(q)
<1> USE DEF TypeInv, TypeOK, PermissionTypeOK, Local, GoTo, requestVars, resultVars,
            walkVars, permissionVars
<1>0. ASSUME NEW s, Leave(r, s)
      PROVE  UNCHANGED <<plan[q], status[q], phase[q], cursor[q], pass[q], submission[q]>>
  BY <1>0 DEF Leave
<1>1. CASE Walk(r)
  BY <1>1, <1>0 DEF Walk, Skip, ParkListed, AskBridge, StartUngated, NextPass, Return,
                    StartAttempts, BeginScan, LeaveParked
<1>2. CASE Check(r)
  <2>1. CASE TryNextToken(r) \/ FindOnce(r) \/ Allow(r) \/ CheckRaises(r)
    BY <2>1 DEF TryNextToken, FindOnce, Allow, CheckRaises, PassOver, SeeOnce,
                AcceptStanding, Pop, PopRaises, StartAttempts, runVars
  <2>2. CASE ParkUnapproved(r) \/ Deny(r)
    BY <2>2, <1>0 DEF ParkUnapproved, Deny, NoToken, LeaveParked, LeaveFailed
  <2> QED
    BY <1>2, <2>1, <2>2 DEF Check
<1>3. CASE Execute(r)
  <2>1. CASE AttemptRaises(r)
    BY <2>1 DEF AttemptRaises
  <2>2. CASE GiveUp(r)
    BY <2>2, <1>0 DEF GiveUp, LeaveFailed
  <2>3. ASSUME NEW ev \in BOOLEAN, AttemptReturns(r, ev)
        PROVE  UNCHANGED Local(q)
    BY <2>3, <1>0 DEF AttemptReturns, LeaveDone
  <2> QED
    BY <1>3, <2>1, <2>2, <2>3 DEF Execute
<1> QED
  BY <1>1, <1>2, <1>3 DEF Step

\* What a step can do to the thread's own walk over its DAG: nothing, move on,
\* or decide the node it is at, which was ready until then.
Pauses(r) ==
  /\ phase[r] \in Inside
  /\ UNCHANGED <<plan, status, walkVars, submission>>
  /\ \/ cursor[r] \in Node /\ Ready(r, cursor[r]) /\ \E p \in {"check", "exec"} : GoTo(r, p)
     \/ GoTo(r, "raised")
Decides(r, s) ==
  /\ phase[r] \in Inside
  /\ cursor[r] \in Node
  /\ Ready(r, cursor[r])
  /\ Leave(r, s)
  /\ \/ s \in {"done", "failed"} /\ progressed' = [progressed EXCEPT ![r] = TRUE]
     \/ s \in {"parked", "failed"} /\ UNCHANGED progressed
  /\ s = "done" => phase[r] = "exec"

LEMMA StepEffect ==
  ASSUME TypeInv, NEW r \in Run, Step(r)
  PROVE  \/ Skip(r) \/ NextPass(r) \/ Return(r) \/ FindOnce(r) \/ Pauses(r)
         \/ \E s \in {"done", "failed", "parked"} : Decides(r, s)
<1> USE DEF Inside, GoTo, requestVars, resultVars, walkVars
<1>t. TypeOK /\ phase \in [Run -> Inside \cup Outside]
  BY DEF TypeInv, TypeOK
<1>n. phase[r] \in {"check", "pop", "exec"} => cursor[r] \in Node /\ Ready(r, cursor[r])
  BY DEF TypeInv, AtWork
<1>c. AtReady(r) => phase[r] = "scan" /\ cursor[r] \in Node /\ Ready(r, cursor[r])
  BY <1>t DEF AtReady, AtNode, TypeOK, Node
<1>s. phase' = phase => \E p \in Inside \cup Outside : GoTo(r, p) /\ p = phase[r]
  BY <1>t
<1>1. CASE ParkListed(r)
  <2>1. Decides(r, "parked")
    BY <1>1, <1>c DEF ParkListed, LeaveParked, Decides
  <2> QED
    BY <2>1
<1>2. CASE AskBridge(r)
  BY <1>2, <1>c DEF AskBridge, Pauses
<1>3. CASE StartUngated(r)
  BY <1>3, <1>c DEF StartUngated, StartAttempts, Pauses
<1>4. CASE TryNextToken(r)
  BY <1>4, <1>s, <1>n DEF TryNextToken, Pauses, runVars
<1>5. CASE Allow(r)
  BY <1>5, <1>n DEF Allow, StartAttempts, Pauses
<1>6. CASE ParkUnapproved(r)
  <2>1. Decides(r, "parked")
    BY <1>6, <1>n DEF ParkUnapproved, LeaveParked, Decides
  <2> QED
    BY <2>1
<1>7. CASE Deny(r)
  <2>1. Decides(r, "failed")
    BY <1>7, <1>n DEF Deny, LeaveFailed, Decides
  <2> QED
    BY <2>1
<1>8. CASE CheckRaises(r)
  BY <1>8 DEF CheckRaises, Pauses
<1>9. CASE AttemptRaises(r)
  BY <1>9, <1>s, <1>n DEF AttemptRaises, Attempting, Pauses
<1>10. CASE GiveUp(r)
  <2>1. Decides(r, "failed")
    BY <1>10, <1>n DEF GiveUp, LeaveFailed, Decides
  <2> QED
    BY <2>1
<1>11. ASSUME NEW ev \in BOOLEAN, AttemptReturns(r, ev)
       PROVE  Decides(r, "done")
  BY <1>11, <1>n DEF AttemptReturns, Attempting, LeaveDone, Decides
<1> QED
  BY <1>1, <1>2, <1>3, <1>4, <1>5, <1>6, <1>7, <1>8, <1>9, <1>10, <1>11
  DEF Step, Walk, Check, Execute

\* The log of grants only grows, so what a token covers never changes.
LEMMA StepTokens ==
  ASSUME TypeInv, NEW r \in Run, Step(r)
  PROVE  /\ granted' = granted
         /\ UNCHANGED held \/ FindOnce(r)
<1> USE DEF permissionVars
<1>1. CASE Walk(r)
  BY <1>1 DEF Walk, Skip, ParkListed, AskBridge, StartUngated, NextPass, Return, BeginScan
<1>2. CASE Check(r)
  BY <1>2 DEF Check, TryNextToken, FindOnce, Allow, CheckRaises, ParkUnapproved, Deny,
              PassOver, SeeOnce, AcceptStanding, Pop, PopRaises, NoToken
<1>3. CASE Execute(r)
  BY <1>3 DEF Execute, AttemptRaises, GiveUp, AttemptReturns
<1> QED
  BY <1>1, <1>2, <1>3 DEF Step

LEMMA StepTypeInv ==
  ASSUME TypeInv, NEW r \in Run, Step(r)
  PROVE  TypeInv'
<1>a. TypeOK /\ TypeOK'
  BY StepTypeOK DEF TypeInv
<1>g. granted' = granted /\ (UNCHANGED held \/ FindOnce(r))
  BY StepTokens
<1>1. ASSUME NEW q \in Run, q # r, phase'[q] \in {"check", "pop", "exec"}
      PROVE  /\ (cursor[q] \in Node /\ Ready(q, cursor[q]))'
             /\ (phase[q] = "pop" => held[q] \in TokenId /\ Matches(held[q], KindAt(q)))'
  BY <1>1, <1>g, StepIsLocal DEF Local, TypeInv, AtWork, HoldsToken, Ready, TokenId, KindAt, Matches
<1>2. ASSUME phase'[r] \in {"check", "pop", "exec"}
      PROVE  /\ (cursor[r] \in Node /\ Ready(r, cursor[r]))'
             /\ (phase[r] = "pop" => held[r] \in TokenId /\ Matches(held[r], KindAt(r)))'
  <2>1. CASE Skip(r) \/ NextPass(r) \/ Return(r)
    BY <1>2, <1>a, <2>1 DEF Skip, NextPass, Return, AtNode, AtEnd, GoTo, TypeOK
  <2>2. CASE FindOnce(r)
    <3>a. /\ scan[r] <= Len(tokens)
          /\ Matches(tokens[scan[r]], KindAt(r))
          /\ held' = [held EXCEPT ![r] = tokens[scan[r]]]
      BY <2>2 DEF FindOnce, SeeOnce, AtToken
    <3>b. tokens \in Seq(TokenId) /\ scan[r] \in Nat \ {0}
      BY <1>a DEF TypeOK, PermissionTypeOK
    <3>1. tokens[scan[r]] \in TokenId
      BY <3>a, <3>b, ElementOfSeq
    <3>2. cursor[r] \in Node /\ Ready(r, cursor[r])
      BY <2>2 DEF FindOnce, TypeInv, AtWork
    <3>3. UNCHANGED <<plan, status, cursor>>
      BY <2>2 DEF FindOnce, requestVars, resultVars, walkVars
    <3>4. held'[r] = tokens[scan[r]]
      BY <3>a, <1>a DEF TypeOK, PermissionTypeOK
    <3>5. (cursor[r] \in Node /\ Ready(r, cursor[r]))'
      BY <3>2, <3>3 DEF Ready
    <3> QED
      BY <3>a, <3>1, <3>3, <3>4, <3>5, <1>g DEF KindAt, Matches, TokenId
  <2>3. CASE Pauses(r)
    BY <1>2, <1>a, <2>3 DEF Pauses, GoTo, Ready, walkVars, TypeOK
  <2>4. ASSUME NEW s, Decides(r, s)
        PROVE  FALSE
    BY <1>2, <1>a, <2>4 DEF Decides, Leave, GoTo, TypeOK
  <2> QED
    BY <2>1, <2>2, <2>3, <2>4, StepEffect
<1> QED
  BY <1>a, <1>1, <1>2 DEF TypeInv, AtWork, HoldsToken

\* A new request replaces everything a thread had of an earlier one.
LEMMA SubmitTypeInv ==
  ASSUME TypeInv, NEW r \in Run, NEW p \in Plans, Submit(r, p)
  PROVE  TypeInv'
<1>a. TypeOK
  BY DEF TypeInv
<1>p. PermissionTypeOK' /\ UNCHANGED <<granted, held>>
  BY <1>a DEF Submit, TypeOK, PermissionTypeOK, permissionVars, TokenId
<1>1. FreshStatus(r) \in [Node -> Status]
  BY DEF FreshStatus, Status
<1>2. status' \in [Run -> [Node -> Status]]
  BY <1>a, <1>1 DEF Submit, TypeOK
<1>3. /\ parked' \in [Run -> Seq(Node)]
      /\ failed' \in [Run -> Seq(Node)]
      /\ evidence' \in [Run -> Seq(Node)]
  BY <1>a DEF Submit, TypeOK
<1>4. cursor' \in [Run -> 1..N+1]
  BY <1>a, SchedulerAssumption DEF Submit, TypeOK
<1>5. phase' \in [Run -> Inside \cup Outside]
  BY <1>a DEF Submit, TypeOK, GoTo, Inside
<1>6. /\ plan' \in [Run -> Plans]
      /\ pass' \in [Run -> Nat \ {0}]
      /\ progressed' \in [Run -> BOOLEAN]
      /\ submitted' \in Nat
      /\ submission' \in [Run -> Nat]
      /\ UNCHANGED <<attempt, parking, stats, handles, spans>>
  BY <1>a DEF Submit, TypeOK, sharedVars
<1>7. TypeOK'
  BY <1>a, <1>p, <1>2, <1>3, <1>4, <1>5, <1>6 DEF TypeOK
<1>8. ASSUME NEW q \in Run, phase'[q] \in {"check", "pop", "exec"}
      PROVE  q # r /\ UNCHANGED <<plan[q], status[q], cursor[q], phase[q], held[q]>>
  BY <1>a, <1>p, <1>8 DEF Submit, GoTo, TypeOK
<1> QED
  BY <1>7, <1>8, <1>p DEF TypeInv, AtWork, HoldsToken, Ready, KindAt, Matches, TokenId

\* The user and the operator touch no run.
LEMMA EnvironmentTypeInv ==
  ASSUME TypeInv,
         \/ \E o \in Op, kind \in TokenKind : Approve(o, kind)
         \/ \E n \in Parkable : Park(n) \/ Release(n)
  PROVE  TypeInv' /\ UNCHANGED runVars /\ TokenId \subseteq TokenId'
         /\ \A id \in TokenId : granted'[id] = granted[id]
<1>a. TypeOK
  BY DEF TypeInv
<1>1. ASSUME NEW o \in Op, NEW kind \in TokenKind, Approve(o, kind)
      PROVE  /\ TypeOK' /\ UNCHANGED <<runVars, held>> /\ TokenId \subseteq TokenId'
             /\ \A id \in TokenId : granted'[id] = granted[id]
  <2>1. /\ PermissionTypeOK'
        /\ Len(granted)' = Len(granted) + 1
        /\ \A id \in TokenId : granted'[id] = granted[id]
    BY <1>a, <1>1, GrantKeepsTokens DEF Approve, TypeOK
  <2>2. Len(granted) \in Nat
    BY <1>a DEF TypeOK, PermissionTypeOK
  <2>3. UNCHANGED <<runVars, sharedVars, held>>
    BY <1>1 DEF Approve, Grant
  <2> QED
    BY <1>a, <2>1, <2>2, <2>3
    DEF TypeOK, TokenId, runVars, sharedVars, requestVars, resultVars, walkVars
<1>2. ASSUME NEW n \in Parkable, Park(n) \/ Release(n)
      PROVE  TypeOK' /\ UNCHANGED <<runVars, granted, held>>
  BY <1>a, <1>2, SchedulerAssumption
  DEF Park, Release, TypeOK, PermissionTypeOK, permissionVars, TokenId, runVars,
      requestVars, resultVars, walkVars
<1>3. /\ TypeOK' /\ UNCHANGED <<runVars, held>> /\ TokenId \subseteq TokenId'
      /\ \A id \in TokenId : granted'[id] = granted[id]
  BY <1>1, <1>2 DEF TokenId
<1>4. AtWork'
  BY <1>3 DEF TypeInv, AtWork, Ready, runVars, requestVars, resultVars, walkVars
<1>5. HoldsToken'
  BY <1>3 DEF TypeInv, HoldsToken, KindAt, Matches, runVars, requestVars, walkVars
<1> QED
  BY <1>3, <1>4, <1>5 DEF TypeInv

LEMMA NextTypeInv == TypeInv /\ [Next]_vars => TypeInv'
<1> SUFFICES ASSUME TypeInv, [Next]_vars PROVE TypeInv'
  OBVIOUS
<1>1. CASE UNCHANGED vars
  BY <1>1 DEF vars, runVars, requestVars, resultVars, walkVars, sharedVars,
              permissionVars, TypeInv, TypeOK, PermissionTypeOK, TokenId, AtWork,
              HoldsToken, Ready, KindAt, Matches
<1>2. CASE Next
  BY <1>2, StepTypeInv, SubmitTypeInv, EnvironmentTypeInv DEF Next
<1> QED
  BY <1>1, <1>2

LEMMA AlwaysTypeInv == SafeSpec => []TypeInv
BY InitTypeInv, NextTypeInv, PTL DEF SafeSpec

(* Every state is well typed: in particular every index into dag.nodes and *)
(* every token that an answer rests on exists, whatever the threads, the   *)
(* user and the operator do.                                               *)
THEOREM TypeCorrect == SafeSpec => []TypeOK
<1>1. TypeInv => TypeOK
  BY DEF TypeInv
<1> QED
  BY <1>1, AlwaysTypeInv, PTL

-----------------------------------------------------------------------------
(* Dependency order.                                                       *)

\* The DAG of a run that a step of its own thread decides a node of.
LEMMA DecidesDag ==
  ASSUME TypeInv, NEW r \in Run, NEW s \in {"done", "failed", "parked"}, Decides(r, s)
  PROVE  /\ plan' = plan
         /\ status' = [status EXCEPT ![r] = [status[r] EXCEPT ![cursor[r]] = s]]
         /\ status[r] \in [Node -> Status]
         /\ \A n \in Node : status'[r][n] = IF n = cursor[r] THEN s ELSE status[r][n]
         /\ cursor[r] \in Node /\ status[r][cursor[r]] = "pending"
         /\ cursor'[r] = cursor[r] + 1 /\ pass'[r] = pass[r]
         /\ phase[r] \in Inside /\ phase'[r] = "scan"
BY DEF Decides, Leave, GoTo, requestVars, Ready, TypeInv, TypeOK

\* The other steps leave the DAG as it is.
LEMMA OtherStepsDag ==
  ASSUME TypeInv, NEW r \in Run,
         Skip(r) \/ NextPass(r) \/ Return(r) \/ FindOnce(r) \/ Pauses(r)
  PROVE  UNCHANGED <<plan, status, submission>> /\ phase[r] \in Inside
BY DEF Skip, NextPass, Return, FindOnce, Pauses, AtNode, AtEnd, Inside, requestVars, resultVars

DependenciesMet(r) ==
  \A n \in Node :
    status[r][n] # "pending" => \A d \in plan[r].deps[n] : status[r][d] = "done"

LEMMA StepDependencies ==
  ASSUME TypeInv, NEW r \in Run, Step(r), DependenciesMet(r)
  PROVE  DependenciesMet(r)'
<1>1. CASE Skip(r) \/ NextPass(r) \/ Return(r) \/ FindOnce(r) \/ Pauses(r)
  BY <1>1, OtherStepsDag DEF DependenciesMet
<1>2. ASSUME NEW s \in {"done", "failed", "parked"}, Decides(r, s)
      PROVE  DependenciesMet(r)'
  <2>1. \A d \in plan[r].deps[cursor[r]] : status[r][d] = "done"
    BY <1>2 DEF Decides, Ready
  <2>2. \A n \in Node : plan[r].deps[n] \subseteq Node
    BY PlanType DEF TypeInv
  <2> QED
    BY <1>2, <2>1, <2>2, DecidesDag DEF DependenciesMet
<1> QED
  BY <1>1, <1>2, StepEffect

(* A node is decided only after everything it depends on is done: for every *)
(* number of threads, every DAG (a cyclic one included), every order of     *)
(* dag.nodes, every fault and every retry budget.                           *)
THEOREM DependencyOrder == SafeSpec => []DecidedAfterDependencies
<1>1. Init => DecidedAfterDependencies
  BY DEF Init, DecidedAfterDependencies
<1>2. TypeInv /\ DecidedAfterDependencies /\ [Next]_vars => DecidedAfterDependencies'
  <2> SUFFICES ASSUME TypeInv, DecidedAfterDependencies, [Next]_vars, NEW q \in Run
               PROVE  DependenciesMet(q)'
    BY DEF DecidedAfterDependencies, DependenciesMet
  <2>0. DependenciesMet(q)
    BY DEF DecidedAfterDependencies, DependenciesMet
  <2>1. CASE UNCHANGED runVars
    BY <2>0, <2>1 DEF DependenciesMet, runVars, requestVars, resultVars
  <2>2. ASSUME NEW r \in Run, Step(r)
        PROVE  DependenciesMet(q)'
    <3>1. CASE q = r
      BY <2>0, <2>2, <3>1, StepDependencies
    <3>2. CASE q # r
      BY <2>0, <2>2, <3>2, StepIsLocal DEF DependenciesMet, Local
    <3> QED
      BY <3>1, <3>2
  <2>3. ASSUME NEW r \in Run, NEW p \in Plans, Submit(r, p)
        PROVE  DependenciesMet(q)'
    <3>1. CASE q = r
      BY <2>3, <3>1 DEF Submit, FreshStatus, DependenciesMet, TypeInv, TypeOK
    <3>2. CASE q # r
      BY <2>0, <2>3, <3>2 DEF Submit, DependenciesMet, TypeInv, TypeOK
    <3> QED
      BY <3>1, <3>2
  <2> QED
    BY <2>1, <2>2, <2>3, EnvironmentTypeInv DEF Next, vars
<1> QED
  BY <1>1, <1>2, AlwaysTypeInv, PTL DEF SafeSpec

-----------------------------------------------------------------------------
(* Quiescence.                                                             *)

\* As long as a pass has made no progress, the nodes it has passed are not
\* ready: they were not ready when it was there or it has parked or denied
\* them, and nothing that could make them ready has happened since.
Scanned(r) ==
  (phase[r] \in Inside /\ ~progressed[r]) =>
    \A n \in Node : n < cursor[r] => ~Ready(r, n)

\* Every pass but the current one has executed a node, and so has the current
\* one if it has made progress.
Executed(r) == {n \in Node : status[r][n] \in {"done", "failed"}}
PassesBounded(r) ==
  phase[r] \in Inside =>
    pass[r] - 1 + (IF progressed[r] THEN 1 ELSE 0) <= Cardinality(Executed(r))

Settled(r) == phase[r] = "returned" => \A n \in Node : ~Ready(r, n)

WalkInv(r) == Scanned(r) /\ PassesBounded(r) /\ Settled(r)

LEMMA ExecutedFinite ==
  ASSUME NEW r \in Run
  PROVE  /\ IsFiniteSet(Executed(r))
         /\ Cardinality(Executed(r)) \in Nat
         /\ Cardinality(Executed(r)) <= N
<1>1. IsFiniteSet(Node) /\ Cardinality(Node) = N
  BY SchedulerAssumption, FS_Interval DEF Node
<1>2. Executed(r) \in SUBSET Node
  BY DEF Executed
<1> QED
  BY <1>1, <1>2, FS_Subset, FS_CardinalityType

LEMMA DecidesWalk ==
  ASSUME TypeInv, NEW r \in Run, NEW s \in {"done", "failed", "parked"}, Decides(r, s),
         WalkInv(r)
  PROVE  WalkInv(r)'
<1>d. /\ status[r] \in [Node -> Status] /\ plan' = plan
      /\ \A n \in Node : status'[r][n] = IF n = cursor[r] THEN s ELSE status[r][n]
      /\ cursor[r] \in Node /\ status[r][cursor[r]] = "pending"
      /\ cursor'[r] = cursor[r] + 1 /\ pass'[r] = pass[r]
      /\ phase[r] \in Inside /\ phase'[r] = "scan"
  BY DecidesDag
<1>t. /\ progressed \in [Run -> BOOLEAN] /\ pass[r] \in Nat /\ N \in Nat
      /\ \A n \in Node : plan[r].deps[n] \subseteq Node
  BY PlanType, SchedulerAssumption DEF TypeInv, TypeOK
<1>c. IsFiniteSet(Executed(r)) /\ Cardinality(Executed(r)) \in Nat
  BY ExecutedFinite
<1>1. CASE s \in {"done", "failed"} /\ progressed' = [progressed EXCEPT ![r] = TRUE]
  <2>1. progressed'[r] = TRUE
    BY <1>1, <1>t
  <2>2. Executed(r)' = Executed(r) \cup {cursor[r]} /\ cursor[r] \notin Executed(r)
    BY <1>1, <1>d DEF Executed
  <2>3. Cardinality(Executed(r)') = Cardinality(Executed(r)) + 1
    BY <1>c, <2>2, FS_AddElement
  <2>4. pass[r] - 1 <= Cardinality(Executed(r))
    BY <1>c, <1>d, <1>t DEF WalkInv, PassesBounded
  <2>5. PassesBounded(r)'
    BY <1>c, <1>d, <1>t, <2>1, <2>3, <2>4 DEF PassesBounded
  <2> QED
    BY <1>d, <2>1, <2>5 DEF WalkInv, Scanned, Settled
<1>2. CASE s \in {"parked", "failed"} /\ UNCHANGED progressed
  <2>1. Executed(r) \subseteq Executed(r)'
    BY <1>d DEF Executed
  <2>2. Cardinality(Executed(r)) <= Cardinality(Executed(r)')
        /\ Cardinality(Executed(r)') \in Nat
    <3>1. IsFiniteSet(Executed(r)') /\ Cardinality(Executed(r)') \in Nat
      <4>1. IsFiniteSet(Node)
        BY <1>t, FS_Interval DEF Node
      <4>2. Executed(r)' \in SUBSET Node
        BY DEF Executed
      <4> QED
        BY <4>1, <4>2, FS_Subset, FS_CardinalityType
    <3> QED
      BY <2>1, <3>1, FS_Subset
  <2>3. PassesBounded(r)'
    BY <1>2, <1>c, <1>d, <1>t, <2>2 DEF WalkInv, PassesBounded
  <2>4. \A n \in Node : ~Ready(r, n) => ~Ready(r, n)'
    BY <1>2, <1>d, <1>t DEF Ready
  <2>5. Scanned(r)'
    <3> SUFFICES ASSUME ~progressed[r], NEW n \in Node, n < cursor[r] + 1
                 PROVE  ~Ready(r, n)'
      BY <1>2, <1>d DEF Scanned
    <3>1. CASE n = cursor[r]
      <4>1. \A m \in Node : m = cursor[r] => ~Ready(r, m)'
        BY <1>2, <1>d DEF Ready
      <4> QED
        BY <3>1, <4>1
    <3>2. CASE n < cursor[r]
      BY <1>d, <2>4, <3>2 DEF WalkInv, Scanned
    <3> QED
      BY <1>d, <3>1, <3>2 DEF Node
  <2> QED
    BY <1>d, <2>3, <2>5 DEF WalkInv, Settled
<1> QED
  BY <1>1, <1>2 DEF Decides

LEMMA StepWalk ==
  ASSUME TypeInv, NEW r \in Run, Step(r), WalkInv(r)
  PROVE  WalkInv(r)'
<1> USE DEF WalkInv, Scanned, PassesBounded, Settled
<1>t. /\ progressed \in [Run -> BOOLEAN] /\ phase \in [Run -> Inside \cup Outside]
      /\ cursor \in [Run -> 1..N+1] /\ pass \in [Run -> Nat \ {0}] /\ N \in Nat
  BY SchedulerAssumption DEF TypeInv, TypeOK
<1>c. Cardinality(Executed(r)) \in Nat /\ Cardinality(Executed(r)) <= N
  BY ExecutedFinite
<1>1. CASE Skip(r)
  <2>1. /\ UNCHANGED <<plan, status, pass, progressed, phase>>
        /\ cursor' = [cursor EXCEPT ![r] = cursor[r] + 1]
        /\ ~Ready(r, cursor[r])
    BY <1>1 DEF Skip, requestVars, resultVars
  <2>2. \A n \in Node : Ready(r, n)' = Ready(r, n)
    BY <2>1 DEF Ready
  <2>3. Executed(r)' = Executed(r)
    BY <2>1 DEF Executed
  <2>4. \A n \in Node : n < cursor[r] + 1 => n < cursor[r] \/ n = cursor[r]
    BY <1>t DEF Node
  <2> QED
    BY <1>t, <2>1, <2>2, <2>3, <2>4
<1>2. CASE NextPass(r)
  <2>1. /\ UNCHANGED <<plan, status, phase>>
        /\ phase[r] = "scan" /\ progressed[r]
        /\ pass'[r] = pass[r] + 1 /\ cursor'[r] = 1 /\ progressed'[r] = FALSE
    BY <1>2, <1>t DEF NextPass, AtEnd, LastPass, requestVars, resultVars
  <2>2. Executed(r)' = Executed(r)
    BY <2>1 DEF Executed
  <2>3. pass[r] - 1 + 1 <= Cardinality(Executed(r))
    BY <2>1 DEF Inside
  <2>4. \A n \in Node : ~(n < 1)
    BY DEF Node
  <2> QED
    BY <1>c, <1>t, <2>1, <2>2, <2>3, <2>4 DEF Outside
<1>3. CASE Return(r)
  <2>1. /\ UNCHANGED <<plan, status>> /\ phase'[r] = "returned"
        /\ phase[r] = "scan" /\ cursor[r] = N + 1
        /\ ~progressed[r] \/ pass[r] >= 3 * N
    BY <1>3, <1>t DEF Return, AtEnd, LastPass, GoTo, requestVars, resultVars
  <2>2. \A n \in Node : Ready(r, n)' = Ready(r, n)
    BY <2>1 DEF Ready
  <2>3. CASE ~progressed[r]
    <3>1. \A n \in Node : n < cursor[r]
      BY <1>t, <2>1 DEF Node
    <3> QED
      BY <2>1, <2>2, <2>3, <3>1 DEF Inside
  <2>4. CASE progressed[r] /\ pass[r] >= 3 * N
    <3>1. pass[r] - 1 + 1 <= Cardinality(Executed(r))
      BY <2>1, <2>4 DEF Inside
    <3>2. N = 0
      BY <1>c, <1>t, <2>4, <3>1
    <3>3. Node = {}
      BY <3>2 DEF Node
    <3> QED
      BY <2>1, <3>3 DEF Inside
  <2> QED
    BY <1>t, <2>1, <2>3, <2>4
<1>4. CASE FindOnce(r) \/ Pauses(r)
  <2>1. UNCHANGED <<plan, status, pass, progressed, cursor>> /\ phase[r] \in Inside
        /\ phase'[r] # "returned"
    BY <1>4, <1>t DEF FindOnce, Pauses, GoTo, requestVars, resultVars, walkVars, Inside
  <2>2. \A n \in Node : Ready(r, n)' = Ready(r, n)
    BY <2>1 DEF Ready
  <2>3. Executed(r)' = Executed(r)
    BY <2>1 DEF Executed
  <2> QED
    BY <2>1, <2>2, <2>3
<1>5. ASSUME NEW s \in {"done", "failed", "parked"}, Decides(r, s)
      PROVE  WalkInv(r)'
  BY <1>5, DecidesWalk
<1> QED
  BY <1>1, <1>2, <1>3, <1>4, <1>5, StepEffect

LEMMA SubmitWalk ==
  ASSUME TypeInv, NEW r \in Run, NEW p \in Plans, Submit(r, p)
  PROVE  WalkInv(r)'
<1>1. /\ phase'[r] = "scan" /\ cursor'[r] = 1 /\ pass'[r] = 1 /\ progressed'[r] = FALSE
      /\ \A n \in Node : status'[r][n] = "pending"
  BY DEF Submit, GoTo, FreshStatus, TypeInv, TypeOK
<1>2. Executed(r)' = {}
  BY <1>1 DEF Executed
<1>3. Cardinality(Executed(r)') = 0
  BY <1>2, FS_EmptySet
<1>4. \A n \in Node : ~(n < 1)
  BY DEF Node
<1> QED
  BY <1>1, <1>3, <1>4 DEF WalkInv, Scanned, PassesBounded, Settled

EveryWalk == \A r \in Run : WalkInv(r)

LEMMA AlwaysEveryWalk == SafeSpec => []EveryWalk
<1>1. Init => EveryWalk
  BY DEF Init, EveryWalk, WalkInv, Scanned, PassesBounded, Settled, Inside
<1>2. TypeInv /\ EveryWalk /\ [Next]_vars => EveryWalk'
  <2> SUFFICES ASSUME TypeInv, EveryWalk, [Next]_vars, NEW q \in Run
               PROVE  WalkInv(q)'
    BY DEF EveryWalk
  <2>0. WalkInv(q)
    BY DEF EveryWalk
  <2> USE DEF WalkInv, Scanned, PassesBounded, Settled, Ready, Executed
  <2>1. CASE UNCHANGED runVars
    BY <2>0, <2>1 DEF runVars, requestVars, resultVars, walkVars
  <2>2. ASSUME NEW r \in Run, Step(r)
        PROVE  WalkInv(q)'
    <3>1. CASE q = r
      <4> HIDE DEF WalkInv, Scanned, PassesBounded, Settled, Ready, Executed
      <4> QED
        BY <2>0, <2>2, <3>1, StepWalk
    <3>2. CASE q # r
      <4>1. UNCHANGED <<plan[q], status[q], phase[q], cursor[q], pass[q], progressed[q]>>
        <5> HIDE DEF WalkInv, Scanned, PassesBounded, Settled, Ready, Executed
        <5> QED
          BY <2>2, <3>2, StepIsLocal DEF Local
      <4> QED
        BY <2>0, <4>1
    <3> QED
      BY <3>1, <3>2
  <2>3. ASSUME NEW r \in Run, NEW p \in Plans, Submit(r, p)
        PROVE  WalkInv(q)'
    <3>1. CASE q = r
      BY <2>3, <3>1, SubmitWalk
    <3>2. CASE q # r
      BY <2>0, <2>3, <3>2 DEF Submit, GoTo, TypeInv, TypeOK
    <3> QED
      BY <3>1, <3>2
  <2> QED
    BY <2>1, <2>2, <2>3, EnvironmentTypeInv DEF Next, vars
<1> QED
  BY <1>1, <1>2, AlwaysTypeInv, PTL DEF SafeSpec

(* run() returns only when no node could be started any more: neither the  *)
(* "no progress" exit nor the bound of 3 * len(dag.nodes) passes gives up  *)
(* on a runnable node, for every DAG and every order of its nodes.         *)
THEOREM Quiescence == SafeSpec => []QuiescentAtReturn
<1>1. EveryWalk => QuiescentAtReturn
  BY DEF EveryWalk, WalkInv, Settled, QuiescentAtReturn
<1> QED
  BY <1>1, AlwaysEveryWalk, PTL

-----------------------------------------------------------------------------
(* Approval of gated nodes.                                                *)

Covered(k) == \E id \in TokenId : Matches(id, k)

\* A thread that executes a gated node has found a token for it.
ExecutionCovered(r) == phase[r] = "exec" /\ NeedsToken(r) => Covered(KindAt(r))
DoneCovered(r) ==
  \A n \in Node : (Bridged /\ plan[r].risk[n] # "low" /\ status[r][n] = "done")
                    => Covered(plan[r].kind[n])

\* The check allows a node only on a token that covers its kind.
LEMMA AllowCovered ==
  ASSUME TypeInv, NEW r \in Run, Allow(r)
  PROVE  Covered(KindAt(r))
<1>1. CASE phase[r] = "check" /\ AcceptStanding(r, KindAt(r))
  <2>1. tokens \in Seq(TokenId) /\ scan[r] \in Nat \ {0}
    BY DEF TypeInv, TypeOK, PermissionTypeOK
  <2>2. scan[r] <= Len(tokens) /\ Matches(tokens[scan[r]], KindAt(r))
    BY <1>1 DEF AcceptStanding, AtToken
  <2>3. tokens[scan[r]] \in TokenId
    BY <2>1, <2>2, ElementOfSeq
  <2> QED
    BY <2>2, <2>3 DEF Covered
<1>2. CASE phase[r] = "pop"
  BY <1>2 DEF TypeInv, HoldsToken, Covered
<1> QED
  BY <1>1, <1>2 DEF Allow

LEMMA StepExecutionCovered ==
  ASSUME TypeInv, NEW r \in Run, Step(r), ExecutionCovered(r)
  PROVE  ExecutionCovered(r)'
<1> SUFFICES ASSUME phase'[r] = "exec", NeedsToken(r)'
             PROVE  Covered(KindAt(r))'
  BY DEF ExecutionCovered
<1>t. phase \in [Run -> Inside \cup Outside]
  BY DEF TypeInv, TypeOK
<1>g. granted' = granted
  BY StepTokens
<1>m. UNCHANGED <<plan, cursor>> /\ Covered(KindAt(r)) => Covered(KindAt(r))'
  BY <1>g DEF Covered, KindAt, Matches, TokenId
<1>1. CASE StartUngated(r)
  BY <1>1 DEF StartUngated, StartAttempts, NeedsToken, RiskAt, requestVars, walkVars
<1>2. CASE Allow(r)
  BY <1>2, <1>m, AllowCovered DEF Allow, StartAttempts, requestVars, walkVars
<1>3. CASE AttemptRaises(r)
  BY <1>3, <1>m DEF AttemptRaises, Attempting, ExecutionCovered, NeedsToken, RiskAt,
                    requestVars, walkVars
<1>4. CASE Skip(r) \/ NextPass(r) \/ Return(r) \/ AskBridge(r) \/ TryNextToken(r)
           \/ FindOnce(r) \/ CheckRaises(r)
  BY <1>4, <1>t DEF Skip, NextPass, Return, AskBridge, TryNextToken, FindOnce,
                    CheckRaises, AtNode, AtReady, AtEnd, GoTo, runVars
<1>5. ASSUME NEW s, Leave(r, s)
      PROVE  FALSE
  BY <1>5, <1>t DEF Leave, GoTo
<1> QED
  BY <1>1, <1>2, <1>3, <1>4, <1>5
  DEF Step, Walk, Check, Execute, ParkListed, ParkUnapproved, Deny, GiveUp,
      AttemptReturns, LeaveParked, LeaveFailed, LeaveDone

LEMMA StepDoneCovered ==
  ASSUME TypeInv, NEW r \in Run, Step(r), ExecutionCovered(r), DoneCovered(r)
  PROVE  DoneCovered(r)'
<1>g. granted' = granted
  BY StepTokens
<1>c. \A k : Covered(k) => Covered(k)'
  BY <1>g DEF Covered, Matches, TokenId
<1>1. CASE Skip(r) \/ NextPass(r) \/ Return(r) \/ FindOnce(r) \/ Pauses(r)
  BY <1>1, <1>c, OtherStepsDag DEF DoneCovered
<1>2. ASSUME NEW s \in {"done", "failed", "parked"}, Decides(r, s)
      PROVE  DoneCovered(r)'
  <2>1. s = "done" /\ NeedsToken(r) => Covered(KindAt(r))
    BY <1>2 DEF Decides, ExecutionCovered
  <2> QED
    BY <1>2, <1>c, <2>1, DecidesDag DEF DoneCovered, NeedsToken, RiskAt, KindAt
<1> QED
  BY <1>1, <1>2, StepEffect

(* With a permission bridge wired, no node of medium or high risk is ever  *)
(* executed to the end unless the user has granted a token that covers its *)
(* kind: however many requests run at once and race for the tokens.        *)
THEOREM ApprovalBeforeExecution == SafeSpec => []GatedNodesApproved
<1> DEFINE Inv == \A r \in Run : ExecutionCovered(r) /\ DoneCovered(r)
<1>1. Init => Inv
  BY DEF Init, ExecutionCovered, DoneCovered
<1>2. TypeInv /\ Inv /\ [Next]_vars => Inv'
  <2> SUFFICES ASSUME TypeInv, Inv, [Next]_vars, NEW q \in Run
               PROVE  ExecutionCovered(q)' /\ DoneCovered(q)'
    OBVIOUS
  <2>0. ExecutionCovered(q) /\ DoneCovered(q)
    OBVIOUS
  <2>k. UNCHANGED <<plan[q], status[q], phase[q], cursor[q]>>
        /\ (\A k : Covered(k) => Covered(k)')
        => ExecutionCovered(q)' /\ DoneCovered(q)'
    BY <2>0 DEF ExecutionCovered, DoneCovered, NeedsToken, RiskAt, KindAt
  <2>1. CASE UNCHANGED vars
    BY <2>k, <2>1 DEF vars, runVars, requestVars, resultVars, walkVars, permissionVars,
                      Covered, Matches, TokenId
  <2>2. ASSUME NEW r \in Run, Step(r)
        PROVE  ExecutionCovered(q)' /\ DoneCovered(q)'
    <3>1. CASE q = r
      BY <2>0, <2>2, <3>1, StepExecutionCovered, StepDoneCovered
    <3>2. CASE q # r
      <4>1. \A k : Covered(k) => Covered(k)'
        BY <2>2, StepTokens DEF Covered, Matches, TokenId
      <4> QED
        BY <2>k, <2>2, <3>2, <4>1, StepIsLocal DEF Local
    <3> QED
      BY <3>1, <3>2
  <2>3. ASSUME NEW r \in Run, NEW p \in Plans, Submit(r, p)
        PROVE  ExecutionCovered(q)' /\ DoneCovered(q)'
    <3>1. CASE q = r
      BY <2>3, <3>1 DEF Submit, FreshStatus, GoTo, ExecutionCovered, DoneCovered,
                        TypeInv, TypeOK
    <3>2. CASE q # r
      BY <2>k, <2>3, <3>2 DEF Submit, GoTo, TypeInv, TypeOK, permissionVars,
                              Covered, Matches, TokenId
    <3> QED
      BY <3>1, <3>2
  <2>4. CASE \/ \E o \in Op, kind \in TokenKind : Approve(o, kind)
             \/ \E n \in Parkable : Park(n) \/ Release(n)
    <3>1. \A k : Covered(k) => Covered(k)'
      BY <2>4, EnvironmentTypeInv DEF Covered, Matches
    <3> QED
      BY <2>k, <2>4, <3>1, EnvironmentTypeInv DEF runVars, requestVars, resultVars, walkVars
  <2> QED
    BY <2>1, <2>2, <2>3, <2>4 DEF Next
<1>3. Inv => GatedNodesApproved
  BY DEF DoneCovered, Covered, GatedNodesApproved
<1> QED
  BY <1>1, <1>2, <1>3, AlwaysTypeInv, PTL DEF SafeSpec

-----------------------------------------------------------------------------
(* Refinement.                                                             *)

\* Each step of a thread inside run() is a step of DagRun or leaves it as it is.
LEMMA StepImplements ==
  ASSUME TypeInv, EveryWalk, EveryWalk', NEW r \in Run, Step(r)
  PROVE  [Dag(r)!Next]_(Dag(r)!dagVars)
<1> USE DEF Dag!Next, Dag!Progress, Dag!dagVars
<1>t. phase \in [Run -> Inside \cup Outside]
  BY DEF TypeInv, TypeOK
<1>1. CASE Skip(r) \/ NextPass(r)
  BY <1>1 DEF Skip, NextPass, requestVars, resultVars
<1>2. CASE Return(r)
  <2>1. phase[r] \in Inside /\ phase'[r] = "returned" /\ UNCHANGED <<plan, status>>
    BY <1>2, <1>t DEF Return, AtEnd, GoTo, requestVars, resultVars, Inside
  <2>2. \A n \in Node : ~Ready(r, n)'
    BY <2>1 DEF EveryWalk, WalkInv, Settled
  <2>3. \A n \in Node : ~Dag(r)!Startable(n)
    BY <2>1, <2>2 DEF Dag!Startable, Ready
  <2>4. Dag(r)!Return
    BY <2>1, <2>3 DEF Dag!Return, Inside
  <2> QED
    BY <2>4
<1>3. CASE FindOnce(r)
  <2>1. UNCHANGED <<plan, status>> /\ phase[r] \in Inside /\ phase'[r] \in Inside
    BY <1>3, <1>t DEF FindOnce, GoTo, requestVars, resultVars, Inside
  <2> QED
    BY <2>1
<1>4. CASE Pauses(r)
  <2>1. UNCHANGED <<plan, status>> /\ phase[r] \in Inside
    BY <1>4 DEF Pauses
  <2>2. CASE phase'[r] \in Inside
    BY <2>1, <2>2
  <2>3. CASE phase'[r] = "raised"
    <3>1. Dag(r)!Raise
      BY <2>1, <2>3 DEF Dag!Raise, Inside
    <3> QED
      BY <3>1
  <2> QED
    BY <1>4, <1>t, <2>2, <2>3 DEF Pauses, GoTo, Inside
<1>5. ASSUME NEW s \in {"done", "failed", "parked"}, Decides(r, s)
      PROVE  Dag(r)!Next
  <2>1. /\ plan' = plan /\ cursor[r] \in Node /\ phase[r] \in Inside /\ phase'[r] \in Inside
        /\ status' = [status EXCEPT ![r] = [status[r] EXCEPT ![cursor[r]] = s]]
    BY <1>5, DecidesDag DEF Inside
  <2>2. Dag(r)!Startable(cursor[r])
    BY <1>5 DEF Decides, Ready, Dag!Startable
  <2>3. status'[r] = [status[r] EXCEPT ![cursor[r]] = s]
    BY <2>1 DEF TypeInv, TypeOK
  <2>4. Dag(r)!Decide(cursor[r])
    BY <2>1, <2>2, <2>3 DEF Dag!Decide, Dag!Decision
  <2> QED
    BY <2>1, <2>4
<1> QED
  BY <1>1, <1>2, <1>3, <1>4, <1>5, StepEffect

\* A call of run() starts a new execution of DagRun.
LEMMA SubmitImplements ==
  ASSUME TypeInv, NEW r \in Run, NEW p \in Plans, Submit(r, p)
  PROVE  Dag(r)!Next
<1>1. /\ plan'[r] = p /\ status'[r] = [n \in Node |-> "pending"]
      /\ phase[r] \notin Inside /\ phase'[r] = "scan"
  BY DEF Submit, FreshStatus, GoTo, TypeInv, TypeOK, Inside, Outside
<1>2. phase[r] # "live"
  BY DEF Submit, Outside
<1>3. Dag(r)!Start
  BY <1>1, <1>2 DEF Dag!Start, Inside
<1> QED
  BY <1>3 DEF Dag!Next

(* What each thread does with run() is what DagRun allows: nodes decided   *)
(* one by one, each only once and only when startable, and a return only   *)
(* when none is startable; the only other way out is an exception.         *)
THEOREM ImplementsSteps == SafeSpec => (\A r \in Run : Dag(r)!Init) /\ StepsOfDagRun
<1> DEFINE Steps == \A r \in Run : [Dag(r)!Next]_(Dag(r)!dagVars)
<1>1. Init => \A r \in Run : Dag(r)!Init
  <2>1. (CHOOSE p \in Plans : TRUE) \in Plans
    BY SchedulerAssumption
  <2> QED
    BY <2>1 DEF Dag!Init, Init, Inside
<1>2. TypeInv /\ EveryWalk /\ EveryWalk' /\ [Next]_vars => Steps
  <2> SUFFICES ASSUME TypeInv, EveryWalk, EveryWalk', [Next]_vars, NEW q \in Run
               PROVE  [Dag(q)!Next]_(Dag(q)!dagVars)
    OBVIOUS
  <2>1. CASE UNCHANGED runVars
    BY <2>1 DEF runVars, requestVars, resultVars, Dag!dagVars
  <2>2. ASSUME NEW r \in Run, Step(r)
        PROVE  [Dag(q)!Next]_(Dag(q)!dagVars)
    <3>1. CASE q = r
      BY <2>2, <3>1, StepImplements
    <3>2. CASE q # r
      BY <2>2, <3>2, StepIsLocal DEF Local, Dag!dagVars
    <3> QED
      BY <3>1, <3>2
  <2>3. ASSUME NEW r \in Run, NEW p \in Plans, Submit(r, p)
        PROVE  [Dag(q)!Next]_(Dag(q)!dagVars)
    <3>1. CASE q = r
      BY <2>3, <3>1, SubmitImplements
    <3>2. CASE q # r
      BY <2>3, <3>2 DEF Submit, GoTo, TypeInv, TypeOK, Dag!dagVars
    <3> QED
      BY <3>1, <3>2
  <2> QED
    BY <2>1, <2>2, <2>3, EnvironmentTypeInv DEF Next, vars
<1> QED
  BY <1>1, <1>2, AlwaysTypeInv, AlwaysEveryWalk, PTL DEF SafeSpec, StepsOfDagRun

-----------------------------------------------------------------------------
(* What run() reports.                                                     *)

\* A list of the elements of a set, extended by one more.
LEMMA ListsAppend ==
  ASSUME NEW S, NEW s \in Seq(S), NEW T, NEW n \in S, Lists(s, T), n \notin T
  PROVE  Lists(Append(s, n), T \cup {n})
<1> DEFINE t == Append(s, n)
<1>1. /\ DOMAIN s = 1..Len(s) /\ Len(s) \in Nat
      /\ DOMAIN t = 1..Len(s) + 1 /\ t[Len(s) + 1] = n
      /\ \A i \in 1..Len(s) : t[i] = s[i]
  OBVIOUS
<1>2. \A i \in 1..Len(s) + 1 : i \in 1..Len(s) \/ i = Len(s) + 1
  BY <1>1
<1>3. \A i \in DOMAIN s : s[i] \in T
  BY DEF Lists, ToSet
<1> HIDE DEF t
<1>4. ToSet(t) = T \cup {n}
  <2>1. ASSUME NEW x \in ToSet(t) PROVE x \in T \cup {n}
    BY <1>1, <1>2, <1>3, <2>1 DEF ToSet
  <2>2. ASSUME NEW x \in T PROVE x \in ToSet(t)
    <3>1. PICK i \in 1..Len(s) : s[i] = x
      BY <1>1, <2>2 DEF Lists, ToSet
    <3> QED
      BY <1>1, <3>1 DEF ToSet
  <2>3. n \in ToSet(t)
    BY <1>1 DEF ToSet
  <2> QED
    BY <2>1, <2>2, <2>3
<1>5. IsInjective(t)
  <2> SUFFICES ASSUME NEW i \in 1..Len(s) + 1, NEW j \in 1..Len(s) + 1, t[i] = t[j]
               PROVE  i = j
    BY <1>1 DEF IsInjective
  <2>1. CASE i \in 1..Len(s) /\ j \in 1..Len(s)
    BY <1>1, <2>1 DEF Lists, IsInjective
  <2>2. CASE i = Len(s) + 1 /\ j \in 1..Len(s)
    BY <1>1, <1>3, <2>2
  <2>3. CASE i \in 1..Len(s) /\ j = Len(s) + 1
    BY <1>1, <1>3, <2>3
  <2> QED
    BY <1>2, <2>1, <2>2, <2>3
<1> QED
  BY <1>4, <1>5 DEF Lists, t

\* What a step of a thread reports: nothing, or its verdict on a pending node.
Verdict(r) ==
  /\ cursor[r] \in Node /\ status[r][cursor[r]] = "pending"
  /\ \/ LeaveParked(r)
     \/ LeaveFailed(r) /\ Log(r, FALSE)
     \/ \E ev \in BOOLEAN : LeaveDone(r, ev)

LEMMA StepReports ==
  ASSUME TypeInv, NEW r \in Run, Step(r)
  PROVE  /\ phase[r] \in Inside /\ UNCHANGED requestVars
         /\ UNCHANGED <<resultVars, spans>> \/ Verdict(r)
<1>n. phase[r] \in {"check", "pop", "exec"} => cursor[r] \in Node /\ Ready(r, cursor[r])
  BY DEF TypeInv, AtWork
<1>c. AtReady(r) => cursor[r] \in Node /\ Ready(r, cursor[r])
  BY DEF AtReady, AtNode, TypeInv, TypeOK, Node
<1> USE DEF Verdict, requestVars, resultVars, sharedVars, Inside
<1>v. LeaveParked(r) \/ LeaveFailed(r) \/ (\E ev \in BOOLEAN : LeaveDone(r, ev))
        => UNCHANGED <<plan, submitted, submission>>
  BY DEF LeaveParked, LeaveFailed, LeaveDone, Leave
<1>1. CASE Skip(r) \/ AskBridge(r) \/ StartUngated(r) \/ NextPass(r) \/ Return(r)
  BY <1>1 DEF Skip, AskBridge, AtReady, AtNode, AtEnd, StartUngated, NextPass, Return,
              StartAttempts
<1>2. CASE ParkListed(r)
  BY <1>2, <1>c, <1>v DEF ParkListed, AtReady, AtNode, Ready
<1>3. CASE TryNextToken(r) \/ FindOnce(r) \/ Allow(r) \/ CheckRaises(r)
  BY <1>3 DEF TryNextToken, FindOnce, Allow, CheckRaises, StartAttempts, runVars
<1>4. CASE ParkUnapproved(r) \/ Deny(r)
  BY <1>4, <1>n, <1>v DEF ParkUnapproved, Deny, Ready
<1>5. CASE Execute(r)
  BY <1>5, <1>n, <1>v DEF Execute, AttemptRaises, AttemptReturns, Attempting, GiveUp, Ready
<1> QED
  BY <1>1, <1>2, <1>3, <1>4, <1>5 DEF Step, Walk, Check

Reported(r) ==
  /\ Lists(parked[r], WithStatus(r, "parked"))
  /\ Lists(failed[r], WithStatus(r, "failed"))
  /\ ToSet(evidence[r]) \subseteq WithStatus(r, "done")
  /\ IsInjective(evidence[r])

LEMMA StepReported ==
  ASSUME TypeInv, NEW r \in Run, NEW q \in Run, Step(r), Reported(q)
  PROVE  Reported(q)'
<1> DEFINE c == cursor[r]
<1>t. /\ status \in [Run -> [Node -> Status]] /\ parked \in [Run -> Seq(Node)]
      /\ failed \in [Run -> Seq(Node)] /\ evidence \in [Run -> Seq(Node)]
  BY DEF TypeInv, TypeOK
<1>1. CASE UNCHANGED resultVars
  BY <1>1 DEF resultVars, Reported, WithStatus
<1>2. ASSUME c \in Node, status[r][c] = "pending", NEW s, Leave(r, s)
      PROVE  /\ q # r => \A v : WithStatus(q, v)' = WithStatus(q, v)
             /\ WithStatus(r, s)' = WithStatus(r, s) \cup {c}
             /\ \A v : v # s /\ v # "pending" => WithStatus(r, v)' = WithStatus(r, v)
             /\ \A v : v # "pending" => c \notin WithStatus(r, v)
  <2>1. status' = [status EXCEPT ![r] = [status[r] EXCEPT ![c] = s]]
    BY <1>2 DEF Leave
  <2>2. /\ q # r => status'[q] = status[q]
        /\ \A n \in Node : status'[r][n] = IF n = c THEN s ELSE status[r][n]
    BY <1>t, <2>1
  <2> QED
    BY <1>2, <2>2 DEF WithStatus
<1>3. CASE c \in Node /\ status[r][c] = "pending" /\ LeaveParked(r)
  <2>1. Leave(r, "parked") /\ UNCHANGED <<failed, evidence>>
        /\ parked'[r] = Append(parked[r], c) /\ (q # r => parked'[q] = parked[q])
    BY <1>t, <1>3 DEF LeaveParked
  <2>2. CASE q = r
    <3>1. Lists(parked'[r], WithStatus(r, "parked")')
      <4>1. /\ c \in Node /\ c \notin WithStatus(r, "parked") /\ parked[r] \in Seq(Node)
            /\ WithStatus(r, "parked")' = WithStatus(r, "parked") \cup {c}
        BY <1>t, <1>2, <1>3, <2>1
      <4>2. Lists(parked[r], WithStatus(r, "parked"))
        BY <2>2 DEF Reported
      <4>3. Lists(Append(parked[r], c), WithStatus(r, "parked") \cup {c})
        BY <4>1, <4>2, ListsAppend
      <4> QED
        BY <2>1, <4>1, <4>3
    <3> QED
      BY <1>2, <1>3, <2>1, <2>2, <3>1 DEF Reported
  <2>3. CASE q # r
    BY <1>2, <1>3, <2>1, <2>3 DEF Reported
  <2> QED
    BY <2>2, <2>3
<1>4. CASE c \in Node /\ status[r][c] = "pending" /\ LeaveFailed(r)
  <2>1. Leave(r, "failed") /\ UNCHANGED <<parked, evidence>>
        /\ failed'[r] = Append(failed[r], c) /\ (q # r => failed'[q] = failed[q])
    BY <1>t, <1>4 DEF LeaveFailed
  <2>2. CASE q = r
    <3>1. Lists(failed'[r], WithStatus(r, "failed")')
      <4>1. /\ c \in Node /\ c \notin WithStatus(r, "failed") /\ failed[r] \in Seq(Node)
            /\ WithStatus(r, "failed")' = WithStatus(r, "failed") \cup {c}
        BY <1>t, <1>2, <1>4, <2>1
      <4>2. Lists(failed[r], WithStatus(r, "failed"))
        BY <2>2 DEF Reported
      <4>3. Lists(Append(failed[r], c), WithStatus(r, "failed") \cup {c})
        BY <4>1, <4>2, ListsAppend
      <4> QED
        BY <2>1, <4>1, <4>3
    <3> QED
      BY <1>2, <1>4, <2>1, <2>2, <3>1 DEF Reported
  <2>3. CASE q # r
    BY <1>2, <1>4, <2>1, <2>3 DEF Reported
  <2> QED
    BY <2>2, <2>3
<1>5. ASSUME NEW ev \in BOOLEAN, c \in Node, status[r][c] = "pending", LeaveDone(r, ev)
      PROVE  Reported(q)'
  <2>1. Leave(r, "done") /\ UNCHANGED <<parked, failed>>
        /\ (q # r => evidence'[q] = evidence[q])
        /\ evidence'[r] \in {evidence[r], Append(evidence[r], c)}
    BY <1>t, <1>5 DEF LeaveDone
  <2>2. CASE q = r
    <3>1. ToSet(evidence'[r]) \subseteq WithStatus(r, "done") \cup {c} /\ IsInjective(evidence'[r])
      <4>1. CASE evidence'[r] = evidence[r]
        BY <2>2, <4>1 DEF Reported
      <4>2. CASE evidence'[r] = Append(evidence[r], c)
        <5>1. c \notin ToSet(evidence[r])
          BY <1>2, <1>5, <2>1, <2>2 DEF Reported
        <5>2. Lists(evidence[r], ToSet(evidence[r]))
          BY <2>2 DEF Reported, Lists
        <5>3. Lists(Append(evidence[r], c), ToSet(evidence[r]) \cup {c})
          BY <1>t, <1>5, <5>1, <5>2, ListsAppend
        <5> QED
          BY <2>2, <4>2, <5>3 DEF Reported, Lists
      <4> QED
        BY <2>1, <4>1, <4>2
    <3> QED
      BY <1>2, <1>5, <2>1, <2>2, <3>1 DEF Reported
  <2>3. CASE q # r
    BY <1>2, <1>5, <2>1, <2>3 DEF Reported
  <2> QED
    BY <2>2, <2>3
<1> QED
  BY <1>1, <1>3, <1>4, <1>5, StepReports DEF Verdict

(* What run() returns agrees with the statuses it leaves in the DAG: each  *)
(* parked and each failed node is on its list once, and evidence comes     *)
(* from done nodes, once from each, however many threads run at once.      *)
THEOREM ReportsAreTrue == SafeSpec => []ReportedOnce
<1> DEFINE Inv == \A r \in Run : Reported(r)
<1>1. Lists(<<>>, {}) /\ ToSet(<<>>) = {} /\ IsInjective(<<>>)
  BY DEF Lists, ToSet, IsInjective
<1>2. Init => Inv
  <2> SUFFICES ASSUME Init, NEW r \in Run PROVE Reported(r)
    OBVIOUS
  <2>1. /\ parked[r] = <<>> /\ failed[r] = <<>> /\ evidence[r] = <<>>
        /\ \A n \in Node : status[r][n] = "pending"
    BY DEF Init
  <2>2. WithStatus(r, "parked") = {} /\ WithStatus(r, "failed") = {}
    BY <2>1 DEF WithStatus
  <2> QED
    BY <1>1, <2>1, <2>2 DEF Reported
<1>3. TypeInv /\ Inv /\ [Next]_vars => Inv'
  <2> SUFFICES ASSUME TypeInv, Inv, [Next]_vars, NEW q \in Run
               PROVE  Reported(q)'
    OBVIOUS
  <2>1. UNCHANGED <<status[q], parked[q], failed[q], evidence[q]>> => Reported(q)'
    BY DEF Reported, WithStatus
  <2>2. CASE UNCHANGED runVars
    BY <2>1, <2>2 DEF runVars, resultVars
  <2>3. ASSUME NEW r \in Run, Step(r)
        PROVE  Reported(q)'
    BY <2>3, StepReported
  <2>4. ASSUME NEW r \in Run, NEW p \in Plans, Submit(r, p)
        PROVE  Reported(q)'
    <3>1. CASE q = r
      <4>1. /\ parked'[r] = <<>> /\ failed'[r] = <<>> /\ evidence'[r] = <<>>
            /\ \A n \in Node : status'[r][n] = "pending"
        BY <2>4 DEF Submit, FreshStatus, TypeInv, TypeOK
      <4>2. WithStatus(r, "parked")' = {} /\ WithStatus(r, "failed")' = {}
        BY <4>1 DEF WithStatus
      <4> QED
        BY <1>1, <3>1, <4>1, <4>2 DEF Reported
    <3>2. CASE q # r
      BY <2>1, <2>4, <3>2 DEF Submit, TypeInv, TypeOK
    <3> QED
      BY <3>1, <3>2
  <2> QED
    BY <2>2, <2>3, <2>4, EnvironmentTypeInv DEF Next, vars
<1>4. Inv => ReportedOnce
  BY DEF Reported, ReportedOnce
<1> QED
  BY <1>2, <1>3, <1>4, AlwaysTypeInv, PTL DEF SafeSpec

-----------------------------------------------------------------------------
(* The trace.                                                              *)

\* A span at the end of the recorder.
LEMMA SpanLogged ==
  ASSUME TypeInv, NEW r \in Run, cursor[r] \in Node, NEW ok \in BOOLEAN, Log(r, ok)
  PROVE  LET i == Len(spans) + 1
         IN /\ Len(spans) \in Nat /\ DOMAIN spans = 1..Len(spans) /\ DOMAIN spans' = 1..i
            /\ spans'[i].submission = submission[r] /\ spans'[i].node = cursor[r]
            /\ spans'[i].kind = KindAt(r) /\ spans'[i].ok = ok
            /\ \A k \in 1..Len(spans) : spans'[k] = spans[k]
<1> DEFINE e == [submission |-> submission[r], node |-> cursor[r],
                 kind |-> KindAt(r), ok |-> ok]
<1>1. e \in Span
  BY PlanType DEF TypeInv, TypeOK, Span, KindAt
<1>2. spans \in Seq(Span) /\ spans' = Append(spans, e)
  BY DEF TypeInv, TypeOK, Log
<1>4. /\ e.submission = submission[r] /\ e.node = cursor[r]
      /\ e.kind = KindAt(r) /\ e.ok = ok
  OBVIOUS
<1> HIDE DEF e
<1>3. LET i == Len(spans) + 1
      IN /\ Len(spans) \in Nat /\ DOMAIN spans = 1..Len(spans) /\ DOMAIN spans' = 1..i
         /\ spans'[i] = e /\ \A k \in 1..Len(spans) : spans'[k] = spans[k]
  BY <1>1, <1>2
<1> QED
  BY <1>3, <1>4

\* Every submission has a number of its own, and the spans bear such numbers.
Numbered ==
  /\ \A r \in Run : submission[r] <= submitted
  /\ \A r \in Run : phase[r] \in Inside => submission[r] >= 1
  /\ \A r, q \in Run : submission[r] = submission[q] /\ submission[r] >= 1 => r = q
  /\ \A i \in DOMAIN spans : spans[i].submission >= 1 /\ spans[i].submission <= submitted

LEMMA InitNumbered == Init => Numbered
BY DEF Init, Numbered, Inside

LEMMA NextNumbered == TypeInv /\ Numbered /\ [Next]_vars => Numbered'
<1> SUFFICES ASSUME TypeInv, Numbered, [Next]_vars PROVE Numbered'
  OBVIOUS
<1>t. /\ submitted \in Nat /\ submission \in [Run -> Nat]
      /\ phase \in [Run -> Inside \cup Outside]
  BY DEF TypeInv, TypeOK
<1>1. ASSUME NEW r \in Run, Step(r) PROVE Numbered'
  <2>1. /\ phase[r] \in Inside /\ UNCHANGED <<submission, submitted>>
        /\ spans' = spans \/ Verdict(r)
    BY <1>1, StepReports DEF requestVars
  <2>2. \A q \in Run : phase'[q] \in Inside => submission[q] >= 1
    BY <1>1, <2>1, StepIsLocal DEF Local, Numbered
  <2>3. \A i \in DOMAIN spans' : spans'[i].submission >= 1 /\ spans'[i].submission <= submitted
    <3>1. CASE spans' = spans
      BY <3>1 DEF Numbered
    <3>2. ASSUME NEW ok \in BOOLEAN, Log(r, ok), cursor[r] \in Node
          PROVE  \A i \in DOMAIN spans' : spans'[i].submission >= 1 /\ spans'[i].submission <= submitted
      <4> DEFINE l == Len(spans) + 1
      <4>1. /\ Len(spans) \in Nat /\ DOMAIN spans = 1..Len(spans) /\ DOMAIN spans' = 1..l
            /\ spans'[l].submission = submission[r]
            /\ \A k \in 1..Len(spans) : spans'[k] = spans[k]
        BY <3>2, SpanLogged DEF Numbered
      <4> SUFFICES ASSUME NEW i \in 1..l
                   PROVE  spans'[i].submission >= 1 /\ spans'[i].submission <= submitted
        BY <4>1
      <4>2. i = l \/ i \in 1..Len(spans)
        BY <4>1
      <4> QED
        BY <2>1, <4>1, <4>2 DEF Numbered
    <3> QED
      BY <2>1, <3>1, <3>2 DEF Verdict, LeaveParked, LeaveDone, sharedVars
  <2> QED
    BY <2>1, <2>2, <2>3 DEF Numbered
<1>2. ASSUME NEW r \in Run, NEW p \in Plans, Submit(r, p) PROVE Numbered'
  <2>1. /\ submitted' = submitted + 1 /\ spans' = spans
        /\ \A q \in Run : submission'[q] = IF q = r THEN submitted + 1 ELSE submission[q]
        /\ \A q \in Run : q # r => phase'[q] = phase[q]
    BY <1>t, <1>2 DEF Submit, GoTo, sharedVars
  <2>2. \A i \in DOMAIN spans : spans[i].submission \in Nat
    <3>1. spans \in Seq(Span)
      BY DEF TypeInv, TypeOK
    <3>2. \A i \in DOMAIN spans : spans[i] \in Span
      BY <3>1
    <3> QED
      BY <3>2 DEF Span
  <2>3. \A q \in Run : submission[q] <= submitted /\ submission[q] \in Nat
    BY <1>t DEF Numbered
  <2> QED
    BY <1>t, <2>1, <2>2, <2>3 DEF Numbered
<1>3. CASE UNCHANGED <<runVars, spans>>
  BY <1>3 DEF runVars, requestVars, Numbered
<1>4. CASE \/ \E o \in Op, kind \in TokenKind : Approve(o, kind)
           \/ \E n \in Parkable : Park(n) \/ Release(n)
  BY <1>3, <1>4 DEF Approve, Park, Release, sharedVars
<1> QED
  BY <1>1, <1>2, <1>3, <1>4 DEF Next, vars, sharedVars

Traced(r) ==
  \A n \in Node :
    /\ Cardinality(SpansOf(r, n)) = IF status[r][n] \in {"done", "failed"} THEN 1 ELSE 0
    /\ \A i \in SpansOf(r, n) : spans[i].ok = (status[r][n] = "done")

LEMMA SpansFinite ==
  ASSUME TypeInv, NEW S \in SUBSET DOMAIN spans
  PROVE  IsFiniteSet(S) /\ Cardinality(S) \in Nat /\ Len(spans) + 1 \notin S
<1>1. DOMAIN spans = 1..Len(spans) /\ Len(spans) \in Nat
  BY DEF TypeInv, TypeOK
<1>2. IsFiniteSet(DOMAIN spans)
  BY <1>1, FS_Interval
<1> QED
  BY <1>1, <1>2, FS_Subset, FS_CardinalityType

\* A verdict with a span leaves one, and no other run's trace has changed.
LEMMA LoggedTrace ==
  ASSUME TypeInv, Numbered, NEW r \in Run, NEW q \in Run, phase[r] \in Inside, Traced(q),
         UNCHANGED submission, cursor[r] \in Node, status[r][cursor[r]] = "pending",
         NEW ok \in BOOLEAN, Log(r, ok), Leave(r, IF ok THEN "done" ELSE "failed")
  PROVE  Traced(q)'
<1> DEFINE c == cursor[r]
           l == Len(spans) + 1
           s == IF ok THEN "done" ELSE "failed"
<1>1. /\ Len(spans) \in Nat /\ DOMAIN spans = 1..Len(spans) /\ DOMAIN spans' = 1..l
      /\ spans'[l].submission = submission[r] /\ spans'[l].node = c /\ spans'[l].ok = ok
      /\ \A k \in 1..Len(spans) : spans'[k] = spans[k]
  BY SpanLogged
<1>2. /\ q # r => status'[q] = status[q]
      /\ \A n \in Node : status'[r][n] = IF n = c THEN s ELSE status[r][n]
  <2>1. status' = [status EXCEPT ![r] = [status[r] EXCEPT ![c] = s]]
    BY DEF Leave
  <2>2. status \in [Run -> [Node -> Status]]
    BY DEF TypeInv, TypeOK
  <2> QED
    BY <2>1, <2>2
<1>3. (s = "done") = ok /\ s \in {"done", "failed"}
  OBVIOUS
<1> HIDE DEF s, l, c
<1>4. submission[q] = submission[r] => q = r
  BY DEF Numbered
<1>5. \A i \in 1..l : i \in 1..Len(spans) \/ i = l
  BY <1>1 DEF l
<1> SUFFICES ASSUME NEW n \in Node
             PROVE  /\ Cardinality(SpansOf(q, n)') =
                         IF status'[q][n] \in {"done", "failed"} THEN 1 ELSE 0
                    /\ \A i \in SpansOf(q, n)' : spans'[i].ok = (status'[q][n] = "done")
  BY DEF Traced
<1>6. /\ Cardinality(SpansOf(q, n)) = IF status[q][n] \in {"done", "failed"} THEN 1 ELSE 0
      /\ \A i \in SpansOf(q, n) : spans[i].ok = (status[q][n] = "done")
  BY DEF Traced
<1>7. SpansOf(q, n) \in SUBSET DOMAIN spans
  BY DEF SpansOf
<1>8. CASE q = r /\ n = c
  <2>1. Cardinality(SpansOf(q, n)) = 0
    BY <1>6, <1>8 DEF c
  <2>2. SpansOf(q, n) = {}
    BY <1>7, <2>1, SpansFinite, FS_EmptySet
  <2>3. SpansOf(q, n)' = {l}
    <3>1. l \in SpansOf(q, n)'
      BY <1>1, <1>5, <1>8 DEF SpansOf, l
    <3>2. ASSUME NEW i \in SpansOf(q, n)' PROVE i = l
      <4>1. i \in 1..l
        BY <1>1, <3>2 DEF SpansOf
      <4>2. i \notin 1..Len(spans)
        BY <1>1, <2>2, <3>2 DEF SpansOf
      <4> QED
        BY <1>5, <4>1, <4>2
    <3> QED
      BY <3>1, <3>2
  <2>4. Cardinality({l}) = 1
    BY FS_Singleton
  <2> QED
    BY <1>1, <1>2, <1>3, <1>8, <2>3, <2>4
<1>9. CASE ~(q = r /\ n = c)
  <2>1. SpansOf(q, n)' = SpansOf(q, n)
    <3>1. l \notin SpansOf(q, n)'
      BY <1>1, <1>4, <1>9 DEF SpansOf
    <3>2. ASSUME NEW i \in 1..Len(spans) PROVE i \in SpansOf(q, n)' <=> i \in SpansOf(q, n)
      <4>1. i \in DOMAIN spans /\ i \in DOMAIN spans' /\ spans'[i] = spans[i]
        BY <1>1, <3>2 DEF l
      <4> QED
        BY <4>1 DEF SpansOf
    <3>3. SpansOf(q, n)' \subseteq 1..l
      BY <1>1 DEF SpansOf
    <3> QED
      BY <1>1, <1>5, <1>7, <3>1, <3>2, <3>3
  <2>2. status'[q][n] = status[q][n]
    BY <1>2, <1>9
  <2>3. \A i \in SpansOf(q, n) : spans'[i] = spans[i]
    BY <1>1, <1>7
  <2> QED
    BY <1>6, <2>1, <2>2, <2>3
<1> QED
  BY <1>8, <1>9

LEMMA StepTraced ==
  ASSUME TypeInv, Numbered, NEW r \in Run, NEW q \in Run, Step(r), Traced(q)
  PROVE  Traced(q)'
<1>1. phase[r] \in Inside /\ UNCHANGED submission
  BY StepReports DEF requestVars
<1>2. CASE UNCHANGED <<resultVars, spans>>
  BY <1>1, <1>2 DEF resultVars, Traced, SpansOf
<1>3. CASE Verdict(r) /\ LeaveParked(r)
  <2>1. /\ spans' = spans /\ status \in [Run -> [Node -> Status]]
        /\ status' = [status EXCEPT ![r] = [status[r] EXCEPT ![cursor[r]] = "parked"]]
        /\ status[r][cursor[r]] = "pending"
    BY <1>3 DEF Verdict, LeaveParked, Leave, sharedVars, TypeInv, TypeOK
  <2>2. \A n \in Node : \/ status'[q][n] = status[q][n]
                        \/ status[q][n] = "pending" /\ status'[q][n] = "parked"
    BY <2>1
  <2>3. \A n \in Node : SpansOf(q, n)' = SpansOf(q, n)
    BY <1>1, <2>1 DEF SpansOf
  <2>4. \A n \in Node : (status'[q][n] \in {"done", "failed"}) = (status[q][n] \in {"done", "failed"})
                        /\ (status'[q][n] = "done") = (status[q][n] = "done")
    BY <2>2
  <2> QED
    BY <2>1, <2>3, <2>4 DEF Traced
<1>4. CASE Verdict(r) /\ LeaveFailed(r) /\ Log(r, FALSE)
  <2> DEFINE no == FALSE
  <2>1. /\ cursor[r] \in Node /\ status[r][cursor[r]] = "pending"
        /\ no \in BOOLEAN /\ Log(r, no) /\ Leave(r, IF no THEN "done" ELSE "failed")
    BY <1>4 DEF Verdict, LeaveFailed
  <2> HIDE DEF no
  <2> QED
    BY <1>1, <2>1, LoggedTrace
<1>5. ASSUME Verdict(r), NEW ev \in BOOLEAN, LeaveDone(r, ev) PROVE Traced(q)'
  <2> DEFINE yes == TRUE
  <2>1. /\ cursor[r] \in Node /\ status[r][cursor[r]] = "pending"
        /\ yes \in BOOLEAN /\ Log(r, yes) /\ Leave(r, IF yes THEN "done" ELSE "failed")
    BY <1>5 DEF Verdict, LeaveDone
  <2> HIDE DEF yes
  <2> QED
    BY <1>1, <2>1, LoggedTrace
<1> QED
  BY <1>2, <1>3, <1>4, <1>5, StepReports DEF Verdict

LEMMA AlwaysNumbered == SafeSpec => []Numbered
BY InitNumbered, NextNumbered, AlwaysTypeInv, PTL DEF SafeSpec

(* The recorder tells what a run did: one span for each node it executed   *)
(* or denied, with that node's verdict, and none for the others, however   *)
(* many threads log into the one list.                                     *)
THEOREM TraceIsTrue == SafeSpec => []TraceMatchesOutcome
<1> DEFINE Inv == \A r \in Run : Traced(r)
<1>1. Init => Inv
  <2> SUFFICES ASSUME Init, NEW r \in Run, NEW n \in Node
               PROVE  SpansOf(r, n) = {} /\ status[r][n] = "pending"
    BY FS_EmptySet DEF Traced
  <2> QED
    BY DEF Init, SpansOf
<1>2. TypeInv /\ Numbered /\ Inv /\ [Next]_vars => Inv'
  <2> SUFFICES ASSUME TypeInv, Numbered, Inv, [Next]_vars, NEW q \in Run
               PROVE  Traced(q)'
    OBVIOUS
  <2>1. UNCHANGED <<status[q], submission[q], spans>> => Traced(q)'
    BY DEF Traced, SpansOf
  <2>2. CASE UNCHANGED <<runVars, spans>>
    BY <2>1, <2>2 DEF runVars, requestVars, resultVars
  <2>3. ASSUME NEW r \in Run, Step(r)
        PROVE  Traced(q)'
    BY <2>3, StepTraced
  <2>4. ASSUME NEW r \in Run, NEW p \in Plans, Submit(r, p)
        PROVE  Traced(q)'
    <3>1. CASE q = r
      <4>1. /\ submission'[r] = submitted + 1 /\ spans' = spans /\ submitted \in Nat
            /\ \A n \in Node : status'[r][n] = "pending"
        BY <2>4 DEF Submit, FreshStatus, sharedVars, TypeInv, TypeOK
      <4>2. \A n \in Node : SpansOf(r, n)' = {}
        BY <4>1 DEF Numbered, SpansOf
      <4> QED
        BY <3>1, <4>1, <4>2, FS_EmptySet DEF Traced
    <3>2. CASE q # r
      BY <2>1, <2>4, <3>2 DEF Submit, TypeInv, TypeOK, sharedVars
    <3> QED
      BY <3>1, <3>2
  <2>5. CASE \/ \E o \in Op, kind \in TokenKind : Approve(o, kind)
             \/ \E n \in Parkable : Park(n) \/ Release(n)
    BY <2>2, <2>5 DEF Approve, Park, Release, sharedVars
  <2> QED
    BY <2>2, <2>3, <2>4, <2>5 DEF Next, vars, sharedVars
<1>3. Inv => TraceMatchesOutcome
  BY DEF Traced, TraceMatchesOutcome
<1> QED
  BY <1>1, <1>2, <1>3, AlwaysTypeInv, AlwaysNumbered, PTL DEF SafeSpec

-----------------------------------------------------------------------------
(* The statistics.                                                         *)

\* What a step of a thread does to the statistics and the recorder, when
\* kb.lookup is left to the engine.
LEMMA StepStats ==
  ASSUME TypeInv, LookupKind \notin Claimed, NEW r \in Run, Step(r)
  PROVE  \/ UNCHANGED <<stats, spans>>
         \/ cursor[r] \in Node /\ UNCHANGED stats /\ Log(r, FALSE)
         \/ cursor[r] \in Node /\ UNCHANGED stats /\ Log(r, TRUE) /\ KindAt(r) \notin Claimed
         \/ KindAt(r) \in Claimed /\ Dispatched(r, 1) /\ UNCHANGED spans
         \/ cursor[r] \in Node /\ KindAt(r) \in Claimed /\ Dispatched(r, 0) /\ Log(r, TRUE)
<1>n. phase[r] \in {"check", "pop", "exec"} => cursor[r] \in Node
  BY DEF TypeInv, AtWork
<1>1. CASE Walk(r)
  BY <1>1 DEF Walk, Skip, ParkListed, AskBridge, StartUngated, NextPass, Return,
              StartAttempts, LeaveParked, sharedVars
<1>2. CASE TryNextToken(r) \/ FindOnce(r) \/ Allow(r) \/ ParkUnapproved(r) \/ CheckRaises(r)
  BY <1>2 DEF TryNextToken, FindOnce, Allow, ParkUnapproved, CheckRaises, StartAttempts,
              LeaveParked, sharedVars
<1>3. CASE Deny(r) \/ GiveUp(r)
  BY <1>3, <1>n DEF Deny, GiveUp, LeaveFailed
<1>4. CASE AttemptRaises(r)
  BY <1>4 DEF AttemptRaises
<1>5. ASSUME NEW ev \in BOOLEAN, AttemptReturns(r, ev)
      PROVE  \/ cursor[r] \in Node /\ UNCHANGED stats /\ Log(r, TRUE) /\ KindAt(r) \notin Claimed
             \/ cursor[r] \in Node /\ KindAt(r) \in Claimed /\ Dispatched(r, 0) /\ Log(r, TRUE)
  BY <1>5, <1>n DEF AttemptReturns, Attempting, LeaveDone
<1> QED
  BY <1>1, <1>2, <1>3, <1>4, <1>5 DEF Step, Check, Execute

Balanced(s) == stats[s].dispatched - stats[s].errors = Cardinality(OkSpansOf(s))

LEMMA StepBalanced ==
  ASSUME TypeInv, LookupKind \notin Claimed, NEW r \in Run, Step(r),
         NEW s \in Specialist, Balanced(s)
  PROVE  Balanced(s)'
<1>t. /\ stats \in [Specialist -> [dispatched : Nat, errors : Nat]]
      /\ stats[s].dispatched \in Nat /\ stats[s].errors \in Nat
  BY DEF TypeInv, TypeOK
<1>o. OkSpansOf(s) \in SUBSET DOMAIN spans
  BY DEF OkSpansOf
<1>k. spans' = spans => OkSpansOf(s)' = OkSpansOf(s)
  BY DEF OkSpansOf
<1>l. ASSUME cursor[r] \in Node, NEW ok \in BOOLEAN, Log(r, ok)
      PROVE  IF ok /\ KindAt(r) \in Claimed /\ SpecialistOf[KindAt(r)] = s
             THEN Cardinality(OkSpansOf(s)') = Cardinality(OkSpansOf(s)) + 1
             ELSE OkSpansOf(s)' = OkSpansOf(s)
  <2> DEFINE l == Len(spans) + 1
             mine == ok /\ KindAt(r) \in Claimed /\ SpecialistOf[KindAt(r)] = s
  <2>1. /\ Len(spans) \in Nat /\ DOMAIN spans = 1..Len(spans) /\ DOMAIN spans' = 1..l
        /\ spans'[l].kind = KindAt(r) /\ spans'[l].ok = ok
        /\ \A k \in 1..Len(spans) : spans'[k] = spans[k]
    BY <1>l, SpanLogged
  <2>2. l \in OkSpansOf(s)' <=> mine
    BY <2>1 DEF OkSpansOf
  <2>3. ASSUME NEW i \in 1..Len(spans) PROVE i \in OkSpansOf(s)' <=> i \in OkSpansOf(s)
    <3>1. i \in DOMAIN spans /\ i \in DOMAIN spans' /\ spans'[i] = spans[i]
      BY <2>1, <2>3
    <3> QED
      BY <3>1 DEF OkSpansOf
  <2>4. OkSpansOf(s)' \subseteq 1..l
    BY <2>1 DEF OkSpansOf
  <2>5. \A i \in 1..l : i \in 1..Len(spans) \/ i = l
    BY <2>1
  <2>6. CASE mine
    <3>1. OkSpansOf(s)' = OkSpansOf(s) \cup {l}
      BY <1>o, <2>1, <2>2, <2>3, <2>4, <2>5, <2>6
    <3>2. Cardinality(OkSpansOf(s) \cup {l}) = Cardinality(OkSpansOf(s)) + 1
      BY <1>o, SpansFinite, FS_AddElement
    <3> QED
      BY <2>6, <3>1, <3>2
  <2>7. CASE ~mine
    <3>1. OkSpansOf(s)' = OkSpansOf(s)
      BY <1>o, <2>1, <2>2, <2>3, <2>4, <2>5, <2>7
    <3> QED
      BY <2>7, <3>1
  <2> QED
    BY <2>6, <2>7
<1>d. ASSUME NEW err \in {0, 1}, KindAt(r) \in Claimed, Dispatched(r, err)
      PROVE  stats'[s].dispatched - stats'[s].errors =
               stats[s].dispatched - stats[s].errors
               + (IF SpecialistOf[KindAt(r)] = s THEN 1 - err ELSE 0)
  <2>1. stats'[s] = IF SpecialistOf[KindAt(r)] = s
                    THEN [dispatched |-> stats[s].dispatched + 1, errors |-> stats[s].errors + err]
                    ELSE stats[s]
    BY <1>t, <1>d DEF Dispatched
  <2> QED
    BY <1>t, <2>1
<1>c. Cardinality(OkSpansOf(s)) \in Nat
  BY <1>o, SpansFinite
<1>1. CASE UNCHANGED <<stats, spans>>
  BY <1>1, <1>k DEF Balanced
<1>2. CASE cursor[r] \in Node /\ UNCHANGED stats /\ Log(r, FALSE)
  <2> DEFINE no == FALSE
  <2>1. no \in BOOLEAN /\ Log(r, no) /\ ~no
    BY <1>2
  <2> HIDE DEF no
  <2> QED
    BY <1>2, <1>l, <2>1 DEF Balanced
<1> DEFINE yes == TRUE
<1>y. yes \in BOOLEAN /\ yes /\ (Log(r, TRUE) => Log(r, yes))
  OBVIOUS
<1> HIDE DEF yes
<1>3. CASE cursor[r] \in Node /\ UNCHANGED stats /\ Log(r, TRUE) /\ KindAt(r) \notin Claimed
  BY <1>3, <1>l, <1>y DEF Balanced
<1>4. CASE KindAt(r) \in Claimed /\ Dispatched(r, 1) /\ UNCHANGED spans
  BY <1>4, <1>d, <1>k, <1>t DEF Balanced
<1>5. CASE cursor[r] \in Node /\ KindAt(r) \in Claimed /\ Dispatched(r, 0) /\ Log(r, TRUE)
  <2>1. stats'[s].dispatched - stats'[s].errors =
               stats[s].dispatched - stats[s].errors
               + (IF SpecialistOf[KindAt(r)] = s THEN 1 ELSE 0)
    BY <1>5, <1>d
  <2>2. Cardinality(OkSpansOf(s)') = Cardinality(OkSpansOf(s))
               + (IF SpecialistOf[KindAt(r)] = s THEN 1 ELSE 0)
    <3>1. CASE SpecialistOf[KindAt(r)] = s
      <4>1. Cardinality(OkSpansOf(s)') = Cardinality(OkSpansOf(s)) + 1
        BY <1>5, <1>l, <1>y, <3>1
      <4> QED
        BY <3>1, <4>1
    <3>2. CASE SpecialistOf[KindAt(r)] # s
      <4>1. OkSpansOf(s)' = OkSpansOf(s)
        BY <1>5, <1>l, <1>y, <3>2
      <4> QED
        BY <1>c, <3>2, <4>1
    <3> QED
      BY <3>1, <3>2
  <2> QED
    BY <1>t, <1>c, <2>1, <2>2 DEF Balanced
<1> QED
  BY <1>1, <1>2, <1>3, <1>4, <1>5, StepStats

(* The supervisor's statistics and the trace agree over all runs: a        *)
(* specialist's dispatches that did not raise are as many as the spans of  *)
(* nodes of its kinds that ended done, for any registry of specialists     *)
(* that leaves kb.lookup to the engine and any number of retries.  (Each   *)
(* record() is one step of the model.)                                     *)
THEOREM DispatchesAreAccounted == SafeSpec => []DispatchesAccounted
<1> DEFINE Inv == LookupKind \notin Claimed => \A s \in Specialist : Balanced(s)
<1>1. Init => Inv
  <2> SUFFICES ASSUME Init, NEW s \in Specialist PROVE Balanced(s)
    OBVIOUS
  <2>1. OkSpansOf(s) = {} /\ stats[s].dispatched = 0 /\ stats[s].errors = 0
    BY DEF Init, OkSpansOf
  <2> QED
    BY <2>1, FS_EmptySet DEF Balanced
<1>2. TypeInv /\ Inv /\ [Next]_vars => Inv'
  <2> SUFFICES ASSUME TypeInv, Inv, [Next]_vars, LookupKind \notin Claimed, NEW s \in Specialist
               PROVE  Balanced(s)'
    OBVIOUS
  <2>0. Balanced(s)
    OBVIOUS
  <2>1. CASE UNCHANGED <<stats, spans>>
    BY <2>0, <2>1 DEF Balanced, OkSpansOf
  <2>2. ASSUME NEW r \in Run, Step(r) PROVE Balanced(s)'
    BY <2>0, <2>2, StepBalanced
  <2>3. CASE \/ \E r \in Run, p \in Plans : Submit(r, p)
             \/ \E o \in Op, kind \in TokenKind : Approve(o, kind)
             \/ \E n \in Parkable : Park(n) \/ Release(n)
    BY <2>1, <2>3 DEF Submit, Approve, Park, Release, sharedVars
  <2> QED
    BY <2>1, <2>2, <2>3 DEF Next, vars, sharedVars
<1>3. Inv => DispatchesAccounted
  BY DEF Balanced, DispatchesAccounted
<1> QED
  BY <1>1, <1>2, <1>3, AlwaysTypeInv, PTL DEF SafeSpec

-----------------------------------------------------------------------------
(* The tokens of a process that serves one request at a time.              *)
OneThread == \A r, q \in Run : r = q

\* A part of a sequence, by its first and its last index.
LEMMA Slice ==
  ASSUME NEW S, NEW s \in Seq(S), NEW m \in Nat \ {0}, NEW k \in Nat,
         m <= k + 1, k <= Len(s)
  PROVE  /\ SubSeq(s, m, k) \in Seq(S)
         /\ Len(SubSeq(s, m, k)) = k - m + 1
         /\ \A j \in 1..k - m + 1 : SubSeq(s, m, k)[j] = s[m + j - 1]
<1>1. \A j \in m..k : s[j] \in S
  BY ElementOfSeq
<1>2. m \in Int /\ k \in Int /\ (IF m <= k THEN k - m + 1 ELSE 0) = k - m + 1
  OBVIOUS
<1> QED
  BY <1>1, <1>2, SubSeqProperties

\* What is left of a list of the elements of a set after one is removed.
LEMMA ListsRemoveAt ==
  ASSUME NEW S, NEW s \in Seq(S), NEW T, Lists(s, T), NEW i \in 1..Len(s)
  PROVE  Lists(RemoveAt(s, i), T \ {s[i]})
<1> DEFINE a == SubSeq(s, 1, i-1)
           b == SubSeq(s, i+1, Len(s))
           t == RemoveAt(s, i)
           n == Len(s)
           from(j) == IF j < i THEN j ELSE j + 1
<1>0. n \in Nat /\ i \in Nat /\ i >= 1 /\ i <= n /\ DOMAIN s = 1..n
  OBVIOUS
<1>1. /\ a \in Seq(S) /\ Len(a) = i - 1 /\ \A j \in 1..i-1 : a[j] = s[j]
      /\ b \in Seq(S) /\ Len(b) = n - i /\ \A j \in 1..n-i : b[j] = s[i + j]
  <2> HIDE DEF n
  <2>1. /\ i - 1 \in Nat /\ 1 <= (i - 1) + 1 /\ i - 1 <= n
        /\ i + 1 \in Nat \ {0} /\ i + 1 <= n + 1 /\ n <= n
    BY <1>0
  <2>2. /\ a \in Seq(S) /\ Len(a) = (i - 1) - 1 + 1
        /\ \A j \in 1..(i - 1) - 1 + 1 : a[j] = s[1 + j - 1]
    BY <1>0, <2>1, Slice DEF n
  <2>3. /\ b \in Seq(S) /\ Len(b) = n - (i + 1) + 1
        /\ \A j \in 1..n - (i + 1) + 1 : b[j] = s[(i + 1) + j - 1]
    <3> DEFINE m == i + 1
    <3>1. m \in Nat \ {0} /\ m <= n + 1 /\ n \in Nat /\ n <= Len(s) /\ b = SubSeq(s, m, n)
      BY <1>0, <2>1 DEF n
    <3> HIDE DEF m, b
    <3>2. /\ b \in Seq(S) /\ Len(b) = n - m + 1
          /\ \A j \in 1..n - m + 1 : b[j] = s[m + j - 1]
      BY <3>1, Slice
    <3> QED
      BY <3>2 DEF m
  <2>4. (i - 1) - 1 + 1 = i - 1 /\ n - (i + 1) + 1 = n - i
    BY <1>0
  <2>5. /\ \A j \in 1..i-1 : 1 + j - 1 = j
        /\ \A j \in 1..n-i : (i + 1) + j - 1 = i + j
    BY <1>0
  <2> HIDE DEF a, b
  <2>6. /\ Len(a) = i - 1 /\ \A j \in 1..i-1 : a[j] = s[1 + j - 1]
    BY <2>2, <2>4
  <2>7. /\ Len(b) = n - i /\ \A j \in 1..n-i : b[j] = s[(i + 1) + j - 1]
    BY <2>3, <2>4
  <2> QED
    BY <2>2, <2>3, <2>5, <2>6, <2>7
<1>2. t = a \o b
  BY DEF RemoveAt
<1> HIDE DEF a, b, t, n
<1>3. /\ Len(t) = n - 1 /\ DOMAIN t = 1..n-1
      /\ \A j \in 1..n-1 : t[j] = s[from(j)] /\ from(j) \in 1..n /\ from(j) # i
  <2>1. Len(t) = Len(a) + Len(b) /\ t \in Seq(S)
        /\ \A j \in 1..Len(a) + Len(b) : t[j] = IF j <= Len(a) THEN a[j] ELSE b[j - Len(a)]
    BY <1>1, <1>2, ConcatProperties
  <2>2. Len(t) = n - 1 /\ DOMAIN t = 1..n-1
    BY <1>0, <1>1, <2>1
  <2>3. ASSUME NEW j \in 1..n-1 PROVE t[j] = s[from(j)] /\ from(j) \in 1..n /\ from(j) # i
    <3>1. CASE j < i
      BY <1>0, <1>1, <2>1, <2>3, <3>1
    <3>2. CASE j >= i
      <4>1. j - (i-1) \in 1..n-i /\ i + (j - (i-1)) = j + 1 /\ ~(j <= i-1) /\ j \in 1..(i-1) + (n-i)
        BY <1>0, <2>3, <3>2
      <4>2. t[j] = b[j - (i-1)]
        BY <1>1, <2>1, <4>1
      <4>3. t[j] = s[j + 1]
        BY <1>1, <4>1, <4>2
      <4> QED
        BY <1>0, <2>3, <3>2, <4>3
    <3> QED
      BY <1>0, <2>3, <3>1, <3>2
  <2> QED
    BY <2>2, <2>3
<1>4. \A j, k \in 1..n : s[j] = s[k] => j = k
  BY <1>0 DEF Lists, IsInjective
<1>5. \A j, k \in 1..n-1 : from(j) = from(k) => j = k
  BY <1>0
<1>6. IsInjective(t)
  <2> SUFFICES ASSUME NEW j \in 1..n-1, NEW k \in 1..n-1, t[j] = t[k] PROVE j = k
    BY <1>3 DEF IsInjective
  <2> HIDE DEF from
  <2> QED
    BY <1>3, <1>4, <1>5
<1>7. ToSet(t) = T \ {s[i]}
  <2>1. ASSUME NEW x \in ToSet(t) PROVE x \in T \ {s[i]}
    <3>1. PICK j \in 1..n-1 : t[j] = x
      BY <1>3, <2>1 DEF ToSet
    <3>2. PICK k \in 1..n : k # i /\ x = s[k]
      BY <1>3, <3>1
    <3> QED
      BY <1>0, <1>4, <3>2 DEF Lists, ToSet
  <2>2. ASSUME NEW x \in T, x # s[i] PROVE x \in ToSet(t)
    <3>1. PICK k \in 1..n : s[k] = x
      BY <1>0, <2>2 DEF Lists, ToSet
    <3>2. k # i
      BY <2>2, <3>1
    <3>3. PICK j \in 1..n-1 : from(j) = k
      <4>1. CASE k < i
        <5>1. k \in 1..n-1 /\ from(k) = k
          BY <1>0, <3>1, <4>1
        <5> QED
          BY <5>1
      <4>2. CASE k > i
        <5>1. k - 1 \in 1..n-1 /\ from(k - 1) = k
          BY <1>0, <3>1, <4>2
        <5> QED
          BY <5>1
      <4> QED
        BY <1>0, <3>1, <3>2, <4>1, <4>2
    <3>4. t[j] = x /\ j \in DOMAIN t
      BY <1>3, <3>1, <3>3
    <3> QED
      BY <3>4 DEF ToSet
  <2> QED
    BY <2>1, <2>2
<1> QED
  BY <1>6, <1>7 DEF Lists, t

LEMMA ToSetAppend ==
  ASSUME NEW S, NEW s \in Seq(S), NEW x \in S
  PROVE  ToSet(Append(s, x)) = ToSet(s) \cup {x}
<1> DEFINE t == Append(s, x)
<1>1. /\ Len(s) \in Nat /\ DOMAIN s = 1..Len(s) /\ DOMAIN t = 1..Len(s) + 1
      /\ t[Len(s) + 1] = x /\ \A i \in 1..Len(s) : t[i] = s[i]
  OBVIOUS
<1> HIDE DEF t
<1>2. \A i \in 1..Len(s) + 1 : i \in 1..Len(s) \/ i = Len(s) + 1
  BY <1>1
<1>3. \A y \in ToSet(t) : y \in ToSet(s) \cup {x}
  BY <1>1, <1>2 DEF ToSet
<1>4. \A y \in ToSet(s) \cup {x} : y \in ToSet(t)
  BY <1>1 DEF ToSet
<1> QED
  BY <1>3, <1>4 DEF t

\* The registry holds the tokens that may still be used.  A thread has passed
\* over no token that covers its node, and pops the one it has seen.
Unspent == {id \in TokenId : IsOnce(id) => id \notin ToSet(allows)}
Asking(r) ==
  /\ phase[r] = "check" =>
       /\ scan[r] <= Len(tokens) + 1
       /\ \A i \in 1..Len(tokens) : i < scan[r] => ~Matches(tokens[i], KindAt(r))
  /\ phase[r] = "pop" =>
       scan[r] <= Len(tokens) /\ tokens[scan[r]] = held[r] /\ IsOnce(held[r])

TokenInv == Lists(tokens, Unspent) /\ OnceAuthorizesOnce /\ \A r \in Run : Asking(r)

LEMMA InitTokenInv == Init => TokenInv
<1> SUFFICES ASSUME Init PROVE TokenInv
  OBVIOUS
<1>1. /\ granted = <<>> /\ tokens = <<>> /\ allows = <<>>
      /\ \A r \in Run : phase[r] = "idle"
  BY DEF Init, PermissionInit
<1>2. TokenId = {}
  BY <1>1 DEF TokenId
<1>3. Lists(tokens, Unspent)
  BY <1>1, <1>2 DEF Lists, ToSet, IsInjective, Unspent
<1> QED
  BY <1>1, <1>3 DEF TokenInv, OnceAuthorizesOnce, Asking

\* What a step of a thread does to the tokens.
LEMMA StepAsks ==
  ASSUME TypeInv, NEW r \in Run, Step(r)
  PROVE  \/ /\ phase'[r] \notin {"check", "pop"}
            /\ \/ UNCHANGED permissionVars
               \/ phase[r] = "check" /\ AcceptStanding(r, KindAt(r))
               \/ phase[r] = "pop" /\ Pop(r)
         \/ AskBridge(r) \/ TryNextToken(r) \/ FindOnce(r)
<1>t. phase \in [Run -> Inside \cup Outside]
  BY DEF TypeInv, TypeOK
<1>1. CASE Skip(r) \/ StartUngated(r) \/ NextPass(r) \/ Return(r)
  BY <1>t, <1>1 DEF Skip, StartUngated, StartAttempts, NextPass, Return, AtNode, AtEnd, GoTo
<1>2. CASE Allow(r) \/ CheckRaises(r)
  BY <1>t, <1>2 DEF Allow, StartAttempts, CheckRaises, PopRaises, GoTo
<1>3. CASE ParkListed(r) \/ ParkUnapproved(r) \/ Deny(r) \/ GiveUp(r)
  BY <1>t, <1>3 DEF ParkListed, ParkUnapproved, Deny, GiveUp, NoToken, LeaveParked,
                    LeaveFailed, Leave, GoTo
<1>4. CASE AttemptRaises(r)
  BY <1>t, <1>4 DEF AttemptRaises, Attempting
<1>5. ASSUME NEW ev \in BOOLEAN, AttemptReturns(r, ev)
      PROVE  phase'[r] \notin {"check", "pop"} /\ UNCHANGED permissionVars
  BY <1>t, <1>5 DEF AttemptReturns, LeaveDone, Leave, GoTo
<1> QED
  BY <1>1, <1>2, <1>3, <1>4, <1>5 DEF Step, Walk, Check, Execute

\* An authorization spends the token it rests on if that is a once token.
LEMMA Authorized ==
  ASSUME PermissionTypeOK, OnceAuthorizesOnce, NEW id \in Unspent,
         granted' = granted, allows' = Append(allows, id)
  PROVE  /\ IsOnce(id) => Unspent' = Unspent \ {id}
         /\ ~IsOnce(id) => Unspent' = Unspent
         /\ OnceAuthorizesOnce'
<1>1. /\ TokenId' = TokenId /\ id \in TokenId /\ (IsOnce(id) => id \notin ToSet(allows))
      /\ \A x : IsOnce(x)' <=> IsOnce(x)
  BY DEF TokenId, IsOnce, Unspent
<1>s. allows \in Seq(TokenId)
  BY DEF PermissionTypeOK
<1>2. ToSet(allows') = ToSet(allows) \cup {id}
  <2>1. ToSet(Append(allows, id)) = ToSet(allows) \cup {id}
    BY <1>1, <1>s, ToSetAppend
  <2> QED
    BY <2>1
<1>3. Unspent' = {x \in TokenId : IsOnce(x) => x \notin ToSet(allows) \cup {id}}
  <2>1. ASSUME NEW x \in TokenId
        PROVE  (IsOnce(x) => x \notin ToSet(allows))'
                 <=> (IsOnce(x) => x \notin ToSet(allows) \cup {id})
    BY <1>1, <1>2
  <2> QED
    BY <1>1, <2>1 DEF Unspent
<1>4. /\ IsOnce(id) => Unspent' = Unspent \ {id}
      /\ ~IsOnce(id) => Unspent' = Unspent
  BY <1>3 DEF Unspent
<1>5. OnceAuthorizesOnce'
  <2>1. /\ Len(allows) \in Nat /\ DOMAIN allows = 1..Len(allows)
        /\ DOMAIN allows' = 1..Len(allows) + 1 /\ allows'[Len(allows) + 1] = id
        /\ \A i \in 1..Len(allows) : allows'[i] = allows[i]
    BY <1>1, <1>s
  <2>2. \A i \in 1..Len(allows) + 1 : i \in 1..Len(allows) \/ i = Len(allows) + 1
    BY <2>1
  <2>3. \A i \in 1..Len(allows) : allows[i] = id => ~IsOnce(id)
    BY <1>1, <2>1 DEF ToSet
  <2> SUFFICES ASSUME NEW i \in DOMAIN allows', NEW j \in DOMAIN allows',
                      i # j, allows'[i] = allows'[j]
               PROVE  ~IsOnce(allows'[i])
    BY <1>1 DEF OnceAuthorizesOnce
  <2>4. CASE i \in 1..Len(allows) /\ j \in 1..Len(allows)
    BY <2>1, <2>4 DEF OnceAuthorizesOnce
  <2>5. CASE i = Len(allows) + 1 \/ j = Len(allows) + 1
    <3>1. allows'[i] = id
      BY <2>1, <2>5
    <3>2. i \in 1..Len(allows) \/ j \in 1..Len(allows)
      BY <2>1, <2>2, <2>5
    <3> QED
      BY <2>1, <2>3, <3>1, <3>2
  <2> QED
    BY <2>1, <2>2, <2>4, <2>5
<1> QED
  BY <1>4, <1>5

\* The registry and the authorizations of a step that touches neither.
LEMMA SameTokens ==
  ASSUME TokenInv, UNCHANGED <<granted, tokens, allows>>
  PROVE  Lists(tokens, Unspent)' /\ OnceAuthorizesOnce'
<1>1. Unspent' = Unspent /\ \A x : IsOnce(x)' <=> IsOnce(x)
  BY DEF Unspent, TokenId, IsOnce
<1> QED
  BY <1>1 DEF TokenInv, OnceAuthorizesOnce, Lists

LEMMA StepTokenInv ==
  ASSUME OneThread, TypeInv, TokenInv, NEW r \in Run, Step(r)
  PROVE  TokenInv'
<1>t. /\ PermissionTypeOK /\ phase \in [Run -> Inside \cup Outside]
      /\ Len(tokens) \in Nat /\ scan[r] \in Nat \ {0}
  BY DEF TypeInv, TypeOK, PermissionTypeOK
<1>a. Lists(tokens, Unspent) /\ OnceAuthorizesOnce /\ Asking(r)
  BY DEF TokenInv
<1>o. Asking(r)' => \A q \in Run : Asking(q)'
  BY DEF OneThread
<1>q. phase'[r] \notin {"check", "pop"} => Asking(r)'
  BY DEF Asking
<1>i. \A i \in 1..Len(tokens) : tokens[i] \in Unspent
  BY <1>a DEF Lists, ToSet, PermissionTypeOK, TypeInv, TypeOK
<1>1. CASE phase'[r] \notin {"check", "pop"} /\ UNCHANGED permissionVars
  BY <1>1, <1>o, <1>q, SameTokens DEF TokenInv, permissionVars
<1>2. CASE /\ phase'[r] \notin {"check", "pop"}
           /\ phase[r] = "check" /\ AcceptStanding(r, KindAt(r))
  <2> DEFINE id == tokens[scan[r]]
  <2>1. /\ granted' = granted /\ tokens' = tokens /\ allows' = Append(allows, id)
        /\ ~IsOnce(id) /\ id \in Unspent
    BY <1>2, <1>t, <1>i DEF AcceptStanding, AtToken
  <2>2. Unspent' = Unspent /\ OnceAuthorizesOnce'
    BY <1>t, <1>a, <2>1, Authorized
  <2> QED
    BY <1>2, <1>a, <1>o, <1>q, <2>1, <2>2 DEF TokenInv, Lists
<1>3. CASE phase'[r] \notin {"check", "pop"} /\ phase[r] = "pop" /\ Pop(r)
  <2> DEFINE id == held[r]
  <2>1. /\ granted' = granted /\ allows' = Append(allows, id)
        /\ tokens' = RemoveAt(tokens, scan[r]) /\ scan[r] \in 1..Len(tokens)
        /\ tokens[scan[r]] = id /\ IsOnce(id)
    BY <1>3, <1>t, <1>a DEF Pop, AtToken, Asking
  <2>2. id \in Unspent
    BY <1>i, <2>1
  <2>3. Unspent' = Unspent \ {id} /\ OnceAuthorizesOnce'
    BY <1>t, <1>a, <2>1, <2>2, Authorized
  <2>4. Lists(tokens', Unspent \ {id})
    BY <1>t, <1>a, <2>1, ListsRemoveAt DEF PermissionTypeOK
  <2>5. Lists(tokens, Unspent)'
    BY <2>3, <2>4 DEF Lists
  <2> QED
    BY <1>3, <1>o, <1>q, <2>3, <2>5 DEF TokenInv
<1>4. CASE AskBridge(r)
  <2>1. scan'[r] = 1 /\ phase'[r] = "check" /\ UNCHANGED <<granted, tokens, allows>>
    BY <1>4, <1>t DEF AskBridge, BeginScan, GoTo, PermissionTypeOK
  <2>2. Asking(r)'
    BY <1>t, <2>1 DEF Asking
  <2> QED
    BY <1>o, <2>1, <2>2, SameTokens DEF TokenInv
<1>5. CASE TryNextToken(r)
  <2>1. /\ phase[r] = "check" /\ scan[r] <= Len(tokens)
        /\ ~Matches(tokens[scan[r]], KindAt(r)) /\ scan'[r] = scan[r] + 1
        /\ UNCHANGED <<granted, tokens, allows, plan, cursor, phase>>
    BY <1>5, <1>t DEF TryNextToken, PassOver, AtToken, runVars, requestVars, walkVars,
                      PermissionTypeOK
  <2>2. \A i \in 1..Len(tokens) : i < scan[r] + 1 => ~Matches(tokens[i], KindAt(r))
    BY <1>t, <1>a, <2>1 DEF Asking
  <2>3. Asking(r)'
    BY <1>t, <2>1, <2>2 DEF Asking, Matches, KindAt
  <2> QED
    BY <1>o, <2>1, <2>3, SameTokens DEF TokenInv
<1>6. CASE FindOnce(r)
  <2>1. /\ phase'[r] = "pop" /\ scan[r] <= Len(tokens) /\ IsOnce(tokens[scan[r]])
        /\ held'[r] = tokens[scan[r]] /\ UNCHANGED <<granted, tokens, allows, scan>>
    BY <1>6, <1>t DEF FindOnce, SeeOnce, AtToken, GoTo, PermissionTypeOK
  <2>2. Asking(r)'
    BY <2>1 DEF Asking, IsOnce
  <2> QED
    BY <1>o, <2>1, <2>2, SameTokens DEF TokenInv
<1> QED
  BY <1>1, <1>2, <1>3, <1>4, <1>5, <1>6, StepAsks

\* A grant puts a token at the end of the list, behind every thread's index.
LEMMA GrantTokenInv ==
  ASSUME TypeInv, TokenInv, NEW o \in Op, NEW kind \in TokenKind, Approve(o, kind)
  PROVE  TokenInv'
<1> DEFINE new == Len(granted) + 1
<1>1. /\ PermissionTypeOK /\ Lists(tokens, Unspent) /\ OnceAuthorizesOnce
      /\ tokens' = Append(tokens, new)
      /\ UNCHANGED <<allows, scan, held, plan, cursor, phase>>
  BY DEF TypeInv, TypeOK, TokenInv, Approve, Grant, runVars, requestVars, walkVars
<1>2. Len(granted') = new /\ \A id \in TokenId : granted'[id] = granted[id]
  BY <1>1, GrantKeepsTokens DEF Approve
<1>3. /\ Len(granted) \in Nat /\ TokenId' = TokenId \cup {new} /\ new \notin TokenId
  BY <1>1, <1>2 DEF TokenId, PermissionTypeOK
<1>4. /\ \A id \in TokenId : (IsOnce(id)' <=> IsOnce(id))
                             /\ \A k : Matches(id, k)' <=> Matches(id, k)
  BY <1>2 DEF IsOnce, Matches
<1>5. \A id \in ToSet(allows) : id \in TokenId
  BY <1>1 DEF PermissionTypeOK, ToSet
<1>6. Unspent' = Unspent \cup {new}
  <2>1. Unspent' = {id \in TokenId \cup {new} : IsOnce(id)' => id \notin ToSet(allows)}
    BY <1>1, <1>3 DEF Unspent
  <2>2. new \notin ToSet(allows)
    BY <1>3, <1>5
  <2> HIDE DEF new
  <2> QED
    BY <1>4, <2>1, <2>2 DEF Unspent
<1>7. Lists(tokens', Unspent \cup {new})
  <2>1. tokens \in Seq(Nat) /\ new \in Nat
    <3>1. TokenId \subseteq Nat /\ tokens \in Seq(TokenId) /\ new \in Nat
      BY <1>1, <1>3 DEF TokenId, PermissionTypeOK
    <3>2. Seq(TokenId) \subseteq Seq(Nat)
      BY <3>1, SeqMonotonic
    <3> QED
      BY <3>1, <3>2
  <2>2. new \notin Unspent
    BY <1>3 DEF Unspent
  <2> HIDE DEF new
  <2> QED
    BY <1>1, <2>1, <2>2, ListsAppend
<1>8. Lists(tokens, Unspent)'
  BY <1>6, <1>7 DEF Lists
<1>9. OnceAuthorizesOnce'
  <2>1. \A i \in DOMAIN allows : allows[i] \in TokenId
    BY <1>1 DEF PermissionTypeOK
  <2> QED
    BY <1>1, <1>4, <2>1 DEF OnceAuthorizesOnce
<1>10. ASSUME NEW r \in Run PROVE Asking(r)'
  <2>1. Asking(r)
    BY DEF TokenInv
  <2>2. /\ Len(tokens) \in Nat /\ Len(tokens') = Len(tokens) + 1 /\ scan[r] \in Nat
        /\ \A i \in 1..Len(tokens) : tokens'[i] = tokens[i] /\ tokens[i] \in TokenId
    BY <1>1, <1>3 DEF PermissionTypeOK
  <2>3. \A i \in 1..Len(tokens) + 1 : i < scan[r] /\ scan[r] <= Len(tokens) + 1
                                       => i \in 1..Len(tokens)
    BY <2>2
  <2>4. KindAt(r)' = KindAt(r)
    BY <1>1 DEF KindAt
  <2>5. phase[r] = "check" =>
          /\ scan[r] <= Len(tokens') + 1
          /\ \A i \in 1..Len(tokens') : i < scan[r] => ~Matches(tokens[i], KindAt(r))'
    <3> SUFFICES ASSUME phase[r] = "check"
                 PROVE  /\ scan[r] <= Len(tokens') + 1
                        /\ \A i \in 1..Len(tokens') :
                             i < scan[r] => ~Matches(tokens[i], KindAt(r))'
      OBVIOUS
    <3>1. scan[r] <= Len(tokens) + 1
      BY <2>1 DEF Asking
    <3>2. ASSUME NEW i \in 1..Len(tokens'), i < scan[r]
          PROVE  ~Matches(tokens[i], KindAt(r))'
      <4>1. i \in 1..Len(tokens) /\ tokens'[i] = tokens[i] /\ tokens[i] \in TokenId
        BY <2>2, <2>3, <3>1, <3>2
      <4>2. ~Matches(tokens[i], KindAt(r))
        BY <2>1, <3>2, <4>1 DEF Asking
      <4> QED
        BY <1>2, <2>4, <4>1, <4>2 DEF Matches
    <3> QED
      BY <2>2, <3>1, <3>2
  <2>6. phase[r] = "pop" =>
          scan[r] <= Len(tokens') /\ tokens'[scan[r]] = held[r] /\ IsOnce(held[r])'
    <3> SUFFICES ASSUME phase[r] = "pop"
                 PROVE  scan[r] <= Len(tokens') /\ tokens'[scan[r]] = held[r] /\ IsOnce(held[r])'
      OBVIOUS
    <3>1. scan[r] \in 1..Len(tokens)
      BY <1>1, <2>1, <2>2 DEF Asking, PermissionTypeOK
    <3> QED
      BY <1>1, <1>4, <2>1, <2>2, <3>1 DEF Asking
  <2> QED
    BY <1>1, <2>5, <2>6 DEF Asking
<1> QED
  BY <1>8, <1>9, <1>10 DEF TokenInv

LEMMA NextTokenInv ==
  ASSUME OneThread
  PROVE  TypeInv /\ TokenInv /\ [Next]_vars => TokenInv'
<1> SUFFICES ASSUME TypeInv, TokenInv, [Next]_vars PROVE TokenInv'
  OBVIOUS
<1>1. ASSUME NEW r \in Run, Step(r) PROVE TokenInv'
  BY <1>1, StepTokenInv
<1>2. ASSUME NEW r \in Run, NEW p \in Plans, Submit(r, p) PROVE TokenInv'
  <2>1. phase'[r] = "scan" /\ UNCHANGED <<granted, tokens, allows>>
    BY <1>2 DEF Submit, GoTo, permissionVars, TypeInv, TypeOK
  <2>2. \A q \in Run : Asking(q)'
    BY <2>1 DEF OneThread, Asking
  <2> QED
    BY <2>1, <2>2, SameTokens DEF TokenInv
<1>3. ASSUME NEW o \in Op, NEW kind \in TokenKind, Approve(o, kind) PROVE TokenInv'
  BY <1>3, GrantTokenInv
<1>4. ASSUME UNCHANGED <<runVars, permissionVars>> PROVE TokenInv'
  <2>1. UNCHANGED <<granted, tokens, allows, scan, held, plan, cursor, phase>>
    BY <1>4 DEF runVars, permissionVars, requestVars, walkVars
  <2>2. \A q \in Run : Asking(q)'
    BY <2>1 DEF TokenInv, Asking, Matches, IsOnce, KindAt
  <2> QED
    BY <2>1, <2>2, SameTokens DEF TokenInv
<1> QED
  BY <1>1, <1>2, <1>3, <1>4 DEF Next, Park, Release, vars

LEMMA AlwaysTokenInv ==
  ASSUME OneThread
  PROVE  SafeSpec => []TokenInv
<1>1. Init => TokenInv
  BY InitTokenInv
<1>2. TypeInv /\ TokenInv /\ [Next]_vars => TokenInv'
  BY NextTokenInv
<1> QED
  BY <1>1, <1>2, AlwaysTypeInv, PTL DEF SafeSpec

(* TokensAccounted: when one request runs at a time, has_token removes     *)
(* exactly the token its answer rests on, so every once token is in the    *)
(* registry or has authorized once.  Without OneThread it is false: two    *)
(* threads may see the same token, and the pop of the second takes another *)
(* one (run race).                                               *)
THEOREM TokensAreAccounted == OneThread => (SafeSpec => []TokensAccounted)
<1> SUFFICES ASSUME OneThread PROVE SafeSpec => []TokensAccounted
  OBVIOUS
<1>1. TokenInv => TokensAccounted
  BY DEF TokenInv, TokensAccounted, Unspent
<1>2. SafeSpec => []TokenInv
  BY AlwaysTokenInv
<1> QED
  BY <1>1, <1>2, PTL

\* A thread leaves the check without an answer only when no token is left.
LEMMA LeavesCheck ==
  ASSUME TypeInv, NEW r \in Run, Step(r), phase[r] = "check", phase'[r] = "scan"
  PROVE  NoToken(r)
<1>t. phase \in [Run -> Inside \cup Outside]
  BY DEF TypeInv, TypeOK
<1>1. CASE Walk(r)
  BY <1>1 DEF Walk, Skip, ParkListed, AskBridge, StartUngated, NextPass, Return,
              AtReady, AtNode, AtEnd
<1>2. CASE TryNextToken(r)
  BY <1>2 DEF TryNextToken, runVars
<1>3. CASE FindOnce(r) \/ Allow(r) \/ CheckRaises(r)
  BY <1>t, <1>3 DEF FindOnce, Allow, StartAttempts, CheckRaises, GoTo
<1>4. CASE ParkUnapproved(r) \/ Deny(r)
  BY <1>4 DEF ParkUnapproved, Deny
<1>5. CASE Execute(r)
  BY <1>5 DEF Execute, AttemptRaises, AttemptReturns, GiveUp, Attempting
<1> QED
  BY <1>1, <1>2, <1>3, <1>4, <1>5 DEF Step, Check

\* A search that ends has passed over every token that is not spent.
LEMMA SearchIsComplete ==
  ASSUME TypeInv, TokenInv, NEW r \in Run, phase[r] = "check", NoToken(r),
         NEW id \in TokenId, Matches(id, KindAt(r))
  PROVE  IsOnce(id)
<1> SUFFICES ASSUME ~IsOnce(id) PROVE FALSE
  OBVIOUS
<1>1. /\ Len(tokens) \in Nat /\ DOMAIN tokens = 1..Len(tokens) /\ scan[r] \in Nat
      /\ ~(scan[r] <= Len(tokens))
  BY DEF TypeInv, TypeOK, PermissionTypeOK, NoToken, AtToken
<1>2. id \in ToSet(tokens)
  BY DEF TokenInv, Lists, Unspent
<1>3. PICK i \in 1..Len(tokens) : tokens[i] = id
  BY <1>1, <1>2 DEF ToSet
<1>4. i < scan[r]
  BY <1>1
<1> QED
  BY <1>3, <1>4 DEF TokenInv, Asking

(* StandingApprovalHonoured: when one request runs at a time, the bridge   *)
(* parks or denies a node only if no session and no pattern token covers   *)
(* its kind.  Without OneThread a pop of another thread moves the tokens   *)
(* below the index of a search, which then misses one.                     *)
THEOREM StandingApprovals == OneThread => (SafeSpec => StandingApprovalHonoured)
<1> SUFFICES ASSUME OneThread PROVE SafeSpec => StandingApprovalHonoured
  OBVIOUS
<1>1. TypeInv /\ TokenInv /\ [Next]_vars
        => [\A r \in Run : (phase[r] = "check" /\ phase'[r] = "scan")
              => \A id \in TokenId : Matches(id, KindAt(r)) => IsOnce(id)]_vars
  <2> SUFFICES ASSUME TypeInv, TokenInv, Next, NEW r \in Run,
                      phase[r] = "check", phase'[r] = "scan"
               PROVE  \A id \in TokenId : Matches(id, KindAt(r)) => IsOnce(id)
    BY DEF vars
  <2>1. Step(r)
    <3>1. ASSUME NEW q \in Run, Step(q) PROVE Step(r)
      BY <3>1 DEF OneThread
    <3>2. ASSUME NEW q \in Run, NEW p \in Plans, Submit(q, p) PROVE Step(r)
      BY <3>2 DEF OneThread, Submit, Outside
    <3>3. ASSUME phase' = phase PROVE Step(r)
      BY <3>3
    <3> QED
      BY <3>1, <3>2, <3>3 DEF Next, Approve, Park, Release, runVars
  <2> QED
    BY <2>1, LeavesCheck, SearchIsComplete
<1>2. SafeSpec => []TypeInv
  BY AlwaysTypeInv
<1>3. SafeSpec => []TokenInv
  BY AlwaysTokenInv
<1> QED
  BY <1>1, <1>2, <1>3, PTL DEF SafeSpec, StandingApprovalHonoured
=============================================================================
