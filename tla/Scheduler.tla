------------------------------ MODULE Scheduler ------------------------------
(***************************************************************************)
(* SchedulerEngine.run (open_fang/scheduler/engine.py) with everything it  *)
(* calls that keeps state: the parking registry, the permission bridge and *)
(* its tokens (module Permissions), the retry policy, fault injection, the *)
(* supervisor's dispatch and its statistics, the tool-output sandbox and   *)
(* the span recorder.                                                      *)
(*                                                                         *)
(* One engine serves the whole process (app.py), so several request        *)
(* threads `Run` may be inside run() at once, each with a DAG of its own;  *)
(* they share the tokens, the parking registry, the statistics, the        *)
(* sandbox handles and the spans.                                          *)
(*                                                                         *)
(* A node is its position in dag.nodes, the order in which a pass visits.  *)
(***************************************************************************)
EXTENDS Permissions, Integers, FiniteSets, Functions

CONSTANTS
  N,             \* the number of nodes of a DAG
  Plans,         \* the DAGs that may be submitted
  SearchKinds,   \* the search.* kinds
  LookupKind,    \* kb.lookup
  Specialist,    \* the specialists' names
  SpecialistOf,  \* Supervisor._by_kind, a function on the kinds it claims
  Bridged,       \* a PermissionBridge is wired
  HasKB,         \* a KBStore is wired
  Sandboxed,     \* a ToolOutputSandbox is wired
  Chaos,         \* the fault kinds with a rule of positive probability
  MaxAttempts,   \* RetryPolicy.max_attempts
  Parkable,      \* bound: the nodes an operator may park
  MaxSubmits     \* bound: how many DAGs are submitted

Node == 1..N
Risk == {"low", "medium", "high"}
Plan == [deps : [Node -> SUBSET Node], kind : [Node -> Kind], risk : [Node -> Risk]]
Claimed == DOMAIN SpecialistOf

ASSUME SchedulerAssumption ==
  /\ N \in Nat
  /\ Plans # {} /\ Plans \subseteq Plan
  /\ SearchKinds \subseteq Kind
  /\ Claimed \subseteq Kind
  /\ \A k \in Claimed : SpecialistOf[k] \in Specialist
  /\ MaxAttempts \in Nat
  /\ Parkable \subseteq Node
  /\ MaxSubmits \in Nat

VARIABLES
  plan,       \* plan[r]: the DAG r is running
  status,     \* status[r][n]: node.status
  parked,     \* parked[r], failed[r]: the lists run() returns
  failed,
  evidence,   \* evidence[r]: the nodes whose output was added to the evidence
  phase,      \* phase[r]: where r is in run()
  cursor,     \* cursor[r]: the node the current pass is at
  pass,       \* pass[r]: the number of the current pass
  progressed, \* progressed[r]: the flag of the current pass
  attempt,    \* attempt[r]: failed attempts at the node being executed
  parking,    \* ParkingRegistry._parked
  stats,      \* SupervisorStats.per_specialist
  handles,    \* the keys of last_sandbox_handles
  spans,      \* SpanRecorder.spans
  submitted,  \* history: how many DAGs were submitted so far
  submission  \* history: submission[r] numbers the DAG r is running

requestVars == <<plan, submitted, submission>>
resultVars == <<status, parked, failed, evidence>>
walkVars == <<cursor, pass, progressed>>
runVars == <<requestVars, resultVars, walkVars, phase, attempt>>
sharedVars == <<parking, stats, handles, spans>>
vars == <<runVars, sharedVars, permissionVars>>

Status == {"pending", "done", "failed", "parked"}
Inside == {"scan", "check", "pop", "exec"}
Outside == {"idle", "returned", "raised"}
Span == [submission : Nat, node : Node, kind : Kind, ok : BOOLEAN]

TypeOK ==
  /\ PermissionTypeOK
  /\ plan \in [Run -> Plans]
  /\ status \in [Run -> [Node -> Status]]
  /\ parked \in [Run -> Seq(Node)]
  /\ failed \in [Run -> Seq(Node)]
  /\ evidence \in [Run -> Seq(Node)]
  /\ phase \in [Run -> Inside \cup Outside]
  /\ cursor \in [Run -> 1..N+1]
  /\ pass \in [Run -> Nat \ {0}]
  /\ progressed \in [Run -> BOOLEAN]
  /\ attempt \in [Run -> Nat]
  /\ parking \subseteq Node
  /\ stats \in [Specialist -> [dispatched : Nat, errors : Nat]]
  /\ handles \subseteq Node
  /\ spans \in Seq(Span)
  /\ submitted \in Nat
  /\ submission \in [Run -> Nat]

Init ==
  /\ PermissionInit
  /\ plan = [r \in Run |-> CHOOSE p \in Plans : TRUE]
  /\ status = [r \in Run |-> [n \in Node |-> "pending"]]
  /\ parked = [r \in Run |-> <<>>]
  /\ failed = [r \in Run |-> <<>>]
  /\ evidence = [r \in Run |-> <<>>]
  /\ phase = [r \in Run |-> "idle"]
  /\ cursor = [r \in Run |-> 1]
  /\ pass = [r \in Run |-> 1]
  /\ progressed = [r \in Run |-> FALSE]
  /\ attempt = [r \in Run |-> 0]
  /\ parking = {}
  /\ stats = [s \in Specialist |-> [dispatched |-> 0, errors |-> 0]]
  /\ handles = {}
  /\ spans = <<>>
  /\ submitted = 0
  /\ submission = [r \in Run |-> 0]

-----------------------------------------------------------------------------
GoTo(r, p) == phase' = [phase EXCEPT ![r] = p]

\* Faulty variant: a run starts on a DAG that keeps its old statuses.
StatusAsLeft(r) == status[r]

FreshStatus(r) == [n \in Node |-> "pending"]

(* run() is called with a DAG, from a request or another caller.           *)
Submit(r, p) ==
  /\ phase[r] \in Outside
  /\ submitted < MaxSubmits
  /\ plan' = [plan EXCEPT ![r] = p]
  /\ status' = [status EXCEPT ![r] = FreshStatus(r)]
  /\ parked' = [parked EXCEPT ![r] = <<>>]
  /\ failed' = [failed EXCEPT ![r] = <<>>]
  /\ evidence' = [evidence EXCEPT ![r] = <<>>]
  /\ GoTo(r, "scan")
  /\ cursor' = [cursor EXCEPT ![r] = 1]
  /\ pass' = [pass EXCEPT ![r] = 1]
  /\ progressed' = [progressed EXCEPT ![r] = FALSE]
  /\ submitted' = submitted + 1
  /\ submission' = [submission EXCEPT ![r] = submitted + 1]
  /\ UNCHANGED <<attempt, sharedVars, permissionVars>>

(* The walk over dag.nodes.                                                *)
\* Faulty variant: a failed or a parked dependency counts as settled.
ReadyOnceDecided(r, n) ==
  /\ status[r][n] = "pending"
  /\ \A d \in plan[r].deps[n] : status[r][d] # "pending"

Ready(r, n) ==
  /\ status[r][n] = "pending"
  /\ \A d \in plan[r].deps[n] : status[r][d] = "done"

AtNode(r) == phase[r] = "scan" /\ cursor[r] <= N
AtReady(r) == AtNode(r) /\ Ready(r, cursor[r])
KindAt(r) == plan[r].kind[cursor[r]]
RiskAt(r) == plan[r].risk[cursor[r]]

\* The loop body leaves the current node with status s and goes to the next.
Leave(r, s) ==
  /\ status' = [status EXCEPT ![r][cursor[r]] = s]
  /\ cursor' = [cursor EXCEPT ![r] = @ + 1]
  /\ GoTo(r, "scan")
  /\ UNCHANGED <<requestVars, pass, attempt>>

\* Faulty variant: the parked node is not put on the list.
LeaveParkedUnlisted(r) ==
  /\ Leave(r, "parked")
  /\ UNCHANGED <<parked, failed, evidence, progressed, sharedVars>>

LeaveParked(r) ==
  /\ Leave(r, "parked")
  /\ parked' = [parked EXCEPT ![r] = Append(@, cursor[r])]
  /\ UNCHANGED <<failed, evidence, progressed, sharedVars>>

\* Faulty variant: only what succeeds leaves a span.
LogSuccess(r, ok) ==
  spans' = IF ok THEN Append(spans, [submission |-> submission[r], node |-> cursor[r],
                                     kind |-> KindAt(r), ok |-> ok])
                 ELSE spans

Log(r, ok) ==
  spans' = Append(spans, [submission |-> submission[r], node |-> cursor[r],
                          kind |-> KindAt(r), ok |-> ok])

LeaveFailed(r) ==
  /\ Leave(r, "failed")
  /\ failed' = [failed EXCEPT ![r] = Append(@, cursor[r])]
  /\ UNCHANGED <<parked, evidence, parking, stats, handles>>

LeaveDone(r, ev) ==
  /\ Leave(r, "done")
  /\ evidence' = IF ev THEN [evidence EXCEPT ![r] = Append(@, cursor[r])]
                       ELSE evidence
  /\ progressed' = [progressed EXCEPT ![r] = TRUE]
  /\ Log(r, TRUE)
  /\ UNCHANGED <<parked, failed, parking>>

Skip(r) ==
  /\ AtNode(r)
  /\ ~Ready(r, cursor[r])
  /\ cursor' = [cursor EXCEPT ![r] = @ + 1]
  /\ UNCHANGED <<requestVars, resultVars, pass, progressed, phase, attempt,
                 sharedVars, permissionVars>>

ParkListed(r) ==
  /\ AtReady(r)
  /\ cursor[r] \in parking
  /\ LeaveParked(r)
  /\ UNCHANGED permissionVars

\* Faulty variant: only high risk is gated.
NeedsTokenIfHigh(r) == Bridged /\ RiskAt(r) = "high"

\* PermissionBridge.check is asked only when a bridge is wired, and answers
\* "allow" at once for the nodes of low risk.
NeedsToken(r) == Bridged /\ RiskAt(r) # "low"

AskBridge(r) ==
  /\ AtReady(r)
  /\ cursor[r] \notin parking
  /\ NeedsToken(r)
  /\ BeginScan(r)
  /\ GoTo(r, "check")
  /\ UNCHANGED <<requestVars, resultVars, walkVars, attempt, sharedVars>>

StartAttempts(r) ==
  /\ GoTo(r, "exec")
  /\ attempt' = [attempt EXCEPT ![r] = 0]
  /\ UNCHANGED <<requestVars, resultVars, walkVars, sharedVars>>

StartUngated(r) ==
  /\ AtReady(r)
  /\ cursor[r] \notin parking
  /\ ~NeedsToken(r)
  /\ StartAttempts(r)
  /\ UNCHANGED permissionVars

-----------------------------------------------------------------------------
(* PermissionBridge.check, around TokenRegistry.has_token.                 *)
TryNextToken(r) ==
  /\ phase[r] = "check"
  /\ PassOver(r, KindAt(r))
  /\ UNCHANGED <<runVars, sharedVars>>

FindOnce(r) ==
  /\ phase[r] = "check"
  /\ SeeOnce(r, KindAt(r))
  /\ GoTo(r, "pop")
  /\ UNCHANGED <<requestVars, resultVars, walkVars, attempt, sharedVars>>

Allow(r) ==
  /\ \/ phase[r] = "check" /\ AcceptStanding(r, KindAt(r))
     \/ phase[r] = "pop" /\ Pop(r)
  /\ StartAttempts(r)

ParkUnapproved(r) ==
  /\ phase[r] = "check"
  /\ NoToken(r)
  /\ RiskAt(r) # "high"
  /\ LeaveParked(r)

Deny(r) ==
  /\ phase[r] = "check"
  /\ NoToken(r)
  /\ RiskAt(r) = "high"
  /\ LeaveFailed(r)
  /\ Log(r, FALSE)
  /\ UNCHANGED progressed

\* The check is outside the try of the loop body: its exception leaves run().
CheckRaises(r) ==
  /\ phase[r] = "pop"
  /\ PopRaises(r)
  /\ GoTo(r, "raised")
  /\ UNCHANGED <<requestVars, resultVars, walkVars, attempt, sharedVars>>

-----------------------------------------------------------------------------
(* _execute_with_retry: one call of _execute per step.  `attempt` counts   *)
(* the calls that raised; with max_attempts = 0 none is made and the       *)
(* assertion after the loop fails the node.                                *)
Attempting(r) == phase[r] = "exec" /\ attempt[r] < MaxAttempts

\* Faulty variant: a call that raised is counted as an error only.
DispatchedUnlessError(r, err) ==
  stats' = [stats EXCEPT ![SpecialistOf[KindAt(r)]] =
              [dispatched |-> @.dispatched + (1 - err), errors |-> @.errors + err]]

\* Supervisor.dispatch has called the specialist and recorded it.
Dispatched(r, err) ==
  stats' = [stats EXCEPT ![SpecialistOf[KindAt(r)]] =
              [dispatched |-> @.dispatched + 1, errors |-> @.errors + err]]

\* A fault is injected, or the specialist, the source or the KB raised.
AttemptRaises(r) ==
  /\ Attempting(r)
  /\ \/ /\ KindAt(r) \in SearchKinds /\ "network_drop" \in Chaos
        /\ UNCHANGED stats
     \/ KindAt(r) \in Claimed /\ Dispatched(r, 1)
     \/ /\ KindAt(r) \in (SearchKinds \cup IF HasKB THEN {LookupKind} ELSE {}) \ Claimed
        /\ UNCHANGED stats
  /\ attempt' = [attempt EXCEPT ![r] = @ + 1]
  /\ UNCHANGED <<requestVars, resultVars, walkVars, phase, parking, handles, spans,
                 permissionVars>>

\* `ev`: the output is a list with Evidence in it.
AttemptReturns(r, ev) ==
  /\ Attempting(r)
  /\ \/ /\ KindAt(r) = LookupKind /\ "memory_drop" \in Chaos /\ ~ev
        /\ UNCHANGED <<stats, handles>>
     \/ KindAt(r) \in Claimed /\ Dispatched(r, 0) /\ UNCHANGED handles
     \/ /\ KindAt(r) \in SearchKinds \ Claimed
        /\ handles' \in {handles} \cup
             (IF Sandboxed /\ ev THEN {handles \cup {cursor[r]}} ELSE {})
        /\ UNCHANGED stats
     \/ /\ KindAt(r) \notin SearchKinds \cup Claimed
        /\ ev => KindAt(r) = LookupKind /\ HasKB
        /\ UNCHANGED <<stats, handles>>
  /\ LeaveDone(r, ev)
  /\ UNCHANGED permissionVars

GiveUp(r) ==
  /\ phase[r] = "exec"
  /\ attempt[r] >= MaxAttempts
  /\ LeaveFailed(r)
  /\ progressed' = [progressed EXCEPT ![r] = TRUE]
  /\ Log(r, FALSE)
  /\ UNCHANGED permissionVars

-----------------------------------------------------------------------------
(* The end of a pass: range(len(dag.nodes) * 3) bounds their number.       *)
\* Faulty variant: the pass is over when it reaches the last node.
AtLast(r) == phase[r] = "scan" /\ cursor[r] = N

AtEnd(r) == phase[r] = "scan" /\ cursor[r] = N + 1

\* Faulty variant: one pass over the nodes is taken to be enough.
AnyPass(r) == TRUE

LastPass(r) == ~progressed[r] \/ pass[r] >= 3 * N

NextPass(r) ==
  /\ AtEnd(r)
  /\ ~LastPass(r)
  /\ pass' = [pass EXCEPT ![r] = @ + 1]
  /\ cursor' = [cursor EXCEPT ![r] = 1]
  /\ progressed' = [progressed EXCEPT ![r] = FALSE]
  /\ UNCHANGED <<requestVars, resultVars, phase, attempt, sharedVars, permissionVars>>

Return(r) ==
  /\ AtEnd(r)
  /\ LastPass(r)
  /\ GoTo(r, "returned")
  /\ UNCHANGED <<requestVars, resultVars, walkVars, attempt, sharedVars, permissionVars>>

-----------------------------------------------------------------------------
(* The user and the operator, at any moment.                               *)
Approve(o, kind) == Grant(o, kind) /\ UNCHANGED <<runVars, sharedVars>>

Park(n) ==
  /\ n \notin parking
  /\ parking' = parking \cup {n}
  /\ UNCHANGED <<runVars, stats, handles, spans, permissionVars>>

Release(n) ==
  /\ n \in parking
  /\ parking' = parking \ {n}
  /\ UNCHANGED <<runVars, stats, handles, spans, permissionVars>>

Walk(r) == Skip(r) \/ ParkListed(r) \/ AskBridge(r) \/ StartUngated(r)
           \/ NextPass(r) \/ Return(r)
Check(r) == TryNextToken(r) \/ FindOnce(r) \/ Allow(r) \/ ParkUnapproved(r)
            \/ Deny(r) \/ CheckRaises(r)
Execute(r) ==
  AttemptRaises(r) \/ GiveUp(r) \/ \E ev \in BOOLEAN : AttemptReturns(r, ev)

\* What the thread r does once it is inside run().
Step(r) == Walk(r) \/ Check(r) \/ Execute(r)

Next ==
  \/ \E r \in Run : Step(r) \/ \E p \in Plans : Submit(r, p)
  \/ \E o \in Op, kind \in TokenKind : Approve(o, kind)
  \/ \E n \in Parkable : Park(n) \/ Release(n)

\* A request thread is never blocked inside run(), so it keeps taking steps.
\* Nothing obliges a user to submit or to approve, or an operator to release.
Fairness == \A r \in Run : WF_vars(Step(r))

SafeSpec == Init /\ [][Next]_vars
Spec == SafeSpec /\ Fairness
-----------------------------------------------------------------------------
(* Properties.                                                             *)

(* A node leaves "pending" only when everything it depends on is done, and *)
(* nothing done is ever undone: the verdicts of a DAG are closed under     *)
(* dependency, whatever the order of dag.nodes, the pass, the retries and  *)
(* the other threads' progress.                                            *)
DecidedAfterDependencies ==
  \A r \in Run, n \in Node :
    status[r][n] # "pending" => \A d \in plan[r].deps[n] : status[r][d] = "done"

\* The sequence s lists the elements of S, each once.
Lists(s, S) == ToSet(s) = S /\ IsInjective(s)
WithStatus(r, s) == {n \in Node : status[r][n] = s}

(* What run() returns agrees with the statuses it leaves in the DAG: every *)
(* parked and every failed node is reported exactly once, and the evidence *)
(* comes from done nodes, each contributing once however often it was      *)
(* attempted.                                                              *)
ReportedOnce ==
  \A r \in Run :
    /\ Lists(parked[r], WithStatus(r, "parked"))
    /\ Lists(failed[r], WithStatus(r, "failed"))
    /\ ToSet(evidence[r]) \subseteq WithStatus(r, "done")
    /\ IsInjective(evidence[r])

(* run() returns only when no node is left that could be started: neither  *)
(* the "no progress" exit, which ignores parkings and denials, nor the     *)
(* bound of 3 * N passes ever gives up on a runnable node.                 *)
QuiescentAtReturn ==
  \A r \in Run : phase[r] = "returned" => \A n \in Node : ~Ready(r, n)

(* With a bridge wired, no node of medium or high risk is executed unless  *)
(* the user has granted some token that covers its kind.                   *)
GatedNodesApproved ==
  \A r \in Run, n \in Node :
    (Bridged /\ plan[r].risk[n] # "low" /\ status[r][n] = "done")
      => \E id \in TokenId : Matches(id, plan[r].kind[n])

(* The trace of a run: one span for each node that was executed or denied, *)
(* with the verdict the node has, and none for a parked or an unstarted    *)
(* node, also while other threads log into the same recorder.              *)
SpansOf(r, n) ==
  {i \in DOMAIN spans : spans[i].submission = submission[r] /\ spans[i].node = n}

TraceMatchesOutcome ==
  \A r \in Run, n \in Node :
    /\ Cardinality(SpansOf(r, n)) = IF status[r][n] \in {"done", "failed"} THEN 1 ELSE 0
    /\ \A i \in SpansOf(r, n) : spans[i].ok = (status[r][n] = "done")

(* An approve-once token authorizes once.                                  *)
OnceAuthorizesOnce ==
  \A i, j \in DOMAIN allows :
    (i # j /\ allows[i] = allows[j]) => ~IsOnce(allows[i])

(* Every once token is in the registry or has been spent on one            *)
(* authorization, never on two, and every standing token stays: has_token  *)
(* removes exactly the token its answer rests on.                          *)
TokensAccounted ==
  /\ Lists(tokens, {id \in TokenId : IsOnce(id) => id \notin ToSet(allows)})
  /\ OnceAuthorizesOnce

(* Once the user has granted a session or a pattern token, no node that it *)
(* covers is parked or denied by the bridge any more, in this run or in a  *)
(* later one.                                                              *)
StandingApprovalHonoured ==
  [][\A r \in Run :
       (phase[r] = "check" /\ phase'[r] = "scan")
         => \A id \in TokenId : Matches(id, KindAt(r)) => IsOnce(id)]_vars

(* The statistics of the supervisor agree with the trace, over all runs: a *)
(* specialist's dispatches that did not raise are exactly the spans of the *)
(* nodes of its kinds that ended done.  (A memory_drop completes a node    *)
(* without a dispatch, so kb.lookup must be left to the engine for this.)  *)
OkSpansOf(s) ==
  {i \in DOMAIN spans : /\ spans[i].ok
                        /\ spans[i].kind \in Claimed
                        /\ SpecialistOf[spans[i].kind] = s}

DispatchesAccounted ==
  LookupKind \notin Claimed =>
    \A s \in Specialist :
      stats[s].dispatched - stats[s].errors = Cardinality(OkSpansOf(s))

(* A thread that entered run() leaves it.                                  *)
RunsEnd == \A r \in Run : phase[r] \in Inside ~> phase[r] \in Outside

(* Each thread's use of run() implements the abstract execution of a DAG.  *)
Dag(r) == INSTANCE DagRun WITH
  Shape <- {p.deps : p \in Plans},
  deps <- plan[r].deps,
  status <- status[r],
  state <- IF phase[r] \in Inside THEN "live" ELSE phase[r]

StepsOfDagRun == [][\A r \in Run : [Dag(r)!Next]_(Dag(r)!dagVars)]_vars

ImplementsDagRun ==
  /\ \A r \in Run : Dag(r)!Init
  /\ StepsOfDagRun
  /\ \A r \in Run : Dag(r)!Fairness
=============================================================================
