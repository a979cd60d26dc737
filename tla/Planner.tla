------------------------------ MODULE Planner ------------------------------
(***************************************************************************)
(* The planner of open_fang/planner/: it asks a model for a plan, takes    *)
(* the reply if it is a DAG of well-formed nodes, and otherwise falls back *)
(* to the canonical plan.  The search for cycles is modelled call by call, *)
(* with the stack that the recursion keeps.                                *)
(*                                                                         *)
(* A node is its id and the ids it depends on; a node of a reply also says *)
(* whether the rest of it is as it must be (an object with a known kind,   *)
(* args and risk that the model classes take).                             *)
(***************************************************************************)
EXTENDS Integers, Sequences, FiniteSets, SequencesExt

CONSTANTS
  Id,          \* ids that replies use
  StackLimit   \* how many calls the interpreter nests

ASSUME PlannerAssumption == StackLimit \in Nat

VARIABLE
  plan         \* what plan() is at

NoPlan == [phase |-> "idle"]

PlannerInit == plan = NoPlan

At(id, deps) == [id |-> id, deps |-> deps]

Canonical == << At("R1", <<>>), At("R2", <<>>), At("R3", <<"R2">>), At("R4", <<"R3">>),
                At("R5", <<"R4">>), At("R6", <<"R1", "R5">>) >>

Ids(nodes) == {nodes[i].id : i \in DOMAIN nodes}
DepsOf(nodes, id) ==
  UNION {ToSet(nodes[i].deps) : i \in {j \in DOMAIN nodes : nodes[j].id = id}}

Settled(nodes) == [plan EXCEPT !.phase = "planned", !.nodes = nodes]
Raised == [plan EXCEPT !.phase = "raised"]

-----------------------------------------------------------------------------
(* The reply.                                                              *)

\* No model, no text, or text that is not JSON.
NoReply == [form |-> "none", nodes |-> <<>>]
\* JSON, but not an object: it has no get, and that is not caught; nor is an error
\* of the model's service.
BareValue == [form |-> "value", nodes |-> <<>>]
Object(nodes) == [form |-> "object", nodes |-> nodes]
Raw(ok, id, deps) == [ok |-> ok, id |-> id, deps |-> deps]

IsReply(reply) ==
  \/ reply \in {NoReply, BareValue}
  \/ /\ reply = Object(reply.nodes)
     /\ reply.nodes \in Seq([ok : BOOLEAN, id : Id, deps : Seq(Id)])

WellFormed(nodes) == nodes # <<>> /\ \A i \in DOMAIN nodes : nodes[i].ok

Dag(nodes) == [i \in DOMAIN nodes |-> At(nodes[i].id, nodes[i].deps)]

Unique(nodes) == Cardinality(Ids(nodes)) = Len(nodes)
Resolves(nodes) == \A i \in DOMAIN nodes : ToSet(nodes[i].deps) \subseteq Ids(nodes)

Asking(reply) ==
  [phase |-> "searching", reply |-> reply, nodes |-> Dag(reply.nodes),
   root |-> 1, stack |-> <<>>, visited |-> {}]

\* A blank question raises before anybody is asked.
BlankQuestion ==
  /\ plan.phase = "idle"
  /\ plan' = [Asking(NoReply) EXCEPT !.phase = "raised"]

AskPlan(reply) ==
  LET asked == Asking(reply)
      proper == /\ reply.form = "object" /\ WellFormed(reply.nodes)
                /\ Unique(asked.nodes) /\ Resolves(asked.nodes)
  IN /\ plan.phase = "idle"
     /\ plan' = IF reply.form = "value" THEN [asked EXCEPT !.phase = "raised"]
                ELSE IF proper THEN asked
                ELSE [asked EXCEPT !.phase = "planned", !.nodes = Canonical]

-----------------------------------------------------------------------------
(* dfs.  A frame is a node and the place of the dependency it goes to next;*)
(* the nodes on the stack are those being visited.                         *)

Searching == plan.phase = "searching"
Frame(id) == [id |-> id, next |-> 1]
Top == Last(plan.stack)
DepsAt(id) == plan.nodes[CHOOSE i \in DOMAIN plan.nodes : plan.nodes[i].id = id].deps

\* Faulty variant: only the node that the call came from is remembered.
VisitingCaller == {Top.id}

Visiting == {plan.stack[i].id : i \in DOMAIN plan.stack}

\* The call dfs(id) from below, which goes on at the next place when it returns.
CallDfs(id, below) ==
  IF Len(plan.stack) = StackLimit THEN Raised
  ELSE IF id \in plan.visited THEN [plan EXCEPT !.stack = below]
  ELSE IF plan.stack # <<>> /\ id \in Visiting THEN Settled(Canonical)
  ELSE [plan EXCEPT !.stack = Append(below, Frame(id))]

SearchFrom ==
  /\ Searching /\ plan.stack = <<>> /\ plan.root <= Len(plan.nodes)
  /\ plan' = [CallDfs(plan.nodes[plan.root].id, <<>>) EXCEPT !.root = @ + 1]

SearchDependency ==
  /\ Searching /\ plan.stack # <<>> /\ Top.next <= Len(DepsAt(Top.id))
  /\ plan' = CallDfs(DepsAt(Top.id)[Top.next],
                     Append(Front(plan.stack), [Top EXCEPT !.next = @ + 1]))

SearchReturns ==
  /\ Searching /\ plan.stack # <<>> /\ Top.next > Len(DepsAt(Top.id))
  /\ plan' = [plan EXCEPT !.stack = Front(@), !.visited = @ \cup {Top.id}]

NoCycle ==
  /\ Searching /\ plan.stack = <<>> /\ plan.root > Len(plan.nodes)
  /\ plan' = Settled(plan.nodes)

PlannerStep == SearchFrom \/ SearchDependency \/ SearchReturns \/ NoCycle

-----------------------------------------------------------------------------
(* Properties.                                                             *)

\* Every set of nodes has one that depends on none of them.
Acyclic(nodes) ==
  \A S \in SUBSET Ids(nodes) : S # {} => \E id \in S : DepsOf(nodes, id) \cap S = {}

IsDag(nodes) ==
  nodes # <<>> /\ Unique(nodes) /\ Resolves(nodes) /\ Acyclic(nodes)

\* The scheduler is given a DAG, whatever the model says: the one it proposes if
\* that is one, the canonical one if it is not; the search finds a cycle just
\* when there is one (DAGPlanner.plan, validate_dag).
PlanIsDag ==
  /\ plan.phase = "planned" =>
       /\ IsDag(plan.nodes)
       /\ plan.nodes =
            IF WellFormed(plan.reply.nodes) /\ IsDag(Dag(plan.reply.nodes))
            THEN Dag(plan.reply.nodes) ELSE Canonical
  /\ plan.phase = "raised" /\ plan.reply.form = "object" =>
       Cardinality(Ids(plan.nodes)) >= StackLimit
=============================================================================
