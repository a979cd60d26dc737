------------------------------- MODULE DagRun --------------------------------
(***************************************************************************)
(* What SchedulerEngine.run promises of one DAG, whatever passes, retries, *)
(* permission checks and faults it takes: every node is decided at most    *)
(* once, only when everything it depends on is done, and the call returns  *)
(* only when no undecided node could still be started.  A run may also be  *)
(* cut short by an exception.  Scheduler is shown to implement this.       *)
(***************************************************************************)
EXTENDS Naturals

CONSTANTS
  Node,     \* the nodes of a DAG
  Shape     \* the dependency functions a submitted DAG may have

VARIABLES
  deps,     \* deps[n]: the nodes n depends on
  status,   \* status[n]
  state     \* "idle" before the first run, then "live", "returned" or "raised"

dagVars == <<deps, status, state>>

Decision == {"done", "failed", "parked"}

Startable(n) ==
  /\ status[n] = "pending"
  /\ \A d \in deps[n] : status[d] = "done"

Init ==
  /\ deps \in Shape
  /\ status = [n \in Node |-> "pending"]
  /\ state = "idle"

Start ==
  /\ state # "live"
  /\ deps' \in Shape
  /\ status' = [n \in Node |-> "pending"]
  /\ state' = "live"

Decide(n) ==
  /\ state = "live"
  /\ Startable(n)
  /\ \E s \in Decision : status' = [status EXCEPT ![n] = s]
  /\ UNCHANGED <<deps, state>>

Return ==
  /\ state = "live"
  /\ \A n \in Node : ~Startable(n)
  /\ state' = "returned"
  /\ UNCHANGED <<deps, status>>

Raise ==
  /\ state = "live"
  /\ state' = "raised"
  /\ UNCHANGED <<deps, status>>

Progress == Return \/ Raise \/ \E n \in Node : Decide(n)
Next == Start \/ Progress

Fairness == WF_dagVars(Progress)

Spec == Init /\ [][Next]_dagVars /\ Fairness
=============================================================================
