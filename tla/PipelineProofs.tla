--------------------------- MODULE PipelineProofs ---------------------------
(* What holds of Pipeline for every value of its constants.                 *)
EXTENDS Pipeline, TLAPS, FiniteSetTheorems, SequenceTheorems

Field ==
  {"stage", "todo", "done", "failed", "parked", "evidence", "drafts", "claims", "at",
   "tally", "total", "verified", "downgraded", "added", "unverified", "unanchored",
   "attribution"}
ClaimRecord == [cites : Seq(Id), alike : BOOLEAN, verified : BOOLEAN, note : Note,
                warned : BOOLEAN, script : {"none", "passed", "failed"}]
SpanRecord == [run : Request, node : Node, verdict : {"ok", "error"}]

(* The locals of a run have their types.                                    *)
JobType(j) ==
  /\ DOMAIN j = Field
  /\ j.stage \in Stage
  /\ j.todo \in SUBSET Node /\ j.done \in SUBSET Node /\ j.failed \in SUBSET Node
  /\ j.drafts \in Seq(Extracted) /\ j.claims \in Seq(ClaimRecord)
  /\ j.at \in Nat /\ j.at >= 1
  /\ j.downgraded \subseteq DOMAIN j.claims

Lexical == {"no evidence bound", "not found", "lexical overlap"}
Fresh(c) == ~c.verified /\ c.note = "" /\ ~c.warned /\ c.script = "none"
FirstToReject(c) ==
  /\ c.warned => c.note \notin Lexical
  /\ c.script # "none" => c.note \notin Lexical \cup {"llm judge"}
Explained(c) == c.verified <=> c.note = ""

(* The verifier has decided the claims before its place in the list, and    *)
(* the rest is as the writer left it.                                       *)
VerdictsOK(j) ==
  /\ \A i \in DOMAIN j.claims : FirstToReject(j.claims[i])
  /\ j.stage \in {"plan", "schedule", "extract", "write"} =>
       /\ \A i \in DOMAIN j.claims : Fresh(j.claims[i])
       /\ j.tally = 0
  /\ j.stage = "verify" =>
       /\ \A i \in DOMAIN j.claims :
            IF i < j.at THEN Explained(j.claims[i]) ELSE Fresh(j.claims[i])
       /\ j.tally = Cardinality(VerifiedClaims(j))
  /\ AfterVerify(j) => \A i \in DOMAIN j.claims : Explained(j.claims[i])

(* The report's counts, and what the critic took back.                      *)
CountsOK(j) ==
  /\ j.stage \in {"plan", "schedule", "extract", "write", "verify"} => j.downgraded = {}
  /\ AfterVerify(j) => j.total = Len(j.claims)
  /\ j.stage = "critique" /\ j.downgraded = {} =>
       j.verified = Cardinality(VerifiedClaims(j))
  /\ AfterCritique(j) => j.verified = Cardinality(VerifiedClaims(j))

(* Promotion has filed or passed over the claims before its place.          *)
Before(j) == 1..j.at - 1
FiledOK(r) ==
  LET j == job[r]
  IN /\ IsFiniteSet(Rows(r))
     /\ \A row \in Rows(r) : row.claim \in VerifiedClaims(j)
     /\ j.stage \notin {"promote", "raised"} /\ ~AfterPromotion(j) =>
          Rows(r) = {} /\ j.added = 0 /\ j.unverified = 0 /\ j.unanchored = 0
     /\ j.stage = "promote" =>
          /\ j.at <= Len(j.claims) + 1
          /\ \A row \in Rows(r) : row.claim \in Before(j)
          /\ j.added = Cardinality(Rows(r)) /\ j.unanchored \in Nat
          /\ j.added + j.unanchored = Cardinality(VerifiedClaims(j) \cap Before(j))
          /\ j.unverified = Cardinality(Before(j) \ VerifiedClaims(j))
     /\ AfterPromotion(j) /\ "kb" \in wired =>
          /\ j.added = Cardinality(Rows(r))
          /\ j.unverified = j.total - j.verified
          /\ j.added + j.unanchored = j.verified

(* Each node that ran has its span in the recorder, and the loop over the   *)
(* recorder has stored the spans before its place.                          *)
Logged(r, n) == \E k \in DOMAIN spans : spans[k].run = r /\ spans[k].node = n
Stored(r, n) == \E o \in observations : o.by = r /\ o.span.run = r /\ o.span.node = n
MemoryOK(r) ==
  LET j == job[r]
      ran == j.done \cup j.failed
  IN /\ \A n \in ran : Logged(r, n)
     /\ j.stage = "remember" =>
          /\ j.at <= Len(spans) + 1
          /\ \A k \in DOMAIN spans : k < j.at => [by |-> r, span |-> spans[k]] \in observations
     /\ j.stage \in {"attribute", "returned"} /\ "memory" \in wired =>
          \A n \in ran : Stored(r, n)

Typed ==
  /\ spans \in Seq(SpanRecord)
  /\ DOMAIN job = Request
  /\ \A r \in Request : JobType(job[r])

(* A result was classified from what the report still says.                 *)
Attributed(j) ==
  j.stage = "returned" =>
    \E quoting : j.attribution = IF Troubled(j) THEN Classified(j, quoting) ELSE {}

Accounted(r) ==
  /\ VerdictsOK(job[r]) /\ CountsOK(job[r]) /\ FiledOK(r)
  /\ MemoryOK(r) /\ Attributed(job[r])

Inv == Typed /\ \A r \in Request : Accounted(r)

-----------------------------------------------------------------------------
(* What a step may touch.                                                   *)

(* What the runs share changes only as promotion and the loop over the      *)
(* recorder add to it.                                                      *)
LEMMA Shared ==
  ASSUME NEW r \in Request, Step(r)
  PROVE  /\ wired' = wired /\ observations \subseteq observations'
         /\ ~File(r) => library' = library
BY DEF Step, Plan, Schedule, Scheduled, Extract, Place, LeaveOut, Written,
       RejectLexically, RejectByJudge, RejectByScript, Accept, Settle, Verified, Keep,
       Downgrade, Criticized, PassOverUnverified, PassOverUnanchored, File,
       Promoted, Remember, Remembered, Attribute, Raise

(* A run leaves the locals of the others alone, and their rows.             *)
LEMMA OthersKeep ==
  ASSUME Typed, NEW r \in Request, NEW q \in Request, q # r, Step(r)
  PROVE  job'[q] = job[q] /\ Rows(q)' = Rows(q)
<1>1. job'[q] = job[q]
  BY DEF Typed, Step, Set, Plan, Schedule, NodeDone, NodeFails, NodeParked, Scheduled,
         Extract, Place, LeaveOut, Written, RejectLexically, RejectByJudge, RejectByScript,
         Accept, Settle, Verified, Keep, Downgrade, Criticized, PassOverUnverified,
         PassOverUnanchored, File, Promoted, Remember, Remembered, Attribute, Raise
<1>2. library' = library \/ \E i : library' = library \cup {[run |-> r, claim |-> i]}
  BY Shared DEF File
<1>3. Rows(q)' = Rows(q)
  BY <1>2 DEF Rows
<1> QED
  BY <1>1, <1>3

(* The recorder only grows.                                                 *)
LEMMA SpansGrow ==
  ASSUME Typed, NEW r \in Request, Step(r)
  PROVE  /\ spans' \in Seq(SpanRecord) /\ Len(spans) <= Len(spans')
         /\ \A k \in 1..Len(spans) : spans'[k] = spans[k]
<1>1. CASE UNCHANGED spans
  BY <1>1 DEF Typed
<1>2. ASSUME NEW n \in job[r].todo, NEW verdict \in {"ok", "error"},
             spans' = Append(spans, Span(r, n, verdict))
      PROVE  /\ spans' \in Seq(SpanRecord) /\ Len(spans) <= Len(spans')
             /\ \A k \in 1..Len(spans) : spans'[k] = spans[k]
  <2>1. Span(r, n, verdict) \in SpanRecord
    BY DEF Typed, JobType, Span, SpanRecord
  <2> QED
    BY <1>2, <2>1 DEF Typed
<1> QED
  BY <1>1, <1>2
     DEF Step, Plan, Schedule, NodeDone, NodeFails, NodeParked, Scheduled, Extract, Place,
         LeaveOut, Written, RejectLexically, RejectByJudge, RejectByScript, Accept, Settle,
         Verified, Keep, Downgrade, Criticized, PassOverUnverified, PassOverUnanchored,
         File, Promoted, Remember, Remembered, Attribute, Raise

-----------------------------------------------------------------------------
(* What a step does to the locals of its run.                               *)
Rest(r, fields) ==
  DOMAIN job'[r] = Field /\ \A f \in Field \ fields : job'[r][f] = job[r][f]
Goes(r, stage) == job'[r].stage = stage /\ job'[r].at = 1

LEMMA Enters ==
  ASSUME NEW j, DOMAIN j = Field, NEW stage
  PROVE  /\ DOMAIN Enter(j, stage) = Field
         /\ Enter(j, stage).stage = stage /\ Enter(j, stage).at = 1
         /\ \A f \in Field \ {"stage", "at"} : Enter(j, stage)[f] = j[f]
<1>1. "stage" \in Field /\ "at" \in Field
  BY DEF Field
<1> QED
  BY <1>1 DEF Enter

LEMMA Locals ==
  ASSUME Typed, NEW r \in Request
  PROVE  DOMAIN job[r] = Field /\ \A k : Set(r, k) => job'[r] = k
BY DEF Typed, JobType, Set

(* A stage ends and the next begins.                                        *)
LEMMA Moves ==
  ASSUME Typed, NEW r \in Request
  PROVE  /\ Scheduled(r) => Goes(r, "extract") /\ Rest(r, {"stage", "at"})
         /\ Written(r) => Goes(r, "verify") /\ Rest(r, {"stage", "at"})
         /\ Promoted(r) => Goes(r, "remember") /\ Rest(r, {"stage", "at"})
         /\ Remembered(r) => Goes(r, "attribute") /\ Rest(r, {"stage", "at"})
<1>1. ASSUME NEW stage, Set(r, Enter(job[r], stage))
      PROVE  Goes(r, stage) /\ Rest(r, {"stage", "at"})
  BY <1>1, Locals, Enters DEF Goes, Rest
<1> QED
  BY <1>1 DEF Scheduled, Written, Promoted, Remembered

(* The same, with something the next stage starts from.                     *)
LEMMA MovesWith ==
  ASSUME Typed, NEW r \in Request
  PROVE  /\ Plan(r) => /\ Goes(r, "schedule") /\ Rest(r, {"stage", "at", "todo"})
                       /\ job'[r].todo = Plans[r]
         /\ Extract(r) => /\ Goes(r, "write") /\ Rest(r, {"stage", "at", "drafts"})
                          /\ job'[r].drafts \in Drafts[r]
         /\ Verified(r) => /\ Goes(r, "critique") /\ Rest(r, {"stage", "at", "total", "verified"})
                           /\ job'[r].total = Len(job[r].claims)
                           /\ job'[r].verified = job[r].tally
         /\ Criticized(r) =>
              /\ Goes(r, "promote") /\ Rest(r, {"stage", "at", "total", "verified"})
              /\ IF job[r].downgraded = {}
                 THEN job'[r].total = job[r].total /\ job'[r].verified = job[r].verified
                 ELSE /\ job'[r].total = Len(job[r].claims)
                      /\ job'[r].verified = Cardinality(VerifiedClaims(job[r]))
         /\ Attribute(r) =>
              /\ Goes(r, "returned") /\ Rest(r, {"stage", "at", "attribution"})
              /\ \E quoting :
                   job'[r].attribution = IF Troubled(job[r])
                                         THEN Classified(job[r], quoting) ELSE {}
<1> DEFINE j == job[r]
           e(stage) == Enter(j, stage)
<1>0. /\ {"stage", "at", "todo", "drafts", "total", "verified", "attribution"} \subseteq Field
      /\ \A stage : /\ DOMAIN e(stage) = Field /\ e(stage).stage = stage /\ e(stage).at = 1
                    /\ \A f \in Field \ {"stage", "at"} : e(stage)[f] = j[f]
      /\ \A k : Set(r, k) => job'[r] = k
  BY Locals, Enters DEF Field
<1>1. ASSUME Plan(r)
      PROVE  Goes(r, "schedule") /\ Rest(r, {"stage", "at", "todo"}) /\ job'[r].todo = Plans[r]
  <2>1. job'[r] = [e("schedule") EXCEPT !.todo = Plans[r]]
    BY <1>0, <1>1 DEF Plan
  <2> HIDE DEF e
  <2> QED
    BY <1>0, <1>1, <2>1 DEF Goes, Rest
<1>2. ASSUME Extract(r)
      PROVE  /\ Goes(r, "write") /\ Rest(r, {"stage", "at", "drafts"})
             /\ job'[r].drafts \in Drafts[r]
  <2>1. PICK drafts \in Drafts[r] : job'[r] = [e("write") EXCEPT !.drafts = drafts]
    BY <1>0, <1>2 DEF Extract
  <2> HIDE DEF e
  <2> QED
    BY <1>0, <1>2, <2>1 DEF Goes, Rest
<1>3. ASSUME Verified(r)
      PROVE  /\ Goes(r, "critique") /\ Rest(r, {"stage", "at", "total", "verified"})
             /\ job'[r].total = Len(j.claims) /\ job'[r].verified = j.tally
  <2>1. job'[r] = [e("critique") EXCEPT !.total = Len(j.claims), !.verified = j.tally]
    BY <1>0, <1>3 DEF Verified
  <2> DEFINE n == Len(j.claims)
             m == j.tally
  <2>2. job'[r] = [e("critique") EXCEPT !.total = n, !.verified = m]
    BY <2>1
  <2> HIDE DEF e, n, m
  <2> DEFINE d == e("critique")
             x == [d EXCEPT !.total = n, !.verified = m]
  <2>4. /\ DOMAIN d = Field /\ d.stage = "critique" /\ d.at = 1
        /\ \A f \in Field \ {"stage", "at"} : d[f] = j[f]
    BY <1>0
  <2> HIDE DEF d
  <2>5. /\ DOMAIN x = Field /\ x.stage = "critique" /\ x.at = 1
        /\ x.total = n /\ x.verified = m
    BY <1>0, <2>4
  <2>6. \A f \in Field \ {"stage", "at", "total", "verified"} : x[f] = j[f]
    BY <1>0, <2>4
  <2>7. job'[r] = x
    BY <2>2 DEF d
  <2> HIDE DEF x
  <2>3. /\ Goes(r, "critique") /\ Rest(r, {"stage", "at", "total", "verified"})
        /\ job'[r].total = n /\ job'[r].verified = m
    BY <2>5, <2>6, <2>7 DEF Goes, Rest
  <2> QED
    BY <2>3 DEF n, m
<1>4. ASSUME Criticized(r)
      PROVE  /\ Goes(r, "promote") /\ Rest(r, {"stage", "at", "total", "verified"})
             /\ IF j.downgraded = {}
                THEN job'[r].total = j.total /\ job'[r].verified = j.verified
                ELSE /\ job'[r].total = Len(j.claims)
                     /\ job'[r].verified = Cardinality(VerifiedClaims(j))
  <2> DEFINE k == Recounted(j)
  <2>1. /\ DOMAIN k = Field /\ \A f \in Field \ {"total", "verified"} : k[f] = j[f]
        /\ IF j.downgraded = {} THEN k.total = j.total /\ k.verified = j.verified
           ELSE k.total = Len(j.claims) /\ k.verified = Cardinality(VerifiedClaims(j))
    <3>1. DOMAIN j = Field
      BY Locals
    <3> QED
      BY <1>0, <3>1 DEF Recounted
  <2>2. job'[r] = Enter(k, "promote")
    BY <1>0, <1>4 DEF Criticized
  <2> HIDE DEF k
  <2>3. /\ DOMAIN Enter(k, "promote") = Field
        /\ Enter(k, "promote").stage = "promote" /\ Enter(k, "promote").at = 1
        /\ \A f \in Field \ {"stage", "at"} : Enter(k, "promote")[f] = k[f]
    BY <2>1, Enters
  <2> QED
    BY <1>0, <2>1, <2>2, <2>3 DEF Goes, Rest
<1>5. ASSUME Attribute(r)
      PROVE  /\ Goes(r, "returned") /\ Rest(r, {"stage", "at", "attribution"})
             /\ \E quoting :
                  job'[r].attribution = IF Troubled(j) THEN Classified(j, quoting) ELSE {}
  <2>1. PICK quoting :
          job'[r] = [e("returned") EXCEPT
                       !.attribution = IF Troubled(j) THEN Classified(j, quoting) ELSE {}]
    BY <1>0, <1>5 DEF Attribute
  <2> DEFINE a == IF Troubled(j) THEN Classified(j, quoting) ELSE {}
  <2>2. job'[r] = [e("returned") EXCEPT !.attribution = a]
    BY <2>1
  <2> HIDE DEF e, a
  <2>3. /\ Goes(r, "returned") /\ Rest(r, {"stage", "at", "attribution"})
        /\ job'[r].attribution = a
    BY <1>0, <2>2 DEF Goes, Rest
  <2> QED
    BY <2>3 DEF a
<1> QED
  BY <1>1, <1>2, <1>3, <1>4, <1>5

(* A node is decided.                                                       *)
Decides(r, n) ==
  /\ Rest(r, {"todo", "done", "failed", "parked", "evidence"})
  /\ job'[r].todo = job[r].todo \ {n}
  /\ \/ /\ job'[r].done = job[r].done \cup {n} /\ job'[r].failed = job[r].failed
        /\ spans' = Append(spans, Span(r, n, "ok"))
     \/ /\ job'[r].failed = job[r].failed \cup {n} /\ job'[r].done = job[r].done
        /\ spans' = Append(spans, Span(r, n, "error"))
     \/ /\ job'[r].failed = job[r].failed /\ job'[r].done = job[r].done
        /\ spans' = spans

LEMMA Scheduling ==
  ASSUME Typed, NEW r \in Request, Schedule(r)
  PROVE  job[r].stage = "schedule" /\ \E n \in job[r].todo : Decides(r, n)
<1> DEFINE j == job[r]
<1>0. /\ DOMAIN j = Field /\ \A k : Set(r, k) => job'[r] = k
      /\ {"stage", "todo", "done", "failed", "parked", "evidence"} \subseteq Field
  BY Locals DEF Field
<1>1. PICK n \in j.todo : NodeDone(r, n) \/ NodeFails(r, n) \/ NodeParked(r, n)
  BY DEF Schedule
<1>2. CASE NodeDone(r, n)
  <2>1. PICK found : job'[r] = [j EXCEPT !.todo = @ \ {n}, !.done = @ \cup {n},
                                         !.evidence = @ \cup found]
    BY <1>0, <1>2 DEF NodeDone
  <2>2. /\ Rest(r, {"todo", "done", "failed", "parked", "evidence"})
        /\ job'[r].todo = j.todo \ {n} /\ job'[r].done = j.done \cup {n}
        /\ job'[r].failed = j.failed
    BY <1>0, <2>1 DEF Rest
  <2> QED
    BY <1>2, <2>2 DEF NodeDone, Decides, Schedule
<1>3. CASE NodeFails(r, n)
  <2>1. job'[r] = [j EXCEPT !.todo = @ \ {n}, !.failed = @ \cup {n}]
    BY <1>0, <1>3 DEF NodeFails
  <2>2. /\ Rest(r, {"todo", "done", "failed", "parked", "evidence"})
        /\ job'[r].todo = j.todo \ {n} /\ job'[r].failed = j.failed \cup {n}
        /\ job'[r].done = j.done
    BY <1>0, <2>1 DEF Rest
  <2> QED
    BY <1>3, <2>2 DEF NodeFails, Decides, Schedule
<1>4. CASE NodeParked(r, n)
  <2>1. job'[r] = [j EXCEPT !.todo = @ \ {n}, !.parked = @ \cup {n}]
    BY <1>0, <1>4 DEF NodeParked
  <2>2. /\ Rest(r, {"todo", "done", "failed", "parked", "evidence"})
        /\ job'[r].todo = j.todo \ {n} /\ job'[r].failed = j.failed
        /\ job'[r].done = j.done
    BY <1>0, <2>1 DEF Rest
  <2> QED
    BY <1>4, <2>2 DEF NodeParked, Decides, Schedule
<1> QED
  BY <1>1, <1>2, <1>3, <1>4

(* A step of the loops over the drafts, the claims or the spans.            *)
LEMMA Loops ==
  ASSUME Typed, NEW r \in Request
  PROVE  LET j == job[r]
             k == job'[r]
         IN /\ Place(r) => /\ Rest(r, {"claims", "at"}) /\ k.at = j.at + 1
                           /\ k.claims = Append(j.claims, Claim(Draft(r)))
            /\ LeaveOut(r) \/ Keep(r) \/ Remember(r) => Rest(r, {"at"}) /\ k.at = j.at + 1
            /\ \A c : Settle(r, c) =>
                 /\ Rest(r, {"claims", "at", "tally"}) /\ k.at = j.at + 1
                 /\ k.claims = [j.claims EXCEPT ![j.at] = c]
                 /\ k.tally = j.tally + (IF c.verified THEN 1 ELSE 0)
            /\ Downgrade(r) =>
                 /\ Rest(r, {"claims", "at", "downgraded"}) /\ k.at = j.at + 1
                 /\ k.claims = [j.claims EXCEPT ![j.at] = Downgraded(j.claims[j.at])]
                 /\ k.downgraded = j.downgraded \cup {j.at}
            /\ PassOverUnverified(r) => /\ Rest(r, {"at", "unverified"}) /\ k.at = j.at + 1
                                        /\ k.unverified = j.unverified + 1
            /\ PassOverUnanchored(r) => /\ Rest(r, {"at", "unanchored"}) /\ k.at = j.at + 1
                                        /\ k.unanchored = j.unanchored + 1
            /\ File(r) => Rest(r, {"at", "added"}) /\ k.at = j.at + 1 /\ k.added = j.added + 1
            /\ Raise(r) => Rest(r, {"stage"}) /\ k.stage = "raised"
<1> DEFINE j == job[r]
           k == job'[r]
<1>0. /\ DOMAIN j = Field /\ \A v : Set(r, v) => k = v
      /\ {"stage", "claims", "at", "tally", "downgraded", "added", "unverified", "unanchored"}
           \subseteq Field
  BY Locals DEF Field
<1>1. ASSUME Place(r)
      PROVE  /\ Rest(r, {"claims", "at"}) /\ k.at = j.at + 1
             /\ k.claims = Append(j.claims, Claim(Draft(r)))
  BY <1>0, <1>1 DEF Place, Rest
<1>2. ASSUME LeaveOut(r) \/ Keep(r) \/ Remember(r) PROVE Rest(r, {"at"}) /\ k.at = j.at + 1
  BY <1>0, <1>2 DEF LeaveOut, Keep, Remember, Rest
<1>3. ASSUME NEW c, Settle(r, c)
      PROVE  /\ Rest(r, {"claims", "at", "tally"}) /\ k.at = j.at + 1
             /\ k.claims = [j.claims EXCEPT ![j.at] = c]
             /\ k.tally = j.tally + (IF c.verified THEN 1 ELSE 0)
  <2> DEFINE n == j.tally + (IF c.verified THEN 1 ELSE 0)
             more == [j.claims EXCEPT ![j.at] = c]
             m == j.at + 1
  <2>1. k = [j EXCEPT !.claims = more, !.at = m, !.tally = n]
    BY <1>0, <1>3 DEF Settle
  <2> HIDE DEF n, more, m
  <2>2. k.at = m /\ k.claims = more /\ k.tally = n /\ DOMAIN k = Field
    BY <1>0, <2>1
  <2>3. \A f \in Field \ {"claims", "at", "tally"} : k[f] = j[f]
    BY <1>0, <2>1
  <2> QED
    BY <2>2, <2>3 DEF Rest, n, more, m
<1>4. ASSUME Downgrade(r)
      PROVE  /\ Rest(r, {"claims", "at", "downgraded"}) /\ k.at = j.at + 1
             /\ k.claims = [j.claims EXCEPT ![j.at] = Downgraded(j.claims[j.at])]
             /\ k.downgraded = j.downgraded \cup {j.at}
  BY <1>0, <1>4 DEF Downgrade, Rest
<1>5. ASSUME PassOverUnverified(r)
      PROVE  /\ Rest(r, {"at", "unverified"}) /\ k.at = j.at + 1
             /\ k.unverified = j.unverified + 1
  BY <1>0, <1>5 DEF PassOverUnverified, Rest
<1>6. ASSUME PassOverUnanchored(r)
      PROVE  /\ Rest(r, {"at", "unanchored"}) /\ k.at = j.at + 1
             /\ k.unanchored = j.unanchored + 1
  BY <1>0, <1>6 DEF PassOverUnanchored, Rest
<1>7. ASSUME File(r)
      PROVE  Rest(r, {"at", "added"}) /\ k.at = j.at + 1 /\ k.added = j.added + 1
  BY <1>0, <1>7 DEF File, Rest
<1>8. ASSUME Raise(r) PROVE Rest(r, {"stage"}) /\ k.stage = "raised"
  BY <1>0, <1>8 DEF Raise, Rest
<1> QED
  BY <1>1, <1>2, <1>3, <1>4, <1>5, <1>6, <1>7, <1>8

-----------------------------------------------------------------------------
(* Types.                                                                   *)
LEMMA CurrentClaim ==
  ASSUME Typed, NEW r \in Request, NEW stage, AtClaim(r, stage)
  PROVE  /\ job[r].stage = stage /\ job[r].at \in 1..Len(job[r].claims)
         /\ job[r].at \in DOMAIN job[r].claims /\ Current(r) \in ClaimRecord
         /\ Current(r) = job[r].claims[job[r].at]
BY DEF Typed, JobType, AtClaim, Current

(* What the tiers make of a claim.                                          *)
LEMMA Settled ==
  ASSUME Typed, NEW r \in Request,
         RejectLexically(r) \/ RejectByJudge(r) \/ RejectByScript(r) \/ Accept(r)
  PROVE  /\ AtClaim(r, "verify")
         /\ \E c \in ClaimRecord :
              /\ Settle(r, c)
              /\ Fresh(Current(r)) => Explained(c) /\ FirstToReject(c)
<1>1. AtClaim(r, "verify")
  BY DEF RejectLexically, RejectByJudge, RejectByScript, Accept
<1> DEFINE c == Current(r)
<1>2. c \in ClaimRecord
  BY <1>1, CurrentClaim
<1> HIDE DEF c
<1>3. CASE RejectLexically(r)
  <2> DEFINE note == LexicalNote(c, job[r].evidence)
             d == [c EXCEPT !.note = note]
  <2>1. Settle(r, d) /\ note # ""
    BY <1>3 DEF RejectLexically, PassesLexical, c
  <2>2. note \in Note /\ (note # "" => note \in Lexical)
    BY DEF LexicalNote, Note, Lexical
  <2> HIDE DEF note
  <2>3. d \in ClaimRecord
    BY <1>2, <2>2 DEF ClaimRecord
  <2>4. Fresh(c) => Explained(d) /\ FirstToReject(d)
    BY <1>2, <2>1, <2>2 DEF Fresh, Explained, FirstToReject, ClaimRecord
  <2> QED
    BY <1>1, <2>1, <2>3, <2>4 DEF c
<1>4. CASE RejectByJudge(r)
  <2>1. PICK warned \in Warnings : Settle(r, [c EXCEPT !.warned = warned, !.note = "llm judge"])
    BY <1>4 DEF RejectByJudge, c
  <2> DEFINE d == [c EXCEPT !.warned = warned, !.note = "llm judge"]
  <2>2. d \in ClaimRecord /\ (Fresh(c) => Explained(d) /\ FirstToReject(d))
    BY <1>2 DEF ClaimRecord, Note, Warnings, Fresh, Explained, FirstToReject, Lexical
  <2> QED
    BY <1>1, <2>1, <2>2 DEF c
<1>5. CASE RejectByScript(r)
  <2>1. PICK warned \in Warnings :
          Settle(r, [c EXCEPT !.warned = warned, !.script = "failed",
                              !.note = "executable verifier"])
    BY <1>5 DEF RejectByScript, c
  <2> DEFINE d == [c EXCEPT !.warned = warned, !.script = "failed",
                            !.note = "executable verifier"]
  <2>2. d \in ClaimRecord /\ (Fresh(c) => Explained(d) /\ FirstToReject(d))
    BY <1>2 DEF ClaimRecord, Note, Warnings, Fresh, Explained, FirstToReject, Lexical
  <2> QED
    BY <1>1, <2>1, <2>2 DEF c
<1>6. CASE Accept(r)
  <2>1. PICK warned \in Warnings, ran \in {"none", "passed"} :
          Settle(r, [c EXCEPT !.warned = warned, !.script = ran, !.verified = TRUE])
    BY <1>6 DEF Accept, c
  <2> DEFINE d == [c EXCEPT !.warned = warned, !.script = ran, !.verified = TRUE]
  <2>2. d \in ClaimRecord /\ (Fresh(c) => Explained(d) /\ FirstToReject(d))
    BY <1>2 DEF ClaimRecord, Note, Warnings, Fresh, Explained, FirstToReject, Lexical
  <2> QED
    BY <1>1, <2>1, <2>2 DEF c
<1> QED
  BY <1>3, <1>4, <1>5, <1>6

(* What the critic makes of it.                                             *)
LEMMA TakenBack ==
  ASSUME NEW c \in ClaimRecord
  PROVE  /\ Downgraded(c) \in ClaimRecord /\ ~Downgraded(c).verified
         /\ c.verified /\ Explained(c) => Explained(Downgraded(c)) /\ FirstToReject(Downgraded(c))
BY DEF Downgraded, ClaimRecord, Note, Explained, FirstToReject, Lexical

LEMMA JobKeepsType ==
  ASSUME Typed, NEW r \in Request, Step(r)
  PROVE  JobType(job'[r])
<1> DEFINE j == job[r]
           k == job'[r]
<1>0. JobType(j) /\ r \in DOMAIN job
  BY DEF Typed
<1>1. CASE Plan(r)
  <2>1. k.todo \in SUBSET Node
    BY <1>1, MovesWith, PipelineAssumption
  <2> QED
    BY <1>0, <1>1, <2>1, MovesWith DEF Goes, Rest, JobType, Field, Stage
<1>2. CASE Schedule(r)
  <2>1. PICK n \in j.todo : Decides(r, n)
    BY <1>2, Scheduling
  <2> QED
    BY <1>0, <2>1 DEF Decides, Rest, JobType, Field
<1>3. CASE Scheduled(r) \/ Written(r) \/ Promoted(r) \/ Remembered(r)
  <2>1. Rest(r, {"stage", "at"}) /\ \E stage \in Stage : Goes(r, stage)
    BY <1>3, Moves DEF Stage
  <2> QED
    BY <1>0, <2>1 DEF Goes, Rest, JobType, Field
<1>4. CASE Verified(r) \/ Criticized(r) \/ Attribute(r)
  <2>1. /\ Rest(r, {"stage", "at", "total", "verified", "attribution"})
        /\ \E stage \in Stage : Goes(r, stage)
    BY <1>4, MovesWith DEF Stage, Rest
  <2> QED
    BY <1>0, <2>1 DEF Goes, Rest, JobType, Field
<1>5. CASE Extract(r)
  <2>1. k.drafts \in Seq(Extracted)
    BY <1>5, MovesWith, PipelineAssumption
  <2> QED
    BY <1>0, <1>5, <2>1, MovesWith DEF Goes, Rest, JobType, Field, Stage
<1>6. CASE Place(r)
  <2>1. Draft(r) \in Extracted
    BY <1>0, <1>6 DEF Place, AtDraft, Draft, JobType
  <2>2. Claim(Draft(r)) \in ClaimRecord
    BY <2>1 DEF Claim, ClaimRecord, Extracted, Note
  <2> DEFINE more == Append(j.claims, Claim(Draft(r)))
  <2>3. more \in Seq(ClaimRecord) /\ DOMAIN j.claims \subseteq DOMAIN more
    BY <1>0, <2>2 DEF JobType
  <2>4. Rest(r, {"claims", "at"}) /\ k.at = j.at + 1 /\ k.claims = more
    BY <1>6, Loops
  <2> HIDE DEF more
  <2>5. k.claims \in Seq(ClaimRecord) /\ k.at \in Nat /\ k.at >= 1
    BY <1>0, <2>3, <2>4 DEF JobType
  <2>6. k.downgraded \subseteq DOMAIN k.claims
    BY <1>0, <2>3, <2>4 DEF JobType, Rest, Field
  <2> QED
    BY <1>0, <2>4, <2>5, <2>6 DEF Rest, JobType, Field
<1>7. CASE RejectLexically(r) \/ RejectByJudge(r) \/ RejectByScript(r) \/ Accept(r)
  <2>1. PICK c \in ClaimRecord : Settle(r, c)
    BY <1>7, Settled
  <2> DEFINE more == [j.claims EXCEPT ![j.at] = c]
  <2>2. more \in Seq(ClaimRecord) /\ DOMAIN more = DOMAIN j.claims
    <3>1. j.at \in DOMAIN j.claims
      BY <1>7, Settled, CurrentClaim
    <3> QED
      BY <1>0, <3>1 DEF JobType
  <2>3. Rest(r, {"claims", "at", "tally"}) /\ k.at = j.at + 1 /\ k.claims = more
    BY <2>1, Loops
  <2> HIDE DEF more
  <2> QED
    BY <1>0, <2>2, <2>3 DEF Rest, JobType, Field
<1>8. CASE Downgrade(r)
  <2>1. AtClaim(r, "critique")
    BY <1>8 DEF Downgrade
  <2> DEFINE more == [j.claims EXCEPT ![j.at] = Downgraded(j.claims[j.at])]
  <2>2. more \in Seq(ClaimRecord) /\ DOMAIN more = DOMAIN j.claims /\ j.at \in DOMAIN j.claims
    <3>1. j.at \in DOMAIN j.claims /\ Downgraded(j.claims[j.at]) \in ClaimRecord
      BY <2>1, CurrentClaim, TakenBack
    <3> QED
      BY <1>0, <3>1 DEF JobType
  <2>3. /\ Rest(r, {"claims", "at", "downgraded"}) /\ k.at = j.at + 1 /\ k.claims = more
        /\ k.downgraded = j.downgraded \cup {j.at}
    BY <1>8, Loops
  <2> HIDE DEF more
  <2> QED
    BY <1>0, <2>2, <2>3 DEF Rest, JobType, Field
<1>9. CASE \/ LeaveOut(r) \/ Keep(r) \/ Remember(r)
           \/ PassOverUnverified(r) \/ PassOverUnanchored(r) \/ File(r)
  <2>1. Rest(r, {"at", "added", "unverified", "unanchored"}) /\ k.at = j.at + 1
    BY <1>9, Loops DEF Rest
  <2> QED
    BY <1>0, <2>1 DEF Rest, JobType, Field
<1>10. CASE Raise(r)
  <2>1. Rest(r, {"stage"}) /\ k.stage = "raised"
    BY <1>10, Loops
  <2> QED
    BY <1>0, <2>1 DEF Rest, JobType, Field, Stage
<1> QED
  BY <1>1, <1>2, <1>3, <1>4, <1>5, <1>6, <1>7, <1>8, <1>9, <1>10 DEF Step

LEMMA TypedStep == Typed /\ [Next]_vars => Typed'
<1> SUFFICES ASSUME Typed, [Next]_vars PROVE Typed'
  OBVIOUS
<1>1. CASE UNCHANGED vars
  BY <1>1 DEF Typed, vars
<1>2. ASSUME NEW r \in Request, Step(r) PROVE Typed'
  <2>1. DOMAIN job' = Request
    BY <1>2 DEF Typed, Step, Set, Plan, Schedule, NodeDone, NodeFails, NodeParked, Scheduled,
         Extract, Place, LeaveOut, Written, RejectLexically, RejectByJudge, RejectByScript,
         Accept, Settle, Verified, Keep, Downgrade, Criticized, PassOverUnverified,
         PassOverUnanchored, File, Promoted, Remember, Remembered, Attribute, Raise
  <2> QED
    BY <1>2, <2>1, JobKeepsType, OthersKeep, SpansGrow DEF Typed
<1> QED
  BY <1>1, <1>2 DEF Next

-----------------------------------------------------------------------------
(* The tiers and the notes.                                                 *)
Early == {"plan", "schedule", "extract", "write"}
Late == {"critique", "promote", "remember", "attribute", "returned"}

LEMMA VerifiedFinite ==
  ASSUME NEW j, JobType(j)
  PROVE  /\ IsFiniteSet(VerifiedClaims(j)) /\ Cardinality(VerifiedClaims(j)) \in Nat
         /\ VerifiedClaims(j) \subseteq 1..Len(j.claims)
         /\ Len(j.claims) \in Nat /\ DOMAIN j.claims = 1..Len(j.claims)
<1>1. Len(j.claims) \in Nat /\ DOMAIN j.claims = 1..Len(j.claims)
  BY DEF JobType
<1>2. VerifiedClaims(j) \subseteq 1..Len(j.claims)
  BY <1>1 DEF VerifiedClaims
<1>3. IsFiniteSet(1..Len(j.claims))
  BY <1>1, FS_Interval
<1> QED
  BY <1>1, <1>2, <1>3, FS_Subset, FS_CardinalityType

LEMMA VerdictsStep ==
  ASSUME Typed, NEW r \in Request, Step(r), VerdictsOK(job[r])
  PROVE  VerdictsOK(job'[r])
<1> DEFINE j == job[r]
           k == job'[r]
<1>0. JobType(j) /\ JobType(k)
  BY JobKeepsType DEF Typed
<1>1. ASSUME k.claims = j.claims, k.tally = j.tally,
             \/ j.stage \in Early /\ k.stage \in Early
             \/ j.stage \in Late /\ k.stage \in Late
             \/ k.stage = "raised"
      PROVE  VerdictsOK(k)
  BY <1>1 DEF VerdictsOK, AfterVerify, Early, Late
<1>2. CASE Plan(r) \/ Schedule(r) \/ Scheduled(r) \/ Extract(r) \/ LeaveOut(r)
  <2>1. k.claims = j.claims /\ k.tally = j.tally /\ j.stage \in Early /\ k.stage \in Early
    <3>1. CASE Plan(r) \/ Scheduled(r) \/ Extract(r)
      <4>1. Rest(r, {"stage", "at", "todo", "drafts"}) /\ k.stage \in Early
        BY <3>1, Moves, MovesWith DEF Goes, Rest, Early
      <4>2. j.stage \in Early
        BY <3>1 DEF Early, Plan, Scheduled, Extract
      <4> QED
        BY <4>1, <4>2 DEF Rest, Field
    <3>2. CASE Schedule(r)
      <4>1. /\ Rest(r, {"todo", "done", "failed", "parked", "evidence"})
            /\ j.stage = "schedule"
        BY <3>2, Scheduling DEF Decides
      <4> QED
        BY <4>1 DEF Rest, Field, Early
    <3>3. CASE LeaveOut(r)
      <4>1. Rest(r, {"at"}) /\ j.stage = "write"
        BY <3>3, Loops DEF LeaveOut, AtDraft
      <4> QED
        BY <4>1 DEF Rest, Field, Early
    <3> QED
      BY <1>2, <3>1, <3>2, <3>3
  <2> QED
    BY <1>1, <2>1
<1>3. CASE Place(r)
  <2> DEFINE c == Claim(Draft(r))
  <2>1. /\ k.claims = Append(j.claims, c) /\ k.tally = j.tally
        /\ j.stage = "write" /\ k.stage = "write"
    <3>1. Rest(r, {"claims", "at"}) /\ k.claims = Append(j.claims, c) /\ j.stage = "write"
      BY <1>3, Loops DEF Place, AtDraft
    <3> HIDE DEF c
    <3> QED
      BY <3>1 DEF Rest, Field
  <2>2. Fresh(c) /\ FirstToReject(c)
    BY DEF Claim, Fresh, FirstToReject, Lexical
  <2>3. \A i \in DOMAIN k.claims : k.claims[i] = IF i \in DOMAIN j.claims THEN j.claims[i] ELSE c
    <3>1. c \in ClaimRecord
      <4>1. Draft(r) \in Extracted
        BY <1>0, <1>3 DEF Place, AtDraft, Draft, JobType
      <4> QED
        BY <4>1 DEF Claim, ClaimRecord, Extracted, Note
    <3> HIDE DEF c
    <3> QED
      BY <1>0, <2>1, <3>1 DEF JobType
  <2> HIDE DEF c
  <2> QED
    BY <2>1, <2>2, <2>3 DEF VerdictsOK, AfterVerify
<1>4. CASE Written(r)
  <2>1. /\ k.claims = j.claims /\ k.tally = j.tally /\ k.at = 1
        /\ j.stage = "write" /\ k.stage = "verify"
    BY <1>4, Moves DEF Written, Goes, Rest, Field
  <2>2. VerifiedClaims(k) = {}
    BY <2>1 DEF VerifiedClaims, VerdictsOK, Fresh
  <2>3. k.tally = Cardinality(VerifiedClaims(k))
    BY <2>1, <2>2, FS_EmptySet DEF VerdictsOK
  <2>4. \A i \in DOMAIN k.claims : ~(i < k.at)
    BY <1>0, <2>1, VerifiedFinite
  <2>5. \A i \in DOMAIN k.claims : Fresh(k.claims[i]) /\ FirstToReject(k.claims[i])
    BY <2>1 DEF VerdictsOK
  <2> QED
    BY <2>1, <2>3, <2>4, <2>5 DEF VerdictsOK, AfterVerify
<1>5. CASE RejectLexically(r) \/ RejectByJudge(r) \/ RejectByScript(r) \/ Accept(r)
  <2>1. /\ j.stage = "verify" /\ j.at \in 1..Len(j.claims) /\ j.at \in DOMAIN j.claims
        /\ Current(r) = j.claims[j.at]
    BY <1>5, Settled, CurrentClaim
  <2>2. Fresh(j.claims[j.at])
    BY <2>1 DEF VerdictsOK
  <2>3. PICK c \in ClaimRecord : Settle(r, c) /\ Explained(c) /\ FirstToReject(c)
    BY <1>5, <2>1, <2>2, Settled
  <2>4. /\ k.at = j.at + 1 /\ k.claims = [j.claims EXCEPT ![j.at] = c] /\ k.stage = "verify"
        /\ k.tally = j.tally + (IF c.verified THEN 1 ELSE 0)
    BY <2>1, <2>3, Loops DEF Rest, Field
  <2>5. k.tally = Cardinality(VerifiedClaims(k))
    <3>1. j.tally = Cardinality(VerifiedClaims(j)) /\ j.at \notin VerifiedClaims(j)
      BY <2>1, <2>2 DEF VerdictsOK, VerifiedClaims, Fresh
    <3>2. CASE c.verified
      <4>1. VerifiedClaims(k) = VerifiedClaims(j) \cup {j.at}
        BY <2>1, <2>4, <3>2 DEF VerifiedClaims
      <4>2. Cardinality(VerifiedClaims(k)) = Cardinality(VerifiedClaims(j)) + 1
        BY <1>0, <3>1, <4>1, VerifiedFinite, FS_AddElement
      <4> QED
        BY <2>4, <3>1, <3>2, <4>2
    <3>3. CASE ~c.verified
      <4>1. VerifiedClaims(k) = VerifiedClaims(j)
        BY <2>1, <2>4, <3>1, <3>3 DEF VerifiedClaims
      <4> QED
        BY <1>0, <2>4, <3>1, <3>3, <4>1, VerifiedFinite
    <3> QED
      BY <3>2, <3>3
  <2>6. \A i \in DOMAIN k.claims : k.claims[i] = IF i = j.at THEN c ELSE j.claims[i]
    BY <2>4
  <2>7. DOMAIN k.claims = DOMAIN j.claims
    BY <2>4
  <2>8. \A i \in DOMAIN j.claims : i \in Nat
    BY <1>0, VerifiedFinite
  <2> QED
    BY <1>0, <2>1, <2>3, <2>4, <2>5, <2>6, <2>7, <2>8 DEF VerdictsOK, AfterVerify
<1>6. CASE Verified(r)
  <2>1. k.claims = j.claims /\ j.stage = "verify" /\ k.stage = "critique" /\ j.at > Len(j.claims)
    BY <1>6, MovesWith DEF Verified, AtEnd, Goes, Rest, Field
  <2>2. \A i \in DOMAIN j.claims : i < j.at
    BY <1>0, <2>1, VerifiedFinite DEF JobType
  <2> QED
    BY <2>1, <2>2 DEF VerdictsOK, AfterVerify
<1>7. CASE Downgrade(r)
  <2>1. /\ j.at \in DOMAIN j.claims /\ j.stage = "critique" /\ j.claims[j.at] \in ClaimRecord
        /\ j.claims[j.at].verified
    BY <1>7, CurrentClaim DEF Downgrade
  <2>2. k.claims = [j.claims EXCEPT ![j.at] = Downgraded(j.claims[j.at])] /\ k.stage = "critique"
    BY <1>7, <2>1, Loops DEF Rest, Field
  <2>3. Explained(j.claims[j.at])
    BY <2>1 DEF VerdictsOK, AfterVerify
  <2> DEFINE d == Downgraded(j.claims[j.at])
  <2>4. Explained(d) /\ FirstToReject(d)
    BY <2>1, <2>3, TakenBack
  <2> HIDE DEF d
  <2>5. \A i \in DOMAIN k.claims : i \in DOMAIN j.claims /\ k.claims[i] = IF i = j.at THEN d ELSE j.claims[i]
    BY <2>2 DEF d
  <2> QED
    BY <2>1, <2>2, <2>4, <2>5 DEF VerdictsOK, AfterVerify
<1>8. CASE Criticized(r) \/ Promoted(r) \/ Remembered(r) \/ Attribute(r)
  <2>1. k.claims = j.claims /\ k.tally = j.tally /\ j.stage \in Late /\ k.stage \in Late
    <3>1. Rest(r, {"stage", "at", "total", "verified", "attribution"}) /\ k.stage \in Late
      BY <1>8, Moves, MovesWith DEF Goes, Rest, Late
    <3>2. j.stage \in Late
      BY <1>8 DEF Late, Criticized, Promoted, Remembered, Attribute
    <3> QED
      BY <3>1, <3>2 DEF Rest, Field
  <2> QED
    BY <1>1, <2>1
<1>9. CASE Keep(r) \/ Remember(r) \/ PassOverUnverified(r) \/ PassOverUnanchored(r) \/ File(r)
  <2>1. k.claims = j.claims /\ k.tally = j.tally /\ j.stage \in Late /\ k.stage = j.stage
    <3>1. Rest(r, {"at", "added", "unverified", "unanchored"})
      BY <1>9, Loops DEF Rest
    <3>2. j.stage \in Late
      BY <1>9 DEF Late, Keep, Remember, PassOverUnverified, PassOverUnanchored, File, AtClaim
    <3> QED
      BY <3>1, <3>2 DEF Rest, Field
  <2> QED
    BY <1>1, <2>1
<1>10. CASE Raise(r)
  <2>1. k.claims = j.claims /\ k.tally = j.tally /\ k.stage = "raised"
    BY <1>10, Loops DEF Rest, Field
  <2> QED
    BY <1>1, <2>1
<1> QED
  BY <1>2, <1>3, <1>4, <1>5, <1>6, <1>7, <1>8, <1>9, <1>10 DEF Step

-----------------------------------------------------------------------------
(* The counts of the report, and what promotion files.                      *)

(* Until the critic is done, and after it.                                  *)
Checked == {"promote", "remember", "attribute", "returned"}
Unfiled == Early \cup {"verify", "critique"}

(* Where the stages are and which locals they leave alone.                  *)
LEMMA Course ==
  ASSUME Typed, NEW r \in Request, Step(r)
  PROVE  LET j == job[r]
             k == job'[r]
         IN \/ /\ j.stage \in Early /\ k.stage \in Early \cup {"verify"}
               /\ Rest(r, {"stage", "todo", "done", "failed", "parked", "evidence", "at",
                           "drafts", "claims"})
            \/ /\ j.stage = "verify" /\ k.stage = "verify" /\ Rest(r, {"claims", "at", "tally"})
            \/ Verified(r) \/ Downgrade(r) \/ Criticized(r)
            \/ Keep(r) /\ j.stage = "critique" /\ k.stage = "critique" /\ Rest(r, {"at"})
            \/ /\ PassOverUnverified(r) \/ PassOverUnanchored(r) \/ File(r)
               /\ j.stage = "promote" /\ k.stage = "promote"
               /\ Rest(r, {"at", "unverified", "unanchored", "added"})
            \/ /\ Promoted(r) /\ j.stage = "promote" /\ k.stage = "remember"
               /\ Rest(r, {"stage", "at"})
            \/ /\ j.stage \in Checked \ {"promote"} /\ k.stage \in Checked \ {"promote"}
               /\ Rest(r, {"stage", "at", "attribution"})
            \/ k.stage = "raised" /\ Rest(r, {"stage"})
<1> DEFINE j == job[r]
           k == job'[r]
<1>1. CASE Plan(r) \/ Scheduled(r) \/ Extract(r) \/ Written(r)
  <2>1. Rest(r, {"stage", "at", "todo", "drafts"}) /\ k.stage \in Early \cup {"verify"}
    BY <1>1, Moves, MovesWith DEF Goes, Rest, Early
  <2>2. j.stage \in Early
    BY <1>1 DEF Early, Plan, Scheduled, Extract, Written
  <2> QED
    BY <2>1, <2>2 DEF Rest
<1>2. CASE Schedule(r)
  <2>1. j.stage = "schedule" /\ Rest(r, {"todo", "done", "failed", "parked", "evidence"})
    BY <1>2, Scheduling DEF Decides
  <2>2. k.stage = "schedule"
    BY <2>1 DEF Rest, Field
  <2> QED
    BY <2>1, <2>2 DEF Rest, Early
<1>3. CASE Place(r) \/ LeaveOut(r)
  <2>1. j.stage = "write" /\ Rest(r, {"claims", "at"})
    BY <1>3, Loops DEF Rest, Place, LeaveOut, AtDraft
  <2>2. k.stage = "write"
    BY <2>1 DEF Rest, Field
  <2> QED
    BY <2>1, <2>2 DEF Rest, Early
<1>4. CASE RejectLexically(r) \/ RejectByJudge(r) \/ RejectByScript(r) \/ Accept(r)
  <2>1. j.stage = "verify" /\ Rest(r, {"claims", "at", "tally"})
    BY <1>4, Settled, CurrentClaim, Loops
  <2>2. k.stage = "verify"
    BY <2>1 DEF Rest, Field
  <2> QED
    BY <2>1, <2>2
<1>5. CASE Keep(r)
  <2>1. j.stage = "critique" /\ Rest(r, {"at"})
    BY <1>5, Loops DEF Keep, AtClaim
  <2> QED
    BY <1>5, <2>1 DEF Rest, Field
<1>6. CASE PassOverUnverified(r) \/ PassOverUnanchored(r) \/ File(r)
  <2>1. j.stage = "promote" /\ Rest(r, {"at", "unverified", "unanchored", "added"})
    BY <1>6, Loops DEF Rest, PassOverUnverified, PassOverUnanchored, File, AtClaim
  <2> QED
    BY <1>6, <2>1 DEF Rest, Field
<1>7. CASE Promoted(r)
  BY <1>7, Moves DEF Promoted, Goes
<1>8. CASE Remember(r)
  <2>1. j.stage = "remember" /\ Rest(r, {"at"})
    BY <1>8, Loops DEF Remember
  <2> QED
    BY <2>1 DEF Rest, Field, Checked
<1>9. CASE Remembered(r) \/ Attribute(r)
  <2>1. /\ j.stage \in {"remember", "attribute"} /\ k.stage \in {"attribute", "returned"}
        /\ Rest(r, {"stage", "at", "attribution"})
    BY <1>9, Moves, MovesWith DEF Remembered, Attribute, Goes, Rest
  <2> QED
    BY <2>1 DEF Checked
<1>10. CASE Raise(r)
  BY <1>10, Loops
<1> QED
  BY <1>1, <1>2, <1>3, <1>4, <1>5, <1>6, <1>7, <1>8, <1>9, <1>10 DEF Step

LEMMA CountsStep ==
  ASSUME Typed, NEW r \in Request, Step(r), VerdictsOK(job[r]), CountsOK(job[r])
  PROVE  CountsOK(job'[r])
<1> DEFINE j == job[r]
           k == job'[r]
<1>0. JobType(j) /\ JobType(k)
  BY JobKeepsType DEF Typed
<1>1. ASSUME k.downgraded = j.downgraded, j.stage \in Unfiled \ {"critique"},
             k.stage \in Unfiled \ {"critique"}
      PROVE  CountsOK(k)
  BY <1>1 DEF CountsOK, AfterVerify, AfterCritique, Unfiled, Early
<1>2. ASSUME k.claims = j.claims, k.downgraded = j.downgraded, k.total = j.total,
             k.verified = j.verified,
             \/ j.stage = "critique" /\ k.stage = "critique"
             \/ j.stage \in Checked /\ k.stage \in Checked
             \/ k.stage = "raised"
      PROVE  CountsOK(k)
  <2>1. VerifiedClaims(k) = VerifiedClaims(j)
    BY <1>2 DEF VerifiedClaims
  <2> QED
    BY <1>2, <2>1 DEF CountsOK, AfterVerify, AfterCritique, Checked
<1>3. CASE Verified(r)
  <2>1. /\ k.total = Len(j.claims) /\ k.verified = j.tally /\ k.claims = j.claims
        /\ j.stage = "verify" /\ k.stage = "critique"
    BY <1>3, MovesWith DEF Verified, AtEnd, Goes, Rest, Field
  <2>2. VerifiedClaims(k) = VerifiedClaims(j)
    BY <2>1 DEF VerifiedClaims
  <2> QED
    BY <2>1, <2>2 DEF VerdictsOK, CountsOK, AfterVerify, AfterCritique
<1>4. CASE Downgrade(r)
  <2>1. j.stage = "critique" /\ j.at \in DOMAIN j.claims
    BY <1>4, CurrentClaim DEF Downgrade
  <2>2. /\ k.claims = [j.claims EXCEPT ![j.at] = Downgraded(j.claims[j.at])]
        /\ k.downgraded = j.downgraded \cup {j.at} /\ k.total = j.total /\ k.stage = "critique"
    BY <1>4, <2>1, Loops DEF Rest, Field
  <2>3. Len(k.claims) = Len(j.claims)
    BY <1>0, <2>1, <2>2 DEF JobType
  <2> QED
    BY <2>1, <2>2, <2>3 DEF CountsOK, AfterVerify, AfterCritique
<1>5. CASE Criticized(r)
  <2>1. /\ k.claims = j.claims /\ j.stage = "critique" /\ k.stage = "promote"
        /\ IF j.downgraded = {} THEN k.total = j.total /\ k.verified = j.verified
           ELSE k.total = Len(j.claims) /\ k.verified = Cardinality(VerifiedClaims(j))
    <3>1. Rest(r, {"stage", "at", "total", "verified"}) /\ Goes(r, "promote")
      BY <1>5, MovesWith
    <3>2. IF j.downgraded = {} THEN k.total = j.total /\ k.verified = j.verified
          ELSE k.total = Len(j.claims) /\ k.verified = Cardinality(VerifiedClaims(j))
      BY <1>5, MovesWith
    <3> QED
      BY <1>5, <3>1, <3>2 DEF Criticized, Goes, Rest, Field
  <2>2. VerifiedClaims(k) = VerifiedClaims(j)
    BY <2>1 DEF VerifiedClaims
  <2> QED
    BY <2>1, <2>2 DEF CountsOK, AfterVerify, AfterCritique
<1>6. ASSUME NEW F, Rest(r, F), F \cap {"downgraded", "total", "verified"} = {}
      PROVE  /\ k.downgraded = j.downgraded /\ k.total = j.total /\ k.verified = j.verified
             /\ "claims" \notin F => k.claims = j.claims
  BY <1>6 DEF Rest, Field
<1>7. CASE /\ j.stage \in Early /\ k.stage \in Early \cup {"verify"}
           /\ Rest(r, {"stage", "todo", "done", "failed", "parked", "evidence", "at",
                       "drafts", "claims"})
  <2>1. k.downgraded = j.downgraded
    BY <1>7, <1>6
  <2> QED
    BY <1>1, <1>7, <2>1 DEF Unfiled, Early
<1>8. CASE j.stage = "verify" /\ k.stage = "verify" /\ Rest(r, {"claims", "at", "tally"})
  <2>1. k.downgraded = j.downgraded
    BY <1>8, <1>6
  <2> QED
    BY <1>1, <1>8, <2>1 DEF Unfiled, Early
<1>9. ASSUME NEW F, Rest(r, F), F \cap {"downgraded", "total", "verified", "claims"} = {},
             \/ j.stage = "critique" /\ k.stage = "critique"
             \/ j.stage \in Checked /\ k.stage \in Checked
             \/ k.stage = "raised"
      PROVE  CountsOK(k)
  BY <1>2, <1>6, <1>9
<1>10. CASE j.stage = "critique" /\ k.stage = "critique" /\ Rest(r, {"at"})
  BY <1>9, <1>10
<1>11. CASE /\ j.stage = "promote" /\ k.stage = "promote"
            /\ Rest(r, {"at", "unverified", "unanchored", "added"})
  BY <1>9, <1>11 DEF Checked
<1>12. CASE j.stage = "promote" /\ k.stage = "remember" /\ Rest(r, {"stage", "at"})
  BY <1>9, <1>12 DEF Checked
<1>13. CASE /\ j.stage \in Checked \ {"promote"} /\ k.stage \in Checked \ {"promote"}
            /\ Rest(r, {"stage", "at", "attribution"})
  BY <1>9, <1>13
<1>14. CASE k.stage = "raised" /\ Rest(r, {"stage"})
  BY <1>9, <1>14
<1> QED
  BY <1>3, <1>4, <1>5, <1>7, <1>8, <1>10, <1>11, <1>12, <1>13, <1>14, Course

(* The claims before a place, and how many of them are verified.            *)
LEMMA Passing ==
  ASSUME NEW j, NEW k, JobType(j), k.claims = j.claims, k.at = j.at + 1
  PROVE  LET V == VerifiedClaims(j)
         IN /\ Before(k) = Before(j) \cup {j.at} /\ VerifiedClaims(k) = V
            /\ j.at \in V =>
                 /\ Cardinality(V \cap Before(k)) = Cardinality(V \cap Before(j)) + 1
                 /\ Before(k) \ V = Before(j) \ V
            /\ j.at \notin V =>
                 /\ Cardinality(Before(k) \ V) = Cardinality(Before(j) \ V) + 1
                 /\ V \cap Before(k) = V \cap Before(j)
            /\ Cardinality(V \cap Before(j)) \in Nat /\ Cardinality(Before(j) \ V) \in Nat
<1> DEFINE V == VerifiedClaims(j)
           B == Before(j)
           C == Before(k)
<1>1. j.at \in Nat /\ j.at >= 1
  BY DEF JobType
<1>2. C = B \cup {j.at} /\ j.at \notin B
  BY <1>1 DEF Before
<1>3. IsFiniteSet(B) /\ IsFiniteSet(V \cap B) /\ IsFiniteSet(B \ V)
  <2>1. IsFiniteSet(B)
    BY <1>1, FS_Interval DEF Before
  <2> QED
    BY <2>1, FS_Subset
<1>4. VerifiedClaims(k) = V
  BY DEF VerifiedClaims
<1> HIDE DEF V, B, C
<1>5. ASSUME j.at \in V
      PROVE  Cardinality(V \cap C) = Cardinality(V \cap B) + 1 /\ C \ V = B \ V
  <2>1. V \cap C = (V \cap B) \cup {j.at} /\ j.at \notin V \cap B /\ C \ V = B \ V
    BY <1>2, <1>5
  <2> QED
    BY <1>3, <2>1, FS_AddElement
<1>6. ASSUME j.at \notin V
      PROVE  Cardinality(C \ V) = Cardinality(B \ V) + 1 /\ V \cap C = V \cap B
  <2>1. C \ V = (B \ V) \cup {j.at} /\ j.at \notin B \ V /\ V \cap C = V \cap B
    BY <1>2, <1>6
  <2> QED
    BY <1>3, <2>1, FS_AddElement
<1>7. Cardinality(V \cap B) \in Nat /\ Cardinality(B \ V) \in Nat
  BY <1>3, FS_CardinalityType
<1> QED
  BY <1>2, <1>4, <1>5, <1>6, <1>7 DEF V, B, C

LEMMA FiledStep ==
  ASSUME Typed, NEW r \in Request, Step(r), CountsOK(job[r]), FiledOK(r)
  PROVE  FiledOK(r)'
<1> DEFINE j == job[r]
           k == job'[r]
<1>0. JobType(j) /\ JobType(k) /\ wired' = wired /\ (~File(r) => library' = library)
  BY JobKeepsType, Shared DEF Typed
<1>1. ~File(r) => Rows(r)' = Rows(r)
  BY <1>0 DEF Rows
<1>2. ASSUME ~File(r), j.stage \in Unfiled, k.stage \in Unfiled \cup {"raised"},
             k.added = j.added, k.unverified = j.unverified, k.unanchored = j.unanchored
      PROVE  FiledOK(r)'
  <2>1. /\ Rows(r) = {} /\ Rows(r)' = {} /\ IsFiniteSet(Rows(r))
        /\ k.added = 0 /\ k.unverified = 0 /\ k.unanchored = 0
    BY <1>1, <1>2 DEF FiledOK, Unfiled, Early, AfterPromotion, AfterCritique, AfterVerify
  <2> QED
    BY <1>2, <2>1 DEF FiledOK, Unfiled, Early, AfterPromotion, AfterCritique, AfterVerify
<1>3. ASSUME ~File(r), k.claims = j.claims, k.total = j.total, k.verified = j.verified,
             k.added = j.added, k.unverified = j.unverified, k.unanchored = j.unanchored,
             \/ j.stage \in Checked \ {"promote"} /\ k.stage \in Checked \ {"promote"}
             \/ k.stage = "raised"
      PROVE  FiledOK(r)'
  <2>1. Rows(r)' = Rows(r) /\ VerifiedClaims(k) = VerifiedClaims(j)
    BY <1>1, <1>3 DEF VerifiedClaims
  <2>2. /\ IsFiniteSet(Rows(r)') /\ \A row \in Rows(r)' : row.claim \in VerifiedClaims(k)
        /\ AfterPromotion(k) => AfterPromotion(j)
        /\ k.stage # "raised" => AfterPromotion(k) /\ k.stage # "promote"
    BY <1>3, <2>1 DEF FiledOK, Checked, AfterPromotion, AfterCritique, AfterVerify
  <2> QED
    BY <1>0, <1>3, <2>1, <2>2 DEF FiledOK, AfterPromotion, AfterCritique, AfterVerify
<1>4. ASSUME NEW F, Rest(r, F)
      PROVE  /\ "claims" \notin F => k.claims = j.claims
             /\ F \cap {"added", "unverified", "unanchored"} = {} =>
                  /\ k.added = j.added /\ k.unverified = j.unverified
                  /\ k.unanchored = j.unanchored
             /\ F \cap {"total", "verified"} = {} =>
                  k.total = j.total /\ k.verified = j.verified
  BY <1>4 DEF Rest, Field
<1>5. CASE Criticized(r)
  <2>1. /\ ~File(r) /\ j.stage = "critique" /\ k.stage = "promote" /\ k.at = 1
        /\ Rest(r, {"stage", "at", "total", "verified"})
    BY <1>5, MovesWith DEF Criticized, File, AtClaim, Goes
  <2>2. /\ Rows(r)' = {} /\ k.added = 0 /\ k.unverified = 0 /\ k.unanchored = 0
        /\ k.claims = j.claims
    BY <1>1, <1>4, <2>1 DEF FiledOK, AfterPromotion, AfterCritique, AfterVerify
  <2>3. Before(k) = {} /\ Len(k.claims) \in Nat
    BY <1>0, <2>1 DEF Before, JobType
  <2>4. Cardinality(VerifiedClaims(k) \cap Before(k)) = 0 /\ Cardinality(Before(k) \ VerifiedClaims(k)) = 0
    BY <2>3, FS_EmptySet
  <2> QED
    BY <2>1, <2>2, <2>3, <2>4, FS_EmptySet DEF FiledOK, AfterPromotion, AfterCritique, AfterVerify
<1>6. CASE PassOverUnverified(r) \/ PassOverUnanchored(r) \/ File(r)
  <2> DEFINE V == VerifiedClaims(j)
  <2>1. /\ j.stage = "promote" /\ k.stage = "promote" /\ k.at = j.at + 1
        /\ j.at \in 1..Len(j.claims) /\ j.at \in DOMAIN j.claims
        /\ Current(r) = j.claims[j.at] /\ k.claims = j.claims
    <3>1. /\ k.at = j.at + 1 /\ AtClaim(r, "promote")
          /\ Rest(r, {"at", "added", "unverified", "unanchored"})
      BY <1>6, Loops DEF PassOverUnverified, PassOverUnanchored, File, Rest
    <3> QED
      BY <1>4, <3>1, CurrentClaim DEF Rest, Field
  <2>2. /\ Before(k) = Before(j) \cup {j.at} /\ VerifiedClaims(k) = V
        /\ j.at \in V =>
             /\ Cardinality(V \cap Before(k)) = Cardinality(V \cap Before(j)) + 1
             /\ Before(k) \ V = Before(j) \ V
        /\ j.at \notin V =>
             /\ Cardinality(Before(k) \ V) = Cardinality(Before(j) \ V) + 1
             /\ V \cap Before(k) = V \cap Before(j)
        /\ Cardinality(V \cap Before(j)) \in Nat /\ Cardinality(Before(j) \ V) \in Nat
    BY <1>0, <2>1, Passing
  <2>3. /\ IsFiniteSet(Rows(r)) /\ \A row \in Rows(r) : row.claim \in V /\ row.claim \in Before(j)
        /\ j.added = Cardinality(Rows(r)) /\ j.unanchored \in Nat
        /\ j.added + j.unanchored = Cardinality(V \cap Before(j))
        /\ j.unverified = Cardinality(Before(j) \ V)
    BY <2>1 DEF FiledOK
  <2>4. k.at <= Len(k.claims) + 1 /\ j.added \in Nat
    BY <1>0, <2>1, <2>3, FS_CardinalityType DEF JobType
  <2>5. ASSUME IsFiniteSet(Rows(r)'),
               \A row \in Rows(r)' : row.claim \in V /\ row.claim \in Before(k),
               k.added = Cardinality(Rows(r)'), k.unanchored \in Nat,
               k.added + k.unanchored = Cardinality(V \cap Before(k)),
               k.unverified = Cardinality(Before(k) \ V)
        PROVE  FiledOK(r)'
    BY <2>1, <2>2, <2>4, <2>5 DEF FiledOK, AfterPromotion, AfterCritique, AfterVerify
  <2>6. CASE PassOverUnverified(r)
    <3>1. /\ j.at \notin V /\ Rows(r)' = Rows(r)
          /\ k.added = j.added /\ k.unanchored = j.unanchored /\ k.unverified = j.unverified + 1
      <4>1. Rest(r, {"at", "unverified"}) /\ k.unverified = j.unverified + 1
        BY <2>6, Loops
      <4> QED
        BY <2>1, <2>6, <4>1 DEF PassOverUnverified, Rows, VerifiedClaims, Rest, Field
    <3> QED
      BY <2>2, <2>3, <2>5, <3>1
  <2>7. CASE PassOverUnanchored(r)
    <3>1. /\ j.at \in V /\ Rows(r)' = Rows(r)
          /\ k.added = j.added /\ k.unanchored = j.unanchored + 1 /\ k.unverified = j.unverified
      <4>1. Rest(r, {"at", "unanchored"}) /\ k.unanchored = j.unanchored + 1
        BY <2>7, Loops
      <4> QED
        BY <2>1, <2>7, <4>1 DEF PassOverUnanchored, Rows, VerifiedClaims, Rest, Field
    <3>2. \A row \in Rows(r)' : row.claim \in V /\ row.claim \in Before(k)
      BY <2>2, <2>3, <3>1
    <3>3. k.unanchored \in Nat /\ k.added + k.unanchored = Cardinality(V \cap Before(k))
      BY <2>2, <2>3, <2>4, <3>1
    <3> QED
      BY <2>2, <2>3, <2>5, <3>1, <3>2, <3>3
  <2>8. CASE File(r)
    <3> DEFINE row == [run |-> r, claim |-> j.at]
    <3>1. /\ k.added = j.added + 1 /\ k.unanchored = j.unanchored /\ k.unverified = j.unverified
      <4>1. Rest(r, {"at", "added"}) /\ k.added = j.added + 1
        BY <2>8, Loops
      <4> QED
        BY <4>1 DEF Rest, Field
    <3>2. j.at \in V /\ Rows(r)' = Rows(r) \cup {row}
      BY <2>1, <2>8 DEF File, CanPromote, VerifiedClaims, Rows
    <3>3. j.at \notin Before(j) /\ row.claim = j.at
      BY <1>0 DEF Before, JobType
    <3> HIDE DEF row
    <3>4. row \notin Rows(r)
      BY <2>3, <3>3
    <3>5. IsFiniteSet(Rows(r)') /\ Cardinality(Rows(r)') = Cardinality(Rows(r)) + 1
      BY <2>3, <3>2, <3>4, FS_AddElement
    <3>6. \A w \in Rows(r)' : w.claim \in V /\ w.claim \in Before(k)
      BY <2>2, <2>3, <3>2, <3>3
    <3>7. k.added + k.unanchored = Cardinality(V \cap Before(k))
      BY <2>2, <2>3, <2>4, <3>1, <3>2
    <3> QED
      BY <2>2, <2>3, <2>5, <3>1, <3>2, <3>5, <3>6, <3>7
  <2> QED
    BY <1>6, <2>6, <2>7, <2>8
<1>7. CASE Promoted(r) /\ j.stage = "promote" /\ k.stage = "remember" /\ Rest(r, {"stage", "at"})
  <2> DEFINE V == VerifiedClaims(j)
  <2>1. /\ ~File(r) /\ k.claims = j.claims /\ k.total = j.total /\ k.verified = j.verified
        /\ k.added = j.added /\ k.unverified = j.unverified /\ k.unanchored = j.unanchored
    <3>1. ~File(r)
      BY <1>7, Loops DEF Rest, Field
    <3> QED
      BY <1>4, <1>7, <3>1
  <2>2. Rows(r)' = Rows(r) /\ VerifiedClaims(k) = V
    BY <1>1, <2>1 DEF VerifiedClaims
  <2>3. /\ IsFiniteSet(Rows(r)) /\ \A row \in Rows(r) : row.claim \in V
        /\ j.added = Cardinality(Rows(r)) /\ j.unanchored \in Nat /\ j.at <= Len(j.claims) + 1
        /\ j.added + j.unanchored = Cardinality(V \cap Before(j))
        /\ j.unverified = Cardinality(Before(j) \ V)
    BY <1>7 DEF FiledOK
  <2>4. ASSUME "kb" \in wired
        PROVE  j.unverified = j.total - j.verified /\ j.added + j.unanchored = j.verified
    <3>1. j.at > Len(j.claims)
      BY <1>7, <2>4 DEF Promoted, AtEnd
    <3>2. j.at = Len(j.claims) + 1 /\ Len(j.claims) \in Nat
      BY <1>0, <2>3, <3>1 DEF JobType
    <3>3. Before(j) = 1..Len(j.claims)
      BY <3>2 DEF Before
    <3>4. V \subseteq Before(j)
      BY <1>0, <3>3, VerifiedFinite
    <3>5. IsFiniteSet(Before(j)) /\ Cardinality(Before(j)) = Len(j.claims)
      BY <3>2, <3>3, FS_Interval
    <3>6. Cardinality(Before(j) \ V) = Cardinality(Before(j)) - Cardinality(Before(j) \cap V)
      BY <3>5, FS_Difference
    <3>7. Before(j) \cap V = V /\ V \cap Before(j) = V
      BY <3>4
    <3>8. j.total = Len(j.claims) /\ j.verified = Cardinality(V)
      BY <1>7 DEF CountsOK, AfterVerify, AfterCritique
    <3> QED
      BY <2>3, <3>5, <3>6, <3>7, <3>8
  <2> QED
    BY <1>0, <1>7, <2>1, <2>2, <2>3, <2>4 DEF FiledOK, AfterPromotion, AfterCritique, AfterVerify
<1>8. ASSUME j.stage \in Unfiled, k.stage \in Unfiled \cup {"raised"}, NEW F, Rest(r, F),
             F \cap {"added", "unverified", "unanchored"} = {}
      PROVE  FiledOK(r)'
  <2>1. ~File(r)
    BY <1>8 DEF File, AtClaim, Unfiled, Early
  <2> QED
    BY <1>2, <1>4, <1>8, <2>1
<1>9. CASE Verified(r)
  <2>1. Rest(r, {"stage", "at", "total", "verified"}) /\ k.stage = "critique"
    BY <1>9, MovesWith DEF Goes
  <2>2. j.stage \in Unfiled /\ k.stage \in Unfiled
    BY <1>9, <2>1 DEF Verified, AtEnd, Unfiled
  <2> QED
    BY <1>8, <2>1, <2>2
<1>15. CASE Downgrade(r)
  <2>1. Rest(r, {"claims", "at", "downgraded"}) /\ j.stage = "critique"
    BY <1>15, Loops DEF Downgrade, AtClaim
  <2>2. k.stage = "critique"
    BY <2>1 DEF Rest, Field
  <2> QED
    BY <1>8, <2>1, <2>2 DEF Unfiled
<1>10. CASE /\ j.stage \in Checked \ {"promote"} /\ k.stage \in Checked \ {"promote"}
            /\ Rest(r, {"stage", "at", "attribution"})
  <2>1. ~File(r)
    BY <1>10 DEF File, AtClaim
  <2> QED
    BY <1>3, <1>4, <1>10, <2>1
<1>11. CASE k.stage = "raised" /\ Rest(r, {"stage"})
  <2>1. ~File(r)
    BY <1>11, Loops DEF File, AtClaim, Rest, Field
  <2> QED
    BY <1>3, <1>4, <1>11, <2>1
<1>12. CASE /\ j.stage \in Early /\ k.stage \in Early \cup {"verify"}
            /\ Rest(r, {"stage", "todo", "done", "failed", "parked", "evidence", "at",
                        "drafts", "claims"})
  BY <1>8, <1>12 DEF Unfiled
<1>13. CASE j.stage = "verify" /\ k.stage = "verify" /\ Rest(r, {"claims", "at", "tally"})
  BY <1>8, <1>13 DEF Unfiled
<1>14. CASE j.stage = "critique" /\ k.stage = "critique" /\ Rest(r, {"at"})
  BY <1>8, <1>14 DEF Unfiled
<1> QED
  BY <1>5, <1>6, <1>7, <1>9, <1>10, <1>11, <1>12, <1>13, <1>14, <1>15, Course

-----------------------------------------------------------------------------
(* The shared recorder and the memory.                                      *)
LEMMA MemoryKept ==
  ASSUME Typed, NEW r \in Request, Step(r), NEW q \in Request, MemoryOK(q)
  PROVE  /\ \A n : Logged(q, n) => Logged(q, n)'
         /\ \A n : Stored(q, n) => Stored(q, n)'
         /\ job[q].stage = "remember" =>
              /\ job[q].at <= Len(spans') + 1
              /\ \A i \in DOMAIN spans' :
                   i < job[q].at => [by |-> q, span |-> spans'[i]] \in observations'
<1>1. /\ spans' \in Seq(SpanRecord) /\ Len(spans) <= Len(spans') /\ Len(spans) \in Nat
      /\ \A i \in 1..Len(spans) : spans'[i] = spans[i]
      /\ DOMAIN spans = 1..Len(spans) /\ DOMAIN spans' = 1..Len(spans')
      /\ Len(spans') \in Nat /\ observations \subseteq observations'
  BY SpansGrow, Shared DEF Typed
<1>2. \A n : Logged(q, n) => Logged(q, n)'
  <2> SUFFICES ASSUME NEW n, Logged(q, n) PROVE Logged(q, n)'
    OBVIOUS
  <2>1. PICK i \in 1..Len(spans) : spans[i].run = q /\ spans[i].node = n
    BY <1>1 DEF Logged
  <2>2. i \in DOMAIN spans' /\ spans'[i].run = q /\ spans'[i].node = n
    BY <1>1, <2>1
  <2> QED
    BY <2>2 DEF Logged
<1>3. \A n : Stored(q, n) => Stored(q, n)'
  BY <1>1 DEF Stored
<1>4. ASSUME job[q].stage = "remember"
      PROVE  /\ job[q].at <= Len(spans') + 1
             /\ \A i \in DOMAIN spans' :
                  i < job[q].at => [by |-> q, span |-> spans'[i]] \in observations'
  <2>1. job[q].at \in Nat /\ job[q].at <= Len(spans) + 1
    BY <1>4 DEF MemoryOK, Typed, JobType
  <2>2. ASSUME NEW i \in DOMAIN spans', i < job[q].at
        PROVE  [by |-> q, span |-> spans'[i]] \in observations'
    <3>1. i \in DOMAIN spans /\ spans'[i] = spans[i]
      BY <1>1, <2>1, <2>2
    <3>2. [by |-> q, span |-> spans[i]] \in observations
      BY <1>4, <2>2, <3>1 DEF MemoryOK
    <3> QED
      BY <1>1, <3>1, <3>2
  <2> QED
    BY <1>1, <2>1, <2>2
<1> QED
  BY <1>2, <1>3, <1>4

LEMMA MemoryStep ==
  ASSUME Typed, NEW r \in Request, Step(r), MemoryOK(r)
  PROVE  MemoryOK(r)'
<1> DEFINE j == job[r]
           k == job'[r]
<1>0. /\ JobType(j) /\ wired' = wired
      /\ \A n : Logged(r, n) => Logged(r, n)'
      /\ \A n : Stored(r, n) => Stored(r, n)'
      /\ \A n \in j.done \cup j.failed : Logged(r, n)
  BY MemoryKept, Shared DEF Typed, MemoryOK
<1>1. ASSUME k.done = j.done, k.failed = j.failed,
             k.stage \notin {"remember", "attribute", "returned"}
      PROVE  MemoryOK(r)'
  BY <1>0, <1>1 DEF MemoryOK
<1>2. ASSUME NEW F, Rest(r, F), F \cap {"done", "failed"} = {}
      PROVE  k.done = j.done /\ k.failed = j.failed
  BY <1>2 DEF Rest, Field
<1>3. CASE Schedule(r)
  <2>1. PICK n \in j.todo : Decides(r, n)
    BY <1>3, Scheduling
  <2>2. k.stage = "schedule"
    BY <1>3, <2>1 DEF Schedule, Decides, Rest, Field
  <2>3. ASSUME NEW verdict, spans' = Append(spans, Span(r, n, verdict)), n \in Node,
               verdict \in {"ok", "error"}
        PROVE  Logged(r, n)'
    <3> DEFINE s == Span(r, n, verdict)
               i == Len(spans) + 1
    <3>1. s \in SpanRecord /\ s.run = r /\ s.node = n
      BY <2>3 DEF Span, SpanRecord
    <3>2. spans' = Append(spans, s)
      BY <2>3
    <3> HIDE DEF s
    <3>3. i \in DOMAIN spans' /\ spans'[i] = s
      BY <3>1, <3>2 DEF Typed
    <3> QED
      BY <3>1, <3>3 DEF Logged
  <2>4. n \in Node
    BY <1>0 DEF JobType
  <2>5. \A m \in k.done \cup k.failed : Logged(r, m)'
    BY <1>0, <2>1, <2>3, <2>4 DEF Decides
  <2> QED
    BY <2>2, <2>5 DEF MemoryOK
<1>4. CASE Promoted(r)
  <2>1. Goes(r, "remember") /\ k.done = j.done /\ k.failed = j.failed
    BY <1>2, <1>4, Moves
  <2>2. Len(spans') \in Nat /\ DOMAIN spans' = 1..Len(spans')
    BY SpansGrow
  <2>3. \A i \in DOMAIN spans' : ~(i < k.at)
    BY <2>1, <2>2 DEF Goes
  <2> QED
    BY <1>0, <2>1, <2>2, <2>3 DEF MemoryOK, Goes
<1>5. CASE Remember(r)
  <2>1. Rest(r, {"at"}) /\ k.at = j.at + 1 /\ j.stage = "remember" /\ j.at <= Len(spans)
    BY <1>5, Loops DEF Remember
  <2>2. k.stage = "remember" /\ k.done = j.done /\ k.failed = j.failed
    BY <1>2, <2>1 DEF Rest, Field
  <2>3. spans' = spans /\ observations' = observations \cup {[by |-> r, span |-> spans[j.at]]}
    BY <1>5 DEF Remember
  <2>4. Len(spans) \in Nat /\ DOMAIN spans = 1..Len(spans) /\ j.at \in Nat
    BY <1>0 DEF Typed, JobType
  <2>5. ASSUME NEW i \in DOMAIN spans', i < k.at
        PROVE  [by |-> r, span |-> spans'[i]] \in observations'
    <3>1. i < j.at \/ i = j.at
      BY <2>1, <2>3, <2>4, <2>5
    <3> QED
      BY <2>1, <2>3, <2>5, <3>1 DEF MemoryOK
  <2>6. k.at <= Len(spans') + 1
    BY <2>1, <2>3, <2>4
  <2> QED
    BY <1>0, <2>2, <2>5, <2>6 DEF MemoryOK
<1>6. CASE Remembered(r)
  <2>1. /\ Goes(r, "attribute") /\ k.done = j.done /\ k.failed = j.failed
        /\ j.stage = "remember" /\ ("memory" \in wired => j.at > Len(spans))
    BY <1>2, <1>6, Moves DEF Remembered
  <2>2. ASSUME "memory" \in wired, NEW n \in j.done \cup j.failed PROVE Stored(r, n)
    <3>1. PICK i \in DOMAIN spans : spans[i].run = r /\ spans[i].node = n
      BY <1>0 DEF Logged
    <3>2. i < j.at
      BY <1>0, <2>1, <2>2, <3>1 DEF Typed, JobType
    <3> DEFINE o == [by |-> r, span |-> spans[i]]
    <3>3. o \in observations
      BY <2>1, <3>2 DEF MemoryOK
    <3>4. o.by = r /\ o.span.run = r /\ o.span.node = n
      BY <3>1
    <3> HIDE DEF o
    <3> QED
      BY <3>3, <3>4 DEF Stored
  <2> QED
    BY <1>0, <2>1, <2>2 DEF MemoryOK, Goes
<1>7. CASE Attribute(r)
  <2>1. Goes(r, "returned") /\ k.done = j.done /\ k.failed = j.failed
    BY <1>2, <1>7, MovesWith
  <2>2. j.stage = "attribute"
    BY <1>7 DEF Attribute
  <2> QED
    BY <1>0, <2>1, <2>2 DEF MemoryOK, Goes
<1>8. CASE Plan(r) \/ Scheduled(r) \/ Extract(r) \/ Written(r) \/ Verified(r) \/ Criticized(r)
  <2>1. /\ Rest(r, {"stage", "at", "todo", "drafts", "total", "verified"})
        /\ k.stage \notin {"remember", "attribute", "returned"}
    BY <1>8, Moves, MovesWith DEF Rest, Goes
  <2> QED
    BY <1>1, <1>2, <2>1
<1>9. CASE \/ Place(r) \/ LeaveOut(r) \/ Keep(r)
           \/ RejectLexically(r) \/ RejectByJudge(r) \/ RejectByScript(r) \/ Accept(r)
           \/ Downgrade(r) \/ PassOverUnverified(r) \/ PassOverUnanchored(r) \/ File(r)
  <2>1. Rest(r, {"at", "claims", "tally", "downgraded", "added", "unverified", "unanchored"})
    BY <1>9, Loops, Settled DEF Rest
  <2>2. j.stage \in {"write", "verify", "critique", "promote"}
    BY <1>9, Settled
       DEF Place, LeaveOut, AtDraft, Keep, Downgrade, PassOverUnverified,
           PassOverUnanchored, File, AtClaim
  <2>3. k.stage = j.stage
    BY <2>1 DEF Rest, Field
  <2> QED
    BY <1>1, <1>2, <2>1, <2>2, <2>3
<1>10. CASE Raise(r)
  <2>1. Rest(r, {"stage"}) /\ k.stage = "raised"
    BY <1>10, Loops
  <2> QED
    BY <1>1, <1>2, <2>1
<1> QED
  BY <1>3, <1>4, <1>5, <1>6, <1>7, <1>8, <1>9, <1>10 DEF Step

LEMMA AttributedStep ==
  ASSUME Typed, NEW r \in Request, Step(r), Attributed(job[r])
  PROVE  Attributed(job'[r])
<1> DEFINE j == job[r]
           k == job'[r]
<1>1. CASE Attribute(r)
  <2>1. /\ Rest(r, {"stage", "at", "attribution"})
        /\ \E quoting : k.attribution = IF Troubled(j) THEN Classified(j, quoting) ELSE {}
    BY <1>1, MovesWith
  <2>2. /\ k.failed = j.failed /\ k.parked = j.parked /\ k.downgraded = j.downgraded
        /\ k.claims = j.claims /\ k.verified = j.verified /\ k.total = j.total
    BY <2>1 DEF Rest, Field
  <2>3. Troubled(k) = Troubled(j) /\ \A quoting : Classified(k, quoting) = Classified(j, quoting)
    BY <2>2 DEF Troubled, BelowFloor, Classified, VerifiedClaims
  <2> QED
    BY <2>1, <2>3 DEF Attributed
<1>2. CASE ~Attribute(r)
  <2>1. k.stage # "returned"
    <3>1. CASE Schedule(r)
      BY <3>1, Scheduling DEF Decides, Rest, Field
    <3>2. CASE \/ Plan(r) \/ Scheduled(r) \/ Extract(r) \/ Written(r) \/ Verified(r)
               \/ Criticized(r) \/ Promoted(r) \/ Remembered(r)
      BY <3>2, Moves, MovesWith DEF Goes
    <3>3. CASE \/ Place(r) \/ LeaveOut(r) \/ Keep(r) \/ Remember(r)
               \/ RejectLexically(r) \/ RejectByJudge(r) \/ RejectByScript(r) \/ Accept(r)
               \/ Downgrade(r) \/ PassOverUnverified(r) \/ PassOverUnanchored(r) \/ File(r)
      <4>1. Rest(r, {"at", "claims", "tally", "downgraded", "added", "unverified", "unanchored"})
        BY <3>3, Loops, Settled DEF Rest
      <4>2. j.stage # "returned"
        BY <3>3, Settled
           DEF Place, LeaveOut, AtDraft, Keep, Remember, Downgrade, PassOverUnverified,
               PassOverUnanchored, File, AtClaim
      <4> QED
        BY <4>1, <4>2 DEF Rest, Field
    <3>4. CASE Raise(r)
      BY <3>4, Loops
    <3> QED
      BY <1>2, <3>1, <3>2, <3>3, <3>4 DEF Step
  <2> QED
    BY <2>1 DEF Attributed
<1> QED
  BY <1>1, <1>2

-----------------------------------------------------------------------------
(* The inductive invariant.                                                 *)
LEMMA InvInit == Init => Inv
<1> SUFFICES ASSUME Init PROVE Inv
  OBVIOUS
<1>1. /\ spans = <<>> /\ library = {} /\ DOMAIN job = Request
      /\ \A r \in Request : job[r] = NewJob
  BY DEF Init
<1>2. JobType(NewJob)
  <2>1. DOMAIN NewJob = Field
    BY DEF NewJob, Field
  <2> QED
    BY <2>1 DEF NewJob, JobType, Stage
<1>3. Typed
  BY <1>1, <1>2 DEF Typed
<1>4. /\ NewJob.stage = "plan" /\ NewJob.claims = <<>> /\ NewJob.tally = 0
      /\ NewJob.downgraded = {} /\ NewJob.added = 0 /\ NewJob.unverified = 0
      /\ NewJob.unanchored = 0 /\ NewJob.done = {} /\ NewJob.failed = {}
  BY DEF NewJob
<1>5. ASSUME NEW r \in Request PROVE Accounted(r)
  <2>1. VerdictsOK(NewJob) /\ CountsOK(NewJob) /\ Attributed(NewJob)
    BY <1>4 DEF VerdictsOK, CountsOK, Attributed, AfterVerify, AfterCritique
  <2>2. Rows(r) = {}
    BY <1>1 DEF Rows
  <2>3. FiledOK(r) /\ MemoryOK(r)
    BY <1>1, <1>4, <2>2, FS_EmptySet
       DEF FiledOK, MemoryOK, AfterPromotion, AfterCritique, AfterVerify
  <2> QED
    BY <1>1, <2>1, <2>3 DEF Accounted
<1> QED
  BY <1>3, <1>5 DEF Inv

LEMMA InvStep == Inv /\ [Next]_vars => Inv'
<1> SUFFICES ASSUME Inv, [Next]_vars PROVE Inv'
  OBVIOUS
<1>1. Typed /\ Typed'
  BY TypedStep DEF Inv
<1>2. CASE UNCHANGED vars
  <2>1. ASSUME NEW q \in Request PROVE Accounted(q)'
    <3>1. /\ job' = job /\ wired' = wired /\ spans' = spans
          /\ library' = library /\ observations' = observations /\ Accounted(q)
      BY <1>2, <2>1 DEF vars, Inv
    <3>2. Rows(q)' = Rows(q)
      BY <3>1 DEF Rows
    <3>3. FiledOK(q)'
      BY <3>1, <3>2 DEF Accounted, FiledOK
    <3>4. MemoryOK(q)'
      BY <3>1 DEF Accounted, MemoryOK, Logged, Stored
    <3> QED
      BY <3>1, <3>3, <3>4 DEF Accounted
  <2> QED
    BY <1>1, <2>1 DEF Inv
<1>3. ASSUME NEW r \in Request, Step(r), NEW q \in Request PROVE Accounted(q)'
  <2>1. Accounted(r) /\ Accounted(q)
    BY DEF Inv
  <2>2. CASE q = r
    BY <1>1, <1>3, <2>1, <2>2, VerdictsStep, CountsStep, FiledStep, MemoryStep, AttributedStep
       DEF Accounted
  <2>3. CASE q # r
    <3>1. job'[q] = job[q] /\ Rows(q)' = Rows(q) /\ wired' = wired
      BY <1>1, <1>3, <2>3, OthersKeep, Shared
    <3>2. FiledOK(q)'
      BY <2>1, <3>1 DEF Accounted, FiledOK
    <3>3. MemoryOK(q)'
      BY <1>1, <1>3, <2>1, <3>1, MemoryKept DEF Accounted, MemoryOK
    <3> QED
      BY <2>1, <3>1, <3>2, <3>3 DEF Accounted
  <2> QED
    BY <2>2, <2>3
<1> QED
  BY <1>1, <1>2, <1>3 DEF Inv, Next

LEMMA InvHolds == Spec => []Inv
BY InvInit, InvStep, PTL DEF Spec, SafeSpec

-----------------------------------------------------------------------------
(* Whatever the evidence, the drafts and the parts wired in, a claim is     *)
(* verified exactly if no tier and no critic left a note on it, and no      *)
(* later tier has looked at what an earlier one rejected.                   *)
THEOREM RejectionsAreExplained == Spec => []RejectionsExplained
<1>1. Inv => RejectionsExplained
  BY DEF Inv, Accounted, VerdictsOK, FirstToReject, Explained, Lexical, RejectionsExplained
<1> QED
  BY <1>1, InvHolds, PTL

(* However many requests run at once and wherever one raises, the rows a    *)
(* run has in the knowledge base stand verified in its report, and its      *)
(* promotion counts add up to the report's.                                 *)
THEOREM PromotionIsAccounted == Spec => []PromotionMatchesReport
<1>1. Inv => PromotionMatchesReport
  BY DEF Inv, Accounted, FiledOK, PromotionMatchesReport
<1> QED
  BY <1>1, InvHolds, PTL

(* However the threads interleave on the one recorder, a run returns only   *)
(* after the memory has the span of every node it ran.                      *)
THEOREM SpansAreRemembered == Spec => []SpansRemembered
<1>1. Inv => SpansRemembered
  BY DEF Inv, Accounted, MemoryOK, Stored, SpansRemembered
<1> QED
  BY <1>1, InvHolds, PTL

(* A result leaves no failed node, parked node, downgrade, or unverified    *)
(* claim below the release floor without a tuple that blames it.            *)
THEOREM FailuresAreAttributed == Spec => []FailuresAttributed
<1>1. ASSUME Inv PROVE FailuresAttributed
  <2> SUFFICES ASSUME NEW r \in Request, job[r].stage = "returned"
               PROVE  LET j == job[r]
                          blamed(about) == {b.item : b \in {a \in j.attribution : a.about = about}}
                      IN /\ j.failed \cup j.parked \subseteq blamed("node")
                         /\ j.downgraded \subseteq blamed("claim")
                         /\ BelowFloor(j) =>
                              DOMAIN j.claims \ VerifiedClaims(j) \subseteq blamed("claim")
    BY DEF FailuresAttributed
  <2> DEFINE j == job[r]
             blamed(about) == {b.item : b \in {a \in j.attribution : a.about = about}}
  <2>1. PICK quoting : j.attribution = IF Troubled(j) THEN Classified(j, quoting) ELSE {}
    BY <1>1 DEF Inv, Accounted, Attributed
  <2>2. ASSUME NEW about, NEW x, NEW b \in j.attribution, b.about = about, b.item = x
        PROVE  x \in blamed(about)
    BY <2>2
  <2> HIDE DEF blamed
  <2>3. /\ j.failed \cup j.parked \subseteq blamed("node")
        /\ j.downgraded \subseteq blamed("claim")
        /\ BelowFloor(j) => DOMAIN j.claims \ VerifiedClaims(j) \subseteq blamed("claim")
    <3>1. CASE ~Troubled(j)
      <4>1. j.failed = {} /\ j.parked = {} /\ j.downgraded = {} /\ ~BelowFloor(j)
        BY <3>1 DEF Troubled
      <4> QED
        BY <4>1
    <3>2. CASE Troubled(j)
      <4>1. ASSUME NEW n \in j.failed \cup j.parked PROVE n \in blamed("node")
        <5>1. \E p : Blame("node", n, p) \in j.attribution
          BY <2>1, <3>2, <4>1 DEF Classified
        <5> QED
          BY <2>2, <5>1 DEF Blame
      <4>2. ASSUME NEW i \in j.downgraded PROVE i \in blamed("claim")
        <5>1. \E p : Blame("claim", i, p) \in j.attribution
          BY <2>1, <3>2, <4>2 DEF Classified
        <5> QED
          BY <2>2, <5>1 DEF Blame
      <4>3. ASSUME NEW i \in DOMAIN j.claims \ VerifiedClaims(j) PROVE i \in blamed("claim")
        <5>1. \E p : Blame("claim", i, p) \in j.attribution
          <6> DEFINE p == PrimitiveOf(j.claims[i], i \in quoting)
          <6>1. Blame("claim", i, p) \in Classified(j, quoting)
            BY <4>3 DEF Classified
          <6> QED
            BY <2>1, <3>2, <6>1
        <5> QED
          BY <2>2, <5>1 DEF Blame
      <4> QED
        BY <4>1, <4>2, <4>3
    <3> QED
      BY <3>1, <3>2
  <2> QED
    BY <2>3 DEF blamed
<1> QED
  BY <1>1, InvHolds, PTL
=============================================================================
