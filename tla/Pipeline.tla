------------------------------ MODULE Pipeline ------------------------------
(***************************************************************************)
(* OpenFangPipeline.run (open_fang/pipeline.py), from the brief to the     *)
(* attributed result, with the writer, the tiers of the claim verifier,    *)
(* the critic, promotion, memory and the failure classifier it calls.      *)
(*                                                                         *)
(* One pipeline serves every request, each in a thread of its own          *)
(* (app.py): they share the span recorder, which is never cleared, the     *)
(* knowledge base and the memory store.  All else of a run is its own and  *)
(* is the record job[r].  The scheduler is seen from outside: a node is    *)
(* done, failed, parked or left; Scheduler.tla has the inside.  A claim is *)
(* what it cites, whether it shares words with a citation, and what the    *)
(* tiers did to it; a note is named for the tier that wrote it.            *)
(***************************************************************************)
EXTENDS Integers, Sequences, FiniteSets, SequencesExt

CONSTANTS
  Request,   \* the requests, each served by a thread
  Node,      \* nodes
  Plans,     \* for each request, the nodes of its plan
  Id,        \* the evidence ids a claim may cite
  Evidence,  \* those of the evidence the sources hold
  Returns,   \* the sets of evidence that a node may return
  Anchored,  \* the evidence whose source has an identifier
  Drafts,    \* for each request, what the claim extractor may return
  Wirings    \* which optional parts the pipeline may be built with

Part == {"probe", "judge", "scripts", "critic", "kb", "memory"}

\* What the extractor makes of the evidence may cite what the run has not
\* retrieved.
Extracted == [cites : Seq(Id), alike : BOOLEAN]

ASSUME PipelineAssumption ==
  /\ Evidence \subseteq Id
  /\ Anchored \subseteq Evidence
  /\ \A r \in Request : Plans[r] \subseteq Node
  /\ Returns \subseteq SUBSET Evidence
  /\ Wirings \subseteq SUBSET Part
  /\ \A r \in Request : Drafts[r] \subseteq Seq(Extracted)

VARIABLES
  wired,         \* the parts the pipeline was built with
  spans,         \* span_recorder.spans
  observations,  \* the memory store: which run stored which span
  library,       \* the claims in the knowledge base: which run, which claim
  job            \* the locals of each run and the report it builds

vars == <<wired, spans, observations, library, job>>

Stage == {"plan", "schedule", "extract", "write", "verify", "critique",
          "promote", "remember", "attribute", "returned", "raised"}

Note == {"", "no evidence bound", "not found", "lexical overlap",
         "llm judge", "executable verifier", "critic"}

NewJob ==
  [stage |-> "plan", todo |-> {}, done |-> {}, failed |-> {}, parked |-> {},
   evidence |-> {}, drafts |-> <<>>, claims |-> <<>>, at |-> 1, tally |-> 0,
   total |-> 0, verified |-> 0, downgraded |-> {},
   added |-> 0, unverified |-> 0, unanchored |-> 0, attribution |-> {}]

Init ==
  /\ wired \in Wirings
  /\ spans = <<>>
  /\ observations = {}
  /\ library = {}
  /\ job = [r \in Request |-> NewJob]

Set(r, j) == job' = [job EXCEPT ![r] = j]

\* A stage that goes through a list begins at its head.
Enter(j, stage) == [j EXCEPT !.stage = stage, !.at = 1]

-----------------------------------------------------------------------------
(* Planning and scheduling.                                                *)

\* Faulty variant: each run begins with an empty recorder.
PlanAfresh(r) ==
  /\ job[r].stage = "plan"
  /\ Set(r, [Enter(job[r], "schedule") EXCEPT !.todo = Plans[r]])
  /\ spans' = <<>>
  /\ UNCHANGED <<wired, observations, library>>

Plan(r) ==
  /\ job[r].stage = "plan"
  /\ Set(r, [Enter(job[r], "schedule") EXCEPT !.todo = Plans[r]])
  /\ UNCHANGED <<wired, spans, observations, library>>

Span(r, n, verdict) == [run |-> r, node |-> n, verdict |-> verdict]

NodeDone(r, n) ==
  /\ \E found \in Returns :
       Set(r, [job[r] EXCEPT !.todo = @ \ {n}, !.done = @ \cup {n},
                             !.evidence = @ \cup found])
  /\ spans' = Append(spans, Span(r, n, "ok"))

NodeFails(r, n) ==
  /\ Set(r, [job[r] EXCEPT !.todo = @ \ {n}, !.failed = @ \cup {n}])
  /\ spans' = Append(spans, Span(r, n, "error"))

\* The engine records no span for a parked node.
NodeParked(r, n) ==
  /\ Set(r, [job[r] EXCEPT !.todo = @ \ {n}, !.parked = @ \cup {n}])
  /\ UNCHANGED spans

Schedule(r) ==
  /\ job[r].stage = "schedule"
  /\ \E n \in job[r].todo : NodeDone(r, n) \/ NodeFails(r, n) \/ NodeParked(r, n)
  /\ UNCHANGED <<wired, observations, library>>

\* What depends on a failed or parked node stays pending.
Scheduled(r) ==
  /\ job[r].stage = "schedule"
  /\ job[r].todo = {} \/ job[r].failed \cup job[r].parked # {}
  /\ Set(r, Enter(job[r], "extract"))
  /\ UNCHANGED <<wired, spans, observations, library>>

-----------------------------------------------------------------------------
(* The writer keeps the extracted claims that cite retrieved evidence.  It *)
(* sorts them into sections, whose order is left out.                      *)
Claim(draft) ==
  [cites |-> draft.cites, alike |-> draft.alike, verified |-> FALSE,
   note |-> "", warned |-> FALSE, script |-> "none"]

CitesRetrieved(draft, evidence) == Range(draft.cites) \cap evidence # {}

Extract(r) ==
  /\ job[r].stage = "extract"
  /\ \E drafts \in Drafts[r] : Set(r, [Enter(job[r], "write") EXCEPT !.drafts = drafts])
  /\ UNCHANGED <<wired, spans, observations, library>>

AtDraft(r) == job[r].stage = "write" /\ job[r].at <= Len(job[r].drafts)
Draft(r) == job[r].drafts[job[r].at]

Place(r) ==
  /\ AtDraft(r)
  /\ CitesRetrieved(Draft(r), job[r].evidence)
  /\ Set(r, [job[r] EXCEPT !.claims = Append(@, Claim(Draft(r))), !.at = @ + 1])
  /\ UNCHANGED <<wired, spans, observations, library>>

LeaveOut(r) ==
  /\ AtDraft(r)
  /\ ~CitesRetrieved(Draft(r), job[r].evidence)
  /\ Set(r, [job[r] EXCEPT !.at = @ + 1])
  /\ UNCHANGED <<wired, spans, observations, library>>

Written(r) ==
  /\ job[r].stage = "write" /\ ~AtDraft(r)
  /\ Set(r, Enter(job[r], "verify"))
  /\ UNCHANGED <<wired, spans, observations, library>>

-----------------------------------------------------------------------------
(* The verifier's tiers, claim by claim.  The writer leaves no claim       *)
(* without evidence, so the first case of the lexical tier cannot occur.   *)

AtClaim(r, stage) == job[r].stage = stage /\ job[r].at <= Len(job[r].claims)
AtEnd(r, stage) == job[r].stage = stage /\ job[r].at > Len(job[r].claims)
Current(r) == job[r].claims[job[r].at]

LexicalNote(claim, evidence) ==
  CASE claim.cites = <<>> -> "no evidence bound"
    [] ~(Range(claim.cites) \subseteq evidence) -> "not found"
    [] ~claim.alike -> "lexical overlap"
    [] OTHER -> ""

PassesLexical(r) == LexicalNote(Current(r), job[r].evidence) = ""

\* The claim becomes c, and the loop goes on to the next.
Settle(r, c) ==
  /\ Set(r, [job[r] EXCEPT !.claims[job[r].at] = c, !.at = @ + 1,
                           !.tally = @ + (IF c.verified THEN 1 ELSE 0)])
  /\ UNCHANGED <<wired, spans, observations, library>>

\* Faulty variant: the loop does not go on.
RejectForever(r) ==
  /\ AtClaim(r, "verify")
  /\ ~PassesLexical(r)
  /\ Set(r, [job[r] EXCEPT !.claims[job[r].at].note = "not found"])
  /\ UNCHANGED <<wired, spans, observations, library>>

RejectLexically(r) ==
  /\ AtClaim(r, "verify")
  /\ ~PassesLexical(r)
  /\ Settle(r, [Current(r) EXCEPT
                  !.note = LexicalNote(Current(r), job[r].evidence)])

\* The mutation probe warns and does not veto.
Warnings == IF "probe" \in wired THEN BOOLEAN ELSE {FALSE}

RejectByJudge(r) ==
  /\ AtClaim(r, "verify")
  /\ PassesLexical(r)
  /\ "judge" \in wired
  /\ \E warned \in Warnings :
       Settle(r, [Current(r) EXCEPT !.warned = warned, !.note = "llm judge"])

RejectByScript(r) ==
  /\ AtClaim(r, "verify")
  /\ PassesLexical(r)
  /\ "scripts" \in wired
  /\ \E warned \in Warnings :
       Settle(r, [Current(r) EXCEPT !.warned = warned, !.script = "failed",
                                    !.note = "executable verifier"])

\* There need not be a script for the claim.
Accept(r) ==
  /\ AtClaim(r, "verify")
  /\ PassesLexical(r)
  /\ \E warned \in Warnings,
        ran \in {"none"} \cup (IF "scripts" \in wired THEN {"passed"} ELSE {}) :
       Settle(r, [Current(r) EXCEPT !.warned = warned, !.script = ran,
                                    !.verified = TRUE])

Verified(r) ==
  /\ AtEnd(r, "verify")
  /\ Set(r, [Enter(job[r], "critique") EXCEPT
               !.total = Len(job[r].claims), !.verified = job[r].tally])
  /\ UNCHANGED <<wired, spans, observations, library>>

-----------------------------------------------------------------------------
(* The critic looks again at the verified claims.                          *)

Keep(r) ==
  /\ "critic" \in wired
  /\ AtClaim(r, "critique")
  /\ Set(r, [job[r] EXCEPT !.at = @ + 1])
  /\ UNCHANGED <<wired, spans, observations, library>>

\* Faulty variant: the verifier's note is kept even when it is empty.
SilentlyDowngraded(claim) == [claim EXCEPT !.verified = FALSE]

Downgraded(claim) ==
  [claim EXCEPT !.verified = FALSE,
                !.note = IF @ = "" THEN "critic" ELSE @]

Downgrade(r) ==
  /\ "critic" \in wired
  /\ AtClaim(r, "critique")
  /\ Current(r).verified
  /\ Set(r, [job[r] EXCEPT !.claims[job[r].at] = Downgraded(@),
                           !.at = @ + 1, !.downgraded = @ \cup {job[r].at}])
  /\ UNCHANGED <<wired, spans, observations, library>>

VerifiedClaims(j) == {i \in DOMAIN j.claims : j.claims[i].verified}

Recounted(j) ==
  IF j.downgraded = {} THEN j
  ELSE [j EXCEPT !.total = Len(j.claims), !.verified = Cardinality(VerifiedClaims(j))]

Criticized(r) ==
  /\ job[r].stage = "critique"
  /\ "critic" \in wired => AtEnd(r, "critique")
  /\ Set(r, Enter(Recounted(job[r]), "promote"))
  /\ UNCHANGED <<wired, spans, observations, library>>

-----------------------------------------------------------------------------
(* Promotion: papers and claims are committed one claim at a time.         *)

\* Faulty variant: the gate asks for the anchor only.
HasAnchor(claim) == Range(claim.cites) \cap Anchored # {}

CanPromote(claim) == claim.verified /\ Range(claim.cites) \cap Anchored # {}

PassOverUnverified(r) ==
  /\ "kb" \in wired
  /\ AtClaim(r, "promote")
  /\ ~Current(r).verified
  /\ Set(r, [job[r] EXCEPT !.at = @ + 1, !.unverified = @ + 1])
  /\ UNCHANGED <<wired, spans, observations, library>>

PassOverUnanchored(r) ==
  /\ "kb" \in wired
  /\ AtClaim(r, "promote")
  /\ Current(r).verified /\ ~CanPromote(Current(r))
  /\ Set(r, [job[r] EXCEPT !.at = @ + 1, !.unanchored = @ + 1])
  /\ UNCHANGED <<wired, spans, observations, library>>

File(r) ==
  /\ "kb" \in wired
  /\ AtClaim(r, "promote")
  /\ CanPromote(Current(r))
  /\ library' = library \cup {[run |-> r, claim |-> job[r].at]}
  /\ Set(r, [job[r] EXCEPT !.at = @ + 1, !.added = @ + 1])
  /\ UNCHANGED <<wired, spans, observations>>

Promoted(r) ==
  /\ job[r].stage = "promote"
  /\ "kb" \in wired => AtEnd(r, "promote")
  /\ Set(r, Enter(job[r], "remember"))
  /\ UNCHANGED <<wired, spans, observations, library>>

-----------------------------------------------------------------------------
(* Memory: the loop runs over the shared list itself, so it meets the      *)
(* spans of earlier runs and those that other threads append meanwhile.    *)
Remember(r) ==
  /\ "memory" \in wired
  /\ job[r].stage = "remember"
  /\ job[r].at <= Len(spans)
  /\ observations' = observations \cup {[by |-> r, span |-> spans[job[r].at]]}
  /\ Set(r, [job[r] EXCEPT !.at = @ + 1])
  /\ UNCHANGED <<wired, spans, library>>

Remembered(r) ==
  /\ job[r].stage = "remember"
  /\ "memory" \in wired => job[r].at > Len(spans)
  /\ Set(r, Enter(job[r], "attribute"))
  /\ UNCHANGED <<wired, spans, observations, library>>

-----------------------------------------------------------------------------
(* HAFCClassifier.classify: a tuple for each node that failed or parked,   *)
(* for each claim the critic downgraded and for each unverified claim.     *)
(* The rules for missing skills and a missing plan cannot fire after run:  *)
(* a failure has left a tuple before, and every plan has an id.            *)
Blame(about, item, primitive) ==
  [about |-> about, item |-> item, primitive |-> primitive]

\* The note is searched for the words of each tier, the lexical ones first;
\* a note that quotes evidence or an error may contain them (quotes).
PrimitiveOf(claim, quotes) ==
  CASE claim.note \in {"no evidence bound", "not found", "lexical overlap"} ->
         "synthesis"
    [] claim.note = "llm judge" -> IF quotes THEN "synthesis" ELSE "llm-judge"
    [] claim.note = "executable verifier" ->
         IF quotes THEN "synthesis" ELSE "executable-verifier"
    [] OTHER -> IF claim.warned THEN "mutation-probe" ELSE "synthesis"

Classified(j, quoting) ==
  {Blame("node", n, "source-router") : n \in j.failed}
  \cup {Blame("node", n, "permission-gate") : n \in j.parked}
  \cup {Blame("claim", i, "critic") : i \in j.downgraded}
  \cup {Blame("claim", i, PrimitiveOf(j.claims[i], i \in quoting)) :
          i \in DOMAIN j.claims \ VerifiedClaims(j)}

\* The faithfulness ratio is below 0.9; it is 1 when there are no claims.
BelowFloor(j) == 10 * j.verified < 9 * j.total

\* Faulty variant: parked nodes and downgrades alone are no reason.
UnfaithfulOrFailed(j) == BelowFloor(j) \/ j.failed # {}

Troubled(j) ==
  BelowFloor(j) \/ j.failed # {} \/ j.parked # {} \/ j.downgraded # {}

Attribute(r) ==
  /\ job[r].stage = "attribute"
  /\ \E quoting \in SUBSET DOMAIN job[r].claims :
       Set(r, [Enter(job[r], "returned") EXCEPT
                 !.attribution = IF Troubled(job[r])
                                 THEN Classified(job[r], quoting) ELSE {}])
  /\ UNCHANGED <<wired, spans, observations, library>>

-----------------------------------------------------------------------------
(* Exceptions leave run(): from the planner's model, the permission        *)
(* bridge, a tier that asks a model or runs a script, and the database.    *)
MayRaise(r) ==
  \/ job[r].stage \in {"plan", "schedule"}
  \/ AtClaim(r, "verify") /\ PassesLexical(r) /\ wired \cap {"probe", "judge", "scripts"} # {}
  \/ AtClaim(r, "critique") /\ Current(r).verified /\ "critic" \in wired
  \/ AtClaim(r, "promote") /\ CanPromote(Current(r)) /\ "kb" \in wired
  \/ job[r].stage = "remember" /\ job[r].at <= Len(spans) /\ "memory" \in wired

Raise(r) ==
  /\ MayRaise(r)
  /\ Set(r, [job[r] EXCEPT !.stage = "raised"])
  /\ UNCHANGED <<wired, spans, observations, library>>

Step(r) ==
  \/ Plan(r) \/ Schedule(r) \/ Scheduled(r)
  \/ Extract(r) \/ Place(r) \/ LeaveOut(r) \/ Written(r)
  \/ RejectLexically(r) \/ RejectByJudge(r) \/ RejectByScript(r)
  \/ Accept(r) \/ Verified(r)
  \/ Keep(r) \/ Downgrade(r) \/ Criticized(r)
  \/ PassOverUnverified(r) \/ PassOverUnanchored(r) \/ File(r) \/ Promoted(r)
  \/ Remember(r) \/ Remembered(r) \/ Attribute(r) \/ Raise(r)

Next == \E r \in Request : Step(r)

\* A thread that is inside run() goes on; requests need not come.
Fairness == \A r \in Request : WF_vars(job[r].stage # "plan" /\ Step(r))

SafeSpec == Init /\ [][Next]_vars
Spec == SafeSpec /\ Fairness

-----------------------------------------------------------------------------
(* Properties.                                                             *)
Ended(j) == j.stage \in {"returned", "raised"}

AfterVerify(j) ==
  j.stage \in {"critique", "promote", "remember", "attribute", "returned"}
AfterCritique(j) == AfterVerify(j) /\ j.stage # "critique"
AfterPromotion(j) == AfterCritique(j) /\ j.stage # "promote"
Rows(r) == {row \in library : row.run = r}

\* A claim is verified exactly if it bears no note, whichever of the four tiers or
\* the critic has decided it: a reader of the report is never left with a rejection
\* without a reason, nor a reason without a rejection.  And the note is that of the
\* first to reject: "Later tiers only if earlier ones don't already reject"
\* (claim_verifier.py:3), so no later one has seen the claim.
RejectionsExplained ==
  /\ \A r \in Request : AfterVerify(job[r]) =>
       \A i \in DOMAIN job[r].claims :
         job[r].claims[i].verified <=> job[r].claims[i].note = ""
  /\ \A r \in Request : \A i \in DOMAIN job[r].claims :
       LET c == job[r].claims[i]
           lexical == {"no evidence bound", "not found", "lexical overlap"}
       IN /\ c.warned => c.note \notin lexical
          /\ c.script # "none" => c.note \notin lexical \cup {"llm judge"}

\* What the knowledge base has from a run, also from one that raised half
\* way, stands verified in its report; and once promotion is over every claim
\* is accounted for: filed, unverified or without an anchor (promote.py).
PromotionMatchesReport ==
  \A r \in Request :
    /\ \A row \in Rows(r) : row.claim \in VerifiedClaims(job[r])
    /\ AfterPromotion(job[r]) /\ "kb" \in wired =>
         /\ job[r].added = Cardinality(Rows(r))
         /\ job[r].unverified = job[r].total - job[r].verified
         /\ job[r].added + job[r].unanchored = job[r].verified

\* A run that returns has stored every span of its own in memory, whatever
\* other threads do to the shared recorder meanwhile (pipeline.py:92-95).
SpansRemembered ==
  \A r \in Request : job[r].stage = "returned" /\ "memory" \in wired =>
    \A n \in job[r].done \cup job[r].failed :
      \E o \in observations : o.by = r /\ o.span.run = r /\ o.span.node = n

\* A result blames something for every failed node, parked node and
\* downgraded claim, and for every unverified claim of a report below the
\* release floor (pipeline.py:107-114, classifier.py:40-151).
FailuresAttributed ==
  \A r \in Request : job[r].stage = "returned" =>
    LET j == job[r]
        blamed(about) == {b.item : b \in {a \in j.attribution : a.about = about}}
    IN /\ j.failed \cup j.parked \subseteq blamed("node")
       /\ j.downgraded \subseteq blamed("claim")
       /\ BelowFloor(j) => DOMAIN j.claims \ VerifiedClaims(j) \subseteq blamed("claim")

\* A run that has begun returns or raises, although its last loop is over a
\* list that other runs still append to.
RequestsEnd ==
  \A r \in Request : job[r].stage = "schedule" ~> Ended(job[r])
=============================================================================
