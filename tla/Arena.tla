------------------------------- MODULE Arena -------------------------------
(***************************************************************************)
(* Rounds of the arena (open_fang/skills/arena.py, extractor.py): each     *)
(* brief is planned and run, with the skills of the registry that it       *)
(* activates; from the runs that went well the extractor makes learned     *)
(* skills, and writes for each a SKILL.md and then a .provenance.json.     *)
(* The registry is loaded once, when the process starts, so that what a    *)
(* round learned counts from the next start on.                            *)
(*                                                                         *)
(* Opening a file for writing empties it; the process may die at any step, *)
(* and keeps nothing but the files.  A run is its faithfulness, in         *)
(* thousandths, and the names of the skills it activated; which these are  *)
(* (registry.py scores shared words) is open, up to MaxActivated.          *)
(***************************************************************************)
EXTENDS Planner, Skills

CONSTANTS
  Replies,          \* Replies[b]: what the model may answer for the b-th brief
  Faithfulness,     \* the ratios that reports may have
  MinFaithfulness,  \* min_faithfulness, of the arena and of its extractor
  MinTrajectories,  \* min_trajectories
  MaxActivated,     \* max_results of activate
  MaxRounds         \* bound: how many rounds are begun

ASSUME ArenaAssumption ==
  /\ Replies \in Seq(Range(Replies))
  /\ \A b \in DOMAIN Replies : \A reply \in Replies[b] : IsReply(reply)
  /\ Faithfulness \subseteq 0..1000 /\ MinFaithfulness \in 0..1000
  /\ MinTrajectories \in Nat \ {0}
  /\ MaxActivated \in Nat /\ MaxRounds \in Nat

VARIABLES
  learned,   \* by folder name, SKILL.md on the learned shelf
  provenance,  \* by folder name, .provenance.json
  registry,  \* the skills of the running process
  round,     \* the round it is in
  rounds,    \* how many were begun
  torn       \* history: the folders that a crash left half written

vars == <<plan, learned, provenance, registry, round, rounds, torn>>

Briefs == Len(Replies)
Off == [phase |-> "off"]
Ready == [phase |-> "ready"]

Init ==
  /\ PlannerInit
  /\ learned = <<>> /\ provenance = <<>>
  /\ registry = <<>>
  /\ round = Off
  /\ rounds = 0
  /\ torn = {}

Names == {registry[i].name : i \in DOMAIN registry}

-----------------------------------------------------------------------------
(* The process and its rounds.                                             *)

Files == SearchPaths(learned)

\* SkillRegistry.from_loader.
Start ==
  /\ round = Off
  /\ registry' = Load(Files).skills
  /\ round' = Ready
  /\ UNCHANGED <<plan, learned, provenance, rounds, torn>>

BeginRound ==
  /\ round = Ready
  /\ rounds < MaxRounds
  /\ rounds' = rounds + 1
  /\ round' = [phase |-> "running", results |-> <<>>, extracted |-> <<>>, file |-> "none"]
  /\ UNCHANGED <<plan, learned, provenance, registry, torn>>

Running == round.phase = "running"
Brief == Len(round.results) + 1

Plan ==
  /\ Running
  /\ Brief <= Briefs
  /\ \/ BlankQuestion
     \/ \E reply \in Replies[Brief] : AskPlan(reply)
     \/ PlannerStep
  /\ UNCHANGED <<learned, provenance, registry, round, rounds, torn>>

\* What raises under pipeline.run ends the round, and its results are lost.
RoundRaises ==
  /\ Running
  /\ plan.phase \in {"raised", "planned"}
  /\ plan' = NoPlan
  /\ round' = Ready
  /\ UNCHANGED <<learned, provenance, registry, rounds, torn>>

RunEnds(ratio, used) ==
  /\ Running
  /\ plan.phase = "planned"
  /\ Cardinality(used) <= MaxActivated
  /\ plan' = NoPlan
  /\ round' = [round EXCEPT !.results = Append(@, [ratio |-> ratio, used |-> used])]
  /\ UNCHANGED <<learned, provenance, registry, rounds, torn>>

-----------------------------------------------------------------------------
(* TrajectoryExtractor.extract.                                            *)

Success(result) == result.ratio >= MinFaithfulness

Samples(used) ==
  Cardinality({i \in DOMAIN round.results :
                 Success(round.results[i]) /\ round.results[i].used = used})

\* The skills that runs of the cluster activated; the order is that of the first run.
Clusters ==
  FoldLeft(LAMBDA seen, r :
             IF /\ Success(r) /\ r.used # {} /\ ~Contains(seen, r.used)
                /\ Samples(r.used) >= MinTrajectories
             THEN Append(seen, r.used) ELSE seen,
           <<>>, round.results)

Joined(names) ==
  FoldLeft(LAMBDA joined, name : joined \o <<"+">> \o name, Head(names), Tail(names))

ClusterName(used) == <<"learned-">> \o Joined(Sorted(used))

Ratios(used) ==
  FoldLeft(LAMBDA sum, r : IF Success(r) /\ r.used = used THEN sum + r.ratio ELSE sum,
           0, round.results)

\* The mean ratio times n / (n + 1), rounded to thousandths.
Confidence(used) ==
  LET n == Samples(used) IN (2 * Ratios(used) + n + 1) \div (2 * (n + 1))

\* What is told of a cluster: its sources and how many runs it had.
About(used) == <<Sorted(used), Samples(used)>>

Rendered(used) ==
  << Line(Fence, Blank), Line("name", ClusterName(used)), Line("description", About(used)),
     Line("origin", <<"learned">>), Line("confidence", <<Confidence(used)>>),
     Line(Fence, Blank) >>

Extracted(used) ==
  [name |-> ClusterName(used), md |-> Rendered(used),
   provenance |-> About(used) \o <<Confidence(used)>>]

\* The extractor comes after the diagnostician, which may raise over a reply.
Extract ==
  /\ Running
  /\ Brief > Briefs
  /\ round' = [round EXCEPT !.phase = "writing", !.file = "closed",
                            !.extracted = [i \in DOMAIN Clusters |-> Extracted(Clusters[i])]]
  /\ UNCHANGED <<plan, learned, provenance, registry, rounds, torn>>

DiagnosisRaises ==
  /\ Running
  /\ Brief > Briefs
  /\ \E i \in DOMAIN round.results : ~Success(round.results[i])
  /\ round' = Ready
  /\ UNCHANGED <<plan, learned, provenance, registry, rounds, torn>>

-----------------------------------------------------------------------------
(* write_to.                                                               *)

Writing == round.phase = "writing" /\ round.extracted # <<>>
Item == Head(round.extracted)
Truncated == <<>>

OpenSkill ==
  /\ Writing /\ round.file = "closed"
  /\ learned' = Put(learned, Item.name, Truncated)
  /\ round' = [round EXCEPT !.file = "skill"]
  /\ UNCHANGED <<plan, provenance, registry, rounds, torn>>

WriteSkill ==
  /\ Writing /\ round.file = "skill"
  /\ learned' = [learned EXCEPT ![Item.name] = Item.md]
  /\ round' = [round EXCEPT !.file = "skill written"]
  /\ UNCHANGED <<plan, provenance, registry, rounds, torn>>

\* Faulty variant: the provenance that a folder has already is kept.
OpenProvenanceOnce ==
  /\ Writing /\ round.file = "skill written"
  /\ IF Item.name \in DOMAIN provenance
     THEN /\ round' = [round EXCEPT !.file = "closed", !.extracted = Tail(@)]
          /\ UNCHANGED provenance
     ELSE /\ provenance' = Put(provenance, Item.name, Truncated)
          /\ round' = [round EXCEPT !.file = "provenance"]
  /\ UNCHANGED <<plan, learned, registry, rounds, torn>>

OpenProvenance ==
  /\ Writing /\ round.file = "skill written"
  /\ provenance' = Put(provenance, Item.name, Truncated)
  /\ round' = [round EXCEPT !.file = "provenance"]
  /\ UNCHANGED <<plan, learned, registry, rounds, torn>>

WriteProvenance ==
  /\ Writing /\ round.file = "provenance"
  /\ provenance' = [provenance EXCEPT ![Item.name] = Item.provenance]
  /\ torn' = torn \ {Item.name}
  /\ round' = [round EXCEPT !.file = "closed", !.extracted = Tail(@)]
  /\ UNCHANGED <<plan, learned, registry, rounds>>

\* A disk that is full, say: what was written stays.
WriteRaises ==
  /\ Writing
  /\ torn' = IF round.file = "closed" THEN torn ELSE torn \cup {Item.name}
  /\ round' = Ready
  /\ UNCHANGED <<plan, learned, provenance, registry, rounds>>

RoundEnds ==
  /\ round.phase = "writing" /\ round.extracted = <<>>
  /\ round' = Ready
  /\ UNCHANGED <<plan, learned, provenance, registry, rounds, torn>>

\* The process ends, in the middle of what it does or not.
Exit ==
  /\ round # Off
  /\ torn' = IF Writing /\ round.file # "closed" THEN torn \cup {Item.name} ELSE torn
  /\ round' = Off
  /\ plan' = NoPlan
  /\ registry' = <<>>
  /\ UNCHANGED <<learned, provenance, rounds>>

-----------------------------------------------------------------------------
Step ==
  \/ Plan
  \/ \E ratio \in Faithfulness, used \in SUBSET Names : RunEnds(ratio, used)
  \/ Extract
  \/ OpenSkill \/ WriteSkill \/ OpenProvenance \/ WriteProvenance
  \/ RoundEnds

Next ==
  \/ Start
  \/ BeginRound
  \/ Step
  \/ RoundRaises \/ DiagnosisRaises \/ WriteRaises
  \/ Exit

Spec == Init /\ [][Next]_vars

-----------------------------------------------------------------------------
(* Properties.                                                             *)

\* A process that starts has under each name the first usable skill on the
\* shelves, whatever state the files were left in; and what the arena learns never
\* takes the place of a curated one (SkillLoader.load, default_search_paths).
RegistryIsFirstUsable ==
  /\ round = Off => FirstUsable(Files, Load(Files).skills)
  /\ round = Ready =>
       LET own == {Parsed(Curated[i]) : i \in {j \in DOMAIN Curated : Usable(Curated[j])}}
       IN \A skill \in own : \E k \in DOMAIN registry :
            registry[k].name = skill.name /\ registry[k] \in own

\* The provenance of a skill that can be loaded is that of its text, unless a
\* crash or an error came between the two files and nobody wrote them since
\* (TrajectoryExtractor.write_to).
ProvenanceMatches ==
  ~Running => \A name \in DOMAIN learned \ torn :
    (Writing => name # Item.name) =>
      /\ Parses(learned[name])
      /\ LET skill == Parsed(learned[name])
         IN /\ skill.name = name
            /\ name \in DOMAIN provenance
            /\ provenance[name] = skill.description \o skill.confidence
=============================================================================
