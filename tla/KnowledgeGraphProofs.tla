------------------------ MODULE KnowledgeGraphProofs ------------------------
(* Proofs about KnowledgeGraph.                                            *)
EXTENDS KnowledgeGraph, TLAPS, FiniteSetTheorems, SequenceTheorems, WellFoundedInduction

-----------------------------------------------------------------------------
(* The tables, and the request at work.                                    *)

StoreTyped ==
  /\ DOMAIN papers \subseteq Paper
  /\ \A p \in DOMAIN papers : papers[p] \in Text
  /\ edges \subseteq Edge
  /\ since \in [papers : SUBSET Paper, edges : SUBSET Edge]
  /\ "op" \in DOMAIN job

LEMMA Overlay ==
  ASSUME NEW f, NEW x, NEW y
  PROVE  /\ DOMAIN With(f, x, y) = DOMAIN f \cup {x}
         /\ With(f, x, y)[x] = y
         /\ \A z \in DOMAIN f : z # x => With(f, x, y)[z] = f[z]
<1> QED
  BY DEF With

(* What the other threads write is remembered, and takes no paper away.    *)
Written ==
  \/ \E p \in Paper, text \in Text : UpsertPaper(p, text)
  \/ \E e \in Edge : AddEdge(e) \/ DropEdge(e)

LEMMA WriteStep ==
  ASSUME StoreTyped, Written
  PROVE  /\ StoreTyped' /\ job' = job
         /\ DOMAIN papers \subseteq DOMAIN papers'
         /\ since.papers \subseteq since'.papers /\ since.edges \subseteq since'.edges
         /\ \A p \in DOMAIN papers' \ since'.papers : p \in DOMAIN papers /\ papers'[p] = papers[p]
         /\ edges \cup since.edges \subseteq edges' \cup since'.edges
         /\ since'.papers # {} \/ since'.edges # {}
<1>1. CASE \E p \in Paper, text \in Text : UpsertPaper(p, text)
  <2>1. PICK p \in Paper, text \in Text : UpsertPaper(p, text)
    BY <1>1
  <2>2. /\ DOMAIN papers' = DOMAIN papers \cup {p} /\ papers'[p] = text
        /\ \A z \in DOMAIN papers : z # p => papers'[z] = papers[z]
    <3>1. papers' = With(papers, p, text)
      BY <2>1 DEF UpsertPaper
    <3> QED
      BY <3>1 DEF With
  <2>3. /\ since'.papers = since.papers \cup {p} /\ since'.edges = since.edges
        /\ since' \in [papers : SUBSET Paper, edges : SUBSET Edge]
    BY <2>1 DEF UpsertPaper, StoreTyped
  <2>4. job' = job /\ edges' = edges
    BY <2>1 DEF UpsertPaper, Write
  <2> QED
    BY <2>2, <2>3, <2>4 DEF StoreTyped
<1>2. CASE \E e \in Edge : AddEdge(e) \/ DropEdge(e)
  <2>1. PICK e \in Edge : AddEdge(e) \/ DropEdge(e)
    BY <1>2
  <2>2. /\ since'.edges = since.edges \cup {e} /\ since'.papers = since.papers
        /\ since' \in [papers : SUBSET Paper, edges : SUBSET Edge]
    BY <2>1 DEF AddEdge, DropEdge, StoreTyped
  <2>3. /\ job' = job /\ papers' = papers
        /\ edges' \subseteq edges \cup {e} /\ edges \ {e} \subseteq edges'
    BY <2>1 DEF AddEdge, DropEdge, Write
  <2> QED
    BY <2>2, <2>3 DEF StoreTyped
<1> QED
  BY <1>1, <1>2 DEF Written

(* A request is begun, goes on, or is done; only embed_pending writes.     *)
LEMMA ReadStep ==
  ASSUME StoreTyped, Read
  PROVE  /\ StoreTyped'
         /\ UNCHANGED <<papers, edges>>
         /\ job = NoJob \/ since' = since
<1>1. ASSUME NEW j, Begin(j), "op" \in DOMAIN j
      PROVE  StoreTyped' /\ UNCHANGED <<papers, edges>> /\ job = NoJob
  BY <1>1 DEF Begin, StoreTyped
<1>2. ASSUME NEW j, Go(j), "op" \in DOMAIN j
      PROVE  StoreTyped' /\ UNCHANGED <<papers, edges>> /\ since' = since
  BY <1>2 DEF Go, StoreTyped
<1>3. CASE \E q \in Asked : AskPicture(q)
  BY <1>1, <1>3 DEF AskPicture
<1>4. CASE Pop
  BY <1>2, <1>4 DEF Pop, StoreTyped
<1>5. CASE \E e \in Edge : Draw(e)
  BY <1>2, <1>5 DEF Draw, StoreTyped
<1>6. CASE \E p \in Paper : AskWalk(p)
  BY <1>1, <1>6 DEF AskWalk
<1>7. CASE AskBriefs
  BY <1>1, <1>7 DEF AskBriefs
<1>8. CASE SetOut
  BY <1>2, <1>8 DEF SetOut, StoreTyped
<1>9. CASE Hop
  BY <1>2, <1>9 DEF Hop, StoreTyped
<1>10. CASE Stuck
  BY <1>2, <1>10 DEF Stuck, StoreTyped
<1>11. CASE Judge
  BY <1>2, <1>11 DEF Judge, Dropped, StoreTyped
<1>12. CASE FetchPaper
  BY <1>2, <1>12 DEF FetchPaper, StoreTyped
<1>13. CASE KeepBrief
  BY <1>2, <1>13 DEF KeepBrief, Dropped, StoreTyped
<1>14. CASE \E batch \in Batches : AskDelta(batch)
  BY <1>1, <1>14 DEF AskDelta
<1>15. CASE ApplyDelta
  BY <1>2, <1>15 DEF ApplyDelta, StoreTyped
<1>16. CASE \E i \in job.stubs : Resolve(i)
  BY <1>2, <1>16 DEF Resolve, StoreTyped
<1>17. CASE AskEmbeddings
  BY <1>1, <1>17 DEF AskEmbeddings
<1>18. CASE \E p \in Paper : EmbedAndStore(p)
  BY <1>18 DEF EmbedAndStore, StoreTyped
<1>19. CASE \E query \in Queries : AskSearch(query)
  BY <1>1, <1>19 DEF AskSearch
<1>20. CASE SearchDense
  BY <1>2, <1>20 DEF SearchDense, StoreTyped
<1>21. CASE Fuse
  BY <1>2, <1>21 DEF Fuse, StoreTyped
<1>22. CASE Done
  BY <1>2, <1>22 DEF Done, NoJob
<1> QED
  BY <1>3, <1>4, <1>5, <1>6, <1>7, <1>8, <1>9, <1>10, <1>11, <1>12, <1>13, <1>14, <1>15,
     <1>16, <1>17, <1>18, <1>19, <1>20, <1>21, <1>22 DEF Read

(* Which steps a request of a kind is made of.                             *)
Pictures ==
  \/ \E q \in Asked : AskPicture(q)
  \/ Pop
  \/ \E e \in Edge : Draw(e)
Walks ==
  \/ \E p \in Paper : AskWalk(p)
  \/ AskBriefs \/ SetOut \/ Hop \/ Stuck \/ Judge \/ FetchPaper \/ KeepBrief
Deltas ==
  \/ \E batch \in Batches : AskDelta(batch)
  \/ ApplyDelta
  \/ job.op = "delta" /\ \E i \in job.stubs : Resolve(i)
Embeds == AskEmbeddings \/ \E p \in Paper : EmbedAndStore(p)
Searches ==
  \/ \E query \in Queries : AskSearch(query)
  \/ SearchDense \/ Fuse

LEMMA OpStep ==
  ASSUME StoreTyped, Read
  PROVE  /\ job'.op = "picture" => Pictures
         /\ job'.op \in {"walk", "briefs"} => Walks
         /\ job'.op = "delta" => Deltas
         /\ job'.op = "embed" => Embeds
         /\ job'.op = "search" => Searches
<1>1. CASE Pictures
  <2>1. (\E q \in Asked : AskPicture(q)) => job'.op = "picture"
    BY DEF AskPicture, Begin
  <2>2. Pop => job'.op = "picture"
    BY DEF Pop, Go, StoreTyped
  <2>3. ASSUME NEW e \in Edge, Draw(e) PROVE job'.op = "picture"
    BY <2>3 DEF Draw, Go, StoreTyped
  <2> QED
    BY <1>1, <2>1, <2>2, <2>3 DEF Pictures
<1>2. CASE Walks
  <2>1. ASSUME NEW p \in Paper, AskWalk(p) PROVE job'.op = "walk"
    BY <2>1 DEF AskWalk, Begin
  <2>2. AskBriefs => job'.op = "briefs"
    BY DEF AskBriefs, Begin
  <2>3. SetOut \/ Judge \/ FetchPaper \/ KeepBrief => job'.op = "briefs"
    <3>1. SetOut => job'.op = "briefs"
      BY DEF SetOut, Go, StoreTyped
    <3>2. Judge => job'.op = "briefs"
      BY DEF Judge, Walked, Dropped, Go, StoreTyped
    <3>3. FetchPaper => job'.op = "briefs"
      BY DEF FetchPaper, Walked, Go, StoreTyped
    <3>4. KeepBrief => job'.op = "briefs"
      BY DEF KeepBrief, Walked, Dropped, Go, StoreTyped
    <3> QED
      BY <3>1, <3>2, <3>3, <3>4
  <2>4. Hop \/ Stuck => job'.op \in {"walk", "briefs"}
    BY DEF Hop, Stuck, Walking, Go, StoreTyped
  <2> QED
    BY <1>2, <2>1, <2>2, <2>3, <2>4 DEF Walks
<1>3. CASE Deltas
  <2>1. (\E batch \in Batches : AskDelta(batch)) => job'.op = "delta"
    BY DEF AskDelta, Begin
  <2>2. ApplyDelta => job'.op = "delta"
    BY DEF ApplyDelta, Go, StoreTyped
  <2>3. ASSUME NEW i \in job.stubs, Resolve(i) PROVE job'.op = "delta"
    BY <2>3 DEF Resolve, Go, StoreTyped
  <2> QED
    BY <1>3, <2>1, <2>2, <2>3 DEF Deltas
<1>4. CASE Embeds
  <2>1. AskEmbeddings => job'.op = "embed"
    BY DEF AskEmbeddings, Begin
  <2>2. ASSUME NEW p \in Paper, EmbedAndStore(p) PROVE job'.op = "embed"
    BY <2>2 DEF EmbedAndStore, StoreTyped
  <2> QED
    BY <1>4, <2>1, <2>2 DEF Embeds
<1>5. CASE Searches
  <2>1. (\E query \in Queries : AskSearch(query)) => job'.op = "search"
    BY DEF AskSearch, Begin
  <2>2. SearchDense => job'.op = "search"
    BY DEF SearchDense, Go, StoreTyped
  <2>3. Fuse => job'.op = "search"
    BY DEF Fuse, Go, StoreTyped
  <2> QED
    BY <1>5, <2>1, <2>2, <2>3 DEF Searches
<1>6. CASE Done
  BY <1>6 DEF Done, Go, NoJob, Nothing
<1> QED
  BY <1>1, <1>2, <1>3, <1>4, <1>5, <1>6 DEF Read, Pictures, Walks, Deltas, Embeds, Searches

-----------------------------------------------------------------------------
(* Stubs.  The papers whose hashes were read are still there, with the     *)
(* texts they had if they were not rewritten, and each stub stands for     *)
(* one of them.                                                            *)

Remembered(i) ==
  LET e == job.evidence[i]
  IN e.id \in DOMAIN job.known /\ job.known[e.id] = e.text

Stubbing ==
  job.op = "delta" =>
    /\ {"known", "evidence", "stubs", "resolved", "applied"} \subseteq DOMAIN job
    /\ DOMAIN job.known \subseteq DOMAIN papers
    /\ \A p \in DOMAIN job.known \ since.papers : papers[p] = job.known[p]
    /\ \A i \in job.stubs : Remembered(i)
    /\ DOMAIN job.resolved \subseteq job.stubs
    /\ ~job.applied => job.stubs = {}
    /\ StubsResolve

LEMMA StubbingStep ==
  ASSUME StoreTyped, Stubbing, [Next]_vars
  PROVE  Stubbing'
<1>1. CASE UNCHANGED vars
  BY <1>1 DEF vars, Stubbing, Remembered, StubsResolve
<1>2. CASE Written
  BY <1>2, WriteStep DEF Stubbing, Remembered, StubsResolve
<1>3. CASE Read
  <2> SUFFICES ASSUME job'.op = "delta" PROVE Stubbing'
    BY DEF Stubbing
  <2>1. ASSUME NEW batch \in Batches, AskDelta(batch) PROVE Stubbing'
    BY <2>1 DEF AskDelta, Begin, Stubbing, Remembered, StubsResolve
  <2>2. CASE ApplyDelta
    <3>1. /\ UNCHANGED <<papers, since>> /\ job.op = "delta" /\ DOMAIN job' = DOMAIN job
          /\ job'.known = job.known /\ job'.evidence = job.evidence
          /\ job'.resolved = job.resolved
          /\ job'.stubs = {i \in DOMAIN job.evidence : SameHash(job.evidence[i])}
          /\ job'.applied = TRUE /\ DOMAIN job.resolved = {}
      BY <2>2 DEF ApplyDelta, Go, Stubbing
    <3>2. \A i \in job'.stubs : Remembered(i)'
      BY <3>1 DEF Remembered, SameHash
    <3>3. StubsResolve'
      BY <3>1 DEF StubsResolve
    <3> QED
      BY <3>1, <3>2, <3>3 DEF Stubbing
  <2>3. ASSUME job.op = "delta", NEW i \in job.stubs, Resolve(i) PROVE Stubbing'
    <3> DEFINE e == job.evidence[i]
               found == IF e.id # NoId /\ e.id \in DOMAIN papers THEN papers[e.id] ELSE Nothing
    <3>1. /\ UNCHANGED <<papers, since>> /\ DOMAIN job' = DOMAIN job
          /\ job'.known = job.known /\ job'.evidence = job.evidence
          /\ job'.stubs = job.stubs /\ job'.applied = job.applied
          /\ job'.resolved = With(job.resolved, i, found)
      BY <2>3 DEF Resolve, Go, Stubbing
    <3> HIDE DEF found
    <3>2. /\ DOMAIN job'.resolved = DOMAIN job.resolved \cup {i}
          /\ job'.resolved[i] = found
          /\ \A k \in DOMAIN job.resolved : k # i => job'.resolved[k] = job.resolved[k]
      BY <3>1 DEF With
    <3>3. e.id # NoId => /\ found # Nothing
                         /\ e.id \notin since.papers => found = e.text
      <4>1. e.id \in DOMAIN papers /\ papers[e.id] \in Text /\ job.known[e.id] = e.text
        BY <2>3 DEF Stubbing, Remembered, StoreTyped
      <4> QED
        BY <2>3, <4>1, GraphAssumption DEF Stubbing, Remembered, found
    <3>4. StubsResolve'
      BY <2>3, <3>1, <3>2, <3>3 DEF Stubbing, StubsResolve
    <3>5. \A k \in job'.stubs : Remembered(k)'
      BY <2>3, <3>1 DEF Stubbing, Remembered
    <3> QED
      BY <2>3, <3>1, <3>2, <3>4, <3>5 DEF Stubbing
  <2> QED
    BY <1>3, <2>1, <2>2, <2>3, OpStep DEF Deltas
<1> QED
  BY <1>1, <1>2, <1>3 DEF Next, Written

-----------------------------------------------------------------------------
(* Walks.                                                                  *)

StepRec == [paper : Paper, via : Kind \cup {Nothing}]
Arrows == edges \cup since.edges

(* IsPath, over the edges there are or were.                               *)
PathIn(steps, arrows) ==
  /\ \A i, j \in DOMAIN steps : i # j => steps[i].paper # steps[j].paper
  /\ \A i \in 1..(Len(steps) - 1) :
       <<steps[i].paper, steps[i + 1].paper, steps[i + 1].via>> \in arrows
  /\ Len(steps) <= Hops + 1

LEMMA PathGrows ==
  ASSUME NEW steps, NEW old, NEW new, PathIn(steps, old), old \subseteq new
  PROVE  PathIn(steps, new)
<1> QED
  BY DEF PathIn

LEMMA StepTyped ==
  ASSUME NEW p \in Paper, NEW k \in Kind \cup {Nothing}
  PROVE  /\ Step(p, k) \in StepRec /\ Step(p, k).paper = p /\ Step(p, k).via = k
         /\ <<Step(p, k)>> \in Seq(StepRec)
<1> DEFINE s == Step(p, k)
<1>1. s \in StepRec /\ s.paper = p /\ s.via = k
  BY DEF StepRec, Step
<1> HIDE DEF s
<1>2. <<s>> \in Seq(StepRec)
  BY <1>1
<1> QED
  BY <1>1, <1>2 DEF s

(* A walk that has just set out.                                           *)
LEMMA PathBegins ==
  ASSUME NEW s \in StepRec, NEW arrows
  PROVE  PathIn(<<s>>, arrows) /\ Len(<<s>>) = 1 /\ <<s>> # <<>>
<1> QED
  BY GraphAssumption DEF PathIn

(* A hop to a paper that was not visited makes a longer path.              *)
LEMMA PathExtends ==
  ASSUME NEW steps \in Seq(StepRec), NEW s \in StepRec, NEW arrows, PathIn(steps, arrows),
         steps # <<>>, Len(steps) <= Hops,
         \A i \in DOMAIN steps : steps[i].paper # s.paper,
         <<Last(steps).paper, s.paper, s.via>> \in arrows
  PROVE  /\ PathIn(Append(steps, s), arrows)
         /\ Append(steps, s) \in Seq(StepRec) /\ Append(steps, s) # <<>>
         /\ Len(Append(steps, s)) = Len(steps) + 1
<1> DEFINE n == Len(steps)
           long == Append(steps, s)
<1>1. /\ n \in Nat /\ n > 0 /\ DOMAIN steps = 1..n /\ Hops \in Nat
      /\ Last(steps) = steps[n] /\ Len(steps) = n
  BY GraphAssumption DEF Last
<1>2. /\ long \in Seq(StepRec) /\ Len(long) = n + 1 /\ DOMAIN long = 1..(n + 1)
      /\ long[n + 1] = s /\ \A i \in 1..n : long[i] = steps[i]
  OBVIOUS
<1> HIDE DEF long, n
<1>3. \A i, j \in DOMAIN long : i # j => long[i].paper # long[j].paper
  BY <1>1, <1>2 DEF PathIn
<1>4. ASSUME NEW i \in 1..n
      PROVE  <<long[i].paper, long[i + 1].paper, long[i + 1].via>> \in arrows
  <2>1. CASE i = n
    BY <1>1, <1>2, <2>1
  <2>2. CASE i # n
    BY <1>1, <1>2, <2>2 DEF PathIn
  <2> QED
    BY <2>1, <2>2
<1>5. long # <<>>
  BY <1>1, <1>2
<1> QED
  BY <1>1, <1>2, <1>3, <1>4, <1>5 DEF PathIn, long, n

(* As far as the walk has come, or as far as it could.                     *)
Wandering ==
  job.op \in {"walk", "briefs"} =>
    /\ {"op", "steps", "left"} \subseteq DOMAIN job
    /\ job.steps \in Seq(StepRec) /\ job.left \in Nat
    /\ PathIn(job.steps, Arrows)
    /\ job.steps = <<>> => job.left = 0
    /\ job.steps # <<>> => \/ Len(job.steps) + job.left = Hops + 1
                           \/ job.left = 0 /\ (Calm => Outgoing = {})

(* A brief: its walk, over the edges that are or were, and those of its    *)
(* papers that were there, of the papers there are and those written since.*)
BriefIs(b, arrows, there, new) ==
  /\ PathIn(b.walk, arrows)
  /\ Cardinality(b.evidence) >= 2
  /\ b.evidence \subseteq ToSet(Papers(b.walk)) \cap there
  /\ ToSet(Papers(b.walk)) \cap there \subseteq b.evidence \cup new

(* What get_paper gave for a paper of the walk.                            *)
Answers(found, p, there, new) ==
  IF found = Nothing THEN p \in there => p \in new ELSE found = p /\ p \in there

Fetching ==
  /\ job.found \in Seq(Paper \cup {Nothing}) /\ Len(job.found) <= Len(job.steps)
  /\ Papers(job.steps) \in job.signatures
  /\ \A k \in DOMAIN job.out : Papers(job.out[k].walk) # Papers(job.steps)
  /\ \A i \in DOMAIN job.found :
       Answers(job.found[i], job.steps[i].paper, DOMAIN papers, since.papers)

Briefing ==
  job.op = "briefs" =>
    /\ {"ids", "attempts", "signatures", "found", "out"} \subseteq DOMAIN job
    /\ job.ids \subseteq Paper
    /\ job.steps = <<>> \/ job.left > 0 => job.found = Nothing
    /\ job.found # Nothing => Fetching
    /\ job.out \in Seq([walk : Seq(StepRec), evidence : SUBSET Paper])
    /\ \A k \in DOMAIN job.out :
         /\ BriefIs(job.out[k], Arrows, DOMAIN papers, since.papers)
         /\ Papers(job.out[k].walk) \in job.signatures
    /\ \A k, l \in DOMAIN job.out :
         k # l => Papers(job.out[k].walk) # Papers(job.out[l].walk)

LEMMA WanderingStep ==
  ASSUME StoreTyped, Wandering, Briefing, [Next]_vars
  PROVE  Wandering'
<1>1. CASE UNCHANGED vars
  BY <1>1 DEF vars, Wandering, Arrows, Calm, Outgoing, Visited
<1>2. CASE Written
  <2>1. Arrows \subseteq Arrows' /\ job' = job /\ ~Calm'
    BY <1>2, WriteStep DEF Arrows, Calm
  <2>2. job.op \in {"walk", "briefs"} => PathIn(job.steps, Arrows')
    BY <2>1, PathGrows DEF Wandering
  <2> QED
    BY <2>1, <2>2 DEF Wandering
<1>3. CASE Read
  <2> SUFFICES ASSUME job'.op \in {"walk", "briefs"} PROVE Wandering'
    BY DEF Wandering
  <2>0. UNCHANGED <<papers, edges>> /\ (job = NoJob \/ since' = since) /\ Hops \in Nat
    BY <1>3, ReadStep, GraphAssumption
  <2>1. ASSUME NEW p \in Paper,
               {"op", "steps", "left"} \subseteq DOMAIN job',
               job'.steps = <<Step(p, Nothing)>>, job'.left = Hops
        PROVE  Wandering'
    <3>1. job'.steps \in Seq(StepRec) /\ PathIn(job'.steps, Arrows')
          /\ Len(job'.steps) = 1 /\ job'.steps # <<>>
      BY <2>1, StepTyped, PathBegins
    <3> QED
      BY <2>0, <2>1, <3>1 DEF Wandering
  <2>2. ASSUME {"op", "steps", "left"} \subseteq DOMAIN job',
               job'.steps = <<>>, job'.left = 0
        PROVE  Wandering'
    BY <2>0, <2>2, GraphAssumption DEF Wandering, PathIn
  <2>3. ASSUME NEW p \in Paper, AskWalk(p) PROVE Wandering'
    BY <2>1, <2>3 DEF AskWalk, Begin
  <2>4. CASE AskBriefs
    BY <2>2, <2>4 DEF AskBriefs, Begin
  <2>5. CASE SetOut
    <3>1. PICK p \in job.ids : job' = [job EXCEPT !.steps = <<Step(p, Nothing)>>, !.left = Hops,
                                                  !.attempts = @ + 1]
      BY <2>5 DEF SetOut, Go
    <3> QED
      BY <2>1, <2>5, <3>1 DEF SetOut, Wandering, Briefing
  <2>6. CASE Hop
    <3>1. PICK o \in Outgoing :
            job' = [job EXCEPT !.steps = Append(@, Step(o[1], o[2])), !.left = @ - 1]
      BY <2>6 DEF Hop, Go
    <3> DEFINE cur == Last(job.steps).paper
               s == Step(o[1], o[2])
    <3>2. PICK e \in edges : e[1] = cur /\ e[2] \notin Visited /\ o = <<e[2], e[3]>>
      BY <3>1 DEF Outgoing
    <3>3. o[1] \in Paper /\ o[2] \in Kind /\ <<cur, o[1], o[2]>> \in Arrows
      BY <3>2 DEF StoreTyped, Edge, Arrows
    <3>4. s \in StepRec /\ s.paper = o[1] /\ s.via = o[2]
      BY <3>3, StepTyped
    <3>5. /\ job.op \in {"walk", "briefs"} /\ job.left > 0 /\ job.left \in Nat
          /\ job.steps # <<>> /\ Len(job.steps) + job.left = Hops + 1
          /\ job.steps \in Seq(StepRec) /\ PathIn(job.steps, Arrows) /\ since' = since
          /\ {"op", "steps", "left"} \subseteq DOMAIN job
      BY <2>0, <2>6 DEF Hop, Walking, Wandering, NoJob, Nothing
    <3> HIDE DEF s
    <3>6. /\ job'.steps = Append(job.steps, s) /\ job'.left = job.left - 1
          /\ DOMAIN job' = DOMAIN job
      BY <3>1, <3>5 DEF s
    <3>7. \A i \in DOMAIN job.steps : job.steps[i].paper # s.paper
      BY <3>2, <3>4 DEF Visited
    <3>8. /\ PathIn(job'.steps, Arrows) /\ job'.steps \in Seq(StepRec) /\ job'.steps # <<>>
          /\ Len(job'.steps) = Len(job.steps) + 1
      <4>1. Len(job.steps) <= Hops
        BY <2>0, <3>5
      <4>2. <<Last(job.steps).paper, s.paper, s.via>> \in Arrows
        BY <3>3, <3>4
      <4> HIDE DEF cur
      <4>3. /\ PathIn(Append(job.steps, s), Arrows)
            /\ Append(job.steps, s) \in Seq(StepRec) /\ Append(job.steps, s) # <<>>
            /\ Len(Append(job.steps, s)) = Len(job.steps) + 1
        BY <3>4, <3>5, <3>7, <4>1, <4>2, PathExtends
      <4> QED
        BY <3>6, <4>3
    <3>9. Arrows' = Arrows
      BY <2>0, <3>5 DEF Arrows
    <3> QED
      BY <2>0, <3>5, <3>6, <3>8, <3>9 DEF Wandering
  <2>7. CASE Stuck
    <3>1. /\ DOMAIN job' = DOMAIN job /\ job'.steps = job.steps /\ job'.left = 0
          /\ job.op \in {"walk", "briefs"} /\ Outgoing = {} /\ job # NoJob
      BY <2>7 DEF Stuck, Walking, Go, Wandering, NoJob, Nothing
    <3>2. Arrows' = Arrows /\ Outgoing' = {}
      BY <2>0, <3>1 DEF Arrows, Outgoing, Visited
    <3> QED
      BY <3>1, <3>2 DEF Wandering
  <2>8. ASSUME job.op = "briefs", job.left = 0, Go(Dropped)
        PROVE  Wandering'
    BY <2>2, <2>8 DEF Go, Dropped, Wandering
  <2>9. ASSUME job.op = "briefs", DOMAIN job' = DOMAIN job, job'.steps = job.steps,
               job'.left = job.left
        PROVE  Wandering'
    <3>1. since' = since
      BY <2>0, <2>9 DEF NoJob, Nothing
    <3>2. Arrows' = Arrows /\ Outgoing' = Outgoing /\ Calm' = Calm
      BY <2>0, <2>9, <3>1 DEF Arrows, Outgoing, Visited, Calm
    <3> QED
      BY <2>9, <3>2 DEF Wandering
  <2>10. CASE Judge
    BY <2>8, <2>9, <2>10 DEF Judge, Walked, Go
  <2>11. CASE FetchPaper
    BY <2>9, <2>11 DEF FetchPaper, Walked, Go
  <2>12. CASE KeepBrief
    <3>1. CASE Go(Dropped)
      BY <2>8, <2>12, <3>1 DEF KeepBrief, Walked
    <3>2. ASSUME NEW b, Go([Dropped EXCEPT !.out = Append(@, b)])
          PROVE  Wandering'
      BY <2>2, <2>12, <3>2 DEF KeepBrief, Walked, Go, Dropped, Wandering
    <3> QED
      BY <2>12, <3>1, <3>2 DEF KeepBrief
  <2> QED
    BY <1>3, <2>3, <2>4, <2>5, <2>6, <2>7, <2>10, <2>11, <2>12, OpStep DEF Walks
<1> QED
  BY <1>1, <1>2, <1>3 DEF Next, Written

LEMMA TwoMembers ==
  ASSUME NEW S, IsFiniteSet(S), NEW x \in S, NEW y \in S, x # y
  PROVE  Cardinality(S) >= 2
<1>1. IsFiniteSet({x}) /\ Cardinality({x}) = 1
  BY FS_Singleton
<1>2. Cardinality({x} \cup {y}) = 2
  BY <1>1, FS_AddElement
<1>3. {x} \cup {y} \in SUBSET S
  OBVIOUS
<1>4. Cardinality({x} \cup {y}) <= Cardinality(S) /\ Cardinality(S) \in Nat
  BY <1>3, FS_Subset, FS_CardinalityType
<1> QED
  BY <1>2, <1>4

LEMMA MoreThanOne ==
  ASSUME NEW S, IsFiniteSet(S), ~(Cardinality(S) < 2)
  PROVE  \E x, y \in S : x # y
<1>1. Cardinality(S) \in Nat /\ Cardinality(S) # 0 /\ Cardinality(S) # 1
  BY FS_CardinalityType
<1>2. S # {}
  BY <1>1, FS_EmptySet
<1>3. PICK x \in S : TRUE
  BY <1>2
<1>4. S # {x}
  BY <1>1, FS_Singleton
<1> QED
  BY <1>3, <1>4

(* A function that never takes a value twice has as many as arguments.     *)
LEMMA AsManyValues ==
  ASSUME NEW n \in Nat, NEW f, f = [i \in 1..n |-> f[i]],
         \A i, j \in 1..n : i # j => f[i] # f[j]
  PROVE  Cardinality({f[i] : i \in 1..n}) = n
<1> DEFINE T == {f[i] : i \in 1..n}
<1>1. f \in [1..n -> T]
  OBVIOUS
<1> HIDE DEF T
<1>2. f \in Bijection(1..n, T)
  BY <1>1 DEF T, Bijection, Injection, Surjection, IsInjective
<1>3. IsFiniteSet(1..n) /\ Cardinality(1..n) = n
  BY FS_Interval
<1>4. Cardinality(T) = Cardinality(1..n)
  BY <1>2, <1>3, FS_Bijection DEF ExistsBijection
<1> QED
  BY <1>3, <1>4 DEF T

(* The papers of a walk, once they have all been asked for.                *)
LEMMA EvidenceOfWalk ==
  ASSUME NEW found \in Seq(Paper \cup {Nothing}), NEW steps \in Seq(StepRec), NEW arrows,
         NEW there, NEW new, PathIn(steps, arrows), Len(found) = Len(steps),
         \A i \in DOMAIN found : Answers(found[i], steps[i].paper, there, new),
         ~(Cardinality({i \in DOMAIN found : found[i] # Nothing}) < 2)
  PROVE  LET evidence == {found[i] : i \in {j \in DOMAIN found : found[j] # Nothing}}
         IN BriefIs([walk |-> steps, evidence |-> evidence], arrows, there, new)
            /\ evidence \subseteq Paper
<1> DEFINE K == {i \in DOMAIN found : found[i] # Nothing}
           E == {found[i] : i \in K}
           W == ToSet(Papers(steps))
           n == Len(steps)
<1>1. n \in Nat /\ DOMAIN found = 1..n /\ DOMAIN steps = 1..n
  OBVIOUS
<1>2. W = {steps[i].paper : i \in 1..n}
  BY <1>1 DEF ToSet, Papers
<1>3. IsFiniteSet(K)
  <2>1. IsFiniteSet(1..n) /\ K \in SUBSET (1..n)
    BY <1>1, FS_Interval
  <2> QED
    BY <2>1, FS_Subset
<1> HIDE DEF n
<1>4. \A i \in K : found[i] = steps[i].paper /\ found[i] \in there /\ i \in 1..n
  BY <1>1 DEF Answers
<1>5. IsFiniteSet(E)
  <2> DEFINE f == [i \in K |-> found[i]]
  <2>1. f \in Surjection(K, E)
    BY DEF Surjection
  <2> QED
    BY <1>3, <2>1, FS_Surjection
<1>6. Cardinality(E) >= 2
  <2>1. PICK i, j \in K : i # j
    BY <1>3, MoreThanOne
  <2>2. found[i] # found[j] /\ found[i] \in E /\ found[j] \in E
    BY <1>1, <1>4, <2>1 DEF PathIn
  <2> HIDE DEF E
  <2> QED
    BY <1>5, <2>2, TwoMembers
<1>7. E \subseteq W \cap there
  BY <1>2, <1>4
<1>8. W \cap there \subseteq E \cup new
  BY <1>1, <1>2 DEF Answers
<1>9. E \subseteq Paper
  BY <1>1
<1> HIDE DEF E, W
<1>10. BriefIs([walk |-> steps, evidence |-> E], arrows, there, new)
  BY <1>6, <1>7, <1>8 DEF BriefIs, W
<1> QED
  BY <1>9, <1>10 DEF E

LEMMA BriefStays ==
  ASSUME NEW b, NEW old, NEW new, NEW there, NEW more, NEW written, NEW since2,
         BriefIs(b, old, there, written), old \subseteq new, there \subseteq more,
         written \subseteq since2, more \ since2 \subseteq there
  PROVE  BriefIs(b, new, more, since2)
<1>1. PathIn(b.walk, new)
  BY PathGrows DEF BriefIs
<1> QED
  BY <1>1 DEF BriefIs

LEMMA BriefingStep ==
  ASSUME StoreTyped, Wandering, Briefing, [Next]_vars
  PROVE  Briefing'
<1> DEFINE Brief == [walk : Seq(StepRec), evidence : SUBSET Paper]
<1>1. CASE UNCHANGED vars
  BY <1>1 DEF vars, Briefing, Fetching, Arrows
<1>2. CASE Written
  <2> SUFFICES ASSUME job.op = "briefs" PROVE Briefing'
    BY <1>2, WriteStep DEF Briefing
  <2>1. /\ Arrows \subseteq Arrows' /\ job' = job
        /\ DOMAIN papers \subseteq DOMAIN papers' /\ since.papers \subseteq since'.papers
        /\ DOMAIN papers' \ since'.papers \subseteq DOMAIN papers
    BY <1>2, WriteStep DEF Arrows
  <2>2. ASSUME NEW k \in DOMAIN job.out
        PROVE  BriefIs(job.out[k], Arrows', DOMAIN papers', since'.papers)
    <3>1. BriefIs(job.out[k], Arrows, DOMAIN papers, since.papers)
      BY DEF Briefing
    <3> QED
      BY <2>1, <3>1, BriefStays
  <2>3. Fetching => Fetching'
    BY <2>1 DEF Fetching, Answers
  <2> QED
    BY <2>1, <2>2, <2>3 DEF Briefing
<1>3. CASE Read
  <2> SUFFICES ASSUME job'.op = "briefs" PROVE Briefing'
    BY DEF Briefing
  <2>0. UNCHANGED <<papers, edges>> /\ (job = NoJob \/ since' = since)
    BY <1>3, ReadStep
  <2>1. CASE AskBriefs
    <3>1. /\ {"ids", "attempts", "signatures", "found", "out"} \subseteq DOMAIN job'
          /\ job'.ids = DOMAIN papers /\ job'.found = Nothing /\ job'.out = <<>>
      BY <2>1 DEF AskBriefs, Begin
    <3> QED
      BY <3>1 DEF Briefing, StoreTyped
  <2>2. ASSUME job.op = "briefs", UNCHANGED since, DOMAIN job' = DOMAIN job,
               job'.ids = job.ids, job'.found = Nothing, job'.out = job.out,
               job'.signatures = job.signatures
        PROVE  Briefing'
    <3>1. Arrows' = Arrows
      BY <2>0, <2>2 DEF Arrows
    <3> QED
      BY <2>0, <2>2, <3>1 DEF Briefing
  <2>3. job.op = "briefs" => since' = since
    BY <2>0 DEF NoJob, Nothing
  <2>4. CASE SetOut
    BY <2>2, <2>3, <2>4 DEF SetOut, Go, Briefing
  <2>5. CASE Hop
    <3>1. job.op = "briefs" /\ job.left > 0
      BY <2>5 DEF Hop, Go, Walking, StoreTyped
    <3> QED
      BY <2>2, <2>3, <2>5, <3>1 DEF Hop, Go, Briefing
  <2>6. CASE Stuck
    <3>1. job.op = "briefs" /\ job.left > 0
      BY <2>6 DEF Stuck, Go, Walking, StoreTyped
    <3> QED
      BY <2>2, <2>3, <2>6, <3>1 DEF Stuck, Go, Briefing
  <2>7. ASSUME job.op = "briefs", Go(Dropped) PROVE Briefing'
    BY <2>2, <2>3, <2>7 DEF Go, Dropped, Briefing
  <2>8. CASE Judge
    <3> DEFINE signature == Papers(job.steps)
    <3>1. job.op = "briefs" /\ job.steps # <<>> /\ job.left = 0 /\ job.steps \in Seq(StepRec)
      BY <2>8 DEF Judge, Walked, Wandering
    <3>2. CASE Go(Dropped)
      BY <2>7, <3>1, <3>2
    <3>3. CASE /\ signature \notin job.signatures
               /\ Go([job EXCEPT !.signatures = @ \cup {signature}, !.found = <<>>])
      <4>1. /\ DOMAIN job' = DOMAIN job /\ job'.ids = job.ids /\ job'.found = <<>>
            /\ job'.out = job.out /\ job'.signatures = job.signatures \cup {signature}
            /\ job'.steps = job.steps /\ job'.left = job.left
        BY <3>1, <3>3 DEF Go, Briefing, Wandering
      <4>2. Arrows' = Arrows /\ since' = since
        BY <2>0, <2>3, <3>1 DEF Arrows
      <4>3. Fetching'
        BY <3>1, <3>3, <4>1 DEF Fetching, Briefing
      <4> QED
        BY <2>0, <3>1, <4>1, <4>2, <4>3 DEF Briefing
    <3> QED
      BY <2>8, <3>2, <3>3 DEF Judge
  <2>9. CASE FetchPaper
    <3> DEFINE n == Len(job.found)
               p == job.steps[n + 1].paper
               f == IF p \in DOMAIN papers THEN p ELSE Nothing
    <3>1. /\ job.op = "briefs" /\ job.steps # <<>> /\ job.left = 0 /\ job.steps \in Seq(StepRec)
          /\ n < Len(job.steps) /\ Fetching
          /\ job' = [job EXCEPT !.found = Append(@, f)]
      BY <2>9 DEF FetchPaper, Walked, Wandering, Briefing, Go
    <3>2. job.found \in Seq(Paper \cup {Nothing}) /\ n \in Nat /\ p \in Paper
      <4>1. job.found \in Seq(Paper \cup {Nothing}) /\ n \in Nat /\ n + 1 \in 1..Len(job.steps)
        BY <3>1 DEF Fetching
      <4> HIDE DEF n
      <4>2. job.steps[n + 1] \in StepRec
        BY <3>1, <4>1
      <4> QED
        BY <4>1, <4>2 DEF StepRec
    <3> HIDE DEF f
    <3>3. /\ DOMAIN job' = DOMAIN job /\ job'.ids = job.ids /\ job'.found = Append(job.found, f)
          /\ job'.out = job.out /\ job'.signatures = job.signatures
          /\ job'.steps = job.steps /\ job'.left = job.left
      BY <3>1 DEF Briefing, Wandering
    <3>4. /\ job'.found \in Seq(Paper \cup {Nothing}) /\ Len(job'.found) = n + 1
          /\ DOMAIN job'.found = 1..(n + 1) /\ job'.found[n + 1] = f
          /\ \A i \in 1..n : job'.found[i] = job.found[i]
          /\ DOMAIN job.found = 1..n
      BY <3>2, <3>3 DEF f
    <3>5. Arrows' = Arrows /\ since' = since
      BY <2>0, <2>3, <3>1 DEF Arrows
    <3>6. Answers(f, p, DOMAIN papers, since.papers)
      BY <3>2, GraphAssumption DEF Answers, f
    <3> HIDE DEF n, p
    <3>7. ASSUME NEW i \in DOMAIN job'.found
          PROVE  Answers(job'.found[i], job.steps[i].paper, DOMAIN papers, since.papers)
      <4>1. CASE i = n + 1
        BY <3>4, <3>6, <4>1 DEF p
      <4>2. CASE i \in 1..n
        BY <3>1, <3>4, <4>2 DEF Fetching
      <4> QED
        BY <3>2, <3>4, <4>1, <4>2
    <3>8. Fetching'
      BY <2>0, <3>1, <3>2, <3>3, <3>4, <3>5, <3>7 DEF Fetching
    <3> QED
      BY <2>0, <3>1, <3>3, <3>5, <3>8 DEF Briefing
  <2>10. CASE KeepBrief
    <3> DEFINE K == {i \in DOMAIN job.found : job.found[i] # Nothing}
               b == [walk |-> job.steps, evidence |-> {job.found[i] : i \in K}]
    <3>1. /\ job.op = "briefs" /\ job.steps # <<>> /\ job.left = 0 /\ job.steps \in Seq(StepRec)
          /\ Len(job.found) = Len(job.steps) /\ Fetching /\ PathIn(job.steps, Arrows)
      BY <2>10 DEF KeepBrief, Walked, Wandering, Briefing
    <3>2. CASE Go(Dropped)
      BY <2>7, <3>1, <3>2
    <3>3. CASE ~(Cardinality(K) < 2) /\ Go([Dropped EXCEPT !.out = Append(@, b)])
      <4>1. /\ BriefIs(b, Arrows, DOMAIN papers, since.papers) /\ b.evidence \subseteq Paper
            /\ b.walk = job.steps
        BY <3>1, <3>3, EvidenceOfWalk DEF Fetching
      <4>2. b \in Brief
        BY <3>1, <4>1
      <4> HIDE DEF b, K
      <4>3. /\ DOMAIN job' = DOMAIN job /\ job'.ids = job.ids /\ job'.found = Nothing
            /\ job'.out = Append(job.out, b) /\ job'.signatures = job.signatures
        BY <3>1, <3>3 DEF Go, Dropped, Briefing, Wandering
      <4> DEFINE n == Len(job.out)
      <4>4. /\ job.out \in Seq(Brief) /\ n \in Nat
            /\ job'.out \in Seq(Brief) /\ DOMAIN job'.out = 1..(n + 1) /\ DOMAIN job.out = 1..n
            /\ job'.out[n + 1] = b /\ \A k \in 1..n : job'.out[k] = job.out[k]
        <5>1. job.out \in Seq(Brief)
          BY <3>1 DEF Briefing
        <5> HIDE DEF Brief
        <5> QED
          BY <4>2, <4>3, <5>1
      <4> HIDE DEF n, Brief
      <4>5. Arrows' = Arrows /\ since' = since
        BY <2>0, <2>3, <3>1 DEF Arrows
      <4>6. ASSUME NEW k \in DOMAIN job'.out
            PROVE  /\ BriefIs(job'.out[k], Arrows, DOMAIN papers, since.papers)
                   /\ Papers(job'.out[k].walk) \in job.signatures
        <5>1. CASE k = n + 1
          BY <3>1, <4>1, <4>4, <5>1 DEF Fetching
        <5>2. CASE k \in 1..n
          BY <3>1, <4>4, <5>2 DEF Briefing
        <5> QED
          BY <4>4, <5>1, <5>2
      <4>7. \A k \in 1..n : Papers(job'.out[k].walk) # Papers(job'.out[n + 1].walk)
        BY <3>1, <4>1, <4>4 DEF Fetching
      <4>8. \A k, l \in DOMAIN job'.out : k # l => Papers(job'.out[k].walk) # Papers(job'.out[l].walk)
        <5>0. \A k, l \in DOMAIN job.out :
                k # l => Papers(job.out[k].walk) # Papers(job.out[l].walk)
          BY <3>1, Zenon DEF Briefing
        <5>1. \A k, l \in 1..n :
                k # l => Papers(job'.out[k].walk) # Papers(job'.out[l].walk)
          BY <4>4, <5>0, Zenon
        <5>2. \A k \in DOMAIN job'.out : k \in 1..n \/ k = n + 1
          BY <4>4
        <5> QED
          BY <4>7, <5>1, <5>2
      <4>9. /\ {"ids", "attempts", "signatures", "found", "out"} \subseteq DOMAIN job'
            /\ job'.ids \subseteq Paper
        BY <3>1, <4>3 DEF Briefing
      <4>10. job'.out \in Seq([walk : Seq(StepRec), evidence : SUBSET Paper])
        BY <4>4 DEF Brief
      <4> QED
        BY <2>0, <4>3, <4>5, <4>6, <4>8, <4>9, <4>10 DEF Briefing
    <3> QED
      BY <2>10, <3>2, <3>3 DEF KeepBrief
  <2>11. ASSUME NEW p \in Paper, AskWalk(p) PROVE FALSE
    BY <2>11 DEF AskWalk, Begin
  <2> QED
    BY <1>3, <2>1, <2>4, <2>5, <2>6, <2>8, <2>9, <2>10, <2>11, OpStep DEF Walks
<1> QED
  BY <1>1, <1>2, <1>3 DEF Next, Written

-----------------------------------------------------------------------------
(* The fused ranking.                                                      *)

(* What comes before what in a finite set that is totally ordered gives    *)
(* each of its members a place.                                            *)
Orders(before, K) ==
  /\ before \in SUBSET (K \X K)
  /\ \A x \in K : <<x, x>> \notin before
  /\ \A x, y, z \in K : <<x, y>> \in before /\ <<y, z>> \in before => <<x, z>> \in before
  /\ \A x, y \in K : x # y => <<x, y>> \in before \/ <<y, x>> \in before

PlacedBy(at, before, K) ==
  /\ at \in Bijection(K, 0..(Cardinality(K) - 1))
  /\ \A x \in K : at[x] = Cardinality({y \in K : <<y, x>> \in before})
  /\ \A x, y \in K : <<x, y>> \in before => at[x] < at[y]

LEMMA Places ==
  ASSUME NEW K, IsFiniteSet(K), NEW before, Orders(before, K)
  PROVE  \E at : PlacedBy(at, before, K)
<1> DEFINE Pre(x) == {y \in K : <<y, x>> \in before}
           N == Cardinality(K)
           at == [x \in K |-> Cardinality(Pre(x))]
           T == 0..(N - 1)
<1>0. /\ \A x \in K : <<x, x>> \notin before
      /\ \A x, y, z \in K : <<x, y>> \in before /\ <<y, z>> \in before => <<x, z>> \in before
      /\ \A x, y \in K : x # y => <<x, y>> \in before \/ <<y, x>> \in before
  BY Zenon DEF Orders
<1>1. N \in Nat
  BY FS_CardinalityType
<1>2. ASSUME NEW x \in K PROVE IsFiniteSet(Pre(x)) /\ Cardinality(Pre(x)) \in T
  <2>1. Pre(x) \in SUBSET K /\ Pre(x) # K
    BY <1>0
  <2> HIDE DEF Pre
  <2>2. IsFiniteSet(Pre(x)) /\ Cardinality(Pre(x)) <= N /\ Cardinality(Pre(x)) # N
    BY <2>1, FS_Subset
  <2>3. Cardinality(Pre(x)) \in Nat
    BY <2>2, FS_CardinalityType
  <2> QED
    BY <1>1, <2>2, <2>3
<1>3. ASSUME NEW x \in K, NEW y \in K, <<x, y>> \in before
      PROVE  Cardinality(Pre(x)) < Cardinality(Pre(y))
  <2>1. Pre(x) \in SUBSET Pre(y) /\ x \in Pre(y) /\ x \notin Pre(x)
    BY <1>0, <1>3
  <2> HIDE DEF Pre
  <2>2. IsFiniteSet(Pre(y)) /\ Cardinality(Pre(y)) \in Nat /\ Cardinality(Pre(x)) \in Nat
    BY <1>1, <1>2
  <2>3. Cardinality(Pre(x)) <= Cardinality(Pre(y)) /\ Cardinality(Pre(x)) # Cardinality(Pre(y))
    BY <2>1, <2>2, FS_Subset
  <2> QED
    BY <2>2, <2>3
<1> HIDE DEF Pre
<1>4. \A x, y \in K : <<x, y>> \in before => at[x] < at[y]
  BY <1>3
<1>5. at \in [K -> T]
  BY <1>2
<1> HIDE DEF at
<1>6. ASSUME NEW x \in K, NEW y \in K, at[x] = at[y] PROVE x = y
  <2>1. at[x] \in Int
    BY <1>1, <1>5
  <2> QED
    <3> SUFFICES ASSUME x # y PROVE FALSE
      OBVIOUS
    <3>1. <<x, y>> \in before \/ <<y, x>> \in before
      BY <1>0
    <3>2. at[x] < at[y] \/ at[y] < at[x]
      BY <1>4, <3>1
    <3> QED
      BY <1>6, <2>1, <3>2
<1>7. at \in Injection(K, T)
  BY <1>5, <1>6 DEF Injection, IsInjective
<1> HIDE DEF N
<1>8. IsFiniteSet(T) /\ Cardinality(T) = N
  BY <1>1, FS_Interval
<1> HIDE DEF T
<1>9. at \in Surjection(K, T)
  BY <1>7, <1>8, FS_Injection DEF N
<1>10. at \in Bijection(K, T)
  BY <1>7, <1>9 DEF Bijection
<1>11. \A x \in K : at[x] = Cardinality({y \in K : <<y, x>> \in before})
  BY DEF at, Pre
<1> QED
  BY <1>4, <1>10, <1>11, Zenon DEF N, T, PlacedBy

LEMMA FunctionIsList ==
  ASSUME NEW S, NEW n \in Nat, NEW f \in [1..n -> S]
  PROVE  f \in Seq(S) /\ Len(f) = n /\ DOMAIN f = 1..n
<1>1. f \in Seq(S)
  BY SeqDef
<1>2. Len(f) \in Nat /\ DOMAIN f = 1..Len(f)
  BY <1>1, LenProperties
<1> QED
  BY <1>1, <1>2

(* The list that has everyone at its place.                                *)
Lists(list, at, K) ==
  /\ at \in Bijection(K, 0..(Cardinality(K) - 1))
  /\ list \in [1..Cardinality(K) -> K]
  /\ \A n \in 1..Cardinality(K) : at[list[n]] = n - 1

LEMMA Listed ==
  ASSUME NEW K, IsFiniteSet(K), NEW at, NEW list, Lists(list, at, K)
  PROVE  /\ Range(list) = K /\ Len(list) = Cardinality(K)
         /\ \A x, y \in K : at[x] < at[y] => Above(list, x, y)
<1> DEFINE N == Cardinality(K)
<1>1. N \in Nat
  BY FS_CardinalityType
<1>2. /\ at \in [K -> 0..(N - 1)]
      /\ \A x, y \in K : at[x] = at[y] => x = y
  BY DEF Bijection, Injection, IsInjective, Lists
<1>3. \A n \in 1..N : list[n] \in K /\ at[list[n]] = n - 1
  BY DEF Lists
<1>7. list \in Seq(K) /\ Len(list) = N /\ DOMAIN list = 1..N
  BY <1>1, FunctionIsList DEF Lists
<1> HIDE DEF N
<1>4. ASSUME NEW x \in K PROVE at[x] + 1 \in 1..N /\ list[at[x] + 1] = x
  <2>1. at[x] + 1 \in 1..N /\ (at[x] + 1) - 1 = at[x]
    BY <1>1, <1>2
  <2> DEFINE m == at[x] + 1
  <2> HIDE DEF m
  <2>2. list[m] \in K /\ at[list[m]] = m - 1
    BY <1>3, <2>1 DEF m
  <2> QED
    BY <1>2, <2>1, <2>2 DEF m
<1>8. Range(list) = K
  BY <1>3, <1>4, <1>7 DEF Range
<1>9. ASSUME NEW x \in K, NEW y \in K, at[x] < at[y] PROVE Above(list, x, y)
  <2> DEFINE i == at[x] + 1
  <2>1. i \in 1..N /\ list[i] = x /\ at[x] \in Int /\ at[y] \in Int
    BY <1>1, <1>2, <1>4
  <2>2. ASSUME NEW j \in 1..i PROVE list[j] # y
    <3>1. j \in 1..N /\ j - 1 < at[y]
      BY <1>1, <1>9, <2>1
    <3>2. at[list[j]] = j - 1
      BY <1>3, <3>1
    <3> QED
      BY <2>1, <3>1, <3>2
  <2> HIDE DEF i
  <2> QED
    BY <1>7, <2>1, <2>2 DEF Above
<1> QED
  BY <1>7, <1>8, <1>9 DEF N

(* What a rank is worth.                                                   *)
LEMMA Shared ==
  ASSUME NEW n \in Nat, n > 0, NEW d \in Nat, d > 0, n % d = 0
  PROVE  n = d * (n \div d) /\ n \div d \in Nat
<1> QED
  OBVIOUS

LEMMA MoreForFewer ==
  ASSUME NEW n \in Nat, n > 0, NEW d \in Nat, d > 0, NEW e \in Nat, e > 0,
         NEW x \in Nat, NEW y \in Nat, n = d * x, n = e * y
  PROVE  x > 0 /\ (d < e => x > y)
<1>1. x # 0 /\ y # 0
  OBVIOUS
<1>2. ASSUME d < e, x <= y PROVE FALSE
  <2>1. d * x <= d * y
    BY <1>2
  <2>2. d * y < e * y
    BY <1>1, <1>2
  <2> QED
    BY <2>1, <2>2
<1> QED
  BY <1>1, <1>2

LEMMA Worth ==
  ASSUME NEW r \in 1..(3 * Limit), NEW q \in 1..(3 * Limit)
  PROVE  /\ Scale \div (60 + r) \in Nat /\ Scale \div (60 + r) > 0
         /\ r < q => Scale \div (60 + r) > Scale \div (60 + q)
<1>1. /\ Scale \in Nat /\ Scale > 0 /\ Scale % (60 + r) = 0 /\ Scale % (60 + q) = 0
      /\ Limit \in Nat
  BY GraphAssumption
<1>2. r \in Nat /\ r > 0 /\ q \in Nat /\ q > 0
  BY <1>1
<1> DEFINE d == 60 + r
           e == 60 + q
<1>3. d \in Nat /\ d > 0 /\ e \in Nat /\ e > 0 /\ (r < q => d < e)
  BY <1>2
<1>4. Scale % d = 0 /\ Scale % e = 0
  BY <1>1
<1> HIDE DEF d, e
<1> DEFINE x == Scale \div d
           y == Scale \div e
<1>5. Scale = d * x /\ x \in Nat
  BY <1>1, <1>3, <1>4, Shared
<1>6. Scale = e * y /\ y \in Nat
  BY <1>1, <1>3, <1>4, Shared
<1> HIDE DEF x, y
<1>7. x > 0 /\ (d < e => x > y)
  BY <1>1, <1>3, <1>5, <1>6, MoreForFewer
<1> QED
  BY <1>3, <1>5, <1>7 DEF d, e, x, y

(* A list of keys by their rank, the best first.                           *)
Key == (0..2) \X Paper

RankingOf(i, list) ==
  /\ list \in Seq(Key) /\ Len(list) <= 3 * Limit
  /\ \A r, q \in DOMAIN list : list[r] = list[q] => r = q
  /\ \A r \in DOMAIN list : list[r][1] = (IF list[r][2] = NoId THEN i ELSE 0)

LEMMA RankingsRank ==
  ASSUME NEW i \in {1, 2}, NEW S \in SUBSET Paper, IsFiniteSet(S), NEW list \in Rankings(i, S)
  PROVE  RankingOf(i, list) /\ \A r \in DOMAIN list : list[r][2] \in S
<1> DEFINE n == IF Cardinality(S) > 3 * Limit THEN 3 * Limit ELSE Cardinality(S)
           K == {Keyed(i, p) : p \in S}
<1>1. n \in Nat /\ n <= 3 * Limit
  BY FS_CardinalityType, GraphAssumption
<1>2. list \in [1..n -> K] /\ IsInjective(list)
  BY DEF Rankings
<1>3. \A k \in K : k \in Key /\ k[2] \in S /\ k[1] = (IF k[2] = NoId THEN i ELSE 0)
  BY DEF Keyed, Key
<1> HIDE DEF n, K
<1>4. list \in Seq(K) /\ Len(list) = n /\ DOMAIN list = 1..n
  BY <1>1, <1>2, FunctionIsList
<1>5. list \in Seq(Key)
  <2>1. K \subseteq Key
    BY <1>3
  <2> QED
    BY <1>4, <2>1, SeqMonotonic
<1>6. \A r \in DOMAIN list : list[r] \in K
  BY <1>2, <1>4
<1>7. \A r, q \in DOMAIN list : list[r] = list[q] => r = q
  BY <1>2 DEF IsInjective
<1> QED
  BY <1>1, <1>3, <1>4, <1>5, <1>6, <1>7 DEF RankingOf

Fusion ==
  /\ Range(job.fused) = Keys /\ Len(job.fused) = Cardinality(Keys)
  /\ \A k, l \in Keys :
       /\ \E i \in {1, 2} : Above(job.lists[i], k, l)
       /\ \A i \in {1, 2} : ~Above(job.lists[i], l, k)
       => Above(job.fused, k, l)

Listing ==
  /\ job.lists \in Seq(Seq(Key)) /\ Len(job.lists) \in {1, 2}
  /\ \A i \in DOMAIN job.lists : RankingOf(i, job.lists[i])

Searching ==
  job.op = "search" =>
    /\ {"query", "lists", "fused"} \subseteq DOMAIN job
    /\ Listing
    /\ job.fused # <<>> => Len(job.lists) = 2 /\ Fusion
    /\ writes = 0 => \A i \in DOMAIN job.lists : \A r \in DOMAIN job.lists[i] :
                       papers[job.lists[i][r][2]] = job.query

Embedding ==
  /\ IsFiniteSet(DOMAIN papers) /\ writes \in Nat
  /\ writes = 0 => \A p \in DOMAIN embedded : p \in DOMAIN papers /\ embedded[p] = papers[p]
  /\ job.op = "embed" =>
       /\ "rows" \in DOMAIN job
       /\ writes = 0 => \A p \in DOMAIN job.rows : p \in DOMAIN papers /\ job.rows[p] = papers[p]

(* The rank of a key and what it adds to the score.                        *)
LEMMA Ranks ==
  ASSUME Listing, NEW i \in {1, 2}, i \in DOMAIN job.lists
  PROVE  /\ \A k \in Range(job.lists[i]) : /\ Rank(i, k) \in DOMAIN job.lists[i]
                                           /\ Rank(i, k) \in 1..(3 * Limit)
                                           /\ job.lists[i][Rank(i, k)] = k
         /\ \A r \in DOMAIN job.lists[i] : Rank(i, job.lists[i][r]) = r
         /\ IsFiniteSet(Range(job.lists[i]))
<1> DEFINE list == job.lists[i]
           n == Len(list)
<1>1. RankingOf(i, list)
  BY DEF Listing
<1> HIDE DEF list
<1>2. n \in Nat /\ n <= 3 * Limit /\ DOMAIN list = 1..n /\ Limit \in Nat
  BY <1>1, GraphAssumption DEF RankingOf
<1>3. ASSUME NEW k \in Range(list) PROVE Rank(i, k) \in DOMAIN list /\ list[Rank(i, k)] = k
  <2>1. \E r \in DOMAIN list : list[r] = k
    BY <1>3 DEF Range
  <2> QED
    BY <2>1 DEF Rank, list
<1>4. ASSUME NEW r \in DOMAIN list PROVE Rank(i, list[r]) = r
  <2>1. list[r] \in Range(list)
    BY DEF Range
  <2> QED
    BY <1>1, <1>3, <2>1 DEF RankingOf
<1>5. IsFiniteSet(Range(list))
  <2>1. list \in Surjection(1..n, Range(list))
    <3>1. list \in [1..n -> Range(list)]
      BY <1>1, <1>2 DEF Range, RankingOf
    <3> QED
      BY <1>2, <3>1 DEF Surjection, Range
  <2>2. IsFiniteSet(1..n)
    BY <1>2, FS_Interval
  <2> QED
    BY <2>1, <2>2, FS_Surjection
<1>6. \A k \in Range(list) : Rank(i, k) \in 1..(3 * Limit)
  BY <1>2, <1>3
<1> QED
  BY <1>3, <1>4, <1>5, <1>6 DEF list

LEMMA Shares ==
  ASSUME Listing, NEW i \in {1, 2}, i \in DOMAIN job.lists, NEW k, NEW l
  PROVE  /\ Share(i, k) \in Nat
         /\ Above(job.lists[i], k, l) => Share(i, k) > Share(i, l)
         /\ k # l /\ ~Above(job.lists[i], l, k) => Share(i, k) >= Share(i, l)
<1> DEFINE list == job.lists[i]
           worth(r) == Scale \div (60 + r)
<1>1. \A r, q \in 1..(3 * Limit) :
        worth(r) \in Nat /\ worth(r) > 0 /\ (r < q => worth(r) > worth(q))
  BY Worth
<1>2. /\ \A m \in Range(list) : /\ Rank(i, m) \in DOMAIN list /\ Rank(i, m) \in 1..(3 * Limit)
                                /\ list[Rank(i, m)] = m
      /\ \A r \in DOMAIN list : Rank(i, list[r]) = r
  BY Ranks
<1>3. \A m : Share(i, m) = IF m \in Range(list) THEN worth(Rank(i, m)) ELSE 0
  BY DEF Share
<1>4. DOMAIN list = 1..Len(list) /\ Len(list) \in Nat
  BY DEF Listing, RankingOf
<1>5. \A r \in DOMAIN list : list[r] \in Range(list)
  BY DEF Range
<1> HIDE DEF list, worth
<1>6. \A m : Share(i, m) \in Nat
  BY <1>1, <1>2, <1>3
<1>7. ASSUME Above(list, k, l) PROVE Share(i, k) > Share(i, l)
  <2>1. PICK r \in DOMAIN list : list[r] = k /\ \A j \in 1..r : list[j] # l
    BY <1>7 DEF Above
  <2>2. k \in Range(list) /\ Rank(i, k) = r /\ r \in 1..(3 * Limit)
    BY <1>2, <1>5, <2>1
  <2>3. CASE l \notin Range(list)
    BY <1>1, <1>3, <2>2, <2>3
  <2>4. CASE l \in Range(list)
    <3>1. Rank(i, l) \in 1..(3 * Limit) /\ Rank(i, l) \in DOMAIN list /\ list[Rank(i, l)] = l
      BY <1>2, <2>4
    <3>2. r < Rank(i, l)
      BY <1>4, <2>1, <2>2, <3>1
    <3> QED
      BY <1>1, <1>3, <2>2, <2>4, <3>1, <3>2
  <2> QED
    BY <2>3, <2>4
<1>8. ASSUME k # l, ~Above(list, l, k) PROVE Share(i, k) >= Share(i, l)
  <2>1. CASE l \notin Range(list)
    BY <1>3, <1>6, <2>1
  <2>2. CASE l \in Range(list)
    <3> DEFINE q == Rank(i, l)
    <3>1. q \in 1..(3 * Limit) /\ q \in DOMAIN list /\ list[q] = l
      BY <1>2, <2>2
    <3> HIDE DEF q
    <3>2. PICK j \in 1..q : list[j] = k
      BY <1>8, <3>1 DEF Above
    <3>3. j \in DOMAIN list /\ j # q
      BY <1>4, <1>8, <3>1, <3>2
    <3>4. k \in Range(list) /\ Rank(i, k) = j /\ j \in 1..(3 * Limit) /\ j < q
      BY <1>2, <1>5, <3>1, <3>2, <3>3
    <3>5. Share(i, k) = worth(j) /\ Share(i, l) = worth(q)
      BY <1>3, <2>2, <3>4 DEF q
    <3>6. worth(j) > worth(q) /\ worth(j) \in Nat /\ worth(q) \in Nat
      BY <1>1, <3>1, <3>4
    <3> QED
      BY <3>5, <3>6
  <2> QED
    BY <2>1, <2>2
<1> QED
  BY <1>6, <1>7, <1>8 DEF list

(* Scores and who was seen first put the keys in one order.                *)
LEMMA Ordered ==
  ASSUME Listing, Len(job.lists) = 2
  PROVE  /\ IsFiniteSet(Keys)
         /\ \A k \in Keys : Score(k) \in Nat /\ FirstSeen(k) \in Int
         /\ \A k, l \in Keys : FirstSeen(k) = FirstSeen(l) => k = l
<1>1. 1 \in DOMAIN job.lists /\ 2 \in DOMAIN job.lists
  BY DEF Listing
<1> DEFINE A == Range(job.lists[1])
           B == Range(job.lists[2])
<1>2. /\ \A k \in A : /\ Rank(1, k) \in 1..(3 * Limit) /\ job.lists[1][Rank(1, k)] = k
      /\ IsFiniteSet(A)
  BY <1>1, Ranks
<1>3. /\ \A k \in B : /\ Rank(2, k) \in 1..(3 * Limit) /\ job.lists[2][Rank(2, k)] = k
      /\ IsFiniteSet(B)
  BY <1>1, Ranks
<1>4. Keys = A \cup B
  BY DEF Keys
<1>5. IsFiniteSet(Keys)
  BY <1>2, <1>3, <1>4, FS_Union
<1>6. \A k \in Keys : Score(k) \in Nat
  BY <1>1, Shares DEF Score
<1>7. \A k : FirstSeen(k) = IF k \in A THEN Rank(1, k) ELSE 3 * Limit + Rank(2, k)
  BY DEF FirstSeen
<1> HIDE DEF A, B
<1>8. Limit \in Nat
  BY GraphAssumption
<1>9. \A k \in Keys : FirstSeen(k) \in Int
  BY <1>2, <1>3, <1>4, <1>7, <1>8
<1>10. ASSUME NEW k \in Keys, NEW l \in Keys, FirstSeen(k) = FirstSeen(l) PROVE k = l
  <2>1. CASE k \in A /\ l \in A
    BY <1>2, <1>7, <1>10, <2>1
  <2>2. CASE k \notin A /\ l \notin A
    <3>1. Rank(2, k) = Rank(2, l)
      BY <1>3, <1>4, <1>7, <1>8, <1>10, <2>2
    <3> QED
      BY <1>3, <1>4, <2>2, <3>1
  <2>3. CASE k \in A /\ l \notin A
    BY <1>2, <1>3, <1>4, <1>7, <1>8, <1>10, <2>3
  <2>4. CASE k \notin A /\ l \in A
    BY <1>2, <1>3, <1>4, <1>7, <1>8, <1>10, <2>4
  <2> QED
    BY <2>1, <2>2, <2>3, <2>4
<1> QED
  BY <1>5, <1>6, <1>9, <1>10

LEMMA FuseKeepsRanks ==
  ASSUME Listing, Len(job.lists) = 2, NEW fused,
         fused = [n \in 1..Cardinality(Keys) |->
                    CHOOSE k \in Keys : Cardinality({l \in Keys : Precedes(l, k)}) = n - 1]
  PROVE  /\ Range(fused) = Keys /\ Len(fused) = Cardinality(Keys)
         /\ \A k, l \in Keys :
              /\ \E i \in {1, 2} : Above(job.lists[i], k, l)
              /\ \A i \in {1, 2} : ~Above(job.lists[i], l, k)
              => Above(fused, k, l)
<1> DEFINE K == Keys
           N == Cardinality(K)
           before == {z \in K \X K : Precedes(z[1], z[2])}
<1>0. fused = [n \in 1..N |-> CHOOSE k \in K : Cardinality({l \in K : Precedes(l, k)}) = n - 1]
  OBVIOUS
<1>1. IsFiniteSet(K) /\ N \in Nat
  BY Ordered, FS_CardinalityType
<1>2. \A x, y \in K : <<x, y>> \in before <=> Precedes(x, y)
  OBVIOUS
<1>3. Orders(before, K)
  <2>1. before \in SUBSET (K \X K)
    OBVIOUS
  <2> HIDE DEF before
  <2> USE Ordered
  <2>2. \A x \in K : <<x, x>> \notin before
    BY <1>2 DEF Precedes
  <2>3. \A x, y, z \in K : <<x, y>> \in before /\ <<y, z>> \in before => <<x, z>> \in before
    BY <1>2 DEF Precedes
  <2>4. \A x, y \in K : x # y => <<x, y>> \in before \/ <<y, x>> \in before
    BY <1>2 DEF Precedes
  <2> QED
    BY <2>1, <2>2, <2>3, <2>4, Zenon DEF Orders
<1> HIDE DEF before, K, N
<1>10. PICK at : PlacedBy(at, before, K)
  BY <1>1, <1>3, Places, Zenon
<1>4. /\ at \in Bijection(K, 0..(N - 1))
      /\ \A x \in K : at[x] = Cardinality({y \in K : <<y, x>> \in before})
      /\ \A x, y \in K : <<x, y>> \in before => at[x] < at[y]
  BY <1>10, Zenon DEF PlacedBy, N
<1>5. \A x \in K : at[x] = Cardinality({y \in K : Precedes(y, x)})
  <2>1. \A x \in K : {y \in K : <<y, x>> \in before} = {y \in K : Precedes(y, x)}
    BY <1>2
  <2> QED
    BY <1>4, <2>1
<1>6. ASSUME NEW n \in 1..N PROVE fused[n] \in K /\ at[fused[n]] = n - 1
  <2>1. \E x \in K : at[x] = n - 1
    <3>1. n - 1 \in 0..(N - 1)
      BY <1>1
    <3> QED
      BY <1>4, <3>1 DEF Bijection, Surjection
  <2>2. \E x \in K : Cardinality({l \in K : Precedes(l, x)}) = n - 1
    BY <1>5, <2>1
  <2>3. fused[n] = CHOOSE k \in K : Cardinality({l \in K : Precedes(l, k)}) = n - 1
    BY <1>0
  <2>4. fused[n] \in K /\ Cardinality({l \in K : Precedes(l, fused[n])}) = n - 1
    BY <2>2, <2>3
  <2> QED
    BY <1>5, <2>4
<1>7. fused \in [1..N -> K]
  BY <1>0, <1>6
<1>8. /\ Range(fused) = K /\ Len(fused) = Cardinality(K)
      /\ \A x, y \in K : at[x] < at[y] => Above(fused, x, y)
  <2>1. \A n \in 1..N : at[fused[n]] = n - 1
    BY <1>6
  <2>2. Lists(fused, at, K)
    BY <1>4, <1>7, <2>1, Zenon DEF Lists, N
  <2> QED
    BY <1>1, <2>2, Listed, Zenon
<1>9. ASSUME NEW k \in K, NEW l \in K, \E i \in {1, 2} : Above(job.lists[i], k, l),
             \A i \in {1, 2} : ~Above(job.lists[i], l, k)
      PROVE  Above(fused, k, l)
  <2>1. 1 \in DOMAIN job.lists /\ 2 \in DOMAIN job.lists
    BY DEF Listing
  <2>2. \A i \in {1, 2} : Share(i, k) \in Nat /\ Share(i, l) \in Nat
    BY <2>1, Shares
  <2>3. k # l
    BY <1>9
  <2>4. \A i \in {1, 2} : Share(i, k) >= Share(i, l)
    BY <1>9, <2>1, <2>3, Shares
  <2>5. \E i \in {1, 2} : Share(i, k) > Share(i, l)
    BY <1>9, <2>1, Shares
  <2>6. Score(k) > Score(l)
    BY <2>2, <2>4, <2>5 DEF Score
  <2>7. Precedes(k, l)
    BY <2>6 DEF Precedes
  <2> QED
    BY <1>2, <1>4, <1>8, <2>7
<1> QED
  BY <1>8, <1>9 DEF K

(* Only embed_pending stores an embedding, and no reader counts as a write.*)
LEMMA Untouched ==
  ASSUME Read
  PROVE  /\ writes' = writes
         /\ embedded' = embedded \/ \E p \in Paper : EmbedAndStore(p)
<1>1. ASSUME NEW j, Begin(j) \/ Go(j) PROVE UNCHANGED <<writes, embedded>>
  BY <1>1 DEF Begin, Go
<1>2. CASE \E p \in Paper : EmbedAndStore(p)
  BY <1>2 DEF EmbedAndStore
<1>3. CASE (\E q \in Asked : AskPicture(q)) \/ Pop \/ \E e \in Edge : Draw(e)
  BY <1>1, <1>3 DEF AskPicture, Pop, Draw
<1>4. CASE Walks
  BY <1>1, <1>4 DEF Walks, AskWalk, AskBriefs, SetOut, Hop, Stuck, Judge, FetchPaper, KeepBrief
<1>5. CASE Deltas \/ AskEmbeddings \/ Done
  BY <1>1, <1>5 DEF Deltas, AskDelta, ApplyDelta, Resolve, AskEmbeddings, Done
<1>6. CASE Searches
  BY <1>1, <1>6 DEF Searches, AskSearch, SearchDense, Fuse
<1> QED
  BY <1>2, <1>3, <1>4, <1>5, <1>6 DEF Read, Walks, Deltas, Searches

LEMMA EmbeddingStep ==
  ASSUME StoreTyped, Embedding, [Next]_vars
  PROVE  Embedding'
<1>1. CASE UNCHANGED vars
  BY <1>1 DEF vars, Embedding
<1>2. CASE Written
  <2>1. writes' = writes + 1
    BY <1>2 DEF Written, UpsertPaper, AddEdge, DropEdge, Write
  <2>2. job' = job
    BY <1>2, WriteStep
  <2>3. IsFiniteSet(DOMAIN papers')
    <3>1. CASE papers' = papers
      BY <3>1 DEF Embedding
    <3>2. CASE \E p \in Paper, text \in Text : UpsertPaper(p, text)
      <4>1. PICK p \in Paper, text \in Text : UpsertPaper(p, text)
        BY <3>2
      <4>2. DOMAIN papers' = DOMAIN papers \cup {p}
        BY <4>1 DEF UpsertPaper, With
      <4> QED
        BY <4>2, FS_AddElement DEF Embedding
    <3> QED
      BY <1>2, <3>1, <3>2 DEF Written, AddEdge, DropEdge
  <2>4. writes \in Nat /\ (job.op = "embed" => "rows" \in DOMAIN job)
    BY DEF Embedding
  <2>5. writes' \in Nat /\ writes' # 0
    BY <2>1, <2>4
  <2> QED
    BY <2>2, <2>3, <2>4, <2>5 DEF Embedding
<1>3. CASE Read
  <2>1. papers' = papers /\ writes' = writes
    BY <1>3, ReadStep, Untouched
  <2>2. ASSUME NEW p \in Paper, EmbedAndStore(p) PROVE Embedding'
    <3>1. /\ job.op = "embed" /\ p \in DOMAIN job.rows /\ "rows" \in DOMAIN job
          /\ embedded' = With(embedded, p, job.rows[p])
          /\ job' = [job EXCEPT !.rows = Restrict(@, DOMAIN @ \ {p})]
      BY <2>2 DEF EmbedAndStore, Embedding
    <3>2. /\ "rows" \in DOMAIN job'
          /\ DOMAIN job'.rows = DOMAIN job.rows \ {p}
          /\ \A q \in DOMAIN job'.rows : job'.rows[q] = job.rows[q]
      BY <3>1 DEF Restrict
    <3>3. /\ DOMAIN embedded' = DOMAIN embedded \cup {p} /\ embedded'[p] = job.rows[p]
          /\ \A q \in DOMAIN embedded : q # p => embedded'[q] = embedded[q]
      BY <3>1 DEF With
    <3> QED
      BY <2>1, <3>1, <3>2, <3>3 DEF Embedding
  <2>3. CASE embedded' = embedded /\ job'.op = "embed"
    <3>1. CASE AskEmbeddings
      BY <2>1, <2>3, <3>1 DEF AskEmbeddings, Begin, Embedding
    <3> QED
      BY <1>3, <2>2, <2>3, <3>1, OpStep DEF Embeds
  <2>4. CASE embedded' = embedded /\ job'.op # "embed"
    BY <2>1, <2>4 DEF Embedding
  <2> QED
    BY <1>3, <2>2, <2>3, <2>4, Untouched
<1> QED
  BY <1>1, <1>2, <1>3 DEF Next, Written

LEMMA SearchingStep ==
  ASSUME StoreTyped, Embedding, Searching, [Next]_vars
  PROVE  Searching'
<1>1. ASSUME job' = job, papers' = papers \/ writes' # 0, writes' = 0 => writes = 0
      PROVE  Searching'
  <2>1. Listing' <=> Listing
    BY <1>1 DEF Listing
  <2>2. Fusion' <=> Fusion
    BY <1>1 DEF Fusion, Keys
  <2> QED
    BY <1>1, <2>1, <2>2 DEF Searching
<1>2. CASE UNCHANGED vars
  BY <1>1, <1>2 DEF vars
<1>3. CASE Written
  <2>1. writes' = writes + 1 /\ writes \in Nat /\ job' = job
    BY <1>3, WriteStep DEF Written, UpsertPaper, AddEdge, DropEdge, Write, Embedding
  <2> QED
    BY <1>1, <2>1
<1>4. CASE Read
  <2> SUFFICES ASSUME job'.op = "search" PROVE Searching'
    BY DEF Searching
  <2>0. papers' = papers /\ writes' = writes
    BY <1>4, ReadStep, Untouched
  <2> DEFINE Hit(list, text) == \A r \in DOMAIN list : papers[list[r][2]] = text
  <2>1. ASSUME NEW query \in Queries, AskSearch(query) PROVE Searching'
    <3> DEFINE S == {p \in DOMAIN papers : papers[p] = query}
    <3>1. PICK list \in Rankings(1, S) :
            job' = [op |-> "search", query |-> query, lists |-> <<list>>, fused |-> <<>>]
      BY <2>1 DEF AskSearch, Begin
    <3>2. S \in SUBSET Paper /\ IsFiniteSet(S)
      BY FS_Subset DEF Embedding, StoreTyped
    <3>3. RankingOf(1, list) /\ \A r \in DOMAIN list : list[r][2] \in S
      BY <3>1, <3>2, RankingsRank
    <3>4. Hit(list, query) /\ list \in Seq(Key)
      BY <3>3 DEF RankingOf
    <3> HIDE DEF S
    <3> DEFINE ls == <<list>>
    <3>5. /\ ls \in Seq(Seq(Key)) /\ Len(ls) = 1 /\ DOMAIN ls = {1} /\ ls[1] = list
      BY <3>4
    <3>6. /\ DOMAIN job' = {"op", "query", "lists", "fused"} /\ job'.query = query
          /\ job'.lists = ls /\ job'.fused = <<>>
      BY <3>1
    <3> HIDE DEF ls, Hit
    <3>7. Listing'
      BY <3>3, <3>5, <3>6 DEF Listing
    <3>8. \A i \in DOMAIN job'.lists : Hit(job'.lists[i], job'.query)
      BY <3>4, <3>5, <3>6
    <3> QED
      BY <2>0, <3>6, <3>7, <3>8 DEF Searching, Hit
  <2>2. CASE SearchDense
    <3> DEFINE S == {p \in DOMAIN papers \cap DOMAIN embedded : embedded[p] = job.query}
    <3>1. /\ job.op = "search" /\ Len(job.lists) = 1
          /\ Listing /\ {"query", "lists", "fused"} \subseteq DOMAIN job
      BY <2>2 DEF SearchDense, Searching
    <3>2. PICK list \in Rankings(2, S) : job' = [job EXCEPT !.lists = Append(@, list)]
      BY <2>2 DEF SearchDense, Go
    <3>3. S \in SUBSET Paper /\ IsFiniteSet(S)
      BY FS_Subset DEF Embedding, StoreTyped
    <3>4. RankingOf(2, list) /\ \A r \in DOMAIN list : list[r][2] \in S
      BY <3>2, <3>3, RankingsRank
    <3>5. writes = 0 => Hit(list, job.query)
      BY <3>4 DEF Embedding
    <3> HIDE DEF S, Hit
    <3> DEFINE ls == Append(job.lists, list)
    <3>6. /\ ls \in Seq(Seq(Key)) /\ Len(ls) = 2 /\ DOMAIN ls = {1, 2} /\ ls[2] = list
          /\ ls[1] = job.lists[1] /\ 1 \in DOMAIN job.lists
      BY <3>1, <3>4 DEF Listing, RankingOf
    <3>7. /\ DOMAIN job' = DOMAIN job /\ job'.query = job.query
          /\ job'.lists = ls /\ job'.fused = job.fused
      BY <3>1, <3>2
    <3> HIDE DEF ls
    <3>8. Listing'
      BY <3>1, <3>4, <3>6, <3>7 DEF Listing
    <3>9. writes = 0 => Hit(job.lists[1], job.query)
      BY <3>1, <3>6 DEF Searching, Hit
    <3>10. writes = 0 => \A i \in DOMAIN job'.lists : Hit(job'.lists[i], job'.query)
      BY <3>5, <3>6, <3>7, <3>9
    <3>11. ~(job.fused # <<>>)
      BY <3>1 DEF Searching
    <3> QED
      BY <2>0, <3>1, <3>7, <3>8, <3>10, <3>11 DEF Searching, Hit
  <2>3. CASE Fuse
    <3> DEFINE fused == [n \in 1..Cardinality(Keys) |->
                 CHOOSE k \in Keys : Cardinality({l \in Keys : Precedes(l, k)}) = n - 1]
    <3>1. /\ job.op = "search" /\ Len(job.lists) = 2
          /\ Listing /\ {"query", "lists", "fused"} \subseteq DOMAIN job
          /\ job' = [job EXCEPT !.fused = fused]
      BY <2>3 DEF Fuse, Go, Searching
    <3>2. /\ Range(fused) = Keys /\ Len(fused) = Cardinality(Keys)
          /\ \A k, l \in Keys :
               /\ \E i \in {1, 2} : Above(job.lists[i], k, l)
               /\ \A i \in {1, 2} : ~Above(job.lists[i], l, k)
               => Above(fused, k, l)
      BY <3>1, FuseKeepsRanks
    <3> HIDE DEF fused
    <3>3. /\ DOMAIN job' = DOMAIN job /\ job'.query = job.query
          /\ job'.lists = job.lists /\ job'.fused = fused
      BY <3>1
    <3>4. Fusion'
      BY <3>2, <3>3 DEF Fusion, Keys
    <3>5. Listing'
      BY <3>1, <3>3 DEF Listing
    <3> QED
      BY <2>0, <3>1, <3>3, <3>4, <3>5 DEF Searching
  <2> QED
    BY <1>4, <2>1, <2>2, <2>3, OpStep DEF Searches
<1> QED
  BY <1>2, <1>3, <1>4 DEF Next, Written

LEMMA RanksHold ==
  ASSUME Searching
  PROVE  FusionKeepsRanks
<1> SUFFICES ASSUME job.op = "search", SearchDone PROVE FusionKeepsRanks
  BY DEF FusionKeepsRanks
<1>1. /\ Listing /\ Len(job.lists) = 2
      /\ 1 \in DOMAIN job.lists /\ 2 \in DOMAIN job.lists
  BY DEF Searching, SearchDone, Listing
<1>2. Fusion
  <2>1. CASE job.fused # <<>>
    BY <2>1 DEF Searching
  <2>2. CASE job.fused = <<>> /\ job.lists = <<<<>>, <<>>>>
    <3>1. Keys = {} /\ Range(job.fused) = {} /\ Len(job.fused) = 0
      BY <2>2 DEF Keys, Range
    <3> QED
      BY <3>1, FS_EmptySet DEF Fusion
  <2> QED
    BY <2>1, <2>2 DEF SearchDone
<1>3. ASSUME NEW k \in Keys
      PROVE  \E i \in {1, 2} : \E r \in DOMAIN job.lists[i] : job.lists[i][r] = k
  BY DEF Keys, Range
<1>4. ASSUME NEW k \in Keys
      PROVE  k \in Key /\ (k[2] # NoId => k[1] = 0)
  <2>1. PICK i \in {1, 2} : \E r \in DOMAIN job.lists[i] : job.lists[i][r] = k
    BY <1>3
  <2>2. RankingOf(i, job.lists[i])
    BY <1>1 DEF Listing
  <2> QED
    BY <2>1, <2>2 DEF RankingOf
<1>5. ASSUME NEW k \in Keys, NEW l \in Keys, k # l, k[2] = l[2] PROVE k[2] = NoId
  BY <1>4, <1>5 DEF Key
<1>6. ASSUME writes = 0, NEW k \in Keys PROVE papers[k[2]] = job.query
  <2>1. PICK i \in {1, 2} : \E r \in DOMAIN job.lists[i] : job.lists[i][r] = k
    BY <1>3
  <2> QED
    BY <1>1, <1>6, <2>1 DEF Searching
<1> QED
  BY <1>2, <1>5, <1>6 DEF FusionKeepsRanks, Fusion

LEMMA WalksHold ==
  ASSUME Wandering, Briefing
  PROVE  WalkIsPath
<1>1. ASSUME NEW steps PROVE IsPath(steps) <=> PathIn(steps, Arrows)
  BY DEF IsPath, PathIn, Arrows
<1>2. ASSUME job.op \in {"walk", "briefs"}
      PROVE  /\ IsPath(job.steps)
             /\ job.steps # <<>> /\ job.left = 0 /\ Calm /\ Len(job.steps) <= Hops => Outgoing = {}
  <2>1. IsPath(job.steps)
    BY <1>1, <1>2 DEF Wandering
  <2>2. job.steps # <<>> /\ job.left = 0 /\ Len(job.steps) <= Hops => (Calm => Outgoing = {})
    BY <1>2, GraphAssumption DEF Wandering
  <2> QED
    BY <2>1, <2>2
<1>3. ASSUME job.op = "briefs"
      PROVE  Cardinality({Papers(job.out[i].walk) : i \in DOMAIN job.out}) = Len(job.out)
  <2> DEFINE n == Len(job.out)
             f == [i \in 1..n |-> Papers(job.out[i].walk)]
  <2>1. n \in Nat /\ DOMAIN job.out = 1..n
    BY <1>3 DEF Briefing
  <2>2. \A i, j \in 1..n : i # j => f[i] # f[j]
    BY <1>3, <2>1 DEF Briefing
  <2>3. f = [i \in 1..n |-> f[i]]
    OBVIOUS
  <2>4. {Papers(job.out[i].walk) : i \in DOMAIN job.out} = {f[i] : i \in 1..n}
    BY <2>1
  <2> HIDE DEF f, n
  <2>5. Cardinality({f[i] : i \in 1..n}) = n
    BY <2>1, <2>2, <2>3, AsManyValues
  <2> QED
    BY <2>4, <2>5 DEF n
<1>4. ASSUME job.op = "briefs", NEW i \in DOMAIN job.out
      PROVE  LET b == job.out[i]
                 walked == ToSet(Papers(b.walk))
             IN /\ IsPath(b.walk)
                /\ Cardinality(b.evidence) >= 2
                /\ b.evidence \subseteq walked \cap DOMAIN papers
                /\ walked \cap DOMAIN papers \subseteq b.evidence \cup since.papers
  BY <1>1, <1>4 DEF Briefing, BriefIs
<1> QED
  BY <1>2, <1>3, <1>4 DEF WalkIsPath

-----------------------------------------------------------------------------
(* Pictures.                                                                *)

LEMMA LeastNumber ==
  ASSUME NEW S \in SUBSET Nat, S # {}
  PROVE  \E m \in S : \A k \in S : m <= k
<1> DEFINE R == OpToRel(<, Nat)
<1>1. IsWellFoundedOn(R, Nat)
  BY NatLessThanWellFounded
<1>2. \A x, y \in Nat : x < y => <<x, y>> \in R
  BY DEF OpToRel
<1> HIDE DEF R
<1>3. PICK m \in S : \A k \in S : ~(<<k, m>> \in R)
  BY <1>1, WFMin
<1>4. ASSUME NEW k \in S PROVE m <= k
  <2>1. ~(k < m)
    BY <1>2, <1>3, Zenon
  <2> QED
    BY <2>1
<1> QED
  BY <1>4

LEMMA EveryNumber ==
  ASSUME NEW P, 0 \in P, \A k \in Nat : k \in P => k + 1 \in P
  PROVE  Nat \subseteq P
<1> DEFINE S == Nat \ P
<1>1. SUFFICES ASSUME S # {} PROVE FALSE
  OBVIOUS
<1>2. PICK m \in S : \A k \in S : m <= k
  BY <1>1, LeastNumber
<1>3. m \in Nat /\ m # 0 /\ m - 1 \in Nat /\ (m - 1) + 1 = m
  BY <1>2
<1>4. m - 1 \in P
  BY <1>2, <1>3
<1> QED
  BY <1>2, <1>3, <1>4

(* What n steps of a relation reach, of which each may also stay.           *)
Reach(R, s, n) ==
  {q \in Paper : \E f \in [0..n -> Paper] :
     /\ f[0] = s /\ f[n] = q
     /\ \A i \in 1..n : f[i] = f[i - 1] \/ <<f[i - 1], f[i]>> \in R}

LEMMA ReachBegins ==
  ASSUME NEW R, NEW s \in Paper
  PROVE  Reach(R, s, 0) = {s}
<1> DEFINE f == [i \in 0..0 |-> s]
<1>1. f \in [0..0 -> Paper] /\ f[0] = s
  OBVIOUS
<1> HIDE DEF f
<1>2. s \in Reach(R, s, 0)
  BY <1>1 DEF Reach
<1> QED
  BY <1>2 DEF Reach

LEMMA ReachGrows ==
  ASSUME NEW R, NEW s \in Paper, NEW n \in Nat
  PROVE  \A q : q \in Reach(R, s, n + 1)
           <=> q \in Reach(R, s, n) \/ (q \in Paper /\ \E r \in Reach(R, s, n) : <<r, q>> \in R)
<1>1. ASSUME NEW q \in Reach(R, s, n + 1)
      PROVE  q \in Reach(R, s, n) \/ \E r \in Reach(R, s, n) : <<r, q>> \in R
  <2>1. PICK f \in [0..(n + 1) -> Paper] :
          /\ f[0] = s /\ f[n + 1] = q
          /\ \A i \in 1..(n + 1) : f[i] = f[i - 1] \/ <<f[i - 1], f[i]>> \in R
    BY DEF Reach
  <2> DEFINE g == [i \in 0..n |-> f[i]]
  <2>2. g \in [0..n -> Paper] /\ g[0] = s /\ g[n] = f[n] /\ f[n] \in Paper
    BY <2>1
  <2>3. \A i \in 1..n : g[i] = g[i - 1] \/ <<g[i - 1], g[i]>> \in R
    BY <2>1
  <2> HIDE DEF g
  <2>4. f[n] \in Reach(R, s, n)
    BY <2>2, <2>3 DEF Reach
  <2>5. f[n + 1] = f[n] \/ <<f[n], f[n + 1]>> \in R
    <3>1. n + 1 \in 1..(n + 1) /\ (n + 1) - 1 = n
      OBVIOUS
    <3> QED
      BY <2>1, <3>1
  <2> QED
    BY <2>1, <2>4, <2>5
<1>2. ASSUME NEW r \in Reach(R, s, n), NEW q \in Paper, q = r \/ <<r, q>> \in R
      PROVE  q \in Reach(R, s, n + 1)
  <2>1. PICK f \in [0..n -> Paper] :
          /\ f[0] = s /\ f[n] = r
          /\ \A i \in 1..n : f[i] = f[i - 1] \/ <<f[i - 1], f[i]>> \in R
    BY DEF Reach
  <2> DEFINE g == [i \in 0..(n + 1) |-> IF i = n + 1 THEN q ELSE f[i]]
  <2>2. g \in [0..(n + 1) -> Paper] /\ g[0] = s /\ g[n + 1] = q /\ g[n] = r
    BY <2>1
  <2>3. ASSUME NEW i \in 1..(n + 1) PROVE g[i] = g[i - 1] \/ <<g[i - 1], g[i]>> \in R
    <3>1. CASE i = n + 1
      <4>1. i - 1 = n
        BY <3>1
      <4> HIDE DEF g
      <4> QED
        BY <1>2, <2>2, <3>1, <4>1
    <3>2. CASE i # n + 1
      BY <2>1, <3>2
    <3> QED
      BY <3>1, <3>2
  <2> HIDE DEF g
  <2> QED
    BY <2>2, <2>3 DEF Reach
<1>3. Reach(R, s, n) \subseteq Paper /\ Reach(R, s, n + 1) \subseteq Paper
  BY DEF Reach
<1> QED
  BY <1>1, <1>2, <1>3

LEMMA ReachFurther ==
  ASSUME NEW R, NEW s, NEW n \in Nat, NEW m \in Nat, n <= m
  PROVE  Reach(R, s, n) \subseteq Reach(R, s, m)
<1> SUFFICES ASSUME NEW q \in Reach(R, s, n) PROVE q \in Reach(R, s, m)
  OBVIOUS
<1>1. PICK f \in [0..n -> Paper] :
        /\ f[0] = s /\ f[n] = q
        /\ \A i \in 1..n : f[i] = f[i - 1] \/ <<f[i - 1], f[i]>> \in R
  BY DEF Reach
<1> DEFINE g == [i \in 0..m |-> IF i <= n THEN f[i] ELSE q]
<1>2. q \in Paper /\ g \in [0..m -> Paper] /\ g[0] = s /\ g[m] = q
  BY <1>1 DEF Reach
<1>3. ASSUME NEW i \in 1..m PROVE g[i] = g[i - 1] \/ <<g[i - 1], g[i]>> \in R
  <2>1. CASE i <= n
    BY <1>1, <2>1
  <2>2. CASE i > n
    BY <1>1, <2>2
  <2> QED
    BY <2>1, <2>2
<1> HIDE DEF g
<1> QED
  BY <1>2, <1>3 DEF Reach

(* The edges of a paper in a direction, and which papers they join: of the  *)
(* edges there are and the papers that are stored.  Near is the same as     *)
(* Within.                                                                  *)
EdgesAt(arrows, p, d) ==
  {e \in arrows : p \in {e[1], e[2]} /\ (d = "out" => e[1] = p) /\ (d = "in" => e[2] = p)}

JoinedBy(arrows, stored, d) ==
  {a \in Paper \X Paper :
     a[2] \in stored /\ \E e \in EdgesAt(arrows, a[1], d) : a[2] = Other(e, a[1])}

LEMMA NeighborsAre == \A p, d : Neighbors(p, d) = EdgesAt(edges, p, d)
<1> QED
  BY DEF Neighbors, ListEdges, EdgesAt

Joined == JoinedBy(edges, DOMAIN papers, job.asked.direction)

Near(n) == Reach(Joined, job.asked.seed, n)

LEMMA WithinIsNear ==
  ASSUME StoreTyped, job.asked.seed \in Paper
  PROVE  \A n \in Nat : Within(job.asked.seed, job.asked.direction)[n] = Near(n)
<1> DEFINE s == job.asked.seed
           d == job.asked.direction
           Next1(B) == B \cup {q \in DOMAIN papers : \E r \in B : \E e \in Neighbors(r, d) :
                                  q = Other(e, r)}
           Right(b) == b = [n \in Nat |-> IF n = 0 THEN {s} ELSE Next1(b[n - 1])]
           near == [n \in Nat |-> Near(n)]
           ball == CHOOSE b : Right(b)
<1>1. Near(0) = {s}
  BY ReachBegins DEF Near
<1>2. ASSUME NEW n \in Nat PROVE Near(n + 1) = Next1(Near(n))
  <2>1. \A q : q \in Near(n + 1)
          <=> q \in Near(n) \/ (q \in Paper /\ \E r \in Near(n) : <<r, q>> \in Joined)
    BY ReachGrows DEF Near
  <2>2. Near(n) \subseteq Paper
    BY DEF Near, Reach
  <2>3. ASSUME NEW r \in Paper, NEW q
        PROVE  q \in Paper /\ <<r, q>> \in Joined
                 <=> q \in DOMAIN papers /\ \E e \in Neighbors(r, d) : q = Other(e, r)
    BY NeighborsAre DEF Joined, JoinedBy, StoreTyped
  <2> QED
    BY <2>1, <2>2, <2>3
<1>3. Right(near)
  <2> SUFFICES ASSUME NEW n \in Nat
               PROVE  Near(n) = IF n = 0 THEN {s} ELSE Next1(near[n - 1])
    OBVIOUS
  <2>1. CASE n = 0
    BY <1>1, <2>1
  <2>2. CASE n # 0
    <3>1. n - 1 \in Nat /\ (n - 1) + 1 = n
      BY <2>2
    <3>2. near[n - 1] = Near(n - 1) /\ Near((n - 1) + 1) = Next1(Near(n - 1))
      BY <1>2, <3>1
    <3> HIDE DEF Next1, near
    <3> QED
      BY <2>2, <3>1, <3>2
  <2> QED
    BY <2>1, <2>2
<1>4. Right(ball)
  <2> HIDE DEF Right, near
  <2> QED
    BY <1>3
<1>5. Within(s, d) = ball
  BY DEF Within
<1> HIDE DEF ball, near
<1> DEFINE P == {n \in Nat : ball[n] = Near(n)}
<1>6. 0 \in P
  BY <1>1, <1>4
<1>7. ASSUME NEW k \in Nat, k \in P PROVE k + 1 \in P
  <2>1. k + 1 \in Nat /\ k + 1 # 0 /\ (k + 1) - 1 = k
    OBVIOUS
  <2> HIDE DEF Next1
  <2>2. ball[k + 1] = Next1(ball[k])
    BY <1>4, <2>1
  <2> QED
    BY <1>2, <1>7, <2>1, <2>2
<1>8. Nat \subseteq P
  <2> HIDE DEF P
  <2> QED
    BY <1>6, <1>7, EveryNumber
<1> QED
  BY <1>5, <1>8

(* A picture in the making: each paper that was seen has its distance, the  *)
(* papers that wait are in the order of theirs, and no paper is more than a *)
(* hop further than the one at work.                                        *)
PictureAsk ==
  [seed : Paper, depth : Nat, direction : {"out", "in", "both"}, max : Nat]

Drawing ==
  /\ {"asked", "hops", "queue", "current", "todo", "drawn"} \subseteq DOMAIN job
  /\ job.asked \in PictureAsk
  /\ Seen \subseteq DOMAIN papers /\ IsFiniteSet(Seen)
  /\ \A p \in Seen : job.hops[p] \in Nat
  /\ job.asked.seed \in Seen /\ job.hops[job.asked.seed] = 0
  /\ job.queue \in Seq(Paper) /\ \A i \in 1..Len(job.queue) : job.queue[i] \in Seen
  /\ job.current \in Seen
  /\ job.todo \subseteq Edge /\ job.drawn \subseteq Edge
  /\ \A e \in job.todo : job.current \in {e[1], e[2]}
  /\ job.todo # {} => ~Full(Seen) /\ job.hops[job.current] < job.asked.depth

NearestFirst ==
  /\ \A i \in 1..Len(job.queue) : job.hops[job.current] <= job.hops[job.queue[i]]
  /\ \A i, j \in 1..Len(job.queue) : i <= j => job.hops[job.queue[i]] <= job.hops[job.queue[j]]
  /\ \A p \in Seen : job.hops[p] <= job.hops[job.current] + 1

Joins(p) ==
  \/ p = job.asked.seed
  \/ /\ job.hops[p] <= job.asked.depth
     /\ \E e \in job.drawn : /\ Other(e, p) \in Seen
                             /\ p \in {e[1], e[2]}
                             /\ job.hops[Other(e, p)] = job.hops[p] - 1

(* PictureHangsTogether, of a request that is one.                          *)
Hanging ==
  /\ \A p \in Seen : Joins(p)
  /\ \A e \in job.drawn : \A p \in {e[1], e[2]} \cap DOMAIN papers : p \in Seen \cup since.papers
  /\ job.asked.max > 0 => Cardinality(Seen) <= job.asked.max

Picturing == job.op = "picture" => Drawing /\ NearestFirst /\ Hanging

(* What an edge's drawing has brought: its other end, if there is one.      *)
Surveyed(j, stored, p, e) ==
  /\ e \in j.drawn
  /\ Other(e, p) \in stored =>
       Other(e, p) \in DOMAIN j.hops /\ j.hops[Other(e, p)] <= j.hops[p] + 1

Waits(queue, p) == \E i \in 1..Len(queue) : queue[i] = p

(* Of a reader who is alone: the distances are upper bounds, every edge of  *)
(* a paper that has had its turn was drawn, no other one was, and all that  *)
(* is as near as the paper at work was seen.                                *)
Survey(j, arrows, stored) ==
  LET d == j.asked.direction
      near(n) == Reach(JoinedBy(arrows, stored, d), j.asked.seed, n)
      seen == DOMAIN j.hops
  IN /\ \A p \in seen : p \in near(j.hops[p])
     /\ j.todo \subseteq EdgesAt(arrows, j.current, d)
     /\ \A p \in seen : j.hops[p] < j.asked.depth /\ ~Waits(j.queue, p) =>
          \A e \in EdgesAt(arrows, p, d) :
            \/ Surveyed(j, stored, p, e)
            \/ p = j.current /\ (e \in j.todo \/ Cardinality(seen) >= j.asked.max)
     /\ \A e \in j.drawn : \E p \in seen :
          j.hops[p] < j.asked.depth /\ e \in EdgesAt(arrows, p, d)
     /\ \A p \in near(j.hops[j.current]) : p \in seen /\ j.hops[p] <= j.hops[j.current]

Surveying == job.op = "picture" /\ Calm => Survey(job, edges, DOMAIN papers)

LEMMA OtherEnd ==
  ASSUME NEW e \in Edge, NEW p \in {e[1], e[2]}
  PROVE  /\ Other(e, p) \in {e[1], e[2]} /\ Other(e, p) \in Paper /\ p \in Paper
         /\ Other(e, Other(e, p)) = p
         /\ {e[1], e[2]} = {p, Other(e, p)}
<1> QED
  BY DEF Edge, Other

(* The steps.                                                               *)
LEMMA AskPictureIs ==
  ASSUME StoreTyped, NEW q \in Asked, AskPicture(q)
  PROVE  /\ UNCHANGED <<papers, edges>>
         /\ job'.op = "picture" /\ Drawing' /\ NearestFirst' /\ Hanging'
         /\ Seen' = {job'.asked.seed} /\ job'.current = job'.asked.seed
         /\ job'.todo = {} /\ job'.drawn = {}
         /\ Len(job'.queue) = 1 /\ job'.queue[1] = job'.asked.seed
<1>1. PICK seed \in Seeds(q) :
        Begin([op |-> "picture", asked |-> [q EXCEPT !.seed = seed], hops |-> With(<<>>, seed, 0),
               queue |-> <<seed>>, current |-> seed, todo |-> {}, drawn |-> {}])
  BY DEF AskPicture
<1>2. seed \in DOMAIN papers /\ seed \in Paper
  BY DEF Seeds, Hits, StoreTyped
<1>3. q \in [seed : Paper \cup {Nothing}, depth : Nat,
             direction : {"out", "in", "both"}, max : Nat]
  BY GraphAssumption
<1> DEFINE a == [q EXCEPT !.seed = seed]
           h == With(<<>>, seed, 0)
<1>4. a \in PictureAsk /\ a.seed = seed
  BY <1>2, <1>3 DEF PictureAsk
<1>5. DOMAIN h = {seed} /\ h[seed] = 0
  BY DEF With
<1>6. <<seed>> \in Seq(Paper) /\ Len(<<seed>>) = 1 /\ <<seed>>[1] = seed
  BY <1>2
<1>7. job' = [op |-> "picture", asked |-> a, hops |-> h,
              queue |-> <<seed>>, current |-> seed, todo |-> {}, drawn |-> {}]
  BY <1>1 DEF Begin
<1>8. UNCHANGED <<papers, edges>>
  BY <1>1 DEF Begin
<1> DEFINE l == <<seed>>
<1> HIDE DEF a, h, l
<1>9. /\ job'.op = "picture" /\ job'.asked = a /\ job'.hops = h /\ job'.queue = l
      /\ job'.current = seed /\ job'.todo = {} /\ job'.drawn = {}
      /\ {"asked", "hops", "queue", "current", "todo", "drawn"} \subseteq DOMAIN job'
  BY <1>7 DEF l
<1>10. l \in Seq(Paper) /\ Len(l) = 1 /\ l[1] = seed
  BY <1>6 DEF l
<1>11. IsFiniteSet({seed}) /\ Cardinality({seed}) = 1
  BY FS_Singleton
<1>12. \A i \in 1..Len(l) : l[i] = seed
  BY <1>10
<1>13. Seen' = {seed}
  BY <1>5, <1>9 DEF Seen
<1>14. Drawing'
  BY <1>2, <1>4, <1>5, <1>8, <1>9, <1>10, <1>11, <1>12, <1>13 DEF Drawing
<1>15. NearestFirst'
  BY <1>5, <1>9, <1>10, <1>12, <1>13 DEF NearestFirst
<1>16. Hanging'
  <2>1. a.max \in Nat
    BY <1>4 DEF PictureAsk
  <2> QED
    BY <1>4, <1>9, <1>11, <1>13, <2>1 DEF Hanging, Joins
<1> QED
  BY <1>4, <1>8, <1>9, <1>10, <1>13, <1>14, <1>15, <1>16

LEMMA PopIs ==
  ASSUME StoreTyped, Drawing, Pop
  PROVE  /\ UNCHANGED <<papers, edges, since>>
         /\ job.op = "picture" /\ DOMAIN job' = DOMAIN job /\ job'.op = "picture"
         /\ job'.asked = job.asked /\ job'.hops = job.hops /\ job'.drawn = job.drawn
         /\ Seen' = Seen /\ (Full(Seen)' <=> Full(Seen)) /\ ~Full(Seen) /\ job.todo = {}
         /\ Len(job.queue) > 0 /\ job'.queue \in Seq(Paper)
         /\ Len(job'.queue) = Len(job.queue) - 1
         /\ \A i \in 1..Len(job'.queue) : job'.queue[i] = job.queue[i + 1]
         /\ job'.current = job.queue[1] /\ job'.current \in Seen
         /\ job'.todo = Expanding(job'.current)
<1> DEFINE s == job.queue
<1>1. s \in Seq(Paper) /\ s # <<>>
  BY DEF Pop, Drawing
<1>2. /\ Len(s) > 0 /\ Tail(s) \in Seq(Paper) /\ Len(Tail(s)) = Len(s) - 1 /\ Head(s) = s[1]
      /\ \A i \in 1..Len(Tail(s)) : Tail(s)[i] = s[i + 1]
  BY <1>1
<1>3. /\ UNCHANGED <<papers, edges, since>> /\ job.op = "picture" /\ DOMAIN job' = DOMAIN job
      /\ job'.op = "picture"
      /\ job'.asked = job.asked /\ job'.hops = job.hops /\ job'.drawn = job.drawn
      /\ job'.queue = Tail(s) /\ job'.current = Head(s) /\ job'.todo = Expanding(Head(s))
      /\ ~Full(Seen) /\ job.todo = {}
  BY DEF Pop, Go, Drawing
<1>4. Seen' = Seen /\ (Full(Seen)' <=> Full(Seen))
  BY <1>3 DEF Seen, Full
<1>5. s[1] \in Seen
  BY <1>1, <1>2 DEF Drawing
<1> HIDE DEF s
<1> QED
  BY <1>2, <1>3, <1>4, <1>5 DEF s

LEMMA DrawIs ==
  ASSUME StoreTyped, Drawing, NEW e \in Edge, Draw(e)
  PROVE  LET p == Other(e, job.current)
         IN /\ UNCHANGED <<papers, edges, since>>
            /\ job.op = "picture" /\ DOMAIN job' = DOMAIN job /\ job'.op = "picture"
            /\ job'.asked = job.asked /\ job'.current = job.current
            /\ job'.drawn = job.drawn \cup {e} /\ e \in job.todo
            /\ \/ /\ p \in Seen \/ p \notin DOMAIN papers
                  /\ job'.hops = job.hops /\ job'.queue = job.queue
                  /\ job'.todo = job.todo \ {e}
               \/ /\ p \notin Seen /\ p \in DOMAIN papers
                  /\ job'.hops = With(job.hops, p, job.hops[job.current] + 1)
                  /\ job'.queue = Append(job.queue, p)
                  /\ job'.todo \subseteq job.todo \ {e}
                  /\ Full(Seen)' => job'.todo = {}
                  /\ ~Full(Seen)' => job'.todo = job.todo \ {e}
<1> DEFINE p == Other(e, job.current)
           drawn == [job EXCEPT !.drawn = @ \cup {e}, !.todo = @ \ {e}]
<1>1. job.op = "picture" /\ e \in job.todo
  BY DEF Draw
<1>2. CASE p \in Seen \/ p \notin DOMAIN papers
  <2>1. Go(drawn)
    BY <1>2 DEF Draw
  <2> QED
    BY <1>1, <1>2, <2>1 DEF Go, Drawing
<1>3. CASE p \notin Seen /\ p \in DOMAIN papers
  <2>1. Go([drawn EXCEPT !.hops = With(@, p, job.hops[job.current] + 1),
                         !.queue = Append(@, p),
                         !.todo = IF Full(Seen \cup {p}) THEN {} ELSE @])
    BY <1>3 DEF Draw
  <2>2. /\ UNCHANGED <<papers, edges, since>>
        /\ DOMAIN job' = DOMAIN job /\ job'.op = "picture"
        /\ job'.asked = job.asked /\ job'.current = job.current
        /\ job'.drawn = job.drawn \cup {e}
        /\ job'.hops = With(job.hops, p, job.hops[job.current] + 1)
        /\ job'.queue = Append(job.queue, p)
        /\ job'.todo = IF Full(Seen \cup {p}) THEN {} ELSE job.todo \ {e}
    BY <1>1, <2>1 DEF Go, Drawing
  <2>3. Seen' = Seen \cup {p}
    BY <2>2 DEF Seen, With
  <2>4. Full(Seen)' <=> Full(Seen \cup {p})
    BY <2>2, <2>3 DEF Full
  <2> QED
    BY <1>1, <1>3, <2>2, <2>4
<1> QED
  BY <1>2, <1>3


LEMMA DrawSees ==
  ASSUME StoreTyped, Drawing, NEW e \in Edge, Draw(e)
  PROVE  LET p == Other(e, job.current)
         IN /\ Seen \subseteq Seen' /\ Seen' \subseteq Seen \cup {p}
            /\ \A r \in Seen : job'.hops[r] = job.hops[r]
            /\ p \in DOMAIN papers => p \in Seen'
            /\ p \in Seen' \ Seen => job'.hops[p] = job.hops[job.current] + 1
            /\ p \in Paper
            /\ ~Full(Seen) /\ job.hops[job.current] < job.asked.depth
<1> DEFINE p == Other(e, job.current)
<1>1. CASE p \in Seen \/ p \notin DOMAIN papers
  <2>1. job'.hops = job.hops
    BY <1>1, DrawIs DEF Drawing
  <2>2. Seen' = Seen
    BY <2>1 DEF Seen
  <2>3. p \in DOMAIN papers => p \in Seen
    BY <1>1
  <2>4. e \in job.todo
    BY DrawIs
  <2>5. p \in Paper /\ ~Full(Seen) /\ job.hops[job.current] < job.asked.depth
    BY <2>4, OtherEnd DEF Drawing
  <2> HIDE DEF p
  <2> QED
    BY <2>1, <2>2, <2>3, <2>5 DEF p
<1>2. CASE p \notin Seen /\ p \in DOMAIN papers
  <2>1. job'.hops = With(job.hops, p, job.hops[job.current] + 1)
    BY <1>2, DrawIs
  <2>2. Seen' = Seen \cup {p} /\ job'.hops[p] = job.hops[job.current] + 1
        /\ \A r \in Seen : r # p => job'.hops[r] = job.hops[r]
    BY <2>1 DEF Seen, With
  <2>4. e \in job.todo
    BY DrawIs
  <2>5. p \in Paper /\ ~Full(Seen) /\ job.hops[job.current] < job.asked.depth
    BY <2>4, OtherEnd DEF Drawing
  <2> HIDE DEF p
  <2> QED
    BY <1>2, <2>2, <2>5 DEF p
<1> QED
  BY <1>1, <1>2

(* The shape of a picture, whatever is written meanwhile.                   *)
LEMMA PicturingPop ==
  ASSUME StoreTyped, Drawing, NearestFirst, Hanging, Pop
  PROVE  Drawing' /\ NearestFirst' /\ Hanging'
<1> DEFINE c == job'.current
           n == Len(job.queue)
<1>1. /\ UNCHANGED <<papers, edges, since>>
      /\ job.op = "picture" /\ DOMAIN job' = DOMAIN job
      /\ job'.asked = job.asked /\ job'.hops = job.hops /\ job'.drawn = job.drawn
      /\ Seen' = Seen /\ (Full(Seen)' <=> Full(Seen)) /\ ~Full(Seen)
      /\ n > 0 /\ job'.queue \in Seq(Paper) /\ Len(job'.queue) = n - 1
      /\ \A i \in 1..Len(job'.queue) : job'.queue[i] = job.queue[i + 1]
      /\ c = job.queue[1] /\ c \in Seen
      /\ job'.todo = Expanding(c)
  BY PopIs
<1>2. n \in Nat
  BY DEF Drawing
<1> HIDE DEF n
<1>3. \A i \in 1..Len(job'.queue) : job'.queue[i] \in Seen
  BY <1>1, <1>2 DEF Drawing, n
<1>4. Drawing'
  <2>1. job'.todo \subseteq Edge /\ \A e \in job'.todo : c \in {e[1], e[2]}
    BY <1>1 DEF Expanding, Neighbors, ListEdges, StoreTyped
  <2>2. job'.todo # {} => job.hops[c] < job.asked.depth
    BY <1>1 DEF Expanding, Drawing, PictureAsk
  <2> HIDE DEF c
  <2> QED
    BY <1>1, <1>3, <2>1, <2>2 DEF Drawing, c
<1>5. NearestFirst'
  <2>1. \A i \in 1..Len(job'.queue) : job.hops[c] <= job.hops[job'.queue[i]]
    <3>1. \A i \in 1..Len(job'.queue) : 1 \in 1..n /\ i + 1 \in 1..n /\ 1 <= i + 1
      BY <1>1, <1>2
    <3> QED
      BY <1>1, <3>1 DEF NearestFirst, n
  <2>2. \A i, j \in 1..Len(job'.queue) :
          i <= j => job.hops[job'.queue[i]] <= job.hops[job'.queue[j]]
    <3>1. \A i \in 1..Len(job'.queue) : i + 1 \in 1..n
      BY <1>1, <1>2
    <3>2. \A i, j \in 1..Len(job'.queue) : i <= j => i + 1 <= j + 1
      BY <1>1, <1>2
    <3> QED
      BY <1>1, <3>1, <3>2 DEF NearestFirst, n
  <2>3. \A p \in Seen : job.hops[p] <= job.hops[c] + 1
    <3>1. job.hops[job.current] <= job.hops[c]
      BY <1>1, <1>2 DEF NearestFirst, n
    <3>2. job.hops[job.current] \in Nat /\ job.hops[c] \in Nat
      BY <1>1 DEF Drawing
    <3> SUFFICES ASSUME NEW p \in Seen PROVE job.hops[p] <= job.hops[c] + 1
      OBVIOUS
    <3>3. job.hops[p] \in Nat /\ job.hops[p] <= job.hops[job.current] + 1
      BY DEF Drawing, NearestFirst
    <3> HIDE DEF c
    <3> QED
      BY <3>1, <3>2, <3>3
  <2> HIDE DEF c
  <2> QED
    BY <1>1, <2>1, <2>2, <2>3 DEF NearestFirst, c
<1>6. Hanging'
  <2>1. job'.asked = job.asked /\ job'.hops = job.hops /\ job'.drawn = job.drawn
        /\ Seen' = Seen /\ UNCHANGED <<papers, since>>
    BY <1>1
  <2> HIDE DEF c
  <2> QED
    BY <2>1 DEF Hanging, Joins
<1> QED
  BY <1>4, <1>5, <1>6

LEMMA PicturingDraw ==
  ASSUME StoreTyped, Drawing, NearestFirst, Hanging, NEW e \in Edge, Draw(e)
  PROVE  Drawing' /\ NearestFirst' /\ Hanging'
<1> DEFINE c == job.current
           p == Other(e, c)
           s == job.queue
<1>1. /\ UNCHANGED <<papers, edges, since>>
      /\ job.op = "picture" /\ DOMAIN job' = DOMAIN job
      /\ job'.asked = job.asked /\ job'.current = c
      /\ job'.drawn = job.drawn \cup {e} /\ e \in job.todo
      /\ job'.todo \subseteq job.todo
  BY DrawIs
<1>2. /\ Seen \subseteq Seen' /\ Seen' \subseteq Seen \cup {p}
      /\ \A r \in Seen : job'.hops[r] = job.hops[r]
      /\ p \in DOMAIN papers => p \in Seen'
      /\ p \in Seen' \ Seen => job'.hops[p] = job.hops[c] + 1
      /\ p \in Paper
      /\ ~Full(Seen) /\ job.hops[c] < job.asked.depth
  BY DrawSees
<1>3. c \in {e[1], e[2]} /\ c \in Paper /\ Other(e, p) = c /\ p \in {e[1], e[2]}
      /\ {e[1], e[2]} = {c, p}
  BY <1>1, OtherEnd DEF Drawing
<1>4. c \in Seen /\ job.hops[c] \in Nat /\ job.asked.depth \in Nat /\ job.asked.max \in Nat
  BY DEF Drawing, PictureAsk
<1> HIDE DEF p
<1>5. \A r \in Seen' : job'.hops[r] \in Nat /\ job'.hops[r] <= job.hops[c] + 1
  <2> SUFFICES ASSUME NEW r \in Seen' PROVE job'.hops[r] \in Nat /\ job'.hops[r] <= job.hops[c] + 1
    OBVIOUS
  <2>1. CASE r \in Seen
    BY <1>2, <2>1 DEF Drawing, NearestFirst
  <2>2. CASE r \notin Seen
    BY <1>2, <1>4, <2>2
  <2> QED
    BY <2>1, <2>2
<1>6. \/ job'.queue = s
      \/ job'.queue = Append(s, p) /\ p \in Seen' \ Seen
  <2>1. \/ job'.queue = s
        \/ /\ job'.queue = Append(s, p) /\ p \notin Seen
           /\ p \in DOMAIN papers
    BY DrawIs DEF p
  <2> QED
    BY <1>2, <2>1
<1>7. /\ job'.queue \in Seq(Paper)
      /\ \A i \in 1..Len(job'.queue) : job'.queue[i] \in Seen'
      /\ \A i \in 1..Len(job'.queue) : job.hops[c] <= job'.hops[job'.queue[i]]
      /\ \A i, j \in 1..Len(job'.queue) :
           i <= j => job'.hops[job'.queue[i]] <= job'.hops[job'.queue[j]]
  <2>1. /\ s \in Seq(Paper) /\ Len(s) \in Nat
        /\ \A i \in 1..Len(s) : s[i] \in Seen /\ s[i] \in Seen' /\ job'.hops[s[i]] = job.hops[s[i]]
        /\ \A i \in 1..Len(s) : job.hops[c] <= job'.hops[s[i]]
        /\ \A i, j \in 1..Len(s) : i <= j => job'.hops[s[i]] <= job'.hops[s[j]]
    <3>1. \A i \in 1..Len(s) : s[i] \in Seen /\ s[i] \in Seen' /\ job'.hops[s[i]] = job.hops[s[i]]
      BY <1>2 DEF Drawing
    <3> QED
      BY <3>1 DEF Drawing, NearestFirst
  <2>2. CASE job'.queue = s
    BY <2>1, <2>2
  <2>3. CASE job'.queue = Append(s, p) /\ p \in Seen' \ Seen
    <3>1. /\ Append(s, p) \in Seq(Paper) /\ Len(Append(s, p)) = Len(s) + 1
          /\ \A i \in 1..Len(s) : Append(s, p)[i] = s[i]
          /\ Append(s, p)[Len(s) + 1] = p
      BY <1>2, <2>1
    <3>2. job'.hops[p] = job.hops[c] + 1
      BY <1>2, <2>3
    <3>3. \A i \in 1..Len(s) : job'.hops[s[i]] \in Nat /\ job'.hops[s[i]] <= job'.hops[p]
      BY <1>5, <2>1, <3>2
    <3> DEFINE t == Append(s, p)
               n == Len(s)
    <3> HIDE DEF t, n, s, c
    <3>4. /\ t \in Seq(Paper) /\ Len(t) = n + 1 /\ t[n + 1] = p /\ n \in Nat
          /\ \A i \in 1..n : t[i] = s[i]
      BY <2>1, <3>1 DEF t, n
    <3>5. \A i \in 1..(n + 1) : t[i] \in Seen' /\ job.hops[c] <= job'.hops[t[i]]
      <4> SUFFICES ASSUME NEW i \in 1..(n + 1)
                   PROVE  t[i] \in Seen' /\ job.hops[c] <= job'.hops[t[i]]
        OBVIOUS
      <4>1. CASE i = n + 1
        BY <1>4, <2>3, <3>2, <3>4, <4>1
      <4>2. CASE i # n + 1
        <5>1. i \in 1..n
          BY <3>4, <4>2
        <5> QED
          BY <2>1, <3>4, <5>1 DEF n
      <4> QED
        BY <4>1, <4>2
    <3>6. \A i, j \in 1..(n + 1) : i <= j => job'.hops[t[i]] <= job'.hops[t[j]]
      <4> SUFFICES ASSUME NEW i \in 1..(n + 1), NEW j \in 1..(n + 1), i <= j
                   PROVE  job'.hops[t[i]] <= job'.hops[t[j]]
        OBVIOUS
      <4>1. CASE i = n + 1
        <5>1. j = n + 1
          BY <3>4, <4>1
        <5> QED
          BY <1>4, <3>2, <3>4, <4>1, <5>1
      <4>2. CASE i # n + 1 /\ j = n + 1
        <5>1. i \in 1..n
          BY <3>4, <4>2
        <5> QED
          BY <3>3, <3>4, <4>2, <5>1 DEF n
      <4>3. CASE i # n + 1 /\ j # n + 1
        <5>1. i \in 1..n /\ j \in 1..n
          BY <3>4, <4>3
        <5> QED
          BY <2>1, <3>4, <5>1 DEF n
      <4> QED
        BY <4>1, <4>2, <4>3
    <3>7. job'.queue = t
      BY <2>3 DEF t
    <3> QED
      BY <3>4, <3>5, <3>6, <3>7
  <2> QED
    BY <1>6, <2>2, <2>3
<1>8. IsFiniteSet(Seen') /\ (job.asked.max > 0 => Cardinality(Seen') <= job.asked.max)
  <2>1. IsFiniteSet(Seen) /\ Cardinality(Seen) \in Nat /\ Cardinality(Seen) < job.asked.max
    BY <1>2, <1>4, FS_CardinalityType DEF Drawing, Full
  <2>2. Seen' = Seen \/ (Seen' = Seen \cup {p} /\ p \notin Seen)
    BY <1>2
  <2>3. p \notin Seen => /\ IsFiniteSet(Seen \cup {p})
                         /\ Cardinality(Seen \cup {p}) = Cardinality(Seen) + 1
    BY <2>1, FS_AddElement
  <2> QED
    BY <1>4, <2>1, <2>2, <2>3
<1>9. job'.todo # {} => ~Full(Seen)'
  <2>1. \/ job'.hops = job.hops
        \/ Full(Seen)' => job'.todo = {}
    BY DrawIs
  <2>2. job'.hops = job.hops => (Full(Seen)' <=> Full(Seen))
    BY <1>1 DEF Full, Seen
  <2> QED
    BY <1>2, <2>1, <2>2
<1>10. Seen' \subseteq DOMAIN papers
  <2>1. \/ job'.hops = job.hops
        \/ p \in DOMAIN papers
    BY DrawIs DEF p
  <2>2. job'.hops = job.hops => Seen' = Seen
    BY DEF Seen
  <2> QED
    BY <1>2, <2>1, <2>2 DEF Drawing
<1>11. Drawing'
  <2>1. {"asked", "hops", "queue", "current", "todo", "drawn"} \subseteq DOMAIN job'
        /\ job'.asked \in PictureAsk /\ job'.asked.seed \in Seen'
        /\ job'.hops[job'.asked.seed] = 0 /\ job'.current \in Seen'
        /\ job'.todo \subseteq Edge /\ job'.drawn \subseteq Edge
        /\ \A f \in job'.todo : c \in {f[1], f[2]}
    BY <1>1, <1>2 DEF Drawing
  <2>2. job'.hops[job'.current] < job'.asked.depth
    BY <1>1, <1>2, <1>4
  <2> QED
    BY <1>1, <1>5, <1>7, <1>8, <1>9, <1>10, <2>1, <2>2 DEF Drawing
<1>12. NearestFirst'
  <2>1. job'.hops[job'.current] = job.hops[c]
    BY <1>1, <1>2, <1>4
  <2> QED
    BY <1>5, <1>7, <2>1 DEF NearestFirst
<1>13. Hanging'
  <2>1. ASSUME NEW r \in Seen' PROVE Joins(r)'
    <3>1. CASE r \in Seen
      <4>1. Joins(r)
        BY <3>1 DEF Hanging
      <4>2. CASE r = job.asked.seed
        BY <1>1, <4>2 DEF Joins
      <4>3. ASSUME NEW f \in job.drawn, Other(f, r) \in Seen, r \in {f[1], f[2]},
                   job.hops[Other(f, r)] = job.hops[r] - 1, job.hops[r] <= job.asked.depth
            PROVE  Joins(r)'
        <5>1. f \in job'.drawn /\ Other(f, r) \in Seen'
              /\ job'.hops[Other(f, r)] = job'.hops[r] - 1 /\ job'.hops[r] <= job'.asked.depth
          BY <1>1, <1>2, <3>1, <4>3
        <5> QED
          BY <4>3, <5>1 DEF Joins
      <4> QED
        BY <4>1, <4>2, <4>3 DEF Joins
    <3>2. CASE r \notin Seen
      <4>1. r = p /\ job'.hops[r] = job.hops[c] + 1
        BY <1>2, <3>2
      <4>2. /\ e \in job'.drawn /\ Other(e, r) = c /\ c \in Seen' /\ r \in {e[1], e[2]}
            /\ job'.hops[c] = job.hops[c] /\ job'.asked = job.asked
        BY <1>1, <1>2, <1>3, <1>4, <4>1
      <4>3. job'.hops[r] <= job'.asked.depth /\ job'.hops[Other(e, r)] = job'.hops[r] - 1
        BY <1>2, <1>4, <4>1, <4>2
      <4> QED
        BY <4>2, <4>3 DEF Joins
    <3> QED
      BY <3>1, <3>2
  <2>2. ASSUME NEW f \in job'.drawn, NEW r \in {f[1], f[2]} \cap DOMAIN papers
        PROVE  r \in Seen' \cup since.papers
    <3>1. CASE f \in job.drawn
      BY <1>2, <2>2, <3>1 DEF Hanging
    <3>2. CASE f = e
      BY <1>2, <1>3, <1>4, <2>2, <3>2
    <3> QED
      BY <1>1, <3>1, <3>2
  <2> QED
    BY <1>1, <1>8, <2>1, <2>2 DEF Hanging
<1> QED
  BY <1>11, <1>12, <1>13

LEMMA PicturingStep ==
  ASSUME StoreTyped, Picturing, [Next]_vars
  PROVE  Picturing'
<1> SUFFICES ASSUME job'.op = "picture" PROVE Drawing' /\ NearestFirst' /\ Hanging'
  BY DEF Picturing
<1>1. CASE UNCHANGED vars
  BY <1>1 DEF vars, Picturing, Drawing, NearestFirst, Hanging, Joins, Seen, Full
<1>2. CASE Written
  <2>1. /\ job' = job /\ DOMAIN papers \subseteq DOMAIN papers'
        /\ since.papers \subseteq since'.papers
        /\ \A p \in DOMAIN papers' \ since'.papers : p \in DOMAIN papers
    BY <1>2, WriteStep
  <2>2. Seen' = Seen /\ (Full(Seen)' <=> Full(Seen))
    BY <2>1 DEF Seen, Full
  <2>3. Drawing /\ NearestFirst /\ Hanging
    BY <2>1 DEF Picturing
  <2>4. Drawing' /\ NearestFirst'
    BY <2>1, <2>2, <2>3 DEF Drawing, NearestFirst
  <2>5. \A p \in Seen' : Joins(p)'
    BY <2>1, <2>2, <2>3 DEF Hanging, Joins
  <2> QED
    BY <2>1, <2>2, <2>3, <2>4, <2>5 DEF Hanging
<1>3. CASE Read
  <2>1. CASE \E q \in Asked : AskPicture(q)
    BY <2>1, AskPictureIs
  <2>2. CASE Pop
    <3>1. job.op = "picture"
      BY <2>2 DEF Pop
    <3> QED
      BY <2>2, <3>1, PicturingPop DEF Picturing
  <2>3. ASSUME NEW e \in Edge, Draw(e) PROVE Drawing' /\ NearestFirst' /\ Hanging'
    <3>1. job.op = "picture"
      BY <2>3 DEF Draw
    <3> QED
      BY <2>3, <3>1, PicturingDraw DEF Picturing
  <2> QED
    BY <1>3, <2>1, <2>2, <2>3, OpStep DEF Pictures
<1> QED
  BY <1>1, <1>2, <1>3 DEF Next, Written

(* The neighbourhood of a reader who is alone.                              *)
LEMMA SurveyingPop ==
  ASSUME StoreTyped, Drawing, NearestFirst, Hanging, Pop,
         Survey(job, edges, DOMAIN papers)
  PROVE  Survey(job', edges, DOMAIN papers)
<1> DEFINE j == job'
           c == j.current
           d == job.asked.direction
           n == Len(job.queue)
           stored == DOMAIN papers
           near(k) == Reach(JoinedBy(edges, stored, d), job.asked.seed, k)
<1>1. /\ j.asked = job.asked /\ j.hops = job.hops /\ j.drawn = job.drawn
      /\ ~(Cardinality(Seen) >= job.asked.max) /\ job.todo = {}
      /\ n > 0 /\ Len(j.queue) = n - 1
      /\ \A i \in 1..Len(j.queue) : j.queue[i] = job.queue[i + 1]
      /\ c = job.queue[1] /\ c \in Seen
      /\ j.todo = IF job.hops[c] >= job.asked.depth THEN {} ELSE EdgesAt(edges, c, d)
  <2>1. Expanding(c) = IF job.hops[c] >= job.asked.depth THEN {} ELSE EdgesAt(edges, c, d)
    BY NeighborsAre DEF Expanding
  <2> HIDE DEF c, n, j, d
  <2> QED
    BY <2>1, PopIs DEF c, n, j, Full
<1>2. /\ n \in Nat /\ job.hops[c] \in Nat /\ job.asked.depth \in Nat
      /\ job.current \in Seen /\ job.hops[job.current] \in Nat /\ job.asked.seed \in Paper
  BY <1>1 DEF Drawing, PictureAsk
<1> HIDE DEF n, c, j
<1>3. /\ \A p \in Seen : p \in near(job.hops[p])
      /\ \A p \in Seen : job.hops[p] < job.asked.depth /\ ~Waits(job.queue, p) =>
           \A e \in EdgesAt(edges, p, d) : Surveyed(job, stored, p, e)
      /\ \A e \in job.drawn : \E p \in Seen :
           job.hops[p] < job.asked.depth /\ e \in EdgesAt(edges, p, d)
      /\ \A p \in near(job.hops[job.current]) :
           p \in Seen /\ job.hops[p] <= job.hops[job.current]
  BY <1>1 DEF Survey, Seen
<1>4. ASSUME NEW p \in Seen, ~Waits(j.queue, p), p # c
      PROVE  ~Waits(job.queue, p)
  <2> SUFFICES ASSUME NEW i \in 1..n, job.queue[i] = p PROVE FALSE
    BY DEF Waits, n
  <2>1. i # 1
    BY <1>1, <1>4
  <2>2. i - 1 \in 1..Len(j.queue) /\ (i - 1) + 1 = i
    BY <1>1, <1>2, <2>1
  <2>3. j.queue[i - 1] = p
    BY <1>1, <2>2
  <2> QED
    BY <1>4, <2>2, <2>3 DEF Waits
<1>5. \A p, e : Surveyed(j, stored, p, e) <=> Surveyed(job, stored, p, e)
  BY <1>1 DEF Surveyed
<1>6. ASSUME NEW p \in Seen, job.hops[p] < job.asked.depth, ~Waits(j.queue, p),
             NEW e \in EdgesAt(edges, p, d)
      PROVE  Surveyed(j, stored, p, e) \/ (p = c /\ e \in j.todo)
  <2>1. CASE p = c
    <3>1. j.todo = EdgesAt(edges, c, d)
      BY <1>1, <1>2, <1>6, <2>1
    <3> QED
      BY <1>6, <2>1, <3>1
  <2>2. CASE p # c
    BY <1>3, <1>4, <1>5, <1>6, <2>2
  <2> QED
    BY <2>1, <2>2
<1>7. ASSUME NEW p \in near(job.hops[c])
      PROVE  p \in Seen /\ job.hops[p] <= job.hops[c]
  <2> DEFINE h == job.hops[job.current]
  <2>1. h <= job.hops[c] /\ job.hops[c] <= h + 1 /\ job.hops[c] <= job.asked.depth
    <3>1. h <= job.hops[c] /\ job.hops[c] <= h + 1
      BY <1>1, <1>2 DEF NearestFirst, n
    <3>2. job.hops[c] <= job.asked.depth
      BY <1>1, <1>2 DEF Hanging, Joins, Drawing
    <3> QED
      BY <3>1, <3>2
  <2>2. CASE job.hops[c] = h
    BY <1>3, <1>7, <2>2
  <2>3. CASE job.hops[c] = h + 1
    <3>1. p \in near(h) \/ \E r \in near(h) : <<r, p>> \in JoinedBy(edges, stored, d)
      <4> DEFINE J == JoinedBy(edges, stored, d)
                 seed == job.asked.seed
      <4>1. h \in Nat /\ seed \in Paper /\ p \in Reach(J, seed, h + 1)
        BY <1>2, <1>7, <2>3
      <4> HIDE DEF h, J, seed
      <4>2. p \in Reach(J, seed, h) \/ \E r \in Reach(J, seed, h) : <<r, p>> \in J
        BY <4>1, ReachGrows
      <4> QED
        BY <4>2 DEF J, seed
    <3> HIDE DEF near
    <3>2. CASE p \in near(h)
      <4>1. p \in Seen /\ job.hops[p] <= h /\ job.hops[p] \in Nat
        BY <1>3, <3>2 DEF Drawing
      <4> QED
        BY <1>2, <2>3, <4>1
    <3>3. CASE p \notin near(h)
      <4>1. PICK r \in near(h) : <<r, p>> \in JoinedBy(edges, stored, d)
        BY <3>1, <3>3
      <4>2. PICK e \in EdgesAt(edges, r, d) : p = Other(e, r)
        BY <4>1 DEF JoinedBy
      <4>3. p \in stored
        BY <4>1 DEF JoinedBy
      <4>4. r \in Seen /\ job.hops[r] <= h /\ job.hops[r] \in Nat
        BY <1>3 DEF Drawing
      <4>5. ~Waits(job.queue, r)
        <5> SUFFICES ASSUME NEW i \in 1..n, job.queue[i] = r PROVE FALSE
          BY DEF Waits, n
        <5>1. 1 \in 1..n /\ 1 <= i
          BY <1>1, <1>2
        <5>2. job.hops[c] <= job.hops[r]
          BY <1>1, <5>1 DEF NearestFirst, n
        <5> QED
          BY <1>2, <2>3, <4>4, <5>2
      <4>6. job.hops[r] < job.asked.depth
        BY <1>2, <2>1, <2>3, <4>4
      <4>7. Surveyed(job, stored, r, e)
        BY <1>3, <4>2, <4>4, <4>5, <4>6
      <4>8. p \in Seen /\ job.hops[p] <= job.hops[r] + 1
        BY <4>2, <4>3, <4>7 DEF Surveyed, Seen
      <4>9. job.hops[p] \in Nat
        BY <4>8 DEF Drawing
      <4> QED
        BY <1>2, <2>3, <4>4, <4>8, <4>9
    <3> QED
      BY <3>2, <3>3
  <2> QED
    BY <1>2, <2>1, <2>2, <2>3
<1>8. j.todo \subseteq EdgesAt(edges, c, d)
  BY <1>1
<1> HIDE DEF stored
<1> QED
  BY <1>1, <1>3, <1>6, <1>7, <1>8 DEF Survey, Seen, c, j, stored

LEMMA SurveyingDraw ==
  ASSUME StoreTyped, Drawing, NearestFirst, Hanging, NEW e \in Edge, Draw(e),
         Survey(job, edges, DOMAIN papers)
  PROVE  Survey(job', edges, DOMAIN papers)
<1> DEFINE j == job'
           c == job.current
           d == job.asked.direction
           p == Other(e, c)
           s == job.queue
           stored == DOMAIN papers
           near(k) == Reach(JoinedBy(edges, stored, d), job.asked.seed, k)
           full == Cardinality(Seen') >= job.asked.max
<1>1. /\ j.asked = job.asked /\ j.current = c
      /\ j.drawn = job.drawn \cup {e} /\ e \in job.todo
      /\ j.todo \subseteq job.todo
  BY DrawIs
<1>2. full \/ j.todo = job.todo \ {e}
  <2>1. Full(Seen)' <=> full
    BY <1>1 DEF Full
  <2> QED
    BY <2>1, DrawIs
<1>3. /\ Seen \subseteq Seen' /\ Seen' \subseteq Seen \cup {p}
      /\ \A r \in Seen : j.hops[r] = job.hops[r]
      /\ p \in stored => p \in Seen'
      /\ p \in Seen' \ Seen => j.hops[p] = job.hops[c] + 1
      /\ p \in Paper
      /\ job.hops[c] < job.asked.depth /\ ~(Cardinality(Seen) >= job.asked.max)
  BY DrawSees DEF Full
<1>4. Seen' \subseteq stored
  <2>1. Drawing' /\ UNCHANGED papers
    BY PicturingDraw, DrawIs
  <2> QED
    BY <2>1 DEF Drawing
<1>5. \/ j.queue = s /\ Seen' = Seen
      \/ j.queue = Append(s, p)
  <2>1. \/ j.hops = job.hops /\ j.queue = s
        \/ j.queue = Append(s, p)
    BY DrawIs
  <2>2. j.hops = job.hops => Seen' = Seen
    BY DEF Seen
  <2> QED
    BY <2>1, <2>2
<1>6. /\ \A q \in Seen : q \in near(job.hops[q])
      /\ job.todo \subseteq EdgesAt(edges, c, d)
      /\ \A q \in Seen : job.hops[q] < job.asked.depth /\ ~Waits(s, q) =>
           \A f \in EdgesAt(edges, q, d) :
             Surveyed(job, stored, q, f) \/ (q = c /\ f \in job.todo)
      /\ \A f \in job.drawn : \E q \in Seen :
           job.hops[q] < job.asked.depth /\ f \in EdgesAt(edges, q, d)
      /\ \A q \in near(job.hops[c]) : q \in Seen /\ job.hops[q] <= job.hops[c]
  BY <1>3 DEF Survey, Seen
<1>7. /\ c \in Seen /\ c \in Paper /\ job.hops[c] \in Nat /\ job.asked.seed \in Paper
      /\ s \in Seq(Paper)
  BY DEF Drawing, StoreTyped
<1>8. DOMAIN j.hops = Seen'
  BY DEF Seen
<1>9. ASSUME NEW q \in Seen' PROVE q \in near(j.hops[q])
  <2>1. CASE q \in Seen
    BY <1>3, <1>6, <2>1
  <2>2. CASE q \notin Seen
    <3>1. q = p /\ j.hops[q] = job.hops[c] + 1 /\ q \in stored
      BY <1>3, <1>4, <2>2
    <3>2. e \in EdgesAt(edges, c, d)
      BY <1>1, <1>6
    <3>3. <<c, p>> \in JoinedBy(edges, stored, d)
      BY <1>3, <1>7, <3>1, <3>2 DEF JoinedBy
    <3>4. c \in near(job.hops[c])
      BY <1>6, <1>7
    <3>5. p \in near(job.hops[c] + 1)
      <4> DEFINE J == JoinedBy(edges, stored, d)
                 seed == job.asked.seed
                 h == job.hops[c]
      <4>1. h \in Nat /\ seed \in Paper /\ p \in Paper /\ <<c, p>> \in J /\ c \in Reach(J, seed, h)
        BY <1>3, <1>7, <3>3, <3>4
      <4> HIDE DEF h, J, seed, p, c
      <4>2. p \in Reach(J, seed, h + 1)
        BY <4>1, ReachGrows
      <4> QED
        BY <4>2 DEF J, seed, h
    <3> QED
      BY <3>1, <3>5
  <2> QED
    BY <2>1, <2>2
<1> HIDE DEF j, s, near, stored, full
<1>10. Surveyed(j, stored, c, e)
  <2>1. p \in Seen' => j.hops[p] <= j.hops[c] + 1
    <3>1. CASE p \in Seen
      BY <1>3, <1>7, <3>1 DEF NearestFirst
    <3>2. CASE p \notin Seen
      BY <1>3, <1>7, <3>2
    <3> QED
      BY <3>1, <3>2
  <2> QED
    BY <1>1, <1>3, <1>8, <2>1 DEF Surveyed
<1>11. ASSUME NEW q \in Seen, NEW f, Surveyed(job, stored, q, f)
       PROVE  Surveyed(j, stored, q, f)
  <2>1. DOMAIN job.hops = Seen
    BY DEF Seen
  <2> QED
    BY <1>1, <1>3, <1>8, <1>11, <2>1 DEF Surveyed
<1> HIDE DEF p
<1>12. /\ Append(s, p) \in Seq(Paper) /\ Len(Append(s, p)) = Len(s) + 1 /\ Len(s) \in Nat
       /\ \A i \in 1..Len(s) : i \in 1..(Len(s) + 1) /\ Append(s, p)[i] = s[i]
       /\ Append(s, p)[Len(s) + 1] = p /\ Len(s) + 1 \in 1..(Len(s) + 1)
  BY <1>3, <1>7
<1>13. ASSUME NEW q, Waits(s, q) PROVE Waits(j.queue, q)
  BY <1>5, <1>12, <1>13 DEF Waits
<1>14. ASSUME NEW q \in Seen', q \notin Seen PROVE Waits(j.queue, q)
  BY <1>3, <1>5, <1>12, <1>14 DEF Waits
<1>15. ASSUME NEW q \in Seen', j.hops[q] < job.asked.depth, ~Waits(j.queue, q),
              NEW f \in EdgesAt(edges, q, d)
       PROVE  Surveyed(j, stored, q, f) \/ (q = c /\ (f \in j.todo \/ full))
  <2>1. q \in Seen /\ ~Waits(s, q) /\ job.hops[q] < job.asked.depth
    <3>1. q \in Seen
      BY <1>14, <1>15
    <3>2. ~Waits(s, q)
      BY <1>13, <1>15
    <3> QED
      BY <1>3, <1>15, <3>1, <3>2
  <2>2. Surveyed(job, stored, q, f) \/ (q = c /\ f \in job.todo)
    BY <1>6, <1>15, <2>1
  <2>3. CASE Surveyed(job, stored, q, f)
    BY <1>11, <2>1, <2>3
  <2>4. CASE q = c /\ f \in job.todo
    BY <1>2, <1>10, <2>4
  <2> QED
    BY <2>2, <2>3, <2>4
<1>16. ASSUME NEW f \in j.drawn
       PROVE  \E q \in Seen' : j.hops[q] < job.asked.depth /\ f \in EdgesAt(edges, q, d)
  <2>1. \E q \in Seen : job.hops[q] < job.asked.depth /\ f \in EdgesAt(edges, q, d)
    <3>1. CASE f = e
      BY <1>1, <1>3, <1>6, <1>7, <3>1
    <3>2. CASE f # e
      BY <1>1, <1>6, <1>16, <3>2
    <3> QED
      BY <3>1, <3>2
  <2> QED
    BY <1>3, <2>1
<1>17. ASSUME NEW q \in near(j.hops[c]) PROVE q \in Seen' /\ j.hops[q] <= j.hops[c]
  BY <1>3, <1>6, <1>7, <1>17
<1>18. j.todo \subseteq EdgesAt(edges, c, d)
  BY <1>1, <1>6
<1> QED
  BY <1>1, <1>8, <1>9, <1>15, <1>16, <1>17, <1>18 DEF Survey, near, full, j, stored

LEMMA SurveyingAsk ==
  ASSUME StoreTyped, NEW q \in Asked, AskPicture(q)
  PROVE  Survey(job', edges, DOMAIN papers)
<1> DEFINE j == job'
           s == j.asked.seed
<1>1. /\ Drawing'
      /\ Seen' = {s} /\ j.current = s /\ j.todo = {} /\ j.drawn = {}
      /\ Len(j.queue) = 1 /\ j.queue[1] = s
      /\ UNCHANGED papers
  BY AskPictureIs
<1>2. s \in Paper /\ j.hops[s] = 0
  BY <1>1 DEF Drawing, StoreTyped
<1>3. DOMAIN j.hops = {s}
  BY <1>1 DEF Seen
<1> HIDE DEF s
<1>4. \A R : Reach(R, s, 0) = {s}
  BY <1>2, ReachBegins
<1>5. Waits(j.queue, s)
  <2>1. 1 \in 1..Len(j.queue)
    BY <1>1
  <2> QED
    BY <1>1, <2>1 DEF Waits
<1> HIDE DEF j
<1> QED
  BY <1>1, <1>2, <1>3, <1>4, <1>5 DEF Survey, s, j

LEMMA SurveyingStep ==
  ASSUME StoreTyped, Picturing, Surveying, [Next]_vars
  PROVE  Surveying'
<1> SUFFICES ASSUME job'.op = "picture", Calm' PROVE Survey(job', edges', DOMAIN papers')
  BY DEF Surveying
<1>1. CASE UNCHANGED vars
  <2>1. job' = job /\ UNCHANGED <<papers, edges, since>>
    BY <1>1 DEF vars
  <2>2. Survey(job, edges, DOMAIN papers)
    BY <2>1 DEF Surveying, Calm
  <2> QED
    BY <2>1, <2>2
<1>2. CASE Written
  BY <1>2, WriteStep DEF Calm
<1>3. CASE Read
  <2>1. edges' = edges /\ DOMAIN papers' = DOMAIN papers
    BY <1>3, ReadStep
  <2>2. CASE \E q \in Asked : AskPicture(q)
    BY <2>1, <2>2, SurveyingAsk
  <2>3. CASE Pop
    <3>1. job.op = "picture" /\ Calm
      BY <2>3 DEF Pop, Go, Calm
    <3> QED
      BY <2>1, <2>3, <3>1, SurveyingPop DEF Picturing, Surveying
  <2>4. ASSUME NEW e \in Edge, Draw(e) PROVE Survey(job', edges', DOMAIN papers')
    <3>1. job.op = "picture"
      BY <2>4 DEF Draw
    <3>2. Calm
      BY <2>4, <3>1, DrawIs DEF Calm, Picturing
    <3> QED
      BY <2>1, <2>4, <3>1, <3>2, SurveyingDraw DEF Picturing, Surveying
  <2> QED
    BY <1>3, <2>2, <2>3, <2>4, OpStep DEF Pictures
<1> QED
  BY <1>1, <1>2, <1>3 DEF Next, Written

(* What the invariants say once the picture is done.                        *)
LEMMA PictureHolds ==
  ASSUME StoreTyped, Picturing, Surveying
  PROVE  PictureIsNeighbourhood
<1>1. PictureHangsTogether
  BY DEF Picturing, Hanging, Joins, PictureHangsTogether
<1> DEFINE q == job.asked
           s == q.seed
           d == q.direction
           ball == Within(s, d)
           h == job.hops[job.current]
<1>2. SUFFICES ASSUME PictureDone, Calm
               PROVE  IF ~Full(Seen)
                      THEN /\ Seen = ball[q.depth]
                           /\ q.depth > 0 =>
                                job.drawn = UNION {Neighbors(p, d) : p \in ball[q.depth - 1]}
                      ELSE \A n \in 0..q.depth : Seen \subseteq ball[n] \/ ball[n] \subseteq Seen
  BY <1>1 DEF PictureIsNeighbourhood
<1>3. Drawing /\ NearestFirst /\ Hanging /\ Survey(job, edges, DOMAIN papers)
  BY <1>2 DEF PictureDone, Picturing, Surveying
<1>4. /\ s \in Paper /\ s \in Seen /\ job.hops[s] = 0 /\ q.depth \in Nat
      /\ job.current \in Seen /\ h \in Nat
      /\ \A p \in Seen : job.hops[p] \in Nat /\ job.hops[p] <= q.depth /\ job.hops[p] <= h + 1
  <2>1. s \in Paper /\ q.depth \in Nat
    BY <1>3 DEF Drawing, PictureAsk
  <2>2. s \in Seen /\ job.hops[s] = 0 /\ job.current \in Seen
        /\ \A p \in Seen : job.hops[p] \in Nat
    BY <1>3 DEF Drawing
  <2>3. \A p \in Seen : job.hops[p] <= q.depth
    BY <1>3, <2>1, <2>2 DEF Hanging, Joins
  <2>4. \A p \in Seen : job.hops[p] <= h + 1
    BY <1>3 DEF NearestFirst
  <2> QED
    BY <2>1, <2>2, <2>3, <2>4
<1>5. \A n \in Nat : ball[n] = Near(n)
  BY <1>4, WithinIsNear
<1> HIDE DEF ball
<1>6. /\ \A p \in Seen : p \in Near(job.hops[p])
      /\ \A p \in Seen : job.hops[p] < q.depth /\ ~Waits(job.queue, p) =>
           \A e \in Neighbors(p, d) :
             \/ Surveyed(job, DOMAIN papers, p, e)
             \/ p = job.current /\ (e \in job.todo \/ Full(Seen))
      /\ \A e \in job.drawn : \E p \in Seen : job.hops[p] < q.depth /\ e \in Neighbors(p, d)
      /\ \A p \in Near(h) : p \in Seen
  BY <1>3, NeighborsAre DEF Survey, Near, Joined, Seen, Full
<1>7. \A m, n \in Nat : m <= n => Near(m) \subseteq Near(n)
  BY ReachFurther DEF Near
<1>8. CASE Full(Seen)
  <2>1. ASSUME NEW n \in 0..q.depth, ~(n <= h) PROVE Seen \subseteq Near(n)
    <3>1. n \in Nat /\ h + 1 <= n
      BY <1>4, <2>1
    <3> SUFFICES ASSUME NEW p \in Seen PROVE p \in Near(n)
      OBVIOUS
    <3>2. job.hops[p] \in Nat /\ job.hops[p] <= h + 1
      BY <1>4
    <3>3. job.hops[p] <= n
      BY <1>4, <3>1, <3>2
    <3> QED
      BY <1>6, <1>7, <3>1, <3>2, <3>3
  <2>2. ASSUME NEW n \in 0..q.depth, n <= h PROVE Near(n) \subseteq Seen
    BY <1>4, <1>6, <1>7, <2>2
  <2>3. \A n \in 0..q.depth : n \in Nat
    BY <1>4
  <2> QED
    BY <1>5, <1>8, <2>1, <2>2, <2>3
<1>9. CASE ~Full(Seen)
  <2>1. job.queue = <<>> /\ job.todo = {}
    BY <1>2, <1>9 DEF PictureDone
  <2>2. \A p : ~Waits(job.queue, p)
    BY <2>1 DEF Waits
  <2>3. \A p \in Seen : job.hops[p] < q.depth =>
          \A e \in Neighbors(p, d) : Surveyed(job, DOMAIN papers, p, e)
    BY <1>6, <1>9, <2>1, <2>2
  <2> DEFINE P == {n \in Nat : n <= q.depth => \A p \in Near(n) : p \in Seen /\ job.hops[p] <= n}
  <2>4. 0 \in P
    <3>1. Near(0) = {s}
      BY <1>4, ReachBegins DEF Near
    <3> QED
      BY <1>4, <3>1
  <2>5. ASSUME NEW k \in Nat, k \in P PROVE k + 1 \in P
    <3> SUFFICES ASSUME k + 1 <= q.depth, NEW p \in Near(k + 1)
                 PROVE  p \in Seen /\ job.hops[p] <= k + 1
      OBVIOUS
    <3>1. \A r \in Near(k) : r \in Seen /\ job.hops[r] <= k
      BY <1>4, <2>5
    <3>2. p \in Near(k) \/ \E r \in Near(k) : <<r, p>> \in Joined
      <4> DEFINE seed == job.asked.seed
      <4>1. seed \in Paper
        BY <1>4
      <4> HIDE DEF seed
      <4>2. p \in Reach(Joined, seed, k + 1)
        BY DEF Near, seed
      <4>3. p \in Reach(Joined, seed, k) \/ \E r \in Reach(Joined, seed, k) : <<r, p>> \in Joined
        BY <4>1, <4>2, ReachGrows
      <4> QED
        BY <4>3 DEF Near, seed
    <3>3. CASE p \in Near(k)
      BY <1>4, <3>1, <3>3
    <3>4. CASE p \notin Near(k)
      <4>1. PICK r \in Near(k) : <<r, p>> \in Joined
        BY <3>2, <3>4
      <4>2. PICK e \in Neighbors(r, d) : p = Other(e, r)
        BY <4>1, NeighborsAre DEF Joined, JoinedBy
      <4>3. p \in DOMAIN papers
        BY <4>1 DEF Joined, JoinedBy
      <4>4. r \in Seen /\ job.hops[r] \in Nat /\ job.hops[r] <= k
        BY <1>4, <3>1
      <4>5. job.hops[r] < q.depth
        BY <1>4, <4>4
      <4>6. Surveyed(job, DOMAIN papers, r, e)
        BY <2>3, <4>2, <4>4, <4>5
      <4>7. p \in Seen /\ job.hops[p] <= job.hops[r] + 1
        BY <4>2, <4>3, <4>6 DEF Surveyed, Seen
      <4>8. job.hops[p] \in Nat
        BY <1>4, <4>7
      <4> QED
        BY <4>4, <4>7, <4>8
    <3> QED
      BY <3>3, <3>4
  <2>6. Nat \subseteq P
    <3> HIDE DEF P
    <3> QED
      BY <2>4, <2>5, EveryNumber
  <2>7. \A n \in Nat : n <= q.depth => \A p \in Near(n) : p \in Seen /\ job.hops[p] <= n
    BY <2>6
  <2> HIDE DEF P
  <2>8. Seen = Near(q.depth)
    <3>1. Near(q.depth) \subseteq Seen
      BY <1>4, <2>7
    <3>2. Seen \subseteq Near(q.depth)
      BY <1>4, <1>6, <1>7
    <3> QED
      BY <3>1, <3>2
  <2>9. ASSUME q.depth > 0
        PROVE  job.drawn = UNION {Neighbors(p, d) : p \in Near(q.depth - 1)}
    <3>1. q.depth - 1 \in Nat /\ q.depth - 1 <= q.depth
      BY <1>4, <2>9
    <3>2. ASSUME NEW e \in job.drawn
          PROVE  \E p \in Near(q.depth - 1) : e \in Neighbors(p, d)
      <4>1. PICK p \in Seen : job.hops[p] < q.depth /\ e \in Neighbors(p, d)
        BY <1>6
      <4>2. job.hops[p] \in Nat /\ job.hops[p] <= q.depth - 1
        BY <1>4, <4>1
      <4> QED
        BY <1>6, <1>7, <3>1, <4>1, <4>2
    <3>3. ASSUME NEW p \in Near(q.depth - 1), NEW e \in Neighbors(p, d)
          PROVE  e \in job.drawn
      <4>1. p \in Seen /\ job.hops[p] <= q.depth - 1 /\ job.hops[p] \in Nat
        BY <1>4, <2>7, <3>1
      <4>2. job.hops[p] < q.depth
        BY <1>4, <4>1
      <4> QED
        BY <2>3, <3>3, <4>1, <4>2 DEF Surveyed
    <3> QED
      BY <3>2, <3>3
  <2>10. ball[q.depth] = Near(q.depth)
         /\ (q.depth > 0 => ball[q.depth - 1] = Near(q.depth - 1))
    BY <1>4, <1>5
  <2> QED
    BY <1>9, <2>8, <2>9, <2>10
<1> QED
  BY <1>8, <1>9

LEMMA GraphInit ==
  ASSUME Init
  PROVE  /\ StoreTyped /\ Picturing /\ Surveying
         /\ Stubbing /\ Wandering /\ Briefing /\ Embedding /\ Searching
<1>1. PICK g \in Graphs : papers = g.papers /\ edges = g.edges
  BY DEF Init
<1>3. IsFiniteSet(DOMAIN papers)
  BY <1>1, GraphAssumption
<1>2. StoreTyped
  BY <1>1, GraphAssumption DEF Init, StoreTyped, NoJob, Range
<1> QED
  BY <1>2, <1>3 DEF Init, NoJob, Nothing, Picturing, Surveying, Stubbing, Wandering, Briefing, Embedding, Searching

GraphInv ==
  /\ StoreTyped /\ Picturing /\ Surveying
  /\ Stubbing /\ Wandering /\ Briefing /\ Embedding /\ Searching

LEMMA GraphInvariant == Spec => []GraphInv
<1>1. Init => GraphInv
  BY GraphInit DEF GraphInv
<1>2. GraphInv /\ [Next]_vars => GraphInv'
  <2> SUFFICES ASSUME GraphInv, [Next]_vars PROVE GraphInv'
    OBVIOUS
  <2>1. StoreTyped'
    BY ReadStep, WriteStep DEF GraphInv, Next, Written, vars, StoreTyped
  <2> QED
    BY <2>1, PicturingStep, SurveyingStep, StubbingStep, WanderingStep, BriefingStep,
       EmbeddingStep, SearchingStep DEF GraphInv
<1> QED
  BY <1>1, <1>2, PTL DEF Spec

(* A picture is the neighbourhood of its seed (build_subgraph): for any     *)
(* graph, depth, direction and number of papers it may have, it hangs       *)
(* together whatever is written meanwhile, and if nothing is, it has what   *)
(* is within the depth, or at the limit nobody but the nearest.             *)
THEOREM PicturesAreNeighbourhoods == Spec => []PictureIsNeighbourhood
<1>1. GraphInv => PictureIsNeighbourhood
  BY PictureHolds DEF GraphInv
<1> QED
  BY <1>1, GraphInvariant, PTL

(* A stub loses nothing (apply_delta_mode, resolve_delta): whatever is      *)
(* written between the reading of the hashes and the resolving of a stub,   *)
(* the paper is found, with the text that was left out unless it was        *)
(* rewritten in between.                                                    *)
THEOREM StubsAreResolved == Spec => []StubsResolve
<1>1. GraphInv => StubsResolve
  BY DEF GraphInv, Stubbing, StubsResolve
<1> QED
  BY <1>1, GraphInvariant, PTL

(* A walk is a path that ends early only where no edge leads on, and a      *)
(* brief is made of one, with the papers of it that were there, no two      *)
(* briefs of the same one, whatever is written at the same time             *)
(* (weighted_random_walk, MultiHopBriefSynthesizer.synthesize).             *)
THEOREM WalksArePaths == Spec => []WalkIsPath
<1>1. GraphInv => WalkIsPath
  BY WalksHold DEF GraphInv
<1> QED
  BY <1>1, GraphInvariant, PTL

(* The fused ranking has each paper of the two lists once, keeps one above  *)
(* another if both lists do, and has none that does not answer the query    *)
(* before the first write (HybridSearch.search, _rrf_fuse, embed_pending):  *)
(* for any lists, of any length.                                            *)
THEOREM FusionKeepsTheRanks == Spec => []FusionKeepsRanks
<1>1. GraphInv => FusionKeepsRanks
  BY RanksHold DEF GraphInv
<1> QED
  BY <1>1, GraphInvariant, PTL
=============================================================================
