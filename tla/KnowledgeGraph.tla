--------------------------- MODULE KnowledgeGraph ---------------------------
(***************************************************************************)
(* Reading the citation graph of the knowledge base while it is written:   *)
(* the picture around a paper (kb/graph.py, GET /v1/kb/graph), a random    *)
(* walk (kb/random_walk.py), the briefs that are made of such walks        *)
(* (eval/synthesize.py), the stubs that stand for papers already stored    *)
(* (sources/delta.py), and the search that fuses two rankings, of which    *)
(* one is of embeddings (kb/hybrid_search.py).  Each of them makes many    *)
(* small queries, and other threads write between any two of them.         *)
(*                                                                         *)
(* A paper is its identifier and its abstract, and an abstract is a query  *)
(* it answers, by words and by embedding alike; the embedding is the text  *)
(* it was made of, by the one model there is, and there is no reranker.    *)
(* Nothing references papers by a checked key, so an edge may lead to a    *)
(* paper that is not there; and no paper is ever deleted.  The rows of a   *)
(* query come in any order, and a walk's weights are all positive, so it   *)
(* may take any edge.                                                      *)
(***************************************************************************)
EXTENDS Integers, Sequences, FiniteSets, Functions, SequencesExt

CONSTANTS
  Paper,       \* identifiers
  NoId,        \* the empty one, that some sources give
  Text,        \* abstracts
  Kind,        \* edge kinds
  Graphs,      \* the papers and the edges to begin with
  Asked,       \* requests for a picture: seed, depth, direction, max_nodes
  Hops,        \* how far a walk goes
  Wanted,      \* n, how many briefs are asked for
  Queries,     \* what may be searched for, among the texts
  Limit,       \* how many results a search gives
  Scale,       \* the shares that ranks give to a score are multiples of 1 / Scale
  Attempts,    \* max_attempts; the code takes 5 * n, or 20 if that is more
  Batches,     \* the evidence a source may return, sequences of id and text
  MaxWrites    \* bound: how many writes there are

Edge == Paper \X Paper \X Kind

\* A row more, or another one in its place.
With(f, x, y) == [z \in DOMAIN f \cup {x} |-> IF z = x THEN y ELSE f[z]]

Nothing == "nothing"

ASSUME GraphAssumption ==
  /\ \A g \in Graphs : /\ DOMAIN g.papers \subseteq Paper /\ IsFiniteSet(DOMAIN g.papers)
                       /\ Range(g.papers) \subseteq Text
                       /\ g.edges \subseteq Edge
  /\ Asked \subseteq [seed : Paper \cup {Nothing}, depth : Nat,
                       direction : {"out", "in", "both"}, max : Nat]
  /\ {Hops, Wanted, Attempts, Limit, MaxWrites} \subseteq Nat
  /\ Queries \subseteq Text
  /\ Scale \in Nat \ {0} /\ \A r \in 1..(3 * Limit) : Scale % (60 + r) = 0
  /\ Nothing \notin Paper \cup Text
  /\ Batches \subseteq Seq([id : Paper, text : Text])

VARIABLES
  papers,  \* the papers table, from identifiers to abstracts
  edges,   \* the edges table
  embedded, \* the papers_embeddings table
  job,     \* the request that the reader is at work on
  since,   \* history: papers and edges written since it began
  writes   \* how many writes there were

vars == <<papers, edges, embedded, job, since, writes>>

NoJob == [op |-> Nothing]

Init ==
  \E g \in Graphs :
    /\ papers = g.papers
    /\ edges = g.edges
    /\ embedded = <<>>
    /\ job = NoJob
    /\ since = [papers |-> {}, edges |-> {}]
    /\ writes = 0

Begin(j) ==
  /\ job = NoJob
  /\ job' = j
  /\ since' = [papers |-> {}, edges |-> {}]
  /\ UNCHANGED <<papers, edges, embedded, writes>>

Go(j) ==
  /\ job' = j
  /\ UNCHANGED <<papers, edges, embedded, since, writes>>

-----------------------------------------------------------------------------
(* build_subgraph.  The queue holds papers, and job.hops how far each      *)
(* paper that was seen is from the seed; each enters the queue once.       *)

ListEdges(p) == {e \in edges : p \in {e[1], e[2]}}

Neighbors(p, direction) ==
  {e \in ListEdges(p) : /\ direction = "out" => e[1] = p
                        /\ direction = "in" => e[2] = p}

Other(e, p) == IF e[1] = p THEN e[2] ELSE e[1]

Seen == DOMAIN job.hops
Full(seen) == Cardinality(seen) >= job.asked.max

\* KBStore.search with a limit of one: whichever stored paper matches best.
Hits == DOMAIN papers

\* _resolve_seed.  A seed that is not stored, or a query without a hit, gives an
\* empty picture.
Seeds(q) == IF q.seed = Nothing THEN Hits ELSE {q.seed} \cap DOMAIN papers

AskPicture(q) ==
  \E seed \in Seeds(q) :
    Begin([op |-> "picture", asked |-> [q EXCEPT !.seed = seed], hops |-> With(<<>>, seed, 0),
           queue |-> <<seed>>, current |-> seed, todo |-> {}, drawn |-> {}])

Expanding(p) ==
  IF job.hops[p] >= job.asked.depth THEN {} ELSE Neighbors(p, job.asked.direction)

\* Faulty variant: the paper that was queued last is taken.
PopLast ==
  /\ job.op = "picture"
  /\ job.todo = {} /\ job.queue # <<>> /\ ~Full(Seen)
  /\ Go([job EXCEPT !.queue = Front(@), !.current = Last(job.queue),
                    !.todo = Expanding(Last(job.queue))])

Pop ==
  /\ job.op = "picture"
  /\ job.todo = {} /\ job.queue # <<>> /\ ~Full(Seen)
  /\ Go([job EXCEPT !.queue = Tail(@), !.current = Head(job.queue),
                    !.todo = Expanding(Head(job.queue))])

\* The edge is drawn before its other end is looked up.
Draw(e) ==
  LET p == Other(e, job.current)
      drawn == [job EXCEPT !.drawn = @ \cup {e}, !.todo = @ \ {e}]
      seen == Seen \cup {p}
  IN /\ job.op = "picture"
     /\ e \in job.todo
     /\ IF p \in Seen \/ p \notin DOMAIN papers
        THEN Go(drawn)
        ELSE Go([drawn EXCEPT !.hops = With(@, p, job.hops[job.current] + 1),
                              !.queue = Append(@, p),
                              !.todo = IF Full(seen) THEN {} ELSE @])

PictureDone ==
  /\ job.op = "picture"
  /\ job.todo = {} /\ (job.queue = <<>> \/ Full(Seen))

-----------------------------------------------------------------------------
(* weighted_random_walk.                                                   *)

Step(p, kind) == [paper |-> p, via |-> kind]

\* Without a start the first paper is taken; one that is not stored gives no walk.
AskWalk(p) ==
  /\ p \in DOMAIN papers
  /\ Begin([op |-> "walk", steps |-> <<Step(p, Nothing)>>, left |-> Hops])

\* synthesize: walks from papers that were listed once.
AskBriefs ==
  /\ Cardinality(DOMAIN papers) >= 2
  /\ Begin([op |-> "briefs", ids |-> DOMAIN papers, attempts |-> 0, signatures |-> {},
            steps |-> <<>>, left |-> 0, found |-> Nothing, out |-> <<>>])

BriefsDone ==
  /\ job.op = "briefs" /\ job.steps = <<>>
  /\ Len(job.out) = Wanted \/ job.attempts = Attempts

SetOut ==
  /\ job.op = "briefs" /\ job.steps = <<>> /\ ~BriefsDone
  /\ \E p \in job.ids :
       Go([job EXCEPT !.steps = <<Step(p, Nothing)>>, !.left = Hops, !.attempts = @ + 1])

Visited == {job.steps[i].paper : i \in DOMAIN job.steps}

\* Faulty variant: only the paper it is at is avoided.
OutgoingOnward ==
  LET cur == Last(job.steps).paper
  IN {<<e[2], e[3]>> : e \in {f \in edges : f[1] = cur /\ f[2] # cur}}

Outgoing ==
  LET cur == Last(job.steps).paper
  IN {<<e[2], e[3]>> : e \in {f \in edges : f[1] = cur /\ f[2] \notin Visited}}

Walking == job.op \in {"walk", "briefs"} /\ job.left > 0

Hop ==
  /\ Walking
  /\ \E o \in Outgoing :
       Go([job EXCEPT !.steps = Append(@, Step(o[1], o[2])), !.left = @ - 1])

Stuck ==
  /\ Walking
  /\ Outgoing = {}
  /\ Go([job EXCEPT !.left = 0])

WalkDone == job.op = "walk" /\ job.left = 0

Walked == job.op = "briefs" /\ job.steps # <<>> /\ job.left = 0
Papers(steps) == [i \in DOMAIN steps |-> steps[i].paper]
Dropped == [job EXCEPT !.steps = <<>>, !.found = Nothing]

\* A walk that went nowhere, or where another one did, makes no brief.
Judge ==
  LET signature == Papers(job.steps)
  IN /\ Walked /\ job.found = Nothing
     /\ Go(IF Len(job.steps) < 2 \/ signature \in job.signatures THEN Dropped
           ELSE [job EXCEPT !.signatures = @ \cup {signature}, !.found = <<>>])

\* The papers of the walk are fetched one by one.
FetchPaper ==
  /\ Walked /\ job.found # Nothing /\ Len(job.found) < Len(job.steps)
  /\ LET p == job.steps[Len(job.found) + 1].paper
     IN Go([job EXCEPT !.found = Append(@, IF p \in DOMAIN papers THEN p ELSE Nothing)])

\* The evidence is those that were found, in the order of the walk.
KeepBrief ==
  LET found == {i \in DOMAIN job.found : job.found[i] # Nothing}
      evidence == {job.found[i] : i \in found}
  IN /\ Walked /\ job.found # Nothing /\ Len(job.found) = Len(job.steps)
     /\ Go(IF Cardinality(found) < 2 THEN Dropped
           ELSE [Dropped EXCEPT !.out =
                   Append(@, [walk |-> job.steps, evidence |-> evidence])])

-----------------------------------------------------------------------------
(* apply_delta_mode: the hashes of all papers are read once, and evidence  *)
(* whose hash is that of the stored abstract becomes a stub.  Two texts    *)
(* have the same hash when they are the same.                              *)

AskDelta(batch) ==
  Begin([op |-> "delta", known |-> papers, evidence |-> batch, stubs |-> {},
         resolved |-> <<>>, applied |-> FALSE])

\* Faulty variant: that the paper is stored is enough.
SameHashIfStored(e) == e.id \in DOMAIN job.known

SameHash(e) == e.id \in DOMAIN job.known /\ job.known[e.id] = e.text

ApplyDelta ==
  /\ job.op = "delta" /\ ~job.applied
  /\ Go([job EXCEPT !.stubs = {i \in DOMAIN job.evidence : SameHash(job.evidence[i])},
                    !.applied = TRUE])

\* resolve_delta; an empty handle is none.
Resolve(i) ==
  LET id == job.evidence[i].id
  IN /\ job.op = "delta"
     /\ i \in job.stubs \ DOMAIN job.resolved
     /\ Go([job EXCEPT !.resolved =
              With(@, i, IF id # NoId /\ id \in DOMAIN papers THEN papers[id] ELSE Nothing)])

DeltaDone == job.op = "delta" /\ job.applied

-----------------------------------------------------------------------------
(* HybridSearch.  embed_pending reads at once which papers have no         *)
(* embedding, and stores one after the other.                              *)

AskEmbeddings ==
  Begin([op |-> "embed",
         rows |-> [p \in DOMAIN papers \ DOMAIN embedded |-> papers[p]]])

EmbedAndStore(p) ==
  /\ job.op = "embed"
  /\ p \in DOMAIN job.rows
  /\ embedded' = With(embedded, p, job.rows[p])
  /\ job' = [job EXCEPT !.rows = Restrict(@, DOMAIN @ \ {p})]
  /\ UNCHANGED <<papers, edges, since, writes>>

EmbedDone == job.op = "embed" /\ job.rows = <<>>

\* Evidence goes by its identifier, or else by an id of its own.
Keyed(i, p) == IF p = NoId THEN <<i, p>> ELSE <<0, p>>

\* The i-th list: three of S for each result that is wanted, the best by an order
\* that is left open.
Rankings(i, S) ==
  LET n == IF Cardinality(S) > 3 * Limit THEN 3 * Limit ELSE Cardinality(S)
  IN {s \in [1..n -> {Keyed(i, p) : p \in S}] : IsInjective(s)}

\* search: by words first.
AskSearch(query) ==
  \E ranking \in Rankings(1, {p \in DOMAIN papers : papers[p] = query}) :
    Begin([op |-> "search", query |-> query, lists |-> <<ranking>>, fused |-> <<>>])

\* _dense_search, over the papers that have an embedding.
SearchDense ==
  /\ job.op = "search" /\ Len(job.lists) = 1
  /\ \E ranking \in Rankings(2, {p \in DOMAIN papers \cap DOMAIN embedded :
                                   embedded[p] = job.query}) :
       Go([job EXCEPT !.lists = Append(@, ranking)])

\* _rrf_fuse.
Keys == Range(job.lists[1]) \cup Range(job.lists[2])
Rank(i, k) == CHOOSE r \in DOMAIN job.lists[i] : job.lists[i][r] = k

\* 1 / (60 + rank), as a multiple of 1 / Scale.
Share(i, k) ==
  IF k \in Range(job.lists[i]) THEN Scale \div (60 + Rank(i, k)) ELSE 0

\* Faulty variant: the second list overwrites the score of the first.
ScoreOfLast(k) == IF Share(2, k) # 0 THEN Share(2, k) ELSE Share(1, k)

Score(k) == Share(1, k) + Share(2, k)

\* Of equal scores the one that was seen first comes first.
FirstSeen(k) == IF k \in Range(job.lists[1]) THEN Rank(1, k) ELSE 3 * Limit + Rank(2, k)

Precedes(k, l) ==
  \/ Score(k) > Score(l)
  \/ Score(k) = Score(l) /\ FirstSeen(k) < FirstSeen(l)

Fuse ==
  /\ job.op = "search" /\ Len(job.lists) = 2 /\ job.fused = <<>>
  /\ Go([job EXCEPT !.fused =
           [n \in 1..Cardinality(Keys) |->
              CHOOSE k \in Keys : Cardinality({l \in Keys : Precedes(l, k)}) = n - 1]])

SearchDone ==
  /\ job.op = "search" /\ Len(job.lists) = 2
  /\ job.fused # <<>> \/ job.lists = <<<<>>, <<>>>>

-----------------------------------------------------------------------------
(* The other threads.                                                      *)

Write ==
  /\ writes < MaxWrites
  /\ writes' = writes + 1
  /\ UNCHANGED <<job, embedded>>

\* KBStore.upsert_paper: a new row, or a new abstract for an old one.
UpsertPaper(p, text) ==
  /\ Write
  /\ papers' = With(papers, p, text)
  /\ since' = [since EXCEPT !.papers = @ \cup {p}]
  /\ UNCHANGED edges

\* KBStore.add_edge: what is there already is left alone, and no end is checked.
AddEdge(e) ==
  /\ Write
  /\ e \notin edges
  /\ edges' = edges \cup {e}
  /\ since' = [since EXCEPT !.edges = @ \cup {e}]
  /\ UNCHANGED papers

\* KBReconciler.reconcile drops edges that a paper no longer mentions.
DropEdge(e) ==
  /\ Write
  /\ e \in edges
  /\ edges' = edges \ {e}
  /\ since' = [since EXCEPT !.edges = @ \cup {e}]
  /\ UNCHANGED papers

-----------------------------------------------------------------------------
Done ==
  /\ PictureDone \/ WalkDone \/ BriefsDone \/ DeltaDone \/ EmbedDone \/ SearchDone
  /\ Go(NoJob)

Read ==
  \/ \E q \in Asked : AskPicture(q)
  \/ Pop
  \/ \E e \in Edge : Draw(e)
  \/ \E p \in Paper : AskWalk(p)
  \/ AskBriefs \/ SetOut
  \/ Hop \/ Stuck
  \/ Judge \/ FetchPaper \/ KeepBrief
  \/ \E batch \in Batches : AskDelta(batch)
  \/ ApplyDelta
  \/ job.op = "delta" /\ \E i \in job.stubs : Resolve(i)
  \/ AskEmbeddings \/ \E p \in Paper : EmbedAndStore(p)
  \/ \E query \in Queries : AskSearch(query)
  \/ SearchDense \/ Fuse
  \/ Done

Next ==
  \/ Read
  \/ \E p \in Paper, text \in Text : UpsertPaper(p, text)
  \/ \E e \in Edge : AddEdge(e) \/ DropEdge(e)

Spec == Init /\ [][Next]_vars

-----------------------------------------------------------------------------
(* Properties.                                                             *)

Calm == since.papers = {} /\ since.edges = {}

\* What a search without haste would find: the papers n hops from p at most.
Within(p, direction) ==
  LET ball[n \in Nat] ==
        IF n = 0 THEN {p}
        ELSE ball[n - 1] \cup
             {q \in DOMAIN papers : \E r \in ball[n - 1] :
                \E e \in Neighbors(r, direction) : q = Other(e, r)}
  IN ball

\* Each paper of a picture but the seed is joined to one a hop nearer by an edge
\* of it, and each edge that leads out of it leads to no paper.
PictureHangsTogether ==
  job.op = "picture" =>
    /\ \A p \in Seen :
         \/ p = job.asked.seed
         \/ /\ job.hops[p] <= job.asked.depth
            /\ \E e \in job.drawn : /\ Other(e, p) \in Seen
                                    /\ p \in {e[1], e[2]}
                                    /\ job.hops[Other(e, p)] = job.hops[p] - 1
    /\ \A e \in job.drawn : \A p \in {e[1], e[2]} \cap DOMAIN papers :
         p \in Seen \cup since.papers
    /\ job.asked.max > 0 => Cardinality(Seen) <= job.asked.max

\* The picture is the neighbourhood: without a write since the request, it has
\* the papers within the depth and the edges of all that are nearer than that;
\* one cut at max_nodes left out nobody nearer than those it has.
\* With writes it still hangs together (build_subgraph).
PictureIsNeighbourhood ==
  /\ PictureHangsTogether
  /\ PictureDone /\ Calm =>
       LET q == job.asked
           ball == Within(q.seed, q.direction)
       IN IF ~Full(Seen)
          THEN /\ Seen = ball[q.depth]
               /\ q.depth > 0 =>
                    job.drawn = UNION {Neighbors(p, q.direction) : p \in ball[q.depth - 1]}
          ELSE \A n \in 0..q.depth : Seen \subseteq ball[n] \/ ball[n] \subseteq Seen

IsPath(steps) ==
  /\ \A i, j \in DOMAIN steps : i # j => steps[i].paper # steps[j].paper
  /\ \A i \in 1..(Len(steps) - 1) :
       <<steps[i].paper, steps[i + 1].paper, steps[i + 1].via>> \in edges \cup since.edges
  /\ Len(steps) <= Hops + 1

\* A walk never comes back, each step takes an edge there was at the time, and
\* it is cut short only where no edge leads on.  A brief is made of such a walk, no
\* two of the same one, and of at least two papers: all that the walk came to but
\* those that were not stored (weighted_random_walk, synthesize).
WalkIsPath ==
  /\ job.op \in {"walk", "briefs"} =>
       /\ IsPath(job.steps)
       /\ job.steps # <<>> /\ job.left = 0 /\ Calm /\ Len(job.steps) <= Hops => Outgoing = {}
  /\ job.op = "briefs" =>
       /\ Cardinality({Papers(job.out[i].walk) : i \in DOMAIN job.out}) = Len(job.out)
       /\ \A i \in DOMAIN job.out :
            LET b == job.out[i]
                walked == ToSet(Papers(b.walk))
            IN /\ IsPath(b.walk)
               /\ Cardinality(b.evidence) >= 2
               /\ b.evidence \subseteq walked \cap DOMAIN papers
               /\ walked \cap DOMAIN papers \subseteq b.evidence \cup since.papers

\* A stub loses nothing: the paper it stands for is found, with the text that
\* was left out unless it was rewritten since (apply_delta_mode, resolve_delta).
\* Evidence without an identifier is not covered: its stub resolves to nothing.
StubsResolve ==
  job.op = "delta" =>
    \A i \in DOMAIN job.resolved :
      LET e == job.evidence[i]
      IN e.id # NoId =>
           /\ job.resolved[i] # Nothing
           /\ e.id \notin since.papers => job.resolved[i] = e.text

Above(list, k, l) ==
  \E i \in DOMAIN list : list[i] = k /\ \A j \in 1..i : list[j] # l

\* The fused ranking has each paper of the two, once if it has an identifier, and
\* one that is above another wherever either appears stays above it; and until a
\* paper is rewritten, which leaves its embedding as it was, all that it has answer
\* the query (search, _rrf_fuse, embed_pending).
FusionKeepsRanks ==
  job.op = "search" /\ SearchDone =>
    /\ Range(job.fused) = Keys /\ Len(job.fused) = Cardinality(Keys)
    /\ \A k, l \in Keys : k # l /\ k[2] = l[2] => k[2] = NoId
    /\ \A k, l \in Keys :
         /\ \E i \in {1, 2} : Above(job.lists[i], k, l)
         /\ \A i \in {1, 2} : ~Above(job.lists[i], l, k)
         => Above(job.fused, k, l)
    /\ writes = 0 => \A k \in Keys : papers[k[2]] = job.query
=============================================================================
