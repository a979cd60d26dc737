# TLA+ specifications of OpenFang

OpenFang turns a research brief into a report: a planner produces a DAG of
typed nodes, a scheduler executes it under permissions, parking, retries and
fault injection, a writer and a ladder of verifiers turn the evidence into
claims, and what is verified is promoted into a literature knowledge base.
This directory holds TLA+ models of that system, the TLC configurations that
check them, and proofs checked by TLAPS.

Paths below are relative to the repository; `engine.py` means
`src/open_fang/scheduler/engine.py`, and so on.

## 1. The system

| Component | State it keeps | Operations | Interacts with |
|---|---|---|---|
| scheduler (`scheduler/engine.py`) | per call: node statuses, parked/failed lists, evidence; per engine: parking registry, sandbox handles | `run` | permission bridge, supervisor, sources, KB, recorder |
| permissions (`permissions/*.py`) | the list of tokens, shared by all requests | `grant`, `has_token`, `check` | scheduler, `POST /v1/permissions/approve` |
| supervisor (`supervisor/*.py`) | kind -> specialist table, statistics | `dispatch` | scheduler, sources, KB, subprocesses |
| planner (`planner/*.py`) | none | `plan`, `validate_dag`, `replan_once` | LLM |
| pipeline (`pipeline.py`, `synthesize/`, `attribution/`) | the recorder, the memory store and the KB it was given | `run` | all of the above |
| verification (`verify/*.py`) | confidence history, executable sandbox | claim tiers, critic, cross-model | LLM, subprocess |
| knowledge base (`kb/*.py`) | SQLite tables papers, claims, edges, FTS mirror, embeddings; caches of known ids and back-link counts | upsert, add, search, promote, reconcile, self-wire, cascades, graph walks | pipeline, cron, MCP, HTTP |
| memory (`memory/*.py`) | observations table, sandbox outputs, working buffer | append, search, sandbox, drain | pipeline, scheduler |
| graph reads (`kb/graph.py`, `kb/random_walk.py`, `kb/hybrid_search.py`, `eval/synthesize.py`, `sources/delta.py`) | embeddings | pictures, walks, briefs, stubs, fused searches | KB, HTTP |
| feed cron (`eval/feed_cron.py`) | the loop thread, stop event, statistics | `start`, `stop`, `tick` | KB |
| MCP server (`mcp_server/*.py`) | sliding windows per token | `handle_http_rpc`, `handle` | KB, memory, pipeline |
| agent loop (`harness_core/`) | transcript, permission mode, hook registry, span stack | `AgentLoop.run`, `_execute_call` | LLM, tools |
| skills (`skills/*.py`) | skill files and their provenance, the registry of a process | load, activate, rounds of the arena, extract, diagnose | planner, pipeline, LLM |
| observe (`observe/*.py`) | span list | record, evaluate | scheduler, memory |

What is hard in it:

* **Concurrency.** FastAPI serves the synchronous handlers of `app.py` from a
  thread pool, and they share one engine, one token registry, one recorder and
  one SQLite connection, all without locks. The feed cron adds a thread.
* **Order.** The DAG is walked in list order, in several passes, while the
  operator parks and releases nodes and the user grants tokens.
* **Failure.** Sources, specialists and the KB may raise at any attempt;
  faults are injected; retries repeat what may have had an effect; commits
  happen one row at a time.
* **Stale state.** Known-id caches, back-link counts, embeddings, hashes read
  once, a tool registry looked at twice, sandbox handles and a recorder that is
  never cleared.
* **Many small queries.** A picture, a walk or a page of the timeline is put
  together from queries between which others write.
* **Replies of a model.** A plan, a verdict or a diagnosis may be JSON of any
  shape, and the plan it proposes may be no DAG or one deeper than the stack.

What makes each component correct: the scheduler must respect the dependency
order, decide every node at most once, stop, stop only when nothing is
runnable, and report what it did; permissions must let nothing gated run
without an approval, spend a once token once, and never lose another token;
the KB must hold only anchored, verified claims and keep user edges; the cron
must have one loop and keep its cap; the rate limiter must bound every window;
the agent loop must answer every tool call and run no tool that was denied; a
reader of the graph must get what there was, and a client of the timeline all of
it; the planner must give the scheduler a DAG, and the arena leave files that
the next process can load.

## 2. Modules

### Scheduler core

* `Permissions.tla` - `TokenRegistry`, as request threads share it. A token
  object is named by its position in the history `granted`; `tokens` is the
  list of names. `has_token` is one action per iteration of its loop
  (`PassOver`, `AcceptStanding`, `SeeOnce`) and a further one for the `pop` of a
  once token (`Pop`, or `PopRaises` when the list has shrunk below the index).
* `Scheduler.tla` - `SchedulerEngine.run`, one copy of its local state per
  thread `Run`, and the state the threads share. `phase` says where a thread
  is: `scan` (the `for node` loop), `check` and `pop` (inside
  `PermissionBridge.check`), `exec` (`_execute_with_retry`), and `idle`,
  `returned` or `raised` outside. `cursor` is the node of the current pass,
  `pass` the number of the pass, `progressed` the flag. One action per branch:

  | action | code |
  |---|---|
  | `Submit` | the call of `run` with a fresh DAG |
  | `Skip` | not pending, or not ready |
  | `ParkListed` | `parking.is_parked` |
  | `AskBridge`, `TryNextToken`, `FindOnce`, `Allow`, `ParkUnapproved`, `Deny`, `CheckRaises` | the bridge's check, its verdicts, and its exception, which nothing in `run` catches |
  | `StartUngated` | low risk, or no bridge |
  | `AttemptRaises`, `AttemptReturns`, `GiveUp` | one call of `_execute`, and the end of the retries |
  | `NextPass`, `Return` | the end of a pass |
  | `Approve`, `Park`, `Release` | the user and the operator, at any moment |

  Outputs are abstracted to whether they hold evidence; exceptions to the fact
  that one was raised. The fault kinds that may fire are a constant; whether
  one fires at a given call is a free choice, which covers every probability.
  `stat.dispatched += 1` is one step here.
* `DagRun.tla` - what a run promises: nodes are decided one by one, each only
  when startable, and the run returns only when none is startable, or is cut
  short by an exception. `Scheduler!ImplementsDagRun` says that each thread's
  runs implement it.
* `MCScheduler.tla` - the instances.
* `SchedulerProofs.tla` - the theorems.

### Knowledge base

* `KnowledgeBase.tla` - the SQLite tables and everything under `kb/` that writes
  to them. A call is the sequence of statements it has still to issue (`todo`);
  `Begin(w)` makes one call, `Exec(w)` executes its next statement on `db`, a
  commit copies `db` to `disk`, and `Crash` may come between any two:

  | operator | code |
  |---|---|
  | `Upsert` | `upsert_paper`: paper, FTS delete, FTS insert, one commit |
  | `Promote`, `NextClaim`, `PromoteClaim`, `CanPromote`, `Anchor`, `LoopEnds` | `promote_report`: one claim of the loop at a time, each with its upsert and its claim |
  | `ExtractFromContent` | `EdgeExtractor`, which reads the ids in each call |
  | `Process`, `RefreshKnown`, `Persist` | `SelfWirer` with its cache `known`, and `persist` |
  | `Reconcile`, `ExecSelect`, `Replace` | `reconcile_self_wired_edges`: the SELECT, then deletions and insertions in one transaction |
  | `Link`, `LinkOrIgnore`, `ExecLink` | a loop of INSERT OR IGNORE, one edge a step in any order |
  | `Unlink`, `ExecUnlink` | a loop of DELETE ... LIKE 'self-wire:%', likewise |

  `byHand` and `installed` are histories the properties need. The one-off
  `ALTER TABLE` of the reconciler is taken to have happened.
* `MCKnowledgeBase.tla` - the instance; `KnowledgeBaseProofs.tla` - the theorems.

### Feed cron

* `FeedCron.tla` - the cron with its threads. `Worker` is the owner, who may call
  `tick` itself, and the threads that `start` creates. `pc` is `test`
  (the `while` of `_loop`), `fetch`, `list`, `import` (inside `tick`) or `sleep`;
  an error from `list_paper_ids`, outside both `try` blocks, ends the thread
  (`ListRaises`). `Stop` sets the event and begins to join; `JoinEnds` and
  `JoinTimesOut` are the two ways out, and both forget the thread. `Curate` is
  any other component that stores a paper. `kept` are papers with the content
  others gave them, `stubs` those with the text `tick` writes.
* `MCFeedCron.tla` - the instances; `FeedCronProofs.tla` - the theorems.

### Pipeline

* `Pipeline.tla` - `OpenFangPipeline.run` for any number of requests over one
  pipeline. `job[r]` is the record of one run's locals and its report; `stage`
  says which call of `run` it is in and `at` where a loop has got to. `spans`
  (the recorder, never cleared), `observations` and `library` are shared. `wired`
  is the set of optional parts the pipeline was built with; a part that is not
  there is a stage passed through.

  | action | code |
  |---|---|
  | `Plan`, `Schedule`, `Scheduled` | `planner.plan`, `scheduler.run` seen from outside |
  | `Extract`, `Place`, `LeaveOut`, `Written` | the extractor, and `SynthesisWriter.write` over what it returned, one draft at a time |
  | `RejectLexically`, `RejectByJudge`, `RejectByScript`, `Accept`, `Verified` | one claim in `ClaimVerifier.verify`, and its end |
  | `Keep`, `Downgrade`, `Criticized` | `CriticAgent.critique` |
  | `PassOverUnverified`, `PassOverUnanchored`, `File`, `Promoted` | `promote_report` |
  | `Remember`, `Remembered` | the loop over `span_recorder.spans` |
  | `Attribute` | the condition and `HAFCClassifier.classify` |
  | `Raise` | an exception from any of these, which leaves `run` |

  A claim is the ids it cites, whether it shares a word with a citation, and
  what the tiers did to it. `Scheduler.tla` is the inside of `Schedule`: here a
  node is done, failed, parked or left. `library` holds claims only, one commit
  each; `KnowledgeBase.tla` has the statements.
* `MCPipeline.tla` - the instances; `PipelineProofs.tla` - the theorems.

### Agent loop

* `AgentLoop.tla` - `AgentLoop.run` of `harness_core` with what it calls: the
  permission resolver, the hooks, the tool registry, the tracer and the two
  providers. `loop` holds the locals of `run` and of `_execute_call`, and
  `loop.at` the place where it waits for somebody: the model, the approver, a
  hook, a tool.

  | action | code |
  |---|---|
  | `Start`, `Reply` | a call of `run`, from nothing or from the transcript it returned; one turn of the model (`StopOf` is what each provider makes of a stop reason) |
  | `Decide`, `Approve`, `Reject` | `resolve_decision` for the next call, and the approver |
  | `NextHook`, `Block`, `HooksPassed`, `Execute`, `Observe` | the hooks before a call, `ToolRegistry.execute`, which looks the name up again, and the hooks after it |
  | `Answered`, `Finish` | the result of a call, the next call or step, and the `LoopResult` |
  | `Raise` | an exception of the model, the approver or a hook, which closes the spans and leaves `run` |
  | `Register`, `Unregister` | the registry, changed while the loop waits |

  `ran` is a history: each call that reached a tool, with what was known of the
  tool when it was decided. `Turns` is what the service is sent of a transcript.
* `MCAgentLoop.tla` - the instance; `AgentLoopProofs.tla` - the theorems.

### MCP server, rate limiter and memory

* `RateLimiter.tla` - the sliding window: `Measure` reads the clock, `Evict`
  drops one entry, `Refuse` and `LetIn` answer. `accepted` is the log of all that
  was ever let in.
* `Memory.tla` - observations, the tool output sandbox and the working buffer.
  A batch is stored row by row (`StoreOne`) on a connection that all threads
  share, so that a commit of one (`CommitAndReturn`, `Observe`) commits the rows
  of the others, and `Crash` goes back to the last commit. `Top` is what the
  sandbox returns of a batch: a piece is in it when few enough of the others
  outrank it (`Place`).
* `McpServer.tla` - a server over stdio, over HTTP with or without a limiter of
  its host, or the endpoints of `app.py`, one request after the other, beside an
  agent that goes on remembering. It extends both modules above: `Authorize`
  is `Measure`, `Shift` is `Evict`, and so on. A request is what the code tells
  apart in it (sender, shape, method, tool, whether the arguments convert);
  `HandleRaises` is the exception that ends `run_stdio`. One client reads the
  timeline page by page.
* `MCMcpServer.tla` - the instance; `McpServerProofs.tla` - the theorems about all
  three modules.

### Reads of the knowledge graph

* `KnowledgeGraph.tla` - one reader (`job`) that makes one query after the
  other, and writers between any two of them (`UpsertPaper`, `AddEdge`,
  `DropEdge`); `since` is a history of what they wrote since the request began.

  | actions | code |
  |---|---|
  | `AskPicture`, `Pop`, `Draw` | `build_subgraph`: the search from the seed, one `list_edges` for a paper and one `get_paper` for an edge |
  | `AskWalk`, `Hop`, `Stuck` | `weighted_random_walk` |
  | `AskBriefs`, `SetOut`, `Judge`, `FetchPaper`, `KeepBrief` | `synthesize`: walks, their signatures, and the papers fetched one by one |
  | `AskDelta`, `ApplyDelta`, `Resolve` | `apply_delta_mode` and `resolve_delta` |
  | `AskEmbeddings`, `EmbedAndStore`, `AskSearch`, `SearchDense`, `Fuse` | `embed_pending`, `search`, `_dense_search`, `_rrf_fuse` |

  The shares of a fused score are multiples of 1/`Scale`, so that they can be
  compared as integers for any `Limit`.
* `MCKnowledgeGraph.tla` - the instance; `KnowledgeGraphProofs.tla` - the theorems.

### Planner, skills and the arena

* `Planner.tla` - `DAGPlanner.plan`: the reply of the model in each of its
  shapes, the checks of `validate_dag`, its search for cycles call by call with
  the stack of the interpreter (`CallDfs`), and the canonical plan.
* `Skills.tla` - `parse_skill_md` line by line and `SkillLoader` over the four
  shelves, as operators; it has no state.
* `Arena.tla` - rounds of the arena over both: each brief is planned and run, the
  successful runs are clustered (`Clusters`), and each cluster is written as a
  SKILL.md and a .provenance.json, each truncated, then written (`OpenSkill`,
  `WriteSkill`, `OpenProvenance`, `WriteProvenance`). `Exit` is the end of the
  process at any step, `Start` the next one, which loads the registry from
  what is there. `torn` is a history of what was left half written.
* `MCArena.tla` - the instance; `ArenaProofs.tla` - the theorems about all three
  modules.

`Pipeline.tla` sees the planner as a stage; `Planner.tla` is its inside, as
`Scheduler.tla` is that of the schedule. `KnowledgeGraph.tla` reads the tables
that `KnowledgeBase.tla` writes: it takes the latter's upserts, edges and
reconciliations as single writes of a row, which is what a reader on the same
connection sees of them.

### Plan

The components above were modelled in this order: scheduler core, knowledge
base, feed cron, pipeline, agent loop, MCP server with limiter and memory, graph
reads, planner with skills and arena. Every invariant and every action property
that a passing run checks is now also a theorem. What has no proof is liveness,
and what has no model is listed at the end.

## 3. Runs

| run | specification | what it asks |
|---|---|---|
| `scheduler` | `Spec`, one thread, three nodes | everything about a single run and about runs one after the other |
| `pair` | `SafeSpec`, two threads, two nodes | what must survive two requests at once |
| `race` | `SafeSpec`, two threads | whether a once token is consumed atomically: it is not |
| `pipeline` | `Spec`, two requests, three drafts | the tiers, promotion, memory and attribution, with an exception anywhere |
| `kb` | `Spec`, one writer, two papers | the tables, promotion and edges under crashes at any statement |
| `manual` | `Spec`, one writer | whether the user's edges survive reconciliation: one need not |
| `cron` | `Spec`, two threads, the owner, three papers | the number of loops, the cap, errors, the end of stopped loops |
| `cronstop` | `Spec` | whether a stopped loop stays stopped: it need not |
| `agent` | `Spec`, four modes, two tools | the transcript, the vetting of calls, spans and counts, and the end of a run |
| `server` | `Spec`, three transports, three observations | the rate limit, the timeline, the sandbox |
| `graph` | `Spec`, two graphs | what is read of a graph while it is written |
| `skills` | `Spec`, two rounds of two briefs | plans, the registry and the files of skills, with the process ending anywhere |

**Bounds.** `scheduler` has two DAGs of three nodes, one a chain listed in the
worst order for the pass loop (it needs three passes and a fourth to see that
nothing moves), one with a high-risk and a medium-risk branch that join; two
grants, two submissions, so that statuses, tokens and statistics of an earlier
run meet a later one; two attempts, so that an attempt can fail before one that
succeeds. One node can be parked and released by the operator at any time.
`pair` keeps two nodes and one attempt, and adds a prefix token that covers
every kind; two tokens are enough for one to be popped while the other thread's
index points behind it.

`pipeline` has a first request with two nodes and up to three claims, among them
one that each reachable case of the lexical tier rejects, one the writer drops
and one without an anchor, so that verified, downgraded, filed and unanchored
claims meet in one report; and a second request with one node and no claims,
which appends to the recorder while the first one stores it. Two wirings put
together the parts that bear on each other.

`kb` has two papers and two texts, of which one refers to the other paper by
id, the other by author and year, so that a new text drops a reference. Seven
calls are what it takes to wire an edge and reconcile it away again (store two
papers, process, reconcile, store a new text, process, reconcile); `manual`
needs one more, for the user's edge in the middle.

`cron` has a feed of three papers under a cap of two, three ticks and two
threads: a loop and its successor, one of them perhaps abandoned, and the owner
ticking beside them; the sleep is one chunk, so that a stop finds a loop before,
in and after it. One of the papers is one that others store.

`agent` has a tool that reads and one that is destructive, replies of no call,
one and two, one of which ends the turn with its calls unanswered; for each
permission mode one loop, with rules that contradict each other and hooks before
and after the call; two runs, the second from nothing or from what the first
returned; two steps, so that a budget can run out in the middle; and one change
of the registry, enough for a tool to be looked at and then gone or new.

`server` has a timeline of three observations in pages of one, so that the
client is between pages while one is added; a limit of two in a window of two
ticks and a clock up to four, so that a window can be full, slide and be full
again; two workers, two handles and batches of one to three pieces with one
repeated; and one other request of each kind the code distinguishes. Six hosts:
each transport, HTTP with and without a limiter and without a token, with and
without a knowledge base. The sandbox, the buffer and the limiter are each in
hosts of their own, as they share no state but the commits, which `Observe`
makes in every host. `ScanLimit` is two, below the number of observations.

`graph` has a ring of five papers, where a paper is reached the long way round
when the order of the search is wrong, with an edge into the void; and a graph of
four papers with a cycle and one paper without an identifier. One write at any
moment, of any row. Walks of three hops, two briefs in three attempts, so that a
walk can be repeated or go nowhere and still leave one to succeed. With
`Limit = 1` a ranking is cut at three papers where four match.

`skills` lets the model answer the first brief with any plan over three ids in
which each node depends on up to two others, and with replies of every
malformed kind; a chain of four and a cycle of four meet the stack limit, which
is four. The shelves hold a file without an end, a line without a colon, a
nested origin, a confidence that is no number, an evolved skill without one, and
names that are taken or that the arena is going to give. A skill learned from one
run stays below the confidence filter, one from two runs passes it. Two rounds, so that a
skill learned in the first is loaded, activated, and written again.

**Properties.** `DecidedAfterDependencies`, `ReportedOnce`, `QuiescentAtReturn`,
`TokensAccounted`, `DispatchesAccounted`, `StandingApprovalHonoured`, `RunsEnd`
and `ImplementsDagRun` in `scheduler`; `GatedNodesApproved` and
`TraceMatchesOutcome` in `pair`. Each is stated and explained in `Scheduler.tla`.
`TokensAccounted` is a property of one thread only: with two it is exactly what
the `race` run refutes. `DispatchesAccounted` excludes a cohort that claims
`kb.lookup`: there an injected memory drop completes a node without a dispatch.

`RejectionsExplained`, `PromotionMatchesReport`, `SpansRemembered`,
`FailuresAttributed` and `RequestsEnd` in `pipeline`; those about the report also
hold of runs that raise, as far as they have got.

`TablesAgree`, `ReconciledAtomically`, `WiredEdgesResolve` and `PlainRowsKept` in
`kb`, all of what is committed, so that they say what a restart finds. The first two
are properties of the single writer that `KBStore.open` asks for; the others hold
for any number of writers.

`OneLoop`, `CapKept`, `BelowCapComplete` and `StoppedLoopsEnd` in `cron`.

`TurnsPaired`, `RunsVetted`, `TracerConsistent` and `RunsEnd` in `agent`. That
calls keep ids of their own is asked of the service only: `MockLLM` numbers the
calls of every reply from zero.

`SpacedOut`, `TimelineComplete` and `HandlesResolve` in `server`;
`PictureIsNeighbourhood`, `WalkIsPath`, `StubsResolve` and `FusionKeepsRanks` in
`graph`; `PlanIsDag`, `RegistryIsFirstUsable` and `ProvenanceMatches` in
`skills`. Most of these have a weaker part that holds while others write and a
stronger one for a reader who was alone; `since` and `torn` tell the two apart.

**Fairness.** `Scheduler`: `WF_vars(Step(r))`: a thread that is inside `run` and
can take a step takes one. Nothing in `run` waits for another thread, for a user
or for an operator, so the interpreter's scheduling is all this needs.
Submitting, approving, parking and releasing are never obliged.

`FeedCron!Fairness`: a thread that can go on does, and `feed_provider` returns or
raises at some time. Nothing obliges the owner to stop or to start anything, nor
the join to end before its timeout.

`Pipeline!Fairness`: a request that is inside `run` goes on. The model, the script
and the database answer or raise; the last loop ends because the other requests
append finitely many spans.

`AgentLoop`: `WF_vars(Step)`, the steps of a loop that has begun: the model, the
approver, the hooks and the tools answer. It is not assumed that any of them ever
raises, nor that a run is begun; the registry is changed finitely often.

The other modules state safety only.

**Deadlock** is checked in `graph` and `skills`, where the reader can always ask
again and the process always start or exit. Elsewhere it is not: when all
submissions are used up and all threads are outside `run`, the system rests; so
do the knowledge base when its calls are used up, the pipeline and the cron when
their requests and ticks are, the agent loop after its last run, and the server
when its client is done or its process is dead.

**Findings.** `race`: `docs/OPENFANG_BOOK.md:313` says that once tokens are
consumed atomically; `has_token` reads a token and pops it by index in two steps
without a lock. Two requests can both be allowed by one once token. On CPython
3.9, which `pyproject.toml` admits, threads may switch between any two
bytecodes; on later versions they may still switch after a call, such as the
`startswith` of the prefix match.

`manual`: `kb/reconciler.py:6` says that manually inserted edges are never
touched (so do `docs/OPENFANG_BOOK.md` and `v8-plan.md`). The reconciler knows a
manual edge by its missing self-wire label, but `add_edge` is INSERT OR IGNORE:
over an edge that the self-wirer has put there it changes nothing, the label
stays, and the edge goes when the paper's text no longer bears it out.

`cronstop`: `eval/feed_cron.py:12` says to call `stop()` to shut down cleanly.
`stop` waits for its timeout at most and forgets the thread in either case; the
next `start` finds no thread, clears the event that the old loop shares with the
new one, and both go on. The shortest trace has the old loop between two ticks;
a `feed_provider` that takes longer than the timeout is the practical case.

**Noted without a run.** Things met while translating; the models do what the
code does.

*Pipeline and verification.* `kb/promote.py:3` says that nothing enters without
a source identifier; `can_promote` asks for any cited evidence with one, and
`promote_report` then files the claim under the first cited evidence, which may
have none. `v6-plan.md:91` promises one attribution tuple per failure;
`classify` gives a claim that the critic downgraded one for the critic and, since
the claim is now unverified and its note names no tier, another for the
synthesis or the mutation probe. The note of a rejection may quote evidence or an
error that contains the words "not found" or "lexical overlap", and is then
attributed to the synthesis (`PrimitiveOf`). The rules for missing skills and a
missing plan cannot fire after `run`. The degradation monitor's
`verdict_flip_rate` counts verified claims with a note, of which
`RejectionsExplained` says there are none: it is always zero. A run stores the
spans of earlier and concurrent runs again (`pipeline.py:92-95`);
`SpansRemembered` only says that its own are among them. A scheduler with
`max_attempts=0` fails every node by an assertion, and `last_sandbox_handles` is
keyed by node ids that every plan shares, never cleared and read by nobody.

*Knowledge base and cron.* `eval/feed_cron.py:3` says that new papers are
imported, and `v5-plan.md:136` that ids already in the KB are skipped: the ids are
read once per tick and `upsert_paper` overwrites, so that a paper stored meanwhile
loses its abstract (`Import`). With `OPEN_FANG_FEED_MAX_IMPORTS=0` a tick still
imports one paper, since the cap is tested after an import (`CapKept` says so).
`v8-plan.md` and the book say that `upsert_paper` runs the self-wirer and the
reconciler, which nothing in the code does; the model leaves those calls to the
caller, in any order.

*Graph reads.* An edge of a picture may lead to a paper that is not stored. The
stub of evidence without an identifier resolves to nothing, and the stub of a
paper rewritten meanwhile shows the new text. `embed_pending` only fills in
missing rows: the embedding of a rewritten paper, or one of another model, stays.
Evidence without an identifier appears twice in a fused ranking. The docstrings
of `cascades.py` (10-12) and `synthesize.py` (4-6) speak of filters that the code
does not have.

*Agent loop.* The docstring of the resolver gives the order deny, ask, allow,
mode; the code tests the modes bypass and plan before ask. A comment says of
acceptEdits that edits run and everything else asks; only destructive tools do. A
reply that ends its turn may carry calls, which are neither run nor answered. A
block by a hook after the call is ignored.

*MCP server.* `server.py` says in its first lines that it returns a response for
every request; a message that is no object, or whose params are none, raises, and
ends `run_stdio`. Over HTTP without a limiter argument every request is measured
by a new, empty one (`AuthorizeUnmeasured`). The limiter is not safe to share
between threads, and nothing under `src/` does. `memory.search` with a query looks
at the newest 200 observations only.

*Planner and skills.* A reply that is JSON but a list or a number raises
AttributeError before the fallback to the canonical plan that the module's
docstring promises, in the planner and in the diagnostician alike; a plan deeper
than the stack raises RecursionError. The names that the extractor gives
("learned-a+b") break the rule for names in `validate_skill`, and two clusters can
get the same one: that of the skills `learned-x` and `y`, and that of
`learned-x+y` alone. A crash between SKILL.md and .provenance.json leaves a skill without a
provenance or with an old one, and the loader takes it.

## 4. Proofs

Every invariant and every action property that a passing run checks is also a
theorem, proved by TLAPS for every value of the constants. The assumptions on the
constants (`SchedulerAssumption`, `PermissionAssumption`, and so on, one in each
module that declares constants) give them their types, and little more: that the
owner of a cron is not one of its threads, that a window is at least one tick, that
`Scale` is a multiple of every denominator a fused score can have. The bounds that
runs need - how many grants, ticks, calls or writes - are any natural numbers.
Two theorems about one thread and two about one writer say so: their hypothesis
is `OneThread` or `SingleWriter`.

Nearly all of these invariants say something about finished work, and a step taken
half-way through would break any of them. So the pattern is the same throughout: an
inductive invariant says, for each place where a handler can be, how much of the
property holds there already and what is still owed; the steps of a handler pay
it off one by one; and the property is what is left when nothing is owed. The
inductive invariants are named in the modules of the proofs, each with a comment.

### Scheduler core (`SchedulerProofs.tla`)

* `TypeCorrect`: `SafeSpec => []TypeOK`;
* `DependencyOrder`: `SafeSpec => []DecidedAfterDependencies`;
* `Quiescence`: `SafeSpec => []QuiescentAtReturn`;
* `ApprovalBeforeExecution`: `SafeSpec => []GatedNodesApproved`;
* `ReportsAreTrue`: `SafeSpec => []ReportedOnce`;
* `TraceIsTrue`: `SafeSpec => []TraceMatchesOutcome`;
* `DispatchesAreAccounted`: `SafeSpec => []DispatchesAccounted`;
* `TokensAreAccounted`: `OneThread => (SafeSpec => []TokensAccounted)`;
* `StandingApprovals`: `OneThread => (SafeSpec => StandingApprovalHonoured)`;
* `ImplementsSteps`: each thread's run starts as `DagRun` does and every step of
  it is a step of `DagRun` or a stutter (`StepsOfDagRun`).

`TypeOK` alone is not inductive: `cursor` may be one past the last node, and `held`
is any number outside `pop`. `TypeInv` adds that a thread in `check`, `pop` or
`exec` is at a node that is still ready (`AtWork`) and that a thread about to pop
holds a granted token that covers its node (`HoldsToken`). `StepIsLocal` says that a
step of one thread leaves the other threads' runs alone, so that every further
invariant can be shown one thread at a time; `StepEffect` sums up what any step does
to the DAG of its own thread: nothing, or the decision of one ready node.
`DependencyOrder` follows from it at once. For `Quiescence`, `Scanned` says that a
pass without progress leaves only unready nodes behind it, and `PassesBounded` that
every completed pass has executed at least one node, so that there are at most N of
them and the bound of 3 * N is reached only when N = 0. For
`ApprovalBeforeExecution`, `ExecutionCovered` says that a gated node in `exec` is
covered by some granted token - not by one still in the list, which another thread
may have popped - and `DoneCovered` the same of a done one; `granted` only grows.
`ImplementsSteps` goes action by action: those that decide a node map to `DagRun`'s
decisions by `StepEffect`, `Return` to its return by `Quiescence`'s invariant, and
all others to stutters.

The lists that `run` returns (`Reported`) hold exactly the nodes of that status,
each once. The spans are accounted by submission: `Numbered` says that runs have
numbers of their own, so that a recorder which all runs share can be read one run at
a time, and `Traced` that a run has one span for each node it has decided, with the
status of that node. `Balanced` counts: what a specialist was dispatched less what
it failed is the number of good spans of its kinds.

With one thread the registry lists exactly the tokens that are not spent
(`TokenInv`), and a thread that asks has passed over no token that covers its node
(`Asking`); so the index that `pop` uses still points at the token that was read,
and a standing approval is always found. The run `race` shows that both need the
hypothesis.

### Knowledge base (`KnowledgeBaseProofs.tla`)

* `PlainRowsSafe`: `Spec => PlainRowsKept`, for any number of writers;
* `WiredEdgesJoinPapers`: `Spec => []WiredEdgesResolve`, likewise;
* `TablesAgreeForOneWriter`: `SingleWriter => (Spec => []TablesAgree)`;
* `ReconciledAtomicallyByOneWriter`: `SingleWriter => (Spec => []ReconciledAtomically)`.

The committed plain rows are always among the executed ones (`PlainInv`): every
statement keeps the plain rows of `db`, a commit makes `disk` equal to `db`, and a
crash makes `db` equal to `disk`. `StoreOK` follows an edge to every place it can
come from - the rows, the statements that calls under way have yet to issue, the
result of `process`, the cache of known ids - and says that each knows stored papers
only; papers are never deleted.

`Upserting` says where an upsert can be (before it, at the row, between the deletion
and the insertion of the index entry), and that the index mirrors the table but for
the paper at work (`Mirrors`); commits come only where no paper is odd. `Replacing`
does the same for a reconciliation: `Midway` splits the edges of the paper into those
already replaced, those it has yet to delete and those it has yet to insert, in
whatever order the loops take them. Other calls leave edges as they were
(`Ordinary`). With a second writer a commit may come in between, and both fail.

### Feed cron (`FeedCronProofs.tla`)

* `FeedCronTypeCorrect`, `OneLoopAtATime`, `CapIsKept` and `TicksAreComplete`:
  `SafeSpec` implies `[]TypeOK`, `[]OneLoop`, `[]CapKept`, `[]BelowCapComplete`.

`OneLoop` is inductive given the types. `CapKept` is not: an import is allowed at any
entry. `CapInv` adds that a worker with an entry to look at is below its cap or has
imported nothing, and that one outside the import loop has imported nothing. For
`TicksAreComplete`, `Coverage` says that the ids a worker has read or added are
stored, and that each paper of its feed is ahead of it, stored, or failed, unless the
cap has ended the loop.

### Pipeline (`PipelineProofs.tla`)

* `RejectionsAreExplained`, `PromotionIsAccounted`, `SpansAreRemembered`,
  `FailuresAreAttributed`: `Spec` implies `[]RejectionsExplained`,
  `[]PromotionMatchesReport`, `[]SpansRemembered`, `[]FailuresAttributed`.

One invariant `Inv` for all four, as the later stages read what the earlier ones
wrote. `VerdictsOK` says that the verifier has decided the claims before its place in
the list and left the others as the writer made them, and that no tier left a mark on
a claim which an earlier one rejected. `CountsOK` relates the counts of the report to
the claims, `FiledOK` the library to the claims that promotion has passed, and
`MemoryOK` the stored spans to those in the recorder, to which other requests append
at any time; `Attributed` says that what was attributed still follows from the report.

### Agent loop (`AgentLoopProofs.tla`)

* `AgentTypeCorrect`, `ToolRunsAreVetted`, `TurnsArePaired`, `TracerIsConsistent`:
  `Spec` implies `[]AgentTypeOK`, `[]RunsVetted`, `[]TurnsPaired`,
  `[]TracerConsistent`.

`VetOK` carries what a decision rests on - the tool that was looked up, the answer
of the resolver, of the approver and of the hooks - from the step that took it to the
run of the tool, however the registry changes in between. `Conversation` is about a
transcript: the system message is first, a message of results follows the reply whose
calls it answers, and a reply that is not the last is answered or ended its turn. It
holds of the loop's own transcript and of the one it
returned, from which the next run may start. `TracerOK` describes the stack of open
spans level by level (`On`): what is open is what the loop is inside of, so that ids
are distinct and the parent of each span is there and of the right kind (`Nested`).
The calls that were counted, less those refused, are the spans of tools, but for a
call under way and those of runs that raised (`Missing`). `CountsOK` relates the
counts of a result to its transcript and to the results it has yet to tell.

### MCP server, rate limiter and memory (`McpServerProofs.tla`)

* `LimitHolds`: `LimiterSpec => []SpacedOut`, of the limiter by itself, with an
  unbounded clock;
* `ServerImplementsLimiter`: `Spec => LimiterSpec`, and with it `ServerKeepsLimit`:
  `Spec => []SpacedOut` of the whole server;
* `TimelineIsComplete`: `Spec => []TimelineComplete`;
* `HandlesAreResolved`: `Spec => []HandlesResolve`;
* `ServerTypeCorrect`: `Spec => []TypeOK`.

`SpacedOut` is about the log of everything that was let in, of which the code keeps
only the deque. `WindowEndsLog` says that the deque is the end of that log and that
what was dropped had left the window by now; `EvictedWereExpired` says the same by
the time that the running request has read, which is needed because the clock may go
on between reading it and the answer. When a request is let in, the deque has fewer
than `Limit` entries, so the entry `Limit` places before the new one is a dropped
one.

A server stays the host it was started as (`HostStays`), whose token is one the
limiter knows, and each step of the server, of the agent beside it and of the clock
is one of the limiter or leaves it alone (`ServerStepsLimiter`).

The timeline only grows at its new end while a client pages through it from there,
so that what the client has seen is a part of the timeline shifted by what has
been added since (`Paging`, `Counting`); a page repeats entries but never skips one.
`MemoryInv` says that a batch being stored is in the table up to the loop's place
(`Storing`), that a handle which was returned resolves both for the connection and on
disk (`Resolved`), and what the buffer keeps of the turns (`Buffered`).

### Reads of the knowledge graph (`KnowledgeGraphProofs.tla`)

* `PicturesAreNeighbourhoods`, `StubsAreResolved`, `WalksArePaths`,
  `FusionKeepsTheRanks`: `Spec` implies `[]PictureIsNeighbourhood`, `[]StubsResolve`,
  `[]WalkIsPath`, `[]FusionKeepsRanks`.

A picture is right for two reasons. While others write, `Picturing` holds: the queue
is ordered by distance and no paper seen is more than a hop further than the one at
work (`NearestFirst`), and every paper but the seed hangs by a drawn edge on one that is
a hop nearer (`Hanging`). For a reader who was alone, `Surveying` adds that the distances are
never too short, that papers which had their turn have all their edges drawn, and
that everything as near as the paper at work has been seen (`Survey`). That the
search and `Within`, which is defined by recursion on the number of hops, agree goes by
paths: `Reach` says that a number of hops suffices, and `WithinIsNear` unfolds the
recursion.

`Wandering` keeps a walk a path over the edges as they were read, `Briefing` and
`Fetching` that of its answers; `Stubbing` keeps a stub with the paper it is of.
`FusionKeepsTheRanks` rests on an order: ranking is by a strict total order of a
finite set, in which counting those before gives each its own place
(`PlacedBy`), so that a list is a ranking whatever the scores were; `Scale` makes the
shares of a fused score exact, for any `Limit`.

### Planner, skills and the arena (`ArenaProofs.tla`)

* `PlansAreDags`, `RegistryIsFirst`, `ProvenanceFits`: `Spec` implies `[]PlanIsDag`,
  `[]RegistryIsFirstUsable`, `[]ProvenanceMatches`, all from `ArenaCorrect`:
  `Spec => []ArenaInv`;
* `LoadKeepsFirstUsable`: what the loader keeps of any files in any order.

`OnPath` says that the stack of the search is a path of dependencies that does not
come back to itself, and `Explored` that a visited node which is not on it leads to
visited nodes only; so when the search ends without a cycle there is none. A path that
does not come back has at most as many nodes as the plan, which bounds the nesting.
`LoadedSoFar` says of the loader, after the first files, that it has the first usable
one of each name. `ShelfOK` says that what the arena writes it can read again
(`RenderedParses`), and that the two files of a skill fit each other (`Fits`) unless
the arena is between them or a crash came there (`HalfWritten`).

### Recursive functions

The library's induction theorems take an operator as a parameter, which the provers
at hand cannot instantiate. Where a proof needs what a fold or a recursive
function computes, it argues by the least number at which something first goes wrong
(`LeastNumber`, from the library's `WFMin`): so for the folds by which skills are
loaded and clusters are scored, and for `Within`.

### Only model-checked

Liveness: `RunsEnd` of the scheduler and of the agent loop, `RequestsEnd`,
`StoppedLoopsEnd`, and the fairness part of `ImplementsDagRun` (its steps are
`ImplementsSteps`). They need ENABLED and fairness, which this prover does not reason
about.

## 5. Not modelled

* Network adapters (`sources/` but for `delta.py`, the providers' HTTP), prompts
  and the parsing of texts: one request and its reply, of which the models take
  every outcome, an exception included.
* `kb/cascades.py`, `merkle.py`, `backlink.py`, `graph_metrics.py`, `passk.py`:
  one query or one formula each, with nothing in `src/` that calls them; entities,
  embedders and decontamination: arithmetic over single records. The reranker of
  `HybridSearch` is absent in the model.
* `skills/tree.py` (a category that has a skill of its own hides or loses its
  leaves), `validate_skill` and the rendering for other agents: pure functions of
  loaded skills.
* `verify/halt.py`, `router.py`, `cross_model.py`, `symbolic.py`,
  `cross_channel.py`, `synthesize/compression.py`: functions of a claim or a report
  that the pipeline does not call.
* The loop detector and the cost router of the scheduler, and the degradation
  monitor: not called, or a table. `supervisor/isolated.py` ends as a
  dispatch does, with a result or with an error, and nothing constructs it.
* `memory/context.py`, `progressive.py`, `fang.py`, `retrieval.py`, `validity.py`:
  reads, or arithmetic on dates.
* Rendering, the command line and the TUI, exporters, security probes and the
  red-team corpus: presentation, and tables without state.

`PROJECT.json` lists every component with its status.
