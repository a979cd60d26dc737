------------------------------ MODULE FeedCron ------------------------------
(***************************************************************************)
(* FeedCron (open_fang/eval/feed_cron.py): a thread that pulls a list of   *)
(* papers and imports the new ones into the knowledge base, while its      *)
(* owner starts and stops it and others store papers too.                  *)
(*                                                                         *)
(* The owner may also call tick() itself, which the tests do: Worker is    *)
(* the owner and the threads that start() creates, one fresh thread for    *)
(* each call.  A statement of tick() that may block, fail or be overtaken  *)
(* is a step.  The feed is the sequence of distinct papers that parse_feed *)
(* returns.  Of the statistics only ticks_run is kept, and of the errors   *)
(* which papers they were about.                                           *)
(***************************************************************************)
EXTENDS Integers, Sequences, FiniteSets

CONSTANTS
  Paper,        \* identifiers of papers
  OthersPapers, \* the papers that other components may store
  Feeds,        \* what the provider may return, as sequences of papers
  Thread,       \* the threads that start() may create
  Owner,        \* the caller of start, stop and tick
  NoThread,     \* None
  MaxImports,   \* max_imports_per_tick
  Chunks,       \* the interval, in chunks of sleep
  MaxTicks      \* bound: how many ticks are begun

Worker == Thread \cup {Owner}

ASSUME FeedCronAssumption ==
  /\ Owner \notin Thread
  /\ NoThread \notin Worker
  /\ OthersPapers \subseteq Paper
  /\ Feeds \subseteq Seq(Paper)
  /\ MaxImports \in Int
  /\ Chunks \in Nat
  /\ MaxTicks \in Nat

VARIABLES
  kept,       \* the papers in the store with the content others gave them
  stubs,      \* the papers in the store with the stub that tick() writes
  pc,         \* where each worker is
  feed,       \* the entries each worker has yet to look at
  existing,   \* the ids each worker has read or added
  imported,   \* how many papers each worker's tick has imported
  naps,       \* the chunks each thread has yet to sleep
  stopEvent,  \* _stop_event
  thread,     \* _thread
  joining,    \* the owner is inside stop(), in join()
  ticks,      \* stats.ticks_run
  failed,     \* the papers whose upsert raised in each worker's tick
  fetched,    \* history: the whole feed of each worker's tick
  told,       \* history: the threads stop() was called on
  abandoned   \* history: the threads that stop() did not wait for to the end

store == <<kept, stubs>>
tick == <<feed, existing, imported, failed, fetched>>
control == <<stopEvent, thread, joining, told, abandoned>>
vars == <<store, pc, tick, naps, control, ticks>>

Stored == kept \cup stubs
Alive == {t \in Thread : pc[t] \notin {"new", "ended"}}
AtRest == [w \in Worker |-> IF w = Owner THEN "ended" ELSE "new"]
Went(w, where) == pc' = [pc EXCEPT ![w] = where]

Init ==
  /\ kept = {} /\ stubs = {}
  /\ pc = AtRest
  /\ feed = [w \in Worker |-> <<>>]
  /\ fetched = [w \in Worker |-> {}]
  /\ existing = [w \in Worker |-> {}]
  /\ imported = [w \in Worker |-> 0]
  /\ failed = [w \in Worker |-> {}]
  /\ naps = [w \in Worker |-> 0]
  /\ stopEvent = FALSE /\ thread = NoThread /\ joining = FALSE
  /\ told = {} /\ abandoned = {}
  /\ ticks = 0

-----------------------------------------------------------------------------
(* The owner.  start() and stop() do nothing while it is busy.             *)
OwnerFree == ~joining /\ pc[Owner] = "ended"

\* Faulty variant: any start() creates a thread.
AnyTime == TRUE

NoLoopRuns == thread \notin Alive

Start ==
  /\ OwnerFree
  /\ NoLoopRuns
  /\ stopEvent' = FALSE
  /\ \E t \in Thread : pc[t] = "new" /\ thread' = t /\ Went(t, "test")
  /\ UNCHANGED <<store, tick, naps, joining, told, abandoned, ticks>>

\* stop() sets the event and, if it has a thread, joins it.
Stop ==
  /\ OwnerFree
  /\ stopEvent' = TRUE
  /\ joining' = (thread # NoThread)
  /\ told' = told \cup ({thread} \ {NoThread})
  /\ UNCHANGED <<store, pc, tick, naps, thread, abandoned, ticks>>

JoinEnds ==
  /\ joining
  /\ thread \notin Alive
  /\ joining' = FALSE
  /\ thread' = NoThread
  /\ UNCHANGED <<store, pc, tick, naps, stopEvent, told, abandoned, ticks>>

JoinTimesOut ==
  /\ joining
  /\ thread \in Alive
  /\ joining' = FALSE
  /\ thread' = NoThread
  /\ abandoned' = abandoned \cup {thread}
  /\ UNCHANGED <<store, pc, tick, naps, stopEvent, told, ticks>>

-----------------------------------------------------------------------------
(* tick(), by any worker w.                                                *)
BeginTick(w) ==
  /\ ticks < MaxTicks
  /\ ticks' = ticks + 1
  /\ Went(w, "fetch")
  /\ UNCHANGED <<store, tick, naps, control>>

OwnerTicks == OwnerFree /\ BeginTick(Owner)

Rest == [w \in Worker |-> IF w = Owner THEN 0 ELSE Chunks]

\* The locals of tick() go with it.
Forget(w) ==
  /\ feed' = [feed EXCEPT ![w] = <<>>]
  /\ fetched' = [fetched EXCEPT ![w] = {}]
  /\ existing' = [existing EXCEPT ![w] = {}]
  /\ imported' = [imported EXCEPT ![w] = 0]
  /\ failed' = [failed EXCEPT ![w] = {}]

\* tick() returns, and a thread begins its sleep.
TickReturns(w) ==
  /\ Forget(w)
  /\ Went(w, IF w = Owner THEN "ended" ELSE "sleep")
  /\ naps' = [naps EXCEPT ![w] = Rest[w]]

FetchRaises(w) ==
  /\ pc[w] = "fetch"
  /\ TickReturns(w)
  /\ UNCHANGED <<store, control, ticks>>

Fetch(w) ==
  /\ pc[w] = "fetch"
  /\ \E f \in Feeds :
       /\ feed' = [feed EXCEPT ![w] = f]
       /\ fetched' = [fetched EXCEPT ![w] = {f[n] : n \in DOMAIN f}]
  /\ Went(w, "list")
  /\ UNCHANGED <<store, existing, imported, failed, naps, control, ticks>>

List(w) ==
  /\ pc[w] = "list"
  /\ existing' = [existing EXCEPT ![w] = Stored]
  /\ Went(w, "import")
  /\ UNCHANGED <<store, feed, imported, failed, fetched, naps, control, ticks>>

\* Nothing catches an error here: a thread ends, the owner gets it.
ListRaises(w) ==
  /\ pc[w] = "list"
  /\ Forget(w)
  /\ Went(w, "ended")
  /\ UNCHANGED <<store, naps, control, ticks>>

AtEntry(w) == pc[w] = "import" /\ feed[w] # <<>>

\* Faulty variant: one import too many.
CapExceeded(n) == n > MaxImports

\* The loop leaves after an entry once the cap is reached.
CapReached(n) == n >= MaxImports

\* Faulty variant: an error ends the loop too.
GoOnUnlessFailed(w, n) ==
  feed' = [feed EXCEPT ![w] = IF CapReached(n) \/ n = imported[w] THEN <<>> ELSE Tail(@)]

GoOn(w, n) ==
  feed' = [feed EXCEPT ![w] = IF CapReached(n) THEN <<>> ELSE Tail(@)]

SkipKnown(w) ==
  /\ AtEntry(w)
  /\ Head(feed[w]) \in existing[w]
  /\ feed' = [feed EXCEPT ![w] = Tail(@)]
  /\ UNCHANGED <<store, pc, existing, imported, failed, fetched, naps, control, ticks>>

\* Faulty variant: what others gave the paper stays beside the stub.
ImportBeside(w) ==
  /\ AtEntry(w)
  /\ Head(feed[w]) \notin existing[w]
  /\ stubs' = stubs \cup {Head(feed[w])}
  /\ existing' = [existing EXCEPT ![w] = @ \cup {Head(feed[w])}]
  /\ imported' = [imported EXCEPT ![w] = @ + 1]
  /\ GoOn(w, imported[w] + 1)
  /\ UNCHANGED <<kept, pc, failed, fetched, naps, control, ticks>>

Import(w) ==
  /\ AtEntry(w)
  /\ LET p == Head(feed[w])
     IN /\ p \notin existing[w]
        /\ kept' = kept \ {p}
        /\ stubs' = stubs \cup {p}
        /\ existing' = [existing EXCEPT ![w] = @ \cup {p}]
  /\ imported' = [imported EXCEPT ![w] = @ + 1]
  /\ GoOn(w, imported[w] + 1)
  /\ UNCHANGED <<pc, failed, fetched, naps, control, ticks>>

ImportRaises(w) ==
  /\ AtEntry(w)
  /\ Head(feed[w]) \notin existing[w]
  /\ failed' = [failed EXCEPT ![w] = @ \cup {Head(feed[w])}]
  /\ GoOn(w, imported[w])
  /\ UNCHANGED <<store, pc, existing, imported, fetched, naps, control, ticks>>

EndTick(w) ==
  /\ pc[w] = "import"
  /\ feed[w] = <<>>
  /\ TickReturns(w)
  /\ UNCHANGED <<store, control, ticks>>

-----------------------------------------------------------------------------
(* _loop(), in thread t.                                                   *)
\* Faulty variant: the loop does not look at the event between ticks.
Unstopped == TRUE

MayTick == ~stopEvent

LoopTicks(t) == pc[t] = "test" /\ MayTick /\ BeginTick(t)

LoopEnds(t) ==
  /\ pc[t] = "test"
  /\ ~MayTick
  /\ Went(t, "ended")
  /\ UNCHANGED <<store, tick, naps, control, ticks>>

Sleep(t) ==
  /\ pc[t] = "sleep"
  /\ naps[t] > 0 /\ ~stopEvent
  /\ naps' = [naps EXCEPT ![t] = @ - 1]
  /\ UNCHANGED <<store, pc, tick, control, ticks>>

Wake(t) ==
  /\ pc[t] = "sleep"
  /\ naps[t] = 0 \/ stopEvent
  /\ Went(t, "test")
  /\ UNCHANGED <<store, tick, naps, control, ticks>>

-----------------------------------------------------------------------------
\* Another component stores p, a promotion for instance.
Curate(p) ==
  /\ kept' = kept \cup {p}
  /\ stubs' = stubs \ {p}
  /\ UNCHANGED <<pc, tick, naps, control, ticks>>

TickStep(w) ==
  \/ Fetch(w) \/ FetchRaises(w) \/ List(w) \/ ListRaises(w)
  \/ SkipKnown(w) \/ Import(w) \/ ImportRaises(w) \/ EndTick(w)

LoopStep(t) == LoopTicks(t) \/ LoopEnds(t) \/ Sleep(t) \/ Wake(t)

Next ==
  \/ Start \/ Stop \/ JoinEnds \/ JoinTimesOut \/ OwnerTicks
  \/ \E w \in Worker : TickStep(w)
  \/ \E t \in Thread : LoopStep(t)
  \/ \E p \in OthersPapers : Curate(p)

SafeSpec == Init /\ [][Next]_vars

\* A thread that can go on does, and the provider returns or raises.
Fairness ==
  /\ \A w \in Worker : WF_vars(TickStep(w))
  /\ \A t \in Thread : WF_vars(LoopStep(t))

Spec == SafeSpec /\ Fairness
-----------------------------------------------------------------------------
(* Properties.                                                             *)

(* Every variable has its type; no paper has two contents.                 *)
TypeOK ==
  /\ kept \subseteq Paper /\ stubs \subseteq Paper
  /\ kept \cap stubs = {}
  /\ pc \in [Worker -> {"new", "test", "fetch", "list", "import", "sleep", "ended"}]
  /\ feed \in [Worker -> Seq(Paper)]
  /\ fetched \in [Worker -> SUBSET Paper]
  /\ existing \in [Worker -> SUBSET Paper]
  /\ imported \in [Worker -> Nat]
  /\ failed \in [Worker -> SUBSET Paper]
  /\ naps \in [Worker -> 0..Chunks]
  /\ stopEvent \in BOOLEAN /\ joining \in BOOLEAN
  /\ thread \in Thread \cup {NoThread}
  /\ told \subseteq Thread /\ abandoned \subseteq Thread
  /\ ticks \in 0..MaxTicks

(* At most one loop runs besides those that a stop() gave up waiting for,  *)
(* whatever the order of start, stop and the errors that end a loop.       *)
OneLoop == Alive \ abandoned \subseteq {thread}

(* No tick imports more than the cap, or than one paper if the cap is less *)
(* than one: the cap is tested after an import.                            *)
CapKept ==
  \A w \in Worker : imported[w] <= IF MaxImports < 1 THEN 1 ELSE MaxImports

(* A tick that ends below the cap leaves out no paper of its feed but      *)
(* those whose upsert raised: an error costs one entry, not the rest.      *)
BelowCapComplete ==
  \A w \in Worker :
    pc[w] = "import" /\ feed[w] = <<>> /\ ~CapReached(imported[w])
      => fetched[w] \ failed[w] \subseteq Stored

(* Unless the event is cleared by a start(), every loop ends once stop()   *)
(* is called, in whatever part of a tick or of its sleep it is.            *)
StoppedLoopsEnd == [](stopEvent => <>(~stopEvent \/ Alive = {}))

(* stop() shuts a loop down: a thread that was told to stop begins no tick *)
(* any more (the docstring's "shut down cleanly").                         *)
StopIsFinal ==
  [][\A t \in told : pc[t] = "test" => pc'[t] # "fetch"]_vars
=============================================================================
