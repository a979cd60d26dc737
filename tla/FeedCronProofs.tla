--------------------------- MODULE FeedCronProofs ---------------------------
(* What holds of FeedCron for every feed, cap, interval and set of threads. *)
EXTENDS FeedCron, TLAPS

-----------------------------------------------------------------------------
(* Typing.                                                                  *)
LEMMA TypeInit == Init => TypeOK
<1> SUFFICES ASSUME Init PROVE TypeOK
  OBVIOUS
<1>1. <<>> \in Seq(Paper)
  OBVIOUS
<1>2. feed \in [Worker -> Seq(Paper)]
  BY <1>1 DEF Init
<1>3. 0 \in 0..Chunks /\ 0 \in 0..MaxTicks
  BY FeedCronAssumption
<1>4. naps \in [Worker -> 0..Chunks] /\ ticks \in 0..MaxTicks
  BY <1>3 DEF Init
<1> QED
  BY <1>2, <1>4 DEF Init, TypeOK, AtRest

(* What the owner does keeps the types.                                     *)
LEMMA OwnerTypes ==
  ASSUME TypeOK, Start \/ Stop \/ JoinEnds \/ JoinTimesOut
  PROVE  TypeOK'
<1> USE DEF TypeOK, Worker, Went, store, tick
<1>1. CASE Start
  BY <1>1 DEF Start
<1>2. CASE Stop
  BY <1>2 DEF Stop
<1>3. CASE JoinEnds
  BY <1>3 DEF JoinEnds
<1>4. CASE JoinTimesOut
  BY <1>4, thread \in Thread DEF JoinTimesOut, Alive
<1> QED
  BY <1>1, <1>2, <1>3, <1>4

LEMMA TickTypes ==
  ASSUME TypeOK, NEW w \in Worker, TickStep(w)
  PROVE  TypeOK'
<1> USE DEF TypeOK
<1>1. CASE Fetch(w)
  <2>1. PICK f \in Feeds :
          /\ feed' = [feed EXCEPT ![w] = f]
          /\ fetched' = [fetched EXCEPT ![w] = {f[n] : n \in DOMAIN f}]
    BY <1>1 DEF Fetch
  <2>2. f \in Seq(Paper)
    BY <2>1, FeedCronAssumption
  <2>3. {f[n] : n \in DOMAIN f} \subseteq Paper
    BY <2>2
  <2> QED
    BY <1>1, <2>1, <2>2, <2>3 DEF Fetch, Went, store, control
<1>2. CASE FetchRaises(w) \/ EndTick(w)
  <2>1. Rest[w] \in 0..Chunks
    BY FeedCronAssumption DEF Rest
  <2>2. pc' \in [Worker -> {"new", "test", "fetch", "list", "import", "sleep", "ended"}]
    BY <1>2 DEF FetchRaises, EndTick, TickReturns, Went
  <2>3. naps' \in [Worker -> 0..Chunks]
    BY <1>2, <2>1 DEF FetchRaises, EndTick, TickReturns
  <2>4. UNCHANGED <<store, control, ticks>> /\ Forget(w)
    BY <1>2 DEF FetchRaises, EndTick, TickReturns
  <2> QED
    BY <2>2, <2>3, <2>4 DEF Forget, store, control
<1>3. CASE List(w)
  BY <1>3 DEF List, Went, Stored, store, control
<1>4. CASE ListRaises(w)
  BY <1>4 DEF ListRaises, Forget, Went, store, control
<1>5. CASE SkipKnown(w)
  BY <1>5 DEF SkipKnown, AtEntry, store, control
<1>6. CASE Import(w)
  <2>1. Head(feed[w]) \in Paper /\ Tail(feed[w]) \in Seq(Paper)
    BY <1>6 DEF Import, AtEntry
  <2>2. PICK f \in Seq(Paper) : feed' = [feed EXCEPT ![w] = f]
    <3>1. <<>> \in Seq(Paper)
      OBVIOUS
    <3> QED
      BY <1>6, <2>1, <3>1 DEF Import, GoOn
  <2>3. feed' \in [Worker -> Seq(Paper)]
    BY <2>2
  <2>4. /\ kept' \subseteq Paper /\ stubs' \subseteq Paper
        /\ kept' \cap stubs' = {}
        /\ existing' \in [Worker -> SUBSET Paper]
    BY <1>6, <2>1 DEF Import
  <2>5. imported' \in [Worker -> Nat]
    BY <1>6 DEF Import
  <2>6. UNCHANGED <<pc, failed, fetched, naps, control, ticks>>
    BY <1>6 DEF Import
  <2> QED
    BY <2>3, <2>4, <2>5, <2>6 DEF control
<1>7. CASE ImportRaises(w)
  <2>1. Head(feed[w]) \in Paper /\ Tail(feed[w]) \in Seq(Paper)
    BY <1>7 DEF ImportRaises, AtEntry
  <2>2. PICK f \in Seq(Paper) : feed' = [feed EXCEPT ![w] = f]
    <3>1. <<>> \in Seq(Paper)
      OBVIOUS
    <3> QED
      BY <1>7, <2>1, <3>1 DEF ImportRaises, GoOn
  <2>3. feed' \in [Worker -> Seq(Paper)]
    BY <2>2
  <2> QED
    BY <1>7, <2>1, <2>3 DEF ImportRaises, store, control
<1> QED
  BY <1>1, <1>2, <1>3, <1>4, <1>5, <1>6, <1>7 DEF TickStep

LEMMA LoopTypes ==
  ASSUME TypeOK, NEW w \in Worker, BeginTick(w) \/ LoopEnds(w) \/ Sleep(w) \/ Wake(w)
  PROVE  TypeOK'
<1> USE DEF TypeOK, Went, store, tick, control
<1>1. CASE BeginTick(w)
  BY <1>1, FeedCronAssumption DEF BeginTick
<1>2. CASE LoopEnds(w)
  BY <1>2 DEF LoopEnds
<1>3. CASE Sleep(w)
  BY <1>3, FeedCronAssumption DEF Sleep
<1>4. CASE Wake(w)
  BY <1>4 DEF Wake
<1> QED
  BY <1>1, <1>2, <1>3, <1>4

LEMMA TypeStep == TypeOK /\ [Next]_vars => TypeOK'
<1> SUFFICES ASSUME TypeOK, [Next]_vars PROVE TypeOK'
  OBVIOUS
<1>1. CASE UNCHANGED vars
  BY <1>1 DEF TypeOK, vars, store, tick, control
<1>2. ASSUME NEW p \in OthersPapers, Curate(p) PROVE TypeOK'
  BY <1>2, FeedCronAssumption DEF TypeOK, Curate, tick, control
<1>3. CASE OwnerTicks
  BY <1>3, LoopTypes DEF OwnerTicks, Worker
<1>4. ASSUME NEW t \in Thread, LoopStep(t) PROVE TypeOK'
  BY <1>4, LoopTypes DEF LoopStep, LoopTicks, Worker
<1> QED
  BY <1>1, <1>2, <1>3, <1>4, OwnerTypes, TickTypes DEF Next

(* The state is well typed, and no paper has two contents, whatever fails   *)
(* and whoever stores papers while tick() runs.                             *)
THEOREM FeedCronTypeCorrect == SafeSpec => []TypeOK
BY TypeInit, TypeStep, PTL DEF SafeSpec

-----------------------------------------------------------------------------
(* One loop.                                                                *)

(* A step of a tick or of a loop creates no thread, and the owner's         *)
(* variables stay.                                                          *)
LEMMA WorkerCreatesNone ==
  ASSUME TypeOK, NEW w \in Worker,
         TickStep(w) \/ (BeginTick(w) /\ (w \in Thread => pc[w] = "test"))
         \/ LoopEnds(w) \/ Sleep(w) \/ Wake(w)
  PROVE  Alive' \subseteq Alive /\ UNCHANGED control
<1>1. UNCHANGED control
  BY DEF TickStep, Fetch, FetchRaises, List, ListRaises, SkipKnown, Import,
         ImportRaises, EndTick, BeginTick, LoopEnds, Sleep, Wake
<1>2. w \in Thread => pc[w] \notin {"new", "ended"}
  BY DEF TickStep, Fetch, FetchRaises, List, ListRaises, SkipKnown, Import,
         ImportRaises, EndTick, LoopEnds, Sleep, Wake, AtEntry
<1>3. \E where : pc' = pc \/ pc' = [pc EXCEPT ![w] = where]
  BY DEF TickStep, Fetch, FetchRaises, List, ListRaises, SkipKnown, Import,
         ImportRaises, EndTick, BeginTick, LoopEnds, Sleep, Wake, TickReturns, Went
<1> QED
  BY <1>1, <1>2, <1>3 DEF Alive, Worker, TypeOK

LEMMA OneLoopStep ==
  ASSUME TypeOK, OneLoop, [Next]_vars
  PROVE  OneLoop'
<1> USE DEF OneLoop
<1>1. CASE UNCHANGED vars
  BY <1>1 DEF vars, control, Alive
<1>2. CASE Start
  <2>1. PICK t \in Thread : thread' = t /\ pc' = [pc EXCEPT ![t] = "test"]
    BY <1>2 DEF Start, Went
  <2>2. Alive \ abandoned = {}
    BY <1>2 DEF Start, NoLoopRuns
  <2>3. Alive' \subseteq Alive \cup {t}
    BY <2>1 DEF Alive, TypeOK, Worker
  <2> QED
    BY <1>2, <2>1, <2>2, <2>3 DEF Start
<1>3. CASE Stop
  BY <1>3 DEF Stop, Alive
<1>4. CASE JoinEnds
  BY <1>4 DEF JoinEnds, Alive
<1>5. CASE JoinTimesOut
  BY <1>5 DEF JoinTimesOut, Alive
<1>6. CASE OwnerTicks
  BY <1>6, WorkerCreatesNone, FeedCronAssumption DEF OwnerTicks, Worker, control
<1>7. ASSUME NEW w \in Worker, TickStep(w) PROVE OneLoop'
  BY <1>7, WorkerCreatesNone DEF control
<1>8. ASSUME NEW t \in Thread, LoopStep(t) PROVE OneLoop'
  BY <1>8, WorkerCreatesNone DEF LoopStep, LoopTicks, Worker, control
<1>9. ASSUME NEW p \in OthersPapers, Curate(p) PROVE OneLoop'
  BY <1>9 DEF Curate, Alive, control
<1> QED
  BY <1>1, <1>2, <1>3, <1>4, <1>5, <1>6, <1>7, <1>8, <1>9 DEF Next

(* Besides the loops that a stop() gave up waiting for there is at most     *)
(* the one start() created last.                                            *)
THEOREM OneLoopAtATime == SafeSpec => []OneLoop
<1>1. Init => OneLoop
  BY DEF Init, OneLoop, Alive, AtRest, Worker
<1>2. TypeOK /\ OneLoop /\ [Next]_vars => OneLoop'
  BY OneLoopStep
<1> QED
  BY <1>1, <1>2, FeedCronTypeCorrect, PTL DEF SafeSpec

-----------------------------------------------------------------------------
(* The cap.                                                                 *)

(* CapKept is not inductive: an import is allowed at any entry.  A worker   *)
(* that has an entry to look at is below the cap or has imported nothing,   *)
(* and one outside the loop has imported nothing.                           *)
BelowCap(w) ==
  /\ AtEntry(w) => imported[w] = 0 \/ imported[w] < MaxImports
  /\ pc[w] # "import" => imported[w] = 0
CapInv == CapKept /\ \A w \in Worker : BelowCap(w)

(* What a step does to its own worker, and that it does nothing to others.  *)
LEMMA CapOfOthers ==
  ASSUME TypeOK, CapInv, NEW w \in Worker, NEW v \in Worker, v # w, TickStep(w)
  PROVE  UNCHANGED <<pc[v], feed[v], imported[v]>>
BY DEF TypeOK, TickStep, Fetch, FetchRaises, List, ListRaises, SkipKnown, Import,
       ImportRaises, EndTick, TickReturns, Forget, Went, GoOn, tick

LEMMA CapOfTick ==
  ASSUME TypeOK, CapInv, NEW w \in Worker, TickStep(w)
  PROVE  /\ BelowCap(w)'
         /\ imported'[w] <= IF MaxImports < 1 THEN 1 ELSE MaxImports
<1> USE FeedCronAssumption DEF TypeOK, CapInv, CapKept, BelowCap, AtEntry
<1>1. CASE Fetch(w)
  BY <1>1 DEF Fetch, Went
<1>2. CASE FetchRaises(w) \/ EndTick(w) \/ ListRaises(w)
  BY <1>2 DEF FetchRaises, EndTick, ListRaises, TickReturns, Forget, Went
<1>3. CASE List(w)
  BY <1>3 DEF List, Went
<1>4. CASE SkipKnown(w)
  BY <1>4 DEF SkipKnown
<1>5. CASE Import(w)
  <2>1. imported'[w] = imported[w] + 1 /\ pc' = pc
    BY <1>5 DEF Import
  <2>2. CapReached(imported[w] + 1) => feed'[w] = <<>>
    BY <1>5 DEF Import, GoOn
  <2>3. imported[w] = 0 \/ imported[w] < MaxImports
    BY <1>5 DEF Import
  <2>4. AtEntry(w)' => ~CapReached(imported[w] + 1)
    BY <2>2
  <2> HIDE DEF AtEntry
  <2>5. imported[w] \in Nat /\ MaxImports \in Int
    OBVIOUS
  <2>6. pc'[w] = "import"
    BY <1>5, <2>1 DEF Import, AtEntry
  <2> QED
    BY <2>1, <2>3, <2>4, <2>5, <2>6 DEF CapReached
<1>6. CASE ImportRaises(w)
  BY <1>6 DEF ImportRaises, GoOn
<1> QED
  BY <1>1, <1>2, <1>3, <1>4, <1>5, <1>6 DEF TickStep

LEMMA CapStep ==
  ASSUME TypeOK, CapInv, [Next]_vars
  PROVE  CapInv'
<1> DEFINE Ceiling == IF MaxImports < 1 THEN 1 ELSE MaxImports
<1>1. ASSUME NEW w \in Worker, TickStep(w) PROVE CapInv'
  <2> SUFFICES ASSUME NEW v \in Worker
               PROVE  imported'[v] <= Ceiling /\ BelowCap(v)'
    BY DEF CapInv, CapKept
  <2>1. CASE v = w
    BY <1>1, <2>1, CapOfTick
  <2>2. CASE v # w
    BY <1>1, <2>2, CapOfOthers DEF CapInv, CapKept, BelowCap, AtEntry
  <2> QED
    BY <2>1, <2>2
<1>2. ASSUME UNCHANGED tick,
             \A v \in Worker : pc'[v] = "import" <=> pc[v] = "import"
      PROVE  CapInv'
  BY <1>2 DEF CapInv, CapKept, BelowCap, AtEntry, tick
<1>3. ASSUME ~\E w \in Worker : TickStep(w)
      PROVE  /\ UNCHANGED tick
             /\ \A v \in Worker : pc'[v] = "import" <=> pc[v] = "import"
  <2>1. UNCHANGED tick
    BY <1>3 DEF Next, Start, Stop, JoinEnds, JoinTimesOut, OwnerTicks, BeginTick,
                LoopStep, LoopTicks, LoopEnds, Sleep, Wake, Curate, vars
  <2>2. pc' = pc \/ \E v \in Worker, where \in {"test", "fetch", "ended"} :
                      pc[v] # "import" /\ pc' = [pc EXCEPT ![v] = where]
    BY <1>3 DEF Next, Start, Stop, JoinEnds, JoinTimesOut, OwnerTicks, OwnerFree,
                BeginTick, LoopStep, LoopTicks, LoopEnds, Sleep, Wake, Curate, vars,
                Went, Worker
  <2> QED
    BY <2>1, <2>2 DEF TypeOK
<1> QED
  BY <1>1, <1>2, <1>3

(* However many ticks run beside each other, none imports more than its     *)
(* cap, or one paper when the cap is not positive.                          *)
THEOREM CapIsKept == SafeSpec => []CapKept
<1>1. Init => CapInv
  BY FeedCronAssumption
     DEF Init, CapInv, CapKept, BelowCap, AtEntry, AtRest, Worker
<1>2. TypeOK /\ CapInv /\ [Next]_vars => CapInv'
  BY CapStep
<1>3. CapInv => CapKept
  BY DEF CapInv
<1> QED
  BY <1>1, <1>2, <1>3, FeedCronTypeCorrect, PTL DEF SafeSpec
-----------------------------------------------------------------------------
(* What a tick leaves out.                                                  *)
Entries(s) == {s[n] : n \in DOMAIN s}

(* The invariant behind BelowCapComplete: while a worker is in the loop,    *)
(* the ids it has read or added are stored, and each paper of its feed is   *)
(* ahead of it, stored or failed, unless the cap has cut the loop.          *)
Accounted(w) ==
  \/ feed[w] = <<>> /\ CapReached(imported[w])
  \/ fetched[w] \subseteq Entries(feed[w]) \cup failed[w] \cup Stored
Covered(w) ==
  /\ pc[w] = "list" => fetched[w] \subseteq Entries(feed[w])
  /\ pc[w] = "import" => existing[w] \subseteq Stored /\ Accounted(w)
Coverage == \A w \in Worker : Covered(w)

(* To take the head off a feed loses no other entry.                        *)
LEMMA EntriesOfTail ==
  ASSUME NEW s \in Seq(Paper), s # <<>>
  PROVE  Entries(s) \subseteq {Head(s)} \cup Entries(Tail(s))
<1> SUFFICES ASSUME NEW n \in DOMAIN s, s[n] # Head(s)
             PROVE  s[n] \in Entries(Tail(s))
  BY DEF Entries
<1>1. n \in 2..Len(s)
  OBVIOUS
<1>2. n - 1 \in DOMAIN Tail(s) /\ Tail(s)[n - 1] = s[n]
  BY <1>1
<1> QED
  BY <1>2 DEF Entries

(* Nobody takes a paper out of the store.                                   *)
LEMMA StoreGrows ==
  ASSUME [Next]_vars
  PROVE  Stored \subseteq Stored'
<1>1. ASSUME NEW w \in Worker, TickStep(w) PROVE Stored \subseteq Stored'
  BY <1>1 DEF TickStep, Fetch, FetchRaises, List, ListRaises, SkipKnown, Import,
              ImportRaises, EndTick, Stored, store
<1>2. ASSUME ~\E w \in Worker : TickStep(w) PROVE Stored \subseteq Stored'
  BY <1>2 DEF Next, Start, Stop, JoinEnds, JoinTimesOut, OwnerTicks, BeginTick,
              LoopStep, LoopTicks, LoopEnds, Sleep, Wake, Curate, vars, store, Stored
<1> QED
  BY <1>1, <1>2

(* A step that leaves a worker's tick alone keeps what is accounted for.    *)
LEMMA CoveredStays ==
  ASSUME NEW w \in Worker, Covered(w), Stored \subseteq Stored',
         pc'[w] \in {"list", "import"} => pc'[w] = pc[w],
         UNCHANGED <<feed[w], fetched[w], existing[w], imported[w], failed[w]>>
  PROVE  Covered(w)'
BY DEF Covered, Accounted

LEMMA CoveredOfTick ==
  ASSUME TypeOK, NEW w \in Worker, Covered(w), TickStep(w), Stored \subseteq Stored'
  PROVE  Covered(w)'
<1> USE DEF TypeOK
<1>1. CASE Fetch(w)
  BY <1>1 DEF Fetch, Went, Covered, Entries
<1>2. CASE FetchRaises(w) \/ EndTick(w) \/ ListRaises(w)
  BY <1>2 DEF FetchRaises, EndTick, ListRaises, TickReturns, Forget, Went, Covered
<1>3. CASE List(w)
  BY <1>3 DEF List, Went, Covered, Accounted, Stored, store
<1>4. ASSUME AtEntry(w)
      PROVE  Entries(feed[w]) \subseteq {Head(feed[w])} \cup Entries(Tail(feed[w]))
  BY <1>4, EntriesOfTail DEF AtEntry
<1>5. ASSUME AtEntry(w)
      PROVE  /\ existing[w] \subseteq Stored
             /\ fetched[w] \subseteq {Head(feed[w])} \cup Entries(Tail(feed[w]))
                                      \cup failed[w] \cup Stored
  BY <1>4, <1>5 DEF AtEntry, Covered, Accounted
<1>6. CASE SkipKnown(w)
  <2>1. feed'[w] = Tail(feed[w]) /\ Head(feed[w]) \in Stored
    BY <1>5, <1>6 DEF SkipKnown
  <2>2. UNCHANGED <<pc, existing, failed, fetched>> /\ AtEntry(w)
    BY <1>6 DEF SkipKnown
  <2> QED
    BY <1>5, <2>1, <2>2 DEF AtEntry, Covered, Accounted
<1>7. CASE Import(w)
  <2>1. /\ imported'[w] = imported[w] + 1
        /\ feed'[w] = IF CapReached(imported[w] + 1) THEN <<>> ELSE Tail(feed[w])
    BY <1>7 DEF Import, GoOn
  <2>2. /\ Head(feed[w]) \in Stored'
        /\ existing'[w] = existing[w] \cup {Head(feed[w])}
    BY <1>7 DEF Import, Stored
  <2>3. UNCHANGED <<pc, failed, fetched>> /\ AtEntry(w)
    BY <1>7 DEF Import
  <2> QED
    BY <1>5, <2>1, <2>2, <2>3 DEF AtEntry, Covered, Accounted, CapReached
<1>8. CASE ImportRaises(w)
  <2>1. /\ imported'[w] = imported[w]
        /\ feed'[w] = IF CapReached(imported[w]) THEN <<>> ELSE Tail(feed[w])
    BY <1>8 DEF ImportRaises, GoOn
  <2>2. failed'[w] = failed[w] \cup {Head(feed[w])}
    BY <1>8 DEF ImportRaises
  <2>3. UNCHANGED <<pc, existing, fetched>> /\ AtEntry(w)
    BY <1>8 DEF ImportRaises
  <2> QED
    BY <1>5, <2>1, <2>2, <2>3 DEF AtEntry, Covered, Accounted, CapReached
<1> QED
  BY <1>1, <1>2, <1>3, <1>6, <1>7, <1>8 DEF TickStep

LEMMA CoverageStep ==
  ASSUME TypeOK, Coverage, [Next]_vars
  PROVE  Coverage'
<1>1. ASSUME NEW w \in Worker, TickStep(w), NEW v \in Worker PROVE Covered(v)'
  <2>1. CASE v = w
    BY <1>1, <2>1, CoveredOfTick, StoreGrows DEF Coverage
  <2>2. CASE v # w
    <3>1. UNCHANGED <<pc[v], feed[v], fetched[v], existing[v], imported[v], failed[v]>>
      BY <1>1, <2>2
         DEF TypeOK, TickStep, Fetch, FetchRaises, List, ListRaises, SkipKnown, Import,
             ImportRaises, EndTick, TickReturns, Forget, Went, GoOn
    <3> QED
      BY <1>1, <3>1, CoveredStays, StoreGrows DEF Coverage
  <2> QED
    BY <2>1, <2>2
<1>2. ASSUME ~\E w \in Worker : TickStep(w), NEW v \in Worker PROVE Covered(v)'
  <2>1. UNCHANGED tick
    BY <1>2 DEF Next, Start, Stop, JoinEnds, JoinTimesOut, OwnerTicks, BeginTick,
                LoopStep, LoopTicks, LoopEnds, Sleep, Wake, Curate, vars
  <2>2. pc' = pc \/ \E u \in Worker, where \in {"test", "fetch", "ended"} :
                      pc' = [pc EXCEPT ![u] = where]
    BY <1>2 DEF Next, Start, Stop, JoinEnds, JoinTimesOut, OwnerTicks,
                BeginTick, LoopStep, LoopTicks, LoopEnds, Sleep, Wake, Curate, vars,
                Went, Worker
  <2>3. pc'[v] \in {"list", "import"} => pc'[v] = pc[v]
    BY <2>2 DEF TypeOK
  <2> QED
    BY <1>2, <2>1, <2>3, CoveredStays, StoreGrows DEF Coverage, tick
<1> QED
  BY <1>1, <1>2 DEF Coverage

(* However its loops, its owner and the other components that store papers  *)
(* interleave, a tick that ends below the cap leaves out no paper of its    *)
(* feed but those whose upsert raised.                                      *)
THEOREM TicksAreComplete == SafeSpec => []BelowCapComplete
<1>1. Init => Coverage
  BY DEF Init, Coverage, Covered, AtRest
<1>2. TypeOK /\ Coverage /\ [Next]_vars => Coverage'
  BY CoverageStep
<1>3. Coverage => BelowCapComplete
  BY DEF Coverage, Covered, Accounted, BelowCapComplete, Entries
<1> QED
  BY <1>1, <1>2, <1>3, FeedCronTypeCorrect, PTL DEF SafeSpec
=============================================================================
