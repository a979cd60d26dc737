---------------------------- MODULE KnowledgeBase ----------------------------
(***************************************************************************)
(* The literature knowledge base: the tables of open_fang/kb/schema.sql    *)
(* behind the one SQLite connection of KBStore, and the callers that write *)
(* to it: upsert_paper, add_edge, promote_report, the edge extractor, the  *)
(* self-wirer and the reconciler of its edges.                             *)
(*                                                                         *)
(* A call is the sequence of SQL statements, and of loops over statements, *)
(* it has yet to issue.  Each statement is a step; what was executed is in *)
(* `db`, what was committed is on `disk`, and a crash loses the            *)
(* difference.  KBStore.open says "single-writer only": with one element   *)
(* in Writer, calls do not overlap.                                        *)
(*                                                                         *)
(* The provenance of an edge is abstracted to whether it starts with       *)
(* "self-wire:"; a paper's row to its abstract; a claim row to its paper.  *)
(***************************************************************************)
EXTENDS Naturals, Sequences

CONSTANTS
  Paper,       \* the identifiers of papers
  NoId,        \* the identifier "", which a source may lack
  Text,        \* contents of papers
  Absent,      \* no row
  Mentions,    \* Mentions[t]: the papers whose arxiv id t contains
  Authored,    \* Authored[t]: the papers whose author and year t contains
  EdgeKind,    \* the kinds of edges; the inferred ones are "cites"
  UserEdge,    \* the edges that the user may add
  Report,      \* the reports that may be promoted, as sequences of claims
  Writer,      \* the threads that call the store
  Stale,       \* no cached set of ids
  MaxOps       \* bound: how many calls are made

Id == Paper \cup {NoId}
Edge == Id \X Id \X EdgeKind
Evidence == [id : Id, text : Text]
Claim == [verified : BOOLEAN, cites : Seq(Evidence)]

ASSUME KnowledgeBaseAssumption ==
  /\ NoId \notin Paper
  /\ Absent \notin Text
  /\ Mentions \in [Text -> SUBSET Paper]
  /\ Authored \in [Text -> SUBSET Paper]
  /\ "cites" \in EdgeKind
  /\ UserEdge \subseteq Edge
  /\ Report \subseteq Seq(Claim)
  /\ MaxOps \in Nat

VARIABLES
  db,         \* the tables as the connection sees them
  disk,       \* the tables as last committed
  todo,       \* todo[w]: the statements w's call has yet to issue
  known,      \* SelfWirer._known_ids
  inferred,   \* inferred[w]: the paper and the edges process() returned to w
  ops,        \* history: the number of calls so far
  byHand,     \* history: the edges the user has added with add_edge
  installed   \* history: installed[p]: the edges p was last reconciled with

vars == <<db, disk, todo, known, inferred, ops, byHand, installed>>

Tables == [text : [Id -> Text \cup {Absent}],   \* papers
           fts : [Id -> Seq(Text)],             \* papers_fts, by paper
           claims : [Id -> Nat],                \* rows of claims, by paper
           wired : SUBSET Edge,                 \* edges labelled self-wire:*
           plain : SUBSET Edge]                 \* the other rows of edges

Empty == [text |-> [i \in Id |-> Absent], fts |-> [i \in Id |-> <<>>],
          claims |-> [i \in Id |-> 0], wired |-> {}, plain |-> {}]

Init ==
  /\ db = Empty
  /\ disk = Empty
  /\ todo = [w \in Writer |-> <<>>]
  /\ known = Stale
  /\ inferred = [w \in Writer |-> {}]
  /\ ops = 0
  /\ byHand = {}
  /\ installed = [p \in Id |-> {}]

-----------------------------------------------------------------------------
(* Statements.  A commit carries what the history variables note with it.  *)
Put(i, t) == [op |-> "put", id |-> i, text |-> t]
DropFts(i) == [op |-> "dropfts", id |-> i]
AddFts(i, t) == [op |-> "addfts", id |-> i, text |-> t]
AddClaim(i) == [op |-> "claim", id |-> i]
Select(i, es) == [op |-> "select", id |-> i, edges |-> es]
CommitBy(hand, done) == [op |-> "commit", hand |-> hand, done |-> done]
Commit == CommitBy({}, {})

\* Loops: over edges, in the order of a set or of the content they were found
\* in, and over the claims of a report, which remembers the papers it has seen.
Link(es, selfWire, hand) ==
  [op |-> "link", edges |-> es, wired |-> selfWire, hand |-> hand]
Unlink(es) == [op |-> "unlink", edges |-> es]
Promote(rest, seen) == [op |-> "promote", rest |-> rest, seen |-> seen]

\* Faulty variant: the old mirror row is not deleted.
UpsertOverMirror(i, t) == <<Put(i, t), AddFts(i, t), Commit>>

Upsert(i, t) == <<Put(i, t), DropFts(i), AddFts(i, t), Commit>>

\* promote_report: the anchor of a claim is its first cited evidence.
CanPromote(c) == c.verified /\ \E i \in DOMAIN c.cites : c.cites[i].id # NoId
Anchor(c) == Head(c.cites)

PromoteClaim(c, seen) ==
  (IF Anchor(c).id \in seen THEN <<>> ELSE Upsert(Anchor(c).id, Anchor(c).text))
  \o <<AddClaim(Anchor(c).id), Commit>>

\* Faulty variant: mentions of papers that are not in the store count too.
AllCitations(i, ids) ==
  LET t == db.text[i]
  IN {<<i, d, "cites">> : d \in (Mentions[t] \cup Authored[t]) \ {i}}

\* The edges process() infers from the content of i, to the papers among ids.
Citations(i, ids) ==
  LET t == db.text[i]
  IN {<<i, d, "cites">> : d \in ((Mentions[t] \cup Authored[t]) \cap ids) \ {i}}

Stored == {i \in Id : db.text[i] # Absent}
WiredFrom(tables, i) == {e \in tables.wired : e[1] = i}

\* Faulty variant: the deletions are committed before the insertions.
ReplaceInTwo(i, old, new) ==
  <<Unlink(old \ new), Commit, Link(new \ old, TRUE, FALSE),
    CommitBy({}, {<<i, new>>})>>

\* What the reconciler issues once it has read the rows `old`.
Replace(i, old, new) ==
  <<Unlink(old \ new), Link(new \ old, TRUE, FALSE), CommitBy({}, {<<i, new>>})>>

-----------------------------------------------------------------------------
(* Calls.                                                                  *)
Call(w, statements) ==
  /\ todo[w] = <<>>
  /\ ops < MaxOps
  /\ ops' = ops + 1
  /\ todo' = [todo EXCEPT ![w] = statements]
  /\ UNCHANGED <<db, disk, byHand, installed>>

UpsertPaper(w, i, t) == Call(w, Upsert(i, t)) /\ UNCHANGED <<known, inferred>>

AddEdge(w, e) ==
  Call(w, <<Link({e}, FALSE, TRUE)>>) /\ UNCHANGED <<known, inferred>>

PromoteReport(w, report) ==
  Call(w, <<Promote(report, {})>>) /\ UNCHANGED <<known, inferred>>

\* EdgeExtractor reads the ids afresh in every call, and matches ids only.
AddEach(es) == <<Link(es, FALSE, FALSE)>>

ExtractFromContent(w, i) ==
  /\ i \in Stored
  /\ Call(w, AddEach({<<i, d, "cites">> : d \in (Mentions[db.text[i]] \cap Stored) \ {i}}))
  /\ UNCHANGED <<known, inferred>>

\* SelfWirer.process reads the ids once and keeps them.
Process(w, i) ==
  /\ i \in Stored
  /\ known' = IF known = Stale THEN Stored ELSE known
  /\ inferred' = [inferred EXCEPT ![w] = {<<i, Citations(i, known')>>}]
  /\ Call(w, <<>>)

RefreshKnown(w) ==
  /\ known' = Stored
  /\ Call(w, <<>>)
  /\ UNCHANGED inferred

\* The caller hands what process() returned to the reconciler, or to persist.
Reconcile(w) ==
  \E pe \in inferred[w] :
    /\ Call(w, <<Select(pe[1], pe[2])>>)
    /\ inferred' = [inferred EXCEPT ![w] = {}]
    /\ UNCHANGED known

Persist(w) ==
  \E pe \in inferred[w] :
    /\ Call(w, AddEach(pe[2]))
    /\ inferred' = [inferred EXCEPT ![w] = {}]
    /\ UNCHANGED known

-----------------------------------------------------------------------------
(* The steps of a call.                                                    *)
Next1(w) == Head(todo[w])
At(w, op) == todo[w] # <<>> /\ Next1(w).op = op
Advance(w) == todo' = [todo EXCEPT ![w] = Tail(@)]
Without(loop, e) == [loop EXCEPT !.edges = @ \ {e}]
OnlyDb(w) == Advance(w) /\ UNCHANGED <<disk, known, inferred, ops, byHand, installed>>

ExecPut(w) ==
  /\ At(w, "put")
  /\ db' = [db EXCEPT !.text[Next1(w).id] = Next1(w).text]
  /\ OnlyDb(w)

ExecDropFts(w) ==
  /\ At(w, "dropfts")
  /\ db' = [db EXCEPT !.fts[Next1(w).id] = <<>>]
  /\ OnlyDb(w)

ExecAddFts(w) ==
  /\ At(w, "addfts")
  /\ db' = [db EXCEPT !.fts[Next1(w).id] = Append(@, Next1(w).text)]
  /\ OnlyDb(w)

ExecClaim(w) ==
  /\ At(w, "claim")
  /\ db' = [db EXCEPT !.claims[Next1(w).id] = @ + 1]
  /\ OnlyDb(w)

\* Faulty variant: INSERT OR REPLACE.
LinkOrReplace(e, selfWire) ==
  IF selfWire THEN [db EXCEPT !.wired = @ \cup {e}, !.plain = @ \ {e}]
              ELSE [db EXCEPT !.plain = @ \cup {e}, !.wired = @ \ {e}]

\* INSERT OR IGNORE: a row with the same key stays as it is.
LinkOrIgnore(e, selfWire) ==
  IF e \in db.wired \cup db.plain THEN db
  ELSE IF selfWire THEN [db EXCEPT !.wired = @ \cup {e}]
  ELSE [db EXCEPT !.plain = @ \cup {e}]

\* add_edge commits every edge, the reconciler the lot.
ExecLink(w) ==
  /\ At(w, "link")
  /\ \E e \in Next1(w).edges :
       /\ db' = LinkOrIgnore(e, Next1(w).wired)
       /\ todo' = [todo EXCEPT ![w] =
            (IF Next1(w).wired THEN <<>>
             ELSE <<CommitBy(IF Next1(w).hand THEN {e} ELSE {}, {})>>)
            \o <<Without(Next1(w), e)>> \o Tail(@)]
  /\ UNCHANGED <<disk, known, inferred, ops, byHand, installed>>

\* The DELETE tests the provenance of the row again.
ExecUnlink(w) ==
  /\ At(w, "unlink")
  /\ \E e \in Next1(w).edges :
       /\ db' = [db EXCEPT !.wired = @ \ {e}]
       /\ todo' = [todo EXCEPT ![w] = <<Without(Next1(w), e)>> \o Tail(@)]
  /\ UNCHANGED <<disk, known, inferred, ops, byHand, installed>>

ExecSelect(w) ==
  /\ At(w, "select")
  /\ LET i == Next1(w).id
     IN todo' = [todo EXCEPT ![w] = Replace(i, WiredFrom(db, i), Next1(w).edges) \o Tail(@)]
  /\ UNCHANGED <<db, disk, known, inferred, ops, byHand, installed>>

\* The next claim of a report: promoted, or skipped.
NextClaim(w) ==
  /\ At(w, "promote") /\ Next1(w).rest # <<>>
  /\ LET claim == Head(Next1(w).rest)
         seen == Next1(w).seen
         later == Promote(Tail(Next1(w).rest),
                          IF CanPromote(claim) THEN seen \cup {Anchor(claim).id} ELSE seen)
     IN todo' = [todo EXCEPT ![w] =
          (IF CanPromote(claim) THEN PromoteClaim(claim, seen) ELSE <<>>) \o <<later>> \o Tail(@)]
  /\ UNCHANGED <<db, disk, known, inferred, ops, byHand, installed>>

LoopEnds(w) ==
  /\ \/ (At(w, "link") \/ At(w, "unlink")) /\ Next1(w).edges = {}
     \/ At(w, "promote") /\ Next1(w).rest = <<>>
  /\ Advance(w)
  /\ UNCHANGED <<db, disk, known, inferred, ops, byHand, installed>>

ExecCommit(w) ==
  /\ At(w, "commit")
  /\ disk' = db
  /\ byHand' = byHand \cup Next1(w).hand
  /\ installed' = [i \in Id |->
                     IF \E d \in Next1(w).done : d[1] = i
                     THEN (CHOOSE d \in Next1(w).done : d[1] = i)[2]
                     ELSE installed[i]]
  /\ Advance(w)
  /\ UNCHANGED <<db, known, inferred, ops>>

\* The process dies and is started again: what was not committed is lost.
Crash ==
  /\ db' = disk
  /\ todo' = [w \in Writer |-> <<>>]
  /\ known' = Stale
  /\ inferred' = [w \in Writer |-> {}]
  /\ UNCHANGED <<disk, ops, byHand, installed>>

Exec(w) ==
  \/ ExecPut(w) \/ ExecDropFts(w) \/ ExecAddFts(w) \/ ExecClaim(w)
  \/ ExecLink(w) \/ ExecUnlink(w) \/ ExecSelect(w) \/ ExecCommit(w)
  \/ NextClaim(w) \/ LoopEnds(w)

Begin(w) ==
  \/ \E i \in Paper, t \in Text : UpsertPaper(w, i, t)
  \/ \E e \in UserEdge : AddEdge(w, e)
  \/ \E report \in Report : PromoteReport(w, report)
  \/ \E i \in Id : ExtractFromContent(w, i) \/ Process(w, i)
  \/ RefreshKnown(w) \/ Reconcile(w) \/ Persist(w)

Next == Crash \/ \E w \in Writer : Begin(w) \/ Exec(w)

Spec == Init /\ [][Next]_vars
-----------------------------------------------------------------------------
(* Properties.                                                             *)

(* The tables have their types and agree, whatever call a crash cuts off:  *)
(* the full-text mirror holds exactly one row for each paper, with its     *)
(* current text, every recorded claim belongs to a stored paper, and no    *)
(* edge has two rows (upsert_paper, promote_report, add_edge).             *)
TablesAgree ==
  /\ disk \in Tables
  /\ disk.wired \cap disk.plain = {}
  /\ \A i \in Id :
       /\ disk.fts[i] = IF disk.text[i] = Absent THEN <<>> ELSE <<disk.text[i]>>
       /\ disk.claims[i] > 0 => disk.text[i] # Absent

(* Reconciliation is atomic: the self-wired edges of a paper are those of  *)
(* the last completed reconciliation, less the ones the store already held *)
(* without a self-wire label, and never a mixture of two.                  *)
ReconciledAtomically ==
  \A i \in Id : WiredFrom(disk, i) = installed[i] \ disk.plain

(* Self-wired edges join papers that are in the store, though the schema's *)
(* REFERENCES clauses are not enforced and the cache of ids may be stale.  *)
WiredEdgesResolve ==
  \A e \in disk.wired : disk.text[e[1]] # Absent /\ disk.text[e[2]] # Absent

(* A committed row without a self-wire label is never deleted or           *)
(* relabelled, by the reconciler or by anything else.                      *)
PlainRowsKept == [][disk.plain \subseteq disk'.plain]_vars

(* An edge that the user has added is still there: what reconciler.py      *)
(* promises of manually inserted edges.                                    *)
ManualEdgesKept == byHand \subseteq disk.plain \cup disk.wired
=============================================================================
