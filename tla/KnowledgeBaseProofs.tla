------------------------ MODULE KnowledgeBaseProofs ------------------------
(* What holds of KnowledgeBase for every value of its constants.            *)
EXTENDS KnowledgeBase, TLAPS, SequenceTheorems

(* The committed plain rows are among the executed ones: a statement of a   *)
(* call can add to them but takes none away before the commit.              *)
PlainInv ==
  /\ "plain" \in DOMAIN db
  /\ "plain" \in DOMAIN disk
  /\ disk.plain \subseteq db.plain

(* Executing a statement keeps the plain rows that are there.               *)
LEMMA ExecKeepsPlain ==
  ASSUME NEW w \in Writer, Exec(w), "plain" \in DOMAIN db
  PROVE  "plain" \in DOMAIN db' /\ db.plain \subseteq db'.plain
<1>1. CASE ExecPut(w)
  BY <1>1 DEF ExecPut
<1>2. CASE ExecDropFts(w)
  BY <1>2 DEF ExecDropFts
<1>3. CASE ExecAddFts(w)
  BY <1>3 DEF ExecAddFts
<1>4. CASE ExecClaim(w)
  BY <1>4 DEF ExecClaim
<1>5. CASE ExecLink(w)
  <2>1. PICK e : db' = LinkOrIgnore(e, Next1(w).wired)
    BY <1>5 DEF ExecLink
  <2>2. db' = db \/ db' = [db EXCEPT !.wired = @ \cup {e}]
                 \/ db' = [db EXCEPT !.plain = @ \cup {e}]
    BY <2>1 DEF LinkOrIgnore
  <2> QED
    BY <2>2
<1>6. CASE ExecUnlink(w)
  BY <1>6 DEF ExecUnlink
<1>7. CASE ExecSelect(w)
  BY <1>7 DEF ExecSelect
<1>8. CASE ExecCommit(w)
  BY <1>8 DEF ExecCommit
<1>9. CASE NextClaim(w) \/ LoopEnds(w)
  BY <1>9 DEF NextClaim, LoopEnds
<1> QED
  BY <1>1, <1>2, <1>3, <1>4, <1>5, <1>6, <1>7, <1>8, <1>9 DEF Exec

(* What is on disk changes only in a commit, to what was executed.          *)
LEMMA DiskMovesInCommits ==
  ASSUME NEW w \in Writer, Exec(w)
  PROVE  disk' = disk \/ (disk' = db /\ db' = db)
BY DEF Exec, ExecPut, ExecDropFts, ExecAddFts, ExecClaim, ExecLink, ExecUnlink,
       ExecSelect, ExecCommit, NextClaim, LoopEnds, OnlyDb

(* Making a call touches no table.                                          *)
LEMMA BeginTouchesNoTable ==
  ASSUME NEW w \in Writer, Begin(w)
  PROVE  UNCHANGED <<db, disk>>
BY DEF Begin, UpsertPaper, AddEdge, PromoteReport, ExtractFromContent, Process,
       RefreshKnown, Reconcile, Persist, Call

(* Every step keeps the invariant and every committed plain row.            *)
LEMMA StepKeepsPlain ==
  ASSUME PlainInv, [Next]_vars
  PROVE  PlainInv' /\ disk.plain \subseteq disk'.plain
<1>1. CASE UNCHANGED vars
  BY <1>1 DEF PlainInv, vars
<1>2. CASE Crash
  BY <1>2 DEF PlainInv, Crash
<1>3. ASSUME NEW w \in Writer, Begin(w)
      PROVE  PlainInv' /\ disk.plain \subseteq disk'.plain
  BY <1>3, BeginTouchesNoTable DEF PlainInv
<1>4. ASSUME NEW w \in Writer, Exec(w)
      PROVE  PlainInv' /\ disk.plain \subseteq disk'.plain
  <2>1. "plain" \in DOMAIN db' /\ db.plain \subseteq db'.plain
    BY <1>4, ExecKeepsPlain DEF PlainInv
  <2>2. disk' = disk \/ (disk' = db /\ db' = db)
    BY <1>4, DiskMovesInCommits
  <2> QED
    BY <2>1, <2>2 DEF PlainInv
<1> QED
  BY <1>1, <1>2, <1>3, <1>4 DEF Next

(* No step ever deletes or relabels a committed row that has no self-wire   *)
(* label, for any number of writers, crashes and calls (reconciler.py:90).  *)
THEOREM PlainRowsSafe == Spec => PlainRowsKept
<1>1. Init => PlainInv
  BY DEF Init, Empty, PlainInv
<1>2. PlainInv /\ [Next]_vars => PlainInv'
  BY StepKeepsPlain
<1>3. PlainInv /\ [Next]_vars => [disk.plain \subseteq disk'.plain]_vars
  BY StepKeepsPlain
<1> QED
  BY <1>1, <1>2, <1>3, PTL DEF Spec, PlainRowsKept

-----------------------------------------------------------------------------
(* Types, and what a self-wired edge joins.                                 *)

Statement ==
  [op : {"put"}, id : Id, text : Text] \cup [op : {"dropfts"}, id : Id]
  \cup [op : {"addfts"}, id : Id, text : Text] \cup [op : {"claim"}, id : Id]
  \cup [op : {"select"}, id : Id, edges : SUBSET Edge]
  \cup [op : {"commit"}, hand : SUBSET Edge, done : SUBSET (Id \X SUBSET Edge)]
  \cup [op : {"link"}, edges : SUBSET Edge, wired : BOOLEAN, hand : BOOLEAN]
  \cup [op : {"unlink"}, edges : SUBSET Edge]
  \cup [op : {"promote"}, rest : Seq(Claim), seen : SUBSET Id]

Resolved(es, tables) ==
  \A e \in es : tables.text[e[1]] # Absent /\ tables.text[e[2]] # Absent

(* The statements that may still wire edges have stored papers to wire.     *)
Wires(s) == s.op = "select" \/ (s.op = "link" /\ s.wired)
Good(tables) == {s \in Statement : Wires(s) => Resolved(s.edges, tables)}

(* Every place an edge can come from on its way to the disk - the rows, the *)
(* calls under way, what process() returned, the cache of ids - knows only  *)
(* papers that are stored.  No statement takes a paper away.                *)
StoreOK ==
  /\ db \in Tables /\ disk \in Tables
  /\ Resolved(db.wired, db) /\ Resolved(disk.wired, disk)
  /\ todo \in [Writer -> Seq(Good(db))]
  /\ known = Stale \/ known \subseteq Stored
  /\ inferred \in [Writer -> SUBSET (Id \X SUBSET Edge)]
  /\ \A w \in Writer : \A pe \in inferred[w] : Resolved(pe[2], db)

Keeps(old, new) == \A i \in Id : old.text[i] # Absent => new.text[i] # Absent

(* What is safe to issue stays so while no paper is taken away.             *)
LEMMA GoodGrows ==
  ASSUME NEW old, NEW new, Keeps(old, new)
  PROVE  /\ Good(old) \subseteq Good(new)
         /\ Seq(Good(old)) \subseteq Seq(Good(new))
         /\ \A es \in SUBSET Edge : Resolved(es, old) => Resolved(es, new)
<1>1. ASSUME NEW es \in SUBSET Edge, Resolved(es, old) PROVE Resolved(es, new)
  BY <1>1 DEF Resolved, Edge, Keeps
<1>2. ASSUME NEW s \in Statement, Wires(s) PROVE s.edges \in SUBSET Edge
  BY <1>2 DEF Statement, Wires
<1>3. Good(old) \subseteq Good(new)
  BY <1>1, <1>2 DEF Good
<1> QED
  BY <1>1, <1>3

LEMMA OneIsASeq == ASSUME NEW S, NEW x \in S PROVE <<x>> \in Seq(S)
OBVIOUS

LEMMA ThreeAreASeq ==
  ASSUME NEW S, NEW x \in S, NEW y \in S, NEW z \in S PROVE <<x, y, z>> \in Seq(S)
OBVIOUS

(* What a statement carries, by its kind.                                   *)
LEMMA Carries ==
  ASSUME NEW s \in Statement
  PROVE  /\ s.op \in {"put", "dropfts", "addfts", "claim", "select"} => s.id \in Id
         /\ s.op \in {"put", "addfts"} => s.text \in Text
         /\ s.op \in {"select", "link", "unlink"} => s.edges \in SUBSET Edge
         /\ s.op = "link" => s.wired \in BOOLEAN /\ s.hand \in BOOLEAN
         /\ s.op = "commit" => s.hand \in SUBSET Edge /\ s.done \in SUBSET (Id \X SUBSET Edge)
         /\ s.op = "promote" => s.rest \in Seq(Claim) /\ s.seen \in SUBSET Id
<1>1. CASE s \in [op : {"put"}, id : Id, text : Text]
  BY <1>1
<1>2. CASE s \in [op : {"dropfts"}, id : Id] \cup [op : {"claim"}, id : Id]
  BY <1>2
<1>3. CASE s \in [op : {"addfts"}, id : Id, text : Text]
  BY <1>3
<1>4. CASE s \in [op : {"select"}, id : Id, edges : SUBSET Edge]
  BY <1>4
<1>5. CASE s \in [op : {"commit"}, hand : SUBSET Edge, done : SUBSET (Id \X SUBSET Edge)]
  BY <1>5
<1>6. CASE s \in [op : {"link"}, edges : SUBSET Edge, wired : BOOLEAN, hand : BOOLEAN]
  BY <1>6
<1>7. CASE s \in [op : {"unlink"}, edges : SUBSET Edge]
  BY <1>7
<1>8. CASE s \in [op : {"promote"}, rest : Seq(Claim), seen : SUBSET Id]
  BY <1>8
<1> QED
  BY <1>1, <1>2, <1>3, <1>4, <1>5, <1>6, <1>7, <1>8 DEF Statement

(* What the calls issue.                                                    *)
LEMMA Issued ==
  ASSUME NEW tables
  PROVE  /\ \A i \in Id : \A t \in Text : Upsert(i, t) \in Seq(Good(tables))
         /\ \A i \in Id : AddClaim(i) \in Good(tables)
         /\ Commit \in Good(tables)
         /\ \A hand \in SUBSET Edge, done \in SUBSET (Id \X SUBSET Edge) :
              CommitBy(hand, done) \in Good(tables)
         /\ \A es \in SUBSET Edge, hand \in BOOLEAN : Link(es, FALSE, hand) \in Good(tables)
         /\ \A es \in SUBSET Edge : Unlink(es) \in Good(tables)
         /\ \A rest \in Seq(Claim), seen \in SUBSET Id : Promote(rest, seen) \in Good(tables)
         /\ \A es \in SUBSET Edge : Resolved(es, tables) =>
              /\ Link(es, TRUE, FALSE) \in Good(tables)
              /\ \A i \in Id : Select(i, es) \in Good(tables)
<1>1. \A i \in Id : \A t \in Text :
        Put(i, t) \in Good(tables) /\ DropFts(i) \in Good(tables) /\ AddFts(i, t) \in Good(tables)
  BY DEF Put, DropFts, AddFts, Good, Statement, Wires
<1>2. /\ \A hand \in SUBSET Edge, done \in SUBSET (Id \X SUBSET Edge) :
            CommitBy(hand, done) \in Good(tables)
      /\ Commit \in Good(tables)
  BY DEF CommitBy, Commit, Good, Statement, Wires
<1>3. \A i \in Id : \A t \in Text : Upsert(i, t) \in Seq(Good(tables))
  BY <1>1, <1>2 DEF Upsert
<1>4. \A i \in Id : AddClaim(i) \in Good(tables)
  BY DEF AddClaim, Good, Statement, Wires
<1>5. \A es \in SUBSET Edge, hand \in BOOLEAN : Link(es, FALSE, hand) \in Good(tables)
  BY DEF Link, Good, Statement, Wires
<1>6. \A es \in SUBSET Edge : Unlink(es) \in Good(tables)
  BY DEF Unlink, Good, Statement, Wires
<1>7. \A rest \in Seq(Claim), seen \in SUBSET Id : Promote(rest, seen) \in Good(tables)
  BY DEF Promote, Good, Statement, Wires
<1>8. \A es \in SUBSET Edge : Resolved(es, tables) =>
        /\ Link(es, TRUE, FALSE) \in Good(tables)
        /\ \A i \in Id : Select(i, es) \in Good(tables)
  BY DEF Link, Select, Good, Statement, Wires
<1> QED
  BY <1>2, <1>3, <1>4, <1>5, <1>6, <1>7, <1>8

(* The statement at the head of a call.                                     *)
LEMMA HeadStatement ==
  ASSUME StoreOK, NEW w \in Writer, todo[w] # <<>>
  PROVE  /\ Next1(w) \in Good(db) /\ Next1(w) \in Statement
         /\ Tail(todo[w]) \in Seq(Good(db))
BY DEF StoreOK, Next1, Good

(* A call under way is replaced by one that is safe to issue.               *)
LEMMA TodoAfter ==
  ASSUME NEW S, NEW X, todo \in [Writer -> Seq(S)], S \subseteq X,
         NEW w \in Writer, NEW rest \in Seq(X), todo' = [todo EXCEPT ![w] = rest]
  PROVE  todo' \in [Writer -> Seq(X)]
<1>1. Seq(S) \subseteq Seq(X)
  OBVIOUS
<1> QED
  BY <1>1

(* A step that only the tables and the calls take part in.                  *)
LEMMA StoreAfter ==
  ASSUME StoreOK, UNCHANGED <<disk, known, inferred>>, db' \in Tables, Keeps(db, db'),
         Resolved(db'.wired, db'),
         NEW w \in Writer, NEW rest \in Seq(Good(db')), todo' = [todo EXCEPT ![w] = rest]
  PROVE  StoreOK'
<1>1. /\ Good(db) \subseteq Good(db')
      /\ \A es \in SUBSET Edge : Resolved(es, db) => Resolved(es, db')
  BY GoodGrows
<1>2. todo' \in [Writer -> Seq(Good(db'))]
  BY <1>1, TodoAfter DEF StoreOK
<1>3. known' = Stale \/ known' \subseteq Stored'
  <2>1. CASE known = Stale
    BY <2>1
  <2>2. CASE known \subseteq Stored
    BY <2>2 DEF Stored, Keeps
  <2> QED
    BY <2>1, <2>2 DEF StoreOK
<1>4. \A v \in Writer : \A pe \in inferred'[v] : Resolved(pe[2], db')
  <2> SUFFICES ASSUME NEW v \in Writer, NEW pe \in inferred[v] PROVE Resolved(pe[2], db')
    OBVIOUS
  <2>1. pe \in Id \X SUBSET Edge /\ Resolved(pe[2], db)
    BY DEF StoreOK
  <2> QED
    BY <1>1, <2>1
<1> QED
  BY <1>2, <1>3, <1>4 DEF StoreOK

(* Making a call: what it is given to wire is stored.                       *)
LEMMA BeginIsGood ==
  ASSUME StoreOK, NEW w \in Writer, Begin(w)
  PROVE  StoreOK'
<1>0. /\ todo \in [Writer -> Seq(Good(db))]
      /\ Keeps(db, db) /\ db.text \in [Id -> Text \cup {Absent}]
  BY DEF StoreOK, Keeps, Tables
<1>1. ASSUME NEW rest \in Seq(Good(db)), Call(w, rest), UNCHANGED <<known, inferred>>
      PROVE  StoreOK'
  <2>1. todo' = [todo EXCEPT ![w] = rest] /\ UNCHANGED <<db, disk>>
    BY <1>1 DEF Call
  <2>2. db' \in Tables /\ Resolved(db'.wired, db') /\ rest \in Seq(Good(db')) /\ Keeps(db, db')
    BY <1>0, <2>1 DEF StoreOK
  <2> QED
    BY <1>1, <2>1, <2>2, StoreAfter
<1>2. ASSUME NEW i \in Paper, NEW t \in Text, UpsertPaper(w, i, t) PROVE StoreOK'
  BY <1>1, <1>2, Issued DEF UpsertPaper, Id
<1>3. ASSUME NEW e \in UserEdge, AddEdge(w, e) PROVE StoreOK'
  <2>1. {e} \in SUBSET Edge
    BY KnowledgeBaseAssumption
  <2>2. Link({e}, FALSE, TRUE) \in Good(db)
    BY <2>1, Issued
  <2>5. <<Link({e}, FALSE, TRUE)>> \in Seq(Good(db))
    BY <2>2, OneIsASeq
  <2> QED
    BY <1>1, <1>3, <2>5 DEF AddEdge
<1>4. ASSUME NEW report \in Report, PromoteReport(w, report) PROVE StoreOK'
  <2>1. Promote(report, {}) \in Good(db)
    BY KnowledgeBaseAssumption, Issued
  <2>5. <<Promote(report, {})>> \in Seq(Good(db))
    BY <2>1, OneIsASeq
  <2> QED
    BY <1>1, <1>4, <2>5 DEF PromoteReport
<1>5. ASSUME NEW i \in Id, ExtractFromContent(w, i) PROVE StoreOK'
  <2> DEFINE es == {<<i, d, "cites">> : d \in (Mentions[db.text[i]] \cap Stored) \ {i}}
  <2>1. es \in SUBSET Edge
    BY KnowledgeBaseAssumption DEF Edge, Stored
  <2>2. Link(es, FALSE, FALSE) \in Good(db)
    BY <2>1, Issued
  <2>5. <<Link(es, FALSE, FALSE)>> \in Seq(Good(db))
    BY <2>2, OneIsASeq
  <2> QED
    BY <1>1, <1>5, <2>5 DEF ExtractFromContent, AddEach
<1>6. ASSUME NEW i \in Id, Process(w, i) PROVE StoreOK'
  <2>1. /\ i \in Stored /\ UNCHANGED <<db, disk>>
        /\ known' = IF known = Stale THEN Stored ELSE known
        /\ inferred' = [inferred EXCEPT ![w] = {<<i, Citations(i, known')>>}]
        /\ todo' = [todo EXCEPT ![w] = <<>>]
    BY <1>6 DEF Process, Call
  <2>2. known' \subseteq Stored
    BY <2>1 DEF StoreOK
  <2>3. Citations(i, known') \subseteq Edge /\ Resolved(Citations(i, known'), db)
    BY <2>1, <2>2, KnowledgeBaseAssumption DEF Citations, Edge, Resolved, Stored
  <2>4. todo' \in [Writer -> Seq(Good(db))]
    BY <1>0, <2>1
  <2>5. /\ inferred' \in [Writer -> SUBSET (Id \X SUBSET Edge)]
        /\ \A v \in Writer : \A pe \in inferred'[v] : Resolved(pe[2], db)
    BY <2>1, <2>3 DEF StoreOK
  <2> QED
    BY <2>1, <2>2, <2>4, <2>5 DEF StoreOK, Stored
<1>7. CASE RefreshKnown(w)
  <2>1. todo' \in [Writer -> Seq(Good(db))] /\ UNCHANGED <<db, disk, inferred>> /\ known' = Stored
    BY <1>0, <1>7 DEF RefreshKnown, Call
  <2> QED
    BY <2>1 DEF StoreOK, Stored
<1>8. ASSUME NEW rest \in Seq(Good(db)), Call(w, rest),
             inferred' = [inferred EXCEPT ![w] = {}], UNCHANGED known
      PROVE  StoreOK'
  <2>1. todo' \in [Writer -> Seq(Good(db))] /\ UNCHANGED <<db, disk>>
    BY <1>0, <1>8 DEF Call
  <2>2. /\ inferred' \in [Writer -> SUBSET (Id \X SUBSET Edge)]
        /\ \A v \in Writer : \A pe \in inferred'[v] : Resolved(pe[2], db)
    BY <1>8 DEF StoreOK
  <2> QED
    BY <1>8, <2>1, <2>2 DEF StoreOK, Stored
<1>9. CASE Reconcile(w)
  <2>1. PICK pe \in inferred[w] :
          Call(w, <<Select(pe[1], pe[2])>>) /\ inferred' = [inferred EXCEPT ![w] = {}]
    BY <1>9 DEF Reconcile
  <2>2. pe[1] \in Id /\ pe[2] \in SUBSET Edge /\ Resolved(pe[2], db)
    BY DEF StoreOK
  <2>3. Select(pe[1], pe[2]) \in Good(db)
    BY <2>2, Issued
  <2>5. <<Select(pe[1], pe[2])>> \in Seq(Good(db))
    BY <2>3, OneIsASeq
  <2> QED
    BY <1>8, <1>9, <2>1, <2>5 DEF Reconcile
<1>10. CASE Persist(w)
  <2>1. PICK pe \in inferred[w] :
          Call(w, AddEach(pe[2])) /\ inferred' = [inferred EXCEPT ![w] = {}]
    BY <1>10 DEF Persist
  <2>2. pe[2] \in SUBSET Edge
    BY DEF StoreOK
  <2>3. Link(pe[2], FALSE, FALSE) \in Good(db)
    BY <2>2, Issued
  <2>5. <<Link(pe[2], FALSE, FALSE)>> \in Seq(Good(db))
    BY <2>3, OneIsASeq
  <2> QED
    BY <1>8, <1>10, <2>1, <2>5 DEF Persist, AddEach
<1> QED
  BY <1>2, <1>3, <1>4, <1>5, <1>6, <1>7, <1>9, <1>10 DEF Begin

(* What is left of a loop once it has taken an edge.                        *)
LEMMA LoopGoesOn ==
  ASSUME NEW tables, NEW s \in Good(tables), s.op \in {"link", "unlink"}, NEW e
  PROVE  /\ s.edges \in SUBSET Edge /\ Without(s, e) \in Good(tables)
         /\ Without(s, e).op = s.op /\ Without(s, e).edges = s.edges \ {e}
<1>1. CASE s.op = "link"
  <2>1. s \in [op : {"link"}, edges : SUBSET Edge, wired : BOOLEAN, hand : BOOLEAN]
    BY <1>1 DEF Good, Statement
  <2>2. Without(s, e) \in [op : {"link"}, edges : SUBSET Edge, wired : BOOLEAN, hand : BOOLEAN]
    BY <2>1 DEF Without
  <2>3. Without(s, e).edges = s.edges \ {e} /\ Without(s, e).wired = s.wired
    BY <2>1 DEF Without
  <2>4. Wires(Without(s, e)) => Resolved(Without(s, e).edges, tables)
    BY <1>1, <2>2, <2>3 DEF Wires, Good, Resolved
  <2> QED
    BY <1>1, <2>1, <2>2, <2>3, <2>4 DEF Good, Statement
<1>2. CASE s.op = "unlink"
  <2>1. s \in [op : {"unlink"}, edges : SUBSET Edge]
    BY <1>2 DEF Good, Statement
  <2>2. Without(s, e) \in [op : {"unlink"}, edges : SUBSET Edge]
        /\ Without(s, e).edges = s.edges \ {e}
    BY <2>1 DEF Without
  <2> QED
    BY <1>2, <2>1, <2>2 DEF Good, Statement, Wires
<1> QED
  BY <1>1, <1>2

(* An edge that is linked is in the rows of one kind at most.               *)
LEMMA LinkedTables ==
  ASSUME db \in Tables, NEW e \in Edge, NEW selfWire \in BOOLEAN
  PROVE  LET new == LinkOrIgnore(e, selfWire)
         IN /\ new \in Tables /\ new.text = db.text /\ new.fts = db.fts
            /\ new.claims = db.claims
            /\ new.wired = IF e \in db.wired \cup db.plain \/ ~selfWire THEN db.wired
                           ELSE db.wired \cup {e}
            /\ new.plain = IF e \in db.wired \cup db.plain \/ selfWire THEN db.plain
                           ELSE db.plain \cup {e}
            /\ db.wired \cap db.plain = {} => new.wired \cap new.plain = {}
<1>1. CASE e \in db.wired \cup db.plain
  BY <1>1 DEF LinkOrIgnore
<1>2. CASE e \notin db.wired \cup db.plain /\ selfWire
  BY <1>2 DEF LinkOrIgnore, Tables
<1>3. CASE e \notin db.wired \cup db.plain /\ ~selfWire
  BY <1>3 DEF LinkOrIgnore, Tables
<1> QED
  BY <1>1, <1>2, <1>3

(* Executing a statement takes no paper away and wires no paper that is not *)
(* stored.                                                                  *)
LEMMA ExecIsGood ==
  ASSUME StoreOK, NEW w \in Writer, Exec(w)
  PROVE  StoreOK'
<1> DEFINE s == Next1(w)
           rest == Tail(todo[w])
<1>0. todo[w] # <<>> /\ s \in Good(db) /\ s \in Statement /\ rest \in Seq(Good(db))
  <2>1. todo[w] # <<>>
    BY DEF Exec, ExecPut, ExecDropFts, ExecAddFts, ExecClaim, ExecLink, ExecUnlink,
           ExecSelect, ExecCommit, NextClaim, LoopEnds, At
  <2> QED
    BY <2>1, HeadStatement
<1>1. ASSUME Advance(w), UNCHANGED <<disk, known, inferred>>, db' \in Tables, Keeps(db, db'),
             Resolved(db'.wired, db')
      PROVE  StoreOK'
  <2>1. rest \in Seq(Good(db')) /\ todo' = [todo EXCEPT ![w] = rest]
    BY <1>0, <1>1, GoodGrows DEF Advance
  <2> QED
    BY <1>1, <2>1, StoreAfter
<1>2. /\ Keeps(db, db) /\ db \in Tables /\ Resolved(db.wired, db)
      /\ db.text \in [Id -> Text \cup {Absent}] /\ db.wired \in SUBSET Edge
      /\ db.fts \in [Id -> Seq(Text)] /\ db.claims \in [Id -> Nat]
  BY DEF StoreOK, Keeps, Tables
<1>3. CASE ExecPut(w)
  <2>1. s.id \in Id /\ s.text \in Text
    BY <1>0, <1>3, Carries DEF ExecPut, At
  <2>2. /\ db' \in Tables /\ db'.wired = db.wired
        /\ db'.text = [db.text EXCEPT ![s.id] = s.text]
    BY <1>2, <1>3, <2>1 DEF ExecPut, Tables
  <2>3. Keeps(db, db')
    BY <1>2, <2>1, <2>2, KnowledgeBaseAssumption DEF Keeps
  <2>4. Resolved(db'.wired, db')
    BY <1>2, <2>2, <2>3, GoodGrows
  <2> QED
    BY <1>1, <1>3, <2>2, <2>3, <2>4 DEF ExecPut, OnlyDb
<1>4. ASSUME OnlyDb(w), db' \in Tables, db'.text = db.text, db'.wired \subseteq db.wired
      PROVE  StoreOK'
  <2>1. Keeps(db, db') /\ Resolved(db'.wired, db')
    BY <1>2, <1>4 DEF Keeps, Resolved
  <2> QED
    BY <1>1, <1>4, <2>1 DEF OnlyDb
<1>5. CASE ExecDropFts(w)
  <2>1. s.id \in Id
    <3>1. s.op = "dropfts"
      BY <1>5 DEF ExecDropFts, At
    <3> QED
      BY <1>0, <3>1, Carries
  <2>2. db' \in Tables /\ db'.text = db.text /\ db'.wired = db.wired
    <3> DEFINE f == [db.fts EXCEPT ![s.id] = <<>>]
    <3>1. f \in [Id -> Seq(Text)]
      BY <1>2, <2>1
    <3>2. db' = [db EXCEPT !.fts = f]
      BY <1>5 DEF ExecDropFts
    <3> HIDE DEF f
    <3> QED
      BY <1>2, <3>1, <3>2 DEF Tables
  <2> QED
    BY <1>4, <1>5, <2>2 DEF ExecDropFts
<1>6. CASE ExecAddFts(w)
  <2>1. s.id \in Id /\ s.text \in Text
    BY <1>0, <1>6, Carries DEF ExecAddFts, At
  <2>2. Append(db.fts[s.id], s.text) \in Seq(Text)
    BY <1>2, <2>1
  <2>3. db' \in Tables /\ db'.text = db.text /\ db'.wired = db.wired
    BY <1>2, <1>6, <2>1, <2>2 DEF ExecAddFts, Tables
  <2> QED
    BY <1>4, <1>6, <2>3 DEF ExecAddFts
<1>7. CASE ExecClaim(w)
  <2>1. s.id \in Id
    <3>1. s.op = "claim"
      BY <1>7 DEF ExecClaim, At
    <3> QED
      BY <1>0, <3>1, Carries
  <2>2. db' \in Tables /\ db'.text = db.text /\ db'.wired = db.wired
    <3> DEFINE n == db.claims[s.id] + 1
               f == [db.claims EXCEPT ![s.id] = n]
    <3>1. n \in Nat
      BY <1>2, <2>1
    <3> HIDE DEF n
    <3>2. f \in [Id -> Nat]
      BY <1>2, <2>1, <3>1
    <3>3. db' = [db EXCEPT !.claims = f]
      BY <1>7 DEF ExecClaim, n
    <3> HIDE DEF f
    <3> QED
      BY <1>2, <3>2, <3>3 DEF Tables
  <2> QED
    BY <1>4, <1>7, <2>2 DEF ExecClaim
<1>8. CASE ExecLink(w)
  <2> DEFINE commits(e) == IF s.wired THEN <<>>
                           ELSE <<CommitBy(IF s.hand THEN {e} ELSE {}, {})>>
  <2>1. PICK e \in s.edges :
          /\ db' = LinkOrIgnore(e, s.wired)
          /\ todo' = [todo EXCEPT ![w] = commits(e) \o <<Without(s, e)>> \o rest]
    BY <1>8 DEF ExecLink
  <2>2. s \in [op : {"link"}, edges : SUBSET Edge, wired : BOOLEAN, hand : BOOLEAN]
    BY <1>0, <1>8 DEF ExecLink, At, Statement
  <2>3. e \in Edge /\ (s.wired => Resolved({e}, db))
    BY <1>0, <2>1, <2>2 DEF Good, Wires, Resolved
  <2>4. /\ db' \in Tables /\ db'.text = db.text
        /\ db'.wired \subseteq db.wired \cup (IF s.wired THEN {e} ELSE {})
    BY <1>2, <2>1, <2>2, <2>3, LinkedTables
  <2>5. Keeps(db, db') /\ Resolved(db'.wired, db') /\ Good(db) \subseteq Good(db')
    BY <1>2, <2>3, <2>4, GoodGrows DEF Keeps, Resolved
  <2>6. Without(s, e) \in Good(db)
    BY <1>0, <2>2, LoopGoesOn
  <2>7. commits(e) \in Seq(Good(db))
    <3>1. CommitBy({e}, {}) \in Good(db) /\ CommitBy({}, {}) \in Good(db)
      BY <2>3, Issued
    <3>2. <<CommitBy({e}, {})>> \in Seq(Good(db)) /\ <<CommitBy({}, {})>> \in Seq(Good(db))
      BY <3>1, OneIsASeq
    <3> QED
      BY <2>2, <3>2
  <2> HIDE DEF commits
  <2>8. commits(e) \o <<Without(s, e)>> \o rest \in Seq(Good(db'))
    <3>1. <<Without(s, e)>> \in Seq(Good(db))
      BY <2>6, OneIsASeq
    <3>2. commits(e) \o <<Without(s, e)>> \o rest \in Seq(Good(db))
      BY <1>0, <2>7, <3>1
    <3> QED
      BY <2>5, <3>2
  <2>9. UNCHANGED <<disk, known, inferred>>
    BY <1>8 DEF ExecLink
  <2> QED
    BY <2>1, <2>4, <2>5, <2>8, <2>9, StoreAfter
<1>9. CASE ExecUnlink(w)
  <2>1. PICK e \in s.edges :
          /\ db' = [db EXCEPT !.wired = @ \ {e}]
          /\ todo' = [todo EXCEPT ![w] = <<Without(s, e)>> \o rest]
    BY <1>9 DEF ExecUnlink
  <2>2. s.op = "unlink" /\ UNCHANGED <<disk, known, inferred>>
    BY <1>9 DEF ExecUnlink, At
  <2>3. /\ db' \in Tables /\ db'.text = db.text /\ db'.wired \subseteq db.wired
        /\ Keeps(db, db')
    BY <1>2, <2>1 DEF Tables, Keeps
  <2>4. Resolved(db'.wired, db')
    BY <1>2, <2>3 DEF Resolved
  <2>5. <<Without(s, e)>> \o rest \in Seq(Good(db'))
    <3>1. <<Without(s, e)>> \in Seq(Good(db))
      BY <1>0, <2>2, LoopGoesOn, OneIsASeq
    <3>2. <<Without(s, e)>> \o rest \in Seq(Good(db))
      BY <1>0, <3>1
    <3> QED
      BY <2>3, <3>2, GoodGrows
  <2> QED
    BY <2>1, <2>2, <2>3, <2>4, <2>5, StoreAfter
<1>10. ASSUME UNCHANGED <<db, disk, known, inferred>>,
              NEW more \in Seq(Good(db)), todo' = [todo EXCEPT ![w] = more \o rest]
       PROVE  StoreOK'
  <2>1. more \o rest \in Seq(Good(db'))
    BY <1>0, <1>10
  <2> QED
    BY <1>2, <1>10, <2>1, StoreAfter
<1>11. CASE ExecSelect(w)
  <2> DEFINE old == WiredFrom(db, s.id)
             more == Replace(s.id, old, s.edges)
  <2>1. s.id \in Id /\ s.edges \in SUBSET Edge /\ Resolved(s.edges, db)
    <3>1. s.op = "select"
      BY <1>11 DEF ExecSelect, At
    <3> QED
      BY <1>0, <3>1, Carries DEF Good, Wires
  <2>2. old \in SUBSET Edge
    BY <1>2 DEF WiredFrom
  <2>3. /\ s.edges \ old \in SUBSET Edge /\ Resolved(s.edges \ old, db)
        /\ old \ s.edges \in SUBSET Edge
        /\ {<<s.id, s.edges>>} \in SUBSET (Id \X SUBSET Edge) /\ {} \in SUBSET Edge
    BY <2>1, <2>2 DEF Resolved
  <2>4. /\ Link(s.edges \ old, TRUE, FALSE) \in Good(db)
        /\ Unlink(old \ s.edges) \in Good(db)
        /\ CommitBy({}, {<<s.id, s.edges>>}) \in Good(db)
    BY <2>3, Issued
  <2>5. more \in Seq(Good(db))
    BY <2>4, ThreeAreASeq DEF Replace
  <2>6. todo' = [todo EXCEPT ![w] = more \o rest] /\ UNCHANGED <<db, disk, known, inferred>>
    BY <1>11 DEF ExecSelect
  <2> QED
    BY <1>10, <2>5, <2>6
<1>12. CASE ExecCommit(w)
  <2>1. todo' = [todo EXCEPT ![w] = rest] /\ disk' = db /\ UNCHANGED <<db, known, inferred>>
    BY <1>12 DEF ExecCommit, Advance
  <2>2. todo' \in [Writer -> Seq(Good(db))]
    BY <1>0, <2>1 DEF StoreOK
  <2> QED
    BY <1>2, <2>1, <2>2 DEF StoreOK, Stored
<1>13. CASE NextClaim(w)
  <2> DEFINE c == Head(s.rest)
             seen == IF CanPromote(c) THEN s.seen \cup {Anchor(c).id} ELSE s.seen
             first == IF CanPromote(c) THEN PromoteClaim(c, s.seen) ELSE <<>>
             more == first \o <<Promote(Tail(s.rest), seen)>>
  <2>1. s.rest \in Seq(Claim) /\ s.rest # <<>> /\ s.seen \in SUBSET Id
    BY <1>0, <1>13, Carries DEF NextClaim, At
  <2>2. c \in Claim /\ Tail(s.rest) \in Seq(Claim)
    BY <2>1
  <2>3. CanPromote(c) => Anchor(c).id \in Id /\ Anchor(c).text \in Text
    <3>1. c.cites \in Seq(Evidence)
      BY <2>2 DEF Claim
    <3>2. CanPromote(c) => c.cites # <<>>
      BY DEF CanPromote
    <3>3. CanPromote(c) => Anchor(c) \in Evidence
      BY <3>1, <3>2 DEF Anchor
    <3> QED
      BY <3>3 DEF Evidence
  <2>4. seen \in SUBSET Id
    BY <2>1, <2>3
  <2>5. first \in Seq(Good(db))
    <3>1. CASE CanPromote(c)
      <4>1. /\ Upsert(Anchor(c).id, Anchor(c).text) \in Seq(Good(db))
            /\ AddClaim(Anchor(c).id) \in Good(db) /\ Commit \in Good(db)
        BY <2>3, <3>1, Issued
      <4> QED
        BY <3>1, <4>1 DEF PromoteClaim
    <3> QED
      BY <3>1
  <2>6. <<Promote(Tail(s.rest), seen)>> \in Seq(Good(db))
    BY <2>2, <2>4, Issued, OneIsASeq
  <2>7. todo' = [todo EXCEPT ![w] = more \o rest] /\ UNCHANGED <<db, disk, known, inferred>>
    BY <1>13 DEF NextClaim
  <2> HIDE DEF first, seen, c
  <2>8. more \in Seq(Good(db))
    BY <2>5, <2>6
  <2> QED
    BY <1>10, <2>7, <2>8
<1>14. CASE LoopEnds(w)
  BY <1>1, <1>2, <1>14 DEF LoopEnds
<1> QED
  BY <1>3, <1>5, <1>6, <1>7, <1>8, <1>9, <1>11, <1>12, <1>13, <1>14 DEF Exec

LEMMA StoreStep == StoreOK /\ [Next]_vars => StoreOK'
<1> SUFFICES ASSUME StoreOK, [Next]_vars PROVE StoreOK'
  OBVIOUS
<1>1. CASE UNCHANGED vars
  BY <1>1 DEF vars, StoreOK, Stored
<1>2. CASE Crash
  BY <1>2 DEF Crash, StoreOK
<1> QED
  BY <1>1, <1>2, BeginIsGood, ExecIsGood DEF Next

(* However many threads write and whatever a crash cuts off, a self-wired   *)
(* edge on the disk joins two papers that are there, though the schema does *)
(* not enforce it and the wirer's cache of ids may be old.                  *)
THEOREM WiredEdgesJoinPapers == Spec => []WiredEdgesResolve
<1>1. Init => StoreOK
  BY DEF Init, Empty, StoreOK, Tables, Resolved
<1>2. StoreOK /\ [Next]_vars => StoreOK'
  BY StoreStep
<1>3. StoreOK => WiredEdgesResolve
  BY DEF StoreOK, WiredEdgesResolve, Resolved
<1> QED
  BY <1>1, <1>2, <1>3, PTL DEF Spec

-----------------------------------------------------------------------------
(* One writer, as KBStore.open asks for: the tables agree.                  *)

SingleWriter == \A v, w \in Writer : v = w

Mirrors(t, odd) ==
  \A i \in Id \ odd : t.fts[i] = IF t.text[i] = Absent THEN <<>> ELSE <<t.text[i]>>
Sound(t) ==
  /\ t.wired \cap t.plain = {}
  /\ \A i \in Id : t.claims[i] > 0 => t.text[i] # Absent

(* The statements outside upsert_paper, where they concern papers of ids.   *)
Quiet(ids) ==
  {s \in Statement : /\ s.op \notin {"put", "dropfts", "addfts"}
                     /\ s.op = "claim" => s.id \in ids
                     /\ s.op = "promote" => s.seen \subseteq ids}

(* Where a call stands in an upsert, and what the mirror lacks there.       *)
Outside(s) == s \in Seq(Quiet(Stored)) /\ Mirrors(db, {})
AtPut(s, i, t, r) ==
  /\ r \in Seq(Quiet(Stored \cup {i})) /\ Mirrors(db, {})
  /\ s = <<Put(i, t)>> \o (<<DropFts(i)>> \o (<<AddFts(i, t)>> \o r))
AtDropFts(s, i, t, r) ==
  /\ r \in Seq(Quiet(Stored)) /\ Mirrors(db, {i}) /\ db.text[i] = t
  /\ s = <<DropFts(i)>> \o (<<AddFts(i, t)>> \o r)
AtAddFts(s, i, t, r) ==
  /\ r \in Seq(Quiet(Stored)) /\ Mirrors(db, {i}) /\ db.text[i] = t /\ db.fts[i] = <<>>
  /\ s = <<AddFts(i, t)>> \o r
Upserting(s) ==
  \/ Outside(s)
  \/ \E i \in Id, t \in Text, r \in Seq(Statement) :
       AtPut(s, i, t, r) \/ AtDropFts(s, i, t, r) \/ AtAddFts(s, i, t, r)

TablesOK ==
  /\ Sound(db) /\ Sound(disk) /\ Mirrors(disk, {})
  /\ \A w \in Writer : Upserting(todo[w])

LEMMA Cons ==
  ASSUME NEW S, NEW x, NEW q \in Seq(S)
  PROVE  Head(<<x>> \o q) = x /\ Tail(<<x>> \o q) = q /\ <<x>> \o q # <<>>
<1> DEFINE T == S \cup {x}
           s == <<x>> \o q
<1>1. q \in Seq(T) /\ <<x>> \in Seq(T) /\ Len(<<x>>) = 1 /\ <<x>>[1] = x
  OBVIOUS
<1>2. /\ s \in Seq(T) /\ Len(s) = 1 + Len(q)
      /\ \A i \in 1..1 + Len(q) : s[i] = IF i <= 1 THEN <<x>>[i] ELSE q[i - 1]
  BY <1>1, ConcatProperties
<1> HIDE DEF s
<1>3. s # <<>> /\ Head(s) = x
  BY <1>1, <1>2
<1>4. Tail(s) \in Seq(T) /\ Len(Tail(s)) = Len(q)
  BY <1>1, <1>2
<1>5. \A i \in 1..Len(q) : Tail(s)[i] = q[i]
  BY <1>1, <1>2
<1>6. Tail(s) = q
  BY <1>1, <1>4, <1>5, SeqEqual
<1> QED
  BY <1>3, <1>6 DEF s

LEMMA Unfolds ==
  ASSUME NEW a, NEW b, NEW c, NEW d
  PROVE  /\ <<a, b>> = <<a>> \o <<b>>
         /\ <<a, b, c>> = <<a>> \o <<b, c>>
         /\ <<a, b, c, d>> = <<a>> \o <<b, c, d>>
<1>1. ASSUME NEW S, NEW s \in Seq(S), s # <<>> PROVE s = <<Head(s)>> \o Tail(s)
  <2> DEFINE t == <<Head(s)>> \o Tail(s)
  <2>1. Head(s) \in S /\ Tail(s) \in Seq(S) /\ <<Head(s)>> \in Seq(S)
    BY <1>1
  <2>2. t \in Seq(S) /\ Len(t) = Len(s) /\ \A i \in 1..Len(s) : t[i] = s[i]
    BY <2>1, ConcatProperties, <1>1
  <2> QED
    BY <2>2, SeqEqual
<1> DEFINE T == {a, b, c, d}
<1>2. <<a, b>> \in Seq(T) /\ <<a, b, c>> \in Seq(T) /\ <<a, b, c, d>> \in Seq(T)
  OBVIOUS
<1>3. /\ Head(<<a, b>>) = a /\ Tail(<<a, b>>) = <<b>> /\ <<a, b>> # <<>>
      /\ Head(<<a, b, c>>) = a /\ Tail(<<a, b, c>>) = <<b, c>> /\ <<a, b, c>> # <<>>
      /\ Head(<<a, b, c, d>>) = a /\ Tail(<<a, b, c, d>>) = <<b, c, d>> /\ <<a, b, c, d>> # <<>>
  OBVIOUS
<1> HIDE DEF T
<1>4. <<a, b>> = <<a>> \o <<b>>
  BY <1>1, <1>2, <1>3
<1>5. <<a, b, c>> = <<a>> \o <<b, c>>
  BY <1>1, <1>2, <1>3
<1>6. <<a, b, c, d>> = <<a>> \o <<b, c, d>>
  BY <1>1, <1>2, <1>3
<1> QED
  BY <1>4, <1>5, <1>6

(* Concatenation by another name, which hides its axioms from the provers. *)
Cat(a, b) == a \o b

LEMMA CatCloses ==
  \A a, b \in Seq(Statement) : Cat(a, b) \in Seq(Statement)
<1> QED
  BY DEF Cat

LEMMA CatAssociates ==
  \A a, b, c \in Seq(Statement) : Cat(Cat(a, b), c) = Cat(a, Cat(b, c))
<1> SUFFICES ASSUME NEW a \in Seq(Statement), NEW b \in Seq(Statement), NEW c \in Seq(Statement)
             PROVE  Cat(Cat(a, b), c) = Cat(a, Cat(b, c))
  OBVIOUS
<1>1. (a \o b) \o c = a \o (b \o c)
  BY ConcatAssociative
<1> QED
  BY <1>1 DEF Cat

LEMMA Regroups ==
  ASSUME NEW a \in Seq(Statement), NEW b \in Seq(Statement), NEW c \in Seq(Statement),
         NEW d \in Seq(Statement)
  PROVE  Cat(Cat(Cat(a, b), c), d) = Cat(a, Cat(Cat(b, c), d))
<1>1. Cat(b, c) \in Seq(Statement)
  BY CatCloses
<1> QED
  BY <1>1, CatAssociates

(* The whole of upsert_paper, statement by statement.                       *)
LEMMA UpsertUnfolds ==
  ASSUME NEW i \in Id, NEW t \in Text, NEW r \in Seq(Statement)
  PROVE  Upsert(i, t) \o r =
           <<Put(i, t)>> \o (<<DropFts(i)>> \o (<<AddFts(i, t)>> \o (<<Commit>> \o r)))
<1> DEFINE a == <<Put(i, t)>>
           b == <<DropFts(i)>>
           c == <<AddFts(i, t)>>
           d == <<Commit>>
<1>1. a \in Seq(Statement) /\ b \in Seq(Statement) /\ c \in Seq(Statement) /\ d \in Seq(Statement)
  BY DEF Statement, Put, DropFts, AddFts, Commit, CommitBy
<1>2. Upsert(i, t) = a \o (b \o (c \o d))
  <2> DEFINE x == Put(i, t)
             y == DropFts(i)
             z == AddFts(i, t)
  <2>1. Upsert(i, t) = <<x, y, z, Commit>>
    BY DEF Upsert
  <2> HIDE DEF x, y, z
  <2>2. <<x, y, z, Commit>> = <<x>> \o <<y, z, Commit>>
    BY Unfolds
  <2>3. <<y, z, Commit>> = <<y>> \o <<z, Commit>>
    BY Unfolds
  <2>4. <<z, Commit>> = <<z>> \o <<Commit>>
    BY Unfolds
  <2> QED
    BY <2>1, <2>2, <2>3, <2>4 DEF x, y, z
<1> HIDE DEF a, b, c, d
<1>3. Cat(c, d) \in Seq(Statement) /\ Cat(b, Cat(c, d)) \in Seq(Statement)
  BY <1>1, CatCloses
<1>4. Cat(Cat(a, Cat(b, Cat(c, d))), r) = Cat(a, Cat(b, Cat(c, Cat(d, r))))
  BY <1>1, <1>3, CatAssociates
<1>5. (a \o (b \o (c \o d))) \o r = a \o (b \o (c \o (d \o r)))
  BY <1>4 DEF Cat
<1> QED
  BY <1>2, <1>5, Zenon DEF a, b, c, d

(* What is quiet stays so while papers are added.                           *)
LEMMA QuietGrows ==
  ASSUME NEW old, NEW new, old \subseteq new
  PROVE  Quiet(old) \subseteq Quiet(new) /\ Seq(Quiet(old)) \subseteq Seq(Quiet(new))
<1>1. Quiet(old) \subseteq Quiet(new)
  BY DEF Quiet
<1> QED
  BY <1>1

LEMMA QuietStatements ==
  ASSUME NEW ids
  PROVE  /\ Commit \in Quiet(ids)
         /\ \A hand \in SUBSET Edge, done \in SUBSET (Id \X SUBSET Edge) :
              CommitBy(hand, done) \in Quiet(ids)
         /\ \A es \in SUBSET Edge, wired, hand \in BOOLEAN : Link(es, wired, hand) \in Quiet(ids)
         /\ \A es \in SUBSET Edge : Unlink(es) \in Quiet(ids)
         /\ \A i \in Id, es \in SUBSET Edge : Select(i, es) \in Quiet(ids)
         /\ \A i \in Id \cap ids : AddClaim(i) \in Quiet(ids)
         /\ \A rest \in Seq(Claim), seen \in SUBSET Id :
              seen \subseteq ids => Promote(rest, seen) \in Quiet(ids)
<1>1. /\ Commit \in Quiet(ids)
      /\ \A hand \in SUBSET Edge, done \in SUBSET (Id \X SUBSET Edge) :
           CommitBy(hand, done) \in Quiet(ids)
  BY DEF Commit, CommitBy, Quiet, Statement
<1>2. \A es \in SUBSET Edge, wired, hand \in BOOLEAN : Link(es, wired, hand) \in Quiet(ids)
  BY DEF Link, Quiet, Statement
<1>3. \A es \in SUBSET Edge : Unlink(es) \in Quiet(ids)
  BY DEF Unlink, Quiet, Statement
<1>4. \A i \in Id, es \in SUBSET Edge : Select(i, es) \in Quiet(ids)
  BY DEF Select, Quiet, Statement
<1>5. \A i \in Id \cap ids : AddClaim(i) \in Quiet(ids)
  BY DEF AddClaim, Quiet, Statement
<1>6. \A rest \in Seq(Claim), seen \in SUBSET Id :
        seen \subseteq ids => Promote(rest, seen) \in Quiet(ids)
  BY DEF Promote, Quiet, Statement
<1> QED
  BY <1>1, <1>2, <1>3, <1>4, <1>5, <1>6

(* The statement at the head decides which action executes it.              *)
LEMMA ExecByKind ==
  ASSUME NEW w \in Writer, Exec(w)
  PROVE  LET op == Next1(w).op
         IN /\ op = "put" => ExecPut(w)
            /\ op = "dropfts" => ExecDropFts(w)
            /\ op = "addfts" => ExecAddFts(w)
            /\ op \notin {"put", "dropfts", "addfts"} =>
                 \/ ExecClaim(w) \/ ExecLink(w) \/ ExecUnlink(w) \/ ExecSelect(w)
                 \/ ExecCommit(w) \/ NextClaim(w) \/ LoopEnds(w)
            /\ todo[w] # <<>>
BY DEF Exec, ExecPut, ExecDropFts, ExecAddFts, ExecClaim, ExecLink, ExecUnlink,
       ExecSelect, ExecCommit, NextClaim, LoopEnds, At

(* Outside an upsert nothing is done to papers and their mirror, a claim is *)
(* about a paper that is stored, and an edge gets at most one row.          *)
LEMMA QuietExec ==
  ASSUME StoreOK, Sound(db), NEW w \in Writer, Exec(w),
         Next1(w) \in Quiet(Stored), NEW rest \in Seq(Quiet(Stored)), rest = Tail(todo[w])
  PROVE  /\ db'.text = db.text /\ db'.fts = db.fts /\ Sound(db')
         /\ \/ todo'[w] \in Seq(Quiet(Stored))
            \/ \E i \in Id, t \in Text : \E r \in Seq(Quiet(Stored \cup {i})) :
                 todo'[w] = Upsert(i, t) \o r
<1> DEFINE s == Next1(w)
           S == Quiet(Stored)
<1>0. /\ s \in Good(db) /\ s \in Statement /\ todo[w] # <<>> /\ w \in DOMAIN todo
      /\ s.op \notin {"put", "dropfts", "addfts"}
  <2>1. todo[w] # <<>>
    BY ExecByKind
  <2> QED
    BY <2>1, HeadStatement DEF Quiet, StoreOK
<1>1. db \in Tables
  BY DEF StoreOK
<1>2. ASSUME Advance(w), UNCHANGED db PROVE
        /\ db'.text = db.text /\ db'.fts = db.fts /\ Sound(db') /\ todo'[w] \in Seq(S)
  BY <1>0, <1>2 DEF Advance
<1>3. CASE ExecClaim(w)
  <2>1. s.op = "claim"
    BY <1>3 DEF ExecClaim, At
  <2>2. s.id \in Stored /\ s.id \in Id
    BY <1>0, <2>1 DEF Quiet, Stored
  <2>3. /\ db'.text = db.text /\ db'.fts = db.fts /\ db'.wired = db.wired
        /\ db'.plain = db.plain /\ \A i \in Id : i # s.id => db'.claims[i] = db.claims[i]
    BY <1>1, <1>3 DEF ExecClaim, Tables
  <2>4. Sound(db')
    BY <2>2, <2>3 DEF Sound, Stored
  <2>5. todo'[w] = rest
    BY <1>0, <1>3 DEF ExecClaim, OnlyDb, Advance
  <2> QED
    BY <2>3, <2>4, <2>5
<1>4. CASE ExecLink(w)
  <2> DEFINE commits(e) == IF s.wired THEN <<>>
                           ELSE <<CommitBy(IF s.hand THEN {e} ELSE {}, {})>>
  <2>1. PICK e \in s.edges :
          /\ db' = LinkOrIgnore(e, s.wired)
          /\ todo' = [todo EXCEPT ![w] = commits(e) \o <<Without(s, e)>> \o rest]
    BY <1>4 DEF ExecLink
  <2>2. s.op = "link" /\ s.edges \in SUBSET Edge /\ s.wired \in BOOLEAN /\ e \in Edge
    BY <1>0, <1>4, <2>1, Carries DEF ExecLink, At
  <2>3. /\ db'.text = db.text /\ db'.fts = db.fts /\ db'.claims = db.claims
        /\ db'.wired \cap db'.plain = {}
    BY <1>1, <2>1, <2>2, LinkedTables DEF Sound
  <2>4. Without(s, e) \in S
    BY <1>0, <2>2, LoopGoesOn DEF Quiet, Good
  <2>5. commits(e) \in Seq(S)
    <3>1. {e} \in SUBSET Edge /\ {} \in SUBSET Edge
      BY <2>2
    <3>2. CommitBy({e}, {}) \in S /\ CommitBy({}, {}) \in S
      BY <3>1, QuietStatements
    <3>3. <<CommitBy({e}, {})>> \in Seq(S) /\ <<CommitBy({}, {})>> \in Seq(S)
      BY <3>2, OneIsASeq
    <3> QED
      BY <1>0, <2>2, <3>3, Carries
  <2> HIDE DEF commits
  <2>6. commits(e) \o <<Without(s, e)>> \o rest \in Seq(S)
    <3>1. <<Without(s, e)>> \in Seq(S)
      BY <2>4, OneIsASeq
    <3> QED
      BY <2>5, <3>1
  <2>7. todo'[w] \in Seq(S)
    BY <1>0, <2>1, <2>6
  <2> QED
    BY <2>3, <2>7 DEF Sound
<1>5. CASE ExecUnlink(w)
  <2>1. PICK e \in s.edges :
          /\ db' = [db EXCEPT !.wired = @ \ {e}]
          /\ todo' = [todo EXCEPT ![w] = <<Without(s, e)>> \o rest]
    BY <1>5 DEF ExecUnlink
  <2>2. s.op = "unlink"
    BY <1>5 DEF ExecUnlink, At
  <2>3. /\ db'.text = db.text /\ db'.fts = db.fts /\ db'.claims = db.claims
        /\ db'.plain = db.plain /\ db'.wired \subseteq db.wired
    BY <1>1, <2>1 DEF Tables
  <2>4. <<Without(s, e)>> \in Seq(S)
    <3>1. Without(s, e) \in S
      BY <1>0, <2>2, LoopGoesOn DEF Quiet, Good
    <3> QED
      BY <3>1, OneIsASeq
  <2>5. todo'[w] \in Seq(S)
    BY <1>0, <2>1, <2>4
  <2> QED
    BY <2>3, <2>5 DEF Sound
<1>6. ASSUME UNCHANGED db, NEW more \in Seq(S), todo' = [todo EXCEPT ![w] = more \o rest]
      PROVE  /\ db'.text = db.text /\ db'.fts = db.fts /\ Sound(db') /\ todo'[w] \in Seq(S)
  BY <1>0, <1>6
<1>7. CASE ExecSelect(w)
  <2> DEFINE old == WiredFrom(db, s.id)
             more == Replace(s.id, old, s.edges)
  <2>1. s.id \in Id /\ s.edges \in SUBSET Edge
    <3>1. s.op = "select"
      BY <1>7 DEF ExecSelect, At
    <3> QED
      BY <1>0, <3>1, Carries
  <2>2. old \in SUBSET Edge
    BY <1>1 DEF WiredFrom, Tables
  <2>3. /\ s.edges \ old \in SUBSET Edge /\ old \ s.edges \in SUBSET Edge
        /\ {<<s.id, s.edges>>} \in SUBSET (Id \X SUBSET Edge) /\ {} \in SUBSET Edge
    BY <2>1, <2>2
  <2>4. /\ Link(s.edges \ old, TRUE, FALSE) \in S /\ Unlink(old \ s.edges) \in S
        /\ CommitBy({}, {<<s.id, s.edges>>}) \in S
    BY <2>3, QuietStatements
  <2>5. more \in Seq(S)
    BY <2>4, ThreeAreASeq DEF Replace
  <2>6. todo' = [todo EXCEPT ![w] = more \o rest] /\ UNCHANGED db
    BY <1>7 DEF ExecSelect
  <2> QED
    BY <1>6, <2>5, <2>6
<1>8. CASE ExecCommit(w)
  BY <1>2, <1>8 DEF ExecCommit
<1>9. CASE LoopEnds(w)
  BY <1>2, <1>9 DEF LoopEnds
<1>10. CASE NextClaim(w)
  <2> DEFINE c == Head(s.rest)
             i == Anchor(c).id
             t == Anchor(c).text
             later == Promote(Tail(s.rest), IF CanPromote(c) THEN s.seen \cup {i} ELSE s.seen)
             first == IF CanPromote(c) THEN PromoteClaim(c, s.seen) ELSE <<>>
  <2>1. /\ s.op = "promote" /\ UNCHANGED db
        /\ todo' = [todo EXCEPT ![w] = first \o <<later>> \o rest]
    BY <1>10 DEF NextClaim, At
  <2>2. s.rest \in Seq(Claim) /\ s.rest # <<>> /\ s.seen \in SUBSET Id /\ s.seen \subseteq Stored
    BY <1>0, <1>10, <2>1, Carries DEF NextClaim, Quiet
  <2>3. c \in Claim /\ Tail(s.rest) \in Seq(Claim)
    BY <2>2
  <2>4. CanPromote(c) => i \in Id /\ t \in Text
    <3>1. c.cites \in Seq(Evidence)
      BY <2>3 DEF Claim
    <3>2. CanPromote(c) => c.cites # <<>>
      BY DEF CanPromote
    <3>3. CanPromote(c) => Anchor(c) \in Evidence
      BY <3>1, <3>2 DEF Anchor
    <3> QED
      BY <3>3 DEF Evidence
  <2> HIDE DEF c, i, t
  <2>5. CASE ~CanPromote(c)
    <3>1. later \in S
      BY <2>2, <2>3, <2>5, QuietStatements
    <3>2. <<later>> \in Seq(S) /\ first = <<>>
      BY <2>5, <3>1, OneIsASeq
    <3> HIDE DEF first, later
    <3>3. first \o <<later>> \in Seq(S)
      BY <3>2
    <3> QED
      BY <1>6, <2>1, <3>3
  <2>6. CASE CanPromote(c) /\ i \in s.seen
    <3>1. later \in S /\ AddClaim(i) \in S /\ Commit \in S
      BY <2>2, <2>3, <2>4, <2>6, QuietStatements
    <3>2. first = <<>> \o <<AddClaim(i), Commit>> /\ <<AddClaim(i), Commit>> \in Seq(S)
      BY <2>6, <3>1 DEF PromoteClaim, i, c
    <3>3. first \in Seq(S) /\ <<later>> \in Seq(S)
      <4>1. <<>> \in Seq(S)
        OBVIOUS
      <4> HIDE DEF first, S
      <4> QED
        BY <3>1, <3>2, <4>1, OneIsASeq
    <3> HIDE DEF first, later
    <3>4. first \o <<later>> \in Seq(S)
      BY <3>3
    <3> QED
      BY <1>6, <2>1, <3>4
  <2>7. CASE CanPromote(c) /\ i \notin s.seen
    <3> DEFINE Q == Quiet(Stored \cup {i})
               claim == <<AddClaim(i), Commit>>
    <3>1. later \in Q /\ AddClaim(i) \in Q /\ Commit \in Q
      <4>1. s.seen \cup {i} \in SUBSET Id /\ s.seen \cup {i} \subseteq Stored \cup {i}
        BY <2>2, <2>4, <2>7
      <4> QED
        BY <2>3, <2>4, <2>7, <4>1, QuietStatements
    <3>2. /\ claim \in Seq(Q) /\ <<later>> \in Seq(Q) /\ rest \in Seq(Q)
          /\ Upsert(i, t) \in Seq(Statement)
      <4>1. Upsert(i, t) \in Seq(Good(db))
        BY <2>4, <2>7, Issued
      <4>2. rest \in Seq(Q)
        BY QuietGrows
      <4> QED
        BY <3>1, <4>1, <4>2, OneIsASeq DEF Good
    <3>3. first = Upsert(i, t) \o claim
      BY <2>7 DEF PromoteClaim, i, c, t
    <3> DEFINE r == claim \o <<later>> \o rest
    <3>4. claim \o <<later>> \in Seq(Q) /\ r \in Seq(Q)
      BY <3>2
    <3>5. first \o <<later>> \o rest = Upsert(i, t) \o r
      <4> DEFINE u == Upsert(i, t)
                 l == <<later>>
      <4>1. /\ u \in Seq(Statement) /\ claim \in Seq(Statement) /\ l \in Seq(Statement)
            /\ rest \in Seq(Statement)
        BY <3>2 DEF Quiet
      <4>2. \A x \in Seq(Statement) : (first \o l) \o x = u \o ((claim \o l) \o x)
        <5> TAKE x \in Seq(Statement)
        <5> HIDE DEF u, l, claim, first
        <5>1. Cat(Cat(Cat(u, claim), l), x) = Cat(u, Cat(Cat(claim, l), x))
          BY <4>1, Regroups
        <5> QED
          BY <3>3, <5>1, Zenon DEF Cat, u
      <4> HIDE DEF u, l, claim, first
      <4>3. (first \o l) \o rest = u \o ((claim \o l) \o rest)
        BY <4>1, <4>2, Zenon
      <4> QED
        BY <4>3, Zenon DEF u, l
    <3> HIDE DEF first, later, r, Q
    <3>6. todo'[w] = Upsert(i, t) \o r
      BY <1>0, <2>1, <3>5
    <3> QED
      BY <2>1, <2>4, <2>7, <3>4, <3>6 DEF Q
  <2> QED
    BY <2>5, <2>6, <2>7
<1> QED
  BY <1>0, <1>3, <1>4, <1>5, <1>7, <1>8, <1>9, <1>10, ExecByKind

(* One statement takes a call from one stage of an upsert to the next.      *)
LEMMA UpsertingStep ==
  ASSUME StoreOK, Sound(db), NEW w \in Writer, Exec(w), Upserting(todo[w])
  PROVE  /\ Upserting(todo[w])' /\ Sound(db')
         /\ At(w, "commit") => Mirrors(db, {})
<1> DEFINE s == Next1(w)
<1>0. /\ todo[w] # <<>> /\ w \in DOMAIN todo /\ db \in Tables
      /\ db.text \in [Id -> Text \cup {Absent}] /\ db.fts \in [Id -> Seq(Text)]
  BY ExecByKind DEF StoreOK, Tables
<1>1. CASE Outside(todo[w])
  <2>1. /\ s \in Quiet(Stored) /\ Tail(todo[w]) \in Seq(Quiet(Stored)) /\ Mirrors(db, {})
    BY <1>0, <1>1 DEF Outside, Next1
  <2>2. /\ db'.text = db.text /\ db'.fts = db.fts /\ Sound(db')
        /\ \/ todo'[w] \in Seq(Quiet(Stored))
           \/ \E i \in Id, t \in Text : \E r \in Seq(Quiet(Stored \cup {i})) :
                todo'[w] = Upsert(i, t) \o r
    BY <2>1, QuietExec
  <2>3. Stored' = Stored /\ Mirrors(db', {})
    BY <2>1, <2>2 DEF Stored, Mirrors
  <2>4. CASE todo'[w] \in Seq(Quiet(Stored))
    BY <2>1, <2>2, <2>3, <2>4 DEF Upserting, Outside
  <2>5. ASSUME NEW i \in Id, NEW t \in Text, NEW r \in Seq(Quiet(Stored \cup {i})),
               todo'[w] = Upsert(i, t) \o r
        PROVE  Upserting(todo[w])'
    <3> DEFINE q == <<Commit>> \o r
    <3>1. Commit \in Quiet(Stored \cup {i})
      BY QuietStatements
    <3>2. q \in Seq(Quiet(Stored \cup {i})) /\ r \in Seq(Statement) /\ q \in Seq(Statement)
      BY <3>1, OneIsASeq DEF Quiet
    <3>3. todo'[w] = <<Put(i, t)>> \o (<<DropFts(i)>> \o (<<AddFts(i, t)>> \o q))
      BY <2>5, <3>2, UpsertUnfolds
    <3> HIDE DEF q
    <3>4. AtPut(todo[w], i, t, q)'
      BY <2>3, <3>2, <3>3 DEF AtPut
    <3> QED
      BY <3>2, <3>4 DEF Upserting
  <2> QED
    BY <2>1, <2>2, <2>4, <2>5
<1>2. ASSUME NEW i \in Id, NEW t \in Text, NEW r \in Seq(Statement), AtPut(todo[w], i, t, r)
      PROVE  Upserting(todo[w])' /\ Sound(db') /\ s.op = "put"
  <2> DEFINE q == <<DropFts(i)>> \o (<<AddFts(i, t)>> \o r)
  <2>1. q \in Seq(Statement)
    <3>1. <<DropFts(i)>> \in Seq(Statement) /\ <<AddFts(i, t)>> \in Seq(Statement)
      BY OneIsASeq DEF Statement, DropFts, AddFts
    <3> QED
      BY <3>1
  <2>2. s = Put(i, t) /\ Tail(todo[w]) = q
    BY <1>2, <2>1, Cons DEF AtPut, Next1
  <2>3. s.op = "put" /\ s.id = i /\ s.text = t /\ t # Absent
    BY <2>2, KnowledgeBaseAssumption DEF Put
  <2>4. db' = [db EXCEPT !.text[i] = t] /\ todo'[w] = q
    BY <1>0, <2>2, <2>3, ExecByKind DEF ExecPut, OnlyDb, Advance
  <2>5. /\ db'.text = [db.text EXCEPT ![i] = t] /\ db'.fts = db.fts /\ db'.claims = db.claims
        /\ db'.wired = db.wired /\ db'.plain = db.plain
    BY <1>0, <2>4 DEF Tables
  <2>6. /\ Stored' = Stored \cup {i} /\ Mirrors(db', {i}) /\ db'.text[i] = t /\ Sound(db')
    BY <1>0, <1>2, <2>3, <2>5 DEF Stored, Mirrors, Sound, AtPut
  <2>7. AtDropFts(todo[w], i, t, r)'
    BY <1>2, <2>4, <2>6 DEF AtDropFts, AtPut
  <2> QED
    BY <2>3, <2>6, <2>7 DEF Upserting
<1>3. ASSUME NEW i \in Id, NEW t \in Text, NEW r \in Seq(Statement), AtDropFts(todo[w], i, t, r)
      PROVE  Upserting(todo[w])' /\ Sound(db') /\ s.op = "dropfts"
  <2> DEFINE q == <<AddFts(i, t)>> \o r
  <2>1. q \in Seq(Statement)
    <3>1. <<AddFts(i, t)>> \in Seq(Statement)
      BY OneIsASeq DEF Statement, AddFts
    <3> QED
      BY <3>1
  <2>2. s = DropFts(i) /\ Tail(todo[w]) = q
    BY <1>3, <2>1, Cons DEF AtDropFts, Next1
  <2>3. s.op = "dropfts" /\ s.id = i
    BY <2>2 DEF DropFts
  <2>4. db' = [db EXCEPT !.fts[i] = <<>>] /\ todo'[w] = q
    BY <1>0, <2>2, <2>3, ExecByKind DEF ExecDropFts, OnlyDb, Advance
  <2>5. /\ db'.fts = [db.fts EXCEPT ![i] = <<>>] /\ db'.text = db.text /\ db'.claims = db.claims
        /\ db'.wired = db.wired /\ db'.plain = db.plain
    BY <1>0, <2>4 DEF Tables
  <2>6. Stored' = Stored /\ Mirrors(db', {i}) /\ db'.text[i] = t /\ db'.fts[i] = <<>> /\ Sound(db')
    BY <1>0, <1>3, <2>5 DEF Stored, Mirrors, Sound, AtDropFts
  <2>7. AtAddFts(todo[w], i, t, r)'
    BY <1>3, <2>4, <2>6 DEF AtAddFts, AtDropFts
  <2> QED
    BY <2>3, <2>6, <2>7 DEF Upserting
<1>4. ASSUME NEW i \in Id, NEW t \in Text, NEW r \in Seq(Statement), AtAddFts(todo[w], i, t, r)
      PROVE  Upserting(todo[w])' /\ Sound(db') /\ s.op = "addfts"
  <2>2. s = AddFts(i, t) /\ Tail(todo[w]) = r
    BY <1>4, Cons DEF AtAddFts, Next1
  <2>3. s.op = "addfts" /\ s.id = i /\ s.text = t /\ t # Absent
    BY <2>2, KnowledgeBaseAssumption DEF AddFts
  <2>4. db' = [db EXCEPT !.fts[i] = Append(@, t)] /\ todo'[w] = r
    BY <1>0, <2>2, <2>3, ExecByKind DEF ExecAddFts, OnlyDb, Advance
  <2>5. Append(db.fts[i], t) = <<t>> /\ db.text[i] = t
    BY <1>4 DEF AtAddFts
  <2>6. /\ db'.fts = [db.fts EXCEPT ![i] = <<t>>] /\ db'.text = db.text /\ db'.claims = db.claims
        /\ db'.wired = db.wired /\ db'.plain = db.plain
    BY <1>0, <2>4, <2>5 DEF Tables
  <2>7. Stored' = Stored /\ Mirrors(db', {}) /\ Sound(db')
    BY <1>0, <1>4, <2>3, <2>5, <2>6 DEF Stored, Mirrors, Sound, AtAddFts
  <2>8. Outside(todo[w])'
    BY <1>4, <2>4, <2>7 DEF Outside, AtAddFts
  <2> QED
    BY <2>3, <2>7, <2>8 DEF Upserting
<1>5. At(w, "commit") => s.op = "commit"
  BY DEF At
<1> QED
  BY <1>1, <1>2, <1>3, <1>4, <1>5 DEF Upserting, Outside

(* A new call starts with its first statement, while nothing else is under  *)
(* way.                                                                     *)
LEMMA UpsertingBegins ==
  ASSUME StoreOK, NEW w \in Writer, Begin(w), Upserting(todo[w])
  PROVE  Upserting(todo[w])' /\ UNCHANGED <<db, disk>>
<1>1. /\ todo[w] = <<>> /\ UNCHANGED <<db, disk>> /\ w \in DOMAIN todo
      /\ \E rest : todo' = [todo EXCEPT ![w] = rest]
  BY DEF Begin, UpsertPaper, AddEdge, PromoteReport, ExtractFromContent, Process,
         RefreshKnown, Reconcile, Persist, Call, StoreOK
<1>2. Mirrors(db, {})
  <2>1. ASSUME NEW x, NEW q \in Seq(Statement), <<>> = <<x>> \o q PROVE FALSE
    BY <2>1, Cons
  <2>2. \A i \in Id, t \in Text : /\ <<DropFts(i)>> \in Seq(Statement)
                                 /\ <<AddFts(i, t)>> \in Seq(Statement)
    BY DEF Statement, DropFts, AddFts
  <2>3. ASSUME NEW i \in Id, NEW t \in Text, NEW r \in Seq(Statement)
        PROVE  ~AtPut(<<>>, i, t, r) /\ ~AtDropFts(<<>>, i, t, r) /\ ~AtAddFts(<<>>, i, t, r)
    <3> DEFINE q == <<AddFts(i, t)>> \o r
               p == <<DropFts(i)>> \o q
    <3>1. q \in Seq(Statement)
      BY <2>2
    <3>2. p \in Seq(Statement)
      <4> HIDE DEF q
      <4> QED
        BY <2>2, <3>1
    <3>3. <<>> # q /\ <<>> # p /\ <<>> # <<Put(i, t)>> \o p
      <4> HIDE DEF p
      <4>1. <<>> # q
        BY <2>1
      <4>2. <<>> # <<Put(i, t)>> \o p
        BY <2>1, <3>2
      <4>3. <<>> # p
        <5> HIDE DEF q
        <5> QED
          BY <2>1, <3>1 DEF p
      <4> QED
        BY <4>1, <4>2, <4>3
    <3> QED
      BY <3>3 DEF AtPut, AtDropFts, AtAddFts
  <2> QED
    BY <1>1, <2>3 DEF Upserting, Outside
<1>3. Stored' = Stored /\ Mirrors(db, {})'
  BY <1>1, <1>2 DEF Stored, Mirrors
<1>4. ASSUME todo'[w] \in Seq(Quiet(Stored)) PROVE Upserting(todo[w])'
  BY <1>3, <1>4 DEF Upserting, Outside
<1>5. todo'[w] = <<>> => Upserting(todo[w])'
  <2>1. <<>> \in Seq(Quiet(Stored))
    OBVIOUS
  <2> QED
    BY <1>4, <2>1
<1>6. ASSUME NEW x \in Quiet(Stored), Call(w, <<x>>) PROVE Upserting(todo[w])'
  <2>1. todo'[w] = <<x>> /\ <<x>> \in Seq(Quiet(Stored))
    BY <1>1, <1>6, OneIsASeq DEF Call
  <2> QED
    BY <1>4, <2>1
<1>7. ASSUME NEW i \in Paper, NEW t \in Text, UpsertPaper(w, i, t) PROVE Upserting(todo[w])'
  <2>1. todo'[w] = Upsert(i, t) /\ i \in Id
    BY <1>1, <1>7 DEF UpsertPaper, Call, Id
  <2>2. Upsert(i, t) \o <<>> = Upsert(i, t)
    <3>1. Upsert(i, t) \in Seq(Good(db))
      BY <2>1, Issued
    <3> QED
      BY <3>1, ConcatEmptySeq
  <2> DEFINE q == <<Commit>> \o <<>>
             Q == Quiet(Stored \cup {i})
  <2>3. q \in Seq(Q) /\ q \in Seq(Statement)
    <3>1. Commit \in Q
      BY QuietStatements
    <3>2. <<Commit>> \in Seq(Q) /\ <<Commit>> \in Seq(Statement)
      BY <3>1, OneIsASeq DEF Quiet
    <3> QED
      BY <3>2
  <2>4. todo'[w] = <<Put(i, t)>> \o (<<DropFts(i)>> \o (<<AddFts(i, t)>> \o q))
    <3>1. <<>> \in Seq(Statement)
      OBVIOUS
    <3> QED
      BY <2>1, <2>2, <3>1, UpsertUnfolds
  <2> HIDE DEF q
  <2>5. AtPut(todo[w], i, t, q)'
    BY <1>3, <2>3, <2>4 DEF AtPut
  <2> QED
    BY <2>1, <2>3, <2>5 DEF Upserting
<1>8. ASSUME NEW e \in UserEdge, AddEdge(w, e) PROVE Upserting(todo[w])'
  <2>1. {e} \in SUBSET Edge
    BY KnowledgeBaseAssumption
  <2>2. Link({e}, FALSE, TRUE) \in Quiet(Stored)
    BY <2>1, QuietStatements
  <2> QED
    BY <1>6, <1>8, <2>2 DEF AddEdge
<1>9. ASSUME NEW report \in Report, PromoteReport(w, report) PROVE Upserting(todo[w])'
  <2>1. {} \in SUBSET Id /\ {} \subseteq Stored /\ report \in Seq(Claim)
    BY KnowledgeBaseAssumption
  <2>2. Promote(report, {}) \in Quiet(Stored)
    BY <2>1, QuietStatements
  <2> QED
    BY <1>6, <1>9, <2>2 DEF PromoteReport
<1>10. ASSUME NEW es \in SUBSET Edge, Call(w, AddEach(es)) PROVE Upserting(todo[w])'
  <2>1. Link(es, FALSE, FALSE) \in Quiet(Stored)
    BY QuietStatements
  <2> QED
    BY <1>6, <1>10, <2>1 DEF AddEach
<1>11. ASSUME NEW i \in Id, ExtractFromContent(w, i) PROVE Upserting(todo[w])'
  <2> DEFINE es == {<<i, d, "cites">> : d \in (Mentions[db.text[i]] \cap Stored) \ {i}}
  <2>1. es \in SUBSET Edge
    BY KnowledgeBaseAssumption DEF Edge, Stored
  <2> QED
    BY <1>10, <1>11, <2>1 DEF ExtractFromContent
<1>12. ASSUME Call(w, <<>>) PROVE Upserting(todo[w])'
  BY <1>1, <1>5, <1>12 DEF Call
<1>13. CASE Reconcile(w)
  <2>1. PICK pe \in inferred[w] : Call(w, <<Select(pe[1], pe[2])>>)
    BY <1>13 DEF Reconcile
  <2>2. pe[1] \in Id /\ pe[2] \in SUBSET Edge
    BY DEF StoreOK
  <2> DEFINE x == Select(pe[1], pe[2])
  <2>3. x \in Quiet(Stored) /\ Call(w, <<x>>)
    BY <2>1, <2>2, QuietStatements
  <2> HIDE DEF x
  <2> QED
    BY <1>1, <1>6, <2>3
<1>14. CASE Persist(w)
  <2>1. PICK pe \in inferred[w] : Call(w, AddEach(pe[2]))
    BY <1>14 DEF Persist
  <2> DEFINE es == pe[2]
  <2>2. es \in SUBSET Edge /\ Call(w, AddEach(es))
    BY <2>1 DEF StoreOK
  <2> HIDE DEF es
  <2> QED
    BY <1>1, <1>10, <2>2
<1>15. (\E i \in Id : Process(w, i)) \/ RefreshKnown(w) => Upserting(todo[w])'
  BY <1>12 DEF Process, RefreshKnown
<1>16. \/ \E i \in Paper, t \in Text : UpsertPaper(w, i, t)
       \/ \E e \in UserEdge : AddEdge(w, e)
       \/ \E report \in Report : PromoteReport(w, report)
       \/ \E i \in Id : ExtractFromContent(w, i)
       \/ Reconcile(w) \/ Persist(w)
       \/ (\E i \in Id : Process(w, i)) \/ RefreshKnown(w)
  BY <1>1, Zenon DEF Begin
<1> QED
  BY <1>1, <1>7, <1>8, <1>9, <1>11, <1>13, <1>14, <1>15, <1>16

(* The statements leave the disk alone until a commit.                      *)
LEMMA TablesStep ==
  ASSUME SingleWriter, StoreOK, TablesOK, [Next]_vars
  PROVE  TablesOK'
<1>1. CASE UNCHANGED vars
  <2>1. UNCHANGED <<db, disk, todo>> /\ Stored' = Stored
    BY <1>1 DEF vars, Stored
  <2>2. \A w \in Writer : Upserting(todo[w])' <=> Upserting(todo[w])
    BY <2>1 DEF Upserting, Outside, AtPut, AtDropFts, AtAddFts
  <2> QED
    BY <2>1, <2>2 DEF TablesOK
<1>2. CASE Crash
  <2>1. /\ db' = disk /\ disk' = disk /\ \A w \in Writer : todo'[w] = <<>>
    BY <1>2 DEF Crash
  <2>2. \A w \in Writer : Outside(todo[w])'
    <3> DEFINE Q == Quiet(Stored)
    <3>1. Mirrors(db, {})'
      BY <2>1 DEF TablesOK, Mirrors
    <3>2. ASSUME NEW w \in Writer PROVE (todo[w] \in Seq(Q))'
      <4> HIDE DEF Q
      <4>1. <<>> \in Seq(Q')
        OBVIOUS
      <4> QED
        BY <2>1, <4>1
    <3> QED
      BY <3>1, <3>2 DEF Outside
  <2> QED
    BY <2>1, <2>2 DEF TablesOK, Upserting, Sound, Mirrors
<1>3. ASSUME NEW w \in Writer, Begin(w) PROVE TablesOK'
  <2>1. Upserting(todo[w])' /\ UNCHANGED <<db, disk>>
    BY <1>3, UpsertingBegins DEF TablesOK
  <2>2. \A v \in Writer : v = w
    BY DEF SingleWriter
  <2> QED
    BY <2>1, <2>2 DEF TablesOK, Sound, Mirrors
<1>4. ASSUME NEW w \in Writer, Exec(w) PROVE TablesOK'
  <2>1. Upserting(todo[w])' /\ Sound(db') /\ (At(w, "commit") => Mirrors(db, {}))
    BY <1>4, UpsertingStep DEF TablesOK
  <2>2. Sound(disk') /\ Mirrors(disk', {})
    <3>1. CASE ExecCommit(w)
      BY <2>1, <3>1 DEF ExecCommit, TablesOK
    <3>2. CASE ~ExecCommit(w)
      <4>1. disk' = disk
        BY <1>4, <3>2 DEF Exec, ExecPut, ExecDropFts, ExecAddFts, ExecClaim, ExecLink,
               ExecUnlink, ExecSelect, NextClaim, LoopEnds, OnlyDb
      <4> QED
        BY <4>1 DEF TablesOK
    <3> QED
      BY <3>1, <3>2
  <2>3. \A v \in Writer : v = w
    BY DEF SingleWriter
  <2> QED
    BY <2>1, <2>2, <2>3 DEF TablesOK
<1> QED
  BY <1>1, <1>2, <1>3, <1>4 DEF Next

LEMMA StartsWell == Init => StoreOK /\ TablesOK
<1> SUFFICES ASSUME Init PROVE StoreOK /\ TablesOK
  OBVIOUS
<1>1. StoreOK
  BY DEF Init, Empty, StoreOK, Tables, Resolved
<1>2. Mirrors(Empty, {}) /\ Sound(Empty)
  BY DEF Mirrors, Sound, Empty
<1>3. \A w \in Writer : Outside(todo[w])
  BY <1>2 DEF Init, Outside
<1> QED
  BY <1>1, <1>2, <1>3 DEF Init, TablesOK, Upserting

(* With one writer the tables on the disk agree, whatever call a crash cuts *)
(* off: the mirror has one row for each paper, with its current text; a     *)
(* claim's paper is stored; and no edge has two rows.                       *)
THEOREM TablesAgreeForOneWriter == SingleWriter => (Spec => []TablesAgree)
<1> SUFFICES ASSUME SingleWriter PROVE Spec => []TablesAgree
  OBVIOUS
<1>1. Init => StoreOK /\ TablesOK
  BY StartsWell
<1>2. StoreOK /\ TablesOK /\ [Next]_vars => TablesOK'
  BY TablesStep
<1>3. StoreOK /\ [Next]_vars => StoreOK'
  BY StoreStep
<1>4. StoreOK /\ TablesOK => TablesAgree
  BY DEF StoreOK, TablesOK, TablesAgree, Sound, Mirrors
<1> QED
  BY <1>1, <1>2, <1>3, <1>4, PTL DEF Spec

-----------------------------------------------------------------------------
(* Reconciliation, for one writer.                                          *)

(* Where the self-wired rows are those of the last reconciliation, less the *)
(* edges whose row is plain.                                                *)
Reconciled(t, odd) ==
  \A i \in Id \ odd : WiredFrom(t, i) = installed[i] \ t.plain

(* The statements outside a reconciliation.                                 *)
Ordinary ==
  {s \in Statement : /\ s.op \notin {"select", "unlink"}
                     /\ s.op = "link" => ~s.wired
                     /\ s.op = "commit" => s.done = {}}

(* Where a call stands in a reconciliation of p with the edges N: U are the *)
(* rows it has yet to delete, L the edges it has yet to insert.             *)
Selecting(s, p, N) ==
  /\ s = <<Select(p, N)>> /\ Reconciled(db, {})
  /\ \A e \in N : e[1] = p
Midway(p, N, U, L) ==
  /\ Reconciled(db, {p})
  /\ \A e \in U \cup N : e[1] = p
  /\ L \subseteq N /\ U \cap N = {}
  /\ (WiredFrom(db, p) \ U) \cup (L \ db.plain) = N \ db.plain
Done(p, N) == CommitBy({}, {<<p, N>>})
Replacing(s, p, N, U, L) ==
  /\ Midway(p, N, U, L)
  /\ \/ s = <<Unlink(U), Link(L, TRUE, FALSE), Done(p, N)>>
     \/ U = {} /\ s = <<Link(L, TRUE, FALSE), Done(p, N)>>
     \/ U = {} /\ L = {} /\ s = <<Done(p, N)>>
Reconciling(s) ==
  \/ s \in Seq(Ordinary) /\ Reconciled(db, {})
  \/ \E p \in Id, N \in SUBSET Edge :
       \/ Selecting(s, p, N)
       \/ \E U, L \in SUBSET Edge : Replacing(s, p, N, U, L)

AtomicOK ==
  /\ Reconciled(disk, {})
  /\ \A w \in Writer : Reconciling(todo[w])
  /\ \A w \in Writer : \A pe \in inferred[w] : \A e \in pe[2] : e[1] = pe[1]

LEMMA OrdinaryStatements ==
  /\ \A i \in Id, t \in Text : Upsert(i, t) \in Seq(Ordinary)
  /\ \A i \in Id : AddClaim(i) \in Ordinary
  /\ Commit \in Ordinary
  /\ \A hand \in SUBSET Edge : CommitBy(hand, {}) \in Ordinary
  /\ \A es \in SUBSET Edge, hand \in BOOLEAN : Link(es, FALSE, hand) \in Ordinary
  /\ \A rest \in Seq(Claim), seen \in SUBSET Id : Promote(rest, seen) \in Ordinary
<1>1. \A i \in Id, t \in Text :
        Put(i, t) \in Ordinary /\ DropFts(i) \in Ordinary /\ AddFts(i, t) \in Ordinary
  BY DEF Put, DropFts, AddFts, Ordinary, Statement
<1>2. Commit \in Ordinary /\ \A hand \in SUBSET Edge : CommitBy(hand, {}) \in Ordinary
  BY DEF Commit, CommitBy, Ordinary, Statement
<1>3. \A i \in Id, t \in Text : Upsert(i, t) \in Seq(Ordinary)
  BY <1>1, <1>2 DEF Upsert
<1>4. \A i \in Id : AddClaim(i) \in Ordinary
  BY DEF AddClaim, Ordinary, Statement
<1>5. \A es \in SUBSET Edge, hand \in BOOLEAN : Link(es, FALSE, hand) \in Ordinary
  BY DEF Link, Ordinary, Statement
<1>6. \A rest \in Seq(Claim), seen \in SUBSET Id : Promote(rest, seen) \in Ordinary
  BY DEF Promote, Ordinary, Statement
<1> QED
  BY <1>2, <1>3, <1>4, <1>5, <1>6

(* Outside a reconciliation a self-wired row comes and goes with none of    *)
(* its own, and a plain row is added only where there was no row.           *)
LEMMA OrdinaryExec ==
  ASSUME StoreOK, Reconciled(db, {}), NEW w \in Writer, Exec(w),
         Next1(w) \in Ordinary, NEW rest \in Seq(Ordinary), rest = Tail(todo[w])
  PROVE  Reconciled(db, {})' /\ todo'[w] \in Seq(Ordinary)
<1> DEFINE s == Next1(w)
           S == Ordinary
<1>0. /\ s \in Good(db) /\ s \in Statement /\ todo[w] # <<>> /\ w \in DOMAIN todo
      /\ s.op \notin {"select", "unlink"}
  <2>1. todo[w] # <<>>
    BY ExecByKind
  <2> QED
    BY <2>1, HeadStatement DEF Ordinary, StoreOK
<1>1. db \in Tables
  BY DEF StoreOK
<1>2. ASSUME db'.wired = db.wired, db'.plain = db.plain, \A i \in Id : installed'[i] = installed[i]
      PROVE  Reconciled(db, {})'
  BY <1>2 DEF Reconciled, WiredFrom
<1>3. CASE ExecPut(w) \/ ExecDropFts(w) \/ ExecAddFts(w) \/ ExecClaim(w)
  <2>1. todo'[w] = rest /\ db'.wired = db.wired /\ db'.plain = db.plain /\ UNCHANGED installed
    BY <1>0, <1>1, <1>3
       DEF ExecPut, ExecDropFts, ExecAddFts, ExecClaim, OnlyDb, Advance, Tables
  <2> QED
    BY <1>2, <2>1
<1>4. CASE ExecLink(w)
  <2> DEFINE commits(e) == <<CommitBy(IF s.hand THEN {e} ELSE {}, {})>>
  <2>0. s.op = "link" /\ ~s.wired /\ s.edges \in SUBSET Edge /\ s.wired \in BOOLEAN
    BY <1>0, <1>4, Carries DEF ExecLink, At, Ordinary
  <2>1. PICK e \in s.edges :
          /\ db' = LinkOrIgnore(e, s.wired)
          /\ todo' = [todo EXCEPT ![w] = commits(e) \o <<Without(s, e)>> \o rest]
          /\ UNCHANGED installed
    BY <1>4, <2>0 DEF ExecLink
  <2>2. e \in Edge
    BY <2>0
  <2>3. /\ db'.wired = db.wired
        /\ db'.plain = IF e \in db.wired \cup db.plain THEN db.plain ELSE db.plain \cup {e}
    BY <1>1, <2>0, <2>1, <2>2, LinkedTables
  <2>4. Without(s, e) \in S
    <3>1. s \in [op : {"link"}, edges : SUBSET Edge, wired : BOOLEAN, hand : BOOLEAN]
      BY <1>0, <2>0 DEF Statement
    <3>2. /\ Without(s, e) \in [op : {"link"}, edges : SUBSET Edge, wired : BOOLEAN, hand : BOOLEAN]
          /\ Without(s, e).wired = s.wired
      BY <3>1 DEF Without
    <3> QED
      BY <2>0, <3>2 DEF Ordinary, Statement
  <2>5. commits(e) \in Seq(S)
    <3>1. {e} \in SUBSET Edge /\ {} \in SUBSET Edge
      BY <2>2
    <3>2. CommitBy({e}, {}) \in S /\ CommitBy({}, {}) \in S
      BY <3>1, OrdinaryStatements
    <3>3. <<CommitBy({e}, {})>> \in Seq(S) /\ <<CommitBy({}, {})>> \in Seq(S)
      BY <3>2, OneIsASeq
    <3> QED
      BY <3>3
  <2> HIDE DEF commits
  <2>6. commits(e) \o <<Without(s, e)>> \o rest \in Seq(S)
    <3>1. <<Without(s, e)>> \in Seq(S)
      BY <2>4, OneIsASeq
    <3> QED
      BY <2>5, <3>1
  <2>7. todo'[w] \in Seq(S)
    BY <1>0, <2>1, <2>6
  <2>8. ASSUME NEW i \in Id PROVE WiredFrom(db', i) = installed'[i] \ db'.plain
    <3>1. WiredFrom(db, i) = installed[i] \ db.plain /\ WiredFrom(db', i) = WiredFrom(db, i)
      BY <2>3 DEF Reconciled, WiredFrom
    <3>2. e \notin db.wired \cup db.plain => e \notin installed[i]
      BY <3>1 DEF WiredFrom
    <3> QED
      BY <2>1, <2>3, <3>1, <3>2
  <2> QED
    BY <2>7, <2>8 DEF Reconciled
<1>6. ASSUME UNCHANGED <<db, installed>>, NEW more \in Seq(S),
             todo' = [todo EXCEPT ![w] = more \o rest]
      PROVE  Reconciled(db, {})' /\ todo'[w] \in Seq(S)
  BY <1>0, <1>2, <1>6
<1>8. CASE ExecCommit(w)
  <2>1. s.done = {} /\ UNCHANGED db /\ todo'[w] = rest
    BY <1>0, <1>8 DEF ExecCommit, At, Ordinary, Advance
  <2>2. \A i \in Id : installed'[i] = installed[i]
    BY <1>8, <2>1 DEF ExecCommit
  <2> QED
    BY <1>2, <2>1, <2>2
<1>9. CASE LoopEnds(w)
  BY <1>0, <1>2, <1>9 DEF LoopEnds, Advance
<1>10. CASE NextClaim(w)
  <2> DEFINE c == Head(s.rest)
             i == Anchor(c).id
             t == Anchor(c).text
             later == Promote(Tail(s.rest), IF CanPromote(c) THEN s.seen \cup {i} ELSE s.seen)
             first == IF CanPromote(c) THEN PromoteClaim(c, s.seen) ELSE <<>>
  <2>1. /\ s.op = "promote" /\ UNCHANGED <<db, installed>>
        /\ todo' = [todo EXCEPT ![w] = first \o <<later>> \o rest]
    BY <1>10 DEF NextClaim, At
  <2>2. s.rest \in Seq(Claim) /\ s.rest # <<>> /\ s.seen \in SUBSET Id
    BY <1>0, <1>10, <2>1, Carries DEF NextClaim
  <2>3. c \in Claim /\ Tail(s.rest) \in Seq(Claim)
    BY <2>2
  <2>4. CanPromote(c) => i \in Id /\ t \in Text
    <3>1. c.cites \in Seq(Evidence)
      BY <2>3 DEF Claim
    <3>2. CanPromote(c) => c.cites # <<>>
      BY DEF CanPromote
    <3>3. CanPromote(c) => Anchor(c) \in Evidence
      BY <3>1, <3>2 DEF Anchor
    <3> QED
      BY <3>3 DEF Evidence
  <2> HIDE DEF c, i, t
  <2>5. later \in S
    BY <2>2, <2>3, <2>4, OrdinaryStatements
  <2>6. first \in Seq(S)
    <3> DEFINE claim == <<AddClaim(i), Commit>>
               up == Upsert(i, t)
    <3>1. CASE ~CanPromote(c)
      <4>1. <<>> \in Seq(S)
        OBVIOUS
      <4> QED
        BY <3>1, <4>1
    <3>2. CASE CanPromote(c)
      <4>1. up \in Seq(S) /\ AddClaim(i) \in S /\ Commit \in S
        BY <2>4, <3>2, OrdinaryStatements
      <4>2. claim \in Seq(S) /\ <<>> \in Seq(S)
        BY <4>1
      <4>3. first = (IF i \in s.seen THEN <<>> ELSE up) \o claim
        BY <3>2 DEF PromoteClaim, i, c, t
      <4> HIDE DEF claim, up, first, S
      <4> QED
        BY <4>1, <4>2, <4>3
    <3> QED
      BY <3>1, <3>2
  <2>7. <<later>> \in Seq(S)
    BY <2>5, OneIsASeq
  <2> HIDE DEF first, later
  <2>8. first \o <<later>> \in Seq(S)
    BY <2>6, <2>7
  <2> QED
    BY <1>6, <2>1, <2>8
<1> QED
  BY <1>0, <1>3, <1>4, <1>8, <1>9, <1>10 DEF Exec, ExecSelect, ExecUnlink, At

(* What the loops of a reconciliation do with one more edge.                *)
LEMMA MidwayGoesOn ==
  ASSUME StoreOK, Sound(db), NEW p \in Id, NEW N \in SUBSET Edge,
         NEW U \in SUBSET Edge, NEW L \in SUBSET Edge, Midway(p, N, U, L),
         UNCHANGED installed, NEW e \in Edge
  PROVE  /\ e \in U /\ db' = [db EXCEPT !.wired = @ \ {e}]
              => Midway(p, N, U \ {e}, L)'
         /\ U = {} /\ e \in L /\ db' = LinkOrIgnore(e, TRUE)
              => Midway(p, N, U, L \ {e})'
<1>0. db \in Tables /\ TRUE \in BOOLEAN
  BY DEF StoreOK
<1>1. ASSUME e \in U, db' = [db EXCEPT !.wired = @ \ {e}] PROVE Midway(p, N, U \ {e}, L)'
  <2>1. db'.wired = db.wired \ {e} /\ db'.plain = db.plain
    BY <1>0, <1>1 DEF Tables
  <2>2. e[1] = p
    BY <1>1 DEF Midway
  <2>3. \A i \in Id \ {p} : WiredFrom(db', i) = WiredFrom(db, i)
    BY <2>1, <2>2 DEF WiredFrom
  <2>4. WiredFrom(db', p) \ (U \ {e}) = WiredFrom(db, p) \ U
    BY <1>1, <2>1 DEF WiredFrom
  <2>5. Reconciled(db, {p})'
    BY <2>1, <2>3 DEF Midway, Reconciled
  <2> QED
    BY <2>1, <2>4, <2>5 DEF Midway
<1>2. ASSUME U = {}, e \in L, db' = LinkOrIgnore(e, TRUE) PROVE Midway(p, N, U, L \ {e})'
  <2>1. /\ db'.plain = db.plain
        /\ db'.wired = IF e \in db.wired \cup db.plain THEN db.wired ELSE db.wired \cup {e}
    BY <1>0, <1>2, LinkedTables
  <2>2. e[1] = p
    BY <1>2 DEF Midway
  <2>3. \A i \in Id \ {p} : WiredFrom(db', i) = WiredFrom(db, i)
    BY <2>1, <2>2 DEF WiredFrom
  <2>4. Reconciled(db, {p})'
    BY <2>1, <2>3 DEF Midway, Reconciled
  <2>5. WiredFrom(db', p) \cup ((L \ {e}) \ db.plain) = WiredFrom(db, p) \cup (L \ db.plain)
    BY <1>2, <2>1, <2>2 DEF WiredFrom
  <2> QED
    BY <1>2, <2>1, <2>4, <2>5 DEF Midway
<1> QED
  BY <1>1, <1>2

(* The three statements of a reconciliation, taken one by one.              *)
LEMMA Consequents ==
  ASSUME NEW a, NEW b, NEW c
  PROVE  /\ Head(<<a, b, c>>) = a /\ Tail(<<a, b, c>>) = <<b, c>>
         /\ Head(<<b, c>>) = b /\ Tail(<<b, c>>) = <<c>>
         /\ Head(<<c>>) = c /\ Tail(<<c>>) = <<>>
         /\ <<a>> \o <<b, c>> = <<a, b, c>> /\ <<b>> \o <<c>> = <<b, c>>
<1>1. /\ Head(<<a, b, c>>) = a /\ Tail(<<a, b, c>>) = <<b, c>>
      /\ Head(<<b, c>>) = b /\ Tail(<<b, c>>) = <<c>>
      /\ Head(<<c>>) = c /\ Tail(<<c>>) = <<>>
  OBVIOUS
<1>2. <<a, b, c>> = <<a>> \o <<b, c>>
  BY Unfolds
<1>4. <<b, c>> = <<b>> \o <<c>>
  BY Unfolds
<1>3. <<a>> \o <<b, c>> = <<a, b, c>> /\ <<b>> \o <<c>> = <<b, c>>
  BY <1>2, <1>4, Zenon
<1> QED
  BY <1>1, <1>3, Zenon

LEMMA ReplacingStep ==
  ASSUME StoreOK, Sound(db), NEW w \in Writer, Exec(w), NEW p \in Id,
         NEW N \in SUBSET Edge, NEW U \in SUBSET Edge, NEW L \in SUBSET Edge,
         Replacing(todo[w], p, N, U, L)
  PROVE  Reconciling(todo[w])' /\ (ExecCommit(w) => Reconciled(db, {})')
<1> DEFINE a(V) == Unlink(V)
           b(M) == Link(M, TRUE, FALSE)
           c == Done(p, N)
<1>0. /\ \A V : a(V).op = "unlink" /\ a(V).edges = V
      /\ \A M : b(M).op = "link" /\ b(M).edges = M /\ b(M).wired
      /\ c.op = "commit" /\ c.done = {<<p, N>>}
  BY DEF Unlink, Link, Done, CommitBy
<1>1. /\ \A V, e : Without(a(V), e) = a(V \ {e})
      /\ \A M, e : Without(b(M), e) = b(M \ {e})
  <2>1. ASSUME NEW V, NEW e PROVE Without(Unlink(V), e) = Unlink(V \ {e})
    BY DEF Without, Unlink
  <2>2. ASSUME NEW M, NEW e PROVE Without(b(M), e) = b(M \ {e})
    <3> DEFINE yes == TRUE
               no == FALSE
               r == [op |-> "link", edges |-> M, wired |-> yes, hand |-> no]
    <3> HIDE DEF yes, no
    <3>1. [r EXCEPT !.edges = M \ {e}]
            = [op |-> "link", edges |-> M \ {e}, wired |-> yes, hand |-> no]
      OBVIOUS
    <3>2. r.edges = M
      OBVIOUS
    <3> QED
      BY <3>1, <3>2 DEF Without, Link, yes, no
  <2>3. \A V, e : Without(a(V), e) = a(V \ {e})
    BY <2>1
  <2>4. \A M, e : Without(b(M), e) = b(M \ {e})
    BY <2>2, Zenon
  <2> QED
    BY <2>3, <2>4
<1>2. w \in DOMAIN todo /\ todo[w] # <<>> /\ db \in Tables
  BY ExecByKind DEF StoreOK
<1>3. ASSUME NEW V \in SUBSET Edge, NEW M \in SUBSET Edge, Replacing(todo[w], p, N, V, M)'
      PROVE  Reconciling(todo[w])'
  BY <1>3 DEF Reconciling
<1>4. CASE todo[w] = <<a(U), b(L), c>>
  <2> HIDE DEF a, b, c
  <2>1. Next1(w) = a(U) /\ Tail(todo[w]) = <<b(L), c>>
    BY <1>4, Consequents DEF Next1
  <2>2. ExecUnlink(w) \/ (U = {} /\ LoopEnds(w))
    BY <1>0, <2>1 DEF Exec, ExecPut, ExecDropFts, ExecAddFts, ExecClaim, ExecLink,
           ExecUnlink, ExecSelect, ExecCommit, NextClaim, LoopEnds, At
  <2>3. CASE ExecUnlink(w)
    <3>1. PICK e \in U :
            /\ db' = [db EXCEPT !.wired = @ \ {e}]
            /\ todo' = [todo EXCEPT ![w] = <<Without(a(U), e)>> \o <<b(L), c>>]
            /\ UNCHANGED installed
      <4>1. a(U).edges = U
        BY <1>0
      <4> QED
        BY <2>1, <2>3, <4>1 DEF ExecUnlink
    <3>2. Midway(p, N, U \ {e}, L)'
      BY <3>1, MidwayGoesOn DEF Replacing
    <3>3. todo'[w] = <<a(U \ {e}), b(L), c>>
      <4>1. <<a(U \ {e})>> \o <<b(L), c>> = <<a(U \ {e}), b(L), c>>
        <5>1. <<a(U \ {e}), b(L), c>> = <<a(U \ {e})>> \o <<b(L), c>>
          BY Unfolds
        <5> QED
          BY <5>1, Zenon
      <4>2. Without(a(U), e) = a(U \ {e})
        BY <1>1
      <4> QED
        BY <1>2, <3>1, <4>1, <4>2
    <3>4. Replacing(todo[w], p, N, U \ {e}, L)'
      BY <3>2, <3>3 DEF Replacing, a, b, c
    <3> QED
      BY <1>0, <1>3, <2>1, <2>3, <3>4 DEF ExecCommit, At
  <2>4. CASE U = {} /\ LoopEnds(w)
    <3>1. todo'[w] = <<b(L), c>> /\ UNCHANGED <<db, installed>>
      BY <1>2, <2>1, <2>4 DEF LoopEnds, Advance
    <3>2. Midway(p, N, U, L)'
      BY <3>1 DEF Replacing, Midway, Reconciled
    <3>3. Replacing(todo[w], p, N, U, L)'
      BY <2>4, <3>1, <3>2 DEF Replacing, a, b, c
    <3> QED
      BY <1>0, <1>3, <2>1, <3>3 DEF ExecCommit, At
  <2> QED
    BY <2>2, <2>3, <2>4
<1>5. CASE U = {} /\ todo[w] = <<b(L), c>>
  <2> HIDE DEF a, b, c
  <2>1. Next1(w) = b(L) /\ Tail(todo[w]) = <<c>>
    BY <1>5, Consequents DEF Next1
  <2>2. ExecLink(w) \/ (L = {} /\ LoopEnds(w))
    BY <1>0, <2>1 DEF Exec, ExecPut, ExecDropFts, ExecAddFts, ExecClaim, ExecLink,
           ExecUnlink, ExecSelect, ExecCommit, NextClaim, LoopEnds, At
  <2>3. CASE ExecLink(w)
    <3>1. PICK e \in L :
            /\ db' = LinkOrIgnore(e, TRUE)
            /\ todo' = [todo EXCEPT ![w] = <<>> \o <<Without(b(L), e)>> \o <<c>>]
            /\ UNCHANGED installed
      <4>1. b(L).wired = TRUE
        BY DEF b, Link
      <4>2. b(L).edges = L
        BY <1>0
      <4> QED
        BY <2>1, <2>3, <4>1, <4>2 DEF ExecLink
    <3>2. Midway(p, N, U, L \ {e})'
      BY <1>5, <3>1, MidwayGoesOn DEF Replacing
    <3>3. todo'[w] = <<b(L \ {e}), c>>
      <4>1. <<>> \o <<b(L \ {e})>> = <<b(L \ {e})>>
        OBVIOUS
      <4>2. <<b(L \ {e})>> \o <<c>> = <<b(L \ {e}), c>>
        BY Consequents, Zenon
      <4>3. Without(b(L), e) = b(L \ {e})
        BY <1>1
      <4> QED
        BY <1>2, <3>1, <4>1, <4>2, <4>3
    <3>4. Replacing(todo[w], p, N, U, L \ {e})'
      BY <1>5, <3>2, <3>3 DEF Replacing, a, b, c
    <3> QED
      BY <1>0, <1>3, <2>1, <3>4 DEF ExecCommit, At
  <2>4. CASE L = {} /\ LoopEnds(w)
    <3>1. todo'[w] = <<c>> /\ UNCHANGED <<db, installed>>
      BY <1>2, <2>1, <2>4 DEF LoopEnds, Advance
    <3>2. Midway(p, N, U, L)'
      BY <3>1 DEF Replacing, Midway, Reconciled
    <3>3. Replacing(todo[w], p, N, U, L)'
      BY <1>5, <2>4, <3>1, <3>2 DEF Replacing, a, b, c
    <3> QED
      BY <1>0, <1>3, <2>1, <3>3 DEF ExecCommit, At
  <2> QED
    BY <2>2, <2>3, <2>4
<1>6. CASE U = {} /\ L = {} /\ todo[w] = <<c>>
  <2> HIDE DEF a, b, c
  <2>1. Next1(w) = c /\ Tail(todo[w]) = <<>>
    BY <1>6, Consequents DEF Next1
  <2>2. ExecCommit(w)
    BY <1>0, <2>1 DEF Exec, ExecPut, ExecDropFts, ExecAddFts, ExecClaim, ExecLink,
           ExecUnlink, ExecSelect, ExecCommit, NextClaim, LoopEnds, At
  <2>3. todo'[w] = <<>> /\ UNCHANGED db
    BY <1>2, <2>1, <2>2 DEF ExecCommit, Advance
  <2>4. \A i \in Id : installed'[i] = IF i = p THEN N ELSE installed[i]
    <3>1. c.done = {<<p, N>>}
      BY <1>0
    <3>2. /\ \A i : (\E d \in {<<p, N>>} : d[1] = i) <=> i = p
          /\ (CHOOSE d \in {<<p, N>>} : d[1] = p)[2] = N
      <4> DEFINE d1 == <<p, N>>
      <4>1. d1[1] = p /\ d1[2] = N
        OBVIOUS
      <4> HIDE DEF d1
      <4>2. \A i : (\E d \in {d1} : d[1] = i) <=> i = p
        BY <4>1
      <4>3. (CHOOSE d \in {d1} : d[1] = p) = d1
        BY <4>1
      <4> QED
        BY <4>1, <4>2, <4>3 DEF d1
    <3>3. installed' = [i \in Id |->
                          IF \E d \in {<<p, N>>} : d[1] = i
                          THEN (CHOOSE d \in {<<p, N>>} : d[1] = i)[2]
                          ELSE installed[i]]
      BY <2>1, <2>2, <3>1 DEF ExecCommit
    <3> QED
      BY <3>2, <3>3
  <2>5. WiredFrom(db, p) = N \ db.plain
    BY <1>6 DEF Replacing, Midway
  <2>6. Reconciled(db, {})'
    BY <2>3, <2>4, <2>5 DEF Replacing, Midway, Reconciled
  <2>7. <<>> \in Seq(Ordinary)
    OBVIOUS
  <2> QED
    BY <2>3, <2>6, <2>7 DEF Reconciling
<1> QED
  BY <1>4, <1>5, <1>6 DEF Replacing

(* What the reconciler finds is what it installed before.                   *)
LEMMA SelectingStep ==
  ASSUME StoreOK, Sound(db), NEW w \in Writer, Exec(w), NEW p \in Id,
         NEW N \in SUBSET Edge, Selecting(todo[w], p, N)
  PROVE  Reconciling(todo[w])' /\ ~ExecCommit(w)
<1> DEFINE x == Select(p, N)
           old == WiredFrom(db, p)
<1>1. x.op = "select" /\ x.id = p /\ x.edges = N
  BY DEF Select
<1>2. w \in DOMAIN todo /\ todo[w] = <<x>> /\ db \in Tables
  BY DEF Selecting, StoreOK
<1> HIDE DEF x
<1>3. Next1(w) = x /\ Tail(todo[w]) = <<>> /\ todo[w] # <<>>
  BY <1>2, Consequents, ExecByKind DEF Next1
<1>4. ExecSelect(w) /\ ~ExecCommit(w)
  BY <1>1, <1>3 DEF Exec, ExecPut, ExecDropFts, ExecAddFts, ExecClaim, ExecLink,
         ExecUnlink, ExecSelect, ExecCommit, NextClaim, LoopEnds, At
<1>5. /\ todo' = [todo EXCEPT ![w] = Replace(p, old, N) \o <<>>]
      /\ UNCHANGED <<db, installed>>
  BY <1>1, <1>3, <1>4 DEF ExecSelect
<1> DEFINE U == old \ N
           L == N \ old
<1>6. U \in SUBSET Edge /\ L \in SUBSET Edge /\ old \subseteq Edge
  BY <1>2 DEF WiredFrom, Tables
<1>7. Replace(p, old, N) \o <<>> = <<Unlink(U), Link(L, TRUE, FALSE), Done(p, N)>>
  <2> DEFINE a == Unlink(U)
             b == Link(L, TRUE, FALSE)
             c == Done(p, N)
  <2>1. Replace(p, old, N) = <<a, b, c>>
    BY DEF Replace, Done
  <2> HIDE DEF a, b, c
  <2>2. <<a, b, c>> \o <<>> = <<a, b, c>>
    OBVIOUS
  <2> QED
    BY <2>1, <2>2 DEF a, b, c
<1>8. Midway(p, N, U, L)
  <2>1. Reconciled(db, {p}) /\ \A e \in N : e[1] = p
    BY DEF Selecting, Reconciled
  <2>2. \A e \in U : e[1] = p
    BY DEF WiredFrom
  <2>3. old \cap db.plain = {}
    BY DEF WiredFrom, Sound
  <2>4. (old \ U) \cup (L \ db.plain) = N \ db.plain
    BY <2>3
  <2> QED
    BY <2>1, <2>2, <2>4 DEF Midway
<1>9. Midway(p, N, U, L)'
  BY <1>5, <1>8 DEF Midway, Reconciled, WiredFrom
<1>10. todo'[w] = <<Unlink(U), Link(L, TRUE, FALSE), Done(p, N)>>
  <2> HIDE DEF U, L
  <2> QED
    BY <1>2, <1>5, <1>7
<1>11. U' = U /\ L' = L
  BY <1>5 DEF WiredFrom
<1>12. Reconciling(todo[w])'
  <2> HIDE DEF U, L
  <2>1. Replacing(todo[w], p, N, U, L)'
    BY <1>9, <1>10, <1>11 DEF Replacing
  <2> QED
    BY <1>6, <1>11, <2>1 DEF Reconciling
<1> QED
  BY <1>4, <1>12

(* A new call is an ordinary one or a reconciliation of the edges that      *)
(* process() found from one paper.                                          *)
LEMMA ReconcilingBegins ==
  ASSUME StoreOK, AtomicOK, NEW w \in Writer, Begin(w), \A v \in Writer : v = w
  PROVE  AtomicOK'
<1> DEFINE Sourced(pes) == \A pe \in pes : \A e \in pe[2] : e[1] = pe[1]
<1>1. /\ UNCHANGED <<db, disk, installed>> /\ todo[w] = <<>> /\ w \in DOMAIN todo
      /\ w \in DOMAIN inferred
  BY DEF Begin, UpsertPaper, AddEdge, PromoteReport, ExtractFromContent, Process,
         RefreshKnown, Reconcile, Persist, Call, StoreOK
<1>2. Reconciled(db, {}) /\ Sourced(inferred[w])
  <2>1. ASSUME NEW p \in Id, NEW N \in SUBSET Edge, NEW U \in SUBSET Edge,
               NEW L \in SUBSET Edge
        PROVE  ~Selecting(<<>>, p, N) /\ ~Replacing(<<>>, p, N, U, L)
    <3>1. \A a, b, c : <<>> # <<a>> /\ <<>> # <<a, b>> /\ <<>> # <<a, b, c>>
      OBVIOUS
    <3> QED
      BY <3>1, Zenon DEF Selecting, Replacing
  <2>2. Reconciling(<<>>)
    BY <1>1 DEF AtomicOK
  <2> QED
    BY <2>1, <2>2 DEF Reconciling, AtomicOK
<1>3. Reconciled(db, {})' /\ Reconciled(disk, {})'
  BY <1>1, <1>2 DEF AtomicOK, Reconciled, WiredFrom
<1>4. ASSUME Reconciling(todo[w])', Sourced(inferred'[w]) PROVE AtomicOK'
  BY <1>3, <1>4 DEF AtomicOK
<1>5. ASSUME NEW rest \in Seq(Ordinary), Call(w, rest), Sourced(inferred'[w]) PROVE AtomicOK'
  <2>1. todo'[w] = rest
    BY <1>1, <1>5 DEF Call
  <2> QED
    BY <1>3, <1>4, <1>5, <2>1 DEF Reconciling
<1>6. ASSUME NEW x \in Ordinary, Call(w, <<x>>), Sourced(inferred'[w]) PROVE AtomicOK'
  <2>1. <<x>> \in Seq(Ordinary)
    BY OneIsASeq
  <2> QED
    BY <1>5, <1>6, <2>1
<1>7. ASSUME NEW i \in Paper, NEW t \in Text, UpsertPaper(w, i, t) PROVE AtomicOK'
  BY <1>2, <1>5, <1>7, OrdinaryStatements DEF UpsertPaper, Id
<1>8. ASSUME NEW e \in UserEdge, AddEdge(w, e) PROVE AtomicOK'
  <2>1. {e} \in SUBSET Edge
    BY KnowledgeBaseAssumption
  <2>2. Link({e}, FALSE, TRUE) \in Ordinary
    BY <2>1, OrdinaryStatements
  <2> QED
    BY <1>2, <1>6, <1>8, <2>2 DEF AddEdge
<1>9. ASSUME NEW report \in Report, PromoteReport(w, report) PROVE AtomicOK'
  <2>1. Promote(report, {}) \in Ordinary
    BY KnowledgeBaseAssumption, OrdinaryStatements
  <2> QED
    BY <1>2, <1>6, <1>9, <2>1 DEF PromoteReport
<1>10. ASSUME NEW es \in SUBSET Edge, Call(w, AddEach(es)), Sourced(inferred'[w]) PROVE AtomicOK'
  <2>1. Link(es, FALSE, FALSE) \in Ordinary
    BY OrdinaryStatements
  <2> QED
    BY <1>6, <1>10, <2>1 DEF AddEach
<1>11. ASSUME NEW i \in Id, ExtractFromContent(w, i) PROVE AtomicOK'
  <2> DEFINE es == {<<i, d, "cites">> : d \in (Mentions[db.text[i]] \cap Stored) \ {i}}
  <2>1. es \in SUBSET Edge
    BY KnowledgeBaseAssumption DEF Edge, Stored
  <2> QED
    BY <1>2, <1>10, <1>11, <2>1 DEF ExtractFromContent
<1>12. ASSUME Call(w, <<>>), Sourced(inferred'[w]) PROVE AtomicOK'
  <2>1. <<>> \in Seq(Ordinary)
    OBVIOUS
  <2> QED
    BY <1>5, <1>12, <2>1
<1>13. ASSUME NEW i \in Id, Process(w, i) PROVE AtomicOK'
  <2>1. inferred'[w] = {<<i, Citations(i, known')>>}
    BY <1>1, <1>13 DEF Process
  <2>2. Sourced(inferred'[w])
    BY <2>1 DEF Citations
  <2> QED
    BY <1>12, <1>13, <2>2 DEF Process
<1>14. CASE Reconcile(w)
  <2>1. PICK pe \in inferred[w] :
          Call(w, <<Select(pe[1], pe[2])>>) /\ inferred' = [inferred EXCEPT ![w] = {}]
    BY <1>14 DEF Reconcile
  <2>2. pe[1] \in Id /\ pe[2] \in SUBSET Edge /\ \A e \in pe[2] : e[1] = pe[1]
    BY <1>2 DEF StoreOK
  <2>3. todo'[w] = <<Select(pe[1], pe[2])>> /\ inferred'[w] = {}
    BY <1>1, <2>1 DEF Call
  <2>4. Selecting(todo[w], pe[1], pe[2])'
    BY <1>3, <2>2, <2>3 DEF Selecting
  <2> QED
    BY <1>4, <2>2, <2>3, <2>4 DEF Reconciling
<1>15. CASE Persist(w)
  <2>1. PICK pe \in inferred[w] :
          Call(w, AddEach(pe[2])) /\ inferred' = [inferred EXCEPT ![w] = {}]
    BY <1>15 DEF Persist
  <2>2. pe[2] \in SUBSET Edge /\ inferred'[w] = {}
    BY <1>1, <2>1 DEF StoreOK
  <2> QED
    BY <1>10, <2>1, <2>2
<1>16. CASE RefreshKnown(w)
  BY <1>2, <1>12, <1>16 DEF RefreshKnown
<1> QED
  BY <1>7, <1>8, <1>9, <1>11, <1>13, <1>14, <1>15, <1>16 DEF Begin

LEMMA AtomicStep ==
  ASSUME SingleWriter, StoreOK, TablesOK, AtomicOK, [Next]_vars
  PROVE  AtomicOK'
<1>1. CASE UNCHANGED vars
  <2>1. ASSUME NEW w \in Writer PROVE Reconciling(todo[w])'
    <3>1. UNCHANGED <<todo, db, installed>>
      BY <1>1 DEF vars
    <3>2. Reconciled(db, {}) => Reconciled(db, {})'
      BY <3>1 DEF Reconciled, WiredFrom
    <3>3. ASSUME NEW q \in Id, NEW N \in SUBSET Edge, Selecting(todo[w], q, N)
          PROVE  Selecting(todo[w], q, N)'
      BY <3>1, <3>2, <3>3 DEF Selecting
    <3>4. ASSUME NEW q \in Id, NEW N \in SUBSET Edge, NEW U \in SUBSET Edge,
                 NEW L \in SUBSET Edge, Replacing(todo[w], q, N, U, L)
          PROVE  Replacing(todo[w], q, N, U, L)'
      <4>1. Midway(q, N, U, L)'
        BY <3>1, <3>4 DEF Replacing, Midway, Reconciled, WiredFrom
      <4> QED
        BY <3>1, <3>4, <4>1 DEF Replacing
    <3>5. Reconciling(todo[w])
      BY DEF AtomicOK
    <3>6. CASE todo[w] \in Seq(Ordinary) /\ Reconciled(db, {})
      BY <3>1, <3>2, <3>6 DEF Reconciling
    <3>7. ASSUME NEW q \in Id, NEW N \in SUBSET Edge, Selecting(todo[w], q, N)
          PROVE  Reconciling(todo[w])'
      BY <3>3, <3>7, Zenon DEF Reconciling
    <3>8. ASSUME NEW q \in Id, NEW N \in SUBSET Edge, NEW U \in SUBSET Edge,
                 NEW L \in SUBSET Edge, Replacing(todo[w], q, N, U, L)
          PROVE  Reconciling(todo[w])'
      <4>1. \E A, B \in SUBSET Edge : Replacing(todo[w], q, N, A, B)'
        BY <3>4, <3>8, Zenon
      <4> QED
        BY <4>1, Zenon DEF Reconciling
    <3>9. CASE \E q \in Id, N \in SUBSET Edge :
                 \/ Selecting(todo[w], q, N)
                 \/ \E U, L \in SUBSET Edge : Replacing(todo[w], q, N, U, L)
      <4>1. PICK q \in Id, N \in SUBSET Edge :
              \/ Selecting(todo[w], q, N)
              \/ \E U, L \in SUBSET Edge : Replacing(todo[w], q, N, U, L)
        BY <3>9, Zenon
      <4>2. CASE Selecting(todo[w], q, N)
        BY <3>7, <4>2, Zenon
      <4>3. CASE \E U, L \in SUBSET Edge : Replacing(todo[w], q, N, U, L)
        BY <3>8, <4>3, Zenon
      <4> QED
        BY <4>1, <4>2, <4>3, Zenon
    <3> QED
      BY <3>5, <3>6, <3>9, Zenon DEF Reconciling
  <2> QED
    BY <1>1, <2>1 DEF vars, AtomicOK, Reconciled, WiredFrom
<1>2. CASE Crash
  <2>1. /\ db' = disk /\ disk' = disk /\ installed' = installed
        /\ \A w \in Writer : todo'[w] = <<>> /\ inferred'[w] = {}
    BY <1>2 DEF Crash
  <2>2. Reconciled(db, {})' /\ Reconciled(disk, {})'
    BY <2>1 DEF AtomicOK, Reconciled, WiredFrom
  <2>3. <<>> \in Seq(Ordinary)
    OBVIOUS
  <2> QED
    BY <2>1, <2>2, <2>3 DEF AtomicOK, Reconciling
<1>3. ASSUME NEW w \in Writer, Begin(w) PROVE AtomicOK'
  <2>1. \A v \in Writer : v = w
    BY DEF SingleWriter
  <2> QED
    BY <1>3, <2>1, ReconcilingBegins
<1>4. ASSUME NEW w \in Writer, Exec(w) PROVE AtomicOK'
  <2>1. Reconciling(todo[w])' /\ (ExecCommit(w) => Reconciled(db, {})')
    <3>1. CASE todo[w] \in Seq(Ordinary) /\ Reconciled(db, {})
      <4>1. todo[w] # <<>>
        BY <1>4, ExecByKind
      <4>2. Next1(w) \in Ordinary /\ Tail(todo[w]) \in Seq(Ordinary)
        BY <3>1, <4>1 DEF Next1
      <4>3. Reconciled(db, {})' /\ todo'[w] \in Seq(Ordinary)
        BY <1>4, <3>1, <4>2, OrdinaryExec
      <4> QED
        BY <4>3 DEF Reconciling
    <3>2. ASSUME NEW p \in Id, NEW N \in SUBSET Edge, Selecting(todo[w], p, N)
          PROVE  Reconciling(todo[w])' /\ ~ExecCommit(w)
      BY <1>4, <3>2, SelectingStep DEF TablesOK
    <3>3. ASSUME NEW p \in Id, NEW N \in SUBSET Edge, NEW U \in SUBSET Edge,
                 NEW L \in SUBSET Edge, Replacing(todo[w], p, N, U, L)
          PROVE  Reconciling(todo[w])' /\ (ExecCommit(w) => Reconciled(db, {})')
      BY <1>4, <3>3, ReplacingStep DEF TablesOK
    <3>4. Reconciling(todo[w])
      BY DEF AtomicOK
    <3> QED
      BY <3>1, <3>2, <3>3, <3>4 DEF Reconciling
  <2>2. Reconciled(disk, {})' /\ UNCHANGED inferred
    <3>1. CASE ExecCommit(w)
      BY <2>1, <3>1 DEF ExecCommit, Reconciled, WiredFrom
    <3>2. CASE ~ExecCommit(w)
      <4>1. UNCHANGED <<disk, installed, inferred>>
        BY <1>4, <3>2 DEF Exec, ExecPut, ExecDropFts, ExecAddFts, ExecClaim, ExecLink,
               ExecUnlink, ExecSelect, NextClaim, LoopEnds, OnlyDb
      <4> QED
        BY <4>1 DEF AtomicOK, Reconciled, WiredFrom
    <3> QED
      BY <3>1, <3>2
  <2>3. \A v \in Writer : v = w
    BY DEF SingleWriter
  <2> QED
    BY <2>1, <2>2, <2>3 DEF AtomicOK
<1> QED
  BY <1>1, <1>2, <1>3, <1>4 DEF Next

(* With one writer a reconciliation is atomic: on the disk the self-wired   *)
(* rows of a paper are those of its last completed reconciliation, less the *)
(* edges whose row is plain, wherever a crash cuts the next one off         *)
(* (reconciler.py:78-120).                                                  *)
THEOREM ReconciledAtomicallyByOneWriter == SingleWriter => (Spec => []ReconciledAtomically)
<1> SUFFICES ASSUME SingleWriter PROVE Spec => []ReconciledAtomically
  OBVIOUS
<1>1. Init => StoreOK /\ TablesOK /\ AtomicOK
  <2> SUFFICES ASSUME Init PROVE StoreOK /\ TablesOK /\ AtomicOK
    OBVIOUS
  <2>1. StoreOK /\ TablesOK
    BY StartsWell
  <2>2. Reconciled(db, {}) /\ Reconciled(disk, {})
    BY DEF Init, Empty, Reconciled, WiredFrom
  <2>3. <<>> \in Seq(Ordinary)
    OBVIOUS
  <2> QED
    BY <2>1, <2>2, <2>3 DEF Init, AtomicOK, Reconciling
<1>2. StoreOK /\ TablesOK /\ [Next]_vars => TablesOK'
  BY TablesStep
<1>3. StoreOK /\ [Next]_vars => StoreOK'
  BY StoreStep
<1>4. StoreOK /\ TablesOK /\ AtomicOK /\ [Next]_vars => AtomicOK'
  BY AtomicStep
<1>5. AtomicOK => ReconciledAtomically
  BY DEF AtomicOK, Reconciled, ReconciledAtomically
<1> QED
  BY <1>1, <1>2, <1>3, <1>4, <1>5, PTL DEF Spec
=============================================================================
