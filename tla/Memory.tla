------------------------------- MODULE Memory -------------------------------
(***************************************************************************)
(* What the agent remembers (open_fang/memory/): the log of observations,  *)
(* the sandbox that keeps large tool outputs out of the context, and the   *)
(* working buffer.  Log and sandbox are tables on the one connection of    *)
(* the knowledge base, which the worker threads share: a row is seen at    *)
(* once, and a commit, whoever makes it, commits everybody's rows.  A      *)
(* crash leaves what was committed.                                        *)
(*                                                                         *)
(* An observation is its position in the log, a turn its number; a batch   *)
(* is what a tool returned, and its size is its length.                    *)
(***************************************************************************)
EXTENDS Integers, Sequences, FiniteSets, SequencesExt

CONSTANTS
  Worker,           \* the threads that sandbox outputs
  Evidence,         \* pieces of evidence
  Relevance,        \* the relevance of each
  Batches,          \* what a tool may return, sequences of evidence
  Threshold,        \* the size above which an output is sandboxed
  TopK,             \* top_k
  Handle,           \* handles, drawn without repetition (uuid4)
  MaxTurns,         \* max_turns of the working buffer
  MaxObservations,  \* bound: how many observations are appended
  MaxSaid           \* bound: how many turns are said

ASSUME MemoryAssumption ==
  /\ Relevance \in [Evidence -> Int]
  /\ Batches \subseteq Seq(Evidence)
  /\ Threshold \in Nat /\ TopK \in Nat
  /\ MaxTurns \in Nat /\ MaxObservations \in Nat /\ MaxSaid \in Nat

VARIABLES
  tables,    \* observations and sandbox rows, as the connection sees them
  saved,     \* the same, as of the last commit
  work,      \* work[w]: the sandbox call that thread w is in
  returned,  \* history: the batch and the top of each handle that was returned
  buffer     \* the working buffer, and history: how many turns were said

memoryVars == <<tables, saved, work, returned, buffer>>

Idle == [handle |-> <<>>, batch |-> <<>>, next |-> 1]

MemoryInit ==
  /\ tables = [observations |-> 0, rows |-> {}, fts |-> {}]
  /\ saved = tables
  /\ work = [w \in Worker |-> Idle]
  /\ returned = <<>>
  /\ buffer = [turns |-> <<>>, compacted |-> 0, said |-> 0]

Observations == tables.observations

-----------------------------------------------------------------------------
(* The observation log.                                                    *)

\* MemoryStore.append inserts one row and commits.
Observe ==
  /\ Observations < MaxObservations
  /\ tables' = [tables EXCEPT !.observations = @ + 1]
  /\ saved' = tables'
  /\ UNCHANGED <<work, returned, buffer>>

\* ORDER BY timestamp DESC walks the index backwards: the newest comes first,
\* also within a second.
Newest == [i \in 1..Observations |-> Observations + 1 - i]

CompactIndex(limit) == SubSeq(Newest, 1, IF limit < Observations THEN limit ELSE Observations)

\* Faulty variant: the two parameters of the query change places.
TimelineSwapped(offset, limit) ==
  LET rest == Observations - limit
  IN [i \in 1..(IF offset < rest THEN offset ELSE IF rest > 0 THEN rest ELSE 0) |->
        Newest[limit + i]]

Timeline(offset, limit) ==
  LET rest == Observations - offset
  IN [i \in 1..(IF limit < rest THEN limit ELSE IF rest > 0 THEN rest ELSE 0) |->
        Newest[offset + i]]

Found(id) == id \in 1..Observations

-----------------------------------------------------------------------------
(* ToolOutputSandbox.                                                      *)

ShouldSandbox(batch) == Len(batch) > Threshold

\* The sort by relevance is stable: of equal pieces, the earlier comes first.
Outranks(batch, j, i) ==
  \/ Relevance[batch[j]] > Relevance[batch[i]]
  \/ Relevance[batch[j]] = Relevance[batch[i]] /\ j < i

\* What goes into the context: the pieces that fewer than TopK others outrank.
Place(batch, i) == Cardinality({j \in DOMAIN batch : Outranks(batch, j, i)})
Top(batch) == {batch[i] : i \in {k \in DOMAIN batch : Place(batch, k) < TopK}}

Used == {returned[i].handle : i \in DOMAIN returned}
        \cup {work[w].handle : w \in Worker} \cup {r[1] : r \in tables.rows}

BeginSandbox(w, h, batch) ==
  /\ work[w] = Idle
  /\ ShouldSandbox(batch)
  /\ h \notin Used
  /\ work' = [work EXCEPT ![w] = [handle |-> h, batch |-> batch, next |-> 1]]
  /\ UNCHANGED <<tables, saved, returned, buffer>>

\* INSERT OR REPLACE of the row, a plain INSERT into the full-text table.
StoreOne(w) ==
  LET row == <<work[w].handle, work[w].batch[work[w].next]>>
  IN /\ work[w].next <= Len(work[w].batch)
     /\ tables' = [tables EXCEPT !.rows = @ \cup {row}, !.fts = @ \cup {row}]
     /\ work' = [work EXCEPT ![w].next = @ + 1]
     /\ UNCHANGED <<saved, returned, buffer>>

Return(w) ==
  returned' = Append(returned, [handle |-> work[w].handle, batch |-> work[w].batch,
                                top |-> Top(work[w].batch)])

\* Faulty variant: the handle is returned and nothing is committed.
ReturnUncommitted(w) ==
  /\ work[w].next = Len(work[w].batch) + 1 /\ work[w] # Idle
  /\ Return(w)
  /\ work' = [work EXCEPT ![w] = Idle]
  /\ UNCHANGED <<tables, saved, buffer>>

CommitAndReturn(w) ==
  /\ work[w].next = Len(work[w].batch) + 1 /\ work[w] # Idle
  /\ saved' = tables
  /\ Return(w)
  /\ work' = [work EXCEPT ![w] = Idle]
  /\ UNCHANGED <<tables, buffer>>

\* An insert raises: the rows before it stay, for the next commit to keep.
StoreRaises(w) ==
  /\ work[w].next <= Len(work[w].batch)
  /\ work' = [work EXCEPT ![w] = Idle]
  /\ UNCHANGED <<tables, saved, returned, buffer>>

GetAll(h) == {e \in Evidence : <<h, e>> \in tables.rows}

\* The query matches the text of some pieces; those found twice are one here.
Retrieve(h, matches) == {e \in matches : <<h, e>> \in tables.fts \cap tables.rows}

-----------------------------------------------------------------------------
(* The working buffer.                                                     *)

\* Faulty variant: the turns that are dropped are not counted.
SayUncounted ==
  LET turns == Append(buffer.turns, buffer.said + 1)
      overflow == IF Len(turns) > MaxTurns THEN Len(turns) - MaxTurns ELSE 0
  IN /\ buffer.said < MaxSaid
     /\ buffer' = [buffer EXCEPT !.turns = SubSeq(turns, overflow + 1, Len(turns)),
                                 !.said = @ + 1]
     /\ UNCHANGED <<tables, saved, work, returned>>

\* WorkingBuffer.add: what overflows is counted and dropped from the left.
Say ==
  LET turns == Append(buffer.turns, buffer.said + 1)
      overflow == IF Len(turns) > MaxTurns THEN Len(turns) - MaxTurns ELSE 0
  IN /\ buffer.said < MaxSaid
     /\ buffer' = [turns |-> SubSeq(turns, overflow + 1, Len(turns)),
                   compacted |-> buffer.compacted + overflow,
                   said |-> buffer.said + 1]
     /\ UNCHANGED <<tables, saved, work, returned>>

-----------------------------------------------------------------------------
Crash ==
  /\ tables' = saved
  /\ work' = [w \in Worker |-> Idle]
  /\ buffer' = [turns |-> <<>>, compacted |-> 0, said |-> 0]
  /\ UNCHANGED <<saved, returned>>

SandboxNext ==
  \/ \E w \in Worker, h \in Handle, batch \in Batches : BeginSandbox(w, h, batch)
  \/ \E w \in Worker : StoreOne(w) \/ CommitAndReturn(w) \/ StoreRaises(w)
  \/ Crash

-----------------------------------------------------------------------------
(* Properties.                                                             *)

\* The buffer holds the latest turns, and counts all the others.
MemoryTypeOK ==
  /\ Observations \in 0..MaxObservations
  /\ tables.rows \cup tables.fts \subseteq Handle \X Evidence
  /\ saved.observations = Observations
  /\ \A w \in Worker : work[w].next \in 1..(Len(work[w].batch) + 1)
  /\ Len(buffer.turns) <= MaxTurns
  /\ buffer.compacted + Len(buffer.turns) = buffer.said
  /\ \A i \in DOMAIN buffer.turns : buffer.turns[i] = buffer.compacted + i

\* A handle that was returned keeps what it stands for: all of the batch can be
\* fetched and found under it and nothing else, whatever other threads store and
\* whenever the process crashes; and the context had the most relevant of it.
HandlesResolve ==
  \A i \in DOMAIN returned :
    LET r == returned[i]
        all == ToSet(r.batch)
    IN /\ GetAll(r.handle) = all
       /\ \A matches \in SUBSET all : Retrieve(r.handle, matches) = matches
       /\ \A e \in r.top, f \in all \ r.top : Relevance[e] >= Relevance[f]
=============================================================================
