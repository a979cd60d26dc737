-------------------------- MODULE McpServerProofs --------------------------
(* Theorems about McpServer, for every value of its constants.  The server  *)
(* keeps the contract of its limiter: whatever the transports, the memory   *)
(* and the endpoints do, the limiter only ever takes its own steps, so what *)
(* holds of RateLimiter holds of the server.  Then, of the memory and of a  *)
(* client that pages through it, what an inductive invariant carries.       *)
EXTENDS McpServer, TLAPS, FiniteSetTheorems, SequenceTheorems

-----------------------------------------------------------------------------
(* The limiter by itself: for every limit, window and number of tokens, and *)
(* for a clock that runs on without a bound.                                *)

Evicted(tok) == 1..(Len(accepted[tok]) - Len(windows[tok]))

(* While a token is measured, what was dropped from its deque had left the  *)
(* window at the time that was read, and not only by now.                   *)
EvictedWereExpired ==
  Measuring => \A i \in Evicted(Tok) : accepted[Tok][i] <= At - Span

LimiterInv ==
  /\ LimiterTypeOK
  /\ WindowEndsLog
  /\ EvictedWereExpired
  /\ SpacedOut

LEMMA LimiterStarts == LimiterInit => LimiterInv
BY LimiterAssumption
   DEF LimiterInit, LimiterInv, LimiterTypeOK, WindowEndsLog, EvictedWereExpired,
       SpacedOut, Measuring

(* The clock goes on: what had expired has still expired.                   *)
LEMMA TickKeeps ==
  ASSUME LimiterInv, Tick
  PROVE  LimiterInv'
<1> USE LimiterAssumption DEF Tick, LimiterInv
<1>1. LimiterTypeOK'
  BY DEF LimiterTypeOK
<1>2. WindowEndsLog'
  BY DEF LimiterTypeOK, WindowEndsLog
<1>3. EvictedWereExpired'
  BY DEF EvictedWereExpired, Evicted, Measuring, Tok, At
<1>4. SpacedOut'
  BY DEF SpacedOut
<1> QED
  BY <1>1, <1>2, <1>3, <1>4

(* A request reads the clock, and what was dropped before has expired by it. *)
LEMMA MeasureKeeps ==
  ASSUME LimiterInv, NEW tok \in Token, Measure(tok)
  PROVE  LimiterInv'
<1> USE LimiterAssumption DEF Measure, LimiterInv
<1>1. LimiterTypeOK'
  BY DEF LimiterTypeOK
<1>2. WindowEndsLog'
  BY DEF WindowEndsLog
<1>3. EvictedWereExpired'
  BY DEF EvictedWereExpired, WindowEndsLog, Evicted, Measuring, Tok, At
<1>4. SpacedOut'
  BY DEF SpacedOut
<1> QED
  BY <1>1, <1>2, <1>3, <1>4

(* The answer "no" changes nothing but that it was given.                   *)
LEMMA RefuseKeeps ==
  ASSUME LimiterInv, Refuse
  PROVE  LimiterInv'
BY DEF Refuse, LimiterInv, LimiterTypeOK, WindowEndsLog, EvictedWereExpired, SpacedOut,
       Measuring

(* What the left end of the deque is in the log of the accepted.            *)
LEMMA HeadIsNextOfLog ==
  ASSUME LimiterInv, Measuring, Window # <<>>
  PROVE  /\ Tok \in Token /\ At \in Nat /\ At <= now
         /\ Len(Window) \in 1..Len(accepted[Tok])
         /\ Head(Window) = accepted[Tok][Len(accepted[Tok]) - Len(Window) + 1]
<1>1. Tok \in Token /\ At \in Nat /\ At <= now
  BY DEF LimiterInv, LimiterTypeOK, Measuring, Tok, At
<1>2. Window \in Seq(Nat) /\ accepted[Tok] \in Seq(Nat)
  BY <1>1 DEF LimiterInv, LimiterTypeOK, Window
<1>3. Len(Window) \in Nat /\ Len(Window) > 0 /\ Head(Window) = Window[1] /\ 1 \in DOMAIN Window
  BY <1>2
<1>4. Len(Window) <= Len(accepted[Tok])
  BY <1>1 DEF LimiterInv, WindowEndsLog, Window
<1>5. Window[1] = accepted[Tok][Len(accepted[Tok]) - Len(Window) + 1]
  BY <1>1, <1>3 DEF LimiterInv, WindowEndsLog, Window
<1> QED
  BY <1>1, <1>2, <1>3, <1>4, <1>5

(* Dropping the left end moves the border between what was dropped and      *)
(* what is kept by one, past an entry that has expired.                     *)
LEMMA EvictKeeps ==
  ASSUME LimiterInv, Evict
  PROVE  LimiterInv'
<1> USE LimiterAssumption
<1> DEFINE L == Len(accepted[Tok])
           W == Len(Window)
<1>1. /\ Measuring /\ Window # <<>> /\ Head(Window) <= At - Span
      /\ windows' = [windows EXCEPT ![Tok] = Tail(@)]
      /\ UNCHANGED <<now, accepted, measured>>
  BY DEF Evict, Expired
<1>2. /\ Tok \in Token /\ At \in Nat /\ At <= now
      /\ W \in 1..L
      /\ Head(Window) = accepted[Tok][L - W + 1]
  BY <1>1, HeadIsNextOfLog
<1>3. /\ windows \in [Token -> Seq(Nat)] /\ accepted \in [Token -> Seq(Nat)] /\ now \in Nat
      /\ Window \in Seq(Nat) /\ L \in Nat
  BY <1>2 DEF LimiterInv, LimiterTypeOK, Window
<1>4. Tail(Window) \in Seq(Nat) /\ Len(Tail(Window)) = W - 1
  BY <1>1, <1>3
<1>5. /\ windows'[Tok] = Tail(Window)
      /\ \A tok \in Token : tok # Tok => windows'[tok] = windows[tok]
  BY <1>1, <1>2, <1>3 DEF Window
<1>6. Tok' = Tok /\ At' = At /\ Measuring' = Measuring
  BY <1>1 DEF Tok, At, Measuring
<1>7. LimiterTypeOK'
  BY <1>1, <1>2, <1>3, <1>4, <1>5 DEF LimiterInv, LimiterTypeOK, Window
<1>8. \A i \in 1..(L - (W - 1)) : accepted[Tok][i] <= At - Span
  <2> SUFFICES ASSUME NEW i \in 1..(L - (W - 1))
               PROVE  accepted[Tok][i] <= At - Span
    OBVIOUS
  <2>1. CASE i = L - W + 1
    BY <2>1, <1>1, <1>2
  <2>2. CASE i # L - W + 1
    <3>1. i \in 1..(L - W)
      <4> HIDE DEF L, W
      <4> QED
        BY <2>2, <1>2, <1>3
    <3> QED
      BY <3>1, <1>1 DEF LimiterInv, EvictedWereExpired, Evicted, Window
  <2> QED
    BY <2>1, <2>2
<1>9. WindowEndsLog'
  <2> SUFFICES ASSUME NEW tok \in Token
               PROVE  /\ Len(windows'[tok]) <= Len(accepted'[tok])
                      /\ \A i \in DOMAIN windows'[tok] :
                           windows'[tok][i] =
                             accepted'[tok][Len(accepted'[tok]) - Len(windows'[tok]) + i]
                      /\ \A i \in 1..(Len(accepted'[tok]) - Len(windows'[tok])) :
                           accepted'[tok][i] <= now' - Span
    BY DEF WindowEndsLog
  <2>1. CASE tok # Tok
    BY <2>1, <1>1, <1>5 DEF LimiterInv, WindowEndsLog
  <2>2. CASE tok = Tok
    <3>1. Len(windows'[Tok]) = W - 1 /\ accepted' = accepted /\ now' = now
      BY <1>1, <1>4, <1>5
    <3>2. \A i \in DOMAIN windows'[Tok] :
            windows'[Tok][i] = accepted[Tok][L - (W - 1) + i]
      <4> SUFFICES ASSUME NEW i \in 1..(W - 1)
                   PROVE  windows'[Tok][i] = accepted[Tok][L - (W - 1) + i]
        BY <1>4, <1>5
      <4>1. windows'[Tok][i] = Window[i + 1]
        <5>1. i \in 1..Len(Tail(Window))
          BY <1>4
        <5>2. Tail(Window)[i] = Window[i + 1]
          BY <5>1, <1>1, <1>3
        <5> QED
          BY <5>2, <1>5
      <4>2. i + 1 \in DOMAIN Window
        BY <1>2, <1>3
      <4>3. Window[i + 1] = accepted[Tok][L - W + (i + 1)]
        BY <4>2, <1>2 DEF LimiterInv, WindowEndsLog, Window
      <4>4. L - W + (i + 1) = L - (W - 1) + i
        BY <1>2, <1>3
      <4> QED
        BY <4>1, <4>3, <4>4
    <3>3. \A i \in 1..(L - (W - 1)) : accepted[Tok][i] <= now - Span
      <4> SUFFICES ASSUME NEW i \in 1..(L - (W - 1))
                   PROVE  accepted[Tok][i] <= now - Span
        OBVIOUS
      <4>1. accepted[Tok][i] <= At - Span
        BY <1>8
      <4>2. accepted[Tok][i] \in Int /\ At \in Int /\ now \in Int /\ At <= now
        <5>1. i \in DOMAIN accepted[Tok]
          BY <1>2, <1>3
        <5>2. accepted[Tok] \in Seq(Nat)
          BY <1>2, <1>3
        <5>3. accepted[Tok][i] \in Nat
          BY <5>1, <5>2
        <5>4. At \in Int /\ now \in Int /\ At <= now
          BY <1>2, <1>3
        <5> QED
          BY <5>3, <5>4
      <4> QED
        BY <4>1, <4>2
    <3> QED
      BY <2>2, <3>1, <3>2, <3>3, <1>2, <1>3
  <2> QED
    BY <2>1, <2>2
<1>10. EvictedWereExpired'
  BY <1>1, <1>4, <1>5, <1>6, <1>8 DEF EvictedWereExpired, Evicted
<1>11. SpacedOut'
  BY <1>1 DEF LimiterInv, SpacedOut
<1> QED
  BY <1>7, <1>9, <1>10, <1>11 DEF LimiterInv

(* The end of a log changes nothing before it.                              *)
LEMMA LogGrows ==
  ASSUME NEW s \in Seq(Nat), NEW t \in Nat, NEW i \in 1..Len(s)
  PROVE  Append(s, t)[i] = s[i] /\ s[i] \in Nat
OBVIOUS

(* Who is let in is the Limit-th at most in the window: the request that    *)
(* came Limit before it was dropped, and had expired.                       *)
LEMMA LetInKeeps ==
  ASSUME LimiterInv, LetIn
  PROVE  LimiterInv'
<1> USE LimiterAssumption
<1> DEFINE L == Len(accepted[Tok])
           W == Len(Window)
<1>1. /\ Measuring /\ ~(W >= Limit)
      /\ windows' = [windows EXCEPT ![Tok] = Append(@, At)]
      /\ accepted' = [accepted EXCEPT ![Tok] = Append(@, At)]
      /\ measured' = <<>> /\ now' = now
  BY DEF LetIn, Full
<1>2. Tok \in Token /\ At \in Nat /\ At <= now
  BY <1>1 DEF LimiterInv, LimiterTypeOK, Measuring, Tok, At
<1>3. /\ windows \in [Token -> Seq(Nat)] /\ accepted \in [Token -> Seq(Nat)] /\ now \in Nat
      /\ Window \in Seq(Nat) /\ accepted[Tok] \in Seq(Nat) /\ L \in Nat /\ W \in Nat
  BY <1>2 DEF LimiterInv, LimiterTypeOK, Window
<1>4. W <= L
  BY <1>2 DEF LimiterInv, WindowEndsLog, Window
<1>5. /\ windows'[Tok] = Append(Window, At) /\ accepted'[Tok] = Append(accepted[Tok], At)
      /\ \A tok \in Token : tok # Tok => /\ windows'[tok] = windows[tok]
                                         /\ accepted'[tok] = accepted[tok]
  BY <1>1, <1>2, <1>3 DEF Window
<1>6. Len(windows'[Tok]) = W + 1 /\ Len(accepted'[Tok]) = L + 1
  BY <1>2, <1>3, <1>5
<1>7. /\ \A i \in 1..L : accepted'[Tok][i] = accepted[Tok][i] /\ accepted[Tok][i] \in Nat
       /\ accepted'[Tok][L + 1] = At
  <2>1. \A i \in 1..L : /\ Append(accepted[Tok], At)[i] = accepted[Tok][i]
                        /\ accepted[Tok][i] \in Nat
    BY <1>2, <1>3, LogGrows
  <2>2. Append(accepted[Tok], At)[L + 1] = At
    BY <1>2, <1>3
  <2> QED
    BY <1>5, <2>1, <2>2
<1>8. LimiterTypeOK'
  <2>1. Append(Window, At) \in Seq(Nat) /\ Append(accepted[Tok], At) \in Seq(Nat)
    BY <1>2, <1>3
  <2> QED
    BY <1>1, <1>2, <1>3, <2>1 DEF LimiterTypeOK, Window
<1>9. WindowEndsLog'
  <2> SUFFICES ASSUME NEW tok \in Token
               PROVE  /\ Len(windows'[tok]) <= Len(accepted'[tok])
                      /\ \A i \in DOMAIN windows'[tok] :
                           windows'[tok][i] =
                             accepted'[tok][Len(accepted'[tok]) - Len(windows'[tok]) + i]
                      /\ \A i \in 1..(Len(accepted'[tok]) - Len(windows'[tok])) :
                           accepted'[tok][i] <= now' - Span
    BY DEF WindowEndsLog
  <2>1. CASE tok # Tok
    BY <2>1, <1>1, <1>5 DEF LimiterInv, WindowEndsLog
  <2>2. CASE tok = Tok
    <3>1. \A i \in 1..(W + 1) : windows'[Tok][i] = accepted'[Tok][L - W + i]
      <4> SUFFICES ASSUME NEW i \in 1..(W + 1)
                   PROVE  windows'[Tok][i] = accepted'[Tok][L - W + i]
        OBVIOUS
      <4>1. CASE i = W + 1
        BY <4>1, <1>2, <1>3, <1>4, <1>5
      <4>2. CASE i # W + 1
        <5>1. i \in DOMAIN Window
          BY <4>2, <1>3
        <5>2. Window[i] = accepted[Tok][L - W + i]
          BY <5>1, <1>2 DEF LimiterInv, WindowEndsLog, Window
        <5>3. windows'[Tok][i] = Window[i] /\ i \in 1..W
          BY <5>1, <1>2, <1>3, <1>5
        <5>4. L - W + i \in 1..L
          BY <5>3, <1>3, <1>4
        <5>5. accepted'[Tok][L - W + i] = accepted[Tok][L - W + i]
          BY <5>4, <1>7
        <5> QED
          BY <5>2, <5>3, <5>5
      <4> QED
        BY <4>1, <4>2
    <3>2. \A i \in 1..(L - W) : accepted'[Tok][i] <= now - Span
      <4> SUFFICES ASSUME NEW i \in 1..(L - W)
                   PROVE  accepted'[Tok][i] <= now - Span
        OBVIOUS
      <4>1. i \in 1..L
        BY <1>3, <1>4
      <4>2. accepted'[Tok][i] = accepted[Tok][i]
        BY <4>1, <1>7
      <4>3. accepted[Tok][i] <= now - Span
        BY <1>2 DEF LimiterInv, WindowEndsLog, Window
      <4> QED
        BY <4>2, <4>3
    <3>3. DOMAIN windows'[Tok] = 1..(W + 1)
      BY <1>2, <1>3, <1>5
    <3> QED
      <4>1. L + 1 - (W + 1) = L - W /\ W + 1 <= L + 1
        <5> HIDE DEF L, W
        <5> QED
          BY <1>3, <1>4
      <4>2. Len(windows'[Tok]) <= Len(accepted'[Tok])
        BY <4>1, <1>6
      <4>3. \A i \in DOMAIN windows'[Tok] :
              windows'[Tok][i] =
                accepted'[Tok][Len(accepted'[Tok]) - Len(windows'[Tok]) + i]
        BY <4>1, <1>6, <3>1, <3>3
      <4>4. \A i \in 1..(Len(accepted'[Tok]) - Len(windows'[Tok])) :
              accepted'[Tok][i] <= now' - Span
        <5>1. Len(accepted'[Tok]) - Len(windows'[Tok]) = L - W
          BY <4>1, <1>6
        <5> QED
          BY <5>1, <1>1, <3>2
      <4> QED
        BY <2>2, <4>2, <4>3, <4>4
  <2> QED
    BY <2>1, <2>2
<1>10. EvictedWereExpired'
  BY <1>1 DEF EvictedWereExpired, Measuring
<1>11. \A i \in 1..(L + 1) : i + Limit \in 1..(L + 1) =>
         accepted'[Tok][i + Limit] - accepted'[Tok][i] >= Span
  <2> SUFFICES ASSUME NEW i \in 1..(L + 1), i + Limit \in 1..(L + 1)
               PROVE  accepted'[Tok][i + Limit] - accepted'[Tok][i] >= Span
    OBVIOUS
  <2>1. CASE i + Limit = L + 1
    <3>1. i \in 1..(L - W) /\ i \in 1..L
      <4>1. i \in Nat /\ i >= 1 /\ i + Limit = L + 1 /\ W < Limit
        BY <2>1, <1>1, <1>3
      <4> HIDE DEF L, W
      <4> QED
        BY <4>1, <1>3, <1>4
    <3>2. accepted[Tok][i] <= At - Span
      BY <3>1, <1>1 DEF LimiterInv, EvictedWereExpired, Evicted, Window
    <3>3. /\ accepted'[Tok][i] = accepted[Tok][i] /\ accepted[Tok][i] \in Nat
          /\ accepted'[Tok][i + Limit] = At
      BY <3>1, <2>1, <1>7
    <3> QED
      BY <3>2, <3>3, <1>2
  <2>2. CASE i + Limit # L + 1
    <3>1. i \in 1..L /\ i + Limit \in 1..L
      <4> HIDE DEF L
      <4> QED
        BY <2>2, <1>3
    <3>2. i \in DOMAIN accepted[Tok] /\ i + Limit \in DOMAIN accepted[Tok]
      BY <3>1, <1>3
    <3>3. accepted[Tok][i + Limit] - accepted[Tok][i] >= Span
      BY <3>2, <1>2 DEF LimiterInv, SpacedOut
    <3> QED
      BY <3>1, <3>3, <1>7
  <2> QED
    BY <2>1, <2>2
<1>12. SpacedOut'
  <2> SUFFICES ASSUME NEW tok \in Token, NEW i \in DOMAIN accepted'[tok],
                      i + Limit \in DOMAIN accepted'[tok]
               PROVE  accepted'[tok][i + Limit] - accepted'[tok][i] >= Span
    BY DEF SpacedOut
  <2>1. CASE tok # Tok
    BY <2>1, <1>5 DEF LimiterInv, SpacedOut
  <2>2. CASE tok = Tok
    <3>1. DOMAIN accepted'[Tok] = 1..(L + 1)
      BY <1>2, <1>3, <1>5
    <3> QED
      BY <2>2, <3>1, <1>11
  <2> QED
    BY <2>1, <2>2
<1> QED
  BY <1>8, <1>9, <1>10, <1>12 DEF LimiterInv

LEMMA LimiterStepKeeps ==
  ASSUME LimiterInv, [LimiterNext]_limiterVars
  PROVE  LimiterInv'
<1>1. CASE UNCHANGED limiterVars
  BY <1>1 DEF limiterVars, LimiterInv, LimiterTypeOK, WindowEndsLog, EvictedWereExpired,
              Evicted, Measuring, Tok, At, SpacedOut
<1> QED
  BY <1>1, TickKeeps, MeasureKeeps, EvictKeeps, RefuseKeeps, LetInKeeps DEF LimiterNext

(* No stretch of a minute sees more than Limit requests of one token let    *)
(* in, for every limit, any number of tokens and an unbounded clock.        *)
THEOREM LimitHolds == LimiterSpec => []SpacedOut
<1>1. LimiterInv => SpacedOut
  BY DEF LimiterInv
<1> QED
  BY <1>1, LimiterStarts, LimiterStepKeeps, PTL DEF LimiterSpec

-----------------------------------------------------------------------------
(* The server around it.                                                    *)

(* A server stays what it was started as.                                   *)
LEMMA HostStays == [Next]_vars => host' = host
BY DEF vars, serverVars, Next, Ask, Other, Receive, Step, Parse, Unauthorized, Authorize,
       AuthorizeUnmeasured, Shift, TooMany, Accept, HandleMessage, HandleRaises,
       EndpointReads, EndpointCounts, Serving

(* Every step of the server and of the agent beside it is a step of the     *)
(* limiter or leaves it alone.                                              *)
LEMMA ServerStepsLimiter ==
  ASSUME host \in Hosts, [Next]_vars
  PROVE  LimiterNext \/ UNCHANGED limiterVars
<1>1. CASE UNCHANGED vars
  BY <1>1 DEF vars
<1>2. CASE Ask \/ \E req \in Request : Other(req)
  BY <1>2 DEF Ask, Other, Receive
<1>3. CASE Step
  <2>1. CASE \/ Parse \/ Unauthorized \/ AuthorizeUnmeasured \/ HandleMessage \/ HandleRaises
             \/ EndpointReads \/ EndpointCounts
    BY <2>1 DEF Parse, Unauthorized, AuthorizeUnmeasured, HandleMessage, HandleRaises,
                EndpointReads, EndpointCounts
  <2>2. CASE Authorize
    <3>1. PICK tok \in host.expected : Measure(tok)
      BY <2>2 DEF Authorize
    <3>2. tok \in Token
      BY ServerAssumption
    <3> QED
      BY <3>1, <3>2 DEF LimiterNext
  <2>3. CASE Shift \/ TooMany \/ Accept
    BY <2>3 DEF Shift, TooMany, Accept, LimiterNext
  <2> QED
    BY <1>3, <2>1, <2>2, <2>3 DEF Step
<1>4. CASE Tick
  BY <1>4 DEF LimiterNext
<1>5. CASE UNCHANGED limiterVars
  BY <1>5
<1> QED
  BY <1>1, <1>2, <1>3, <1>4, <1>5 DEF Next

(* The server with all that surrounds it implements its limiter: between    *)
(* handle_http_rpc and the deques nothing gets in.                          *)
THEOREM ServerImplementsLimiter == Spec => LimiterSpec
<1>1. Init => LimiterInit /\ host \in Hosts
  BY DEF Init
<1>2. host \in Hosts /\ [Next]_vars => [LimiterNext]_limiterVars /\ (host \in Hosts)'
  BY HostStays, ServerStepsLimiter
<1> QED
  BY <1>1, <1>2, PTL DEF Spec, LimiterSpec

(* So no stretch of a minute sees more than the limit of requests of one    *)
(* token get through handle_http_rpc, on a host that keeps its limiter.     *)
THEOREM ServerKeepsLimit == Spec => []SpacedOut
BY ServerImplementsLimiter, LimitHolds

-----------------------------------------------------------------------------
(* The memory beside the server.                                           *)

\* What is stored under a handle, on the connection or on the disk.
Under(t, h) == {e \in Evidence : <<h, e>> \in t.rows}

StoreType ==
  [observations : Nat, rows : SUBSET (Handle \X Evidence), fts : SUBSET (Handle \X Evidence)]
CallType == [handle : Handle \cup {<<>>}, batch : Seq(Evidence), next : Nat \ {0}]
ReturnType == [handle : Handle, batch : Seq(Evidence), top : SUBSET Evidence]

\* The table and its full-text mirror hold the same rows, also after a crash.
MemoryTyped ==
  /\ tables \in StoreType /\ saved \in StoreType
  /\ tables.observations <= MaxObservations /\ saved.observations = tables.observations
  /\ tables.fts = tables.rows /\ saved.fts = saved.rows
  /\ work \in [Worker -> CallType]
  /\ returned \in Seq(ReturnType)

\* A sandbox call has stored the pieces before its next one under a handle that
\* nobody else has.
Busy(w) == work[w] # Idle
Storing(w) ==
  Busy(w) =>
    /\ work[w].handle \in Handle /\ work[w].next <= Len(work[w].batch) + 1
    /\ \A e \in Evidence : e \in Under(tables, work[w].handle)
                             <=> \E j \in 1..work[w].next - 1 : work[w].batch[j] = e
    /\ \A v \in Worker : Busy(v) /\ v # w => work[v].handle # work[w].handle
    /\ \A i \in DOMAIN returned : returned[i].handle # work[w].handle

\* A handle that was returned has its batch on the connection and on the disk.
Resolved(i) ==
  /\ Under(tables, returned[i].handle) = ToSet(returned[i].batch)
  /\ Under(saved, returned[i].handle) = ToSet(returned[i].batch)
  /\ returned[i].top = Top(returned[i].batch)

\* The buffer holds the latest turns, and counts all the others.
Buffered ==
  /\ buffer \in [turns : Seq(Nat), compacted : Nat, said : Nat]
  /\ Len(buffer.turns) <= MaxTurns
  /\ buffer.compacted + Len(buffer.turns) = buffer.said
  /\ \A i \in DOMAIN buffer.turns : buffer.turns[i] = buffer.compacted + i

MemoryInv ==
  /\ MemoryTyped
  /\ \A w \in Worker : Storing(w)
  /\ \A i \in DOMAIN returned : Resolved(i)
  /\ Buffered

LEMMA MemoryStarts == MemoryInit => MemoryInv
<1> SUFFICES ASSUME MemoryInit PROVE MemoryInv
  OBVIOUS
<1> USE MemoryAssumption DEF MemoryInit
<1>1. Idle \in CallType
  BY DEF Idle, CallType
<1>2. MemoryTyped
  <2>1. tables \in StoreType /\ saved \in StoreType
    BY DEF StoreType
  <2>2. returned \in Seq(ReturnType)
    OBVIOUS
  <2> QED
    BY <1>1, <2>1, <2>2 DEF MemoryTyped
<1>3. \A w \in Worker : Storing(w)
  BY DEF Storing, Busy
<1>4. DOMAIN returned = {}
  OBVIOUS
<1>5. Buffered
  BY DEF Buffered
<1> QED
  BY <1>2, <1>3, <1>4, <1>5 DEF MemoryInv

\* Adding an observation leaves everything else as it is.
LEMMA ObserveKeeps ==
  ASSUME MemoryInv, Observe
  PROVE  MemoryInv' /\ tables'.observations >= tables.observations
<1>i. /\ MemoryTyped /\ Buffered /\ tables \in StoreType
      /\ \A w \in Worker : Storing(w)
      /\ \A i \in DOMAIN returned : Resolved(i)
  BY DEF MemoryInv, MemoryTyped
<1>1. /\ tables' = [tables EXCEPT !.observations = @ + 1] /\ saved' = tables'
      /\ tables.observations < MaxObservations /\ UNCHANGED <<work, returned, buffer>>
  BY DEF Observe, Observations
<1>n. tables.observations \in Nat /\ MaxObservations \in Nat
  BY <1>i, MemoryAssumption DEF StoreType
<1>2. /\ tables' \in StoreType /\ tables'.observations = tables.observations + 1
      /\ tables'.rows = tables.rows /\ tables'.fts = tables.fts
  <2> DEFINE more == tables.observations + 1
  <2>1. more \in Nat /\ tables' = [tables EXCEPT !.observations = more]
    BY <1>1, <1>n
  <2> HIDE DEF more
  <2>2. /\ tables' \in StoreType /\ tables'.observations = more
        /\ tables'.rows = tables.rows /\ tables'.fts = tables.fts
    BY <1>i, <2>1 DEF StoreType
  <2> QED
    BY <2>2 DEF more
<1>3. MemoryTyped'
  <2>1. tables'.observations <= MaxObservations
    BY <1>1, <1>2, <1>n
  <2> QED
    BY <1>1, <1>2, <1>i, <2>1 DEF MemoryTyped
<1>u. \A h : Under(tables', h) = Under(tables, h)
  BY <1>2 DEF Under
<1>4. ASSUME NEW w \in Worker PROVE Storing(w)'
  BY <1>1, <1>i, <1>u DEF Storing, Busy
<1>5. ASSUME NEW i \in DOMAIN returned PROVE Resolved(i)'
  <2>1. Resolved(i)
    BY <1>i
  <2>2. Under(tables', returned[i].handle) = ToSet(returned[i].batch)
    BY <1>u, <2>1 DEF Resolved
  <2> QED
    BY <1>1, <2>1, <2>2 DEF Resolved
<1>6. Buffered'
  BY <1>1, <1>i DEF Buffered
<1>7. tables'.observations >= tables.observations
  BY <1>2, <1>n
<1> QED
  BY <1>1, <1>3, <1>4, <1>5, <1>6, <1>7 DEF MemoryInv

\* A call draws a handle that nobody has had.
LEMMA BeginKeeps ==
  ASSUME MemoryInv, NEW w \in Worker, NEW h \in Handle, NEW batch \in Batches,
         BeginSandbox(w, h, batch)
  PROVE  MemoryInv' /\ tables' = tables
<1> USE MemoryAssumption DEF MemoryInv
<1> DEFINE call == [handle |-> h, batch |-> batch, next |-> 1]
<1>1. /\ work' = [work EXCEPT ![w] = call] /\ h \notin Used
      /\ UNCHANGED <<tables, saved, returned, buffer>>
  BY DEF BeginSandbox
<1>2. batch \in Seq(Evidence) /\ call \in CallType
  BY DEF CallType
<1>3. /\ work'[w] = call /\ \A v \in Worker : v # w => work'[v] = work[v]
  BY <1>1 DEF MemoryTyped
<1>4. /\ \A v \in Worker : work[v].handle # h
      /\ \A i \in DOMAIN returned : returned[i].handle # h
      /\ Under(tables, h) = {}
  <2>1. ASSUME NEW e \in Evidence, <<h, e>> \in tables.rows PROVE FALSE
    <3>1. <<h, e>>[1] = h
      OBVIOUS
    <3> QED
      BY <1>1, <2>1, <3>1 DEF Used
  <2> QED
    BY <1>1, <2>1 DEF Used, Under
<1>5. MemoryTyped'
  <2>1. work' \in [Worker -> CallType]
    BY <1>1, <1>2 DEF MemoryTyped
  <2> QED
    BY <1>1, <2>1 DEF MemoryTyped
<1>6. ASSUME NEW v \in Worker PROVE Storing(v)'
  <2>1. CASE v = w
    <3>1. call.handle = h /\ call.next = 1 /\ call.batch = batch
      OBVIOUS
    <3>2. \A j \in 1..call.next - 1 : FALSE
      BY <3>1
    <3> HIDE DEF call
    <3> QED
      BY <1>1, <1>2, <1>3, <1>4, <2>1, <3>1, <3>2 DEF Storing, Busy, Under
  <2>2. CASE v # w
    BY <1>1, <1>3, <1>4, <2>2 DEF Storing, Busy, Under
  <2> QED
    BY <2>1, <2>2
<1>7. ASSUME NEW i \in DOMAIN returned PROVE Resolved(i)'
  BY <1>1 DEF Resolved, Under
<1>8. Buffered'
  BY <1>1 DEF Buffered
<1> QED
  BY <1>1, <1>5, <1>6, <1>7, <1>8

\* One piece of a batch is stored: nobody else's handle gets it.
LEMMA StoreKeeps ==
  ASSUME MemoryInv, NEW w \in Worker, StoreOne(w)
  PROVE  MemoryInv' /\ tables'.observations = tables.observations
<1> USE DEF MemoryInv
<1> DEFINE call == work[w]
           piece == call.batch[call.next]
           row == <<call.handle, piece>>
           onward == [call EXCEPT !.next = @ + 1]
<1>1. /\ call.next <= Len(call.batch)
      /\ tables' = [tables EXCEPT !.rows = @ \cup {row}, !.fts = @ \cup {row}]
      /\ work' = [work EXCEPT ![w] = onward]
      /\ UNCHANGED <<saved, returned, buffer>>
  BY DEF StoreOne
<1>2. /\ call \in CallType /\ call.batch \in Seq(Evidence) /\ call.next \in Nat \ {0}
      /\ Len(call.batch) \in Nat /\ DOMAIN call.batch = 1..Len(call.batch)
  BY DEF MemoryTyped, CallType
<1>3. piece \in Evidence
  BY <1>1, <1>2
<1>4. Busy(w)
  <2>1. Len(Idle.batch) = 0 /\ Idle.next = 1
    BY DEF Idle
  <2> QED
    BY <1>1, <1>2, <2>1 DEF Busy
<1>5. Storing(w) /\ call.handle \in Handle
  BY <1>4 DEF Storing
<1>6. /\ onward \in CallType /\ onward.handle = call.handle /\ onward.batch = call.batch
      /\ onward.next = call.next + 1
  BY <1>2 DEF CallType
<1>7. /\ tables' \in StoreType /\ tables'.observations = tables.observations
      /\ tables'.rows = tables.rows \cup {row} /\ tables'.fts = tables.fts \cup {row}
  <2>1. row \in Handle \X Evidence
    BY <1>3, <1>5
  <2> HIDE DEF row
  <2> QED
    BY <1>1, <2>1 DEF MemoryTyped, StoreType
<1> HIDE DEF onward, call, piece
<1>8. work'[w] = onward /\ \A v \in Worker : v # w => work'[v] = work[v]
  BY <1>1 DEF MemoryTyped
<1>9. MemoryTyped'
  <2>1. work' \in [Worker -> CallType]
    BY <1>1, <1>6 DEF MemoryTyped
  <2> QED
    BY <1>1, <1>7, <2>1 DEF MemoryTyped
<1>10. ASSUME NEW h
       PROVE  Under(tables', h) = IF h = call.handle THEN Under(tables, h) \cup {piece}
                                                     ELSE Under(tables, h)
  BY <1>3, <1>7 DEF Under
<1>11. ASSUME NEW v \in Worker PROVE Storing(v)'
  <2>1. CASE v = w
    <3>1. call.next + 1 <= Len(call.batch) + 1
      BY <1>1, <1>2
    <3>2. ASSUME NEW e \in Evidence
          PROVE  e \in Under(tables', call.handle) <=> \E j \in 1..(call.next + 1) - 1 : call.batch[j] = e
      <4>1. \A j \in 1..(call.next + 1) - 1 : j \in 1..call.next - 1 \/ j = call.next
        BY <1>2
      <4>2. \A j \in 1..call.next - 1 : j \in 1..(call.next + 1) - 1
        BY <1>2
      <4>3. call.next \in 1..(call.next + 1) - 1
        BY <1>2
      <4>4. e \in Under(tables, call.handle) <=> \E j \in 1..call.next - 1 : call.batch[j] = e
        BY <1>4, <1>5 DEF Storing, call
      <4>5. e \in Under(tables', call.handle) <=> e \in Under(tables, call.handle) \/ e = piece
        BY <1>10
      <4> QED
        BY <4>1, <4>2, <4>3, <4>4, <4>5 DEF piece
    <3>3. /\ \A u \in Worker : Busy(u) /\ u # w => work[u].handle # call.handle
          /\ \A i \in DOMAIN returned : returned[i].handle # call.handle
      BY <1>4, <1>5 DEF Storing, call
    <3>4. /\ work'[w].handle = call.handle /\ work'[w].next = call.next + 1
          /\ work'[w].batch = call.batch
      BY <1>6, <1>8
    <3>5. \A u \in Worker : Busy(u)' /\ u # w => work'[u].handle # work'[w].handle
      BY <1>8, <3>3, <3>4 DEF Busy
    <3>6. \A e \in Evidence : e \in Under(tables', work'[w].handle)
                              <=> \E j \in 1..work'[w].next - 1 : work'[w].batch[j] = e
      BY <3>2, <3>4
    <3>7. /\ work'[w].handle \in Handle /\ work'[w].next <= Len(work'[w].batch) + 1
          /\ \A i \in DOMAIN returned' : returned'[i].handle # work'[w].handle
      BY <1>1, <1>5, <3>1, <3>3, <3>4
    <3> QED
      BY <2>1, <3>5, <3>6, <3>7 DEF Storing
  <2>2. CASE v # w
    <3>1. work'[v] = work[v] /\ (Busy(v)' <=> Busy(v))
      BY <1>8, <2>2 DEF Busy
    <3>2. Busy(v) => work[v].handle # call.handle
      BY <1>4, <1>5, <2>2 DEF Storing, call
    <3>3. Busy(v) => Under(tables', work[v].handle) = Under(tables, work[v].handle)
      BY <1>10, <3>1, <3>2
    <3>4. \A u \in Worker : Busy(v) /\ Busy(u)' /\ u # v => work'[u].handle # work[v].handle
      BY <1>4, <1>6, <1>8, <3>2 DEF Storing, Busy, call
    <3>5. Storing(v)
      BY DEF MemoryInv
    <3>6. \A e \in Evidence : Busy(v) =>
            (e \in Under(tables', work[v].handle)
               <=> \E j \in 1..work[v].next - 1 : work[v].batch[j] = e)
      BY <3>3, <3>5 DEF Storing
    <3> QED
      BY <1>1, <3>1, <3>4, <3>5, <3>6 DEF Storing
  <2> QED
    BY <2>1, <2>2
<1>12. ASSUME NEW i \in DOMAIN returned PROVE Resolved(i)'
  <2>1. returned[i].handle # call.handle
    BY <1>4, <1>5 DEF Storing, call
  <2>2. Under(tables', returned[i].handle) = Under(tables, returned[i].handle)
    BY <1>1, <1>10, <2>1
  <2>3. Under(saved', returned[i].handle) = Under(saved, returned[i].handle)
    BY <1>1 DEF Under
  <2> QED
    BY <1>1, <2>2, <2>3 DEF Resolved
<1>13. Buffered'
  BY <1>1 DEF Buffered
<1> QED
  BY <1>1, <1>7, <1>9, <1>11, <1>12, <1>13

\* A thread that gives its call up, after a return or an error, has no handle.
LEMMA IdleStoring ==
  ASSUME MemoryInv, NEW w \in Worker, work' = [work EXCEPT ![w] = Idle],
         tables' = tables, returned' = returned
  PROVE  work' \in [Worker -> CallType] /\ \A v \in Worker : Storing(v)'
<1>i. work \in [Worker -> CallType] /\ \A v \in Worker : Storing(v)
  BY DEF MemoryInv, MemoryTyped
<1>1. Idle \in CallType
  BY DEF Idle, CallType
<1>2. work'[w] = Idle /\ \A v \in Worker : v # w => work'[v] = work[v]
  BY <1>i
<1>b. \A v \in Worker : Busy(v)' => Busy(v) /\ work'[v] = work[v]
  BY <1>2 DEF Busy
<1>3. ASSUME NEW v \in Worker PROVE Storing(v)'
  BY <1>b, <1>i DEF Storing
<1> QED
  BY <1>1, <1>3, <1>i

LEMMA RaiseKeeps ==
  ASSUME MemoryInv, NEW w \in Worker, StoreRaises(w)
  PROVE  MemoryInv' /\ tables' = tables
<1>1. work' = [work EXCEPT ![w] = Idle] /\ UNCHANGED <<tables, saved, returned, buffer>>
  BY DEF StoreRaises
<1>2. work' \in [Worker -> CallType] /\ \A v \in Worker : Storing(v)'
  BY <1>1, IdleStoring
<1>3. ASSUME NEW i \in DOMAIN returned PROVE Resolved(i)'
  BY <1>1 DEF Resolved, Under, MemoryInv
<1>4. MemoryTyped' /\ Buffered'
  BY <1>1, <1>2 DEF MemoryInv, MemoryTyped, Buffered
<1> QED
  BY <1>1, <1>2, <1>3, <1>4 DEF MemoryInv

\* A crash takes what was not committed, of which nothing was returned.
LEMMA CrashKeeps ==
  ASSUME MemoryInv, Crash
  PROVE  MemoryInv' /\ tables'.observations = tables.observations
<1> USE MemoryAssumption DEF MemoryInv
<1>1. /\ tables' = saved /\ work' = [w \in Worker |-> Idle]
      /\ buffer' = [turns |-> <<>>, compacted |-> 0, said |-> 0]
      /\ UNCHANGED <<saved, returned>>
  BY DEF Crash
<1>2. MemoryTyped'
  <2>1. Idle \in CallType
    BY DEF Idle, CallType
  <2>2. work' \in [Worker -> CallType]
    BY <1>1, <2>1
  <2> QED
    BY <1>1, <2>2 DEF MemoryTyped
<1>3. \A w \in Worker : Storing(w)'
  BY <1>1 DEF Storing, Busy
<1>4. ASSUME NEW i \in DOMAIN returned PROVE Resolved(i)'
  BY <1>1 DEF Resolved, Under
<1>5. Buffered'
  BY <1>1 DEF Buffered
<1> QED
  BY <1>1, <1>2, <1>3, <1>4, <1>5 DEF MemoryTyped

LEMMA TopOfBatch ==
  ASSUME NEW batch \in Seq(Evidence)
  PROVE  Top(batch) \in SUBSET Evidence
BY ElementOfSeq DEF Top

\* A call returns when its whole batch is stored, and commits before it does.
LEMMA CommitKeeps ==
  ASSUME MemoryInv, NEW w \in Worker, CommitAndReturn(w)
  PROVE  MemoryInv' /\ tables' = tables
<1> USE MemoryAssumption DEF MemoryInv
<1> DEFINE batch == work[w].batch
           h == work[w].handle
           new == [handle |-> h, batch |-> batch, top |-> Top(batch)]
           n == Len(returned)
<1>1. /\ work[w].next = Len(batch) + 1 /\ Busy(w)
      /\ saved' = tables /\ returned' = Append(returned, new)
      /\ work' = [work EXCEPT ![w] = Idle] /\ UNCHANGED <<tables, buffer>>
  BY DEF CommitAndReturn, Return, Busy
<1>2. /\ batch \in Seq(Evidence) /\ Len(batch) \in Nat /\ DOMAIN batch = 1..Len(batch)
      /\ returned \in Seq(ReturnType) /\ n \in Nat
  BY DEF MemoryTyped, CallType
<1>3. Storing(w) /\ h \in Handle
  BY <1>1 DEF Storing
<1>4. new \in ReturnType
  BY <1>2, <1>3, TopOfBatch DEF ReturnType
<1>5. new.handle = h /\ new.batch = batch /\ new.top = Top(batch)
  OBVIOUS
<1>6. Under(tables, h) = ToSet(batch)
  <2>1. \A e \in Evidence : e \in Under(tables, h) <=> \E j \in 1..Len(batch) : batch[j] = e
    <3>1. (Len(batch) + 1) - 1 = Len(batch)
      BY <1>2
    <3> QED
      BY <1>1, <1>3, <3>1 DEF Storing
  <2>2. ToSet(batch) \subseteq Evidence /\ Under(tables, h) \subseteq Evidence
    BY <1>2, ElementOfSeq DEF ToSet, Under
  <2>3. \A e : e \in ToSet(batch) <=> \E j \in 1..Len(batch) : batch[j] = e
    BY <1>2 DEF ToSet
  <2> QED
    BY <2>1, <2>2, <2>3
<1> HIDE DEF new
<1>7. /\ returned' \in Seq(ReturnType) /\ DOMAIN returned' = 1..n + 1 /\ DOMAIN returned = 1..n
      /\ returned'[n + 1] = new /\ \A i \in 1..n : returned'[i] = returned[i]
  BY <1>1, <1>2, <1>4
<1>8. \A i \in 1..n + 1 : i \in 1..n \/ i = n + 1
  BY <1>2
<1>9. Idle \in CallType
  BY DEF Idle, CallType
<1>10. work'[w] = Idle /\ \A v \in Worker : v # w => work'[v] = work[v]
  BY <1>1 DEF MemoryTyped
<1>11. MemoryTyped'
  <2>1. work' \in [Worker -> CallType]
    BY <1>1, <1>9 DEF MemoryTyped
  <2> QED
    BY <1>1, <1>7, <2>1 DEF MemoryTyped
<1>12. ASSUME NEW v \in Worker PROVE Storing(v)'
  <2>1. CASE v = w
    BY <1>10, <2>1 DEF Storing, Busy
  <2>2. CASE v # w
    <3>1. work'[v] = work[v] /\ (Busy(v)' <=> Busy(v)) /\ tables' = tables
      BY <1>1, <1>10, <2>2 DEF Busy
    <3>2. Busy(v) => \A i \in DOMAIN returned' : returned'[i].handle # work[v].handle
      BY <1>1, <1>3, <1>5, <1>7, <1>8, <2>2 DEF Storing
    <3>3. \A u \in Worker : Busy(u)' => Busy(u) /\ work'[u] = work[u]
      BY <1>10 DEF Busy
    <3> QED
      BY <3>1, <3>2, <3>3 DEF Storing
  <2> QED
    BY <2>1, <2>2
<1>13. ASSUME NEW i \in DOMAIN returned' PROVE Resolved(i)'
  <2>1. CASE i \in 1..n
    <3>1. Resolved(i) /\ returned'[i] = returned[i]
      BY <1>7, <2>1
    <3> QED
      BY <1>1, <3>1 DEF Resolved
  <2>2. CASE i = n + 1
    <3>1. returned'[i] = new
      BY <1>7, <2>2
    <3> QED
      BY <1>1, <1>5, <1>6, <3>1 DEF Resolved
  <2> QED
    BY <1>7, <1>8, <2>1, <2>2
<1>14. Buffered'
  BY <1>1 DEF Buffered
<1> QED
  BY <1>1, <1>11, <1>12, <1>13, <1>14

\* What is said comes last, and the turns that overflow go from the left.
LEMMA SayKeeps ==
  ASSUME MemoryInv, Say
  PROVE  MemoryInv' /\ tables' = tables
<1> USE MemoryAssumption DEF MemoryInv
<1> DEFINE old == buffer.turns
           k == Len(old)
           c == buffer.compacted
           all == Append(old, buffer.said + 1)
           over == IF Len(all) > MaxTurns THEN Len(all) - MaxTurns ELSE 0
           kept == SubSeq(all, over + 1, Len(all))
<1>1. /\ buffer' = [turns |-> kept, compacted |-> c + over, said |-> buffer.said + 1]
      /\ UNCHANGED <<tables, saved, work, returned>>
  BY DEF Say
<1>2. /\ old \in Seq(Nat) /\ k \in Nat /\ c \in Nat /\ buffer.said \in Nat
      /\ k <= MaxTurns /\ c + k = buffer.said /\ \A i \in 1..k : old[i] = c + i
  BY DEF Buffered
<1>3. /\ all \in Seq(Nat) /\ Len(all) = k + 1 /\ \A i \in 1..k + 1 : all[i] = c + i
  <2>1. /\ all \in Seq(Nat) /\ Len(all) = k + 1 /\ all[k + 1] = buffer.said + 1
        /\ \A i \in 1..k : all[i] = old[i]
    BY <1>2
  <2>2. \A i \in 1..k + 1 : i \in 1..k \/ i = k + 1
    BY <1>2
  <2>3. c + (k + 1) = buffer.said + 1
    BY <1>2
  <2> QED
    BY <1>2, <2>1, <2>2, <2>3
<1>4. over \in Nat /\ over <= k + 1 /\ (k + 1) - over <= MaxTurns
  BY <1>2, <1>3
<1> HIDE DEF all, over
<1>5. /\ kept \in Seq(Nat) /\ Len(kept) = (k + 1) - over
      /\ \A i \in 1..(k + 1) - over : kept[i] = c + (over + i)
  <2> DEFINE m == over + 1
             l == k + 1
  <2>1. m \in Int /\ l \in Int /\ kept = SubSeq(all, m, l)
    BY <1>2, <1>3, <1>4
  <2>2. \A i \in m..l : all[i] \in Nat
    <3>1. \A i \in m..l : i \in 1..k + 1
      BY <1>2, <1>4
    <3>2. \A i \in 1..k + 1 : all[i] \in Nat
      BY <1>3, ElementOfSeq
    <3> QED
      BY <3>1, <3>2
  <2>3. /\ (IF m <= l THEN l - m + 1 ELSE 0) = (k + 1) - over
        /\ l - m + 1 = (k + 1) - over
        /\ \A i \in 1..(k + 1) - over : m + i - 1 = over + i /\ over + i \in 1..k + 1
    BY <1>2, <1>4
  <2> HIDE DEF m, l, kept
  <2>4. /\ kept \in Seq(Nat) /\ Len(kept) = IF m <= l THEN l - m + 1 ELSE 0
        /\ \A i \in 1..l - m + 1 : kept[i] = all[m + i - 1]
    BY <2>1, <2>2, SubSeqProperties
  <2> QED
    BY <1>3, <2>3, <2>4
<1> HIDE DEF kept
<1>6. Buffered'
  <2>1. buffer'.turns = kept /\ buffer'.compacted = c + over /\ buffer'.said = buffer.said + 1
    BY <1>1
  <2>2. buffer' \in [turns : Seq(Nat), compacted : Nat, said : Nat]
    <3>1. kept \in Seq(Nat) /\ c + over \in Nat /\ buffer.said + 1 \in Nat
      BY <1>2, <1>4, <1>5
    <3> QED
      BY <1>1, <3>1
  <2>3. Len(kept) <= MaxTurns /\ (c + over) + Len(kept) = buffer.said + 1
    BY <1>2, <1>4, <1>5
  <2>4. \A i \in DOMAIN kept : kept[i] = (c + over) + i
    <3>1. DOMAIN kept = 1..(k + 1) - over
      BY <1>5
    <3>2. \A i \in 1..(k + 1) - over : c + (over + i) = (c + over) + i
      BY <1>2, <1>4
    <3> QED
      BY <1>5, <3>1, <3>2
  <2> QED
    BY <2>1, <2>2, <2>3, <2>4 DEF Buffered
<1>7. MemoryTyped' /\ \A w \in Worker : Storing(w)'
  BY <1>1 DEF MemoryTyped, Storing, Busy
<1>8. ASSUME NEW i \in DOMAIN returned PROVE Resolved(i)'
  BY <1>1 DEF Resolved
<1> QED
  BY <1>1, <1>6, <1>7, <1>8

\* What the agent does beside the server keeps all that, and forgets no
\* observation.
LEMMA RememberKeeps ==
  ASSUME MemoryInv, Observe \/ SandboxNext \/ Say
  PROVE  MemoryInv' /\ tables'.observations >= tables.observations
<1>1. tables.observations \in Nat
  BY DEF MemoryInv, MemoryTyped, StoreType
<1>2. CASE Observe
  BY <1>2, ObserveKeeps
<1>3. CASE Say
  BY <1>1, <1>3, SayKeeps
<1>4. CASE SandboxNext
  <2>1. CASE \E w \in Worker, h \in Handle, batch \in Batches : BeginSandbox(w, h, batch)
    BY <1>1, <2>1, BeginKeeps
  <2>2. CASE \E w \in Worker : StoreOne(w)
    BY <1>1, <2>2, StoreKeeps
  <2>3. CASE \E w \in Worker : CommitAndReturn(w)
    BY <1>1, <2>3, CommitKeeps
  <2>4. CASE \E w \in Worker : StoreRaises(w)
    BY <1>1, <2>4, RaiseKeeps
  <2>5. CASE Crash
    BY <1>1, <2>5, CrashKeeps
  <2> QED
    BY <1>4, <2>1, <2>2, <2>3, <2>4, <2>5 DEF SandboxNext
<1> QED
  BY <1>2, <1>3, <1>4

\* Of two pieces of a batch, the more relevant one goes into the context first.
LEMMA TopIsBest ==
  ASSUME NEW batch \in Seq(Evidence), NEW e \in Top(batch), NEW f \in ToSet(batch) \ Top(batch)
  PROVE  Relevance[e] >= Relevance[f]
<1> DEFINE Before(i) == {j \in DOMAIN batch : Outranks(batch, j, i)}
<1>1. PICK i \in DOMAIN batch : e = batch[i] /\ Place(batch, i) < TopK
  BY DEF Top
<1>2. PICK k \in DOMAIN batch : f = batch[k]
  BY DEF ToSet
<1>3. ~(Place(batch, k) < TopK)
  BY <1>2 DEF Top
<1>4. /\ Len(batch) \in Nat /\ DOMAIN batch = 1..Len(batch)
      /\ \A j \in DOMAIN batch : Relevance[batch[j]] \in Int
  BY MemoryAssumption
<1>5. \A j \in DOMAIN batch : IsFiniteSet(Before(j)) /\ Cardinality(Before(j)) \in Nat
  <2>1. IsFiniteSet(DOMAIN batch)
    BY <1>4, FS_Interval
  <2>2. \A j \in DOMAIN batch : Before(j) \subseteq DOMAIN batch
    OBVIOUS
  <2> QED
    BY <2>1, <2>2, FS_Subset, FS_CardinalityType
<1>6. SUFFICES ASSUME Relevance[f] > Relevance[e] PROVE FALSE
  BY <1>1, <1>2, <1>4
<1>7. Before(k) \subseteq Before(i)
  BY <1>1, <1>2, <1>4, <1>6 DEF Outranks
<1>8. Cardinality(Before(k)) <= Cardinality(Before(i))
  BY <1>5, <1>7, FS_Subset
<1>9. Place(batch, i) = Cardinality(Before(i)) /\ Place(batch, k) = Cardinality(Before(k))
  BY DEF Place
<1>10. /\ Cardinality(Before(i)) \in Nat /\ Cardinality(Before(k)) \in Nat /\ TopK \in Nat
  BY <1>1, <1>2, <1>5, MemoryAssumption
<1> HIDE DEF Before
<1> QED
  BY <1>1, <1>3, <1>8, <1>9, <1>10

LEMMA ResolvedHandles == MemoryInv => HandlesResolve
<1> SUFFICES ASSUME MemoryInv, NEW i \in DOMAIN returned
             PROVE  LET r == returned[i]
                        all == ToSet(r.batch)
                    IN /\ GetAll(r.handle) = all
                       /\ \A matches \in SUBSET all : Retrieve(r.handle, matches) = matches
                       /\ \A e \in r.top, f \in all \ r.top : Relevance[e] >= Relevance[f]
  BY DEF HandlesResolve
<1> DEFINE r == returned[i]
<1>1. Resolved(i) /\ r \in ReturnType /\ tables.fts = tables.rows
  BY ElementOfSeq DEF MemoryInv, MemoryTyped
<1>2. GetAll(r.handle) = ToSet(r.batch)
  BY <1>1 DEF Resolved, Under, GetAll
<1>3. \A matches \in SUBSET ToSet(r.batch) : Retrieve(r.handle, matches) = matches
  BY <1>1, <1>2 DEF GetAll, Retrieve
<1>4. \A e \in r.top, f \in ToSet(r.batch) \ r.top : Relevance[e] >= Relevance[f]
  BY <1>1, TopIsBest DEF Resolved, ReturnType
<1> QED
  BY <1>2, <1>3, <1>4

-----------------------------------------------------------------------------
(* The client and its pages.                                               *)

ClientType ==
  [begun : BOOLEAN, offset : Nat, seen : SUBSET Nat, must : SUBSET Nat, done : BOOLEAN]

HasTimeline == "kb" \in host.parts

\* What lies above the client's offset, counted from the newest, it has seen:
\* what is added meanwhile only moves the old observations further down.
Paging ==
  /\ client \in ClientType
  /\ client.seen \cup client.must \subseteq 1..Observations
  /\ ~client.begun => client.offset = 0 /\ client.must = {}
  /\ HasTimeline =>
       /\ \A x \in client.must : x > Observations - client.offset => x \in client.seen
       /\ client.done => client.must \subseteq client.seen

\* With the page `ids` the same holds of the next offset, and an empty page says
\* that there is no more.
Continues(ids) ==
  Pending =>
    /\ ToSet(ids) \subseteq 1..Observations
    /\ HasTimeline =>
         /\ \A x \in client.must : x > Observations - (client.offset + PageSize)
                                     => x \in client.seen \cup ToSet(ids)
         /\ ids = <<>> => client.must \subseteq client.seen

\* A page that was read stays good while its total is counted.
Counting ==
  at = "count" =>
    /\ answer = [kind |-> "result", ids |-> answer.ids, total |-> answer.total]
    /\ Continues(answer.ids)

ServerInv ==
  /\ host \in Hosts
  /\ at \in {"idle", "parse", "authorize", "limit", "handle", "endpoint", "count", "dead"}
  /\ Measuring <=> at = "limit"
  /\ Paging
  /\ Counting

\* A page of the timeline, between its first and its last observation.
LEMMA PageOfTimeline ==
  ASSUME tables.observations \in Nat, NEW o \in Nat
  PROVE  /\ ToSet(Timeline(o, PageSize)) \subseteq 1..Observations
         /\ \A x \in 1..Observations :
              x > Observations - (o + PageSize) /\ x <= Observations - o
                => x \in ToSet(Timeline(o, PageSize))
         /\ Timeline(o, PageSize) = <<>> => Observations <= o
<1> DEFINE T == Observations
           rest == T - o
           n == IF PageSize < rest THEN PageSize ELSE IF rest > 0 THEN rest ELSE 0
           page == Timeline(o, PageSize)
<1>1. T \in Nat /\ PageSize \in Nat \ {0}
  BY ServerAssumption DEF Observations
<1>2. page = [i \in 1..n |-> Newest[o + i]]
  BY DEF Timeline
<1>3. Newest = [i \in 1..T |-> T + 1 - i]
  BY DEF Newest
<1> HIDE DEF page, T
<1>4. \A i \in 1..n : o + i \in 1..T /\ T + 1 - (o + i) \in 1..T
  BY <1>1
<1>5. DOMAIN page = 1..n /\ \A i \in 1..n : page[i] = T + 1 - (o + i)
  BY <1>2, <1>3, <1>4
<1>6. ToSet(page) \subseteq 1..T
  BY <1>4, <1>5 DEF ToSet
<1>7. ASSUME NEW x \in 1..T, x > T - (o + PageSize), x <= T - o
      PROVE  x \in ToSet(page)
  <2>1. (T + 1) - (o + x) \in 1..n /\ T + 1 - (o + ((T + 1) - (o + x))) = x
    BY <1>1, <1>7
  <2> QED
    BY <1>5, <2>1 DEF ToSet
<1>8. page = <<>> => T <= o
  <2>1. page = <<>> => ~(1 \in 1..n)
    BY <1>5
  <2> QED
    BY <1>1, <2>1
<1> QED
  BY <1>6, <1>7, <1>8 DEF page, T

\* What the client is answered to a page it asks for.
LEMMA PageIsAnswered ==
  ASSUME NEW o, request = Page(o)
  PROVE  /\ HasTimeline => /\ Handled(request) = Shown(Timeline(o, PageSize))
                           /\ EndpointReply(request) = Shown(Timeline(o, PageSize))
         /\ ~HasTimeline => /\ Handled(request) = Text("result")
                            /\ EndpointReply(request) = Text("404")
<1>1. /\ request.tool = "memory.timeline" /\ request.method = "tools/call"
      /\ request.converts = TRUE /\ request.offset = o /\ request.limit = PageSize
  BY DEF Page
<1>2. Needs(request.tool) = {"kb"}
  BY <1>1 DEF Needs
<1>3. Handled(request) = ToolText(request)
  BY <1>1 DEF Handled, Tool
<1>4. Answered(request) = Shown(Timeline(o, PageSize))
  BY <1>1 DEF Answered
<1>5. CASE HasTimeline
  <2>1. ToolText(request) = Answered(request)
    BY <1>1, <1>2, <1>5 DEF ToolText, HasTimeline
  <2>2. EndpointReply(request) = Answered(request)
    BY <1>1, <1>2, <1>5 DEF EndpointReply, HasTimeline, Endpoint
  <2> QED
    BY <1>3, <1>4, <1>5, <2>1, <2>2
<1>6. CASE ~HasTimeline
  <2>1. ToolText(request) = Text("result")
    BY <1>1, <1>2, <1>6 DEF ToolText, HasTimeline
  <2>2. EndpointReply(request) = Text("404")
    BY <1>1, <1>2, <1>6 DEF EndpointReply, HasTimeline
  <2> QED
    BY <1>3, <1>6, <2>1, <2>2
<1> QED
  BY <1>5, <1>6

\* A page that is read off the timeline goes on where the last one ended.
LEMMA PageContinues ==
  ASSUME MemoryInv, Paging, NEW ids,
         Pending => \/ ids = Timeline(client.offset, PageSize)
                    \/ ids = <<>> /\ ~HasTimeline
  PROVE  Continues(ids)
<1> SUFFICES ASSUME Pending PROVE
      /\ ToSet(ids) \subseteq 1..Observations
      /\ HasTimeline =>
           /\ \A x \in client.must : x > Observations - (client.offset + PageSize)
                                       => x \in client.seen \cup ToSet(ids)
           /\ ids = <<>> => client.must \subseteq client.seen
  BY DEF Continues
<1>1. /\ tables.observations \in Nat /\ client.offset \in Nat
      /\ client.must \subseteq 1..Observations /\ PageSize \in Nat \ {0}
      /\ Observations = tables.observations
  BY ServerAssumption DEF MemoryInv, MemoryTyped, StoreType, Paging, ClientType, Observations
<1>2. CASE ids = <<>> /\ ~HasTimeline
  BY <1>2 DEF ToSet
<1>3. CASE ids = Timeline(client.offset, PageSize)
  <2>1. /\ ToSet(ids) \subseteq 1..Observations
        /\ \A x \in 1..Observations :
             x > Observations - (client.offset + PageSize) /\ x <= Observations - client.offset
               => x \in ToSet(ids)
        /\ ids = <<>> => Observations <= client.offset
    BY <1>1, <1>3, PageOfTimeline
  <2>2. ASSUME HasTimeline, NEW x \in client.must,
               x > Observations - (client.offset + PageSize)
        PROVE  x \in client.seen \cup ToSet(ids)
    <3>1. CASE x <= Observations - client.offset
      BY <1>1, <2>1, <2>2, <3>1
    <3>2. CASE x > Observations - client.offset
      BY <2>2, <3>2 DEF Paging
    <3> QED
      BY <1>1, <3>1, <3>2
  <2>3. ASSUME HasTimeline, ids = <<>>, NEW x \in client.must
        PROVE  x \in client.seen
    <3>1. x > Observations - client.offset
      BY <1>1, <2>1, <2>3
    <3> QED
      BY <2>3, <3>1 DEF Paging
  <2> QED
    BY <2>1, <2>2, <2>3
<1> QED
  BY <1>2, <1>3

\* Observations are only added, which moves nothing into what was passed.
LEMMA MoreObservations ==
  ASSUME MemoryInv, MemoryInv', tables'.observations >= tables.observations,
         Paging, UNCHANGED serverVars
  PROVE  Paging' /\ (Counting => Counting')
<1>1. /\ tables.observations \in Nat /\ tables'.observations \in Nat
      /\ Observations = tables.observations /\ Observations' = tables'.observations
      /\ tables.observations <= tables'.observations
  BY DEF MemoryInv, MemoryTyped, StoreType, Observations
<1>2. UNCHANGED <<host, at, request, answer, client>> /\ HasTimeline' = HasTimeline
  BY DEF serverVars, HasTimeline
<1>3. client.offset \in Nat /\ client.must \subseteq Nat /\ PageSize \in Nat
  BY ServerAssumption DEF Paging, ClientType
<1>4. 1..Observations \subseteq 1..Observations'
  BY <1>1
<1>5. \A x, d \in Nat : x > Observations' - d => x > Observations - d
  BY <1>1
<1>6. Paging'
  BY <1>2, <1>3, <1>4, <1>5 DEF Paging
<1>7. ASSUME Counting PROVE Counting'
  <2>1. client.offset + PageSize \in Nat
    BY <1>3
  <2>2. Pending' <=> Pending
    BY <1>2 DEF Pending, Page, Sender
  <2>3. Continues(answer.ids) => Continues(answer.ids)'
    BY <1>2, <1>3, <1>4, <1>5, <2>1, <2>2 DEF Continues
  <2> QED
    BY <1>2, <1>7, <2>3 DEF Counting
<1> QED
  BY <1>6, <1>7

\* The client takes an answer, if it is one to its page.
GoodAnswer(ans) ==
  Pending /\ ans.kind = "result" =>
    Continues(ans.ids) /\ (HasTimeline => ans.total = Observations)

LEMMA ReadsKeeps ==
  ASSUME MemoryInv, Paging, NEW ans, ans.kind = "result" => GoodAnswer(ans),
         Reads(ans), UNCHANGED <<tables, host>>
  PROVE  Paging'
<1>1. /\ Observations' = Observations /\ HasTimeline' = HasTimeline
      /\ Observations \in Nat /\ PageSize \in Nat \ {0}
  BY ServerAssumption DEF Observations, HasTimeline, MemoryInv, MemoryTyped, StoreType
<1>2. CASE UNCHANGED client
  BY <1>1, <1>2 DEF Paging
<1>3. CASE Pending /\ ans.kind = "result"
  <2> DEFINE ids == ans.ids
             finished == \/ ids = <<>>
                         \/ host.transport = "web" /\ client.offset + PageSize >= ans.total
             seen == client.seen \cup ToSet(ids)
             offset == client.offset + PageSize
  <2>1. /\ client \in ClientType /\ client.begun = TRUE
        /\ client' = [client EXCEPT !.seen = seen, !.offset = offset, !.done = finished]
    BY <1>3 DEF Reads, Pending, Paging, ClientType
  <2>2. /\ client.offset \in Nat /\ client.must \subseteq 1..Observations
        /\ client.seen \subseteq 1..Observations
    BY <2>1 DEF Paging, ClientType
  <2>3. /\ ToSet(ids) \subseteq 1..Observations
        /\ HasTimeline => /\ \A x \in client.must : x > Observations - offset => x \in seen
                          /\ ids = <<>> => client.must \subseteq client.seen
        /\ HasTimeline => ans.total = Observations
    BY <1>3 DEF GoodAnswer, Continues
  <2>4. seen \subseteq 1..Observations /\ offset \in Nat
    BY <1>1, <2>2, <2>3
  <2>5. ASSUME HasTimeline, finished PROVE client.must \subseteq seen
    <3>1. CASE ids = <<>>
      BY <2>3, <2>5, <3>1
    <3>2. CASE offset >= ans.total
      <4> SUFFICES ASSUME NEW x \in client.must PROVE x > Observations - offset
        BY <2>3, <2>5
      <4>1. offset >= Observations
        BY <2>3, <2>5, <3>2
      <4> QED
        BY <1>1, <2>2, <2>4, <4>1
    <3> QED
      BY <2>5, <3>1, <3>2
  <2> HIDE DEF seen, offset, finished
  <2>6. /\ client'.seen = seen /\ client'.offset = offset /\ client'.done = finished
        /\ client'.must = client.must /\ client'.begun = TRUE
    BY <2>1 DEF ClientType
  <2>7. client' \in ClientType
    <3>1. seen \in SUBSET Nat /\ finished \in BOOLEAN
      BY <1>1, <2>4 DEF finished
    <3> QED
      BY <2>1, <2>4, <3>1 DEF ClientType
  <2> QED
    BY <1>1, <2>2, <2>3, <2>4, <2>5, <2>6, <2>7 DEF Paging, seen, offset
<1> QED
  BY <1>2, <1>3 DEF Reads

\* The client asks for its next page, and sees to begin with what there is.
LEMMA AskKeeps ==
  ASSUME MemoryInv, ServerInv, Ask
  PROVE  Paging' /\ host' = host /\ at' \in {"parse", "authorize", "endpoint"}
         /\ UNCHANGED <<limiterVars, memoryVars>>
<1>1. /\ UNCHANGED <<limiterVars, memoryVars, host>> /\ ~client.done
      /\ client' = [client EXCEPT !.begun = TRUE,
                      !.must = IF client.begun THEN @ ELSE 1..Observations]
  BY DEF Ask, Receive
<1>2. at' \in {"parse", "authorize", "endpoint"}
  <2>1. host.transport \in {"stdio", "http", "web"}
    BY ServerAssumption DEF ServerInv
  <2> QED
    BY <2>1 DEF Ask, Receive
<1>3. /\ tables' = tables /\ Observations' = Observations /\ HasTimeline' = HasTimeline
      /\ Observations \in Nat
  BY <1>1 DEF memoryVars, Observations, HasTimeline, MemoryInv, MemoryTyped, StoreType
<1>4. client \in ClientType /\ client.seen \cup client.must \subseteq 1..Observations
  BY DEF ServerInv, Paging
<1> DEFINE must == IF client.begun THEN client.must ELSE 1..Observations
<1>5. /\ client' \in ClientType /\ client'.begun = TRUE /\ client'.must = must
      /\ client'.seen = client.seen /\ client'.offset = client.offset
      /\ client'.done = client.done
  <2>1. client.must \in SUBSET Nat /\ 1..Observations \in SUBSET Nat
    BY <1>3, <1>4 DEF ClientType
  <2> QED
    BY <1>1, <1>4, <2>1 DEF ClientType
<1>6. HasTimeline => \A x \in must : x > Observations - client.offset => x \in client.seen
  <2>1. CASE client.begun
    BY <2>1 DEF ServerInv, Paging
  <2>2. CASE ~client.begun
    <3>1. client.offset = 0
      BY <2>2 DEF ServerInv, Paging
    <3> QED
      BY <1>3, <2>2, <3>1
  <2> QED
    BY <2>1, <2>2
<1>7. Paging'
  BY <1>1, <1>3, <1>4, <1>5, <1>6 DEF Paging
<1> QED
  BY <1>1, <1>2, <1>7

\* Every step of the server that answers, or passes a request on.
LEMMA ServerStepKeeps ==
  ASSUME MemoryInv, ServerInv, Step
  PROVE  /\ Paging' /\ Counting' /\ UNCHANGED <<memoryVars, host>>
         /\ at' \in {"idle", "parse", "authorize", "limit", "handle", "endpoint", "count", "dead"}
         /\ Measuring' <=> at' = "limit"
<1> DEFINE Same == UNCHANGED <<memoryVars, host>>
           Good == /\ Paging' /\ Counting' /\ Same
                   /\ at' \in {"idle", "parse", "authorize", "limit", "handle", "endpoint",
                               "count", "dead"}
                   /\ Measuring' <=> at' = "limit"
<1>i. Paging /\ Counting /\ (Measuring <=> at = "limit")
  BY DEF ServerInv
<1>t. Same => UNCHANGED <<tables, host>>
  BY DEF memoryVars
<1>m. UNCHANGED limiterVars => (Measuring' <=> Measuring)
  BY DEF limiterVars, Measuring
<1>p. Same /\ UNCHANGED client => Paging'
  BY <1>i DEF Paging, memoryVars, Observations, HasTimeline
<1>c. at' # "count" => Counting'
  BY DEF Counting
\* An answer in words leaves the client where it is.
<1>w. ASSUME NEW t, t # "result", Reply(Text(t)), Same PROVE Paging'
  <2>1. Text(t).kind = t
    BY DEF Text
  <2> QED
    BY <1>i, <1>t, <1>w, <2>1, ReadsKeeps DEF Reply
<1>1. CASE Parse
  <2>1. Same /\ at = "parse" /\ UNCHANGED limiterVars
    BY <1>1 DEF Parse, Serving
  <2>2. CASE Reply(Text("-32700"))
    <3>1. Paging'
      BY <1>w, <2>1, <2>2
    <3> QED
      BY <1>c, <1>i, <1>m, <2>1, <2>2, <3>1 DEF Reply
  <2>3. CASE at' = "handle" /\ UNCHANGED client
    BY <1>c, <1>i, <1>m, <1>p, <2>1, <2>3
  <2> QED
    BY <1>1, <2>2, <2>3 DEF Parse
<1>2. CASE Unauthorized
  <2>1. Same /\ at = "authorize" /\ UNCHANGED limiterVars
    BY <1>2 DEF Unauthorized, Serving
  <2>2. Paging' /\ at' = "idle"
    <3> DEFINE t == IF host.expected = {} THEN "500" ELSE "401"
    <3>1. t # "result" /\ Reply(Text(t))
      BY <1>2 DEF Unauthorized
    <3> HIDE DEF t
    <3> QED
      BY <1>w, <2>1, <3>1 DEF Reply
  <2> QED
    BY <1>c, <1>i, <1>m, <2>1, <2>2
<1>3. CASE Authorize
  <2>1. Same /\ at' = "limit" /\ UNCHANGED client
    BY <1>3 DEF Authorize, Serving
  <2>2. Measuring'
    <3>1. PICK tok \in host.expected : Measure(tok)
      BY <1>3 DEF Authorize
    <3> QED
      BY <3>1 DEF Measure, Measuring
  <2> QED
    BY <1>c, <1>p, <2>1, <2>2
<1>4. CASE AuthorizeUnmeasured
  BY <1>4, <1>c, <1>i, <1>m, <1>p DEF AuthorizeUnmeasured, Serving
<1>5. CASE Shift
  BY <1>5, <1>c, <1>i, <1>p DEF Shift, Serving, Evict, Measuring
<1>6. CASE TooMany
  <2>1. Same /\ Reply(Text("429")) /\ measured' = <<>>
    BY <1>6 DEF TooMany, Serving, Refuse
  <2>2. Paging' /\ at' = "idle"
    BY <1>w, <2>1 DEF Reply
  <2> QED
    BY <1>c, <2>1, <2>2 DEF Measuring
<1>7. CASE Accept
  BY <1>7, <1>c, <1>p DEF Accept, Serving, LetIn, Measuring
<1>8. CASE HandleMessage
  <2>1. Same /\ at = "handle" /\ UNCHANGED limiterVars /\ Reply(Handled(request))
    BY <1>8 DEF HandleMessage, Serving
  <2>2. GoodAnswer(Handled(request))
    <3> SUFFICES ASSUME Pending, Handled(request).kind = "result"
                 PROVE  /\ Continues(Handled(request).ids)
                        /\ HasTimeline => Handled(request).total = Observations
      BY DEF GoodAnswer
    <3>1. request = Page(client.offset)
      BY DEF Pending
    <3>2. CASE HasTimeline
      <4>1. Handled(request) = Shown(Timeline(client.offset, PageSize))
        BY <3>1, <3>2, PageIsAnswered
      <4>2. Handled(request).ids = Timeline(client.offset, PageSize)
            /\ Handled(request).total = Observations
        BY <4>1 DEF Shown
      <4>3. Continues(Handled(request).ids)
        BY <1>i, <4>2, PageContinues
      <4> QED
        BY <4>2, <4>3
    <3>3. CASE ~HasTimeline
      <4>1. Handled(request).ids = <<>>
        BY <3>1, <3>3, PageIsAnswered DEF Text
      <4>2. Continues(Handled(request).ids)
        BY <1>i, <3>3, <4>1, PageContinues
      <4> QED
        BY <3>3, <4>2
    <3> QED
      BY <3>2, <3>3
  <2>3. Paging' /\ at' = "idle"
    BY <1>i, <1>t, <2>1, <2>2, ReadsKeeps DEF Reply
  <2> QED
    BY <1>c, <1>i, <1>m, <2>1, <2>3
<1>9. CASE HandleRaises
  BY <1>9, <1>c, <1>i, <1>m, <1>p DEF HandleRaises, Serving
<1>10. CASE EndpointReads
  <2> DEFINE reply == EndpointReply(request)
  <2>1. Same /\ at = "endpoint" /\ UNCHANGED limiterVars
    BY <1>10 DEF EndpointReads, Serving
  <2>2. CASE /\ request.tool = "memory.timeline" /\ reply.kind = "result"
             /\ at' = "count" /\ answer' = reply /\ UNCHANGED <<request, client>>
    <3>1. reply = Shown(Timeline(request.offset, request.limit))
      <4>1. Text("404").kind # "result" /\ Text("400").kind # "result"
        BY DEF Text
      <4> QED
        BY <2>2, <4>1 DEF EndpointReply, Answered
    <3>2. reply = [kind |-> "result", ids |-> reply.ids, total |-> reply.total]
          /\ reply.ids = Timeline(request.offset, request.limit)
      BY <3>1 DEF Shown
    <3>3. Pending => reply.ids = Timeline(client.offset, PageSize)
      BY <3>2 DEF Pending, Page
    <3>4. Continues(reply.ids)
      BY <1>i, <3>3, PageContinues
    <3> HIDE DEF reply
    <3>5. Continues(answer.ids)'
      BY <2>1, <2>2, <3>4 DEF Continues, Pending, Page, Sender, HasTimeline, Observations,
                              memoryVars
    <3>6. Counting'
      BY <2>2, <3>2, <3>5 DEF Counting
    <3> QED
      BY <1>i, <1>m, <1>p, <2>1, <2>2, <3>6
  <2>3. CASE Reply(reply) /\ ~(request.tool = "memory.timeline" /\ reply.kind = "result")
    <3>1. Pending => request.tool = "memory.timeline"
      BY DEF Pending, Page
    <3>2. GoodAnswer(reply)
      BY <2>3, <3>1 DEF GoodAnswer
    <3>3. Paging' /\ at' = "idle"
      BY <1>i, <1>t, <2>1, <2>3, <3>2, ReadsKeeps DEF Reply
    <3> QED
      BY <1>c, <1>i, <1>m, <2>1, <3>3
  <2> QED
    BY <1>10, <2>2, <2>3 DEF EndpointReads
<1>11. CASE EndpointCounts
  <2> DEFINE ans == [answer EXCEPT !.total = Observations]
  <2>1. Same /\ at = "count" /\ UNCHANGED limiterVars /\ Reply(ans)
    BY <1>11 DEF EndpointCounts, Serving
  <2>2. ans.ids = answer.ids /\ ans.total = Observations
    BY <1>i, <2>1 DEF Counting
  <2>3. GoodAnswer(ans)
    BY <1>i, <2>1, <2>2 DEF GoodAnswer, Counting
  <2>4. Paging' /\ at' = "idle"
    BY <1>i, <1>t, <2>1, <2>3, ReadsKeeps DEF Reply
  <2> QED
    BY <1>c, <1>i, <1>m, <2>1, <2>4
<1> QED
  BY <1>1, <1>2, <1>3, <1>4, <1>5, <1>6, <1>7, <1>8, <1>9, <1>10, <1>11 DEF Step

LEMMA NextServerInv ==
  ASSUME MemoryInv, ServerInv, [Next]_vars
  PROVE  MemoryInv' /\ ServerInv'
<1>h. host' = host /\ host \in Hosts
  BY HostStays DEF ServerInv
<1>m. UNCHANGED memoryVars => MemoryInv'
  <2> SUFFICES ASSUME UNCHANGED memoryVars PROVE MemoryInv'
    OBVIOUS
  <2>1. UNCHANGED <<tables, saved, work, returned, buffer>>
    BY DEF memoryVars
  <2>2. MemoryTyped' /\ Buffered'
    BY <2>1 DEF MemoryInv, MemoryTyped, Buffered
  <2>3. \A w \in Worker : Storing(w)'
    BY <2>1 DEF MemoryInv, Storing, Busy
  <2>4. \A i \in DOMAIN returned : Resolved(i)'
    BY <2>1 DEF MemoryInv, Resolved
  <2> QED
    BY <2>1, <2>2, <2>3, <2>4 DEF MemoryInv
<1>q. UNCHANGED <<memoryVars, serverVars>> /\ (Measuring' <=> Measuring)
        => MemoryInv' /\ ServerInv'
  BY <1>m DEF ServerInv, memoryVars, serverVars, Paging, Counting, Continues, Pending, Page,
              Sender, HasTimeline, Observations
<1>1. CASE UNCHANGED vars
  BY <1>1, <1>q DEF vars, limiterVars, Measuring
<1>2. CASE Ask
  <2>1. /\ Paging' /\ at' \in {"parse", "authorize", "endpoint"}
        /\ UNCHANGED <<limiterVars, memoryVars>>
    BY <1>2, AskKeeps
  <2>2. at = "idle" /\ (Measuring' <=> Measuring)
    BY <1>2, <2>1 DEF Ask, Receive, limiterVars, Measuring
  <2> QED
    BY <1>h, <1>m, <2>1, <2>2 DEF ServerInv, Counting
<1>3. CASE \E req \in Request : Other(req)
  <2>1. /\ at = "idle" /\ at' \in {"parse", "authorize", "endpoint"}
        /\ UNCHANGED <<limiterVars, memoryVars, host, client>>
    <3>1. host.transport \in {"stdio", "http", "web"}
      BY <1>h, ServerAssumption
    <3> QED
      BY <1>3, <3>1 DEF Other, Receive
  <2>2. Measuring' <=> Measuring
    BY <2>1 DEF limiterVars, Measuring
  <2>3. Paging'
    BY <2>1 DEF ServerInv, Paging, HasTimeline, Observations, memoryVars
  <2> QED
    BY <1>h, <1>m, <2>1, <2>2, <2>3 DEF ServerInv, Counting
<1>4. CASE Step
  BY <1>4, <1>h, <1>m, ServerStepKeeps DEF ServerInv
<1>5. CASE Tick /\ UNCHANGED <<memoryVars, serverVars>>
  BY <1>5, <1>q DEF Tick, Measuring
<1>6. CASE Remember /\ UNCHANGED <<limiterVars, serverVars>>
  <2>1. MemoryInv' /\ tables'.observations >= tables.observations
    BY <1>6, RememberKeeps DEF Remember
  <2>2. Paging' /\ Counting'
    BY <1>6, <2>1, MoreObservations DEF ServerInv
  <2>3. at' = at /\ (Measuring' <=> Measuring)
    BY <1>6 DEF serverVars, limiterVars, Measuring
  <2> QED
    BY <1>h, <2>1, <2>2, <2>3 DEF ServerInv
<1> QED
  BY <1>1, <1>2, <1>3, <1>4, <1>5, <1>6 DEF Next

LEMMA ServerStarts == Init => MemoryInv /\ ServerInv
<1> SUFFICES ASSUME Init PROVE MemoryInv /\ ServerInv
  OBVIOUS
<1>1. MemoryInv
  BY MemoryStarts DEF Init
<1>2. /\ host \in Hosts /\ at = "idle" /\ measured = <<>>
      /\ client = [begun |-> FALSE, offset |-> 0, seen |-> {}, must |-> {}, done |-> FALSE]
  BY DEF Init, LimiterInit
<1>3. Paging
  BY <1>2 DEF Paging, ClientType
<1> QED
  BY <1>1, <1>2, <1>3 DEF ServerInv, Counting, Measuring

LEMMA AlwaysServerInv == Spec => [](MemoryInv /\ ServerInv)
<1>1. MemoryInv /\ ServerInv /\ [Next]_vars => (MemoryInv /\ ServerInv)'
  BY NextServerInv
<1> QED
  BY <1>1, ServerStarts, PTL DEF Spec

(* TimelineComplete: a client that has paged through the timeline to its    *)
(* end has seen every observation there was when it began, whatever its     *)
(* page size, the transport, the refusals and the observations added        *)
(* between two of its requests or between a page and its total.             *)
THEOREM TimelineIsComplete == Spec => []TimelineComplete
<1>1. MemoryInv /\ ServerInv => TimelineComplete
  BY DEF ServerInv, Paging, HasTimeline, TimelineComplete
<1> QED
  BY <1>1, AlwaysServerInv, PTL

(* HandlesResolve: a handle that ToolOutputSandbox.sandbox has returned     *)
(* stands for its batch, no more and no less, for any number of workers on  *)
(* one connection, errors between two pieces and crashes at any moment; and *)
(* what went into the context is the most relevant of it.                   *)
THEOREM HandlesAreResolved == Spec => []HandlesResolve
<1>1. MemoryInv /\ ServerInv => HandlesResolve
  BY ResolvedHandles
<1> QED
  BY <1>1, AlwaysServerInv, PTL

(* TypeOK: every reachable state is well typed, the limiter is at work just *)
(* while the server waits for it, and the buffer accounts for every turn.   *)
THEOREM ServerTypeCorrect == Spec => []TypeOK
<1>1. LimiterInv /\ MemoryInv /\ ServerInv => TypeOK
  <2> SUFFICES ASSUME LimiterInv, MemoryInv, ServerInv PROVE TypeOK
    OBVIOUS
  <2>1. LimiterTypeOK
    BY DEF LimiterInv
  <2>2. MemoryTypeOK
    <3>1. Observations \in 0..MaxObservations /\ saved.observations = Observations
      BY MemoryAssumption DEF MemoryInv, MemoryTyped, StoreType, Observations
    <3>2. tables.rows \cup tables.fts \subseteq Handle \X Evidence
      BY DEF MemoryInv, MemoryTyped, StoreType
    <3>3. ASSUME NEW w \in Worker PROVE work[w].next \in 1..(Len(work[w].batch) + 1)
      <4>1. work[w] \in CallType /\ Storing(w)
        BY DEF MemoryInv, MemoryTyped
      <4>2. CASE Busy(w)
        BY <4>1, <4>2 DEF Storing, CallType
      <4>3. CASE ~Busy(w)
        BY <4>3 DEF Busy, Idle
      <4> QED
        BY <4>2, <4>3
    <3>4. /\ Len(buffer.turns) <= MaxTurns
          /\ buffer.compacted + Len(buffer.turns) = buffer.said
          /\ \A i \in DOMAIN buffer.turns : buffer.turns[i] = buffer.compacted + i
      BY DEF MemoryInv, Buffered
    <3> QED
      BY <3>1, <3>2, <3>3, <3>4 DEF MemoryTypeOK
  <2>3. Measuring = (at = "limit")
    BY DEF ServerInv, Measuring
  <2> QED
    BY <2>1, <2>2, <2>3 DEF ServerInv, Paging, TypeOK
<1>2. Spec => []LimiterInv
  BY ServerImplementsLimiter, LimiterStarts, LimiterStepKeeps, PTL DEF LimiterSpec
<1> QED
  BY <1>1, <1>2, AlwaysServerInv, PTL
=============================================================================
