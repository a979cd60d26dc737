---------------------------- MODULE RateLimiter ----------------------------
(***************************************************************************)
(* The sliding window of open_fang/mcp_server/http.py: a deque of times    *)
(* for each token.  A request first drops the entries that have left the   *)
(* window, one by one from the left, and is let in when fewer than Limit   *)
(* are left.  Requests are measured one after the other: nothing under     *)
(* src/ calls the limiter from two threads.                                *)
(*                                                                         *)
(* Time is counted in ticks and never goes back (time.monotonic), and a    *)
(* request reads the clock once.  The log `accepted` is history: the times *)
(* of all the requests of a token that were ever let in.                   *)
(***************************************************************************)
EXTENDS Integers, Sequences

CONSTANTS
  Token,     \* the tokens that requests carry
  Limit,     \* requests_per_minute
  Span       \* the length of the window in ticks, a minute in the code

ASSUME LimiterAssumption ==
  /\ Limit \in Nat
  /\ Span \in Nat \ {0}

VARIABLES
  now,       \* the clock
  windows,   \* RateLimiter._windows; a token without an entry has an empty deque
  accepted,  \* the times at which each token was let in
  measured   \* the token and the time that allow is at work on, <<>> when it is not

limiterVars == <<now, windows, accepted, measured>>

LimiterInit ==
  /\ now = 0
  /\ windows = [tok \in Token |-> <<>>]
  /\ accepted = [tok \in Token |-> <<>>]
  /\ measured = <<>>

Measuring == measured # <<>>
Tok == measured[1]
At == measured[2]
Window == windows[Tok]

Tick ==
  /\ now' = now + 1
  /\ UNCHANGED <<windows, accepted, measured>>

-----------------------------------------------------------------------------
(* allow: the clock is read, the deque is cut, the answer is given.        *)

Measure(tok) ==
  /\ ~Measuring
  /\ measured' = <<tok, now>>
  /\ UNCHANGED <<now, windows, accepted>>

\* Faulty variant: the window is a tick short.
ExpiredEarly(w) == w # <<>> /\ Head(w) <= At - Span + 1

Expired(w) == w # <<>> /\ Head(w) <= At - Span

Evict ==
  /\ Measuring
  /\ Expired(Window)
  /\ windows' = [windows EXCEPT ![Tok] = Tail(@)]
  /\ UNCHANGED <<now, accepted, measured>>

Full(w) == Len(w) >= Limit

Refuse ==
  /\ Measuring
  /\ ~Expired(Window)
  /\ Full(Window)
  /\ measured' = <<>>
  /\ UNCHANGED <<now, windows, accepted>>

LetIn ==
  /\ Measuring
  /\ ~Expired(Window)
  /\ ~Full(Window)
  /\ windows' = [windows EXCEPT ![Tok] = Append(@, At)]
  /\ accepted' = [accepted EXCEPT ![Tok] = Append(@, At)]
  /\ measured' = <<>>
  /\ UNCHANGED now

LimiterNext ==
  \/ Tick
  \/ \E tok \in Token : Measure(tok)
  \/ Evict
  \/ Refuse
  \/ LetIn

LimiterSpec == LimiterInit /\ [][LimiterNext]_limiterVars

-----------------------------------------------------------------------------
(* Properties.                                                             *)

LimiterTypeOK ==
  /\ now \in Nat
  /\ windows \in [Token -> Seq(Nat)]
  /\ accepted \in [Token -> Seq(Nat)]
  /\ measured # <<>> => measured \in Token \X (0..now)

\* No stretch of a minute, wherever it begins, sees more than Limit requests of
\* one token let in: the request that comes Limit after another is at least a
\* minute later (RateLimiter.allow).
SpacedOut ==
  \A tok \in Token : \A i \in DOMAIN accepted[tok] :
    i + Limit \in DOMAIN accepted[tok] =>
      accepted[tok][i + Limit] - accepted[tok][i] >= Span

\* What carries it: a deque is the end of the log, and what was dropped from it
\* had left the window when it was.
WindowEndsLog ==
  \A tok \in Token :
    /\ Len(windows[tok]) <= Len(accepted[tok])
    /\ \A i \in DOMAIN windows[tok] :
         windows[tok][i] = accepted[tok][Len(accepted[tok]) - Len(windows[tok]) + i]
    /\ \A i \in 1..(Len(accepted[tok]) - Len(windows[tok])) :
         accepted[tok][i] <= now - Span
=============================================================================
