----------------------------- MODULE Permissions -----------------------------
(***************************************************************************)
(* The approval tokens of open_fang/permissions/tokens.py, as the request  *)
(* threads of the HTTP server share them: one TokenRegistry lives at       *)
(* module level (app.py) and each POST /v1/research runs in a thread of    *)
(* its own.  has_token iterates over the list, and pops a "once" token by  *)
(* the index it saw it at; nothing makes the two one step, so each is an   *)
(* action here.                                                            *)
(*                                                                         *)
(* A Token object is named by its position in the log `granted`, a history *)
(* variable; the list `tokens` holds such names.  The log `allows` is      *)
(* history too: the token each positive answer of has_token rested on.     *)
(***************************************************************************)
EXTENDS Naturals, Sequences, SequencesExt

CONSTANTS
  Run,       \* the request threads
  Kind,      \* the node kinds, which are what a token authorizes
  Op,        \* what a token may name: a kind, or a prefix followed by "*"
  Covers,    \* Covers[o]: the kinds an `op` equal to o matches
  MaxGrants  \* bound: how many tokens the user grants

ASSUME PermissionAssumption ==
  /\ Covers \in [Op -> SUBSET Kind]
  /\ MaxGrants \in Nat

VARIABLES
  granted,   \* every Token object ever made, in the order of the grants
  tokens,    \* TokenRegistry.tokens
  allows,    \* the tokens has_token has answered True for, in order
  scan,      \* scan[r]: the index r's iteration over `tokens` is at
  held       \* held[r]: the local `tok` of r's has_token

permissionVars == <<granted, tokens, allows, scan, held>>

TokenKind == {"session", "once", "pattern"}
Token == [op : Op, kind : TokenKind]
TokenId == 1..Len(granted)

PermissionTypeOK ==
  /\ granted \in Seq(Token)
  /\ tokens \in Seq(TokenId)
  /\ allows \in Seq(TokenId)
  /\ scan \in [Run -> Nat \ {0}]
  /\ held \in [Run -> Nat]

PermissionInit ==
  /\ granted = <<>>
  /\ tokens = <<>>
  /\ allows = <<>>
  /\ scan = [r \in Run |-> 1]
  /\ held = [r \in Run |-> 0]

IsOnce(id) == granted[id].kind = "once"

\* The match does not look at the kind of the token: a "once" or a "session"
\* token whose op ends in "*" matches by prefix as a "pattern" token does.
Matches(id, k) == k \in Covers[granted[id].op]

AtToken(r) == scan[r] <= Len(tokens)

-----------------------------------------------------------------------------
(* TokenRegistry.grant, reached from POST /v1/permissions/approve.         *)
Grant(o, kind) ==
  /\ Len(granted) < MaxGrants
  /\ granted' = Append(granted, [op |-> o, kind |-> kind])
  /\ tokens' = Append(tokens, Len(granted) + 1)
  /\ UNCHANGED <<allows, scan, held>>

(* has_token(k): the call, and the iterations of its loop.                 *)
\* Faulty variant: the iteration starts one position early.
BeginScanEarly(r) ==
  /\ scan' = [scan EXCEPT ![r] = 0]
  /\ UNCHANGED <<granted, tokens, allows, held>>

BeginScan(r) ==
  /\ scan' = [scan EXCEPT ![r] = 1]
  /\ UNCHANGED <<granted, tokens, allows, held>>

PassOver(r, k) ==
  /\ AtToken(r)
  /\ ~Matches(tokens[scan[r]], k)
  /\ scan' = [scan EXCEPT ![r] = @ + 1]
  /\ UNCHANGED <<granted, tokens, allows, held>>

\* Faulty variant: every matching token is popped, whatever its kind.
AcceptAndPop(r, k) ==
  /\ AtToken(r)
  /\ Matches(tokens[scan[r]], k)
  /\ ~IsOnce(tokens[scan[r]])
  /\ allows' = Append(allows, tokens[scan[r]])
  /\ tokens' = RemoveAt(tokens, scan[r])
  /\ UNCHANGED <<granted, scan, held>>

AcceptStanding(r, k) ==
  /\ AtToken(r)
  /\ Matches(tokens[scan[r]], k)
  /\ ~IsOnce(tokens[scan[r]])
  /\ allows' = Append(allows, tokens[scan[r]])
  /\ UNCHANGED <<granted, tokens, scan, held>>

SeeOnce(r, k) ==
  /\ AtToken(r)
  /\ Matches(tokens[scan[r]], k)
  /\ IsOnce(tokens[scan[r]])
  /\ held' = [held EXCEPT ![r] = tokens[scan[r]]]
  /\ UNCHANGED <<granted, tokens, allows, scan>>

\* Faulty variant: a once token is not popped when it is used.
AllowWithoutPop(r) ==
  /\ AtToken(r)
  /\ allows' = Append(allows, held[r])
  /\ UNCHANGED <<granted, tokens, scan, held>>

\* pop(i) takes whatever is at index i by now, and True is returned on the
\* strength of the token that was seen there.
Pop(r) ==
  /\ AtToken(r)
  /\ tokens' = RemoveAt(tokens, scan[r])
  /\ allows' = Append(allows, held[r])
  /\ UNCHANGED <<granted, scan, held>>

\* ... and raises IndexError when the list has become shorter than that.
PopRaises(r) == ~AtToken(r) /\ UNCHANGED permissionVars

NoToken(r) == ~AtToken(r) /\ UNCHANGED permissionVars
=============================================================================
