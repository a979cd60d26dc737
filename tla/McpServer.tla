----------------------------- MODULE McpServer -----------------------------
(***************************************************************************)
(* The MCP server (open_fang/mcp_server/) and the read endpoints of the    *)
(* HTTP API (open_fang/app.py), in front of the memory store.  A server    *)
(* has one transport: "stdio" (run_stdio), "http" (handle_http_rpc, with a *)
(* limiter its host shares between requests, or none) or "web" (app.py).   *)
(* It serves one request at a time, while the agent goes on remembering    *)
(* beside it.                                                              *)
(*                                                                         *)
(* A request is what the code tells apart in it: who sends it, what shape  *)
(* its JSON has, which method and tool it names, whether the arguments     *)
(* convert.  One client reads the whole timeline page after page, and asks *)
(* for a page again when it is refused it.                                 *)
(***************************************************************************)
EXTENDS RateLimiter, Memory

CONSTANTS
  Request,    \* the requests besides the client's pages
  Hosts,      \* how a server may be run: its transport, parts and token
  PageSize,   \* the limit the client asks for
  ScanLimit,  \* how many observations memory.search looks at, 200 in the code
  MaxServed,  \* bound: how many other requests are served
  MaxTime     \* bound: the clock

ASSUME ServerAssumption ==
  /\ PageSize \in Nat \ {0} /\ ScanLimit \in Nat
  /\ MaxServed \in Nat /\ MaxTime \in Nat
  /\ \A h \in Hosts :
       /\ h.transport \in {"stdio", "http", "web"}
       /\ h.parts \subseteq {"kb", "skills", "limiter", "sandbox", "buffer"}
       /\ h.expected \subseteq Token

VARIABLES
  host,     \* how this server is run
  at,       \* what the server is at
  request,  \* the request it serves, or served last
  answer,   \* its last answer
  served,   \* how many requests besides the client's were taken
  client    \* the client: its offset, what it has seen, what it must see

serverVars == <<host, at, request, answer, served, client>>
vars == <<limiterVars, memoryVars, serverVars>>

Tool == {"skill.list", "skill.get", "kb.search", "kb.paper", "memory.search",
         "memory.timeline", "memory.get_observations"}

Endpoint == {"healthz", "supervisor", "memory.timeline", "memory.get_observations",
             "kb.papers", "kb.paper", "kb.graph"}

Sender == host.expected

Page(offset) ==
  [sender |-> Sender, shape |-> "object", method |-> "tools/call",
   tool |-> "memory.timeline", converts |-> TRUE, offset |-> offset,
   limit |-> PageSize, about |-> {}]

Text(t) == [kind |-> t, ids |-> <<>>, total |-> 0]
Shown(ids) == [kind |-> "result", ids |-> ids, total |-> Observations]

Init ==
  /\ LimiterInit
  /\ MemoryInit
  /\ host \in Hosts
  /\ at = "idle"
  /\ request = Page(0)
  /\ answer = Text("none")
  /\ served = 0
  /\ client = [begun |-> FALSE, offset |-> 0, seen |-> {}, must |-> {}, done |-> FALSE]

-----------------------------------------------------------------------------
(* The tools and the endpoints.                                            *)

Needs(tool) ==
  IF tool \in {"skill.list", "skill.get"} THEN {"skills"}
  ELSE IF tool \in {"healthz", "supervisor"} THEN {} ELSE {"kb"}

\* memory.search without a query gives the compact index; with one, it looks
\* through the newest ScanLimit lines only.
MemorySearch(req) ==
  IF req.about = {} THEN CompactIndex(req.limit)
  ELSE LET hits == SelectSeq(CompactIndex(ScanLimit), LAMBDA id : id \in req.about)
       IN SubSeq(hits, 1, IF req.limit < Len(hits) THEN req.limit ELSE Len(hits))

Wanted(req) == SetToSeq({id \in req.about : Found(id)})

Answered(req) ==
  CASE req.tool = "memory.timeline" -> Shown(Timeline(req.offset, req.limit))
    [] req.tool = "memory.search" -> Shown(MemorySearch(req))
    [] req.tool = "memory.get_observations" -> Shown(Wanted(req))
    [] OTHER -> Text("result")

\* A tool answers in words when its part is missing or the thing is not found,
\* and an argument that int() does not convert raises in the handler.
ToolText(req) ==
  CASE ~(Needs(req.tool) \subseteq host.parts) -> Text("result")
    [] Needs(req.tool) \subseteq host.parts /\ ~req.converts -> Text("isError")
    [] OTHER -> Answered(req)

\* An endpoint answers 404 without a knowledge base or for an observation or
\* paper it does not have, 400 to a graph request without a seed or a query.
EndpointReply(req) ==
  IF \/ req.tool \notin Endpoint
     \/ ~(Needs(req.tool) \subseteq host.parts)
     \/ req.tool = "memory.get_observations" /\ Wanted(req) = <<>>
     \/ req.tool = "kb.paper" /\ ~req.converts
  THEN Text("404")
  ELSE IF req.tool = "kb.graph" /\ ~req.converts THEN Text("400") ELSE Answered(req)

-----------------------------------------------------------------------------
(* MCPServer.handle.                                                       *)

\* A list has no get, and what is no mapping does not become a dict: this is
\* outside the try around the handler.
Raises(req) ==
  \/ req.shape = "not an object"
  \/ req.shape = "bad params" /\ req.method = "tools/call"

Handled(req) ==
  CASE req.method \in {"initialize", "tools/list"} -> Text("result")
    [] req.method = "notifications/initialized" -> Text("none")
    [] req.method = "tools/call" ->
         IF req.tool \in Tool THEN ToolText(req) ELSE Text("-32602")
    [] OTHER -> Text("-32601")

-----------------------------------------------------------------------------
(* The transports.                                                         *)

Serving(place) == at = place /\ UNCHANGED <<memoryVars, host, served>>

Pending == request = Page(client.offset) /\ client.begun /\ ~client.done

\* The client takes its page, and goes on while there is more.
Reads(ans) ==
  IF Pending /\ ans.kind = "result"
  THEN client' = [client EXCEPT
         !.seen = @ \cup ToSet(ans.ids),
         !.offset = @ + PageSize,
         !.done = \/ ans.ids = <<>>
                  \/ host.transport = "web" /\ client.offset + PageSize >= ans.total]
  ELSE UNCHANGED client

Reply(ans) == at' = "idle" /\ answer' = ans /\ Reads(ans) /\ UNCHANGED request

Receive(req) ==
  /\ at = "idle"
  /\ request' = req
  /\ at' = CASE host.transport = "stdio" -> "parse"
             [] host.transport = "http" -> "authorize"
             [] host.transport = "web" -> "endpoint"
  /\ UNCHANGED <<limiterVars, memoryVars, host, answer>>

Ask ==
  /\ ~client.done
  /\ Receive(Page(client.offset))
  /\ client' = [client EXCEPT !.begun = TRUE,
                  !.must = IF client.begun THEN @ ELSE 1..Observations]
  /\ UNCHANGED served

Other(req) ==
  /\ served < MaxServed
  /\ served' = served + 1
  /\ Receive(req)
  /\ UNCHANGED client

\* run_stdio: a line that is no JSON is answered, and the loop goes on.
Parse ==
  /\ Serving("parse")
  /\ IF request.shape = "not JSON" THEN Reply(Text("-32700"))
     ELSE at' = "handle" /\ UNCHANGED <<request, answer, client>>
  /\ UNCHANGED limiterVars

\* handle_http_rpc: no token configured, no header, the wrong token.
Unauthorized ==
  /\ Serving("authorize")
  /\ Reply(Text(IF host.expected = {} THEN "500" ELSE "401"))
  /\ host.expected = {} \/ request.sender # host.expected
  /\ UNCHANGED limiterVars

Authorized == host.expected # {} /\ request.sender = host.expected

Authorize ==
  /\ Serving("authorize")
  /\ Authorized
  /\ \E tok \in host.expected : Measure(tok)
  /\ at' = "limit"
  /\ UNCHANGED <<request, answer, client>>

\* Without a limiter of its host's, a request is measured by a new one.
AuthorizeUnmeasured ==
  /\ Serving("authorize")
  /\ Authorized
  /\ at' = "handle"
  /\ UNCHANGED <<limiterVars, request, answer, client>>

Shift ==
  /\ Serving("limit")
  /\ Evict
  /\ UNCHANGED <<at, request, answer, client>>

TooMany == Serving("limit") /\ Refuse /\ Reply(Text("429"))

Accept ==
  /\ Serving("limit")
  /\ LetIn
  /\ at' = "handle"
  /\ UNCHANGED <<request, answer, client>>

HandleMessage ==
  /\ Serving("handle")
  /\ ~Raises(request)
  /\ Reply(Handled(request))
  /\ UNCHANGED limiterVars

\* The exception ends run_stdio; over HTTP it ends the request.
HandleRaises ==
  /\ Serving("handle")
  /\ Raises(request)
  /\ at' = IF host.transport = "stdio" THEN "dead" ELSE "idle"
  /\ UNCHANGED <<limiterVars, request, answer, client>>

\* The timeline endpoint reads the page and then the number of observations.
EndpointReads ==
  /\ Serving("endpoint")
  /\ LET reply == EndpointReply(request)
     IN IF request.tool = "memory.timeline" /\ reply.kind = "result"
        THEN at' = "count" /\ answer' = reply /\ UNCHANGED <<request, client>>
        ELSE Reply(reply)
  /\ UNCHANGED limiterVars

EndpointCounts ==
  /\ Serving("count")
  /\ Reply([answer EXCEPT !.total = Observations])
  /\ UNCHANGED limiterVars

-----------------------------------------------------------------------------
Step ==
  \/ Parse \/ HandleMessage \/ HandleRaises
  \/ Unauthorized
  \/ "limiter" \in host.parts /\ Authorize
  \/ "limiter" \notin host.parts /\ AuthorizeUnmeasured
  \/ Shift \/ TooMany \/ Accept
  \/ EndpointReads \/ EndpointCounts

\* What the agent does beside the server, with the parts it is built with.
Remember ==
  \/ Observe
  \/ "sandbox" \in host.parts /\ SandboxNext
  \/ "buffer" \in host.parts /\ Say

Next ==
  \/ Ask
  \/ \E req \in Request : Other(req)
  \/ Step
  \/ "limiter" \in host.parts /\ now < MaxTime /\ Tick /\ UNCHANGED <<memoryVars, serverVars>>
  \/ Remember /\ UNCHANGED <<limiterVars, serverVars>>

Spec == Init /\ [][Next]_vars

-----------------------------------------------------------------------------
(* Properties.                                                             *)

\* Every variable has its type, the limiter is at work while the server is at
\* "limit", and the working buffer accounts for every turn that was said.
TypeOK ==
  /\ LimiterTypeOK
  /\ MemoryTypeOK
  /\ host \in Hosts
  /\ at \in {"idle", "parse", "authorize", "limit", "handle", "endpoint", "count", "dead"}
  /\ Measuring = (at = "limit")
  /\ client.seen \cup client.must \subseteq 1..Observations

\* A client that pages through the timeline until there is no more has seen all
\* that was there when it began, though observations are added at the front and
\* pages are refused meanwhile (MemoryStore.timeline, memory_timeline).
TimelineComplete ==
  client.done /\ "kb" \in host.parts => client.must \subseteq client.seen
=============================================================================
