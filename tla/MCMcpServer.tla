---------------------------- MODULE MCMcpServer ----------------------------
(* A small instance of McpServer for TLC.                                  *)
EXTENDS McpServer

CONSTANTS secret, guess, w1, w2, h1, h2, e1, e2

R(sender, shape, method, tool, converts) ==
  [sender |-> sender, shape |-> shape, method |-> method, tool |-> tool,
   converts |-> converts, offset |-> 0, limit |-> 1, about |-> {}]

Call(tool, converts) == R({secret}, "object", "tools/call", tool, converts)

\* Each shape, each way of being refused, and tools and endpoints of each kind.
MCRequest ==
  {R({secret}, "not JSON", "none", "none", TRUE),
   R({secret}, "not an object", "none", "none", TRUE),
   R({secret}, "bad params", "tools/call", "none", TRUE),
   R({guess}, "object", "initialize", "none", TRUE),
   R({}, "object", "notifications/initialized", "none", TRUE),
   R({secret}, "object", "no such method", "none", TRUE),
   Call("kb.graph", FALSE), Call("kb.paper", FALSE), Call("supervisor", TRUE),
   Call("skill.get", TRUE), Call("no such tool", TRUE), Call("memory.search", FALSE),
   [Call("memory.search", TRUE) EXCEPT !.about = {1, 2}],
   [Call("memory.get_observations", TRUE) EXCEPT !.about = {2}]}

Host(transport, parts) == [transport |-> transport, parts |-> parts, expected |-> {secret}]

\* The three transports, HTTP with and without a limiter and without a token;
\* buffer and sandbox each beside one of them, the latter without a knowledge base.
MCHosts ==
  {Host("stdio", {"kb"}), Host("web", {"kb"}), Host("http", {"kb", "limiter"}),
   Host("http", {"kb", "skills", "buffer"}), Host("stdio", {"sandbox"}),
   [Host("http", {"kb", "limiter"}) EXCEPT !.expected = {}]}

MCRelevance == e1 :> 1 @@ e2 :> 2

MCBatches == {<<e1>>, <<e1, e2>>, <<e2, e1, e2>>}
=============================================================================
