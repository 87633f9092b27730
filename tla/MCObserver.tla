----------------------------- MODULE MCObserver -----------------------------
(***************************************************************************)
(* Status documents at the bounds of what _project accepts: three          *)
(* candidates where three are allowed and one more, two models and one     *)
(* more, ids and models that repeat, every discovery field public in turn, *)
(* fields that are missing, and bodies that are not documents.             *)
(***************************************************************************)
EXTENDS Observer

CONSTANTS a, b, c, d, strange, m1, m2, m3, v1

MCPeerIds == {a, b, c, d}
MCLowerCase ==
    [s \in {"serving", "SERVING", "standby", "lost"} |-> IF s = "SERVING" THEN "serving" ELSE s]

Node(id, state, models) ==
    [id |-> id, state |-> state, serving_models |-> models, verified |-> FALSE]
Idle(id) == Node(id, "standby", << >>)

Lan == [ mesh_discovery_mode |-> "mdns", discovery_scope |-> "lan", discovery_source |-> "mdns",
         nostr_discovery |-> FALSE, publication_state |-> "private" ]

Document(local, peers, discovery) ==
    [version |-> v1, local |-> local, peers |-> peers, discovery |-> discovery]

Plain == Document(Node(a, "serving", <<m1, m2>>), <<Idle(b)>>, Lan)

Discoveries ==
    { [Lan EXCEPT !.nostr_discovery = TRUE], [Lan EXCEPT !.publication_state = "public"],
      [Lan EXCEPT !.discovery_scope = "global"], [Lan EXCEPT !.mesh_discovery_mode = "nostr"],
      [Lan EXCEPT !.nostr_discovery = None], [Lan EXCEPT !.discovery_scope = "local"] }

Statuses ==
    { Plain,
      [Plain EXCEPT !.version = None],
      [Plain EXCEPT !.local.state = "SERVING"],
      [Plain EXCEPT !.local.state = "lost"],
      [Plain EXCEPT !.local.serving_models = <<m1, m1>>],
      [Plain EXCEPT !.local.serving_models = <<m1, m2, m3>>],
      [Plain EXCEPT !.local.verified = TRUE],
      [Plain EXCEPT !.peers = << >>],
      [Plain EXCEPT !.peers = None],
      [Plain EXCEPT !.peers = <<None>>],
      [Plain EXCEPT !.peers = <<Idle(a)>>],
      [Plain EXCEPT !.peers = <<Idle(strange)>>],
      [Plain EXCEPT !.peers = <<Idle(b), Idle(c)>>],
      [Plain EXCEPT !.peers = <<Idle(c), Idle(b)>>],
      [Plain EXCEPT !.peers = <<Idle(b), Idle(c), Idle(d)>>] }
    \cup { [Plain EXCEPT !.discovery = s] : s \in Discoveries }

Answer(code, framing, form, status, size) ==
    [code |-> code, framing |-> framing, form |-> form, status |-> status, size |-> size]

MCResponses ==
    { Answer(200, "length", "object", s, 2) : s \in Statuses }
    \cup { Answer(200, f, "object", Plain, n) : f \in {"length", "chunked", "close"}, n \in 2..4 }
    \cup { Answer(200, "close", f, None, 2) : f \in {"other", "malformed", "deep"} }
    \cup { Answer(code, "length", "object", Plain, 2) : code \in {204, 302, 503} }

Command(maxScope, timeout, ttl) ==
    [loopback |-> TRUE, max_scope |-> maxScope, timeout |-> timeout, ttl |-> ttl, addresses |-> 1]

MCCalls ==
    { Command(s, 1, 3) : s \in Intents }
    \cup { Command("public_mesh", 1, 0), Command("public_mesh", 1, 4), Command("public_mesh", 4, 1),
           [Command("public_mesh", 1, 1) EXCEPT !.loopback = FALSE],
           [Command("public_mesh", 1, 1) EXCEPT !.addresses = 2],
           Command("public_mesh", 2, 1) }
=============================================================================
