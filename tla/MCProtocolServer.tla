--------------------------- MODULE MCProtocolServer --------------------------
(* Instances of ProtocolServer for TLC: two requests of eighteen kinds over *)
(* two connector directories.                                              *)
EXTENDS ProtocolServer

CONSTANTS q1, q2, dx, dy, ix

Rest(method, route, id, body) ==
  [surface |-> "rest", method |-> method, route |-> route, id |-> id, body |-> body,
   allowed |-> TRUE, rootAllowed |-> TRUE]

Tool(route, id, body) == [Rest("tool", route, id, body) EXCEPT !.surface = "mcp"]

MCKinds ==
  { Rest("GET", "list", "none", "none"),
    [Rest("GET", "list", "none", "none") EXCEPT !.allowed = FALSE],
    Rest("GET", "get", dy, "none"),
    Rest("GET", "get", ix, "none"),
    Rest("GET", "connectorHealth", ix, "none"),
    Rest("GET", "connectorHealth", "undecodable", "none"),
    Rest("GET", "unknown", "none", "none"),
    [Rest("POST", "inspect", "none", "object") EXCEPT !.rootAllowed = FALSE],
    Rest("POST", "inspect", "none", "object"),
    Rest("POST", "plans", "none", "value"),
    [Rest("POST", "plans", "none", "value") EXCEPT !.allowed = FALSE],
    Rest("POST", "plans", "none", "too large"),
    Rest("POST", "plans", "none", "not json type"),
    Rest("POST", "locks", "none", "malformed"),
    Tool("list", "none", "object"),
    Tool("list", "none", "value"),
    Tool("connectorHealth", dy, "object"),
    Tool("unknown", "none", "object") }

Manifest(kind, id, version) ==
  [kind |-> kind, id |-> id, version |-> version, sound |-> TRUE, selectable |-> TRUE]

MCManifestsOf ==
  (dx :> {Manifest("schema-v2", ix, 1), Manifest("missing", ix, 0)})
    @@ (dy :> {Manifest("schema-v2", ix, 1), Manifest("schema-v2", dy, 2),
               Manifest("legacy", dy, 1), Manifest("invalid", dy, 0)})

MCDirectoryIds == <<dx, dy>>
=============================================================================
