--------------------------- MODULE MCCommandLine ----------------------------
(***************************************************************************)
(* CommandLine: two processes, two connector directories.                  *)
(***************************************************************************)
EXTENDS CommandLine, TLC

CONSTANTS p1, p2

MCDirectoryIds == <<"a", "b">>

Manifest(id, version, integrations) ==
  [kind |-> "schema-v2", id |-> id, version |-> version,
   integrations |-> integrations, selectable |-> TRUE, sound |-> TRUE]

\* Directory b may hold a copy of a's manifest, or one that is not yet valid.
MCManifestsOf ==
  [d \in {"a", "b"} |->
     IF d = "a"
       THEN {Manifest("a", 1, {"i"}), Manifest("a", 2, {"i"})}
       ELSE {Manifest("a", 1, {"i"}), [kind |-> "legacy"], [kind |-> "invalid"]}]

MCInitialInputs == {[i \in InputNames |-> 1]}

LockCommand(name, route, force, connectors) ==
  [name |-> name, route |-> route, force |-> force, connectors |-> connectors]

MCCommands ==
  {LockCommand("lock create", TRUE, FALSE, FALSE),
   LockCommand("lock create", TRUE, TRUE, TRUE),
   LockCommand("lock check", TRUE, FALSE, FALSE),
   LockCommand("lock check", FALSE, FALSE, TRUE),
   [name |-> "catalog snapshot"],
   [name |-> "plan create"]}

Symmetry == Permutations({p1, p2})
=============================================================================
