------------------------------ MODULE Lockfile ------------------------------
(***************************************************************************)
(* LockfileService (packages/config/src/lockfile.ts): what a lock binds,   *)
(* when a lock is valid, and what drift a comparison reports.  A digest is *)
(* the value it is the digest of.                                          *)
(***************************************************************************)
EXTENDS Naturals, FiniteSets

(* The inputs a lock binds; "route" is the route plan, id and digest.      *)
Bound == {"project", "catalog", "policy", "config", "route"}

(* computeLockDigest: every field but generatedAt (and the digest itself); *)
(* normalizeConnectors sorts, so that the connectors count as a set.       *)
LockDigest(lock) == [bound |-> lock.bound, connectors |-> lock.connectors]

(* create, for inputs with no credential-like string and no absolute path. *)
CreateLock(bound, connectors, generatedAt) ==
  LET lock == [bound |-> bound, connectors |-> connectors]
  IN [bound |-> bound, connectors |-> connectors,
      generatedAt |-> generatedAt, digest |-> LockDigest(lock)]

(* validate: the contract holds and the digest is the recomputed one.      *)
ValidLock(lock) ==
  /\ DOMAIN lock = {"bound", "connectors", "generatedAt", "digest"}
  /\ lock.digest = LockDigest(lock)

Drift(field, severity) == [field |-> field, severity |-> severity]

(* Mutant of BoundDrifts: the config is not compared.                      *)
BoundDriftsNoConfig(lock, current) ==
  {Drift(<<f>>, "critical") :
     f \in {g \in Bound \ {"config"} : lock.bound[g] # current.bound[g]}}

(* compare, its first part: the snapshots, the config and the route plan.  *)
BoundDrifts(lock, current) ==
  {Drift(<<f>>, "critical") : f \in {g \in Bound : lock.bound[g] # current.bound[g]}}

Ids(items) == {i.id : i \in items}
WithId(items, id) == CHOOSE i \in items : i.id = id

(* Its second part, when the caller gives the current connectors: a locked *)
(* connector that is gone is critical; one that is new, or an integration  *)
(* that came or went, is a warning.  The versions and digests of a         *)
(* connector that is still there are not compared.                         *)
IntegrationDrifts(locked, current) ==
  {Drift(<<locked.id, i>>, "warning") :
     i \in (locked.integrations \cup current.integrations)
             \ (locked.integrations \cap current.integrations)}

ConnectorDrifts(locked, current) ==
  LET gone  == Ids(locked) \ Ids(current)
      fresh == Ids(current) \ Ids(locked)
      kept  == Ids(locked) \cap Ids(current)
  IN {Drift(<<c>>, "critical") : c \in gone}
       \cup {Drift(<<c>>, "warning") : c \in fresh}
       \cup UNION {IntegrationDrifts(WithId(locked, c), WithId(current, c)) : c \in kept}

Drifts(lock, current) ==
  BoundDrifts(lock, current)
    \cup (IF "connectors" \in DOMAIN current
            THEN ConnectorDrifts(lock.connectors, current.connectors)
            ELSE {})

InSync(lock, current) ==
  \A d \in Drifts(lock, current) : d.severity # "critical"
=============================================================================
