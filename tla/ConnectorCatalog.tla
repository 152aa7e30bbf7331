-------------------------- MODULE ConnectorCatalog --------------------------
(***************************************************************************)
(* The filesystem connector catalog                                        *)
(* (packages/connectors/src/filesystem/connector-catalog.ts), the health   *)
(* diagnostics and the catalog snapshot built from it.  A catalog object   *)
(* lists the connector directories once, in its constructor, and reads a   *)
(* manifest the first time it is asked for it: what it read stays in       *)
(* #records for the life of the object, what it failed to read does not.   *)
(*                                                                         *)
(* A manifest file is abstracted to what these operations tell apart: its  *)
(* kind, the connector id and version it declares, whether it is           *)
(* selectable, whether the facts in it are sound (approved review, no      *)
(* blockers, versions and licenses resolved), and whether the files it     *)
(* says are present are named inside its directory.                        *)
(***************************************************************************)
EXTENDS Naturals, Sequences, FiniteSets, SequencesExt

CONSTANTS
  DirectoryIds        \* the connector directories, in their sorted order

Directories == ToSet(DirectoryIds)

ASSUME ConnectorCatalogAssumption == DirectoryIds \in Seq(Directories)

(* What readFileSync and JSON.parse make of a manifest file that cannot be *)
(* used: it is missing, or unreadable, malformed or against the contract.  *)
Unusable == {"missing", "invalid"}

IsV2(record) == record.kind = "schema-v2"

(* #loadRecord: the record kept from an earlier call, else the one made    *)
(* from the manifest as it is now; an unusable manifest throws and is not  *)
(* kept.                                                                   *)
Loads(records, d, file) == d \in DOMAIN records \/ file.kind \notin Unusable

LoadRecord(records, d, file) ==
  IF d \in DOMAIN records THEN records[d] ELSE file

(* Mutant of KeepRecord: every call reads the manifest again.              *)
KeepNothing(records, d, file) == records

KeepRecord(records, d, file) ==
  IF Loads(records, d, file)
    THEN [e \in DOMAIN records \cup {d} |->
            IF e \in DOMAIN records THEN records[e] ELSE file]
    ELSE records

(* #assertUniqueConnectorIds: no two directories declare one connector.    *)
UniqueConnectorIds(records) ==
  \A d, e \in DOMAIN records :
    /\ IsV2(records[d])
    /\ IsV2(records[e])
    /\ records[d].id = records[e].id
    => d = e

(* buildCatalogSnapshot: an entry for each schema-v2 connector, with the   *)
(* digest of its whole manifest; legacy connectors are left out.  The      *)
(* snapshot id is the digest of the entries and of the capability catalog  *)
(* (which the constructor read), and not of createdAt.                     *)
SnapshotEntry(record) == [id |-> record.id, digest |-> record]

Manifests(records) == {records[d] : d \in {e \in DOMAIN records : IsV2(records[e])}}

SnapshotEntries(records) == {SnapshotEntry(m) : m \in Manifests(records)}

Snapshot(records, createdAt) ==
  [snapshotId |-> SnapshotEntries(records), createdAt |-> createdAt,
   connectors |-> SnapshotEntries(records)]

(* evaluateConnectorHealth: what the manifest says, and whether the files  *)
(* it names are on disk at the time of the call.                           *)
HealthState(record, filesPresent) ==
  CASE record.kind = "legacy" -> "legacy"
    [] /\ IsV2(record)
       /\ record.sound
       /\ record.selectable
       /\ filesPresent -> "healthy"
    [] OTHER -> "blocked"

(* The directory get and health take an id for: the directory of that      *)
(* name, whatever its manifest declares, else the first whose manifest     *)
(* declares it.                                                            *)
FirstDeclaring(records, id) ==
  SelectInSeq(DirectoryIds,
              LAMBDA d : /\ d \in DOMAIN records
                         /\ IsV2(records[d])
                         /\ records[d].id = id)
=============================================================================
