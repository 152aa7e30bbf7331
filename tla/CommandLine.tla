---------------------------- MODULE CommandLine ----------------------------
(***************************************************************************)
(* Processes that run the CLI's commands over one workspace                *)
(* (packages/cli/src/run.ts): lock create, lock check, catalog snapshot    *)
(* and plan create.  A command is synchronous in its process, but the      *)
(* processes, and whoever edits the workspace, interleave between any two  *)
(* of its system calls: every input and every manifest is read in a step   *)
(* of its own, and a file is written by opening a temporary file, filling  *)
(* it and renaming it.  A process may die between any two steps.           *)
(*                                                                         *)
(* A lock command may also be one of a program that calls LockfileService  *)
(* itself, and gives it the connectors of its catalog (the CLI gives       *)
(* none).  The workspace holds no symbolic links, and no output path has a *)
(* "..": the guards against those never refuse.                            *)
(***************************************************************************)
EXTENDS ConnectorCatalog, Lockfile

CONSTANTS
  Processes,
  Commands,          \* the commands a process may run
  Versions,          \* the values of an input
  InitialInputs,     \* the inputs a workspace may start with
  Unreadable,        \* an input that cannot be read, or fails its contract
  NoRoute,           \* the route plan bound when none is given
  Running,           \* the exit code of a command that has not ended
  ManifestsOf,       \* [Directories -> the manifest files that may be there]
  MaxCommands,       \* bound: commands started
  MaxEdits           \* bound: edits of the workspace

VARIABLES
  disk,              \* [Directories -> manifest file]
  inputs,            \* [InputNames -> version]
  files,             \* the output and temporary files there are, with their inode
  contents,          \* [inode -> content]
  rows,              \* the table catalog_snapshots, by snapshot id
  process,           \* [Processes -> the state of the command it runs]
  started,           \* commands started: also the time a command starts
  edits

vars == <<disk, inputs, files, contents, rows, process, started, edits>>

(* inspectProject, PolicyResolver.resolve and loadProjectConfig are each   *)
(* taken as one read of one input; "request" is the planning request.      *)
InputNames == {"project", "policy", "config", "route", "request"}

ASSUME CommandLineAssumption ==
  /\ MaxCommands \in Nat
  /\ Directories \cap InputNames = {}

Empty == [holds |-> "nothing"]     \* the content of a file opened for writing
Mixed == [holds |-> "fragments"]   \* the content of a file two processes wrote to

Inodes == 1..MaxCommands           \* an inode is named after the command that made it
LockOutput == <<"lock", 0>>
PlanOutput == <<"plan", 0>>

Fresh ==
  [pc |-> "idle", command |-> [name |-> "none"], number |-> 0, todo |-> <<>>,
   read |-> <<>>, records |-> <<>>, lock |-> Empty, inode |-> 0,
   exit |-> Running, quiet |-> TRUE]

IsLockCommand(c) == c.name \in {"lock create", "lock check"}

(* What a command reads, in order: computeCurrentInputs for the lock       *)
(* commands, the connector list for a snapshot, the request for a plan.    *)
ReadsOf(c) ==
  CASE IsLockCommand(c) ->
         <<"project">> \o DirectoryIds \o <<"policy", "config">>
           \o (IF c.route THEN <<"route">> ELSE <<>>)
    [] c.name = "catalog snapshot" -> DirectoryIds
    [] c.name = "plan create" -> <<"request">>

Output(c) == IF c.name = "lock create" THEN LockOutput ELSE PlanOutput

(* Mutant of TempOf: one temporary name for every lock.                    *)
TempShared(c, number) ==
  IF c.name = "lock create" THEN <<"lock.tmp", 0>> ELSE <<"plan.tmp", 0>>

(* The temporary sibling: NodeFileSystem.writeFileAtomic puts the process  *)
(* id and a random suffix in its name, atomicWrite always takes ".tmp".    *)
TempOf(c, number) ==
  IF c.name = "lock create" THEN <<"lock.tmp", number>> ELSE <<"plan.tmp", 0>>

(* computeCurrentInputs: what was read, the route plan "" when none was    *)
(* asked for.                                                              *)
CurrentInputs(read, records) ==
  [b \in Bound |->
     CASE b = "catalog" -> SnapshotEntries(records)
       [] b = "route" /\ b \notin DOMAIN read -> NoRoute
       [] OTHER -> read[b]]

(* The connectors a program selects from the records of its catalog.       *)
Selected(records) ==
  {[id |-> m.id, connectorVersion |-> m.version, integrations |-> m.integrations] :
     m \in Manifests(records)}

(* What a process that finished its reads compares a lock with.            *)
Current(s) ==
  LET bound == CurrentInputs(s.read, s.records)
  IN IF s.command.connectors
       THEN [bound |-> bound, connectors |-> Selected(s.records)]
       ELSE [bound |-> bound]

(* The content a command writes: a lock, or a plan, which is a function of *)
(* its request.                                                            *)
Written(s) ==
  IF s.command.name = "lock create"
    THEN CreateLock(CurrentInputs(s.read, s.records),
                    IF s.command.connectors THEN Selected(s.records) ELSE {},
                    s.number)
    ELSE [plan |-> s.read["request"]]

Exit(p, code) == process' = [process EXCEPT ![p].pc = "done", ![p].exit = code]

At(p, pc) == process[p].pc = pc

(***************************************************************************)
(* The steps of a command.                                                 *)
(***************************************************************************)

(* runCli: a process starts a command; a lock or a plan command first      *)
(* looks at its file.                                                      *)
Start(p, c) ==
  /\ process[p].pc \in {"idle", "done"}
  /\ started < MaxCommands
  /\ started' = started + 1
  /\ process' = [process EXCEPT ![p] =
       [Fresh EXCEPT !.command = c, !.number = started + 1, !.todo = ReadsOf(c),
                     !.pc = IF IsLockCommand(c) THEN "look" ELSE "read"]]
  /\ UNCHANGED <<disk, inputs, files, contents, rows, edits>>

(* lock create refuses an output that exists, unless forced.               *)
LookBeforeCreate(p) ==
  /\ At(p, "look")
  /\ process[p].command.name = "lock create"
  /\ IF LockOutput \in DOMAIN files /\ ~process[p].command.force
       THEN Exit(p, 1)
       ELSE process' = [process EXCEPT ![p].pc = "read"]
  /\ UNCHANGED <<disk, inputs, files, contents, rows, started, edits>>

(* lock check reads the lock: one that is missing, that does not parse or  *)
(* that is not valid ends the command.                                     *)
LookBeforeCheck(p) ==
  /\ At(p, "look")
  /\ process[p].command.name = "lock check"
  /\ IF /\ LockOutput \in DOMAIN files
        /\ contents[files[LockOutput]] \notin {Empty, Mixed}
        /\ ValidLock(contents[files[LockOutput]])
       THEN process' = [process EXCEPT ![p].pc = "read",
                                       ![p].lock = contents[files[LockOutput]]]
       ELSE Exit(p, 1)
  /\ UNCHANGED <<disk, inputs, files, contents, rows, started, edits>>

ReadInput(p) ==
  /\ At(p, "read")
  /\ process[p].todo # <<>>
  /\ LET i == Head(process[p].todo)
     IN /\ i \in InputNames
        /\ IF inputs[i] = Unreadable
             THEN Exit(p, 1)
             ELSE process' = [process EXCEPT ![p].todo = Tail(@),
                    ![p].read = [j \in DOMAIN @ \cup {i} |->
                                   IF j = i THEN inputs[i] ELSE @[j]]]
  /\ UNCHANGED <<disk, inputs, files, contents, rows, started, edits>>

(* #loadRecord for the next directory.  After the last, list refuses       *)
(* connectors declared twice.                                              *)
ReadManifest(p) ==
  /\ At(p, "read")
  /\ process[p].todo # <<>>
  /\ LET d == Head(process[p].todo)
         kept == KeepRecord(process[p].records, d, disk[d])
     IN /\ d \in Directories
        /\ IF \/ ~Loads(process[p].records, d, disk[d])
              \/ d = Last(DirectoryIds) /\ ~UniqueConnectorIds(kept)
             THEN Exit(p, 1)
             ELSE process' = [process EXCEPT ![p].todo = Tail(@), ![p].records = kept]
  /\ UNCHANGED <<disk, inputs, files, contents, rows, started, edits>>

(* lock check: exit 0 when nothing critical drifted.                       *)
Compare(p) ==
  /\ At(p, "read")
  /\ process[p].todo = <<>>
  /\ process[p].command.name = "lock check"
  /\ Exit(p, IF InSync(process[p].lock, Current(process[p])) THEN 0 ELSE 1)
  /\ UNCHANGED <<disk, inputs, files, contents, rows, started, edits>>

(* SqliteCatalogSnapshotStore.save: insert, or on a conflict update the    *)
(* row of the snapshot's id.  The time was taken before the manifests were *)
(* read.                                                                   *)
Save(p) ==
  /\ At(p, "read")
  /\ process[p].todo = <<>>
  /\ process[p].command.name = "catalog snapshot"
  /\ LET s == Snapshot(process[p].records, process[p].number)
     IN rows' = [id \in DOMAIN rows \cup {s.snapshotId} |->
                   IF id = s.snapshotId THEN s ELSE rows[id]]
  /\ Exit(p, 0)
  /\ UNCHANGED <<disk, inputs, files, contents, started, edits>>

(* writeFileSync opens the temporary file: a new one, or the one of that   *)
(* name, which it empties.                                                 *)
OpenTemp(p) ==
  /\ At(p, "read")
  /\ process[p].todo = <<>>
  /\ process[p].command.name \in {"lock create", "plan create"}
  /\ LET temp  == TempOf(process[p].command, process[p].number)
         inode == IF temp \in DOMAIN files THEN files[temp] ELSE process[p].number
     IN /\ files' = [f \in DOMAIN files \cup {temp} |->
                       IF f = temp THEN inode ELSE files[f]]
        /\ contents' = [contents EXCEPT ![inode] = Empty]
        /\ process' = [process EXCEPT ![p].pc = "fill", ![p].inode = inode]
  /\ UNCHANGED <<disk, inputs, rows, started, edits>>

(* It writes what it has to write, over what another process wrote since.  *)
FillTemp(p) ==
  /\ At(p, "fill")
  /\ LET w == Written(process[p])
         i == process[p].inode
     IN \E c \in IF contents[i] \in {Empty, w} THEN {w} ELSE {w, Mixed} :
          contents' = [contents EXCEPT ![i] = c]
  /\ process' = [process EXCEPT ![p].pc = "rename"]
  /\ UNCHANGED <<disk, inputs, files, rows, started, edits>>

(* renameSync, which throws when the temporary file is gone.               *)
RenameTemp(p) ==
  /\ At(p, "rename")
  /\ LET temp == TempOf(process[p].command, process[p].number)
         out  == Output(process[p].command)
     IN IF temp \in DOMAIN files
          THEN /\ files' = [f \in (DOMAIN files \cup {out}) \ {temp} |->
                              IF f = out THEN files[temp] ELSE files[f]]
               /\ Exit(p, 0)
          ELSE UNCHANGED files /\ Exit(p, 1)
  /\ UNCHANGED <<disk, inputs, contents, rows, started, edits>>

(* The process dies.                                                       *)
Die(p) ==
  /\ process[p].pc \notin {"idle", "done"}
  /\ process' = [process EXCEPT ![p] = Fresh]
  /\ UNCHANGED <<disk, inputs, files, contents, rows, started, edits>>

(***************************************************************************)
(* Edits of the workspace, by hand or by another tool.  A command that     *)
(* runs meanwhile is no longer quiet.                                      *)
(***************************************************************************)
Disturb == process' = [p \in Processes |-> [process[p] EXCEPT !.quiet = FALSE]]

EditInput(i, v) ==
  /\ edits < MaxEdits
  /\ inputs[i] # v
  /\ inputs' = [inputs EXCEPT ![i] = v]
  /\ edits' = edits + 1
  /\ Disturb
  /\ UNCHANGED <<disk, files, contents, rows, started>>

EditManifest(d, m) ==
  /\ edits < MaxEdits
  /\ disk[d] # m
  /\ disk' = [disk EXCEPT ![d] = m]
  /\ edits' = edits + 1
  /\ Disturb
  /\ UNCHANGED <<inputs, files, contents, rows, started>>

Init ==
  /\ disk \in [Directories -> UNION {ManifestsOf[d] : d \in Directories}]
  /\ \A d \in Directories : disk[d] \in ManifestsOf[d]
  /\ inputs \in InitialInputs
  /\ files = <<>>
  /\ contents = [i \in Inodes |-> Empty]
  /\ rows = <<>>
  /\ process = [p \in Processes |-> Fresh]
  /\ started = 0
  /\ edits = 0

Next ==
  \/ \E p \in Processes :
       \/ \E c \in Commands : Start(p, c)
       \/ LookBeforeCreate(p) \/ LookBeforeCheck(p)
       \/ ReadInput(p) \/ ReadManifest(p)
       \/ Compare(p) \/ Save(p)
       \/ OpenTemp(p) \/ FillTemp(p) \/ RenameTemp(p)
       \/ Die(p)
  \/ \E i \in InputNames, v \in Versions \cup {Unreadable} : EditInput(i, v)
  \/ \E d \in Directories : \E m \in ManifestsOf[d] : EditManifest(d, m)

Spec == Init /\ [][Next]_vars

(***************************************************************************)
(* Properties.                                                             *)
(***************************************************************************)

(* Whatever processes write it, and wherever they die, the lock file holds *)
(* one whole lock whose digest is right (writeFileAtomic: "so readers      *)
(* never observe a partially written file").                               *)
LockFileIsWhole ==
  LockOutput \in DOMAIN files =>
    /\ contents[files[LockOutput]] \notin {Empty, Mixed}
    /\ ValidLock(contents[files[LockOutput]])

(* What the workspace holds now, and whether it can all be read.           *)
WorkspaceInputs ==
  [b \in Bound |-> IF b = "catalog" THEN SnapshotEntries(disk) ELSE inputs[b]]

(* lock check tells the truth of a workspace nobody edits while it runs:   *)
(* it exits 0 just when the lock it read binds every input as it is; and   *)
(* the connectors the lock names are then there as it names them, although *)
(* compare looks at no version of theirs.                                  *)
CheckTellsDrift ==
  \A p \in Processes :
    LET s == process[p]
    IN (s.pc = "done" /\ s.command.name = "lock check" /\ s.quiet /\ s.todo = <<>>
          /\ s.lock # Empty /\ s.command.route) =>
         /\ s.exit = 0 => s.lock.bound = WorkspaceInputs
         /\ s.exit = 0 => s.lock.connectors \subseteq Selected(disk)
         /\ s.lock.bound = WorkspaceInputs => s.exit = 0
=============================================================================
