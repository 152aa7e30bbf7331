---------------------------- MODULE ApplyService ----------------------------
(***************************************************************************)
(* DefaultApplyService (apply-service.ts) over sandboxes kept in temporary *)
(* directories (temp-dir-sandbox.ts).                                      *)
(*                                                                         *)
(* prepare, cancel and the part of apply before its first await run        *)
(* without a break.  From then on every stretch of apply between two       *)
(* awaits is an action, so that other runs, cancellations, preparations,   *)
(* the sandbox's time limit and a restart of the process may fall in       *)
(* between.  What the service remembers is lost with the process; what is  *)
(* in a sandbox stays.                                                     *)
(***************************************************************************)
EXTENDS Integers, FiniteSets, Sequences

CONSTANTS
    Inputs,       \* what prepare may be given (PrepareApplyInput)
    Preparations, \* the preparation objects prepare returns
    Runs,         \* the invocations of apply
    SandboxIds,   \* the sandboxes, kept from one session to the next
    Paths,        \* the paths of files and directories in a sandbox
    Ancestors,    \* for each path, the directories above it
    Contents,     \* the contents a file may have
    InitialTrees, \* what a sandbox may hold at first
    RunIdOf,      \* the run id of a nonce: its first 16 characters
    MaxTime,      \* bound: the last time the clock shows
    MaxRestarts,  \* bound: how often the process restarts
    MaxRollbacks, \* bound: for how many run ids rollback() is called
    IoMayFail     \* whether sink, sandbox creation, reads and writes may fail

VARIABLES
    clock,
    prepared,         \* what each preparation object holds, once prepared
    stored,           \* #preparations: the one kept for each run id
    usedApprovals,    \* #usedApprovals
    cancelledRuns,    \* #cancelledRuns
    rollbackContents, \* #rollbackContents: the run whose map is kept
    crashStates,      \* #crashStates: the run ids with a crash record
    rollbackThrew,    \* run ids for which rollback() has been called, and threw
    trees,            \* the contents of each sandbox
    runs,             \* the local state of each invocation of apply
    restarts

memory == <<stored, usedApprovals, cancelledRuns, rollbackContents, crashStates>>

vars == <<clock, prepared, memory, rollbackThrew, trees, runs, restarts>>

Absent == "absent"
Directory == "directory"
Trees == [Paths -> {Absent, Directory} \cup Contents]

Nonces == {input.nonce : input \in Inputs}
RunIds == {RunIdOf[nonce] : nonce \in Nonces}
Operations ==
    [operation : {"create-file", "replace-file", "delete-file"},
     path : Paths, content : Contents]

\* What is above an entry of a file system is a directory.
SoundTree(tree) ==
    \A p \in Paths : tree[p] # Absent => \A a \in Ancestors[p] : tree[a] = Directory

\* binds: the integrity, plan, project, policy, command, network, limit and
\* workspace checks pass; permitted: the operation gates pass.
ASSUME ApplyAssumption ==
    /\ MaxTime \in Nat
    /\ MaxRestarts \in Nat
    /\ MaxRollbacks \in Nat
    /\ IoMayFail \in BOOLEAN
    /\ Absent \notin Contents /\ Directory \notin Contents
    /\ InitialTrees \subseteq Trees
    /\ \A tree \in InitialTrees : SoundTree(tree)
    /\ Ancestors \in [Paths -> SUBSET Paths]
    /\ \A p \in Paths : p \notin Ancestors[p]
    /\ \A p \in Paths : \A a \in Ancestors[p] :
        /\ Ancestors[a] \subseteq Ancestors[p]
        /\ \A b \in Ancestors[p] : a = b \/ a \in Ancestors[b] \/ b \in Ancestors[a]
    /\ Nonces \subseteq DOMAIN RunIdOf
    /\ \A input \in Inputs :
        /\ input.operations \in Seq(Operations)
        /\ input.maxOperations \in Nat
        /\ input.limit \in Nat
        /\ input.expiresAt \in 0..MaxTime
        /\ input.binds \in BOOLEAN
        /\ input.permitted \in BOOLEAN
        /\ input.binds => input.limit <= input.maxOperations

\* preparation, sandbox, before and reads (the run whose prior contents the
\* rollback reads) are optional: sets of at most one element.
\* Not in the code: epoch, the life of the process the run belongs to, and
\* faults, what failed for no reason the tree gives where it matters to the
\* rollback.
NewRun ==
    [pc |-> "idle", preparation |-> {}, sandbox |-> {}, maxOperations |-> 0,
     used |-> 0, timedOut |-> FALSE, before |-> {}, index |-> 1, prior |-> Absent,
     priors |-> <<>>, applied |-> 0, failed |-> FALSE, pending |-> 0,
     reads |-> {}, removing |-> {}, unreverted |-> FALSE,
     rolledBack |-> FALSE, rollbackFailed |-> FALSE,
     status |-> "none", epoch |-> 0, faults |-> {}]

-----------------------------------------------------------------------------
(* Sandbox sessions *)

The(set) == CHOOSE x \in set : TRUE

Files(tree) == {p \in Paths : tree[p] \notin {Absent, Directory}}

\* read: a path that holds no file is an error, which captureBefore makes null.
FileAt(tree, p) == IF p \in Files(tree) THEN tree[p] ELSE Absent

WithDirectories(tree, p) ==
    [q \in Paths |-> IF q \in Ancestors[p] THEN Directory ELSE tree[q]]

\* The session refuses: the time limit first, which does not count the call.
Counted(run) == IF run.timedOut THEN run.used ELSE run.used + 1
Starved(run) == run.timedOut \/ run.used >= run.maxOperations

\* write: the directories above the file are made before anything else can go
\* wrong (byte and file limits, a target that changed, I/O: fault).
Written(tree, p, content) ==
    IF Ancestors[p] \cap Files(tree) # {}
    THEN [tree |-> tree, ok |-> FALSE, fault |-> FALSE]
    ELSE IF tree[p] = Directory
    THEN [tree |-> WithDirectories(tree, p), ok |-> FALSE, fault |-> FALSE]
    ELSE [tree |-> [WithDirectories(tree, p) EXCEPT ![p] = content],
          ok |-> TRUE, fault |-> FALSE]

WriteFaults(tree, p) ==
    IF IoMayFail /\ Ancestors[p] \cap Files(tree) = {}
    THEN {[tree |-> WithDirectories(tree, p), ok |-> FALSE, fault |-> TRUE]}
    ELSE {}

Write(run, tree, p, content) ==
    IF Starved(run)
    THEN {[tree |-> tree, ok |-> FALSE, fault |-> FALSE]}
    ELSE {Written(tree, p, content)} \cup WriteFaults(tree, p)

\* remove: a file, or a directory with nothing in it.
Removable(tree, p) ==
    /\ tree[p] # Absent
    /\ ~ \E q \in Paths : p \in Ancestors[q] /\ tree[q] # Absent

Removed(run, tree, p) ==
    IF Removable(tree, p) /\ ~Starved(run) THEN [tree EXCEPT ![p] = Absent] ELSE tree

-----------------------------------------------------------------------------
(* Pieces of prepare and apply *)

InputOf(p) == The(prepared[p]).input
RunIdFor(p) == RunIdOf[InputOf(p).nonce]

NonceOf(r) == InputOf(The(runs[r].preparation)).nonce
RunId(r) == RunIdOf[NonceOf(r)]
Plan(r) == InputOf(The(runs[r].preparation)).operations
Operation(r) == Plan(r)[runs[r].index]
SandboxOf(r) == The(runs[r].sandbox)
Tree(r) == trees[SandboxOf(r)]
Before(r) == The(runs[r].before)
Cancelled(r) == RunId(r) \in cancelledRuns

\* The awaits of a run on which it may be suspended.
InProgress(r) ==
    runs[r].pc \in {"started", "opened", "looping", "captured", "looped",
                    "rollback", "closing"}

Unexpired(input) == clock <= input.expiresAt

Ready(input) ==
    /\ input.binds
    /\ Unexpired(input)
    /\ input.permitted
    /\ input.nonce \notin usedApprovals

\* The preparation is the stored one, and the bindings hold at this moment.
Accepted(p) ==
    /\ stored[RunIdFor(p)] = {p}
    /\ ~The(prepared[p]).consumed
    /\ InputOf(p).binds
    /\ Unexpired(InputOf(p))

CanStart(p) ==
    /\ The(prepared[p]).ready
    /\ RunIdFor(p) \notin cancelledRuns
    /\ InputOf(p).nonce \notin usedApprovals

\* Mutant: the nonce is not reserved before the first await.
ReservedLater(p) == usedApprovals

Reserved(p) == usedApprovals \cup {InputOf(p).nonce}

Consumed(p) ==
    [prepared EXCEPT ![p] = {[The(@) EXCEPT !.consumed = TRUE]}]

\* The sandbox policy is looked up again, by run id, when the session opens.
PolicyOf(r) == InputOf(The(stored[RunId(r)])).maxOperations

Step(r, run) == runs' = [runs EXCEPT ![r] = run]
Threw(run) == [run EXCEPT !.pc = "threw"]
Failed(run) == [run EXCEPT !.pc = "looped", !.failed = TRUE]

\* The loop over the operations, at index.
LoopAt(r, run, index) ==
    [run EXCEPT !.index = index,
                !.pc = IF index > Len(Plan(r)) THEN "looped" ELSE "looping"]

\* Mutant: the content of the file is not kept.
RecordsNoContent(run) == [run EXCEPT !.priors = Append(@, Absent)]

\* recordRollback, before the operation is carried out.
Recorded(run) == [run EXCEPT !.priors = Append(@, run.prior)]

\* The directories above a created file that were not there before the run.
NewDirectories(r, p) == {d \in Ancestors[p] : Before(r)[d] # Directory}

\* Mutant: the directories made on the way to the file are left.
CreatedFileOnly(r, i) == {Plan(r)[i].path}

\* What reverting operation i removes, when there was no file before it.
Created(r, i) == {Plan(r)[i].path} \cup NewDirectories(r, Plan(r)[i].path)

-----------------------------------------------------------------------------
(* prepare, cancel, rollback *)

Prepare(p, input) ==
    /\ prepared[p] = {}
    /\ prepared' = [prepared EXCEPT ![p] =
            {[input |-> input, ready |-> Ready(input), consumed |-> FALSE]}]
    /\ stored' = [stored EXCEPT ![RunIdOf[input.nonce]] = {p}]
    /\ UNCHANGED <<clock, usedApprovals, cancelledRuns, rollbackContents,
                   crashStates, rollbackThrew, trees, runs, restarts>>

Cancel(id) ==
    /\ cancelledRuns' = cancelledRuns \cup {id}
    /\ UNCHANGED <<clock, prepared, stored, usedApprovals, rollbackContents,
                   crashStates, rollbackThrew, trees, runs, restarts>>

\* rollback() opens its session without a run id, for which there is no policy.
Rollback(id) ==
    /\ Cardinality(rollbackThrew) < MaxRollbacks
    /\ rollbackThrew' = rollbackThrew \cup {id}
    /\ UNCHANGED <<clock, prepared, memory, trees, runs, restarts>>

-----------------------------------------------------------------------------
(* apply, from await to await *)

Refuse(r, p) ==
    /\ runs[r].pc = "idle" /\ prepared[p] # {}
    /\ ~Accepted(p)
    /\ Step(r, [runs[r] EXCEPT !.pc = "refused"])
    /\ UNCHANGED <<clock, prepared, memory, rollbackThrew, trees, restarts>>

\* Not ready, cancelled, replayed, or given no sandbox id: the preparation is
\* spent, the nonce is not.
RefuseConsumed(r, p) ==
    /\ runs[r].pc = "idle" /\ prepared[p] # {}
    /\ Accepted(p)
    /\ prepared' = Consumed(p)
    /\ Step(r, [runs[r] EXCEPT !.pc = "refused"])
    /\ UNCHANGED <<clock, memory, rollbackThrew, trees, restarts>>

Start(r, p, s) ==
    /\ runs[r].pc = "idle" /\ prepared[p] # {}
    /\ Accepted(p)
    /\ CanStart(p)
    /\ prepared' = Consumed(p)
    /\ usedApprovals' = Reserved(p)
    /\ rollbackContents' = [rollbackContents EXCEPT ![RunIdFor(p)] = {r}]
    /\ Step(r, [runs[r] EXCEPT !.pc = "started", !.preparation = {p},
                               !.sandbox = {s}, !.epoch = restarts])
    /\ UNCHANGED <<clock, stored, cancelledRuns, crashStates, rollbackThrew,
                   trees, restarts>>

OpenSandbox(r) ==
    /\ runs[r].pc = "started"
    /\ Step(r, [runs[r] EXCEPT !.pc = "opened", !.maxOperations = PolicyOf(r)])
    /\ UNCHANGED <<clock, prepared, memory, rollbackThrew, trees, restarts>>

SnapshotBefore(r) ==
    /\ runs[r].pc = "opened"
    /\ Step(r, LoopAt(r, [runs[r] EXCEPT !.before = {Tree(r)}], 1))
    /\ UNCHANGED <<clock, prepared, memory, rollbackThrew, trees, restarts>>

\* An evidence append or a sandbox creation that fails outside the loop ends
\* the run without a result.
Throw(r) ==
    /\ IoMayFail
    /\ runs[r].pc \in {"started", "opened"}
    /\ Step(r, Threw(runs[r]))
    /\ UNCHANGED <<clock, prepared, memory, rollbackThrew, trees, restarts>>

\* The head of the loop: the cancellation check, then captureBefore.
Capture(r) ==
    /\ runs[r].pc = "looping"
    /\ ~Cancelled(r)
    /\ \/ Step(r, [runs[r] EXCEPT !.pc = "captured",
                                  !.prior = FileAt(Tree(r), Operation(r).path)])
       \/ /\ IoMayFail
          /\ Operation(r).path \in Files(Tree(r))
          /\ Step(r, [runs[r] EXCEPT !.pc = "captured", !.prior = Absent,
                                     !.faults = @ \cup {"read"}])
    /\ UNCHANGED <<clock, prepared, memory, rollbackThrew, trees, restarts>>

Skip(r) ==
    /\ runs[r].pc = "looping"
    /\ Cancelled(r)
    /\ Step(r, Failed(runs[r]))
    /\ crashStates' = crashStates \cup {RunId(r)}
    /\ UNCHANGED <<clock, prepared, stored, usedApprovals, cancelledRuns,
                   rollbackContents, rollbackThrew, trees, restarts>>

\* Mutant: a content that is not there yet is asked for again.
DriftRetries(r) ==
    /\ runs[r].pc = "captured"
    /\ Operation(r).operation = "delete-file" => runs[r].prior = Absent
    /\ Step(r, LoopAt(r, runs[r], runs[r].index))
    /\ UNCHANGED <<clock, prepared, memory, rollbackThrew, trees, restarts>>

\* The content is not available or not what the plan says; or there is
\* nothing to delete.
Drift(r) ==
    /\ runs[r].pc = "captured"
    /\ Operation(r).operation = "delete-file" => runs[r].prior = Absent
    /\ Step(r, Failed(runs[r]))
    /\ crashStates' = crashStates \cup {RunId(r)}
    /\ UNCHANGED <<clock, prepared, stored, usedApprovals, cancelledRuns,
                   rollbackContents, rollbackThrew, trees, restarts>>

\* What carrying out the operation may come to.
Outcomes(r) ==
    IF Operation(r).operation = "delete-file"
    THEN {[tree |-> Removed(runs[r], Tree(r), Operation(r).path),
           ok |-> ~Starved(runs[r]) /\ Removable(Tree(r), Operation(r).path)]}
         \cup IF IoMayFail THEN {[tree |-> Tree(r), ok |-> FALSE]} ELSE {}
    ELSE {[tree |-> w.tree, ok |-> w.ok] :
            w \in Write(runs[r], Tree(r), Operation(r).path, Operation(r).content)}

Mutate(r) ==
    /\ runs[r].pc = "captured"
    /\ Operation(r).operation = "delete-file" => runs[r].prior # Absent
    /\ \E outcome \in Outcomes(r) :
        LET run == [Recorded(runs[r]) EXCEPT !.used = Counted(runs[r])]
        IN
        /\ trees' = [trees EXCEPT ![SandboxOf(r)] = outcome.tree]
        /\ IF outcome.ok
           THEN /\ Step(r, LoopAt(r, [run EXCEPT !.applied = @ + 1], run.index + 1))
                /\ UNCHANGED crashStates
           ELSE /\ Step(r, Failed(run))
                /\ crashStates' = crashStates \cup {RunId(r)}
    /\ UNCHANGED <<clock, prepared, stored, usedApprovals, cancelledRuns,
                   rollbackContents, rollbackThrew, restarts>>

\* After the loop and its snapshot: is there anything to roll back?
MustRollBack(r) == runs[r].failed \/ Cancelled(r)

Decide(r) ==
    /\ runs[r].pc = "looped"
    /\ Step(r, IF MustRollBack(r)
               THEN [runs[r] EXCEPT !.pc = "rollback", !.rolledBack = TRUE,
                                    !.pending = Len(runs[r].priors),
                                    !.reads = rollbackContents[RunId(r)]]
               ELSE [runs[r] EXCEPT !.pc = "closing"])
    /\ UNCHANGED <<clock, prepared, memory, rollbackThrew, trees, restarts>>

-----------------------------------------------------------------------------
(* #rollbackInSandbox: the records from the last to the first, then the *)
(* comparison with the snapshot taken before                             *)

\* The prior contents, which were looked up by run id, not by run.
Priors(r) == runs[The(runs[r].reads)].priors

NextRecord(r) == runs[r].pending

Reverted(run) == [run EXCEPT !.pending = @ - 1]

RevertMissing(r) ==
    /\ runs[r].pc = "rollback" /\ runs[r].pending > 0
    /\ NextRecord(r) \notin DOMAIN Priors(r)
    /\ Step(r, Reverted([runs[r] EXCEPT !.unreverted = TRUE]))
    /\ UNCHANGED <<clock, prepared, memory, rollbackThrew, trees, restarts>>

\* The removals still to be made for the record, the deepest path first; an
\* error of one is ignored.
Removals(r) ==
    IF runs[r].removing = {} THEN Created(r, NextRecord(r)) ELSE runs[r].removing

RevertCreated(r) ==
    /\ runs[r].pc = "rollback" /\ runs[r].pending > 0
    /\ NextRecord(r) \in DOMAIN Priors(r)
    /\ Priors(r)[NextRecord(r)] = Absent
    /\ \E p \in Removals(r), fault \in {FALSE, IoMayFail} :
        /\ \A q \in Removals(r) : p \notin Ancestors[q]
        /\ trees' = [trees EXCEPT ![SandboxOf(r)] =
                        IF fault THEN @ ELSE Removed(runs[r], @, p)]
        /\ Step(r, [runs[r] EXCEPT
                !.used = Counted(runs[r]),
                !.faults = IF fault THEN @ \cup {"remove"} ELSE @,
                !.removing = Removals(r) \ {p},
                !.pending = IF Removals(r) = {p} THEN @ - 1 ELSE @])
    /\ UNCHANGED <<clock, prepared, memory, rollbackThrew, restarts>>

RevertReplaced(r) ==
    /\ runs[r].pc = "rollback" /\ runs[r].pending > 0
    /\ NextRecord(r) \in DOMAIN Priors(r)
    /\ Priors(r)[NextRecord(r)] # Absent
    /\ \E w \in Write(runs[r], Tree(r), Plan(r)[NextRecord(r)].path,
                      Priors(r)[NextRecord(r)]) :
        /\ trees' = [trees EXCEPT ![SandboxOf(r)] = w.tree]
        /\ Step(r, Reverted([runs[r] EXCEPT
                !.used = Counted(runs[r]),
                !.unreverted = @ \/ ~w.ok,
                !.faults = IF w.fault THEN @ \cup {"write"} ELSE @]))
    /\ UNCHANGED <<clock, prepared, memory, rollbackThrew, restarts>>

\* Mutant: the digests are not compared.
RestoredAssumed(r) == TRUE

Restored(r) == Tree(r) = Before(r)

Verify(r) ==
    /\ runs[r].pc = "rollback" /\ runs[r].pending = 0
    /\ \/ Step(r, [runs[r] EXCEPT !.pc = "closing",
                        !.rollbackFailed = runs[r].unreverted \/ ~Restored(r)])
       \/ /\ IoMayFail
          /\ \/ Step(r, [runs[r] EXCEPT !.pc = "closing", !.rollbackFailed = TRUE,
                                        !.faults = @ \cup {"snapshot"}])
             \/ Step(r, Threw(runs[r]))
    /\ UNCHANGED <<clock, prepared, memory, rollbackThrew, trees, restarts>>

StatusOf(r) ==
    IF Cancelled(r) THEN "cancelled"
    ELSE IF runs[r].rollbackFailed THEN "rollback-failed"
    ELSE IF runs[r].failed THEN "rolled-back"
    ELSE "applied"

\* After the sandbox is closed: the result, unless its evidence cannot be kept.
Complete(r) ==
    /\ runs[r].pc = "closing"
    /\ \/ Step(r, [runs[r] EXCEPT !.pc = "returned", !.status = StatusOf(r)])
       \/ IoMayFail /\ Step(r, Threw(runs[r]))
    /\ UNCHANGED <<clock, prepared, memory, rollbackThrew, trees, restarts>>

-----------------------------------------------------------------------------
(* The clock and the process *)

\* The session of the run exceeds maxDurationSeconds.
TimeOut(r) ==
    /\ InProgress(r) /\ ~runs[r].timedOut
    /\ runs[r].pc \in {"looping", "captured", "looped", "rollback"}
    /\ Step(r, [runs[r] EXCEPT !.timedOut = TRUE])
    /\ UNCHANGED <<clock, prepared, memory, rollbackThrew, trees, restarts>>

Tick ==
    /\ clock < MaxTime
    /\ clock' = clock + 1
    /\ UNCHANGED <<prepared, memory, rollbackThrew, trees, runs, restarts>>

Restart ==
    /\ restarts < MaxRestarts
    /\ restarts' = restarts + 1
    /\ stored' = [id \in RunIds |-> {}]
    /\ rollbackContents' = [id \in RunIds |-> {}]
    /\ usedApprovals' = {} /\ cancelledRuns' = {} /\ crashStates' = {}
    /\ runs' = [r \in Runs |-> IF InProgress(r)
                               THEN [runs[r] EXCEPT !.pc = "crashed"]
                               ELSE runs[r]]
    /\ UNCHANGED <<clock, prepared, rollbackThrew, trees>>

-----------------------------------------------------------------------------
Init ==
    /\ clock = 0
    /\ prepared = [p \in Preparations |-> {}]
    /\ stored = [id \in RunIds |-> {}]
    /\ usedApprovals = {}
    /\ cancelledRuns = {}
    /\ rollbackContents = [id \in RunIds |-> {}]
    /\ crashStates = {}
    /\ rollbackThrew = {}
    /\ trees \in [SandboxIds -> InitialTrees]
    /\ runs = [r \in Runs |-> NewRun]
    /\ restarts = 0

RunStep(r) ==
    \/ OpenSandbox(r) \/ SnapshotBefore(r) \/ Throw(r)
    \/ Capture(r) \/ Skip(r) \/ Drift(r) \/ Mutate(r) \/ Decide(r)
    \/ RevertMissing(r) \/ RevertCreated(r) \/ RevertReplaced(r)
    \/ Verify(r) \/ Complete(r)

Next ==
    \/ \E p \in Preparations, input \in Inputs : Prepare(p, input)
    \/ \E id \in RunIds : Cancel(id) \/ Rollback(id)
    \/ \E r \in Runs :
        \/ \E p \in Preparations :
            \/ Refuse(r, p)
            \/ RefuseConsumed(r, p)
            \/ \E s \in SandboxIds : Start(r, p, s)
        \/ RunStep(r)
        \/ TimeOut(r)
    \/ Tick
    \/ Restart

Spec == Init /\ [][Next]_vars

\* The run's next step waits for a promise of its caller, which nothing bounds
\* in time: an append to the evidence sink (before the sandbox is opened, after
\* its snapshot, after the reverts, and with the result), or a file's content.
AwaitsCaller(r) ==
    \/ runs[r].pc \in {"started", "opened", "closing"}
    \/ runs[r].pc = "rollback" /\ runs[r].pending = 0
    \/ runs[r].pc = "captured" /\ Operation(r).operation # "delete-file"

\* The promises of the sandbox settle, as long as the process lives: they are
\* operations of the file system.  The caller owes nothing.
FairSpec == Spec /\ \A r \in Runs : WF_vars(~AwaitsCaller(r) /\ RunStep(r))

-----------------------------------------------------------------------------
(* What the service promises *)

Started(r) == runs[r].preparation # {}

OwnSandbox(r) ==
    \A q \in Runs \ {r} : Started(q) => SandboxOf(q) # SandboxOf(r)

OwnRunId(r) == \A q \in Runs \ {r} : Started(q) => RunId(q) # RunId(r)

\* Every operation of the plan is on a place for a file.
Fits(r) ==
    \A i \in DOMAIN Plan(r) :
        /\ Before(r)[Plan(r)[i].path] # Directory
        /\ Ancestors[Plan(r)[i].path] \cap Files(Before(r)) = {}

\* The session has refused a call for its limits, or will.
Refused(r) == runs[r].timedOut \/ runs[r].used > runs[r].maxOperations

\* The plan carried out, as far as its n-th operation, on what was there before:
\* a path is as the last operation that has to do with it leaves it.
Concerns(operation, p) ==
    \/ p = operation.path
    \/ operation.operation # "delete-file" /\ p \in Ancestors[operation.path]

Leaves(operation, p) ==
    IF p # operation.path THEN Directory
    ELSE IF operation.operation = "delete-file" THEN Absent
    ELSE operation.content

CarriedOut(tree, before, plan, n) ==
    \A p \in Paths :
        \/ /\ \A i \in 1..n : ~Concerns(plan[i], p)
           /\ tree[p] = before[p]
        \/ \E i \in 1..n :
              /\ Concerns(plan[i], p)
              /\ \A j \in (i + 1)..n : ~Concerns(plan[j], p)
              /\ tree[p] = Leaves(plan[i], p)

Applied(r) == CarriedOut(Tree(r), Before(r), Plan(r), Len(Plan(r)))

\* As long as the process lives an approval nonce starts one run, whatever
\* apply calls race and however often the approval is prepared again.
NonceStartsOneRun ==
    \A r, q \in Runs :
        (Started(r) /\ Started(q) /\ r # q /\ NonceOf(r) = NonceOf(q))
            => runs[r].epoch # runs[q].epoch

\* The records of a run that no removal or write back has undone yet, and those
\* of them that a path has.
RecordsLeft(r) == IF runs[r].pc = "rollback" THEN runs[r].pending
                                             ELSE Len(runs[r].priors)
RecordsOf(r, p) == {i \in 1..RecordsLeft(r) : Plan(r)[i].path = p}

\* The records that have yet to be reverted account for every difference
\* between the sandbox and what it held before: each file that differs has a
\* record, the first of which keeps its old content; each directory that is
\* new is above such a file.  This holds in the middle of the loop, after an
\* operation that failed half way, and in the middle of the rollback.
DifferencesRecorded ==
    \A r \in Runs :
        (/\ runs[r].pc \in {"looping", "captured", "looped", "rollback"}
         /\ OwnSandbox(r) /\ Fits(r) /\ runs[r].faults = {}
         /\ runs[r].pc = "rollback" => OwnRunId(r) /\ ~Refused(r))
        => \A p \in Paths : Tree(r)[p] # Before(r)[p] =>
                \/ \E i \in RecordsOf(r, p) :
                    /\ \A j \in RecordsOf(r, p) : i <= j
                    /\ runs[r].priors[i] = Before(r)[p]
                \/ /\ Before(r)[p] = Absent /\ Tree(r)[p] = Directory
                   /\ \E i \in 1..RecordsLeft(r) : p \in Ancestors[Plan(r)[i].path]

\* A rollback inside the session's limits, in a sandbox and under a run id of
\* its own, succeeds unless a file operation itself failed.
RollbackSucceeds ==
    \A r \in Runs :
        (/\ runs[r].pc \in {"closing", "returned"} /\ runs[r].rolledBack
         /\ OwnSandbox(r) /\ OwnRunId(r) /\ Fits(r)
         /\ runs[r].faults = {} /\ ~Refused(r))
        => ~runs[r].rollbackFailed

\* What a result says of the sandbox: applied means the whole plan was carried
\* out, rolled-back that nothing of it is left, and recoverable (no failed
\* rollback) that it is one or the other, whatever failed or was refused, and
\* even when another run goes by the same run id.
AllOrNothing ==
    \A r \in Runs : (runs[r].pc = "returned" /\ OwnSandbox(r)) =>
        /\ runs[r].status = "applied" => Applied(r)
        /\ runs[r].status = "rolled-back" => Tree(r) = Before(r)
        /\ ~runs[r].rollbackFailed => Tree(r) = Before(r) \/ Applied(r)

\* A run that was started comes to an end, unless it waits for ever for a
\* promise of its caller: the loop and the rollback leave none suspended and
\* go round no operation again, and every revert that follows a refused content,
\* a failed operation or a cancellation is made without the caller.
RunsEnd ==
    \A r \in Runs :
        <>[]AwaitsCaller(r) \/ (InProgress(r) ~> ~InProgress(r))

-----------------------------------------------------------------------------
(* What documents and comments of the repository say *)

\* docs/THREAT-MODEL.md:317: cancelled runs roll back applied operations.
CancelledIsRolledBack ==
    \A r \in Runs :
        (runs[r].status = "cancelled" /\ runs[r].applied > 0) => runs[r].rolledBack
=============================================================================
