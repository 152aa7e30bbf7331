# Verification of the Soren SDK core

TLA+ models of the parts of the SDK whose correctness depends on the order in
which things happen, the TLC runs that check them on small instances, and
TLAPS proofs of the properties that hold for every size. File and line numbers
refer to this repository; `PROJECT.json` maps every definition to the lines it
stands for.

- [The system](#the-system): components, state, operations, hard behaviours
- [The modules](#the-modules): how state and actions correspond to the code
- [The runs](#the-runs): what is checked, within which bounds
- [The proofs](#the-proofs)
- [Disagreements](#where-the-code-and-its-documents-disagree)
- [What is not modelled](#what-is-not-modelled), [Plan](#plan)

## The system

Soren SDK lets an agent inspect a project, choose providers ("connectors") for
the capabilities it asks for, plan the changes, call provider tools under a
limited grant, and apply an approved plan in a sandbox. It is TypeScript on one
event loop per process. Nothing is preempted: an operation runs to its next
`await` without a break, and everything else may happen during the `await`.
Concurrency is therefore between the awaits of operations in flight, between
processes that share an SQLite file, and with the environment (time, provider
answers, abort signals, the file system).

| Component | State | Operations | Calls | Hard behaviours |
|---|---|---|---|---|
| Run grants, `core/src/run-grants.ts` | stored records (quota, counters, state, revision), open reservations | issue, authorize, reserveCall, commitCall, releaseCall, revoke, consume, expire | called by the gateway and by an issuer | calls in flight share one quota; settled in any order, or after the grant was closed |
| SQLite run grants, `core/src/sqlite-run-grants.ts` | two tables; the reserved counters are an aggregate over reservations | the same, each in one `BEGIN IMMEDIATE` transaction | as above, from several processes | compare-and-set on a revision read earlier; a process dies with reservations open |
| Read-only gateway, `core/src/read-only-gateway.ts` | kill switch, calls in flight | call, kill | run grants, consent store, provider, audit sink | one race per call: provider answer, caller's abort, timer, kill switch; the grant changes meanwhile; commit succeeds and the audit append throws |
| Audit log, `core/src/audit.ts`, `core/src/sqlite-audit.ts` | a chain of digests | append, readAll | appended to by the gateway | two writers of one chain; corruption found on reading |
| Apply service, `apply/src/*.ts` | preparations, used nonces, cancelled runs, rollback contents, crash records, all in memory | prepare, apply, cancel, rollback | sandbox sessions, evidence sink, clock | runs interleave at every await; failure in the middle of an operation; rollback that fails; restart |
| Sandboxes, `sandbox/src/*.ts` | a tree of files, counters of the session | read, write, remove, list, snapshot, close | called by the apply service | limits reached half way; a memory and a temporary-directory implementation that should agree |
| Capability router, `core/src/router/*.ts` | none | routeCapabilities | catalog, policy | an enumeration of combinations with ties, limits, ownership conflicts; result independent of input order |
| Configuration and policy, `config/src/*.ts` | none | resolve, load | file system | a fold over layers none of which may loosen what it inherits |
| Lockfile, `config/src/lockfile.ts` | none | create, validate, compare | | drift hidden by ordering or by fields not compared |
| Planner, `planner/src/index.ts`; planning evidence, `core/src/planning-evidence.ts` | plans by id | create, validate, compare, getPlan; ingestRunnerResults | | identity of a plan must not depend on the order of its parts |
| Evidence, `evidence/src/*.ts` | none | ingest, verify | plan, runner results | which result may count as a pass |
| Connector catalog, health and stores, `connectors/src/**`, `core/src/catalog/*` | records kept once loaded; snapshots by id | list, get, health, snapshot; save, get, list, close | file system, SQLite | the directories change between reads; save of an id that exists |
| Project inspector, `core/src/inspector/*.ts` | none | inspectProject | file system, git | |
| Application and protocol server, `application/src/*`, `protocol-server/src/**` | requests in flight; one catalog for the life of the server | one handler per endpoint, REST and MCP | catalog, inspector, provider ports | the request timeout races a handler that goes on; ports that never settle |
| CLI, `cli/src/run.ts` | files it writes | one command per process | all of the above | processes over one workspace; death in the middle of a write |
| SDK client, `sdk/src/client.ts` | none | one request per method | protocol server | |
| Contracts, `contracts/src/**` | schemas | validate, canonicalJson | | |

What makes each correct, in a sentence: the run grants never let a quota be
exceeded nor lose part of it; the gateway charges exactly what it returns, and
ends every call it can end; the apply service starts one run per approval, and
its result tells the truth about the sandbox; the router selects only what the
policy permits and decides the same whatever the order of its inputs; a policy
layer only restricts; lockfile, plan and evidence detect every change of what
they bind; the two sandboxes and the two grant repositories behave alike.

## The modules

| Module | Models | Extends |
|---|---|---|
| `RunGrants` | `RunGrantStore` and its in-memory repository | |
| `ReadOnlyGateway` | `ReadOnlyToolGateway.call` and `kill`, over `RunGrants` | `RunGrants` |
| `SqliteRunGrants` | `SqliteRunGrantRepository`: two tables and their transactions; `Ledger(t)` maps them to `RunGrants` | |
| `AuditLog`, `SqliteAudit` | what an `AuditSink` promises, and the SQLite sink; `Log` maps the second to the first | |
| `GatewayProcesses` | processes that make gateway calls over the two databases | `SqliteRunGrants`, `SqliteAudit` |
| `ApplyService` | `DefaultApplyService` over temporary-directory sandboxes | |
| `TempDirSandbox`, `MemorySandbox` | the two `SandboxSession`s, the first from await to await | |
| `Sandboxes` | both under the same calls | `TempDirSandbox`, instance of `MemorySandbox` |
| `PolicyLayers` | `PolicyResolver.resolve` and the discovery of its file layers | |
| `Router` | `routeCapabilities` with candidates, ownership, ranking, explanation | |
| `ConnectorCatalog` | the file-system catalog's records, snapshots and health, as operators | |
| `Lockfile` | create, validate, compare, as operators | |
| `CommandLine` | processes of the CLI over one workspace | `ConnectorCatalog`, `Lockfile` |
| `ProtocolServer` | REST handler, MCP surface, application, catalog | `ConnectorCatalog` |
| `Planner`, `Evidence`, `PlanningEvidence` | plans, evidence and records, as operators | `Evidence` extends `Planner` |
| `PlanEvidence` | a planner, results that arrive, callers that ingest them | `Evidence`, `PlanningEvidence` |
| `MC...` | the values TLC gives the constants | the module of that name |
| `ReadOnlyGatewayProofs`, `GatewayProcessesProofs`, `ApplyServiceProofs`, `SandboxesProofs`, `PolicyLayersProofs`, `CommandLineProofs`, `ProtocolServerProofs` | theorems and their proofs; those about `RunGrants` are in the first | the module of that name, TLAPS |
| `PlanningProofs` | theorems about `Router` and about `PlanEvidence`, and their proofs | both, TLAPS |

In each module the mutated operators that the runs are tested with (plausible
bugs, named for what they get wrong) stand before the definition they vary.

### RunGrants

`records` is the map of stored grants, a function from the grants issued so
far to records with the fields of `StoredRunGrant`; `reservations` is the map of
open `CallReservation`s. Two variables are history and have no counterpart in
the code: `handles`, every reservation ever handed out (a holder may present it
again at any time), and `charges`, what was charged for each. One action per
public method; each is atomic, as the methods are synchronous. Guards are the
conditions under which the method does not throw; a method that throws changes
nothing. Every change goes through `Save`, which counts the revision as `clone`
does. Callers read the revision they pass immediately before the call, without
an await in between, so that a mismatch cannot occur with this repository.

Token comparison, input validation other than that of quotas and times, and
`Object.freeze` are left out. Numbers are far below 2^53 in every use, so the
safe-integer checks never fail.

### ReadOnlyGateway

A call is a record with a program counter. `Admit` is everything up to the
reservation and the registration of the call (`call()`, lines 131 to 167);
before it, one action for each reason to refuse. `Dispatch` starts the provider
in a later microtask. The race at line 171 settles once: `race` holds what it
came to, `abortReason` what the first abort said (they differ when the answer
came first and the abort before the continuation ran). `Return` and `Fail` are
everything after the await: the checks of line 175 and 176, the output schema,
the commit, the audit event; on any failure the release and the event, in an
order that matters only when the append throws: `FailureRecords` is what the audit may
hold then (an `OUTPUT_SCHEMA_FAILED` that could not be appended is followed by a
`PROVIDER_FAILED`). They take `RunGrants`' actions as conjuncts, so that a gateway
step is a step of the ledger by construction. `Environment` is the issuer: other users of the store may issue,
revoke, consume, expire at any time. `MaxTimer` is the longest delay
`setTimeout` honours (2^31-1 ms in Node, above which the callback runs at
once); it is a constant because deadlines beyond it are legal and behave
differently.

### SqliteRunGrants, SqliteAudit, GatewayProcesses

`runGrants` and `callReservations` are the two tables. The reserved counters of a
grant are no columns: `Read` joins them from the reservations, as `#read` does.
Each repository operation is a transaction under `BEGIN IMMEDIATE` and so one
action; it is given the revision and the time its caller read before. `SchemaOK`
states the CHECK constraints. The audit's transaction is two actions, because a
mistake there (a deferred transaction) would be one of interleaving: a process
takes the lock and reads the last event, then inserts the next one and lets go.

A process makes one gateway call (`BeginCall`, `Reserve`, `ProviderAnswers` or
`ProviderFails`, `Commit`, `Release`, `AuditBegins`, `AuditEnds`) or one
transition, and anyone else may act between any two of these. `Busy` is a lock that
was waited for longer than `busy_timeout`: each operation then fails where the
code would have it fail. `Crash` ends a process at any point, rolling back what
it has not committed. The time a process presents may be older than the clock
when it gets the lock; so the ledger is implemented at a time up to the clock's
(`\E t \in 0..clock : Ledger(t)!Next`).

The store leaves rows behind in two cases only: the process died, or its release
could not get the lock. Both keep calls and bytes of the grant reserved until it
expires; nothing in the code collects them.

### TempDirSandbox, MemorySandbox, Sandboxes

A write is eight steps, one for each await of the file system between which others
run: it counts itself, resolves its target, makes the directories, checks the
target again, counts the files, writes a temporary sibling, checks again, renames.
A removal is three. An entry has an inode, and `Identity` is what
`sameEntryIdentity` compares: device, inode and mode, which are kind and inode here.
A new entry gets an inode that is not in use, and that may be one which was freed and
which another call has seen (`NewInodes`); so an entry that was removed and made anew
may pass the check. `temps` are the temporary siblings; `over`
are the sessions that are closed or out of time. Two sessions over one directory
are two runs that were given one sandbox id. Paths are in the form the checks leave
them; the walk along the directories above a target (`lstat` each) is one step.
`removes` is the kind of entry a removal found when it looked (`unlink` or `rmdir`
follow from it). A session's directory holds no more files to begin with
than its limit, since it is filled through `write` (`SandboxAssumption`).

The memory sandbox does each call at once. `Sandboxes` gives it every call of the
first session as long as calls come one after the other, and compares. Where the
two differ on purpose or by accident: a refused call (see the disagreements), and
a write over a directory, which the memory sandbox replaces by a file and the
temporary directory refuses.

### ApplyService

`prepare`, `cancel` and `apply` up to its first await are one action each;
then every stretch between two awaits is an action of the run
(`OpenSandbox`, `SnapshotBefore`, `Capture`, `Skip`, `Drift`, `Mutate`,
`Decide`, `RevertMissing`, `RevertCreated`, `RevertReplaced`, `Verify`,
`Complete`, `Throw`). The service's maps are variables of the names they have
in the code (`stored` is `#preparations`). `trees` is what each sandbox
directory holds, which outlives the session and the process. `Restart` empties
the maps and ends the runs; `TimeOut` is the session's time limit passing.

A write makes the directories above its target and then replaces the file; a
removal deletes a file or an empty directory. Both count against the session's
operation limit before they do anything, as the temporary-directory session
does. Byte and file limits and I/O errors are faults that may hit any read,
write, snapshot or evidence append when `IoMayFail`. The reversal of a created
file takes one step for each removal it awaits: `RevertCreated` removes the file,
and then one by one the directories made for it (`removing` holds those left).
`reads` is the run whose records a rollback goes through: `#rollback` looks them
up by run id. `Ancestors` gives the directories above a path. One level of detail
is left out on purpose: the gates that only compare fields of the input
(digests, policy, command and network plan, approval) are two flags of the
input, `binds` and `permitted`, at the two places where they are checked.
`epoch` (the life of the process a run belongs to) and `faults` are history.

### PolicyLayers

A resolution is one sequence of steps: `Walk` and `FindWorkspaceLayer` go up
the directories from the project's parent, `LoadProjectLayer` puts the layers in
order, `FoldLayer` folds one over `state` (`FoldState` in the code),
`RefuseLayer` ends it with the error of the first rule that throws, `Finish`
takes denied connectors out and reads unset lists as empty. A policy is a
function of its rules, so that the four folds of the code are the four kinds of
rule in `Weakens` and `Fold`: lists that may only shrink (empty means no
constraint), sets that may only grow, flags, and the two ranked values. Lists
are sets, since the code sorts them and drops duplicates. `decisions` keeps
field, value, reason and layer of each `PolicyDecision`, in the order of the rules in
the code; ids, digests and the
layer's file path are left out. Directories are the ancestors of one path and
are named by their depth.

### Router

`routes` is `combinations`: each is a function from the capabilities it covers
to providers, those it omits being the rest. `BuildCandidates` is
`buildProviderCandidates`, `ExtendRoutes` one turn of the loop over the
capabilities in the order of their ids, with `BlockUnknown` and
`BlockUnsupported` for its two early returns; after the loop one action for
each way to answer. `RankOf` is the tuple that `compareRouteCandidates` compares
from left to right. The sort of the routes is replaced by the set `Best` of those
no other ranks before; the code looks at the first two, and asks when they rank
equal, which is when `Best` has more than one member. `RankVector` is the sorted list
of the selected providers' ranks, without the sort: its k-th is the least that k of
them do not exceed.

The properties do not use the candidates or the loop. `Admitted` and `Safe` say
of an assignment as a whole what the documents ask of it; the router arrives at
its routes by three filters and one extension per capability.

`PolicyLayers` and `Router` are not composed: nothing in the code passes a
resolved policy to the router, which takes a policy document of its own and
compares it with its built-in one.

### ConnectorCatalog, Lockfile, CommandLine

A manifest is what the catalog tells apart: missing, invalid, of the old schema,
or of schema 2 with its id, version, integrations and whether its facts are sound.
`LoadRecord` and `KeepRecord` are `#loadRecord`: a record that was loaded once is
kept, one that failed is read again. A digest is what it digests; so an equal
digest is an equal value.

A command of the CLI is synchronous, but processes and editors interleave between
its system calls: `Start`, the look at the file, one step per input or manifest
read, then `Compare`, `Save`, or `OpenTemp`, `FillTemp` and `RenameTemp`. Two
processes that open one file write over each other; the result may be `Mixed`, and
a file that is open and not yet written is `Empty`.
`lock create` of the CLI records no connectors; `LockfileService` can, and
`connectors` in a command stands for a program that does. `quiet` is history: the
workspace was not edited while the command ran. Each of inspection, policy
resolution and configuration is one read, although it reads several files.

### Planner, Evidence, PlanningEvidence, PlanEvidence

A plan is a function of its normalized inputs and of what is proposed; its id is its
semantic content. `ById` is the stable sort by key, which all identities rest on: an
item's place is one more than the number of items that precede it (`Precedes`: a lesser
key, or the same key and further to the front). `BoundFields` are the fields that the
semantic plan binds, `ComparedFields` those of `comparisonRecord`: two lists, as in the
code. `Ingest` is `ingestEvidence`, with `Accepts` all it may throw on;
`Record` is the other, older path (`core/src/planning-evidence.ts`), which ignores
what does not fit instead of refusing it. Runners are external: a result may arrive
for any plan and any check. Callers take any list of what arrived, in any order and
with repetitions, and verification plans with a state written over.

### ProtocolServer

A request goes through phases; `busy` is the request that has the event loop, so
that no timer fires and no other request runs before it awaits or ends. `Sent` is
the race of `withTimeout`: whoever comes second answers nothing, but the operation
of a request that was answered 504 goes on to its end, with its effects.
`Timeout` may come at any await. Catalog operations read one manifest per step,
because the directories are edited by others even while the event loop is taken.
Authenticator, policy, context, plan and evidence providers are ports: external,
and free never to settle. A port may also throw a `ProtocolError`, which
`toProtocolError` passes on with its own status, whatever that is; every other error
becomes 500. `PortStatuses` are the statuses that ports throw. The application's catalog lives as long as the server,
and with it every record it has loaded.

What an operation has found and what it has listed are parts of the request, since
they are the locals of its handler. `served` is history: what the catalog operations
answered. `ProtocolServerAssumption` says that only a POST has a body that is looked
at, and that no request is called `Nothing`. The target of a request is taken to be a URL (`requestPath` is called outside the
`try`). An unknown POST is read and authorized before it is not found, an unknown
GET is not found at once. The two reasons an MCP call is refused for (version,
arguments) are one kind of body.

## The runs

Deadlock checking is off in every run: grants run out, calls and runs end and
clocks stop at their bound, so the systems rightly come to rest.

| Run | Instance | Shows |
|---|---|---|
| `run_grants` | 2 grants, 3 reservations, 3 kinds of request, 3 times, 8 revisions | `AccountingInv` (with its parts: books balance, nothing settled twice), `WithinQuota`, `ExhaustedIsIdle`, `IdleActiveCanReserve`, `ClosedStaysClosed` |
| `gateway` | 2 calls on one grant of 2 possible quotas, a deadline, answers up to 2 bytes, failing audit sink, fairness | `LedgerTellsCalls`, `AuditTellsOutcome`, `KillIsFinal`, `KillDrains`, `DeadlineEndsCall` |
| `gateway_processes` | 3 processes, 1 grant of 3 possible quotas, 2 reservations, crashes, locks refused | `ImplementsLedger`: the tables implement `RunGrants`; `AuditIsLog`: the chain implements `AuditLog`; `RowsHaveOwners`, `ChargesAudited` |
| `apply_racing` | 2 runs, 2 preparations, 5 inputs, 2 sandboxes, a restart, a clock | `NonceStartsOneRun`, `AllOrNothing` |
| `apply_rollback` | 1 run, every plan of up to 2 operations on 3 paths (one below another), every initial tree, 3 operation limits, I/O faults, fairness of the sandbox only | `DifferencesRecorded`, `RollbackSucceeds`, `RunsEnd` |
| `sandboxes` | 2 sessions, 3 calls, 3 paths (one below another), 2 sizes, limits of 1 file, 3 bytes, 2 operations | `SequentialAgreement`, `WithinLimits`, `NoStrayTemps` |
| `policy_layers` | 9 policies, an organization and a run policy each or none, policy files in the project, its parent and the root, every workspace root | `ResolvedRespectsEveryLayer`, `RefusedIffLayersConflict`, `LastDecisionTellsValue` |
| `routing` | 3 providers, 3 known capabilities and an unknown one, 9804 calls | `PlannedRouteIsLeast`, `StatusTellsRoutes`, `EveryProviderExplained` |
| `command_line` | 2 processes, 3 commands of 6 kinds, 2 connector directories, 1 edit, deaths | `LockFileIsWhole`, `CheckTellsDrift` |
| `plan_evidence` | 2 plans, 2 checks, 2 results of 9 kinds, 2 envelopes or records | `PassesAreProven`, `VerifyTellsAlterations`, `DigestTellsEvidence`, `DriftTellsPlan` |
| `protocol_server` | 2 requests of 18 kinds, ports that throw 400 or 500, 2 connector directories, 2 edits, fairness | `AnswersTellOutcome`, `AnswersAgree`, `EveryRequestAnswered` |
| `apply_cancelled_kept` | as small as shows it | a disagreement, see below |

Why these bounds are enough to be interesting:

- Grants: the first request's bytes end before its calls, and its third
  reservation gets less than the per-response limit; the second one's calls
  end first; the third is refused. Three reservations are one more than the
  second grant allows, and enough to settle one while two are open. Grants do
  not interact but through the reservations presented to them, for which two
  suffice. `Revisions` bounds how often a record expires again.
- Gateway: a race has one call and its environment; two calls add the
  competition for the quota and let the kill switch find one in flight and one
  not yet admitted. One deadline is enough for the timer to race the rest. With
  `MaxTimer` = 1 the delays that `setTimeout` cuts short do not occur.
- Processes: a race over a revision takes two processes, and the third may change
  the record or crash with its reservation while they do. The three quotas end by
  bytes, by calls, or leave a second call less than the first.
- Sandboxes: limits of one file, two operations and three bytes are each reached
  by two of the three calls; two calls may be on one path and the third removes or
  makes the directory above it.
- Commands: two processes, one edit between any two of their reads, and a third
  command to see what they left. One edit makes a workspace at rest differ from
  the one the lock binds. A manifest of the second directory may repeat the
  connector of the first.
- Plans: inputs that differ in one field each, in order, or by a repetition; the
  results pass, fail, time out, do not count, have altered, repeated or no
  artifacts. Two envelopes are what a statement about order compares.
- Server: of two requests one can be in every phase of the other. The kinds hold
  every status the handler answers with and every route that behaves differently; 400
is a status that the server's own refusals have too, which a port's must not be taken
for;
  policy, context and evidence differ from plans in the port they call. Two edits
  can undo each other or make both directories declare one connector.
- Apply: the two hazards of the rollback are an operation on a path already
  changed by the plan and one whose directory is made or removed by the plan.
  Two operations on the three paths `d`, `d/f` and `g` have all such pairs, and
  a third adds no new kind of pair. Operation limits 1, 3 and 6 stop the run in
  the plan, in the rollback, and never. Races need two runs; of the five inputs in
  `apply_racing` two have one nonce, a third the same run id, and one is not
  permitted.

- Policies: a resolution has at most four layers, and all four can be present.
  The nine policies have, for each kind of rule, one that sets it and one that
  narrows, widens or forgets it, two rules at a time so that one layer may be
  right about one and wrong about the other; three directories give the walk a
  nearest file, one beyond it, and the end of the file system.
- Routing: one capability native, one that two third-party providers claim (as
  strongly, less strongly, as a fallback), one that only one of them claims; so a
  tie, a better provider that would be a second one, and an optional capability
  of a provider already selected all occur. The provider limit is 0, 1 or 2.

**Fairness.** `gateway` assumes weak fairness of `Dispatch`, of the
continuation after the race has settled (`Return \/ Fail`), of the timer and of
time: the event loop runs a microtask or an expired timer that is due. It
assumes nothing of the provider, the caller or the issuer; a provider may never
answer. `apply_rollback` assumes weak fairness of a run's steps that await the
sandbox: those promises are operations of the file system, which settle. A run also
awaits its caller: the evidence sink (`apply-service.ts:227`, `:247`, `:582`, `:396`) and
the content provider (`:289`), with no timeout and no abort. `AwaitsCaller` says where,
nothing is assumed of these steps, and `RunsEnd` says that a run ends unless it stays in
one of them for ever: nothing else can hold it up, and every revert is made without the
caller. Nothing is assumed of prepare, cancel, restart or the clock. `protocol_server` assumes weak
fairness of a request that has the event loop and of its timer; nothing of a
body, the authenticator or a provider, each of which may never come.

**Refinements.** Two. `ImplementsLedger`: every transaction on the tables is a step
of `RunGrants` or leaves its variables alone, at a time the process has read, with the
records that `Read` decodes. `AuditIsLog`: what `readAll` returns grows at its end and at no
other place, and verifies at all times.

**Properties worth reading first.** `AuditTellsOutcome` and `LedgerTellsCalls`
(gateway): the audit event of a call says what happened to its charge, and no
reservation outlives its call. `ChargesAudited` (processes): charges and
`TOOL_CALLED` events differ by the processes that died between the two and no
others. `DifferencesRecorded`
(apply): at every await, in the loop or in the rollback, what the records still
to be reverted say accounts for every difference between the sandbox and its
first snapshot. It is what makes `RollbackSucceeds` true, and it has an exact
side condition: the run has a sandbox and a run id of its own, nothing failed
that the service takes for an absent file, and the plan fits the tree (`Fits`:
no operation puts a file where a directory is or below a file).
`AllOrNothing` has none of these conditions except a sandbox of one's own: it is
the digest comparison at the end of the rollback that makes it hold.
`RefusedIffLayersConflict` (policy): comparing a layer with what is accumulated is
as good as comparing it with each layer below it, in both directions.
`StatusTellsRoutes` (routing): what the router answers is a function of the set of
routes that the documents admit. `CheckTellsDrift` (command line): in a workspace at
rest `lock check` exits 0 exactly when nothing drifted, although it compares no
connector versions: the catalog digest does. `VerifyTellsAlterations` (evidence):
each alteration of an envelope is found, except the one that means nothing.
`AnswersTellOutcome` (server): a status that only the server itself answers with tells
that nothing was done; of one that a port may throw as well nothing follows, and the
property does not say so. `AnswersAgree` (server): that records are kept for good is what makes the answers
of one server agree while manifests are edited.

Every property of a passing run has a mutant in `PROJECT.json`: a definition
changed the way a plausible mistake would change the code, under which the run
finds the property violated.

## The proofs

The first part of `ReadOnlyGatewayProofs` proves, for any sets of grants, reservations and requests and
any bounds, `TypeOK`, `AccountingInv`, `WithinQuota`, `SettledOnce`,
`ExhaustedIsIdle`, `IdleActiveCanReserve` and `ClosedStaysClosed`. The only
assumption is `RunGrantsAssumption` (the fields of requests and the bounds are
natural numbers).

`AccountingInv` is inductive: no part of it is by itself. That the quota is
never exceeded follows from the guard of `reserveCall` only because the counters
are the true totals; that a commit leaves the counters the true totals needs
that the reservation is settled once; that, and that `commitCall`'s subtraction
stays in the natural numbers, needs that the open reservations of a grant are
finitely many and each holds a byte; that an exhausted grant has none open
needs all of these and `StateTellsSpent`. The byte totals are stated as
cardinalities: the bytes of a set of reservations are the pairs of a reservation
and a number up to its size, so that a sum over a set, which would need
induction over data, becomes a count, for which the library of finite sets has
theorems (`PileAdds` and the lemmas after it).

Its second part proves, for any number of calls, any deadlines and any
answers, `LedgerTellsCalls`, `AuditTellsOutcome`, `KillIsFinal`, and that `AccountingInv`, and
with it `WithinQuota`, carries over to the ledger the gateway uses. The invariant is
`GatewayInv`: the ledger's own, the type of a call (its reservation is among those
handed out), `OneReservationEach`, `AbortsHaveReasons` and `LedgerTellsCalls`. None
can be left out. `LedgerTellsCalls` after `Fail` needs `SettledOnce` of the ledger: an open
reservation is not a charged one; and that the ledger's invariant holds of its
reservation needs that the call was handed it. That no answer
is charged after `kill()` needs that an aborted race has a reason among the abort
codes, or `Verdict` might be anything. `LedgerStep` says that each step is one of the ledger or leaves it alone, `GatewayStep`
has one case per action, and `BooksKept`, `AdmitStep` and `EndStep` are the three ways
a step can treat the books. `AuditTellsOutcome` has an invariant of its own,
`OutcomeInv`: beside the property, that nothing is recorded before a call's end, that
the first abort reason stays the only one, that the kill switch has reached every call
in flight, and that only a deadline that was due times a call out. It uses `ReadOnlyGatewayAssumption`:
the codes of the checks before admission are none of the codes of the race, and
deadlines are natural numbers.

`GatewayProcessesProofs` proves, for any number of processes, grants and
reservations, that the two stores implement what they promise, `AuditIsLog` and
`ImplementsLedger`, and two properties of the processes over them, `RowsHaveOwners`
and `ChargesAudited`. There are four invariants, each proved on top of the one before
where it needs it.

- `LogInv`: the events are numbered without gap or double and each is chained to the
  one before (`Chain`); who holds the lock is in its transaction (`LockHeld`), and
  what it read last is still the last event (`ReadIsLast`). This last part is the one
  that a deferred transaction would break.
- `TablesInv`: the rows satisfy the schema's constraints, every grant can be decoded,
  and the reservation rows are finitely many of those ever handed out. Each transaction is then an operation of `RunGrants` on the
  records that `Read` joins, at the time the process presents: a case for each, in
  which the sums over the reservations of a grant are, as for `RunGrants`,
  cardinalities of piles.
- `OwnersInv`: a row belongs to the process that was given its reservation and has
  not settled it (`LocalRight`, `RowsOwned`), and no two processes have one
  (`NoRowShared`), as a reservation id is never given twice.
- `CountInv`: a charge is told by its process until its event is in the chain
  (`TellsCharge`, `ChargesSettled`), and there are as many charges as `TOOL_CALLED`
  events and processes with a charge and no event together (`Counted`). An append
  never fails on a key, because of `ReadIsLast`.

They use the constants' types (`SqliteRunGrantsAssumption`), that `Nobody` is no
process (`SqliteAuditAssumption`), and that the codes the processes use are codes
(`GatewayProcessesAssumption`).

`ApplyServiceProofs` proves `NonceStartsOneRun`: while the process lives, no
two runs with one nonce get past the gates. The invariant `NonceInv` says that
each started run's nonce, if the run belongs to this life of the process, is
among the used ones, and that what it was prepared from stays (a consumed
preparation keeps its input). Only `Start` and `Restart` change what matters;
one lemma shows that every other step keeps it.

It also proves `AllOrNothing`, `DifferencesRecorded` and `RollbackSucceeds`, for any
plans, trees, limits and faults and any number of runs beside. The argument is in two
halves. The first is about trees and plans only. `Accounted` says that whatever in the
sandbox differs from the tree before the run is a path of one of the first n operations
or a directory above one, or is among the removals still to be made for the next;
`Kept`, that the first record of a path is what was there before the run; `Clear`, that
no file is in the way of putting a recorded one back; `Laid`, that the directories above
the paths of the plan so far are there. The lemmas say what an operation adds to this,
if the plan fits the tree, and what undoing the last one takes away. They use `ApplyAssumption`: the directories
above a path are not the path, are above each other in one chain, and hold in every
initial tree what is below them; `Absent` and `Directory` are no contents. The second
half is the invariant of one run, `Good`: where its program counter can be with what
locals (`Control`), what its result says (`Outcome`), what its records tell of its
sandbox while it goes forward (`Telling`) and back (`Undoing`). Each step of a run
keeps its own `Good`, and leaves that of the others alone unless they share its
sandbox or run id. `MemoryInv` says that the service's maps still hold what the runs in
progress will ask them for. That a path which differs has a first record is an argument
by the well-foundedness of the natural numbers.

`SandboxesProofs` proves, for any number of sessions, calls and paths and any
limits, `NoStrayTemps` and `WithinLimits` of the temporary directory. The invariant
`IInv` has five parts: the calls are what their step says (`CallsInv`); each temporary
file belongs to one call between its creation and its rename (`TempsInv`); what is in
the directory are entries with inodes (`TreeInv`); the counters of a session are the number and the
bytes of its admitted calls at least (`LimitsInv`); and as long as calls have not
overlapped there are no more files than the limit, and there is room for the one that a
call is about to make (`FilesInv`). In the last one the limit is subtle: a file is
counted at one await and made at a later one. It uses `SandboxAssumption`.

`SequentialAgreement` is a simulation between the two sandboxes with another invariant,
`AgreeInv`, over `IInv`. The memory session answers a call when it starts, and the
directory follows in up to eight steps, so between them the two trees differ, and what is
invariant is a promise (`Promise`): as long as the call may still be refused, that the
memory session has made the change if the directory is going to (`WillWrite`,
`WillRemove`); once the parents are made and room is counted, that it has made it,
whatever comes (`HasWritten`), and that the temporary file of the call holds its content.
Making the parents keeps the promise, because the memory session makes the same ones
(`ParentsMade`); the rename and the removal redeem it (`AgreeEffects`). With no call in
flight the trees and both counters are equal (`Settled`), which is what the next call
starts from. It needs `TreeAssumption`: "above" is a strict order of paths, as it is
of directories, contents are told from the words for no entry and for a directory, and
files that are there at first have a content.

`PolicyLayersProofs` proves, for any policies, any contents of any number of
directories, `TypeOK`, `ResolvedRespectsEveryLayer`, `RefusedIffLayersConflict` and
`LastDecisionTellsValue`. It assumes that a policy has its rules with values of their
types (`PoliciesAssumption`), that depths and sizes are natural numbers, and that the
marks for no value differ from them. For the first, the invariant is `FoldInv`: the
accumulated rules respect every layer folded so far, and a list that such a layer
gives is set (`Accumulates`; without the second part an unset list would count as
unbounded for the next layer). `FoldKeepsRespect` is the heart of it: a layer that is
not refused only restricts, and what restricts keeps what was respected. That no stack
is refused that need not be takes the converse, `GatheredInv`: what is accumulated is
the baseline's or was given by a layer folded before, so that a refusal names two that
conflict (`RefusalInv`). `DecisionsInv` says that the last decision recorded of a rule
tells its value at every turn of the fold; that a last one exists is once more an
argument by a least number.

`CommandLineProofs` proves, for any number of processes, commands, directories and
edits, `LockFileIsWhole` and `CheckTellsDrift`. The invariant `Inv` consists of
`States` (the locals of each process at each step), `FilesInv` and `ReadsInv`. `FilesInv` is what the temporary names are for:
commands that run have numbers of their own (`Numbers`), no two names are of one file
and a lock's temporary file is that of its command (`Names`, `Unused`), so it has one
writer (`Writers`), is whole once it was filled, and so is what was renamed (`Wholes`). It holds of lock
files only, since plans share one name. `ReadsInv` says that a command in a workspace
at rest has read what is there. It uses that no directory is called as an input
(`CommandLineAssumption`).

`ProtocolServerProofs` proves, for any requests, kinds, directories and edits,
`AnswersTellOutcome` and `AnswersAgree`. `OutcomeInv` has for each request what its
phase says of its answer, its authorization and whether the application worked for it:
a refusal of the server's own leaves it ended, a success has the work behind it, and who
has the event loop is the one that is dispatched or reads. Of the statuses that ports
throw it assumes only that 200 is none of them (`ProtocolServerAssumption`).
`CatalogInv` says that what an operation found agrees with the records of the
catalog, as far as these go; that a search has read the directories up to some index,
or ends at the record it looked for (`ReadUpTo`); and that once a list was answered the
catalog is full and so, as it only `Grows`, never changes (`FullStays`). `SameGot` is
the lemma on which the health after a list rests: a search that stopped early found
the first record that the whole catalog has. Records of later edits cannot enter,
because only the request that has the event loop loads (`OutcomeInv` again).

`PlanningProofs` proves, for any capabilities, catalog of the three providers, policy and
request, `PlannedRouteIsLeast`, `StatusTellsRoutes` and `EveryProviderExplained`. What it
takes is that the loop misses no route: `RoutesComplete` says that when the n-th
capability is next, `routes` is all of `PartialRoutes(n)`, every way to cover the required
capabilities before it, and any of the optional ones, with candidates that support them;
and that the candidates are the permitted providers (`ProvidersSorted`). A turn of the
loop extends each route by each provider or leaves the capability out, and any route over
one more capability is one over the earlier ones, extended or not (`TakenCapability`,
`PassedCapability`); this needs that entries of one id agree (`RequiredEntry`), which is
what `normalizeRequest` refuses requests for. After the last, what is within the limit is
`Admitted` (`WithinLimitIsAdmitted`), so that what the router splits and ranks are the
routes the properties define. `BestIsLeast` takes from `RankOf` its first two components
only; the others decide between routes that these leave equal. It is assumed that the
order of the capabilities is one (`OrderAssumption`), that inputs have the form of the
contracts (`InputsAssumption`), and that `Null` is no reason (`NullAssumption`).

It also proves `PassesAreProven`, `VerifyTellsAlterations`, `DigestTellsEvidence` and
`DriftTellsPlan`, for any inputs, proposals, requirements and results, any number of them.
What they rest on is about the sort: `ById` puts each item in a place of its own
(`PlacesPermute`, a count of the items that precede it), so that it keeps the items and
whether their ids are distinct (`ByIdKeeps`); and where the ids are distinct, an item's
place is the number of lesser ids, which is a matter of the set and not of the order
(`PlaceOfId`, `ByIdTellsSet`). The invariant, `EvidenceInv`, is that every plan, envelope
and record is one that the actions make, of results that have arrived. From it, what an
envelope says of a check is what the one result for it says (`CheckedByResult`,
`CheckedByNone`, `OneResult`); an alteration that leaves the id must have the same digest
content to verify, which is everything but the order of the checks (`VerifiesIffSame`);
and two envelopes of the same parts have the same checks as sets (`CheckOfResults`), hence
the same digest. `DriftOfPlans` shows that the fields compare looks at, the optional ones
that may be absent included, are all the inputs that a plan's id depends on; it takes
that the two lists have the same fields. It is assumed
that the order of keys is a list (`PlannerAssumption`), and that requirements and
artifacts are lists and every requirement's id a key (`PlanEvidenceAssumption`). That a
digest is the value it digests is part of the model: the theorems say what is digested,
not that the hash has no collisions.

Only model-checked: the liveness properties `KillDrains`, `DeadlineEndsCall`,
`RunsEnd` and `EveryRequestAnswered`, since fairness is beyond the prover.

## Where the code and its documents disagree

With a run that finds it (`expect: violation`):

- `apply_cancelled_kept`: a cancellation between the decision about the rollback
  (`apply-service.ts:349`) and the status (`:366`) gives status `cancelled` with the
  operations kept (docs/THREAT-MODEL.md:317).

Seen while modelling, and left without a run of their own.

Gateway: a failed provider call is not charged (`read-only-gateway.ts:183`, against
docs/superpowers/specs/2026-08-02-phase7-gateway-foundation-design.md:65); a call
refused by `reserveCall` for its quota, or by `commitCall` for its size, leaves no
audit event (`:153`, `:187`).

Apply: a run that reaches its operation limit has none left for its rollback, so a
limit violation leaves the sandbox changed (`apply-service.ts:543`, against
docs/ROLLBACK.md:5); `rollback()` has no policy to open a sandbox with and always
throws (`:413`, docs/ROLLBACK.md:76); the sandbox policy is looked up again by run id
after an await and may be another preparation's (`:603`, docs/THREAT-MODEL.md:277); a
plan that creates a file below an existing file loses the existing file in
the rollback, inside the sandbox (`apply-service.ts:549`, against the comment at
`:544`; the digest check reports it); a nonce is used by a
run that throws before its sandbox is open and is forgotten by a restart
(`apply-service.ts:218` and `:68`, against docs/APPROVALS.md:47-48); a cancelled
run whose rollback failed reports `cancelled` (`:367`, docs/ROLLBACK.md:32); a
rollback removes an empty directory where the plan wanted a file (`:543`); a
process that dies in the middle of a run leaves no crash record (`:477`,
docs/ROLLBACK.md:58).

Policy: the walk starts in the project's parent, so with the project root as
workspace root it passes the workspace root by and may take a policy from above
it (`configuration.ts:155`, docs/POLICY-RESOLUTION.md:20-22); denied connectors are
not recorded as decisions, and the baseline's network mode is recorded under the
name `networkMode` where a layer's is `network.mode` (`policy.ts:339`, `:468`), which
is why `LastDecisionTellsValue` speaks of the rules' own names; a layer that says
nothing of the bundle size is refused above one that does (`:526`); and since the
baseline's network mode is the strictest one, no list of hosts is ever accepted.

Sandboxes: writes whose temporary names are equal (two sessions with one sandbox id
and equal operation counts) can make each other fail (`temp-dir-sandbox.ts:225`); two
overlapping writes of one session both find room for the last file (`:214`, against
docs/APPLY-SANDBOX.md:121), which takes a caller other than the apply service, as this
one awaits each call; the memory sandbox removes an entry before it counts the
operation, so that a removal it refuses has taken place (`memory-sandbox.ts:204`,
against its comment at `:20`), which is why `SequentialAgreement` ends at the first
refusal; an entry that is replaced between the last check and the effect, or before
the check by one that was given its inode, is written over or removed all the same
(`temp-dir-sandbox.ts:229`, `:163`), against the claim that real paths are rechecked
before every mutation, which closes races (docs/APPLY-SANDBOX.md:115).

Command line: `lock create` without `--force` replaces a lock created since it looked
(`run.ts:423`, `:447`, against docs/LOCKFILE.md:84-86); plans are all written through one
`.tmp` name, so two processes can mix them or lose one (`run.ts:121`,
docs/PHASE-8-DESIGN.md). Planning evidence: a runner's exit code does not count, so a
`passed` with exit code 1 is one (`planning-evidence.ts:88`,
docs/PHASE-8-PLAN-VERIFICATION-EVIDENCE.md); `PassesAreProven` asks for exit code zero
of `ingestEvidence` only.

Server: a connector asked for by its directory's name is answered without the check
for duplicate ids that every other way to ask for it makes (`connector-catalog.ts:97`).

Router: of routes that are equal otherwise, the one with fewer fallback claims is
preferred (`rank.ts:141`), so that an optional capability its own provider could
cover as a fallback is omitted. When a required capability has one provider outside the environment
and another one rejected, the plan's code is `ENVIRONMENT_UNSUPPORTED` while the
first provider is listed as `ALTERNATIVE_NOT_NEEDED` (`route-capabilities.ts:499`,
`:520`).

## What is not modelled

- What a single check compares (schemas, digests, tokens, path safety, version
  ranges): data of the inputs. A digest is modelled by what it digests.
- The file system beyond the sandboxes' own sessions: other programs changing a
  sandbox directory, symbolic links, and the walk along the directories above a
  target, which is one step.
- In `ApplyService`: the steps inside a write, which are in `TempDirSandbox`; the two
  are not composed, since a run awaits each call of its
  session, and only runs that share a sandbox would overlap.
- Stored rows and events that another program has corrupted; the decoding of
  such rows throws, which is the reading end of `Decodes` and `Verifies`.
- The text of findings, reports and plans, redaction and secret detection (one flag
  of an input or result), single file operations of a plan.
- The memory store of snapshots, and `get` and `list` of both stores.
- Context gateway, consent store and protocol negotiation: checks of one input
  each. The project inspector: one input read from the file system. The CLI's
  printing commands and the SDK client: one call, formatted.
- Contracts: schemas and canonical JSON, data formats.

## Plan

Done: 1. `RunGrants`, its accounting proved. 2. `ReadOnlyGateway` over it. 3.
`ApplyService`, one proof. 4. `SqliteRunGrants`, the audit chain, and
`GatewayProcesses`, with two refinements. 5. `PolicyLayers`, with the theorem that a
resolution only restricts. 6. `Router`, against a reference definition. 7.
`Sandboxes`. 8. `CommandLine` with lockfile and catalog; `PlanEvidence`. 9.
`ProtocolServer`. 10. Proofs of `KillIsFinal` and `LedgerTellsCalls`. 11. Proofs of `AuditTellsOutcome`; of
the refinements, row owners and charges of the processes; of the rollback; of the
sandboxes' limits, temporary files and agreement; of the command line, of the server, and of what the
policy resolver refuses and records; of the router; of plans and evidence.

Left: 12. The hazards in `PROJECT.json` that no property covers, each with the reason
there: among them a restart of the apply service as its callers see it, an evidence
append that throws, two runs in one sandbox, and plan commands of two processes that
write one file. They do not hold of the code; what is left to state is the exact
condition under which they do.
