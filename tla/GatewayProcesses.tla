-------------------------- MODULE GatewayProcesses --------------------------
(***************************************************************************)
(* Processes that share the two databases: each makes one read-only        *)
(* gateway call (authorize, reserve, call the provider, commit or release, *)
(* append to the audit), or revokes, consumes or expires a grant.  A       *)
(* process runs without waiting for the others except for the locks of     *)
(* SQLite, so between any two statements another process may act; and it   *)
(* may die at any of them.                                                 *)
(***************************************************************************)
EXTENDS SqliteRunGrants, SqliteAudit

CONSTANTS
    MaxAnswer,   \* bound: the longest answer, in bytes
    MayBeBusy    \* whether a lock may be waited for longer than busy_timeout

ASSUME GatewayProcessesAssumption ==
    /\ {"GRANT_DENIED", "PROVIDER_FAILED", "AUTHORIZATION_CHANGED",
        "TOOL_CALLED"} \subseteq AuditCodes
    /\ MaxAnswer \in Nat

VARIABLE procs   \* the local state of each process

vars == <<sqlVars, auditVars, procs>>

Idle ==
    [pc |-> "idle", grant |-> {}, state |-> "active", revision |-> 0,
     now |-> 0, reservation |-> {}, bytes |-> 0, code |-> {},
     refused |-> FALSE]

\* refused is history: the lock was refused to the process's append.

\* Between reserving and settling.
InFlight(p) == procs[p].pc \in {"call", "commit", "release"}

Ended(p) == procs[p].pc \in {"done", "stranded", "crashed"}

GrantOf(p) == CHOOSE g \in procs[p].grant : TRUE

ReservationOf(p) == CHOOSE r \in procs[p].reservation : TRUE

CodeOf(p) == CHOOSE code \in procs[p].code : TRUE

Goto(p, pc) == procs' = [procs EXCEPT ![p].pc = pc]

GotoRecording(p, pc, code) ==
    procs' = [procs EXCEPT ![p].pc = pc, ![p].code = code]

-----------------------------------------------------------------------------
(* A gateway call *)

Authorized(g) ==
    g \in DOMAIN runGrants /\ Decodes(g) /\ Active(Read(g), clock)

\* What the store reads before it opens the transaction.
Presents(p, g, pc, state) ==
    procs' = [procs EXCEPT ![p] =
                 [@ EXCEPT !.pc = pc, !.grant = {g}, !.state = state,
                           !.revision = Read(g).revision, !.now = clock]]

BeginCall(p, g) ==
    /\ procs[p].pc = "idle"
    /\ Authorized(g)
    /\ Presents(p, g, "reserve", "active")
    /\ UNCHANGED <<sqlVars, auditVars>>

DenyCall(p, g) ==
    /\ procs[p].pc = "idle"
    /\ g \in DOMAIN runGrants
    /\ ~Authorized(g)
    /\ GotoRecording(p, "audit", {"GRANT_DENIED"})
    /\ UNCHANGED <<sqlVars, auditVars>>

Reserve(p, id) ==
    /\ procs[p].pc = "reserve"
    /\ ReserveCall(GrantOf(p), id, procs[p].revision, procs[p].now)
    /\ procs' = [procs EXCEPT ![p].pc = "call",
                    ![p].reservation = {Reservation(GrantOf(p), id)}]
    /\ UNCHANGED auditVars

\* Another process was faster, or the quota is used up: the error is not
\* caught, and nothing is recorded.
ReserveRefused(p) ==
    /\ procs[p].pc = "reserve"
    /\ ~CanReserve(GrantOf(p), procs[p].revision, procs[p].now)
    /\ Goto(p, "done")
    /\ UNCHANGED <<sqlVars, auditVars>>

ProviderFails(p) ==
    /\ procs[p].pc = "call"
    /\ GotoRecording(p, "release", {"PROVIDER_FAILED"})
    /\ UNCHANGED <<sqlVars, auditVars>>

ProviderAnswers(p, bytes) ==
    /\ procs[p].pc = "call"
    /\ IF Authorized(GrantOf(p))
       THEN procs' = [procs EXCEPT ![p].pc = "commit", ![p].bytes = bytes,
                                   ![p].now = clock]
       ELSE GotoRecording(p, "release", {"AUTHORIZATION_CHANGED"})
    /\ UNCHANGED <<sqlVars, auditVars>>

Commit(p) ==
    /\ procs[p].pc = "commit"
    /\ CommitCall(ReservationOf(p), procs[p].bytes, procs[p].now)
    /\ GotoRecording(p, "audit", {"TOOL_CALLED"})
    /\ UNCHANGED auditVars

\* Mutant: the error of the commit is thrown on without the release.
CommitRefusedEnds(p) ==
    /\ procs[p].pc = "commit"
    /\ ~CanCommit(ReservationOf(p), procs[p].bytes, procs[p].now)
    /\ Goto(p, "done")
    /\ UNCHANGED <<sqlVars, auditVars>>

\* The grant changed under the call, or the answer is too long: a TypeError,
\* which the handler throws again after the release, unrecorded.
CommitRefused(p) ==
    /\ procs[p].pc = "commit"
    /\ ~CanCommit(ReservationOf(p), procs[p].bytes, procs[p].now)
    /\ GotoRecording(p, "release", {})
    /\ UNCHANGED <<sqlVars, auditVars>>

Release(p) ==
    /\ procs[p].pc = "release"
    /\ ReleaseCall(ReservationOf(p))
    /\ Goto(p, IF procs[p].code = {} THEN "done" ELSE "audit")
    /\ UNCHANGED auditVars

AuditBegins(p) ==
    /\ procs[p].pc = "audit"
    /\ BeginImmediate(p)
    /\ Goto(p, "auditing")
    /\ UNCHANGED sqlVars

\* An append that throws after the commit is taken for a provider's error,
\* which is recorded if it can be; any other is thrown on.
AuditThrew(p, refused) ==
    LET again == procs[p].code = {"TOOL_CALLED"} IN
    procs' = [procs EXCEPT ![p] =
                 [@ EXCEPT !.pc = IF again THEN "audit" ELSE "done",
                           !.code = IF again THEN {"PROVIDER_FAILED"} ELSE {},
                           !.refused = refused]]

AuditEnds(p) ==
    /\ procs[p].pc = "auditing"
    /\ \/ /\ Insert(p, CodeOf(p))
          /\ Goto(p, "done")
       \/ /\ Conflicts(Event(CodeOf(p), prior[p]))
          /\ AuditThrew(p, FALSE)
          /\ UNCHANGED events
    /\ EndTransaction(p)
    /\ UNCHANGED sqlVars

-----------------------------------------------------------------------------
(* The other operations of the store, and what may go wrong *)

\* revoke and consume are authorized first, expire only authenticated.
BeginTransition(p, g, state) ==
    /\ procs[p].pc = "idle"
    /\ IF state = "expired" THEN g \in DOMAIN runGrants /\ Decodes(g)
       ELSE Authorized(g)
    /\ Presents(p, g, "transition", state)
    /\ UNCHANGED <<sqlVars, auditVars>>

Transit(p) ==
    /\ procs[p].pc = "transition"
    /\ \/ Transition(GrantOf(p), procs[p].revision, procs[p].now,
                     procs[p].state)
       \/ /\ ~CanTransit(GrantOf(p), procs[p].revision, procs[p].now,
                         procs[p].state)
          /\ UNCHANGED sqlVars
    /\ Goto(p, "done")
    /\ UNCHANGED auditVars

\* BEGIN IMMEDIATE gives up: the operation throws, and only the commit's
\* error leads to a release.
Busy(p) ==
    /\ MayBeBusy
    /\ \/ procs[p].pc \in {"reserve", "transition"} /\ Goto(p, "done")
       \/ /\ procs[p].pc = "commit"
          /\ GotoRecording(p, "release", {"PROVIDER_FAILED"})
       \/ procs[p].pc = "release" /\ Goto(p, "stranded")
       \/ procs[p].pc = "audit" /\ AuditThrew(p, TRUE)
    /\ UNCHANGED <<sqlVars, auditVars>>

\* What the process had not committed is rolled back, and its lock is free.
Crash(p) ==
    /\ procs[p].pc # "idle" /\ ~Ended(p)
    /\ Goto(p, "crashed")
    /\ EndTransaction(p)
    /\ UNCHANGED <<sqlVars, events>>

IssueGrant(g, q) == Issue(g, q) /\ UNCHANGED <<auditVars, procs>>

TimePasses == Tick /\ UNCHANGED <<auditVars, procs>>

Init ==
    /\ SqlInit
    /\ AuditInit
    /\ procs = [p \in Processes |-> Idle]

Next ==
    \/ \E g \in GrantIds, q \in Requests : IssueGrant(g, q)
    \/ \E p \in Processes :
        \/ \E g \in GrantIds :
            \/ BeginCall(p, g)
            \/ DenyCall(p, g)
            \/ \E state \in {"revoked", "consumed", "expired"} :
                  BeginTransition(p, g, state)
        \/ \E id \in ReservationIds : Reserve(p, id)
        \/ ReserveRefused(p)
        \/ ProviderFails(p)
        \/ \E bytes \in 0..MaxAnswer : ProviderAnswers(p, bytes)
        \/ Commit(p)
        \/ CommitRefused(p)
        \/ Release(p)
        \/ AuditBegins(p)
        \/ AuditEnds(p)
        \/ Transit(p)
        \/ Busy(p)
        \/ Crash(p)
    \/ TimePasses

Spec == Init /\ [][Next]_vars

-----------------------------------------------------------------------------
(* Properties *)

\* Processes over one database keep the ledger of RunGrants: whatever they
\* had read before their transactions, each write is an operation the
\* in-memory ledger would have allowed, on the same record and at the time
\* the process read its clock.
ImplementsLedger ==
    /\ Ledger(0)!Init
    /\ [][\E t \in 0..clock : Ledger(t)!Next]_<<tables, handles, charges>>

\* The rows of call_reservations are those of calls in flight, and of
\* processes that died, or were refused the lock, before they settled: no
\* other end of a call leaves a row behind, none is deleted under a call,
\* every grant can still be decoded, and no statement has run into a CHECK
\* constraint of the schema.
RowsHaveOwners ==
    /\ \A p \in Processes :
          InFlight(p) => procs[p].reservation \subseteq callReservations
    /\ \A r \in callReservations : \E p \in Processes :
          /\ r \in procs[p].reservation
          /\ InFlight(p) \/ procs[p].pc \in {"crashed", "stranded"}
    /\ \A g \in DOMAIN runGrants : Decodes(g)
    /\ SchemaOK

\* Whoever reads the audit at any time gets a chain that verifies, and reads
\* every event an earlier reader got, in the same place.
AuditIsLog == Log!Spec

\* The audit has no more TOOL_CALLED events than there are charges, and as
\* many, but for the processes that have yet to append theirs, died first,
\* or were refused the lock.
ChargesAudited ==
    LET called == {e \in events : e.code = "TOOL_CALLED"}
        unrecorded ==
            {p \in Processes :
                /\ \E c \in charges : {c.reservation} = procs[p].reservation
                /\ \/ procs[p].pc \in {"audit", "auditing", "crashed"}
                   \/ procs[p].refused}
    IN  /\ Cardinality(called) <= Cardinality(charges)
        /\ Cardinality(charges) <=
              Cardinality(called) + Cardinality(unrecorded)
=============================================================================
