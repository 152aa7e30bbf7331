--------------------------- MODULE SqliteRunGrants ---------------------------
(***************************************************************************)
(* SqliteRunGrantRepository (sqlite-run-grants.ts): the run-grant ledger   *)
(* in two tables that several processes open at once.  Every operation is  *)
(* one BEGIN IMMEDIATE transaction, so it is one action; what a process    *)
(* has read before the transaction (the revision) and when (now) are       *)
(* parameters, because other processes may have written since.             *)
(*                                                                         *)
(* What is reserved is not stored: it is counted and summed from the rows  *)
(* of call_reservations whenever a grant is read.                          *)
(***************************************************************************)
EXTENDS Naturals, FiniteSets, FiniteSetsExt

CONSTANTS
    GrantIds,        \* the ids randomUUID may give to grants
    ReservationIds,  \* the ids randomUUID may give to reservations
    Requests,        \* the requests issue() may be called with
    MaxTime          \* bound: the clock stops here

ASSUME SqliteRunGrantsAssumption ==
    Requests \subseteq
        [maxCalls : Nat, maxResponseBytes : Nat, maxTotalResponseBytes : Nat,
         issuedAt : Nat, expiresAt : Nat]

VARIABLES
    runGrants,         \* table run_grants, by grant id
    callReservations,  \* table call_reservations
    handles,           \* history: every reservation ever returned to a caller
    charges,           \* history: every commit, with the bytes it charged
    clock              \* the time the processes' clocks show

tables == <<runGrants, callReservations>>

sqlVars == <<tables, handles, charges, clock>>

States == {"active", "revoked", "expired", "consumed", "exhausted"}

RunGrantRow ==
    [max_calls : Nat \ {0}, max_response_bytes : Nat \ {0},
     max_total_response_bytes : Nat \ {0}, expires_at : Nat,
     calls_used : Nat, response_bytes_used : Nat,
     state : States, revision : Nat]

ReservationRow ==
    [id : ReservationIds, grantId : GrantIds, revision : Nat,
     maxResponseBytes : Nat \ {0}]

\* The columns and the CHECK constraints of the schema.
SchemaOK ==
    /\ DOMAIN runGrants \subseteq GrantIds
    /\ \A g \in DOMAIN runGrants :
        /\ runGrants[g] \in RunGrantRow
        /\ runGrants[g].calls_used <= runGrants[g].max_calls
        /\ runGrants[g].response_bytes_used
               <= runGrants[g].max_total_response_bytes
    /\ callReservations \subseteq ReservationRow
    /\ \A r \in callReservations : r.grantId \in DOMAIN runGrants

-----------------------------------------------------------------------------
(* Reading *)

ReservationsOf(g) == {r \in callReservations : r.grantId = g}

\* #read: a stored grant, its reserved amounts taken from the other table
Read(g) ==
    [maxCalls |-> runGrants[g].max_calls,
     maxResponseBytes |-> runGrants[g].max_response_bytes,
     maxTotalResponseBytes |-> runGrants[g].max_total_response_bytes,
     expiresAt |-> runGrants[g].expires_at,
     callsUsed |-> runGrants[g].calls_used,
     responseBytesUsed |-> runGrants[g].response_bytes_used,
     reservedCalls |-> Cardinality(ReservationsOf(g)),
     reservedResponseBytes |->
        MapThenSumSet(LAMBDA r : r.maxResponseBytes, ReservationsOf(g)),
     state |-> runGrants[g].state,
     revision |-> runGrants[g].revision]

\* #decode refuses a grant that holds more than its quota: from then on no
\* operation can read it.
Decodes(g) ==
    /\ Read(g).callsUsed + Read(g).reservedCalls <= Read(g).maxCalls
    /\ Read(g).responseBytesUsed + Read(g).reservedResponseBytes
           <= Read(g).maxTotalResponseBytes

\* #required, at the revision the caller expects
Required(g, expected) ==
    g \in DOMAIN runGrants /\ Decodes(g) /\ Read(g).revision = expected

Active(record, now) == record.state = "active" /\ now < record.expiresAt

-----------------------------------------------------------------------------
(* Writing *)

\* #update and #casRevision: the revision advances with every write
Update(g, columns) ==
    runGrants' = [runGrants EXCEPT ![g] =
                     [columns EXCEPT !.revision = runGrants[g].revision + 1]]

ValidRequest(q) ==
    /\ q.maxCalls > 0
    /\ q.maxResponseBytes > 0
    /\ q.maxResponseBytes <= q.maxTotalResponseBytes
    /\ q.issuedAt <= clock
    /\ clock < q.expiresAt

NewRow(q) ==
    [max_calls |-> q.maxCalls, max_response_bytes |-> q.maxResponseBytes,
     max_total_response_bytes |-> q.maxTotalResponseBytes,
     expires_at |-> q.expiresAt, calls_used |-> 0, response_bytes_used |-> 0,
     state |-> "active", revision |-> 0]

\* issue: an id that exists violates the primary key
Issue(g, q) ==
    /\ ValidRequest(q)
    /\ g \notin DOMAIN runGrants
    /\ runGrants' = [x \in DOMAIN runGrants \cup {g} |->
                        IF x = g THEN NewRow(q) ELSE runGrants[x]]
    /\ UNCHANGED <<callReservations, handles, charges, clock>>

RemainingBytes(record) ==
    record.maxTotalResponseBytes
        - record.responseBytesUsed - record.reservedResponseBytes

CanReserve(g, expected, now) ==
    /\ Required(g, expected)
    /\ Active(Read(g), now)
    /\ Read(g).callsUsed + Read(g).reservedCalls < Read(g).maxCalls
    /\ Read(g).responseBytesUsed + Read(g).reservedResponseBytes
           < Read(g).maxTotalResponseBytes

Reservation(g, id) ==
    [id |-> id, grantId |-> g, revision |-> runGrants[g].revision + 1,
     maxResponseBytes |-> Min({Read(g).maxResponseBytes,
                               RemainingBytes(Read(g))})]

ReserveCall(g, id, expected, now) ==
    /\ CanReserve(g, expected, now)
    /\ \A h \in handles : h.id # id
    /\ Update(g, runGrants[g])
    /\ callReservations' = callReservations \cup {Reservation(g, id)}
    /\ handles' = handles \cup {Reservation(g, id)}
    /\ UNCHANGED <<charges, clock>>

\* commitCall's checks; #reservation finds the row and compares it with r
CanCommit(r, bytes, now) ==
    /\ r \in callReservations
    /\ Decodes(r.grantId)
    /\ Active(Read(r.grantId), now)
    /\ bytes <= r.maxResponseBytes
    /\ Read(r.grantId).callsUsed + 1 <= Read(r.grantId).maxCalls
    /\ Read(r.grantId).responseBytesUsed + bytes
           <= Read(r.grantId).maxTotalResponseBytes

DeleteRow(r) == callReservations' = callReservations \ {r}

CommitCall(r, bytes, now) ==
    /\ CanCommit(r, bytes, now)
    /\ DeleteRow(r)
    /\ LET record == Read(r.grantId)
           spent == \/ record.callsUsed + 1 >= record.maxCalls
                    \/ record.responseBytesUsed + bytes
                          >= record.maxTotalResponseBytes
       IN  Update(r.grantId,
                  [runGrants[r.grantId] EXCEPT
                      !.calls_used = @ + 1,
                      !.response_bytes_used = @ + bytes,
                      !.state = IF spent THEN "exhausted" ELSE "active"])
    /\ charges' = charges \cup {[reservation |-> r, bytes |-> bytes]}
    /\ UNCHANGED <<handles, clock>>

\* Neither the state of the grant nor the time matters to a release.
ReleaseCall(r) ==
    /\ r \in callReservations
    /\ Decodes(r.grantId)
    /\ DeleteRow(r)
    /\ Update(r.grantId, runGrants[r.grantId])
    /\ UNCHANGED <<handles, charges, clock>>

\* Mutant: the grant is not looked at again inside the transaction.
CanTransitUnread(g, expected, now, state) == g \in DOMAIN runGrants

\* revoke and consume need an active grant, expire one whose time is past
CanTransit(g, expected, now, state) ==
    /\ Required(g, expected)
    /\ IF state = "expired" THEN runGrants[g].expires_at <= now
       ELSE Active(Read(g), now)

Transition(g, expected, now, state) ==
    /\ CanTransit(g, expected, now, state)
    /\ Update(g, [runGrants[g] EXCEPT !.state = state])
    /\ UNCHANGED <<callReservations, handles, charges, clock>>

Tick ==
    /\ clock < MaxTime
    /\ clock' = clock + 1
    /\ UNCHANGED <<tables, handles, charges>>

SqlInit ==
    /\ runGrants = [g \in {} |-> g]
    /\ callReservations = {}
    /\ handles = {}
    /\ charges = {}
    /\ clock = 0

-----------------------------------------------------------------------------
(* The ledger these tables implement, at a time t *)

Records == [g \in DOMAIN runGrants |-> Read(g)]

Ledger(t) == INSTANCE RunGrants WITH
    records <- Records, reservations <- callReservations, clock <- t,
    Revisions <- Nat

=============================================================================
