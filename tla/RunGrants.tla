----------------------------- MODULE RunGrants -----------------------------
(***************************************************************************)
(* The run-grant ledger of packages/core: RunGrantStore over the           *)
(* InMemoryRunGrantRepository (run-grants.ts).  A grant is a quota of      *)
(* calls and of response bytes, valid until a time; a caller reserves a    *)
(* call, and later commits it (charging the bytes of the answer) or        *)
(* releases it.  Every store operation runs to completion without an       *)
(* await, so each is one action: the store's authorization and the         *)
(* repository's update see the same record, and the revision the store     *)
(* read is the revision the repository requires.                           *)
(*                                                                         *)
(* Tokens and issuer ids are left out: a presented grant is its id, i.e.   *)
(* a handle whose token matched; any other handle is denied and changes    *)
(* nothing.                                                                *)
(***************************************************************************)
EXTENDS Naturals, FiniteSets

CONSTANTS
    GrantIds,        \* the ids randomUUID may give to grants
    ReservationIds,  \* the ids randomUUID may give to reservations
    Requests,        \* the requests issue() may be called with
    MaxTime,         \* bound: the clock stops here
    Revisions        \* bound: expire() is repeated only at these revisions

Request == [maxCalls : Nat, maxResponseBytes : Nat,
            maxTotalResponseBytes : Nat, issuedAt : Nat, expiresAt : Nat]

ASSUME RunGrantsAssumption ==
    /\ Requests \subseteq Request
    /\ MaxTime \in Nat

RunGrantState == {"active", "revoked", "expired", "consumed", "exhausted"}

StoredRunGrant ==
    [maxCalls : Nat, maxResponseBytes : Nat, maxTotalResponseBytes : Nat,
     expiresAt : Nat, callsUsed : Nat, responseBytesUsed : Nat,
     reservedCalls : Nat, reservedResponseBytes : Nat,
     state : RunGrantState, revision : Nat]

CallReservation ==
    [id : ReservationIds, grantId : GrantIds, revision : Nat,
     maxResponseBytes : Nat]

VARIABLES
    records,       \* #records: the grants issued so far, by id
    reservations,  \* #reservations: the calls reserved and not yet settled
    handles,       \* history: every reservation ever returned to a caller
    charges,       \* history: every commit, with the bytes it charged
    clock          \* the time the caller's clock shows

grantVars == <<records, reservations, handles, charges, clock>>

TypeOK ==
    /\ DOMAIN records \subseteq GrantIds
    /\ records \in [DOMAIN records -> StoredRunGrant]
    /\ reservations \subseteq handles
    /\ handles \subseteq CallReservation
    /\ charges \subseteq [reservation : handles, bytes : Nat]
    /\ clock \in Nat

Least(a, b) == IF a <= b THEN a ELSE b

-----------------------------------------------------------------------------
(* The record checks every operation is guarded by. *)

\* active(record, now), also the test authorize() makes
Active(record, now) == record.state = "active" /\ now < record.expiresAt

\* #authorized(grant, now): the presented handle names an active record
Authorized(g, now) == g \in DOMAIN records /\ Active(records[g], now)

\* clone(record, changes): the record is replaced and its revision advances
Save(g, record) ==
    records' = [records EXCEPT ![g] =
                   [record EXCEPT !.revision = records[g].revision + 1]]

Remaining(record) ==
    record.maxTotalResponseBytes
        - (record.responseBytesUsed + record.reservedResponseBytes)

-----------------------------------------------------------------------------
(* Operations of the store.  An operation that throws changes nothing. *)

ValidRequest(q, now) ==
    /\ q.maxCalls > 0
    /\ q.maxResponseBytes > 0
    /\ q.maxTotalResponseBytes > 0
    /\ q.maxResponseBytes <= q.maxTotalResponseBytes
    /\ q.issuedAt <= now
    /\ now < q.expiresAt

Issued(q) ==
    [maxCalls |-> q.maxCalls, maxResponseBytes |-> q.maxResponseBytes,
     maxTotalResponseBytes |-> q.maxTotalResponseBytes,
     expiresAt |-> q.expiresAt, callsUsed |-> 0, responseBytesUsed |-> 0,
     reservedCalls |-> 0, reservedResponseBytes |-> 0,
     state |-> "active", revision |-> 0]

Issue(g, q) ==
    /\ g \notin DOMAIN records
    /\ ValidRequest(q, clock)
    /\ records' = [x \in DOMAIN records \cup {g} |->
                      IF x = g THEN Issued(q) ELSE records[x]]
    /\ UNCHANGED <<reservations, handles, charges, clock>>

\* Mutant: only the calls already charged count against the quota.
CanReserveIgnoringOpen(record) ==
    /\ record.callsUsed < record.maxCalls
    /\ record.responseBytesUsed + record.reservedResponseBytes
           < record.maxTotalResponseBytes

CanReserve(record) ==
    /\ record.callsUsed + record.reservedCalls < record.maxCalls
    /\ record.responseBytesUsed + record.reservedResponseBytes
           < record.maxTotalResponseBytes

NewReservation(g, id) ==
    [id |-> id, grantId |-> g, revision |-> records[g].revision + 1,
     maxResponseBytes |->
        Least(records[g].maxResponseBytes, Remaining(records[g]))]

ReserveCall(g, id) ==
    /\ Authorized(g, clock)
    /\ CanReserve(records[g])
    /\ \A h \in handles : h.id # id
    /\ LET r == NewReservation(g, id) IN
        /\ Save(g, [records[g] EXCEPT
                       !.reservedCalls = @ + 1,
                       !.reservedResponseBytes = @ + r.maxResponseBytes])
        /\ reservations' = reservations \cup {r}
        /\ handles' = handles \cup {r}
    /\ UNCHANGED <<charges, clock>>

\* The guard both ways of settling share, on the counters of the record.
HoldsReservation(record, r) ==
    /\ record.reservedCalls >= 1
    /\ record.reservedResponseBytes >= r.maxResponseBytes

Settled(record, r) ==
    [record EXCEPT
        !.reservedCalls = @ - 1,
        !.reservedResponseBytes = @ - r.maxResponseBytes]

\* Mutant: calls in flight count towards exhaustion.
ExhaustsEarly(record, bytes) ==
    \/ record.callsUsed + record.reservedCalls >= record.maxCalls
    \/ record.responseBytesUsed + bytes >= record.maxTotalResponseBytes

\* Mutant: a grant whose totals are just reached is not exhausted.
ExhaustsLate(record, bytes) ==
    \/ record.callsUsed + 1 > record.maxCalls
    \/ record.responseBytesUsed + bytes > record.maxTotalResponseBytes

Exhausts(record, bytes) ==
    \/ record.callsUsed + 1 >= record.maxCalls
    \/ record.responseBytesUsed + bytes >= record.maxTotalResponseBytes

Charged(record, r, bytes) ==
    [Settled(record, r) EXCEPT
        !.callsUsed = @ + 1,
        !.responseBytesUsed = @ + bytes,
        !.state = IF Exhausts(record, bytes) THEN "exhausted" ELSE "active"]

\* Mutant: the settled reservation stays in the map.
KeepOpen(r) == UNCHANGED reservations

Close(r) == reservations' = reservations \ {r}

\* Mutant: only the grant presented is checked, not the one charged.
CanCommitUnchecked(presented, r, bytes) ==
    /\ Authorized(presented, clock)
    /\ r \in reservations
    /\ r.grantId \in DOMAIN records
    /\ HoldsReservation(records[r.grantId], r)

\* The grant presented is authorized, and the reservation's own grant is
\* charged: the store does not require the two to be the same grant.
CanCommit(presented, r, bytes) ==
    /\ Authorized(presented, clock)
    /\ r \in reservations
    /\ bytes <= r.maxResponseBytes
    /\ r.grantId \in DOMAIN records
    /\ HoldsReservation(records[r.grantId], r)
    /\ Active(records[r.grantId], clock)
    /\ records[r.grantId].responseBytesUsed + bytes
           <= records[r.grantId].maxTotalResponseBytes

CommitCall(presented, r, bytes) ==
    /\ CanCommit(presented, r, bytes)
    /\ Save(r.grantId, Charged(records[r.grantId], r, bytes))
    /\ Close(r)
    /\ charges' = charges \cup {[reservation |-> r, bytes |-> bytes]}
    /\ UNCHANGED <<handles, clock>>

\* The presented grant replaces the reservation's, so only its own grant
\* can release it; the state of the grant and the time do not matter.
ReleaseCall(presented, r) ==
    /\ presented \in DOMAIN records
    /\ r \in reservations
    /\ r.grantId = presented
    /\ HoldsReservation(records[presented], r)
    /\ Save(presented, Settled(records[presented], r))
    /\ Close(r)
    /\ UNCHANGED <<handles, charges, clock>>

\* #transition
Transition(g, state) ==
    /\ Authorized(g, clock)
    /\ Save(g, [records[g] EXCEPT !.state = state])
    /\ UNCHANGED <<reservations, handles, charges, clock>>

Revoke(g) == Transition(g, "revoked")

Consume(g) == Transition(g, "consumed")

\* expire() authenticates the handle but asks nothing of the state.
Expire(g) ==
    /\ g \in DOMAIN records
    /\ records[g].expiresAt <= clock
    /\ records[g].revision \in Revisions
    /\ Save(g, [records[g] EXCEPT !.state = "expired"])
    /\ UNCHANGED <<reservations, handles, charges, clock>>

Tick ==
    /\ clock < MaxTime
    /\ clock' = clock + 1
    /\ UNCHANGED <<records, reservations, handles, charges>>

-----------------------------------------------------------------------------
Init ==
    /\ records = [g \in {} |-> g]
    /\ reservations = {}
    /\ handles = {}
    /\ charges = {}
    /\ clock = 0

Next ==
    \/ \E g \in GrantIds, q \in Requests : Issue(g, q)
    \/ \E g \in GrantIds, id \in ReservationIds : ReserveCall(g, id)
    \/ \E g \in GrantIds, r \in handles :
          \E bytes \in 0..r.maxResponseBytes : CommitCall(g, r, bytes)
    \/ \E g \in GrantIds, r \in handles : ReleaseCall(g, r)
    \/ \E g \in GrantIds : Revoke(g) \/ Consume(g) \/ Expire(g)
    \/ Tick

Spec == Init /\ [][Next]_grantVars

-----------------------------------------------------------------------------
(* Properties *)

ReservationsOf(g) == {r \in reservations : r.grantId = g}

ChargesOf(g) == {c \in charges : c.reservation.grantId = g}

\* The bytes a set of reservations (of charges) stands for, one element each.
ReservedBytes(S) == UNION {{r} \X (1..r.maxResponseBytes) : r \in S}

ChargedBytes(S) == UNION {{c} \X (1..c.bytes) : c \in S}

\* The call counters of a record, which reserve, commit and release update
\* incrementally, always agree with the reservations still open and with the
\* commits made: whatever the order of the settlements, none is lost or
\* counted twice.
CallsAccounted ==
    \A g \in DOMAIN records :
        /\ records[g].reservedCalls = Cardinality(ReservationsOf(g))
        /\ records[g].callsUsed = Cardinality(ChargesOf(g))

\* The same for bytes: what is set aside is the sum of what the open
\* reservations hold (each computed from what was left when it was made), and
\* what is used is the sum of what the commits charged.
BytesAccounted ==
    \A g \in DOMAIN records :
        /\ records[g].reservedResponseBytes =
               Cardinality(ReservedBytes(ReservationsOf(g)))
        /\ records[g].responseBytesUsed =
               Cardinality(ChargedBytes(ChargesOf(g)))

\* Concurrent callers never hold or spend more than the grant allows, not
\* even on the last call or the last bytes.
WithinQuota ==
    \A g \in DOMAIN records :
        /\ records[g].callsUsed + records[g].reservedCalls
               <= records[g].maxCalls
        /\ records[g].responseBytesUsed + records[g].reservedResponseBytes
               <= records[g].maxTotalResponseBytes

\* commitCall marks a grant exhausted when its totals are reached: at that
\* point no other call is in flight whose commit would then be refused.
ExhaustedIsIdle ==
    \A g \in DOMAIN records :
        records[g].state = "exhausted" => ReservationsOf(g) = {}

\* An active grant with nothing in flight always admits one more call: the
\* calls that failed gave back all they had reserved.
IdleActiveCanReserve ==
    \A g \in DOMAIN records :
        records[g].state = "active" /\ ReservationsOf(g) = {}
            => CanReserve(records[g])

\* A reservation is settled at most once: one that was charged is not open
\* any more, and no two charges name the same reservation.
SettledOnce ==
    \A c \in charges :
        /\ c.reservation \notin reservations
        /\ \A d \in charges : c.reservation = d.reservation => c = d

\* The revision a reservation carries is never given twice on one grant, so
\* it identifies the reservation, and it never runs ahead of the record.
RevisionsIdentify ==
    \A r \in handles :
        /\ r.grantId \in DOMAIN records
        /\ r.revision <= records[r.grantId].revision
        /\ \A h \in handles :
              r.grantId = h.grantId /\ r.revision = h.revision => r = h

\* No operation takes back usage, and a grant that was revoked, consumed,
\* expired or exhausted never becomes active nor is charged again, although
\* the calls in flight at that moment are still settled against its record.
NeverReopened(g) ==
    /\ g \in DOMAIN records'
    /\ records'[g].callsUsed >= records[g].callsUsed
    /\ records'[g].responseBytesUsed >= records[g].responseBytesUsed
    /\ records[g].state # "active" =>
          /\ records'[g].state # "active"
          /\ records'[g].callsUsed = records[g].callsUsed
          /\ records'[g].responseBytesUsed = records[g].responseBytesUsed

ClosedStaysClosed == [][\A g \in DOMAIN records : NeverReopened(g)]_grantVars

-----------------------------------------------------------------------------
(* What keeps the accounting inductive *)

Spent(record) ==
    \/ record.callsUsed >= record.maxCalls
    \/ record.responseBytesUsed >= record.maxTotalResponseBytes

QuotaUsable(record) ==
    /\ record.maxCalls > 0
    /\ record.maxResponseBytes > 0
    /\ record.maxTotalResponseBytes > 0

\* An open reservation holds at least a byte.
ReservationsHoldBytes == \A r \in reservations : r.maxResponseBytes > 0

\* A record is exhausted only when it is spent, and active only when not.
StateTellsSpent ==
    \A g \in DOMAIN records :
        /\ QuotaUsable(records[g])
        /\ records[g].state = "exhausted" => Spent(records[g])
        /\ records[g].state = "active" => ~Spent(records[g])

\* The inductive invariant: every part of it is needed by another part's
\* step, the type and the finiteness by all of them.
AccountingInv ==
    /\ TypeOK
    /\ RevisionsIdentify
    /\ IsFiniteSet(reservations) /\ IsFiniteSet(ReservedBytes(reservations))
    /\ IsFiniteSet(charges) /\ IsFiniteSet(ChargedBytes(charges))
    /\ ReservationsHoldBytes
    /\ SettledOnce
    /\ CallsAccounted
    /\ BytesAccounted
    /\ WithinQuota
    /\ StateTellsSpent

=============================================================================
