----------------------- MODULE ReadOnlyGatewayProofs -----------------------
(***************************************************************************)
(* Proofs about RunGrants, for every set of ids and of requests, and about *)
(* ReadOnlyGateway, which extends it, for any number of calls, any ledger  *)
(* and any deadlines.                                                      *)
(*                                                                         *)
(* Of the ledger (its specification is Spec): the accounting of calls and  *)
(* bytes, and what follows from it.  Of the gateway (GatewaySpec): that    *)
(* its steps are steps of the ledger, that the ledger agrees with the      *)
(* calls, that the kill switch is final, and that the audit tells the      *)
(* outcomes.                                                               *)
(***************************************************************************)
EXTENDS ReadOnlyGateway, FiniteSetTheorems, TLAPS

-----------------------------------------------------------------------------
(* RunGrants                                                               *)

(***************************************************************************)
(* Counting: a pile of n elements tagged with x, beside piles with other   *)
(* tags.  Both byte counters are sums of such piles.                       *)
(***************************************************************************)
LEMMA PileAdds ==
    ASSUME NEW A, IsFiniteSet(A), NEW x, NEW n \in Nat,
           \A p \in A : p[1] # x
    PROVE  /\ IsFiniteSet(A \cup ({x} \X (1..n)))
           /\ Cardinality(A \cup ({x} \X (1..n))) = Cardinality(A) + n
<1> DEFINE P == {x} \X (1..n)
<1>1. IsFiniteSet(1..n) /\ Cardinality(1..n) = n
    <2>1. /\ IsFiniteSet(1..n)
          /\ Cardinality(1..n) = IF 1 > n THEN 0 ELSE n - 1 + 1
        BY FS_Interval, 1 \in Int, n \in Int, Zenon
    <2> QED
        BY <2>1
<1>2. IsFiniteSet({x}) /\ Cardinality({x}) = 1
    BY FS_Singleton
<1>3. IsFiniteSet(P) /\ Cardinality(P) = 1 * n
    BY <1>1, <1>2, FS_Product
<1>4. A \cap P = {}
    OBVIOUS
<1>5. Cardinality(A \cap P) = 0
    BY <1>4, FS_EmptySet
<1>6. Cardinality(A) \in Nat
    BY FS_CardinalityType
<1>7. /\ IsFiniteSet(A \cup P)
      /\ Cardinality(A \cup P) =
            Cardinality(A) + Cardinality(P) - Cardinality(A \cap P)
    <2> HIDE DEF P
    <2> QED
        BY <1>3, FS_Union
<1> QED
    BY <1>3, <1>5, <1>6, <1>7

(***************************************************************************)
(* A new reservation adds its bytes to those of a set of reservations, and *)
(* settling one removes them.                                              *)
(***************************************************************************)
LEMMA ReserveAddsBytes ==
    ASSUME NEW S, NEW r, r \notin S, r.maxResponseBytes \in Nat,
           IsFiniteSet(ReservedBytes(S))
    PROVE  /\ IsFiniteSet(ReservedBytes(S \cup {r}))
           /\ Cardinality(ReservedBytes(S \cup {r})) =
                 Cardinality(ReservedBytes(S)) + r.maxResponseBytes
<1>1. ReservedBytes(S \cup {r}) =
          ReservedBytes(S) \cup ({r} \X (1..r.maxResponseBytes))
    BY DEF ReservedBytes
<1> DEFINE A == ReservedBytes(S)
           n == r.maxResponseBytes
<1>2. IsFiniteSet(A) /\ n \in Nat /\ \A p \in A : p[1] # r
    BY DEF ReservedBytes
<1>3. /\ IsFiniteSet(A \cup ({r} \X (1..n)))
      /\ Cardinality(A \cup ({r} \X (1..n))) = Cardinality(A) + n
    <2> HIDE DEF A, n
    <2> QED
        BY <1>2, PileAdds
<1> QED
    BY <1>1, <1>3

\* Settling a reservation, by commitCall or releaseCall, takes its bytes off
\* those of the reservations that are open.
LEMMA SettleRemovesBytes ==
    ASSUME NEW S, NEW r \in S, r.maxResponseBytes \in Nat,
           IsFiniteSet(ReservedBytes(S))
    PROVE  /\ IsFiniteSet(ReservedBytes(S \ {r}))
           /\ Cardinality(ReservedBytes(S \ {r})) \in Nat
           /\ Cardinality(ReservedBytes(S)) =
                 Cardinality(ReservedBytes(S \ {r})) + r.maxResponseBytes
<1>1. IsFiniteSet(ReservedBytes(S \ {r}))
    <2>1. ReservedBytes(S \ {r}) \subseteq ReservedBytes(S)
        BY DEF ReservedBytes
    <2> QED
        BY <2>1, FS_Subset
<1>2. (S \ {r}) \cup {r} = S
    OBVIOUS
<1>3. r \notin S \ {r}
    OBVIOUS
<1> DEFINE Rest == S \ {r}
<1>4. Cardinality(ReservedBytes(Rest \cup {r})) =
          Cardinality(ReservedBytes(Rest)) + r.maxResponseBytes
    <2> HIDE DEF Rest
    <2> QED
        BY <1>1, <1>3, ReserveAddsBytes DEF Rest
<1> QED
    BY <1>1, <1>2, <1>4, FS_CardinalityType

(***************************************************************************)
(* A new charge adds its bytes.                                            *)
(***************************************************************************)
LEMMA ChargeAddsBytes ==
    ASSUME NEW S, NEW c, c \notin S, c.bytes \in Nat,
           IsFiniteSet(ChargedBytes(S))
    PROVE  /\ IsFiniteSet(ChargedBytes(S \cup {c}))
           /\ Cardinality(ChargedBytes(S \cup {c})) =
                 Cardinality(ChargedBytes(S)) + c.bytes
<1>1. ChargedBytes(S \cup {c}) = ChargedBytes(S) \cup ({c} \X (1..c.bytes))
    BY DEF ChargedBytes
<1> DEFINE A == ChargedBytes(S)
           n == c.bytes
<1>2. IsFiniteSet(A) /\ n \in Nat /\ \A p \in A : p[1] # c
    BY DEF ChargedBytes
<1>3. /\ IsFiniteSet(A \cup ({c} \X (1..n)))
      /\ Cardinality(A \cup ({c} \X (1..n))) = Cardinality(A) + n
    <2> HIDE DEF A, n
    <2> QED
        BY <1>2, PileAdds
<1> QED
    BY <1>1, <1>3

-----------------------------------------------------------------------------
(***************************************************************************)
(* What Save does to the records: only g changes, and only as told.        *)
(***************************************************************************)
LEMMA SaveRecord ==
    ASSUME TypeOK, NEW g \in DOMAIN records, NEW rec \in StoredRunGrant,
           Save(g, rec)
    PROVE  /\ DOMAIN records' = DOMAIN records
           /\ records' \in [DOMAIN records' -> StoredRunGrant]
           /\ \A x \in DOMAIN records : x # g => records'[x] = records[x]
           /\ records'[g].revision = records[g].revision + 1
           /\ records'[g].callsUsed = rec.callsUsed
           /\ records'[g].responseBytesUsed = rec.responseBytesUsed
           /\ records'[g].reservedCalls = rec.reservedCalls
           /\ records'[g].reservedResponseBytes = rec.reservedResponseBytes
           /\ records'[g].state = rec.state
           /\ records'[g].maxCalls = rec.maxCalls
           /\ records'[g].maxResponseBytes = rec.maxResponseBytes
           /\ records'[g].maxTotalResponseBytes = rec.maxTotalResponseBytes
<1> DEFINE revision == records[g].revision + 1
           new == [rec EXCEPT !.revision = revision]
<1>1. revision \in Nat
    BY DEF TypeOK, StoredRunGrant
<1>2. records' = [records EXCEPT ![g] = new]
    BY DEF Save
<1> HIDE DEF revision
<1>3. new \in StoredRunGrant
    BY <1>1 DEF StoredRunGrant
<1>4. /\ DOMAIN records' = DOMAIN records
      /\ records' \in [DOMAIN records' -> StoredRunGrant]
      /\ records'[g] = new
      /\ \A x \in DOMAIN records : x # g => records'[x] = records[x]
    <2> HIDE DEF new
    <2> QED
        BY <1>2, <1>3 DEF TypeOK
<1> QED
    BY <1>3, <1>4 DEF revision, StoredRunGrant

(***************************************************************************)
(* The records reserving and settling write are records, and which of      *)
(* their fields differ.                                                    *)
(***************************************************************************)
LEMMA ReserveType ==
    ASSUME TypeOK, NEW g \in GrantIds, NEW id \in ReservationIds,
           g \in DOMAIN records, CanReserve(records[g])
    PROVE  LET r == NewReservation(g, id) IN
           /\ r \in CallReservation
           /\ r.id = id /\ r.grantId = g
           /\ r.revision = records[g].revision + 1
           /\ records[g].responseBytesUsed
                + records[g].reservedResponseBytes + r.maxResponseBytes
                    <= records[g].maxTotalResponseBytes
           /\ records[g].maxResponseBytes > 0 => r.maxResponseBytes > 0
<1>1. records[g] \in StoredRunGrant
    BY DEF TypeOK
<1>2. Remaining(records[g]) \in Nat \ {0}
    BY <1>1 DEF StoredRunGrant, Remaining, CanReserve
<1> DEFINE bytes == Least(records[g].maxResponseBytes, Remaining(records[g]))
<1>3. /\ bytes \in Nat
      /\ bytes <= Remaining(records[g])
      /\ records[g].maxResponseBytes > 0 => bytes > 0
    BY <1>1, <1>2 DEF StoredRunGrant, Least
<1>4. records[g].responseBytesUsed + records[g].reservedResponseBytes + bytes
          <= records[g].maxTotalResponseBytes
    BY <1>1, <1>3 DEF StoredRunGrant, Remaining
<1>5. /\ NewReservation(g, id) \in CallReservation
      /\ NewReservation(g, id).maxResponseBytes = bytes
      /\ NewReservation(g, id).id = id
      /\ NewReservation(g, id).grantId = g
      /\ NewReservation(g, id).revision = records[g].revision + 1
    BY <1>1, <1>3 DEF NewReservation, CallReservation, StoredRunGrant
<1> QED
    BY <1>3, <1>4, <1>5

\* What reserveCall writes to the record is a record, with one more call and
\* the bytes of the reservation held.
LEMMA ReservingType ==
    ASSUME NEW rec \in StoredRunGrant, NEW r \in CallReservation
    PROVE  LET new == [rec EXCEPT
                          !.reservedCalls = @ + 1,
                          !.reservedResponseBytes = @ + r.maxResponseBytes]
           IN  /\ new \in StoredRunGrant
               /\ new.reservedCalls = rec.reservedCalls + 1
               /\ new.reservedResponseBytes =
                      rec.reservedResponseBytes + r.maxResponseBytes
               /\ new.callsUsed = rec.callsUsed
               /\ new.responseBytesUsed = rec.responseBytesUsed
               /\ new.state = rec.state
               /\ new.maxCalls = rec.maxCalls
               /\ new.maxResponseBytes = rec.maxResponseBytes
               /\ new.maxTotalResponseBytes = rec.maxTotalResponseBytes
<1> DEFINE count == rec.reservedCalls + 1
           bytes == rec.reservedResponseBytes + r.maxResponseBytes
           new == [rec EXCEPT !.reservedCalls = count,
                              !.reservedResponseBytes = bytes]
<1>1. count \in Nat /\ bytes \in Nat
    BY DEF StoredRunGrant, CallReservation
<1> HIDE DEF count, bytes
<1>2. new \in StoredRunGrant
    BY <1>1 DEF StoredRunGrant
<1> QED
    BY <1>1, <1>2 DEF StoredRunGrant, count, bytes

\* What releaseCall writes to the record is a record, with one call and the
\* bytes of the reservation given back and the rest as it was.
LEMMA SettledType ==
    ASSUME NEW rec \in StoredRunGrant, NEW r \in CallReservation,
           HoldsReservation(rec, r)
    PROVE  LET new == Settled(rec, r)
           IN  /\ new \in StoredRunGrant
               /\ new.reservedCalls = rec.reservedCalls - 1
               /\ new.reservedResponseBytes =
                      rec.reservedResponseBytes - r.maxResponseBytes
               /\ new.callsUsed = rec.callsUsed
               /\ new.responseBytesUsed = rec.responseBytesUsed
               /\ new.state = rec.state
               /\ new.maxCalls = rec.maxCalls
               /\ new.maxResponseBytes = rec.maxResponseBytes
               /\ new.maxTotalResponseBytes = rec.maxTotalResponseBytes
<1> DEFINE count == rec.reservedCalls - 1
           bytes == rec.reservedResponseBytes - r.maxResponseBytes
           new == [rec EXCEPT !.reservedCalls = count,
                              !.reservedResponseBytes = bytes]
<1>1. count \in Nat /\ bytes \in Nat
    BY DEF StoredRunGrant, CallReservation, HoldsReservation
<1>2. /\ new \in StoredRunGrant
      /\ new.reservedCalls = count
      /\ new.reservedResponseBytes = bytes
      /\ new.callsUsed = rec.callsUsed
      /\ new.responseBytesUsed = rec.responseBytesUsed
      /\ new.state = rec.state
      /\ new.maxCalls = rec.maxCalls
      /\ new.maxResponseBytes = rec.maxResponseBytes
      /\ new.maxTotalResponseBytes = rec.maxTotalResponseBytes
    <2> HIDE DEF count, bytes
    <2>1. new \in StoredRunGrant
        BY <1>1 DEF StoredRunGrant
    <2> QED
        BY <1>1, <2>1 DEF StoredRunGrant
<1> QED
    BY <1>2 DEF Settled

\* What commitCall writes to the record is a record, with the call and its
\* bytes moved from reserved to used.
LEMMA ChargedType ==
    ASSUME NEW rec \in StoredRunGrant, NEW r \in CallReservation,
           NEW bytes \in Nat, HoldsReservation(rec, r)
    PROVE  LET new == Charged(rec, r, bytes)
           IN  /\ new \in StoredRunGrant
               /\ new.reservedCalls = rec.reservedCalls - 1
               /\ new.reservedResponseBytes =
                      rec.reservedResponseBytes - r.maxResponseBytes
               /\ new.callsUsed = rec.callsUsed + 1
               /\ new.responseBytesUsed = rec.responseBytesUsed + bytes
               /\ new.maxCalls = rec.maxCalls
               /\ new.maxResponseBytes = rec.maxResponseBytes
               /\ new.maxTotalResponseBytes = rec.maxTotalResponseBytes
               /\ new.state \in {"exhausted", "active"}
               /\ new.state = "exhausted" <=> Spent(new)
<1> DEFINE old == Settled(rec, r)
           count == rec.callsUsed + 1
           used == rec.responseBytesUsed + bytes
           st == IF \/ rec.callsUsed + 1 >= rec.maxCalls
                    \/ rec.responseBytesUsed + bytes
                           >= rec.maxTotalResponseBytes
                 THEN "exhausted" ELSE "active"
           new == [old EXCEPT !.callsUsed = count,
                              !.responseBytesUsed = used,
                              !.state = st]
<1>1. /\ old \in StoredRunGrant
      /\ old.reservedCalls = rec.reservedCalls - 1
      /\ old.reservedResponseBytes =
             rec.reservedResponseBytes - r.maxResponseBytes
      /\ old.callsUsed = rec.callsUsed
      /\ old.responseBytesUsed = rec.responseBytesUsed
      /\ old.maxCalls = rec.maxCalls
      /\ old.maxResponseBytes = rec.maxResponseBytes
      /\ old.maxTotalResponseBytes = rec.maxTotalResponseBytes
    BY SettledType
<1>2. /\ count \in Nat
      /\ used \in Nat
      /\ st \in RunGrantState
      /\ st \in {"exhausted", "active"}
    BY DEF StoredRunGrant, RunGrantState
<1>3. /\ new \in StoredRunGrant
      /\ new.callsUsed = count
      /\ new.responseBytesUsed = used
      /\ new.state = st
      /\ new.reservedCalls = old.reservedCalls
      /\ new.reservedResponseBytes = old.reservedResponseBytes
      /\ new.maxCalls = old.maxCalls
      /\ new.maxResponseBytes = old.maxResponseBytes
      /\ new.maxTotalResponseBytes = old.maxTotalResponseBytes
    <2> HIDE DEF old, count, used, st
    <2>1. [old EXCEPT !.callsUsed = count, !.responseBytesUsed = used]
              \in StoredRunGrant
        BY <1>1, <1>2 DEF StoredRunGrant
    <2>2. ASSUME NEW other \in StoredRunGrant
          PROVE  [other EXCEPT !.state = st] \in StoredRunGrant
        BY <1>2 DEF StoredRunGrant
    <2>3. [[old EXCEPT !.callsUsed = count, !.responseBytesUsed = used]
              EXCEPT !.state = st] = new
        OBVIOUS
    <2>4. new \in StoredRunGrant
        BY <2>1, <2>2, <2>3
    <2> QED
        BY <1>1, <2>4 DEF StoredRunGrant
<1>4. Charged(rec, r, bytes) = new
    BY <1>1 DEF Charged, Exhausts
<1>5. new.state = "exhausted" <=> Spent(new)
    <2> HIDE DEF new, old
    <2> QED
        BY <1>1, <1>3 DEF Spent
<1> QED
    <2> HIDE DEF new, old, st
    <2> QED
        BY <1>1, <1>2, <1>3, <1>4, <1>5

\* What issue stores for a valid request is a record with nothing used.
LEMMA IssuedType ==
    ASSUME NEW q \in Requests
    PROVE  Issued(q) \in StoredRunGrant
BY RunGrantsAssumption
   DEF Issued, Request, StoredRunGrant, RunGrantState

-----------------------------------------------------------------------------
(***************************************************************************)
(* Type correctness: in every reachable state each record is a record,     *)
(* its counters natural numbers (the counters run-grants.ts decrements on  *)
(* commit and release never go below zero), and every open reservation and *)
(* charge is one that was handed out.                                      *)
(***************************************************************************)
LEMMA TypeStep ==
    TypeOK /\ [Next]_grantVars => TypeOK'
<1> SUFFICES ASSUME TypeOK, [Next]_grantVars
             PROVE  TypeOK'
    OBVIOUS
<1>1. ASSUME NEW g \in GrantIds, NEW q \in Requests, Issue(g, q)
      PROVE  TypeOK'
    BY <1>1, IssuedType DEF TypeOK, Issue
<1>2. ASSUME NEW g \in GrantIds, NEW id \in ReservationIds,
             ReserveCall(g, id)
      PROVE  TypeOK'
    <2> DEFINE r == NewReservation(g, id)
               new == [records[g] EXCEPT
                          !.reservedCalls = @ + 1,
                          !.reservedResponseBytes = @ + r.maxResponseBytes]
    <2>1. /\ g \in DOMAIN records /\ CanReserve(records[g])
          /\ Save(g, new)
          /\ reservations' = reservations \cup {r}
          /\ handles' = handles \cup {r}
          /\ UNCHANGED <<charges, clock>>
        BY <1>2 DEF ReserveCall, Authorized
    <2>2. r \in CallReservation
        BY <2>1, ReserveType
    <2>3. new \in StoredRunGrant
        BY <2>1, <2>2, ReservingType DEF TypeOK
    <2> HIDE DEF r, new
    <2>4. /\ DOMAIN records' = DOMAIN records
          /\ records' \in [DOMAIN records' -> StoredRunGrant]
        BY <2>1, <2>3, SaveRecord
    <2> QED
        BY <2>1, <2>2, <2>4 DEF TypeOK
<1>3. ASSUME NEW g \in GrantIds, NEW r \in handles,
             NEW bytes \in 0..r.maxResponseBytes, CommitCall(g, r, bytes)
      PROVE  TypeOK'
    <2> DEFINE h == r.grantId
               new == Charged(records[h], r, bytes)
    <2>1. /\ h \in DOMAIN records /\ HoldsReservation(records[h], r)
          /\ Save(h, new)
          /\ reservations' = reservations \ {r}
          /\ charges' = charges \cup {[reservation |-> r, bytes |-> bytes]}
          /\ UNCHANGED <<handles, clock>>
        BY <1>3 DEF CommitCall, CanCommit, Close
    <2>2. r \in CallReservation /\ bytes \in Nat
        BY <1>3 DEF TypeOK, CallReservation
    <2>3. new \in StoredRunGrant
        BY <2>1, <2>2, ChargedType DEF TypeOK
    <2> HIDE DEF h, new
    <2>4. /\ DOMAIN records' = DOMAIN records
          /\ records' \in [DOMAIN records' -> StoredRunGrant]
        BY <2>1, <2>3, SaveRecord
    <2> QED
        BY <2>1, <2>2, <2>4 DEF TypeOK
<1>4. ASSUME NEW g \in GrantIds, NEW r \in handles, ReleaseCall(g, r)
      PROVE  TypeOK'
    <2>1. /\ g \in DOMAIN records /\ HoldsReservation(records[g], r)
          /\ Save(g, Settled(records[g], r))
          /\ reservations' = reservations \ {r}
          /\ UNCHANGED <<handles, charges, clock>>
        BY <1>4 DEF ReleaseCall, Close
    <2>2. Settled(records[g], r) \in StoredRunGrant
        BY <2>1, SettledType DEF TypeOK
    <2>3. /\ DOMAIN records' = DOMAIN records
          /\ records' \in [DOMAIN records' -> StoredRunGrant]
        BY <2>1, <2>2, SaveRecord
    <2> QED
        BY <2>1, <2>3 DEF TypeOK
<1>5. ASSUME NEW g \in GrantIds, Revoke(g) \/ Consume(g) \/ Expire(g)
      PROVE  TypeOK'
    <2>1. PICK st \in RunGrantState :
              /\ g \in DOMAIN records
              /\ Save(g, [records[g] EXCEPT !.state = st])
              /\ UNCHANGED <<reservations, handles, charges, clock>>
        BY <1>5 DEF Revoke, Consume, Expire, Transition, Authorized,
                    RunGrantState
    <2>2. [records[g] EXCEPT !.state = st] \in StoredRunGrant
        BY <2>1 DEF TypeOK, StoredRunGrant
    <2>3. /\ DOMAIN records' = DOMAIN records
          /\ records' \in [DOMAIN records' -> StoredRunGrant]
        BY <2>1, <2>2, SaveRecord
    <2> QED
        BY <2>1, <2>3 DEF TypeOK
<1>6. ASSUME Tick
      PROVE  TypeOK'
    BY <1>6 DEF TypeOK, Tick
<1>7. ASSUME UNCHANGED grantVars
      PROVE  TypeOK'
    BY <1>7 DEF TypeOK, grantVars
<1> QED
    BY <1>1, <1>2, <1>3, <1>4, <1>5, <1>6, <1>7 DEF Next

\* The repository's two maps hold records and reservations of their types, and
\* the counters of a record stay natural numbers, whatever is called.
THEOREM TypeCorrect == Spec => []TypeOK
<1>1. Init => TypeOK
    BY DEF Init, TypeOK
<1> QED
    BY <1>1, TypeStep, PTL DEF Spec

-----------------------------------------------------------------------------
(***************************************************************************)
(* The reservations and the charges of one grant, and their bytes, are     *)
(* finite sets.                                                            *)
(***************************************************************************)
LEMMA PartsFinite ==
    ASSUME AccountingInv, NEW g
    PROVE  /\ IsFiniteSet(ReservationsOf(g))
           /\ IsFiniteSet(ReservedBytes(ReservationsOf(g)))
           /\ IsFiniteSet(ChargesOf(g))
           /\ IsFiniteSet(ChargedBytes(ChargesOf(g)))
<1>1. /\ ReservationsOf(g) \subseteq reservations
      /\ ReservedBytes(ReservationsOf(g)) \subseteq ReservedBytes(reservations)
      /\ ChargesOf(g) \subseteq charges
      /\ ChargedBytes(ChargesOf(g)) \subseteq ChargedBytes(charges)
    BY DEF ReservationsOf, ReservedBytes, ChargesOf, ChargedBytes
<1>2. /\ IsFiniteSet(reservations) /\ IsFiniteSet(ReservedBytes(reservations))
      /\ IsFiniteSet(charges) /\ IsFiniteSet(ChargedBytes(charges))
    BY DEF AccountingInv
<1> QED
    BY <1>1, <1>2, FS_Subset

(***************************************************************************)
(* An operation that touches neither reservations nor charges, and leaves  *)
(* the counters and the limits of every record alone, keeps the accounts.  *)
(***************************************************************************)
LEMMA SameCounters ==
    ASSUME AccountingInv, TypeOK', RevisionsIdentify',
           DOMAIN records' = DOMAIN records,
           UNCHANGED <<reservations, handles, charges>>,
           \A x \in DOMAIN records :
              /\ records'[x].callsUsed = records[x].callsUsed
              /\ records'[x].responseBytesUsed = records[x].responseBytesUsed
              /\ records'[x].reservedCalls = records[x].reservedCalls
              /\ records'[x].reservedResponseBytes =
                     records[x].reservedResponseBytes
              /\ records'[x].maxCalls = records[x].maxCalls
              /\ records'[x].maxResponseBytes = records[x].maxResponseBytes
              /\ records'[x].maxTotalResponseBytes =
                     records[x].maxTotalResponseBytes
              /\ \/ records'[x].state = records[x].state
                 \/ records'[x].state \notin {"active", "exhausted"}
    PROVE  AccountingInv'
<1>1. /\ IsFiniteSet(reservations') /\ IsFiniteSet(ReservedBytes(reservations'))
      /\ IsFiniteSet(charges') /\ IsFiniteSet(ChargedBytes(charges'))
    BY DEF AccountingInv
<1>2. ReservationsHoldBytes' /\ SettledOnce'
    BY DEF AccountingInv, ReservationsHoldBytes, SettledOnce
<1>3. \A x : /\ ReservationsOf(x)' = ReservationsOf(x)
             /\ ChargesOf(x)' = ChargesOf(x)
    BY DEF ReservationsOf, ChargesOf
<1>4. CallsAccounted' /\ BytesAccounted'
    BY <1>3 DEF AccountingInv, CallsAccounted, BytesAccounted
<1>5. WithinQuota'
    BY DEF AccountingInv, WithinQuota
<1>6. StateTellsSpent'
    BY DEF AccountingInv, StateTellsSpent, QuotaUsable, Spent
<1> QED
    BY <1>1, <1>2, <1>4, <1>5, <1>6 DEF AccountingInv

\* reserveCall keeps the books: one call and its bytes more on both sides.
LEMMA ReserveAccounts ==
    ASSUME AccountingInv, TypeOK', RevisionsIdentify', NEW g \in GrantIds,
           NEW id \in ReservationIds, ReserveCall(g, id)
    PROVE  AccountingInv'
<1> DEFINE r == NewReservation(g, id)
           new == [records[g] EXCEPT
                      !.reservedCalls = @ + 1,
                      !.reservedResponseBytes = @ + r.maxResponseBytes]
<1>1. /\ g \in DOMAIN records /\ CanReserve(records[g])
      /\ Save(g, new)
      /\ reservations' = reservations \cup {r}
      /\ handles' = handles \cup {r}
      /\ charges' = charges
      /\ \A h \in handles : h.id # id
    BY DEF ReserveCall, Authorized
<1>2. TypeOK /\ records[g] \in StoredRunGrant
    BY <1>1 DEF AccountingInv, TypeOK
<1>3. /\ r \in CallReservation
      /\ r.id = id /\ r.grantId = g
      /\ r.maxResponseBytes > 0
      /\ records[g].responseBytesUsed + records[g].reservedResponseBytes
            + r.maxResponseBytes <= records[g].maxTotalResponseBytes
    <2>1. records[g].maxResponseBytes > 0
        BY <1>1 DEF AccountingInv, StateTellsSpent, QuotaUsable
    <2> QED
        BY <1>1, <1>2, <2>1, ReserveType
<1>4. /\ new \in StoredRunGrant
      /\ new.reservedCalls = records[g].reservedCalls + 1
      /\ new.reservedResponseBytes =
             records[g].reservedResponseBytes + r.maxResponseBytes
      /\ new.callsUsed = records[g].callsUsed
      /\ new.responseBytesUsed = records[g].responseBytesUsed
      /\ new.state = records[g].state
      /\ new.maxCalls = records[g].maxCalls
      /\ new.maxResponseBytes = records[g].maxResponseBytes
      /\ new.maxTotalResponseBytes = records[g].maxTotalResponseBytes
    BY <1>2, <1>3, ReservingType
<1>5. r \notin handles /\ r \notin reservations
    BY <1>1, <1>2, <1>3 DEF TypeOK
<1>6. r.maxResponseBytes \in Nat
    BY <1>3 DEF CallReservation
<1> HIDE DEF r, new
<1>7. /\ DOMAIN records' = DOMAIN records
      /\ \A x \in DOMAIN records : x # g => records'[x] = records[x]
      /\ records'[g].reservedCalls = records[g].reservedCalls + 1
      /\ records'[g].reservedResponseBytes =
             records[g].reservedResponseBytes + r.maxResponseBytes
      /\ records'[g].callsUsed = records[g].callsUsed
      /\ records'[g].responseBytesUsed = records[g].responseBytesUsed
      /\ records'[g].state = records[g].state
      /\ records'[g].maxCalls = records[g].maxCalls
      /\ records'[g].maxResponseBytes = records[g].maxResponseBytes
      /\ records'[g].maxTotalResponseBytes = records[g].maxTotalResponseBytes
    BY <1>1, <1>2, <1>4, SaveRecord
<1>8. /\ ReservationsOf(g)' = ReservationsOf(g) \cup {r}
      /\ \A x : x # g => ReservationsOf(x)' = ReservationsOf(x)
      /\ \A x : ChargesOf(x)' = ChargesOf(x)
      /\ r \notin ReservationsOf(g)
    BY <1>1, <1>3, <1>5 DEF ReservationsOf, ChargesOf
<1>9. /\ IsFiniteSet(reservations') /\ IsFiniteSet(ReservedBytes(reservations'))
      /\ IsFiniteSet(charges') /\ IsFiniteSet(ChargedBytes(charges'))
    BY <1>1, <1>5, <1>6, FS_AddElement, ReserveAddsBytes DEF AccountingInv
<1>10. ReservationsHoldBytes'
    BY <1>1, <1>3, <1>7 DEF AccountingInv, ReservationsHoldBytes
<1>11. SettledOnce'
    BY <1>1, <1>2, <1>5 DEF AccountingInv, SettledOnce, TypeOK
<1>12. Cardinality(ReservationsOf(g)') = Cardinality(ReservationsOf(g)) + 1
    BY <1>8, PartsFinite, FS_AddElement
<1>13. CallsAccounted'
    BY <1>1, <1>7, <1>8, <1>12 DEF AccountingInv, CallsAccounted
<1>14. Cardinality(ReservedBytes(ReservationsOf(g)')) =
           Cardinality(ReservedBytes(ReservationsOf(g))) + r.maxResponseBytes
    BY <1>6, <1>8, PartsFinite, ReserveAddsBytes
<1>15. BytesAccounted'
    BY <1>1, <1>7, <1>8, <1>14 DEF AccountingInv, BytesAccounted
<1>16. WithinQuota'
    BY <1>1, <1>2, <1>3, <1>6, <1>7
       DEF AccountingInv, WithinQuota, CanReserve, StoredRunGrant
<1>17. StateTellsSpent'
    BY <1>7 DEF AccountingInv, StateTellsSpent, QuotaUsable, Spent
<1> QED
    BY <1>9, <1>10, <1>11, <1>13, <1>15, <1>16, <1>17 DEF AccountingInv

(***************************************************************************)
(* What settling a reservation, by commit or by release, does to the       *)
(* reservations of its grant.                                              *)
(***************************************************************************)
LEMMA SettleReservation ==
    ASSUME AccountingInv, NEW r \in reservations,
           reservations' = reservations \ {r}
    PROVE  /\ IsFiniteSet(reservations')
           /\ IsFiniteSet(ReservedBytes(reservations'))
           /\ \A x : x # r.grantId => ReservationsOf(x)' = ReservationsOf(x)
           /\ Cardinality(ReservationsOf(r.grantId)') =
                 Cardinality(ReservationsOf(r.grantId)) - 1
           /\ Cardinality(ReservedBytes(ReservationsOf(r.grantId)')) =
                 Cardinality(ReservedBytes(ReservationsOf(r.grantId)))
                    - r.maxResponseBytes
<1> DEFINE g == r.grantId
           Before == ReservationsOf(g)
           After == Before \ {r}
<1>1. /\ r \in Before
      /\ ReservationsOf(g)' = After
      /\ \A x : x # g => ReservationsOf(x)' = ReservationsOf(x)
    BY DEF ReservationsOf
<1>2. IsFiniteSet(Before) /\ IsFiniteSet(ReservedBytes(Before))
    BY PartsFinite
<1>3. r.maxResponseBytes \in Nat
    BY DEF AccountingInv, TypeOK, CallReservation
<1>4. Cardinality(After) = Cardinality(Before) - 1
    <2> HIDE DEF Before
    <2> QED
        BY <1>1, <1>2, FS_RemoveElement
<1>5. /\ Cardinality(ReservedBytes(After)) \in Nat
      /\ Cardinality(ReservedBytes(Before)) =
            Cardinality(ReservedBytes(After)) + r.maxResponseBytes
    <2> HIDE DEF Before
    <2> QED
        BY <1>1, <1>2, <1>3, SettleRemovesBytes
<1>6. IsFiniteSet(reservations') /\ IsFiniteSet(ReservedBytes(reservations'))
    BY <1>3, FS_RemoveElement, SettleRemovesBytes DEF AccountingInv
<1> QED
    <2> HIDE DEF Before, After
    <2>1. Cardinality(ReservedBytes(After)) =
              Cardinality(ReservedBytes(Before)) - r.maxResponseBytes
        BY <1>3, <1>5
    <2> QED
        BY <1>1, <1>4, <1>6, <2>1 DEF Before

\* releaseCall keeps the books: one call and its bytes less on both sides.
LEMMA ReleaseAccounts ==
    ASSUME AccountingInv, TypeOK', RevisionsIdentify', NEW g \in GrantIds, NEW r \in handles,
           ReleaseCall(g, r)
    PROVE  AccountingInv'
<1> DEFINE new == Settled(records[g], r)
<1>1. /\ g \in DOMAIN records /\ HoldsReservation(records[g], r)
      /\ Save(g, new)
      /\ r \in reservations /\ r.grantId = g
      /\ reservations' = reservations \ {r}
      /\ UNCHANGED <<handles, charges>>
    BY DEF ReleaseCall, Close
<1>2. TypeOK /\ records[g] \in StoredRunGrant /\ r \in CallReservation
    BY <1>1 DEF AccountingInv, TypeOK
<1>3. /\ new \in StoredRunGrant
      /\ new.reservedCalls = records[g].reservedCalls - 1
      /\ new.reservedResponseBytes =
             records[g].reservedResponseBytes - r.maxResponseBytes
      /\ new.callsUsed = records[g].callsUsed
      /\ new.responseBytesUsed = records[g].responseBytesUsed
      /\ new.state = records[g].state
      /\ new.maxCalls = records[g].maxCalls
      /\ new.maxResponseBytes = records[g].maxResponseBytes
      /\ new.maxTotalResponseBytes = records[g].maxTotalResponseBytes
    BY <1>1, <1>2, SettledType
<1> HIDE DEF new
<1>4. /\ DOMAIN records' = DOMAIN records
      /\ \A x \in DOMAIN records : x # g => records'[x] = records[x]
      /\ records'[g].reservedCalls = records[g].reservedCalls - 1
      /\ records'[g].reservedResponseBytes =
             records[g].reservedResponseBytes - r.maxResponseBytes
      /\ records'[g].callsUsed = records[g].callsUsed
      /\ records'[g].responseBytesUsed = records[g].responseBytesUsed
      /\ records'[g].state = records[g].state
      /\ records'[g].maxCalls = records[g].maxCalls
      /\ records'[g].maxResponseBytes = records[g].maxResponseBytes
      /\ records'[g].maxTotalResponseBytes = records[g].maxTotalResponseBytes
    BY <1>1, <1>2, <1>3, SaveRecord
<1>5. /\ IsFiniteSet(reservations')
      /\ IsFiniteSet(ReservedBytes(reservations'))
      /\ \A x : x # g => ReservationsOf(x)' = ReservationsOf(x)
      /\ Cardinality(ReservationsOf(g)') = Cardinality(ReservationsOf(g)) - 1
      /\ Cardinality(ReservedBytes(ReservationsOf(g)')) =
            Cardinality(ReservedBytes(ReservationsOf(g))) - r.maxResponseBytes
    BY <1>1, SettleReservation
<1>6. \A x : ChargesOf(x)' = ChargesOf(x)
    BY <1>1 DEF ChargesOf
<1>7. IsFiniteSet(charges') /\ IsFiniteSet(ChargedBytes(charges'))
    BY <1>1 DEF AccountingInv
<1>8. ReservationsHoldBytes' /\ SettledOnce'
    BY <1>1, <1>4 DEF AccountingInv, ReservationsHoldBytes, SettledOnce
<1>9. CallsAccounted' /\ BytesAccounted'
    BY <1>1, <1>4, <1>5, <1>6
       DEF AccountingInv, CallsAccounted, BytesAccounted
<1>10. WithinQuota'
    BY <1>1, <1>2, <1>4
       DEF AccountingInv, WithinQuota, StoredRunGrant, CallReservation
<1>11. StateTellsSpent'
    BY <1>4 DEF AccountingInv, StateTellsSpent, QuotaUsable, Spent
<1> QED
    BY <1>5, <1>7, <1>8, <1>9, <1>10, <1>11 DEF AccountingInv

\* commitCall keeps the books: what the reservation held is given back, and
\* what the answer used is charged.
LEMMA CommitAccounts ==
    ASSUME AccountingInv, TypeOK', RevisionsIdentify', NEW presented \in GrantIds,
           NEW r \in handles, NEW bytes \in 0..r.maxResponseBytes,
           CommitCall(presented, r, bytes)
    PROVE  AccountingInv'
<1> DEFINE g == r.grantId
           new == Charged(records[g], r, bytes)
           c == [reservation |-> r, bytes |-> bytes]
<1>1. /\ g \in DOMAIN records /\ HoldsReservation(records[g], r)
      /\ Save(g, new)
      /\ r \in reservations
      /\ reservations' = reservations \ {r}
      /\ charges' = charges \cup {c}
      /\ handles' = handles
    BY DEF CommitCall, CanCommit, Close
<1>2. TypeOK /\ records[g] \in StoredRunGrant /\ r \in CallReservation
    BY <1>1 DEF AccountingInv, TypeOK
<1>3. bytes \in Nat /\ bytes <= r.maxResponseBytes
    BY <1>2 DEF CallReservation
<1>4. /\ new \in StoredRunGrant
      /\ new.reservedCalls = records[g].reservedCalls - 1
      /\ new.reservedResponseBytes =
             records[g].reservedResponseBytes - r.maxResponseBytes
      /\ new.callsUsed = records[g].callsUsed + 1
      /\ new.responseBytesUsed = records[g].responseBytesUsed + bytes
      /\ new.maxCalls = records[g].maxCalls
      /\ new.maxResponseBytes = records[g].maxResponseBytes
      /\ new.maxTotalResponseBytes = records[g].maxTotalResponseBytes
      /\ new.state \in {"exhausted", "active"}
      /\ new.state = "exhausted" <=> Spent(new)
    BY <1>1, <1>2, <1>3, ChargedType
<1>5. /\ c \notin charges
      /\ \A d \in charges : d.reservation # r
    BY <1>1 DEF AccountingInv, SettledOnce
<1>6. c.reservation = r /\ c.bytes = bytes
    OBVIOUS
<1> HIDE DEF new, c, g
<1>7. /\ DOMAIN records' = DOMAIN records
      /\ \A x \in DOMAIN records : x # g => records'[x] = records[x]
      /\ records'[g].reservedCalls = records[g].reservedCalls - 1
      /\ records'[g].reservedResponseBytes =
             records[g].reservedResponseBytes - r.maxResponseBytes
      /\ records'[g].callsUsed = records[g].callsUsed + 1
      /\ records'[g].responseBytesUsed = records[g].responseBytesUsed + bytes
      /\ records'[g].state = new.state
      /\ records'[g].maxCalls = records[g].maxCalls
      /\ records'[g].maxResponseBytes = records[g].maxResponseBytes
      /\ records'[g].maxTotalResponseBytes = records[g].maxTotalResponseBytes
    BY <1>1, <1>2, <1>4, SaveRecord
<1>8. /\ IsFiniteSet(reservations')
      /\ IsFiniteSet(ReservedBytes(reservations'))
      /\ \A x : x # g => ReservationsOf(x)' = ReservationsOf(x)
      /\ Cardinality(ReservationsOf(g)') = Cardinality(ReservationsOf(g)) - 1
      /\ Cardinality(ReservedBytes(ReservationsOf(g)')) =
            Cardinality(ReservedBytes(ReservationsOf(g))) - r.maxResponseBytes
    BY <1>1, SettleReservation DEF g
<1>9. /\ ChargesOf(g)' = ChargesOf(g) \cup {c}
      /\ \A x : x # g => ChargesOf(x)' = ChargesOf(x)
      /\ c \notin ChargesOf(g)
    BY <1>1, <1>5, <1>6 DEF ChargesOf, g
<1>10. Cardinality(ChargesOf(g)') = Cardinality(ChargesOf(g)) + 1
    BY <1>9, PartsFinite, FS_AddElement
<1>11. Cardinality(ChargedBytes(ChargesOf(g)')) =
           Cardinality(ChargedBytes(ChargesOf(g))) + bytes
    <2>1. c.bytes \in Nat
        BY <1>3, <1>6
    <2> QED
        BY <1>6, <1>9, <2>1, PartsFinite, ChargeAddsBytes
<1>12. IsFiniteSet(charges') /\ IsFiniteSet(ChargedBytes(charges'))
    <2>1. c.bytes \in Nat
        BY <1>3, <1>6
    <2> QED
        BY <1>1, <1>5, <2>1, FS_AddElement, ChargeAddsBytes
           DEF AccountingInv
<1>13. ReservationsHoldBytes'
    BY <1>1, <1>7 DEF AccountingInv, ReservationsHoldBytes
<1>14. SettledOnce'
    BY <1>1, <1>5, <1>6 DEF AccountingInv, SettledOnce
<1>15. CallsAccounted'
    BY <1>1, <1>7, <1>8, <1>9, <1>10 DEF AccountingInv, CallsAccounted
<1>16. BytesAccounted'
    BY <1>1, <1>7, <1>8, <1>9, <1>11 DEF AccountingInv, BytesAccounted
<1>17. WithinQuota'
    BY <1>1, <1>2, <1>3, <1>7
       DEF AccountingInv, WithinQuota, HoldsReservation, StoredRunGrant,
           CallReservation
<1>18. StateTellsSpent'
    <2>1. /\ records'[g].state = "exhausted" => Spent(records'[g])
          /\ records'[g].state = "active" => ~Spent(records'[g])
        BY <1>4, <1>7 DEF Spent
    <2> QED
        BY <1>1, <1>7, <2>1 DEF AccountingInv, StateTellsSpent, QuotaUsable
<1> QED
    BY <1>8, <1>12, <1>13, <1>14, <1>15, <1>16, <1>17, <1>18
       DEF AccountingInv

-----------------------------------------------------------------------------
(***************************************************************************)
(* Revisions: every change of a record advances its revision, and a new    *)
(* reservation carries the revision its own change produced.               *)
(***************************************************************************)
LEMMA SaveKeepsRevisions ==
    ASSUME TypeOK, RevisionsIdentify, NEW g \in DOMAIN records,
           NEW rec \in StoredRunGrant, Save(g, rec), handles' = handles
    PROVE  RevisionsIdentify'
<1>1. /\ DOMAIN records' = DOMAIN records
      /\ records'[g].revision = records[g].revision + 1
      /\ \A x \in DOMAIN records : x # g => records'[x] = records[x]
    BY SaveRecord
<1>2. \A r \in handles : r.revision \in Nat
    BY DEF TypeOK, CallReservation
<1>3. \A x \in DOMAIN records : records[x].revision \in Nat
    BY DEF TypeOK, StoredRunGrant
<1> QED
    BY <1>1, <1>2, <1>3 DEF RevisionsIdentify

\* No step gives two reservations of one grant the same revision.
LEMMA RevisionsStep ==
    TypeOK /\ RevisionsIdentify /\ [Next]_grantVars => RevisionsIdentify'
<1> SUFFICES ASSUME TypeOK, RevisionsIdentify, [Next]_grantVars
             PROVE  RevisionsIdentify'
    OBVIOUS
<1>1. ASSUME NEW g \in GrantIds, NEW q \in Requests, Issue(g, q)
      PROVE  RevisionsIdentify'
    BY <1>1 DEF Issue, RevisionsIdentify
<1>2. ASSUME NEW g \in GrantIds, NEW id \in ReservationIds,
             ReserveCall(g, id)
      PROVE  RevisionsIdentify'
    <2> DEFINE r == NewReservation(g, id)
               new == [records[g] EXCEPT
                          !.reservedCalls = @ + 1,
                          !.reservedResponseBytes = @ + r.maxResponseBytes]
    <2>1. /\ g \in DOMAIN records /\ CanReserve(records[g])
          /\ Save(g, new)
          /\ handles' = handles \cup {r}
        BY <1>2 DEF ReserveCall, Authorized
    <2>2. /\ r \in CallReservation
          /\ r.grantId = g
          /\ r.revision = records[g].revision + 1
        BY <2>1, ReserveType
    <2>3. new \in StoredRunGrant
        BY <2>1, <2>2, ReservingType DEF TypeOK
    <2> HIDE DEF r, new
    <2>4. /\ DOMAIN records' = DOMAIN records
          /\ records'[g].revision = records[g].revision + 1
          /\ \A x \in DOMAIN records : x # g => records'[x] = records[x]
        BY <2>1, <2>3, SaveRecord
    <2>5. \A h \in handles : h.revision \in Nat
        BY DEF TypeOK, CallReservation
    <2>6. \A x \in DOMAIN records : records[x].revision \in Nat
        BY DEF TypeOK, StoredRunGrant
    <2> QED
        BY <2>1, <2>2, <2>4, <2>5, <2>6 DEF RevisionsIdentify
<1>3. ASSUME NEW g \in GrantIds, NEW r \in handles,
             NEW bytes \in 0..r.maxResponseBytes, CommitCall(g, r, bytes)
      PROVE  RevisionsIdentify'
    <2>1. /\ r.grantId \in DOMAIN records
          /\ HoldsReservation(records[r.grantId], r)
          /\ Save(r.grantId, Charged(records[r.grantId], r, bytes))
          /\ handles' = handles
        BY <1>3 DEF CommitCall, CanCommit, Close
    <2>2. r \in CallReservation /\ bytes \in Nat
        BY <1>3 DEF TypeOK, CallReservation
    <2>3. Charged(records[r.grantId], r, bytes) \in StoredRunGrant
        BY <2>1, <2>2, ChargedType DEF TypeOK
    <2> QED
        BY <2>1, <2>3, SaveKeepsRevisions
<1>4. ASSUME NEW g \in GrantIds, NEW r \in handles, ReleaseCall(g, r)
      PROVE  RevisionsIdentify'
    <2>1. /\ g \in DOMAIN records /\ HoldsReservation(records[g], r)
          /\ Save(g, Settled(records[g], r))
          /\ handles' = handles
        BY <1>4 DEF ReleaseCall, Close
    <2>2. Settled(records[g], r) \in StoredRunGrant
        BY <2>1, SettledType DEF TypeOK
    <2> QED
        BY <2>1, <2>2, SaveKeepsRevisions
<1>5. ASSUME NEW g \in GrantIds, Revoke(g) \/ Consume(g) \/ Expire(g)
      PROVE  RevisionsIdentify'
    <2>1. PICK st \in RunGrantState :
              /\ g \in DOMAIN records
              /\ Save(g, [records[g] EXCEPT !.state = st])
              /\ handles' = handles
        BY <1>5 DEF Revoke, Consume, Expire, Transition, Authorized,
                    RunGrantState
    <2>2. [records[g] EXCEPT !.state = st] \in StoredRunGrant
        BY <2>1 DEF TypeOK, StoredRunGrant
    <2> QED
        BY <2>1, <2>2, SaveKeepsRevisions
<1>6. ASSUME Tick \/ UNCHANGED grantVars
      PROVE  RevisionsIdentify'
    BY <1>6 DEF RevisionsIdentify, Tick, grantVars
<1> QED
    BY <1>1, <1>2, <1>3, <1>4, <1>5, <1>6 DEF Next

-----------------------------------------------------------------------------
(***************************************************************************)
(* The whole accounting is inductive.                                      *)
(***************************************************************************)
LEMMA IssueAccounts ==
    ASSUME AccountingInv, TypeOK', RevisionsIdentify',
           NEW g \in GrantIds, NEW q \in Requests, Issue(g, q)
    PROVE  AccountingInv'
<1>1. /\ g \notin DOMAIN records
      /\ DOMAIN records' = DOMAIN records \cup {g}
      /\ records'[g] = Issued(q)
      /\ \A x \in DOMAIN records : records'[x] = records[x] /\ x # g
      /\ UNCHANGED <<reservations, charges>>
      /\ ValidRequest(q, clock)
    BY DEF Issue
<1>2. /\ ReservationsOf(g) = {} /\ ChargesOf(g) = {}
      /\ \A x : /\ ReservationsOf(x)' = ReservationsOf(x)
                /\ ChargesOf(x)' = ChargesOf(x)
    <2>1. \A r \in handles : r.grantId # g
        BY <1>1 DEF AccountingInv, RevisionsIdentify
    <2>2. \A d \in charges : d.reservation \in handles
        BY DEF AccountingInv, TypeOK
    <2>3. reservations \subseteq handles
        BY DEF AccountingInv, TypeOK
    <2> QED
        BY <1>1, <2>1, <2>2, <2>3 DEF ReservationsOf, ChargesOf
<1>3. /\ Cardinality({}) = 0
      /\ ReservedBytes({}) = {} /\ ChargedBytes({}) = {}
    BY FS_EmptySet DEF ReservedBytes, ChargedBytes
<1>4. CallsAccounted' /\ BytesAccounted'
    <2>1. /\ records'[g].reservedCalls = 0
          /\ records'[g].callsUsed = 0
          /\ records'[g].reservedResponseBytes = 0
          /\ records'[g].responseBytesUsed = 0
        BY <1>1 DEF Issued
    <2>2. /\ ReservationsOf(g)' = {} /\ ChargesOf(g)' = {}
          /\ Cardinality(ReservedBytes({})) = 0
          /\ Cardinality(ChargedBytes({})) = 0
        BY <1>2, <1>3
    <2>3. CallsAccounted'
        BY <1>1, <1>2, <1>3, <2>1, <2>2 DEF AccountingInv, CallsAccounted
    <2>4. BytesAccounted'
        BY <1>1, <1>2, <2>1, <2>2 DEF AccountingInv, BytesAccounted
    <2> QED
        BY <2>3, <2>4
<1>5. WithinQuota' /\ StateTellsSpent'
    BY <1>1, RunGrantsAssumption
       DEF AccountingInv, WithinQuota, StateTellsSpent, QuotaUsable,
           Spent, Issued, ValidRequest, Request
<1>6. ReservationsHoldBytes' /\ SettledOnce'
    BY <1>1 DEF AccountingInv, ReservationsHoldBytes, SettledOnce
<1>7. /\ IsFiniteSet(reservations') /\ IsFiniteSet(ReservedBytes(reservations'))
      /\ IsFiniteSet(charges') /\ IsFiniteSet(ChargedBytes(charges'))
    BY <1>1 DEF AccountingInv
<1> QED
    BY <1>4, <1>5, <1>6, <1>7 DEF AccountingInv

\* Every step preserves the inductive invariant, one case per action.
LEMMA AccountingStep ==
    AccountingInv /\ [Next]_grantVars => AccountingInv'
<1> SUFFICES ASSUME AccountingInv, [Next]_grantVars
             PROVE  AccountingInv'
    OBVIOUS
<1>1. TypeOK /\ TypeOK' /\ RevisionsIdentify'
    BY TypeStep, RevisionsStep DEF AccountingInv
<1>2. ASSUME NEW g \in GrantIds, NEW q \in Requests, Issue(g, q)
      PROVE  AccountingInv'
    BY <1>1, <1>2, IssueAccounts
<1>3. ASSUME NEW g \in GrantIds, NEW id \in ReservationIds,
             ReserveCall(g, id)
      PROVE  AccountingInv'
    BY <1>1, <1>3, ReserveAccounts
<1>4. ASSUME NEW g \in GrantIds, NEW r \in handles,
             NEW bytes \in 0..r.maxResponseBytes, CommitCall(g, r, bytes)
      PROVE  AccountingInv'
    BY <1>1, <1>4, CommitAccounts
<1>5. ASSUME NEW g \in GrantIds, NEW r \in handles, ReleaseCall(g, r)
      PROVE  AccountingInv'
    BY <1>1, <1>5, ReleaseAccounts
<1>6. ASSUME NEW g \in GrantIds, Revoke(g) \/ Consume(g) \/ Expire(g)
      PROVE  AccountingInv'
    <2>1. PICK st \in RunGrantState \ {"active", "exhausted"} :
              /\ g \in DOMAIN records
              /\ Save(g, [records[g] EXCEPT !.state = st])
              /\ UNCHANGED <<reservations, handles, charges>>
        BY <1>6 DEF Revoke, Consume, Expire, Transition, Authorized,
                    RunGrantState
    <2> DEFINE rec == [records[g] EXCEPT !.state = st]
    <2>2. rec \in StoredRunGrant
        BY <1>1, <2>1 DEF TypeOK, StoredRunGrant
    <2>3. /\ rec.callsUsed = records[g].callsUsed
          /\ rec.responseBytesUsed = records[g].responseBytesUsed
          /\ rec.reservedCalls = records[g].reservedCalls
          /\ rec.reservedResponseBytes = records[g].reservedResponseBytes
          /\ rec.maxCalls = records[g].maxCalls
          /\ rec.maxResponseBytes = records[g].maxResponseBytes
          /\ rec.maxTotalResponseBytes = records[g].maxTotalResponseBytes
          /\ rec.state = st
        BY <1>1, <2>1 DEF TypeOK, StoredRunGrant
    <2> HIDE DEF rec
    <2>4. /\ DOMAIN records' = DOMAIN records
          /\ \A x \in DOMAIN records : x # g => records'[x] = records[x]
          /\ records'[g].callsUsed = rec.callsUsed
          /\ records'[g].responseBytesUsed = rec.responseBytesUsed
          /\ records'[g].reservedCalls = rec.reservedCalls
          /\ records'[g].reservedResponseBytes = rec.reservedResponseBytes
          /\ records'[g].state = rec.state
          /\ records'[g].maxCalls = rec.maxCalls
          /\ records'[g].maxResponseBytes = rec.maxResponseBytes
          /\ records'[g].maxTotalResponseBytes = rec.maxTotalResponseBytes
        BY <1>1, <2>1, <2>2, SaveRecord DEF rec
    <2> QED
        BY <1>1, <2>1, <2>3, <2>4, SameCounters
<1>7. ASSUME Tick \/ UNCHANGED grantVars
      PROVE  AccountingInv'
    BY <1>1, <1>7, SameCounters DEF Tick, grantVars
<1> QED
    BY <1>2, <1>3, <1>4, <1>5, <1>6, <1>7 DEF Next

\* Nothing is issued, nothing counted.
LEMMA AccountingInitial == Init => AccountingInv
<1> SUFFICES ASSUME Init
             PROVE  AccountingInv
    OBVIOUS
<1>1. /\ reservations = {} /\ handles = {} /\ charges = {}
      /\ DOMAIN records = {}
    BY DEF Init
<1>2. IsFiniteSet({}) /\ ReservedBytes({}) = {} /\ ChargedBytes({}) = {}
    BY FS_EmptySet DEF ReservedBytes, ChargedBytes
<1>3. TypeOK
    BY DEF Init, TypeOK
<1> QED
    BY <1>1, <1>2, <1>3
       DEF AccountingInv, RevisionsIdentify, ReservationsHoldBytes,
           SettledOnce, CallsAccounted, BytesAccounted, WithinQuota,
           StateTellsSpent

\* The counters of every grant are those of its open reservations and of the
\* calls charged to it, in every reachable state.
THEOREM AccountingCorrect == Spec => []AccountingInv
BY AccountingInitial, AccountingStep, PTL DEF Spec

(***************************************************************************)
(* However calls are reserved, committed and released, the counters of     *)
(* every grant are the exact totals of its open reservations and of its    *)
(* charges, and together they stay within the grant's quota.               *)
(***************************************************************************)
THEOREM QuotaNeverExceeded ==
    Spec => [](CallsAccounted /\ BytesAccounted /\ WithinQuota)
BY AccountingCorrect, PTL DEF AccountingInv

(***************************************************************************)
(* No reservation is settled twice, and no revision is given twice.        *)
(***************************************************************************)
THEOREM ReservationsSettleOnce == Spec => [](SettledOnce /\ RevisionsIdentify)
BY AccountingCorrect, PTL DEF AccountingInv

(***************************************************************************)
(* When a commit exhausts a grant no other call of the grant is in flight, *)
(* since each would still hold a call and at least one byte of the quota.  *)
(***************************************************************************)
LEMMA ExhaustedHoldsNothing == AccountingInv => ExhaustedIsIdle
<1> SUFFICES ASSUME AccountingInv, NEW g \in DOMAIN records,
                    records[g].state = "exhausted",
                    NEW r \in ReservationsOf(g)
             PROVE  FALSE
    BY DEF ExhaustedIsIdle
<1>1. records[g] \in StoredRunGrant /\ r \in CallReservation
    BY DEF AccountingInv, TypeOK, ReservationsOf
<1>2. /\ IsFiniteSet(ReservationsOf(g))
      /\ IsFiniteSet(ReservedBytes(ReservationsOf(g)))
    BY PartsFinite
<1>3. Cardinality(ReservationsOf(g)) \in Nat \ {0}
    BY <1>2, FS_EmptySet, FS_CardinalityType
<1>4. Cardinality(ReservedBytes(ReservationsOf(g))) \in Nat \ {0}
    <2>1. <<r, 1>> \in ReservedBytes(ReservationsOf(g))
        BY <1>1 DEF ReservedBytes, AccountingInv, ReservationsHoldBytes,
                    ReservationsOf, CallReservation
    <2> QED
        BY <1>2, <2>1, FS_EmptySet, FS_CardinalityType
<1>5. Spent(records[g])
    BY DEF AccountingInv, StateTellsSpent
<1> QED
    BY <1>1, <1>3, <1>4, <1>5
       DEF AccountingInv, CallsAccounted, BytesAccounted, WithinQuota,
           Spent, StoredRunGrant

\* commitCall makes a grant exhausted only when no other of its calls is open,
\* so none is left that could not be charged.
THEOREM ExhaustionStrandsNoCall == Spec => []ExhaustedIsIdle
BY AccountingCorrect, ExhaustedHoldsNothing, PTL

(***************************************************************************)
(* An active grant with nothing in flight always admits a call: releasing  *)
(* and committing give back everything a reservation held.                 *)
(***************************************************************************)
LEMMA IdleHoldsNothing == AccountingInv => IdleActiveCanReserve
<1> SUFFICES ASSUME AccountingInv, NEW g \in DOMAIN records,
                    records[g].state = "active", ReservationsOf(g) = {}
             PROVE  CanReserve(records[g])
    BY DEF IdleActiveCanReserve
<1>1. records[g] \in StoredRunGrant
    BY DEF AccountingInv, TypeOK
<1>2. ReservedBytes({}) = {} /\ Cardinality({}) = 0
    BY FS_EmptySet DEF ReservedBytes
<1>3. /\ records[g].reservedCalls = 0
      /\ records[g].reservedResponseBytes = 0
    BY <1>2 DEF AccountingInv, CallsAccounted, BytesAccounted
<1>4. ~Spent(records[g])
    BY DEF AccountingInv, StateTellsSpent
<1> QED
    BY <1>1, <1>3, <1>4 DEF Spent, CanReserve, StoredRunGrant

\* A grant that is active and has no call open has room for one: commitCall
\* never leaves it active and full.
THEOREM IdleGrantAdmitsCall == Spec => []IdleActiveCanReserve
BY AccountingCorrect, IdleHoldsNothing, PTL

(***************************************************************************)
(* A closed grant is never reopened or charged: in particular no commit    *)
(* writes "active" over a revocation, although commits do not check the    *)
(* revision.                                                               *)
(***************************************************************************)
LEMMA SaveNeverReopens ==
    ASSUME TypeOK, NEW g \in DOMAIN records, NEW rec \in StoredRunGrant,
           Save(g, rec),
           rec.callsUsed >= records[g].callsUsed,
           rec.responseBytesUsed >= records[g].responseBytesUsed,
           records[g].state # "active" =>
              /\ rec.state # "active"
              /\ rec.callsUsed = records[g].callsUsed
              /\ rec.responseBytesUsed = records[g].responseBytesUsed
    PROVE  \A x \in DOMAIN records : NeverReopened(x)
<1>1. /\ DOMAIN records' = DOMAIN records
      /\ \A x \in DOMAIN records : x # g => records'[x] = records[x]
      /\ records'[g].callsUsed = rec.callsUsed
      /\ records'[g].responseBytesUsed = rec.responseBytesUsed
      /\ records'[g].state = rec.state
    BY SaveRecord
<1>2. \A x \in DOMAIN records : /\ records[x].callsUsed \in Nat
                                /\ records[x].responseBytesUsed \in Nat
    BY DEF TypeOK, StoredRunGrant
<1> QED
    BY <1>1, <1>2 DEF NeverReopened

\* No step changes a closed grant back to active or charges it.
LEMMA NeverReopenedStep ==
    TypeOK /\ [Next]_grantVars
        => [\A g \in DOMAIN records : NeverReopened(g)]_grantVars
<1> SUFFICES ASSUME TypeOK, Next
             PROVE  \A x \in DOMAIN records : NeverReopened(x)
    OBVIOUS
<1>1. \A x \in DOMAIN records : records[x] \in StoredRunGrant
    BY DEF TypeOK
<1>2. \A x \in DOMAIN records : /\ records[x].callsUsed \in Nat
                                /\ records[x].responseBytesUsed \in Nat
    BY <1>1 DEF StoredRunGrant
<1>3. ASSUME NEW g \in GrantIds, NEW q \in Requests, Issue(g, q)
      PROVE  \A x \in DOMAIN records : NeverReopened(x)
    BY <1>2, <1>3 DEF Issue, NeverReopened
<1>4. ASSUME NEW g \in GrantIds, NEW id \in ReservationIds,
             ReserveCall(g, id)
      PROVE  \A x \in DOMAIN records : NeverReopened(x)
    <2> DEFINE r == NewReservation(g, id)
               new == [records[g] EXCEPT
                          !.reservedCalls = @ + 1,
                          !.reservedResponseBytes = @ + r.maxResponseBytes]
    <2>1. /\ g \in DOMAIN records /\ CanReserve(records[g])
          /\ Save(g, new)
          /\ records[g].state = "active"
        BY <1>4 DEF ReserveCall, Authorized, Active
    <2>2. r \in CallReservation
        BY <2>1, ReserveType
    <2>3. /\ new \in StoredRunGrant
          /\ new.callsUsed = records[g].callsUsed
          /\ new.responseBytesUsed = records[g].responseBytesUsed
        BY <1>1, <2>1, <2>2, ReservingType
    <2> HIDE DEF r, new
    <2> QED
        BY <1>2, <2>1, <2>3, SaveNeverReopens
<1>5. ASSUME NEW g \in GrantIds, NEW r \in handles,
             NEW bytes \in 0..r.maxResponseBytes, CommitCall(g, r, bytes)
      PROVE  \A x \in DOMAIN records : NeverReopened(x)
    <2> DEFINE h == r.grantId
               new == Charged(records[h], r, bytes)
    <2>1. /\ h \in DOMAIN records /\ HoldsReservation(records[h], r)
          /\ Save(h, new)
          /\ records[h].state = "active"
        BY <1>5 DEF CommitCall, CanCommit, Active
    <2>2. r \in CallReservation /\ bytes \in Nat
        BY <1>5 DEF TypeOK, CallReservation
    <2>3. /\ new \in StoredRunGrant
          /\ new.callsUsed = records[h].callsUsed + 1
          /\ new.responseBytesUsed = records[h].responseBytesUsed + bytes
        BY <1>1, <2>1, <2>2, ChargedType
    <2> HIDE DEF h, new
    <2> QED
        BY <1>2, <2>1, <2>2, <2>3, SaveNeverReopens
<1>6. ASSUME NEW g \in GrantIds, NEW r \in handles, ReleaseCall(g, r)
      PROVE  \A x \in DOMAIN records : NeverReopened(x)
    <2> DEFINE new == Settled(records[g], r)
    <2>1. /\ g \in DOMAIN records /\ HoldsReservation(records[g], r)
          /\ Save(g, new)
        BY <1>6 DEF ReleaseCall, Close
    <2>2. /\ new \in StoredRunGrant
          /\ new.callsUsed = records[g].callsUsed
          /\ new.responseBytesUsed = records[g].responseBytesUsed
          /\ new.state = records[g].state
        BY <1>1, <2>1, SettledType DEF TypeOK
    <2> HIDE DEF new
    <2> QED
        BY <1>2, <2>1, <2>2, SaveNeverReopens
<1>7. ASSUME NEW g \in GrantIds, Revoke(g) \/ Consume(g) \/ Expire(g)
      PROVE  \A x \in DOMAIN records : NeverReopened(x)
    <2>1. PICK st \in RunGrantState \ {"active"} :
              /\ g \in DOMAIN records
              /\ Save(g, [records[g] EXCEPT !.state = st])
        BY <1>7 DEF Revoke, Consume, Expire, Transition, Authorized,
                    RunGrantState
    <2> DEFINE rec == [records[g] EXCEPT !.state = st]
    <2>2. /\ rec \in StoredRunGrant
          /\ rec.callsUsed = records[g].callsUsed
          /\ rec.responseBytesUsed = records[g].responseBytesUsed
          /\ rec.state = st
        BY <1>1, <2>1 DEF StoredRunGrant
    <2> HIDE DEF rec
    <2>3. Save(g, rec)
        BY <2>1 DEF rec
    <2> QED
        BY <1>2, <2>1, <2>2, <2>3, SaveNeverReopens
<1>8. ASSUME Tick
      PROVE  \A x \in DOMAIN records : NeverReopened(x)
    BY <1>2, <1>8 DEF Tick, NeverReopened
<1> QED
    BY <1>3, <1>4, <1>5, <1>6, <1>7, <1>8 DEF Next

\* A revoked, consumed, expired or exhausted grant is never active again and
\* is charged nothing more, whatever calls are still in flight.
THEOREM ClosedGrantsStayClosed == Spec => ClosedStaysClosed
BY TypeCorrect, NeverReopenedStep, PTL DEF Spec, ClosedStaysClosed

-----------------------------------------------------------------------------
(* ReadOnlyGateway: the inductive invariant *)

Codes ==
    AbortCodes \cup RefusalCodes \cup
        {"DEADLINE_INVALID", "GRANT_DENIED", "TOOL_CALLED",
         "AUTHORIZATION_CHANGED", "OUTPUT_SCHEMA_FAILED", "OVERSIZED",
         "PROVIDER_FAILED"}

CallState ==
    [pc : {"new", "admitted", "calling", "returned", "failed"},
     reservation : SUBSET handles, deadline : SUBSET Deadlines,
     startedAt : Nat, race : {Pending, Aborted} \cup Answers,
     abortReason : SUBSET AbortCodes, events : Seq(Codes)]

GatewayTypeOK ==
    /\ killed \in BOOLEAN
    /\ calls \in [Calls -> CallState]

\* The race is lost to an abort only with a reason for it.
AbortsHaveReasons ==
    \A c \in Calls : calls[c].race = Aborted => calls[c].abortReason # {}

\* A call has no reservation before it is admitted, and one while in flight.
OneReservationEach ==
    \A c \in Calls :
        /\ calls[c].pc = "new" => calls[c].reservation = {}
        /\ InFlight(c) => calls[c].reservation # {}
        /\ \A r \in calls[c].reservation : calls[c].reservation = {r}

GatewayInv ==
    /\ AccountingInv
    /\ GatewayTypeOK
    /\ AbortsHaveReasons
    /\ OneReservationEach
    /\ LedgerTellsCalls

-----------------------------------------------------------------------------
(***************************************************************************)
(* The reservation of a call in flight is open: it was handed out, and it  *)
(* has not been charged.                                                   *)
(***************************************************************************)
LEMMA InFlightIsOpen ==
    ASSUME GatewayInv, NEW c \in Calls, InFlight(c)
    PROVE  /\ ReservationOf(c) \in reservations
           /\ ReservationOf(c) \in handles
           /\ ReservationOf(c) \in CallReservation
           /\ calls[c].reservation = {ReservationOf(c)}
           /\ \A x \in charges : x.reservation # ReservationOf(c)
<1>1. PICK r \in calls[c].reservation : calls[c].reservation = {r}
    BY DEF GatewayInv, OneReservationEach
<1>2. ReservationOf(c) = r
    BY <1>1 DEF ReservationOf
<1>3. r \in reservations
    BY <1>1 DEF GatewayInv, LedgerTellsCalls
<1>4. r \in handles /\ r \in CallReservation
    BY <1>3 DEF GatewayInv, AccountingInv, TypeOK
<1>5. \A x \in charges : x.reservation # r
    BY <1>3 DEF GatewayInv, AccountingInv, SettledOnce
<1> QED
    BY <1>1, <1>2, <1>3, <1>4, <1>5

(***************************************************************************)
(* A call ends in TOOL_CALLED only with an output, while the kill switch   *)
(* is off and nothing has aborted it.                                      *)
(***************************************************************************)
LEMMA OutputVerdict ==
    ASSUME GatewayInv, NEW c \in Calls, CanFinish(c),
           Verdict(c) = "TOOL_CALLED"
    PROVE  /\ ~killed
           /\ calls[c].race.kind = "output"
           /\ calls[c].race.bytes \in Nat
<1>1. /\ calls[c].race \in {Pending, Aborted} \cup Answers
      /\ calls[c].abortReason \subseteq AbortCodes
    BY DEF GatewayInv, GatewayTypeOK, CallState
<1>2. calls[c].abortReason # {} => AbortReason(c) \in AbortCodes
    BY <1>1 DEF AbortReason
<1>3. "TOOL_CALLED" \notin AbortCodes
    BY DEF AbortCodes
<1>4. calls[c].race # Aborted
    BY <1>2, <1>3 DEF Verdict, GatewayInv, AbortsHaveReasons
<1>5. /\ calls[c].race.kind # "error"
      /\ AnswerVerdict(c) = "TOOL_CALLED"
    BY <1>4 DEF Verdict
<1>6. ~killed /\ calls[c].race.kind # "invalid"
    BY <1>2, <1>3, <1>5 DEF AnswerVerdict
<1>7. calls[c].race \in [kind : {"output"}, bytes : 0..MaxAnswer]
    BY <1>1, <1>4, <1>5, <1>6 DEF CanFinish, Answers
<1> QED
    BY <1>6, <1>7

(***************************************************************************)
(* Every step of the gateway is a step of the ledger or leaves it alone:   *)
(* Admit reserves, Return commits and Fail releases the call's own         *)
(* reservation, under the grant it was made for.                           *)
(***************************************************************************)
LEMMA LedgerStep ==
    GatewayInv /\ [GatewayNext]_vars => [Next]_grantVars
<1> SUFFICES ASSUME GatewayInv, [GatewayNext]_vars
             PROVE  [Next]_grantVars
    OBVIOUS
<1>1. ASSUME NEW c \in Calls, Return(c)
      PROVE  Next
    <2> DEFINE r == ReservationOf(c)
    <2>1. /\ InFlight(c) /\ CanFinish(c) /\ Verdict(c) = "TOOL_CALLED"
          /\ CommitCall(r.grantId, r, calls[c].race.bytes)
        BY <1>1 DEF Return, CanFinish, InFlight
    <2>2. r \in handles /\ r \in CallReservation
        BY <2>1, InFlightIsOpen
    <2>3. calls[c].race.bytes \in Nat
        BY <2>1, OutputVerdict
    <2>4. /\ r.grantId \in GrantIds
          /\ calls[c].race.bytes \in 0..r.maxResponseBytes
        BY <2>1, <2>2, <2>3 DEF CallReservation, CommitCall, CanCommit
    <2> QED
        BY <2>1, <2>2, <2>4 DEF Next
<1>2. ASSUME NEW c \in Calls, Fail(c)
      PROVE  Next
    <2> DEFINE r == ReservationOf(c)
    <2>1. InFlight(c) /\ ReleaseCall(r.grantId, r)
        BY <1>2 DEF Fail, CanFinish, InFlight
    <2>2. r \in handles /\ r.grantId \in GrantIds
        BY <2>1, InFlightIsOpen DEF CallReservation
    <2> QED
        BY <2>1, <2>2 DEF Next
<1>3. ASSUME NEW c \in Calls, NEW g \in GrantIds, NEW id \in ReservationIds,
             NEW deadline, Admit(c, g, id, deadline)
      PROVE  Next
    BY <1>3 DEF Admit, Next
<1>4. ASSUME Environment
      PROVE  Next
    BY <1>4 DEF Environment, Next
<1>5. ASSUME NEW c \in Calls,
             \/ RefuseKilled(c) \/ RefuseEntry(c)
             \/ \E g \in GrantIds : \/ RefuseGrant(c, g)
                                    \/ RefuseRequest(c, g)
                                    \/ RefuseQuota(c, g)
      PROVE  UNCHANGED grantVars
    BY <1>5 DEF RefuseKilled, RefuseEntry, RefuseGrant, RefuseRequest,
                RefuseQuota, Refuse, grantVars
<1>6. ASSUME NEW c \in Calls,
             \/ Dispatch(c) \/ CallerAborts(c) \/ TimerFires(c)
             \/ \E answer \in Answers : ProviderAnswers(c, answer)
      PROVE  UNCHANGED grantVars
    BY <1>6 DEF Dispatch, CallerAborts, TimerFires, ProviderAnswers,
                grantVars
<1>7. Kill \/ UNCHANGED vars => UNCHANGED grantVars
    BY DEF Kill, vars, grantVars
<1> QED
    BY <1>1, <1>2, <1>3, <1>4, <1>5, <1>6, <1>7 DEF GatewayNext

-----------------------------------------------------------------------------
(***************************************************************************)
(* What an abort does to a call: it keeps its place and its reservation,   *)
(* has a reason from then on, and an answer that won the race stands.      *)
(***************************************************************************)
LEMMA AbortType ==
    ASSUME NEW call \in CallState, NEW code \in AbortCodes
    PROVE  LET new == WithAbort(call, code) IN
           /\ new \in CallState
           /\ new.pc = call.pc
           /\ new.reservation = call.reservation
           /\ new.race # call.race => new.race = Aborted
           /\ new.abortReason # {}
    BY DEF WithAbort, CallState

\* Handing out a reservation widens the type of a call, and nothing else
\* changes it.
LEMMA CallStateGrows ==
    ASSUME handles \subseteq handles'
    PROVE  CallState \subseteq CallState'
    BY DEF CallState

(***************************************************************************)
(* The steps that leave the books alone.  A call that was not admitted, or *)
(* that stays in flight, keeps what it reserved, and has not been charged. *)
(***************************************************************************)
KeepsBooks(c) ==
    \/ calls'[c] = calls[c]
    \/ /\ calls[c].pc = "new" /\ calls'[c].pc = "failed"
       /\ calls'[c].reservation = calls[c].reservation
       /\ calls'[c].race = calls[c].race
       /\ calls'[c].abortReason = calls[c].abortReason
    \/ /\ InFlight(c) /\ InFlight(c)'
       /\ calls'[c].reservation = calls[c].reservation
       /\ calls'[c].race = Aborted =>
             calls[c].race = Aborted \/ calls'[c].abortReason # {}
       /\ calls[c].abortReason # {} => calls'[c].abortReason # {}

LEMMA BooksKept ==
    ASSUME GatewayInv,
           UNCHANGED <<reservations, handles, charges>>,
           \A c \in Calls : KeepsBooks(c)
    PROVE  /\ AbortsHaveReasons'
           /\ OneReservationEach'
           /\ LedgerTellsCalls'
<1>1. \A c \in Calls :
          /\ InFlight(c)' <=> InFlight(c)
          /\ calls'[c].reservation = calls[c].reservation
    BY DEF KeepsBooks, InFlight
<1>2. AbortsHaveReasons'
    BY DEF GatewayInv, AbortsHaveReasons, KeepsBooks
<1>3. OneReservationEach'
    <2> SUFFICES ASSUME NEW c \in Calls
                 PROVE  /\ calls'[c].pc = "new" => calls'[c].reservation = {}
                        /\ InFlight(c)' => calls'[c].reservation # {}
                        /\ \A r \in calls'[c].reservation :
                              calls'[c].reservation = {r}
        BY DEF OneReservationEach
    <2>1. calls'[c].pc = "new" => calls[c].pc = "new"
        BY DEF KeepsBooks, InFlight
    <2> QED
        BY <1>1, <2>1 DEF GatewayInv, OneReservationEach
<1>4. reservations' = UNION {calls'[c].reservation : c \in
                                {x \in Calls : InFlight(x)'}}
    <2>1. {x \in Calls : InFlight(x)'} = {x \in Calls : InFlight(x)}
        BY <1>1
    <2>2. {calls'[c].reservation : c \in {x \in Calls : InFlight(x)'}}
            = {calls[c].reservation : c \in {x \in Calls : InFlight(x)}}
        BY <1>1, <2>1
    <2> QED
        BY <2>2 DEF GatewayInv, LedgerTellsCalls
<1>5. ASSUME NEW c \in Calls, NEW x \in charges,
             {x.reservation} = calls[c].reservation
      PROVE  calls'[c] = calls[c]
    <2>1. ~InFlight(c)
        BY <1>5, InFlightIsOpen
    <2>2. calls[c].pc # "new"
        BY <1>5 DEF GatewayInv, OneReservationEach
    <2> QED
        BY <2>1, <2>2 DEF KeepsBooks
<1>6. ASSUME NEW c \in Calls, calls'[c].pc = "returned"
      PROVE  calls'[c] = calls[c]
    BY <1>6 DEF KeepsBooks, InFlight
<1>7. LedgerTellsCalls'
    <2> SUFFICES ASSUME NEW c \in Calls
                 PROVE  LET charged == \E x \in charges :
                                  {x.reservation} = calls'[c].reservation
                        IN  /\ \A d \in Calls \ {c} :
                                  calls'[c].reservation
                                      \cap calls'[d].reservation = {}
                            /\ calls'[c].pc = "returned" => charged
                            /\ charged =>
                                  /\ calls'[c].race.kind = "output"
                                  /\ \/ calls'[c].pc = "returned"
                                     \/ SinkMayFail /\ calls'[c].pc = "failed"
        BY <1>4 DEF LedgerTellsCalls
    <2> QED
        BY <1>1, <1>5, <1>6 DEF GatewayInv, LedgerTellsCalls
<1> QED
    BY <1>2, <1>3, <1>7

-----------------------------------------------------------------------------
(***************************************************************************)
(* Admission: the new reservation has an id no handle has, so no call      *)
(* holds it and no charge names it.                                        *)
(***************************************************************************)
LEMMA AdmitStep ==
    ASSUME GatewayInv, GatewayTypeOK', NEW c \in Calls, NEW g \in GrantIds,
           NEW id \in ReservationIds, NEW deadline,
           Admit(c, g, id, deadline)
    PROVE  AbortsHaveReasons' /\ OneReservationEach' /\ LedgerTellsCalls'
<1> DEFINE r == NewReservation(g, id)
<1>1. /\ calls[c].pc = "new"
      /\ reservations' = reservations \cup {r}
      /\ charges' = charges
      /\ \A h \in handles : h.id # id
    BY DEF Admit, ReserveCall
<1>2. r.id = id
    BY DEF NewReservation
<1>3. r \notin handles
    BY <1>1, <1>2
<1> HIDE DEF r
<1>4. /\ calls \in [Calls -> CallState]
      /\ calls'[c].pc = "admitted" /\ calls'[c].reservation = {r}
      /\ calls'[c].race = calls[c].race
      /\ calls'[c].abortReason = calls[c].abortReason
      /\ \A d \in Calls \ {c} : calls'[d] = calls[d]
    BY DEF Admit, GatewayInv, GatewayTypeOK, CallState, r
<1>5. /\ InFlight(c)' /\ ~InFlight(c) /\ calls[c].reservation = {}
      /\ \A d \in Calls \ {c} : InFlight(d)' <=> InFlight(d)
    BY <1>1, <1>4 DEF InFlight, GatewayInv, OneReservationEach
<1>6. AbortsHaveReasons' /\ OneReservationEach'
    BY <1>4, <1>5 DEF GatewayInv, AbortsHaveReasons, OneReservationEach,
                      InFlight
<1>7. \A d \in Calls : r \notin calls[d].reservation
    BY <1>3 DEF GatewayInv, GatewayTypeOK, CallState
<1>8. \A x \in charges : x.reservation # r
    BY <1>3 DEF GatewayInv, AccountingInv, TypeOK
<1>9. reservations' = UNION {calls'[d].reservation : d \in
                                {x \in Calls : InFlight(x)'}}
    <2>1. ASSUME NEW x
          PROVE  x \in reservations' <=>
                    \E d \in Calls : InFlight(d)' /\ x \in calls'[d].reservation
        <3>1. x \in reservations <=>
                 \E d \in Calls : InFlight(d) /\ x \in calls[d].reservation
            BY DEF GatewayInv, LedgerTellsCalls
        <3> QED
            BY <1>1, <1>4, <1>5, <3>1
    <2> QED
        BY <2>1
<1>10. LedgerTellsCalls'
    BY <1>1, <1>4, <1>5, <1>7, <1>8, <1>9 DEF GatewayInv, LedgerTellsCalls
<1> QED
    BY <1>6, <1>10

(***************************************************************************)
(* The end of a call: its reservation leaves the ledger with it.  It is    *)
(* charged if and only if it is committed, and only for an output.         *)
(***************************************************************************)
LEMMA EndStep ==
    ASSUME GatewayInv, NEW c \in Calls, InFlight(c),
           reservations' = reservations \ {ReservationOf(c)},
           calls'[c].pc \in {"returned", "failed"},
           calls'[c].reservation = calls[c].reservation,
           calls'[c].race = calls[c].race,
           calls'[c].abortReason = calls[c].abortReason,
           \A d \in Calls \ {c} : calls'[d] = calls[d],
           \/ /\ charges' = charges
              /\ calls'[c].pc = "failed"
           \/ /\ calls[c].race.kind = "output"
              /\ calls'[c].pc = "failed" => SinkMayFail
              /\ \E bytes : charges' = charges \cup
                    {[reservation |-> ReservationOf(c), bytes |-> bytes]}
    PROVE  AbortsHaveReasons' /\ OneReservationEach' /\ LedgerTellsCalls'
<1> DEFINE r == ReservationOf(c)
<1>1. /\ calls[c].reservation = {r}
      /\ \A x \in charges : x.reservation # r
    BY InFlightIsOpen
<1> HIDE DEF r
<1>2. /\ ~InFlight(c)'
      /\ \A d \in Calls \ {c} : InFlight(d)' <=> InFlight(d)
    BY DEF InFlight
<1>3. AbortsHaveReasons' /\ OneReservationEach'
    BY <1>2 DEF GatewayInv, AbortsHaveReasons, OneReservationEach, InFlight
<1>4. \A d \in Calls \ {c} : r \notin calls[d].reservation
    BY <1>1 DEF GatewayInv, LedgerTellsCalls
<1>5. reservations' = UNION {calls'[d].reservation : d \in
                                {x \in Calls : InFlight(x)'}}
    <2>1. ASSUME NEW x
          PROVE  x \in reservations' <=>
                    \E d \in Calls : InFlight(d)' /\ x \in calls'[d].reservation
        <3>1. x \in reservations <=>
                 \E d \in Calls : InFlight(d) /\ x \in calls[d].reservation
            BY DEF GatewayInv, LedgerTellsCalls
        <3>2. x \in reservations' <=> x \in reservations /\ x # r
            BY DEF r
        <3>3. (\E d \in Calls : InFlight(d)' /\ x \in calls'[d].reservation)
                 <=> \E d \in Calls \ {c} : InFlight(d) /\ x \in calls[d].reservation
            BY <1>2
        <3>4. x = r => ~ \E d \in Calls \ {c} : x \in calls[d].reservation
            BY <1>4
        <3>5. x # r => x \notin calls[c].reservation
            BY <1>1
        <3> QED
            BY <3>1, <3>2, <3>3, <3>4, <3>5
    <2> QED
        BY <2>1
<1>6. ASSUME NEW d \in Calls \ {c}
      PROVE  (\E x \in charges' : {x.reservation} = calls'[d].reservation)
                <=> (\E x \in charges : {x.reservation} = calls[d].reservation)
    BY <1>4 DEF r
<1>7. (\E x \in charges' : {x.reservation} = calls'[c].reservation)
         <=> charges' # charges
    <2>1. calls'[c].reservation = {r}
        BY <1>1
    <2>2. CASE charges' = charges
        BY <1>1, <2>1, <2>2
    <2>3. CASE \E bytes : charges' = charges \cup
                              {[reservation |-> ReservationOf(c), bytes |-> bytes]}
        <3>1. PICK bytes : charges' = charges \cup {[reservation |-> r, bytes |-> bytes]}
            BY <2>3 DEF r
        <3> DEFINE x == [reservation |-> r, bytes |-> bytes]
        <3>2. x.reservation = r
            OBVIOUS
        <3> HIDE DEF x
        <3>3. x \in charges' /\ x \notin charges
            BY <1>1, <3>1, <3>2 DEF x
        <3> QED
            BY <2>1, <3>2, <3>3
    <2> QED
        BY <2>2, <2>3
<1>8. \A d, e \in Calls : d # e =>
         calls'[d].reservation \cap calls'[e].reservation = {}
    BY DEF GatewayInv, LedgerTellsCalls
<1>9. LedgerTellsCalls'
    <2> SUFFICES ASSUME NEW d \in Calls
                 PROVE  LET charged == \E x \in charges' :
                                  {x.reservation} = calls'[d].reservation
                        IN  /\ calls'[d].pc = "returned" => charged
                            /\ charged =>
                                  /\ calls'[d].race.kind = "output"
                                  /\ \/ calls'[d].pc = "returned"
                                     \/ SinkMayFail /\ calls'[d].pc = "failed"
        BY <1>5, <1>8 DEF LedgerTellsCalls
    <2>1. CASE d = c
        BY <1>1, <1>7, <2>1 DEF r
    <2>2. CASE d # c
        BY <1>6, <2>2 DEF GatewayInv, LedgerTellsCalls
    <2> QED
        BY <2>1, <2>2
<1> QED
    BY <1>3, <1>9

-----------------------------------------------------------------------------
(* One call at a time *)

LEMMA VerdictType ==
    ASSUME GatewayInv, NEW c \in Calls
    PROVE  Verdict(c) \in Codes
<1>1. calls[c].abortReason # {} => AbortReason(c) \in AbortCodes
    BY DEF AbortReason, GatewayInv, GatewayTypeOK, CallState
<1>2. calls[c].race = Aborted => calls[c].abortReason # {}
    BY DEF GatewayInv, AbortsHaveReasons
<1> QED
    BY <1>1, <1>2 DEF Verdict, AnswerVerdict, Codes, AbortCodes

LEMMA RecordedType ==
    ASSUME NEW code \in Codes
    PROVE  Recorded(code) \cup {<<>>} \subseteq Seq(Codes)
<1>1. ASSUME NEW events \in Recorded(code) \cup {<<>>}
      PROVE  events = <<code>> \/ events = <<>>
    BY <1>1 DEF Recorded
<1>2. <<code>> \in Seq(Codes) /\ <<>> \in Seq(Codes)
    OBVIOUS
<1> QED
    BY <1>1, <1>2, Zenon

LEMMA FailureRecordsType ==
    ASSUME NEW code \in Codes
    PROVE  FailureRecords(code) \subseteq Seq(Codes)
<1>1. FailureRecords(code) \subseteq
          (Recorded(code) \cup {<<>>}) \cup Recorded("PROVIDER_FAILED")
    <2>1. <<code>> \in Recorded(code)
        BY DEF Recorded
    <2> QED
        BY <2>1 DEF FailureRecords
<1>2. "PROVIDER_FAILED" \in Codes
    BY DEF Codes
<1>3. Recorded("PROVIDER_FAILED") \subseteq Seq(Codes)
    BY <1>2, RecordedType
<1>4. Recorded(code) \cup {<<>>} \subseteq Seq(Codes)
    BY RecordedType
<1> QED
    BY <1>1, <1>3, <1>4

\* A refused call held nothing, and holds nothing.
LEMMA RefuseStep ==
    ASSUME GatewayInv, NEW c \in Calls, NEW code \in Codes, Refuse(c, code)
    PROVE  /\ GatewayTypeOK'
           /\ \A d \in Calls : KeepsBooks(d)
           /\ UNCHANGED grantVars
<1>1. /\ calls \in [Calls -> CallState] /\ killed \in BOOLEAN
      /\ UNCHANGED <<grantVars, killed>>
    BY DEF GatewayInv, GatewayTypeOK, Refuse
<1>2. PICK events \in Recorded(code) :
          calls' = [calls EXCEPT ![c].pc = "failed", ![c].events = events]
    BY DEF Refuse
<1>3. events \in Seq(Codes)
    BY RecordedType
<1> DEFINE new == [calls[c] EXCEPT !.pc = "failed", !.events = events]
<1>4. new \in CallState
    BY <1>1, <1>3 DEF CallState
<1>5. /\ calls[c].pc = "new" /\ new.pc = "failed"
      /\ new.reservation = calls[c].reservation
      /\ new.race = calls[c].race
      /\ new.abortReason = calls[c].abortReason
    BY <1>1 DEF Refuse, CallState
<1>6. calls' = [calls EXCEPT ![c] = new]
    BY <1>2
<1> HIDE DEF new
<1>7. CallState' = CallState
    BY <1>1 DEF CallState, grantVars
<1>8. GatewayTypeOK'
    BY <1>1, <1>4, <1>6, <1>7 DEF GatewayTypeOK
<1>9. \A d \in Calls : KeepsBooks(d)
    BY <1>1, <1>5, <1>6 DEF KeepsBooks
<1> QED
    BY <1>1, <1>8, <1>9

\* The steps of a call in flight, but its last.
LEMMA AwaitStep ==
    ASSUME GatewayInv, NEW c \in Calls,
           \/ Dispatch(c) \/ CallerAborts(c) \/ TimerFires(c)
           \/ \E answer \in Answers : ProviderAnswers(c, answer)
    PROVE  /\ GatewayTypeOK'
           /\ \A d \in Calls : KeepsBooks(d)
           /\ UNCHANGED grantVars
<1>1. /\ calls \in [Calls -> CallState] /\ killed \in BOOLEAN
      /\ calls[c] \in CallState
      /\ UNCHANGED <<grantVars, killed>>
    BY DEF GatewayInv, GatewayTypeOK, Dispatch, CallerAborts, TimerFires,
           ProviderAnswers
<1>2. CallState' = CallState
    BY <1>1 DEF CallState, grantVars
<1>3. SUFFICES ASSUME NEW new \in CallState,
                      calls' = [calls EXCEPT ![c] = new],
                      InFlight(c), new.pc \in {"admitted", "calling"},
                      new.reservation = calls[c].reservation,
                      new.race = Aborted =>
                         calls[c].race = Aborted \/ new.abortReason # {},
                      calls[c].abortReason # {} => new.abortReason # {}
               PROVE  GatewayTypeOK' /\ \A d \in Calls : KeepsBooks(d)
    <2>1. CASE Dispatch(c)
        <3> DEFINE new == [calls[c] EXCEPT !.pc = "calling"]
        <3>1. /\ new \in CallState
              /\ new.pc = "calling" /\ new.reservation = calls[c].reservation
              /\ new.race = calls[c].race
              /\ new.abortReason = calls[c].abortReason
            BY <1>1 DEF CallState
        <3>2. calls' = [calls EXCEPT ![c] = new] /\ InFlight(c)
            BY <2>1 DEF Dispatch, InFlight
        <3> QED
            BY <1>1, <1>3, <3>1, <3>2
    <2>2. CASE CallerAborts(c) \/ TimerFires(c)
        <3>1. PICK code \in AbortCodes :
                  calls' = [calls EXCEPT ![c] = WithAbort(calls[c], code)]
            BY <2>2 DEF CallerAborts, TimerFires, AbortCodes
        <3>2. InFlight(c)
            BY <2>2 DEF CallerAborts, TimerFires, InFlight
        <3> DEFINE new == WithAbort(calls[c], code)
        <3>3. /\ new \in CallState
              /\ new.pc = calls[c].pc /\ new.reservation = calls[c].reservation
              /\ new.abortReason # {}
            BY <1>1, AbortType
        <3> HIDE DEF new
        <3>4. calls' = [calls EXCEPT ![c] = new]
            BY <3>1 DEF new
        <3> QED
            BY <1>1, <1>3, <3>2, <3>3, <3>4 DEF InFlight
    <2>3. ASSUME NEW answer \in Answers, ProviderAnswers(c, answer)
          PROVE  GatewayTypeOK' /\ \A d \in Calls : KeepsBooks(d)
        <3> DEFINE new == [calls[c] EXCEPT !.race = answer]
        <3>1. /\ new \in CallState
              /\ new.pc = calls[c].pc /\ new.reservation = calls[c].reservation
              /\ new.race = answer
              /\ new.abortReason = calls[c].abortReason
            BY <1>1 DEF CallState
        <3>2. answer # Aborted
            BY DEF Answers, Aborted
        <3>3. /\ calls' = [calls EXCEPT ![c] = new]
              /\ InFlight(c) /\ calls[c].pc = "calling"
            BY <2>3 DEF ProviderAnswers, InFlight
        <3> QED
            BY <1>1, <1>3, <3>1, <3>2, <3>3
    <2> QED
        BY <1>1, <2>1, <2>2, <2>3
<1>4. GatewayTypeOK'
    BY <1>1, <1>2, <1>3 DEF GatewayTypeOK
<1>5. \A d \in Calls : KeepsBooks(d)
    BY <1>1, <1>3 DEF KeepsBooks, InFlight
<1> QED
    BY <1>4, <1>5

\* The kill switch aborts the calls in flight, whatever their races said.
LEMMA KillStep ==
    ASSUME GatewayInv, Kill
    PROVE  /\ GatewayTypeOK'
           /\ \A c \in Calls : KeepsBooks(c)
<1>1. /\ calls \in [Calls -> CallState] /\ killed' = TRUE
      /\ UNCHANGED grantVars
      /\ CallState' = CallState
      /\ "KILL_SWITCH" \in AbortCodes
    BY DEF GatewayInv, GatewayTypeOK, Kill, CallState, grantVars, AbortCodes
<1>2. ASSUME NEW c \in Calls
      PROVE  /\ calls'[c] \in CallState
             /\ KeepsBooks(c)
    <2>1. CASE InFlight(c)
        <3> DEFINE new == WithAbort(calls[c], "KILL_SWITCH")
        <3>1. calls'[c] = new
            BY <2>1 DEF Kill
        <3>2. /\ new \in CallState
              /\ new.pc = calls[c].pc /\ new.reservation = calls[c].reservation
              /\ new.abortReason # {}
            BY <1>1, AbortType
        <3> HIDE DEF new
        <3> QED
            BY <2>1, <3>1, <3>2 DEF KeepsBooks, InFlight
    <2>2. CASE ~InFlight(c)
        BY <1>1, <2>2 DEF Kill, KeepsBooks
    <2> QED
        BY <2>1, <2>2
<1>3. calls' \in [Calls -> CallState]
    BY <1>2 DEF Kill
<1> QED
    BY <1>1, <1>2, <1>3 DEF GatewayTypeOK

\* A call that ends settles its reservation, whichever way it ends.
LEMMA CallEnds ==
    ASSUME GatewayInv, NEW c \in Calls, CanFinish(c),
           NEW pc \in {"returned", "failed"}, NEW events \in Seq(Codes),
           calls' = [calls EXCEPT ![c].pc = pc, ![c].events = events],
           reservations' = reservations \ {ReservationOf(c)},
           handles' = handles, killed' = killed,
           \/ charges' = charges /\ pc = "failed"
           \/ /\ Verdict(c) = "TOOL_CALLED"
              /\ pc = "failed" => SinkMayFail
              /\ \E bytes : charges' = charges \cup
                    {[reservation |-> ReservationOf(c), bytes |-> bytes]}
    PROVE  /\ GatewayTypeOK' /\ AbortsHaveReasons'
           /\ OneReservationEach' /\ LedgerTellsCalls'
<1>1. /\ calls \in [Calls -> CallState] /\ killed \in BOOLEAN
      /\ calls[c] \in CallState
      /\ InFlight(c)
    BY DEF GatewayInv, GatewayTypeOK, CanFinish, InFlight
<1> DEFINE new == [calls[c] EXCEPT !.pc = pc, !.events = events]
<1>2. /\ new \in CallState /\ new.pc = pc
      /\ new.reservation = calls[c].reservation
      /\ new.race = calls[c].race
      /\ new.abortReason = calls[c].abortReason
    BY <1>1 DEF CallState
<1>3. calls' = [calls EXCEPT ![c] = new]
    OBVIOUS
<1> HIDE DEF new
<1>4. CallState' = CallState
    BY DEF CallState
<1>5. GatewayTypeOK'
    BY <1>1, <1>2, <1>3, <1>4 DEF GatewayTypeOK
<1>6. /\ calls'[c].pc = pc
      /\ calls'[c].reservation = calls[c].reservation
      /\ calls'[c].race = calls[c].race
      /\ calls'[c].abortReason = calls[c].abortReason
      /\ \A d \in Calls \ {c} : calls'[d] = calls[d]
    BY <1>1, <1>2, <1>3
<1>7. Verdict(c) = "TOOL_CALLED" => calls[c].race.kind = "output"
    BY OutputVerdict
<1>8. CASE charges' = charges /\ pc = "failed"
    BY <1>1, <1>5, <1>6, <1>8, EndStep
<1>9. CASE /\ Verdict(c) = "TOOL_CALLED"
           /\ pc = "failed" => SinkMayFail
           /\ \E bytes : charges' = charges \cup
                 {[reservation |-> ReservationOf(c), bytes |-> bytes]}
    BY <1>1, <1>5, <1>6, <1>7, <1>9, EndStep
<1> QED
    BY <1>8, <1>9

-----------------------------------------------------------------------------
(***************************************************************************)
(* Every step preserves the invariant: one case per action.  The ledger's  *)
(* own invariant is preserved because the step is one of the ledger.       *)
(***************************************************************************)
LEMMA GatewayStep ==
    GatewayInv /\ [GatewayNext]_vars => GatewayInv'
<1> SUFFICES ASSUME GatewayInv, [GatewayNext]_vars
             PROVE  GatewayInv'
    OBVIOUS
<1> DEFINE Goal == /\ GatewayTypeOK' /\ AbortsHaveReasons'
                   /\ OneReservationEach' /\ LedgerTellsCalls'
<1>1. AccountingInv'
    BY LedgerStep, AccountingStep DEF GatewayInv
<1>2. clock \in Nat
    BY DEF GatewayInv, AccountingInv, TypeOK
<1>3. /\ calls \in [Calls -> CallState] /\ killed \in BOOLEAN
      /\ \A c \in Calls : calls[c] \in CallState
    BY DEF GatewayInv, GatewayTypeOK
<1>4. ASSUME GatewayTypeOK', UNCHANGED grantVars,
             \A c \in Calls : KeepsBooks(c)
      PROVE  Goal
    BY <1>4, BooksKept DEF grantVars
<1>5. ASSUME NEW c \in Calls,
             \/ RefuseKilled(c) \/ RefuseEntry(c)
             \/ \E g \in GrantIds : RefuseGrant(c, g) \/ RefuseRequest(c, g)
      PROVE  Goal
    <2>1. PICK code \in Codes : Refuse(c, code)
        BY <1>5 DEF RefuseKilled, RefuseEntry, RefuseGrant, RefuseRequest,
                    Codes, AbortCodes
    <2> QED
        BY <2>1, <1>4, RefuseStep
<1>6. ASSUME NEW c \in Calls, NEW g \in GrantIds, RefuseQuota(c, g)
      PROVE  Goal
    <2> DEFINE new == [calls[c] EXCEPT !.pc = "failed"]
    <2>1. /\ calls' = [calls EXCEPT ![c] = new] /\ calls[c].pc = "new"
          /\ UNCHANGED <<grantVars, killed>>
        BY <1>6 DEF RefuseQuota
    <2>2. /\ new \in CallState /\ new.pc = "failed"
          /\ new.reservation = calls[c].reservation
          /\ new.race = calls[c].race
          /\ new.abortReason = calls[c].abortReason
        BY <1>3 DEF CallState
    <2> HIDE DEF new
    <2>3. CallState' = CallState
        BY <2>1 DEF CallState, grantVars
    <2>4. GatewayTypeOK'
        BY <1>3, <2>1, <2>2, <2>3 DEF GatewayTypeOK
    <2>5. \A d \in Calls : KeepsBooks(d)
        BY <1>3, <2>1, <2>2 DEF KeepsBooks
    <2> QED
        BY <2>1, <2>4, <2>5, <1>4
<1>7. ASSUME NEW c \in Calls, NEW g \in GrantIds, NEW id \in ReservationIds,
             NEW deadline \in {{}} \cup {{d} : d \in Deadlines},
             Admit(c, g, id, deadline)
      PROVE  Goal
    <2> DEFINE r == NewReservation(g, id)
               new == [calls[c] EXCEPT !.pc = "admitted", !.reservation = {r},
                                       !.deadline = deadline,
                                       !.startedAt = clock]
    <2>1. /\ calls' = [calls EXCEPT ![c] = new] /\ killed' = killed
          /\ handles' = handles \cup {r}
        BY <1>7 DEF Admit, ReserveCall
    <2> HIDE DEF r
    <2>2. calls[c] \in CallState' /\ \A d \in Calls : calls[d] \in CallState'
        BY <1>3, <2>1, CallStateGrows
    <2>3. {r} \in SUBSET handles' /\ deadline \in SUBSET Deadlines
        BY <2>1
    <2>4. new \in CallState'
        BY <1>2, <2>2, <2>3 DEF CallState
    <2> HIDE DEF new
    <2>5. GatewayTypeOK'
        BY <1>3, <2>1, <2>2, <2>4 DEF GatewayTypeOK
    <2> QED
        BY <1>7, <2>5, AdmitStep
<1>8. ASSUME NEW c \in Calls,
             \/ Dispatch(c) \/ CallerAborts(c) \/ TimerFires(c)
             \/ \E answer \in Answers : ProviderAnswers(c, answer)
      PROVE  Goal
    BY <1>8, <1>4, AwaitStep
<1>9. ASSUME NEW c \in Calls, Return(c) \/ Fail(c)
      PROVE  Goal
    <2>1. /\ CanFinish(c)
          /\ reservations' = reservations \ {ReservationOf(c)}
          /\ handles' = handles /\ killed' = killed
        BY <1>9 DEF Return, Fail, CommitCall, ReleaseCall, Close
    <2>2. CASE Return(c)
        <3>1. /\ Verdict(c) = "TOOL_CALLED"
              /\ \E bytes : charges' = charges \cup
                    {[reservation |-> ReservationOf(c), bytes |-> bytes]}
            BY <2>2 DEF Return, CommitCall
        <3>2. CASE calls' = [calls EXCEPT ![c].pc = "returned",
                                          ![c].events = <<"TOOL_CALLED">>]
            <4>1. <<"TOOL_CALLED">> \in Seq(Codes)
                BY DEF Codes
            <4> QED
                BY <2>1, <3>1, <3>2, <4>1, CallEnds
        <3>3. ASSUME SinkMayFail, NEW events \in Recorded("PROVIDER_FAILED"),
                     calls' = [calls EXCEPT ![c].pc = "failed",
                                            ![c].events = events]
              PROVE  Goal
            <4>1. events \in Seq(Codes)
                BY RecordedType DEF Codes
            <4> QED
                BY <2>1, <3>1, <3>3, <4>1, CallEnds
        <3> QED
            BY <2>2, <3>2, <3>3 DEF Return
    <2>3. CASE Fail(c)
        <3>1. PICK events \in FailureRecords(Verdict(c)) :
                  calls' = [calls EXCEPT ![c].pc = "failed",
                                         ![c].events = events]
            BY <2>3 DEF Fail
        <3>2. events \in Seq(Codes)
            BY VerdictType, FailureRecordsType
        <3>3. charges' = charges
            BY <2>3 DEF Fail, ReleaseCall
        <3> QED
            BY <2>1, <3>1, <3>2, <3>3, CallEnds
    <2> QED
        BY <1>9, <2>2, <2>3
<1>10. ASSUME Kill
       PROVE  Goal
    BY <1>10, <1>4, KillStep DEF Kill
<1>11. ASSUME Environment
       PROVE  Goal
    <2>1. /\ UNCHANGED <<reservations, handles, charges, gatewayVars>>
        BY <1>11 DEF Environment, Issue, Revoke, Consume, Expire, Transition,
                     Tick
    <2>2. GatewayTypeOK' /\ \A c \in Calls : KeepsBooks(c)
        BY <1>3, <2>1 DEF GatewayTypeOK, CallState, KeepsBooks, gatewayVars
    <2> QED
        BY <2>1, <2>2, BooksKept
<1>12. ASSUME UNCHANGED vars
       PROVE  Goal
    <2>1. UNCHANGED <<grantVars, gatewayVars>>
        BY <1>12 DEF vars
    <2>2. GatewayTypeOK' /\ \A c \in Calls : KeepsBooks(c)
        BY <1>3, <2>1 DEF GatewayTypeOK, CallState, KeepsBooks, gatewayVars,
                          grantVars
    <2> QED
        BY <2>1, <2>2, <1>4
<1>13. Goal
    BY <1>5, <1>6, <1>7, <1>8, <1>9, <1>10, <1>11, <1>12 DEF GatewayNext
<1> QED
    BY <1>1, <1>13 DEF GatewayInv

LEMMA GatewayInitial == GatewayInit => GatewayInv
<1> SUFFICES ASSUME GatewayInit
             PROVE  GatewayInv
    OBVIOUS
<1>1. AccountingInv
    BY AccountingInitial DEF GatewayInit
<1>2. NewCall \in CallState
    BY DEF NewCall, CallState
<1>3. /\ killed = FALSE /\ calls = [c \in Calls |-> NewCall]
      /\ reservations = {} /\ charges = {}
    BY DEF GatewayInit, Init
<1>4. \A c \in Calls :
         /\ ~InFlight(c) /\ calls[c].pc = "new" /\ calls[c].reservation = {}
         /\ calls[c].race = Pending
    BY <1>3 DEF NewCall, InFlight
<1>5. Pending # Aborted
    BY DEF Pending, Aborted
<1>6. GatewayTypeOK
    BY <1>2, <1>3 DEF GatewayTypeOK
<1> QED
    BY <1>1, <1>3, <1>4, <1>5, <1>6
       DEF GatewayInv, AbortsHaveReasons, OneReservationEach,
           LedgerTellsCalls

LEMMA GatewayInvariant == GatewaySpec => []GatewayInv
BY GatewayInitial, GatewayStep, PTL DEF GatewaySpec

(***************************************************************************)
(* The open reservations are exactly those of the calls in flight, one     *)
(* each, and what is returned is what is charged: no end of a call leaves  *)
(* quota behind or gives an output away.                                   *)
(***************************************************************************)
THEOREM LedgerAgreesWithCalls == GatewaySpec => []LedgerTellsCalls
BY GatewayInvariant, PTL DEF GatewayInv

(***************************************************************************)
(* What is proved of the ledger holds of the ledger the gateway uses,      *)
(* whatever its calls and the other users of the grants do.                *)
(***************************************************************************)
THEOREM GatewayKeepsQuota == GatewaySpec => [](AccountingInv /\ WithinQuota)
BY GatewayInvariant, PTL DEF GatewayInv, AccountingInv

(***************************************************************************)
(* After kill() nothing is admitted and nothing charged, not even for a    *)
(* call whose provider had answered before.                                *)
(***************************************************************************)
KilledStep ==
    killed => killed' /\ charges' = charges /\ handles' = handles

LEMMA KilledStays == GatewayInv /\ [GatewayNext]_vars => [KilledStep]_vars
<1> SUFFICES ASSUME GatewayInv, GatewayNext, killed
             PROVE  killed' /\ charges' = charges /\ handles' = handles
    BY DEF KilledStep
<1>1. ASSUME NEW c \in Calls, Return(c)
      PROVE  FALSE
    BY <1>1, OutputVerdict DEF Return
<1>2. ASSUME NEW c \in Calls, Fail(c)
      PROVE  UNCHANGED <<killed, charges, handles>>
    BY <1>2 DEF Fail, ReleaseCall
<1>3. ASSUME NEW c \in Calls,
             \/ RefuseKilled(c) \/ RefuseEntry(c)
             \/ \E g \in GrantIds : \/ RefuseGrant(c, g)
                                    \/ RefuseRequest(c, g)
                                    \/ RefuseQuota(c, g)
             \/ Dispatch(c) \/ CallerAborts(c) \/ TimerFires(c)
             \/ \E answer \in Answers : ProviderAnswers(c, answer)
      PROVE  UNCHANGED <<killed, charges, handles>>
    BY <1>3 DEF RefuseKilled, RefuseEntry, RefuseGrant, RefuseRequest,
                RefuseQuota, Refuse, Dispatch, CallerAborts, TimerFires,
                ProviderAnswers, grantVars
<1>4. ASSUME NEW c \in Calls, NEW g, NEW id, NEW deadline,
             Admit(c, g, id, deadline)
      PROVE  FALSE
    BY <1>4 DEF Admit
<1>5. ASSUME Environment
      PROVE  UNCHANGED <<killed, charges, handles>>
    BY <1>5 DEF Environment, Issue, Revoke, Consume, Expire, Transition,
                Tick, gatewayVars
<1>6. ~Kill
    BY DEF Kill
<1> QED
    BY <1>1, <1>2, <1>3, <1>4, <1>5, <1>6 DEF GatewayNext

THEOREM KillSwitchIsFinal == GatewaySpec => KillIsFinal
BY GatewayInvariant, KilledStays, PTL DEF GatewaySpec, KillIsFinal, KilledStep

-----------------------------------------------------------------------------
(***************************************************************************)
(* What the audit says of a call.  Beside the property itself the          *)
(* invariant needs that nothing is recorded before the end, that the first *)
(* abort reason is the only one, that the switch reached every call in     *)
(* flight, and that only a deadline times a call out.                      *)
(***************************************************************************)
CodesOf(call) == {call.events[i] : i \in 1..Len(call.events)}

Due(call, now) ==
    \E d \in call.deadline : now >= d \/ d - call.startedAt > MaxTimer

Told(call, now) ==
    \A code \in CodesOf(call) :
        /\ code = "TOOL_CALLED" <=> call.pc = "returned"
        /\ code \in AbortCodes /\ call.reservation # {} =>
              call.abortReason = {code}
        /\ code \in RefusalCodes \cup {"GRANT_DENIED", "DEADLINE_INVALID"}
              => call.reservation = {}
        /\ code = "CALL_TIMED_OUT" /\ call.reservation # {} => Due(call, now)

OutcomeOf(call, switch, now) ==
    /\ call.pc \in {"new", "admitted", "calling"} => call.events = <<>>
    /\ call.pc = "new" => call.abortReason = {}
    /\ \A code \in call.abortReason : call.abortReason = {code}
    /\ switch /\ call.pc \in {"admitted", "calling"} => call.abortReason # {}
    /\ "CALL_TIMED_OUT" \in call.abortReason => Due(call, now)
    /\ Told(call, now)

OutcomeInv == \A c \in Calls : OutcomeOf(calls[c], killed, clock)

LEMMA CodesRecorded ==
    ASSUME NEW call, NEW code, call.events = <<code>> \/ call.events = <<>>
    PROVE  CodesOf(call) \subseteq {code}
    BY DEF CodesOf

LEMMA NothingTold ==
    ASSUME NEW call, NEW now, call.events = <<>>
    PROVE  Told(call, now)
    BY DEF Told, CodesOf

\* Time only makes deadlines due, and a call that stays as it is keeps its
\* outcome while the kill switch does.
LEMMA OutcomeStays ==
    ASSUME NEW call \in CallState, NEW switch, NEW now \in Nat,
           NEW later \in Nat, later >= now, OutcomeOf(call, switch, now)
    PROVE  OutcomeOf(call, switch, later)
<1>1. Due(call, now) => Due(call, later)
    BY ReadOnlyGatewayAssumption DEF Due, CallState
<1> QED
    BY <1>1 DEF OutcomeOf, Told

\* The first abort reason is the only one, whichever came first.
LEMMA AbortOutcome ==
    ASSUME NEW call \in CallState, NEW switch, NEW now, NEW code \in AbortCodes,
           OutcomeOf(call, switch, now),
           call.pc \in {"admitted", "calling"},
           code = "CALL_TIMED_OUT" => Due(call, now)
    PROVE  OutcomeOf(WithAbort(call, code), TRUE, now)
<1> DEFINE new == WithAbort(call, code)
<1>1. /\ new.pc = call.pc /\ new.events = call.events
      /\ new.deadline = call.deadline /\ new.startedAt = call.startedAt
      /\ new.abortReason = IF call.abortReason = {} THEN {code}
                           ELSE call.abortReason
    BY DEF WithAbort, CallState
<1> HIDE DEF new
<1>2. new.events = <<>>
    BY <1>1 DEF OutcomeOf
<1>3. Told(new, now)
    BY <1>2, NothingTold
<1>4. Due(new, now) <=> Due(call, now)
    BY <1>1 DEF Due
<1>5. OutcomeOf(new, TRUE, now)
    BY <1>1, <1>2, <1>3, <1>4 DEF OutcomeOf
<1> QED
    BY <1>5 DEF new

\* What a failing call records is why it failed.
LEMMA VerdictOutcome ==
    ASSUME GatewayInv, OutcomeInv, NEW c \in Calls, CanFinish(c),
           Verdict(c) # "TOOL_CALLED"
    PROVE  /\ Verdict(c) \in AbortCodes => calls[c].abortReason = {Verdict(c)}
           /\ Verdict(c) \notin RefusalCodes
           /\ Verdict(c) \notin {"GRANT_DENIED", "DEADLINE_INVALID"}
<1>1. /\ OutcomeOf(calls[c], killed, clock)
      /\ calls[c].pc \in {"admitted", "calling"}
    BY DEF OutcomeInv, CanFinish
<1>2. killed => calls[c].abortReason # {}
    BY <1>1 DEF OutcomeOf
<1>3. calls[c].race = Aborted => calls[c].abortReason # {}
    BY DEF GatewayInv, AbortsHaveReasons
<1>4. ASSUME calls[c].abortReason # {}
      PROVE  /\ AbortReason(c) \in AbortCodes
             /\ calls[c].abortReason = {AbortReason(c)}
    BY <1>1, <1>4 DEF AbortReason, OutcomeOf, GatewayInv, GatewayTypeOK,
                      CallState
<1>5. \/ calls[c].abortReason # {} /\ Verdict(c) = AbortReason(c)
      \/ Verdict(c) \in {"PROVIDER_FAILED", "AUTHORIZATION_CHANGED",
                         "OUTPUT_SCHEMA_FAILED", "OVERSIZED"}
    BY <1>2, <1>3 DEF Verdict, AnswerVerdict
<1> QED
    BY <1>4, <1>5, ReadOnlyGatewayAssumption DEF AbortCodes

\* One call changes and keeps its deadline and its abort reason.
LEMMA OutcomeKept ==
    ASSUME GatewayInv, OutcomeInv, NEW c \in Calls, NEW call,
           calls' = [calls EXCEPT ![c] = call],
           UNCHANGED <<killed, clock>>, OutcomeOf(call, killed, clock)
    PROVE  OutcomeInv'
    BY DEF GatewayInv, GatewayTypeOK, OutcomeInv

LEMMA OutcomeStep ==
    GatewayInv /\ OutcomeInv /\ [GatewayNext]_vars => OutcomeInv'
<1> SUFFICES ASSUME GatewayInv, OutcomeInv, [GatewayNext]_vars
             PROVE  OutcomeInv'
    OBVIOUS
<1>1. /\ calls \in [Calls -> CallState]
      /\ \A c \in Calls : /\ calls[c] \in CallState
                          /\ OutcomeOf(calls[c], killed, clock)
      /\ clock \in Nat
    BY DEF GatewayInv, GatewayTypeOK, OutcomeInv, AccountingInv, TypeOK
<1>2. ASSUME NEW c \in Calls,
             NEW code \in Codes \ {"TOOL_CALLED"}, Refuse(c, code)
      PROVE  OutcomeInv'
    <2>1. PICK events \in Recorded(code) :
              calls' = [calls EXCEPT ![c].pc = "failed", ![c].events = events]
        BY <1>2 DEF Refuse
    <2>2. events = <<code>> \/ events = <<>>
        BY <2>1 DEF Recorded
    <2> DEFINE call == [calls[c] EXCEPT !.pc = "failed", !.events = events]
    <2>3. /\ calls[c].pc = "new" /\ UNCHANGED <<killed, clock>>
          /\ calls[c].abortReason = {} /\ calls[c].reservation = {}
        BY <1>1, <1>2 DEF Refuse, grantVars, OutcomeOf, GatewayInv,
                          OneReservationEach
    <2>4. /\ call.pc = "failed" /\ call.events = events
          /\ call.reservation = {} /\ call.abortReason = {}
        BY <1>1, <2>3 DEF CallState
    <2>5. calls' = [calls EXCEPT ![c] = call]
        BY <2>1
    <2> HIDE DEF call
    <2>6. CodesOf(call) \subseteq {code}
        BY <2>2, <2>4, CodesRecorded
    <2>7. OutcomeOf(call, killed, clock)
        BY <2>4, <2>6 DEF OutcomeOf, Told
    <2> QED
        BY <2>3, <2>5, <2>7, OutcomeKept
<1>3. ASSUME NEW c \in Calls,
             \/ RefuseKilled(c) \/ RefuseEntry(c)
             \/ \E g \in GrantIds : RefuseGrant(c, g) \/ RefuseRequest(c, g)
      PROVE  OutcomeInv'
    <2>1. \E code \in Codes \ {"TOOL_CALLED"} : Refuse(c, code)
        BY <1>3, ReadOnlyGatewayAssumption
           DEF RefuseKilled, RefuseEntry, RefuseGrant, RefuseRequest, Codes,
               AbortCodes
    <2> QED
        BY <1>2, <2>1
<1>4. ASSUME NEW c \in Calls, NEW g \in GrantIds, RefuseQuota(c, g)
      PROVE  OutcomeInv'
    <2> DEFINE call == [calls[c] EXCEPT !.pc = "failed"]
    <2>1. /\ calls' = [calls EXCEPT ![c] = call] /\ calls[c].pc = "new"
          /\ UNCHANGED <<killed, clock>>
        BY <1>4 DEF RefuseQuota, grantVars
    <2>2. /\ call.pc = "failed" /\ call.events = <<>>
          /\ call.abortReason = {}
        BY <1>1, <2>1 DEF CallState, OutcomeOf
    <2> HIDE DEF call
    <2>3. Told(call, clock)
        BY <2>2, NothingTold
    <2> QED
        BY <2>1, <2>2, <2>3, OutcomeKept DEF OutcomeOf
<1>5. ASSUME NEW c \in Calls, NEW g \in GrantIds, NEW id \in ReservationIds,
             NEW deadline, Admit(c, g, id, deadline)
      PROVE  OutcomeInv'
    <2> DEFINE r == NewReservation(g, id)
               call == [calls[c] EXCEPT !.pc = "admitted",
                                        !.reservation = {r},
                                        !.deadline = deadline,
                                        !.startedAt = clock]
    <2>1. /\ calls' = [calls EXCEPT ![c] = call] /\ calls[c].pc = "new"
          /\ ~killed /\ UNCHANGED <<killed, clock>>
        BY <1>5 DEF Admit, ReserveCall
    <2> HIDE DEF r
    <2>2. /\ call.pc = "admitted" /\ call.events = <<>>
          /\ call.abortReason = {}
        BY <1>1, <2>1 DEF CallState, OutcomeOf
    <2> HIDE DEF call
    <2>3. Told(call, clock)
        BY <2>2, NothingTold
    <2> QED
        BY <2>1, <2>2, <2>3, OutcomeKept DEF OutcomeOf
<1>6. ASSUME NEW c \in Calls,
             Dispatch(c) \/ \E answer \in Answers : ProviderAnswers(c, answer)
      PROVE  OutcomeInv'
    <2>1. PICK call \in CallState :
              /\ calls' = [calls EXCEPT ![c] = call]
              /\ calls[c].pc \in {"admitted", "calling"}
              /\ call.pc = "calling" /\ call.events = calls[c].events
              /\ call.abortReason = calls[c].abortReason
              /\ call.deadline = calls[c].deadline
              /\ call.startedAt = calls[c].startedAt
              /\ UNCHANGED <<killed, clock>>
        <3>1. CASE Dispatch(c)
            <4> DEFINE call == [calls[c] EXCEPT !.pc = "calling"]
            <4>1. /\ call \in CallState /\ call.pc = "calling"
                  /\ call.events = calls[c].events
                  /\ call.abortReason = calls[c].abortReason
                  /\ call.deadline = calls[c].deadline
                  /\ call.startedAt = calls[c].startedAt
                BY <1>1 DEF CallState
            <4>2. /\ calls' = [calls EXCEPT ![c] = call]
                  /\ calls[c].pc \in {"admitted", "calling"}
                  /\ UNCHANGED <<killed, clock>>
                BY <3>1 DEF Dispatch, grantVars
            <4> HIDE DEF call
            <4> QED
                BY <4>1, <4>2
        <3>2. ASSUME NEW answer \in Answers, ProviderAnswers(c, answer)
              PROVE  \E call \in CallState :
                        /\ calls' = [calls EXCEPT ![c] = call]
                        /\ calls[c].pc \in {"admitted", "calling"}
                        /\ call.pc = "calling"
                        /\ call.events = calls[c].events
                        /\ call.abortReason = calls[c].abortReason
                        /\ call.deadline = calls[c].deadline
                        /\ call.startedAt = calls[c].startedAt
                        /\ UNCHANGED <<killed, clock>>
            <4> DEFINE call == [calls[c] EXCEPT !.race = answer]
            <4>1. calls' = [calls EXCEPT ![c] = call]
                BY <3>2 DEF ProviderAnswers
            <4>2. /\ calls[c].pc = "calling" /\ UNCHANGED <<killed, clock>>
                BY <3>2 DEF ProviderAnswers, grantVars
            <4>3. /\ call \in CallState /\ call.pc = "calling"
                  /\ call.events = calls[c].events
                  /\ call.abortReason = calls[c].abortReason
                  /\ call.deadline = calls[c].deadline
                  /\ call.startedAt = calls[c].startedAt
                BY <1>1, <4>2 DEF CallState
            <4> HIDE DEF call
            <4> QED
                BY <4>1, <4>2, <4>3
        <3> QED
            BY <1>6, <3>1, <3>2
    <2>2. call.events = <<>> /\ (Due(call, clock) <=> Due(calls[c], clock))
        BY <1>1, <2>1 DEF OutcomeOf, Due
    <2>3. Told(call, clock)
        BY <2>2, NothingTold
    <2>4. OutcomeOf(calls[c], killed, clock)
        BY <1>1
    <2>5. OutcomeOf(call, killed, clock)
        BY <2>1, <2>2, <2>3, <2>4 DEF OutcomeOf
    <2> QED
        BY <2>1, <2>5, OutcomeKept
<1>7. ASSUME NEW c \in Calls, CallerAborts(c) \/ TimerFires(c)
      PROVE  OutcomeInv'
    <2>1. PICK code \in AbortCodes :
              /\ calls' = [calls EXCEPT ![c] = WithAbort(calls[c], code)]
              /\ code = "CALL_TIMED_OUT" => Due(calls[c], clock)
        BY <1>7 DEF CallerAborts, TimerFires, AbortCodes, Due
    <2>2. /\ calls[c].pc \in {"admitted", "calling"}
          /\ UNCHANGED <<killed, clock>>
        BY <1>7 DEF CallerAborts, TimerFires, InFlight, grantVars
    <2>3. OutcomeOf(WithAbort(calls[c], code), TRUE, clock)
        BY <1>1, <2>1, <2>2, AbortOutcome
    <2>4. OutcomeOf(WithAbort(calls[c], code), killed, clock)
        BY <2>3 DEF OutcomeOf
    <2> QED
        BY <2>1, <2>2, <2>4, OutcomeKept
<1>8. ASSUME Kill
      PROVE  OutcomeInv'
    <2>1. "KILL_SWITCH" \in AbortCodes /\ "KILL_SWITCH" # "CALL_TIMED_OUT"
        BY DEF AbortCodes
    <2>2. killed' = TRUE /\ clock' = clock
        BY <1>8 DEF Kill, grantVars
    <2>3. ASSUME NEW c \in Calls
          PROVE  OutcomeOf(calls'[c], TRUE, clock)
        <3>1. CASE InFlight(c)
            <4>1. calls'[c] = WithAbort(calls[c], "KILL_SWITCH")
                BY <1>8, <3>1 DEF Kill
            <4>2. calls[c].pc \in {"admitted", "calling"}
                BY <3>1 DEF InFlight
            <4> QED
                BY <1>1, <2>1, <4>1, <4>2, AbortOutcome
        <3>2. CASE ~InFlight(c)
            <4>1. calls'[c] = calls[c]
                BY <1>8, <3>2 DEF Kill
            <4> QED
                BY <1>1, <3>2, <4>1 DEF OutcomeOf, InFlight
        <3> QED
            BY <3>1, <3>2
    <2> QED
        BY <2>2, <2>3 DEF OutcomeInv
<1>9. ASSUME NEW c \in Calls, CanFinish(c),
             NEW pc \in {"returned", "failed"}, NEW events, NEW code,
             calls' = [calls EXCEPT ![c].pc = pc, ![c].events = events],
             UNCHANGED <<killed, clock>>,
             events = <<code>> \/ events = <<>>,
             code = "TOOL_CALLED" <=> pc = "returned",
             code \in AbortCodes => calls[c].abortReason = {code},
             code \notin RefusalCodes \cup {"GRANT_DENIED", "DEADLINE_INVALID"}
      PROVE  OutcomeInv'
    <2> DEFINE call == [calls[c] EXCEPT !.pc = pc, !.events = events]
    <2>1. /\ call.pc = pc /\ call.events = events
          /\ call.reservation = calls[c].reservation
          /\ call.abortReason = calls[c].abortReason
          /\ call.deadline = calls[c].deadline
          /\ call.startedAt = calls[c].startedAt
        BY <1>1 DEF CallState
    <2>2. calls' = [calls EXCEPT ![c] = call]
        BY <1>9
    <2> HIDE DEF call
    <2>3. CodesOf(call) \subseteq {code}
        BY <1>9, <2>1, CodesRecorded
    <2>4. Due(call, clock) <=> Due(calls[c], clock)
        BY <2>1 DEF Due
    <2>5. /\ OutcomeOf(calls[c], killed, clock)
          /\ "CALL_TIMED_OUT" \in AbortCodes
        BY <1>1 DEF AbortCodes
    <2>6. code = "CALL_TIMED_OUT" => Due(call, clock)
        BY <1>9, <2>4, <2>5 DEF OutcomeOf
    <2>7. Told(call, clock)
        BY <1>9, <2>1, <2>3, <2>6 DEF Told
    <2>8. OutcomeOf(call, killed, clock)
        BY <1>9, <2>1, <2>4, <2>5, <2>7 DEF OutcomeOf
    <2> QED
        BY <1>9, <2>2, <2>8, OutcomeKept
<1>10. ASSUME NEW c \in Calls, Return(c)
       PROVE  OutcomeInv'
    <2>1. CanFinish(c) /\ UNCHANGED <<killed, clock>>
        BY <1>10 DEF Return, CommitCall
    <2>2. CASE calls' = [calls EXCEPT ![c].pc = "returned",
                                      ![c].events = <<"TOOL_CALLED">>]
        <3> DEFINE pc == "returned"
                   code == "TOOL_CALLED"
                   events == <<code>>
        <3>1. /\ pc \in {"returned", "failed"}
              /\ code = "TOOL_CALLED" <=> pc = "returned"
              /\ code \notin AbortCodes
              /\ code \notin RefusalCodes \cup
                                {"GRANT_DENIED", "DEADLINE_INVALID"}
            BY ReadOnlyGatewayAssumption DEF AbortCodes
        <3>2. calls' = [calls EXCEPT ![c].pc = pc, ![c].events = events]
            BY <2>2
        <3>3. events = <<code>>
            OBVIOUS
        <3> HIDE DEF pc, code, events
        <3> QED
            BY <1>9, <2>1, <3>1, <3>2, <3>3
    <2>3. ASSUME NEW events \in Recorded("PROVIDER_FAILED"),
                 calls' = [calls EXCEPT ![c].pc = "failed",
                                        ![c].events = events]
          PROVE  OutcomeInv'
        <3> DEFINE pc == "failed"
                   code == "PROVIDER_FAILED"
        <3>1. /\ pc \in {"returned", "failed"}
              /\ code = "TOOL_CALLED" <=> pc = "returned"
              /\ code \notin AbortCodes
              /\ code \notin RefusalCodes \cup
                                {"GRANT_DENIED", "DEADLINE_INVALID"}
            BY ReadOnlyGatewayAssumption DEF AbortCodes
        <3>2. calls' = [calls EXCEPT ![c].pc = pc, ![c].events = events]
            BY <2>3
        <3>3. events = <<code>> \/ events = <<>>
            BY DEF Recorded
        <3> HIDE DEF pc, code
        <3> QED
            BY <1>9, <2>1, <3>1, <3>2, <3>3
    <2> QED
        BY <1>10, <2>2, <2>3 DEF Return
<1>11. ASSUME NEW c \in Calls, Fail(c)
       PROVE  OutcomeInv'
    <2>1. /\ CanFinish(c) /\ UNCHANGED <<killed, clock>>
          /\ Verdict(c) # "TOOL_CALLED"
        BY <1>11 DEF Fail, ReleaseCall
    <2>2. PICK events \in FailureRecords(Verdict(c)) :
              calls' = [calls EXCEPT ![c].pc = "failed",
                                     ![c].events = events]
        BY <1>11 DEF Fail
    <2>3. PICK code \in {Verdict(c), "PROVIDER_FAILED"} :
              events = <<code>> \/ events = <<>>
        BY <2>2 DEF FailureRecords, Recorded
    <2>4. /\ code \in AbortCodes => calls[c].abortReason = {code}
          /\ code \notin RefusalCodes \cup {"GRANT_DENIED", "DEADLINE_INVALID"}
          /\ code # "TOOL_CALLED"
        <3>1. CASE code = Verdict(c)
            BY <2>1, <3>1, VerdictOutcome
        <3>2. CASE code = "PROVIDER_FAILED"
            BY <3>2, ReadOnlyGatewayAssumption DEF AbortCodes
        <3> QED
            BY <2>3, <3>1, <3>2
    <2> QED
        BY <1>9, <2>1, <2>2, <2>3, <2>4
<1>12. ASSUME Environment \/ UNCHANGED vars
       PROVE  OutcomeInv'
    <2>1. /\ UNCHANGED gatewayVars
          /\ clock' = clock \/ clock' = clock + 1
        BY <1>12 DEF Environment, Issue, Revoke, Consume, Expire, Transition,
                     Tick, vars, grantVars
    <2>2. clock' \in Nat /\ clock' >= clock
        BY <1>1, <2>1
    <2>3. calls' = calls /\ killed' = killed
        BY <2>1 DEF gatewayVars
    <2>4. \A c \in Calls : OutcomeOf(calls[c], killed, clock')
        BY <1>1, <2>2, OutcomeStays
    <2> QED
        BY <2>3, <2>4 DEF OutcomeInv
<1> QED
    BY <1>3, <1>4, <1>5, <1>6, <1>7, <1>8, <1>10, <1>11, <1>12
       DEF GatewayNext

(***************************************************************************)
(* The audit does not lie about a call: success is recorded exactly for    *)
(* the calls that returned, an abort under the reason that came first, a   *)
(* timeout only of a call that was due, and a refusal only of a call that  *)
(* reserved nothing; in whatever order the answer, the caller, the timer   *)
(* and the kill switch came.                                               *)
(***************************************************************************)
THEOREM AuditTellsTheTruth == GatewaySpec => []AuditTellsOutcome
<1>1. GatewayInit => OutcomeInv
    <2> SUFFICES ASSUME GatewayInit, NEW c \in Calls
                 PROVE  OutcomeOf(calls[c], killed, clock)
        BY DEF OutcomeInv
    <2>1. /\ calls[c] = NewCall /\ killed = FALSE
          /\ NewCall.events = <<>> /\ NewCall.abortReason = {}
          /\ NewCall.pc = "new"
        BY DEF GatewayInit, NewCall
    <2>2. Told(NewCall, clock)
        BY <2>1, NothingTold
    <2> QED
        BY <2>1, <2>2 DEF OutcomeOf
<1>2. OutcomeInv => AuditTellsOutcome
    BY DEF OutcomeInv, OutcomeOf, Told, CodesOf, Due, AuditTellsOutcome
<1> QED
    BY <1>1, <1>2, GatewayInvariant, OutcomeStep, PTL DEF GatewaySpec
=============================================================================
