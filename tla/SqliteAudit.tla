----------------------------- MODULE SqliteAudit -----------------------------
(***************************************************************************)
(* SqliteAuditSink (sqlite-audit.ts): a chain of audit events that several *)
(* processes append to.  An append is a BEGIN IMMEDIATE transaction: it    *)
(* takes the database's only write lock, reads the last event, and inserts *)
(* the next.  The steps are separate actions, so that what the lock is for *)
(* is in the model.                                                        *)
(*                                                                         *)
(* The digest of an event stands for its fields, as a hash without         *)
(* collisions does.                                                        *)
(***************************************************************************)
EXTENDS Naturals, Sequences, FiniteSets

CONSTANTS
    Processes,  \* the processes that have the database open
    AuditCodes, \* the codes of events
    Nobody      \* the lock is free

ASSUME SqliteAuditAssumption == Nobody \notin Processes

VARIABLES
    events,     \* table audit_events
    writer,     \* the process that holds the write lock
    prior       \* by process: the last events it read in its transaction

auditVars == <<events, writer, prior>>

\* auditEventDigest
Digest(e) == <<e.sequence, e.code, e.previousDigest>>

NoDigest == <<>>

\* Mutant: an event is chained to what its predecessor is chained to.
EventSkipping(code, last) ==
    LET value ==
          [sequence |-> IF last = {} THEN 1
                        ELSE (CHOOSE e \in last : TRUE).sequence + 1,
           code |-> code,
           previousDigest |-> IF last = {} THEN NoDigest
                              ELSE (CHOOSE e \in last : TRUE).previousDigest]
    IN  [sequence |-> value.sequence, code |-> code,
         previousDigest |-> value.previousDigest, digest |-> Digest(value)]

Event(code, last) ==
    LET value ==
          [sequence |-> IF last = {} THEN 1
                        ELSE (CHOOSE e \in last : TRUE).sequence + 1,
           code |-> code,
           previousDigest |-> IF last = {} THEN NoDigest
                              ELSE (CHOOSE e \in last : TRUE).digest]
    IN  [sequence |-> value.sequence, code |-> code,
         previousDigest |-> value.previousDigest, digest |-> Digest(value)]

\* SELECT ... ORDER BY sequence DESC LIMIT 1: at most one event
Last == {e \in events : \A f \in events : f.sequence <= e.sequence}

\* Mutant: BEGIN without IMMEDIATE takes no lock.
BeginDeferred(p) ==
    /\ prior' = [prior EXCEPT ![p] = Last]
    /\ UNCHANGED <<events, writer>>

BeginImmediate(p) ==
    /\ writer = Nobody
    /\ writer' = p
    /\ prior' = [prior EXCEPT ![p] = Last]
    /\ UNCHANGED events

\* The primary key and the UNIQUE digest.
Conflicts(e) ==
    \E f \in events : f.sequence = e.sequence \/ f.digest = e.digest

\* INSERT and COMMIT; a conflict rolls back and throws.
Insert(p, code) ==
    /\ ~Conflicts(Event(code, prior[p]))
    /\ events' = events \cup {Event(code, prior[p])}

Unlocked(p) == IF writer = p THEN Nobody ELSE writer

EndTransaction(p) ==
    /\ writer' = Unlocked(p)
    /\ prior' = [prior EXCEPT ![p] = {}]

AuditInit ==
    /\ events = {}
    /\ writer = Nobody
    /\ prior = [p \in Processes |-> {}]

-----------------------------------------------------------------------------
(* readAll *)

EventAt(i) == CHOOSE e \in events : e.sequence = i

Verifies ==
    /\ {e.sequence : e \in events} = 1..Cardinality(events)
    /\ \A e \in events :
        /\ e.previousDigest =
              IF e.sequence = 1 THEN NoDigest
              ELSE EventAt(e.sequence - 1).digest
        /\ e.digest = Digest(e)

\* The codes readAll returns, or that it throws.
ReadAll ==
    IF Verifies THEN [i \in 1..Cardinality(events) |-> EventAt(i).code]
    ELSE <<"Invalid stored audit chain.">>

Log == INSTANCE AuditLog WITH log <- ReadAll

=============================================================================
