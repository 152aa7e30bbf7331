----------------------- MODULE GatewayProcessesProofs -----------------------
(***************************************************************************)
(* Proofs about GatewayProcesses, for any number of processes, grants and  *)
(* reservations: that what they write to the audit is a log, that their    *)
(* writes to the tables are operations of the ledger, that every row has   *)
(* an owner, and that what is charged is in the audit.                     *)
(***************************************************************************)
EXTENDS GatewayProcesses, FiniteSetTheorems, TLAPS

-----------------------------------------------------------------------------
(***************************************************************************)
(* The chain of audit events: numbered from one without gap or double, and *)
(* each event chained to the one before.                                   *)
(***************************************************************************)
Chain ==
    /\ IsFiniteSet(events)
    /\ \A e, f \in events : e.sequence = f.sequence => e = f
    /\ Verifies

LEMMA ChainNumbers ==
    ASSUME Chain
    PROVE  LET n == Cardinality(events) IN
           /\ n \in Nat
           /\ \A e \in events : e.sequence \in 1..n /\ EventAt(e.sequence) = e
           /\ \A i \in 1..n : /\ EventAt(i) \in events
                              /\ EventAt(i).sequence = i
<1> DEFINE n == Cardinality(events)
<1>1. n \in Nat
    BY FS_CardinalityType DEF Chain
<1>2. {e.sequence : e \in events} = 1..n
    BY DEF Chain, Verifies
<1> HIDE DEF n
<1>3. ASSUME NEW e \in events
      PROVE  e.sequence \in 1..n /\ EventAt(e.sequence) = e
    <2>1. e.sequence \in 1..n
        BY <1>2
    <2>2. EventAt(e.sequence) = e
        BY DEF EventAt, Chain
    <2> QED
        BY <2>1, <2>2
<1>4. ASSUME NEW i \in 1..n
      PROVE  EventAt(i) \in events /\ EventAt(i).sequence = i
    <2>1. \E e \in events : e.sequence = i
        BY <1>2
    <2> QED
        BY <2>1 DEF EventAt
<1> QED
    BY <1>1, <1>3, <1>4 DEF n

(***************************************************************************)
(* The event an append builds from the last one it read, when that is      *)
(* still the last: its number is the next, and it is chained to it.        *)
(***************************************************************************)
LEMMA NextEvent ==
    ASSUME Chain, NEW code
    PROVE  LET n == Cardinality(events)
               e == Event(code, Last)
           IN  /\ e.sequence = n + 1
               /\ e.code = code
               /\ e.digest = Digest(e)
               /\ e.previousDigest = IF n = 0 THEN NoDigest
                                     ELSE EventAt(n).digest
<1> DEFINE n == Cardinality(events)
           e == Event(code, Last)
<1>1. /\ n \in Nat
      /\ \A f \in events : f.sequence \in 1..n /\ EventAt(f.sequence) = f
      /\ \A i \in 1..n : EventAt(i) \in events /\ EventAt(i).sequence = i
    BY ChainNumbers
<1>2. e.code = code /\ e.digest = Digest(e)
    BY DEF Event, Digest
<1>3. CASE n = 0
    <2>1. events = {}
        BY <1>3, FS_EmptySet DEF Chain
    <2>2. Last = {}
        BY <2>1 DEF Last
    <2> QED
        BY <1>2, <1>3, <2>2 DEF Event
<1>4. CASE n # 0
    <2>1. n \in 1..n
        BY <1>1, <1>4
    <2> HIDE DEF n
    <2>2. Last = {EventAt(n)}
        <3>1. EventAt(n) \in Last
            BY <1>1, <2>1 DEF Last
        <3>2. ASSUME NEW f \in Last
              PROVE  f = EventAt(n)
            <4>1. f \in events /\ f.sequence >= EventAt(n).sequence
                BY <1>1, <2>1 DEF Last
            <4>2. f.sequence = n
                BY <1>1, <2>1, <4>1
            <4> QED
                BY <1>1, <4>1, <4>2
        <3> QED
            BY <3>1, <3>2
    <2>3. (CHOOSE f \in Last : TRUE) = EventAt(n) /\ Last # {}
        BY <2>2
    <2>4. e.sequence = n + 1 /\ e.previousDigest = EventAt(n).digest
        BY <1>1, <2>1, <2>3 DEF Event
    <2> QED
        BY <1>2, <1>4, <2>4 DEF n
<1> QED
    BY <1>3, <1>4

(***************************************************************************)
(* The insert of an append that no other came between: the chain grows by  *)
(* the new event, and who reads it reads one code more.                    *)
(***************************************************************************)
LEMMA ChainGrows ==
    ASSUME Chain, NEW code, events' = events \cup {Event(code, Last)}
    PROVE  Chain' /\ ReadAll' = Append(ReadAll, code)
<1> DEFINE n == Cardinality(events)
           e == Event(code, Last)
<1>1. /\ n \in Nat
      /\ \A f \in events : f.sequence \in 1..n /\ EventAt(f.sequence) = f
      /\ \A i \in 1..n : EventAt(i) \in events /\ EventAt(i).sequence = i
    BY ChainNumbers
<1>2. /\ e.sequence = n + 1
      /\ e.code = code
      /\ e.digest = Digest(e)
      /\ e.previousDigest = IF n = 0 THEN NoDigest ELSE EventAt(n).digest
    BY NextEvent
<1>3. events' = events \cup {e}
    OBVIOUS
<1> HIDE DEF e
<1>4. e \notin events
    BY <1>1, <1>2
<1>5. IsFiniteSet(events') /\ Cardinality(events') = n + 1
    BY <1>3, <1>4, FS_AddElement DEF Chain
<1>6. \A f, g \in events' : f.sequence = g.sequence => f = g
    BY <1>1, <1>2, <1>3 DEF Chain
<1> DEFINE After(i) == CHOOSE f \in events' : f.sequence = i
<1>7. \A i \in 1..n : After(i) = EventAt(i)
    <2> TAKE i \in 1..n
    <2>1. EventAt(i) \in events /\ EventAt(i).sequence = i
        BY <1>1
    <2>2. \A f \in events' : f.sequence = i => f = EventAt(i)
        BY <1>3, <1>6, <2>1
    <2> QED
        BY <1>3, <2>1, <2>2
<1>8. After(n + 1) = e
    <2>1. \A f \in events' : f.sequence = n + 1 => f = e
        BY <1>2, <1>3, <1>6
    <2> QED
        BY <1>2, <1>3, <2>1
<1>9. Verifies'
    <2>1. {f.sequence : f \in events'} = 1..(n + 1)
        <3>1. {f.sequence : f \in events} = 1..n
            BY DEF Chain, Verifies
        <3>2. {f.sequence : f \in events'} =
                  {f.sequence : f \in events} \cup {n + 1}
            BY <1>2, <1>3
        <3> HIDE DEF n
        <3> QED
            BY <1>1, <3>1, <3>2
    <2>2. ASSUME NEW f \in events
          PROVE  /\ f.previousDigest = IF f.sequence = 1 THEN NoDigest
                                       ELSE After(f.sequence - 1).digest
                 /\ f.digest = Digest(f)
        <3>1. f.sequence \in 1..n
            BY <1>1
        <3>2. /\ f.previousDigest = IF f.sequence = 1 THEN NoDigest
                                    ELSE EventAt(f.sequence - 1).digest
              /\ f.digest = Digest(f)
            BY DEF Chain, Verifies
        <3>3. f.sequence # 1 => f.sequence - 1 \in 1..n
            BY <1>1, <3>1
        <3> QED
            BY <1>7, <3>2, <3>3
    <2>3. e.previousDigest = IF e.sequence = 1 THEN NoDigest
                             ELSE After(e.sequence - 1).digest
        <3>1. CASE n = 0
            BY <1>2, <3>1
        <3>2. CASE n # 0
            <4>1. n \in 1..n /\ e.sequence # 1 /\ e.sequence - 1 = n
                BY <1>1, <1>2, <3>2
            <4> HIDE DEF n
            <4> QED
                BY <1>2, <1>7, <3>2, <4>1
        <3> QED
            BY <3>1, <3>2
    <2>4. \A f \in events' :
             /\ f.previousDigest = IF f.sequence = 1 THEN NoDigest
                                   ELSE After(f.sequence - 1).digest
             /\ f.digest = Digest(f)
        BY <1>2, <1>3, <2>2, <2>3
    <2> HIDE DEF n
    <2>5. \A f \in events' : Digest(f)' = Digest(f)
        BY DEF Digest
    <2> QED
        BY <1>5, <2>1, <2>4, <2>5 DEF Verifies, EventAt
<1>10. ReadAll' = Append(ReadAll, code)
    <2>1. ReadAll = [i \in 1..n |-> EventAt(i).code]
        BY DEF ReadAll, Chain
    <2>2. ReadAll' = [i \in 1..(n + 1) |-> After(i).code]
        BY <1>5, <1>9 DEF ReadAll, EventAt
    <2> DEFINE old == [i \in 1..n |-> EventAt(i).code]
               new == [i \in 1..(n + 1) |-> After(i).code]
    <2>3. \A i \in 1..n : new[i] = old[i]
        BY <1>1, <1>7
    <2>4. new[n + 1] = code
        BY <1>1, <1>2, <1>8
    <2>5. Len(old) = n
        BY <1>1
    <2>6. new = Append(old, code)
        BY <1>1, <2>3, <2>4, <2>5
    <2> QED
        BY <2>1, <2>2, <2>6
<1> QED
    BY <1>5, <1>6, <1>9, <1>10 DEF Chain

-----------------------------------------------------------------------------
(* The local states of the processes *)

\* A record with the fields of Idle.
IsLocal(s) ==
    s = [pc |-> s.pc, grant |-> s.grant, state |-> s.state,
         revision |-> s.revision, now |-> s.now,
         reservation |-> s.reservation, bytes |-> s.bytes, code |-> s.code,
         refused |-> s.refused]

Locals ==
    /\ procs = [p \in Processes |-> procs[p]]
    /\ \A p \in Processes : IsLocal(procs[p])

\* Process p moves to the local state s, alone.
Moves(p, s) ==
    /\ procs' = [q \in Processes |-> procs'[q]]
    /\ procs'[p] = s
    /\ \A q \in Processes \ {p} : procs'[q] = procs[q]

\* A step of one process changes no local state but its own.
LEMMA OneMoves ==
    ASSUME Locals, NEW p \in Processes, NEW s,
           procs' = [procs EXCEPT ![p] = s]
    PROVE  Moves(p, s)
    BY DEF Locals, Moves

\* Goto and GotoRecording set the program counter and the code, no more.
LEMMA GotoMoves ==
    ASSUME Locals, NEW p \in Processes, NEW pc, Goto(p, pc)
    PROVE  /\ Locals'
           /\ Moves(p, [procs[p] EXCEPT !.pc = pc])
<1> DEFINE s == [procs[p] EXCEPT !.pc = pc]
<1>1. procs' = [procs EXCEPT ![p] = s]
    BY DEF Goto
<1>2. IsLocal(s)
    BY DEF Locals, IsLocal
<1> HIDE DEF s
<1>3. Moves(p, s)
    BY <1>1, OneMoves
<1>4. Locals'
    BY <1>2, <1>3 DEF Locals, Moves
<1> QED
    BY <1>3, <1>4 DEF s

LEMMA RecordingMoves ==
    ASSUME Locals, NEW p \in Processes, NEW pc, NEW code,
           GotoRecording(p, pc, code)
    PROVE  /\ Locals'
           /\ Moves(p, [procs[p] EXCEPT !.pc = pc, !.code = code])
<1> DEFINE s == [procs[p] EXCEPT !.pc = pc, !.code = code]
<1>1. procs' = [procs EXCEPT ![p] = s]
    BY DEF GotoRecording, Locals
<1>2. IsLocal(s)
    <2> DEFINE t == [procs[p] EXCEPT !.pc = pc]
    <2>1. IsLocal(t)
        BY DEF Locals, IsLocal
    <2>2. s = [t EXCEPT !.code = code]
        OBVIOUS
    <2> HIDE DEF t, s
    <2> QED
        BY <2>1, <2>2 DEF IsLocal
<1> HIDE DEF s
<1>3. Moves(p, s)
    BY <1>1, OneMoves
<1>4. Locals'
    BY <1>2, <1>3 DEF Locals, Moves
<1> QED
    BY <1>3, <1>4 DEF s

\* So do the actions that set other fields.
LEMMA PresentsMoves ==
    ASSUME Locals, NEW p \in Processes, NEW g, NEW pc, NEW state,
           Presents(p, g, pc, state)
    PROVE  /\ Locals'
           /\ \E s : /\ Moves(p, s) /\ IsLocal(s)
                     /\ s.pc = pc /\ s.grant = {g} /\ s.state = state
                     /\ s.revision = Read(g).revision /\ s.now = clock
                     /\ s.reservation = procs[p].reservation
                     /\ s.bytes = procs[p].bytes
                     /\ s.code = procs[p].code
                     /\ s.refused = procs[p].refused
<1> DEFINE revision == Read(g).revision
           s1 == [procs[p] EXCEPT !.pc = pc]
           s2 == [s1 EXCEPT !.grant = {g}]
           s3 == [s2 EXCEPT !.state = state]
           s4 == [s3 EXCEPT !.revision = revision]
           s == [s4 EXCEPT !.now = clock]
<1>1. procs' = [procs EXCEPT ![p] = s]
    BY DEF Presents
<1> HIDE DEF revision
<1> DEFINE Rest(t, u) == /\ t.reservation = u.reservation
                         /\ t.bytes = u.bytes
                         /\ t.code = u.code
                         /\ t.refused = u.refused
<1>2. IsLocal(s1) /\ s1.pc = pc /\ Rest(s1, procs[p])
    BY DEF Locals, IsLocal
<1> HIDE DEF s1
<1>3. IsLocal(s2) /\ s2.pc = pc /\ s2.grant = {g} /\ Rest(s2, s1)
    BY <1>2 DEF IsLocal
<1> HIDE DEF s2
<1>4. IsLocal(s3) /\ s3.pc = pc /\ s3.grant = {g} /\ s3.state = state
      /\ Rest(s3, s2)
    BY <1>3 DEF IsLocal
<1> HIDE DEF s3
<1>5. IsLocal(s4) /\ s4.pc = pc /\ s4.grant = {g} /\ s4.state = state
      /\ s4.revision = revision /\ Rest(s4, s3)
    BY <1>4 DEF IsLocal
<1> HIDE DEF s4
<1>6. IsLocal(s) /\ s.pc = pc /\ s.grant = {g} /\ s.state = state
      /\ s.revision = revision /\ s.now = clock /\ Rest(s, s4)
    BY <1>5 DEF IsLocal
<1> HIDE DEF s
<1>7. Moves(p, s)
    BY <1>1, OneMoves
<1>8. Locals'
    BY <1>6, <1>7 DEF Locals, Moves
<1> QED
    BY <1>2, <1>3, <1>4, <1>5, <1>6, <1>7, <1>8 DEF revision

\* Process p has the reservation r, and calls.
ReservesAs(p, r) ==
    \E s : /\ Moves(p, s) /\ IsLocal(s)
           /\ s.pc = "call" /\ s.reservation = {r}
           /\ s.grant = procs[p].grant /\ s.state = procs[p].state
           /\ s.revision = procs[p].revision
           /\ s.now = procs[p].now /\ s.bytes = procs[p].bytes
           /\ s.code = procs[p].code
           /\ s.refused = procs[p].refused

LEMMA ReserveMoves ==
    ASSUME Locals, NEW p \in Processes, NEW r,
           procs' = [procs EXCEPT ![p].pc = "call", ![p].reservation = {r}]
    PROVE  Locals' /\ ReservesAs(p, r)
<1> DEFINE s == [procs[p] EXCEPT !.pc = "call", !.reservation = {r}]
<1>1. procs' = [procs EXCEPT ![p] = s]
    BY DEF Locals
<1>2. IsLocal(s) /\ s.pc = "call" /\ s.reservation = {r}
      /\ s.grant = procs[p].grant /\ s.state = procs[p].state
      /\ s.revision = procs[p].revision
      /\ s.now = procs[p].now /\ s.bytes = procs[p].bytes
      /\ s.code = procs[p].code /\ s.refused = procs[p].refused
    <2> DEFINE t == [procs[p] EXCEPT !.pc = "call"]
    <2>1. IsLocal(t) /\ t.pc = "call" /\ t.grant = procs[p].grant
          /\ t.state = procs[p].state /\ t.revision = procs[p].revision
          /\ t.now = procs[p].now /\ t.bytes = procs[p].bytes
          /\ t.code = procs[p].code /\ t.refused = procs[p].refused
        BY DEF Locals, IsLocal
    <2>2. s = [t EXCEPT !.reservation = {r}]
        OBVIOUS
    <2> HIDE DEF t, s
    <2> QED
        BY <2>1, <2>2 DEF IsLocal
<1> HIDE DEF s
<1>3. Moves(p, s)
    BY <1>1, OneMoves
<1>4. Locals'
    BY <1>2, <1>3 DEF Locals, Moves
<1> QED
    BY <1>2, <1>3, <1>4 DEF ReservesAs

Answers(p, bytes) ==
    procs' = [procs EXCEPT ![p].pc = "commit", ![p].bytes = bytes,
                           ![p].now = clock]

Answered(p, s, bytes) ==
    /\ Moves(p, s) /\ IsLocal(s)
    /\ s.pc = "commit" /\ s.bytes = bytes /\ s.now = clock
    /\ s.grant = procs[p].grant /\ s.state = procs[p].state
    /\ s.revision = procs[p].revision
    /\ s.reservation = procs[p].reservation
    /\ s.code = procs[p].code
    /\ s.refused = procs[p].refused

LEMMA AnswerMoves ==
    ASSUME Locals, NEW p \in Processes, NEW bytes, Answers(p, bytes)
    PROVE  Locals' /\ \E s : Answered(p, s, bytes)
<1> DEFINE s == [procs[p] EXCEPT !.pc = "commit", !.bytes = bytes,
                                 !.now = clock]
<1>1. procs' = [procs EXCEPT ![p] = s]
    BY DEF Locals, Answers
<1>2. IsLocal(s) /\ s.pc = "commit" /\ s.bytes = bytes /\ s.now = clock
      /\ s.grant = procs[p].grant /\ s.state = procs[p].state
      /\ s.revision = procs[p].revision
      /\ s.reservation = procs[p].reservation
      /\ s.code = procs[p].code /\ s.refused = procs[p].refused
    <2> DEFINE t == [procs[p] EXCEPT !.pc = "commit"]
               u == [t EXCEPT !.bytes = bytes]
    <2>1. IsLocal(t) /\ t.pc = "commit" /\ t.grant = procs[p].grant
          /\ t.state = procs[p].state /\ t.revision = procs[p].revision
          /\ t.reservation = procs[p].reservation
          /\ t.code = procs[p].code /\ t.refused = procs[p].refused
        BY DEF Locals, IsLocal
    <2>2. s = [u EXCEPT !.now = clock]
        OBVIOUS
    <2> HIDE DEF t, s
    <2>3. IsLocal(u) /\ u.pc = t.pc /\ u.bytes = bytes /\ u.grant = t.grant
          /\ u.state = t.state /\ u.revision = t.revision
          /\ u.reservation = t.reservation
          /\ u.code = t.code /\ u.refused = t.refused
        BY <2>1 DEF IsLocal
    <2> HIDE DEF u
    <2> QED
        BY <2>1, <2>2, <2>3 DEF IsLocal
<1> HIDE DEF s
<1>3. Moves(p, s)
    BY <1>1, OneMoves
<1>4. Locals'
    BY <1>2, <1>3 DEF Locals, Moves
<1> QED
    BY <1>2, <1>3, <1>4 DEF Answered

LEMMA ThrewMoves ==
    ASSUME Locals, NEW p \in Processes, NEW refused, AuditThrew(p, refused)
    PROVE  /\ Locals'
           /\ \E s :
                /\ Moves(p, s) /\ IsLocal(s)
                /\ \/ s.pc = "audit" /\ s.code = {"PROVIDER_FAILED"}
                   \/ s.pc = "done" /\ s.code = {}
                /\ s.grant = procs[p].grant /\ s.state = procs[p].state
                /\ s.revision = procs[p].revision
                /\ s.now = procs[p].now
                /\ s.reservation = procs[p].reservation
                /\ s.bytes = procs[p].bytes
                /\ s.refused = refused
<1> DEFINE again == procs[p].code = {"TOOL_CALLED"}
           pc == IF again THEN "audit" ELSE "done"
           code == IF again THEN {"PROVIDER_FAILED"} ELSE {}
           t == [procs[p] EXCEPT !.pc = pc]
           u == [t EXCEPT !.code = code]
           s == [u EXCEPT !.refused = refused]
<1>1. procs' = [procs EXCEPT ![p] = s]
    BY DEF AuditThrew
<1>2. \/ pc = "audit" /\ code = {"PROVIDER_FAILED"}
      \/ pc = "done" /\ code = {}
    OBVIOUS
<1> HIDE DEF pc, code
<1>3. IsLocal(t) /\ t.pc = pc /\ t.grant = procs[p].grant
      /\ t.state = procs[p].state /\ t.revision = procs[p].revision
      /\ t.now = procs[p].now /\ t.reservation = procs[p].reservation
      /\ t.bytes = procs[p].bytes
    BY DEF Locals, IsLocal
<1> HIDE DEF t
<1>4. IsLocal(u) /\ u.pc = t.pc /\ u.code = code /\ u.grant = t.grant
      /\ u.state = t.state /\ u.revision = t.revision
      /\ u.now = t.now /\ u.reservation = t.reservation
      /\ u.bytes = t.bytes
    BY <1>3 DEF IsLocal
<1> HIDE DEF u
<1>5. IsLocal(s) /\ s.pc = u.pc /\ s.code = u.code /\ s.grant = u.grant
      /\ s.state = u.state /\ s.revision = u.revision
      /\ s.now = u.now /\ s.reservation = u.reservation
      /\ s.bytes = u.bytes /\ s.refused = refused
    BY <1>4 DEF IsLocal
<1> HIDE DEF s
<1>6. Moves(p, s)
    BY <1>1, OneMoves
<1>7. Locals'
    BY <1>5, <1>6 DEF Locals, Moves
<1> QED
    BY <1>2, <1>3, <1>4, <1>5, <1>6, <1>7

-----------------------------------------------------------------------------
(***************************************************************************)
(* The audit as a log.  What makes it one: the chain is whole, the process *)
(* that holds the write lock is the one between its read and its insert,   *)
(* and what it read is still the last event.                               *)
(***************************************************************************)

\* What a process is about to append, if anything.
CodesRight(s) ==
    /\ s.code = {} \/ \E code \in AuditCodes : s.code = {code}
    /\ s.pc \in {"audit", "auditing"} => s.code # {}

LockHeld ==
    \A p \in Processes : procs[p].pc = "auditing" <=> writer = p

ReadIsLast ==
    \A p \in Processes : procs[p].pc = "auditing" => prior[p] = Last

LogInv ==
    /\ Locals
    /\ \A p \in Processes : CodesRight(procs[p])
    /\ prior = [p \in Processes |-> prior[p]]
    /\ LockHeld
    /\ ReadIsLast
    /\ Chain

\* A step that leaves the audit alone, outside the transaction of an append.
LEMMA QuietMove ==
    ASSUME LogInv, NEW p \in Processes, NEW s, Locals', Moves(p, s),
           procs[p].pc # "auditing", s.pc # "auditing", CodesRight(s),
           UNCHANGED auditVars
    PROVE  LogInv'
<1>1. Chain'
    BY DEF LogInv, Chain, auditVars, Verifies, EventAt, Digest
<1>2. LockHeld' /\ ReadIsLast'
    BY DEF LogInv, LockHeld, ReadIsLast, Last, auditVars, Moves
<1>3. \A q \in Processes : CodesRight(procs'[q])
    BY DEF LogInv, Moves
<1>4. \A q \in Processes : CodesRight(procs[q])'
    BY <1>3 DEF CodesRight
<1> QED
    BY <1>1, <1>2, <1>4 DEF LogInv, auditVars

LEMMA QuietGoto ==
    ASSUME LogInv, NEW p \in Processes, NEW pc, Goto(p, pc),
           procs[p].pc # "auditing", pc # "auditing",
           pc = "audit" => procs[p].code # {},
           UNCHANGED auditVars
    PROVE  LogInv'
<1> DEFINE s == [procs[p] EXCEPT !.pc = pc]
<1>1. Locals' /\ Moves(p, s)
    BY GotoMoves DEF LogInv
<1>2. s.pc = pc /\ s.code = procs[p].code
    BY DEF LogInv, Locals, IsLocal
<1>3. CodesRight(procs[p])
    BY DEF LogInv
<1> HIDE DEF s
<1>4. CodesRight(s)
    BY <1>2, <1>3 DEF CodesRight
<1> QED
    BY <1>1, <1>2, <1>4, QuietMove

LEMMA QuietRecording ==
    ASSUME LogInv, NEW p \in Processes, NEW pc, NEW code,
           GotoRecording(p, pc, code),
           procs[p].pc # "auditing", pc # "auditing",
           code = {} \/ \E c \in AuditCodes : code = {c},
           pc = "audit" => code # {},
           UNCHANGED auditVars
    PROVE  LogInv'
<1> DEFINE s == [procs[p] EXCEPT !.pc = pc, !.code = code]
<1>1. Locals' /\ Moves(p, s)
    BY RecordingMoves DEF LogInv
<1>2. s.pc = pc /\ s.code = code
    BY DEF LogInv, Locals, IsLocal
<1> HIDE DEF s
<1>3. CodesRight(s)
    BY <1>2 DEF CodesRight
<1> QED
    BY <1>1, <1>2, <1>3, QuietMove

LEMMA QuietPresents ==
    ASSUME LogInv, NEW p \in Processes, NEW g, NEW pc, NEW state,
           Presents(p, g, pc, state),
           procs[p].pc # "auditing", pc \notin {"audit", "auditing"},
           UNCHANGED auditVars
    PROVE  LogInv'
<1>1. Locals
    BY DEF LogInv
<1>2. PICK s : /\ Locals' /\ Moves(p, s)
               /\ s.pc = pc /\ s.code = procs[p].code
    BY <1>1, PresentsMoves
<1>3. CodesRight(s)
    BY <1>2 DEF LogInv, CodesRight
<1> QED
    BY <1>2, <1>3, QuietMove

\* The read of an append's transaction.
LEMMA LogAuditBegins ==
    ASSUME LogInv, NEW p \in Processes, AuditBegins(p)
    PROVE  LogInv'
<1> DEFINE s == [procs[p] EXCEPT !.pc = "auditing"]
<1>1. /\ procs[p].pc = "audit" /\ Goto(p, "auditing")
      /\ writer = Nobody /\ writer' = p
      /\ prior' = [prior EXCEPT ![p] = Last] /\ events' = events
    BY DEF AuditBegins, BeginImmediate
<1>2. Locals' /\ Moves(p, s)
    BY <1>1, GotoMoves DEF LogInv
<1>3. s.pc = "auditing" /\ s.code = procs[p].code
    BY DEF LogInv, Locals, IsLocal
<1> HIDE DEF s
<1>4. Chain' /\ Last' = Last
    BY <1>1 DEF LogInv, Chain, Verifies, EventAt, Digest, Last
<1>5. \A q \in Processes : procs[q].pc # "auditing"
    BY <1>1, SqliteAuditAssumption DEF LogInv, LockHeld
<1>6. LockHeld'
    BY <1>1, <1>2, <1>3, <1>5 DEF LockHeld, Moves
<1>7. /\ prior' = [q \in Processes |-> prior'[q]]
      /\ prior'[p] = Last
    BY <1>1 DEF LogInv
<1>8. ReadIsLast'
    BY <1>2, <1>4, <1>5, <1>7 DEF ReadIsLast, Moves
<1>9. \A q \in Processes : CodesRight(procs'[q])
    BY <1>1, <1>2, <1>3 DEF LogInv, Moves, CodesRight
<1>10. \A q \in Processes : CodesRight(procs[q])'
    BY <1>9 DEF CodesRight
<1> QED
    BY <1>2, <1>4, <1>6, <1>7, <1>8, <1>10 DEF LogInv

\* The end of a transaction, with its event in the chain or without, or with
\* the process dead: it held the lock, or had none, and does not any more.
LEMMA LogEnds ==
    ASSUME LogInv, NEW p \in Processes, NEW s, Locals', Moves(p, s),
           s.pc # "auditing", CodesRight(s), EndTransaction(p),
           \/ events' = events
           \/ procs[p].pc = "auditing" /\ Chain'
    PROVE  LogInv'
<1>1. Chain'
    BY DEF LogInv, Chain, Verifies, EventAt, Digest
<1>2. writer' = (IF writer = p THEN Nobody ELSE writer)
    BY DEF EndTransaction, Unlocked
<1>3. /\ prior' = [q \in Processes |-> prior'[q]]
      /\ \A q \in Processes \ {p} : prior'[q] = prior[q]
    BY DEF LogInv, EndTransaction
<1>4. LockHeld'
    BY <1>2, SqliteAuditAssumption DEF LogInv, LockHeld, Moves
<1>5. ReadIsLast'
    <2>1. CASE events' = events
        BY <1>3, <2>1 DEF LogInv, ReadIsLast, Last, Moves
    <2>2. CASE procs[p].pc = "auditing"
        <3>1. \A q \in Processes \ {p} : procs'[q].pc # "auditing"
            BY <2>2 DEF LogInv, LockHeld, Moves
        <3> QED
            BY <3>1 DEF ReadIsLast, Moves
    <2> QED
        BY <2>1, <2>2
<1>6. \A q \in Processes : CodesRight(procs'[q])
    BY DEF LogInv, Moves
<1>7. \A q \in Processes : CodesRight(procs[q])'
    BY <1>6 DEF CodesRight
<1> QED
    BY <1>1, <1>3, <1>4, <1>5, <1>7 DEF LogInv

\* The insert, or the conflict it runs into.
LEMMA LogAuditEnds ==
    ASSUME LogInv, NEW p \in Processes, AuditEnds(p)
    PROVE  LogInv' /\ (Log!Next \/ UNCHANGED ReadAll)
<1>1. procs[p].pc = "auditing" /\ EndTransaction(p) /\ Locals
    BY DEF AuditEnds, LogInv
<1>2. CASE Insert(p, CodeOf(p)) /\ Goto(p, "done")
    <2> DEFINE s == [procs[p] EXCEPT !.pc = "done"]
    <2>1. PICK code \in AuditCodes : procs[p].code = {code}
        BY <1>1 DEF LogInv, CodesRight
    <2>2. CodeOf(p) = code
        BY <2>1 DEF CodeOf
    <2>3. prior[p] = Last
        BY <1>1 DEF LogInv, ReadIsLast
    <2>4. events' = events \cup {Event(code, Last)}
        BY <1>2, <2>2, <2>3 DEF Insert
    <2>5. Chain' /\ ReadAll' = Append(ReadAll, code)
        BY <2>4, ChainGrows DEF LogInv
    <2>6. Locals' /\ Moves(p, s)
        BY <1>1, <1>2, GotoMoves
    <2>7. s.pc = "done" /\ s.code = procs[p].code
        BY <1>1 DEF Locals, IsLocal
    <2> HIDE DEF s
    <2>8. CodesRight(s)
        BY <2>1, <2>7 DEF CodesRight
    <2>9. LogInv'
        BY <1>1, <2>5, <2>6, <2>7, <2>8, LogEnds
    <2> QED
        BY <2>1, <2>5, <2>9 DEF Log!Next, Log!AppendEvent
<1>3. CASE AuditThrew(p, FALSE) /\ UNCHANGED events
    <2>1. PICK s : /\ Locals' /\ Moves(p, s)
                   /\ \/ s.pc = "audit" /\ s.code = {"PROVIDER_FAILED"}
                      \/ s.pc = "done" /\ s.code = {}
        BY <1>1, <1>3, ThrewMoves, Zenon
    <2>2. CodesRight(s) /\ s.pc # "auditing"
        BY <2>1, GatewayProcessesAssumption DEF CodesRight
    <2>3. LogInv'
        BY <1>1, <1>3, <2>1, <2>2, LogEnds
    <2> QED
        BY <1>3, <2>3 DEF ReadAll, Verifies, EventAt, Digest
<1> QED
    BY <1>2, <1>3 DEF AuditEnds

\* No process appends but with the lock, so no step breaks the chain, and
\* each adds one code to what a reader gets, or none.
LEMMA LogStep ==
    ASSUME LogInv, [Next]_vars
    PROVE  LogInv' /\ (Log!Next \/ UNCHANGED ReadAll)
<1> DEFINE Kept == LogInv' /\ (Log!Next \/ UNCHANGED ReadAll)
<1> SUFFICES Kept
    OBVIOUS
<1>1. ASSUME UNCHANGED auditVars
      PROVE  UNCHANGED ReadAll
    BY <1>1 DEF ReadAll, Verifies, EventAt, Digest, auditVars
<1>2. ASSUME UNCHANGED <<auditVars, procs>>
      PROVE  Kept
    <2>1. UNCHANGED auditVars
        BY <1>2
    <2>2. LogInv'
        BY <1>2 DEF LogInv, Locals, IsLocal, CodesRight, LockHeld,
                    ReadIsLast, Last, Chain, Verifies, EventAt, Digest,
                    auditVars
    <2> QED
        BY <1>1, <2>1, <2>2
<1>3. CASE UNCHANGED vars
    BY <1>2, <1>3 DEF vars
<1>4. ASSUME NEW g \in GrantIds, NEW q \in Requests, IssueGrant(g, q)
      PROVE  Kept
    BY <1>2, <1>4 DEF IssueGrant
<1>5. CASE TimePasses
    BY <1>2, <1>5 DEF TimePasses
<1>6. ASSUME NEW p \in Processes, NEW g \in GrantIds,
             \/ BeginCall(p, g)
             \/ DenyCall(p, g)
             \/ \E state \in {"revoked", "consumed", "expired"} :
                   BeginTransition(p, g, state)
      PROVE  Kept
    <2>1. procs[p].pc = "idle" /\ UNCHANGED auditVars
        BY <1>6 DEF BeginCall, DenyCall, BeginTransition
    <2>2. CASE DenyCall(p, g)
        BY <1>1, <2>1, <2>2, QuietRecording, GatewayProcessesAssumption
           DEF DenyCall
    <2>3. CASE BeginCall(p, g)
        BY <1>1, <2>1, <2>3, QuietPresents DEF BeginCall
    <2>4. ASSUME NEW state, BeginTransition(p, g, state)
          PROVE  Kept
        BY <1>1, <2>1, <2>4, QuietPresents DEF BeginTransition
    <2> QED
        BY <1>6, <2>2, <2>3, <2>4
<1>7. ASSUME NEW p \in Processes, NEW id \in ReservationIds, Reserve(p, id)
      PROVE  Kept
    <2> DEFINE r == Reservation(GrantOf(p), id)
    <2>1. /\ procs' = [procs EXCEPT ![p].pc = "call",
                                    ![p].reservation = {r}]
          /\ procs[p].pc = "reserve" /\ UNCHANGED auditVars
        BY <1>7 DEF Reserve
    <2> HIDE DEF r
    <2>2. PICK s : /\ Locals' /\ Moves(p, s)
                   /\ s.pc = "call" /\ s.code = procs[p].code
        <3>1. Locals' /\ ReservesAs(p, r)
            BY <2>1, ReserveMoves DEF LogInv
        <3> QED
            BY <3>1 DEF ReservesAs
    <2>3. CodesRight(s)
        BY <2>2 DEF LogInv, CodesRight
    <2> QED
        BY <1>1, <2>1, <2>2, <2>3, QuietMove
<1>8. ASSUME NEW p \in Processes, NEW bytes, ProviderAnswers(p, bytes)
      PROVE  Kept
    <2>1. procs[p].pc = "call" /\ UNCHANGED auditVars
        BY <1>8 DEF ProviderAnswers
    <2>2. CASE GotoRecording(p, "release", {"AUTHORIZATION_CHANGED"})
        BY <1>1, <2>1, <2>2, QuietRecording, GatewayProcessesAssumption
    <2>3. CASE Answers(p, bytes)
        <3>1. PICK s : /\ Locals' /\ Moves(p, s)
                       /\ s.pc = "commit" /\ s.code = procs[p].code
            BY <2>3, AnswerMoves DEF LogInv, Answered
        <3>2. CodesRight(s)
            BY <3>1 DEF LogInv, CodesRight
        <3> QED
            BY <1>1, <2>1, <3>1, <3>2, QuietMove
    <2> QED
        BY <1>8, <2>2, <2>3 DEF ProviderAnswers, Answers
<1>9. ASSUME NEW p \in Processes,
             \/ ReserveRefused(p) \/ ProviderFails(p) \/ Commit(p)
             \/ CommitRefused(p) \/ Release(p) \/ Transit(p)
      PROVE  Kept
    <2>1. /\ procs[p].pc \in {"reserve", "call", "commit", "release",
                              "transition"}
          /\ UNCHANGED auditVars
        BY <1>9 DEF ReserveRefused, ProviderFails, Commit, CommitRefused,
                    Release, Transit
    <2>2. \/ Goto(p, "done")
          \/ Goto(p, "audit") /\ procs[p].code # {}
          \/ GotoRecording(p, "release", {"PROVIDER_FAILED"})
          \/ GotoRecording(p, "audit", {"TOOL_CALLED"})
          \/ GotoRecording(p, "release", {})
        BY <1>9 DEF ReserveRefused, ProviderFails, Commit, CommitRefused,
                    Release, Transit
    <2>3. ASSUME \/ Goto(p, "done")
                 \/ Goto(p, "audit") /\ procs[p].code # {}
          PROVE  Kept
        BY <1>1, <2>1, <2>3, QuietGoto
    <2>4. ASSUME \/ GotoRecording(p, "release", {"PROVIDER_FAILED"})
                 \/ GotoRecording(p, "audit", {"TOOL_CALLED"})
                 \/ GotoRecording(p, "release", {})
          PROVE  Kept
        BY <1>1, <2>1, <2>4, QuietRecording, GatewayProcessesAssumption
    <2> HIDE DEF Kept
    <2> QED
        BY <2>2, <2>3, <2>4
<1>10. ASSUME NEW p \in Processes, AuditBegins(p)
       PROVE  Kept
    <2>1. UNCHANGED ReadAll
        BY <1>10 DEF AuditBegins, BeginImmediate, ReadAll, Verifies,
                     EventAt, Digest
    <2> QED
        BY <1>10, <2>1, LogAuditBegins
<1>11. ASSUME NEW p \in Processes, AuditEnds(p)
       PROVE  Kept
    BY <1>11, LogAuditEnds
<1>12. ASSUME NEW p \in Processes, Busy(p)
       PROVE  Kept
    <2>1. UNCHANGED auditVars
        BY <1>12 DEF Busy
    <2>2. CASE /\ procs[p].pc \in {"reserve", "transition"}
               /\ Goto(p, "done")
        BY <1>1, <2>1, <2>2, QuietGoto
    <2>3. CASE /\ procs[p].pc = "commit"
               /\ GotoRecording(p, "release", {"PROVIDER_FAILED"})
        BY <1>1, <2>1, <2>3, QuietRecording, GatewayProcessesAssumption
    <2>4. CASE procs[p].pc = "release" /\ Goto(p, "stranded")
        BY <1>1, <2>1, <2>4, QuietGoto
    <2>5. CASE procs[p].pc = "audit" /\ AuditThrew(p, TRUE)
        <3>1. PICK s : /\ Locals' /\ Moves(p, s)
                       /\ \/ s.pc = "audit" /\ s.code = {"PROVIDER_FAILED"}
                          \/ s.pc = "done" /\ s.code = {}
            BY <2>5, ThrewMoves, Zenon DEF LogInv
        <3>2. CodesRight(s) /\ s.pc # "auditing"
            BY <3>1, GatewayProcessesAssumption DEF CodesRight
        <3> QED
            BY <1>1, <2>1, <2>5, <3>1, <3>2, QuietMove
    <2> QED
        BY <1>12, <2>2, <2>3, <2>4, <2>5 DEF Busy
<1>13. ASSUME NEW p \in Processes, Crash(p)
       PROVE  Kept
    <2> DEFINE s == [procs[p] EXCEPT !.pc = "crashed"]
    <2>1. Goto(p, "crashed") /\ EndTransaction(p) /\ events' = events
        BY <1>13 DEF Crash
    <2>2. Locals' /\ Moves(p, s)
        BY <2>1, GotoMoves DEF LogInv
    <2>3. s.pc = "crashed" /\ s.code = procs[p].code
        BY DEF LogInv, Locals, IsLocal
    <2> HIDE DEF s
    <2>4. CodesRight(s)
        BY <2>3 DEF LogInv, CodesRight
    <2>5. LogInv'
        BY <2>1, <2>2, <2>3, <2>4, LogEnds
    <2> QED
        BY <2>1, <2>5 DEF ReadAll, Verifies, EventAt, Digest
<1> HIDE DEF Kept
<1>14. CASE Next
    BY <1>4, <1>5, <1>6, <1>7, <1>8, <1>9, <1>10, <1>11, <1>12, <1>13,
       <1>14 DEF Next
<1> QED
    BY <1>3, <1>14

LEMMA LogInit ==
    ASSUME Init
    PROVE  LogInv /\ Log!Init
<1>1. Locals /\ \A p \in Processes : procs[p].pc = "idle"
                                     /\ CodesRight(procs[p])
    BY DEF Init, Locals, IsLocal, Idle, CodesRight
<1>2. LockHeld /\ ReadIsLast /\ prior = [p \in Processes |-> prior[p]]
    BY <1>1, SqliteAuditAssumption
       DEF Init, AuditInit, LockHeld, ReadIsLast
<1>3. events = {} /\ Cardinality(events) = 0 /\ IsFiniteSet(events)
    BY FS_EmptySet DEF Init, AuditInit
<1>4. Chain
    BY <1>3 DEF Chain, Verifies
<1>5. ReadAll = <<>>
    BY <1>3, <1>4 DEF ReadAll, Chain
<1> QED
    BY <1>1, <1>2, <1>4, <1>5 DEF LogInv, Log!Init

(***************************************************************************)
(* AuditIsLog, for any number of processes that append at the same time,   *)
(* die in the middle of an append or are refused the lock                  *)
(* (sqlite-audit.ts, append and readAll): who reads the audit at any time  *)
(* gets a chain that verifies, and all that an earlier reader got.         *)
(***************************************************************************)
THEOREM AuditImplementsLog == Spec => AuditIsLog
<1>1. Init => LogInv /\ Log!Init
    BY LogInit
<1>2. LogInv /\ [Next]_vars => LogInv'
    BY LogStep
<1>3. LogInv /\ [Next]_vars => [Log!Next]_ReadAll
    BY LogStep
<1> QED
    BY <1>1, <1>2, <1>3, PTL DEF Spec, AuditIsLog, Log!Spec

-----------------------------------------------------------------------------
(***************************************************************************)
(* What SELECT sum(...) returns.  MapThenSumSet is a recursive function on *)
(* the subsets of the rows, which takes its elements in an arbitrary       *)
(* order; the sum is the number of elements of a pile that holds as many   *)
(* for each row as the row sets bytes aside, in whatever order.            *)
(***************************************************************************)
Bytes(S) == MapThenSumSet(LAMBDA r : r.maxResponseBytes, S)

Pile(S) == UNION {{r} \X (1..r.maxResponseBytes) : r \in S}

\* A row more is its bytes more in the pile.
LEMMA PileAdds ==
    ASSUME NEW S, NEW r, r \notin S, r.maxResponseBytes \in Nat,
           IsFiniteSet(Pile(S))
    PROVE  /\ IsFiniteSet(Pile(S \cup {r}))
           /\ Cardinality(Pile(S \cup {r})) =
                 Cardinality(Pile(S)) + r.maxResponseBytes
<1> DEFINE n == r.maxResponseBytes
           A == Pile(S)
           P == {r} \X (1..n)
<1>1. Pile(S \cup {r}) = A \cup P
    BY DEF Pile
<1>2. A \cap P = {}
    BY DEF Pile
<1>3. IsFiniteSet(1..n) /\ Cardinality(1..n) = n
    <2> HIDE DEF n
    <2>1. n \in Nat
        BY DEF n
    <2>2. /\ IsFiniteSet(1..n)
          /\ Cardinality(1..n) = IF 1 > n THEN 0 ELSE n - 1 + 1
        BY <2>1, FS_Interval, 1 \in Int, n \in Int, Zenon
    <2> QED
        BY <2>1, <2>2
<1>4. IsFiniteSet({r}) /\ Cardinality({r}) = 1
    BY FS_Singleton
<1>5. IsFiniteSet(P) /\ Cardinality(P) = 1 * n
    <2> DEFINE single == {r}
               interval == 1..n
    <2>1. /\ IsFiniteSet(single) /\ Cardinality(single) = 1
          /\ IsFiniteSet(interval) /\ Cardinality(interval) = n
          /\ P = single \X interval
        BY <1>3, <1>4
    <2> HIDE DEF n, P, single, interval
    <2>2. /\ IsFiniteSet(single \X interval)
          /\ Cardinality(single \X interval) = Cardinality(single) * Cardinality(interval)
        BY <2>1, FS_Product
    <2> QED
        BY <2>1, <2>2
<1> HIDE DEF P, A
<1>6. Cardinality(A) \in Nat /\ IsFiniteSet(A)
    BY FS_CardinalityType DEF A
<1>7. Cardinality(A \cap P) = 0
    BY <1>2, FS_EmptySet
<1>8. /\ IsFiniteSet(A \cup P)
      /\ Cardinality(A \cup P) =
            Cardinality(A) + Cardinality(P) - Cardinality(A \cap P)
    BY <1>5, <1>6, FS_Union
<1>9. 1 * n = n /\ n \in Nat
    OBVIOUS
<1> HIDE DEF n
<1>10. Cardinality(A \cup P) = Cardinality(A) + n
    BY <1>5, <1>6, <1>7, <1>8, <1>9
<1> QED
    BY <1>1, <1>8, <1>10 DEF A, n

\* Induction on finite sets, as the choice of a least counterexample.
LEMMA FiniteSubsetsMin ==
    ASSUME NEW S, IsFiniteSet(S), NEW T, T \subseteq SUBSET S, T # {}
    PROVE  \E s \in T : \A t \in T : t \subseteq s => t = s
<1>1. IsWellFoundedOn(StrictSubsetOrdering(S), FiniteSubsetsOf(S))
    BY FS_StrictSubsetOrderingWellFounded
<1>2. T \subseteq FiniteSubsetsOf(S)
    BY FS_FiniteSubsetsOfFinite
<1>3. PICK s \in T : \A t \in T : <<t, s>> \notin StrictSubsetOrdering(S)
    BY <1>1, <1>2, WFMin
<1> QED
    BY <1>3 DEF StrictSubsetOrdering

\* The pile of finitely many rows is finite.
LEMMA PileFinite ==
    ASSUME NEW S, IsFiniteSet(S), \A r \in S : r.maxResponseBytes \in Nat
    PROVE  IsFiniteSet(Pile(S))
<1> DEFINE T == {s \in SUBSET S : ~IsFiniteSet(Pile(s))}
<1> SUFFICES ASSUME T # {}
             PROVE  FALSE
    OBVIOUS
<1>1. PICK s \in T : \A t \in T : t \subseteq s => t = s
    <2>1. T \subseteq SUBSET S
        OBVIOUS
    <2> HIDE DEF T
    <2> QED
        BY <2>1, FiniteSubsetsMin
<1>2. s # {}
    <2>1. Pile({}) = {}
        BY DEF Pile
    <2> QED
        BY <1>1, <2>1, FS_EmptySet
<1>3. PICK r \in s : TRUE
    BY <1>2
<1>4. IsFiniteSet(Pile(s \ {r}))
    BY <1>1, <1>3
<1>5. IsFiniteSet(Pile((s \ {r}) \cup {r}))
    BY <1>1, <1>3, <1>4, PileAdds
<1>6. (s \ {r}) \cup {r} = s
    BY <1>3
<1> QED
    BY <1>1, <1>5, <1>6

\* The recursive function and the size of the pile satisfy the same equation,
\* which has one solution.
LEMMA BytesArePile ==
    ASSUME NEW S, IsFiniteSet(S), \A r \in S : r.maxResponseBytes \in Nat
    PROVE  Bytes(S) = Cardinality(Pile(S))
<1> DEFINE Sums(h) == [s \in SUBSET S |->
                          IF s = {} THEN 0
                          ELSE (CHOOSE x \in s : TRUE).maxResponseBytes
                                  + h[s \ {CHOOSE x \in s : TRUE}]]
           iter == CHOOSE h : h = Sums(h)
           piles == [s \in SUBSET S |-> Cardinality(Pile(s))]
<1>1. Bytes(S) = iter[S]
    BY DEF Bytes, MapThenSumSet, MapThenFoldSet
<1>2. piles = Sums(piles)
    <2> SUFFICES ASSUME NEW s \in SUBSET S
                 PROVE  piles[s] = Sums(piles)[s]
        OBVIOUS
    <2>1. CASE s = {}
        <3>1. Pile(s) = {}
            BY <2>1 DEF Pile
        <3> QED
            BY <2>1, <3>1, FS_EmptySet
    <2>2. CASE s # {}
        <3> DEFINE x == CHOOSE y \in s : TRUE
        <3>1. x \in s
            BY <2>2
        <3> HIDE DEF x
        <3>2. IsFiniteSet(s \ {x})
            BY FS_Subset
        <3>3. IsFiniteSet(Pile(s \ {x}))
            BY <3>2, PileFinite
        <3>4. Cardinality(Pile((s \ {x}) \cup {x})) =
                  Cardinality(Pile(s \ {x})) + x.maxResponseBytes
            BY <3>1, <3>3, PileAdds
        <3>5. (s \ {x}) \cup {x} = s
            BY <3>1
        <3>6. Cardinality(Pile(s \ {x})) \in Nat /\ x.maxResponseBytes \in Nat
            BY <3>1, <3>3, FS_CardinalityType
        <3>7. Cardinality(Pile(s)) =
                  x.maxResponseBytes + Cardinality(Pile(s \ {x}))
            <4>1. Cardinality(Pile(s)) =
                      Cardinality(Pile(s \ {x})) + x.maxResponseBytes
                BY <3>4, <3>5, Zenon
            <4> QED
                BY <3>6, <4>1
        <3>8. piles[s] = x.maxResponseBytes + piles[s \ {x}]
            BY <3>7
        <3> QED
            BY <2>2, <3>8 DEF x
    <2> QED
        BY <2>1, <2>2
<1> HIDE DEF piles
<1>3. iter = Sums(iter)
    BY <1>2
<1> HIDE DEF iter
<1> DEFINE T == {s \in SUBSET S : iter[s] # piles[s]}
<1>4. T = {}
    <2> SUFFICES ASSUME T # {}
                 PROVE  FALSE
        OBVIOUS
    <2>1. PICK s \in T : \A t \in T : t \subseteq s => t = s
        <3>1. T \subseteq SUBSET S
            OBVIOUS
        <3> HIDE DEF T
        <3> QED
            BY <3>1, FiniteSubsetsMin
    <2>2. iter[s] = Sums(iter)[s] /\ piles[s] = Sums(piles)[s]
        BY <1>2, <1>3
    <2>3. s # {}
        BY <2>1, <2>2
    <2> DEFINE x == CHOOSE y \in s : TRUE
    <2>4. x \in s
        BY <2>3
    <2>5. iter[s \ {x}] = piles[s \ {x}]
        <3> HIDE DEF x
        <3> QED
            BY <2>1, <2>4
    <2> QED
        BY <2>1, <2>2, <2>3, <2>5
<1> QED
    BY <1>1, <1>4 DEF piles

\* So a row inserted adds its bytes to the sum, and a row deleted takes them
\* away.
LEMMA BytesAdd ==
    ASSUME NEW S, IsFiniteSet(S), \A x \in S : x.maxResponseBytes \in Nat,
           NEW r, r \notin S, r.maxResponseBytes \in Nat
    PROVE  /\ Bytes(S) \in Nat
           /\ Bytes(S \cup {r}) = Bytes(S) + r.maxResponseBytes
<1>1. IsFiniteSet(S \cup {r})
    BY FS_AddElement
<1>2. /\ Bytes(S) = Cardinality(Pile(S))
      /\ Bytes(S \cup {r}) = Cardinality(Pile(S \cup {r}))
    BY <1>1, BytesArePile
<1>3. IsFiniteSet(Pile(S))
    BY PileFinite
<1> QED
    BY <1>2, <1>3, PileAdds, FS_CardinalityType

LEMMA BytesRemove ==
    ASSUME NEW S, IsFiniteSet(S), \A x \in S : x.maxResponseBytes \in Nat,
           NEW r \in S
    PROVE  /\ Bytes(S) \in Nat /\ Bytes(S \ {r}) \in Nat
           /\ Bytes(S) = Bytes(S \ {r}) + r.maxResponseBytes
<1> DEFINE R == S \ {r}
<1>1. R \cup {r} = S /\ r \notin R
    OBVIOUS
<1>2. IsFiniteSet(R) /\ \A x \in R : x.maxResponseBytes \in Nat
    BY FS_Subset
<1> HIDE DEF R
<1>3. /\ Bytes(R) \in Nat
      /\ Bytes(R \cup {r}) = Bytes(R) + r.maxResponseBytes
    BY <1>1, <1>2, BytesAdd
<1>4. Bytes(S) = Bytes(R) + r.maxResponseBytes
    BY <1>1, <1>3, Zenon
<1> QED
    BY <1>3, <1>4 DEF R

LEMMA BytesNone == Bytes({}) = 0
<1>1. Pile({}) = {}
    BY DEF Pile
<1>2. Bytes({}) = Cardinality(Pile({}))
    BY BytesArePile, FS_EmptySet
<1> QED
    BY <1>1, <1>2, FS_EmptySet

-----------------------------------------------------------------------------
(***************************************************************************)
(* A record as it is read, from its row and the rows reserved on it.       *)
(***************************************************************************)
ReadOf(row, R) ==
    [maxCalls |-> row.max_calls,
     maxResponseBytes |-> row.max_response_bytes,
     maxTotalResponseBytes |-> row.max_total_response_bytes,
     expiresAt |-> row.expires_at,
     callsUsed |-> row.calls_used,
     responseBytesUsed |-> row.response_bytes_used,
     reservedCalls |-> Cardinality(R),
     reservedResponseBytes |-> Bytes(R),
     state |-> row.state,
     revision |-> row.revision]

LEMMA ReadIs ==
    ASSUME NEW g
    PROVE  /\ Read(g) = ReadOf(runGrants[g], ReservationsOf(g))
           /\ Read(g)' = ReadOf(runGrants'[g], ReservationsOf(g)')
<1>1. Read(g) = ReadOf(runGrants[g], ReservationsOf(g))
    BY Zenon DEF Read, ReadOf, Bytes
<1>2. Read(g)' = ReadOf(runGrants'[g], ReservationsOf(g)')
    BY Zenon DEF Read, ReadOf, Bytes, ReservationsOf, MapThenSumSet,
                 MapThenFoldSet
<1> QED
    BY <1>1, <1>2

\* A row with the quota of row, and the record of it.
RowOf(row, calls, bytes, state, revision) ==
    [max_calls |-> row.max_calls,
     max_response_bytes |-> row.max_response_bytes,
     max_total_response_bytes |-> row.max_total_response_bytes,
     expires_at |-> row.expires_at,
     calls_used |-> calls, response_bytes_used |-> bytes,
     state |-> state, revision |-> revision]

RecordOf(row, calls, bytes, reserved, aside, state, revision) ==
    [maxCalls |-> row.max_calls,
     maxResponseBytes |-> row.max_response_bytes,
     maxTotalResponseBytes |-> row.max_total_response_bytes,
     expiresAt |-> row.expires_at,
     callsUsed |-> calls,
     responseBytesUsed |-> bytes,
     reservedCalls |-> reserved,
     reservedResponseBytes |-> aside,
     state |-> state,
     revision |-> revision]

\* The fields the operations set, one operator each.
WithCallsUsed(t, v) == [t EXCEPT !.callsUsed = v]
WithBytesUsed(t, v) == [t EXCEPT !.responseBytesUsed = v]
WithReserved(t, v) == [t EXCEPT !.reservedCalls = v]
WithAside(t, v) == [t EXCEPT !.reservedResponseBytes = v]
WithCalls(t, v) == [t EXCEPT !.calls_used = v]
WithBytes(t, v) == [t EXCEPT !.response_bytes_used = v]
WithState(t, v) == [t EXCEPT !.state = v]
WithRevision(t, v) == [t EXCEPT !.revision = v]

\* Setting a field of a row, or of a record, written out.
LEMMA RowSets ==
    ASSUME NEW row, NEW c, NEW b, NEW s, NEW n, NEW v
    PROVE  /\ WithCalls(RowOf(row, c, b, s, n), v) = RowOf(row, v, b, s, n)
           /\ WithBytes(RowOf(row, c, b, s, n), v) = RowOf(row, c, v, s, n)
           /\ WithState(RowOf(row, c, b, s, n), v) = RowOf(row, c, b, v, n)
           /\ WithRevision(RowOf(row, c, b, s, n), v) =
                  RowOf(row, c, b, s, v)
<1>1. WithCalls(RowOf(row, c, b, s, n), v) = RowOf(row, v, b, s, n)
    BY DEF RowOf, WithCalls
<1>2. WithBytes(RowOf(row, c, b, s, n), v) = RowOf(row, c, v, s, n)
    BY DEF RowOf, WithBytes
<1>3. WithState(RowOf(row, c, b, s, n), v) = RowOf(row, c, b, v, n)
    BY DEF RowOf, WithState
<1>4. WithRevision(RowOf(row, c, b, s, n), v) = RowOf(row, c, b, s, v)
    BY DEF RowOf, WithRevision
<1> QED
    BY <1>1, <1>2, <1>3, <1>4

LEMMA RecordSets ==
    ASSUME NEW row, NEW c, NEW b, NEW k, NEW a, NEW s, NEW n, NEW v
    PROVE  LET record == RecordOf(row, c, b, k, a, s, n) IN
           /\ WithCallsUsed(record, v) = RecordOf(row, v, b, k, a, s, n)
           /\ WithBytesUsed(record, v) = RecordOf(row, c, v, k, a, s, n)
           /\ WithReserved(record, v) = RecordOf(row, c, b, v, a, s, n)
           /\ WithAside(record, v) = RecordOf(row, c, b, k, v, s, n)
           /\ WithState(record, v) = RecordOf(row, c, b, k, a, v, n)
           /\ WithRevision(record, v) = RecordOf(row, c, b, k, a, s, v)
<1> DEFINE record == RecordOf(row, c, b, k, a, s, n)
<1>1. WithCallsUsed(record, v) = RecordOf(row, v, b, k, a, s, n)
    BY DEF RecordOf, WithCallsUsed
<1>2. WithBytesUsed(record, v) = RecordOf(row, c, v, k, a, s, n)
    BY DEF RecordOf, WithBytesUsed
<1>3. WithReserved(record, v) = RecordOf(row, c, b, v, a, s, n)
    BY DEF RecordOf, WithReserved
<1>4. WithAside(record, v) = RecordOf(row, c, b, k, v, s, n)
    BY DEF RecordOf, WithAside
<1>5. WithState(record, v) = RecordOf(row, c, b, k, a, v, n)
    BY DEF RecordOf, WithState
<1>6. WithRevision(record, v) = RecordOf(row, c, b, k, a, s, v)
    BY DEF RecordOf, WithRevision
<1> QED
    BY <1>1, <1>2, <1>3, <1>4, <1>5, <1>6

LEMMA RowIs ==
    ASSUME NEW row \in RunGrantRow
    PROVE  row = RowOf(row, row.calls_used, row.response_bytes_used,
                       row.state, row.revision)
    BY DEF RowOf, RunGrantRow

LEMMA ReadOfRow ==
    ASSUME NEW row, NEW c, NEW b, NEW s, NEW n, NEW R
    PROVE  ReadOf(RowOf(row, c, b, s, n), R) =
               RecordOf(row, c, b, Cardinality(R), Bytes(R), s, n)
    BY DEF RowOf, ReadOf, RecordOf


(***************************************************************************)
(* What a write to the row, with a row of call_reservations inserted or    *)
(* deleted, does to the record: the changes the ledger in memory makes.    *)
(***************************************************************************)
ASideOK(R) == IsFiniteSet(R) /\ \A x \in R : x.maxResponseBytes \in Nat

LEMMA ReadReserved ==
    ASSUME NEW row \in RunGrantRow, NEW R, ASideOK(R),
           NEW r, r \notin R, r.maxResponseBytes \in Nat
    PROVE  LET record == ReadOf(row, R) IN
           ReadOf([row EXCEPT !.revision = row.revision + 1], R \cup {r}) =
               [[record EXCEPT
                    !.reservedCalls = @ + 1,
                    !.reservedResponseBytes = @ + r.maxResponseBytes]
                   EXCEPT !.revision = record.revision + 1]
<1> DEFINE c == row.calls_used
           b == row.response_bytes_used
           s == row.state
           n == row.revision
           k == Cardinality(R)
           a == Bytes(R)
           record == ReadOf(row, R)
           held == WithAside(WithReserved(record, record.reservedCalls + 1),
                             record.reservedResponseBytes
                                + r.maxResponseBytes)
<1>1. [row EXCEPT !.revision = n + 1] = RowOf(row, c, b, s, n + 1)
    <2>1. WithRevision(row, n + 1) = RowOf(row, c, b, s, n + 1)
        BY RowIs, RowSets
    <2> QED
        BY <2>1 DEF WithRevision
<1>2. Cardinality(R \cup {r}) = k + 1
    BY FS_AddElement DEF ASideOK
<1>3. Bytes(R \cup {r}) = a + r.maxResponseBytes
    BY BytesAdd DEF ASideOK
<1>4. record = RecordOf(row, c, b, k, a, s, n)
    BY DEF ReadOf, RecordOf
<1>5. /\ record.reservedCalls = k /\ record.reservedResponseBytes = a
      /\ record.revision = n
    BY DEF ReadOf
<1> HIDE DEF record
<1>6. held = RecordOf(row, c, b, k + 1, a + r.maxResponseBytes, s, n)
    BY <1>4, <1>5, RecordSets
<1>7. held = [record EXCEPT
                 !.reservedCalls = @ + 1,
                 !.reservedResponseBytes = @ + r.maxResponseBytes]
    BY DEF WithAside, WithReserved
<1> HIDE DEF held
<1>8. WithRevision(held, record.revision + 1) =
          RecordOf(row, c, b, k + 1, a + r.maxResponseBytes, s, n + 1)
    BY <1>5, <1>6, RecordSets
<1>9. ReadOf(RowOf(row, c, b, s, n + 1), R \cup {r}) =
          RecordOf(row, c, b, k + 1, a + r.maxResponseBytes, s, n + 1)
    BY <1>2, <1>3, ReadOfRow
<1> QED
    BY <1>1, <1>7, <1>8, <1>9 DEF record, WithRevision

LEMMA ReadSettled ==
    ASSUME NEW row \in RunGrantRow, NEW R, ASideOK(R), NEW r \in R
    PROVE  LET record == ReadOf(row, R) IN
           /\ record.reservedCalls >= 1
           /\ record.reservedResponseBytes >= r.maxResponseBytes
           /\ Cardinality(R \ {r}) = record.reservedCalls - 1
           /\ Bytes(R \ {r}) =
                  record.reservedResponseBytes - r.maxResponseBytes
           /\ [record EXCEPT
                  !.reservedCalls = @ - 1,
                  !.reservedResponseBytes = @ - r.maxResponseBytes] =
                  RecordOf(row, row.calls_used, row.response_bytes_used,
                           Cardinality(R \ {r}), Bytes(R \ {r}),
                           row.state, row.revision)
<1> DEFINE record == ReadOf(row, R)
           k == Cardinality(R \ {r})
           a == Bytes(R \ {r})
<1>1. /\ k = Cardinality(R) - 1
      /\ Cardinality(R) \in Nat /\ Cardinality(R) >= 1
    BY FS_RemoveElement, FS_CardinalityType, FS_EmptySet DEF ASideOK
<1>2. /\ a = Bytes(R) - r.maxResponseBytes
      /\ Bytes(R) >= r.maxResponseBytes
    <2>1. /\ Bytes(R) \in Nat /\ a \in Nat
          /\ Bytes(R) = a + r.maxResponseBytes
        BY BytesRemove DEF ASideOK
    <2>2. r.maxResponseBytes \in Nat
        BY DEF ASideOK
    <2> HIDE DEF a
    <2> QED
        BY <2>1, <2>2
<1>3. /\ record.reservedCalls = Cardinality(R)
      /\ record.reservedResponseBytes = Bytes(R)
    BY DEF ReadOf
<1>4. record = RecordOf(row, row.calls_used, row.response_bytes_used,
                        Cardinality(R), Bytes(R), row.state, row.revision)
    BY DEF ReadOf, RecordOf
<1> HIDE DEF record, k, a
<1>5. WithAside(WithReserved(record, k), a) =
          RecordOf(row, row.calls_used, row.response_bytes_used, k, a,
                   row.state, row.revision)
    BY <1>4, RecordSets
<1>6. k = record.reservedCalls - 1
      /\ a = record.reservedResponseBytes - r.maxResponseBytes
    BY <1>1, <1>2, <1>3
<1>7. WithAside(WithReserved(record, k), a) =
          [record EXCEPT
              !.reservedCalls = @ - 1,
              !.reservedResponseBytes = @ - r.maxResponseBytes]
    BY <1>6 DEF WithAside, WithReserved
<1>8. record.reservedCalls >= 1
      /\ record.reservedResponseBytes >= r.maxResponseBytes
    BY <1>1, <1>2, <1>3
<1> QED
    BY <1>5, <1>6, <1>7, <1>8 DEF record, k, a

\* The record counts the reservation r of R.
Covers(record, R, r) ==
    /\ record.reservedCalls >= 1
    /\ record.reservedResponseBytes >= r.maxResponseBytes
    /\ Cardinality(R \ {r}) = record.reservedCalls - 1
    /\ Bytes(R \ {r}) = record.reservedResponseBytes - r.maxResponseBytes

LEMMA ReadCovers ==
    ASSUME NEW row \in RunGrantRow, NEW R, ASideOK(R), NEW r \in R
    PROVE  Covers(ReadOf(row, R), R, r)
BY ReadSettled DEF Covers

LEMMA ReadReleased ==
    ASSUME NEW row \in RunGrantRow, NEW R, ASideOK(R), NEW r \in R
    PROVE  LET record == ReadOf(row, R) IN
           ReadOf([row EXCEPT !.revision = row.revision + 1], R \ {r}) =
               [[record EXCEPT
                    !.reservedCalls = @ - 1,
                    !.reservedResponseBytes = @ - r.maxResponseBytes]
                   EXCEPT !.revision = record.revision + 1]
<1> DEFINE record == ReadOf(row, R)
           k == Cardinality(R \ {r})
           a == Bytes(R \ {r})
           settled == [record EXCEPT
                          !.reservedCalls = @ - 1,
                          !.reservedResponseBytes = @ - r.maxResponseBytes]
           new == RowOf(row, row.calls_used, row.response_bytes_used,
                        row.state, row.revision + 1)
<1>1. [row EXCEPT !.revision = row.revision + 1] = new
    <2>1. WithRevision(row, row.revision + 1) = new
        BY RowIs, RowSets
    <2> QED
        BY <2>1 DEF WithRevision
<1>2. settled = RecordOf(row, row.calls_used, row.response_bytes_used, k, a,
                         row.state, row.revision)
    BY ReadSettled
<1>3. record.revision = row.revision
    BY DEF ReadOf
<1> HIDE DEF settled
<1>4. WithRevision(settled, record.revision + 1) =
          RecordOf(row, row.calls_used, row.response_bytes_used, k, a,
                   row.state, row.revision + 1)
    BY <1>2, <1>3, RecordSets
<1>5. ReadOf(new, R \ {r}) =
          RecordOf(row, row.calls_used, row.response_bytes_used, k, a,
                   row.state, row.revision + 1)
    BY ReadOfRow
<1> HIDE DEF new
<1> QED
    BY <1>1, <1>4, <1>5 DEF WithRevision, settled

ChargedRow(row, bytes, state) ==
    [[row EXCEPT !.calls_used = @ + 1,
                 !.response_bytes_used = @ + bytes,
                 !.state = state]
        EXCEPT !.revision = row.revision + 1]

ChargedRecord(record, r, bytes, state) ==
    [[[record EXCEPT
          !.reservedCalls = @ - 1,
          !.reservedResponseBytes = @ - r.maxResponseBytes]
         EXCEPT !.callsUsed = @ + 1,
                !.responseBytesUsed = @ + bytes,
                !.state = state]
        EXCEPT !.revision = record.revision + 1]

LEMMA ReadCharged ==
    ASSUME NEW row \in RunGrantRow, NEW R, ASideOK(R), NEW r \in R,
           NEW bytes, NEW state
    PROVE  ReadOf(ChargedRow(row, bytes, state), R \ {r}) =
               ChargedRecord(ReadOf(row, R), r, bytes, state)
<1> DEFINE record == ReadOf(row, R)
           c == row.calls_used + 1
           b == row.response_bytes_used + bytes
           n == row.revision + 1
           k == Cardinality(R \ {r})
           a == Bytes(R \ {r})
           settled == [record EXCEPT
                          !.reservedCalls = @ - 1,
                          !.reservedResponseBytes = @ - r.maxResponseBytes]
           charged == [settled EXCEPT !.callsUsed = @ + 1,
                                      !.responseBytesUsed = @ + bytes,
                                      !.state = state]
           new == [row EXCEPT !.calls_used = @ + 1,
                              !.response_bytes_used = @ + bytes,
                              !.state = state]
<1>1. [new EXCEPT !.revision = n] = RowOf(row, c, b, state, n)
    <2>1. WithRevision(WithState(WithBytes(WithCalls(row, c), b), state), n)
              = RowOf(row, c, b, state, n)
        BY RowIs, RowSets
    <2> QED
        BY <2>1 DEF WithRevision, WithState, WithBytes, WithCalls
<1>2. settled = RecordOf(row, row.calls_used, row.response_bytes_used, k, a,
                         row.state, row.revision)
    BY ReadSettled
<1>3. record.revision = row.revision
    BY DEF ReadOf
<1> HIDE DEF record, settled
<1>4. /\ settled.callsUsed = row.calls_used
      /\ settled.responseBytesUsed = row.response_bytes_used
    BY <1>2 DEF RecordOf
<1>5. WithRevision(WithState(WithBytesUsed(WithCallsUsed(settled,
                      settled.callsUsed + 1),
                      settled.responseBytesUsed + bytes), state),
                      record.revision + 1) =
          RecordOf(row, c, b, k, a, state, n)
    BY <1>2, <1>3, <1>4, RecordSets
<1>6. [charged EXCEPT !.revision = record.revision + 1] =
          RecordOf(row, c, b, k, a, state, n)
    BY <1>5 DEF WithRevision, WithState, WithBytesUsed, WithCallsUsed
<1>7. ReadOf(RowOf(row, c, b, state, n), R \ {r}) =
          RecordOf(row, c, b, k, a, state, n)
    BY ReadOfRow
<1> QED
    BY <1>1, <1>6, <1>7 DEF settled, record, ChargedRow, ChargedRecord

LEMMA ReadMoved ==
    ASSUME NEW row \in RunGrantRow, NEW R, NEW state
    PROVE  LET record == ReadOf(row, R) IN
           ReadOf([[row EXCEPT !.state = state]
                      EXCEPT !.revision = row.revision + 1], R) =
               [[record EXCEPT !.state = state]
                   EXCEPT !.revision = record.revision + 1]
<1> DEFINE record == ReadOf(row, R)
           c == row.calls_used
           b == row.response_bytes_used
           n == row.revision + 1
           k == Cardinality(R)
           a == Bytes(R)
<1>1. [[row EXCEPT !.state = state] EXCEPT !.revision = n] =
          RowOf(row, c, b, state, n)
    <2>1. WithRevision(WithState(row, state), n) = RowOf(row, c, b, state, n)
        BY RowIs, RowSets
    <2> QED
        BY <2>1 DEF WithRevision, WithState
<1>2. /\ record = RecordOf(row, c, b, k, a, row.state, row.revision)
      /\ record.revision = row.revision
    BY DEF ReadOf, RecordOf
<1> HIDE DEF record
<1>3. WithRevision(WithState(record, state), record.revision + 1) =
          RecordOf(row, c, b, k, a, state, n)
    BY <1>2, RecordSets
<1>4. ReadOf(RowOf(row, c, b, state, n), R) =
          RecordOf(row, c, b, k, a, state, n)
    BY ReadOfRow
<1> QED
    BY <1>1, <1>3, <1>4 DEF WithRevision, WithState, record

-----------------------------------------------------------------------------
(***************************************************************************)
(* The two tables, whoever writes them: the schema's constraints hold,     *)
(* every grant can be decoded, and the rows of call_reservations are       *)
(* finitely many of the reservations ever returned.                        *)
(***************************************************************************)
TablesInv ==
    /\ runGrants = [g \in DOMAIN runGrants |-> runGrants[g]]
    /\ SchemaOK
    /\ IsFiniteSet(callReservations)
    /\ callReservations \subseteq handles
    /\ \A g \in DOMAIN runGrants : Decodes(g)
    /\ clock \in Nat

LEMMA RowsOf ==
    ASSUME TablesInv, NEW g \in DOMAIN runGrants
    PROVE  /\ runGrants[g] \in RunGrantRow
           /\ ASideOK(ReservationsOf(g))
           /\ Records[g] = ReadOf(runGrants[g], ReservationsOf(g))
           /\ Read(g) = ReadOf(runGrants[g], ReservationsOf(g))
           /\ Read(g).reservedCalls \in Nat
           /\ Read(g).reservedResponseBytes \in Nat
<1> DEFINE R == ReservationsOf(g)
<1>1. R \subseteq callReservations
    BY DEF ReservationsOf
<1>2. IsFiniteSet(R)
    BY <1>1, FS_Subset DEF TablesInv
<1>3. \A x \in R : x.maxResponseBytes \in Nat
    BY <1>1 DEF TablesInv, SchemaOK, ReservationRow
<1> HIDE DEF R
<1>4. IsFiniteSet(Pile(R)) /\ Bytes(R) = Cardinality(Pile(R))
    BY <1>2, <1>3, PileFinite, BytesArePile
<1>5. Cardinality(R) \in Nat /\ Bytes(R) \in Nat
    BY <1>2, <1>4, FS_CardinalityType
<1>6. Read(g) = ReadOf(runGrants[g], R)
    BY ReadIs DEF R
<1>7. Read(g).reservedCalls \in Nat /\ Read(g).reservedResponseBytes \in Nat
    BY <1>5, <1>6 DEF ReadOf
<1> QED
    BY <1>2, <1>3, <1>6, <1>7 DEF TablesInv, SchemaOK, ASideOK, Records, R

(***************************************************************************)
(* An operation writes one row of run_grants; what the other grants have   *)
(* reserved is as it was.                                                  *)
(***************************************************************************)
LEMMA RecordsUpdate ==
    ASSUME TablesInv, NEW g \in DOMAIN runGrants, NEW columns,
           Update(g, columns),
           \A x \in DOMAIN runGrants \ {g} :
               ReservationsOf(x)' = ReservationsOf(x)
    PROVE  /\ DOMAIN runGrants' = DOMAIN runGrants
           /\ \A x \in DOMAIN runGrants \ {g} :
                 runGrants'[x] = runGrants[x] /\ Read(x)' = Read(x)
           /\ runGrants'[g] =
                 [columns EXCEPT !.revision = runGrants[g].revision + 1]
           /\ runGrants' = [x \in DOMAIN runGrants |-> runGrants'[x]]
           /\ Read(g)' = ReadOf(runGrants'[g], ReservationsOf(g)')
           /\ Records' = [Records EXCEPT ![g] = Read(g)']
<1> DEFINE row == [columns EXCEPT !.revision = runGrants[g].revision + 1]
<1>1. runGrants' = [runGrants EXCEPT ![g] = row]
    BY DEF Update
<1> HIDE DEF row
<1>2. /\ DOMAIN runGrants' = DOMAIN runGrants
      /\ runGrants' = [x \in DOMAIN runGrants |-> runGrants'[x]]
      /\ runGrants'[g] = row
      /\ \A x \in DOMAIN runGrants \ {g} : runGrants'[x] = runGrants[x]
    BY <1>1 DEF TablesInv
<1>3. \A x \in DOMAIN runGrants \ {g} : Read(x)' = Read(x)
    BY <1>2, ReadIs
<1>4. Read(g)' = ReadOf(runGrants'[g], ReservationsOf(g)')
    BY ReadIs
<1>5. Records' = [Records EXCEPT ![g] = Read(g)']
    BY <1>2, <1>3 DEF Records
<1> QED
    BY <1>2, <1>3, <1>4, <1>5 DEF row

\* The tables after a write to the row of g: what is left to show is about g.
LEMMA TablesKept ==
    ASSUME TablesInv, NEW g \in DOMAIN runGrants, NEW columns,
           Update(g, columns),
           \A x \in DOMAIN runGrants \ {g} :
               ReservationsOf(x)' = ReservationsOf(x),
           runGrants'[g] \in RunGrantRow,
           runGrants'[g].calls_used <= runGrants'[g].max_calls,
           runGrants'[g].response_bytes_used
               <= runGrants'[g].max_total_response_bytes,
           Decodes(g)',
           callReservations' \subseteq ReservationRow,
           \A r \in callReservations' : r.grantId \in DOMAIN runGrants,
           IsFiniteSet(callReservations'),
           callReservations' \subseteq handles',
           clock' = clock
    PROVE  TablesInv'
<1>1. /\ DOMAIN runGrants' = DOMAIN runGrants
      /\ \A x \in DOMAIN runGrants \ {g} :
            runGrants'[x] = runGrants[x] /\ Read(x)' = Read(x)
      /\ runGrants' = [x \in DOMAIN runGrants |-> runGrants'[x]]
    BY RecordsUpdate
<1>2. \A x \in DOMAIN runGrants' : Decodes(x)'
    BY <1>1 DEF TablesInv, Decodes
<1>3. SchemaOK'
    BY <1>1 DEF TablesInv, SchemaOK
<1> QED
    BY <1>1, <1>2, <1>3 DEF TablesInv

LEMMA IssueKeeps ==
    ASSUME TablesInv, NEW g \in GrantIds, NEW q \in Requests, Issue(g, q),
           NEW t, t = clock
    PROVE  TablesInv' /\ Ledger(t)!Issue(g, q)
<1> DEFINE new == NewRow(q)
<1>1. /\ g \notin DOMAIN runGrants
      /\ runGrants' = [x \in DOMAIN runGrants \cup {g} |->
                          IF x = g THEN new ELSE runGrants[x]]
      /\ UNCHANGED <<callReservations, handles, charges, clock>>
    BY DEF Issue
<1>2. /\ q.maxCalls \in Nat \ {0} /\ q.maxResponseBytes \in Nat \ {0}
      /\ q.maxTotalResponseBytes \in Nat \ {0} /\ q.expiresAt \in Nat
      /\ Ledger(t)!ValidRequest(q, t)
    BY SqliteRunGrantsAssumption DEF Issue, ValidRequest,
       Ledger!ValidRequest
<1>3. /\ new \in RunGrantRow
      /\ new.calls_used = 0 /\ new.response_bytes_used = 0
      /\ new.max_calls \in Nat /\ new.max_total_response_bytes \in Nat
    BY <1>2 DEF NewRow, RunGrantRow, States
<1>4. ReservationsOf(g)' = {}
    BY <1>1 DEF TablesInv, SchemaOK, ReservationsOf
<1>5. \A x \in DOMAIN runGrants :
         runGrants'[x] = runGrants[x] /\ Read(x)' = Read(x)
    <2> TAKE x \in DOMAIN runGrants
    <2>1. runGrants'[x] = runGrants[x]
        BY <1>1
    <2>2. ReservationsOf(x)' = ReservationsOf(x)
        BY <1>1 DEF ReservationsOf
    <2> QED
        BY <2>1, <2>2, ReadIs
<1>6. Read(g)' = Ledger(t)!Issued(q)
    <2>1. Read(g)' = ReadOf(new, {})
        BY <1>1, <1>4, ReadIs
    <2>2. Cardinality({}) = 0 /\ Bytes({}) = 0
        BY FS_EmptySet, BytesNone
    <2> QED
        BY <2>1, <2>2 DEF ReadOf, NewRow, Ledger!Issued
<1>7. Decodes(g)'
    BY <1>2, <1>6 DEF Decodes, Ledger!Issued
<1>8. \A x \in DOMAIN runGrants' : Decodes(x)'
    BY <1>1, <1>5, <1>7 DEF TablesInv, Decodes
<1> HIDE DEF new
<1>9. SchemaOK'
    BY <1>1, <1>3, <1>5 DEF TablesInv, SchemaOK
<1>10. TablesInv'
    BY <1>1, <1>8, <1>9 DEF TablesInv
<1>11. Records' = [x \in DOMAIN Records \cup {g} |->
                      IF x = g THEN Ledger(t)!Issued(q) ELSE Records[x]]
    BY <1>1, <1>5, <1>6 DEF Records
<1>12. g \notin DOMAIN Records
    BY <1>1 DEF Records
<1> QED
    BY <1>1, <1>2, <1>10, <1>11, <1>12 DEF Ledger!Issue

\* Min of two, and what is left of the quota.
LEMMA MinOfTwo ==
    ASSUME NEW a \in Int, NEW b \in Int
    PROVE  Min({a, b}) = IF a <= b THEN a ELSE b
<1>1. Min({a, b}) = CHOOSE x \in {a, b} : \A y \in {a, b} : x <= y
    BY DEF Min
<1>2. \A x \in {a, b} : (\A y \in {a, b} : x <= y)
                            => x = IF a <= b THEN a ELSE b
    OBVIOUS
<1>3. \E x \in {a, b} : \A y \in {a, b} : x <= y
    OBVIOUS
<1> QED
    BY <1>1, <1>2, <1>3

LEMMA ReserveKeeps ==
    ASSUME TablesInv, NEW g, NEW id \in ReservationIds, NEW expected,
           NEW now, ReserveCall(g, id, expected, now)
    PROVE  TablesInv' /\ Ledger(now)!ReserveCall(g, id)
<1> DEFINE row == runGrants[g]
           R == ReservationsOf(g)
           r == Reservation(g, id)
           record == Records[g]
<1>1. /\ CanReserve(g, expected, now)
      /\ \A h \in handles : h.id # id
      /\ Update(g, row)
      /\ callReservations' = callReservations \cup {r}
      /\ handles' = handles \cup {r}
      /\ UNCHANGED <<charges, clock>>
    BY DEF ReserveCall
<1>2. g \in DOMAIN runGrants /\ g \in GrantIds
    BY <1>1 DEF CanReserve, Required, TablesInv, SchemaOK
<1>3. /\ row \in RunGrantRow /\ ASideOK(R)
      /\ record = ReadOf(row, R) /\ Read(g) = ReadOf(row, R)
      /\ record.reservedCalls \in Nat /\ record.reservedResponseBytes \in Nat
    BY <1>2, RowsOf
<1>4. /\ record.maxCalls = row.max_calls
      /\ record.maxResponseBytes = row.max_response_bytes
      /\ record.maxTotalResponseBytes = row.max_total_response_bytes
      /\ record.callsUsed = row.calls_used
      /\ record.responseBytesUsed = row.response_bytes_used
      /\ record.revision = row.revision
    BY <1>3 DEF ReadOf
<1>5. /\ row.max_calls \in Nat /\ row.max_response_bytes \in Nat \ {0}
      /\ row.max_total_response_bytes \in Nat
      /\ row.calls_used \in Nat /\ row.response_bytes_used \in Nat
      /\ row.revision \in Nat
    BY <1>3 DEF RunGrantRow
<1>6. /\ record.callsUsed + record.reservedCalls < record.maxCalls
      /\ record.responseBytesUsed + record.reservedResponseBytes
             < record.maxTotalResponseBytes
      /\ Active(record, now)
    BY <1>1, <1>3 DEF CanReserve
<1> DEFINE left == record.maxTotalResponseBytes
                      - record.responseBytesUsed
                      - record.reservedResponseBytes
<1>7. r = [id |-> id, grantId |-> g, revision |-> row.revision + 1,
           maxResponseBytes |-> Min({record.maxResponseBytes, left})]
    BY <1>3 DEF Reservation, RemainingBytes
<1> HIDE DEF record, R, row, r
<1>8. /\ left \in Nat \ {0}
      /\ left = record.maxTotalResponseBytes
                   - (record.responseBytesUsed
                         + record.reservedResponseBytes)
    BY <1>3, <1>4, <1>5, <1>6
<1> HIDE DEF left
<1>9. Min({record.maxResponseBytes, left}) =
          IF record.maxResponseBytes <= left THEN record.maxResponseBytes
          ELSE left
    BY <1>4, <1>5, <1>8, MinOfTwo
<1>10. /\ r.maxResponseBytes \in Nat \ {0}
       /\ r.maxResponseBytes <= left
       /\ r \in ReservationRow
       /\ r.grantId = g /\ r.id = id
    BY <1>2, <1>4, <1>5, <1>7, <1>8, <1>9 DEF ReservationRow
<1>11. r \notin callReservations
    BY <1>1, <1>10 DEF TablesInv
<1>12. r \notin R
    BY <1>11 DEF R, ReservationsOf
<1>13. ReservationsOf(g)' = R \cup {r}
    BY <1>1, <1>10 DEF R, ReservationsOf
<1>14. \A x \in DOMAIN runGrants \ {g} :
          ReservationsOf(x)' = ReservationsOf(x)
    BY <1>1, <1>10 DEF ReservationsOf
<1>15. /\ runGrants'[g] = [row EXCEPT !.revision = row.revision + 1]
       /\ Read(g)' = ReadOf(runGrants'[g], R \cup {r})
       /\ Records' = [Records EXCEPT ![g] = Read(g)']
    BY <1>1, <1>2, <1>13, <1>14, RecordsUpdate DEF row
<1>16. Read(g)' =
           [[record EXCEPT
                !.reservedCalls = @ + 1,
                !.reservedResponseBytes = @ + r.maxResponseBytes]
               EXCEPT !.revision = record.revision + 1]
    <2>1. r.maxResponseBytes \in Nat
        BY <1>10
    <2>2. ReadOf([row EXCEPT !.revision = row.revision + 1], R \cup {r}) =
              [[ReadOf(row, R) EXCEPT
                   !.reservedCalls = @ + 1,
                   !.reservedResponseBytes = @ + r.maxResponseBytes]
                  EXCEPT !.revision = ReadOf(row, R).revision + 1]
        BY <1>3, <1>12, <2>1, ReadReserved, Zenon
    <2> QED
        BY <1>3, <1>15, <2>2, Zenon
<1>17. /\ runGrants'[g] \in RunGrantRow
       /\ runGrants'[g].calls_used = row.calls_used
       /\ runGrants'[g].max_calls = row.max_calls
       /\ runGrants'[g].response_bytes_used = row.response_bytes_used
       /\ runGrants'[g].max_total_response_bytes
              = row.max_total_response_bytes
    BY <1>3, <1>15 DEF RunGrantRow
<1>18. Decodes(g)'
    <2>1. Cardinality(R \cup {r}) = Cardinality(R) + 1
        BY <1>3, <1>12, FS_AddElement DEF ASideOK
    <2>2. Bytes(R \cup {r}) = Bytes(R) + r.maxResponseBytes
        BY <1>3, <1>10, <1>12, BytesAdd DEF ASideOK
    <2>3. /\ Read(g)'.callsUsed = record.callsUsed
          /\ Read(g)'.responseBytesUsed = record.responseBytesUsed
          /\ Read(g)'.maxCalls = record.maxCalls
          /\ Read(g)'.maxTotalResponseBytes = record.maxTotalResponseBytes
          /\ Read(g)'.reservedCalls = record.reservedCalls + 1
          /\ Read(g)'.reservedResponseBytes =
                 record.reservedResponseBytes + r.maxResponseBytes
        BY <1>3, <1>4, <1>15, <1>17, <2>1, <2>2 DEF ReadOf
    <2>4. /\ Read(g)'.callsUsed + Read(g)'.reservedCalls
                 <= Read(g)'.maxCalls
          /\ Read(g)'.responseBytesUsed + Read(g)'.reservedResponseBytes
                 <= Read(g)'.maxTotalResponseBytes
        BY <1>3, <1>4, <1>5, <1>6, <1>8, <1>10, <2>3
    <2> QED
        BY <2>4 DEF Decodes
<1>19. TablesInv'
    <2>1. /\ callReservations' \subseteq ReservationRow
          /\ \A x \in callReservations' : x.grantId \in DOMAIN runGrants
        BY <1>1, <1>2, <1>10 DEF TablesInv, SchemaOK
    <2>2. IsFiniteSet(callReservations')
        BY <1>1, FS_AddElement DEF TablesInv
    <2>3. callReservations' \subseteq handles'
        BY <1>1 DEF TablesInv
    <2>4. /\ runGrants'[g].calls_used <= runGrants'[g].max_calls
          /\ runGrants'[g].response_bytes_used
                 <= runGrants'[g].max_total_response_bytes
        BY <1>2, <1>17 DEF TablesInv, SchemaOK, row
    <2> QED
        BY <1>1, <1>2, <1>14, <1>17, <1>18, <2>1, <2>2, <2>3, <2>4,
           TablesKept
<1>20. Ledger(now)!NewReservation(g, id) = r
    BY <1>4, <1>7, <1>8, <1>9
       DEF Ledger!NewReservation, Ledger!Least, Ledger!Remaining, record
<1>21. Ledger(now)!Authorized(g, now)
    BY <1>2, <1>6 DEF Ledger!Authorized, Ledger!Active, Active, Records,
                      record
<1>22. Ledger(now)!CanReserve(record)
    BY <1>6 DEF Ledger!CanReserve
<1>23. Ledger(now)!Save(g, [record EXCEPT
                               !.reservedCalls = @ + 1,
                               !.reservedResponseBytes =
                                   @ + r.maxResponseBytes])
    BY <1>15, <1>16 DEF Ledger!Save, record
<1> QED
    BY <1>1, <1>19, <1>20, <1>21, <1>22, <1>23
       DEF Ledger!ReserveCall, record

\* Deleting a row of call_reservations.
LEMMA DeleteOne ==
    ASSUME TablesInv, NEW r \in callReservations, DeleteRow(r)
    PROVE  /\ r.grantId \in DOMAIN runGrants /\ r.grantId \in GrantIds
           /\ r \in ReservationsOf(r.grantId)
           /\ r.maxResponseBytes \in Nat
           /\ ReservationsOf(r.grantId)' = ReservationsOf(r.grantId) \ {r}
           /\ \A x \in DOMAIN runGrants \ {r.grantId} :
                 ReservationsOf(x)' = ReservationsOf(x)
           /\ callReservations' \subseteq ReservationRow
           /\ \A x \in callReservations' : x.grantId \in DOMAIN runGrants
           /\ IsFiniteSet(callReservations')
           /\ callReservations' \subseteq handles
<1>1. callReservations' = callReservations \ {r}
    BY DEF DeleteRow
<1>2. IsFiniteSet(callReservations')
    BY <1>1, FS_RemoveElement DEF TablesInv
<1>3. r.grantId \in DOMAIN runGrants /\ r.grantId \in GrantIds
      /\ r.maxResponseBytes \in Nat
    BY DEF TablesInv, SchemaOK, ReservationRow
<1> QED
    BY <1>1, <1>2, <1>3 DEF TablesInv, SchemaOK, ReservationsOf

LEMMA CommitKeeps ==
    ASSUME TablesInv, NEW r, NEW bytes \in Nat, NEW now,
           CommitCall(r, bytes, now)
    PROVE  /\ TablesInv'
           /\ r.grantId \in GrantIds /\ r \in handles
           /\ bytes \in 0..r.maxResponseBytes
           /\ Ledger(now)!CommitCall(r.grantId, r, bytes)
<1> DEFINE g == r.grantId
           row == runGrants[g]
           R == ReservationsOf(g)
           record == Records[g]
           spent == \/ record.callsUsed + 1 >= record.maxCalls
                    \/ record.responseBytesUsed + bytes
                          >= record.maxTotalResponseBytes
           state == IF spent THEN "exhausted" ELSE "active"
           columns == [row EXCEPT !.calls_used = @ + 1,
                                  !.response_bytes_used = @ + bytes,
                                  !.state = state]
           settled == [record EXCEPT
                          !.reservedCalls = @ - 1,
                          !.reservedResponseBytes = @ - r.maxResponseBytes]
           charged == [settled EXCEPT !.callsUsed = @ + 1,
                                      !.responseBytesUsed = @ + bytes,
                                      !.state = state]
<1>1. /\ CanCommit(r, bytes, now)
      /\ r \in callReservations
      /\ DeleteRow(r)
      /\ charges' = charges \cup {[reservation |-> r, bytes |-> bytes]}
      /\ UNCHANGED <<handles, clock>>
    BY DEF CommitCall, CanCommit
<1>2. /\ g \in DOMAIN runGrants /\ g \in GrantIds
      /\ r \in R /\ r.maxResponseBytes \in Nat
      /\ ReservationsOf(g)' = R \ {r}
      /\ \A x \in DOMAIN runGrants \ {g} :
            ReservationsOf(x)' = ReservationsOf(x)
      /\ callReservations' \subseteq ReservationRow
      /\ \A x \in callReservations' : x.grantId \in DOMAIN runGrants
      /\ IsFiniteSet(callReservations')
      /\ callReservations' \subseteq handles
    BY <1>1, DeleteOne
<1>3. /\ row \in RunGrantRow /\ ASideOK(R)
      /\ record = ReadOf(row, R) /\ Read(g) = ReadOf(row, R)
    BY <1>2, RowsOf
<1>4. /\ record.maxCalls = row.max_calls
      /\ record.maxTotalResponseBytes = row.max_total_response_bytes
      /\ record.callsUsed = row.calls_used
      /\ record.responseBytesUsed = row.response_bytes_used
      /\ record.revision = row.revision
    BY <1>3 DEF ReadOf
<1>5. /\ row.max_calls \in Nat /\ row.max_total_response_bytes \in Nat
      /\ row.calls_used \in Nat /\ row.response_bytes_used \in Nat
      /\ row.revision \in Nat
    BY <1>3 DEF RunGrantRow
<1>6. /\ Active(record, now)
      /\ bytes <= r.maxResponseBytes
      /\ record.callsUsed + 1 <= record.maxCalls
      /\ record.responseBytesUsed + bytes <= record.maxTotalResponseBytes
    BY <1>1, <1>3 DEF CanCommit
<1>7. Update(g, columns)
    <2>1. Read(g) = record
        BY <1>3
    <2> QED
        BY <2>1 DEF CommitCall
<1>8. /\ runGrants'[g] = [columns EXCEPT !.revision = row.revision + 1]
      /\ Read(g)' = ReadOf(runGrants'[g], R \ {r})
      /\ Records' = [Records EXCEPT ![g] = Read(g)']
    <2> HIDE DEF columns
    <2> QED
        BY <1>2, <1>7, RecordsUpdate
<1>9. state \in States
    BY DEF States
<1> HIDE DEF state
<1>10. Read(g)' = [charged EXCEPT !.revision = record.revision + 1]
    <2>1. row \in RunGrantRow /\ ASideOK(R) /\ r \in R
        BY <1>2, <1>3
    <2> HIDE DEF row, R
    <2>2. ReadOf(ChargedRow(row, bytes, state), R \ {r}) =
              ChargedRecord(ReadOf(row, R), r, bytes, state)
        BY <2>1, ReadCharged
    <2>3. ChargedRow(row, bytes, state) = runGrants'[g]
        BY <1>8 DEF ChargedRow
    <2>4. Read(g)' = ChargedRecord(record, r, bytes, state)
        <3> HIDE DEF record, g
        <3> QED
            BY <1>3, <1>8, <2>2, <2>3
    <2> QED
        BY <2>4 DEF ChargedRecord
<1>11. runGrants'[g] = RowOf(row, row.calls_used + 1,
                             row.response_bytes_used + bytes, state,
                             row.revision + 1)
    <2>1. WithRevision(WithState(WithBytes(WithCalls(row,
              row.calls_used + 1), row.response_bytes_used + bytes), state),
              row.revision + 1)
              = RowOf(row, row.calls_used + 1,
                      row.response_bytes_used + bytes, state,
                      row.revision + 1)
        BY <1>3, RowIs, RowSets
    <2> QED
        BY <1>8, <2>1 DEF WithRevision, WithState, WithBytes, WithCalls
<1> HIDE DEF columns, row, settled
<1>12. /\ runGrants'[g] \in RunGrantRow
       /\ runGrants'[g].calls_used <= runGrants'[g].max_calls
       /\ runGrants'[g].response_bytes_used
              <= runGrants'[g].max_total_response_bytes
    BY <1>3, <1>4, <1>5, <1>6, <1>9, <1>11 DEF RowOf, RunGrantRow
<1>13. /\ record.reservedCalls >= 1
       /\ record.reservedResponseBytes >= r.maxResponseBytes
       /\ Cardinality(R \ {r}) = record.reservedCalls - 1
       /\ Bytes(R \ {r}) = record.reservedResponseBytes - r.maxResponseBytes
    <2> HIDE DEF R, record, g
    <2>1. /\ ReadOf(row, R).reservedCalls >= 1
          /\ ReadOf(row, R).reservedResponseBytes >= r.maxResponseBytes
          /\ Cardinality(R \ {r}) = ReadOf(row, R).reservedCalls - 1
          /\ Bytes(R \ {r}) =
                 ReadOf(row, R).reservedResponseBytes - r.maxResponseBytes
        <3>1. Covers(ReadOf(row, R), R, r)
            BY <1>2, <1>3, ReadCovers
        <3> QED
            BY <3>1 DEF Covers
    <2> QED
        BY <1>3, <2>1
<1>14. record.reservedCalls \in Nat /\ record.reservedResponseBytes \in Nat
    BY <1>2, <1>3, RowsOf
<1>15. Decodes(g)'
    <2> HIDE DEF record, R
    <2>1. /\ Read(g)'.callsUsed = record.callsUsed + 1
          /\ Read(g)'.responseBytesUsed = record.responseBytesUsed + bytes
          /\ Read(g)'.maxCalls = record.maxCalls
          /\ Read(g)'.maxTotalResponseBytes = record.maxTotalResponseBytes
          /\ Read(g)'.reservedCalls = record.reservedCalls - 1
          /\ Read(g)'.reservedResponseBytes =
                 record.reservedResponseBytes - r.maxResponseBytes
        BY <1>4, <1>8, <1>11, <1>13 DEF ReadOf, RowOf
    <2>2. /\ record.callsUsed + record.reservedCalls <= record.maxCalls
          /\ record.responseBytesUsed + record.reservedResponseBytes
                 <= record.maxTotalResponseBytes
        BY <1>1, <1>3 DEF CanCommit, Decodes, R
    <2>3. /\ Read(g)'.callsUsed + Read(g)'.reservedCalls
                 <= Read(g)'.maxCalls
          /\ Read(g)'.responseBytesUsed + Read(g)'.reservedResponseBytes
                 <= Read(g)'.maxTotalResponseBytes
        BY <1>2, <1>4, <1>5, <1>6, <1>14, <2>1, <2>2
    <2> QED
        BY <2>3 DEF Decodes
<1>16. TablesInv'
    BY <1>1, <1>2, <1>7, <1>12, <1>15, TablesKept
<1>17. Ledger(now)!Active(record, now)
    BY <1>6 DEF Ledger!Active, Active
<1>18. Ledger(now)!CanCommit(g, r, bytes)
    BY <1>1, <1>2, <1>6, <1>13, <1>17
       DEF Ledger!CanCommit, Ledger!Authorized, Ledger!HoldsReservation,
           Records
<1>19. Ledger(now)!Charged(record, r, bytes) = charged
    BY DEF Ledger!Charged, Ledger!Settled, Ledger!Exhausts, state, settled
<1>20. Ledger(now)!Save(g, charged)
    BY <1>8, <1>10 DEF Ledger!Save
<1>21. Ledger(now)!CommitCall(g, r, bytes)
    BY <1>1, <1>18, <1>19, <1>20
       DEF Ledger!CommitCall, Ledger!Close, DeleteRow
<1> QED
    BY <1>1, <1>2, <1>6, <1>16, <1>21 DEF TablesInv

LEMMA ReleaseKeeps ==
    ASSUME TablesInv, NEW r, ReleaseCall(r), NEW t
    PROVE  /\ TablesInv'
           /\ r.grantId \in GrantIds /\ r \in handles
           /\ t = clock => Ledger(t)!ReleaseCall(r.grantId, r)
<1> DEFINE g == r.grantId
           row == runGrants[g]
           R == ReservationsOf(g)
           record == Records[g]
           settled == [record EXCEPT
                          !.reservedCalls = @ - 1,
                          !.reservedResponseBytes = @ - r.maxResponseBytes]
<1>1. /\ r \in callReservations
      /\ Decodes(g)
      /\ DeleteRow(r)
      /\ Update(g, row)
      /\ UNCHANGED <<handles, charges, clock>>
    BY DEF ReleaseCall
<1>2. /\ g \in DOMAIN runGrants /\ g \in GrantIds
      /\ r \in R /\ r.maxResponseBytes \in Nat
      /\ ReservationsOf(g)' = R \ {r}
      /\ \A x \in DOMAIN runGrants \ {g} :
            ReservationsOf(x)' = ReservationsOf(x)
      /\ callReservations' \subseteq ReservationRow
      /\ \A x \in callReservations' : x.grantId \in DOMAIN runGrants
      /\ IsFiniteSet(callReservations')
      /\ callReservations' \subseteq handles
    BY <1>1, DeleteOne
<1>3. /\ row \in RunGrantRow /\ ASideOK(R)
      /\ record = ReadOf(row, R) /\ Read(g) = ReadOf(row, R)
      /\ record.reservedCalls \in Nat /\ record.reservedResponseBytes \in Nat
    BY <1>2, RowsOf
<1>4. /\ record.maxCalls = row.max_calls
      /\ record.maxTotalResponseBytes = row.max_total_response_bytes
      /\ record.callsUsed = row.calls_used
      /\ record.responseBytesUsed = row.response_bytes_used
    BY <1>3 DEF ReadOf
<1>5. /\ row.max_calls \in Nat /\ row.max_total_response_bytes \in Nat
      /\ row.calls_used \in Nat /\ row.response_bytes_used \in Nat
    BY <1>3 DEF RunGrantRow
<1>6. /\ runGrants'[g] = [row EXCEPT !.revision = row.revision + 1]
      /\ Read(g)' = ReadOf(runGrants'[g], R \ {r})
      /\ Records' = [Records EXCEPT ![g] = Read(g)']
    BY <1>1, <1>2, RecordsUpdate
<1>7. /\ runGrants'[g] \in RunGrantRow
      /\ runGrants'[g].calls_used = row.calls_used
      /\ runGrants'[g].max_calls = row.max_calls
      /\ runGrants'[g].response_bytes_used = row.response_bytes_used
      /\ runGrants'[g].max_total_response_bytes
             = row.max_total_response_bytes
    BY <1>3, <1>6 DEF RunGrantRow
<1> HIDE DEF row, R
<1>8. /\ ReadOf(row, R).reservedCalls >= 1
      /\ ReadOf(row, R).reservedResponseBytes >= r.maxResponseBytes
      /\ Cardinality(R \ {r}) = ReadOf(row, R).reservedCalls - 1
      /\ Bytes(R \ {r}) =
             ReadOf(row, R).reservedResponseBytes - r.maxResponseBytes
    <2>1. Covers(ReadOf(row, R), R, r)
        BY <1>2, <1>3, ReadCovers
    <2> QED
        BY <2>1 DEF Covers
<1>9. Read(g)' = [settled EXCEPT !.revision = record.revision + 1]
    <2>1. ReadOf([row EXCEPT !.revision = row.revision + 1], R \ {r}) =
              [[ReadOf(row, R) EXCEPT
                   !.reservedCalls = @ - 1,
                   !.reservedResponseBytes = @ - r.maxResponseBytes]
                  EXCEPT !.revision = ReadOf(row, R).revision + 1]
        BY <1>2, <1>3, ReadReleased, Zenon
    <2> QED
        BY <1>3, <1>6, <2>1, Zenon
<1> HIDE DEF settled
<1>10. Decodes(g)'
    <2>1. /\ Read(g)'.callsUsed = record.callsUsed
          /\ Read(g)'.responseBytesUsed = record.responseBytesUsed
          /\ Read(g)'.maxCalls = record.maxCalls
          /\ Read(g)'.maxTotalResponseBytes = record.maxTotalResponseBytes
          /\ Read(g)'.reservedCalls = Cardinality(R \ {r})
          /\ Read(g)'.reservedResponseBytes = Bytes(R \ {r})
        <3> HIDE DEF record
        <3> QED
            BY <1>4, <1>6, <1>7 DEF ReadOf
    <2>2. /\ record.callsUsed + record.reservedCalls <= record.maxCalls
          /\ record.responseBytesUsed + record.reservedResponseBytes
                 <= record.maxTotalResponseBytes
        BY <1>1, <1>3 DEF Decodes
    <2> HIDE DEF record
    <2>3. /\ Cardinality(R \ {r}) = record.reservedCalls - 1
          /\ Bytes(R \ {r}) =
                 record.reservedResponseBytes - r.maxResponseBytes
        BY <1>3, <1>8
    <2>4. /\ Read(g)'.callsUsed + Read(g)'.reservedCalls
                 <= Read(g)'.maxCalls
          /\ Read(g)'.responseBytesUsed + Read(g)'.reservedResponseBytes
                 <= Read(g)'.maxTotalResponseBytes
        BY <1>2, <1>3, <1>4, <1>5, <2>1, <2>2, <2>3
    <2> QED
        BY <2>4 DEF Decodes
<1>11. TablesInv'
    <2>1. /\ runGrants'[g].calls_used <= runGrants'[g].max_calls
          /\ runGrants'[g].response_bytes_used
                 <= runGrants'[g].max_total_response_bytes
        BY <1>2, <1>7 DEF TablesInv, SchemaOK, row
    <2> QED
        BY <1>1, <1>2, <1>7, <1>10, <2>1, TablesKept
<1>12. Ledger(t)!HoldsReservation(record, r)
    <2> HIDE DEF record
    <2> QED
        BY <1>3, <1>8 DEF Ledger!HoldsReservation
<1>13. Ledger(t)!Save(g, Ledger(t)!Settled(record, r))
    BY <1>6, <1>9 DEF Ledger!Save, Ledger!Settled, settled
<1>14. ASSUME t = clock
       PROVE  Ledger(t)!ReleaseCall(g, r)
    BY <1>1, <1>2, <1>12, <1>13, <1>14
       DEF Ledger!ReleaseCall, Ledger!Close, DeleteRow, Records
<1> QED
    BY <1>1, <1>2, <1>11, <1>14 DEF TablesInv

LEMMA TransitionKeeps ==
    ASSUME TablesInv, NEW g, NEW expected, NEW now, NEW state,
           state \in {"revoked", "consumed", "expired"},
           Transition(g, expected, now, state)
    PROVE  /\ TablesInv'
           /\ g \in GrantIds
           /\ \/ Ledger(now)!Revoke(g)
              \/ Ledger(now)!Consume(g)
              \/ Ledger(now)!Expire(g)
<1> DEFINE row == runGrants[g]
           R == ReservationsOf(g)
           record == Records[g]
           columns == [row EXCEPT !.state = state]
<1>1. /\ CanTransit(g, expected, now, state)
      /\ Decodes(g)
      /\ Update(g, columns)
      /\ UNCHANGED <<callReservations, handles, charges, clock>>
    BY DEF Transition, CanTransit, Required
<1>2. g \in DOMAIN runGrants /\ g \in GrantIds
    BY <1>1 DEF CanTransit, Required, TablesInv, SchemaOK
<1>3. /\ row \in RunGrantRow /\ ASideOK(R)
      /\ record = ReadOf(row, R) /\ Read(g) = ReadOf(row, R)
    BY <1>2, RowsOf
<1>4. /\ record.expiresAt = row.expires_at
      /\ record.revision = row.revision /\ row.revision \in Nat
    BY <1>3 DEF ReadOf, RunGrantRow
<1>5. \A x \in DOMAIN runGrants : ReservationsOf(x)' = ReservationsOf(x)
    BY <1>1 DEF ReservationsOf
<1>6. /\ runGrants'[g] = [columns EXCEPT !.revision = row.revision + 1]
      /\ Read(g)' = ReadOf(runGrants'[g], R)
      /\ Records' = [Records EXCEPT ![g] = Read(g)']
    <2> HIDE DEF columns
    <2> QED
        BY <1>1, <1>2, <1>5, RecordsUpdate
<1>7. runGrants'[g] = RowOf(row, row.calls_used, row.response_bytes_used,
                            state, row.revision + 1)
    <2>1. WithRevision(WithState(row, state), row.revision + 1) =
              RowOf(row, row.calls_used, row.response_bytes_used, state,
                    row.revision + 1)
        BY <1>3, RowIs, RowSets
    <2> QED
        BY <1>6, <2>1 DEF WithRevision, WithState
<1>8. Read(g)' = [[record EXCEPT !.state = state]
                     EXCEPT !.revision = record.revision + 1]
    <2> HIDE DEF row, R
    <2>1. ReadOf([[row EXCEPT !.state = state]
                     EXCEPT !.revision = row.revision + 1], R) =
              [[ReadOf(row, R) EXCEPT !.state = state]
                  EXCEPT !.revision = ReadOf(row, R).revision + 1]
        BY <1>3, ReadMoved, Zenon
    <2> QED
        BY <1>3, <1>6, <2>1, Zenon
<1>9. /\ runGrants'[g] \in RunGrantRow
      /\ runGrants'[g].calls_used = row.calls_used
      /\ runGrants'[g].max_calls = row.max_calls
      /\ runGrants'[g].response_bytes_used = row.response_bytes_used
      /\ runGrants'[g].max_total_response_bytes
             = row.max_total_response_bytes
    <2> HIDE DEF row
    <2> QED
        BY <1>3, <1>7 DEF RowOf, RunGrantRow, States
<1>10. Decodes(g)'
    <2>1. /\ Read(g)'.callsUsed = Read(g).callsUsed
          /\ Read(g)'.responseBytesUsed = Read(g).responseBytesUsed
          /\ Read(g)'.maxCalls = Read(g).maxCalls
          /\ Read(g)'.maxTotalResponseBytes = Read(g).maxTotalResponseBytes
          /\ Read(g)'.reservedCalls = Read(g).reservedCalls
          /\ Read(g)'.reservedResponseBytes = Read(g).reservedResponseBytes
        <3> HIDE DEF row, R, record
        <3> QED
            BY <1>3, <1>6, <1>9 DEF ReadOf
    <2> QED
        BY <1>1, <2>1 DEF Decodes
<1>11. TablesInv'
    <2>1. /\ runGrants'[g].calls_used <= runGrants'[g].max_calls
          /\ runGrants'[g].response_bytes_used
                 <= runGrants'[g].max_total_response_bytes
        BY <1>2, <1>9 DEF TablesInv, SchemaOK
    <2>2. /\ callReservations' \subseteq ReservationRow
          /\ \A r \in callReservations' : r.grantId \in DOMAIN runGrants
          /\ IsFiniteSet(callReservations')
          /\ callReservations' \subseteq handles'
        BY <1>1 DEF TablesInv, SchemaOK
    <2> HIDE DEF columns
    <2> QED
        BY <1>1, <1>2, <1>5, <1>9, <1>10, <2>1, <2>2, TablesKept
<1>12. Ledger(now)!Save(g, [record EXCEPT !.state = state])
    BY <1>6, <1>8 DEF Ledger!Save
<1>13. CASE state = "expired"
    <2>1. record.expiresAt <= now
        BY <1>1, <1>4, <1>13 DEF CanTransit
    <2>2. Ledger(now)!Expire(g)
        BY <1>1, <1>2, <1>4, <1>12, <1>13, <2>1 DEF Ledger!Expire, Records
    <2> QED
        BY <1>2, <1>11, <2>2
<1>14. CASE state # "expired"
    <2>1. Ledger(now)!Authorized(g, now)
        BY <1>1, <1>2, <1>3, <1>14
           DEF CanTransit, Ledger!Authorized, Ledger!Active, Active, Records
    <2>2. Ledger(now)!Transition(g, state)
        BY <1>1, <1>12, <2>1 DEF Ledger!Transition
    <2> QED
        BY <1>2, <1>11, <1>14, <2>2 DEF Ledger!Revoke, Ledger!Consume
<1> QED
    BY <1>13, <1>14

-----------------------------------------------------------------------------
(***************************************************************************)
(* The processes and their rows.  A process in flight holds one row; two   *)
(* processes never hold the same; and a row in the table is held by a      *)
(* process in flight, or by one that ended before it could settle.         *)
(***************************************************************************)
Flying == {"call", "commit", "release"}

Owning == Flying \cup {"crashed", "stranded"}

LocalRight(s, rows, ever, time) ==
    /\ s.now \in 0..time
    /\ s.bytes \in Nat
    /\ s.reservation \subseteq ever
    /\ s.pc = "transition" =>
          s.state \in {"revoked", "consumed", "expired"}
    /\ s.pc \in {"idle", "reserve", "transition"} => s.reservation = {}
    /\ s.pc \in Flying => \E r \in rows : s.reservation = {r}

NoRowShared ==
    \A p, q \in Processes :
        p # q => procs[p].reservation \cap procs[q].reservation = {}

RowsOwned ==
    \A r \in callReservations : \E p \in Processes :
        r \in procs[p].reservation /\ procs[p].pc \in Owning

OwnersInv ==
    /\ Locals
    /\ \A p \in Processes :
          LocalRight(procs[p], callReservations, handles, clock)
    /\ NoRowShared
    /\ RowsOwned

\* The step of one process keeps this when the rows of the others stay, what
\* it holds is its own or new, and it ends no ownership of a row that stays.
LEMMA OwnersMove ==
    ASSUME TablesInv, OwnersInv, NEW p \in Processes, NEW s,
           Locals', Moves(p, s),
           LocalRight(s, callReservations', handles', clock'),
           handles \subseteq handles', clock' = clock,
           \/ s.reservation = procs[p].reservation
           \/ s.reservation \cap handles = {},
           \A r \in callReservations \ callReservations' :
               r \in procs[p].reservation,
           \A r \in callReservations' :
               \/ r \in s.reservation /\ s.pc \in Owning
               \/ /\ r \in callReservations
                  /\ ~(r \in procs[p].reservation
                          /\ procs[p].pc \in Owning)
    PROVE  OwnersInv'
<1>1. ASSUME NEW q \in Processes
      PROVE  LocalRight(procs'[q], callReservations', handles', clock')
    <2>1. CASE q = p
        BY <2>1 DEF Moves
    <2>2. CASE q # p
        <3>1. procs'[q] = procs[q]
            BY <2>2 DEF Moves
        <3>2. LocalRight(procs[q], callReservations, handles, clock)
            BY DEF OwnersInv
        <3>3. ASSUME NEW r \in callReservations, procs[q].reservation = {r}
              PROVE  r \in callReservations'
            BY <2>2, <3>3 DEF OwnersInv, NoRowShared
        <3> QED
            BY <3>1, <3>2, <3>3 DEF LocalRight
    <2> QED
        BY <2>1, <2>2
<1>2. NoRowShared'
    <2>1. ASSUME NEW q \in Processes, q # p
          PROVE  /\ procs'[q] = procs[q]
                 /\ procs[q].reservation \subseteq handles
                 /\ s.reservation \cap procs[q].reservation = {}
        BY <2>1 DEF OwnersInv, NoRowShared, LocalRight, Moves
    <2>2. procs'[p] = s
        BY DEF Moves
    <2> QED
        BY <2>1, <2>2 DEF NoRowShared, OwnersInv
<1>3. RowsOwned'
    <2> SUFFICES ASSUME NEW r \in callReservations'
                 PROVE  \E q \in Processes :
                           /\ r \in procs'[q].reservation
                           /\ procs'[q].pc \in Owning
        BY DEF RowsOwned, Owning, Flying
    <2>1. CASE r \in s.reservation /\ s.pc \in Owning
        BY <2>1 DEF Moves
    <2>2. CASE /\ r \in callReservations
               /\ ~(r \in procs[p].reservation /\ procs[p].pc \in Owning)
        <3>1. PICK q \in Processes :
                 r \in procs[q].reservation /\ procs[q].pc \in Owning
            BY <2>2 DEF OwnersInv, RowsOwned
        <3>2. q # p
            BY <2>2, <3>1
        <3> QED
            BY <3>1, <3>2 DEF Moves
    <2> QED
        BY <2>1, <2>2
<1>4. \A q \in Processes :
         LocalRight(procs[q], callReservations, handles, clock)'
    BY <1>1 DEF LocalRight, Flying
<1> QED
    BY <1>2, <1>3, <1>4 DEF OwnersInv

\* A step that writes neither rows nor handles.
LEMMA OwnersQuiet ==
    ASSUME TablesInv, OwnersInv, NEW p \in Processes, NEW s,
           Locals', Moves(p, s),
           UNCHANGED <<callReservations, handles, clock>>,
           s.reservation = procs[p].reservation,
           s.now \in 0..clock, s.bytes \in Nat,
           s.pc = "transition" =>
               s.state \in {"revoked", "consumed", "expired"},
           s.pc \in {"reserve", "transition"} => procs[p].pc = "idle",
           s.pc # "idle",
           s.pc \in Flying => procs[p].pc \in Flying,
           procs[p].pc \in Owning => s.pc \in Owning
    PROVE  OwnersInv'
<1>1. LocalRight(procs[p], callReservations, handles, clock)
    BY DEF OwnersInv
<1>2. LocalRight(s, callReservations, handles, clock)
    BY <1>1 DEF LocalRight
<1>3. LocalRight(s, callReservations', handles', clock')
    BY <1>2
<1> QED
    BY <1>3, OwnersMove

LEMMA OwnersGoto ==
    ASSUME TablesInv, OwnersInv, NEW p \in Processes, NEW pc, Goto(p, pc),
           UNCHANGED <<callReservations, handles, clock>>,
           pc \notin {"idle", "reserve", "transition"},
           pc \in Flying => procs[p].pc \in Flying,
           procs[p].pc \in Owning => pc \in Owning
    PROVE  OwnersInv'
<1> DEFINE s == [procs[p] EXCEPT !.pc = pc]
<1>1. Locals' /\ Moves(p, s)
    BY GotoMoves DEF OwnersInv
<1>2. /\ s.pc = pc /\ s.reservation = procs[p].reservation
      /\ s.now = procs[p].now /\ s.bytes = procs[p].bytes
    BY DEF OwnersInv, Locals, IsLocal
<1> HIDE DEF s
<1>3. procs[p].now \in 0..clock /\ procs[p].bytes \in Nat
    BY DEF OwnersInv, LocalRight
<1> QED
    BY <1>1, <1>2, <1>3, OwnersQuiet

LEMMA OwnersRecording ==
    ASSUME TablesInv, OwnersInv, NEW p \in Processes, NEW pc, NEW code,
           GotoRecording(p, pc, code),
           UNCHANGED <<callReservations, handles, clock>>,
           pc \notin {"idle", "reserve", "transition"},
           pc \in Flying => procs[p].pc \in Flying,
           procs[p].pc \in Owning => pc \in Owning
    PROVE  OwnersInv'
<1> DEFINE s == [procs[p] EXCEPT !.pc = pc, !.code = code]
<1>1. Locals' /\ Moves(p, s)
    BY RecordingMoves DEF OwnersInv
<1>2. /\ s.pc = pc /\ s.reservation = procs[p].reservation
      /\ s.now = procs[p].now /\ s.bytes = procs[p].bytes
    <2> DEFINE t == [procs[p] EXCEPT !.pc = pc]
    <2>1. /\ IsLocal(t) /\ t.pc = pc
          /\ t.reservation = procs[p].reservation
          /\ t.now = procs[p].now /\ t.bytes = procs[p].bytes
        BY DEF OwnersInv, Locals, IsLocal
    <2>2. s = [t EXCEPT !.code = code]
        OBVIOUS
    <2> HIDE DEF t, s
    <2> QED
        BY <2>1, <2>2 DEF IsLocal
<1> HIDE DEF s
<1>3. procs[p].now \in 0..clock /\ procs[p].bytes \in Nat
    BY DEF OwnersInv, LocalRight
<1> QED
    BY <1>1, <1>2, <1>3, OwnersQuiet

\* The row a process in flight settles is its own.
LEMMA OwnRow ==
    ASSUME OwnersInv, NEW p \in Processes, procs[p].pc \in Flying
    PROVE  /\ ReservationOf(p) \in callReservations
           /\ procs[p].reservation = {ReservationOf(p)}
<1>1. PICK r \in callReservations : procs[p].reservation = {r}
    BY DEF OwnersInv, LocalRight
<1> QED
    BY <1>1 DEF ReservationOf

LEMMA OwnersSettle ==
    ASSUME TablesInv, OwnersInv, NEW p \in Processes, NEW s,
           procs[p].pc \in Flying, Locals', Moves(p, s),
           s.reservation = procs[p].reservation,
           s.now = procs[p].now, s.bytes = procs[p].bytes,
           s.pc \in {"audit", "done"},
           DeleteRow(ReservationOf(p)), UNCHANGED <<handles, clock>>
    PROVE  OwnersInv'
<1> DEFINE r == ReservationOf(p)
<1>1. r \in callReservations /\ procs[p].reservation = {r}
    BY OwnRow
<1>2. callReservations' = callReservations \ {r}
    BY DEF DeleteRow
<1> HIDE DEF r
<1>3. LocalRight(s, callReservations', handles', clock')
    BY DEF OwnersInv, LocalRight, Flying
<1>4. \A x \in callReservations \ callReservations' :
         x \in procs[p].reservation
    BY <1>1, <1>2
<1>5. \A x \in callReservations' :
         x \in callReservations /\ x \notin procs[p].reservation
    BY <1>1, <1>2
<1> QED
    BY <1>3, <1>4, <1>5, OwnersMove

(***************************************************************************)
(* The steps, one by one: each keeps the tables and their owners, and is a *)
(* step of the ledger or leaves the tables alone.                          *)
(***************************************************************************)
LedgerNext == \E t \in 0..clock : Ledger(t)!Next

\* The tables are as they were, and so is what the ledger sees of them.
LEMMA TablesSame ==
    ASSUME TablesInv, UNCHANGED tables, handles \subseteq handles',
           clock' \in Nat
    PROVE  TablesInv'
<1>1. \A g : ReservationsOf(g)' = ReservationsOf(g)
    BY DEF ReservationsOf, tables
<1>2. \A g : Read(g)' = Read(g)
    BY <1>1, ReadIs DEF tables
<1> QED
    BY <1>2 DEF TablesInv, SchemaOK, Decodes, tables

LEMMA ReserveStep ==
    ASSUME TablesInv, OwnersInv, NEW p \in Processes,
           NEW id \in ReservationIds, Reserve(p, id)
    PROVE  TablesInv' /\ OwnersInv' /\ LedgerNext
<1> DEFINE g == GrantOf(p)
           now == procs[p].now
           r == Reservation(g, id)
<1>1. /\ procs[p].pc = "reserve"
      /\ ReserveCall(g, id, procs[p].revision, now)
      /\ procs' = [procs EXCEPT ![p].pc = "call", ![p].reservation = {r}]
    BY DEF Reserve
<1>2. TablesInv' /\ Ledger(now)!ReserveCall(g, id)
    BY <1>1, ReserveKeeps
<1>3. g \in GrantIds /\ now \in 0..clock
    BY <1>1 DEF ReserveCall, CanReserve, Required, TablesInv, SchemaOK,
                OwnersInv, LocalRight
<1>4. LedgerNext
    <2> HIDE DEF now, g
    <2> QED
        BY <1>2, <1>3 DEF LedgerNext, Ledger!Next
<1>5. /\ callReservations' = callReservations \cup {r}
      /\ handles' = handles \cup {r} /\ clock' = clock
      /\ r.id = id /\ \A h \in handles : h.id # id
    BY <1>1 DEF ReserveCall, Reservation
<1>6. procs[p].reservation = {} /\ procs[p].bytes \in Nat
    BY <1>1 DEF OwnersInv, LocalRight
<1> HIDE DEF r
<1>7. PICK s : /\ Locals' /\ Moves(p, s)
               /\ s.pc = "call" /\ s.reservation = {r}
               /\ s.now = now /\ s.bytes = procs[p].bytes
    <2>1. /\ procs' = [procs EXCEPT ![p].pc = "call",
                                    ![p].reservation = {r}]
          /\ Locals
        BY <1>1 DEF OwnersInv
    <2>2. Locals' /\ ReservesAs(p, r)
        BY <2>1, ReserveMoves
    <2> QED
        BY <2>2 DEF ReservesAs
<1>8. LocalRight(s, callReservations', handles', clock')
    BY <1>3, <1>5, <1>6, <1>7 DEF LocalRight, Flying
<1>9. s.reservation \cap handles = {}
    BY <1>5, <1>7
<1>10. \A x \in callReservations' :
          \/ x \in s.reservation /\ s.pc \in Owning
          \/ x \in callReservations /\ x \notin procs[p].reservation
    BY <1>5, <1>6, <1>7 DEF Owning, Flying
<1>11. OwnersInv'
    BY <1>5, <1>7, <1>8, <1>9, <1>10, OwnersMove
<1> QED
    BY <1>2, <1>4, <1>11

LEMMA CommitStep ==
    ASSUME TablesInv, OwnersInv, NEW p \in Processes, Commit(p)
    PROVE  TablesInv' /\ OwnersInv' /\ LedgerNext
<1> DEFINE r == ReservationOf(p)
           now == procs[p].now
           bytes == procs[p].bytes
           s == [procs[p] EXCEPT !.pc = "audit", !.code = {"TOOL_CALLED"}]
<1>1. /\ procs[p].pc = "commit"
      /\ CommitCall(r, bytes, now)
      /\ GotoRecording(p, "audit", {"TOOL_CALLED"})
    BY DEF Commit
<1>2. now \in 0..clock /\ bytes \in Nat
    BY DEF OwnersInv, LocalRight
<1>3. /\ TablesInv'
      /\ r.grantId \in GrantIds /\ r \in handles
      /\ bytes \in 0..r.maxResponseBytes
      /\ Ledger(now)!CommitCall(r.grantId, r, bytes)
    BY <1>1, <1>2, CommitKeeps
<1>4. LedgerNext
    <2> HIDE DEF r, now, bytes
    <2> QED
        BY <1>2, <1>3 DEF LedgerNext, Ledger!Next
<1>5. Locals' /\ Moves(p, s)
    <2> DEFINE code == {"TOOL_CALLED"}
    <2>1. GotoRecording(p, "audit", code)
        BY <1>1
    <2> HIDE DEF code
    <2>2. /\ Locals'
          /\ Moves(p, [procs[p] EXCEPT !.pc = "audit", !.code = code])
        BY <2>1, RecordingMoves DEF OwnersInv
    <2> QED
        BY <2>2 DEF code
<1>6. /\ s.pc = "audit" /\ s.reservation = procs[p].reservation
      /\ s.now = procs[p].now /\ s.bytes = procs[p].bytes
    <2> DEFINE t == [procs[p] EXCEPT !.pc = "audit"]
    <2>1. /\ IsLocal(t) /\ t.pc = "audit"
          /\ t.reservation = procs[p].reservation
          /\ t.now = procs[p].now /\ t.bytes = procs[p].bytes
        BY DEF OwnersInv, Locals, IsLocal
    <2>2. s = [t EXCEPT !.code = {"TOOL_CALLED"}]
        OBVIOUS
    <2> HIDE DEF t, s
    <2> QED
        BY <2>1, <2>2 DEF IsLocal
<1> HIDE DEF s
<1>7. DeleteRow(r) /\ UNCHANGED <<handles, clock>>
    BY <1>1 DEF CommitCall
<1>8. OwnersInv'
    BY <1>1, <1>5, <1>6, <1>7, OwnersSettle DEF Flying
<1> QED
    BY <1>3, <1>4, <1>8

LEMMA ReleaseStep ==
    ASSUME TablesInv, OwnersInv, NEW p \in Processes, Release(p)
    PROVE  TablesInv' /\ OwnersInv' /\ LedgerNext
<1> DEFINE r == ReservationOf(p)
           pc == IF procs[p].code = {} THEN "done" ELSE "audit"
           s == [procs[p] EXCEPT !.pc = pc]
<1>1. procs[p].pc = "release" /\ ReleaseCall(r) /\ Goto(p, pc)
    BY DEF Release
<1>2. pc \in {"audit", "done"}
    OBVIOUS
<1> HIDE DEF pc
<1>3. PICK t \in 0..clock : t = clock
    BY DEF TablesInv
<1>4. /\ TablesInv'
      /\ r.grantId \in GrantIds /\ r \in handles
      /\ Ledger(t)!ReleaseCall(r.grantId, r)
    BY <1>1, <1>3, ReleaseKeeps
<1>5. LedgerNext
    <2> HIDE DEF r
    <2> QED
        BY <1>4 DEF LedgerNext, Ledger!Next
<1>6. Locals' /\ Moves(p, s)
    BY <1>1, GotoMoves DEF OwnersInv
<1>7. /\ s.pc = pc /\ s.reservation = procs[p].reservation
      /\ s.now = procs[p].now /\ s.bytes = procs[p].bytes
    BY DEF OwnersInv, Locals, IsLocal
<1> HIDE DEF s
<1>8. DeleteRow(r) /\ UNCHANGED <<handles, clock>>
    BY <1>1 DEF ReleaseCall
<1>9. OwnersInv'
    BY <1>1, <1>2, <1>6, <1>7, <1>8, OwnersSettle DEF Flying
<1> QED
    BY <1>4, <1>5, <1>9

LEMMA TransitStep ==
    ASSUME TablesInv, OwnersInv, NEW p \in Processes, Transit(p)
    PROVE  /\ TablesInv' /\ OwnersInv'
           /\ LedgerNext \/ UNCHANGED <<tables, handles, charges>>
<1> DEFINE g == GrantOf(p)
           now == procs[p].now
           state == procs[p].state
<1>1. procs[p].pc = "transition" /\ Goto(p, "done")
    BY DEF Transit
<1>2. now \in 0..clock /\ state \in {"revoked", "consumed", "expired"}
    BY <1>1 DEF OwnersInv, LocalRight
<1>3. CASE Transition(g, procs[p].revision, now, state)
    <2>1. UNCHANGED <<callReservations, handles, clock>>
        BY <1>3 DEF Transition
    <2>2. OwnersInv'
        BY <1>1, <2>1, OwnersGoto DEF Owning, Flying
    <2>3. /\ TablesInv'
          /\ g \in GrantIds
          /\ \/ Ledger(now)!Revoke(g)
             \/ Ledger(now)!Consume(g)
             \/ Ledger(now)!Expire(g)
        BY <1>2, <1>3, TransitionKeeps
    <2>4. LedgerNext
        <3> HIDE DEF now, g
        <3> QED
            BY <1>2, <2>3 DEF LedgerNext, Ledger!Next
    <2> QED
        BY <2>2, <2>3, <2>4
<1>4. CASE UNCHANGED sqlVars
    <2>1. /\ UNCHANGED <<callReservations, handles, clock>>
          /\ UNCHANGED <<tables, handles, charges>>
        BY <1>4 DEF sqlVars, tables
    <2>2. OwnersInv'
        BY <1>1, <2>1, OwnersGoto DEF Owning, Flying
    <2>3. TablesInv'
        BY <2>1, TablesSame DEF TablesInv
    <2> QED
        BY <2>1, <2>2, <2>3
<1> QED
    BY <1>3, <1>4 DEF Transit

LEMMA BeginStep ==
    ASSUME TablesInv, OwnersInv, NEW p \in Processes, NEW g, NEW pc,
           NEW state, Presents(p, g, pc, state), UNCHANGED sqlVars,
           procs[p].pc = "idle",
           \/ pc = "reserve"
           \/ /\ pc = "transition"
              /\ state \in {"revoked", "consumed", "expired"}
    PROVE  OwnersInv'
<1>1. PICK s : /\ Locals' /\ Moves(p, s)
               /\ s.pc = pc /\ s.state = state /\ s.now = clock
               /\ s.reservation = procs[p].reservation
               /\ s.bytes = procs[p].bytes
    BY PresentsMoves DEF OwnersInv
<1>2. procs[p].bytes \in Nat /\ clock \in 0..clock
    BY DEF OwnersInv, LocalRight, TablesInv
<1>3. UNCHANGED <<callReservations, handles, clock>>
    BY DEF sqlVars, tables
<1> QED
    BY <1>1, <1>2, <1>3, OwnersQuiet DEF Owning, Flying

LEMMA OwnersThrew ==
    ASSUME TablesInv, OwnersInv, NEW p \in Processes, NEW refused,
           AuditThrew(p, refused), UNCHANGED sqlVars,
           procs[p].pc \in {"audit", "auditing"}
    PROVE  OwnersInv'
<1>1. PICK s : /\ Locals' /\ Moves(p, s)
               /\ s.pc \in {"audit", "done"}
               /\ s.reservation = procs[p].reservation
               /\ s.now = procs[p].now /\ s.bytes = procs[p].bytes
    <2>1. Locals
        BY DEF OwnersInv
    <2>2. /\ Locals'
          /\ \E s : /\ Moves(p, s) /\ IsLocal(s)
                    /\ \/ s.pc = "audit" /\ s.code = {"PROVIDER_FAILED"}
                       \/ s.pc = "done" /\ s.code = {}
                    /\ s.grant = procs[p].grant /\ s.state = procs[p].state
                    /\ s.revision = procs[p].revision
                    /\ s.now = procs[p].now
                    /\ s.reservation = procs[p].reservation
                    /\ s.bytes = procs[p].bytes
                    /\ s.refused = refused
        BY <2>1, ThrewMoves, Zenon
    <2> QED
        BY <2>2
<1>2. procs[p].now \in 0..clock /\ procs[p].bytes \in Nat
    BY DEF OwnersInv, LocalRight
<1>3. UNCHANGED <<callReservations, handles, clock>>
    BY DEF sqlVars, tables
<1> QED
    BY <1>1, <1>2, <1>3, OwnersQuiet DEF Owning, Flying

LEMMA OwnersAnswer ==
    ASSUME TablesInv, OwnersInv, NEW p \in Processes, NEW bytes \in Nat,
           Answers(p, bytes), UNCHANGED sqlVars, procs[p].pc = "call"
    PROVE  OwnersInv'
<1>1. PICK s : /\ Locals' /\ Moves(p, s)
               /\ s.pc = "commit" /\ s.bytes = bytes /\ s.now = clock
               /\ s.reservation = procs[p].reservation
    <2>1. Locals
        BY DEF OwnersInv
    <2>2. Locals' /\ \E s : Answered(p, s, bytes)
        BY <2>1, AnswerMoves
    <2> QED
        BY <2>2 DEF Answered
<1>2. clock \in 0..clock
    BY DEF TablesInv
<1>3. UNCHANGED <<callReservations, handles, clock>>
    BY DEF sqlVars, tables
<1> QED
    BY <1>1, <1>2, <1>3, OwnersQuiet DEF Owning, Flying

\* The steps of a process that leave the database of the grants alone.
LEMMA QuietStep ==
    ASSUME TablesInv, OwnersInv, NEW p \in Processes, UNCHANGED sqlVars,
           \/ \E g \in GrantIds :
                 \/ BeginCall(p, g)
                 \/ DenyCall(p, g)
                 \/ \E state \in {"revoked", "consumed", "expired"} :
                       BeginTransition(p, g, state)
           \/ ReserveRefused(p)
           \/ ProviderFails(p)
           \/ \E bytes \in 0..MaxAnswer : ProviderAnswers(p, bytes)
           \/ CommitRefused(p)
           \/ AuditBegins(p)
           \/ AuditEnds(p)
           \/ Busy(p)
           \/ Crash(p)
    PROVE  OwnersInv'
<1>0. UNCHANGED <<callReservations, handles, clock>>
    BY DEF sqlVars, tables
<1>1. ASSUME NEW g \in GrantIds, BeginCall(p, g)
      PROVE  OwnersInv'
    BY <1>1, BeginStep DEF BeginCall
<1>2. ASSUME NEW g \in GrantIds, DenyCall(p, g)
      PROVE  OwnersInv'
    <2>1. /\ procs[p].pc = "idle"
          /\ GotoRecording(p, "audit", {"GRANT_DENIED"})
        BY <1>2 DEF DenyCall
    <2> QED
        BY <1>0, <2>1, OwnersRecording DEF Owning, Flying
<1>3. ASSUME NEW g \in GrantIds,
             NEW state \in {"revoked", "consumed", "expired"},
             BeginTransition(p, g, state)
      PROVE  OwnersInv'
    <2>1. procs[p].pc = "idle" /\ Presents(p, g, "transition", state)
        BY <1>3 DEF BeginTransition
    <2> QED
        BY <2>1, BeginStep
<1>4. CASE ReserveRefused(p)
    <2>1. procs[p].pc = "reserve" /\ Goto(p, "done")
        BY <1>4 DEF ReserveRefused
    <2> QED
        BY <1>0, <2>1, OwnersGoto DEF Owning, Flying
<1>5. CASE ProviderFails(p)
    <2>1. /\ procs[p].pc = "call"
          /\ GotoRecording(p, "release", {"PROVIDER_FAILED"})
        BY <1>5 DEF ProviderFails
    <2> QED
        BY <1>0, <2>1, OwnersRecording DEF Owning, Flying
<1>6. ASSUME NEW bytes \in 0..MaxAnswer, ProviderAnswers(p, bytes)
      PROVE  OwnersInv'
    <2>1. procs[p].pc = "call" /\ bytes \in Nat
        <3>1. bytes \in Nat
            BY GatewayProcessesAssumption
        <3> QED
            BY <1>6, <3>1 DEF ProviderAnswers
    <2>2. CASE GotoRecording(p, "release", {"AUTHORIZATION_CHANGED"})
        BY <1>0, <2>1, <2>2, OwnersRecording DEF Owning, Flying
    <2>3. CASE Answers(p, bytes)
        BY <2>1, <2>3, OwnersAnswer
    <2> QED
        BY <1>6, <2>2, <2>3 DEF ProviderAnswers, Answers
<1>7. CASE CommitRefused(p)
    <2>1. procs[p].pc = "commit" /\ GotoRecording(p, "release", {})
        BY <1>7 DEF CommitRefused
    <2> QED
        BY <1>0, <2>1, OwnersRecording DEF Owning, Flying
<1>8. CASE AuditBegins(p)
    <2>1. procs[p].pc = "audit" /\ Goto(p, "auditing")
        BY <1>8 DEF AuditBegins
    <2> QED
        BY <1>0, <2>1, OwnersGoto DEF Owning, Flying
<1>9. CASE AuditEnds(p)
    <2>1. procs[p].pc = "auditing"
        BY <1>9 DEF AuditEnds
    <2>2. CASE Goto(p, "done")
        BY <1>0, <2>1, <2>2, OwnersGoto DEF Owning, Flying
    <2>3. CASE AuditThrew(p, FALSE)
        BY <2>1, <2>3, OwnersThrew
    <2> QED
        BY <1>9, <2>2, <2>3 DEF AuditEnds
<1>10. CASE Busy(p)
    <2>1. CASE /\ procs[p].pc \in {"reserve", "transition"}
               /\ Goto(p, "done")
        BY <1>0, <2>1, OwnersGoto DEF Owning, Flying
    <2>2. CASE /\ procs[p].pc = "commit"
               /\ GotoRecording(p, "release", {"PROVIDER_FAILED"})
        BY <1>0, <2>2, OwnersRecording DEF Owning, Flying
    <2>3. CASE procs[p].pc = "release" /\ Goto(p, "stranded")
        BY <1>0, <2>3, OwnersGoto DEF Owning, Flying
    <2>4. CASE procs[p].pc = "audit" /\ AuditThrew(p, TRUE)
        BY <2>4, OwnersThrew
    <2> QED
        BY <1>10, <2>1, <2>2, <2>3, <2>4 DEF Busy
<1>11. CASE Crash(p)
    <2>1. Goto(p, "crashed")
        BY <1>11 DEF Crash
    <2> QED
        BY <1>0, <2>1, OwnersGoto DEF Owning, Flying
<1> QED
    BY <1>1, <1>2, <1>3, <1>4, <1>5, <1>6, <1>7, <1>8, <1>9, <1>10, <1>11

LEMMA GatewayStep ==
    ASSUME TablesInv, OwnersInv, [Next]_vars
    PROVE  /\ TablesInv' /\ OwnersInv'
           /\ LedgerNext \/ UNCHANGED <<tables, handles, charges>>
<1> DEFINE Kept == /\ TablesInv' /\ OwnersInv'
                   /\ LedgerNext \/ UNCHANGED <<tables, handles, charges>>
<1> SUFFICES Kept
    OBVIOUS
<1>1. ASSUME UNCHANGED <<tables, handles, charges, procs>>, clock' \in Nat,
             clock' >= clock
      PROVE  Kept
    <2>1. TablesInv'
        BY <1>1, TablesSame
    <2>2. UNCHANGED <<callReservations, handles, procs>>
        BY <1>1 DEF tables
    <2>3. \A p \in Processes :
             LocalRight(procs'[p], callReservations', handles', clock')
        BY <1>1, <2>2 DEF OwnersInv, LocalRight, TablesInv
    <2>4. \A p \in Processes :
             LocalRight(procs[p], callReservations, handles, clock)'
        BY <2>3 DEF LocalRight, Flying
    <2>5. OwnersInv'
        BY <2>2, <2>4 DEF OwnersInv, Locals, IsLocal, NoRowShared, RowsOwned,
                          Owning, Flying
    <2> QED
        BY <1>1, <2>1, <2>5
<1>2. ASSUME NEW p \in Processes, UNCHANGED sqlVars, OwnersInv'
      PROVE  Kept
    <2>1. UNCHANGED tables /\ UNCHANGED <<handles, charges, clock>>
        BY <1>2 DEF sqlVars
    <2>2. TablesInv'
        BY <2>1, TablesSame DEF TablesInv
    <2> QED
        BY <1>2, <2>1, <2>2
<1>3. CASE UNCHANGED vars
    <2>1. UNCHANGED <<tables, handles, charges, procs>> /\ clock' = clock
        BY <1>3 DEF vars, sqlVars
    <2> QED
        BY <1>1, <2>1 DEF TablesInv
<1>4. ASSUME NEW g \in GrantIds, NEW q \in Requests, IssueGrant(g, q)
      PROVE  Kept
    <2>1. Issue(g, q) /\ UNCHANGED procs
        BY <1>4 DEF IssueGrant
    <2>2. PICK t \in 0..clock : t = clock
        BY DEF TablesInv
    <2>3. TablesInv' /\ Ledger(t)!Issue(g, q)
        BY <2>1, <2>2, IssueKeeps
    <2>4. LedgerNext
        BY <2>3 DEF LedgerNext, Ledger!Next
    <2>5. UNCHANGED <<callReservations, handles, clock, procs>>
        BY <2>1 DEF Issue
    <2>6. OwnersInv'
        BY <2>5 DEF OwnersInv, Locals, IsLocal, LocalRight, NoRowShared,
                    RowsOwned, Owning, Flying
    <2> QED
        BY <2>3, <2>4, <2>6
<1>5. CASE TimePasses
    <2>1. /\ UNCHANGED <<tables, handles, charges, procs>>
          /\ clock' = clock + 1
        BY <1>5 DEF TimePasses, Tick
    <2> QED
        BY <1>1, <2>1 DEF TablesInv
<1>6. ASSUME NEW p \in Processes,
             \/ \E g \in GrantIds :
                   \/ BeginCall(p, g)
                   \/ DenyCall(p, g)
                   \/ \E state \in {"revoked", "consumed", "expired"} :
                         BeginTransition(p, g, state)
             \/ ReserveRefused(p)
             \/ ProviderFails(p)
             \/ \E bytes \in 0..MaxAnswer : ProviderAnswers(p, bytes)
             \/ CommitRefused(p)
             \/ AuditBegins(p)
             \/ AuditEnds(p)
             \/ Busy(p)
             \/ Crash(p)
      PROVE  Kept
    <2>1. UNCHANGED sqlVars
        BY <1>6 DEF BeginCall, DenyCall, BeginTransition, ReserveRefused,
                    ProviderFails, ProviderAnswers, CommitRefused,
                    AuditBegins, AuditEnds, Busy, Crash
    <2>2. OwnersInv'
        BY <1>6, <2>1, QuietStep
    <2> QED
        BY <1>2, <2>1, <2>2
<1>7. ASSUME NEW p \in Processes,
             \/ \E id \in ReservationIds : Reserve(p, id)
             \/ Commit(p)
             \/ Release(p)
             \/ Transit(p)
      PROVE  Kept
    BY <1>7, ReserveStep, CommitStep, ReleaseStep, TransitStep
<1> HIDE DEF Kept
<1>8. CASE Next
    BY <1>4, <1>5, <1>6, <1>7, <1>8 DEF Next
<1> QED
    BY <1>3, <1>8

LEMMA GatewayInit ==
    ASSUME Init
    PROVE  TablesInv /\ OwnersInv /\ Ledger(0)!Init
<1>1. /\ runGrants = [g \in {} |-> g] /\ DOMAIN runGrants = {}
      /\ callReservations = {} /\ handles = {} /\ charges = {} /\ clock = 0
    BY DEF Init, SqlInit
<1>2. TablesInv
    BY <1>1, FS_EmptySet DEF TablesInv, SchemaOK
<1>3. \A p \in Processes : procs[p] = Idle
    BY DEF Init
<1>4. OwnersInv
    BY <1>1, <1>3 DEF Init, OwnersInv, Locals, IsLocal, Idle, LocalRight,
                      NoRowShared, RowsOwned, Flying
<1>5. Records = [g \in {} |-> g]
    BY <1>1 DEF Records
<1> QED
    BY <1>1, <1>2, <1>4, <1>5 DEF Ledger!Init

(***************************************************************************)
(* ImplementsLedger, for any number of processes and grants                *)
(* (sqlite-run-grants.ts): what any of them writes, at any interleaving of *)
(* their transactions and wherever they die, is an operation of the ledger *)
(* in memory, at a time one of them read.                                  *)
(***************************************************************************)
THEOREM TablesImplementLedger == Spec => ImplementsLedger
<1>1. Init => TablesInv /\ OwnersInv /\ Ledger(0)!Init
    BY GatewayInit
<1>2. TablesInv /\ OwnersInv /\ [Next]_vars => (TablesInv /\ OwnersInv)'
    BY GatewayStep
<1>3. TablesInv /\ OwnersInv /\ [Next]_vars
         => [\E t \in 0..clock : Ledger(t)!Next]_<<tables, handles, charges>>
    BY GatewayStep DEF LedgerNext
<1> QED
    BY <1>1, <1>2, <1>3, PTL DEF Spec, ImplementsLedger

(***************************************************************************)
(* RowsHaveOwners, for any number of processes: the row of a call in       *)
(* flight is there until the call settles, a row is left behind only by a  *)
(* process that died or was refused the lock, every grant can be decoded,  *)
(* and no statement runs into a CHECK of the schema.                       *)
(***************************************************************************)
THEOREM EveryRowHasItsOwner == Spec => []RowsHaveOwners
<1>1. Init => TablesInv /\ OwnersInv
    BY GatewayInit
<1>2. TablesInv /\ OwnersInv /\ [Next]_vars => (TablesInv /\ OwnersInv)'
    BY GatewayStep
<1>3. TablesInv /\ OwnersInv => RowsHaveOwners
    <2> SUFFICES ASSUME TablesInv, OwnersInv
                 PROVE  RowsHaveOwners
        OBVIOUS
    <2>1. ASSUME NEW p \in Processes, InFlight(p)
          PROVE  procs[p].reservation \subseteq callReservations
        BY <2>1 DEF InFlight, OwnersInv, LocalRight, Flying
    <2>2. ASSUME NEW r \in callReservations
          PROVE  \E p \in Processes :
                    /\ r \in procs[p].reservation
                    /\ InFlight(p) \/ procs[p].pc \in {"crashed", "stranded"}
        BY DEF OwnersInv, RowsOwned, Owning, Flying, InFlight
    <2> QED
        BY <2>1, <2>2 DEF RowsHaveOwners, TablesInv
<1> QED
    BY <1>1, <1>2, <1>3, PTL DEF Spec

-----------------------------------------------------------------------------
(***************************************************************************)
(* The charges and their audit.  Every charge is that of the call whose    *)
(* row its commit deleted, and has its TOOL_CALLED event, unless the       *)
(* process has yet to append it, died before it could, or was refused the  *)
(* lock.  The sets are counted together, because a step that changes one   *)
(* of them changes exactly two, by one.                                    *)
(***************************************************************************)
ChargedIn(s, C) == \E c \in C : {c.reservation} = s.reservation

UnrecordedIn(s, C) ==
    ChargedIn(s, C) /\ (s.pc \in {"audit", "auditing", "crashed"} \/ s.refused)

Unrecorded == {p \in Processes : UnrecordedIn(procs[p], charges)}

Called == {e \in events : e.code = "TOOL_CALLED"}

\* What a process may still append tells whether its call was charged.
TellsCharge(s, C) ==
    /\ ChargedIn(s, C) => s.pc \in {"audit", "auditing", "done", "crashed"}
    /\ s.pc \in {"audit", "auditing"} =>
          (s.code = {"TOOL_CALLED"} <=> ChargedIn(s, C) /\ ~s.refused)
    /\ s.pc \in {"idle", "reserve", "call", "commit", "release"} =>
          s.code # {"TOOL_CALLED"} /\ ~s.refused
    /\ s.refused \in BOOLEAN

ChargesSettled ==
    \A c \in charges : c.reservation \in handles \ callReservations

Counted ==
    /\ IsFiniteSet(charges) /\ IsFiniteSet(Unrecorded)
    /\ Cardinality(charges) = Cardinality(Called) + Cardinality(Unrecorded)

CountInv ==
    /\ \A p \in Processes : TellsCharge(procs[p], charges)
    /\ ChargesSettled
    /\ Counted

\* A step of one process that charges nothing and records no charge.
LEMMA CountMove ==
    ASSUME CountInv, NEW p \in Processes, NEW s, Moves(p, s),
           charges' = charges, Called' = Called, ChargesSettled',
           TellsCharge(s, charges),
           UnrecordedIn(s, charges) <=> UnrecordedIn(procs[p], charges)
    PROVE  CountInv'
<1>1. \A q \in Processes : TellsCharge(procs'[q], charges')
    BY DEF CountInv, Moves
<1>2. \A q \in Processes : TellsCharge(procs[q], charges)'
    BY <1>1 DEF TellsCharge, ChargedIn
<1>3. \A q \in Processes : UnrecordedIn(procs'[q], charges')
                              <=> UnrecordedIn(procs[q], charges)
    BY DEF Moves
<1>4. Unrecorded' = Unrecorded
    BY <1>3 DEF Unrecorded, UnrecordedIn, ChargedIn
<1> QED
    BY <1>2, <1>4 DEF CountInv, Counted

\* Neither the tables, the audit nor what a process reserved.
LEMMA CountQuiet ==
    ASSUME CountInv, NEW p \in Processes, NEW s, Moves(p, s),
           UNCHANGED <<callReservations, handles, charges, events>>,
           s.reservation = procs[p].reservation,
           TellsCharge(s, charges),
           UnrecordedIn(s, charges) <=> UnrecordedIn(procs[p], charges)
    PROVE  CountInv'
<1>1. ChargesSettled' /\ Called' = Called
    BY DEF CountInv, ChargesSettled, Called
<1> QED
    BY <1>1, CountMove

\* No call is charged before its commit.
LEMMA NotCharged ==
    ASSUME CountInv, NEW p \in Processes,
           procs[p].pc \in Flying \cup {"idle", "reserve", "transition"}
    PROVE  ~ChargedIn(procs[p], charges)
    BY DEF CountInv, TellsCharge, Flying

LEMMA CountGoto ==
    ASSUME Locals, OwnersInv, CountInv, NEW p \in Processes, NEW pc,
           Goto(p, pc),
           UNCHANGED <<handles, charges, events>>,
           callReservations' \subseteq callReservations,
           procs[p].pc \in Flying \cup {"idle", "reserve", "transition"},
           pc \in {"done", "audit", "stranded"},
           pc = "audit" => procs[p].pc = "release"
    PROVE  CountInv'
<1> DEFINE s == [procs[p] EXCEPT !.pc = pc]
<1>1. Moves(p, s)
    BY GotoMoves
<1>2. /\ s.pc = pc /\ s.reservation = procs[p].reservation
      /\ s.code = procs[p].code /\ s.refused = procs[p].refused
    BY DEF Locals, IsLocal
<1> HIDE DEF s
<1>3. ~ChargedIn(procs[p], charges)
    BY NotCharged
<1>4. ~ChargedIn(s, charges)
    BY <1>2, <1>3 DEF ChargedIn
<1>5. TellsCharge(s, charges)
    <2>1. TellsCharge(procs[p], charges)
        BY DEF CountInv
    <2> QED
        BY <1>2, <1>4, <2>1 DEF TellsCharge
<1>6. ChargesSettled' /\ Called' = Called
    BY DEF CountInv, ChargesSettled, Called
<1> QED
    BY <1>1, <1>3, <1>4, <1>5, <1>6, CountMove DEF UnrecordedIn

LEMMA CountRecording ==
    ASSUME Locals, OwnersInv, CountInv, NEW p \in Processes, NEW pc, NEW code,
           GotoRecording(p, pc, code),
           UNCHANGED <<callReservations, handles, charges, events>>,
           procs[p].pc \in Flying \cup {"idle"},
           pc \in {"audit", "release"},
           code # {"TOOL_CALLED"}
    PROVE  CountInv'
<1> DEFINE s == [procs[p] EXCEPT !.pc = pc, !.code = code]
<1>1. Moves(p, s)
    BY RecordingMoves
<1>2. /\ s.pc = pc /\ s.reservation = procs[p].reservation
      /\ s.code = code /\ s.refused = procs[p].refused
    <2> DEFINE t == [procs[p] EXCEPT !.pc = pc]
    <2>1. /\ IsLocal(t) /\ t.pc = pc
          /\ t.reservation = procs[p].reservation
          /\ t.refused = procs[p].refused
        BY DEF Locals, IsLocal
    <2>2. s = [t EXCEPT !.code = code]
        OBVIOUS
    <2> HIDE DEF t, s
    <2> QED
        BY <2>1, <2>2 DEF IsLocal
<1> HIDE DEF s
<1>3. ~ChargedIn(procs[p], charges)
    BY NotCharged
<1>4. ~ChargedIn(s, charges)
    BY <1>2, <1>3 DEF ChargedIn
<1>5. TellsCharge(s, charges)
    <2>1. TellsCharge(procs[p], charges)
        BY DEF CountInv
    <2> QED
        BY <1>2, <1>4, <2>1 DEF TellsCharge, Flying
<1> QED
    BY <1>1, <1>2, <1>3, <1>4, <1>5, CountQuiet DEF UnrecordedIn

\* A reservation is new, so its call is not charged.
LEMMA CountReserve ==
    ASSUME LogInv, TablesInv, OwnersInv, CountInv, NEW p \in Processes,
           NEW id \in ReservationIds, Reserve(p, id)
    PROVE  CountInv'
<1> DEFINE r == Reservation(GrantOf(p), id)
<1>1. /\ procs' = [procs EXCEPT ![p].pc = "call", ![p].reservation = {r}]
      /\ procs[p].pc = "reserve" /\ events' = events
      /\ callReservations' = callReservations \cup {r}
      /\ handles' = handles \cup {r} /\ charges' = charges
      /\ r.id = id /\ \A h \in handles : h.id # id
    BY DEF Reserve, ReserveCall, Reservation, auditVars
<1> HIDE DEF r
<1>2. PICK s : /\ Moves(p, s)
               /\ s.pc = "call" /\ s.reservation = {r}
               /\ s.code = procs[p].code
               /\ s.refused = procs[p].refused
    <2>1. /\ procs' = [procs EXCEPT ![p].pc = "call",
                                    ![p].reservation = {r}]
          /\ Locals
        BY <1>1 DEF OwnersInv
    <2>2. Locals' /\ ReservesAs(p, r)
        BY <2>1, ReserveMoves
    <2> QED
        BY <2>2 DEF ReservesAs
<1>3. r \notin handles
    BY <1>1
<1>4. ~ChargedIn(s, charges)
    BY <1>2, <1>3 DEF ChargedIn, CountInv, ChargesSettled
<1>5. ~ChargedIn(procs[p], charges)
    BY <1>1, NotCharged
<1>6. TellsCharge(s, charges)
    BY <1>1, <1>2, <1>4 DEF CountInv, TellsCharge
<1>7. ChargesSettled' /\ Called' = Called
    BY <1>1, <1>3 DEF CountInv, ChargesSettled, Called
<1> QED
    BY <1>1, <1>2, <1>4, <1>5, <1>6, <1>7, CountMove DEF UnrecordedIn

\* A commit charges once more, and leaves one more call to record.
LEMMA CountCommit ==
    ASSUME LogInv, TablesInv, OwnersInv, CountInv, NEW p \in Processes,
           Commit(p)
    PROVE  CountInv'
<1> DEFINE r == ReservationOf(p)
           c == [reservation |-> r, bytes |-> procs[p].bytes]
           code == {"TOOL_CALLED"}
           s == [procs[p] EXCEPT !.pc = "audit", !.code = code]
<1>1. /\ procs[p].pc = "commit" /\ events' = events
      /\ callReservations' = callReservations \ {r}
      /\ charges' = charges \cup {c} /\ handles' = handles
      /\ GotoRecording(p, "audit", code)
    BY DEF Commit, CommitCall, DeleteRow, auditVars
<1>2. r \in callReservations /\ procs[p].reservation = {r}
    BY <1>1, OwnRow DEF Flying
<1>3. r \in handles
    BY <1>2 DEF OwnersInv, LocalRight
<1>4. c.reservation = r
    OBVIOUS
<1> HIDE DEF r, c, code
<1>5. Moves(p, s)
    <2>1. Locals
        BY DEF OwnersInv
    <2> DEFINE kind == {"TOOL_CALLED"}
    <2>2. GotoRecording(p, "audit", kind)
        BY <1>1 DEF code
    <2> HIDE DEF kind
    <2>3. Moves(p, [procs[p] EXCEPT !.pc = "audit", !.code = kind])
        BY <2>1, <2>2, RecordingMoves
    <2> QED
        BY <2>3 DEF kind, code
<1>6. /\ s.pc = "audit" /\ s.reservation = {r}
      /\ s.code = code /\ s.refused = procs[p].refused
    <2> DEFINE t == [procs[p] EXCEPT !.pc = "audit"]
    <2>1. /\ IsLocal(t) /\ t.pc = "audit"
          /\ t.reservation = procs[p].reservation
          /\ t.refused = procs[p].refused
        BY DEF OwnersInv, Locals, IsLocal
    <2>2. s = [t EXCEPT !.code = code]
        OBVIOUS
    <2> HIDE DEF t, s
    <2> QED
        BY <1>2, <2>1, <2>2 DEF IsLocal
<1> HIDE DEF s
<1>7. ~ChargedIn(procs[p], charges) /\ c \notin charges
    <2>1. ~ChargedIn(procs[p], charges)
        BY <1>1, NotCharged DEF Flying
    <2> QED
        BY <1>2, <1>4, <2>1 DEF ChargedIn
<1>8. ChargedIn(s, charges')
    BY <1>1, <1>4, <1>6 DEF ChargedIn
<1>9. ~s.refused
    BY <1>1, <1>6 DEF CountInv, TellsCharge
<1>10. TellsCharge(s, charges')
    <2>1. procs[p].refused \in BOOLEAN
        BY DEF CountInv, TellsCharge
    <2> QED
        BY <1>6, <1>8, <1>9, <2>1 DEF TellsCharge, code
<1>11. ASSUME NEW q \in Processes, q # p
       PROVE  /\ procs'[q] = procs[q]
              /\ ChargedIn(procs[q], charges') <=> ChargedIn(procs[q], charges)
    <2>1. procs'[q] = procs[q]
        BY <1>5, <1>11 DEF Moves
    <2>2. {r} # procs[q].reservation
        BY <1>2, <1>11 DEF OwnersInv, NoRowShared
    <2> QED
        BY <1>1, <1>4, <2>1, <2>2 DEF ChargedIn
<1>12. \A q \in Processes : TellsCharge(procs'[q], charges')
    <2> TAKE q \in Processes
    <2>1. CASE q = p
        BY <1>5, <1>10, <2>1 DEF Moves
    <2>2. CASE q # p
        BY <1>11, <2>2 DEF CountInv, TellsCharge
    <2> QED
        BY <2>1, <2>2
<1>13. \A q \in Processes : TellsCharge(procs[q], charges)'
    BY <1>12 DEF TellsCharge, ChargedIn
<1>14. ChargesSettled'
    BY <1>1, <1>2, <1>3, <1>4 DEF CountInv, ChargesSettled
<1>15. Unrecorded' = Unrecorded \cup {p} /\ p \notin Unrecorded
    <2>1. p \notin Unrecorded
        BY <1>7 DEF Unrecorded, UnrecordedIn
    <2>2. UnrecordedIn(procs'[p], charges')
        BY <1>5, <1>6, <1>8 DEF UnrecordedIn, Moves
    <2>3. \A q \in Processes : q # p =>
             (UnrecordedIn(procs'[q], charges')
                 <=> UnrecordedIn(procs[q], charges))
        BY <1>11 DEF UnrecordedIn
    <2>4. Unrecorded' = {q \in Processes : UnrecordedIn(procs'[q], charges')}
        BY DEF Unrecorded, UnrecordedIn, ChargedIn
    <2> QED
        BY <2>1, <2>2, <2>3, <2>4 DEF Unrecorded
<1>16. Counted'
    <2>1. /\ IsFiniteSet(charges') /\ IsFiniteSet(Unrecorded')
          /\ Cardinality(charges') = Cardinality(charges) + 1
          /\ Cardinality(Unrecorded') = Cardinality(Unrecorded) + 1
        BY <1>1, <1>7, <1>15, FS_AddElement DEF CountInv, Counted
    <2>2. Called' = Called /\ IsFiniteSet(Called)
        <3>1. IsFiniteSet(events)
            BY DEF LogInv, Chain
        <3> QED
            BY <1>1, <3>1, FS_Subset DEF Called
    <2>3. /\ Cardinality(Called) \in Nat /\ Cardinality(Unrecorded) \in Nat
          /\ Cardinality(charges) = Cardinality(Called)
                                      + Cardinality(Unrecorded)
        BY <2>2, FS_CardinalityType DEF CountInv, Counted
    <2> QED
        BY <2>1, <2>2, <2>3 DEF Counted
<1> QED
    BY <1>13, <1>14, <1>16 DEF CountInv

-----------------------------------------------------------------------------
\* The insert finds the chain as it was read, so it conflicts with nothing.
LEMMA NoConflict ==
    ASSUME Chain, NEW code
    PROVE  ~Conflicts(Event(code, Last))
<1> DEFINE n == Cardinality(events)
           e == Event(code, Last)
<1>1. n \in Nat /\ \A f \in events : f.sequence \in 1..n
    BY ChainNumbers
<1>2. e.sequence = n + 1 /\ e.digest = Digest(e)
    BY NextEvent
<1> HIDE DEF n, e
<1>3. ASSUME NEW f \in events
      PROVE  f.sequence # e.sequence /\ f.digest # e.digest
    <2>1. f.sequence # e.sequence
        BY <1>1, <1>2
    <2>2. f.digest = Digest(f)
        BY DEF Chain, Verifies
    <2>3. Digest(f) # Digest(e)
        BY <2>1 DEF Digest
    <2> QED
        BY <1>2, <2>1, <2>2, <2>3
<1> QED
    BY <1>3 DEF Conflicts, e

\* An append records the charge its process has yet to record, or something
\* that is not a charge.
LEMMA CountAppend ==
    ASSUME LogInv, TablesInv, OwnersInv, CountInv, NEW p \in Processes,
           AuditEnds(p)
    PROVE  CountInv'
<1> DEFINE s == [procs[p] EXCEPT !.pc = "done"]
<1>1. procs[p].pc = "auditing" /\ UNCHANGED sqlVars
    BY DEF AuditEnds
<1>2. PICK code \in AuditCodes : procs[p].code = {code}
    BY <1>1 DEF LogInv, CodesRight
<1>3. CodeOf(p) = code /\ prior[p] = Last
    BY <1>1, <1>2 DEF CodeOf, LogInv, ReadIsLast
<1>4. /\ events' = events \cup {Event(code, Last)}
      /\ Goto(p, "done")
    <2>1. ~Conflicts(Event(code, Last))
        BY NoConflict DEF LogInv
    <2> QED
        BY <1>3, <2>1 DEF AuditEnds, Insert
<1>5. Moves(p, s)
    BY <1>4, GotoMoves DEF OwnersInv
<1>6. /\ s.pc = "done" /\ s.reservation = procs[p].reservation
      /\ s.code = procs[p].code /\ s.refused = procs[p].refused
    BY DEF OwnersInv, Locals, IsLocal
<1> HIDE DEF s
<1> DEFINE e == Event(code, Last)
<1>7. e.code = code /\ e \notin events
    <2>1. /\ Cardinality(events) \in Nat
          /\ \A f \in events : f.sequence \in 1..Cardinality(events)
        BY ChainNumbers DEF LogInv
    <2>2. e.code = code /\ e.sequence = Cardinality(events) + 1
        BY NextEvent DEF LogInv
    <2> QED
        BY <2>1, <2>2
<1> HIDE DEF e
<1>8. /\ UNCHANGED <<callReservations, handles, charges>>
      /\ events' = events \cup {e}
    BY <1>1, <1>4 DEF sqlVars, tables, e
<1>9. ChargedIn(s, charges) <=> ChargedIn(procs[p], charges)
    BY <1>6 DEF ChargedIn
<1>10. TellsCharge(s, charges) /\ ChargesSettled'
    BY <1>6, <1>8 DEF CountInv, TellsCharge, ChargesSettled
<1>11. CASE code # "TOOL_CALLED"
    <2>1. Called' = Called
        BY <1>7, <1>8, <1>11 DEF Called
    <2>2. UnrecordedIn(s, charges) <=> UnrecordedIn(procs[p], charges)
        BY <1>1, <1>2, <1>6, <1>9, <1>11
           DEF CountInv, TellsCharge, UnrecordedIn
    <2> QED
        BY <1>5, <1>8, <1>10, <2>1, <2>2, CountMove
<1>12. CASE code = "TOOL_CALLED"
    <2>1. Called' = Called \cup {e} /\ e \notin Called
        BY <1>7, <1>8, <1>12 DEF Called
    <2>2. ChargedIn(procs[p], charges) /\ ~procs[p].refused
        BY <1>1, <1>2, <1>12 DEF CountInv, TellsCharge
    <2>3. p \in Unrecorded /\ ~UnrecordedIn(s, charges)
        BY <1>1, <1>6, <2>2 DEF Unrecorded, UnrecordedIn
    <2>4. Unrecorded' = Unrecorded \ {p}
        <3>1. Unrecorded' =
                 {q \in Processes : UnrecordedIn(procs'[q], charges')}
            BY DEF Unrecorded, UnrecordedIn, ChargedIn
        <3>2. procs'[p] = s /\ \A q \in Processes \ {p} : procs'[q] = procs[q]
            BY <1>5 DEF Moves
        <3> QED
            BY <1>8, <2>3, <3>1, <3>2 DEF Unrecorded
    <2>5. IsFiniteSet(Called)
        <3>1. IsFiniteSet(events)
            BY DEF LogInv, Chain
        <3> QED
            BY <3>1, FS_Subset DEF Called
    <2>6. /\ Cardinality(Called') = Cardinality(Called) + 1
          /\ IsFiniteSet(Unrecorded')
          /\ Cardinality(Unrecorded') = Cardinality(Unrecorded) - 1
        BY <2>1, <2>3, <2>4, <2>5, FS_AddElement, FS_RemoveElement
           DEF CountInv, Counted
    <2>7. /\ Cardinality(Called) \in Nat /\ Cardinality(Unrecorded) \in Nat
          /\ Cardinality(charges) = Cardinality(Called)
                                      + Cardinality(Unrecorded)
        BY <2>5, FS_CardinalityType DEF CountInv, Counted
    <2>8. Counted'
        BY <1>8, <2>6, <2>7 DEF CountInv, Counted
    <2>9. \A q \in Processes : TellsCharge(procs'[q], charges')
        BY <1>5, <1>8, <1>10 DEF CountInv, Moves
    <2>10. \A q \in Processes : TellsCharge(procs[q], charges)'
        BY <2>9 DEF TellsCharge, ChargedIn
    <2> QED
        BY <1>10, <2>8, <2>10 DEF CountInv
<1> QED
    BY <1>11, <1>12

\* The lock refused to an append is remembered.
LEMMA CountRefused ==
    ASSUME LogInv, OwnersInv, CountInv, NEW p \in Processes, NEW refused,
           AuditThrew(p, refused), procs[p].pc = "audit",
           UNCHANGED <<callReservations, handles, charges, events>>
    PROVE  refused = TRUE => CountInv'
<1>1. PICK s : /\ Moves(p, s)
               /\ \/ s.pc = "audit" /\ s.code = {"PROVIDER_FAILED"}
                  \/ s.pc = "done" /\ s.code = {}
               /\ s.reservation = procs[p].reservation
               /\ s.refused = refused
    <2>1. Locals
        BY DEF OwnersInv
    <2>2. /\ Locals'
          /\ \E s : /\ Moves(p, s) /\ IsLocal(s)
                    /\ \/ s.pc = "audit" /\ s.code = {"PROVIDER_FAILED"}
                       \/ s.pc = "done" /\ s.code = {}
                    /\ s.grant = procs[p].grant /\ s.state = procs[p].state
                    /\ s.revision = procs[p].revision
                    /\ s.now = procs[p].now
                    /\ s.reservation = procs[p].reservation
                    /\ s.bytes = procs[p].bytes
                    /\ s.refused = refused
        BY <2>1, ThrewMoves, Zenon
    <2> QED
        BY <2>2
<1> HAVE refused = TRUE
<1>2. ChargedIn(s, charges) <=> ChargedIn(procs[p], charges)
    BY <1>1 DEF ChargedIn
<1>3. TellsCharge(s, charges)
    BY <1>1 DEF TellsCharge
<1>4. UnrecordedIn(s, charges) <=> UnrecordedIn(procs[p], charges)
    BY <1>1, <1>2 DEF UnrecordedIn
<1> QED
    BY <1>1, <1>3, <1>4, CountQuiet

\* A process that dies leaves unrecorded what it had yet to record.
LEMMA CountCrash ==
    ASSUME OwnersInv, CountInv, NEW p \in Processes, Crash(p)
    PROVE  CountInv'
<1> DEFINE s == [procs[p] EXCEPT !.pc = "crashed"]
<1>1. /\ Goto(p, "crashed") /\ procs[p].pc # "done"
      /\ UNCHANGED <<callReservations, handles, charges, events>>
    BY DEF Crash, Ended, sqlVars, tables
<1>2. Moves(p, s)
    BY <1>1, GotoMoves DEF OwnersInv
<1>3. /\ s.pc = "crashed" /\ s.reservation = procs[p].reservation
      /\ s.refused = procs[p].refused
    BY DEF OwnersInv, Locals, IsLocal
<1> HIDE DEF s
<1>4. ChargedIn(s, charges) <=> ChargedIn(procs[p], charges)
    BY <1>3 DEF ChargedIn
<1>5. TellsCharge(s, charges)
    BY <1>3 DEF CountInv, TellsCharge
<1>6. UnrecordedIn(s, charges) <=> UnrecordedIn(procs[p], charges)
    BY <1>1, <1>3, <1>4 DEF UnrecordedIn, CountInv, TellsCharge
<1> QED
    BY <1>1, <1>2, <1>3, <1>5, <1>6, CountQuiet

LEMMA CountStep ==
    ASSUME LogInv, TablesInv, OwnersInv, CountInv, [Next]_vars
    PROVE  CountInv'
<1>0. Locals
    BY DEF OwnersInv
<1>1. ASSUME UNCHANGED <<callReservations, handles, charges, events, procs>>
      PROVE  CountInv'
    BY <1>1 DEF CountInv, TellsCharge, ChargedIn, ChargesSettled, Counted,
                Called, Unrecorded, UnrecordedIn
<1>2. CASE UNCHANGED vars
    BY <1>1, <1>2 DEF vars, sqlVars, tables, auditVars
<1>3. ASSUME NEW g \in GrantIds, NEW q \in Requests, IssueGrant(g, q)
      PROVE  CountInv'
    BY <1>1, <1>3 DEF IssueGrant, Issue, auditVars
<1>4. CASE TimePasses
    BY <1>1, <1>4 DEF TimePasses, Tick, tables, auditVars
<1>5. ASSUME NEW p \in Processes, NEW g \in GrantIds, NEW pc, NEW state,
             Presents(p, g, pc, state), procs[p].pc = "idle",
             pc \in {"reserve", "transition"},
             UNCHANGED <<sqlVars, auditVars>>
      PROVE  CountInv'
    <2>1. PICK s : /\ Moves(p, s) /\ s.pc = pc
                   /\ s.reservation = procs[p].reservation
                   /\ s.code = procs[p].code
                   /\ s.refused = procs[p].refused
        BY <1>0, <1>5, PresentsMoves
    <2>2. ~ChargedIn(procs[p], charges) /\ ~ChargedIn(s, charges)
        BY <1>5, <2>1, NotCharged DEF ChargedIn
    <2>3. TellsCharge(procs[p], charges)
        BY DEF CountInv
    <2>4. TellsCharge(s, charges)
        BY <1>5, <2>1, <2>2, <2>3 DEF TellsCharge
    <2>5. UNCHANGED <<callReservations, handles, charges, events>>
        BY <1>5 DEF sqlVars, tables, auditVars
    <2> QED
        BY <2>1, <2>2, <2>4, <2>5, CountQuiet DEF UnrecordedIn
<1>6. ASSUME NEW p \in Processes, NEW g \in GrantIds,
             \/ BeginCall(p, g)
             \/ DenyCall(p, g)
             \/ \E state \in {"revoked", "consumed", "expired"} :
                   BeginTransition(p, g, state)
      PROVE  CountInv'
    <2>1. procs[p].pc = "idle" /\ UNCHANGED <<sqlVars, auditVars>>
        BY <1>6 DEF BeginCall, DenyCall, BeginTransition
    <2>2. CASE DenyCall(p, g)
        <3>1. GotoRecording(p, "audit", {"GRANT_DENIED"})
            BY <2>2 DEF DenyCall
        <3>2. UNCHANGED <<callReservations, handles, charges, events>>
            BY <2>1 DEF sqlVars, tables, auditVars
        <3> QED
            BY <1>0, <2>1, <3>1, <3>2, CountRecording
    <2>3. CASE BeginCall(p, g)
        BY <1>5, <2>1, <2>3 DEF BeginCall
    <2>4. ASSUME NEW state, BeginTransition(p, g, state)
          PROVE  CountInv'
        BY <1>5, <2>1, <2>4 DEF BeginTransition
    <2> QED
        BY <1>6, <2>2, <2>3, <2>4
<1>7. ASSUME NEW p \in Processes, NEW bytes \in 0..MaxAnswer,
             ProviderAnswers(p, bytes)
      PROVE  CountInv'
    <2>1. procs[p].pc = "call"
          /\ UNCHANGED <<callReservations, handles, charges, events>>
        BY <1>7 DEF ProviderAnswers, sqlVars, tables, auditVars
    <2>2. CASE GotoRecording(p, "release", {"AUTHORIZATION_CHANGED"})
        BY <1>0, <2>1, <2>2, CountRecording DEF Flying
    <2>3. CASE Answers(p, bytes)
        <3>1. PICK s : /\ Moves(p, s) /\ s.pc = "commit"
                       /\ s.reservation = procs[p].reservation
                       /\ s.code = procs[p].code
                       /\ s.refused = procs[p].refused
            BY <1>0, <2>3, AnswerMoves DEF Answered
        <3>2. ~ChargedIn(procs[p], charges) /\ ~ChargedIn(s, charges)
            BY <2>1, <3>1, NotCharged DEF ChargedIn, Flying
        <3>3. TellsCharge(procs[p], charges)
            BY DEF CountInv
        <3>4. TellsCharge(s, charges)
            BY <2>1, <3>1, <3>2, <3>3 DEF TellsCharge
        <3> QED
            BY <2>1, <3>1, <3>2, <3>4, CountQuiet DEF UnrecordedIn
    <2> QED
        BY <1>7, <2>2, <2>3 DEF ProviderAnswers, Answers
<1>8. ASSUME NEW p \in Processes, ReserveRefused(p) \/ Transit(p)
      PROVE  CountInv'
    <2>1. /\ procs[p].pc \in {"reserve", "transition"} /\ Goto(p, "done")
          /\ UNCHANGED <<callReservations, handles, charges, events>>
        BY <1>8 DEF ReserveRefused, Transit, Transition, sqlVars, tables,
                    auditVars
    <2> QED
        BY <1>0, <2>1, CountGoto
<1>9. ASSUME NEW p \in Processes, Release(p)
      PROVE  CountInv'
    <2> DEFINE pc == IF procs[p].code = {} THEN "done" ELSE "audit"
    <2>1. /\ procs[p].pc = "release" /\ Goto(p, pc)
          /\ UNCHANGED <<handles, charges, events>>
          /\ callReservations' \subseteq callReservations
        BY <1>9 DEF Release, ReleaseCall, DeleteRow, auditVars
    <2>2. pc \in {"done", "audit"}
        OBVIOUS
    <2> HIDE DEF pc
    <2> QED
        BY <1>0, <2>1, <2>2, CountGoto DEF Flying
<1>10. ASSUME NEW p \in Processes, ProviderFails(p) \/ CommitRefused(p)
       PROVE  CountInv'
    <2>1. /\ procs[p].pc \in {"call", "commit"}
          /\ UNCHANGED <<callReservations, handles, charges, events>>
          /\ \/ GotoRecording(p, "release", {"PROVIDER_FAILED"})
             \/ GotoRecording(p, "release", {})
        BY <1>10 DEF ProviderFails, CommitRefused, sqlVars, tables, auditVars
    <2> QED
        BY <1>0, <2>1, CountRecording DEF Flying
<1>11. ASSUME NEW p \in Processes, AuditBegins(p)
       PROVE  CountInv'
    <2> DEFINE s == [procs[p] EXCEPT !.pc = "auditing"]
    <2>1. /\ procs[p].pc = "audit" /\ Goto(p, "auditing")
          /\ UNCHANGED <<callReservations, handles, charges, events>>
        BY <1>11 DEF AuditBegins, BeginImmediate, sqlVars, tables
    <2>2. Moves(p, s)
        BY <1>0, <2>1, GotoMoves
    <2>3. /\ s.pc = "auditing" /\ s.reservation = procs[p].reservation
          /\ s.code = procs[p].code /\ s.refused = procs[p].refused
        BY <1>0 DEF Locals, IsLocal
    <2> HIDE DEF s
    <2>4. ChargedIn(s, charges) <=> ChargedIn(procs[p], charges)
        BY <2>3 DEF ChargedIn
    <2>5. TellsCharge(procs[p], charges)
        BY DEF CountInv
    <2>6. TellsCharge(s, charges)
        BY <2>1, <2>3, <2>4, <2>5 DEF TellsCharge
    <2>7. UnrecordedIn(s, charges) <=> UnrecordedIn(procs[p], charges)
        BY <2>1, <2>3, <2>4 DEF UnrecordedIn
    <2> QED
        BY <2>1, <2>2, <2>3, <2>6, <2>7, CountQuiet
<1>12. ASSUME NEW p \in Processes, Busy(p)
       PROVE  CountInv'
    <2>1. UNCHANGED <<callReservations, handles, charges, events>>
        BY <1>12 DEF Busy, sqlVars, tables, auditVars
    <2>2. CASE /\ procs[p].pc \in {"reserve", "transition"}
               /\ Goto(p, "done")
        BY <1>0, <2>1, <2>2, CountGoto
    <2>3. CASE /\ procs[p].pc = "commit"
               /\ GotoRecording(p, "release", {"PROVIDER_FAILED"})
        BY <1>0, <2>1, <2>3, CountRecording DEF Flying
    <2>4. CASE procs[p].pc = "release" /\ Goto(p, "stranded")
        BY <1>0, <2>1, <2>4, CountGoto DEF Flying
    <2>5. CASE procs[p].pc = "audit" /\ AuditThrew(p, TRUE)
        BY <2>1, <2>5, CountRefused
    <2> QED
        BY <1>12, <2>2, <2>3, <2>4, <2>5 DEF Busy
<1>13. CASE Next
    BY <1>3, <1>4, <1>6, <1>7, <1>8, <1>9, <1>10, <1>11, <1>12, <1>13,
       CountReserve, CountCommit, CountAppend, CountCrash DEF Next
<1> QED
    BY <1>2, <1>13

LEMMA CountInit ==
    ASSUME Init
    PROVE  CountInv
<1>1. charges = {} /\ events = {}
    BY DEF Init, SqlInit, AuditInit
<1>2. \A p \in Processes : procs[p] = Idle
    BY DEF Init
<1>3. Unrecorded = {} /\ Called = {}
    BY <1>1 DEF Unrecorded, UnrecordedIn, ChargedIn, Called
<1>4. Counted
    BY <1>1, <1>3, FS_EmptySet DEF Counted
<1>5. ASSUME NEW p \in Processes
      PROVE  TellsCharge(procs[p], charges)
    <2>1. /\ procs[p].pc = "idle" /\ procs[p].code = {}
          /\ procs[p].refused = FALSE
        BY <1>2 DEF Idle
    <2>2. ~ChargedIn(procs[p], charges)
        BY <1>1 DEF ChargedIn
    <2> QED
        BY <2>1, <2>2 DEF TellsCharge
<1>6. ChargesSettled
    BY <1>1 DEF ChargesSettled
<1> QED
    BY <1>4, <1>5, <1>6 DEF CountInv

(***************************************************************************)
(* ChargesAudited, for any number of processes (gateway.ts, the commit and *)
(* the append that follows it): at any interleaving, and wherever the      *)
(* processes die or are refused a lock, the audit has no more TOOL_CALLED  *)
(* events than there are charges, and lacks only those of processes that   *)
(* have yet to append theirs, died first or were refused.                  *)
(***************************************************************************)
THEOREM ChargesAreAudited == Spec => []ChargesAudited
<1>1. Init => LogInv /\ TablesInv /\ OwnersInv /\ CountInv
    BY LogInit, GatewayInit, CountInit
<1>2. LogInv /\ TablesInv /\ OwnersInv /\ CountInv /\ [Next]_vars
         => (LogInv /\ TablesInv /\ OwnersInv /\ CountInv)'
    BY LogStep, GatewayStep, CountStep
<1>3. LogInv /\ CountInv => ChargesAudited
    <2> SUFFICES ASSUME LogInv, CountInv
                 PROVE  ChargesAudited
        OBVIOUS
    <2>1. IsFiniteSet(Called) /\ IsFiniteSet(Unrecorded)
        <3>1. IsFiniteSet(events)
            BY DEF LogInv, Chain
        <3> QED
            BY <3>1, FS_Subset DEF Called, CountInv, Counted
    <2>2. /\ Cardinality(Called) \in Nat /\ Cardinality(Unrecorded) \in Nat
          /\ Cardinality(charges) = Cardinality(Called)
                                      + Cardinality(Unrecorded)
        BY <2>1, FS_CardinalityType DEF CountInv, Counted
    <2> QED
        BY <2>2 DEF ChargesAudited, Called, Unrecorded, UnrecordedIn,
                    ChargedIn
<1> QED
    BY <1>1, <1>2, <1>3, PTL DEF Spec
=============================================================================
