-------------------------- MODULE CommandLineProofs --------------------------
(***************************************************************************)
(* Proofs about CommandLine, for any number of processes, commands,        *)
(* directories and edits: that the lock file is whole, and that lock check *)
(* tells the truth of a workspace at rest.                                 *)
(***************************************************************************)
EXTENDS CommandLine, TLAPS

-----------------------------------------------------------------------------
(***************************************************************************)
(* The states of the processes.                                            *)
(***************************************************************************)

(* A record with the fields of Fresh.                                      *)
IsState(s) ==
  s = [pc |-> s.pc, command |-> s.command, number |-> s.number,
       todo |-> s.todo, read |-> s.read, records |-> s.records,
       lock |-> s.lock, inode |-> s.inode, exit |-> s.exit, quiet |-> s.quiet]

States ==
  /\ process = [p \in Processes |-> process[p]]
  /\ \A p \in Processes : IsState(process[p])

(* Process p moves to the state s, alone.                                  *)
Moves(p, s) ==
  /\ process' = [q \in Processes |-> process'[q]]
  /\ process'[p] = s
  /\ \A q \in Processes \ {p} : process'[q] = process[q]

(* What a state says of the files it writes.                               *)
SameWriter(s, t) == s.command = t.command /\ s.number = t.number /\ s.inode = t.inode

(* What it says of the workspace it reads.                                 *)
SameReads(s, t) ==
  /\ s.command = t.command /\ s.todo = t.todo /\ s.read = t.read
  /\ s.records = t.records /\ s.quiet = t.quiet

LEMMA OneMoves ==
  ASSUME States, NEW p \in Processes, NEW s, IsState(s),
         process' = [process EXCEPT ![p] = s]
  PROVE  Moves(p, s) /\ States'
  BY DEF States, Moves

(* A step that sets the program counter sets no other field.               *)
LEMMA SetPc ==
  ASSUME NEW t, IsState(t), NEW pc, NEW s, s = [t EXCEPT !.pc = pc]
  PROVE  /\ IsState(s) /\ SameWriter(s, t) /\ SameReads(s, t)
         /\ s.pc = pc /\ s.lock = t.lock /\ s.exit = t.exit
  BY DEF IsState, SameWriter, SameReads

LEMMA SetExit ==
  ASSUME NEW t, IsState(t), NEW code, NEW s, s = [t EXCEPT !.exit = code]
  PROVE  /\ IsState(s) /\ SameWriter(s, t) /\ SameReads(s, t)
         /\ s.pc = t.pc /\ s.lock = t.lock /\ s.exit = code
  BY DEF IsState, SameWriter, SameReads

LEMMA SetLock ==
  ASSUME NEW t, IsState(t), NEW lock, NEW s, s = [t EXCEPT !.lock = lock]
  PROVE  /\ IsState(s) /\ SameWriter(s, t) /\ SameReads(s, t)
         /\ s.pc = t.pc /\ s.lock = lock /\ s.exit = t.exit
  BY DEF IsState, SameWriter, SameReads

LEMMA SetInode ==
  ASSUME NEW t, IsState(t), NEW inode, NEW s, s = [t EXCEPT !.inode = inode]
  PROVE  /\ IsState(s) /\ SameReads(s, t)
         /\ s.command = t.command /\ s.number = t.number /\ s.inode = inode
         /\ s.pc = t.pc /\ s.lock = t.lock /\ s.exit = t.exit
  BY DEF IsState, SameReads

LEMMA SetTodo ==
  ASSUME NEW t, IsState(t), NEW todo, NEW s, s = [t EXCEPT !.todo = todo]
  PROVE  /\ IsState(s) /\ SameWriter(s, t)
         /\ s.todo = todo /\ s.read = t.read
         /\ s.records = t.records /\ s.quiet = t.quiet
         /\ s.pc = t.pc /\ s.lock = t.lock /\ s.exit = t.exit
  BY DEF IsState, SameWriter

LEMMA SetRead ==
  ASSUME NEW t, IsState(t), NEW read, NEW s, s = [t EXCEPT !.read = read]
  PROVE  /\ IsState(s) /\ SameWriter(s, t)
         /\ s.todo = t.todo /\ s.read = read
         /\ s.records = t.records /\ s.quiet = t.quiet
         /\ s.pc = t.pc /\ s.lock = t.lock /\ s.exit = t.exit
  BY DEF IsState, SameWriter

LEMMA SetRecords ==
  ASSUME NEW t, IsState(t), NEW records, NEW s, s = [t EXCEPT !.records = records]
  PROVE  /\ IsState(s) /\ SameWriter(s, t)
         /\ s.todo = t.todo /\ s.read = t.read
         /\ s.records = records /\ s.quiet = t.quiet
         /\ s.pc = t.pc /\ s.lock = t.lock /\ s.exit = t.exit
  BY DEF IsState, SameWriter

LEMMA SetQuiet ==
  ASSUME NEW t, IsState(t), NEW quiet, NEW s, s = [t EXCEPT !.quiet = quiet]
  PROVE  /\ IsState(s) /\ SameWriter(s, t)
         /\ s.todo = t.todo /\ s.read = t.read
         /\ s.records = t.records /\ s.quiet = quiet
         /\ s.pc = t.pc /\ s.lock = t.lock /\ s.exit = t.exit
  BY DEF IsState, SameWriter

(* The steps, in terms of these fields.                                    *)
LEMMA PcMoves ==
  ASSUME States, NEW p \in Processes, NEW pc,
         process' = [process EXCEPT ![p].pc = pc]
  PROVE  /\ States'
         /\ \E s : /\ Moves(p, s)
                   /\ SameWriter(s, process[p]) /\ SameReads(s, process[p])
                   /\ s.pc = pc /\ s.lock = process[p].lock
                   /\ s.exit = process[p].exit
<1> DEFINE s == [process[p] EXCEPT !.pc = pc]
<1>1. process' = [process EXCEPT ![p] = s]
  OBVIOUS
<1>2. IsState(process[p])
  BY DEF States
<1> HIDE DEF s
<1>3. /\ IsState(s) /\ SameWriter(s, process[p]) /\ SameReads(s, process[p])
      /\ s.pc = pc /\ s.lock = process[p].lock /\ s.exit = process[p].exit
  BY <1>2, SetPc DEF s
<1> QED
  BY <1>1, <1>3, OneMoves

LEMMA ExitMoves ==
  ASSUME States, NEW p \in Processes, NEW code, Exit(p, code)
  PROVE  /\ States'
         /\ \E s : /\ Moves(p, s)
                   /\ SameWriter(s, process[p]) /\ SameReads(s, process[p])
                   /\ s.pc = "done" /\ s.lock = process[p].lock /\ s.exit = code
<1> DEFINE t == [process[p] EXCEPT !.pc = "done"]
           s == [t EXCEPT !.exit = code]
<1>1. process' = [process EXCEPT ![p] = s]
  BY DEF Exit, States
<1>2. IsState(process[p])
  BY DEF States
<1> HIDE DEF s, t
<1>3. /\ IsState(t) /\ SameWriter(t, process[p]) /\ SameReads(t, process[p])
      /\ t.pc = "done" /\ t.lock = process[p].lock
  <2>1. t = [process[p] EXCEPT !.pc = "done"]
    BY DEF t
  <2> QED
    BY <1>2, <2>1, SetPc
<1>4. /\ IsState(s) /\ SameWriter(s, t) /\ SameReads(s, t)
      /\ s.pc = t.pc /\ s.lock = t.lock /\ s.exit = code
  BY <1>3, SetExit DEF s
<1>5. SameWriter(s, process[p]) /\ SameReads(s, process[p])
  BY <1>3, <1>4 DEF SameWriter, SameReads
<1> QED
  BY <1>1, <1>3, <1>4, <1>5, OneMoves

LEMMA LookMoves ==
  ASSUME States, NEW p \in Processes, NEW lock,
         process' = [process EXCEPT ![p].pc = "read", ![p].lock = lock]
  PROVE  /\ States'
         /\ \E s : /\ Moves(p, s)
                   /\ SameWriter(s, process[p]) /\ SameReads(s, process[p])
                   /\ s.pc = "read" /\ s.lock = lock
<1> DEFINE t == [process[p] EXCEPT !.pc = "read"]
           s == [t EXCEPT !.lock = lock]
<1>1. process' = [process EXCEPT ![p] = s]
  BY DEF States
<1>2. IsState(process[p])
  BY DEF States
<1> HIDE DEF s, t
<1>3. /\ IsState(t) /\ SameWriter(t, process[p]) /\ SameReads(t, process[p])
      /\ t.pc = "read"
  <2>1. t = [process[p] EXCEPT !.pc = "read"]
    BY DEF t
  <2> QED
    BY <1>2, <2>1, SetPc
<1>4. /\ IsState(s) /\ SameWriter(s, t) /\ SameReads(s, t)
      /\ s.pc = t.pc /\ s.lock = lock
  BY <1>3, SetLock DEF s
<1>5. SameWriter(s, process[p]) /\ SameReads(s, process[p])
  BY <1>3, <1>4 DEF SameWriter, SameReads
<1> QED
  BY <1>1, <1>3, <1>4, <1>5, OneMoves

(* p opens the file inode for what it is going to write.                   *)
Opens(p, inode) ==
  \E s : /\ Moves(p, s)
         /\ SameReads(s, process[p])
         /\ s.number = process[p].number /\ s.inode = inode
         /\ s.pc = "fill" /\ s.lock = process[p].lock

LEMMA OpenMoves ==
  ASSUME States, NEW p \in Processes, NEW inode,
         process' = [process EXCEPT ![p].pc = "fill", ![p].inode = inode]
  PROVE  States' /\ Opens(p, inode)
<1> DEFINE t == [process[p] EXCEPT !.pc = "fill"]
           s == [t EXCEPT !.inode = inode]
<1>1. process' = [process EXCEPT ![p] = s]
  BY DEF States
<1>2. IsState(process[p])
  BY DEF States
<1> HIDE DEF s, t
<1>3. /\ IsState(t) /\ SameWriter(t, process[p]) /\ SameReads(t, process[p])
      /\ t.pc = "fill" /\ t.lock = process[p].lock
  <2>1. t = [process[p] EXCEPT !.pc = "fill"]
    BY DEF t
  <2> QED
    BY <1>2, <2>1, SetPc
<1>4. /\ IsState(s) /\ SameReads(s, t)
      /\ s.command = t.command /\ s.number = t.number /\ s.inode = inode
      /\ s.pc = t.pc /\ s.lock = t.lock
  BY <1>3, SetInode DEF s
<1>5. SameReads(s, process[p]) /\ s.number = process[p].number
  BY <1>3, <1>4 DEF SameWriter, SameReads
<1>6. States' /\ Moves(p, s)
  BY <1>1, <1>4, OneMoves
<1> QED
  BY <1>3, <1>4, <1>5, <1>6 DEF Opens

TakesInput(p, todo, read) ==
  process' = [process EXCEPT ![p].todo = todo, ![p].read = read]

TakesManifest(p, todo, records) ==
  process' = [process EXCEPT ![p].todo = todo, ![p].records = records]

LEMMA InputMoves ==
  ASSUME States, NEW p \in Processes, NEW todo, NEW read,
         TakesInput(p, todo, read)
  PROVE  /\ States'
         /\ \E s : /\ Moves(p, s) /\ SameWriter(s, process[p])
                   /\ s.todo = todo /\ s.read = read
                   /\ s.records = process[p].records /\ s.quiet = process[p].quiet
                   /\ s.pc = process[p].pc /\ s.lock = process[p].lock
<1> DEFINE t == [process[p] EXCEPT !.todo = todo]
           s == [t EXCEPT !.read = read]
<1>1. process' = [process EXCEPT ![p] = s]
  BY DEF States, TakesInput
<1>2. IsState(process[p])
  BY DEF States
<1> HIDE DEF s, t
<1>3. /\ IsState(t) /\ SameWriter(t, process[p])
      /\ t.todo = todo /\ t.records = process[p].records
      /\ t.quiet = process[p].quiet
      /\ t.pc = process[p].pc /\ t.lock = process[p].lock
  BY <1>2, SetTodo DEF t
<1>4. /\ IsState(s) /\ SameWriter(s, t)
      /\ s.todo = t.todo /\ s.read = read /\ s.records = t.records
      /\ s.quiet = t.quiet /\ s.pc = t.pc /\ s.lock = t.lock
  BY <1>3, SetRead DEF s
<1>5. SameWriter(s, process[p])
  BY <1>3, <1>4 DEF SameWriter
<1> QED
  BY <1>1, <1>3, <1>4, <1>5, OneMoves

LEMMA ManifestMoves ==
  ASSUME States, NEW p \in Processes, NEW todo, NEW records,
         TakesManifest(p, todo, records)
  PROVE  /\ States'
         /\ \E s : /\ Moves(p, s) /\ SameWriter(s, process[p])
                   /\ s.todo = todo /\ s.read = process[p].read
                   /\ s.records = records /\ s.quiet = process[p].quiet
                   /\ s.pc = process[p].pc /\ s.lock = process[p].lock
<1> DEFINE t == [process[p] EXCEPT !.todo = todo]
           s == [t EXCEPT !.records = records]
<1>1. process' = [process EXCEPT ![p] = s]
  BY DEF States, TakesManifest
<1>2. IsState(process[p])
  BY DEF States
<1> HIDE DEF s, t
<1>3. /\ IsState(t) /\ SameWriter(t, process[p])
      /\ t.todo = todo /\ t.read = process[p].read
      /\ t.quiet = process[p].quiet
      /\ t.pc = process[p].pc /\ t.lock = process[p].lock
  BY <1>2, SetTodo DEF t
<1>4. /\ IsState(s) /\ SameWriter(s, t)
      /\ s.todo = t.todo /\ s.records = records /\ s.read = t.read
      /\ s.quiet = t.quiet /\ s.pc = t.pc /\ s.lock = t.lock
  BY <1>3, SetRecords DEF s
<1>5. SameWriter(s, process[p])
  BY <1>3, <1>4 DEF SameWriter
<1> QED
  BY <1>1, <1>3, <1>4, <1>5, OneMoves

LEMMA DieMoves ==
  ASSUME States, NEW p \in Processes, process' = [process EXCEPT ![p] = Fresh]
  PROVE  States' /\ Moves(p, Fresh)
<1>1. IsState(Fresh)
  BY DEF IsState, Fresh
<1> QED
  BY <1>1, OneMoves

LEMMA StartMoves ==
  ASSUME States, NEW p \in Processes, NEW c, Start(p, c)
  PROVE  /\ States'
         /\ \E s : /\ Moves(p, s)
                   /\ s.pc = IF IsLockCommand(c) THEN "look" ELSE "read"
                   /\ s.command = c /\ s.number = started + 1
                   /\ s.todo = ReadsOf(c) /\ s.read = <<>> /\ s.records = <<>>
                   /\ s.lock = Empty /\ s.inode = 0 /\ s.quiet = TRUE
<1> DEFINE pc == IF IsLockCommand(c) THEN "look" ELSE "read"
           todo == ReadsOf(c)
           s1 == [Fresh EXCEPT !.command = c]
           s2 == [s1 EXCEPT !.number = started + 1]
           s3 == [s2 EXCEPT !.todo = todo]
           s == [s3 EXCEPT !.pc = pc]
<1>1. process' = [process EXCEPT ![p] = s]
  BY DEF Start
<1> HIDE DEF pc, todo
<1>2. /\ IsState(Fresh) /\ Fresh.read = <<>> /\ Fresh.records = <<>>
      /\ Fresh.lock = Empty /\ Fresh.inode = 0 /\ Fresh.quiet = TRUE
  BY DEF IsState, Fresh
<1>3. /\ IsState(s) /\ s.pc = pc /\ s.command = c /\ s.number = started + 1
      /\ s.todo = todo /\ s.read = <<>> /\ s.records = <<>>
      /\ s.lock = Empty /\ s.inode = 0 /\ s.quiet = TRUE
  <2> DEFINE Rest(t) == /\ t.read = <<>> /\ t.records = <<>> /\ t.lock = Empty
                        /\ t.inode = 0 /\ t.quiet = TRUE
  <2>1. IsState(s1) /\ s1.command = c /\ Rest(s1)
    BY <1>2 DEF IsState
  <2> HIDE DEF s1
  <2>2. IsState(s2) /\ s2.command = c /\ s2.number = started + 1 /\ Rest(s2)
    BY <2>1 DEF IsState
  <2> HIDE DEF s2
  <2>3. IsState(s3) /\ s3.command = c /\ s3.number = started + 1
        /\ s3.todo = todo /\ Rest(s3)
    BY <2>2 DEF IsState
  <2> HIDE DEF s3
  <2>4. IsState(s) /\ s.pc = pc /\ s.command = c /\ s.number = started + 1
        /\ s.todo = todo /\ Rest(s)
    BY <2>3 DEF IsState
  <2> QED
    BY <2>4
<1> HIDE DEF s
<1>4. Moves(p, s) /\ States'
  BY <1>1, <1>3, OneMoves
<1> QED
  BY <1>3, <1>4 DEF pc, todo

LEMMA DisturbMoves ==
  ASSUME States, Disturb
  PROVE  /\ States'
         /\ \A p \in Processes :
              /\ SameWriter(process'[p], process[p])
              /\ process'[p].todo = process[p].todo
              /\ process'[p].read = process[p].read
              /\ process'[p].records = process[p].records
              /\ process'[p].quiet = FALSE
              /\ process'[p].pc = process[p].pc
              /\ process'[p].lock = process[p].lock
              /\ process'[p].exit = process[p].exit
<1>1. ASSUME NEW p \in Processes
      PROVE  /\ IsState(process'[p])
             /\ SameWriter(process'[p], process[p])
             /\ process'[p].todo = process[p].todo
             /\ process'[p].read = process[p].read
             /\ process'[p].records = process[p].records
             /\ process'[p].quiet = FALSE
             /\ process'[p].pc = process[p].pc
             /\ process'[p].lock = process[p].lock
             /\ process'[p].exit = process[p].exit
  <2>1. process'[p] = [process[p] EXCEPT !.quiet = FALSE] /\ IsState(process[p])
    BY DEF Disturb, States
  <2> QED
    BY <2>1, SetQuiet
<1>2. process' = [p \in Processes |-> process'[p]]
  BY DEF Disturb
<1> QED
  BY <1>1, <1>2 DEF States

-----------------------------------------------------------------------------
(***************************************************************************)
(* What is written to the lock file.                                       *)
(***************************************************************************)

(* The connectors that the entries of a catalog snapshot describe.         *)
ConnectorsIn(entries) ==
  {[id |-> e.digest.id, connectorVersion |-> e.digest.version,
    integrations |-> e.digest.integrations] : e \in entries}

(* A lock that lock create made: whole, and its connectors are of the      *)
(* catalog it binds.                                                       *)
GoodLock(lock) ==
  /\ ValidLock(lock)
  /\ lock \notin {Empty, Mixed}
  /\ lock.bound = [b \in Bound |-> lock.bound[b]]
  /\ lock.connectors \subseteq ConnectorsIn(lock.bound["catalog"])

LEMMA SelectedOfCatalog ==
  ASSUME NEW records
  PROVE  Selected(records) = ConnectorsIn(SnapshotEntries(records))
<1> DEFINE Named(m) == [id |-> m.id, connectorVersion |-> m.version,
                        integrations |-> m.integrations]
           E == SnapshotEntries(records)
<1>1. \A m \in Manifests(records) : SnapshotEntry(m) \in E /\ SnapshotEntry(m).digest = m
  BY DEF SnapshotEntries, SnapshotEntry
<1>2. \A e \in E : \E m \in Manifests(records) : e.digest = m
  BY DEF SnapshotEntries, SnapshotEntry
<1>3. Selected(records) = {Named(m) : m \in Manifests(records)}
  BY DEF Selected
<1>4. ConnectorsIn(E) = {Named(e.digest) : e \in E}
  BY DEF ConnectorsIn
<1>5. ASSUME NEW m \in Manifests(records)
      PROVE  Named(m) \in ConnectorsIn(E)
  <2> DEFINE e == SnapshotEntry(m)
  <2>1. e \in E /\ e.digest = m
    BY <1>1
  <2> HIDE DEF E, Named, e
  <2> QED
    BY <1>4, <2>1
<1>6. ASSUME NEW e \in E
      PROVE  Named(e.digest) \in Selected(records)
  <2>1. PICK m \in Manifests(records) : e.digest = m
    BY <1>2
  <2> HIDE DEF E, Named
  <2> QED
    BY <1>3, <2>1
<1>7. Selected(records) \subseteq ConnectorsIn(E)
  <2> HIDE DEF E, Named
  <2> QED
    BY <1>3, <1>5
<1>8. ConnectorsIn(E) \subseteq Selected(records)
  <2> HIDE DEF E, Named
  <2> QED
    BY <1>4, <1>6
<1> QED
  BY <1>7, <1>8

LEMMA CreatedLockIsGood ==
  ASSUME NEW s, s.command.name = "lock create"
  PROVE  GoodLock(Written(s))
<1> DEFINE bound == CurrentInputs(s.read, s.records)
           connectors == IF s.command.connectors THEN Selected(s.records) ELSE {}
           generatedAt == s.number
           lock == [bound |-> bound, connectors |-> connectors]
           l == Written(s)
<1>1. l = [bound |-> bound, connectors |-> connectors,
           generatedAt |-> generatedAt, digest |-> LockDigest(lock)]
  BY DEF Written, CreateLock
<1>2. LockDigest(lock) = [bound |-> bound, connectors |-> connectors]
  BY DEF LockDigest
<1>3. bound = [b \in Bound |-> bound[b]] /\ bound["catalog"] = SnapshotEntries(s.records)
  BY DEF CurrentInputs, Bound
<1>4. connectors \subseteq ConnectorsIn(bound["catalog"])
  BY <1>3, SelectedOfCatalog
<1> HIDE DEF bound, connectors, generatedAt, lock, l
<1>5. ValidLock(l)
  BY <1>1, <1>2 DEF ValidLock, LockDigest
<1>6. "digest" \notin DOMAIN Empty /\ "digest" \notin DOMAIN Mixed
  BY DEF Empty, Mixed
<1>7. "digest" \in DOMAIN l
  BY <1>1
<1>8. l \notin {Empty, Mixed}
  BY <1>6, <1>7, Zenon
<1>9. l.bound = bound /\ l.connectors = connectors
  BY <1>1
<1> QED
  BY <1>3, <1>4, <1>5, <1>8, <1>9 DEF GoodLock, l

-----------------------------------------------------------------------------
(***************************************************************************)
(* The files and who writes them.                                          *)
(***************************************************************************)
LockTemp(n) == <<"lock.tmp", n>>
PlanTemp == <<"plan.tmp", 0>>

LEMMA FileNames ==
  /\ LockOutput # PlanOutput /\ LockOutput # PlanTemp /\ PlanOutput # PlanTemp
  /\ \A n : LockTemp(n) \notin {LockOutput, PlanOutput, PlanTemp}
  /\ \A m, n : LockTemp(m) = LockTemp(n) => m = n
  BY DEF LockTemp, LockOutput, PlanOutput, PlanTemp

LEMMA NamesOfCommand ==
  ASSUME NEW c, NEW n
  PROVE  /\ c.name = "lock create" =>
              Output(c) = LockOutput /\ TempOf(c, n) = LockTemp(n)
         /\ c.name # "lock create" =>
              Output(c) = PlanOutput /\ TempOf(c, n) = PlanTemp
  BY DEF Output, TempOf, LockTemp, PlanTemp

Reading(p) == process[p].pc \in {"look", "read"}
Writing(p) == process[p].pc \in {"fill", "rename"}
WritesLock(p) == Writing(p) /\ process[p].command.name = "lock create"
WritesPlan(p) == Writing(p) /\ process[p].command.name # "lock create"

(* Commands that run have numbers of their own.                            *)
Numbers ==
  /\ started \in Nat /\ started <= MaxCommands
  /\ \A p \in Processes :
       /\ process[p].number \in 0..started
       /\ Reading(p) \/ Writing(p) => process[p].number # 0
  /\ \A p, q \in Processes :
       /\ Reading(p) \/ Writing(p)
       /\ Reading(q) \/ Writing(q)
       /\ process[p].number = process[q].number
       => p = q

(* No two names are of one inode, and the temporary file of a lock is the  *)
(* inode of its command.                                                   *)
Names ==
  /\ \A f \in DOMAIN files : files[f] \in 1..started
  /\ \A f, g \in DOMAIN files : files[f] = files[g] => f = g
  /\ \A n : LockTemp(n) \in DOMAIN files => files[LockTemp(n)] = n

(* The inode a command will make is not there yet.                         *)
Unused ==
  \A p \in Processes : Reading(p) =>
    /\ \A f \in DOMAIN files : files[f] # process[p].number
    /\ \A q \in Processes : Writing(q) => process[q].inode # process[p].number

(* Who writes a lock has a file of its own; who writes a plan may share it *)
(* but with plans alone.                                                   *)
Writers ==
  \A p \in Processes :
    /\ WritesLock(p) => /\ process[p].inode = process[p].number
                        /\ LockTemp(process[p].number) \in DOMAIN files
    /\ WritesPlan(p) => /\ process[p].command.name = "plan create"
                        /\ process[p].inode \in 1..started
                        /\ \A f \in DOMAIN files :
                             files[f] = process[p].inode => f \in {PlanTemp, PlanOutput}

(* What the files of locks hold.                                           *)
Wholes ==
  /\ contents = [i \in Inodes |-> contents[i]]
  /\ \A p \in Processes : WritesLock(p) =>
       /\ process[p].pc = "fill" => contents[process[p].inode] = Empty
       /\ process[p].pc = "rename" => GoodLock(contents[process[p].inode])
  /\ LockOutput \in DOMAIN files => GoodLock(contents[files[LockOutput]])

FilesInv == Numbers /\ Names /\ Unused /\ Writers /\ Wholes

LEMMA InodesMade ==
  ASSUME FilesInv
  PROVE  /\ started \in Nat /\ 1..started \subseteq Inodes
         /\ \A f \in DOMAIN files : files[f] \in Inodes
         /\ \A p \in Processes : WritesLock(p) =>
              /\ process[p].inode = process[p].number
              /\ process[p].inode \in Inodes
              /\ LockTemp(process[p].inode) \in DOMAIN files
              /\ files[LockTemp(process[p].inode)] = process[p].inode
<1>1. started \in Nat /\ 1..started \subseteq Inodes
  BY CommandLineAssumption DEF FilesInv, Numbers, Inodes
<1>2. \A f \in DOMAIN files : files[f] \in Inodes
  BY <1>1 DEF FilesInv, Names
<1>3. \A p \in Processes : WritesLock(p) =>
        /\ process[p].inode = process[p].number
        /\ LockTemp(process[p].inode) \in DOMAIN files
        /\ files[LockTemp(process[p].inode)] = process[p].inode
  BY DEF FilesInv, Writers, Names
<1>4. \A p \in Processes : WritesLock(p) => process[p].inode \in Inodes
  BY <1>2, <1>3
<1> QED
  BY <1>1, <1>2, <1>3, <1>4

(* A process that ends its command, or goes on reading, disturbs nothing.  *)
LEMMA FilesQuiet ==
  ASSUME FilesInv, NEW p \in Processes, NEW s, Moves(p, s),
         UNCHANGED <<files, contents, started>>,
         s.number \in 0..started,
         \/ s.pc \in {"idle", "done"}
         \/ Reading(p) /\ s.pc = "read" /\ s.number = process[p].number
  PROVE  FilesInv'
<1> \A q \in Processes : q # p => process'[q] = process[q]
  BY DEF Moves
<1> process'[p] = s
  BY DEF Moves
<1>1. \A q \in Processes :
        /\ q # p => process'[q] = process[q]
        /\ Writing(q)' => q # p
        /\ Reading(q)' => Reading(q) /\ process'[q].number = process[q].number
        /\ process'[q].number \in 0..started
  <2> TAKE q \in Processes
  <2>1. CASE q = p
    BY <2>1 DEF Reading, Writing
  <2>2. CASE q # p
    BY <2>2 DEF Reading, Writing, FilesInv, Numbers
  <2> QED
    BY <2>1, <2>2
<1>2. Numbers'
  BY <1>1 DEF FilesInv, Numbers, Reading, Writing
<1>3. Names'
  BY DEF FilesInv, Names
<1>4. Unused'
  BY <1>1 DEF FilesInv, Unused, Writing
<1>5. \A q \in Processes :
        /\ WritesLock(q)' => WritesLock(q) /\ process'[q] = process[q]
        /\ WritesPlan(q)' => WritesPlan(q) /\ process'[q] = process[q]
  BY <1>1 DEF WritesLock, WritesPlan, Writing
<1>6. Writers'
  BY <1>5 DEF FilesInv, Writers
<1>7. Wholes'
  BY <1>5 DEF FilesInv, Wholes, Inodes
<1> QED
  BY <1>2, <1>3, <1>4, <1>6, <1>7 DEF FilesInv

(* Nor does what leaves the program counters, commands and numbers alone.  *)
LEMMA FilesSame ==
  ASSUME FilesInv, UNCHANGED <<files, contents, started>>,
         \A p \in Processes : /\ SameWriter(process'[p], process[p])
                              /\ process'[p].pc = process[p].pc
  PROVE  FilesInv'
<1>1. \A q \in Processes :
        /\ Reading(q)' = Reading(q) /\ Writing(q)' = Writing(q)
        /\ WritesLock(q)' = WritesLock(q) /\ WritesPlan(q)' = WritesPlan(q)
  BY DEF Reading, Writing, WritesLock, WritesPlan, SameWriter
<1>2. Numbers'
  BY <1>1 DEF FilesInv, Numbers, SameWriter
<1>3. Names'
  BY DEF FilesInv, Names
<1>4. Unused'
  BY <1>1 DEF FilesInv, Unused, SameWriter
<1>5. Writers'
  BY <1>1 DEF FilesInv, Writers, SameWriter
<1>6. Wholes'
  BY <1>1 DEF FilesInv, Wholes, Inodes, SameWriter
<1> QED
  BY <1>2, <1>3, <1>4, <1>5, <1>6 DEF FilesInv

(* Each step keeps the files in order.                                     *)
LEMMA FilesStart ==
  ASSUME FilesInv, States, NEW p \in Processes, NEW c, Start(p, c)
  PROVE  FilesInv'
<1>1. PICK s : Moves(p, s) /\ s.pc \in {"look", "read"} /\ s.number = started + 1
  BY StartMoves
<1>2. /\ started' = started + 1 /\ started < MaxCommands
      /\ UNCHANGED <<files, contents>>
      /\ ~Reading(p) /\ ~Writing(p)
  BY DEF Start, Reading, Writing
<1>3. \A q \in Processes :
        /\ q # p => process'[q] = process[q]
        /\ q = p => process'[q] = s
  BY <1>1 DEF Moves
<1>4. \A q \in Processes :
        /\ q # p => Reading(q)' = Reading(q)
        /\ Writing(q)' = Writing(q)
        /\ Writing(q) => q # p
  BY <1>1, <1>2, <1>3 DEF Reading, Writing
<1>5. Numbers'
  BY <1>1, <1>2, <1>3, <1>4, CommandLineAssumption DEF FilesInv, Numbers
<1>6. Names'
  BY <1>2 DEF FilesInv, Names, Numbers
<1>7. Unused'
  <2> SUFFICES ASSUME NEW q \in Processes, Reading(q)'
               PROVE  /\ \A f \in DOMAIN files : files[f] # process'[q].number
                      /\ \A r \in Processes : Writing(r) =>
                           process[r].inode # process'[q].number
    BY <1>2, <1>3, <1>4 DEF Unused
  <2>1. CASE q # p
    BY <2>1, <1>3, <1>4 DEF FilesInv, Unused
  <2>2. CASE q = p
    <3>1. \A f \in DOMAIN files : files[f] \in 1..started
      BY DEF FilesInv, Names
    <3>2. ASSUME NEW r \in Processes, Writing(r)
          PROVE  process[r].inode \in 0..started
      <4>1. process[r].number \in 0..started /\ started \in Nat
        BY DEF FilesInv, Numbers
      <4>2. CASE WritesLock(r)
        BY <4>1, <4>2 DEF FilesInv, Writers
      <4>3. CASE WritesPlan(r)
        <5>1. process[r].inode \in 1..started
          BY <4>3 DEF FilesInv, Writers
        <5> QED
          BY <4>1, <5>1
      <4> QED
        BY <3>2, <4>2, <4>3 DEF WritesLock, WritesPlan
    <3>3. process'[q].number = started + 1 /\ started \in Nat
      BY <1>1, <1>3, <2>2 DEF FilesInv, Numbers
    <3> QED
      BY <3>1, <3>2, <3>3
  <2> QED
    BY <2>1, <2>2
<1>8. \A q \in Processes :
        /\ WritesLock(q)' => WritesLock(q) /\ process'[q] = process[q]
        /\ WritesPlan(q)' => WritesPlan(q) /\ process'[q] = process[q]
  BY <1>3, <1>4 DEF WritesLock, WritesPlan
<1>9. Writers'
  <2>1. started \in Nat /\ 1..started \subseteq 1..started'
    BY <1>2 DEF FilesInv, Numbers
  <2> QED
    BY <1>2, <1>8, <2>1 DEF FilesInv, Writers
<1>10. Wholes'
  BY <1>2, <1>8 DEF FilesInv, Wholes, Inodes
<1> QED
  BY <1>5, <1>6, <1>7, <1>9, <1>10 DEF FilesInv

LEMMA FilesOpen ==
  ASSUME FilesInv, States, NEW p \in Processes, OpenTemp(p)
  PROVE  FilesInv'
<1> DEFINE c == process[p].command
           n == process[p].number
           temp == TempOf(c, n)
           inode == IF temp \in DOMAIN files THEN files[temp] ELSE n
<1>1. PICK s : /\ Moves(p, s) /\ s.command = c /\ s.number = n
               /\ s.inode = inode /\ s.pc = "fill"
  <2>1. process' = [process EXCEPT ![p].pc = "fill", ![p].inode = inode]
    BY DEF OpenTemp
  <2> HIDE DEF inode
  <2>2. Opens(p, inode)
    BY <2>1, OpenMoves
  <2> QED
    BY <2>2 DEF Opens, SameReads
<1>2. /\ Reading(p) /\ ~Writing(p)
      /\ c.name \in {"lock create", "plan create"}
      /\ started' = started
      /\ DOMAIN files' = DOMAIN files \cup {temp}
      /\ files'[temp] = inode
      /\ \A f \in DOMAIN files : f # temp => files'[f] = files[f]
      /\ contents' = [contents EXCEPT ![inode] = Empty]
  BY DEF OpenTemp, Reading, Writing, At
<1>3. /\ n \in 1..started
      /\ \A f \in DOMAIN files : files[f] # n
      /\ \A q \in Processes : Writing(q) => process[q].inode # n
  <2>1. started \in Nat /\ n \in 0..started /\ n # 0
    BY <1>2 DEF FilesInv, Numbers
  <2>2. n \in 1..started
    <3> HIDE DEF n
    <3> QED
      BY <2>1
  <2> QED
    BY <1>2, <2>2 DEF FilesInv, Unused
<1>4. \A q \in Processes :
        /\ q # p => process'[q] = process[q]
        /\ q = p => process'[q] = s
        /\ Reading(q)' => Reading(q) /\ q # p
        /\ q # p => Writing(q)' = Writing(q)
        /\ q # p => WritesLock(q)' = WritesLock(q)
        /\ q # p => WritesPlan(q)' = WritesPlan(q)
  BY <1>1 DEF Moves, Reading, Writing, WritesLock, WritesPlan
<1>5. Numbers'
  <2>1. \A q \in Processes : process'[q].number = process[q].number
    BY <1>1, <1>4
  <2>2. \A q \in Processes : Reading(q)' \/ Writing(q)' => Reading(q) \/ Writing(q)
    BY <1>2, <1>4
  <2> QED
    BY <1>2, <2>1, <2>2 DEF FilesInv, Numbers
<1>6. /\ inode \in 1..started
      /\ \A q \in Processes : Reading(q) /\ q # p => process[q].number # inode
  <2>1. CASE temp \in DOMAIN files
    BY <2>1 DEF FilesInv, Names, Unused
  <2>2. CASE temp \notin DOMAIN files
    BY <1>2, <1>3, <2>2 DEF FilesInv, Numbers
  <2> QED
    BY <2>1, <2>2
<1>7. \A f \in DOMAIN files : files[f] = inode => f = temp
  BY <1>3 DEF FilesInv, Names
<1>8. c.name = "lock create" => temp = LockTemp(n) /\ temp \notin DOMAIN files
                                /\ inode = n
  BY <1>3, NamesOfCommand DEF FilesInv, Names
<1>9. c.name # "lock create" => temp = PlanTemp
  BY NamesOfCommand
<1> HIDE DEF temp, inode
<1>10. Names'
  <2>1. \A f \in DOMAIN files' : files'[f] \in 1..started
    BY <1>2, <1>6 DEF FilesInv, Names
  <2>2. \A f, g \in DOMAIN files' : files'[f] = files'[g] => f = g
    BY <1>2, <1>7 DEF FilesInv, Names
  <2>3. \A m : LockTemp(m) \in DOMAIN files' => files'[LockTemp(m)] = m
    BY <1>2, <1>8, <1>9, FileNames DEF FilesInv, Names
  <2> QED
    BY <1>2, <2>1, <2>2, <2>3 DEF Names
<1>11. Unused'
  <2> SUFFICES ASSUME NEW q \in Processes, Reading(q)'
               PROVE  /\ \A f \in DOMAIN files' : files'[f] # process'[q].number
                      /\ \A r \in Processes : Writing(r)' =>
                           process'[r].inode # process'[q].number
    BY DEF Unused
  <2>1. Reading(q) /\ q # p /\ process'[q] = process[q] /\ process[q].number # inode
    BY <1>4, <1>6
  <2>2. \A f \in DOMAIN files' : files'[f] # process[q].number
    BY <1>2, <2>1 DEF FilesInv, Unused
  <2>3. \A r \in Processes : Writing(r)' => process'[r].inode # process[q].number
    BY <1>1, <1>4, <2>1 DEF FilesInv, Unused
  <2> QED
    BY <2>1, <2>2, <2>3
<1>12. Writers'
  <2> SUFFICES ASSUME NEW q \in Processes
               PROVE  /\ WritesLock(q)' =>
                           /\ process'[q].inode = process'[q].number
                           /\ LockTemp(process'[q].number) \in DOMAIN files'
                      /\ WritesPlan(q)' =>
                           /\ process'[q].command.name = "plan create"
                           /\ process'[q].inode \in 1..started
                           /\ \A f \in DOMAIN files' :
                                files'[f] = process'[q].inode => f \in {PlanTemp, PlanOutput}
    BY <1>2 DEF Writers
  <2>1. CASE q = p
    <3>1. CASE c.name = "lock create"
      BY <1>1, <1>2, <1>4, <1>8, <2>1, <3>1 DEF WritesPlan
    <3>2. CASE c.name # "lock create"
      BY <1>1, <1>2, <1>4, <1>6, <1>7, <1>9, <2>1, <3>2 DEF WritesLock
    <3> QED
      BY <3>1, <3>2
  <2>2. CASE q # p
    <3>1. process'[q] = process[q] /\ WritesLock(q)' = WritesLock(q)
          /\ WritesPlan(q)' = WritesPlan(q)
      BY <1>4, <2>2
    <3>2. WritesLock(q) => /\ process[q].inode = process[q].number
                           /\ LockTemp(process[q].number) \in DOMAIN files'
      BY <1>2 DEF FilesInv, Writers
    <3>3. ASSUME WritesPlan(q)
          PROVE  /\ process[q].command.name = "plan create"
                 /\ process[q].inode \in 1..started
                 /\ \A f \in DOMAIN files' :
                      files'[f] = process[q].inode => f \in {PlanTemp, PlanOutput}
      <4>1. process[q].inode # n
        BY <1>3, <3>3 DEF WritesPlan
      <4> QED
        <5>1. /\ process[q].command.name = "plan create"
              /\ process[q].inode \in 1..started
              /\ \A f \in DOMAIN files :
                   files[f] = process[q].inode => f \in {PlanTemp, PlanOutput}
          BY <3>3 DEF FilesInv, Writers
        <5>2. files'[temp] = process[q].inode => temp = PlanTemp
          BY <1>2, <1>8, <1>9, <4>1
        <5> QED
          BY <1>2, <5>1, <5>2
    <3> QED
      BY <3>1, <3>2, <3>3
  <2> QED
    BY <2>1, <2>2
<1>13. Wholes'
  <2>1. inode \in Inodes
    BY <1>6, InodesMade
  <2>2. /\ contents' = [i \in Inodes |-> contents'[i]]
        /\ contents'[inode] = Empty
        /\ \A i \in Inodes : i # inode => contents'[i] = contents[i]
    BY <1>2, <2>1 DEF FilesInv, Wholes
  <2>3. \A q \in Processes : WritesLock(q) =>
          process[q].inode \in Inodes /\ process[q].inode # inode
    <3> SUFFICES ASSUME NEW q \in Processes, WritesLock(q)
                 PROVE  process[q].inode \in Inodes /\ process[q].inode # inode
      OBVIOUS
    <3>1. /\ LockTemp(process[q].inode) \in DOMAIN files
          /\ files[LockTemp(process[q].inode)] = process[q].inode
          /\ process[q].inode # n
      BY <1>3 DEF FilesInv, Writers, Names, WritesLock
    <3>2. process[q].inode \in Inodes
      BY InodesMade
    <3>3. process[q].inode # inode
      BY <1>7, <1>8, <1>9, <3>1, FileNames
    <3> QED
      BY <3>2, <3>3
  <2>4. LockOutput \in DOMAIN files =>
          files[LockOutput] \in Inodes /\ files[LockOutput] # inode
    <3>1. LockOutput # temp
      BY <1>8, <1>9, <1>2, FileNames
    <3> QED
      BY <1>7, <3>1, InodesMade
  <2>5. LockOutput \in DOMAIN files' =>
          LockOutput \in DOMAIN files /\ files'[LockOutput] = files[LockOutput]
    BY <1>2, <1>8, <1>9, FileNames
  <2>6. LockOutput \in DOMAIN files' => GoodLock(contents'[files'[LockOutput]])
    BY <2>2, <2>4, <2>5 DEF FilesInv, Wholes
  <2>7. ASSUME NEW q \in Processes, WritesLock(q)'
        PROVE  /\ process'[q].pc = "fill" => contents'[process'[q].inode] = Empty
               /\ process'[q].pc = "rename" => GoodLock(contents'[process'[q].inode])
    <3>1. CASE q = p
      BY <1>1, <1>4, <2>2, <3>1
    <3>2. CASE q # p
      <4>1. process'[q] = process[q] /\ WritesLock(q)
        BY <1>4, <2>7, <3>2
      <4> QED
        BY <2>2, <2>3, <4>1 DEF FilesInv, Wholes
    <3> QED
      BY <3>1, <3>2
  <2> QED
    BY <2>2, <2>6, <2>7 DEF Wholes, Inodes
<1> QED
  BY <1>5, <1>10, <1>11, <1>12, <1>13 DEF FilesInv

LEMMA FilesFill ==
  ASSUME FilesInv, States, NEW p \in Processes, FillTemp(p)
  PROVE  FilesInv'
<1> DEFINE w == Written(process[p])
           i == process[p].inode
<1>1. PICK s : Moves(p, s) /\ SameWriter(s, process[p]) /\ s.pc = "rename"
  <2>1. process' = [process EXCEPT ![p].pc = "rename"]
    BY DEF FillTemp
  <2>2. \E s : /\ Moves(p, s)
               /\ SameWriter(s, process[p]) /\ SameReads(s, process[p])
               /\ s.pc = "rename" /\ s.lock = process[p].lock
               /\ s.exit = process[p].exit
    BY <2>1, PcMoves, Zenon
  <2> QED
    BY <2>2
<1>2. /\ Writing(p) /\ process[p].pc = "fill"
      /\ UNCHANGED <<files, started>>
      /\ \E c \in IF contents[i] \in {Empty, w} THEN {w} ELSE {w, Mixed} :
            contents' = [contents EXCEPT ![i] = c]
  BY DEF FillTemp, Writing, At
<1>3. PICK c : /\ c \in IF contents[i] \in {Empty, w} THEN {w} ELSE {w, Mixed}
               /\ contents' = [contents EXCEPT ![i] = c]
  BY <1>2
<1>4. \A q \in Processes :
        /\ q # p => process'[q] = process[q]
        /\ q = p => process'[q] = s
        /\ Reading(q)' = Reading(q)
        /\ Writing(q)' = Writing(q)
        /\ WritesLock(q)' = WritesLock(q)
        /\ WritesPlan(q)' = WritesPlan(q)
        /\ SameWriter(process'[q], process[q])
  <2> TAKE q \in Processes
  <2>1. /\ q # p => process'[q] = process[q]
        /\ q = p => process'[q] = s
    BY <1>1 DEF Moves
  <2>2. CASE q # p
    BY <2>1, <2>2 DEF Reading, Writing, WritesLock, WritesPlan, SameWriter
  <2>3. CASE q = p
    <3>1. process'[p] = s /\ SameWriter(process'[p], process[p])
      BY <1>1, <2>1, <2>3
    <3>2. process'[p].command = process[p].command
      BY <3>1 DEF SameWriter
    <3>3. process[p].pc = "fill" /\ process'[p].pc = "rename"
      BY <1>1, <1>2, <3>1
    <3>4. /\ Reading(p)' = Reading(p) /\ Writing(p)' = Writing(p)
          /\ WritesLock(p)' = WritesLock(p) /\ WritesPlan(p)' = WritesPlan(p)
      BY <3>2, <3>3 DEF Reading, Writing, WritesLock, WritesPlan
    <3> QED
      BY <2>3, <3>1, <3>4
  <2> QED
    BY <2>2, <2>3
<1>5. Numbers'
  BY <1>2, <1>4 DEF FilesInv, Numbers, SameWriter
<1>6. Names'
  BY <1>2 DEF FilesInv, Names
<1>7. Unused'
  BY <1>2, <1>4 DEF FilesInv, Unused, SameWriter
<1>8. Writers'
  <2>1. Writers
    BY DEF FilesInv
  <2> SUFFICES ASSUME NEW q \in Processes
               PROVE  /\ (WritesLock(q) => /\ process[q].inode = process[q].number
                                           /\ LockTemp(process[q].number) \in DOMAIN files)'
                      /\ (WritesPlan(q) =>
                            /\ process[q].command.name = "plan create"
                            /\ process[q].inode \in 1..started
                            /\ \A f \in DOMAIN files :
                                 files[f] = process[q].inode => f \in {PlanTemp, PlanOutput})'
    BY DEF Writers
  <2>2. /\ WritesLock(q)' = WritesLock(q) /\ WritesPlan(q)' = WritesPlan(q)
        /\ SameWriter(process'[q], process[q])
    BY <1>4
  <2>3. files' = files /\ started' = started
    BY <1>2
  <2> QED
    BY <2>1, <2>2, <2>3 DEF Writers, SameWriter
<1>9. Wholes'
  <2> HIDE DEF w, i
  <2>1. /\ contents' = [j \in Inodes |-> contents'[j]]
        /\ i \in Inodes => contents'[i] = c
        /\ \A j \in Inodes : j # i => contents'[j] = contents[j]
    BY <1>3 DEF FilesInv, Wholes
  <2>2. ASSUME NEW q \in Processes, WritesLock(q)
        PROVE  /\ process[q].inode \in Inodes
               /\ LockTemp(process[q].inode) \in DOMAIN files
               /\ files[LockTemp(process[q].inode)] = process[q].inode
    BY <2>2, InodesMade
  <2>3. \A q \in Processes : WritesLock(q) /\ q # p => process[q].inode # i
    <3> SUFFICES ASSUME NEW q \in Processes, WritesLock(q), q # p,
                        process[q].inode = i
                 PROVE  FALSE
      OBVIOUS
    <3>1. CASE WritesLock(p)
      BY <3>1 DEF FilesInv, Writers, Numbers, WritesLock, i
    <3>2. CASE WritesPlan(p)
      <4> DEFINE t == LockTemp(process[q].inode)
      <4>1. t \in DOMAIN files /\ files[t] = i
        BY <2>2
      <4>2. \A f \in DOMAIN files : files[f] = i => f \in {PlanTemp, PlanOutput}
        BY <3>2 DEF FilesInv, Writers, i
      <4>3. t \notin {PlanTemp, PlanOutput}
        BY FileNames
      <4> HIDE DEF t
      <4> QED
        BY <4>1, <4>2, <4>3
    <3> QED
      BY <1>2, <3>1, <3>2 DEF WritesLock, WritesPlan
  <2>4. LockOutput \in DOMAIN files =>
          files[LockOutput] \in Inodes /\ files[LockOutput] # i
    <3>1. CASE WritesLock(p)
      BY <2>2, <3>1, FileNames, InodesMade DEF FilesInv, Names, i
    <3>2. CASE WritesPlan(p)
      BY <3>2, FileNames, InodesMade DEF FilesInv, Writers, i
    <3> QED
      BY <1>2, <3>1, <3>2 DEF WritesLock, WritesPlan
  <2>5. LockOutput \in DOMAIN files' => GoodLock(contents'[files'[LockOutput]])
    BY <1>2, <2>1, <2>4 DEF FilesInv, Wholes
  <2>6. ASSUME NEW q \in Processes, WritesLock(q)'
        PROVE  /\ process'[q].pc = "fill" => contents'[process'[q].inode] = Empty
               /\ process'[q].pc = "rename" => GoodLock(contents'[process'[q].inode])
    <3>1. CASE q = p
      <4>1. WritesLock(p) /\ process'[p].pc = "rename" /\ process'[p].inode = i
        BY <1>1, <1>4, <2>6, <3>1 DEF SameWriter, i
      <4>2. contents[i] = Empty
        BY <1>2, <4>1 DEF FilesInv, Wholes, i
      <4>3. c = w /\ GoodLock(w)
        BY <1>3, <4>1, <4>2, CreatedLockIsGood DEF WritesLock, w
      <4>4. i \in Inodes
        BY <2>2, <4>1 DEF i
      <4> QED
        BY <2>1, <3>1, <4>1, <4>3, <4>4
    <3>2. CASE q # p
      BY <1>4, <2>1, <2>2, <2>3, <2>6, <3>2 DEF FilesInv, Wholes
    <3> QED
      BY <3>1, <3>2
  <2> QED
    BY <2>1, <2>5, <2>6 DEF Wholes, Inodes
<1> QED
  BY <1>5, <1>6, <1>7, <1>8, <1>9 DEF FilesInv

LEMMA FilesRename ==
  ASSUME FilesInv, States, NEW p \in Processes, RenameTemp(p)
  PROVE  FilesInv'
<1> DEFINE c == process[p].command
           n == process[p].number
           temp == TempOf(c, n)
           out == Output(c)
<1>1. CASE temp \notin DOMAIN files
  <2>1. Exit(p, 1) /\ UNCHANGED <<files, contents, started>>
    BY <1>1 DEF RenameTemp
  <2>2. PICK s : Moves(p, s) /\ SameWriter(s, process[p]) /\ s.pc = "done"
    BY <2>1, ExitMoves
  <2>3. s.number \in 0..started
    BY <2>2 DEF SameWriter, FilesInv, Numbers
  <2> QED
    BY <2>1, <2>2, <2>3, FilesQuiet
<1>2. CASE temp \in DOMAIN files
  <2>1. /\ Exit(p, 0) /\ UNCHANGED <<contents, started>>
        /\ files' = [f \in (DOMAIN files \cup {out}) \ {temp} |->
                       IF f = out THEN files[temp] ELSE files[f]]
        /\ Writing(p) /\ process[p].pc = "rename"
    BY <1>2 DEF RenameTemp, Writing, At
  <2>2. PICK s : Moves(p, s) /\ SameWriter(s, process[p]) /\ s.pc = "done"
    BY <2>1, ExitMoves
  <2>3. \A q \in Processes :
          /\ q # p => process'[q] = process[q]
          /\ q = p => process'[q] = s
    BY <2>2 DEF Moves
  <2>4. \A q \in Processes :
          /\ Reading(q)' => Reading(q) /\ q # p
          /\ Writing(q)' => Writing(q) /\ q # p
          /\ WritesLock(q)' => WritesLock(q) /\ q # p
          /\ WritesPlan(q)' => WritesPlan(q) /\ q # p
    BY <2>2, <2>3 DEF Reading, Writing, WritesLock, WritesPlan
  <2>5. \A q \in Processes : process'[q].number = process[q].number
    BY <2>2, <2>3 DEF SameWriter
  <2>6. Numbers'
    BY <2>1, <2>4, <2>5 DEF FilesInv, Numbers
  <2>7. /\ DOMAIN files' = (DOMAIN files \cup {out}) \ {temp}
        /\ out # temp => files'[out] = files[temp]
        /\ \A f \in DOMAIN files : f \notin {out, temp} => files'[f] = files[f]
    BY <2>1
  <2>8. \/ /\ c.name = "lock create" /\ temp = LockTemp(n) /\ out = LockOutput
           /\ WritesLock(p)
        \/ /\ c.name = "plan create" /\ temp = PlanTemp /\ out = PlanOutput
           /\ WritesPlan(p)
    BY <2>1, NamesOfCommand DEF FilesInv, Writers, WritesLock, WritesPlan
  <2>9. out # temp
    BY <2>8, FileNames
  <2> HIDE DEF temp, out
  <2>10. ASSUME NEW f \in DOMAIN files'
         PROVE  \/ f = out /\ files'[f] = files[temp]
                \/ f \in DOMAIN files /\ f \notin {out, temp} /\ files'[f] = files[f]
    BY <2>7, <2>9, <2>10
  <2>11. Names'
    <3>1. \A f \in DOMAIN files' : files'[f] \in 1..started
      BY <1>2, <2>10 DEF FilesInv, Names
    <3>2. \A f, g \in DOMAIN files' : files'[f] = files'[g] => f = g
      BY <1>2, <2>10 DEF FilesInv, Names
    <3>3. \A m : LockTemp(m) \in DOMAIN files' => files'[LockTemp(m)] = m
      BY <2>8, <2>10, FileNames DEF FilesInv, Names
    <3> QED
      BY <2>1, <3>1, <3>2, <3>3 DEF Names
  <2>12. Unused'
    <3> SUFFICES ASSUME NEW q \in Processes, Reading(q)'
                 PROVE  /\ \A f \in DOMAIN files' : files'[f] # process'[q].number
                        /\ \A r \in Processes : Writing(r)' =>
                             process'[r].inode # process'[q].number
      BY DEF Unused
    <3>1. Reading(q) /\ process'[q].number = process[q].number
      BY <2>4, <2>5
    <3>2. \A f \in DOMAIN files' : files'[f] # process[q].number
      BY <1>2, <2>10, <3>1 DEF FilesInv, Unused
    <3>3. \A r \in Processes : Writing(r)' => process'[r].inode # process[q].number
      BY <2>3, <2>4, <3>1 DEF FilesInv, Unused
    <3> QED
      BY <3>1, <3>2, <3>3
  <2>13. Writers'
    <3> SUFFICES ASSUME NEW q \in Processes
                 PROVE  /\ WritesLock(q)' =>
                             /\ process'[q].inode = process'[q].number
                             /\ LockTemp(process'[q].number) \in DOMAIN files'
                        /\ WritesPlan(q)' =>
                             /\ process'[q].command.name = "plan create"
                             /\ process'[q].inode \in 1..started
                             /\ \A f \in DOMAIN files' :
                                  files'[f] = process'[q].inode => f \in {PlanTemp, PlanOutput}
      BY <2>1 DEF Writers
    <3>1. CASE WritesLock(q)'
      <4>1. WritesLock(q) /\ q # p /\ process'[q] = process[q]
        BY <2>3, <2>4, <3>1
      <4>2. process[q].inode = process[q].number
            /\ LockTemp(process[q].number) \in DOMAIN files
        BY <4>1 DEF FilesInv, Writers
      <4>3. LockTemp(process[q].number) # temp
        <5>1. process[q].number # n \/ ~WritesLock(p)
          BY <2>1, <4>1 DEF FilesInv, Numbers, WritesLock
        <5> QED
          BY <2>8, <5>1, FileNames
      <4>4. LockTemp(process[q].number) \in DOMAIN files'
        BY <2>7, <4>2, <4>3
      <4>5. ~WritesPlan(q)'
        BY <3>1 DEF WritesLock, WritesPlan
      <4> QED
        BY <4>1, <4>2, <4>4, <4>5
    <3>2. CASE WritesPlan(q)'
      <4>1. WritesPlan(q) /\ q # p /\ process'[q] = process[q]
        BY <2>3, <2>4, <3>2
      <4>2. /\ process[q].command.name = "plan create"
            /\ process[q].inode \in 1..started
            /\ \A f \in DOMAIN files :
                 files[f] = process[q].inode => f \in {PlanTemp, PlanOutput}
        BY <4>1 DEF FilesInv, Writers
      <4>3. files[temp] = process[q].inode => out = PlanOutput
        BY <1>2, <2>8, <4>2, FileNames
      <4>4. \A f \in DOMAIN files' :
              files'[f] = process[q].inode => f \in {PlanTemp, PlanOutput}
        BY <2>10, <4>2, <4>3
      <4>5. ~WritesLock(q)'
        BY <3>2 DEF WritesLock, WritesPlan
      <4> QED
        BY <4>1, <4>2, <4>4, <4>5
    <3> QED
      BY <3>1, <3>2
  <2>14. Wholes'
    <3>1. \A q \in Processes : WritesLock(q)' => WritesLock(q) /\ process'[q] = process[q]
      BY <2>3, <2>4
    <3>2. LockOutput \in DOMAIN files' => GoodLock(contents[files'[LockOutput]])
      <4>1. CASE WritesLock(p)
        <5>1. files[temp] = process[p].inode /\ out = LockOutput
          BY <2>8, <4>1, InodesMade DEF WritesPlan, WritesLock
        <5>2. GoodLock(contents[process[p].inode])
          BY <2>1, <4>1 DEF FilesInv, Wholes
        <5> QED
          BY <2>7, <2>9, <5>1, <5>2
      <4>2. CASE WritesPlan(p)
        <5>1. out = PlanOutput
          BY <2>8, <4>2 DEF WritesPlan, WritesLock
        <5> QED
          BY <2>10, <5>1, FileNames DEF FilesInv, Wholes
      <4> QED
        BY <2>8, <4>1, <4>2
    <3> QED
      BY <2>1, <3>1, <3>2 DEF FilesInv, Wholes, Inodes
  <2> QED
    BY <2>6, <2>11, <2>12, <2>13, <2>14 DEF FilesInv
<1> QED
  BY <1>1, <1>2

-----------------------------------------------------------------------------
(***************************************************************************)
(* What a command has read of the workspace.                               *)
(***************************************************************************)

(* A list read from its head: what is in it is at its head or in its tail. *)
LEMMA TailOfList ==
  ASSUME NEW S, NEW s \in Seq(S), s # <<>>
  PROVE  /\ Tail(s) \in Seq(S) /\ Head(s) \in S
         /\ \A x \in ToSet(s) : x = Head(s) \/ x \in ToSet(Tail(s))
<1>1. Len(s) \in Nat /\ Len(s) # 0 /\ DOMAIN s = 1..Len(s)
  OBVIOUS
<1>2. /\ Tail(s) \in Seq(S) /\ Head(s) = s[1] /\ Head(s) \in S
      /\ Len(Tail(s)) = Len(s) - 1
      /\ \A i \in 1..(Len(s) - 1) : Tail(s)[i] = s[i + 1]
  BY <1>1
<1>3. ASSUME NEW x \in ToSet(s)
      PROVE  x = Head(s) \/ x \in ToSet(Tail(s))
  <2>1. PICK i \in 1..Len(s) : x = s[i]
    BY <1>1, <1>3 DEF ToSet
  <2>2. CASE i = 1
    BY <1>2, <2>1, <2>2
  <2>3. CASE i # 1
    <3>1. i - 1 \in 1..(Len(s) - 1) /\ (i - 1) + 1 = i
      BY <1>1, <2>1, <2>3
    <3>2. Tail(s)[i - 1] = x
      BY <1>2, <2>1, <3>1
    <3>3. DOMAIN Tail(s) = 1..(Len(s) - 1)
      BY <1>2
    <3> QED
      BY <3>1, <3>2, <3>3 DEF ToSet
  <2> QED
    BY <2>2, <2>3
<1> QED
  BY <1>2, <1>3

LEMMA JoinedLists ==
  ASSUME NEW S, NEW s \in Seq(S), NEW t \in Seq(S)
  PROVE  /\ s \o t \in Seq(S)
         /\ ToSet(s) \subseteq ToSet(s \o t)
         /\ ToSet(t) \subseteq ToSet(s \o t)
<1>1. /\ s \o t \in Seq(S)
      /\ Len(s) \in Nat /\ Len(t) \in Nat /\ Len(s \o t) = Len(s) + Len(t)
      /\ DOMAIN s = 1..Len(s) /\ DOMAIN t = 1..Len(t)
      /\ DOMAIN (s \o t) = 1..(Len(s) + Len(t))
      /\ \A i \in 1..Len(s) : (s \o t)[i] = s[i]
      /\ \A i \in 1..Len(t) : (s \o t)[Len(s) + i] = t[i]
  OBVIOUS
<1>2. ASSUME NEW x \in ToSet(s)
      PROVE  x \in ToSet(s \o t)
  <2>1. PICK i \in 1..Len(s) : x = s[i]
    BY <1>1, <1>2 DEF ToSet
  <2>2. i \in DOMAIN (s \o t) /\ (s \o t)[i] = x
    BY <1>1, <2>1
  <2> QED
    BY <2>2 DEF ToSet
<1>3. ASSUME NEW x \in ToSet(t)
      PROVE  x \in ToSet(s \o t)
  <2>1. PICK i \in 1..Len(t) : x = t[i]
    BY <1>1, <1>3 DEF ToSet
  <2>2. Len(s) + i \in DOMAIN (s \o t) /\ (s \o t)[Len(s) + i] = x
    BY <1>1, <2>1
  <2> QED
    BY <2>2 DEF ToSet
<1> QED
  BY <1>1, <1>2, <1>3

(* The inputs that a command which binds a route reads.                    *)
LockInputs == {"project", "policy", "config", "route"}

LEMMA LockReads ==
  ASSUME NEW c, IsLockCommand(c)
  PROVE  /\ ReadsOf(c) \in Seq(InputNames \cup Directories)
         /\ Directories \subseteq ToSet(ReadsOf(c))
         /\ c.route => LockInputs \subseteq ToSet(ReadsOf(c))
<1> DEFINE S == InputNames \cup Directories
           one == <<"project">>
           two == <<"policy", "config">>
           three == IF c.route THEN <<"route">> ELSE <<>>
           a == one \o DirectoryIds
           b == a \o two
<1>1. ReadsOf(c) = b \o three
  <2> DEFINE binds == c.route
  <2>1. c.name # "catalog snapshot" /\ c.name # "plan create"
    BY DEF IsLockCommand
  <2> HIDE DEF three
  <2>2. ReadsOf(c) = b \o (IF c.route THEN <<"route">> ELSE <<>>)
    BY <2>1, Zenon DEF ReadsOf
  <2> QED
    BY <2>2 DEF three
<1>2. /\ one \in Seq(S) /\ two \in Seq(S) /\ three \in Seq(S)
      /\ DirectoryIds \in Seq(S) /\ ToSet(DirectoryIds) = Directories
  <2>1. {"project", "policy", "config", "route"} \subseteq S
    BY DEF InputNames
  <2>2. DirectoryIds \in Seq(S)
    <3>1. Directories \subseteq S
      OBVIOUS
    <3> HIDE DEF S
    <3> QED
      BY <3>1, ConnectorCatalogAssumption
  <2> HIDE DEF S
  <2> QED
    BY <2>1, <2>2 DEF Directories
<1>3. /\ "project" \in ToSet(one)
      /\ {"policy", "config"} \subseteq ToSet(two)
      /\ c.route => "route" \in ToSet(three)
  <2>1. 1 \in DOMAIN one /\ one[1] = "project"
    OBVIOUS
  <2>2. 1 \in DOMAIN two /\ two[1] = "policy" /\ 2 \in DOMAIN two /\ two[2] = "config"
    OBVIOUS
  <2>3. c.route => 1 \in DOMAIN three /\ three[1] = "route"
    OBVIOUS
  <2> HIDE DEF one, two, three
  <2> QED
    BY <2>1, <2>2, <2>3 DEF ToSet
<1> HIDE DEF one, two, three, S, a, b
<1>4. a \in Seq(S) /\ ToSet(one) \subseteq ToSet(a) /\ Directories \subseteq ToSet(a)
  BY <1>2, JoinedLists DEF a
<1>5. b \in Seq(S) /\ ToSet(a) \subseteq ToSet(b) /\ ToSet(two) \subseteq ToSet(b)
  BY <1>2, <1>4, JoinedLists DEF b
<1>6. /\ b \o three \in Seq(S) /\ ToSet(b) \subseteq ToSet(b \o three)
      /\ ToSet(three) \subseteq ToSet(b \o three)
  BY <1>2, <1>5, JoinedLists
<1> QED
  BY <1>1, <1>3, <1>4, <1>5, <1>6 DEF LockInputs, S

(* What a lock command has yet to read it has on its list, and what the    *)
(* others read is, unless somebody edited it, what is there.               *)
ReadsOK(s) ==
  /\ IsLockCommand(s.command) =>
       /\ s.todo \in Seq(InputNames \cup Directories)
       /\ DOMAIN s.records \subseteq Directories
       /\ \A d \in Directories : d \in DOMAIN s.records \/ d \in ToSet(s.todo)
       /\ s.command.route =>
            \A x \in LockInputs : x \in DOMAIN s.read \/ x \in ToSet(s.todo)
  /\ s.quiet =>
       /\ \A i \in DOMAIN s.read : s.read[i] = inputs[i]
       /\ \A d \in DOMAIN s.records : s.records[d] = disk[d]

(* What lock check exits with, and of what lock.                           *)
CheckOK(s) ==
  s.command.name = "lock check" =>
    /\ s.pc = "look" => s.lock = Empty
    /\ s.lock # Empty => GoodLock(s.lock)
    /\ (s.pc = "done" /\ s.todo = <<>> /\ s.lock # Empty) =>
         s.exit = IF InSync(s.lock, Current(s)) THEN 0 ELSE 1

ReadsInv ==
  /\ DOMAIN disk = Directories
  /\ \A p \in Processes : ReadsOK(process[p]) /\ CheckOK(process[p])

LEMMA ReadsMove ==
  ASSUME ReadsInv, NEW p \in Processes, NEW s, Moves(p, s),
         UNCHANGED <<disk, inputs>>, ReadsOK(s), CheckOK(s)
  PROVE  ReadsInv'
<1>1. DOMAIN disk' = Directories
  BY DEF ReadsInv
<1>2. ASSUME NEW q \in Processes
      PROVE  ReadsOK(process'[q]) /\ CheckOK(process'[q])
  BY DEF ReadsInv, Moves
<1>3. \A q \in Processes : ReadsOK(process[q])' /\ CheckOK(process[q])'
  BY <1>2 DEF ReadsOK, CheckOK
<1> QED
  BY <1>1, <1>3 DEF ReadsInv

LEMMA ReadsKept ==
  ASSUME NEW s, NEW t, SameReads(s, t), ReadsOK(t)
  PROVE  ReadsOK(s)
  BY DEF SameReads, ReadsOK

LEMMA CurrentKept ==
  ASSUME NEW s, NEW t,
         s.command = t.command, s.read = t.read, s.records = t.records
  PROVE  Current(s) = Current(t)
  BY DEF Current

LEMMA ReadsStart ==
  ASSUME ReadsInv, States, NEW p \in Processes, NEW c, Start(p, c)
  PROVE  ReadsInv'
<1>1. PICK s : /\ Moves(p, s)
               /\ s.pc = IF IsLockCommand(c) THEN "look" ELSE "read"
               /\ s.command = c /\ s.number = started + 1
               /\ s.todo = ReadsOf(c) /\ s.read = <<>> /\ s.records = <<>>
               /\ s.lock = Empty /\ s.inode = 0 /\ s.quiet = TRUE
  BY StartMoves
<1>2. DOMAIN s.read = {} /\ DOMAIN s.records = {}
  BY <1>1
<1>3. ReadsOK(s)
  BY <1>1, <1>2, LockReads DEF ReadsOK
<1>4. CheckOK(s)
  BY <1>1 DEF CheckOK, IsLockCommand
<1>5. UNCHANGED <<disk, inputs>>
  BY DEF Start
<1> QED
  BY <1>1, <1>3, <1>4, <1>5, ReadsMove

(* A command that ends without having compared.                            *)
LEMMA ReadsExit ==
  ASSUME ReadsInv, States, NEW p \in Processes, NEW code, Exit(p, code),
         UNCHANGED <<disk, inputs>>,
         \/ process[p].command.name # "lock check"
         \/ process[p].todo # <<>>
         \/ process[p].lock = Empty
  PROVE  ReadsInv'
<1>1. PICK s : /\ Moves(p, s)
               /\ SameWriter(s, process[p]) /\ SameReads(s, process[p])
               /\ s.pc = "done" /\ s.lock = process[p].lock /\ s.exit = code
  BY ExitMoves
<1>2. ReadsOK(process[p]) /\ CheckOK(process[p])
  BY DEF ReadsInv
<1>3. ReadsOK(s)
  BY <1>1, <1>2, ReadsKept
<1>4. CheckOK(s)
  BY <1>1, <1>2 DEF CheckOK, SameReads
<1> QED
  BY <1>1, <1>3, <1>4, ReadsMove

LEMMA ReadsLook ==
  ASSUME ReadsInv, FilesInv, States, NEW p \in Processes,
         LookBeforeCreate(p) \/ LookBeforeCheck(p)
  PROVE  ReadsInv'
<1>1. UNCHANGED <<disk, inputs>> /\ process[p].pc = "look"
  BY DEF LookBeforeCreate, LookBeforeCheck, At
<1>2. ReadsOK(process[p]) /\ CheckOK(process[p])
  BY DEF ReadsInv
<1>3. CASE LookBeforeCreate(p)
  <2>1. process[p].command.name # "lock check"
    BY <1>3 DEF LookBeforeCreate
  <2>2. CASE Exit(p, 1)
    BY <1>1, <2>1, <2>2, ReadsExit
  <2>3. CASE process' = [process EXCEPT ![p].pc = "read"]
    <3>1. \E s : /\ Moves(p, s)
                 /\ SameWriter(s, process[p]) /\ SameReads(s, process[p])
                 /\ s.pc = "read" /\ s.lock = process[p].lock
                 /\ s.exit = process[p].exit
      BY <2>3, PcMoves, Zenon
    <3>2. PICK s : Moves(p, s) /\ SameReads(s, process[p]) /\ s.pc = "read"
      BY <3>1
    <3>3. ReadsOK(s)
      BY <1>2, <3>2, ReadsKept
    <3>4. CheckOK(s)
      BY <2>1, <3>2 DEF CheckOK, SameReads
    <3> QED
      BY <1>1, <3>2, <3>3, <3>4, ReadsMove
  <2> QED
    BY <1>3, <2>2, <2>3 DEF LookBeforeCreate
<1>4. CASE LookBeforeCheck(p)
  <2>1. process[p].lock = Empty
    BY <1>1, <1>2, <1>4 DEF LookBeforeCheck, CheckOK
  <2>2. CASE Exit(p, 1)
    BY <1>1, <2>1, <2>2, ReadsExit
  <2>3. CASE ~Exit(p, 1)
    <3> DEFINE lock == contents[files[LockOutput]]
    <3>1. /\ LockOutput \in DOMAIN files
          /\ process' = [process EXCEPT ![p].pc = "read", ![p].lock = lock]
      BY <1>4, <2>3 DEF LookBeforeCheck
    <3>2. GoodLock(lock)
      BY <3>1 DEF FilesInv, Wholes
    <3> HIDE DEF lock
    <3>3. \E s : /\ Moves(p, s)
                 /\ SameWriter(s, process[p]) /\ SameReads(s, process[p])
                 /\ s.pc = "read" /\ s.lock = lock
      BY <3>1, LookMoves, Zenon
    <3>4. PICK s : Moves(p, s) /\ SameReads(s, process[p]) /\ s.pc = "read"
                   /\ s.lock = lock
      BY <3>3
    <3>5. ReadsOK(s)
      BY <1>2, <3>4, ReadsKept
    <3>6. CheckOK(s)
      BY <3>2, <3>4 DEF CheckOK
    <3> QED
      BY <1>1, <3>4, <3>5, <3>6, ReadsMove
  <2> QED
    BY <2>2, <2>3
<1> QED
  BY <1>3, <1>4

LEMMA ReadsInput ==
  ASSUME ReadsInv, States, NEW p \in Processes, ReadInput(p)
  PROVE  ReadsInv'
<1> DEFINE t == process[p]
           i == Head(t.todo)
           read == [j \in DOMAIN t.read \cup {i} |->
                      IF j = i THEN inputs[i] ELSE t.read[j]]
           todo == Tail(t.todo)
<1>1. UNCHANGED <<disk, inputs>> /\ t.pc = "read" /\ t.todo # <<>> /\ i \in InputNames
  BY DEF ReadInput, At
<1>2. ReadsOK(t) /\ CheckOK(t)
  BY DEF ReadsInv
<1>3. CASE Exit(p, 1)
  BY <1>1, <1>3, ReadsExit
<1>4. CASE ~Exit(p, 1)
  <2>1. TakesInput(p, todo, read)
    BY <1>4 DEF ReadInput, States, TakesInput
  <2> HIDE DEF todo, read
  <2>2. \E s : /\ Moves(p, s) /\ SameWriter(s, process[p])
               /\ s.todo = todo /\ s.read = read
               /\ s.records = process[p].records /\ s.quiet = process[p].quiet
               /\ s.pc = process[p].pc /\ s.lock = process[p].lock
    BY <2>1, InputMoves
  <2>3. PICK s : /\ Moves(p, s) /\ s.command = t.command
                 /\ s.todo = todo /\ s.read = read
                 /\ s.records = t.records /\ s.quiet = t.quiet
                 /\ s.pc = t.pc /\ s.lock = t.lock
    BY <2>2 DEF SameWriter
  <2>4. /\ DOMAIN read = DOMAIN t.read \cup {i}
        /\ read[i] = inputs[i]
        /\ \A j \in DOMAIN t.read : j # i => read[j] = t.read[j]
    BY DEF read
  <2>5. i \notin Directories
    BY <1>1, CommandLineAssumption
  <2>6. ReadsOK(s)
    <3> HIDE DEF i, t
    <3>1. s.quiet => /\ \A j \in DOMAIN s.read : s.read[j] = inputs[j]
                     /\ \A d \in DOMAIN s.records : s.records[d] = disk[d]
      BY <1>2, <2>3, <2>4 DEF ReadsOK
    <3>2. ASSUME IsLockCommand(t.command)
          PROVE  /\ todo \in Seq(InputNames \cup Directories)
                 /\ \A x \in ToSet(t.todo) : x = i \/ x \in ToSet(todo)
      BY <1>1, <1>2, <3>2, TailOfList DEF ReadsOK, todo, i
    <3>3. IsLockCommand(s.command) =>
            /\ s.todo \in Seq(InputNames \cup Directories)
            /\ DOMAIN s.records \subseteq Directories
            /\ \A d \in Directories : d \in DOMAIN s.records \/ d \in ToSet(s.todo)
            /\ s.command.route =>
                 \A x \in LockInputs : x \in DOMAIN s.read \/ x \in ToSet(s.todo)
      BY <1>2, <2>3, <2>4, <2>5, <3>2 DEF ReadsOK
    <3> QED
      BY <3>1, <3>3 DEF ReadsOK
  <2>7. CheckOK(s)
    BY <1>1, <1>2, <2>3 DEF CheckOK
  <2> QED
    BY <1>1, <2>3, <2>6, <2>7, ReadsMove
<1> QED
  BY <1>3, <1>4

LEMMA ReadsManifest ==
  ASSUME ReadsInv, States, NEW p \in Processes, ReadManifest(p)
  PROVE  ReadsInv'
<1> DEFINE t == process[p]
           d == Head(t.todo)
           kept == KeepRecord(t.records, d, disk[d])
           todo == Tail(t.todo)
<1>1. UNCHANGED <<disk, inputs>> /\ t.pc = "read" /\ t.todo # <<>> /\ d \in Directories
  BY DEF ReadManifest, At
<1>2. ReadsOK(t) /\ CheckOK(t)
  BY DEF ReadsInv
<1>3. CASE Exit(p, 1)
  BY <1>1, <1>3, ReadsExit
<1>4. CASE ~Exit(p, 1)
  <2>1. /\ TakesManifest(p, todo, kept)
        /\ Loads(t.records, d, disk[d])
    BY <1>4 DEF ReadManifest, States, TakesManifest
  <2>2. /\ DOMAIN kept = DOMAIN t.records \cup {d}
        /\ \A e \in DOMAIN t.records : kept[e] = t.records[e]
        /\ d \notin DOMAIN t.records => kept[d] = disk[d]
    BY <2>1 DEF KeepRecord
  <2> HIDE DEF todo, kept
  <2>3. \E s : /\ Moves(p, s) /\ SameWriter(s, process[p])
               /\ s.todo = todo /\ s.read = process[p].read
               /\ s.records = kept /\ s.quiet = process[p].quiet
               /\ s.pc = process[p].pc /\ s.lock = process[p].lock
    BY <2>1, ManifestMoves
  <2>4. PICK s : /\ Moves(p, s) /\ s.command = t.command
                 /\ s.todo = todo /\ s.read = t.read
                 /\ s.records = kept /\ s.quiet = t.quiet
                 /\ s.pc = t.pc /\ s.lock = t.lock
    BY <2>3 DEF SameWriter
  <2>5. d \notin LockInputs
    BY <1>1, CommandLineAssumption DEF LockInputs, InputNames
  <2>6. ReadsOK(s)
    <3> HIDE DEF d, t
    <3>1. s.quiet => /\ \A j \in DOMAIN s.read : s.read[j] = inputs[j]
                     /\ \A e \in DOMAIN s.records : s.records[e] = disk[e]
      BY <1>2, <2>2, <2>4 DEF ReadsOK
    <3>2. ASSUME IsLockCommand(t.command)
          PROVE  /\ todo \in Seq(InputNames \cup Directories)
                 /\ \A x \in ToSet(t.todo) : x = d \/ x \in ToSet(todo)
      BY <1>1, <1>2, <3>2, TailOfList DEF ReadsOK, todo, d
    <3>3. IsLockCommand(s.command) =>
            /\ s.todo \in Seq(InputNames \cup Directories)
            /\ DOMAIN s.records \subseteq Directories
            /\ \A e \in Directories : e \in DOMAIN s.records \/ e \in ToSet(s.todo)
            /\ s.command.route =>
                 \A x \in LockInputs : x \in DOMAIN s.read \/ x \in ToSet(s.todo)
      BY <1>1, <1>2, <2>2, <2>4, <2>5, <3>2 DEF ReadsOK
    <3> QED
      BY <3>1, <3>3 DEF ReadsOK
  <2>7. CheckOK(s)
    BY <1>1, <1>2, <2>4 DEF CheckOK
  <2> QED
    BY <1>1, <2>4, <2>6, <2>7, ReadsMove
<1> QED
  BY <1>3, <1>4

LEMMA ReadsCompare ==
  ASSUME ReadsInv, States, NEW p \in Processes, Compare(p)
  PROVE  ReadsInv'
<1> DEFINE code == IF InSync(process[p].lock, Current(process[p])) THEN 0 ELSE 1
<1>1. Exit(p, code) /\ UNCHANGED <<disk, inputs>>
  BY DEF Compare
<1>2. ReadsOK(process[p]) /\ CheckOK(process[p])
  BY DEF ReadsInv
<1> HIDE DEF code
<1>3. PICK s : /\ Moves(p, s)
               /\ SameWriter(s, process[p]) /\ SameReads(s, process[p])
               /\ s.pc = "done" /\ s.lock = process[p].lock /\ s.exit = code
  BY <1>1, ExitMoves
<1>4. ReadsOK(s)
  BY <1>2, <1>3, ReadsKept
<1>5. Current(s) = Current(process[p])
  BY <1>3, CurrentKept DEF SameReads
<1>6. s.exit = IF InSync(s.lock, Current(s)) THEN 0 ELSE 1
  BY <1>3, <1>5 DEF code
<1>7. CheckOK(s)
  BY <1>2, <1>3, <1>6 DEF CheckOK, SameReads
<1> QED
  BY <1>1, <1>3, <1>4, <1>7, ReadsMove

LEMMA ReadsWrite ==
  ASSUME ReadsInv, FilesInv, States, NEW p \in Processes,
         OpenTemp(p) \/ FillTemp(p) \/ RenameTemp(p)
  PROVE  ReadsInv'
<1>1. UNCHANGED <<disk, inputs>>
  BY DEF OpenTemp, FillTemp, RenameTemp
<1>2. process[p].command.name # "lock check"
  BY DEF OpenTemp, FillTemp, RenameTemp, At, FilesInv, Writers, WritesLock, WritesPlan, Writing
<1>3. PICK s : Moves(p, s) /\ SameReads(s, process[p])
  <2>1. CASE OpenTemp(p)
    <3> DEFINE temp  == TempOf(process[p].command, process[p].number)
               inode == IF temp \in DOMAIN files THEN files[temp] ELSE process[p].number
    <3>1. process' = [process EXCEPT ![p].pc = "fill", ![p].inode = inode]
      BY <2>1 DEF OpenTemp
    <3> HIDE DEF inode
    <3>2. Opens(p, inode)
      BY <3>1, OpenMoves
    <3> QED
      BY <3>2 DEF Opens
  <2>2. CASE FillTemp(p)
    <3>1. process' = [process EXCEPT ![p].pc = "rename"]
      BY <2>2 DEF FillTemp
    <3>2. \E s : /\ Moves(p, s)
                 /\ SameWriter(s, process[p]) /\ SameReads(s, process[p])
                 /\ s.pc = "rename" /\ s.lock = process[p].lock
                 /\ s.exit = process[p].exit
      BY <3>1, PcMoves, Zenon
    <3> QED
      BY <3>2
  <2>3. CASE RenameTemp(p)
    <3>1. Exit(p, 0) \/ Exit(p, 1)
      BY <2>3 DEF RenameTemp
    <3> QED
      BY <3>1, ExitMoves
  <2> QED
    BY <2>1, <2>2, <2>3
<1>4. ReadsOK(s)
  BY <1>3, ReadsKept DEF ReadsInv
<1>5. CheckOK(s)
  BY <1>2, <1>3 DEF CheckOK, SameReads
<1> QED
  BY <1>1, <1>3, <1>4, <1>5, ReadsMove

LEMMA ReadsDie ==
  ASSUME ReadsInv, States, NEW p \in Processes, Die(p)
  PROVE  ReadsInv'
<1>1. Moves(p, Fresh) /\ UNCHANGED <<disk, inputs>>
  BY DieMoves DEF Die
<1>2. /\ Fresh.command.name = "none"
      /\ DOMAIN Fresh.read = {} /\ DOMAIN Fresh.records = {}
  BY DEF Fresh
<1>3. ReadsOK(Fresh) /\ CheckOK(Fresh)
  BY <1>2 DEF ReadsOK, CheckOK, IsLockCommand
<1> QED
  BY <1>1, <1>3, ReadsMove

LEMMA ReadsDisturb ==
  ASSUME ReadsInv, States, Disturb, DOMAIN disk' = DOMAIN disk
  PROVE  ReadsInv'
<1>1. ASSUME NEW p \in Processes
      PROVE  ReadsOK(process[p])' /\ CheckOK(process[p])'
  <2> DEFINE s == process'[p]
             t == process[p]
  <2>1. /\ s.command = t.command /\ s.todo = t.todo /\ s.read = t.read
        /\ s.records = t.records /\ s.quiet = FALSE /\ s.pc = t.pc
        /\ s.lock = t.lock /\ s.exit = t.exit
    BY DisturbMoves DEF SameWriter
  <2>2. ReadsOK(t) /\ CheckOK(t)
    BY DEF ReadsInv
  <2>3. Current(s) = Current(t)
    BY <2>1, CurrentKept
  <2>4. CheckOK(s)
    <3> HIDE DEF s, t
    <3> QED
      BY <2>1, <2>2, <2>3 DEF CheckOK
  <2>5. ReadsOK(process[p])'
    BY <2>1, <2>2 DEF ReadsOK
  <2>6. CheckOK(process[p])'
    BY <2>4 DEF CheckOK
  <2> QED
    BY <2>5, <2>6
<1> QED
  BY <1>1 DEF ReadsInv

-----------------------------------------------------------------------------
(***************************************************************************)
(* The invariant of the specification.                                     *)
(***************************************************************************)

Inv == States /\ FilesInv /\ ReadsInv

LEMMA InvInit == Init => Inv
<1> SUFFICES ASSUME Init
             PROVE  Inv
  OBVIOUS
<1>1. \A p \in Processes : process[p] = Fresh
  BY DEF Init
<1>2. States
  <2>1. IsState(Fresh)
    BY DEF IsState, Fresh
  <2> QED
    BY <1>1, <2>1 DEF Init, States
<1>3. /\ Fresh.pc = "idle" /\ Fresh.number = 0 /\ Fresh.command.name = "none"
      /\ DOMAIN Fresh.read = {} /\ DOMAIN Fresh.records = {}
  BY DEF Fresh
<1>4. DOMAIN files = {} /\ started = 0
  BY DEF Init
<1>5. FilesInv
  <2>1. \A p \in Processes : /\ ~Reading(p) /\ ~Writing(p)
                             /\ ~WritesLock(p) /\ ~WritesPlan(p)
    BY <1>1, <1>3 DEF Reading, Writing, WritesLock, WritesPlan
  <2>2. Numbers
    BY <1>1, <1>3, <1>4, <2>1, CommandLineAssumption DEF Numbers
  <2>3. Wholes
    BY <1>4, <2>1 DEF Wholes, Init
  <2> QED
    BY <1>4, <2>1, <2>2, <2>3 DEF FilesInv, Names, Unused, Writers
<1>6. ReadsInv
  <2>1. DOMAIN disk = Directories
    BY DEF Init
  <2>2. ReadsOK(Fresh) /\ CheckOK(Fresh)
    BY <1>3 DEF ReadsOK, CheckOK, IsLockCommand
  <2> QED
    BY <1>1, <2>1, <2>2 DEF ReadsInv
<1> QED
  BY <1>2, <1>5, <1>6 DEF Inv

(* A step of a process that leaves the files and the counter alone, and    *)
(* goes on reading or ends.                                                *)
LEMMA FilesRead ==
  ASSUME FilesInv, States, NEW p \in Processes,
         \/ LookBeforeCreate(p) \/ LookBeforeCheck(p)
         \/ ReadInput(p) \/ ReadManifest(p) \/ Compare(p) \/ Save(p) \/ Die(p)
  PROVE  States' /\ FilesInv'
<1> DEFINE t == process[p]
           Ends(s) == s.pc \in {"idle", "done"}
           GoesOn(s) == s.pc = "read" /\ s.number = t.number /\ Reading(p)
<1>1. UNCHANGED <<files, contents, started>>
  BY DEF LookBeforeCreate, LookBeforeCheck, ReadInput, ReadManifest, Compare, Save, Die
<1>2. t.number \in 0..started /\ 0 \in 0..started
  BY DEF FilesInv, Numbers
<1>3. ASSUME NEW code, Exit(p, code)
      PROVE  States' /\ FilesInv'
  <2>1. States' /\ \E s : /\ Moves(p, s) /\ SameWriter(s, t) /\ s.pc = "done"
    BY <1>3, ExitMoves
  <2>2. PICK s : Moves(p, s) /\ SameWriter(s, t) /\ s.pc = "done"
    BY <2>1
  <2>3. s.number \in 0..started
    BY <1>2, <2>2 DEF SameWriter
  <2> QED
    BY <1>1, <2>1, <2>2, <2>3, FilesQuiet
<1>4. ASSUME NEW s, Moves(p, s), SameWriter(s, t), s.pc = "read", Reading(p)
      PROVE  FilesInv'
  <2>1. s.number = t.number
    BY <1>4 DEF SameWriter
  <2> QED
    BY <1>1, <1>2, <1>4, <2>1, FilesQuiet
<1>5. CASE LookBeforeCreate(p) \/ LookBeforeCheck(p)
  <2>1. Reading(p)
    BY <1>5 DEF LookBeforeCreate, LookBeforeCheck, At, Reading
  <2>2. CASE Exit(p, 1)
    BY <1>3, <2>2
  <2>3. CASE process' = [process EXCEPT ![p].pc = "read"]
    <3>1. /\ States'
          /\ \E s : /\ Moves(p, s)
                    /\ SameWriter(s, process[p]) /\ SameReads(s, process[p])
                    /\ s.pc = "read" /\ s.lock = process[p].lock
                    /\ s.exit = process[p].exit
      BY <2>3, PcMoves, Zenon
    <3> QED
      BY <1>4, <2>1, <3>1
  <2>4. CASE process' = [process EXCEPT ![p].pc = "read",
                                        ![p].lock = contents[files[LockOutput]]]
    <3> DEFINE lock == contents[files[LockOutput]]
    <3>1. process' = [process EXCEPT ![p].pc = "read", ![p].lock = lock]
      BY <2>4
    <3> HIDE DEF lock
    <3>2. /\ States'
          /\ \E s : /\ Moves(p, s)
                    /\ SameWriter(s, process[p]) /\ SameReads(s, process[p])
                    /\ s.pc = "read" /\ s.lock = lock
      BY <3>1, LookMoves, Zenon
    <3> QED
      BY <1>4, <2>1, <3>2
  <2> QED
    BY <1>5, <2>2, <2>3, <2>4 DEF LookBeforeCreate, LookBeforeCheck
<1>6. CASE ReadInput(p)
  <2> DEFINE todo == Tail(t.todo)
             i == Head(t.todo)
             read == [j \in DOMAIN t.read \cup {i} |->
                        IF j = i THEN inputs[i] ELSE t.read[j]]
  <2>1. Reading(p) /\ t.pc = "read"
    BY <1>6 DEF ReadInput, At, Reading
  <2>2. Exit(p, 1) \/ TakesInput(p, todo, read)
    BY <1>6 DEF ReadInput, TakesInput, States
  <2> HIDE DEF todo, read
  <2>3. CASE TakesInput(p, todo, read)
    <3>1. /\ States'
          /\ \E s : Moves(p, s) /\ SameWriter(s, t) /\ s.pc = t.pc
      BY <2>3, InputMoves
    <3> QED
      BY <1>4, <2>1, <3>1
  <2> QED
    BY <1>3, <2>2, <2>3
<1>7. CASE ReadManifest(p)
  <2> DEFINE todo == Tail(t.todo)
             d == Head(t.todo)
             kept == KeepRecord(t.records, d, disk[d])
  <2>1. Reading(p) /\ t.pc = "read"
    BY <1>7 DEF ReadManifest, At, Reading
  <2>2. Exit(p, 1) \/ TakesManifest(p, todo, kept)
    BY <1>7 DEF ReadManifest, TakesManifest, States
  <2> HIDE DEF todo, kept
  <2>3. CASE TakesManifest(p, todo, kept)
    <3>1. /\ States'
          /\ \E s : Moves(p, s) /\ SameWriter(s, t) /\ s.pc = t.pc
      BY <2>3, ManifestMoves
    <3> QED
      BY <1>4, <2>1, <3>1
  <2> QED
    BY <1>3, <2>2, <2>3
<1>8. CASE Compare(p)
  <2>1. Exit(p, 0) \/ Exit(p, 1)
    BY <1>8 DEF Compare
  <2> QED
    BY <1>3, <2>1
<1>9. CASE Save(p)
  BY <1>3, <1>9 DEF Save
<1>10. CASE Die(p)
  <2>1. States' /\ Moves(p, Fresh)
    BY <1>10, DieMoves DEF Die
  <2>2. Fresh.pc = "idle" /\ Fresh.number = 0
    BY DEF Fresh
  <2> QED
    BY <1>1, <1>2, <2>1, <2>2, FilesQuiet
<1> QED
  BY <1>5, <1>6, <1>7, <1>8, <1>9, <1>10

LEMMA ReadsSave ==
  ASSUME ReadsInv, States, NEW p \in Processes, Save(p)
  PROVE  ReadsInv'
<1>1. /\ Exit(p, 0) /\ UNCHANGED <<disk, inputs>>
      /\ process[p].command.name # "lock check"
  BY DEF Save
<1> QED
  BY <1>1, ReadsExit

LEMMA InvStep == Inv /\ [Next]_vars => Inv'
<1> SUFFICES ASSUME Inv, [Next]_vars
             PROVE  Inv'
  OBVIOUS
<1> USE DEF Inv
<1>1. ASSUME NEW p \in Processes,
             \/ \E c \in Commands : Start(p, c)
             \/ LookBeforeCreate(p) \/ LookBeforeCheck(p)
             \/ ReadInput(p) \/ ReadManifest(p)
             \/ Compare(p) \/ Save(p)
             \/ OpenTemp(p) \/ FillTemp(p) \/ RenameTemp(p)
             \/ Die(p)
      PROVE  Inv'
  <2>1. ASSUME NEW c \in Commands, Start(p, c)
        PROVE  Inv'
    BY <2>1, FilesStart, ReadsStart, StartMoves
  <2>2. CASE LookBeforeCreate(p) \/ LookBeforeCheck(p)
    BY <2>2, FilesRead, ReadsLook
  <2>3. CASE ReadInput(p)
    BY <2>3, FilesRead, ReadsInput
  <2>4. CASE ReadManifest(p)
    BY <2>4, FilesRead, ReadsManifest
  <2>5. CASE Compare(p)
    BY <2>5, FilesRead, ReadsCompare
  <2>6. CASE Save(p)
    BY <2>6, FilesRead, ReadsSave
  <2>7. CASE OpenTemp(p) \/ FillTemp(p) \/ RenameTemp(p)
    <3>1. States'
      <4>1. CASE OpenTemp(p)
        <5> DEFINE temp  == TempOf(process[p].command, process[p].number)
                   inode == IF temp \in DOMAIN files THEN files[temp]
                                                     ELSE process[p].number
        <5>1. process' = [process EXCEPT ![p].pc = "fill", ![p].inode = inode]
          BY <4>1 DEF OpenTemp
        <5> HIDE DEF inode
        <5> QED
          BY <5>1, OpenMoves
      <4>2. CASE FillTemp(p)
        <5>1. process' = [process EXCEPT ![p].pc = "rename"]
          BY <4>2 DEF FillTemp
        <5> QED
          BY <5>1, PcMoves, Zenon
      <4>3. CASE RenameTemp(p)
        <5>1. Exit(p, 0) \/ Exit(p, 1)
          BY <4>3 DEF RenameTemp
        <5> QED
          BY <5>1, ExitMoves
      <4> QED
        BY <2>7, <4>1, <4>2, <4>3
    <3> QED
      BY <2>7, <3>1, FilesOpen, FilesFill, FilesRename, ReadsWrite
  <2>8. CASE Die(p)
    BY <2>8, FilesRead, ReadsDie
  <2> QED
    BY <1>1, <2>1, <2>2, <2>3, <2>4, <2>5, <2>6, <2>7, <2>8
<1>2. ASSUME Disturb, DOMAIN disk' = DOMAIN disk,
             UNCHANGED <<files, contents, started>>
      PROVE  Inv'
  BY <1>2, DisturbMoves, FilesSame, ReadsDisturb
<1>3. ASSUME NEW i \in InputNames, NEW v, EditInput(i, v)
      PROVE  Inv'
  BY <1>2, <1>3 DEF EditInput
<1>4. ASSUME NEW d \in Directories, NEW m, EditManifest(d, m)
      PROVE  Inv'
  BY <1>2, <1>4 DEF EditManifest
<1>5. CASE UNCHANGED vars
  <2>1. /\ UNCHANGED <<files, contents, started, disk, inputs>>
        /\ process' = process
    BY <1>5 DEF vars
  <2>2. States'
    BY <2>1 DEF States
  <2>3. FilesInv'
    BY <2>1, FilesSame DEF SameWriter
  <2>4. ReadsInv'
    BY <2>1 DEF ReadsInv, ReadsOK, CheckOK
  <2> QED
    BY <2>1, <2>2, <2>3, <2>4
<1> QED
  BY <1>1, <1>3, <1>4, <1>5 DEF Next

-----------------------------------------------------------------------------
(***************************************************************************)
(* The properties.                                                         *)
(***************************************************************************)

(* The lock file is whole, whatever processes write it and wherever they   *)
(* die: writeFileAtomic fills a file of the process's own before it gives  *)
(* it the name.                                                            *)
THEOREM LockFileStaysWhole == Spec => []LockFileIsWhole
<1>1. Inv => LockFileIsWhole
  BY DEF Inv, FilesInv, Wholes, GoodLock, LockFileIsWhole
<1> QED
  BY <1>1, InvInit, InvStep, PTL DEF Spec

(* A lock binds what a command read: no drift of a bound input means that  *)
(* they are the same, and the same catalog lacks no connector of the lock. *)
LEMMA InSyncTellsBound ==
  ASSUME NEW lock, NEW current, GoodLock(lock), InSync(lock, current),
         current.bound = [b \in Bound |-> current.bound[b]]
  PROVE  lock.bound = current.bound
<1>1. \A f \in Bound : lock.bound[f] = current.bound[f]
  <2> SUFFICES ASSUME NEW f \in Bound, lock.bound[f] # current.bound[f]
               PROVE  FALSE
    OBVIOUS
  <2> DEFINE d == Drift(<<f>>, "critical")
  <2>1. d \in Drifts(lock, current)
    BY DEF Drifts, BoundDrifts
  <2>2. d.severity = "critical"
    BY DEF Drift
  <2> QED
    BY <2>1, <2>2 DEF InSync
<1> DEFINE old == lock.bound
           new == current.bound
<1>2. old = [b \in Bound |-> old[b]] /\ new = [b \in Bound |-> new[b]]
  BY DEF GoodLock
<1>3. \A f \in Bound : old[f] = new[f]
  BY <1>1
<1> HIDE DEF old, new
<1>4. old = new
  BY <1>2, <1>3
<1> QED
  BY <1>4 DEF old, new

LEMMA BoundTellsInSync ==
  ASSUME NEW lock, NEW current, lock.bound = current.bound,
         "connectors" \in DOMAIN current => lock.connectors \subseteq current.connectors
  PROVE  InSync(lock, current)
<1> SUFFICES ASSUME NEW d \in Drifts(lock, current)
             PROVE  d.severity # "critical"
  BY DEF InSync
<1>1. BoundDrifts(lock, current) = {}
  BY DEF BoundDrifts
<1>2. /\ "connectors" \in DOMAIN current
      /\ d \in ConnectorDrifts(lock.connectors, current.connectors)
  BY <1>1 DEF Drifts
<1>3. Ids(lock.connectors) \ Ids(current.connectors) = {}
  BY <1>2 DEF Ids
<1>4. \A field : Drift(field, "warning").severity = "warning"
  BY DEF Drift
<1>5. \A l, c : \A e \in IntegrationDrifts(l, c) : e.severity = "warning"
  BY <1>4 DEF IntegrationDrifts
<1>6. \/ \E c : d = Drift(<<c>>, "warning")
      \/ \E l, c : d \in IntegrationDrifts(l, c)
  BY <1>2, <1>3 DEF ConnectorDrifts
<1>7. d.severity = "warning"
  BY <1>4, <1>5, <1>6
<1> QED
  BY <1>7

LEMMA NothingInEmpty ==
  ASSUME NEW list, list = <<>>
  PROVE  DOMAIN list = {}
  OBVIOUS

LEMMA FieldsOfBoth ==
  ASSUME NEW current, NEW bound, NEW connectors,
         current = [bound |-> bound, connectors |-> connectors]
  PROVE  current.bound = bound /\ current.connectors = connectors
  OBVIOUS

LEMMA FieldOfOne ==
  ASSUME NEW current, NEW bound, current = [bound |-> bound]
  PROVE  current.bound = bound /\ "connectors" \notin DOMAIN current
  OBVIOUS

LEMMA ExitZero ==
  ASSUME NEW exit, NEW lock, NEW current,
         exit = IF InSync(lock, current) THEN 0 ELSE 1, exit = 0
  PROVE  InSync(lock, current)
  OBVIOUS

(* What a command that read everything, and was not disturbed, compares    *)
(* the lock with is what is there.                                         *)
LEMMA ReadIsThere ==
  ASSUME ReadsInv, NEW p \in Processes,
         process[p].command.name = "lock check", process[p].quiet,
         process[p].todo = <<>>, process[p].command.route
  PROVE  /\ Current(process[p]).bound = WorkspaceInputs
         /\ "connectors" \in DOMAIN Current(process[p]) =>
              Current(process[p]).connectors = Selected(disk)
<1> DEFINE s == process[p]
           records == s.records
           bound == CurrentInputs(s.read, records)
<1>1. ReadsOK(s) /\ IsLockCommand(s.command) /\ DOMAIN disk = Directories
  BY DEF ReadsInv, IsLockCommand
<1>2. ToSet(s.todo) = {}
  <2>1. s.todo = <<>>
    OBVIOUS
  <2> HIDE DEF s
  <2>2. DOMAIN s.todo = {}
    BY <2>1, NothingInEmpty
  <2> QED
    BY <2>2, Zenon DEF ToSet
<1>3. /\ DOMAIN records = Directories
      /\ \A d \in Directories : records[d] = disk[d]
      /\ LockInputs \subseteq DOMAIN s.read
      /\ \A i \in LockInputs : s.read[i] = inputs[i]
  <2> HIDE DEF s
  <2>1. s.todo = <<>> /\ s.command.route /\ s.quiet
    BY DEF s
  <2>2. /\ DOMAIN records \subseteq Directories
        /\ Directories \subseteq DOMAIN records
    BY <1>1, <1>2 DEF ReadsOK
  <2>3. LockInputs \subseteq DOMAIN s.read
    BY <1>1, <1>2, <2>1 DEF ReadsOK
  <2>4. /\ \A i \in DOMAIN s.read : s.read[i] = inputs[i]
        /\ \A d \in DOMAIN s.records : s.records[d] = disk[d]
    BY <1>1, <2>1 DEF ReadsOK
  <2> QED
    BY <2>2, <2>3, <2>4
<1> HIDE DEF records
<1>4. Manifests(records) = Manifests(disk)
  BY <1>1, <1>3 DEF Manifests
<1>5. SnapshotEntries(records) = SnapshotEntries(disk)
  BY <1>4 DEF SnapshotEntries
<1>6. Selected(records) = Selected(disk)
  BY <1>4 DEF Selected
<1>7. bound = WorkspaceInputs
  <2>1. \A b \in Bound :
          bound[b] = IF b = "catalog" THEN SnapshotEntries(disk) ELSE inputs[b]
    BY <1>3, <1>5 DEF CurrentInputs, Bound, LockInputs
  <2>2. bound = [b \in Bound |-> bound[b]]
    BY DEF CurrentInputs
  <2> HIDE DEF bound
  <2> QED
    BY <2>1, <2>2 DEF WorkspaceInputs
<1> HIDE DEF bound
<1>8. Current(s) = IF s.command.connectors
                     THEN [bound |-> bound, connectors |-> Selected(records)]
                     ELSE [bound |-> bound]
  BY DEF Current, bound, records
<1> HIDE DEF s
<1>9. CASE s.command.connectors
  <2>1. Current(s) = [bound |-> bound, connectors |-> Selected(records)]
    BY <1>8, <1>9, Zenon
  <2>2. Current(s).bound = bound /\ Current(s).connectors = Selected(records)
    BY <2>1, FieldsOfBoth
  <2> QED
    BY <1>6, <1>7, <2>2 DEF s
<1>10. CASE ~s.command.connectors
  <2>1. Current(s) = [bound |-> bound]
    BY <1>8, <1>10, Zenon
  <2>2. Current(s).bound = bound /\ "connectors" \notin DOMAIN Current(s)
    BY <2>1, FieldOfOne
  <2> QED
    BY <1>7, <2>2 DEF s
<1> QED
  BY <1>9, <1>10

(* lock check tells the truth of a workspace at rest: it exits 0 just when *)
(* the lock binds every input as it is, and then the connectors the lock   *)
(* names are there as it names them.                                       *)
THEOREM CheckStaysTruthful == Spec => []CheckTellsDrift
<1>1. Inv => CheckTellsDrift
  <2> SUFFICES ASSUME Inv, NEW p \in Processes,
                      process[p].pc = "done", process[p].command.name = "lock check",
                      process[p].quiet, process[p].todo = <<>>,
                      process[p].lock # Empty, process[p].command.route
               PROVE  /\ process[p].exit = 0 => process[p].lock.bound = WorkspaceInputs
                      /\ process[p].exit = 0 =>
                           process[p].lock.connectors \subseteq Selected(disk)
                      /\ process[p].lock.bound = WorkspaceInputs => process[p].exit = 0
    BY DEF CheckTellsDrift
  <2> DEFINE s == process[p]
             lock == s.lock
             current == Current(s)
  <2>1. /\ GoodLock(lock)
        /\ s.exit = IF InSync(lock, current) THEN 0 ELSE 1
    BY DEF Inv, ReadsInv, CheckOK
  <2>2. /\ current.bound = WorkspaceInputs
        /\ "connectors" \in DOMAIN current => current.connectors = Selected(disk)
    BY ReadIsThere DEF Inv
  <2> HIDE DEF lock, current
  <2>3. WorkspaceInputs = [b \in Bound |-> WorkspaceInputs[b]]
        /\ WorkspaceInputs["catalog"] = SnapshotEntries(disk)
    BY DEF WorkspaceInputs, Bound
  <2>4. lock.bound = WorkspaceInputs => lock.connectors \subseteq Selected(disk)
    BY <2>1, <2>3, SelectedOfCatalog DEF GoodLock
  <2>5. s.exit = 0 => lock.bound = WorkspaceInputs
    <3>1. current.bound = [b \in Bound |-> current.bound[b]]
      BY <2>2, <2>3
    <3>2. s.exit = 0 => InSync(lock, current)
      BY <2>1, ExitZero
    <3>3. InSync(lock, current) => lock.bound = current.bound
      BY <2>1, <3>1, InSyncTellsBound
    <3> QED
      BY <2>2, <3>2, <3>3
  <2>6. lock.bound = WorkspaceInputs => s.exit = 0
    BY <2>1, <2>2, <2>4, BoundTellsInSync
  <2> QED
    BY <2>4, <2>5, <2>6 DEF lock
<1> QED
  BY <1>1, InvInit, InvStep, PTL DEF Spec

=============================================================================
