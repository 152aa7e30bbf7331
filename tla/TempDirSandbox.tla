--------------------------- MODULE TempDirSandbox ---------------------------
(***************************************************************************)
(* TempDirSandboxSession (temp-dir-sandbox.ts, path-safety.ts, snapshot.ts)*)
(* call by call.  A write or a removal counts itself, and then awaits the  *)
(* file system several times; between two awaits other calls run, of the   *)
(* same session or of another session over the same directory (two runs    *)
(* given one sandbox id).                                                  *)
(*                                                                         *)
(* A path is in the form the checks leave it, without "." and separators   *)
(* at the end.  The code tells entries apart by device, inode and mode; the *)
(* inode of an entry that is gone may be given to a new one.               *)
(***************************************************************************)
EXTENDS Naturals, FiniteSets

CONSTANTS
    Sessions,      \* the sessions, all over one directory and sandbox id
    Calls,         \* the invocations of write and remove
    Paths,         \* the paths below the root
    Ancestors,     \* for each path, the directories above it
    Contents,
    Size,          \* the bytes of each content
    WritableRoots, \* sets of paths of the policy; All stands for "."
    DenyPaths,
    All,
    MaxFiles,      \* limits of the policy
    MaxBytes,
    MaxOperations,
    InitialTrees   \* what the directory may hold at first

VARIABLES
    tree,        \* the entry at each path
    temps,       \* the temporary siblings of writes in progress
    operations,  \* #operations, by session
    bytes,       \* #bytes, by session
    over,        \* the sessions that are closed or past maxDurationSeconds
    calls        \* the local state of each invocation

tempVars == <<tree, temps, operations, bytes, over, calls>>

NoContent == "none"
Initially == "initially"

\* An inode goes by the call and the path of the entry that had it first.
NoInode == <<>>
Inodes == (Calls \cup {Initially}) \X Paths

Entry ==
    [kind : {"absent", "directory", "file"}, content : Contents \cup {NoContent},
     inode : Inodes \cup {NoInode}]

FilesOf(t) == {p \in Paths : t[p].kind = "file"}

ASSUME SandboxAssumption ==
    /\ IsFiniteSet(Calls) /\ IsFiniteSet(Paths)
    /\ Ancestors \in [Paths -> SUBSET Paths]
    /\ Size \in [Contents -> Nat]
    /\ MaxFiles \in Nat /\ MaxBytes \in Nat /\ MaxOperations \in Nat
    /\ DenyPaths \subseteq Paths
    /\ InitialTrees \subseteq [Paths -> Entry]
    /\ \A t \in InitialTrees : Cardinality(FilesOf(t)) <= MaxFiles

\* Directories are above one another as in a tree, a content is no kind of
\* entry, and what is a file at first has one.
ASSUME TreeAssumption ==
    /\ \A p \in Paths :
        /\ p \notin Ancestors[p]
        /\ \A a \in Ancestors[p] : Ancestors[a] \subseteq Ancestors[p]
    /\ {"absent", "directory"} \cap Contents = {}
    /\ \A t \in InitialTrees, p \in Paths :
        /\ t[p].kind = "file" => t[p].content \in Contents
        /\ t[p].kind # "absent" => t[p].inode = <<Initially, p>>

Nothing == [kind |-> "absent", content |-> NoContent, inode |-> NoInode]
Directory(i) == [kind |-> "directory", content |-> NoContent, inode |-> i]
File(content, i) == [kind |-> "file", content |-> content, inode |-> i]

\* entryIdentity, null for an entry that is absent: all modes of files are one,
\* and all modes of directories
Identity(entry) == [kind |-> entry.kind, inode |-> entry.inode]

Requests ==
    [op : {"write"}, path : Paths, content : Contents] \cup
    [op : {"remove"}, path : Paths, content : {NoContent}]

NewCall ==
    [pc |-> "new", session |-> {}, request |-> {}, seen |-> Identity(Nothing),
     number |-> 0, removes |-> "absent"]

Request(c) == CHOOSE q \in calls[c].request : TRUE
Session(c) == CHOOSE s \in calls[c].session : TRUE
Path(c) == Request(c).path
ParentsOf(c) == Ancestors[Path(c)]

WritePcs == {"making", "made", "counting", "writing", "written", "renaming",
             "cleaning"}
RemovePcs == {"inspecting", "inspected", "removing"}

InFlight(c) == calls[c].pc \in {"resolving"} \cup WritePcs \cup RemovePcs
Ended(c) == calls[c].pc \in {"returned", "refused"}

-----------------------------------------------------------------------------
(* path-safety.ts and snapshot.ts *)

\* assertPathAllowed: in a writable root, and not in a denied path
PathAllowed(p) ==
    /\ \/ All \in WritableRoots
       \/ (Ancestors[p] \cup {p}) \cap WritableRoots # {}
    /\ (Ancestors[p] \cup {p}) \cap DenyPaths = {}

\* assertSafeEntryChain: what is above the target must be directories
SafeEntryChain(p) == \A a \in Ancestors[p] : tree[a].kind # "file"

\* buildSnapshot: every entry found, the temporary files of writes included
SnapshotFiles == Cardinality(FilesOf(tree)) + Cardinality(temps)

Children(p) ==
    {q \in Paths : p \in Ancestors[q] /\ tree[q].kind # "absent"}
        \cup {t \in temps : p \in t.parent}

Present(ps) == \A a \in ps : tree[a].kind = "directory"

-----------------------------------------------------------------------------
(* The start of a call: what it does before its first await *)

Goto(c, pc) == calls' = [calls EXCEPT ![c].pc = pc]

\* The call throws; nothing of its state is left.
RefusedFrom(s) == [NewCall EXCEPT !.pc = "refused", !.session = {s}]

Refuse(c) == calls' = [calls EXCEPT ![c] = RefusedFrom(Session(c))]

Starts(c, s, q, admitted) ==
    calls' = [calls EXCEPT ![c] =
                 IF admitted
                 THEN [@ EXCEPT !.pc = "resolving", !.session = {s}, !.request = {q}]
                 ELSE RefusedFrom(s)]

\* assertOpen and assertTimeBudget
Denied(s) == s \in over

Uncounted(c, s, q) ==
    /\ Denied(s)
    /\ Starts(c, s, q, FALSE)
    /\ UNCHANGED <<operations, bytes>>

OverOperations(s) == operations[s] + 1 > MaxOperations

OverBytes(s, q) == q.op = "write" /\ bytes[s] + Size[q.content] > MaxBytes

\* The operation counts whatever comes of it, the bytes unless the operation
\* limit has refused it; the policy is asked last.
Counted(c, s, q) ==
    /\ ~Denied(s)
    /\ operations' = [operations EXCEPT ![s] = @ + 1]
    /\ bytes' = IF q.op = "write" /\ ~OverOperations(s)
                THEN [bytes EXCEPT ![s] = @ + Size[q.content]] ELSE bytes
    /\ Starts(c, s, q, /\ ~OverOperations(s)
                       /\ ~OverBytes(s, q)
                       /\ PathAllowed(q.path))

Start(c, s, q) ==
    /\ calls[c].pc = "new"
    /\ Uncounted(c, s, q) \/ Counted(c, s, q)
    /\ UNCHANGED <<tree, temps, over>>

\* resolveMutationTarget: remembers which entry it authorized
Resolve(c) ==
    /\ calls[c].pc = "resolving"
    /\ IF SafeEntryChain(Path(c))
       THEN calls' = [calls EXCEPT ![c].seen = Identity(tree[Path(c)]),
                 ![c].pc = IF Request(c).op = "write" THEN "making"
                           ELSE "inspecting"]
       ELSE Refuse(c)
    /\ UNCHANGED <<tree, temps, operations, bytes, over>>

\* revalidateMutationTarget
SameTarget(c) ==
    SafeEntryChain(Path(c)) /\ Identity(tree[Path(c)]) = calls[c].seen

\* The inodes the file system may give to new entries of call c at these paths:
\* others than are in use.  A free one makes a difference only if some call has
\* seen it; the one named after c stands for all others.
InUse == {tree[p].inode : p \in Paths} \cup {t.file.inode : t \in temps}

Reusable == {calls[x].seen.inode : x \in Calls} \ (InUse \cup {NoInode})

NewInodes(c, paths) ==
    {inodes \in [paths -> Inodes] :
        /\ \A p \in paths : inodes[p] \in Reusable \cup {<<c, p>>}
        /\ \A p, q \in paths : inodes[p] = inodes[q] => p = q}

-----------------------------------------------------------------------------
(* write *)

ReturnedFrom(c) ==
    [NewCall EXCEPT !.pc = "returned", !.session = calls[c].session,
                    !.request = calls[c].request]

Effects(c, entry) ==
    /\ tree' = [tree EXCEPT ![Path(c)] = entry]
    /\ calls' = [calls EXCEPT ![c] = ReturnedFrom(c)]

\* mkdir(parent, recursive)
MakeParents(c) ==
    /\ calls[c].pc = "making"
    /\ IF SafeEntryChain(Path(c))
       THEN LET made == {p \in ParentsOf(c) : tree[p].kind = "absent"}
            IN  /\ \E inodes \in NewInodes(c, made) :
                      tree' = [p \in Paths |->
                         IF p \in made THEN Directory(inodes[p]) ELSE tree[p]]
                /\ Goto(c, "made")
       ELSE Refuse(c) /\ UNCHANGED tree
    /\ UNCHANGED <<temps, operations, bytes, over>>

CheckBeforeWrite(c) ==
    /\ calls[c].pc = "made"
    /\ IF SameTarget(c)
       THEN Goto(c, IF calls[c].seen.kind = "absent" THEN "counting" ELSE "writing")
       ELSE Refuse(c)
    /\ UNCHANGED <<tree, temps, operations, bytes, over>>

\* Mutant: off by one.
CountFilesLate(c) ==
    /\ calls[c].pc = "counting"
    /\ IF SnapshotFiles > MaxFiles THEN Refuse(c) ELSE Goto(c, "writing")
    /\ UNCHANGED <<tree, temps, operations, bytes, over>>

CountFiles(c) ==
    /\ calls[c].pc = "counting"
    /\ IF SnapshotFiles >= MaxFiles THEN Refuse(c) ELSE Goto(c, "writing")
    /\ UNCHANGED <<tree, temps, operations, bytes, over>>

\* The temporary sibling is named after the sandbox id and #operations as it
\* is now: another call may have counted since, or have the same number.
Named(parent, number) ==
    {t \in temps : t.parent = parent /\ t.number = number}

TempOf(c) == Named(ParentsOf(c), calls[c].number)

\* writeFile with the flag wx; in a directory that is gone, or under a name
\* that is taken, it fails.
WriteTemp(c) ==
    /\ calls[c].pc = "writing"
    /\ LET number == operations[Session(c)]
           free == Present(ParentsOf(c)) /\ Named(ParentsOf(c), number) = {}
       IN  /\ IF free
              THEN \E inodes \in NewInodes(c, {Path(c)}) :
                      temps' = temps \cup {[parent |-> ParentsOf(c),
                          number |-> number,
                          file |-> File(Request(c).content, inodes[Path(c)])]}
              ELSE UNCHANGED temps
           /\ calls' = [calls EXCEPT ![c].number = number,
                           ![c].pc = IF free THEN "written" ELSE "cleaning"]
    /\ UNCHANGED <<tree, operations, bytes, over>>

CheckBeforeRename(c) ==
    /\ calls[c].pc = "written"
    /\ Goto(c, IF SameTarget(c) THEN "renaming" ELSE "cleaning")
    /\ UNCHANGED <<tree, temps, operations, bytes, over>>

\* rename: what is under the name goes to the target, whoever wrote it; there
\* may be nothing, or the target may be a directory.
Rename(c) ==
    /\ calls[c].pc = "renaming"
    /\ IF TempOf(c) # {} /\ tree[Path(c)].kind # "directory"
       THEN \E t \in TempOf(c) :
              /\ Effects(c, t.file)
              /\ temps' = temps \ {t}
       ELSE Goto(c, "cleaning") /\ UNCHANGED <<tree, temps>>
    /\ UNCHANGED <<operations, bytes, over>>

\* Mutant: the error is thrown on without removing the temporary file.
CleanUpNothing(c) ==
    /\ calls[c].pc = "cleaning"
    /\ Refuse(c)
    /\ UNCHANGED <<tree, temps, operations, bytes, over>>

\* rm(tempPath, force): whatever is under that name
CleanUp(c) ==
    /\ calls[c].pc = "cleaning"
    /\ temps' = temps \ TempOf(c)
    /\ Refuse(c)
    /\ UNCHANGED <<tree, operations, bytes, over>>

-----------------------------------------------------------------------------
(* remove *)

\* lstat and readdir; the kind found decides between rmdir and rm
Inspect(c) ==
    /\ calls[c].pc = "inspecting"
    /\ IF \/ tree[Path(c)].kind = "absent"
          \/ tree[Path(c)].kind = "directory" /\ Children(Path(c)) # {}
       THEN Refuse(c)
       ELSE calls' = [calls EXCEPT ![c].removes = tree[Path(c)].kind,
                                   ![c].pc = "inspected"]
    /\ UNCHANGED <<tree, temps, operations, bytes, over>>

CheckBeforeRemove(c) ==
    /\ calls[c].pc = "inspected"
    /\ IF SameTarget(c) THEN Goto(c, "removing") ELSE Refuse(c)
    /\ UNCHANGED <<tree, temps, operations, bytes, over>>

\* rmdir fails if the directory has been filled, rm and rmdir if the entry is
\* gone or of the other kind.
Remove(c) ==
    /\ calls[c].pc = "removing"
    /\ IF tree[Path(c)].kind = calls[c].removes
            /\ (tree[Path(c)].kind = "directory" => Children(Path(c)) = {})
       THEN Effects(c, Nothing)
       ELSE Refuse(c) /\ UNCHANGED tree
    /\ UNCHANGED <<temps, operations, bytes, over>>

-----------------------------------------------------------------------------
\* close(), or the clock; calls that have started go on.
End(s) ==
    /\ over' = over \cup {s}
    /\ UNCHANGED <<tree, temps, operations, bytes, calls>>

TempInit ==
    /\ tree \in InitialTrees
    /\ temps = {}
    /\ operations = [s \in Sessions |-> 0]
    /\ bytes = [s \in Sessions |-> 0]
    /\ over = {}
    /\ calls = [c \in Calls |-> NewCall]

\* The steps of a call after its start.
Continue(c) ==
    \/ Resolve(c)
    \/ MakeParents(c)
    \/ CheckBeforeWrite(c)
    \/ CountFiles(c)
    \/ WriteTemp(c)
    \/ CheckBeforeRename(c)
    \/ Rename(c)
    \/ CleanUp(c)
    \/ Inspect(c)
    \/ CheckBeforeRemove(c)
    \/ Remove(c)

=============================================================================
