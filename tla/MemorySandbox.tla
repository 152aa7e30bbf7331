---------------------------- MODULE MemorySandbox ----------------------------
(***************************************************************************)
(* MemorySandboxSession (memory-sandbox.ts), the reference implementation. *)
(* No call awaits anything, so each is one function of the session: it     *)
(* gives the session afterwards and whether the call returned.             *)
(***************************************************************************)
EXTENDS Naturals, FiniteSets

CONSTANTS
    Paths, Ancestors, Contents, Size, WritableRoots, DenyPaths, All,
    MaxFiles, MaxBytes, MaxOperations

\* A session: #tree (a path that is no key is absent), #operations, #bytes.
Session(tree) == [tree |-> tree, operations |-> 0, bytes |-> 0]

\* assertWritable: asked of writes only
Writable(p) ==
    /\ \/ All \in WritableRoots
       \/ (Ancestors[p] \cup {p}) \cap WritableRoots # {}
    /\ (Ancestors[p] \cup {p}) \cap DenyPaths = {}

IsFile(tree, p) == tree[p] \in Contents

\* ensureParents: from the top down, to the first parent that is a file
WithParents(tree, p) ==
    [q \in Paths |->
        IF /\ q \in Ancestors[p]
           /\ tree[q] = "absent"
           /\ \A a \in Ancestors[q] : ~IsFile(tree, a)
        THEN "directory" ELSE tree[q]]

\* Mutant: directories are counted.
CountEntries(tree) == Cardinality({p \in Paths : tree[p] # "absent"})

CountFiles(tree) == Cardinality({p \in Paths : IsFile(tree, p)})

Refused(session) == [session |-> session, returned |-> FALSE]

\* #writeInternal: the parents come first, then the counting, in this order
Write(session, denied, p, content) ==
    LET parents == [session EXCEPT !.tree = WithParents(@, p)]
        counted == [parents EXCEPT !.operations = @ + 1]
        charged == [counted EXCEPT !.bytes = @ + Size[content]]
    IN  IF ~Writable(p) THEN Refused(session)
        ELSE IF (\E a \in Ancestors[p] : IsFile(session.tree, a)) \/ denied
        THEN Refused(parents)
        ELSE IF counted.operations > MaxOperations THEN Refused(counted)
        ELSE IF \/ charged.bytes > MaxBytes
                \/ /\ charged.tree[p] = "absent"
                   /\ CountFiles(charged.tree) >= MaxFiles
        THEN Refused(charged)
        ELSE [session |-> [charged EXCEPT !.tree[p] = content], returned |-> TRUE]

\* remove: counted, and refused for the limit, once the entry is gone
Remove(session, denied, p) ==
    LET emptied == [session EXCEPT !.tree[p] = "absent",
                                   !.operations = @ + 1]
    IN  IF \/ denied
           \/ session.tree[p] = "absent"
           \/ /\ session.tree[p] = "directory"
              /\ \E q \in Paths : p \in Ancestors[q] /\ session.tree[q] # "absent"
        THEN Refused(session)
        ELSE [session |-> emptied,
              returned |-> emptied.operations <= MaxOperations]

=============================================================================
