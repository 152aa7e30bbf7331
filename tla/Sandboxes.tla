------------------------------ MODULE Sandboxes ------------------------------
(***************************************************************************)
(* The two implementations of SandboxSession under the same calls: every   *)
(* call to a session over the temporary directory is also made, at its     *)
(* start, to a memory sandbox that held the same tree.                     *)
(***************************************************************************)
EXTENDS TempDirSandbox

VARIABLES
    memory,      \* the memory session
    answers,     \* what it answered to each call
    apart        \* whether calls have overlapped, or come from two sessions

vars == <<tempVars, memory, answers, apart>>

Memory == INSTANCE MemorySandbox

\* A tree as the memory sandbox holds it.
Seen(t) ==
    [p \in Paths |-> IF t[p].kind = "file" THEN t[p].content ELSE t[p].kind]

AnswerOf(s, q) ==
    IF q.op = "write"
    THEN Memory!Write(memory, Denied(s), q.path, q.content)
    ELSE Memory!Remove(memory, Denied(s), q.path)

\* The memory sandbox follows one session whose calls do not overlap.
Follows(s) ==
    /\ ~apart
    /\ \A c \in Calls : ~InFlight(c) /\ calls[c].session \subseteq {s}

Call(c, s, q) ==
    /\ Start(c, s, q)
    /\ apart' = ~Follows(s)
    /\ IF Follows(s)
       THEN /\ memory' = AnswerOf(s, q).session
            /\ answers' = [answers EXCEPT ![c] = {AnswerOf(s, q).returned}]
       ELSE UNCHANGED <<memory, answers>>

Init ==
    /\ TempInit
    /\ memory = Memory!Session(Seen(tree))
    /\ answers = [c \in Calls |-> {}]
    /\ apart = FALSE

Next ==
    \/ \E c \in Calls, s \in Sessions, q \in Requests : Call(c, s, q)
    \/ /\ \/ \E c \in Calls : Continue(c)
          \/ \E s \in Sessions : End(s)
       /\ UNCHANGED <<memory, answers, apart>>

Spec == Init /\ [][Next]_vars

-----------------------------------------------------------------------------
(* Properties *)

Quiet == \A c \in Calls : ~InFlight(c)

Effected(s) ==
    {c \in Calls : calls[c].pc = "returned" /\ calls[c].session = {s}}

Written(s) == {c \in Effected(s) : Request(c).op = "write"}

\* The bytes written by a set of calls, one element for each.
WrittenBytes(S) == UNION {{c} \X (1..Size[Request(c).content]) : c \in S}

\* While one session makes one call after the other and the directory refuses
\* none, the memory sandbox refuses none either and holds the same tree: a
\* program tested on one of them finds the same in the other.
SequentialAgreement ==
    /\ ~apart /\ Quiet
    /\ \A c \in Calls : calls[c].pc # "refused"
    => /\ memory.tree = Seen(tree)
       /\ \A c \in Calls : calls[c].pc = "returned" => answers[c] = {TRUE}

\* However the calls of a session overlap, those that take effect keep within
\* its operation and byte limits; its file limit is kept while they do not
\* overlap.
WithinLimits ==
    /\ \A s \in Sessions :
        /\ Cardinality(Effected(s)) <= MaxOperations
        /\ Cardinality(WrittenBytes(Written(s))) <= MaxBytes
    /\ ~apart => Cardinality(FilesOf(tree)) <= MaxFiles

\* Every temporary file in the directory is the one of a call in flight, so
\* none is left when calls have failed, wherever they failed and whoever
\* removed whose file.
NoStrayTemps ==
    \A t \in temps : \E c \in Calls :
        calls[c].pc \in {"written", "renaming", "cleaning"} /\ t \in TempOf(c)
=============================================================================
