---------------------------- MODULE SandboxesProofs ----------------------------
(***************************************************************************)
(* Proofs about Sandboxes, for any number of sessions, calls, paths and    *)
(* contents: that no temporary file is left behind, that the limits are    *)
(* kept, and that the two implementations agree under one call after the   *)
(* other.                                                                  *)
(***************************************************************************)
EXTENDS Sandboxes, FiniteSetTheorems, TLAPS

-----------------------------------------------------------------------------
(* The calls *)

\* A record with the fields of NewCall.
IsCall(s) ==
    s = [pc |-> s.pc, session |-> s.session, request |-> s.request,
         seen |-> s.seen, number |-> s.number, removes |-> s.removes]

\* A call that was admitted has a request, and one that was made a session.
CallsInv ==
    /\ calls = [c \in Calls |-> calls[c]]
    /\ \A c \in Calls :
        /\ IsCall(calls[c])
        /\ calls[c].pc # "new" => \E s \in Sessions : calls[c].session = {s}
        /\ calls[c].pc \notin {"new", "refused"} =>
              \E q \in Requests : calls[c].request = {q}

\* Call c becomes s, and the others stay as they are.
Becomes(c, s) ==
    /\ calls' = [x \in Calls |-> calls'[x]]
    /\ calls'[c] = s /\ IsCall(s)
    /\ \A x \in Calls \ {c} : calls'[x] = calls[x]

\* What each step of a call in flight keeps.
Continues(c, s) ==
    /\ Becomes(c, s)
    /\ InFlight(c)
    /\ s.session = calls[c].session
    /\ s.pc # "new"
    /\ s.pc # "refused" => s.request = calls[c].request

LEMMA InFlightIs ==
    ASSUME NEW c
    PROVE  InFlight(c) <=>
              calls[c].pc \in {"resolving", "making", "made", "counting",
                               "writing", "written", "renaming", "cleaning",
                               "inspecting", "inspected", "removing"}
    BY DEF InFlight, WritePcs, RemovePcs

\* The request and the path of a call are those of its field.
LEMMA RequestOf ==
    ASSUME CallsInv, NEW c \in Calls, calls[c].pc \notin {"new", "refused"}
    PROVE  /\ Request(c) \in Requests
           /\ calls[c].request = {Request(c)}
           /\ Path(c) \in Paths
           /\ ParentsOf(c) \subseteq Paths
<1>1. PICK q \in Requests : calls[c].request = {q}
    BY DEF CallsInv
<1>2. Request(c) = q
    BY <1>1 DEF Request
<1>3. q.path \in Paths
    BY DEF Requests
<1>4. Path(c) \in Paths
    BY <1>2, <1>3 DEF Path
<1>5. ParentsOf(c) \subseteq Paths
    BY <1>4, SandboxAssumption DEF ParentsOf
<1> QED
    BY <1>1, <1>2, <1>4, <1>5

LEMMA SameRequest ==
    ASSUME NEW c, calls'[c].request = calls[c].request
    PROVE  Request(c)' = Request(c) /\ Path(c)' = Path(c) /\ ParentsOf(c)' = ParentsOf(c)
    BY DEF Request, Path, ParentsOf

\* A step that sets the call c alone.
LEMMA OneCall ==
    ASSUME CallsInv, NEW c \in Calls, NEW s, IsCall(s),
           calls' = [calls EXCEPT ![c] = s]
    PROVE  Becomes(c, s)
    BY DEF CallsInv, Becomes

LEMMA SetPc ==
    ASSUME NEW t, IsCall(t), NEW pc, NEW s, s = [t EXCEPT !.pc = pc]
    PROVE  /\ IsCall(s) /\ s.pc = pc
           /\ s.session = t.session /\ s.request = t.request /\ s.seen = t.seen
           /\ s.number = t.number /\ s.removes = t.removes
    BY DEF IsCall

LEMMA SetSeen ==
    ASSUME NEW t, IsCall(t), NEW seen, NEW s, s = [t EXCEPT !.seen = seen]
    PROVE  /\ IsCall(s) /\ s.seen = seen
           /\ s.pc = t.pc /\ s.session = t.session /\ s.request = t.request
           /\ s.number = t.number /\ s.removes = t.removes
    BY DEF IsCall

LEMMA SetNumber ==
    ASSUME NEW t, IsCall(t), NEW number, NEW s, s = [t EXCEPT !.number = number]
    PROVE  /\ IsCall(s) /\ s.number = number
           /\ s.pc = t.pc /\ s.session = t.session /\ s.request = t.request
           /\ s.seen = t.seen /\ s.removes = t.removes
    BY DEF IsCall

LEMMA SetRemoves ==
    ASSUME NEW t, IsCall(t), NEW kind, NEW s, s = [t EXCEPT !.removes = kind]
    PROVE  /\ IsCall(s) /\ s.removes = kind
           /\ s.pc = t.pc /\ s.session = t.session /\ s.request = t.request
           /\ s.seen = t.seen /\ s.number = t.number
    BY DEF IsCall

LEMMA SetSession ==
    ASSUME NEW t, IsCall(t), NEW session, NEW s, s = [t EXCEPT !.session = session]
    PROVE  /\ IsCall(s) /\ s.session = session
           /\ s.pc = t.pc /\ s.request = t.request
           /\ s.seen = t.seen /\ s.number = t.number /\ s.removes = t.removes
    BY DEF IsCall

LEMMA SetRequest ==
    ASSUME NEW t, IsCall(t), NEW request, NEW s, s = [t EXCEPT !.request = request]
    PROVE  /\ IsCall(s) /\ s.request = request
           /\ s.pc = t.pc /\ s.session = t.session
           /\ s.seen = t.seen /\ s.number = t.number /\ s.removes = t.removes
    BY DEF IsCall

LEMMA NewCallIs ==
    /\ IsCall(NewCall) /\ NewCall.pc = "new"
    BY DEF IsCall, NewCall

LEMMA RefusedIs ==
    ASSUME NEW s
    PROVE  /\ IsCall(RefusedFrom(s))
           /\ RefusedFrom(s).pc = "refused" /\ RefusedFrom(s).session = {s}
<1> DEFINE t == [NewCall EXCEPT !.pc = "refused"]
           u == [t EXCEPT !.session = {s}]
<1>1. RefusedFrom(s) = u
    BY DEF RefusedFrom
<1> HIDE DEF u, t
<1>2. t = [NewCall EXCEPT !.pc = "refused"]
    BY DEF t
<1>3. IsCall(t) /\ t.pc = "refused"
    BY <1>2, NewCallIs, SetPc
<1>4. u = [t EXCEPT !.session = {s}]
    BY DEF u
<1>5. IsCall(u) /\ u.pc = "refused" /\ u.session = {s}
    BY <1>3, <1>4, SetSession
<1> QED
    BY <1>1, <1>5

\* The forms that the steps take.
LEMMA GotoContinues ==
    ASSUME CallsInv, NEW c \in Calls, InFlight(c), NEW pc, pc \notin {"new", "refused"},
           Goto(c, pc)
    PROVE  \E s : /\ Continues(c, s) /\ s.pc = pc
                  /\ s.request = calls[c].request
                  /\ s.seen = calls[c].seen /\ s.number = calls[c].number
                  /\ s.removes = calls[c].removes
<1> DEFINE s == [calls[c] EXCEPT !.pc = pc]
<1>1. calls' = [calls EXCEPT ![c] = s]
    BY DEF Goto
<1>2. IsCall(calls[c])
    BY DEF CallsInv
<1> HIDE DEF s
<1>3. /\ IsCall(s) /\ s.pc = pc
      /\ s.session = calls[c].session /\ s.request = calls[c].request
      /\ s.seen = calls[c].seen /\ s.number = calls[c].number
      /\ s.removes = calls[c].removes
    BY <1>2, SetPc DEF s
<1>4. Becomes(c, s)
    BY <1>1, <1>3, OneCall
<1> QED
    BY <1>3, <1>4 DEF Continues

LEMMA RefuseContinues ==
    ASSUME CallsInv, NEW c \in Calls, InFlight(c), Refuse(c)
    PROVE  \E s : Continues(c, s) /\ s.pc = "refused"
<1> DEFINE s == RefusedFrom(Session(c))
<1>1. calls' = [calls EXCEPT ![c] = s]
    BY DEF Refuse
<1>2. calls[c].pc # "new"
    BY InFlightIs
<1>3. PICK r \in Sessions : calls[c].session = {r}
    BY <1>2 DEF CallsInv
<1>4. Session(c) = r
    BY <1>3 DEF Session
<1>5. IsCall(s) /\ s.pc = "refused" /\ s.session = calls[c].session
    BY <1>3, <1>4, RefusedIs
<1> HIDE DEF s
<1>6. Becomes(c, s)
    BY <1>1, <1>5, OneCall
<1> QED
    BY <1>5, <1>6 DEF Continues

-----------------------------------------------------------------------------
(* The temporary files *)

HoldsTemp(pc) == pc \in {"written", "renaming", "cleaning"}

\* No two temporary files of a directory have one name, each is a file, and
\* each is the one of a call in flight.
TempsInv ==
    /\ IsFiniteSet(temps)
    /\ \A t \in temps : t.file \in Entry /\ t.file.kind = "file"
    /\ \A t, u \in temps : t.parent = u.parent /\ t.number = u.number => t = u
    /\ NoStrayTemps

LEMMA TempsQuiet ==
    ASSUME TempsInv, NEW c \in Calls, NEW s, Becomes(c, s), temps' = temps,
           HoldsTemp(calls[c].pc) =>
              /\ HoldsTemp(s.pc) /\ s.number = calls[c].number
              /\ s.request = calls[c].request
    PROVE  TempsInv'
<1> SUFFICES ASSUME NEW t \in temps
             PROVE  \E x \in Calls : HoldsTemp(calls'[x].pc) /\ t \in TempOf(x)'
    BY DEF TempsInv, NoStrayTemps, HoldsTemp
<1>1. PICK x \in Calls : HoldsTemp(calls[x].pc) /\ t \in TempOf(x)
    BY DEF TempsInv, NoStrayTemps, HoldsTemp
<1>2. /\ HoldsTemp(calls'[x].pc) /\ calls'[x].number = calls[x].number
      /\ calls'[x].request = calls[x].request
    <2>1. CASE x = c
        BY <1>1, <2>1 DEF Becomes
    <2>2. CASE x # c
        BY <1>1, <2>2 DEF Becomes
    <2> QED
        BY <2>1, <2>2
<1>3. t \in TempOf(x)'
    BY <1>1, <1>2, SameRequest DEF TempOf, Named
<1> QED
    BY <1>2, <1>3

\* A call loses its temporary file: there is no other of its name.
LEMMA TempsLose ==
    ASSUME TempsInv, NEW c \in Calls, NEW s, Continues(c, s),
           HoldsTemp(calls[c].pc), temps' = temps \ TempOf(c)
    PROVE  TempsInv'
<1>1. IsFiniteSet(temps')
    BY FS_Subset DEF TempsInv
<1>2. ASSUME NEW t \in temps'
      PROVE  \E x \in Calls : HoldsTemp(calls'[x].pc) /\ t \in TempOf(x)'
    <2>1. PICK x \in Calls : HoldsTemp(calls[x].pc) /\ t \in TempOf(x)
        BY DEF TempsInv, NoStrayTemps, HoldsTemp
    <2>2. x # c
        BY <2>1
    <2>3. /\ HoldsTemp(calls'[x].pc) /\ calls'[x].number = calls[x].number
          /\ calls'[x].request = calls[x].request
        BY <2>1, <2>2 DEF Continues, Becomes
    <2>4. t \in TempOf(x)'
        BY <1>2, <2>1, <2>3, SameRequest DEF TempOf, Named
    <2> QED
        BY <2>3, <2>4
<1> QED
    BY <1>1, <1>2 DEF TempsInv, NoStrayTemps, HoldsTemp

\* A call makes its temporary file, under a name that is free.
LEMMA TempsGain ==
    ASSUME TempsInv, NEW c \in Calls, NEW s, Continues(c, s),
           ~HoldsTemp(calls[c].pc), s.pc = "written",
           s.request = calls[c].request,
           Named(ParentsOf(c), s.number) = {},
           NEW file, file \in Entry, file.kind = "file",
           temps' = temps \cup {[parent |-> ParentsOf(c), number |-> s.number,
                                 file |-> file]}
    PROVE  TempsInv'
<1> DEFINE u == [parent |-> ParentsOf(c), number |-> s.number, file |-> file]
<1>1. calls'[c] = s
    BY DEF Continues, Becomes
<1>2. ParentsOf(c)' = ParentsOf(c)
    BY <1>1, SameRequest
<1>3. u.parent = ParentsOf(c) /\ u.number = s.number /\ u.file = file
    OBVIOUS
<1> HIDE DEF u
<1>4. temps' = temps \cup {u}
    BY DEF u
<1>5. IsFiniteSet(temps')
    BY <1>4, FS_AddElement DEF TempsInv
<1>6. \A t \in temps' : t.file \in Entry /\ t.file.kind = "file"
    BY <1>3, <1>4 DEF TempsInv
<1>7. \A t \in temps : ~(t.parent = u.parent /\ t.number = u.number)
    BY <1>3 DEF Named
<1>8. \A t, v \in temps' : t.parent = v.parent /\ t.number = v.number => t = v
    BY <1>4, <1>7 DEF TempsInv
<1>9. ASSUME NEW t \in temps'
      PROVE  \E x \in Calls : HoldsTemp(calls'[x].pc) /\ t \in TempOf(x)'
    <2>1. CASE t = u
        <3>1. t \in TempOf(c)'
            BY <1>1, <1>2, <1>3, <1>4, <2>1 DEF TempOf, Named
        <3>2. HoldsTemp(calls'[c].pc)
            BY <1>1 DEF HoldsTemp
        <3> QED
            BY <3>1, <3>2
    <2>2. CASE t \in temps
        <3>1. PICK x \in Calls : HoldsTemp(calls[x].pc) /\ t \in TempOf(x)
            BY <2>2 DEF TempsInv, NoStrayTemps, HoldsTemp
        <3>2. x # c
            BY <3>1
        <3>3. /\ HoldsTemp(calls'[x].pc) /\ calls'[x].number = calls[x].number
              /\ calls'[x].request = calls[x].request
            BY <3>1, <3>2 DEF Continues, Becomes
        <3>4. t \in TempOf(x)'
            BY <1>4, <3>1, <3>3, SameRequest DEF TempOf, Named
        <3> QED
            BY <3>3, <3>4
    <2> QED
        BY <1>4, <2>1, <2>2
<1> QED
    BY <1>5, <1>6, <1>8, <1>9 DEF TempsInv, NoStrayTemps, HoldsTemp

-----------------------------------------------------------------------------
(* The entries of the directory *)

TreeInv == tree \in [Paths -> Entry]

-----------------------------------------------------------------------------
(* The limits of a session *)

\* The calls of a session that were not refused, and may yet take effect.
Admitted(s) ==
    {c \in Calls : calls[c].session = {s} /\ calls[c].pc \notin {"new", "refused"}}

AdmittedWrites(s) == {c \in Admitted(s) : Request(c).op = "write"}

LimitsOf(s) ==
    /\ operations[s] \in Nat /\ bytes[s] \in Nat
    /\ Cardinality(Admitted(s)) <= operations[s]
    /\ Cardinality(Admitted(s)) <= MaxOperations
    /\ IsFiniteSet(WrittenBytes(AdmittedWrites(s)))
    /\ Cardinality(WrittenBytes(AdmittedWrites(s))) <= bytes[s]
    /\ Cardinality(WrittenBytes(AdmittedWrites(s))) <= MaxBytes

CountersAre ==
    /\ operations = [s \in Sessions |-> operations[s]]
    /\ bytes = [s \in Sessions |-> bytes[s]]

\* What counts for the calls that were admitted is counted.
LimitsInv ==
    /\ CountersAre
    /\ \A s \in Sessions : LimitsOf(s)

LEMMA CallsKept ==
    ASSUME CallsInv, NEW c \in Calls, NEW s, Continues(c, s)
    PROVE  CallsInv'
<1> SUFFICES ASSUME NEW x \in Calls
             PROVE  /\ IsCall(calls'[x])
                    /\ calls'[x].pc # "new" => \E r \in Sessions : calls'[x].session = {r}
                    /\ calls'[x].pc \notin {"new", "refused"} =>
                          \E q \in Requests : calls'[x].request = {q}
    BY DEF CallsInv, Continues, Becomes
<1>1. CASE x = c
    <2>1. calls[c].pc \notin {"new", "refused"}
        BY InFlightIs DEF Continues
    <2> QED
        BY <1>1, <2>1 DEF CallsInv, Continues, Becomes
<1>2. CASE x # c
    BY <1>2 DEF CallsInv, Continues, Becomes
<1> QED
    BY <1>1, <1>2

LEMMA AdmittedFinite ==
    ASSUME NEW s
    PROVE  IsFiniteSet(Admitted(s)) /\ Cardinality(Admitted(s)) \in Nat
    BY SandboxAssumption, FS_Subset, FS_CardinalityType DEF Admitted

\* Sets that shrink stay within the limits.
LEMMA LimitsShrink ==
    ASSUME NEW r \in Sessions, LimitsOf(r),
           operations'[r] \in Nat, operations[r] <= operations'[r],
           bytes'[r] \in Nat, bytes[r] <= bytes'[r],
           Admitted(r)' \subseteq Admitted(r),
           WrittenBytes(AdmittedWrites(r))' \subseteq WrittenBytes(AdmittedWrites(r))
    PROVE  LimitsOf(r)'
<1>1. /\ Cardinality(Admitted(r)') \in Nat /\ Cardinality(Admitted(r)) \in Nat
      /\ Cardinality(Admitted(r)') <= Cardinality(Admitted(r))
    BY AdmittedFinite, FS_Subset, FS_CardinalityType
<1> DEFINE new == WrittenBytes(AdmittedWrites(r))'
           old == WrittenBytes(AdmittedWrites(r))
<1>2. IsFiniteSet(old) /\ new \subseteq old
    BY DEF LimitsOf
<1>3. /\ IsFiniteSet(new)
      /\ Cardinality(new) \in Nat /\ Cardinality(old) \in Nat
      /\ Cardinality(new) <= Cardinality(old)
    <2> HIDE DEF new, old
    <2> QED
        BY <1>2, FS_Subset, FS_CardinalityType
<1>4. /\ operations[r] \in Nat /\ bytes[r] \in Nat
      /\ Cardinality(Admitted(r)) <= operations[r]
      /\ Cardinality(Admitted(r)) <= MaxOperations
      /\ Cardinality(old) <= bytes[r]
      /\ Cardinality(old) <= MaxBytes
    BY DEF LimitsOf
<1>5. MaxOperations \in Nat /\ MaxBytes \in Nat
    BY SandboxAssumption
<1> HIDE DEF new, old
<1>6. /\ Cardinality(Admitted(r)') <= operations'[r]
      /\ Cardinality(Admitted(r)') <= MaxOperations
    BY <1>1, <1>4, <1>5
<1>7. /\ Cardinality(new) <= bytes'[r]
      /\ Cardinality(new) <= MaxBytes
    BY <1>3, <1>4, <1>5
<1> QED
    BY <1>3, <1>6, <1>7 DEF new, old, LimitsOf

\* The bytes of one call.
LEMMA BytesOfOne ==
    ASSUME NEW c, NEW n \in Nat
    PROVE  IsFiniteSet({c} \X (1..n)) /\ Cardinality({c} \X (1..n)) = n
<1>1. IsFiniteSet({c}) /\ Cardinality({c}) = 1
    BY FS_Singleton
<1>2. IsFiniteSet(1..n) /\ Cardinality(1..n) = n
    BY FS_Interval
<1>3. /\ IsFiniteSet({c} \X (1..n))
      /\ Cardinality({c} \X (1..n)) = Cardinality({c}) * Cardinality(1..n)
    BY <1>1, <1>2, FS_Product
<1> QED
    BY <1>1, <1>2, <1>3

LEMMA AtMostTheSum ==
    ASSUME NEW S, IsFiniteSet(S), NEW T, IsFiniteSet(T)
    PROVE  /\ IsFiniteSet(S \cup T) /\ Cardinality(S \cup T) \in Nat
           /\ Cardinality(S \cup T) <= Cardinality(S) + Cardinality(T)
<1>1. /\ IsFiniteSet(S \cup T) /\ IsFiniteSet(S \cap T)
      /\ Cardinality(S \cup T) =
            Cardinality(S) + Cardinality(T) - Cardinality(S \cap T)
    BY FS_Union, FS_Intersection
<1>2. /\ Cardinality(S) \in Nat /\ Cardinality(T) \in Nat
      /\ Cardinality(S \cap T) \in Nat /\ Cardinality(S \cup T) \in Nat
    BY <1>1, FS_CardinalityType
<1> QED
    BY <1>1, <1>2

\* One call is admitted, with n bytes, and counted.
LEMMA LimitsGrow ==
    ASSUME NEW r \in Sessions, LimitsOf(r), NEW c, NEW n \in Nat,
           operations'[r] = operations[r] + 1, operations[r] + 1 <= MaxOperations,
           bytes'[r] = bytes[r] + n, n > 0 => bytes[r] + n <= MaxBytes,
           Admitted(r)' \subseteq Admitted(r) \cup {c},
           WrittenBytes(AdmittedWrites(r))' \subseteq
              WrittenBytes(AdmittedWrites(r)) \cup ({c} \X (1..n))
    PROVE  LimitsOf(r)'
<1>1. /\ operations[r] \in Nat /\ bytes[r] \in Nat
      /\ Cardinality(Admitted(r)) <= operations[r]
      /\ MaxOperations \in Nat /\ MaxBytes \in Nat
    BY SandboxAssumption DEF LimitsOf
<1>2. /\ IsFiniteSet(Admitted(r) \cup {c})
      /\ Cardinality(Admitted(r) \cup {c}) \in Nat
      /\ Cardinality(Admitted(r) \cup {c}) <= Cardinality(Admitted(r)) + 1
    BY AdmittedFinite, FS_Singleton, AtMostTheSum
<1>3. /\ Cardinality(Admitted(r)') \in Nat
      /\ Cardinality(Admitted(r)') <= Cardinality(Admitted(r) \cup {c})
    BY <1>2, FS_Subset, FS_CardinalityType
<1>4. /\ Cardinality(Admitted(r)') <= operations'[r]
      /\ Cardinality(Admitted(r)') <= MaxOperations
    BY <1>1, <1>2, <1>3, AdmittedFinite
<1> DEFINE new == WrittenBytes(AdmittedWrites(r))'
           old == WrittenBytes(AdmittedWrites(r))
           more == {c} \X (1..n)
<1>5. /\ IsFiniteSet(old) /\ new \subseteq old \cup more
      /\ Cardinality(old) <= bytes[r] /\ Cardinality(old) <= MaxBytes
    BY DEF LimitsOf
<1>6. IsFiniteSet(more) /\ Cardinality(more) = n
    BY BytesOfOne
<1> HIDE DEF new, old, more
<1>7. /\ IsFiniteSet(old \cup more) /\ Cardinality(old \cup more) \in Nat
      /\ Cardinality(old \cup more) <= Cardinality(old) + n
    BY <1>5, <1>6, AtMostTheSum
<1>8. /\ IsFiniteSet(new) /\ Cardinality(new) \in Nat
      /\ Cardinality(new) <= Cardinality(old \cup more)
    BY <1>5, <1>7, FS_Subset, FS_CardinalityType
<1>9. Cardinality(old) \in Nat
    BY <1>5, FS_CardinalityType
<1>10. Cardinality(new) <= bytes'[r] /\ Cardinality(new) <= MaxBytes
    <2>1. Cardinality(new) <= Cardinality(old) + n
        BY <1>7, <1>8, <1>9
    <2> QED
        BY <2>1, <1>1, <1>5, <1>8, <1>9
<1>11. operations'[r] \in Nat /\ bytes'[r] \in Nat
    BY <1>1
<1> QED
    BY <1>4, <1>8, <1>10, <1>11 DEF new, old, LimitsOf

LEMMA LimitsKept ==
    ASSUME LimitsInv, CallsInv, NEW c \in Calls, NEW s, Continues(c, s),
           UNCHANGED <<operations, bytes>>
    PROVE  LimitsInv'
<1>1. ASSUME NEW r \in Sessions, NEW x \in Admitted(r)'
      PROVE  x \in Admitted(r) /\ Request(x)' = Request(x)
    <2>1. x \in Calls /\ calls'[x].session = {r} /\ calls'[x].pc \notin {"new", "refused"}
        BY <1>1 DEF Admitted
    <2>2. CASE x = c
        <3>1. calls[c].pc \notin {"new", "refused"}
            BY InFlightIs DEF Continues
        <3>2. calls[x].session = {r} /\ calls'[x].request = calls[x].request
            BY <2>1, <2>2 DEF Continues, Becomes
        <3> QED
            BY <2>1, <2>2, <3>1, <3>2, SameRequest DEF Admitted
    <2>3. CASE x # c
        <3>1. calls'[x] = calls[x]
            BY <2>1, <2>3 DEF Continues, Becomes
        <3> QED
            BY <2>1, <3>1, SameRequest DEF Admitted
    <2> QED
        BY <2>2, <2>3
<1>2. ASSUME NEW r \in Sessions, NEW x \in AdmittedWrites(r)'
      PROVE  x \in AdmittedWrites(r) /\ Request(x)' = Request(x)
    BY <1>1, <1>2 DEF AdmittedWrites
<1>3. ASSUME NEW r \in Sessions
      PROVE  WrittenBytes(AdmittedWrites(r))' \subseteq WrittenBytes(AdmittedWrites(r))
    BY <1>2 DEF WrittenBytes
<1>4. ASSUME NEW r \in Sessions
      PROVE  LimitsOf(r)'
    <2>1. LimitsOf(r) /\ operations[r] \in Nat /\ bytes[r] \in Nat
        BY DEF LimitsInv, LimitsOf
    <2>2. /\ operations'[r] \in Nat /\ operations[r] <= operations'[r]
          /\ bytes'[r] \in Nat /\ bytes[r] <= bytes'[r]
        BY <2>1
    <2>3. Admitted(r)' \subseteq Admitted(r)
        BY <1>1
    <2> QED
        BY <1>3, <2>1, <2>2, <2>3, LimitsShrink
<1> QED
    BY <1>4 DEF LimitsInv, CountersAre

-----------------------------------------------------------------------------
(* The files of the directory *)

\* While calls do not overlap there are no more files than the limit, and room
\* for the one that a call is about to make.
FilesInv ==
    ~apart =>
        /\ Cardinality(FilesOf(tree)) <= MaxFiles
        /\ \A c, x \in Calls : InFlight(c) /\ InFlight(x) => c = x
        /\ \A c \in Calls :
              /\ calls[c].pc = "renaming" =>
                    Identity(tree[Path(c)]) = calls[c].seen
              /\ calls[c].pc \in {"writing", "written", "renaming"}
                    /\ calls[c].seen.kind = "absent" =>
                        Cardinality(FilesOf(tree)) + 1 <= MaxFiles

LEMMA FilesFinite ==
    ASSUME NEW t
    PROVE  IsFiniteSet(FilesOf(t)) /\ Cardinality(FilesOf(t)) \in Nat
    BY SandboxAssumption, FS_Subset, FS_CardinalityType DEF FilesOf

LEMMA FilesKept ==
    ASSUME FilesInv, NEW c \in Calls, NEW s, Continues(c, s), apart' = apart,
           ~apart =>
              /\ Cardinality(FilesOf(tree)') <= MaxFiles
              /\ s.pc = "renaming" => Identity(tree'[Path(c)]) = s.seen
              /\ s.pc \in {"writing", "written", "renaming"} /\ s.seen.kind = "absent" =>
                    Cardinality(FilesOf(tree)') + 1 <= MaxFiles
    PROVE  FilesInv'
<1> SUFFICES ASSUME ~apart
             PROVE  /\ \A x, y \in Calls : InFlight(x)' /\ InFlight(y)' => x = y
                    /\ \A x \in Calls :
                          /\ calls'[x].pc = "renaming" =>
                                Identity(tree'[Path(x)']) = calls'[x].seen
                          /\ calls'[x].pc \in {"writing", "written", "renaming"}
                                /\ calls'[x].seen.kind = "absent" =>
                                    Cardinality(FilesOf(tree)') + 1 <= MaxFiles
    BY DEF FilesInv
<1>1. \A x \in Calls : InFlight(x)' => x = c
    <2>1. \A x \in Calls : InFlight(x) => x = c
        BY DEF FilesInv, Continues
    <2>2. \A x \in Calls : x # c => calls'[x].pc = calls[x].pc
        BY DEF Continues, Becomes
    <2> QED
        BY <2>1, <2>2 DEF InFlight
<1>2. calls'[c] = s
    BY DEF Continues, Becomes
<1>3. \A x \in Calls : calls'[x].pc \in {"writing", "written", "renaming"} => x = c
    BY <1>1 DEF InFlight, WritePcs
<1>4. s.pc = "renaming" => Path(c)' = Path(c)
    BY <1>2, SameRequest DEF Continues
<1> QED
    BY <1>1, <1>2, <1>3, <1>4

-----------------------------------------------------------------------------
(* The invariant, and the steps of a call in flight *)

IInv ==
    /\ CallsInv
    /\ TempsInv
    /\ TreeInv
    /\ LimitsInv
    /\ FilesInv

\* A step that changes neither the tree nor the temporary files.
LEMMA QuietStep ==
    ASSUME IInv, NEW c \in Calls, NEW s, Continues(c, s),
           UNCHANGED <<tree, temps, operations, bytes, apart>>,
           HoldsTemp(calls[c].pc) =>
              /\ HoldsTemp(s.pc) /\ s.number = calls[c].number
              /\ s.request = calls[c].request,
           s.pc = "renaming" => Identity(tree[Path(c)]) = s.seen,
           ~apart /\ s.pc \in {"writing", "written", "renaming"} /\ s.seen.kind = "absent" =>
              Cardinality(FilesOf(tree)) + 1 <= MaxFiles
    PROVE  IInv'
<1>1. CallsInv'
    BY CallsKept DEF IInv
<1>2. TempsInv'
    BY TempsQuiet DEF IInv, Continues
<1>3. TreeInv'
    BY DEF IInv, TreeInv
<1>4. LimitsInv'
    BY LimitsKept DEF IInv
<1>5. FilesInv'
    <2>1. FilesOf(tree)' = FilesOf(tree)
        BY DEF FilesOf
    <2>2. ~apart => Cardinality(FilesOf(tree)) <= MaxFiles
        BY DEF IInv, FilesInv
    <2>3. s.pc = "renaming" => Identity(tree'[Path(c)]) = s.seen
        OBVIOUS
    <2> QED
        BY <2>1, <2>2, <2>3, FilesKept DEF IInv
<1> QED
    BY <1>1, <1>2, <1>3, <1>4, <1>5 DEF IInv

\* A call that has no temporary file is refused.
LEMMA RefuseStep ==
    ASSUME IInv, NEW c \in Calls, InFlight(c), ~HoldsTemp(calls[c].pc), Refuse(c),
           UNCHANGED <<tree, temps, operations, bytes, apart>>
    PROVE  IInv'
<1>1. PICK s : Continues(c, s) /\ s.pc = "refused"
    BY RefuseContinues DEF IInv
<1> QED
    BY <1>1, QuietStep

\* A call goes on, having looked.
LEMMA GotoStep ==
    ASSUME IInv, NEW c \in Calls, InFlight(c), NEW pc, pc \notin {"new", "refused"},
           Goto(c, pc),
           UNCHANGED <<tree, temps, operations, bytes, apart>>,
           HoldsTemp(calls[c].pc) => HoldsTemp(pc),
           pc = "renaming" => Identity(tree[Path(c)]) = calls[c].seen,
           ~apart /\ pc \in {"writing", "written", "renaming"}
              /\ calls[c].seen.kind = "absent" =>
                  Cardinality(FilesOf(tree)) + 1 <= MaxFiles
    PROVE  IInv'
<1>1. PICK s : /\ Continues(c, s) /\ s.pc = pc
               /\ s.request = calls[c].request
               /\ s.seen = calls[c].seen /\ s.number = calls[c].number
    BY GotoContinues DEF IInv
<1> QED
    BY <1>1, QuietStep

LEMMA ResolveStep ==
    ASSUME IInv, NEW c \in Calls, Resolve(c), apart' = apart
    PROVE  IInv'
<1>1. /\ InFlight(c) /\ ~HoldsTemp(calls[c].pc)
      /\ UNCHANGED <<tree, temps, operations, bytes, apart>>
    BY DEF Resolve, HoldsTemp, InFlight
<1>2. CASE ~SafeEntryChain(Path(c))
    BY <1>1, <1>2, RefuseStep DEF Resolve
<1>3. CASE SafeEntryChain(Path(c))
    <2> DEFINE pc == IF Request(c).op = "write" THEN "making" ELSE "inspecting"
               t == [calls[c] EXCEPT !.seen = Identity(tree[Path(c)])]
               s == [t EXCEPT !.pc = pc]
    <2>1. calls' = [calls EXCEPT ![c] = s]
        BY <1>3 DEF Resolve, IInv, CallsInv
    <2>2. IsCall(calls[c])
        BY DEF IInv, CallsInv
    <2>3. /\ IsCall(t)
          /\ t.session = calls[c].session /\ t.request = calls[c].request
          /\ t.number = calls[c].number
        BY <2>2, SetSeen
    <2> HIDE DEF t
    <2>4. /\ IsCall(s) /\ s.pc = pc
          /\ s.session = calls[c].session /\ s.request = calls[c].request
          /\ s.number = calls[c].number
        BY <2>3, SetPc
    <2> HIDE DEF s
    <2>5. s.pc \in {"making", "inspecting"}
        BY <2>4
    <2>6. Becomes(c, s)
        BY <2>1, <2>4, OneCall DEF IInv
    <2>7. Continues(c, s)
        BY <1>1, <2>4, <2>5, <2>6 DEF Continues
    <2> QED
        BY <1>1, <2>5, <2>7, QuietStep
<1> QED
    BY <1>2, <1>3

LEMMA CheckBeforeWriteStep ==
    ASSUME IInv, NEW c \in Calls, CheckBeforeWrite(c), apart' = apart
    PROVE  IInv'
<1>1. /\ InFlight(c) /\ ~HoldsTemp(calls[c].pc)
      /\ UNCHANGED <<tree, temps, operations, bytes, apart>>
    BY DEF CheckBeforeWrite, HoldsTemp, InFlight, WritePcs
<1>2. CASE ~SameTarget(c)
    BY <1>1, <1>2, RefuseStep DEF CheckBeforeWrite
<1>3. CASE SameTarget(c) /\ calls[c].seen.kind = "absent"
    <2>1. Goto(c, "counting")
        BY <1>3 DEF CheckBeforeWrite
    <2> QED
        BY <1>1, <2>1, GotoStep
<1>4. CASE SameTarget(c) /\ calls[c].seen.kind # "absent"
    <2>1. Goto(c, "writing")
        BY <1>4 DEF CheckBeforeWrite
    <2> QED
        BY <1>1, <1>4, <2>1, GotoStep
<1> QED
    BY <1>2, <1>3, <1>4

LEMMA CountFilesStep ==
    ASSUME IInv, NEW c \in Calls, CountFiles(c), apart' = apart
    PROVE  IInv'
<1>1. /\ InFlight(c) /\ ~HoldsTemp(calls[c].pc)
      /\ UNCHANGED <<tree, temps, operations, bytes, apart>>
    BY DEF CountFiles, HoldsTemp, InFlight, WritePcs
<1>2. CASE SnapshotFiles >= MaxFiles
    BY <1>1, <1>2, RefuseStep DEF CountFiles
<1>3. CASE ~(SnapshotFiles >= MaxFiles)
    <2>1. Goto(c, "writing")
        BY <1>3 DEF CountFiles
    <2>2. Cardinality(FilesOf(tree)) \in Nat /\ Cardinality(temps) \in Nat
        BY FilesFinite, FS_CardinalityType DEF IInv, TempsInv
    <2>3. Cardinality(FilesOf(tree)) + 1 <= MaxFiles
        BY <1>3, <2>2, SandboxAssumption DEF SnapshotFiles
    <2> QED
        BY <1>1, <2>1, <2>3, GotoStep
<1> QED
    BY <1>2, <1>3

LEMMA CheckBeforeRenameStep ==
    ASSUME IInv, NEW c \in Calls, CheckBeforeRename(c), apart' = apart
    PROVE  IInv'
<1>1. /\ InFlight(c) /\ calls[c].pc = "written"
      /\ UNCHANGED <<tree, temps, operations, bytes, apart>>
    BY DEF CheckBeforeRename, InFlight, WritePcs
<1>2. CASE SameTarget(c)
    <2>1. Goto(c, "renaming") /\ Identity(tree[Path(c)]) = calls[c].seen
        BY <1>2 DEF CheckBeforeRename, SameTarget
    <2>2. ~apart /\ calls[c].seen.kind = "absent" =>
             Cardinality(FilesOf(tree)) + 1 <= MaxFiles
        BY <1>1 DEF IInv, FilesInv
    <2> QED
        BY <1>1, <2>1, <2>2, GotoStep DEF HoldsTemp
<1>3. CASE ~SameTarget(c)
    <2>1. Goto(c, "cleaning")
        BY <1>3 DEF CheckBeforeRename
    <2> QED
        BY <1>1, <2>1, GotoStep DEF HoldsTemp
<1> QED
    BY <1>2, <1>3

LEMMA InspectStep ==
    ASSUME IInv, NEW c \in Calls, Inspect(c), apart' = apart
    PROVE  IInv'
<1>1. /\ InFlight(c) /\ ~HoldsTemp(calls[c].pc)
      /\ UNCHANGED <<tree, temps, operations, bytes, apart>>
    BY DEF Inspect, HoldsTemp, InFlight, RemovePcs
<1> DEFINE t == [calls[c] EXCEPT !.removes = tree[Path(c)].kind]
           s == [t EXCEPT !.pc = "inspected"]
<1>2. CASE Refuse(c)
    BY <1>1, <1>2, RefuseStep
<1>3. CASE calls' = [calls EXCEPT ![c] = s]
    <2>2. IsCall(calls[c])
        BY DEF IInv, CallsInv
    <2>3. /\ IsCall(t)
          /\ t.session = calls[c].session /\ t.request = calls[c].request
        <3> HIDE DEF t
        <3>1. t = [calls[c] EXCEPT !.removes = tree[Path(c)].kind]
            BY DEF t
        <3> QED
            BY <2>2, <3>1, SetRemoves
    <2> HIDE DEF t
    <2>4. /\ IsCall(s) /\ s.pc = "inspected"
          /\ s.session = calls[c].session /\ s.request = calls[c].request
        <3> HIDE DEF s
        <3>1. s = [t EXCEPT !.pc = "inspected"]
            BY DEF s
        <3> QED
            BY <2>3, <3>1, SetPc
    <2>5. Becomes(c, s)
        BY <1>3, <2>4, OneCall DEF IInv
    <2> HIDE DEF s
    <2>6. Continues(c, s)
        BY <1>1, <2>4, <2>5 DEF Continues
    <2> QED
        BY <1>1, <2>4, <2>6, QuietStep
<1>4. Refuse(c) \/ calls' = [calls EXCEPT ![c] = s]
    BY DEF Inspect, IInv, CallsInv
<1> QED
    BY <1>2, <1>3, <1>4

LEMMA CheckBeforeRemoveStep ==
    ASSUME IInv, NEW c \in Calls, CheckBeforeRemove(c), apart' = apart
    PROVE  IInv'
<1>1. /\ InFlight(c) /\ ~HoldsTemp(calls[c].pc)
      /\ UNCHANGED <<tree, temps, operations, bytes, apart>>
    BY DEF CheckBeforeRemove, HoldsTemp, InFlight, RemovePcs
<1>2. CASE ~SameTarget(c)
    BY <1>1, <1>2, RefuseStep DEF CheckBeforeRemove
<1>3. CASE SameTarget(c)
    <2>1. Goto(c, "removing")
        BY <1>3 DEF CheckBeforeRemove
    <2> QED
        BY <1>1, <2>1, GotoStep
<1> QED
    BY <1>2, <1>3

-----------------------------------------------------------------------------
(* The steps that change the directory *)

\* A call that changes entries.
LEMMA ChangeStep ==
    ASSUME IInv, NEW c \in Calls, InFlight(c), NEW s, IsCall(s),
           calls' = [calls EXCEPT ![c] = s],
           s.session = calls[c].session, s.request = calls[c].request,
           s.pc \in {"made", "returned"},
           tree' \in [Paths -> Entry],
           TempsInv', UNCHANGED <<operations, bytes, apart>>,
           ~apart => Cardinality(FilesOf(tree)') <= MaxFiles
    PROVE  IInv'
<1>1. Becomes(c, s)
    BY OneCall DEF IInv
<1>2. Continues(c, s)
    BY <1>1 DEF Continues
<1>3. CallsInv'
    BY <1>2, CallsKept DEF IInv
<1>4. TreeInv'
    BY DEF TreeInv
<1>5. LimitsInv'
    BY <1>2, LimitsKept DEF IInv
<1>6. FilesInv'
    BY <1>2, FilesKept DEF IInv
<1> QED
    BY <1>3, <1>4, <1>5, <1>6 DEF IInv

LEMMA MakeParentsStep ==
    ASSUME IInv, NEW c \in Calls, MakeParents(c), apart' = apart
    PROVE  IInv'
<1>1. /\ InFlight(c) /\ ~HoldsTemp(calls[c].pc)
      /\ UNCHANGED <<temps, operations, bytes, apart>>
    BY DEF MakeParents, HoldsTemp, InFlight, WritePcs
<1>2. CASE ~SafeEntryChain(Path(c))
    <2>1. Refuse(c) /\ UNCHANGED tree
        BY <1>2 DEF MakeParents
    <2> QED
        BY <1>1, <2>1, RefuseStep
<1>3. CASE SafeEntryChain(Path(c))
    <2> DEFINE made == {p \in ParentsOf(c) : tree[p].kind = "absent"}
               s == [calls[c] EXCEPT !.pc = "made"]
    <2>0. PICK inodes \in NewInodes(c, made) :
              tree' = [p \in Paths |-> IF p \in made THEN Directory(inodes[p]) ELSE tree[p]]
        BY <1>3 DEF MakeParents
    <2>1. /\ tree' = [p \in Paths |-> IF p \in made THEN Directory(inodes[p]) ELSE tree[p]]
          /\ calls' = [calls EXCEPT ![c] = s]
        BY <1>3, <2>0 DEF MakeParents, Goto
    <2>2. IsCall(calls[c])
        BY DEF IInv, CallsInv
    <2> HIDE DEF s
    <2>3. /\ IsCall(s) /\ s.pc = "made"
          /\ s.session = calls[c].session /\ s.request = calls[c].request
        BY <2>2, SetPc DEF s
    <2>4. \A p \in made :
             Directory(inodes[p]) \in Entry /\ Directory(inodes[p]).kind = "directory"
        BY <2>0 DEF Directory, Entry, NewInodes
    <2>5. tree \in [Paths -> Entry]
        BY DEF IInv, TreeInv
    <2>6. tree' \in [Paths -> Entry]
        BY <2>1, <2>4, <2>5
    <2>7. FilesOf(tree)' = FilesOf(tree)
        <3>1. \A p \in Paths : tree'[p].kind = "file" <=> tree[p].kind = "file"
            BY <2>1, <2>4
        <3> QED
            BY <3>1 DEF FilesOf
    <2>8. TempsInv'
        <3>1. Becomes(c, s)
            BY <2>1, <2>3, OneCall DEF IInv
        <3> QED
            BY <1>1, <3>1, TempsQuiet DEF IInv
    <2>9. ~apart => Cardinality(FilesOf(tree)') <= MaxFiles
        BY <2>7 DEF IInv, FilesInv
    <2> HIDE DEF made
    <2> QED
        BY <1>1, <2>1, <2>3, <2>6, <2>8, <2>9, ChangeStep
<1> QED
    BY <1>2, <1>3

LEMMA TempIsMade ==
    ASSUME NEW c \in Calls, WriteTemp(c), CallsInv
    PROVE  LET number == operations[Session(c)] IN
           \E i \in Inodes : temps' =
              IF Present(ParentsOf(c)) /\ Named(ParentsOf(c), number) = {}
              THEN temps \cup {[parent |-> ParentsOf(c), number |-> number,
                                file |-> File(Request(c).content, i)]}
              ELSE temps
<1> DEFINE number == operations[Session(c)]
           free == Present(ParentsOf(c)) /\ Named(ParentsOf(c), number) = {}
<1>1. calls[c].pc = "writing"
    BY DEF WriteTemp
<1>2. Path(c) \in Paths
    BY <1>1, RequestOf
<1>3. <<c, Path(c)>> \in Inodes
    BY <1>2 DEF Inodes
<1>4. CASE free
    <2>1. PICK inodes \in NewInodes(c, {Path(c)}) :
              temps' = temps \cup {[parent |-> ParentsOf(c), number |-> number,
                          file |-> File(Request(c).content, inodes[Path(c)])]}
        BY <1>4 DEF WriteTemp
    <2>2. inodes[Path(c)] \in Inodes
        BY <2>1 DEF NewInodes
    <2> QED
        BY <1>4, <2>1, <2>2
<1>5. CASE ~free
    <2>1. temps' = temps
        BY <1>5 DEF WriteTemp
    <2> QED
        BY <1>3, <1>5, <2>1
<1> QED
    BY <1>4, <1>5

LEMMA WriteTempStep ==
    ASSUME IInv, NEW c \in Calls, WriteTemp(c), apart' = apart
    PROVE  IInv'
<1>1. /\ InFlight(c) /\ calls[c].pc = "writing" /\ ~HoldsTemp(calls[c].pc)
      /\ UNCHANGED <<tree, operations, bytes, apart>>
    BY DEF WriteTemp, HoldsTemp, InFlight, WritePcs
<1> DEFINE number == operations[Session(c)]
           free == Present(ParentsOf(c)) /\ Named(ParentsOf(c), number) = {}
           pc == IF free THEN "written" ELSE "cleaning"
           t == [calls[c] EXCEPT !.number = number]
           s == [t EXCEPT !.pc = pc]
<1>2. calls' = [calls EXCEPT ![c] = s]
    BY DEF WriteTemp, IInv, CallsInv
<1>3. PICK i \in Inodes : temps' =
          IF free
          THEN temps \cup {[parent |-> ParentsOf(c), number |-> number,
                            file |-> File(Request(c).content, i)]}
          ELSE temps
    BY TempIsMade DEF IInv
<1> DEFINE file == File(Request(c).content, i)
<1>4. free => Named(ParentsOf(c), number) = {}
    OBVIOUS
<1>5. IsCall(calls[c])
    BY DEF IInv, CallsInv
<1>6. file \in Entry /\ file.kind = "file"
    <2>1. Request(c) \in Requests
        BY <1>1, RequestOf DEF IInv
    <2>2. Request(c).content \in Contents \cup {NoContent}
        BY <2>1 DEF Requests
    <2> QED
        BY <2>2 DEF File, Entry
<1> HIDE DEF number, free, file
<1>7. /\ IsCall(t) /\ t.number = number
      /\ t.session = calls[c].session /\ t.request = calls[c].request
      /\ t.seen = calls[c].seen
    BY <1>5, SetNumber
<1> HIDE DEF t
<1>8. /\ IsCall(s) /\ s.pc = pc /\ s.number = number
      /\ s.session = calls[c].session /\ s.request = calls[c].request
      /\ s.seen = calls[c].seen
    BY <1>7, SetPc
<1> HIDE DEF s
<1>9. Becomes(c, s)
    BY <1>2, <1>8, OneCall DEF IInv
<1>10. Continues(c, s)
    BY <1>1, <1>8, <1>9 DEF Continues
<1>11. ~apart /\ s.seen.kind = "absent" => Cardinality(FilesOf(tree)) + 1 <= MaxFiles
    BY <1>1, <1>8 DEF IInv, FilesInv
<1>12. CASE ~free
    <2>1. s.pc = "cleaning"
        BY <1>8, <1>12
    <2> QED
        BY <1>1, <1>3, <1>10, <1>12, <2>1, QuietStep
<1>13. CASE free
    <2>1. s.pc = "written"
        BY <1>8, <1>13
    <2>2. TempsInv'
        <3>1. Named(ParentsOf(c), s.number) = {}
            BY <1>4, <1>8, <1>13
        <3>2. temps' = temps \cup {[parent |-> ParentsOf(c), number |-> s.number,
                                    file |-> file]}
            BY <1>3, <1>8, <1>13 DEF file
        <3> QED
            BY <1>1, <1>6, <1>8, <1>10, <2>1, <3>1, <3>2, TempsGain DEF IInv
    <2>3. CallsInv'
        BY <1>10, CallsKept DEF IInv
    <2>4. TreeInv'
        BY <1>1 DEF IInv, TreeInv
    <2>5. LimitsInv'
        BY <1>1, <1>10, LimitsKept DEF IInv
    <2>6. FilesInv'
        <3>1. FilesOf(tree)' = FilesOf(tree)
            BY <1>1 DEF FilesOf
        <3>2. ~apart => Cardinality(FilesOf(tree)) <= MaxFiles
            BY DEF IInv, FilesInv
        <3> QED
            BY <1>1, <1>10, <1>11, <2>1, <3>1, <3>2, FilesKept DEF IInv
    <2> QED
        BY <2>2, <2>3, <2>4, <2>5, <2>6 DEF IInv
<1> QED
    BY <1>12, <1>13

LEMMA CleanUpStep ==
    ASSUME IInv, NEW c \in Calls, CleanUp(c), apart' = apart
    PROVE  IInv'
<1>1. /\ InFlight(c) /\ HoldsTemp(calls[c].pc) /\ Refuse(c)
      /\ temps' = temps \ TempOf(c)
      /\ UNCHANGED <<tree, operations, bytes, apart>>
    BY DEF CleanUp, HoldsTemp, InFlight, WritePcs
<1>2. PICK s : Continues(c, s) /\ s.pc = "refused"
    BY <1>1, RefuseContinues DEF IInv
<1>3. CallsInv'
    BY <1>2, CallsKept DEF IInv
<1>4. TempsInv'
    BY <1>1, <1>2, TempsLose DEF IInv
<1>5. TreeInv'
    BY <1>1 DEF IInv, TreeInv
<1>6. LimitsInv'
    BY <1>1, <1>2, LimitsKept DEF IInv
<1>7. FilesInv'
    <2>1. FilesOf(tree)' = FilesOf(tree)
        BY <1>1 DEF FilesOf
    <2>2. ~apart => Cardinality(FilesOf(tree)) <= MaxFiles
        BY DEF IInv, FilesInv
    <2> QED
        BY <1>1, <1>2, <2>1, <2>2, FilesKept DEF IInv
<1> QED
    BY <1>3, <1>4, <1>5, <1>6, <1>7 DEF IInv

\* The record of a call that has returned.
LEMMA ReturnedIs ==
    ASSUME NEW c
    PROVE  /\ IsCall(ReturnedFrom(c)) /\ ReturnedFrom(c).pc = "returned"
           /\ ReturnedFrom(c).session = calls[c].session
           /\ ReturnedFrom(c).request = calls[c].request
<1> DEFINE t == [NewCall EXCEPT !.pc = "returned"]
           u == [t EXCEPT !.session = calls[c].session]
           v == [u EXCEPT !.request = calls[c].request]
<1>1. ReturnedFrom(c) = v
    BY DEF ReturnedFrom
<1> HIDE DEF v, u, t
<1>2. t = [NewCall EXCEPT !.pc = "returned"]
    BY DEF t
<1>3. IsCall(t) /\ t.pc = "returned"
    BY <1>2, NewCallIs, SetPc
<1>4. u = [t EXCEPT !.session = calls[c].session]
    BY DEF u
<1>5. IsCall(u) /\ u.pc = "returned" /\ u.session = calls[c].session
    BY <1>3, <1>4, SetSession
<1>6. v = [u EXCEPT !.request = calls[c].request]
    BY DEF v
<1>7. /\ IsCall(v) /\ v.pc = "returned" /\ v.session = calls[c].session
      /\ v.request = calls[c].request
    BY <1>5, <1>6, SetRequest
<1> QED
    BY <1>1, <1>7

\* The effect of a call on its entry.
LEMMA EffectsStep ==
    ASSUME IInv, NEW c \in Calls, InFlight(c), NEW entry \in Entry, Effects(c, entry),
           TempsInv', UNCHANGED <<operations, bytes, apart>>,
           ~apart => Cardinality(FilesOf(tree)') <= MaxFiles
    PROVE  IInv'
<1>1. /\ IsCall(ReturnedFrom(c)) /\ ReturnedFrom(c).pc \in {"made", "returned"}
      /\ ReturnedFrom(c).session = calls[c].session
      /\ ReturnedFrom(c).request = calls[c].request
    BY ReturnedIs
<1>2. /\ tree' = [tree EXCEPT ![Path(c)] = entry]
      /\ calls' = [calls EXCEPT ![c] = ReturnedFrom(c)]
    BY DEF Effects
<1>3. tree' \in [Paths -> Entry]
    BY <1>2 DEF IInv, TreeInv
<1> QED
    BY <1>1, <1>2, <1>3, ChangeStep

LEMMA RenameStep ==
    ASSUME IInv, NEW c \in Calls, Rename(c), apart' = apart
    PROVE  IInv'
<1>1. /\ InFlight(c) /\ calls[c].pc = "renaming"
      /\ UNCHANGED <<operations, bytes, apart>>
    BY DEF Rename, InFlight, WritePcs
<1>2. CASE ~(TempOf(c) # {} /\ tree[Path(c)].kind # "directory")
    <2>1. Goto(c, "cleaning") /\ UNCHANGED <<tree, temps>>
        BY <1>2 DEF Rename
    <2> QED
        BY <1>1, <2>1, GotoStep DEF HoldsTemp
<1>3. CASE TempOf(c) # {} /\ tree[Path(c)].kind # "directory"
    <2>1. PICK t \in TempOf(c) : Effects(c, t.file) /\ temps' = temps \ {t}
        BY <1>3 DEF Rename
    <2>2. TempOf(c) = {t}
        BY DEF TempOf, Named, IInv, TempsInv
    <2>3. t.file \in Entry /\ t.file.kind = "file"
        BY <2>1 DEF TempOf, Named, IInv, TempsInv
    <2>4. TempsInv'
        <3>1. Becomes(c, ReturnedFrom(c))
            BY <2>1, ReturnedIs, OneCall DEF Effects, IInv
        <3>2. Continues(c, ReturnedFrom(c))
            BY <1>1, <3>1, ReturnedIs DEF Continues
        <3>3. HoldsTemp(calls[c].pc)
            BY <1>1 DEF HoldsTemp
        <3> QED
            BY <2>1, <2>2, <3>2, <3>3, TempsLose DEF IInv
    <2>5. ASSUME ~apart
          PROVE  Cardinality(FilesOf(tree)') <= MaxFiles
        <3>1. /\ Path(c) \in Paths /\ tree \in [Paths -> Entry]
              /\ Identity(tree[Path(c)]) = calls[c].seen
            BY <1>1, <2>5, RequestOf DEF IInv, TreeInv, FilesInv
        <3>0. tree[Path(c)].kind = calls[c].seen.kind
            BY <3>1 DEF Identity
        <3>2. tree' = [tree EXCEPT ![Path(c)] = t.file]
            BY <2>1 DEF Effects
        <3>3. FilesOf(tree)' = FilesOf(tree) \cup {Path(c)}
            BY <2>3, <3>1, <3>2 DEF FilesOf
        <3>4. CASE tree[Path(c)].kind = "file"
            <4>1. FilesOf(tree)' = FilesOf(tree)
                BY <3>1, <3>3, <3>4 DEF FilesOf
            <4> QED
                BY <2>5, <4>1 DEF IInv, FilesInv
        <3>5. CASE tree[Path(c)].kind = "absent"
            <4>1. Cardinality(FilesOf(tree)) + 1 <= MaxFiles
                BY <1>1, <2>5, <3>0, <3>5 DEF IInv, FilesInv
            <4>2. /\ Cardinality(FilesOf(tree) \cup {Path(c)}) \in Nat
                  /\ Cardinality(FilesOf(tree) \cup {Path(c)}) <=
                        Cardinality(FilesOf(tree)) + 1
                BY FilesFinite, FS_Singleton, AtMostTheSum
            <4> QED
                BY <3>3, <4>1, <4>2, FilesFinite, SandboxAssumption
        <3>6. tree[Path(c)].kind \in {"absent", "directory", "file"}
            BY <3>1 DEF Entry
        <3> QED
            BY <1>3, <3>4, <3>5, <3>6
    <2> QED
        BY <1>1, <2>1, <2>3, <2>4, <2>5, EffectsStep
<1> QED
    BY <1>2, <1>3

LEMMA RemoveStep ==
    ASSUME IInv, NEW c \in Calls, Remove(c), apart' = apart
    PROVE  IInv'
<1>1. /\ InFlight(c) /\ ~HoldsTemp(calls[c].pc)
      /\ UNCHANGED <<temps, operations, bytes, apart>>
    BY DEF Remove, InFlight, RemovePcs, HoldsTemp
<1>2. CASE Refuse(c) /\ UNCHANGED tree
    BY <1>1, <1>2, RefuseStep
<1>3. CASE Effects(c, Nothing)
    <2>1. Nothing \in Entry /\ Nothing.kind = "absent"
        BY DEF Nothing, Entry
    <2>2. TempsInv'
        <3>1. Becomes(c, ReturnedFrom(c))
            BY <1>3, ReturnedIs, OneCall DEF Effects, IInv
        <3> QED
            BY <1>1, <3>1, TempsQuiet DEF IInv
    <2>3. FilesOf(tree)' \subseteq FilesOf(tree)
        <3>1. tree' = [tree EXCEPT ![Path(c)] = Nothing] /\ tree \in [Paths -> Entry]
            BY <1>3 DEF Effects, IInv, TreeInv
        <3>2. \A p \in Paths : tree'[p].kind = "file" => tree[p].kind = "file"
            BY <2>1, <3>1
        <3> QED
            BY <3>2 DEF FilesOf
    <2>4. /\ Cardinality(FilesOf(tree)') <= Cardinality(FilesOf(tree))
          /\ Cardinality(FilesOf(tree)') \in Nat
        BY <2>3, FilesFinite, FS_Subset, FS_CardinalityType
    <2>5. ~apart => Cardinality(FilesOf(tree)') <= MaxFiles
        BY <2>4, FilesFinite, SandboxAssumption DEF IInv, FilesInv
    <2> QED
        BY <1>1, <1>3, <2>1, <2>2, <2>5, EffectsStep
<1> QED
    BY <1>2, <1>3 DEF Remove

LEMMA ContinueStep ==
    ASSUME IInv, NEW c \in Calls, Continue(c), apart' = apart
    PROVE  IInv'
    BY ResolveStep, MakeParentsStep, CheckBeforeWriteStep, CountFilesStep,
       WriteTempStep, CheckBeforeRenameStep, RenameStep, CleanUpStep, InspectStep,
       CheckBeforeRemoveStep, RemoveStep DEF Continue

-----------------------------------------------------------------------------
(* The start of a call *)

\* What a call has become when it has started: for session s with the request q,
\* which was admitted, or refused.
Started(c, s, q, admitted) ==
    \E t : /\ Becomes(c, t) /\ t.session = {s}
           /\ t.pc \in {"resolving", "refused"}
           /\ t.pc = "resolving" => t.request = {q} /\ admitted

LEMMA StartsBecomes ==
    ASSUME CallsInv, NEW c \in Calls, calls[c].pc = "new",
           NEW s \in Sessions, NEW q \in Requests, NEW admitted \in BOOLEAN,
           Starts(c, s, q, admitted)
    PROVE  Started(c, s, q, admitted)
<1>1. CASE admitted
    <2> DEFINE t == [calls[c] EXCEPT !.pc = "resolving"]
               u == [t EXCEPT !.session = {s}]
               v == [u EXCEPT !.request = {q}]
    <2>1. calls' = [calls EXCEPT ![c] = v]
        BY <1>1 DEF Starts
    <2>2. IsCall(calls[c])
        BY DEF CallsInv
    <2>3. IsCall(t) /\ t.pc = "resolving"
        BY <2>2, SetPc
    <2> HIDE DEF t
    <2>4. IsCall(u) /\ u.pc = "resolving" /\ u.session = {s}
        BY <2>3, SetSession
    <2> HIDE DEF u
    <2>5. IsCall(v) /\ v.pc = "resolving" /\ v.session = {s} /\ v.request = {q}
        BY <2>4, SetRequest
    <2> HIDE DEF v
    <2>6. Becomes(c, v)
        BY <2>1, <2>5, OneCall
    <2> QED
        BY <1>1, <2>5, <2>6 DEF Started
<1>2. CASE ~admitted
    <2> DEFINE t == RefusedFrom(s)
    <2>1. calls' = [calls EXCEPT ![c] = t]
        BY <1>2 DEF Starts
    <2>2. IsCall(t) /\ t.pc = "refused" /\ t.session = {s}
        BY RefusedIs
    <2> HIDE DEF t
    <2>3. Becomes(c, t)
        BY <2>1, <2>2, OneCall
    <2> QED
        BY <2>2, <2>3 DEF Started
<1> QED
    BY <1>1, <1>2

\* Call c has become t, and the counters of session s have counted it; of an
\* admitted call, n bytes are counted and all is within the limits.
CountedAs(c, s, q, t, n) ==
    /\ Becomes(c, t) /\ t.session = {s}
    /\ t.pc \in {"resolving", "refused"}
    /\ t.pc = "resolving" =>
          /\ t.request = {q}
          /\ q.op = "write" => n = Size[q.content]
          /\ operations'[s] = operations[s] + 1
          /\ operations[s] + 1 <= MaxOperations
          /\ bytes'[s] = bytes[s] + n
          /\ n > 0 => bytes[s] + n <= MaxBytes
    /\ CountersAre'
    /\ \A r \in Sessions :
          /\ operations'[r] \in Nat /\ operations[r] <= operations'[r]
          /\ bytes'[r] \in Nat /\ bytes[r] <= bytes'[r]

LEMMA StartCounts ==
    ASSUME LimitsInv, NEW c \in Calls, calls[c].pc = "new", CallsInv,
           NEW s \in Sessions, NEW q \in Requests, Start(c, s, q)
    PROVE  \E t : \E n \in Nat : CountedAs(c, s, q, t, n)
<1>1. /\ CountersAre /\ MaxOperations \in Nat /\ MaxBytes \in Nat
      /\ \A r \in Sessions : operations[r] \in Nat /\ bytes[r] \in Nat
    BY SandboxAssumption DEF LimitsInv, LimitsOf
<1>2. CASE Uncounted(c, s, q)
    <2>4. Starts(c, s, q, FALSE)
        BY <1>2 DEF Uncounted
    <2>5. Started(c, s, q, FALSE)
        BY <2>4, StartsBecomes
    <2>1. PICK t : /\ Becomes(c, t) /\ t.session = {s}
                   /\ t.pc \in {"resolving", "refused"}
                   /\ t.pc = "resolving" => FALSE
        BY <2>5 DEF Started
    <2>2. CountersAre' /\ UNCHANGED <<operations, bytes>>
        BY <1>1, <1>2 DEF Uncounted, CountersAre
    <2>0. 0 \in Nat
        OBVIOUS
    <2>3. \A r \in Sessions :
             /\ operations'[r] \in Nat /\ operations[r] <= operations'[r]
             /\ bytes'[r] \in Nat /\ bytes[r] <= bytes'[r]
        BY <1>1, <2>2
    <2> QED
        BY <2>0, <2>1, <2>2, <2>3 DEF CountedAs
<1>3. CASE Counted(c, s, q)
    <2> DEFINE admitted == /\ ~OverOperations(s) /\ ~OverBytes(s, q)
                           /\ PathAllowed(q.path)
               n == IF q.op = "write" THEN Size[q.content] ELSE 0
    <2>0. Starts(c, s, q, admitted) /\ admitted \in BOOLEAN
        BY <1>3 DEF Counted
    <2>1. PICK t : /\ Becomes(c, t) /\ t.session = {s}
                   /\ t.pc \in {"resolving", "refused"}
                   /\ t.pc = "resolving" => t.request = {q} /\ admitted
        <3> HIDE DEF admitted
        <3>1. Started(c, s, q, admitted)
            BY <2>0, StartsBecomes
        <3> QED
            BY <3>1 DEF Started
    <2>2. n \in Nat
        BY SandboxAssumption DEF Requests
    <2>3. operations' = [operations EXCEPT ![s] = @ + 1]
        BY <1>3 DEF Counted
    <2>4. \/ bytes' = [bytes EXCEPT ![s] = @ + n]
          \/ bytes' = bytes /\ (OverOperations(s) \/ q.op # "write")
        BY <1>3 DEF Counted
    <2>5. CountersAre'
        <3> HIDE DEF n
        <3>1. operations' = [x \in Sessions |-> operations'[x]]
            BY <1>1, <2>3 DEF CountersAre
        <3>2. bytes = [x \in Sessions |-> bytes[x]]
            BY <1>1 DEF CountersAre
        <3>3. bytes' = [bytes EXCEPT ![s] = @ + n] \/ bytes' = bytes
            BY <2>4
        <3>4. bytes' = [x \in Sessions |-> bytes'[x]]
            BY <3>2, <3>3
        <3> QED
            BY <3>1, <3>4 DEF CountersAre
    <2>6. /\ operations'[s] = operations[s] + 1
          /\ \A r \in Sessions \ {s} : operations'[r] = operations[r]
        BY <1>1, <2>3 DEF CountersAre
    <2>7. /\ \/ bytes'[s] = bytes[s] + n
             \/ bytes'[s] = bytes[s] /\ (OverOperations(s) \/ q.op # "write")
          /\ \A r \in Sessions \ {s} : bytes'[r] = bytes[r]
        <3> HIDE DEF n
        <3>1. bytes = [x \in Sessions |-> bytes[x]]
            BY <1>1 DEF CountersAre
        <3> QED
            BY <2>4, <3>1
    <2>8. \A r \in Sessions :
             /\ operations'[r] \in Nat /\ operations[r] <= operations'[r]
             /\ bytes'[r] \in Nat /\ bytes[r] <= bytes'[r]
        <3> SUFFICES ASSUME NEW r \in Sessions
                     PROVE  /\ operations'[r] \in Nat /\ operations[r] <= operations'[r]
                            /\ bytes'[r] \in Nat /\ bytes[r] <= bytes'[r]
            OBVIOUS
        <3>1. operations[r] \in Nat /\ bytes[r] \in Nat
            BY <1>1
        <3> HIDE DEF n
        <3>2. operations'[r] = operations[r] + 1 \/ operations'[r] = operations[r]
            BY <2>6
        <3>3. bytes'[r] = bytes[r] + n \/ bytes'[r] = bytes[r]
            BY <2>7
        <3> QED
            BY <2>2, <3>1, <3>2, <3>3
    <2>9. q.op = "write" => n = Size[q.content]
        OBVIOUS
    <2>10. q.op # "write" => n = 0
        OBVIOUS
    <2>11. ASSUME admitted
           PROVE  /\ operations[s] + 1 <= MaxOperations
                  /\ bytes'[s] = bytes[s] + n
                  /\ n > 0 => bytes[s] + n <= MaxBytes
        <3>1. ~OverOperations(s) /\ ~OverBytes(s, q)
            BY <2>11
        <3>2. operations[s] + 1 <= MaxOperations
            BY <1>1, <3>1 DEF OverOperations
        <3>3. q.op = "write" => bytes[s] + n <= MaxBytes
            BY <1>1, <2>2, <2>9, <3>1 DEF OverBytes
        <3> HIDE DEF n
        <3>4. bytes'[s] = bytes[s] + n
            BY <1>1, <2>7, <2>10, <3>1
        <3> QED
            BY <2>10, <3>2, <3>3, <3>4
    <2> HIDE DEF n, admitted
    <2> QED
        BY <2>1, <2>2, <2>5, <2>6, <2>8, <2>9, <2>11 DEF CountedAs
<1> QED
    BY <1>2, <1>3 DEF Start

LEMMA CallStep ==
    ASSUME IInv, NEW c \in Calls, NEW s \in Sessions, NEW q \in Requests, Call(c, s, q)
    PROVE  IInv'
<1>1. /\ calls[c].pc = "new" /\ Start(c, s, q)
      /\ UNCHANGED <<tree, temps>>
    BY DEF Call, Start
<1>a. PICK t : \E n \in Nat : CountedAs(c, s, q, t, n)
    BY <1>1, StartCounts DEF IInv
<1>b. PICK n \in Nat : CountedAs(c, s, q, t, n)
    BY <1>a
<1>2. /\ Becomes(c, t) /\ t.session = {s}
      /\ t.pc \in {"resolving", "refused"}
      /\ t.pc = "resolving" =>
            /\ t.request = {q}
            /\ q.op = "write" => n = Size[q.content]
            /\ operations'[s] = operations[s] + 1
            /\ operations[s] + 1 <= MaxOperations
            /\ bytes'[s] = bytes[s] + n
            /\ n > 0 => bytes[s] + n <= MaxBytes
      /\ CountersAre'
      /\ \A r \in Sessions :
            /\ operations'[r] \in Nat /\ operations[r] <= operations'[r]
            /\ bytes'[r] \in Nat /\ bytes[r] <= bytes'[r]
    BY <1>b DEF CountedAs
<1>3. calls'[c] = t /\ IsCall(t)
    BY <1>2 DEF Becomes
<1>4. CallsInv'
    <2> SUFFICES ASSUME NEW x \in Calls
                 PROVE  /\ IsCall(calls'[x])
                        /\ calls'[x].pc # "new" => \E r \in Sessions : calls'[x].session = {r}
                        /\ calls'[x].pc \notin {"new", "refused"} =>
                              \E p \in Requests : calls'[x].request = {p}
        BY <1>2 DEF CallsInv, Becomes
    <2>1. CASE x = c
        BY <1>2, <1>3, <2>1
    <2>2. CASE x # c
        BY <1>2, <2>2 DEF IInv, CallsInv, Becomes
    <2> QED
        BY <2>1, <2>2
<1>5. TempsInv'
    <2>1. ~HoldsTemp(calls[c].pc)
        BY <1>1 DEF HoldsTemp
    <2> QED
        BY <1>1, <1>2, <2>1, TempsQuiet DEF IInv
<1>6. TreeInv'
    BY <1>1 DEF IInv, TreeInv
<1>7. ASSUME NEW r \in Sessions, NEW x \in Admitted(r)'
      PROVE  \/ x \in Admitted(r) /\ Request(x)' = Request(x)
             \/ x = c /\ r = s /\ t.pc = "resolving"
    <2>1. x \in Calls /\ calls'[x].session = {r} /\ calls'[x].pc \notin {"new", "refused"}
        BY <1>7 DEF Admitted
    <2>2. CASE x = c
        BY <1>2, <1>3, <2>1, <2>2
    <2>3. CASE x # c
        <3>1. calls'[x] = calls[x]
            BY <1>2, <2>1, <2>3 DEF Becomes
        <3> QED
            BY <2>1, <3>1, SameRequest DEF Admitted
    <2> QED
        BY <2>2, <2>3
<1>8. ASSUME NEW r \in Sessions, ~(r = s /\ t.pc = "resolving")
      PROVE  LimitsOf(r)'
    <2>1. Admitted(r)' \subseteq Admitted(r)
        BY <1>7, <1>8
    <2>2. \A x \in AdmittedWrites(r)' : x \in AdmittedWrites(r) /\ Request(x)' = Request(x)
        BY <1>7, <1>8 DEF AdmittedWrites
    <2>3. WrittenBytes(AdmittedWrites(r))' \subseteq WrittenBytes(AdmittedWrites(r))
        BY <2>2 DEF WrittenBytes
    <2> QED
        BY <1>2, <2>1, <2>3, LimitsShrink DEF IInv, LimitsInv
<1>9. ASSUME t.pc = "resolving"
      PROVE  LimitsOf(s)'
    <2>1. Request(c)' = q
        BY <1>2, <1>3, <1>9 DEF Request
    <2>2. Admitted(s)' \subseteq Admitted(s) \cup {c}
        BY <1>7
    <2>3. \A x \in AdmittedWrites(s)' :
             \/ x \in AdmittedWrites(s) /\ Request(x)' = Request(x)
             \/ x = c /\ Size[Request(x).content]' = n
        BY <1>2, <1>7, <1>9, <2>1 DEF AdmittedWrites
    <2>4. WrittenBytes(AdmittedWrites(s))' \subseteq
             WrittenBytes(AdmittedWrites(s)) \cup ({c} \X (1..n))
        BY <2>3 DEF WrittenBytes
    <2> QED
        BY <1>2, <1>9, <2>2, <2>4, LimitsGrow DEF IInv, LimitsInv
<1>10. LimitsInv'
    BY <1>2, <1>8, <1>9 DEF LimitsInv
<1>11. FilesInv'
    <2> SUFFICES ASSUME ~apart'
                 PROVE  /\ Cardinality(FilesOf(tree)') <= MaxFiles
                        /\ \A x, y \in Calls : InFlight(x)' /\ InFlight(y)' => x = y
                        /\ \A x \in Calls :
                             calls'[x].pc \notin {"writing", "written", "renaming"}
        BY DEF FilesInv
    <2>1. ~apart /\ \A x \in Calls : ~InFlight(x)
        BY DEF Call, Follows
    <2>2. \A x \in Calls : InFlight(x)' => x = c
        BY <1>2, <2>1 DEF Becomes, InFlight
    <2>3. \A x \in Calls : calls'[x].pc \notin {"writing", "written", "renaming"}
        BY <1>2, <1>3, <2>2 DEF InFlight, WritePcs
    <2>4. FilesOf(tree)' = FilesOf(tree)
        BY <1>1 DEF FilesOf
    <2> QED
        BY <2>1, <2>2, <2>3, <2>4 DEF IInv, FilesInv
<1> QED
    BY <1>4, <1>5, <1>6, <1>10, <1>11 DEF IInv

-----------------------------------------------------------------------------
(* The invariant holds *)

LEMMA Untouched ==
    ASSUME IInv, UNCHANGED <<tree, temps, operations, bytes, calls, apart>>
    PROVE  IInv'
<1>1. CallsInv'
    BY DEF IInv, CallsInv
<1>2. TempsInv'
    BY DEF IInv, TempsInv, NoStrayTemps, TempOf, Named, ParentsOf, Path, Request
<1>3. TreeInv'
    BY DEF IInv, TreeInv
<1>4. LimitsInv'
    <2>1. \A r \in Sessions : Admitted(r)' = Admitted(r)
        BY DEF Admitted
    <2>2. \A x : Request(x)' = Request(x)
        BY DEF Request
    <2>3. \A r \in Sessions : AdmittedWrites(r)' = AdmittedWrites(r)
        BY <2>1, <2>2 DEF AdmittedWrites
    <2>4. \A r \in Sessions :
             WrittenBytes(AdmittedWrites(r))' = WrittenBytes(AdmittedWrites(r))
        BY <2>2, <2>3 DEF WrittenBytes
    <2> QED
        BY <2>1, <2>4 DEF IInv, LimitsInv, LimitsOf, CountersAre
<1>5. FilesInv'
    BY DEF IInv, FilesInv, FilesOf, InFlight, Path, Request
<1> QED
    BY <1>1, <1>2, <1>3, <1>4, <1>5 DEF IInv

LEMMA NextStep ==
    ASSUME IInv, [Next]_vars
    PROVE  IInv'
<1>1. CASE \E c \in Calls, s \in Sessions, q \in Requests : Call(c, s, q)
    BY <1>1, CallStep
<1>2. CASE (\E c \in Calls : Continue(c)) /\ UNCHANGED <<memory, answers, apart>>
    BY <1>2, ContinueStep
<1>3. CASE (\E s \in Sessions : End(s)) /\ UNCHANGED <<memory, answers, apart>>
    BY <1>3, Untouched DEF End
<1>4. CASE UNCHANGED vars
    BY <1>4, Untouched DEF vars, tempVars
<1> QED
    BY <1>1, <1>2, <1>3, <1>4 DEF Next

LEMMA InitHolds ==
    ASSUME Init
    PROVE  IInv
<1>1. calls = [c \in Calls |-> NewCall] /\ \A c \in Calls : calls[c].pc = "new"
    BY NewCallIs DEF Init, TempInit
<1>2. CallsInv
    BY <1>1, NewCallIs DEF CallsInv
<1>3. TempsInv
    BY FS_EmptySet DEF Init, TempInit, TempsInv, NoStrayTemps
<1>4. TreeInv
    BY SandboxAssumption DEF Init, TempInit, TreeInv
<1>5. LimitsInv
    <2>1. \A r \in Sessions : Admitted(r) = {}
        BY <1>1 DEF Admitted
    <2>2. \A r \in Sessions : WrittenBytes(AdmittedWrites(r)) = {}
        BY <2>1 DEF AdmittedWrites, WrittenBytes
    <2>3. /\ operations = [s \in Sessions |-> 0]
          /\ bytes = [s \in Sessions |-> 0]
        BY DEF Init, TempInit
    <2>4. \A r \in Sessions : operations[r] = 0 /\ bytes[r] = 0
        BY <2>3
    <2>5. IsFiniteSet({}) /\ Cardinality({}) = 0
        BY FS_EmptySet
    <2>6. MaxOperations \in Nat /\ MaxBytes \in Nat
        BY SandboxAssumption
    <2>7. \A r \in Sessions : LimitsOf(r)
        BY <2>1, <2>2, <2>4, <2>5, <2>6 DEF LimitsOf
    <2> QED
        BY <2>3, <2>7 DEF LimitsInv, CountersAre
<1>6. FilesInv
    BY <1>1, SandboxAssumption DEF Init, TempInit, FilesInv, InFlight, WritePcs, RemovePcs
<1> QED
    BY <1>2, <1>3, <1>4, <1>5, <1>6 DEF IInv

LEMMA Invariance == Spec => []IInv
<1>1. Init => IInv
    BY InitHolds
<1>2. IInv /\ [Next]_vars => IInv'
    BY NextStep
<1> QED
    BY <1>1, <1>2, PTL DEF Spec

-----------------------------------------------------------------------------
(* The memory sandbox *)

\* No call has overlapped another or come from another session, and none was
\* refused.
Agreeing == ~apart /\ \A c \in Calls : calls[c].pc # "refused"

Contented == \A p \in Paths : tree[p].kind = "file" => tree[p].content \in Contents

\* The memory session answered call c, and holds this tree and what is counted
\* for the session of the call.
Agrees(c, t) ==
    /\ memory = [tree |-> t, operations |-> operations[Session(c)],
                 bytes |-> bytes[Session(c)]]
    /\ answers[c] = {TRUE}

HasRoom(c) ==
    tree[Path(c)].kind # "absent" \/ Cardinality(FilesOf(tree)) < MaxFiles

\* If nothing from here on refuses the write, the memory session has done it.
WillWrite(c) ==
    SafeEntryChain(Path(c)) /\ HasRoom(c) =>
        Agrees(c, [Memory!WithParents(Seen(tree), Path(c))
                       EXCEPT ![Path(c)] = Request(c).content])

\* It has done it, whatever comes.
HasWritten(c) == Agrees(c, [Seen(tree) EXCEPT ![Path(c)] = Request(c).content])

Removable(c) ==
    /\ tree[Path(c)].kind # "absent"
    /\ tree[Path(c)].kind = "directory" => Children(Path(c)) = {}

WillRemove(c) ==
    Removable(c) => Agrees(c, [Seen(tree) EXCEPT ![Path(c)] = "absent"])

\* What is known of the call in flight.
Promise(c) ==
    /\ calls[c].pc = "resolving" =>
        IF Request(c).op = "write" THEN WillWrite(c) ELSE WillRemove(c)
    /\ calls[c].pc \in {"making", "made", "counting"} => WillWrite(c)
    /\ calls[c].pc \in {"made", "counting"} => Present(ParentsOf(c))
    /\ calls[c].pc \in {"writing", "written", "renaming"} => HasWritten(c)
    /\ calls[c].pc \in {"written", "renaming"} =>
        \A t \in TempOf(c) : t.file.content = Request(c).content
    /\ calls[c].pc \in WritePcs => Request(c).op = "write"
    /\ calls[c].pc \in {"inspecting", "inspected", "removing"} => WillRemove(c)
    /\ calls[c].pc \in {"inspected", "removing"} => calls[c].removes # "absent"

\* With no call in flight the two hold the same tree, and have counted the same
\* for the one session that calls came from.
Settled ==
    /\ memory.tree = Seen(tree)
    /\ \A s \in Sessions :
        (\A c \in Calls : calls[c].session \subseteq {s}) =>
            memory = [tree |-> Seen(tree), operations |-> operations[s],
                      bytes |-> bytes[s]]

AgreeInv ==
    /\ answers = [c \in Calls |-> answers[c]]
    /\ Agreeing =>
        /\ Contented
        /\ \A c \in Calls : calls[c].pc = "returned" => answers[c] = {TRUE}
        /\ \A c \in Calls : InFlight(c) => Promise(c)
        /\ Quiet => Settled

LEMMA SeenIs ==
    ASSUME tree \in [Paths -> Entry], Contented, NEW p \in Paths
    PROVE  /\ Seen(tree)[p] = "absent" <=> tree[p].kind = "absent"
           /\ Seen(tree)[p] = "directory" <=> tree[p].kind = "directory"
           /\ Seen(tree)[p] \in Contents <=> tree[p].kind = "file"
<1>1. Seen(tree)[p] = IF tree[p].kind = "file" THEN tree[p].content ELSE tree[p].kind
    BY DEF Seen
<1>2. tree[p].kind \in {"absent", "directory", "file"}
    BY DEF Entry
<1>3. tree[p].kind = "file" => tree[p].content \in Contents
    BY DEF Contented
<1>4. "absent" \notin Contents /\ "directory" \notin Contents
    BY TreeAssumption
<1> QED
    BY <1>1, <1>2, <1>3, <1>4

\* The tree with one entry replaced.
LEMMA SeenPut ==
    ASSUME tree \in [Paths -> Entry], NEW p \in Paths, NEW e \in Entry,
           tree' = [tree EXCEPT ![p] = e]
    PROVE  Seen(tree)' = [Seen(tree) EXCEPT ![p] =
                              IF e.kind = "file" THEN e.content ELSE e.kind]
    BY DEF Seen

LEMMA SeenCounts ==
    ASSUME tree \in [Paths -> Entry], Contented
    PROVE  {p \in Paths : Memory!IsFile(Seen(tree), p)} = FilesOf(tree)
    BY SeenIs DEF Memory!IsFile, FilesOf

\* Where all that is above a path are directories or absent, the memory session
\* makes of the absent ones directories.
LEMMA ParentsMade ==
    ASSUME tree \in [Paths -> Entry], Contented, NEW p \in Paths, SafeEntryChain(p)
    PROVE  Memory!WithParents(Seen(tree), p) =
               [q \in Paths |-> IF q \in Ancestors[p] /\ tree[q].kind = "absent"
                                THEN "directory" ELSE Seen(tree)[q]]
<1>1. Ancestors[p] \subseteq Paths
    BY SandboxAssumption
<1>2. ASSUME NEW q \in Ancestors[p], NEW a \in Ancestors[q]
      PROVE  ~Memory!IsFile(Seen(tree), a)
    <2>1. a \in Ancestors[p] /\ a \in Paths
        BY <1>1, <1>2, TreeAssumption
    <2>2. tree[a].kind # "file"
        BY <2>1 DEF SafeEntryChain
    <2> QED
        BY <2>1, <2>2, SeenIs DEF Memory!IsFile
<1>3. ASSUME NEW q \in Paths
      PROVE  Seen(tree)[q] = "absent" <=> tree[q].kind = "absent"
    BY SeenIs
<1> QED
    BY <1>1, <1>2, <1>3 DEF Memory!WithParents

\* A write that nothing refuses, as the memory session m, which has counted ops
\* operations and by bytes, answers it.
MemoryTakes(m, p, content, ops, by) ==
    Memory!Write(m, FALSE, p, content) =
        [session |-> [tree |-> [Memory!WithParents(Seen(tree), p) EXCEPT ![p] = content],
                      operations |-> ops + 1, bytes |-> by + Size[content]],
         returned |-> TRUE]

LEMMA MemoryWrites ==
    ASSUME tree \in [Paths -> Entry], Contented, NEW p \in Paths, NEW content,
           SafeEntryChain(p),
           tree[p].kind # "absent" \/ Cardinality(FilesOf(tree)) < MaxFiles,
           PathAllowed(p), NEW m, NEW ops \in Nat, NEW by \in Nat,
           m = [tree |-> Seen(tree), operations |-> ops, bytes |-> by],
           ops + 1 <= MaxOperations, Size[content] \in Nat, by + Size[content] <= MaxBytes
    PROVE  MemoryTakes(m, p, content, ops, by)
<1> DEFINE made == Memory!WithParents(Seen(tree), p)
           parents == [m EXCEPT !.tree = Memory!WithParents(@, p)]
           counted == [parents EXCEPT !.operations = @ + 1]
           charged == [counted EXCEPT !.bytes = @ + Size[content]]
<1>1. parents = [tree |-> made, operations |-> ops, bytes |-> by]
    OBVIOUS
<1> HIDE DEF parents, made
<1>2. counted = [tree |-> made, operations |-> ops + 1, bytes |-> by]
    BY <1>1
<1> HIDE DEF counted
<1>3. charged = [tree |-> made, operations |-> ops + 1, bytes |-> by + Size[content]]
    BY <1>2
<1>4. [charged EXCEPT !.tree[p] = content] =
        [tree |-> [made EXCEPT ![p] = content],
         operations |-> ops + 1, bytes |-> by + Size[content]]
    <2> HIDE DEF charged
    <2> QED
        BY <1>3
<1> HIDE DEF charged
<1>5. Memory!Writable(p)
    BY DEF PathAllowed, Memory!Writable
<1>6. ~ \E a \in Ancestors[p] : Memory!IsFile(m.tree, a)
    <2>1. Ancestors[p] \subseteq Paths
        BY SandboxAssumption
    <2> QED
        BY <2>1, SeenIs DEF SafeEntryChain, Memory!IsFile
<1>7. ~(counted.operations > MaxOperations) /\ ~(charged.bytes > MaxBytes)
    BY <1>2, <1>3, SandboxAssumption
<1>8. made = [q \in Paths |-> IF q \in Ancestors[p] /\ tree[q].kind = "absent"
                               THEN "directory" ELSE Seen(tree)[q]]
    BY ParentsMade DEF made
<1>9. made[p] = Seen(tree)[p]
    BY <1>8, TreeAssumption
<1>10. Memory!CountFiles(charged.tree) = Cardinality(FilesOf(tree))
    <2>1. \A q \in Paths : Memory!IsFile(made, q) <=> Memory!IsFile(Seen(tree), q)
        BY <1>8, SeenIs, TreeAssumption DEF Memory!IsFile
    <2>2. {q \in Paths : Memory!IsFile(made, q)} = FilesOf(tree)
        BY <2>1, SeenCounts
    <2>3. charged.tree = made
        BY <1>3
    <2>4. Memory!CountFiles(made) = Cardinality(FilesOf(tree))
        BY <2>2 DEF Memory!CountFiles, Memory!Cardinality, Cardinality
    <2> QED
        BY <2>3, <2>4
<1>11. ~ /\ charged.tree[p] = "absent"
         /\ Memory!CountFiles(charged.tree) >= MaxFiles
    BY <1>3, <1>9, <1>10, SeenIs, FilesFinite, SandboxAssumption
<1> QED
    BY <1>4, <1>5, <1>6, <1>7, <1>11
       DEF MemoryTakes, Memory!Write, parents, counted, charged

LEMMA MemoryRemoves ==
    ASSUME tree \in [Paths -> Entry], Contented, NEW p \in Paths,
           tree[p].kind # "absent",
           tree[p].kind = "directory" => Children(p) = {},
           NEW m, NEW ops \in Nat, NEW by,
           m = [tree |-> Seen(tree), operations |-> ops, bytes |-> by],
           ops + 1 <= MaxOperations
    PROVE  Memory!Remove(m, FALSE, p) =
             [session |-> [tree |-> [Seen(tree) EXCEPT ![p] = "absent"],
                           operations |-> ops + 1, bytes |-> by],
              returned |-> TRUE]
<1> DEFINE emptied == [m EXCEPT !.tree[p] = "absent", !.operations = @ + 1]
           gone == [Seen(tree) EXCEPT ![p] = "absent"]
<1>1. emptied = [tree |-> gone, operations |-> ops + 1, bytes |-> by]
    <2> DEFINE taken == [m EXCEPT !.tree[p] = "absent"]
    <2>1. taken = [tree |-> gone, operations |-> ops, bytes |-> by]
        OBVIOUS
    <2>2. emptied = [taken EXCEPT !.operations = @ + 1]
        OBVIOUS
    <2> HIDE DEF taken, gone, emptied
    <2> QED
        BY <2>1, <2>2
<1>2. m.tree = Seen(tree) /\ emptied.operations = ops + 1
    BY <1>1
<1> HIDE DEF emptied
<1>3. m.tree[p] # "absent"
    BY <1>2, SeenIs
<1>4. ~ /\ m.tree[p] = "directory"
        /\ \E q \in Paths : p \in Ancestors[q] /\ m.tree[q] # "absent"
    BY <1>2, SeenIs DEF Children
<1>5. emptied.operations <= MaxOperations
    BY <1>2
<1> QED
    BY <1>1, <1>3, <1>4, <1>5 DEF Memory!Remove, emptied

-----------------------------------------------------------------------------
(* The two under one call after the other *)

\* A step of the call in flight, of which it is to be shown only what is known
\* of that call afterwards.
LEMMA AgreeGoes ==
    ASSUME IInv, IInv', AgreeInv, NEW c \in Calls, NEW s, Continues(c, s),
           UNCHANGED <<operations, bytes, memory, answers, apart>>,
           Agreeing /\ Agreeing' =>
              /\ Contented'
              /\ InFlight(c)' => Promise(c)'
              /\ ~InFlight(c)' => Agrees(c, Seen(tree)')
    PROVE  AgreeInv'
<1>1. answers' = [x \in Calls |-> answers'[x]]
    BY DEF AgreeInv
<1> SUFFICES ASSUME Agreeing'
             PROVE  /\ Contented'
                    /\ \A x \in Calls : calls'[x].pc = "returned" => answers[x] = {TRUE}
                    /\ \A x \in Calls : InFlight(x)' => Promise(x)'
                    /\ Quiet' => Settled'
    BY <1>1 DEF AgreeInv
<1>2. \A x \in Calls : x # c => calls'[x].pc = calls[x].pc
    BY DEF Continues, Becomes
<1>3. calls[c].pc # "refused"
    BY InFlightIs DEF Continues
<1>4. Agreeing
    BY <1>2, <1>3 DEF Agreeing
<1>5. /\ Contented'
      /\ InFlight(c)' => Promise(c)'
      /\ ~InFlight(c)' => Agrees(c, Seen(tree)')
    BY <1>4
<1>6. \A x \in Calls : InFlight(x)' => x = c
    <2>1. \A x \in Calls : InFlight(x) => x = c
        BY <1>4 DEF IInv, FilesInv, Agreeing, Continues
    <2> QED
        BY <1>2, <2>1 DEF InFlight
<1>7. ASSUME NEW x \in Calls, calls'[x].pc = "returned"
      PROVE  answers[x] = {TRUE}
    <2>1. CASE x # c
        BY <1>2, <1>4, <1>7, <2>1 DEF AgreeInv
    <2>2. CASE x = c
        <3>1. ~InFlight(c)'
            BY <1>7, <2>2 DEF InFlight, WritePcs, RemovePcs
        <3> QED
            BY <1>5, <2>2, <3>1 DEF Agrees
    <2> QED
        BY <2>1, <2>2
<1>8. ASSUME Quiet'
      PROVE  Settled'
    <2>1. Agrees(c, Seen(tree)')
        BY <1>5, <1>8 DEF Quiet
    <2>2. memory.tree = Seen(tree)'
        BY <2>1 DEF Agrees
    <2>3. ASSUME NEW r \in Sessions, \A x \in Calls : calls'[x].session \subseteq {r}
          PROVE  Session(c) = r
        <3>1. calls[c].pc # "new"
            BY InFlightIs DEF Continues
        <3>2. PICK z \in Sessions : calls[c].session = {z}
            BY <3>1 DEF IInv, CallsInv
        <3>3. calls'[c].session = calls[c].session
            BY DEF Continues, Becomes
        <3>4. z = r
            BY <2>3, <3>2, <3>3
        <3> QED
            BY <3>2, <3>4 DEF Session
    <2> QED
        BY <2>1, <2>2, <2>3 DEF Agrees, Settled
<1> QED
    BY <1>5, <1>6, <1>7, <1>8

\* A call that is refused ends the agreement.
LEMMA AgreeRefused ==
    ASSUME IInv, IInv', AgreeInv, NEW c \in Calls, InFlight(c), Refuse(c),
           UNCHANGED <<operations, bytes, memory, answers, apart>>
    PROVE  AgreeInv'
<1>1. PICK s : Continues(c, s) /\ s.pc = "refused"
    BY RefuseContinues DEF IInv
<1>2. ~Agreeing'
    BY <1>1 DEF Continues, Becomes, Agreeing
<1> QED
    BY <1>1, <1>2, AgreeGoes

\* What is known is about the request, the tree and the memory session.
LEMMA KnownKept ==
    ASSUME NEW c \in Calls, calls'[c].request = calls[c].request,
           calls'[c].session = calls[c].session,
           UNCHANGED <<tree, operations, bytes, memory, answers>>
    PROVE  /\ Request(c)' = Request(c) /\ Path(c)' = Path(c)
           /\ ParentsOf(c)' = ParentsOf(c)
           /\ Contented' <=> Contented
           /\ WillWrite(c)' <=> WillWrite(c)
           /\ HasWritten(c)' <=> HasWritten(c)
           /\ Present(ParentsOf(c))' <=> Present(ParentsOf(c))
           /\ temps' = temps => (WillRemove(c)' <=> WillRemove(c))
<1>1. /\ Request(c)' = Request(c) /\ Path(c)' = Path(c)
      /\ ParentsOf(c)' = ParentsOf(c)
    BY SameRequest
<1>2. Session(c)' = Session(c)
    BY DEF Session
<1>3. Seen(tree)' = Seen(tree) /\ FilesOf(tree)' = FilesOf(tree)
    BY DEF Seen, FilesOf
<1>4. ASSUME NEW t
      PROVE  Agrees(c, t)' <=> Agrees(c, t)
    BY <1>2 DEF Agrees
<1>5. Memory!WithParents(Seen(tree), Path(c))' = Memory!WithParents(Seen(tree), Path(c))
    BY <1>1, <1>3
<1>6. SafeEntryChain(Path(c))' <=> SafeEntryChain(Path(c))
    BY <1>1 DEF SafeEntryChain
<1>7. HasRoom(c)' <=> HasRoom(c)
    BY <1>1, <1>3 DEF HasRoom
<1>8. WillWrite(c)' <=> WillWrite(c)
    BY <1>1, <1>4, <1>5, <1>6, <1>7 DEF WillWrite
<1>9. HasWritten(c)' <=> HasWritten(c)
    BY <1>1, <1>3, <1>4 DEF HasWritten
<1>10. temps' = temps => (WillRemove(c)' <=> WillRemove(c))
    <2>1. temps' = temps => (Removable(c)' <=> Removable(c))
        BY <1>1 DEF Removable, Children
    <2> QED
        BY <1>1, <1>3, <1>4, <2>1 DEF WillRemove
<1> QED
    BY <1>1, <1>8, <1>9, <1>10 DEF Contented, Present

\* Once its parents are there and there is room, the write has been done.
LEMMA WriteKnown ==
    ASSUME IInv, NEW c \in Calls, calls[c].pc \notin {"new", "refused"}, Contented,
           WillWrite(c), Present(ParentsOf(c)), HasRoom(c), SafeEntryChain(Path(c))
    PROVE  HasWritten(c)
<1>1. Path(c) \in Paths /\ ParentsOf(c) \subseteq Paths
    BY RequestOf DEF IInv
<1>2. tree \in [Paths -> Entry]
    BY DEF IInv, TreeInv
<1>3. Memory!WithParents(Seen(tree), Path(c)) =
         [q \in Paths |-> IF q \in Ancestors[Path(c)] /\ tree[q].kind = "absent"
                          THEN "directory" ELSE Seen(tree)[q]]
    BY <1>1, <1>2, ParentsMade
<1>4. \A q \in Ancestors[Path(c)] : tree[q].kind # "absent"
    BY DEF Present, ParentsOf
<1>5. Seen(tree) = [q \in Paths |-> Seen(tree)[q]]
    BY DEF Seen
<1>6. Memory!WithParents(Seen(tree), Path(c)) = Seen(tree)
    BY <1>3, <1>4, <1>5
<1> QED
    BY <1>6 DEF WillWrite, HasWritten

LEMMA AgreeResolve ==
    ASSUME IInv, IInv', AgreeInv, NEW c \in Calls, Resolve(c),
           UNCHANGED <<memory, answers, apart>>
    PROVE  AgreeInv'
<1>1. /\ InFlight(c) /\ calls[c].pc = "resolving"
      /\ UNCHANGED <<tree, temps, operations, bytes>>
    BY DEF Resolve, InFlight
<1>2. CASE ~SafeEntryChain(Path(c))
    BY <1>1, <1>2, AgreeRefused DEF Resolve
<1>3. CASE SafeEntryChain(Path(c))
    <2> DEFINE pc == IF Request(c).op = "write" THEN "making" ELSE "inspecting"
               t == [calls[c] EXCEPT !.seen = Identity(tree[Path(c)])]
               s == [t EXCEPT !.pc = pc]
    <2>1. calls' = [calls EXCEPT ![c] = s]
        BY <1>3 DEF Resolve, IInv, CallsInv
    <2>2. IsCall(calls[c])
        BY DEF IInv, CallsInv
    <2>3. /\ IsCall(t)
          /\ t.session = calls[c].session /\ t.request = calls[c].request
        BY <2>2, SetSeen
    <2> HIDE DEF t
    <2>4. /\ IsCall(s) /\ s.pc = pc
          /\ s.session = calls[c].session /\ s.request = calls[c].request
        BY <2>3, SetPc
    <2> HIDE DEF s
    <2>5. s.pc \in {"making", "inspecting"}
        BY <2>4
    <2>6. Becomes(c, s)
        BY <2>1, <2>4, OneCall DEF IInv
    <2>7. Continues(c, s)
        BY <1>1, <2>4, <2>5, <2>6 DEF Continues
    <2>8. calls'[c] = s
        BY <2>6 DEF Becomes
    <2>9. ASSUME Agreeing
          PROVE  Contented' /\ Promise(c)'
        <3>1. /\ Contented
              /\ IF Request(c).op = "write" THEN WillWrite(c) ELSE WillRemove(c)
            BY <1>1, <2>9 DEF AgreeInv, Promise
        <3>2. /\ Contented'
              /\ IF Request(c).op = "write" THEN WillWrite(c)' ELSE WillRemove(c)'
              /\ Request(c)' = Request(c)
            BY <1>1, <2>4, <2>8, <3>1, KnownKept
        <3>3. CASE Request(c).op = "write"
            <4>1. calls'[c].pc = "making"
                BY <2>4, <2>8, <3>3
            <4> QED
                BY <3>2, <3>3, <4>1 DEF Promise
        <3>4. CASE Request(c).op # "write"
            <4>1. calls'[c].pc = "inspecting"
                BY <2>4, <2>8, <3>4
            <4> QED
                BY <3>2, <3>4, <4>1 DEF Promise, WritePcs
        <3> QED
            BY <3>3, <3>4
    <2>10. InFlight(c)'
        BY <2>5, <2>8 DEF InFlight, WritePcs, RemovePcs
    <2> QED
        BY <1>1, <2>7, <2>9, <2>10, AgreeGoes
<1> QED
    BY <1>2, <1>3

\* A call that goes on, having looked.
LEMMA AgreeGoto ==
    ASSUME IInv, IInv', AgreeInv, NEW c \in Calls, InFlight(c), NEW pc,
           pc \in WritePcs \cup RemovePcs, Goto(c, pc),
           UNCHANGED <<tree, temps, operations, bytes, memory, answers, apart>>,
           \* what is known of the call for its next step
           Agreeing =>
              /\ pc \in WritePcs => Request(c).op = "write"
              /\ pc = "counting" => WillWrite(c) /\ Present(ParentsOf(c))
              /\ pc \in {"writing", "renaming"} => HasWritten(c)
              /\ pc = "renaming" =>
                    \A t \in TempOf(c) : t.file.content = Request(c).content
              /\ pc = "removing" => WillRemove(c) /\ calls[c].removes # "absent",
           pc \in {"counting", "writing", "renaming", "cleaning", "removing"}
    PROVE  AgreeInv'
<1>1. PICK s : /\ Continues(c, s) /\ s.pc = pc
               /\ s.request = calls[c].request
               /\ s.number = calls[c].number /\ s.removes = calls[c].removes
    BY GotoContinues DEF IInv
<1>2. calls'[c] = s /\ s.session = calls[c].session
    BY <1>1 DEF Continues, Becomes
<1>3. ASSUME Agreeing
      PROVE  Contented' /\ Promise(c)'
    <2>1. Contented
        BY <1>3 DEF AgreeInv
    <2>2. TempOf(c)' = TempOf(c)
        BY <1>1, <1>2, SameRequest DEF TempOf, Named
    <2>3. /\ Request(c)' = Request(c)
          /\ Contented' <=> Contented
          /\ WillWrite(c)' <=> WillWrite(c)
          /\ HasWritten(c)' <=> HasWritten(c)
          /\ Present(ParentsOf(c))' <=> Present(ParentsOf(c))
          /\ WillRemove(c)' <=> WillRemove(c)
        BY <1>1, <1>2, KnownKept
    <2>4. calls'[c].pc = pc /\ calls'[c].removes = calls[c].removes
        BY <1>1, <1>2
    <2> QED
        BY <1>3, <2>1, <2>2, <2>3, <2>4 DEF Promise
<1>4. InFlight(c)'
    BY <1>1, <1>2 DEF InFlight
<1> QED
    BY <1>1, <1>3, <1>4, AgreeGoes

LEMMA AgreeCheckBeforeWrite ==
    ASSUME IInv, IInv', AgreeInv, NEW c \in Calls, CheckBeforeWrite(c),
           UNCHANGED <<memory, answers, apart>>
    PROVE  AgreeInv'
<1>1. /\ InFlight(c) /\ calls[c].pc = "made"
      /\ UNCHANGED <<tree, temps, operations, bytes>>
    BY DEF CheckBeforeWrite, InFlight, WritePcs
<1>2. Agreeing => /\ WillWrite(c) /\ Present(ParentsOf(c))
                  /\ Request(c).op = "write" /\ Contented
    BY <1>1 DEF AgreeInv, Promise, WritePcs
<1>3. CASE ~SameTarget(c)
    BY <1>1, <1>3, AgreeRefused DEF CheckBeforeWrite
<1>4. CASE SameTarget(c) /\ calls[c].seen.kind = "absent"
    <2>1. Goto(c, "counting")
        BY <1>4 DEF CheckBeforeWrite
    <2> QED
        BY <1>1, <1>2, <2>1, AgreeGoto DEF WritePcs
<1>5. CASE SameTarget(c) /\ calls[c].seen.kind # "absent"
    <2>1. Goto(c, "writing")
        BY <1>5 DEF CheckBeforeWrite
    <2>2. SafeEntryChain(Path(c)) /\ HasRoom(c)
        BY <1>5 DEF SameTarget, HasRoom, Identity
    <2>3. Agreeing => HasWritten(c)
        BY <1>1, <1>2, <2>2, WriteKnown
    <2> QED
        BY <1>1, <1>2, <2>1, <2>3, AgreeGoto DEF WritePcs
<1> QED
    BY <1>3, <1>4, <1>5

LEMMA AgreeCountFiles ==
    ASSUME IInv, IInv', AgreeInv, NEW c \in Calls, CountFiles(c),
           UNCHANGED <<memory, answers, apart>>
    PROVE  AgreeInv'
<1>1. /\ InFlight(c) /\ calls[c].pc = "counting"
      /\ UNCHANGED <<tree, temps, operations, bytes>>
    BY DEF CountFiles, InFlight, WritePcs
<1>2. Agreeing => /\ WillWrite(c) /\ Present(ParentsOf(c))
                  /\ Request(c).op = "write" /\ Contented
    BY <1>1 DEF AgreeInv, Promise, WritePcs
<1>3. CASE SnapshotFiles >= MaxFiles
    BY <1>1, <1>3, AgreeRefused DEF CountFiles
<1>4. CASE ~(SnapshotFiles >= MaxFiles)
    <2>1. Goto(c, "writing")
        BY <1>4 DEF CountFiles
    <2>2. Cardinality(FilesOf(tree)) \in Nat /\ Cardinality(temps) \in Nat
        BY FilesFinite, FS_CardinalityType DEF IInv, TempsInv
    <2>3. HasRoom(c)
        BY <1>4, <2>2, SandboxAssumption DEF SnapshotFiles, HasRoom
    <2>4. Agreeing => SafeEntryChain(Path(c))
        BY <1>2 DEF Present, SafeEntryChain, ParentsOf
    <2>5. Agreeing => HasWritten(c)
        BY <1>1, <1>2, <2>3, <2>4, WriteKnown
    <2> QED
        BY <1>1, <1>2, <2>1, <2>5, AgreeGoto DEF WritePcs
<1> QED
    BY <1>3, <1>4

LEMMA AgreeCheckBeforeRename ==
    ASSUME IInv, IInv', AgreeInv, NEW c \in Calls, CheckBeforeRename(c),
           UNCHANGED <<memory, answers, apart>>
    PROVE  AgreeInv'
<1>1. /\ InFlight(c) /\ calls[c].pc = "written"
      /\ UNCHANGED <<tree, temps, operations, bytes>>
    BY DEF CheckBeforeRename, InFlight, WritePcs
<1>2. Agreeing =>
        /\ HasWritten(c) /\ Request(c).op = "write"
        /\ \A t \in TempOf(c) : t.file.content = Request(c).content
    BY <1>1 DEF AgreeInv, Promise, WritePcs
<1>3. Goto(c, "renaming") \/ Goto(c, "cleaning")
    BY DEF CheckBeforeRename
<1> QED
    BY <1>1, <1>2, <1>3, AgreeGoto DEF WritePcs

LEMMA AgreeCheckBeforeRemove ==
    ASSUME IInv, IInv', AgreeInv, NEW c \in Calls, CheckBeforeRemove(c),
           UNCHANGED <<memory, answers, apart>>
    PROVE  AgreeInv'
<1>1. /\ InFlight(c) /\ calls[c].pc = "inspected"
      /\ UNCHANGED <<tree, temps, operations, bytes>>
    BY DEF CheckBeforeRemove, InFlight, RemovePcs
<1>2. Agreeing => WillRemove(c) /\ calls[c].removes # "absent"
    BY <1>1 DEF AgreeInv, Promise
<1>3. CASE SameTarget(c)
    <2>1. Goto(c, "removing")
        BY <1>3 DEF CheckBeforeRemove
    <2> QED
        BY <1>1, <1>2, <2>1, AgreeGoto DEF WritePcs, RemovePcs
<1>4. CASE ~SameTarget(c)
    BY <1>1, <1>4, AgreeRefused DEF CheckBeforeRemove
<1> QED
    BY <1>3, <1>4

LEMMA AgreeMakeParents ==
    ASSUME IInv, IInv', AgreeInv, NEW c \in Calls, MakeParents(c),
           UNCHANGED <<memory, answers, apart>>
    PROVE  AgreeInv'
<1>1. /\ InFlight(c) /\ calls[c].pc = "making"
      /\ UNCHANGED <<temps, operations, bytes>>
    BY DEF MakeParents, InFlight, WritePcs
<1>2. CASE ~SafeEntryChain(Path(c))
    <2>1. Refuse(c)
        BY <1>2 DEF MakeParents
    <2> QED
        BY <1>1, <2>1, AgreeRefused
<1>3. CASE SafeEntryChain(Path(c))
    <2> DEFINE made == {p \in ParentsOf(c) : tree[p].kind = "absent"}
               s == [calls[c] EXCEPT !.pc = "made"]
    <2>0. PICK inodes \in NewInodes(c, made) :
              tree' = [p \in Paths |-> IF p \in made THEN Directory(inodes[p]) ELSE tree[p]]
        BY <1>3 DEF MakeParents
    <2>1. /\ tree' = [p \in Paths |-> IF p \in made THEN Directory(inodes[p]) ELSE tree[p]]
          /\ calls' = [calls EXCEPT ![c] = s]
        BY <1>3, <2>0 DEF MakeParents, Goto
    <2>2. IsCall(calls[c])
        BY DEF IInv, CallsInv
    <2> HIDE DEF s
    <2>3. /\ IsCall(s) /\ s.pc = "made"
          /\ s.session = calls[c].session /\ s.request = calls[c].request
        BY <2>2, SetPc DEF s
    <2>4. Becomes(c, s)
        BY <2>1, <2>3, OneCall DEF IInv
    <2>5. Continues(c, s) /\ calls'[c] = s
        BY <1>1, <2>3, <2>4 DEF Continues, Becomes
    <2>6. \A i : Directory(i).kind = "directory"
        BY DEF Directory
    <2>7. /\ Path(c) \in Paths /\ ParentsOf(c) \subseteq Paths
          /\ ParentsOf(c) = Ancestors[Path(c)] /\ Path(c) \notin ParentsOf(c)
          /\ tree \in [Paths -> Entry] /\ tree' \in [Paths -> Entry]
        BY <1>1, RequestOf, TreeAssumption DEF IInv, TreeInv, ParentsOf
    <2>8. /\ Request(c)' = Request(c) /\ Path(c)' = Path(c)
          /\ ParentsOf(c)' = ParentsOf(c) /\ Session(c)' = Session(c)
        BY <2>3, <2>5, SameRequest DEF Session
    <2>9. ASSUME Agreeing
          PROVE  Contented' /\ Promise(c)'
        <3>1. /\ Contented /\ WillWrite(c) /\ Request(c).op = "write"
            BY <1>1, <2>9 DEF AgreeInv, Promise, WritePcs
        <3>2. Contented'
            BY <2>1, <2>6, <3>1 DEF Contented
        <3>3. Present(ParentsOf(c))'
            <4>1. ASSUME NEW a \in ParentsOf(c)
                  PROVE  tree'[a].kind = "directory"
                <5>1. a \in Paths /\ tree[a].kind \in {"absent", "directory", "file"}
                    BY <2>7, <4>1 DEF Entry
                <5>2. tree[a].kind # "file"
                    BY <1>3, <2>7, <4>1 DEF SafeEntryChain
                <5> QED
                    BY <2>1, <2>6, <4>1, <5>1, <5>2
            <4> QED
                BY <2>8, <4>1 DEF Present
        <3>4. SafeEntryChain(Path(c))'
            BY <2>7, <2>8, <3>3 DEF Present, SafeEntryChain
        <3>5. HasRoom(c)' <=> HasRoom(c)
            <4>1. \A p \in Paths : tree'[p].kind = "file" <=> tree[p].kind = "file"
                BY <2>1, <2>6
            <4>2. FilesOf(tree)' = FilesOf(tree)
                BY <4>1 DEF FilesOf
            <4>3. tree'[Path(c)] = tree[Path(c)]
                BY <2>1, <2>7
            <4> QED
                BY <2>8, <4>2, <4>3 DEF HasRoom
        <3>6. Memory!WithParents(Seen(tree), Path(c))' =
                  Memory!WithParents(Seen(tree), Path(c))
            <4> DEFINE parents(q) == q \in Ancestors[Path(c)] /\ tree[q].kind = "absent"
            <4>1. Memory!WithParents(Seen(tree), Path(c)) =
                     [q \in Paths |-> IF parents(q) THEN "directory" ELSE Seen(tree)[q]]
                BY <1>3, <2>7, <3>1, ParentsMade
            <4>2. Seen(tree)' = [q \in Paths |-> IF parents(q) THEN "directory"
                                                 ELSE Seen(tree)[q]]
                BY <2>1, <2>6, <2>7 DEF Seen
            <4>3. Seen(tree)' = [q \in Paths |-> Seen(tree)'[q]]
                BY DEF Seen
            <4>4. \A q \in Ancestors[Path(c)] : tree'[q].kind = "directory"
                BY <2>7, <2>8, <3>3 DEF Present
            <4>5. \A q \in Ancestors[Path(c)] : Seen(tree)'[q] = "directory"
                BY <2>7, <4>4 DEF Seen
            <4>6. Memory!WithParents(Seen(tree)', Path(c)) = Seen(tree)'
                BY <4>3, <4>5 DEF Memory!WithParents
            <4> QED
                BY <2>8, <4>1, <4>2, <4>6
        <3>7. WillWrite(c)'
            BY <1>1, <1>3, <2>8, <3>1, <3>5, <3>6 DEF WillWrite, Agrees
        <3>8. calls'[c].pc = "made"
            BY <2>3, <2>5
        <3> QED
            BY <2>8, <3>1, <3>2, <3>3, <3>7, <3>8 DEF Promise
    <2>10. InFlight(c)'
        BY <2>3, <2>5 DEF InFlight, WritePcs
    <2> HIDE DEF made
    <2> QED
        BY <1>1, <2>5, <2>9, <2>10, AgreeGoes
<1> QED
    BY <1>2, <1>3

LEMMA AgreeWriteTemp ==
    ASSUME IInv, IInv', AgreeInv, NEW c \in Calls, WriteTemp(c),
           UNCHANGED <<memory, answers, apart>>
    PROVE  AgreeInv'
<1>1. /\ InFlight(c) /\ calls[c].pc = "writing"
      /\ UNCHANGED <<tree, operations, bytes>>
    BY DEF WriteTemp, InFlight, WritePcs
<1> DEFINE number == operations[Session(c)]
           free == Present(ParentsOf(c)) /\ Named(ParentsOf(c), number) = {}
           pc == IF free THEN "written" ELSE "cleaning"
           t == [calls[c] EXCEPT !.number = number]
           s == [t EXCEPT !.pc = pc]
<1>2. calls' = [calls EXCEPT ![c] = s]
    BY DEF WriteTemp, IInv, CallsInv
<1>3. PICK i \in Inodes : temps' =
          IF free
          THEN temps \cup {[parent |-> ParentsOf(c), number |-> number,
                            file |-> File(Request(c).content, i)]}
          ELSE temps
    BY TempIsMade DEF IInv
<1> DEFINE file == File(Request(c).content, i)
           mine == [parent |-> ParentsOf(c), number |-> number, file |-> file]
<1>a. temps' = IF free THEN temps \cup {mine} ELSE temps
    BY <1>3
<1>b. file.content = Request(c).content
    BY DEF File
<1>4. free => Named(ParentsOf(c), number) = {}
    OBVIOUS
<1>5. IsCall(calls[c])
    BY DEF IInv, CallsInv
<1>6. mine.file = file
    OBVIOUS
<1> HIDE DEF number, free, file, mine
<1>7. /\ IsCall(t) /\ t.number = number
      /\ t.session = calls[c].session /\ t.request = calls[c].request
    BY <1>5, SetNumber
<1> HIDE DEF t
<1>8. /\ IsCall(s) /\ s.pc = pc /\ s.number = number
      /\ s.session = calls[c].session /\ s.request = calls[c].request
    BY <1>7, SetPc
<1> HIDE DEF s
<1>9. Becomes(c, s)
    BY <1>2, <1>8, OneCall DEF IInv
<1>10. Continues(c, s) /\ calls'[c] = s
    BY <1>1, <1>8, <1>9 DEF Continues, Becomes
<1>11. ASSUME Agreeing
       PROVE  Contented' /\ Promise(c)'
    <2>1. Contented /\ HasWritten(c) /\ Request(c).op = "write"
        BY <1>1, <1>11 DEF AgreeInv, Promise, WritePcs
    <2>2. /\ Request(c)' = Request(c) /\ ParentsOf(c)' = ParentsOf(c)
          /\ Contented' /\ HasWritten(c)'
        BY <1>1, <1>8, <1>10, <2>1, KnownKept
    <2>3. calls'[c].pc = pc /\ calls'[c].number = number
        BY <1>8, <1>10
    <2>4. ASSUME free, NEW u \in TempOf(c)'
          PROVE  u.file = file
        <3>1. /\ u \in temps' /\ u.parent = ParentsOf(c) /\ u.number = number
            BY <2>2, <2>3, <2>4 DEF TempOf, Named
        <3>2. u \notin temps
            BY <1>4, <2>4, <3>1 DEF Named
        <3>3. u = mine
            BY <1>a, <2>4, <3>1, <3>2
        <3> QED
            BY <1>6, <3>3
    <2>5. free => \A u \in TempOf(c)' : u.file.content = Request(c)'.content
        BY <1>b, <2>2, <2>4
    <2> QED
        BY <2>1, <2>2, <2>3, <2>5 DEF Promise
<1>12. InFlight(c)'
    BY <1>8, <1>10 DEF InFlight, WritePcs
<1> QED
    BY <1>1, <1>10, <1>11, <1>12, AgreeGoes

LEMMA AgreeInspect ==
    ASSUME IInv, IInv', AgreeInv, NEW c \in Calls, Inspect(c),
           UNCHANGED <<memory, answers, apart>>
    PROVE  AgreeInv'
<1>1. /\ InFlight(c) /\ calls[c].pc = "inspecting"
      /\ UNCHANGED <<tree, temps, operations, bytes>>
    BY DEF Inspect, InFlight, RemovePcs
<1> DEFINE t == [calls[c] EXCEPT !.removes = tree[Path(c)].kind]
           s == [t EXCEPT !.pc = "inspected"]
<1>2. CASE Refuse(c)
    BY <1>1, <1>2, AgreeRefused
<1>3. CASE calls' = [calls EXCEPT ![c] = s] /\ tree[Path(c)].kind # "absent"
    <2>2. IsCall(calls[c])
        BY DEF IInv, CallsInv
    <2>3. /\ IsCall(t) /\ t.removes = tree[Path(c)].kind
          /\ t.session = calls[c].session /\ t.request = calls[c].request
        BY <2>2, SetRemoves
    <2> HIDE DEF t
    <2>4. /\ IsCall(s) /\ s.pc = "inspected" /\ s.removes = tree[Path(c)].kind
          /\ s.session = calls[c].session /\ s.request = calls[c].request
        BY <2>3, SetPc
    <2>5. Becomes(c, s)
        BY <1>3, <2>4, OneCall DEF IInv
    <2> HIDE DEF s
    <2>6. Continues(c, s) /\ calls'[c] = s
        BY <1>1, <2>4, <2>5 DEF Continues, Becomes
    <2>7. ASSUME Agreeing
          PROVE  Contented' /\ Promise(c)'
        <3>1. Contented /\ WillRemove(c)
            BY <1>1, <2>7 DEF AgreeInv, Promise
        <3>2. Contented' /\ WillRemove(c)'
            BY <1>1, <2>4, <2>6, <3>1, KnownKept
        <3>3. calls'[c].pc = "inspected" /\ calls'[c].removes # "absent"
            BY <1>3, <2>4, <2>6
        <3> QED
            BY <3>2, <3>3 DEF Promise, WritePcs
    <2>8. InFlight(c)'
        BY <2>4, <2>6 DEF InFlight, RemovePcs
    <2> QED
        BY <1>1, <2>6, <2>7, <2>8, AgreeGoes
<1>4. \/ Refuse(c)
      \/ calls' = [calls EXCEPT ![c] = s] /\ tree[Path(c)].kind # "absent"
    BY DEF Inspect, IInv, CallsInv
<1> QED
    BY <1>2, <1>3, <1>4

\* A call that takes effect: the memory session holds what the tree now does.
LEMMA AgreeEffects ==
    ASSUME IInv, IInv', AgreeInv, NEW c \in Calls, InFlight(c),
           NEW entry \in Entry, Effects(c, entry),
           UNCHANGED <<operations, bytes, memory, answers, apart>>,
           Agreeing =>
              /\ entry.kind = "file" => entry.content \in Contents
              /\ Agrees(c, [Seen(tree) EXCEPT ![Path(c)] =
                                IF entry.kind = "file" THEN entry.content
                                ELSE entry.kind])
    PROVE  AgreeInv'
<1>1. Becomes(c, ReturnedFrom(c))
    BY ReturnedIs, OneCall DEF Effects, IInv
<1>2. Continues(c, ReturnedFrom(c)) /\ calls'[c].pc = "returned"
    BY <1>1, ReturnedIs DEF Continues, Becomes
<1>3. Path(c) \in Paths
    BY RequestOf, InFlightIs DEF IInv
<1>4. tree \in [Paths -> Entry] /\ tree' = [tree EXCEPT ![Path(c)] = entry]
    BY DEF IInv, TreeInv, Effects
<1>5. ASSUME Agreeing
      PROVE  Contented' /\ Agrees(c, Seen(tree)')
    <2>1. Seen(tree)' = [Seen(tree) EXCEPT ![Path(c)] =
                             IF entry.kind = "file" THEN entry.content ELSE entry.kind]
        BY <1>3, <1>4 DEF Seen
    <2>2. Contented
        BY <1>5 DEF AgreeInv
    <2>3. Contented'
        BY <1>3, <1>4, <1>5, <2>2 DEF Contented
    <2> QED
        BY <1>5, <2>1, <2>3
<1>6. ~InFlight(c)'
    BY <1>2 DEF InFlight, WritePcs, RemovePcs
<1> QED
    BY <1>2, <1>5, <1>6, AgreeGoes

LEMMA AgreeRename ==
    ASSUME IInv, IInv', AgreeInv, NEW c \in Calls, Rename(c),
           UNCHANGED <<memory, answers, apart>>
    PROVE  AgreeInv'
<1>1. /\ InFlight(c) /\ calls[c].pc = "renaming"
      /\ UNCHANGED <<operations, bytes>>
    BY DEF Rename, InFlight, WritePcs
<1>2. Agreeing =>
        /\ HasWritten(c) /\ Request(c).op = "write"
        /\ \A t \in TempOf(c) : t.file.content = Request(c).content
    BY <1>1 DEF AgreeInv, Promise, WritePcs
<1>3. CASE ~(TempOf(c) # {} /\ tree[Path(c)].kind # "directory")
    <2>1. Goto(c, "cleaning") /\ UNCHANGED <<tree, temps>>
        BY <1>3 DEF Rename
    <2> QED
        BY <1>1, <1>2, <2>1, AgreeGoto DEF WritePcs
<1>4. CASE TempOf(c) # {} /\ tree[Path(c)].kind # "directory"
    <2>1. PICK t \in TempOf(c) : Effects(c, t.file)
        BY <1>4 DEF Rename
    <2>2. t.file \in Entry /\ t.file.kind = "file"
        BY <2>1 DEF TempOf, Named, IInv, TempsInv
    <2>3. ASSUME Agreeing
          PROVE  /\ t.file.content \in Contents
                 /\ Agrees(c, [Seen(tree) EXCEPT ![Path(c)] = t.file.content])
        <3>1. t.file.content = Request(c).content
            BY <1>2, <2>1, <2>3 DEF File
        <3>2. Request(c) \in Requests
            BY <1>1, RequestOf DEF IInv
        <3>3. Request(c).content \in Contents
            BY <1>2, <2>3, <3>2 DEF Requests
        <3> QED
            BY <1>2, <2>3, <3>1, <3>3 DEF HasWritten
    <2> QED
        BY <1>1, <2>1, <2>2, <2>3, AgreeEffects
<1> QED
    BY <1>3, <1>4

LEMMA AgreeRemove ==
    ASSUME IInv, IInv', AgreeInv, NEW c \in Calls, Remove(c),
           UNCHANGED <<memory, answers, apart>>
    PROVE  AgreeInv'
<1>1. /\ InFlight(c) /\ calls[c].pc = "removing"
      /\ UNCHANGED <<temps, operations, bytes>>
    BY DEF Remove, InFlight, RemovePcs
<1>2. Agreeing => WillRemove(c) /\ calls[c].removes # "absent"
    BY <1>1 DEF AgreeInv, Promise
<1>3. CASE Refuse(c)
    BY <1>1, <1>3, AgreeRefused
<1>4. CASE /\ tree[Path(c)].kind = calls[c].removes
           /\ tree[Path(c)].kind = "directory" => Children(Path(c)) = {}
           /\ Effects(c, Nothing)
    <2>1. Nothing \in Entry /\ Nothing.kind = "absent"
        BY DEF Nothing, Entry
    <2>2. Agreeing => Agrees(c, [Seen(tree) EXCEPT ![Path(c)] = "absent"])
        BY <1>2, <1>4 DEF WillRemove, Removable
    <2> QED
        BY <1>1, <1>4, <2>1, <2>2, AgreeEffects
<1> QED
    BY <1>3, <1>4 DEF Remove

LEMMA AgreeContinue ==
    ASSUME IInv, IInv', AgreeInv, NEW c \in Calls, Continue(c),
           UNCHANGED <<memory, answers, apart>>
    PROVE  AgreeInv'
<1>1. CASE CleanUp(c)
    BY <1>1, AgreeRefused DEF CleanUp, InFlight, WritePcs
<1> QED
    BY <1>1, AgreeResolve, AgreeMakeParents, AgreeCheckBeforeWrite, AgreeCountFiles,
       AgreeWriteTemp, AgreeCheckBeforeRename, AgreeRename, AgreeInspect,
       AgreeCheckBeforeRemove, AgreeRemove DEF Continue

\* Call c has started for session s with the request q, within all limits, and
\* was counted.
AdmittedAs(c, s, q) ==
    /\ \E t : /\ Becomes(c, t) /\ t.pc = "resolving"
              /\ t.session = {s} /\ t.request = {q}
    /\ ~Denied(s) /\ ~OverOperations(s) /\ ~OverBytes(s, q)
    /\ PathAllowed(q.path)
    /\ operations' = [operations EXCEPT ![s] = @ + 1]
    /\ bytes' = IF q.op = "write" THEN [bytes EXCEPT ![s] = @ + Size[q.content]]
                ELSE bytes

\* A call that has started and was not refused was within all limits.
LEMMA StartAdmits ==
    ASSUME CallsInv, NEW c \in Calls, calls[c].pc = "new",
           NEW s \in Sessions, NEW q \in Requests, Start(c, s, q),
           calls'[c].pc # "refused"
    PROVE  AdmittedAs(c, s, q)
<1>1. CASE Uncounted(c, s, q)
    <2>1. Starts(c, s, q, FALSE)
        BY <1>1 DEF Uncounted
    <2>2. PICK t : /\ Becomes(c, t)
                   /\ t.pc \in {"resolving", "refused"}
                   /\ t.pc = "resolving" => FALSE
        <3>1. Started(c, s, q, FALSE)
            BY <2>1, StartsBecomes
        <3> QED
            BY <3>1 DEF Started
    <2> QED
        BY <2>2 DEF Becomes
<1>2. CASE Counted(c, s, q)
    <2> DEFINE admitted == /\ ~OverOperations(s) /\ ~OverBytes(s, q)
                           /\ PathAllowed(q.path)
    <2>1. Starts(c, s, q, admitted) /\ admitted \in BOOLEAN
        BY <1>2 DEF Counted
    <2>2. PICK t : /\ Becomes(c, t) /\ t.session = {s}
                   /\ t.pc \in {"resolving", "refused"}
                   /\ t.pc = "resolving" => t.request = {q} /\ admitted
        <3> HIDE DEF admitted
        <3>1. Started(c, s, q, admitted)
            BY <2>1, StartsBecomes
        <3> QED
            BY <3>1 DEF Started
    <2>3. t.pc = "resolving"
        BY <2>2 DEF Becomes
    <2>4. ~Denied(s) /\ operations' = [operations EXCEPT ![s] = @ + 1]
        BY <1>2 DEF Counted
    <2>5. admitted
        BY <2>2, <2>3
    <2>6. bytes' = IF q.op = "write" THEN [bytes EXCEPT ![s] = @ + Size[q.content]]
                   ELSE bytes
        BY <1>2, <2>5 DEF Counted
    <2> QED
        BY <2>2, <2>3, <2>4, <2>5, <2>6 DEF AdmittedAs
<1> QED
    BY <1>1, <1>2 DEF Start

\* The start of a call that nothing refuses: the memory session, which held the
\* tree, has made the same change, if the directory is going to.
LEMMA AgreeCall ==
    ASSUME IInv, AgreeInv, NEW c \in Calls, NEW s \in Sessions, NEW q \in Requests,
           Call(c, s, q)
    PROVE  AgreeInv'
<1>1. answers = [x \in Calls |-> answers[x]]
    BY DEF AgreeInv
<1>2. answers' = [x \in Calls |-> answers'[x]]
    BY <1>1 DEF Call
<1> SUFFICES ASSUME Agreeing'
             PROVE  /\ Contented'
                    /\ \A x \in Calls : calls'[x].pc = "returned" => answers'[x] = {TRUE}
                    /\ \A x \in Calls : InFlight(x)' => Promise(x)'
                    /\ Quiet' => Settled'
    BY <1>2 DEF AgreeInv
<1>3. /\ calls[c].pc = "new" /\ Start(c, s, q) /\ Follows(s)
      /\ UNCHANGED <<tree, temps>>
      /\ memory' = AnswerOf(s, q).session
      /\ answers' = [answers EXCEPT ![c] = {AnswerOf(s, q).returned}]
    BY DEF Call, Start, Agreeing
<1>4. calls'[c].pc # "refused"
    BY DEF Agreeing
<1>5. AdmittedAs(c, s, q)
    <2>1. CallsInv
        BY DEF IInv
    <2>2. calls[c].pc = "new" /\ Start(c, s, q)
        BY <1>3
    <2> QED
        BY <1>4, <2>1, <2>2, StartAdmits
<1>6. PICK t : /\ Becomes(c, t) /\ t.pc = "resolving"
               /\ t.session = {s} /\ t.request = {q}
    BY <1>5 DEF AdmittedAs
<1>7. /\ calls'[c] = t
      /\ \A x \in Calls : x # c => calls'[x].pc = calls[x].pc
    BY <1>6 DEF Becomes
<1>8. Session(c)' = s /\ Request(c)' = q /\ Path(c)' = q.path
    BY <1>6, <1>7 DEF Session, Request, Path
<1>9. Agreeing /\ Quiet
    BY <1>3, <1>7 DEF Agreeing, Follows, Quiet
<1>10. Contented /\ Settled /\ \A x \in Calls : calls[x].pc = "returned" => answers[x] = {TRUE}
    BY <1>9 DEF AgreeInv
<1>11. Contented'
    BY <1>3, <1>10 DEF Contented
<1>12. ASSUME NEW x \in Calls, calls'[x].pc = "returned"
       PROVE  answers'[x] = {TRUE}
    <2>1. x # c
        BY <1>6, <1>7, <1>12
    <2> QED
        BY <1>1, <1>3, <1>7, <1>10, <1>12, <2>1
<1>13. InFlight(c)' /\ \A x \in Calls : InFlight(x)' => x = c
    <2>1. InFlight(c)'
        BY <1>6, <1>7 DEF InFlight
    <2> QED
        BY <1>7, <1>9, <2>1 DEF Quiet, InFlight
<1>14. memory = [tree |-> Seen(tree), operations |-> operations[s], bytes |-> bytes[s]]
    BY <1>3, <1>10 DEF Follows, Settled
<1>15. /\ operations[s] \in Nat /\ bytes[s] \in Nat /\ operations'[s] = operations[s] + 1
       /\ operations[s] + 1 <= MaxOperations
       /\ bytes'[s] = IF q.op = "write" THEN bytes[s] + Size[q.content] ELSE bytes[s]
    <2>1. operations[s] \in Nat /\ bytes[s] \in Nat /\ CountersAre
        BY DEF IInv, LimitsInv, LimitsOf
    <2>2. operations'[s] = operations[s] + 1
        BY <1>5, <2>1 DEF CountersAre, AdmittedAs
    <2>3. bytes'[s] = IF q.op = "write" THEN bytes[s] + Size[q.content] ELSE bytes[s]
        BY <1>5, <2>1 DEF CountersAre, AdmittedAs
    <2>4. operations[s] + 1 <= MaxOperations
        BY <1>5, <2>1, SandboxAssumption DEF OverOperations, AdmittedAs
    <2> QED
        BY <2>1, <2>2, <2>3, <2>4
<1>16. tree \in [Paths -> Entry] /\ q.path \in Paths
    BY DEF IInv, TreeInv, Requests
<1>17. Seen(tree)' = Seen(tree) /\ FilesOf(tree)' = FilesOf(tree)
    BY <1>3 DEF Seen, FilesOf
<1>18. Denied(s) = FALSE
    BY <1>5 DEF Denied, AdmittedAs
<1>19. ASSUME q.op = "write", SafeEntryChain(Path(c))', HasRoom(c)'
       PROVE  Agrees(c, [Memory!WithParents(Seen(tree), Path(c))
                             EXCEPT ![Path(c)] = Request(c).content])'
    <2>1. SafeEntryChain(q.path)
        BY <1>3, <1>8, <1>19 DEF SafeEntryChain
    <2>2. tree[q.path].kind # "absent" \/ Cardinality(FilesOf(tree)) < MaxFiles
        BY <1>3, <1>8, <1>17, <1>19 DEF HasRoom
    <2>3. q.content \in Contents /\ Size[q.content] \in Nat
        BY <1>19, SandboxAssumption DEF Requests
    <2>4. bytes[s] + Size[q.content] <= MaxBytes
        BY <1>5, <1>15, <1>19, <2>3, SandboxAssumption DEF OverBytes, AdmittedAs
    <2> DEFINE after == [tree |-> [Memory!WithParents(Seen(tree), q.path)
                                       EXCEPT ![q.path] = q.content],
                         operations |-> operations[s] + 1,
                         bytes |-> bytes[s] + Size[q.content]]
    <2>5. Memory!Write(memory, FALSE, q.path, q.content) =
             [session |-> after, returned |-> TRUE]
        <3>1. PathAllowed(q.path) /\ Contented
            BY <1>5, <1>10 DEF AdmittedAs
        <3>2. operations[s] \in Nat /\ bytes[s] \in Nat /\ operations[s] + 1 <= MaxOperations
            BY <1>15
        <3>3. tree \in [Paths -> Entry] /\ q.path \in Paths
            BY <1>16
        <3>4. MemoryTakes(memory, q.path, q.content, operations[s], bytes[s])
            BY <1>14, <2>1, <2>2, <2>3, <2>4, <3>1, <3>2, <3>3, MemoryWrites
        <3> QED
            BY <3>4 DEF MemoryTakes
    <2>6. AnswerOf(s, q) = [session |-> after, returned |-> TRUE]
        <3>1. AnswerOf(s, q) = Memory!Write(memory, Denied(s), q.path, q.content)
            BY <1>19 DEF AnswerOf
        <3> QED
            BY <1>18, <2>5, <3>1, Zenon
    <2> HIDE DEF after
    <2>7. memory' = after /\ answers'[c] = {TRUE}
        BY <1>1, <1>3, <2>6
    <2> QED
        BY <1>8, <1>15, <1>17, <1>19, <2>7 DEF Agrees, after
<1>20. ASSUME q.op # "write", Removable(c)'
       PROVE  Agrees(c, [Seen(tree) EXCEPT ![Path(c)] = "absent"])'
    <2>1. /\ tree[q.path].kind # "absent"
          /\ tree[q.path].kind = "directory" => Children(q.path) = {}
        BY <1>3, <1>8, <1>20 DEF Removable, Children
    <2> DEFINE after == [tree |-> [Seen(tree) EXCEPT ![q.path] = "absent"],
                         operations |-> operations[s] + 1, bytes |-> bytes[s]]
    <2>2. Memory!Remove(memory, FALSE, q.path) = [session |-> after, returned |-> TRUE]
        <3>1. Contented /\ operations[s] \in Nat /\ operations[s] + 1 <= MaxOperations
            BY <1>10, <1>15
        <3> QED
            BY <1>14, <1>16, <2>1, <3>1, MemoryRemoves, Zenon
    <2>3. AnswerOf(s, q) = [session |-> after, returned |-> TRUE]
        <3>1. AnswerOf(s, q) = Memory!Remove(memory, Denied(s), q.path)
            BY <1>20 DEF AnswerOf
        <3> QED
            BY <1>18, <2>2, <3>1, Zenon
    <2> HIDE DEF after
    <2>4. memory' = after /\ answers'[c] = {TRUE}
        BY <1>1, <1>3, <2>3
    <2> QED
        BY <1>8, <1>15, <1>17, <1>20, <2>4 DEF Agrees, after
<1>21. Promise(c)'
    <2>1. calls'[c].pc = "resolving"
        BY <1>6, <1>7
    <2>2. q.op = "write" => WillWrite(c)'
        BY <1>19 DEF WillWrite
    <2>3. q.op # "write" => WillRemove(c)'
        BY <1>20 DEF WillRemove
    <2> QED
        BY <1>8, <2>1, <2>2, <2>3 DEF Promise, WritePcs
<1>22. ~Quiet'
    BY <1>13 DEF Quiet
<1> QED
    BY <1>11, <1>12, <1>13, <1>21, <1>22

LEMMA AgreeUntouched ==
    ASSUME AgreeInv, UNCHANGED <<tree, temps, operations, bytes, calls, memory, answers, apart>>
    PROVE  AgreeInv'
<1>1. \A x : /\ Request(x)' = Request(x) /\ Session(x)' = Session(x)
             /\ Path(x)' = Path(x) /\ ParentsOf(x)' = ParentsOf(x)
             /\ InFlight(x)' <=> InFlight(x)
    BY DEF Request, Session, Path, ParentsOf, InFlight
<1>2. ASSUME NEW x \in Calls
      PROVE  Promise(x)' <=> Promise(x)
    <2>1. /\ WillWrite(x)' <=> WillWrite(x)
          /\ HasWritten(x)' <=> HasWritten(x)
          /\ Present(ParentsOf(x))' <=> Present(ParentsOf(x))
          /\ WillRemove(x)' <=> WillRemove(x)
        BY KnownKept
    <2>2. TempOf(x)' = TempOf(x)
        BY <1>1 DEF TempOf, Named
    <2> QED
        BY <1>1, <2>1, <2>2 DEF Promise
<1>3. Seen(tree)' = Seen(tree)
    BY DEF Seen
<1>4. Settled' <=> Settled
    BY <1>3 DEF Settled
<1>5. (Agreeing' <=> Agreeing) /\ (Contented' <=> Contented) /\ (Quiet' <=> Quiet)
    BY <1>1 DEF Agreeing, Contented, Quiet
<1> QED
    BY <1>1, <1>2, <1>4, <1>5 DEF AgreeInv

LEMMA AgreeStep ==
    ASSUME IInv, IInv', AgreeInv, [Next]_vars
    PROVE  AgreeInv'
<1>1. CASE \E c \in Calls, s \in Sessions, q \in Requests : Call(c, s, q)
    BY <1>1, AgreeCall
<1>2. CASE (\E c \in Calls : Continue(c)) /\ UNCHANGED <<memory, answers, apart>>
    BY <1>2, AgreeContinue
<1>3. CASE (\E s \in Sessions : End(s)) /\ UNCHANGED <<memory, answers, apart>>
    BY <1>3, AgreeUntouched DEF End
<1>4. CASE UNCHANGED vars
    BY <1>4, AgreeUntouched DEF vars, tempVars
<1> QED
    BY <1>1, <1>2, <1>3, <1>4 DEF Next

LEMMA AgreeAtFirst ==
    ASSUME Init
    PROVE  AgreeInv
<1>1. calls = [c \in Calls |-> NewCall] /\ \A c \in Calls : calls[c].pc = "new"
    BY NewCallIs DEF Init, TempInit
<1>2. \A c \in Calls : ~InFlight(c) /\ calls[c].pc # "returned"
    BY <1>1 DEF InFlight, WritePcs, RemovePcs
<1>3. Contented
    BY TreeAssumption DEF Init, TempInit, Contented
<1>4. Settled
    <2>1. memory = [tree |-> Seen(tree), operations |-> 0, bytes |-> 0]
        BY DEF Init, Memory!Session
    <2>2. \A s \in Sessions : operations[s] = 0 /\ bytes[s] = 0
        BY DEF Init, TempInit
    <2> QED
        BY <2>1, <2>2 DEF Settled
<1>5. answers = [c \in Calls |-> answers[c]]
    BY DEF Init
<1> QED
    BY <1>2, <1>3, <1>4, <1>5 DEF AgreeInv

-----------------------------------------------------------------------------
(* Theorems *)

\* However calls of any number of sessions interleave, fail and take one
\* another's names, every temporary file is the one of a call in flight
\* (temp-dir-sandbox.ts, write).
THEOREM NoTempIsLeft == Spec => []NoStrayTemps
<1>1. IInv => NoStrayTemps
    BY DEF IInv, TempsInv
<1> QED
    BY <1>1, Invariance, PTL

\* The calls of a session that take effect keep within its operation and byte
\* limits, though the counters are read and written around awaits; files, which
\* are counted in the directory, while calls do not overlap.
THEOREM LimitsAreKept == Spec => []WithinLimits
<1>1. ASSUME IInv
      PROVE  WithinLimits
    <2>1. ASSUME NEW s \in Sessions
          PROVE  /\ Cardinality(Effected(s)) <= MaxOperations
                 /\ Cardinality(WrittenBytes(Written(s))) <= MaxBytes
        <3>1. /\ Cardinality(Admitted(s)) <= MaxOperations
              /\ IsFiniteSet(WrittenBytes(AdmittedWrites(s)))
              /\ Cardinality(WrittenBytes(AdmittedWrites(s))) <= MaxBytes
            BY <1>1 DEF IInv, LimitsInv, LimitsOf
        <3>2. Effected(s) \subseteq Admitted(s)
            BY DEF Effected, Admitted
        <3>3. WrittenBytes(Written(s)) \subseteq WrittenBytes(AdmittedWrites(s))
            BY <3>2 DEF Written, AdmittedWrites, WrittenBytes
        <3>4. /\ Cardinality(Effected(s)) <= Cardinality(Admitted(s))
              /\ Cardinality(Effected(s)) \in Nat /\ Cardinality(Admitted(s)) \in Nat
            BY <3>2, AdmittedFinite, FS_Subset, FS_CardinalityType
        <3>5. /\ Cardinality(WrittenBytes(Written(s))) <=
                    Cardinality(WrittenBytes(AdmittedWrites(s)))
              /\ Cardinality(WrittenBytes(Written(s))) \in Nat
              /\ Cardinality(WrittenBytes(AdmittedWrites(s))) \in Nat
            BY <3>1, <3>3, FS_Subset, FS_CardinalityType
        <3> QED
            BY <3>1, <3>4, <3>5, SandboxAssumption
    <2>2. ~apart => Cardinality(FilesOf(tree)) <= MaxFiles
        BY <1>1 DEF IInv, FilesInv
    <2> QED
        BY <2>1, <2>2 DEF WithinLimits
<1> QED
    BY <1>1, Invariance, PTL

\* One session making one call after the other, none of which the directory
\* refuses, finds on the temporary directory what it would find in memory
\* (temp-dir-sandbox.ts and memory-sandbox.ts, write and remove).
THEOREM SandboxesAgree == Spec => []SequentialAgreement
<1>1. Init => AgreeInv
    BY AgreeAtFirst
<1>2. IInv /\ IInv' /\ AgreeInv /\ [Next]_vars => AgreeInv'
    BY AgreeStep
<1>3. AgreeInv => SequentialAgreement
    BY DEF AgreeInv, SequentialAgreement, Agreeing, Settled
<1> QED
    BY <1>1, <1>2, <1>3, Invariance, PTL DEF Spec

================================================================================
