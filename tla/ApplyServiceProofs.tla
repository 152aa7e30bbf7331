------------------------- MODULE ApplyServiceProofs -------------------------
(***************************************************************************)
(* Proofs about the apply service, for any number of runs, preparations,   *)
(* inputs, paths and contents: a nonce starts one run as long as the       *)
(* process lives, a result tells what is in the sandbox, the records kept  *)
(* for a rollback account for all it has to undo, and a rollback within    *)
(* the limits of the sandbox that no call of the sandbox fails succeeds.   *)
(*                                                                         *)
(* The first is an argument about what the process remembers (NonceInv).   *)
(* The others are one about trees: what a plan carried out leaves, what    *)
(* the records of a prefix of it tell, and what undoing the last of them   *)
(* takes away from that.  They make up the invariant of one run (Good),    *)
(* which each of its awaits keeps by itself, and which the steps of the    *)
(* others leave alone unless they share its sandbox or its run id.         *)
(***************************************************************************)
EXTENDS ApplyService, FiniteSetTheorems, WellFoundedInduction, TLAPS

-----------------------------------------------------------------------------
(* What the process remembers *)

PreparedRecords == [input : Inputs, ready : BOOLEAN, consumed : BOOLEAN]

\* What the argument needs of the state: a started run keeps its preparation,
\* the preparation its input, and the nonces of the runs of this life of the
\* process are all marked used.
NonceInv ==
    /\ restarts \in Nat
    /\ prepared \in [Preparations -> SUBSET PreparedRecords]
    /\ DOMAIN runs = Runs
    /\ runs = [r \in Runs |-> runs[r]]
    /\ \A r \in Runs :
        /\ {"pc", "preparation", "epoch"} \subseteq DOMAIN runs[r]
        /\ runs[r].preparation \subseteq Preparations
        /\ Started(r) =>
            /\ runs[r].epoch \in 0..restarts
            /\ prepared[The(runs[r].preparation)] # {}
            /\ runs[r].epoch = restarts => NonceOf(r) \in usedApprovals
    /\ NonceStartsOneRun

-----------------------------------------------------------------------------
(* Steps that start no run *)

SameRun(new, old) ==
    /\ DOMAIN new = DOMAIN old
    /\ new.preparation = old.preparation
    /\ new.epoch = old.epoch

\* No run's preparation and epoch, and no preparation's input, changes.
KeepsRuns ==
    /\ DOMAIN runs' = Runs
    /\ runs' = [r \in Runs |-> runs'[r]]
    /\ \A r \in Runs : SameRun(runs'[r], runs[r])

KeepsInputs ==
    /\ prepared' \in [Preparations -> SUBSET PreparedRecords]
    /\ \A p \in Preparations : prepared[p] # {} =>
        /\ prepared'[p] # {}
        /\ InputOf(p)' = InputOf(p)

\* A chosen element of a set that is not empty is in the set.
LEMMA TheInSet ==
    ASSUME NEW S, S # {}
    PROVE  The(S) \in S
BY DEF The

\* The element chosen of a singleton is the one it has.
LEMMA TheOfSingleton ==
    ASSUME NEW x
    PROVE  The({x}) = x
BY DEF The

\* Replacing one run by one with the same preparation and epoch keeps them.
LEMMA StepKeepsRuns ==
    ASSUME NonceInv, NEW r \in Runs, NEW run, Step(r, run), SameRun(run, runs[r])
    PROVE  KeepsRuns
<1>1. runs' = [runs EXCEPT ![r] = run]
  BY DEF Step
<1>2. DOMAIN runs = Runs
  BY DEF NonceInv
<1>3. runs'[r] = run /\ \A q \in Runs \ {r} : runs'[q] = runs[q]
  BY <1>1, <1>2
<1>4. DOMAIN runs' = Runs /\ runs' = [q \in Runs |-> runs'[q]]
  BY <1>1, <1>2
<1>5. ASSUME NEW q \in Runs PROVE SameRun(runs'[q], runs[q])
  BY <1>3 DEF SameRun
<1> QED BY <1>4, <1>5 DEF KeepsRuns

\* Consuming a preparation keeps what it was made from.
LEMMA ConsumedKeepsInputs ==
    ASSUME NonceInv, NEW p \in Preparations, prepared[p] # {},
           prepared' = Consumed(p)
    PROVE  KeepsInputs
<1> DEFINE x == The(prepared[p])
           y == [x EXCEPT !.consumed = TRUE]
<1>1. prepared \in [Preparations -> SUBSET PreparedRecords]
  BY DEF NonceInv
<1>2. x \in PreparedRecords
  BY <1>1, TheInSet
<1>3. y \in PreparedRecords /\ y.input = x.input
  BY <1>2 DEF PreparedRecords
<1>4. prepared' = [prepared EXCEPT ![p] = {y}]
  BY DEF Consumed
<1>5. The({y}) = y
  BY TheOfSingleton
<1> HIDE DEF x, y
<1>6. prepared'[p] = {y} /\ \A q \in Preparations \ {p} : prepared'[q] = prepared[q]
  BY <1>1, <1>4
<1>7. prepared' \in [Preparations -> SUBSET PreparedRecords]
  BY <1>1, <1>3, <1>4
<1>8. InputOf(p)' = y.input /\ InputOf(p) = x.input
  BY <1>5, <1>6 DEF InputOf, x
<1>9. ASSUME NEW q \in Preparations, prepared[q] # {}
      PROVE  prepared'[q] # {} /\ InputOf(q)' = InputOf(q)
  <2>1. CASE q = p
    BY <2>1, <1>3, <1>6, <1>8
  <2>2. CASE q # p
    BY <2>2, <1>6, <1>9 DEF InputOf
  <2> QED BY <2>1, <2>2
<1> QED BY <1>7, <1>9 DEF KeepsInputs

\* The nonce of a started run stays what it is.
LEMMA NonceStays ==
    ASSUME NonceInv, KeepsInputs, NEW r \in Runs, Started(r),
           runs'[r].preparation = runs[r].preparation
    PROVE  NonceOf(r)' = NonceOf(r)
<1>1. The(runs[r].preparation) \in Preparations
  BY TheInSet DEF NonceInv, Started
<1>2. prepared[The(runs[r].preparation)] # {}
  BY DEF NonceInv
<1> DEFINE p == The(runs[r].preparation)
<1>3. InputOf(p)' = InputOf(p)
  BY <1>1, <1>2 DEF KeepsInputs
<1> QED BY <1>3 DEF NonceOf, InputOf

\* Steps that start no run and forget no nonce preserve the invariant.
LEMMA KeepsNonceInv ==
    ASSUME NonceInv, KeepsRuns, KeepsInputs, restarts' = restarts,
           usedApprovals \subseteq usedApprovals'
    PROVE  NonceInv'
<1>1. \A r \in Runs : /\ (Started(r))' <=> Started(r)
                      /\ runs'[r].preparation = runs[r].preparation
                      /\ runs'[r].epoch = runs[r].epoch
                      /\ DOMAIN runs'[r] = DOMAIN runs[r]
  BY DEF KeepsRuns, SameRun, Started
<1>2. \A r \in Runs : Started(r) => NonceOf(r)' = NonceOf(r)
  BY <1>1, NonceStays
<1>3. \A r \in Runs : Started(r) =>
        The(runs[r].preparation) \in Preparations
  BY TheInSet DEF NonceInv, Started
<1>4. \A r \in Runs : Started(r) => prepared'[The(runs'[r].preparation)] # {}
  BY <1>1, <1>3 DEF NonceInv, KeepsInputs
<1>5. NonceStartsOneRun'
  <2> SUFFICES ASSUME NEW r \in Runs, NEW q \in Runs, (Started(r))', (Started(q))',
                      r # q, NonceOf(r)' = NonceOf(q)'
               PROVE  runs'[r].epoch # runs'[q].epoch
    BY DEF NonceStartsOneRun
  <2>1. Started(r) /\ Started(q) /\ NonceOf(r) = NonceOf(q)
    BY <1>1, <1>2
  <2>2. runs[r].epoch # runs[q].epoch
    BY <2>1 DEF NonceInv, NonceStartsOneRun
  <2> QED BY <1>1, <2>2
<1>6. ASSUME NEW r \in Runs, (Started(r))'
      PROVE  /\ runs'[r].epoch \in 0..restarts'
             /\ runs'[r].epoch = restarts' => NonceOf(r)' \in usedApprovals'
  <2>1. Started(r) BY <1>1, <1>6
  <2>2. /\ runs[r].epoch \in 0..restarts
        /\ runs[r].epoch = restarts => NonceOf(r) \in usedApprovals
    BY <2>1 DEF NonceInv
  <2> QED BY <1>1, <1>2, <2>1, <2>2
<1>7. /\ restarts' \in Nat
      /\ prepared' \in [Preparations -> SUBSET PreparedRecords]
      /\ DOMAIN runs' = Runs
      /\ runs' = [r \in Runs |-> runs'[r]]
  BY DEF NonceInv, KeepsRuns, KeepsInputs
<1>8. \A r \in Runs : /\ {"pc", "preparation", "epoch"} \subseteq DOMAIN runs'[r]
                      /\ runs'[r].preparation \subseteq Preparations
  BY <1>1 DEF NonceInv
<1> QED BY <1>1, <1>4, <1>5, <1>6, <1>7, <1>8 DEF NonceInv

\* Unchanged preparations are kept.
LEMMA UnchangedInputs ==
    ASSUME NonceInv, prepared' = prepared
    PROVE  KeepsInputs
BY DEF NonceInv, KeepsInputs, InputOf

\* Unchanged runs are kept.
LEMMA UnchangedRuns ==
    ASSUME NonceInv, runs' = runs
    PROVE  KeepsRuns
BY DEF NonceInv, KeepsRuns, SameRun

-----------------------------------------------------------------------------
(* The actions *)

\* Preparing fills an object that held nothing.
LEMMA PrepareKeeps ==
    ASSUME NonceInv, NEW p \in Preparations, NEW input \in Inputs,
           ApplyAssumption, Prepare(p, input)
    PROVE  KeepsInputs
<1> DEFINE x == [input |-> input, ready |-> Ready(input), consumed |-> FALSE]
<1>1. prepared[p] = {} /\ prepared' = [prepared EXCEPT ![p] = {x}]
  BY DEF Prepare
<1>2. Ready(input) \in BOOLEAN
  BY DEF Ready
<1>3. x \in PreparedRecords
  BY <1>2 DEF PreparedRecords
<1> HIDE DEF x
<1>4. prepared \in [Preparations -> SUBSET PreparedRecords]
  BY DEF NonceInv
<1>5. prepared' \in [Preparations -> SUBSET PreparedRecords]
  BY <1>1, <1>3, <1>4
<1>6. \A q \in Preparations \ {p} : prepared'[q] = prepared[q]
  BY <1>1, <1>4
<1> QED BY <1>1, <1>5, <1>6 DEF KeepsInputs, InputOf

\* An await of a run that settles keeps the run's preparation and epoch.
LEMMA RunStepKeeps ==
    ASSUME NonceInv, NEW r \in Runs, RunStep(r) \/ TimeOut(r)
    PROVE  KeepsRuns /\ prepared' = prepared /\ restarts' = restarts
           /\ usedApprovals' = usedApprovals
<1> DEFINE Goal == KeepsRuns /\ prepared' = prepared /\ restarts' = restarts
                   /\ usedApprovals' = usedApprovals
<1>0. {"pc", "preparation", "epoch"} \subseteq DOMAIN runs[r]
  BY DEF NonceInv
<1>a. ASSUME NEW run, Step(r, run), SameRun(run, runs[r]) PROVE KeepsRuns
  BY <1>a, StepKeepsRuns
<1>1. CASE OpenSandbox(r)
  BY <1>0, <1>1, <1>a DEF OpenSandbox, SameRun, memory
<1>2. CASE SnapshotBefore(r)
  BY <1>0, <1>2, <1>a DEF SnapshotBefore, LoopAt, SameRun, memory
<1>3. CASE Throw(r)
  BY <1>0, <1>3, <1>a DEF Throw, Threw, SameRun, memory
<1>4. CASE Capture(r)
  BY <1>0, <1>4, <1>a DEF Capture, SameRun, memory
<1>5. CASE Skip(r)
  BY <1>0, <1>5, <1>a DEF Skip, Failed, SameRun
<1>6. CASE Drift(r)
  BY <1>0, <1>6, <1>a DEF Drift, Failed, SameRun
<1>7. CASE Mutate(r)
  <2> DEFINE run == [Recorded(runs[r]) EXCEPT !.used = Counted(runs[r])]
             go == LoopAt(r, [run EXCEPT !.applied = @ + 1], run.index + 1)
  <2>1. Step(r, go) \/ Step(r, Failed(run))
    BY <1>7 DEF Mutate
  <2>2. SameRun(run, runs[r])
    BY <1>0 DEF Recorded, SameRun
  <2>3. {"pc", "preparation", "epoch"} \subseteq DOMAIN run
    BY <1>0, <2>2 DEF SameRun
  <2> HIDE DEF run
  <2>4. SameRun(go, runs[r]) /\ SameRun(Failed(run), runs[r])
    BY <2>2, <2>3 DEF LoopAt, Failed, SameRun
  <2> HIDE DEF go
  <2>5. KeepsRuns
    BY <2>1, <2>4, <1>a
  <2> QED BY <1>7, <2>5 DEF Mutate
<1>8. CASE Decide(r)
  BY <1>0, <1>8, <1>a DEF Decide, SameRun, memory
<1>9. CASE RevertMissing(r)
  BY <1>0, <1>9, <1>a DEF RevertMissing, Reverted, SameRun, memory
<1>10. CASE RevertCreated(r)
  <2>1. PICK used, faults, removing, pending :
          Step(r, [runs[r] EXCEPT !.used = used, !.faults = faults,
                                  !.removing = removing, !.pending = pending])
    BY <1>10 DEF RevertCreated
  <2>2. SameRun([runs[r] EXCEPT !.used = used, !.faults = faults,
                                !.removing = removing, !.pending = pending], runs[r])
    BY <1>0 DEF SameRun
  <2> QED BY <1>10, <2>1, <2>2, <1>a DEF RevertCreated, memory
<1>11. CASE RevertReplaced(r)
  <2>1. PICK w : Step(r, Reverted([runs[r] EXCEPT
                !.used = Counted(runs[r]),
                !.unreverted = @ \/ ~w.ok,
                !.faults = IF w.fault THEN @ \cup {"write"} ELSE @]))
    BY <1>11 DEF RevertReplaced
  <2>2. SameRun(Reverted([runs[r] EXCEPT
                !.used = Counted(runs[r]),
                !.unreverted = @ \/ ~w.ok,
                !.faults = IF w.fault THEN @ \cup {"write"} ELSE @]), runs[r])
    BY <1>0 DEF Reverted, SameRun
  <2> QED BY <1>11, <2>1, <2>2, <1>a DEF RevertReplaced, memory
<1>12. CASE Verify(r)
  BY <1>0, <1>12, <1>a DEF Verify, Threw, SameRun, memory
<1>13. CASE Complete(r)
  BY <1>0, <1>13, <1>a DEF Complete, Threw, SameRun, memory
<1>14. CASE TimeOut(r)
  BY <1>0, <1>14, <1>a DEF TimeOut, SameRun, memory
<1> QED BY <1>1, <1>2, <1>3, <1>4, <1>5, <1>6, <1>7, <1>8, <1>9, <1>10, <1>11,
           <1>12, <1>13, <1>14 DEF RunStep

\* A run starts with a nonce that no run of this life of the process has.
LEMMA StartKeepsNonceInv ==
    ASSUME NonceInv, ApplyAssumption, NEW r \in Runs, NEW p \in Preparations,
           NEW s \in SandboxIds, Start(r, p, s)
    PROVE  NonceInv'
<1> DEFINE run == [runs[r] EXCEPT !.pc = "started", !.preparation = {p},
                                  !.sandbox = {s}, !.epoch = restarts]
<1>1. /\ prepared[p] # {} /\ prepared' = Consumed(p)
      /\ usedApprovals' = usedApprovals \cup {InputOf(p).nonce}
      /\ InputOf(p).nonce \notin usedApprovals
      /\ runs' = [runs EXCEPT ![r] = run]
      /\ restarts' = restarts
  BY DEF Start, CanStart, Reserved, Step
<1>2. KeepsInputs
  BY <1>1, ConsumedKeepsInputs
<1>3. /\ DOMAIN run = DOMAIN runs[r]
      /\ run.preparation = {p} /\ run.epoch = restarts
  BY DEF NonceInv
<1> HIDE DEF run
<1>4. /\ runs'[r] = run /\ \A q \in Runs \ {r} : runs'[q] = runs[q]
      /\ DOMAIN runs' = Runs /\ runs' = [q \in Runs |-> runs'[q]]
  BY <1>1 DEF NonceInv
<1>5. The({p}) = p
  BY TheOfSingleton
<1>6. NonceOf(r)' = InputOf(p).nonce
  <2>1. InputOf(p)' = InputOf(p)
    BY <1>1, <1>2 DEF KeepsInputs
  <2> QED BY <1>3, <1>4, <1>5, <2>1 DEF NonceOf, InputOf
<1>7. \A q \in Runs \ {r} : (Started(q))' <=> Started(q)
  BY <1>4 DEF Started
<1>8. \A q \in Runs \ {r} : Started(q) => NonceOf(q)' = NonceOf(q)
  BY <1>2, <1>4, NonceStays
<1>9. ASSUME NEW q \in Runs \ {r}, Started(q), NonceOf(q)' = NonceOf(r)'
      PROVE  runs'[q].epoch # runs'[r].epoch
  <2>1. NonceOf(q) \notin usedApprovals
    BY <1>1, <1>6, <1>8, <1>9
  <2>2. runs[q].epoch # restarts
    BY <1>9, <2>1 DEF NonceInv
  <2> QED BY <1>3, <1>4, <2>2
<1>10. NonceStartsOneRun'
  <2> SUFFICES ASSUME NEW a \in Runs, NEW b \in Runs, (Started(a))', (Started(b))',
                      a # b, NonceOf(a)' = NonceOf(b)'
               PROVE  runs'[a].epoch # runs'[b].epoch
    BY DEF NonceStartsOneRun
  <2>1. CASE a = r BY <2>1, <1>7, <1>9
  <2>2. CASE b = r BY <2>2, <1>7, <1>9
  <2>3. CASE a # r /\ b # r
    <3>1. Started(a) /\ Started(b) /\ NonceOf(a) = NonceOf(b)
      BY <2>3, <1>7, <1>8
    <3>2. runs[a].epoch # runs[b].epoch
      BY <3>1 DEF NonceInv, NonceStartsOneRun
    <3> QED BY <2>3, <3>2, <1>4
  <2> QED BY <2>1, <2>2, <2>3
<1>11. ASSUME NEW q \in Runs, (Started(q))'
       PROVE  /\ runs'[q].epoch \in 0..restarts'
              /\ prepared'[The(runs'[q].preparation)] # {}
              /\ runs'[q].epoch = restarts' => NonceOf(q)' \in usedApprovals'
  <2>1. CASE q = r
    <3>1. restarts \in 0..restarts BY DEF NonceInv
    <3>2. prepared'[p] # {} BY <1>1, <1>2 DEF KeepsInputs
    <3> QED BY <2>1, <3>1, <3>2, <1>1, <1>3, <1>4, <1>5, <1>6
  <2>2. CASE q # r
    <3>1. Started(q) /\ NonceOf(q)' = NonceOf(q) /\ runs'[q] = runs[q]
      BY <2>2, <1>4, <1>7, <1>8, <1>11
    <3>2. The(runs[q].preparation) \in Preparations
      BY <3>1, TheInSet DEF NonceInv, Started
    <3>3. /\ runs[q].epoch \in 0..restarts
          /\ prepared[The(runs[q].preparation)] # {}
          /\ runs[q].epoch = restarts => NonceOf(q) \in usedApprovals
      BY <3>1 DEF NonceInv
    <3>4. prepared'[The(runs[q].preparation)] # {}
      BY <1>2, <3>2, <3>3 DEF KeepsInputs
    <3> QED BY <1>1, <3>1, <3>3, <3>4
  <2> QED BY <2>1, <2>2
<1>12. \A q \in Runs : /\ {"pc", "preparation", "epoch"} \subseteq DOMAIN runs'[q]
                       /\ runs'[q].preparation \subseteq Preparations
  BY <1>3, <1>4 DEF NonceInv
<1>13. restarts' \in Nat /\ prepared' \in [Preparations -> SUBSET PreparedRecords]
  BY <1>1, <1>2 DEF NonceInv, KeepsInputs
<1> QED BY <1>4, <1>10, <1>11, <1>12, <1>13 DEF NonceInv

\* A restart forgets the nonces, and no run belongs to the new life yet.
LEMMA RestartKeepsNonceInv ==
    ASSUME NonceInv, Restart
    PROVE  NonceInv'
<1>1. KeepsRuns
  <2>1. runs' = [r \in Runs |-> IF InProgress(r)
                                THEN [runs[r] EXCEPT !.pc = "crashed"]
                                ELSE runs[r]]
    BY DEF Restart
  <2>2. ASSUME NEW r \in Runs PROVE SameRun(runs'[r], runs[r])
    <3>1. {"pc", "preparation", "epoch"} \subseteq DOMAIN runs[r]
      BY DEF NonceInv
    <3>2. SameRun([runs[r] EXCEPT !.pc = "crashed"], runs[r])
      BY <3>1 DEF SameRun
    <3>3. SameRun(runs[r], runs[r])
      BY DEF SameRun
    <3> QED BY <2>1, <3>2, <3>3
  <2>3. DOMAIN runs' = Runs /\ runs' = [r \in Runs |-> runs'[r]]
    BY <2>1
  <2> QED BY <2>2, <2>3 DEF KeepsRuns
<1>2. prepared' = prepared /\ restarts' = restarts + 1
  BY DEF Restart
<1>3. KeepsInputs
  BY <1>2, UnchangedInputs
<1>4. \A r \in Runs : /\ (Started(r))' <=> Started(r)
                      /\ runs'[r].preparation = runs[r].preparation
                      /\ runs'[r].epoch = runs[r].epoch
                      /\ DOMAIN runs'[r] = DOMAIN runs[r]
  BY <1>1 DEF KeepsRuns, SameRun, Started
<1>5. \A r \in Runs : Started(r) => NonceOf(r)' = NonceOf(r)
  BY <1>3, <1>4, NonceStays
<1>6. NonceStartsOneRun'
  <2> SUFFICES ASSUME NEW r \in Runs, NEW q \in Runs, (Started(r))', (Started(q))',
                      r # q, NonceOf(r)' = NonceOf(q)'
               PROVE  runs'[r].epoch # runs'[q].epoch
    BY DEF NonceStartsOneRun
  <2>1. Started(r) /\ Started(q) /\ NonceOf(r) = NonceOf(q)
    BY <1>4, <1>5
  <2>2. runs[r].epoch # runs[q].epoch
    BY <2>1 DEF NonceInv, NonceStartsOneRun
  <2> QED BY <1>4, <2>2
<1>7. ASSUME NEW r \in Runs, (Started(r))'
      PROVE  /\ runs'[r].epoch \in 0..restarts'
             /\ prepared'[The(runs'[r].preparation)] # {}
             /\ runs'[r].epoch # restarts'
  <2>1. /\ runs[r].epoch \in 0..restarts /\ restarts \in Nat
        /\ prepared[The(runs[r].preparation)] # {}
    BY <1>4, <1>7 DEF NonceInv
  <2>2. runs[r].epoch \in 0..restarts + 1 /\ runs[r].epoch # restarts + 1
    BY <2>1
  <2> QED BY <1>2, <1>4, <2>1, <2>2
<1>8. \A r \in Runs : /\ {"pc", "preparation", "epoch"} \subseteq DOMAIN runs'[r]
                      /\ runs'[r].preparation \subseteq Preparations
  BY <1>4 DEF NonceInv
<1>9. /\ restarts' \in Nat
      /\ prepared' \in [Preparations -> SUBSET PreparedRecords]
      /\ DOMAIN runs' = Runs
      /\ runs' = [r \in Runs |-> runs'[r]]
  BY <1>1, <1>2 DEF NonceInv, KeepsRuns
<1> QED BY <1>6, <1>7, <1>8, <1>9 DEF NonceInv

-----------------------------------------------------------------------------
(* The theorem *)

\* A service that has just started has no run and no used nonce.
LEMMA InitNonceInv ==
    ASSUME Init
    PROVE  NonceInv
<1>1. \A r \in Runs : runs[r] = NewRun
  BY DEF Init
<1>2. \A r \in Runs : ~Started(r)
  BY <1>1 DEF Started, NewRun
<1>3. \A r \in Runs : /\ {"pc", "preparation", "epoch"} \subseteq DOMAIN runs[r]
                      /\ runs[r].preparation \subseteq Preparations
  BY <1>1 DEF NewRun
<1>4. /\ restarts \in Nat
      /\ prepared \in [Preparations -> SUBSET PreparedRecords]
      /\ DOMAIN runs = Runs
      /\ runs = [r \in Runs |-> runs[r]]
  BY DEF Init
<1> QED BY <1>2, <1>3, <1>4 DEF NonceInv, NonceStartsOneRun

\* Every step of the service preserves the invariant, one case per action.
LEMMA NextNonceInv ==
    ASSUME ApplyAssumption, NonceInv, [Next]_vars
    PROVE  NonceInv'
<1>k. ASSUME KeepsRuns, KeepsInputs, restarts' = restarts,
             usedApprovals \subseteq usedApprovals'
      PROVE  NonceInv'
  BY <1>k, KeepsNonceInv
<1>1. ASSUME NEW p \in Preparations, NEW input \in Inputs, Prepare(p, input)
      PROVE  NonceInv'
  <2>1. KeepsInputs
    BY <1>1, PrepareKeeps
  <2>2. runs' = runs /\ restarts' = restarts /\ usedApprovals' = usedApprovals
    BY <1>1 DEF Prepare
  <2> QED BY <1>k, <2>1, <2>2, UnchangedRuns
<1>2. ASSUME NEW id \in RunIds, Cancel(id) \/ Rollback(id)
      PROVE  NonceInv'
  <2>1. /\ runs' = runs /\ restarts' = restarts /\ prepared' = prepared
        /\ usedApprovals' = usedApprovals
    BY <1>2 DEF Cancel, Rollback, memory
  <2> QED BY <1>k, <2>1, UnchangedRuns, UnchangedInputs
<1>3. ASSUME NEW r \in Runs, NEW p \in Preparations,
             Refuse(r, p) \/ RefuseConsumed(r, p)
      PROVE  NonceInv'
  <2>1. SameRun([runs[r] EXCEPT !.pc = "refused"], runs[r])
    BY DEF NonceInv, SameRun
  <2>2. KeepsRuns
    BY <1>3, <2>1, StepKeepsRuns DEF Refuse, RefuseConsumed
  <2>3. prepared' = prepared \/ (prepared[p] # {} /\ prepared' = Consumed(p))
    BY <1>3 DEF Refuse, RefuseConsumed
  <2>4. KeepsInputs
    BY <2>3, UnchangedInputs, ConsumedKeepsInputs
  <2>5. restarts' = restarts /\ usedApprovals' = usedApprovals
    BY <1>3 DEF Refuse, RefuseConsumed, memory
  <2> QED BY <1>k, <2>2, <2>4, <2>5
<1>4. ASSUME NEW r \in Runs, NEW p \in Preparations, NEW s \in SandboxIds,
             Start(r, p, s)
      PROVE  NonceInv'
  BY <1>4, StartKeepsNonceInv
<1>5. ASSUME NEW r \in Runs, RunStep(r) \/ TimeOut(r)
      PROVE  NonceInv'
  <2>1. /\ KeepsRuns /\ prepared' = prepared /\ restarts' = restarts
        /\ usedApprovals' = usedApprovals
    BY <1>5, RunStepKeeps
  <2> QED BY <1>k, <2>1, UnchangedInputs
<1>6. ASSUME Tick
      PROVE  NonceInv'
  <2>1. /\ runs' = runs /\ restarts' = restarts /\ prepared' = prepared
        /\ usedApprovals' = usedApprovals
    BY <1>6 DEF Tick, memory
  <2> QED BY <1>k, <2>1, UnchangedRuns, UnchangedInputs
<1>7. ASSUME Restart
      PROVE  NonceInv'
  BY <1>7, RestartKeepsNonceInv
<1>8. ASSUME UNCHANGED vars
      PROVE  NonceInv'
  <2>1. /\ runs' = runs /\ restarts' = restarts /\ prepared' = prepared
        /\ usedApprovals' = usedApprovals
    BY <1>8 DEF vars, memory
  <2> QED BY <1>k, <2>1, UnchangedRuns, UnchangedInputs
<1> QED BY <1>1, <1>2, <1>3, <1>4, <1>5, <1>6, <1>7, <1>8 DEF Next

\* While the process lives, an approval nonce starts one run: the reservation
\* in apply, before its first await, is enough whatever runs are prepared,
\* started, cancelled and resumed in between.
THEOREM NonceCorrect == Spec => []NonceStartsOneRun
<1>1. Init => NonceInv
  BY InitNonceInv
<1>2. NonceInv /\ [Next]_vars => NonceInv'
  BY ApplyAssumption, NextNonceInv
<1>3. NonceInv => NonceStartsOneRun
  BY DEF NonceInv
<1> QED BY <1>1, <1>2, <1>3, PTL DEF Spec

-----------------------------------------------------------------------------
(* Trees, and what the operations do to them *)

\* The trees in which what is above a path that is there is a directory.
Sound == {tree \in Trees : SoundTree(tree)}

\* What is above a path is above it once and for all: no path is above
\* itself, and what is above a parent is above its children.
LEMMA PathsAbove ==
    ASSUME NEW p \in Paths
    PROVE  /\ Ancestors[p] \subseteq Paths /\ p \notin Ancestors[p]
           /\ \A a \in Ancestors[p] : Ancestors[a] \subseteq Ancestors[p] /\ a # p
BY ApplyAssumption

\* What a read makes of each of the things a path may hold.
LEMMA FileIs ==
    ASSUME NEW tree \in Trees, NEW p \in Paths
    PROVE  /\ FileAt(tree, p) \in Contents \cup {Absent}
           /\ tree[p] # Directory => FileAt(tree, p) = tree[p]
           /\ tree[p] = Directory => FileAt(tree, p) = Absent
           /\ FileAt(tree, p) # Absent => tree[p] = FileAt(tree, p) /\ p \in Files(tree)
           /\ p \in Files(tree) <=> tree[p] \in Contents
BY ApplyAssumption DEF Trees, FileAt, Files, Absent, Directory

\* The directories above p are made, where there is no file among them.
LEMMA MadeSound ==
    ASSUME NEW tree \in Sound, NEW p \in Paths, Ancestors[p] \cap Files(tree) = {}
    PROVE  WithDirectories(tree, p) \in Sound
<1> DEFINE new == WithDirectories(tree, p)
<1>1. new \in Trees
  BY DEF WithDirectories, Sound, Trees
<1>2. ASSUME NEW q \in Paths, new[q] # Absent, NEW a \in Ancestors[q]
      PROVE  new[a] = Directory
  <2>1. a \in Paths
    BY <1>2, PathsAbove
  <2>2. CASE a \in Ancestors[p]
    BY <2>1, <2>2 DEF WithDirectories
  <2>3. CASE a \notin Ancestors[p]
    <3>1. q \notin Ancestors[p]
      BY <1>2, <2>3, PathsAbove
    <3>2. tree[q] # Absent
      BY <1>2, <3>1 DEF WithDirectories
    <3>3. tree[a] = Directory
      BY <1>2, <3>2 DEF Sound, SoundTree
    <3> QED BY <2>1, <2>3, <3>3 DEF WithDirectories
  <2> QED BY <2>2, <2>3
<1> QED BY <1>1, <1>2 DEF Sound, SoundTree

\* A file is put where there is no directory and all above it are directories.
LEMMA PutSound ==
    ASSUME NEW tree \in Sound, NEW p \in Paths, tree[p] # Directory,
           \A a \in Ancestors[p] : tree[a] = Directory,
           NEW content \in Contents
    PROVE  [tree EXCEPT ![p] = content] \in Sound
<1> DEFINE new == [tree EXCEPT ![p] = content]
<1>1. new \in Trees /\ tree \in [Paths -> {Absent, Directory} \cup Contents]
  BY DEF Sound, Trees
<1>2. ASSUME NEW q \in Paths, new[q] # Absent, NEW a \in Ancestors[q]
      PROVE  new[a] = Directory
  <2>1. a \in Paths
    BY <1>2, PathsAbove
  <2>2. CASE q = p
    BY <1>1, <1>2, <2>1, <2>2, PathsAbove
  <2>3. CASE q # p
    <3>1. tree[q] # Absent
      BY <1>1, <1>2, <2>3
    <3>2. tree[a] = Directory
      BY <1>2, <3>1 DEF Sound, SoundTree
    <3> QED BY <1>1, <2>1, <3>2
  <2> QED BY <2>2, <2>3
<1> QED BY <1>1, <1>2 DEF Sound, SoundTree

\* What is removed has nothing below it.
LEMMA RemovedSound ==
    ASSUME NEW tree \in Sound, NEW p \in Paths, NEW run
    PROVE  /\ Removed(run, tree, p) \in Sound
           /\ \A q \in Paths \ {p} : Removed(run, tree, p)[q] = tree[q]
<1>0. tree \in [Paths -> {Absent, Directory} \cup Contents]
  BY DEF Sound, Trees
<1>1. CASE Removable(tree, p) /\ ~Starved(run)
  <2> DEFINE new == [tree EXCEPT ![p] = Absent]
  <2>1. Removed(run, tree, p) = new /\ new \in Trees
    BY <1>0, <1>1 DEF Removed, Trees
  <2>2. ASSUME NEW q \in Paths, new[q] # Absent, NEW a \in Ancestors[q]
        PROVE  new[a] = Directory
    <3>1. a \in Paths
      BY <2>2, PathsAbove
    <3>2. tree[q] # Absent
      BY <1>0, <2>2
    <3>3. tree[a] = Directory
      BY <2>2, <3>2 DEF Sound, SoundTree
    <3>4. a # p
      BY <1>1, <2>2, <3>2 DEF Removable
    <3> QED BY <1>0, <3>1, <3>3, <3>4
  <2>3. \A q \in Paths \ {p} : new[q] = tree[q]
    BY <1>0
  <2> QED BY <2>1, <2>2, <2>3 DEF Sound, SoundTree
<1>2. CASE ~(Removable(tree, p) /\ ~Starved(run))
  BY <1>2 DEF Removed
<1> QED BY <1>1, <1>2

\* The directories above a file made, and the file put.
Put(tree, p, content) == [WithDirectories(tree, p) EXCEPT ![p] = content]

\* The outcomes of a write: it is refused, it stops at the directories, or it
\* puts the file.
Refuses(run, tree, p, w) ==
    /\ w.tree = tree /\ ~w.ok /\ ~w.fault
    /\ Starved(run) \/ Ancestors[p] \cap Files(tree) # {}

Stops(tree, p, w) ==
    /\ Ancestors[p] \cap Files(tree) = {}
    /\ w.tree = WithDirectories(tree, p) /\ ~w.ok
    /\ w.fault \/ tree[p] = Directory

Puts(tree, p, content, w) ==
    /\ Ancestors[p] \cap Files(tree) = {} /\ tree[p] # Directory
    /\ w.tree = Put(tree, p, content)
    /\ w.ok /\ ~w.fault

\* A write ends in one of the three ways.
LEMMA WriteIs ==
    ASSUME NEW tree \in Sound, NEW p \in Paths, NEW content \in Contents, NEW run,
           NEW w \in Write(run, tree, p, content)
    PROVE  Refuses(run, tree, p, w) \/ Stops(tree, p, w) \/ Puts(tree, p, content, w)
<1>1. CASE Starved(run)
  BY <1>1 DEF Write, Refuses
<1>2. CASE ~Starved(run) /\ w \in WriteFaults(tree, p)
  BY <1>2 DEF WriteFaults, Stops
<1>3. CASE ~Starved(run) /\ w = Written(tree, p, content)
  <2>1. CASE Ancestors[p] \cap Files(tree) # {}
    BY <1>3, <2>1 DEF Written, Refuses, Stops, Puts
  <2>2. CASE Ancestors[p] \cap Files(tree) = {} /\ tree[p] = Directory
    BY <1>3, <2>2 DEF Written, Refuses, Stops, Puts
  <2>3. CASE Ancestors[p] \cap Files(tree) = {} /\ tree[p] # Directory
    BY <1>3, <2>3 DEF Written, Refuses, Stops, Puts, Put
  <2> QED BY <2>1, <2>2, <2>3
<1> QED BY <1>1, <1>2, <1>3 DEF Write

\* The tree that a file has been put in, path by path.
LEMMA PutIs ==
    ASSUME NEW tree \in Sound, NEW p \in Paths, tree[p] # Directory,
           Ancestors[p] \cap Files(tree) = {}, NEW content \in Contents,
           NEW new, new = Put(tree, p, content)
    PROVE  /\ new \in Sound
           /\ new[p] = content
           /\ \A a \in Ancestors[p] : new[a] = Directory
           /\ \A q \in Paths : q # p /\ q \notin Ancestors[p] => new[q] = tree[q]
<1> DEFINE made == WithDirectories(tree, p)
<1>1. made \in Sound
  BY MadeSound
<1>2. /\ \A a \in Ancestors[p] : made[a] = Directory /\ a # p /\ a \in Paths
      /\ \A q \in Paths : q \notin Ancestors[p] => made[q] = tree[q]
      /\ made[p] = tree[p]
  BY PathsAbove DEF WithDirectories
<1>3. made \in [Paths -> {Absent, Directory} \cup Contents]
  BY <1>1 DEF Sound, Trees
<1> HIDE DEF made
<1>4. new = [made EXCEPT ![p] = content]
  BY DEF made, Put
<1>5. new \in Sound
  BY <1>1, <1>2, <1>4, PutSound
<1> QED BY <1>2, <1>3, <1>4, <1>5

\* Making directories changes what is above the path, and nothing else.
LEMMA MadeIs ==
    ASSUME NEW tree \in Sound, NEW p \in Paths, Ancestors[p] \cap Files(tree) = {}
    PROVE  /\ WithDirectories(tree, p) \in Sound
           /\ \A a \in Ancestors[p] : WithDirectories(tree, p)[a] = Directory
           /\ \A q \in Paths : q \notin Ancestors[p] => WithDirectories(tree, p)[q] = tree[q]
<1>1. WithDirectories(tree, p) \in Sound
  BY MadeSound
<1> QED BY <1>1, PathsAbove DEF WithDirectories

\* Whatever becomes of a write, it leaves a sound tree.
LEMMA WriteSound ==
    ASSUME NEW tree \in Sound, NEW p \in Paths, NEW content \in Contents, NEW run,
           NEW w \in Write(run, tree, p, content)
    PROVE  w.tree \in Sound
<1>1. CASE Refuses(run, tree, p, w)
  BY <1>1 DEF Refuses
<1>2. CASE Stops(tree, p, w)
  BY <1>2, MadeIs DEF Stops
<1>3. CASE Puts(tree, p, content, w)
  BY <1>3, PutIs DEF Puts
<1> QED BY <1>1, <1>2, <1>3, WriteIs

-----------------------------------------------------------------------------
(* A plan carried out *)

\* The plans of the inputs.
Plans == Seq(Operations)

\* Each operation of a plan names a path and a content.
LEMMA OperationIs ==
    ASSUME NEW plan \in Plans, NEW i \in 1..Len(plan)
    PROVE  plan[i].path \in Paths /\ plan[i].content \in Contents
<1>1. plan[i] \in Operations
  BY DEF Plans
<1> QED BY <1>1 DEF Operations

\* Nothing of a plan is carried out where nothing has changed.
LEMMA CarriedNone ==
    ASSUME NEW tree, NEW plan
    PROVE  CarriedOut(tree, tree, plan, 0)
BY DEF CarriedOut

\* An operation that does what it is for carries out one more.
LEMMA CarriedMore ==
    ASSUME NEW tree, NEW before, NEW plan, NEW n \in Nat,
           CarriedOut(tree, before, plan, n), NEW new,
           \A q \in Paths :
              /\ Concerns(plan[n + 1], q) => new[q] = Leaves(plan[n + 1], q)
              /\ ~Concerns(plan[n + 1], q) => new[q] = tree[q]
    PROVE  CarriedOut(new, before, plan, n + 1)
<1> SUFFICES ASSUME NEW q \in Paths
             PROVE  \/ /\ \A i \in 1..(n + 1) : ~Concerns(plan[i], q)
                       /\ new[q] = before[q]
                    \/ \E i \in 1..(n + 1) :
                          /\ Concerns(plan[i], q)
                          /\ \A j \in (i + 1)..(n + 1) : ~Concerns(plan[j], q)
                          /\ new[q] = Leaves(plan[i], q)
  BY DEF CarriedOut
<1>1. CASE Concerns(plan[n + 1], q)
  <2>1. n + 1 \in 1..(n + 1) /\ ((n + 1) + 1)..(n + 1) = {}
    OBVIOUS
  <2> QED BY <1>1, <2>1
<1>2. CASE ~Concerns(plan[n + 1], q)
  <2>1. new[q] = tree[q]
    BY <1>2
  <2>2. CASE (\A i \in 1..n : ~Concerns(plan[i], q)) /\ tree[q] = before[q]
    <3>1. \A i \in 1..(n + 1) : i \in 1..n \/ i = n + 1
      OBVIOUS
    <3> QED BY <1>2, <2>1, <2>2, <3>1
  <2>3. CASE \E i \in 1..n : /\ Concerns(plan[i], q)
                             /\ \A j \in (i + 1)..n : ~Concerns(plan[j], q)
                             /\ tree[q] = Leaves(plan[i], q)
    <3>1. PICK i \in 1..n : /\ Concerns(plan[i], q)
                            /\ \A j \in (i + 1)..n : ~Concerns(plan[j], q)
                            /\ tree[q] = Leaves(plan[i], q)
      BY <2>3
    <3>2. i \in 1..(n + 1) /\ \A j \in (i + 1)..(n + 1) : j \in (i + 1)..n \/ j = n + 1
      OBVIOUS
    <3> QED BY <1>2, <2>1, <3>1, <3>2
  <2> QED BY <2>2, <2>3 DEF CarriedOut
<1> QED BY <1>1, <1>2

-----------------------------------------------------------------------------
(* What the records of a run tell *)

\* Fits, for a plan and a tree: what the sandbox held before the run does not
\* stand in the way of an operation.
FitsIn(plan, before) ==
    \A i \in DOMAIN plan :
        /\ before[plan[i].path] # Directory
        /\ Ancestors[plan[i].path] \cap Files(before) = {}

\* Every difference between tree and before has to do with one of the first n
\* operations, or with what is left of the removals for the one after them.
Accounted(plan, before, tree, n, directories, files) ==
    /\ \A q \in Paths : tree[q] = Directory /\ before[q] # Directory =>
          /\ before[q] = Absent
          /\ (\E i \in 1..n : q \in Ancestors[plan[i].path]) \/ q \in directories
    /\ \A q \in Paths : tree[q] # Directory /\ tree[q] # before[q] =>
          (\E i \in 1..n : q = plan[i].path) \/ q \in files

\* The first record of a path keeps what was there before the run, and a file
\* was recorded only where no earlier operation needed a directory.
Kept(plan, before, priors) ==
    \A i \in 1..Len(priors) :
        /\ (\A j \in 1..(i - 1) : plan[j].path # plan[i].path) =>
              priors[i] = before[plan[i].path]
        /\ priors[i] # Absent =>
              \A j \in 1..(i - 1) : plan[i].path \notin Ancestors[plan[j].path]

\* No file is in the way of putting a recorded one back.
Clear(plan, tree, priors, n) ==
    \A i \in 1..n : priors[i] # Absent => Ancestors[plan[i].path] \cap Files(tree) = {}

\* The directories above the paths of the first n operations are there.
Laid(plan, tree, n) ==
    \A i \in 1..n : \A a \in Ancestors[plan[i].path] : tree[a] = Directory

\* A step of the loop on the operation after the n that have been recorded:
\* directories may be made above its path, and a file put, changed or removed.
Touched(tree, p, new) ==
    /\ \A a \in Ancestors[p] : new[a] = tree[a] \/ (new[a] = Directory /\ a \notin Files(tree))
    /\ \A q \in Paths : q # p /\ q \notin Ancestors[p] => new[q] = tree[q]
    /\ new[p] = tree[p] \/ (tree[p] # Directory /\ new[p] # Directory)

\* A step of the loop changes only what the record made before it accounts for.
LEMMA LoopAccounted ==
    ASSUME NEW plan \in Plans, NEW before \in Sound, NEW tree \in Sound, NEW new \in Sound,
           FitsIn(plan, before), NEW n \in Nat, n + 1 \in 1..Len(plan),
           Touched(tree, plan[n + 1].path, new),
           Accounted(plan, before, tree, n, {}, {})
    PROVE  Accounted(plan, before, new, n + 1, {}, {})
<1> DEFINE p == plan[n + 1].path
<1>1. p \in Paths /\ n + 1 \in 1..(n + 1) /\ \A i \in 1..n : i \in 1..(n + 1)
  BY OperationIs
<1>2. /\ before[p] # Directory
      /\ Ancestors[p] \cap Files(before) = {}
  BY DEF FitsIn, Plans
<1>3. ASSUME NEW q \in Paths, new[q] = Directory, before[q] # Directory
      PROVE  /\ before[q] = Absent
             /\ \E i \in 1..(n + 1) : q \in Ancestors[plan[i].path]
  <2>1. CASE q \in Ancestors[p]
    <3>1. before[q] = Absent
      BY <1>2, <1>3, <2>1 DEF Files
    <3> QED BY <1>1, <2>1, <3>1
  <2>2. CASE q \notin Ancestors[p]
    <3>1. tree[q] = Directory
      BY <1>3, <2>2 DEF Touched
    <3> QED BY <1>1, <1>3, <3>1 DEF Accounted
  <2> QED BY <2>1, <2>2
<1>4. ASSUME NEW q \in Paths, new[q] # Directory, new[q] # before[q]
      PROVE  \E i \in 1..(n + 1) : q = plan[i].path
  <2>1. CASE q = p
    BY <1>1, <2>1
  <2>2. CASE q # p
    <3>1. new[q] = tree[q]
      BY <1>4, <2>2 DEF Touched
    <3>2. \E i \in 1..n : q = plan[i].path
      BY <1>4, <3>1 DEF Accounted
    <3> QED BY <1>1, <3>2
  <2> QED BY <2>1, <2>2
<1> QED BY <1>3, <1>4 DEF Accounted

\* The record made for an operation is of what was there before the run, but
\* for a path that has an earlier record.
LEMMA LoopKept ==
    ASSUME NEW plan \in Plans, NEW before \in Sound, NEW tree \in Sound,
           FitsIn(plan, before), NEW priors \in Seq(Contents \cup {Absent}),
           NEW n \in Nat, n = Len(priors), n + 1 \in 1..Len(plan),
           Accounted(plan, before, tree, n, {}, {}), Laid(plan, tree, n),
           Kept(plan, before, priors),
           NEW prior \in Contents \cup {Absent}, prior = FileAt(tree, plan[n + 1].path)
    PROVE  Kept(plan, before, Append(priors, prior))
<1> DEFINE p == plan[n + 1].path
           more == Append(priors, prior)
<1>1. p \in Paths /\ tree \in Trees /\ before \in Trees
  BY OperationIs DEF Sound
<1>2. before[p] # Directory
  BY DEF FitsIn, Plans
<1>3. /\ Len(more) = n + 1 /\ more[n + 1] = prior
      /\ \A i \in 1..n : more[i] = priors[i]
  OBVIOUS
<1>4. ASSUME \A j \in 1..n : plan[j].path # p
      PROVE  prior = before[p]
  <2>1. CASE tree[p] = before[p]
    BY <1>1, <1>2, <2>1, FileIs
  <2>2. CASE tree[p] # before[p] /\ tree[p] = Directory
    BY <1>1, <1>2, <2>2, FileIs DEF Accounted
  <2>3. CASE tree[p] # before[p] /\ tree[p] # Directory
    BY <1>1, <1>4, <2>3 DEF Accounted
  <2> QED BY <2>1, <2>2, <2>3
<1>5. ASSUME prior # Absent, NEW j \in 1..n
      PROVE  p \notin Ancestors[plan[j].path]
  <2>1. tree[p] # Directory
    BY <1>1, <1>5, FileIs
  <2> QED BY <2>1 DEF Laid
<1> HIDE DEF p, more
<1>6. \A i \in 1..(n + 1) : (i \in 1..n \/ i = n + 1)
  OBVIOUS
<1>7. \A i \in 1..n :
        /\ (\A j \in 1..(i - 1) : plan[j].path # plan[i].path) =>
              priors[i] = before[plan[i].path]
        /\ priors[i] # Absent =>
              \A j \in 1..(i - 1) : plan[i].path \notin Ancestors[plan[j].path]
  BY DEF Kept
<1>8. (n + 1) - 1 = n
  OBVIOUS
<1>9. Kept(plan, before, more)
  BY <1>3, <1>4, <1>5, <1>6, <1>7, <1>8 DEF Kept, p
<1> QED BY <1>9 DEF more

\* A step of the loop puts no file above the path of a record with a content.
LEMMA LoopClear ==
    ASSUME NEW plan \in Plans, NEW tree \in Sound, NEW new \in Sound,
           NEW priors \in Seq(Contents \cup {Absent}),
           NEW n \in Nat, n = Len(priors), n + 1 \in 1..Len(plan),
           Touched(tree, plan[n + 1].path, new), Laid(plan, tree, n),
           Clear(plan, tree, priors, n),
           NEW prior \in Contents \cup {Absent}, prior = FileAt(tree, plan[n + 1].path),
           NEW more, more = Append(priors, prior)
    PROVE  Clear(plan, new, more, n + 1)
<1> DEFINE p == plan[n + 1].path
<1>1. p \in Paths /\ tree \in Trees /\ new \in Trees
  BY OperationIs DEF Sound
<1>2. more[n + 1] = prior /\ \A i \in 1..n : more[i] = priors[i]
  OBVIOUS
<1>3. ASSUME NEW i \in 1..n, priors[i] # Absent, NEW a \in Ancestors[plan[i].path]
      PROVE  a \notin Files(new)
  <2>1. a \in Paths /\ tree[a] = Directory
    <3>1. plan[i].path \in Paths
      BY OperationIs
    <3> QED BY <3>1, PathsAbove DEF Laid
  <2>2. new[a] = Directory
    BY <2>1 DEF Touched
  <2> QED BY <2>2 DEF Files
<1>4. ASSUME prior # Absent, NEW a \in Ancestors[p]
      PROVE  a \notin Files(new)
  <2>1. tree[p] # Absent
    BY <1>1, <1>4, FileIs DEF Files
  <2>2. tree[a] = Directory
    BY <1>1, <1>4, <2>1 DEF Sound, SoundTree
  <2>3. new[a] = Directory
    BY <1>4, <2>2 DEF Touched
  <2> QED BY <2>3 DEF Files
<1>5. \A i \in 1..(n + 1) : (i \in 1..n \/ i = n + 1)
  OBVIOUS
<1> HIDE DEF p
<1> QED BY <1>2, <1>3, <1>4, <1>5 DEF Clear, p

\* An operation that made its directories leaves them and the earlier ones there.
LEMMA LoopLaid ==
    ASSUME NEW plan \in Plans, NEW tree, NEW new, NEW n \in Nat, n + 1 \in 1..Len(plan),
           Touched(tree, plan[n + 1].path, new), Laid(plan, tree, n),
           \A a \in Ancestors[plan[n + 1].path] : new[a] = Directory
    PROVE  Laid(plan, new, n + 1)
<1> DEFINE p == plan[n + 1].path
<1>1. ASSUME NEW i \in 1..n, NEW a \in Ancestors[plan[i].path]
      PROVE  new[a] = Directory
  <2>1. a \in Paths /\ tree[a] = Directory
    <3>1. plan[i].path \in Paths
      BY OperationIs
    <3> QED BY <3>1, PathsAbove DEF Laid
  <2> QED BY <2>1 DEF Touched
<1>2. \A i \in 1..(n + 1) : (i \in 1..n \/ i = n + 1)
  OBVIOUS
<1> QED BY <1>1, <1>2 DEF Laid

-----------------------------------------------------------------------------
(* The records undone, from the last to the first *)

\* What the n-th record has to take away.
RecordRemovals(plan, before, n) ==
    {plan[n].path} \cup {d \in Ancestors[plan[n].path] : before[d] # Directory}

\* All that has to be undone for the last record is among its removals.
LEMMA RemovalsAccounted ==
    ASSUME NEW plan \in Plans, NEW before \in Sound, NEW tree \in Sound,
           NEW n \in Nat, n \in 1..Len(plan),
           Accounted(plan, before, tree, n, {}, {}),
           NEW rest, rest = RecordRemovals(plan, before, n)
    PROVE  Accounted(plan, before, tree, n - 1,
                     rest \cap Ancestors[plan[n].path], rest \cap {plan[n].path})
<1> DEFINE p == plan[n].path
<1>1. \A i \in 1..n : i \in 1..(n - 1) \/ i = n
  OBVIOUS
<1>2. ASSUME NEW q \in Paths, tree[q] = Directory, before[q] # Directory
      PROVE  /\ before[q] = Absent
             /\ (\E i \in 1..(n - 1) : q \in Ancestors[plan[i].path])
                \/ q \in rest \cap Ancestors[p]
  BY <1>1, <1>2 DEF Accounted, RecordRemovals
<1>3. ASSUME NEW q \in Paths, tree[q] # Directory, tree[q] # before[q]
      PROVE  (\E i \in 1..(n - 1) : q = plan[i].path) \/ q \in rest \cap {p}
  BY <1>1, <1>3 DEF Accounted, RecordRemovals
<1> QED BY <1>2, <1>3 DEF Accounted

\* A removal that cannot be made is one that is not needed, or that is due to
\* an earlier record too.
LEMMA RemovalKept ==
    ASSUME NEW plan \in Plans, NEW before \in Sound, NEW tree \in Sound,
           FitsIn(plan, before), NEW n \in Nat, n \in 1..Len(plan),
           NEW priors \in Seq(Contents \cup {Absent}), n \in 1..Len(priors),
           Kept(plan, before, priors), priors[n] = Absent,
           NEW removals \in SUBSET RecordRemovals(plan, before, n),
           Accounted(plan, before, tree, n - 1, removals \cap Ancestors[plan[n].path],
                     removals \cap {plan[n].path}),
           NEW x \in removals, \A q \in removals : x \notin Ancestors[q],
           NEW run, ~Starved(run)
    PROVE  Accounted(plan, before, Removed(run, tree, x), n - 1,
                     (removals \ {x}) \cap Ancestors[plan[n].path],
                     (removals \ {x}) \cap {plan[n].path})
<1> DEFINE p == plan[n].path
           rest == removals \ {x}
           new == Removed(run, tree, x)
<1>1. /\ p \in Paths /\ x \in Paths /\ (x = p \/ x \in Ancestors[p])
      /\ x # p => before[x] # Directory /\ x \in Ancestors[p]
  BY OperationIs, PathsAbove DEF RecordRemovals
<1>2. tree \in [Paths -> {Absent, Directory} \cup Contents]
      /\ before \in [Paths -> {Absent, Directory} \cup Contents]
  BY DEF Sound, Trees
<1>3. x # p => before[x] = Absent
  BY <1>1, <1>2 DEF FitsIn, Plans, Files
<1>4. ASSUME before[p] # Absent
      PROVE  \E i \in 1..(n - 1) : p = plan[i].path
  BY <1>4 DEF Kept
<1>5. CASE Removable(tree, x)
  <2>1. new = [tree EXCEPT ![x] = Absent]
    BY <1>5 DEF Removed
  <2>2. new[x] = Absent /\ \A q \in Paths \ {x} : new[q] = tree[q]
    BY <1>1, <1>2, <2>1
  <2>3. ASSUME NEW q \in Paths, new[q] = Directory, before[q] # Directory
        PROVE  /\ before[q] = Absent
               /\ (\E i \in 1..(n - 1) : q \in Ancestors[plan[i].path])
                  \/ q \in rest \cap Ancestors[p]
    <3>1. q # x /\ tree[q] = Directory
      BY <2>2, <2>3 DEF Absent, Directory
    <3> QED BY <2>3, <3>1 DEF Accounted
  <2>4. ASSUME NEW q \in Paths, new[q] # Directory, new[q] # before[q]
        PROVE  (\E i \in 1..(n - 1) : q = plan[i].path) \/ q \in rest \cap {p}
    <3>1. CASE q = x
      BY <3>1, <2>2, <2>4, <1>3, <1>4
    <3>2. CASE q # x
      BY <3>2, <2>2, <2>4 DEF Accounted
    <3> QED BY <3>1, <3>2
  <2> QED BY <2>3, <2>4 DEF Accounted
<1>6. CASE ~Removable(tree, x)
  <2>1. new = tree
    BY <1>6 DEF Removed
  <2>2. ASSUME tree[x] = Directory, before[x] # Directory
        PROVE  \E i \in 1..(n - 1) : x \in Ancestors[plan[i].path]
    <3>1. PICK y \in Paths : x \in Ancestors[y] /\ tree[y] # Absent
      BY <1>6, <2>2 DEF Removable, Absent, Directory
    <3>2. before[y] = Absent /\ tree[y] # before[y] /\ before[y] # Directory
      BY <2>2, <3>1 DEF Sound, SoundTree, Absent, Directory
    <3>3. y \notin removals
      BY <3>1
    <3>4. CASE tree[y] = Directory
      <4>1. PICK i \in 1..(n - 1) : y \in Ancestors[plan[i].path]
        BY <3>2, <3>3, <3>4 DEF Accounted
      <4>2. plan[i].path \in Paths
        BY OperationIs
      <4>3. x \in Ancestors[plan[i].path]
        BY <3>1, <4>1, <4>2, PathsAbove
      <4> QED BY <4>3
    <3>5. CASE tree[y] # Directory
      <4>1. PICK i \in 1..(n - 1) : y = plan[i].path
        BY <3>2, <3>3, <3>5 DEF Accounted
      <4> QED BY <3>1, <4>1
    <3> QED BY <3>4, <3>5
  <2>3. ASSUME tree[p] # Directory, tree[p] # before[p], x = p
        PROVE  \E i \in 1..(n - 1) : p = plan[i].path
    <3>1. CASE tree[p] = Absent
      BY <1>4, <2>3, <3>1
    <3>2. CASE tree[p] # Absent
      <4>1. PICK y \in Paths : p \in Ancestors[y] /\ tree[y] # Absent
        BY <1>6, <2>3, <3>2 DEF Removable
      <4> QED BY <2>3, <4>1 DEF Sound, SoundTree
    <3> QED BY <3>1, <3>2
  <2>4. ASSUME NEW q \in Paths, tree[q] = Directory, before[q] # Directory
        PROVE  /\ before[q] = Absent
               /\ (\E i \in 1..(n - 1) : q \in Ancestors[plan[i].path])
                  \/ q \in rest \cap Ancestors[p]
    BY <2>2, <2>4 DEF Accounted
  <2>5. ASSUME NEW q \in Paths, tree[q] # Directory, tree[q] # before[q]
        PROVE  (\E i \in 1..(n - 1) : q = plan[i].path) \/ q \in rest \cap {p}
    BY <2>3, <2>5 DEF Accounted
  <2> QED BY <2>1, <2>4, <2>5 DEF Accounted
<1> QED BY <1>5, <1>6

\* Taking away puts no file in the way.
LEMMA RemovalClear ==
    ASSUME NEW plan \in Plans, NEW tree \in Sound, NEW x \in Paths, NEW run,
           NEW n \in Nat, n <= Len(plan), NEW m \in Nat, m <= n, NEW priors,
           Clear(plan, tree, priors, n)
    PROVE  Clear(plan, Removed(run, tree, x), priors, m)
<1> DEFINE new == Removed(run, tree, x)
<1>1. tree \in [Paths -> {Absent, Directory} \cup Contents]
  BY DEF Sound, Trees
<1>2. new = tree \/ new = [tree EXCEPT ![x] = Absent]
  BY DEF Removed
<1>3. Files(new) \subseteq Files(tree)
  BY <1>1, <1>2 DEF Files
<1>4. \A i \in 1..m : i \in 1..n
  OBVIOUS
<1> HIDE DEF new
<1>5. ASSUME NEW i \in 1..m, priors[i] # Absent
      PROVE  Ancestors[plan[i].path] \cap Files(new) = {}
  <2>1. Ancestors[plan[i].path] \cap Files(tree) = {}
    BY <1>4, <1>5 DEF Clear
  <2> QED BY <2>1, <1>3
<1>6. Clear(plan, new, priors, m)
  BY <1>5 DEF Clear
<1> QED BY <1>6 DEF new

\* Where the last record keeps a content, it can be put back.
LEMMA RestoreFree ==
    ASSUME NEW plan \in Plans, NEW before \in Sound, NEW tree \in Sound,
           FitsIn(plan, before), NEW n \in Nat, n \in 1..Len(plan),
           NEW priors \in Seq(Contents \cup {Absent}), n \in 1..Len(priors),
           Kept(plan, before, priors), priors[n] # Absent,
           Clear(plan, tree, priors, n),
           Accounted(plan, before, tree, n, {}, {})
    PROVE  tree[plan[n].path] # Directory
           /\ Ancestors[plan[n].path] \cap Files(tree) = {}
<1> DEFINE p == plan[n].path
<1>1. p \in Paths
  BY OperationIs
<1>2. before[p] # Directory
  BY DEF FitsIn, Plans
<1>3. ASSUME tree[p] = Directory
      PROVE  FALSE
  <2>1. PICK i \in 1..n : p \in Ancestors[plan[i].path]
    BY <1>1, <1>2, <1>3 DEF Accounted
  <2>2. i # n
    BY <1>1, <2>1, PathsAbove
  <2>3. i \in 1..(n - 1)
    BY <2>2
  <2> QED BY <2>1, <2>3 DEF Kept
<1> QED BY <1>3 DEF Clear

\* Putting it back leaves the records before it.
LEMMA RestoreAccounted ==
    ASSUME NEW plan \in Plans, NEW before \in Sound, NEW tree \in Sound,
           FitsIn(plan, before), NEW n \in Nat, n \in 1..Len(plan),
           NEW priors \in Seq(Contents \cup {Absent}), n \in 1..Len(priors),
           Kept(plan, before, priors), priors[n] # Absent,
           Clear(plan, tree, priors, n),
           Accounted(plan, before, tree, n, {}, {}),
           NEW new,
           new = Put(tree, plan[n].path, priors[n])
    PROVE  /\ new \in Sound
           /\ Accounted(plan, before, new, n - 1, {}, {})
           /\ Clear(plan, new, priors, n - 1)
<1> DEFINE p == plan[n].path
           c == priors[n]
<1>0. p \in Paths /\ c \in Contents /\ \A i \in 1..n : i \in 1..(n - 1) \/ i = n
  BY OperationIs
<1>1. tree[p] # Directory /\ Ancestors[p] \cap Files(tree) = {}
  BY RestoreFree
<1>2. before[p] # Directory /\ Ancestors[p] \cap Files(before) = {}
  BY DEF FitsIn, Plans
<1>3. (\A j \in 1..(n - 1) : plan[j].path # p) => c = before[p]
  BY DEF Kept
<1>a. new = Put(tree, p, c)
  OBVIOUS
<1> HIDE DEF p, c
<1>4. /\ new \in Sound
      /\ new[p] = c
      /\ \A a \in Ancestors[p] : new[a] = Directory
      /\ \A q \in Paths : q # p /\ q \notin Ancestors[p] => new[q] = tree[q]
  BY <1>0, <1>1, <1>a, PutIs
<1> USE DEF p
<1>5. c # Directory /\ \A a \in Ancestors[p] : a # p /\ a \in Paths
  BY <1>0, PathsAbove, ApplyAssumption
<1>6. ASSUME NEW q \in Paths, new[q] = Directory, before[q] # Directory
      PROVE  /\ before[q] = Absent
             /\ \E i \in 1..(n - 1) : q \in Ancestors[plan[i].path]
  <2>1. q # p
    BY <1>4, <1>5, <1>6
  <2>2. CASE q \in Ancestors[p]
    <3>1. before[q] = Absent
      BY <1>2, <1>6, <2>2 DEF Files
    <3>2. before[p] = Absent
      BY <1>0, <1>6, <2>2 DEF Sound, SoundTree
    <3>3. c # before[p]
      BY <3>2 DEF c
    <3>4. PICK i \in 1..(n - 1) : plan[i].path = p
      BY <1>3, <3>3
    <3> QED BY <2>2, <3>1, <3>4
  <2>3. CASE q \notin Ancestors[p]
    <3>1. tree[q] = Directory
      BY <1>4, <1>6, <2>1, <2>3
    <3>2. before[q] = Absent /\ \E i \in 1..n : q \in Ancestors[plan[i].path]
      BY <1>6, <3>1 DEF Accounted
    <3> QED BY <1>0, <2>3, <3>2
  <2> QED BY <2>2, <2>3
<1>7. ASSUME NEW q \in Paths, new[q] # Directory, new[q] # before[q]
      PROVE  \E i \in 1..(n - 1) : q = plan[i].path
  <2>1. CASE q = p
    BY <1>3, <1>4, <1>7, <2>1
  <2>2. CASE q # p
    <3>1. q \notin Ancestors[p] /\ new[q] = tree[q]
      BY <1>4, <1>7, <2>2
    <3>2. PICK i \in 1..n : q = plan[i].path
      BY <1>7, <3>1 DEF Accounted
    <3> QED BY <1>0, <2>2, <3>2
  <2> QED BY <2>1, <2>2
<1>8. ASSUME NEW i \in 1..(n - 1), priors[i] # Absent, NEW a \in Ancestors[plan[i].path]
      PROVE  a \notin Files(new)
  <2>1. plan[i].path \in Paths /\ a \in Paths /\ i \in 1..n
    <3>1. plan[i].path \in Paths
      BY OperationIs
    <3> QED BY <1>8, <3>1, PathsAbove
  <2>2. a # p
    BY <1>8 DEF Kept, c
  <2>3. CASE a \in Ancestors[p]
    BY <1>4, <2>3 DEF Files
  <2>4. CASE a \notin Ancestors[p]
    <3>1. new[a] = tree[a]
      BY <1>4, <2>1, <2>2, <2>4
    <3>2. a \notin Files(tree)
      BY <1>8, <2>1 DEF Clear
    <3> QED BY <3>1, <3>2 DEF Files
  <2> QED BY <2>3, <2>4
<1> QED BY <1>4, <1>6, <1>7, <1>8 DEF Accounted, Clear

\* With no record left the tree is what it was.
LEMMA NothingLeft ==
    ASSUME NEW plan, NEW before \in Sound, NEW tree \in Sound,
           Accounted(plan, before, tree, 0, {}, {})
    PROVE  tree = before
<1>1. tree \in [Paths -> {Absent, Directory} \cup Contents]
      /\ before \in [Paths -> {Absent, Directory} \cup Contents]
  BY DEF Sound, Trees
<1>2. \A q \in Paths : tree[q] = before[q]
  BY DEF Accounted
<1> QED BY <1>1, <1>2

-----------------------------------------------------------------------------
(* The invariant of a run *)

\* The fields of a run.
RunFields ==
    {"pc", "preparation", "sandbox", "maxOperations", "used", "timedOut", "before",
     "index", "prior", "priors", "applied", "failed", "pending", "reads", "removing",
     "unreverted", "rolledBack", "rollbackFailed", "status", "epoch", "faults"}

\* What a record keeps of a path.
PriorContents == Contents \cup {Absent}

\* The values of the fields of a run that the argument needs.
RunTypeOK(run) ==
    /\ DOMAIN run = RunFields
    /\ run.preparation \subseteq Preparations /\ run.sandbox \subseteq SandboxIds
    /\ run.maxOperations \in Nat /\ run.used \in Nat /\ run.timedOut \in BOOLEAN
    /\ run.before \subseteq Sound
    /\ run.prior \in PriorContents /\ run.priors \in Seq(PriorContents)
    /\ run.failed \in BOOLEAN /\ run.pending \in Nat
    /\ run.reads \subseteq Runs /\ run.removing \subseteq Paths
    /\ run.unreverted \in BOOLEAN /\ run.rolledBack \in BOOLEAN
    /\ run.rollbackFailed \in BOOLEAN

\* What apply knows at each await, whatever the other runs do.
Untouched(run) ==
    /\ ~run.failed /\ ~run.rolledBack /\ ~run.rollbackFailed /\ ~run.unreverted
    /\ run.removing = {}

\* What the code that an await returns to relies on: which of its flags can be
\* set there, how many records it has made, and of which result it may tell.
Control(run, plan, cancelled) ==
    /\ run.pc \in {"idle", "started", "opened"} =>
        Untouched(run) /\ run.priors = <<>>
    /\ run.pc \in {"looping", "captured"} =>
        /\ Untouched(run) /\ run.before # {}
        /\ run.index \in 1..Len(plan) /\ Len(run.priors) = run.index - 1
    /\ run.pc = "looped" =>
        /\ ~run.rolledBack /\ ~run.rollbackFailed /\ ~run.unreverted
        /\ run.removing = {} /\ run.before # {}
        /\ Len(run.priors) <= Len(plan)
    /\ run.pc = "rollback" =>
        /\ run.rolledBack /\ ~run.rollbackFailed /\ (run.failed \/ cancelled)
        /\ run.before # {}
        /\ run.pending <= Len(run.priors) /\ Len(run.priors) <= Len(plan)
    /\ run.pc \in {"closing", "returned"} =>
        /\ run.before # {}
        /\ ~run.rolledBack => ~run.failed /\ ~run.rollbackFailed
    /\ run.pc = "closing" /\ run.rolledBack => run.failed \/ cancelled
    /\ run.pc = "returned" =>
        /\ run.status = "applied" => ~run.rolledBack
        /\ run.status = "rolled-back" => run.rolledBack /\ ~run.rollbackFailed

\* What has been carried out, in a sandbox of its own.
Outcome(run, tree, plan) ==
    /\ run.pc \in {"looping", "captured"} =>
        CarriedOut(tree, The(run.before), plan, run.index - 1)
    /\ run.pc = "looped" /\ ~run.failed =>
        CarriedOut(tree, The(run.before), plan, Len(plan))
    /\ run.pc \in {"closing", "returned"} =>
        IF run.rolledBack THEN run.rollbackFailed \/ tree = The(run.before)
        ELSE CarriedOut(tree, The(run.before), plan, Len(plan))

\* What the records tell before the rollback ...
Telling(run, tree, plan) ==
    FitsIn(plan, The(run.before)) /\ run.faults = {} =>
        /\ run.pc \in {"looping", "captured", "looped"} =>
            /\ Accounted(plan, The(run.before), tree, Len(run.priors), {}, {})
            /\ Clear(plan, tree, run.priors, Len(run.priors))
        /\ run.pc \in {"looping", "captured", "looped", "rollback"} =>
            Kept(plan, The(run.before), run.priors)
        /\ run.pc \in {"looping", "captured"} => Laid(plan, tree, Len(run.priors))
        /\ run.pc = "captured" => run.prior = FileAt(tree, plan[run.index].path)

\* ... and in it, under a run id of its own and within the limits.
Unlimited(run) == ~run.timedOut /\ run.used <= run.maxOperations

\* What is left to undo, in the middle of the removals of a record or between
\* two records.
AtRecord(run, tree, plan) ==
    IF run.removing = {}
    THEN Accounted(plan, The(run.before), tree, run.pending, {}, {})
    ELSE /\ run.pending > 0 /\ run.priors[run.pending] = Absent
         /\ run.removing \subseteq RecordRemovals(plan, The(run.before), run.pending)
         /\ Accounted(plan, The(run.before), tree, run.pending - 1,
                      run.removing \cap Ancestors[plan[run.pending].path],
                      run.removing \cap {plan[run.pending].path})

\* The rollback undoes the records without a failure.
Undoing(run, tree, plan) ==
    FitsIn(plan, The(run.before)) /\ run.faults = {} /\ Unlimited(run) =>
        /\ run.pc = "rollback" =>
            /\ ~run.unreverted
            /\ Clear(plan, tree, run.priors, run.pending)
            /\ AtRecord(run, tree, plan)
        /\ run.pc \in {"closing", "returned"} => ~run.rollbackFailed

\* The invariant of a run: what is true of it whatever the others do, what is
\* when no other run has its sandbox (own), and what needs a run id that no
\* other run has, too (alone).
Good(run, tree, plan, cancelled, own, alone) ==
    /\ RunTypeOK(run)
    /\ Control(run, plan, cancelled)
    /\ own => Outcome(run, tree, plan) /\ Telling(run, tree, plan)
    /\ own /\ alone => Undoing(run, tree, plan)

\* All of this is of values the state can have.
GoodAt(run, tree, plan, cancelled, own, alone) ==
    /\ tree \in Sound /\ plan \in Plans
    /\ cancelled \in BOOLEAN /\ own \in BOOLEAN /\ alone \in BOOLEAN
    /\ Good(run, tree, plan, cancelled, own, alone)

\* The run moves on, but for the named fields.
Frame(new, old, changed) ==
    /\ DOMAIN new = RunFields
    /\ \A x \in RunFields \ changed : new[x] = old[x]

\* A cancellation, and a run that comes to share its sandbox or its run id,
\* take nothing away.
LEMMA GoodStays ==
    ASSUME NEW run, NEW tree, NEW plan,
           NEW c \in BOOLEAN, NEW own \in BOOLEAN, NEW alone \in BOOLEAN,
           NEW c2 \in BOOLEAN, NEW own2 \in BOOLEAN, NEW alone2 \in BOOLEAN,
           c => c2, own2 => own, alone2 => alone,
           Good(run, tree, plan, c, own, alone)
    PROVE  Good(run, tree, plan, c2, own2, alone2)
BY DEF Good, Control

\* A run that has not begun, or has ended without a result, says nothing of
\* its sandbox.
LEMMA GoodOutside ==
    ASSUME NEW run, NEW tree, NEW plan, NEW tree2, NEW plan2,
           NEW c \in BOOLEAN, NEW own \in BOOLEAN, NEW alone \in BOOLEAN,
           NEW c2 \in BOOLEAN, NEW own2 \in BOOLEAN, NEW alone2 \in BOOLEAN,
           run.pc \in {"idle", "refused", "threw", "crashed"},
           Good(run, tree, plan, c, own, alone)
    PROVE  Good(run, tree2, plan2, c2, own2, alone2)
<1>1. Control(run, plan2, c2)
  BY DEF Good, Control
<1>2. Outcome(run, tree2, plan2) /\ Telling(run, tree2, plan2) /\ Undoing(run, tree2, plan2)
  BY DEF Outcome, Telling, Undoing
<1> QED BY <1>1, <1>2 DEF Good

\* A run that is refused, throws or crashes leaves nothing to be true of it.
LEMMA EndsGood ==
    ASSUME NEW run, NEW tree, NEW plan, NEW tree2, NEW plan2,
           NEW c \in BOOLEAN, NEW own \in BOOLEAN, NEW alone \in BOOLEAN,
           NEW c2 \in BOOLEAN, NEW own2 \in BOOLEAN, NEW alone2 \in BOOLEAN,
           RunTypeOK(run), NEW new, Frame(new, run, {"pc", "faults"}),
           new.pc \in {"refused", "threw", "crashed"}
    PROVE  Good(new, tree2, plan2, c2, own2, alone2)
<1>1. RunTypeOK(new)
  BY DEF Frame, RunTypeOK, RunFields
<1>2. Control(new, plan2, c2)
  BY DEF Control
<1>3. Outcome(new, tree2, plan2) /\ Telling(new, tree2, plan2) /\ Undoing(new, tree2, plan2)
  BY DEF Outcome, Telling, Undoing
<1> QED BY <1>1, <1>2, <1>3 DEF Good

\* Nothing has been done before the sandbox is opened.
LEMMA OpenGood ==
    ASSUME NEW run, NEW tree, NEW plan, NEW tree2, NEW plan2,
           NEW c \in BOOLEAN, NEW own \in BOOLEAN, NEW alone \in BOOLEAN,
           NEW c2 \in BOOLEAN, NEW own2 \in BOOLEAN, NEW alone2 \in BOOLEAN,
           Good(run, tree, plan, c, own, alone), run.pc \in {"idle", "started"},
           NEW new, RunTypeOK(new),
           Frame(new, run, {"pc", "preparation", "sandbox", "epoch", "maxOperations"}),
           new.pc \in {"started", "opened"}
    PROVE  Good(new, tree2, plan2, c2, own2, alone2)
<1>1. Control(new, plan2, c2)
  BY DEF Frame, RunFields, Good, Control, Untouched
<1>2. Outcome(new, tree2, plan2) /\ Telling(new, tree2, plan2) /\ Undoing(new, tree2, plan2)
  BY DEF Outcome, Telling, Undoing
<1> QED BY <1>1, <1>2 DEF Good

\* The tree at the snapshot is the one the run is measured against.
LEMMA SnapshotGood ==
    ASSUME NEW run, NEW tree \in Sound, NEW plan \in Plans,
           NEW c \in BOOLEAN, NEW own \in BOOLEAN, NEW alone \in BOOLEAN,
           Good(run, tree, plan, c, own, alone), run.pc = "opened",
           NEW new, Frame(new, run, {"pc", "before", "index"}),
           new.before = {tree}, new.index = 1,
           new.pc = IF 1 > Len(plan) THEN "looped" ELSE "looping"
    PROVE  Good(new, tree, plan, c, own, alone)
<1>1. RunTypeOK(new)
  BY DEF Frame, RunTypeOK, RunFields, Good
<1>2. new.priors = <<>> /\ Untouched(new)
  BY DEF Frame, RunFields, Good, Control, Untouched
<1>3. Len(plan) \in Nat
  BY DEF Plans
<1>4. Control(new, plan, c)
  BY <1>2, <1>3 DEF Control, Untouched
<1>5. The(new.before) = tree
  BY TheOfSingleton
<1>6. CarriedOut(tree, tree, plan, 0)
  BY CarriedNone
<1>7. Outcome(new, tree, plan)
  BY <1>3, <1>5, <1>6 DEF Outcome
<1>8. /\ Accounted(plan, tree, tree, 0, {}, {}) /\ Clear(plan, tree, <<>>, 0)
      /\ Kept(plan, tree, <<>>) /\ Laid(plan, tree, 0)
  BY DEF Accounted, Clear, Kept, Laid
<1>9. Telling(new, tree, plan)
  BY <1>2, <1>5, <1>8 DEF Telling
<1>10. Undoing(new, tree, plan)
  BY DEF Undoing
<1> QED BY <1>1, <1>4, <1>7, <1>9, <1>10 DEF Good

\* The prior content is the one in the tree, or the read has failed.
LEMMA CaptureGood ==
    ASSUME NEW run, NEW tree \in Sound, NEW plan \in Plans,
           NEW c \in BOOLEAN, NEW own \in BOOLEAN, NEW alone \in BOOLEAN,
           Good(run, tree, plan, c, own, alone), run.pc = "looping",
           NEW new, Frame(new, run, {"pc", "prior", "faults"}), new.pc = "captured",
           \/ new.prior = FileAt(tree, plan[run.index].path) /\ new.faults = run.faults
           \/ new.prior = Absent /\ new.faults # {}
    PROVE  Good(new, tree, plan, c, own, alone)
<1>1. plan[run.index].path \in Paths /\ tree \in Trees
  BY OperationIs DEF Good, Control, Sound
<1>2. new.prior \in PriorContents
  BY <1>1, FileIs DEF PriorContents
<1>3. RunTypeOK(new)
  BY <1>2 DEF Frame, RunTypeOK, RunFields, Good
<1>4. Control(new, plan, c)
  BY DEF Frame, RunFields, Good, Control, Untouched
<1>5. ASSUME own PROVE Outcome(new, tree, plan) /\ Telling(new, tree, plan)
  <2>1. Outcome(new, tree, plan)
    BY <1>5 DEF Frame, RunFields, Good, Outcome
  <2>2. Telling(new, tree, plan)
    BY <1>5 DEF Frame, RunFields, Good, Telling
  <2> QED BY <2>1, <2>2
<1>6. Undoing(new, tree, plan)
  BY DEF Undoing
<1> QED BY <1>3, <1>4, <1>5, <1>6 DEF Good

\* The loop ends early, before or after the operation has been recorded.
FailsTo(run, new) ==
    /\ run.pc \in {"looping", "captured"}
    /\ Frame(new, run, {"pc", "failed"}) /\ new.pc = "looped" /\ new.failed = TRUE

LEMMA FailGood ==
    ASSUME NEW run, NEW tree, NEW plan, NEW c, NEW own, NEW alone,
           GoodAt(run, tree, plan, c, own, alone), NEW new, FailsTo(run, new)
    PROVE  Good(new, tree, plan, c, own, alone)
<1> USE DEF GoodAt, FailsTo
<1>1. RunTypeOK(new)
  BY DEF Frame, RunTypeOK, RunFields, Good
<1>2. Len(plan) \in Nat
  BY DEF Plans
<1>3. Control(new, plan, c)
  BY <1>2 DEF Frame, RunFields, Good, Control, Untouched
<1>4. Outcome(new, tree, plan) /\ Undoing(new, tree, plan)
  BY DEF Outcome, Undoing
<1>5. ASSUME own PROVE Telling(new, tree, plan)
  BY <1>5 DEF Frame, RunFields, Good, Telling
<1> QED BY <1>1, <1>3, <1>4, <1>5 DEF Good

\* The operation is recorded: the records tell of what becomes of it.
LEMMA RecordMore ==
    ASSUME NEW run, NEW tree \in Sound, NEW plan \in Plans,
           RunTypeOK(run), NEW c \in BOOLEAN, Control(run, plan, c),
           Telling(run, tree, plan), run.pc = "captured",
           FitsIn(plan, The(run.before)), run.faults = {},
           NEW t \in Sound, Touched(tree, plan[run.index].path, t),
           NEW n, n = Len(run.priors),
           NEW more, more = Append(run.priors, run.prior)
    PROVE  /\ Len(more) = n + 1 /\ n + 1 = run.index
           /\ Accounted(plan, The(run.before), t, n + 1, {}, {})
           /\ Clear(plan, t, more, n + 1)
           /\ Kept(plan, The(run.before), more)
           /\ (\A a \in Ancestors[plan[run.index].path] : t[a] = Directory)
                => Laid(plan, t, n + 1)
<1> DEFINE before == The(run.before)
           priors == run.priors
           prior == run.prior
<1>1. before \in Sound
  BY TheInSet DEF RunTypeOK, Control
<1>2. /\ n \in Nat /\ n + 1 = run.index /\ n + 1 \in 1..Len(plan)
  BY DEF RunTypeOK, Control, Plans
<1>3. priors \in Seq(Contents \cup {Absent}) /\ prior \in Contents \cup {Absent}
  BY DEF RunTypeOK, PriorContents
<1>4. /\ Accounted(plan, before, tree, n, {}, {}) /\ Clear(plan, tree, priors, n)
      /\ Kept(plan, before, priors) /\ Laid(plan, tree, n)
      /\ prior = FileAt(tree, plan[n + 1].path)
  BY <1>2 DEF Telling
<1>5. FitsIn(plan, before) /\ Touched(tree, plan[n + 1].path, t)
  BY <1>2
<1> HIDE DEF before, priors, prior
<1>6. n = Len(priors) /\ more = Append(priors, prior)
  BY DEF priors, prior
<1>7. Accounted(plan, before, t, n + 1, {}, {})
  BY <1>1, <1>2, <1>4, <1>5, LoopAccounted
<1>8. Kept(plan, before, Append(priors, prior)) /\ Len(more) = n + 1
  <2>1. n = Len(priors) /\ Len(more) = n + 1
    BY <1>3, <1>6
  <2>2. Kept(plan, before, Append(priors, prior))
    BY <1>1, <1>2, <1>3, <1>4, <1>5, <2>1, LoopKept
  <2> QED BY <2>1, <2>2
<1>9. Clear(plan, t, more, n + 1)
  BY <1>2, <1>3, <1>4, <1>5, <1>6, LoopClear
<1>10. ASSUME \A a \in Ancestors[plan[n + 1].path] : t[a] = Directory
       PROVE  Laid(plan, t, n + 1)
  BY <1>2, <1>4, <1>5, <1>10, LoopLaid
<1> QED BY <1>2, <1>6, <1>7, <1>8, <1>9, <1>10 DEF before

\* A deletion is of what was found to be a file.
LEMMA CapturedTouched ==
    ASSUME NEW run, NEW tree \in Sound, NEW plan \in Plans,
           Telling(run, tree, plan), run.pc = "captured",
           FitsIn(plan, The(run.before)), run.faults = {},
           run.index \in 1..Len(plan),
           NEW t, tree[plan[run.index].path] # Directory
                  \/ plan[run.index].operation # "delete-file"
                  => Touched(tree, plan[run.index].path, t),
           plan[run.index].operation = "delete-file" => run.prior # Absent
    PROVE  Touched(tree, plan[run.index].path, t)
<1> DEFINE p == plan[run.index].path
<1>1. p \in Paths /\ tree \in Trees
  BY OperationIs DEF Sound
<1>2. run.prior = FileAt(tree, p)
  BY DEF Telling
<1>3. run.prior # Absent => tree[p] # Directory
  BY <1>1, <1>2, FileIs
<1> QED BY <1>3

\* What an operation that succeeds has done to the tree.
Carries(operation, tree, t) ==
    /\ \A a \in Ancestors[operation.path] : t[a] = Directory
    /\ \A q \in Paths :
        /\ Concerns(operation, q) => t[q] = Leaves(operation, q)
        /\ ~Concerns(operation, q) => t[q] = tree[q]

\* The record of the prior content is made before the change.
RecordsMore(run) == Append(run.priors, run.prior)

\* An operation carried out keeps the invariant in the loop.
LEMMA MutateGood ==
    ASSUME NEW run, NEW tree \in Sound, NEW plan \in Plans,
           NEW c \in BOOLEAN, NEW own \in BOOLEAN, NEW alone \in BOOLEAN,
           Good(run, tree, plan, c, own, alone), run.pc = "captured",
           plan[run.index].operation = "delete-file" => run.prior # Absent,
           NEW t \in Sound,
           tree[plan[run.index].path] # Directory
              \/ plan[run.index].operation # "delete-file"
              => Touched(tree, plan[run.index].path, t),
           Carries(plan[run.index], tree, t),
           NEW new, Frame(new, run, {"pc", "priors", "used", "applied", "index"}),
           new.priors = RecordsMore(run), new.used \in Nat,
           new.index = run.index + 1,
           new.pc = IF new.index > Len(plan) THEN "looped" ELSE "looping"
    PROVE  Good(new, t, plan, c, own, alone)
<1> DEFINE n == Len(run.priors)
<1>1. /\ RunTypeOK(run) /\ Control(run, plan, c)
      /\ run.index = n + 1 /\ n \in Nat /\ run.index \in 1..Len(plan)
      /\ Len(new.priors) = n + 1
  <2>1. RunTypeOK(run) /\ Control(run, plan, c)
    BY DEF Good
  <2>2. run.priors \in Seq(PriorContents) /\ run.prior \in PriorContents
    BY <2>1 DEF RunTypeOK
  <2>3. n \in Nat /\ Len(Append(run.priors, run.prior)) = n + 1
    BY <2>2
  <2> HIDE DEF n
  <2>4. run.index \in 1..Len(plan) /\ n = run.index - 1
    BY <2>1 DEF Control, n
  <2>5. run.index \in Int
    BY <2>4
  <2> QED BY <2>1, <2>3, <2>4, <2>5 DEF RecordsMore
<1>2. new.priors \in Seq(PriorContents)
  <2>1. run.priors \in Seq(PriorContents) /\ run.prior \in PriorContents
    BY <1>1 DEF RunTypeOK
  <2> QED BY <2>1 DEF RecordsMore
<1>3. RunTypeOK(new)
  BY <1>1, <1>2 DEF Frame, RunTypeOK, RunFields
<1>4. Len(plan) \in Nat
  BY DEF Plans
<1>5. /\ new.pc \in {"looping", "looped"} /\ new.index = n + 2 /\ new.before = run.before
      /\ new.pc = "looping" => n + 2 \in 1..Len(plan)
      /\ new.pc = "looped" => n + 1 = Len(plan)
  BY <1>1, <1>4 DEF Frame, RunFields
<1>6. Control(new, plan, c)
  BY <1>1, <1>4, <1>5 DEF Frame, RunFields, Control, Untouched
<1>7. ASSUME own PROVE Outcome(new, t, plan)
  <2>1. CarriedOut(tree, The(run.before), plan, n)
    BY <1>1, <1>7 DEF Good, Outcome
  <2>2. CarriedOut(t, The(run.before), plan, n + 1)
    BY <1>1, <2>1, CarriedMore DEF Carries
  <2> HIDE DEF n
  <2>3. new.index - 1 = n + 1
    BY <1>1, <1>5
  <2>4. CASE new.pc = "looping"
    <3>1. CarriedOut(t, The(new.before), plan, new.index - 1)
      BY <1>5, <2>2, <2>3
    <3> QED BY <2>4, <3>1 DEF Outcome
  <2>5. CASE new.pc = "looped"
    <3>1. CarriedOut(t, The(new.before), plan, Len(plan))
      BY <1>5, <2>2, <2>5
    <3> QED BY <2>5, <3>1 DEF Outcome
  <2> QED BY <1>5, <2>4, <2>5
<1>8. ASSUME own PROVE Telling(new, t, plan)
  <2> SUFFICES ASSUME FitsIn(plan, The(run.before)), run.faults = {}
               PROVE  /\ Accounted(plan, The(run.before), t, n + 1, {}, {})
                      /\ Clear(plan, t, new.priors, n + 1)
                      /\ Kept(plan, The(run.before), new.priors)
                      /\ Laid(plan, t, n + 1)
    BY <1>1, <1>5 DEF Telling, Frame, RunFields
  <2>1. Telling(run, tree, plan)
    BY <1>8 DEF Good
  <2>2. Touched(tree, plan[run.index].path, t)
    BY <1>1, <2>1, CapturedTouched
  <2> QED BY <1>1, <2>1, <2>2, RecordMore DEF Carries, RecordsMore
<1>9. Undoing(new, t, plan)
  BY <1>5 DEF Undoing
<1> QED BY <1>3, <1>6, <1>7, <1>8, <1>9 DEF Good

\* So does an operation that failed, however far it came.
MutateFailsTo(run, tree, plan, t, new) ==
    /\ run.pc = "captured" /\ t \in Sound
    /\ plan[run.index].operation = "delete-file" => run.prior # Absent
    /\ (tree[plan[run.index].path] # Directory \/ plan[run.index].operation # "delete-file")
          => Touched(tree, plan[run.index].path, t)
    /\ Frame(new, run, {"pc", "priors", "used", "failed"})
    /\ new.priors = RecordsMore(run) /\ new.used \in Nat
    /\ new.failed = TRUE /\ new.pc = "looped"

LEMMA MutateFailsGood ==
    ASSUME NEW run, NEW tree, NEW plan, NEW c, NEW own, NEW alone,
           GoodAt(run, tree, plan, c, own, alone), NEW t, NEW new,
           MutateFailsTo(run, tree, plan, t, new)
    PROVE  Good(new, t, plan, c, own, alone)
<1> USE DEF GoodAt, MutateFailsTo
<1> DEFINE n == Len(run.priors)
<1>1. /\ RunTypeOK(run) /\ Control(run, plan, c)
      /\ run.index = n + 1 /\ n \in Nat /\ run.index \in 1..Len(plan)
      /\ Len(new.priors) = n + 1
  <2>1. RunTypeOK(run) /\ Control(run, plan, c)
    BY DEF Good
  <2>2. run.priors \in Seq(PriorContents) /\ run.prior \in PriorContents
    BY <2>1 DEF RunTypeOK
  <2>3. n \in Nat /\ Len(Append(run.priors, run.prior)) = n + 1
    BY <2>2
  <2> HIDE DEF n
  <2>4. run.index \in 1..Len(plan) /\ n = run.index - 1
    BY <2>1 DEF Control, n
  <2>5. run.index \in Int
    BY <2>4
  <2> QED BY <2>1, <2>3, <2>4, <2>5 DEF RecordsMore
<1>2. new.priors \in Seq(PriorContents)
  <2>1. run.priors \in Seq(PriorContents) /\ run.prior \in PriorContents
    BY <1>1 DEF RunTypeOK
  <2> QED BY <2>1 DEF RecordsMore
<1>3. RunTypeOK(new)
  BY <1>1, <1>2 DEF Frame, RunTypeOK, RunFields
<1>4. Len(plan) \in Nat /\ new.before = run.before
  BY DEF Plans, Frame, RunFields
<1>6. Control(new, plan, c)
  BY <1>1, <1>4 DEF Frame, RunFields, Control, Untouched
<1>7. Outcome(new, t, plan) /\ Undoing(new, t, plan)
  BY DEF Outcome, Undoing
<1>8. ASSUME own PROVE Telling(new, t, plan)
  <2> SUFFICES ASSUME FitsIn(plan, The(run.before)), run.faults = {}
               PROVE  /\ Accounted(plan, The(run.before), t, n + 1, {}, {})
                      /\ Clear(plan, t, new.priors, n + 1)
                      /\ Kept(plan, The(run.before), new.priors)
    BY <1>1, <1>4 DEF Telling, Frame, RunFields
  <2>1. Telling(run, tree, plan)
    BY <1>8 DEF Good
  <2>2. Touched(tree, plan[run.index].path, t)
    BY <1>1, <2>1, CapturedTouched
  <2> QED BY <1>1, <2>1, <2>2, RecordMore DEF RecordsMore
<1> QED BY <1>3, <1>6, <1>7, <1>8 DEF Good

\* The loop is over: the run is rolled back, or its result is to be told.
DecidesTo(run, c, new) ==
    /\ run.pc = "looped"
    /\ Frame(new, run, {"pc", "rolledBack", "pending", "reads"})
    /\ \/ /\ run.failed \/ c
          /\ new.pc = "rollback" /\ new.rolledBack = TRUE
          /\ new.pending = Len(run.priors) /\ new.reads \subseteq Runs
       \/ /\ ~run.failed
          /\ new.pc = "closing" /\ new.rolledBack = run.rolledBack
          /\ new.pending = run.pending /\ new.reads = run.reads

LEMMA DecideGood ==
    ASSUME NEW run, NEW tree, NEW plan, NEW c, NEW own, NEW alone,
           GoodAt(run, tree, plan, c, own, alone), NEW new, DecidesTo(run, c, new)
    PROVE  Good(new, tree, plan, c, own, alone)
<1> USE DEF GoodAt, DecidesTo
<1>1. RunTypeOK(run) /\ Control(run, plan, c) /\ Len(run.priors) \in Nat
  BY DEF Good, RunTypeOK
<1>2. RunTypeOK(new)
  BY <1>1 DEF Frame, RunTypeOK, RunFields
<1>3. Control(new, plan, c)
  BY <1>1 DEF Frame, RunFields, Control
<1>4. ASSUME own PROVE Outcome(new, tree, plan) /\ Telling(new, tree, plan)
  <2>1. Outcome(run, tree, plan) /\ Telling(run, tree, plan)
    BY <1>4 DEF Good
  <2>2. Outcome(new, tree, plan)
    BY <1>1, <2>1 DEF Frame, RunFields, Outcome, Control
  <2>3. Telling(new, tree, plan)
    BY <2>1 DEF Frame, RunFields, Telling
  <2> QED BY <2>2, <2>3
<1>5. ASSUME own, alone PROVE Undoing(new, tree, plan)
  <2>1. Telling(run, tree, plan)
    BY <1>5 DEF Good
  <2>2. ~new.rollbackFailed /\ ~new.unreverted /\ new.removing = {}
        /\ new.before = run.before /\ new.faults = run.faults /\ new.priors = run.priors
    BY <1>1 DEF Frame, RunFields, Control
  <2>3. CASE new.pc = "rollback"
    BY <1>1, <2>1, <2>2, <2>3 DEF Telling, Undoing, AtRecord
  <2>4. CASE new.pc = "closing"
    BY <2>2, <2>4 DEF Undoing
  <2> QED BY <2>3, <2>4
<1> QED BY <1>2, <1>3, <1>4, <1>5 DEF Good

\* A record that is missing belongs to another run.
MissesTo(run, alone, new) ==
    /\ run.pc = "rollback" /\ run.pending > 0
    /\ alone => run.pending \notin DOMAIN run.priors
    /\ Frame(new, run, {"pending", "unreverted"})
    /\ new.pending = run.pending - 1 /\ new.unreverted = TRUE

LEMMA MissingGood ==
    ASSUME NEW run, NEW tree, NEW plan, NEW c, NEW own, NEW alone,
           GoodAt(run, tree, plan, c, own, alone), NEW new, MissesTo(run, alone, new)
    PROVE  Good(new, tree, plan, c, own, alone)
<1> USE DEF GoodAt, MissesTo
<1>1. RunTypeOK(run) /\ Control(run, plan, c) /\ Len(run.priors) \in Nat
      /\ DOMAIN run.priors = 1..Len(run.priors)
  BY DEF Good, RunTypeOK
<1>2. RunTypeOK(new)
  <2>1. run.pending \in Nat
    BY <1>1 DEF RunTypeOK
  <2>2. new.pending \in Nat
    BY <2>1
  <2>3. new.unreverted \in BOOLEAN
    OBVIOUS
  <2> QED BY <1>1, <2>2, <2>3 DEF Frame, RunTypeOK, RunFields
<1>3. Control(new, plan, c)
  BY <1>1, <1>2 DEF Frame, RunFields, Control, RunTypeOK
<1>4. ASSUME own PROVE Outcome(new, tree, plan) /\ Telling(new, tree, plan)
  BY <1>4 DEF Frame, RunFields, Good, Outcome, Telling
<1>5. ~alone
  BY <1>1 DEF Control, RunTypeOK
<1> QED BY <1>2, <1>3, <1>4, <1>5 DEF Good

\* Within the limits a call is made, and was within them before.
LEMMA LimitsBefore ==
    ASSUME NEW run, RunTypeOK(run), NEW new, Unlimited(new),
           new.used = Counted(run), new.maxOperations = run.maxOperations,
           new.timedOut = run.timedOut
    PROVE  Unlimited(run) /\ ~Starved(run)
BY DEF Unlimited, Counted, Starved, RunTypeOK

\* The limits count calls.
LEMMA CountedIs ==
    ASSUME NEW run, RunTypeOK(run)
    PROVE  Counted(run) \in Nat
BY DEF Counted, RunTypeOK

\* One of the removals a record asks for is made, or fails.
TakesAway(run, new, plan, tree, t, removals, x, fault) ==
    /\ removals = IF run.removing = {}
                  THEN RecordRemovals(plan, The(run.before), run.pending)
                  ELSE run.removing
    /\ \A q \in removals : x \notin Ancestors[q]
    /\ t = IF fault THEN tree ELSE Removed(run, tree, x)
    /\ Frame(new, run, {"used", "faults", "removing", "pending"})
    /\ new.used = Counted(run)
    /\ new.faults = IF fault THEN run.faults \cup {"remove"} ELSE run.faults
    /\ new.removing = removals \ {x}
    /\ new.pending = IF removals = {x} THEN run.pending - 1 ELSE run.pending

\* A removal for a record of nothing, by any run and with any failure.
LEMMA RevertCreatedGood ==
    ASSUME NEW run, NEW tree \in Sound, NEW plan \in Plans,
           NEW c \in BOOLEAN, NEW own \in BOOLEAN, NEW alone \in BOOLEAN,
           Good(run, tree, plan, c, own, alone), run.pc = "rollback", run.pending > 0,
           alone => run.priors[run.pending] = Absent,
           NEW removals, NEW x \in removals, NEW fault \in BOOLEAN, NEW t, NEW new,
           TakesAway(run, new, plan, tree, t, removals, x, fault)
    PROVE  t \in Sound /\ Good(new, t, plan, c, own, alone)
<1> DEFINE n == run.pending
           before == The(run.before)
           p == plan[n].path
<1> USE DEF TakesAway
<1>1. /\ RunTypeOK(run) /\ Control(run, plan, c) /\ Len(run.priors) \in Nat
      /\ Len(plan) \in Nat
  BY DEF Good, RunTypeOK, Plans
<1>2. /\ n \in Nat /\ n \in 1..Len(plan) /\ n \in 1..Len(run.priors)
      /\ before \in Sound
  BY <1>1, TheInSet DEF RunTypeOK, Control
<1>3. p \in Paths /\ Ancestors[p] \subseteq Paths
  BY <1>2, OperationIs, PathsAbove
<1>4. removals \subseteq Paths
  BY <1>1, <1>3 DEF RecordRemovals, RunTypeOK
<1>5. t \in Sound
  BY <1>4, RemovedSound
<1>6. RunTypeOK(new)
  <2>1. Counted(run) \in Nat
    BY <1>1, CountedIs
  <2>2. new.pending \in Nat /\ new.removing \subseteq Paths
    BY <1>2, <1>4
  <2> QED BY <1>1, <2>1, <2>2 DEF Frame, RunTypeOK, RunFields
<1>7. Control(new, plan, c)
  BY <1>1, <1>2 DEF Frame, RunFields, Control
<1>8. ASSUME own PROVE Outcome(new, t, plan) /\ Telling(new, t, plan)
  BY <1>8 DEF Frame, RunFields, Good, Outcome, Telling
<1>9. ASSUME own, alone PROVE Undoing(new, t, plan)
  <2> SUFFICES ASSUME FitsIn(plan, before), new.faults = {}, Unlimited(new)
               PROVE  /\ ~new.unreverted
                      /\ Clear(plan, t, run.priors, new.pending)
                      /\ AtRecord(new, t, plan)
    BY DEF Undoing, Frame, RunFields
  <2>1. /\ new.maxOperations = run.maxOperations /\ new.timedOut = run.timedOut
        /\ new.before = run.before /\ new.priors = run.priors
        /\ new.unreverted = run.unreverted
    BY DEF Frame, RunFields
  <2>2. Unlimited(run) /\ ~Starved(run)
    BY <1>1, <2>1, LimitsBefore
  <2>3. ~fault /\ run.faults = {}
    <3>1. run.faults \cup {"remove"} # {}
      OBVIOUS
    <3> QED BY <3>1
  <2>4. /\ ~run.unreverted /\ Clear(plan, tree, run.priors, n)
        /\ AtRecord(run, tree, plan) /\ Kept(plan, before, run.priors)
    BY <1>9, <2>2, <2>3 DEF Good, Undoing, Telling
  <2>5. /\ removals \in SUBSET RecordRemovals(plan, before, n)
        /\ Accounted(plan, before, tree, n - 1, removals \cap Ancestors[p], removals \cap {p})
    <3>1. CASE run.removing = {}
      <4>1. Accounted(plan, before, tree, n, {}, {})
        BY <2>4, <3>1 DEF AtRecord
      <4>2. removals = RecordRemovals(plan, before, n)
        BY <3>1
      <4> HIDE DEF n, before
      <4>3. Accounted(plan, before, tree, n - 1, removals \cap Ancestors[plan[n].path],
                      removals \cap {plan[n].path})
        BY <1>2, <4>1, <4>2, RemovalsAccounted
      <4> QED BY <4>2, <4>3
    <3>2. CASE run.removing # {}
      BY <2>4, <3>2 DEF AtRecord
    <3> QED BY <3>1, <3>2
  <2>6. t = Removed(run, tree, x)
    BY <2>3
  <2>7. Accounted(plan, before, t, n - 1,
                  (removals \ {x}) \cap Ancestors[p], (removals \ {x}) \cap {p})
    <3>1. run.priors \in Seq(Contents \cup {Absent}) /\ run.priors[n] = Absent
      BY <1>1, <1>9 DEF RunTypeOK, PriorContents
    <3> HIDE DEF n, before
    <3>2. Accounted(plan, before, t, n - 1, (removals \ {x}) \cap Ancestors[plan[n].path],
                    (removals \ {x}) \cap {plan[n].path})
      <4>1. Kept(plan, before, run.priors) /\ FitsIn(plan, before) /\ before \in Sound
        BY <1>2, <2>4
      <4>2. n \in Nat /\ n \in 1..Len(plan) /\ n \in 1..Len(run.priors)
        BY <1>2
      <4>3. Accounted(plan, before, tree, n - 1, removals \cap Ancestors[plan[n].path],
                      removals \cap {plan[n].path})
        BY <2>5
      <4>4. Accounted(plan, before, Removed(run, tree, x), n - 1,
                      (removals \ {x}) \cap Ancestors[plan[n].path],
                      (removals \ {x}) \cap {plan[n].path})
        BY <4>1, <4>2, <4>3, <2>2, <2>4, <2>5, <3>1, RemovalKept
      <4> QED BY <4>4, <2>6
    <3> QED BY <3>2
  <2>8. AtRecord(new, t, plan)
    <3>1. CASE removals = {x}
      <4>1. new.removing = {} /\ new.pending = n - 1
        BY <3>1
      <4>2. (removals \ {x}) \cap Ancestors[p] = {} /\ (removals \ {x}) \cap {p} = {}
        BY <3>1
      <4>3. Accounted(plan, The(new.before), t, n - 1, {}, {})
        BY <2>1, <2>7, <4>2
      <4> QED BY <4>1, <4>3 DEF AtRecord
    <3>2. CASE removals # {x}
      <4>1. /\ new.removing # {} /\ new.pending = n /\ new.removing = removals \ {x}
            /\ new.removing \subseteq RecordRemovals(plan, before, n)
        BY <2>5, <3>2
      <4> QED BY <1>2, <1>9, <2>1, <2>7, <4>1 DEF AtRecord
    <3> QED BY <3>1, <3>2
  <2>9. Clear(plan, t, run.priors, new.pending)
    <3>1. new.pending \in Nat /\ new.pending <= n /\ n <= Len(plan) /\ x \in Paths
      BY <1>2, <1>4
    <3> HIDE DEF n
    <3> QED BY <1>2, <2>4, <2>6, <3>1, RemovalClear
  <2> QED BY <2>1, <2>4, <2>8, <2>9
<1> QED BY <1>5, <1>6, <1>7, <1>8, <1>9 DEF Good

\* A recorded content is put back, or the write comes to nothing.
PutsBack(run, new, w) ==
    /\ Frame(new, run, {"pending", "used", "unreverted", "faults"})
    /\ new.pending = run.pending - 1 /\ new.used = Counted(run)
    /\ new.unreverted = (run.unreverted \/ ~w.ok)
    /\ new.faults = IF w.fault THEN run.faults \cup {"write"} ELSE run.faults

\* The write back of a recorded content.
LEMMA RevertReplacedGood ==
    ASSUME NEW run, NEW tree \in Sound, NEW plan \in Plans,
           NEW c \in BOOLEAN, NEW own \in BOOLEAN, NEW alone \in BOOLEAN,
           Good(run, tree, plan, c, own, alone), run.pc = "rollback", run.pending > 0,
           NEW content \in Contents, alone => run.priors[run.pending] = content,
           NEW w \in Write(run, tree, plan[run.pending].path, content),
           NEW new, PutsBack(run, new, w)
    PROVE  w.tree \in Sound /\ Good(new, w.tree, plan, c, own, alone)
<1> DEFINE n == run.pending
           before == The(run.before)
           p == plan[n].path
           t == w.tree
<1> USE DEF PutsBack
<1>1. /\ RunTypeOK(run) /\ Control(run, plan, c) /\ Len(run.priors) \in Nat
      /\ Len(plan) \in Nat
  BY DEF Good, RunTypeOK, Plans
<1>2. /\ n \in Nat /\ n \in 1..Len(plan) /\ n \in 1..Len(run.priors)
      /\ before \in Sound
  BY <1>1, TheInSet DEF RunTypeOK, Control
<1>3. p \in Paths
  BY <1>2, OperationIs
<1>5. t \in Sound
  BY <1>3, WriteSound
<1>6. RunTypeOK(new)
  <2>1. Counted(run) \in Nat
    BY <1>1, CountedIs
  <2>2. new.pending \in Nat /\ new.unreverted \in BOOLEAN
    BY <1>2
  <2> QED BY <1>1, <2>1, <2>2 DEF Frame, RunTypeOK, RunFields
<1>7. Control(new, plan, c)
  BY <1>1, <1>2 DEF Frame, RunFields, Control
<1>8. ASSUME own PROVE Outcome(new, t, plan) /\ Telling(new, t, plan)
  BY <1>8 DEF Frame, RunFields, Good, Outcome, Telling
<1>9. ASSUME own, alone PROVE Undoing(new, t, plan)
  <2> SUFFICES ASSUME FitsIn(plan, before), new.faults = {}, Unlimited(new)
               PROVE  /\ ~new.unreverted
                      /\ Clear(plan, t, run.priors, new.pending)
                      /\ AtRecord(new, t, plan)
    BY DEF Undoing, Frame, RunFields
  <2>1. /\ new.maxOperations = run.maxOperations /\ new.timedOut = run.timedOut
        /\ new.before = run.before /\ new.priors = run.priors
        /\ new.removing = run.removing
    BY DEF Frame, RunFields
  <2>2. Unlimited(run) /\ ~Starved(run)
    BY <1>1, <2>1, LimitsBefore
  <2>3. ~w.fault /\ run.faults = {}
    <3>1. run.faults \cup {"write"} # {}
      OBVIOUS
    <3> QED BY <3>1
  <2>4. /\ ~run.unreverted /\ Clear(plan, tree, run.priors, n)
        /\ AtRecord(run, tree, plan) /\ Kept(plan, before, run.priors)
    BY <1>9, <2>2, <2>3 DEF Good, Undoing, Telling
  <2>5. run.priors[n] = content /\ content # Absent
        /\ run.priors \in Seq(Contents \cup {Absent})
    BY <1>1, <1>9, ApplyAssumption DEF RunTypeOK, PriorContents
  <2>6. run.removing = {} /\ Accounted(plan, before, tree, n, {}, {})
    BY <2>4, <2>5 DEF AtRecord
  <2> HIDE DEF n, before
  <2>7. tree[p] # Directory /\ Ancestors[p] \cap Files(tree) = {}
    BY <1>2, <2>4, <2>5, <2>6, RestoreFree
  <2>8. Puts(tree, p, content, w)
    BY <1>3, <2>2, <2>3, <2>7, WriteIs DEF Refuses, Stops, n
  <2>9. w.ok /\ t = Put(tree, p, run.priors[n])
    BY <2>5, <2>8 DEF Puts
  <2> HIDE DEF t
  <2>10. Accounted(plan, before, t, n - 1, {}, {}) /\ Clear(plan, t, run.priors, n - 1)
    BY <1>2, <2>4, <2>5, <2>6, <2>9, RestoreAccounted
  <2>11. new.pending = n - 1
    BY DEF n
  <2>12. AtRecord(new, t, plan)
    BY <2>1, <2>6, <2>10, <2>11 DEF AtRecord, before
  <2> QED BY <2>4, <2>9, <2>10, <2>11, <2>12
<1> QED BY <1>5, <1>6, <1>7, <1>8, <1>9 DEF Good

\* The comparison with the snapshot: once all records are undone it finds no
\* difference.
VerifiesTo(run, tree, new) ==
    /\ run.pc = "rollback" /\ run.pending = 0
    /\ Frame(new, run, {"pc", "rollbackFailed", "faults"}) /\ new.pc = "closing"
    /\ \/ /\ new.rollbackFailed = (run.unreverted \/ tree # The(run.before))
          /\ new.faults = run.faults
       \/ new.rollbackFailed = TRUE /\ new.faults # {}

LEMMA VerifyGood ==
    ASSUME NEW run, NEW tree, NEW plan, NEW c, NEW own, NEW alone,
           GoodAt(run, tree, plan, c, own, alone), NEW new, VerifiesTo(run, tree, new)
    PROVE  Good(new, tree, plan, c, own, alone)
<1> USE DEF GoodAt, VerifiesTo
<1>1. RunTypeOK(run) /\ Control(run, plan, c)
  BY DEF Good
<1>2. The(run.before) \in Sound
  BY <1>1, TheInSet DEF RunTypeOK, Control
<1>3. RunTypeOK(new)
  BY <1>1 DEF Frame, RunTypeOK, RunFields
<1>a. /\ new.rolledBack = run.rolledBack /\ new.failed = run.failed
      /\ new.before = run.before
      /\ run.rolledBack /\ (run.failed \/ c) /\ run.before # {}
  BY <1>1 DEF Frame, RunFields, Control
<1>b. new.rollbackFailed \/ tree = The(run.before)
  OBVIOUS
<1>4. Control(new, plan, c)
  BY <1>a DEF Control
<1>5. Outcome(new, tree, plan) /\ Telling(new, tree, plan)
  BY <1>a, <1>b DEF Outcome, Telling
<1>6. ASSUME own, alone PROVE Undoing(new, tree, plan)
  <2> SUFFICES ASSUME FitsIn(plan, The(run.before)), new.faults = {}, Unlimited(new)
               PROVE  ~new.rollbackFailed
    BY DEF Undoing, Frame, RunFields
  <2>1. run.faults = {} /\ Unlimited(run)
    BY DEF Frame, RunFields, Unlimited
  <2>2. ~run.unreverted /\ AtRecord(run, tree, plan)
    BY <1>6, <2>1 DEF Good, Undoing
  <2>3. Accounted(plan, The(run.before), tree, 0, {}, {})
    BY <2>2 DEF AtRecord
  <2>4. tree = The(run.before)
    BY <1>2, <2>3, NothingLeft
  <2> QED BY <2>2, <2>4
<1> QED BY <1>3, <1>4, <1>5, <1>6 DEF Good

\* The result tells what happened.
LEMMA CompleteGood ==
    ASSUME NEW run, NEW tree \in Sound, NEW plan \in Plans,
           NEW c \in BOOLEAN, NEW own \in BOOLEAN, NEW alone \in BOOLEAN,
           Good(run, tree, plan, c, own, alone), run.pc = "closing",
           NEW new, Frame(new, run, {"pc", "status"}), new.pc = "returned",
           new.status = IF c THEN "cancelled"
                        ELSE IF run.rollbackFailed THEN "rollback-failed"
                        ELSE IF run.failed THEN "rolled-back" ELSE "applied"
    PROVE  Good(new, tree, plan, c, own, alone)
<1>1. RunTypeOK(run) /\ Control(run, plan, c)
  BY DEF Good
<1>2. RunTypeOK(new)
  BY <1>1 DEF Frame, RunTypeOK, RunFields
<1>3. Control(new, plan, c)
  BY <1>1, <1>2 DEF Frame, RunFields, Control, RunTypeOK
<1>4. ASSUME own PROVE Outcome(new, tree, plan) /\ Telling(new, tree, plan)
  BY <1>4 DEF Frame, RunFields, Good, Outcome, Telling
<1>5. ASSUME own, alone PROVE Undoing(new, tree, plan)
  BY <1>5 DEF Frame, RunFields, Good, Undoing, Unlimited
<1> QED BY <1>2, <1>3, <1>4, <1>5 DEF Good

\* The time limit takes the promise of a rollback away, and nothing else.
LEMMA TimeOutGood ==
    ASSUME NEW run, NEW tree \in Sound, NEW plan \in Plans,
           NEW c \in BOOLEAN, NEW own \in BOOLEAN, NEW alone \in BOOLEAN,
           Good(run, tree, plan, c, own, alone),
           NEW new, Frame(new, run, {"timedOut"}), new.timedOut = TRUE
    PROVE  Good(new, tree, plan, c, own, alone)
<1>1. RunTypeOK(run) /\ Control(run, plan, c)
  BY DEF Good
<1>2. RunTypeOK(new)
  BY <1>1 DEF Frame, RunTypeOK, RunFields
<1>3. Control(new, plan, c)
  BY <1>1 DEF Frame, RunFields, Control, Untouched
<1>4. ASSUME own PROVE Outcome(new, tree, plan) /\ Telling(new, tree, plan)
  BY <1>4 DEF Frame, RunFields, Good, Outcome, Telling
<1>5. Undoing(new, tree, plan)
  BY DEF Undoing, Unlimited
<1> QED BY <1>2, <1>3, <1>4, <1>5 DEF Good

-----------------------------------------------------------------------------
(* The invariant of the service *)

\* The invariant of a run of the service.
GoodRun(r) ==
    Good(runs[r], Tree(r), Plan(r), Cancelled(r), OwnSandbox(r), OwnRunId(r))

\* The process remembers what the runs in progress will ask for.
MemoryInv ==
    /\ trees \in [SandboxIds -> Sound]
    /\ stored \in [RunIds -> SUBSET Preparations]
    /\ \A id \in RunIds : \A p \in stored[id] : prepared[p] # {}
    /\ rollbackContents \in [RunIds -> SUBSET Runs]
    /\ \A id \in RunIds : \A q \in rollbackContents[id] : Started(q) /\ RunId(q) = id
    /\ \A r \in Runs :
        /\ Started(r) => runs[r].sandbox # {}
        /\ runs[r].pc = "idle" => ~Started(r)
        /\ runs[r].pc \notin {"idle", "refused"} => Started(r)
        /\ InProgress(r) => stored[RunId(r)] # {} /\ rollbackContents[RunId(r)] # {}
        /\ runs[r].pc = "rollback" =>
            /\ runs[r].reads # {}
            /\ \A q \in runs[r].reads : Started(q) /\ RunId(q) = RunId(r)

\* The inductive invariant.
IInv ==
    /\ NonceInv
    /\ MemoryInv
    /\ \A r \in Runs : GoodRun(r)

\* A prepared object keeps one of the inputs.
LEMMA PreparedInput ==
    ASSUME NonceInv, NEW p \in Preparations, prepared[p] # {}
    PROVE  InputOf(p) \in Inputs /\ RunIdFor(p) \in RunIds /\ InputOf(p).operations \in Plans
<1>1. The(prepared[p]) \in PreparedRecords
  BY TheInSet DEF NonceInv
<1>2. InputOf(p) \in Inputs
  BY <1>1 DEF PreparedRecords, InputOf
<1>3. InputOf(p).nonce \in Nonces
  BY <1>2 DEF Nonces
<1> QED BY <1>2, <1>3, ApplyAssumption DEF RunIdFor, RunIds, Plans

\* A run that was started has a preparation, a plan, a run id and a sandbox.
LEMMA StartedRun ==
    ASSUME NonceInv, MemoryInv, NEW r \in Runs, GoodRun(r), Started(r)
    PROVE  /\ The(runs[r].preparation) \in Preparations
           /\ prepared[The(runs[r].preparation)] # {}
           /\ RunId(r) = RunIdFor(The(runs[r].preparation))
           /\ RunId(r) \in RunIds /\ Plan(r) \in Plans
           /\ SandboxOf(r) \in SandboxIds /\ Tree(r) \in Sound
<1> DEFINE p == The(runs[r].preparation)
<1>1. p \in Preparations /\ prepared[p] # {}
  BY TheInSet DEF NonceInv, Started
<1>2. RunIdFor(p) \in RunIds /\ InputOf(p).operations \in Plans
  BY <1>1, PreparedInput
<1>3. SandboxOf(r) \in SandboxIds
  BY TheInSet DEF MemoryInv, GoodRun, Good, RunTypeOK, SandboxOf
<1>4. Tree(r) \in Sound
  BY <1>3 DEF Tree, MemoryInv
<1> QED BY <1>1, <1>2, <1>3, <1>4 DEF RunId, NonceOf, RunIdFor, Plan

\* What a run was started with stays as it is.
Steady ==
    \A q \in Runs : Started(q) =>
        /\ (Started(q))' /\ SandboxOf(q)' = SandboxOf(q)
        /\ RunId(q)' = RunId(q) /\ Plan(q)' = Plan(q)

\* What was prepared and started is not exchanged.
LEMMA InputsSteady ==
    ASSUME NonceInv, KeepsInputs,
           \A q \in Runs : Started(q) => /\ runs'[q].preparation = runs[q].preparation
                                         /\ runs'[q].sandbox = runs[q].sandbox
    PROVE  Steady
<1> SUFFICES ASSUME NEW q \in Runs, Started(q)
             PROVE  /\ (Started(q))' /\ SandboxOf(q)' = SandboxOf(q)
                    /\ RunId(q)' = RunId(q) /\ Plan(q)' = Plan(q)
  BY DEF Steady
<1> DEFINE p == The(runs[q].preparation)
<1>1. p \in Preparations /\ prepared[p] # {}
  BY TheInSet DEF NonceInv, Started
<1>2. The(prepared'[p]).input = The(prepared[p]).input
  BY <1>1 DEF KeepsInputs, InputOf
<1> QED BY <1>2 DEF Started, SandboxOf, RunId, NonceOf, Plan, InputOf

\* To a run that is over a cancellation makes no difference.
LEMMA GoodEnded ==
    ASSUME NEW run, NEW tree, NEW plan,
           NEW c \in BOOLEAN, NEW own \in BOOLEAN, NEW alone \in BOOLEAN, NEW c2 \in BOOLEAN,
           run.pc \notin {"started", "opened", "looping", "captured", "looped",
                          "rollback", "closing"},
           Good(run, tree, plan, c, own, alone)
    PROVE  Good(run, tree, plan, c2, own, alone)
BY DEF Good, Control

\* A run that does not move keeps its invariant where its sandbox is left alone.
LEMMA OtherGood ==
    ASSUME IInv, Steady, NEW q \in Runs, runs'[q] = runs[q],
           cancelledRuns \subseteq cancelledRuns' \/ ~InProgress(q),
           Started(q) /\ OwnSandbox(q) => Tree(q)' = Tree(q)
    PROVE  GoodRun(q)'
<1> DEFINE c == Cancelled(q)
           own == OwnSandbox(q)
           alone == OwnRunId(q)
<1>1. Good(runs[q], Tree(q), Plan(q), c, own, alone)
  BY DEF IInv, GoodRun
<1>2. c \in BOOLEAN /\ own \in BOOLEAN /\ alone \in BOOLEAN
      /\ c' \in BOOLEAN /\ own' \in BOOLEAN /\ alone' \in BOOLEAN
  BY DEF Cancelled, OwnSandbox, OwnRunId
<1>3. CASE ~Started(q)
  <2>1. runs[q].pc \in {"idle", "refused"}
    BY <1>3 DEF IInv, MemoryInv
  <2> HIDE DEF c, own, alone
  <2>2. Good(runs[q], Tree(q)', Plan(q)', c', own', alone')
    BY <1>1, <1>2, <2>1, GoodOutside
  <2> QED BY <2>2 DEF GoodRun, c, own, alone
<1>4. CASE Started(q)
  <2>1. (Started(q))' /\ SandboxOf(q)' = SandboxOf(q)
        /\ RunId(q)' = RunId(q) /\ Plan(q)' = Plan(q)
    BY <1>4 DEF Steady
  <2>2. (c => c') \/ ~InProgress(q)
    BY <2>1 DEF Cancelled
  <2>3. own' => own
    BY <2>1 DEF OwnSandbox, Steady
  <2>4. alone' => alone
    BY <2>1 DEF OwnRunId, Steady
  <2> HIDE DEF c, own, alone
  <2>5. Good(runs[q], Tree(q), Plan(q), c', own', alone')
    <3>1. CASE c => c'
      BY <1>1, <1>2, <2>3, <2>4, <3>1, GoodStays
    <3>2. CASE ~InProgress(q)
      <4>1. Good(runs[q], Tree(q), Plan(q), c', own, alone)
        BY <1>1, <1>2, <3>2, GoodEnded DEF InProgress
      <4> QED BY <1>2, <2>3, <2>4, <4>1, GoodStays
    <3> QED BY <2>2, <3>1, <3>2
  <2>6. own' => Tree(q)' = Tree(q)
    BY <1>4, <2>3 DEF own
  <2>7. Good(runs'[q], Tree(q)', Plan(q)', c', own', alone')
    BY <2>1, <2>5, <2>6 DEF Good
  <2> QED BY <2>7 DEF GoodRun, c, own, alone
<1> QED BY <1>3, <1>4

\* A step of one run, in its own sandbox.
LEMMA RunMoves ==
    ASSUME IInv, NEW r \in Runs, InProgress(r), NEW new, Step(r, new),
           new.preparation = runs[r].preparation, new.sandbox = runs[r].sandbox,
           new.pc \notin {"idle", "refused"},
           prepared' = prepared, stored' = stored, rollbackContents' = rollbackContents,
           cancelledRuns' = cancelledRuns,
           NEW tree \in Sound, trees' = [trees EXCEPT ![SandboxOf(r)] = tree],
           Good(new, tree, Plan(r), Cancelled(r), OwnSandbox(r), OwnRunId(r)),
           new.pc = "rollback" =>
              /\ new.reads # {}
              /\ \A q \in new.reads : Started(q) /\ RunId(q) = RunId(r)
    PROVE  MemoryInv' /\ \A q \in Runs : GoodRun(q)'
<1>1. NonceInv /\ MemoryInv /\ GoodRun(r)
  BY DEF IInv
<1>2. Started(r)
  BY <1>1 DEF MemoryInv, InProgress
<1>3. /\ runs'[r] = new /\ \A q \in Runs \ {r} : runs'[q] = runs[q]
  BY <1>1 DEF Step, NonceInv
<1>4. KeepsInputs
  BY <1>1, UnchangedInputs
<1>5. Steady
  <2>1. \A q \in Runs : /\ runs'[q].preparation = runs[q].preparation
                        /\ runs'[q].sandbox = runs[q].sandbox
    BY <1>3
  <2> QED BY <1>1, <1>4, <2>1, InputsSteady
<1>6. SandboxOf(r) \in SandboxIds /\ Plan(r) \in Plans /\ RunId(r) \in RunIds
  BY <1>1, <1>2, StartedRun
<1>7. trees \in [SandboxIds -> Sound]
  BY <1>1 DEF MemoryInv
<1>8. trees' \in [SandboxIds -> Sound] /\ trees'[SandboxOf(r)] = tree
      /\ \A s \in SandboxIds : s # SandboxOf(r) => trees'[s] = trees[s]
  BY <1>6, <1>7
<1>9. (Started(r))' /\ SandboxOf(r)' = SandboxOf(r) /\ Plan(r)' = Plan(r)
      /\ RunId(r)' = RunId(r)
  BY <1>2, <1>5 DEF Steady
<1>10. GoodRun(r)'
  <2> DEFINE c == Cancelled(r)
             own == OwnSandbox(r)
             alone == OwnRunId(r)
  <2>1. c \in BOOLEAN /\ own \in BOOLEAN /\ alone \in BOOLEAN
        /\ c' \in BOOLEAN /\ own' \in BOOLEAN /\ alone' \in BOOLEAN
    BY DEF Cancelled, OwnSandbox, OwnRunId
  <2>2. (c => c') /\ (own' => own) /\ (alone' => alone)
    BY <1>5, <1>9 DEF Cancelled, OwnSandbox, OwnRunId, Steady
  <2>3. Good(new, tree, Plan(r), c, own, alone)
    OBVIOUS
  <2> HIDE DEF c, own, alone
  <2>4. Good(new, tree, Plan(r), c', own', alone')
    BY <2>1, <2>2, <2>3, GoodStays
  <2>5. Tree(r)' = tree
    BY <1>8, <1>9 DEF Tree
  <2>6. Good(runs'[r], Tree(r)', Plan(r)', c', own', alone')
    BY <1>3, <1>9, <2>4, <2>5
  <2> QED BY <2>6 DEF GoodRun, c, own, alone
<1>11. ASSUME NEW q \in Runs \ {r} PROVE GoodRun(q)'
  <2>1. ASSUME Started(q), OwnSandbox(q) PROVE Tree(q)' = Tree(q)
    <3>1. GoodRun(q)
      BY DEF IInv
    <3>2. SandboxOf(q) \in SandboxIds /\ SandboxOf(q)' = SandboxOf(q)
      BY <1>1, <1>5, <2>1, <3>1, StartedRun DEF Steady
    <3>3. SandboxOf(q) # SandboxOf(r)
      BY <1>2, <2>1 DEF OwnSandbox
    <3> QED BY <1>8, <3>2, <3>3 DEF Tree
  <2> QED BY <1>3, <1>5, <2>1, OtherGood
<1>12. MemoryInv'
  <2>1. /\ stored' \in [RunIds -> SUBSET Preparations]
        /\ \A id \in RunIds : \A p \in stored'[id] : prepared'[p] # {}
        /\ rollbackContents' \in [RunIds -> SUBSET Runs]
    BY <1>1 DEF MemoryInv
  <2>2. \A id \in RunIds : \A q \in rollbackContents'[id] : (Started(q))' /\ RunId(q)' = id
    BY <1>1, <1>5 DEF MemoryInv, Steady
  <2>3. ASSUME NEW q \in Runs
        PROVE  /\ (Started(q))' => runs'[q].sandbox # {}
               /\ runs'[q].pc = "idle" => ~(Started(q))'
               /\ runs'[q].pc \notin {"idle", "refused"} => (Started(q))'
               /\ (InProgress(q))' => stored'[RunId(q)'] # {} /\ rollbackContents'[RunId(q)'] # {}
               /\ runs'[q].pc = "rollback" =>
                    /\ runs'[q].reads # {}
                    /\ \A s \in runs'[q].reads : (Started(s))' /\ RunId(s)' = RunId(q)'
    <3>1. CASE q = r
      <4>1. stored[RunId(r)] # {} /\ rollbackContents[RunId(r)] # {} /\ runs[r].sandbox # {}
        BY <1>1, <1>2 DEF MemoryInv
      <4>2. new.reads \subseteq Runs
        BY DEF Good, RunTypeOK
      <4>3. new.pc = "rollback" =>
              \A s \in new.reads : (Started(s))' /\ RunId(s)' = RunId(r)'
        BY <1>5, <1>9, <4>2 DEF Steady
      <4> QED BY <3>1, <1>3, <1>9, <4>1, <4>3
    <3>2. CASE q # r
      <4>1. runs'[q] = runs[q] /\ ((Started(q))' <=> Started(q))
            /\ ((InProgress(q))' <=> InProgress(q))
        BY <3>2, <1>3 DEF Started, InProgress
      <4>2. CASE Started(q)
        <5>1. RunId(q)' = RunId(q)
          BY <4>2, <1>5 DEF Steady
        <5>2. runs[q].reads \subseteq Runs
          BY DEF IInv, GoodRun, Good, RunTypeOK
        <5>3. runs[q].pc = "rollback" =>
                 /\ runs[q].reads # {}
                 /\ \A s \in runs[q].reads : (Started(s))' /\ RunId(s)' = RunId(q)
          BY <1>1, <1>5, <5>2 DEF MemoryInv, Steady
        <5> QED BY <1>1, <4>1, <5>1, <5>3 DEF MemoryInv
      <4>3. CASE ~Started(q)
        <5>1. runs[q].pc \in {"idle", "refused"}
          BY <1>1, <4>3 DEF MemoryInv
        <5> QED BY <4>1, <4>3, <5>1 DEF InProgress
      <4> QED BY <4>2, <4>3
    <3> QED BY <3>1, <3>2
  <2> QED BY <1>8, <2>1, <2>2, <2>3 DEF MemoryInv
<1> QED BY <1>10, <1>11, <1>12

\* A step of one run that leaves its sandbox as it is.
LEMMA RunStays ==
    ASSUME IInv, NEW r \in Runs, InProgress(r), NEW new, Step(r, new),
           new.preparation = runs[r].preparation, new.sandbox = runs[r].sandbox,
           new.pc \notin {"idle", "refused"},
           prepared' = prepared, stored' = stored, rollbackContents' = rollbackContents,
           cancelledRuns' = cancelledRuns, trees' = trees,
           Good(new, Tree(r), Plan(r), Cancelled(r), OwnSandbox(r), OwnRunId(r)),
           new.pc = "rollback" =>
              /\ new.reads # {}
              /\ \A q \in new.reads : Started(q) /\ RunId(q) = RunId(r)
    PROVE  MemoryInv' /\ \A q \in Runs : GoodRun(q)'
<1>1. Started(r)
  BY DEF IInv, MemoryInv, InProgress
<1>2. SandboxOf(r) \in SandboxIds /\ Tree(r) \in Sound
  BY <1>1, StartedRun DEF IInv
<1>3. trees' = [trees EXCEPT ![SandboxOf(r)] = Tree(r)]
  BY <1>2 DEF IInv, MemoryInv, Tree
<1> QED BY <1>2, <1>3, RunMoves

\* What is known of a run in progress.
LEMMA RunContext ==
    ASSUME IInv, NEW r \in Runs, InProgress(r)
    PROVE  /\ RunTypeOK(runs[r]) /\ DOMAIN runs[r] = RunFields
           /\ Tree(r) \in Sound /\ Plan(r) \in Plans /\ RunId(r) \in RunIds
           /\ Cancelled(r) \in BOOLEAN /\ OwnSandbox(r) \in BOOLEAN /\ OwnRunId(r) \in BOOLEAN
           /\ Good(runs[r], Tree(r), Plan(r), Cancelled(r), OwnSandbox(r), OwnRunId(r))
           /\ stored[RunId(r)] # {} /\ rollbackContents[RunId(r)] # {}
           /\ runs[r].reads \subseteq Runs
<1>1. Started(r)
  BY DEF IInv, MemoryInv, InProgress
<1>2. Plan(r) \in Plans /\ Tree(r) \in Sound /\ RunId(r) \in RunIds
  BY <1>1, StartedRun DEF IInv
<1>3. Good(runs[r], Tree(r), Plan(r), Cancelled(r), OwnSandbox(r), OwnRunId(r))
  BY DEF IInv, GoodRun
<1>4. RunTypeOK(runs[r])
  BY <1>3 DEF Good
<1>5. Cancelled(r) \in BOOLEAN /\ OwnSandbox(r) \in BOOLEAN /\ OwnRunId(r) \in BOOLEAN
  BY DEF Cancelled, OwnSandbox, OwnRunId
<1>6. stored[RunId(r)] # {} /\ rollbackContents[RunId(r)] # {}
  BY DEF IInv, MemoryInv
<1> QED BY <1>2, <1>3, <1>4, <1>5, <1>6 DEF RunTypeOK

\* Each await of apply keeps the invariant, first the opening of the sandbox.
LEMMA OpenSandboxKeeps ==
    ASSUME IInv, NEW r \in Runs, OpenSandbox(r)
    PROVE  MemoryInv' /\ \A q \in Runs : GoodRun(q)'
<1> DEFINE run == runs[r]
           new == [run EXCEPT !.pc = "opened", !.maxOperations = PolicyOf(r)]
<1>1. run.pc = "started" /\ InProgress(r)
  BY DEF OpenSandbox, InProgress
<1>2. Step(r, new) /\ UNCHANGED <<prepared, stored, rollbackContents, cancelledRuns, trees>>
  BY DEF OpenSandbox, memory
<1>3. PolicyOf(r) \in Nat
  <2>1. The(stored[RunId(r)]) \in stored[RunId(r)]
    BY <1>1, RunContext, TheInSet
  <2>2. The(stored[RunId(r)]) \in Preparations /\ prepared[The(stored[RunId(r)])] # {}
    BY <1>1, <2>1, RunContext DEF IInv, MemoryInv
  <2>3. InputOf(The(stored[RunId(r)])) \in Inputs
    BY <2>2, PreparedInput DEF IInv
  <2> QED BY <2>3, ApplyAssumption DEF PolicyOf
<1>4. /\ Frame(new, run, {"pc", "maxOperations"}) /\ new.pc = "opened"
      /\ new.maxOperations = PolicyOf(r)
  BY <1>1, RunContext DEF Frame, RunFields
<1> HIDE DEF new
<1>5. /\ Frame(new, run, {"pc", "preparation", "sandbox", "epoch", "maxOperations"})
      /\ new.preparation = run.preparation /\ new.sandbox = run.sandbox
  BY <1>4 DEF Frame, RunFields
<1>6. RunTypeOK(new)
  <2>1. RunTypeOK(run)
    BY <1>1, RunContext
  <2> QED BY <1>3, <1>4, <2>1 DEF Frame, RunFields, RunTypeOK
<1>7. Good(new, Tree(r), Plan(r), Cancelled(r), OwnSandbox(r), OwnRunId(r))
  BY <1>1, <1>4, <1>5, <1>6, RunContext, OpenGood
<1> QED BY <1>1, <1>2, <1>4, <1>5, <1>7, RunStays

\* The snapshot before the loop.
LEMMA SnapshotBeforeKeeps ==
    ASSUME IInv, NEW r \in Runs, SnapshotBefore(r)
    PROVE  MemoryInv' /\ \A q \in Runs : GoodRun(q)'
<1> DEFINE run == runs[r]
           new == LoopAt(r, [run EXCEPT !.before = {Tree(r)}], 1)
<1>1. run.pc = "opened" /\ InProgress(r)
  BY DEF SnapshotBefore, InProgress
<1>2. Step(r, new) /\ UNCHANGED <<prepared, stored, rollbackContents, cancelledRuns, trees>>
  BY DEF SnapshotBefore, memory
<1>4. /\ Frame(new, run, {"pc", "before", "index"})
      /\ new.before = {Tree(r)} /\ new.index = 1
      /\ new.pc = IF 1 > Len(Plan(r)) THEN "looped" ELSE "looping"
  BY <1>1, RunContext DEF Frame, RunFields, LoopAt
<1> HIDE DEF new
<1>5. new.preparation = run.preparation /\ new.sandbox = run.sandbox
      /\ new.pc \in {"looped", "looping"}
  BY <1>4 DEF Frame, RunFields
<1>7. Good(new, Tree(r), Plan(r), Cancelled(r), OwnSandbox(r), OwnRunId(r))
  BY <1>1, <1>4, RunContext, SnapshotGood
<1> QED BY <1>1, <1>2, <1>5, <1>7, RunStays

\* An exception before the loop.
LEMMA ThrowKeeps ==
    ASSUME IInv, NEW r \in Runs, InProgress(r), NEW new, Step(r, new),
           Frame(new, runs[r], {"pc", "faults"}), new.pc = "threw",
           UNCHANGED <<prepared, stored, rollbackContents, cancelledRuns, trees>>
    PROVE  MemoryInv' /\ \A q \in Runs : GoodRun(q)'
<1>5. new.preparation = runs[r].preparation /\ new.sandbox = runs[r].sandbox
  BY DEF Frame, RunFields
<1>7. Good(new, Tree(r), Plan(r), Cancelled(r), OwnSandbox(r), OwnRunId(r))
  BY RunContext, EndsGood
<1> QED BY <1>5, <1>7, RunStays

\* The read of the prior content, or its failure.
LEMMA CaptureKeeps ==
    ASSUME IInv, NEW r \in Runs, Capture(r)
    PROVE  MemoryInv' /\ \A q \in Runs : GoodRun(q)'
<1> DEFINE run == runs[r]
<1>1. run.pc = "looping" /\ InProgress(r)
      /\ UNCHANGED <<prepared, stored, rollbackContents, cancelledRuns, trees>>
  BY DEF Capture, InProgress, memory
<1>2. PICK new : /\ Step(r, new)
                 /\ \/ new = [run EXCEPT !.pc = "captured",
                                         !.prior = FileAt(Tree(r), Operation(r).path)]
                    \/ new = [run EXCEPT !.pc = "captured", !.prior = Absent,
                                         !.faults = @ \cup {"read"}]
  BY DEF Capture
<1>3. /\ Frame(new, run, {"pc", "prior", "faults"}) /\ new.pc = "captured"
      /\ \/ new.prior = FileAt(Tree(r), Plan(r)[run.index].path) /\ new.faults = run.faults
         \/ new.prior = Absent /\ new.faults # {}
  <2>1. CASE new = [run EXCEPT !.pc = "captured",
                               !.prior = FileAt(Tree(r), Operation(r).path)]
    <3>1. new.faults = run.faults /\ new.prior = FileAt(Tree(r), Plan(r)[run.index].path)
      BY <1>1, <2>1, RunContext DEF RunFields, Operation
    <3>2. Frame(new, run, {"pc", "prior", "faults"}) /\ new.pc = "captured"
      BY <1>1, <2>1, RunContext DEF Frame, RunFields
    <3> QED BY <3>1, <3>2
  <2>2. CASE new = [run EXCEPT !.pc = "captured", !.prior = Absent,
                               !.faults = @ \cup {"read"}]
    <3>1. new.faults = run.faults \cup {"read"}
      BY <1>1, <2>2, RunContext DEF RunFields
    <3>2. Frame(new, run, {"pc", "prior", "faults"}) /\ new.pc = "captured" /\ new.prior = Absent
      BY <1>1, <2>2, RunContext DEF Frame, RunFields
    <3> QED BY <3>1, <3>2
  <2> QED BY <1>2, <2>1, <2>2
<1>5. new.preparation = run.preparation /\ new.sandbox = run.sandbox
  BY <1>3 DEF Frame, RunFields
<1>7. Good(new, Tree(r), Plan(r), Cancelled(r), OwnSandbox(r), OwnRunId(r))
  BY <1>1, <1>3, RunContext, CaptureGood
<1> QED BY <1>1, <1>2, <1>3, <1>5, <1>7, RunStays

\* A failure in the loop before the change.
LEMMA FailKeeps ==
    ASSUME IInv, NEW r \in Runs, Skip(r) \/ Drift(r)
    PROVE  MemoryInv' /\ \A q \in Runs : GoodRun(q)'
<1> DEFINE run == runs[r]
           new == Failed(run)
<1>1. run.pc \in {"looping", "captured"} /\ InProgress(r) /\ Step(r, new)
      /\ UNCHANGED <<prepared, stored, rollbackContents, cancelledRuns, trees>>
  BY DEF Skip, Drift, InProgress, memory
<1>4. Frame(new, run, {"pc", "failed"}) /\ new.pc = "looped" /\ new.failed = TRUE
  BY <1>1, RunContext DEF Frame, RunFields, Failed
<1> HIDE DEF new
<1>5. new.preparation = run.preparation /\ new.sandbox = run.sandbox
  BY <1>4 DEF Frame, RunFields
<1>7. Good(new, Tree(r), Plan(r), Cancelled(r), OwnSandbox(r), OwnRunId(r))
  <2>1. GoodAt(run, Tree(r), Plan(r), Cancelled(r), OwnSandbox(r), OwnRunId(r))
    BY <1>1, RunContext DEF GoodAt
  <2>2. FailsTo(run, new)
    BY <1>1, <1>4 DEF FailsTo
  <2> QED BY <2>1, <2>2, FailGood
<1> QED BY <1>1, <1>4, <1>5, <1>7, RunStays

\* The time limit of the sandbox.
LEMMA TimeOutKeeps ==
    ASSUME IInv, NEW r \in Runs, TimeOut(r)
    PROVE  MemoryInv' /\ \A q \in Runs : GoodRun(q)'
<1> DEFINE run == runs[r]
           new == [run EXCEPT !.timedOut = TRUE]
<1>1. InProgress(r) /\ Step(r, new)
      /\ UNCHANGED <<prepared, stored, rollbackContents, cancelledRuns, trees>>
  BY DEF TimeOut, memory
<1>4. Frame(new, run, {"timedOut"}) /\ new.timedOut = TRUE
  BY <1>1, RunContext DEF Frame, RunFields
<1> HIDE DEF new
<1>5. new.preparation = run.preparation /\ new.sandbox = run.sandbox
      /\ new.pc = run.pc /\ new.reads = run.reads
  BY <1>4 DEF Frame, RunFields
<1>6. run.pc = "rollback" =>
              /\ run.reads # {}
              /\ \A q \in run.reads : Started(q) /\ RunId(q) = RunId(r)
  BY DEF IInv, MemoryInv
<1>7. Good(new, Tree(r), Plan(r), Cancelled(r), OwnSandbox(r), OwnRunId(r))
  BY <1>1, <1>4, RunContext, TimeOutGood
<1> QED BY <1>1, <1>5, <1>6, <1>7, RunStays DEF InProgress

\* A write is a touch of the tree, and one that succeeds is the operation.
LEMMA WriteOutcome ==
    ASSUME NEW operation \in Operations, operation.operation # "delete-file",
           NEW tree \in Sound, NEW run,
           NEW w \in Write(run, tree, operation.path, operation.content)
    PROVE  /\ w.tree \in Sound
           /\ Touched(tree, operation.path, w.tree)
           /\ w.ok => Carries(operation, tree, w.tree)
<1> DEFINE p == operation.path
           content == operation.content
<1>1. p \in Paths /\ content \in Contents /\ content # Directory
  BY ApplyAssumption DEF Operations
<1> HIDE DEF p, content
<1>2. w \in Write(run, tree, p, content)
  BY DEF p, content
<1>3. w.tree \in Sound
  BY <1>1, <1>2, WriteSound
<1>4. CASE Refuses(run, tree, p, w)
  <2>1. Touched(tree, p, w.tree)
    BY <1>4 DEF Refuses, Touched
  <2> QED BY <1>3, <1>4, <2>1 DEF Refuses, p
<1>5. CASE Stops(tree, p, w)
  <2>1. Touched(tree, p, w.tree)
    BY <1>1, <1>5, MadeIs, PathsAbove DEF Stops, Touched
  <2> QED BY <1>3, <1>5, <2>1 DEF Stops, p
<1>6. CASE Puts(tree, p, content, w)
  <2>1. /\ w.tree[p] = content
        /\ \A a \in Ancestors[p] : w.tree[a] = Directory
        /\ \A q \in Paths : q # p /\ q \notin Ancestors[p] => w.tree[q] = tree[q]
        /\ tree[p] # Directory /\ Ancestors[p] \cap Files(tree) = {}
    BY <1>1, <1>6, PutIs DEF Puts
  <2>2. Touched(tree, p, w.tree)
    BY <1>1, <2>1 DEF Touched
  <2>3. Carries(operation, tree, w.tree)
    BY <1>1, <2>1, PathsAbove DEF Carries, Concerns, Leaves, p, content
  <2> QED BY <1>3, <2>2, <2>3 DEF p
<1> QED BY <1>1, <1>2, <1>4, <1>5, <1>6, WriteIs

\* So is a removal.
LEMMA RemoveOutcome ==
    ASSUME NEW operation \in Operations, operation.operation = "delete-file",
           NEW tree \in Sound, NEW run,
           NEW t, t = Removed(run, tree, operation.path)
    PROVE  /\ t \in Sound
           /\ tree[operation.path] # Directory => Touched(tree, operation.path, t)
           /\ ~Starved(run) /\ Removable(tree, operation.path)
                => Carries(operation, tree, t)
<1> DEFINE p == operation.path
<1>1. p \in Paths /\ tree \in [Paths -> {Absent, Directory} \cup Contents]
  BY DEF Operations, Sound, Trees
<1>2. t \in Sound /\ \A q \in Paths \ {p} : t[q] = tree[q]
  BY <1>1, RemovedSound
<1>3. t[p] = tree[p] \/ t[p] = Absent
  BY <1>1 DEF Removed
<1>4. \A a \in Ancestors[p] : a \in Paths /\ a # p
  BY <1>1, PathsAbove
<1>5. tree[p] # Directory => Touched(tree, p, t)
  BY <1>2, <1>3, <1>4 DEF Touched, Absent, Directory
<1>6. ASSUME ~Starved(run), Removable(tree, p)
      PROVE  Carries(operation, tree, t)
  <2>1. t = [tree EXCEPT ![p] = Absent]
    BY <1>6 DEF Removed
  <2>2. t[p] = Absent
    BY <1>1, <2>1
  <2>3. \A a \in Ancestors[p] : tree[a] = Directory
    BY <1>1, <1>6 DEF Removable, Sound, SoundTree
  <2> QED BY <1>1, <1>2, <1>4, <2>2, <2>3 DEF Carries, Concerns, Leaves
<1> QED BY <1>2, <1>5, <1>6

\* What becomes of the change an operation asks for.
LEMMA OutcomeIs ==
    ASSUME NEW r \in Runs, Tree(r) \in Sound, Operation(r) \in Operations,
           NEW o \in Outcomes(r), NEW op, op = Operation(r)
    PROVE  /\ o.tree \in Sound
           /\ Tree(r)[op.path] # Directory \/ op.operation # "delete-file"
                => Touched(Tree(r), op.path, o.tree)
           /\ o.ok => Carries(op, Tree(r), o.tree)
<1>1. CASE op.operation # "delete-file"
  <2>1. PICK w \in Write(runs[r], Tree(r), op.path, op.content) : o = [tree |-> w.tree, ok |-> w.ok]
    BY <1>1 DEF Outcomes
  <2>2. o.tree = w.tree /\ (o.ok <=> w.ok)
    BY <2>1
  <2> QED BY <1>1, <2>2, WriteOutcome
<1>2. CASE op.operation = "delete-file"
  <2> DEFINE gone == Removed(runs[r], Tree(r), op.path)
             ok == ~Starved(runs[r]) /\ Removable(Tree(r), op.path)
  <2>0. ok \in BOOLEAN
    BY DEF Starved, Removable
  <2>1. /\ gone \in Sound
        /\ Tree(r)[op.path] # Directory => Touched(Tree(r), op.path, gone)
        /\ ok => Carries(op, Tree(r), gone)
    BY <1>2, RemoveOutcome
  <2>2. o = [tree |-> gone, ok |-> ok] \/ o = [tree |-> Tree(r), ok |-> FALSE]
    BY <1>2 DEF Outcomes
  <2> HIDE DEF gone, ok
  <2>3. \/ o.tree = gone /\ (o.ok <=> ok)
        \/ o.tree = Tree(r) /\ ~o.ok
    BY <2>0, <2>2
  <2>4. Touched(Tree(r), op.path, Tree(r))
    BY DEF Touched
  <2> QED BY <1>2, <2>1, <2>3, <2>4
<1> QED BY <1>1, <1>2

\* The change itself, and the end of the loop.
LEMMA MutateKeeps ==
    ASSUME IInv, NEW r \in Runs, Mutate(r)
    PROVE  MemoryInv' /\ \A q \in Runs : GoodRun(q)'
<1> DEFINE run == runs[r]
           counted == [Recorded(run) EXCEPT !.used = Counted(run)]
           done == LoopAt(r, [counted EXCEPT !.applied = @ + 1], counted.index + 1)
           failed == Failed(counted)
           op == Operation(r)
<1>1. /\ run.pc = "captured" /\ InProgress(r)
      /\ UNCHANGED <<prepared, stored, rollbackContents, cancelledRuns>>
      /\ op.operation = "delete-file" => run.prior # Absent
  BY DEF Mutate, InProgress
<1>2. PICK o \in Outcomes(r) :
        /\ trees' = [trees EXCEPT ![SandboxOf(r)] = o.tree]
        /\ o.ok => Step(r, done)
        /\ ~o.ok => Step(r, failed)
  BY DEF Mutate
<1>3. op = Plan(r)[run.index] /\ op \in Operations
  <2>1. run.index \in 1..Len(Plan(r)) /\ Plan(r) \in Seq(Operations)
    BY <1>1, RunContext DEF Good, Control, Plans
  <2> QED BY <2>1 DEF Operation
<1>4. /\ o.tree \in Sound
      /\ Tree(r)[op.path] # Directory \/ op.operation # "delete-file"
           => Touched(Tree(r), op.path, o.tree)
      /\ o.ok => Carries(op, Tree(r), o.tree)
  BY <1>1, <1>2, <1>3, RunContext, OutcomeIs
<1>5. /\ Frame(counted, run, {"priors", "used"})
      /\ counted.priors = RecordsMore(run)
      /\ counted.used = Counted(run)
  BY <1>1, RunContext DEF Frame, RunFields, Recorded, RecordsMore
<1> HIDE DEF counted
<1>6. Counted(run) \in Nat
  BY <1>1, RunContext, CountedIs
<1>7. CASE o.ok
  <2>1. /\ Frame(done, counted, {"applied", "pc", "index"})
        /\ done.index = counted.index + 1
        /\ done.pc = IF done.index > Len(Plan(r)) THEN "looped" ELSE "looping"
    BY <1>5 DEF Frame, RunFields, LoopAt
  <2>2. Step(r, done)
    BY <1>2, <1>7
  <2> HIDE DEF done
  <2>3. /\ Frame(done, run, {"pc", "priors", "used", "applied", "index"})
        /\ done.priors = RecordsMore(run) /\ done.used = Counted(run)
        /\ done.index = run.index + 1
        /\ done.preparation = run.preparation /\ done.sandbox = run.sandbox
        /\ done.pc \in {"looped", "looping"}
    BY <1>5, <2>1 DEF Frame, RunFields
  <2>4. Good(done, o.tree, Plan(r), Cancelled(r), OwnSandbox(r), OwnRunId(r))
    <3>o. op = Plan(r)[run.index]
      BY <1>3
    <3> HIDE DEF op
    <3>1. Carries(op, Tree(r), o.tree)
      BY <1>4, <1>7
    <3>2. done.used \in Nat
      BY <1>6, <2>3
    <3>c. /\ Tree(r) \in Sound /\ Plan(r) \in Plans
          /\ Cancelled(r) \in BOOLEAN /\ OwnSandbox(r) \in BOOLEAN /\ OwnRunId(r) \in BOOLEAN
          /\ Good(run, Tree(r), Plan(r), Cancelled(r), OwnSandbox(r), OwnRunId(r))
      BY <1>1, RunContext
    <3> DEFINE plan == Plan(r)
               tree == Tree(r)
               t == o.tree
               c == Cancelled(r)
               own == OwnSandbox(r)
               alone == OwnRunId(r)
    <3>3. tree \in Sound /\ plan \in Plans /\ t \in Sound
      BY <1>4, <3>c
    <3>4. /\ c \in BOOLEAN /\ own \in BOOLEAN /\ alone \in BOOLEAN
          /\ Good(run, tree, plan, c, own, alone)
      BY <3>c
    <3>5. /\ run.pc = "captured"
          /\ plan[run.index].operation = "delete-file" => run.prior # Absent
      BY <1>1, <3>o
    <3>6. /\ tree[plan[run.index].path] # Directory
             \/ plan[run.index].operation # "delete-file"
             => Touched(tree, plan[run.index].path, t)
          /\ Carries(plan[run.index], tree, t)
      BY <1>4, <3>o, <3>1
    <3>7. /\ Frame(done, run, {"pc", "priors", "used", "applied", "index"})
          /\ done.priors = RecordsMore(run) /\ done.used \in Nat
          /\ done.index = run.index + 1
          /\ done.pc = IF done.index > Len(plan) THEN "looped" ELSE "looping"
      BY <2>1, <2>3, <3>2
    <3> HIDE DEF run, plan, tree, t, c, own, alone, done
    <3>8. Good(done, t, plan, c, own, alone)
      BY <3>3, <3>4, <3>5, <3>6, <3>7, MutateGood
    <3> QED BY <3>8 DEF plan, t, c, own, alone
  <2> QED BY <1>1, <1>2, <1>4, <2>2, <2>3, <2>4, RunMoves
<1>8. CASE ~o.ok
  <2>1. Frame(failed, counted, {"pc", "failed"}) /\ failed.pc = "looped" /\ failed.failed = TRUE
    BY <1>5 DEF Frame, RunFields, Failed
  <2>2. Step(r, failed)
    BY <1>2, <1>8
  <2> HIDE DEF failed
  <2>3. /\ Frame(failed, run, {"pc", "priors", "used", "failed"})
        /\ failed.priors = RecordsMore(run) /\ failed.used = Counted(run)
        /\ failed.preparation = run.preparation /\ failed.sandbox = run.sandbox
    BY <1>5, <2>1 DEF Frame, RunFields
  <2>4. Good(failed, o.tree, Plan(r), Cancelled(r), OwnSandbox(r), OwnRunId(r))
    <3>o. op = Plan(r)[run.index]
      BY <1>3
    <3> HIDE DEF op
    <3>2. failed.used \in Nat
      BY <1>6, <2>3
    <3>c. /\ Tree(r) \in Sound /\ Plan(r) \in Plans
          /\ Cancelled(r) \in BOOLEAN /\ OwnSandbox(r) \in BOOLEAN /\ OwnRunId(r) \in BOOLEAN
          /\ Good(run, Tree(r), Plan(r), Cancelled(r), OwnSandbox(r), OwnRunId(r))
      BY <1>1, RunContext
    <3> DEFINE plan == Plan(r)
               tree == Tree(r)
               t == o.tree
               c == Cancelled(r)
               own == OwnSandbox(r)
               alone == OwnRunId(r)
    <3>3. tree \in Sound /\ plan \in Plans /\ t \in Sound
      BY <1>4, <3>c
    <3>4. /\ c \in BOOLEAN /\ own \in BOOLEAN /\ alone \in BOOLEAN
          /\ Good(run, tree, plan, c, own, alone)
      BY <3>c
    <3>5. run.pc = "captured" /\ (plan[run.index].operation = "delete-file" => run.prior # Absent)
      BY <1>1, <3>o
    <3>6. tree[plan[run.index].path] # Directory
              \/ plan[run.index].operation # "delete-file"
              => Touched(tree, plan[run.index].path, t)
      BY <1>4, <3>o
    <3>7. /\ Frame(failed, run, {"pc", "priors", "used", "failed"})
          /\ failed.priors = RecordsMore(run) /\ failed.used \in Nat
          /\ failed.failed = TRUE /\ failed.pc = "looped"
      BY <2>1, <2>3, <3>2
    <3> HIDE DEF run, plan, tree, t, c, own, alone, failed
    <3>8. Good(failed, t, plan, c, own, alone)
      <4>1. GoodAt(run, tree, plan, c, own, alone)
        BY <3>3, <3>4 DEF GoodAt
      <4>2. MutateFailsTo(run, tree, plan, t, failed)
        BY <3>3, <3>5, <3>6, <3>7 DEF MutateFailsTo
      <4> QED BY <4>1, <4>2, MutateFailsGood
    <3> QED BY <3>8 DEF plan, t, c, own, alone
  <2> QED BY <1>1, <1>2, <1>4, <2>1, <2>2, <2>3, <2>4, RunMoves
<1> QED BY <1>7, <1>8

\* The decision to roll back, with the lookup of the records.
LEMMA DecideKeeps ==
    ASSUME IInv, NEW r \in Runs, Decide(r)
    PROVE  MemoryInv' /\ \A q \in Runs : GoodRun(q)'
<1> DEFINE run == runs[r]
           back == [run EXCEPT !.pc = "rollback", !.rolledBack = TRUE,
                               !.pending = Len(run.priors),
                               !.reads = rollbackContents[RunId(r)]]
           end == [run EXCEPT !.pc = "closing"]
           changed == {"pc", "rolledBack", "pending", "reads"}
<1>1. /\ run.pc = "looped" /\ InProgress(r)
      /\ UNCHANGED <<prepared, stored, rollbackContents, cancelledRuns, trees>>
      /\ MustRollBack(r) => Step(r, back)
      /\ ~MustRollBack(r) => Step(r, end)
  BY DEF Decide, InProgress, memory
<1>2. /\ RunTypeOK(run) /\ DOMAIN run = RunFields
      /\ rollbackContents[RunId(r)] # {} /\ RunId(r) \in RunIds
  BY <1>1, RunContext
<1>3. /\ rollbackContents[RunId(r)] \subseteq Runs
      /\ \A q \in rollbackContents[RunId(r)] : Started(q) /\ RunId(q) = RunId(r)
  BY <1>2 DEF IInv, MemoryInv
<1>c. GoodAt(run, Tree(r), Plan(r), Cancelled(r), OwnSandbox(r), OwnRunId(r))
  BY <1>1, RunContext DEF GoodAt
<1>4. CASE MustRollBack(r)
  <2>1. /\ Frame(back, run, changed) /\ back.pc = "rollback" /\ back.rolledBack = TRUE
        /\ back.pending = Len(run.priors) /\ back.reads = rollbackContents[RunId(r)]
    BY <1>2 DEF Frame, RunFields
  <2>2. Step(r, back)
    BY <1>1, <1>4
  <2> HIDE DEF back
  <2>3. back.preparation = run.preparation /\ back.sandbox = run.sandbox
    BY <2>1 DEF Frame, RunFields
  <2>4. run.failed \/ Cancelled(r)
    BY <1>4 DEF MustRollBack
  <2>5. Good(back, Tree(r), Plan(r), Cancelled(r), OwnSandbox(r), OwnRunId(r))
    <3>1. DecidesTo(run, Cancelled(r), back)
      BY <1>1, <1>3, <2>1, <2>4 DEF DecidesTo
    <3> QED BY <1>c, <3>1, DecideGood
  <2> QED BY <1>1, <1>2, <1>3, <2>1, <2>2, <2>3, <2>5, RunStays
<1>5. CASE ~MustRollBack(r)
  <2>1. /\ Frame(end, run, changed) /\ end.pc = "closing" /\ end.rolledBack = run.rolledBack
        /\ end.pending = run.pending /\ end.reads = run.reads
    BY <1>2 DEF Frame, RunFields
  <2>2. Step(r, end)
    BY <1>1, <1>5
  <2> HIDE DEF end
  <2>3. end.preparation = run.preparation /\ end.sandbox = run.sandbox
    BY <2>1 DEF Frame, RunFields
  <2>4. ~run.failed
    BY <1>5 DEF MustRollBack
  <2>5. Good(end, Tree(r), Plan(r), Cancelled(r), OwnSandbox(r), OwnRunId(r))
    <3>1. DecidesTo(run, Cancelled(r), end)
      BY <1>1, <2>1, <2>4 DEF DecidesTo
    <3> QED BY <1>c, <3>1, DecideGood
  <2> QED BY <1>1, <2>1, <2>2, <2>3, <2>5, RunStays
<1> QED BY <1>4, <1>5

\* The prior contents a rollback reads are the run's own, unless another run
\* goes by the same run id.
LEMMA PriorsRead ==
    ASSUME IInv, NEW r \in Runs, runs[r].pc = "rollback"
    PROVE  /\ Priors(r) \in Seq(PriorContents)
           /\ OwnRunId(r) => Priors(r) = runs[r].priors
           /\ runs[r].reads # {}
           /\ \A q \in runs[r].reads : Started(q) /\ RunId(q) = RunId(r)
<1>1. InProgress(r)
  BY DEF InProgress
<1>2. /\ runs[r].reads # {} /\ runs[r].reads \subseteq Runs
      /\ \A q \in runs[r].reads : Started(q) /\ RunId(q) = RunId(r)
  BY <1>1, RunContext DEF IInv, MemoryInv
<1> DEFINE q == The(runs[r].reads)
<1>3. q \in Runs /\ Started(q) /\ RunId(q) = RunId(r)
  BY <1>2, TheInSet
<1>4. runs[q].priors \in Seq(PriorContents)
  BY <1>3 DEF IInv, GoodRun, Good, RunTypeOK
<1>5. OwnRunId(r) => q = r
  BY <1>3 DEF OwnRunId
<1> QED BY <1>2, <1>4, <1>5 DEF Priors

\* The rollback of a record that is not there.
LEMMA RevertMissingKeeps ==
    ASSUME IInv, NEW r \in Runs, RevertMissing(r)
    PROVE  MemoryInv' /\ \A q \in Runs : GoodRun(q)'
<1> DEFINE run == runs[r]
           new == Reverted([run EXCEPT !.unreverted = TRUE])
<1>1. /\ run.pc = "rollback" /\ InProgress(r) /\ run.pending > 0
      /\ run.pending \notin DOMAIN Priors(r) /\ Step(r, new)
      /\ UNCHANGED <<prepared, stored, rollbackContents, cancelledRuns, trees>>
  BY DEF RevertMissing, InProgress, NextRecord, memory
<1>2. DOMAIN run = RunFields
  BY <1>1, RunContext
<1>c. GoodAt(run, Tree(r), Plan(r), Cancelled(r), OwnSandbox(r), OwnRunId(r))
  BY <1>1, RunContext DEF GoodAt
<1>3. /\ Frame(new, run, {"pending", "unreverted"})
      /\ new.pending = run.pending - 1 /\ new.unreverted = TRUE
  BY <1>2 DEF Frame, RunFields, Reverted
<1> HIDE DEF new
<1>4. /\ new.preparation = run.preparation /\ new.sandbox = run.sandbox
      /\ new.pc = run.pc /\ new.reads = run.reads
  BY <1>3 DEF Frame, RunFields
<1>5. OwnRunId(r) => run.pending \notin DOMAIN run.priors
  BY <1>1, PriorsRead
<1>6. Good(new, Tree(r), Plan(r), Cancelled(r), OwnSandbox(r), OwnRunId(r))
  <2>1. MissesTo(run, OwnRunId(r), new)
    BY <1>1, <1>3, <1>5 DEF MissesTo
  <2> QED BY <1>c, <2>1, MissingGood
<1> QED BY <1>1, <1>4, <1>6, PriorsRead, RunStays

\* A removal of the rollback.
LEMMA RevertCreatedKeeps ==
    ASSUME IInv, NEW r \in Runs, RevertCreated(r)
    PROVE  MemoryInv' /\ \A q \in Runs : GoodRun(q)'
<1> DEFINE run == runs[r]
           removals == Removals(r)
<1>1. /\ run.pc = "rollback" /\ InProgress(r) /\ run.pending > 0
      /\ run.pending \in DOMAIN Priors(r) /\ Priors(r)[run.pending] = Absent
      /\ UNCHANGED <<prepared, stored, rollbackContents, cancelledRuns>>
  BY DEF RevertCreated, InProgress, NextRecord, memory
<1>2. PICK x \in removals, fault \in {FALSE, IoMayFail} :
        /\ \A q \in removals : x \notin Ancestors[q]
        /\ trees' = [trees EXCEPT ![SandboxOf(r)] =
                        IF fault THEN @ ELSE Removed(run, @, x)]
        /\ Step(r, [run EXCEPT
                !.used = Counted(run),
                !.faults = IF fault THEN @ \cup {"remove"} ELSE @,
                !.removing = removals \ {x},
                !.pending = IF removals = {x} THEN @ - 1 ELSE @])
  BY DEF RevertCreated
<1>3. fault \in BOOLEAN
  BY <1>2, ApplyAssumption
<1>4. DOMAIN run = RunFields
  BY <1>1, RunContext
<1> DEFINE faults == IF fault THEN run.faults \cup {"remove"} ELSE run.faults
           pending == IF removals = {x} THEN run.pending - 1 ELSE run.pending
           rest == removals \ {x}
           used == Counted(run)
           new == [run EXCEPT !.used = used, !.faults = faults, !.removing = rest,
                              !.pending = pending]
           t == IF fault THEN Tree(r) ELSE Removed(run, Tree(r), x)
<1>5. Step(r, new)
  BY <1>2
<1>6. trees' = [trees EXCEPT ![SandboxOf(r)] = t]
  BY <1>2 DEF Tree
<1>7. removals = IF run.removing = {}
                 THEN RecordRemovals(Plan(r), The(run.before), run.pending)
                 ELSE run.removing
  BY DEF Removals, Created, NewDirectories, RecordRemovals, NextRecord, Before
<1>8. OwnRunId(r) => run.priors[run.pending] = Absent
  BY <1>1, PriorsRead
<1>9. /\ Frame(new, run, {"used", "faults", "removing", "pending"})
      /\ new.used = used /\ new.faults = faults /\ new.removing = rest
      /\ new.pending = pending
  <2> HIDE DEF used, faults, rest, pending
  <2> QED BY <1>4 DEF Frame, RunFields
<1>10. /\ x \in removals /\ \A q \in removals : x \notin Ancestors[q]
  BY <1>2
<1> DEFINE plan == Plan(r)
           tree == Tree(r)
           c == Cancelled(r)
           own == OwnSandbox(r)
           alone == OwnRunId(r)
<1>11. /\ tree \in Sound /\ plan \in Plans
       /\ c \in BOOLEAN /\ own \in BOOLEAN /\ alone \in BOOLEAN
       /\ Good(run, tree, plan, c, own, alone)
  BY <1>1, RunContext
<1> HIDE DEF new, removals
<1>12. TakesAway(run, new, plan, tree, t, removals, x, fault)
  BY <1>7, <1>9, <1>10 DEF TakesAway
<1>13. /\ new.preparation = run.preparation /\ new.sandbox = run.sandbox
       /\ new.pc = run.pc /\ new.reads = run.reads
  BY <1>9 DEF Frame, RunFields
<1>14. t \in Sound /\ Good(new, t, plan, c, own, alone)
  <2> HIDE DEF run, plan, tree, t, c, own, alone, used, faults, rest, pending
  <2> QED BY <1>1, <1>3, <1>8, <1>10, <1>11, <1>12, RevertCreatedGood DEF run, alone
<1> HIDE DEF t
<1> QED BY <1>1, <1>5, <1>6, <1>13, <1>14, PriorsRead, RunMoves

\* A write back of the rollback.
LEMMA RevertReplacedKeeps ==
    ASSUME IInv, NEW r \in Runs, RevertReplaced(r)
    PROVE  MemoryInv' /\ \A q \in Runs : GoodRun(q)'
<1> DEFINE run == runs[r]
           content == Priors(r)[run.pending]
           path == Plan(r)[run.pending].path
           plan == Plan(r)
           tree == Tree(r)
           c == Cancelled(r)
           own == OwnSandbox(r)
           alone == OwnRunId(r)
<1>1. /\ run.pc = "rollback" /\ InProgress(r) /\ run.pending > 0
      /\ run.pending \in DOMAIN Priors(r) /\ content # Absent
      /\ UNCHANGED <<prepared, stored, rollbackContents, cancelledRuns>>
  BY DEF RevertReplaced, InProgress, NextRecord, memory
<1>2. PICK w \in Write(run, tree, path, content) :
        /\ trees' = [trees EXCEPT ![SandboxOf(r)] = w.tree]
        /\ Step(r, Reverted([run EXCEPT
                !.used = Counted(run),
                !.unreverted = @ \/ ~w.ok,
                !.faults = IF w.fault THEN @ \cup {"write"} ELSE @]))
  BY DEF RevertReplaced, NextRecord
<1>3. content \in Contents
  BY <1>1, PriorsRead DEF PriorContents
<1>4. alone => run.priors[run.pending] = content
  BY <1>1, PriorsRead
<1>5. DOMAIN run = RunFields /\ run.unreverted \in BOOLEAN
  BY <1>1, RunContext DEF RunTypeOK
<1>6. /\ tree \in Sound /\ plan \in Plans
      /\ c \in BOOLEAN /\ own \in BOOLEAN /\ alone \in BOOLEAN
      /\ Good(run, tree, plan, c, own, alone)
  BY <1>1, RunContext
<1> DEFINE used == Counted(run)
           faults == IF w.fault THEN run.faults \cup {"write"} ELSE run.faults
           failed == run.unreverted \/ ~w.ok
           some == [run EXCEPT !.used = used, !.unreverted = failed, !.faults = faults]
           new == Reverted(some)
<1>7. Step(r, new)
  BY <1>2
<1>8. PutsBack(run, new, w)
  <2>1. failed \in BOOLEAN
    BY <1>5
  <2> HIDE DEF used, faults, failed
  <2>2. /\ Frame(new, run, {"pending", "used", "unreverted", "faults"})
        /\ new.pending = run.pending - 1 /\ new.used = used /\ new.faults = faults
    BY <1>5 DEF Frame, RunFields, Reverted
  <2>3. new.unreverted = failed
    BY <1>5, <2>1 DEF RunFields, Reverted
  <2> HIDE DEF new, some
  <2> QED BY <2>2, <2>3 DEF PutsBack, used, faults, failed
<1> HIDE DEF new
<1>9. /\ new.preparation = run.preparation /\ new.sandbox = run.sandbox
      /\ new.pc = run.pc /\ new.reads = run.reads
  BY <1>8 DEF PutsBack, Frame, RunFields
<1>10. w.tree \in Sound /\ Good(new, w.tree, plan, c, own, alone)
  <2>1. w \in Write(run, tree, plan[run.pending].path, content)
    BY <1>2
  <2>2. run.pc = "rollback" /\ run.pending > 0
    BY <1>1
  <2> HIDE DEF run, plan, tree, c, own, alone, content
  <2> QED BY <1>3, <1>4, <1>6, <1>8, <2>1, <2>2, RevertReplacedGood
<1> QED BY <1>1, <1>2, <1>7, <1>9, <1>10, PriorsRead, RunMoves

\* The snapshot after the rollback.
LEMMA VerifyKeeps ==
    ASSUME IInv, NEW r \in Runs, Verify(r)
    PROVE  MemoryInv' /\ \A q \in Runs : GoodRun(q)'
<1> DEFINE run == runs[r]
           failed == run.unreverted \/ ~Restored(r)
           end == [run EXCEPT !.pc = "closing", !.rollbackFailed = failed]
           bad == [run EXCEPT !.pc = "closing", !.rollbackFailed = TRUE,
                              !.faults = @ \cup {"snapshot"}]
           changed == {"pc", "rollbackFailed", "faults"}
<1>1. /\ run.pc = "rollback" /\ run.pending = 0 /\ InProgress(r)
      /\ UNCHANGED <<prepared, stored, rollbackContents, cancelledRuns, trees>>
      /\ Step(r, end) \/ Step(r, bad) \/ Step(r, Threw(run))
  BY DEF Verify, InProgress, memory
<1>2. DOMAIN run = RunFields /\ run.unreverted \in BOOLEAN
  BY <1>1, RunContext DEF RunTypeOK
<1>c. GoodAt(run, Tree(r), Plan(r), Cancelled(r), OwnSandbox(r), OwnRunId(r))
  BY <1>1, RunContext DEF GoodAt
<1>3. CASE Step(r, end)
  <2>1. failed \in BOOLEAN /\ failed = (run.unreverted \/ Tree(r) # The(run.before))
    BY <1>2 DEF Restored, Before
  <2> HIDE DEF failed
  <2>2. Frame(end, run, changed) /\ end.pc = "closing" /\ end.faults = run.faults
    BY <1>2 DEF Frame, RunFields
  <2>3. end.rollbackFailed = failed
    BY <1>2, <2>1 DEF RunFields
  <2> HIDE DEF end
  <2>4. end.rollbackFailed = (run.unreverted \/ Tree(r) # The(run.before))
    BY <2>1, <2>3
  <2>5. end.preparation = run.preparation /\ end.sandbox = run.sandbox
    BY <2>2 DEF Frame, RunFields
  <2>6. Good(end, Tree(r), Plan(r), Cancelled(r), OwnSandbox(r), OwnRunId(r))
    <3>1. VerifiesTo(run, Tree(r), end)
      BY <1>1, <2>2, <2>4 DEF VerifiesTo
    <3> QED BY <1>c, <3>1, VerifyGood
  <2> QED BY <1>1, <1>3, <2>2, <2>5, <2>6, RunStays
<1>4. CASE Step(r, bad)
  <2>1. Frame(bad, run, changed) /\ bad.pc = "closing" /\ bad.rollbackFailed = TRUE
    BY <1>2 DEF Frame, RunFields
  <2>2. bad.faults = run.faults \cup {"snapshot"}
    BY <1>2 DEF RunFields
  <2> HIDE DEF bad
  <2>3. bad.faults # {}
    BY <2>2
  <2>5. bad.preparation = run.preparation /\ bad.sandbox = run.sandbox
    BY <2>1 DEF Frame, RunFields
  <2>6. Good(bad, Tree(r), Plan(r), Cancelled(r), OwnSandbox(r), OwnRunId(r))
    <3>1. VerifiesTo(run, Tree(r), bad)
      BY <1>1, <2>1, <2>3 DEF VerifiesTo
    <3> QED BY <1>c, <3>1, VerifyGood
  <2> QED BY <1>1, <1>4, <2>1, <2>5, <2>6, RunStays
<1>5. CASE Step(r, Threw(run))
  <2>1. Frame(Threw(run), run, {"pc", "faults"}) /\ Threw(run).pc = "threw"
    BY <1>2 DEF Frame, RunFields, Threw
  <2> QED BY <1>1, <1>5, <2>1, ThrowKeeps
<1> QED BY <1>1, <1>3, <1>4, <1>5

\* The return of the result.
LEMMA CompleteKeeps ==
    ASSUME IInv, NEW r \in Runs, Complete(r)
    PROVE  MemoryInv' /\ \A q \in Runs : GoodRun(q)'
<1> DEFINE run == runs[r]
           new == [run EXCEPT !.pc = "returned", !.status = StatusOf(r)]
<1>1. /\ run.pc = "closing" /\ InProgress(r)
      /\ UNCHANGED <<prepared, stored, rollbackContents, cancelledRuns, trees>>
      /\ Step(r, new) \/ Step(r, Threw(run))
  BY DEF Complete, InProgress, memory
<1>2. DOMAIN run = RunFields
  BY <1>1, RunContext
<1>c. /\ Tree(r) \in Sound /\ Plan(r) \in Plans
      /\ Cancelled(r) \in BOOLEAN /\ OwnSandbox(r) \in BOOLEAN /\ OwnRunId(r) \in BOOLEAN
      /\ Good(run, Tree(r), Plan(r), Cancelled(r), OwnSandbox(r), OwnRunId(r))
  BY <1>1, RunContext
<1>3. CASE Step(r, new)
  <2>1. Frame(new, run, {"pc", "status"}) /\ new.pc = "returned" /\ new.status = StatusOf(r)
    BY <1>2 DEF Frame, RunFields
  <2> HIDE DEF new
  <2>2. new.preparation = run.preparation /\ new.sandbox = run.sandbox
    BY <2>1 DEF Frame, RunFields
  <2>3. new.status = IF Cancelled(r) THEN "cancelled"
                     ELSE IF run.rollbackFailed THEN "rollback-failed"
                     ELSE IF run.failed THEN "rolled-back" ELSE "applied"
    BY <2>1 DEF StatusOf
  <2>4. Good(new, Tree(r), Plan(r), Cancelled(r), OwnSandbox(r), OwnRunId(r))
    BY <1>1, <1>c, <2>1, <2>3, CompleteGood
  <2> QED BY <1>1, <1>3, <2>1, <2>2, <2>4, RunStays
<1>4. CASE Step(r, Threw(run))
  <2>1. Frame(Threw(run), run, {"pc", "faults"}) /\ Threw(run).pc = "threw"
    BY <1>2 DEF Frame, RunFields, Threw
  <2> QED BY <1>1, <1>4, <2>1, ThrowKeeps
<1> QED BY <1>1, <1>3, <1>4

\* Every await of a run that settles preserves the invariant.
LEMMA RunStepGood ==
    ASSUME IInv, NEW r \in Runs, RunStep(r) \/ TimeOut(r)
    PROVE  MemoryInv' /\ \A q \in Runs : GoodRun(q)'
<1>1. CASE Throw(r)
  <2>1. /\ InProgress(r) /\ Step(r, Threw(runs[r]))
        /\ UNCHANGED <<prepared, stored, rollbackContents, cancelledRuns, trees>>
    BY <1>1 DEF Throw, InProgress, memory
  <2>2. Frame(Threw(runs[r]), runs[r], {"pc", "faults"}) /\ Threw(runs[r]).pc = "threw"
    BY <2>1, RunContext DEF Frame, RunFields, Threw
  <2> QED BY <2>1, <2>2, ThrowKeeps
<1> QED BY <1>1, OpenSandboxKeeps, SnapshotBeforeKeeps, CaptureKeeps, FailKeeps,
           MutateKeeps, DecideKeeps, RevertMissingKeeps, RevertCreatedKeeps,
           RevertReplacedKeeps, VerifyKeeps, CompleteKeeps, TimeOutKeeps DEF RunStep

-----------------------------------------------------------------------------
(* The other actions *)

\* Steps that leave runs and sandboxes alone, and keep what is prepared.
LEMMA QuietKeeps ==
    ASSUME IInv, KeepsInputs, runs' = runs, trees' = trees,
           rollbackContents' = rollbackContents, cancelledRuns \subseteq cancelledRuns',
           stored' \in [RunIds -> SUBSET Preparations],
           \A id \in RunIds : /\ \A p \in stored'[id] : prepared'[p] # {}
                              /\ stored[id] # {} => stored'[id] # {}
    PROVE  MemoryInv' /\ \A q \in Runs : GoodRun(q)'
<1>1. NonceInv /\ MemoryInv
  BY DEF IInv
<1>2. Steady
  BY <1>1, InputsSteady
<1>3. ASSUME NEW q \in Runs PROVE GoodRun(q)'
  <2>1. Started(q) => SandboxOf(q)' = SandboxOf(q)
    BY <1>2 DEF Steady
  <2>2. Started(q) => Tree(q)' = Tree(q)
    BY <2>1 DEF Tree
  <2> QED BY <1>2, <2>2, OtherGood
<1>4. \A id \in RunIds : \A q \in rollbackContents'[id] : (Started(q))' /\ RunId(q)' = id
  BY <1>1, <1>2 DEF MemoryInv, Steady
<1>5. ASSUME NEW q \in Runs
      PROVE  /\ (Started(q))' => runs'[q].sandbox # {}
             /\ runs'[q].pc = "idle" => ~(Started(q))'
             /\ runs'[q].pc \notin {"idle", "refused"} => (Started(q))'
             /\ (InProgress(q))' => stored'[RunId(q)'] # {} /\ rollbackContents'[RunId(q)'] # {}
             /\ runs'[q].pc = "rollback" =>
                  /\ runs'[q].reads # {}
                  /\ \A s \in runs'[q].reads : (Started(s))' /\ RunId(s)' = RunId(q)'
  <2>1. ((Started(q))' <=> Started(q)) /\ ((InProgress(q))' <=> InProgress(q))
    BY DEF Started, InProgress
  <2>2. CASE Started(q)
    <3>1. RunId(q)' = RunId(q) /\ RunId(q) \in RunIds
      BY <1>1, <1>2, <2>2, StartedRun DEF Steady, IInv
    <3>2. runs[q].reads \subseteq Runs
      BY DEF IInv, GoodRun, Good, RunTypeOK
    <3>3. runs[q].pc = "rollback" =>
             /\ runs[q].reads # {}
             /\ \A s \in runs[q].reads : (Started(s))' /\ RunId(s)' = RunId(q)
      BY <1>1, <1>2, <3>2 DEF MemoryInv, Steady
    <3> QED BY <1>1, <2>1, <3>1, <3>3 DEF MemoryInv
  <2>3. CASE ~Started(q)
    <3>1. runs[q].pc \in {"idle", "refused"}
      BY <1>1, <2>3 DEF MemoryInv
    <3> QED BY <2>1, <2>3, <3>1 DEF InProgress
  <2> QED BY <2>2, <2>3
<1> QED BY <1>1, <1>3, <1>4, <1>5 DEF MemoryInv

\* A preparation replaces another under its run id, and starts nothing.
LEMMA PrepareQuiet ==
    ASSUME IInv, NEW p \in Preparations, NEW input \in Inputs, Prepare(p, input)
    PROVE  MemoryInv' /\ \A q \in Runs : GoodRun(q)'
<1>1. NonceInv /\ MemoryInv
  BY DEF IInv
<1>2. KeepsInputs
  BY <1>1, PrepareKeeps, ApplyAssumption
<1> DEFINE id == RunIdOf[input.nonce]
           x == [input |-> input, ready |-> Ready(input), consumed |-> FALSE]
<1>3. /\ stored' = [stored EXCEPT ![id] = {p}] /\ prepared' = [prepared EXCEPT ![p] = {x}]
      /\ UNCHANGED <<runs, trees, rollbackContents, cancelledRuns>>
  BY DEF Prepare
<1> HIDE DEF id, x
<1>4. stored \in [RunIds -> SUBSET Preparations]
      /\ prepared \in [Preparations -> SUBSET PreparedRecords]
  BY <1>1 DEF MemoryInv, NonceInv
<1>5. /\ stored' \in [RunIds -> SUBSET Preparations]
      /\ \A i \in RunIds : stored'[i] = {p} \/ stored'[i] = stored[i]
  BY <1>3, <1>4
<1>6. prepared'[p] # {}
  BY <1>3, <1>4
<1>7. \A i \in RunIds : /\ \A q \in stored'[i] : prepared'[q] # {}
                        /\ stored[i] # {} => stored'[i] # {}
  BY <1>1, <1>2, <1>4, <1>5, <1>6 DEF MemoryInv, KeepsInputs
<1> QED BY <1>2, <1>3, <1>5, <1>7, QuietKeeps

\* Nothing is forgotten, so what is stored is still prepared.
LEMMA StoredStays ==
    ASSUME IInv, KeepsInputs, stored' = stored
    PROVE  /\ stored' \in [RunIds -> SUBSET Preparations]
           /\ \A id \in RunIds : /\ \A p \in stored'[id] : prepared'[p] # {}
                                 /\ stored[id] # {} => stored'[id] # {}
BY DEF IInv, MemoryInv, KeepsInputs

\* Cancellations, rollbacks asked for later, and the clock.
LEMMA ElseQuiet ==
    ASSUME IInv, \/ \E id \in RunIds : Cancel(id) \/ Rollback(id)
                 \/ Tick
                 \/ UNCHANGED vars
    PROVE  MemoryInv' /\ \A q \in Runs : GoodRun(q)'
<1>1. /\ UNCHANGED <<runs, trees, prepared, rollbackContents, stored>>
      /\ cancelledRuns \subseteq cancelledRuns'
  BY DEF Cancel, Rollback, Tick, vars, memory
<1>2. KeepsInputs
  BY <1>1, UnchangedInputs DEF IInv
<1> QED BY <1>1, <1>2, StoredStays, QuietKeeps

\* A run that is refused is over.
LEMMA RefuseKeeps ==
    ASSUME IInv, NEW r \in Runs, NEW p \in Preparations,
           Refuse(r, p) \/ RefuseConsumed(r, p)
    PROVE  MemoryInv' /\ \A q \in Runs : GoodRun(q)'
<1> DEFINE run == runs[r]
           new == [run EXCEPT !.pc = "refused"]
<1>1. NonceInv /\ MemoryInv
  BY DEF IInv
<1>2. /\ run.pc = "idle" /\ Step(r, new) /\ prepared[p] # {}
      /\ prepared' = prepared \/ prepared' = Consumed(p)
      /\ UNCHANGED <<trees, rollbackContents, stored, cancelledRuns>>
  BY DEF Refuse, RefuseConsumed, memory
<1>3. KeepsInputs
  BY <1>1, <1>2, UnchangedInputs, ConsumedKeepsInputs
<1>4. ~Started(r) /\ RunTypeOK(run) /\ GoodRun(r)
  BY <1>1, <1>2 DEF MemoryInv, IInv, GoodRun, Good
<1>5. Frame(new, run, {"pc", "faults"}) /\ new.pc = "refused"
  BY <1>4 DEF RunTypeOK, Frame, RunFields
<1> HIDE DEF new
<1>6. new.preparation = run.preparation /\ new.sandbox = run.sandbox
  BY <1>5 DEF Frame, RunFields
<1>7. runs'[r] = new /\ \A q \in Runs \ {r} : runs'[q] = runs[q]
  BY <1>1, <1>2 DEF Step, NonceInv
<1>8. Steady
  <2>1. \A q \in Runs : /\ runs'[q].preparation = runs[q].preparation
                        /\ runs'[q].sandbox = runs[q].sandbox
    BY <1>6, <1>7
  <2> QED BY <1>1, <1>3, <2>1, InputsSteady
<1>9. ASSUME NEW q \in Runs PROVE GoodRun(q)'
  <2>1. CASE q = r
    <3> DEFINE c == Cancelled(r)
               own == OwnSandbox(r)
               alone == OwnRunId(r)
    <3>1. c \in BOOLEAN /\ own \in BOOLEAN /\ alone \in BOOLEAN
          /\ c' \in BOOLEAN /\ own' \in BOOLEAN /\ alone' \in BOOLEAN
      BY DEF Cancelled, OwnSandbox, OwnRunId
    <3> HIDE DEF c, own, alone
    <3>2. Good(runs'[r], Tree(r)', Plan(r)', c', own', alone')
      BY <1>4, <1>5, <1>7, <3>1, EndsGood
    <3> QED BY <2>1, <3>2 DEF GoodRun, c, own, alone
  <2>2. CASE q # r
    <3>1. Started(q) => SandboxOf(q)' = SandboxOf(q)
      BY <1>8 DEF Steady
    <3>2. Started(q) => Tree(q)' = Tree(q)
      BY <1>2, <3>1 DEF Tree
    <3> QED BY <1>2, <1>7, <1>8, <2>2, <3>2, OtherGood
  <2> QED BY <2>1, <2>2
<1>10. /\ stored' \in [RunIds -> SUBSET Preparations]
       /\ \A id \in RunIds : \A x \in stored'[id] : prepared'[x] # {}
  BY <1>2, <1>3, StoredStays
<1>11. \A id \in RunIds : \A q \in rollbackContents'[id] : (Started(q))' /\ RunId(q)' = id
  BY <1>1, <1>2, <1>8 DEF MemoryInv, Steady
<1>12. ASSUME NEW q \in Runs
      PROVE  /\ (Started(q))' => runs'[q].sandbox # {}
             /\ runs'[q].pc = "idle" => ~(Started(q))'
             /\ runs'[q].pc \notin {"idle", "refused"} => (Started(q))'
             /\ (InProgress(q))' => stored'[RunId(q)'] # {} /\ rollbackContents'[RunId(q)'] # {}
             /\ runs'[q].pc = "rollback" =>
                  /\ runs'[q].reads # {}
                  /\ \A s \in runs'[q].reads : (Started(s))' /\ RunId(s)' = RunId(q)'
  <2>1. (Started(q))' <=> Started(q)
    BY <1>6, <1>7 DEF Started
  <2>2. CASE q = r
    BY <1>4, <1>5, <1>7, <2>1, <2>2 DEF InProgress
  <2>3. CASE q # r /\ Started(q)
    <3>1. RunId(q)' = RunId(q) /\ runs'[q] = runs[q] /\ ((InProgress(q))' <=> InProgress(q))
      BY <1>7, <1>8, <2>3 DEF Steady, InProgress
    <3>2. runs[q].reads \subseteq Runs
      BY DEF IInv, GoodRun, Good, RunTypeOK
    <3>3. runs[q].pc = "rollback" =>
             /\ runs[q].reads # {}
             /\ \A s \in runs[q].reads : (Started(s))' /\ RunId(s)' = RunId(q)
      BY <1>1, <1>8, <3>2 DEF MemoryInv, Steady
    <3> QED BY <1>1, <1>2, <2>1, <3>1, <3>3 DEF MemoryInv
  <2>4. CASE q # r /\ ~Started(q)
    <3>1. runs[q].pc \in {"idle", "refused"} /\ runs'[q] = runs[q]
      BY <1>1, <1>7, <2>4 DEF MemoryInv
    <3> QED BY <2>1, <2>4, <3>1 DEF InProgress
  <2> QED BY <2>2, <2>3, <2>4
<1> QED BY <1>1, <1>2, <1>9, <1>10, <1>11, <1>12 DEF MemoryInv

\* A run starts with nothing recorded, under the policy that is stored.
LEMMA StartKeeps ==
    ASSUME IInv, NEW r \in Runs, NEW p \in Preparations, NEW s \in SandboxIds,
           Start(r, p, s)
    PROVE  MemoryInv' /\ \A q \in Runs : GoodRun(q)'
<1> DEFINE run == runs[r]
           new == [run EXCEPT !.pc = "started", !.preparation = {p},
                              !.sandbox = {s}, !.epoch = restarts]
           id == RunIdFor(p)
<1>1. NonceInv /\ MemoryInv
  BY DEF IInv
<1>2. /\ run.pc = "idle" /\ Step(r, new) /\ prepared[p] # {}
      /\ prepared' = Consumed(p) /\ stored[id] = {p}
      /\ rollbackContents' = [rollbackContents EXCEPT ![id] = {r}]
      /\ UNCHANGED <<trees, stored, cancelledRuns>>
  BY DEF Start, Accepted
<1>3. KeepsInputs
  BY <1>1, <1>2, ConsumedKeepsInputs
<1>4. ~Started(r) /\ RunTypeOK(run) /\ GoodRun(r)
  BY <1>1, <1>2 DEF MemoryInv, IInv, GoodRun, Good
<1>5. /\ Frame(new, run, {"pc", "preparation", "sandbox", "epoch", "maxOperations"})
      /\ new.pc = "started" /\ new.preparation = {p} /\ new.sandbox = {s}
      /\ new.maxOperations = run.maxOperations
  BY <1>4 DEF RunTypeOK, Frame, RunFields
<1> HIDE DEF new
<1>6. RunTypeOK(new)
  BY <1>4, <1>5 DEF RunTypeOK, Frame, RunFields
<1>7. runs'[r] = new /\ \A q \in Runs \ {r} : runs'[q] = runs[q]
  BY <1>1, <1>2 DEF Step, NonceInv
<1>8. Steady
  <2>1. \A q \in Runs : Started(q) => /\ runs'[q].preparation = runs[q].preparation
                                      /\ runs'[q].sandbox = runs[q].sandbox
    BY <1>4, <1>7
  <2> QED BY <1>1, <1>3, <2>1, InputsSteady
<1>9. id \in RunIds
  BY <1>1, <1>2, PreparedInput
<1>10. (Started(r))' /\ RunId(r)' = id
  <2>1. InputOf(p)' = InputOf(p)
    BY <1>2, <1>3 DEF KeepsInputs
  <2>2. The({p}) = p
    BY TheOfSingleton
  <2> QED BY <1>5, <1>7, <2>1, <2>2 DEF Started, RunId, NonceOf, RunIdFor, InputOf
<1>11. ASSUME NEW q \in Runs PROVE GoodRun(q)'
  <2>1. CASE q = r
    <3> DEFINE c == Cancelled(r)
               own == OwnSandbox(r)
               alone == OwnRunId(r)
    <3>1. c \in BOOLEAN /\ own \in BOOLEAN /\ alone \in BOOLEAN
          /\ c' \in BOOLEAN /\ own' \in BOOLEAN /\ alone' \in BOOLEAN
      BY DEF Cancelled, OwnSandbox, OwnRunId
    <3>a. Good(run, Tree(r), Plan(r), c, own, alone)
      BY <1>4 DEF GoodRun
    <3> HIDE DEF c, own, alone
    <3>2. Good(runs'[r], Tree(r)', Plan(r)', c', own', alone')
      BY <1>2, <1>5, <1>6, <1>7, <3>1, <3>a, OpenGood
    <3> QED BY <2>1, <3>2 DEF GoodRun, c, own, alone
  <2>2. CASE q # r
    <3>1. Started(q) => SandboxOf(q)' = SandboxOf(q)
      BY <1>8 DEF Steady
    <3>2. Started(q) => Tree(q)' = Tree(q)
      BY <1>2, <3>1 DEF Tree
    <3> QED BY <1>2, <1>7, <1>8, <2>2, <3>2, OtherGood
  <2> QED BY <2>1, <2>2
<1>12. /\ stored' \in [RunIds -> SUBSET Preparations]
       /\ \A i \in RunIds : \A x \in stored'[i] : prepared'[x] # {}
  BY <1>2, <1>3, StoredStays
<1>13. /\ rollbackContents' \in [RunIds -> SUBSET Runs]
       /\ \A i \in RunIds : /\ i = id => rollbackContents'[i] = {r}
                            /\ i # id => rollbackContents'[i] = rollbackContents[i]
  BY <1>1, <1>2, <1>9 DEF MemoryInv
<1>14. \A i \in RunIds : \A q \in rollbackContents'[i] : (Started(q))' /\ RunId(q)' = i
  BY <1>1, <1>8, <1>10, <1>13 DEF MemoryInv, Steady
<1>15. ASSUME NEW q \in Runs
      PROVE  /\ (Started(q))' => runs'[q].sandbox # {}
             /\ runs'[q].pc = "idle" => ~(Started(q))'
             /\ runs'[q].pc \notin {"idle", "refused"} => (Started(q))'
             /\ (InProgress(q))' => stored'[RunId(q)'] # {} /\ rollbackContents'[RunId(q)'] # {}
             /\ runs'[q].pc = "rollback" =>
                  /\ runs'[q].reads # {}
                  /\ \A x \in runs'[q].reads : (Started(x))' /\ RunId(x)' = RunId(q)'
  <2>2. CASE q = r
    BY <1>2, <1>5, <1>7, <1>9, <1>10, <1>13, <2>2
  <2>3. CASE q # r /\ Started(q)
    <3>1. /\ RunId(q)' = RunId(q) /\ runs'[q] = runs[q] /\ (Started(q))'
          /\ ((InProgress(q))' <=> InProgress(q))
      BY <1>7, <1>8, <2>3 DEF Steady, InProgress
    <3>2. runs[q].reads \subseteq Runs
      BY DEF IInv, GoodRun, Good, RunTypeOK
    <3>3. runs[q].pc = "rollback" =>
             /\ runs[q].reads # {}
             /\ \A x \in runs[q].reads : (Started(x))' /\ RunId(x)' = RunId(q)
      BY <1>1, <1>8, <3>2 DEF MemoryInv, Steady
    <3>4. RunId(q) \in RunIds
      BY <1>1, <2>3, StartedRun DEF IInv
    <3>5. InProgress(q) => rollbackContents'[RunId(q)] # {}
      BY <1>1, <1>13, <3>4 DEF MemoryInv
    <3> QED BY <1>1, <1>2, <2>3, <3>1, <3>3, <3>5 DEF MemoryInv
  <2>4. CASE q # r /\ ~Started(q)
    <3>1. runs[q].pc \in {"idle", "refused"} /\ runs'[q] = runs[q]
      BY <1>1, <1>7, <2>4 DEF MemoryInv
    <3>2. ~(Started(q))'
      BY <2>4, <3>1 DEF Started
    <3> QED BY <3>1, <3>2 DEF InProgress
  <2> QED BY <2>2, <2>3, <2>4
<1> QED BY <1>1, <1>2, <1>11, <1>12, <1>13, <1>14, <1>15 DEF MemoryInv

\* A restart ends the runs in progress and forgets what they need.
LEMMA RestartKeeps ==
    ASSUME IInv, Restart
    PROVE  MemoryInv' /\ \A q \in Runs : GoodRun(q)'
<1>1. NonceInv /\ MemoryInv
  BY DEF IInv
<1>2. /\ \A q \in Runs : runs'[q] = IF InProgress(q)
                                    THEN [runs[q] EXCEPT !.pc = "crashed"] ELSE runs[q]
      /\ UNCHANGED <<prepared, trees>>
      /\ stored' = [id \in RunIds |-> {}] /\ rollbackContents' = [id \in RunIds |-> {}]
  BY DEF Restart
<1>3. KeepsInputs
  BY <1>1, <1>2, UnchangedInputs
<1>4. ASSUME NEW q \in Runs
      PROVE  /\ InProgress(q) => /\ Frame(runs'[q], runs[q], {"pc", "faults"})
                                 /\ runs'[q].pc = "crashed"
             /\ ~InProgress(q) => runs'[q] = runs[q]
             /\ runs'[q].preparation = runs[q].preparation
             /\ runs'[q].sandbox = runs[q].sandbox
  <2>1. CASE InProgress(q)
    <3>1. runs'[q] = [runs[q] EXCEPT !.pc = "crashed"] /\ DOMAIN runs[q] = RunFields
      BY <1>2, <2>1, RunContext
    <3>2. Frame(runs'[q], runs[q], {"pc", "faults"}) /\ runs'[q].pc = "crashed"
      BY <3>1 DEF Frame, RunFields
    <3> QED BY <2>1, <3>2 DEF Frame, RunFields
  <2>2. CASE ~InProgress(q)
    BY <1>2, <2>2
  <2> QED BY <2>1, <2>2
<1>5. Steady
  BY <1>1, <1>3, <1>4, InputsSteady
<1>6. ASSUME NEW q \in Runs PROVE GoodRun(q)'
  <2>1. CASE InProgress(q)
    <3> DEFINE c == Cancelled(q)
               own == OwnSandbox(q)
               alone == OwnRunId(q)
    <3>1. c \in BOOLEAN /\ own \in BOOLEAN /\ alone \in BOOLEAN
          /\ c' \in BOOLEAN /\ own' \in BOOLEAN /\ alone' \in BOOLEAN
      BY DEF Cancelled, OwnSandbox, OwnRunId
    <3> HIDE DEF c, own, alone
    <3>2. RunTypeOK(runs[q]) /\ Frame(runs'[q], runs[q], {"pc", "faults"})
          /\ runs'[q].pc = "crashed"
      BY <1>4, <2>1, RunContext
    <3>3. Good(runs'[q], Tree(q)', Plan(q)', c', own', alone')
      BY <3>1, <3>2, EndsGood
    <3> QED BY <3>3 DEF GoodRun, c, own, alone
  <2>2. CASE ~InProgress(q)
    <3>1. Started(q) => SandboxOf(q)' = SandboxOf(q)
      BY <1>5 DEF Steady
    <3>2. Started(q) => Tree(q)' = Tree(q)
      BY <1>2, <3>1 DEF Tree
    <3> QED BY <1>4, <1>5, <2>2, <3>2, OtherGood
  <2> QED BY <2>1, <2>2
<1>7. ASSUME NEW q \in Runs
      PROVE  /\ (Started(q))' => runs'[q].sandbox # {}
             /\ runs'[q].pc = "idle" => ~(Started(q))'
             /\ runs'[q].pc \notin {"idle", "refused"} => (Started(q))'
             /\ ~(InProgress(q))'
  <2>1. (Started(q))' <=> Started(q)
    BY <1>4 DEF Started
  <2>2. CASE InProgress(q)
    <3>1. Started(q) /\ runs[q].sandbox # {}
      BY <1>1, <2>2 DEF MemoryInv, InProgress
    <3> QED BY <1>4, <2>1, <2>2, <3>1 DEF InProgress
  <2>3. CASE ~InProgress(q)
    BY <1>1, <1>4, <2>1, <2>3 DEF MemoryInv, InProgress
  <2> QED BY <2>2, <2>3
<1>8. \A q \in Runs : runs'[q].pc # "rollback"
  BY <1>7 DEF InProgress
<1> QED BY <1>1, <1>2, <1>6, <1>7, <1>8 DEF MemoryInv

-----------------------------------------------------------------------------
(* The theorems *)

\* The service starts with nothing prepared, stored or run.
LEMMA InitIInv ==
    ASSUME Init
    PROVE  IInv
<1>1. NonceInv
  BY InitNonceInv
<1>2. trees \in [SandboxIds -> Sound]
  BY ApplyAssumption DEF Init, Sound
<1>3. ASSUME NEW r \in Runs PROVE runs[r] = NewRun
  BY <1>3 DEF Init
<1>4. RunTypeOK(NewRun)
  BY DEF NewRun, RunTypeOK, RunFields, PriorContents
<1>5. ASSUME NEW r \in Runs
      PROVE  GoodRun(r) /\ ~Started(r) /\ ~InProgress(r)
             /\ runs[r].pc = "idle" /\ runs[r].pc # "rollback"
  <2>1. runs[r].pc = "idle" /\ ~Started(r) /\ ~InProgress(r)
    BY <1>3 DEF NewRun, Started, InProgress
  <2>2. Control(runs[r], Plan(r), Cancelled(r))
    BY <1>3 DEF NewRun, Control, Untouched
  <2>3. /\ Outcome(runs[r], Tree(r), Plan(r)) /\ Telling(runs[r], Tree(r), Plan(r))
        /\ Undoing(runs[r], Tree(r), Plan(r))
    BY <2>1 DEF Outcome, Telling, Undoing
  <2> QED BY <1>3, <1>4, <2>1, <2>2, <2>3 DEF GoodRun, Good
<1>6. /\ stored \in [RunIds -> SUBSET Preparations]
      /\ \A id \in RunIds : stored[id] = {} /\ rollbackContents[id] = {}
      /\ rollbackContents \in [RunIds -> SUBSET Runs]
  BY DEF Init
<1>7. MemoryInv
  BY <1>2, <1>5, <1>6 DEF MemoryInv
<1> QED BY <1>1, <1>5, <1>7 DEF IInv

\* Every step keeps the invariant.
LEMMA NextIInv ==
    ASSUME IInv, [Next]_vars
    PROVE  IInv'
<1>1. NonceInv'
  BY NextNonceInv, ApplyAssumption DEF IInv
<1>2. CASE \E p \in Preparations, input \in Inputs : Prepare(p, input)
  BY <1>1, <1>2, PrepareQuiet DEF IInv
<1>3. CASE \/ \E id \in RunIds : Cancel(id) \/ Rollback(id)
           \/ Tick
           \/ UNCHANGED vars
  BY <1>1, <1>3, ElseQuiet DEF IInv
<1>4. ASSUME NEW r \in Runs, NEW p \in Preparations, Refuse(r, p) \/ RefuseConsumed(r, p)
      PROVE  IInv'
  BY <1>1, <1>4, RefuseKeeps DEF IInv
<1>5. ASSUME NEW r \in Runs, NEW p \in Preparations, NEW s \in SandboxIds, Start(r, p, s)
      PROVE  IInv'
  BY <1>1, <1>5, StartKeeps DEF IInv
<1>6. ASSUME NEW r \in Runs, RunStep(r) \/ TimeOut(r)
      PROVE  IInv'
  BY <1>1, <1>6, RunStepGood DEF IInv
<1>7. CASE Restart
  BY <1>1, <1>7, RestartKeeps DEF IInv
<1> QED BY <1>2, <1>3, <1>4, <1>5, <1>6, <1>7 DEF Next

\* Where there is a record of a path there is a first one.
LEMMA FirstRecord ==
    ASSUME NEW S \in SUBSET Nat, S # {}
    PROVE  \E i \in S : \A j \in S : i <= j
<1>1. PICK i \in S : \A j \in Nat : <<j, i>> \in OpToRel(<, Nat) => j \notin S
  BY NatLessThanWellFounded, WFMin
<1>2. ASSUME NEW j \in S PROVE i <= j
  <2>1. ~ (j < i)
    BY <1>1 DEF OpToRel
  <2> QED BY <2>1
<1> QED BY <1>2

\* The result of a run in the invariant.
LEMMA GoodTellsOutcome ==
    ASSUME IInv
    PROVE  AllOrNothing
<1> SUFFICES ASSUME NEW r \in Runs, runs[r].pc = "returned", OwnSandbox(r)
             PROVE  /\ runs[r].status = "applied" => Applied(r)
                    /\ runs[r].status = "rolled-back" => Tree(r) = Before(r)
                    /\ ~runs[r].rollbackFailed => Tree(r) = Before(r) \/ Applied(r)
  BY DEF AllOrNothing
<1>1. Good(runs[r], Tree(r), Plan(r), Cancelled(r), OwnSandbox(r), OwnRunId(r))
  BY DEF IInv, GoodRun
<1>2. /\ runs[r].status = "applied" => ~runs[r].rolledBack
      /\ runs[r].status = "rolled-back" => runs[r].rolledBack /\ ~runs[r].rollbackFailed
  BY <1>1 DEF Good, Control
<1>3. IF runs[r].rolledBack THEN runs[r].rollbackFailed \/ Tree(r) = The(runs[r].before)
      ELSE CarriedOut(Tree(r), The(runs[r].before), Plan(r), Len(Plan(r)))
  BY <1>1 DEF Good, Outcome
<1>4. runs[r].rolledBack \in BOOLEAN /\ runs[r].rollbackFailed \in BOOLEAN
  BY <1>1 DEF Good, RunTypeOK
<1> QED BY <1>2, <1>3, <1>4 DEF Applied, Before

\* The rollback of a run in the invariant.
LEMMA GoodRollbacks ==
    ASSUME IInv
    PROVE  RollbackSucceeds
<1> SUFFICES ASSUME NEW r \in Runs, runs[r].pc \in {"closing", "returned"},
                    OwnSandbox(r), OwnRunId(r), Fits(r), runs[r].faults = {}, ~Refused(r)
             PROVE  ~runs[r].rollbackFailed
  BY DEF RollbackSucceeds
<1>1. Good(runs[r], Tree(r), Plan(r), Cancelled(r), OwnSandbox(r), OwnRunId(r))
  BY DEF IInv, GoodRun
<1>2. Unlimited(runs[r])
  BY <1>1 DEF Unlimited, Refused, Good, RunTypeOK
<1>3. FitsIn(Plan(r), The(runs[r].before))
  BY DEF Fits, FitsIn, Before
<1> QED BY <1>1, <1>2, <1>3 DEF Good, Undoing

\* The records left account for every difference, whichever removals of the
\* next one have been made.
LEMMA LeftAccounted ==
    ASSUME NEW plan, NEW before, NEW tree, NEW n \in Nat, n > 0, NEW some,
           Accounted(plan, before, tree, n - 1, some \cap Ancestors[plan[n].path],
                     some \cap {plan[n].path})
    PROVE  Accounted(plan, before, tree, n, {}, {})
<1>1. n \in 1..n /\ \A i \in 1..(n - 1) : i \in 1..n
  OBVIOUS
<1>2. ASSUME NEW q \in Paths, tree[q] = Directory, before[q] # Directory
      PROVE  before[q] = Absent /\ \E i \in 1..n : q \in Ancestors[plan[i].path]
  BY <1>1, <1>2 DEF Accounted
<1>3. ASSUME NEW q \in Paths, tree[q] # Directory, tree[q] # before[q]
      PROVE  \E i \in 1..n : q = plan[i].path
  BY <1>1, <1>3 DEF Accounted
<1> QED BY <1>2, <1>3 DEF Accounted

\* The records of a run in the invariant: the first record of a file that
\* differs is the one with its content before the run.
LEMMA GoodRecords ==
    ASSUME IInv
    PROVE  DifferencesRecorded
<1> SUFFICES ASSUME NEW r \in Runs,
                    runs[r].pc \in {"looping", "captured", "looped", "rollback"},
                    OwnSandbox(r), Fits(r), runs[r].faults = {},
                    runs[r].pc = "rollback" => OwnRunId(r) /\ ~Refused(r),
                    NEW p \in Paths, Tree(r)[p] # Before(r)[p]
             PROVE  \/ \E i \in RecordsOf(r, p) :
                        /\ \A j \in RecordsOf(r, p) : i <= j
                        /\ runs[r].priors[i] = Before(r)[p]
                    \/ /\ Before(r)[p] = Absent /\ Tree(r)[p] = Directory
                       /\ \E i \in 1..RecordsLeft(r) : p \in Ancestors[Plan(r)[i].path]
  BY DEF DifferencesRecorded
<1> DEFINE run == runs[r]
           plan == Plan(r)
           before == The(run.before)
           tree == Tree(r)
           left == RecordsLeft(r)
           records == RecordsOf(r, p)
<1>1. Good(run, tree, plan, Cancelled(r), OwnSandbox(r), OwnRunId(r))
  BY DEF IInv, GoodRun
<1>2. RunTypeOK(run) /\ Control(run, plan, Cancelled(r)) /\ Telling(run, tree, plan)
      /\ (OwnRunId(r) => Undoing(run, tree, plan))
  BY <1>1 DEF Good
<1>3. FitsIn(plan, before) /\ (run.pc = "rollback" => Unlimited(run))
  BY <1>2 DEF Fits, FitsIn, Before, Unlimited, Refused, RunTypeOK
<1>4. left \in Nat /\ left <= Len(run.priors) /\ Len(run.priors) \in Nat
  BY <1>2 DEF RunTypeOK, Control, RecordsLeft
<1>5. Kept(plan, before, run.priors)
  BY <1>2, <1>3 DEF Telling
<1>6. Accounted(plan, before, tree, left, {}, {})
  <2>1. CASE run.pc # "rollback"
    BY <1>2, <1>3, <2>1 DEF Telling, RecordsLeft
  <2>2. CASE run.pc = "rollback"
    <3>1. AtRecord(run, tree, plan)
      BY <1>2, <1>3, <2>2 DEF Undoing
    <3>2. run.pending \in Nat /\ left = run.pending
      BY <1>2, <2>2 DEF RunTypeOK, RecordsLeft
    <3> QED BY <3>1, <3>2, LeftAccounted DEF AtRecord
  <2> QED BY <2>1, <2>2
<1>7. CASE tree[p] = Directory
  BY <1>6, <1>7 DEF Accounted, Before
<1>8. CASE tree[p] # Directory
  <2>1. records \in SUBSET Nat /\ records # {}
    BY <1>4, <1>6, <1>8 DEF Accounted, Before, RecordsOf
  <2>2. PICK i \in records : \A j \in records : i <= j
    BY <2>1, FirstRecord
  <2>3. i \in 1..Len(run.priors) /\ plan[i].path = p
    BY <1>4, <2>2 DEF RecordsOf
  <2>4. \A j \in 1..(i - 1) : plan[j].path # plan[i].path
    <3> SUFFICES ASSUME NEW j \in 1..(i - 1), plan[j].path = p PROVE FALSE
      BY <2>3
    <3>1. j \in records
      BY <1>4, <2>2 DEF RecordsOf
    <3>2. i <= j /\ i \in Nat
      BY <2>1, <2>2, <3>1
    <3> QED BY <3>2
  <2>5. run.priors[i] = before[p]
    BY <1>5, <2>3, <2>4 DEF Kept
  <2> QED BY <2>2, <2>5 DEF Before
<1> QED BY <1>7, <1>8

\* The result tells what is in the sandbox: applied that the whole plan was
\* carried out, rolled-back that nothing of it is left, and recoverable one or
\* the other, whatever fails or is refused and whoever shares the run id.
THEOREM OutcomesAreWhole == Spec => []AllOrNothing
<1>1. Init => IInv
  BY InitIInv
<1>2. IInv /\ [Next]_vars => IInv'
  BY NextIInv
<1>3. IInv => AllOrNothing
  BY GoodTellsOutcome
<1> QED BY <1>1, <1>2, <1>3, PTL DEF Spec

\* The records kept for a rollback account for every difference it has to undo.
THEOREM RecordsSuffice == Spec => []DifferencesRecorded
<1>1. Init => IInv
  BY InitIInv
<1>2. IInv /\ [Next]_vars => IInv'
  BY NextIInv
<1>3. IInv => DifferencesRecorded
  BY GoodRecords
<1> QED BY <1>1, <1>2, <1>3, PTL DEF Spec

\* A rollback within its limits, in a sandbox and under a run id of its own,
\* undoes what was done.
THEOREM RollbacksUndo == Spec => []RollbackSucceeds
<1>1. Init => IInv
  BY InitIInv
<1>2. IInv /\ [Next]_vars => IInv'
  BY NextIInv
<1>3. IInv => RollbackSucceeds
  BY GoodRollbacks
<1> QED BY <1>1, <1>2, <1>3, PTL DEF Spec

=============================================================================
