-------------------------- MODULE ReadOnlyGateway --------------------------
(***************************************************************************)
(* ReadOnlyToolGateway.call and kill (read-only-gateway.ts) over the       *)
(* run-grant ledger.  A call runs without a break up to its one await, the *)
(* race between the provider's answer and the abort; everything after the  *)
(* await is one more step.  In between, other calls, the caller's signal,  *)
(* the timer, the kill switch, the passing of time and the issuer of the   *)
(* grant all may act.                                                      *)
(*                                                                         *)
(* Tool inventory, consent and input are data of the call: what the checks *)
(* of them may refuse it for is one of RefusalCodes.                       *)
(***************************************************************************)
EXTENDS RunGrants, Sequences

CONSTANTS
    Calls,       \* the invocations of call()
    RefusalCodes,\* the codes of the checks of inventory, tool, consent, input
    Deadlines,   \* the deadlines a call may carry
    MaxTimer,    \* the longest delay setTimeout honours
    MaxAnswer,   \* bound: the longest answer, in bytes
    SinkMayFail  \* whether appending to the audit sink may throw

ASSUME ReadOnlyGatewayAssumption ==
    /\ RefusalCodes \subseteq {"INVENTORY_INVALID", "INVENTORY_CHANGED",
           "TOOL_DENIED", "CONSENT_DENIED", "INPUT_SCHEMA_FAILED"}
    /\ Deadlines \subseteq Nat

VARIABLES
    killed,  \* #killed
    calls    \* the local state of each invocation

gatewayVars == <<killed, calls>>

vars == <<grantVars, gatewayVars>>

AbortCodes == {"CALL_CANCELLED", "CALL_TIMED_OUT", "KILL_SWITCH"}

\* What the awaited race has come to: nothing yet, the abort, or the answer
\* of the provider (an error, an output its schema refuses, or an output).
Pending == [kind |-> "pending", bytes |-> 0]
Aborted == [kind |-> "aborted", bytes |-> 0]
Answers ==
    {[kind |-> "error", bytes |-> 0], [kind |-> "invalid", bytes |-> 0]}
        \cup [kind : {"output"}, bytes : 0..MaxAnswer]

NewCall ==
    [pc |-> "new", reservation |-> {}, deadline |-> {}, startedAt |-> 0,
     race |-> Pending, abortReason |-> {}, events |-> <<>>]

-----------------------------------------------------------------------------
(* Pieces of call() *)

\* A member of #activeCalls: registered before the await, removed at the end.
InFlight(c) == calls[c].pc \in {"admitted", "calling"}

ReservationOf(c) == CHOOSE r \in calls[c].reservation : TRUE

\* event(code), after which the caller goes on; or the append throws.
Recorded(code) == {<<code>>} \cup IF SinkMayFail THEN {<<>>} ELSE {}

\* activeCall.abort(reason): only the first reason counts, and it rejects the
\* race unless the provider's answer has won it already.
WithAbort(call, code) ==
    IF call.abortReason # {} THEN call
    ELSE [call EXCEPT !.abortReason = {code},
                      !.race = IF @ = Pending THEN Aborted ELSE @]

\* Mutant: the abort and kill checks after the await are dropped.
AnswerVerdictUnguarded(c) ==
    IF ~Authorized(ReservationOf(c).grantId, clock)
       THEN "AUTHORIZATION_CHANGED"
    ELSE IF calls[c].race.kind = "invalid" THEN "OUTPUT_SCHEMA_FAILED"
    ELSE IF calls[c].race.bytes > ReservationOf(c).maxResponseBytes
       THEN "OVERSIZED"
    ELSE "TOOL_CALLED"

AbortReason(c) == CHOOSE code \in calls[c].abortReason : TRUE

\* What the code decides about an output, in the order it checks.
AnswerVerdict(c) ==
    IF calls[c].abortReason # {} THEN AbortReason(c)
    ELSE IF killed THEN "KILL_SWITCH"
    ELSE IF ~Authorized(ReservationOf(c).grantId, clock)
       THEN "AUTHORIZATION_CHANGED"
    ELSE IF calls[c].race.kind = "invalid" THEN "OUTPUT_SCHEMA_FAILED"
    ELSE IF calls[c].race.bytes > ReservationOf(c).maxResponseBytes
       THEN "OVERSIZED"
    ELSE "TOOL_CALLED"

\* Mutant: an aborted call reports the kill switch whenever it is on.
VerdictPrefersKill(c) ==
    IF calls[c].race = Aborted
       THEN IF killed THEN "KILL_SWITCH" ELSE AbortReason(c)
    ELSE IF calls[c].race.kind = "error" THEN "PROVIDER_FAILED"
    ELSE AnswerVerdict(c)

\* What ends the call once the race is decided.
Verdict(c) ==
    IF calls[c].race = Aborted THEN AbortReason(c)
    ELSE IF calls[c].race.kind = "error" THEN "PROVIDER_FAILED"
    ELSE AnswerVerdict(c)

-----------------------------------------------------------------------------
(* The synchronous part of call(): the checks that refuse it, or admission *)

Refuse(c, code) ==
    /\ calls[c].pc = "new"
    /\ \E events \in Recorded(code) :
          calls' = [calls EXCEPT ![c].pc = "failed", ![c].events = events]
    /\ UNCHANGED <<grantVars, killed>>

RefuseKilled(c) == killed /\ Refuse(c, "KILL_SWITCH")

\* The caller's signal was aborted, or the deadline malformed or past.
RefuseEntry(c) ==
    /\ ~killed
    /\ \/ Refuse(c, "CALL_CANCELLED")
       \/ Refuse(c, "DEADLINE_INVALID")
       \/ (\E d \in Deadlines : d <= clock) /\ Refuse(c, "CALL_TIMED_OUT")

RefuseGrant(c, g) ==
    /\ ~killed
    /\ ~Authorized(g, clock)
    /\ Refuse(c, "GRANT_DENIED")

RefuseRequest(c, g) ==
    /\ ~killed
    /\ Authorized(g, clock)
    /\ \E code \in RefusalCodes : Refuse(c, code)

\* reserveCall throws, and nothing catches it: no audit event.
RefuseQuota(c, g) ==
    /\ calls[c].pc = "new"
    /\ ~killed
    /\ Authorized(g, clock)
    /\ ~CanReserve(records[g])
    /\ calls' = [calls EXCEPT ![c].pc = "failed"]
    /\ UNCHANGED <<grantVars, killed>>

Admit(c, g, id, deadline) ==
    /\ calls[c].pc = "new"
    /\ ~killed
    /\ \A d \in deadline : clock < d
    /\ ReserveCall(g, id)
    /\ calls' = [calls EXCEPT ![c] =
                    [@ EXCEPT !.pc = "admitted",
                              !.reservation = {NewReservation(g, id)},
                              !.deadline = deadline,
                              !.startedAt = clock]]
    /\ UNCHANGED killed

-----------------------------------------------------------------------------
(* While the call awaits the race *)

\* The microtask that invokes the provider, queued when the call was
\* admitted: it runs whatever happened since.
Dispatch(c) ==
    /\ calls[c].pc = "admitted"
    /\ calls' = [calls EXCEPT ![c].pc = "calling"]
    /\ UNCHANGED <<grantVars, killed>>

\* The provider's answer; one that comes after the abort is ignored.
ProviderAnswers(c, answer) ==
    /\ calls[c].pc = "calling"
    /\ calls[c].race = Pending
    /\ calls' = [calls EXCEPT ![c].race = answer]
    /\ UNCHANGED <<grantVars, killed>>

CallerAborts(c) ==
    /\ InFlight(c)
    /\ calls' = [calls EXCEPT ![c] = WithAbort(@, "CALL_CANCELLED")]
    /\ UNCHANGED <<grantVars, killed>>

\* Mutant: the timer signals the provider and leaves the race to it.
TimerSignalsOnly(c) ==
    /\ calls[c].pc = "calling"
    /\ \E d \in calls[c].deadline : clock >= d
    /\ calls[c].abortReason = {}
    /\ calls' = [calls EXCEPT ![c].abortReason = {"CALL_TIMED_OUT"}]
    /\ UNCHANGED <<grantVars, killed>>

\* A delay setTimeout cannot represent fires at once.
TimerFires(c) ==
    /\ calls[c].pc = "calling"
    /\ \E d \in calls[c].deadline :
          clock >= d \/ d - calls[c].startedAt > MaxTimer
    /\ calls[c].abortReason = {}
    /\ calls' = [calls EXCEPT ![c] = WithAbort(@, "CALL_TIMED_OUT")]
    /\ UNCHANGED <<grantVars, killed>>

\* Mutant: the switch only refuses new calls.
KillNewCallsOnly ==
    /\ ~killed
    /\ killed' = TRUE
    /\ UNCHANGED <<grantVars, calls>>

Kill ==
    /\ ~killed
    /\ killed' = TRUE
    /\ calls' = [c \in Calls |->
                    IF InFlight(c) THEN WithAbort(calls[c], "KILL_SWITCH")
                    ELSE calls[c]]
    /\ UNCHANGED grantVars

-----------------------------------------------------------------------------
(* After the await: commit and return, or release and throw *)

CanFinish(c) == calls[c].pc = "calling" /\ calls[c].race # Pending

\* The answer is charged, then recorded.  If the sink throws, the charge
\* stands and the caller gets an error, recorded as the provider's if it can.
Return(c) ==
    /\ CanFinish(c)
    /\ Verdict(c) = "TOOL_CALLED"
    /\ LET r == ReservationOf(c) IN
          CommitCall(r.grantId, r, calls[c].race.bytes)
    /\ \/ calls' = [calls EXCEPT ![c].pc = "returned",
                                 ![c].events = <<"TOOL_CALLED">>]
       \/ /\ SinkMayFail
          /\ \E events \in Recorded("PROVIDER_FAILED") :
                calls' = [calls EXCEPT ![c].pc = "failed",
                                       ![c].events = events]
    /\ UNCHANGED killed

\* Mutant: the reservation of a failed call is not released.
FailKeepsReservation(c) ==
    /\ CanFinish(c)
    /\ Verdict(c) # "TOOL_CALLED"
    /\ calls' = [calls EXCEPT ![c].pc = "failed"]
    /\ UNCHANGED <<grantVars, killed>>

\* What the audit may hold of a failed call.  An output over the reservation
\* makes commitCall throw a TypeError, recorded nowhere.  An output of the
\* wrong shape is recorded inside the try: if that append throws, the catch
\* takes it for an error of the provider and appends once more.  All else is
\* recorded by the catch, and an append that throws there is the last one.
FailureRecords(code) ==
    IF code = "OVERSIZED" THEN {<<>>}
    ELSE IF code = "OUTPUT_SCHEMA_FAILED" /\ SinkMayFail
       THEN {<<code>>} \cup Recorded("PROVIDER_FAILED")
    ELSE Recorded(code)

\* However the appends end, the catch releases the reservation.
Fail(c) ==
    /\ CanFinish(c)
    /\ Verdict(c) # "TOOL_CALLED"
    /\ LET r == ReservationOf(c) IN ReleaseCall(r.grantId, r)
    /\ \E events \in FailureRecords(Verdict(c)) :
          calls' = [calls EXCEPT ![c].pc = "failed", ![c].events = events]
    /\ UNCHANGED killed

\* The issuer of the grant, and the clock, go on meanwhile.
Environment ==
    /\ \/ \E g \in GrantIds, q \in Requests : Issue(g, q)
       \/ \E g \in GrantIds : Revoke(g) \/ Consume(g) \/ Expire(g)
       \/ Tick
    /\ UNCHANGED gatewayVars

GatewayInit ==
    /\ Init
    /\ killed = FALSE
    /\ calls = [c \in Calls |-> NewCall]

GatewayNext ==
    \/ \E c \in Calls :
        \/ RefuseKilled(c)
        \/ RefuseEntry(c)
        \/ \E g \in GrantIds :
            \/ RefuseGrant(c, g)
            \/ RefuseRequest(c, g)
            \/ RefuseQuota(c, g)
            \/ \E id \in ReservationIds,
                  deadline \in {{}} \cup {{d} : d \in Deadlines} :
                     Admit(c, g, id, deadline)
        \/ Dispatch(c)
        \/ \E answer \in Answers : ProviderAnswers(c, answer)
        \/ CallerAborts(c)
        \/ TimerFires(c)
        \/ Return(c)
        \/ Fail(c)
    \/ Kill
    \/ Environment

\* The event loop runs queued microtasks and due timers, and time passes;
\* the provider, the caller and the issuer owe nothing.
GatewayFairness ==
    /\ \A c \in Calls :
        /\ WF_vars(Dispatch(c))
        /\ WF_vars(TimerFires(c))
        /\ WF_vars(Return(c) \/ Fail(c))
    /\ WF_vars(Tick /\ UNCHANGED gatewayVars)

GatewaySpec == GatewayInit /\ [][GatewayNext]_vars /\ GatewayFairness

-----------------------------------------------------------------------------
(* Properties *)

\* The ledger agrees with the calls.  Whatever ends a call (its answer, an
\* error of the provider, the caller, the timer, the kill switch, a
\* revocation, a failing audit sink), its reservation is settled exactly then:
\* the open reservations are those of the calls in flight, one each.  An
\* output is handed to the caller only if it was charged, and a charged call
\* reached its provider and fails only when the audit sink does.
LedgerTellsCalls ==
    /\ reservations = UNION {calls[c].reservation : c \in
                                {x \in Calls : InFlight(x)}}
    /\ \A c \in Calls :
        LET charged == \E x \in charges : {x.reservation} = calls[c].reservation
        IN  /\ \A d \in Calls \ {c} :
                  calls[c].reservation \cap calls[d].reservation = {}
            /\ calls[c].pc = "returned" => charged
            /\ charged =>
                  /\ calls[c].race.kind = "output"
                  /\ \/ calls[c].pc = "returned"
                     \/ SinkMayFail /\ calls[c].pc = "failed"

\* What the audit says of a call is what happened to it: TOOL_CALLED exactly
\* for a charged answer, an abort code exactly for that first abort reason,
\* a refusal before admission only for a call that reserved nothing, and a
\* timeout of an admitted call only once its deadline has passed, unless the
\* delay to it is longer than a timer can be set for.
AuditTellsOutcome ==
    \A c \in Calls : \A code \in {calls[c].events[i] : i \in
                                     1..Len(calls[c].events)} :
        /\ code = "TOOL_CALLED" <=> calls[c].pc = "returned"
        /\ code \in AbortCodes /\ calls[c].reservation # {} =>
              calls[c].abortReason = {code}
        /\ code \in RefusalCodes \cup {"GRANT_DENIED", "DEADLINE_INVALID"}
              => calls[c].reservation = {}
        /\ code = "CALL_TIMED_OUT" /\ calls[c].reservation # {} =>
              \E d \in calls[c].deadline :
                  clock >= d \/ d - calls[c].startedAt > MaxTimer

\* Nothing is charged and nothing is admitted once the kill switch is on, and
\* it stays on: not even for a call whose answer had already won the race.
KillIsFinal ==
    [][killed => /\ killed'
                 /\ charges' = charges
                 /\ handles' = handles]_vars

\* The kill switch ends every call in flight and frees what it reserved,
\* however the providers behave.
KillDrains == killed ~> reservations = {}

\* A call with a deadline ends, even if its provider never answers.
DeadlineEndsCall ==
    \A c \in Calls :
        (InFlight(c) /\ calls[c].deadline # {}) ~> ~InFlight(c)
=============================================================================
