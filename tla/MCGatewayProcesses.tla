------------------------- MODULE MCGatewayProcesses -------------------------
(***************************************************************************)
(* GatewayProcesses: three processes, one grant, two reservations.         *)
(***************************************************************************)
EXTENDS GatewayProcesses, TLC

CONSTANTS p1, p2, p3, g1, r1, r2

MCAuditCodes ==
    {"GRANT_DENIED", "PROVIDER_FAILED", "AUTHORIZATION_CHANGED", "TOOL_CALLED"}

Quota(calls, bytes, total) ==
    [maxCalls |-> calls, maxResponseBytes |-> bytes,
     maxTotalResponseBytes |-> total, issuedAt |-> 0, expiresAt |-> 1]

\* The second call may reserve the byte the first left; or the first takes the
\* last bytes, or the last call.
MCRequests == {Quota(2, 2, 3), Quota(2, 1, 1), Quota(1, 1, 2)}

Symmetry == Permutations({p1, p2, p3}) \cup Permutations({r1, r2})
=============================================================================
