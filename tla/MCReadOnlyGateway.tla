------------------------- MODULE MCReadOnlyGateway -------------------------
(***************************************************************************)
(* ReadOnlyGateway with two calls on one grant.                            *)
(***************************************************************************)
EXTENDS ReadOnlyGateway

CONSTANTS c1, c2, g1, r1, r2

Quota(count, total) ==
    [maxCalls |-> count, maxResponseBytes |-> 2,
     maxTotalResponseBytes |-> total, issuedAt |-> 0, expiresAt |-> 1]

\* Either two calls fit, and the second may only reserve the byte the first
\* left; or one call takes the whole quota.
MCRequests == {Quota(2, 3), Quota(1, 2)}
=============================================================================
