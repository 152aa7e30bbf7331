---------------------------- MODULE MCRunGrants ----------------------------
(***************************************************************************)
(* RunGrants on two grants and three reservations.                         *)
(***************************************************************************)
EXTENDS RunGrants, TLC

CONSTANTS g1, g2, r1, r2, r3

Quota(calls, bytes, total, from, until) ==
    [maxCalls |-> calls, maxResponseBytes |-> bytes,
     maxTotalResponseBytes |-> total, issuedAt |-> from, expiresAt |-> until]

\* A grant whose bytes run out before its calls, with a last reservation
\* smaller than the per-response limit; one whose calls run out first; and
\* one request issue() refuses (a response larger than the total).
MCRequests ==
    {Quota(3, 2, 3, 0, 2), Quota(2, 1, 4, 1, 2), Quota(1, 2, 1, 0, 2)}

Symmetry == Permutations({g1, g2}) \cup Permutations({r1, r2, r3})
=============================================================================
