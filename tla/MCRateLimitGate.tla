-------------------------- MODULE MCRateLimitGate --------------------------
(***************************************************************************)
(* One host, three requests on the wire at a time.  With a fallback of 2   *)
(* and a maximum of 5 ticks the delays of consecutive failures are 2..3,   *)
(* 4..5 and 5 (capped), so jitter, doubling and the cap all occur before   *)
(* the clock stops.                                                        *)
(***************************************************************************)
EXTENDS RateLimitGate

CONSTANTS h1, r1, r2, r3

MCHosts == {h1}
MCRequests == {r1, r2, r3}
MCHostOf == [r \in MCRequests |-> h1]
MCHeaderDelays == {0, 3}
MCHeaderDates == {1, 6}

=============================================================================
