---------------------------- MODULE EgressLease ----------------------------
(***************************************************************************)
(* What an egress.Lease promises to whoever acquired it: it is acquired    *)
(* once, its context ends when the lease is lost or closed and never comes *)
(* back, and closed is the end of it.  The context a lease was acquired    *)
(* under may end with or without the lease being closed, and may be shared *)
(* by several leases.                                                      *)
(***************************************************************************)
CONSTANT Leases

VARIABLE state  \* of each lease: "unused", "live", "lost" (its context ended) or "closed"

Init == state = [l \in Leases |-> "unused"]

\* The context given to acquire may have ended already.
Acquire(l) ==
  /\ state[l] = "unused"
  /\ \E s \in {"live", "lost"} : state' = [state EXCEPT ![l] = s]

\* The leases in shut are closed and those in ended lose their context; a
\* second Close of a lease does nothing.
End(shut, ended) ==
  /\ \A l \in shut : state[l] # "unused"
  /\ \A l \in ended : state[l] = "live"
  /\ state' = [l \in Leases |-> IF l \in shut THEN "closed"
                                ELSE IF l \in ended THEN "lost" ELSE state[l]]

Next == (\E l \in Leases : Acquire(l)) \/ (\E shut, ended \in SUBSET Leases : End(shut, ended))

Spec == Init /\ [][Next]_state
=============================================================================
