---------------------------- MODULE MCSoxyLease ----------------------------
(***************************************************************************)
(* Instances of SoxyLease for TLC: a scan and a session that compete for   *)
(* the slots, a direct lease, and two concurrent reports on the scan.      *)
(***************************************************************************)
EXTENDS SoxyLease, TLC

CONSTANTS l1, l2, l3, s1, s2, r1, r2, r3

KindAll == l1 :> "scan" @@ l2 :> "session" @@ l3 :> "direct"
KindSoxy == l1 :> "scan" @@ l2 :> "session"
AboutAll == r1 :> l1 @@ r2 :> l1 @@ r3 :> l3
AboutScan == r1 :> l1 @@ r2 :> l1

SlotSymmetry == Permutations(Slots)
=============================================================================
