-------------------------- MODULE SoxyLeaseProofs --------------------------
(***************************************************************************)
(* Proofs about SoxyLease for every number of leases, slots and reports.   *)
(* The invariants follow from the inductive invariant LeaseInv, whose      *)
(* parts say which requests may still be under way, what an answer tells   *)
(* about the session in Soxy, which slots a scan has been refused, and     *)
(* when the renewal goroutine and the holder of reportMu are at work.      *)
(***************************************************************************)
EXTENDS SoxyLease, TLAPS

Creates(q, l) == q.op = "create" /\ q.of = l

\* A request that can still be handled belongs to a call that waits for it or
\* gave up on it, and no lease has two creations under way.
RequestInv ==
  /\ \A q \in network, l \in Leases :
       Creates(q, l) => \/ acq[l] = "create" /\ answer[l] = "none"
                        \/ acq[l] = "failed" /\ l \in unanswered /\ failure[l] = "error"
  /\ \A p, q \in network, l \in Leases : Creates(p, l) /\ Creates(q, l) => p = q
  /\ \A q \in network :
       q.op = "release" =>
         /\ session[q.of] # "none"
         /\ \/ acq[q.of] \in {"cleanup", "failed"}
            \/ acq[q.of] = "held" /\ closing[q.of] \in {"releasing", "ok", "error"}
  /\ \A q \in network : q.op = "report" => acq[About[q.by]] = "held" /\ Managed(About[q.by])

\* What the state of a call and the answer it got tell about the session.
SessionInv ==
  \A l \in Leases :
    /\ acq[l] \in {"idle", "list", "choose"} => session[l] = "none"
    /\ acq[l] = "create" => (session[l] = "none" <=> answer[l] \notin {"ready", "unusable"})
    /\ acq[l] = "cleanup" => session[l] # "none"
    /\ acq[l] = "failed" /\ l \notin unanswered => session[l] # "active"
    /\ acq[l] = "held" => (session[l] = "none" <=> ~Managed(l))
    /\ acq[l] = "cleanup" \/ closing[l] = "releasing"
         => (answer[l] \in {"released", "notFound"} => session[l] = "gone")
    /\ closing[l] = "ok" => session[l] # "active"

\* The slots a scan took off its list have been refused, but for the one it tries.
SlotInv ==
  \A l \in Leases :
    /\ acq[l] \in {"list", "idle"} => failure[l] = "none"
    /\ acq[l] = "choose" \/ (acq[l] = "create" /\ answer[l] = "refused")
         => listed[l] \ candidates[l] \subseteq refused[l]
    /\ acq[l] = "create"
         => \A q \in network :
              Creates(q, l) => listed[l] \ candidates[l] \subseteq refused[l] \cup {q.slot}
    /\ Kind[l] # "scan" => listed[l] = {} /\ acq[l] \notin {"list", "choose"}
    /\ failure[l] = "capacity" => acq[l] = "failed" /\ listed[l] \subseteq refused[l]

KeepInv ==
  \A l \in Leases :
    /\ acq[l] \in {"create", "cleanup"} => Managed(l)
    /\ closing[l] \in {"waiting", "releasing"} => Managed(l)
    /\ closing[l] # "none" => acq[l] = "held"
    /\ keep[l] # "none" => acq[l] = "held"
    /\ keep[l] \in {"wait", "extending"} => Managed(l) /\ closing[l] \in {"none", "waiting"}

\* The caller on the wire holds reportMu, and nobody is once a report succeeded.
ReportInv ==
  /\ \A r \in Reporters : reporter[r] # "idle" => acq[About[r]] = "held"
  /\ \A r \in Reporters : reporter[r] \in {"lock", "calling"} => Managed(About[r])
  /\ \A r \in Reporters :
       reporter[r] = "calling" => reportMu[About[r]] = r /\ About[r] \notin quarantined
  /\ \A r \in Reporters : reporter[r] = "reported" => About[r] \in quarantined
  /\ RetiredOnce

LeaseInv == TypeOK /\ RequestInv /\ SessionInv /\ SlotInv /\ KeepInv /\ ReportInv

\* A slot serves a session that is there, no session has two slots, and a
\* creation under way is the first one of its lease.
HolderInv ==
  /\ \A s \in Slots : holder[s] \in Leases => session[holder[s]] = "active"
  /\ \A s, u \in Slots : holder[s] \in Leases /\ holder[s] = holder[u] => s = u
  /\ \A q \in network : q.op = "create" => session[q.of] = "none"

-----------------------------------------------------------------------------
\* The initial state satisfies the inductive invariant.
LEMMA LeaseInvInit == Init => LeaseInv
<1> SUFFICES ASSUME Init PROVE LeaseInv
  OBVIOUS
<1>1. TypeOK
  BY LeaseConstants DEF Init, TypeOK
<1>2. RequestInv
  BY DEF Init, RequestInv, Creates
<1>3. SessionInv
  BY DEF Init, SessionInv
<1>4. SlotInv
  BY DEF Init, SlotInv, Creates
<1>5. KeepInv
  BY DEF Init, KeepInv
<1>6. ReportInv
  BY DEF Init, ReportInv, RetiredOnce
<1> QED
  BY <1>1, <1>2, <1>3, <1>4, <1>5, <1>6 DEF LeaseInv

\* Every step preserves it.
LEMMA LeaseInvNext == LeaseInv /\ [Next]_vars => LeaseInv'
<1> SUFFICES ASSUME LeaseInv, [Next]_vars PROVE LeaseInv'
  OBVIOUS
<1> USE DEF LeaseInv, acquireVars, leaseVars, reportVars, soxyVars
<1>1. ASSUME NEW l \in Leases, AcquireDirect(l) PROVE LeaseInv'
  <2>1. TypeOK'
    BY <1>1 DEF TypeOK, AcquireDirect, NewLease, Forget, Managed
  <2>2. RequestInv'
    BY <1>1 DEF RequestInv, Creates, AcquireDirect, NewLease, Forget, Managed
  <2>3. SessionInv'
    BY <1>1 DEF SessionInv, AcquireDirect, NewLease, Forget, Managed
  <2>4. SlotInv'
    BY <1>1 DEF SlotInv, Creates, AcquireDirect, NewLease, Forget, Managed
  <2>5. KeepInv'
    BY <1>1 DEF KeepInv, AcquireDirect, NewLease, Forget, Managed
  <2>6. ReportInv'
    BY <1>1 DEF ReportInv, RetiredOnce, AcquireDirect, NewLease, Forget, Managed
  <2> QED  BY <2>1, <2>2, <2>3, <2>4, <2>5, <2>6
<1>2. ASSUME NEW l \in Leases, AcquireSession(l) PROVE LeaseInv'
  <2>1. TypeOK'
    BY <1>2 DEF TypeOK, Requests, AcquireSession, SendCreate
  <2>2. RequestInv'
    BY <1>2 DEF RequestInv, Creates, TypeOK, AcquireSession, SendCreate
  <2>3. SessionInv'
    BY <1>2 DEF SessionInv, TypeOK, AcquireSession, SendCreate
  <2>4. SlotInv'
    BY <1>2 DEF SlotInv, Creates, AcquireSession, SendCreate
  <2>5. KeepInv'
    BY <1>2, LeaseConstants DEF KeepInv, TypeOK, Managed, AcquireSession, SendCreate
  <2>6. ReportInv'
    BY <1>2 DEF ReportInv, RetiredOnce, AcquireSession, SendCreate
  <2> QED  BY <2>1, <2>2, <2>3, <2>4, <2>5, <2>6
<1>3. ASSUME NEW l \in Leases, AcquireScan(l) PROVE LeaseInv'
  <2>1. TypeOK'
    BY <1>3 DEF TypeOK, AcquireScan
  <2>2. RequestInv'
    BY <1>3 DEF RequestInv, Creates, AcquireScan
  <2>3. SessionInv'
    BY <1>3 DEF SessionInv, AcquireScan
  <2>4. SlotInv'
    BY <1>3 DEF SlotInv, Creates, AcquireScan
  <2>5. KeepInv'
    BY <1>3 DEF KeepInv, AcquireScan
  <2>6. ReportInv'
    BY <1>3 DEF ReportInv, RetiredOnce, AcquireScan
  <2> QED  BY <2>1, <2>2, <2>3, <2>4, <2>5, <2>6
<1>4. ASSUME NEW l \in Leases, AvailableSlots(l) PROVE LeaseInv'
  <2>1. TypeOK'
    BY <1>4 DEF TypeOK, AvailableSlots, NoProxyCapacity, Available
  <2>2. RequestInv'
    BY <1>4, LeaseConstants DEF RequestInv, Creates, TypeOK, Requests, SessionInv,
       AvailableSlots, NoProxyCapacity, Available
  <2>3. SessionInv'
    BY <1>4 DEF SessionInv, TypeOK, AvailableSlots, NoProxyCapacity, Available
  <2>4. SlotInv'
    BY <1>4 DEF SlotInv, Creates, TypeOK, AvailableSlots, NoProxyCapacity, Available
  <2>5. KeepInv'
    BY <1>4 DEF KeepInv, TypeOK, AvailableSlots, NoProxyCapacity, Available
  <2>6. ReportInv'
    BY <1>4, LeaseConstants DEF ReportInv, RetiredOnce, TypeOK, Managed, AvailableSlots,
       NoProxyCapacity, Available
  <2> QED  BY <2>1, <2>2, <2>3, <2>4, <2>5, <2>6
<1>5. ASSUME NEW l \in Leases, ListingFails(l) PROVE LeaseInv'
  <2>1. TypeOK'
    BY <1>5 DEF TypeOK, ListingFails, FailAcquire, Forget
  <2>2. RequestInv'
    BY <1>5 DEF RequestInv, Creates, ListingFails, FailAcquire, Forget
  <2>3. SessionInv'
    BY <1>5 DEF SessionInv, ListingFails, FailAcquire, Forget
  <2>4. SlotInv'
    BY <1>5 DEF SlotInv, Creates, TypeOK, ListingFails, FailAcquire, Forget
  <2>5. KeepInv'
    BY <1>5 DEF KeepInv, ListingFails, FailAcquire, Forget
  <2>6. ReportInv'
    BY <1>5 DEF ReportInv, RetiredOnce, ListingFails, FailAcquire, Forget
  <2> QED  BY <2>1, <2>2, <2>3, <2>4, <2>5, <2>6
<1>6. ASSUME NEW l \in Leases, ChooseSlot(l) PROVE LeaseInv'
  <2>1. TypeOK'
    BY <1>6 DEF TypeOK, Requests, ChooseSlot, SendCreate
  <2>2. RequestInv'
    BY <1>6 DEF RequestInv, Creates, TypeOK, ChooseSlot, SendCreate
  <2>3. SessionInv'
    BY <1>6 DEF SessionInv, TypeOK, ChooseSlot, SendCreate
  <2>4. SlotInv'
    BY <1>6, LeaseConstants DEF SlotInv, Creates, TypeOK, Managed, KeepInv, RequestInv,
       ChooseSlot, SendCreate
  <2>5. KeepInv'
    BY <1>6 DEF KeepInv, TypeOK, Managed, SlotInv, ChooseSlot, SendCreate
  <2>6. ReportInv'
    BY <1>6 DEF ReportInv, RetiredOnce, ChooseSlot, SendCreate
  <2> QED  BY <2>1, <2>2, <2>3, <2>4, <2>5, <2>6
<1>7. ASSUME NEW l \in Leases, NoSlotLeft(l) PROVE LeaseInv'
  <2>1. TypeOK'
    BY <1>7 DEF TypeOK, NoSlotLeft, NoProxyCapacity
  <2>2. RequestInv'
    BY <1>7 DEF RequestInv, Creates, NoSlotLeft, NoProxyCapacity
  <2>3. SessionInv'
    BY <1>7 DEF SessionInv, NoSlotLeft, NoProxyCapacity
  <2>4. SlotInv'
    BY <1>7 DEF SlotInv, Creates, TypeOK, NoSlotLeft, NoProxyCapacity
  <2>5. KeepInv'
    BY <1>7 DEF KeepInv, NoSlotLeft, NoProxyCapacity
  <2>6. ReportInv'
    BY <1>7 DEF ReportInv, RetiredOnce, NoSlotLeft, NoProxyCapacity
  <2> QED  BY <2>1, <2>2, <2>3, <2>4, <2>5, <2>6
<1>8. ASSUME NEW l \in Leases, Created(l) PROVE LeaseInv'
  <2>1. TypeOK'
    BY <1>8 DEF TypeOK, Created, NewLease, Forget
  <2>2. RequestInv'
    BY <1>8 DEF RequestInv, Creates, Created, NewLease, Forget
  <2>3. SessionInv'
    BY <1>8, LeaseConstants DEF SessionInv, TypeOK, Managed, KeepInv, Created, NewLease,
       Forget
  <2>4. SlotInv'
    BY <1>8 DEF SlotInv, Creates, TypeOK, Created, NewLease, Forget
  <2>5. KeepInv'
    BY <1>8 DEF KeepInv, TypeOK, Created, NewLease, Forget
  <2>6. ReportInv'
    BY <1>8 DEF ReportInv, RetiredOnce, Created, NewLease, Forget
  <2> QED  BY <2>1, <2>2, <2>3, <2>4, <2>5, <2>6
<1>9. ASSUME NEW l \in Leases, CreateRefused(l) PROVE LeaseInv'
  <2>1. TypeOK'
    BY <1>9 DEF TypeOK, CreateRefused
  <2>2. RequestInv'
    BY <1>9 DEF RequestInv, Creates, CreateRefused
  <2>3. SessionInv'
    BY <1>9 DEF SessionInv, CreateRefused
  <2>4. SlotInv'
    BY <1>9 DEF SlotInv, Creates, CreateRefused
  <2>5. KeepInv'
    BY <1>9 DEF KeepInv, CreateRefused
  <2>6. ReportInv'
    BY <1>9 DEF ReportInv, RetiredOnce, CreateRefused
  <2> QED  BY <2>1, <2>2, <2>3, <2>4, <2>5, <2>6
<1>10. ASSUME NEW l \in Leases, CreateFails(l) PROVE LeaseInv'
  <2>1. TypeOK'
    BY <1>10 DEF TypeOK, CreateFails, FailAcquire, Forget
  <2>2. RequestInv'
    BY <1>10 DEF RequestInv, Creates, TypeOK, CreateFails, FailAcquire, Forget
  <2>3. SessionInv'
    BY <1>10 DEF SessionInv, TypeOK, CreateFails, FailAcquire, Forget
  <2>4. SlotInv'
    BY <1>10 DEF SlotInv, Creates, TypeOK, CreateFails, FailAcquire, Forget
  <2>5. KeepInv'
    BY <1>10 DEF KeepInv, CreateFails, FailAcquire, Forget
  <2>6. ReportInv'
    BY <1>10 DEF ReportInv, RetiredOnce, CreateFails, FailAcquire, Forget
  <2> QED  BY <2>1, <2>2, <2>3, <2>4, <2>5, <2>6
<1>11. ASSUME NEW l \in Leases, CleanUp(l) PROVE LeaseInv'
  <2>1. TypeOK'
    BY <1>11 DEF TypeOK, Requests, CleanUp, SendRelease
  <2>2. RequestInv'
    BY <1>11, LeaseConstants DEF RequestInv, Creates, TypeOK, Requests, SessionInv, CleanUp,
       SendRelease
  <2>3. SessionInv'
    BY <1>11 DEF SessionInv, TypeOK, CleanUp, SendRelease
  <2>4. SlotInv'
    BY <1>11 DEF SlotInv, Creates, CleanUp, SendRelease
  <2>5. KeepInv'
    BY <1>11 DEF KeepInv, CleanUp, SendRelease
  <2>6. ReportInv'
    BY <1>11 DEF ReportInv, RetiredOnce, CleanUp, SendRelease
  <2> QED  BY <2>1, <2>2, <2>3, <2>4, <2>5, <2>6
<1>12. ASSUME NEW l \in Leases, CleanedUp(l) PROVE LeaseInv'
  <2>1. TypeOK'
    BY <1>12 DEF TypeOK, CleanedUp, FailAcquire, Forget
  <2>2. RequestInv'
    BY <1>12 DEF RequestInv, Creates, CleanedUp, FailAcquire, Forget
  <2>3. SessionInv'
    BY <1>12 DEF SessionInv, CleanedUp, FailAcquire, Forget
  <2>4. SlotInv'
    BY <1>12 DEF SlotInv, Creates, CleanedUp, FailAcquire, Forget
  <2>5. KeepInv'
    BY <1>12 DEF KeepInv, CleanedUp, FailAcquire, Forget
  <2>6. ReportInv'
    BY <1>12 DEF ReportInv, RetiredOnce, CleanedUp, FailAcquire, Forget
  <2> QED  BY <2>1, <2>2, <2>3, <2>4, <2>5, <2>6
<1>13. ASSUME NEW l \in Leases, KeepAliveStops(l) PROVE LeaseInv'
  <2>1. TypeOK'
    BY <1>13, LeaseConstants DEF TypeOK, KeepAliveStops
  <2>2. RequestInv'
    BY <1>13 DEF RequestInv, Creates, KeepAliveStops
  <2>3. SessionInv'
    BY <1>13 DEF SessionInv, KeepAliveStops
  <2>4. SlotInv'
    BY <1>13 DEF SlotInv, Creates, KeepAliveStops
  <2>5. KeepInv'
    BY <1>13 DEF KeepInv, KeepAliveStops
  <2>6. ReportInv'
    BY <1>13 DEF ReportInv, RetiredOnce, KeepAliveStops
  <2> QED  BY <2>1, <2>2, <2>3, <2>4, <2>5, <2>6
<1>14. ASSUME NEW l \in Leases, RenewBegins(l) PROVE LeaseInv'
  <2>1. TypeOK'
    BY <1>14 DEF TypeOK, RenewBegins
  <2>2. RequestInv'
    BY <1>14 DEF RequestInv, Creates, RenewBegins
  <2>3. SessionInv'
    BY <1>14 DEF SessionInv, RenewBegins
  <2>4. SlotInv'
    BY <1>14 DEF SlotInv, Creates, RenewBegins
  <2>5. KeepInv'
    BY <1>14 DEF KeepInv, RenewBegins
  <2>6. ReportInv'
    BY <1>14 DEF ReportInv, RetiredOnce, RenewBegins
  <2> QED  BY <2>1, <2>2, <2>3, <2>4, <2>5, <2>6
<1>15. ASSUME NEW l \in Leases, Renewed(l) PROVE LeaseInv'
  <2>1. TypeOK'
    BY <1>15, LeaseConstants DEF TypeOK, Renewed
  <2>2. RequestInv'
    BY <1>15 DEF RequestInv, Creates, Renewed
  <2>3. SessionInv'
    BY <1>15 DEF SessionInv, Renewed
  <2>4. SlotInv'
    BY <1>15 DEF SlotInv, Creates, Renewed
  <2>5. KeepInv'
    BY <1>15 DEF KeepInv, Renewed
  <2>6. ReportInv'
    BY <1>15 DEF ReportInv, RetiredOnce, Renewed
  <2> QED  BY <2>1, <2>2, <2>3, <2>4, <2>5, <2>6
<1>16. ASSUME NEW l \in Leases, RenewFails(l) PROVE LeaseInv'
  <2>1. TypeOK'
    BY <1>16, LeaseConstants DEF TypeOK, RenewFails, RenewalReturns, Cancel
  <2>2. RequestInv'
    BY <1>16 DEF RequestInv, Creates, RenewFails, RenewalReturns, Cancel
  <2>3. SessionInv'
    BY <1>16 DEF SessionInv, RenewFails, RenewalReturns, Cancel
  <2>4. SlotInv'
    BY <1>16 DEF SlotInv, Creates, RenewFails, RenewalReturns, Cancel
  <2>5. KeepInv'
    BY <1>16 DEF KeepInv, TypeOK, RenewFails, RenewalReturns, Cancel
  <2>6. ReportInv'
    BY <1>16 DEF ReportInv, RetiredOnce, RenewFails, RenewalReturns, Cancel
  <2> QED  BY <2>1, <2>2, <2>3, <2>4, <2>5, <2>6
<1>17. ASSUME NEW l \in Leases, Close(l) PROVE LeaseInv'
  <2>1. TypeOK'
    BY <1>17 DEF TypeOK, Close, Cancel
  <2>2. RequestInv'
    BY <1>17 DEF RequestInv, Creates, Close, Cancel
  <2>3. SessionInv'
    BY <1>17 DEF SessionInv, Close, Cancel
  <2>4. SlotInv'
    BY <1>17 DEF SlotInv, Creates, Close, Cancel
  <2>5. KeepInv'
    BY <1>17 DEF KeepInv, Close, Cancel
  <2>6. ReportInv'
    BY <1>17 DEF ReportInv, RetiredOnce, Close, Cancel
  <2> QED  BY <2>1, <2>2, <2>3, <2>4, <2>5, <2>6
<1>18. ASSUME NEW l \in Leases, Release(l) PROVE LeaseInv'
  <2>1. TypeOK'
    BY <1>18 DEF TypeOK, Requests, Release, SendRelease
  <2>2. RequestInv'
    BY <1>18, LeaseConstants DEF RequestInv, Creates, TypeOK, Requests, SessionInv, KeepInv,
       Managed, Release, SendRelease
  <2>3. SessionInv'
    BY <1>18, LeaseConstants DEF SessionInv, TypeOK, Managed, KeepInv, Release, SendRelease
  <2>4. SlotInv'
    BY <1>18 DEF SlotInv, Creates, Release, SendRelease
  <2>5. KeepInv'
    BY <1>18 DEF KeepInv, Release, SendRelease
  <2>6. ReportInv'
    BY <1>18 DEF ReportInv, RetiredOnce, Release, SendRelease
  <2> QED  BY <2>1, <2>2, <2>3, <2>4, <2>5, <2>6
<1>19. ASSUME NEW l \in Leases, ReleaseReturns(l) PROVE LeaseInv'
  <2>1. TypeOK'
    BY <1>19 DEF TypeOK, ReleaseReturns
  <2>2. RequestInv'
    BY <1>19 DEF RequestInv, Creates, ReleaseReturns
  <2>3. SessionInv'
    BY <1>19 DEF SessionInv, ReleaseReturns
  <2>4. SlotInv'
    BY <1>19 DEF SlotInv, Creates, ReleaseReturns
  <2>5. KeepInv'
    BY <1>19 DEF KeepInv, ReleaseReturns
  <2>6. ReportInv'
    BY <1>19 DEF ReportInv, RetiredOnce, ReleaseReturns
  <2> QED  BY <2>1, <2>2, <2>3, <2>4, <2>5, <2>6
<1>20. ASSUME NEW l \in Leases, ReleaseFails(l) PROVE LeaseInv'
  <2>1. TypeOK'
    BY <1>20 DEF TypeOK, ReleaseFails
  <2>2. RequestInv'
    BY <1>20 DEF RequestInv, Creates, ReleaseFails
  <2>3. SessionInv'
    BY <1>20, LeaseConstants DEF SessionInv, TypeOK, Managed, KeepInv, ReleaseFails
  <2>4. SlotInv'
    BY <1>20 DEF SlotInv, Creates, ReleaseFails
  <2>5. KeepInv'
    BY <1>20 DEF KeepInv, ReleaseFails
  <2>6. ReportInv'
    BY <1>20 DEF ReportInv, RetiredOnce, ReleaseFails
  <2> QED  BY <2>1, <2>2, <2>3, <2>4, <2>5, <2>6
<1>21. ASSUME NEW l \in Leases, Expire(l) PROVE LeaseInv'
  <2>1. TypeOK'
    BY <1>21 DEF TypeOK, Expire, EndSession
  <2>2. RequestInv'
    BY <1>21 DEF RequestInv, Creates, Expire, EndSession
  <2>3. SessionInv'
    BY <1>21 DEF SessionInv, Expire, EndSession
  <2>4. SlotInv'
    BY <1>21 DEF SlotInv, Creates, Expire, EndSession
  <2>5. KeepInv'
    BY <1>21 DEF KeepInv, Expire, EndSession
  <2>6. ReportInv'
    BY <1>21 DEF ReportInv, RetiredOnce, Expire, EndSession
  <2> QED  BY <2>1, <2>2, <2>3, <2>4, <2>5, <2>6
<1>22. ASSUME NEW l \in Leases, CancelParent(l) PROVE LeaseInv'
  <2>1. TypeOK'
    BY <1>22 DEF TypeOK, CancelParent, Cancel
  <2>2. RequestInv'
    BY <1>22 DEF RequestInv, Creates, CancelParent, Cancel
  <2>3. SessionInv'
    BY <1>22 DEF SessionInv, CancelParent, Cancel
  <2>4. SlotInv'
    BY <1>22 DEF SlotInv, Creates, CancelParent, Cancel
  <2>5. KeepInv'
    BY <1>22 DEF KeepInv, CancelParent, Cancel
  <2>6. ReportInv'
    BY <1>22 DEF ReportInv, RetiredOnce, CancelParent, Cancel
  <2> QED  BY <2>1, <2>2, <2>3, <2>4, <2>5, <2>6
<1>23. ASSUME NEW r \in Reporters, ReportProviderFailure(r) PROVE LeaseInv'
  <2>1. TypeOK'
    BY <1>23 DEF TypeOK, ReportProviderFailure
  <2>2. RequestInv'
    BY <1>23 DEF RequestInv, Creates, ReportProviderFailure
  <2>3. SessionInv'
    BY <1>23 DEF SessionInv, ReportProviderFailure
  <2>4. SlotInv'
    BY <1>23 DEF SlotInv, Creates, ReportProviderFailure
  <2>5. KeepInv'
    BY <1>23 DEF KeepInv, ReportProviderFailure
  <2>6. ReportInv'
    BY <1>23 DEF ReportInv, RetiredOnce, ReportProviderFailure
  <2> QED  BY <2>1, <2>2, <2>3, <2>4, <2>5, <2>6
<1>24. ASSUME NEW r \in Reporters, ReportLocked(r) PROVE LeaseInv'
  <2>1. TypeOK'
    BY <1>24 DEF TypeOK, Requests, ReportLocked, SendReport
  <2>2. RequestInv'
    BY <1>24, LeaseConstants DEF RequestInv, Creates, TypeOK, Requests, ReportInv,
       ReportLocked, SendReport
  <2>3. SessionInv'
    BY <1>24 DEF SessionInv, ReportLocked, SendReport
  <2>4. SlotInv'
    BY <1>24 DEF SlotInv, Creates, ReportLocked, SendReport
  <2>5. KeepInv'
    BY <1>24 DEF KeepInv, ReportLocked, SendReport
  <2>6. ReportInv'
    BY <1>24, LeaseConstants DEF ReportInv, RetiredOnce, TypeOK, Managed, ReportLocked,
       SendReport
  <2> QED  BY <2>1, <2>2, <2>3, <2>4, <2>5, <2>6
<1>25. ASSUME NEW r \in Reporters, Reported(r) PROVE LeaseInv'
  <2>1. TypeOK'
    <3>1. About[r] \in Leases
      BY LeaseConstants
    <3>2. context' \in [Leases -> {"none", "live", "ended"}]
      BY <1>25, <3>1 DEF TypeOK, Reported, Cancel
    <3>3. reportMu' \in [Leases -> Reporters \cup {None}]
      BY <1>25, <3>1 DEF TypeOK, Reported
    <3>4. reporter' \in [Reporters -> {"idle", "lock", "calling", "reported", "skipped", "failed"}]
      BY <1>25 DEF TypeOK, Reported
    <3>5. quarantined' \subseteq Leases /\ accepted' \subseteq Reporters
      BY <1>25, <3>1 DEF TypeOK, Reported
    <3> QED  BY <1>25, <3>2, <3>3, <3>4, <3>5 DEF TypeOK, Reported
  <2>2. RequestInv'
    BY <1>25 DEF RequestInv, Creates, Reported, Cancel
  <2>3. SessionInv'
    BY <1>25 DEF SessionInv, Reported, Cancel
  <2>4. SlotInv'
    BY <1>25 DEF SlotInv, Creates, Reported, Cancel
  <2>5. KeepInv'
    BY <1>25 DEF KeepInv, Reported, Cancel
  <2>6. ReportInv'
    BY <1>25 DEF ReportInv, RetiredOnce, TypeOK, Reported, Cancel
  <2> QED  BY <2>1, <2>2, <2>3, <2>4, <2>5, <2>6
<1>26. ASSUME NEW r \in Reporters, ReportFails(r) PROVE LeaseInv'
  <2>1. TypeOK'
    BY <1>26 DEF TypeOK, ReportFails
  <2>2. RequestInv'
    BY <1>26 DEF RequestInv, Creates, ReportFails
  <2>3. SessionInv'
    BY <1>26 DEF SessionInv, ReportFails
  <2>4. SlotInv'
    BY <1>26 DEF SlotInv, Creates, ReportFails
  <2>5. KeepInv'
    BY <1>26 DEF KeepInv, ReportFails
  <2>6. ReportInv'
    BY <1>26 DEF ReportInv, RetiredOnce, TypeOK, ReportFails
  <2> QED  BY <2>1, <2>2, <2>3, <2>4, <2>5, <2>6
<1>27. ASSUME NEW q \in network, HandleCreate(q) PROVE LeaseInv'
  <2>1. TypeOK'
    BY <1>27 DEF TypeOK, Requests, HandleCreate, Answer, Awaited, SlotsFor, Available
  <2>2. RequestInv'
    BY <1>27 DEF RequestInv, Creates, TypeOK, Requests, HandleCreate, Answer, Awaited,
       SlotsFor, Available
  <2>3. SessionInv'
    BY <1>27, LeaseConstants DEF SessionInv, TypeOK, Managed, KeepInv, RequestInv, Creates,
       HandleCreate, Answer, Awaited, SlotsFor, Available
  <2>4. SlotInv'
    BY <1>27, LeaseConstants DEF SlotInv, Creates, TypeOK, Managed, HandleCreate, Answer,
       Awaited, SlotsFor, Available
  <2>5. KeepInv'
    BY <1>27 DEF KeepInv, HandleCreate, Answer, Awaited, SlotsFor, Available
  <2>6. ReportInv'
    BY <1>27 DEF ReportInv, RetiredOnce, HandleCreate, Answer, Awaited, SlotsFor, Available
  <2> QED  BY <2>1, <2>2, <2>3, <2>4, <2>5, <2>6
<1>28. ASSUME NEW q \in network, HandleRelease(q) PROVE LeaseInv'
  <2>1. TypeOK'
    BY <1>28 DEF TypeOK, HandleRelease, Answer, Awaited, EndSession
  <2>2. RequestInv'
    BY <1>28 DEF RequestInv, Creates, TypeOK, Requests, HandleRelease, Answer, Awaited,
       EndSession
  <2>3. SessionInv'
    BY <1>28, LeaseConstants DEF SessionInv, TypeOK, Managed, KeepInv, HandleRelease,
       Answer, Awaited, EndSession
  <2>4. SlotInv'
    BY <1>28 DEF SlotInv, Creates, TypeOK, HandleRelease, Answer, Awaited, EndSession
  <2>5. KeepInv'
    BY <1>28 DEF KeepInv, HandleRelease, Answer, Awaited, EndSession
  <2>6. ReportInv'
    BY <1>28 DEF ReportInv, RetiredOnce, HandleRelease, Answer, Awaited, EndSession
  <2> QED  BY <2>1, <2>2, <2>3, <2>4, <2>5, <2>6
<1>29. ASSUME NEW q \in network, HandleReport(q) PROVE LeaseInv'
  <2>1. TypeOK'
    BY <1>29 DEF TypeOK, Requests, HandleReport, EndSession
  <2>2. RequestInv'
    BY <1>29 DEF RequestInv, Creates, TypeOK, Requests, HandleReport, EndSession
  <2>3. SessionInv'
    BY <1>29, LeaseConstants DEF SessionInv, TypeOK, Managed, KeepInv, RequestInv, Creates,
       HandleReport, EndSession
  <2>4. SlotInv'
    BY <1>29 DEF SlotInv, Creates, HandleReport, EndSession
  <2>5. KeepInv'
    BY <1>29 DEF KeepInv, HandleReport, EndSession
  <2>6. ReportInv'
    BY <1>29 DEF ReportInv, RetiredOnce, HandleReport, EndSession
  <2> QED  BY <2>1, <2>2, <2>3, <2>4, <2>5, <2>6
<1>30. CASE UNCHANGED vars
  <2>1. TypeOK'
    BY <1>30 DEF TypeOK, vars
  <2>2. RequestInv'
    BY <1>30 DEF RequestInv, Creates, vars
  <2>3. SessionInv'
    BY <1>30 DEF SessionInv, vars
  <2>4. SlotInv'
    BY <1>30 DEF SlotInv, Creates, vars
  <2>5. KeepInv'
    BY <1>30 DEF KeepInv, vars
  <2>6. ReportInv'
    BY <1>30 DEF ReportInv, RetiredOnce, vars
  <2> QED  BY <2>1, <2>2, <2>3, <2>4, <2>5, <2>6
<1> QED
  BY <1>1, <1>2, <1>3, <1>4, <1>5, <1>6, <1>7, <1>8, <1>9, <1>10, <1>11, <1>12, <1>13,
     <1>14, <1>15, <1>16, <1>17, <1>18, <1>19, <1>20, <1>21, <1>22, <1>23, <1>24, <1>25,
     <1>26, <1>27, <1>28, <1>29, <1>30 DEF Next, AcquireStep, KeepAliveStep, CloseStep,
     ReportStep

\* LeaseInv holds throughout every behaviour.
LEMMA LeaseInvariant == Spec => []LeaseInv
BY LeaseInvInit, LeaseInvNext, PTL DEF Spec

\* Only a request for a lease without a session makes one occupy a slot.
LEMMA HolderInvNext == LeaseInv /\ HolderInv /\ [Next]_vars => HolderInv'
<1> SUFFICES ASSUME LeaseInv, HolderInv, [Next]_vars PROVE HolderInv'
  OBVIOUS
<1> USE DEF acquireVars, leaseVars, reportVars, soxyVars
<1>1. ASSUME UNCHANGED <<session, holder>>,
             \A q \in network' : q.op = "create" => q \in network \/ session[q.of] = "none"
      PROVE  HolderInv'
  BY <1>1 DEF HolderInv
<1>2. ASSUME NEW l \in Leases, NEW left \in {None, "retired"}, EndSession(l, left),
             network' \subseteq network, LeaseInv,
             ~ \E q \in network : q.op = "create" /\ q.of = l
      PROVE  HolderInv'
  <2>1. left \notin Leases
    BY LeaseConstants
  <2>2. /\ session' = [session EXCEPT ![l] = "gone"]
        /\ holder' = [s \in Slots |-> IF holder[s] = l THEN left ELSE holder[s]]
    BY <1>2 DEF EndSession
  <2>3. session \in [Leases -> {"none", "active", "gone"}] /\ network \subseteq Requests
    BY DEF LeaseInv, TypeOK
  <2>4. \A q \in network' : q.op = "create" => q.of \in Leases /\ q.of # l
    BY <1>2, <2>3 DEF Requests
  <2> QED  BY <1>2, <2>1, <2>2, <2>3, <2>4 DEF HolderInv
<1>3. ASSUME NEW l \in Leases, session[l] # "none"
      PROVE  ~ \E q \in network : q.op = "create" /\ q.of = l
  BY <1>3 DEF HolderInv
<1>4. ASSUME NEW l \in Leases, AcquireSession(l) \/ ChooseSlot(l) PROVE HolderInv'
  <2>1. session[l] = "none" /\ UNCHANGED <<session, holder>>
    BY <1>4 DEF LeaseInv, SessionInv, AcquireSession, ChooseSlot
  <2>2. \E slot : network' = network \cup {[op |-> "create", of |-> l, slot |-> slot]}
    BY <1>4 DEF AcquireSession, ChooseSlot, SendCreate
  <2> QED  BY <1>1, <2>1, <2>2
<1>5. ASSUME NEW l \in Leases, Expire(l) PROVE HolderInv'
  <2>1. session[l] # "none" /\ EndSession(l, None) /\ network' = network
    BY <1>5 DEF Expire
  <2> QED  BY <1>2, <1>3, <2>1
<1>6. ASSUME NEW q \in network, HandleCreate(q) PROVE HolderInv'
  <2>1. q \in Requests /\ q.op = "create" /\ network' = network \ {q}
    BY <1>6 DEF LeaseInv, TypeOK, HandleCreate
  <2>2. q.of \in Leases /\ session[q.of] = "none"
    BY <2>1 DEF Requests, HolderInv
  <2>3. \A s \in Slots : holder[s] # q.of
    BY <2>2 DEF HolderInv
  <2>4. CASE UNCHANGED <<session, holder>>
    BY <1>1, <2>1, <2>4
  <2>5. ASSUME NEW s \in SlotsFor(q), holder' = [holder EXCEPT ![s] = q.of],
               session' = [session EXCEPT ![q.of] = "active"]
        PROVE  HolderInv'
    <3>1. s \in Slots /\ holder[s] = None
      BY DEF SlotsFor, Available
    <3>2. \A p \in network' : p.op = "create" => p.of # q.of
      BY <2>1, <2>2 DEF LeaseInv, RequestInv, Creates
    <3>3. /\ session \in [Leases -> {"none", "active", "gone"}] /\ network \subseteq Requests
          /\ holder \in [Slots -> Leases \cup {None, "retired"}]
      BY DEF LeaseInv, TypeOK
    <3>4. \A p \in network' : p.op = "create" => p.of \in Leases
      BY <2>1, <3>3 DEF Requests
    <3> QED  BY <2>1, <2>2, <2>3, <2>5, <3>1, <3>2, <3>3, <3>4 DEF HolderInv
  <2> QED  BY <1>6, <2>4, <2>5 DEF HandleCreate
<1>7. ASSUME NEW q \in network, HandleRelease(q) PROVE HolderInv'
  <2>1. q \in Requests /\ q.op = "release" /\ network' = network \ {q}
    BY <1>7 DEF LeaseInv, TypeOK, HandleRelease
  <2>2. q.of \in Leases
    BY <2>1 DEF Requests
  <2>3. CASE UNCHANGED <<session, holder>>
    BY <1>1, <2>1, <2>3
  <2>4. CASE session[q.of] = "active" /\ EndSession(q.of, None)
    BY <1>2, <1>3, <2>1, <2>2, <2>4
  <2> QED  BY <1>7, <2>3, <2>4 DEF HandleRelease
<1>8. ASSUME NEW q \in network, HandleReport(q) PROVE HolderInv'
  <2>1. q \in Requests /\ q.op = "report" /\ network' = network \ {q}
    BY <1>8 DEF LeaseInv, TypeOK, HandleReport
  <2>2. q.by \in Reporters /\ About[q.by] \in Leases
    BY <2>1, LeaseConstants DEF Requests
  <2>3. session[About[q.by]] # "none"
    BY <2>1, <2>2 DEF LeaseInv, RequestInv, SessionInv
  <2>4. CASE UNCHANGED <<session, holder>>
    BY <1>1, <2>1, <2>4
  <2>5. CASE EndSession(About[q.by], "retired")
    BY <1>2, <1>3, <2>1, <2>2, <2>3, <2>5
  <2> QED  BY <1>8, <2>4, <2>5 DEF HandleReport
<1>9. ASSUME UNCHANGED <<session, holder, network>> PROVE HolderInv'
  BY <1>1, <1>9
<1>10. ASSUME NEW l \in Leases, CleanUp(l) \/ Release(l) PROVE HolderInv'
  <2>1. /\ network' = network \cup {[op |-> "release", of |-> l]}
        /\ UNCHANGED <<session, holder>>
    BY <1>10 DEF CleanUp, Release, SendRelease
  <2> QED  BY <1>1, <2>1
<1>11. ASSUME NEW r \in Reporters, ReportLocked(r) PROVE HolderInv'
  <2>1. /\ network' = network \/ network' = network \cup {[op |-> "report", by |-> r]}
        /\ UNCHANGED <<session, holder>>
    BY <1>11 DEF ReportLocked, SendReport
  <2> QED  BY <1>1, <2>1
<1>12. ASSUME NEW l \in Leases,
              \/ AcquireDirect(l) \/ AcquireScan(l) \/ AvailableSlots(l) \/ ListingFails(l)
              \/ NoSlotLeft(l) \/ Created(l) \/ CreateRefused(l) \/ CreateFails(l) \/ CleanedUp(l)
              \/ KeepAliveStep(l) \/ Close(l) \/ ReleaseReturns(l) \/ ReleaseFails(l)
              \/ CancelParent(l)
       PROVE  HolderInv'
  BY <1>9, <1>12 DEF AcquireDirect, AcquireScan, AvailableSlots, ListingFails, NoSlotLeft,
     Created, CreateRefused, CreateFails, CleanedUp, KeepAliveStep, KeepAliveStops, RenewBegins,
     Renewed, RenewFails, Close, ReleaseReturns, ReleaseFails, CancelParent
<1>13. ASSUME NEW r \in Reporters, ReportProviderFailure(r) \/ Reported(r) \/ ReportFails(r)
       PROVE  HolderInv'
  BY <1>9, <1>13 DEF ReportProviderFailure, Reported, ReportFails
<1>14. CASE UNCHANGED vars
  BY <1>9, <1>14 DEF vars
<1> QED
  BY <1>4, <1>5, <1>6, <1>7, <1>8, <1>10, <1>11, <1>12, <1>13, <1>14 DEF Next, AcquireStep,
     CloseStep, ReportStep

\* HolderInv holds throughout every behaviour.
LEMMA HolderInvariant == Spec => []HolderInv
<1>1. Init => HolderInv
  BY LeaseConstants DEF Init, HolderInv
<1> QED
  BY <1>1, HolderInvNext, LeaseInvariant, PTL DEF Spec

-----------------------------------------------------------------------------
\* The variables keep their types; a lease never counts MaxErrors failures and goes on.
THEOREM TypeCorrect == Spec => []TypeOK
<1>1. LeaseInv => TypeOK
  BY DEF LeaseInv
<1> QED
  BY <1>1, LeaseInvariant, PTL

(***************************************************************************)
(* A Close that returned nil, and an acquire that failed with an answer to *)
(* each of its calls, leave neither a session in Soxy nor a request that   *)
(* could still create one; and no lease ever occupies two slots.           *)
(***************************************************************************)
THEOREM NoSessionLeaks == Spec => []NothingLeaks
<1>1. LeaseInv /\ HolderInv => NothingLeaks
  BY DEF LeaseInv, HolderInv, NothingLeaks, RequestInv, Creates, SessionInv, KeepInv
<1> QED
  BY <1>1, LeaseInvariant, HolderInvariant, PTL

\* ErrNoProxyCapacity is returned only when Soxy refused every listed slot.
THEOREM CapacityIsExhausted == Spec => []CapacityMeansAllRefused
<1>1. LeaseInv => CapacityMeansAllRefused
  BY DEF LeaseInv, CapacityMeansAllRefused, SlotInv
<1> QED
  BY <1>1, LeaseInvariant, PTL

\* At most one of the concurrent calls of ReportProviderFailure on a lease is reported.
THEOREM ReportIsOnce == Spec => []RetiredOnce
<1>1. LeaseInv => RetiredOnce
  BY DEF LeaseInv, ReportInv
<1> QED
  BY <1>1, LeaseInvariant, PTL

\* keepAlive has returned before Close or a clean-up sends the release.
THEOREM RenewalIsOver == Spec => []RenewalEndsBeforeRelease
<1>1. LeaseInv => RenewalEndsBeforeRelease
  BY DEF LeaseInv, RenewalEndsBeforeRelease, RequestInv, KeepInv
<1> QED
  BY <1>1, LeaseInvariant, PTL

-----------------------------------------------------------------------------
\* The refinement mapping of ImplementsLease, named.
States == [l \in Leases |-> LeaseState(l)]

\* A step after which every lease that was acquired is where it was or further on.
LEMMA LeaseEnds ==
  ASSUME \A l \in Leases :
           \/ LeaseState(l)' = LeaseState(l)
           \/ LeaseState(l) = "live" /\ LeaseState(l)' = "lost"
           \/ LeaseState(l) # "unused" /\ LeaseState(l)' = "closed"
  PROVE  Promise!Next
<1> DEFINE shut == {l \in Leases : LeaseState(l) # "unused" /\ LeaseState(l)' = "closed"}
<1> DEFINE ended == {l \in Leases : LeaseState(l) = "live" /\ LeaseState(l)' = "lost"}
<1>1. \A l \in shut : States[l] # "unused"
  BY DEF States
<1>2. \A l \in ended : States[l] = "live"
  BY DEF States
<1>3. States' = [l \in Leases |-> IF l \in shut THEN "closed"
                                  ELSE IF l \in ended THEN "lost" ELSE States[l]]
  <2>1. States' = [l \in Leases |-> LeaseState(l)']
    BY DEF States
  <2>2. \A l \in Leases : LeaseState(l)' = IF l \in shut THEN "closed"
                                  ELSE IF l \in ended THEN "lost" ELSE States[l]
    BY DEF States
  <2> QED  BY <2>1, <2>2
<1>4. shut \in SUBSET Leases /\ ended \in SUBSET Leases
  OBVIOUS
<1>5. Promise!End(shut, ended)
  BY <1>1, <1>2, <1>3 DEF Promise!End, States
<1> QED
  BY <1>4, <1>5 DEF Promise!Next

\* newLease: the call of acquire had no lease before.
LEMMA LeaseBegins ==
  ASSUME LeaseInv, NEW l \in Leases, acq[l] # "held", NewLease(l), closing' = closing
  PROVE  Promise!Acquire(l)
<1>1. closing[l] = "none"
  BY DEF LeaseInv, KeepInv, TypeOK
<1>2. PICK c \in {"live", "ended"} : context' = [context EXCEPT ![l] = c]
  BY DEF NewLease
<1>3. acq' = [acq EXCEPT ![l] = "held"]
  BY DEF NewLease
<1> DEFINE s == IF c = "live" THEN "live" ELSE "lost"
<1>4. LeaseState(l) = "unused" /\ LeaseState(l)' = s
  BY <1>1, <1>2, <1>3 DEF LeaseState, LeaseInv, TypeOK
<1>5. \A m \in Leases : m # l => LeaseState(m)' = LeaseState(m)
  BY <1>2, <1>3 DEF LeaseState, LeaseInv, TypeOK
<1>6. States' = [States EXCEPT ![l] = s]
  BY <1>4, <1>5 DEF States
<1>7. s \in {"live", "lost"} /\ States[l] = "unused"
  BY <1>4 DEF States
<1> QED
  BY <1>6, <1>7 DEF Promise!Acquire, States

\* Each step on a lease is one of EgressLease, or none.
LEMMA LeaseNext == LeaseInv /\ [Next]_vars => [Promise!Next]_States
<1> SUFFICES ASSUME LeaseInv, [Next]_vars PROVE Promise!Next
  OBVIOUS
<1> USE DEF acquireVars, leaseVars, reportVars, soxyVars
<1>1. ASSUME NEW l \in Leases, AcquireDirect(l) \/ Created(l) PROVE Promise!Next
  <2>1. acq[l] # "held" /\ NewLease(l) /\ closing' = closing
    BY <1>1 DEF AcquireDirect, Created
  <2>2. Promise!Acquire(l)
    BY <2>1, LeaseBegins
  <2> QED  BY <2>2 DEF Promise!Next
<1>2. ASSUME NEW l \in Leases, acq[l] # "held", UNCHANGED leaseVars,
             \E a : a # "held" /\ acq' = [acq EXCEPT ![l] = a]
      PROVE  Promise!Next
  <2>1. \A m \in Leases : LeaseState(m)' = LeaseState(m)
    BY <1>2 DEF LeaseState, LeaseInv, TypeOK
  <2> QED  BY <2>1, LeaseEnds
<1>3. ASSUME NEW l \in Leases,
             \/ AcquireSession(l) \/ AcquireScan(l) \/ AvailableSlots(l) \/ ListingFails(l)
             \/ ChooseSlot(l) \/ NoSlotLeft(l) \/ CreateRefused(l) \/ CreateFails(l)
             \/ CleanUp(l) \/ CleanedUp(l)
      PROVE  Promise!Next
  <2>1. acq[l] # "held" /\ UNCHANGED leaseVars
    BY <1>3 DEF AcquireSession, AcquireScan, AvailableSlots, ListingFails, ChooseSlot, NoSlotLeft,
       CreateRefused, CreateFails, CleanUp, CleanedUp
  <2>2. \E a \in {"create", "list", "failed", "choose", "cleanup"} :
          acq' = [acq EXCEPT ![l] = a]
    BY <1>3 DEF AcquireSession, AcquireScan, AvailableSlots, ListingFails, ChooseSlot, NoSlotLeft,
       CreateRefused, CreateFails, CleanUp, CleanedUp, SendCreate, NoProxyCapacity, FailAcquire
  <2> QED  BY <1>2, <2>1, <2>2
<1>4. ASSUME NEW l \in Leases, Cancel(l), UNCHANGED <<acq, closing>> PROVE Promise!Next
  <2>1. \A m \in Leases : \/ LeaseState(m)' = LeaseState(m)
                          \/ LeaseState(m) = "live" /\ LeaseState(m)' = "lost"
    BY <1>4 DEF Cancel, LeaseState, LeaseInv, TypeOK
  <2> QED  BY <2>1, LeaseEnds
<1>5. ASSUME UNCHANGED <<acq, context, closing>> PROVE Promise!Next
  <2>1. \A m \in Leases : LeaseState(m)' = LeaseState(m)
    BY <1>5 DEF LeaseState
  <2> QED  BY <2>1, LeaseEnds
<1>6. ASSUME NEW l \in Leases, KeepAliveStep(l) PROVE Promise!Next
  <2>1. UNCHANGED <<acq, closing>> /\ (Cancel(l) \/ UNCHANGED context)
    BY <1>6 DEF KeepAliveStep, KeepAliveStops, RenewBegins, Renewed, RenewFails
  <2> QED  BY <1>4, <1>5, <2>1
<1>7. ASSUME NEW l \in Leases, Close(l) PROVE Promise!Next
  <2>1. \A m \in Leases : \/ LeaseState(m)' = LeaseState(m)
                          \/ LeaseState(m) # "unused" /\ LeaseState(m)' = "closed"
    BY <1>7 DEF Close, Cancel, LeaseState, LeaseInv, TypeOK
  <2> QED  BY <2>1, LeaseEnds
<1>8. ASSUME NEW l \in Leases, CloseStep(l) PROVE Promise!Next
  <2>1. closing[l] # "none" /\ UNCHANGED <<acq, context>>
    BY <1>8 DEF CloseStep, Release, ReleaseReturns, ReleaseFails
  <2>2. \E c \in {"releasing", "ok", "error"} : closing' = [closing EXCEPT ![l] = c]
    BY <1>8 DEF CloseStep, Release, ReleaseReturns, ReleaseFails
  <2>3. \A m \in Leases : LeaseState(m)' = LeaseState(m)
    BY <2>1, <2>2 DEF LeaseState, LeaseInv, TypeOK
  <2> QED  BY <2>3, LeaseEnds
<1>9. ASSUME NEW r \in Reporters, ReportProviderFailure(r) \/ ReportStep(r) PROVE Promise!Next
  <2>1. UNCHANGED <<acq, closing>> /\ (Cancel(About[r]) \/ UNCHANGED context)
    BY <1>9 DEF ReportProviderFailure, ReportStep, ReportLocked, Reported, ReportFails
  <2>2. About[r] \in Leases
    BY LeaseConstants
  <2> QED  BY <1>4, <1>5, <2>1, <2>2
<1>10. ASSUME NEW l \in Leases, CancelParent(l) \/ Expire(l) PROVE Promise!Next
  <2>1. UNCHANGED <<acq, closing>> /\ (Cancel(l) \/ UNCHANGED context)
    BY <1>10 DEF CancelParent, Expire
  <2> QED  BY <1>4, <1>5, <2>1
<1>11. ASSUME NEW q \in network, HandleCreate(q) \/ HandleRelease(q) \/ HandleReport(q)
       PROVE  Promise!Next
  BY <1>5, <1>11 DEF HandleCreate, HandleRelease, HandleReport
<1>12. CASE UNCHANGED vars
  BY <1>5, <1>12 DEF vars
<1> QED
  BY <1>1, <1>3, <1>6, <1>7, <1>8, <1>9, <1>10, <1>11, <1>12 DEF Next, AcquireStep

(***************************************************************************)
(* Manager.acquire and the Lease with its renewal, reports and Close       *)
(* together are the lease the browser factory relies on: nothing that is   *)
(* late brings a lease back that was lost or closed.                       *)
(***************************************************************************)
THEOREM LeaseKeepsPromise == Spec => ImplementsLease
<1>1. Init => Promise!Init
  BY DEF Init, Promise!Init, LeaseState
<1>2. LeaseInv /\ [Next]_vars => [Promise!Next]_States
  BY LeaseNext
<1> QED
  BY <1>1, <1>2, LeaseInvariant, PTL DEF Spec, ImplementsLease, Promise!Spec, States
=============================================================================
