----------------------------- MODULE SoxyLease -----------------------------
(***************************************************************************)
(* Egress leases (internal/egress/egress.go, soxy.go): Manager.acquire,    *)
(* the Lease with its renewal goroutine keepAlive, ReportProviderFailure   *)
(* and Close, against the Soxy service.                                    *)
(*                                                                         *)
(* Every lease is one call of Manager.acquire; the session it creates in   *)
(* Soxy bears its name.  A call to Soxy is a request in the network that   *)
(* Soxy handles at any later time, or never; the caller may give up at any *)
(* moment (a context ends, a timeout, a broken connection), and then the   *)
(* request may still be handled after it.  Time is not modelled: a session *)
(* may expire at any moment.                                               *)
(***************************************************************************)
EXTENDS Integers, FiniteSets

CONSTANTS
  Leases,    \* calls of Manager.acquire
  Kind,      \* "direct" (static proxy or none), or a Soxy "scan" or "session"
  Slots,     \* the slots of Soxy's inventory
  Reporters, \* calls of ReportProviderFailure
  About,     \* the lease each of them is made on
  MaxErrors, \* MaxRenewFailures
  None       \* nil

ASSUME LeaseConstants ==
  /\ Kind \in [Leases -> {"direct", "scan", "session"}]
  /\ About \in [Reporters -> Leases]
  /\ IsFiniteSet(Slots) /\ IsFiniteSet(Leases)
  /\ MaxErrors \in Nat \ {0}
  /\ None \notin Leases \cup Slots \cup Reporters
  /\ "retired" \notin Leases

VARIABLES
  acq,         \* where Manager.acquire is
  listed,      \* the available slots Soxy listed
  candidates,  \* those of them not yet tried
  failure,     \* the error acquire returned
  context,     \* lease.ctx
  keep,        \* the goroutine keepAlive; "done" closes lease.done
  failures,    \* its consecutiveFailures
  closing,     \* Lease.Close
  reporter,    \* each call of ReportProviderFailure
  reportMu,    \* the holder of lease.reportMu
  quarantined, \* the leases with lease.quarantined
  session,     \* Soxy: the remote session of each lease
  holder,      \* Soxy: the lease a slot serves, None, or "retired"
  network,     \* requests Soxy has not handled
  answer,      \* Soxy's answer to the lease's list, create or release
  accepted,    \* the reports Soxy accepted and whose caller still waits
  unanswered,  \* history: leases that gave up on a creation or a clean-up
  refused      \* history: the slots Soxy answered 409 or 404 for

acquireVars == <<acq, listed, candidates, failure, unanswered>>
leaseVars == <<context, keep, failures, closing>>
reportVars == <<reporter, reportMu, quarantined>>
soxyVars == <<session, holder, network, answer, accepted, refused>>
vars == <<acquireVars, leaseVars, reportVars, soxyVars>>

Requests ==
  [op : {"create"}, of : Leases, slot : Slots \cup {None}]
    \cup [op : {"release"}, of : Leases] \cup [op : {"report"}, by : Reporters]

TypeOK ==
  /\ acq \in [Leases -> {"idle", "list", "choose", "create", "cleanup", "held", "failed"}]
  /\ listed \in [Leases -> SUBSET Slots]
  /\ candidates \in [Leases -> SUBSET Slots]
  /\ refused \in [Leases -> SUBSET Slots]
  /\ failure \in [Leases -> {"none", "capacity", "error"}]
  /\ unanswered \subseteq Leases
  /\ context \in [Leases -> {"none", "live", "ended"}]
  /\ keep \in [Leases -> {"none", "wait", "extending", "done"}]
  /\ failures \in [Leases -> 0..(MaxErrors - 1)]
  /\ closing \in [Leases -> {"none", "waiting", "releasing", "ok", "error"}]
  /\ reporter \in [Reporters -> {"idle", "lock", "calling", "reported", "skipped", "failed"}]
  /\ reportMu \in [Leases -> Reporters \cup {None}]
  /\ quarantined \subseteq Leases
  /\ session \in [Leases -> {"none", "active", "gone"}]
  /\ holder \in [Slots -> Leases \cup {None, "retired"}]
  /\ network \subseteq Requests
  /\ answer \in [Leases -> {"none", "ready", "unusable", "refused", "released", "notFound",
                            "error"}]
  /\ accepted \subseteq Reporters

Init ==
  /\ acq = [l \in Leases |-> "idle"]
  /\ listed = [l \in Leases |-> {}]
  /\ candidates = [l \in Leases |-> {}]
  /\ refused = [l \in Leases |-> {}]
  /\ failure = [l \in Leases |-> "none"]
  /\ unanswered = {}
  /\ context = [l \in Leases |-> "none"]
  /\ keep = [l \in Leases |-> "none"]
  /\ failures = [l \in Leases |-> 0]
  /\ closing = [l \in Leases |-> "none"]
  /\ reporter = [r \in Reporters |-> "idle"]
  /\ reportMu = [l \in Leases |-> None]
  /\ quarantined = {}
  /\ session = [l \in Leases |-> "none"]
  /\ holder = [s \in Slots |-> None]
  /\ network = {}
  /\ answer = [l \in Leases |-> "none"]
  /\ accepted = {}

Managed(l) == Kind[l] # "direct"

\* lease.cancel; a context that has ended stays so.  The causes are not told apart.
Cancel(l) == context' = [context EXCEPT ![l] = "ended"]

\* The locals of a call end with it.
Forget(l) ==
  /\ listed' = [listed EXCEPT ![l] = {}]
  /\ candidates' = [candidates EXCEPT ![l] = {}]
  /\ refused' = [refused EXCEPT ![l] = {}]
  /\ answer' = [answer EXCEPT ![l] = "none"]

-----------------------------------------------------------------------------
(***************************************************************************)
(* Manager.acquire.                                                        *)
(***************************************************************************)
\* newLease; the context given to acquire may have ended already.
NewLease(l) ==
  /\ acq' = [acq EXCEPT ![l] = "held"]
  /\ \E c \in {"live", "ended"} : context' = [context EXCEPT ![l] = c]
  /\ keep' = [keep EXCEPT ![l] = IF Managed(l) THEN "wait" ELSE "none"]
  /\ Forget(l)

AcquireDirect(l) ==
  /\ acq[l] = "idle" /\ ~Managed(l)
  /\ NewLease(l)
  /\ UNCHANGED <<failure, unanswered, failures, closing, reportVars, session, holder, network,
                 accepted>>

\* createSession sends the request, for a slot or leaving the choice to Soxy.
SendCreate(l, slot) ==
  /\ acq' = [acq EXCEPT ![l] = "create"]
  /\ network' = network \cup {[op |-> "create", of |-> l, slot |-> slot]}
  /\ answer' = [answer EXCEPT ![l] = "none"]

AcquireSession(l) ==
  /\ acq[l] = "idle" /\ Kind[l] = "session"
  /\ SendCreate(l, None)
  /\ UNCHANGED <<listed, candidates, failure, unanswered, leaseVars,
                 reportVars, session, holder, accepted, refused>>

AcquireScan(l) ==
  /\ acq[l] = "idle" /\ Kind[l] = "scan"
  /\ acq' = [acq EXCEPT ![l] = "list"]
  /\ UNCHANGED <<listed, candidates, failure, unanswered, leaseVars,
                 reportVars, soxyVars>>

Available == {s \in Slots : holder[s] = None}

FailAcquire(l) ==
  /\ acq' = [acq EXCEPT ![l] = "failed"]
  /\ failure' = [failure EXCEPT ![l] = "error"]
  /\ Forget(l)

NoProxyCapacity(l) ==
  /\ acq' = [acq EXCEPT ![l] = "failed"]
  /\ failure' = [failure EXCEPT ![l] = "capacity"]

\* GET /v1/slots reads the inventory; nothing in Soxy changes.
AvailableSlots(l) ==
  /\ acq[l] = "list"
  /\ listed' = [listed EXCEPT ![l] = Available]
  /\ candidates' = [candidates EXCEPT ![l] = Available]
  /\ IF Available = {}
     THEN NoProxyCapacity(l)
     ELSE acq' = [acq EXCEPT ![l] = "choose"] /\ UNCHANGED failure
  /\ UNCHANGED <<unanswered, leaseVars, reportVars, soxyVars>>

ListingFails(l) ==
  /\ acq[l] = "list"
  /\ FailAcquire(l)
  /\ UNCHANGED <<unanswered, leaseVars, reportVars, session, holder, network, accepted>>

\* A random slot is taken out of the list and tried.
ChooseSlot(l) ==
  /\ acq[l] = "choose"
  /\ \E s \in candidates[l] :
       /\ candidates' = [candidates EXCEPT ![l] = @ \ {s}]
       /\ SendCreate(l, s)
  /\ UNCHANGED <<listed, failure, unanswered, leaseVars, reportVars, session, holder, accepted,
                 refused>>

NoSlotLeft(l) ==
  /\ acq[l] = "choose"
  /\ candidates[l] = {}
  /\ NoProxyCapacity(l)
  /\ UNCHANGED <<listed, candidates, unanswered, leaseVars, reportVars, soxyVars>>

Created(l) ==
  /\ acq[l] = "create" /\ answer[l] = "ready"
  /\ NewLease(l)
  /\ UNCHANGED <<failure, unanswered, failures, closing, reportVars, session, holder, network,
                 accepted>>

CreateRefusedAtOnce(l) ==
  /\ acq[l] = "create" /\ answer[l] = "refused" /\ Kind[l] = "scan"
  /\ NoProxyCapacity(l)
  /\ UNCHANGED <<listed, candidates, unanswered, leaseVars, reportVars, soxyVars>>

\* 409 or 404: the scan goes on to its next slot.
CreateRefused(l) ==
  /\ acq[l] = "create" /\ answer[l] = "refused" /\ Kind[l] = "scan"
  /\ acq' = [acq EXCEPT ![l] = "choose"]
  /\ UNCHANGED <<listed, candidates, failure, unanswered, leaseVars, reportVars, soxyVars>>

(***************************************************************************)
(* Any other status, the refusal of a session, whose slot Soxy chose, or   *)
(* no answer: it is lost, or the caller no longer waits for it.            *)
(***************************************************************************)
CreateFails(l) ==
  /\ acq[l] = "create"
  /\ FailAcquire(l)
  /\ unanswered' = IF answer[l] \in {"error", "refused"} THEN unanswered ELSE unanswered \cup {l}
  /\ UNCHANGED <<leaseVars, reportVars, session, holder, network, accepted>>

SendRelease(l) ==
  /\ network' = network \cup {[op |-> "release", of |-> l]}
  /\ answer' = [answer EXCEPT ![l] = "none"]

DropUnusable(l) ==
  /\ acq[l] = "create" /\ answer[l] = "unusable"
  /\ FailAcquire(l)
  /\ UNCHANGED <<unanswered, leaseVars, reportVars, session, holder, network, accepted>>

\* A session that is not ready or has no valid proxy is released under a fresh context.
CleanUp(l) ==
  /\ acq[l] = "create" /\ answer[l] = "unusable"
  /\ acq' = [acq EXCEPT ![l] = "cleanup"]
  /\ SendRelease(l)
  /\ UNCHANGED <<listed, candidates, failure, unanswered, leaseVars, reportVars, session, holder,
                 accepted, refused>>

CleanedUp(l) ==
  /\ acq[l] = "cleanup"
  /\ FailAcquire(l)
  /\ unanswered' = IF answer[l] \in {"released", "notFound"} THEN unanswered
                 ELSE unanswered \cup {l}
  /\ UNCHANGED <<leaseVars, reportVars, session, holder, network, accepted>>

-----------------------------------------------------------------------------
(***************************************************************************)
(* keepAlive.  The renewal is a call with lease.ctx: it succeeds only on a *)
(* session that is there, and may fail at any time.                        *)
(***************************************************************************)
KeepAliveStops(l) ==
  /\ keep[l] = "wait"
  /\ context[l] # "live"
  /\ keep' = [keep EXCEPT ![l] = "done"]
  /\ failures' = [failures EXCEPT ![l] = 0]
  /\ UNCHANGED <<acquireVars, context, closing, reportVars, soxyVars>>

RenewBegins(l) ==
  /\ keep[l] = "wait"
  /\ context[l] = "live"
  /\ keep' = [keep EXCEPT ![l] = "extending"]
  /\ UNCHANGED <<acquireVars, context, failures, closing, reportVars, soxyVars>>

Renewed(l) ==
  /\ keep[l] = "extending"
  /\ session[l] = "active"
  /\ keep' = [keep EXCEPT ![l] = "wait"]
  /\ failures' = [failures EXCEPT ![l] = 0]
  /\ UNCHANGED <<acquireVars, context, closing, reportVars, soxyVars>>

\* select may also pick the timer when the context has ended: extend fails at once.
RenewalReturns(l) ==
  keep[l] = "extending" \/ (keep[l] = "wait" /\ context[l] # "live")

RenewFailsForgetful(l) ==
  /\ RenewalReturns(l)
  /\ keep' = [keep EXCEPT ![l] = "wait"]
  /\ UNCHANGED <<acquireVars, context, failures, closing, reportVars, soxyVars>>

RenewFailsTooOften(l) ==
  /\ RenewalReturns(l)
  /\ IF failures[l] >= MaxErrors
     THEN /\ Cancel(l)
          /\ keep' = [keep EXCEPT ![l] = "done"]
          /\ failures' = [failures EXCEPT ![l] = 0]
     ELSE /\ keep' = [keep EXCEPT ![l] = "wait"]
          /\ failures' = [failures EXCEPT ![l] = @ + 1]
          /\ UNCHANGED context
  /\ UNCHANGED <<acquireVars, closing, reportVars, soxyVars>>

RenewFailsStuck(l) ==
  /\ RenewalReturns(l)
  /\ IF failures[l] + 1 >= MaxErrors
     THEN /\ Cancel(l)
          /\ keep' = [keep EXCEPT ![l] = "none"]
          /\ failures' = [failures EXCEPT ![l] = 0]
     ELSE /\ keep' = [keep EXCEPT ![l] = "wait"]
          /\ failures' = [failures EXCEPT ![l] = @ + 1]
          /\ UNCHANGED context
  /\ UNCHANGED <<acquireVars, closing, reportVars, soxyVars>>

RenewFails(l) ==
  /\ RenewalReturns(l)
  /\ IF failures[l] + 1 >= MaxErrors
     THEN /\ Cancel(l)
          /\ keep' = [keep EXCEPT ![l] = "done"]
          /\ failures' = [failures EXCEPT ![l] = 0]
     ELSE /\ keep' = [keep EXCEPT ![l] = "wait"]
          /\ failures' = [failures EXCEPT ![l] = @ + 1]
          /\ UNCHANGED context
  /\ UNCHANGED <<acquireVars, closing, reportVars, soxyVars>>

-----------------------------------------------------------------------------
(***************************************************************************)
(* Lease.Close: the context ends, the renewal goroutine is waited for, and *)
(* only then is the session released.                                      *)
(***************************************************************************)
Close(l) ==
  /\ acq[l] = "held" /\ closing[l] = "none"
  /\ closing' = [closing EXCEPT ![l] = IF Managed(l) THEN "waiting" ELSE "ok"]
  /\ Cancel(l)
  /\ UNCHANGED <<acquireVars, keep, failures, reportVars, soxyVars>>

ReleaseAtOnce(l) ==
  /\ closing[l] = "waiting"
  /\ closing' = [closing EXCEPT ![l] = "releasing"]
  /\ SendRelease(l)
  /\ UNCHANGED <<acquireVars, context, keep, failures, reportVars, session, holder,
                 accepted, refused>>

Release(l) ==
  /\ closing[l] = "waiting"
  /\ keep[l] = "done"
  /\ closing' = [closing EXCEPT ![l] = "releasing"]
  /\ SendRelease(l)
  /\ UNCHANGED <<acquireVars, context, keep, failures, reportVars, session, holder,
                 accepted, refused>>

ReleaseReturnsNil(l) ==
  /\ closing[l] = "releasing"
  /\ answer[l] # "none"
  /\ closing' = [closing EXCEPT ![l] = "ok"]
  /\ answer' = [answer EXCEPT ![l] = "none"]
  /\ UNCHANGED <<acquireVars, context, keep, failures, reportVars, session, holder, network,
                 accepted, refused>>

\* releaseSession: 204, or 404 because the session had ended already, is success.
ReleaseReturns(l) ==
  /\ closing[l] = "releasing"
  /\ answer[l] \in {"released", "notFound"}
  /\ closing' = [closing EXCEPT ![l] = "ok"]
  /\ answer' = [answer EXCEPT ![l] = "none"]
  /\ UNCHANGED <<acquireVars, context, keep, failures, reportVars, session, holder, network,
                 accepted, refused>>

ReleaseFails(l) ==
  /\ closing[l] = "releasing"
  /\ closing' = [closing EXCEPT ![l] = "error"]
  /\ answer' = [answer EXCEPT ![l] = "none"]
  /\ UNCHANGED <<acquireVars, context, keep, failures, reportVars, session, holder, network,
                 accepted, refused>>

-----------------------------------------------------------------------------
(***************************************************************************)
(* Lease.ReportProviderFailure, serialised by reportMu.  The request bears *)
(* an idempotency key that depends on the session only.                    *)
(***************************************************************************)
ReportProviderFailure(r) ==
  /\ reporter[r] = "idle" /\ acq[About[r]] = "held"
  /\ reporter' = [reporter EXCEPT ![r] = IF Managed(About[r]) THEN "lock" ELSE "skipped"]
  /\ UNCHANGED <<acquireVars, leaseVars, reportMu, quarantined, soxyVars>>

SendReport(r) ==
  /\ reporter' = [reporter EXCEPT ![r] = "calling"]
  /\ reportMu' = [reportMu EXCEPT ![About[r]] = r]
  /\ network' = network \cup {[op |-> "report", by |-> r]}

ReportLockedUnchecked(r) ==
  /\ reporter[r] = "lock" /\ reportMu[About[r]] = None
  /\ SendReport(r)
  /\ UNCHANGED <<acquireVars, leaseVars, quarantined, session, holder, answer,
                 accepted, refused>>

ReportLocked(r) ==
  /\ reporter[r] = "lock" /\ reportMu[About[r]] = None
  /\ IF About[r] \in quarantined
     THEN reporter' = [reporter EXCEPT ![r] = "skipped"] /\ UNCHANGED <<reportMu, network>>
     ELSE SendReport(r)
  /\ UNCHANGED <<acquireVars, leaseVars, quarantined, session, holder, answer,
                 accepted, refused>>

Reported(r) ==
  /\ reporter[r] = "calling" /\ r \in accepted
  /\ reporter' = [reporter EXCEPT ![r] = "reported"]
  /\ reportMu' = [reportMu EXCEPT ![About[r]] = None]
  /\ quarantined' = quarantined \cup {About[r]}
  /\ Cancel(About[r])
  /\ accepted' = accepted \ {r}
  /\ UNCHANGED <<acquireVars, keep, failures, closing, session, holder, network,
                 answer, refused>>

ReportFails(r) ==
  /\ reporter[r] = "calling"
  /\ reporter' = [reporter EXCEPT ![r] = "failed"]
  /\ reportMu' = [reportMu EXCEPT ![About[r]] = None]
  /\ accepted' = accepted \ {r}
  /\ UNCHANGED <<acquireVars, leaseVars, quarantined, session, holder, network,
                 answer, refused>>

-----------------------------------------------------------------------------
(***************************************************************************)
(* Soxy.  Requests are handled in any order, whether or not the caller     *)
(* still waits; an answer nobody waits for changes nothing.                *)
(***************************************************************************)
Awaited(q) ==
  IF q.op = "create" THEN acq[q.of] = "create"
  ELSE acq[q.of] = "cleanup" \/ closing[q.of] = "releasing"

Answer(q, text) ==
  answer' = IF Awaited(q) THEN [answer EXCEPT ![q.of] = text] ELSE answer

SlotsFor(q) == IF q.slot = None THEN Available ELSE Available \cap {q.slot}

HandleCreate(q) ==
  /\ q.op = "create"
  /\ network' = network \ {q}
  /\ \/ /\ \E s \in SlotsFor(q) : holder' = [holder EXCEPT ![s] = q.of]
        /\ session' = [session EXCEPT ![q.of] = "active"]
        /\ \E text \in {"ready", "unusable"} : Answer(q, text)
        /\ UNCHANGED refused
     \/ /\ SlotsFor(q) = {}
        /\ Answer(q, "refused")
        /\ refused' = [refused EXCEPT ![q.of] = @ \cup ({q.slot} \ {None})]
        /\ UNCHANGED <<session, holder>>
     \/ Answer(q, "error") /\ UNCHANGED <<session, holder, refused>>
  /\ UNCHANGED <<acquireVars, leaseVars, reportVars, accepted>>

EndSession(l, left) ==
  /\ session' = [session EXCEPT ![l] = "gone"]
  /\ holder' = [s \in Slots |-> IF holder[s] = l THEN left ELSE holder[s]]

HandleRelease(q) ==
  /\ q.op = "release"
  /\ network' = network \ {q}
  /\ \/ session[q.of] = "active" /\ EndSession(q.of, None) /\ Answer(q, "released")
     \/ session[q.of] = "gone" /\ Answer(q, "notFound") /\ UNCHANGED <<session, holder>>
     \/ Answer(q, "error") /\ UNCHANGED <<session, holder>>
  /\ UNCHANGED <<acquireVars, leaseVars, reportVars, accepted, refused>>

\* A report ends the session and retires its slot; Soxy may also refuse it.
HandleReport(q) ==
  /\ q.op = "report"
  /\ network' = network \ {q}
  /\ \/ /\ accepted' = IF reporter[q.by] = "calling" THEN accepted \cup {q.by} ELSE accepted
        /\ EndSession(About[q.by], "retired")
     \/ UNCHANGED <<session, holder, accepted>>
  /\ UNCHANGED <<acquireVars, leaseVars, reportVars, answer, refused>>

Expire(l) ==
  /\ session[l] = "active"
  /\ EndSession(l, None)
  /\ UNCHANGED <<acquireVars, leaseVars, reportVars, network, answer, accepted,
                 refused>>

\* The context given to acquire ends.
CancelParent(l) ==
  /\ context[l] = "live"
  /\ Cancel(l)
  /\ UNCHANGED <<acquireVars, keep, failures, closing, reportVars, soxyVars>>

-----------------------------------------------------------------------------
AcquireStep(l) ==
  \/ AvailableSlots(l) \/ ListingFails(l) \/ ChooseSlot(l) \/ NoSlotLeft(l)
  \/ Created(l) \/ CreateRefused(l) \/ CreateFails(l) \/ CleanUp(l) \/ CleanedUp(l)

KeepAliveStep(l) == KeepAliveStops(l) \/ RenewBegins(l) \/ Renewed(l) \/ RenewFails(l)

CloseStep(l) == Release(l) \/ ReleaseReturns(l) \/ ReleaseFails(l)

ReportStep(r) == ReportLocked(r) \/ Reported(r) \/ ReportFails(r)

Next ==
  \/ \E l \in Leases :
       \/ AcquireDirect(l) \/ AcquireSession(l) \/ AcquireScan(l)
       \/ AcquireStep(l) \/ KeepAliveStep(l) \/ Close(l) \/ CloseStep(l)
       \/ Expire(l) \/ CancelParent(l)
  \/ \E r \in Reporters : ReportProviderFailure(r) \/ ReportStep(r)
  \/ \E q \in network :
       HandleCreate(q) \/ HandleRelease(q) \/ HandleReport(q)

Spec == Init /\ [][Next]_vars

(***************************************************************************)
(* Every call has a deadline and every goroutine that can run does run.    *)
(* Nothing obliges Soxy to answer, nor a caller to acquire or to close.    *)
(***************************************************************************)
Fairness ==
  /\ \A l \in Leases :
       WF_vars(AcquireStep(l)) /\ WF_vars(KeepAliveStep(l)) /\ WF_vars(CloseStep(l))
  /\ \A r \in Reporters : WF_vars(ReportStep(r))

FairSpec == Spec /\ Fairness

-----------------------------------------------------------------------------
(***************************************************************************)
(* No session is left behind in Soxy: a Close that returned nil has ended  *)
(* it, whatever a report, an expiry or a renewal did meanwhile, and an     *)
(* acquire that failed leaves none, nor a request that could still create  *)
(* one, unless a call went unanswered (the session then waits for its      *)
(* expiry).  And none is created twice: a scan that goes from slot to      *)
(* slot, with answers lost or late, never occupies two of them.            *)
(***************************************************************************)
NothingLeaks ==
  \A l \in Leases :
    /\ closing[l] = "ok" \/ (acq[l] = "failed" /\ l \notin unanswered) =>
         /\ session[l] # "active"
         /\ ~ \E q \in network : q.op = "create" /\ q.of = l
    /\ \A s, u \in Slots : holder[s] = l /\ holder[u] = l => s = u

(***************************************************************************)
(* ErrNoProxyCapacity is the truth: every slot that was listed as          *)
(* available was tried and Soxy refused it; one slot lost to a competitor  *)
(* is not the end of acquireRandomSoxySession.                             *)
(***************************************************************************)
CapacityMeansAllRefused ==
  \A l \in Leases : failure[l] = "capacity" => listed[l] \subseteq refused[l]

(***************************************************************************)
(* "ReportProviderFailure retires a managed Soxy lease exactly once": of   *)
(* the concurrent reports on a lease at most one is reported, however many *)
(* of them fail before it.                                                 *)
(***************************************************************************)
RetiredOnce ==
  \A r, q \in Reporters :
    reporter[r] = "reported" /\ reporter[q] = "reported" /\ About[r] = About[q] => r = q

(***************************************************************************)
(* "Close releases the lease and stops its renewal loop": the release is   *)
(* sent only after keepAlive has returned, so no renewal can reach Soxy    *)
(* for a session that was given back.                                      *)
(***************************************************************************)
RenewalEndsBeforeRelease ==
  \A l \in Leases :
    keep[l] \in {"wait", "extending"} =>
      /\ closing[l] \notin {"releasing", "ok", "error"}
      /\ ~ \E q \in network : q.op = "release" /\ q.of = l

(***************************************************************************)
(* A lease is what EgressLease promises to the browser factory: whichever  *)
(* of keepAlive, a report, Close and the caller's context ends it first,   *)
(* no late renewal brings it back, and what acquire gave up on or failed   *)
(* to get never becomes a lease.                                           *)
(***************************************************************************)
LeaseState(l) ==
  IF acq[l] # "held" THEN "unused"
  ELSE IF closing[l] # "none" THEN "closed"
  ELSE IF context[l] = "live" THEN "live" ELSE "lost"

Promise == INSTANCE EgressLease WITH state <- [l \in Leases |-> LeaseState(l)]

ImplementsLease == Promise!Spec

(***************************************************************************)
(* The calls on a lease return, whatever Soxy does: Manager.acquire,       *)
(* though all the slots it tries may be taken; Close, because lease.done   *)
(* is closed whichever way keepAlive ends; a report, also when the one     *)
(* before it failed while it held reportMu.                                *)
(***************************************************************************)
LeaseCallsReturn ==
  /\ \A l \in Leases : acq[l] # "idle" ~> acq[l] \in {"held", "failed"}
  /\ \A l \in Leases : closing[l] = "waiting" ~> closing[l] \in {"ok", "error"}
  /\ \A r \in Reporters :
       reporter[r] = "lock" ~> reporter[r] \in {"reported", "skipped", "failed"}

(***************************************************************************)
(* A lease whose session is gone does not stay in use: renewals fail until *)
(* the context ends, so that the browser on it is closed.                  *)
(***************************************************************************)
LostSessionEndsLease ==
  \A l \in Leases : acq[l] = "held" /\ session[l] = "gone" ~> context[l] # "live"

=============================================================================
