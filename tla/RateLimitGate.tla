--------------------------- MODULE RateLimitGate ---------------------------
(***************************************************************************)
(* The per-host circuit breaker of networkcapture/ratelimit.go together    *)
(* with the three browser callbacks that drive it:                         *)
(*                                                                         *)
(*   - the router (Adapter.routeRequest), which runs on a goroutine of its *)
(*     own for every request and asks the gate for permission;             *)
(*   - the response listener (Adapter.observeRateLimitResponse);           *)
(*   - the failure listener (Adapter.observeRateLimitFailure), which the   *)
(*     browser calls for EVERY failed request, the ones the router itself  *)
(*     aborted included.                                                   *)
(*                                                                         *)
(* The two listeners run on the dispatch goroutine of Playwright.  Reading *)
(* the headers of a 429 is a round trip to the driver during which further *)
(* events are dispatched, so it is a step of its own (status "headers").   *)
(* The order in which several such reads resume is left open.              *)
(***************************************************************************)
EXTENDS Integers

CONSTANTS
  Hosts,          \* keys of gate.states
  Requests,       \* request slots of the page; a slot is reused once its request ended
  HostOf,         \* the host every request slot asks
  Fallback,       \* gate.fallback, in ticks
  Maximum,        \* gate.maximum, in ticks
  JitterDivisor,  \* jitter is at most delay/JitterDivisor ...
  JitterCap,      \* ... and at most JitterCap
  HeaderDelays,   \* relative deadlines the provider may send
  HeaderDates,    \* absolute deadlines it may send, past ones included
  MaxNow          \* bound of the clock

ASSUME GateConstants ==
  /\ HostOf \in [Requests -> Hosts]
  /\ Fallback \in Nat \ {0}
  /\ Maximum \in Nat \ {0}
  /\ JitterDivisor \in Nat \ {0}
  /\ JitterCap \in Nat
  /\ HeaderDelays \subseteq Nat
  /\ HeaderDates \subseteq Nat
  /\ MaxNow \in Nat

VARIABLES
  now,        \* the clock
  gate,       \* gate.states, host by host
  status,     \* where each request is
  probe,      \* history: the request took the half-open reservation
  announced   \* history: the latest deadline the host ever put in a 429

vars == <<now, gate, status, probe, announced>>

(***************************************************************************)
(* A missing map entry is a state that is not open; Observe429 starts from *)
(* the zero value, which is the same record.                               *)
(***************************************************************************)
GateState ==
  [open : BOOLEAN, blockedUntil : Nat, failures : Nat, halfOpen : BOOLEAN]

NoState ==
  [open |-> FALSE, blockedUntil |-> 0, failures |-> 0, halfOpen |-> FALSE]

(***************************************************************************)
(* idle: no request.  aborted: refused by the router, its requestfailed    *)
(* event still to come.  sent: with the provider.  headers: a 429 whose    *)
(* headers are being read.  answered: observed, the body still to come.    *)
(***************************************************************************)
Status == {"idle", "aborted", "sent", "headers", "answered"}

InFlight(r) == status[r] \in {"sent", "headers"}

TypeOK ==
  /\ now \in Nat
  /\ gate \in [Hosts -> GateState]
  /\ status \in [Requests -> Status]
  /\ probe \in [Requests -> BOOLEAN]
  /\ announced \in [Hosts -> Nat]

Init ==
  /\ now = 0
  /\ gate = [h \in Hosts |-> NoState]
  /\ status = [r \in Requests |-> "idle"]
  /\ probe = [r \in Requests |-> FALSE]
  /\ announced = [h \in Hosts |-> 0]

-----------------------------------------------------------------------------
(***************************************************************************)
(* The headers of a 429.  retry-after and ratelimit-reset give a delay,    *)
(* retry-after may be an HTTP date and x-ratelimit-reset an epoch: both    *)
(* are absolute.  A delay too large for a Duration wraps to an arbitrary   *)
(* instant, which the absolute deadlines stand for as well.                *)
(***************************************************************************)
Headers ==
  [kind : {"none"}, value : {0}]
    \cup [kind : {"delay"}, value : HeaderDelays]
    \cup [kind : {"date"}, value : HeaderDates]

HasDeadline(hdr) == hdr.kind # "none"

retryDeadline(hdr) == IF hdr.kind = "delay" THEN now + hdr.value ELSE hdr.value

Larger(a, b) == IF a >= b THEN a ELSE b

Smaller(a, b) == IF a <= b THEN a ELSE b

(***************************************************************************)
(* The exponential delay of the n-th consecutive failure, before jitter.   *)
(* The code tests delay > maximum || delay < 0; the delay is never 0.      *)
(***************************************************************************)
FallbackDelay(n) ==
  LET delay == Fallback * 2^Smaller(n - 1, 20)
  IN  IF delay \in 1..Maximum THEN delay ELSE Maximum

Jitters(delay) == {j \in 0..JitterCap : j * JitterDivisor <= delay}

JitteredDelaysUncapped(n) ==
  {FallbackDelay(n) + j : j \in Jitters(FallbackDelay(n))}

JitteredDelays(n) ==
  {Smaller(FallbackDelay(n) + j, Maximum) : j \in Jitters(FallbackDelay(n))}

(***************************************************************************)
(* now.Before(state.blockedUntil), for a state that may be missing.        *)
(***************************************************************************)
Waiting(s) == now < s.blockedUntil

\* The circuit opened again until the instant given, for one more failure.
OpenUntil(s, until) ==
  [open |-> TRUE, blockedUntil |-> until, failures |-> s.failures + 1, halfOpen |-> FALSE]

-----------------------------------------------------------------------------
(***************************************************************************)
(* RateLimitGate.Allow and Blocked: a request is refused while the         *)
(* deadline is ahead or while somebody holds the half-open reservation.    *)
(***************************************************************************)
Refuses(s) == s.open /\ (Waiting(s) \/ s.halfOpen)

(***************************************************************************)
(* RateLimitGate.Observe429.  While the circuit is already waiting, a      *)
(* further 429 may only push the deadline out and is not another failure.  *)
(***************************************************************************)
Observe429EveryTime(h, hdr) ==
  IF HasDeadline(hdr) /\ retryDeadline(hdr) > now
  THEN gate' = [gate EXCEPT ![h] = OpenUntil(@, retryDeadline(hdr))]
  ELSE \E d \in JitteredDelays(gate[h].failures + 1) :
         gate' = [gate EXCEPT ![h] = OpenUntil(@, now + d)]

Observe429(h, hdr) ==
  IF Waiting(gate[h]) /\ ~gate[h].halfOpen
  THEN gate' = [gate EXCEPT ![h].blockedUntil =
                  IF HasDeadline(hdr) THEN Larger(@, retryDeadline(hdr)) ELSE @]
  ELSE IF HasDeadline(hdr) /\ retryDeadline(hdr) > now
  THEN gate' = [gate EXCEPT ![h] = OpenUntil(@, retryDeadline(hdr))]
  ELSE \E d \in JitteredDelays(gate[h].failures + 1) :
         gate' = [gate EXCEPT ![h] = OpenUntil(@, now + d)]

\* RateLimitGate.ObserveSuccess: closes a half-open circuit, nothing else.
ObserveSuccessClosingAny(h) == gate' = [gate EXCEPT ![h] = NoState]

ObserveSuccessStepDown(h) ==
  gate' = IF gate[h].halfOpen
          THEN [gate EXCEPT ![h].failures = @ - 1, ![h].halfOpen = FALSE]
          ELSE gate

ObserveSuccess(h) ==
  gate' = IF gate[h].halfOpen THEN [gate EXCEPT ![h] = NoState] ELSE gate

\* RateLimitGate.ObserveFailure: reopens a half-open circuit, nothing else.
ObserveFailureKeepingReservation(h) == UNCHANGED gate

ObserveFailure(h) ==
  IF gate[h].halfOpen
  THEN \E d \in JitteredDelays(gate[h].failures + 1) :
         gate' = [gate EXCEPT ![h] = OpenUntil(@, now + d)]
  ELSE UNCHANGED gate

-----------------------------------------------------------------------------
(***************************************************************************)
(* Adapter.routeRequest.  The resource filter is consulted before the gate *)
(* and the gate only for what the filter lets through.                     *)
(***************************************************************************)
RouteFiltered(r) ==
  /\ status[r] = "idle"
  /\ status' = [status EXCEPT ![r] = "aborted"]
  /\ probe' = [probe EXCEPT ![r] = FALSE]
  /\ UNCHANGED <<now, gate, announced>>

RouteRefused(r) ==
  /\ status[r] = "idle"
  /\ Refuses(gate[HostOf[r]])
  /\ status' = [status EXCEPT ![r] = "aborted"]
  /\ probe' = [probe EXCEPT ![r] = FALSE]
  /\ UNCHANGED <<now, gate, announced>>

RouteContinued(r) ==
  /\ status[r] = "idle"
  /\ ~Refuses(gate[HostOf[r]])
  /\ status' = [status EXCEPT ![r] = "sent"]
  /\ probe' = [probe EXCEPT ![r] = gate[HostOf[r]].open]
  /\ gate' = [gate EXCEPT ![HostOf[r]].halfOpen = gate[HostOf[r]].open]
  /\ UNCHANGED <<now, announced>>

(***************************************************************************)
(* Adapter.observeRateLimitResponse.                                       *)
(***************************************************************************)
ResponseOther(r) ==
  /\ status[r] = "sent"
  /\ ObserveSuccess(HostOf[r])
  /\ status' = [status EXCEPT ![r] = "answered"]
  /\ UNCHANGED <<now, probe, announced>>

Response429(r) ==
  /\ status[r] = "sent"
  /\ status' = [status EXCEPT ![r] = "headers"]
  /\ UNCHANGED <<now, gate, probe, announced>>

HeadersRead(r, hdr) ==
  LET h == HostOf[r]
  IN  /\ status[r] = "headers"
      /\ Observe429(h, hdr)
      /\ status' = [status EXCEPT ![r] = "answered"]
      /\ announced' = [announced EXCEPT ![h] =
                         IF HasDeadline(hdr) THEN Larger(@, retryDeadline(hdr)) ELSE @]
      /\ UNCHANGED <<now, probe>>

(***************************************************************************)
(* Adapter.logProviderRequestFailed and logProviderRequest.  A request     *)
(* fails after the router aborted it, without a response, or while its     *)
(* body is being read.                                                     *)
(***************************************************************************)
RequestFailed(r) ==
  /\ status[r] \in {"aborted", "sent", "answered"}
  /\ ObserveFailure(HostOf[r])
  /\ status' = [status EXCEPT ![r] = "idle"]
  /\ UNCHANGED <<now, probe, announced>>

RequestFinished(r) ==
  /\ status[r] = "answered"
  /\ status' = [status EXCEPT ![r] = "idle"]
  /\ UNCHANGED <<now, gate, probe, announced>>

Tick ==
  /\ now < MaxNow
  /\ now' = now + 1
  /\ UNCHANGED <<gate, status, probe, announced>>

Next ==
  \/ Tick
  \/ \E r \in Requests :
       \/ RouteFiltered(r)
       \/ RouteRefused(r)
       \/ RouteContinued(r)
       \/ ResponseOther(r)
       \/ Response429(r)
       \/ \E hdr \in Headers : HeadersRead(r, hdr)
       \/ RequestFailed(r)
       \/ RequestFinished(r)

(***************************************************************************)
(* The browser ends every request it was allowed to send, with a response  *)
(* or a failure, and the driver answers the read of the headers.           *)
(***************************************************************************)
Fairness ==
  \A r \in Requests :
    /\ WF_vars(ResponseOther(r) \/ Response429(r) \/ (status[r] = "sent" /\ RequestFailed(r)))
    /\ WF_vars(\E hdr \in Headers : HeadersRead(r, hdr))

Spec == Init /\ [][Next]_vars

FairSpec == Spec /\ Fairness

-----------------------------------------------------------------------------
(***************************************************************************)
(* Whoever holds the half-open reservation is on the wire: a reservation   *)
(* whose request ended unnoticed would refuse the host for ever, because   *)
(* Allow hands out no other (ratelimit.go, Allow and the three Observes).  *)
(***************************************************************************)
HalfOpenHasProbe ==
  \A h \in Hosts : gate[h].halfOpen =>
    \E r \in Requests : HostOf[r] = h /\ probe[r] /\ InFlight(r)

(***************************************************************************)
(* No request leaves for a host before a deadline that host announced in a *)
(* 429, however many answers of earlier requests, good or bad, arrive in   *)
(* between (Observe429, ObserveSuccess, ObserveFailure, Allow).            *)
(***************************************************************************)
ProviderDeadlineHonoured ==
  [][\A r \in Requests :
       status[r] = "idle" /\ status'[r] = "sent" => now >= announced[HostOf[r]]]_vars

(***************************************************************************)
(* A deadline the provider did not ask for is never further away than the  *)
(* maximum fallback, jitter included (Observe429, ObserveFailure).         *)
(***************************************************************************)
BackoffBounded ==
  \A h \in Hosts :
    \/ gate[h].blockedUntil <= now + Maximum
    \/ gate[h].blockedUntil <= announced[h]

(***************************************************************************)
(* A burst of 429s for requests that were on the wire together is one      *)
(* failure: the count behind the exponential delay grows only once the     *)
(* previous deadline has passed (Observe429, "active_circuit").            *)
(***************************************************************************)
BurstCountsOnce ==
  [][\A h \in Hosts :
       gate'[h].failures > gate[h].failures => now >= gate[h].blockedUntil]_vars

(***************************************************************************)
(* A half-open circuit is decided: closed by a response or reopened.       *)
(***************************************************************************)
HalfOpenResolves ==
  \A h \in Hosts : gate[h].halfOpen ~> ~gate[h].halfOpen

(***************************************************************************)
(* What the comment on ObserveFailure says, "reopens a half-open circuit   *)
(* when its single probe fails before any HTTP response arrives": the      *)
(* failure event of a request the router aborted, which never left and so  *)
(* is not the probe, leaves the gate alone.                                *)
(***************************************************************************)
AbortedRequestNeverReopens ==
  [][\A r \in Requests :
       status[r] = "aborted" /\ status'[r] = "idle" => gate' = gate]_vars

=============================================================================
