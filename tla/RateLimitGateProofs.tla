------------------------ MODULE RateLimitGateProofs ------------------------
(***************************************************************************)
(* Proofs about RateLimitGate for every set of hosts and requests and      *)
(* every choice of delays.                                                 *)
(***************************************************************************)
EXTENDS RateLimitGate, TLAPS

(***************************************************************************)
(* The strengthening.  A missing state has the zero deadline; a            *)
(* reservation is only given once the deadline has passed; and a deadline  *)
(* the provider announced is either over or still the gate's own.          *)
(***************************************************************************)
ClosedIsZero ==
  \A h \in Hosts : ~gate[h].open => gate[h].blockedUntil = 0 /\ ~gate[h].halfOpen

HalfOpenIsPast ==
  \A h \in Hosts : gate[h].halfOpen => gate[h].blockedUntil <= now

AnnouncedIsKept ==
  \A h \in Hosts : announced[h] <= gate[h].blockedUntil \/ announced[h] <= now

GateInv ==
  /\ TypeOK
  /\ ClosedIsZero
  /\ HalfOpenIsPast
  /\ AnnouncedIsKept
  /\ BackoffBounded

-----------------------------------------------------------------------------
\* The delay of a failure lies between one tick and the maximum.
LEMMA DelayBounds ==
  ASSUME NEW n, NEW d \in JitteredDelays(n)
  PROVE  d \in 1..Maximum
<1>1. FallbackDelay(n) \in 1..Maximum
  BY GateConstants DEF FallbackDelay
<1>2. PICK j \in 0..JitterCap : d = Smaller(FallbackDelay(n) + j, Maximum)
  BY DEF JitteredDelays, Jitters
<1>3. QED BY <1>1, <1>2, GateConstants DEF Smaller

\* A deadline read from the headers is an instant.
LEMMA DeadlineType ==
  ASSUME NEW hdr \in Headers, HasDeadline(hdr), now \in Nat
  PROVE  retryDeadline(hdr) \in Nat
<1>1. CASE hdr \in [kind : {"none"}, value : {0}]
  BY <1>1 DEF HasDeadline
<1>2. CASE hdr \in [kind : {"delay"}, value : HeaderDelays]
  <2>1. hdr.kind = "delay" /\ hdr.value \in Nat
    BY <1>2, GateConstants
  <2>2. QED BY <2>1 DEF retryDeadline
<1>3. CASE hdr \in [kind : {"date"}, value : HeaderDates]
  <2>1. hdr.kind = "date" /\ hdr.value \in Nat
    BY <1>3, GateConstants
  <2>2. QED BY <2>1 DEF retryDeadline
<1>4. QED BY <1>1, <1>2, <1>3 DEF Headers

(***************************************************************************)
(* What Observe429 leaves in the gate: either the circuit was waiting and  *)
(* its deadline may have moved out to the announced one, or it opens again *)
(* until a later instant, which is the announced one or within Maximum.    *)
(***************************************************************************)
LEMMA Observe429Effect ==
  ASSUME TypeOK, NEW h \in Hosts, NEW hdr \in Headers, Observe429(h, hdr)
  PROVE  \/ /\ now < gate[h].blockedUntil /\ ~gate[h].halfOpen
            /\ \E u \in Nat :
                 /\ gate' = [gate EXCEPT ![h].blockedUntil = u]
                 /\ u >= gate[h].blockedUntil
                 /\ HasDeadline(hdr) => u >= retryDeadline(hdr)
                 /\ u = gate[h].blockedUntil \/ (HasDeadline(hdr) /\ u = retryDeadline(hdr))
         \/ /\ ~(now < gate[h].blockedUntil /\ ~gate[h].halfOpen)
            /\ \E u \in Nat :
                 /\ gate' = [gate EXCEPT ![h] = OpenUntil(gate[h], u)]
                 /\ u > now
                 /\ \/ HasDeadline(hdr) /\ u = retryDeadline(hdr)
                    \/ /\ HasDeadline(hdr) => retryDeadline(hdr) <= now
                       /\ u <= now + Maximum
<1>1. now \in Nat /\ gate[h] \in GateState /\ gate \in [Hosts -> GateState]
  BY DEF TypeOK
<1>2. CASE Waiting(gate[h]) /\ ~gate[h].halfOpen
  <2> DEFINE u == IF HasDeadline(hdr)
                  THEN Larger(gate[h].blockedUntil, retryDeadline(hdr))
                  ELSE gate[h].blockedUntil
  <2>1. gate' = [gate EXCEPT ![h].blockedUntil = u]
    BY <1>1, <1>2 DEF Observe429
  <2>2. u \in Nat /\ u >= gate[h].blockedUntil /\ (HasDeadline(hdr) => u >= retryDeadline(hdr))
    BY <1>1, DeadlineType DEF Larger, GateState
  <2>3. u = gate[h].blockedUntil \/ (HasDeadline(hdr) /\ u = retryDeadline(hdr))
    BY DEF Larger
  <2> HIDE DEF u
  <2>4. QED BY <1>2, <2>1, <2>2, <2>3 DEF Waiting
<1>3. CASE ~(Waiting(gate[h]) /\ ~gate[h].halfOpen) /\ HasDeadline(hdr) /\ retryDeadline(hdr) > now
  <2>1. gate' = [gate EXCEPT ![h] = OpenUntil(gate[h], retryDeadline(hdr))]
    BY <1>1, <1>3 DEF Observe429
  <2>2. retryDeadline(hdr) \in Nat
    BY <1>1, <1>3, DeadlineType
  <2>3. QED BY <1>3, <2>1, <2>2 DEF Waiting
<1>4. CASE ~(Waiting(gate[h]) /\ ~gate[h].halfOpen) /\ ~(HasDeadline(hdr) /\ retryDeadline(hdr) > now)
  <2>1. PICK d \in JitteredDelays(gate[h].failures + 1) :
          gate' = [gate EXCEPT ![h] = OpenUntil(gate[h], now + d)]
    BY <1>1, <1>4 DEF Observe429
  <2>2. d \in 1..Maximum
    BY DelayBounds
  <2>3. HasDeadline(hdr) => retryDeadline(hdr) <= now
    BY <1>1, <1>4, DeadlineType
  <2>4. now + d \in Nat /\ now + d > now /\ now + d <= now + Maximum
    BY <1>1, <2>2, GateConstants
  <2>5. QED BY <1>4, <2>1, <2>3, <2>4 DEF Waiting
<1>5. QED BY <1>2, <1>3, <1>4

\* What ObserveFailure leaves in the gate.
LEMMA ObserveFailureEffect ==
  ASSUME TypeOK, NEW h \in Hosts, ObserveFailure(h)
  PROVE  \/ ~gate[h].halfOpen /\ gate' = gate
         \/ /\ gate[h].halfOpen
            /\ \E u \in Nat : /\ gate' = [gate EXCEPT ![h] = OpenUntil(gate[h], u)]
                              /\ u > now /\ u <= now + Maximum
<1>1. now \in Nat /\ gate[h] \in GateState /\ gate \in [Hosts -> GateState]
  BY DEF TypeOK
<1>2. CASE gate[h].halfOpen
  <2>1. PICK d \in JitteredDelays(gate[h].failures + 1) :
          gate' = [gate EXCEPT ![h] = OpenUntil(gate[h], now + d)]
    BY <1>1, <1>2 DEF ObserveFailure
  <2>2. d \in 1..Maximum
    BY DelayBounds
  <2>3. now + d \in Nat /\ now + d > now /\ now + d <= now + Maximum
    BY <1>1, <2>2, GateConstants
  <2>4. QED BY <1>2, <2>1, <2>3
<1>3. CASE ~gate[h].halfOpen
  BY <1>3 DEF ObserveFailure
<1>4. QED BY <1>2, <1>3

-----------------------------------------------------------------------------
\* The initial state, with every circuit closed, satisfies GateInv.
LEMMA GateInvInit == Init => GateInv
BY GateConstants
   DEF Init, GateInv, TypeOK, GateState, NoState, Status, ClosedIsZero,
       HalfOpenIsPast, AnnouncedIsKept, BackoffBounded

\* GateInv survives the three operations of the gate and the clock.
LEMMA GateInvNext == GateInv /\ [Next]_vars => GateInv'
<1> SUFFICES ASSUME GateInv, [Next]_vars PROVE GateInv'
  OBVIOUS
<1> USE GateConstants DEF GateInv
<1>1. CASE Tick
  BY <1>1 DEF Tick, TypeOK, GateState, ClosedIsZero, HalfOpenIsPast, AnnouncedIsKept, BackoffBounded
<1>2. ASSUME NEW r \in Requests, RouteFiltered(r) \/ RouteRefused(r)
      PROVE  GateInv'
  BY <1>2 DEF RouteFiltered, RouteRefused, TypeOK, Status, ClosedIsZero, HalfOpenIsPast,
              AnnouncedIsKept, BackoffBounded
<1>3. ASSUME NEW r \in Requests, RouteContinued(r)
      PROVE  GateInv'
  <2>1. HostOf[r] \in Hosts
    OBVIOUS
  <2>2. TypeOK'
    BY <1>3, <2>1 DEF RouteContinued, TypeOK, GateState, Status
  <2>3. \A h \in Hosts : /\ gate'[h].blockedUntil = gate[h].blockedUntil
                         /\ gate'[h].open = gate[h].open
                         /\ gate'[h].halfOpen =>
                              gate[h].halfOpen \/ (gate[h].open /\ gate[h].blockedUntil <= now)
    BY <1>3, <2>1 DEF RouteContinued, Refuses, Waiting, TypeOK, GateState
  <2>4. QED
    BY <1>3, <2>2, <2>3 DEF RouteContinued, ClosedIsZero, HalfOpenIsPast, AnnouncedIsKept,
                            BackoffBounded
<1>4. ASSUME NEW r \in Requests, ResponseOther(r)
      PROVE  GateInv'
  <2>1. HostOf[r] \in Hosts
    OBVIOUS
  <2>2. TypeOK'
    BY <1>4, <2>1 DEF ResponseOther, ObserveSuccess, TypeOK, GateState, NoState, Status
  <2>3. \A h \in Hosts : \/ gate'[h] = gate[h]
                         \/ gate'[h] = NoState /\ gate[h].halfOpen
    BY <1>4, <2>1 DEF ResponseOther, ObserveSuccess, TypeOK
  <2>4. QED
    BY <1>4, <2>2, <2>3 DEF ResponseOther, NoState, TypeOK, GateState, ClosedIsZero,
                            HalfOpenIsPast, AnnouncedIsKept, BackoffBounded
<1>5. ASSUME NEW r \in Requests, Response429(r) \/ RequestFinished(r)
      PROVE  GateInv'
  BY <1>5 DEF Response429, RequestFinished, TypeOK, Status, ClosedIsZero, HalfOpenIsPast,
              AnnouncedIsKept, BackoffBounded
<1>6. ASSUME NEW r \in Requests, NEW hdr \in Headers, HeadersRead(r, hdr)
      PROVE  GateInv'
  <2> DEFINE h == HostOf[r]
  <2>1. h \in Hosts /\ Observe429(h, hdr) /\ now' = now /\ probe' = probe
    BY <1>6 DEF HeadersRead
  <2>2. now \in Nat /\ gate[h] \in GateState /\ gate \in [Hosts -> GateState] /\ announced[h] \in Nat
    BY <2>1 DEF TypeOK
  <2>3. /\ announced' = [announced EXCEPT ![h] = announced'[h]]
        /\ announced'[h] \in Nat
        /\ announced'[h] = announced[h] \/ (HasDeadline(hdr) /\ announced'[h] = retryDeadline(hdr))
        /\ HasDeadline(hdr) => announced'[h] >= retryDeadline(hdr)
    BY <1>6, <2>1, <2>2, DeadlineType DEF HeadersRead, Larger, TypeOK
  <2>4. status' \in [Requests -> Status]
    BY <1>6 DEF HeadersRead, TypeOK, Status
  <2>5. CASE /\ now < gate[h].blockedUntil /\ ~gate[h].halfOpen
             /\ \E u \in Nat :
                  /\ gate' = [gate EXCEPT ![h].blockedUntil = u]
                  /\ u >= gate[h].blockedUntil
                  /\ HasDeadline(hdr) => u >= retryDeadline(hdr)
                  /\ u = gate[h].blockedUntil \/ (HasDeadline(hdr) /\ u = retryDeadline(hdr))
    <3>1. PICK u \in Nat :
                  /\ gate' = [gate EXCEPT ![h].blockedUntil = u]
                  /\ u >= gate[h].blockedUntil
                  /\ HasDeadline(hdr) => u >= retryDeadline(hdr)
                  /\ u = gate[h].blockedUntil \/ (HasDeadline(hdr) /\ u = retryDeadline(hdr))
      BY <2>5
    <3>2. TypeOK'
      BY <2>1, <2>2, <2>3, <2>4, <3>1 DEF TypeOK, GateState
    <3>3. gate[h].open
      BY <2>1, <2>2, <2>5 DEF ClosedIsZero, GateState
    <3>4. \A k \in Hosts \ {h} : gate'[k] = gate[k] /\ announced'[k] = announced[k]
      BY <2>1, <2>2, <2>3, <3>1 DEF TypeOK
    <3>5. /\ gate'[h].blockedUntil = u /\ gate'[h].open = gate[h].open
          /\ gate'[h].halfOpen = gate[h].halfOpen
      BY <2>1, <2>2, <3>1 DEF GateState
    <3> HIDE DEF h
    <3>6. ClosedIsZero' /\ HalfOpenIsPast'
      BY <2>1, <2>5, <3>3, <3>4, <3>5 DEF ClosedIsZero, HalfOpenIsPast
    <3>7. announced'[h] <= u \/ announced'[h] <= now
      BY <2>1, <2>2, <2>3, <3>1 DEF AnnouncedIsKept, GateState
    <3>8. u <= now + Maximum \/ u <= announced'[h]
      <4>1. CASE HasDeadline(hdr) /\ u = retryDeadline(hdr)
        BY <4>1, <2>3
      <4>2. CASE u = gate[h].blockedUntil
        <5>1. announced'[h] >= announced[h]
          <6>1. CASE announced'[h] = announced[h]
            BY <6>1, <2>2
          <6>2. CASE HasDeadline(hdr) /\ announced'[h] = retryDeadline(hdr)
            BY <6>2, <1>6, <2>1, <2>2, DeadlineType DEF HeadersRead, Larger, TypeOK, h
          <6>3. QED BY <6>1, <6>2, <2>3
        <5>2. QED BY <4>2, <5>1, <2>1, <2>2, <2>3 DEF BackoffBounded
      <4>3. QED BY <4>1, <4>2, <3>1
    <3>9. AnnouncedIsKept' /\ BackoffBounded'
      BY <2>1, <3>4, <3>5, <3>7, <3>8 DEF AnnouncedIsKept, BackoffBounded
    <3>10. QED BY <3>2, <3>6, <3>9
  <2>6. CASE /\ ~(now < gate[h].blockedUntil /\ ~gate[h].halfOpen)
             /\ \E u \in Nat :
                  /\ gate' = [gate EXCEPT ![h] = OpenUntil(gate[h], u)]
                  /\ u > now
                  /\ \/ HasDeadline(hdr) /\ u = retryDeadline(hdr)
                     \/ /\ HasDeadline(hdr) => retryDeadline(hdr) <= now
                        /\ u <= now + Maximum
    <3>1. PICK u \in Nat :
                  /\ gate' = [gate EXCEPT ![h] = OpenUntil(gate[h], u)]
                  /\ u > now
                  /\ \/ HasDeadline(hdr) /\ u = retryDeadline(hdr)
                     \/ /\ HasDeadline(hdr) => retryDeadline(hdr) <= now
                        /\ u <= now + Maximum
      BY <2>6
    <3>2. TypeOK'
      BY <2>1, <2>2, <2>3, <2>4, <3>1 DEF TypeOK, GateState, OpenUntil
    <3>3. gate[h].blockedUntil <= now
      BY <2>1, <2>2, <2>6 DEF HalfOpenIsPast, GateState
    <3>4. \A k \in Hosts \ {h} : gate'[k] = gate[k] /\ announced'[k] = announced[k]
      BY <2>1, <2>2, <2>3, <3>1 DEF TypeOK
    <3>5. gate'[h].blockedUntil = u /\ gate'[h].open /\ ~gate'[h].halfOpen
      BY <2>1, <2>2, <3>1 DEF OpenUntil
    <3> HIDE DEF h
    <3>6. ClosedIsZero' /\ HalfOpenIsPast'
      BY <2>1, <3>4, <3>5 DEF ClosedIsZero, HalfOpenIsPast
    <3>7. announced[h] <= now
      BY <2>1, <2>2, <3>3 DEF AnnouncedIsKept, GateState
    <3>8. announced'[h] <= u
      BY <2>1, <2>2, <2>3, <3>1, <3>7
    <3>9. u <= now + Maximum \/ u <= announced'[h]
      BY <2>2, <2>3, <3>1
    <3>10. AnnouncedIsKept' /\ BackoffBounded'
      BY <2>1, <3>4, <3>5, <3>8, <3>9 DEF AnnouncedIsKept, BackoffBounded
    <3>11. QED BY <3>2, <3>6, <3>10
  <2>7. QED BY <2>1, <2>5, <2>6, Observe429Effect
<1>7. ASSUME NEW r \in Requests, RequestFailed(r)
      PROVE  GateInv'
  <2> DEFINE h == HostOf[r]
  <2>1. h \in Hosts /\ ObserveFailure(h) /\ now' = now /\ probe' = probe /\ announced' = announced
    BY <1>7 DEF RequestFailed
  <2>2. now \in Nat /\ gate[h] \in GateState /\ gate \in [Hosts -> GateState]
    BY <2>1 DEF TypeOK
  <2>3. status' \in [Requests -> Status]
    BY <1>7 DEF RequestFailed, TypeOK, Status
  <2>4. CASE gate' = gate
    BY <2>1, <2>3, <2>4 DEF TypeOK, ClosedIsZero, HalfOpenIsPast, AnnouncedIsKept, BackoffBounded
  <2>5. CASE /\ gate[h].halfOpen
             /\ \E u \in Nat : /\ gate' = [gate EXCEPT ![h] = OpenUntil(gate[h], u)]
                               /\ u > now /\ u <= now + Maximum
    <3>1. PICK u \in Nat : /\ gate' = [gate EXCEPT ![h] = OpenUntil(gate[h], u)]
                           /\ u > now /\ u <= now + Maximum
      BY <2>5
    <3>2. TypeOK'
      BY <2>1, <2>2, <2>3, <3>1 DEF TypeOK, GateState, OpenUntil
    <3>3. \A k \in Hosts \ {h} : gate'[k] = gate[k]
      BY <2>1, <2>2, <3>1
    <3>4. gate'[h].blockedUntil = u /\ gate'[h].open /\ ~gate'[h].halfOpen
      BY <2>1, <2>2, <3>1 DEF OpenUntil
    <3> HIDE DEF h
    <3>5. announced[h] <= now
      BY <2>1, <2>2, <2>5 DEF AnnouncedIsKept, HalfOpenIsPast, GateState, TypeOK
    <3>6. QED
      BY <2>1, <2>2, <3>1, <3>2, <3>3, <3>4, <3>5
      DEF ClosedIsZero, HalfOpenIsPast, AnnouncedIsKept, BackoffBounded, TypeOK
  <2>6. QED BY <2>1, <2>4, <2>5, ObserveFailureEffect
<1>8. CASE UNCHANGED vars
  BY <1>8 DEF vars, TypeOK, ClosedIsZero, HalfOpenIsPast, AnnouncedIsKept, BackoffBounded
<1>9. QED
  BY <1>1, <1>2, <1>3, <1>4, <1>5, <1>6, <1>7, <1>8 DEF Next

\* Hence GateInv holds in every reachable state.
LEMMA GateInvariant == Spec => []GateInv
BY GateInvInit, GateInvNext, PTL DEF Spec

-----------------------------------------------------------------------------
(***************************************************************************)
(* The variables of the gate and of its callers keep their types for every *)
(* set of hosts and requests (RateLimitGate and the Adapter's listeners).  *)
(***************************************************************************)
THEOREM TypeCorrect == Spec => []TypeOK
BY GateInvariant, PTL DEF GateInv

(***************************************************************************)
(* Without a header of the provider's the circuit never stays shut longer  *)
(* than the maximum fallback, whatever the jitter (Observe429,             *)
(* ObserveFailure).                                                        *)
(***************************************************************************)
THEOREM BackoffStaysBounded == Spec => []BackoffBounded
BY GateInvariant, PTL DEF GateInv

(***************************************************************************)
(* No request is routed to a host before a deadline the host announced.    *)
(* The argument: a deadline still ahead is at most the gate's own          *)
(* (AnnouncedIsKept), an open gate whose deadline is ahead refuses, and a  *)
(* missing state has no deadline at all (ClosedIsZero).                    *)
(***************************************************************************)
THEOREM DeadlineHonoured == Spec => ProviderDeadlineHonoured
<1>1. GateInv /\ [Next]_vars
        => [\A r \in Requests :
              status[r] = "idle" /\ status'[r] = "sent" => now >= announced[HostOf[r]]]_vars
  <2> SUFFICES ASSUME GateInv, Next, NEW r \in Requests,
                      status[r] = "idle", status'[r] = "sent"
               PROVE  now >= announced[HostOf[r]]
    OBVIOUS
  <2>1. RouteContinued(r)
    <3>1. status \in [Requests -> Status]
      BY DEF GateInv, TypeOK
    <3>2. QED
      BY <3>1 DEF Next, Tick, RouteFiltered, RouteRefused, RouteContinued, ResponseOther,
                  Response429, HeadersRead, RequestFailed, RequestFinished
  <2>2. HostOf[r] \in Hosts
    BY GateConstants
  <2>3. ~Refuses(gate[HostOf[r]])
    BY <2>1 DEF RouteContinued
  <2>4. gate[HostOf[r]].blockedUntil <= now
    BY <2>2, <2>3 DEF Refuses, Waiting, GateInv, ClosedIsZero, TypeOK, GateState
  <2>5. QED
    BY <2>2, <2>4 DEF GateInv, AnnouncedIsKept, TypeOK, GateState
<1>2. QED
  BY <1>1, GateInvariant, PTL DEF Spec, ProviderDeadlineHonoured

(***************************************************************************)
(* A burst of 429s is one failure (Observe429): the count grows only once  *)
(* the deadline is over, since a reservation implies the same.             *)
(***************************************************************************)
THEOREM BurstIsOneFailure == Spec => BurstCountsOnce
<1>1. GateInv /\ [Next]_vars
        => [\A h \in Hosts :
              gate'[h].failures > gate[h].failures => now >= gate[h].blockedUntil]_vars
  <2> SUFFICES ASSUME GateInv, Next, NEW h \in Hosts, gate'[h].failures > gate[h].failures
               PROVE  now >= gate[h].blockedUntil
    OBVIOUS
  <2>1. now \in Nat /\ gate[h] \in GateState /\ gate \in [Hosts -> GateState]
    BY DEF GateInv, TypeOK
  <2>2. ASSUME NEW r \in Requests, NEW hdr \in Headers, HeadersRead(r, hdr)
        PROVE  now >= gate[h].blockedUntil
    <3>1. HostOf[r] \in Hosts /\ Observe429(HostOf[r], hdr)
      BY <2>2, GateConstants DEF HeadersRead
    <3>2. CASE h = HostOf[r] /\ now < gate[h].blockedUntil /\ ~gate[h].halfOpen
      <4>1. gate'[h].failures = gate[h].failures
        BY <2>1, <3>1, <3>2 DEF Observe429, Waiting, GateState
      <4>2. QED BY <2>1, <4>1 DEF GateState
    <3>3. CASE h = HostOf[r] /\ ~(now < gate[h].blockedUntil /\ ~gate[h].halfOpen)
      BY <2>1, <3>3 DEF GateInv, HalfOpenIsPast, GateState
    <3>4. CASE h # HostOf[r]
      <4>1. gate'[h] = gate[h]
        BY <2>1, <3>1, <3>4 DEF Observe429
      <4>2. QED BY <2>1, <4>1 DEF GateState
    <3>5. QED BY <3>2, <3>3, <3>4
  <2>3. ASSUME NEW r \in Requests, RequestFailed(r)
        PROVE  now >= gate[h].blockedUntil
    <3>1. HostOf[r] \in Hosts /\ ObserveFailure(HostOf[r])
      BY <2>3, GateConstants DEF RequestFailed
    <3>2. CASE gate[h].halfOpen
      BY <2>1, <3>2 DEF GateInv, HalfOpenIsPast, GateState
    <3>3. CASE ~gate[h].halfOpen
      <4>1. gate'[h] = gate[h]
        BY <2>1, <3>1, <3>3 DEF ObserveFailure
      <4>2. QED BY <2>1, <4>1 DEF GateState
    <3>4. QED BY <3>2, <3>3
  <2>4. ASSUME NEW r \in Requests, RouteContinued(r)
        PROVE  now >= gate[h].blockedUntil
    <3>1. gate'[h].failures = gate[h].failures
      BY <2>1, <2>4, GateConstants DEF RouteContinued, GateState
    <3>2. QED BY <2>1, <3>1 DEF GateState
  <2>5. ASSUME NEW r \in Requests, ResponseOther(r)
        PROVE  now >= gate[h].blockedUntil
    <3>1. gate'[h] = gate[h] \/ gate'[h] = NoState
      BY <2>1, <2>5, GateConstants DEF ResponseOther, ObserveSuccess
    <3>2. QED BY <2>1, <3>1 DEF GateState, NoState
  <2>6. CASE gate' = gate
    BY <2>1, <2>6 DEF GateState
  <2>7. QED
    BY <2>2, <2>3, <2>4, <2>5, <2>6
    DEF Next, Tick, RouteFiltered, RouteRefused, Response429, RequestFinished
<1>2. QED
  BY <1>1, GateInvariant, PTL DEF Spec, BurstCountsOnce

(***************************************************************************)
(* A reservation is never orphaned: while the circuit is half-open the     *)
(* request that took the reservation is still on the wire, so one of its   *)
(* events will decide the circuit (Allow, the three Observes).             *)
(***************************************************************************)
THEOREM ReservationIsHeld == Spec => []HalfOpenHasProbe
<1> USE GateConstants
<1>1. Init => HalfOpenHasProbe
  BY DEF Init, HalfOpenHasProbe, NoState
<1>2. TypeOK /\ HalfOpenHasProbe /\ [Next]_vars => HalfOpenHasProbe'
  <2> SUFFICES ASSUME TypeOK, HalfOpenHasProbe, [Next]_vars,
                      NEW h \in Hosts, gate'[h].halfOpen
               PROVE  (\E r \in Requests : HostOf[r] = h /\ probe[r] /\ InFlight(r))'
    BY DEF HalfOpenHasProbe
  <2> USE DEF InFlight
  <2>1. gate[h] \in GateState /\ gate \in [Hosts -> GateState] /\ now \in Nat
    BY DEF TypeOK
  <2>2. gate[h].halfOpen => \E r \in Requests : HostOf[r] = h /\ probe[r] /\ InFlight(r)
    BY DEF HalfOpenHasProbe
  <2>3. CASE Tick \/ UNCHANGED vars
    BY <2>2, <2>3 DEF Tick, vars
  <2>4. ASSUME NEW q \in Requests,
               RouteFiltered(q) \/ RouteRefused(q) \/ Response429(q) \/ RequestFinished(q)
        PROVE  (\E r \in Requests : HostOf[r] = h /\ probe[r] /\ InFlight(r))'
    <3>1. gate' = gate
      BY <2>4 DEF RouteFiltered, RouteRefused, Response429, RequestFinished
    <3>2. PICK r \in Requests : HostOf[r] = h /\ probe[r] /\ InFlight(r)
      BY <2>2, <3>1
    <3>3. probe'[r] /\ status'[r] \in {"sent", "headers"}
      BY <2>4, <3>2 DEF RouteFiltered, RouteRefused, Response429, RequestFinished, TypeOK
    <3>4. QED BY <3>2, <3>3
  <2>5. ASSUME NEW q \in Requests, RouteContinued(q)
        PROVE  (\E r \in Requests : HostOf[r] = h /\ probe[r] /\ InFlight(r))'
    <3>1. CASE HostOf[q] = h
      BY <2>1, <2>5, <3>1 DEF RouteContinued, TypeOK, GateState
    <3>2. CASE HostOf[q] # h
      <4>1. gate'[h] = gate[h]
        BY <2>1, <2>5, <3>2 DEF RouteContinued
      <4>2. PICK r \in Requests : HostOf[r] = h /\ probe[r] /\ InFlight(r)
        BY <2>2, <4>1
      <4>3. QED BY <2>5, <3>2, <4>2 DEF RouteContinued, TypeOK
    <3>3. QED BY <3>1, <3>2
  <2>6. ASSUME NEW q \in Requests, HostOf[q] # h,
               status'[q] \in Status, gate'[h] = gate[h], probe' = probe,
               status' = [status EXCEPT ![q] = status'[q]]
        PROVE  (\E r \in Requests : HostOf[r] = h /\ probe[r] /\ InFlight(r))'
    <3>1. PICK r \in Requests : HostOf[r] = h /\ probe[r] /\ InFlight(r)
      BY <2>2, <2>6
    <3>2. status'[r] = status[r]
      BY <2>6, <3>1 DEF TypeOK
    <3>3. QED BY <2>6, <3>1, <3>2
  <2>7. ASSUME NEW q \in Requests, ResponseOther(q)
        PROVE  (\E r \in Requests : HostOf[r] = h /\ probe[r] /\ InFlight(r))'
    <3>1. HostOf[q] # h /\ gate'[h] = gate[h]
      BY <2>1, <2>7 DEF ResponseOther, ObserveSuccess, NoState
    <3>2. QED BY <2>6, <2>7, <3>1 DEF ResponseOther, TypeOK, Status
  <2>8. ASSUME NEW q \in Requests, NEW hdr \in Headers, HeadersRead(q, hdr)
        PROVE  (\E r \in Requests : HostOf[r] = h /\ probe[r] /\ InFlight(r))'
    <3>1. Observe429(HostOf[q], hdr)
      BY <2>8 DEF HeadersRead
    <3>2. HostOf[q] # h /\ gate'[h] = gate[h]
      BY <2>1, <3>1 DEF Observe429, OpenUntil, Waiting, GateState
    <3>3. QED BY <2>6, <2>8, <3>2 DEF HeadersRead, TypeOK, Status
  <2>9. ASSUME NEW q \in Requests, RequestFailed(q)
        PROVE  (\E r \in Requests : HostOf[r] = h /\ probe[r] /\ InFlight(r))'
    <3>1. ObserveFailure(HostOf[q])
      BY <2>9 DEF RequestFailed
    <3>2. CASE HostOf[q] = h
      <4>1. gate[h].halfOpen => ~gate'[h].halfOpen
        BY <2>1, <3>1, <3>2 DEF ObserveFailure, OpenUntil
      <4>2. ~gate[h].halfOpen => gate'[h] = gate[h]
        BY <3>1, <3>2 DEF ObserveFailure
      <4>3. QED BY <4>1, <4>2
    <3>3. CASE HostOf[q] # h
      <4>1. gate'[h] = gate[h]
        BY <2>1, <3>1, <3>3 DEF ObserveFailure
      <4>2. QED BY <2>6, <2>9, <3>3, <4>1 DEF RequestFailed, TypeOK, Status
    <3>4. QED BY <3>2, <3>3
  <2>10. QED
    BY <2>3, <2>4, <2>5, <2>7, <2>8, <2>9 DEF Next
<1>3. QED BY <1>1, <1>2, TypeCorrect, PTL DEF Spec

=============================================================================
