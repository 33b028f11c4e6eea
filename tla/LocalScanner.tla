---------------------------- MODULE LocalScanner ----------------------------
(***************************************************************************)
(* LocalScanner (probe/local_scanner.go) and the part of CGVExecutor and   *)
(* ScheduleSession (probe/cgv_executor.go) it drives: schedule rounds that *)
(* share one long-lived browser under scheduleMu, catalog and seat-map     *)
(* captures that open a browser for themselves, and Close.                 *)
(*                                                                         *)
(* The browser factory is seen through what it promises (module            *)
(* BrowserFactory): an open browser holds one of Capacity slots until it   *)
(* is closed or its context ends, a closed factory opens none, and its     *)
(* Close ends every browser.  A round is seen through the errors that      *)
(* Adapter.CaptureSchedules, selectCinemaTheater and navigate              *)
(* (internal/provider/cgv/schedule.go, browser.go) can return, because     *)
(* those decide whether the shared browser is kept for the next round.     *)
(***************************************************************************)
EXTENDS Integers, FiniteSets

CONSTANTS
  Rounds,     \* goroutines that capture schedules, one call after the other
  OneShots,   \* goroutines that capture a catalog or a seat map
  Theaters,
  TheaterOf,  \* the theater every schedule goroutine asks for
  Browsers,   \* names for adapters, reused once closed
  Capacity,   \* slots of the factory
  Closer,     \* the goroutine that calls LocalScanner.Close
  None        \* nil

Calls == Rounds \cup OneShots

ASSUME ScannerConstants ==
  /\ Rounds \cap OneShots = {}
  /\ TheaterOf \in [Rounds -> Theaters]
  /\ IsFiniteSet(Browsers)
  /\ Capacity \in Nat
  /\ None \notin Browsers \cup Calls \cup Theaters
  /\ Closer \notin Calls \cup {None}
  /\ Theaters \cap {"blank", "front", "error"} = {}

VARIABLES
  pc,            \* where each call is
  ctx,           \* the context its caller gave: "live", "canceled" or "deadline"
  using,         \* the browser of a one-shot capture
  scheduleMu,    \* who holds the lock
  session,       \* scanner.scheduleSession, named by its browser
  closed,        \* scanner.closed, and scheduleContext is cancelled
  closePC,       \* where Close is
  closing,       \* the session Close took and will close
  factoryClosed, \* factory.Close has run
  browser,       \* each adapter: "none", "up", "crashed", or "ended" with its context
  selected,      \* adapter.selectedTheater with selectedRegion
  page           \* what its page shows

callVars == <<pc, ctx, using>>
closeVars == <<closed, closePC, closing, factoryClosed>>
browserVars == <<browser, selected, page>>
vars == <<callVars, scheduleMu, session, closeVars, browserVars>>

TypeOK ==
  /\ pc \in [Calls -> {"idle", "lock", "opening", "begin", "theater", "select", "read", "dates",
                       "using"}]
  /\ ctx \in [Calls -> {"live", "canceled", "deadline"}]
  /\ using \in [Calls -> Browsers \cup {None}]
  /\ scheduleMu \in Rounds \cup {None}
  /\ session \in Browsers \cup {None} /\ closing \in Browsers \cup {None}
  /\ closed \in BOOLEAN /\ factoryClosed \in BOOLEAN
  /\ closePC \in {"idle", "lock", "session", "factory", "closed"}
  /\ browser \in [Browsers -> {"none", "up", "crashed", "ended"}]
  /\ selected \in [Browsers -> Theaters \cup {None}]
  /\ page \in [Browsers -> Theaters \cup {"blank", "front", "error"}]

Init ==
  /\ pc = [c \in Calls |-> "idle"]
  /\ ctx = [c \in Calls |-> "live"]
  /\ using = [c \in Calls |-> None]
  /\ scheduleMu = None
  /\ session = None /\ closing = None
  /\ closed = FALSE /\ factoryClosed = FALSE
  /\ closePC = "idle"
  /\ browser = [b \in Browsers |-> "none"]
  /\ selected = [b \in Browsers |-> None]
  /\ page = [b \in Browsers |-> "blank"]

Goto(c, from, to) == pc[c] = from /\ pc' = [pc EXCEPT ![c] = to]

HoldsSlot(b) == browser[b] \in {"up", "crashed"}

SlotFree == Cardinality({b \in Browsers : HoldsSlot(b)}) < Capacity

-----------------------------------------------------------------------------
(***************************************************************************)
(* Factory.Open and Adapter.Close, as the scanner sees them.               *)
(***************************************************************************)
Opened(b) ==
  /\ SlotFree /\ ~factoryClosed
  /\ browser[b] = "none"
  /\ browser' = [browser EXCEPT ![b] = "up"]
  /\ UNCHANGED <<selected, page>>

\* Open waits for a slot; it fails by itself, or because a context or the factory ended.
OpenReturnsError(done) == SlotFree \/ factoryClosed \/ done

AdapterClosed(b) ==
  /\ browser' = [browser EXCEPT ![b] = "none"]
  /\ selected' = [selected EXCEPT ![b] = None]
  /\ page' = [page EXCEPT ![b] = "blank"]

-----------------------------------------------------------------------------
(***************************************************************************)
(* captureSchedules: take scheduleMu, look at closed, open the session if  *)
(* there is none, under scheduleContext and not the caller's context.      *)
(***************************************************************************)
CaptureSchedules(c) ==
  /\ Goto(c, "idle", "lock")
  /\ UNCHANGED <<ctx, using, scheduleMu, session, closeVars, browserVars>>

LockSchedule(c) ==
  /\ scheduleMu = None
  /\ ~closed
  /\ Goto(c, "lock", IF session = None THEN "opening" ELSE "begin")
  /\ scheduleMu' = c
  /\ UNCHANGED <<ctx, using, session, closeVars, browserVars>>

LockScheduleClosed(c) ==
  /\ scheduleMu = None
  /\ closed
  /\ Goto(c, "lock", "idle")
  /\ ctx' = [ctx EXCEPT ![c] = "live"]
  /\ UNCHANGED <<using, scheduleMu, session, closeVars, browserVars>>

OpenScheduleSession(c) ==
  /\ Goto(c, "opening", "begin")
  /\ scheduleMu = c
  /\ ~closed
  /\ \E b \in Browsers : Opened(b) /\ session' = b
  /\ UNCHANGED <<ctx, using, scheduleMu, closeVars>>

OpenScheduleSessionFailsLocked(c) ==
  /\ Goto(c, "opening", "idle")
  /\ scheduleMu = c
  /\ OpenReturnsError(closed)
  /\ ctx' = [ctx EXCEPT ![c] = "live"]
  /\ UNCHANGED <<using, scheduleMu, session, closeVars, browserVars>>

OpenScheduleSessionFails(c) ==
  /\ Goto(c, "opening", "idle")
  /\ scheduleMu = c
  /\ OpenReturnsError(closed)
  /\ scheduleMu' = None
  /\ ctx' = [ctx EXCEPT ![c] = "live"]
  /\ UNCHANGED <<using, session, closeVars, browserVars>>

(***************************************************************************)
(* The end of captureSchedules: an error that is neither context.Canceled  *)
(* nor ErrProviderThrottled closes the session; then the lock is released. *)
(***************************************************************************)
Unlock(c) ==
  /\ pc' = [pc EXCEPT ![c] = "idle"]
  /\ ctx' = [ctx EXCEPT ![c] = "live"]
  /\ scheduleMu' = None
  /\ UNCHANGED <<using, closeVars>>

ReturnKeeping(c, err) == Unlock(c) /\ UNCHANGED <<session, browserVars>>

ReturnForgetting(c, err) ==
  /\ Unlock(c)
  /\ session' = IF err \in {"other", "deadline"} THEN None ELSE session
  /\ UNCHANGED browserVars

Return(c, err) ==
  /\ Unlock(c)
  /\ IF err \in {"other", "deadline"}
     THEN AdapterClosed(session) /\ session' = None
     ELSE UNCHANGED <<session, browserVars>>

(***************************************************************************)
(* What an operation on the page returns when it fails.  Once the context  *)
(* of the adapter has ended that is ctx.Err(), which is context.Canceled   *)
(* whatever the cause, unless the end falls within a call of Playwright.   *)
(***************************************************************************)
Failures(b) == IF browser[b] = "ended" THEN {"canceled", "other"} ELSE {"other"}

\* The step of a round, at the position given, on the shared browser.
At(c, from) == pc[c] = from /\ scheduleMu = c

PageFails(c) ==
  /\ \E from \in {"theater", "select", "read"} : At(c, from)
  /\ pc[c] = "theater" => selected[session] # TheaterOf[c]
  /\ \E err \in Failures(session) : Return(c, err)

-----------------------------------------------------------------------------
(***************************************************************************)
(* Adapter.captureSchedules, CaptureScheduleWeekdayShard: the caller's     *)
(* context and the rate-limit gate are looked at once, at the beginning.   *)
(***************************************************************************)
CaptureCancelled(c) ==
  /\ At(c, "begin")
  /\ ctx[c] # "live"
  /\ Return(c, ctx[c])

CaptureThrottled(c) ==
  /\ At(c, "begin")
  /\ ctx[c] = "live"
  /\ Return(c, "throttled")

CaptureBegins(c) ==
  /\ At(c, "begin")
  /\ ctx[c] = "live"
  /\ Goto(c, "begin", "theater")
  /\ UNCHANGED <<ctx, using, scheduleMu, session, closeVars, browserVars>>

(***************************************************************************)
(* selectCinemaTheater: skipped when the adapter remembers the theater.    *)
(* navigate loads the booking page; an answer of the provider that is not  *)
(* a success leaves its error page, and a 403 retires the lease, which     *)
(* ends the context of the adapter, unless the report fails.               *)
(***************************************************************************)
TheaterReused(c) ==
  /\ At(c, "theater")
  /\ selected[session] = TheaterOf[c]
  /\ Goto(c, "theater", "read")
  /\ UNCHANGED <<ctx, using, scheduleMu, session, closeVars, browserVars>>

Navigated(c) ==
  /\ At(c, "theater")
  /\ selected[session] # TheaterOf[c]
  /\ browser[session] = "up"
  /\ Goto(c, "theater", "select")
  /\ page' = [page EXCEPT ![session] = "front"]
  /\ UNCHANGED <<ctx, using, scheduleMu, session, closeVars, browser, selected>>

NavigateThrottled(c) ==
  /\ At(c, "theater")
  /\ selected[session] # TheaterOf[c]
  /\ browser[session] = "up"
  /\ page' = [page EXCEPT ![session] = "error"]
  /\ Unlock(c)
  /\ UNCHANGED <<session, browser, selected>>

TheaterSelectedEarly(c) ==
  /\ At(c, "select")
  /\ browser[session] = "up"
  /\ Goto(c, "select", "read")
  /\ page' = [page EXCEPT ![session] = TheaterOf[c]]
  /\ selected' = [selected EXCEPT ![session] = page[session]]
  /\ UNCHANGED <<ctx, using, scheduleMu, session, closeVars, browser>>

TheaterSelected(c) ==
  /\ At(c, "select")
  /\ browser[session] = "up"
  /\ Goto(c, "select", "read")
  /\ page' = [page EXCEPT ![session] = TheaterOf[c]]
  /\ selected' = [selected EXCEPT ![session] = TheaterOf[c]]
  /\ UNCHANGED <<ctx, using, scheduleMu, session, closeVars, browser>>

\* availableScheduleDates: an error page has no date to offer.
DatesRead(c) ==
  /\ At(c, "read")
  /\ browser[session] = "up"
  /\ page[session] # "error"
  /\ Goto(c, "read", "dates")
  /\ UNCHANGED <<ctx, using, scheduleMu, session, closeVars, browserVars>>

(***************************************************************************)
(* captureSelectedSchedules: a date that fails stays an error of that      *)
(* date, whatever became of the browser; only throttling ends the round.   *)
(***************************************************************************)
DateBlocked(c) ==
  /\ At(c, "dates")
  /\ browser[session] = "up"
  /\ browser' = [browser EXCEPT ![session] = "ended"]
  /\ UNCHANGED <<callVars, scheduleMu, session, closeVars, selected, page>>

DateThrottled(c) ==
  /\ At(c, "dates")
  /\ Return(c, "throttled")

DatesDone(c) ==
  /\ At(c, "dates")
  /\ Return(c, "ok")

-----------------------------------------------------------------------------
(***************************************************************************)
(* CaptureCatalog and CaptureSeatMap: a browser for the one call, closed   *)
(* by a deferred Close whatever the capture returned.  Neither looks at    *)
(* scanner.closed; the factory refuses them once it is closed.             *)
(***************************************************************************)
CaptureOnce(c) ==
  /\ Goto(c, "idle", "opening")
  /\ UNCHANGED <<ctx, using, scheduleMu, session, closeVars, browserVars>>

OpenOnce(c) ==
  /\ Goto(c, "opening", "using")
  /\ ctx[c] = "live"
  /\ \E b \in Browsers : Opened(b) /\ using' = [using EXCEPT ![c] = b]
  /\ UNCHANGED <<ctx, scheduleMu, session, closeVars>>

OpenOnceFails(c) ==
  /\ Goto(c, "opening", "idle")
  /\ OpenReturnsError(ctx[c] # "live")
  /\ ctx' = [ctx EXCEPT ![c] = "live"]
  /\ UNCHANGED <<using, scheduleMu, session, closeVars, browserVars>>

ReturnOnce(c) ==
  /\ Goto(c, "using", "idle")
  /\ AdapterClosed(using[c])
  /\ using' = [using EXCEPT ![c] = None]
  /\ UNCHANGED <<ctx, scheduleMu, session, closeVars>>

-----------------------------------------------------------------------------
(***************************************************************************)
(* LocalScanner.Close: scheduleContext is cancelled only under scheduleMu, *)
(* so it waits for the running round; the session is closed after the lock *)
(* is released, the factory last.                                          *)
(***************************************************************************)
CloseScanner ==
  /\ closePC = "idle"
  /\ closePC' = "lock"
  /\ UNCHANGED <<callVars, scheduleMu, session, closed, closing, factoryClosed, browserVars>>

CloseLockedUnlocked ==
  /\ closePC = "lock"
  /\ closed' = TRUE
  /\ closing' = session
  /\ session' = None
  /\ closePC' = "session"
  /\ UNCHANGED <<callVars, scheduleMu, factoryClosed, browserVars>>

CloseLocked ==
  /\ closePC = "lock"
  /\ scheduleMu = None
  /\ closed' = TRUE
  /\ closing' = session
  /\ session' = None
  /\ closePC' = "session"
  /\ UNCHANGED <<callVars, scheduleMu, factoryClosed, browserVars>>

CloseSession ==
  /\ closePC = "session"
  /\ closePC' = "factory"
  /\ closing' = None
  /\ IF closing = None THEN UNCHANGED browserVars ELSE AdapterClosed(closing)
  /\ UNCHANGED <<callVars, scheduleMu, session, closed, factoryClosed>>

CloseFactory ==
  /\ closePC = "factory"
  /\ closePC' = "closed"
  /\ factoryClosed' = TRUE
  /\ browser' = [b \in Browsers |-> IF HoldsSlot(b) THEN "ended" ELSE browser[b]]
  /\ UNCHANGED <<callVars, scheduleMu, session, closed, closing, selected, page>>

-----------------------------------------------------------------------------
(***************************************************************************)
(* The world: callers give up (nobody looks at their context later than    *)
(* this), Chrome crashes while its context lives, a lease is lost and ends *)
(* the context of its browser.                                             *)
(***************************************************************************)
CallerDone(c) ==
  /\ pc[c] \in {"lock", "opening", "begin"} /\ ctx[c] = "live"
  /\ ctx' \in {[ctx EXCEPT ![c] = e] : e \in {"canceled", "deadline"}}
  /\ UNCHANGED <<pc, using, scheduleMu, session, closeVars, browserVars>>

BrowserLost(b) ==
  /\ browser[b] = "up"
  /\ browser' \in {[browser EXCEPT ![b] = s] : s \in {"crashed", "ended"}}
  /\ UNCHANGED <<callVars, scheduleMu, session, closeVars, selected, page>>

-----------------------------------------------------------------------------
Opening(c) == OpenScheduleSession(c) \/ OpenScheduleSessionFails(c)

RoundStep(c) ==
  \/ PageFails(c)
  \/ CaptureCancelled(c) \/ CaptureThrottled(c) \/ CaptureBegins(c)
  \/ TheaterReused(c) \/ Navigated(c) \/ NavigateThrottled(c) \/ TheaterSelected(c)
  \/ DatesRead(c) \/ DateThrottled(c) \/ DatesDone(c)

Next ==
  \/ \E c \in Rounds :
       \/ CaptureSchedules(c) \/ LockSchedule(c) \/ LockScheduleClosed(c)
       \/ Opening(c) \/ RoundStep(c) \/ DateBlocked(c)
  \/ \E c \in OneShots : CaptureOnce(c) \/ OpenOnce(c) \/ OpenOnceFails(c) \/ ReturnOnce(c)
  \/ \E c \in Calls : CallerDone(c)
  \/ \E b \in Browsers : BrowserLost(b)
  \/ CloseScanner \/ CloseLocked \/ CloseSession \/ CloseFactory

(***************************************************************************)
(* A running call goes on.  sync.Mutex hands the lock to a goroutine that  *)
(* has waited long enough and a channel serves its receivers in order, so  *)
(* those two waits are strongly fair.  Nobody has to call.                 *)
(***************************************************************************)
Fairness ==
  /\ \A c \in Rounds :
       /\ SF_vars(LockSchedule(c) \/ LockScheduleClosed(c))
       /\ SF_vars(Opening(c))
       /\ WF_vars(RoundStep(c))
  /\ \A c \in OneShots : SF_vars(OpenOnce(c) \/ OpenOnceFails(c)) /\ WF_vars(ReturnOnce(c))
  /\ SF_vars(CloseLocked) /\ WF_vars(CloseSession) /\ WF_vars(CloseFactory)

Spec == Init /\ [][Next]_vars

FairSpec == Spec /\ Fairness

-----------------------------------------------------------------------------
(***************************************************************************)
(* A browser that holds a slot has exactly one owner who will close it:    *)
(* the session, the Close that took the session, or the capture that       *)
(* opened it (captureSchedules, Close, CaptureCatalog, CaptureSeatMap).    *)
(***************************************************************************)
Owners(b) ==
  {o \in Calls : using[o] = b}
    \cup {o \in {Closer} : closing = b}
    \cup {o \in {None} : session = b}

NoOrphanBrowser ==
  \A b \in Browsers : HoldsSlot(b) => \E o \in Owners(b) : Owners(b) = {o}

(***************************************************************************)
(* A round has the session for itself from the lock to its return: no      *)
(* other round runs on it and neither a round nor Close closes it beneath  *)
(* (scheduleMu, held across the capture).                                  *)
(***************************************************************************)
InRound(c) == pc[c] \in {"begin", "theater", "select", "read", "dates"}

RoundOwnsSession ==
  \A c \in Rounds :
    InRound(c) => /\ session # None /\ browser[session] # "none"
                  /\ \A d \in Rounds : InRound(d) => d = c

(***************************************************************************)
(* The dates a round scans were read from a page on which its own theater  *)
(* is selected, although selectedTheater survives a navigation that was    *)
(* throttled half way (selectCinemaTheater, captureSchedules).             *)
(***************************************************************************)
DatesFromOwnTheater ==
  \A c \in Rounds : pc[c] = "dates" => page[session] = TheaterOf[c]

(***************************************************************************)
(* "Can be reused across schedule rounds until the Soxy lease or browser   *)
(* becomes unhealthy" (ScheduleSession): a round with a live caller that   *)
(* fails on an unhealthy browser does not leave it to the next round.      *)
(***************************************************************************)
FailedRoundDrops(health) ==
  \A c \in Rounds :
    /\ pc[c] = "theater" /\ browser[session] = health
    /\ pc'[c] = "idle"
    => session' = None

\* FailedRoundDrops for a Chrome that crashed: its error is ErrProviderTransport.
CrashedBrowserDropped == [][FailedRoundDrops("crashed")]_vars

\* FailedRoundDrops for a lease that was lost: its error is context.Canceled.
LostLeaseDropped == [][FailedRoundDrops("ended")]_vars

(***************************************************************************)
(* What the scanner takes for granted of the factory is no more than       *)
(* BrowserService, which module BrowserFactory implements: its browsers,   *)
(* all of them scans, open and end as a service would let them.            *)
(***************************************************************************)
Service == INSTANCE BrowserService WITH
  Account <- {},
  running <- {b \in Browsers : HoldsSlot(b)},
  phase <- IF factoryClosed THEN "down" ELSE "open"

UsesService == Service!Spec

(***************************************************************************)
(* Every call returns, although the lock is held while a browser is being  *)
(* opened and the one-shot captures compete for the slots.  So does Close, *)
(* and from then on no browser runs: not the session's, not one of a       *)
(* capture that does not look at scanner.closed.                           *)
(***************************************************************************)
CallsReturn ==
  /\ \A c \in Calls : pc[c] # "idle" ~> pc[c] = "idle"
  /\ closePC # "idle" ~> [](closePC = "closed" /\ \A b \in Browsers : ~HoldsSlot(b))

=============================================================================
