# Verification of the Cineko probe

This directory specifies the concurrent core of the probe in TLA+, checks it on small
instances with TLC and proves its main safety properties with TLAPS.

## 1. The system

The probe is a Go library that reads schedules, catalogs and seat maps of one provider
(CGV) with automated Chrome browsers. Its embedding client calls `LocalScanner`; everything
else is reached from there.

| part | source | state | operations | talks to |
|---|---|---|---|---|
| local scanner | `probe/local_scanner.go` | `scheduleMu`, `scheduleSession`, `closed`, `scheduleContext` | `CaptureSchedules` (three variants), `CaptureCatalog`, `CaptureSeatMap`, `Close` | executor, factory |
| executor, schedule session | `probe/cgv_executor.go` | the session's browser | `OpenScheduleSession`, `Capture*`, `Close`, conversions | factory, adapter |
| browser task factory | `internal/provider/cgv/browser/factory.go` | slot and session channels, `egress`, shared session lease, pool, `closed` | `Open`, `ConfigureEgress`, `Preflight`, `Close` | egress manager, pool |
| browser pool, adapter lifecycle | `internal/provider/cgv/browser.go` | `slot`, `active`, `openings`; close hooks, context | `NewAdapter`, `releaseAdapter`, `Close`; `AddCloseHook`, `Close` | Playwright |
| rate-limit gate | `networkcapture/ratelimit.go` | per host: deadline, failures, reservation | `Allow`, `Blocked`, `Observe429`, `ObserveSuccess`, `ObserveFailure` | router and listeners of the adapter |
| schedule capture | `internal/provider/cgv/schedule*.go` | response buffer, selected theater | capture of dates, response matching, row extraction | page, gate, response handlers |
| egress leases, Soxy client | `internal/egress/*.go` | lease context, renewal loop, quarantine flag | acquire, renew, report, close | Soxy control plane |
| network capture store | `networkcapture/store.go`, `query.go` | `mu`, `clearedAt`; staged files, blobs, manifests, index | `NewStore`, `Save`, `Clear`, `List`, `ReadExchange` | file system |
| captured transport, browser exchanges | `networkcapture/http.go`, `playwrightcapture/playwright.go`, `http_logging.go` | stages, `once`; WaitGroup and closing flag of the adapter | `RoundTrip`, `Read`, `Close`; `captureNetworkExchange`, `stopNetworkCapture` | store, page |
| seat maps, catalog, posters | `seat_map*.go`, `catalog*.go` | poster mode, cached movies, posters | capture, parsing, assembly | page, response handlers |
| session identity, user agent, stealth, telemetry | ... | persisted identity | load, save, generate, log | file system |

What is hard here is the concurrency: every task is a goroutine of its own, an adapter can be
closed from four places, Playwright calls back on a dispatch goroutine while the router runs
on others, contexts end at any moment, and cleanup is spread over deferred functions and close
hooks. The list of these hazards, each at its line and with the properties aimed at it, is
`hazards` in `PROJECT.json`.

What makes each part correct:

* gate: a host is never asked before the deadline it announced; a burst of 429s is one
  failure; a reservation is always given back;
* factory and pool: slots, tokens and leases are conserved on every path; one Chrome at a time
  on the account profile; nothing is torn down beneath a running Chrome; `Close` ends;
* scanner: rounds have the shared session for themselves; an unhealthy session is replaced; no
  browser is left without an owner; calls and `Close` return;
* schedule capture: a date is reported complete only from an answer for that date and theater;
* seat maps: every seat the provider lists is in the layout once, and what is not understood is refused;
* posters: one poster per movie, the first that was read, and none after the capture is over;
* leases: no session is left behind in Soxy, retired twice or renewed after its release; a lease whose
  session is gone ends;
* store: an exchange that is listed is readable completely, whatever crashed, failed or was cleared; what a
  Clear removed does not come back; no evidence of a failure is filtered out on its way to the store.

## 2. Modules

| module | models | lines of code it stands for |
|---|---|---|
| `RateLimitGate` | the gate with the router and the two listeners that drive it | `ratelimit.go`, `routeRequest`, `http_logging.go` |
| `BrowserFactory` | `Factory`, `BrowserPool` and the life of an `Adapter`, composed | `factory.go`, `browser.go` |
| `LocalScanner` | rounds, one-shot captures and `Close` over an abstract factory | `local_scanner.go`, `cgv_executor.go`, control flow of `schedule.go` |
| `BrowserService` | what a factory promises: `BrowserFactory` implements it, `LocalScanner` relies on no more | |
| `EgressLease` | what a lease promises: `SoxyLease` implements it, `BrowserFactory` relies on no more | |
| `SoxyLease` | acquisition, renewal, report and close of leases against an unreliable Soxy | `egress.go`, `soxy.go` |
| `CaptureStore` | the store, the captured HTTP transport and the browser's exchange capture, composed | `store.go`, `query.go`, `http.go`, `playwright.go`, `http_logging.go` |
| `ExchangeLog` | the abstract log that `CaptureStore` implements | |
| `ProviderResponses` | one adapter: response handlers, buffer, and the captures of schedules, seats and catalog that read it | `schedule*.go`, `seat_map.go`, `catalog*.go`, parts of `browser.go` |
| `SeatLayout` | parsing of seat data, as operators used by `ProviderResponses` | `seat_map_snapshot.go` |
| `MC...` | constants, symmetry sets for TLC | |
| `...Proofs` | inductive invariants and theorems | |

### RateLimitGate

`gate` is `gate.states`; a missing entry is the record `NoState`. `status` is the life of a
request slot in the page. `RouteFiltered`, `RouteRefused`, `RouteContinued` are the three exits of
`routeRequest`; `ResponseOther`, `Response429` and `HeadersRead` are `observeRateLimitResponse`,
cut where reading the headers is a round trip to the driver during which further events are
dispatched; `RequestFailed` is `logProviderRequestFailed`. Time is a counter; jitter is a
nondeterministic choice of everything `randomRateLimitJitter` can return. `probe` and `announced` are
history variables for the properties.

### BrowserFactory

Each task is one call of `Open`; `pc` is its position, `adapter` the progress of its adapter's
`Close`, `release` the progress of the code that gives back its lease, slot and token (either
the deferred functions of `openInSlot` or the close hook). A step ends where another goroutine can be
observed: at a channel operation, a section under a mutex, or a blocking call. `LoseLease`,
`CancelTask` and `ConfigureEgress` may happen at any time within their bounds. The launch of
Chrome is one step that succeeds or fails and cleans up after itself.

`BrowserService` is what the factory is for those who use it: a set of running browsers, no more than slots, one on the account
profile, and a phase. The factory is open until `pool.Close` has marked the pool closed, shut until the runtime is stopped, then down; `ImplementsService` is the
refinement. Waits, tokens, leases, hooks and releases are stuttering steps.

### LocalScanner

`scheduleMu`, `session`, `closed`, `closing` are the fields and locals of `LocalScanner`. A round runs
through `lock`, `opening`, `begin`, `theater`, `select`, `read`, `dates`, and ends in `Return`,
which decides from the class of the error (`canceled`, `deadline`, `throttled`, `other`) whether the
session is kept, as `captureSchedules` does. `selected` and `page` are what the adapter remembers and what
its page really shows. The factory appears as a `BrowserService` (`UsesService`), all browsers being scans; a browser is `up`, `crashed` (Chrome gone, context alive) or `ended` (context over: lease lost,
quarantined or factory closed; its slot is back). The failure of a single date changes nothing but the
result of that date and is therefore no step, except that a 403 ends the lease.

### SoxyLease

A lease is one call of `Manager.acquire`, `direct` for a static proxy or none, else a Soxy scan or session. `acq` is its position,
`candidates` the list `acquireRandomSoxySession` consumes, `keep` the goroutine `keepAlive`, `closing`
the call of `Close`, `reporter` each call of `ReportProviderFailure`. Requests lie in `network` until Soxy
handles them, in any order or never; a caller may give up at any moment, so a request may be handled
when nobody waits. Renewals are calls without a request in the network: a late extension changes nothing the
properties see. Soxy itself (`Handle...`, `Expire`) is modelled from how the client uses it: a creation takes a free slot or is refused,
a release of a missing session is a 404, an accepted report ends the session and retires the slot. Time is left out; a session may
expire at any moment.

`EgressLease` is what a holder sees of all this: a lease is acquired once, may be lost, is closed, and never comes back. `SoxyLease` implements it
(`ImplementsLease`): a lease is live from the moment `acquire` returns it until its context or `Close` ends it. `BrowserFactory` stays within it
(`RespectsLease`), although one step may close the lease of another task. The two are joined in this way as factory and scanner are by `BrowserService`.

### CaptureStore and ExchangeLog

An exchange is saved by the captured transport of the Soxy client (`http`), by the browser's callbacks (`browser`) or by
another caller of `Save` (`app`). `pc` is its position; `staged` are the stages it holds a path of, `staging`, `temps`,
`blobs`, `manifests`, `index` the files. A blob is named by its content, so exchanges share blobs. `Save` is cut at every
write: `SaveBegins` takes `mu`, `BodyStands` or `WriteTemp` and `Rename` handle each body and then the manifest,
`AppendIndex` ends it, and `SaveFails` may replace any of these. `Clear` is cut at every path it removes. `StopCapture` and
`CloseBrowser` are the two halves of the adapter's wait for its callbacks. The readers take no lock, so they are
operators (`List`, `ReadExchange`) that the invariants apply in every state.

A crash is one of the process: what was written stays, stages and temporary files too, and a new `NewStore` finds
them. Loss of power and `fsync` are not modelled. An append that fails or is cut leaves a line without a newline; the next
line is glued to it, so that the readers skip both, although that `Save` returned nil (`Line`).

`ExchangeLog` is what an embedding App may rely on: an exchange enters the log at one instant and once, and
leaves it only when all is cleared. `ImplementsLog` is the refinement; an entry is a line a reader can decode,
and an exchange is settled once it has a result. All writes before the line, temporary files, failures and crashes between
them are stuttering or `Discard` steps.

### ProviderResponses and SeatLayout

An adapter is opened for a session or for one capture (`use`); `at` is the position of its call. A request lies in `wire`
until its response is seen; the handler then waits for the body in `reading`. Playwright's Go client runs
handlers on its one dispatch goroutine, and waiting for a body dispatches further events from inside the handler, so the
handlers form a stack: the last one seen ends first. `buffer` is `providerResponses` with its limit. A page load cancels what
the old page had asked for, but not handlers that already wait. The schedule actions follow
`requestScheduleDateFromPage` (sessions) and `selectDate` (seat captures), then `waitForScheduleResponseReady` and
`extractSchedules`; the rows of an answer are those the provider publishes, with those of linked venues. A failed date stays
with its date, a throttled one ends the round and keeps the session, any other failure to select the theater closes it.
A fetch made for a seat map resolves with the body itself and is one step. `PosterRead` is the handler of a poster after it
has the body: the check it made before may be out of date.

`SeatLayout` says which seat data is accepted and what becomes of it. Coordinates are fractions, labels sequences of
characters, because two fields joined to one label may clash; texts that only have to parse are `<<n>>` or `<<>>`. Hashes of identities are the
identified values themselves. `Sorted` says where an element of the zones or blocks ends up instead of how: the k-th is the one that k - 1 others come
before, by code and name and then by place.

## 3. Runs

| run | instance | shows |
|---|---|---|
| `gate` | 1 host, 3 overlapping requests, clock up to 7, fallback 2, maximum 5 | reservations, deadlines, bursts, backoff; a half-open circuit is decided |
| `gate_aborted` | the same | violation: see findings |
| `factory` | 2 sessions and 1 scan, 2 slots, 1 reconfiguration, 1 lost lease; symmetric sessions and slots | slots, tokens, account profile, leases; nothing is left behind when `Close` and all calls are over; the service is implemented |
| `factory_live` | 2 sessions, 2 slots, also 1 cancelled context | `Close` ends with every Chrome down and every lease, slot and token back; a cancelled `Open` returns |
| `scanner` | 2 schedule goroutines of 2 theaters, 2 one-shot goroutines, 2 slots; symmetric one-shots and browsers | ownership, exclusion, page of the right theater, crashed browsers |
| `scanner_live` | 1 schedule and 2 one-shot goroutines, 2 slots | all calls and `Close` return |
| `scanner_lost_lease` | as `scanner` | violation: see findings |
| `lease` | a scan, a session and a direct lease, 2 slots, 2 reports on the scan and 1 on the direct lease, 2 failures end a lease; symmetric slots | no leak and no second slot for a lease, truthful capacity error, one report, no renewal after release |
| `lease_live` | a scan and a session, 1 slot, 2 reports | acquisition, `Close` and reports return; a lost session ends its lease |
| `store` | 2 exchanges of any kind with equal bodies, debug or not, 1 Clear, 2 failed writes or crashes; symmetric exchanges | what is listed can be read; cleared stays cleared; stages live as long as their exchange; filters keep evidence; callbacks end before the page; the log is implemented |
| `responses` | 2 theaters, 2 dates, 3 rounds, 2 handlers at a time, buffer of 2; 6 seat bodies; 2 posters for each movie | a call that looks at a date has one left; complete dates with showtimes are whole; seats are whole; the layout does not depend on the order of the provider's lists; the first poster is kept |
| `responses_empty` | the same with 2 rounds | violation: see findings |

Why the bounds are enough. Gate: hosts do not interact, so one suffices; three requests give a probe,
a request it displaced and a late answer; the delays 2..3, 4..5 and 5 of consecutive failures show
doubling, jitter and cap before the clock stops. Factory: exclusion, replacement of the shared lease
and hand-over of slots need two sessions; the scan adds leases that are not shared; each kind of
disturbance occurs once per task pair, and what it starts runs to its end. Scanner: calls repeat without
bound; two rounds and two captures fill two slots and keep a round waiting. Leases: a scan needs one competitor to lose
a listed slot and two slots to try another; two reports contend for `reportMu`; two renewals tell a first failure from the last.
Store: two exchanges contend for the lock, share blobs and follow each other in the index; one trouble tears a line and a second
interrupts what comes after it; one Clear meets exchanges that started before and after it. Responses: what a round finds
depends on its own requests and on at most what the previous rounds left in `reading` and `buffer`; a buffer of two overflows with one late
response, and two waiting handlers show that they end in reverse order. One theater has no rows on today's date, the other a linked venue
and two auditoriums of which one name contains the other. The seat bodies are whole (two items, whose zones have to be merged by code and by name), with clashing labels, with an unknown status, with seat number zero,
off the board, and empty.
Deadlock is checked except in the factory, lease, store and response runs, where all tasks may be over for good.

Fairness. A goroutine that can run does run, and calls of Soxy, of the Playwright driver and of the provider
return (all have timeouts): weak fairness of those steps. In `LocalScanner` the waits for `sync.Mutex` and
for a channel are strongly fair, because Go's mutex hands over to a starved waiter and a channel
serves its receivers in order. Nobody is assumed to call, cancel or close, and no failure is
assumed to happen. In `SoxyLease` Soxy need not answer at all: only the callers' own timeouts are relied on.
The store and response runs check safety only and assume none.

## 4. Findings

* `gate_aborted`: the comment on `ObserveFailure` promises to reopen a half-open circuit "when its
  single probe fails before any HTTP response arrives" (`ratelimit.go:161`). The listener calls it for
  every failed request, also for those the router aborted because the circuit is half open; such an
  event reopens the circuit while the probe is still on the wire, with a longer delay.
* `scanner_lost_lease`: `ScheduleSession` "can be reused across schedule rounds until the Soxy lease or
  browser becomes unhealthy" (`cgv_executor.go:58`). When the lease is lost, operations on the adapter return
  `context.Canceled`, which `captureSchedules` reserves for cancelled callers (`local_scanner.go:188`): the dead
  session is kept and every later round fails on it. Theorem `CrashedIsDropped` shows the other half, a crashed Chrome, right.
* `responses_empty`: "an unavailable page can never be mistaken for evidence that no showtimes existed" (`schedule.go:58`). The
  wait for a date ends with any schedule response for that date (`schedule_capture.go:85`). In round 1 the page of the first theater asks
  for today's schedule, which is empty; its body is read only after round 2, for another theater, has reset the buffer. It ends
  the wait of round 2 while the right response is still being read, and today is returned complete and empty.
  An answer with rows is told apart by its site (`CompleteMeansWhole`); an empty one cannot be.

Met while modelling, and stated here without a run of their own:

* `ShouldCapturePlaywrightRequest` (`playwrightcapture/playwright.go:22`) looks at the reason of a failure first and leaves out a cancelled request that
  had been answered with 400 or more, which its comment says is retained; `EvidenceKept` excepts this case.
* After a torn append the next saved exchange is not listed, although `Save` makes exchanges "atomically visible" (`store.go:227`).
* The comment on `firstSeatMapShowtime` says sold-out rows "remain valid layout sources" (`seat_map.go:384`); the loop skips
  them (`seat_map.go:393`), and `ResolveSeatMap` follows the loop.
* `clickExactSeatMapShowtime` compares auditorium names by inclusion (`seat_map.go:528`). When the wanted button is disabled and one whose name
  contains it is not, the other showtime's page opens and its seats are returned (`Clickable`).
* Zones and blocks of equal code and name keep the provider's order (`seat_map_snapshot.go:113`), so that two different ones make the layout depend on it; `LayoutIgnoresOrder`
  excepts them (`ToldApart`).

## 5. Proofs

The constants are arbitrary; the assumptions are `GateConstants`, `FactoryConstants`, `ScannerConstants`, `LeaseConstants`,
`CaptureAssumption` and `ResponsesAssumption`, which TLC evaluates on every run. They give the constants their types, keep `None` and
its like apart from tasks, leases and exchanges, make slots and tasks finite sets and say what a decoded seat body looks like. Every invariant
the runs check is proved for all instances, and so are the action properties and the refinements of `ExchangeLog`, `BrowserService` and `EgressLease`. Each is proved from an
inductive invariant, whose parts are named in the proof module:

* `RateLimitGateProofs`: `GateInv` adds to the types that a closed circuit has no deadline, that a reservation
  exists only past its deadline, and that an announced deadline is over or still kept by the gate.
  Without these, a 429 in an arbitrary state could shorten a deadline or a second reservation appear.
  Theorems: `TypeCorrect`, `ReservationIsHeld`, `DeadlineHonoured`, `BurstIsOneFailure`, `BackoffStaysBounded`.
* `BrowserFactoryProofs`: `FactoryInv` says which positions of `Open` hold a slot and the session token (`TokenInv`), that the release of
  a task runs once and beside no Chrome (`ReleaseInv`), at which positions an adapter has a Chrome and its hooks (`AdapterInv`), that a lease in use is
  not closed before `Factory.Close` is over (`LeaseInv`), which browsers the pool knows (`PoolInv`) and that `pool.Close` reaches them all (`CloseInv`).
  `AccountProfileExclusive` follows because a session with a Chrome holds the one token; `LeaseOutlivesBrowser` needs that a lease is detached
  only by the session that holds the token, and that after `Factory.Close` has stopped the runtime no Chrome is left; `PoolSlotsConserved` counts
  the tasks that hold a token, which each step changes by at most one task.
  `FactoryImplementsService` maps each step: `BeginOpening` starts a browser and finds room because every Chrome holds a pool token and the one just taken was free; `LaunchFails` and
  `CloseChrome` stop one; the steps of `Close` shut the service, and `CloseInv` shows that it is empty when it goes down.
  `ShutdownLeavesNothing` needs two more parts. `OwnerInv`: whoever has a lease that is not closed will close it, be it the scan it belongs to, the session that installs
  or replaces it, or `Factory.Close`; without it a lease might be acquired after the factory looked and belong to nobody. `HookInv`: an adapter that is not down still has the hooks
  that give back what its task holds. `FactoryRespectsLease` uses the first: only what was acquired is ever closed.
  Theorems: `TypeCorrect`, `SlotsAreConserved`, `PoolTokensConserved`, `ProfileIsExclusive`, `LeaseOutlives`, `RuntimeOutlives` (no Chrome once the runtime is stopped; a part of `CloseInv`),
  `ShutdownLeavesNothing`, `FactoryImplementsService`, `FactoryRespectsLease`.
* `LocalScannerProofs`: `ScannerInv` says who holds `scheduleMu` (`LockInv`), when there is a session (`SessionInv`),
  that a browser exists exactly while one owner has it (`OwnerInv`), and that the page of an adapter which is up
  shows the remembered theater unless the last navigation was throttled or is under way (`PageInv`). The last part
  is what makes `DatesFromOwnTheater` inductive: the remembered theater survives a throttled navigation.
  Theorems: `TypeCorrect`, `BrowsersAreOwned`, `SessionIsExclusive`, `DatesAreOwn`, `CrashedIsDropped`, and `ScannerUsesService`: the factory of this
  module is the service that `BrowserFactory` implements, so that the two fit together.
* `SoxyLeaseProofs`: `LeaseInv` says which requests may still be under way and for which call (`RequestInv`), what an answer
  tells about the session (`SessionInv`), which slots a scan has been refused (`SlotInv`), when the renewal goroutine may run (`KeepInv`)
  and who holds `reportMu` (`ReportInv`). `NothingLeaks` is not inductive alone: a creation given up on may be
  handled long after acquire returned, and only `RequestInv` ties it to a lease marked as unanswered. `HolderInv` adds that a creation is under way only for a lease without a session,
  so that trying one slot after another never leaves a lease with two.
  `LeaseKeepsPromise` is the refinement of `EgressLease`: `LeaseBegins` and `LeaseEnds` show which steps begin and end a lease, and that nothing else touches one.
  Theorems: `TypeCorrect`, `NoSessionLeaks`, `CapacityIsExhausted`, `ReportIsOnce`, `RenewalIsOver`, `LeaseKeepsPromise`.
* `CaptureStoreProofs`: `StoreInv` says who holds `mu` (`LockInv`), that a body is completed once (`OnceInv`), which stages are on disk (`StageInv`), what
  the filters let through (`FilterInv`), which callbacks are counted (`AdapterInv`), that bodies precede manifests and manifests lines, while `Clear` goes the
  other way (`DiskInv`, `IndexInv`), and that an exchange under way started after the last Clear or will be refused by `clearedAt` (`ClearInv`). A crash
  may fall between any two writes, and `ListedIsReadable` needs the whole order; a restart forgets `clearedAt`, and `ClearInv` holds because the exchanges
  under way are gone with it.
  `StoreImplementsLog` maps each step: `LogPublish` shows that a whole line appended to an index that is not torn adds one entry, `LogDiscard` that a result
  without a line adds none; all other steps leave the decoded lines alone or clear them.
  Theorems: `TypeCorrect`, `ListedAlwaysReadable`, `ClearIsFinal`, `StagesAreKept`, `EvidenceIsKept`, `CallbacksEndFirst`, `StoreImplementsLog`.
* `ProviderResponsesProofs`: `ResponsesInv` says which call has a theater and a showtime (`CallInv`), that a usable response for seats has seat data (`BodyInv`), when
  posters are kept (`PosterInv`), and which accepted body the returned seats are made of (`SeatsInv`). The core is lemma `RowsAreWhole`: an answer that has one row of the
  theater and the date has all of them, because the provider's answers are whole per site; so stale and linked responses may add foreign rows,
  which are dropped, but cannot make the date partial. `OneIdentityEach` shows that a layout has as many identities as seats, since an accepted body has no two equal labels.
  `FirstPosterWins` is an action property: `PosterStep` goes through every action.
  `OverflowIsNeverSilent`: the buffer has at most one response over its limit, and that one is an error.
  Theorems: `TypeCorrect`, `CompleteIsWhole`, `SeatsAreAlwaysWhole`, `LayoutAlwaysIgnoresOrder`, `OverflowIsNeverSilent`, `FirstPosterAlwaysWins`.
* `SeatLayoutProofs`: about the operators of `SeatLayout`, for every body. Sorting is defined by counting, so no induction over lists is needed: the order is total (`TotalOrder`), ranks
  are an injection of a finite set into 1..n and therefore reach every number (`EveryRank`), and the k-th element is one for which fewer than k are less and at least k are not more
  (`KthCounts`), which a bijection of the places does not change (`SameCounts`). Hence `SortForgetsOrder`: two arrangements of the same elements sort alike; and
  `LayoutForgetsOrder`: two bodies with the same seats, zones and blocks have the same layout, in whatever order and whichever items bring them. `LayoutBackwards` applies it to the reversal that
  `LayoutIgnoresOrder` compares with; TLC checks that instance.

Only model-checked: the liveness properties (`HalfOpenResolves`, `ShutdownCompletes`, `CancelledOpenReturns`, `CallsReturn`, `LeaseCallsReturn`,
`LostSessionEndsLease`), because fairness is beyond the prover. The three violations are TLC's counterexamples.

## 6. Not modelled

* Egress health probe: one HTTP request without state. Configuration of the egress is read and validated, and not changed.
* Showtime times and identities: functions on texts without state (clocks past midnight, joined and hashed fields); the
  models compare the values they stand for.
* Session identity: one file that is read, validated or written when a profile is opened; `BrowserFactory` shows that the profile is
  exclusive then.
* User agents, stealth scripts, telemetry, browser preflight: they generate strings, log or start an executable and keep
  no state another part reads. Conversions to protocol messages are left out.
* Renewal times: how Soxy adds an extension to a deadline is not in this repository, so a session may expire at any moment.
* In the store: several Stores over one directory (`browser.go:367`), errors while a stage that is open is written, and a request body that
  the transport still reads after `RoundTrip` has returned. A failure to create the directories again belongs to `ClearFails`.

## 7. What is left

* Liveness stays with TLC. `ShutdownLeavesNothing` is the safety half of `ShutdownCompletes`; the other half, that the quiet state is reached, is checked on the instance only.
* `RespectsLease` and `ImplementsLease` are proved separately; a run of factory and leases together, with the steps of Soxy inside those of the factory, is beyond TLC.
* The renewal times of a lease need a clock, and what Soxy makes of an extension (section 6).
