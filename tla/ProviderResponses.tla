-------------------------- MODULE ProviderResponses --------------------------
(***************************************************************************)
(* One adapter and the responses of the provider it captures.  A call asks *)
(* the page for something, directly or by clicking, and then looks for the *)
(* answer in a buffer that the browser's response handlers fill.  A        *)
(* handler runs on the browser connection's only goroutine and has to wait *)
(* for the body; while it waits the connection starts the handlers of      *)
(* later responses, which end before it does.  So a response may reach the *)
(* buffer long after the call that asked for it has given up, and the next *)
(* call has to tell it from its own.                                       *)
(*                                                                         *)
(* An adapter is opened for a schedule session, which scans theaters round *)
(* after round, or for one capture of a seat map, of the available seats   *)
(* of a showtime, or of the catalog with its posters.                      *)
(***************************************************************************)
EXTENDS SeatLayout

CONSTANTS
  Theaters,     \* site numbers that may be asked for
  Dates,        \* provider dates
  Today,        \* the date the booking page shows first
  DateList,     \* DateList[t]: the dates the page of a theater offers, in order
  Rows,         \* the schedule rows the provider publishes
  Linked,       \* the sites whose rows come with the answer for a theater
  Within,       \* Within[a]: the auditoriums whose displayed name contains a's
  SeatBodies,   \* the seat data the provider may answer with
  Movies,       \* the movies of the booking page
  Nothing,
  MaxRounds,    \* bound: rounds of a session
  MaxReading,   \* bound: handlers that wait for a body at a time
  MaxCaptured   \* maxCapturedProviderResponses

ASSUME ResponsesAssumption ==
  /\ Today \in Dates /\ DateList \in [Theaters -> Seq(Dates) \ {<<>>}]
  /\ \A r \in Rows : r.date \in Dates /\ r.bookable \in BOOLEAN /\ r.named \in BOOLEAN
  /\ Linked \in [Theaters -> SUBSET {r.site : r \in Rows}]
  /\ \A r \in Rows : r.auditorium \in DOMAIN Within /\ r.auditorium \in Within[r.auditorium]
  /\ \A b \in DOMAIN SeatBodies : IsBody(SeatBodies[b])
  /\ MaxRounds \in Nat /\ MaxReading \in Nat /\ MaxCaptured \in Nat

VARIABLES
  use,        \* what the adapter was opened for
  at,         \* where the call is
  rounds,     \* calls so far
  theater,    \* the theater of the call
  target,     \* the showtime whose seats are wanted, or the row of an auditorium
  todo,       \* the dates still to visit
  selected,   \* adapter.selectedTheater
  shown,      \* the date that is selected on the page, if it is the booking page
  opened,     \* the showtime whose seat page is open
  wire,       \* requests whose response has not been seen
  reading,    \* the handlers that wait for a body, the innermost first
  buffer,     \* adapter.providerResponses
  fetched,    \* what the fetch in the page will resolve to
  captured,   \* the ScheduleCaptures of the call
  seats,      \* the snapshot or observation the call returned
  posterMode, \* adapter.catalogPosterMode
  cached,     \* adapter.cachedPosterMovies
  posters,    \* adapter.catalogPosters: the response each poster is from
  collected   \* the posters the call returned

call == <<use, rounds, theater, target>>
page == <<selected, shown, opened>>
net == <<wire, reading, buffer, fetched>>
results == <<captured, seats>>
poster == <<posterMode, cached, posters, collected>>
vars == <<call, at, todo, page, net, results, poster>>

NoPosters == [m \in Movies |-> 0]
NoSeats == [body |-> Nothing, layout |-> Nothing, available |-> {}]

Init ==
  /\ use \in {"session", "seatMap", "availability", "catalog"}
  /\ at = "idle" /\ rounds = 0 /\ theater = Nothing /\ target = Nothing /\ todo = <<>>
  /\ selected = Nothing /\ shown = Nothing /\ opened = Nothing
  /\ wire = {} /\ reading = <<>> /\ buffer = <<>> /\ fetched = "none"
  /\ captured = {} /\ seats = NoSeats
  /\ posterMode = FALSE /\ cached = {} /\ posters = NoPosters /\ collected = NoPosters

-----------------------------------------------------------------------------
(***************************************************************************)
(* The provider and the handlers of its responses.                         *)
(***************************************************************************)

\* own: it is the fetch that requestScheduleDateFromPage waits for.
ScheduleRequest(site, date, own) ==
  [path |-> "schedule", site |-> site, date |-> date, item |-> Nothing, own |-> own]

OtherRequest(path, item) ==
  [path |-> path, site |-> Nothing, date |-> Nothing, item |-> item, own |-> FALSE]

\* The rows the provider answers a schedule request with: CGV adds the rows
\* of linked venues.
Answer(site, date) == {r \in Rows : r.site \in {site} \cup Linked[site] /\ r.date = date}

\* The date the call is about.
Date == Head(todo)

catalogPosterAlreadyAvailable(m) == ~posterMode \/ m \in cached \/ posters[m] # 0

\* A response is seen: its handler starts and asks for the body.  The status
\* matters before the body only to the fetch that waits for this response.
ResponseSeen ==
  /\ Len(reading) < MaxReading
  /\ \E q \in wire :
       LET awaited == at = "fetch" /\ q = ScheduleRequest(theater, Date, TRUE) IN
         /\ wire' = wire \ {q}
         /\ \E status \in IF awaited THEN {"ok", "throttled", "error"} ELSE {"unknown"} :
              /\ reading' = IF q.path = "poster" /\ catalogPosterAlreadyAvailable(q.item[1])
                            THEN reading
                            ELSE <<[request |-> q, status |-> status, body |-> 0]>> \o reading
              /\ fetched' = IF awaited THEN status ELSE fetched
  /\ UNCHANGED <<call, at, todo, page, buffer, results, poster>>

\* captureProviderResponse under its lock: the buffer takes one more than its
\* limit, and that one is an error.
Keep(response) ==
  buffer' = CASE Len(buffer) < MaxCaptured -> Append(buffer, response)
              [] Len(buffer) = MaxCaptured ->
                   Append(buffer, [request |-> [response.request EXCEPT !.site = Nothing,
                                                                        !.date = Nothing],
                                   status |-> "error", body |-> 0])
              [] OTHER -> buffer

\* What becomes of a response: without a body that is of use it is an error.
Outcomes(status) ==
  CASE status = "unknown" -> {"ok", "throttled", "error"}
    [] status = "ok" -> {"ok", "error"}
    [] OTHER -> {status}

\* The innermost handler has the body of its response, or cannot read it.
BodyRead ==
  /\ reading # <<>> /\ Head(reading).request.path # "poster"
  /\ reading' = Tail(reading)
  /\ \E status \in Outcomes(Head(reading).status) :
       \E b \in IF status = "ok" /\ Head(reading).request.path = "seat"
                THEN DOMAIN SeatBodies ELSE {0} :
         Keep([Head(reading) EXCEPT !.status = status, !.body = b])
  /\ UNCHANGED <<call, at, todo, page, wire, fetched, results, poster>>

\* captureCatalogPosterResponse, after the body: storeCatalogPoster looks again.
storeCatalogPosterUnchecked(m, n) == posters' = [posters EXCEPT ![m] = n]

storeCatalogPoster(m, n) ==
  posters' = IF catalogPosterAlreadyAvailable(m) THEN posters ELSE [posters EXCEPT ![m] = n]

PosterRead ==
  /\ reading # <<>> /\ Head(reading).request.path = "poster"
  /\ reading' = Tail(reading)
  /\ \/ storeCatalogPoster(Head(reading).request.item[1], Head(reading).request.item[2])
     \/ UNCHANGED posters
  /\ UNCHANGED <<call, at, todo, page, wire, buffer, fetched, results,
                 posterMode, cached, collected>>

-----------------------------------------------------------------------------
(***************************************************************************)
(* The way to a schedule, for all the calls that need one.                 *)
(***************************************************************************)
Return == at' = "idle" /\ todo' = <<>>

\* The call is over, with no more than it has.
Fails == Return /\ UNCHANGED results

Begin(kind) ==
  /\ at = "idle" /\ use = kind
  /\ rounds < IF kind = "session" THEN MaxRounds ELSE 1
  /\ rounds' = rounds + 1
  /\ captured' = {} /\ seats' = NoSeats

\* A round of the session.
CaptureSchedules(t) ==
  /\ Begin("session")
  /\ theater' = t
  /\ at' = "select"
  /\ UNCHANGED <<use, target, todo, page, net, poster>>

\* The provider is known to be throttling.
RoundRefused(t) ==
  /\ Begin("session")
  /\ theater' = t
  /\ UNCHANGED <<use, at, target, todo, page, net, poster>>

\* The two captures of seats name a row of their theater and its auditorium.
CaptureSeats(r) ==
  /\ Begin(use) /\ use \in {"seatMap", "availability"}
  /\ r.site \in Theaters
  /\ theater' = r.site /\ target' = r
  /\ at' = "select"
  /\ UNCHANGED <<use, todo, page, net, poster>>

\* The dates of a call: the ones the page offers, or the one of the showtime.
DatesToVisit == IF use = "availability" THEN <<target.date>> ELSE DateList[theater]

\* selectCinemaTheater: the page is used again for the theater that was
\* selected last, if it offers dates.  Otherwise it is loaded anew, which ends
\* the requests of the old page, and asks for the theaters and for a schedule
\* itself.
SelectTheater ==
  /\ at = "select"
  /\ \/ selected = theater /\ shown # Nothing /\ UNCHANGED <<page, wire>>
     \/ /\ selected # theater
        /\ selected' = theater /\ shown' = Today /\ UNCHANGED opened
        /\ wire' = {OtherRequest("theaters", Nothing), ScheduleRequest(theater, Today, FALSE)}
  /\ at' = "request"
  /\ todo' = DatesToVisit
  /\ UNCHANGED <<call, reading, buffer, fetched, results, poster>>

\* The navigation is throttled.  The session goes on with whatever page that
\* left, and with the theater it had selected.
SelectTheaterThrottled ==
  /\ at = "select" /\ selected # theater
  /\ Fails
  /\ shown' = Nothing
  /\ wire' = {}
  /\ UNCHANGED <<call, selected, opened, reading, buffer, fetched, poster>>

\* Another error, or no date is offered: the scanner closes the session.
SelectTheaterFails ==
  /\ at = "select"
  /\ at' = "closed"
  /\ UNCHANGED <<call, todo, page, net, results, poster>>

DateDoneOneMore(complete, showtimes) ==
  /\ captured' = captured \cup {[date |-> Date, complete |-> complete, showtimes |-> showtimes]}
  /\ todo' = Tail(todo)
  /\ at' = "request"
  /\ UNCHANGED seats

\* The date of a session's round has its ScheduleCapture; on to the next one.
DateDone(complete, showtimes) ==
  /\ captured' = captured \cup {[date |-> Date, complete |-> complete, showtimes |-> showtimes]}
  /\ todo' = Tail(todo)
  /\ IF Tail(todo) = <<>>
     THEN at' = "idle"
     ELSE at' = "request"
  /\ UNCHANGED seats

\* A failure stays with its date in a session, unless the provider throttles,
\* and ends any other call.
DateFails(how) ==
  IF use = "session" /\ how # "throttled" THEN DateDone(FALSE, {}) ELSE Fails

\* requestScheduleDateFromPage, up to the fetch.
RequestDate ==
  /\ at = "request" /\ use = "session"
  /\ buffer' = <<>>
  /\ wire' = wire \cup {ScheduleRequest(theater, Date, TRUE)}
  /\ at' = "fetch"
  /\ UNCHANGED <<call, todo, page, reading, fetched, results, poster>>

\* The gate refuses the request before it is made.
RequestDateRefused ==
  /\ at = "request" /\ use = "session"
  /\ DateFails("throttled")
  /\ UNCHANGED <<call, page, net, poster>>

\* The fetch resolves once its response has been seen, or fails without one.
FetchReturns ==
  /\ at = "fetch" /\ fetched = "ok"
  /\ at' = "wait"
  /\ fetched' = "none"
  /\ UNCHANGED <<call, todo, page, wire, reading, buffer, results, poster>>

FetchFails ==
  /\ at = "fetch" /\ fetched # "ok"
  /\ DateFails(fetched)
  /\ fetched' = "none"
  /\ UNCHANGED <<call, page, wire, reading, buffer, poster>>

\* selectDate: nothing is asked for when the date is selected already.
SelectDate ==
  /\ at = "request" /\ use # "session"
  /\ IF shown = Date
     THEN at' = "extract" /\ UNCHANGED <<shown, wire, buffer>>
     ELSE /\ at' = "wait"
          /\ shown' = Date
          /\ buffer' = <<>>
          /\ wire' = wire \cup {ScheduleRequest(theater, Date, FALSE)}
  /\ UNCHANGED <<call, todo, selected, opened, reading, fetched, results, poster>>

\* No button for the date, where a seat map goes on to the next one, or an error.
SelectDateUnavailable ==
  /\ at = "request" /\ use # "session" /\ shown # Date
  /\ buffer' = <<>>
  /\ \/ use = "seatMap" /\ Tail(todo) # <<>> /\ todo' = Tail(todo) /\ UNCHANGED <<at, results>>
     \/ Fails
  /\ UNCHANGED <<call, page, wire, reading, fetched, poster>>

\* By the query of the request, and else by the rows of the answer.
scheduleResponseTargetsDate(response, date) ==
  /\ response.request.path = "schedule"
  /\ \/ response.request.date = date
     \/ /\ response.status = "ok"
        /\ \E r \in Answer(response.request.site, response.request.date) : r.date = date

waitForScheduleResponseReady ==
  /\ at = "wait"
  /\ \E i \in DOMAIN buffer : scheduleResponseTargetsDate(buffer[i], Date)
  /\ at' = "extract"
  /\ UNCHANGED <<call, todo, page, net, results, poster>>

WaitTimesOut ==
  /\ at = "wait"
  /\ DateFails("error")
  /\ UNCHANGED <<call, page, net, poster>>

-----------------------------------------------------------------------------
(***************************************************************************)
(* The rows of the buffer.  takeProviderResponses empties all of it; the   *)
(* responses it returns are named by their places in the buffer.           *)
(***************************************************************************)
takeProviderResponses(path) == {i \in DOMAIN buffer : buffer[i].request.path = path}

\* The first response that is an error is the error of all.
captureError(taken) ==
  LET bad == {i \in taken : buffer[i].status # "ok"}
  IN  CASE taken = {} -> "missing"
        [] bad # {} -> buffer[Min(bad)].status
        [] OTHER -> "none"

captureScheduleRows ==
  UNION {Answer(buffer[i].request.site, buffer[i].request.date) :
           i \in takeProviderResponses("schedule")}

\* extractSchedules keeps the rows of the theater and the date.
TheaterRowsOfAnySite(rows) == rows

TheaterRows(rows) == {r \in rows : r.site = theater}

DateRows(rows) == {r \in TheaterRows(rows) : r.date = Date}

\* Rows that are all of another theater, or of another date, are an error;
\* so is a row of the date that cannot be used.  No rows at all are not.
RowsRefused(rows) ==
  \/ rows # {} /\ TheaterRows(rows) = {}
  \/ TheaterRows(rows) # {} /\ DateRows(rows) = {}
  \/ \E r \in DateRows(rows) : ~r.named

ExtractFails ==
  /\ at = "extract"
  /\ LET err == captureError(takeProviderResponses("schedule")) IN
       /\ err = "none" => RowsRefused(captureScheduleRows)
       /\ DateFails(err)
  /\ buffer' = <<>>
  /\ UNCHANGED <<call, page, wire, reading, fetched, poster>>

Extracted ==
  /\ at = "extract"
  /\ captureError(takeProviderResponses("schedule")) = "none"
  /\ ~RowsRefused(captureScheduleRows)
  /\ buffer' = <<>>

ExtractSchedules ==
  /\ Extracted /\ use = "session"
  /\ DateDone(TRUE, DateRows(captureScheduleRows))
  /\ UNCHANGED <<call, page, wire, reading, fetched, poster>>

-----------------------------------------------------------------------------
(***************************************************************************)
(* Seats.                                                                  *)
(***************************************************************************)

\* resolveSeatMapShowtime: any bookable showtime of the auditorium will do,
\* on this date or on a later one.
ResolveSeatMap ==
  /\ Extracted /\ use = "seatMap"
  /\ IF \E r \in DateRows(captureScheduleRows) : r.auditorium = target.auditorium /\ r.bookable
     THEN at' = "layout" /\ UNCHANGED <<todo, results>>
     ELSE IF Tail(todo) # <<>>
     THEN at' = "request" /\ todo' = Tail(todo) /\ UNCHANGED results
     ELSE Fails
  /\ UNCHANGED <<call, page, wire, reading, fetched, poster>>

\* fetchSeatMapData: the page's fetch returns the body itself, and nobody
\* looks at the buffer any more.
CaptureSeatMap ==
  /\ at = "layout"
  /\ \/ \E b \in DOMAIN SeatBodies :
          IF LayoutAccepted(SeatBodies[b])
          THEN /\ Return
               /\ seats' = [body |-> b, available |-> {},
                            layout |-> parseSeatMapLayout(SeatBodies[b], target.auditorium)]
               /\ UNCHANGED captured
          ELSE Fails
     \/ Fails
  /\ UNCHANGED <<call, page, net, poster>>

\* exactSeatMapShowtime.
ResolveSeatAvailability ==
  /\ Extracted /\ use = "availability"
  /\ IF target \in DateRows(captureScheduleRows)
     THEN at' = "open" /\ UNCHANGED <<todo, results>>
     ELSE Fails
  /\ UNCHANGED <<call, page, wire, reading, fetched, poster>>

\* clickExactSeatMapShowtime: the enabled buttons that show the start and a
\* name that contains the auditorium's; there has to be one.
Clickable ==
  {r \in Rows : r.site = theater /\ r.date = shown /\ r.start = target.start
                /\ r.auditorium \in Within[target.auditorium]}

\* openNonmemberSeatPage.  The page asks for the seats of what was clicked.
OpenSeatPage ==
  /\ at = "open"
  /\ \E enabled \in SUBSET Clickable :
       IF Cardinality(enabled) = 1
       THEN /\ at' = "refresh"
            /\ opened' = CHOOSE r \in enabled : TRUE
            /\ wire' = wire \cup {OtherRequest("seat", r) : r \in enabled}
            /\ UNCHANGED <<todo, results>>
       ELSE Fails /\ UNCHANGED <<opened, wire>>
  /\ UNCHANGED <<call, selected, shown, reading, buffer, fetched, poster>>

\* A page that asks for a login, or shows no refresh button.
SeatPageRefused ==
  /\ at = "refresh"
  /\ Fails
  /\ UNCHANGED <<call, page, net, poster>>

\* The responses are reset and the page is made to ask once more.
ClickRefresh ==
  /\ at = "refresh"
  /\ at' = "seats"
  /\ buffer' = <<>>
  /\ wire' = wire \cup {OtherRequest("seat", opened)}
  /\ UNCHANGED <<call, todo, page, reading, fetched, results, poster>>

\* waitForProviderResponse looks at the path of the responses only, every 50 ms.
NoSeatResponse ==
  /\ at = "seats" /\ buffer # <<>>
  /\ takeProviderResponses("seat") = {}
  /\ buffer' = <<>>
  /\ UNCHANGED <<call, at, todo, page, wire, reading, fetched, results, poster>>

SeatWaitTimesOut ==
  /\ at = "seats"
  /\ Fails
  /\ UNCHANGED <<call, page, net, poster>>

\* liveSeatObservation, from the body of one response.
Observation(b) ==
  LET layout == parseSeatMapLayout(SeatBodies[b], target.auditorium)
  IN  [body |-> b, layout |-> layout,
       available |-> parseSeatAvailability(SeatBodies[b], target.auditorium)]

Observable(b) ==
  /\ LayoutAccepted(SeatBodies[b])
  /\ AvailabilityAccepted(SeatBodies[b], target.auditorium,
                          parseSeatMapLayout(SeatBodies[b], target.auditorium))

CaptureSeatAvailability ==
  /\ at = "seats"
  /\ LET taken == takeProviderResponses("seat")
         usable == {i \in taken : buffer[i].status = "ok" /\ Observable(buffer[i].body)}
     IN  /\ taken # {}
         /\ \/ /\ \E i \in usable : taken = {i} /\ seats' = Observation(buffer[i].body)
               /\ Return /\ UNCHANGED captured
            \/ ~(\E i \in usable : taken = {i}) /\ Fails
  /\ buffer' = <<>>
  /\ UNCHANGED <<call, page, wire, reading, fetched, poster>>

-----------------------------------------------------------------------------
(***************************************************************************)
(* The catalog.                                                            *)
(***************************************************************************)

\* captureTheaters, up to the first look at the responses.
CaptureCatalog ==
  /\ Begin("catalog")
  /\ buffer' = <<>>
  /\ wire' = {OtherRequest("theaters", Nothing)}
  /\ at' = "theaters"
  /\ UNCHANGED <<use, theater, target, todo, page, reading, fetched, poster>>

\* Without a response the list of theaters is opened and looked at once more.
TheatersMissing ==
  /\ at = "theaters" /\ takeProviderResponses("theaters") = {}
  /\ buffer' = <<>>
  /\ at' = "theatersAgain"
  /\ UNCHANGED <<call, todo, page, wire, reading, fetched, results, poster>>

TheatersFail ==
  /\ \/ at = "theaters" /\ captureError(takeProviderResponses("theaters")) \notin {"none", "missing"}
     \/ at = "theatersAgain" /\ captureError(takeProviderResponses("theaters")) # "none"
  /\ buffer' = <<>>
  /\ Fails
  /\ UNCHANGED <<call, page, wire, reading, fetched, poster>>

\* A navigation, a wait or a click fails.
CatalogPageFails ==
  /\ at \in {"theaters", "theatersAgain"}
  /\ Fails
  /\ UNCHANGED <<call, page, net, poster>>

\* beginCatalogPosterCapture; the movie page then asks for a poster twice,
\* as CGV shows some movies in two places.
BeginPosters ==
  /\ at \in {"theaters", "theatersAgain"}
  /\ captureError(takeProviderResponses("theaters")) = "none"
  /\ buffer' = <<>>
  /\ posterMode' = TRUE
  /\ \E known \in SUBSET Movies : cached' = known
  /\ posters' = NoPosters
  /\ wire' = {OtherRequest("poster", item) : item \in Movies \X (1..2)}
  /\ at' = "posters"
  /\ UNCHANGED <<call, todo, page, reading, fetched, results, collected>>

clearCatalogPosterCapture == posterMode' = FALSE /\ cached' = {} /\ posters' = NoPosters

\* renderBookingPosterImages waits until no poster is missing, or for long
\* enough; then what there is is returned.
CollectPosters ==
  /\ at = "posters"
  /\ collected' = posters
  /\ clearCatalogPosterCapture
  /\ Return /\ UNCHANGED <<captured, seats>>
  /\ UNCHANGED <<call, page, net>>

PostersFail ==
  /\ at = "posters"
  /\ clearCatalogPosterCapture
  /\ Fails
  /\ UNCHANGED <<call, page, net, collected>>

-----------------------------------------------------------------------------
Schedules ==
  \/ \E t \in Theaters : CaptureSchedules(t) \/ RoundRefused(t)
  \/ SelectTheater \/ SelectTheaterThrottled \/ SelectTheaterFails
  \/ RequestDate \/ RequestDateRefused \/ FetchReturns \/ FetchFails
  \/ SelectDate \/ SelectDateUnavailable
  \/ waitForScheduleResponseReady \/ WaitTimesOut
  \/ ExtractFails \/ ExtractSchedules

SeatCaptures ==
  \/ \E r \in Rows : CaptureSeats(r)
  \/ ResolveSeatMap \/ CaptureSeatMap
  \/ ResolveSeatAvailability \/ OpenSeatPage \/ SeatPageRefused \/ ClickRefresh
  \/ NoSeatResponse \/ SeatWaitTimesOut \/ CaptureSeatAvailability

Catalog ==
  \/ CaptureCatalog \/ TheatersMissing \/ TheatersFail \/ CatalogPageFails
  \/ BeginPosters \/ CollectPosters \/ PostersFail

Next == ResponseSeen \/ BodyRead \/ PosterRead \/ Schedules \/ SeatCaptures \/ Catalog

Spec == Init /\ [][Next]_vars

-----------------------------------------------------------------------------
Request ==
  [path : {"schedule", "theaters", "seat"}, site : Theaters \cup {Nothing},
   date : Dates \cup {Nothing}, item : Rows \cup {Nothing}, own : BOOLEAN]
  \cup [path : {"poster"}, site : {Nothing}, date : {Nothing}, item : Movies \X (1..2), own : {FALSE}]

Response ==
  [request : Request, status : {"unknown", "ok", "throttled", "error"},
   body : DOMAIN SeatBodies \cup {0}]

\* A call looks at a date only while it has one left.
CallOK ==
  /\ use \in {"session", "seatMap", "availability", "catalog"}
  /\ at \in {"idle", "select", "request", "fetch", "wait", "extract", "layout", "open", "refresh",
             "seats", "theaters", "theatersAgain", "posters", "closed"}
  /\ rounds \in Nat /\ theater \in Theaters \cup {Nothing} /\ target \in Rows \cup {Nothing}
  /\ todo \in Seq(Dates) /\ (at \in {"request", "fetch", "wait", "extract"} => todo # <<>>)
  /\ selected \in Theaters \cup {Nothing} /\ shown \in Dates \cup {Nothing}
  /\ opened \in Rows \cup {Nothing}

NetOK ==
  /\ wire \subseteq Request /\ reading \in Seq(Response) /\ buffer \in Seq(Response)
  /\ fetched \in {"none", "ok", "throttled", "error"}

ResultsOK ==
  /\ captured \subseteq [date : Dates, complete : BOOLEAN, showtimes : SUBSET Rows]
  /\ seats.body \in DOMAIN SeatBodies \cup {Nothing}
  /\ posterMode \in BOOLEAN /\ cached \subseteq Movies
  /\ posters \in [Movies -> 0..2] /\ collected \in [Movies -> 0..2]

TypeOK == CallOK /\ NetOK /\ ResultsOK

(***************************************************************************)
(* A date that is complete and has showtimes has all the provider lists    *)
(* for the theater and the date, and no other: whatever late responses are *)
(* in the buffer, whichever of them did not fit, and whatever linked rows  *)
(* came with them.                                                         *)
(***************************************************************************)
CompleteMeansWhole ==
  \A c \in captured :
    c.complete /\ c.showtimes # {} =>
      c.showtimes = {r \in Rows : r.site = theater /\ r.date = c.date}

(***************************************************************************)
(* "Date-level failures stay attached to that date so an unavailable page  *)
(* can never be mistaken for evidence that no showtimes existed."          *)
(* (CaptureSchedules): a date that is complete and empty has no showtimes. *)
(***************************************************************************)
EmptyMeansNoShowtimes ==
  \A c \in captured :
    c.complete /\ c.showtimes = {} => {r \in Rows : r.site = theater /\ r.date = c.date} = {}

(***************************************************************************)
(* What is returned about seats is about all of them: the layout has one   *)
(* seat for each of the provider's, although labels are built from two     *)
(* fields; and a seat is unavailable because the provider said so, never   *)
(* because it said nothing that is understood.                             *)
(***************************************************************************)
SeatsAreWhole ==
  seats.body # Nothing =>
    LET body == SeatBodies[seats.body]
        ids == {s.id : s \in seats.layout.seats}
        status == {<<s.sale, s.code>> : s \in {SeatAt(body, p) : p \in Places(body)}}
    IN  /\ Cardinality(ids) = Cardinality(Places(body))
        /\ seats.available \subseteq ids
        /\ use = "availability" => status \subseteq {"Y", "N"} \X {"00", "01", "03", "04"}

(***************************************************************************)
(* The layout is the same whichever order the provider lists its items and *)
(* their seats, zones and blocks in, as long as zones and blocks that      *)
(* share a code and a name are the same: the sort of each list puts what   *)
(* several items bring in order.                                           *)
(***************************************************************************)
LayoutIgnoresOrder ==
  seats.body # Nothing =>
    LET body == SeatBodies[seats.body] IN
      ToldApart(Zones(body)) /\ ToldApart(Blocks(body)) =>
        parseSeatMapLayout(Backwards(body), target.auditorium) = seats.layout

(***************************************************************************)
(* A poster is kept from the first response that was read for its movie    *)
(* until the capture ends, and only for a movie the caller has none of,    *)
(* although a handler looks before it reads the body and stores after it,  *)
(* when another one may have stored or the capture may be over.            *)
(***************************************************************************)
FirstPosterWins ==
  [][\A m \in Movies :
       /\ posters[m] # 0 /\ posterMode' => posters'[m] = posters[m]
       /\ posters'[m] # 0 => posterMode' /\ m \notin cached']_vars
=============================================================================
