------------------------ MODULE ProviderResponsesProofs ------------------------
(***************************************************************************)
(* Proofs about ProviderResponses for every set of theaters, dates, rows,  *)
(* movies and seat data, and every limit of the buffer and of the handlers *)
(* that wait at a time.  The parts of the inductive invariant say what a   *)
(* call knows while it looks at dates, when posters are collected, and     *)
(* which accepted body the seats that were returned are made of.           *)
(***************************************************************************)
EXTENDS ProviderResponses, SeatLayoutProofs, FiniteSetTheorems, SequenceTheorems, TLAPS

\* While a call is on its way to a schedule it has a theater, and the capture
\* of available seats a showtime; only a seat map fetches the layout alone.
CallInv ==
  /\ at \in {"select", "request", "fetch", "wait", "extract"} =>
       theater \in Theaters /\ (use = "availability" => target \in Rows)
  /\ at = "layout" => use = "seatMap"

\* A response for seats that is not an error has seat data.
BodyInv ==
  \A i \in DOMAIN buffer : buffer[i].request.path = "seat" /\ buffer[i].status = "ok" =>
    buffer[i].body \in DOMAIN SeatBodies

\* Posters are kept while they are collected, and for no movie that has one.
PosterInv ==
  /\ posterMode <=> at = "posters"
  /\ \A m \in Movies : posters[m] # 0 => posterMode /\ m \notin cached

\* The seats that were returned are made of one body that was accepted.
SeatsFrom(b) ==
  /\ LayoutAccepted(SeatBodies[b])
  /\ \/ /\ use # "availability"
        /\ seats = [body |-> b, available |-> {},
                    layout |-> parseSeatMapLayout(SeatBodies[b], target.auditorium)]
     \/ Observable(b) /\ seats = Observation(b)

SeatsInv == seats = NoSeats \/ \E b \in DOMAIN SeatBodies : SeatsFrom(b)

ResponsesInv ==
  /\ CallOK /\ NetOK /\ ResultsOK
  /\ CallInv /\ BodyInv /\ PosterInv /\ SeatsInv /\ CompleteMeansWhole

-----------------------------------------------------------------------------
\* The date a call looks at is one of its own, and so are those that follow.
LEMMA DatesLeft ==
  ASSUME CallOK, todo # <<>>
  PROVE  Date \in Dates /\ Tail(todo) \in Seq(Dates)
<1>1. todo \in Seq(Dates)
  BY DEF CallOK
<1> QED
  BY <1>1, HeadTailProperties DEF Date

\* The requests a call or a page makes.
LEMMA RequestsTyped ==
  /\ \A site \in Theaters, date \in Dates, own \in BOOLEAN :
       ScheduleRequest(site, date, own) \in Request
  /\ \A path \in {"theaters", "seat"}, item \in Rows \cup {Nothing} :
       OtherRequest(path, item) \in Request
  /\ \A item \in Movies \X (1..2) : OtherRequest("poster", item) \in Request
BY DEF ScheduleRequest, OtherRequest, Request

\* Responses join the handlers and the buffer, and leave the handlers.
LEMMA ResponsesJoin ==
  ASSUME NEW x \in Response, NEW s \in Seq(Response)
  PROVE  /\ <<x>> \o s \in Seq(Response)
         /\ s # <<>> => Head(s) \in Response /\ Tail(s) \in Seq(Response)
<1>1. <<x>> \in Seq(Response)
  OBVIOUS
<1>2. <<x>> \o s \in Seq(Response)
  BY <1>1, ConcatProperties
<1>3. s # <<>> => Head(s) \in Response /\ Tail(s) \in Seq(Response)
  BY HeadTailProperties
<1> QED
  BY <1>2, <1>3

\* The innermost handler and the others.
LEMMA ReadingTyped ==
  ASSUME reading \in Seq(Response), reading # <<>>
  PROVE  Head(reading) \in Response /\ Tail(reading) \in Seq(Response)
BY HeadTailProperties

\* What captureProviderResponse leaves in the buffer: what was there, and the
\* response or the error that stands for it.
LEMMA KeepTyped ==
  ASSUME NEW x \in Response, Keep(x), buffer \in Seq(Response), BodyInv,
         x.request.path = "seat" /\ x.status = "ok" => x.body \in DOMAIN SeatBodies
  PROVE  buffer' \in Seq(Response) /\ BodyInv'
<1> DEFINE e == [request |-> [x.request EXCEPT !.site = Nothing, !.date = Nothing],
                 status |-> "error", body |-> 0]
<1>1. e \in Response /\ e.status = "error"
  <2>1. x.request \in Request
    BY DEF Response
  <2>2. [x.request EXCEPT !.site = Nothing, !.date = Nothing] \in Request
    BY <2>1 DEF Request
  <2> QED  BY <2>2 DEF Response
<1> HIDE DEF e
<1>2. buffer' = buffer \/ \E y \in {x, e} : buffer' = Append(buffer, y)
  BY DEF Keep, e
<1>3. CASE buffer' = buffer
  BY <1>3 DEF BodyInv
<1>4. ASSUME NEW y \in {x, e}, buffer' = Append(buffer, y)
      PROVE  buffer' \in Seq(Response) /\ BodyInv'
  <2>1. y \in Response
    BY <1>1
  <2>2. /\ buffer' \in Seq(Response) /\ Len(buffer') = Len(buffer) + 1
        /\ \A i \in 1..Len(buffer) : buffer'[i] = buffer[i]
        /\ buffer'[Len(buffer) + 1] = y
    BY <1>4, <2>1, AppendProperties
  <2>3. /\ DOMAIN buffer = 1..Len(buffer) /\ DOMAIN buffer' = 1..Len(buffer')
        /\ Len(buffer) \in Nat
    BY <2>2, LenProperties
  <2>4. y.request.path = "seat" /\ y.status = "ok" => y.body \in DOMAIN SeatBodies
    BY <1>1
  <2>5. \A i \in DOMAIN buffer' : i \in DOMAIN buffer \/ i = Len(buffer) + 1
    BY <2>2, <2>3
  <2> QED  BY <2>2, <2>3, <2>4, <2>5 DEF BodyInv
<1> QED
  BY <1>2, <1>3, <1>4

\* One answer that has a row of a theater and a date has all of its rows, if it
\* was asked for that theater or for another that it is linked to; so the rows
\* extractSchedules keeps are either none or all of them.
LEMMA RowsAreWhole ==
  ASSUME DateRows(captureScheduleRows) # {}
  PROVE  DateRows(captureScheduleRows) = {r \in Rows : r.site = theater /\ r.date = Date}
<1> DEFINE rows == captureScheduleRows
<1>1. \A r \in rows : \E i \in takeProviderResponses("schedule") :
        r \in Answer(buffer[i].request.site, buffer[i].request.date)
  BY DEF captureScheduleRows
<1>2. \A i \in takeProviderResponses("schedule") :
        Answer(buffer[i].request.site, buffer[i].request.date) \subseteq rows
  BY DEF captureScheduleRows
<1>3. DateRows(rows) = {r \in rows : r.site = theater /\ r.date = Date}
  BY DEF DateRows, TheaterRows
<1> HIDE DEF rows
<1>4. PICK r \in rows : r.site = theater /\ r.date = Date
  <2>1. DateRows(rows) # {}
    BY DEF rows
  <2> QED  BY <1>3, <2>1
<1>5. PICK i \in takeProviderResponses("schedule") :
        r \in Answer(buffer[i].request.site, buffer[i].request.date)
  BY <1>1
<1>6. {q \in Rows : q.site = theater /\ q.date = Date}
        \subseteq Answer(buffer[i].request.site, buffer[i].request.date)
  BY <1>4, <1>5 DEF Answer
<1>7. rows \subseteq Rows
  BY <1>1 DEF Answer
<1> QED
  BY <1>2, <1>3, <1>6, <1>7 DEF rows

\* The rows extractSchedules keeps are rows of the provider.
LEMMA DateRowsTyped == DateRows(captureScheduleRows) \subseteq Rows
BY DEF DateRows, TheaterRows, captureScheduleRows, Answer

\* A date that is done adds one ScheduleCapture to the results, whole or failed.
LEMMA DateDoneTyped ==
  ASSUME CallOK, ResultsOK, todo # <<>>, NEW complete \in BOOLEAN, NEW rows \in SUBSET Rows,
         DateDone(complete, rows), UNCHANGED poster
  PROVE  ResultsOK'
<1> DEFINE c == [date |-> Date, complete |-> complete, showtimes |-> rows]
<1>1. c \in [date : Dates, complete : BOOLEAN, showtimes : SUBSET Rows]
  <2>1. Date \in Dates
    BY DatesLeft
  <2> QED  BY <2>1
<1>2. captured' = captured \cup {c} /\ seats' = seats
  BY DEF DateDone
<1> HIDE DEF c
<1>3. captured' \subseteq [date : Dates, complete : BOOLEAN, showtimes : SUBSET Rows]
  BY <1>1, <1>2 DEF ResultsOK
<1>4. UNCHANGED <<posterMode, cached, posters, collected>>
  BY DEF poster
<1>5. posterMode' \in BOOLEAN
  BY <1>4, Zenon DEF ResultsOK
<1> QED
  BY <1>2, <1>3, <1>4, <1>5 DEF ResultsOK

\* The same of a date that fails, whichever way the call goes on.
LEMMA DateFailsTyped ==
  ASSUME CallOK, ResultsOK, todo # <<>>, NEW how, DateFails(how), UNCHANGED poster
  PROVE  ResultsOK'
<1>1. CASE DateDone(FALSE, {})
  BY <1>1, DateDoneTyped
<1>2. CASE Fails
  BY <1>2 DEF Fails, ResultsOK, results, poster
<1> QED
  BY <1>1, <1>2 DEF DateFails

\* The initial state satisfies the inductive invariant.
LEMMA ResponsesInvInit == Init => ResponsesInv
<1> SUFFICES ASSUME Init PROVE ResponsesInv
  OBVIOUS
<1>1. CallOK
  <2>1. todo \in Seq(Dates)
    BY EmptySeq, Zenon DEF Init
  <2> QED  BY <2>1 DEF Init, CallOK
<1>a. NetOK
  <2>1. reading \in Seq(Response) /\ buffer \in Seq(Response)
    BY EmptySeq, Zenon DEF Init
  <2> QED  BY <2>1 DEF Init, NetOK
<1>b. ResultsOK
  <2>1. posterMode \in BOOLEAN
    BY Zenon DEF Init
  <2>2. posters \in [Movies -> 0..2] /\ collected \in [Movies -> 0..2]
    BY DEF Init, NoPosters
  <2> QED  BY <2>1, <2>2 DEF Init, ResultsOK, NoSeats
<1>c. BodyInv
  BY DEF Init, BodyInv
<1>2. CallInv
  BY DEF Init, CallInv
<1>3. PosterInv
  BY DEF Init, PosterInv, NoPosters
<1>4. SeatsInv
  BY DEF Init, SeatsInv
<1>5. CompleteMeansWhole
  BY DEF Init, CompleteMeansWhole
<1> QED
  BY <1>1, <1>a, <1>b, <1>c, <1>2, <1>3, <1>4, <1>5 DEF ResponsesInv

\* Every step preserves it.
LEMMA ResponsesInvNext == ResponsesInv /\ [Next]_vars => ResponsesInv'
<1> SUFFICES ASSUME ResponsesInv, [Next]_vars PROVE ResponsesInv'
  OBVIOUS
<1> USE DEF ResponsesInv, call, page, net, results, poster
<1>e. <<>> \in Seq(Dates) /\ <<>> \in Seq(Response)
  BY EmptySeq, Zenon
<1>d. todo # <<>> => Date \in Dates /\ Tail(todo) \in Seq(Dates)
  BY DatesLeft
<1>1. CASE ResponseSeen
  <2>1. NetOK'
    <3>1. PICK q \in wire :
            /\ wire' = wire \ {q}
            /\ \E status \in {"ok", "throttled", "error", "unknown"} :
                 /\ \/ reading' = reading
                    \/ reading' = <<[request |-> q, status |-> status, body |-> 0]>> \o reading
                 /\ fetched' = fetched \/ (fetched' = status /\ status # "unknown")
      BY <1>1 DEF ResponseSeen
    <3>2. PICK status \in {"ok", "throttled", "error", "unknown"} :
            /\ \/ reading' = reading
               \/ reading' = <<[request |-> q, status |-> status, body |-> 0]>> \o reading
            /\ fetched' = fetched \/ (fetched' = status /\ status # "unknown")
      BY <3>1
    <3>3. [request |-> q, status |-> status, body |-> 0] \in Response
      BY DEF NetOK, Response
    <3>4. reading' \in Seq(Response)
      BY <3>2, <3>3, ResponsesJoin DEF NetOK
    <3> QED  BY <1>1, <3>1, <3>2, <3>4 DEF ResponseSeen, NetOK
  <2>2. CallOK' /\ ResultsOK' /\ CallInv' /\ BodyInv' /\ PosterInv' /\ SeatsInv' /\
     CompleteMeansWhole'
    BY <1>1 DEF CallOK, ResultsOK, CallInv, BodyInv, PosterInv, SeatsInv, SeatsFrom,
       Observable, Observation, CompleteMeansWhole, ResponseSeen
  <2> QED  BY <2>1, <2>2
<1>2. CASE BodyRead
  <2>a. reading # <<>> /\ reading' = Tail(reading) /\ reading' \in Seq(Response)
    BY <1>2, ReadingTyped DEF BodyRead, NetOK
  <2>b. \E x \in Response :
          /\ Keep(x)
          /\ x.request.path = "seat" /\ x.status = "ok" => x.body \in DOMAIN SeatBodies
    <3> DEFINE h == Head(reading)
    <3>1. h \in Response
      BY <2>a, ReadingTyped DEF NetOK
    <3>2. PICK status \in Outcomes(h.status) :
            \E b \in IF status = "ok" /\ h.request.path = "seat"
                    THEN DOMAIN SeatBodies ELSE {0} :
              Keep([h EXCEPT !.status = status, !.body = b])
      BY <1>2 DEF BodyRead
    <3>6. PICK b \in IF status = "ok" /\ h.request.path = "seat"
                   THEN DOMAIN SeatBodies ELSE {0} :
            Keep([h EXCEPT !.status = status, !.body = b])
      BY <3>2
    <3>3. status \in {"ok", "throttled", "error"}
      BY <3>1 DEF Outcomes, Response
    <3> DEFINE x == [h EXCEPT !.status = status, !.body = b]
    <3>4. x \in Response /\ x.request = h.request /\ x.status = status /\ x.body = b
      BY <3>1, <3>3 DEF Response
    <3>5. x.request.path = "seat" /\ x.status = "ok" => x.body \in DOMAIN SeatBodies
      BY <3>4
    <3> QED  BY <3>6, <3>4, <3>5
  <2>1. NetOK'
    <3>1. reading' \in Seq(Response) /\ buffer' \in Seq(Response)
      BY <2>a, <2>b, KeepTyped DEF NetOK
    <3> QED  BY <1>2, <3>1 DEF BodyRead, NetOK
  <2>2. BodyInv'
BY <2>b, KeepTyped DEF NetOK
  <2>3. CallOK' /\ ResultsOK' /\ CallInv' /\ PosterInv' /\ SeatsInv' /\ CompleteMeansWhole'
    BY <1>2 DEF CallOK, ResultsOK, CallInv, PosterInv, SeatsInv, SeatsFrom, Observable,
       Observation, CompleteMeansWhole, BodyRead
  <2> QED  BY <2>1, <2>2, <2>3
<1>3. CASE PosterRead
  <2>1. NetOK'
    BY <1>3, ReadingTyped DEF NetOK, PosterRead, storeCatalogPoster,
       catalogPosterAlreadyAvailable
  <2>2. ResultsOK'
    <3> DEFINE q == Head(reading).request
    <3>1. q \in Request /\ q.path = "poster"
      BY <1>3, ReadingTyped DEF PosterRead, NetOK, Response
    <3>2. q.item \in Movies \X (1..2)
      BY <3>1 DEF Request
    <3>3. q.item[2] \in 0..2
      BY <3>2
    <3>4. posters' = posters \/ posters' = [posters EXCEPT ![q.item[1]] = q.item[2]]
      BY <1>3 DEF PosterRead, storeCatalogPoster
    <3>5. posters' \in [Movies -> 0..2]
      BY <3>3, <3>4 DEF ResultsOK
    <3> QED  BY <1>3, <3>5 DEF PosterRead, ResultsOK
  <2>3. PosterInv'
    BY <1>3 DEF PosterInv, ResultsOK, PosterRead, storeCatalogPoster,
       catalogPosterAlreadyAvailable
  <2>4. CallOK' /\ CallInv' /\ BodyInv' /\ SeatsInv' /\ CompleteMeansWhole'
    BY <1>3 DEF CallOK, CallInv, BodyInv, SeatsInv, SeatsFrom, Observable, Observation,
       CompleteMeansWhole, PosterRead, storeCatalogPoster, catalogPosterAlreadyAvailable
  <2> QED  BY <2>1, <2>2, <2>3, <2>4
<1>4. ASSUME NEW t \in Theaters, CaptureSchedules(t) PROVE ResponsesInv'
  <2>1. CallOK'
    BY <1>4, <1>e, <1>d DEF CallOK, CaptureSchedules, Begin
  <2>2. ResultsOK'
    BY <1>4 DEF ResultsOK, CaptureSchedules, Begin, NoSeats
  <2>3. CallInv'
    BY <1>4 DEF CallInv, CallOK, CaptureSchedules, Begin
  <2>4. PosterInv'
    BY <1>4 DEF PosterInv, ResultsOK, CaptureSchedules, Begin
  <2>5. SeatsInv'
    BY <1>4 DEF SeatsInv, SeatsFrom, Observable, Observation, CaptureSchedules, Begin
  <2>6. CompleteMeansWhole'
    BY <1>4 DEF CompleteMeansWhole, CaptureSchedules, Begin
  <2>7. NetOK' /\ BodyInv'
    BY <1>4 DEF NetOK, BodyInv, CaptureSchedules, Begin
  <2> QED  BY <2>1, <2>2, <2>3, <2>4, <2>5, <2>6, <2>7
<1>5. ASSUME NEW t \in Theaters, RoundRefused(t) PROVE ResponsesInv'
  <2>1. CallOK'
    BY <1>5, <1>e, <1>d DEF CallOK, RoundRefused, Begin
  <2>2. ResultsOK'
    BY <1>5 DEF ResultsOK, RoundRefused, Begin, NoSeats
  <2>3. CallInv'
    BY <1>5 DEF CallInv, CallOK, RoundRefused, Begin
  <2>4. SeatsInv'
    BY <1>5 DEF SeatsInv, SeatsFrom, Observable, Observation, RoundRefused, Begin
  <2>5. CompleteMeansWhole'
    BY <1>5 DEF CompleteMeansWhole, RoundRefused, Begin
  <2>6. NetOK' /\ BodyInv' /\ PosterInv'
    BY <1>5 DEF NetOK, BodyInv, PosterInv, ResultsOK, RoundRefused, Begin
  <2> QED  BY <2>1, <2>2, <2>3, <2>4, <2>5, <2>6
<1>6. CASE SelectTheater
  <2>1. CallOK'
    <3>1. theater \in Theaters /\ (use = "availability" => target \in Rows)
      BY <1>6 DEF SelectTheater, CallInv
    <3>2. DatesToVisit \in Seq(Dates) /\ DatesToVisit # <<>>
      <4>1. CASE use = "availability"
        <5>1. target.date \in Dates
          BY <3>1, <4>1, ResponsesAssumption
        <5> QED  BY <4>1, <5>1 DEF DatesToVisit
      <4>2. CASE use # "availability"
        BY <3>1, <4>2, ResponsesAssumption DEF DatesToVisit
      <4> QED  BY <4>1, <4>2
    <3> HIDE DEF DatesToVisit
    <3> QED  BY <1>6, <3>1, <3>2, ResponsesAssumption DEF SelectTheater, CallOK
  <2>2. NetOK'
    BY <1>6, RequestsTyped, ResponsesAssumption DEF NetOK, SelectTheater, CallInv
  <2>3. CallInv'
    BY <1>6 DEF CallInv, CallOK, SelectTheater
  <2>4. PosterInv'
    BY <1>6 DEF PosterInv, ResultsOK, SelectTheater
  <2>5. ResultsOK' /\ BodyInv' /\ SeatsInv' /\ CompleteMeansWhole'
    BY <1>6 DEF ResultsOK, BodyInv, SeatsInv, SeatsFrom, Observable, Observation,
       CompleteMeansWhole, SelectTheater
  <2> QED  BY <2>1, <2>2, <2>3, <2>4, <2>5
<1>7. CASE SelectTheaterThrottled
  <2>1. CallOK'
    BY <1>7, <1>e, <1>d DEF CallOK, SelectTheaterThrottled, Fails, Return
  <2>2. NetOK'
    BY <1>7 DEF NetOK, SelectTheaterThrottled, Fails, Return
  <2>3. ResultsOK'
    BY <1>7 DEF ResultsOK, SelectTheaterThrottled, Fails, Return
  <2>4. CallInv'
    BY <1>7 DEF CallInv, CallOK, SelectTheaterThrottled, Fails, Return
  <2>5. BodyInv'
    BY <1>7 DEF BodyInv, SelectTheaterThrottled, Fails, Return
  <2>6. PosterInv'
    BY <1>7 DEF PosterInv, ResultsOK, SelectTheaterThrottled, Fails, Return
  <2>7. SeatsInv'
    BY <1>7 DEF SeatsInv, SeatsFrom, Observable, Observation, SelectTheaterThrottled, Fails,
       Return
  <2>8. CompleteMeansWhole'
    BY <1>7 DEF CompleteMeansWhole, SelectTheaterThrottled, Fails, Return
  <2> QED  BY <2>1, <2>2, <2>3, <2>4, <2>5, <2>6, <2>7, <2>8
<1>8. CASE SelectTheaterFails
  <2>1. CallOK'
    BY <1>8, <1>e, <1>d DEF CallOK, SelectTheaterFails
  <2>2. CallInv'
    BY <1>8 DEF CallInv, CallOK, SelectTheaterFails
  <2>3. PosterInv'
    BY <1>8 DEF PosterInv, ResultsOK, SelectTheaterFails
  <2>4. NetOK' /\ ResultsOK' /\ BodyInv' /\ SeatsInv' /\ CompleteMeansWhole'
    BY <1>8 DEF NetOK, ResultsOK, BodyInv, SeatsInv, SeatsFrom, Observable, Observation,
       CompleteMeansWhole, SelectTheaterFails
  <2> QED  BY <2>1, <2>2, <2>3, <2>4
<1>9. CASE RequestDate
  <2>1. CallOK'
    BY <1>9, <1>e, <1>d DEF CallOK, RequestDate
  <2>2. NetOK'
    BY <1>9, <1>d, <1>e, RequestsTyped DEF NetOK, RequestDate, CallOK, CallInv
  <2>3. CallInv'
    BY <1>9 DEF CallInv, CallOK, RequestDate
  <2>4. BodyInv'
    BY <1>9 DEF BodyInv, RequestDate
  <2>5. PosterInv'
    BY <1>9 DEF PosterInv, ResultsOK, RequestDate
  <2>6. ResultsOK' /\ SeatsInv' /\ CompleteMeansWhole'
    BY <1>9 DEF ResultsOK, SeatsInv, SeatsFrom, Observable, Observation, CompleteMeansWhole,
       RequestDate
  <2> QED  BY <2>1, <2>2, <2>3, <2>4, <2>5, <2>6
<1>10. CASE RequestDateRefused
  <2>1. CallOK'
    BY <1>10, <1>e, <1>d DEF CallOK, RequestDateRefused, DateFails, DateDone, Fails, Return
  <2>2. ResultsOK'
    <3>1. todo # <<>>
      BY <1>10 DEF RequestDateRefused, CallOK
    <3>2. DateFails("throttled") /\ UNCHANGED poster
      BY <1>10 DEF RequestDateRefused
    <3> QED  BY <3>1, <3>2, DateFailsTyped
  <2>3. CallInv'
    BY <1>10 DEF CallInv, CallOK, RequestDateRefused, DateFails, DateDone, Fails, Return
  <2>4. PosterInv'
    BY <1>10 DEF PosterInv, ResultsOK, RequestDateRefused, DateFails, DateDone, Fails, Return
  <2>5. SeatsInv'
    BY <1>10 DEF SeatsInv, SeatsFrom, Observable, Observation, RequestDateRefused, DateFails,
       DateDone, Fails, Return
  <2>6. CompleteMeansWhole'
    BY <1>10 DEF CompleteMeansWhole, RequestDateRefused, DateFails, DateDone, Fails, Return
  <2>7. NetOK' /\ BodyInv'
    BY <1>10 DEF NetOK, BodyInv, RequestDateRefused, DateFails, DateDone, Fails, Return
  <2> QED  BY <2>1, <2>2, <2>3, <2>4, <2>5, <2>6, <2>7
<1>11. CASE FetchReturns
  <2>1. CallOK'
    BY <1>11, <1>e, <1>d DEF CallOK, FetchReturns
  <2>2. NetOK'
    BY <1>11 DEF NetOK, FetchReturns
  <2>3. CallInv'
    BY <1>11 DEF CallInv, CallOK, FetchReturns
  <2>4. PosterInv'
    BY <1>11 DEF PosterInv, ResultsOK, FetchReturns
  <2>5. ResultsOK' /\ BodyInv' /\ SeatsInv' /\ CompleteMeansWhole'
    BY <1>11 DEF ResultsOK, BodyInv, SeatsInv, SeatsFrom, Observable, Observation,
       CompleteMeansWhole, FetchReturns
  <2> QED  BY <2>1, <2>2, <2>3, <2>4, <2>5
<1>12. CASE FetchFails
  <2>1. CallOK'
    BY <1>12, <1>e, <1>d DEF CallOK, FetchFails, DateFails, DateDone, Fails, Return
  <2>2. NetOK'
    BY <1>12 DEF NetOK, FetchFails, DateFails, DateDone, Fails, Return
  <2>3. ResultsOK'
    <3>1. todo # <<>>
      BY <1>12 DEF FetchFails, CallOK
    <3>2. DateFails(fetched) /\ UNCHANGED poster
      BY <1>12 DEF FetchFails
    <3> QED  BY <3>1, <3>2, DateFailsTyped
  <2>4. CallInv'
    BY <1>12 DEF CallInv, CallOK, FetchFails, DateFails, DateDone, Fails, Return
  <2>5. BodyInv'
    BY <1>12 DEF BodyInv, FetchFails, DateFails, DateDone, Fails, Return
  <2>6. PosterInv'
    BY <1>12 DEF PosterInv, ResultsOK, FetchFails, DateFails, DateDone, Fails, Return
  <2>7. SeatsInv'
    BY <1>12 DEF SeatsInv, SeatsFrom, Observable, Observation, FetchFails, DateFails, DateDone,
       Fails, Return
  <2>8. CompleteMeansWhole'
    BY <1>12 DEF CompleteMeansWhole, FetchFails, DateFails, DateDone, Fails, Return
  <2> QED  BY <2>1, <2>2, <2>3, <2>4, <2>5, <2>6, <2>7, <2>8
<1>13. CASE SelectDate
  <2>1. CallOK'
    BY <1>13, <1>e, <1>d DEF CallOK, SelectDate
  <2>2. NetOK'
    <3>1. buffer' \in Seq(Response)
      BY <1>13, <1>e DEF SelectDate, NetOK
    <3>2. ScheduleRequest(theater, Date, FALSE) \in Request
      <4>1. Date \in Dates /\ theater \in Theaters
        BY <1>13, <1>d DEF SelectDate, CallOK, CallInv
      <4> QED  BY <4>1, RequestsTyped
    <3>3. wire' = wire \/ wire' = wire \cup {ScheduleRequest(theater, Date, FALSE)}
      BY <1>13 DEF SelectDate
    <3> QED  BY <1>13, <3>1, <3>2, <3>3 DEF SelectDate, NetOK
  <2>3. CallInv'
    BY <1>13 DEF CallInv, CallOK, SelectDate
  <2>4. BodyInv'
    <3>1. buffer' = buffer \/ buffer' = <<>>
      BY <1>13 DEF SelectDate
    <3> QED  BY <3>1 DEF BodyInv
  <2>5. PosterInv'
    BY <1>13 DEF PosterInv, ResultsOK, SelectDate
  <2>6. ResultsOK' /\ SeatsInv' /\ CompleteMeansWhole'
    BY <1>13 DEF ResultsOK, SeatsInv, SeatsFrom, Observable, Observation, CompleteMeansWhole,
       SelectDate
  <2> QED  BY <2>1, <2>2, <2>3, <2>4, <2>5, <2>6
<1>14. CASE SelectDateUnavailable
  <2>1. CallOK'
    BY <1>14, <1>e, <1>d DEF CallOK, SelectDateUnavailable, Fails, Return
  <2>2. NetOK'
    BY <1>14, <1>e DEF NetOK, SelectDateUnavailable, Fails, Return
  <2>3. ResultsOK'
    BY <1>14 DEF ResultsOK, SelectDateUnavailable, Fails, Return
  <2>4. CallInv'
    BY <1>14 DEF CallInv, CallOK, SelectDateUnavailable, Fails, Return
  <2>5. BodyInv'
    BY <1>14 DEF BodyInv, SelectDateUnavailable, Fails, Return
  <2>6. PosterInv'
    BY <1>14 DEF PosterInv, ResultsOK, SelectDateUnavailable, Fails, Return
  <2>7. SeatsInv'
    BY <1>14 DEF SeatsInv, SeatsFrom, Observable, Observation, SelectDateUnavailable, Fails,
       Return
  <2>8. CompleteMeansWhole'
    BY <1>14 DEF CompleteMeansWhole, SelectDateUnavailable, Fails, Return
  <2> QED  BY <2>1, <2>2, <2>3, <2>4, <2>5, <2>6, <2>7, <2>8
<1>15. CASE waitForScheduleResponseReady
  <2>1. CallOK'
    BY <1>15, <1>e, <1>d DEF CallOK, waitForScheduleResponseReady
  <2>2. CallInv'
    BY <1>15 DEF CallInv, CallOK, waitForScheduleResponseReady
  <2>3. PosterInv'
    BY <1>15 DEF PosterInv, ResultsOK, waitForScheduleResponseReady
  <2>4. NetOK' /\ ResultsOK' /\ BodyInv' /\ SeatsInv' /\ CompleteMeansWhole'
    BY <1>15 DEF NetOK, ResultsOK, BodyInv, SeatsInv, SeatsFrom, Observable, Observation,
       CompleteMeansWhole, waitForScheduleResponseReady
  <2> QED  BY <2>1, <2>2, <2>3, <2>4
<1>16. CASE WaitTimesOut
  <2>1. CallOK'
    BY <1>16, <1>e, <1>d DEF CallOK, WaitTimesOut, DateFails, DateDone, Fails, Return
  <2>2. ResultsOK'
    <3>1. todo # <<>>
      BY <1>16 DEF WaitTimesOut, CallOK
    <3>2. DateFails("error") /\ UNCHANGED poster
      BY <1>16 DEF WaitTimesOut
    <3> QED  BY <3>1, <3>2, DateFailsTyped
  <2>3. CallInv'
    BY <1>16 DEF CallInv, CallOK, WaitTimesOut, DateFails, DateDone, Fails, Return
  <2>4. PosterInv'
    BY <1>16 DEF PosterInv, ResultsOK, WaitTimesOut, DateFails, DateDone, Fails, Return
  <2>5. SeatsInv'
    BY <1>16 DEF SeatsInv, SeatsFrom, Observable, Observation, WaitTimesOut, DateFails,
       DateDone, Fails, Return
  <2>6. CompleteMeansWhole'
    BY <1>16 DEF CompleteMeansWhole, WaitTimesOut, DateFails, DateDone, Fails, Return
  <2>7. NetOK' /\ BodyInv'
    BY <1>16 DEF NetOK, BodyInv, WaitTimesOut, DateFails, DateDone, Fails, Return
  <2> QED  BY <2>1, <2>2, <2>3, <2>4, <2>5, <2>6, <2>7
<1>17. CASE ExtractFails
  <2>1. CallOK'
    BY <1>17, <1>e, <1>d DEF CallOK, ExtractFails, DateFails, DateDone, Fails, Return
  <2>2. NetOK'
    BY <1>17, <1>e DEF NetOK, ExtractFails, DateFails, DateDone, Fails, Return
  <2>3. ResultsOK'
    <3>1. todo # <<>>
      BY <1>17 DEF ExtractFails, CallOK
    <3>2. PICK how : DateFails(how)
      BY <1>17 DEF ExtractFails
    <3>3. UNCHANGED poster
      BY <1>17 DEF ExtractFails
    <3> QED  BY <3>1, <3>2, <3>3, DateFailsTyped
  <2>4. CallInv'
    BY <1>17 DEF CallInv, CallOK, ExtractFails, DateFails, DateDone, Fails, Return
  <2>5. BodyInv'
    BY <1>17 DEF BodyInv, ExtractFails, DateFails, DateDone, Fails, Return
  <2>6. PosterInv'
    BY <1>17 DEF PosterInv, ResultsOK, ExtractFails, DateFails, DateDone, Fails, Return
  <2>7. SeatsInv'
    BY <1>17 DEF SeatsInv, SeatsFrom, Observable, Observation, ExtractFails, DateFails,
       DateDone, Fails, Return
  <2>8. CompleteMeansWhole'
    BY <1>17 DEF CompleteMeansWhole, ExtractFails, DateFails, DateDone, Fails, Return
  <2> QED  BY <2>1, <2>2, <2>3, <2>4, <2>5, <2>6, <2>7, <2>8
<1>18. CASE ExtractSchedules
  <2>1. CallOK'
    BY <1>18, <1>e, <1>d DEF CallOK, ExtractSchedules, Extracted, DateDone
  <2>2. NetOK'
    BY <1>18, <1>e DEF NetOK, ExtractSchedules, Extracted, DateDone
  <2>3. ResultsOK'
    <3> DEFINE rows == DateRows(captureScheduleRows)
    <3>1. todo # <<>>
      BY <1>18 DEF ExtractSchedules, Extracted, CallOK
    <3>2. DateDone(TRUE, rows) /\ UNCHANGED poster
      BY <1>18 DEF ExtractSchedules
    <3>3. rows \in SUBSET Rows
      BY DateRowsTyped
    <3> HIDE DEF rows
    <3> QED  BY <3>1, <3>2, <3>3, DateDoneTyped
  <2>4. CallInv'
    BY <1>18 DEF CallInv, CallOK, ExtractSchedules, Extracted, DateDone
  <2>5. BodyInv'
    BY <1>18 DEF BodyInv, ExtractSchedules, Extracted, DateDone
  <2>6. PosterInv'
    BY <1>18 DEF PosterInv, ResultsOK, ExtractSchedules, Extracted, DateDone
  <2>7. SeatsInv'
    BY <1>18 DEF SeatsInv, SeatsFrom, Observable, Observation, ExtractSchedules, Extracted,
       DateDone
  <2>8. CompleteMeansWhole'
    <3> DEFINE rows == DateRows(captureScheduleRows)
    <3>1. captured' = captured \cup {[date |-> Date, complete |-> TRUE, showtimes |-> rows]}
      BY <1>18 DEF ExtractSchedules, DateDone
    <3>2. theater' = theater
      BY <1>18 DEF ExtractSchedules
    <3>3. rows # {} => rows = {r \in Rows : r.site = theater /\ r.date = Date}
      BY RowsAreWhole
    <3> HIDE DEF rows
    <3> QED  BY <3>1, <3>2, <3>3 DEF CompleteMeansWhole
  <2> QED  BY <2>1, <2>2, <2>3, <2>4, <2>5, <2>6, <2>7, <2>8
<1>19. ASSUME NEW r \in Rows, CaptureSeats(r) PROVE ResponsesInv'
  <2>1. CallOK'
    BY <1>19, <1>e, <1>d DEF CallOK, CaptureSeats, Begin
  <2>2. ResultsOK'
    BY <1>19 DEF ResultsOK, CaptureSeats, Begin, NoSeats
  <2>3. CallInv'
    BY <1>19 DEF CallInv, CallOK, CaptureSeats, Begin
  <2>4. PosterInv'
    BY <1>19 DEF PosterInv, ResultsOK, CaptureSeats, Begin
  <2>5. SeatsInv'
    BY <1>19 DEF SeatsInv, SeatsFrom, Observable, Observation, CaptureSeats, Begin
  <2>6. CompleteMeansWhole'
    BY <1>19 DEF CompleteMeansWhole, CaptureSeats, Begin
  <2>7. NetOK' /\ BodyInv'
    BY <1>19 DEF NetOK, BodyInv, CaptureSeats, Begin
  <2> QED  BY <2>1, <2>2, <2>3, <2>4, <2>5, <2>6, <2>7
<1>20. CASE ResolveSeatMap
  <2>1. CallOK'
    BY <1>20, <1>e, <1>d DEF CallOK, ResolveSeatMap, Extracted, Fails, Return
  <2>2. NetOK'
    BY <1>20, <1>e DEF NetOK, ResolveSeatMap, Extracted, Fails, Return
  <2>3. ResultsOK'
    BY <1>20 DEF ResultsOK, ResolveSeatMap, Extracted, Fails, Return
  <2>4. CallInv'
    BY <1>20 DEF CallInv, CallOK, ResolveSeatMap, Extracted, Fails, Return
  <2>5. BodyInv'
    BY <1>20 DEF BodyInv, ResolveSeatMap, Extracted, Fails, Return
  <2>6. PosterInv'
    BY <1>20 DEF PosterInv, ResultsOK, ResolveSeatMap, Extracted, Fails, Return
  <2>7. SeatsInv'
    BY <1>20 DEF SeatsInv, SeatsFrom, Observable, Observation, ResolveSeatMap, Extracted,
       Fails, Return
  <2>8. CompleteMeansWhole'
    BY <1>20 DEF CompleteMeansWhole, ResolveSeatMap, Extracted, Fails, Return
  <2> QED  BY <2>1, <2>2, <2>3, <2>4, <2>5, <2>6, <2>7, <2>8
<1>21. CASE CaptureSeatMap
  <2>1. CallOK'
    BY <1>21, <1>e, <1>d DEF CallOK, CaptureSeatMap, Fails, Return
  <2>2. ResultsOK'
    BY <1>21 DEF ResultsOK, CaptureSeatMap, Fails, Return
  <2>3. CallInv'
    BY <1>21 DEF CallInv, CallOK, CaptureSeatMap, Fails, Return
  <2>4. PosterInv'
    BY <1>21 DEF PosterInv, ResultsOK, CaptureSeatMap, Fails, Return
  <2>5. SeatsInv'
    <3>1. UNCHANGED <<use, target>>
      BY <1>21 DEF CaptureSeatMap
    <3>2. CASE UNCHANGED seats
      BY <3>1, <3>2 DEF SeatsInv, SeatsFrom, Observable, Observation
    <3>3. ASSUME NEW b \in DOMAIN SeatBodies, LayoutAccepted(SeatBodies[b]),
                 seats' = [body |-> b, available |-> {},
                           layout |-> parseSeatMapLayout(SeatBodies[b], target.auditorium)]
          PROVE  SeatsInv'
      BY <1>21, <3>1, <3>3 DEF SeatsInv, SeatsFrom, CaptureSeatMap, CallInv
    <3> QED  BY <1>21, <3>2, <3>3 DEF CaptureSeatMap, Fails
  <2>6. CompleteMeansWhole'
    BY <1>21 DEF CompleteMeansWhole, CaptureSeatMap, Fails, Return
  <2>7. NetOK' /\ BodyInv'
    BY <1>21 DEF NetOK, BodyInv, CaptureSeatMap, Fails, Return
  <2> QED  BY <2>1, <2>2, <2>3, <2>4, <2>5, <2>6, <2>7
<1>22. CASE ResolveSeatAvailability
  <2>1. CallOK'
    BY <1>22, <1>e, <1>d DEF CallOK, ResolveSeatAvailability, Extracted, Fails, Return
  <2>2. NetOK'
    BY <1>22, <1>e DEF NetOK, ResolveSeatAvailability, Extracted, Fails, Return
  <2>3. ResultsOK'
    BY <1>22 DEF ResultsOK, ResolveSeatAvailability, Extracted, Fails, Return
  <2>4. CallInv'
    BY <1>22 DEF CallInv, CallOK, ResolveSeatAvailability, Extracted, Fails, Return
  <2>5. BodyInv'
    BY <1>22 DEF BodyInv, ResolveSeatAvailability, Extracted, Fails, Return
  <2>6. PosterInv'
    BY <1>22 DEF PosterInv, ResultsOK, ResolveSeatAvailability, Extracted, Fails, Return
  <2>7. SeatsInv'
    BY <1>22 DEF SeatsInv, SeatsFrom, Observable, Observation, ResolveSeatAvailability,
       Extracted, Fails, Return
  <2>8. CompleteMeansWhole'
    BY <1>22 DEF CompleteMeansWhole, ResolveSeatAvailability, Extracted, Fails, Return
  <2> QED  BY <2>1, <2>2, <2>3, <2>4, <2>5, <2>6, <2>7, <2>8
<1>23. CASE OpenSeatPage
  <2>a. \/ \E r \in Rows : /\ at' = "refresh" /\ opened' = r /\ UNCHANGED <<todo, results>>
                          /\ wire' \subseteq wire \cup {OtherRequest("seat", q) : q \in Rows}
        \/ Fails /\ UNCHANGED <<opened, wire>>
    <3>1. PICK enabled \in SUBSET Clickable :
            IF Cardinality(enabled) = 1
            THEN /\ at' = "refresh"
                 /\ opened' = CHOOSE r \in enabled : TRUE
                 /\ wire' = wire \cup {OtherRequest("seat", r) : r \in enabled}
                 /\ UNCHANGED <<todo, results>>
            ELSE Fails /\ UNCHANGED <<opened, wire>>
      BY <1>23 DEF OpenSeatPage
    <3>2. enabled \subseteq Rows
      BY DEF Clickable
    <3>3. CASE Cardinality(enabled) = 1
      <4>1. enabled # {}
        BY <3>3, FS_EmptySet
      <4>2. (CHOOSE r \in enabled : TRUE) \in enabled
        BY <4>1
      <4>3. {OtherRequest("seat", r) : r \in enabled} \subseteq {OtherRequest("seat",
              q) : q \in Rows}
        BY <3>2
      <4> QED  BY <3>1, <3>2, <3>3, <4>2, <4>3
    <3>4. CASE Cardinality(enabled) # 1
      BY <3>1, <3>4
    <3> QED  BY <3>3, <3>4
  <2>b. UNCHANGED <<call, selected, shown, reading, buffer, fetched, poster>>
    BY <1>23 DEF OpenSeatPage
  <2>1. CallOK'
    <3>1. \/ /\ at' = "refresh" /\ opened' \in Rows /\ todo' = todo
         \/ /\ at' = "idle" /\ opened' = opened /\ todo' = <<>>
      BY <2>a DEF Fails, Return
    <3>2. todo' \in Seq(Dates)
      BY <3>1, <1>e DEF CallOK
    <3>3. at' \in {"idle", "refresh"} /\ opened' \in Rows \cup {Nothing}
      BY <3>1 DEF CallOK
    <3> QED  BY <2>b, <3>2, <3>3 DEF CallOK
  <2>2. NetOK'
    <3>1. {OtherRequest("seat", q) : q \in Rows} \subseteq Request
      BY RequestsTyped
    <3>2. wire' \subseteq Request
      BY <2>a, <3>1 DEF NetOK
    <3> QED  BY <2>b, <3>2 DEF NetOK
  <2>3. ResultsOK'
    BY <2>a, <2>b DEF ResultsOK, Fails, Return
  <2>4. CallInv'
    BY <2>a, <2>b DEF CallInv, Fails, Return
  <2>5. BodyInv'
    BY <2>a, <2>b, <2>1 DEF BodyInv
  <2>6. PosterInv'
    BY <1>23, <2>a, <2>b DEF PosterInv, OpenSeatPage, Fails, Return
  <2>7. SeatsInv'
    BY <2>a, <2>b DEF SeatsInv, SeatsFrom, Observable, Observation, Fails, Return
  <2>8. CompleteMeansWhole'
    BY <2>a, <2>b DEF CompleteMeansWhole, Fails, Return
  <2> QED  BY <2>1, <2>2, <2>3, <2>4, <2>5, <2>6, <2>7, <2>8
<1>24. CASE SeatPageRefused
  <2>1. CallOK'
    BY <1>24, <1>e, <1>d DEF CallOK, SeatPageRefused, Fails, Return
  <2>2. ResultsOK'
    BY <1>24 DEF ResultsOK, SeatPageRefused, Fails, Return
  <2>3. CallInv'
    BY <1>24 DEF CallInv, CallOK, SeatPageRefused, Fails, Return
  <2>4. PosterInv'
    BY <1>24 DEF PosterInv, ResultsOK, SeatPageRefused, Fails, Return
  <2>5. SeatsInv'
    BY <1>24 DEF SeatsInv, SeatsFrom, Observable, Observation, SeatPageRefused, Fails, Return
  <2>6. CompleteMeansWhole'
    BY <1>24 DEF CompleteMeansWhole, SeatPageRefused, Fails, Return
  <2>7. NetOK' /\ BodyInv'
    BY <1>24 DEF NetOK, BodyInv, SeatPageRefused, Fails, Return
  <2> QED  BY <2>1, <2>2, <2>3, <2>4, <2>5, <2>6, <2>7
<1>25. CASE ClickRefresh
  <2>1. CallOK'
    BY <1>25, <1>e, <1>d DEF CallOK, ClickRefresh
  <2>2. NetOK'
    BY <1>25, <1>e, RequestsTyped DEF NetOK, ClickRefresh, CallOK
  <2>3. CallInv'
    BY <1>25 DEF CallInv, CallOK, ClickRefresh
  <2>4. BodyInv'
    BY <1>25 DEF BodyInv, ClickRefresh
  <2>5. PosterInv'
    BY <1>25 DEF PosterInv, ResultsOK, ClickRefresh
  <2>6. ResultsOK' /\ SeatsInv' /\ CompleteMeansWhole'
    BY <1>25 DEF ResultsOK, SeatsInv, SeatsFrom, Observable, Observation, CompleteMeansWhole,
       ClickRefresh
  <2> QED  BY <2>1, <2>2, <2>3, <2>4, <2>5, <2>6
<1>26. CASE NoSeatResponse
  <2>1. NetOK'
    BY <1>26, <1>e DEF NetOK, NoSeatResponse
  <2>2. BodyInv'
    BY <1>26 DEF BodyInv, NoSeatResponse
  <2>3. CallOK' /\ ResultsOK' /\ CallInv' /\ PosterInv' /\ SeatsInv' /\ CompleteMeansWhole'
    BY <1>26 DEF CallOK, ResultsOK, CallInv, PosterInv, SeatsInv, SeatsFrom, Observable,
       Observation, CompleteMeansWhole, NoSeatResponse
  <2> QED  BY <2>1, <2>2, <2>3
<1>27. CASE SeatWaitTimesOut
  <2>1. CallOK'
    BY <1>27, <1>e, <1>d DEF CallOK, SeatWaitTimesOut, Fails, Return
  <2>2. ResultsOK'
    BY <1>27 DEF ResultsOK, SeatWaitTimesOut, Fails, Return
  <2>3. CallInv'
    BY <1>27 DEF CallInv, CallOK, SeatWaitTimesOut, Fails, Return
  <2>4. PosterInv'
    BY <1>27 DEF PosterInv, ResultsOK, SeatWaitTimesOut, Fails, Return
  <2>5. SeatsInv'
    BY <1>27 DEF SeatsInv, SeatsFrom, Observable, Observation, SeatWaitTimesOut, Fails, Return
  <2>6. CompleteMeansWhole'
    BY <1>27 DEF CompleteMeansWhole, SeatWaitTimesOut, Fails, Return
  <2>7. NetOK' /\ BodyInv'
    BY <1>27 DEF NetOK, BodyInv, SeatWaitTimesOut, Fails, Return
  <2> QED  BY <2>1, <2>2, <2>3, <2>4, <2>5, <2>6, <2>7
<1>28. CASE CaptureSeatAvailability
  <2>a. \/ seats' = seats
        \/ \E b \in DOMAIN SeatBodies : Observable(b) /\ seats' = Observation(b)
    <3>1. \/ seats' = seats
          \/ \E i \in takeProviderResponses("seat") :
               /\ buffer[i].status = "ok" /\ Observable(buffer[i].body)
               /\ seats' = Observation(buffer[i].body)
      BY <1>28 DEF CaptureSeatAvailability, Fails
    <3> QED  BY <3>1 DEF takeProviderResponses, BodyInv
  <2>b. UNCHANGED <<call, poster, captured>>
    BY <1>28 DEF CaptureSeatAvailability, Fails
  <2>1. CallOK'
    BY <1>28, <1>e DEF CallOK, CaptureSeatAvailability, Fails, Return
  <2>2. NetOK'
    BY <1>28, <1>e DEF NetOK, CaptureSeatAvailability, Fails, Return
  <2>3. ResultsOK'
    <3>1. seats'.body \in DOMAIN SeatBodies \cup {Nothing}
      BY <2>a DEF ResultsOK, Observation
    <3> QED  BY <2>b, <3>1 DEF ResultsOK
  <2>4. CallInv'
    BY <1>28 DEF CallInv, CallOK, CaptureSeatAvailability, Fails, Return
  <2>5. BodyInv'
    BY <1>28 DEF BodyInv, CaptureSeatAvailability, Fails, Return
  <2>6. PosterInv'
    BY <1>28 DEF PosterInv, ResultsOK, CaptureSeatAvailability, Fails, Return
  <2>7. SeatsInv'
    <3>1. CASE seats' = seats
      BY <2>b, <3>1 DEF SeatsInv, SeatsFrom, Observable, Observation
    <3>2. ASSUME NEW b \in DOMAIN SeatBodies, Observable(b), seats' = Observation(b)
          PROVE  SeatsInv'
      <4>1. LayoutAccepted(SeatBodies[b])
        BY <3>2 DEF Observable
      <4>2. Observable(b)' /\ Observation(b)' = Observation(b)
        BY <2>b, <3>2 DEF Observable, Observation
      <4> QED  BY <3>2, <4>1, <4>2 DEF SeatsInv, SeatsFrom
    <3> QED  BY <2>a, <3>1, <3>2
  <2>8. CompleteMeansWhole'
    BY <1>28 DEF CompleteMeansWhole, CaptureSeatAvailability, Fails, Return
  <2> QED  BY <2>1, <2>2, <2>3, <2>4, <2>5, <2>6, <2>7, <2>8
<1>29. CASE CaptureCatalog
  <2>1. CallOK'
    BY <1>29, <1>e, <1>d DEF CallOK, CaptureCatalog, Begin
  <2>2. NetOK'
    BY <1>29, <1>e, RequestsTyped DEF NetOK, CaptureCatalog, Begin
  <2>3. ResultsOK'
    BY <1>29 DEF ResultsOK, CaptureCatalog, Begin, NoSeats
  <2>4. CallInv'
    BY <1>29 DEF CallInv, CallOK, CaptureCatalog, Begin
  <2>5. BodyInv'
    BY <1>29 DEF BodyInv, CaptureCatalog, Begin
  <2>6. PosterInv'
    BY <1>29 DEF PosterInv, ResultsOK, CaptureCatalog, Begin
  <2>7. SeatsInv'
    BY <1>29 DEF SeatsInv, SeatsFrom, Observable, Observation, CaptureCatalog, Begin
  <2>8. CompleteMeansWhole'
    BY <1>29 DEF CompleteMeansWhole, CaptureCatalog, Begin
  <2> QED  BY <2>1, <2>2, <2>3, <2>4, <2>5, <2>6, <2>7, <2>8
<1>30. CASE TheatersMissing
  <2>1. CallOK'
    BY <1>30, <1>e, <1>d DEF CallOK, TheatersMissing
  <2>2. NetOK'
    BY <1>30, <1>e DEF NetOK, TheatersMissing
  <2>3. CallInv'
    BY <1>30 DEF CallInv, CallOK, TheatersMissing
  <2>4. BodyInv'
    BY <1>30 DEF BodyInv, TheatersMissing
  <2>5. PosterInv'
    BY <1>30 DEF PosterInv, ResultsOK, TheatersMissing
  <2>6. ResultsOK' /\ SeatsInv' /\ CompleteMeansWhole'
    BY <1>30 DEF ResultsOK, SeatsInv, SeatsFrom, Observable, Observation, CompleteMeansWhole,
       TheatersMissing
  <2> QED  BY <2>1, <2>2, <2>3, <2>4, <2>5, <2>6
<1>31. CASE TheatersFail
  <2>1. CallOK'
    BY <1>31, <1>e, <1>d DEF CallOK, TheatersFail, Fails, Return
  <2>2. NetOK'
    BY <1>31, <1>e DEF NetOK, TheatersFail, Fails, Return
  <2>3. ResultsOK'
    BY <1>31 DEF ResultsOK, TheatersFail, Fails, Return
  <2>4. CallInv'
    BY <1>31 DEF CallInv, CallOK, TheatersFail, Fails, Return
  <2>5. BodyInv'
    BY <1>31 DEF BodyInv, TheatersFail, Fails, Return
  <2>6. PosterInv'
    BY <1>31 DEF PosterInv, ResultsOK, TheatersFail, Fails, Return
  <2>7. SeatsInv'
    BY <1>31 DEF SeatsInv, SeatsFrom, Observable, Observation, TheatersFail, Fails, Return
  <2>8. CompleteMeansWhole'
    BY <1>31 DEF CompleteMeansWhole, TheatersFail, Fails, Return
  <2> QED  BY <2>1, <2>2, <2>3, <2>4, <2>5, <2>6, <2>7, <2>8
<1>32. CASE CatalogPageFails
  <2>1. CallOK'
    BY <1>32, <1>e, <1>d DEF CallOK, CatalogPageFails, Fails, Return
  <2>2. ResultsOK'
    BY <1>32 DEF ResultsOK, CatalogPageFails, Fails, Return
  <2>3. CallInv'
    BY <1>32 DEF CallInv, CallOK, CatalogPageFails, Fails, Return
  <2>4. PosterInv'
    BY <1>32 DEF PosterInv, ResultsOK, CatalogPageFails, Fails, Return
  <2>5. SeatsInv'
    BY <1>32 DEF SeatsInv, SeatsFrom, Observable, Observation, CatalogPageFails, Fails, Return
  <2>6. CompleteMeansWhole'
    BY <1>32 DEF CompleteMeansWhole, CatalogPageFails, Fails, Return
  <2>7. NetOK' /\ BodyInv'
    BY <1>32 DEF NetOK, BodyInv, CatalogPageFails, Fails, Return
  <2> QED  BY <2>1, <2>2, <2>3, <2>4, <2>5, <2>6, <2>7
<1>33. CASE BeginPosters
  <2>1. CallOK'
    BY <1>33, <1>e, <1>d DEF CallOK, BeginPosters
  <2>2. NetOK'
    <3>1. wire' \subseteq Request
      BY <1>33, RequestsTyped DEF BeginPosters
    <3> QED  BY <1>33, <1>e, <3>1 DEF BeginPosters, NetOK
  <2>3. ResultsOK'
    BY <1>33 DEF ResultsOK, BeginPosters, NoPosters
  <2>4. CallInv'
    BY <1>33 DEF CallInv, CallOK, BeginPosters
  <2>5. BodyInv'
    BY <1>33 DEF BodyInv, BeginPosters
  <2>6. PosterInv'
    BY <1>33 DEF PosterInv, ResultsOK, BeginPosters, NoPosters
  <2>7. SeatsInv' /\ CompleteMeansWhole'
    BY <1>33 DEF SeatsInv, SeatsFrom, Observable, Observation, CompleteMeansWhole, BeginPosters
  <2> QED  BY <2>1, <2>2, <2>3, <2>4, <2>5, <2>6, <2>7
<1>34. CASE CollectPosters
  <2>1. CallOK'
    BY <1>34, <1>e, <1>d DEF CallOK, CollectPosters, Return, clearCatalogPosterCapture
  <2>2. ResultsOK'
    <3>1. posterMode' \in BOOLEAN
      BY <1>34, Zenon DEF CollectPosters, clearCatalogPosterCapture
    <3>2. /\ cached' = {} /\ posters' = NoPosters /\ UNCHANGED <<captured, seats>>
         /\ collected' \in {posters, collected}
      BY <1>34 DEF CollectPosters, clearCatalogPosterCapture, Fails
    <3>3. NoPosters \in [Movies -> 0..2]
      BY DEF NoPosters
    <3> QED  BY <3>1, <3>2, <3>3 DEF ResultsOK
  <2>3. CallInv'
    BY <1>34 DEF CallInv, CallOK, CollectPosters, Return, clearCatalogPosterCapture
  <2>4. PosterInv'
    BY <1>34 DEF PosterInv, ResultsOK, CollectPosters, Return, clearCatalogPosterCapture,
       NoPosters
  <2>5. SeatsInv'
    BY <1>34 DEF SeatsInv, SeatsFrom, Observable, Observation, CollectPosters, Return,
       clearCatalogPosterCapture
  <2>6. CompleteMeansWhole'
    BY <1>34 DEF CompleteMeansWhole, CollectPosters, Return, clearCatalogPosterCapture
  <2>7. NetOK' /\ BodyInv'
    BY <1>34 DEF NetOK, BodyInv, CollectPosters, Return, clearCatalogPosterCapture
  <2> QED  BY <2>1, <2>2, <2>3, <2>4, <2>5, <2>6, <2>7
<1>35. CASE PostersFail
  <2>1. CallOK'
    BY <1>35, <1>e, <1>d DEF CallOK, PostersFail, Fails, Return, clearCatalogPosterCapture
  <2>2. ResultsOK'
    <3>1. posterMode' \in BOOLEAN
      BY <1>35, Zenon DEF PostersFail, clearCatalogPosterCapture
    <3>2. /\ cached' = {} /\ posters' = NoPosters /\ UNCHANGED <<captured, seats>>
         /\ collected' \in {posters, collected}
      BY <1>35 DEF PostersFail, clearCatalogPosterCapture, Fails
    <3>3. NoPosters \in [Movies -> 0..2]
      BY DEF NoPosters
    <3> QED  BY <3>1, <3>2, <3>3 DEF ResultsOK
  <2>3. CallInv'
    BY <1>35 DEF CallInv, CallOK, PostersFail, Fails, Return, clearCatalogPosterCapture
  <2>4. PosterInv'
    BY <1>35 DEF PosterInv, ResultsOK, PostersFail, Fails, Return, clearCatalogPosterCapture,
       NoPosters
  <2>5. SeatsInv'
    BY <1>35 DEF SeatsInv, SeatsFrom, Observable, Observation, PostersFail, Fails, Return,
       clearCatalogPosterCapture
  <2>6. CompleteMeansWhole'
    BY <1>35 DEF CompleteMeansWhole, PostersFail, Fails, Return, clearCatalogPosterCapture
  <2>7. NetOK' /\ BodyInv'
    BY <1>35 DEF NetOK, BodyInv, PostersFail, Fails, Return, clearCatalogPosterCapture
  <2> QED  BY <2>1, <2>2, <2>3, <2>4, <2>5, <2>6, <2>7
<1>36. CASE UNCHANGED vars
  <2>1. CallOK'
    BY <1>36, <1>e, <1>d DEF CallOK, vars
  <2>2. NetOK'
    BY <1>36 DEF NetOK, vars
  <2>3. ResultsOK'
    BY <1>36 DEF ResultsOK, vars
  <2>4. CallInv'
    BY <1>36 DEF CallInv, CallOK, vars
  <2>5. BodyInv'
    BY <1>36 DEF BodyInv, vars
  <2>6. PosterInv'
    BY <1>36 DEF PosterInv, ResultsOK, vars
  <2>7. SeatsInv'
    BY <1>36 DEF SeatsInv, SeatsFrom, Observable, Observation, vars
  <2>8. CompleteMeansWhole'
    BY <1>36 DEF CompleteMeansWhole, vars
  <2> QED  BY <2>1, <2>2, <2>3, <2>4, <2>5, <2>6, <2>7, <2>8
<1> QED
  BY <1>1, <1>2, <1>3, <1>4, <1>5, <1>6, <1>7, <1>8, <1>9, <1>10, <1>11, <1>12, <1>13, <1>14,
     <1>15, <1>16, <1>17, <1>18, <1>19, <1>20, <1>21, <1>22, <1>23, <1>24, <1>25, <1>26, <1>27,
     <1>28, <1>29, <1>30, <1>31, <1>32, <1>33, <1>34, <1>35, <1>36 DEF Next, Schedules,
     SeatCaptures, Catalog

\* ResponsesInv holds throughout every behaviour.
LEMMA ResponsesInvariant == Spec => []ResponsesInv
BY ResponsesInvInit, ResponsesInvNext, PTL DEF Spec

-----------------------------------------------------------------------------
\* Types: in particular a call has a date left whenever it looks at one, and
\* the handlers and the buffer hold responses to requests that were made.
THEOREM TypeCorrect == Spec => []TypeOK
<1>1. ResponsesInv => TypeOK
  BY DEF ResponsesInv, TypeOK
<1> QED
  BY <1>1, ResponsesInvariant, PTL

\* A ScheduleCapture that is complete and has showtimes has all the provider
\* lists for its theater and date, whichever responses were in the buffer.
THEOREM CompleteIsWhole == Spec => []CompleteMeansWhole
<1>1. ResponsesInv => CompleteMeansWhole
  BY DEF ResponsesInv
<1> QED
  BY <1>1, ResponsesInvariant, PTL

\* The seats of a layout have one identity each: an accepted body has no two
\* labels that are the same.
LEMMA OneIdentityEach ==
  ASSUME NEW b \in DOMAIN SeatBodies, NEW auditorium, LayoutAccepted(SeatBodies[b]),
         NEW ids, ids = {s.id : s \in parseSeatMapLayout(SeatBodies[b], auditorium).seats}
  PROVE  /\ Cardinality(ids) = Cardinality(Places(SeatBodies[b]))
         /\ ids = {SeatID(auditorium, normalizedSeatLabel(SeatAt(SeatBodies[b], p))) :
                     p \in Places(SeatBodies[b])}
<1> DEFINE body == SeatBodies[b]
           S == Places(body)
           label(p) == normalizedSeatLabel(SeatAt(body, p))
           f == [p \in S |-> SeatID(auditorium, label(p))]
<1>1. ids = {SeatID(auditorium, label(p)) : p \in S}
  <2> DEFINE seat(p) == Seat(body.items[p[1]], SeatAt(body, p), auditorium)
  <2>1. parseSeatMapLayout(body, auditorium).seats = {seat(p) : p \in S}
    BY DEF parseSeatMapLayout
  <2>2. \A p \in S : seat(p).id = SeatID(auditorium, label(p))
    BY DEF Seat
  <2> HIDE DEF seat, S, label, body
  <2>3. ids = {s.id : s \in {seat(p) : p \in S}}
    BY <2>1 DEF body
  <2>4. ids = {seat(p).id : p \in S}
    BY <2>3
  <2> QED  BY <2>2, <2>4
<1>2. IsFiniteSet(S)
  BY ResponsesAssumption, SeatsFinite
<1>3. \A p, q \in S : label(p) = label(q) => p = q
  BY DEF LayoutAccepted, LabelsClash
<1> HIDE DEF S, label
<1>4. \A p, q \in S : f[p] = f[q] => p = q
  BY <1>3 DEF SeatID
<1>5. f \in [S -> ids] /\ \A i \in ids : \E p \in S : f[p] = i
  BY <1>1
<1> HIDE DEF f
<1>6. f \in Surjection(S, ids) /\ f \in Injection(S, ids)
  BY <1>4, <1>5 DEF Surjection, Injection, IsInjective
<1>7. Cardinality(ids) = Cardinality(S)
  BY <1>2, <1>6, FS_Surjection
<1> QED
  BY <1>1, <1>7 DEF S, label

\* What is returned about seats is about all of them, and a seat that is not
\* available is one the provider said so about.
THEOREM SeatsAreAlwaysWhole == Spec => []SeatsAreWhole
<1>1. ResponsesInv => SeatsAreWhole
  <2> SUFFICES ASSUME ResponsesInv, seats.body # Nothing PROVE SeatsAreWhole
    BY DEF SeatsAreWhole
  <2>1. PICK b \in DOMAIN SeatBodies : SeatsFrom(b)
    BY DEF ResponsesInv, SeatsInv, NoSeats
  <2> DEFINE body == SeatBodies[b]
             ids == {s.id : s \in seats.layout.seats}
             status == {<<s.sale, s.code>> : s \in {SeatAt(body, p) : p \in Places(body)}}
  <2>2. seats.body = b /\ seats.layout = parseSeatMapLayout(body, target.auditorium)
    BY <2>1 DEF SeatsFrom, Observation
  <2>3. LayoutAccepted(body)
    BY <2>1 DEF SeatsFrom
  <2>4. /\ Cardinality(ids) = Cardinality(Places(body))
        /\ ids = {SeatID(target.auditorium, normalizedSeatLabel(SeatAt(body, p))) :
                    p \in Places(body)}
    BY <2>2, <2>3, OneIdentityEach
  <2>5. seats.available = {} \/ seats.available = parseSeatAvailability(body, target.auditorium)
    BY <2>1 DEF SeatsFrom, Observation
  <2>6. seats.available \subseteq ids
    BY <2>4, <2>5 DEF parseSeatAvailability
  <2>7. use = "availability" => status \subseteq {"Y", "N"} \X {"00", "01", "03", "04"}
    <3> SUFFICES ASSUME use = "availability", NEW p \in Places(body)
                 PROVE  <<SeatAt(body, p).sale, SeatAt(body, p).code>>
                          \in {"Y", "N"} \X {"00", "01", "03", "04"}
      OBVIOUS
    <3>1. Observable(b)
      BY <2>1 DEF SeatsFrom
    <3>2. SeatAt(body, p).sale \in {"Y", "N"} /\ validSeatStatusCode(SeatAt(body, p).code)
      BY <3>1 DEF Observable, AvailabilityAccepted
    <3> QED  BY <3>2 DEF validSeatStatusCode
  <2> HIDE DEF ids, status
  <2> QED  BY <2>2, <2>4, <2>6, <2>7 DEF SeatsAreWhole, ids, status
<1> QED
  BY <1>1, ResponsesInvariant, PTL

\* A layout that was returned is the one its body would have had with all its
\* lists the other way round.
THEOREM LayoutAlwaysIgnoresOrder == Spec => []LayoutIgnoresOrder
<1>1. ResponsesInv => LayoutIgnoresOrder
  <2> SUFFICES ASSUME ResponsesInv, seats.body # Nothing PROVE LayoutIgnoresOrder
    BY DEF LayoutIgnoresOrder
  <2>1. PICK b \in DOMAIN SeatBodies : SeatsFrom(b)
    BY DEF ResponsesInv, SeatsInv, NoSeats
  <2>2. /\ seats.body = b
        /\ seats.layout = parseSeatMapLayout(SeatBodies[b], target.auditorium)
    BY <2>1 DEF SeatsFrom, Observation
  <2>3. IsBody(SeatBodies[b])
    BY ResponsesAssumption
  <2>4. ToldApart(Zones(SeatBodies[b])) /\ ToldApart(Blocks(SeatBodies[b])) =>
          parseSeatMapLayout(Backwards(SeatBodies[b]), target.auditorium) = seats.layout
    BY <2>2, <2>3, LayoutBackwards
  <2> QED  BY <2>2, <2>4 DEF LayoutIgnoresOrder
<1> QED
  BY <1>1, ResponsesInvariant, PTL

-----------------------------------------------------------------------------
(***************************************************************************)
(* The buffer is bounded, and when it is over its limit it says so.        *)
(***************************************************************************)
OverflowIsKnown ==
  /\ Len(buffer) <= MaxCaptured + 1
  /\ Len(buffer) > MaxCaptured => buffer[MaxCaptured + 1].status = "error"

\* captureProviderResponse never keeps more than one response over
\* maxCapturedProviderResponses, and that one is an error: responses that do
\* not fit are never dropped without a trace.
THEOREM OverflowIsNeverSilent == Spec => []OverflowIsKnown
<1>1. MaxCaptured \in Nat
  BY ResponsesAssumption
<1>2. buffer = <<>> => OverflowIsKnown
  BY <1>1 DEF OverflowIsKnown
<1>3. buffer' = <<>> => OverflowIsKnown'
  BY <1>1 DEF OverflowIsKnown
<1>4. buffer' = buffer /\ OverflowIsKnown => OverflowIsKnown'
  BY DEF OverflowIsKnown
<1>5. Init => OverflowIsKnown
  BY <1>2 DEF Init
<1>6. ResponsesInv /\ OverflowIsKnown /\ [Next]_vars => OverflowIsKnown'
  <2> SUFFICES ASSUME ResponsesInv, OverflowIsKnown, [Next]_vars PROVE OverflowIsKnown'
    OBVIOUS
  <2>1. CASE ResponseSeen \/ PosterRead \/ UNCHANGED vars
    BY <1>4, <2>1 DEF ResponseSeen, PosterRead, vars, net
  <2>2. CASE BodyRead
    <3>1. PICK x : Keep(x)
      BY <2>2 DEF BodyRead
    <3>2. buffer \in Seq(Response)
      BY DEF ResponsesInv, NetOK
    <3>3. Len(buffer) \in Nat
      BY <3>2, LenProperties
    <3>4. CASE Len(buffer) < MaxCaptured
      <4>1. buffer' = Append(buffer, x)
        BY <3>1, <3>4 DEF Keep
      <4>2. Len(buffer') = Len(buffer) + 1
        BY <3>2, <4>1
      <4> QED  BY <1>1, <3>3, <3>4, <4>2 DEF OverflowIsKnown
    <3>5. CASE Len(buffer) = MaxCaptured
      <4> DEFINE e == [request |-> [x.request EXCEPT !.site = Nothing, !.date = Nothing],
                       status |-> "error", body |-> 0]
      <4>1. buffer' = Append(buffer, e)
        BY <1>1, <3>1, <3>5 DEF Keep
      <4>2. e.status = "error"
        OBVIOUS
      <4> HIDE DEF e
      <4>3. Len(buffer') = Len(buffer) + 1 /\ buffer'[Len(buffer) + 1] = e
        BY <3>2, <4>1
      <4> QED  BY <1>1, <3>5, <4>2, <4>3 DEF OverflowIsKnown
    <3>6. CASE Len(buffer) > MaxCaptured
      <4>1. buffer' = buffer
        BY <1>1, <3>1, <3>3, <3>6 DEF Keep
      <4> QED  BY <1>4, <4>1
    <3> QED  BY <1>1, <3>3, <3>4, <3>5, <3>6
  <2>3. CASE Schedules
    <3>1. buffer' = buffer \/ buffer' = <<>>
      BY <2>3 DEF Schedules, Begin, CaptureSchedules, RoundRefused, SelectTheater,
         SelectTheaterThrottled, SelectTheaterFails, RequestDate, RequestDateRefused, FetchReturns,
         FetchFails, SelectDate, SelectDateUnavailable, waitForScheduleResponseReady, WaitTimesOut,
         ExtractFails, ExtractSchedules, Extracted, net
    <3> QED  BY <1>3, <1>4, <3>1
  <2>4. CASE SeatCaptures
    <3>1. buffer' = buffer \/ buffer' = <<>>
      BY <2>4 DEF SeatCaptures, Begin, CaptureSeats, ResolveSeatMap, CaptureSeatMap,
         ResolveSeatAvailability, OpenSeatPage, SeatPageRefused, ClickRefresh, NoSeatResponse,
         SeatWaitTimesOut, CaptureSeatAvailability, Extracted, net
    <3> QED  BY <1>3, <1>4, <3>1
  <2>5. CASE Catalog
    <3>1. buffer' = buffer \/ buffer' = <<>>
      BY <2>5 DEF Catalog, Begin, CaptureCatalog, TheatersMissing, TheatersFail,
         CatalogPageFails, BeginPosters, CollectPosters, PostersFail, net
    <3> QED  BY <1>3, <1>4, <3>1
  <2> QED  BY <2>1, <2>2, <2>3, <2>4, <2>5 DEF Next
<1> QED
  BY <1>5, <1>6, ResponsesInvariant, PTL DEF Spec

-----------------------------------------------------------------------------
\* One step: only while posters are collected is there one, and then only the
\* handlers and the end of the capture touch them.
LEMMA PosterStep ==
  ASSUME ResponsesInv, [Next]_vars, NEW m \in Movies, posters[m] # 0, posterMode'
  PROVE  posters'[m] = posters[m]
<1>1. posterMode /\ at = "posters" /\ m \notin cached
  BY DEF ResponsesInv, PosterInv
<1>2. CASE ResponseSeen \/ BodyRead \/ UNCHANGED vars
  BY <1>2 DEF ResponseSeen, BodyRead, vars, poster
<1>3. CASE PosterRead
  <2>1. \/ posters' = posters
        \/ \E k, n : posters[k] = 0 /\ posters' = [posters EXCEPT ![k] = n]
    BY <1>1, <1>3 DEF PosterRead, storeCatalogPoster, catalogPosterAlreadyAvailable
  <2>2. posters \in [Movies -> 0..2]
    BY DEF ResponsesInv, ResultsOK
  <2> QED  BY <2>1, <2>2
<1>4. CASE CollectPosters \/ PostersFail
  BY <1>4 DEF CollectPosters, PostersFail, clearCatalogPosterCapture
<1>5. CASE Schedules
  BY <1>1, <1>5 DEF Schedules, Begin, CaptureSchedules, RoundRefused, SelectTheater,
     SelectTheaterThrottled, SelectTheaterFails, RequestDate, RequestDateRefused, FetchReturns,
     FetchFails, SelectDate, SelectDateUnavailable, waitForScheduleResponseReady, WaitTimesOut,
     ExtractFails, ExtractSchedules, Extracted
<1>6. CASE SeatCaptures
  BY <1>1, <1>6 DEF SeatCaptures, Begin, CaptureSeats, ResolveSeatMap, CaptureSeatMap,
     ResolveSeatAvailability, OpenSeatPage, SeatPageRefused, ClickRefresh, NoSeatResponse,
     SeatWaitTimesOut, CaptureSeatAvailability, Extracted
<1>7. CASE Catalog
  BY <1>1, <1>4, <1>7 DEF Catalog, Begin, CaptureCatalog, TheatersMissing, TheatersFail,
     CatalogPageFails, BeginPosters
<1> QED
  BY <1>2, <1>3, <1>5, <1>6, <1>7 DEF Next

\* A poster is the one of the first response that was read, although a handler
\* looks whether it is wanted before it waits for the body and stores it after.
THEOREM FirstPosterAlwaysWins == Spec => FirstPosterWins
<1>1. ResponsesInv /\ ResponsesInv' /\ [Next]_vars =>
        [\A m \in Movies :
           /\ posters[m] # 0 /\ posterMode' => posters'[m] = posters[m]
           /\ posters'[m] # 0 => posterMode' /\ m \notin cached']_vars
  <2> SUFFICES ASSUME ResponsesInv, ResponsesInv', [Next]_vars, NEW m \in Movies
               PROVE  /\ posters[m] # 0 /\ posterMode' => posters'[m] = posters[m]
                      /\ posters'[m] # 0 => posterMode' /\ m \notin cached'
    OBVIOUS
  <2>1. posters[m] # 0 /\ posterMode' => posters'[m] = posters[m]
    BY PosterStep
  <2>2. posters'[m] # 0 => posterMode' /\ m \notin cached'
    BY DEF ResponsesInv, PosterInv
  <2> QED  BY <2>1, <2>2
<1> QED
  BY <1>1, ResponsesInvariant, PTL DEF Spec, FirstPosterWins
=============================================================================
