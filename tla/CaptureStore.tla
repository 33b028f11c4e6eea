---------------------------- MODULE CaptureStore ----------------------------
(***************************************************************************)
(* The network capture store and what writes to it: the captured HTTP      *)
(* transport of the Soxy client, whose exchanges end in the goroutine that *)
(* reads or closes the response body, and the callbacks of the browser,    *)
(* which the adapter has to wait for before it closes the page they read.  *)
(* An exchange is saved in several writes under the store's lock (body     *)
(* blobs, a manifest, a line of the index) while the App reads the same    *)
(* files without any lock, Clear removes them, a write may fail and the    *)
(* process may crash between any two of them.                              *)
(***************************************************************************)
EXTENDS Integers, Sequences, FiniteSets

CONSTANTS
  Captures,    \* the exchanges, one goroutine or browser request each
  Contents,    \* what a body may hold: a blob is named by its content
  Sent,        \* the content of the request body of each exchange
  Received,    \* the content of its response body
  None,        \* nobody holds the lock
  Clearer,     \* Clear holds the lock
  MaxClears,   \* bound: calls of Clear
  MaxTroubles  \* bound: writes that fail and crashes of the process

ASSUME CaptureAssumption ==
  /\ Sent \in [Captures -> Contents] /\ Received \in [Captures -> Contents]
  /\ None \notin Captures /\ Clearer \notin Captures /\ None # Clearer
  /\ MaxClears \in Nat /\ MaxTroubles \in Nat

VARIABLES
  debug,      \* store.debug
  up,         \* the process that owns the store runs
  mu,         \* store.mu: None, an exchange in Save, or Clearer
  now,        \* time, which advances with every Clear
  clearedAt,  \* store.clearedAt
  clearPC,    \* where Clear is
  boundary,   \* clearedAt of the last Clear that returned nil
  kind,       \* who saves each exchange: "http", "browser", or another caller, "app"
  pc,         \* where each exchange is
  started,    \* record.StartedAt
  answer,     \* what became of the request
  result,     \* how the exchange ended
  staged,     \* the stages an exchange holds a path of: <<exchange, side>>
  spoiled,    \* the exchanges one of whose stages could not be opened
  once,       \* capturingHTTPBody.once has run
  bodyClosed, \* there is no response body left for the caller to close
  running,    \* adapter.networkCaptureWG
  adapter,    \* "open", "stopping" (networkCaptureClosing) or "closed"
  staging,    \* the files in .staging
  temps,      \* the temporary files beside blobs and manifests
  blobs,      \* the contents in blobs/sha256
  manifests,  \* the documents in exchanges/
  index,      \* the lines of index.jsonl
  torn,       \* the last line of the index has no newline
  troubles    \* writes that failed and crashes so far

disk == <<staging, temps, blobs, manifests, index, torn>>
exchange == <<pc, started, answer, result, staged, spoiled, once, bodyClosed, running>>
control == <<debug, kind, up, mu, now, clearedAt, clearPC, boundary, adapter>>
vars == <<control, exchange, disk, troubles>>

Sides == {"request", "response"}
Answers == {"none", "ok", "bad", "failed", "cut", "blocked", "blockedBad"}
Saving == {"request", "response", "manifest", "append"}

Init ==
  /\ debug \in BOOLEAN /\ up = TRUE /\ mu = None
  /\ now = 0 /\ clearedAt = 0 /\ clearPC = "idle" /\ boundary = 0
  /\ kind \in [Captures -> {"http", "browser", "app"}]
  /\ pc = [c \in Captures |-> "idle"]
  /\ started = [c \in Captures |-> 0]
  /\ answer = [c \in Captures |-> "none"]
  /\ result = [c \in Captures |-> "none"]
  /\ staged = {} /\ spoiled = {} /\ once = {} /\ bodyClosed = {}
  /\ running = {} /\ adapter = "open"
  /\ staging = {} /\ temps = {} /\ blobs = {} /\ manifests = {}
  /\ index = <<>> /\ torn = FALSE
  /\ troubles = 0

Goto(c, label) == pc' = [pc EXCEPT ![c] = label]

End(c, how) ==
  /\ result' = [result EXCEPT ![c] = how]
  /\ Goto(c, "cleanup")

Trouble == troubles < MaxTroubles /\ troubles' = troubles + 1

-----------------------------------------------------------------------------
(***************************************************************************)
(* The captured HTTP transport.                                            *)
(***************************************************************************)

\* openHTTPStage: a stage that cannot be opened only leaves its error.
OpenStage(c, side) ==
  \/ /\ staged' = staged \cup {<<c, side>>}
     /\ staging' = staging \cup {<<c, side>>}
     /\ UNCHANGED <<spoiled, troubles>>
  \/ /\ Trouble
     /\ spoiled' = spoiled \cup {c}
     /\ UNCHANGED <<staged, staging>>

NoStage == UNCHANGED <<staged, staging, spoiled, troubles>>

HTTPSendUnstamped(c) ==
  /\ up /\ kind[c] = "http" /\ pc[c] = "idle"
  /\ Goto(c, "sent")
  /\ started' = [started EXCEPT ![c] = now + 1]
  /\ IF debug THEN OpenStage(c, "request") ELSE NoStage
  /\ UNCHANGED <<control, answer, result, once, bodyClosed, running,
                 temps, blobs, manifests, index, torn>>

\* RoundTrip, up to the call of the transport below it.
HTTPSend(c) ==
  /\ up /\ kind[c] = "http" /\ pc[c] = "idle"
  /\ Goto(c, "sent")
  /\ started' = [started EXCEPT ![c] = now]
  /\ IF debug THEN OpenStage(c, "request") ELSE NoStage
  /\ UNCHANGED <<control, answer, result, once, bodyClosed, running,
                 temps, blobs, manifests, index, torn>>

\* The transport returns an error, or a response that has no body.
HTTPNoBody(c) ==
  /\ pc[c] = "sent" /\ kind[c] = "http"
  /\ \E a \in {"failed", "ok", "bad"} : answer' = [answer EXCEPT ![c] = a]
  /\ Goto(c, "save")
  /\ bodyClosed' = bodyClosed \cup {c}
  /\ UNCHANGED <<control, started, result, staged, spoiled, once, running, disk, troubles>>

\* The response is handed to the caller with a capturing body.
HTTPAnswered(c) ==
  /\ pc[c] = "sent" /\ kind[c] = "http"
  /\ \E a \in {"ok", "bad"} :
       /\ answer' = [answer EXCEPT ![c] = a]
       /\ IF debug \/ a = "bad" THEN OpenStage(c, "response") ELSE NoStage
  /\ Goto(c, "reading")
  /\ UNCHANGED <<control, started, result, once, bodyClosed, running,
                 temps, blobs, manifests, index, torn>>

CompleteAgain(c) == once' = once \cup {c} /\ Goto(c, "save")

\* complete: sync.Once lets the exchange be saved by whoever comes first.
Complete(c) ==
  /\ IF c \in once
     THEN UNCHANGED <<once, pc>>
     ELSE once' = once \cup {c} /\ Goto(c, "save")

\* Read returns the end of the body or an error.
ReadEnds(c) ==
  /\ pc[c] = "reading"
  /\ \/ answer[c] = "ok" /\ answer' = [answer EXCEPT ![c] = "cut"]
     \/ UNCHANGED answer
  /\ Complete(c)
  /\ UNCHANGED <<control, started, result, staged, spoiled, bodyClosed, running, disk, troubles>>

\* Close drains what was not read, and completes the exchange in any case.
CloseBody(c) ==
  /\ up /\ pc[c] \in {"reading", "done"} /\ kind[c] = "http"
  /\ c \notin bodyClosed
  /\ bodyClosed' = bodyClosed \cup {c}
  /\ \/ pc[c] = "reading" /\ answer[c] = "ok" /\ answer' = [answer EXCEPT ![c] = "cut"]
     \/ UNCHANGED answer
  /\ Complete(c)
  /\ UNCHANGED <<control, started, result, staged, spoiled, running, disk, troubles>>

-----------------------------------------------------------------------------
(***************************************************************************)
(* The browser's callbacks and the adapter's Close.                        *)
(***************************************************************************)

\* ShouldCapturePlaywrightRequest: the reason of a failure is looked at
\* before the status of the response.
ShouldCapture(a) == debug \/ a \in {"bad", "failed"}

BrowserSend(c) ==
  /\ up /\ kind[c] = "browser" /\ pc[c] = "idle" /\ adapter = "open"
  /\ Goto(c, "sent")
  /\ started' = [started EXCEPT ![c] = now]
  /\ UNCHANGED <<control, answer, result, staged, spoiled, once, bodyClosed, running,
                 disk, troubles>>

BeginCaptureUnchecked(c) == running' = running \cup {c} /\ Goto(c, "record") /\ UNCHANGED result

\* beginNetworkCapture: the count is only raised before Close has begun to wait.
BeginCapture(c) ==
  IF adapter = "open"
  THEN running' = running \cup {c} /\ Goto(c, "record") /\ UNCHANGED result
  ELSE End(c, "refused") /\ UNCHANGED running

\* captureNetworkExchange, on the event that the request finished or failed.
BrowserEvent(c) ==
  /\ pc[c] = "sent" /\ kind[c] = "browser"
  /\ \E a \in {"ok", "bad", "failed", "blocked", "blockedBad"} :
       /\ answer' = [answer EXCEPT ![c] = a]
       /\ IF ShouldCapture(a)
          THEN BeginCapture(c)
          ELSE End(c, "unsaved") /\ UNCHANGED running
  /\ UNCHANGED <<control, started, staged, spoiled, once, bodyClosed, disk, troubles>>

\* PlaywrightRecord reads headers and bodies from the page.  Without timing
\* data the exchange counts as started when it is recorded.
PlaywrightRecord(c) ==
  /\ pc[c] = "record"
  /\ Goto(c, "save")
  /\ \E t \in {started[c], now} : started' = [started EXCEPT ![c] = t]
  /\ UNCHANGED <<control, answer, result, staged, spoiled, once, bodyClosed, running,
                 disk, troubles>>

\* stopNetworkCapture, up to the wait for the captures that have begun.
StopCapture ==
  /\ up /\ adapter = "open"
  /\ adapter' = "stopping"
  /\ UNCHANGED <<debug, kind, up, mu, now, clearedAt, clearPC, boundary, exchange, disk, troubles>>

\* The wait is over: Close goes on and closes the browser context.
CloseBrowser ==
  /\ adapter = "stopping" /\ running = {}
  /\ adapter' = "closed"
  /\ UNCHANGED <<debug, kind, up, mu, now, clearedAt, clearPC, boundary, exchange, disk, troubles>>

-----------------------------------------------------------------------------
(***************************************************************************)
(* Save.                                                                   *)
(***************************************************************************)

HTTPFilteredAnswered(c) == kind[c] = "http" /\ ~debug /\ answer[c] # "failed"

\* transport.save ends before Save for an exchange nobody will look for.
HTTPFiltered(c) == kind[c] = "http" /\ ~debug /\ answer[c] = "ok"

\* shouldPersist, on the record the callers make of an exchange.  A stage
\* that failed is an error of the record, and so is a status of 400 or more.
shouldPersist(c) ==
  \/ debug
  \/ answer[c] \in {"bad", "failed", "cut", "blockedBad"}
  \/ c \in spoiled

\* A caller of Save outside this repository brings a record of its own, and a
\* context that may be over: then Save does nothing.
AppSave(c) ==
  /\ up /\ kind[c] = "app" /\ pc[c] = "idle"
  /\ started' = [started EXCEPT ![c] = now]
  /\ \E a \in {"ok", "failed", "blocked", "blockedBad"} : answer' = [answer EXCEPT ![c] = a]
  /\ \/ Goto(c, "save") /\ UNCHANGED result
     \/ End(c, "error")
  /\ UNCHANGED <<control, staged, spoiled, once, bodyClosed, running, disk, troubles>>

\* The exchange never reaches the store.
NotSaved(c) ==
  /\ pc[c] = "save" /\ HTTPFiltered(c)
  /\ End(c, "unsaved")
  /\ UNCHANGED <<control, started, answer, staged, spoiled, once, bodyClosed, running,
                 disk, troubles>>

\* Save drops an exchange that started before the last Clear, and one that
\* is not worth keeping.
SaveIgnored(c) ==
  /\ pc[c] = "save" /\ ~HTTPFiltered(c) /\ mu = None
  /\ \/ started[c] < clearedAt /\ End(c, "dropped")
     \/ started[c] >= clearedAt /\ ~shouldPersist(c) /\ End(c, "skipped")
  /\ UNCHANGED <<control, started, answer, staged, spoiled, once, bodyClosed, running,
                 disk, troubles>>

SaveBeginsUnchecked(c) ==
  /\ pc[c] = "save" /\ ~HTTPFiltered(c) /\ mu = None
  /\ shouldPersist(c)
  /\ mu' = c
  /\ Goto(c, "request")
  /\ UNCHANGED <<debug, kind, up, now, clearedAt, clearPC, boundary, adapter, started, answer, result,
                 staged, spoiled, once, bodyClosed, running, disk, troubles>>

SaveBegins(c) ==
  /\ pc[c] = "save" /\ ~HTTPFiltered(c) /\ mu = None
  /\ started[c] >= clearedAt /\ shouldPersist(c)
  /\ mu' = c
  /\ Goto(c, "request")
  /\ UNCHANGED <<debug, kind, up, now, clearedAt, clearPC, boundary, adapter, started, answer, result,
                 staged, spoiled, once, bodyClosed, running, disk, troubles>>

\* The bodies of the record: a stage's path, or what the page returned.
HasBody(c, side) ==
  IF kind[c] = "http"
  THEN <<c, side>> \in staged
  ELSE side = "request" \/ answer[c] \in {"ok", "bad", "blockedBad"}

BodyOf(c, side) == IF side = "request" THEN Sent[c] ELSE Received[c]

Bodies(c) == {BodyOf(c, side) : side \in {s \in Sides : HasBody(c, s)}}

AfterAppendFirst(label) ==
  CASE label = "request" -> "response"
    [] label = "response" -> "append"
    [] label = "manifest" -> "append"

After(label) ==
  CASE label = "request" -> "response"
    [] label = "response" -> "manifest"
    [] label = "manifest" -> "append"

\* saveBody and saveBodyFile write nothing when the blob is there already.
BodyStands(c) ==
  /\ pc[c] \in Sides
  /\ HasBody(c, pc[c]) => BodyOf(c, pc[c]) \in blobs
  /\ Goto(c, After(pc[c]))
  /\ UNCHANGED <<control, started, answer, result, staged, spoiled, once, bodyClosed, running,
                 disk, troubles>>

\* atomicWrite, first half: the temporary file beside the target.
WriteTemp(c) ==
  /\ \/ pc[c] \in Sides /\ HasBody(c, pc[c]) /\ BodyOf(c, pc[c]) \notin blobs
     \/ pc[c] = "manifest"
  /\ <<c, pc[c]>> \notin temps
  /\ temps' = temps \cup {<<c, pc[c]>>}
  /\ UNCHANGED <<control, exchange, staging, blobs, manifests, index, torn, troubles>>

\* atomicWrite, second half: the target appears with all of its content.
Rename(c) ==
  /\ pc[c] \in Sides \cup {"manifest"} /\ <<c, pc[c]>> \in temps
  /\ temps' = temps \ {<<c, pc[c]>>}
  /\ IF pc[c] = "manifest"
     THEN /\ manifests' = manifests \cup {[capture |-> c, bodies |-> Bodies(c)]}
          /\ UNCHANGED blobs
     ELSE /\ blobs' = blobs \cup {BodyOf(c, pc[c])}
          /\ UNCHANGED manifests
  /\ Goto(c, After(pc[c]))
  /\ UNCHANGED <<control, started, answer, result, staged, spoiled, once, bodyClosed, running,
                 staging, index, torn, troubles>>

\* A line written after one that has no newline is glued to it, and the
\* readers can decode neither.
Line(c, whole) ==
  IF torn
  THEN [index EXCEPT ![Len(index)] = [capture |-> c, whole |-> FALSE]]
  ELSE Append(index, [capture |-> c, whole |-> whole])

AppendIndex(c) ==
  /\ pc[c] = "append"
  /\ index' = Line(c, TRUE) /\ torn' = FALSE
  /\ mu' = None
  /\ End(c, "saved")
  /\ UNCHANGED <<debug, kind, up, now, clearedAt, clearPC, boundary, adapter, started, answer,
                 staged, spoiled, once, bodyClosed, running, staging, temps, blobs, manifests,
                 troubles>>

\* Any of the writes fails.  The temporary file is removed; what was renamed
\* stays, and the index may keep the first half of the line.
SaveFails(c) ==
  /\ pc[c] \in Saving
  /\ Trouble
  /\ mu' = None
  /\ End(c, "error")
  /\ temps' = {t \in temps : t[1] # c}
  /\ \/ UNCHANGED <<index, torn>>
     \/ pc[c] = "append" /\ index' = Line(c, FALSE) /\ torn' = TRUE
  /\ UNCHANGED <<debug, kind, up, now, clearedAt, clearPC, boundary, adapter, started, answer,
                 staged, spoiled, once, bodyClosed, running, staging, blobs, manifests>>

CleanUpResponse(c) ==
  /\ pc[c] = "cleanup"
  /\ Goto(c, "done")
  /\ staging' = staging \ {<<c, "response">>}
  /\ running' = running \ {c}
  /\ staged' = {f \in staged : f[1] # c} /\ spoiled' = spoiled \ {c}
  /\ answer' = [answer EXCEPT ![c] = "none"]
  /\ UNCHANGED <<control, started, result, once, bodyClosed,
                 temps, blobs, manifests, index, torn, troubles>>

\* The stages are removed, the capture is off the adapter's WaitGroup and the
\* record is gone.
CleanUp(c) ==
  /\ pc[c] = "cleanup"
  /\ Goto(c, "done")
  /\ staging' = {f \in staging : f[1] # c}
  /\ running' = running \ {c}
  /\ staged' = {f \in staged : f[1] # c} /\ spoiled' = spoiled \ {c}
  /\ answer' = [answer EXCEPT ![c] = "none"]
  /\ UNCHANGED <<control, started, result, once, bodyClosed,
                 temps, blobs, manifests, index, torn, troubles>>

-----------------------------------------------------------------------------
(***************************************************************************)
(* Clear, in the order of the code: the index goes first.                  *)
(***************************************************************************)
ClearBegins ==
  /\ up /\ clearPC = "idle" /\ mu = None /\ now < MaxClears
  /\ mu' = Clearer
  /\ now' = now + 1 /\ clearedAt' = now + 1
  /\ clearPC' = "index"
  /\ UNCHANGED <<debug, kind, up, boundary, adapter, exchange, disk, troubles>>

ClearIndex ==
  /\ clearPC = "index"
  /\ index' = <<>> /\ torn' = FALSE
  /\ clearPC' = "exchanges"
  /\ UNCHANGED <<debug, kind, up, mu, now, clearedAt, boundary, adapter, exchange,
                 staging, temps, blobs, manifests, troubles>>

ClearExchanges ==
  /\ clearPC = "exchanges"
  /\ manifests' = {} /\ temps' = {t \in temps : t[2] # "manifest"}
  /\ clearPC' = "blobs"
  /\ UNCHANGED <<debug, kind, up, mu, now, clearedAt, boundary, adapter, exchange,
                 staging, blobs, index, torn, troubles>>

ClearBlobs ==
  /\ clearPC = "blobs"
  /\ blobs' = {} /\ temps' = {}
  /\ clearPC' = "idle" /\ mu' = None
  /\ boundary' = clearedAt
  /\ UNCHANGED <<debug, kind, up, now, clearedAt, adapter, exchange,
                 staging, manifests, index, torn, troubles>>

\* Clear returns at the first path it cannot remove, part of which may be gone.
ClearFails ==
  /\ clearPC # "idle"
  /\ Trouble
  /\ clearPC' = "idle" /\ mu' = None
  /\ \/ UNCHANGED <<manifests, blobs>>
     \/ /\ clearPC = "exchanges"
        /\ \E left \in SUBSET manifests : manifests' = left
        /\ UNCHANGED blobs
     \/ /\ clearPC = "blobs"
        /\ \E left \in SUBSET blobs : blobs' = left
        /\ UNCHANGED manifests
  /\ UNCHANGED <<debug, kind, up, now, clearedAt, boundary, adapter, exchange,
                 staging, temps, index, torn>>

-----------------------------------------------------------------------------
(***************************************************************************)
(* The process dies, and another one opens the store.                      *)
(***************************************************************************)
Crash ==
  /\ up
  /\ Trouble
  /\ up' = FALSE
  /\ mu' = None /\ clearPC' = "idle" /\ clearedAt' = 0
  /\ pc' = [c \in Captures |-> IF pc[c] \in {"idle", "done"} THEN pc[c] ELSE "dead"]
  /\ result' = [c \in Captures |->
                  IF pc[c] # "idle" /\ result[c] = "none" THEN "crashed" ELSE result[c]]
  /\ bodyClosed' = {c \in Captures : pc[c] # "idle"}
  /\ answer' = [c \in Captures |-> "none"]
  /\ staged' = {} /\ spoiled' = {} /\ once' = {} /\ running' = {} /\ adapter' = "open"
  /\ UNCHANGED <<debug, kind, now, boundary, started, disk>>

\* NewStore: only stages that are a day old are known to be abandoned.
NewStore ==
  /\ ~up
  /\ up' = TRUE
  /\ \E old \in SUBSET staging : staging' = staging \ old
  /\ UNCHANGED <<debug, kind, mu, now, clearedAt, clearPC, boundary, adapter, exchange,
                 temps, blobs, manifests, index, torn, troubles>>

-----------------------------------------------------------------------------
SaveStep(c) ==
  \/ NotSaved(c) \/ SaveIgnored(c) \/ SaveBegins(c)
  \/ BodyStands(c) \/ WriteTemp(c) \/ Rename(c) \/ AppendIndex(c) \/ SaveFails(c)
  \/ CleanUp(c)

CaptureStep(c) ==
  \/ HTTPSend(c) \/ HTTPNoBody(c) \/ HTTPAnswered(c) \/ ReadEnds(c) \/ CloseBody(c)
  \/ BrowserSend(c) \/ BrowserEvent(c) \/ PlaywrightRecord(c) \/ AppSave(c)
  \/ SaveStep(c)

ClearStep == ClearIndex \/ ClearExchanges \/ ClearBlobs \/ ClearFails

Next ==
  \/ \E c \in Captures : CaptureStep(c)
  \/ StopCapture \/ CloseBrowser
  \/ ClearBegins \/ ClearStep
  \/ Crash \/ NewStore

Spec == Init /\ [][Next]_vars

-----------------------------------------------------------------------------
(***************************************************************************)
(* What the App reads, without a lock: the lines of the index that can be  *)
(* decoded, the last ones of them, and the document of one.                *)
(***************************************************************************)
DecodedLines == {i \in DOMAIN index : index[i].whole}

List(limit) ==
  {index[i].capture : i \in {j \in DecodedLines :
                              Cardinality({k \in DecodedLines : k > j}) < limit}}

ReadExchange(c) == {m \in manifests : m.capture = c}

-----------------------------------------------------------------------------
TypeOK ==
  /\ debug \in BOOLEAN /\ up \in BOOLEAN
  /\ mu \in Captures \cup {None, Clearer}
  /\ now \in 0..MaxClears /\ clearedAt \in 0..now /\ boundary \in 0..now
  /\ clearPC \in {"idle", "index", "exchanges", "blobs"}
  /\ kind \in [Captures -> {"http", "browser", "app"}]
  /\ pc \in [Captures -> {"idle", "sent", "reading", "record", "save", "cleanup", "done", "dead"}
                           \cup Saving]
  /\ started \in [Captures -> 0..now]
  /\ answer \in [Captures -> Answers]
  /\ result \in [Captures -> {"none", "saved", "dropped", "skipped", "unsaved", "refused",
                               "error", "crashed"}]
  /\ staged \subseteq Captures \X Sides /\ staging \subseteq Captures \X Sides
  /\ spoiled \subseteq Captures /\ once \subseteq Captures /\ bodyClosed \subseteq Captures
  /\ running \subseteq Captures
  /\ adapter \in {"open", "stopping", "closed"}
  /\ temps \subseteq Captures \X (Sides \cup {"manifest"})
  /\ blobs \subseteq Contents
  /\ manifests \subseteq [capture : Captures, bodies : SUBSET Contents]
  /\ index \in Seq([capture : Captures, whole : BOOLEAN])
  /\ torn \in BOOLEAN
  /\ troubles \in 0..MaxTroubles

(***************************************************************************)
(* What the App finds in the list it can open at that moment: one document *)
(* and all of its bodies.  Save writes them before the line and Clear      *)
(* removes the line before them, so neither a crash, nor a failed write,   *)
(* nor a Clear that stops half way leaves a line that leads nowhere.       *)
(***************************************************************************)
ListedIsReadable ==
  \A limit \in 1..Cardinality(Captures) : \A c \in List(limit) :
    \E m \in manifests : ReadExchange(c) = {m} /\ m.bodies \subseteq blobs

(***************************************************************************)
(* Once a Clear has returned without an error, nothing that started before *)
(* it is listed again, although exchanges were in flight when it ran: Save *)
(* compares and writes under the lock that Clear holds.                    *)
(***************************************************************************)
ClearedStaysCleared == \A c \in List(Len(index)) : started[c] >= boundary

(***************************************************************************)
(* The stages an exchange holds are on disk until it has been saved, which *)
(* reads them, and gone when it is over, on every path through RoundTrip,  *)
(* Read and Close.                                                         *)
(***************************************************************************)
StagesLiveAsLong ==
  \A c \in Captures : pc[c] # "dead" =>
    {f \in staging : f[1] = c} = IF pc[c] = "done" THEN {} ELSE {f \in staged : f[1] = c}

(***************************************************************************)
(* The callers look at an exchange before Save does, and must not leave    *)
(* out one that Save would have kept.  The exception is a request the page *)
(* cancelled after an answer of 400 or more: ShouldCapturePlaywrightRequest*)
(* looks at the failure first, shouldPersist at the status.                *)
(***************************************************************************)
EvidenceKept ==
  \A c \in Captures :
    result[c] \in {"unsaved", "skipped"} /\ shouldPersist(c) =>
      kind[c] = "browser" /\ answer[c] = "blockedBad"

(***************************************************************************)
(* No callback reads from the page, or is still writing to the store, once *)
(* Close has gone on to close the browser: a capture either began before   *)
(* Close, which then waits for it, or is refused.                          *)
(***************************************************************************)
RecordedBeforeClose ==
  \A c \in Captures :
    kind[c] = "browser" /\ pc[c] \in {"record", "save"} \cup Saving => adapter # "closed"

(***************************************************************************)
(* The store implements the log of ExchangeLog: an entry is what a reader  *)
(* of the index can decode.                                                *)
(***************************************************************************)
Log == INSTANCE ExchangeLog WITH
  entries <- [c \in Captures |->
                Cardinality({i \in DecodedLines : index[i].capture = c})],
  settled <- {c \in Captures : result[c] # "none"}

ImplementsLog == Log!Spec
=============================================================================
