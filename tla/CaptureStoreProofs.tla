------------------------- MODULE CaptureStoreProofs -------------------------
(***************************************************************************)
(* Proofs about CaptureStore for every number of exchanges, contents,      *)
(* calls of Clear, failed writes and crashes.  The invariants follow from  *)
(* the inductive invariant StoreInv, whose parts say who holds the lock    *)
(* and how far an exchange is, where its stages are, what is on disk at    *)
(* each point of Save and of Clear, and which exchanges a Clear has left   *)
(* behind.  From the same invariant every step of the store is a step of   *)
(* the log of ExchangeLog, or leaves the log alone.                        *)
(***************************************************************************)
EXTENDS CaptureStore, FiniteSetTheorems, SequenceTheorems, TLAPS

Over == {"cleanup", "done", "dead"}

\* store.mu is held by the exchange that is saving or by Clear, and by nobody
\* once the process is gone; an exchange has a result when it is over.
LockInv ==
  /\ \A c \in Captures : pc[c] \in Saving <=> mu = c
  /\ mu = Clearer <=> clearPC # "idle"
  /\ ~up => mu = None /\ \A c \in Captures : pc[c] \in {"idle", "done", "dead"}
  /\ \A c \in Captures : result[c] = "none" <=> pc[c] \notin Over

\* What has run of an exchange of the HTTP transport: its body is completed
\* once, by Read or by Close.
OnceInv ==
  \A c \in Captures :
    /\ pc[c] \in {"idle", "sent", "reading"} => c \notin once
    /\ pc[c] = "reading" => kind[c] = "http"
    /\ kind[c] = "http" /\ pc[c] \in {"save", "cleanup", "done"} \cup Saving
         => c \in once \cup bodyClosed

\* A stage is on disk exactly while an exchange that is not over has its path.
StageInv ==
  /\ \A c \in Captures, s \in Sides :
       pc[c] # "dead" => (<<c, s>> \in staging <=> pc[c] # "done" /\ <<c, s>> \in staged)
  /\ \A c \in Captures, s \in Sides : <<c, s>> \in staged => pc[c] \notin {"idle", "done", "dead"}

\* What the callers' filters and Save's own have decided.
FilterInv ==
  \A c \in Captures :
    /\ c \in spoiled => kind[c] = "http" /\ (debug \/ answer[c] = "bad")
    /\ pc[c] \in {"idle", "sent", "done", "dead"} => answer[c] = "none"
    /\ pc[c] \in {"idle", "done", "dead"} => c \notin spoiled
    /\ result[c] \in {"unsaved", "skipped"} =>
         /\ ~debug
         /\ answer[c] \notin {"bad", "failed", "cut"} /\ c \notin spoiled
         /\ answer[c] = "blockedBad" => kind[c] = "browser"

\* The adapter waits for the callbacks that have begun, and begins no other.
AdapterInv ==
  /\ \A c \in Captures :
       kind[c] = "browser" /\ pc[c] \in {"record", "save"} \cup Saving => c \in running
  /\ adapter = "closed" => running = {}
  /\ \A c \in Captures : pc[c] = "record" => kind[c] = "browser"

\* The bodies are written before the manifest and the manifest before the
\* line, and Clear removes them in the opposite order.
DiskInv ==
  /\ \A m \in manifests : m.bodies \subseteq blobs
  /\ \A m \in manifests : pc[m.capture] \in {"append"} \cup Over
  /\ \A m, n \in manifests : m.capture = n.capture => m = n
  /\ \A c \in Captures :
       /\ pc[c] = "response" /\ HasBody(c, "request") => Sent[c] \in blobs
       /\ pc[c] = "manifest" => \A s \in Sides : HasBody(c, s) => BodyOf(c, s) \in blobs
       /\ pc[c] = "append" => \E m \in manifests : m.capture = c
  /\ clearPC \in {"exchanges", "blobs"} => index = <<>>
  /\ clearPC = "blobs" => manifests = {}

\* The lines of the index are of exchanges that are over, one line each, and
\* a line that can be decoded has a manifest.
IndexInv ==
  /\ torn => index # <<>> /\ ~index[Len(index)].whole
  /\ \A i \in DOMAIN index : result[index[i].capture] # "none"
  /\ \A i, j \in DecodedLines : index[i].capture = index[j].capture => i = j
  /\ \A i \in DecodedLines : \E m \in manifests : m.capture = index[i].capture

Under(c) == pc[c] \in {"sent", "reading", "record", "save"} \cup Saving

\* Clear moves clearedAt before it removes anything; a restart forgets
\* clearedAt, and with it every exchange that was under way.
ClearInv ==
  /\ \A c \in Captures : Under(c) => started[c] >= boundary \/ clearedAt >= boundary
  /\ \A c \in Captures : pc[c] \in Saving => started[c] >= boundary
  /\ \A i \in DecodedLines : started[index[i].capture] >= boundary

StoreInv ==
  /\ TypeOK /\ LockInv /\ OnceInv /\ StageInv /\ FilterInv /\ AdapterInv
  /\ DiskInv /\ IndexInv /\ ClearInv

-----------------------------------------------------------------------------
\* The lines of the index are of exchanges.
LEMMA LineTyped ==
  ASSUME TypeOK
  PROVE  \A i \in DOMAIN index :
           /\ i \in 1..Len(index) /\ Len(index) \in Nat
           /\ index[i].capture \in Captures /\ index[i].whole \in BOOLEAN
<1> SUFFICES ASSUME NEW i \in DOMAIN index
             PROVE  /\ i \in 1..Len(index) /\ Len(index) \in Nat
                    /\ index[i].capture \in Captures /\ index[i].whole \in BOOLEAN
  OBVIOUS
<1>1. index \in Seq([capture : Captures, whole : BOOLEAN])
  BY DEF TypeOK
<1>2. i \in 1..Len(index) /\ Len(index) \in Nat
  BY <1>1
<1>3. index[i] \in [capture : Captures, whole : BOOLEAN]
  BY <1>1, <1>2, ElementOfSeq, Zenon
<1> QED
  BY <1>2, <1>3

\* What a write to the index leaves in it: the other lines as they were, and
\* a line that can be decoded only if it was written whole and after a newline.
LEMMA LineWritten ==
  ASSUME TypeOK, IndexInv, NEW c \in Captures, NEW w \in BOOLEAN
  PROVE  /\ Line(c, w) \in Seq([capture : Captures, whole : BOOLEAN])
         /\ Line(c, w) # <<>>
         /\ \A i \in DOMAIN Line(c, w) :
              \/ i \in DOMAIN index /\ Line(c, w)[i] = index[i]
              \/ Line(c, w)[i].capture = c
         /\ \A i \in DecodedLines : i \in DOMAIN Line(c, w) /\ Line(c, w)[i] = index[i]
         /\ \A i \in DOMAIN Line(c, w) : Line(c, w)[i].whole =>
              \/ i \in DecodedLines /\ Line(c, w)[i] = index[i]
              \/ ~torn /\ w /\ i = Len(index) + 1 /\ Line(c, w)[i].capture = c
         /\ ~torn /\ w => /\ Len(index) + 1 \in DOMAIN Line(c, w)
                          /\ Len(index) + 1 \notin DecodedLines
                          /\ Line(c, w)[Len(index) + 1] = [capture |-> c, whole |-> TRUE]
         /\ ~w => ~Line(c, w)[Len(Line(c, w))].whole
<1> DEFINE L == Line(c, w)
<1> DEFINE R == [capture : Captures, whole : BOOLEAN]
<1>1. index \in Seq(R) /\ Len(index) \in Nat /\ DOMAIN index = 1..Len(index)
  BY DEF TypeOK
<1>2. \A i \in DecodedLines : i \in DOMAIN index /\ index[i].whole
  BY DEF DecodedLines
<1>3. CASE torn
  <2> DEFINE e == [capture |-> c, whole |-> FALSE]
  <2>1. L = [index EXCEPT ![Len(index)] = e]
    BY <1>3 DEF Line
  <2>2. Len(index) \in 1..Len(index) /\ ~index[Len(index)].whole
    <3>1. index # <<>> /\ ~index[Len(index)].whole
      BY <1>3 DEF IndexInv
    <3> HIDE DEF R
    <3> QED  BY <1>1, <3>1, EmptySeq
  <2>3. e \in R /\ e.capture = c /\ e.whole = FALSE
    OBVIOUS
  <2> HIDE DEF R, e, L
  <2>4. /\ L \in Seq(R) /\ Len(L) = Len(index)
        /\ \A j \in 1..Len(index) : L[j] = IF j = Len(index) THEN e ELSE index[j]
    BY <1>1, <2>1, <2>2, <2>3, ExceptSeq
  <2>5. DOMAIN L = 1..Len(index)
    <3>1. L \in Seq(R) /\ Len(L) = Len(index)
      BY <2>4
    <3> QED  BY <3>1, LenProperties
  <2>6. L # <<>>
    BY <2>4, <2>2
  <2>7. \A i \in DOMAIN L : (i \in DOMAIN index /\ L[i] = index[i]) \/ L[i].capture = c
    BY <1>1, <2>3, <2>4, <2>5
  <2>8. \A i \in DecodedLines : i \in DOMAIN L /\ L[i] = index[i]
    BY <1>1, <1>2, <2>2, <2>4, <2>5
  <2>9. \A i \in DOMAIN L : L[i].whole => i \in DecodedLines /\ L[i] = index[i]
    BY <1>1, <2>3, <2>4, <2>5 DEF DecodedLines
  <2>10. ~L[Len(L)].whole
    BY <2>2, <2>3, <2>4
  <2> QED  BY <1>3, <2>4, <2>6, <2>7, <2>8, <2>9, <2>10 DEF L, R
<1>4. CASE ~torn
  <2> DEFINE e == [capture |-> c, whole |-> w]
  <2>1. L = Append(index, e)
    BY <1>4 DEF Line
  <2>2. e \in R /\ e.capture = c /\ e.whole = w
    OBVIOUS
  <2> HIDE DEF R, e, L
  <2>3. /\ L \in Seq(R) /\ L # <<>> /\ Len(L) = Len(index) + 1
        /\ \A j \in 1..Len(index) : L[j] = index[j]
        /\ L[Len(index) + 1] = e
    BY <1>1, <2>1, <2>2, AppendProperties
  <2>4. DOMAIN L = 1..(Len(index) + 1)
    BY <1>1, <2>3
  <2>5. \A i \in DOMAIN L :
          (i \in DOMAIN index /\ L[i] = index[i]) \/ (i = Len(index) + 1 /\ L[i] = e)
    BY <1>1, <2>3, <2>4
  <2>6. \A i \in DecodedLines : i \in DOMAIN L /\ L[i] = index[i]
    BY <1>1, <1>2, <2>3, <2>4
  <2>7. \A i \in DOMAIN L : L[i].whole =>
          \/ i \in DecodedLines /\ L[i] = index[i]
          \/ ~torn /\ w /\ i = Len(index) + 1 /\ L[i].capture = c
    BY <1>4, <2>2, <2>5 DEF DecodedLines
  <2>8. Len(index) + 1 \in DOMAIN L /\ Len(index) + 1 \notin DecodedLines
    BY <1>1, <1>2, <2>4
  <2>9. w => e = [capture |-> c, whole |-> TRUE]
    BY DEF e
  <2>10. ~w => ~L[Len(L)].whole
    BY <2>2, <2>3
  <2> QED  BY <2>2, <2>3, <2>5, <2>6, <2>7, <2>8, <2>9, <2>10 DEF L, R
<1> QED
  BY <1>3, <1>4

\* The documents are of exchanges.
LEMMA ManifestTyped ==
  ASSUME TypeOK
  PROVE  \A m \in manifests : m.capture \in Captures
BY DEF TypeOK

\* The initial state satisfies the inductive invariant.
LEMMA StoreInvInit == Init => StoreInv
<1> SUFFICES ASSUME Init PROVE StoreInv
  OBVIOUS
<1>1. TypeOK
  <2>1. debug \in BOOLEAN /\ up \in BOOLEAN /\ torn \in BOOLEAN
    BY Zenon DEF Init
  <2>2. index \in Seq([capture : Captures, whole : BOOLEAN])
    BY EmptySeq, Zenon DEF Init
  <2>3. /\ mu \in Captures \cup {None, Clearer}
        /\ now \in 0..MaxClears /\ clearedAt \in 0..now /\ boundary \in 0..now
        /\ clearPC \in {"idle", "index", "exchanges", "blobs"}
        /\ adapter \in {"open", "stopping", "closed"}
        /\ troubles \in 0..MaxTroubles
    BY CaptureAssumption DEF Init
  <2>4. /\ started \in [Captures -> 0..now]
        /\ answer \in [Captures -> Answers]
    BY DEF Init, Answers
  <2>5. /\ kind \in [Captures -> {"http", "browser", "app"}]
        /\ pc \in [Captures -> {"idle", "sent", "reading", "record", "save", "cleanup",
                                "done", "dead"} \cup Saving]
    BY DEF Init, Saving
  <2>6. result \in [Captures -> {"none", "saved", "dropped", "skipped", "unsaved", "refused",
                                 "error", "crashed"}]
    BY DEF Init
  <2> QED  BY <2>1, <2>2, <2>3, <2>4, <2>5, <2>6 DEF Init, TypeOK
<1>2. LockInv
  BY CaptureAssumption DEF Init, LockInv, Saving, Over
<1>3. OnceInv
  BY DEF Init, OnceInv, Saving
<1>4. StageInv
  BY DEF Init, StageInv
<1>5. FilterInv
  BY DEF Init, FilterInv
<1>6. AdapterInv
  BY DEF Init, AdapterInv, Saving
<1>7. DiskInv
  BY DEF Init, DiskInv
<1>8. IndexInv
  BY DEF Init, IndexInv, DecodedLines
<1>9. ClearInv
  BY DEF Init, ClearInv, Under, DecodedLines, Saving
<1> QED
  BY <1>1, <1>2, <1>3, <1>4, <1>5, <1>6, <1>7, <1>8, <1>9 DEF StoreInv

\* Every step preserves it.
LEMMA StoreInvNext == StoreInv /\ [Next]_vars => StoreInv'
<1> SUFFICES ASSUME StoreInv, [Next]_vars PROVE StoreInv'
  OBVIOUS
<1> USE DEF StoreInv, disk, exchange, control
<1>1. ASSUME NEW c \in Captures, HTTPSend(c) PROVE StoreInv'
  <2>1. TypeOK'
    <3>1. CASE NoStage
      BY <1>1, <3>1 DEF TypeOK, Saving, Sides, HTTPSend, Goto, NoStage
    <3>2. CASE /\ staged' = staged \cup {<<c, "request">>}
               /\ staging' = staging \cup {<<c, "request">>}
               /\ UNCHANGED <<spoiled, troubles>>
      BY <1>1, <3>2 DEF TypeOK, Saving, Sides, HTTPSend, Goto
    <3>3. CASE Trouble /\ spoiled' = spoiled \cup {c} /\ UNCHANGED <<staged, staging>>
      BY <1>1, <3>3, CaptureAssumption DEF TypeOK, Saving, Sides, HTTPSend, Goto, Trouble
    <3> QED  BY <1>1, <3>1, <3>2, <3>3 DEF HTTPSend, OpenStage
  <2>2. LockInv'
    BY <1>1, CaptureAssumption DEF LockInv, Over, Saving, Sides, TypeOK, HTTPSend, Goto,
       OpenStage, NoStage, Trouble
  <2>3. OnceInv'
    BY <1>1 DEF OnceInv, Saving, Sides, TypeOK, HTTPSend, Goto, OpenStage, NoStage, Trouble
  <2>4. StageInv'
    BY <1>1 DEF StageInv, Saving, Sides, TypeOK, HTTPSend, Goto, OpenStage, NoStage, Trouble
  <2>5. FilterInv'
    BY <1>1 DEF FilterInv, Saving, Sides, TypeOK, HTTPSend, Goto, OpenStage, NoStage, Trouble,
       Over, LockInv
  <2>6. AdapterInv'
    BY <1>1 DEF AdapterInv, Saving, Sides, TypeOK, HTTPSend, Goto, OpenStage, NoStage, Trouble
  <2>7. DiskInv'
    BY <1>1 DEF DiskInv, HasBody, BodyOf, Over, Saving, Sides, TypeOK, HTTPSend, Goto,
       OpenStage, NoStage, Trouble
  <2>8. IndexInv'
    BY <1>1 DEF IndexInv, DecodedLines, TypeOK, HTTPSend, Goto, OpenStage, NoStage, Trouble
  <2>9. ClearInv'
    BY <1>1 DEF ClearInv, Under, DecodedLines, Saving, Sides, TypeOK, HTTPSend, Goto,
       OpenStage, NoStage, Trouble
  <2> QED  BY <2>1, <2>2, <2>3, <2>4, <2>5, <2>6, <2>7, <2>8, <2>9
<1>2. ASSUME NEW c \in Captures, HTTPNoBody(c) PROVE StoreInv'
  <2>1. TypeOK'
    BY <1>2 DEF TypeOK, Answers, Saving, Sides, HTTPNoBody, Goto
  <2>2. LockInv'
    BY <1>2, CaptureAssumption DEF LockInv, Over, Saving, Sides, TypeOK, HTTPNoBody, Goto
  <2>3. OnceInv'
    BY <1>2 DEF OnceInv, Saving, Sides, TypeOK, HTTPNoBody, Goto
  <2>4. StageInv'
    BY <1>2 DEF StageInv, Saving, Sides, TypeOK, HTTPNoBody, Goto
  <2>5. FilterInv'
    BY <1>2 DEF FilterInv, Saving, Sides, TypeOK, HTTPNoBody, Goto, LockInv, Over, OnceInv
  <2>6. AdapterInv'
    BY <1>2 DEF AdapterInv, Saving, Sides, TypeOK, HTTPNoBody, Goto
  <2>7. DiskInv'
    BY <1>2 DEF DiskInv, HasBody, BodyOf, Over, Saving, Sides, TypeOK, HTTPNoBody, Goto
  <2>8. IndexInv'
    BY <1>2 DEF IndexInv, DecodedLines, TypeOK, HTTPNoBody, Goto
  <2>9. ClearInv'
    BY <1>2 DEF ClearInv, Under, DecodedLines, Saving, Sides, TypeOK, HTTPNoBody, Goto
  <2> QED  BY <2>1, <2>2, <2>3, <2>4, <2>5, <2>6, <2>7, <2>8, <2>9
<1>3. ASSUME NEW c \in Captures, HTTPAnswered(c) PROVE StoreInv'
  <2>1. TypeOK'
    <3>1. answer' \in [Captures -> Answers]
      BY <1>3 DEF HTTPAnswered, TypeOK, Answers
    <3>2. /\ pc' = [pc EXCEPT ![c] = "reading"]
          /\ UNCHANGED <<control, started, result, once, bodyClosed, running,
                         temps, blobs, manifests, index, torn>>
      BY <1>3 DEF HTTPAnswered, Goto
    <3>3. CASE NoStage
      BY <3>1, <3>2, <3>3 DEF TypeOK, Saving, Sides, NoStage
    <3>4. CASE /\ staged' = staged \cup {<<c, "response">>}
               /\ staging' = staging \cup {<<c, "response">>}
               /\ UNCHANGED <<spoiled, troubles>>
      BY <3>1, <3>2, <3>4 DEF TypeOK, Saving, Sides
    <3>5. CASE Trouble /\ spoiled' = spoiled \cup {c} /\ UNCHANGED <<staged, staging>>
      BY <3>1, <3>2, <3>5, CaptureAssumption DEF TypeOK, Saving, Sides, Trouble
    <3> QED  BY <1>3, <3>3, <3>4, <3>5 DEF HTTPAnswered, OpenStage
  <2>2. LockInv'
    BY <1>3, CaptureAssumption DEF LockInv, Over, Saving, Sides, TypeOK, HTTPAnswered, Goto,
       OpenStage, NoStage, Trouble
  <2>3. OnceInv'
    BY <1>3 DEF OnceInv, Saving, Sides, TypeOK, HTTPAnswered, Goto, OpenStage, NoStage, Trouble
  <2>4. StageInv'
    BY <1>3 DEF StageInv, Saving, Sides, TypeOK, HTTPAnswered, Goto, OpenStage, NoStage,
       Trouble
  <2>5. FilterInv'
    BY <1>3 DEF FilterInv, Saving, Sides, TypeOK, HTTPAnswered, Goto, OpenStage, NoStage,
       Trouble, LockInv, Over, OnceInv
  <2>6. AdapterInv'
    BY <1>3 DEF AdapterInv, Saving, Sides, TypeOK, HTTPAnswered, Goto, OpenStage, NoStage,
       Trouble
  <2>7. DiskInv'
    BY <1>3 DEF DiskInv, HasBody, BodyOf, Over, Saving, Sides, TypeOK, HTTPAnswered, Goto,
       OpenStage, NoStage, Trouble
  <2>8. IndexInv'
    BY <1>3 DEF IndexInv, DecodedLines, TypeOK, HTTPAnswered, Goto, OpenStage, NoStage, Trouble
  <2>9. ClearInv'
    BY <1>3 DEF ClearInv, Under, DecodedLines, Saving, Sides, TypeOK, HTTPAnswered, Goto,
       OpenStage, NoStage, Trouble
  <2> QED  BY <2>1, <2>2, <2>3, <2>4, <2>5, <2>6, <2>7, <2>8, <2>9
<1>4. ASSUME NEW c \in Captures, ReadEnds(c) PROVE StoreInv'
  <2>a. \A d \in Captures : d # c => pc'[d] = pc[d] /\ answer'[d] = answer[d]
    BY <1>4 DEF ReadEnds, Complete, Goto, OnceInv, TypeOK
  <2>b. /\ pc[c] = "reading" /\ c \notin once /\ once' = once \cup {c} /\ pc'[c] = "save"
        /\ answer'[c] = answer[c] \/ (answer[c] = "ok" /\ answer'[c] = "cut")
    BY <1>4 DEF ReadEnds, Complete, Goto, OnceInv, TypeOK
  <2>c. UNCHANGED <<debug, kind, up, mu, now, clearedAt, clearPC, boundary, adapter, started,
                    result, staged, spoiled, bodyClosed, running, staging, temps, blobs,
                    manifests, index, torn, troubles>>
    BY <1>4 DEF ReadEnds
  <2>1. TypeOK'
    <3>1. answer' \in [Captures -> Answers]
      BY <1>4 DEF ReadEnds, TypeOK, Answers
    <3>2. pc' = [pc EXCEPT ![c] = "save"] /\ once' = once \cup {c}
      BY <1>4 DEF ReadEnds, Complete, Goto, OnceInv
    <3> QED  BY <2>c, <3>1, <3>2 DEF TypeOK
  <2>2. LockInv'
    BY <2>a, <2>b, <2>c, <2>1, CaptureAssumption DEF LockInv, Over, Saving, Sides, TypeOK
  <2>3. OnceInv'
    BY <2>a, <2>b, <2>c, <2>1 DEF OnceInv, Saving, Sides, TypeOK
  <2>4. StageInv'
    BY <2>a, <2>b, <2>c, <2>1 DEF StageInv, Saving, Sides, TypeOK
  <2>5. FilterInv'
    BY <2>a, <2>b, <2>c, <2>1 DEF FilterInv, Saving, Sides, TypeOK, LockInv, Over, OnceInv
  <2>6. AdapterInv'
    BY <2>a, <2>b, <2>c, <2>1 DEF AdapterInv, Saving, Sides, TypeOK, OnceInv
  <2>7. DiskInv'
    <3>1. \A m \in manifests' : m.bodies \subseteq blobs'
      BY <2>a, <2>b, <2>c, <2>1, CaptureAssumption DEF DiskInv, TypeOK
    <3>2. \A m \in manifests' : pc'[m.capture] \in {"append"} \cup Over
      BY <2>a, <2>b, <2>c, <2>1, CaptureAssumption DEF DiskInv, Over, TypeOK
    <3>3. \A m, n \in manifests' : m.capture = n.capture => m = n
      BY <2>a, <2>b, <2>c, <2>1, CaptureAssumption DEF DiskInv, TypeOK
    <3>4. \A d \in Captures : (pc[d] = "response" /\ HasBody(d, "request") => Sent[d] \in blobs)'
      BY <2>a, <2>b, <2>c, <2>1, CaptureAssumption DEF DiskInv, HasBody, BodyOf, Saving, Sides,
         TypeOK
    <3>5. \A d \in Captures : (pc[d] = "manifest" =>
            \A s \in Sides : HasBody(d, s) => BodyOf(d, s) \in blobs)'
      BY <2>a, <2>b, <2>c, <2>1, CaptureAssumption DEF DiskInv, HasBody, BodyOf, Saving, Sides,
         TypeOK
    <3>6. \A d \in Captures : (pc[d] = "append" => \E m \in manifests : m.capture = d)'
      BY <2>a, <2>b, <2>c, <2>1, CaptureAssumption DEF DiskInv, Saving, Sides, TypeOK
    <3>7. (clearPC \in {"exchanges", "blobs"} => index = <<>>)'
      BY <2>a, <2>b, <2>c, <2>1, CaptureAssumption DEF DiskInv, TypeOK
    <3>8. (clearPC = "blobs" => manifests = {})'
      BY <2>a, <2>b, <2>c, <2>1, CaptureAssumption DEF DiskInv, TypeOK
    <3> QED  BY <3>1, <3>2, <3>3, <3>4, <3>5, <3>6, <3>7, <3>8 DEF DiskInv
  <2>8. IndexInv'
    BY <2>a, <2>b, <2>c, <2>1 DEF IndexInv, DecodedLines, TypeOK
  <2>9. ClearInv'
    BY <2>a, <2>b, <2>c, <2>1 DEF ClearInv, Under, DecodedLines, Saving, Sides, TypeOK
  <2> QED  BY <2>1, <2>2, <2>3, <2>4, <2>5, <2>6, <2>7, <2>8, <2>9
<1>5. ASSUME NEW c \in Captures, CloseBody(c) PROVE StoreInv'
  <2>a. \A d \in Captures : d # c => pc'[d] = pc[d] /\ answer'[d] = answer[d]
    BY <1>5 DEF CloseBody, Complete, Goto, OnceInv, TypeOK
  <2>b. /\ kind[c] = "http" /\ bodyClosed' = bodyClosed \cup {c}
        /\ \/ /\ pc[c] = "reading" /\ pc'[c] = "save" /\ once' = once \cup {c}
              /\ answer'[c] = answer[c] \/ (answer[c] = "ok" /\ answer'[c] = "cut")
           \/ pc[c] = "done" /\ UNCHANGED <<pc, once, answer>>
    BY <1>5 DEF CloseBody, Complete, Goto, OnceInv, TypeOK
  <2>c. UNCHANGED <<debug, kind, up, mu, now, clearedAt, clearPC, boundary, adapter, started,
                    result, staged, spoiled, running, staging, temps, blobs, manifests, index,
                    torn, troubles>>
    BY <1>5 DEF CloseBody
  <2>1. TypeOK'
    BY <1>5 DEF TypeOK, Answers, Saving, Sides, CloseBody, Complete, Goto
  <2>2. LockInv'
    <3>1. \A d \in Captures : (pc[d] \in Saving <=> mu = d)'
      BY <2>a, <2>b, <2>c, <2>1, CaptureAssumption DEF LockInv, Saving, Sides, TypeOK
    <3>2. (mu = Clearer <=> clearPC # "idle")'
      BY <2>a, <2>b, <2>c, <2>1, CaptureAssumption DEF LockInv, TypeOK
    <3>3. (~up => mu = None /\ \A d \in Captures : pc[d] \in {"idle", "done", "dead"})'
      BY <2>a, <2>b, <2>c, <2>1, CaptureAssumption DEF LockInv, Saving, Sides, TypeOK
    <3>4. \A d \in Captures : (result[d] = "none" <=> pc[d] \notin Over)'
      BY <2>a, <2>b, <2>c, <2>1, CaptureAssumption DEF LockInv, Over, TypeOK
    <3> QED  BY <3>1, <3>2, <3>3, <3>4 DEF LockInv
  <2>3. OnceInv'
    BY <2>a, <2>b, <2>c, <2>1 DEF OnceInv, Saving, Sides, TypeOK
  <2>4. StageInv'
    BY <2>a, <2>b, <2>c, <2>1 DEF StageInv, Saving, Sides, TypeOK
  <2>5. FilterInv'
    BY <2>a, <2>b, <2>c, <2>1 DEF FilterInv, Saving, Sides, TypeOK, LockInv, Over, OnceInv
  <2>6. AdapterInv'
    BY <2>a, <2>b, <2>c, <2>1 DEF AdapterInv, Saving, Sides, TypeOK
  <2>7. DiskInv'
    <3>1. \A m \in manifests' : m.bodies \subseteq blobs'
      BY <2>a, <2>b, <2>c, <2>1, CaptureAssumption DEF DiskInv, TypeOK
    <3>2. \A m \in manifests' : pc'[m.capture] \in {"append"} \cup Over
      BY <2>a, <2>b, <2>c, <2>1, CaptureAssumption DEF DiskInv, Over, TypeOK
    <3>3. \A m, n \in manifests' : m.capture = n.capture => m = n
      BY <2>a, <2>b, <2>c, <2>1, CaptureAssumption DEF DiskInv, TypeOK
    <3>4. \A d \in Captures : (pc[d] = "response" /\ HasBody(d, "request") => Sent[d] \in blobs)'
      BY <2>a, <2>b, <2>c, <2>1, CaptureAssumption DEF DiskInv, HasBody, BodyOf, Saving, Sides,
         TypeOK
    <3>5. \A d \in Captures : (pc[d] = "manifest" =>
            \A s \in Sides : HasBody(d, s) => BodyOf(d, s) \in blobs)'
      BY <2>a, <2>b, <2>c, <2>1, CaptureAssumption DEF DiskInv, HasBody, BodyOf, Saving, Sides,
         TypeOK
    <3>6. \A d \in Captures : (pc[d] = "append" => \E m \in manifests : m.capture = d)'
      BY <2>a, <2>b, <2>c, <2>1, CaptureAssumption DEF DiskInv, Saving, Sides, TypeOK
    <3>7. (clearPC \in {"exchanges", "blobs"} => index = <<>>)'
      BY <2>a, <2>b, <2>c, <2>1, CaptureAssumption DEF DiskInv, TypeOK
    <3>8. (clearPC = "blobs" => manifests = {})'
      BY <2>a, <2>b, <2>c, <2>1, CaptureAssumption DEF DiskInv, TypeOK
    <3> QED  BY <3>1, <3>2, <3>3, <3>4, <3>5, <3>6, <3>7, <3>8 DEF DiskInv
  <2>8. IndexInv'
    BY <2>a, <2>b, <2>c, <2>1 DEF IndexInv, DecodedLines, TypeOK
  <2>9. ClearInv'
    BY <2>a, <2>b, <2>c, <2>1 DEF ClearInv, Under, DecodedLines, Saving, Sides, TypeOK, OnceInv
  <2> QED  BY <2>1, <2>2, <2>3, <2>4, <2>5, <2>6, <2>7, <2>8, <2>9
<1>6. ASSUME NEW c \in Captures, BrowserSend(c) PROVE StoreInv'
  <2>1. TypeOK'
    BY <1>6 DEF TypeOK, Answers, Saving, Sides, BrowserSend, Goto
  <2>2. LockInv'
    BY <1>6, CaptureAssumption DEF LockInv, Over, Saving, Sides, TypeOK, BrowserSend, Goto
  <2>3. OnceInv'
    BY <1>6 DEF OnceInv, Saving, Sides, TypeOK, BrowserSend, Goto
  <2>4. StageInv'
    BY <1>6 DEF StageInv, Saving, Sides, TypeOK, BrowserSend, Goto
  <2>5. FilterInv'
    BY <1>6 DEF FilterInv, Saving, Sides, TypeOK, BrowserSend, Goto
  <2>6. AdapterInv'
    BY <1>6 DEF AdapterInv, Saving, Sides, TypeOK, BrowserSend, Goto
  <2>7. DiskInv'
    BY <1>6 DEF DiskInv, HasBody, BodyOf, Over, Saving, Sides, TypeOK, BrowserSend, Goto
  <2>8. IndexInv'
    BY <1>6 DEF IndexInv, DecodedLines, TypeOK, BrowserSend, Goto
  <2>9. ClearInv'
    BY <1>6 DEF ClearInv, Under, DecodedLines, Saving, Sides, TypeOK, BrowserSend, Goto
  <2> QED  BY <2>1, <2>2, <2>3, <2>4, <2>5, <2>6, <2>7, <2>8, <2>9
<1>7. ASSUME NEW c \in Captures, BrowserEvent(c) PROVE StoreInv'
  <2>a. \A d \in Captures : d # c =>
          pc'[d] = pc[d] /\ answer'[d] = answer[d] /\ result'[d] = result[d]
    BY <1>7 DEF BrowserEvent, ShouldCapture, BeginCapture, End, Goto, TypeOK
  <2>b. /\ pc[c] = "sent" /\ kind[c] = "browser"
        /\ \/ /\ pc'[c] = "record" /\ running' = running \cup {c} /\ adapter = "open"
              /\ result'[c] = result[c]
           \/ /\ pc'[c] = "cleanup" /\ running' = running
              /\ \/ result'[c] = "refused"
                 \/ result'[c] = "unsaved" /\ ~debug /\ answer'[c] \notin {"bad", "failed", "cut"}
    BY <1>7 DEF BrowserEvent, ShouldCapture, BeginCapture, End, Goto, TypeOK
  <2>c. UNCHANGED <<debug, kind, up, mu, now, clearedAt, clearPC, boundary, adapter, started,
                    staged, spoiled, once, bodyClosed, staging, temps, blobs, manifests, index,
                    torn, troubles>>
    BY <1>7 DEF BrowserEvent
  <2>1. TypeOK'
    <3>1. answer' \in [Captures -> Answers]
      BY <1>7 DEF BrowserEvent, TypeOK, Answers
    <3>2. \/ pc' = [pc EXCEPT ![c] = "record"] /\ result' = result
          \/ /\ pc' = [pc EXCEPT ![c] = "cleanup"]
             /\ \E how \in {"refused", "unsaved"} : result' = [result EXCEPT ![c] = how]
      BY <1>7 DEF BrowserEvent, BeginCapture, End, Goto
    <3>3. running' = running \/ running' = running \cup {c}
      BY <1>7 DEF BrowserEvent, BeginCapture
    <3>4. /\ pc' \in [Captures -> {"idle", "sent", "reading", "record", "save", "cleanup",
                                  "done", "dead"} \cup Saving]
          /\ result' \in [Captures -> {"none", "saved", "dropped", "skipped", "unsaved",
                                      "refused", "error", "crashed"}]
      BY <3>2 DEF TypeOK
    <3> QED  BY <2>c, <3>1, <3>3, <3>4 DEF TypeOK
  <2>2. LockInv'
    <3>1. \A d \in Captures : (pc[d] \in Saving <=> mu = d)'
      BY <2>a, <2>b, <2>c, <2>1, CaptureAssumption DEF LockInv, Saving, Sides, TypeOK
    <3>2. (mu = Clearer <=> clearPC # "idle")'
      BY <2>a, <2>b, <2>c, <2>1, CaptureAssumption DEF LockInv, TypeOK
    <3>3. (~up => mu = None /\ \A d \in Captures : pc[d] \in {"idle", "done", "dead"})'
      BY <2>a, <2>b, <2>c, <2>1, CaptureAssumption DEF LockInv, Saving, Sides, TypeOK
    <3>4. \A d \in Captures : (result[d] = "none" <=> pc[d] \notin Over)'
      BY <2>a, <2>b, <2>c, <2>1, CaptureAssumption DEF LockInv, Over, TypeOK
    <3> QED  BY <3>1, <3>2, <3>3, <3>4 DEF LockInv
  <2>3. OnceInv'
    BY <2>a, <2>b, <2>c, <2>1 DEF OnceInv, Saving, Sides, TypeOK
  <2>4. StageInv'
    BY <2>a, <2>b, <2>c, <2>1 DEF StageInv, Saving, Sides, TypeOK
  <2>5. FilterInv'
    <3>1. \A d \in Captures : d # c =>
            pc'[d] = pc[d] /\ answer'[d] = answer[d] /\ result'[d] = result[d]
      BY <2>a
    <3>2. UNCHANGED <<debug, kind, spoiled>>
      BY <2>c
    <3>3. /\ pc'[c] \in {"record", "cleanup"} /\ c \notin spoiled /\ kind[c] = "browser"
          /\ result'[c] \in {"unsaved", "skipped"} =>
               ~debug /\ answer'[c] \notin {"bad", "failed", "cut"}
      BY <2>b DEF FilterInv, LockInv, Over
    <3> QED  BY <3>1, <3>2, <3>3 DEF FilterInv
  <2>6. AdapterInv'
    BY <2>a, <2>b, <2>c, <2>1 DEF AdapterInv, Saving, Sides, TypeOK
  <2>7. DiskInv'
    <3>1. \A m \in manifests' : m.bodies \subseteq blobs'
      BY <2>a, <2>b, <2>c, <2>1, CaptureAssumption DEF DiskInv, TypeOK
    <3>2. \A m \in manifests' : pc'[m.capture] \in {"append"} \cup Over
      BY <2>a, <2>b, <2>c, <2>1, CaptureAssumption DEF DiskInv, Over, TypeOK
    <3>3. \A m, n \in manifests' : m.capture = n.capture => m = n
      BY <2>a, <2>b, <2>c, <2>1, CaptureAssumption DEF DiskInv, TypeOK
    <3>4. \A d \in Captures : (pc[d] = "response" /\ HasBody(d, "request") => Sent[d] \in blobs)'
      BY <2>a, <2>b, <2>c, <2>1, CaptureAssumption DEF DiskInv, HasBody, BodyOf, Saving, Sides,
         TypeOK
    <3>5. \A d \in Captures : (pc[d] = "manifest" =>
            \A s \in Sides : HasBody(d, s) => BodyOf(d, s) \in blobs)'
      BY <2>a, <2>b, <2>c, <2>1, CaptureAssumption DEF DiskInv, HasBody, BodyOf, Saving, Sides,
         TypeOK
    <3>6. \A d \in Captures : (pc[d] = "append" => \E m \in manifests : m.capture = d)'
      BY <2>a, <2>b, <2>c, <2>1, CaptureAssumption DEF DiskInv, Saving, Sides, TypeOK
    <3>7. (clearPC \in {"exchanges", "blobs"} => index = <<>>)'
      BY <2>a, <2>b, <2>c, <2>1, CaptureAssumption DEF DiskInv, TypeOK
    <3>8. (clearPC = "blobs" => manifests = {})'
      BY <2>a, <2>b, <2>c, <2>1, CaptureAssumption DEF DiskInv, TypeOK
    <3> QED  BY <3>1, <3>2, <3>3, <3>4, <3>5, <3>6, <3>7, <3>8 DEF DiskInv
  <2>8. IndexInv'
    <3>1. (torn => index # <<>> /\ ~index[Len(index)].whole)'
      BY <2>a, <2>b, <2>c, <2>1, LineTyped DEF IndexInv, TypeOK, LockInv, Over
    <3>2. \A i \in DOMAIN index' : (result[index[i].capture] # "none")'
      BY <2>a, <2>b, <2>c, <2>1, LineTyped DEF IndexInv, TypeOK, LockInv, Over
    <3>3. \A i, j \in DecodedLines' : (index[i].capture = index[j].capture => i = j)'
      BY <2>a, <2>b, <2>c, <2>1, LineTyped DEF IndexInv, DecodedLines, TypeOK, LockInv, Over
    <3>4. \A i \in DecodedLines' : (\E m \in manifests : m.capture = index[i].capture)'
      BY <2>a, <2>b, <2>c, <2>1, LineTyped DEF IndexInv, DecodedLines, TypeOK, LockInv, Over
    <3> QED  BY <3>1, <3>2, <3>3, <3>4 DEF IndexInv
  <2>9. ClearInv'
    BY <2>a, <2>b, <2>c, <2>1 DEF ClearInv, Under, DecodedLines, Saving, Sides, TypeOK
  <2> QED  BY <2>1, <2>2, <2>3, <2>4, <2>5, <2>6, <2>7, <2>8, <2>9
<1>8. ASSUME NEW c \in Captures, PlaywrightRecord(c) PROVE StoreInv'
  <2>1. TypeOK'
    BY <1>8 DEF TypeOK, Answers, Saving, Sides, PlaywrightRecord, Goto
  <2>2. LockInv'
    BY <1>8, CaptureAssumption DEF LockInv, Over, Saving, Sides, TypeOK, PlaywrightRecord, Goto
  <2>3. OnceInv'
    BY <1>8 DEF OnceInv, Saving, Sides, TypeOK, PlaywrightRecord, Goto, AdapterInv
  <2>4. StageInv'
    BY <1>8 DEF StageInv, Saving, Sides, TypeOK, PlaywrightRecord, Goto
  <2>5. FilterInv'
    BY <1>8 DEF FilterInv, Saving, Sides, TypeOK, PlaywrightRecord, Goto
  <2>6. AdapterInv'
    BY <1>8 DEF AdapterInv, Saving, Sides, TypeOK, PlaywrightRecord, Goto
  <2>7. DiskInv'
    BY <1>8, CaptureAssumption DEF DiskInv, HasBody, BodyOf, Over, Saving, Sides, TypeOK,
       PlaywrightRecord, Goto, LockInv, OnceInv
  <2>8. IndexInv'
    BY <1>8 DEF IndexInv, DecodedLines, TypeOK, PlaywrightRecord, Goto
  <2>9. ClearInv'
    BY <1>8 DEF ClearInv, Under, DecodedLines, Saving, Sides, TypeOK, PlaywrightRecord, Goto
  <2> QED  BY <2>1, <2>2, <2>3, <2>4, <2>5, <2>6, <2>7, <2>8, <2>9
<1>9. ASSUME NEW c \in Captures, AppSave(c) PROVE StoreInv'
  <2>a. \A d \in Captures : d # c =>
          /\ pc'[d] = pc[d] /\ answer'[d] = answer[d]
          /\ result'[d] = result[d] /\ started'[d] = started[d]
    BY <1>9 DEF AppSave, End, Goto, TypeOK
  <2>b. /\ up /\ pc[c] = "idle" /\ kind[c] = "app" /\ started'[c] = now
        /\ \/ pc'[c] = "save" /\ result'[c] = result[c]
           \/ pc'[c] = "cleanup" /\ result'[c] = "error"
    BY <1>9 DEF AppSave, End, Goto, TypeOK
  <2>c. UNCHANGED <<debug, kind, up, mu, now, clearedAt, clearPC, boundary, adapter, staged,
                    spoiled, once, bodyClosed, running, staging, temps, blobs, manifests,
                    index, torn, troubles>>
    BY <1>9 DEF AppSave
  <2>1. TypeOK'
    BY <1>9 DEF TypeOK, Answers, Saving, Sides, AppSave, Goto, End
  <2>2. LockInv'
    <3>1. \A d \in Captures : (pc[d] \in Saving <=> mu = d)'
      BY <2>a, <2>b, <2>c, <2>1, CaptureAssumption DEF LockInv, Saving, Sides, TypeOK
    <3>2. (mu = Clearer <=> clearPC # "idle")'
      BY <2>a, <2>b, <2>c, <2>1, CaptureAssumption DEF LockInv, TypeOK
    <3>3. (~up => mu = None /\ \A d \in Captures : pc[d] \in {"idle", "done", "dead"})'
      BY <2>a, <2>b, <2>c, <2>1, CaptureAssumption DEF LockInv, Saving, Sides, TypeOK
    <3>4. \A d \in Captures : (result[d] = "none" <=> pc[d] \notin Over)'
      BY <2>a, <2>b, <2>c, <2>1, CaptureAssumption DEF LockInv, Over, TypeOK
    <3> QED  BY <3>1, <3>2, <3>3, <3>4 DEF LockInv
  <2>3. OnceInv'
    BY <2>a, <2>b, <2>c, <2>1 DEF OnceInv, Saving, Sides, TypeOK
  <2>4. StageInv'
    BY <2>a, <2>b, <2>c, <2>1 DEF StageInv, Saving, Sides, TypeOK
  <2>5. FilterInv'
    <3>1. \A d \in Captures : d # c =>
            /\ pc'[d] = pc[d] /\ answer'[d] = answer[d] /\ result'[d] = result[d]
            /\ (d \in spoiled)' = (d \in spoiled) /\ (kind[d])' = kind[d] /\ debug' = debug
      BY <2>a, <2>c
    <3>2. /\ pc'[c] \in {"save", "cleanup"} /\ result'[c] \in {"none", "error"}
          /\ c \notin spoiled'
      BY <2>b, <2>c DEF FilterInv, LockInv, Over
    <3> QED  BY <3>1, <3>2 DEF FilterInv
  <2>6. AdapterInv'
    BY <2>a, <2>b, <2>c, <2>1 DEF AdapterInv, Saving, Sides, TypeOK
  <2>7. DiskInv'
    <3>1. \A m \in manifests' : m.bodies \subseteq blobs'
      BY <2>a, <2>b, <2>c, <2>1, CaptureAssumption DEF DiskInv, TypeOK
    <3>2. \A m \in manifests' : pc'[m.capture] \in {"append"} \cup Over
      BY <2>a, <2>b, <2>c, <2>1, CaptureAssumption DEF DiskInv, Over, TypeOK
    <3>3. \A m, n \in manifests' : m.capture = n.capture => m = n
      BY <2>a, <2>b, <2>c, <2>1, CaptureAssumption DEF DiskInv, TypeOK
    <3>4. \A d \in Captures : (pc[d] = "response" /\ HasBody(d, "request") => Sent[d] \in blobs)'
      BY <2>a, <2>b, <2>c, <2>1, CaptureAssumption DEF DiskInv, HasBody, BodyOf, Saving, Sides,
         TypeOK
    <3>5. \A d \in Captures : (pc[d] = "manifest" =>
            \A s \in Sides : HasBody(d, s) => BodyOf(d, s) \in blobs)'
      BY <2>a, <2>b, <2>c, <2>1, CaptureAssumption DEF DiskInv, HasBody, BodyOf, Saving, Sides,
         TypeOK
    <3>6. \A d \in Captures : (pc[d] = "append" => \E m \in manifests : m.capture = d)'
      BY <2>a, <2>b, <2>c, <2>1, CaptureAssumption DEF DiskInv, Saving, Sides, TypeOK
    <3>7. (clearPC \in {"exchanges", "blobs"} => index = <<>>)'
      BY <2>a, <2>b, <2>c, <2>1, CaptureAssumption DEF DiskInv, TypeOK
    <3>8. (clearPC = "blobs" => manifests = {})'
      BY <2>a, <2>b, <2>c, <2>1, CaptureAssumption DEF DiskInv, TypeOK
    <3> QED  BY <3>1, <3>2, <3>3, <3>4, <3>5, <3>6, <3>7, <3>8 DEF DiskInv
  <2>8. IndexInv'
    <3>1. (torn => index # <<>> /\ ~index[Len(index)].whole)'
      BY <2>a, <2>b, <2>c, <2>1, LineTyped DEF IndexInv, TypeOK, LockInv, Over
    <3>2. \A i \in DOMAIN index' : (result[index[i].capture] # "none")'
      BY <2>a, <2>b, <2>c, <2>1, LineTyped DEF IndexInv, TypeOK, LockInv, Over
    <3>3. \A i, j \in DecodedLines' : (index[i].capture = index[j].capture => i = j)'
      BY <2>a, <2>b, <2>c, <2>1, LineTyped DEF IndexInv, DecodedLines, TypeOK, LockInv, Over
    <3>4. \A i \in DecodedLines' : (\E m \in manifests : m.capture = index[i].capture)'
      BY <2>a, <2>b, <2>c, <2>1, LineTyped DEF IndexInv, DecodedLines, TypeOK, LockInv, Over
    <3> QED  BY <3>1, <3>2, <3>3, <3>4 DEF IndexInv
  <2>9. ClearInv'
    <3>1. boundary <= now /\ now \in Nat /\ boundary \in Nat
      BY CaptureAssumption DEF TypeOK
    <3>2. started'[c] >= boundary' /\ ~(pc'[c] \in Saving) /\ ~(pc[c] \in Saving)
      BY <2>b, <2>c, <3>1 DEF Saving
    <3>3. \A d \in Captures : d # c => pc'[d] = pc[d] /\ started'[d] = started[d]
      BY <2>a
    <3>4. UNCHANGED <<boundary, clearedAt, index>>
      BY <2>c
    <3> QED  BY <3>2, <3>3, <3>4, LineTyped DEF ClearInv, Under, DecodedLines
  <2> QED  BY <2>1, <2>2, <2>3, <2>4, <2>5, <2>6, <2>7, <2>8, <2>9
<1>10. ASSUME NEW c \in Captures, NotSaved(c) PROVE StoreInv'
  <2>1. TypeOK'
    BY <1>10 DEF TypeOK, Answers, Saving, Sides, NotSaved, HTTPFiltered, End, Goto
  <2>2. LockInv'
    BY <1>10, CaptureAssumption DEF LockInv, Over, Saving, Sides, TypeOK, NotSaved,
       HTTPFiltered, End, Goto
  <2>3. OnceInv'
    BY <1>10 DEF OnceInv, Saving, Sides, TypeOK, NotSaved, HTTPFiltered, End, Goto
  <2>4. StageInv'
    BY <1>10 DEF StageInv, Saving, Sides, TypeOK, NotSaved, HTTPFiltered, End, Goto
  <2>5. FilterInv'
    BY <1>10 DEF FilterInv, Saving, Sides, TypeOK, NotSaved, HTTPFiltered, End, Goto
  <2>6. AdapterInv'
    BY <1>10 DEF AdapterInv, Saving, Sides, TypeOK, NotSaved, HTTPFiltered, End, Goto
  <2>7. DiskInv'
    BY <1>10, CaptureAssumption DEF DiskInv, HasBody, BodyOf, Over, Saving, Sides, TypeOK,
       NotSaved, HTTPFiltered, End, Goto, LockInv, OnceInv
  <2>8. IndexInv'
    BY <1>10 DEF IndexInv, DecodedLines, TypeOK, NotSaved, HTTPFiltered, End, Goto
  <2>9. ClearInv'
    BY <1>10 DEF ClearInv, Under, DecodedLines, Saving, Sides, TypeOK, NotSaved, HTTPFiltered,
       End, Goto
  <2> QED  BY <2>1, <2>2, <2>3, <2>4, <2>5, <2>6, <2>7, <2>8, <2>9
<1>11. ASSUME NEW c \in Captures, SaveIgnored(c) PROVE StoreInv'
  <2>a. \A d \in Captures : d # c => pc'[d] = pc[d] /\ result'[d] = result[d]
    BY <1>11 DEF SaveIgnored, End, Goto, TypeOK
  <2>b. /\ pc[c] = "save" /\ pc'[c] = "cleanup"
        /\ result'[c] = "dropped" \/ (result'[c] = "skipped" /\ ~shouldPersist(c))
    BY <1>11 DEF SaveIgnored, End, Goto, TypeOK
  <2>c. UNCHANGED <<debug, kind, up, mu, now, clearedAt, clearPC, boundary, adapter, started,
                    answer, staged, spoiled, once, bodyClosed, running, staging, temps, blobs,
                    manifests, index, torn, troubles>>
    BY <1>11 DEF SaveIgnored
  <2>1. TypeOK'
    BY <1>11 DEF TypeOK, Answers, Saving, Sides, SaveIgnored, HTTPFiltered, shouldPersist, End,
       Goto
  <2>2. LockInv'
    BY <2>a, <2>b, <2>c, <2>1, CaptureAssumption DEF LockInv, Over, Saving, Sides, TypeOK
  <2>3. OnceInv'
    BY <2>a, <2>b, <2>c, <2>1 DEF OnceInv, Saving, Sides, TypeOK
  <2>4. StageInv'
    BY <2>a, <2>b, <2>c, <2>1 DEF StageInv, Saving, Sides, TypeOK
  <2>5. FilterInv'
    BY <2>a, <2>b, <2>c, <2>1 DEF FilterInv, Saving, Sides, TypeOK, shouldPersist
  <2>6. AdapterInv'
    BY <2>a, <2>b, <2>c, <2>1 DEF AdapterInv, Saving, Sides, TypeOK
  <2>7. DiskInv'
    <3>1. \A m \in manifests' : m.bodies \subseteq blobs'
      BY <2>a, <2>b, <2>c, <2>1, CaptureAssumption DEF DiskInv, TypeOK
    <3>2. \A m \in manifests' : pc'[m.capture] \in {"append"} \cup Over
      BY <2>a, <2>b, <2>c, <2>1, CaptureAssumption DEF DiskInv, Over, TypeOK
    <3>3. \A m, n \in manifests' : m.capture = n.capture => m = n
      BY <2>a, <2>b, <2>c, <2>1, CaptureAssumption DEF DiskInv, TypeOK
    <3>4. \A d \in Captures : (pc[d] = "response" /\ HasBody(d, "request") => Sent[d] \in blobs)'
      BY <2>a, <2>b, <2>c, <2>1, CaptureAssumption DEF DiskInv, HasBody, BodyOf, Saving, Sides,
         TypeOK
    <3>5. \A d \in Captures : (pc[d] = "manifest" =>
            \A s \in Sides : HasBody(d, s) => BodyOf(d, s) \in blobs)'
      BY <2>a, <2>b, <2>c, <2>1, CaptureAssumption DEF DiskInv, HasBody, BodyOf, Saving, Sides,
         TypeOK
    <3>6. \A d \in Captures : (pc[d] = "append" => \E m \in manifests : m.capture = d)'
      BY <2>a, <2>b, <2>c, <2>1, CaptureAssumption DEF DiskInv, Saving, Sides, TypeOK
    <3>7. (clearPC \in {"exchanges", "blobs"} => index = <<>>)'
      BY <2>a, <2>b, <2>c, <2>1, CaptureAssumption DEF DiskInv, TypeOK
    <3>8. (clearPC = "blobs" => manifests = {})'
      BY <2>a, <2>b, <2>c, <2>1, CaptureAssumption DEF DiskInv, TypeOK
    <3> QED  BY <3>1, <3>2, <3>3, <3>4, <3>5, <3>6, <3>7, <3>8 DEF DiskInv
  <2>8. IndexInv'
    <3>1. (torn => index # <<>> /\ ~index[Len(index)].whole)'
      BY <2>a, <2>b, <2>c, <2>1, LineTyped DEF IndexInv, TypeOK, LockInv, Over
    <3>2. \A i \in DOMAIN index' : (result[index[i].capture] # "none")'
      BY <2>a, <2>b, <2>c, <2>1, LineTyped DEF IndexInv, TypeOK, LockInv, Over
    <3>3. \A i, j \in DecodedLines' : (index[i].capture = index[j].capture => i = j)'
      BY <2>a, <2>b, <2>c, <2>1, LineTyped DEF IndexInv, DecodedLines, TypeOK, LockInv, Over
    <3>4. \A i \in DecodedLines' : (\E m \in manifests : m.capture = index[i].capture)'
      BY <2>a, <2>b, <2>c, <2>1, LineTyped DEF IndexInv, DecodedLines, TypeOK, LockInv, Over
    <3> QED  BY <3>1, <3>2, <3>3, <3>4 DEF IndexInv
  <2>9. ClearInv'
    BY <2>a, <2>b, <2>c, <2>1 DEF ClearInv, Under, DecodedLines, Saving, Sides, TypeOK
  <2> QED  BY <2>1, <2>2, <2>3, <2>4, <2>5, <2>6, <2>7, <2>8, <2>9
<1>12. ASSUME NEW c \in Captures, SaveBegins(c) PROVE StoreInv'
  <2>1. TypeOK'
    BY <1>12 DEF TypeOK, Answers, Saving, Sides, SaveBegins, Goto
  <2>2. LockInv'
    BY <1>12, CaptureAssumption DEF LockInv, Over, Saving, Sides, TypeOK, SaveBegins, Goto
  <2>3. OnceInv'
    BY <1>12 DEF OnceInv, Saving, Sides, TypeOK, SaveBegins, Goto
  <2>4. StageInv'
    BY <1>12 DEF StageInv, Saving, Sides, TypeOK, SaveBegins, Goto
  <2>5. FilterInv'
    BY <1>12 DEF FilterInv, Saving, Sides, TypeOK, SaveBegins, Goto
  <2>6. AdapterInv'
    BY <1>12 DEF AdapterInv, Saving, Sides, TypeOK, SaveBegins, Goto
  <2>7. DiskInv'
    BY <1>12 DEF DiskInv, HasBody, BodyOf, Over, Saving, Sides, TypeOK, SaveBegins, Goto
  <2>8. IndexInv'
    BY <1>12 DEF IndexInv, DecodedLines, TypeOK, SaveBegins, Goto
  <2>9. ClearInv'
    BY <1>12 DEF ClearInv, Under, DecodedLines, Saving, Sides, TypeOK, SaveBegins, Goto
  <2> QED  BY <2>1, <2>2, <2>3, <2>4, <2>5, <2>6, <2>7, <2>8, <2>9
<1>13. ASSUME NEW c \in Captures, BodyStands(c) PROVE StoreInv'
  <2>a. \A d \in Captures : d # c => pc'[d] = pc[d]
    BY <1>13 DEF BodyStands, After, Goto, Sides, TypeOK
  <2>b. /\ HasBody(c, pc[c]) => BodyOf(c, pc[c]) \in blobs
        /\ \/ pc[c] = "request" /\ pc'[c] = "response"
           \/ pc[c] = "response" /\ pc'[c] = "manifest"
    BY <1>13 DEF BodyStands, After, Goto, Sides, TypeOK
  <2>c. UNCHANGED <<debug, kind, up, mu, now, clearedAt, clearPC, boundary, adapter, result,
                    started, answer, staged, spoiled, once, bodyClosed, running, staging,
                    temps, blobs, manifests, index, torn, troubles>>
    BY <1>13 DEF BodyStands
  <2>1. TypeOK'
    BY <1>13 DEF TypeOK, Answers, Saving, Sides, BodyStands, Goto, After
  <2>2. LockInv'
    BY <2>a, <2>b, <2>c, <2>1, CaptureAssumption DEF LockInv, Over, Saving, Sides, TypeOK
  <2>3. OnceInv'
    BY <2>a, <2>b, <2>c, <2>1 DEF OnceInv, Saving, Sides, TypeOK
  <2>4. StageInv'
    BY <2>a, <2>b, <2>c, <2>1 DEF StageInv, Saving, Sides, TypeOK
  <2>5. FilterInv'
    BY <2>a, <2>b, <2>c, <2>1 DEF FilterInv, Saving, Sides, TypeOK
  <2>6. AdapterInv'
    BY <2>a, <2>b, <2>c, <2>1 DEF AdapterInv, Saving, Sides, TypeOK
  <2>7. DiskInv'
    <3>1. \A m \in manifests' : m.bodies \subseteq blobs'
      BY <2>a, <2>b, <2>c, <2>1, CaptureAssumption DEF DiskInv, TypeOK, Saving
    <3>2. \A m \in manifests' : pc'[m.capture] \in {"append"} \cup Over
      BY <2>a, <2>b, <2>c, <2>1, CaptureAssumption DEF DiskInv, Over, TypeOK, Saving
    <3>3. \A m, n \in manifests' : m.capture = n.capture => m = n
      BY <2>a, <2>b, <2>c, <2>1, CaptureAssumption DEF DiskInv, TypeOK, Saving
    <3>4. \A d \in Captures : (pc[d] = "response" /\ HasBody(d, "request") => Sent[d] \in blobs)'
      BY <2>a, <2>b, <2>c, <2>1, CaptureAssumption DEF DiskInv, HasBody, BodyOf, Saving, Sides,
         TypeOK
    <3>5. \A d \in Captures : (pc[d] = "manifest" =>
            \A s \in Sides : HasBody(d, s) => BodyOf(d, s) \in blobs)'
      BY <2>a, <2>b, <2>c, <2>1, CaptureAssumption DEF DiskInv, HasBody, BodyOf, Saving, Sides,
         TypeOK
    <3>6. \A d \in Captures : (pc[d] = "append" => \E m \in manifests : m.capture = d)'
      BY <2>a, <2>b, <2>c, <2>1, CaptureAssumption DEF DiskInv, Saving, Sides, TypeOK
    <3>7. (clearPC \in {"exchanges", "blobs"} => index = <<>>)'
      BY <2>a, <2>b, <2>c, <2>1, CaptureAssumption DEF DiskInv, TypeOK, Saving
    <3>8. (clearPC = "blobs" => manifests = {})'
      BY <2>a, <2>b, <2>c, <2>1, CaptureAssumption DEF DiskInv, TypeOK, Saving
    <3> QED  BY <3>1, <3>2, <3>3, <3>4, <3>5, <3>6, <3>7, <3>8 DEF DiskInv
  <2>8. IndexInv'
    BY <2>a, <2>b, <2>c, <2>1 DEF IndexInv, DecodedLines, TypeOK
  <2>9. ClearInv'
    BY <2>a, <2>b, <2>c, <2>1 DEF ClearInv, Under, DecodedLines, Saving, Sides, TypeOK
  <2> QED  BY <2>1, <2>2, <2>3, <2>4, <2>5, <2>6, <2>7, <2>8, <2>9
<1>14. ASSUME NEW c \in Captures, WriteTemp(c) PROVE StoreInv'
  <2>1. TypeOK'
    BY <1>14 DEF TypeOK, Answers, Saving, Sides, WriteTemp
  <2>2. LockInv' /\ OnceInv' /\ StageInv' /\ FilterInv' /\ AdapterInv' /\ DiskInv' /\ IndexInv' /\
     ClearInv'
    BY <1>14 DEF LockInv, Over, Saving, Sides, OnceInv, StageInv, FilterInv, AdapterInv,
       DiskInv, HasBody, BodyOf, IndexInv, DecodedLines, ClearInv, Under, WriteTemp
  <2> QED  BY <2>1, <2>2
<1>15. ASSUME NEW c \in Captures, Rename(c) PROVE StoreInv'
  <2>a. \A d \in Captures : d # c => pc'[d] = pc[d]
    BY <1>15 DEF Rename, After, Goto, Sides, TypeOK
  <2>b. \/ /\ pc[c] = "manifest" /\ pc'[c] = "append" /\ blobs' = blobs
           /\ manifests' = manifests \cup {[capture |-> c, bodies |-> Bodies(c)]}
        \/ /\ \/ pc[c] = "request" /\ pc'[c] = "response"
              \/ pc[c] = "response" /\ pc'[c] = "manifest"
           /\ blobs' = blobs \cup {BodyOf(c, pc[c])} /\ manifests' = manifests
    BY <1>15 DEF Rename, After, Goto, Sides, TypeOK
  <2>c. UNCHANGED <<debug, kind, up, mu, now, clearedAt, clearPC, boundary, adapter, result,
                    started, answer, staged, spoiled, once, bodyClosed, running, staging,
                    index, torn, troubles>>
    BY <1>15 DEF Rename
  <2>d. pc[c] = "manifest" => Bodies(c) \subseteq blobs
    BY DEF DiskInv, Bodies, Sides
  <2>1. TypeOK'
    <3>1. BodyOf(c, "request") \in Contents /\ BodyOf(c, "response") \in Contents
      BY CaptureAssumption DEF BodyOf
    <3>2. Bodies(c) \subseteq Contents
      BY <3>1 DEF Bodies, Sides
    <3>3. blobs' \subseteq Contents
      BY <2>b, <3>1 DEF TypeOK, Sides
    <3>4. manifests' \subseteq [capture : Captures, bodies : SUBSET Contents]
      BY <2>b, <3>2 DEF TypeOK
    <3>5. pc' \in [Captures -> {"idle", "sent", "reading", "record", "save", "cleanup",
                               "done", "dead"} \cup Saving]
      BY <1>15 DEF Rename, After, Goto, TypeOK, Saving, Sides
    <3>6. temps' \subseteq temps
      BY <1>15 DEF Rename
    <3> QED  BY <2>c, <3>3, <3>4, <3>5, <3>6 DEF TypeOK
  <2>2. LockInv'
    BY <2>a, <2>b, <2>c, <2>1, CaptureAssumption DEF LockInv, Over, Saving, Sides, TypeOK
  <2>3. OnceInv'
    BY <2>a, <2>b, <2>c, <2>1 DEF OnceInv, Saving, Sides, TypeOK
  <2>4. StageInv'
    BY <2>a, <2>b, <2>c, <2>1 DEF StageInv, Saving, Sides, TypeOK
  <2>5. FilterInv'
    BY <2>a, <2>b, <2>c, <2>1 DEF FilterInv, Saving, Sides, TypeOK
  <2>6. AdapterInv'
    BY <2>a, <2>b, <2>c, <2>1 DEF AdapterInv, Saving, Sides, TypeOK
  <2>7. DiskInv'
    <3>1. clearPC = "idle" /\ clearPC' = "idle"
      BY <2>b, <2>c, CaptureAssumption DEF LockInv, Saving
    <3>2. \A d \in Captures, s \in Sides : HasBody(d, s)' = HasBody(d, s)
      BY <2>c DEF HasBody
    <3>3. CASE pc[c] = "manifest"
      <4> DEFINE new == [capture |-> c, bodies |-> Bodies(c)]
      <4>1. new.capture = c /\ new.bodies \subseteq blobs'
        BY <2>b, <2>d, <3>3
      <4>2. manifests' = manifests \cup {new} /\ blobs' = blobs /\ pc'[c] = "append"
        BY <2>b, <3>3
      <4>3. \A m \in manifests : m.capture # c
        BY <3>3 DEF DiskInv, Over
      <4> HIDE DEF new
      <4>4. \A m \in manifests' : m.bodies \subseteq blobs'
        BY <4>1, <4>2 DEF DiskInv
      <4>5. \A m \in manifests' : pc'[m.capture] \in {"append"} \cup Over
        BY <2>a, <4>1, <4>2, <4>3, ManifestTyped DEF DiskInv
      <4>6. \A m, n \in manifests' : m.capture = n.capture => m = n
        BY <4>1, <4>2, <4>3 DEF DiskInv
      <4>7. \A d \in Captures : d # c => pc'[d] = pc[d]
        BY <2>a
      <4>8. \A d \in Captures :
              /\ pc'[d] = "response" /\ HasBody(d, "request")' => Sent[d] \in blobs'
              /\ pc'[d] = "manifest" => \A s \in Sides : HasBody(d, s)' => BodyOf(d, s) \in blobs'
        BY <3>2, <4>2, <4>7 DEF DiskInv, Sides
      <4>9. \A d \in Captures : pc'[d] = "append" => \E m \in manifests' : m.capture = d
        BY <4>1, <4>2, <4>7 DEF DiskInv
      <4> QED  BY <3>1, <4>4, <4>5, <4>6, <4>8, <4>9 DEF DiskInv, BodyOf
    <3>4. CASE pc[c] # "manifest"
      <4>1. /\ manifests' = manifests /\ blobs' = blobs \cup {BodyOf(c, pc[c])}
            /\ \/ pc[c] = "request" /\ pc'[c] = "response"
               \/ pc[c] = "response" /\ pc'[c] = "manifest"
        BY <2>b, <3>4
      <4>2. \A d \in Captures : d # c => pc'[d] = pc[d]
        BY <2>a
      <4>3. \A m \in manifests' : m.bodies \subseteq blobs'
        BY <4>1 DEF DiskInv
      <4>4. \A m \in manifests' : pc'[m.capture] \in {"append"} \cup Over
        BY <4>1, <4>2, ManifestTyped DEF DiskInv, Over
      <4>5. \A m, n \in manifests' : m.capture = n.capture => m = n
        BY <4>1 DEF DiskInv
      <4>6. \A d \in Captures :
              /\ pc'[d] = "response" /\ HasBody(d, "request")' => Sent[d] \in blobs'
              /\ pc'[d] = "manifest" => \A s \in Sides : HasBody(d, s)' => BodyOf(d, s) \in blobs'
        BY <3>2, <4>1, <4>2 DEF DiskInv, Sides, BodyOf
      <4>7. \A d \in Captures : pc'[d] = "append" => \E m \in manifests' : m.capture = d
        BY <4>1, <4>2 DEF DiskInv
      <4> QED  BY <3>1, <4>3, <4>4, <4>5, <4>6, <4>7 DEF DiskInv, BodyOf
    <3> QED  BY <3>3, <3>4
  <2>8. IndexInv'
    BY <2>a, <2>b, <2>c, <2>1 DEF IndexInv, DecodedLines, TypeOK
  <2>9. ClearInv'
    BY <2>a, <2>b, <2>c, <2>1 DEF ClearInv, Under, DecodedLines, Saving, Sides, TypeOK
  <2> QED  BY <2>1, <2>2, <2>3, <2>4, <2>5, <2>6, <2>7, <2>8, <2>9
<1>16. ASSUME NEW c \in Captures, AppendIndex(c) PROVE StoreInv'
  <2>a. \A d \in Captures : d # c => pc'[d] = pc[d] /\ result'[d] = result[d]
    BY <1>16 DEF AppendIndex, LockInv, Saving, End, Goto, TypeOK
  <2>b. /\ pc[c] = "append" /\ pc'[c] = "cleanup" /\ result'[c] = "saved"
        /\ mu' = None /\ mu = c /\ index' = Line(c, TRUE) /\ ~torn'
    BY <1>16 DEF AppendIndex, LockInv, Saving, End, Goto, TypeOK
  <2>c. UNCHANGED <<debug, kind, up, now, clearedAt, clearPC, boundary, adapter, started,
                    answer, staged, spoiled, once, bodyClosed, running, staging, temps, blobs,
                    manifests, troubles>>
    BY <1>16 DEF AppendIndex
  <2>d. /\ \A i \in DOMAIN index' :
             (i \in DOMAIN index /\ index'[i] = index[i]) \/ index'[i].capture = c
        /\ \A i \in DecodedLines' :
             \/ i \in DecodedLines /\ index'[i] = index[i]
             \/ i = Len(index) + 1 /\ index'[i].capture = c
    <3> DEFINE L == Line(c, TRUE)
    <3>1. index' = L
      BY <2>b
    <3>2. /\ \A i \in DOMAIN L : (i \in DOMAIN index /\ L[i] = index[i]) \/ L[i].capture = c
          /\ \A i \in DOMAIN L : L[i].whole =>
               \/ i \in DecodedLines /\ L[i] = index[i]
               \/ i = Len(index) + 1 /\ L[i].capture = c
      BY LineWritten
    <3> HIDE DEF L
    <3>3. DecodedLines' = {i \in DOMAIN L : L[i].whole}
      BY <3>1 DEF DecodedLines
    <3> QED  BY <3>1, <3>2, <3>3
  <2>1. TypeOK'
    <3>1. index' \in Seq([capture : Captures, whole : BOOLEAN])
      BY <2>b, LineWritten
    <3>2. /\ pc' \in [Captures -> {"idle", "sent", "reading", "record", "save", "cleanup",
                                  "done", "dead"} \cup Saving]
          /\ result' \in [Captures -> {"none", "saved", "dropped", "skipped", "unsaved",
                                      "refused", "error", "crashed"}]
      BY <1>16 DEF AppendIndex, End, Goto, TypeOK
    <3>3. torn' \in BOOLEAN
      BY <1>16, Zenon DEF AppendIndex
    <3> QED  BY <2>b, <2>c, <3>1, <3>2, <3>3 DEF TypeOK
  <2>2. LockInv'
    <3>1. \A d \in Captures : (pc[d] \in Saving <=> mu = d)'
      BY <2>a, <2>b, <2>c, <2>1, CaptureAssumption DEF LockInv, Saving, Sides, TypeOK
    <3>2. (mu = Clearer <=> clearPC # "idle")'
      BY <2>a, <2>b, <2>c, <2>1, CaptureAssumption DEF LockInv, TypeOK, Saving
    <3>3. (~up => mu = None /\ \A d \in Captures : pc[d] \in {"idle", "done", "dead"})'
      BY <2>a, <2>b, <2>c, <2>1, CaptureAssumption DEF LockInv, Saving, Sides, TypeOK
    <3>4. \A d \in Captures : (result[d] = "none" <=> pc[d] \notin Over)'
      BY <2>a, <2>b, <2>c, <2>1, CaptureAssumption DEF LockInv, Over, TypeOK, Saving
    <3> QED  BY <3>1, <3>2, <3>3, <3>4 DEF LockInv
  <2>3. OnceInv'
    BY <2>a, <2>b, <2>c, <2>1 DEF OnceInv, Saving, Sides, TypeOK
  <2>4. StageInv'
    BY <2>a, <2>b, <2>c, <2>1 DEF StageInv, Saving, Sides, TypeOK
  <2>5. FilterInv'
    BY <2>a, <2>b, <2>c, <2>1 DEF FilterInv, Saving, Sides, TypeOK
  <2>6. AdapterInv'
    BY <2>a, <2>b, <2>c, <2>1 DEF AdapterInv, Saving, Sides, TypeOK
  <2>7. DiskInv'
    <3>1. \A m \in manifests' : m.bodies \subseteq blobs'
      BY <2>a, <2>b, <2>c, <2>1, CaptureAssumption, ManifestTyped DEF DiskInv, TypeOK, LockInv
    <3>2. \A m \in manifests' : pc'[m.capture] \in {"append"} \cup Over
      BY <2>a, <2>b, <2>c, <2>1, CaptureAssumption, ManifestTyped DEF DiskInv, Over, TypeOK,
         LockInv
    <3>3. \A m, n \in manifests' : m.capture = n.capture => m = n
      BY <2>a, <2>b, <2>c, <2>1, CaptureAssumption, ManifestTyped DEF DiskInv, TypeOK, LockInv
    <3>4. \A d \in Captures : (pc[d] = "response" /\ HasBody(d, "request") => Sent[d] \in blobs)'
      BY <2>a, <2>b, <2>c, <2>1, CaptureAssumption, ManifestTyped DEF DiskInv, HasBody, BodyOf,
         Saving, Sides, TypeOK, LockInv
    <3>5. \A d \in Captures : (pc[d] = "manifest" =>
            \A s \in Sides : HasBody(d, s) => BodyOf(d, s) \in blobs)'
      BY <2>a, <2>b, <2>c, <2>1, CaptureAssumption, ManifestTyped DEF DiskInv, HasBody, BodyOf,
         Saving, Sides, TypeOK, LockInv
    <3>6. \A d \in Captures : (pc[d] = "append" => \E m \in manifests : m.capture = d)'
      BY <2>a, <2>b, <2>c, <2>1, CaptureAssumption, ManifestTyped DEF DiskInv, Saving, Sides,
         TypeOK, LockInv
    <3>7. (clearPC \in {"exchanges", "blobs"} => index = <<>>)'
      BY <2>a, <2>b, <2>c, <2>1, CaptureAssumption, ManifestTyped DEF DiskInv, TypeOK, LockInv
    <3>8. (clearPC = "blobs" => manifests = {})'
      BY <2>a, <2>b, <2>c, <2>1, CaptureAssumption, ManifestTyped DEF DiskInv, TypeOK, LockInv
    <3> QED  BY <3>1, <3>2, <3>3, <3>4, <3>5, <3>6, <3>7, <3>8 DEF DiskInv
  <2>8. IndexInv'
    <3>1. result'[c] # "none" /\ \A d \in Captures : d # c => result'[d] = result[d]
      BY <2>a, <2>b
    <3>2. manifests' = manifests /\ \E m \in manifests : m.capture = c
      BY <2>b, <2>c DEF DiskInv
    <3>3. \A i \in DecodedLines : index[i].capture # c /\ i \in DOMAIN index
      BY <2>b DEF IndexInv, DecodedLines, LockInv, Over, Saving
    <3>4. \A i \in DOMAIN index' : result'[index'[i].capture] # "none"
      BY <2>d, <3>1, LineTyped DEF IndexInv
    <3>5. \A i, j \in DecodedLines' : index'[i].capture = index'[j].capture => i = j
      BY <2>d, <3>3 DEF IndexInv
    <3>6. \A i \in DecodedLines' : \E m \in manifests' : m.capture = index'[i].capture
      BY <2>d, <3>2 DEF IndexInv
    <3> QED  BY <2>b, <3>4, <3>5, <3>6 DEF IndexInv
  <2>9. ClearInv'
    <3>1. \A d \in Captures : (Under(d) => started[d] >= boundary \/ clearedAt >= boundary)'
      BY <2>a, <2>b, <2>c, <2>1, <2>d, LineTyped DEF ClearInv, Under, Saving, Sides, TypeOK
    <3>2. \A d \in Captures : (pc[d] \in Saving => started[d] >= boundary)'
      BY <2>a, <2>b, <2>c, <2>1, <2>d, LineTyped DEF ClearInv, Under, Saving, Sides, TypeOK
    <3>3. \A i \in DecodedLines' : (started[index[i].capture] >= boundary)'
      BY <2>a, <2>b, <2>c, <2>1, <2>d, LineTyped DEF ClearInv, DecodedLines, TypeOK, Saving
    <3> QED  BY <3>1, <3>2, <3>3 DEF ClearInv
  <2> QED  BY <2>1, <2>2, <2>3, <2>4, <2>5, <2>6, <2>7, <2>8, <2>9
<1>17. ASSUME NEW c \in Captures, SaveFails(c) PROVE StoreInv'
  <2>a. \A d \in Captures : d # c => pc'[d] = pc[d] /\ result'[d] = result[d]
    BY <1>17 DEF SaveFails, LockInv, End, Goto, TypeOK
  <2>b. /\ pc[c] \in Saving /\ pc'[c] = "cleanup" /\ result'[c] = "error"
        /\ mu' = None /\ mu = c /\ temps' \subseteq temps
        /\ UNCHANGED <<index, torn>> \/ (index' = Line(c, FALSE) /\ torn')
    BY <1>17 DEF SaveFails, LockInv, End, Goto, TypeOK
  <2>c. UNCHANGED <<debug, kind, up, now, clearedAt, clearPC, boundary, adapter, started,
                    answer, staged, spoiled, once, bodyClosed, running, staging, blobs,
                    manifests>>
    BY <1>17 DEF SaveFails
  <2>d. /\ torn' => index' # <<>> /\ ~index'[Len(index')].whole
        /\ \A i \in DOMAIN index' :
             (i \in DOMAIN index /\ index'[i] = index[i]) \/ index'[i].capture = c
        /\ \A i \in DecodedLines' : i \in DecodedLines /\ index'[i] = index[i]
    <3>1. CASE UNCHANGED <<index, torn>>
      BY <3>1 DEF DecodedLines, IndexInv
    <3>2. CASE index' = Line(c, FALSE) /\ torn'
      BY <3>2, LineWritten DEF DecodedLines
    <3> QED  BY <2>b, <3>1, <3>2
  <2>1. TypeOK'
    <3>1. index' \in Seq([capture : Captures, whole : BOOLEAN]) /\ torn' \in BOOLEAN
      <4>1. CASE UNCHANGED <<index, torn>>
        BY <4>1 DEF TypeOK
      <4>2. CASE index' = Line(c, FALSE) /\ torn' = TRUE
        BY <4>2, LineWritten
      <4> QED  BY <1>17, <4>1, <4>2 DEF SaveFails
    <3>2. /\ pc' \in [Captures -> {"idle", "sent", "reading", "record", "save", "cleanup",
                                  "done", "dead"} \cup Saving]
          /\ result' \in [Captures -> {"none", "saved", "dropped", "skipped", "unsaved",
                                      "refused", "error", "crashed"}]
      BY <1>17 DEF SaveFails, End, Goto, TypeOK
    <3>3. troubles' \in 0..MaxTroubles
      BY <1>17, CaptureAssumption DEF SaveFails, Trouble, TypeOK
    <3> QED  BY <2>b, <2>c, <3>1, <3>2, <3>3 DEF TypeOK
  <2>2. LockInv'
    <3>1. \A d \in Captures : d # c =>
            pc'[d] = pc[d] /\ result'[d] = result[d] /\ pc[d] \notin Saving
      BY <2>a, <2>b DEF LockInv
    <3>2. /\ mu = c /\ mu' = None /\ pc'[c] = "cleanup" /\ result'[c] = "error"
          /\ None \notin Captures /\ Clearer \notin Captures /\ None # Clearer
      BY <2>b, CaptureAssumption
    <3>3. up' = up /\ clearPC' = clearPC
      BY <2>c
    <3> QED  BY <3>1, <3>2, <3>3 DEF LockInv, Saving, Over
  <2>3. OnceInv'
    BY <2>a, <2>b, <2>c, <2>1 DEF OnceInv, Saving, Sides, TypeOK
  <2>4. StageInv'
    BY <2>a, <2>b, <2>c, <2>1 DEF StageInv, Saving, Sides, TypeOK
  <2>5. FilterInv'
    BY <2>a, <2>b, <2>c, <2>1 DEF FilterInv, Saving, Sides, TypeOK
  <2>6. AdapterInv'
    BY <2>a, <2>b, <2>c, <2>1 DEF AdapterInv, Saving, Sides, TypeOK
  <2>7. DiskInv'
    <3>1. \A m \in manifests' : m.bodies \subseteq blobs'
      BY <2>a, <2>b, <2>c, <2>1, CaptureAssumption, ManifestTyped DEF DiskInv, TypeOK, LockInv
    <3>2. \A m \in manifests' : pc'[m.capture] \in {"append"} \cup Over
      BY <2>a, <2>b, <2>c, <2>1, CaptureAssumption, ManifestTyped DEF DiskInv, Over, TypeOK,
         LockInv
    <3>3. \A m, n \in manifests' : m.capture = n.capture => m = n
      BY <2>a, <2>b, <2>c, <2>1, CaptureAssumption, ManifestTyped DEF DiskInv, TypeOK, LockInv
    <3>4. \A d \in Captures : (pc[d] = "response" /\ HasBody(d, "request") => Sent[d] \in blobs)'
      BY <2>a, <2>b, <2>c, <2>1, CaptureAssumption, ManifestTyped DEF DiskInv, HasBody, BodyOf,
         Saving, Sides, TypeOK, LockInv
    <3>5. \A d \in Captures : (pc[d] = "manifest" =>
            \A s \in Sides : HasBody(d, s) => BodyOf(d, s) \in blobs)'
      BY <2>a, <2>b, <2>c, <2>1, CaptureAssumption, ManifestTyped DEF DiskInv, HasBody, BodyOf,
         Saving, Sides, TypeOK, LockInv
    <3>6. \A d \in Captures : (pc[d] = "append" => \E m \in manifests : m.capture = d)'
      BY <2>a, <2>b, <2>c, <2>1, CaptureAssumption, ManifestTyped DEF DiskInv, Saving, Sides,
         TypeOK, LockInv
    <3>7. (clearPC \in {"exchanges", "blobs"} => index = <<>>)'
      BY <2>a, <2>b, <2>c, <2>1, CaptureAssumption, ManifestTyped DEF DiskInv, TypeOK, LockInv
    <3>8. (clearPC = "blobs" => manifests = {})'
      BY <2>a, <2>b, <2>c, <2>1, CaptureAssumption, ManifestTyped DEF DiskInv, TypeOK, LockInv
    <3> QED  BY <3>1, <3>2, <3>3, <3>4, <3>5, <3>6, <3>7, <3>8 DEF DiskInv
  <2>8. IndexInv'
    <3>1. result'[c] # "none" /\ \A d \in Captures : d # c => result'[d] = result[d]
      BY <2>a, <2>b
    <3>2. manifests' = manifests 
      BY <2>b, <2>c DEF DiskInv
    <3>3. \A i \in DecodedLines : index[i].capture # c /\ i \in DOMAIN index
      BY <2>b DEF IndexInv, DecodedLines, LockInv, Over, Saving
    <3>4. \A i \in DOMAIN index' : result'[index'[i].capture] # "none"
      BY <2>d, <3>1, LineTyped DEF IndexInv
    <3>5. \A i, j \in DecodedLines' : index'[i].capture = index'[j].capture => i = j
      BY <2>d, <3>3 DEF IndexInv
    <3>6. \A i \in DecodedLines' : \E m \in manifests' : m.capture = index'[i].capture
      BY <2>d, <3>2 DEF IndexInv
    <3> QED  BY <2>d, <3>4, <3>5, <3>6 DEF IndexInv
  <2>9. ClearInv'
    <3>1. \A d \in Captures : (Under(d) => started[d] >= boundary \/ clearedAt >= boundary)'
      BY <2>a, <2>b, <2>c, <2>1, <2>d, LineTyped DEF ClearInv, Under, Saving, Sides, TypeOK
    <3>2. \A d \in Captures : (pc[d] \in Saving => started[d] >= boundary)'
      BY <2>a, <2>b, <2>c, <2>1, <2>d, LineTyped DEF ClearInv, Under, Saving, Sides, TypeOK
    <3>3. \A i \in DecodedLines' : (started[index[i].capture] >= boundary)'
      BY <2>a, <2>b, <2>c, <2>1, <2>d, LineTyped DEF ClearInv, DecodedLines, TypeOK, Saving
    <3> QED  BY <3>1, <3>2, <3>3 DEF ClearInv
  <2> QED  BY <2>1, <2>2, <2>3, <2>4, <2>5, <2>6, <2>7, <2>8, <2>9
<1>18. ASSUME NEW c \in Captures, CleanUp(c) PROVE StoreInv'
  <2>1. TypeOK'
    BY <1>18 DEF TypeOK, Answers, Saving, Sides, CleanUp, Goto
  <2>2. LockInv'
    BY <1>18, CaptureAssumption DEF LockInv, Over, Saving, Sides, TypeOK, CleanUp, Goto
  <2>3. OnceInv'
    BY <1>18 DEF OnceInv, Saving, Sides, TypeOK, CleanUp, Goto
  <2>4. StageInv'
    BY <1>18 DEF StageInv, Saving, Sides, TypeOK, CleanUp, Goto
  <2>5. FilterInv'
    BY <1>18 DEF FilterInv, Saving, Sides, TypeOK, CleanUp, Goto
  <2>6. AdapterInv'
    BY <1>18 DEF AdapterInv, Saving, Sides, TypeOK, CleanUp, Goto
  <2>7. DiskInv'
    BY <1>18, CaptureAssumption DEF DiskInv, HasBody, BodyOf, Over, Saving, Sides, TypeOK,
       CleanUp, Goto, LockInv, OnceInv
  <2>8. IndexInv'
    BY <1>18 DEF IndexInv, DecodedLines, TypeOK, CleanUp, Goto
  <2>9. ClearInv'
    BY <1>18 DEF ClearInv, Under, DecodedLines, Saving, Sides, TypeOK, CleanUp, Goto
  <2> QED  BY <2>1, <2>2, <2>3, <2>4, <2>5, <2>6, <2>7, <2>8, <2>9
<1>19. CASE StopCapture
  <2>1. TypeOK'
    BY <1>19 DEF TypeOK, Answers, Saving, Sides, StopCapture
  <2>2. AdapterInv'
    BY <1>19 DEF AdapterInv, Saving, Sides, TypeOK, StopCapture
  <2>3. LockInv' /\ OnceInv' /\ StageInv' /\ FilterInv' /\ DiskInv' /\ IndexInv' /\ ClearInv'
    BY <1>19 DEF LockInv, Over, Saving, Sides, OnceInv, StageInv, FilterInv, DiskInv, HasBody,
       BodyOf, IndexInv, DecodedLines, ClearInv, Under, StopCapture
  <2> QED  BY <2>1, <2>2, <2>3
<1>20. CASE CloseBrowser
  <2>1. TypeOK'
    BY <1>20 DEF TypeOK, Answers, Saving, Sides, CloseBrowser
  <2>2. AdapterInv'
    BY <1>20 DEF AdapterInv, Saving, Sides, TypeOK, CloseBrowser
  <2>3. LockInv' /\ OnceInv' /\ StageInv' /\ FilterInv' /\ DiskInv' /\ IndexInv' /\ ClearInv'
    BY <1>20 DEF LockInv, Over, Saving, Sides, OnceInv, StageInv, FilterInv, DiskInv, HasBody,
       BodyOf, IndexInv, DecodedLines, ClearInv, Under, CloseBrowser
  <2> QED  BY <2>1, <2>2, <2>3
<1>21. CASE ClearBegins
  <2>1. TypeOK'
    BY <1>21, CaptureAssumption DEF TypeOK, Answers, Saving, Sides, ClearBegins
  <2>2. LockInv'
    BY <1>21, CaptureAssumption DEF LockInv, Over, Saving, Sides, TypeOK, ClearBegins
  <2>3. DiskInv'
    BY <1>21 DEF DiskInv, HasBody, BodyOf, Over, Saving, Sides, TypeOK, ClearBegins
  <2>4. ClearInv'
    BY <1>21 DEF ClearInv, Under, DecodedLines, Saving, Sides, TypeOK, ClearBegins
  <2>5. OnceInv' /\ StageInv' /\ FilterInv' /\ AdapterInv' /\ IndexInv'
    BY <1>21 DEF OnceInv, Saving, Sides, StageInv, FilterInv, AdapterInv, IndexInv,
       DecodedLines, ClearBegins
  <2> QED  BY <2>1, <2>2, <2>3, <2>4, <2>5
<1>22. CASE ClearIndex
  <2>1. TypeOK'
    BY <1>22, EmptySeq DEF TypeOK, Answers, Saving, Sides, ClearIndex
  <2>2. LockInv'
    BY <1>22, CaptureAssumption DEF LockInv, Over, Saving, Sides, TypeOK, ClearIndex
  <2>3. DiskInv'
    BY <1>22 DEF DiskInv, HasBody, BodyOf, Over, Saving, Sides, TypeOK, ClearIndex
  <2>4. IndexInv'
    BY <1>22 DEF IndexInv, DecodedLines, TypeOK, ClearIndex
  <2>5. ClearInv'
    BY <1>22 DEF ClearInv, Under, DecodedLines, Saving, Sides, TypeOK, ClearIndex
  <2>6. OnceInv' /\ StageInv' /\ FilterInv' /\ AdapterInv'
    BY <1>22 DEF OnceInv, Saving, Sides, StageInv, FilterInv, AdapterInv, ClearIndex
  <2> QED  BY <2>1, <2>2, <2>3, <2>4, <2>5, <2>6
<1>23. CASE ClearExchanges
  <2>1. TypeOK'
    BY <1>23 DEF TypeOK, Answers, Saving, Sides, ClearExchanges
  <2>2. LockInv'
    BY <1>23, CaptureAssumption DEF LockInv, Over, Saving, Sides, TypeOK, ClearExchanges
  <2>3. DiskInv'
    BY <1>23, CaptureAssumption DEF DiskInv, HasBody, BodyOf, Over, Saving, Sides, TypeOK,
       ClearExchanges, LockInv, OnceInv
  <2>4. IndexInv'
    BY <1>23, CaptureAssumption DEF IndexInv, DecodedLines, TypeOK, ClearExchanges, LockInv,
       Over, DiskInv, Line, Saving
  <2>5. OnceInv' /\ StageInv' /\ FilterInv' /\ AdapterInv' /\ ClearInv'
    BY <1>23 DEF OnceInv, Saving, Sides, StageInv, FilterInv, AdapterInv, ClearInv, Under,
       DecodedLines, ClearExchanges
  <2> QED  BY <2>1, <2>2, <2>3, <2>4, <2>5
<1>24. CASE ClearBlobs
  <2>1. TypeOK'
    BY <1>24 DEF TypeOK, Answers, Saving, Sides, ClearBlobs
  <2>2. LockInv'
    BY <1>24, CaptureAssumption DEF LockInv, Over, Saving, Sides, TypeOK, ClearBlobs
  <2>3. DiskInv'
    BY <1>24, CaptureAssumption DEF DiskInv, HasBody, BodyOf, Over, Saving, Sides, TypeOK,
       ClearBlobs, LockInv, OnceInv
  <2>4. ClearInv'
    BY <1>24, CaptureAssumption DEF ClearInv, Under, DecodedLines, Saving, Sides, TypeOK,
       ClearBlobs, LockInv, IndexInv, DiskInv, Line
  <2>5. OnceInv' /\ StageInv' /\ FilterInv' /\ AdapterInv' /\ IndexInv'
    BY <1>24 DEF OnceInv, Saving, Sides, StageInv, FilterInv, AdapterInv, IndexInv,
       DecodedLines, ClearBlobs
  <2> QED  BY <2>1, <2>2, <2>3, <2>4, <2>5
<1>25. CASE ClearFails
  <2>1. TypeOK'
    <3>1. manifests' \subseteq manifests /\ blobs' \subseteq blobs
      BY <1>25 DEF ClearFails
    <3>2. troubles' \in 0..MaxTroubles
      BY <1>25, CaptureAssumption DEF ClearFails, Trouble, TypeOK
    <3>3. /\ clearPC' = "idle" /\ mu' = None
          /\ UNCHANGED <<debug, kind, up, now, clearedAt, boundary, adapter, exchange,
                         staging, temps, index, torn>>
      BY <1>25 DEF ClearFails
    <3> QED  BY <3>1, <3>2, <3>3 DEF TypeOK
  <2>2. LockInv'
    BY <1>25, CaptureAssumption DEF LockInv, Over, Saving, Sides, TypeOK, ClearFails, Trouble
  <2>3. DiskInv'
    BY <1>25, CaptureAssumption DEF DiskInv, HasBody, BodyOf, Over, Saving, Sides, TypeOK,
       ClearFails, Trouble, LockInv, OnceInv
  <2>4. IndexInv'
    BY <1>25, CaptureAssumption DEF IndexInv, DecodedLines, TypeOK, ClearFails, Trouble,
       LockInv, Over, DiskInv, Line, Saving
  <2>5. OnceInv' /\ StageInv' /\ FilterInv' /\ AdapterInv' /\ ClearInv'
    BY <1>25 DEF OnceInv, Saving, Sides, StageInv, FilterInv, AdapterInv, ClearInv, Under,
       DecodedLines, ClearFails, Trouble
  <2> QED  BY <2>1, <2>2, <2>3, <2>4, <2>5
<1>26. CASE Crash
  <2>1. TypeOK'
    <3>1. troubles' \in 0..MaxTroubles
      BY <1>26, CaptureAssumption DEF Crash, Trouble, TypeOK
    <3>2. pc' \in [Captures -> {"idle", "sent", "reading", "record", "save", "cleanup",
                               "done", "dead"} \cup Saving]
      BY <1>26 DEF Crash, TypeOK
    <3>3. result' \in [Captures -> {"none", "saved", "dropped", "skipped", "unsaved",
                                   "refused", "error", "crashed"}]
      BY <1>26 DEF Crash, TypeOK
    <3>4. answer' \in [Captures -> Answers]
      BY <1>26 DEF Crash, Answers
    <3>5. /\ mu' = None /\ clearPC' = "idle" /\ clearedAt' = 0 /\ up' = FALSE
          /\ bodyClosed' \subseteq Captures
          /\ staged' = {} /\ spoiled' = {} /\ once' = {} /\ running' = {} /\ adapter' = "open"
          /\ UNCHANGED <<debug, kind, now, boundary, started, disk>>
      BY <1>26 DEF Crash
    <3>6. clearedAt' \in 0..now'
      BY <3>5, CaptureAssumption DEF TypeOK
    <3> QED  BY <3>1, <3>2, <3>3, <3>4, <3>5, <3>6 DEF TypeOK
  <2>2. LockInv'
    BY <1>26, CaptureAssumption DEF LockInv, Over, Saving, Sides, TypeOK, Crash, Trouble
  <2>3. OnceInv'
    BY <1>26 DEF OnceInv, Saving, Sides, TypeOK, Crash, Trouble
  <2>4. StageInv'
    BY <1>26 DEF StageInv, Saving, Sides, TypeOK, Crash, Trouble
  <2>5. FilterInv'
    BY <1>26 DEF FilterInv, Saving, Sides, TypeOK, Crash, Trouble
  <2>6. AdapterInv'
    BY <1>26 DEF AdapterInv, Saving, Sides, TypeOK, Crash, Trouble
  <2>7. DiskInv'
    BY <1>26 DEF DiskInv, HasBody, BodyOf, Over, Saving, Sides, TypeOK, Crash, Trouble
  <2>8. IndexInv'
    <3>1. \A d \in Captures : result[d] # "none" => result'[d] # "none"
      BY <1>26 DEF Crash, TypeOK
    <3>2. UNCHANGED <<index, torn, manifests>>
      BY <1>26 DEF Crash
    <3> QED  BY <3>1, <3>2, LineTyped DEF IndexInv, DecodedLines
  <2>9. ClearInv'
    BY <1>26 DEF ClearInv, Under, DecodedLines, Saving, Sides, TypeOK, Crash, Trouble
  <2> QED  BY <2>1, <2>2, <2>3, <2>4, <2>5, <2>6, <2>7, <2>8, <2>9
<1>27. CASE NewStore
  <2>1. TypeOK'
    BY <1>27 DEF TypeOK, Answers, Saving, Sides, NewStore
  <2>2. LockInv'
    BY <1>27, CaptureAssumption DEF LockInv, Over, Saving, Sides, TypeOK, NewStore
  <2>3. StageInv'
    BY <1>27 DEF StageInv, Saving, Sides, TypeOK, NewStore, LockInv
  <2>4. OnceInv' /\ FilterInv' /\ AdapterInv' /\ DiskInv' /\ IndexInv' /\ ClearInv'
    BY <1>27 DEF OnceInv, Saving, Sides, FilterInv, AdapterInv, DiskInv, HasBody, BodyOf, Over,
       IndexInv, DecodedLines, ClearInv, Under, NewStore
  <2> QED  BY <2>1, <2>2, <2>3, <2>4
<1>28. CASE UNCHANGED vars
  <2>1. TypeOK'
    BY <1>28 DEF TypeOK, Answers, Saving, Sides, vars
  <2>2. LockInv'
    BY <1>28, CaptureAssumption DEF LockInv, Over, Saving, Sides, TypeOK, vars
  <2>3. OnceInv'
    BY <1>28 DEF OnceInv, Saving, Sides, TypeOK, vars
  <2>4. StageInv'
    BY <1>28 DEF StageInv, Saving, Sides, TypeOK, vars
  <2>5. FilterInv'
    BY <1>28 DEF FilterInv, Saving, Sides, TypeOK, vars
  <2>6. AdapterInv'
    BY <1>28 DEF AdapterInv, Saving, Sides, TypeOK, vars
  <2>7. DiskInv'
    BY <1>28 DEF DiskInv, HasBody, BodyOf, Over, Saving, Sides, TypeOK, vars
  <2>8. IndexInv'
    BY <1>28 DEF IndexInv, DecodedLines, TypeOK, vars
  <2>9. ClearInv'
    BY <1>28 DEF ClearInv, Under, DecodedLines, Saving, Sides, TypeOK, vars
  <2> QED  BY <2>1, <2>2, <2>3, <2>4, <2>5, <2>6, <2>7, <2>8, <2>9
<1> QED
  BY <1>1, <1>2, <1>3, <1>4, <1>5, <1>6, <1>7, <1>8, <1>9, <1>10, <1>11, <1>12, <1>13, <1>14,
     <1>15, <1>16, <1>17, <1>18, <1>19, <1>20, <1>21, <1>22, <1>23, <1>24, <1>25, <1>26, <1>27,
     <1>28 DEF Next, CaptureStep, SaveStep, ClearStep

\* StoreInv holds throughout every behaviour.
LEMMA StoreInvariant == Spec => []StoreInv
BY StoreInvInit, StoreInvNext, PTL DEF Spec

-----------------------------------------------------------------------------
\* The variables of the store, its lock, its files and its writers keep their
\* types.
THEOREM TypeCorrect == Spec => []TypeOK
<1>1. StoreInv => TypeOK
  BY DEF StoreInv
<1> QED
  BY <1>1, StoreInvariant, PTL

\* What List returns comes from lines of the index that can be decoded.
LEMMA ListDecoded ==
  \A limit : \A c \in List(limit) : \E i \in DecodedLines : index[i].capture = c
BY DEF List

\* Whatever a crash, a failed write or a Clear that stops half way leaves on
\* disk, an exchange the App finds in the list has one manifest, and all the
\* bodies the manifest names are in the store.
THEOREM ListedAlwaysReadable == Spec => []ListedIsReadable
<1>1. StoreInv => ListedIsReadable
  <2> SUFFICES ASSUME StoreInv, NEW limit \in 1..Cardinality(Captures), NEW c \in List(limit)
               PROVE  \E m \in manifests : ReadExchange(c) = {m} /\ m.bodies \subseteq blobs
    BY DEF ListedIsReadable
  <2>1. PICK i \in DecodedLines : index[i].capture = c
    BY ListDecoded
  <2>2. PICK m \in manifests : m.capture = c
    BY <2>1 DEF StoreInv, IndexInv
  <2>3. \A n \in manifests : n.capture = c => n = m
    BY <2>2 DEF StoreInv, DiskInv
  <2>4. ReadExchange(c) = {m}
    BY <2>2, <2>3 DEF ReadExchange
  <2>5. m.bodies \subseteq blobs
    BY DEF StoreInv, DiskInv
  <2> QED  BY <2>4, <2>5
<1> QED
  BY <1>1, StoreInvariant, PTL

\* Nothing that started before the last Clear that returned nil is listed
\* again, whichever exchanges were in flight when Clear ran.
THEOREM ClearIsFinal == Spec => []ClearedStaysCleared
<1>1. StoreInv => ClearedStaysCleared
  <2> SUFFICES ASSUME StoreInv, NEW c \in List(Len(index))
               PROVE  started[c] >= boundary
    BY DEF ClearedStaysCleared
  <2>1. PICK i \in DecodedLines : index[i].capture = c
    BY ListDecoded
  <2> QED  BY <2>1 DEF StoreInv, ClearInv
<1> QED
  BY <1>1, StoreInvariant, PTL

\* On every path through RoundTrip, Read, Close and Save the stages of an
\* exchange are on disk while it may read them, and removed when it is over.
THEOREM StagesAreKept == Spec => []StagesLiveAsLong
<1>1. StoreInv => StagesLiveAsLong
  <2> SUFFICES ASSUME StoreInv, NEW c \in Captures, pc[c] # "dead"
               PROVE  {f \in staging : f[1] = c}
                        = IF pc[c] = "done" THEN {} ELSE {f \in staged : f[1] = c}
    BY DEF StagesLiveAsLong
  <2>1. \A f \in staging \cup staged : f = <<f[1], f[2]>> /\ f[1] \in Captures /\ f[2] \in Sides
    BY DEF StoreInv, TypeOK
  <2>2. \A s \in Sides : <<c, s>> \in staging <=> pc[c] # "done" /\ <<c, s>> \in staged
    BY DEF StoreInv, StageInv
  <2>3. \A f \in staging : f[1] = c => pc[c] # "done" /\ f \in staged
    BY <2>1, <2>2
  <2>4. \A f \in staged : f[1] = c /\ pc[c] # "done" => f \in staging
    BY <2>1, <2>2
  <2> QED  BY <2>3, <2>4
<1> QED
  BY <1>1, StoreInvariant, PTL

\* The filters of the callers leave out nothing that Save would keep, but the
\* request a page cancelled after an answer of 400 or more.
THEOREM EvidenceIsKept == Spec => []EvidenceKept
<1>1. StoreInv => EvidenceKept
  BY DEF StoreInv, FilterInv, EvidenceKept, shouldPersist
<1> QED
  BY <1>1, StoreInvariant, PTL

\* No callback of the browser reads the page or writes to the store once the
\* adapter's Close has gone on to close the browser.
THEOREM CallbacksEndFirst == Spec => []RecordedBeforeClose
<1>1. StoreInv => RecordedBeforeClose
  BY DEF StoreInv, AdapterInv, RecordedBeforeClose
<1> QED
  BY <1>1, StoreInvariant, PTL

-----------------------------------------------------------------------------
\* The refinement mapping of ImplementsLog, named.
Entries == [c \in Captures |-> Cardinality({i \in DecodedLines : index[i].capture = c})]
Settled == {c \in Captures : result[c] # "none"}

\* The empty index is the empty log.
LEMMA LogInit == Init => Log!Init
<1> SUFFICES ASSUME Init PROVE Entries = [c \in Captures |-> 0] /\ Settled = {}
  BY DEF Log!Init, Entries, Settled
<1>1. DecodedLines = {}
  BY DEF Init, DecodedLines
<1>2. \A c \in Captures : {i \in DecodedLines : index[i].capture = c} = {}
  BY <1>1
<1>3. Entries = [c \in Captures |-> 0]
  BY <1>2, FS_EmptySet DEF Entries
<1>4. Settled = {}
  BY DEF Init, Settled
<1> QED
  BY <1>3, <1>4

\* A step that keeps what can be decoded, and the result of an exchange that
\* has one, discards the exchanges it gives a result, often none.
LEMMA LogDiscard ==
  ASSUME \A c \in Captures : result[c] # "none" => result'[c] # "none",
         DecodedLines' = DecodedLines,
         \A i \in DecodedLines : index'[i].capture = index[i].capture
  PROVE  Log!Next
<1> DEFINE S == {c \in Captures : result[c] = "none" /\ result'[c] # "none"}
<1>1. S \in SUBSET Captures /\ Settled \cap S = {} /\ Settled' = Settled \cup S
  BY DEF Settled
<1>2. \A c \in Captures :
        {i \in DecodedLines' : index'[i].capture = c} = {i \in DecodedLines : index[i].capture = c}
  OBVIOUS
<1>3. Entries' = Entries
  BY <1>2 DEF Entries
<1>4. PICK T \in SUBSET Captures : Settled \cap T = {} /\ Settled' = Settled \cup T
  BY <1>1
<1>5. Log!Discard(T)
  BY <1>3, <1>4, Zenon DEF Log!Discard, Entries, Settled
<1> QED
  BY <1>5 DEF Log!Next

\* The line of the index that ends in a newline publishes the exchange.
LEMMA LogPublish ==
  ASSUME StoreInv, NEW c \in Captures, AppendIndex(c), ~torn
  PROVE  Log!Publish(c)
<1> DEFINE n == Len(index) + 1
<1> DEFINE L == Line(c, TRUE)
<1> USE DEF StoreInv
<1>1. index' = L /\ result[c] = "none" /\ result' = [result EXCEPT ![c] = "saved"]
  BY DEF AppendIndex, End, LockInv, Over
<1>2. /\ \A i \in DecodedLines : i \in DOMAIN L /\ L[i] = index[i]
      /\ \A i \in DOMAIN L : L[i].whole => i \in DecodedLines \/ i = n
      /\ n \in DOMAIN L /\ n \notin DecodedLines
      /\ L[n] = [capture |-> c, whole |-> TRUE]
  BY LineWritten
<1>3. \A i \in DecodedLines : index[i].whole /\ index[i].capture # c
  BY <1>1 DEF DecodedLines, IndexInv
<1> HIDE DEF n, L
<1>4. DecodedLines' = DecodedLines \cup {n}
  <2>1. DecodedLines' = {i \in DOMAIN L : L[i].whole}
    BY <1>1 DEF DecodedLines
  <2> QED  BY <1>2, <1>3, <2>1
<1>5. {i \in DecodedLines' : index'[i].capture = c} = {n}
  BY <1>1, <1>2, <1>3, <1>4
<1>6. \A d \in Captures \ {c} :
        {i \in DecodedLines' : index'[i].capture = d} = {i \in DecodedLines : index[i].capture = d}
  BY <1>1, <1>2, <1>4
<1>7. Entries' = [Entries EXCEPT ![c] = 1]
  <2>1. Cardinality({n}) = 1
    BY FS_Singleton
  <2>2. Cardinality({i \in DecodedLines' : index'[i].capture = c}) = 1
    BY <1>5, <2>1
  <2>3. Entries' = [d \in Captures |-> IF d = c THEN 1 ELSE Entries[d]]
    BY <1>6, <2>2 DEF Entries
  <2>4. Entries = [d \in Captures |-> Entries[d]]
    BY DEF Entries
  <2> QED  BY <2>3, <2>4
<1>8. c \notin Settled /\ Settled' = Settled \cup {c}
  BY <1>1 DEF Settled, TypeOK
<1> QED
  BY <1>7, <1>8 DEF Log!Publish, Entries, Settled

\* A step that leaves the index alone and takes no result back.
Quiet == UNCHANGED index /\ \A c \in Captures : result[c] # "none" => result'[c] # "none"

\* Every step of the store is a step of the log, or leaves the log alone.
LEMMA LogNext == StoreInv /\ [Next]_vars => [Log!Next]_(Log!vars)
<1> SUFFICES ASSUME StoreInv, [Next]_vars PROVE Log!Next
  OBVIOUS
<1> USE DEF StoreInv, disk, exchange, control
<1>1. Quiet => Log!Next
  BY LogDiscard DEF Quiet, DecodedLines
<1>2. ASSUME NEW c \in Captures, AppendIndex(c) PROVE Log!Next
  <2>1. CASE ~torn
    BY <1>2, <2>1, LogPublish DEF Log!Next
  <2>2. CASE torn
    <3> DEFINE L == Line(c, TRUE)
    <3>1. index' = L /\ \A d \in Captures : result[d] # "none" => result'[d] # "none"
      BY <1>2 DEF AppendIndex, End, TypeOK
    <3>2. /\ \A i \in DecodedLines : i \in DOMAIN L /\ L[i] = index[i]
          /\ \A i \in DOMAIN L : L[i].whole => i \in DecodedLines
      BY <2>2, LineWritten
    <3> HIDE DEF L
    <3>3. DecodedLines' = DecodedLines
      BY <3>1, <3>2 DEF DecodedLines
    <3> QED  BY <3>1, <3>2, <3>3, LogDiscard
  <2> QED  BY <2>1, <2>2
<1>3. ASSUME NEW c \in Captures, SaveFails(c) PROVE Log!Next
  <2>1. \A d \in Captures : result[d] # "none" => result'[d] # "none"
    BY <1>3 DEF SaveFails, End, TypeOK
  <2>2. CASE UNCHANGED index
    BY <1>1, <2>1, <2>2 DEF Quiet
  <2>3. CASE index' = Line(c, FALSE)
    <3> DEFINE L == Line(c, FALSE)
    <3>1. /\ \A i \in DecodedLines : i \in DOMAIN L /\ L[i] = index[i]
          /\ \A i \in DOMAIN L : L[i].whole => i \in DecodedLines
      BY LineWritten
    <3>2. index' = L
      BY <2>3
    <3> HIDE DEF L
    <3>3. DecodedLines' = DecodedLines
      BY <3>1, <3>2 DEF DecodedLines
    <3> QED  BY <2>1, <3>1, <3>2, <3>3, LogDiscard
  <2> QED  BY <1>3, <2>2, <2>3 DEF SaveFails
<1>4. CASE ClearIndex
  <2>1. DecodedLines' = {} /\ result' = result
    BY <1>4 DEF ClearIndex, DecodedLines
  <2>2. \A c \in Captures : {i \in DecodedLines' : index'[i].capture = c} = {}
    BY <2>1
  <2>3. Entries' = [c \in Captures |-> 0]
    BY <2>2, FS_EmptySet DEF Entries
  <2>4. Settled' = Settled
    BY <2>1 DEF Settled
  <2> QED  BY <2>3, <2>4 DEF Log!Next, Log!ClearAll, Entries, Settled
<1>5. ASSUME NEW c \in Captures, HTTPSend(c) \/ HTTPNoBody(c) \/ HTTPAnswered(c) PROVE Quiet
  BY <1>5 DEF Quiet, HTTPSend, HTTPNoBody, HTTPAnswered
<1>6. ASSUME NEW c \in Captures, ReadEnds(c) \/ CloseBody(c) \/ BrowserSend(c) PROVE Quiet
  BY <1>6 DEF Quiet, ReadEnds, CloseBody, BrowserSend
<1>7. ASSUME NEW c \in Captures, BrowserEvent(c) PROVE Quiet
  BY <1>7 DEF Quiet, BrowserEvent, BeginCapture, End, TypeOK
<1>8. ASSUME NEW c \in Captures, PlaywrightRecord(c) \/ SaveBegins(c) PROVE Quiet
  BY <1>8 DEF Quiet, PlaywrightRecord, SaveBegins
<1>9. ASSUME NEW c \in Captures, AppSave(c) PROVE Quiet
  BY <1>9 DEF Quiet, AppSave, End, TypeOK
<1>10. ASSUME NEW c \in Captures, NotSaved(c) \/ SaveIgnored(c) PROVE Quiet
  BY <1>10 DEF Quiet, NotSaved, SaveIgnored, End, TypeOK
<1>11. ASSUME NEW c \in Captures, BodyStands(c) \/ WriteTemp(c) \/ Rename(c) \/ CleanUp(c)
       PROVE  Quiet
  BY <1>11 DEF Quiet, BodyStands, WriteTemp, Rename, CleanUp
<1>12. CASE StopCapture \/ CloseBrowser \/ NewStore
  BY <1>1, <1>12 DEF Quiet, StopCapture, CloseBrowser, NewStore
<1>13. CASE ClearBegins \/ ClearExchanges \/ ClearBlobs \/ ClearFails
  BY <1>1, <1>13 DEF Quiet, ClearBegins, ClearExchanges, ClearBlobs, ClearFails
<1>14. CASE Crash
  BY <1>1, <1>14 DEF Quiet, Crash, TypeOK
<1>15. CASE UNCHANGED vars
  BY <1>1, <1>15 DEF Quiet, vars
<1> QED
  BY <1>1, <1>2, <1>3, <1>4, <1>5, <1>6, <1>7, <1>8, <1>9, <1>10, <1>11, <1>12, <1>13, <1>14,
     <1>15 DEF Next, CaptureStep, SaveStep, ClearStep

\* To the reader of its index the store is the log of ExchangeLog: an exchange
\* is added at one instant and at most once, by the last write of Save, and
\* only Clear takes entries away, all of them at once.
THEOREM StoreImplementsLog == Spec => ImplementsLog
<1>1. Init => Log!Init
  BY LogInit
<1>2. StoreInv /\ [Next]_vars => [Log!Next]_(Log!vars)
  BY LogNext
<1> QED
  BY <1>1, <1>2, StoreInvariant, PTL DEF Spec, ImplementsLog, Log!Spec
=============================================================================
