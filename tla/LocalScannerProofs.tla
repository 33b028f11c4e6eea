------------------------- MODULE LocalScannerProofs -------------------------
(***************************************************************************)
(* Proofs about LocalScanner for every number of goroutines, theaters,     *)
(* browsers and slots.  The invariants follow from the inductive invariant *)
(* ScannerInv, whose parts say who holds scheduleMu, who owns which        *)
(* browser, and what an adapter that still works remembers of its page.    *)
(***************************************************************************)
EXTENDS LocalScanner, TLAPS

\* scheduleMu is held exactly by the round that is opening or using the session.
LockInv ==
  \A c \in Rounds : (scheduleMu = c) <=> (pc[c] = "opening" \/ InRound(c))

SessionInv ==
  /\ \A c \in Rounds : InRound(c) => session # None
  /\ \A c \in Rounds : pc[c] = "opening" => session = None
  /\ closed <=> closePC \in {"session", "factory", "closed"}
  /\ closed => session = None /\ scheduleMu = None
  /\ closing # None => closePC = "session"

\* A browser is owned if and only if it exists, and by one owner.
Owned(b) == session = b \/ closing = b \/ \E c \in Calls : using[c] = b

OwnerInv ==
  /\ \A c \in Calls : using[c] # None <=> pc[c] = "using"
  /\ \A c \in Rounds : pc[c] # "using"
  /\ \A b \in Browsers : browser[b] # "none" <=> Owned(b)
  /\ session # None => session # closing /\ \A c \in Calls : using[c] # session
  /\ closing # None => \A c \in Calls : using[c] # closing
  /\ \A c, d \in Calls : using[c] # None /\ using[c] = using[d] => c = d

\* The page of an adapter that is up shows the theater it remembers, unless
\* the last navigation was throttled or a round is on its way to another one.
PageInv ==
  /\ \A b \in Browsers : browser[b] = "none" => selected[b] = None
  /\ \A b \in Browsers :
       browser[b] = "up" /\ selected[b] # None
         => \/ page[b] \in {selected[b], "error"}
            \/ \E c \in Rounds : pc[c] = "select" /\ session = b
  /\ \A c \in Rounds : pc[c] = "read" => selected[session] = TheaterOf[c]
  /\ \A c \in Rounds : pc[c] = "dates" => page[session] = TheaterOf[c]

ScannerInv == TypeOK /\ LockInv /\ SessionInv /\ OwnerInv /\ PageInv

-----------------------------------------------------------------------------
\* The initial state satisfies the inductive invariant.
LEMMA ScannerInvInit == Init => ScannerInv
<1> SUFFICES ASSUME Init PROVE ScannerInv
  OBVIOUS
<1>1. TypeOK
  BY DEF Init, TypeOK
<1>2. LockInv
  BY ScannerConstants DEF Init, LockInv, InRound, Calls
<1>3. SessionInv
  BY DEF Init, SessionInv, InRound, Calls
<1>4. OwnerInv
  BY ScannerConstants DEF Init, OwnerInv, Owned, Calls
<1>5. PageInv
  BY DEF Init, PageInv, Calls
<1> QED
  BY <1>1, <1>2, <1>3, <1>4, <1>5 DEF ScannerInv

\* Every step preserves it.
LEMMA ScannerInvNext == ScannerInv /\ [Next]_vars => ScannerInv'
<1> SUFFICES ASSUME ScannerInv, [Next]_vars PROVE ScannerInv'
  OBVIOUS
<1> USE DEF ScannerInv, callVars, closeVars, browserVars
<1>1. ASSUME NEW c \in Rounds, CaptureSchedules(c) PROVE ScannerInv'
  <2>1. TypeOK'
    BY <1>1 DEF TypeOK, CaptureSchedules, Goto
  <2>2. LockInv'
    BY <1>1 DEF LockInv, InRound, CaptureSchedules, Goto
  <2>3. SessionInv'
    BY <1>1 DEF SessionInv, InRound, CaptureSchedules, Goto
  <2>4. OwnerInv'
    BY <1>1 DEF OwnerInv, Owned, CaptureSchedules, Goto
  <2>5. PageInv'
    BY <1>1 DEF PageInv, CaptureSchedules, Goto
  <2> QED  BY <2>1, <2>2, <2>3, <2>4, <2>5
<1>2. ASSUME NEW c \in Rounds, LockSchedule(c) PROVE ScannerInv'
  <2>1. TypeOK'
    BY <1>2 DEF TypeOK, LockSchedule, Goto
  <2>2. LockInv'
    BY <1>2, ScannerConstants DEF LockInv, InRound, TypeOK, Calls, LockSchedule, Goto
  <2>3. SessionInv'
    BY <1>2 DEF SessionInv, InRound, LockSchedule, Goto
  <2>4. OwnerInv'
    BY <1>2 DEF OwnerInv, Owned, LockSchedule, Goto
  <2>5. PageInv'
    BY <1>2 DEF PageInv, LockSchedule, Goto
  <2> QED  BY <2>1, <2>2, <2>3, <2>4, <2>5
<1>3. ASSUME NEW c \in Rounds, LockScheduleClosed(c) PROVE ScannerInv'
  <2>1. TypeOK'
    BY <1>3 DEF TypeOK, LockScheduleClosed, Goto
  <2>2. LockInv'
    BY <1>3 DEF LockInv, InRound, LockScheduleClosed, Goto
  <2>3. SessionInv'
    BY <1>3 DEF SessionInv, InRound, LockScheduleClosed, Goto
  <2>4. OwnerInv'
    BY <1>3 DEF OwnerInv, Owned, LockScheduleClosed, Goto
  <2>5. PageInv'
    BY <1>3 DEF PageInv, LockScheduleClosed, Goto
  <2> QED  BY <2>1, <2>2, <2>3, <2>4, <2>5
<1>4. ASSUME NEW c \in Rounds, OpenScheduleSession(c) PROVE ScannerInv'
  <2>1. TypeOK'
    BY <1>4 DEF TypeOK, OpenScheduleSession, Goto, Opened
  <2>2. LockInv'
    BY <1>4 DEF LockInv, InRound, OpenScheduleSession, Goto, Opened
  <2>3. SessionInv'
    BY <1>4, ScannerConstants DEF SessionInv, InRound, TypeOK, Calls, LockInv,
       OpenScheduleSession, Goto, Opened
  <2>4. OwnerInv'
    BY <1>4, ScannerConstants DEF OwnerInv, Owned, TypeOK, Calls, LockInv, InRound,
       SessionInv, OpenScheduleSession, Goto, Opened
  <2>5. PageInv'
    BY <1>4, ScannerConstants DEF PageInv, TypeOK, Calls, LockInv, InRound,
       OpenScheduleSession, Goto, Opened
  <2> QED  BY <2>1, <2>2, <2>3, <2>4, <2>5
<1>5. ASSUME NEW c \in Rounds, OpenScheduleSessionFails(c) PROVE ScannerInv'
  <2>1. TypeOK'
    BY <1>5 DEF TypeOK, OpenScheduleSessionFails, Goto
  <2>2. LockInv'
    BY <1>5, ScannerConstants DEF LockInv, InRound, TypeOK, Calls, OpenScheduleSessionFails,
       Goto
  <2>3. SessionInv'
    BY <1>5 DEF SessionInv, InRound, OpenScheduleSessionFails, Goto
  <2>4. OwnerInv'
    BY <1>5 DEF OwnerInv, Owned, OpenScheduleSessionFails, Goto
  <2>5. PageInv'
    BY <1>5 DEF PageInv, OpenScheduleSessionFails, Goto
  <2> QED  BY <2>1, <2>2, <2>3, <2>4, <2>5
<1>6. ASSUME NEW c \in Rounds, CaptureBegins(c) PROVE ScannerInv'
  <2>1. TypeOK'
    BY <1>6 DEF TypeOK, CaptureBegins, At, Goto
  <2>2. LockInv'
    BY <1>6 DEF LockInv, InRound, CaptureBegins, At, Goto
  <2>3. SessionInv'
    BY <1>6 DEF SessionInv, InRound, CaptureBegins, At, Goto
  <2>4. OwnerInv'
    BY <1>6 DEF OwnerInv, Owned, CaptureBegins, At, Goto
  <2>5. PageInv'
    BY <1>6 DEF PageInv, CaptureBegins, At, Goto
  <2> QED  BY <2>1, <2>2, <2>3, <2>4, <2>5
<1>7. ASSUME NEW c \in Rounds, TheaterReused(c) PROVE ScannerInv'
  <2>1. TypeOK'
    BY <1>7 DEF TypeOK, TheaterReused, At, Goto
  <2>2. LockInv'
    BY <1>7 DEF LockInv, InRound, TheaterReused, At, Goto
  <2>3. SessionInv'
    BY <1>7 DEF SessionInv, InRound, TheaterReused, At, Goto
  <2>4. OwnerInv'
    BY <1>7 DEF OwnerInv, Owned, TheaterReused, At, Goto
  <2>5. PageInv'
    BY <1>7 DEF PageInv, TheaterReused, At, Goto
  <2> QED  BY <2>1, <2>2, <2>3, <2>4, <2>5
<1>8. ASSUME NEW c \in Rounds, Navigated(c) PROVE ScannerInv'
  <2>1. TypeOK'
    BY <1>8 DEF TypeOK, Navigated, At, Goto
  <2>2. LockInv'
    BY <1>8 DEF LockInv, InRound, Navigated, At, Goto
  <2>3. SessionInv'
    BY <1>8 DEF SessionInv, InRound, Navigated, At, Goto
  <2>4. OwnerInv'
    BY <1>8 DEF OwnerInv, Owned, Navigated, At, Goto
  <2>5. PageInv'
    BY <1>8, ScannerConstants DEF PageInv, TypeOK, Calls, LockInv, InRound, Navigated, At,
       Goto
  <2> QED  BY <2>1, <2>2, <2>3, <2>4, <2>5
<1>9. ASSUME NEW c \in Rounds, NavigateThrottled(c) PROVE ScannerInv'
  <2>1. TypeOK'
    BY <1>9 DEF TypeOK, NavigateThrottled, At, Unlock
  <2>2. LockInv'
    BY <1>9, ScannerConstants DEF LockInv, InRound, TypeOK, Calls, NavigateThrottled, At,
       Unlock
  <2>3. SessionInv'
    BY <1>9 DEF SessionInv, InRound, NavigateThrottled, At, Unlock
  <2>4. OwnerInv'
    BY <1>9 DEF OwnerInv, Owned, NavigateThrottled, At, Unlock
  <2>5. PageInv'
    BY <1>9, ScannerConstants DEF PageInv, TypeOK, Calls, LockInv, InRound,
       NavigateThrottled, At, Unlock
  <2> QED  BY <2>1, <2>2, <2>3, <2>4, <2>5
<1>10. ASSUME NEW c \in Rounds, TheaterSelected(c) PROVE ScannerInv'
  <2>1. TypeOK'
    BY <1>10, ScannerConstants DEF TypeOK, Calls, TheaterSelected, At, Goto
  <2>2. LockInv'
    BY <1>10 DEF LockInv, InRound, TheaterSelected, At, Goto
  <2>3. SessionInv'
    BY <1>10 DEF SessionInv, InRound, TheaterSelected, At, Goto
  <2>4. OwnerInv'
    BY <1>10 DEF OwnerInv, Owned, TheaterSelected, At, Goto
  <2>5. PageInv'
    BY <1>10, ScannerConstants DEF PageInv, TypeOK, Calls, LockInv, InRound, SessionInv,
       TheaterSelected, At, Goto
  <2> QED  BY <2>1, <2>2, <2>3, <2>4, <2>5
<1>11. ASSUME NEW c \in Rounds, DatesRead(c) PROVE ScannerInv'
  <2>1. TypeOK'
    BY <1>11 DEF TypeOK, DatesRead, At, Goto
  <2>2. LockInv'
    BY <1>11 DEF LockInv, InRound, DatesRead, At, Goto
  <2>3. SessionInv'
    BY <1>11 DEF SessionInv, InRound, DatesRead, At, Goto
  <2>4. OwnerInv'
    BY <1>11 DEF OwnerInv, Owned, DatesRead, At, Goto
  <2>5. PageInv'
    BY <1>11, ScannerConstants DEF PageInv, TypeOK, Calls, LockInv, InRound, SessionInv,
       DatesRead, At, Goto
  <2> QED  BY <2>1, <2>2, <2>3, <2>4, <2>5
<1>12. ASSUME NEW c \in Rounds, DateBlocked(c) PROVE ScannerInv'
  <2>1. TypeOK'
    BY <1>12 DEF TypeOK, DateBlocked, At
  <2>2. LockInv'
    BY <1>12 DEF LockInv, InRound, DateBlocked, At
  <2>3. SessionInv'
    BY <1>12 DEF SessionInv, InRound, DateBlocked, At
  <2>4. OwnerInv'
    BY <1>12 DEF OwnerInv, Owned, DateBlocked, At
  <2>5. PageInv'
    BY <1>12 DEF PageInv, DateBlocked, At
  <2> QED  BY <2>1, <2>2, <2>3, <2>4, <2>5
<1>13. ASSUME NEW c \in OneShots, CaptureOnce(c) PROVE ScannerInv'
  <2>1. TypeOK'
    BY <1>13 DEF TypeOK, CaptureOnce, Goto
  <2>2. LockInv'
    BY <1>13, ScannerConstants DEF LockInv, InRound, TypeOK, Calls, CaptureOnce, Goto
  <2>3. SessionInv'
    BY <1>13, ScannerConstants DEF SessionInv, InRound, TypeOK, Calls, CaptureOnce, Goto
  <2>4. OwnerInv'
    BY <1>13 DEF OwnerInv, Owned, CaptureOnce, Goto
  <2>5. PageInv'
    BY <1>13 DEF PageInv, CaptureOnce, Goto
  <2> QED  BY <2>1, <2>2, <2>3, <2>4, <2>5
<1>14. ASSUME NEW c \in OneShots, OpenOnce(c) PROVE ScannerInv'
  <2>1. TypeOK'
    BY <1>14 DEF TypeOK, Calls, OpenOnce, Goto, Opened
  <2>2. LockInv'
    BY <1>14, ScannerConstants DEF LockInv, InRound, TypeOK, Calls, OpenOnce, Goto, Opened
  <2>3. SessionInv'
    BY <1>14 DEF SessionInv, InRound, OpenOnce, Goto, Opened
  <2>4. OwnerInv'
    BY <1>14, ScannerConstants DEF OwnerInv, Owned, TypeOK, Calls, OpenOnce, Goto, Opened
  <2>5. PageInv'
    BY <1>14 DEF PageInv, OpenOnce, Goto, Opened
  <2> QED  BY <2>1, <2>2, <2>3, <2>4, <2>5
<1>15. ASSUME NEW c \in OneShots, OpenOnceFails(c) PROVE ScannerInv'
  <2>1. TypeOK'
    BY <1>15 DEF TypeOK, OpenOnceFails, Goto
  <2>2. LockInv'
    BY <1>15, ScannerConstants DEF LockInv, InRound, TypeOK, Calls, OpenOnceFails, Goto
  <2>3. SessionInv'
    BY <1>15 DEF SessionInv, InRound, OpenOnceFails, Goto
  <2>4. OwnerInv'
    BY <1>15 DEF OwnerInv, Owned, OpenOnceFails, Goto
  <2>5. PageInv'
    BY <1>15 DEF PageInv, OpenOnceFails, Goto
  <2> QED  BY <2>1, <2>2, <2>3, <2>4, <2>5
<1>16. ASSUME NEW c \in OneShots, ReturnOnce(c) PROVE ScannerInv'
  <2>1. TypeOK'
    BY <1>16 DEF TypeOK, ReturnOnce, Goto, AdapterClosed
  <2>2. LockInv'
    BY <1>16 DEF LockInv, InRound, ReturnOnce, Goto, AdapterClosed
  <2>3. SessionInv'
    BY <1>16 DEF SessionInv, InRound, ReturnOnce, Goto, AdapterClosed
  <2>4. OwnerInv'
    BY <1>16, ScannerConstants DEF OwnerInv, Owned, TypeOK, Calls, ReturnOnce, Goto,
       AdapterClosed
  <2>5. PageInv'
    BY <1>16, ScannerConstants DEF PageInv, TypeOK, Calls, LockInv, InRound, SessionInv,
       OwnerInv, Owned, ReturnOnce, Goto, AdapterClosed
  <2> QED  BY <2>1, <2>2, <2>3, <2>4, <2>5
<1>17. ASSUME NEW c \in Calls, CallerDone(c) PROVE ScannerInv'
  <2>1. TypeOK'
    BY <1>17 DEF TypeOK, CallerDone
  <2>2. LockInv'
    BY <1>17 DEF LockInv, InRound, CallerDone
  <2>3. SessionInv'
    BY <1>17 DEF SessionInv, InRound, CallerDone
  <2>4. OwnerInv'
    BY <1>17 DEF OwnerInv, Owned, CallerDone
  <2>5. PageInv'
    BY <1>17 DEF PageInv, CallerDone
  <2> QED  BY <2>1, <2>2, <2>3, <2>4, <2>5
<1>18. ASSUME NEW b \in Browsers, BrowserLost(b) PROVE ScannerInv'
  <2>1. TypeOK'
    BY <1>18 DEF TypeOK, BrowserLost
  <2>2. LockInv'
    BY <1>18 DEF LockInv, InRound, BrowserLost
  <2>3. SessionInv'
    BY <1>18 DEF SessionInv, InRound, BrowserLost
  <2>4. OwnerInv'
    BY <1>18 DEF OwnerInv, Owned, TypeOK, BrowserLost
  <2>5. PageInv'
    BY <1>18 DEF PageInv, TypeOK, BrowserLost
  <2> QED  BY <2>1, <2>2, <2>3, <2>4, <2>5
<1>19. CASE CloseScanner
  <2>1. TypeOK'
    BY <1>19 DEF TypeOK, CloseScanner
  <2>2. LockInv'
    BY <1>19 DEF LockInv, InRound, CloseScanner
  <2>3. SessionInv'
    BY <1>19 DEF SessionInv, InRound, CloseScanner
  <2>4. OwnerInv'
    BY <1>19 DEF OwnerInv, Owned, CloseScanner
  <2>5. PageInv'
    BY <1>19 DEF PageInv, CloseScanner
  <2> QED  BY <2>1, <2>2, <2>3, <2>4, <2>5
<1>20. CASE CloseLocked
  <2>1. TypeOK'
    BY <1>20 DEF TypeOK, CloseLocked
  <2>2. LockInv'
    BY <1>20 DEF LockInv, InRound, CloseLocked
  <2>3. SessionInv'
    BY <1>20, ScannerConstants DEF SessionInv, InRound, TypeOK, Calls, LockInv, CloseLocked
  <2>4. OwnerInv'
    BY <1>20, ScannerConstants DEF OwnerInv, Owned, TypeOK, Calls, LockInv, InRound,
       SessionInv, CloseLocked
  <2>5. PageInv'
    BY <1>20, ScannerConstants DEF PageInv, TypeOK, Calls, LockInv, InRound, CloseLocked
  <2> QED  BY <2>1, <2>2, <2>3, <2>4, <2>5
<1>21. CASE CloseSession
  <2>1. TypeOK'
    BY <1>21 DEF TypeOK, CloseSession, AdapterClosed
  <2>2. LockInv'
    BY <1>21 DEF LockInv, InRound, CloseSession, AdapterClosed
  <2>3. SessionInv'
    BY <1>21 DEF SessionInv, InRound, CloseSession, AdapterClosed
  <2>4. OwnerInv'
    BY <1>21, ScannerConstants DEF OwnerInv, Owned, TypeOK, Calls, CloseSession,
       AdapterClosed
  <2>5. PageInv'
    BY <1>21, ScannerConstants DEF PageInv, TypeOK, Calls, LockInv, InRound, SessionInv,
       CloseSession, AdapterClosed
  <2> QED  BY <2>1, <2>2, <2>3, <2>4, <2>5
<1>22. CASE CloseFactory
  <2>1. TypeOK'
    BY <1>22 DEF TypeOK, CloseFactory, HoldsSlot
  <2>2. LockInv'
    BY <1>22 DEF LockInv, InRound, CloseFactory, HoldsSlot
  <2>3. SessionInv'
    BY <1>22 DEF SessionInv, InRound, CloseFactory, HoldsSlot
  <2>4. OwnerInv'
    BY <1>22 DEF OwnerInv, Owned, CloseFactory, HoldsSlot
  <2>5. PageInv'
    BY <1>22 DEF PageInv, CloseFactory, HoldsSlot
  <2> QED  BY <2>1, <2>2, <2>3, <2>4, <2>5
<1>23. ASSUME NEW c \in Rounds, NEW err, Return(c, err), scheduleMu = c, InRound(c),
             pc[c] = "select" => err = "other" \/ browser[session] = "ended"
      PROVE  ScannerInv'
  <2>1. TypeOK'
    BY <1>23 DEF TypeOK, Return, Unlock, AdapterClosed
  <2>2. LockInv'
    BY <1>23, ScannerConstants DEF LockInv, InRound, TypeOK, Calls, Return, Unlock,
       AdapterClosed
  <2>3. SessionInv'
    BY <1>23, ScannerConstants DEF SessionInv, InRound, TypeOK, Calls, LockInv, Return,
       Unlock, AdapterClosed
  <2>4. OwnerInv'
    BY <1>23, ScannerConstants DEF OwnerInv, Owned, TypeOK, Calls, Return, Unlock,
       AdapterClosed
  <2>5. PageInv'
    BY <1>23, ScannerConstants DEF PageInv, TypeOK, Calls, LockInv, InRound, Return, Unlock,
       AdapterClosed
  <2> QED  BY <2>1, <2>2, <2>3, <2>4, <2>5
<1>24. ASSUME NEW c \in Rounds, PageFails(c) PROVE ScannerInv'
  BY <1>24, <1>23 DEF PageFails, At, Failures, InRound
<1>25. ASSUME NEW c \in Rounds, CaptureCancelled(c) PROVE ScannerInv'
  BY <1>25, <1>23 DEF CaptureCancelled, At, InRound
<1>26. ASSUME NEW c \in Rounds, CaptureThrottled(c) PROVE ScannerInv'
  BY <1>26, <1>23 DEF CaptureThrottled, At, InRound
<1>27. ASSUME NEW c \in Rounds, DateThrottled(c) PROVE ScannerInv'
  BY <1>27, <1>23 DEF DateThrottled, At, InRound
<1>28. ASSUME NEW c \in Rounds, DatesDone(c) PROVE ScannerInv'
  BY <1>28, <1>23 DEF DatesDone, At, InRound
<1>29. CASE UNCHANGED vars
  <2>1. TypeOK'
    BY <1>29 DEF TypeOK, vars
  <2>2. LockInv'
    BY <1>29 DEF LockInv, InRound, vars
  <2>3. SessionInv'
    BY <1>29 DEF SessionInv, InRound, vars
  <2>4. OwnerInv'
    BY <1>29 DEF OwnerInv, Owned, vars
  <2>5. PageInv'
    BY <1>29 DEF PageInv, vars
  <2> QED  BY <2>1, <2>2, <2>3, <2>4, <2>5
<1> QED
  BY <1>1, <1>2, <1>3, <1>4, <1>5, <1>6, <1>7, <1>8, <1>9, <1>10, <1>11, <1>12, <1>13,
     <1>14, <1>15, <1>16, <1>17, <1>18, <1>19, <1>20, <1>21, <1>22, <1>23, <1>24, <1>25,
     <1>26, <1>27, <1>28, <1>29 DEF Next, Opening, RoundStep

\* Hence it holds in every reachable state.
LEMMA ScannerInvariant == Spec => []ScannerInv
BY ScannerInvInit, ScannerInvNext, PTL DEF Spec

-----------------------------------------------------------------------------
\* Every variable of the scanner keeps its type.
THEOREM TypeCorrect == Spec => []TypeOK
<1>1. ScannerInv => TypeOK
  BY DEF ScannerInv
<1> QED
  BY <1>1, ScannerInvariant, PTL

(***************************************************************************)
(* A browser that holds a slot has exactly one owner who will close it,    *)
(* however rounds, one-shot captures, Close and lost browsers interleave.  *)
(***************************************************************************)
THEOREM BrowsersAreOwned == Spec => []NoOrphanBrowser
<1>1. ScannerInv => NoOrphanBrowser
  <2> SUFFICES ASSUME ScannerInv, NEW b \in Browsers, HoldsSlot(b)
               PROVE  \E o \in Owners(b) : Owners(b) = {o}
    BY DEF NoOrphanBrowser
  <2> USE ScannerConstants DEF ScannerInv, Owners
  <2>1. Owned(b)
    BY DEF OwnerInv, HoldsSlot
  <2>2. CASE session = b
    <3>1. Owners(b) = {None}
      BY <2>2 DEF OwnerInv
    <3> QED  BY <3>1
  <2>3. CASE closing = b
    <3>1. Owners(b) = {Closer}
      BY <2>3 DEF OwnerInv, TypeOK
    <3> QED  BY <3>1
  <2>4. ASSUME NEW c \in Calls, using[c] = b
        PROVE  \E o \in Owners(b) : Owners(b) = {o}
    <3>1. Owners(b) = {c}
      BY <2>4 DEF OwnerInv
    <3> QED  BY <3>1
  <2> QED
    BY <2>1, <2>2, <2>3, <2>4 DEF Owned
<1> QED
  BY <1>1, ScannerInvariant, PTL

(***************************************************************************)
(* A round has the session for itself from the lock to its return.         *)
(***************************************************************************)
THEOREM SessionIsExclusive == Spec => []RoundOwnsSession
<1>1. ScannerInv => RoundOwnsSession
  BY DEF ScannerInv, RoundOwnsSession, LockInv, SessionInv, OwnerInv, Owned, TypeOK
<1> QED
  BY <1>1, ScannerInvariant, PTL

(***************************************************************************)
(* The dates a round scans were read from a page of its own theater.       *)
(***************************************************************************)
THEOREM DatesAreOwn == Spec => []DatesFromOwnTheater
<1>1. ScannerInv => DatesFromOwnTheater
  BY DEF ScannerInv, DatesFromOwnTheater, PageInv
<1> QED
  BY <1>1, ScannerInvariant, PTL

(***************************************************************************)
(* A round that fails on a crashed Chrome drops it: the only step that     *)
(* takes a round from "theater" to its return is then PageFails, whose     *)
(* error closes the session.                                               *)
(***************************************************************************)
THEOREM CrashedIsDropped == Spec => CrashedBrowserDropped
<1>1. ScannerInv /\ [Next]_vars => FailedRoundDrops("crashed")
  <2> SUFFICES ASSUME ScannerInv, [Next]_vars, NEW c \in Rounds,
                      pc[c] = "theater", browser[session] = "crashed", pc'[c] = "idle"
               PROVE  session' = None
    BY DEF FailedRoundDrops
  <2> USE DEF ScannerInv, TypeOK
  <2>1. CASE PageFails(c)
    BY <2>1 DEF PageFails, Failures, Return
  <2>2. CASE NavigateThrottled(c)
    BY <2>2 DEF NavigateThrottled
  <2>3. ASSUME NEW d \in Rounds,
               \/ CaptureSchedules(d) \/ LockSchedule(d) \/ LockScheduleClosed(d)
               \/ OpenScheduleSession(d) \/ OpenScheduleSessionFails(d)
        PROVE  FALSE
    BY <2>3 DEF CaptureSchedules, LockSchedule, LockScheduleClosed, OpenScheduleSession,
       OpenScheduleSessionFails, Goto, Calls
  <2>4. ASSUME NEW d \in Rounds,
               \/ CaptureCancelled(d) \/ CaptureThrottled(d) \/ CaptureBegins(d)
               \/ TheaterReused(d) \/ Navigated(d) \/ TheaterSelected(d)
               \/ DatesRead(d) \/ DateThrottled(d) \/ DatesDone(d)
        PROVE  FALSE
    BY <2>4 DEF CaptureCancelled, CaptureThrottled, CaptureBegins, TheaterReused, Navigated,
       TheaterSelected, DatesRead, DateThrottled, DatesDone, At, Goto, Return, Unlock, Calls
  <2>5. ASSUME NEW d \in Rounds, d # c, PageFails(d) \/ NavigateThrottled(d) PROVE FALSE
    BY <2>5 DEF PageFails, NavigateThrottled, Return, Unlock, Calls
  <2>6. ASSUME NEW d \in OneShots,
               CaptureOnce(d) \/ OpenOnce(d) \/ OpenOnceFails(d) \/ ReturnOnce(d)
        PROVE  FALSE
    BY <2>6, ScannerConstants
       DEF CaptureOnce, OpenOnce, OpenOnceFails, ReturnOnce, Goto, Calls
  <2>7. pc' # pc
    OBVIOUS
  <2> QED
    BY <2>1, <2>2, <2>3, <2>4, <2>5, <2>6, <2>7
       DEF Next, Opening, RoundStep, DateBlocked, CallerDone, BrowserLost, CloseScanner,
           CloseLocked, CloseSession, CloseFactory, vars, callVars
<1> QED
  BY <1>1, ScannerInvariant, PTL DEF Spec, CrashedBrowserDropped

-----------------------------------------------------------------------------
\* The refinement mapping of UsesService, named.
Running == {b \in Browsers : HoldsSlot(b)}
Phase == IF factoryClosed THEN "down" ELSE "open"

\* Open returns a browser.
LEMMA UseStart ==
  ASSUME TypeOK, NEW b \in Browsers, Opened(b), UNCHANGED factoryClosed
  PROVE  Service!Start(b)
<1>1. b \notin Running /\ Running' = Running \cup {b}
  BY DEF Opened, HoldsSlot, TypeOK, Running
<1>2. Cardinality(Running) < Capacity
  BY DEF Opened, SlotFree, Running
<1>3. Service!Cardinality(Running) = Cardinality(Running)
  BY Zenon DEF Service!Cardinality, Cardinality
<1>4. Phase = "open" /\ Phase' = Phase
  BY DEF Opened, Phase
<1> QED
  BY <1>1, <1>2, <1>3, <1>4 DEF Service!Start, Running, Phase

\* Each step of the scanner, its callers and the world is one of the service.
LEMMA UseNext == TypeOK /\ [Next]_vars => [Service!Next]_(Service!vars)
<1> SUFFICES ASSUME TypeOK, [Next]_vars PROVE [Service!Next]_(Service!vars)
  OBVIOUS
<1> USE DEF closeVars, browserVars
<1>1. CASE UNCHANGED factoryClosed /\ \A b \in Browsers : HoldsSlot(b)' => HoldsSlot(b)
  <2>1. Running' \subseteq Running /\ Phase' = Phase
    BY <1>1 DEF Running, Phase
  <2> QED  BY <2>1 DEF Service!Next, Service!Stop, Running, Phase
<1>2. CASE \E b \in Browsers : Opened(b) /\ UNCHANGED factoryClosed
  BY <1>2, UseStart DEF Service!Next
<1>3. CASE CloseFactory
  <2>1. Running' = {} /\ Phase' = "down"
    BY <1>3 DEF CloseFactory, HoldsSlot, Running, Phase
  <2>2. Phase = "down" \/ Phase = "open"
    BY DEF Phase
  <2> QED
    BY <2>1, <2>2 DEF Service!Next, Service!Stop, Service!Close, Running, Phase
<1>4. \A b : AdapterClosed(b) => \A d \in Browsers : HoldsSlot(d)' => HoldsSlot(d)
  BY DEF AdapterClosed, HoldsSlot, TypeOK
<1>5. \A c, err : Return(c, err) =>
        UNCHANGED factoryClosed /\ \A d \in Browsers : HoldsSlot(d)' => HoldsSlot(d)
  <2> SUFFICES ASSUME NEW c, NEW err, Return(c, err)
               PROVE  UNCHANGED factoryClosed /\ \A d \in Browsers : HoldsSlot(d)' => HoldsSlot(d)
    OBVIOUS
  <2>1. UNCHANGED factoryClosed /\ (AdapterClosed(session) \/ UNCHANGED browser)
    BY DEF Return, Unlock
  <2> QED  BY <1>4, <2>1 DEF HoldsSlot
<1>6. ASSUME NEW c \in Rounds,
             \/ CaptureSchedules(c) \/ LockSchedule(c) \/ LockScheduleClosed(c) \/ Opening(c)
             \/ RoundStep(c) \/ DateBlocked(c)
      PROVE  [Service!Next]_(Service!vars)
  <2>1. CASE OpenScheduleSession(c)
    BY <1>2, <2>1 DEF OpenScheduleSession
  <2>2. CASE PageFails(c) \/ CaptureCancelled(c) \/ CaptureThrottled(c) \/ DateThrottled(c)
             \/ DatesDone(c)
    BY <1>1, <1>5, <2>2
       DEF PageFails, CaptureCancelled, CaptureThrottled, DateThrottled, DatesDone
  <2>3. CASE DateBlocked(c)
    <3>1. UNCHANGED factoryClosed /\ \A b \in Browsers : HoldsSlot(b)' => HoldsSlot(b)
      BY <2>3 DEF DateBlocked, HoldsSlot, TypeOK
    <3> QED  BY <1>1, <3>1
  <2>4. CASE \/ CaptureSchedules(c) \/ LockSchedule(c) \/ LockScheduleClosed(c)
             \/ OpenScheduleSessionFails(c) \/ CaptureBegins(c) \/ TheaterReused(c)
             \/ Navigated(c) \/ NavigateThrottled(c) \/ TheaterSelected(c) \/ DatesRead(c)
    <3>1. UNCHANGED <<factoryClosed, browser>>
      BY <2>4 DEF CaptureSchedules, LockSchedule, LockScheduleClosed, OpenScheduleSessionFails,
         CaptureBegins, TheaterReused, Navigated, NavigateThrottled, TheaterSelected, DatesRead,
         Unlock
    <3> QED  BY <1>1, <3>1 DEF HoldsSlot
  <2> QED  BY <1>6, <2>1, <2>2, <2>3, <2>4 DEF Opening, RoundStep
<1>7. ASSUME NEW c \in OneShots,
             CaptureOnce(c) \/ OpenOnce(c) \/ OpenOnceFails(c) \/ ReturnOnce(c)
      PROVE  [Service!Next]_(Service!vars)
  <2>1. CASE OpenOnce(c)
    BY <1>2, <2>1 DEF OpenOnce
  <2>2. CASE ReturnOnce(c)
    BY <1>1, <1>4, <2>2 DEF ReturnOnce
  <2>3. CASE CaptureOnce(c) \/ OpenOnceFails(c)
    BY <1>1, <2>3 DEF CaptureOnce, OpenOnceFails, HoldsSlot
  <2> QED  BY <1>7, <2>1, <2>2, <2>3
<1>8. ASSUME NEW b \in Browsers, BrowserLost(b) PROVE [Service!Next]_(Service!vars)
  <2>1. UNCHANGED factoryClosed /\ \A d \in Browsers : HoldsSlot(d)' => HoldsSlot(d)
    BY <1>8 DEF BrowserLost, HoldsSlot, TypeOK
  <2> QED  BY <1>1, <2>1
<1>9. CASE CloseSession
  BY <1>1, <1>4, <1>9 DEF CloseSession, HoldsSlot
<1>10. CASE (\E c \in Calls : CallerDone(c)) \/ CloseScanner \/ CloseLocked \/ UNCHANGED vars
  BY <1>1, <1>10 DEF CallerDone, CloseScanner, CloseLocked, vars, HoldsSlot
<1> QED
  BY <1>3, <1>6, <1>7, <1>8, <1>9, <1>10 DEF Next

(***************************************************************************)
(* The factory as the scanner's specification has it is a BrowserService,  *)
(* which is what module BrowserFactory is proved to implement.             *)
(***************************************************************************)
THEOREM ScannerUsesService == Spec => UsesService
<1>1. Init => Service!Init
  BY DEF Init, Service!Init, HoldsSlot
<1>2. ScannerInv => TypeOK
  BY DEF ScannerInv
<1>3. TypeOK /\ [Next]_vars => [Service!Next]_(Service!vars)
  BY UseNext
<1> QED
  BY <1>1, <1>2, <1>3, ScannerInvariant, PTL DEF Spec, UsesService, Service!Spec
=============================================================================
