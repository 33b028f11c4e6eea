--------------------------- MODULE BrowserFactory ---------------------------
(***************************************************************************)
(* The life of a browser task: Factory.Open and Factory.Close              *)
(* (internal/provider/cgv/browser/factory.go), BrowserPool.NewAdapter and  *)
(* BrowserPool.Close, newAdapter, Adapter.Close and AddCloseHook           *)
(* (internal/provider/cgv/browser.go).                                     *)
(*                                                                         *)
(* Every task is one call of Open on a goroutine of its own, so its steps  *)
(* interleave with those of the other tasks, with the goroutine that waits *)
(* for the adapter's context, with the egress leases being lost, with      *)
(* ConfigureEgress and with Factory.Close.  A step is what happens between *)
(* two points at which another goroutine can be seen: a channel operation, *)
(* a section under a mutex, a call that blocks.  Because an adapter can be *)
(* closed from four places, its shutdown is a process of its own (variable *)
(* adapter), and the hook that gives a task's resources back runs either   *)
(* there or, when the adapter was closed first, in the call of             *)
(* AddCloseHook.                                                           *)
(*                                                                         *)
(* A lease is named after the task that acquired it.                       *)
(***************************************************************************)
EXTENDS Integers, FiniteSets

CONSTANTS
  Tasks,        \* calls of Open
  Purpose,      \* egress.PurposeScan or PurposeSession of each of them
  Slots,        \* the numbers in factory.slots; as many tokens are in pool.slot
  MaxConfigs,   \* bound on the calls of ConfigureEgress
  MaxCancelled, \* bound on the contexts that end
  MaxLost,      \* bound on the leases lost and not yet closed
  None          \* nil: no slot, no lease, no adapter

ASSUME FactoryConstants ==
  /\ Purpose \in [Tasks -> {"scan", "session"}]
  /\ IsFiniteSet(Slots) /\ IsFiniteSet(Tasks)
  /\ None \notin Slots /\ None \notin Tasks
  /\ MaxConfigs \in Nat /\ MaxCancelled \in Nat /\ MaxLost \in Nat

VARIABLES
  pc,             \* where the call of Open is
  cancelled,      \* the context given to Open is done
  slots,          \* factory.slots
  slot,           \* the slot a task holds
  sessionFree,    \* factory.sessions holds its one token
  holdsSession,   \* sessionHeld of a task
  manager,        \* factory.egress, by generation
  taskManager,    \* the manager a task read in currentEgress
  lease,          \* the lease a task uses
  stale,          \* the session lease leaseForTask detached and has to close
  leaseState,     \* each lease's remote session and context
  sessionLease,   \* factory.sessionLease
  sessionManager, \* factory.sessionManager
  closed,         \* factory.closed, with factory.done
  closePC,        \* where Factory.Close is
  closingLease,   \* the session lease Factory.Close will close
  pool,           \* factory.pool: "none", "open" or "closed"
  poolFree,       \* tokens in pool.slot
  active,         \* pool.active
  opening,        \* tasks counted in pool.openings
  toClose,        \* adapters pool.Close has still to close
  target,         \* the one it is closing
  stopped,        \* the Playwright runtime was stopped
  adapter,        \* the shutdown of each adapter
  hooks,          \* its close hooks
  chrome,         \* its Chrome process may be running
  release         \* progress of the release of the task's resources

factoryVars == <<slots, sessionFree, manager, sessionLease, sessionManager>>
closeVars == <<closed, closePC, closingLease, toClose, target, stopped>>
poolVars == <<pool, poolFree, active, opening>>
taskVars == <<slot, holdsSession, taskManager, lease, stale>>
adapterVars == <<adapter, hooks, chrome>>
vars == <<pc, cancelled, leaseState, release, factoryVars, closeVars, poolVars, taskVars,
          adapterVars>>

Session(t) == Purpose[t] = "session"

(***************************************************************************)
(* Positions of Open: waiting for the session token or the slot; leasing   *)
(* (a scan in one call; a session through the steps reuse-or-detach,       *)
(* closeOld, acquire, install); then the pool; then inside pool.NewAdapter *)
(* from poolSlot to poolHook.  rejected waits for the adapter it closed    *)
(* itself, poolUnwind is the deferred work of NewAdapter, releasing that   *)
(* of openInSlot.  open: an adapter was returned.  done: Open returned an  *)
(* error or a closed adapter.                                              *)
(***************************************************************************)
PCs == {"idle", "session", "slot", "lease", "closeOld", "acquire", "install", "pool",
        "poolSlot", "launching", "register", "rejected", "poolUnwind", "poolHook",
        "factoryHook", "releasing", "open", "done"}

TypeOK ==
  /\ pc \in [Tasks -> PCs]
  /\ cancelled \in [Tasks -> BOOLEAN]
  /\ slots \subseteq Slots
  /\ slot \in [Tasks -> Slots \cup {None}]
  /\ sessionFree \in BOOLEAN
  /\ holdsSession \in [Tasks -> BOOLEAN]
  /\ manager \in Nat /\ sessionManager \in Nat /\ taskManager \in [Tasks -> Nat]
  /\ lease \in [Tasks -> Tasks \cup {None}]
  /\ stale \in [Tasks -> Tasks \cup {None}]
  /\ leaseState \in [Tasks -> {"unused", "live", "lost", "closed"}]
  /\ sessionLease \in Tasks \cup {None} /\ closingLease \in Tasks \cup {None}
  /\ closed \in BOOLEAN /\ stopped \in BOOLEAN
  /\ closePC \in {"running", "poolClose", "poolWait", "adapters", "lease", "closed"}
  /\ pool \in {"none", "open", "closed"}
  /\ poolFree \in Int
  /\ active \subseteq Tasks /\ opening \subseteq Tasks /\ toClose \subseteq Tasks
  /\ target \in Tasks \cup {None}
  /\ adapter \in [Tasks -> {"none", "live", "closing", "closed", "down"}]
  /\ hooks \in [Tasks -> SUBSET {"pool", "factory"}]
  /\ chrome \in [Tasks -> BOOLEAN]
  /\ release \in [Tasks -> {"none", "lease", "slot", "done"}]

Init ==
  /\ pc = [t \in Tasks |-> "idle"]
  /\ cancelled = [t \in Tasks |-> FALSE]
  /\ slots = Slots
  /\ slot = [t \in Tasks |-> None]
  /\ sessionFree = TRUE
  /\ holdsSession = [t \in Tasks |-> FALSE]
  /\ manager = 0 /\ sessionManager = 0 /\ taskManager = [t \in Tasks |-> 0]
  /\ lease = [t \in Tasks |-> None]
  /\ stale = [t \in Tasks |-> None]
  /\ leaseState = [t \in Tasks |-> "unused"]
  /\ sessionLease = None /\ closingLease = None
  /\ closed = FALSE /\ stopped = FALSE
  /\ closePC = "running"
  /\ pool = "none"
  /\ poolFree = 0
  /\ active = {} /\ opening = {} /\ toClose = {}
  /\ target = None
  /\ adapter = [t \in Tasks |-> "none"]
  /\ hooks = [t \in Tasks |-> {}]
  /\ chrome = [t \in Tasks |-> FALSE]
  /\ release = [t \in Tasks |-> "none"]

Goto(t, from, to) == pc[t] = from /\ pc' = [pc EXCEPT ![t] = to]

\* An error return of openInSlot: the deferred releases run.
Fail(t, from) == Goto(t, from, "releasing") /\ release' = [release EXCEPT ![t] = "lease"]

(***************************************************************************)
(* The context of the task's browser: lease.Context(), derived from the    *)
(* caller's context, for a scan; for a session the caller's context,       *)
(* cancelled by an AfterFunc on the shared lease.                          *)
(***************************************************************************)
ContextDone(t) ==
  cancelled[t] \/ (lease[t] # None /\ leaseState[lease[t]] \in {"lost", "closed"})

-----------------------------------------------------------------------------
(***************************************************************************)
(* Factory.Open.                                                           *)
(***************************************************************************)
Open(t) ==
  /\ Goto(t, "idle", IF cancelled[t] THEN "done" ELSE IF Session(t) THEN "session" ELSE "slot")
  /\ UNCHANGED <<cancelled, leaseState, release, factoryVars, closeVars, poolVars, taskVars,
                 adapterVars>>

TakeSession(t) ==
  /\ Goto(t, "session", "slot")
  /\ sessionFree
  /\ sessionFree' = FALSE
  /\ holdsSession' = [holdsSession EXCEPT ![t] = TRUE]
  /\ UNCHANGED <<cancelled, leaseState, release, slots, manager, sessionLease, sessionManager,
                 closeVars, poolVars, slot, taskManager, lease, stale, adapterVars>>

\* The ctx.Done and factory.done branches of the two selects.
GiveUpOnCloseOnly(t) ==
  /\ pc[t] \in {"session", "slot"}
  /\ closed
  /\ pc' = [pc EXCEPT ![t] = "done"]
  /\ sessionFree' = (sessionFree \/ holdsSession[t])
  /\ holdsSession' = [holdsSession EXCEPT ![t] = FALSE]
  /\ UNCHANGED <<cancelled, leaseState, release, slots, manager, sessionLease, sessionManager,
                 closeVars, poolVars, slot, taskManager, lease, stale, adapterVars>>

GiveUp(t) ==
  /\ pc[t] \in {"session", "slot"}
  /\ cancelled[t] \/ closed
  /\ pc' = [pc EXCEPT ![t] = "done"]
  /\ sessionFree' = (sessionFree \/ holdsSession[t])
  /\ holdsSession' = [holdsSession EXCEPT ![t] = FALSE]
  /\ UNCHANGED <<cancelled, leaseState, release, slots, manager, sessionLease, sessionManager,
                 closeVars, poolVars, slot, taskManager, lease, stale, adapterVars>>

(***************************************************************************)
(* The slot arrives and openInSlot begins: it looks at the context and at  *)
(* factory.closed and reads the egress manager.                            *)
(***************************************************************************)
TakeSlot(t) ==
  \E s \in slots :
    /\ slots' = slots \ {s}
    /\ slot' = [slot EXCEPT ![t] = s]

OpenInSlot(t) ==
  /\ ~cancelled[t] /\ ~closed
  /\ Goto(t, "slot", "lease")
  /\ TakeSlot(t)
  /\ taskManager' = [taskManager EXCEPT ![t] = manager]
  /\ UNCHANGED <<cancelled, leaseState, release, sessionFree, manager, sessionLease,
                 sessionManager, closeVars, poolVars, holdsSession, lease, stale, adapterVars>>

OpenInSlotRefused(t) ==
  /\ cancelled[t] \/ closed
  /\ Fail(t, "slot")
  /\ TakeSlot(t)
  /\ UNCHANGED <<cancelled, leaseState, sessionFree, manager, sessionLease, sessionManager,
                 closeVars, poolVars, holdsSession, taskManager, lease, stale, adapterVars>>

\* leaseForTask of a scan: AcquireForPolicy under the caller's context.
AcquireScan(t) ==
  /\ ~Session(t)
  /\ Goto(t, "lease", "pool")
  /\ lease' = [lease EXCEPT ![t] = t]
  /\ leaseState' = [leaseState EXCEPT ![t] = "live"]
  /\ UNCHANGED <<cancelled, release, factoryVars, closeVars, poolVars, slot, holdsSession,
                 taskManager, stale, adapterVars>>

AcquireFails(t) ==
  /\ Fail(t, IF Session(t) THEN "acquire" ELSE "lease")
  /\ UNCHANGED <<cancelled, leaseState, factoryVars, closeVars, poolVars, taskVars, adapterVars>>

\* The shared lease is reused while it belongs to the current manager and lives.
Reusable(t) ==
  /\ sessionLease # None
  /\ sessionManager = taskManager[t]
  /\ leaseState[sessionLease] = "live"

ReuseSessionLease(t) ==
  /\ Session(t) /\ Reusable(t)
  /\ Goto(t, "lease", "pool")
  /\ lease' = [lease EXCEPT ![t] = sessionLease]
  /\ UNCHANGED <<cancelled, leaseState, release, factoryVars, closeVars, poolVars, slot,
                 holdsSession, taskManager, stale, adapterVars>>

DetachSessionLease(t) ==
  /\ Session(t) /\ ~Reusable(t)
  /\ Goto(t, "lease", IF sessionLease = None THEN "acquire" ELSE "closeOld")
  /\ stale' = [stale EXCEPT ![t] = sessionLease]
  /\ sessionLease' = None
  /\ sessionManager' = 0
  /\ UNCHANGED <<cancelled, leaseState, release, slots, sessionFree, manager, closeVars,
                 poolVars, slot, holdsSession, taskManager, lease, adapterVars>>

CloseOld(t) ==
  /\ Goto(t, "closeOld", "acquire")
  /\ leaseState' = [leaseState EXCEPT ![stale[t]] = "closed"]
  /\ stale' = [stale EXCEPT ![t] = None]
  /\ UNCHANGED <<cancelled, release, factoryVars, closeVars, poolVars, slot, holdsSession,
                 taskManager, lease, adapterVars>>

\* manager.Acquire under factory.sessionContext, which cancelSession ends.
AcquireSession(t) ==
  /\ closePC # "closed"
  /\ Goto(t, "acquire", "install")
  /\ leaseState' = [leaseState EXCEPT ![t] = "live"]
  /\ UNCHANGED <<cancelled, release, factoryVars, closeVars, poolVars, taskVars, adapterVars>>

InstallSessionLease(t) ==
  /\ ~closed
  /\ Goto(t, "install", "pool")
  /\ sessionLease' = t
  /\ sessionManager' = taskManager[t]
  /\ lease' = [lease EXCEPT ![t] = t]
  /\ UNCHANGED <<cancelled, leaseState, release, slots, sessionFree, manager, closeVars,
                 poolVars, slot, holdsSession, taskManager, stale, adapterVars>>

InstallRefusedKeepingLease(t) ==
  /\ closed
  /\ Fail(t, "install")
  /\ UNCHANGED <<cancelled, leaseState, factoryVars, closeVars, poolVars, taskVars, adapterVars>>

\* The factory was closed meanwhile: leaseForTask closes the new lease itself.
InstallRefused(t) ==
  /\ closed
  /\ Fail(t, "install")
  /\ leaseState' = [leaseState EXCEPT ![t] = "closed"]
  /\ UNCHANGED <<cancelled, factoryVars, closeVars, poolVars, taskVars, adapterVars>>

\* browserPool creates the pool, and with it the Playwright runtime, on first use.
EnsurePool(t) ==
  /\ ~closed
  /\ Goto(t, "pool", "poolSlot")
  /\ pool' = IF pool = "none" THEN "open" ELSE pool
  /\ poolFree' = IF pool = "none" THEN Cardinality(Slots) ELSE poolFree
  /\ UNCHANGED <<cancelled, leaseState, release, factoryVars, closeVars, active, opening,
                 taskVars, adapterVars>>

\* The factory is closed, the runtime does not start or the profile cannot be made.
PoolFails(t) ==
  /\ Fail(t, "pool")
  /\ UNCHANGED <<cancelled, leaseState, factoryVars, closeVars, poolVars, taskVars, adapterVars>>

-----------------------------------------------------------------------------
(***************************************************************************)
(* BrowserPool.NewAdapter.  It takes a token of the pool or gives up when  *)
(* its context is done; it does not look at the pool's own shutdown here.  *)
(***************************************************************************)
PoolSlotCancelled(t) ==
  /\ ContextDone(t)
  /\ Fail(t, "poolSlot")
  /\ UNCHANGED <<cancelled, leaseState, factoryVars, closeVars, poolVars, taskVars, adapterVars>>

BeginOpeningUnchecked(t) ==
  /\ poolFree > 0
  /\ Goto(t, "poolSlot", "launching")
  /\ poolFree' = poolFree - 1
  /\ opening' = opening \cup {t}
  /\ chrome' = [chrome EXCEPT ![t] = TRUE]
  /\ UNCHANGED <<cancelled, leaseState, release, factoryVars, closeVars, pool, active,
                 taskVars, adapter, hooks>>

BeginOpening(t) ==
  /\ poolFree > 0
  /\ pool = "open"
  /\ Goto(t, "poolSlot", "launching")
  /\ poolFree' = poolFree - 1
  /\ opening' = opening \cup {t}
  /\ chrome' = [chrome EXCEPT ![t] = TRUE]
  /\ UNCHANGED <<cancelled, leaseState, release, factoryVars, closeVars, pool, active,
                 taskVars, adapter, hooks>>

\* The pool is closed, or the executable or a directory is missing.
OpeningRefused(t) ==
  /\ poolFree > 0
  /\ Goto(t, "poolSlot", "poolUnwind")
  /\ poolFree' = poolFree - 1
  /\ UNCHANGED <<cancelled, leaseState, release, factoryVars, closeVars, pool, active, opening,
                 taskVars, adapterVars>>

\* newAdapter; on its error paths it has closed the Chrome it started.
Launch(t) ==
  /\ Goto(t, "launching", "register")
  /\ adapter' = [adapter EXCEPT ![t] = "live"]
  /\ UNCHANGED <<cancelled, leaseState, release, factoryVars, closeVars, poolVars, taskVars,
                 hooks, chrome>>

LaunchFailsLeavingChrome(t) ==
  /\ Goto(t, "launching", "poolUnwind")
  /\ UNCHANGED <<cancelled, leaseState, release, factoryVars, closeVars, poolVars, taskVars,
                 adapterVars>>

LaunchFails(t) ==
  /\ Goto(t, "launching", "poolUnwind")
  /\ chrome' = [chrome EXCEPT ![t] = FALSE]
  /\ UNCHANGED <<cancelled, leaseState, release, factoryVars, closeVars, poolVars, taskVars,
                 adapter, hooks>>

\* The second look at pool.closed: a closed pool has already listed its adapters.
Register(t) ==
  /\ pool = "open"
  /\ Goto(t, "register", "poolHook")
  /\ active' = active \cup {t}
  /\ UNCHANGED <<cancelled, leaseState, release, factoryVars, closeVars, pool, poolFree, opening,
                 taskVars, adapterVars>>

RegisterRejected(t) ==
  /\ pool = "closed"
  /\ Goto(t, "register", "rejected")
  /\ UNCHANGED <<cancelled, leaseState, release, factoryVars, closeVars, poolVars, taskVars,
                 adapterVars>>

Rejected(t) ==
  /\ adapter[t] = "down"
  /\ Goto(t, "rejected", "poolUnwind")
  /\ UNCHANGED <<cancelled, leaseState, release, factoryVars, closeVars, poolVars, taskVars,
                 adapterVars>>

\* The deferred openings.Done and pool.slot <- of an error return.
PoolUnwindKeepingToken(t) ==
  /\ Fail(t, "poolUnwind")
  /\ opening' = opening \ {t}
  /\ UNCHANGED <<cancelled, leaseState, factoryVars, closeVars, pool, poolFree, active,
                 taskVars, adapterVars>>

PoolUnwind(t) ==
  /\ Fail(t, "poolUnwind")
  /\ opening' = opening \ {t}
  /\ poolFree' = poolFree + 1
  /\ UNCHANGED <<cancelled, leaseState, factoryVars, closeVars, pool, active, taskVars,
                 adapterVars>>

(***************************************************************************)
(* AddCloseHook: appended while the adapter is not closed, run at once     *)
(* otherwise.  The first hook is BrowserPool.releaseAdapter.               *)
(***************************************************************************)
HooksTaken(t) == adapter[t] \in {"closed", "down"}

ReleaseAdapter(t) ==
  /\ active' = active \ {t}
  /\ poolFree' = IF t \in active THEN poolFree + 1 ELSE poolFree

AddPoolHook(t) ==
  /\ Goto(t, "poolHook", "factoryHook")
  /\ opening' = opening \ {t}
  /\ IF HooksTaken(t)
     THEN ReleaseAdapter(t) /\ UNCHANGED hooks
     ELSE /\ hooks' = [hooks EXCEPT ![t] = @ \cup {"pool"}]
          /\ UNCHANGED <<active, poolFree>>
  /\ UNCHANGED <<cancelled, leaseState, release, factoryVars, closeVars, pool, taskVars, adapter,
                 chrome>>

AddFactoryHookLost(t) ==
  /\ Goto(t, "factoryHook", "open")
  /\ hooks' = IF HooksTaken(t) THEN hooks ELSE [hooks EXCEPT ![t] = @ \cup {"factory"}]
  /\ UNCHANGED <<cancelled, leaseState, release, factoryVars, closeVars, poolVars, taskVars,
                 adapter, chrome>>

AddFactoryHook(t) ==
  /\ IF HooksTaken(t)
     THEN Fail(t, "factoryHook") /\ UNCHANGED hooks
     ELSE /\ Goto(t, "factoryHook", "open")
          /\ hooks' = [hooks EXCEPT ![t] = @ \cup {"factory"}]
          /\ UNCHANGED release
  /\ UNCHANGED <<cancelled, leaseState, factoryVars, closeVars, poolVars, taskVars, adapter,
                 chrome>>

-----------------------------------------------------------------------------
(***************************************************************************)
(* The release of a task's resources, as the deferred work of openInSlot   *)
(* or as the factory's close hook: a lease that is not shared, then the    *)
(* slot, then the session token; the locals of the call end with it.       *)
(***************************************************************************)
ReleaseLease(t) ==
  /\ release[t] = "lease"
  /\ release' = [release EXCEPT ![t] = "slot"]
  /\ leaseState' = IF ~Session(t) /\ lease[t] # None
                   THEN [leaseState EXCEPT ![t] = "closed"] ELSE leaseState
  /\ UNCHANGED <<pc, cancelled, factoryVars, closeVars, poolVars, taskVars, adapterVars>>

ReleaseSlotLost(t) ==
  /\ release[t] = "slot"
  /\ release' = [release EXCEPT ![t] = "done"]
  /\ pc' = IF pc[t] = "releasing" THEN [pc EXCEPT ![t] = "done"] ELSE pc
  /\ slot' = [slot EXCEPT ![t] = None]
  /\ sessionFree' = (sessionFree \/ holdsSession[t])
  /\ holdsSession' = [holdsSession EXCEPT ![t] = FALSE]
  /\ lease' = [lease EXCEPT ![t] = None]
  /\ taskManager' = [taskManager EXCEPT ![t] = 0]
  /\ UNCHANGED <<cancelled, leaseState, slots, manager, sessionLease, sessionManager,
                 closeVars, poolVars, stale, adapterVars>>

ReleaseSlotCleared(t) ==
  /\ release[t] = "slot"
  /\ release' = [release EXCEPT ![t] = "done"]
  /\ pc' = IF pc[t] = "releasing" THEN [pc EXCEPT ![t] = "done"] ELSE pc
  /\ slot' = [slot EXCEPT ![t] = None]
  /\ slots' = slots \cup {slot'[t]}
  /\ sessionFree' = (sessionFree \/ holdsSession[t])
  /\ holdsSession' = [holdsSession EXCEPT ![t] = FALSE]
  /\ lease' = [lease EXCEPT ![t] = None]
  /\ taskManager' = [taskManager EXCEPT ![t] = 0]
  /\ UNCHANGED <<cancelled, leaseState, manager, sessionLease, sessionManager, closeVars,
                 poolVars, stale, adapterVars>>

ReleaseSlot(t) ==
  /\ release[t] = "slot"
  /\ release' = [release EXCEPT ![t] = "done"]
  /\ pc' = IF pc[t] = "releasing" THEN [pc EXCEPT ![t] = "done"] ELSE pc
  /\ slots' = slots \cup {slot[t]}
  /\ slot' = [slot EXCEPT ![t] = None]
  /\ sessionFree' = (sessionFree \/ holdsSession[t])
  /\ holdsSession' = [holdsSession EXCEPT ![t] = FALSE]
  /\ lease' = [lease EXCEPT ![t] = None]
  /\ taskManager' = [taskManager EXCEPT ![t] = 0]
  /\ UNCHANGED <<cancelled, leaseState, manager, sessionLease, sessionManager, closeVars,
                 poolVars, stale, adapterVars>>

-----------------------------------------------------------------------------
(***************************************************************************)
(* Adapter.Close.  Its first caller runs it, the others wait for "down":   *)
(* the user, the goroutine on the adapter's context, NewAdapter when the   *)
(* pool was closed, and pool.Close.                                        *)
(***************************************************************************)
StartClose(t) ==
  /\ adapter[t] = "live"
  /\ adapter' = [adapter EXCEPT ![t] = "closing"]
  /\ UNCHANGED <<pc, cancelled, leaseState, release, factoryVars, closeVars, poolVars, taskVars,
                 hooks, chrome>>

CloseByUser(t) == pc[t] = "open" /\ StartClose(t)

CloseByContext(t) == ContextDone(t) /\ StartClose(t)

CloseByPool(t) == (pc[t] = "rejected" \/ target = t) /\ StartClose(t)

\* Chrome is stopped first, then the hooks are taken.
CloseChrome(t) ==
  /\ adapter[t] = "closing"
  /\ adapter' = [adapter EXCEPT ![t] = "closed"]
  /\ chrome' = [chrome EXCEPT ![t] = FALSE]
  /\ UNCHANGED <<pc, cancelled, leaseState, release, factoryVars, closeVars, poolVars, taskVars,
                 hooks>>

RunPoolHook(t) ==
  /\ adapter[t] = "closed"
  /\ "pool" \in hooks[t]
  /\ hooks' = [hooks EXCEPT ![t] = @ \ {"pool"}]
  /\ ReleaseAdapter(t)
  /\ UNCHANGED <<pc, cancelled, leaseState, release, factoryVars, closeVars, pool, opening,
                 taskVars, adapter, chrome>>

RunFactoryHook(t) ==
  /\ adapter[t] = "closed"
  /\ hooks[t] = {"factory"}
  /\ release[t] = "none"
  /\ release' = [release EXCEPT ![t] = "lease"]
  /\ UNCHANGED <<pc, cancelled, leaseState, factoryVars, closeVars, poolVars, taskVars,
                 adapterVars>>

HooksDone(t) ==
  /\ adapter[t] = "closed"
  /\ hooks[t] = {} \/ (hooks[t] = {"factory"} /\ release[t] = "done")
  /\ adapter' = [adapter EXCEPT ![t] = "down"]
  /\ hooks' = [hooks EXCEPT ![t] = {}]
  /\ UNCHANGED <<pc, cancelled, leaseState, release, factoryVars, closeVars, poolVars, taskVars,
                 chrome>>

-----------------------------------------------------------------------------
(***************************************************************************)
(* Factory.Close and, inside it, BrowserPool.Close.                        *)
(***************************************************************************)
FactoryClose ==
  /\ closePC = "running"
  /\ closed' = TRUE
  /\ closingLease' = sessionLease
  /\ closePC' = IF pool = "none" THEN "lease" ELSE "poolClose"
  /\ UNCHANGED <<pc, cancelled, leaseState, release, factoryVars, toClose, target, stopped,
                 poolVars, taskVars, adapterVars>>

PoolClose ==
  /\ closePC = "poolClose"
  /\ closePC' = "poolWait"
  /\ pool' = "closed"
  /\ toClose' = active
  /\ UNCHANGED <<pc, cancelled, leaseState, release, factoryVars, closed, closingLease, target,
                 stopped, poolFree, active, opening, taskVars, adapterVars>>

PoolOpeningsDone ==
  /\ closePC = "poolWait"
  /\ opening = {}
  /\ closePC' = "adapters"
  /\ UNCHANGED <<pc, cancelled, leaseState, release, factoryVars, closed, closingLease, toClose,
                 target, stopped, poolVars, taskVars, adapterVars>>

PoolCloseNext(t) ==
  /\ closePC = "adapters"
  /\ target = None
  /\ t \in toClose
  /\ target' = t
  /\ toClose' = toClose \ {t}
  /\ UNCHANGED <<pc, cancelled, leaseState, release, factoryVars, closed, closePC, closingLease,
                 stopped, poolVars, taskVars, adapterVars>>

PoolClosedOne ==
  /\ target # None
  /\ adapter[target] = "down"
  /\ target' = None
  /\ UNCHANGED <<pc, cancelled, leaseState, release, factoryVars, closed, closePC, closingLease,
                 toClose, stopped, poolVars, taskVars, adapterVars>>

StopRuntime ==
  /\ closePC = "adapters"
  /\ target = None /\ toClose = {}
  /\ stopped' = TRUE
  /\ closePC' = "lease"
  /\ UNCHANGED <<pc, cancelled, leaseState, release, factoryVars, closed, closingLease, toClose,
                 target, poolVars, taskVars, adapterVars>>

\* sessionLease.Close, then cancelSession ends the context of every session lease.
CloseSessionLease ==
  /\ closePC = "lease"
  /\ closePC' = "closed"
  /\ leaseState' = [l \in Tasks |->
                      IF l = closingLease THEN "closed"
                      ELSE IF Session(l) /\ leaseState[l] = "live" THEN "lost"
                      ELSE leaseState[l]]
  /\ UNCHANGED <<pc, cancelled, release, factoryVars, closed, closingLease, toClose, target,
                 stopped, poolVars, taskVars, adapterVars>>

-----------------------------------------------------------------------------
(***************************************************************************)
(* The world: the caller's context ends, the lease is lost (its renewal    *)
(* failed or it was quarantined), a new proxy policy is configured.        *)
(***************************************************************************)
CancelTask(t) ==
  /\ ~cancelled[t]
  /\ pc[t] # "done"
  /\ Cardinality({u \in Tasks : cancelled[u]}) < MaxCancelled
  /\ cancelled' = [cancelled EXCEPT ![t] = TRUE]
  /\ UNCHANGED <<pc, leaseState, release, factoryVars, closeVars, poolVars, taskVars,
                 adapterVars>>

LoseLease(l) ==
  /\ leaseState[l] = "live"
  /\ Cardinality({m \in Tasks : leaseState[m] = "lost"}) < MaxLost
  /\ leaseState' = [leaseState EXCEPT ![l] = "lost"]
  /\ UNCHANGED <<pc, cancelled, release, factoryVars, closeVars, poolVars, taskVars, adapterVars>>

ConfigureEgressClosingLease ==
  /\ ~closed
  /\ manager < MaxConfigs
  /\ manager' = manager + 1
  /\ sessionLease' = None
  /\ leaseState' = IF sessionLease = None THEN leaseState
                   ELSE [leaseState EXCEPT ![sessionLease] = "closed"]
  /\ UNCHANGED <<pc, cancelled, release, slots, sessionFree, sessionManager, closeVars, poolVars,
                 taskVars, adapterVars>>

ConfigureEgress ==
  /\ ~closed
  /\ manager < MaxConfigs
  /\ manager' = manager + 1
  /\ UNCHANGED <<pc, cancelled, leaseState, release, slots, sessionFree, sessionLease,
                 sessionManager, closeVars, poolVars, taskVars, adapterVars>>

-----------------------------------------------------------------------------
LeaseStep(t) ==
  \/ AcquireScan(t) \/ AcquireFails(t) \/ ReuseSessionLease(t) \/ DetachSessionLease(t)
  \/ CloseOld(t) \/ AcquireSession(t) \/ InstallSessionLease(t) \/ InstallRefused(t)

PoolStep(t) ==
  \/ PoolSlotCancelled(t) \/ BeginOpening(t) \/ OpeningRefused(t)
  \/ Launch(t) \/ LaunchFails(t) \/ Register(t) \/ RegisterRejected(t) \/ Rejected(t)
  \/ PoolUnwind(t) \/ AddPoolHook(t)

OpenStep(t) ==
  \/ TakeSession(t) \/ GiveUp(t) \/ OpenInSlot(t) \/ OpenInSlotRefused(t)
  \/ LeaseStep(t) \/ EnsurePool(t) \/ PoolFails(t) \/ PoolStep(t) \/ AddFactoryHook(t)

ReleaseStep(t) == ReleaseLease(t) \/ ReleaseSlot(t)

CloseStep(t) ==
  \/ CloseByContext(t) \/ CloseByPool(t) \/ CloseChrome(t)
  \/ RunPoolHook(t) \/ RunFactoryHook(t) \/ HooksDone(t)

FactoryStep ==
  \/ PoolClose \/ PoolOpeningsDone \/ (\E t \in Tasks : PoolCloseNext(t)) \/ PoolClosedOne
  \/ StopRuntime \/ CloseSessionLease

Next ==
  \/ \E t \in Tasks :
       Open(t) \/ OpenStep(t) \/ ReleaseStep(t) \/ CloseByUser(t) \/ CloseStep(t)
         \/ CancelTask(t) \/ LoseLease(t)
  \/ FactoryClose
  \/ FactoryStep
  \/ ConfigureEgress

(***************************************************************************)
(* Goroutines that can run do run, and the calls they make (Soxy, the      *)
(* launch of Chrome) return.  Nothing obliges a caller to open, to close   *)
(* or to cancel, a lease to be lost or the factory to be closed.           *)
(***************************************************************************)
Fairness ==
  /\ \A t \in Tasks : WF_vars(OpenStep(t)) /\ WF_vars(ReleaseStep(t)) /\ WF_vars(CloseStep(t))
  /\ WF_vars(FactoryStep)

Spec == Init /\ [][Next]_vars

FairSpec == Spec /\ Fairness

-----------------------------------------------------------------------------
(***************************************************************************)
(* Every slot number is in the channel or with exactly one task, whichever *)
(* of the error returns, hooks and closers gave it back (openInSlot,       *)
(* cleanupUnlessSucceeded, AddCloseHook).                                  *)
(***************************************************************************)
SlotsConserved ==
  \A s \in Slots :
    /\ s \in slots \/ \E t \in Tasks : slot[t] = s
    /\ s \in slots => \A t \in Tasks : slot[t] # s
    /\ \A t, u \in Tasks : slot[t] = s /\ slot[u] = s => t = u

(***************************************************************************)
(* The same for the pool's tokens: releaseAdapter sends while it holds     *)
(* pool.mu, so one token too many would block the pool for good.           *)
(***************************************************************************)
HoldsPoolSlot(t) ==
  t \in active \/ pc[t] \in {"launching", "register", "rejected", "poolUnwind"}

PoolSlotsConserved ==
  pool # "none" =>
    poolFree + Cardinality({t \in Tasks : HoldsPoolSlot(t)}) = Cardinality(Slots)

(***************************************************************************)
(* "All authenticated work is serialized through the single account        *)
(* profile" (Factory): two Chrome processes never run on that profile,     *)
(* even while one is being torn down and the next one opens.               *)
(***************************************************************************)
AccountProfileExclusive ==
  \A t, u \in Tasks : Session(t) /\ Session(u) /\ chrome[t] /\ chrome[u] => t = u

(***************************************************************************)
(* "Existing tasks keep their original lease for their full lifetime"      *)
(* (ConfigureEgress): the lease of a running Chrome is never released,     *)
(* neither by its own task's cleanup nor by a session that replaces the    *)
(* shared lease nor by Factory.Close.                                      *)
(***************************************************************************)
LeaseOutlivesBrowser ==
  \A t \in Tasks : chrome[t] => lease[t] # None /\ leaseState[lease[t]] # "closed"

(***************************************************************************)
(* The Playwright runtime is stopped only after every Chrome it started,   *)
(* the ones still being opened when pool.Close ran included.               *)
(***************************************************************************)
RuntimeOutlivesBrowser == stopped => \A t \in Tasks : ~chrome[t]

(***************************************************************************)
(* The factory implements BrowserService, which is all the scanner knows   *)
(* of it: as many Chromes as slots, although a pool and a factory count    *)
(* them separately; none is started once pool.Close has looked, although   *)
(* NewAdapter waits for its token without looking; and Close ends with     *)
(* none.                                                                   *)
(***************************************************************************)
Service == INSTANCE BrowserService WITH
  Browsers <- Tasks,
  Account <- {t \in Tasks : Session(t)},
  Capacity <- Cardinality(Slots),
  running <- {t \in Tasks : chrome[t]},
  phase <- IF closePC \in {"running", "poolClose"} THEN "open"
           ELSE IF closePC \in {"poolWait", "adapters"} THEN "shut" ELSE "down"

ImplementsService == Service!Spec

(***************************************************************************)
(* The factory uses its leases as EgressLease has them: a task acquires at *)
(* most once, only a lease that was acquired is closed, and although a     *)
(* session that replaces the shared lease, an install after the factory    *)
(* was closed and Factory.Close all close leases of others, none of them   *)
(* brings one back.                                                        *)
(***************************************************************************)
Egress == INSTANCE EgressLease WITH Leases <- Tasks, state <- leaseState

RespectsLease == Egress!Spec

(***************************************************************************)
(* When Factory.Close has returned and every call of Open and every        *)
(* shutdown of an adapter is over, nothing is left: every lease was        *)
(* released, every slot, pool token and the session token given back, and  *)
(* no Chrome runs.  No error return, no hook lost to the race between      *)
(* AddCloseHook and Close, and no lease acquired or replaced behind the    *)
(* back of Close leaves something nobody will give back.                   *)
(***************************************************************************)
LeasesReturned == \A l \in Tasks : leaseState[l] \in {"unused", "closed"}

TokensReturned ==
  /\ slots = Slots /\ sessionFree
  /\ pool # "none" => poolFree = Cardinality(Slots)

AllReturned == LeasesReturned /\ TokensReturned /\ \A t \in Tasks : ~chrome[t]

Quiescent ==
  /\ closePC = "closed"
  /\ \A t \in Tasks : pc[t] \in {"idle", "open", "done"} /\ adapter[t] \in {"none", "down"}

NothingLeftBehind == Quiescent => AllReturned

(***************************************************************************)
(* And that point is reached: Factory.Close ends, all calls under way end  *)
(* with it, and everything is given back.                                  *)
(***************************************************************************)
ShutdownCompletes == closePC # "running" ~> [](closePC = "closed" /\ AllReturned)

(***************************************************************************)
(* A call of Open whose context ends returns, wherever it is waiting.      *)
(***************************************************************************)
CancelledOpenReturns ==
  \A t \in Tasks : (cancelled[t] /\ pc[t] # "idle") ~> pc[t] \in {"open", "done"}

=============================================================================
