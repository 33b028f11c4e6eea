------------------------ MODULE BrowserFactoryProofs ------------------------
(***************************************************************************)
(* Proofs about BrowserFactory for every number of tasks, slots, leases    *)
(* and reconfigurations.  The invariants follow from the inductive         *)
(* invariant FactoryInv, whose parts say what a task holds at each         *)
(* position of Open, what the state of its adapter tells about its Chrome, *)
(* who may still use a lease, and which browsers pool.Close has to wait    *)
(* for.                                                                    *)
(***************************************************************************)
EXTENDS BrowserFactory, FiniteSetTheorems, TLAPS

\* Open has a slot number, which its release has not given back.
HoldsSlot(t) ==
  \/ pc[t] \in {"lease", "closeOld", "acquire", "install", "pool", "poolSlot", "launching",
                "register", "rejected", "poolUnwind", "poolHook", "factoryHook"}
  \/ pc[t] \in {"open", "releasing"} /\ release[t] # "done"

\* The slot numbers and the session token are with the tasks that need them.
TokenInv ==
  /\ \A t \in Tasks : pc[t] = "session" => Session(t)
  /\ \A t \in Tasks : slot[t] # None <=> HoldsSlot(t)
  /\ \A t \in Tasks : holdsSession[t] <=> Session(t) /\ (pc[t] = "slot" \/ HoldsSlot(t))
  /\ \A t, u \in Tasks : holdsSession[t] /\ holdsSession[u] => t = u
  /\ sessionFree => \A t \in Tasks : ~holdsSession[t]

\* The release of a task's resources runs once, and in a task that has none running.
ReleaseInv ==
  \A t \in Tasks :
    /\ release[t] # "none" => pc[t] \in {"open", "releasing", "done"} /\ ~chrome[t]
    /\ pc[t] = "releasing" => release[t] \in {"lease", "slot"}
    /\ pc[t] = "done" => release[t] \in {"none", "done"}

\* An adapter has a Chrome until its Close has stopped it.
AdapterInv ==
  \A t \in Tasks :
    /\ adapter[t] = "none" => (chrome[t] <=> pc[t] = "launching")
    /\ adapter[t] \in {"live", "closing"} => chrome[t]
    /\ adapter[t] \in {"closed", "down"} => ~chrome[t]
    /\ adapter[t] # "none"
         => pc[t] \in {"register", "rejected", "poolUnwind", "poolHook", "factoryHook", "open",
                       "releasing", "done"}
    /\ pc[t] \in {"register", "rejected", "poolHook", "factoryHook", "open"}
         => adapter[t] # "none"
    /\ pc[t] = "poolUnwind" => adapter[t] \in {"none", "down"}
    /\ pc[t] \in {"releasing", "done"} => ~chrome[t]
    /\ hooks[t] # {} => pc[t] \in {"factoryHook", "open", "releasing", "done"}
    /\ "factory" \in hooks[t] => pc[t] = "open"

\* A task whose Chrome runs, or may yet be started.
UsesLease(t) == pc[t] \in {"pool", "poolSlot"} \/ chrome[t]

\* Open has not yet got the lease it asked for.
Unleased(t) ==
  pc[t] \in {"idle", "session", "slot", "lease", "closeOld", "acquire", "install"}

\* A lease the factory shares, is about to replace or will close.
Handed(l) == sessionLease = l \/ closingLease = l \/ \E u \in Tasks : stale[u] = l

\* A lease that is used is not closed before Factory.Close ends, when no
\* Chrome can be started any more; only sessions use the leases of sessions.
LeaseInv ==
  /\ \A t \in Tasks : lease[t] # None => (Session(lease[t]) <=> Session(t))
  /\ \A t \in Tasks : lease[t] # None /\ ~Session(t) => lease[t] = t
  /\ \A t \in Tasks : stale[t] # None => pc[t] = "closeOld" /\ Session(stale[t])
  /\ \A t \in Tasks : pc[t] = "closeOld" => stale[t] # None
  /\ \A t \in Tasks : pc[t] \in {"closeOld", "acquire", "install"} => Session(t)
  /\ sessionLease # None => Session(sessionLease)
  /\ \A l \in Tasks : Handed(l) => ~Unleased(l)
  /\ \A t \in Tasks : pc[t] = "install" => leaseState[t] # "closed"
  /\ \A t \in Tasks :
       UsesLease(t) =>
         lease[t] # None /\ (leaseState[lease[t]] = "closed" => closePC = "closed")

\* Where the browsers are that pool.Close has to close.
PoolInv ==
  /\ pool = "none" =>
       /\ poolFree = 0 /\ active = {} /\ opening = {}
       /\ \A t \in Tasks :
            pc[t] \notin {"poolSlot", "launching", "register", "rejected", "poolUnwind",
                          "poolHook", "factoryHook", "open"}
  /\ \A t \in Tasks :
       pc[t] \in {"launching", "register", "rejected", "poolHook"} => t \in opening
  /\ \A t \in opening :
       pc[t] \in {"launching", "register", "rejected", "poolUnwind", "poolHook"}
  /\ \A t \in active : pc[t] \in {"poolHook", "factoryHook", "open", "releasing", "done"}
  /\ \A t \in Tasks : pc[t] = "poolHook" => t \in active
  /\ \A t \in Tasks : pc[t] \in {"factoryHook", "open"} /\ chrome[t] => t \in active

CloseInv ==
  /\ closed <=> closePC # "running"
  /\ closePC \in {"running", "poolClose"} => pool # "closed"
  /\ closePC \in {"poolClose", "poolWait", "adapters"} => pool # "none" /\ ~stopped
  /\ closePC \in {"poolWait", "adapters"} => pool = "closed"
  /\ closePC \in {"lease", "closed"} => pool = "none" \/ stopped
  /\ closePC = "running" => ~stopped
  /\ stopped => pool = "closed"
  /\ closePC = "adapters" => opening = {}
  /\ pool = "closed" =>
       \A t \in Tasks :
         chrome[t] => \/ t \in toClose \/ t = target
                      \/ pc[t] \in {"launching", "register", "rejected"}
  /\ RuntimeOutlivesBrowser

FactoryInv ==
  /\ TypeOK /\ SlotsConserved /\ TokenInv /\ ReleaseInv /\ AdapterInv /\ LeaseInv
  /\ PoolInv /\ PoolSlotsConserved /\ CloseInv

\* Open has asked for no lease of its own yet.
Unasked(t) == pc[t] \in {"idle", "session", "slot", "lease", "closeOld", "acquire"}

(***************************************************************************)
(* Somebody will close a lease that is not closed: the scan it belongs to, *)
(* the session that installs it, the session that replaces it, or the      *)
(* factory, which keeps the shared one and, once it is being closed, has   *)
(* taken note of it.                                                       *)
(***************************************************************************)
Owned(l) ==
  \/ ~Session(l) /\ lease[l] = l /\ release[l] \in {"none", "lease"}
  \/ pc[l] = "install"
  \/ \E t \in Tasks : stale[t] = l
  \/ closed /\ closingLease = l /\ closePC # "closed"
  \/ ~closed /\ sessionLease = l

OwnerInv ==
  /\ \A l \in Tasks : Unasked(l) => leaseState[l] = "unused"
  /\ \A l \in Tasks : Handed(l) => Session(l) /\ leaseState[l] # "unused"
  /\ \A t \in Tasks : pc[t] = "install" => leaseState[t] # "unused"
  /\ \A t \in Tasks : lease[t] # None => HoldsSlot(t) /\ leaseState[lease[t]] # "unused"
  /\ \A t \in Tasks : pc[t] \in {"closeOld", "acquire", "install"} => sessionLease = None
  /\ \A l \in Tasks : leaseState[l] \in {"live", "lost"} => Owned(l)

\* The hooks of an adapter that is not down give back what its task holds.
HookInv ==
  /\ \A t \in Tasks :
       /\ adapter[t] \in {"none", "down"} => hooks[t] = {}
       /\ pc[t] = "open" => IF adapter[t] = "down" THEN release[t] = "done"
                            ELSE "factory" \in hooks[t]
       /\ t \in active => pc[t] = "poolHook" \/ "pool" \in hooks[t]
  /\ sessionFree \/ \E t \in Tasks : holdsSession[t]

-----------------------------------------------------------------------------
(***************************************************************************)
(* The pool's tokens: counting the tasks that hold one.                    *)
(***************************************************************************)
Holders == {t \in Tasks : HoldsPoolSlot(t)}

\* There are finitely many holders, so that they can be counted.
LEMMA HoldersFinite == IsFiniteSet(Holders) /\ Cardinality(Holders) \in Nat
<1>1. Holders \in SUBSET Tasks
  BY DEF Holders
<1>2. IsFiniteSet(Holders)
  BY <1>1, FactoryConstants, FS_Subset
<1> QED
  BY <1>2, FS_CardinalityType

\* A step that neither takes nor returns a token keeps their number.
LEMMA SameHolders ==
  ASSUME PoolSlotsConserved, poolFree' = poolFree, pool' # "none" => pool # "none",
         \A u \in Tasks : HoldsPoolSlot(u)' <=> HoldsPoolSlot(u)
  PROVE  PoolSlotsConserved'
<1>1. {u \in Tasks : HoldsPoolSlot(u)}' = {u \in Tasks : HoldsPoolSlot(u)}
  OBVIOUS
<1> QED
  BY <1>1 DEF PoolSlotsConserved

\* A task takes a token out of the channel.
LEMMA HolderAdded ==
  ASSUME TypeOK, PoolSlotsConserved, pool # "none", poolFree' = poolFree - 1,
         NEW t \in Tasks, ~HoldsPoolSlot(t), HoldsPoolSlot(t)',
         \A u \in Tasks \ {t} : HoldsPoolSlot(u)' <=> HoldsPoolSlot(u)
  PROVE  PoolSlotsConserved'
<1>1. Holders' = Holders \cup {t} /\ t \notin Holders
  BY DEF Holders
<1>2. Cardinality(Holders') = Cardinality(Holders) + 1
  BY <1>1, HoldersFinite, FS_AddElement
<1>3. poolFree' + Cardinality(Holders') = Cardinality(Slots)
  BY <1>2, HoldersFinite DEF PoolSlotsConserved, Holders, TypeOK
<1> QED
  BY <1>3 DEF PoolSlotsConserved, Holders

\* A task returns its token to the channel.
LEMMA HolderRemoved ==
  ASSUME TypeOK, PoolSlotsConserved, pool # "none", poolFree' = poolFree + 1,
         NEW t \in Tasks, HoldsPoolSlot(t), ~HoldsPoolSlot(t)',
         \A u \in Tasks \ {t} : HoldsPoolSlot(u)' <=> HoldsPoolSlot(u)
  PROVE  PoolSlotsConserved'
<1>1. Holders' = Holders \ {t} /\ t \in Holders
  BY DEF Holders
<1>2. Cardinality(Holders') = Cardinality(Holders) - 1
  BY <1>1, HoldersFinite, FS_RemoveElement
<1>3. poolFree' + Cardinality(Holders') = Cardinality(Slots)
  BY <1>2, HoldersFinite DEF PoolSlotsConserved, Holders, TypeOK
<1> QED
  BY <1>3 DEF PoolSlotsConserved, Holders

-----------------------------------------------------------------------------
\* A session whose Chrome runs or may yet be started has the session token.
LEMMA SessionUserHolds ==
  ASSUME FactoryInv, NEW u \in Tasks, UsesLease(u), Session(u)
  PROVE  holdsSession[u]
<1>1. HoldsSlot(u)
  BY DEF FactoryInv, UsesLease, HoldsSlot, AdapterInv, ReleaseInv, TypeOK
<1> QED
  BY <1>1 DEF FactoryInv, TokenInv

\* The initial state satisfies the inductive invariant.
LEMMA FactoryInvInit == Init => FactoryInv
<1> SUFFICES ASSUME Init PROVE FactoryInv
  OBVIOUS
<1>1. TypeOK
  <2>1. pc \in [Tasks -> PCs]
    BY DEF Init, PCs
  <2>2. /\ cancelled \in [Tasks -> BOOLEAN] /\ holdsSession \in [Tasks -> BOOLEAN]
        /\ chrome \in [Tasks -> BOOLEAN]
    BY DEF Init
  <2>3. /\ slots \subseteq Slots
        /\ active \subseteq Tasks /\ opening \subseteq Tasks /\ toClose \subseteq Tasks
    BY DEF Init
  <2>4. /\ hooks \in [Tasks -> SUBSET {"pool", "factory"}]
        /\ adapter \in [Tasks -> {"none", "live", "closing", "closed", "down"}]
        /\ release \in [Tasks -> {"none", "lease", "slot", "done"}]
        /\ leaseState \in [Tasks -> {"unused", "live", "lost", "closed"}]
    BY DEF Init
  <2>5. /\ slot \in [Tasks -> Slots \cup {None}]
        /\ lease \in [Tasks -> Tasks \cup {None}] /\ stale \in [Tasks -> Tasks \cup {None}]
    BY DEF Init
  <2>6. /\ manager \in Nat /\ sessionManager \in Nat /\ taskManager \in [Tasks -> Nat]
        /\ poolFree \in Int
    BY DEF Init
  <2> QED
    BY <2>1, <2>2, <2>3, <2>4, <2>5, <2>6 DEF Init, TypeOK
<1>2. SlotsConserved
  BY FactoryConstants DEF Init, SlotsConserved
<1>3. TokenInv
  BY DEF Init, TokenInv, HoldsSlot
<1>4. ReleaseInv
  BY DEF Init, ReleaseInv
<1>5. AdapterInv
  BY DEF Init, AdapterInv
<1>6. LeaseInv
  BY FactoryConstants DEF Init, LeaseInv, Unleased, Handed, UsesLease
<1>7. PoolInv
  BY DEF Init, PoolInv
<1>8. PoolSlotsConserved
  BY DEF Init, PoolSlotsConserved
<1>9. CloseInv
  BY DEF Init, CloseInv, RuntimeOutlivesBrowser
<1> QED
  BY <1>1, <1>2, <1>3, <1>4, <1>5, <1>6, <1>7, <1>8, <1>9 DEF FactoryInv

\* Every step preserves it.
LEMMA FactoryInvNext == FactoryInv /\ [Next]_vars => FactoryInv'
<1> SUFFICES ASSUME FactoryInv, [Next]_vars PROVE FactoryInv'
  OBVIOUS
<1> USE DEF FactoryInv, factoryVars, closeVars, poolVars, taskVars, adapterVars
<1>1. ASSUME NEW t \in Tasks, Open(t) PROVE FactoryInv'
  <2>1. TypeOK'
    BY <1>1 DEF TypeOK, PCs, Open, Goto, Session
  <2>2. SlotsConserved'
    BY <1>1, FactoryConstants DEF SlotsConserved, TypeOK, Open, Goto, Session
  <2>3. TokenInv'
    BY <1>1, FactoryConstants DEF TokenInv, HoldsSlot, Session, TypeOK, Open, Goto
  <2>4. ReleaseInv'
    BY <1>1 DEF ReleaseInv, TypeOK, Open, Goto, Session
  <2>5. AdapterInv'
    BY <1>1 DEF AdapterInv, TypeOK, Open, Goto, Session
  <2>6. LeaseInv'
    BY <1>1, FactoryConstants DEF LeaseInv, Unleased, Handed, UsesLease, Session, TypeOK, Open,
       Goto
  <2>7. PoolInv'
    BY <1>1 DEF PoolInv, TypeOK, Open, Goto, Session
  <2>8. PoolSlotsConserved'
    BY <1>1, SameHolders DEF HoldsPoolSlot, TypeOK, Open, Goto, Session
  <2>9. CloseInv'
    BY <1>1 DEF CloseInv, RuntimeOutlivesBrowser, TypeOK, Open, Goto, Session
  <2> QED  BY <2>1, <2>2, <2>3, <2>4, <2>5, <2>6, <2>7, <2>8, <2>9
<1>2. ASSUME NEW t \in Tasks, TakeSession(t) PROVE FactoryInv'
  <2>1. TypeOK'
    BY <1>2 DEF TypeOK, PCs, TakeSession, Goto
  <2>2. SlotsConserved'
    BY <1>2, FactoryConstants DEF SlotsConserved, TypeOK, TakeSession, Goto
  <2>3. TokenInv'
    BY <1>2, FactoryConstants DEF TokenInv, HoldsSlot, Session, TypeOK, TakeSession, Goto
  <2>4. ReleaseInv'
    BY <1>2 DEF ReleaseInv, TypeOK, TakeSession, Goto
  <2>5. AdapterInv'
    BY <1>2 DEF AdapterInv, TypeOK, TakeSession, Goto
  <2>6. LeaseInv'
    BY <1>2, FactoryConstants DEF LeaseInv, Unleased, Handed, UsesLease, Session, TypeOK,
       TakeSession, Goto
  <2>7. PoolInv'
    BY <1>2 DEF PoolInv, TypeOK, TakeSession, Goto
  <2>8. PoolSlotsConserved'
    BY <1>2, SameHolders DEF HoldsPoolSlot, TypeOK, TakeSession, Goto
  <2>9. CloseInv'
    BY <1>2 DEF CloseInv, RuntimeOutlivesBrowser, TypeOK, TakeSession, Goto
  <2> QED  BY <2>1, <2>2, <2>3, <2>4, <2>5, <2>6, <2>7, <2>8, <2>9
<1>3. ASSUME NEW t \in Tasks, GiveUp(t) PROVE FactoryInv'
  <2>1. TypeOK'
    BY <1>3 DEF TypeOK, PCs, GiveUp
  <2>2. SlotsConserved'
    BY <1>3, FactoryConstants DEF SlotsConserved, TypeOK, GiveUp
  <2>3. TokenInv'
    BY <1>3, FactoryConstants DEF TokenInv, HoldsSlot, Session, TypeOK, GiveUp
  <2>4. ReleaseInv'
    BY <1>3 DEF ReleaseInv, TypeOK, GiveUp
  <2>5. AdapterInv'
    BY <1>3 DEF AdapterInv, TypeOK, GiveUp
  <2>6. LeaseInv'
    BY <1>3, FactoryConstants DEF LeaseInv, Unleased, Handed, UsesLease, Session, TypeOK,
       GiveUp
  <2>7. PoolInv'
    BY <1>3 DEF PoolInv, TypeOK, GiveUp
  <2>8. PoolSlotsConserved'
    BY <1>3, SameHolders DEF HoldsPoolSlot, TypeOK, GiveUp
  <2>9. CloseInv'
    BY <1>3 DEF CloseInv, RuntimeOutlivesBrowser, TypeOK, GiveUp
  <2> QED  BY <2>1, <2>2, <2>3, <2>4, <2>5, <2>6, <2>7, <2>8, <2>9
<1>4. ASSUME NEW t \in Tasks, OpenInSlot(t) PROVE FactoryInv'
  <2>1. TypeOK'
    BY <1>4 DEF TypeOK, PCs, OpenInSlot, Goto, TakeSlot
  <2>2. SlotsConserved'
    BY <1>4, FactoryConstants DEF SlotsConserved, TypeOK, OpenInSlot, Goto, TakeSlot, TokenInv,
       HoldsSlot
  <2>3. TokenInv'
    BY <1>4, FactoryConstants DEF TokenInv, HoldsSlot, Session, TypeOK, OpenInSlot, Goto,
       TakeSlot
  <2>4. ReleaseInv'
    BY <1>4 DEF ReleaseInv, TypeOK, OpenInSlot, Goto, TakeSlot
  <2>5. AdapterInv'
    BY <1>4 DEF AdapterInv, TypeOK, OpenInSlot, Goto, TakeSlot
  <2>6. LeaseInv'
    BY <1>4, FactoryConstants DEF LeaseInv, Unleased, Handed, UsesLease, Session, TypeOK,
       OpenInSlot, Goto, TakeSlot
  <2>7. PoolInv'
    BY <1>4 DEF PoolInv, TypeOK, OpenInSlot, Goto, TakeSlot
  <2>8. PoolSlotsConserved'
    BY <1>4, SameHolders DEF HoldsPoolSlot, TypeOK, OpenInSlot, Goto, TakeSlot
  <2>9. CloseInv'
    BY <1>4 DEF CloseInv, RuntimeOutlivesBrowser, TypeOK, OpenInSlot, Goto, TakeSlot
  <2> QED  BY <2>1, <2>2, <2>3, <2>4, <2>5, <2>6, <2>7, <2>8, <2>9
<1>5. ASSUME NEW t \in Tasks, OpenInSlotRefused(t) PROVE FactoryInv'
  <2>1. TypeOK'
    BY <1>5 DEF TypeOK, PCs, OpenInSlotRefused, Fail, Goto, TakeSlot
  <2>2. SlotsConserved'
    BY <1>5, FactoryConstants DEF SlotsConserved, TypeOK, OpenInSlotRefused, Fail, Goto,
       TakeSlot, TokenInv, HoldsSlot
  <2>3. TokenInv'
    BY <1>5, FactoryConstants DEF TokenInv, HoldsSlot, Session, TypeOK, OpenInSlotRefused,
       Fail, Goto, TakeSlot
  <2>4. ReleaseInv'
    BY <1>5 DEF ReleaseInv, TypeOK, OpenInSlotRefused, Fail, Goto, TakeSlot, AdapterInv
  <2>5. AdapterInv'
    BY <1>5 DEF AdapterInv, TypeOK, OpenInSlotRefused, Fail, Goto, TakeSlot
  <2>6. LeaseInv'
    BY <1>5, FactoryConstants DEF LeaseInv, Unleased, Handed, UsesLease, Session, TypeOK,
       OpenInSlotRefused, Fail, Goto, TakeSlot
  <2>7. PoolInv'
    BY <1>5 DEF PoolInv, TypeOK, OpenInSlotRefused, Fail, Goto, TakeSlot
  <2>8. PoolSlotsConserved'
    BY <1>5, SameHolders DEF HoldsPoolSlot, TypeOK, OpenInSlotRefused, Fail, Goto, TakeSlot
  <2>9. CloseInv'
    BY <1>5 DEF CloseInv, RuntimeOutlivesBrowser, TypeOK, OpenInSlotRefused, Fail, Goto,
       TakeSlot
  <2> QED  BY <2>1, <2>2, <2>3, <2>4, <2>5, <2>6, <2>7, <2>8, <2>9
<1>6. ASSUME NEW t \in Tasks, AcquireScan(t) PROVE FactoryInv'
  <2>1. TypeOK'
    BY <1>6 DEF TypeOK, PCs, AcquireScan, Goto
  <2>2. SlotsConserved'
    BY <1>6, FactoryConstants DEF SlotsConserved, TypeOK, AcquireScan, Goto
  <2>3. TokenInv'
    BY <1>6, FactoryConstants DEF TokenInv, HoldsSlot, Session, TypeOK, AcquireScan, Goto
  <2>4. ReleaseInv'
    BY <1>6 DEF ReleaseInv, TypeOK, AcquireScan, Goto
  <2>5. AdapterInv'
    BY <1>6 DEF AdapterInv, TypeOK, AcquireScan, Goto
  <2>6. LeaseInv'
    BY <1>6, FactoryConstants DEF LeaseInv, Unleased, Handed, UsesLease, Session, TypeOK,
       AcquireScan, Goto
  <2>7. PoolInv'
    BY <1>6 DEF PoolInv, TypeOK, AcquireScan, Goto
  <2>8. PoolSlotsConserved'
    BY <1>6, SameHolders DEF HoldsPoolSlot, TypeOK, AcquireScan, Goto
  <2>9. CloseInv'
    BY <1>6 DEF CloseInv, RuntimeOutlivesBrowser, TypeOK, AcquireScan, Goto
  <2> QED  BY <2>1, <2>2, <2>3, <2>4, <2>5, <2>6, <2>7, <2>8, <2>9
<1>7. ASSUME NEW t \in Tasks, AcquireFails(t) PROVE FactoryInv'
  <2>1. TypeOK'
    BY <1>7 DEF TypeOK, PCs, AcquireFails, Fail, Goto
  <2>2. SlotsConserved'
    BY <1>7, FactoryConstants DEF SlotsConserved, TypeOK, AcquireFails, Fail, Goto
  <2>3. TokenInv'
    BY <1>7, FactoryConstants DEF TokenInv, HoldsSlot, Session, TypeOK, AcquireFails, Fail,
       Goto
  <2>4. ReleaseInv'
    BY <1>7 DEF ReleaseInv, TypeOK, AcquireFails, Fail, Goto, AdapterInv
  <2>5. AdapterInv'
    BY <1>7 DEF AdapterInv, TypeOK, AcquireFails, Fail, Goto
  <2>6. LeaseInv'
    BY <1>7, FactoryConstants DEF LeaseInv, Unleased, Handed, UsesLease, Session, TypeOK,
       AcquireFails, Fail, Goto
  <2>7. PoolInv'
    BY <1>7 DEF PoolInv, TypeOK, AcquireFails, Fail, Goto
  <2>8. PoolSlotsConserved'
    BY <1>7, SameHolders DEF HoldsPoolSlot, TypeOK, AcquireFails, Fail, Goto
  <2>9. CloseInv'
    BY <1>7 DEF CloseInv, RuntimeOutlivesBrowser, TypeOK, AcquireFails, Fail, Goto
  <2> QED  BY <2>1, <2>2, <2>3, <2>4, <2>5, <2>6, <2>7, <2>8, <2>9
<1>8. ASSUME NEW t \in Tasks, ReuseSessionLease(t) PROVE FactoryInv'
  <2>1. TypeOK'
    BY <1>8 DEF TypeOK, PCs, ReuseSessionLease, Goto, Reusable
  <2>2. SlotsConserved'
    BY <1>8, FactoryConstants DEF SlotsConserved, TypeOK, ReuseSessionLease, Goto, Reusable
  <2>3. TokenInv'
    BY <1>8, FactoryConstants DEF TokenInv, HoldsSlot, Session, TypeOK, ReuseSessionLease,
       Goto, Reusable
  <2>4. ReleaseInv'
    BY <1>8 DEF ReleaseInv, TypeOK, ReuseSessionLease, Goto, Reusable
  <2>5. AdapterInv'
    BY <1>8 DEF AdapterInv, TypeOK, ReuseSessionLease, Goto, Reusable
  <2>6. LeaseInv'
    BY <1>8, FactoryConstants DEF LeaseInv, Unleased, Handed, UsesLease, Session, TypeOK,
       ReuseSessionLease, Goto, Reusable
  <2>7. PoolInv'
    BY <1>8 DEF PoolInv, TypeOK, ReuseSessionLease, Goto, Reusable
  <2>8. PoolSlotsConserved'
    BY <1>8, SameHolders DEF HoldsPoolSlot, TypeOK, ReuseSessionLease, Goto, Reusable
  <2>9. CloseInv'
    BY <1>8 DEF CloseInv, RuntimeOutlivesBrowser, TypeOK, ReuseSessionLease, Goto, Reusable
  <2> QED  BY <2>1, <2>2, <2>3, <2>4, <2>5, <2>6, <2>7, <2>8, <2>9
<1>9. ASSUME NEW t \in Tasks, DetachSessionLease(t) PROVE FactoryInv'
  <2>1. TypeOK'
    BY <1>9 DEF TypeOK, PCs, DetachSessionLease, Goto
  <2>2. SlotsConserved'
    BY <1>9, FactoryConstants DEF SlotsConserved, TypeOK, DetachSessionLease, Goto
  <2>3. TokenInv'
    BY <1>9, FactoryConstants DEF TokenInv, HoldsSlot, Session, TypeOK, DetachSessionLease,
       Goto
  <2>4. ReleaseInv'
    BY <1>9 DEF ReleaseInv, TypeOK, DetachSessionLease, Goto
  <2>5. AdapterInv'
    BY <1>9 DEF AdapterInv, TypeOK, DetachSessionLease, Goto
  <2>6. LeaseInv'
    BY <1>9, FactoryConstants DEF LeaseInv, Unleased, Handed, UsesLease, Session, TypeOK,
       DetachSessionLease, Goto
  <2>7. PoolInv'
    BY <1>9 DEF PoolInv, TypeOK, DetachSessionLease, Goto
  <2>8. PoolSlotsConserved'
    BY <1>9, SameHolders DEF HoldsPoolSlot, TypeOK, DetachSessionLease, Goto
  <2>9. CloseInv'
    BY <1>9 DEF CloseInv, RuntimeOutlivesBrowser, TypeOK, DetachSessionLease, Goto
  <2> QED  BY <2>1, <2>2, <2>3, <2>4, <2>5, <2>6, <2>7, <2>8, <2>9
<1>10. ASSUME NEW t \in Tasks, CloseOld(t) PROVE FactoryInv'
  <2>1. TypeOK'
    BY <1>10 DEF TypeOK, PCs, CloseOld, Goto
  <2>2. SlotsConserved'
    BY <1>10, FactoryConstants DEF SlotsConserved, TypeOK, CloseOld, Goto
  <2>3. TokenInv'
    BY <1>10, FactoryConstants DEF TokenInv, HoldsSlot, Session, TypeOK, CloseOld, Goto
  <2>4. ReleaseInv'
    BY <1>10 DEF ReleaseInv, TypeOK, CloseOld, Goto
  <2>5. AdapterInv'
    BY <1>10 DEF AdapterInv, TypeOK, CloseOld, Goto
  <2>6. LeaseInv'
    <3>1. \A u \in Tasks : UsesLease(u) => lease[u] # stale[t]
      BY <1>10, SessionUserHolds, FactoryConstants
         DEF CloseOld, Goto, LeaseInv, UsesLease, TokenInv, HoldsSlot, AdapterInv, TypeOK
    <3> QED
      BY <1>10, <3>1, FactoryConstants DEF LeaseInv, Unleased, Handed, UsesLease, Session,
         TypeOK, CloseOld, Goto
  <2>7. PoolInv'
    BY <1>10 DEF PoolInv, TypeOK, CloseOld, Goto
  <2>8. PoolSlotsConserved'
    BY <1>10, SameHolders DEF HoldsPoolSlot, TypeOK, CloseOld, Goto
  <2>9. CloseInv'
    BY <1>10 DEF CloseInv, RuntimeOutlivesBrowser, TypeOK, CloseOld, Goto
  <2> QED  BY <2>1, <2>2, <2>3, <2>4, <2>5, <2>6, <2>7, <2>8, <2>9
<1>11. ASSUME NEW t \in Tasks, AcquireSession(t) PROVE FactoryInv'
  <2>1. TypeOK'
    BY <1>11 DEF TypeOK, PCs, AcquireSession, Goto
  <2>2. SlotsConserved'
    BY <1>11, FactoryConstants DEF SlotsConserved, TypeOK, AcquireSession, Goto
  <2>3. TokenInv'
    BY <1>11, FactoryConstants DEF TokenInv, HoldsSlot, Session, TypeOK, AcquireSession, Goto
  <2>4. ReleaseInv'
    BY <1>11 DEF ReleaseInv, TypeOK, AcquireSession, Goto
  <2>5. AdapterInv'
    BY <1>11 DEF AdapterInv, TypeOK, AcquireSession, Goto
  <2>6. LeaseInv'
    BY <1>11, FactoryConstants DEF LeaseInv, Unleased, Handed, UsesLease, Session, TypeOK,
       AcquireSession, Goto
  <2>7. PoolInv'
    BY <1>11 DEF PoolInv, TypeOK, AcquireSession, Goto
  <2>8. PoolSlotsConserved'
    BY <1>11, SameHolders DEF HoldsPoolSlot, TypeOK, AcquireSession, Goto
  <2>9. CloseInv'
    BY <1>11 DEF CloseInv, RuntimeOutlivesBrowser, TypeOK, AcquireSession, Goto
  <2> QED  BY <2>1, <2>2, <2>3, <2>4, <2>5, <2>6, <2>7, <2>8, <2>9
<1>12. ASSUME NEW t \in Tasks, InstallSessionLease(t) PROVE FactoryInv'
  <2>1. TypeOK'
    BY <1>12 DEF TypeOK, PCs, InstallSessionLease, Goto
  <2>2. SlotsConserved'
    BY <1>12, FactoryConstants DEF SlotsConserved, TypeOK, InstallSessionLease, Goto
  <2>3. TokenInv'
    BY <1>12, FactoryConstants DEF TokenInv, HoldsSlot, Session, TypeOK, InstallSessionLease,
       Goto
  <2>4. ReleaseInv'
    BY <1>12 DEF ReleaseInv, TypeOK, InstallSessionLease, Goto
  <2>5. AdapterInv'
    BY <1>12 DEF AdapterInv, TypeOK, InstallSessionLease, Goto
  <2>6. LeaseInv'
    BY <1>12, FactoryConstants DEF LeaseInv, Unleased, Handed, UsesLease, Session, TypeOK,
       InstallSessionLease, Goto, AdapterInv, CloseInv
  <2>7. PoolInv'
    BY <1>12 DEF PoolInv, TypeOK, InstallSessionLease, Goto
  <2>8. PoolSlotsConserved'
    BY <1>12, SameHolders DEF HoldsPoolSlot, TypeOK, InstallSessionLease, Goto
  <2>9. CloseInv'
    BY <1>12 DEF CloseInv, RuntimeOutlivesBrowser, TypeOK, InstallSessionLease, Goto
  <2> QED  BY <2>1, <2>2, <2>3, <2>4, <2>5, <2>6, <2>7, <2>8, <2>9
<1>13. ASSUME NEW t \in Tasks, InstallRefused(t) PROVE FactoryInv'
  <2>1. TypeOK'
    BY <1>13 DEF TypeOK, PCs, InstallRefused, Fail, Goto
  <2>2. SlotsConserved'
    BY <1>13, FactoryConstants DEF SlotsConserved, TypeOK, InstallRefused, Fail, Goto
  <2>3. TokenInv'
    BY <1>13, FactoryConstants DEF TokenInv, HoldsSlot, Session, TypeOK, InstallRefused, Fail,
       Goto
  <2>4. ReleaseInv'
    BY <1>13 DEF ReleaseInv, TypeOK, InstallRefused, Fail, Goto, AdapterInv
  <2>5. AdapterInv'
    BY <1>13 DEF AdapterInv, TypeOK, InstallRefused, Fail, Goto
  <2>6. LeaseInv'
    <3>1. \A u \in Tasks : UsesLease(u) => lease[u] # t
      BY <1>13, SessionUserHolds, FactoryConstants
         DEF InstallRefused, Fail, Goto, LeaseInv, UsesLease, TokenInv, HoldsSlot, AdapterInv,
             TypeOK
    <3> QED
      BY <1>13, <3>1, FactoryConstants DEF LeaseInv, Unleased, Handed, UsesLease, Session,
         TypeOK, InstallRefused,
         Fail, Goto
  <2>7. PoolInv'
    BY <1>13 DEF PoolInv, TypeOK, InstallRefused, Fail, Goto
  <2>8. PoolSlotsConserved'
    BY <1>13, SameHolders DEF HoldsPoolSlot, TypeOK, InstallRefused, Fail, Goto
  <2>9. CloseInv'
    BY <1>13 DEF CloseInv, RuntimeOutlivesBrowser, TypeOK, InstallRefused, Fail, Goto
  <2> QED  BY <2>1, <2>2, <2>3, <2>4, <2>5, <2>6, <2>7, <2>8, <2>9
<1>14. ASSUME NEW t \in Tasks, EnsurePool(t) PROVE FactoryInv'
  <2>1. TypeOK'
    BY <1>14, FactoryConstants, FS_CardinalityType DEF TypeOK, PCs, EnsurePool, Goto
  <2>2. SlotsConserved'
    BY <1>14, FactoryConstants DEF SlotsConserved, TypeOK, EnsurePool, Goto
  <2>3. TokenInv'
    BY <1>14, FactoryConstants DEF TokenInv, HoldsSlot, Session, TypeOK, EnsurePool, Goto
  <2>4. ReleaseInv'
    BY <1>14 DEF ReleaseInv, TypeOK, EnsurePool, Goto
  <2>5. AdapterInv'
    BY <1>14 DEF AdapterInv, TypeOK, EnsurePool, Goto
  <2>6. LeaseInv'
    BY <1>14, FactoryConstants DEF LeaseInv, Unleased, Handed, UsesLease, Session, TypeOK,
       EnsurePool, Goto
  <2>7. PoolInv'
    BY <1>14 DEF PoolInv, TypeOK, EnsurePool, Goto
  <2>8. PoolSlotsConserved'
    <3>1. CASE pool = "none"
      <4>1. {u \in Tasks : HoldsPoolSlot(u)'} = {}
        BY <1>14, <3>1 DEF HoldsPoolSlot, PoolInv, TypeOK, EnsurePool, Goto
      <4>2. poolFree' = Cardinality(Slots) /\ Cardinality(Slots) \in Nat
        BY <1>14, <3>1, FactoryConstants, FS_CardinalityType DEF EnsurePool
      <4> QED  BY <4>1, <4>2, FS_EmptySet DEF PoolSlotsConserved
    <3>2. CASE pool # "none"
      BY <1>14, <3>2, SameHolders DEF HoldsPoolSlot, TypeOK, EnsurePool, Goto
    <3> QED  BY <3>1, <3>2
  <2>9. CloseInv'
    BY <1>14 DEF CloseInv, RuntimeOutlivesBrowser, TypeOK, EnsurePool, Goto
  <2> QED  BY <2>1, <2>2, <2>3, <2>4, <2>5, <2>6, <2>7, <2>8, <2>9
<1>15. ASSUME NEW t \in Tasks, PoolFails(t) PROVE FactoryInv'
  <2>1. TypeOK'
    BY <1>15 DEF TypeOK, PCs, PoolFails, Fail, Goto
  <2>2. SlotsConserved'
    BY <1>15, FactoryConstants DEF SlotsConserved, TypeOK, PoolFails, Fail, Goto
  <2>3. TokenInv'
    BY <1>15, FactoryConstants DEF TokenInv, HoldsSlot, Session, TypeOK, PoolFails, Fail, Goto
  <2>4. ReleaseInv'
    BY <1>15 DEF ReleaseInv, TypeOK, PoolFails, Fail, Goto, AdapterInv
  <2>5. AdapterInv'
    BY <1>15 DEF AdapterInv, TypeOK, PoolFails, Fail, Goto
  <2>6. LeaseInv'
    BY <1>15, FactoryConstants DEF LeaseInv, Unleased, Handed, UsesLease, Session, TypeOK,
       PoolFails, Fail, Goto
  <2>7. PoolInv'
    BY <1>15 DEF PoolInv, TypeOK, PoolFails, Fail, Goto
  <2>8. PoolSlotsConserved'
    BY <1>15, SameHolders DEF HoldsPoolSlot, TypeOK, PoolFails, Fail, Goto
  <2>9. CloseInv'
    BY <1>15 DEF CloseInv, RuntimeOutlivesBrowser, TypeOK, PoolFails, Fail, Goto
  <2> QED  BY <2>1, <2>2, <2>3, <2>4, <2>5, <2>6, <2>7, <2>8, <2>9
<1>16. ASSUME NEW t \in Tasks, PoolSlotCancelled(t) PROVE FactoryInv'
  <2>1. TypeOK'
    BY <1>16 DEF TypeOK, PCs, PoolSlotCancelled, Fail, Goto
  <2>2. SlotsConserved'
    BY <1>16, FactoryConstants DEF SlotsConserved, TypeOK, PoolSlotCancelled, Fail, Goto
  <2>3. TokenInv'
    BY <1>16, FactoryConstants DEF TokenInv, HoldsSlot, Session, TypeOK, PoolSlotCancelled,
       Fail, Goto
  <2>4. ReleaseInv'
    BY <1>16 DEF ReleaseInv, TypeOK, PoolSlotCancelled, Fail, Goto, AdapterInv
  <2>5. AdapterInv'
    BY <1>16 DEF AdapterInv, TypeOK, PoolSlotCancelled, Fail, Goto
  <2>6. LeaseInv'
    BY <1>16, FactoryConstants DEF LeaseInv, Unleased, Handed, UsesLease, Session, TypeOK,
       PoolSlotCancelled, Fail, Goto
  <2>7. PoolInv'
    BY <1>16 DEF PoolInv, TypeOK, PoolSlotCancelled, Fail, Goto
  <2>8. PoolSlotsConserved'
    BY <1>16, SameHolders DEF HoldsPoolSlot, TypeOK, PoolSlotCancelled, Fail, Goto
  <2>9. CloseInv'
    BY <1>16 DEF CloseInv, RuntimeOutlivesBrowser, TypeOK, PoolSlotCancelled, Fail, Goto
  <2> QED  BY <2>1, <2>2, <2>3, <2>4, <2>5, <2>6, <2>7, <2>8, <2>9
<1>17. ASSUME NEW t \in Tasks, BeginOpening(t) PROVE FactoryInv'
  <2>1. TypeOK'
    BY <1>17 DEF TypeOK, PCs, BeginOpening, Goto
  <2>2. SlotsConserved'
    BY <1>17, FactoryConstants DEF SlotsConserved, TypeOK, BeginOpening, Goto
  <2>3. TokenInv'
    BY <1>17, FactoryConstants DEF TokenInv, HoldsSlot, Session, TypeOK, BeginOpening, Goto
  <2>4. ReleaseInv'
    BY <1>17 DEF ReleaseInv, TypeOK, BeginOpening, Goto
  <2>5. AdapterInv'
    BY <1>17 DEF AdapterInv, TypeOK, BeginOpening, Goto
  <2>6. LeaseInv'
    BY <1>17, FactoryConstants DEF LeaseInv, Unleased, Handed, UsesLease, Session, TypeOK,
       BeginOpening, Goto
  <2>7. PoolInv'
    BY <1>17 DEF PoolInv, TypeOK, BeginOpening, Goto
  <2>8. PoolSlotsConserved'
    BY <1>17, HolderAdded DEF HoldsPoolSlot, TypeOK, BeginOpening, Goto, PoolInv
  <2>9. CloseInv'
    BY <1>17 DEF CloseInv, RuntimeOutlivesBrowser, TypeOK, BeginOpening, Goto
  <2> QED  BY <2>1, <2>2, <2>3, <2>4, <2>5, <2>6, <2>7, <2>8, <2>9
<1>18. ASSUME NEW t \in Tasks, OpeningRefused(t) PROVE FactoryInv'
  <2>1. TypeOK'
    BY <1>18 DEF TypeOK, PCs, OpeningRefused, Goto
  <2>2. SlotsConserved'
    BY <1>18, FactoryConstants DEF SlotsConserved, TypeOK, OpeningRefused, Goto
  <2>3. TokenInv'
    BY <1>18, FactoryConstants DEF TokenInv, HoldsSlot, Session, TypeOK, OpeningRefused, Goto
  <2>4. ReleaseInv'
    BY <1>18 DEF ReleaseInv, TypeOK, OpeningRefused, Goto
  <2>5. AdapterInv'
    BY <1>18 DEF AdapterInv, TypeOK, OpeningRefused, Goto
  <2>6. LeaseInv'
    BY <1>18, FactoryConstants DEF LeaseInv, Unleased, Handed, UsesLease, Session, TypeOK,
       OpeningRefused, Goto
  <2>7. PoolInv'
    BY <1>18 DEF PoolInv, TypeOK, OpeningRefused, Goto
  <2>8. PoolSlotsConserved'
    BY <1>18, HolderAdded DEF HoldsPoolSlot, TypeOK, OpeningRefused, Goto, PoolInv
  <2>9. CloseInv'
    BY <1>18 DEF CloseInv, RuntimeOutlivesBrowser, TypeOK, OpeningRefused, Goto
  <2> QED  BY <2>1, <2>2, <2>3, <2>4, <2>5, <2>6, <2>7, <2>8, <2>9
<1>19. ASSUME NEW t \in Tasks, Launch(t) PROVE FactoryInv'
  <2>1. TypeOK'
    BY <1>19 DEF TypeOK, PCs, Launch, Goto
  <2>2. SlotsConserved'
    BY <1>19, FactoryConstants DEF SlotsConserved, TypeOK, Launch, Goto
  <2>3. TokenInv'
    BY <1>19, FactoryConstants DEF TokenInv, HoldsSlot, Session, TypeOK, Launch, Goto
  <2>4. ReleaseInv'
    BY <1>19 DEF ReleaseInv, TypeOK, Launch, Goto
  <2>5. AdapterInv'
    BY <1>19 DEF AdapterInv, TypeOK, Launch, Goto
  <2>6. LeaseInv'
    BY <1>19, FactoryConstants DEF LeaseInv, Unleased, Handed, UsesLease, Session, TypeOK,
       Launch, Goto
  <2>7. PoolInv'
    BY <1>19 DEF PoolInv, TypeOK, Launch, Goto
  <2>8. PoolSlotsConserved'
    BY <1>19, SameHolders DEF HoldsPoolSlot, TypeOK, Launch, Goto
  <2>9. CloseInv'
    BY <1>19 DEF CloseInv, RuntimeOutlivesBrowser, TypeOK, Launch, Goto
  <2> QED  BY <2>1, <2>2, <2>3, <2>4, <2>5, <2>6, <2>7, <2>8, <2>9
<1>20. ASSUME NEW t \in Tasks, LaunchFails(t) PROVE FactoryInv'
  <2>1. TypeOK'
    BY <1>20 DEF TypeOK, PCs, LaunchFails, Goto
  <2>2. SlotsConserved'
    BY <1>20, FactoryConstants DEF SlotsConserved, TypeOK, LaunchFails, Goto
  <2>3. TokenInv'
    BY <1>20, FactoryConstants DEF TokenInv, HoldsSlot, Session, TypeOK, LaunchFails, Goto
  <2>4. ReleaseInv'
    BY <1>20 DEF ReleaseInv, TypeOK, LaunchFails, Goto
  <2>5. AdapterInv'
    BY <1>20 DEF AdapterInv, TypeOK, LaunchFails, Goto
  <2>6. LeaseInv'
    BY <1>20, FactoryConstants DEF LeaseInv, Unleased, Handed, UsesLease, Session, TypeOK,
       LaunchFails, Goto
  <2>7. PoolInv'
    BY <1>20 DEF PoolInv, TypeOK, LaunchFails, Goto
  <2>8. PoolSlotsConserved'
    BY <1>20, SameHolders DEF HoldsPoolSlot, TypeOK, LaunchFails, Goto
  <2>9. CloseInv'
    BY <1>20 DEF CloseInv, RuntimeOutlivesBrowser, TypeOK, LaunchFails, Goto
  <2> QED  BY <2>1, <2>2, <2>3, <2>4, <2>5, <2>6, <2>7, <2>8, <2>9
<1>21. ASSUME NEW t \in Tasks, Register(t) PROVE FactoryInv'
  <2>1. TypeOK'
    BY <1>21 DEF TypeOK, PCs, Register, Goto
  <2>2. SlotsConserved'
    BY <1>21, FactoryConstants DEF SlotsConserved, TypeOK, Register, Goto
  <2>3. TokenInv'
    BY <1>21, FactoryConstants DEF TokenInv, HoldsSlot, Session, TypeOK, Register, Goto
  <2>4. ReleaseInv'
    BY <1>21 DEF ReleaseInv, TypeOK, Register, Goto
  <2>5. AdapterInv'
    BY <1>21 DEF AdapterInv, TypeOK, Register, Goto
  <2>6. LeaseInv'
    BY <1>21, FactoryConstants DEF LeaseInv, Unleased, Handed, UsesLease, Session, TypeOK,
       Register, Goto
  <2>7. PoolInv'
    BY <1>21 DEF PoolInv, TypeOK, Register, Goto
  <2>8. PoolSlotsConserved'
    BY <1>21, SameHolders DEF HoldsPoolSlot, TypeOK, Register, Goto
  <2>9. CloseInv'
    BY <1>21 DEF CloseInv, RuntimeOutlivesBrowser, TypeOK, Register, Goto
  <2> QED  BY <2>1, <2>2, <2>3, <2>4, <2>5, <2>6, <2>7, <2>8, <2>9
<1>22. ASSUME NEW t \in Tasks, RegisterRejected(t) PROVE FactoryInv'
  <2>1. TypeOK'
    BY <1>22 DEF TypeOK, PCs, RegisterRejected, Goto
  <2>2. SlotsConserved'
    BY <1>22, FactoryConstants DEF SlotsConserved, TypeOK, RegisterRejected, Goto
  <2>3. TokenInv'
    BY <1>22, FactoryConstants DEF TokenInv, HoldsSlot, Session, TypeOK, RegisterRejected, Goto
  <2>4. ReleaseInv'
    BY <1>22 DEF ReleaseInv, TypeOK, RegisterRejected, Goto
  <2>5. AdapterInv'
    BY <1>22 DEF AdapterInv, TypeOK, RegisterRejected, Goto
  <2>6. LeaseInv'
    BY <1>22, FactoryConstants DEF LeaseInv, Unleased, Handed, UsesLease, Session, TypeOK,
       RegisterRejected, Goto
  <2>7. PoolInv'
    BY <1>22 DEF PoolInv, TypeOK, RegisterRejected, Goto
  <2>8. PoolSlotsConserved'
    BY <1>22, SameHolders DEF HoldsPoolSlot, TypeOK, RegisterRejected, Goto
  <2>9. CloseInv'
    BY <1>22 DEF CloseInv, RuntimeOutlivesBrowser, TypeOK, RegisterRejected, Goto
  <2> QED  BY <2>1, <2>2, <2>3, <2>4, <2>5, <2>6, <2>7, <2>8, <2>9
<1>23. ASSUME NEW t \in Tasks, Rejected(t) PROVE FactoryInv'
  <2>1. TypeOK'
    BY <1>23 DEF TypeOK, PCs, Rejected, Goto
  <2>2. SlotsConserved'
    BY <1>23, FactoryConstants DEF SlotsConserved, TypeOK, Rejected, Goto
  <2>3. TokenInv'
    BY <1>23, FactoryConstants DEF TokenInv, HoldsSlot, Session, TypeOK, Rejected, Goto
  <2>4. ReleaseInv'
    BY <1>23 DEF ReleaseInv, TypeOK, Rejected, Goto
  <2>5. AdapterInv'
    BY <1>23 DEF AdapterInv, TypeOK, Rejected, Goto
  <2>6. LeaseInv'
    BY <1>23, FactoryConstants DEF LeaseInv, Unleased, Handed, UsesLease, Session, TypeOK,
       Rejected, Goto
  <2>7. PoolInv'
    BY <1>23 DEF PoolInv, TypeOK, Rejected, Goto
  <2>8. PoolSlotsConserved'
    BY <1>23, SameHolders DEF HoldsPoolSlot, TypeOK, Rejected, Goto
  <2>9. CloseInv'
    BY <1>23 DEF CloseInv, RuntimeOutlivesBrowser, TypeOK, Rejected, Goto, AdapterInv
  <2> QED  BY <2>1, <2>2, <2>3, <2>4, <2>5, <2>6, <2>7, <2>8, <2>9
<1>24. ASSUME NEW t \in Tasks, PoolUnwind(t) PROVE FactoryInv'
  <2>1. TypeOK'
    BY <1>24 DEF TypeOK, PCs, PoolUnwind, Fail, Goto
  <2>2. SlotsConserved'
    BY <1>24, FactoryConstants DEF SlotsConserved, TypeOK, PoolUnwind, Fail, Goto
  <2>3. TokenInv'
    BY <1>24, FactoryConstants DEF TokenInv, HoldsSlot, Session, TypeOK, PoolUnwind, Fail, Goto
  <2>4. ReleaseInv'
    BY <1>24 DEF ReleaseInv, TypeOK, PoolUnwind, Fail, Goto, AdapterInv
  <2>5. AdapterInv'
    BY <1>24 DEF AdapterInv, TypeOK, PoolUnwind, Fail, Goto
  <2>6. LeaseInv'
    BY <1>24, FactoryConstants DEF LeaseInv, Unleased, Handed, UsesLease, Session, TypeOK,
       PoolUnwind, Fail, Goto
  <2>7. PoolInv'
    BY <1>24 DEF PoolInv, TypeOK, PoolUnwind, Fail, Goto
  <2>8. PoolSlotsConserved'
    BY <1>24, HolderRemoved DEF HoldsPoolSlot, TypeOK, PoolUnwind, Fail, Goto, PoolInv
  <2>9. CloseInv'
    BY <1>24 DEF CloseInv, RuntimeOutlivesBrowser, TypeOK, PoolUnwind, Fail, Goto
  <2> QED  BY <2>1, <2>2, <2>3, <2>4, <2>5, <2>6, <2>7, <2>8, <2>9
<1>25. ASSUME NEW t \in Tasks, AddPoolHook(t) PROVE FactoryInv'
  <2>1. TypeOK'
    BY <1>25 DEF TypeOK, PCs, AddPoolHook, Goto, HooksTaken, ReleaseAdapter
  <2>2. SlotsConserved'
    BY <1>25, FactoryConstants DEF SlotsConserved, TypeOK, AddPoolHook, Goto, HooksTaken,
       ReleaseAdapter
  <2>3. TokenInv'
    BY <1>25, FactoryConstants DEF TokenInv, HoldsSlot, Session, TypeOK, AddPoolHook, Goto,
       HooksTaken, ReleaseAdapter
  <2>4. ReleaseInv'
    BY <1>25 DEF ReleaseInv, TypeOK, AddPoolHook, Goto, HooksTaken, ReleaseAdapter
  <2>5. AdapterInv'
    BY <1>25 DEF AdapterInv, TypeOK, AddPoolHook, Goto, HooksTaken, ReleaseAdapter
  <2>6. LeaseInv'
    BY <1>25, FactoryConstants DEF LeaseInv, Unleased, Handed, UsesLease, Session, TypeOK,
       AddPoolHook, Goto, HooksTaken, ReleaseAdapter
  <2>7. PoolInv'
    BY <1>25 DEF PoolInv, TypeOK, AddPoolHook, Goto, HooksTaken, ReleaseAdapter, AdapterInv
  <2>8. PoolSlotsConserved'
    <3>1. CASE HooksTaken(t)
      BY <1>25, <3>1, HolderRemoved DEF HoldsPoolSlot, PoolInv, TypeOK, AddPoolHook, Goto,
         ReleaseAdapter
    <3>2. CASE ~HooksTaken(t)
      BY <1>25, <3>2, SameHolders DEF HoldsPoolSlot, PoolInv, TypeOK, AddPoolHook, Goto
    <3> QED  BY <3>1, <3>2
  <2>9. CloseInv'
    BY <1>25 DEF CloseInv, RuntimeOutlivesBrowser, TypeOK, AddPoolHook, Goto, HooksTaken,
       ReleaseAdapter
  <2> QED  BY <2>1, <2>2, <2>3, <2>4, <2>5, <2>6, <2>7, <2>8, <2>9
<1>26. ASSUME NEW t \in Tasks, AddFactoryHook(t) PROVE FactoryInv'
  <2>1. TypeOK'
    BY <1>26 DEF TypeOK, PCs, AddFactoryHook, Fail, Goto, HooksTaken
  <2>2. SlotsConserved'
    BY <1>26, FactoryConstants DEF SlotsConserved, TypeOK, AddFactoryHook, Fail, Goto,
       HooksTaken
  <2>3. TokenInv'
    BY <1>26, FactoryConstants DEF TokenInv, HoldsSlot, Session, TypeOK, AddFactoryHook, Fail,
       Goto, HooksTaken, ReleaseInv
  <2>4. ReleaseInv'
    BY <1>26 DEF ReleaseInv, TypeOK, AddFactoryHook, Fail, Goto, HooksTaken, AdapterInv
  <2>5. AdapterInv'
    BY <1>26 DEF AdapterInv, TypeOK, AddFactoryHook, Fail, Goto, HooksTaken
  <2>6. LeaseInv'
    BY <1>26, FactoryConstants DEF LeaseInv, Unleased, Handed, UsesLease, Session, TypeOK,
       AddFactoryHook, Fail, Goto, HooksTaken
  <2>7. PoolInv'
    BY <1>26 DEF PoolInv, TypeOK, AddFactoryHook, Fail, Goto, HooksTaken
  <2>8. PoolSlotsConserved'
    BY <1>26, SameHolders DEF HoldsPoolSlot, TypeOK, AddFactoryHook, Fail, Goto, HooksTaken
  <2>9. CloseInv'
    BY <1>26 DEF CloseInv, RuntimeOutlivesBrowser, TypeOK, AddFactoryHook, Fail, Goto,
       HooksTaken
  <2> QED  BY <2>1, <2>2, <2>3, <2>4, <2>5, <2>6, <2>7, <2>8, <2>9
<1>27. ASSUME NEW t \in Tasks, ReleaseLease(t) PROVE FactoryInv'
  <2>1. TypeOK'
    BY <1>27 DEF TypeOK, PCs, ReleaseLease
  <2>2. TokenInv'
    BY <1>27, FactoryConstants DEF TokenInv, HoldsSlot, Session, TypeOK, ReleaseLease
  <2>3. ReleaseInv'
    BY <1>27 DEF ReleaseInv, TypeOK, ReleaseLease
  <2>4. LeaseInv'
    BY <1>27, FactoryConstants DEF LeaseInv, Unleased, Handed, UsesLease, Session, TypeOK,
       ReleaseLease, ReleaseInv, AdapterInv
  <2>5. SlotsConserved' /\ AdapterInv' /\ PoolInv' /\ PoolSlotsConserved' /\ CloseInv'
    BY <1>27 DEF SlotsConserved, AdapterInv, PoolInv, PoolSlotsConserved, HoldsPoolSlot,
       CloseInv, RuntimeOutlivesBrowser, ReleaseLease
  <2> QED  BY <2>1, <2>2, <2>3, <2>4, <2>5
<1>28. ASSUME NEW t \in Tasks, ReleaseSlot(t) PROVE FactoryInv'
  <2>1. TypeOK'
    BY <1>28 DEF TypeOK, PCs, ReleaseSlot, TokenInv, HoldsSlot, ReleaseInv
  <2>2. SlotsConserved'
    BY <1>28, FactoryConstants DEF SlotsConserved, TypeOK, ReleaseSlot
  <2>3. TokenInv'
    BY <1>28, FactoryConstants DEF TokenInv, HoldsSlot, Session, TypeOK, ReleaseSlot,
       ReleaseInv
  <2>4. ReleaseInv'
    BY <1>28 DEF ReleaseInv, TypeOK, ReleaseSlot
  <2>5. AdapterInv'
    BY <1>28 DEF AdapterInv, TypeOK, ReleaseSlot
  <2>6. LeaseInv'
    BY <1>28, FactoryConstants DEF LeaseInv, Unleased, Handed, UsesLease, Session, TypeOK,
       ReleaseSlot, ReleaseInv
  <2>7. PoolInv'
    BY <1>28 DEF PoolInv, TypeOK, ReleaseSlot
  <2>8. PoolSlotsConserved'
    BY <1>28, SameHolders DEF HoldsPoolSlot, TypeOK, ReleaseSlot
  <2>9. CloseInv'
    BY <1>28 DEF CloseInv, RuntimeOutlivesBrowser, TypeOK, ReleaseSlot
  <2> QED  BY <2>1, <2>2, <2>3, <2>4, <2>5, <2>6, <2>7, <2>8, <2>9
<1>29. ASSUME NEW t \in Tasks, CloseByUser(t) PROVE FactoryInv'
  <2>1. TypeOK'
    BY <1>29 DEF TypeOK, PCs, CloseByUser, StartClose
  <2>2. AdapterInv'
    BY <1>29 DEF AdapterInv, TypeOK, CloseByUser, StartClose
  <2>3. /\ SlotsConserved' /\ TokenInv' /\ ReleaseInv' /\ LeaseInv' /\ PoolInv'
        /\ PoolSlotsConserved'
     /\ CloseInv'
    BY <1>29 DEF SlotsConserved, TokenInv, HoldsSlot, Session, ReleaseInv, LeaseInv, Unleased,
       Handed, UsesLease, PoolInv, PoolSlotsConserved, HoldsPoolSlot, CloseInv,
       RuntimeOutlivesBrowser, CloseByUser, StartClose
  <2> QED  BY <2>1, <2>2, <2>3
<1>30. ASSUME NEW t \in Tasks, CloseByContext(t) PROVE FactoryInv'
  <2>1. TypeOK'
    BY <1>30 DEF TypeOK, PCs, CloseByContext, StartClose
  <2>2. AdapterInv'
    BY <1>30 DEF AdapterInv, TypeOK, CloseByContext, StartClose
  <2>3. /\ SlotsConserved' /\ TokenInv' /\ ReleaseInv' /\ LeaseInv' /\ PoolInv'
        /\ PoolSlotsConserved'
     /\ CloseInv'
    BY <1>30 DEF SlotsConserved, TokenInv, HoldsSlot, Session, ReleaseInv, LeaseInv, Unleased,
       Handed, UsesLease, PoolInv, PoolSlotsConserved, HoldsPoolSlot, CloseInv,
       RuntimeOutlivesBrowser, CloseByContext, StartClose
  <2> QED  BY <2>1, <2>2, <2>3
<1>31. ASSUME NEW t \in Tasks, CloseByPool(t) PROVE FactoryInv'
  <2>1. TypeOK'
    BY <1>31 DEF TypeOK, PCs, CloseByPool, StartClose
  <2>2. AdapterInv'
    BY <1>31 DEF AdapterInv, TypeOK, CloseByPool, StartClose
  <2>3. /\ SlotsConserved' /\ TokenInv' /\ ReleaseInv' /\ LeaseInv' /\ PoolInv'
        /\ PoolSlotsConserved'
     /\ CloseInv'
    BY <1>31 DEF SlotsConserved, TokenInv, HoldsSlot, Session, ReleaseInv, LeaseInv, Unleased,
       Handed, UsesLease, PoolInv, PoolSlotsConserved, HoldsPoolSlot, CloseInv,
       RuntimeOutlivesBrowser, CloseByPool, StartClose
  <2> QED  BY <2>1, <2>2, <2>3
<1>32. ASSUME NEW t \in Tasks, CloseChrome(t) PROVE FactoryInv'
  <2>1. TypeOK'
    BY <1>32 DEF TypeOK, PCs, CloseChrome
  <2>2. ReleaseInv'
    BY <1>32 DEF ReleaseInv, TypeOK, CloseChrome
  <2>3. AdapterInv'
    BY <1>32 DEF AdapterInv, TypeOK, CloseChrome
  <2>4. LeaseInv'
    BY <1>32, FactoryConstants DEF LeaseInv, Unleased, Handed, UsesLease, Session, TypeOK,
       CloseChrome
  <2>5. PoolInv'
    BY <1>32 DEF PoolInv, TypeOK, CloseChrome
  <2>6. CloseInv'
    BY <1>32 DEF CloseInv, RuntimeOutlivesBrowser, TypeOK, CloseChrome
  <2>7. SlotsConserved' /\ TokenInv' /\ PoolSlotsConserved'
    BY <1>32 DEF SlotsConserved, TokenInv, HoldsSlot, Session, PoolSlotsConserved,
       HoldsPoolSlot, CloseChrome
  <2> QED  BY <2>1, <2>2, <2>3, <2>4, <2>5, <2>6, <2>7
<1>33. ASSUME NEW t \in Tasks, RunPoolHook(t) PROVE FactoryInv'
  <2>1. TypeOK'
    BY <1>33 DEF TypeOK, PCs, RunPoolHook, ReleaseAdapter
  <2>2. AdapterInv'
    BY <1>33 DEF AdapterInv, TypeOK, RunPoolHook, ReleaseAdapter
  <2>3. PoolInv'
    BY <1>33 DEF PoolInv, TypeOK, RunPoolHook, ReleaseAdapter, AdapterInv
  <2>4. PoolSlotsConserved'
    <3>1. CASE t \in active
      BY <1>33, <3>1, HolderRemoved DEF HoldsPoolSlot, PoolInv, TypeOK, RunPoolHook,
         ReleaseAdapter
    <3>2. CASE t \notin active
      BY <1>33, <3>2, SameHolders DEF HoldsPoolSlot, RunPoolHook, ReleaseAdapter
    <3> QED  BY <3>1, <3>2
  <2>5. SlotsConserved' /\ TokenInv' /\ ReleaseInv' /\ LeaseInv' /\ CloseInv'
    BY <1>33 DEF SlotsConserved, TokenInv, HoldsSlot, Session, ReleaseInv, LeaseInv, Unleased,
       Handed, UsesLease, CloseInv, RuntimeOutlivesBrowser, RunPoolHook, ReleaseAdapter
  <2> QED  BY <2>1, <2>2, <2>3, <2>4, <2>5
<1>34. ASSUME NEW t \in Tasks, RunFactoryHook(t) PROVE FactoryInv'
  <2>1. TypeOK'
    BY <1>34 DEF TypeOK, PCs, RunFactoryHook
  <2>2. TokenInv'
    BY <1>34, FactoryConstants DEF TokenInv, HoldsSlot, Session, TypeOK, RunFactoryHook
  <2>3. ReleaseInv'
    BY <1>34 DEF ReleaseInv, TypeOK, RunFactoryHook, AdapterInv
  <2>4. /\ SlotsConserved' /\ AdapterInv' /\ LeaseInv' /\ PoolInv' /\ PoolSlotsConserved'
        /\ CloseInv'
    BY <1>34 DEF SlotsConserved, AdapterInv, LeaseInv, Unleased, Handed, UsesLease, Session,
       PoolInv, PoolSlotsConserved, HoldsPoolSlot, CloseInv, RuntimeOutlivesBrowser,
       RunFactoryHook
  <2> QED  BY <2>1, <2>2, <2>3, <2>4
<1>35. ASSUME NEW t \in Tasks, HooksDone(t) PROVE FactoryInv'
  <2>1. TypeOK'
    BY <1>35 DEF TypeOK, PCs, HooksDone
  <2>2. AdapterInv'
    BY <1>35 DEF AdapterInv, TypeOK, HooksDone
  <2>3. /\ SlotsConserved' /\ TokenInv' /\ ReleaseInv' /\ LeaseInv' /\ PoolInv'
        /\ PoolSlotsConserved'
     /\ CloseInv'
    BY <1>35 DEF SlotsConserved, TokenInv, HoldsSlot, Session, ReleaseInv, LeaseInv, Unleased,
       Handed, UsesLease, PoolInv, PoolSlotsConserved, HoldsPoolSlot, CloseInv,
       RuntimeOutlivesBrowser, HooksDone
  <2> QED  BY <2>1, <2>2, <2>3
<1>36. CASE FactoryClose
  <2>1. TypeOK'
    BY <1>36 DEF TypeOK, PCs, FactoryClose
  <2>2. LeaseInv'
    BY <1>36, FactoryConstants DEF LeaseInv, Unleased, Handed, UsesLease, Session, TypeOK,
       FactoryClose
  <2>3. CloseInv'
    BY <1>36 DEF CloseInv, RuntimeOutlivesBrowser, TypeOK, FactoryClose
  <2>4. /\ SlotsConserved' /\ TokenInv' /\ ReleaseInv' /\ AdapterInv' /\ PoolInv'
        /\ PoolSlotsConserved'
    BY <1>36 DEF SlotsConserved, TokenInv, HoldsSlot, Session, ReleaseInv, AdapterInv, PoolInv,
       PoolSlotsConserved, HoldsPoolSlot, FactoryClose
  <2> QED  BY <2>1, <2>2, <2>3, <2>4
<1>37. CASE PoolClose
  <2>1. TypeOK'
    BY <1>37 DEF TypeOK, PCs, PoolClose
  <2>2. LeaseInv'
    BY <1>37, FactoryConstants DEF LeaseInv, Unleased, Handed, UsesLease, Session, TypeOK,
       PoolClose
  <2>3. PoolInv'
    BY <1>37 DEF PoolInv, TypeOK, PoolClose
  <2>4. PoolSlotsConserved'
    BY <1>37, SameHolders DEF HoldsPoolSlot, TypeOK, PoolClose, CloseInv
  <2>5. CloseInv'
    BY <1>37 DEF CloseInv, RuntimeOutlivesBrowser, TypeOK, PoolClose, PoolInv, AdapterInv,
       ReleaseInv
  <2>6. SlotsConserved' /\ TokenInv' /\ ReleaseInv' /\ AdapterInv'
    BY <1>37 DEF SlotsConserved, TokenInv, HoldsSlot, Session, ReleaseInv, AdapterInv,
       PoolClose
  <2> QED  BY <2>1, <2>2, <2>3, <2>4, <2>5, <2>6
<1>38. CASE PoolOpeningsDone
  <2>1. TypeOK'
    BY <1>38 DEF TypeOK, PCs, PoolOpeningsDone
  <2>2. LeaseInv'
    BY <1>38, FactoryConstants DEF LeaseInv, Unleased, Handed, UsesLease, Session, TypeOK,
       PoolOpeningsDone
  <2>3. CloseInv'
    BY <1>38 DEF CloseInv, RuntimeOutlivesBrowser, TypeOK, PoolOpeningsDone
  <2>4. /\ SlotsConserved' /\ TokenInv' /\ ReleaseInv' /\ AdapterInv' /\ PoolInv'
        /\ PoolSlotsConserved'
    BY <1>38 DEF SlotsConserved, TokenInv, HoldsSlot, Session, ReleaseInv, AdapterInv, PoolInv,
       PoolSlotsConserved, HoldsPoolSlot, PoolOpeningsDone
  <2> QED  BY <2>1, <2>2, <2>3, <2>4
<1>39. ASSUME NEW t \in Tasks, PoolCloseNext(t) PROVE FactoryInv'
  <2>1. TypeOK'
    BY <1>39 DEF TypeOK, PCs, PoolCloseNext
  <2>2. CloseInv'
    BY <1>39, FactoryConstants DEF CloseInv, RuntimeOutlivesBrowser, TypeOK, PoolCloseNext
  <2>3. /\ SlotsConserved' /\ TokenInv' /\ ReleaseInv' /\ AdapterInv' /\ LeaseInv' /\ PoolInv'
        /\ PoolSlotsConserved'
    BY <1>39 DEF SlotsConserved, TokenInv, HoldsSlot, Session, ReleaseInv, AdapterInv,
       LeaseInv, Unleased, Handed, UsesLease, PoolInv, PoolSlotsConserved, HoldsPoolSlot,
       PoolCloseNext
  <2> QED  BY <2>1, <2>2, <2>3
<1>40. CASE PoolClosedOne
  <2>1. TypeOK'
    BY <1>40 DEF TypeOK, PCs, PoolClosedOne
  <2>2. CloseInv'
    BY <1>40, FactoryConstants DEF CloseInv, RuntimeOutlivesBrowser, TypeOK, PoolClosedOne,
       AdapterInv
  <2>3. /\ SlotsConserved' /\ TokenInv' /\ ReleaseInv' /\ AdapterInv' /\ LeaseInv' /\ PoolInv'
        /\ PoolSlotsConserved'
    BY <1>40 DEF SlotsConserved, TokenInv, HoldsSlot, Session, ReleaseInv, AdapterInv,
       LeaseInv, Unleased, Handed, UsesLease, PoolInv, PoolSlotsConserved, HoldsPoolSlot,
       PoolClosedOne
  <2> QED  BY <2>1, <2>2, <2>3
<1>41. CASE StopRuntime
  <2>1. TypeOK'
    BY <1>41 DEF TypeOK, PCs, StopRuntime
  <2>2. LeaseInv'
    BY <1>41, FactoryConstants DEF LeaseInv, Unleased, Handed, UsesLease, Session, TypeOK,
       StopRuntime
  <2>3. CloseInv'
    BY <1>41, FactoryConstants DEF CloseInv, RuntimeOutlivesBrowser, TypeOK, StopRuntime,
       PoolInv, AdapterInv
  <2>4. /\ SlotsConserved' /\ TokenInv' /\ ReleaseInv' /\ AdapterInv' /\ PoolInv'
        /\ PoolSlotsConserved'
    BY <1>41 DEF SlotsConserved, TokenInv, HoldsSlot, Session, ReleaseInv, AdapterInv, PoolInv,
       PoolSlotsConserved, HoldsPoolSlot, StopRuntime
  <2> QED  BY <2>1, <2>2, <2>3, <2>4
<1>42. CASE CloseSessionLease
  <2>1. TypeOK'
    BY <1>42 DEF TypeOK, PCs, CloseSessionLease
  <2>2. LeaseInv'
    BY <1>42, FactoryConstants DEF LeaseInv, Unleased, Handed, UsesLease, Session, TypeOK,
       CloseSessionLease
  <2>3. CloseInv'
    BY <1>42 DEF CloseInv, RuntimeOutlivesBrowser, TypeOK, CloseSessionLease
  <2>4. /\ SlotsConserved' /\ TokenInv' /\ ReleaseInv' /\ AdapterInv' /\ PoolInv'
        /\ PoolSlotsConserved'
    BY <1>42 DEF SlotsConserved, TokenInv, HoldsSlot, Session, ReleaseInv, AdapterInv, PoolInv,
       PoolSlotsConserved, HoldsPoolSlot, CloseSessionLease
  <2> QED  BY <2>1, <2>2, <2>3, <2>4
<1>43. ASSUME NEW t \in Tasks, CancelTask(t) PROVE FactoryInv'
  <2>1. TypeOK'
    BY <1>43 DEF TypeOK, PCs, CancelTask
  <2>2. SlotsConserved' /\ TokenInv' /\ ReleaseInv' /\ AdapterInv' /\ LeaseInv' /\ PoolInv' /\
     PoolSlotsConserved' /\ CloseInv'
    BY <1>43 DEF SlotsConserved, TokenInv, HoldsSlot, Session, ReleaseInv, AdapterInv,
       LeaseInv, Unleased, Handed, UsesLease, PoolInv, PoolSlotsConserved, HoldsPoolSlot,
       CloseInv, RuntimeOutlivesBrowser, CancelTask
  <2> QED  BY <2>1, <2>2
<1>44. ASSUME NEW l \in Tasks, LoseLease(l) PROVE FactoryInv'
  <2>1. TypeOK'
    BY <1>44 DEF TypeOK, PCs, LoseLease
  <2>2. LeaseInv'
    BY <1>44, FactoryConstants DEF LeaseInv, Unleased, Handed, UsesLease, Session, TypeOK,
       LoseLease
  <2>3. /\ SlotsConserved' /\ TokenInv' /\ ReleaseInv' /\ AdapterInv' /\ PoolInv'
        /\ PoolSlotsConserved'
     /\ CloseInv'
    BY <1>44 DEF SlotsConserved, TokenInv, HoldsSlot, Session, ReleaseInv, AdapterInv, PoolInv,
       PoolSlotsConserved, HoldsPoolSlot, CloseInv, RuntimeOutlivesBrowser, LoseLease
  <2> QED  BY <2>1, <2>2, <2>3
<1>45. CASE ConfigureEgress
  <2>1. TypeOK'
    BY <1>45 DEF TypeOK, PCs, ConfigureEgress
  <2>2. SlotsConserved' /\ TokenInv' /\ ReleaseInv' /\ AdapterInv' /\ LeaseInv' /\ PoolInv' /\
     PoolSlotsConserved' /\ CloseInv'
    BY <1>45 DEF SlotsConserved, TokenInv, HoldsSlot, Session, ReleaseInv, AdapterInv,
       LeaseInv, Unleased, Handed, UsesLease, PoolInv, PoolSlotsConserved, HoldsPoolSlot,
       CloseInv, RuntimeOutlivesBrowser, ConfigureEgress
  <2> QED  BY <2>1, <2>2
<1>46. CASE UNCHANGED vars
  <2>1. TypeOK'
    BY <1>46 DEF TypeOK, PCs, vars
  <2>2. SlotsConserved'
    BY <1>46, FactoryConstants DEF SlotsConserved, TypeOK, vars
  <2>3. TokenInv'
    BY <1>46, FactoryConstants DEF TokenInv, HoldsSlot, Session, TypeOK, vars
  <2>4. ReleaseInv'
    BY <1>46 DEF ReleaseInv, TypeOK, vars
  <2>5. AdapterInv'
    BY <1>46 DEF AdapterInv, TypeOK, vars
  <2>6. LeaseInv'
    BY <1>46, FactoryConstants DEF LeaseInv, Unleased, Handed, UsesLease, Session, TypeOK, vars
  <2>7. PoolInv'
    BY <1>46 DEF PoolInv, TypeOK, vars
  <2>8. PoolSlotsConserved'
    BY <1>46, SameHolders DEF HoldsPoolSlot, TypeOK, vars
  <2>9. CloseInv'
    BY <1>46 DEF CloseInv, RuntimeOutlivesBrowser, TypeOK, vars
  <2> QED  BY <2>1, <2>2, <2>3, <2>4, <2>5, <2>6, <2>7, <2>8, <2>9
<1> QED
  BY <1>1, <1>2, <1>3, <1>4, <1>5, <1>6, <1>7, <1>8, <1>9, <1>10, <1>11, <1>12, <1>13, <1>14,
     <1>15, <1>16, <1>17, <1>18, <1>19, <1>20, <1>21, <1>22, <1>23, <1>24, <1>25, <1>26, <1>27,
     <1>28, <1>29, <1>30, <1>31, <1>32, <1>33, <1>34, <1>35, <1>36, <1>37, <1>38, <1>39, <1>40,
     <1>41, <1>42, <1>43, <1>44, <1>45, <1>46 DEF Next, OpenStep, LeaseStep, PoolStep,
     ReleaseStep, CloseStep, FactoryStep

\* FactoryInv holds throughout every behaviour.
LEMMA FactoryInvariant == Spec => []FactoryInv
BY FactoryInvInit, FactoryInvNext, PTL DEF Spec

-----------------------------------------------------------------------------
\* The variables of the factory, the pool and the adapters keep their types.
THEOREM TypeCorrect == Spec => []TypeOK
<1>1. FactoryInv => TypeOK
  BY DEF FactoryInv
<1> QED
  BY <1>1, FactoryInvariant, PTL

\* No slot number is lost or handed out twice by an error return, a hook or a closer.
THEOREM SlotsAreConserved == Spec => []SlotsConserved
<1>1. FactoryInv => SlotsConserved
  BY DEF FactoryInv
<1> QED
  BY <1>1, FactoryInvariant, PTL

\* The pool's channel and the tasks have as many tokens between them as it began with.
THEOREM PoolTokensConserved == Spec => []PoolSlotsConserved
<1>1. FactoryInv => PoolSlotsConserved
  BY DEF FactoryInv
<1> QED
  BY <1>1, FactoryInvariant, PTL

(***************************************************************************)
(* Two Chrome processes never share the account profile: a session that    *)
(* has one holds the session token, and gives it back after its Chrome has *)
(* been stopped.                                                           *)
(***************************************************************************)
THEOREM ProfileIsExclusive == Spec => []AccountProfileExclusive
<1>1. FactoryInv => AccountProfileExclusive
  <2> SUFFICES ASSUME FactoryInv, NEW t \in Tasks, NEW u \in Tasks,
                      Session(t), Session(u), chrome[t], chrome[u]
               PROVE  t = u
    BY DEF AccountProfileExclusive
  <2>1. holdsSession[t] /\ holdsSession[u]
    BY SessionUserHolds DEF UsesLease
  <2> QED
    BY <2>1 DEF FactoryInv, TokenInv
<1> QED
  BY <1>1, FactoryInvariant, PTL

(***************************************************************************)
(* The lease of a running Chrome is never released: not by the cleanup of  *)
(* its task, not by a session that replaces the shared lease, and not by   *)
(* Factory.Close, which closes the shared lease when no Chrome is left.    *)
(***************************************************************************)
THEOREM LeaseOutlives == Spec => []LeaseOutlivesBrowser
<1>1. FactoryInv => LeaseOutlivesBrowser
  <2> SUFFICES ASSUME FactoryInv, NEW t \in Tasks, chrome[t]
               PROVE  lease[t] # None /\ leaseState[lease[t]] # "closed"
    BY DEF LeaseOutlivesBrowser
  <2>1. closePC # "closed"
    BY DEF FactoryInv, CloseInv, RuntimeOutlivesBrowser, PoolInv, AdapterInv, TypeOK
  <2> QED
    BY <2>1 DEF FactoryInv, LeaseInv, UsesLease
<1> QED
  BY <1>1, FactoryInvariant, PTL

\* The Playwright runtime is stopped after every Chrome, also after those being opened.
THEOREM RuntimeOutlives == Spec => []RuntimeOutlivesBrowser
<1>1. FactoryInv => RuntimeOutlivesBrowser
  BY DEF FactoryInv, CloseInv
<1> QED
  BY <1>1, FactoryInvariant, PTL

-----------------------------------------------------------------------------
\* Every step keeps each lease with somebody who will close it.
LEMMA OwnerInvNext == FactoryInv /\ OwnerInv /\ [Next]_vars => OwnerInv'
<1> SUFFICES ASSUME FactoryInv, OwnerInv, [Next]_vars PROVE OwnerInv'
  OBVIOUS
<1> USE FactoryConstants DEF FactoryInv, factoryVars, closeVars, poolVars, taskVars, adapterVars
<1>1. ASSUME NEW t \in Tasks, Open(t) PROVE OwnerInv'
  BY <1>1 DEF OwnerInv, Owned, Handed, Unasked, HoldsSlot, Session, TypeOK, LeaseInv, TokenInv,
     ReleaseInv, CloseInv, Open, Goto
<1>2. ASSUME NEW t \in Tasks, TakeSession(t) PROVE OwnerInv'
  BY <1>2 DEF OwnerInv, Owned, Handed, Unasked, HoldsSlot, Session, TypeOK, LeaseInv, TokenInv,
     ReleaseInv, CloseInv, TakeSession, Goto
<1>3. ASSUME NEW t \in Tasks, GiveUp(t) PROVE OwnerInv'
  BY <1>3 DEF OwnerInv, Owned, Handed, Unasked, HoldsSlot, Session, TypeOK, LeaseInv, TokenInv,
     ReleaseInv, CloseInv, GiveUp
<1>4. ASSUME NEW t \in Tasks, OpenInSlot(t) PROVE OwnerInv'
  BY <1>4 DEF OwnerInv, Owned, Handed, Unasked, HoldsSlot, Session, TypeOK, LeaseInv, TokenInv,
     ReleaseInv, CloseInv, OpenInSlot, Goto, TakeSlot
<1>5. ASSUME NEW t \in Tasks, OpenInSlotRefused(t) PROVE OwnerInv'
  BY <1>5 DEF OwnerInv, Owned, Handed, Unasked, HoldsSlot, Session, TypeOK, LeaseInv, TokenInv,
     ReleaseInv, CloseInv, OpenInSlotRefused, Fail, Goto, TakeSlot
<1>6. ASSUME NEW t \in Tasks, AcquireScan(t) PROVE OwnerInv'
  BY <1>6 DEF OwnerInv, Owned, Handed, Unasked, HoldsSlot, Session, TypeOK, LeaseInv, TokenInv,
     ReleaseInv, CloseInv, AcquireScan, Goto
<1>7. ASSUME NEW t \in Tasks, AcquireFails(t) PROVE OwnerInv'
  BY <1>7 DEF OwnerInv, Owned, Handed, Unasked, HoldsSlot, Session, TypeOK, LeaseInv, TokenInv,
     ReleaseInv, CloseInv, AcquireFails, Fail, Goto
<1>8. ASSUME NEW t \in Tasks, ReuseSessionLease(t) PROVE OwnerInv'
  BY <1>8 DEF OwnerInv, Owned, Handed, Unasked, HoldsSlot, Session, TypeOK, LeaseInv, TokenInv,
     ReleaseInv, CloseInv, ReuseSessionLease, Reusable, Goto
<1>9. ASSUME NEW t \in Tasks, DetachSessionLease(t) PROVE OwnerInv'
  BY <1>9 DEF OwnerInv, Owned, Handed, Unasked, HoldsSlot, Session, TypeOK, LeaseInv, TokenInv,
     ReleaseInv, CloseInv, DetachSessionLease, Reusable, Goto
<1>10. ASSUME NEW t \in Tasks, CloseOld(t) PROVE OwnerInv'
  BY <1>10 DEF OwnerInv, Owned, Handed, Unasked, HoldsSlot, Session, TypeOK, LeaseInv,
     TokenInv, ReleaseInv, CloseInv, CloseOld, Goto
<1>11. ASSUME NEW t \in Tasks, AcquireSession(t) PROVE OwnerInv'
  BY <1>11 DEF OwnerInv, Owned, Handed, Unasked, HoldsSlot, Session, TypeOK, LeaseInv,
     TokenInv, ReleaseInv, CloseInv, AcquireSession, Goto
<1>12. ASSUME NEW t \in Tasks, InstallSessionLease(t) PROVE OwnerInv'
  BY <1>12 DEF OwnerInv, Owned, Handed, Unasked, HoldsSlot, Session, TypeOK, LeaseInv,
     TokenInv, ReleaseInv, CloseInv, InstallSessionLease, Goto
<1>13. ASSUME NEW t \in Tasks, InstallRefused(t) PROVE OwnerInv'
  BY <1>13 DEF OwnerInv, Owned, Handed, Unasked, HoldsSlot, Session, TypeOK, LeaseInv,
     TokenInv, ReleaseInv, CloseInv, InstallRefused, Fail, Goto
<1>14. ASSUME NEW t \in Tasks, EnsurePool(t) PROVE OwnerInv'
  BY <1>14 DEF OwnerInv, Owned, Handed, Unasked, HoldsSlot, Session, TypeOK, LeaseInv,
     TokenInv, ReleaseInv, CloseInv, EnsurePool, Goto
<1>15. ASSUME NEW t \in Tasks, PoolFails(t) PROVE OwnerInv'
  BY <1>15 DEF OwnerInv, Owned, Handed, Unasked, HoldsSlot, Session, TypeOK, LeaseInv,
     TokenInv, ReleaseInv, CloseInv, PoolFails, Fail, Goto
<1>16. ASSUME NEW t \in Tasks, PoolSlotCancelled(t) PROVE OwnerInv'
  BY <1>16 DEF OwnerInv, Owned, Handed, Unasked, HoldsSlot, Session, TypeOK, LeaseInv,
     TokenInv, ReleaseInv, CloseInv, PoolSlotCancelled, Fail, Goto
<1>17. ASSUME NEW t \in Tasks, BeginOpening(t) PROVE OwnerInv'
  BY <1>17 DEF OwnerInv, Owned, Handed, Unasked, HoldsSlot, Session, TypeOK, LeaseInv,
     TokenInv, ReleaseInv, CloseInv, BeginOpening, Goto
<1>18. ASSUME NEW t \in Tasks, OpeningRefused(t) PROVE OwnerInv'
  BY <1>18 DEF OwnerInv, Owned, Handed, Unasked, HoldsSlot, Session, TypeOK, LeaseInv,
     TokenInv, ReleaseInv, CloseInv, OpeningRefused, Goto
<1>19. ASSUME NEW t \in Tasks, Launch(t) PROVE OwnerInv'
  BY <1>19 DEF OwnerInv, Owned, Handed, Unasked, HoldsSlot, Session, TypeOK, LeaseInv,
     TokenInv, ReleaseInv, CloseInv, Launch, Goto
<1>20. ASSUME NEW t \in Tasks, LaunchFails(t) PROVE OwnerInv'
  BY <1>20 DEF OwnerInv, Owned, Handed, Unasked, HoldsSlot, Session, TypeOK, LeaseInv,
     TokenInv, ReleaseInv, CloseInv, LaunchFails, Goto
<1>21. ASSUME NEW t \in Tasks, Register(t) PROVE OwnerInv'
  BY <1>21 DEF OwnerInv, Owned, Handed, Unasked, HoldsSlot, Session, TypeOK, LeaseInv,
     TokenInv, ReleaseInv, CloseInv, Register, Goto
<1>22. ASSUME NEW t \in Tasks, RegisterRejected(t) PROVE OwnerInv'
  BY <1>22 DEF OwnerInv, Owned, Handed, Unasked, HoldsSlot, Session, TypeOK, LeaseInv,
     TokenInv, ReleaseInv, CloseInv, RegisterRejected, Goto
<1>23. ASSUME NEW t \in Tasks, Rejected(t) PROVE OwnerInv'
  BY <1>23 DEF OwnerInv, Owned, Handed, Unasked, HoldsSlot, Session, TypeOK, LeaseInv,
     TokenInv, ReleaseInv, CloseInv, Rejected, Goto
<1>24. ASSUME NEW t \in Tasks, PoolUnwind(t) PROVE OwnerInv'
  BY <1>24 DEF OwnerInv, Owned, Handed, Unasked, HoldsSlot, Session, TypeOK, LeaseInv,
     TokenInv, ReleaseInv, CloseInv, PoolUnwind, Fail, Goto
<1>25. ASSUME NEW t \in Tasks, AddPoolHook(t) PROVE OwnerInv'
  BY <1>25 DEF OwnerInv, Owned, Handed, Unasked, HoldsSlot, Session, TypeOK, LeaseInv,
     TokenInv, ReleaseInv, CloseInv, AddPoolHook, HooksTaken, ReleaseAdapter, Goto
<1>26. ASSUME NEW t \in Tasks, AddFactoryHook(t) PROVE OwnerInv'
  BY <1>26 DEF OwnerInv, Owned, Handed, Unasked, HoldsSlot, Session, TypeOK, LeaseInv,
     TokenInv, ReleaseInv, CloseInv, AddFactoryHook, HooksTaken, Fail, Goto
<1>27. ASSUME NEW t \in Tasks, ReleaseLease(t) PROVE OwnerInv'
  BY <1>27 DEF OwnerInv, Owned, Handed, Unasked, HoldsSlot, Session, TypeOK, LeaseInv,
     TokenInv, ReleaseInv, CloseInv, ReleaseLease
<1>28. ASSUME NEW t \in Tasks, ReleaseSlot(t) PROVE OwnerInv'
  BY <1>28 DEF OwnerInv, Owned, Handed, Unasked, HoldsSlot, Session, TypeOK, LeaseInv,
     TokenInv, ReleaseInv, CloseInv, ReleaseSlot
<1>29. ASSUME NEW t \in Tasks, StartClose(t) PROVE OwnerInv'
  BY <1>29 DEF OwnerInv, Owned, Handed, Unasked, HoldsSlot, Session, TypeOK, LeaseInv,
     TokenInv, ReleaseInv, CloseInv, StartClose
<1>30. ASSUME NEW t \in Tasks, CloseChrome(t) PROVE OwnerInv'
  BY <1>30 DEF OwnerInv, Owned, Handed, Unasked, HoldsSlot, Session, TypeOK, LeaseInv,
     TokenInv, ReleaseInv, CloseInv, CloseChrome
<1>31. ASSUME NEW t \in Tasks, RunPoolHook(t) PROVE OwnerInv'
  BY <1>31 DEF OwnerInv, Owned, Handed, Unasked, HoldsSlot, Session, TypeOK, LeaseInv,
     TokenInv, ReleaseInv, CloseInv, RunPoolHook, ReleaseAdapter
<1>32. ASSUME NEW t \in Tasks, RunFactoryHook(t) PROVE OwnerInv'
  BY <1>32 DEF OwnerInv, Owned, Handed, Unasked, HoldsSlot, Session, TypeOK, LeaseInv,
     TokenInv, ReleaseInv, CloseInv, RunFactoryHook
<1>33. ASSUME NEW t \in Tasks, HooksDone(t) PROVE OwnerInv'
  BY <1>33 DEF OwnerInv, Owned, Handed, Unasked, HoldsSlot, Session, TypeOK, LeaseInv,
     TokenInv, ReleaseInv, CloseInv, HooksDone
<1>34. ASSUME FactoryClose PROVE OwnerInv'
  BY <1>34 DEF OwnerInv, Owned, Handed, Unasked, HoldsSlot, Session, TypeOK, LeaseInv,
     TokenInv, ReleaseInv, CloseInv, FactoryClose
<1>35. ASSUME PoolClose PROVE OwnerInv'
  BY <1>35 DEF OwnerInv, Owned, Handed, Unasked, HoldsSlot, Session, TypeOK, LeaseInv,
     TokenInv, ReleaseInv, CloseInv, PoolClose
<1>36. ASSUME PoolOpeningsDone PROVE OwnerInv'
  BY <1>36 DEF OwnerInv, Owned, Handed, Unasked, HoldsSlot, Session, TypeOK, LeaseInv,
     TokenInv, ReleaseInv, CloseInv, PoolOpeningsDone
<1>37. ASSUME NEW t \in Tasks, PoolCloseNext(t) PROVE OwnerInv'
  BY <1>37 DEF OwnerInv, Owned, Handed, Unasked, HoldsSlot, Session, TypeOK, LeaseInv,
     TokenInv, ReleaseInv, CloseInv, PoolCloseNext
<1>38. ASSUME PoolClosedOne PROVE OwnerInv'
  BY <1>38 DEF OwnerInv, Owned, Handed, Unasked, HoldsSlot, Session, TypeOK, LeaseInv,
     TokenInv, ReleaseInv, CloseInv, PoolClosedOne
<1>39. ASSUME StopRuntime PROVE OwnerInv'
  BY <1>39 DEF OwnerInv, Owned, Handed, Unasked, HoldsSlot, Session, TypeOK, LeaseInv,
     TokenInv, ReleaseInv, CloseInv, StopRuntime
<1>40. ASSUME CloseSessionLease PROVE OwnerInv'
  BY <1>40 DEF OwnerInv, Owned, Handed, Unasked, HoldsSlot, Session, TypeOK, LeaseInv,
     TokenInv, ReleaseInv, CloseInv, CloseSessionLease
<1>41. ASSUME NEW t \in Tasks, CancelTask(t) PROVE OwnerInv'
  BY <1>41 DEF OwnerInv, Owned, Handed, Unasked, HoldsSlot, Session, TypeOK, LeaseInv,
     TokenInv, ReleaseInv, CloseInv, CancelTask
<1>42. ASSUME NEW t \in Tasks, LoseLease(t) PROVE OwnerInv'
  BY <1>42 DEF OwnerInv, Owned, Handed, Unasked, HoldsSlot, Session, TypeOK, LeaseInv,
     TokenInv, ReleaseInv, CloseInv, LoseLease
<1>43. ASSUME ConfigureEgress PROVE OwnerInv'
  BY <1>43 DEF OwnerInv, Owned, Handed, Unasked, HoldsSlot, Session, TypeOK, LeaseInv,
     TokenInv, ReleaseInv, CloseInv, ConfigureEgress
<1>44. CASE UNCHANGED vars
  BY <1>44 DEF OwnerInv, Owned, Handed, Unasked, HoldsSlot, Session, TypeOK, LeaseInv,
     TokenInv, ReleaseInv, CloseInv, vars
<1> QED
  BY <1>1, <1>2, <1>3, <1>4, <1>5, <1>6, <1>7, <1>8, <1>9, <1>10, <1>11, <1>12, <1>13, <1>14,
     <1>15, <1>16, <1>17, <1>18, <1>19, <1>20, <1>21, <1>22, <1>23, <1>24, <1>25, <1>26, <1>27,
     <1>28, <1>29, <1>30, <1>31, <1>32, <1>33, <1>34, <1>35, <1>36, <1>37, <1>38, <1>39, <1>40,
     <1>41, <1>42, <1>43, <1>44 DEF Next, OpenStep, LeaseStep, PoolStep, ReleaseStep,
     CloseStep, CloseByUser, CloseByContext, CloseByPool, FactoryStep

\* Every step keeps the hooks with the adapter that will run them.
LEMMA HookInvNext == FactoryInv /\ HookInv /\ [Next]_vars => HookInv'
<1> SUFFICES ASSUME FactoryInv, HookInv, [Next]_vars PROVE HookInv'
  OBVIOUS
<1> USE FactoryConstants DEF FactoryInv, factoryVars, closeVars, poolVars, taskVars, adapterVars
<1>1. ASSUME NEW t \in Tasks, Open(t) PROVE HookInv'
  BY <1>1 DEF HookInv, HoldsSlot, Session, TypeOK, TokenInv, ReleaseInv, AdapterInv, PoolInv,
     Open, Goto
<1>2. ASSUME NEW t \in Tasks, TakeSession(t) PROVE HookInv'
  BY <1>2 DEF HookInv, HoldsSlot, Session, TypeOK, TokenInv, ReleaseInv, AdapterInv, PoolInv,
     TakeSession, Goto
<1>3. ASSUME NEW t \in Tasks, GiveUp(t) PROVE HookInv'
  BY <1>3 DEF HookInv, HoldsSlot, Session, TypeOK, TokenInv, ReleaseInv, AdapterInv, PoolInv,
     GiveUp
<1>4. ASSUME NEW t \in Tasks, OpenInSlot(t) PROVE HookInv'
  BY <1>4 DEF HookInv, HoldsSlot, Session, TypeOK, TokenInv, ReleaseInv, AdapterInv, PoolInv,
     OpenInSlot, Goto, TakeSlot
<1>5. ASSUME NEW t \in Tasks, OpenInSlotRefused(t) PROVE HookInv'
  BY <1>5 DEF HookInv, HoldsSlot, Session, TypeOK, TokenInv, ReleaseInv, AdapterInv, PoolInv,
     OpenInSlotRefused, Fail, Goto, TakeSlot
<1>6. ASSUME NEW t \in Tasks, AcquireScan(t) PROVE HookInv'
  BY <1>6 DEF HookInv, HoldsSlot, Session, TypeOK, TokenInv, ReleaseInv, AdapterInv, PoolInv,
     AcquireScan, Goto
<1>7. ASSUME NEW t \in Tasks, AcquireFails(t) PROVE HookInv'
  BY <1>7 DEF HookInv, HoldsSlot, Session, TypeOK, TokenInv, ReleaseInv, AdapterInv, PoolInv,
     AcquireFails, Fail, Goto
<1>8. ASSUME NEW t \in Tasks, ReuseSessionLease(t) PROVE HookInv'
  BY <1>8 DEF HookInv, HoldsSlot, Session, TypeOK, TokenInv, ReleaseInv, AdapterInv, PoolInv,
     ReuseSessionLease, Reusable, Goto
<1>9. ASSUME NEW t \in Tasks, DetachSessionLease(t) PROVE HookInv'
  BY <1>9 DEF HookInv, HoldsSlot, Session, TypeOK, TokenInv, ReleaseInv, AdapterInv, PoolInv,
     DetachSessionLease, Reusable, Goto
<1>10. ASSUME NEW t \in Tasks, CloseOld(t) PROVE HookInv'
  BY <1>10 DEF HookInv, HoldsSlot, Session, TypeOK, TokenInv, ReleaseInv, AdapterInv, PoolInv,
     CloseOld, Goto
<1>11. ASSUME NEW t \in Tasks, AcquireSession(t) PROVE HookInv'
  BY <1>11 DEF HookInv, HoldsSlot, Session, TypeOK, TokenInv, ReleaseInv, AdapterInv, PoolInv,
     AcquireSession, Goto
<1>12. ASSUME NEW t \in Tasks, InstallSessionLease(t) PROVE HookInv'
  BY <1>12 DEF HookInv, HoldsSlot, Session, TypeOK, TokenInv, ReleaseInv, AdapterInv, PoolInv,
     InstallSessionLease, Goto
<1>13. ASSUME NEW t \in Tasks, InstallRefused(t) PROVE HookInv'
  BY <1>13 DEF HookInv, HoldsSlot, Session, TypeOK, TokenInv, ReleaseInv, AdapterInv, PoolInv,
     InstallRefused, Fail, Goto
<1>14. ASSUME NEW t \in Tasks, EnsurePool(t) PROVE HookInv'
  BY <1>14 DEF HookInv, HoldsSlot, Session, TypeOK, TokenInv, ReleaseInv, AdapterInv, PoolInv,
     EnsurePool, Goto
<1>15. ASSUME NEW t \in Tasks, PoolFails(t) PROVE HookInv'
  BY <1>15 DEF HookInv, HoldsSlot, Session, TypeOK, TokenInv, ReleaseInv, AdapterInv, PoolInv,
     PoolFails, Fail, Goto
<1>16. ASSUME NEW t \in Tasks, PoolSlotCancelled(t) PROVE HookInv'
  BY <1>16 DEF HookInv, HoldsSlot, Session, TypeOK, TokenInv, ReleaseInv, AdapterInv, PoolInv,
     PoolSlotCancelled, Fail, Goto
<1>17. ASSUME NEW t \in Tasks, BeginOpening(t) PROVE HookInv'
  BY <1>17 DEF HookInv, HoldsSlot, Session, TypeOK, TokenInv, ReleaseInv, AdapterInv, PoolInv,
     BeginOpening, Goto
<1>18. ASSUME NEW t \in Tasks, OpeningRefused(t) PROVE HookInv'
  BY <1>18 DEF HookInv, HoldsSlot, Session, TypeOK, TokenInv, ReleaseInv, AdapterInv, PoolInv,
     OpeningRefused, Goto
<1>19. ASSUME NEW t \in Tasks, Launch(t) PROVE HookInv'
  BY <1>19 DEF HookInv, HoldsSlot, Session, TypeOK, TokenInv, ReleaseInv, AdapterInv, PoolInv,
     Launch, Goto
<1>20. ASSUME NEW t \in Tasks, LaunchFails(t) PROVE HookInv'
  BY <1>20 DEF HookInv, HoldsSlot, Session, TypeOK, TokenInv, ReleaseInv, AdapterInv, PoolInv,
     LaunchFails, Goto
<1>21. ASSUME NEW t \in Tasks, Register(t) PROVE HookInv'
  BY <1>21 DEF HookInv, HoldsSlot, Session, TypeOK, TokenInv, ReleaseInv, AdapterInv, PoolInv,
     Register, Goto
<1>22. ASSUME NEW t \in Tasks, RegisterRejected(t) PROVE HookInv'
  BY <1>22 DEF HookInv, HoldsSlot, Session, TypeOK, TokenInv, ReleaseInv, AdapterInv, PoolInv,
     RegisterRejected, Goto
<1>23. ASSUME NEW t \in Tasks, Rejected(t) PROVE HookInv'
  BY <1>23 DEF HookInv, HoldsSlot, Session, TypeOK, TokenInv, ReleaseInv, AdapterInv, PoolInv,
     Rejected, Goto
<1>24. ASSUME NEW t \in Tasks, PoolUnwind(t) PROVE HookInv'
  BY <1>24 DEF HookInv, HoldsSlot, Session, TypeOK, TokenInv, ReleaseInv, AdapterInv, PoolInv,
     PoolUnwind, Fail, Goto
<1>25. ASSUME NEW t \in Tasks, AddPoolHook(t) PROVE HookInv'
  BY <1>25 DEF HookInv, HoldsSlot, Session, TypeOK, TokenInv, ReleaseInv, AdapterInv, PoolInv,
     AddPoolHook, HooksTaken, ReleaseAdapter, Goto
<1>26. ASSUME NEW t \in Tasks, AddFactoryHook(t) PROVE HookInv'
  BY <1>26 DEF HookInv, HoldsSlot, Session, TypeOK, TokenInv, ReleaseInv, AdapterInv, PoolInv,
     AddFactoryHook, HooksTaken, Fail, Goto
<1>27. ASSUME NEW t \in Tasks, ReleaseLease(t) PROVE HookInv'
  BY <1>27 DEF HookInv, HoldsSlot, Session, TypeOK, TokenInv, ReleaseInv, AdapterInv, PoolInv,
     ReleaseLease
<1>28. ASSUME NEW t \in Tasks, ReleaseSlot(t) PROVE HookInv'
  BY <1>28 DEF HookInv, HoldsSlot, Session, TypeOK, TokenInv, ReleaseInv, AdapterInv, PoolInv,
     ReleaseSlot
<1>29. ASSUME NEW t \in Tasks, StartClose(t) PROVE HookInv'
  BY <1>29 DEF HookInv, HoldsSlot, Session, TypeOK, TokenInv, ReleaseInv, AdapterInv, PoolInv,
     StartClose
<1>30. ASSUME NEW t \in Tasks, CloseChrome(t) PROVE HookInv'
  BY <1>30 DEF HookInv, HoldsSlot, Session, TypeOK, TokenInv, ReleaseInv, AdapterInv, PoolInv,
     CloseChrome
<1>31. ASSUME NEW t \in Tasks, RunPoolHook(t) PROVE HookInv'
  BY <1>31 DEF HookInv, HoldsSlot, Session, TypeOK, TokenInv, ReleaseInv, AdapterInv, PoolInv,
     RunPoolHook, ReleaseAdapter
<1>32. ASSUME NEW t \in Tasks, RunFactoryHook(t) PROVE HookInv'
  BY <1>32 DEF HookInv, HoldsSlot, Session, TypeOK, TokenInv, ReleaseInv, AdapterInv, PoolInv,
     RunFactoryHook
<1>33. ASSUME NEW t \in Tasks, HooksDone(t) PROVE HookInv'
  BY <1>33 DEF HookInv, HoldsSlot, Session, TypeOK, TokenInv, ReleaseInv, AdapterInv, PoolInv,
     HooksDone
<1>34. ASSUME FactoryClose PROVE HookInv'
  BY <1>34 DEF HookInv, HoldsSlot, Session, TypeOK, TokenInv, ReleaseInv, AdapterInv, PoolInv,
     FactoryClose
<1>35. ASSUME PoolClose PROVE HookInv'
  BY <1>35 DEF HookInv, HoldsSlot, Session, TypeOK, TokenInv, ReleaseInv, AdapterInv, PoolInv,
     PoolClose
<1>36. ASSUME PoolOpeningsDone PROVE HookInv'
  BY <1>36 DEF HookInv, HoldsSlot, Session, TypeOK, TokenInv, ReleaseInv, AdapterInv, PoolInv,
     PoolOpeningsDone
<1>37. ASSUME NEW t \in Tasks, PoolCloseNext(t) PROVE HookInv'
  BY <1>37 DEF HookInv, HoldsSlot, Session, TypeOK, TokenInv, ReleaseInv, AdapterInv, PoolInv,
     PoolCloseNext
<1>38. ASSUME PoolClosedOne PROVE HookInv'
  BY <1>38 DEF HookInv, HoldsSlot, Session, TypeOK, TokenInv, ReleaseInv, AdapterInv, PoolInv,
     PoolClosedOne
<1>39. ASSUME StopRuntime PROVE HookInv'
  BY <1>39 DEF HookInv, HoldsSlot, Session, TypeOK, TokenInv, ReleaseInv, AdapterInv, PoolInv,
     StopRuntime
<1>40. ASSUME CloseSessionLease PROVE HookInv'
  BY <1>40 DEF HookInv, HoldsSlot, Session, TypeOK, TokenInv, ReleaseInv, AdapterInv, PoolInv,
     CloseSessionLease
<1>41. ASSUME NEW t \in Tasks, CancelTask(t) PROVE HookInv'
  BY <1>41 DEF HookInv, HoldsSlot, Session, TypeOK, TokenInv, ReleaseInv, AdapterInv, PoolInv,
     CancelTask
<1>42. ASSUME NEW t \in Tasks, LoseLease(t) PROVE HookInv'
  BY <1>42 DEF HookInv, HoldsSlot, Session, TypeOK, TokenInv, ReleaseInv, AdapterInv, PoolInv,
     LoseLease
<1>43. ASSUME ConfigureEgress PROVE HookInv'
  BY <1>43 DEF HookInv, HoldsSlot, Session, TypeOK, TokenInv, ReleaseInv, AdapterInv, PoolInv,
     ConfigureEgress
<1>44. CASE UNCHANGED vars
  BY <1>44 DEF HookInv, HoldsSlot, Session, TypeOK, TokenInv, ReleaseInv, AdapterInv, PoolInv, vars
<1> QED
  BY <1>1, <1>2, <1>3, <1>4, <1>5, <1>6, <1>7, <1>8, <1>9, <1>10, <1>11, <1>12, <1>13, <1>14,
     <1>15, <1>16, <1>17, <1>18, <1>19, <1>20, <1>21, <1>22, <1>23, <1>24, <1>25, <1>26, <1>27,
     <1>28, <1>29, <1>30, <1>31, <1>32, <1>33, <1>34, <1>35, <1>36, <1>37, <1>38, <1>39, <1>40,
     <1>41, <1>42, <1>43, <1>44 DEF Next, OpenStep, LeaseStep, PoolStep, ReleaseStep,
     CloseStep, CloseByUser, CloseByContext, CloseByPool, FactoryStep

\* Both hold throughout every behaviour.
LEMMA OwnerInvariant == Spec => [](OwnerInv /\ HookInv)
<1>1. Init => OwnerInv
  BY FactoryConstants DEF Init, OwnerInv, Owned, Handed, Unasked, HoldsSlot
<1>2. Init => HookInv
  BY DEF Init, HookInv
<1> QED
  BY <1>1, <1>2, OwnerInvNext, HookInvNext, FactoryInvariant, PTL DEF Spec

(***************************************************************************)
(* When Factory.Close and all the calls it races with are over, every      *)
(* lease is released, every slot and token is back and no Chrome runs: the *)
(* part of a complete shutdown that no scheduling can take away.           *)
(***************************************************************************)
THEOREM ShutdownLeavesNothing == Spec => []NothingLeftBehind
<1>1. FactoryInv /\ OwnerInv /\ HookInv => NothingLeftBehind
  <2> SUFFICES ASSUME FactoryInv, OwnerInv, HookInv, Quiescent PROVE AllReturned
    BY DEF NothingLeftBehind
  <2> USE DEF FactoryInv, Quiescent
  <2>1. \A t \in Tasks : ~HoldsSlot(t)
    BY DEF HookInv, HoldsSlot
  <2>2. \A t \in Tasks : slot[t] = None /\ ~holdsSession[t] /\ lease[t] = None
    BY <2>1 DEF TypeOK, TokenInv, OwnerInv
  <2>3. \A t \in Tasks : ~chrome[t]
    BY DEF AdapterInv
  <2>4. LeasesReturned
    <3> SUFFICES ASSUME NEW l \in Tasks, leaseState[l] \in {"live", "lost"} PROVE FALSE
      BY DEF LeasesReturned, TypeOK
    <3>1. Owned(l)
      BY DEF OwnerInv
    <3>2. closed
      BY DEF CloseInv
    <3>3. \A t \in Tasks : stale[t] = None
      BY DEF LeaseInv, TypeOK
    <3> QED  BY <2>2, <3>1, <3>2, <3>3, FactoryConstants DEF Owned
  <2>5. slots = Slots
    <3>1. \A s \in Slots : s \in slots
      BY <2>2, FactoryConstants DEF SlotsConserved
    <3>2. slots \subseteq Slots
      BY DEF TypeOK
    <3> QED  BY <3>1, <3>2
  <2>6. sessionFree
    BY <2>2 DEF HookInv
  <2>7. pool # "none" => poolFree = Cardinality(Slots)
    <3>1. \A t \in Tasks : t \notin active
      BY DEF HookInv
    <3>2. Holders = {}
      BY <3>1 DEF Holders, HoldsPoolSlot
    <3>3. Cardinality(Holders) = 0
      BY <3>2, FS_EmptySet
    <3>4. poolFree \in Int /\ Cardinality(Slots) \in Nat
      BY FactoryConstants, FS_CardinalityType DEF TypeOK
    <3>5. pool # "none" => poolFree + Cardinality(Holders) = Cardinality(Slots)
      BY DEF PoolSlotsConserved, Holders
    <3> QED  BY <3>3, <3>4, <3>5
  <2> QED  BY <2>3, <2>4, <2>5, <2>6, <2>7 DEF AllReturned, TokensReturned
<1> QED
  BY <1>1, FactoryInvariant, OwnerInvariant, PTL

-----------------------------------------------------------------------------
\* A step after which every lease that was acquired is where it was or further on.
LEMMA LeasesEnd ==
  ASSUME TypeOK, TypeOK',
         \A l \in Tasks :
           \/ leaseState'[l] = leaseState[l]
           \/ leaseState[l] = "live" /\ leaseState'[l] = "lost"
           \/ leaseState[l] # "unused" /\ leaseState'[l] = "closed"
  PROVE  Egress!Next
<1> DEFINE shut == {l \in Tasks : leaseState[l] # "unused" /\ leaseState'[l] = "closed"}
<1> DEFINE ended == {l \in Tasks : leaseState[l] = "live" /\ leaseState'[l] = "lost"}
<1>1. leaseState' = [l \in Tasks |-> IF l \in shut THEN "closed"
                                     ELSE IF l \in ended THEN "lost" ELSE leaseState[l]]
  BY DEF TypeOK
<1>2. Egress!End(shut, ended)
  BY <1>1 DEF Egress!End
<1> QED
  BY <1>2 DEF Egress!Next

\* Each step of the factory is one of its leases, or none.
LEMMA EgressNext ==
  FactoryInv /\ FactoryInv' /\ OwnerInv /\ [Next]_vars => [Egress!Next]_leaseState
<1> SUFFICES ASSUME FactoryInv, FactoryInv', OwnerInv, [Next]_vars,
                    leaseState' # leaseState
             PROVE  Egress!Next
  OBVIOUS
<1>1. TypeOK /\ TypeOK'
  BY DEF FactoryInv
<1>2. ASSUME NEW t \in Tasks, AcquireScan(t) \/ AcquireSession(t) PROVE Egress!Next
  <2>1. Unasked(t) /\ leaseState' = [leaseState EXCEPT ![t] = "live"]
    BY <1>2 DEF AcquireScan, AcquireSession, Goto, Unasked
  <2>2. Egress!Acquire(t)
    BY <2>1 DEF OwnerInv, Egress!Acquire
  <2> QED  BY <2>2 DEF Egress!Next
<1>3. ASSUME NEW l \in Tasks, leaseState[l] # "unused",
             leaseState' = [leaseState EXCEPT ![l] = "closed"]
      PROVE  Egress!Next
  BY <1>1, <1>3, LeasesEnd DEF TypeOK
<1>4. ASSUME NEW t \in Tasks, CloseOld(t) PROVE Egress!Next
  <2>1. pc[t] = "closeOld" /\ leaseState' = [leaseState EXCEPT ![stale[t]] = "closed"]
    BY <1>4 DEF CloseOld, Goto
  <2>2. stale[t] \in Tasks /\ Handed(stale[t])
    BY <1>1, <2>1 DEF FactoryInv, LeaseInv, TypeOK, Handed
  <2> QED  BY <1>3, <2>1, <2>2 DEF OwnerInv
<1>5. ASSUME NEW t \in Tasks, InstallRefused(t) PROVE Egress!Next
  BY <1>3, <1>5 DEF InstallRefused, Fail, Goto, OwnerInv
<1>6. ASSUME NEW t \in Tasks, ReleaseLease(t) PROVE Egress!Next
  <2>1. ~Session(t) /\ lease[t] # None /\ leaseState' = [leaseState EXCEPT ![t] = "closed"]
    BY <1>6 DEF ReleaseLease
  <2>2. lease[t] = t /\ leaseState[t] # "unused"
    BY <2>1 DEF FactoryInv, LeaseInv, OwnerInv
  <2> QED  BY <1>3, <2>1, <2>2
<1>7. ASSUME CloseSessionLease PROVE Egress!Next
  <2>1. leaseState' = [l \in Tasks |->
                         IF l = closingLease THEN "closed"
                         ELSE IF Session(l) /\ leaseState[l] = "live" THEN "lost"
                         ELSE leaseState[l]]
    BY <1>7 DEF CloseSessionLease
  <2>2. \A l \in Tasks : l = closingLease => leaseState[l] # "unused"
    BY DEF OwnerInv, Handed
  <2> QED  BY <1>1, <2>1, <2>2, LeasesEnd
<1>8. ASSUME NEW l \in Tasks, LoseLease(l) PROVE Egress!Next
  BY <1>1, <1>8, LeasesEnd DEF LoseLease, TypeOK
<1>9. ASSUME NEW t \in Tasks, LeaseStep(t) PROVE Egress!Next
  BY <1>2, <1>4, <1>5, <1>9 DEF LeaseStep, AcquireFails, ReuseSessionLease, DetachSessionLease,
     InstallSessionLease
<1>10. ASSUME NEW t \in Tasks,
              \/ Open(t) \/ TakeSession(t) \/ GiveUp(t) \/ OpenInSlot(t) \/ OpenInSlotRefused(t)
              \/ EnsurePool(t) \/ PoolFails(t) \/ PoolStep(t) \/ AddFactoryHook(t)
       PROVE  FALSE
  BY <1>10 DEF Open, TakeSession, GiveUp, OpenInSlot, OpenInSlotRefused, EnsurePool, PoolFails,
     PoolStep, PoolSlotCancelled, BeginOpening, OpeningRefused, Launch, LaunchFails, Register,
     RegisterRejected, Rejected, PoolUnwind, AddPoolHook, AddFactoryHook
<1>11. ASSUME NEW t \in Tasks, ReleaseSlot(t) \/ CloseByUser(t) \/ CloseStep(t) \/ CancelTask(t)
       PROVE  FALSE
  BY <1>11 DEF ReleaseSlot, CloseByUser, CloseStep, CloseByContext, CloseByPool, StartClose,
     CloseChrome, RunPoolHook, RunFactoryHook, HooksDone, CancelTask
<1>12. ASSUME \/ FactoryClose \/ PoolClose \/ PoolOpeningsDone
              \/ (\E t \in Tasks : PoolCloseNext(t)) \/ PoolClosedOne \/ StopRuntime
              \/ ConfigureEgress \/ UNCHANGED vars
       PROVE  FALSE
  BY <1>12 DEF FactoryClose, PoolClose, PoolOpeningsDone, PoolCloseNext, PoolClosedOne,
     StopRuntime, ConfigureEgress, vars
<1> QED
  BY <1>6, <1>7, <1>8, <1>9, <1>10, <1>11, <1>12 DEF Next, OpenStep, ReleaseStep, FactoryStep

(***************************************************************************)
(* The factory uses its leases within the contract SoxyLease keeps: it     *)
(* acquires each once and closes only what it acquired, so that the two    *)
(* modules fit together.                                                   *)
(***************************************************************************)
THEOREM FactoryRespectsLease == Spec => RespectsLease
<1>1. Init => Egress!Init
  BY DEF Init, Egress!Init
<1>2. FactoryInv /\ FactoryInv' /\ OwnerInv /\ [Next]_vars => [Egress!Next]_leaseState
  BY EgressNext
<1> QED
  BY <1>1, <1>2, FactoryInvariant, OwnerInvariant, PTL DEF Spec, RespectsLease, Egress!Spec

-----------------------------------------------------------------------------
\* The refinement mapping of ImplementsService, named.
Running == {t \in Tasks : chrome[t]}
Phase ==
  IF closePC \in {"running", "poolClose"} THEN "open"
  ELSE IF closePC \in {"poolWait", "adapters"} THEN "shut" ELSE "down"

\* A Chrome has one of the pool's tokens.
LEMMA RunningHolds == ASSUME FactoryInv PROVE Running \subseteq Holders
BY DEF FactoryInv, TypeOK, PCs, AdapterInv, PoolInv, Running, Holders, HoldsPoolSlot

\* NewAdapter begins to open: the token it took was free, so fewer Chromes run
\* than there are slots, and a session has the token of the account profile.
LEMMA ServiceStart ==
  ASSUME FactoryInv, NEW t \in Tasks, BeginOpening(t)
  PROVE  Service!Start(t)
<1>1. pc[t] = "poolSlot" /\ pool = "open" /\ poolFree > 0 /\ closePC' = closePC
  BY DEF BeginOpening, Goto, closeVars
<1>2. Phase = "open" /\ Phase' = Phase
  BY <1>1 DEF FactoryInv, TypeOK, CloseInv, Phase
<1>3. t \notin Running
  BY <1>1 DEF FactoryInv, AdapterInv, TypeOK, Running
<1>4. Running' = Running \cup {t}
  BY DEF BeginOpening, FactoryInv, TypeOK, Running
<1>5. Cardinality(Running) < Cardinality(Slots)
  <2>1. Cardinality(Running) <= Cardinality(Holders) /\ Cardinality(Running) \in Nat
    BY RunningHolds, HoldersFinite, FS_Subset, FS_CardinalityType
  <2>2. poolFree + Cardinality(Holders) = Cardinality(Slots)
    BY <1>1 DEF FactoryInv, PoolSlotsConserved, Holders
  <2> QED  BY <1>1, <2>1, <2>2, HoldersFinite DEF FactoryInv, TypeOK
<1>6. Session(t) => \A u \in Running : ~Session(u)
  <2> SUFFICES ASSUME Session(t), NEW u \in Running, Session(u) PROVE FALSE
    OBVIOUS
  <2>1. u \in Tasks /\ UsesLease(u) /\ UsesLease(t)
    BY <1>1 DEF Running, UsesLease
  <2>2. holdsSession[t] /\ holdsSession[u]
    BY <2>1, SessionUserHolds
  <2>3. t = u
    BY <2>1, <2>2 DEF FactoryInv, TokenInv
  <2> QED  BY <1>3, <2>3
<1>7. t \in {u \in Tasks : Session(u)} => Running \cap {u \in Tasks : Session(u)} = {}
  BY <1>6
<1>8. Service!Cardinality(Running) = Cardinality(Running)
  BY Zenon DEF Service!Cardinality, Cardinality
<1> QED
  BY <1>2, <1>3, <1>4, <1>5, <1>7, <1>8 DEF Service!Start, Running, Phase

\* Steps that start no Chrome and do not move Close: some Chrome may stop.
LEMMA ServiceStop ==
  ASSUME Running' \subseteq Running, Phase' = Phase PROVE Service!Next
BY DEF Service!Next, Service!Stop, Running, Phase

\* Each step of the factory is one of the service, or none.
LEMMA ServiceNext ==
  FactoryInv /\ FactoryInv' /\ [Next]_vars => [Service!Next]_(Service!vars)
<1> SUFFICES ASSUME FactoryInv, FactoryInv', [Next]_vars PROVE [Service!Next]_(Service!vars)
  OBVIOUS
<1>1. CASE UNCHANGED <<chrome, closePC>>
  BY <1>1, ServiceStop DEF Running, Phase
<1>2. CASE \E t \in Tasks : BeginOpening(t)
  BY <1>2, ServiceStart DEF Service!Next
<1>3. CASE \E t \in Tasks : LaunchFails(t) \/ CloseChrome(t)
  <2>1. closePC' = closePC /\ Running' \subseteq Running
    BY <1>3 DEF LaunchFails, CloseChrome, closeVars, FactoryInv, TypeOK, Running
  <2> QED  BY <2>1, ServiceStop DEF Phase
<1>4. CASE FactoryClose \/ PoolClose \/ PoolOpeningsDone \/ StopRuntime \/ CloseSessionLease
  <2>1. chrome' = chrome
    BY <1>4 DEF FactoryClose, PoolClose, PoolOpeningsDone, StopRuntime, CloseSessionLease,
       adapterVars
  <2>2. Running' = Running
    BY <2>1 DEF Running
  <2>3. closePC' \in {"lease", "closed"} => Running' = {}
    BY DEF FactoryInv, CloseInv, RuntimeOutlivesBrowser, PoolInv, AdapterInv, TypeOK, Running
  <2>4. \/ Phase' = Phase
        \/ Phase # "down" /\ (Phase' = "shut" \/ (Phase' = "down" /\ Running' = {}))
    BY <1>4, <2>3 DEF FactoryClose, PoolClose, PoolOpeningsDone, StopRuntime,
       CloseSessionLease, Phase
  <2>5. CASE Phase' = Phase
    BY <2>2, <2>5, ServiceStop
  <2>6. CASE Phase # "down" /\ (Phase' = "shut" \/ (Phase' = "down" /\ Running' = {}))
    BY <2>2, <2>6 DEF Service!Next, Service!Close, Running, Phase
  <2> QED  BY <2>4, <2>5, <2>6
<1>5. \/ UNCHANGED <<chrome, closePC>>
      \/ \E t \in Tasks : BeginOpening(t) \/ LaunchFails(t) \/ CloseChrome(t)
      \/ FactoryClose \/ PoolClose \/ PoolOpeningsDone \/ StopRuntime \/ CloseSessionLease
  <2> USE DEF closeVars, adapterVars
  <2>1. ASSUME NEW t \in Tasks,
               \/ Open(t) \/ TakeSession(t) \/ GiveUp(t) \/ OpenInSlot(t) \/ OpenInSlotRefused(t)
               \/ LeaseStep(t) \/ EnsurePool(t) \/ PoolFails(t) \/ AddFactoryHook(t)
        PROVE  UNCHANGED <<chrome, closePC>>
    BY <2>1 DEF Open, TakeSession, GiveUp, OpenInSlot, OpenInSlotRefused, LeaseStep, AcquireScan,
       AcquireFails, ReuseSessionLease, DetachSessionLease, CloseOld, AcquireSession,
       InstallSessionLease, InstallRefused, EnsurePool, PoolFails, AddFactoryHook
  <2>2. ASSUME NEW t \in Tasks, PoolStep(t), ~BeginOpening(t), ~LaunchFails(t)
        PROVE  UNCHANGED <<chrome, closePC>>
    BY <2>2 DEF PoolStep, PoolSlotCancelled, OpeningRefused, Launch, Register, RegisterRejected,
       Rejected, PoolUnwind, AddPoolHook
  <2>3. ASSUME NEW t \in Tasks, ReleaseStep(t) \/ CloseByUser(t) \/ CancelTask(t) \/ LoseLease(t)
        PROVE  UNCHANGED <<chrome, closePC>>
    BY <2>3 DEF ReleaseStep, ReleaseLease, ReleaseSlot, CloseByUser, StartClose, CancelTask,
       LoseLease
  <2>4. ASSUME NEW t \in Tasks, CloseStep(t), ~CloseChrome(t)
        PROVE  UNCHANGED <<chrome, closePC>>
    BY <2>4 DEF CloseStep, CloseByContext, CloseByPool, StartClose, RunPoolHook, RunFactoryHook,
       HooksDone
  <2>5. ASSUME \/ (\E t \in Tasks : PoolCloseNext(t)) \/ PoolClosedOne \/ ConfigureEgress
               \/ UNCHANGED vars
        PROVE  UNCHANGED <<chrome, closePC>>
    BY <2>5 DEF PoolCloseNext, PoolClosedOne, ConfigureEgress, vars
  <2> QED
    BY <2>1, <2>2, <2>3, <2>4, <2>5 DEF Next, OpenStep, FactoryStep
<1> QED
  BY <1>1, <1>2, <1>3, <1>4, <1>5

(***************************************************************************)
(* The factory, its pool and its adapters together are the service the     *)
(* scanner relies on: never more Chromes than slots, one on the account    *)
(* profile, none started once the pool is closed, none left in the end.    *)
(***************************************************************************)
THEOREM FactoryImplementsService == Spec => ImplementsService
<1>1. Init => Service!Init
  BY DEF Init, Service!Init
<1>2. FactoryInv /\ FactoryInv' /\ [Next]_vars => [Service!Next]_(Service!vars)
  BY ServiceNext
<1> QED
  BY <1>1, <1>2, FactoryInvariant, PTL DEF Spec, ImplementsService, Service!Spec
=============================================================================
