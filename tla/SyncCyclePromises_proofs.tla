---------------------- MODULE SyncCyclePromises_proofs ----------------------
(***************************************************************************)
(* Proofs about what the cycles promise to those who look at their         *)
(* results, for every value of the constants: the grace period and the     *)
(* ownership that Leases states, and a status that is true.                *)
(***************************************************************************)
EXTENDS SyncCycle_proofs
-----------------------------------------------------------------------------
(***************************************************************************)
(* SyncCycle implements Leases, for every value of the constants: each of  *)
(* its steps is a step of Leases, or leaves the state of Leases alone.     *)
(*                                                                         *)
(* The two invariants proved before carry it: GraceInv, that what a plan   *)
(* removes has waited, and WritesInv, that what is written still is what   *)
(* was planned.                                                            *)
(***************************************************************************)

NotRehearsed == pc = "dns" => ~settings.dryRun

Inv == GraceInv /\ WritesInv /\ NotRehearsed

(* What a step must leave alone to leave the state of Leases alone, except *)
(* for where the service stands.                                           *)
Same ==
  /\ UNCHANGED <<roots, dns, unseen, settings, discovered, dropped, dockerOk, edited>>
  /\ Ordered' = Ordered

LEMMA StepWorks == TypeOK' => L!Works
BY DEF TypeOK, L!Works

LEMMA SameOrder == Same => UNCHANGED <<roots, dns, unseen, edited, L!order>>
BY DEF Same, L!order, Effective

LEMMA SameStutters == Same /\ UNCHANGED <<pc, todo>> => UNCHANGED L!vars
BY SameOrder DEF L!vars

LEMMA SameProceeds == Same /\ TypeOK' => L!Proceed
BY SameOrder, StepWorks DEF L!Proceed, L!order

(* A step after which there is no order, and that writes nothing. *)
LEMMA Rests ==
  ASSUME UNCHANGED <<roots, dns, unseen, edited>>, ~Ordered', TypeOK' PROVE L!Rest
BY StepWorks DEF L!Rest, L!Idle, L!Nothing, NoServices

(* The wait of an order, and what the plan says of it. *)
LEMMA WaitTyped ==
  ASSUME TypeOK
  PROVE  /\ Effective.immediate \in BOOLEAN /\ Effective.grace \in 0 .. MaxAge
         /\ settings.grace \in Nat /\ DropGrace \in Nat
         /\ ~Effective.immediate =>
              /\ ~settings.immediate \/ dropped
              /\ Effective.grace = settings.grace \/ (dropped /\ Effective.grace = DropGrace)
<1>1. /\ settings \in Settings /\ settings.grace <= MaxAge
      /\ DropGrace \in Nat /\ DropGrace <= MaxAge /\ MaxAge \in Nat
  BY ConfigAssumption DEF TypeOK
<1>2. settings.grace \in 0 .. MaxAge /\ settings.immediate \in BOOLEAN
  BY <1>1 DEF Settings
<1>3. CASE dropped
  <2>1. /\ Effective.immediate = FALSE
        /\ Effective.grace = IF settings.grace > DropGrace THEN settings.grace ELSE DropGrace
    BY <1>1, <1>3 DEF Effective, Settings
  <2>2. Effective.grace \in 0 .. MaxAge
    BY <1>1, <1>2, <2>1
  <2>3. Effective.grace = settings.grace \/ Effective.grace = DropGrace
    BY <2>1
  <2>4. Effective.immediate \in BOOLEAN
    BY <2>1, Zenon
  <2>5. settings.grace \in Nat
    BY <1>1, <1>2
  <2> QED BY <1>1, <1>3, <2>2, <2>3, <2>4, <2>5
<1>4. CASE ~dropped
  <2>1. Effective = settings
    BY <1>4 DEF Effective
  <2> QED BY <1>1, <1>2, <2>1
<1> QED BY <1>3, <1>4

(* What is planned to be removed may be removed. *)
LEMMA RemovalAllowed ==
  ASSUME Inv, Planned, ~settings.dryRun, dockerOk, NEW h \in Hosts, discovered[h] = None,
         h \in plan.deletions.ingress \cup plan.deletions.dns
  PROVE  L!MayRemove(h)
<1>1. Ordered
  BY DEF Planned, Ordered
<1>2. unseen[h] \in Nat /\ TypeOK
  BY ConfigAssumption DEF Inv, WritesInv, TypeOK
<1>3. /\ ~settings.immediate \/ dropped => unseen[h] >= settings.grace
      /\ dropped => unseen[h] >= DropGrace
  BY DEF Inv, GraceInv, GraceRespected, Planned
<1>4. CASE Effective.immediate
  BY <1>1, <1>2, <1>4 DEF L!MayRemove
<1>5. CASE ~Effective.immediate
  <2>1. unseen[h] >= Effective.grace
    BY <1>2, <1>3, <1>5, WaitTyped
  <2> QED BY <1>1, <1>5, <2>1 DEF L!MayRemove
<1> QED BY <1>4, <1>5
-----------------------------------------------------------------------------
(***************************************************************************)
(* One lemma per kind of step.                                             *)
(***************************************************************************)
LEMMA PlanRenews == Inv /\ MakePlan /\ TypeOK' => L!RenewOnly \/ L!GiveOrder
<1> SUFFICES ASSUME Inv, MakePlan, TypeOK' PROVE L!RenewOnly \/ L!GiveOrder
  OBVIOUS
<1> DEFINE seen == {h \in Hosts : dockerOk /\ discovered[h] # None}
<1>1. /\ UNCHANGED <<roots, dns, settings, discovered, dropped, dockerOk>>
      /\ unseen' = [h \in Hosts |-> IF h \in seen THEN 0 ELSE unseen[h]]
      /\ edited' = {} /\ pc' \in {"persist", "execute"}
  BY DEF MakePlan, world
<1>2. L!Renew(seen) /\ seen \in SUBSET Hosts
  BY <1>1, StepWorks DEF L!Renew
<1>3. CASE ~Ordered'
  <2>1. (L!Idle)'
    BY <1>3 DEF L!Idle, L!Nothing, NoServices
  <2> QED BY <1>2, <2>1 DEF L!RenewOnly
<1>4. CASE Ordered'
  <2>1. dockerOk /\ seen = {h \in Hosts : discovered'[h] # None}
    BY <1>1, <1>4 DEF Ordered
  <2>2. discovered' \in [Hosts -> Routes \cup {None}] /\ TypeOK
    BY <1>1 DEF Inv, WritesInv, TypeOK
  <2>3. /\ Effective' = Effective
        /\ Effective.grace \in 0 .. MaxAge /\ 0 \in 0 .. MaxAge
    BY <1>1, <2>2, WaitTyped, ConfigAssumption DEF Effective
  <2>4. (IF Ordered' /\ ~Effective'.immediate THEN Effective'.grace ELSE 0) \in 0 .. MaxAge
    BY <2>3
  <2> HIDE DEF seen
  <2> QED BY <1>1, <1>2, <1>4, <2>1, <2>2, <2>4 DEF L!GiveOrder
<1> QED BY <1>3, <1>4

LEMMA PutSetsRoutes == Inv /\ [Next]_vars /\ Put /\ TypeOK' => L!SetRoutes
<1> SUFFICES ASSUME Inv, [Next]_vars, Put, TypeOK' PROVE L!SetRoutes
  OBVIOUS
<1>1. PutSkipped \/ PutSucceeds \/ PutRejected \/ PutLost
  BY DEF Put, Next, Cycle, Environment, vars, Unconfigured, Discover, DiscoverFails, Resolve,
         ResolveDryRun, ProvisionLost, ReadFails, ActivateUnchanged, ActivateRestarts,
         ActivateFails, TokenWriteFails, MakePlan, Persist, PersistFails, DryRunEnds, Blocked,
         DnsSucceeds, DnsRejected, DnsLost, Finish, Crash, Tick, CalmDown, ContainerChanges,
         EditDns, EditRoute, EndWith
<1>2. /\ UNCHANGED <<dns, settings, discovered, dropped, dockerOk, unseen, edited>>
      /\ pc = "execute" /\ pc' = "dns" /\ ~settings.dryRun
  BY <1>1 DEF PutSkipped, PutSucceeds, PutRejected, PutLost, PutIngress, history
<1>3. UNCHANGED <<dns, unseen, edited, L!order>> /\ L!Works
  BY <1>2, StepWorks DEF L!order, Ordered, Effective
<1>4. ASSUME NEW h \in Hosts \ edited, roots'[h] # roots[h]
      PROVE  IF roots'[h] = None THEN L!MayRemove(h)
             ELSE L!MaySet(h) /\ roots'[h] = discovered[h]
  <2>1. roots' = plan.roots
    BY <1>4, OnlyPutPuts
  <2>2. /\ dockerOk /\ roots'[h] = discovered[h]
        /\ roots'[h] = None => h \in plan.deletions.ingress
    BY <1>2, <1>4, <2>1 DEF Inv, WritesInv, RoutesFit
  <2>3. CASE roots'[h] = None
    BY <1>2, <2>2, <2>3, RemovalAllowed DEF Planned
  <2>4. CASE roots'[h] # None
    BY <1>2, <2>2, <2>4 DEF L!MaySet, Ordered
  <2> QED BY <2>3, <2>4
<1>5. CASE Ordered
  BY <1>3, <1>4, <1>5 DEF L!SetRoutes, L!order
<1>6. CASE ~Ordered
  <2>1. roots' = roots
    BY <1>2, <1>6, OnlyPutPuts DEF Inv, WritesInv, PlanFits, Planned, Ordered
  <2> QED BY <1>3, <2>1 DEF L!SetRoutes, L!order
<1> QED BY <1>5, <1>6

LEMMA WriteSetsRecord ==
  ASSUME Inv, NEW h \in Hosts, DnsSucceeds(h) \/ DnsLost(h), TypeOK'
  PROVE  L!SetRecord(h)
<1>1. /\ UNCHANGED <<roots, settings, discovered, dropped, dockerOk, unseen, edited>>
      /\ pc = "dns" /\ pc' = "dns" /\ h \in todo
      /\ dns' = [dns EXCEPT ![h] = IF plan.dns[h] = "delete" THEN None ELSE OwnedRecord]
  BY DEF DnsSucceeds, DnsLost, WriteDns, history
<1>2. UNCHANGED <<roots, unseen, edited, L!order>> /\ L!Works
  BY <1>1, StepWorks DEF L!order, Ordered, Effective
<1>3. h \in DnsMutations(plan) /\ plan \in PlanType
  BY <1>1 DEF Inv, WritesInv, TodoFits, TypeOK
<1>4. /\ dockerOk /\ (plan.dns[h] = "delete" <=> discovered[h] = None)
      /\ plan.dns[h] = "delete" => h \in plan.deletions.dns
  BY <1>1, <1>3 DEF Inv, WritesInv, PlanFits, Planned
<1>5. ~settings.dryRun
  BY <1>1 DEF Inv, NotRehearsed
<1>6. CASE plan.dns[h] = "delete"
  <2>1. L!MayRemove(h)
    BY <1>1, <1>4, <1>5, <1>6, RemovalAllowed DEF Planned
  <2> QED BY <1>1, <1>2, <1>6, <2>1 DEF L!SetRecord, L!order
<1>7. CASE plan.dns[h] # "delete"
  <2>1. L!MaySet(h)
    BY <1>1, <1>4, <1>5, <1>7 DEF L!MaySet, Ordered
  <2>2. OwnedRecord # None
    <3>1. OwnedRecord \in Record
      BY DEF OwnedRecord, Record, Comments
    <3> QED BY <3>1, NoneIsNoRecord
  <2> QED BY <1>1, <1>2, <1>7, <2>1, <2>2 DEF L!SetRecord, L!order
<1> QED BY <1>6, <1>7

LEMMA EditEdits ==
  ASSUME Inv, NEW h \in Hosts, EditDns(h) \/ EditRoute(h) PROVE L!Edit(h)
<1>1. /\ UNCHANGED <<pc, todo, settings, discovered, dropped, dockerOk, unseen>>
      /\ edited' = edited \cup {h}
  BY DEF EditDns, EditRoute, cycle
<1>2. \A g \in Hosts \ {h} : roots'[g] = roots[g] /\ dns'[g] = dns[g]
  BY DEF EditDns, EditRoute, Inv, WritesInv, TypeOK
<1> QED BY <1>1, <1>2 DEF L!Edit, L!order, Ordered, Effective

LEMMA TickTicks == Tick => L!Tick
<1> SUFFICES ASSUME Tick PROVE L!Tick
  OBVIOUS
<1>1. /\ UNCHANGED <<roots, dns, pc, todo, settings, discovered, dropped, dockerOk, edited>>
      /\ unseen' = [h \in Hosts |-> Older(unseen[h])]
  BY DEF Tick, world, cycle
<1> QED BY <1>1 DEF L!Tick, L!order, Ordered, Effective, Older
-----------------------------------------------------------------------------
LEMMA NextSimulates == Inv /\ [Next]_vars => [L!Next]_(L!vars)
<1> SUFFICES ASSUME Inv, [Next]_vars PROVE L!Next \/ UNCHANGED L!vars
  OBVIOUS
<1> USE DEF world, files, history, remote, cycle
<1>0. TypeOK'
  BY NextTyped DEF Inv, WritesInv
<1>1. CASE Unconfigured \/ DiscoverFails \/ ResolveDryRun \/ ProvisionLost \/ ReadFails
             \/ DryRunEnds \/ Blocked \/ Finish \/ Crash
  <2>1. ~Ordered' /\ UNCHANGED <<roots, dns, unseen, edited>>
    BY <1>1 DEF Unconfigured, DiscoverFails, ResolveDryRun, ProvisionLost, ReadFails,
                DryRunEnds, Blocked, Finish, Crash, EndWith, Ordered
  <2> QED BY <1>0, <2>1, Rests DEF L!Next, L!Service
<1>2. CASE Discover \/ Resolve \/ ActivateUnchanged \/ ActivateRestarts \/ ActivateFails
             \/ TokenWriteFails
  <2>1. ~Ordered' /\ UNCHANGED <<roots, dns, unseen, edited>>
    BY <1>2 DEF Discover, Resolve, ActivateUnchanged, ActivateRestarts, ActivateFails,
                TokenWriteFails, Ordered
  <2> QED BY <1>0, <2>1, Rests DEF L!Next, L!Service
<1>3. CASE MakePlan
  BY <1>0, <1>3, PlanRenews DEF L!Next, L!Service
<1>4. CASE Persist \/ PersistFails
  <2>1. Same
    BY <1>4 DEF Persist, PersistFails, Same, Ordered
  <2> QED BY <1>0, <2>1, SameProceeds DEF L!Next, L!Service
<1>5. CASE PutSkipped \/ PutSucceeds \/ PutRejected \/ PutLost
  <2>1. Put
    BY <1>5 DEF PutSkipped, PutSucceeds, PutRejected, PutLost, PutIngress, Put
  <2> QED BY <1>0, <2>1, PutSetsRoutes DEF L!Next, L!Service
<1>6. ASSUME NEW h \in Hosts, DnsSucceeds(h) \/ DnsRejected(h) \/ DnsLost(h)
      PROVE  L!Next \/ UNCHANGED L!vars
  <2>1. CASE DnsSucceeds(h) \/ DnsLost(h)
    BY <1>0, <2>1, WriteSetsRecord DEF L!Next, L!Service
  <2>2. CASE DnsRejected(h)
    <3>1. Same
      BY <2>2 DEF DnsRejected, WriteDns, Same, Ordered
    <3> QED BY <1>0, <3>1, SameProceeds DEF L!Next, L!Service
  <2> QED BY <1>6, <2>1, <2>2
<1>7. CASE Tick
  BY <1>7, TickTicks DEF L!Next
<1>8. CASE CalmDown \/ \E h \in Hosts : ContainerChanges(h)
  <2>1. Same /\ UNCHANGED <<pc, todo>>
    BY <1>8 DEF CalmDown, ContainerChanges, Same, Ordered
  <2> QED BY <2>1, SameStutters
<1>9. CASE \E h \in Hosts : EditDns(h) \/ EditRoute(h)
  BY <1>9, EditEdits DEF L!Next
<1>10. CASE UNCHANGED vars
  <2>1. Same /\ UNCHANGED <<pc, todo>>
    BY <1>10 DEF vars, Same, Ordered
  <2> QED BY <2>1, SameStutters
<1> QED
  BY <1>1, <1>2, <1>3, <1>4, <1>5, <1>6, <1>7, <1>8, <1>9, <1>10
  DEF Next, Cycle, Environment

LEMMA NextNotRehearsed == NotRehearsed /\ [Next]_vars => NotRehearsed'
<1> SUFFICES ASSUME NotRehearsed, [Next]_vars, pc' = "dns" PROVE ~settings'.dryRun
  BY DEF NotRehearsed
<1> QED
  BY DEF NotRehearsed, world, files, history, remote, cycle, vars, Next, Cycle, Environment,
         Unconfigured, Discover, DiscoverFails, Resolve, ResolveDryRun, ProvisionLost, ReadFails,
         ActivateUnchanged, ActivateRestarts, ActivateFails, TokenWriteFails, MakePlan, Persist,
         PersistFails, DryRunEnds, Blocked, PutSkipped, PutSucceeds, PutRejected, PutLost,
         PutIngress, DnsSucceeds, DnsRejected, DnsLost, WriteDns, Finish, Crash, Tick, CalmDown,
         ContainerChanges, EditDns, EditRoute, EndWith

LEMMA InvHolds == Spec /\ TombstonesReliable => []Inv
<1>1. Init /\ TombstonesReliable => Inv
  <2>1. Init => WritesInv
    BY InitTyped DEF Init, WritesInv, PlanFits, RoutesFit, RecordsFit, TodoFits, Planned
  <2> QED BY <2>1, InitGrace DEF Inv, NotRehearsed, Init
<1>2. Inv /\ [Next]_vars => Inv'
  BY NextKeepsGrace, NextKeepsWrites, NextNotRehearsed DEF Inv
<1> QED BY <1>1, <1>2, PTL DEF Spec

(* Every behaviour of the synchronizer, with any number of hosts, settings *)
(* and faults, is one that Leases allows: no write takes anything from a   *)
(* host whose lease still runs, sets anything but what the inventory asked *)
(* for, or happens without an order (application/sync.py, executor.py).    *)
(* The proviso is that of GraceHolds.                                      *)
THEOREM ImplementsLeases == Spec /\ TombstonesReliable => LeasesKept
<1>1. Init => L!Init
  BY DEF Points, Init, L!Init, L!Idle, L!Nothing, NoServices, Ordered
<1> QED BY <1>1, NextSimulates, InvHolds, PTL DEF Spec, LeasesKept, L!Spec
-----------------------------------------------------------------------------
(***************************************************************************)
(* Proofs about the end of a cycle, for every value of the constants: that *)
(* a success is reported only when it is true, and that a tombstone        *)
(* outlives what it stands for.                                            *)
(*                                                                         *)
(* Both are about what the writes left behind.  OutcomeInv follows it from *)
(* the plan to the end: what the plan did not ask for is right already,    *)
(* what it asked for is right after its write, or the failure is recorded. *)
(***************************************************************************)

Ready == pc \in {"persist", "execute"}

(* What SyncedIsTrue asks of a discovered host. *)
RouteRight(r, h) == r = discovered[h] \/ (settings.preserveRoots /\ r # None)

RecordRight(rec) ==
  \/ rec = OwnedRecord
  \/ /\ rec # None
     /\ ParseStatus(rec, TRUE) \notin
          (IF settings.policy = "strict_tagged_only" THEN {"owned"} ELSE {"owned", "adopted"})

(* Failures are recorded during the writes only, and "synced" is the end.  *)
Recorded == (pc # "dns" => failed = {}) /\ (status = "synced" => pc = "idle")

(* The routes will be right after the PUT, and then are.                   *)
RoutesRight ==
  /\ Ready => \A h \in Hosts \ edited :
       /\ ~plan.put => plan.roots[h] = roots[h]
       /\ dockerOk /\ discovered[h] # None => RouteRight(plan.roots[h], h)
  /\ pc = "dns" /\ dockerOk /\ "ingress" \notin failed =>
       \A h \in Services(discovered) \ edited : RouteRight(roots[h], h)

(* A record that is right is left alone, every other one is still to do,   *)
(* or its write failed.                                                    *)
RecordsRight ==
  Planned /\ dockerOk =>
    \A h \in Services(discovered) \ edited :
      \/ RecordRight(dns[h])
      \/ Ready /\ h \in DnsMutations(plan)
      \/ pc = "dns" /\ (h \in todo \/ "dns" \in failed)

(* The tombstones that a successful end drops: route and record of their   *)
(* hosts are gone by then, or were never ours.                             *)
DropsRight ==
  Planned =>
    \A h \in plan.clear \ edited : discovered[h] = None =>
      /\ \/ settings.policy = "legacy_unrestricted"
         \/ Ready /\ plan.roots[h] = None
         \/ pc = "dns" /\ (roots[h] = None \/ "ingress" \in failed)
      /\ \/ ~Owned(dns[h])
         \/ Ready /\ plan.dns[h] = "delete"
         \/ pc = "dns" /\ (h \in todo \/ "dns" \in failed)

(* What is saved of a tombstone is no younger than the tombstone.          *)
SavedIsOld ==
  \A h \in Hosts :
    saved # None /\ tomb[h] # None => saved[h] = None \/ saved[h] >= tomb[h]

OutcomeInv ==
  WritesInv /\ Recorded /\ RoutesRight /\ RecordsRight /\ DropsRight /\ SavedIsOld /\ SyncedIsTrue
-----------------------------------------------------------------------------
(***************************************************************************)
(* What the planner decides.                                               *)
(***************************************************************************)
LEMMA ActiveDecision ==
  ASSUME NEW s, NEW v \in View, NEW h \in Hosts, v.dockerOk, Active(v, h)
  PROVE  /\ \/ FinalRoot(s, v, h) = v.origins[h]
            \/ s.preserveRoots /\ FinalRoot(s, v, h) # None
         /\ \/ DnsAction(s, v, h) \in {"create", "update", "delete"}
            \/ v.dns[h] = OwnedRecord
            \/ /\ v.dns[h] # None
               /\ ParseStatus(v.dns[h], TRUE) # "owned"
               /\ ParseStatus(v.dns[h], TRUE) = "adopted" => s.policy = "strict_tagged_only"
<1>1. IngressAction(s, v, h) =
        IF KeepManualRoot(s, v, h) THEN "noop"
        ELSE IF v.roots[h] = None THEN "create"
        ELSE IF v.roots[h] = v.origins[h] THEN "noop" ELSE "update"
  BY DEF IngressAction
<1>2. DnsAction(s, v, h) = DnsActionActive(s, v, h)
  BY DEF DnsAction
<1>3. \/ FinalRoot(s, v, h) = v.origins[h]
      \/ s.preserveRoots /\ FinalRoot(s, v, h) # None
  BY <1>1 DEF FinalRoot, KeepManualRoot
<1>4. \/ DnsAction(s, v, h) \in {"create", "update", "delete"}
      \/ v.dns[h] = OwnedRecord
      \/ /\ v.dns[h] # None
         /\ ParseStatus(v.dns[h], TRUE) # "owned"
         /\ ParseStatus(v.dns[h], TRUE) = "adopted" => s.policy = "strict_tagged_only"
  BY <1>2 DEF DnsActionActive
<1> QED BY <1>3, <1>4

LEMMA AbsentDecision ==
  ASSUME NEW s, NEW v \in View, NEW h \in Hosts, v.dockerOk, ~Active(v, h),
         Lingering(s, v, h), Cleanup(s, v, h) = "delete"
  PROVE  /\ Owned(v.dns[h]) => DnsAction(s, v, h) = "delete" /\ FinalRoot(s, v, h) = None
         /\ ~Owned(v.dns[h]) => s.policy = "legacy_unrestricted"
<1>1. ASSUME Owned(v.dns[h])
      PROVE  DnsAction(s, v, h) = "delete" /\ FinalRoot(s, v, h) = None
  <2>1. v.dns[h] # None /\ v.dns[h].type = "CNAME"
    BY <1>1 DEF Owned, ParseStatus
  <2>2. ManagedRecord(s, v, h)
    BY <1>1, <2>1 DEF ManagedRecord
  <2>3. DnsAction(s, v, h) = "delete"
    BY <2>1, <2>2 DEF DnsAction, DnsActionAbsent
  <2>4. IngressAction(s, v, h) = IF v.roots[h] = None THEN "none" ELSE "delete"
    BY <1>1 DEF IngressAction, ManagedRoot
  <2> QED BY <2>3, <2>4 DEF FinalRoot
<1>2. ASSUME ~Owned(v.dns[h]) PROVE s.policy = "legacy_unrestricted"
  BY <1>2 DEF Lingering, ManagedRoot, ManagedRecord
<1> QED BY <1>1, <1>2

(* Without a PUT the plan leaves the routes as they are. *)
LEMMA NoPutNoChange ==
  ASSUME NEW s, NEW v \in View, NEW h \in Hosts, ~ComputePlan(s, v).put
  PROVE  FinalRoot(s, v, h) = v.roots[h]
<1>1. CASE v.dockerOk
  BY <1>1 DEF ComputePlan
<1>2. CASE ~v.dockerOk
  BY <1>2 DEF FinalRoot, IngressAction
<1> QED BY <1>1, <1>2

(* Every record of ours is seen, and every CNAME of a discovered host.     *)
LEMMA OursIsSeen ==
  ASSUME TypeOK, NEW h \in Hosts, Owned(dns[h])
  PROVE  Snapshot.dns[h] = dns[h]
<1>1. h \in OnTunnel(dns)
  BY DEF Owned, ParseStatus, OnTunnel, Cnames
<1>2. h \in FetchBatch(dns, Services(discovered))
  BY <1>1 DEF FetchBatch, OnTunnel
<1> QED BY <1>2 DEF Snapshot, FetchDns

LEMMA SettingsKept ==
  ASSUME TypeOK
  PROVE  Effective.policy = settings.policy /\ Effective.preserveRoots = settings.preserveRoots
<1>1. settings \in Settings
  BY ConfigAssumption DEF TypeOK
<1> QED BY <1>1 DEF Effective, Settings
-----------------------------------------------------------------------------
(***************************************************************************)
(* Planning establishes what the writes are going to keep.                 *)
(***************************************************************************)
LEMMA PlanEstablishesOutcome == OutcomeInv /\ MakePlan => OutcomeInv'
<1> SUFFICES ASSUME OutcomeInv, MakePlan PROVE OutcomeInv'
  OBVIOUS
<1> DEFINE p == ComputePlan(Effective, Snapshot)
<1>1. TypeOK /\ Snapshot \in View /\ WritesInv'
  BY SnapshotTyped, PlanEstablishesWrites DEF OutcomeInv, WritesInv
<1>2. /\ plan' = p /\ pc' \in {"persist", "execute"} /\ pc = "plan"
      /\ UNCHANGED <<dockerOk, discovered, settings, roots, dns, status, failed, saved>>
      /\ tomb' = Tombstones(p)
  BY DEF MakePlan, world, files
<1>3. /\ Snapshot.dockerOk = dockerOk /\ Snapshot.roots = roots
      /\ Snapshot.origins = discovered /\ Snapshot.tomb = Loaded
  BY DEF Snapshot
<1>4. \A h \in Hosts : /\ p.dns[h] = DnsAction(Effective, Snapshot, h)
                       /\ p.roots[h] = FinalRoot(Effective, Snapshot, h)
  BY DEF ComputePlan
<1>5. /\ Effective.policy = settings.policy
      /\ Effective.preserveRoots = settings.preserveRoots
  BY <1>1, SettingsKept
<1>6. Recorded' /\ SyncedIsTrue'
  BY <1>2 DEF OutcomeInv, Recorded, SyncedIsTrue
<1>7. RoutesRight'
  <2>1. ASSUME NEW h \in Hosts
        PROVE  /\ ~p.put => p.roots[h] = roots[h]
               /\ dockerOk /\ discovered[h] # None => RouteRight(p.roots[h], h)
    <3>1. ~p.put => p.roots[h] = roots[h]
      BY <1>1, <1>3, <1>4, NoPutNoChange
    <3>2. ASSUME dockerOk, discovered[h] # None PROVE RouteRight(p.roots[h], h)
      BY <1>1, <1>3, <1>4, <1>5, <3>2, ActiveDecision DEF RouteRight, Active
    <3> QED BY <3>1, <3>2
  <2> QED BY <1>2, <2>1 DEF RoutesRight, RouteRight
<1>8. RecordsRight'
  <2>1. ASSUME NEW h \in Hosts, dockerOk, discovered[h] # None
        PROVE  RecordRight(dns[h]) \/ h \in DnsMutations(p)
    <3>1. \/ p.dns[h] \in {"create", "update", "delete"}
          \/ Snapshot.dns[h] = OwnedRecord
          \/ /\ Snapshot.dns[h] # None
             /\ ParseStatus(Snapshot.dns[h], TRUE) # "owned"
             /\ ParseStatus(Snapshot.dns[h], TRUE) = "adopted"
                  => settings.policy = "strict_tagged_only"
      BY <1>1, <1>3, <1>4, <1>5, <2>1, ActiveDecision DEF Active
    <3>2. OwnedRecord # None
      <4>1. OwnedRecord \in Record
        BY DEF OwnedRecord, Record, Comments
      <4> QED BY <4>1, NoneIsNoRecord
    <3>3. Snapshot.dns[h] # None => Snapshot.dns[h] = dns[h]
      BY SeenRecord
    <3> QED BY <3>1, <3>2, <3>3 DEF RecordRight, DnsMutations
  <2>2. DnsMutations(plan)' = DnsMutations(p) /\ \A h \in Hosts : RecordRight(dns[h])' = RecordRight(dns[h])
    BY <1>2 DEF DnsMutations, RecordRight
  <2>3. Ready'
    BY <1>2 DEF Ready
  <2> QED BY <1>2, <2>1, <2>2, <2>3 DEF RecordsRight, Services
<1>9. DropsRight'
  <2>1. ASSUME NEW h \in p.clear, discovered[h] = None
        PROVE  /\ settings.policy = "legacy_unrestricted" \/ p.roots[h] = None
               /\ ~Owned(dns[h]) \/ p.dns[h] = "delete"
    <3>1. /\ h \in Hosts /\ Snapshot.dockerOk /\ ~Active(Snapshot, h)
          /\ Lingering(Effective, Snapshot, h) /\ Cleanup(Effective, Snapshot, h) = "delete"
      BY <1>3, <2>1 DEF ComputePlan, TombstonesToClear, Active
    <3>2. /\ Owned(Snapshot.dns[h]) => p.dns[h] = "delete" /\ p.roots[h] = None
          /\ ~Owned(Snapshot.dns[h]) => settings.policy = "legacy_unrestricted"
      BY <1>1, <1>4, <1>5, <3>1, AbsentDecision
    <3>3. Owned(dns[h]) => Snapshot.dns[h] = dns[h]
      BY <1>1, <3>1, OursIsSeen
    <3> QED BY <3>2, <3>3
  <2>2. Ready' /\ pc' # "dns"
    BY <1>2 DEF Ready
  <2> QED BY <1>2, <2>1, <2>2 DEF DropsRight
<1>10. SavedIsOld'
  <2>1. ASSUME NEW h \in Hosts, saved # None, Tombstones(p)[h] # None, saved[h] # None
        PROVE  saved[h] >= Tombstones(p)[h]
    <3>1. saved[h] \in 0 .. MaxAge /\ tomb[h] \in 0 .. MaxAge \cup {None}
      BY <1>1, <2>1 DEF TypeOK, Ages
    <3>2. Tombstones(p)[h] \in {0, Loaded[h]}
      BY <2>1 DEF Tombstones
    <3>3. Loaded[h] \in {saved[h], tomb[h]}
      BY <2>1 DEF Loaded
    <3>4. tomb[h] # None => saved[h] >= tomb[h]
      BY <2>1 DEF OutcomeInv, SavedIsOld
    <3>5. MaxAge \in Nat
      BY ConfigAssumption
    <3>6. CASE Tombstones(p)[h] = 0
      BY <3>1, <3>5, <3>6
    <3>7. CASE Tombstones(p)[h] = saved[h]
      BY <3>1, <3>5, <3>7
    <3>8. CASE Tombstones(p)[h] = tomb[h]
      BY <2>1, <3>4, <3>8
    <3> QED BY <3>2, <3>3, <3>6, <3>7, <3>8
  <2> QED BY <1>2, <2>1 DEF SavedIsOld
<1> QED BY <1>1, <1>6, <1>7, <1>8, <1>9, <1>10 DEF OutcomeInv
-----------------------------------------------------------------------------
(***************************************************************************)
(* The other steps.                                                        *)
(***************************************************************************)

(* Outside planning and writing, little is left to keep.                   *)
LEMMA NoPlanNoOutcome ==
  ASSUME OutcomeInv, [Next]_vars, ~Planned', failed' = {}, status' # "synced",
         \A h \in Hosts : tomb'[h] # None => tomb'[h] = tomb[h],
         saved' # None => saved' = saved
  PROVE  OutcomeInv'
<1>1. WritesInv'
  BY NextKeepsWrites DEF OutcomeInv
<1>2. Recorded' /\ SyncedIsTrue'
  BY DEF Recorded, SyncedIsTrue
<1>3. RoutesRight' /\ RecordsRight' /\ DropsRight'
  BY DEF Planned, Ready, RoutesRight, RecordsRight, DropsRight
<1>4. SavedIsOld'
  BY DEF OutcomeInv, SavedIsOld
<1> QED BY <1>1, <1>2, <1>3, <1>4 DEF OutcomeInv

(* A step of others, which edits no more than it admits.                   *)
LEMMA OthersKeepOutcome ==
  ASSUME OutcomeInv, [Next]_vars, SavedIsOld',
         UNCHANGED <<pc, status, settings, discovered, dockerOk, plan, todo, failed>>,
         edited \subseteq edited',
         \A h \in Hosts \ edited' : roots'[h] = roots[h] /\ dns'[h] = dns[h]
  PROVE  OutcomeInv'
<1>1. WritesInv'
  BY NextKeepsWrites DEF OutcomeInv
<1>2. Recorded'
  BY DEF OutcomeInv, Recorded
<1>3. SyncedIsTrue'
  BY DEF OutcomeInv, SyncedIsTrue, Services
<1>4. RoutesRight'
  BY DEF OutcomeInv, RoutesRight, RouteRight, Ready, Services
<1>5. RecordsRight'
  BY DEF OutcomeInv, RecordsRight, RecordRight, Ready, Planned, Services, DnsMutations
<1>6. DropsRight'
  <2>1. plan.clear \subseteq Hosts \/ ~Planned
    BY DEF OutcomeInv, WritesInv, TypeOK, PlanType, Planned
  <2> QED BY <2>1 DEF OutcomeInv, DropsRight, Ready, Planned
<1> QED BY <1>1, <1>2, <1>3, <1>4, <1>5, <1>6 DEF OutcomeInv

LEMMA PersistKeepsOutcome == OutcomeInv /\ (Persist \/ PersistFails) => OutcomeInv'
<1> SUFFICES ASSUME OutcomeInv, Persist \/ PersistFails PROVE OutcomeInv'
  OBVIOUS
<1> USE DEF world, files, history, cycle
<1>1. /\ pc = "persist" /\ pc' = "execute" /\ saved' \in {tomb, saved, None}
      /\ UNCHANGED <<status, settings, discovered, dockerOk, plan, failed, edited, tomb,
                     roots, dns>>
  BY DEF Persist, PersistFails
<1>2. WritesInv'
  <2>1. Next
    BY DEF Next, Cycle
  <2> QED BY <2>1, NextKeepsWrites DEF OutcomeInv
<1>3. Recorded' /\ SyncedIsTrue'
  BY <1>1 DEF OutcomeInv, Recorded, SyncedIsTrue
<1>4. RoutesRight'
  BY <1>1 DEF OutcomeInv, RoutesRight, RouteRight, Ready
<1>5. RecordsRight'
  BY <1>1 DEF OutcomeInv, RecordsRight, RecordRight, Ready, Planned, Services, DnsMutations
<1>6. DropsRight'
  BY <1>1 DEF OutcomeInv, DropsRight, Ready, Planned
<1>7. SavedIsOld'
  <2>1. CASE saved' = tomb
    <3>1. \A h \in Hosts : tomb[h] # None => tomb[h] \in Nat
      BY ConfigAssumption DEF OutcomeInv, WritesInv, TypeOK, Ages
    <3>2. \A h \in Hosts : tomb[h] # None => tomb[h] >= tomb[h]
      BY <3>1
    <3> QED BY <1>1, <2>1, <3>2 DEF SavedIsOld
  <2>2. CASE saved' \in {saved, None}
    BY <1>1, <2>2 DEF OutcomeInv, SavedIsOld
  <2> QED BY <1>1, <2>1, <2>2
<1> QED BY <1>2, <1>3, <1>4, <1>5, <1>6, <1>7 DEF OutcomeInv

(* The PUT changes the routes to the plan's, or its failure is recorded.   *)
LEMMA PutKeepsOutcome ==
  OutcomeInv /\ (PutSkipped \/ PutSucceeds \/ PutRejected \/ PutLost) => OutcomeInv'
<1> SUFFICES ASSUME OutcomeInv, PutSkipped \/ PutSucceeds \/ PutRejected \/ PutLost
             PROVE  OutcomeInv'
  OBVIOUS
<1>1. /\ pc = "execute" /\ pc' = "dns" /\ todo' = DnsMutations(plan)
      /\ UNCHANGED <<status, settings, discovered, dockerOk, plan, edited, tomb, saved, dns>>
      /\ "ingress" \in failed' \/ roots' = plan.roots \/ (~plan.put /\ roots' = roots)
  BY DEF PutSkipped, PutSucceeds, PutRejected, PutLost, PutIngress, files, history
<1>2. WritesInv'
  <2>1. Next
    BY DEF Next, Cycle
  <2> QED BY <2>1, NextKeepsWrites DEF OutcomeInv
<1>3. Recorded' /\ SyncedIsTrue'
  BY <1>1 DEF OutcomeInv, Recorded, SyncedIsTrue
<1>4. \A h \in Hosts \ edited : "ingress" \in failed' \/ roots'[h] = plan.roots[h]
  BY <1>1 DEF OutcomeInv, RoutesRight, Ready
<1>5. RoutesRight'
  BY <1>1, <1>4 DEF OutcomeInv, RoutesRight, RouteRight, Ready, Services
<1>6. RecordsRight'
  BY <1>1 DEF OutcomeInv, RecordsRight, RecordRight, Ready, Planned, Services
<1>7. DropsRight'
  <2>1. plan.clear \subseteq Hosts
    BY <1>1 DEF OutcomeInv, WritesInv, TypeOK, PlanType
  <2>2. \A h \in Hosts : plan.dns[h] = "delete" => h \in DnsMutations(plan)
    BY DEF DnsMutations
  <2> QED BY <1>1, <1>4, <2>1, <2>2 DEF OutcomeInv, DropsRight, Ready, Planned
<1>8. SavedIsOld'
  BY <1>1 DEF OutcomeInv, SavedIsOld
<1> QED BY <1>2, <1>3, <1>5, <1>6, <1>7, <1>8 DEF OutcomeInv

(* A DNS write makes its record right, or its failure is recorded.         *)
LEMMA WriteKeepsOutcome ==
  ASSUME OutcomeInv, NEW h \in Hosts, DnsSucceeds(h) \/ DnsRejected(h) \/ DnsLost(h)
  PROVE  OutcomeInv'
<1>1. /\ pc = "dns" /\ pc' = "dns" /\ h \in todo /\ todo' = todo \ {h}
      /\ UNCHANGED <<status, settings, discovered, dockerOk, plan, edited, tomb, saved, roots>>
      /\ failed \subseteq failed' /\ failed' \subseteq failed \cup {"dns"}
      /\ \/ "dns" \in failed'
         \/ dns' = [dns EXCEPT ![h] = IF plan.dns[h] = "delete" THEN None ELSE OwnedRecord]
      /\ \/ dns' = dns
         \/ dns' = [dns EXCEPT ![h] = IF plan.dns[h] = "delete" THEN None ELSE OwnedRecord]
  BY DEF DnsSucceeds, DnsRejected, DnsLost, WriteDns, files, history
<1>2. WritesInv'
  <2>1. Next
    BY DEF Next, Cycle
  <2> QED BY <2>1, NextKeepsWrites DEF OutcomeInv
<1>3. /\ dns \in [Hosts -> Record \cup {None}]
      /\ plan.dns[h] = "delete" <=> discovered[h] = None
  BY <1>1 DEF OutcomeInv, WritesInv, TypeOK, TodoFits, PlanFits, Planned
<1>4. \A g \in Hosts \ {h} : dns'[g] = dns[g]
  BY <1>1, <1>3
<1>5. "dns" \notin failed' => dns'[h] = IF plan.dns[h] = "delete" THEN None ELSE OwnedRecord
  BY <1>1, <1>3
<1>6. Recorded' /\ SyncedIsTrue'
  BY <1>1 DEF OutcomeInv, Recorded, SyncedIsTrue
<1>7. RoutesRight'
  BY <1>1 DEF OutcomeInv, RoutesRight, RouteRight, Ready, Services
<1>8. RecordsRight'
  <2>1. ASSUME NEW g \in Services(discovered) \ edited, dockerOk
        PROVE  RecordRight(dns[g])' \/ g \in todo' \/ "dns" \in failed'
    <3>1. RecordRight(dns[g]) \/ g \in todo \/ "dns" \in failed
      BY <1>1, <2>1 DEF OutcomeInv, RecordsRight, Planned, Ready
    <3>2. g \in Hosts /\ discovered[g] # None
      BY <2>1 DEF Services
    <3>3. CASE g = h
      BY <1>3, <1>5, <3>2, <3>3 DEF RecordRight
    <3>4. CASE g # h
      BY <1>1, <1>4, <3>1, <3>2, <3>4 DEF RecordRight
    <3> QED BY <3>3, <3>4
  <2> QED BY <1>1, <2>1 DEF RecordsRight, Services
<1>9. DropsRight'
  <2>1. ASSUME NEW g \in plan.clear \ edited, discovered[g] = None
        PROVE  /\ \/ settings.policy = "legacy_unrestricted"
                  \/ roots[g] = None \/ "ingress" \in failed'
               /\ ~Owned(dns'[g]) \/ g \in todo' \/ "dns" \in failed'
    <3>1. g \in Hosts
      BY <1>1 DEF OutcomeInv, WritesInv, TypeOK, PlanType
    <3>2. /\ \/ settings.policy = "legacy_unrestricted"
             \/ roots[g] = None \/ "ingress" \in failed
          /\ ~Owned(dns[g]) \/ g \in todo \/ "dns" \in failed
      BY <1>1, <2>1 DEF OutcomeInv, DropsRight, Planned, Ready
    <3>3. CASE g = h
      BY <1>1, <1>3, <1>5, <2>1, <3>2, <3>3 DEF Owned
    <3>4. CASE g # h
      BY <1>1, <1>4, <3>1, <3>2, <3>4
    <3> QED BY <3>3, <3>4
  <2> QED BY <1>1, <2>1 DEF DropsRight
<1>10. SavedIsOld'
  BY <1>1 DEF OutcomeInv, SavedIsOld
<1> QED BY <1>2, <1>6, <1>7, <1>8, <1>9, <1>10 DEF OutcomeInv

(* Success is what is left when nothing is to do and nothing failed.       *)
LEMMA FinishKeepsOutcome == OutcomeInv /\ Finish => OutcomeInv'
<1> SUFFICES ASSUME OutcomeInv, Finish PROVE OutcomeInv'
  OBVIOUS
<1>1. /\ pc = "dns" /\ todo = {} /\ pc' = "idle" /\ failed' = {}
      /\ status' = (IF failed = {} THEN "synced" ELSE "degraded")
      /\ UNCHANGED <<settings, discovered, dockerOk, edited, saved, roots, dns>>
      /\ \A h \in Hosts : tomb'[h] # None => tomb'[h] = tomb[h]
  BY DEF Finish, EndWith, world, files, history
<1>2. WritesInv'
  <2>1. Next
    BY DEF Next, Cycle
  <2> QED BY <2>1, NextKeepsWrites DEF OutcomeInv
<1>3. Recorded' /\ SavedIsOld'
  BY <1>1 DEF OutcomeInv, Recorded, SavedIsOld
<1>4. RoutesRight' /\ RecordsRight' /\ DropsRight'
  BY <1>1 DEF RoutesRight, RecordsRight, DropsRight, Planned, Ready
<1>5. SyncedIsTrue'
  <2>1. ASSUME failed = {}, dockerOk, NEW h \in Services(discovered) \ edited
        PROVE  RouteRight(roots[h], h) /\ RecordRight(dns[h])
    <3>1. RouteRight(roots[h], h)
      BY <1>1, <2>1 DEF OutcomeInv, RoutesRight
    <3>2. RecordRight(dns[h])
      BY <1>1, <2>1 DEF OutcomeInv, RecordsRight, Planned, Ready
    <3> QED BY <3>1, <3>2
  <2> QED BY <1>1, <2>1 DEF SyncedIsTrue, RouteRight, RecordRight, Services
<1> QED BY <1>2, <1>3, <1>4, <1>5 DEF OutcomeInv

LEMMA TickKeepsOutcome == OutcomeInv /\ Tick => OutcomeInv'
<1> SUFFICES ASSUME OutcomeInv, Tick PROVE OutcomeInv'
  OBVIOUS
<1>1. Next
  BY DEF Next, Environment
<1>2. SavedIsOld'
  <2>1. ASSUME NEW h \in Hosts, saved' # None, tomb'[h] # None, saved'[h] # None
        PROVE  saved'[h] >= tomb'[h]
    <3>1. /\ saved # None /\ saved[h] # None /\ tomb[h] # None
          /\ saved'[h] = Older(saved[h]) /\ tomb'[h] = Older(tomb[h])
      BY <2>1 DEF Tick, OlderTombstones
    <3>2. saved[h] \in 0 .. MaxAge /\ tomb[h] \in 0 .. MaxAge /\ MaxAge \in Nat
      BY <3>1, ConfigAssumption DEF OutcomeInv, WritesInv, TypeOK, Ages
    <3>3. saved[h] >= tomb[h]
      BY <3>1 DEF OutcomeInv, SavedIsOld
    <3> QED BY <3>1, <3>2, <3>3 DEF Older
  <2> QED BY <2>1 DEF SavedIsOld
<1> QED BY <1>1, <1>2, OthersKeepOutcome DEF Tick, world, cycle

LEMMA NextKeepsOutcome == OutcomeInv /\ [Next]_vars => OutcomeInv'
<1> SUFFICES ASSUME OutcomeInv, [Next]_vars PROVE OutcomeInv'
  OBVIOUS
<1> USE DEF world, files, history, remote, cycle
<1>1. CASE Unconfigured \/ DiscoverFails \/ ResolveDryRun \/ ProvisionLost \/ ReadFails
             \/ DryRunEnds \/ Blocked \/ Crash
  <2>1. /\ pc' = "idle" /\ failed' = {} /\ status' # "synced"
        /\ saved' \in {saved, None} /\ tomb' \in {tomb, NoTombstones}
    BY <1>1 DEF Unconfigured, DiscoverFails, ResolveDryRun, ProvisionLost, ReadFails,
                DryRunEnds, Blocked, Crash, EndWith
  <2>2. \A h \in Hosts : tomb'[h] # None => tomb'[h] = tomb[h]
    BY <2>1 DEF NoTombstones
  <2> QED BY <2>1, <2>2, NoPlanNoOutcome DEF Planned
<1>2. CASE Discover \/ Resolve \/ ActivateUnchanged \/ ActivateRestarts \/ ActivateFails
             \/ TokenWriteFails
  <2>1. /\ pc # "dns" /\ (pc = "idle" => status' = "syncing") /\ status' \in {status, "syncing"}
        /\ pc' \in {"resolve", "activate", "plan"} /\ UNCHANGED <<failed, tomb, saved>>
    BY <1>2 DEF Discover, Resolve, ActivateUnchanged, ActivateRestarts, ActivateFails,
                TokenWriteFails
  <2> QED BY <2>1, NoPlanNoOutcome DEF Planned, OutcomeInv, Recorded
<1>3. CASE MakePlan
  BY <1>3, PlanEstablishesOutcome
<1>4. CASE Persist \/ PersistFails
  BY <1>4, PersistKeepsOutcome
<1>5. CASE PutSkipped \/ PutSucceeds \/ PutRejected \/ PutLost
  BY <1>5, PutKeepsOutcome
<1>6. CASE \E h \in Hosts : DnsSucceeds(h) \/ DnsRejected(h) \/ DnsLost(h)
  BY <1>6, WriteKeepsOutcome
<1>7. CASE Finish
  BY <1>7, FinishKeepsOutcome
<1>8. CASE Tick
  BY <1>8, TickKeepsOutcome
<1>9. CASE CalmDown \/ \E h \in Hosts : ContainerChanges(h)
  BY <1>9, OthersKeepOutcome DEF CalmDown, ContainerChanges, OutcomeInv, SavedIsOld
<1>10. ASSUME NEW h \in Hosts, EditDns(h) \/ EditRoute(h) PROVE OutcomeInv'
  <2>1. \A g \in Hosts \ edited' : roots'[g] = roots[g] /\ dns'[g] = dns[g]
    BY <1>10 DEF EditDns, EditRoute, OutcomeInv, WritesInv, TypeOK
  <2> QED BY <1>10, <2>1, OthersKeepOutcome DEF EditDns, EditRoute, OutcomeInv, SavedIsOld
<1>11. CASE UNCHANGED vars
  BY <1>11, OthersKeepOutcome DEF vars, OutcomeInv, SavedIsOld
<1> QED
  BY <1>1, <1>2, <1>3, <1>4, <1>5, <1>6, <1>7, <1>8, <1>9, <1>10, <1>11
  DEF Next, Cycle, Environment

LEMMA OutcomeInvariant == Spec => []OutcomeInv
<1>1. ASSUME Init PROVE OutcomeInv
  <2>1. WritesInv
    BY <1>1, InitTyped DEF Init, WritesInv, PlanFits, RoutesFit, RecordsFit, TodoFits, Planned
  <2> QED
    BY <1>1, <2>1 DEF Init, OutcomeInv, Recorded, RoutesRight, RecordsRight, DropsRight,
                      SavedIsOld, SyncedIsTrue, Planned, Ready
<1> QED BY <1>1, NextKeepsOutcome, PTL DEF Spec
-----------------------------------------------------------------------------
(***************************************************************************)
(* The theorems.                                                           *)
(***************************************************************************)

(* "Active / Synced" is true of every discovered host that no operator     *)
(* touched, after any faults, lost replies, edits and crashes.             *)
THEOREM SyncedIsTrueHolds == Spec => []SyncedIsTrue
BY OutcomeInvariant, PTL DEF OutcomeInv

(* What happens to the tombstone of one host in one step.                  *)
LEMMA TombstoneSteps ==
  ASSUME OutcomeInv, [Next]_vars, NEW h \in Hosts, tomb[h] # None, status' # "initializing"
  PROVE  \/ tomb'[h] # None /\ tomb'[h] >= tomb[h]
         \/ tomb'[h] = None /\ discovered[h] # None
         \/ Finish /\ failed = {} /\ h \in plan.clear /\ tomb'[h] = None
<1> USE DEF world, files, history, remote, cycle
<1>1. tomb[h] \in 0 .. MaxAge /\ MaxAge \in Nat
  BY ConfigAssumption DEF OutcomeInv, WritesInv, TypeOK, Ages
<1>2. CASE MakePlan
  <2>1. tomb'[h] \in {None, Loaded[h], 0} /\ (tomb'[h] = None => discovered[h] # None \/ Loaded[h] = None)
        /\ (tomb'[h] # None /\ tomb'[h] # Loaded[h] => Loaded[h] = None)
    BY <1>2 DEF MakePlan, Tombstones
  <2>2. Loaded[h] # None /\ Loaded[h] >= tomb[h]
    BY <1>1 DEF Loaded, OutcomeInv, SavedIsOld
  <2> QED BY <2>1, <2>2
<1>3. CASE Tick
  <2>1. tomb'[h] = Older(tomb[h])
    BY <1>3 DEF Tick, OlderTombstones
  <2>2. Older(tomb[h]) \in 0 .. MaxAge /\ Older(tomb[h]) >= tomb[h]
    BY <1>1, OlderTyped
  <2>3. None \notin 0 .. MaxAge
    BY <1>1, NoneAssumption
  <2> QED BY <2>1, <2>2, <2>3
<1>4. CASE Finish
  <2>1. tomb'[h] = tomb[h] \/ (failed = {} /\ h \in plan.clear /\ tomb'[h] = None)
    BY <1>4 DEF Finish
  <2> QED BY <1>1, <1>4, <2>1
<1>5. CASE ~(MakePlan \/ Tick \/ Finish)
  <2>1. tomb' = tomb
    BY <1>5 DEF Next, Cycle, Environment, vars, Unconfigured, Discover, DiscoverFails, Resolve,
         ResolveDryRun, ProvisionLost, ReadFails, ActivateUnchanged, ActivateRestarts,
         ActivateFails, TokenWriteFails, Persist, PersistFails, DryRunEnds, Blocked,
         PutSkipped, PutSucceeds, PutRejected, PutLost, PutIngress, DnsSucceeds, DnsRejected,
         DnsLost, WriteDns, Crash, CalmDown, ContainerChanges, EditDns, EditRoute, EndWith
  <2> QED BY <1>1, <2>1
<1> QED BY <1>2, <1>3, <1>4, <1>5

(* While the process lives, the tombstone of an absent host never gets     *)
(* younger, and is dropped only when whatever of the host was ours is      *)
(* gone, however many executions fail before.                              *)
THEOREM TombstoneOutlivesHolds == Spec => TombstoneOutlivesResources
<1>1. ASSUME OutcomeInv, [Next]_vars, NEW h \in Hosts
      PROVE  tomb[h] # None /\ status' # "initializing" =>
               IF tomb'[h] # None THEN tomb'[h] >= tomb[h]
               ELSE \/ discovered[h] # None \/ h \in edited
                    \/ /\ ~Owned(dns[h])
                       /\ settings.policy = "legacy_unrestricted" \/ roots[h] = None
  <2>1. ASSUME Finish, failed = {}, h \in plan.clear, discovered[h] = None, h \notin edited
        PROVE  ~Owned(dns[h]) /\ (settings.policy = "legacy_unrestricted" \/ roots[h] = None)
    <3>1. pc = "dns" /\ todo = {}
      BY <2>1 DEF Finish
    <3> QED BY <1>1, <2>1, <3>1 DEF OutcomeInv, DropsRight, Planned, Ready
  <2> QED BY <1>1, <2>1, TombstoneSteps
<1>2. OutcomeInv /\ [Next]_vars =>
        [\A h \in Hosts : tomb[h] # None /\ status' # "initializing" =>
           IF tomb'[h] # None THEN tomb'[h] >= tomb[h]
           ELSE \/ discovered[h] # None \/ h \in edited
                \/ /\ ~Owned(dns[h])
                   /\ settings.policy = "legacy_unrestricted" \/ roots[h] = None]_vars
  BY <1>1
<1> QED BY <1>2, OutcomeInvariant, PTL DEF Spec, TombstoneOutlivesResources
=============================================================================
