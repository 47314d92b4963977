-------------------------- MODULE SyncCycle_proofs --------------------------
(***************************************************************************)
(* Proofs about SyncCycle, for every value of its constants.               *)
(***************************************************************************)
EXTENDS SyncCycle, FiniteSetTheorems, TLAPS
-----------------------------------------------------------------------------
(***************************************************************************)
(* Type correctness.                                                       *)
(***************************************************************************)

(* The plan of a well-formed view is a well-formed plan, under any         *)
(* settings (compute_change_plan).                                         *)
LEMMA PlanTyped ==
  ASSUME NEW s, NEW v \in View
  PROVE  ComputePlan(s, v) \in PlanType
<1>1. [h \in Hosts |-> FinalRoot(s, v, h)] \in [Hosts -> Routes \cup {None}]
  <2>1. SUFFICES ASSUME NEW h \in Hosts
                 PROVE  FinalRoot(s, v, h) \in Routes \cup {None}
    OBVIOUS
  <2>2. v.origins[h] \in Routes \cup {None} /\ v.roots[h] \in Routes \cup {None}
    BY DEF View
  <2> QED BY <2>2 DEF FinalRoot
<1>2. [h \in Hosts |-> DnsAction(s, v, h)] \in [Hosts -> DnsActions]
  BY DEF DnsAction, DnsActionActive, DnsActionAbsent, DnsActions
<1>3. TombstonesToSet(s, v) \subseteq Hosts /\ TombstonesToClear(s, v) \subseteq Hosts
  BY DEF TombstonesToSet, TombstonesToClear
<1>4. (v.dockerOk /\ (~v.merged \/ \E h \in Hosts : FinalRoot(s, v, h) # v.roots[h])) \in BOOLEAN
  OBVIOUS
<1>5. (IF v.dockerOk THEN Cardinality({h \in Hosts : Active(v, h)}) ELSE 0) \in Nat
  <2>1. IsFiniteSet({h \in Hosts : Active(v, h)})
    BY FS_Subset, ConfigAssumption
  <2> QED BY <2>1, FS_CardinalityType
<1> QED BY <1>1, <1>2, <1>3, <1>4, <1>5 DEF ComputePlan, PlanType

LEMMA SnapshotTyped == TypeOK => Snapshot \in View
<1> SUFFICES ASSUME TypeOK PROVE Snapshot \in View
  OBVIOUS
<1>1. FetchDns(dns, Services(discovered)) \in [Hosts -> Record \cup {None}]
  BY DEF FetchDns, TypeOK
<1>2. Loaded \in [Hosts -> 0 .. MaxAge \cup {None}]
  BY DEF Loaded, TypeOK, Ages
<1>3. Loaded \in [Hosts -> Nat \cup {None}]
  BY <1>2, ConfigAssumption
<1> QED BY <1>1, <1>3 DEF Snapshot, View, TypeOK

LEMMA TombstonesTyped ==
  ASSUME TypeOK, NEW p PROVE Tombstones(p) \in Ages
<1>1. Loaded \in [Hosts -> 0 .. MaxAge \cup {None}]
  BY DEF Loaded, TypeOK, Ages
<1>2. 0 \in 0 .. MaxAge
  BY ConfigAssumption
<1> QED BY <1>1, <1>2 DEF Tombstones, Ages

LEMMA OlderTyped ==
  /\ \A age \in 0 .. MaxAge : Older(age) \in 0 .. MaxAge /\ Older(age) >= age
  /\ \A t \in Ages : OlderTombstones(t) \in Ages
<1>1. \A age \in 0 .. MaxAge : Older(age) \in 0 .. MaxAge /\ Older(age) >= age
  BY ConfigAssumption DEF Older
<1>2. ASSUME NEW t \in Ages PROVE OlderTombstones(t) \in Ages
  BY <1>1 DEF OlderTombstones, Ages
<1> QED BY <1>1, <1>2

LEMMA InitTyped == Init => TypeOK
<1> SUFFICES ASSUME Init PROVE TypeOK
  OBVIOUS
<1>1. NoTombstones \in Ages /\ NoServices \in [Hosts -> Routes \cup {None}]
  BY DEF NoTombstones, NoServices, Ages
<1>2. unseen \in [Hosts -> 0 .. MaxAge]
  BY ConfigAssumption DEF Init
<1> QED BY <1>1, <1>2 DEF Init, TypeOK, Points, Statuses, NoServices

LEMMA NextTyped == TypeOK /\ [Next]_vars => TypeOK'
<1> SUFFICES ASSUME TypeOK, [Next]_vars PROVE TypeOK'
  OBVIOUS
<1> USE DEF world, files, history, remote, cycle, Points
<1>1. CASE Unconfigured BY <1>1 DEF Unconfigured, EndWith, TypeOK, Statuses
<1>2. CASE Discover BY <1>2 DEF Discover, TypeOK, Statuses
<1>3. CASE DiscoverFails BY <1>3 DEF DiscoverFails, EndWith, TypeOK, Statuses
<1>4. CASE Resolve BY <1>4 DEF Resolve, TypeOK
<1>5. CASE ResolveDryRun BY <1>5 DEF ResolveDryRun, EndWith, TypeOK, Statuses
<1>6. CASE ProvisionLost BY <1>6 DEF ProvisionLost, EndWith, TypeOK, Statuses
<1>7. CASE ReadFails BY <1>7 DEF ReadFails, EndWith, TypeOK, Statuses
<1>8. CASE ActivateUnchanged BY <1>8 DEF ActivateUnchanged, TypeOK
<1>9. CASE ActivateRestarts BY <1>9 DEF ActivateRestarts, TypeOK
<1>10. CASE ActivateFails BY <1>10 DEF ActivateFails, TypeOK
<1>11. CASE TokenWriteFails BY <1>11 DEF TokenWriteFails, TypeOK
<1>12. CASE MakePlan
  <2>1. plan' \in PlanType
    BY <1>12, SnapshotTyped, PlanTyped DEF MakePlan
  <2>2. tomb' \in Ages
    BY <1>12, TombstonesTyped DEF MakePlan
  <2>3. unseen' \in [Hosts -> 0 .. MaxAge]
    BY <1>12, ConfigAssumption DEF MakePlan, TypeOK
  <2> QED BY <1>12, <2>1, <2>2, <2>3 DEF MakePlan, TypeOK
<1>13. CASE Persist BY <1>13 DEF Persist, TypeOK
<1>14. CASE PersistFails BY <1>14 DEF PersistFails, TypeOK
<1>15. CASE DryRunEnds BY <1>15 DEF DryRunEnds, EndWith, TypeOK, Statuses
<1>16. CASE Blocked BY <1>16 DEF Blocked, EndWith, TypeOK, Statuses
<1>17. ASSUME NEW applied \in BOOLEAN, NEW reported \in BOOLEAN, PutIngress(applied, reported)
       PROVE  TypeOK'
  <2>1. plan.roots \in [Hosts -> Routes \cup {None}]
    BY <1>17 DEF PutIngress, TypeOK, PlanType
  <2> QED BY <1>17, <2>1 DEF PutIngress, TypeOK, DnsMutations
<1>18. CASE PutSkipped \/ PutSucceeds \/ PutRejected \/ PutLost
  BY <1>17, <1>18 DEF PutSkipped, PutSucceeds, PutRejected, PutLost
<1>19. ASSUME NEW h \in Hosts, NEW applied \in BOOLEAN, NEW reported \in BOOLEAN,
              WriteDns(h, applied, reported)
       PROVE  TypeOK'
  <2>1. OwnedRecord \in Record
    BY DEF OwnedRecord, Record, Comments
  <2> QED BY <1>19, <2>1 DEF WriteDns, TypeOK
<1>20. CASE \E h \in Hosts : DnsSucceeds(h) \/ DnsRejected(h) \/ DnsLost(h)
  BY <1>19, <1>20 DEF DnsSucceeds, DnsRejected, DnsLost
<1>21. CASE Finish
  <2>1. tomb' \in Ages
    BY <1>21 DEF Finish, TypeOK, Ages
  <2> QED BY <1>21, <2>1 DEF Finish, EndWith, TypeOK, Statuses
<1>22. CASE Crash
  <2>1. NoTombstones \in Ages /\ NoServices \in [Hosts -> Routes \cup {None}]
    BY DEF NoTombstones, NoServices, Ages
  <2> QED BY <1>22, <2>1 DEF Crash, EndWith, TypeOK, Statuses
<1>23. CASE Tick
  BY <1>23, OlderTyped DEF Tick, TypeOK
<1>24. CASE CalmDown BY <1>24 DEF CalmDown, TypeOK
<1>25. CASE \E h \in Hosts : ContainerChanges(h)
  BY <1>25 DEF ContainerChanges, TypeOK
<1>26. CASE \E h \in Hosts : EditDns(h)
  BY <1>26, EnvironmentAssumption DEF EditDns, TypeOK
<1>27. CASE \E h \in Hosts : EditRoute(h)
  BY <1>27, EnvironmentAssumption DEF EditRoute, TypeOK
<1>28. CASE UNCHANGED vars BY <1>28 DEF vars, TypeOK
<1> QED
  BY <1>1, <1>2, <1>3, <1>4, <1>5, <1>6, <1>7, <1>8, <1>9, <1>10, <1>11, <1>12, <1>13,
     <1>14, <1>15, <1>16, <1>18, <1>20, <1>21, <1>22, <1>23, <1>24, <1>25, <1>26, <1>27,
     <1>28
  DEF Next, Cycle, Environment

(* Every state of the synchronizer is well formed.  In particular a plan   *)
(* is at hand whenever one is persisted or executed.                       *)
THEOREM TypeCorrect == Spec => []TypeOK
BY InitTyped, NextTyped, PTL DEF Spec
-----------------------------------------------------------------------------
(***************************************************************************)
(* The grace period.                                                       *)
(*                                                                         *)
(* GraceRespected is not inductive: it says nothing between plans.  What   *)
(* carries it is that a tombstone, in memory or in the file that the next  *)
(* plan loads, is never older than the last plan that saw the container.   *)
(***************************************************************************)

(* The file is written whenever it should be, or is not used at all. *)
TombstonesReliable ==
  (\A s \in Configs : ~s.persist) \/ Faults \cap {"persist", "crash"} = {}

TombstonesYoung == \A h \in Hosts : tomb[h] # None => tomb[h] <= unseen[h]

SavedYoung ==
  settings.persist /\ pc # "persist" /\ saved # None =>
    \A h \in Hosts : saved[h] # None => saved[h] <= unseen[h]

GraceInv ==
  TypeOK /\ TombstonesReliable /\ TombstonesYoung /\ SavedYoung /\ GraceRespected

(* Only a host that the inventory of a connected Docker does not list      *)
(* loses anything, and only when its cleanup is due (compute_change_plan). *)
LEMMA DeletionsAreDue ==
  ASSUME NEW s, NEW v \in View, NEW h,
         \/ h \in ComputePlan(s, v).deletions.ingress
         \/ h \in ComputePlan(s, v).deletions.dns
  PROVE  h \in Hosts /\ v.dockerOk /\ ~Active(v, h) /\ Cleanup(s, v, h) = "delete"
<1>1. h \in Hosts /\ (IngressAction(s, v, h) = "delete" \/ DnsAction(s, v, h) = "delete")
  BY DEF ComputePlan
<1>2. CASE IngressAction(s, v, h) = "delete"
  BY <1>1, <1>2 DEF IngressAction
<1>3. CASE DnsAction(s, v, h) = "delete"
  BY <1>1, <1>3 DEF DnsAction, DnsActionActive, DnsActionAbsent
<1> QED BY <1>1, <1>2, <1>3

(* What the next plan reads as tombstones is no older than it may be. *)
LEMMA LoadedYoung ==
  ASSUME TypeOK, TombstonesYoung, SavedYoung, pc = "plan", NEW h \in Hosts, Loaded[h] # None
  PROVE  Loaded[h] \in 0 .. MaxAge /\ Loaded[h] <= unseen[h]
<1>1. CASE settings.persist /\ saved # None
  BY <1>1 DEF Loaded, TypeOK, TombstonesYoung, SavedYoung, Ages
<1>2. CASE ~(settings.persist /\ saved # None)
  BY <1>2 DEF Loaded, TypeOK, TombstonesYoung, Ages
<1> QED BY <1>1, <1>2

(* A cleanup that is due has waited long enough. *)
LEMMA DueMeansWaited ==
  ASSUME TypeOK, TombstonesYoung, SavedYoung, pc = "plan", NEW h \in Hosts,
         Cleanup(Effective, Snapshot, h) = "delete"
  PROVE  /\ ~settings.immediate \/ dropped => unseen[h] >= settings.grace
         /\ dropped => unseen[h] >= DropGrace
<1>1. /\ settings \in Settings /\ settings.grace \in Nat /\ DropGrace \in Nat
      /\ settings.immediate \in BOOLEAN
      /\ unseen[h] \in Nat
  BY ConfigAssumption DEF TypeOK, Settings
<1>2. Snapshot.tomb[h] = Loaded[h]
  BY DEF Snapshot
<1>3. Loaded[h] # None => Loaded[h] \in Nat /\ Loaded[h] <= unseen[h]
  BY LoadedYoung, ConfigAssumption
<1>4. CASE dropped
  <2>1. /\ Effective.immediate = FALSE
        /\ Effective.grace \in Nat
        /\ Effective.grace >= settings.grace /\ Effective.grace >= DropGrace
    BY <1>1, <1>4 DEF Effective, Settings
  <2> QED BY <1>1, <1>2, <1>3, <2>1 DEF Cleanup
<1>5. CASE ~dropped
  <2>1. Effective = settings
    BY <1>5 DEF Effective
  <2> QED BY <1>1, <1>2, <1>3, <1>5, <2>1 DEF Cleanup
<1> QED BY <1>4, <1>5

(* The plan is made: what it removes has waited, and a host it saw has no  *)
(* tombstone left.                                                         *)
LEMMA PlanKeepsGrace == GraceInv /\ MakePlan => GraceInv'
<1> SUFFICES ASSUME GraceInv, MakePlan PROVE GraceInv'
  OBVIOUS
<1> DEFINE p == ComputePlan(Effective, Snapshot)
<1>1. TypeOK /\ TypeOK' /\ Snapshot \in View
  <2>1. Next
    BY DEF Next, Cycle
  <2> QED BY <2>1, NextTyped, SnapshotTyped DEF GraceInv
<1>2. pc = "plan" /\ plan' = p /\ tomb' = Tombstones(p)
  BY DEF MakePlan
<1>3. /\ UNCHANGED <<settings, dropped, saved>>
      /\ unseen' = [h \in Hosts |-> IF dockerOk /\ discovered[h] # None THEN 0 ELSE unseen[h]]
      /\ pc' = IF settings.persist THEN "persist" ELSE "execute"
  BY DEF MakePlan, files
<1>4. GraceRespected'
  <2>1. SUFFICES ASSUME NEW h \in plan'.deletions.ingress \cup plan'.deletions.dns
                 PROVE  /\ ~settings.immediate \/ dropped => unseen'[h] >= settings.grace
                        /\ dropped => unseen'[h] >= DropGrace
    BY <1>3 DEF GraceRespected
  <2>2. /\ h \in Hosts /\ ~Active(Snapshot, h)
        /\ Cleanup(Effective, Snapshot, h) = "delete"
    BY <1>1, <1>2, <2>1, DeletionsAreDue
  <2>3. unseen'[h] = unseen[h]
    BY <1>3, <2>2 DEF Active, Snapshot
  <2> QED BY <1>1, <1>2, <2>2, <2>3, DueMeansWaited DEF GraceInv
<1>5. TombstonesYoung'
  <2>1. SUFFICES ASSUME NEW h \in Hosts, tomb'[h] # None PROVE tomb'[h] <= unseen'[h]
    BY DEF TombstonesYoung
  <2>2. unseen[h] \in Nat /\ unseen'[h] \in Nat
    BY <1>1, ConfigAssumption DEF TypeOK
  <2>3. CASE dockerOk /\ discovered[h] # None
    <3>1. Active(Snapshot, h) /\ Snapshot.dockerOk /\ Snapshot.tomb[h] = Loaded[h]
      BY <2>3 DEF Active, Snapshot
    <3>2. h \notin p.set
      BY <3>1 DEF ComputePlan, TombstonesToSet, Lingering
    <3>3. Loaded[h] # None => h \in p.clear
      BY <3>1 DEF ComputePlan, TombstonesToClear
    <3> QED BY <1>2, <2>1, <2>3, <3>2, <3>3 DEF Tombstones
  <2>4. CASE ~(dockerOk /\ discovered[h] # None)
    <3>1. unseen'[h] = unseen[h]
      BY <1>3, <2>4
    <3>2. tomb'[h] = 0 \/ (tomb'[h] = Loaded[h] /\ Loaded[h] # None)
      BY <1>2, <2>1 DEF Tombstones
    <3>3. tomb'[h] = Loaded[h] /\ Loaded[h] # None => Loaded[h] <= unseen[h]
      BY <1>1, <1>2, LoadedYoung DEF GraceInv
    <3> QED BY <2>2, <3>1, <3>2, <3>3
  <2> QED BY <2>3, <2>4
<1>6. SavedYoung'
  BY <1>3 DEF SavedYoung
<1>7. TombstonesReliable'
  BY DEF GraceInv, TombstonesReliable
<1> QED BY <1>1, <1>4, <1>5, <1>6, <1>7 DEF GraceInv

(* Time passes for the tombstones, the file and the inventories alike. *)
LEMMA TickKeepsGrace == GraceInv /\ Tick => GraceInv'
<1> SUFFICES ASSUME GraceInv, Tick PROVE GraceInv'
  OBVIOUS
<1>1. TypeOK /\ TypeOK'
  <2>1. Next
    BY DEF Next, Environment
  <2> QED BY <2>1, NextTyped DEF GraceInv
<1>2. \A a, b \in 0 .. MaxAge : a <= b => Older(a) <= Older(b)
  BY ConfigAssumption DEF Older
<1>3. /\ \A h \in Hosts : unseen[h] \in 0 .. MaxAge /\ unseen'[h] = Older(unseen[h])
      /\ \A h \in Hosts : unseen'[h] \in Nat /\ unseen[h] \in Nat /\ unseen'[h] >= unseen[h]
  BY <1>1, OlderTyped, ConfigAssumption DEF Tick, TypeOK
<1>4. TombstonesYoung'
  BY <1>1, <1>2, <1>3 DEF Tick, OlderTombstones, TombstonesYoung, GraceInv, TypeOK, Ages
<1>5. SavedYoung'
  <2>1. SUFFICES ASSUME settings.persist, pc # "persist", saved # None, NEW h \in Hosts,
                        saved'[h] # None
                 PROVE  saved'[h] <= unseen'[h]
    BY DEF Tick, SavedYoung, world, cycle
  <2>2. saved \in Ages /\ saved[h] # None /\ saved'[h] = Older(saved[h])
    BY <1>1, <2>1 DEF Tick, OlderTombstones, TypeOK
  <2> QED BY <1>2, <1>3, <2>1, <2>2 DEF GraceInv, SavedYoung, Ages
<1>6. GraceRespected'
  <2>1. UNCHANGED <<settings, pc, dropped, plan>>
    BY DEF Tick, world, cycle
  <2>2. SUFFICES ASSUME pc \in {"persist", "execute", "dns"}, ~settings.dryRun,
                        NEW h \in plan.deletions.ingress \cup plan.deletions.dns
                 PROVE  /\ ~settings.immediate \/ dropped => unseen'[h] >= settings.grace
                        /\ dropped => unseen'[h] >= DropGrace
    BY <2>1 DEF GraceRespected
  <2>3. h \in Hosts
    BY <1>1, <2>2 DEF TypeOK, PlanType
  <2>4. settings.grace \in Nat /\ DropGrace \in Nat
    BY <1>1, ConfigAssumption DEF TypeOK, Settings
  <2>5. /\ ~settings.immediate \/ dropped => unseen[h] >= settings.grace
        /\ dropped => unseen[h] >= DropGrace
    BY <2>2 DEF GraceInv, GraceRespected
  <2> QED BY <1>3, <2>3, <2>4, <2>5
<1>7. TombstonesReliable'
  BY DEF GraceInv, TombstonesReliable
<1> QED BY <1>1, <1>4, <1>5, <1>6, <1>7 DEF GraceInv

(* Where the tombstones, the inventories and the plan stay as they are, or *)
(* a plan is given up, there is nothing to show.                           *)
LEMMA QuietStepKeepsGrace ==
  ASSUME GraceInv, [Next]_vars, UNCHANGED <<settings, unseen>>,
         \A h \in Hosts : tomb'[h] # None => tomb'[h] = tomb[h],
         saved' = saved, pc' # "persist", pc # "persist",
         \/ pc' \notin {"execute", "dns"}
         \/ pc \in {"execute", "dns"} /\ UNCHANGED <<plan, dropped>>
  PROVE  GraceInv'
<1>1. TypeOK'
  BY NextTyped DEF GraceInv
<1>2. TombstonesYoung'
  BY DEF GraceInv, TombstonesYoung
<1>3. SavedYoung'
  BY DEF GraceInv, SavedYoung
<1>4. GraceRespected'
  BY DEF GraceInv, GraceRespected
<1>5. TombstonesReliable'
  BY DEF GraceInv, TombstonesReliable
<1> QED BY <1>1, <1>2, <1>3, <1>4, <1>5 DEF GraceInv

LEMMA OutsideStepKeepsGrace ==
  ASSUME GraceInv, [Next]_vars,
         UNCHANGED <<settings, unseen, tomb, saved, pc, plan, dropped>>
  PROVE  GraceInv'
<1>1. TypeOK'
  BY NextTyped DEF GraceInv
<1>2. TombstonesYoung' /\ SavedYoung' /\ GraceRespected' /\ TombstonesReliable'
  BY DEF GraceInv, TombstonesYoung, SavedYoung, GraceRespected, TombstonesReliable
<1> QED BY <1>1, <1>2 DEF GraceInv

(* The steps on the tombstone file: what is written is what is in memory,  *)
(* and nothing else happens to the file as long as it is reliable.         *)
LEMMA FileStepKeepsGrace == GraceInv /\ (Persist \/ PersistFails \/ Crash) => GraceInv'
<1> SUFFICES ASSUME GraceInv, Persist \/ PersistFails \/ Crash PROVE GraceInv'
  OBVIOUS
<1>1. TypeOK /\ TypeOK'
  <2>1. Next
    BY DEF Next, Cycle, Environment
  <2> QED BY <2>1, NextTyped DEF GraceInv
<1>2. TombstonesYoung'
  BY DEF Persist, PersistFails, Crash, EndWith, NoTombstones, cycle, history,
         GraceInv, TombstonesYoung
<1>3. SavedYoung'
  <2>1. CASE Persist
    BY <2>1 DEF Persist, cycle, history, GraceInv, TombstonesYoung, SavedYoung
  <2>2. CASE PersistFails \/ Crash
    <3>1. "persist" \in Faults \/ "crash" \in Faults
      BY <2>2 DEF PersistFails, Crash, Fault
    <3>2. ~settings'.persist
      BY <1>1, <3>1 DEF GraceInv, TombstonesReliable, TypeOK
    <3> QED BY <3>2 DEF SavedYoung
  <2> QED BY <2>1, <2>2
<1>4. GraceRespected'
  BY DEF Persist, PersistFails, Crash, EndWith, cycle, history, GraceInv, GraceRespected
<1>5. TombstonesReliable'
  BY DEF GraceInv, TombstonesReliable
<1> QED BY <1>1, <1>2, <1>3, <1>4, <1>5 DEF GraceInv

LEMMA InitGrace == Init /\ TombstonesReliable => GraceInv
BY InitTyped DEF Init, GraceInv, TombstonesYoung, SavedYoung, GraceRespected, NoTombstones

LEMMA NextKeepsGrace == GraceInv /\ [Next]_vars => GraceInv'
<1> SUFFICES ASSUME GraceInv, [Next]_vars PROVE GraceInv'
  OBVIOUS
<1> USE DEF world, files, history, remote, cycle
<1>1. CASE Unconfigured BY <1>1, QuietStepKeepsGrace DEF Unconfigured, EndWith
<1>2. CASE Discover BY <1>2, QuietStepKeepsGrace DEF Discover
<1>3. CASE DiscoverFails BY <1>3, QuietStepKeepsGrace DEF DiscoverFails, EndWith
<1>4. CASE Resolve BY <1>4, QuietStepKeepsGrace DEF Resolve
<1>5. CASE ResolveDryRun BY <1>5, QuietStepKeepsGrace DEF ResolveDryRun, EndWith
<1>6. CASE ProvisionLost BY <1>6, QuietStepKeepsGrace DEF ProvisionLost, EndWith
<1>7. CASE ReadFails BY <1>7, QuietStepKeepsGrace DEF ReadFails, EndWith
<1>8. CASE ActivateUnchanged BY <1>8, QuietStepKeepsGrace DEF ActivateUnchanged
<1>9. CASE ActivateRestarts BY <1>9, QuietStepKeepsGrace DEF ActivateRestarts
<1>10. CASE ActivateFails BY <1>10, QuietStepKeepsGrace DEF ActivateFails
<1>11. CASE TokenWriteFails BY <1>11, QuietStepKeepsGrace DEF TokenWriteFails
<1>12. CASE MakePlan BY <1>12, PlanKeepsGrace
<1>13. CASE Persist \/ PersistFails \/ Crash BY <1>13, FileStepKeepsGrace
<1>14. CASE DryRunEnds BY <1>14, QuietStepKeepsGrace DEF DryRunEnds, EndWith
<1>15. CASE Blocked BY <1>15, QuietStepKeepsGrace DEF Blocked, EndWith
<1>16. CASE PutSkipped \/ PutSucceeds \/ PutRejected \/ PutLost
  BY <1>16, QuietStepKeepsGrace
  DEF PutSkipped, PutSucceeds, PutRejected, PutLost, PutIngress
<1>17. CASE \E h \in Hosts : DnsSucceeds(h) \/ DnsRejected(h) \/ DnsLost(h)
  BY <1>17, QuietStepKeepsGrace DEF DnsSucceeds, DnsRejected, DnsLost, WriteDns
<1>18. CASE Finish
  <2>1. \A h \in Hosts : tomb'[h] # None => tomb'[h] = tomb[h]
    BY <1>18 DEF Finish
  <2> QED BY <1>18, <2>1, QuietStepKeepsGrace DEF Finish, EndWith
<1>19. CASE Tick BY <1>19, TickKeepsGrace
<1>20. CASE CalmDown BY <1>20, OutsideStepKeepsGrace DEF CalmDown
<1>21. CASE \E h \in Hosts : ContainerChanges(h) \/ EditDns(h) \/ EditRoute(h)
  BY <1>21, OutsideStepKeepsGrace DEF ContainerChanges, EditDns, EditRoute
<1>22. CASE UNCHANGED vars BY <1>22, OutsideStepKeepsGrace DEF vars
<1> QED
  BY <1>1, <1>2, <1>3, <1>4, <1>5, <1>6, <1>7, <1>8, <1>9, <1>10, <1>11, <1>12, <1>13,
     <1>14, <1>15, <1>16, <1>17, <1>18, <1>19, <1>20, <1>21, <1>22
  DEF Next, Cycle, Environment

(* No plan that is executed removes a route or a record of a host seen     *)
(* less than the grace period ago, provided the tombstone file, where it   *)
(* is used, is neither unwritable nor cut short by a crash.  Without the   *)
(* proviso it is false: see the run CyclePersistFault.                     *)
THEOREM GraceHolds == Spec /\ TombstonesReliable => []GraceRespected
<1>1. GraceInv => GraceRespected
  BY DEF GraceInv
<1> QED BY <1>1, InitGrace, NextKeepsGrace, PTL DEF Spec
-----------------------------------------------------------------------------
(***************************************************************************)
(* Proofs about what a cycle writes, for every value of the constants:     *)
(* that it fails closed, respects ownership and keeps the deletion limit.  *)
(*                                                                         *)
(* The plan was computed from a view that is gone when the writes happen.  *)
(* The invariant WritesInv says what of that view still holds: everything, *)
(* but for the hosts an operator edited in between.                        *)
(***************************************************************************)

Planned == pc \in {"persist", "execute", "dns"}

(* The plan agrees with the inventory of this cycle. *)
PlanFits ==
  Planned =>
    /\ plan.put => dockerOk
    /\ \A h \in DnsMutations(plan) :
         dockerOk /\ (plan.dns[h] = "delete" <=> discovered[h] = None)
    /\ {h \in Hosts : plan.dns[h] = "delete"} \subseteq plan.deletions.dns

(* Until the PUT, the plan agrees with the routes. *)
RoutesFit ==
  pc \in {"persist", "execute"} =>
    \A h \in Hosts \ edited :
      /\ plan.roots[h] # roots[h] => dockerOk /\ plan.roots[h] = discovered[h]
      /\ roots[h] # None /\ plan.roots[h] = None => h \in plan.deletions.ingress

MayUpdate(s, rec) ==
  Owned(rec) \/ (s.policy # "strict_tagged_only" /\ rec # None
                  /\ ParseStatus(rec, TRUE) = "adopted")

MayDelete(s, rec) == Owned(rec) \/ s.policy = "legacy_unrestricted"

(* Until its own write, the plan agrees with each record. *)
RecordsFit ==
  Planned =>
    \A h \in Hosts \ edited :
      (pc = "dns" => h \in todo) =>
        /\ plan.dns[h] = "update" => MayUpdate(settings, dns[h])
        /\ plan.dns[h] = "delete" => MayDelete(settings, dns[h])

TodoFits == pc = "dns" => todo \subseteq DnsMutations(plan)

WritesInv == TypeOK /\ PlanFits /\ RoutesFit /\ RecordsFit /\ TodoFits
-----------------------------------------------------------------------------
(* What the planner decides about the record of one host.                  *)
LEMMA RecordDecision ==
  ASSUME NEW s, NEW v \in View, NEW h \in Hosts
  PROVE  /\ DnsAction(s, v, h) \in {"create", "update", "delete"} =>
              v.dockerOk /\ (DnsAction(s, v, h) = "delete" <=> ~Active(v, h))
         /\ DnsAction(s, v, h) = "update" => v.dns[h] # None /\ MayUpdate(s, v.dns[h])
         /\ DnsAction(s, v, h) = "delete" => v.dns[h] # None /\ MayDelete(s, v.dns[h])
<1>1. CASE v.dockerOk /\ Active(v, h)
  <2>1. DnsAction(s, v, h) = DnsActionActive(s, v, h)
    BY <1>1 DEF DnsAction
  <2>2. \A rec : rec # None /\ ParseStatus(rec, TRUE) = "owned" => Owned(rec)
    BY DEF ParseStatus, Owned
  <2> QED BY <1>1, <2>1, <2>2 DEF DnsActionActive, MayUpdate
<1>2. CASE v.dockerOk /\ ~Active(v, h)
  <2>1. DnsAction(s, v, h) = DnsActionAbsent(s, v, h)
    BY <1>2 DEF DnsAction
  <2> QED BY <1>2, <2>1 DEF DnsActionAbsent, ManagedRecord, MayDelete
<1>3. CASE ~v.dockerOk
  BY <1>3 DEF DnsAction
<1> QED BY <1>1, <1>2, <1>3

(* What the planner decides about the root route of one host. *)
LEMMA RouteDecision ==
  ASSUME NEW s, NEW v \in View, NEW h \in Hosts
  PROVE  /\ FinalRoot(s, v, h) # v.roots[h] => v.dockerOk /\ FinalRoot(s, v, h) = v.origins[h]
         /\ v.roots[h] # None /\ FinalRoot(s, v, h) = None => IngressAction(s, v, h) = "delete"
<1>1. IngressAction(s, v, h) \in {"create", "update"} => v.dockerOk /\ Active(v, h)
  BY DEF IngressAction
<1>2. IngressAction(s, v, h) = "delete" => v.dockerOk /\ ~Active(v, h)
  BY DEF IngressAction
<1> QED BY <1>1, <1>2 DEF FinalRoot, Active

(* A record the cycle sees is the record that is there. *)
LEMMA SeenRecord ==
  ASSUME NEW h \in Hosts, Snapshot.dns[h] # None PROVE Snapshot.dns[h] = dns[h]
BY DEF Snapshot, FetchDns

LEMMA PlanEstablishesWrites == TypeOK /\ MakePlan => WritesInv'
<1> SUFFICES ASSUME TypeOK, MakePlan PROVE WritesInv'
  OBVIOUS
<1> DEFINE p == ComputePlan(Effective, Snapshot)
<1>1. TypeOK' /\ Snapshot \in View
  <2>1. Next
    BY DEF Next, Cycle
  <2> QED BY <2>1, NextTyped, SnapshotTyped
<1>2. /\ plan' = p /\ pc' \in {"persist", "execute"}
      /\ UNCHANGED <<dockerOk, discovered, settings, roots, dns>>
  BY DEF MakePlan, world
<1>3. /\ Snapshot.dockerOk = dockerOk /\ Snapshot.roots = roots
      /\ Snapshot.origins = discovered
  BY DEF Snapshot
<1>4. \A h \in Hosts : /\ p.dns[h] = DnsAction(Effective, Snapshot, h)
                       /\ p.roots[h] = FinalRoot(Effective, Snapshot, h)
  BY DEF ComputePlan
<1>5. Effective.policy = settings.policy
  <2>1. settings \in Settings
    BY ConfigAssumption DEF TypeOK
  <2> QED BY <2>1 DEF Effective, Settings
<1>6. PlanFits'
  <2>1. p.put => dockerOk
    BY <1>3 DEF ComputePlan
  <2>2. \A h \in DnsMutations(p) : dockerOk /\ (p.dns[h] = "delete" <=> discovered[h] = None)
    BY <1>1, <1>3, <1>4, RecordDecision DEF DnsMutations, Active
  <2>3. {h \in Hosts : p.dns[h] = "delete"} \subseteq p.deletions.dns
    BY DEF ComputePlan
  <2>4. /\ plan'.put => dockerOk'
        /\ \A h \in DnsMutations(plan') :
             dockerOk' /\ (plan'.dns[h] = "delete" <=> discovered'[h] = None)
        /\ {h \in Hosts : plan'.dns[h] = "delete"} \subseteq plan'.deletions.dns
    BY <1>2, <2>1, <2>2, <2>3
  <2>5. DnsMutations(plan)' = DnsMutations(plan')
    BY DEF DnsMutations
  <2> QED BY <2>4, <2>5 DEF PlanFits
<1>7. RoutesFit'
  <2>1. \A h \in Hosts : IngressAction(Effective, Snapshot, h) = "delete"
                           => h \in p.deletions.ingress
    BY DEF ComputePlan
  <2>2. \A h \in Hosts :
          /\ p.roots[h] # roots[h] => dockerOk /\ p.roots[h] = discovered[h]
          /\ roots[h] # None /\ p.roots[h] = None => h \in p.deletions.ingress
    BY <1>1, <1>3, <1>4, <2>1, RouteDecision
  <2> QED BY <1>2, <2>2 DEF RoutesFit
<1>8. RecordsFit'
  <2>1. \A h \in Hosts :
          /\ p.dns[h] = "update" => MayUpdate(Effective, dns[h])
          /\ p.dns[h] = "delete" => MayDelete(Effective, dns[h])
    BY <1>1, <1>4, RecordDecision, SeenRecord
  <2>2. \A h \in Hosts :
          /\ p.dns[h] = "update" => MayUpdate(settings, dns[h])
          /\ p.dns[h] = "delete" => MayDelete(settings, dns[h])
    BY <1>5, <2>1 DEF MayUpdate, MayDelete
  <2> QED BY <1>2, <2>2 DEF RecordsFit
<1>9. TodoFits'
  BY <1>2 DEF TodoFits
<1> QED BY <1>1, <1>6, <1>7, <1>8, <1>9 DEF WritesInv
-----------------------------------------------------------------------------
(* Outside planning and writing, the invariant is about nothing.           *)
LEMMA NoPlanNoWrites ==
  ASSUME WritesInv, [Next]_vars, ~Planned' PROVE WritesInv'
BY NextTyped DEF WritesInv, Planned, PlanFits, RoutesFit, RecordsFit, TodoFits

(* A step that edits no more than it admits, while a plan is at hand.      *)
LEMMA EditKeepsWrites ==
  ASSUME WritesInv, [Next]_vars,
         UNCHANGED <<pc, plan, dockerOk, discovered, settings, todo>>,
         edited \subseteq edited',
         \A h \in Hosts \ edited' : roots'[h] = roots[h] /\ dns'[h] = dns[h]
  PROVE  WritesInv'
<1>1. TypeOK'
  BY NextTyped DEF WritesInv
<1>2. PlanFits' /\ TodoFits'
  BY DEF WritesInv, PlanFits, TodoFits, Planned, DnsMutations
<1>3. RoutesFit'
  BY DEF WritesInv, RoutesFit
<1>4. RecordsFit'
  BY DEF WritesInv, RecordsFit, Planned
<1> QED BY <1>1, <1>2, <1>3, <1>4 DEF WritesInv

LEMMA WriteKeepsWrites ==
  ASSUME WritesInv, [Next]_vars, Planned, Planned', pc' # "persist",
         UNCHANGED <<plan, dockerOk, discovered, settings, edited>>,
         \/ pc' = "execute" /\ pc # "dns" /\ UNCHANGED <<roots, dns>>
         \/ pc = "execute" /\ pc' = "dns" /\ todo' = DnsMutations(plan) /\ dns' = dns
         \/ /\ pc = "dns" /\ pc' = "dns" /\ todo' \subseteq todo
            /\ \A h \in todo' : dns'[h] = dns[h]
  PROVE  WritesInv'
<1>1. TypeOK'
  BY NextTyped DEF WritesInv
<1>2. PlanFits' /\ TodoFits'
  BY DEF WritesInv, PlanFits, TodoFits, Planned, DnsMutations
<1>3. RoutesFit'
  BY DEF WritesInv, RoutesFit, Planned
<1>4. RecordsFit'
  BY DEF WritesInv, RecordsFit, Planned
<1> QED BY <1>1, <1>2, <1>3, <1>4 DEF WritesInv

LEMMA NextKeepsWrites == WritesInv /\ [Next]_vars => WritesInv'
<1> SUFFICES ASSUME WritesInv, [Next]_vars PROVE WritesInv'
  OBVIOUS
<1> USE DEF world, files, history, remote, cycle
<1>1. CASE Unconfigured \/ DiscoverFails \/ ResolveDryRun \/ ProvisionLost \/ ReadFails
             \/ DryRunEnds \/ Blocked \/ Finish \/ Crash
  <2>1. pc' = "idle"
    BY <1>1 DEF Unconfigured, DiscoverFails, ResolveDryRun, ProvisionLost, ReadFails,
                DryRunEnds, Blocked, Finish, Crash, EndWith
  <2> QED BY <2>1, NoPlanNoWrites DEF Planned
<1>2. CASE Discover \/ Resolve \/ ActivateUnchanged \/ ActivateRestarts \/ ActivateFails
             \/ TokenWriteFails
  <2>1. pc' \in {"resolve", "activate", "plan"}
    BY <1>2 DEF Discover, Resolve, ActivateUnchanged, ActivateRestarts, ActivateFails,
                TokenWriteFails
  <2> QED BY <2>1, NoPlanNoWrites DEF Planned
<1>3. CASE MakePlan
  BY <1>3, PlanEstablishesWrites DEF WritesInv
<1>4. CASE Persist \/ PersistFails
  BY <1>4, WriteKeepsWrites DEF Persist, PersistFails, Planned
<1>5. CASE PutSkipped \/ PutSucceeds \/ PutRejected \/ PutLost
  BY <1>5, WriteKeepsWrites
  DEF PutSkipped, PutSucceeds, PutRejected, PutLost, PutIngress, Planned
<1>6. ASSUME NEW h \in Hosts, NEW applied, NEW reported, WriteDns(h, applied, reported)
      PROVE  WritesInv'
  <2>1. todo' = todo \ {h} /\ \A g \in todo' : dns'[g] = dns[g]
    BY <1>6 DEF WriteDns, WritesInv, TypeOK
  <2> QED BY <1>6, <2>1, WriteKeepsWrites DEF WriteDns, Planned
<1>7. CASE \E h \in Hosts : DnsSucceeds(h) \/ DnsRejected(h) \/ DnsLost(h)
  BY <1>6, <1>7 DEF DnsSucceeds, DnsRejected, DnsLost
<1>8. CASE Tick \/ CalmDown \/ \E h \in Hosts : ContainerChanges(h)
  BY <1>8, EditKeepsWrites DEF Tick, CalmDown, ContainerChanges
<1>9. ASSUME NEW h \in Hosts, EditDns(h) \/ EditRoute(h) PROVE WritesInv'
  <2>1. \A g \in Hosts \ edited' : roots'[g] = roots[g] /\ dns'[g] = dns[g]
    BY <1>9 DEF EditDns, EditRoute, WritesInv, TypeOK
  <2> QED BY <1>9, <2>1, EditKeepsWrites DEF EditDns, EditRoute
<1>10. CASE UNCHANGED vars
  BY <1>10, EditKeepsWrites DEF vars
<1> QED
  BY <1>1, <1>2, <1>3, <1>4, <1>5, <1>7, <1>8, <1>9, <1>10 DEF Next, Cycle, Environment

LEMMA WritesInvariant == Spec => []WritesInv
<1>1. Init => WritesInv
  BY InitTyped DEF Init, WritesInv, PlanFits, RoutesFit, RecordsFit, TodoFits, Planned
<1> QED BY <1>1, NextKeepsWrites, PTL DEF Spec
-----------------------------------------------------------------------------
(***************************************************************************)
(* The writes themselves.                                                  *)
(***************************************************************************)
LEMMA OnlyPutPuts ==
  ASSUME [Next]_vars, Put
  PROVE  /\ ~ExceedsBlastRadius(settings, plan)
         /\ todo' = DnsMutations(plan)
         /\ roots' = roots \/ (plan.put /\ roots' = plan.roots)
<1>1. PutSkipped \/ PutSucceeds \/ PutRejected \/ PutLost
  BY DEF Put, Next, Cycle, Environment, vars, Unconfigured, Discover, DiscoverFails, Resolve,
         ResolveDryRun, ProvisionLost, ReadFails, ActivateUnchanged, ActivateRestarts,
         ActivateFails, TokenWriteFails, MakePlan, Persist, PersistFails, DryRunEnds, Blocked,
         DnsSucceeds, DnsRejected, DnsLost, Finish, Crash, Tick, CalmDown, ContainerChanges,
         EditDns, EditRoute, EndWith
<1> QED BY <1>1 DEF PutSkipped, PutSucceeds, PutRejected, PutLost, PutIngress

LEMMA OnlyDnsWrites ==
  ASSUME [Next]_vars, NEW h \in Hosts, DnsWrite(h)
  PROVE  \/ dns' = dns
         \/ \E g \in todo : /\ todo' = todo \ {g} /\ Applicable(g)
                            /\ dns' = [dns EXCEPT ![g] = IF plan.dns[g] = "delete" THEN None
                                                         ELSE OwnedRecord]
<1> USE DEF world, files, history, remote, cycle
<1>1. \/ \E g \in Hosts : DnsSucceeds(g) \/ DnsRejected(g) \/ DnsLost(g)
      \/ UNCHANGED todo
  BY DEF DnsWrite, Next, Cycle, Environment, vars, Unconfigured, Discover, DiscoverFails,
         Resolve, ResolveDryRun, ProvisionLost, ReadFails, ActivateUnchanged, ActivateRestarts,
         ActivateFails, TokenWriteFails, MakePlan, Persist, PersistFails, DryRunEnds, Blocked,
         PutSkipped, PutSucceeds, PutRejected, PutLost, Finish, Crash, Tick, CalmDown,
         ContainerChanges, EditDns, EditRoute, EndWith
<1>2. ASSUME UNCHANGED todo PROVE FALSE
  BY <1>2 DEF DnsWrite
<1>3. ASSUME NEW g \in Hosts, DnsRejected(g) PROVE dns' = dns
  BY <1>3 DEF DnsRejected, WriteDns
<1>4. ASSUME NEW g \in Hosts, DnsSucceeds(g) \/ DnsLost(g)
      PROVE  /\ g \in todo /\ todo' = todo \ {g} /\ Applicable(g)
             /\ dns' = [dns EXCEPT ![g] = IF plan.dns[g] = "delete" THEN None ELSE OwnedRecord]
  BY <1>4 DEF DnsSucceeds, DnsLost, WriteDns
<1> QED BY <1>1, <1>2, <1>3, <1>4

(* What a DNS write did to the record of its host, and what that means.    *)
LEMMA RecordWrite ==
  ASSUME WritesInv, [Next]_vars, NEW h \in Hosts, DnsWrite(h), dns'[h] # dns[h]
  PROVE  /\ h \in DnsMutations(plan)
         /\ dns'[h] = (IF plan.dns[h] = "delete" THEN None ELSE OwnedRecord)
         /\ OwnedRecord # None
         /\ dns[h] = None \/ plan.dns[h] # "create"
         /\ pc = "dns" /\ h \in todo
<1>1. PICK g \in todo :
        /\ todo' = todo \ {g} /\ Applicable(g)
        /\ dns' = [dns EXCEPT ![g] = IF plan.dns[g] = "delete" THEN None ELSE OwnedRecord]
  BY OnlyDnsWrites
<1>2. g = h
  BY <1>1 DEF DnsWrite
<1>3. dns \in [Hosts -> Record \cup {None}] /\ pc = "dns" /\ h \in todo
  BY DEF DnsWrite, WritesInv, TypeOK
<1>4. OwnedRecord # None
  <2>1. OwnedRecord \in Record
    BY DEF OwnedRecord, Record, Comments
  <2> QED BY <2>1, NoneIsNoRecord
<1> QED BY <1>1, <1>2, <1>3, <1>4 DEF Applicable, WritesInv, TodoFits

(* Nothing is written when Docker was not at hand for the plan, and what   *)
(* is removed or added agrees with the inventory of the cycle.             *)
THEOREM FailClosedHolds == Spec => FailClosed
<1>1. ASSUME WritesInv, [Next]_vars, NEW h \in Hosts
      PROVE  /\ Put /\ roots'[h] # roots[h] /\ h \notin edited =>
                   dockerOk /\ roots'[h] = discovered[h]
             /\ DnsWrite(h) /\ dns'[h] # dns[h] =>
                   dockerOk /\ (dns'[h] = None <=> discovered[h] = None)
  <2>1. ASSUME Put, roots'[h] # roots[h], h \notin edited
        PROVE  dockerOk /\ roots'[h] = discovered[h]
    <3>1. roots' = plan.roots /\ pc = "execute"
      BY <1>1, <2>1, OnlyPutPuts DEF Put
    <3> QED BY <1>1, <2>1, <3>1 DEF WritesInv, RoutesFit
  <2>2. ASSUME DnsWrite(h), dns'[h] # dns[h]
        PROVE  dockerOk /\ (dns'[h] = None <=> discovered[h] = None)
    <3>1. /\ h \in DnsMutations(plan) /\ OwnedRecord # None /\ pc = "dns"
          /\ dns'[h] = (IF plan.dns[h] = "delete" THEN None ELSE OwnedRecord)
      BY <1>1, <2>2, RecordWrite
    <3> QED BY <1>1, <3>1 DEF WritesInv, PlanFits, Planned
  <2> QED BY <2>1, <2>2
<1>2. WritesInv /\ [Next]_vars =>
        [\A h \in Hosts :
           /\ Put /\ roots'[h] # roots[h] /\ h \notin edited =>
                dockerOk /\ roots'[h] = discovered[h]
           /\ DnsWrite(h) /\ dns'[h] # dns[h] =>
                dockerOk /\ (dns'[h] = None <=> discovered[h] = None)]_vars
  BY <1>1
<1> QED BY <1>2, WritesInvariant, PTL DEF Spec, FailClosed

(* Whatever happens between the read and the write, the record of a host   *)
(* that no operator touched in between is deleted or overwritten only as   *)
(* the ownership policy allows.                                            *)
THEOREM OwnershipHolds == Spec => OwnershipRespected
<1>1. ASSUME WritesInv, [Next]_vars, NEW h \in Hosts
      PROVE  DnsWrite(h) /\ dns'[h] # dns[h] /\ h \notin edited =>
               \/ dns[h] = None
               \/ Owned(dns[h])
               \/ dns'[h] = None /\ settings.policy = "legacy_unrestricted"
               \/ /\ dns'[h] # None /\ settings.policy # "strict_tagged_only"
                  /\ ParseStatus(dns[h], TRUE) = "adopted"
  <2> SUFFICES ASSUME DnsWrite(h), dns'[h] # dns[h], h \notin edited, dns[h] # None
               PROVE  \/ Owned(dns[h])
                      \/ dns'[h] = None /\ settings.policy = "legacy_unrestricted"
                      \/ /\ dns'[h] # None /\ settings.policy # "strict_tagged_only"
                         /\ ParseStatus(dns[h], TRUE) = "adopted"
    OBVIOUS
  <2>1. /\ h \in DnsMutations(plan) /\ plan.dns[h] # "create" /\ OwnedRecord # None
        /\ dns'[h] = (IF plan.dns[h] = "delete" THEN None ELSE OwnedRecord)
        /\ pc = "dns" /\ h \in todo
    BY <1>1, RecordWrite
  <2>2. /\ plan.dns[h] = "update" => MayUpdate(settings, dns[h])
        /\ plan.dns[h] = "delete" => MayDelete(settings, dns[h])
    BY <1>1, <2>1 DEF WritesInv, RecordsFit, Planned
  <2> QED BY <2>1, <2>2 DEF DnsMutations, MayUpdate, MayDelete
<1>2. WritesInv /\ [Next]_vars =>
        [\A h \in Hosts :
           DnsWrite(h) /\ dns'[h] # dns[h] /\ h \notin edited =>
             \/ dns[h] = None
             \/ Owned(dns[h])
             \/ dns'[h] = None /\ settings.policy = "legacy_unrestricted"
             \/ /\ dns'[h] # None /\ settings.policy # "strict_tagged_only"
                /\ ParseStatus(dns[h], TRUE) = "adopted"]_vars
  BY <1>1
<1> QED BY <1>2, WritesInvariant, PTL DEF Spec, OwnershipRespected

(* One execution removes at most maxDeletions routes and records.          *)
THEOREM BlastRadiusHolds == Spec => BlastRadiusRespected
<1>1. ASSUME WritesInv, [Next]_vars, Put, ~settings.allowMass
      PROVE  /\ Cardinality({h \in Hosts \ edited : roots[h] # None /\ roots'[h] = None})
                  <= settings.maxDeletions
             /\ Cardinality({h \in todo' : plan.dns[h] = "delete"}) <= settings.maxDeletions
  <2> DEFINE routes  == {h \in Hosts \ edited : roots[h] # None /\ roots'[h] = None}
             records == {h \in todo' : plan.dns[h] = "delete"}
             i == plan.deletions.ingress
             d == plan.deletions.dns
  <2>1. pc = "execute" /\ plan \in PlanType /\ settings \in Settings
    BY <1>1, ConfigAssumption DEF Put, WritesInv, TypeOK
  <2>2. routes \subseteq i
    BY <1>1, <2>1, OnlyPutPuts DEF WritesInv, RoutesFit
  <2>3. records \subseteq d
    BY <1>1, <2>1, OnlyPutPuts DEF WritesInv, PlanFits, Planned, DnsMutations
  <2>4. IsFiniteSet(i) /\ IsFiniteSet(d)
    <3>1. i \subseteq Hosts /\ d \subseteq Hosts
      BY <2>1 DEF PlanType
    <3> QED BY <3>1, FS_Subset, ConfigAssumption
  <2>5. /\ Cardinality(routes) \in Nat /\ Cardinality(routes) <= Cardinality(i)
        /\ Cardinality(records) \in Nat /\ Cardinality(records) <= Cardinality(d)
        /\ Cardinality(i) \in Nat /\ Cardinality(d) \in Nat
    BY <2>2, <2>3, <2>4, FS_Subset, FS_CardinalityType
  <2>6. ~(DeletionCount(plan) > settings.maxDeletions)
    BY <1>1, OnlyPutPuts DEF ExceedsBlastRadius
  <2>7. settings.maxDeletions \in Nat
    BY <2>1 DEF Settings
  <2> HIDE DEF routes, records, i, d
  <2>8. DeletionCount(plan) = IF Cardinality(i) > Cardinality(d) THEN Cardinality(i)
                              ELSE Cardinality(d)
    BY DEF DeletionCount, i, d
  <2>9. Cardinality(routes) <= settings.maxDeletions /\ Cardinality(records) <= settings.maxDeletions
    BY <2>5, <2>6, <2>7, <2>8
  <2> QED BY <2>9 DEF routes, records
<1> QED BY <1>1, WritesInvariant, PTL DEF Spec, BlastRadiusRespected
=============================================================================
