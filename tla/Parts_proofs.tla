---------------------------- MODULE Parts_proofs ----------------------------
(***************************************************************************)
(* Proofs about the smaller parts a cycle is built from, for every value   *)
(* of the constants: the planner, one call with its retries (Requests),    *)
(* the reading of a zone that others edit (ZoneReads), and the alerts.     *)
(***************************************************************************)
EXTENDS MCPlanner, Requests, ZoneReads, Alerts, DataLemmas, TLAPS

(***************************************************************************)
(* The planner, for any hosts, any routes and any settings: what TLC       *)
(* checks for one host holds for any number of them, since a plan decides  *)
(* host by host.                                                           *)
(***************************************************************************)
Changing == {"create", "update", "delete"}

Typed == settings \in AllSettings /\ view \in AllViews

PlannerSpec == PlannerInit /\ [][PlannerNext]_plannerVars

LEMMA OwnedTyped == OwnedRecord \in Record /\ OwnedRecord # None
<1>1. OwnedRecord \in Record
  BY DEF OwnedRecord, Record, Comments
<1> QED BY <1>1, NoneIsNoRecord

(* A plan, host by host. *)
LEMMA PlanOf ==
  ASSUME NEW s, NEW v, NEW h \in Hosts
  PROVE  /\ ComputePlan(s, v).roots[h] = FinalRoot(s, v, h)
         /\ ComputePlan(s, v).dns[h] = DnsAction(s, v, h)
BY DEF ComputePlan

LEMMA RootTyped ==
  ASSUME NEW s, NEW v \in AllViews, NEW h \in Hosts
  PROVE  FinalRoot(s, v, h) \in Routes \cup {None}
<1>1. v.origins[h] \in Routes \cup {None} /\ v.roots[h] \in Routes \cup {None}
  BY DEF AllViews
<1> QED BY <1>1 DEF FinalRoot

(* The world after a plan, host by host. *)
LEMMA AppliedOf ==
  ASSUME NEW s, NEW v \in AllViews
  PROVE  /\ Applied(ComputePlan(s, v), v) \in AllViews
         /\ Applied(ComputePlan(s, v), v).dockerOk = v.dockerOk
         /\ Applied(ComputePlan(s, v), v).origins = v.origins
         /\ \A h \in Hosts :
              /\ Applied(ComputePlan(s, v), v).roots[h] = FinalRoot(s, v, h)
              /\ Applied(ComputePlan(s, v), v).dns[h] =
                   IF DnsAction(s, v, h) \in {"create", "update"} THEN OwnedRecord
                   ELSE IF DnsAction(s, v, h) = "delete" THEN None ELSE v.dns[h]
              /\ Applied(ComputePlan(s, v), v).tomb[h] =
                   IF h \in TombstonesToClear(s, v) THEN None
                   ELSE IF h \in TombstonesToSet(s, v) /\ v.tomb[h] = None THEN 0
                   ELSE v.tomb[h]
<1> DEFINE p == ComputePlan(s, v)
           dnsAfter  == [h \in Hosts |-> CASE p.dns[h] \in {"create", "update"} -> OwnedRecord
                                           [] p.dns[h] = "delete" -> None
                                           [] OTHER -> v.dns[h]]
           tombAfter == [h \in Hosts |-> IF h \in p.clear THEN None
                                         ELSE IF h \in p.set /\ v.tomb[h] = None THEN 0
                                         ELSE v.tomb[h]]
           after == Applied(p, v)
<1>1. after = [v EXCEPT !.roots = p.roots, !.dns = dnsAfter, !.tomb = tombAfter]
  BY DEF Applied
<1>2. /\ p.roots = [h \in Hosts |-> FinalRoot(s, v, h)]
      /\ p.clear = TombstonesToClear(s, v) /\ p.set = TombstonesToSet(s, v)
      /\ \A h \in Hosts : p.dns[h] = DnsAction(s, v, h)
  BY DEF ComputePlan
<1> HIDE DEF p
<1>3. \A h \in Hosts : dnsAfter[h] = IF DnsAction(s, v, h) \in {"create", "update"} THEN OwnedRecord
                                     ELSE IF DnsAction(s, v, h) = "delete" THEN None
                                     ELSE v.dns[h]
  BY <1>2
<1>4. \A h \in Hosts : tombAfter[h] = IF h \in TombstonesToClear(s, v) THEN None
                                      ELSE IF h \in TombstonesToSet(s, v) /\ v.tomb[h] = None
                                      THEN 0 ELSE v.tomb[h]
  BY <1>2
<1>5. p.roots \in [Hosts -> Routes \cup {None}]
  BY <1>2, RootTyped
<1>6. \A h \in Hosts : dnsAfter[h] \in Record \cup {None}
  BY <1>3, OwnedTyped DEF AllViews
<1>7. \A h \in Hosts : tombAfter[h] \in 0 .. MaxAge \cup {None}
  <2>1. 0 \in 0 .. MaxAge
    BY MaxAgeNat
  <2> QED BY <1>4, <2>1 DEF AllViews
<1>8. /\ dnsAfter \in [Hosts -> Record \cup {None}]
      /\ tombAfter \in [Hosts -> 0 .. MaxAge \cup {None}]
  BY <1>6, <1>7
<1> HIDE DEF dnsAfter, tombAfter, after
<1>9. /\ after \in AllViews /\ after.dockerOk = v.dockerOk /\ after.origins = v.origins
      /\ after.roots = p.roots /\ after.dns = dnsAfter /\ after.tomb = tombAfter
  BY <1>1, <1>5, <1>8 DEF AllViews
<1> QED BY <1>2, <1>3, <1>4, <1>9 DEF after, p

LEMMA StaysTyped == Typed /\ [PlannerNext]_plannerVars => Typed'
<1> SUFFICES ASSUME Typed, [PlannerNext]_plannerVars PROVE Typed'
  OBVIOUS
<1>1. CASE Reconcile
  BY <1>1, AppliedOf DEF Reconcile, Typed, Plan
<1>2. CASE Age
  <2> DEFINE older == [h \in Hosts |-> IF view.tomb[h] = None \/ view.tomb[h] = MaxAge
                                       THEN view.tomb[h] ELSE view.tomb[h] + 1]
  <2>1. view' = [view EXCEPT !.tomb = older] /\ settings' = settings
    BY <1>2 DEF Age
  <2>2. \A h \in Hosts : older[h] \in 0 .. MaxAge \cup {None}
    BY MaxAgeNat DEF Typed, AllViews
  <2>3. older \in [Hosts -> 0 .. MaxAge \cup {None}]
    BY <2>2
  <2> HIDE DEF older
  <2> QED BY <2>1, <2>3 DEF Typed, AllViews
<1>3. CASE UNCHANGED plannerVars
  BY <1>3 DEF plannerVars, Typed
<1> QED BY <1>1, <1>2, <1>3 DEF PlannerNext

LEMMA PlannerTyped == PlannerSpec => []Typed
<1>1. PlannerInit => Typed
  BY DEF PlannerInit, Typed
<1> QED BY <1>1, StaysTyped, PTL DEF PlannerSpec
-----------------------------------------------------------------------------
(* An owned record, as the decisions on its host see it.                   *)
LEMMA OwnedIsManaged ==
  ASSUME NEW s, NEW v, NEW h \in Hosts, Owned(v.dns[h])
  PROVE  v.dns[h] # None /\ v.dns[h].type = "CNAME" /\ ManagedRecord(s, v, h)
         /\ ParseStatus(v.dns[h], TRUE) = "owned"
<1>1. v.dns[h] # None /\ v.dns[h].type = "CNAME" /\ ParseStatus(v.dns[h], TRUE) = "owned"
  BY DEF Owned, ParseStatus
<1> QED BY <1>1 DEF ManagedRecord

(* A plan never removes the owned record of an absent host without its     *)
(* root route, nor the route without the record.                           *)
THEOREM RouteAndRecordTogetherHolds == PlannerSpec => []RouteAndRecordTogether
<1>1. ASSUME NEW h \in Hosts, ManagedRoot(view, h)
      PROVE  IngressAction(settings, view, h) = "delete"
               <=> DnsAction(settings, view, h) = "delete"
  <2>1. view.roots[h] # None /\ Owned(view.dns[h])
    BY <1>1 DEF ManagedRoot
  <2>2. CASE view.dockerOk /\ ~Active(view, h)
    <3>1. IngressAction(settings, view, h) = "delete" <=> Cleanup(settings, view, h) = "delete"
      BY <1>1, <2>1, <2>2 DEF IngressAction
    <3>2. DnsAction(settings, view, h) = "delete" <=> Cleanup(settings, view, h) = "delete"
      BY <2>1, <2>2, OwnedIsManaged DEF DnsAction, DnsActionAbsent
    <3> QED BY <3>1, <3>2
  <2>3. CASE ~view.dockerOk \/ Active(view, h)
    BY <2>3 DEF IngressAction, DnsAction, DnsActionActive
  <2> QED BY <2>2, <2>3
<1>2. RouteAndRecordTogether
  BY <1>1 DEF RouteAndRecordTogether
<1> QED BY <1>2, PTL

(* Outside legacy_unrestricted, no cycle changes a record that is not this *)
(* tunnel's, for any number of hosts.                                      *)
THEOREM OthersRecordsUntouchedHolds == PlannerSpec => OthersRecordsUntouched
<1>1. ASSUME Typed, [PlannerNext]_plannerVars, settings.policy # "legacy_unrestricted",
             NEW h \in Hosts, view.dns[h] # None,
             ParseStatus(view.dns[h], TRUE) \notin {"owned", "adopted"}
      PROVE  view'.dns[h] = view.dns[h]
  <2>1. CASE Reconcile
    <3>1. ~Owned(view.dns[h])
      BY <1>1, OwnedIsManaged
    <3>2. ~ManagedRecord(settings, view, h)
      BY <1>1, <3>1 DEF ManagedRecord
    <3>3. DnsAction(settings, view, h) \notin Changing
      BY <1>1, <3>2 DEF DnsAction, DnsActionActive, DnsActionAbsent, Changing
    <3> QED BY <1>1, <2>1, <3>3, AppliedOf DEF Reconcile, Plan, Typed, Changing
  <2>2. CASE Age
    BY <1>1, <2>2 DEF Age, Typed, AllViews
  <2>3. CASE UNCHANGED plannerVars
    BY <2>3 DEF plannerVars
  <2> QED BY <1>1, <2>1, <2>2, <2>3 DEF PlannerNext
<1>2. Typed /\ [PlannerNext]_plannerVars =>
        [settings.policy # "legacy_unrestricted" =>
           \A h \in Hosts :
             (view.dns[h] # None /\ ParseStatus(view.dns[h], TRUE) \notin {"owned", "adopted"})
               => view'.dns[h] = view.dns[h]]_plannerVars
  BY <1>1
<1> QED BY <1>2, PlannerTyped, PTL DEF PlannerSpec, OthersRecordsUntouched
-----------------------------------------------------------------------------
(***************************************************************************)
(* The three policies.                                                     *)
(***************************************************************************)
Under(p) == [settings EXCEPT !.policy = p]

LEMMA UnderPolicy ==
  ASSUME Typed, NEW p
  PROVE  /\ Under(p).policy = p
         /\ \A h \in Hosts :
              /\ FinalRoot(Under(p), view, h) = FinalRoot(settings, view, h)
              /\ Cleanup(Under(p), view, h) = Cleanup(settings, view, h)
<1>1. /\ Under(p).policy = p /\ Under(p).grace = settings.grace
      /\ Under(p).immediate = settings.immediate
      /\ Under(p).preserveRoots = settings.preserveRoots
  BY DEF Under, Typed, AllSettings
<1>2. \A h \in Hosts : /\ Cleanup(Under(p), view, h) = Cleanup(settings, view, h)
                       /\ KeepManualRoot(Under(p), view, h) = KeepManualRoot(settings, view, h)
  BY <1>1 DEF Cleanup, KeepManualRoot
<1>3. \A h \in Hosts : IngressAction(Under(p), view, h) = IngressAction(settings, view, h)
  BY <1>2 DEF IngressAction
<1> QED BY <1>1, <1>2, <1>3 DEF FinalRoot

LEMMA MutatedBy ==
  ASSUME Typed, NEW p
  PROVE  Mutated(ComputePlan(Under(p), view), view) =
           {h \in Hosts : FinalRoot(settings, view, h) # view.roots[h]
                            \/ DnsAction(Under(p), view, h) \in Changing}
BY PlanOf, UnderPolicy DEF Mutated, Changing

(* What the record of one host has to be for a policy to change it.        *)
LEMMA ChangesUnder ==
  ASSUME Typed, NEW p, NEW h \in Hosts
  PROVE  DnsAction(Under(p), view, h) \in Changing <=>
           /\ view.dockerOk
           /\ \/ /\ Active(view, h)
                 /\ \/ view.dns[h] = None
                    \/ view.dns[h] # OwnedRecord /\ ParseStatus(view.dns[h], TRUE) = "owned"
                    \/ p # "strict_tagged_only" /\ ParseStatus(view.dns[h], TRUE) = "adopted"
              \/ /\ ~Active(view, h) /\ view.dns[h] # None
                 /\ ManagedRecord(Under(p), view, h) /\ Cleanup(settings, view, h) = "delete"
<1>1. CASE ~view.dockerOk
  BY <1>1 DEF DnsAction, Changing
<1>2. CASE view.dockerOk /\ Active(view, h)
  <2>1. DnsAction(Under(p), view, h) = DnsActionActive(Under(p), view, h)
    BY <1>2 DEF DnsAction
  <2> QED BY <1>2, <2>1, UnderPolicy DEF DnsActionActive, Changing
<1>3. CASE view.dockerOk /\ ~Active(view, h)
  <2>1. DnsAction(Under(p), view, h) = DnsActionAbsent(Under(p), view, h)
    BY <1>3 DEF DnsAction
  <2> QED BY <1>3, <2>1, UnderPolicy DEF DnsActionAbsent, ManagedRecord, Changing
<1> QED BY <1>1, <1>2, <1>3

(* What a stricter policy changes, a laxer one changes as well.            *)
LEMMA LaxerChangesMore ==
  ASSUME Typed, NEW p, NEW q,
         <<p, q>> \in {<<"strict_tagged_only", "adopt_and_manage">>,
                       <<"adopt_and_manage", "legacy_unrestricted">>}
  PROVE  Mutated(ComputePlan(Under(p), view), view)
           \subseteq Mutated(ComputePlan(Under(q), view), view)
<1>1. p # "legacy_unrestricted" /\ q # "strict_tagged_only"
  OBVIOUS
<1>2. ASSUME NEW h \in Hosts, DnsAction(Under(p), view, h) \in Changing
      PROVE  DnsAction(Under(q), view, h) \in Changing
  <2>1. ManagedRecord(Under(p), view, h) => ManagedRecord(Under(q), view, h)
    BY <1>1, UnderPolicy DEF ManagedRecord
  <2> QED BY <1>1, <1>2, <2>1, ChangesUnder
<1> QED BY <1>2, MutatedBy

(* For the same inputs the strict policy changes the fewest hosts and the  *)
(* legacy policy the most, for any number of hosts.                        *)
THEOREM PoliciesOrderedHolds == PlannerSpec => []PoliciesOrdered
<1>1. ASSUME Typed PROVE PoliciesOrdered
  <2>1. /\ Mutated(ComputePlan(Under("strict_tagged_only"), view), view)
             \subseteq Mutated(ComputePlan(Under("adopt_and_manage"), view), view)
        /\ Mutated(ComputePlan(Under("adopt_and_manage"), view), view)
             \subseteq Mutated(ComputePlan(Under("legacy_unrestricted"), view), view)
    BY <1>1, LaxerChangesMore
  <2> QED BY <2>1 DEF PoliciesOrdered, Under
<1> QED BY <1>1, PlannerTyped, PTL
-----------------------------------------------------------------------------
(***************************************************************************)
(* Convergence: the plan after the plan.                                   *)
(***************************************************************************)

(* Nothing is left to do for one host. *)
Settled(s, v, h) == FinalRoot(s, v, h) = v.roots[h] /\ DnsAction(s, v, h) \notin Changing

LEMMA ActiveSettles ==
  ASSUME Typed, settings.preserveRoots => settings.policy = "strict_tagged_only",
         NEW h \in Hosts, view.dockerOk, Active(view, h)
  PROVE  Settled(settings, Applied(Plan, view), h)
<1> DEFINE s == settings
           v == view
           a == Applied(Plan, view)
<1>1. /\ a.dockerOk /\ a.origins = v.origins /\ Active(a, h)
      /\ a.roots[h] = FinalRoot(s, v, h)
      /\ a.dns[h] = IF DnsAction(s, v, h) \in {"create", "update"} THEN OwnedRecord
                    ELSE IF DnsAction(s, v, h) = "delete" THEN None ELSE v.dns[h]
  BY AppliedOf DEF Typed, Plan, Active
<1>2. /\ DnsAction(s, v, h) = DnsActionActive(s, v, h)
      /\ DnsAction(s, a, h) = DnsActionActive(s, a, h)
  BY <1>1 DEF DnsAction
<1>3. ParseStatus(OwnedRecord, TRUE) = "owned" /\ OwnedRecord # None
  BY OwnedTyped DEF ParseStatus, OwnedRecord
<1> HIDE DEF a
<1>4. DnsAction(s, a, h) \notin Changing
  <2>1. CASE DnsActionActive(s, v, h) \in {"create", "update"}
    BY <1>1, <1>2, <1>3, <2>1 DEF DnsActionActive, Changing
  <2>2. CASE DnsActionActive(s, v, h) \notin {"create", "update"}
    <3>1. a.dns[h] = v.dns[h] /\ DnsActionActive(s, v, h) \in {"noop", "protect"}
      BY <1>1, <1>2, <2>2 DEF DnsActionActive
    <3> QED BY <1>2, <3>1 DEF DnsActionActive, Changing
  <2> QED BY <2>1, <2>2
<1>5. FinalRoot(s, a, h) = a.roots[h]
  <2>1. CASE KeepManualRoot(s, v, h)
    <3>1. s.policy = "strict_tagged_only" /\ v.dns[h] # None /\ v.roots[h] # None
          /\ s.preserveRoots /\ ~Owned(v.dns[h])
      BY <2>1 DEF KeepManualRoot
    <3>2. ParseStatus(v.dns[h], TRUE) # "owned"
      BY <3>1 DEF Owned, ParseStatus
    <3>3. DnsAction(s, v, h) = "protect"
      BY <1>2, <3>1, <3>2 DEF DnsActionActive
    <3>4. FinalRoot(s, v, h) = v.roots[h]
      BY <2>1 DEF FinalRoot, IngressAction
    <3>5. KeepManualRoot(s, a, h)
      BY <1>1, <3>1, <3>3, <3>4 DEF KeepManualRoot
    <3> QED BY <1>1, <3>5 DEF FinalRoot, IngressAction
  <2>2. CASE ~KeepManualRoot(s, v, h)
    <3>1. a.roots[h] = v.origins[h]
      BY <1>1, <2>2 DEF FinalRoot, IngressAction
    <3>2. IngressAction(s, a, h) = "noop"
      BY <1>1, <3>1 DEF IngressAction, Active
    <3> QED BY <3>2 DEF FinalRoot
  <2> QED BY <2>1, <2>2
<1> QED BY <1>4, <1>5 DEF Settled, a

LEMMA AbsentSettles ==
  ASSUME Typed, NEW h \in Hosts, view.dockerOk, ~Active(view, h)
  PROVE  Settled(settings, Applied(Plan, view), h)
<1> DEFINE s == settings
           v == view
           a == Applied(Plan, view)
<1>1. /\ a.dockerOk /\ ~Active(a, h)
      /\ a.roots[h] = FinalRoot(s, v, h)
      /\ a.dns[h] = IF DnsAction(s, v, h) \in {"create", "update"} THEN OwnedRecord
                    ELSE IF DnsAction(s, v, h) = "delete" THEN None ELSE v.dns[h]
      /\ a.tomb[h] = IF h \in TombstonesToClear(s, v) THEN None
                     ELSE IF h \in TombstonesToSet(s, v) /\ v.tomb[h] = None THEN 0
                     ELSE v.tomb[h]
  BY AppliedOf DEF Typed, Plan, Active
<1> HIDE DEF a
<1>2. /\ DnsAction(s, v, h) = DnsActionAbsent(s, v, h)
      /\ DnsAction(s, a, h) = DnsActionAbsent(s, a, h)
  BY <1>1 DEF DnsAction
<1>3. DnsAction(s, v, h) \notin {"create", "update"}
  BY <1>2 DEF DnsActionAbsent
<1>4. DnsAction(s, v, h) = "delete"
        <=> v.dns[h] # None /\ ManagedRecord(s, v, h) /\ Cleanup(s, v, h) = "delete"
  BY <1>2 DEF DnsActionAbsent, ManagedRecord
<1>5. a.roots[h] = IF ManagedRoot(v, h) /\ Cleanup(s, v, h) = "delete" THEN None ELSE v.roots[h]
  BY <1>1 DEF FinalRoot, IngressAction, ManagedRoot
<1>6. FinalRoot(s, a, h) = IF ManagedRoot(a, h) /\ Cleanup(s, a, h) = "delete" THEN None
                           ELSE a.roots[h]
  BY <1>1 DEF FinalRoot, IngressAction, ManagedRoot
<1>7. Lingering(s, v, h) <=> ManagedRoot(v, h) \/ ManagedRecord(s, v, h)
  BY DEF Lingering
<1>8. s.grace \in Nat
  BY MaxAgeNat DEF Typed, AllSettings, Graces
<1>9. v.tomb[h] \in Nat \cup {None}
  BY MaxAgeNat DEF Typed, AllViews
<1>10. ManagedRoot(v, h) => ManagedRecord(s, v, h)
  BY OwnedIsManaged DEF ManagedRoot
<1>11. CASE Lingering(s, v, h) /\ Cleanup(s, v, h) = "delete"
  <2>1. ManagedRecord(s, v, h) /\ a.dns[h] = None
    BY <1>1, <1>4, <1>7, <1>10, <1>11 DEF ManagedRecord
  <2>2. DnsAction(s, a, h) \notin Changing
    BY <1>2, <2>1 DEF DnsActionAbsent, Changing
  <2>3. ~ManagedRoot(a, h)
    BY <2>1 DEF ManagedRoot, Owned
  <2> QED BY <1>6, <2>2, <2>3 DEF Settled, a
<1>12. CASE Lingering(s, v, h) /\ Cleanup(s, v, h) # "delete"
  <2>1. a.tomb[h] = IF v.tomb[h] = None THEN 0 ELSE v.tomb[h]
    BY <1>1, <1>12 DEF TombstonesToClear, TombstonesToSet, Cleanup
  <2>2. Cleanup(s, a, h) = "wait"
    BY <1>8, <1>9, <1>12, <2>1, NoneAssumption DEF Cleanup
  <2>3. DnsAction(s, a, h) \notin Changing
    BY <1>2, <2>2 DEF DnsActionAbsent, Changing
  <2> QED BY <1>6, <2>2, <2>3 DEF Settled, a
<1>13. CASE ~Lingering(s, v, h)
  <2>1. ~ManagedRoot(v, h) /\ ~ManagedRecord(s, v, h)
    BY <1>7, <1>13
  <2>2. a.roots[h] = v.roots[h] /\ a.dns[h] = v.dns[h] /\ a.tomb[h] = v.tomb[h]
    BY <1>1, <1>3, <1>4, <1>5, <1>13, <2>1 DEF TombstonesToClear, TombstonesToSet
  <2>3. ~ManagedRoot(a, h) /\ ~ManagedRecord(s, a, h)
    BY <2>1, <2>2 DEF ManagedRoot, ManagedRecord
  <2>4. DnsAction(s, a, h) \notin Changing
    BY <1>2, <2>3 DEF DnsActionAbsent, Changing
  <2> QED BY <1>6, <2>3, <2>4 DEF Settled, a
<1> QED BY <1>11, <1>12, <1>13

(* When its writes succeed, a plan is followed by an empty one, for any    *)
(* number of hosts, any settings and any tombstones.                       *)
THEOREM PlanSettlesHolds == PlannerSpec => []PlanSettles
<1>1. ASSUME Typed, settings.preserveRoots => settings.policy = "strict_tagged_only",
             NEW h \in Hosts
      PROVE  Settled(settings, Applied(Plan, view), h)
  <2>1. CASE ~view.dockerOk
    <3>1. ~Applied(Plan, view).dockerOk
      BY <1>1, <2>1, AppliedOf DEF Typed, Plan
    <3> QED BY <3>1 DEF Settled, FinalRoot, IngressAction, DnsAction, Changing
  <2> QED BY <1>1, <2>1, ActiveSettles, AbsentSettles
<1>2. Typed => PlanSettles
  BY <1>1, PlanOf DEF PlanSettles, Mutated, Settled, Changing
<1> QED BY <1>2, PlannerTyped, PTL

(***************************************************************************)
(* A call with any number of attempts.                                     *)
(***************************************************************************)
RequestSpec == RequestInit /\ [][RequestNext]_requestVars

PauseRight == 1 <= pause /\ (pause <= MaxDelay \/ pause = call.base)

(* Why a call ended, or may go on. *)
EndRight ==
  /\ result \in {"pending", "success", "failure"}
  /\ result = "success" => effects >= 1 /\ cause = "answered"
  /\ result # "success" => effects = 0 \/ unheard
  /\ result = "failure" =>
       \/ attempts = call.limit
       \/ cause \in {"refused", "unreadable"}
       \/ cause = IF call.client = "docker" THEN "busy" ELSE "broken"
       \/ cause = "unsent" /\ call.client = "docker"
  /\ call.client = "docker" /\ result # "pending" => (reported = "up") <=> (result = "success")

RequestInv ==
  /\ call.client \in {"cloudflare", "docker"} /\ call.limit \in Nat /\ call.base \in Nat \ {0}
  /\ attempts \in Nat /\ effects \in Nat
  /\ EndRight
  /\ call.client = "cloudflare" =>
       (attempts > 1 \/ (attempts = 1 /\ result = "pending") => PauseRight)

LEMMA SmallerOfTwo ==
  ASSUME NEW a \in Int, NEW b \in Int
  PROVE  Min({a, b}) = IF a <= b THEN a ELSE b
<1> DEFINE m == IF a <= b THEN a ELSE b
<1>1. m \in {a, b} /\ \A y \in {a, b} : m <= y
  OBVIOUS
<1>2. \A x \in {a, b} : (\A y \in {a, b} : x <= y) => x = m
  OBVIOUS
<1> QED BY <1>1, <1>2 DEF Min

LEMMA GreaterOfTwo ==
  ASSUME NEW a \in Int, NEW b \in Int
  PROVE  Max({a, b}) = IF a >= b THEN a ELSE b
<1> DEFINE m == IF a >= b THEN a ELSE b
<1>1. m \in {a, b} /\ \A y \in {a, b} : m >= y
  OBVIOUS
<1>2. \A x \in {a, b} : (\A y \in {a, b} : x >= y) => x = m
  OBVIOUS
<1> QED BY <1>1, <1>2 DEF Max

(* The powers up to n exist, by induction: each is twice the one before.   *)
LEMMA PowersExist ==
  ASSUME NEW n \in Nat
  PROVE  \E f : f = [i \in 0 .. n |-> IF i = 0 THEN 1 ELSE 2 * f[i - 1]]
<1> DEFINE Good(k, f) == f = [i \in 0 .. k |-> IF i = 0 THEN 1 ELSE 2 * f[i - 1]]
           S == {k \in 0 .. n : \E f : Good(k, f)}
<1>1. 0 \in S
  <2>1. Good(0, [i \in 0 .. 0 |-> 1])
    OBVIOUS
  <2>2. 0 \in 0 .. n
    OBVIOUS
  <2> HIDE DEF Good
  <2>3. \E f : Good(0, f)
    BY <2>1
  <2> QED BY <2>2, <2>3, Zenon
<1>2. ASSUME NEW k \in 1 .. n, k - 1 \in S PROVE k \in S
  <2>1. PICK f : Good(k - 1, f)
    BY <1>2
  <2> DEFINE h == [i \in 0 .. k |-> IF i = k THEN 2 * f[k - 1] ELSE f[i]]
  <2>2. \A i \in 0 .. (k - 1) : f[i] = IF i = 0 THEN 1 ELSE 2 * f[i - 1]
    BY <2>1
  <2>3. ASSUME NEW i \in 0 .. k PROVE h[i] = IF i = 0 THEN 1 ELSE 2 * h[i - 1]
    <3>1. CASE i = k
      BY <3>1
    <3>2. CASE i # k
      <4>1. i \in 0 .. (k - 1) /\ h[i] = f[i] /\ (i # 0 => h[i - 1] = f[i - 1])
        BY <3>2
      <4> QED BY <2>2, <4>1
    <3> QED BY <3>1, <3>2
  <2>4. Good(k, h)
    <3>1. [i \in 0 .. k |-> h[i]] = [i \in 0 .. k |-> IF i = 0 THEN 1 ELSE 2 * h[i - 1]]
      BY <2>3
    <3> QED BY <3>1
  <2>5. k \in 0 .. n
    OBVIOUS
  <2> HIDE DEF Good, h
  <2>6. \E g : Good(k, g)
    BY <2>4
  <2> QED BY <2>5, <2>6, Zenon
<1> HIDE DEF S
<1>3. n \in S
  BY <1>1, <1>2, IntervalByInduction
<1> QED BY <1>3, Zenon DEF S

LEMMA PowersPositive == ASSUME NEW n \in Nat PROVE TwoTo(n) \in Nat \ {0}
<1> DEFINE power == CHOOSE f : f = [i \in 0 .. n |-> IF i = 0 THEN 1 ELSE 2 * f[i - 1]]
<1>1. power = [i \in 0 .. n |-> IF i = 0 THEN 1 ELSE 2 * power[i - 1]]
  BY PowersExist
<1>2. TwoTo(n) = power[n]
  BY DEF TwoTo
<1> HIDE DEF power
<1> DEFINE S == {i \in 0 .. n : power[i] \in Nat \ {0}}
<1>3. 0 \in S
  BY <1>1
<1>4. ASSUME NEW i \in 1 .. n, i - 1 \in S PROVE i \in S
  <2>1. power[i] = 2 * power[i - 1]
    BY <1>1
  <2> QED BY <1>4, <2>1
<1> HIDE DEF S
<1>5. n \in S
  BY <1>3, <1>4, IntervalByInduction
<1> QED BY <1>2, <1>5 DEF S

LEMMA PauseBounded ==
  ASSUME NEW base \in Nat \ {0}, NEW n \in Nat \ {0}, NEW header \in Headers
  PROVE  LET p == Pause("cloudflare", base, n, header)
         IN  1 <= p /\ (p <= MaxDelay \/ p = base)
<1> DEFINE p == Pause("cloudflare", base, n, header)
<1>1. CASE header.kind = "absent"
  <2>1. base * TwoTo(n - 1) \in Nat \ {0}
    BY PowersPositive
  <2>2. Backoff(base, n) =
          IF MaxDelay <= base * TwoTo(n - 1) THEN MaxDelay ELSE base * TwoTo(n - 1)
    BY <2>1, SmallerOfTwo, RequestConstants DEF Backoff
  <2>3. p = Backoff(base, n)
    BY <1>1 DEF Pause
  <2> QED BY <2>1, <2>2, <2>3, RequestConstants
<1>2. CASE header.kind = "unreadable"
  <2>1. p = base
    BY <1>2 DEF Pause
  <2> QED BY <2>1
<1>3. CASE header.kind = "seconds"
  <2> DEFINE s == header.value
             m == Min({MaxDelay, s})
  <2>1. s \in Int
    BY <1>3, RequestConstants DEF Headers
  <2>2. m = IF MaxDelay <= s THEN MaxDelay ELSE s
    BY <2>1, SmallerOfTwo, RequestConstants
  <2>3. m \in Int /\ m <= MaxDelay
    BY <2>1, <2>2, RequestConstants
  <2>4. p = Max({10, m})
    BY <1>3 DEF Pause
  <2> HIDE DEF m, p
  <2>5. Max({10, m}) = IF 10 >= m THEN 10 ELSE m
    BY <2>3, GreaterOfTwo
  <2>6. 1 <= p /\ p <= MaxDelay
    BY <2>3, <2>4, <2>5, RequestConstants
  <2> QED BY <2>6 DEF p
<1> QED BY <1>1, <1>2, <1>3 DEF Headers

LEMMA RequestStarts == RequestInit => RequestInv
<1> SUFFICES ASSUME RequestInit PROVE RequestInv
  OBVIOUS
<1>1. call.client \in {"cloudflare", "docker"} /\ call.limit \in Nat /\ call.base \in Nat \ {0}
  BY RequestConstants DEF RequestInit
<1>2. /\ attempts = 0 /\ effects = 0 /\ result = "pending"
  BY DEF RequestInit
<1>3. EndRight
  BY <1>2 DEF EndRight
<1> QED BY <1>1, <1>2, <1>3 DEF RequestInv

LEMMA FailKeepsInv ==
  ASSUME RequestInv, NEW how \in Failures, NEW done \in BOOLEAN,
         NEW header \in Headers, Fails(how, done, header)
  PROVE  RequestInv'
<1>1. call' = call /\ attempts' = attempts + 1 /\ cause' = how /\ result = "pending"
  BY DEF Fails
<1>2. effects' \in Nat /\ (effects' = 0 \/ unheard')
  <2>1. CASE done
    <3>1. effects' = effects + 1 /\ unheard' = TRUE
      BY <2>1 DEF Fails
    <3> QED BY <3>1 DEF RequestInv
  <2>2. CASE ~done
    <3>1. effects' = effects /\ (unheard => unheard')
      BY <2>2 DEF Fails
    <3> QED BY <1>1, <3>1 DEF RequestInv, EndRight
  <2> QED BY <2>1, <2>2
<1>3. \/ /\ how \in Retries(call.client) /\ attempts' < call.limit
         /\ result' = "pending" /\ pause' = Pause(call.client, call.base, attempts', header)
      \/ /\ ~(how \in Retries(call.client) /\ attempts' < call.limit)
         /\ result' = "failure" /\ pause' = pause
  BY <1>1 DEF Fails
<1>4. attempts < call.limit /\ attempts' \in Nat \ {0}
  BY <1>1 DEF Fails, RequestInv
<1>5. EndRight'
  <2>1. call.client = "docker" => reported' = "down"
    BY DEF Fails, Report
  <2>2. ASSUME result' = "failure", attempts' # call.limit
        PROVE  \/ how \in {"refused", "unreadable"}
               \/ how = IF call.client = "docker" THEN "busy" ELSE "broken"
    <3>1. attempts' < call.limit
      BY <1>1, <1>4, <2>2 DEF RequestInv
    <3>2. how \notin Retries(call.client)
      BY <1>3, <2>2, <3>1
    <3> QED BY <3>2 DEF Retries, Failures, RequestInv
  <2> QED BY <1>1, <1>2, <1>3, <2>1, <2>2 DEF EndRight
<1>6. call.client = "cloudflare" =>
        (attempts' > 1 \/ (attempts' = 1 /\ result' = "pending") => PauseRight')
  <2> SUFFICES ASSUME call.client = "cloudflare",
                      attempts' > 1 \/ (attempts' = 1 /\ result' = "pending")
               PROVE  PauseRight'
    OBVIOUS
  <2>1. CASE result' = "pending"
    <3>1. pause' = Pause("cloudflare", call.base, attempts', header)
      BY <1>3, <2>1
    <3>2. call.base \in Nat \ {0}
      BY DEF RequestInv
    <3> QED BY <1>1, <1>4, <3>1, <3>2, PauseBounded DEF PauseRight
  <2>2. CASE result' = "failure"
    <3>1. attempts \in Nat /\ attempts >= 1
      BY <1>1, <2>2 DEF RequestInv
    <3> QED BY <1>1, <1>3, <2>2, <3>1 DEF RequestInv, PauseRight
  <2> QED BY <1>3, <2>1, <2>2
<1>7. call'.client \in {"cloudflare", "docker"} /\ call'.limit \in Nat /\ call'.base \in Nat \ {0}
  BY <1>1 DEF RequestInv
<1>8. call'.client = "cloudflare" =>
        (attempts' > 1 \/ (attempts' = 1 /\ result' = "pending") => PauseRight')
  BY <1>1, <1>6
<1> QED BY <1>2, <1>4, <1>5, <1>7, <1>8 DEF RequestInv

LEMMA RequestSteps == RequestInv /\ [RequestNext]_requestVars => RequestInv'
<1> SUFFICES ASSUME RequestInv, [RequestNext]_requestVars PROVE RequestInv'
  OBVIOUS
<1>1. CASE UNCHANGED requestVars
  BY <1>1 DEF requestVars, RequestInv, EndRight, PauseRight
<1>2. CASE Answered
  BY <1>2 DEF Answered, Report, RequestInv, EndRight, PauseRight
<1>3. CASE Unsent
  BY <1>3 DEF Unsent, Report, RequestInv, EndRight, PauseRight
<1>4. ASSUME NEW how \in Failures, NEW done \in BOOLEAN,
             NEW header \in Headers, Fails(how, done, header)
      PROVE  RequestInv'
  BY <1>4, FailKeepsInv
<1> QED BY <1>1, <1>2, <1>3, <1>4 DEF RequestNext

(* What a call reports of itself is true, for any number of attempts, any  *)
(* base delay and any Retry-After, and no pause is longer than the ceiling *)
(* or, after a Retry-After that is no number, than the base delay itself.  *)
THEOREM OutcomeIsTrueHolds == RequestSpec => []OutcomeIsTrue
<1>1. RequestInv => OutcomeIsTrue
  BY DEF RequestInv, EndRight, PauseRight, OutcomeIsTrue
<1> QED BY <1>1, RequestStarts, RequestSteps, PTL DEF RequestSpec
-----------------------------------------------------------------------------
(***************************************************************************)
(* The reading of a zone, for any zone, any page size and any edits.       *)
(***************************************************************************)
ReadSpec == ReadInit /\ [][ReadNext]_readVars

ReadTyped ==
  /\ zone \in Seq(Names) /\ page \in Nat /\ pages \in Nat /\ edits \in Nat
  /\ phase \in {"batch", "seed", "hosts", "seed again", "hosts again", "done", "raised"}
  /\ edits = 0 => touched = {}

Listed(n) == {zone[i] : i \in {j \in DOMAIN zone : j <= n * PageSize}}

(* The pages read so far of a zone that nobody edited. *)
BatchRight ==
  phase = "batch" =>
    /\ asked = {} /\ (page = 0 => pages = 1)
    /\ edits = 0 => got = Listed(page) /\ (page > 0 /\ ~cut => pages = PageCount)

SeedRight == phase \in {"seed", "seed again"} => asked = {}

(* A host that was asked for and is still there was found, unless others   *)
(* created it since.                                                       *)
HostsRight ==
  phase \in {"hosts", "hosts again"} =>
    /\ \A h \in asked \ touched : h \in ToSet(zone) => h \in got
    /\ edits = 0 => /\ got \subseteq ToSet(zone) \cap (ours \cup Wanted)
                    /\ ~cut => Pointing \subseteq got

ReadInv == ReadTyped /\ BatchRight /\ SeedRight /\ HostsRight /\ ReadsSeeEveryService

LEMMA PagesCoverZone ==
  ASSUME NEW n \in Nat
  PROVE  /\ (n + PageSize - 1) \div PageSize \in Nat
         /\ n <= ((n + PageSize - 1) \div PageSize) * PageSize
<1> DEFINE m == n + PageSize - 1
           q == m \div PageSize
<1>1. m \in Nat /\ PageSize \in Nat /\ PageSize > 0
  BY ReadConstants
<1> HIDE DEF m
<1>2. q \in Nat /\ m < (q + 1) * PageSize
  BY <1>1
<1> HIDE DEF q
<1>3. (q + 1) * PageSize = q * PageSize + PageSize
  BY <1>1, <1>2
<1>4. q * PageSize \in Nat
  BY <1>1, <1>2
<1>5. n <= q * PageSize
  BY <1>1, <1>2, <1>3, <1>4 DEF m
<1> QED BY <1>2, <1>5 DEF q, m

LEMMA NextPageListed ==
  ASSUME NEW n \in Nat, zone \in Seq(Names)
  PROVE  Listed(n) \cup Page(n + 1) = Listed(n + 1)
<1>1. PageSize \in Nat /\ ((n + 1) - 1) * PageSize = n * PageSize
  BY ReadConstants
<1>2. (n + 1) * PageSize = n * PageSize + PageSize /\ n * PageSize \in Nat
  BY <1>1
<1>3. DOMAIN zone \subseteq Nat
  OBVIOUS
<1>4. \A j \in DOMAIN zone :
        j <= (n + 1) * PageSize
          <=> j <= n * PageSize
              \/ (((n + 1) - 1) * PageSize < j /\ j <= (n + 1) * PageSize)
  BY <1>1, <1>2, <1>3
<1> QED BY <1>4 DEF Listed, Page

(* Who is removed or appended changes places, nobody else goes or comes.   *)
LEMMA OthersStay ==
  ASSUME zone \in Seq(Names), NEW n \in Names, NEW h, h # n
  PROVE  /\ RemoveFirst(zone, n) \in Seq(Names) /\ Append(zone, n) \in Seq(Names)
         /\ h \in ToSet(RemoveFirst(zone, n)) <=> h \in ToSet(zone)
         /\ h \in ToSet(Append(zone, n)) <=> h \in ToSet(zone)
<1>1. Append(zone, n) \in Seq(Names) /\ (h \in ToSet(Append(zone, n)) <=> h \in ToSet(zone))
  BY DEF ToSet
<1>2. CASE ~\E i \in 1 .. Len(zone) : zone[i] = n
  BY <1>1, <1>2 DEF RemoveFirst
<1>3. CASE \E i \in 1 .. Len(zone) : zone[i] = n
  <2> DEFINE S == {i \in 1 .. Len(zone) : zone[i] = n}
             k == SelectInSeq(zone, LAMBDA v : v = n)
             left == SubSeq(zone, 1, k - 1)
             right == SubSeq(zone, k + 1, Len(zone))
  <2>1. S \in SUBSET Nat /\ S # {}
    BY <1>3
  <2>2. k \in 1 .. Len(zone) /\ zone[k] = n
    BY <2>1, MinIsLeast DEF SelectInSeq
  <2>3. RemoveFirst(zone, n) = left \o right
    BY <1>3 DEF RemoveFirst, RemoveAt
  <2> HIDE DEF k
  <2>4. /\ left \in Seq(Names) /\ Len(left) = k - 1
        /\ \A i \in 1 .. (k - 1) : left[i] = zone[i]
    BY <2>2
  <2>5. /\ right \in Seq(Names) /\ Len(right) = Len(zone) - k
        /\ \A i \in 1 .. (Len(zone) - k) : right[i] = zone[i + k]
    BY <2>2
  <2> DEFINE all == left \o right
  <2> HIDE DEF left, right
  <2>6. /\ all \in Seq(Names) /\ Len(all) = Len(zone) - 1
        /\ \A i \in 1 .. (Len(zone) - 1) : all[i] = IF i < k THEN zone[i] ELSE zone[i + 1]
    <3>1. Len(zone) \in Nat /\ k \in Nat
      BY <2>2
    <3>2. all \in Seq(Names) /\ Len(all) = Len(left) + Len(right)
      BY <2>4, <2>5
    <3>3. Len(all) = Len(zone) - 1
      BY <2>4, <2>5, <3>1, <3>2
    <3>4. ASSUME NEW i \in 1 .. (Len(zone) - 1), i < k PROVE all[i] = zone[i]
      <4>1. i \in 1 .. (k - 1)
        BY <3>1, <3>4
      <4>2. all[i] = left[i]
        BY <2>4, <2>5, <4>1
      <4> QED BY <2>4, <4>1, <4>2
    <3>5. ASSUME NEW i \in 1 .. (Len(zone) - 1), ~(i < k) PROVE all[i] = zone[i + 1]
      <4>1. i \in Nat /\ i - (k - 1) \in 1 .. (Len(zone) - k) /\ (i - (k - 1)) + k = i + 1
        BY <3>1, <3>5
      <4>2. all[i] = right[i - Len(left)]
        <5>1. i \in 1 .. (Len(left) + Len(right)) /\ i > Len(left)
          BY <2>4, <2>5, <3>1, <3>5, <4>1
        <5> QED BY <2>4, <2>5, <5>1 DEF all
      <4>3. right[i - (k - 1)] = zone[(i - (k - 1)) + k]
        BY <2>5, <4>1
      <4> QED BY <2>4, <4>1, <4>2, <4>3
    <3> QED BY <3>2, <3>3, <3>4, <3>5
  <2> HIDE DEF all
  <2>7. ASSUME NEW i \in 1 .. Len(zone), zone[i] = h
        PROVE  \E j \in 1 .. Len(all) : all[j] = h
    <3>1. i # k
      BY <2>2, <2>7
    <3>2. CASE i < k
      BY <2>2, <2>6, <2>7, <3>2
    <3>3. CASE i > k
      <4>1. i - 1 \in 1 .. (Len(zone) - 1) /\ ~(i - 1 < k) /\ (i - 1) + 1 = i
        BY <2>2, <3>3
      <4> QED BY <2>6, <2>7, <4>1
    <3> QED BY <2>2, <3>1, <3>2, <3>3
  <2>8. ASSUME NEW j \in 1 .. Len(all), all[j] = h
        PROVE  \E i \in 1 .. Len(zone) : zone[i] = h
    <3>1. j \in 1 .. Len(zone) /\ j + 1 \in 1 .. Len(zone)
      BY <2>6
    <3> QED BY <2>6, <2>8, <3>1
  <2>9. h \in ToSet(all) <=> h \in ToSet(zone)
    BY <2>6, <2>7, <2>8 DEF ToSet
  <2>10. RemoveFirst(zone, n) = all
    BY <2>3 DEF all
  <2> QED BY <1>1, <2>6, <2>9, <2>10
<1> QED BY <1>2, <1>3

LEMMA EditKeepsRead == ASSUME ReadInv, Edited PROVE ReadInv'
<1>1. PICK n \in Names :
        /\ touched' = touched \cup {n}
        /\ zone' = IF n \in ToSet(zone) THEN RemoveFirst(zone, n) ELSE Append(zone, n)
  BY DEF Edited
<1>2. zone \in Seq(Names) /\ edits' \in Nat /\ edits' # 0
  <2>1. zone \in Seq(Names) /\ edits \in Nat
    BY DEF ReadInv, ReadTyped
  <2>2. edits' = edits + 1
    BY DEF Edited
  <2> QED BY <2>1, <2>2
<1>3. zone' \in Seq(Names) /\ \A h : h # n => (h \in ToSet(zone') <=> h \in ToSet(zone))
  BY <1>1, <1>2, OthersStay
<1>4. \A h : h \notin touched' => h \notin touched /\ (h \in ToSet(zone') <=> h \in ToSet(zone))
  BY <1>1, <1>3
<1>5. ReadTyped'
  BY <1>2, <1>3 DEF Edited, ReadInv, ReadTyped
<1>6. BatchRight' /\ SeedRight'
  BY <1>2 DEF Edited, ReadInv, BatchRight, SeedRight
<1>7. HostsRight'
  BY <1>2, <1>4 DEF Edited, ReadInv, HostsRight
<1>8. ReadsSeeEveryService'
  BY <1>2 DEF Edited, ReadsSeeEveryService
<1> QED BY <1>5, <1>6, <1>7, <1>8 DEF ReadInv

(* The listing of an unedited zone is complete when the pages end.         *)
LEMMA ListingComplete ==
  ASSUME ReadInv, phase = "batch", page >= pages, edits = 0
  PROVE  got \subseteq ToSet(zone) /\ (~cut => got = ToSet(zone))
<1>1. zone \in Seq(Names) /\ page \in Nat /\ pages \in Nat
  BY DEF ReadInv, ReadTyped
<1>2. got = Listed(page) /\ page > 0 /\ (~cut => pages = PageCount)
  BY <1>1 DEF ReadInv, BatchRight
<1>3. ASSUME ~cut PROVE \A j \in DOMAIN zone : j <= page * PageSize
  <2>1. Len(zone) \in Nat /\ DOMAIN zone = 1 .. Len(zone)
    BY <1>1
  <2>2. PageCount \in Nat /\ Len(zone) <= PageCount * PageSize
    BY <2>1, PagesCoverZone DEF PageCount
  <2>3. page >= PageCount /\ PageSize \in Nat
    BY <1>2, <1>3, ReadConstants
  <2>4. PageCount * PageSize <= page * PageSize /\ PageCount * PageSize \in Nat
        /\ page * PageSize \in Nat
    BY <1>1, <2>2, <2>3
  <2> QED BY <2>1, <2>2, <2>4
<1> QED BY <1>2, <1>3 DEF Listed, ToSet

LEMMA ReadStarts == ReadInit => ReadInv
<1> SUFFICES ASSUME ReadInit PROVE ReadInv
  OBVIOUS
<1>1. zone \in Seq(Names)
  <2>1. PICK m \in 0 .. 3 : zone \in [1 .. m -> Names]
    BY DEF ReadInit, Zones, BoundedSeq, SeqOf
  <2> QED BY <2>1
<1>2. Listed(0) = {}
  <2>1. \A j \in DOMAIN zone : ~(j <= 0 * PageSize)
    BY <1>1, ReadConstants
  <2> QED BY <2>1 DEF Listed
<1> QED BY <1>1, <1>2
        DEF ReadInit, ReadInv, ReadTyped, BatchRight, SeedRight, HostsRight, ReadsSeeEveryService

LEMMA ReadSteps == ReadInv /\ [ReadNext]_readVars => ReadInv'
<1> SUFFICES ASSUME ReadInv, [ReadNext]_readVars PROVE ReadInv'
  OBVIOUS
<1> USE DEF ReadTyped, BatchRight, SeedRight, HostsRight, ReadsSeeEveryService
<1>1. CASE UNCHANGED readVars
  BY <1>1 DEF ReadInv, readVars, Listed, PageCount, Pointing
<1>2. CASE Edited
  BY <1>2, EditKeepsRead
<1>3. CASE ReadPage
  <2>1. Listed(page) \cup Page(page + 1) = Listed(page + 1)
    BY NextPageListed DEF ReadInv
  <2>2. PageCount \in Nat
    <3>1. zone \in Seq(Names)
      BY DEF ReadInv
    <3>2. Len(zone) \in Nat
      BY <3>1
    <3> QED BY <3>2, PagesCoverZone DEF PageCount
  <2>3. Listed(page)' = Listed(page + 1) /\ PageCount' = PageCount
    BY <1>3 DEF ReadPage, Listed, PageCount
  <2> QED BY <1>3, <2>1, <2>2, <2>3 DEF ReadPage, ReadInv
<1>4. CASE PageIsNoList
  BY <1>4 DEF PageIsNoList, ReadInv, Listed
<1>5. CASE BatchEnds
  <2>1. edits = 0 => got \subseteq ToSet(zone) /\ (~cut => got = ToSet(zone))
    BY <1>5, ListingComplete DEF BatchEnds
  <2> QED BY <1>5, <2>1 DEF BatchEnds, ReadInv, Pointing
<1>6. CASE Seed
  BY <1>6 DEF Seed, ReadInv, Pointing
<1>7. CASE HostsEnd
  <2>1. phase = "hosts" /\ Wanted \subseteq got \cup asked /\ phase' = "done"
        /\ UNCHANGED <<zone, ours, page, pages, got, asked, edits, touched, cut>>
    BY <1>7 DEF HostsEnd
  <2>2. HostsRight
    BY DEF ReadInv
  <2>3. (Wanted \cap ToSet(zone)) \ touched \subseteq got
    BY <2>1, <2>2
  <2>4. ASSUME edits = 0, ~cut PROVE got = ToSet(zone) \cap (ours \cup Wanted)
    <3>1. touched = {}
      BY <2>4 DEF ReadInv, ReadTyped
    <3> QED BY <2>1, <2>2, <2>3, <2>4, <3>1 DEF Pointing
  <2>5. ReadsSeeEveryService'
    BY <2>1, <2>3, <2>4
  <2>6. ReadTyped' /\ BatchRight' /\ SeedRight' /\ HostsRight'
    BY <2>1 DEF ReadInv
  <2> QED BY <2>5, <2>6 DEF ReadInv
<1>8. CASE BatchRaises
  BY <1>8 DEF BatchRaises, ReadInv
<1>9. CASE SeedAgain
  BY <1>9 DEF SeedAgain, ReadInv, Pointing
<1>10. CASE AgainRaises
  BY <1>10 DEF AgainRaises, ReadInv
<1>11. ASSUME NEW h \in Wanted, AskFor(h) PROVE ReadInv'
  BY <1>11 DEF AskFor, ReadInv, Pointing
<1>12. ASSUME NEW h \in Wanted, AskAgain(h) PROVE ReadInv'
  <2>1. /\ phase = "hosts again" /\ got' = got \cup ({h} \cap ToSet(zone))
        /\ asked' = asked \cup {h} /\ phase' = IF asked' = Wanted THEN "done" ELSE phase
        /\ UNCHANGED <<zone, ours, page, pages, edits, touched, cut>>
    BY <1>12 DEF AskAgain
  <2>2. HostsRight /\ ReadTyped
    BY DEF ReadInv
  <2>3. \A g \in asked' \ touched' : g \in ToSet(zone') => g \in got'
    BY <2>1, <2>2
  <2>4. edits = 0 => /\ got' \subseteq ToSet(zone) \cap (ours \cup Wanted)
                     /\ ~cut => Pointing \subseteq got'
    BY <2>1, <2>2
  <2>5. Pointing' = Pointing
    BY <2>1 DEF Pointing
  <2>6. ReadTyped' /\ BatchRight' /\ SeedRight' /\ HostsRight'
    BY <2>1, <2>2, <2>3, <2>4, <2>5
  <2>7. ReadsSeeEveryService'
    <3> SUFFICES ASSUME phase' = "done" PROVE ReadsSeeEveryService'
      OBVIOUS
    <3>1. asked' = Wanted
      BY <2>1
    <3>2. (Wanted \cap ToSet(zone')) \ touched' \subseteq got'
      BY <2>3, <3>1
    <3>3. ASSUME edits' = 0, ~cut' PROVE got' = ToSet(zone') \cap (ours' \cup Wanted)
      <4>1. touched' = {}
        BY <2>1, <3>3 DEF ReadInv
      <4> QED BY <2>1, <2>4, <3>2, <3>3, <4>1 DEF Pointing
    <3> QED BY <3>2, <3>3
  <2> QED BY <2>6, <2>7 DEF ReadInv
<1> QED BY <1>1, <1>2, <1>3, <1>4, <1>5, <1>6, <1>7, <1>8, <1>9, <1>10, <1>11, <1>12 DEF ReadNext

(* A read that ends has seen every service whose record nobody touched,    *)
(* and an unedited read is what one atomic read would have returned, for   *)
(* any number of names, pages and edits.                                   *)
THEOREM ReadsSeeEveryServiceHolds == ReadSpec => []ReadsSeeEveryService
<1>1. ReadInv => ReadsSeeEveryService
  BY DEF ReadInv
<1> QED BY <1>1, ReadStarts, ReadSteps, PTL DEF ReadSpec
-----------------------------------------------------------------------------
(***************************************************************************)
(* Alerts.  The dispatcher decides by its own clock, `sent`; the property  *)
(* speaks of the receiver's, `received`.  Within a cooldown of a mark the  *)
(* receiver got an alert no earlier than the mark, unless a redirect was   *)
(* marked, and, unless the kind is doubtful, no later.                     *)
(***************************************************************************)
Ages == 0 .. Cooldown

AlertTypes ==
  /\ sent \in [Kinds -> Ages] /\ received \in [Kinds -> Ages]
  /\ doubtful \subseteq Kinds /\ diverted \subseteq Kinds /\ owing \subseteq Kinds
  /\ last.kind \in Kinds \cup {NoKind}
  /\ last.how \notin {"none", "silent"} => last.kind \in Kinds

Marked(k) == sent[k] < Cooldown /\ k \notin diverted => received[k] <= sent[k]

Unmarked(k) == received[k] < Cooldown /\ k \notin doubtful => sent[k] <= received[k]

(* What was dispatched in vain is not marked. *)
OwingUnmarked(k) == k \in owing => sent[k] = Cooldown

AlertInv == AlertTypes /\ \A k \in Kinds : Marked(k) /\ Unmarked(k) /\ OwingUnmarked(k)

AlertSpec == AlertInit /\ [][AlertNext]_alertVars

LEMMA AlertStarts == AlertInit => AlertInv
BY AlertConstants
   DEF AlertInit, AlertInv, AlertTypes, Ages, Marked, Unmarked, OwingUnmarked, Expired, Quiet

LEMMA LaterInAges == ASSUME NEW age \in Ages PROVE Later(age) \in Ages
BY AlertConstants DEF Ages, Later

LEMMA AlertTyped == ASSUME AlertTypes, AlertNext PROVE AlertTypes'
<1>1. CASE CycleSucceeds
  BY <1>1 DEF CycleSucceeds, AlertTypes, Quiet
<1>2. ASSUME NEW k \in Kinds, CycleFails(k) PROVE AlertTypes'
  <2>1. 0 \in Ages
    BY AlertConstants DEF Ages
  <2>2. CASE Throttled(k)
    BY <2>2 DEF Throttled, AlertTypes
  <2>3. CASE Delivered(k)
    BY <2>1, <2>3 DEF Delivered, AlertTypes
  <2>4. ASSUME NEW arrived \in BOOLEAN, Undelivered(k, arrived) PROVE AlertTypes'
    BY <2>1, <2>4 DEF Undelivered, AlertTypes
  <2>5. CASE Redirected(k)
    BY <2>1, <2>5 DEF Redirected, AlertTypes
  <2> QED BY <1>2, <2>2, <2>3, <2>4, <2>5 DEF CycleFails
<1>3. CASE TimePasses
  BY <1>3, LaterInAges DEF TimePasses, AlertTypes, Quiet
<1>4. CASE Restarted
  BY <1>4, AlertConstants DEF Restarted, AlertTypes, Expired, Quiet, Ages
<1>5. CASE FailsSilently
  BY <1>5 DEF FailsSilently, AlertTypes
<1> QED BY <1>1, <1>2, <1>3, <1>4, <1>5 DEF AlertNext

LEMMA AlertSteps == AlertInv /\ [AlertNext]_alertVars => AlertInv'
<1> SUFFICES ASSUME AlertInv, [AlertNext]_alertVars PROVE AlertInv'
  OBVIOUS
<1>1. CASE UNCHANGED alertVars
  BY <1>1 DEF AlertInv, AlertTypes, Marked, Unmarked, OwingUnmarked, alertVars
<1>2. CASE AlertNext
  <2>1. AlertTypes'
    BY <1>2, AlertTyped DEF AlertInv
  <2>2. CASE CycleSucceeds
    BY <2>1, <2>2 DEF CycleSucceeds, AlertInv, Marked, Unmarked, OwingUnmarked, Quiet
  <2>3. ASSUME NEW k \in Kinds, CycleFails(k) PROVE AlertInv'
    <3>1. CASE Throttled(k)
      BY <2>1, <3>1 DEF Throttled, AlertInv, Marked, Unmarked, OwingUnmarked
    <3>2. CASE Delivered(k)
      BY <2>1, <3>2, AlertConstants
         DEF Delivered, AlertInv, AlertTypes, Ages, Marked, Unmarked, OwingUnmarked
    <3>3. ASSUME NEW arrived \in BOOLEAN, Undelivered(k, arrived) PROVE AlertInv'
      BY <2>1, <3>3, AlertConstants
         DEF Undelivered, should_throttle, AlertInv, AlertTypes, Ages, Marked, Unmarked, OwingUnmarked
    <3>4. CASE Redirected(k)
      BY <2>1, <3>4, AlertConstants
         DEF Redirected, AlertInv, AlertTypes, Ages, Marked, Unmarked, OwingUnmarked
    <3> QED BY <2>3, <3>1, <3>2, <3>3, <3>4 DEF CycleFails
  <2>4. CASE TimePasses
    <3>1. ASSUME NEW k \in Kinds PROVE Marked(k)' /\ Unmarked(k)' /\ OwingUnmarked(k)'
      BY <2>4, <3>1, AlertConstants
         DEF TimePasses, Later, AlertInv, AlertTypes, Ages, Marked, Unmarked, OwingUnmarked
    <3> QED BY <2>1, <3>1 DEF AlertInv
  <2>5. CASE Restarted
    BY <2>1, <2>5, AlertConstants
       DEF Restarted, Expired, Quiet, AlertInv, AlertTypes, Ages, Marked, Unmarked, OwingUnmarked
  <2>6. CASE FailsSilently
    BY <2>1, <2>6 DEF FailsSilently, AlertInv, Marked, Unmarked, OwingUnmarked
  <2> QED BY <1>2, <2>2, <2>3, <2>4, <2>5, <2>6 DEF AlertNext
<1> QED BY <1>1, <1>2

(* The receiver misses no cycle that dispatches an alert for longer than a *)
(* cooldown, except behind a redirect; what was dispatched in vain is      *)
(* dispatched again by the next such cycle; and no alert comes twice       *)
(* within a cooldown unless an answer was lost or the process restarted.   *)
THEOREM AlertsKeptHolds == AlertSpec => AlertsKept
<1> DEFINE Heard == last'.how \in {"throttled", "delivered"} =>
                      received'[last'.kind] < Cooldown \/ last'.kind \in diverted'
           Retried == last'.how = "throttled" => last'.kind \notin owing
           Spared == \A k \in Kinds :
                       received'[k] < received[k] => received[k] = Cooldown \/ k \in doubtful
<1>1. ASSUME AlertInv, AlertNext PROVE Heard /\ Retried /\ Spared
  <2>1. CASE CycleSucceeds
    BY <1>1, <2>1 DEF CycleSucceeds, Quiet, AlertInv, AlertTypes, Ages
  <2>2. ASSUME NEW k \in Kinds, CycleFails(k) PROVE Heard /\ Retried /\ Spared
    <3>1. CASE Throttled(k)
      BY <1>1, <3>1, AlertConstants
         DEF Throttled, should_throttle, AlertInv, AlertTypes, Ages, Marked, OwingUnmarked
    <3>2. CASE Delivered(k)
      BY <1>1, <3>2, AlertConstants
         DEF Delivered, should_throttle, AlertInv, AlertTypes, Ages, Unmarked
    <3>3. ASSUME NEW arrived \in BOOLEAN, Undelivered(k, arrived) PROVE Heard /\ Retried /\ Spared
      BY <1>1, <3>3, AlertConstants
         DEF Undelivered, should_throttle, AlertInv, AlertTypes, Ages, Unmarked
    <3>4. CASE Redirected(k)
      BY <1>1, <3>4, AlertConstants DEF Redirected, AlertInv, AlertTypes, Ages
    <3> QED BY <2>2, <3>1, <3>2, <3>3, <3>4 DEF CycleFails
  <2>3. CASE TimePasses
    BY <1>1, <2>3, AlertConstants DEF TimePasses, Later, Quiet, AlertInv, AlertTypes, Ages
  <2>4. CASE Restarted
    BY <1>1, <2>4 DEF Restarted, Quiet, AlertInv, AlertTypes, Ages
  <2>5. CASE FailsSilently
    BY <1>1, <2>5 DEF FailsSilently, AlertInv, AlertTypes, Ages
  <2> QED BY <1>1, <2>1, <2>2, <2>3, <2>4, <2>5 DEF AlertNext
<1> QED BY <1>1, AlertStarts, AlertSteps, PTL DEF AlertSpec, AlertsKept
=============================================================================
