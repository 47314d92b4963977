----------------------------- MODULE SyncCycle -----------------------------
(***************************************************************************)
(* SyncService.run_once (application/sync.py): one cycle reads the Docker  *)
(* inventory, provisions the tunnel, activates the connector, reads the    *)
(* remote state, plans (Planner), updates the tombstones, and executes the *)
(* plan write by write (application/executor.py).  Cycles repeat for ever  *)
(* under run_lock, so there is one at a time.                              *)
(*                                                                         *)
(* Around it: containers come and go, an operator edits the tunnel and the *)
(* zone, Docker and Cloudflare fail, a write is applied although its reply *)
(* is lost, the process crashes and restarts, and time passes.             *)
(*                                                                         *)
(* A timestamp appears only in `now - timestamp`, compared with the grace  *)
(* period, so a tombstone is modelled by its age.  Ages saturate at MaxAge,*)
(* which no grace period exceeds.                                          *)
(***************************************************************************)
EXTENDS Planner

CONSTANTS
  Configs,         \* the settings snapshots a process may run with
  MaxAge,          \* where ages saturate
  DropGrace,       \* grace period after a sudden drop (300 s)
  Faults,          \* which kinds of fault the environment may inject
  EditRecords,     \* records an operator may put in the zone
  EditRoutes,      \* root routes an operator may put in the tunnel
  RestartAllowed,  \* FALSE: the Docker proxy refuses the connector restart
  NoPlan           \* no plan is being executed

FaultKinds == {"docker", "read", "token", "restart", "ingress", "dns", "lost",
               "persist", "crash", "edit"}

ASSUME ConfigAssumption ==
  /\ MaxAge \in Nat /\ DropGrace \in Nat /\ DropGrace <= MaxAge
  /\ Configs \subseteq Settings
  /\ \A s \in Configs : s.grace <= MaxAge
  /\ IsFiniteSet(Hosts)

ASSUME EnvironmentAssumption ==
  /\ Faults \subseteq FaultKinds
  /\ EditRecords \subseteq Record /\ EditRoutes \subseteq Routes
  /\ RestartAllowed \in BOOLEAN

VARIABLES
  \* The world.
  running,     \* the route each running container asks for
  tunnel,      \* the tunnel exists in Cloudflare
  roots,       \* its root ingress routes
  merged,      \* its ordered table is in the form merge_ingress produces
  dns,         \* the zone's records
  calm,        \* the environment has stopped changing and failing
  \* The process's memory.
  settings,    \* the settings snapshot
  pc,          \* where the cycle stands
  discovered,  \* state["discovered_services"]
  dropped,     \* this cycle saw a sudden drop
  dockerOk,    \* state["docker_connected"]
  tomb,        \* state["tombstones"], as ages
  plan,        \* the plan under execution
  todo,        \* hosts whose DNS change is still to be attempted
  failed,      \* resources with a failed write in this cycle
  status,      \* state["status"]
  pending,     \* the executor's pending connector restart
  \* Files on the shared volume.
  fresh,       \* the token file holds the tunnel's current token
  saved,       \* the tombstone file, None when absent or unreadable
  \* History, for the properties only.
  unseen,      \* age of the last plan that saw the host's container
  edited       \* hosts an operator edited since the remote state was read

world    == <<running, tunnel, roots, merged, dns, calm>>
files    == <<fresh, saved>>
history  == <<unseen, edited>>
remote   == <<tunnel, roots, merged, dns>>
cycle    == <<discovered, dropped, dockerOk, plan, todo, failed>>
vars     == <<running, tunnel, roots, merged, dns, calm, settings, pc, discovered, dropped,
              dockerOk, tomb, plan, todo, failed, status, pending, fresh, saved, unseen, edited>>

Ages == [Hosts -> 0 .. MaxAge \cup {None}]

NoTombstones == [h \in Hosts |-> None]

NoServices == [h \in Hosts |-> None]

Services(inv) == {h \in Hosts : inv[h] # None}

Points == {"idle", "resolve", "activate", "plan", "persist", "execute", "dns"}

Statuses == {"initializing", "syncing", "waiting", "docker_degraded", "error", "dry_run",
             "safety_guard_tripped", "degraded", "synced"}

PlanType ==
  [roots : [Hosts -> Routes \cup {None}], dns : [Hosts -> DnsActions],
   set : SUBSET Hosts, clear : SUBSET Hosts, put : BOOLEAN,
   deletions : [ingress : SUBSET Hosts, dns : SUBSET Hosts], total : Nat]

TypeOK ==
  /\ running \in [Hosts -> Routes \cup {None}]
  /\ tunnel \in BOOLEAN /\ merged \in BOOLEAN /\ calm \in BOOLEAN
  /\ roots \in [Hosts -> Routes \cup {None}]
  /\ dns \in [Hosts -> Record \cup {None}]
  /\ settings \in Configs
  /\ pc \in Points
  /\ discovered \in [Hosts -> Routes \cup {None}]
  /\ dropped \in BOOLEAN /\ dockerOk \in BOOLEAN
  /\ tomb \in Ages
  /\ plan \in PlanType \cup {NoPlan}
  /\ pc \in {"persist", "execute", "dns"} => plan \in PlanType
  /\ todo \subseteq Hosts
  /\ failed \subseteq {"ingress", "dns"}
  /\ status \in Statuses
  /\ pending \in BOOLEAN /\ fresh \in BOOLEAN
  /\ saved \in Ages \cup {None}
  /\ unseen \in [Hosts -> 0 .. MaxAge]
  /\ edited \subseteq Hosts

(* A fresh process on a tunnel that may exist already; nothing was ever    *)
(* seen, the zone holds nothing of this tunnel.                            *)
Init ==
  /\ settings \in Configs
  /\ running = NoServices
  /\ tunnel \in BOOLEAN
  /\ roots = NoServices /\ merged = FALSE
  /\ dns = [h \in Hosts |-> None]
  /\ calm = FALSE
  /\ pc = "idle"
  /\ discovered = NoServices /\ dropped = FALSE /\ dockerOk = TRUE
  /\ tomb = NoTombstones
  /\ plan = NoPlan /\ todo = {} /\ failed = {}
  /\ status = "initializing"
  /\ pending = FALSE
  /\ fresh \in BOOLEAN /\ (fresh => tunnel)
  /\ saved = None
  /\ unseen = [h \in Hosts |-> MaxAge]
  /\ edited = {}

Fault(kind) == kind \in Faults /\ ~calm

(* The cycle ends early: an exception or an early return. *)
EndWith(s) ==
  /\ pc' = "idle" /\ status' = s
  /\ dropped' = FALSE /\ plan' = NoPlan /\ todo' = {} /\ failed' = {}
-----------------------------------------------------------------------------
(***************************************************************************)
(* Reading the inventory.                                                  *)
(***************************************************************************)

(* No API token or no domain in the settings. *)
Unconfigured ==
  /\ pc = "idle" /\ ~settings.configured
  /\ EndWith("waiting")
  /\ UNCHANGED <<world, settings, discovered, dockerOk, tomb, pending, files, history>>

(* The inventory is AVAILABLE.  The previous list is replaced before any   *)
(* Cloudflare read, and with it goes the evidence of a sudden drop.        *)
Discover ==
  /\ pc = "idle" /\ settings.configured
  /\ discovered' = running
  /\ dropped' = (Cardinality(Services(discovered)) >= 2 /\ Services(running) = {})
  /\ dockerOk' = TRUE
  /\ pc' = "resolve" /\ status' = "syncing"
  /\ UNCHANGED <<world, settings, tomb, plan, todo, failed, pending, files, history>>

(* Discovery raises, or reports a degraded or unavailable inventory. *)
DiscoverFails ==
  /\ pc = "idle" /\ settings.configured /\ Fault("docker")
  /\ dockerOk' = FALSE
  /\ EndWith("docker_degraded")
  /\ UNCHANGED <<world, settings, discovered, tomb, pending, files, history>>
-----------------------------------------------------------------------------
(***************************************************************************)
(* Zone, account and tunnel; connector activation.                         *)
(***************************************************************************)

(* The tunnel is found, or created with a POST. *)
Resolve ==
  /\ pc = "resolve"
  /\ tunnel \/ ~settings.dryRun
  /\ tunnel' = TRUE
  /\ pc' = IF settings.dryRun THEN "plan" ELSE "activate"
  /\ UNCHANGED <<running, roots, merged, dns, calm, settings, cycle, tomb, status, pending,
                 files, history>>

(* A dry run creates nothing. *)
ResolveDryRun ==
  /\ pc = "resolve" /\ ~tunnel /\ settings.dryRun
  /\ EndWith("dry_run")
  /\ UNCHANGED <<world, settings, discovered, dockerOk, tomb, pending, files, history>>

(* The reply to the POST that creates the tunnel is lost. *)
ProvisionLost ==
  /\ pc = "resolve" /\ ~tunnel /\ ~settings.dryRun /\ Fault("lost")
  /\ tunnel' = TRUE
  /\ EndWith("error")
  /\ UNCHANGED <<running, roots, merged, dns, calm, settings, discovered, dockerOk,
                 tomb, pending, files, history>>

(* A Cloudflare read raises or finds no zone, account or token: the cycle  *)
(* stops where it is.                                                      *)
ReadFails ==
  /\ pc \in {"resolve", "activate", "plan"} /\ Fault("read")
  /\ EndWith("error")
  /\ UNCHANGED <<world, settings, discovered, dockerOk, tomb, pending, files, history>>

(* The token file is current and no restart is owed. *)
ActivateUnchanged ==
  /\ pc = "activate" /\ fresh /\ ~pending
  /\ pc' = "plan"
  /\ UNCHANGED <<world, settings, cycle, tomb, status, pending, files, history>>

(* The token is written if it differs and the connector is restarted; the  *)
(* Docker request reports the connection as up.                            *)
ActivateRestarts ==
  /\ pc = "activate"
  /\ ~fresh \/ pending
  /\ RestartAllowed
  /\ fresh' = TRUE /\ pending' = FALSE /\ dockerOk' = TRUE
  /\ pc' = "plan"
  /\ UNCHANGED <<world, settings, discovered, dropped, plan, todo, failed, tomb, status,
                 saved, history>>

(* The restart request fails.  The executor swallows the error and owes a  *)
(* restart, but the Docker client has reported the connection as down.     *)
ActivateFails ==
  /\ pc = "activate"
  /\ ~fresh \/ pending
  /\ ~RestartAllowed \/ Fault("restart")
  /\ fresh' = TRUE /\ pending' = TRUE /\ dockerOk' = FALSE
  /\ pc' = "plan"
  /\ UNCHANGED <<world, settings, discovered, dropped, plan, todo, failed, tomb, status,
                 saved, history>>

(* The token file cannot be written: no restart is attempted. *)
TokenWriteFails ==
  /\ pc = "activate" /\ ~fresh /\ Fault("token")
  /\ pc' = "plan"
  /\ UNCHANGED <<world, settings, cycle, tomb, status, pending, files, history>>
-----------------------------------------------------------------------------
(***************************************************************************)
(* Planning and the tombstones.                                            *)
(***************************************************************************)

(* SAFE-02: a sudden drop overrides immediate cleanup and a short grace.   *)
Effective ==
  IF dropped
    THEN [settings EXCEPT !.immediate = FALSE,
                          !.grace = IF @ > DropGrace THEN @ ELSE DropGrace]
    ELSE settings

(* tombstones.update(load): what was saved wins over what is in memory.    *)
Loaded ==
  IF settings.persist /\ saved # None
    THEN [h \in Hosts |-> IF saved[h] # None THEN saved[h] ELSE tomb[h]]
    ELSE tomb

(* A bug: the connection is the one discovery found, not the current one. *)
SnapshotAssumesDocker ==
  [dockerOk |-> TRUE, origins |-> discovered, roots |-> roots, merged |-> merged,
   dns |-> FetchDns(dns, Services(discovered)), tomb |-> Loaded]

Snapshot ==
  [dockerOk |-> dockerOk, origins |-> discovered, roots |-> roots, merged |-> merged,
   dns |-> FetchDns(dns, Services(discovered)), tomb |-> Loaded]

(* Bugs: a recovered host keeps its tombstone until an execution succeeds; *)
(* expired tombstones go before the execution; none is ever set.           *)
TombstonesKept(p) ==
  [h \in Hosts |-> IF h \in p.set /\ Loaded[h] = None THEN 0 ELSE Loaded[h]]

TombstonesClearedEarly(p) ==
  [h \in Hosts |-> IF h \in p.clear THEN None
                   ELSE IF h \in p.set /\ Loaded[h] = None THEN 0 ELSE Loaded[h]]

TombstonesNeverSet(p) ==
  [h \in Hosts |-> IF h \in p.clear /\ discovered[h] # None THEN None ELSE Loaded[h]]

(* Memory after the planned lifecycle: recovered hosts lose their          *)
(* tombstone at once, expired ones only after a successful execution.      *)
Tombstones(p) ==
  [h \in Hosts |->
     IF h \in p.clear /\ discovered[h] # None THEN None
     ELSE IF h \in p.set /\ Loaded[h] = None THEN 0
     ELSE Loaded[h]]

(* The remote state is read and the plan computed.  The ingress table and  *)
(* the zone are separate reads of separate objects: editing one between    *)
(* them is as if it was edited before or after both.                       *)
MakePlan ==
  /\ pc = "plan"
  /\ LET p == ComputePlan(Effective, Snapshot) IN
       /\ plan' = p
       /\ tomb' = Tombstones(p)
  /\ unseen' = [h \in Hosts |-> IF dockerOk /\ discovered[h] # None THEN 0 ELSE unseen[h]]
  /\ edited' = {}
  /\ pc' = IF settings.persist THEN "persist" ELSE "execute"
  /\ UNCHANGED <<world, settings, discovered, dropped, dockerOk, todo, failed, status,
                 pending, files>>

Persist ==
  /\ pc = "persist"
  /\ saved' = tomb
  /\ pc' = "execute"
  /\ UNCHANGED <<world, settings, cycle, tomb, status, pending, fresh, history>>

(* The file cannot be opened, or the write stops half way. *)
PersistFails ==
  /\ pc = "persist" /\ Fault("persist")
  /\ saved' \in {saved, None}
  /\ pc' = "execute"
  /\ UNCHANGED <<world, settings, cycle, tomb, status, pending, fresh, history>>
-----------------------------------------------------------------------------
(***************************************************************************)
(* Execution: one ingress PUT, then the DNS writes, each attempt on its    *)
(* own.  A write may be rejected, or applied while its reply is lost; both *)
(* count as failed, and the remaining writes are still attempted.          *)
(***************************************************************************)
DryRunEnds ==
  /\ pc = "execute" /\ settings.dryRun
  /\ EndWith("dry_run")
  /\ UNCHANGED <<world, settings, discovered, dockerOk, tomb, pending, files, history>>

Blocked ==
  /\ pc = "execute" /\ ~settings.dryRun /\ ExceedsBlastRadius(settings, plan)
  /\ EndWith("safety_guard_tripped")
  /\ UNCHANGED <<world, settings, discovered, dockerOk, tomb, pending, files, history>>

DnsMutations(p) == {h \in Hosts : p.dns[h] \in {"create", "update", "delete"}}

(* A bug: the failure is recorded against another resource. *)
PutIngressMislabels(applied, reported) ==
  /\ pc = "execute" /\ ~settings.dryRun /\ ~ExceedsBlastRadius(settings, plan)
  /\ roots' = IF applied THEN plan.roots ELSE roots
  /\ merged' = (applied \/ merged)
  /\ failed' = IF reported THEN failed ELSE failed \cup {"tunnel"}
  /\ todo' = DnsMutations(plan)
  /\ pc' = "dns"
  /\ UNCHANGED <<running, tunnel, dns, calm, settings, discovered, dropped, dockerOk, plan,
                 tomb, status, pending, files, history>>

(* A bug: a dry run writes the ingress table all the same. *)
PutIngressRehearses(applied, reported) ==
  /\ pc = "execute" /\ ~ExceedsBlastRadius(settings, plan)
  /\ roots' = IF applied THEN plan.roots ELSE roots
  /\ merged' = (applied \/ merged)
  /\ failed' = IF reported THEN failed ELSE failed \cup {"ingress"}
  /\ todo' = DnsMutations(plan)
  /\ pc' = "dns"
  /\ UNCHANGED <<running, tunnel, dns, calm, settings, discovered, dropped, dockerOk, plan,
                 tomb, status, pending, files, history>>

PutIngress(applied, reported) ==
  /\ pc = "execute" /\ ~settings.dryRun /\ ~ExceedsBlastRadius(settings, plan)
  /\ roots' = IF applied THEN plan.roots ELSE roots
  /\ merged' = (applied \/ merged)
  /\ failed' = IF reported THEN failed ELSE failed \cup {"ingress"}
  /\ todo' = DnsMutations(plan)
  /\ pc' = "dns"
  /\ UNCHANGED <<running, tunnel, dns, calm, settings, discovered, dropped, dockerOk, plan,
                 tomb, status, pending, files, history>>

PutSkipped  == pc = "execute" /\ ~plan.put /\ PutIngress(FALSE, TRUE)
PutSucceeds == pc = "execute" /\ plan.put /\ PutIngress(TRUE, TRUE)
PutRejected == pc = "execute" /\ plan.put /\ Fault("ingress") /\ PutIngress(FALSE, FALSE)
PutLost     == pc = "execute" /\ plan.put /\ Fault("lost") /\ PutIngress(TRUE, FALSE)

(* Cloudflare refuses a CNAME beside another record, and a change to a     *)
(* record that is gone; an edited record may have got another id.          *)
Applicable(h) == (plan.dns[h] = "create") <=> (dns[h] = None)

(* A bug: a failed write is not recorded. *)
WriteDnsForgetsFailure(h, applied, reported) ==
  /\ pc = "dns" /\ h \in todo
  /\ plan.dns[h] = "delete" => \A g \in todo : plan.dns[g] = "delete"
  /\ dns' = IF ~applied THEN dns
            ELSE [dns EXCEPT ![h] = IF plan.dns[h] = "delete" THEN None ELSE OwnedRecord]
  /\ todo' = todo \ {h}
  /\ UNCHANGED <<running, tunnel, roots, merged, calm, settings, pc, discovered, dropped,
                 dockerOk, plan, tomb, status, failed, pending, files, history>>

WriteDns(h, applied, reported) ==
  /\ pc = "dns" /\ h \in todo
  /\ plan.dns[h] = "delete" => \A g \in todo : plan.dns[g] = "delete"
  /\ dns' = IF ~applied THEN dns
            ELSE [dns EXCEPT ![h] = IF plan.dns[h] = "delete" THEN None ELSE OwnedRecord]
  /\ failed' = IF reported THEN failed ELSE failed \cup {"dns"}
  /\ todo' = todo \ {h}
  /\ UNCHANGED <<running, tunnel, roots, merged, calm, settings, pc, discovered, dropped,
                 dockerOk, plan, tomb, status, pending, files, history>>

DnsSucceeds(h) == pc = "dns" /\ Applicable(h) /\ WriteDns(h, TRUE, TRUE)
DnsRejected(h) ==
  /\ pc = "dns"
  /\ Fault("dns") \/ ~Applicable(h) \/ (h \in edited /\ plan.dns[h] # "create")
  /\ WriteDns(h, FALSE, FALSE)
DnsLost(h)     == pc = "dns" /\ Fault("lost") /\ Applicable(h) /\ WriteDns(h, TRUE, FALSE)

(* A bug: a cycle that reached its end counts as a success. *)
FinishAlwaysSynced ==
  /\ pc = "dns" /\ todo = {}
  /\ tomb' = [h \in Hosts |-> IF h \in plan.clear THEN None ELSE tomb[h]]
  /\ EndWith("synced")
  /\ UNCHANGED <<world, settings, discovered, dockerOk, pending, files, history>>

(* Every write was attempted: expired tombstones go only if none failed.   *)
Finish ==
  /\ pc = "dns" /\ todo = {}
  /\ tomb' = IF failed = {}
               THEN [h \in Hosts |-> IF h \in plan.clear THEN None ELSE tomb[h]]
               ELSE tomb
  /\ EndWith(IF failed = {} THEN "synced" ELSE "degraded")
  /\ UNCHANGED <<world, settings, discovered, dockerOk, pending, files, history>>
-----------------------------------------------------------------------------
(***************************************************************************)
(* Everything else.                                                        *)
(***************************************************************************)

(* The process dies and is restarted: memory is gone, files and Cloudflare *)
(* stay.  Dying while the tombstone file is written leaves it unreadable,  *)
(* and between the token file and the restart leaves the restart unowed.   *)
Crash ==
  /\ Fault("crash")
  /\ EndWith("initializing")
  /\ discovered' = NoServices /\ dockerOk' = TRUE /\ tomb' = NoTombstones
  /\ pending' = FALSE
  /\ saved' \in IF pc = "persist" THEN {saved, None} ELSE {saved}
  /\ fresh' \in IF pc = "activate" THEN {fresh, TRUE} ELSE {fresh}
  /\ UNCHANGED <<world, settings, history>>

(* A container starts, stops or changes its labels. *)
ContainerChanges(h) ==
  /\ ~calm
  /\ \E r \in (Routes \cup {None}) \ {running[h]} : running' = [running EXCEPT ![h] = r]
  /\ UNCHANGED <<remote, calm, settings, pc, cycle, tomb, status, pending, files, history>>

EditDns(h) ==
  /\ Fault("edit")
  /\ \E r \in (EditRecords \cup {None}) \ {dns[h]} : dns' = [dns EXCEPT ![h] = r]
  /\ edited' = edited \cup {h}
  /\ UNCHANGED <<running, tunnel, roots, merged, calm, settings, pc, cycle, tomb, status,
                 pending, files, unseen>>

EditRoute(h) ==
  /\ Fault("edit") /\ tunnel
  /\ \E r \in (EditRoutes \cup {None}) \ {roots[h]} : roots' = [roots EXCEPT ![h] = r]
  /\ merged' \in BOOLEAN
  /\ edited' = edited \cup {h}
  /\ UNCHANGED <<running, tunnel, dns, calm, settings, pc, cycle, tomb, status, pending,
                 files, unseen>>

Older(age) == IF age < MaxAge THEN age + 1 ELSE age

OlderTombstones(t) == [h \in Hosts |-> IF t[h] = None THEN None ELSE Older(t[h])]

(* Time passes, also while the process is down. *)
Tick ==
  /\ tomb' = OlderTombstones(tomb)
  /\ saved' = IF saved = None THEN None ELSE OlderTombstones(saved)
  /\ unseen' = [h \in Hosts |-> Older(unseen[h])]
  /\ UNCHANGED <<world, settings, pc, cycle, status, pending, fresh, edited>>

(* From here on nothing changes or fails outside the synchronizer. *)
CalmDown ==
  /\ ~calm /\ calm' = TRUE
  /\ UNCHANGED <<running, remote, settings, pc, cycle, tomb, status, pending, files, history>>
-----------------------------------------------------------------------------
Cycle ==
  \/ Unconfigured \/ Discover \/ DiscoverFails
  \/ Resolve \/ ResolveDryRun \/ ProvisionLost \/ ReadFails
  \/ ActivateUnchanged \/ ActivateRestarts \/ ActivateFails \/ TokenWriteFails
  \/ MakePlan \/ Persist \/ PersistFails
  \/ DryRunEnds \/ Blocked \/ PutSkipped \/ PutSucceeds \/ PutRejected \/ PutLost
  \/ \E h \in Hosts : DnsSucceeds(h) \/ DnsRejected(h) \/ DnsLost(h)
  \/ Finish

Environment ==
  \/ Crash \/ Tick \/ CalmDown
  \/ \E h \in Hosts : ContainerChanges(h) \/ EditDns(h) \/ EditRoute(h)

Next == Cycle \/ Environment

Spec == Init /\ [][Next]_vars

(* The fallback loop starts a cycle for ever, every call of a cycle has a  *)
(* timeout, and the clock advances.  The environment owes nothing.         *)
FairSpec == Spec /\ WF_vars(Cycle) /\ WF_vars(Tick) /\ WF_vars(CalmDown)
-----------------------------------------------------------------------------
(***************************************************************************)
(* Safety.                                                                 *)
(***************************************************************************)

(* A plan about to be executed removes nothing of a host whose container   *)
(* was in an inventory planned from less than the grace period ago, and    *)
(* after a sudden drop nothing at all within DropGrace, immediate cleanup  *)
(* or not.  The tombstone clock and the inventories must agree through     *)
(* aborted cycles, failed writes, flapping and restarts                    *)
(* (sync.py: SAFE-02; docs/architecture-and-safety.md, "Grace periods").   *)
GraceRespected ==
  pc \in {"persist", "execute", "dns"} /\ ~settings.dryRun =>
    \A h \in plan.deletions.ingress \cup plan.deletions.dns :
      /\ ~settings.immediate \/ dropped => unseen[h] >= settings.grace
      /\ dropped => unseen[h] >= DropGrace

(* "Active / Synced" is only reported when, for every discovered host that *)
(* no operator touched since the read, the tunnel routes it as its labels  *)
(* ask and the zone points it at the tunnel, or holds a record the         *)
(* ownership policy protects.  Without Docker at hand the cycle plans      *)
(* nothing and still reports success: that case is left out here.          *)
SyncedIsTrue ==
  status = "synced" /\ dockerOk =>
    \A h \in Services(discovered) \ edited :
      /\ \/ roots[h] = discovered[h]
         \/ settings.preserveRoots /\ roots[h] # None
      /\ \/ dns[h] = OwnedRecord
         \/ /\ dns[h] # None
            /\ ParseStatus(dns[h], TRUE) \notin
                 (IF settings.policy = "strict_tagged_only" THEN {"owned"}
                  ELSE {"owned", "adopted"})

(* The steps in which the service writes to Cloudflare. *)
Put == pc = "execute" /\ pc' = "dns"

DnsWrite(h) == pc = "dns" /\ pc' = "dns" /\ h \in todo \ todo'

(* Without a Docker connection at planning time nothing is written, even   *)
(* when it was lost after discovery by the connector's restart; and what a *)
(* write removes belongs to a host absent from the inventory, while what   *)
(* it adds belongs to one in it (fail closed, SAFE-02).                    *)
FailClosed ==
  [][\A h \in Hosts :
       /\ Put /\ roots'[h] # roots[h] /\ h \notin edited =>
            dockerOk /\ roots'[h] = discovered[h]
       /\ DnsWrite(h) /\ dns'[h] # dns[h] =>
            dockerOk /\ (dns'[h] = None <=> discovered[h] = None)]_vars

(* A record the operator left alone since it was read is deleted only when *)
(* it is this tunnel's by target and tag, and overwritten only when it is  *)
(* ours already or, unless the policy is strict, an untagged record on     *)
(* this tunnel (SAFE-01).  A host without a record seen gets a new one.    *)
OwnershipRespected ==
  [][\A h \in Hosts :
       DnsWrite(h) /\ dns'[h] # dns[h] /\ h \notin edited =>
         \/ dns[h] = None
         \/ Owned(dns[h])
         \/ dns'[h] = None /\ settings.policy = "legacy_unrestricted"
         \/ /\ dns'[h] # None /\ settings.policy # "strict_tagged_only"
            /\ ParseStatus(dns[h], TRUE) = "adopted"]_vars

(* One cycle removes at most maxDeletions routes and as many records,      *)
(* counted on what really disappears and not on the plan's own summary     *)
(* (DeletionPolicy, docs/architecture-and-safety.md "deletion limits").    *)
BlastRadiusRespected ==
  [][Put /\ ~settings.allowMass =>
       /\ Cardinality({h \in Hosts \ edited : roots[h] # None /\ roots'[h] = None})
            <= settings.maxDeletions
       /\ Cardinality({h \in todo' : plan.dns[h] = "delete"}) <= settings.maxDeletions]_vars

(* "Expired tombstones remain through failed execution so retries do not   *)
(* restart the grace period" (docs/architecture-and-safety.md): while the  *)
(* process lives, the tombstone of an absent host outlasts whatever of the *)
(* host is ours, and never gets younger.                                   *)
TombstoneOutlivesResources ==
  [][\A h \in Hosts : tomb[h] # None /\ status' # "initializing" =>
       IF tomb'[h] # None THEN tomb'[h] >= tomb[h]
       ELSE \/ discovered[h] # None \/ h \in edited
            \/ /\ ~Owned(dns[h])
               /\ settings.policy = "legacy_unrestricted" \/ roots[h] = None]_vars
-----------------------------------------------------------------------------
(***************************************************************************)
(* The promise behind all of it: SyncCycle implements Leases.              *)
(***************************************************************************)

(* The order at hand is the plan's inventory with the wait that its        *)
(* cleanup observes.  A dry run and a plan made without Docker are none.   *)
Ordered == pc \in {"persist", "execute", "dns"} /\ dockerOk /\ ~settings.dryRun

L == INSTANCE Leases WITH
       Ours    <- OwnedRecord,
       route   <- roots,
       record  <- dns,
       quiet   <- unseen,
       ordered <- Ordered,
       asked   <- IF Ordered THEN discovered ELSE NoServices,
       wait    <- IF Ordered /\ ~Effective.immediate THEN Effective.grace ELSE 0,
       Stages  <- Points \X SUBSET Hosts,
       work    <- <<pc, todo>>,
       touched <- edited

(* Through aborted cycles, lost replies, failed writes, crashes and edits, *)
(* every write the service makes is one that the lease of the host allows: *)
(* nothing is taken from a host whose lease still runs, nothing is set but *)
(* what the inventory of the same cycle asked for, and nothing at all is   *)
(* written without Docker or in a dry run (application/sync.py, executor). *)
(* Every write moves pc or todo, and an edit by others moves neither.      *)
LeasesKept == L!Spec
-----------------------------------------------------------------------------
(***************************************************************************)
(* Liveness, once the environment is calm and the deletions fit the limit. *)
(***************************************************************************)

(* Drift is repaired whatever failed before: in the end every running host *)
(* has its route and its record, and no absent host keeps a record of ours *)
(* (executor.py: "The next cycle re-reads remote state and converges").    *)
Converges ==
  <>calm => <>[](\A h \in Hosts :
    IF running[h] # None THEN roots[h] = running[h] /\ dns[h] = OwnedRecord
    ELSE ~Owned(dns[h]))

(* The service then falls silent: cycles keep running but write nothing,   *)
(* neither the tunnel configuration nor a record.                          *)
Quiesces ==
  <>calm => <>[](pc = "execute" => ~plan.put /\ DnsMutations(plan) = {})

(* executor.py, ChangeExecutor: "No rollback is attempted. The next cycle  *)
(* re-reads remote state and converges."  The routes of hosts that are     *)
(* gone are gone in the end.                                               *)
RoutesConverge ==
  <>calm => <>[](\A h \in Hosts : running[h] = None => roots[h] = None)
=============================================================================
