------------------------------ MODULE Runtime -------------------------------
(***************************************************************************)
(* What the world sees of the synchronizer: the connector it activates and *)
(* the state it publishes, as run_once drives them (application/sync.py),  *)
(* with event listener, previews, faults and crashes in between.           *)
(*                                                                         *)
(* A cycle holds working_lock from CycleBegins to its end, so listener and *)
(* previews wait for it; the requests of the cycle itself publish.         *)
(* Planning and writing are single steps here, SyncCycle has their detail. *)
(***************************************************************************)
EXTENDS Connector, Publication

CONSTANT Faults   \* a subset of FaultKinds: what may go wrong before the calm

FaultKinds == {"docker", "read", "token", "restart", "write", "trip", "crash", "exit"}

ASSUME FaultsKnown == Faults \subseteq FaultKinds

VARIABLES
  settings,  \* [configured, dryRun]
  running,   \* the inventory Docker would report
  tunnel,    \* the tunnel exists
  pc,        \* the next step of the cycle, "idle" between cycles
  calm       \* the environment has become quiet, for ever

vars == <<settings, running, tunnel, pc, calm, connectorVars, publicationVars>>

world == <<settings, running, tunnel, calm>>

TypeOK ==
  /\ ConnectorType
  /\ working \in StateType /\ published \in StateType
  /\ preview \in {"idle", "asked"} \cup Plans
  /\ settings \in [configured : BOOLEAN, dryRun : BOOLEAN]
  /\ running \in Inventories /\ tunnel \in BOOLEAN /\ calm \in BOOLEAN
  /\ pc \in {"idle", "discover", "resolve", "plan", "execute"}

Init ==
  /\ ConnectorInit /\ PublicationInit
  /\ settings \in [configured : BOOLEAN, dryRun : BOOLEAN]
  /\ running \in Inventories /\ tunnel \in BOOLEAN
  /\ pc = "idle" /\ calm = FALSE

Fault(kind) == kind \in Faults /\ ~calm

(* The cycle ends, and publishes before it releases the lock. *)
EndsWith(state) == pc' = "idle" /\ Publish(state)
-----------------------------------------------------------------------------
(* A bug: the status of the last cycle stays up during the next. *)
CycleBeginsQuietly ==
  /\ pc = "idle" /\ pc' = "discover"
  /\ Keep([working EXCEPT !.tripped = FALSE])
  /\ UNCHANGED <<world, connectorVars, preview>>

CycleBegins ==
  /\ pc = "idle" /\ pc' = "discover"
  /\ Keep([working EXCEPT !.status = "syncing", !.tripped = FALSE])
  /\ UNCHANGED <<world, connectorVars, preview>>

Unconfigured ==
  /\ pc = "discover" /\ ~settings.configured
  /\ EndsWith([working EXCEPT !.status = "waiting"])
  /\ UNCHANGED <<world, connectorVars, preview>>

(* The request reports the connection, which publishes the state as it is, *)
(* and then the cycle takes the list over.                                 *)
Discover ==
  /\ pc = "discover" /\ settings.configured
  /\ pc' = "resolve"
  /\ published' = Reported(working, TRUE)
  /\ working' = [Reported(working, TRUE) EXCEPT !.discovered = running]
  /\ UNCHANGED <<world, connectorVars, preview>>

(* An attempt fails and is repeated. *)
DiscoverStumbles ==
  /\ pc = "discover" /\ settings.configured /\ Fault("docker")
  /\ Publish(Reported(working, FALSE))
  /\ UNCHANGED <<world, pc, connectorVars, preview>>

DiscoverFails ==
  /\ pc = "discover" /\ settings.configured /\ Fault("docker")
  /\ EndsWith([Reported(working, FALSE) EXCEPT !.status = "docker_degraded"])
  /\ UNCHANGED <<world, connectorVars, preview>>

(* A Cloudflare read raises or finds no zone or account. *)
ReadFails ==
  /\ pc = "resolve" \/ (pc = "plan" /\ doing \in {"done", "unwritten"})
  /\ Fault("read")
  /\ EndsWith([working EXCEPT !.status = "error"])
  /\ UNCHANGED <<world, connectorVars, preview>>

(* A dry run without a tunnel has nothing to plan for. *)
ProvisionRequired ==
  /\ pc = "resolve" /\ ~tunnel /\ settings.dryRun
  /\ EndsWith([working EXCEPT !.status = "provision", !.plan = NoPlan])
  /\ UNCHANGED <<world, connectorVars, preview>>

ResolveDryRun ==
  /\ pc = "resolve" /\ tunnel /\ settings.dryRun
  /\ pc' = "plan"
  /\ UNCHANGED <<world, connectorVars, publicationVars>>

(* The tunnel is found or created, and its token read.                     *)
ResolveAndActivate ==
  /\ pc = "resolve" /\ ~settings.dryRun
  /\ pc' = "plan" /\ tunnel' = TRUE
  /\ Activate
  /\ UNCHANGED <<settings, running, calm, publicationVars>>

TokenStep ==
  /\ pc = "plan"
  /\ WriteBegins \/ WriteEnds \/ (Fault("token") /\ WriteFails)
  /\ UNCHANGED <<world, pc, publicationVars>>

(* The restart is a Docker request, and so reports the connection.  A      *)
(* failure is swallowed by the executor, but not by that report.           *)
RestartSucceeds ==
  /\ pc = "plan" /\ Restart
  /\ Publish(Reported(working, TRUE))
  /\ UNCHANGED <<world, pc, preview>>

RestartRefused ==
  /\ pc = "plan" /\ Fault("restart")
  /\ \E happened \in BOOLEAN : RestartFails(happened)
  /\ Publish(Reported(working, FALSE))
  /\ UNCHANGED <<world, pc, preview>>

MakePlan ==
  /\ pc = "plan" /\ doing \in {"done", "unwritten"}
  /\ pc' = "execute"
  /\ Keep([working EXCEPT !.plan = working.discovered])
  /\ UNCHANGED <<world, connectorVars, preview>>

DryRunEnds ==
  /\ pc = "execute" /\ settings.dryRun
  /\ EndsWith([working EXCEPT !.status = "dry_synced", !.everSynced = TRUE])
  /\ UNCHANGED <<world, connectorVars, preview>>

(* A plan without Docker deletes nothing and cannot trip the guard.        *)
Blocked ==
  /\ pc = "execute" /\ ~settings.dryRun /\ working.docker /\ Fault("trip")
  /\ EndsWith([working EXCEPT !.status = "safety_guard_tripped", !.tripped = TRUE])
  /\ UNCHANGED <<world, connectorVars, preview>>

(* Every write was attempted; without Docker there was none.  A service is *)
(* degraded by a failed write or by its networks, and one is enough; an    *)
(* inventory stands for one service or more.                               *)
Finish ==
  /\ pc = "execute" /\ ~settings.dryRun
  /\ \E failed \in IF Fault("write") /\ working.docker THEN BOOLEAN ELSE {FALSE} :
       LET bad == failed \/ working.discovered \in Strained IN
       EndsWith([working EXCEPT
                   !.services = [of |-> working.discovered, bad |-> bad],
                   !.status = IF bad THEN "degraded" ELSE "synced",
                   !.everSynced = TRUE])
  /\ UNCHANGED <<world, connectorVars, preview>>
-----------------------------------------------------------------------------
(***************************************************************************)
(* Everything else.                                                        *)
(***************************************************************************)

(* The event listener reports what became of its stream. *)
ListenerReports ==
  /\ pc = "idle" /\ ~calm
  /\ \E connected \in BOOLEAN : Publish(Reported(working, connected))
  /\ UNCHANGED <<world, pc, connectorVars, preview>>

Preview ==
  /\ ~calm
  /\ \/ PreviewAsks
     \/ pc = "idle" /\ PreviewCollects(running, TRUE)
     \/ pc = "idle" /\ Fault("docker") /\ PreviewCollects(running, FALSE)
     \/ pc = "idle" /\ PreviewCaches
     \/ PreviewReturns
  /\ UNCHANGED <<world, pc, connectorVars>>

ContainersChange ==
  /\ ~calm
  /\ \E i \in Inventories \ {running} : running' = i
  /\ UNCHANGED <<settings, tunnel, pc, calm, connectorVars, publicationVars>>

TokenRotates ==
  /\ ~calm /\ Rotates
  /\ UNCHANGED <<world, pc, publicationVars>>

Exits ==
  /\ Fault("exit") /\ ConnectorExits
  /\ UNCHANGED <<world, pc, publicationVars>>

Starts ==
  /\ ConnectorStarts
  /\ UNCHANGED <<world, pc, publicationVars>>

Crash ==
  /\ Fault("crash")
  /\ ConnectorCrash
  /\ working' = initial_state /\ published' = initial_state /\ preview' = "idle"
  /\ pc' = "idle"
  /\ UNCHANGED world

CalmDown ==
  /\ ~calm /\ calm' = TRUE
  /\ UNCHANGED <<settings, running, tunnel, pc, connectorVars, publicationVars>>

Cycle ==
  \/ CycleBegins \/ Unconfigured \/ Discover \/ DiscoverStumbles \/ DiscoverFails \/ ReadFails
  \/ ProvisionRequired \/ ResolveDryRun \/ ResolveAndActivate \/ TokenStep \/ RestartSucceeds
  \/ RestartRefused \/ MakePlan \/ DryRunEnds \/ Blocked \/ Finish

Environment ==
  ListenerReports \/ Preview \/ ContainersChange \/ TokenRotates \/ Exits \/ Crash \/ CalmDown

Next == Cycle \/ Starts \/ Environment

(* Cycles go on, Docker starts a connector that is down, and at some point *)
(* the environment is quiet: the liveness below is about what comes after. *)
Spec == Init /\ [][Next]_vars /\ WF_vars(Cycle) /\ WF_vars(Starts) /\ WF_vars(CalmDown)
-----------------------------------------------------------------------------
(***************************************************************************)
(* Properties.                                                             *)
(***************************************************************************)

(* Whoever reads that a cycle has synchronized reads the services, the     *)
(* discovered services and the plan of one and the same inventory, and     *)
(* that cycle's, not a preview's plan: the states that every Docker        *)
(* request publishes in mid-cycle, and the previews that finish late, do   *)
(* not show under that status (bootstrap.py:66, state.py:63).              *)
WholeSnapshot ==
  /\ published.status \in {"synced", "degraded", "dry_synced"} =>
       published.plan = published.discovered
  /\ published.status \in {"synced", "degraded"} =>
       published.services.of = published.discovered

(* A cycle that ends healthy has settled the connector: no restart is owed *)
(* and a connector that is up runs the token that the cycle read.  The     *)
(* exceptions are the code's own: a token file that could not be written   *)
(* is logged at most, and a restart that was due when the process died is  *)
(* forgotten (executor.py:112, :103).                                      *)
HealthyIsConnected ==
  [][pc = "execute" /\ pc' = "idle" /\ ~settings.dryRun /\ health_state(published') = "healthy" =>
       \/ doing = "unwritten"
       \/ /\ owed = None /\ file = fetched
          /\ dialled \in {fetched, None} \/ forgotten]_vars

(* Once nothing fails any more, the connector runs the token in force,     *)
(* whatever rotations, torn files, failed restarts and crashes came before *)
(* -- unless the process died owing the restart, and nothing restarted the *)
(* connector since.  docs/architecture-and-safety.md:68 says less, that a  *)
(* failed restart is left to the operator once the token is written: the   *)
(* code remembers it and tries again (executor.py:96).                     *)
ConnectorCatchesUp ==
  settings.configured /\ ~settings.dryRun => <>[](dialled = issued \/ forgotten)
=============================================================================
