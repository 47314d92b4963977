---------------------------- MODULE Publication -----------------------------
(***************************************************************************)
(* The working state, the copy of it that readers get, and previews        *)
(* (application/state.py, reporting.py, preview.py, bootstrap.py and the   *)
(* GET handlers of web/app.py).                                            *)
(*                                                                         *)
(* An inventory stands for itself: what a cycle discovered, the services   *)
(* it shows and the plan it made are each named by their inventory.        *)
(***************************************************************************)
EXTENDS Naturals

CONSTANTS
  Inventories,  \* the inventories Docker may report
  Strained,     \* those with a service whose networks degrade it
  Nothing,      \* what a preview sees without Docker
  NoPlan

ASSUME PublicationConstants ==
  Strained \subseteq Inventories /\ Nothing \notin Inventories /\ NoPlan \notin Inventories \cup {Nothing}

VARIABLES
  working,    \* RuntimeState.data
  published,  \* RuntimeState._published
  preview     \* what the GET of a plan is about to cache; "idle", "asked" or a plan

publicationVars == <<working, published, preview>>

Statuses == {"initializing", "syncing", "waiting", "docker_degraded", "error", "provision",
             "dry_synced", "safety_guard_tripped", "degraded", "synced"}

Plans == Inventories \cup {Nothing}

StateType ==
  [status     : Statuses,
   docker     : BOOLEAN,                       \* docker_connected
   discovered : Plans,                         \* discovered_services
   services   : [of : Plans, bad : BOOLEAN],   \* services, and whether one is degraded
   plan       : Plans \cup {NoPlan},           \* _last_change_plan_obj
   everSynced : BOOLEAN,                       \* last_sync is set
   tripped    : BOOLEAN]                       \* safety_guard_tripped

initial_state ==
  [status |-> "initializing", docker |-> TRUE, discovered |-> Nothing,
   services |-> [of |-> Nothing, bad |-> FALSE], plan |-> NoPlan,
   everSynced |-> FALSE, tripped |-> FALSE]

PublicationInit == working = initial_state /\ published = initial_state /\ preview = "idle"

(* publish(): the working state of this instant becomes the copy. *)
Publish(state) == working' = state /\ published' = state

Keep(state) == working' = state /\ UNCHANGED published

(* report_connection: also in the middle of a cycle. *)
Reported(state, connected) == [state EXCEPT !.docker = connected]

(* update_overview_metrics: health_state of a copy. *)
health_state(s) ==
  IF ~s.everSynced \/ s.status = "initializing" THEN "never_synced"
  ELSE IF ~s.docker \/ s.tripped \/ s.services.bad \/ s.status \in {"error", "degraded"}
    THEN "degraded"
  ELSE IF s.status \in {"synced", "dry_synced"} THEN "healthy"
  ELSE "unknown"
-----------------------------------------------------------------------------
(***************************************************************************)
(* GET /api/change-plan without a plan at hand computes a preview: it      *)
(* reads a copy, collects an inventory under the lock, and caches the plan *)
(* under the lock, with anything in between.                               *)
(***************************************************************************)
PreviewAsks ==
  /\ preview = "idle" /\ published.plan = NoPlan
  /\ preview' = "asked"
  /\ UNCHANGED <<working, published>>

(* Docker answers, or it does not and the preview plans from nothing.      *)
PreviewCollects(inventory, connected) ==
  /\ preview = "asked"
  /\ preview' = IF connected THEN inventory ELSE Nothing
  /\ Publish(Reported(working, connected))

(* A bug: the preview replaces a plan that came meanwhile. *)
PreviewCachesAlways ==
  /\ preview \in Plans
  /\ preview' = "idle"
  /\ Publish([working EXCEPT !.plan = preview])

(* cache_preview *)
PreviewCaches ==
  /\ preview \in Plans
  /\ preview' = "idle"
  /\ IF working.plan = NoPlan THEN Publish([working EXCEPT !.plan = preview])
     ELSE UNCHANGED <<working, published>>

(* GET /api/sync/preview returns its plan without caching it. *)
PreviewReturns ==
  /\ preview \in Plans
  /\ preview' = "idle"
  /\ UNCHANGED <<working, published>>
=============================================================================
