------------------------------ MODULE MCParts -------------------------------
(***************************************************************************)
(* The small parts of the synchronizer, each over all the inputs or        *)
(* outcomes that its own module enumerates: labels, discovery, planner,    *)
(* ingress merge, requests, zone reads, alerts.  A behaviour is about one  *)
(* of them, the subject, and leaves the variables of the others alone.     *)
(***************************************************************************)
EXTENDS MCIngressMerge, MCPlanner, MCDiscovery, Requests, ZoneReads, Alerts

CONSTANT Subjects   \* the parts this run is about

ASSUME SubjectsKnown ==
  Subjects \subseteq {"labels", "discovery", "planner", "merge", "requests", "reads", "alerts"}

VARIABLE subject

RequestIdle == call = [client |-> "docker", once |-> FALSE, limit |-> 0, base |-> Min(BaseDelays)]

ReadIdle == zone = <<>> /\ ours = {}

vars ==
  <<subject, labels, discoveryVars, plannerVars, mergeVars, requestVars, readVars, alertVars>>

Init ==
  /\ subject \in Subjects
  /\ AlertInit
  /\ IF subject = "requests"  THEN TRUE          ELSE RequestIdle
  /\ RequestInit
  /\ IF subject = "reads"     THEN TRUE          ELSE ReadIdle
  /\ ReadInit
  /\ IF subject = "labels"    THEN LabelsInit    ELSE LabelsIdle
  /\ IF subject = "discovery" THEN DiscoveryInit ELSE DiscoveryIdle
  /\ IF subject = "planner"   THEN PlannerInit   ELSE PlannerIdle
  /\ IF subject = "merge"     THEN MergeInit     ELSE MergeIdle

NextLabels ==
  /\ subject = "labels" /\ AddLabel
  /\ UNCHANGED <<subject, discoveryVars, plannerVars, mergeVars, requestVars, readVars, alertVars>>

NextDiscovery ==
  /\ subject = "discovery" /\ DiscoveryNext
  /\ UNCHANGED <<subject, labels, plannerVars, mergeVars, requestVars, readVars, alertVars>>

NextPlanner ==
  /\ subject = "planner" /\ PlannerNext
  /\ UNCHANGED <<subject, labels, discoveryVars, mergeVars, requestVars, readVars, alertVars>>

NextMerge ==
  /\ subject = "merge" /\ MergeNext
  /\ UNCHANGED <<subject, labels, discoveryVars, plannerVars, requestVars, readVars, alertVars>>

NextRequest ==
  /\ subject = "requests" /\ RequestNext
  /\ UNCHANGED <<subject, labels, discoveryVars, plannerVars, mergeVars, readVars, alertVars>>

NextRead ==
  /\ subject = "reads" /\ ReadNext
  /\ UNCHANGED <<subject, labels, discoveryVars, plannerVars, mergeVars, requestVars, alertVars>>

NextAlert ==
  /\ subject = "alerts" /\ AlertNext
  /\ UNCHANGED <<subject, labels, discoveryVars, plannerVars, mergeVars, requestVars, readVars>>

Next ==
  NextLabels \/ NextDiscovery \/ NextPlanner \/ NextMerge \/ NextRequest \/ NextRead \/ NextAlert

Spec == Init /\ [][Next]_vars
=============================================================================
