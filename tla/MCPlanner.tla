----------------------------- MODULE MCPlanner -----------------------------
(***************************************************************************)
(* The planner over every input: every setting, record, route, origin and  *)
(* tombstone age of a host.  One host is enough, since a plan decides host *)
(* by host and only the deletion count looks across hosts.                 *)
(*                                                                         *)
(* Reconcile is one cycle whose every write succeeds and whose reads see   *)
(* what the last one wrote; Age lets the grace period run.                 *)
(***************************************************************************)
EXTENDS Planner

CONSTANT MaxAge   \* bound on a tombstone's age

ASSUME MaxAgeNat == MaxAge \in Nat

VARIABLES settings, view

plannerVars == <<settings, view>>

Graces == 0 .. MaxAge

AllSettings ==
  [policy : Policies, grace : Graces, immediate : BOOLEAN, preserveRoots : BOOLEAN,
   maxDeletions : {3}, ratio : {0}, allowMass : {FALSE},
   dryRun : {FALSE}, persist : {FALSE}, configured : {TRUE}]

AllViews ==
  [dockerOk : BOOLEAN, origins : [Hosts -> Routes \cup {None}],
   roots : [Hosts -> Routes \cup {None}], dns : [Hosts -> Record \cup {None}],
   tomb : [Hosts -> 0 .. MaxAge \cup {None}], merged : {TRUE}]

Plan == ComputePlan(settings, view)

(* The hosts a plan changes in Cloudflare. *)
Mutated(p, v) ==
  {h \in Hosts : p.roots[h] # v.roots[h] \/ p.dns[h] \in {"create", "update", "delete"}}

(* The view after every write of plan p succeeded. *)
Applied(p, v) ==
  [v EXCEPT !.roots = p.roots,
            !.dns = [h \in Hosts |-> CASE p.dns[h] \in {"create", "update"} -> OwnedRecord
                                       [] p.dns[h] = "delete" -> None
                                       [] OTHER -> v.dns[h]],
            !.tomb = [h \in Hosts |-> IF h \in p.clear THEN None
                                      ELSE IF h \in p.set /\ v.tomb[h] = None THEN 0
                                      ELSE v.tomb[h]]]

PlannerInit == settings \in AllSettings /\ view \in AllViews

(* Nothing anywhere, and nothing to do. *)
PlannerIdle ==
  /\ settings = [policy |-> "adopt_and_manage", grace |-> 0, immediate |-> FALSE,
                 preserveRoots |-> FALSE, maxDeletions |-> 3, ratio |-> 0, allowMass |-> FALSE,
                 dryRun |-> FALSE, persist |-> FALSE, configured |-> TRUE]
  /\ view = [dockerOk |-> TRUE, origins |-> [h \in Hosts |-> None],
             roots |-> [h \in Hosts |-> None], dns |-> [h \in Hosts |-> None],
             tomb |-> [h \in Hosts |-> None], merged |-> TRUE]

Reconcile == view' = Applied(Plan, view) /\ UNCHANGED settings

Age ==
  /\ \E h \in Hosts : view.tomb[h] # None /\ view.tomb[h] < MaxAge
  /\ view' = [view EXCEPT !.tomb = [h \in Hosts |->
                IF view.tomb[h] = None \/ view.tomb[h] = MaxAge THEN view.tomb[h]
                ELSE view.tomb[h] + 1]]
  /\ UNCHANGED settings

PlannerNext == Reconcile \/ Age
-----------------------------------------------------------------------------
(* A second cycle over an unchanged world has nothing left to write: the   *)
(* plan is convergent.  PRESERVE_MANUAL_ROOTS is left out unless adoption  *)
(* is off too: see ManualRootKept.                                         *)
PlanSettles ==
  (settings.preserveRoots => settings.policy = "strict_tagged_only")
    => LET after == Applied(Plan, view) IN
       Mutated(ComputePlan(settings, after), after) = {}

(* The route and the record of an absent host are cleaned up in one cycle: *)
(* a plan never removes the owned record of a host and leaves its root     *)
(* route behind, where the next plan would take it for a manual one, nor   *)
(* the route alone.                                                        *)
RouteAndRecordTogether ==
  \A h \in Hosts : ManagedRoot(view, h) =>
    (IngressAction(settings, view, h) = "delete" <=> DnsAction(settings, view, h) = "delete")

(* A stricter ownership policy never changes what a laxer one leaves       *)
(* alone: strict within adopt within legacy, for the same inputs.          *)
PoliciesOrdered ==
  LET under(p) == [settings EXCEPT !.policy = p]
      hosts(p) == Mutated(ComputePlan(under(p), view), view)
  IN  /\ hosts("strict_tagged_only") \subseteq hosts("adopt_and_manage")
      /\ hosts("adopt_and_manage") \subseteq hosts("legacy_unrestricted")

(* Outside legacy_unrestricted, over any number of cycles, a record that   *)
(* is not this tunnel's (by target or by tag) stays exactly as it is.      *)
OthersRecordsUntouched ==
  [][settings.policy # "legacy_unrestricted" =>
       \A h \in Hosts :
         (view.dns[h] # None /\ ParseStatus(view.dns[h], TRUE) \notin {"owned", "adopted"})
           => view'.dns[h] = view.dns[h]]_plannerVars

(* docs/security.md:56: PRESERVE_MANUAL_ROOTS=true "skips managed root     *)
(* replacement for unmanaged manual routes".  A root route that a cycle    *)
(* preserved as manual is still preserved by the following cycle.          *)
ManualRootKept ==
  [][view.dockerOk => \A h \in Hosts : KeepManualRoot(settings, view, h) =>
       ComputePlan(settings, view').roots[h] = view.roots[h]]_plannerVars
=============================================================================
