--------------------------- MODULE Runtime_proofs ---------------------------
(***************************************************************************)
(* Proofs about Runtime, for every number of tokens, every set of          *)
(* inventories and every kind of fault.                                    *)
(***************************************************************************)
EXTENDS Runtime, TLAPS

(* The status of a copy says that a cycle synchronized only if services,   *)
(* discovered services and plan are of one inventory.                      *)
Whole(s) ==
  /\ s.status \in {"synced", "degraded", "dry_synced"} => s.plan = s.discovered
  /\ s.status \in {"synced", "degraded"} => s.services.of = s.discovered

(* During a cycle the working state says so, which is why its requests may *)
(* publish.                                                                *)
WholeInv ==
  /\ Whole(working) /\ Whole(published)
  /\ pc # "idle" => working.status = "syncing"
  /\ pc = "execute" => working.plan = working.discovered

(* What activation knows between its steps.                                *)
FileFollows ==
  /\ pc # "plan" => doing \in {"done", "unwritten"}
  /\ doing = "flush" => file = None
  /\ doing = "restart" => file = fetched
  /\ doing \in {"write", "flush", "restart"} => fetched # None

(* A connector that runs another token than a whole file holds has a       *)
(* restart due, owed or forgotten; and what is owed is about the file.     *)
DebtKnown ==
  doing # "restart" =>
    /\ file # None /\ dialled \notin {file, None} /\ ~forgotten => owed = file
    /\ owed # None => file \in {owed, None}

(* After an activation that had Docker all along nothing is owed.          *)
Settled ==
  pc \in {"plan", "execute"} /\ ~settings.dryRun /\ doing = "done" /\ working.docker =>
    owed = None /\ file = fetched /\ fetched # None

RuntimeInv == TypeOK /\ WholeInv /\ FileFollows /\ DebtKnown /\ Settled
-----------------------------------------------------------------------------
(***************************************************************************)
(* Types.                                                                  *)
(***************************************************************************)

(* Changing one field of a state by a value of its type gives a state.     *)
LEMMA StateChanges ==
  ASSUME NEW s \in StateType
  PROVE  /\ \A st \in Statuses : [s EXCEPT !.status = st] \in StateType
         /\ \A b \in BOOLEAN : Reported(s, b) \in StateType
         /\ \A b \in BOOLEAN : [s EXCEPT !.tripped = b] \in StateType
         /\ \A b \in BOOLEAN : [s EXCEPT !.everSynced = b] \in StateType
         /\ \A p \in Plans \cup {NoPlan} : [s EXCEPT !.plan = p] \in StateType
         /\ \A i \in Plans : [s EXCEPT !.discovered = i] \in StateType
         /\ \A i \in Plans, b \in BOOLEAN :
              [s EXCEPT !.services = [of |-> i, bad |-> b]] \in StateType
  BY DEF StateType, Reported

LEMMA ConnectorTyped ==
  ASSUME ConnectorType,
         \/ Activate \/ WriteBegins \/ WriteEnds \/ WriteFails \/ Restart
         \/ (\E happened \in BOOLEAN : RestartFails(happened))
         \/ Rotates \/ ConnectorExits \/ ConnectorStarts \/ ConnectorCrash
         \/ UNCHANGED connectorVars
  PROVE  ConnectorType'
<1> DEFINE Token(t) == t \in Tokens \cup {None}
<1>1. /\ issued \in Tokens /\ forgotten \in BOOLEAN
      /\ Token(fetched) /\ Token(file) /\ Token(owed) /\ Token(dialled)
  BY DEF ConnectorType
<1>2. /\ issued' \in Tokens /\ forgotten' \in BOOLEAN
      /\ doing' \in {"write", "flush", "restart", "done", "unwritten"}
      /\ Token(fetched') /\ Token(file') /\ Token(owed') /\ Token(dialled')
  <2> USE <1>1 DEF ConnectorType
  <2>1. CASE Activate
    BY <2>1 DEF Activate
  <2>2. CASE WriteBegins \/ WriteEnds \/ WriteFails
    BY <2>2 DEF WriteBegins, WriteEnds, WriteFails
  <2>3. CASE Restart
    BY <2>3 DEF Restart
  <2>4. CASE \E happened \in BOOLEAN : RestartFails(happened)
    BY <2>4 DEF RestartFails
  <2>5. CASE Rotates
    <3>1. issued' \in Tokens
      BY <2>5, ConnectorConstants DEF Rotates, Tokens
    <3> QED BY <2>5, <3>1 DEF Rotates
  <2>6. CASE ConnectorExits \/ ConnectorStarts
    BY <2>6 DEF ConnectorExits, ConnectorStarts
  <2>7. CASE ConnectorCrash
    BY <2>7 DEF ConnectorCrash
  <2>8. CASE UNCHANGED connectorVars
    BY <2>8 DEF connectorVars
  <2> QED BY <2>1, <2>2, <2>3, <2>4, <2>5, <2>6, <2>7, <2>8
<1> QED BY <1>2 DEF ConnectorType

(* Every variable keeps its type.                                          *)
LEMMA NextTyped ==
  ASSUME TypeOK, [Next]_vars
  PROVE  TypeOK'
<1> USE DEF TypeOK
<1>1. /\ ConnectorType' 
  BY ConnectorTyped
  DEF Next, Cycle, Environment, vars, CycleBegins, Unconfigured, Discover, DiscoverStumbles,
      DiscoverFails, ReadFails, ProvisionRequired, ResolveDryRun, ResolveAndActivate, TokenStep,
      RestartSucceeds, RestartRefused, MakePlan, DryRunEnds, Blocked, Finish, ListenerReports,
      Preview, ContainersChange, TokenRotates, Exits, Starts, Crash, CalmDown
<1>2. /\ settings' \in [configured : BOOLEAN, dryRun : BOOLEAN]
      /\ running' \in Inventories /\ tunnel' \in BOOLEAN /\ calm' \in BOOLEAN
      /\ pc' \in {"idle", "discover", "resolve", "plan", "execute"}
  BY DEF Next, Cycle, Environment, vars, world, EndsWith, CycleBegins, Unconfigured, Discover,
      DiscoverStumbles, DiscoverFails, ReadFails, ProvisionRequired, ResolveDryRun,
      ResolveAndActivate, TokenStep, RestartSucceeds, RestartRefused, MakePlan, DryRunEnds,
      Blocked, Finish, ListenerReports, Preview, ContainersChange, TokenRotates, Exits, Starts,
      Crash, CalmDown
<1>3. preview' \in {"idle", "asked"} \cup Plans
  BY DEF Next, Cycle, Environment, vars, world, Plans, CycleBegins, Unconfigured, Discover,
      DiscoverStumbles, DiscoverFails, ReadFails, ProvisionRequired, ResolveDryRun,
      ResolveAndActivate, TokenStep, RestartSucceeds, RestartRefused, MakePlan, DryRunEnds,
      Blocked, Finish, ListenerReports, Preview, ContainersChange, TokenRotates, Exits, Starts,
      Crash, CalmDown, publicationVars, PreviewAsks, PreviewCollects, PreviewCaches,
      PreviewReturns
<1>4. working' \in StateType /\ published' \in StateType
  <2> USE StateChanges DEF Publish, Keep, EndsWith
  <2>1. initial_state \in StateType
    BY DEF initial_state, StateType, Statuses, Plans
  <2>2. running \in Plans /\ working.discovered \in Plans /\ working.plan \in Plans \cup {NoPlan}
    BY DEF Plans, StateType
  <2>3. CASE CycleBegins
    <3>1. [working EXCEPT !.status = "syncing"] \in StateType
      BY DEF Statuses
    <3>2. working' = [[working EXCEPT !.status = "syncing"] EXCEPT !.tripped = FALSE]
      BY <2>3 DEF CycleBegins
    <3> QED BY <2>3, <3>1, <3>2 DEF CycleBegins
  <2>4. CASE Unconfigured \/ ReadFails
    BY <2>4 DEF Unconfigured, ReadFails, Statuses
  <2>5. CASE Discover
    BY <2>2, <2>5 DEF Discover
  <2>6. CASE DiscoverStumbles
    BY <2>6 DEF DiscoverStumbles
  <2>7. CASE DiscoverFails
    <3>1. Reported(working, FALSE) \in StateType
      OBVIOUS
    <3> QED BY <2>7, <3>1 DEF DiscoverFails, Statuses
  <2>8. CASE ProvisionRequired
    <3> DEFINE s1 == [working EXCEPT !.status = "provision"]
    <3>1. s1 \in StateType
      BY DEF Statuses
    <3>2. working' = [s1 EXCEPT !.plan = NoPlan] /\ published' = working'
      BY <2>8 DEF ProvisionRequired
    <3> HIDE DEF s1
    <3> QED BY <3>1, <3>2
  <2>9. CASE RestartSucceeds \/ RestartRefused
    BY <2>9 DEF RestartSucceeds, RestartRefused
  <2>10. CASE MakePlan
    BY <2>2, <2>10 DEF MakePlan
  <2>11. CASE DryRunEnds
    <3>1. [working EXCEPT !.status = "dry_synced"] \in StateType
      BY DEF Statuses
    <3>2. working' = [[working EXCEPT !.status = "dry_synced"] EXCEPT !.everSynced = TRUE]
      BY <2>11 DEF DryRunEnds
    <3> QED BY <2>11, <3>1, <3>2 DEF DryRunEnds
  <2>12. CASE Blocked
    <3>1. [working EXCEPT !.status = "safety_guard_tripped"] \in StateType
      BY DEF Statuses
    <3>2. working' = [[working EXCEPT !.status = "safety_guard_tripped"] EXCEPT !.tripped = TRUE]
      BY <2>12 DEF Blocked
    <3> QED BY <2>12, <3>1, <3>2 DEF Blocked
  <2>13. CASE Finish
    <3>1. PICK failed \in BOOLEAN :
            LET bad == failed \/ working.discovered \in Strained IN
            EndsWith([working EXCEPT
                        !.services = [of |-> working.discovered, bad |-> bad],
                        !.status = IF bad THEN "degraded" ELSE "synced",
                        !.everSynced = TRUE])
      BY <2>13 DEF Finish
    <3> DEFINE bad == failed \/ working.discovered \in Strained
               s1 == [working EXCEPT !.services = [of |-> working.discovered, bad |-> bad]]
               s2 == [s1 EXCEPT !.status = IF bad THEN "degraded" ELSE "synced"]
    <3>2. s1 \in StateType
      BY <2>2
    <3>3. s2 \in StateType
      <4> HIDE DEF s1
      <4> QED BY <3>2 DEF Statuses
    <3>4. working' = [s2 EXCEPT !.everSynced = TRUE] /\ published' = working'
      BY <3>1
    <3> HIDE DEF s2
    <3> QED BY <3>3, <3>4
  <2>14. CASE ListenerReports
    BY <2>14 DEF ListenerReports
  <2>15. CASE Preview
    <3>1. CASE PreviewAsks \/ PreviewReturns
      BY <3>1 DEF PreviewAsks, PreviewReturns
    <3>2. CASE PreviewCollects(running, TRUE) \/ PreviewCollects(running, FALSE)
      BY <3>2 DEF PreviewCollects
    <3>3. CASE PreviewCaches
      <4> DEFINE s1 == [working EXCEPT !.plan = preview]
      <4>1. s1 \in StateType
        BY <3>3 DEF PreviewCaches
      <4>2. \/ working' = s1 /\ published' = s1
            \/ working' = working /\ published' = published
        BY <3>3 DEF PreviewCaches
      <4> HIDE DEF s1
      <4> QED BY <4>1, <4>2
    <3> QED BY <2>15, <3>1, <3>2, <3>3 DEF Preview
  <2>16. CASE Crash
    BY <2>1, <2>16 DEF Crash
  <2>17. CASE \/ ResolveDryRun \/ ResolveAndActivate \/ TokenStep \/ ContainersChange
              \/ TokenRotates \/ Exits \/ Starts \/ CalmDown \/ UNCHANGED vars
    BY <2>17 DEF ResolveDryRun, ResolveAndActivate, TokenStep, ContainersChange, TokenRotates,
                 Exits, Starts, CalmDown, vars, publicationVars
  <2> QED
    BY <2>3, <2>4, <2>5, <2>6, <2>7, <2>8, <2>9, <2>10, <2>11, <2>12, <2>13, <2>14, <2>15,
       <2>16, <2>17 DEF Next, Cycle, Environment
<1> QED
  BY <1>1, <1>2, <1>3, <1>4

LEMMA InitTyped == Init => TypeOK
<1> SUFFICES ASSUME Init PROVE TypeOK
  OBVIOUS
<1>1. ConnectorType
  <2>1. 1 \in Tokens
    BY ConnectorConstants DEF Tokens
  <2> QED BY <2>1 DEF Init, ConnectorInit, ConnectorType
<1>2. initial_state \in StateType
  BY DEF initial_state, StateType, Statuses, Plans
<1> QED BY <1>1, <1>2 DEF Init, PublicationInit, TypeOK
-----------------------------------------------------------------------------
(***************************************************************************)
(* The inductive invariant.                                                *)
(***************************************************************************)

LEMMA InitInv == Init => RuntimeInv
<1> SUFFICES ASSUME Init PROVE RuntimeInv
  OBVIOUS
<1>1. TypeOK
  BY InitTyped
<1>2. WholeInv
  BY DEF Init, PublicationInit, initial_state, WholeInv, Whole
<1>3. FileFollows /\ DebtKnown /\ Settled
  BY DEF Init, ConnectorInit, FileFollows, DebtKnown, Settled
<1> QED BY <1>1, <1>2, <1>3 DEF RuntimeInv

(* A published state is whole: a cycle publishes its own work only in      *)
(* "syncing" or at its end, and what others change does not touch a whole  *)
(* state: a preview caches its plan only where there is none.              *)
LEMMA StaysWhole ==
  ASSUME TypeOK, WholeInv, [Next]_vars
  PROVE  WholeInv'
<1> USE DEF WholeInv, Whole, Publish, Keep, EndsWith
<1>1. working \in StateType /\ working.discovered \in Plans
  BY DEF TypeOK, StateType
<1>2. CASE CycleBegins
  BY <1>1, <1>2 DEF CycleBegins, StateType
<1>3. CASE Unconfigured \/ ReadFails \/ DiscoverFails \/ ProvisionRequired \/ Blocked
  BY <1>1, <1>3
  DEF Unconfigured, ReadFails, DiscoverFails, ProvisionRequired, Blocked, Reported, StateType
<1>4. CASE Discover \/ DiscoverStumbles
  BY <1>1, <1>4 DEF Discover, DiscoverStumbles, Reported, StateType
<1>5. CASE RestartSucceeds \/ RestartRefused
  BY <1>1, <1>5 DEF RestartSucceeds, RestartRefused, Reported, StateType
<1>6. CASE MakePlan
  BY <1>1, <1>6 DEF MakePlan, StateType
<1>7. CASE DryRunEnds
  BY <1>1, <1>7 DEF DryRunEnds, StateType
<1>8. CASE Finish
  BY <1>1, <1>8 DEF Finish, StateType
<1>9. CASE ListenerReports
  BY <1>1, <1>9 DEF ListenerReports, Reported, StateType
<1>10. CASE Preview
  <2>1. CASE PreviewAsks \/ PreviewReturns
    BY <1>10, <2>1 DEF Preview, PreviewAsks, PreviewReturns
  <2>2. CASE pc = "idle" /\ (PreviewCollects(running, TRUE) \/ PreviewCollects(running, FALSE))
    BY <1>1, <1>10, <2>2 DEF Preview, PreviewCollects, Reported, StateType
  <2>3. CASE pc = "idle" /\ PreviewCaches
    <3>1. working.plan = NoPlan => working.plan # working.discovered
      BY <1>1, PublicationConstants DEF Plans
    <3> QED BY <1>1, <1>10, <2>3, <3>1 DEF Preview, PreviewCaches, StateType
  <2> QED BY <1>10, <2>1, <2>2, <2>3 DEF Preview
<1>11. CASE Crash
  BY <1>11 DEF Crash, initial_state
<1>12. CASE \/ ResolveDryRun \/ ResolveAndActivate \/ TokenStep \/ ContainersChange
            \/ TokenRotates \/ Exits \/ Starts \/ CalmDown \/ UNCHANGED vars
  BY <1>12 DEF ResolveDryRun, ResolveAndActivate, TokenStep, ContainersChange, TokenRotates,
               Exits, Starts, CalmDown, vars, publicationVars
<1> QED
  BY <1>2, <1>3, <1>4, <1>5, <1>6, <1>7, <1>8, <1>9, <1>10, <1>11, <1>12
  DEF Next, Cycle, Environment

(* A step that leaves the connector alone keeps what is known of it, if    *)
(* the cycle does not leave the activation in the middle.                  *)
LEMMA KnownMeanwhile ==
  ASSUME FileFollows, DebtKnown, UNCHANGED connectorVars,
         pc = "plan" /\ pc' # "plan" => doing \in {"done", "unwritten"}
  PROVE  FileFollows' /\ DebtKnown'
BY DEF FileFollows, DebtKnown, connectorVars

(* What is known of file, debt and connector stays true in every step.     *)
LEMMA StaysKnown ==
  ASSUME TypeOK, FileFollows, DebtKnown, Settled, [Next]_vars
  PROVE  FileFollows' /\ DebtKnown' /\ Settled'
<1>1. CASE \/ CycleBegins \/ Unconfigured \/ Discover \/ DiscoverStumbles \/ DiscoverFails
           \/ ReadFails \/ ProvisionRequired \/ DryRunEnds \/ Blocked \/ Finish
           \/ ListenerReports
  <2>1. UNCHANGED connectorVars /\ pc' \notin {"plan", "execute"}
    BY <1>1 DEF CycleBegins, Unconfigured, Discover, DiscoverStumbles, DiscoverFails, ReadFails,
                ProvisionRequired, DryRunEnds, Blocked, Finish, ListenerReports, EndsWith
  <2>2. pc = "plan" => doing \in {"done", "unwritten"}
    BY <1>1 DEF CycleBegins, Unconfigured, Discover, DiscoverStumbles, DiscoverFails, ReadFails,
                ProvisionRequired, DryRunEnds, Blocked, Finish, ListenerReports
  <2> QED BY <2>1, <2>2, KnownMeanwhile DEF Settled
<1>2. CASE ResolveDryRun
  BY <1>2, KnownMeanwhile DEF ResolveDryRun, Settled, world
<1>3. CASE ResolveAndActivate
  <2>1. /\ pc = "resolve" /\ pc' = "plan" /\ Activate
        /\ doing \in {"done", "unwritten"} /\ issued # None
    BY <1>3, ConnectorConstants
    DEF ResolveAndActivate, FileFollows, TypeOK, ConnectorType, Tokens
  <2>2. FileFollows'
    BY <2>1 DEF Activate, FileFollows
  <2>3. DebtKnown'
    BY <2>1 DEF Activate, DebtKnown
  <2>4. Settled'
    BY <2>1 DEF Activate, DebtKnown, Settled
  <2> QED BY <2>2, <2>3, <2>4
<1>4. CASE TokenStep
  <2>1. pc = "plan" /\ pc' = "plan"
    BY <1>4 DEF TokenStep
  <2>2. CASE WriteBegins
    BY <2>1, <2>2 DEF WriteBegins, FileFollows, DebtKnown, Settled
  <2>3. CASE WriteEnds
    BY <2>1, <2>3 DEF WriteEnds, FileFollows, DebtKnown, Settled
  <2>4. CASE WriteFails
    BY <2>1, <2>4 DEF WriteFails, FileFollows, DebtKnown, Settled
  <2> QED BY <1>4, <2>2, <2>3, <2>4 DEF TokenStep
<1>5. CASE RestartSucceeds
  BY <1>5 DEF RestartSucceeds, Restart, FileFollows, DebtKnown, Settled
<1>6. CASE RestartRefused
  <2>1. /\ pc = "plan" /\ pc' = "plan" /\ doing = "restart" /\ doing' = "done"
        /\ owed' = fetched /\ file' = file /\ ~working'.docker
    BY <1>6 DEF RestartRefused, RestartFails, Publish, Reported, TypeOK, StateType
  <2> QED BY <2>1 DEF FileFollows, DebtKnown, Settled
<1>7. CASE MakePlan
  <2>1. working'.docker = working.docker
    BY <1>7 DEF MakePlan, Keep, TypeOK, StateType
  <2>2. UNCHANGED <<connectorVars, settings>> /\ pc = "plan" /\ doing \in {"done", "unwritten"}
    BY <1>7 DEF MakePlan, world
  <2> QED BY <2>1, <2>2, KnownMeanwhile DEF Settled, connectorVars
<1>8. CASE Preview
  <2>1. UNCHANGED <<connectorVars, settings, pc>> /\ (pc = "idle" \/ working' = working)
    BY <1>8 DEF Preview, PreviewAsks, PreviewReturns, world
  <2> QED BY <2>1, KnownMeanwhile DEF Settled, connectorVars
<1>9. CASE ContainersChange \/ CalmDown \/ UNCHANGED vars
  <2>1. UNCHANGED <<connectorVars, settings, pc, working>>
    BY <1>9 DEF ContainersChange, CalmDown, vars, publicationVars
  <2> QED BY <2>1, KnownMeanwhile DEF Settled, connectorVars
<1>10. CASE TokenRotates \/ Exits \/ Starts
  BY <1>10 DEF TokenRotates, Rotates, Exits, ConnectorExits, Starts, ConnectorStarts, world,
               publicationVars, FileFollows, DebtKnown, Settled
<1>11. CASE Crash
  BY <1>11 DEF Crash, ConnectorCrash, FileFollows, DebtKnown, Settled
<1> QED
  BY <1>1, <1>2, <1>3, <1>4, <1>5, <1>6, <1>7, <1>8, <1>9, <1>10, <1>11
  DEF Next, Cycle, Environment

LEMMA InvStays == RuntimeInv /\ [Next]_vars => RuntimeInv'
BY NextTyped, StaysWhole, StaysKnown DEF RuntimeInv

LEMMA Invariance == Spec => []RuntimeInv
<1>1. Init => RuntimeInv
  BY InitInv
<1>2. RuntimeInv /\ [Next]_vars => RuntimeInv'
  BY InvStays
<1> QED BY <1>1, <1>2, PTL DEF Spec
-----------------------------------------------------------------------------
(***************************************************************************)
(* The theorems.                                                           *)
(***************************************************************************)

(* Every variable has its type in every reachable state.                   *)
THEOREM RuntimeTypeCorrect == Spec => []TypeOK
<1>1. RuntimeInv => TypeOK
  BY DEF RuntimeInv
<1> QED BY <1>1, Invariance, PTL

(* Whoever reads that a cycle has synchronized reads the services, the     *)
(* inventory and the plan of one cycle (state.py:49, bootstrap.py:66).     *)
THEOREM WholeSnapshotHolds == Spec => []WholeSnapshot
<1>1. RuntimeInv => WholeSnapshot
  BY DEF RuntimeInv, WholeInv, Whole, WholeSnapshot
<1> QED BY <1>1, Invariance, PTL

(* The step that ends a cycle as healthy: it had Docker all along, so the  *)
(* activation left nothing owed unless the token could not be written.     *)
LEMMA HealthyEnd ==
  ASSUME RuntimeInv, [Next]_vars,
         pc = "execute", pc' = "idle", ~settings.dryRun, health_state(published') = "healthy"
  PROVE  \/ doing = "unwritten"
         \/ /\ owed = None /\ file = fetched
            /\ dialled \in {fetched, None} \/ forgotten
<1>1. working \in StateType
  BY DEF RuntimeInv, TypeOK
<1>2. /\ published'.everSynced /\ published'.docker /\ ~published'.tripped
      /\ published'.status \in {"synced", "dry_synced"}
  BY DEF health_state
<1>3. CASE Finish
  <2>1. published'.docker = working.docker
    BY <1>1, <1>3 DEF Finish, EndsWith, Publish, StateType
  <2>2. working.docker /\ doing \in {"done", "unwritten"}
    BY <1>2, <2>1 DEF RuntimeInv, FileFollows
  <2>3. CASE doing = "done"
    <3>1. owed = None /\ file = fetched /\ fetched # None
      BY <2>2, <2>3 DEF RuntimeInv, Settled
    <3> QED BY <2>3, <3>1 DEF RuntimeInv, DebtKnown
  <2> QED BY <2>2, <2>3
<1>4. CASE Blocked
  BY <1>1, <1>2, <1>4 DEF Blocked, EndsWith, Publish, StateType
<1>5. CASE Crash
  BY <1>2, <1>5 DEF Crash, initial_state
<1>6. Finish \/ Blocked \/ Crash
  BY DEF Next, Cycle, Environment, vars, CycleBegins, Unconfigured, Discover, DiscoverStumbles,
      DiscoverFails, ReadFails, ProvisionRequired, ResolveDryRun, ResolveAndActivate, TokenStep,
      RestartSucceeds, RestartRefused, MakePlan, DryRunEnds, ListenerReports, Preview,
      ContainersChange, TokenRotates, Exits, Starts, CalmDown
<1> QED BY <1>3, <1>4, <1>5, <1>6

(* A cycle that ends healthy has settled the connector, with the two       *)
(* exceptions the code makes (executor.py:112, :103).                      *)
THEOREM HealthyIsConnectedHolds == Spec => HealthyIsConnected
<1>1. RuntimeInv /\ [Next]_vars =>
        [pc = "execute" /\ pc' = "idle" /\ ~settings.dryRun /\ health_state(published') = "healthy" =>
           \/ doing = "unwritten"
           \/ /\ owed = None /\ file = fetched
              /\ dialled \in {fetched, None} \/ forgotten]_vars
  BY HealthyEnd
<1> QED BY <1>1, Invariance, PTL DEF Spec, HealthyIsConnected
=============================================================================
