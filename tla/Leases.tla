------------------------------- MODULE Leases -------------------------------
(***************************************************************************)
(* What the synchronizer promises, without saying how it keeps the promise.*)
(*                                                                         *)
(* A hostname's route and record are held on a lease.  An inventory that   *)
(* lists the hostname renews it; the lease runs out when no inventory did  *)
(* so for as long as the order at hand says to wait, and only then may the *)
(* service take the route or the record away.  What the service sets is    *)
(* what the inventory asked for.  Without an order it writes nothing.      *)
(*                                                                         *)
(* Others write too.  `work` tells who did: only the service moves it, and *)
(* it moves with every write of the service, so no write of the service    *)
(* passes for an edit by others.                                           *)
(*                                                                         *)
(* There are no cycles here, no plan, no tombstones, no files and no       *)
(* failures: a write that fails is a write that does not happen.  SyncCycle*)
(* is shown to implement this specification.                               *)
(***************************************************************************)
EXTENDS Integers

CONSTANTS
  Hosts,    \* hostnames
  Routes,   \* what an inventory may ask for
  Ours,     \* the record the service writes
  MaxAge,   \* where ages saturate
  Stages,   \* where the service's work may stand
  None      \* nothing: no route, no record

VARIABLES
  route,    \* the tunnel's route for each host
  record,   \* the zone's record for each host
  quiet,    \* how long ago an inventory listed the host
  ordered,  \* an order is being carried out
  asked,    \* the inventory it is for
  wait,     \* how long it waits before it takes something away
  work,     \* where the service stands
  touched   \* hosts someone else edited since the last inventory

order == <<ordered, asked, wait>>

vars == <<route, record, quiet, order, work, touched>>

Nothing == [h \in Hosts |-> None]

Idle == ordered = FALSE /\ asked = Nothing /\ wait = 0

Init ==
  /\ route = Nothing /\ record = Nothing
  /\ quiet = [h \in Hosts |-> MaxAge]
  /\ Idle /\ work \in Stages /\ touched = {}
-----------------------------------------------------------------------------
(***************************************************************************)
(* The steps of the service.                                               *)
(***************************************************************************)
Works == work' \in Stages

(* An inventory is read and renews the leases of the hosts it lists.  It   *)
(* comes to nothing, or it becomes the order of the moment.                *)
Renew(seen) ==
  /\ quiet' = [h \in Hosts |-> IF h \in seen THEN 0 ELSE quiet[h]]
  /\ touched' = {}
  /\ Works /\ UNCHANGED <<route, record>>

RenewOnly ==
  \E seen \in SUBSET Hosts : Renew(seen) /\ Idle'

GiveOrder ==
  /\ ordered' = TRUE
  /\ asked' \in [Hosts -> Routes \cup {None}] /\ wait' \in 0 .. MaxAge
  /\ Renew({h \in Hosts : asked'[h] # None})

MaySet(h) == ordered /\ asked[h] # None

MayRemove(h) == ordered /\ asked[h] = None /\ quiet[h] >= wait

(* All routes are replaced in one write.  It takes back to what they were  *)
(* when the order was given those that others touched in the meantime.     *)
SetRoutes ==
  /\ route' # route => ordered
  /\ \A h \in Hosts \ touched : route'[h] # route[h] =>
       IF route'[h] = None THEN MayRemove(h) ELSE MaySet(h) /\ route'[h] = asked[h]
  /\ Works /\ UNCHANGED <<record, quiet, order, touched>>

(* Records are written one at a time. *)
SetRecord(h) ==
  /\ \E r \in {Ours, None} :
       /\ IF r = None THEN MayRemove(h) ELSE MaySet(h)
       /\ record' = [record EXCEPT ![h] = r]
  /\ Works /\ UNCHANGED <<route, quiet, order, touched>>

(* The service goes on and writes nothing, or a write of its fails. *)
Proceed == Works /\ UNCHANGED <<route, record, quiet, order, touched>>

(* The order is done with, or given up. *)
Rest ==
  /\ Idle'
  /\ Works /\ UNCHANGED <<route, record, quiet, touched>>

Service ==
  \/ RenewOnly \/ GiveOrder \/ SetRoutes \/ Proceed \/ Rest
  \/ \E h \in Hosts : SetRecord(h)
-----------------------------------------------------------------------------
(***************************************************************************)
(* What happens beside it, while its work stands still.                    *)
(***************************************************************************)

(* Someone else changes a route or a record of host h. *)
Edit(h) ==
  /\ \A g \in Hosts \ {h} : route'[g] = route[g] /\ record'[g] = record[g]
  /\ touched' = touched \cup {h}
  /\ UNCHANGED <<quiet, order, work>>

Tick ==
  /\ quiet' = [h \in Hosts |-> IF quiet[h] < MaxAge THEN quiet[h] + 1 ELSE quiet[h]]
  /\ UNCHANGED <<route, record, order, work, touched>>

Next == Service \/ Tick \/ \E h \in Hosts : Edit(h)

Spec == Init /\ [][Next]_vars
=============================================================================
