------------------------------ MODULE Planner ------------------------------
(***************************************************************************)
(* The pure reconciler: which ownership a DNS record has (domain/models.py)*)
(* which records a cycle sees (application/sync.py, RemoteFetcher), the    *)
(* plan for one snapshot (domain/planner.py) and the deletion policy that  *)
(* gates its execution (application/executor.py).                          *)
(*                                                                         *)
(* The plan decides host by host, so it is written as one operator per     *)
(* decision on a host h.  A view is what one cycle read:                   *)
(*   origins  the route each discovered host asks for, None when absent    *)
(*   roots    the first root ingress rule of each host, None when absent   *)
(*   dns      the DNS record fetched for each host, None when absent       *)
(*   tomb     the AGE of the host's tombstone (now - timestamp), or None   *)
(*   dockerOk the snapshot's docker_ok                                     *)
(*   merged   the ordered table is what merge_ingress makes of those roots *)
(*            (IngressMerge: roots before hostless rules, a catch-all)     *)
(* A route is the pair (service, originRequest), compared as a whole.      *)
(***************************************************************************)
EXTENDS Integers, FiniteSets

CONSTANTS
  Hosts,     \* hostnames
  Routes,    \* (service, originRequest) pairs
  None       \* no record, no rule, no origin, no tombstone

ASSUME NoneAssumption == None \notin Routes /\ None \notin Nat

Policies == {"adopt_and_manage", "strict_tagged_only", "legacy_unrestricted"}

(* The comment of a record relative to this tunnel's tag: equal to it, the *)
(* tag of another synchronizer, any other text or none, or not a string.   *)
Comments == {"tag", "foreign", "plain", "malformed"}

Record == [type : {"CNAME", "other"}, content : {"tunnel", "elsewhere"},
           comment : Comments, proxied : BOOLEAN]

ASSUME NoneIsNoRecord == None \notin Record

(* What a CREATE or an UPDATE writes. *)
OwnedRecord == [type |-> "CNAME", content |-> "tunnel", comment |-> "tag", proxied |-> TRUE]

Settings == [policy : Policies, grace : Nat, immediate : BOOLEAN, preserveRoots : BOOLEAN,
             maxDeletions : Nat, ratio : Nat, allowMass : BOOLEAN,
             dryRun : BOOLEAN, persist : BOOLEAN, configured : BOOLEAN]

View == [dockerOk : BOOLEAN, origins : [Hosts -> Routes \cup {None}],
         roots : [Hosts -> Routes \cup {None}], dns : [Hosts -> Record \cup {None}],
         tomb : [Hosts -> Nat \cup {None}], merged : BOOLEAN]

DnsActions == {"none", "noop", "create", "update", "delete", "protect"}

IngressActions == {"none", "noop", "create", "update", "delete"}
-----------------------------------------------------------------------------
(***************************************************************************)
(* Ownership of a record.                                                  *)
(***************************************************************************)
ParseStatus(rec, activeLocal) ==
  IF rec.type # "CNAME" \/ rec.content # "tunnel" THEN "unrelated"
  ELSE IF rec.comment = "malformed" THEN "unmanaged"
  ELSE IF rec.comment = "tag" THEN "owned"
  ELSE IF rec.comment = "foreign" THEN "foreign_tunnel"
  ELSE IF activeLocal THEN "adopted" ELSE "unmanaged"

Owned(rec) == rec # None /\ ParseStatus(rec, FALSE) = "owned"

(***************************************************************************)
(* The DNS read: one batch listing with reads per missing host, and the    *)
(* reads that replace it when the batch raises.  `wanted` are the hosts    *)
(* discovered; both return the hosts whose record the cycle sees.          *)
(***************************************************************************)
Cnames(dns) == {h \in Hosts : dns[h] # None /\ dns[h].type = "CNAME"}

OnTunnel(dns) == {h \in Cnames(dns) : dns[h].content = "tunnel"}

FetchBatch(dns, wanted) ==
  LET kept   == OnTunnel(dns) \cup (Cnames(dns) \cap wanted)
      seeded == IF kept = {} THEN OnTunnel(dns) ELSE kept
  IN  seeded \cup ((wanted \ seeded) \cap Cnames(dns))

FetchPerHost(dns, wanted) == OnTunnel(dns) \cup (wanted \cap Cnames(dns))

FetchDns(dns, wanted) ==
  [h \in Hosts |-> IF h \in FetchBatch(dns, wanted) THEN dns[h] ELSE None]
-----------------------------------------------------------------------------
(***************************************************************************)
(* The plan for one host.                                                  *)
(***************************************************************************)
Active(v, h) == v.origins[h] # None

(* ISS-08 opt-in: a root route whose DNS record is not ours is manual.     *)
KeepManualRoot(s, v, h) ==
  /\ s.preserveRoots
  /\ v.roots[h] # None
  /\ v.dns[h] # None /\ ~Owned(v.dns[h])

(* A bug: every root rule of an absent host is taken for a managed one. *)
ManagedRootAnyOwner(v, h) == v.roots[h] # None

(* A root rule of an absent host is managed only through its DNS record.   *)
ManagedRoot(v, h) == v.roots[h] # None /\ Owned(v.dns[h])

(* A bug: a tombstone makes any record of the host one to clean up. *)
ManagedRecordIfTombstoned(s, v, h) ==
  v.dns[h] # None /\ (Owned(v.dns[h]) \/ v.tomb[h] # None)

(* is_known_managed: the record of an absent host may be cleaned up.       *)
ManagedRecord(s, v, h) ==
  /\ v.dns[h] # None
  /\ v.dns[h].type # "CNAME" => v.dns[h].comment \in {"tag", "foreign"}
  /\ \/ Owned(v.dns[h])
     \/ /\ s.policy = "legacy_unrestricted"
        /\ \/ v.roots[h] # None
           \/ v.tomb[h] # None
           \/ s.immediate /\ v.dns[h].content = "tunnel"

(* A bug: a tombstone of any age counts as expired. *)
CleanupSecondCycle(s, v, h) ==
  IF s.immediate \/ s.grace <= 0 \/ v.tomb[h] # None THEN "delete" ELSE "tombstone"

(* What happens to a managed resource of an absent host. *)
Cleanup(s, v, h) ==
  IF s.immediate \/ s.grace <= 0 THEN "delete"
  ELSE IF v.tomb[h] = None THEN "tombstone"
  ELSE IF v.tomb[h] >= s.grace THEN "delete" ELSE "wait"

IngressAction(s, v, h) ==
  IF ~v.dockerOk THEN (IF v.roots[h] = None THEN "none" ELSE "noop")
  ELSE IF Active(v, h) THEN
    IF KeepManualRoot(s, v, h) THEN "noop"
    ELSE IF v.roots[h] = None THEN "create"
    ELSE IF v.roots[h] = v.origins[h] THEN "noop" ELSE "update"
  ELSE IF v.roots[h] = None THEN "none"
  ELSE IF ManagedRoot(v, h) /\ Cleanup(s, v, h) = "delete" THEN "delete" ELSE "noop"

(* The host's root rule in final_ingress_rules. *)
FinalRoot(s, v, h) ==
  IF IngressAction(s, v, h) \in {"create", "update"} THEN v.origins[h]
  ELSE IF IngressAction(s, v, h) = "delete" THEN None ELSE v.roots[h]

(* Bugs: an owned record is always rewritten; the policy that may adopt is *)
(* the wrong one.                                                          *)
DnsActionActiveRewrites(s, v, h) ==
  IF v.dns[h] = None THEN "create"
  ELSE IF ParseStatus(v.dns[h], TRUE) = "owned"
          \/ (ParseStatus(v.dns[h], TRUE) = "adopted" /\ s.policy # "strict_tagged_only")
       THEN "update" ELSE "protect"

DnsActionActiveSwapsPolicies(s, v, h) ==
  IF v.dns[h] = None THEN "create"
  ELSE LET status == ParseStatus(v.dns[h], TRUE) IN
    IF status = "owned" THEN (IF v.dns[h] = OwnedRecord THEN "noop" ELSE "update")
    ELSE IF status = "adopted" /\ s.policy # "adopt_and_manage" THEN "update"
    ELSE "protect"

DnsActionActive(s, v, h) ==
  IF v.dns[h] = None THEN "create"
  ELSE LET status == ParseStatus(v.dns[h], TRUE) IN
    IF status = "owned" THEN (IF v.dns[h] = OwnedRecord THEN "noop" ELSE "update")
    ELSE IF status = "adopted" /\ s.policy # "strict_tagged_only" THEN "update"
    ELSE "protect"

(* A bug: the ownership of the record is not looked at. *)
DnsActionAbsentAnyOwner(s, v, h) ==
  IF v.dns[h] = None THEN "none"
  ELSE IF Cleanup(s, v, h) = "delete" THEN "delete" ELSE "noop"

DnsActionAbsent(s, v, h) ==
  IF v.dns[h] = None THEN "none"
  ELSE IF v.dns[h].type # "CNAME" /\ v.dns[h].comment \notin {"tag", "foreign"} THEN "none"
  ELSE IF ~ManagedRecord(s, v, h) THEN "protect"
  ELSE IF Cleanup(s, v, h) = "delete" THEN "delete" ELSE "noop"

(* A bug: the records are planned although Docker is not at hand. *)
DnsActionWithoutDocker(s, v, h) ==
  IF Active(v, h) THEN DnsActionActive(s, v, h) ELSE DnsActionAbsent(s, v, h)

DnsAction(s, v, h) ==
  IF ~v.dockerOk THEN (IF v.dns[h] = None THEN "none" ELSE "protect")
  ELSE IF Active(v, h) THEN DnsActionActive(s, v, h)
  ELSE DnsActionAbsent(s, v, h)

(* An absent host with something of ours left. *)
Lingering(s, v, h) ==
  v.dockerOk /\ ~Active(v, h) /\ (ManagedRoot(v, h) \/ ManagedRecord(s, v, h))

TombstonesToSet(s, v) ==
  {h \in Hosts : Lingering(s, v, h) /\ Cleanup(s, v, h) = "tombstone"}

TombstonesToClear(s, v) ==
  {h \in Hosts : /\ v.dockerOk /\ v.tomb[h] # None
                 /\ Active(v, h) \/ (Lingering(s, v, h) /\ Cleanup(s, v, h) = "delete")}
-----------------------------------------------------------------------------
(***************************************************************************)
(* The whole plan, its summary counts and the guard on executing it.       *)
(***************************************************************************)
ComputePlan(s, v) ==
  [roots |-> [h \in Hosts |-> FinalRoot(s, v, h)],
   dns   |-> [h \in Hosts |-> DnsAction(s, v, h)],
   set   |-> TombstonesToSet(s, v),
   clear |-> TombstonesToClear(s, v),
   put   |-> v.dockerOk /\ (~v.merged \/ \E h \in Hosts : FinalRoot(s, v, h) # v.roots[h]),
   deletions |-> [ingress |-> {h \in Hosts : IngressAction(s, v, h) = "delete"},
                  dns     |-> {h \in Hosts : DnsAction(s, v, h) = "delete"}],
   total |-> IF v.dockerOk THEN Cardinality({h \in Hosts : Active(v, h)}) ELSE 0]

(* A bug: only the routes are counted. *)
DeletionCountRoutes(p) == Cardinality(p.deletions.ingress)

DeletionCount(p) ==
  LET i == Cardinality(p.deletions.ingress)
      d == Cardinality(p.deletions.dns)
  IN  IF i > d THEN i ELSE d

(* DeletionPolicy.validate raises; ratio is a percentage, 0 when unset.    *)
ExceedsBlastRadius(s, p) ==
  /\ ~s.allowMass
  /\ \/ DeletionCount(p) > s.maxDeletions
     \/ /\ s.ratio > 0 /\ p.total + DeletionCount(p) > 0
        /\ 100 * DeletionCount(p) > s.ratio * (p.total + DeletionCount(p))
=============================================================================
