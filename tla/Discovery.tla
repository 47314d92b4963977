----------------------------- MODULE Discovery ------------------------------
(***************************************************************************)
(* From Docker's container list to the inventory of one cycle              *)
(* (application/discovery.py, domain/discovery.py, domain/diagnostics.py). *)
(*                                                                         *)
(* A container is a record:                                                *)
(*   name, project, service   its name and its Compose labels              *)
(*   dotted     its name reads as an IP address or an external host name   *)
(*   self       it is the synchronizer's own container                     *)
(*   running, nets, mode      its state, networks and network mode         *)
(*   host, tunnel             the label groups of hostname and tunnel name *)
(*   origin     the label groups that ParseOrigin reads                    *)
(*   readable   FALSE when a field has a shape the code cannot handle      *)
(*                                                                         *)
(* An inventory with a verdict other than "available" ends the cycle.      *)
(***************************************************************************)
EXTENDS Labels, FiniteSets

CONSTANTS
  Domain,     \* the configured domain, a sequence of DNS labels
  Tunnel      \* the configured tunnel name
-----------------------------------------------------------------------------
(***************************************************************************)
(* The connector's container.  `wanted` is CLOUDFLARED_CONTAINER_NAME.     *)
(***************************************************************************)
(* The first of the list that passes. *)
FirstWhere(list, Test(_)) ==
  LET found == {i \in DOMAIN list : Test(list[i])}
  IN  IF found = {} THEN Absent ELSE list[Min(found)]

OwnProject(list) ==
  LET self == FirstWhere(list, LAMBDA c : c.self /\ c.project # Absent)
  IN  IF self = Absent THEN Absent ELSE self.project

(* By the configured name only; else the one of our own Compose project;   *)
(* else by name, of whichever project; else by service if there is one.    *)
Connector(list, wanted) ==
  LET project   == OwnProject(list)
      ours      == FirstWhere(list, LAMBDA c : /\ c.project = project
                                               /\ "cloudflared" \in {c.name, c.service})
      byName    == FirstWhere(list, LAMBDA c : c.name = "cloudflared")
      byService == {i \in DOMAIN list : list[i].service = "cloudflared"}
  IN  IF wanted # Absent THEN FirstWhere(list, LAMBDA c : wanted \in {c.name, c.service})
      ELSE IF project # Absent /\ ours # Absent THEN ours
      ELSE IF byName # Absent THEN byName
      ELSE IF Cardinality(byService) = 1 THEN list[Min(byService)] ELSE Absent

(* find_cloudflared_container_name: what the executor restarts. *)
ConnectorName(list, wanted) ==
  LET c == Connector(list, wanted) IN
  IF wanted # Absent THEN wanted ELSE IF c # Absent THEN c.name ELSE "cloudflared"

(* CF_NETWORK_NAME and the networks the connector is attached to. *)
ConnectorNets(list, env) ==
  LET c == Connector(list, env.connector) IN
  (IF env.network = Absent THEN {} ELSE {env.network})
    \cup (IF c = Absent THEN {} ELSE c.nets \cup (IF c.mode = "host" THEN {"host"} ELSE {}))

(* evaluate_origin_network_plausibility *)
Plausible(c, target, nets) ==
  \/ c.mode = "host" \/ "host" \in c.nets \/ "host" \in nets
  \/ target \in {"loopback", "external"} \/ (target = "container" /\ c.dotted)
  \/ c.nets \cap nets # {}
  \/ nets = {}
-----------------------------------------------------------------------------
(***************************************************************************)
(* The inventory.                                                          *)
(***************************************************************************)
Hostname(c) == Normalized(FirstLabel(c.host))

(* The container asks for its hostname, here and now. *)
Asks(c) ==
  /\ c.running
  /\ Hostname(c) # Absent /\ InDomain(Hostname(c), Domain)
  /\ FirstLabel(c.tunnel) \in {Absent, Tunnel}

Service(c, nets) ==
  LET origin == ParseOrigin(c.origin) IN
  [hostname |-> Hostname(c), container |-> c.name, origin |-> origin,
   connected |-> Plausible(c, origin.target, nets)]

(* One container.  The first that asks for a hostname takes it, even when  *)
(* the strict network check then excludes that container.                  *)
Collect(env, nets, m, c) ==
  IF ~Asks(c) \/ Hostname(c) \in m.seen THEN m
  ELSE LET s == Service(c, nets) IN
       [seen     |-> m.seen \cup {s.hostname},
        services |-> IF env.strict /\ ~s.connected THEN m.services ELSE Append(m.services, s)]

(* A bug: the connector is looked for while the containers are collected.  *)
ServicesInPassing(env, list) ==
  FoldLeft(LAMBDA m, i : Collect(env, ConnectorNets(SubSeq(list, 1, i), env), m, list[i]),
           [seen |-> {}, services |-> <<>>], [i \in DOMAIN list |-> i]).services

Services(env, list) ==
  FoldLeft(LAMBDA m, c : Collect(env, ConnectorNets(list, env), m, c),
           [seen |-> {}, services |-> <<>>], list).services

Unusable(verdict) == [verdict |-> verdict, services |-> <<>>, connected |-> FALSE]

(* A bug: an empty list is believed although the connection is down.       *)
DiscoverTrustsEmpty(env, reply, list, connected) ==
  IF reply = "unavailable" THEN Unusable("unavailable")
  ELSE IF reply # "list" \/ \E i \in DOMAIN list : ~list[i].readable THEN Unusable("degraded")
  ELSE [verdict |-> "available", services |-> Services(env, list), connected |-> TRUE]

(* _discover.  The reply is the list, something else, or an exception;     *)
(* `connected` is what is known of the connection after the request.       *)
Discover(env, reply, list, connected) ==
  IF reply = "unavailable" THEN Unusable("unavailable")
  ELSE IF reply # "list" \/ \E i \in DOMAIN list : ~list[i].readable THEN Unusable("degraded")
  ELSE IF list = <<>> /\ ~connected THEN Unusable("unavailable")
  ELSE [verdict |-> "available", services |-> Services(env, list), connected |-> TRUE]

(* collect: the connection counts as up until this read says otherwise.    *)
Collected(env, reply, list) == Discover(env, reply, list, TRUE)

(* get_docker_containers of the compatibility helpers, whose docker_api    *)
(* turns an unreachable daemon into an empty list, reported as down.       *)
GetDockerContainers(env, reply, list) ==
  IF reply = "unavailable" THEN Discover(env, "list", <<>>, FALSE)
  ELSE Discover(env, reply, list, reply = "list")
-----------------------------------------------------------------------------
(***************************************************************************)
(* The status of a service and of the cycle that published it.             *)
(***************************************************************************)

(* evaluate_service_stages and compute_truthful_service_status after       *)
(* StatusPublisher: a service in the inventory passed the label and domain *)
(* stages, so its networks and the writes of its cycle decide.             *)
ServiceStatus(s, ingressFailed, dnsFailed) ==
  IF ingressFailed \/ dnsFailed \/ ~s.connected THEN "degraded" ELSE "synced"

CycleStatus(services, ingressFailed, dnsFailed) ==
  IF \/ ingressFailed \/ dnsFailed
     \/ \E i \in DOMAIN services :
          ServiceStatus(services[i], ingressFailed, dnsFailed) = "degraded"
    THEN "degraded" ELSE "synced"
=============================================================================
