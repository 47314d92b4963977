---------------------------- MODULE MCDiscovery ----------------------------
(***************************************************************************)
(* Checks discovery over every list of up to MaxContainers containers of   *)
(* the kinds below, and the label rules over every choice of up to         *)
(* MaxLabels labels.                                                       *)
(***************************************************************************)
EXTENDS Discovery

CONSTANTS
  MaxContainers,   \* bound on the length of Docker's list
  MaxLabels        \* bound on the labels of the container that is parsed

ASSUME BoundsNat == MaxContainers \in Nat /\ MaxLabels \in Nat

const_Domain == <<"d">>
const_Tunnel == "mine"

VARIABLES
  env,      \* the settings discovery reads
  actual,   \* the containers there are, in Docker's order
  answer,   \* [reply, helper]: how the request went, and who asked
  labels    \* the labels of one container

discoveryVars == <<env, actual, answer>>
-----------------------------------------------------------------------------
(***************************************************************************)
(* The kinds of container.                                                 *)
(***************************************************************************)
NoLabels ==
  [service |-> <<Absent, Absent>>, port |-> <<Absent, Absent>>,
   protocol |-> <<Absent, Absent>>, inspected |-> Absent,
   tls |-> [g \in ToSet(TlsGroups) |-> <<Absent, Absent>>],
   server |-> <<Absent, Absent>>, header |-> <<Absent, Absent>>]

Web ==
  [name |-> "web", dotted |-> FALSE, project |-> "ours", service |-> "web",
   self |-> FALSE, running |-> TRUE,
   nets |-> {"n1"}, mode |-> "bridge", host |-> <<Absent, <<"a", "d">>>>,
   tunnel |-> <<Absent>>, origin |-> NoLabels, readable |-> TRUE]

Named(c, h) == [c EXCEPT !.host = <<h, Absent>>]

Away(c) == [c EXCEPT !.nets = {"n2"}]

External(c) == [c EXCEPT !.origin.service = <<"external", Absent>>]

Webs ==
  {Web, Away(Web), External(Away(Web)), [Web EXCEPT !.running = FALSE],
   [Web EXCEPT !.tunnel = <<"other">>], [Away(Web) EXCEPT !.tunnel = <<Tunnel>>],
   [Away(Web) EXCEPT !.mode = "host"], [Away(Web) EXCEPT !.name = "web.1", !.dotted = TRUE],
   [Web EXCEPT !.readable = FALSE]}
  \cup {Named(Web, h) : h \in {<<"d">>, <<Star, "d">>, <<"a", "x">>, <<Bad, "d">>,
                               <<"a", Star>>, <<>>}}

Sync == [Web EXCEPT !.name = "sync", !.service = "tunnel-sync", !.self = TRUE,
                    !.host = <<Absent, Absent>>]

Connectors ==
  [name : {"cloudflared", "cf"}, dotted : {FALSE}, project : {"ours", "theirs"},
   service : {"cloudflared"}, self : {FALSE}, running : {TRUE}, nets : {{"n2"}},
   mode : {"bridge", "host"}, host : {<<Absent, Absent>>}, tunnel : {<<Absent>>},
   origin : {NoLabels}, readable : {TRUE}]

AnyContainer == Webs \cup {Sync} \cup Connectors

AnyEnv == [strict : BOOLEAN, network : {Absent, "n1"}, connector : {Absent, "cf"}]
-----------------------------------------------------------------------------
DiscoveryIdle ==
  /\ env = [strict |-> FALSE, network |-> Absent, connector |-> Absent]
  /\ actual = <<>>
  /\ answer = [reply |-> "list", helper |-> FALSE]

(* The helpers differ only where Docker is unavailable.                    *)
DiscoveryInit ==
  /\ env \in AnyEnv /\ actual = <<>>
  /\ answer \in [reply : {"list", "other", "error"}, helper : {FALSE}]
                \cup [reply : {"unavailable"}, helper : BOOLEAN]

DiscoveryNext ==
  /\ Len(actual) < MaxContainers
  /\ answer.reply = "list" \/ actual = <<>>
  /\ \E c \in AnyContainer : actual' = Append(actual, c)
  /\ UNCHANGED <<env, answer>>

Read(containers) ==
  IF answer.helper THEN GetDockerContainers(env, answer.reply, containers)
  ELSE Collected(env, answer.reply, containers)
-----------------------------------------------------------------------------
LabelsIdle == labels = NoLabels

LabelsInit == labels \in {NoLabels, [NoLabels EXCEPT !.inspected = 8080],
                          [NoLabels EXCEPT !.inspected = 0]}

Labelled == {g \in {"service", "port", "protocol", "server", "header"} \X (1 .. 2) :
               labels[g[1]][g[2]] # Absent}

TlsLabelled == {g \in ToSet(TlsGroups) \X (1 .. 2) : labels.tls[g[1]][g[2]] # Absent}

Values(group) ==
  CASE group = "service"  -> {"loopback", Bad}
    [] group = "port"     -> {80, 65535, 65536, Bad}
    [] group = "protocol" -> {"https", Bad}
    [] OTHER              -> {"text", Bad}

AddLabel ==
  /\ Cardinality(Labelled) + Cardinality(TlsLabelled) < MaxLabels
  /\ \/ \E g \in {"service", "port", "protocol", "server", "header"}, rank \in 1 .. 2 :
          \E v \in Values(g) :
            labels[g][rank] = Absent /\ labels' = [labels EXCEPT ![g][rank] = v]
     \/ \E g \in ToSet(TlsGroups), rank \in 1 .. 2, v \in {TRUE, FALSE, Bad} :
          labels.tls[g][rank] = Absent /\ labels' = [labels EXCEPT !.tls[g][rank] = v]
-----------------------------------------------------------------------------
(***************************************************************************)
(* Properties of discovery.                                                *)
(***************************************************************************)
Asking(h) == {i \in DOMAIN actual : Asks(actual[i]) /\ Hostname(actual[i]) = h}

AskedFor == {Hostname(actual[i]) : i \in {j \in DOMAIN actual : Asks(actual[j])}}

(* A hostname that a usable inventory lacks is one that no running         *)
(* container in scope asks for, or whose first such container the strict   *)
(* network check excludes: absence starts the grace period, so no failed   *)
(* request, unreadable container or empty list that stands for a daemon    *)
(* out of reach may look like it.  A hostname it has is listed once, with  *)
(* the first container that asks for it (docs/labels.md, duplicates).      *)
InventoryIsTrue ==
  LET inv == Read(actual)
      nets == ConnectorNets(actual, env)
      listed(h) == {i \in DOMAIN inv.services : inv.services[i].hostname = h}
  IN  inv.verdict = "available" =>
        /\ \A h \in AskedFor :
             LET first == Service(actual[Min(Asking(h))], nets) IN
             \/ \E i \in DOMAIN inv.services : listed(h) = {i} /\ inv.services[i] = first
             \/ listed(h) = {} /\ env.strict /\ ~first.connected
        /\ \A i \in DOMAIN inv.services : inv.services[i].hostname \in AskedFor

(* Docker's order decides nothing as long as no hostname is asked for      *)
(* twice and one container only could be the connector: the same services  *)
(* with the same origins and the same connector come out, so a restart     *)
(* that reorders the list does not make routes change.                     *)
OrderIndependent ==
  LET turned == Reverse(actual)
      candidates == {i \in DOMAIN actual : {"cloudflared", env.connector}
                                             \cap {actual[i].name, actual[i].service} # {}}
  IN  (\A h \in AskedFor : Cardinality(Asking(h)) = 1) /\ Cardinality(candidates) <= 1 =>
        /\ ToSet(Read(turned).services) = ToSet(Read(actual).services)
        /\ Read(turned).verdict = Read(actual).verdict
        /\ ConnectorName(turned, env.connector) = ConnectorName(actual, env.connector)
-----------------------------------------------------------------------------
(***************************************************************************)
(* Properties of the label rules.                                          *)
(***************************************************************************)

(* "Modern labels take precedence over legacy ones": once a spelling is    *)
(* given, whatever it says, a spelling that ranks below it in the same     *)
(* group changes nothing of the origin, and once a TLS switch is readable, *)
(* no switch that ranks below it does (domain/labels.py).                  *)
LabelPrecedence ==
  /\ \A g \in {"service", "port", "protocol", "server", "header"} :
       labels[g][1] # Absent =>
         ParseOrigin([labels EXCEPT ![g][2] = Absent]) = ParseOrigin(labels)
  /\ \A i, j \in DOMAIN TlsGroups :
       i < j /\ FirstLabel(labels.tls[TlsGroups[i]]) \in BOOLEAN =>
         ParseOrigin([labels EXCEPT !.tls[TlsGroups[j]] = <<Absent, Absent>>])
           = ParseOrigin(labels)

(* TLS verification is switched off by a label that says so, and by none   *)
(* that cannot be read; the origin always has a port to be dialled at.     *)
VerifiedUnlessAsked ==
  LET origin == ParseOrigin(labels) IN
  /\ origin.noTls =>
       \E i \in DOMAIN TlsGroups, rank \in 1 .. 2 :
         labels.tls[TlsGroups[i]][rank] = Off(TlsGroups[i])
  /\ origin.target = "container" => ValidPort(origin.port)
=============================================================================
