------------------------------- MODULE Labels -------------------------------
(***************************************************************************)
(* How a container's labels become a hostname and an origin                *)
(* (domain/labels.py, domain/discovery.py).                                *)
(*                                                                         *)
(* A setting has several label spellings.  A group of labels is the tuple  *)
(* of their values in order of precedence, Absent where the label is       *)
(* absent or empty.  A value is what its text means:                       *)
(*   hostname    the sequence of its DNS labels, after scheme, user, port, *)
(*               path, trailing dots and capitals are taken off; Bad is a  *)
(*               DNS label that RFC 1123 forbids, Star is "*"              *)
(*   port        its number, or Bad when it is no number                   *)
(*   TLS option  TRUE, FALSE, or Bad when it is neither yes nor no         *)
(*   service     what kind of address its URL has, or Bad when it is blank *)
(*   other text  a value of its own, or Bad when it is blank               *)
(***************************************************************************)
EXTENDS Integers, SequencesExt

CONSTANTS Absent, Bad, Star

ASSUME TextsDistinct ==
  Bad # Star /\ Absent \notin {Bad, Star} /\ {Absent, Bad} \cap BOOLEAN = {}

(* first_label: the first spelling that is given. *)
FirstLabel(group) ==
  LET given == {i \in DOMAIN group : group[i] # Absent}
  IN  IF given = {} THEN Absent ELSE group[Min(given)]

(* A text that is blank counts as not given, and hides other spellings.    *)
Text(group) == IF FirstLabel(group) = Bad THEN Absent ELSE FirstLabel(group)

(* normalize_hostname *)
Normalized(text) ==
  IF \/ text = Absent \/ text = <<>>
     \/ \E i \in DOMAIN text : text[i] = Bad \/ (text[i] = Star /\ (i > 1 \/ Len(text) < 2))
    THEN Absent ELSE text

(* The hostname is the configured domain or below it. *)
InDomain(name, domain) == IsSuffix(domain, name)
-----------------------------------------------------------------------------
(***************************************************************************)
(* The origin.                                                             *)
(***************************************************************************)
Protocols == {"http", "https", "other"}

Protocol(group) ==
  LET p == FirstLabel(group) IN IF p \in Protocols THEN p ELSE "http"

ValidPort(p) == p \in Int /\ 1 <= p /\ p <= 65535

(* A bug: an unusable port label falls through to the next spelling.       *)
PortFallsThrough(l) ==
  LET usable == {i \in DOMAIN l.port : l.port[i] \notin {Absent, Bad} /\ ValidPort(l.port[i])} IN
  IF usable # {} THEN l.port[Min(usable)]
  ELSE IF l.inspected # Absent /\ ValidPort(l.inspected) THEN l.inspected
  ELSE IF Protocol(l.protocol) = "https" THEN 443 ELSE 80

(* The labelled port, else the first private port Docker reports, else the *)
(* protocol's own.                                                         *)
Port(l) ==
  LET label == FirstLabel(l.port) IN
  IF label # Absent /\ label # Bad /\ ValidPort(label) THEN label
  ELSE IF l.inspected # Absent /\ ValidPort(l.inspected) THEN l.inspected
  ELSE IF Protocol(l.protocol) = "https" THEN 443 ELSE 80

(* The switches of TLS verification in order of precedence: modern, legacy *)
(* and shorthand, each first as "no verify" and then as "verify".          *)
TlsGroups == <<"modernOff", "modernOn", "legacyOff", "legacyOn", "shortOff", "shortOn">>

Off(group) == group \in {"modernOff", "legacyOff", "shortOff"}

(* A bug: a switch that reads neither yes nor no counts as a no. *)
NoTlsVerifyStopsAtText(l) ==
  LET given == {i \in DOMAIN TlsGroups : FirstLabel(l.tls[TlsGroups[i]]) # Absent}
      first == TlsGroups[Min(given)]
  IN  given # {} /\ (FirstLabel(l.tls[first]) = TRUE) = Off(first)

NoTlsVerify(l) ==
  LET readable == {i \in DOMAIN TlsGroups : FirstLabel(l.tls[TlsGroups[i]]) \notin {Absent, Bad}}
      first    == TlsGroups[Min(readable)]
  IN  readable # {} /\ FirstLabel(l.tls[first]) = Off(first)

(* parse_origin_labels.  An explicit service has its own port.             *)
ParseOrigin(l) ==
  LET explicit == Text(l.service) IN
  [target |-> IF explicit = Absent THEN "container" ELSE explicit,
   proto  |-> IF explicit = Absent THEN Protocol(l.protocol) ELSE Absent,
   port   |-> IF explicit = Absent THEN Port(l) ELSE Absent,
   noTls  |-> NoTlsVerify(l),
   server |-> Text(l.server),
   header |-> Text(l.header)]
=============================================================================
