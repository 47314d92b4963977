------------------------------- MODULE Alerts -------------------------------
(***************************************************************************)
(* Alerts about failed cycles (adapters/notifications.py), as run_once     *)
(* dispatches them.  The dispatcher remembers when it delivered an alert   *)
(* of a kind and is silent about this kind for a cooldown.                 *)
(*                                                                         *)
(* A webhook is configured.  Not every cycle that fails dispatches an      *)
(* alert: one that finds Docker down, no zone or no account returns        *)
(* without one, and a dry run never sends any.                             *)
(***************************************************************************)
EXTENDS Naturals, FiniteSetsExt

CONSTANTS
  Kinds,      \* degraded, safety guard tripped, failure: one event and title each
  Cooldown,   \* NOTIFICATION_COOLDOWN_SECONDS, in ticks
  NoKind

ASSUME AlertConstants == Cooldown \in Nat \ {0} /\ NoKind \notin Kinds

VARIABLES
  sent,      \* time since the dispatcher marked a kind as sent, at most Cooldown
  received,  \* history: time since the receiver got one, at most Cooldown
  doubtful,  \* history: kinds whose last alert arrived without the dispatcher knowing
  diverted,  \* history: kinds whose last mark stands for a redirect
  owing,     \* history: kinds whose last alert was dispatched in vain
  last       \* the cycle that just ended: its kind and what became of its alert

alertVars == <<sent, received, doubtful, diverted, owing, last>>

Expired == [k \in Kinds |-> Cooldown]

Quiet == [kind |-> NoKind, how |-> "none"]

AlertInit ==
  /\ sent = Expired /\ received = Expired
  /\ doubtful = {} /\ diverted = {} /\ owing = {}
  /\ last = Quiet

should_throttle(k) == sent[k] < Cooldown

CycleSucceeds == last' = Quiet /\ UNCHANGED <<sent, received, doubtful, diverted, owing>>

(* The cycle fails and dispatches nothing. *)
FailsSilently ==
  /\ last' = [kind |-> NoKind, how |-> "silent"]
  /\ UNCHANGED <<sent, received, doubtful, diverted, owing>>

Throttled(k) ==
  /\ should_throttle(k)
  /\ last' = [kind |-> k, how |-> "throttled"]
  /\ UNCHANGED <<sent, received, doubtful, diverted, owing>>

Delivered(k) ==
  /\ ~should_throttle(k)
  /\ sent' = [sent EXCEPT ![k] = 0]
  /\ received' = [received EXCEPT ![k] = 0]
  /\ doubtful' = doubtful \ {k} /\ diverted' = diverted \ {k} /\ owing' = owing \ {k}
  /\ last' = [kind |-> k, how |-> "delivered"]

(* The webhook answers with a redirect, which is not followed and is no    *)
(* error: the alert counts as delivered and nobody got it.                 *)
Redirected(k) ==
  /\ ~should_throttle(k)
  /\ sent' = [sent EXCEPT ![k] = 0]
  /\ diverted' = diverted \cup {k} /\ owing' = owing \ {k}
  /\ last' = [kind |-> k, how |-> "delivered"]
  /\ UNCHANGED <<received, doubtful>>

(* A bug: an alert is marked as sent before it is. *)
UndeliveredMarked(k, arrived) ==
  /\ ~should_throttle(k)
  /\ sent' = [sent EXCEPT ![k] = 0]
  /\ received' = IF arrived THEN [received EXCEPT ![k] = 0] ELSE received
  /\ doubtful' = IF arrived THEN doubtful \cup {k} ELSE doubtful
  /\ owing' = owing \cup {k}
  /\ last' = [kind |-> k, how |-> "failed"]
  /\ UNCHANGED diverted

(* The webhook cannot be reached or answers with an error; or the alert    *)
(* arrives and the answer does not.  Nothing is marked.                    *)
Undelivered(k, arrived) ==
  /\ ~should_throttle(k)
  /\ received' = IF arrived THEN [received EXCEPT ![k] = 0] ELSE received
  /\ doubtful' = IF arrived THEN doubtful \cup {k} ELSE doubtful
  /\ owing' = owing \cup {k}
  /\ last' = [kind |-> k, how |-> "failed"]
  /\ UNCHANGED <<sent, diverted>>

(* A cycle that fails and dispatches an alert of kind k. *)
CycleFails(k) ==
  \/ Throttled(k) \/ Delivered(k) \/ Redirected(k)
  \/ \E arrived \in BOOLEAN : Undelivered(k, arrived)

Later(age) == IF age < Cooldown THEN age + 1 ELSE Cooldown

TimePasses ==
  /\ sent' = [k \in Kinds |-> Later(sent[k])]
  /\ received' = [k \in Kinds |-> Later(received[k])]
  /\ last' = Quiet
  /\ UNCHANGED <<doubtful, diverted, owing>>

(* The process restarts: the cache was in memory. *)
Restarted ==
  /\ sent' = Expired
  /\ doubtful' = doubtful \cup {k \in Kinds : received[k] < Cooldown}
  /\ last' = Quiet
  /\ UNCHANGED <<received, diverted, owing>>

AlertNext ==
  \/ CycleSucceeds \/ FailsSilently \/ (\E k \in Kinds : CycleFails(k))
  \/ TimePasses \/ Restarted
-----------------------------------------------------------------------------
(* Of the failing cycles that dispatch an alert, the receiver misses none  *)
(* for long: an alert of the kind came in with the cycle or less than a    *)
(* cooldown before it, unless the delivery failed, and then no such cycle  *)
(* is silent until one is delivered, or the webhook answered the last one  *)
(* with a redirect.  And no second alert of a kind comes within a          *)
(* cooldown, except after an answer that was lost or a restart.  Nothing   *)
(* is promised of the failing cycles that dispatch none (FailsSilently).   *)
AlertsKept ==
  [][/\ last'.how \in {"throttled", "delivered"} =>
          received'[last'.kind] < Cooldown \/ last'.kind \in diverted'
     /\ last'.how = "throttled" => last'.kind \notin owing
     /\ \A k \in Kinds : received'[k] < received[k] => received[k] = Cooldown \/ k \in doubtful
    ]_alertVars
=============================================================================
