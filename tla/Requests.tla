------------------------------ MODULE Requests ------------------------------
(***************************************************************************)
(* One remote call and its retries: CloudflareClient.request, with the     *)
(* policy of adapters/retry.py, and DockerClient.request.                  *)
(*                                                                         *)
(* An attempt is answered, or ends in one of these ways:                   *)
(*   refused      a status that is no success and no sign of overload      *)
(*   busy         429 or a server error, perhaps with Retry-After          *)
(*   silent       a timeout or a network error                             *)
(*   broken       a reply that breaks the HTTP protocol                    *)
(*   unreadable   a success whose body is no JSON                          *)
(* In every way but the first the server may have done what it was asked.  *)
(* Times are in hundredths of a second, the shortest base delay there is.  *)
(***************************************************************************)
EXTENDS Integers, Sequences, FiniteSetsExt

CONSTANTS
  Limits,     \* the configured numbers of attempts
  BaseDelays, \* the values of CLOUDFLARE_RETRY_BASE_DELAY
  MaxDelay,   \* RetryPolicy.max_delay
  AfterGiven  \* the Retry-After values a server sends

ASSUME RequestConstants ==
  /\ Limits \subseteq Nat /\ BaseDelays \subseteq Nat \ {0}
  /\ MaxDelay \in Nat /\ MaxDelay >= 10 /\ AfterGiven \subseteq Int

VARIABLES
  call,      \* [client, once, limit, base]: once if the server refuses to do it twice
  attempts,  \* the attempts sent
  pause,     \* the last pause between two attempts, -1 before the first
  result,    \* "pending", "success", "failure"
  effects,   \* how often the server did what was asked
  unheard,   \* an attempt had its effect and was not answered
  cause,     \* how the last attempt ended, "none" before the first
  reported   \* what Docker's client last reported of the connection

requestVars == <<call, attempts, pause, result, effects, unheard, cause, reported>>

Failures == {"refused", "busy", "silent", "broken", "unreadable"}

(* What the client tries again. *)
Retries(client) == IF client = "docker" THEN {"silent", "broken"} ELSE {"busy", "silent"}

(* 2 ^ n, written out since the provers know nothing of powers. *)
TwoTo(n) == LET power[i \in 0 .. n] == IF i = 0 THEN 1 ELSE 2 * power[i - 1] IN power[n]

(* A bug: the pause doubles without a ceiling. *)
BackoffUncapped(base, n) == base * TwoTo(n - 1)

(* calculate_backoff_delay, without the jitter of up to a quarter. *)
Backoff(base, n) == Min({MaxDelay, base * TwoTo(n - 1)})

(* The Retry-After header: none, something else than a number (an HTTP     *)
(* date), or seconds.                                                      *)
Headers ==
  [kind : {"absent", "unreadable"}, value : {0}] \cup [kind : {"seconds"}, value : AfterGiven]

NoHeader == [kind |-> "absent", value |-> 0]

(* get_delay with parse_retry_after.  Docker's own back-off has no ceiling,*)
(* and the base delay that stands in for an unreadable header has none     *)
(* either.                                                                 *)
Pause(client, base, n, header) ==
  IF client = "docker" THEN 10 * TwoTo(n - 1)
  ELSE CASE header.kind = "absent"     -> Backoff(base, n)
         [] header.kind = "unreadable" -> base
         [] header.kind = "seconds"    -> Max({10, Min({MaxDelay, header.value})})

RequestInit ==
  /\ call \in [client : {"cloudflare", "docker"}, once : BOOLEAN, limit : Limits,
              base : BaseDelays]
  /\ attempts = 0 /\ pause = -1 /\ result = "pending" /\ effects = 0 /\ unheard = FALSE
  /\ cause = "none" /\ reported = "none"

Report(connected) == reported' = IF call.client = "docker" THEN connected ELSE reported

(* The server would do it, or does not mind doing it again. *)
Doable == ~call.once \/ effects = 0

Answered ==
  /\ result = "pending" /\ attempts < call.limit /\ Doable
  /\ attempts' = attempts + 1 /\ effects' = effects + 1
  /\ cause' = "answered" /\ result' = "success" /\ Report("up")
  /\ UNCHANGED <<call, pause, unheard>>

(* The attempt fails.  It is repeated if the client retries this failure   *)
(* and has an attempt left; a Docker client reports every failure.         *)
Fails(how, done, header) ==
  /\ result = "pending" /\ attempts < call.limit
  /\ done => Doable /\ how # "refused"
  /\ header # NoHeader => how = "busy" /\ call.client = "cloudflare"
  /\ attempts' = attempts + 1
  /\ effects' = IF done THEN effects + 1 ELSE effects
  /\ unheard' = (unheard \/ done)
  /\ cause' = how
  /\ IF how \in Retries(call.client) /\ attempts' < call.limit
       THEN result' = result /\ pause' = Pause(call.client, call.base, attempts', header)
       ELSE result' = "failure" /\ pause' = pause
  /\ Report("down")
  /\ UNCHANGED call

(* No attempt is configured, or Docker's socket does not exist. *)
Unsent ==
  /\ result = "pending" /\ attempts = 0
  /\ call.limit = 0 \/ call.client = "docker"
  /\ cause' = "unsent" /\ result' = "failure" /\ Report("down")
  /\ UNCHANGED <<call, attempts, pause, effects, unheard>>

RequestNext ==
  \/ Answered
  \/ \E how \in Failures, done \in BOOLEAN, header \in Headers : Fails(how, done, header)
  \/ Unsent
-----------------------------------------------------------------------------
(* A success was done and answered.  A failure was refused, cannot be      *)
(* repeated, or used up every attempt; if it was done all the same then a  *)
(* reply was lost, which is what SyncCycle takes a failed write to mean.   *)
(* What Docker's client last said of the connection is how its call ended. *)
(* No pause of Cloudflare's client ends at once, whatever the server asks  *)
(* for, and none outlasts the ceiling (with jitter, a quarter more): but a *)
(* Retry-After that is no number is answered with the configured base      *)
(* delay as it is, also above the ceiling (adapters/retry.py).             *)
OutcomeIsTrue ==
  /\ result = "success" => effects >= 1 /\ cause = "answered"
  /\ result = "failure" =>
       /\ effects >= 1 => unheard
       /\ \/ attempts = call.limit
          \/ cause \in {"refused", "unreadable"}
          \/ cause = IF call.client = "docker" THEN "busy" ELSE "broken"
          \/ cause = "unsent" /\ call.client = "docker"
  /\ call.client = "docker" /\ result # "pending" =>
       (reported = "up") <=> (result = "success")
  /\ attempts > 1 /\ call.client = "cloudflare" =>
       1 <= pause /\ (pause <= MaxDelay \/ pause = call.base)
=============================================================================
