----------------------------- MODULE Scheduler -----------------------------
(***************************************************************************)
(* When cycles run: the scheduler (runtime/scheduler.py), its debouncer    *)
(* (runtime/debounce.py), the Docker event listener (adapters/docker.py)   *)
(* and the two locks of run_once (application/sync.py).                    *)
(*                                                                         *)
(* Actors: the event loop, one thread that runs coroutines one at a time   *)
(* and gives way only where they await; the listener thread; and one       *)
(* worker thread per call of run_once.  Logging takes working_lock, which  *)
(* a cycle holds from its start to its end, so whoever logs waits for the  *)
(* cycle, the event loop included.                                         *)
(*                                                                         *)
(* What a cycle does with Docker and Cloudflare is SyncCycle's matter.     *)
(* Here it reads the inventory at one point, and `news` follows each       *)
(* container change from the moment it happens to the inventory that       *)
(* contains it.                                                            *)
(***************************************************************************)
EXTENDS Integers

CONSTANTS
  Changes,     \* container changes that may be under way at once
  Requests,    \* POST /api/sync requests that may be in flight at once
  Delay,       \* debounce delay, in ticks
  MaxDelay,    \* longest postponement by a burst
  Interval,    \* fallback interval
  Timeout,     \* shutdown timeout
  None         \* no owner, no deadline

(* Who may have a call of run_once under way, one each.                    *)
Runs == {"initial", "event", "periodic"} \cup Requests

ASSUME SchedulerAssumption ==
  /\ Delay \in Nat /\ MaxDelay \in Nat /\ Interval \in Nat /\ Timeout \in Nat
  /\ Requests \cap {"initial", "event", "periodic"} = {}
  /\ None \notin Runs /\ None \notin Nat

VARIABLES
  run,         \* each call of run_once: where it stands
  runLock,     \* RuntimeState.run_lock: its owner
  workLock,    \* RuntimeState.working_lock: the cycle that owns it
  loop,        \* the coroutine that occupies the event loop, or "free"
  due, cap,    \* debouncer deadlines, as ticks left
  ensure,      \* a call of _ensure_worker is queued on the loop
  worker,      \* the coalescing worker
  wake,        \* ticks left of the worker's sleep
  periodic,    \* fallback_loop
  beat,        \* ticks left of its sleep
  listener,    \* the Docker event thread
  closer,      \* Scheduler.close
  patience,    \* ticks left until the shutdown deadline
  news         \* how far the scheduler has got with each container change

debouncer == <<due, cap, ensure>>
vars == <<run, runLock, workLock, loop, due, cap, ensure, worker, wake, periodic, beat,
          listener, closer, patience, news>>

RunStates == {"none", "asked", "task", "entered", "holding", "discovered", "failed",
              "unlocking"}

TypeOK ==
  /\ run \in [Runs -> RunStates]
  /\ runLock \in Runs \cup {None} /\ workLock \in Runs \cup {None}
  /\ loop \in {"free", "event", "periodic"}
  /\ due \in 0 .. Delay \cup {None} /\ cap \in 0 .. MaxDelay \cup {None}
  /\ due = None <=> cap = None
  /\ ensure \in BOOLEAN
  /\ worker \in {"none", "check", "sleeping", "elapsed", "logging", "running", "done"}
  /\ wake \in 0 .. Delay
  /\ periodic \in {"sleeping", "logging", "running", "ended"}
  /\ beat \in 0 .. Interval
  /\ listener \in {"connecting", "dialing", "connected", "reading", "handling",
                   "triggering", "waiting", "stopped"}
  /\ closer \in {"open", "cancelling", "joining", "draining", "returned", "raised"}
  /\ patience \in 0 .. Timeout
  /\ news \in [Changes -> {"known", "streamed", "handled", "due", "taken", "missed"}]

closed == closer # "open"

(* close_events has shut the listener's socket down. *)
shut == closer \notin {"open", "cancelling"}

(* After start(): the initial cycle is asked for, the listener started.    *)
Init ==
  /\ run = [r \in Runs |-> IF r = "initial" THEN "asked" ELSE "none"]
  /\ runLock = None /\ workLock = None
  /\ loop = "free"
  /\ due = None /\ cap = None /\ ensure = FALSE
  /\ worker = "none" /\ wake = 0
  /\ periodic = "sleeping" /\ beat = Interval
  /\ listener = "connecting"
  /\ closer = "open" /\ patience = Timeout
  /\ news = [c \in Changes |-> "known"]
-----------------------------------------------------------------------------
(***************************************************************************)
(* run_once, in its worker thread.                                         *)
(***************************************************************************)
TakeRunLock(r) ==
  /\ run[r] = "task" /\ runLock = None
  /\ runLock' = r
  /\ run' = [run EXCEPT ![r] = "entered"]
  /\ UNCHANGED <<workLock, loop, debouncer, worker, wake, periodic, beat, listener,
                 closer, patience, news>>

(* "Sync already in progress, skipping concurrent run"; logged without the *)
(* working lock.                                                           *)
Skip(r) ==
  /\ run[r] = "task" /\ runLock # None
  /\ run' = [run EXCEPT ![r] = "none"]
  /\ news' = IF r = "event" /\ run[runLock] \notin {"entered", "holding"}
               THEN [c \in Changes |-> IF news[c] = "taken" THEN "missed" ELSE news[c]]
               ELSE news
  /\ UNCHANGED <<runLock, workLock, loop, debouncer, worker, wake, periodic, beat, listener,
                 closer, patience>>

(* A bug: the cycle runs outside working_lock, so log lines overtake it. *)
TakeWorkLockNever(r) ==
  /\ run[r] = "entered"
  /\ run' = [run EXCEPT ![r] = "holding"]
  /\ UNCHANGED <<runLock, workLock, loop, debouncer, worker, wake, periodic, beat, listener,
                 closer, patience, news>>

TakeWorkLock(r) ==
  /\ run[r] = "entered" /\ workLock = None
  /\ workLock' = r
  /\ run' = [run EXCEPT ![r] = "holding"]
  /\ UNCHANGED <<runLock, loop, debouncer, worker, wake, periodic, beat, listener, closer,
                 patience, news>>

(* The inventory is read: every change made so far is in it.               *)
Discover(r) ==
  /\ run[r] = "holding"
  /\ run' = [run EXCEPT ![r] = "discovered"]
  /\ news' = [c \in Changes |-> "known"]
  /\ UNCHANGED <<runLock, workLock, loop, debouncer, worker, wake, periodic, beat, listener,
                 closer, patience>>

(* Docker does not answer, or the settings are incomplete and the run      *)
(* returns before it asks.  Nothing asks again for what was signalled,     *)
(* unless the cycle it asked for is still to come.                         *)
DiscoverFails(r) ==
  /\ run[r] = "holding"
  /\ run' = [run EXCEPT ![r] = "failed"]
  /\ news' = IF worker = "logging" \/ run["event"] = "task" THEN news
             ELSE [c \in Changes |-> IF news[c] = "taken" THEN "missed" ELSE news[c]]
  /\ UNCHANGED <<runLock, workLock, loop, debouncer, worker, wake, periodic, beat, listener,
                 closer, patience>>

(* The `finally` releases the two locks one after the other.               *)
ReleaseWorkLock(r) ==
  /\ run[r] \in {"discovered", "failed"}
  /\ workLock' = None
  /\ run' = [run EXCEPT ![r] = "unlocking"]
  /\ UNCHANGED <<runLock, loop, debouncer, worker, wake, periodic, beat, listener, closer,
                 patience, news>>

ReleaseRunLock(r) ==
  /\ run[r] = "unlocking"
  /\ runLock' = None
  /\ run' = [run EXCEPT ![r] = "none"]
  /\ UNCHANGED <<workLock, loop, debouncer, worker, wake, periodic, beat, listener, closer,
                 patience, news>>
-----------------------------------------------------------------------------
(***************************************************************************)
(* The event loop: run_sync for the initial cycle and for requests.        *)
(***************************************************************************)
InitialSync ==
  /\ loop = "free" /\ run["initial"] = "asked"
  /\ run' = [run EXCEPT !["initial"] = IF closed THEN "none" ELSE "task"]
  /\ UNCHANGED <<runLock, workLock, loop, debouncer, worker, wake, periodic, beat, listener,
                 closer, patience, news>>

RequestSync(q) ==
  /\ loop = "free" /\ run[q] = "none" /\ ~closed
  /\ run' = [run EXCEPT ![q] = "task"]
  /\ UNCHANGED <<runLock, workLock, loop, debouncer, worker, wake, periodic, beat, listener,
                 closer, patience, news>>

-----------------------------------------------------------------------------
(***************************************************************************)
(* The event loop: the coalescing worker.                                  *)
(***************************************************************************)

(* A bug: a worker that has ended is never replaced. *)
EnsureWorkerOnce ==
  /\ loop = "free" /\ ensure
  /\ ensure' = FALSE
  /\ worker' = IF ~closed /\ worker = "none" THEN "check" ELSE worker
  /\ UNCHANGED <<run, runLock, workLock, loop, due, cap, wake, periodic, beat, listener,
                 closer, patience, news>>

EnsureWorker ==
  /\ loop = "free" /\ ensure
  /\ ensure' = FALSE
  /\ worker' = IF ~closed /\ worker \in {"none", "done"} THEN "check" ELSE worker
  /\ UNCHANGED <<run, runLock, workLock, loop, due, cap, wake, periodic, beat, listener,
                 closer, patience, news>>

(* The top of the worker's loop: end, sleep, or go straight on.            *)
WorkerChecks ==
  /\ worker = "check" /\ loop \in {"free", "event"}
  /\ \/ due = None /\ worker' = "done" /\ wake' = wake /\ loop' = "free"
     \/ due # None /\ due > 0 /\ worker' = "sleeping" /\ wake' = due /\ loop' = "free"
     \/ due = 0 /\ worker' = "elapsed" /\ wake' = wake /\ loop' = "event"
  /\ UNCHANGED <<run, runLock, workLock, debouncer, periodic, beat, listener, closer,
                 patience, news>>

WorkerWakes ==
  /\ loop = "free" /\ worker = "sleeping" /\ wake = 0
  /\ worker' = "elapsed" /\ loop' = "event"
  /\ UNCHANGED <<run, runLock, workLock, debouncer, wake, periodic, beat, listener, closer,
                 patience, news>>

(* A bug: the end of the burst is not reset with its deadline. *)
WorkerElapsesKeepsCap ==
  /\ loop = "event" /\ worker = "elapsed"
  /\ IF due # None /\ due > 0
       THEN worker' = "check" /\ UNCHANGED <<due, cap, news>>
       ELSE /\ worker' = "logging" /\ due' = None /\ cap' = cap
            /\ news' = [c \in Changes |-> IF news[c] = "due" THEN "taken" ELSE news[c]]
  /\ UNCHANGED <<run, runLock, workLock, loop, ensure, wake, periodic, beat, listener,
                 closer, patience>>

(* The deadline moved while the worker slept, or the window is over and    *)
(* its reasons are taken.                                                  *)
WorkerElapses ==
  /\ loop = "event" /\ worker = "elapsed"
  /\ IF due # None /\ due > 0
       THEN worker' = "check" /\ UNCHANGED <<due, cap, news>>
       ELSE /\ worker' = "logging" /\ due' = None /\ cap' = None
            /\ news' = [c \in Changes |-> IF news[c] = "due" THEN "taken" ELSE news[c]]
  /\ UNCHANGED <<run, runLock, workLock, loop, ensure, wake, periodic, beat, listener,
                 closer, patience>>

(* The log line needs working_lock; then run_sync starts a thread.         *)
WorkerStarts ==
  /\ loop = "event" /\ worker = "logging" /\ workLock = None
  /\ worker' = "running" /\ loop' = "free"
  /\ run' = IF closed THEN run ELSE [run EXCEPT !["event"] = "task"]
  /\ UNCHANGED <<runLock, workLock, debouncer, wake, periodic, beat, listener, closer,
                 patience, news>>

WorkerResumes ==
  /\ loop = "free" /\ worker = "running" /\ run["event"] = "none"
  /\ worker' = "check" /\ loop' = "event"
  /\ UNCHANGED <<run, runLock, workLock, debouncer, wake, periodic, beat, listener, closer,
                 patience, news>>
-----------------------------------------------------------------------------
(***************************************************************************)
(* The event loop: the fallback loop.                                      *)
(***************************************************************************)
PeriodicWakes ==
  /\ loop = "free" /\ periodic = "sleeping" /\ beat = 0
  /\ periodic' = "logging" /\ loop' = "periodic"
  /\ UNCHANGED <<run, runLock, workLock, debouncer, worker, wake, beat, listener, closer,
                 patience, news>>

PeriodicStarts ==
  /\ loop = "periodic" /\ periodic = "logging" /\ workLock = None
  /\ periodic' = "running" /\ loop' = "free"
  /\ run' = IF closed THEN run ELSE [run EXCEPT !["periodic"] = "task"]
  /\ UNCHANGED <<runLock, workLock, debouncer, worker, wake, beat, listener, closer,
                 patience, news>>

(* A bug: the loop ends after its first cycle. *)
PeriodicEnds ==
  /\ loop = "free" /\ periodic = "running" /\ run["periodic"] = "none"
  /\ periodic' = "ended" /\ beat' = Interval
  /\ UNCHANGED <<run, runLock, workLock, loop, debouncer, worker, wake, listener, closer,
                 patience, news>>

PeriodicResumes ==
  /\ loop = "free" /\ periodic = "running" /\ run["periodic"] = "none"
  /\ periodic' = IF closed THEN "ended" ELSE "sleeping"
  /\ beat' = Interval
  /\ UNCHANGED <<run, runLock, workLock, loop, debouncer, worker, wake, listener, closer,
                 patience, news>>
-----------------------------------------------------------------------------
(***************************************************************************)
(* The listener thread.                                                    *)
(***************************************************************************)

(* Events not yet read when a stream ends are lost.                        *)
StreamLost == [c \in Changes |-> IF news[c] = "streamed" THEN "missed" ELSE news[c]]

listenerOnly == <<run, runLock, workLock, loop, worker, wake, periodic, beat, closer, patience>>

(* The top of the loop, and the second look at stop_event once the         *)
(* connection is registered where close_events finds it.                   *)
ListenerDials ==
  /\ listener = "connecting"
  /\ listener' = IF closed THEN "stopped" ELSE "dialing"
  /\ UNCHANGED <<listenerOnly, debouncer, news>>

ListenerConnects ==
  /\ listener = "dialing"
  /\ listener' = "connected"
  /\ UNCHANGED <<listenerOnly, debouncer, news>>

(* report_connection and the log line need working_lock. *)
ListenerGreets ==
  /\ listener = "connected" /\ workLock = None
  /\ IF closed THEN listener' = "connecting" /\ news' = StreamLost
     ELSE listener' = "reading" /\ news' = news
  /\ UNCHANGED <<listenerOnly, debouncer>>

(* No connection, or the stream breaks: report it and back off.            *)
ListenerFails ==
  /\ listener \in {"dialing", "reading"} /\ workLock = None
  /\ listener' = "waiting"
  /\ news' = StreamLost
  /\ UNCHANGED <<listenerOnly, debouncer>>

ListenerRetries ==
  /\ listener = "waiting"
  /\ listener' = IF closed THEN "stopped" ELSE "connecting"
  /\ UNCHANGED <<listenerOnly, debouncer, news>>

(* An event of a new change, or one of a change already discovered.        *)
ListenerReads ==
  /\ listener = "reading"
  /\ listener' = "handling"
  /\ \/ news' = news
     \/ \E c \in Changes : news[c] = "streamed" /\ news' = [news EXCEPT ![c] = "handled"]
  /\ UNCHANGED <<listenerOnly, debouncer>>

(* The daemon ends the stream, or close_events shut the socket down.       *)
ListenerEof ==
  /\ listener = "reading" /\ workLock = None
  /\ listener' = "connecting"
  /\ news' = StreamLost
  /\ UNCHANGED <<listenerOnly, debouncer>>

(* handle_event logs before it triggers. *)
ListenerLogs ==
  /\ listener = "handling" /\ workLock = None
  /\ listener' = "triggering"
  /\ UNCHANGED <<listenerOnly, debouncer, news>>

(* A bug: a burst postpones the cycle without limit. *)
TriggerUncapped ==
  /\ listener = "triggering"
  /\ listener' = "reading"
  /\ IF closed
     THEN /\ news' = [c \in Changes |-> IF news[c] = "handled" THEN "missed" ELSE news[c]]
          /\ UNCHANGED debouncer
     ELSE /\ due' = Delay /\ cap' = MaxDelay
          /\ ensure' = TRUE
          /\ news' = [c \in Changes |-> IF news[c] = "handled" THEN "due" ELSE news[c]]
  /\ UNCHANGED listenerOnly

(* DebouncedSyncTrigger.trigger. *)
Trigger ==
  /\ listener = "triggering"
  /\ listener' = "reading"
  /\ IF closed
     THEN /\ news' = [c \in Changes |-> IF news[c] = "handled" THEN "missed" ELSE news[c]]
          /\ UNCHANGED debouncer
     ELSE /\ cap' = IF cap = None THEN MaxDelay ELSE cap
          /\ due' = IF Delay < cap' THEN Delay ELSE cap'
          /\ ensure' = TRUE
          /\ news' = [c \in Changes |-> IF news[c] = "handled" THEN "due" ELSE news[c]]
  /\ UNCHANGED listenerOnly
-----------------------------------------------------------------------------
(***************************************************************************)
(* Shutdown: Scheduler.close on the event loop.                            *)
(***************************************************************************)

(* closed, stop_event, and DebouncedSyncTrigger.close: the worker is       *)
(* cancelled where it sleeps or awaits; run_sync shields its thread.       *)
CloseBegins ==
  /\ loop = "free" /\ closer = "open"
  /\ closer' = "cancelling"
  /\ due' = None /\ cap' = None
  /\ worker' = IF worker = "none" THEN "none" ELSE "done"
  /\ news' = [c \in Changes |-> IF news[c] = "due" THEN "missed" ELSE news[c]]
  /\ UNCHANGED <<run, runLock, workLock, loop, ensure, wake, periodic, beat, listener,
                 patience>>

CancelPeriodic ==
  /\ loop = "free" /\ closer = "cancelling"
  /\ periodic' = "ended"
  /\ closer' = "joining"
  /\ UNCHANGED <<run, runLock, workLock, loop, debouncer, worker, wake, beat, listener,
                 patience, news>>

(* A bug: the listener is joined without a timeout. *)
JoinListenerForever ==
  /\ loop = "free" /\ closer = "joining"
  /\ listener = "stopped" /\ closer' = "draining"
  /\ UNCHANGED <<run, runLock, workLock, loop, debouncer, worker, wake, periodic, beat,
                 listener, patience, news>>

JoinListener ==
  /\ loop = "free" /\ closer = "joining"
  /\ \/ listener = "stopped" /\ closer' = "draining"
     \/ listener # "stopped" /\ patience = 0 /\ closer' = "raised"
  /\ UNCHANGED <<run, runLock, workLock, loop, debouncer, worker, wake, periodic, beat,
                 listener, patience, news>>

(* A bug: only calls that have reached run_once are waited for. *)
DrainTasksHolding ==
  /\ loop = "free" /\ closer = "draining"
  /\ LET idle == workLock = None IN
       \/ idle /\ closer' = "returned"
       \/ ~idle /\ patience = 0 /\ closer' = "raised"
  /\ UNCHANGED <<run, runLock, workLock, loop, debouncer, worker, wake, periodic, beat,
                 listener, patience, news>>

DrainTasks ==
  /\ loop = "free" /\ closer = "draining"
  /\ LET idle == \A r \in Runs : run[r] = "none" IN
       \/ idle /\ closer' = "returned"
       \/ ~idle /\ patience = 0 /\ closer' = "raised"
  /\ UNCHANGED <<run, runLock, workLock, loop, debouncer, worker, wake, periodic, beat,
                 listener, patience, news>>
-----------------------------------------------------------------------------
(***************************************************************************)
(* The world: containers and time.                                         *)
(***************************************************************************)
ContainerChanges(c) ==
  /\ news[c] = "known"
  /\ news' = [news EXCEPT ![c] =
       IF listener \in {"connected", "reading", "handling", "triggering"} /\ ~shut
         THEN "streamed" ELSE "missed"]
  /\ UNCHANGED <<listenerOnly, debouncer, listener>>

Sooner(t) == IF t = None \/ t = 0 THEN t ELSE t - 1

Tick ==
  /\ due' = Sooner(due) /\ cap' = Sooner(cap) /\ wake' = Sooner(wake)
  /\ beat' = Sooner(beat)
  /\ patience' = IF closed THEN Sooner(patience) ELSE patience
  /\ UNCHANGED <<run, runLock, workLock, loop, ensure, worker, periodic, listener, closer, news>>
-----------------------------------------------------------------------------
CycleStep(r) ==
  \/ TakeRunLock(r) \/ Skip(r) \/ TakeWorkLock(r)
  \/ Discover(r) \/ DiscoverFails(r) \/ ReleaseWorkLock(r) \/ ReleaseRunLock(r)

WorkerStep ==
  \/ WorkerChecks \/ WorkerWakes \/ WorkerElapses \/ WorkerStarts \/ WorkerResumes

PeriodicStep == PeriodicWakes \/ PeriodicStarts \/ PeriodicResumes

CloseStep == CancelPeriodic \/ JoinListener \/ DrainTasks

ListenerStep ==
  \/ ListenerDials \/ ListenerConnects \/ ListenerGreets \/ ListenerFails \/ ListenerRetries
  \/ ListenerReads \/ ListenerEof \/ ListenerLogs \/ Trigger

Next ==
  \/ \E r \in Runs : CycleStep(r)
  \/ InitialSync \/ EnsureWorker \/ WorkerStep \/ PeriodicStep \/ CloseStep
  \/ ListenerStep
  \/ \E q \in Requests : RequestSync(q)
  \/ CloseBegins
  \/ \E c \in Changes : ContainerChanges(c)
  \/ Tick

Spec == Init /\ [][Next]_vars

(* The clock advances and every thread runs; every call of a cycle has a   *)
(* timeout.  The loop serves its ready queue in order, so a coroutine that *)
(* is ready again and again gets its turn: strong fairness, because the    *)
(* loop is busy in between.  Docker answers again and again.  Requests,    *)
(* container changes, the listener and the shutdown owe nothing.           *)
FairSpec ==
  /\ Spec
  /\ WF_vars(Tick)
  /\ \A r \in Runs : WF_vars(CycleStep(r))
  /\ SF_vars(\E r \in Runs : Discover(r))
  /\ SF_vars(EnsureWorker) /\ SF_vars(WorkerStep) /\ SF_vars(PeriodicStep)
  /\ WF_vars(CloseStep)
-----------------------------------------------------------------------------
(***************************************************************************)
(* Properties.                                                             *)
(***************************************************************************)

(* An armed debounce window is never forgotten: a worker looks at it, or a *)
(* callback that ensures one is queued, although triggers come from the    *)
(* listener thread while the worker sleeps, ends or waits for a cycle      *)
(* (debounce.py: trigger, _ensure_worker, _coalescing_worker).             *)
NoLostWakeup == due # None => ensure \/ worker \in {"check", "sleeping", "elapsed", "logging", "running"}

(* A skipped cycle loses no signal: when the debounced run_once finds the  *)
(* run lock taken, the cycle that holds it has yet to read the inventory,  *)
(* except in the instant between the two releases in `finally`; else only  *)
(* a failed discovery loses one.  This rests on the worker's log line,     *)
(* which waits for the running cycle to end (sync.py: run_once).           *)
SignalsKept ==
  [][\A c \in Changes : news[c] = "taken" /\ news'[c] = "missed" =>
       \E r \in Runs : \/ run[r] = "unlocking"
                       \/ run[r] = "failed" \/ run'[r] = "failed"]_vars

(* close() returns only when nothing of the scheduler is left: no call of  *)
(* run_once, even one whose coroutine was cancelled or whose thread has    *)
(* not started, no worker, no fallback loop, no listener; and nothing      *)
(* starts afterwards (scheduler.py: close, run_sync).                      *)
CloseLeavesNothing ==
  closer = "returned" =>
    /\ \A r \in Runs : run[r] = "none"
    /\ worker \in {"none", "done"} /\ periodic = "ended" /\ listener = "stopped"

(* However long a burst of events lasts, its window closes                 *)
(* (docs/configuration.md: "Maximum postponement during an event burst").  *)
BurstsEnd == due # None ~> due = None

(* Every container change is read in the end, whatever was lost on the     *)
(* way: events between two streams, a skipped cycle, a failed discovery.   *)
(* The fallback loop sees to it, as long as nobody shuts down.             *)
NoChangeForgotten == \A c \in Changes : news[c] # "known" ~> news[c] = "known" \/ closed

(* close() comes to an end: it returns, or raises at its deadline.         *)
CloseEnds == closed ~> closer \in {"returned", "raised"}

(* docs/architecture-and-safety.md: "Status endpoints read detached        *)
(* snapshots without waiting for provider I/O. The scheduler keeps sync    *)
(* work off the event loop".  So no coroutine waits on the loop for the    *)
(* lock that a cycle holds during its I/O.                                 *)
LoopNeverWaits == loop # "free" /\ (worker = "logging" \/ periodic = "logging") => workLock = None
=============================================================================
