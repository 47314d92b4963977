-------------------------- MODULE Scheduler_proofs --------------------------
(***************************************************************************)
(* Proofs about Scheduler, for every set of requests and of container      *)
(* changes and for every delay, interval and timeout.                      *)
(***************************************************************************)
EXTENDS Scheduler, TLAPS

ThreadStep(r) == CycleStep(r)

LoopStep == InitialSync \/ EnsureWorker \/ WorkerStep \/ PeriodicStep

WorldStep == \/ \E q \in Requests : RequestSync(q)
             \/ \E c \in Changes : ContainerChanges(c)
             \/ Tick

LEMMA NextSplit ==
  Next <=> \/ \E r \in Runs : ThreadStep(r)
           \/ LoopStep \/ ListenerStep \/ CloseBegins \/ CloseStep \/ WorldStep
BY DEF Next, ThreadStep, LoopStep, WorldStep

(* The names of the runs the scheduler itself asks for are runs. *)
LEMMA OwnRuns ==
  "initial" \in Runs /\ "event" \in Runs /\ "periodic" \in Runs /\ Requests \subseteq Runs
BY DEF Runs
-----------------------------------------------------------------------------
(***************************************************************************)
(* Type correctness.                                                       *)
(***************************************************************************)
LEMMA TypeInit == Init => TypeOK
<1> SUFFICES ASSUME Init PROVE TypeOK
  OBVIOUS
<1>1. run \in [Runs -> RunStates] /\ runLock = None /\ workLock = None
  BY DEF Init, RunStates
<1>2. 0 \in 0 .. Delay /\ Interval \in 0 .. Interval /\ Timeout \in 0 .. Timeout
  BY SchedulerAssumption
<1>3. news \in [Changes -> {"known", "streamed", "handled", "due", "taken", "missed"}]
  BY DEF Init
<1> QED BY <1>1, <1>2, <1>3 DEF Init, TypeOK

LEMMA TypeThread ==
  ASSUME TypeOK, NEW r \in Runs, ThreadStep(r) PROVE TypeOK'
<1> USE DEF TypeOK, RunStates, debouncer
<1>1. CASE TakeRunLock(r)     BY <1>1 DEF TakeRunLock
<1>2. CASE Skip(r)            BY <1>2 DEF Skip
<1>3. CASE TakeWorkLock(r)    BY <1>3 DEF TakeWorkLock
<1>4. CASE Discover(r)        BY <1>4 DEF Discover
<1>5. CASE DiscoverFails(r)   BY <1>5 DEF DiscoverFails
<1>6. CASE ReleaseWorkLock(r) BY <1>6 DEF ReleaseWorkLock
<1>7. CASE ReleaseRunLock(r)  BY <1>7 DEF ReleaseRunLock
<1> QED BY <1>1, <1>2, <1>3, <1>4, <1>5, <1>6, <1>7 DEF ThreadStep, CycleStep

LEMMA TypeLoop ==
  ASSUME TypeOK, LoopStep PROVE TypeOK'
<1> USE OwnRuns, SchedulerAssumption DEF TypeOK, RunStates, debouncer
<1>1. CASE InitialSync     BY <1>1 DEF InitialSync
<1>2. CASE EnsureWorker    BY <1>2 DEF EnsureWorker
<1>3. CASE WorkerChecks    BY <1>3 DEF WorkerChecks
<1>4. CASE WorkerWakes     BY <1>4 DEF WorkerWakes
<1>5. CASE WorkerElapses   BY <1>5 DEF WorkerElapses
<1>6. CASE WorkerStarts    BY <1>6 DEF WorkerStarts
<1>7. CASE WorkerResumes   BY <1>7 DEF WorkerResumes
<1>8. CASE PeriodicWakes   BY <1>8 DEF PeriodicWakes
<1>9. CASE PeriodicStarts  BY <1>9 DEF PeriodicStarts
<1>10. CASE PeriodicResumes BY <1>10 DEF PeriodicResumes
<1> QED
  BY <1>1, <1>2, <1>3, <1>4, <1>5, <1>6, <1>7, <1>8, <1>9, <1>10
  DEF LoopStep, WorkerStep, PeriodicStep

LEMMA TypeListener ==
  ASSUME TypeOK, ListenerStep PROVE TypeOK'
<1> USE SchedulerAssumption DEF TypeOK, debouncer, listenerOnly
<1>1. StreamLost \in [Changes -> {"known", "streamed", "handled", "due", "taken", "missed"}]
  BY DEF StreamLost
<1>2. CASE ListenerDials \/ ListenerConnects \/ ListenerRetries \/ ListenerLogs
  BY <1>2 DEF ListenerDials, ListenerConnects, ListenerRetries, ListenerLogs
<1>3. CASE ListenerGreets \/ ListenerFails \/ ListenerEof
  BY <1>1, <1>3 DEF ListenerGreets, ListenerFails, ListenerEof
<1>4. CASE ListenerReads BY <1>4 DEF ListenerReads
<1>5. CASE Trigger
  <2>1. CASE closed BY <1>5, <2>1 DEF Trigger
  <2>2. CASE ~closed
    <3>1. cap' \in 0 .. MaxDelay
      BY <1>5, <2>2 DEF Trigger
    <3>2. due' \in 0 .. Delay
      BY <1>5, <2>2, <3>1 DEF Trigger
    <3>3. due' # None /\ cap' # None
      BY <3>1, <3>2
    <3>4. news' \in [Changes -> {"known", "streamed", "handled", "due", "taken", "missed"}]
      BY <1>5, <2>2 DEF Trigger
    <3> QED BY <1>5, <2>2, <3>1, <3>2, <3>3, <3>4 DEF Trigger
  <2> QED BY <2>1, <2>2
<1> QED BY <1>2, <1>3, <1>4, <1>5 DEF ListenerStep

LEMMA TypeRest ==
  ASSUME TypeOK, CloseBegins \/ CloseStep \/ WorldStep PROVE TypeOK'
<1> USE OwnRuns, SchedulerAssumption DEF TypeOK, RunStates, debouncer, listenerOnly
<1>1. CASE CloseBegins    BY <1>1 DEF CloseBegins
<1>2. CASE CancelPeriodic BY <1>2 DEF CancelPeriodic
<1>3. CASE JoinListener   BY <1>3 DEF JoinListener
<1>4. CASE DrainTasks     BY <1>4 DEF DrainTasks
<1>5. ASSUME NEW q \in Requests, RequestSync(q) PROVE TypeOK'
  BY <1>5 DEF RequestSync
<1>6. ASSUME NEW c \in Changes, ContainerChanges(c) PROVE TypeOK'
  BY <1>6 DEF ContainerChanges
<1>7. CASE Tick           BY <1>7 DEF Tick, Sooner
<1> QED BY <1>1, <1>2, <1>3, <1>4, <1>5, <1>6, <1>7 DEF CloseStep, WorldStep

(* Every variable keeps its type; in particular the two deadlines of the   *)
(* debouncer are armed and cleared together (debounce.py).                 *)
THEOREM SchedulerTypeCorrect == Spec => []TypeOK
<1>1. TypeOK /\ [Next]_vars => TypeOK'
  <2>1. CASE UNCHANGED vars BY <2>1 DEF TypeOK, vars
  <2> QED BY <2>1, NextSplit, TypeThread, TypeLoop, TypeListener, TypeRest
<1> QED BY <1>1, TypeInit, PTL DEF Spec
-----------------------------------------------------------------------------
(***************************************************************************)
(* The inductive invariant.                                                *)
(***************************************************************************)

(* Each lock is owned by the one run that is between taking and releasing  *)
(* it, so at most one run is in its cycle.                                 *)
Locks ==
  \A r \in Runs :
    /\ run[r] \in {"entered", "holding", "discovered", "failed", "unlocking"} <=> runLock = r
    /\ run[r] \in {"holding", "discovered", "failed"} <=> workLock = r

(* Between its awaits the worker has the loop to itself; it and the        *)
(* fallback loop have a run under way only while they await it.            *)
Turns ==
  /\ worker \in {"elapsed", "logging"} => loop = "event"
  /\ worker # "running" /\ ~closed => run["event"] = "none"
  /\ periodic \in {"sleeping", "logging"} => run["periodic"] = "none"

(* While a cycle goes on after its discovery, the signals a worker has     *)
(* taken are those of the worker that still waits for it to end.           *)
Delivered ==
  \A c \in Changes : \A r \in Runs :
    news[c] = "taken" /\ run[r] = "discovered" => worker = "logging"

(* What close() has already put an end to.                                 *)
Closing ==
  /\ closed => worker \in {"none", "done"} /\ due = None
  /\ shut => periodic = "ended"
  /\ closer \in {"draining", "returned"} => listener = "stopped"
  /\ closer = "returned" => \A r \in Runs : run[r] = "none"

SchedulerInv == TypeOK /\ Locks /\ Turns /\ Delivered /\ Closing /\ NoLostWakeup

LEMMA InvInit == Init => SchedulerInv
<1> SUFFICES ASSUME Init PROVE SchedulerInv
  OBVIOUS
<1>1. TypeOK
  BY TypeInit
<1>2. Locks
  BY SchedulerAssumption DEF Init, Locks
<1>3. Turns /\ Delivered /\ Closing /\ NoLostWakeup
  BY OwnRuns DEF Init, Turns, Delivered, Closing, NoLostWakeup, closed, shut
<1> QED BY <1>1, <1>2, <1>3 DEF SchedulerInv

LEMMA InvThread ==
  ASSUME SchedulerInv, NEW r \in Runs, ThreadStep(r) PROVE SchedulerInv'
<1>1. TypeOK' BY TypeThread DEF SchedulerInv
<1>2. Locks'
  <2> USE SchedulerAssumption DEF SchedulerInv, Locks, TypeOK
  <2>1. CASE TakeRunLock(r)     BY <2>1 DEF TakeRunLock
  <2>2. CASE Skip(r)            BY <2>2 DEF Skip
  <2>3. CASE TakeWorkLock(r)    BY <2>3 DEF TakeWorkLock
  <2>4. CASE Discover(r)        BY <2>4 DEF Discover
  <2>5. CASE DiscoverFails(r)   BY <2>5 DEF DiscoverFails
  <2>6. CASE ReleaseWorkLock(r) BY <2>6 DEF ReleaseWorkLock
  <2>7. CASE ReleaseRunLock(r)  BY <2>7 DEF ReleaseRunLock
  <2> QED BY <2>1, <2>2, <2>3, <2>4, <2>5, <2>6, <2>7 DEF ThreadStep, CycleStep
<1>3. /\ run[r] # "none" /\ \A s \in Runs \ {r} : run'[s] = run[s]
      /\ UNCHANGED <<loop, due, cap, ensure, worker, periodic, listener, closer>>
  BY DEF ThreadStep, CycleStep, TakeRunLock, Skip, TakeWorkLock, Discover, DiscoverFails,
         ReleaseWorkLock, ReleaseRunLock, debouncer, SchedulerInv, TypeOK
<1>4. Turns'
  BY <1>3, OwnRuns DEF SchedulerInv, Turns, closed
<1>5. Delivered'
  <2> USE DEF SchedulerInv, Delivered, TypeOK
  <2>1. CASE TakeRunLock(r)     BY <2>1 DEF TakeRunLock
  <2>2. CASE Skip(r)            BY <2>2 DEF Skip
  <2>3. CASE TakeWorkLock(r)    BY <2>3 DEF TakeWorkLock
  <2>4. CASE Discover(r)        BY <2>4 DEF Discover
  <2>5. CASE DiscoverFails(r)   BY <2>5 DEF DiscoverFails
  <2>6. CASE ReleaseWorkLock(r) BY <2>6 DEF ReleaseWorkLock
  <2>7. CASE ReleaseRunLock(r)  BY <2>7 DEF ReleaseRunLock
  <2> QED BY <2>1, <2>2, <2>3, <2>4, <2>5, <2>6, <2>7 DEF ThreadStep, CycleStep
<1>6. Closing'
  BY <1>3 DEF SchedulerInv, Closing, closed, shut
<1>7. NoLostWakeup'
  BY <1>3 DEF SchedulerInv, NoLostWakeup
<1> QED BY <1>1, <1>2, <1>4, <1>5, <1>6, <1>7 DEF SchedulerInv

(* The loop hands out runs but owns no lock.  The worker's log line waits  *)
(* for working_lock, so no cycle is past its discovery when it starts one. *)
LEMMA InvLoop ==
  ASSUME SchedulerInv, LoopStep PROVE SchedulerInv'
<1>1. TypeOK' BY TypeLoop DEF SchedulerInv
<1>2. /\ UNCHANGED <<runLock, workLock, listener, closer>>
      /\ \A s \in Runs : \/ run'[s] = run[s]
                         \/ run[s] \in {"none", "asked"} /\ run'[s] \in {"none", "task"}
  <2> USE OwnRuns DEF SchedulerInv, TypeOK, debouncer
  <2>1. CASE InitialSync BY <2>1 DEF InitialSync
  <2>2. CASE EnsureWorker \/ WorkerChecks \/ WorkerWakes \/ WorkerElapses \/ WorkerResumes
    BY <2>2 DEF EnsureWorker, WorkerChecks, WorkerWakes, WorkerElapses, WorkerResumes
  <2>3. CASE WorkerStarts BY <2>3 DEF WorkerStarts, Turns
  <2>4. CASE PeriodicStarts BY <2>4 DEF PeriodicStarts, Turns
  <2>5. CASE PeriodicWakes \/ PeriodicResumes BY <2>5 DEF PeriodicWakes, PeriodicResumes
  <2> QED BY <2>1, <2>2, <2>3, <2>4, <2>5 DEF LoopStep, WorkerStep, PeriodicStep
<1>3. Locks'
  BY <1>2 DEF SchedulerInv, Locks, TypeOK
<1>4. Turns' /\ Closing' /\ NoLostWakeup'
  <2> USE OwnRuns, SchedulerAssumption
      DEF SchedulerInv, TypeOK, Turns, Closing, NoLostWakeup, closed, shut, debouncer
  <2>1. CASE InitialSync     BY <2>1 DEF InitialSync
  <2>2. CASE EnsureWorker    BY <2>2 DEF EnsureWorker
  <2>3. CASE WorkerChecks    BY <2>3 DEF WorkerChecks
  <2>4. CASE WorkerWakes     BY <2>4 DEF WorkerWakes
  <2>5. CASE WorkerElapses   BY <2>5 DEF WorkerElapses
  <2>6. CASE WorkerStarts    BY <2>6 DEF WorkerStarts
  <2>7. CASE WorkerResumes   BY <2>7 DEF WorkerResumes
  <2>8. CASE PeriodicWakes   BY <2>8 DEF PeriodicWakes
  <2>9. CASE PeriodicStarts  BY <2>9 DEF PeriodicStarts
  <2>10. CASE PeriodicResumes BY <2>10 DEF PeriodicResumes
  <2> QED
    BY <2>1, <2>2, <2>3, <2>4, <2>5, <2>6, <2>7, <2>8, <2>9, <2>10
    DEF LoopStep, WorkerStep, PeriodicStep
<1>5. Delivered'
  <2> USE DEF SchedulerInv, TypeOK, Turns, Delivered, debouncer
  <2>1. CASE InitialSync   BY <2>1, <1>2 DEF InitialSync
  <2>2. CASE EnsureWorker \/ WorkerChecks \/ WorkerWakes \/ WorkerResumes
    BY <2>2, <1>2 DEF EnsureWorker, WorkerChecks, WorkerWakes, WorkerResumes
  <2>3. CASE WorkerElapses BY <2>3, <1>2 DEF WorkerElapses
  <2>4. CASE WorkerStarts
    <3>1. \A s \in Runs : run[s] # "discovered"
      BY <2>4, SchedulerAssumption DEF WorkerStarts, Locks
    <3> QED BY <2>4, <3>1, <1>2 DEF WorkerStarts
  <2>5. CASE PeriodicStep
    BY <2>5, <1>2 DEF PeriodicStep, PeriodicWakes, PeriodicStarts, PeriodicResumes
  <2> QED BY <2>1, <2>2, <2>3, <2>4, <2>5 DEF LoopStep, WorkerStep
<1> QED BY <1>1, <1>3, <1>4, <1>5 DEF SchedulerInv

(* The listener thread touches the debouncer and nothing else of the loop; *)
(* once stopped it stays so.                                               *)
LEMMA InvListener ==
  ASSUME SchedulerInv, ListenerStep PROVE SchedulerInv'
<1>1. TypeOK' BY TypeListener DEF SchedulerInv
<1>2. /\ UNCHANGED listenerOnly
      /\ listener # "stopped"
      /\ UNCHANGED debouncer \/ (~closed /\ ensure')
      /\ \A c \in Changes : news'[c] = "taken" => news[c] = "taken"
  BY DEF ListenerStep, ListenerDials, ListenerConnects, ListenerGreets, ListenerFails,
         ListenerRetries, ListenerReads, ListenerEof, ListenerLogs, Trigger, StreamLost,
         listenerOnly, SchedulerInv, TypeOK
<1>3. Locks' /\ Turns' /\ Closing' /\ NoLostWakeup'
  BY <1>2 DEF SchedulerInv, Locks, Turns, Closing, NoLostWakeup, closed, shut, listenerOnly,
              debouncer
<1>4. Delivered'
  BY <1>2 DEF SchedulerInv, Delivered, listenerOnly
<1> QED BY <1>1, <1>3, <1>4 DEF SchedulerInv

LEMMA InvRest ==
  ASSUME SchedulerInv, CloseBegins \/ CloseStep \/ WorldStep PROVE SchedulerInv'
<1>1. TypeOK' BY TypeRest DEF SchedulerInv
<1> USE OwnRuns, SchedulerAssumption
    DEF SchedulerInv, TypeOK, Locks, Turns, Delivered, Closing, NoLostWakeup, closed, shut,
        debouncer, listenerOnly
<1>2. CASE CloseBegins    BY <1>1, <1>2 DEF CloseBegins
<1>3. CASE CancelPeriodic BY <1>1, <1>3 DEF CancelPeriodic
<1>4. CASE JoinListener   BY <1>1, <1>4 DEF JoinListener
<1>5. CASE DrainTasks     BY <1>1, <1>5 DEF DrainTasks
<1>6. ASSUME NEW q \in Requests, RequestSync(q) PROVE SchedulerInv'
  BY <1>1, <1>6 DEF RequestSync
<1>7. ASSUME NEW c \in Changes, ContainerChanges(c) PROVE SchedulerInv'
  BY <1>1, <1>7 DEF ContainerChanges
<1>8. CASE Tick           BY <1>1, <1>8 DEF Tick, Sooner
<1> QED BY <1>2, <1>3, <1>4, <1>5, <1>6, <1>7, <1>8 DEF CloseStep, WorldStep

THEOREM SchedulerInvariant == Spec => []SchedulerInv
<1>1. SchedulerInv /\ [Next]_vars => SchedulerInv'
  <2>1. CASE UNCHANGED vars
    BY <2>1 DEF SchedulerInv, TypeOK, Locks, Turns, Delivered, Closing, NoLostWakeup, closed,
                shut, vars
  <2> QED BY <2>1, NextSplit, InvThread, InvLoop, InvListener, InvRest
<1> QED BY <1>1, InvInit, PTL DEF Spec
-----------------------------------------------------------------------------
(***************************************************************************)
(* What follows.                                                           *)
(***************************************************************************)

(* An armed debounce window is never forgotten (debounce.py).              *)
THEOREM NoLostWakeupHolds == Spec => []NoLostWakeup
<1>1. SchedulerInv => NoLostWakeup BY DEF SchedulerInv
<1> QED BY <1>1, SchedulerInvariant, PTL

(* After close() has returned nothing of the scheduler runs, however many  *)
(* requests there were (scheduler.py: close).                              *)
THEOREM CloseLeavesNothingHolds == Spec => []CloseLeavesNothing
<1>1. SchedulerInv => CloseLeavesNothing
  BY DEF SchedulerInv, Closing, CloseLeavesNothing, closed, shut
<1> QED BY <1>1, SchedulerInvariant, PTL

(* Cycles exclude each other: run_lock admits one run, which alone may own *)
(* working_lock (sync.py: run_once).  This is what lets SyncCycle treat    *)
(* one cycle at a time.                                                    *)
THEOREM OneCycleAtATime ==
  Spec => [](\A r, s \in Runs :
               /\ run[r] \in {"entered", "holding", "discovered", "failed", "unlocking"}
               /\ run[s] \in {"entered", "holding", "discovered", "failed", "unlocking"}
               => r = s)
<1>1. SchedulerInv =>
        (\A r, s \in Runs :
           /\ run[r] \in {"entered", "holding", "discovered", "failed", "unlocking"}
           /\ run[s] \in {"entered", "holding", "discovered", "failed", "unlocking"}
           => r = s)
  BY DEF SchedulerInv, Locks
<1> QED BY <1>1, SchedulerInvariant, PTL

(* A signal is lost after the worker took it only to a failed discovery or *)
(* in the instant between the two releases (sync.py: run_once).            *)
LEMMA SignalsKeptStep ==
  ASSUME SchedulerInv, Next, NEW c \in Changes, news[c] = "taken", news'[c] = "missed"
  PROVE  \E r \in Runs : \/ run[r] = "unlocking"
                         \/ run[r] = "failed" \/ run'[r] = "failed"
<1>1. ASSUME NEW r \in Runs, ThreadStep(r)
      PROVE  \E s \in Runs : run[s] \in {"unlocking", "failed"} \/ run'[s] = "failed"
  <2>1. CASE DiscoverFails(r)
    BY <2>1 DEF DiscoverFails, SchedulerInv, TypeOK
  <2>2. CASE Skip(r)
    <3>1. r = "event" /\ run[r] = "task" /\ runLock \in Runs
          /\ run[runLock] \notin {"entered", "holding"}
      BY <2>2 DEF Skip, SchedulerInv, TypeOK
    <3>2. worker # "logging"
      BY <3>1 DEF SchedulerInv, Turns, Closing
    <3>3. run[runLock] # "discovered"
      BY <3>1, <3>2 DEF SchedulerInv, Delivered
    <3>4. run[runLock] \in {"entered", "holding", "discovered", "failed", "unlocking"}
      BY <3>1 DEF SchedulerInv, Locks
    <3> QED BY <3>1, <3>3, <3>4
  <2> QED
    BY <1>1, <2>1, <2>2
    DEF ThreadStep, CycleStep, TakeRunLock, TakeWorkLock, Discover, ReleaseWorkLock,
        ReleaseRunLock, SchedulerInv, TypeOK
<1>2. ASSUME ~\E r \in Runs : ThreadStep(r) PROVE FALSE
  <2>1. ~LoopStep
    BY DEF LoopStep, WorkerStep, PeriodicStep, InitialSync, EnsureWorker, WorkerChecks,
           WorkerWakes, WorkerElapses, WorkerStarts, WorkerResumes, PeriodicWakes,
           PeriodicStarts, PeriodicResumes, SchedulerInv, TypeOK
  <2>2. ~ListenerStep
    BY DEF ListenerStep, ListenerDials, ListenerConnects, ListenerGreets, ListenerFails,
           ListenerRetries, ListenerReads, ListenerEof, ListenerLogs, Trigger, StreamLost,
           SchedulerInv, TypeOK
  <2>3. ~CloseBegins /\ ~CloseStep /\ ~WorldStep
    BY DEF CloseBegins, CloseStep, CancelPeriodic, JoinListener, DrainTasks, WorldStep,
           RequestSync, ContainerChanges, Tick, SchedulerInv, TypeOK
  <2> QED BY <1>2, <2>1, <2>2, <2>3, NextSplit
<1> QED BY <1>1, <1>2

THEOREM SignalsKeptHolds == Spec => SignalsKept
<1>1. SchedulerInv /\ [Next]_vars =>
        [\A c \in Changes : news[c] = "taken" /\ news'[c] = "missed" =>
           \E r \in Runs : \/ run[r] = "unlocking"
                           \/ run[r] = "failed" \/ run'[r] = "failed"]_vars
  BY SignalsKeptStep
<1> QED BY <1>1, SchedulerInvariant, PTL DEF Spec, SignalsKept
=============================================================================
