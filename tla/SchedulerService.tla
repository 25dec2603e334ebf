-------------------------- MODULE SchedulerService --------------------------
(***************************************************************************)
(* The scheduler of dcc-mcp-scheduler: one task per cron schedule, webhook *)
(* requests handled concurrently, and the tracker of in-flight fires that  *)
(* enforces max_concurrent.  The host runs what the sink accepts and calls *)
(* mark_terminal once for every fire that ended.                           *)
(***************************************************************************)
EXTENDS Integers, FiniteSets

CONSTANTS
    Crons,        \* enabled schedules with a cron trigger
    Hooks,        \* enabled schedules with a webhook trigger
    Requests,     \* requests being handled at the same time
    MaxConcurrent,\* max_concurrent of each schedule, 0 for no limit
    MaxInFlight   \* bound of the model on the fires of an unlimited schedule

Schedules == Crons \cup Hooks

ASSUME SchedulerAssumption ==
    /\ Crons \cap Hooks = {}
    /\ MaxConcurrent \in [Schedules -> Nat] /\ MaxInFlight \in Nat \ {0}
    /\ IsFiniteSet(Requests) /\ IsFiniteSet(Crons)

VARIABLES
    scCounts,   \* ConcurrencyTracker.counts
    scTask,     \* where each cron task is
    scAborted,  \* JoinHandle::abort was called on it
    scRequest,  \* the webhook requests in progress: [pc, schedule]
    scRunning,  \* fires the sink accepted that still run, per schedule
    scEnded,    \* fires that ended and are not yet marked terminal
    scHandle,   \* a SchedulerHandle exists
    scShut      \* shutdown was called

scVars == <<scCounts, scTask, scAborted, scRequest, scRunning, scEnded, scHandle, scShut>>

-----------------------------------------------------------------------------
(* ConcurrencyTracker                                                      *)

MayAcquire(i) == MaxConcurrent[i] = 0 \/ scCounts[i] < MaxConcurrent[i]
Acquire(i) == scCounts' = [scCounts EXCEPT ![i] = @ + 1]

Release(i) == scCounts' = [scCounts EXCEPT ![i] = IF @ = 0 THEN 0 ELSE @ - 1]

-----------------------------------------------------------------------------
(* A cron task                                                             *)

CronUnchanged == UNCHANGED <<scAborted, scRequest, scEnded, scHandle, scShut>>

CronTick(c) ==
    /\ scTask[c] = "sleep" /\ ~scAborted[c]
    /\ scCounts[c] < MaxInFlight
    /\ scTask' = [scTask EXCEPT ![c] = "gate"]
    /\ UNCHANGED <<scCounts, scRunning>> /\ CronUnchanged

\* Faulty: a refused tick ends the task.
CronGateGivesUp(c) ==
    /\ scTask[c] = "gate"
    /\ IF MayAcquire(c)
       THEN Acquire(c) /\ scTask' = [scTask EXCEPT ![c] = "fire"]
       ELSE scTask' = [scTask EXCEPT ![c] = "ended"] /\ UNCHANGED scCounts
    /\ UNCHANGED scRunning /\ CronUnchanged

\* A fire the gate refuses is skipped, after a grace period.
CronGate(c) ==
    /\ scTask[c] = "gate"
    /\ IF MayAcquire(c)
       THEN Acquire(c) /\ scTask' = [scTask EXCEPT ![c] = "fire"]
       ELSE scTask' = [scTask EXCEPT ![c] = "grace"] /\ UNCHANGED scCounts
    /\ UNCHANGED scRunning /\ CronUnchanged

CronGrace(c) ==
    /\ scTask[c] = "grace" /\ ~scAborted[c]
    /\ scTask' = [scTask EXCEPT ![c] = "sleep"]
    /\ UNCHANGED <<scCounts, scRunning>> /\ CronUnchanged

\* Faulty: a refused fire keeps its slot.
CronFireKeepsSlot(c) ==
    /\ scTask[c] = "fire"
    /\ scTask' = [scTask EXCEPT ![c] = "sleep"]
    /\ scRunning' \in {scRunning, [scRunning EXCEPT ![c] = @ + 1]}
    /\ UNCHANGED scCounts /\ CronUnchanged

\* A sink that refuses the fire gives its slot back.
CronFire(c) ==
    /\ scTask[c] = "fire"
    /\ scTask' = [scTask EXCEPT ![c] = "sleep"]
    /\ \/ scRunning' = [scRunning EXCEPT ![c] = @ + 1] /\ UNCHANGED scCounts
       \/ Release(c) /\ UNCHANGED scRunning
    /\ CronUnchanged

\* An aborted task ends at the await it has reached.
CronEnds(c) ==
    /\ scTask[c] \in {"sleep", "grace"} /\ scAborted[c]
    /\ scTask' = [scTask EXCEPT ![c] = "ended"]
    /\ UNCHANGED <<scCounts, scRunning>> /\ CronUnchanged

-----------------------------------------------------------------------------
(* handle_webhook, after the signature and the body were accepted          *)

HookUnchanged == UNCHANGED <<scTask, scAborted, scEnded, scHandle, scShut>>

HookArrives(r, i) ==
    /\ scRequest[r].pc = "none" /\ scCounts[i] < MaxInFlight
    /\ scRequest' = [scRequest EXCEPT ![r] = [pc |-> "gate", schedule |-> i]]
    /\ UNCHANGED <<scCounts, scRunning>> /\ HookUnchanged

HookGate(r) ==
    LET i == scRequest[r].schedule
    IN  /\ scRequest[r].pc = "gate"
        /\ IF MayAcquire(i)
           THEN Acquire(i) /\ scRequest' = [scRequest EXCEPT ![r].pc = "fire"]
           ELSE scRequest' = [scRequest EXCEPT ![r].pc = "none"] /\ UNCHANGED scCounts
        /\ UNCHANGED scRunning /\ HookUnchanged

HookFire(r) ==
    LET i == scRequest[r].schedule
    IN  /\ scRequest[r].pc = "fire"
        /\ scRequest' = [scRequest EXCEPT ![r].pc = "none"]
        /\ \/ scRunning' = [scRunning EXCEPT ![i] = @ + 1] /\ UNCHANGED scCounts
           \/ Release(i) /\ UNCHANGED scRunning
        /\ HookUnchanged

-----------------------------------------------------------------------------
(* The host and the handle                                                 *)

RunEnds(i) ==
    /\ scRunning[i] > 0
    /\ scRunning' = [scRunning EXCEPT ![i] = @ - 1]
    /\ scEnded' = [scEnded EXCEPT ![i] = @ + 1]
    /\ UNCHANGED <<scCounts, scTask, scAborted, scRequest, scHandle, scShut>>

MarkTerminal(i) ==
    /\ scHandle /\ scEnded[i] > 0
    /\ scEnded' = [scEnded EXCEPT ![i] = @ - 1]
    /\ Release(i)
    /\ UNCHANGED <<scTask, scAborted, scRequest, scRunning, scHandle, scShut>>

\* Faulty: tasks that do not wait now are not aborted.
ShutdownNotifiesOnly ==
    /\ scHandle /\ ~scShut
    /\ scShut' = TRUE
    /\ scTask' = [c \in Crons |-> IF scTask[c] \in {"sleep", "grace"} THEN "ended" ELSE scTask[c]]
    /\ UNCHANGED <<scCounts, scAborted, scRequest, scRunning, scEnded, scHandle>>

\* notify_waiters wakes the tasks that wait now; abort reaches all of them.
SchedulerShutdown ==
    /\ scHandle /\ ~scShut
    /\ scShut' = TRUE
    /\ scTask' = [c \in Crons |-> IF scTask[c] \in {"sleep", "grace"} THEN "ended" ELSE scTask[c]]
    /\ scAborted' = [c \in Crons |-> TRUE]
    /\ UNCHANGED <<scCounts, scRequest, scRunning, scEnded, scHandle>>

\* The last clone of the handle goes.  The cron tasks and the router hold
\* SchedulerInner too, so its Drop, which aborts the tasks, does not run.
DropHandle ==
    /\ scHandle
    /\ scHandle' = FALSE
    /\ UNCHANGED <<scCounts, scTask, scAborted, scRequest, scRunning, scEnded, scShut>>

-----------------------------------------------------------------------------
SchedulerInit ==
    /\ scCounts = [i \in Schedules |-> 0]
    /\ scTask = [c \in Crons |-> "sleep"] /\ scAborted = [c \in Crons |-> FALSE]
    /\ \E i \in Hooks : scRequest = [r \in Requests |-> [pc |-> "none", schedule |-> i]]
    /\ scRunning = [i \in Schedules |-> 0] /\ scEnded = [i \in Schedules |-> 0]
    /\ scHandle = TRUE /\ scShut = FALSE

CronStep(c) == CronTick(c) \/ CronGate(c) \/ CronGrace(c) \/ CronFire(c) \/ CronEnds(c)

SchedulerNext ==
    \/ \E c \in Crons : CronStep(c)
    \/ \E r \in Requests : HookGate(r) \/ HookFire(r)
    \/ \E r \in Requests, i \in Hooks : HookArrives(r, i)
    \/ \E i \in Schedules : RunEnds(i) \/ MarkTerminal(i)
    \/ SchedulerShutdown \/ DropHandle

\* Tasks and requests are polled and timers fire; every fire ends and the host
\* observes its end; the sink does not refuse the same schedule for ever.
SchedulerFairness ==
    /\ \A c \in Crons : /\ WF_scVars(CronStep(c))
                        /\ SF_scVars(CronFire(c) /\ scRunning' # scRunning)
    /\ \A r \in Requests : WF_scVars(HookGate(r) \/ HookFire(r))
    /\ \A i \in Schedules : WF_scVars(RunEnds(i)) /\ WF_scVars(MarkTerminal(i))

SchedulerSpec == SchedulerInit /\ [][SchedulerNext]_scVars /\ SchedulerFairness

-----------------------------------------------------------------------------
\* Shape of the state.
SchedulerTypeOK ==
    /\ scTask \in [Crons -> {"sleep", "gate", "fire", "grace", "ended"}]
    /\ scRequest \in [Requests -> [pc : {"none", "gate", "fire"}, schedule : Hooks]]
    /\ {scCounts, scRunning, scEnded} \subseteq [Schedules -> Nat]
    /\ scAborted \in [Crons -> BOOLEAN] /\ {scHandle, scShut} \subseteq BOOLEAN

\* The tasks and requests that hold a slot they have not used yet.
Firing(i) == {r \in Requests : scRequest[r].pc = "fire" /\ scRequest[r].schedule = i}
TaskFires(i) == IF i \in Crons /\ scTask[i] = "fire" THEN 1 ELSE 0
Holding(i) == Cardinality(Firing(i)) + TaskFires(i)

\* The tracker counts exactly the fires of a schedule that are being made, run,
\* or ended without having been marked, and keeps them within max_concurrent:
\* whatever cron ticks, requests handled in parallel, refusing sinks, marks and
\* shutdowns interleave, no slot leaks and none is given twice.
CountsExact ==
    \A i \in Schedules :
        /\ scCounts[i] = Holding(i) + scRunning[i] + scEnded[i]
        /\ MaxConcurrent[i] # 0 => scCounts[i] <= MaxConcurrent[i]

\* A cron schedule that is due fires in the end, unless it is shut down or the
\* host has lost the handle it marks its fires with: refused ticks are skipped
\* without ending the task, and a slot always comes back.
DueCronFires ==
    \A c \in Crons :
        scTask[c] = "gate" ~> (scRunning[c] > 0 \/ scShut \/ ~scHandle)

\* shutdown ends every cron task, also one that was not waiting when the
\* notification was sent.
ShutdownEndsTasks == scShut ~> \A c \in Crons : scTask[c] = "ended"

\* "Dropping the handle cancels every cron task (via Notify)" (service.rs:167);
\* the tasks themselves keep SchedulerInner alive, so its Drop never runs.
DropEndsTasks == ~scHandle ~> \A c \in Crons : scTask[c] = "ended"
=============================================================================
