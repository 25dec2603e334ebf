----------------------------- MODULE JobManager -----------------------------
(***************************************************************************)
(* The job registry of a server process (dcc-mcp-job/src/job/manager.rs),  *)
(* composed with its persistence worker, across crashes and restarts of    *)
(* the process.                                                            *)
(*                                                                         *)
(* Every transition of a job is the same sequence: mutate the job under    *)
(* its write lock, clone a snapshot, drop the lock, persist the snapshot,  *)
(* call the subscribers.  The first three are one step here, the last two  *)
(* are steps of their own, so that two threads may interleave between      *)
(* them.  A thread keeps the map's shard guard until its operation ends:   *)
(* a purge waits for it.  A call that the manager rejects changes nothing  *)
(* and is no step.                                                         *)
(***************************************************************************)
EXTENDS JobPersistence

CONSTANTS
    OwnerPerJob,   \* each job is driven by one task at a time, as the server does
    Ops,           \* the optional operations a run exercises
    MaxCrashes     \* bound on the number of process crashes

ASSUME CrashAssumption == MaxCrashes \in Nat
ASSUME OwnerAssumption == OwnerPerJob \in BOOLEAN

VARIABLES
    phase,      \* "up", "down", "starting" or "recovering"
    jobs,       \* the in-process map
    used,       \* ids that were ever taken
    known,      \* ids a client was given and no purge has taken since
    scope,      \* jobs whose cancellation token this job's token descends from
    requested,  \* jobs whose own token was cancelled
    thr,        \* where each calling thread is
    seen,       \* the last event the subscribers received for each job
    todo,       \* rows recover_from_storage still has to process
    crashes

mvars == <<phase, jobs, used, known, scope, requested, thr, seen, todo, crashes>>
vars == <<pvars, mvars>>

-----------------------------------------------------------------------------
(* put: snapshot taken, not yet offered to the writer; send: blocked in    *)
(* the channel; wait: the write is with the worker; emit: subscribers not  *)
(* called yet.  prune, pruneSend, pruneWait, remove: the steps of a purge. *)
(* drain, drainWait, disable, close: shutdown_persistence.                 *)
ThreadIdle == [pc |-> "idle"]

JobOps == {"create", "output", "update"}
JobPCs == {"put", "send", "wait", "emit"}
PrunePCs == {"prune", "pruneSend", "pruneWait", "remove"}
DrainPCs == {"drain", "drainWait", "disable", "close"}

Thread ==
    [pc : {"idle"} \cup DrainPCs]
    \cup [pc : JobPCs, op : JobOps, job : Jobs, snap : Snapshot]
    \cup [pc : PrunePCs, old : SUBSET Jobs, confirm : BOOLEAN]

TypeOK ==
    /\ PersistenceTypeOK
    /\ phase \in {"up", "down", "starting", "recovering"}
    /\ jobs \in [Jobs -> Snapshot \cup {Absent}]
    /\ used \subseteq Jobs
    /\ known \subseteq used
    /\ scope \in [Jobs -> SUBSET Jobs]
    /\ requested \subseteq Jobs
    /\ thr \in [Threads -> Thread]
    /\ seen \in [Jobs -> Snapshot \cup {Absent}]
    /\ todo \subseteq Jobs
    /\ crashes \in 0..MaxCrashes

Init ==
    /\ PersistenceInit
    /\ phase = "up"
    /\ jobs = [j \in Jobs |-> Absent]
    /\ used = {}
    /\ known = {}
    /\ scope = [j \in Jobs |-> {}]
    /\ requested = {}
    /\ thr = [t \in Threads |-> ThreadIdle]
    /\ seen = [j \in Jobs |-> Absent]
    /\ todo = {}
    /\ crashes = 0

Tracked(j) == jobs[j] # Absent

WorkingOn(t, j) == thr[t].pc \in JobPCs /\ thr[t].job = j

(* CancellationToken::is_cancelled: cancelling a token cancels every token *)
(* derived from it.                                                        *)
IsCancelled(j) == scope[j] \cap requested # {}

Ready(t) == phase = "up" /\ thr[t].pc = "idle"

(* Faulty: nobody is kept out.                                             *)
MayMutateAlways(t, j) == TRUE

(* Thread t may take j's write lock: create holds a read guard on the new  *)
(* job until its event is out, and with OwnerPerJob nobody else drives j.  *)
MayMutate(t, j) ==
    \A u \in Threads \ {t} :
        WorkingOn(u, j) => ~OwnerPerJob /\ thr[u].op # "create"

-----------------------------------------------------------------------------
(* create_with_parent: the token descends from the parent's if the parent  *)
(* is tracked.                                                             *)
Create(t, j, parent) ==
    /\ Ready(t)
    /\ j \notin used
    /\ parent \in used \cup {j}
    /\ jobs' = [jobs EXCEPT ![j] = NewJob]
    /\ used' = used \cup {j}
    /\ scope' = [scope EXCEPT ![j] =
                    IF Tracked(parent) THEN {j} \cup scope[parent] ELSE {j}]
    /\ thr' = [thr EXCEPT ![t] =
                  [pc |-> "put", op |-> "create", job |-> j, snap |-> NewJob]]
    /\ UNCHANGED <<pvars, phase, known, requested, seen, todo, crashes>>

(* Faulty: the snapshot is announced and never handed to the writer.       *)
TransitionUnpersisted(t, j, op, new) ==
    /\ Ready(t)
    /\ Tracked(j)
    /\ MayMutate(t, j)
    /\ jobs' = [jobs EXCEPT ![j] = new]
    /\ thr' = [thr EXCEPT ![t] =
                  [pc |-> "emit", op |-> op, job |-> j, snap |-> new]]
    /\ UNCHANGED <<pvars, phase, used, known, scope, requested, seen, todo, crashes>>

(* Replace j's state and start the persist/emit tail of the operation.     *)
Transition(t, j, op, new) ==
    /\ Ready(t)
    /\ Tracked(j)
    /\ MayMutate(t, j)
    /\ jobs' = [jobs EXCEPT ![j] = new]
    /\ thr' = [thr EXCEPT ![t] =
                  [pc |-> "put", op |-> op, job |-> j, snap |-> new]]
    /\ UNCHANGED <<pvars, phase, used, known, scope, requested, seen, todo, crashes>>

(* set_output touches a field the model leaves out; what matters is that   *)
(* it persists the job's current snapshot, in any status.                  *)
SetOutput(t, j) == Transition(t, j, "output", jobs[j])

Start(t, j) ==
    /\ jobs[j].status = "pending"
    /\ Transition(t, j, "update", [jobs[j] EXCEPT !.status = "running"])

Complete(t, j) ==
    /\ jobs[j].status = "running"
    /\ Transition(t, j, "update", [jobs[j] EXCEPT !.status = "completed"])

Fail(t, j) ==
    /\ jobs[j].status = "running"
    /\ Transition(t, j, "update", [jobs[j] EXCEPT !.status = "failed"])

AcknowledgeCancel(t, j) ==
    /\ jobs[j].status \in InFlight
    /\ IsCancelled(j)
    /\ Transition(t, j, "update", [jobs[j] EXCEPT !.status = "cancelled"])

(* Progress that goes backwards is ignored.                                *)
UpdateProgress(t, j, p) ==
    /\ jobs[j].status = "running"
    /\ p >= jobs[j].progress
    /\ Transition(t, j, "update", [jobs[j] EXCEPT !.progress = p])

(* cancel only triggers the token, under a read lock.                      *)
Cancel(t, j) ==
    /\ Ready(t)
    /\ jobs[j].status \in InFlight
    /\ requested' = requested \cup {j}
    /\ UNCHANGED <<pvars, phase, jobs, used, known, scope, thr, seen, todo, crashes>>

-----------------------------------------------------------------------------
(* The tail of an operation.                                               *)
Goto(t, pc) == thr' = [thr EXCEPT ![t].pc = pc]

Return(t) == thr' = [thr EXCEPT ![t] = ThreadIdle]

(* set_output does not notify.                                             *)
Persisted(t) == IF thr[t].op = "output" THEN Return(t) ELSE Goto(t, "emit")

(* Faulty: the caller does not wait for the write.                         *)
PersistPutNoWait(t) ==
    /\ thr[t].pc = "put"
    /\ \E outcome \in {"skip", "full", "sent"} :
          Put(t, thr[t].job, thr[t].snap, outcome)
    /\ Persisted(t)
    /\ UNCHANGED <<phase, jobs, used, known, scope, requested, seen, todo, crashes>>

PersistPut(t) ==
    /\ thr[t].pc = "put"
    /\ \/ /\ \/ Put(t, thr[t].job, thr[t].snap, "skip")
             \/ Put(t, thr[t].job, thr[t].snap, "full")
          /\ Persisted(t)
       \/ /\ Put(t, thr[t].job, thr[t].snap, "sent")
          /\ IF sync THEN Goto(t, "wait") ELSE Persisted(t)
       \/ /\ Put(t, thr[t].job, thr[t].snap, "blocked")
          /\ Goto(t, "send")
    /\ UNCHANGED <<phase, jobs, used, known, scope, requested, seen, todo, crashes>>

PutSend(t) ==
    /\ thr[t].pc = "send"
    /\ SendBlocked(t, PutCmd(thr[t].job, thr[t].snap, t))
    /\ Goto(t, "wait")
    /\ UNCHANGED <<phase, jobs, used, known, scope, requested, seen, todo, crashes>>

PutReturned(t) ==
    /\ thr[t].pc = "wait"
    /\ TakeReply(t)
    /\ Persisted(t)
    /\ UNCHANGED <<rows, open, circuit, queue, worker, gate, closing, sync,
                   phase, jobs, used, known, scope, requested, seen, todo, crashes>>

(* create hands out the id after its event.                                *)
Emit(t) ==
    /\ thr[t].pc = "emit"
    /\ known' = IF thr[t].op = "create" THEN known \cup {thr[t].job} ELSE known
    /\ seen' = [seen EXCEPT ![thr[t].job] = thr[t].snap]
    /\ Return(t)
    /\ UNCHANGED <<pvars, phase, jobs, used, scope, requested, todo, crashes>>

-----------------------------------------------------------------------------
(* gc_stale and, with confirm, gc_stale_blocking: old is the set of jobs   *)
(* last updated before the cutoff.  A job that is still in flight at the   *)
(* scan is updated later than the cutoff.                                  *)
GcStale(t, old, confirm) ==
    /\ Ready(t)
    /\ CanWrite(circuit) \/ CanRetryRetention(circuit)
    /\ old \subseteq used
    /\ \A j \in old : ~(jobs[j].status \in InFlight)
    /\ \E j \in old : IsTerminal(jobs[j])
    /\ thr' = [thr EXCEPT ![t] =
                  [pc |-> "prune", old |-> old, confirm |-> confirm]]
    /\ UNCHANGED <<pvars, phase, jobs, used, known, scope, requested, seen, todo, crashes>>

(* Only a confirmed delete goes on to remove the jobs from the map.        *)
Prune1(t, outcome) == DeleteOlderThan(t, thr[t].old, thr[t].confirm, outcome)

PruneRequest(t) ==
    /\ thr[t].pc = "prune"
    /\ \/ /\ Prune1(t, "skip") \/ Prune1(t, "full")
          /\ Return(t)
       \/ /\ Prune1(t, "sent")
          /\ IF sync \/ thr[t].confirm THEN Goto(t, "pruneWait") ELSE Return(t)
       \/ /\ Prune1(t, "blocked")
          /\ Goto(t, "pruneSend")
    /\ UNCHANGED <<phase, jobs, used, known, scope, requested, seen, todo, crashes>>

PruneSend(t) ==
    /\ thr[t].pc = "pruneSend"
    /\ SendBlocked(t, DeleteCmd(thr[t].old, t))
    /\ Goto(t, "pruneWait")
    /\ UNCHANGED <<phase, jobs, used, known, scope, requested, seen, todo, crashes>>

PruneReturned(t) ==
    /\ thr[t].pc = "pruneWait"
    /\ TakeReply(t)
    /\ IF reply[t] = "ok" THEN Goto(t, "remove") ELSE Return(t)
    /\ UNCHANGED <<rows, open, circuit, queue, worker, gate, closing, sync,
                   phase, jobs, used, known, scope, requested, seen, todo, crashes>>

PruneTimeout(t) ==
    /\ thr[t].pc = "pruneWait"
    /\ thr[t].confirm
    /\ DeleteTimeout(t)
    /\ Return(t)
    /\ UNCHANGED <<phase, jobs, used, known, scope, requested, seen, todo, crashes>>

(* jobs.remove() for each stale id; each waits for the operations that     *)
(* hold a guard on the entry.                                              *)
Remove(t) ==
    /\ thr[t].pc = "remove"
    /\ \E j \in thr[t].old :
          /\ \A u \in Threads : ~WorkingOn(u, j)
          /\ jobs' = [jobs EXCEPT ![j] = Absent]
          /\ known' = known \ {j}
          /\ IF thr[t].old = {j} THEN Return(t)
             ELSE thr' = [thr EXCEPT ![t].old = @ \ {j}]
    /\ UNCHANGED <<pvars, phase, used, scope, requested, seen, todo, crashes>>

-----------------------------------------------------------------------------
(* shutdown_persistence.                                                   *)
Shutdown(t) ==
    /\ Ready(t)
    /\ DrainBegin(t)
    /\ Goto(t, "drain")
    /\ UNCHANGED <<phase, jobs, used, known, scope, requested, seen, todo, crashes>>

ShutdownMark(t) ==
    /\ thr[t].pc = "drain"
    /\ DrainMark(t)
    /\ Goto(t, "drainWait")
    /\ UNCHANGED <<phase, jobs, used, known, scope, requested, seen, todo, crashes>>

ShutdownEnd(t, timedOut) ==
    /\ thr[t].pc \in {"drain", "drainWait"}
    /\ DrainEnd(t, thr[t].pc = "drainWait", timedOut)
    /\ Goto(t, "disable")
    /\ UNCHANGED <<phase, jobs, used, known, scope, requested, seen, todo, crashes>>

ShutdownDisable(t) ==
    /\ thr[t].pc = "disable"
    /\ circuit' = Disable(circuit, "server_shutdown")
    /\ Goto(t, "close")
    /\ UNCHANGED <<rows, open, queue, worker, gate, closing, reply, sync,
                   phase, jobs, used, known, scope, requested, seen, todo, crashes>>

(* shutdown_with_timeout or force_close: either way later writes fail.     *)
ShutdownClose(t) ==
    /\ thr[t].pc = "close"
    /\ open' = FALSE
    /\ Return(t)
    /\ UNCHANGED <<rows, circuit, queue, worker, gate, closing, reply, sync,
                   phase, jobs, used, known, scope, requested, seen, todo, crashes>>

-----------------------------------------------------------------------------
(* The process dies: only the rows survive.                                *)
Crash ==
    /\ phase # "down"
    /\ crashes < MaxCrashes
    /\ crashes' = crashes + 1
    /\ phase' = "down"
    /\ FreshWriter
    /\ jobs' = [j \in Jobs |-> Absent]
    /\ scope' = [j \in Jobs |-> {}]
    /\ requested' = {}
    /\ thr' = [t \in Threads |-> ThreadIdle]
    /\ seen' = [j \in Jobs |-> Absent]
    /\ todo' = {}
    /\ UNCHANGED <<rows, used, known>>

(* A client does not expect to find a job whose row was deleted.           *)
ForgetPurged == known' = {j \in known : rows[j] = Absent \/ rows'[j] # Absent}

(* build_job_manager: a backend that cannot be listed disables             *)
(* persistence; else, with job_retention_hours set, rows older than the    *)
(* cutoff are pruned, and a failure disables persistence.                  *)
Restart(old) ==
    /\ phase = "down"
    /\ phase' = "starting"
    /\ \/ /\ rows' = Prune(old)
          /\ UNCHANGED circuit
       \/ /\ Errors # {}
          /\ \E kind \in {"backend", "retention_prune_failed"} :
                circuit' = Disable(circuit, kind)
          /\ UNCHANGED rows
    /\ ForgetPurged
    /\ UNCHANGED <<open, queue, worker, gate, closing, reply, sync,
                   jobs, used, scope, requested, thr, seen, todo, crashes>>

(* Faulty: only the rows that were in flight are listed.                   *)
RecoverListInFlight ==
    /\ phase = "starting"
    /\ phase' = "recovering"
    /\ todo' = {j \in Jobs : rows[j].status \in InFlight}
    /\ UNCHANGED <<pvars, jobs, used, known, scope, requested, thr, seen, crashes>>

(* recover_from_storage lists every row; if that fails the server goes on  *)
(* with an empty map and persistence disabled.                             *)
RecoverList ==
    /\ phase = "starting"
    /\ phase' = "recovering"
    /\ \/ /\ todo' = {j \in Jobs : rows[j] # Absent}
          /\ UNCHANGED circuit
       \/ /\ Errors # {}
          /\ circuit' = Disable(circuit, "backend")
          /\ UNCHANGED todo
    /\ UNCHANGED <<rows, open, queue, worker, gate, closing, reply, sync,
                   jobs, used, known, scope, requested, thr, seen, crashes>>

Recovered(s) ==
    IF s.status \in InFlight THEN [s EXCEPT !.status = "interrupted"] ELSE s

(* One iteration of the loop of recover_from_storage.  A failed write      *)
(* ends recovery: the rows not reached stay out of the map.  to_job gives  *)
(* a row that was terminal already a token that is cancelled.              *)
RecoverRow(j) ==
    /\ phase = "recovering"
    /\ j \in todo
    /\ LET new == Recovered(rows[j])
           flipped == new # rows[j]
       IN  \/ /\ rows' = IF flipped /\ CanWrite(circuit)
                         THEN [rows EXCEPT ![j] = new] ELSE rows
              /\ jobs' = [jobs EXCEPT ![j] = new]
              /\ seen' = IF flipped THEN [seen EXCEPT ![j] = new] ELSE seen
              /\ scope' = [scope EXCEPT ![j] = {j}]
              /\ requested' = IF flipped THEN requested ELSE requested \cup {j}
              /\ todo' = todo \ {j}
              /\ UNCHANGED circuit
           \/ /\ flipped /\ CanWrite(circuit) /\ Errors # {}
              /\ circuit' = Disable(circuit, "backend")
              /\ todo' = {}
              /\ UNCHANGED <<rows, jobs, seen, scope, requested>>
    /\ UNCHANGED <<open, queue, worker, gate, closing, reply, sync,
                   phase, used, known, thr, crashes>>

(* The listener starts once recovery is over.                              *)
Serve ==
    /\ phase = "recovering"
    /\ todo = {}
    /\ phase' = "up"
    /\ UNCHANGED <<pvars, jobs, used, known, scope, requested, thr, seen, todo, crashes>>

-----------------------------------------------------------------------------
Work ==
    /\ WorkerStep
    /\ ForgetPurged
    /\ UNCHANGED <<phase, jobs, used, scope, requested, thr, seen, todo, crashes>>

Call(t) ==
    \/ \E j \in Jobs :
          \/ \E parent \in Jobs : Create(t, j, parent)
          \/ \E p \in 1..MaxProgress : UpdateProgress(t, j, p)
          \/ "output" \in Ops /\ SetOutput(t, j)
          \/ Start(t, j)
          \/ Complete(t, j)
          \/ Fail(t, j)
          \/ "cancel" \in Ops /\ Cancel(t, j)
          \/ AcknowledgeCancel(t, j)
    \/ \E old \in SUBSET Jobs :
          \/ "gc" \in Ops /\ GcStale(t, old, FALSE)
          \/ "cleanup" \in Ops /\ GcStale(t, old, TRUE)
    \/ "shutdown" \in Ops /\ Shutdown(t)

(* The steps a thread takes on its own once it is inside an operation.     *)
Continue(t) ==
    \/ PersistPut(t)
    \/ PutSend(t)
    \/ PutReturned(t)
    \/ Emit(t)
    \/ PruneRequest(t)
    \/ PruneSend(t)
    \/ PruneReturned(t)
    \/ Remove(t)
    \/ ShutdownMark(t)
    \/ ShutdownEnd(t, FALSE)
    \/ ShutdownDisable(t)
    \/ ShutdownClose(t)

Timeout(t) ==
    \/ "timeout" \in Ops /\ PruneTimeout(t)
    \/ ShutdownEnd(t, TRUE)

Process ==
    \/ Crash
    \/ \E old \in SUBSET Jobs :
          (old # {} => "retention" \in Ops) /\ Restart(old)
    \/ RecoverList
    \/ \E j \in Jobs : RecoverRow(j)
    \/ Serve

Next ==
    \/ \E t \in Threads : Call(t) \/ Continue(t) \/ Timeout(t)
    \/ Work
    \/ Process

Spec == Init /\ [][Next]_vars

(***************************************************************************)
(* The operating system schedules every thread and the worker, backend     *)
(* calls return, parking_lot's mutexes are eventually fair (a thread that  *)
(* wants the gate again and again gets it), and a deadline passes.  No     *)
(* client has to make a call.                                              *)
(***************************************************************************)
Fairness ==
    /\ WF_vars(Work)
    /\ \A t \in Threads : SF_vars(Continue(t)) /\ WF_vars(ShutdownEnd(t, TRUE))

FairSpec == Spec /\ Fairness

-----------------------------------------------------------------------------
PutsOf(q) == {i \in 1..Len(q) : q[i].type = "put"}

BusyPut == worker.pc \in {"put", "putdone"}

(***************************************************************************)
(* Neither a row nor any snapshot on its way to the backend or to the      *)
(* subscribers is ever ahead of the job in the map, in whatever order the  *)
(* threads, the worker and a restart interleave: recovery and queries can  *)
(* only be late, never invent progress (manager.rs: mutate, then           *)
(* persist_put, then emit).                                                *)
(***************************************************************************)
NeverAhead ==
    \A j \in Jobs : Tracked(j) =>
        /\ rows[j] # Absent => Precedes(rows[j], jobs[j])
        /\ \A i \in PutsOf(queue) :
              queue[i].job = j => Precedes(queue[i].snap, jobs[j])
        /\ BusyPut /\ worker.cmd.job = j => Precedes(worker.cmd.snap, jobs[j])
        /\ \A t \in Threads :
              WorkingOn(t, j) => Precedes(thr[t].snap, jobs[j])

(***************************************************************************)
(* With waiting writes, subscribers never learn of a state that a crash    *)
(* could take back: persist_put returns before emit is called, so the      *)
(* state an event announced is on disk, or the job is over and purged.     *)
(***************************************************************************)
NotifiedIsDurable ==
    CanWrite(circuit) =>
        \A j \in Jobs :
            \/ seen[j] = Absent
            \/ rows[j] # Absent /\ Precedes(seen[j], rows[j])
            \/ rows[j] = Absent /\ (IsTerminal(seen[j]) \/ IsTerminal(jobs[j]))

(***************************************************************************)
(* A job id that a client holds can be queried at every moment the server  *)
(* is up, across crashes, until a purge takes the job: "clients never see  *)
(* a silently lost job" (job_storage/mod.rs).                              *)
(***************************************************************************)
NeverLost == phase = "up" => \A j \in known : Tracked(j)

(***************************************************************************)
(* "a successful return means those writes reached the backend before      *)
(* ownership closes" (drain, persistence.rs): when the worker has left its *)
(* loop no write is left behind in the queue.                              *)
(***************************************************************************)
DrainLosesNothing ==
    worker.pc = "exited" => \A i \in 1..Len(queue) : queue[i].type = "shutdown"

(***************************************************************************)
(* The rows of the backend follow the job life cycle through every crash,  *)
(* write failure, disabled period and purge: module JobLedger is what the  *)
(* manager, its worker and recovery implement together.                    *)
(***************************************************************************)
Ledger == INSTANCE JobLedger WITH ledger <- rows

RowsFollowLedger == Ledger!Spec

(***************************************************************************)
(* Subscribers see a job's transitions in the order they happened:         *)
(* "Subscribers are called synchronously while the internal write lock is  *)
(* held" (JobManager::subscribe).                                          *)
(***************************************************************************)
EventsInOrder ==
    [][\A j \in Jobs :
         seen[j] # Absent /\ seen'[j] # Absent => Precedes(seen[j], seen'[j])]_vars

(***************************************************************************)
(* A cleanup "Purges terminal rows ... from both the in-process map and    *)
(* any attached JobStorage backend" (cleanup_older_than_hours): a job that *)
(* is out of the map leaves no row behind, so it cannot reappear after a   *)
(* restart.  For runs without backend errors.                              *)
(***************************************************************************)
PurgedIsGone == phase = "up" => \A j \in Jobs : rows[j] # Absent => Tracked(j)

(***************************************************************************)
(* Every call into the manager returns: no thread waits forever for the    *)
(* enqueue gate, for room in the queue, for the worker's answer, or for    *)
(* the map's guards.                                                       *)
(***************************************************************************)
CallsReturn ==
    \A t \in Threads : thr[t].pc # "idle" ~> thr[t].pc = "idle"

(***************************************************************************)
(* The outcome of a job becomes durable, or persistence is disabled, or    *)
(* the job is purged, or the process ends first.                           *)
(***************************************************************************)
OutcomeBecomesDurable ==
    \A j \in Jobs :
        IsTerminal(jobs[j]) ~>
            rows[j] = jobs[j] \/ circuit.disabled \/ closing \/ ~Tracked(j)

=============================================================================
