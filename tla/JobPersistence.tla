--------------------------- MODULE JobPersistence ---------------------------
(***************************************************************************)
(* The persistence side of a JobManager                                    *)
(* (dcc-mcp-job/src/job/persistence.rs): the bounded command queue, the    *)
(* single worker thread that owns the transaction                          *)
(*      can_write -> storage.put -> record the result,                     *)
(* the write circuit, and the backend's rows.  The operations of           *)
(* PersistenceWriter (put, delete_older_than, delete_older_than_blocking,  *)
(* drain) run on the threads that call the manager: they are the           *)
(* operators with a thread parameter, and module JobManager composes them  *)
(* with the job map.                                                       *)
(*                                                                         *)
(* The storage behind the trait is an atomic map; SqliteStorage models how *)
(* one backend hands the file over between processes.  The writer's        *)
(* "worker_unavailable" branches need a worker that panicked or never      *)
(* started and are left out.                                               *)
(***************************************************************************)
EXTENDS JobTypes, PersistenceCircuit, Sequences

CONSTANTS
    Threads,         \* threads that call the manager
    NoThread,        \* nobody: no lock holder, no one awaits a reply
    Modes,           \* TRUE: with_storage, FALSE: with_offloaded_storage
    QueueCapacity    \* PERSISTENCE_QUEUE_CAPACITY

ASSUME QueueAssumption == QueueCapacity \in Nat \ {0}
ASSUME ThreadAssumption == NoThread \notin Threads
ASSUME ModesAssumption == Modes \subseteq BOOLEAN

VARIABLES
    rows,       \* the backend: the persisted snapshot of each job
    open,       \* FALSE once shutdown or force_close closed the backend
    circuit,    \* the PersistenceCircuit
    queue,      \* the sync_channel of PersistenceCommands
    worker,     \* what the worker thread is doing
    gate,       \* the holder of enqueue_gate
    closing,    \* set by drain, never reset
    reply,      \* completion channel of each thread's pending command
    sync        \* wait_for_completion, fixed by the manager's constructor

pvars == <<rows, open, circuit, queue, worker, gate, closing, reply, sync>>

-----------------------------------------------------------------------------
(* PersistenceCommand.  `to` is the receiver of the completion message.    *)
(* A DeleteOlderThan carries a cutoff time; its meaning is the set of jobs *)
(* whose last update is older than the cutoff.                             *)
PutCmd(j, s, t) == [type |-> "put", job |-> j, snap |-> s, to |-> t]
DeleteCmd(old, t) == [type |-> "delete", jobs |-> old, to |-> t]
ShutdownCmd(t) == [type |-> "shutdown", to |-> t]

Receivers == Threads \cup {NoThread}

PutCommand == [type : {"put"}, job : Jobs, snap : Snapshot, to : Receivers]

Command ==
    PutCommand
    \cup [type : {"delete"}, jobs : SUBSET Jobs, to : Receivers]
    \cup [type : {"shutdown"}, to : Receivers]

(* idle: blocked in recv(); put / delete: the check passed and the backend *)
(* is being called; putdone / deletedone: the backend returned `result`    *)
(* (NoError or a fingerprint) and it has not been recorded; reply: only    *)
(* the completion message is left; exited: the loop was left.              *)
Idle == [pc |-> "idle"]

WorkerPCs == {"put", "putdone", "delete", "deletedone", "reply"}

Worker ==
    [pc : {"idle", "exited"}]
    \cup [pc : WorkerPCs, cmd : Command, result : Fingerprints \cup {NoError}]

PersistenceTypeOK ==
    /\ rows \in [Jobs -> Snapshot \cup {Absent}]
    /\ open \in BOOLEAN
    /\ circuit \in Circuit
    /\ queue \in Seq(Command)
    /\ Len(queue) <= QueueCapacity
    /\ worker \in Worker
    /\ gate \in Threads \cup {NoThread}
    /\ closing \in BOOLEAN
    /\ reply \in [Threads -> {"none", "queued", "ok", "failed"}]
    /\ sync \in BOOLEAN

(* A writer as PersistenceWriter::new and PersistenceCircuit::configured   *)
(* make it, over rows that may come from an earlier process.               *)
FreshWriter ==
    /\ open' = TRUE
    /\ circuit' = Configured
    /\ queue' = <<>>
    /\ worker' = Idle
    /\ gate' = NoThread
    /\ closing' = FALSE
    /\ reply' = [t \in Threads |-> "none"]
    /\ UNCHANGED sync

PersistenceInit ==
    /\ rows = [j \in Jobs |-> Absent]
    /\ open = TRUE
    /\ circuit = Configured
    /\ queue = <<>>
    /\ worker = Idle
    /\ gate = NoThread
    /\ closing = FALSE
    /\ reply = [t \in Threads |-> "none"]
    /\ sync \in Modes

-----------------------------------------------------------------------------
(* The writer's side: an attempt to enqueue cmd under enqueue_gate.        *)
(*   "skip"     closing, or the circuit does not admit it                  *)
(*   "sent"     accepted by the channel                                    *)
(*   "full"     try_send on a full channel disables persistence            *)
(*   "blocked"  send on a full channel waits, holding the gate             *)
Push(cmd) ==
    /\ Len(queue) < QueueCapacity
    /\ queue' = Append(queue, cmd)
    /\ reply' = IF cmd.to = NoThread THEN reply
                ELSE [reply EXCEPT ![cmd.to] = "queued"]

(* Faulty: commands are sent without the gate, behind a drain's marker.    *)
EnqueueUngated(t, cmd, admitted, waits, outcome) ==
    /\ outcome = "sent"
    /\ admitted
    /\ Push(cmd)
    /\ UNCHANGED <<rows, open, circuit, worker, gate, closing, sync>>

Enqueue(t, cmd, admitted, waits, outcome) ==
    /\ gate = NoThread
    /\ \/ /\ outcome = "skip"
          /\ closing \/ ~admitted
          /\ UNCHANGED <<circuit, queue, gate, reply>>
       \/ /\ outcome = "sent"
          /\ ~closing /\ admitted
          /\ Push(cmd)
          /\ UNCHANGED <<circuit, gate>>
       \/ /\ outcome = "full"
          /\ ~closing /\ admitted /\ ~waits /\ Len(queue) = QueueCapacity
          /\ circuit' = Disable(circuit, "queue_full")
          /\ UNCHANGED <<queue, gate, reply>>
       \/ /\ outcome = "blocked"
          /\ ~closing /\ admitted /\ waits /\ Len(queue) = QueueCapacity
          /\ gate' = t
          /\ UNCHANGED <<circuit, queue, reply>>
    /\ UNCHANGED <<rows, open, worker, closing, sync>>

(* PersistenceWriter::put *)
Put(t, j, s, outcome) ==
    Enqueue(t, PutCmd(j, s, IF sync THEN t ELSE NoThread),
            CanWrite(circuit), sync, outcome)

(* PersistenceWriter::delete_older_than and, with confirm,                 *)
(* delete_older_than_blocking, which waits for the reply in both modes but *)
(* never for room in the queue.                                            *)
DeleteOlderThan(t, old, confirm, outcome) ==
    Enqueue(t, DeleteCmd(old, IF sync \/ confirm THEN t ELSE NoThread),
            CanWrite(circuit) \/ CanRetryRetention(circuit),
            sync /\ ~confirm, outcome)

(* Faulty: the gate is not released.                                       *)
SendBlockedKeepsGate(t, cmd) ==
    /\ gate = t
    /\ Push(cmd)
    /\ UNCHANGED <<rows, open, circuit, worker, gate, closing, sync>>

(* The blocking send of a thread that found the channel full.              *)
SendBlocked(t, cmd) ==
    /\ gate = t
    /\ Push(cmd)
    /\ gate' = NoThread
    /\ UNCHANGED <<rows, open, circuit, worker, closing, sync>>

(* recv() returned: the thread takes the answer.                           *)
TakeReply(t) ==
    /\ reply[t] \in {"ok", "failed"}
    /\ reply' = [reply EXCEPT ![t] = "none"]

(* Dropping the receiver: the worker's later send to it is an error that   *)
(* it ignores.                                                             *)
Forget(t, cmd) == IF cmd.to = t THEN [cmd EXCEPT !.to = NoThread] ELSE cmd

DropReceiver(t) ==
    /\ reply' = [reply EXCEPT ![t] = "none"]
    /\ queue' = [i \in 1..Len(queue) |-> Forget(t, queue[i])]
    /\ worker' = IF worker.pc \in WorkerPCs
                 THEN [worker EXCEPT !.cmd = Forget(t, worker.cmd)]
                 ELSE worker

(* recv_timeout of delete_older_than_blocking elapsed.                     *)
DeleteTimeout(t) ==
    /\ reply[t] = "queued"
    /\ DropReceiver(t)
    /\ circuit' = Disable(circuit, "retention_prune_failed")
    /\ UNCHANGED <<rows, open, gate, closing, sync>>

(* drain: the gate is held from here until drain returns.                  *)
DrainBegin(t) ==
    /\ gate = NoThread
    /\ gate' = t
    /\ closing' = TRUE
    /\ UNCHANGED <<rows, open, circuit, queue, worker, reply, sync>>

(* The marker is retried while the queue is full.                          *)
DrainMark(t) ==
    /\ gate = t
    /\ worker.pc # "exited"
    /\ Push(ShutdownCmd(t))
    /\ UNCHANGED <<rows, open, circuit, worker, gate, closing, sync>>

(* drain returns and lets go of the gate: unmarked, because the worker is  *)
(* gone or the queue stayed full until the deadline; marked, on the        *)
(* worker's answer or at the deadline.                                     *)
DrainEnd(t, marked, timedOut) ==
    /\ gate = t
    /\ IF timedOut
       THEN IF marked THEN reply[t] = "queued"
            ELSE worker.pc # "exited" /\ Len(queue) = QueueCapacity
       ELSE IF marked THEN reply[t] = "ok" ELSE worker.pc = "exited"
    /\ DropReceiver(t)
    /\ gate' = NoThread
    /\ UNCHANGED <<rows, open, circuit, closing, sync>>

-----------------------------------------------------------------------------
(* Faulty: the completion message is forgotten.                            *)
AnswerNobody(cmd, result) == UNCHANGED reply

(* The worker's side.  Answer sends the completion message, if anyone is   *)
(* still there to receive it.                                              *)
Answer(cmd, result) ==
    reply' = IF cmd.to = NoThread THEN reply ELSE [reply EXCEPT ![cmd.to] = result]

(* receiver.recv(), and the circuit check each command starts with.        *)
WorkerReceive ==
    /\ worker.pc = "idle"
    /\ queue # <<>>
    /\ queue' = Tail(queue)
    /\ LET cmd == Head(queue)
           admitted == \/ CanWrite(circuit)
                       \/ cmd.type = "delete" /\ CanRetryRetention(circuit)
       IN  IF cmd.type = "shutdown"
           THEN worker' = [pc |-> "exited"] /\ Answer(cmd, "ok")
           ELSE IF admitted
           THEN /\ worker' = [pc |-> cmd.type, cmd |-> cmd, result |-> NoError]
                /\ UNCHANGED reply
           ELSE /\ worker' = Idle
                /\ Answer(cmd, IF cmd.type = "put" THEN "ok" ELSE "failed")
    /\ UNCHANGED <<rows, open, circuit, gate, closing, sync>>

(* A closed backend refuses every call.                                    *)
BackendErrors == IF open THEN Errors ELSE {ClosedError}

(* storage.put: an upsert of the whole row, or an error.                   *)
WorkerPut ==
    /\ worker.pc = "put"
    /\ \/ /\ open
          /\ rows' = [rows EXCEPT ![worker.cmd.job] = worker.cmd.snap]
          /\ worker' = [worker EXCEPT !.pc = "putdone"]
       \/ \E e \in BackendErrors :
          /\ worker' = [worker EXCEPT !.pc = "putdone", !.result = e]
          /\ UNCHANGED rows
    /\ UNCHANGED <<open, circuit, queue, gate, closing, reply, sync>>

(* The result is dropped when persistence was disabled meanwhile.          *)
WorkerRecordPut ==
    /\ worker.pc = "putdone"
    /\ circuit' = IF ~CanWrite(circuit) THEN circuit
                  ELSE IF worker.result = NoError THEN RecordSuccess(circuit)
                  ELSE RecordFailure(circuit, worker.result)
    /\ worker' = Idle
    /\ Answer(worker.cmd, "ok")
    /\ UNCHANGED <<rows, open, queue, gate, closing, sync>>

(* Faulty: rows of jobs in flight are deleted too.                         *)
PruneInFlight(old) == [j \in Jobs |-> IF j \in old THEN Absent ELSE rows[j]]

(* storage.delete_older_than: only terminal rows are deleted.              *)
Prune(old) ==
    [j \in Jobs |-> IF j \in old /\ IsTerminal(rows[j]) THEN Absent ELSE rows[j]]

WorkerDelete ==
    /\ worker.pc = "delete"
    /\ \/ /\ open
          /\ rows' = Prune(worker.cmd.jobs)
          /\ worker' = [worker EXCEPT !.pc = "deletedone"]
       \/ \E e \in BackendErrors :
          /\ worker' = [worker EXCEPT !.pc = "deletedone", !.result = e]
          /\ UNCHANGED rows
    /\ UNCHANGED <<open, circuit, queue, gate, closing, reply, sync>>

(* A successful prune re-enables a circuit that a failed one disabled.     *)
WorkerRecordDelete ==
    /\ worker.pc = "deletedone"
    /\ circuit' = IF worker.result = NoError
                  THEN RecordRetentionSuccess(circuit)
                  ELSE Disable(circuit, "retention_prune_failed")
    /\ worker' = [worker EXCEPT !.pc = "reply"]
    /\ UNCHANGED <<rows, open, queue, gate, closing, reply, sync>>

WorkerReply ==
    /\ worker.pc = "reply"
    /\ worker' = Idle
    /\ Answer(worker.cmd, IF worker.result = NoError THEN "ok" ELSE "failed")
    /\ UNCHANGED <<rows, open, circuit, queue, gate, closing, sync>>

WorkerStep ==
    \/ WorkerReceive
    \/ WorkerPut
    \/ WorkerRecordPut
    \/ WorkerDelete
    \/ WorkerRecordDelete
    \/ WorkerReply

=============================================================================
