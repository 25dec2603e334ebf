-------------------------- MODULE JobManagerProofs --------------------------
(***************************************************************************)
(* Proofs about JobManager, for every set of jobs and threads, every       *)
(* capacity of the writer's channel, every threshold of the circuit and    *)
(* every number of crashes: what holds of every one of its instances.      *)
(*                                                                         *)
(* The argument follows a snapshot on its way: from the map to the thread  *)
(* that changed the job, into the channel, to the worker, into the row.    *)
(* CoreInv: no copy on that way is ahead of the map.  DrainInv: a drain's  *)
(* marker is the last command.  JobDurabilityProofs goes on from here,     *)
(* with the assumptions the order of the rows and the durability of the    *)
(* events need.                                                            *)
(***************************************************************************)
EXTENDS JobManager, TLAPS

-----------------------------------------------------------------------------
(* The values the state is made of.                                        *)
LEMMA SnapshotTypes ==
  /\ NewJob \in Snapshot
  /\ Absent \notin Snapshot
  /\ \A s \in Snapshot : s # Absent
<1>1. Absent \notin Snapshot
  BY Zenon DEF Absent, Snapshot, InFlight, TerminalStatuses
<1> QED
  BY <1>1, MaxProgressAssumption, SMTT(60) DEF NewJob, Snapshot, InFlight

(* Later than later is later: Precedes composes.                           *)
LEMMA PrecedesTransitive ==
  ASSUME NEW a \in Snapshot, NEW b \in Snapshot, NEW c \in Snapshot,
         Precedes(a, b), Precedes(b, c)
  PROVE  Precedes(a, c)
BY SMTT(60) DEF Precedes, Snapshot, IsTerminal, InFlight, TerminalStatuses

(* What the three commands of the writer's channel carry.                  *)
LEMMA CommandTypes ==
  ASSUME NEW r \in Receivers
  PROVE  /\ \A j \in Jobs, s \in Snapshot :
              /\ PutCmd(j, s, r) \in Command
              /\ PutCmd(j, s, r).type = "put" /\ PutCmd(j, s, r).job = j
              /\ PutCmd(j, s, r).snap = s /\ PutCmd(j, s, r).to = r
         /\ \A old \in SUBSET Jobs :
              /\ DeleteCmd(old, r) \in Command
              /\ DeleteCmd(old, r).type = "delete" /\ DeleteCmd(old, r).to = r
         /\ ShutdownCmd(r) \in Command
         /\ ShutdownCmd(r).type = "shutdown" /\ ShutdownCmd(r).to = r
BY Zenon DEF PutCmd, DeleteCmd, ShutdownCmd, Command, PutCommand

(* What a command is.                                                      *)
LEMMA CommandFields ==
  ASSUME NEW c \in Command
  PROVE  /\ c.type \in {"put", "delete", "shutdown"} /\ c.to \in Receivers
         /\ c.type = "put" => c.job \in Jobs /\ c.snap \in Snapshot
         /\ c.type = "delete" => c.jobs \in SUBSET Jobs
BY Zenon DEF Command, PutCommand

(* Forgetting the receiver leaves a command what it is.                    *)
LEMMA ForgetKeeps ==
  ASSUME NEW c \in Command, NEW t
  PROVE  /\ Forget(t, c) \in Command
         /\ Forget(t, c).type = c.type
         /\ c.type = "put" => Forget(t, c).job = c.job /\ Forget(t, c).snap = c.snap
         /\ Forget(t, c).to \in {c.to, NoThread}
<1>1. CASE c \in PutCommand
  BY <1>1, Zenon DEF Forget, Command, PutCommand, Receivers
<1>2. CASE c \in [type : {"delete"}, jobs : SUBSET Jobs, to : Receivers]
  BY <1>2, Zenon DEF Forget, Command, Receivers
<1>3. CASE c \in [type : {"shutdown"}, to : Receivers]
  BY <1>3, Zenon DEF Forget, Command, Receivers
<1> QED
  BY <1>1, <1>2, <1>3, Zenon DEF Command

(* The worker on a command.                                                *)
Busy == [pc : WorkerPCs, cmd : Command, result : Fingerprints \cup {NoError}]

(* A worker between commands holds none.                                   *)
LEMMA WorkerFields ==
  ASSUME NEW w \in Worker
  PROVE  /\ w.pc \in {"idle", "exited"} \cup WorkerPCs
         /\ w.pc \in WorkerPCs => w \in Busy
         /\ w.pc \in {"idle", "exited"} => w = [pc |-> w.pc]
         /\ Idle \in Worker /\ Idle.pc = "idle"
         /\ [pc |-> "exited"] \in Worker /\ [pc |-> "exited"].pc = "exited"
BY Zenon DEF Worker, Busy, WorkerPCs, Idle

(* A thread inside an operation on a job, inside a purge, inside a         *)
(* shutdown.                                                               *)
JobThread == [pc : JobPCs, op : JobOps, job : Jobs, snap : Snapshot]
PruneThread == [pc : PrunePCs, old : SUBSET Jobs, confirm : BOOLEAN]

(* The fields a thread has follow from where it is.                        *)
LEMMA ThreadFields ==
  ASSUME NEW x \in Thread
  PROVE  /\ x.pc \in {"idle"} \cup JobPCs \cup PrunePCs \cup DrainPCs
         /\ x.pc \in JobPCs => /\ x \in JobThread /\ x.op \in JobOps
                              /\ x.job \in Jobs /\ x.snap \in Snapshot
         /\ x.pc \in PrunePCs => /\ x \in PruneThread
                                /\ x.old \in SUBSET Jobs /\ x.confirm \in BOOLEAN
         /\ x.pc \in {"idle"} \cup DrainPCs => x \in [pc : {"idle"} \cup DrainPCs]
BY Zenon DEF Thread, JobThread, PruneThread, JobPCs, PrunePCs, DrainPCs

(* The converse: what each kind of thread record holds.                    *)
LEMMA ThreadKinds ==
  /\ ThreadIdle \in Thread /\ ThreadIdle.pc = "idle"
  /\ \A x \in JobThread : /\ x \in Thread /\ x.pc \in JobPCs /\ x.op \in JobOps
                          /\ x.job \in Jobs /\ x.snap \in Snapshot
  /\ \A x \in PruneThread : /\ x \in Thread /\ x.pc \in PrunePCs
                            /\ x.old \in SUBSET Jobs /\ x.confirm \in BOOLEAN
  /\ \A x \in [pc : {"idle"} \cup DrainPCs] : x \in Thread
BY Zenon DEF ThreadIdle, Thread, JobThread, PruneThread

(* A jump inside an operation keeps what the operation is about.           *)
LEMMA JobJump ==
  ASSUME NEW x \in JobThread, NEW pc \in JobPCs
  PROVE  LET y == [x EXCEPT !.pc = pc]
         IN  /\ y \in JobThread /\ y.pc = pc /\ y.op = x.op
             /\ y.job = x.job /\ y.snap = x.snap
BY Zenon DEF JobThread

(* A thread in a purge moves on, or drops ids, and stays one.              *)
LEMMA PruneJump ==
  ASSUME NEW x \in PruneThread, NEW pc \in PrunePCs, NEW K \in SUBSET Jobs
  PROVE  /\ [x EXCEPT !.pc = pc] \in PruneThread /\ [x EXCEPT !.pc = pc].pc = pc
         /\ [x EXCEPT !.old = K] \in PruneThread /\ [x EXCEPT !.old = K].pc = x.pc
BY Zenon DEF PruneThread

(* A thread in a shutdown moves on and stays one.                          *)
LEMMA DrainJump ==
  ASSUME NEW x \in [pc : {"idle"} \cup DrainPCs], NEW pc \in DrainPCs
  PROVE  [x EXCEPT !.pc = pc] \in [pc : {"idle"} \cup DrainPCs] /\ [x EXCEPT !.pc = pc].pc = pc
BY Zenon

-----------------------------------------------------------------------------
(* The circuit keeps its type as long as a full count has disabled it.     *)
CircuitOK(c) == c \in Circuit /\ (c.failures = Threshold => c.disabled)

(* Every operation of the circuit keeps it well formed; a failure is       *)
(* recorded only while writes are allowed, so the count cannot pass the    *)
(* threshold.                                                              *)
LEMMA CircuitTypes ==
  ASSUME NEW c, CircuitOK(c), NEW e \in Fingerprints, NEW k \in Kinds
  PROVE  /\ CircuitOK(Configured)
         /\ CircuitOK(RecordSuccess(c))
         /\ CanWrite(c) => CircuitOK(RecordFailure(c, e))
         /\ CircuitOK(Disable(c, k))
         /\ CircuitOK(RecordRetentionSuccess(c))
<1>1. c \in Circuit
  BY Zenon DEF CircuitOK
<1>2. CircuitOK(Configured)
  BY ThresholdAssumption, SMTT(60) DEF CircuitOK, Circuit, Configured, Kinds
<1>3. CircuitOK(RecordSuccess(c))
  <2>1. RecordSuccess(c) \in Circuit
    <3>1. 0 \in 0..Threshold /\ "none" \in Kinds
      BY ThresholdAssumption, SMTT(60) DEF Kinds
    <3> QED
      BY <1>1, <3>1, Zenon DEF RecordSuccess, Circuit
  <2>2. RecordSuccess(c).failures = 0
    BY <1>1, Zenon DEF RecordSuccess, Circuit
  <2> QED
    BY <2>1, <2>2, ThresholdAssumption, Zenon DEF CircuitOK
<1>4. CircuitOK(Disable(c, k))
  BY <1>1, ThresholdAssumption, SMTT(60) DEF Disable, CircuitOK, Circuit
<1>5. ASSUME CanWrite(c) PROVE CircuitOK(RecordFailure(c, e))
  <2>1. c.failures \in 0..Threshold /\ c.failures # Threshold
    BY <1>1, <1>5, Zenon DEF CanWrite, CircuitOK, Circuit
  <2>2. Failures(c, e) \in 1..Threshold
    BY <2>1, ThresholdAssumption, SMTT(60) DEF Failures
  <2>4. (c.disabled \/ Failures(c, e) >= Threshold) \in BOOLEAN
    BY Zenon
  <2>5. RecordFailure(c, e) \in Circuit
    BY <2>2, <2>4, ThresholdAssumption, SMTT(60) DEF RecordFailure, Circuit, Kinds
  <2>6. RecordFailure(c, e).failures = Threshold => RecordFailure(c, e).disabled
    <3>1. /\ RecordFailure(c, e).failures = Failures(c, e)
          /\ RecordFailure(c, e).disabled <=> (c.disabled \/ Failures(c, e) >= Threshold)
      BY Zenon DEF RecordFailure
    <3>2. Failures(c, e) = Threshold => Failures(c, e) >= Threshold
      BY <2>2, ThresholdAssumption, SMTT(60)
    <3> QED
      BY <3>1, <3>2, Zenon
  <2> QED
    BY <2>5, <2>6, Zenon DEF CircuitOK
<1> QED
  BY <1>2, <1>3, <1>4, <1>5, Zenon DEF RecordRetentionSuccess, CircuitOK

-----------------------------------------------------------------------------
(* The writer and the worker keep their types.                             *)
Answers == {"none", "queued", "ok", "failed"}

(* The worker is at a step of the command it has.                          *)
WorkerKind ==
  /\ worker.pc \in {"put", "putdone"} => worker.cmd.type = "put"
  /\ worker.pc \in {"delete", "deletedone", "reply"} => worker.cmd.type = "delete"

PersistenceOK == PersistenceTypeOK /\ CircuitOK(circuit) /\ WorkerKind

(* A push adds one command at the back of a channel with room for it.      *)
LEMMA PushEffect ==
  ASSUME PersistenceTypeOK, NEW c \in Command, Push(c)
  PROVE  /\ queue' \in Seq(Command) /\ Len(queue') <= QueueCapacity
         /\ Len(queue') = Len(queue) + 1
         /\ \A i \in 1..Len(queue) : queue'[i] = queue[i]
         /\ queue'[Len(queue) + 1] = c
         /\ reply' \in [Threads -> Answers]
<1>1. queue \in Seq(Command) /\ Len(queue) \in Nat /\ queue' = Append(queue, c)
  BY SMTT(60) DEF PersistenceTypeOK, Push
<1>2. Len(queue) < QueueCapacity
  BY Zenon DEF Push
<1>3. c.to \in Threads \cup {NoThread}
  BY CommandFields, Zenon DEF Receivers
<1>4. reply' \in [Threads -> Answers]
  BY <1>3, Zenon DEF Push, PersistenceTypeOK, Answers
<1>5. /\ queue' \in Seq(Command) /\ Len(queue') = Len(queue) + 1
      /\ \A i \in 1..Len(queue) : queue'[i] = queue[i]
      /\ queue'[Len(queue) + 1] = c
  BY <1>1, SMTT(60)
<1>6. Len(queue') <= QueueCapacity
  BY <1>1, <1>2, <1>5, QueueAssumption, SMTT(60)
<1> QED
  BY <1>4, <1>5, <1>6, Zenon

(* Handing a command to the writer keeps the persistence state well typed, *)
(* whatever the outcome.                                                   *)
LEMMA EnqueueTypes ==
  ASSUME PersistenceOK, NEW t \in Threads, NEW c \in Command,
         NEW admitted, NEW waits, NEW outcome,
         Enqueue(t, c, admitted, waits, outcome)
  PROVE  PersistenceOK'
<1>1. UNCHANGED <<rows, open, worker, closing, sync>>
  BY Zenon DEF Enqueue
<1>2. gate' \in Threads \cup {NoThread}
  BY Zenon DEF Enqueue, PersistenceOK, PersistenceTypeOK
<1>3. CircuitOK(circuit)' /\ circuit' \in Circuit
  <2>1. "queue_full" \in Kinds /\ ClosedError \in Fingerprints
    BY Zenon DEF Kinds, Fingerprints
  <2>2. CircuitOK(circuit) /\ CircuitOK(Disable(circuit, "queue_full"))
    BY <2>1, CircuitTypes, Zenon DEF PersistenceOK
  <2>3. circuit' = circuit \/ circuit' = Disable(circuit, "queue_full")
    BY Zenon DEF Enqueue
  <2> QED
    BY <2>2, <2>3, Zenon DEF CircuitOK
<1>4. queue' \in Seq(Command) /\ Len(queue') <= QueueCapacity /\ reply' \in [Threads -> Answers]
  <2>1. CASE Push(c)
    BY <2>1, PushEffect, Zenon DEF PersistenceOK
  <2>2. CASE UNCHANGED <<queue, reply>>
    BY <2>2, Zenon DEF PersistenceOK, PersistenceTypeOK, Answers
  <2> QED
    BY <2>1, <2>2, Zenon DEF Enqueue
<1> QED
  BY <1>1, <1>2, <1>3, <1>4, Zenon DEF PersistenceOK, PersistenceTypeOK, Answers, WorkerKind

(* So does the send that had to wait for room.                             *)
LEMMA SendBlockedTypes ==
  ASSUME PersistenceOK, NEW t \in Threads, NEW c \in Command, SendBlocked(t, c)
  PROVE  PersistenceOK'
<1>1. UNCHANGED <<rows, open, circuit, worker, closing, sync>> /\ gate' = NoThread
  BY Zenon DEF SendBlocked
<1>2. queue' \in Seq(Command) /\ Len(queue') <= QueueCapacity /\ reply' \in [Threads -> Answers]
  BY PushEffect, Zenon DEF PersistenceOK, SendBlocked
<1> QED
  BY <1>1, <1>2, Zenon DEF PersistenceOK, PersistenceTypeOK, Answers, CircuitOK, WorkerKind

(* Dropping a receiver changes no command but its receiver.                *)
LEMMA DropEffect ==
  ASSUME PersistenceTypeOK, NEW t \in Threads, DropReceiver(t)
  PROVE  /\ queue' \in Seq(Command) /\ Len(queue') = Len(queue)
         /\ \A i \in 1..Len(queue) : queue'[i] = Forget(t, queue[i])
         /\ reply' \in [Threads -> Answers]
         /\ worker' \in Worker /\ worker'.pc = worker.pc
         /\ worker.pc \in WorkerPCs => worker'.cmd = Forget(t, worker.cmd)
         /\ WorkerKind => WorkerKind'
<1>1. /\ queue \in Seq(Command) /\ Len(queue) \in Nat
      /\ queue' = [i \in 1..Len(queue) |-> Forget(t, queue[i])]
  BY SMTT(60) DEF PersistenceTypeOK, DropReceiver
<1>2. \A i \in 1..Len(queue) : queue[i] \in Command /\ Forget(t, queue[i]) \in Command
  BY <1>1, ForgetKeeps, SMTT(60)
<1>3. /\ queue' \in Seq(Command) /\ Len(queue') = Len(queue)
      /\ \A i \in 1..Len(queue) : queue'[i] = Forget(t, queue[i])
  BY <1>1, <1>2, SMTT(60)
<1>4. reply' \in [Threads -> Answers]
  BY Zenon DEF DropReceiver, PersistenceTypeOK, Answers
<1>5. /\ worker' \in Worker /\ worker'.pc = worker.pc
      /\ worker.pc \in WorkerPCs => worker'.cmd = Forget(t, worker.cmd)
  <2>1. CASE worker.pc \in WorkerPCs
    <3>1. worker \in Busy /\ worker' = [worker EXCEPT !.cmd = Forget(t, worker.cmd)]
      BY <2>1, WorkerFields, Zenon DEF DropReceiver, PersistenceTypeOK
    <3>2. worker.cmd \in Command
      BY <3>1, Zenon DEF Busy
    <3>3. Forget(t, worker.cmd) \in Command
      BY <3>2, ForgetKeeps, Zenon
    <3>4. [worker EXCEPT !.cmd = Forget(t, worker.cmd)] \in Busy
      BY <3>1, <3>3, Zenon DEF Busy
    <3> QED
      BY <3>1, <3>4, Zenon DEF Busy, Worker
  <2>2. CASE worker.pc \notin WorkerPCs
    BY <2>2, Zenon DEF DropReceiver, PersistenceTypeOK
  <2> QED
    BY <2>1, <2>2, Zenon
<1>6. ASSUME WorkerKind PROVE WorkerKind'
  <2>1. ASSUME worker.pc \in WorkerPCs PROVE worker'.cmd.type = worker.cmd.type
    <3>1. worker.cmd \in Command
      BY <2>1, WorkerFields, Zenon DEF PersistenceTypeOK, Busy
    <3> QED
      BY <2>1, <3>1, <1>5, ForgetKeeps, SMTT(60)
  <2> QED
    BY <1>5, <1>6, <2>1, Zenon DEF WorkerKind, WorkerPCs
<1> QED
  BY <1>3, <1>4, <1>5, <1>6, Zenon

(* So does a confirmed delete that gives up.                               *)
LEMMA TimeoutTypes ==
  ASSUME PersistenceOK, NEW t \in Threads, DeleteTimeout(t)
  PROVE  PersistenceOK'
<1>1. UNCHANGED <<rows, open, gate, closing, sync>> /\ DropReceiver(t)
  BY Zenon DEF DeleteTimeout
<1>2. CircuitOK(circuit)' /\ circuit' \in Circuit
  <2>1. "retention_prune_failed" \in Kinds /\ ClosedError \in Fingerprints
    BY Zenon DEF Kinds, Fingerprints
  <2> QED
    BY <2>1, CircuitTypes, Zenon DEF PersistenceOK, DeleteTimeout, CircuitOK
<1> QED
  BY <1>1, <1>2, DropEffect, Zenon DEF PersistenceOK, PersistenceTypeOK, Answers

(* So do the steps of a drain.                                             *)
LEMMA DrainTypes ==
  ASSUME PersistenceOK, NEW t \in Threads,
         \/ DrainBegin(t) \/ DrainMark(t)
         \/ \E marked \in BOOLEAN, timedOut \in BOOLEAN : DrainEnd(t, marked, timedOut)
  PROVE  PersistenceOK'
<1>1. CASE DrainBegin(t)
  BY <1>1, Zenon DEF DrainBegin, PersistenceOK, PersistenceTypeOK, CircuitOK, WorkerKind
<1>2. CASE DrainMark(t)
  <2>1. ShutdownCmd(t) \in Command
    BY CommandTypes, Zenon DEF Receivers
  <2>2. Push(ShutdownCmd(t)) /\ UNCHANGED <<rows, open, circuit, worker, gate, closing, sync>>
    BY <1>2, Zenon DEF DrainMark
  <2> QED
    BY <2>1, <2>2, PushEffect, Zenon DEF PersistenceOK, PersistenceTypeOK, CircuitOK, Answers, WorkerKind
<1>3. CASE \E marked \in BOOLEAN, timedOut \in BOOLEAN : DrainEnd(t, marked, timedOut)
  <2>1. DropReceiver(t) /\ gate' = NoThread /\ UNCHANGED <<rows, open, circuit, closing, sync>>
    BY <1>3, Zenon DEF DrainEnd
  <2> QED
    BY <2>1, DropEffect, Zenon DEF PersistenceOK, PersistenceTypeOK, CircuitOK, Answers
<1> QED
  BY <1>1, <1>2, <1>3, Zenon

(* An answer reaches a waiting thread or nobody.                           *)
LEMMA AnswerType ==
  ASSUME PersistenceTypeOK, NEW c \in Command, NEW r \in Answers, Answer(c, r)
  PROVE  reply' \in [Threads -> Answers]
<1>1. c.to \in Threads \cup {NoThread}
  BY CommandFields, Zenon DEF Receivers
<1> QED
  BY <1>1, Zenon DEF Answer, PersistenceTypeOK, Answers

(* The head of the queue is a command, and the rest a queue.               *)
LEMMA HeadAndTail ==
  ASSUME PersistenceTypeOK, queue # <<>>
  PROVE  /\ Len(queue) \in Nat \ {0}
         /\ Head(queue) \in Command /\ Head(queue) = queue[1]
         /\ Tail(queue) \in Seq(Command) /\ Len(Tail(queue)) = Len(queue) - 1
         /\ Len(Tail(queue)) <= QueueCapacity
         /\ \A i \in 1..Len(Tail(queue)) : Tail(queue)[i] = queue[i + 1]
<1>1. queue \in Seq(Command) /\ Len(queue) \in Nat /\ Len(queue) <= QueueCapacity
  BY SMTT(60) DEF PersistenceTypeOK
<1>2. Len(queue) # 0
  BY <1>1, SMTT(60)
<1> QED
  BY <1>1, <1>2, QueueAssumption, SMTT(60)

(* The worker takes a command of the right type.                           *)
LEMMA ReceiveTypes ==
  ASSUME PersistenceOK, WorkerReceive
  PROVE  PersistenceOK'
<1> DEFINE c == Head(queue)
<1>1. PersistenceTypeOK /\ queue # <<>> /\ worker.pc = "idle" /\ queue' = Tail(queue)
  BY Zenon DEF PersistenceOK, WorkerReceive
<1>2. c \in Command /\ queue' \in Seq(Command) /\ Len(queue') <= QueueCapacity
  BY <1>1, HeadAndTail, Zenon
<1>3. c.type \in {"put", "delete", "shutdown"}
  BY <1>2, CommandFields, Zenon
<1>4. UNCHANGED <<rows, open, circuit, gate, closing, sync>>
  BY Zenon DEF WorkerReceive
<1>5. \/ worker' = [pc |-> "exited"] /\ Answer(c, "ok")
      \/ /\ c.type # "shutdown"
         /\ worker' = [pc |-> c.type, cmd |-> c, result |-> NoError] /\ UNCHANGED reply
      \/ worker' = Idle /\ (Answer(c, "ok") \/ Answer(c, "failed"))
  BY <1>3, Zenon DEF WorkerReceive
<1> HIDE DEF c
<1>k. WorkerKind'
  BY <1>3, <1>5, SMTT(60) DEF WorkerKind, Idle
<1>6. worker' \in Worker
  <2>1. c.type # "shutdown" => [pc |-> c.type, cmd |-> c, result |-> NoError] \in Busy
    BY <1>2, <1>3, Zenon DEF Busy, WorkerPCs
  <2> QED
    BY <2>1, <1>5, WorkerFields, SMTT(60) DEF Worker, Busy, Idle
<1>7. reply' \in [Threads -> Answers]
  <2>1. "ok" \in Answers /\ "failed" \in Answers
    BY Zenon DEF Answers
  <2>2. reply \in [Threads -> Answers]
    BY <1>1, Zenon DEF PersistenceTypeOK, Answers
  <2> QED
    BY <1>1, <1>2, <1>5, <2>1, <2>2, AnswerType, Zenon
<1> QED
  BY <1>1, <1>2, <1>4, <1>6, <1>7, <1>k, Zenon DEF PersistenceOK, PersistenceTypeOK, CircuitOK, Answers

(* A call of the backend changes the rows of the command's jobs, and tells *)
(* the worker how it went.                                                 *)
LEMMA BackendEffect ==
  ASSUME PersistenceOK, WorkerPut \/ WorkerDelete
  PROVE  /\ worker \in Busy /\ worker.cmd \in Command
         /\ worker' \in Busy /\ worker'.cmd = worker.cmd
         /\ worker.pc = "put" => /\ worker.cmd.type = "put" /\ worker'.pc = "putdone"
                                 /\ \/ rows' = [rows EXCEPT ![worker.cmd.job] = worker.cmd.snap]
                                    \/ rows' = rows
         /\ worker.pc = "delete" => /\ worker.cmd.type = "delete" /\ worker'.pc = "deletedone"
                                    /\ rows' = Prune(worker.cmd.jobs) \/ rows' = rows
         /\ UNCHANGED <<open, circuit, queue, gate, closing, reply, sync>>
<1>1. worker.pc \in {"put", "delete"} /\ worker \in Worker
  BY Zenon DEF WorkerPut, WorkerDelete, PersistenceOK, PersistenceTypeOK
<1>2. worker \in Busy /\ worker.cmd \in Command
  BY <1>1, WorkerFields, Zenon DEF WorkerPCs, Busy
<1>3. BackendErrors \subseteq Fingerprints
  BY Zenon DEF BackendErrors, Fingerprints
<1>4. CASE WorkerPut
  <2>1. worker.pc = "put" /\ UNCHANGED <<open, circuit, queue, gate, closing, reply, sync>>
    BY <1>4, Zenon DEF WorkerPut
  <2>2. \/ rows' = [rows EXCEPT ![worker.cmd.job] = worker.cmd.snap] \/ rows' = rows
    BY <1>4, Zenon DEF WorkerPut
  <2>3. worker' \in Busy /\ worker'.cmd = worker.cmd /\ worker'.pc = "putdone"
    <3>1. PICK e \in Fingerprints \cup {NoError} :
            \/ worker' = [worker EXCEPT !.pc = "putdone"]
            \/ worker' = [worker EXCEPT !.pc = "putdone", !.result = e]
      BY <1>4, <1>3, Zenon DEF WorkerPut
    <3>2. "putdone" \in WorkerPCs
      BY Zenon DEF WorkerPCs
    <3>3. LET w == [worker EXCEPT !.pc = "putdone"]
          IN  w \in Busy /\ w.cmd = worker.cmd /\ w.pc = "putdone"
      BY <3>2, <1>2, Zenon DEF Busy
    <3>4. LET w == [worker EXCEPT !.pc = "putdone", !.result = e]
          IN  w \in Busy /\ w.cmd = worker.cmd /\ w.pc = "putdone"
      BY <3>2, <1>2, Zenon DEF Busy
    <3> QED
      BY <3>1, <3>3, <3>4, Zenon
  <2> QED
    BY <2>1, <2>2, <2>3, <1>2, Zenon DEF PersistenceOK, WorkerKind
<1>5. CASE WorkerDelete
  <2>1. worker.pc = "delete" /\ UNCHANGED <<open, circuit, queue, gate, closing, reply, sync>>
    BY <1>5, Zenon DEF WorkerDelete
  <2>2. rows' = Prune(worker.cmd.jobs) \/ rows' = rows
    BY <1>5, Zenon DEF WorkerDelete
  <2>3. worker' \in Busy /\ worker'.cmd = worker.cmd /\ worker'.pc = "deletedone"
    <3>1. PICK e \in Fingerprints \cup {NoError} :
            \/ worker' = [worker EXCEPT !.pc = "deletedone"]
            \/ worker' = [worker EXCEPT !.pc = "deletedone", !.result = e]
      BY <1>5, <1>3, Zenon DEF WorkerDelete
    <3>2. "deletedone" \in WorkerPCs
      BY Zenon DEF WorkerPCs
    <3>3. LET w == [worker EXCEPT !.pc = "deletedone"]
          IN  w \in Busy /\ w.cmd = worker.cmd /\ w.pc = "deletedone"
      BY <3>2, <1>2, Zenon DEF Busy
    <3>4. LET w == [worker EXCEPT !.pc = "deletedone", !.result = e]
          IN  w \in Busy /\ w.cmd = worker.cmd /\ w.pc = "deletedone"
      BY <3>2, <1>2, Zenon DEF Busy
    <3> QED
      BY <3>1, <3>3, <3>4, Zenon
  <2> QED
    BY <2>1, <2>2, <2>3, <1>2, Zenon DEF PersistenceOK, WorkerKind
<1> QED
  BY <1>4, <1>5, Zenon

(* A prune takes only jobs that are over.                                  *)
LEMMA PruneEffect ==
  ASSUME rows \in [Jobs -> Snapshot \cup {Absent}], NEW old
  PROVE  /\ Prune(old) \in [Jobs -> Snapshot \cup {Absent}]
         /\ \A j \in Jobs : \/ Prune(old)[j] = rows[j]
                            \/ Prune(old)[j] = Absent /\ IsTerminal(rows[j])
BY Zenon DEF Prune

(* A call of the backend, failed or not, leaves rows that are snapshots.   *)
LEMMA BackendTypes ==
  ASSUME PersistenceOK, WorkerPut \/ WorkerDelete
  PROVE  PersistenceOK'
<1>1. worker.pc \in {"put", "delete"} /\ rows \in [Jobs -> Snapshot \cup {Absent}]
  BY Zenon DEF WorkerPut, WorkerDelete, PersistenceOK, PersistenceTypeOK
<1>2. rows' \in [Jobs -> Snapshot \cup {Absent}]
  <2>1. CASE worker.pc = "put"
    <3>1. worker.cmd.job \in Jobs /\ worker.cmd.snap \in Snapshot
      BY <2>1, BackendEffect, CommandFields, Zenon
    <3> QED
      BY <1>1, <2>1, <3>1, BackendEffect, Zenon
  <2>2. CASE worker.pc = "delete"
    BY <1>1, <2>2, BackendEffect, PruneEffect, Zenon
  <2> QED
    BY <1>1, <2>1, <2>2, Zenon
<1>3. WorkerKind'
  BY <1>1, BackendEffect, Zenon DEF WorkerKind
<1>4. worker' \in Worker
  BY BackendEffect, Zenon DEF Busy, Worker
<1> QED
  BY <1>2, <1>3, <1>4, BackendEffect, Zenon DEF PersistenceOK, PersistenceTypeOK, CircuitOK

(* The result is recorded, and whoever waits is answered.                  *)
LEMMA ResultTypes ==
  ASSUME PersistenceOK, WorkerRecordPut \/ WorkerRecordDelete \/ WorkerReply
  PROVE  PersistenceOK'
<1>1. /\ PersistenceTypeOK /\ CircuitOK(circuit) /\ WorkerKind
      /\ UNCHANGED <<rows, open, queue, gate, closing, sync>>
  BY Zenon DEF PersistenceOK, WorkerRecordPut, WorkerRecordDelete, WorkerReply
<1>2. worker.pc \in WorkerPCs
  BY Zenon DEF WorkerRecordPut, WorkerRecordDelete, WorkerReply, WorkerPCs
<1>3. /\ worker \in Busy /\ worker.cmd \in Command
      /\ worker.result \in Fingerprints \cup {NoError}
  BY <1>1, <1>2, WorkerFields, Zenon DEF PersistenceTypeOK, Busy
<1>4. CircuitOK(circuit')
  <2>1. /\ "retention_prune_failed" \in Kinds /\ ClosedError \in Fingerprints
        /\ worker.result # NoError => worker.result \in Fingerprints
    BY <1>3, Zenon DEF Kinds, Fingerprints
  <2>2. CASE WorkerRecordPut
    <3>1. \/ circuit' = circuit
          \/ circuit' = RecordSuccess(circuit)
          \/ /\ CanWrite(circuit) /\ worker.result # NoError
             /\ circuit' = RecordFailure(circuit, worker.result)
      BY <2>2, Zenon DEF WorkerRecordPut
    <3> QED
      BY <1>1, <2>1, <3>1, CircuitTypes, Zenon
  <2>3. CASE WorkerRecordDelete
    <3>1. \/ circuit' = RecordRetentionSuccess(circuit)
          \/ circuit' = Disable(circuit, "retention_prune_failed")
      BY <2>3, Zenon DEF WorkerRecordDelete
    <3> QED
      BY <1>1, <2>1, <3>1, CircuitTypes, Zenon
  <2>4. CASE WorkerReply
    BY <1>1, <2>4, Zenon DEF WorkerReply
  <2> QED
    BY <2>2, <2>3, <2>4, Zenon
<1>5. worker' \in Worker /\ WorkerKind'
  <2>1. CASE WorkerRecordDelete
    <3>1. /\ worker' = [worker EXCEPT !.pc = "reply"] /\ worker.pc = "deletedone"
          /\ "reply" \in WorkerPCs
      BY <2>1, Zenon DEF WorkerRecordDelete, WorkerPCs
    <3>2. worker' \in Busy /\ worker'.cmd = worker.cmd /\ worker'.pc = "reply"
      BY <3>1, <1>3, Zenon DEF Busy
    <3> QED
      BY <3>1, <3>2, <1>1, Zenon DEF Worker, Busy, WorkerKind
  <2>2. CASE WorkerRecordPut \/ WorkerReply
    <3>1. worker' = Idle
      BY <2>2, Zenon DEF WorkerRecordPut, WorkerReply
    <3> QED
      BY <3>1, Zenon DEF Worker, Idle, WorkerKind
  <2> QED
    BY <2>1, <2>2, Zenon
<1>6. reply' \in [Threads -> Answers]
  <2>1. "ok" \in Answers /\ "failed" \in Answers
    BY Zenon DEF Answers
  <2>2. reply \in [Threads -> Answers]
    BY <1>1, Zenon DEF PersistenceTypeOK, Answers
  <2>3. \/ Answer(worker.cmd, "ok") \/ Answer(worker.cmd, "failed") \/ reply' = reply
    BY Zenon DEF WorkerRecordPut, WorkerRecordDelete, WorkerReply
  <2> QED
    BY <1>1, <1>3, <2>1, <2>2, <2>3, AnswerType, Zenon
<1> QED
  BY <1>1, <1>4, <1>5, <1>6, Zenon DEF PersistenceOK, PersistenceTypeOK, CircuitOK, Answers

(* Every step of the worker keeps the persistence state well typed.        *)
LEMMA WorkerTypes ==
  ASSUME PersistenceOK, WorkerStep
  PROVE  PersistenceOK'
BY ReceiveTypes, BackendTypes, ResultTypes, Zenon DEF WorkerStep

-----------------------------------------------------------------------------
(* The manager keeps its types.                                            *)
ManagerOK ==
  /\ phase \in {"up", "down", "starting", "recovering"}
  /\ jobs \in [Jobs -> Snapshot \cup {Absent}]
  /\ used \subseteq Jobs
  /\ known \subseteq used
  /\ scope \in [Jobs -> SUBSET Jobs]
  /\ requested \subseteq Jobs
  /\ seen \in [Jobs -> Snapshot \cup {Absent}]
  /\ todo \subseteq Jobs
  /\ crashes \in 0..MaxCrashes

ThreadsOK == thr \in [Threads -> Thread]

(* Between two steps of another thread, a thread's record is its own.      *)
LEMMA ThreadMove ==
  ASSUME ThreadsOK, NEW t \in Threads, NEW x \in Thread, thr' = [thr EXCEPT ![t] = x]
  PROVE  /\ ThreadsOK' /\ thr'[t] = x
         /\ \A u \in Threads \ {t} : thr'[u] = thr[u]
BY Zenon DEF ThreadsOK

(* A thread that returns is idle; nobody else moves.                       *)
LEMMA ReturnMove ==
  ASSUME ThreadsOK, NEW t \in Threads, Return(t)
  PROVE  /\ ThreadsOK' /\ thr'[t] = ThreadIdle
         /\ \A u \in Threads \ {t} : thr'[u] = thr[u]
BY ThreadMove, ThreadKinds, Zenon DEF Return

(* A thread that goes on keeps its arguments; nobody else moves.           *)
LEMMA GotoMove ==
  ASSUME ThreadsOK, NEW t \in Threads, NEW pc, Goto(t, pc),
         \/ thr[t].pc \in JobPCs /\ pc \in JobPCs
         \/ thr[t].pc \in PrunePCs /\ pc \in PrunePCs
         \/ thr[t].pc \in {"idle"} \cup DrainPCs /\ pc \in DrainPCs
  PROVE  /\ ThreadsOK' /\ thr'[t].pc = pc
         /\ thr[t].pc \in JobPCs => /\ thr'[t].op = thr[t].op /\ thr'[t].job = thr[t].job
                                    /\ thr'[t].snap = thr[t].snap
         /\ \A u \in Threads \ {t} : thr'[u] = thr[u]
<1> DEFINE x == thr[t]
           y == [x EXCEPT !.pc = pc]
<1>1. x \in Thread /\ thr' = [thr EXCEPT ![t] = y]
  BY Zenon DEF ThreadsOK, Goto
<1> HIDE DEF x
<1>2. y \in Thread /\ y.pc = pc
      /\ (x.pc \in JobPCs => y.op = x.op /\ y.job = x.job /\ y.snap = x.snap)
  <2>1. CASE x.pc \in JobPCs /\ pc \in JobPCs
    BY <2>1, <1>1, ThreadFields, ThreadKinds, JobJump, ZenonT(60)
  <2>2. CASE x.pc \in PrunePCs /\ pc \in PrunePCs
    <3>1. x \in PruneThread /\ x.pc \notin JobPCs
      BY <2>2, <1>1, ThreadFields, Zenon DEF PrunePCs, JobPCs
    <3> QED
      BY <2>2, <3>1, ThreadKinds, PruneJump, Zenon
  <2>3. CASE x.pc \in {"idle"} \cup DrainPCs /\ pc \in DrainPCs
    <3>1. x \in [pc : {"idle"} \cup DrainPCs] /\ x.pc \notin JobPCs
      BY <2>3, <1>1, ThreadFields, Zenon DEF DrainPCs, JobPCs
    <3> QED
      BY <2>3, <3>1, ThreadKinds, DrainJump, Zenon
  <2> QED
    BY <2>1, <2>2, <2>3, Zenon DEF x
<1> HIDE DEF y
<1> QED
  BY <1>1, <1>2, ThreadMove, Zenon DEF x

TypeInv == PersistenceOK /\ ManagerOK /\ ThreadsOK

(* A snapshot is taken, and the tail of the operation begins.              *)
LEMMA BeginEffect ==
  ASSUME ThreadsOK, NEW t \in Threads, NEW j \in Jobs, NEW op \in JobOps, NEW s \in Snapshot,
         thr' = [thr EXCEPT ![t] = [pc |-> "put", op |-> op, job |-> j, snap |-> s]]
  PROVE  /\ ThreadsOK' /\ thr'[t].pc = "put" /\ thr'[t].op = op
         /\ thr'[t].job = j /\ thr'[t].snap = s
         /\ \A u \in Threads \ {t} : thr'[u] = thr[u]
<1> DEFINE x == [pc |-> "put", op |-> op, job |-> j, snap |-> s]
<1>1. x \in Thread /\ x.pc = "put" /\ x.op = op /\ x.job = j /\ x.snap = s
  BY Zenon DEF Thread, JobPCs
<1> HIDE DEF x
<1>2. thr' = [thr EXCEPT ![t] = x]
  BY Zenon DEF x
<1> QED
  BY <1>1, <1>2, ThreadMove, Zenon

(* Frame: the types of the persistence state.                              *)
LEMMA PersistenceSame ==
  ASSUME PersistenceOK, UNCHANGED pvars
  PROVE  PersistenceOK'
BY Zenon DEF PersistenceOK, PersistenceTypeOK, pvars, CircuitOK, WorkerKind

(* Frame: the types of the manager's state.                                *)
LEMMA ManagerSame ==
  ASSUME ManagerOK, UNCHANGED <<phase, jobs, used, known, scope, requested, seen, todo, crashes>>
  PROVE  ManagerOK'
BY Zenon DEF ManagerOK

(* What start, complete, fail, ... do once their guards hold.              *)
LEMMA TransitionEffect ==
  ASSUME TypeInv, NEW t \in Threads, NEW j \in Jobs, NEW op \in JobOps, NEW s \in Snapshot,
         Transition(t, j, op, s)
  PROVE  /\ TypeInv'
         /\ UNCHANGED <<pvars, phase, used, known, scope, requested, seen, todo, crashes>>
         /\ jobs[j] # Absent /\ jobs'[j] = s
         /\ \A k \in Jobs \ {j} : jobs'[k] = jobs[k]
         /\ thr[t].pc = "idle" /\ thr'[t].pc = "put" /\ thr'[t].op = op
         /\ thr'[t].job = j /\ thr'[t].snap = s
         /\ \A u \in Threads \ {t} : thr'[u] = thr[u]
<1>1. /\ UNCHANGED <<pvars, phase, used, known, scope, requested, seen, todo, crashes>>
      /\ jobs[j] # Absent /\ jobs' = [jobs EXCEPT ![j] = s] /\ thr[t].pc = "idle"
      /\ thr' = [thr EXCEPT ![t] = [pc |-> "put", op |-> op, job |-> j, snap |-> s]]
  BY Zenon DEF Transition, Ready, Tracked
<1>2. PersistenceOK'
  BY <1>1, PersistenceSame, Zenon DEF TypeInv
<1>3. /\ jobs' \in [Jobs -> Snapshot \cup {Absent}] /\ jobs'[j] = s
      /\ \A k \in Jobs \ {j} : jobs'[k] = jobs[k]
  BY <1>1, Zenon DEF TypeInv, ManagerOK
<1>4. ManagerOK'
  BY <1>1, <1>3, Zenon DEF TypeInv, ManagerOK
<1>5. /\ ThreadsOK' /\ thr'[t].pc = "put" /\ thr'[t].op = op
      /\ thr'[t].job = j /\ thr'[t].snap = s
      /\ \A u \in Threads \ {t} : thr'[u] = thr[u]
  BY <1>1, BeginEffect, Zenon DEF TypeInv
<1> QED
  BY <1>1, <1>2, <1>3, <1>4, <1>5, Zenon DEF TypeInv

(* Every change of a job is a step forward.                                *)
Changes(t, j) ==
  \/ \E p \in 1..MaxProgress : UpdateProgress(t, j, p)
  \/ SetOutput(t, j)
  \/ Start(t, j)
  \/ Complete(t, j)
  \/ Fail(t, j)
  \/ AcknowledgeCancel(t, j)

(* Every operation on a tracked job is one Transition, forward in the job  *)
(* life cycle; set_output leaves the state as it is.                       *)
LEMMA ChangeEffect ==
  ASSUME TypeInv, NEW t \in Threads, NEW j \in Jobs, Changes(t, j)
  PROVE  \E s \in Snapshot, op \in {"output", "update"} :
           /\ Transition(t, j, op, s) /\ Precedes(jobs[j], s)
           /\ op = "output" => s = jobs[j]
<1> DEFINE m == jobs[j]
<1>1. m \in Snapshot
  BY Zenon DEF Changes, UpdateProgress, SetOutput, Start, Complete, Fail, AcknowledgeCancel,
         Transition, Tracked, TypeInv, ManagerOK
<1> HIDE DEF m
<1>2. CASE \E p \in 1..MaxProgress : UpdateProgress(t, j, p)
  <2>1. PICK p \in 1..MaxProgress : UpdateProgress(t, j, p)
    BY <1>2, Zenon
  <2>2. /\ m.status = "running" /\ p >= m.progress
        /\ Transition(t, j, "update", [m EXCEPT !.progress = p])
    BY <2>1, Zenon DEF UpdateProgress, m
  <2>3. p \in 0..MaxProgress
    BY MaxProgressAssumption, SMTT(60)
  <2>4. [m EXCEPT !.progress = p] \in Snapshot /\ Precedes(m, [m EXCEPT !.progress = p])
    BY <1>1, <2>2, <2>3, MaxProgressAssumption, Zenon DEF Snapshot, Precedes
  <2> QED
    BY <2>2, <2>4, Zenon DEF m
<1>3. CASE SetOutput(t, j)
  BY <1>1, <1>3, Zenon DEF SetOutput, Precedes, m
<1>4. ASSUME NEW new \in {"running", "completed", "failed", "cancelled"},
             Transition(t, j, "update", [m EXCEPT !.status = new]),
             m.status = "pending" \/ (m.status = "running" /\ new # "running")
      PROVE  \E s \in Snapshot, op \in {"output", "update"} :
               /\ Transition(t, j, op, s) /\ Precedes(jobs[j], s)
               /\ op = "output" => s = jobs[j]
  <2>1. [m EXCEPT !.status = new] \in Snapshot /\ [m EXCEPT !.status = new].status = new
    BY <1>1, Zenon DEF Snapshot, InFlight, TerminalStatuses
  <2>2. Precedes(m, [m EXCEPT !.status = new])
    BY <1>1, <1>4, <2>1, Zenon DEF Precedes, IsTerminal, TerminalStatuses
  <2> QED
    BY <1>4, <2>1, <2>2, Zenon DEF m
<1>5. CASE Start(t, j) \/ Complete(t, j) \/ Fail(t, j) \/ AcknowledgeCancel(t, j)
  BY <1>4, <1>5, Zenon DEF Start, Complete, Fail, AcknowledgeCancel, InFlight, m
<1> QED
  BY <1>2, <1>3, <1>5, Zenon DEF Changes

(* What create_with_parent does.                                           *)
LEMMA CreateEffect ==
  ASSUME TypeInv, NEW t \in Threads, NEW j \in Jobs, NEW parent \in Jobs,
         Create(t, j, parent)
  PROVE  /\ TypeInv' /\ UNCHANGED <<pvars, phase, known, requested, seen, todo, crashes>>
         /\ j \notin used /\ used' = used \cup {j}
         /\ jobs'[j] = NewJob /\ \A k \in Jobs \ {j} : jobs'[k] = jobs[k]
         /\ thr[t].pc = "idle" /\ thr'[t].pc = "put" /\ thr'[t].op = "create"
         /\ thr'[t].job = j /\ thr'[t].snap = NewJob
         /\ \A u \in Threads \ {t} : thr'[u] = thr[u]
<1>1. /\ UNCHANGED <<pvars, phase, known, requested, seen, todo, crashes>>
      /\ j \notin used /\ used' = used \cup {j} /\ thr[t].pc = "idle"
      /\ jobs' = [jobs EXCEPT ![j] = NewJob]
      /\ scope' = [scope EXCEPT ![j] = IF Tracked(parent) THEN {j} \cup scope[parent] ELSE {j}]
      /\ thr' = [thr EXCEPT ![t] = [pc |-> "put", op |-> "create", job |-> j, snap |-> NewJob]]
  BY Zenon DEF Create, Ready
<1>2. PersistenceOK'
  BY <1>1, PersistenceSame, Zenon DEF TypeInv
<1>3. /\ jobs' \in [Jobs -> Snapshot \cup {Absent}] /\ jobs'[j] = NewJob
      /\ \A k \in Jobs \ {j} : jobs'[k] = jobs[k]
  BY <1>1, SnapshotTypes, Zenon DEF TypeInv, ManagerOK
<1>4. scope' \in [Jobs -> SUBSET Jobs]
  <2>1. scope \in [Jobs -> SUBSET Jobs] /\ scope[parent] \subseteq Jobs
    BY Zenon DEF TypeInv, ManagerOK
  <2>2. (IF Tracked(parent) THEN {j} \cup scope[parent] ELSE {j}) \in SUBSET Jobs
    BY <2>1, Zenon
  <2> QED
    BY <1>1, <2>1, <2>2, Zenon
<1>5. ManagerOK'
  BY <1>1, <1>3, <1>4, Zenon DEF TypeInv, ManagerOK
<1>6. /\ ThreadsOK' /\ thr'[t].pc = "put" /\ thr'[t].op = "create"
      /\ thr'[t].job = j /\ thr'[t].snap = NewJob
      /\ \A u \in Threads \ {t} : thr'[u] = thr[u]
  <2>1. "create" \in JobOps
    BY Zenon DEF JobOps
  <2> QED
    BY <1>1, <2>1, BeginEffect, SnapshotTypes, Zenon DEF TypeInv
<1> QED
  BY <1>1, <1>2, <1>3, <1>5, <1>6, Zenon DEF TypeInv

(* A thread that goes on with the job it was on, or is on no job.          *)
Keeps(t) ==
  thr'[t].pc \in JobPCs =>
    /\ thr[t].pc \in JobPCs /\ thr'[t].job = thr[t].job
    /\ thr'[t].snap = thr[t].snap /\ thr'[t].op = thr[t].op

Others(t) == \A u \in Threads \ {t} : thr'[u] = thr[u]

managerVars == <<phase, jobs, used, known, scope, requested, seen, todo, crashes>>

(* After the write a thread is idle or about to emit.                      *)
LEMMA PersistedMove ==
  ASSUME ThreadsOK, NEW t \in Threads, thr[t].pc \in JobPCs, Persisted(t)
  PROVE  ThreadsOK' /\ Keeps(t) /\ Others(t) /\ thr'[t].pc \in {"idle", "emit"}
<1>1. CASE Return(t)
  BY <1>1, ReturnMove, ThreadKinds, Zenon DEF Keeps, Others, JobPCs
<1>2. CASE Goto(t, "emit")
  <2>1. "emit" \in JobPCs
    BY Zenon DEF JobPCs
  <2> QED
    BY <1>2, <2>1, GotoMove, Zenon DEF Keeps, Others
<1> QED
  BY <1>1, <1>2, Zenon DEF Persisted

(* What the first step of persist_put does to the manager's state.         *)
LEMMA PersistPutEffect ==
  ASSUME TypeInv, NEW t \in Threads, PersistPut(t)
  PROVE  /\ TypeInv' /\ UNCHANGED managerVars
         /\ UNCHANGED <<rows, open, worker, closing, sync>>
         /\ thr[t].pc = "put" /\ thr[t] \in JobThread
         /\ Keeps(t) /\ Others(t) /\ thr'[t].pc \in {"idle", "emit", "wait", "send"}
         /\ thr'[t].pc = "send" => gate' = t /\ ~closing
         /\ gate = NoThread
         /\ \/ queue' = queue
            \/ /\ ~closing
               /\ \E r \in Receivers : Push(PutCmd(thr[t].job, thr[t].snap, r))
<1> DEFINE r == IF sync THEN t ELSE NoThread
           c == PutCmd(thr[t].job, thr[t].snap, r)
           E(outcome) == Enqueue(t, c, CanWrite(circuit), sync, outcome)
<1>1. /\ thr[t].pc = "put" /\ thr[t].pc \in JobPCs /\ UNCHANGED managerVars
      /\ ThreadsOK /\ PersistenceOK /\ r \in Receivers
  BY Zenon DEF PersistPut, JobPCs, managerVars, TypeInv, Receivers
<1>2. thr[t] \in JobThread /\ thr[t].job \in Jobs /\ thr[t].snap \in Snapshot
  BY <1>1, ThreadFields, Zenon DEF ThreadsOK
<1>3. c \in Command
  BY <1>1, <1>2, CommandTypes, Zenon
<1>4. \/ E("skip") /\ Persisted(t)
      \/ E("full") /\ Persisted(t)
      \/ E("sent") /\ (Goto(t, "wait") \/ Persisted(t))
      \/ E("blocked") /\ Goto(t, "send")
  BY Zenon DEF PersistPut, Put
<1> HIDE DEF r
<1>5. PersistenceOK' /\ gate = NoThread /\ UNCHANGED <<rows, open, worker, closing, sync>>
  BY <1>1, <1>3, <1>4, EnqueueTypes, Zenon DEF Enqueue
<1>6. ThreadsOK' /\ Keeps(t) /\ Others(t) /\ thr'[t].pc \in {"idle", "emit", "wait", "send"}
  <2>1. "wait" \in JobPCs /\ "send" \in JobPCs
    BY Zenon DEF JobPCs
  <2>2. CASE Goto(t, "wait") \/ Goto(t, "send")
    BY <1>1, <2>1, <2>2, GotoMove, Zenon DEF Keeps, Others
  <2> QED
    BY <1>1, <1>4, <2>2, PersistedMove, Zenon
<1>7. \/ queue' = queue
      \/ ~closing /\ Push(c)
  BY <1>4, Zenon DEF Enqueue
<1>8. thr'[t].pc = "send" => gate' = t /\ ~closing
  <2>1. CASE E("blocked")
    BY <2>1, Zenon DEF Enqueue
  <2>2. CASE Persisted(t)
    BY <1>1, <2>2, PersistedMove, Zenon
  <2>3. CASE Goto(t, "wait")
    <3>1. "wait" \in JobPCs
      BY Zenon DEF JobPCs
    <3> QED
      BY <1>1, <2>3, <3>1, GotoMove, ZenonT(60)
  <2> QED
    BY <1>4, <2>1, <2>2, <2>3, Zenon
<1>9. ManagerOK'
  BY <1>1, ManagerSame, Zenon DEF managerVars, TypeInv
<1> HIDE DEF E
<1> QED
  BY <1>1, <1>2, <1>5, <1>6, <1>7, <1>8, <1>9, Zenon DEF TypeInv

(* What the blocking send of a put does.                                   *)
LEMMA PutSendEffect ==
  ASSUME TypeInv, NEW t \in Threads, PutSend(t)
  PROVE  /\ TypeInv' /\ UNCHANGED managerVars
         /\ UNCHANGED <<rows, open, circuit, worker, closing, sync>> /\ gate = t /\ gate' = NoThread
         /\ thr[t].pc = "send" /\ thr[t] \in JobThread
         /\ Keeps(t) /\ Others(t) /\ thr'[t].pc = "wait"
         /\ \E r \in Receivers : Push(PutCmd(thr[t].job, thr[t].snap, r))
<1> DEFINE c == PutCmd(thr[t].job, thr[t].snap, t)
<1>1. /\ thr[t].pc = "send" /\ thr[t].pc \in JobPCs /\ "wait" \in JobPCs /\ UNCHANGED managerVars
      /\ ThreadsOK /\ PersistenceOK /\ t \in Receivers /\ SendBlocked(t, c) /\ Goto(t, "wait")
  BY Zenon DEF PutSend, JobPCs, managerVars, TypeInv, Receivers
<1>2. thr[t] \in JobThread /\ thr[t].job \in Jobs /\ thr[t].snap \in Snapshot
  BY <1>1, ThreadFields, Zenon DEF ThreadsOK
<1>3. c \in Command
  BY <1>1, <1>2, CommandTypes, Zenon
<1>4. /\ PersistenceOK' /\ gate = t /\ gate' = NoThread /\ Push(c)
      /\ UNCHANGED <<rows, open, circuit, worker, closing, sync>>
  BY <1>1, <1>3, SendBlockedTypes, Zenon DEF SendBlocked
<1>5. ThreadsOK' /\ Keeps(t) /\ Others(t) /\ thr'[t].pc = "wait"
  BY <1>1, GotoMove, Zenon DEF Keeps, Others
<1>6. ManagerOK'
  BY <1>1, ManagerSame, Zenon DEF managerVars, TypeInv
<1> QED
  BY <1>1, <1>2, <1>4, <1>5, <1>6, Zenon DEF TypeInv

(* Taking an answer keeps the persistence state well typed.                *)
LEMMA TakeTypes ==
  ASSUME PersistenceOK, NEW t \in Threads, TakeReply(t),
         UNCHANGED <<rows, open, circuit, queue, worker, gate, closing, sync>>
  PROVE  PersistenceOK'
<1>1. reply' \in [Threads -> Answers]
  BY Zenon DEF TakeReply, PersistenceOK, PersistenceTypeOK, Answers
<1> QED
  BY <1>1, Zenon DEF PersistenceOK, PersistenceTypeOK, CircuitOK, WorkerKind, Answers

(* What receiving the answer of a put does.                                *)
LEMMA PutReturnedEffect ==
  ASSUME TypeInv, NEW t \in Threads, PutReturned(t)
  PROVE  /\ TypeInv' /\ UNCHANGED managerVars
         /\ UNCHANGED <<rows, open, circuit, queue, worker, gate, closing, sync>>
         /\ thr[t].pc = "wait" /\ thr[t] \in JobThread
         /\ Keeps(t) /\ Others(t) /\ thr'[t].pc \in {"idle", "emit"}
<1>1. /\ thr[t].pc = "wait" /\ thr[t].pc \in JobPCs /\ UNCHANGED managerVars
      /\ UNCHANGED <<rows, open, circuit, queue, worker, gate, closing, sync>>
      /\ ThreadsOK /\ PersistenceOK /\ TakeReply(t) /\ Persisted(t)
  BY Zenon DEF PutReturned, JobPCs, managerVars, TypeInv
<1>2. thr[t] \in JobThread
  BY <1>1, ThreadFields, Zenon DEF ThreadsOK
<1>3. PersistenceOK'
  BY <1>1, TakeTypes, Zenon
<1>4. ManagerOK'
  BY <1>1, ManagerSame, Zenon DEF managerVars, TypeInv
<1> QED
  BY <1>1, <1>2, <1>3, <1>4, PersistedMove, Zenon DEF TypeInv

(* What emitting an event does.                                            *)
LEMMA EmitEffect ==
  ASSUME TypeInv, \A u \in Threads, j \in Jobs : WorkingOn(u, j) => j \in used,
         NEW t \in Threads, Emit(t)
  PROVE  /\ TypeInv' /\ UNCHANGED <<pvars, phase, jobs, used, scope, requested, todo, crashes>>
         /\ thr[t].pc = "emit" /\ thr[t] \in JobThread
         /\ thr'[t].pc = "idle" /\ Keeps(t) /\ Others(t)
         /\ known' = IF thr[t].op = "create" THEN known \cup {thr[t].job} ELSE known
         /\ seen'[thr[t].job] = thr[t].snap
         /\ \A j \in Jobs \ {thr[t].job} : seen'[j] = seen[j]
<1>1. /\ thr[t].pc = "emit" /\ thr[t].pc \in JobPCs /\ ThreadsOK /\ PersistenceOK /\ Return(t)
      /\ UNCHANGED <<pvars, phase, jobs, used, scope, requested, todo, crashes>>
      /\ known' = IF thr[t].op = "create" THEN known \cup {thr[t].job} ELSE known
      /\ seen' = [seen EXCEPT ![thr[t].job] = thr[t].snap]
  BY Zenon DEF Emit, JobPCs, TypeInv
<1>2. thr[t] \in JobThread /\ thr[t].job \in Jobs /\ thr[t].snap \in Snapshot
  BY <1>1, ThreadFields, Zenon DEF ThreadsOK
<1>3. /\ seen' \in [Jobs -> Snapshot \cup {Absent}] /\ seen'[thr[t].job] = thr[t].snap
      /\ \A j \in Jobs \ {thr[t].job} : seen'[j] = seen[j]
  BY <1>1, <1>2, Zenon DEF TypeInv, ManagerOK
<1>4. known' \subseteq used
  <2>1. thr[t].job \in used
    BY <1>1, <1>2, Zenon DEF WorkingOn
  <2> QED
    BY <1>1, <2>1, Zenon DEF TypeInv, ManagerOK
<1>5. ManagerOK'
  BY <1>1, <1>3, <1>4, Zenon DEF TypeInv, ManagerOK
<1>6. PersistenceOK'
  BY <1>1, PersistenceSame, Zenon
<1>7. ThreadsOK' /\ thr'[t].pc = "idle" /\ Keeps(t) /\ Others(t)
  BY <1>1, ReturnMove, ThreadKinds, Zenon DEF Keeps, Others, JobPCs
<1> QED
  BY <1>1, <1>2, <1>3, <1>5, <1>6, <1>7, Zenon DEF TypeInv

(* cancel marks the token and nothing else.                                *)
LEMMA CancelEffect ==
  ASSUME TypeInv, NEW t \in Threads, NEW j \in Jobs, Cancel(t, j)
  PROVE  TypeInv' /\ UNCHANGED <<pvars, phase, jobs, used, known, scope, thr, seen, todo, crashes>>
<1>1. /\ UNCHANGED <<pvars, phase, jobs, used, known, scope, thr, seen, todo, crashes>>
      /\ requested' = requested \cup {j}
  BY Zenon DEF Cancel
<1>2. PersistenceOK'
  BY <1>1, PersistenceSame, Zenon DEF TypeInv
<1> QED
  BY <1>1, <1>2, Zenon DEF TypeInv, ManagerOK, ThreadsOK

(* What the scan of gc_stale does.                                         *)
LEMMA GcEffect ==
  ASSUME TypeInv, NEW t \in Threads, NEW old \in SUBSET Jobs, NEW confirm \in BOOLEAN,
         GcStale(t, old, confirm)
  PROVE  /\ TypeInv' /\ UNCHANGED <<pvars, managerVars>>
         /\ thr[t].pc = "idle" /\ thr'[t].pc = "prune" /\ Keeps(t) /\ Others(t)
         /\ old \subseteq used /\ phase = "up"
         /\ thr'[t] = [pc |-> "prune", old |-> old, confirm |-> confirm]
<1> DEFINE x == [pc |-> "prune", old |-> old, confirm |-> confirm]
<1>1. /\ UNCHANGED <<pvars, managerVars>> /\ thr[t].pc = "idle" /\ thr' = [thr EXCEPT ![t] = x]
      /\ old \subseteq used /\ phase = "up"
  BY Zenon DEF GcStale, Ready, managerVars
<1>2. x \in Thread /\ x.pc = "prune"
  BY Zenon DEF Thread, PrunePCs
<1> HIDE DEF x
<1>3. ThreadsOK' /\ thr'[t] = x /\ Others(t)
  BY <1>1, <1>2, ThreadMove, Zenon DEF TypeInv, Others
<1>4. Keeps(t)
  BY <1>2, <1>3, Zenon DEF Keeps, JobPCs
<1>5. PersistenceOK' /\ ManagerOK'
  BY <1>1, PersistenceSame, ManagerSame, Zenon DEF TypeInv, managerVars
<1> QED
  BY <1>1, <1>2, <1>3, <1>4, <1>5, Zenon DEF TypeInv, x

(* What handing a purge to the writer does.                                *)
LEMMA PruneRequestEffect ==
  ASSUME TypeInv, NEW t \in Threads, PruneRequest(t)
  PROVE  /\ TypeInv' /\ UNCHANGED managerVars
         /\ UNCHANGED <<rows, open, worker, closing, sync>>
         /\ thr[t].pc = "prune" /\ gate = NoThread
         /\ Keeps(t) /\ Others(t) /\ thr'[t].pc \in {"idle", "pruneWait", "pruneSend"}
         /\ thr'[t].pc = "pruneSend" => gate' = t /\ ~closing
         /\ \/ queue' = queue
            \/ /\ ~closing
               /\ \E c \in Command : c.type = "delete" /\ Push(c)
<1> DEFINE c == DeleteCmd(thr[t].old, IF sync \/ thr[t].confirm THEN t ELSE NoThread)
           E(outcome) == Enqueue(t, c, CanWrite(circuit) \/ CanRetryRetention(circuit),
                                 sync /\ ~thr[t].confirm, outcome)
<1>1. /\ thr[t].pc = "prune" /\ thr[t].pc \in PrunePCs /\ UNCHANGED managerVars
      /\ ThreadsOK /\ PersistenceOK /\ "pruneWait" \in PrunePCs /\ "pruneSend" \in PrunePCs
      /\ (IF sync \/ thr[t].confirm THEN t ELSE NoThread) \in Receivers
  BY Zenon DEF PruneRequest, PrunePCs, managerVars, TypeInv, Receivers
<1>2. thr[t] \in PruneThread /\ thr[t].old \in SUBSET Jobs
  BY <1>1, ThreadFields, Zenon DEF ThreadsOK
<1>3. c \in Command /\ c.type = "delete"
  BY <1>1, <1>2, CommandTypes, SMTT(60)
<1>4. \/ E("skip") /\ Return(t)
      \/ E("full") /\ Return(t)
      \/ E("sent") /\ (Goto(t, "pruneWait") \/ Return(t))
      \/ E("blocked") /\ Goto(t, "pruneSend")
  BY Zenon DEF PruneRequest, Prune1, DeleteOlderThan
<1> HIDE DEF c
<1>5. PersistenceOK' /\ gate = NoThread /\ UNCHANGED <<rows, open, worker, closing, sync>>
  BY <1>1, <1>3, <1>4, EnqueueTypes, Zenon DEF Enqueue
<1>6. /\ ThreadsOK' /\ Keeps(t) /\ Others(t)
      /\ thr'[t].pc \in {"idle", "pruneWait", "pruneSend"}
      /\ thr'[t].pc = "pruneSend" => gate' = t /\ ~closing
  <2>1. CASE Return(t)
    BY <1>1, <2>1, ReturnMove, ThreadKinds, Zenon DEF Keeps, Others, JobPCs
  <2>2. CASE Goto(t, "pruneWait")
    BY <1>1, <2>2, GotoMove, SMTT(60) DEF Keeps, Others, JobPCs
  <2>3. CASE E("blocked") /\ Goto(t, "pruneSend")
    <3>1. gate' = t /\ ~closing
      BY <2>3, Zenon DEF Enqueue
    <3> QED
      BY <1>1, <2>3, <3>1, GotoMove, SMTT(60) DEF Keeps, Others, JobPCs
  <2> QED
    BY <1>4, <2>1, <2>2, <2>3, Zenon
<1>7. \/ queue' = queue
      \/ ~closing /\ Push(c)
  BY <1>4, Zenon DEF Enqueue
<1>8. ManagerOK'
  BY <1>1, ManagerSame, Zenon DEF managerVars, TypeInv
<1> HIDE DEF E
<1> QED
  BY <1>1, <1>3, <1>5, <1>6, <1>7, <1>8, Zenon DEF TypeInv

(* What the blocking send of a purge does.                                 *)
LEMMA PruneSendEffect ==
  ASSUME TypeInv, NEW t \in Threads, PruneSend(t)
  PROVE  /\ TypeInv' /\ UNCHANGED managerVars
         /\ UNCHANGED <<rows, open, circuit, worker, closing, sync>> /\ gate = t /\ gate' = NoThread
         /\ thr[t].pc = "pruneSend" /\ Keeps(t) /\ Others(t) /\ thr'[t].pc = "pruneWait"
         /\ \E c \in Command : c.type = "delete" /\ Push(c)
<1> DEFINE c == DeleteCmd(thr[t].old, t)
<1>1. /\ thr[t].pc = "pruneSend" /\ thr[t].pc \in PrunePCs /\ "pruneWait" \in PrunePCs
      /\ UNCHANGED managerVars /\ ThreadsOK /\ PersistenceOK /\ t \in Receivers
      /\ SendBlocked(t, c) /\ Goto(t, "pruneWait")
  BY Zenon DEF PruneSend, PrunePCs, managerVars, TypeInv, Receivers
<1>2. thr[t] \in PruneThread /\ thr[t].old \in SUBSET Jobs
  BY <1>1, ThreadFields, Zenon DEF ThreadsOK
<1>3. c \in Command /\ c.type = "delete"
  BY <1>1, <1>2, CommandTypes, ZenonT(60)
<1> HIDE DEF c
<1>4. /\ PersistenceOK' /\ gate = t /\ gate' = NoThread /\ Push(c)
      /\ UNCHANGED <<rows, open, circuit, worker, closing, sync>>
  BY <1>1, <1>3, SendBlockedTypes, Zenon DEF SendBlocked
<1>5. ThreadsOK' /\ Keeps(t) /\ Others(t) /\ thr'[t].pc = "pruneWait"
  BY <1>1, GotoMove, SMTT(60) DEF Keeps, Others, JobPCs
<1>6. ManagerOK'
  BY <1>1, ManagerSame, Zenon DEF managerVars, TypeInv
<1> QED
  BY <1>1, <1>3, <1>4, <1>5, <1>6, Zenon DEF TypeInv

(* What receiving the answer of a purge does.                              *)
LEMMA PruneReturnedEffect ==
  ASSUME TypeInv, NEW t \in Threads, PruneReturned(t)
  PROVE  /\ TypeInv' /\ UNCHANGED managerVars
         /\ UNCHANGED <<rows, open, circuit, queue, worker, gate, closing, sync>>
         /\ thr[t].pc = "pruneWait"
         /\ Keeps(t) /\ Others(t) /\ thr'[t].pc \in {"idle", "remove"}
<1>1. /\ thr[t].pc = "pruneWait" /\ thr[t].pc \in PrunePCs /\ "remove" \in PrunePCs
      /\ UNCHANGED managerVars
      /\ UNCHANGED <<rows, open, circuit, queue, worker, gate, closing, sync>>
      /\ ThreadsOK /\ PersistenceOK /\ TakeReply(t) /\ (Goto(t, "remove") \/ Return(t))
  BY Zenon DEF PruneReturned, PrunePCs, managerVars, TypeInv
<1>2. ThreadsOK' /\ Keeps(t) /\ Others(t) /\ thr'[t].pc \in {"idle", "remove"}
  <2>1. CASE Return(t)
    BY <1>1, <2>1, ReturnMove, ThreadKinds, Zenon DEF Keeps, Others, JobPCs
  <2>2. CASE Goto(t, "remove")
    BY <1>1, <2>2, GotoMove, SMTT(60) DEF Keeps, Others, JobPCs
  <2> QED
    BY <1>1, <2>1, <2>2, Zenon
<1>3. PersistenceOK'
  BY <1>1, TakeTypes, Zenon
<1>4. ManagerOK'
  BY <1>1, ManagerSame, Zenon DEF managerVars, TypeInv
<1> QED
  BY <1>1, <1>2, <1>3, <1>4, Zenon DEF TypeInv

(* What giving up on a confirmed purge does.                               *)
LEMMA PruneTimeoutEffect ==
  ASSUME TypeInv, NEW t \in Threads, PruneTimeout(t)
  PROVE  /\ TypeInv' /\ UNCHANGED managerVars
         /\ UNCHANGED <<rows, open, gate, closing, sync>> /\ DropReceiver(t)
         /\ thr[t].pc = "pruneWait" /\ Keeps(t) /\ Others(t) /\ thr'[t].pc = "idle"
         /\ thr[t].confirm
<1>1. /\ UNCHANGED managerVars /\ UNCHANGED <<rows, open, gate, closing, sync>>
      /\ ThreadsOK /\ PersistenceOK /\ DeleteTimeout(t) /\ Return(t) /\ thr[t].pc = "pruneWait"
      /\ thr[t].confirm
  BY Zenon DEF PruneTimeout, DeleteTimeout, managerVars, TypeInv
<1>2. PersistenceOK' /\ DropReceiver(t)
  BY <1>1, TimeoutTypes, Zenon DEF DeleteTimeout
<1>3. ManagerOK'
  BY <1>1, ManagerSame, Zenon DEF managerVars, TypeInv
<1>4. ThreadsOK' /\ Keeps(t) /\ Others(t) /\ thr'[t].pc = "idle"
  BY <1>1, ReturnMove, ThreadKinds, Zenon DEF Keeps, Others, JobPCs
<1> QED
  BY <1>1, <1>2, <1>3, <1>4, Zenon DEF TypeInv

(* What removing one purged id from the map does.                          *)
LEMMA RemoveEffect ==
  ASSUME TypeInv, NEW t \in Threads, Remove(t)
  PROVE  /\ TypeInv' /\ UNCHANGED <<pvars, phase, used, scope, requested, seen, todo, crashes>>
         /\ thr[t].pc = "remove" /\ Keeps(t) /\ Others(t) /\ thr'[t].pc \in {"idle", "remove"}
         /\ \E j \in Jobs : /\ \A u \in Threads : ~WorkingOn(u, j)
                           /\ jobs'[j] = Absent /\ \A k \in Jobs \ {j} : jobs'[k] = jobs[k]
                           /\ known' = known \ {j} /\ j \in thr[t].old
                           /\ thr'[t].pc = "remove" => thr'[t].old = thr[t].old \ {j}
<1>1. /\ thr[t].pc = "remove" /\ thr[t].pc \in PrunePCs /\ ThreadsOK /\ PersistenceOK
      /\ UNCHANGED <<pvars, phase, used, scope, requested, seen, todo, crashes>>
  BY Zenon DEF Remove, PrunePCs, TypeInv
<1>2. thr[t] \in PruneThread /\ thr[t].old \in SUBSET Jobs
  BY <1>1, ThreadFields, Zenon DEF ThreadsOK
<1>3. PICK j \in thr[t].old :
         /\ \A u \in Threads : ~WorkingOn(u, j)
         /\ jobs' = [jobs EXCEPT ![j] = Absent]
         /\ known' = known \ {j}
         /\ IF thr[t].old = {j} THEN Return(t)
            ELSE thr' = [thr EXCEPT ![t].old = @ \ {j}]
  BY Zenon DEF Remove
<1>4. j \in Jobs
  BY <1>2, Zenon
<1>5. /\ jobs' \in [Jobs -> Snapshot \cup {Absent}] /\ jobs'[j] = Absent
      /\ \A k \in Jobs \ {j} : jobs'[k] = jobs[k]
  BY <1>3, <1>4, Zenon DEF TypeInv, ManagerOK
<1>6. ManagerOK'
  BY <1>1, <1>3, <1>5, Zenon DEF TypeInv, ManagerOK
<1>7. PersistenceOK'
  BY <1>1, PersistenceSame, Zenon
<1>8. /\ ThreadsOK' /\ Keeps(t) /\ Others(t) /\ thr'[t].pc \in {"idle", "remove"}
      /\ thr'[t].pc = "remove" => thr'[t].old = thr[t].old \ {j}
  <2>1. CASE Return(t)
    BY <1>1, <2>1, ReturnMove, ThreadKinds, Zenon DEF Keeps, Others, JobPCs
  <2>2. CASE thr' = [thr EXCEPT ![t].old = @ \ {j}]
    <3> DEFINE y == [thr[t] EXCEPT !.old = thr[t].old \ {j}]
    <3>1. thr' = [thr EXCEPT ![t] = y]
      BY <1>1, <2>2, Zenon DEF ThreadsOK
    <3>2. y \in PruneThread /\ y.pc = "remove" /\ y.old = thr[t].old \ {j}
      BY <1>1, <1>2, Zenon DEF PruneThread
    <3> HIDE DEF y
    <3>3. y \in Thread
      BY <3>2, ThreadKinds, Zenon
    <3> QED
      BY <1>1, <3>1, <3>2, <3>3, ThreadMove, Zenon DEF Keeps, Others, JobPCs
  <2> QED
    BY <1>3, <2>1, <2>2, Zenon
<1> QED
  BY <1>1, <1>3, <1>4, <1>5, <1>6, <1>7, <1>8, Zenon DEF TypeInv

(* The steps of a shutdown.                                                *)
Shuts(t) ==
  \/ Shutdown(t) \/ ShutdownMark(t)
  \/ \E timedOut \in BOOLEAN : ShutdownEnd(t, timedOut)
  \/ ShutdownDisable(t) \/ ShutdownClose(t)

(* What the steps of shutdown_persistence do.                              *)
LEMMA ShutdownEffect ==
  ASSUME TypeInv, NEW t \in Threads, Shuts(t)
  PROVE  /\ TypeInv' /\ UNCHANGED managerVars /\ UNCHANGED <<rows, sync>>
         /\ thr[t].pc \in {"idle"} \cup DrainPCs /\ thr'[t].pc \in {"idle"} \cup DrainPCs
         /\ thr[t].pc = "idle" => phase = "up"
         /\ Keeps(t) /\ Others(t)
         /\ \/ /\ UNCHANGED <<queue, worker>> /\ gate = NoThread /\ gate' = t /\ closing' = TRUE
            \/ /\ Push(ShutdownCmd(t)) /\ UNCHANGED <<worker, gate, closing>>
               /\ gate = t /\ thr[t].pc = "drain"
            \/ DropReceiver(t) /\ gate = t /\ gate' = NoThread /\ UNCHANGED closing
            \/ UNCHANGED <<queue, worker, gate, closing>>
<1>0. /\ PersistenceOK /\ ManagerOK /\ ThreadsOK /\ PersistenceTypeOK /\ CircuitOK(circuit)
      /\ WorkerKind
  BY Zenon DEF TypeInv, PersistenceOK
<1>1. CASE Shutdown(t)
  <2>1. /\ UNCHANGED managerVars /\ DrainBegin(t) /\ Goto(t, "drain") /\ thr[t].pc = "idle"
        /\ phase = "up" /\ "drain" \in DrainPCs
    BY <1>1, Zenon DEF Shutdown, managerVars, Ready, DrainPCs
  <2>2. PersistenceOK'
    BY <1>0, <2>1, DrainTypes, Zenon
  <2>3. ThreadsOK' /\ thr'[t].pc = "drain" /\ Keeps(t) /\ Others(t)
    BY <1>0, <2>1, GotoMove, SMTT(60) DEF Keeps, Others, JobPCs
  <2> QED
    BY <1>0, <2>1, <2>2, <2>3, ManagerSame, Zenon DEF TypeInv, managerVars, DrainBegin
<1>2. CASE ShutdownMark(t)
  <2>1. /\ UNCHANGED managerVars /\ DrainMark(t) /\ Goto(t, "drainWait") /\ thr[t].pc = "drain"
        /\ thr[t].pc \in DrainPCs /\ "drainWait" \in DrainPCs
    BY <1>2, Zenon DEF ShutdownMark, managerVars, DrainPCs
  <2>2. PersistenceOK'
    BY <1>0, <2>1, DrainTypes, Zenon
  <2>3. ThreadsOK' /\ thr'[t].pc = "drainWait" /\ Keeps(t) /\ Others(t)
    BY <1>0, <2>1, GotoMove, SMTT(60) DEF Keeps, Others, JobPCs
  <2> QED
    BY <1>0, <2>1, <2>2, <2>3, ManagerSame, Zenon DEF TypeInv, managerVars, DrainMark
<1>3. CASE \E timedOut \in BOOLEAN : ShutdownEnd(t, timedOut)
  <2>1. PICK timedOut \in BOOLEAN : ShutdownEnd(t, timedOut)
    BY <1>3, Zenon
  <2>2. /\ UNCHANGED managerVars /\ DrainEnd(t, thr[t].pc = "drainWait", timedOut)
        /\ Goto(t, "disable") /\ thr[t].pc \in {"drain", "drainWait"}
        /\ thr[t].pc \in DrainPCs /\ "disable" \in DrainPCs
    BY <2>1, Zenon DEF ShutdownEnd, managerVars, DrainPCs
  <2>3. \E marked \in BOOLEAN, late \in BOOLEAN : DrainEnd(t, marked, late)
    <3>1. (thr[t].pc = "drainWait") \in BOOLEAN
      BY Zenon
    <3> QED
      BY <2>2, <3>1, Zenon
  <2>4. PersistenceOK'
    BY <1>0, <2>3, DrainTypes, Zenon
  <2>5. ThreadsOK' /\ thr'[t].pc = "disable" /\ Keeps(t) /\ Others(t)
    BY <1>0, <2>2, GotoMove, SMTT(60) DEF Keeps, Others, JobPCs
  <2>6. /\ DropReceiver(t) /\ gate = t /\ gate' = NoThread
        /\ UNCHANGED <<rows, open, circuit, closing, sync>>
    BY <2>2, Zenon DEF DrainEnd
  <2> QED
    BY <1>0, <2>2, <2>4, <2>5, <2>6, ManagerSame, Zenon DEF TypeInv, managerVars
<1>4. CASE ShutdownDisable(t)
  <2>1. /\ UNCHANGED managerVars /\ Goto(t, "close") /\ thr[t].pc = "disable"
        /\ thr[t].pc \in DrainPCs /\ "close" \in DrainPCs
        /\ circuit' = Disable(circuit, "server_shutdown")
        /\ UNCHANGED <<rows, open, queue, worker, gate, closing, reply, sync>>
    BY <1>4, Zenon DEF ShutdownDisable, managerVars, DrainPCs
  <2>2. CircuitOK(circuit') /\ circuit' \in Circuit
    <3>1. "server_shutdown" \in Kinds /\ ClosedError \in Fingerprints
      BY Zenon DEF Kinds, Fingerprints
    <3> QED
      BY <1>0, <2>1, <3>1, CircuitTypes, Zenon DEF CircuitOK
  <2>3. PersistenceOK'
    BY <1>0, <2>1, <2>2, Zenon DEF PersistenceOK, PersistenceTypeOK, WorkerKind
  <2>4. ThreadsOK' /\ thr'[t].pc = "close" /\ Keeps(t) /\ Others(t)
    BY <1>0, <2>1, GotoMove, SMTT(60) DEF Keeps, Others, JobPCs
  <2> QED
    BY <1>0, <2>1, <2>3, <2>4, ManagerSame, Zenon DEF TypeInv, managerVars, DrainPCs
<1>5. CASE ShutdownClose(t)
  <2>1. /\ UNCHANGED managerVars /\ Return(t) /\ thr[t].pc = "close"
        /\ thr[t].pc \in DrainPCs /\ open' = FALSE
        /\ UNCHANGED <<rows, circuit, queue, worker, gate, closing, reply, sync>>
    BY <1>5, Zenon DEF ShutdownClose, managerVars, DrainPCs
  <2>2. PersistenceOK'
    BY <1>0, <2>1, Zenon DEF PersistenceOK, PersistenceTypeOK, WorkerKind, CircuitOK
  <2>3. ThreadsOK' /\ thr'[t].pc = "idle" /\ Keeps(t) /\ Others(t)
    BY <1>0, <2>1, ReturnMove, ThreadKinds, Zenon DEF Keeps, Others, JobPCs
  <2> QED
    BY <1>0, <2>1, <2>2, <2>3, ManagerSame, Zenon DEF TypeInv, managerVars, DrainPCs
<1> QED
  BY <1>1, <1>2, <1>3, <1>4, <1>5, Zenon DEF Shuts

(* The process dies and comes back.                                        *)
LEMMA CrashEffect ==
  ASSUME TypeInv, Crash
  PROVE  /\ TypeInv' /\ UNCHANGED <<rows, used, known, sync>> /\ phase' = "down"
         /\ queue' = <<>> /\ worker' = Idle /\ gate' = NoThread /\ closing' = FALSE
         /\ circuit' = Configured /\ open' = TRUE /\ todo' = {}
         /\ \A t \in Threads : thr'[t] = ThreadIdle /\ thr'[t].pc = "idle"
         /\ \A j \in Jobs : jobs'[j] = Absent /\ seen'[j] = Absent
<1>1. /\ UNCHANGED <<rows, used, known, sync>> /\ phase' = "down" /\ FreshWriter
      /\ jobs' = [j \in Jobs |-> Absent] /\ scope' = [j \in Jobs |-> {}] /\ requested' = {}
      /\ thr' = [t \in Threads |-> ThreadIdle] /\ seen' = [j \in Jobs |-> Absent]
      /\ todo' = {} /\ crashes < MaxCrashes /\ crashes' = crashes + 1
  BY Zenon DEF Crash, FreshWriter
<1>2. /\ queue' = <<>> /\ worker' = Idle /\ gate' = NoThread /\ closing' = FALSE
      /\ circuit' = Configured /\ open' = TRUE
      /\ reply' = [t \in Threads |-> "none"]
  BY <1>1, Zenon DEF FreshWriter
<1>3. crashes' \in 0..MaxCrashes
  BY <1>1, CrashAssumption, SMTT(60) DEF TypeInv, ManagerOK
<1>4. ManagerOK'
  BY <1>1, <1>3, Zenon DEF TypeInv, ManagerOK
<1>5. /\ ThreadsOK' /\ \A t \in Threads : thr'[t] = ThreadIdle /\ thr'[t].pc = "idle"
      /\ \A j \in Jobs : jobs'[j] = Absent /\ seen'[j] = Absent
  BY <1>1, ThreadKinds, Zenon DEF ThreadsOK
<1>6. /\ reply' \in [Threads -> Answers] /\ queue' \in Seq(Command) /\ Len(queue') <= QueueCapacity
  BY <1>2, QueueAssumption, SMTT(60) DEF Answers
<1>7. worker' \in Worker /\ WorkerKind'
  BY <1>2, Zenon DEF Worker, Idle, WorkerKind
<1>8. CircuitOK(circuit') /\ circuit' \in Circuit
  <2>1. ClosedError \in Fingerprints /\ "none" \in Kinds
    BY Zenon DEF Fingerprints, Kinds
  <2> QED
    BY <1>2, <2>1, CircuitTypes, Zenon DEF TypeInv, PersistenceOK, CircuitOK
<1>9. PersistenceOK'
  BY <1>1, <1>2, <1>6, <1>7, <1>8, Zenon DEF TypeInv, PersistenceOK, PersistenceTypeOK, Answers
<1> QED
  BY <1>1, <1>2, <1>4, <1>5, <1>9, Zenon DEF TypeInv

(* A disabled circuit is well formed.                                      *)
LEMMA DisableTypes ==
  ASSUME CircuitOK(circuit), NEW k \in Kinds, circuit' = Disable(circuit, k)
  PROVE  CircuitOK(circuit') /\ circuit' \in Circuit
<1>1. ClosedError \in Fingerprints
  BY Zenon DEF Fingerprints
<1> QED
  BY <1>1, CircuitTypes, Zenon DEF CircuitOK

(* What opening the store at start-up does.                                *)
LEMMA RestartEffect ==
  ASSUME TypeInv, NEW old \in SUBSET Jobs, Restart(old)
  PROVE  /\ TypeInv' /\ phase = "down" /\ phase' = "starting"
         /\ rows' = Prune(old) \/ rows' = rows
         /\ known' = {j \in known : rows[j] = Absent \/ rows'[j] # Absent}
         /\ UNCHANGED <<open, queue, worker, gate, closing, reply, sync,
                        jobs, used, scope, requested, thr, seen, todo, crashes>>
<1>1. /\ phase = "down" /\ phase' = "starting"
      /\ rows' = Prune(old) \/ rows' = rows
      /\ known' = {j \in known : rows[j] = Absent \/ rows'[j] # Absent}
      /\ UNCHANGED <<open, queue, worker, gate, closing, reply, sync,
                     jobs, used, scope, requested, thr, seen, todo, crashes>>
  BY Zenon DEF Restart, ForgetPurged
<1>2. CircuitOK(circuit') /\ circuit' \in Circuit
  <2>1. CircuitOK(circuit) /\ {"backend", "retention_prune_failed"} \subseteq Kinds
    BY Zenon DEF TypeInv, PersistenceOK, Kinds
  <2>2. circuit' = circuit \/ \E k \in Kinds : circuit' = Disable(circuit, k)
    BY <2>1, Zenon DEF Restart
  <2> QED
    BY <2>1, <2>2, DisableTypes, Zenon DEF CircuitOK
<1>3. rows' \in [Jobs -> Snapshot \cup {Absent}]
  BY <1>1, PruneEffect, Zenon DEF TypeInv, PersistenceOK, PersistenceTypeOK
<1>4. PersistenceOK'
  BY <1>1, <1>2, <1>3, Zenon DEF TypeInv, PersistenceOK, PersistenceTypeOK, WorkerKind
<1>5. ManagerOK' /\ ThreadsOK'
  BY <1>1, Zenon DEF TypeInv, ManagerOK, ThreadsOK
<1> QED
  BY <1>1, <1>4, <1>5, Zenon DEF TypeInv

(* What listing the rows at start-up does.                                 *)
LEMMA RecoverListEffect ==
  ASSUME TypeInv, RecoverList
  PROVE  /\ TypeInv' /\ phase = "starting" /\ phase' = "recovering"
         /\ \/ todo' = {j \in Jobs : rows[j] # Absent} /\ circuit' = circuit
            \/ todo' = todo /\ Errors # {}
         /\ UNCHANGED <<rows, open, queue, worker, gate, closing, reply, sync,
                        jobs, used, known, scope, requested, thr, seen, crashes>>
<1>1. /\ phase = "starting" /\ phase' = "recovering"
      /\ \/ todo' = {j \in Jobs : rows[j] # Absent} /\ circuit' = circuit
         \/ todo' = todo /\ Errors # {}
      /\ UNCHANGED <<rows, open, queue, worker, gate, closing, reply, sync,
                     jobs, used, known, scope, requested, thr, seen, crashes>>
  BY Zenon DEF RecoverList
<1>2. CircuitOK(circuit') /\ circuit' \in Circuit
  <2>1. CircuitOK(circuit) /\ "backend" \in Kinds
    BY Zenon DEF TypeInv, PersistenceOK, Kinds
  <2>2. circuit' = circuit \/ circuit' = Disable(circuit, "backend")
    BY Zenon DEF RecoverList
  <2> QED
    BY <2>1, <2>2, DisableTypes, Zenon DEF CircuitOK
<1>3. PersistenceOK'
  BY <1>1, <1>2, Zenon DEF TypeInv, PersistenceOK, PersistenceTypeOK, WorkerKind
<1>4. ManagerOK' /\ ThreadsOK'
  BY <1>1, Zenon DEF TypeInv, ManagerOK, ThreadsOK
<1> QED
  BY <1>1, <1>3, <1>4, Zenon DEF TypeInv

(* Recovery moves a snapshot forward, to a terminal status.                *)
LEMMA RecoveredForward ==
  ASSUME NEW s \in Snapshot
  PROVE  Recovered(s) \in Snapshot /\ Precedes(s, Recovered(s)) /\ IsTerminal(Recovered(s))
BY Zenon DEF Recovered, Precedes, Snapshot, IsTerminal, InFlight, TerminalStatuses

(* What one iteration of the recovery loop does.                           *)
LEMMA RecoverRowEffect ==
  ASSUME TypeInv, NEW j \in Jobs, RecoverRow(j), rows[j] # Absent
  PROVE  /\ TypeInv' /\ phase = "recovering" /\ j \in todo
         /\ \/ /\ todo' = todo \ {j} /\ jobs'[j] = Recovered(rows[j])
               /\ rows'[j] \in {rows[j], Recovered(rows[j])}
               /\ seen'[j] \in {seen[j], Recovered(rows[j])}
               /\ rows'[j] = Recovered(rows[j]) \/ ~CanWrite(circuit)
               /\ circuit' = circuit
               /\ \A k \in Jobs \ {j} : /\ jobs'[k] = jobs[k] /\ rows'[k] = rows[k]
                                        /\ seen'[k] = seen[k]
            \/ todo' = {} /\ UNCHANGED <<rows, jobs, seen>> /\ Errors # {}
         /\ UNCHANGED <<open, queue, worker, gate, closing, reply, sync, phase, used, known,
                        thr, crashes>>
<1> DEFINE new == Recovered(rows[j])
           flipped == new # rows[j]
<1>1. /\ rows \in [Jobs -> Snapshot \cup {Absent}] /\ jobs \in [Jobs -> Snapshot \cup {Absent}]
      /\ seen \in [Jobs -> Snapshot \cup {Absent}] /\ scope \in [Jobs -> SUBSET Jobs]
      /\ requested \subseteq Jobs /\ todo \subseteq Jobs /\ CircuitOK(circuit)
  BY Zenon DEF TypeInv, PersistenceOK, PersistenceTypeOK, ManagerOK
<1>2. rows[j] \in Snapshot /\ new \in Snapshot
  BY <1>1, RecoveredForward, Zenon
<1>3. /\ phase = "recovering" /\ j \in todo
      /\ UNCHANGED <<open, queue, worker, gate, closing, reply, sync, phase, used, known, thr,
                     crashes>>
  BY Zenon DEF RecoverRow
<1>4. \/ /\ rows' = IF flipped /\ CanWrite(circuit) THEN [rows EXCEPT ![j] = new] ELSE rows
         /\ jobs' = [jobs EXCEPT ![j] = new]
         /\ seen' = IF flipped THEN [seen EXCEPT ![j] = new] ELSE seen
         /\ scope' = [scope EXCEPT ![j] = {j}]
         /\ requested' = IF flipped THEN requested ELSE requested \cup {j}
         /\ todo' = todo \ {j} /\ circuit' = circuit
      \/ /\ circuit' = Disable(circuit, "backend") /\ todo' = {} /\ Errors # {}
         /\ UNCHANGED <<rows, jobs, seen, scope, requested>>
  BY Zenon DEF RecoverRow
<1> HIDE DEF new
<1>5. CASE /\ rows' = IF flipped /\ CanWrite(circuit) THEN [rows EXCEPT ![j] = new] ELSE rows
           /\ jobs' = [jobs EXCEPT ![j] = new]
           /\ seen' = IF flipped THEN [seen EXCEPT ![j] = new] ELSE seen
           /\ scope' = [scope EXCEPT ![j] = {j}]
           /\ requested' = IF flipped THEN requested ELSE requested \cup {j}
           /\ todo' = todo \ {j} /\ circuit' = circuit
  <2>1. /\ rows' \in [Jobs -> Snapshot \cup {Absent}] /\ rows'[j] \in {rows[j], new}
        /\ rows'[j] = new \/ ~CanWrite(circuit)
        /\ \A k \in Jobs \ {j} : rows'[k] = rows[k]
    BY <1>1, <1>2, <1>5, Zenon
  <2>2. /\ jobs' \in [Jobs -> Snapshot \cup {Absent}] /\ jobs'[j] = new
        /\ \A k \in Jobs \ {j} : jobs'[k] = jobs[k]
    BY <1>1, <1>2, <1>5, Zenon
  <2>3. /\ seen' \in [Jobs -> Snapshot \cup {Absent}] /\ seen'[j] \in {seen[j], new}
        /\ \A k \in Jobs \ {j} : seen'[k] = seen[k]
    BY <1>1, <1>2, <1>5, Zenon
  <2>4. scope' \in [Jobs -> SUBSET Jobs] /\ requested' \subseteq Jobs /\ todo' \subseteq Jobs
    BY <1>1, <1>5, Zenon
  <2>5. PersistenceOK'
    BY <1>3, <1>5, <2>1, Zenon DEF TypeInv, PersistenceOK, PersistenceTypeOK, CircuitOK, WorkerKind
  <2>6. ManagerOK' /\ ThreadsOK'
    BY <1>3, <2>2, <2>3, <2>4, Zenon DEF TypeInv, ManagerOK, ThreadsOK
  <2> QED
    BY <1>3, <1>5, <2>1, <2>2, <2>3, <2>5, <2>6, Zenon DEF TypeInv, new
<1>6. CASE /\ circuit' = Disable(circuit, "backend") /\ todo' = {} /\ Errors # {}
           /\ UNCHANGED <<rows, jobs, seen, scope, requested>>
  <2>1. "backend" \in Kinds
    BY Zenon DEF Kinds
  <2>2. CircuitOK(circuit') /\ circuit' \in Circuit
    BY <1>1, <1>6, <2>1, DisableTypes, Zenon
  <2>3. PersistenceOK'
    BY <1>3, <1>6, <2>2, Zenon DEF TypeInv, PersistenceOK, PersistenceTypeOK, WorkerKind
  <2>4. ManagerOK' /\ ThreadsOK'
    BY <1>3, <1>6, Zenon DEF TypeInv, ManagerOK, ThreadsOK
  <2> QED
    BY <1>3, <1>6, <2>3, <2>4, Zenon DEF TypeInv
<1> QED
  BY <1>4, <1>5, <1>6, Zenon

(* A step of the worker leaves the manager alone but for ids whose row     *)
(* went.                                                                   *)
LEMMA WorkEffect ==
  ASSUME TypeInv, Work
  PROVE  /\ TypeInv' /\ WorkerStep
         /\ known' = {j \in known : rows[j] = Absent \/ rows'[j] # Absent}
         /\ UNCHANGED <<phase, jobs, used, scope, requested, thr, seen, todo, crashes>>
<1>1. /\ WorkerStep /\ known' = {j \in known : rows[j] = Absent \/ rows'[j] # Absent}
      /\ UNCHANGED <<phase, jobs, used, scope, requested, thr, seen, todo, crashes>>
  BY Zenon DEF Work, ForgetPurged
<1>2. PersistenceOK'
  BY <1>1, WorkerTypes, Zenon DEF TypeInv
<1>3. ManagerOK' /\ ThreadsOK'
  BY <1>1, Zenon DEF TypeInv, ManagerOK, ThreadsOK
<1> QED
  BY <1>1, <1>2, <1>3, Zenon DEF TypeInv

-----------------------------------------------------------------------------
(* Where a state s of job j is found outside the map: in the backend, in   *)
(* the queue, in the worker's hands, in the hands of a thread.             *)
RowCopy(j, s) == rows[j] = s
QueueCopy(j, s) ==
  \E i \in 1..Len(queue) : queue[i].type = "put" /\ queue[i].job = j /\ queue[i].snap = s
WorkerCopy(j, s) == BusyPut /\ worker.cmd.job = j /\ worker.cmd.snap = s
ThreadCopy(j, s) == \E t \in Threads : WorkingOn(t, j) /\ thr[t].snap = s

Copy(j, s) == RowCopy(j, s) \/ QueueCopy(j, s) \/ WorkerCopy(j, s) \/ ThreadCopy(j, s)

(* Frame: the copies in the row, the queue and the worker.                 *)
LEMMA CopyFrame ==
  ASSUME NEW j, NEW s, UNCHANGED <<rows, queue, worker>>
  PROVE  /\ RowCopy(j, s)' = RowCopy(j, s) /\ QueueCopy(j, s)' = QueueCopy(j, s)
         /\ WorkerCopy(j, s)' = WorkerCopy(j, s)
BY Zenon DEF RowCopy, QueueCopy, WorkerCopy, BusyPut

(* A push adds the pushed copy and no other.                               *)
LEMMA PushCopy ==
  ASSUME PersistenceTypeOK, NEW c \in Command, Push(c), NEW j, NEW s, QueueCopy(j, s)'
  PROVE  QueueCopy(j, s) \/ (c.type = "put" /\ c.job = j /\ c.snap = s)
<1>1. PICK i \in 1..Len(queue') :
        queue'[i].type = "put" /\ queue'[i].job = j /\ queue'[i].snap = s
  BY Zenon DEF QueueCopy
<1>2. /\ Len(queue) \in Nat /\ Len(queue') = Len(queue) + 1
      /\ \A k \in 1..Len(queue) : queue'[k] = queue[k]
      /\ queue'[Len(queue) + 1] = c
  BY PushEffect, SMTT(60) DEF PersistenceTypeOK
<1>3. CASE i \in 1..Len(queue)
  BY <1>1, <1>2, <1>3, Zenon DEF QueueCopy
<1>4. CASE i = Len(queue) + 1
  BY <1>1, <1>2, <1>4, Zenon
<1> QED
  BY <1>2, <1>3, <1>4, SMTT(60)

(* Dropping a receiver adds no copy.                                       *)
LEMMA DropCopy ==
  ASSUME PersistenceTypeOK, WorkerKind, NEW t \in Threads, DropReceiver(t), NEW j, NEW s
  PROVE  /\ QueueCopy(j, s)' => QueueCopy(j, s)
         /\ WorkerCopy(j, s)' => WorkerCopy(j, s)
<1>0. queue \in Seq(Command) /\ \A i \in 1..Len(queue) : queue[i] \in Command
  BY SMTT(60) DEF PersistenceTypeOK
<1>1. ASSUME QueueCopy(j, s)' PROVE QueueCopy(j, s)
  <2>1. PICK i \in 1..Len(queue') :
          queue'[i].type = "put" /\ queue'[i].job = j /\ queue'[i].snap = s
    BY <1>1, Zenon DEF QueueCopy
  <2>2. i \in 1..Len(queue) /\ queue'[i] = Forget(t, queue[i])
    BY <2>1, DropEffect, Zenon
  <2>3. queue[i].type = "put" /\ queue[i].job = j /\ queue[i].snap = s
    BY <1>0, <2>1, <2>2, ForgetKeeps, SMTT(60)
  <2> QED
    BY <2>2, <2>3, Zenon DEF QueueCopy
<1>2. ASSUME WorkerCopy(j, s)' PROVE WorkerCopy(j, s)
  <2>1. worker.pc \in {"put", "putdone"} /\ worker.pc \in WorkerPCs
    BY <1>2, DropEffect, Zenon DEF WorkerCopy, BusyPut, WorkerPCs
  <2>2. worker.cmd \in Command /\ worker.cmd.type = "put"
    BY <2>1, WorkerFields, Zenon DEF PersistenceTypeOK, Busy, WorkerKind
  <2>3. worker'.cmd = Forget(t, worker.cmd)
    BY <2>1, DropEffect, Zenon
  <2> QED
    BY <1>2, <2>1, <2>2, <2>3, ForgetKeeps, SMTT(60) DEF WorkerCopy, BusyPut
<1> QED
  BY <1>1, <1>2, Zenon

(* A thread that keeps its arguments adds no copy.                         *)
LEMMA KeepCopy ==
  ASSUME NEW t \in Threads, Keeps(t), Others(t), NEW j, NEW s, ThreadCopy(j, s)'
  PROVE  ThreadCopy(j, s)
<1>1. PICK u \in Threads : WorkingOn(u, j)' /\ thr'[u].snap = s
  BY Zenon DEF ThreadCopy
<1>2. WorkingOn(u, j) /\ thr[u].snap = s
  BY <1>1, Zenon DEF WorkingOn, Keeps, Others
<1> QED
  BY <1>2, Zenon DEF ThreadCopy

(* The worker passes a snapshot on: from the queue to its hands, and from  *)
(* there to the backend.                                                   *)
LEMMA WorkerPasses ==
  ASSUME PersistenceOK, WorkerStep, NEW j \in Jobs, NEW s \in Snapshot
  PROVE  /\ QueueCopy(j, s)' => QueueCopy(j, s)
         /\ WorkerCopy(j, s)' => WorkerCopy(j, s) \/ QueueCopy(j, s)
         /\ RowCopy(j, s)' => RowCopy(j, s) \/ WorkerCopy(j, s)
<1>0. /\ PersistenceTypeOK /\ rows \in [Jobs -> Snapshot \cup {Absent}] /\ s # Absent
  BY SnapshotTypes, Zenon DEF PersistenceOK, PersistenceTypeOK
<1>1. CASE WorkerReceive
  <2>1. /\ queue # <<>> /\ queue' = Tail(queue) /\ rows' = rows
        /\ \/ worker'.pc \in {"exited", "idle", "delete"}
           \/ /\ worker'.cmd = Head(queue) /\ Head(queue).type = "put"
    <3>1. Head(queue).type \in {"put", "delete", "shutdown"}
      BY <1>0, <1>1, HeadAndTail, CommandFields, Zenon DEF WorkerReceive
    <3> QED
      BY <1>1, <3>1, SMTT(60) DEF WorkerReceive, Idle
  <2>2. ASSUME QueueCopy(j, s)' PROVE QueueCopy(j, s)
    <3>1. PICK i \in 1..Len(queue') :
            queue'[i].type = "put" /\ queue'[i].job = j /\ queue'[i].snap = s
      BY <2>2, Zenon DEF QueueCopy
    <3>2. i + 1 \in 1..Len(queue) /\ queue'[i] = queue[i + 1]
      BY <1>0, <2>1, <3>1, HeadAndTail, SMTT(60)
    <3> QED
      BY <3>1, <3>2, Zenon DEF QueueCopy
  <2>3. ASSUME WorkerCopy(j, s)' PROVE QueueCopy(j, s)
    <3>1. /\ Head(queue) = queue[1] /\ 1 \in 1..Len(queue)
      BY <1>0, <2>1, HeadAndTail, SMTT(60)
    <3>2. queue[1].type = "put" /\ queue[1].job = j /\ queue[1].snap = s
      BY <2>1, <2>3, <3>1, Zenon DEF WorkerCopy, BusyPut
    <3> QED
      BY <3>1, <3>2, Zenon DEF QueueCopy
  <2> QED
    BY <2>1, <2>2, <2>3, Zenon DEF RowCopy
<1>2. CASE WorkerPut \/ WorkerDelete
  <2>1. QueueCopy(j, s)' => QueueCopy(j, s)
    BY <1>2, BackendEffect, Zenon DEF QueueCopy
  <2>2. WorkerCopy(j, s)' => WorkerCopy(j, s)
    <3>1. worker.pc \in {"put", "delete"}
      BY <1>2, Zenon DEF WorkerPut, WorkerDelete
    <3> QED
      BY <1>2, <3>1, BackendEffect, Zenon DEF WorkerCopy, BusyPut
  <2>3. RowCopy(j, s)' => RowCopy(j, s) \/ WorkerCopy(j, s)
    <3>1. CASE WorkerPut
      <4>1. worker.pc = "put" /\ BusyPut
        BY <3>1, Zenon DEF WorkerPut, BusyPut
      <4>2. worker.cmd.job \in Jobs
        BY <1>2, <4>1, BackendEffect, CommandFields, Zenon
      <4> QED
        BY <1>0, <1>2, <4>1, <4>2, BackendEffect, Zenon DEF RowCopy, WorkerCopy
    <3>2. CASE WorkerDelete
      <4>1. worker.pc = "delete"
        BY <3>2, Zenon DEF WorkerDelete
      <4> QED
        BY <1>0, <1>2, <4>1, BackendEffect, PruneEffect, Zenon DEF RowCopy
    <3> QED
      BY <1>2, <3>1, <3>2, Zenon
  <2> QED
    BY <2>1, <2>2, <2>3, Zenon
<1>3. CASE WorkerRecordPut \/ WorkerRecordDelete \/ WorkerReply
  <2>1. UNCHANGED <<rows, queue>>
    BY <1>3, Zenon DEF WorkerRecordPut, WorkerRecordDelete, WorkerReply
  <2>2. ~BusyPut'
    <3>1. CASE WorkerRecordDelete
      <4>1. worker.pc = "deletedone" /\ worker \in Busy
        BY <1>0, <3>1, WorkerFields, Zenon DEF WorkerRecordDelete, PersistenceTypeOK, WorkerPCs
      <4>2. worker'.pc = "reply"
        BY <3>1, <4>1, Zenon DEF WorkerRecordDelete, Busy
      <4> QED
        BY <4>2, Zenon DEF BusyPut
    <3>2. CASE WorkerRecordPut \/ WorkerReply
      BY <3>2, SMTT(60) DEF WorkerRecordPut, WorkerReply, Idle, BusyPut
    <3> QED
      BY <1>3, <3>1, <3>2, Zenon
  <2> QED
    BY <2>1, <2>2, Zenon DEF QueueCopy, RowCopy, WorkerCopy
<1> QED
  BY <1>1, <1>2, <1>3, Zenon DEF WorkerStep

-----------------------------------------------------------------------------
(* Outside "up" nothing is in progress.                                    *)
Quiet ==
  phase # "up" => /\ queue = <<>> /\ worker = Idle
                  /\ \A t \in Threads : thr[t].pc = "idle"

(* Recovery works off rows that are there.                                 *)
TodoInv == \A j \in todo : phase = "recovering" /\ rows[j] # Absent

(* An id that was never taken is found nowhere.                            *)
Fresh ==
  \A j \in Jobs \ used : jobs[j] = Absent /\ \A s \in Snapshot : ~Copy(j, s)

(* NeverAhead, with one case for all the places a snapshot can be in.      *)
Ahead ==
  \A j \in Jobs : Tracked(j) =>
    \A s \in Snapshot : Copy(j, s) => Precedes(s, jobs[j])

CoreInv == TypeInv /\ Quiet /\ TodoInv /\ Fresh /\ Ahead

(* The steps of a thread that neither add a job nor change its state.      *)
Moves(t) ==
  \/ PersistPut(t) \/ PutSend(t) \/ PutReturned(t) \/ Emit(t)
  \/ PruneRequest(t) \/ PruneSend(t) \/ PruneReturned(t) \/ PruneTimeout(t)
  \/ Remove(t) \/ Shuts(t)
  \/ \E old \in SUBSET Jobs, confirm \in BOOLEAN : GcStale(t, old, confirm)
  \/ \E j \in Jobs : Cancel(t, j)

(* The steps, grouped by what they do to the map.                          *)
LEMMA NextCases ==
  ASSUME Next
  PROVE  \/ \E t \in Threads, j \in Jobs, parent \in Jobs : Create(t, j, parent)
         \/ \E t \in Threads, j \in Jobs : Changes(t, j)
         \/ \E t \in Threads : Moves(t)
         \/ Work \/ Crash
         \/ \E old \in SUBSET Jobs : Restart(old)
         \/ RecoverList
         \/ \E j \in Jobs : RecoverRow(j)
         \/ Serve
<1>1. ASSUME NEW t \in Threads, Call(t)
      PROVE  \/ \E j \in Jobs, parent \in Jobs : Create(t, j, parent)
             \/ \E j \in Jobs : Changes(t, j)
             \/ Moves(t)
  BY <1>1, Zenon DEF Call, Changes, Moves, Shuts
<1>2. ASSUME NEW t \in Threads, Continue(t) \/ Timeout(t) PROVE Moves(t)
  BY <1>2, Zenon DEF Continue, Timeout, Moves, Shuts
<1>3. ASSUME Process
      PROVE  \/ Crash \/ RecoverList \/ Serve
             \/ \E old \in SUBSET Jobs : Restart(old)
             \/ \E j \in Jobs : RecoverRow(j)
  BY <1>3, Zenon DEF Process
<1> QED
  BY <1>1, <1>2, <1>3, Zenon DEF Next

(* An operation under way is on an id that was handed out.                 *)
LEMMA WorkerIsUsed ==
  ASSUME ThreadsOK, Fresh, NEW t \in Threads, NEW j \in Jobs, WorkingOn(t, j)
  PROVE  j \in used
<1>1. thr[t].snap \in Snapshot
  BY ThreadFields, Zenon DEF ThreadsOK, WorkingOn
<1>2. Copy(j, thr[t].snap)
  BY Zenon DEF Copy, ThreadCopy
<1> QED
  BY <1>1, <1>2, Zenon DEF Fresh

(* A snapshot that reaches the queue comes from a thread.                  *)
LEMMA PutFromThread ==
  ASSUME TypeInv, NEW t \in Threads, thr[t] \in JobThread, NEW r \in Receivers,
         Push(PutCmd(thr[t].job, thr[t].snap, r)), NEW j, NEW s, QueueCopy(j, s)'
  PROVE  QueueCopy(j, s) \/ ThreadCopy(j, s)
<1>1. thr[t].pc \in JobPCs /\ thr[t].job \in Jobs /\ thr[t].snap \in Snapshot
  BY ThreadKinds, Zenon
<1>2. QueueCopy(j, s) \/ (thr[t].job = j /\ thr[t].snap = s)
  BY <1>1, CommandTypes, PushCopy, SMTT(60) DEF TypeInv, PersistenceOK
<1> QED
  BY <1>1, <1>2, Zenon DEF ThreadCopy, WorkingOn

(* The other steps of a thread leave rows and phase alone, change a job    *)
(* only by removing it, and make no new copy of a snapshot.                *)
LEMMA MoveEffect ==
  ASSUME TypeInv, Fresh, NEW t \in Threads, Moves(t)
  PROVE  /\ TypeInv' /\ UNCHANGED <<rows, phase, used, todo>>
         /\ thr[t].pc # "idle" \/ phase = "up"
         /\ \A j \in Jobs : jobs'[j] \in {jobs[j], Absent}
         /\ \A j \in Jobs, s \in Snapshot : Copy(j, s)' => Copy(j, s)
<1> USE DEF managerVars
<1>1. CASE PersistPut(t) \/ PutSend(t)
  <2>1. /\ TypeInv' /\ UNCHANGED managerVars /\ UNCHANGED <<rows, worker>>
        /\ thr[t].pc \in {"put", "send"} /\ thr[t] \in JobThread /\ Keeps(t) /\ Others(t)
        /\ \/ queue' = queue
           \/ \E r \in Receivers : Push(PutCmd(thr[t].job, thr[t].snap, r))
    BY <1>1, PersistPutEffect, PutSendEffect, Zenon
  <2>2. ASSUME NEW j \in Jobs, NEW s \in Snapshot, Copy(j, s)' PROVE Copy(j, s)
    <3>1. QueueCopy(j, s)' => QueueCopy(j, s) \/ ThreadCopy(j, s)
      BY <2>1, PutFromThread, Zenon DEF QueueCopy
    <3>2. ThreadCopy(j, s)' => ThreadCopy(j, s)
      BY <2>1, KeepCopy, Zenon
    <3>3. /\ RowCopy(j, s)' => RowCopy(j, s)
          /\ WorkerCopy(j, s)' => WorkerCopy(j, s)
      BY <2>1, Zenon DEF RowCopy, WorkerCopy, BusyPut
    <3> QED
      BY <2>2, <3>1, <3>2, <3>3, Zenon DEF Copy
  <2> QED
    BY <2>1, <2>2, Zenon
<1>2. CASE PutReturned(t) \/ PruneReturned(t)
  <2>1. /\ TypeInv' /\ UNCHANGED managerVars /\ UNCHANGED <<rows, queue, worker>>
        /\ thr[t].pc # "idle" /\ Keeps(t) /\ Others(t)
    BY <1>2, PutReturnedEffect, PruneReturnedEffect, Zenon
  <2> QED
    BY <2>1, CopyFrame, KeepCopy, Zenon DEF Copy
<1>3. CASE Emit(t)
  <2>1. /\ TypeInv' /\ UNCHANGED <<pvars, phase, jobs, used, todo>>
        /\ thr[t].pc = "emit" /\ Keeps(t) /\ Others(t)
    BY <1>3, EmitEffect, WorkerIsUsed, Zenon DEF TypeInv
  <2> QED
    BY <2>1, CopyFrame, KeepCopy, Zenon DEF Copy, pvars
<1>4. CASE PruneRequest(t) \/ PruneSend(t)
  <2>1. /\ TypeInv' /\ UNCHANGED managerVars /\ UNCHANGED <<rows, worker>>
        /\ thr[t].pc \in {"prune", "pruneSend"} /\ Keeps(t) /\ Others(t)
        /\ \/ queue' = queue
           \/ \E c \in Command : c.type = "delete" /\ Push(c)
    BY <1>4, PruneRequestEffect, PruneSendEffect, Zenon
  <2>2. ASSUME NEW j \in Jobs, NEW s \in Snapshot, Copy(j, s)' PROVE Copy(j, s)
    <3>1. QueueCopy(j, s)' => QueueCopy(j, s)
      <4>1. CASE queue' = queue
        BY <4>1, Zenon DEF QueueCopy
      <4>2. CASE \E c \in Command : c.type = "delete" /\ Push(c)
        BY <4>2, PushCopy, Zenon DEF TypeInv, PersistenceOK
      <4> QED
        BY <2>1, <4>1, <4>2, Zenon
    <3>2. ThreadCopy(j, s)' => ThreadCopy(j, s)
      BY <2>1, KeepCopy, Zenon
    <3>3. /\ RowCopy(j, s)' => RowCopy(j, s)
          /\ WorkerCopy(j, s)' => WorkerCopy(j, s)
      BY <2>1, Zenon DEF RowCopy, WorkerCopy, BusyPut
    <3> QED
      BY <2>2, <3>1, <3>2, <3>3, Zenon DEF Copy
  <2> QED
    BY <2>1, <2>2, Zenon
<1>5. CASE PruneTimeout(t)
  <2>1. /\ TypeInv' /\ UNCHANGED managerVars /\ UNCHANGED rows
        /\ thr[t].pc = "pruneWait" /\ Keeps(t) /\ Others(t) /\ DropReceiver(t)
    BY <1>5, PruneTimeoutEffect, Zenon
  <2> QED
    BY <2>1, DropCopy, KeepCopy, Zenon DEF Copy, RowCopy, TypeInv, PersistenceOK
<1>6. CASE Remove(t)
  <2>1. /\ TypeInv' /\ UNCHANGED <<pvars, phase, used, todo>>
        /\ thr[t].pc = "remove" /\ Keeps(t) /\ Others(t)
    BY <1>6, RemoveEffect, Zenon
  <2>2. PICK j \in Jobs : jobs' = [jobs EXCEPT ![j] = Absent]
    <3>1. thr[t].pc \in PrunePCs
      BY <2>1, Zenon DEF PrunePCs
    <3>2. thr[t].old \subseteq Jobs
      BY <3>1, ThreadFields, Zenon DEF TypeInv, ThreadsOK
    <3> QED
      BY <1>6, <3>2, Zenon DEF Remove
  <2>3. \A k \in Jobs : jobs'[k] \in {jobs[k], Absent}
    BY <2>2, Zenon DEF TypeInv, ManagerOK
  <2> QED
    BY <2>1, <2>3, CopyFrame, KeepCopy, Zenon DEF Copy, pvars
<1>7. CASE Shuts(t)
  <2>1. /\ TypeInv' /\ UNCHANGED managerVars /\ UNCHANGED rows
        /\ thr[t].pc = "idle" => phase = "up"
        /\ Keeps(t) /\ Others(t)
        /\ \/ UNCHANGED <<queue, worker>>
           \/ Push(ShutdownCmd(t)) /\ UNCHANGED worker
           \/ DropReceiver(t)
    BY <1>7, ShutdownEffect, Zenon
  <2>2. ASSUME NEW j \in Jobs, NEW s \in Snapshot, Copy(j, s)' PROVE Copy(j, s)
    <3>1. /\ QueueCopy(j, s)' => QueueCopy(j, s)
          /\ WorkerCopy(j, s)' => WorkerCopy(j, s)
      <4>1. CASE UNCHANGED <<queue, worker>>
        BY <4>1, Zenon DEF QueueCopy, WorkerCopy, BusyPut
      <4>2. CASE Push(ShutdownCmd(t)) /\ UNCHANGED worker
        <5>1. ShutdownCmd(t) \in Command /\ ShutdownCmd(t).type = "shutdown"
          BY CommandTypes, Zenon DEF Receivers
        <5> QED
          BY <4>2, <5>1, PushCopy, Zenon DEF TypeInv, PersistenceOK, WorkerCopy, BusyPut
      <4>3. CASE DropReceiver(t)
        BY <4>3, DropCopy, Zenon DEF TypeInv, PersistenceOK
      <4> QED
        BY <2>1, <4>1, <4>2, <4>3, Zenon
    <3>2. ThreadCopy(j, s)' => ThreadCopy(j, s)
      BY <2>1, KeepCopy, Zenon
    <3>3. RowCopy(j, s)' => RowCopy(j, s)
      BY <2>1, Zenon DEF RowCopy
    <3> QED
      BY <2>2, <3>1, <3>2, <3>3, Zenon DEF Copy
  <2> QED
    BY <2>1, <2>2, Zenon
<1>8. CASE \E old \in SUBSET Jobs, confirm \in BOOLEAN : GcStale(t, old, confirm)
  <2>1. /\ TypeInv' /\ UNCHANGED <<pvars, managerVars>> /\ phase = "up"
        /\ Keeps(t) /\ Others(t)
    BY <1>8, GcEffect, Zenon
  <2> QED
    BY <2>1, CopyFrame, KeepCopy, Zenon DEF Copy, pvars
<1>9. CASE \E j \in Jobs : Cancel(t, j)
  <2>1. /\ TypeInv' /\ UNCHANGED <<pvars, phase, jobs, used, thr, todo>> /\ phase = "up"
    BY <1>9, CancelEffect, Zenon DEF Cancel, Ready
  <2> QED
    BY <2>1, CopyFrame, Zenon DEF Copy, ThreadCopy, WorkingOn, pvars
<1> QED
  BY <1>1, <1>2, <1>3, <1>4, <1>5, <1>6, <1>7, <1>8, <1>9, ZenonT(60) DEF Moves

(* The invariant holds at the start.                                       *)
LEMMA CoreInit == ASSUME Init PROVE CoreInv
<1>1. /\ rows = [j \in Jobs |-> Absent] /\ queue = <<>> /\ worker = Idle /\ phase = "up"
      /\ jobs = [j \in Jobs |-> Absent] /\ thr = [t \in Threads |-> ThreadIdle]
      /\ todo = {}
  BY Zenon DEF Init, PersistenceInit
<1>2. TypeInv
  <2>1. CircuitOK(circuit)
    BY ThresholdAssumption, SMTT(60) DEF Init, PersistenceInit, CircuitOK, Circuit, Configured, Kinds
  <2>2. PersistenceTypeOK
    <3>1. worker \in Worker
      BY <1>1, Zenon DEF Worker, Idle
    <3>2. sync \in BOOLEAN
      BY ModesAssumption, Zenon DEF Init, PersistenceInit
    <3>3. queue \in Seq(Command) /\ Len(queue) <= QueueCapacity
      BY <1>1, QueueAssumption, SMTT(60)
    <3>4. open \in BOOLEAN /\ closing \in BOOLEAN
      BY Zenon DEF Init, PersistenceInit
    <3>5. /\ gate \in Threads \cup {NoThread}
          /\ reply \in [Threads -> {"none", "queued", "ok", "failed"}]
      BY Zenon DEF Init, PersistenceInit
    <3> QED
      BY <1>1, <2>1, <3>1, <3>2, <3>3, <3>4, <3>5, Zenon DEF PersistenceTypeOK, CircuitOK
  <2>3. WorkerKind
    BY <1>1, Zenon DEF WorkerKind, Idle
  <2>4. ManagerOK
    BY CrashAssumption, SMTT(60) DEF Init, ManagerOK
  <2>5. ThreadsOK
    BY <1>1, ThreadKinds, Zenon DEF ThreadsOK
  <2> QED
    BY <2>1, <2>2, <2>3, <2>4, <2>5, Zenon DEF TypeInv, PersistenceOK
<1>3. \A j \in Jobs, s \in Snapshot : ~Copy(j, s)
  BY <1>1, SnapshotTypes, ThreadKinds, SMTT(60)
    DEF Copy, RowCopy, QueueCopy, WorkerCopy, ThreadCopy, WorkingOn, BusyPut, JobPCs, Idle
<1> QED
  BY <1>1, <1>2, <1>3, Zenon DEF CoreInv, Quiet, TodoInv, Fresh, Ahead

(* The steps of a thread that change no state keep the invariant.          *)
LEMMA CoreMove ==
  ASSUME CoreInv, NEW t \in Threads, Moves(t)
  PROVE  CoreInv'
<1>1. /\ TypeInv' /\ UNCHANGED <<rows, phase, used, todo>>
      /\ phase = "up"
      /\ \A j \in Jobs : jobs'[j] \in {jobs[j], Absent}
      /\ \A j \in Jobs, s \in Snapshot : Copy(j, s)' => Copy(j, s)
  BY MoveEffect, Zenon DEF CoreInv, Quiet
<1>2. Quiet' /\ TodoInv'
  BY <1>1, Zenon DEF CoreInv, Quiet, TodoInv
<1>3. Fresh' /\ Ahead'
  BY <1>1, Zenon DEF CoreInv, Fresh, Ahead, Tracked
<1> QED
  BY <1>1, <1>2, <1>3, Zenon DEF CoreInv

(* A thread that begins an operation on j adds one copy, the new state.    *)
LEMMA BeginCopy ==
  ASSUME NEW t \in Threads, NEW j \in Jobs, NEW s \in Snapshot,
         UNCHANGED pvars, Others(t), thr'[t].job = j, thr'[t].snap = s,
         NEW k \in Jobs, NEW x \in Snapshot, Copy(k, x)'
  PROVE  Copy(k, x) \/ (k = j /\ x = s)
<1>1. \/ RowCopy(k, x) \/ QueueCopy(k, x) \/ WorkerCopy(k, x) \/ ThreadCopy(k, x)'
  BY CopyFrame, Zenon DEF Copy, pvars
<1>2. ASSUME ThreadCopy(k, x)' PROVE ThreadCopy(k, x) \/ (k = j /\ x = s)
  <2>1. PICK u \in Threads : WorkingOn(u, k)' /\ thr'[u].snap = x
    BY <1>2, Zenon DEF ThreadCopy
  <2>2. CASE u = t
    BY <2>1, <2>2, Zenon DEF WorkingOn
  <2>3. CASE u # t
    BY <2>1, <2>3, Zenon DEF WorkingOn, Others, ThreadCopy
  <2> QED
    BY <2>2, <2>3, Zenon
<1> QED
  BY <1>1, <1>2, Zenon DEF Copy

(* create keeps the invariant: the id was found nowhere.                   *)
LEMMA CoreCreate ==
  ASSUME CoreInv, NEW t \in Threads, NEW j \in Jobs, NEW parent \in Jobs,
         Create(t, j, parent)
  PROVE  CoreInv'
<1>1. /\ TypeInv' /\ UNCHANGED <<pvars, phase, todo>> /\ phase = "up"
      /\ j \notin used /\ used' = used \cup {j}
      /\ jobs'[j] = NewJob /\ \A k \in Jobs \ {j} : jobs'[k] = jobs[k]
      /\ thr'[t].job = j /\ thr'[t].snap = NewJob /\ Others(t)
  BY CreateEffect, ZenonT(60) DEF CoreInv, Create, Ready, Others
<1>2. Quiet' /\ TodoInv'
  BY <1>1, Zenon DEF CoreInv, Quiet, TodoInv, pvars
<1>3. \A k \in Jobs, x \in Snapshot : Copy(k, x)' => Copy(k, x) \/ (k = j /\ x = NewJob)
  BY <1>1, BeginCopy, SnapshotTypes, Zenon
<1>4. Precedes(NewJob, NewJob)
  BY Zenon DEF Precedes
<1>5. Fresh'
  BY <1>1, <1>3, Zenon DEF CoreInv, Fresh
<1>6. Ahead'
  <2>1. ASSUME NEW k \in Jobs, jobs'[k] # Absent, NEW x \in Snapshot, Copy(k, x)'
        PROVE  Precedes(x, jobs'[k])
    <3>1. CASE k = j
      BY <1>1, <1>3, <1>4, <2>1, <3>1, Zenon DEF CoreInv, Fresh
    <3>2. CASE k # j
      BY <1>1, <1>3, <2>1, <3>2, Zenon DEF CoreInv, Ahead, Tracked
    <3> QED
      BY <3>1, <3>2, Zenon
  <2> QED
    BY <2>1, Zenon DEF Ahead, Tracked
<1> QED
  BY <1>1, <1>2, <1>5, <1>6, Zenon DEF CoreInv

(* A snapshot is not ahead of itself.                                      *)
LEMMA PrecedesReflexive == ASSUME NEW s \in Snapshot PROVE Precedes(s, s)
BY Zenon DEF Precedes, Snapshot

(* A change of state keeps the invariant: every copy precedes the old      *)
(* state, and the old state the new one.                                   *)
LEMMA CoreChange ==
  ASSUME CoreInv, NEW t \in Threads, NEW j \in Jobs, Changes(t, j)
  PROVE  CoreInv'
<1>0. PICK s \in Snapshot, op \in {"output", "update"} :
        Transition(t, j, op, s) /\ Precedes(jobs[j], s)
  BY ChangeEffect, Zenon DEF CoreInv
<1>1. /\ TypeInv' /\ UNCHANGED <<pvars, phase, used, todo>> /\ phase = "up"
      /\ jobs[j] # Absent /\ jobs'[j] = s /\ \A k \in Jobs \ {j} : jobs'[k] = jobs[k]
      /\ thr'[t].job = j /\ thr'[t].snap = s /\ Others(t)
  <2>1. op \in JobOps
    BY Zenon DEF JobOps
  <2>2. TypeInv /\ Transition(t, j, op, s)
    BY <1>0, Zenon DEF CoreInv
  <2>3. /\ TypeInv'
        /\ UNCHANGED <<pvars, phase, used, known, scope, requested, seen, todo, crashes>>
        /\ jobs[j] # Absent /\ jobs'[j] = s
        /\ \A k \in Jobs \ {j} : jobs'[k] = jobs[k]
        /\ thr[t].pc = "idle" /\ thr'[t].pc = "put" /\ thr'[t].op = op
        /\ thr'[t].job = j /\ thr'[t].snap = s
        /\ \A u \in Threads \ {t} : thr'[u] = thr[u]
    BY <2>1, <2>2, TransitionEffect, Zenon
  <2>4. phase = "up"
    BY <2>2, Zenon DEF Transition, Ready
  <2> QED
    BY <2>3, <2>4, Zenon DEF Others
<1>2. Quiet' /\ TodoInv'
  BY <1>1, Zenon DEF CoreInv, Quiet, TodoInv, pvars
<1>3. \A k \in Jobs, x \in Snapshot : Copy(k, x)' => Copy(k, x) \/ (k = j /\ x = s)
  BY <1>1, BeginCopy, Zenon
<1>5. Fresh'
  BY <1>1, <1>3, Zenon DEF CoreInv, Fresh
<1>6. Ahead'
  <2>1. ASSUME NEW k \in Jobs, jobs'[k] # Absent, NEW x \in Snapshot, Copy(k, x)'
        PROVE  Precedes(x, jobs'[k])
    <3>1. CASE k = j /\ x = s
      BY <1>1, <3>1, PrecedesReflexive, Zenon
    <3>2. CASE k = j /\ x # s
      <4>1. Precedes(x, jobs[j]) /\ jobs[j] \in Snapshot
        BY <1>1, <1>3, <2>1, <3>2, Zenon DEF CoreInv, Ahead, Tracked, TypeInv, ManagerOK
      <4> QED
        BY <1>0, <1>1, <3>2, <4>1, PrecedesTransitive, Zenon
    <3>3. CASE k # j
      BY <1>1, <1>3, <2>1, <3>3, Zenon DEF CoreInv, Ahead, Tracked
    <3> QED
      BY <3>1, <3>2, <3>3, Zenon
  <2> QED
    BY <2>1, Zenon DEF Ahead, Tracked
<1> QED
  BY <1>1, <1>2, <1>5, <1>6, Zenon DEF CoreInv

(* The worker runs only while the server is up.                            *)
LEMMA WorkIsUp ==
  ASSUME Quiet, WorkerStep
  PROVE  phase = "up"
<1>1. queue # <<>> \/ worker.pc \in WorkerPCs
  BY Zenon DEF WorkerStep, WorkerReceive, WorkerPut, WorkerRecordPut, WorkerDelete,
         WorkerRecordDelete, WorkerReply, WorkerPCs
<1>2. Idle.pc \notin WorkerPCs
  BY Zenon DEF Idle, WorkerPCs
<1> QED
  BY <1>1, <1>2, Zenon DEF Quiet

(* The worker moves copies along and makes none.                           *)
LEMMA CoreWork == ASSUME CoreInv, Work PROVE CoreInv'
<1>1. /\ TypeInv' /\ WorkerStep /\ UNCHANGED <<phase, jobs, used, thr, todo>>
  BY WorkEffect, Zenon DEF CoreInv
<1>2. phase = "up"
  BY <1>1, WorkIsUp, Zenon DEF CoreInv
<1>3. Quiet' /\ TodoInv'
  BY <1>1, <1>2, Zenon DEF CoreInv, Quiet, TodoInv
<1>4. \A j \in Jobs, s \in Snapshot : Copy(j, s)' => Copy(j, s)
  <2>1. \A j \in Jobs, s \in Snapshot : ThreadCopy(j, s)' => ThreadCopy(j, s)
    BY <1>1, Zenon DEF ThreadCopy, WorkingOn
  <2> QED
    BY <1>1, <2>1, WorkerPasses, Zenon DEF Copy, CoreInv, TypeInv
<1>5. Fresh' /\ Ahead'
  BY <1>1, <1>4, Zenon DEF CoreInv, Fresh, Ahead, Tracked
<1> QED
  BY <1>1, <1>3, <1>5, Zenon DEF CoreInv

(* With nothing in progress the only copies are the rows.                  *)
LEMMA QuietCopy ==
  ASSUME queue = <<>>, worker = Idle, \A t \in Threads : thr[t].pc = "idle",
         NEW j, NEW s
  PROVE  Copy(j, s) <=> RowCopy(j, s)
<1>1. ~QueueCopy(j, s)
  BY SMTT(60) DEF QueueCopy
<1>2. ~WorkerCopy(j, s)
  BY Zenon DEF WorkerCopy, BusyPut, Idle
<1>3. ~ThreadCopy(j, s)
  BY Zenon DEF ThreadCopy, WorkingOn, JobPCs
<1> QED
  BY <1>1, <1>2, <1>3, Zenon DEF Copy

(* A crash keeps the invariant: nothing is tracked.                        *)
LEMMA CoreCrash == ASSUME CoreInv, Crash PROVE CoreInv'
<1>1. /\ TypeInv' /\ UNCHANGED <<rows, used>> /\ todo' = {}
      /\ queue' = <<>> /\ worker' = Idle /\ \A t \in Threads : thr'[t].pc = "idle"
      /\ \A j \in Jobs : jobs'[j] = Absent
  BY CrashEffect, Zenon DEF CoreInv
<1>2. \A j \in Jobs, s \in Snapshot : Copy(j, s)' => Copy(j, s)
  BY <1>1, QuietCopy, SMTT(60) DEF Copy, RowCopy, QueueCopy, WorkerCopy, ThreadCopy, BusyPut, WorkingOn,
                        Idle, JobPCs
<1> QED
  BY <1>1, <1>2, Zenon DEF CoreInv, Quiet, TodoInv, Fresh, Ahead, Tracked

(* Recovery changes rows only.                                             *)
LEMMA QuietStep ==
  ASSUME CoreInv, phase # "up", UNCHANGED <<queue, worker, thr>>
  PROVE  /\ Quiet'
         /\ \A j \in Jobs, s \in Snapshot : /\ Copy(j, s)' => rows'[j] = s
                                            /\ rows[j] = s => Copy(j, s)
<1>1. /\ queue = <<>> /\ worker = Idle /\ \A t \in Threads : thr[t].pc = "idle"
  BY Zenon DEF CoreInv, Quiet
<1>2. Quiet'
  BY <1>1, Zenon DEF Quiet
<1>3. ASSUME NEW j \in Jobs, NEW s \in Snapshot, Copy(j, s)' PROVE rows'[j] = s
  BY <1>1, <1>3, SMTT(60)
    DEF Copy, RowCopy, QueueCopy, WorkerCopy, ThreadCopy, BusyPut, WorkingOn, Idle, JobPCs
<1> QED
  BY <1>2, <1>3, Zenon DEF Copy, RowCopy

(* Start-up keeps the invariant: nothing is tracked yet.                   *)
LEMMA CoreRestart ==
  ASSUME CoreInv, NEW old \in SUBSET Jobs, Restart(old) PROVE CoreInv'
<1>1. /\ TypeInv' /\ phase = "down"
      /\ rows' = Prune(old) \/ rows' = rows
      /\ UNCHANGED <<queue, worker, jobs, used, thr, todo>>
  BY RestartEffect, Zenon DEF CoreInv
<1>2. /\ Quiet'
      /\ \A j \in Jobs, s \in Snapshot : /\ Copy(j, s)' => rows'[j] = s
                                         /\ rows[j] = s => Copy(j, s)
  BY <1>1, QuietStep, Zenon
<1>3. \A j \in Jobs : rows'[j] \in {rows[j], Absent}
  BY <1>1, PruneEffect, Zenon DEF CoreInv, TypeInv, PersistenceOK, PersistenceTypeOK
<1>4. \A j \in Jobs, s \in Snapshot : Copy(j, s)' => Copy(j, s)
  BY <1>2, <1>3, SnapshotTypes, Zenon
<1>5. TodoInv'
  BY <1>1, Zenon DEF CoreInv, TodoInv
<1>6. Fresh' /\ Ahead'
  BY <1>1, <1>4, Zenon DEF CoreInv, Fresh, Ahead, Tracked
<1> QED
  BY <1>1, <1>2, <1>5, <1>6, Zenon DEF CoreInv

(* Listing the rows keeps the invariant.                                   *)
LEMMA CoreRecoverList == ASSUME CoreInv, RecoverList PROVE CoreInv'
<1>1. /\ TypeInv' /\ phase = "starting" /\ phase' = "recovering"
      /\ todo' = {j \in Jobs : rows[j] # Absent} \/ todo' = todo
      /\ UNCHANGED <<rows, queue, worker, jobs, used, thr>>
  BY RecoverListEffect, Zenon DEF CoreInv
<1>2. /\ Quiet'
      /\ \A j \in Jobs, s \in Snapshot : /\ Copy(j, s)' => rows'[j] = s
                                         /\ rows[j] = s => Copy(j, s)
  BY <1>1, QuietStep, Zenon
<1>3. TodoInv'
  BY <1>1, Zenon DEF CoreInv, TodoInv
<1>4. Fresh' /\ Ahead'
  BY <1>1, <1>2, Zenon DEF CoreInv, Fresh, Ahead, Tracked
<1> QED
  BY <1>1, <1>2, <1>3, <1>4, Zenon DEF CoreInv

(* A recovered job is ahead of the row it came from, the only copy.        *)
LEMMA CoreRecoverRow ==
  ASSUME CoreInv, NEW j \in Jobs, RecoverRow(j) PROVE CoreInv'
<1>0. rows[j] # Absent /\ rows[j] \in Snapshot
  BY Zenon DEF CoreInv, TodoInv, RecoverRow, TypeInv, PersistenceOK, PersistenceTypeOK
<1>1. /\ TypeInv' /\ phase = "recovering" /\ j \in todo
      /\ \/ /\ todo' = todo \ {j} /\ jobs'[j] = Recovered(rows[j])
            /\ rows'[j] \in {rows[j], Recovered(rows[j])}
            /\ \A k \in Jobs \ {j} : jobs'[k] = jobs[k] /\ rows'[k] = rows[k]
         \/ todo' = {} /\ UNCHANGED <<rows, jobs>>
      /\ UNCHANGED <<queue, worker, phase, used, thr>>
  BY <1>0, RecoverRowEffect, Zenon DEF CoreInv
<1>2. /\ Quiet'
      /\ \A k \in Jobs, s \in Snapshot : /\ Copy(k, s)' => rows'[k] = s
                                         /\ rows[k] = s => Copy(k, s)
  BY <1>1, QuietStep, Zenon
<1>3. TodoInv'
  BY <1>1, Zenon DEF CoreInv, TodoInv, TypeInv, ManagerOK
<1>4. j \in used
  BY <1>0, <1>2, Zenon DEF CoreInv, Fresh
<1>5. Fresh'
  BY <1>1, <1>2, <1>4, ZenonT(60) DEF CoreInv, Fresh
<1>6. /\ Recovered(rows[j]) \in Snapshot /\ Precedes(rows[j], Recovered(rows[j]))
      /\ Precedes(Recovered(rows[j]), Recovered(rows[j]))
  BY <1>0, RecoveredForward, PrecedesReflexive, Zenon
<1>7. Ahead'
  BY <1>1, <1>2, <1>6, Zenon DEF CoreInv, Ahead, Tracked
<1> QED
  BY <1>1, <1>2, <1>3, <1>5, <1>7, Zenon DEF CoreInv

(* Opening the listener keeps the invariant.                               *)
LEMMA CoreServe == ASSUME CoreInv, Serve PROVE CoreInv'
<1>1. /\ UNCHANGED <<pvars, jobs, used, known, scope, requested, thr, seen, todo, crashes>>
      /\ todo = {} /\ phase' = "up" /\ phase = "recovering"
  BY Zenon DEF Serve
<1>2. TypeInv'
  <2>1. PersistenceOK'
    BY <1>1, PersistenceSame, Zenon DEF CoreInv, TypeInv
  <2> QED
    BY <1>1, <2>1, Zenon DEF CoreInv, TypeInv, ManagerOK, ThreadsOK
<1>3. \A k \in Jobs, s \in Snapshot : Copy(k, s)' => Copy(k, s)
  BY <1>1, QuietStep, Zenon DEF pvars
<1>4. Fresh' /\ Ahead'
  BY <1>1, <1>3, Zenon DEF CoreInv, Fresh, Ahead, Tracked
<1> QED
  BY <1>1, <1>2, <1>4, Zenon DEF CoreInv, Quiet, TodoInv

(* Stuttering keeps the invariant.                                         *)
LEMMA CoreStutter == ASSUME CoreInv, UNCHANGED vars PROVE CoreInv'
<1>1. PersistenceOK'
  BY PersistenceSame, Zenon DEF CoreInv, TypeInv, vars
<1>2. TypeInv'
  BY <1>1, Zenon DEF CoreInv, TypeInv, ManagerOK, ThreadsOK, vars, mvars
<1>3. \A j, s : Copy(j, s)' = Copy(j, s)
  BY ZenonT(60) DEF Copy, RowCopy, QueueCopy, WorkerCopy, ThreadCopy, BusyPut, WorkingOn, vars, mvars, pvars
<1> QED
  BY <1>2, <1>3, Zenon DEF CoreInv, Quiet, TodoInv, Fresh, Ahead, Tracked, vars, mvars, pvars

(* Every step keeps the invariant.                                         *)
LEMMA CoreStep == ASSUME CoreInv, [Next]_vars PROVE CoreInv'
<1>1. CASE Next
  BY <1>1, NextCases, CoreCreate, CoreChange, CoreMove, CoreWork, CoreCrash, CoreRestart,
     CoreRecoverList, CoreRecoverRow, CoreServe, ZenonT(60)
<1> QED
  BY <1>1, CoreStutter, Zenon

(* The invariant always holds.                                             *)
LEMMA CoreAlways == Spec => []CoreInv
BY CoreInit, CoreStep, PTL DEF Spec

(* Every reachable state of the job manager and its writer is well typed;  *)
(* in particular the channel never exceeds its capacity.                   *)
THEOREM TypesHold == Spec => []TypeOK
<1>1. CoreInv => TypeOK
  BY Zenon DEF CoreInv, TypeInv, TypeOK, PersistenceOK, ManagerOK, ThreadsOK
<1> QED
  BY <1>1, CoreAlways, PTL

(* No snapshot on its way to the store, and no row, is ever ahead of the   *)
(* job in the map.                                                         *)
THEOREM SnapshotsNeverAhead == Spec => []NeverAhead
<1>1. ASSUME CoreInv PROVE NeverAhead
  <2>1. ASSUME NEW j \in Jobs, Tracked(j)
        PROVE  /\ rows[j] # Absent => Precedes(rows[j], jobs[j])
               /\ \A i \in PutsOf(queue) :
                     queue[i].job = j => Precedes(queue[i].snap, jobs[j])
               /\ BusyPut /\ worker.cmd.job = j => Precedes(worker.cmd.snap, jobs[j])
               /\ \A t \in Threads : WorkingOn(t, j) => Precedes(thr[t].snap, jobs[j])
    <3>0. \A s \in Snapshot : Copy(j, s) => Precedes(s, jobs[j])
      BY <1>1, <2>1, Zenon DEF CoreInv, Ahead
    <3>1. ASSUME rows[j] # Absent PROVE Precedes(rows[j], jobs[j])
      <4>1. rows[j] \in Snapshot
        BY <1>1, <3>1, Zenon DEF CoreInv, TypeInv, PersistenceOK, PersistenceTypeOK
      <4> QED
        BY <3>0, <4>1, Zenon DEF Copy, RowCopy
    <3>2. ASSUME NEW i \in PutsOf(queue), queue[i].job = j
          PROVE  Precedes(queue[i].snap, jobs[j])
      <4>1. i \in 1..Len(queue) /\ queue[i].type = "put"
        BY Zenon DEF PutsOf
      <4>2. queue[i] \in Command
        BY <1>1, <4>1, SMTT(60) DEF CoreInv, TypeInv, PersistenceOK, PersistenceTypeOK
      <4>3. queue[i].snap \in Snapshot /\ Copy(j, queue[i].snap)
        BY <3>2, <4>1, <4>2, CommandFields, Zenon DEF Copy, QueueCopy
      <4> QED
        BY <3>0, <4>3, Zenon
    <3>3. ASSUME BusyPut, worker.cmd.job = j PROVE Precedes(worker.cmd.snap, jobs[j])
      <4>1. worker \in Worker /\ worker.pc \in WorkerPCs /\ worker.cmd.type = "put"
        BY <1>1, <3>3, Zenon
          DEF CoreInv, TypeInv, PersistenceOK, PersistenceTypeOK, WorkerKind, BusyPut, WorkerPCs
      <4>2. worker.cmd \in Command
        BY <4>1, WorkerFields, Zenon DEF Busy
      <4>3. worker.cmd.snap \in Snapshot /\ Copy(j, worker.cmd.snap)
        BY <3>3, <4>1, <4>2, CommandFields, Zenon DEF Copy, WorkerCopy
      <4> QED
        BY <3>0, <4>3, Zenon
    <3>4. ASSUME NEW t \in Threads, WorkingOn(t, j) PROVE Precedes(thr[t].snap, jobs[j])
      <4>1. thr[t].snap \in Snapshot
        BY <1>1, <3>4, ThreadFields, Zenon DEF CoreInv, TypeInv, ThreadsOK, WorkingOn
      <4> QED
        BY <3>0, <3>4, <4>1, Zenon DEF Copy, ThreadCopy
    <3> QED
      BY <3>1, <3>2, <3>3, <3>4, Zenon
  <2> QED
    BY <2>1, Zenon DEF NeverAhead
<1> QED
  BY <1>1, CoreAlways, PTL

-----------------------------------------------------------------------------
(* What drain relies on: a thread that is blocked in the channel holds the *)
(* gate, so drain has not begun; once it has, nothing but shutdown         *)
(* commands is pushed, so nothing can be behind one of them.               *)
Shutdowns(i) == \A k \in i..Len(queue) : queue[k].type = "shutdown"

QueueDrain ==
  \A i \in 1..Len(queue) : queue[i].type = "shutdown" => closing /\ Shutdowns(i)

WorkerDrain == worker.pc = "exited" => closing /\ Shutdowns(1)

ThreadDrain ==
  \A t \in Threads : /\ thr[t].pc \in {"send", "pruneSend"} => gate = t /\ ~closing
                     /\ thr[t].pc = "drain" => closing

DrainInv == QueueDrain /\ WorkerDrain /\ ThreadDrain

(* A command sent before the drain's marker, or the marker itself, keeps   *)
(* the order of the channel.                                               *)
LEMMA PushDrain ==
  ASSUME PersistenceTypeOK, NEW c \in Command, Push(c), UNCHANGED <<worker, closing>>,
         ~closing \/ c.type = "shutdown", c.type = "shutdown" => closing,
         QueueDrain, WorkerDrain
  PROVE  QueueDrain' /\ WorkerDrain'
<1>1. /\ Len(queue) \in Nat /\ Len(queue') = Len(queue) + 1
      /\ \A k \in 1..Len(queue) : queue'[k] = queue[k]
      /\ queue'[Len(queue) + 1] = c
  BY PushEffect, SMTT(60) DEF PersistenceTypeOK
<1>2. \A i \in 1..Len(queue') : i \in 1..Len(queue) \/ i = Len(queue) + 1
  BY <1>1, SMTT(60)
<1>3. ASSUME NEW i \in 1..Len(queue'), queue'[i].type = "shutdown"
      PROVE  closing /\ Shutdowns(i)'
  <2>1. closing
    BY <1>1, <1>2, <1>3, Zenon DEF QueueDrain
  <2>2. ASSUME NEW k \in i..Len(queue') PROVE queue'[k].type = "shutdown"
    <3>1. CASE k = Len(queue) + 1
      BY <1>1, <2>1, <3>1, Zenon
    <3>2. CASE k # Len(queue) + 1
      <4>1. i \in 1..Len(queue) /\ k \in i..Len(queue) /\ k \in 1..Len(queue)
        BY <1>1, <2>2, <3>2, SMTT(60)
      <4> QED
        BY <1>1, <1>3, <4>1, Zenon DEF QueueDrain, Shutdowns
    <3> QED
      BY <3>1, <3>2, Zenon
  <2> QED
    BY <2>1, <2>2, Zenon DEF Shutdowns
<1>4. ASSUME worker.pc = "exited" PROVE closing /\ Shutdowns(1)'
  <2>1. closing /\ Shutdowns(1)
    BY <1>4, Zenon DEF WorkerDrain
  <2>2. ASSUME NEW k \in 1..Len(queue') PROVE queue'[k].type = "shutdown"
    BY <1>1, <1>2, <2>1, Zenon DEF Shutdowns
  <2> QED
    BY <2>1, <2>2, Zenon DEF Shutdowns
<1> QED
  BY <1>3, <1>4, Zenon DEF QueueDrain, WorkerDrain

(* Dropping a receiver keeps the order of the channel.                     *)
LEMMA DropDrain ==
  ASSUME PersistenceTypeOK, NEW t \in Threads, DropReceiver(t), UNCHANGED closing,
         QueueDrain, WorkerDrain
  PROVE  QueueDrain' /\ WorkerDrain'
<1>1. /\ Len(queue') = Len(queue) /\ worker'.pc = worker.pc
      /\ \A i \in 1..Len(queue) : queue'[i] = Forget(t, queue[i])
      /\ Len(queue) \in Nat /\ \A i \in 1..Len(queue) : queue[i] \in Command
  BY DropEffect, SMTT(60) DEF PersistenceTypeOK
<1>2. \A i \in 1..Len(queue) : queue'[i].type = queue[i].type
  BY <1>1, ForgetKeeps, SMTT(60)
<1>3. \A i \in 1..Len(queue) : Shutdowns(i) => Shutdowns(i)'
  BY <1>1, <1>2, SMTT(60) DEF Shutdowns
<1>4. Shutdowns(1) => Shutdowns(1)'
  BY <1>1, <1>2, Zenon DEF Shutdowns
<1> QED
  BY <1>1, <1>2, <1>3, <1>4, ZenonT(60) DEF QueueDrain, WorkerDrain

(* The worker leaves its loop only at the marker.                          *)
LEMMA WorkerDrains ==
  ASSUME PersistenceOK, WorkerStep, QueueDrain, WorkerDrain
  PROVE  QueueDrain' /\ WorkerDrain' /\ UNCHANGED <<gate, closing>>
<1>1. CASE WorkerReceive
  <2>1. /\ queue # <<>> /\ queue' = Tail(queue) /\ UNCHANGED <<gate, closing>>
        /\ worker.pc = "idle"
        /\ worker'.pc = "exited" => Head(queue).type = "shutdown"
    <3>1. queue # <<>> /\ queue' = Tail(queue) /\ worker.pc = "idle" /\ UNCHANGED <<gate, closing>>
      BY <1>1, Zenon DEF WorkerReceive
    <3>2. Head(queue).type \in {"put", "delete", "shutdown"}
      BY <3>1, HeadAndTail, CommandFields, Zenon DEF PersistenceOK
    <3>3. ASSUME Head(queue).type # "shutdown" PROVE worker'.pc # "exited"
      BY <1>1, <3>2, <3>3, SMTT(60) DEF WorkerReceive, Idle
    <3> QED
      BY <3>1, <3>3, Zenon
  <2>2. /\ Len(queue) \in Nat \ {0} /\ Len(queue') = Len(queue) - 1
        /\ Head(queue) = queue[1]
        /\ \A i \in 1..Len(queue') : queue'[i] = queue[i + 1]
    BY <2>1, HeadAndTail, Zenon DEF PersistenceOK
  <2>3. \A i \in 1..Len(queue') : Shutdowns(i + 1) => Shutdowns(i)'
    <3>1. ASSUME NEW i \in 1..Len(queue'), Shutdowns(i + 1), NEW k \in i..Len(queue')
          PROVE  queue'[k].type = "shutdown"
      <4>1. k \in 1..Len(queue') /\ k + 1 \in (i + 1)..Len(queue)
        BY <2>2, SMTT(60)
      <4> QED
        BY <2>2, <3>1, <4>1, Zenon DEF Shutdowns
    <3> QED
      BY <3>1, Zenon DEF Shutdowns
  <2>4. QueueDrain'
    BY <2>1, <2>2, <2>3, SMTT(60) DEF QueueDrain
  <2>5. ASSUME worker'.pc = "exited" PROVE closing /\ Shutdowns(1)'
    <3>1. closing /\ Shutdowns(1)
      BY <2>1, <2>2, <2>5, SMTT(60) DEF QueueDrain
    <3>2. ASSUME NEW k \in 1..Len(queue') PROVE queue'[k].type = "shutdown"
      BY <2>2, <3>1, SMTT(60) DEF Shutdowns
    <3> QED
      BY <3>1, <3>2, Zenon DEF Shutdowns
  <2> QED
    BY <2>1, <2>4, <2>5, Zenon DEF WorkerDrain
<1>2. CASE ~WorkerReceive
  <2>1. UNCHANGED <<queue, gate, closing>>
    BY <1>2, Zenon DEF WorkerStep, WorkerPut, WorkerRecordPut, WorkerDelete,
                WorkerRecordDelete, WorkerReply
  <2>2. worker'.pc # "exited"
    <3>1. CASE WorkerPut \/ WorkerDelete
      <4>1. worker.pc \in {"put", "delete"}
        BY <3>1, Zenon DEF WorkerPut, WorkerDelete
      <4> QED
        BY <3>1, <4>1, BackendEffect, Zenon
    <3>2. CASE WorkerRecordDelete
      <4>1. worker.pc = "deletedone" /\ worker \in Busy
        BY <3>2, WorkerFields, Zenon DEF WorkerRecordDelete, PersistenceOK, PersistenceTypeOK, WorkerPCs
      <4> QED
        BY <3>2, <4>1, Zenon DEF WorkerRecordDelete, Busy
    <3>3. CASE WorkerRecordPut \/ WorkerReply
      BY <3>3, SMTT(60) DEF WorkerRecordPut, WorkerReply, Idle
    <3> QED
      BY <1>2, <3>1, <3>2, <3>3, Zenon DEF WorkerStep
  <2> QED
    BY <2>1, <2>2, Zenon DEF QueueDrain, WorkerDrain, Shutdowns
<1> QED
  BY <1>1, <1>2, Zenon

(* A drain raises closing before it queues its marker.                     *)
LEMMA DrainMarksClosing ==
  ASSUME TypeInv, NEW t \in Threads, Shuts(t), thr'[t].pc = "drain"
  PROVE  closing'
<1>1. CASE Shutdown(t)
  BY <1>1, Zenon DEF Shutdown, DrainBegin
<1>2. ASSUME NEW pc \in DrainPCs, Goto(t, pc), thr[t].pc \in DrainPCs PROVE pc = "drain"
  BY <1>2, GotoMove, Zenon DEF TypeInv
<1>3. CASE ShutdownMark(t)
  BY <1>2, <1>3, Zenon DEF ShutdownMark, DrainPCs
<1>4. CASE \E timedOut \in BOOLEAN : ShutdownEnd(t, timedOut)
  BY <1>2, <1>4, Zenon DEF ShutdownEnd, DrainPCs
<1>5. CASE ShutdownDisable(t)
  BY <1>2, <1>5, Zenon DEF ShutdownDisable, DrainPCs
<1>6. CASE ShutdownClose(t)
  BY <1>6, ReturnMove, ThreadKinds, Zenon DEF ShutdownClose, TypeInv
<1> QED
  BY <1>1, <1>3, <1>4, <1>5, <1>6, Zenon DEF Shuts

(* A step of a thread puts nothing behind the marker.                      *)
LEMMA DrainMove ==
  ASSUME CoreInv, DrainInv, NEW t \in Threads, Moves(t)
  PROVE  DrainInv'
<1>0. TypeInv /\ PersistenceOK /\ PersistenceTypeOK /\ ThreadsOK /\ ManagerOK
  BY Zenon DEF CoreInv, TypeInv, PersistenceOK
<1>1. CASE PersistPut(t) \/ PutSend(t)
  <2>1. /\ UNCHANGED <<worker, closing>> /\ Others(t) /\ thr[t] \in JobThread
        /\ gate = NoThread \/ (gate = t /\ ~closing)
        /\ thr'[t].pc \in {"send", "idle", "emit", "wait"}
        /\ thr'[t].pc = "send" => gate' = t /\ ~closing
        /\ \/ queue' = queue
           \/ ~closing /\ \E r \in Receivers : Push(PutCmd(thr[t].job, thr[t].snap, r))
    BY <1>0, <1>1, PersistPutEffect, PutSendEffect, Zenon DEF DrainInv, ThreadDrain
  <2>2. QueueDrain' /\ WorkerDrain'
    <3>1. CASE queue' = queue
      BY <2>1, <3>1, Zenon DEF DrainInv, QueueDrain, WorkerDrain, Shutdowns
    <3>2. CASE ~closing /\ \E r \in Receivers : Push(PutCmd(thr[t].job, thr[t].snap, r))
      <4>1. PICK r \in Receivers : Push(PutCmd(thr[t].job, thr[t].snap, r))
        BY <3>2, ZenonT(60)
      <4>2. /\ PutCmd(thr[t].job, thr[t].snap, r) \in Command
            /\ PutCmd(thr[t].job, thr[t].snap, r).type = "put"
        BY <2>1, ThreadKinds, CommandTypes, SMTT(60)
      <4> QED
        BY <1>0, <2>1, <3>2, <4>1, <4>2, PushDrain, ZenonT(60) DEF DrainInv
    <3> QED
      BY <2>1, <3>1, <3>2, Zenon
  <2>3. ThreadDrain'
    <3>1. ASSUME NEW u \in Threads, u # t PROVE thr'[u] = thr[u]
      BY <2>1, <3>1, Zenon DEF Others
    <3>2. ASSUME NEW u \in Threads, thr'[u].pc \in {"send", "pruneSend"}
          PROVE  gate' = u /\ ~closing
      BY <2>1, <3>1, <3>2, ThreadAssumption, Zenon DEF DrainInv, ThreadDrain
    <3>3. ASSUME NEW u \in Threads, thr'[u].pc = "drain" PROVE closing
      BY <2>1, <3>1, <3>3, ZenonT(60) DEF DrainInv, ThreadDrain
    <3> QED
      BY <2>1, <3>2, <3>3, Zenon DEF ThreadDrain
  <2> QED
    BY <2>2, <2>3, Zenon DEF DrainInv
<1>2. CASE PruneRequest(t) \/ PruneSend(t)
  <2>1. /\ UNCHANGED <<worker, closing>> /\ Others(t)
        /\ gate = NoThread \/ (gate = t /\ ~closing)
        /\ thr'[t].pc \in {"pruneSend", "idle", "pruneWait"}
        /\ thr'[t].pc = "pruneSend" => gate' = t /\ ~closing
        /\ \/ queue' = queue
           \/ ~closing /\ \E c \in Command : c.type = "delete" /\ Push(c)
    BY <1>0, <1>2, PruneRequestEffect, PruneSendEffect, Zenon DEF DrainInv, ThreadDrain
  <2>2. QueueDrain' /\ WorkerDrain'
    <3>1. CASE queue' = queue
      BY <2>1, <3>1, Zenon DEF DrainInv, QueueDrain, WorkerDrain, Shutdowns
    <3>2. CASE ~closing /\ \E c \in Command : c.type = "delete" /\ Push(c)
      BY <1>0, <2>1, <3>2, PushDrain, Zenon DEF DrainInv
    <3> QED
      BY <2>1, <3>1, <3>2, Zenon
  <2>3. ThreadDrain'
    <3>1. ASSUME NEW u \in Threads, u # t PROVE thr'[u] = thr[u]
      BY <2>1, <3>1, Zenon DEF Others
    <3>2. ASSUME NEW u \in Threads, thr'[u].pc \in {"send", "pruneSend"}
          PROVE  gate' = u /\ ~closing
      BY <2>1, <3>1, <3>2, ThreadAssumption, Zenon DEF DrainInv, ThreadDrain
    <3>3. ASSUME NEW u \in Threads, thr'[u].pc = "drain" PROVE closing
      BY <2>1, <3>1, <3>3, Zenon DEF DrainInv, ThreadDrain
    <3> QED
      BY <2>1, <3>2, <3>3, Zenon DEF ThreadDrain
  <2> QED
    BY <2>2, <2>3, Zenon DEF DrainInv
<1>3. ASSUME UNCHANGED <<queue, worker, gate, closing>>, Others(t),
             thr'[t].pc \notin {"send", "pruneSend", "drain"}
      PROVE  DrainInv'
  BY <1>3, Zenon DEF DrainInv, QueueDrain, WorkerDrain, ThreadDrain, Shutdowns, Others
<1>4. CASE PutReturned(t) \/ PruneReturned(t)
  <2>1. /\ UNCHANGED <<queue, worker, gate, closing>> /\ Others(t)
        /\ thr'[t].pc \in {"idle", "emit", "remove"}
    BY <1>0, <1>4, PutReturnedEffect, PruneReturnedEffect, Zenon
  <2> QED
    BY <1>3, <2>1, Zenon
<1>5. CASE Emit(t)
  <2>1. /\ UNCHANGED pvars /\ Others(t) /\ thr'[t].pc = "idle"
    BY <1>0, <1>5, EmitEffect, WorkerIsUsed, Zenon DEF CoreInv
  <2> QED
    BY <1>3, <2>1, Zenon DEF pvars
<1>6. CASE Remove(t)
  <2>1. /\ UNCHANGED pvars /\ Others(t) /\ thr'[t].pc \in {"idle", "remove"}
    BY <1>0, <1>6, RemoveEffect, Zenon
  <2> QED
    BY <1>3, <2>1, Zenon DEF pvars
<1>7. CASE \E old \in SUBSET Jobs, confirm \in BOOLEAN : GcStale(t, old, confirm)
  <2>1. /\ UNCHANGED pvars /\ Others(t) /\ thr'[t].pc = "prune"
    BY <1>0, <1>7, GcEffect, Zenon
  <2> QED
    BY <1>3, <2>1, Zenon DEF pvars
<1>8. CASE \E j \in Jobs : Cancel(t, j)
  <2>1. UNCHANGED pvars /\ UNCHANGED thr
    BY <1>0, <1>8, CancelEffect, Zenon
  <2> QED
    BY <2>1, Zenon DEF DrainInv, QueueDrain, WorkerDrain, ThreadDrain, Shutdowns, pvars
<1>9. CASE PruneTimeout(t)
  <2>1. /\ DropReceiver(t) /\ UNCHANGED <<gate, closing>> /\ Others(t) /\ thr'[t].pc = "idle"
    BY <1>0, <1>9, PruneTimeoutEffect, Zenon
  <2>2. QueueDrain' /\ WorkerDrain'
    BY <1>0, <2>1, DropDrain, Zenon DEF DrainInv
  <2> QED
    BY <2>1, <2>2, Zenon DEF DrainInv, ThreadDrain, Others
<1>10. CASE Shuts(t)
  <2>1. /\ thr'[t].pc \in {"idle"} \cup DrainPCs /\ Others(t)
        /\ thr'[t].pc = "drain" => closing'
    BY <1>0, <1>10, ShutdownEffect, DrainMarksClosing, Zenon
  <2>2. \/ /\ UNCHANGED <<queue, worker>> /\ gate = NoThread /\ closing' = TRUE
        \/ /\ Push(ShutdownCmd(t)) /\ UNCHANGED <<worker, gate, closing>> /\ closing
        \/ DropReceiver(t) /\ gate = t /\ UNCHANGED closing
        \/ UNCHANGED <<queue, worker, gate, closing>>
    BY <1>0, <1>10, ShutdownEffect, Zenon DEF DrainInv, ThreadDrain
  <2>3. QueueDrain' /\ WorkerDrain'
    <3>1. CASE UNCHANGED <<queue, worker>> /\ (closing' = TRUE \/ UNCHANGED closing)
      BY <3>1, Zenon DEF DrainInv, QueueDrain, WorkerDrain, Shutdowns
    <3>2. CASE Push(ShutdownCmd(t)) /\ UNCHANGED <<worker, closing>> /\ closing
      <4>1. ShutdownCmd(t) \in Command /\ ShutdownCmd(t).type = "shutdown"
        BY CommandTypes, Zenon DEF Receivers
      <4> QED
        BY <1>0, <3>2, <4>1, PushDrain, Zenon DEF DrainInv
    <3>3. CASE DropReceiver(t) /\ UNCHANGED closing
      BY <1>0, <3>3, DropDrain, Zenon DEF DrainInv
    <3> QED
      BY <2>2, <3>1, <3>2, <3>3, Zenon
  <2>4. \A u \in Threads \ {t} : thr'[u].pc \in {"send", "pruneSend"} => gate' = u /\ ~closing'
    <3>1. ASSUME NEW u \in Threads \ {t}, thr'[u].pc \in {"send", "pruneSend"}
          PROVE  gate = u /\ ~closing /\ gate # NoThread /\ gate # t
      BY <2>1, <3>1, ThreadAssumption, ZenonT(60) DEF DrainInv, ThreadDrain, Others
    <3> QED
      BY <2>2, <3>1, Zenon
  <2>5. \A u \in Threads \ {t} : thr'[u].pc = "drain" => closing'
    BY <2>1, <2>2, SMTT(60) DEF DrainInv, ThreadDrain, Others
  <2> QED
    BY <2>1, <2>3, <2>4, <2>5, Zenon DEF DrainInv, ThreadDrain, DrainPCs
<1> QED
  BY <1>1, <1>2, <1>4, <1>5, <1>6, <1>7, <1>8, <1>9, <1>10, ZenonT(60) DEF Moves

(* Every step keeps what the drain relies on.                              *)
LEMMA DrainStep == ASSUME CoreInv, DrainInv, [Next]_vars PROVE DrainInv'
<1>0. TypeInv
  BY Zenon DEF CoreInv
<1>1. ASSUME UNCHANGED <<queue, worker, gate, closing>>,
             \A u \in Threads : \/ thr'[u] = thr[u]
                               \/ thr'[u].pc \notin {"send", "pruneSend", "drain"}
      PROVE  DrainInv'
  BY <1>1, Zenon DEF DrainInv, QueueDrain, WorkerDrain, ThreadDrain, Shutdowns
<1>2. ASSUME NEW t \in Threads, NEW j \in Jobs, NEW parent \in Jobs, Create(t, j, parent)
      PROVE  DrainInv'
  <2>1. UNCHANGED pvars /\ thr'[t].pc = "put" /\ \A u \in Threads \ {t} : thr'[u] = thr[u]
    BY <1>0, <1>2, CreateEffect, Zenon
  <2> QED
    BY <1>1, <2>1, Zenon DEF pvars
<1>3. ASSUME NEW t \in Threads, NEW j \in Jobs, Changes(t, j) PROVE DrainInv'
  <2>1. PICK s \in Snapshot, op \in {"output", "update"} : Transition(t, j, op, s)
    BY <1>0, <1>3, ChangeEffect, Zenon
  <2>2. op \in JobOps
    BY Zenon DEF JobOps
  <2>3. UNCHANGED pvars /\ thr'[t].pc = "put" /\ \A u \in Threads \ {t} : thr'[u] = thr[u]
    BY <1>0, <2>1, <2>2, TransitionEffect, Zenon
  <2> QED
    BY <1>1, <2>3, Zenon DEF pvars
<1>4. ASSUME Work PROVE DrainInv'
  <2>1. WorkerStep /\ UNCHANGED thr
    BY <1>0, <1>4, WorkEffect, Zenon
  <2>2. QueueDrain' /\ WorkerDrain' /\ UNCHANGED <<gate, closing>>
    BY <1>0, <2>1, WorkerDrains, Zenon DEF DrainInv, TypeInv
  <2> QED
    BY <2>1, <2>2, Zenon DEF DrainInv, ThreadDrain
<1>5. ASSUME Crash PROVE DrainInv'
  <2>1. /\ queue' = <<>> /\ worker'.pc = "idle" /\ \A t \in Threads : thr'[t].pc = "idle"
    BY <1>0, <1>5, CrashEffect, SMTT(60) DEF Idle
  <2> QED
    BY <2>1, SMTT(60) DEF DrainInv, QueueDrain, WorkerDrain, ThreadDrain, Shutdowns
<1>6. ASSUME \/ \E old \in SUBSET Jobs : Restart(old)
             \/ RecoverList \/ Serve \/ UNCHANGED vars
             \/ \E j \in Jobs : RecoverRow(j)
      PROVE  DrainInv'
  <2>1. UNCHANGED <<queue, worker, gate, closing, thr>>
    BY <1>6, Zenon DEF Restart, RecoverList, Serve, RecoverRow, vars, pvars, mvars
  <2> QED
    BY <1>1, <2>1, Zenon
<1> QED
  BY <1>2, <1>3, <1>4, <1>5, <1>6, NextCases, DrainMove, ZenonT(60)

(* What the drain relies on always holds.                                  *)
LEMMA DrainAlways == Spec => [](CoreInv /\ DrainInv)
<1>1. ASSUME Init PROVE DrainInv
  <2>1. queue = <<>> /\ worker.pc = "idle" /\ \A t \in Threads : thr[t].pc = "idle"
    BY <1>1, Zenon DEF Init, PersistenceInit, Idle, ThreadIdle
  <2> QED
    BY <2>1, SMTT(60) DEF DrainInv, QueueDrain, WorkerDrain, ThreadDrain, Shutdowns
<1> QED
  BY <1>1, DrainStep, CoreAlways, CoreInit, CoreStep, PTL DEF Spec

(* When the worker has left its loop, no write is left behind in the       *)
(* channel: what drain (persistence.rs) promises its caller, for every     *)
(* number of threads, jobs and every capacity, with write failures, time-  *)
(* outs, a second shutdown and crashes.                                    *)
THEOREM DrainLeavesNothing == Spec => []DrainLosesNothing
<1>1. DrainInv => DrainLosesNothing
  BY Zenon DEF DrainInv, WorkerDrain, Shutdowns, DrainLosesNothing
<1> QED
  BY <1>1, DrainAlways, PTL

=============================================================================
