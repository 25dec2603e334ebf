------------------------ MODULE JobDurabilityProofs ------------------------
(***************************************************************************)
(* Proofs about the order in which JobManager's rows and events follow the *)
(* map, and about what survives a crash.  They go on from CoreInv of       *)
(* JobManagerProofs.                                                       *)
(*                                                                         *)
(* OwnerInv: with one owner per job the copies of a job stand in line,     *)
(* oldest in front, so the row only moves forward.  EventInv: subscribers  *)
(* are behind the map.  SyncInv: if writes wait, every command has its own *)
(* thread waiting for it, and what was announced was written first.        *)
(***************************************************************************)
EXTENDS JobManagerProofs

-----------------------------------------------------------------------------
(* With one driver per job, the snapshot a thread carries is the job's     *)
(* present state, so that what it enqueues is the latest of the line.      *)
Owned ==
  \A t \in Threads, j \in Jobs : WorkingOn(t, j) => Tracked(j) /\ thr[t].snap = jobs[j]

(* The line of snapshots of one job: row, worker, queue, front to back.    *)
QueueLine ==
  \A i, k \in 1..Len(queue) :
    i < k /\ queue[i].type = "put" /\ queue[k].type = "put" /\ queue[i].job = queue[k].job
      => Precedes(queue[i].snap, queue[k].snap)

WorkerLine ==
  \A j \in Jobs, a, b \in Snapshot : WorkerCopy(j, a) /\ QueueCopy(j, b) => Precedes(a, b)

RowLine ==
  \A j \in Jobs, a, b \in Snapshot :
    RowCopy(j, a) /\ (WorkerCopy(j, b) \/ QueueCopy(j, b)) => Precedes(a, b)

LineInv == QueueLine /\ WorkerLine /\ RowLine

OwnerInv == CoreInv /\ Owned /\ LineInv

(* A worker that is writing holds a put.                                   *)
LEMMA WorkerIsWriting ==
  ASSUME PersistenceOK, BusyPut
  PROVE  worker.cmd \in Command /\ worker.cmd.type = "put" /\ worker.cmd.job \in Jobs
         /\ worker.cmd.snap \in Snapshot
<1>1. worker \in Worker /\ worker.pc \in WorkerPCs /\ worker.cmd.type = "put"
  BY Zenon DEF PersistenceOK, PersistenceTypeOK, WorkerKind, BusyPut, WorkerPCs
<1>2. worker.cmd \in Command
  BY <1>1, WorkerFields, Zenon DEF Busy
<1> QED
  BY <1>1, <1>2, CommandFields, Zenon

(* A thread that enqueues its snapshot puts it behind all the others.      *)
LEMMA PushLine ==
  ASSUME CoreInv, Owned, LineInv, NEW t \in Threads, thr[t] \in JobThread,
         NEW r \in Receivers, Push(PutCmd(thr[t].job, thr[t].snap, r)),
         UNCHANGED <<rows, worker>>
  PROVE  LineInv'
<1> DEFINE h == thr[t].job
           new == thr[t].snap
           c == PutCmd(h, new, r)
<1>0. PersistenceTypeOK /\ TypeInv
  BY Zenon DEF CoreInv, TypeInv, PersistenceOK
<1>1. h \in Jobs /\ new \in Snapshot /\ WorkingOn(t, h)
  BY ThreadKinds, Zenon DEF WorkingOn
<1>2. c \in Command /\ c.type = "put" /\ c.job = h /\ c.snap = new
  BY <1>1, CommandTypes, SMTT(60)
<1>3. new = jobs[h] /\ Tracked(h)
  BY <1>1, Zenon DEF Owned
<1>4. \A x \in Snapshot : Copy(h, x) => Precedes(x, new)
  BY <1>1, <1>3, Zenon DEF CoreInv, Ahead
<1>5. /\ Len(queue) \in Nat /\ Len(queue') = Len(queue) + 1
      /\ \A k \in 1..Len(queue) : queue'[k] = queue[k] /\ queue[k] \in Command
      /\ queue'[Len(queue) + 1] = c
  BY <1>0, <1>2, PushEffect, SMTT(60) DEF PersistenceTypeOK
<1> HIDE DEF h, new, c
<1>6. \A j \in Jobs, x \in Snapshot :
        QueueCopy(j, x)' => QueueCopy(j, x) \/ (h = j /\ new = x)
  BY <1>0, <1>2, PushCopy, SMTT(60) DEF c, h, new
<1>7. QueueLine'
  <2>1. ASSUME NEW i \in 1..Len(queue'), NEW k \in 1..Len(queue'), i < k,
               queue'[i].type = "put", queue'[k].type = "put", queue'[i].job = queue'[k].job
        PROVE  Precedes(queue'[i].snap, queue'[k].snap)
    <3>1. i \in 1..Len(queue) /\ queue'[i] = queue[i] /\ queue[i] \in Command
      BY <1>5, <2>1, SMTT(60)
    <3>2. CASE k \in 1..Len(queue)
      BY <1>5, <2>1, <3>1, <3>2, Zenon DEF LineInv, QueueLine
    <3>3. CASE k = Len(queue) + 1
      <4>1. queue[i].snap \in Snapshot /\ Copy(h, queue[i].snap)
        BY <1>2, <1>5, <2>1, <3>1, <3>3, CommandFields, Zenon DEF Copy, QueueCopy
      <4> QED
        BY <1>2, <1>4, <1>5, <3>1, <3>3, <4>1, Zenon
    <3> QED
      BY <1>5, <3>2, <3>3, SMTT(60)
  <2> QED
    BY <2>1, Zenon DEF QueueLine
<1>8. \A j \in Jobs, x \in Snapshot : /\ WorkerCopy(j, x)' => WorkerCopy(j, x)
                                      /\ RowCopy(j, x)' => RowCopy(j, x)
  BY Zenon DEF WorkerCopy, RowCopy, BusyPut
<1>9. WorkerLine' /\ RowLine'
  BY <1>4, <1>6, <1>8, Zenon DEF LineInv, WorkerLine, RowLine, Copy
<1> QED
  BY <1>7, <1>9, Zenon DEF LineInv

(* Any other command leaves the line of puts as it is.                     *)
LEMMA PushOtherLine ==
  ASSUME PersistenceTypeOK, LineInv, NEW c \in Command, c.type # "put", Push(c),
         UNCHANGED <<rows, worker>>
  PROVE  LineInv'
<1>5. /\ Len(queue) \in Nat /\ Len(queue') = Len(queue) + 1
      /\ \A k \in 1..Len(queue) : queue'[k] = queue[k]
      /\ queue'[Len(queue) + 1] = c
  BY PushEffect, SMTT(60) DEF PersistenceTypeOK
<1>6. \A j \in Jobs, x \in Snapshot : QueueCopy(j, x)' => QueueCopy(j, x)
  BY PushCopy, Zenon
<1>7. QueueLine'
  <2>1. \A k \in 1..Len(queue') : queue'[k].type = "put" => k \in 1..Len(queue)
    BY <1>5, SMTT(60)
  <2> QED
    BY <1>5, <2>1, Zenon DEF LineInv, QueueLine
<1>8. \A j \in Jobs, x \in Snapshot : /\ WorkerCopy(j, x)' => WorkerCopy(j, x)
                                      /\ RowCopy(j, x)' => RowCopy(j, x)
  BY Zenon DEF WorkerCopy, RowCopy, BusyPut
<1>9. WorkerLine' /\ RowLine'
  BY <1>6, <1>8, Zenon DEF LineInv, WorkerLine, RowLine
<1> QED
  BY <1>7, <1>9, Zenon DEF LineInv

(* Dropping a receiver keeps the line.                                     *)
LEMMA DropLine ==
  ASSUME PersistenceOK, LineInv, NEW t \in Threads, DropReceiver(t), UNCHANGED rows
  PROVE  LineInv'
<1>1. /\ Len(queue') = Len(queue)
      /\ \A i \in 1..Len(queue) : queue'[i] = Forget(t, queue[i]) /\ queue[i] \in Command
  BY DropEffect, SMTT(60) DEF PersistenceTypeOK, PersistenceOK
<1>2. \A i \in 1..Len(queue) :
        /\ queue'[i].type = queue[i].type
        /\ queue[i].type = "put" => queue'[i].job = queue[i].job /\ queue'[i].snap = queue[i].snap
  BY <1>1, ForgetKeeps, SMTT(60)
<1>3. QueueLine'
  BY <1>1, <1>2, ZenonT(60) DEF LineInv, QueueLine
<1>4. \A j \in Jobs, x \in Snapshot : /\ QueueCopy(j, x)' => QueueCopy(j, x)
                                      /\ WorkerCopy(j, x)' => WorkerCopy(j, x)
                                      /\ RowCopy(j, x)' => RowCopy(j, x)
  BY DropCopy, Zenon DEF RowCopy, PersistenceOK
<1> QED
  BY <1>3, <1>4, Zenon DEF LineInv, WorkerLine, RowLine

(* The worker moves the head of the line into the row.                     *)
LEMMA WorkLine ==
  ASSUME PersistenceOK, LineInv, WorkerStep
  PROVE  LineInv'
<1>0. rows \in [Jobs -> Snapshot \cup {Absent}] /\ PersistenceTypeOK
  BY Zenon DEF PersistenceOK, PersistenceTypeOK
<1>1. CASE WorkerReceive
  <2>1. queue # <<>> /\ queue' = Tail(queue) /\ UNCHANGED rows
    BY <1>1, Zenon DEF WorkerReceive
  <2>2. /\ Len(queue) \in Nat \ {0} /\ Len(queue') = Len(queue) - 1
        /\ Head(queue) = queue[1] /\ Head(queue) \in Command
        /\ \A i \in 1..Len(queue') : queue'[i] = queue[i + 1]
    BY <1>0, <2>1, HeadAndTail, Zenon
  <2>3. QueueLine'
    <3>1. \A i \in 1..Len(queue') : i + 1 \in 1..Len(queue)
      BY <2>2, SMTT(60)
    <3>2. \A i, k \in 1..Len(queue') : i < k => i + 1 < k + 1
      BY <2>2, SMTT(60)
    <3> QED
      BY <2>2, <3>1, <3>2, Zenon DEF LineInv, QueueLine
  <2>4. \A j \in Jobs, x \in Snapshot :
          /\ QueueCopy(j, x)' => \E k \in 2..Len(queue) : /\ queue[k].type = "put" /\ queue[k].job = j
                                                         /\ queue[k].snap = x
          /\ WorkerCopy(j, x)' => queue[1].type = "put" /\ queue[1].job = j /\ queue[1].snap = x
          /\ RowCopy(j, x)' => RowCopy(j, x)
    <3>1. ASSUME NEW j \in Jobs, NEW x \in Snapshot, QueueCopy(j, x)'
          PROVE  \E k \in 2..Len(queue) : /\ queue[k].type = "put" /\ queue[k].job = j
                                         /\ queue[k].snap = x
      <4>1. PICK i \in 1..Len(queue') :
              queue'[i].type = "put" /\ queue'[i].job = j /\ queue'[i].snap = x
        BY <3>1, Zenon DEF QueueCopy
      <4>2. i + 1 \in 2..Len(queue) /\ queue'[i] = queue[i + 1]
        BY <2>2, SMTT(60)
      <4> QED
        BY <4>1, <4>2, Zenon
    <3>2. ASSUME NEW j \in Jobs, NEW x \in Snapshot, WorkerCopy(j, x)'
          PROVE  queue[1].type = "put" /\ queue[1].job = j /\ queue[1].snap = x
      <4>1. Head(queue).type \in {"put", "delete", "shutdown"}
        BY <2>2, CommandFields, Zenon
      <4>2. worker'.pc \in {"put", "putdone"} /\ worker'.cmd.job = j /\ worker'.cmd.snap = x
        BY <3>2, Zenon DEF WorkerCopy, BusyPut
      <4>3. worker'.cmd = Head(queue) /\ Head(queue).type = "put"
        BY <1>1, <4>1, <4>2, SMTT(60) DEF WorkerReceive, Idle
      <4> QED
        BY <2>2, <4>2, <4>3, Zenon
    <3> QED
      BY <2>1, <3>1, <3>2, Zenon DEF RowCopy
  <2>5. WorkerLine'
    <3>1. ASSUME NEW j \in Jobs, NEW a \in Snapshot, NEW b \in Snapshot,
                 WorkerCopy(j, a)', QueueCopy(j, b)'
          PROVE  Precedes(a, b)
      <4>1. PICK k \in 2..Len(queue) : queue[k].type = "put" /\ queue[k].job = j /\ queue[k].snap = b
        BY <2>4, <3>1, Zenon
      <4>2. 1 \in 1..Len(queue) /\ k \in 1..Len(queue) /\ 1 < k
        BY <2>2, SMTT(60)
      <4> QED
        BY <2>4, <3>1, <4>1, <4>2, SMTT(60) DEF LineInv, QueueLine
    <3> QED
      BY <3>1, Zenon DEF WorkerLine
  <2>6. RowLine'
    <3>1. \A j \in Jobs, x \in Snapshot : WorkerCopy(j, x)' \/ QueueCopy(j, x)' => QueueCopy(j, x)
      <4>1. 1 \in 1..Len(queue) /\ \A k \in 2..Len(queue) : k \in 1..Len(queue)
        BY <2>2, SMTT(60)
      <4> QED
        BY <2>4, <4>1, SMTT(60) DEF QueueCopy
    <3> QED
      BY <2>4, <3>1, Zenon DEF LineInv, RowLine
  <2> QED
    BY <2>3, <2>5, <2>6, Zenon DEF LineInv
<1>2. CASE ~WorkerReceive
  <2>1. UNCHANGED queue
    BY <1>2, Zenon DEF WorkerStep, WorkerPut, WorkerRecordPut, WorkerDelete,
                WorkerRecordDelete, WorkerReply
  <2>2. QueueLine' /\ \A j \in Jobs, x \in Snapshot : QueueCopy(j, x)' = QueueCopy(j, x)
    BY <2>1, Zenon DEF LineInv, QueueLine, QueueCopy
  <2>3. \A j \in Jobs, x \in Snapshot :
          /\ WorkerCopy(j, x)' => WorkerCopy(j, x)
          /\ RowCopy(j, x)' => RowCopy(j, x) \/ WorkerCopy(j, x)
    <3>1. \A j \in Jobs, x \in Snapshot : WorkerCopy(j, x)' => WorkerCopy(j, x)
      <4>1. CASE WorkerPut \/ WorkerDelete
        <5>1. worker.pc \in {"put", "delete"}
          BY <4>1, Zenon DEF WorkerPut, WorkerDelete
        <5> QED
          BY <4>1, <5>1, BackendEffect, Zenon DEF WorkerCopy, BusyPut
      <4>2. CASE WorkerRecordDelete
        <5>1. worker.pc = "deletedone" /\ worker \in Busy
          BY <1>0, <4>2, WorkerFields, Zenon DEF WorkerRecordDelete, PersistenceTypeOK, WorkerPCs
        <5>2. worker'.pc = "reply"
          BY <4>2, <5>1, Zenon DEF WorkerRecordDelete, Busy
        <5> QED
          BY <5>2, Zenon DEF WorkerCopy, BusyPut
      <4>3. CASE WorkerRecordPut \/ WorkerReply
        BY <4>3, SMTT(60) DEF WorkerRecordPut, WorkerReply, Idle, WorkerCopy, BusyPut
      <4> QED
        BY <1>2, <4>1, <4>2, <4>3, Zenon DEF WorkerStep
    <3> QED
      BY <3>1, WorkerPasses, Zenon
  <2>4. WorkerLine'
    BY <2>2, <2>3, Zenon DEF LineInv, WorkerLine
  <2>5. RowLine'
    <3>1. ASSUME NEW j \in Jobs, NEW a \in Snapshot, NEW b \in Snapshot,
                 RowCopy(j, a)', WorkerCopy(j, b)' \/ QueueCopy(j, b)'
          PROVE  Precedes(a, b)
      <4>1. WorkerCopy(j, b) \/ QueueCopy(j, b)
        BY <2>2, <2>3, <3>1, Zenon
      <4>2. CASE RowCopy(j, a)
        BY <4>1, <4>2, Zenon DEF LineInv, RowLine
      <4>3. CASE WorkerCopy(j, a) /\ QueueCopy(j, b)
        BY <4>3, Zenon DEF LineInv, WorkerLine
      <4>4. CASE WorkerCopy(j, a) /\ WorkerCopy(j, b)
        BY <4>4, PrecedesReflexive, Zenon DEF WorkerCopy
      <4> QED
        BY <2>3, <3>1, <4>1, <4>2, <4>3, <4>4, Zenon
    <3> QED
      BY <3>1, Zenon DEF RowLine
  <2> QED
    BY <2>2, <2>4, <2>5, Zenon DEF LineInv
<1> QED
  BY <1>1, <1>2, Zenon

(* Frame: the line.                                                        *)
LEMMA LineFrame ==
  ASSUME LineInv, UNCHANGED <<rows, queue, worker>> PROVE LineInv'
<1>1. \A j, x : /\ RowCopy(j, x)' = RowCopy(j, x) /\ QueueCopy(j, x)' = QueueCopy(j, x)
                /\ WorkerCopy(j, x)' = WorkerCopy(j, x)
  BY CopyFrame, Zenon
<1> QED
  BY <1>1, Zenon DEF LineInv, QueueLine, WorkerLine, RowLine

(* A thread joins the line at the back, with the newest snapshot.          *)
LEMMA MoveLine ==
  ASSUME OwnerInv, NEW t \in Threads, Moves(t)
  PROVE  LineInv'
<1>0. CoreInv /\ Owned /\ LineInv /\ TypeInv /\ PersistenceOK /\ PersistenceTypeOK
  BY Zenon DEF OwnerInv, CoreInv, TypeInv, PersistenceOK
<1>1. CASE PersistPut(t) \/ PutSend(t)
  <2>1. /\ UNCHANGED <<rows, worker>> /\ thr[t] \in JobThread
        /\ \/ queue' = queue
           \/ \E r \in Receivers : Push(PutCmd(thr[t].job, thr[t].snap, r))
    BY <1>0, <1>1, PersistPutEffect, PutSendEffect, Zenon
  <2> QED
    BY <1>0, <2>1, LineFrame, PushLine, Zenon
<1>2. CASE PruneRequest(t) \/ PruneSend(t)
  <2>1. /\ UNCHANGED <<rows, worker>>
        /\ \/ queue' = queue
           \/ \E c \in Command : c.type = "delete" /\ Push(c)
    BY <1>0, <1>2, PruneRequestEffect, PruneSendEffect, Zenon
  <2> QED
    BY <1>0, <2>1, LineFrame, PushOtherLine, Zenon
<1>3. CASE PutReturned(t) \/ PruneReturned(t)
  BY <1>0, <1>3, PutReturnedEffect, PruneReturnedEffect, LineFrame, Zenon
<1>4. CASE Emit(t)
  BY <1>0, <1>4, LineFrame, Zenon DEF Emit, pvars
<1>5. CASE PruneTimeout(t)
  BY <1>0, <1>5, PruneTimeoutEffect, DropLine, Zenon
<1>6. CASE Remove(t)
  BY <1>0, <1>6, LineFrame, Zenon DEF Remove, pvars
<1>7. CASE Shuts(t)
  <2>1. /\ UNCHANGED rows
        /\ \/ UNCHANGED <<queue, worker>>
           \/ Push(ShutdownCmd(t)) /\ UNCHANGED worker
           \/ DropReceiver(t)
    BY <1>0, <1>7, ShutdownEffect, Zenon
  <2>2. ShutdownCmd(t) \in Command /\ ShutdownCmd(t).type = "shutdown"
    BY CommandTypes, Zenon DEF Receivers
  <2> QED
    BY <1>0, <2>1, <2>2, LineFrame, PushOtherLine, DropLine, Zenon
<1>8. CASE \E old \in SUBSET Jobs, confirm \in BOOLEAN : GcStale(t, old, confirm)
  BY <1>0, <1>8, LineFrame, Zenon DEF GcStale, pvars
<1>9. CASE \E j \in Jobs : Cancel(t, j)
  BY <1>0, <1>9, LineFrame, Zenon DEF Cancel, pvars
<1> QED
  BY <1>1, <1>2, <1>3, <1>4, <1>5, <1>6, <1>7, <1>8, <1>9, Zenon DEF Moves

(* What such a step does to the threads and to the map.                    *)
LEMMA MoveThreads ==
  ASSUME CoreInv, NEW t \in Threads, Moves(t)
  PROVE  /\ \A u \in Threads, j \in Jobs :
              WorkingOn(u, j)' => /\ WorkingOn(u, j) /\ thr'[u].snap = thr[u].snap
                                  /\ thr'[u].op = thr[u].op
         /\ \A j \in Jobs : jobs'[j] = jobs[j] \/ \A u \in Threads : ~WorkingOn(u, j)
<1>0. TypeInv
  BY Zenon DEF CoreInv
<1>1. ASSUME Keeps(t), Others(t)
      PROVE  \A u \in Threads, j \in Jobs :
               WorkingOn(u, j)' => /\ WorkingOn(u, j) /\ thr'[u].snap = thr[u].snap
                                   /\ thr'[u].op = thr[u].op
  BY <1>1, Zenon DEF Keeps, Others, WorkingOn
<1>2. CASE PersistPut(t) \/ PutSend(t) \/ PutReturned(t) \/ PruneRequest(t) \/ PruneSend(t)
           \/ PruneReturned(t) \/ PruneTimeout(t) \/ Shuts(t)
  <2>1. UNCHANGED jobs /\ Keeps(t) /\ Others(t)
    BY <1>0, <1>2, PersistPutEffect, PutSendEffect, PutReturnedEffect, PruneRequestEffect,
       PruneSendEffect, PruneReturnedEffect, PruneTimeoutEffect, ShutdownEffect, ZenonT(60) DEF managerVars
  <2> QED
    BY <1>1, <2>1, Zenon
<1>3. CASE Emit(t)
  <2>1. UNCHANGED jobs /\ Keeps(t) /\ Others(t)
    BY <1>0, <1>3, EmitEffect, WorkerIsUsed, Zenon DEF CoreInv, TypeInv
  <2> QED
    BY <1>1, <2>1, Zenon
<1>4. CASE Remove(t)
  <2>1. Keeps(t) /\ Others(t) /\ thr[t].pc \in PrunePCs
    BY <1>0, <1>4, RemoveEffect, Zenon DEF PrunePCs
  <2>2. thr[t].old \subseteq Jobs
    BY <1>0, <2>1, ThreadFields, Zenon DEF TypeInv, ThreadsOK
  <2>3. PICK j \in Jobs : jobs' = [jobs EXCEPT ![j] = Absent] /\ \A u \in Threads : ~WorkingOn(u, j)
    BY <1>4, <2>2, Zenon DEF Remove
  <2>4. \A k \in Jobs : jobs'[k] = jobs[k] \/ \A u \in Threads : ~WorkingOn(u, k)
    BY <1>0, <2>3, Zenon DEF TypeInv, ManagerOK
  <2> QED
    BY <1>1, <2>1, <2>4, Zenon
<1>5. CASE \E old \in SUBSET Jobs, confirm \in BOOLEAN : GcStale(t, old, confirm)
  <2>1. UNCHANGED jobs /\ Keeps(t) /\ Others(t)
    BY <1>0, <1>5, GcEffect, Zenon DEF managerVars
  <2> QED
    BY <1>1, <2>1, Zenon
<1>6. CASE \E j \in Jobs : Cancel(t, j)
  <2>1. UNCHANGED <<jobs, thr>>
    BY <1>0, <1>6, CancelEffect, Zenon
  <2> QED
    BY <2>1, Zenon DEF WorkingOn
<1> QED
  BY <1>2, <1>3, <1>4, <1>5, <1>6, Zenon DEF Moves

(* Every step keeps the line, if each job has one driver at a time.        *)
LEMMA OwnerStep ==
  ASSUME OwnerPerJob, OwnerInv, [Next]_vars
  PROVE  OwnerInv'
<1>0. CoreInv /\ Owned /\ LineInv /\ TypeInv /\ CoreInv' /\ Quiet
  BY CoreStep, Zenon DEF OwnerInv, CoreInv
<1>1. ASSUME NEW t \in Threads, NEW j \in Jobs, NEW s, UNCHANGED pvars,
             \A u \in Threads \ {t} : ~WorkingOn(u, j),
             jobs'[j] = s, s # Absent, \A k \in Jobs \ {j} : jobs'[k] = jobs[k],
             thr'[t].job = j, thr'[t].snap = s, \A u \in Threads \ {t} : thr'[u] = thr[u]
      PROVE  Owned' /\ LineInv'
  <2>1. LineInv'
    BY <1>0, <1>1, LineFrame, Zenon DEF pvars
  <2>2. ASSUME NEW u \in Threads, NEW k \in Jobs, WorkingOn(u, k)'
        PROVE  jobs'[k] # Absent /\ thr'[u].snap = jobs'[k]
    <3>1. CASE u = t
      BY <1>1, <2>2, <3>1, Zenon DEF WorkingOn
    <3>2. CASE u # t
      BY <1>0, <1>1, <2>2, <3>2, SMTT(60) DEF WorkingOn, Owned, Tracked
    <3> QED
      BY <3>1, <3>2, Zenon
  <2> QED
    BY <2>1, <2>2, Zenon DEF Owned, Tracked
<1>2. ASSUME NEW t \in Threads, NEW j \in Jobs, NEW parent \in Jobs, Create(t, j, parent)
      PROVE  Owned' /\ LineInv'
  <2>1. /\ UNCHANGED pvars /\ j \notin used
        /\ jobs'[j] = NewJob /\ \A k \in Jobs \ {j} : jobs'[k] = jobs[k]
        /\ thr'[t].job = j /\ thr'[t].snap = NewJob
        /\ \A u \in Threads \ {t} : thr'[u] = thr[u]
    BY <1>0, <1>2, CreateEffect, Zenon
  <2>2. \A u \in Threads \ {t} : ~WorkingOn(u, j)
    BY <1>0, <2>1, WorkerIsUsed, Zenon DEF CoreInv, TypeInv
  <2> QED
    BY <1>1, <2>1, <2>2, SnapshotTypes, Zenon
<1>3. ASSUME NEW t \in Threads, NEW j \in Jobs, Changes(t, j)
      PROVE  Owned' /\ LineInv'
  <2>1. PICK s \in Snapshot, op \in {"output", "update"} : Transition(t, j, op, s)
    BY <1>0, <1>3, ChangeEffect, Zenon
  <2>2. op \in JobOps
    BY Zenon DEF JobOps
  <2>3. /\ UNCHANGED pvars /\ jobs'[j] = s
        /\ \A k \in Jobs \ {j} : jobs'[k] = jobs[k]
        /\ thr'[t].job = j /\ thr'[t].snap = s
        /\ \A u \in Threads \ {t} : thr'[u] = thr[u]
    BY <1>0, <2>1, <2>2, TransitionEffect, Zenon
  <2>4. \A u \in Threads \ {t} : ~WorkingOn(u, j)
    BY <2>1, Zenon DEF Transition, MayMutate
  <2> QED
    BY <1>1, <2>3, <2>4, SnapshotTypes, Zenon
<1>4. ASSUME NEW t \in Threads, Moves(t) PROVE Owned' /\ LineInv'
  <2>1. LineInv'
    BY <1>4, MoveLine, Zenon
  <2>2. Owned'
    BY <1>0, <1>4, MoveThreads, SMTT(60) DEF Owned, Tracked
  <2> QED
    BY <2>1, <2>2, Zenon
<1>5. ASSUME Work PROVE Owned' /\ LineInv'
  <2>1. WorkerStep /\ UNCHANGED <<thr, jobs>>
    BY <1>0, <1>5, WorkEffect, Zenon
  <2> QED
    BY <1>0, <2>1, WorkLine, Zenon DEF TypeInv, Owned, WorkingOn, Tracked
<1>6. ASSUME queue' = <<>>, worker' = Idle, \A t \in Threads : thr'[t].pc = "idle"
      PROVE  Owned' /\ LineInv'
  <2>1. ~BusyPut'
    BY <1>6, Zenon DEF BusyPut, Idle
  <2>2. \A j, x : ~QueueCopy(j, x)' /\ ~WorkerCopy(j, x)'
    BY <1>6, <2>1, SMTT(60) DEF QueueCopy, WorkerCopy
  <2>3. Owned'
    BY <1>6, Zenon DEF Owned, WorkingOn, JobPCs
  <2> QED
    BY <1>6, <2>2, <2>3, SMTT(60) DEF LineInv, QueueLine, WorkerLine, RowLine
<1>7. ASSUME Crash PROVE Owned' /\ LineInv'
  BY <1>0, <1>6, <1>7, CrashEffect, Zenon
<1>8. ASSUME \/ \E old \in SUBSET Jobs : Restart(old)
             \/ RecoverList \/ Serve
             \/ \E j \in Jobs : RecoverRow(j)
      PROVE  Owned' /\ LineInv'
  <2>1. UNCHANGED <<queue, worker, thr>> /\ phase # "up"
    BY <1>8, Zenon DEF Restart, RecoverList, Serve, RecoverRow, pvars
  <2> QED
    BY <1>0, <1>6, <2>1, Zenon DEF Quiet
<1>9. ASSUME UNCHANGED vars PROVE Owned' /\ LineInv'
  BY <1>0, <1>9, LineFrame, Zenon DEF Owned, WorkingOn, Tracked, vars, pvars, mvars
<1>10. Owned' /\ LineInv'
  BY <1>2, <1>3, <1>4, <1>5, <1>7, <1>8, <1>9, NextCases, Zenon
<1> QED
  BY <1>0, <1>10, Zenon DEF OwnerInv

(* The line is empty at the start.                                         *)
LEMMA OwnerInit == ASSUME Init PROVE OwnerInv
<1>1. /\ queue = <<>> /\ ~BusyPut /\ \A t \in Threads : thr[t].pc = "idle"
  BY Zenon DEF Init, PersistenceInit, Idle, ThreadIdle, BusyPut
<1>2. \A j, x : ~QueueCopy(j, x) /\ ~WorkerCopy(j, x)
  BY <1>1, SMTT(60) DEF QueueCopy, WorkerCopy
<1> QED
  BY <1>1, <1>2, CoreInit, SMTT(60)
    DEF OwnerInv, LineInv, QueueLine, WorkerLine, RowLine, Owned, WorkingOn, JobPCs

(* A deletion of rows is a purge of the ledger.                            *)
LEMMA PruneIsPurge ==
  ASSUME NEW old, rows' = Prune(old)
  PROVE  Ledger!Next
<1> DEFINE gone == {j \in Jobs : j \in old /\ IsTerminal(rows[j])}
<1>1. \A j \in gone : Ledger!IsTerminal(rows[j])
  BY Zenon DEF IsTerminal, Ledger!IsTerminal, TerminalStatuses, Ledger!TerminalStatuses
<1>2. rows' = [j \in Jobs |-> IF j \in gone THEN Absent ELSE rows[j]]
  BY Zenon DEF Prune
<1>3. gone \in SUBSET Jobs /\ Ledger!Purge(gone)
  BY <1>1, <1>2, Zenon DEF Ledger!Purge, Absent, Ledger!Absent
<1> QED
  BY <1>3, Zenon DEF Ledger!Next

(* A row that moves forward is a record of the ledger.                     *)
LEMMA PutIsRecord ==
  ASSUME NEW j \in Jobs, NEW x \in Snapshot, rows' = [rows EXCEPT ![j] = x],
         rows[j] = Absent \/ Precedes(rows[j], x)
  PROVE  Ledger!Next
<1>1. Ledger!Record(j, x)
  BY Zenon DEF Ledger!Record, Precedes, Ledger!Precedes, Absent, Ledger!Absent, IsTerminal,
         Ledger!IsTerminal, TerminalStatuses, Ledger!TerminalStatuses
<1>2. x \in Ledger!Snapshot
  BY Zenon DEF Snapshot, Ledger!Snapshot, InFlight, Ledger!InFlight, TerminalStatuses,
         Ledger!TerminalStatuses
<1> QED
  BY <1>1, <1>2, Zenon DEF Ledger!Next

(* Every step is a step of the ledger, or changes no row.                  *)
LEMMA LedgerStep ==
  ASSUME OwnerInv, [Next]_vars
  PROVE  [Ledger!Next]_rows
<1>0. CoreInv /\ LineInv /\ TypeInv /\ PersistenceOK
      /\ rows \in [Jobs -> Snapshot \cup {Absent}]
  BY Zenon DEF OwnerInv, CoreInv, TypeInv, PersistenceOK, PersistenceTypeOK
<1>1. ASSUME Work PROVE [Ledger!Next]_rows
  <2>1. CASE WorkerPut
    <3>1. /\ worker.pc = "put" /\ BusyPut
          /\ \/ rows' = [rows EXCEPT ![worker.cmd.job] = worker.cmd.snap]
             \/ rows' = rows
      BY <2>1, Zenon DEF WorkerPut, BusyPut
    <3>2. worker.cmd.job \in Jobs /\ worker.cmd.snap \in Snapshot
      BY <1>0, <3>1, WorkerIsWriting, Zenon
    <3>3. rows[worker.cmd.job] = Absent \/ Precedes(rows[worker.cmd.job], worker.cmd.snap)
      BY <1>0, <3>1, <3>2, Zenon DEF LineInv, RowLine, RowCopy, WorkerCopy
    <3> QED
      BY <3>1, <3>2, <3>3, PutIsRecord, Zenon
  <2>2. CASE WorkerDelete
    BY <2>2, PruneIsPurge, Zenon DEF WorkerDelete
  <2>3. CASE ~WorkerPut /\ ~WorkerDelete
    BY <1>1, <2>3, Zenon DEF Work, WorkerStep, WorkerReceive, WorkerRecordPut, WorkerRecordDelete,
                      WorkerReply
  <2> QED
    BY <2>1, <2>2, <2>3, Zenon
<1>2. ASSUME NEW old \in SUBSET Jobs, Restart(old) PROVE [Ledger!Next]_rows
  BY <1>2, PruneIsPurge, Zenon DEF Restart
<1>3. ASSUME NEW j \in Jobs, RecoverRow(j) PROVE [Ledger!Next]_rows
  <2>1. rows[j] \in Snapshot
    BY <1>0, <1>3, Zenon DEF CoreInv, TodoInv, RecoverRow
  <2>2. rows' = [rows EXCEPT ![j] = Recovered(rows[j])] \/ rows' = rows
    BY <1>3, Zenon DEF RecoverRow
  <2> QED
    BY <2>1, <2>2, RecoveredForward, PutIsRecord, Zenon
<1>4. ASSUME \/ \E t \in Threads, j \in Jobs, parent \in Jobs : Create(t, j, parent)
             \/ \E t \in Threads : Moves(t)
      PROVE  rows' = rows
  <2>1. CASE \E t \in Threads, j \in Jobs, parent \in Jobs : Create(t, j, parent)
    BY <2>1, Zenon DEF Create, pvars
  <2>2. CASE \E t \in Threads : Moves(t)
    BY <1>0, <2>2, MoveEffect, Zenon DEF CoreInv
  <2> QED
    BY <1>4, <2>1, <2>2, Zenon
<1>5. ASSUME NEW t \in Threads, NEW j \in Jobs, Changes(t, j) PROVE rows' = rows
  BY <1>5, Zenon DEF Changes, UpdateProgress, SetOutput, Start, Complete, Fail, AcknowledgeCancel,
              Transition, pvars
<1>6. ASSUME Crash \/ RecoverList \/ Serve \/ UNCHANGED vars PROVE rows' = rows
  BY <1>6, Zenon DEF Crash, RecoverList, Serve, vars, pvars
<1> QED
  BY <1>1, <1>2, <1>3, <1>4, <1>5, <1>6, NextCases, Zenon

(* The rows implement module JobLedger: through crashes, failed writes,    *)
(* disabled periods, purges and recovery a row only ever moves forward in  *)
(* the life cycle of its job, disappears only when the job is over, and    *)
(* returns only as a new record; for every number of jobs and threads,     *)
(* when each job is driven by one owner at a time.                         *)
THEOREM RowsImplementLedger == ASSUME OwnerPerJob PROVE Spec => RowsFollowLedger
<1>1. Init => Ledger!Init
  BY Zenon DEF Init, PersistenceInit, Ledger!Init, Absent, Ledger!Absent
<1>2. OwnerInv /\ [Next]_vars => OwnerInv'
  BY OwnerStep, Zenon
<1>3. OwnerInv /\ [Next]_vars => [Ledger!Next]_rows
  BY LedgerStep, Zenon
<1>4. Init => OwnerInv
  BY OwnerInit, Zenon
<1> QED
  BY <1>1, <1>2, <1>3, <1>4, PTL DEF Spec, RowsFollowLedger, Ledger!Spec

-----------------------------------------------------------------------------
(* Events never run ahead of the map, and recovery starts from none.       *)
SeenBehind ==
  \A j \in Jobs : seen[j] # Absent =>
    /\ j \in used /\ phase \in {"recovering", "up"} /\ j \notin todo
    /\ Tracked(j) => Precedes(seen[j], jobs[j])

EventInv == OwnerInv /\ SeenBehind

InOrder(j) == seen[j] # Absent /\ seen'[j] # Absent => Precedes(seen[j], seen'[j])

(* Only Emit announces.                                                    *)
LEMMA MoveSeen ==
  ASSUME NEW t \in Threads, Moves(t) PROVE Emit(t) \/ UNCHANGED seen
BY Zenon DEF Moves, PersistPut, PutSend, PutReturned, PruneRequest, PruneSend, PruneReturned,
       PruneTimeout, Remove, Shuts, Shutdown, ShutdownMark, ShutdownEnd, ShutdownDisable,
       ShutdownClose, GcStale, Cancel

(* Announcing nothing keeps the order.                                     *)
LEMMA SeenSame ==
  ASSUME EventInv, UNCHANGED seen PROVE \A j \in Jobs : InOrder(j)
<1>1. seen \in [Jobs -> Snapshot \cup {Absent}]
  BY Zenon DEF EventInv, OwnerInv, CoreInv, TypeInv, ManagerOK
<1> QED
  BY <1>1, PrecedesReflexive, Zenon DEF InOrder

(* The steps that leave seen, used and todo alone and never take a job     *)
(* back.                                                                   *)
LEMMA SeenFrame ==
  ASSUME EventInv, TypeInv', UNCHANGED <<seen, todo>>, used \subseteq used',
         phase' = phase \/ phase' = "up",
         \A j \in Jobs : \/ jobs'[j] = Absent \/ j \notin used
                         \/ jobs[j] # Absent /\ Precedes(jobs[j], jobs'[j])
  PROVE  SeenBehind'
<1>1. ASSUME NEW j \in Jobs, seen[j] # Absent, jobs'[j] # Absent
      PROVE  Precedes(seen[j], jobs'[j])
  <2>1. j \in used /\ jobs[j] # Absent /\ Precedes(jobs[j], jobs'[j])
    BY <1>1, Zenon DEF EventInv, SeenBehind
  <2>2. Precedes(seen[j], jobs[j])
    BY <1>1, <2>1, Zenon DEF EventInv, SeenBehind, Tracked
  <2>3. seen[j] \in Snapshot /\ jobs[j] \in Snapshot /\ jobs'[j] \in Snapshot
    BY <1>1, <2>1, Zenon DEF EventInv, OwnerInv, CoreInv, TypeInv, ManagerOK
  <2> QED
    BY <2>1, <2>2, <2>3, PrecedesTransitive, Zenon
<1>2. ASSUME NEW j \in Jobs, seen[j] # Absent
      PROVE  j \in used' /\ phase' \in {"recovering", "up"} /\ j \notin todo'
  BY <1>2, Zenon DEF EventInv, SeenBehind
<1> QED
  BY <1>1, <1>2, Zenon DEF SeenBehind, Tracked

(* An emitted event follows the ones before it.                            *)
LEMMA EmitOrder ==
  ASSUME EventInv, NEW t \in Threads, Emit(t)
  PROVE  SeenBehind' /\ \A j \in Jobs : InOrder(j)
<1>0. TypeInv /\ Quiet /\ TodoInv /\ Fresh /\ Owned /\ SeenBehind
  BY Zenon DEF EventInv, OwnerInv, CoreInv
<1> DEFINE h == thr[t].job
<1>1. /\ TypeInv' /\ UNCHANGED <<phase, jobs, used, todo>>
      /\ thr[t].pc = "emit" /\ thr[t] \in JobThread
      /\ seen'[h] = thr[t].snap /\ \A j \in Jobs \ {h} : seen'[j] = seen[j]
  BY <1>0, EmitEffect, WorkerIsUsed, Zenon DEF TypeInv
<1>2. /\ h \in Jobs /\ WorkingOn(t, h) /\ phase = "up"
  BY <1>0, <1>1, ThreadKinds, Zenon DEF WorkingOn, Quiet
<1>3. /\ thr[t].snap = jobs[h] /\ Tracked(h) /\ h \in used /\ todo = {}
      /\ jobs[h] \in Snapshot
  BY <1>0, <1>2, WorkerIsUsed, Zenon DEF Owned, TodoInv, TypeInv, ManagerOK, Tracked
<1>4. Precedes(jobs[h], jobs[h])
  BY <1>3, PrecedesReflexive, Zenon
<1> HIDE DEF h
<1>5. SeenBehind'
  BY <1>0, <1>1, <1>2, <1>3, <1>4, Zenon DEF SeenBehind, Tracked
<1>6. ASSUME NEW j \in Jobs PROVE InOrder(j)
  <2>1. CASE j = h
    BY <1>0, <1>1, <1>3, <2>1, Zenon DEF InOrder, SeenBehind, h
  <2>2. CASE j # h
    <3>1. seen[j] # Absent => seen[j] \in Snapshot
      BY <1>0, Zenon DEF TypeInv, ManagerOK
    <3> QED
      BY <1>1, <2>2, <3>1, PrecedesReflexive, Zenon DEF InOrder
  <2> QED
    BY <2>1, <2>2, Zenon
<1> QED
  BY <1>5, <1>6, Zenon

(* Recovery announces a job nobody heard of since the crash.               *)
LEMMA RecoverOrder ==
  ASSUME EventInv, NEW j \in Jobs, RecoverRow(j)
  PROVE  SeenBehind' /\ \A k \in Jobs : InOrder(k)
<1>0. TypeInv /\ Fresh /\ SeenBehind /\ rows[j] # Absent /\ rows[j] \in Snapshot
  BY Zenon DEF EventInv, OwnerInv, CoreInv, TodoInv, RecoverRow, TypeInv, PersistenceOK,
         PersistenceTypeOK
<1>1. /\ TypeInv' /\ phase = "recovering" /\ j \in todo
      /\ \/ /\ todo' = todo \ {j} /\ jobs'[j] = Recovered(rows[j])
            /\ seen'[j] \in {seen[j], Recovered(rows[j])}
            /\ \A k \in Jobs \ {j} : jobs'[k] = jobs[k] /\ seen'[k] = seen[k]
         \/ todo' = {} /\ UNCHANGED <<jobs, seen>>
      /\ UNCHANGED <<phase, used>>
  BY <1>0, RecoverRowEffect, Zenon
<1>2. seen[j] = Absent
  BY <1>0, <1>1, Zenon DEF SeenBehind
<1>3. j \in used
  BY <1>0, Zenon DEF Fresh, Copy, RowCopy
<1>4. Recovered(rows[j]) \in Snapshot /\ Precedes(Recovered(rows[j]), Recovered(rows[j]))
  BY <1>0, RecoveredForward, PrecedesReflexive, Zenon
<1>5. SeenBehind'
  BY <1>0, <1>1, <1>2, <1>3, <1>4, Zenon DEF SeenBehind, Tracked
<1>6. \A k \in Jobs : seen'[k] = seen[k] \/ seen[k] = Absent
  BY <1>1, <1>2, Zenon
<1>7. \A k \in Jobs : seen[k] # Absent => Precedes(seen[k], seen[k])
  BY <1>0, PrecedesReflexive, Zenon DEF TypeInv, ManagerOK
<1> QED
  BY <1>5, <1>6, <1>7, Zenon DEF InOrder

(* Every step keeps subscribers behind the map and tells them nothing      *)
(* older than what they know.                                              *)
LEMMA EventStep ==
  ASSUME OwnerPerJob, EventInv, [Next]_vars
  PROVE  EventInv' /\ \A j \in Jobs : InOrder(j)
<1>0. /\ OwnerInv /\ OwnerInv' /\ CoreInv /\ TypeInv /\ TypeInv' /\ SeenBehind
      /\ jobs \in [Jobs -> Snapshot \cup {Absent}]
  BY OwnerStep, Zenon DEF EventInv, OwnerInv, CoreInv, TypeInv, ManagerOK
<1>1. \A j \in Jobs : jobs[j] # Absent => Precedes(jobs[j], jobs[j])
  BY <1>0, PrecedesReflexive, Zenon
<1>2. ASSUME NEW t \in Threads, NEW j \in Jobs, NEW parent \in Jobs, Create(t, j, parent)
      PROVE  SeenBehind' /\ UNCHANGED seen
  <2>1. /\ UNCHANGED <<phase, seen, todo>> /\ j \notin used /\ used' = used \cup {j}
        /\ \A k \in Jobs \ {j} : jobs'[k] = jobs[k]
    BY <1>0, <1>2, CreateEffect, Zenon
  <2> QED
    BY <1>0, <1>1, <2>1, SeenFrame, Zenon
<1>3. ASSUME NEW t \in Threads, NEW j \in Jobs, Changes(t, j)
      PROVE  SeenBehind' /\ UNCHANGED seen
  <2>1. PICK s \in Snapshot, op \in {"output", "update"} :
          Transition(t, j, op, s) /\ Precedes(jobs[j], s)
    BY <1>0, <1>3, ChangeEffect, Zenon
  <2>2. op \in JobOps
    BY Zenon DEF JobOps
  <2>3. /\ UNCHANGED <<phase, used, seen, todo>> /\ jobs[j] # Absent /\ jobs'[j] = s
        /\ \A k \in Jobs \ {j} : jobs'[k] = jobs[k]
    BY <1>0, <2>1, <2>2, TransitionEffect, ZenonT(60)
  <2> QED
    BY <1>0, <1>1, <2>1, <2>3, SeenFrame, Zenon
<1>4. ASSUME NEW t \in Threads, Moves(t), UNCHANGED seen PROVE SeenBehind'
  <2>1. /\ UNCHANGED <<phase, used, todo>> /\ \A j \in Jobs : jobs'[j] \in {jobs[j], Absent}
    BY <1>0, <1>4, MoveEffect, Zenon DEF CoreInv
  <2> QED
    BY <1>0, <1>1, <1>4, <2>1, SeenFrame, Zenon
<1>5. ASSUME Work PROVE SeenBehind' /\ UNCHANGED seen
  <2>1. UNCHANGED <<phase, used, todo, jobs, seen>>
    BY <1>0, <1>5, WorkEffect, Zenon
  <2> QED
    BY <1>0, <1>1, <2>1, SeenFrame, Zenon
<1>6. ASSUME Crash PROVE SeenBehind' /\ \A j \in Jobs : InOrder(j)
  BY <1>0, <1>6, CrashEffect, Zenon DEF SeenBehind, InOrder
<1>7. ASSUME \/ \E old \in SUBSET Jobs : Restart(old)
             \/ RecoverList
      PROVE  SeenBehind' /\ UNCHANGED seen
  <2>1. UNCHANGED seen /\ phase \in {"down", "starting"}
    BY <1>7, Zenon DEF Restart, RecoverList
  <2> QED
    BY <1>0, <2>1, Zenon DEF SeenBehind
<1>8. ASSUME Serve \/ UNCHANGED vars PROVE SeenBehind' /\ UNCHANGED seen
  <2>1. UNCHANGED <<seen, todo, jobs, used>> /\ (phase' = phase \/ phase' = "up")
    BY <1>8, Zenon DEF Serve, vars, mvars
  <2> QED
    BY <1>0, <1>1, <2>1, SeenFrame, Zenon
<1>9. SeenBehind' /\ \A j \in Jobs : InOrder(j)
  BY <1>2, <1>3, <1>4, <1>5, <1>6, <1>7, <1>8, NextCases, SeenSame, MoveSeen, EmitOrder,
     RecoverOrder, ZenonT(60)
<1> QED
  BY <1>0, <1>9, Zenon DEF EventInv

(* Nothing was announced at the start.                                     *)
LEMMA EventInit == ASSUME Init PROVE EventInv
BY OwnerInit, Zenon DEF EventInv, SeenBehind, Init

(* Subscribers see the states of a job in the order of its life cycle: an  *)
(* event never takes a job back, with one owner per job, whether the       *)
(* writes wait or not.                                                     *)
THEOREM EventsStayInOrder == ASSUME OwnerPerJob PROVE Spec => EventsInOrder
<1>1. EventInv /\ [Next]_vars => EventInv'
  BY EventStep, Zenon
<1>2. EventInv /\ [Next]_vars =>
        [\A j \in Jobs :
           seen[j] # Absent /\ seen'[j] # Absent => Precedes(seen[j], seen'[j])]_vars
  BY EventStep, Zenon DEF InOrder
<1>3. Init => EventInv
  BY EventInit, Zenon
<1> QED
  BY <1>1, <1>2, <1>3, PTL DEF Spec, EventsInOrder

-----------------------------------------------------------------------------
(* A manager whose writes wait, over a backend that does not fail, without *)
(* the calls that close persistence or give up on it.                      *)
WaitingWrites ==
  /\ Modes = {TRUE} /\ OwnerPerJob /\ Errors = {}
  /\ Ops \cap {"cleanup", "timeout", "shutdown"} = {}

SyncMode ==
  /\ sync = TRUE /\ open = TRUE /\ closing = FALSE /\ circuit = Configured
  /\ \A t \in Threads : /\ thr[t].pc \notin DrainPCs
                        /\ thr[t].pc \in PrunePCs => thr[t].confirm = FALSE

(* A command on its way has its own thread waiting for the answer.         *)
Reserved(c) ==
  /\ c.to \in Threads /\ reply[c.to] = "queued"
  /\ \/ /\ c.type = "put" /\ thr[c.to].pc = "wait"
        /\ thr[c.to].job = c.job /\ thr[c.to].snap = c.snap
     \/ c.type = "delete" /\ thr[c.to].pc = "pruneWait"

QueueSync ==
  /\ \A i \in 1..Len(queue) : Reserved(queue[i])
  /\ \A i, k \in 1..Len(queue) : i # k => queue[i].to # queue[k].to

WorkerSync ==
  /\ worker.pc # "exited"
  /\ worker.pc \in WorkerPCs =>
       /\ Reserved(worker.cmd) /\ worker.result = NoError
       /\ \A i \in 1..Len(queue) : queue[i].to # worker.cmd.to
  /\ worker.pc = "putdone" => rows[worker.cmd.job] = worker.cmd.snap

PipeInv == SyncMode /\ QueueSync /\ WorkerSync

(* Nothing on its way is addressed to t.                                   *)
Unreserved(t) == thr[t].pc \notin {"wait", "pruneWait"} \/ reply[t] # "queued"

(* A reservation outlives the steps of other threads.                      *)
LEMMA ReservedFrame ==
  ASSUME NEW t \in Threads, Unreserved(t), NEW c, Reserved(c), Others(t),
         \A u \in Threads \ {t} : reply'[u] = reply[u]
  PROVE  c.to \in Threads \ {t} /\ Reserved(c)'
<1>1. c.to \in Threads \ {t}
  BY Zenon DEF Reserved, Unreserved
<1> QED
  BY <1>1, Zenon DEF Reserved, Others

(* A step of a thread that nothing is on its way to, which pushes nothing. *)
LEMMA PipeThread ==
  ASSUME PipeInv, NEW t \in Threads, Unreserved(t), Others(t),
         \A u \in Threads \ {t} : reply'[u] = reply[u],
         UNCHANGED <<rows, queue, worker, sync, open, closing, circuit>>,
         thr'[t].pc \notin DrainPCs, thr'[t].pc \in PrunePCs => thr'[t].confirm = FALSE
  PROVE  PipeInv'
<1>1. SyncMode'
  BY Zenon DEF PipeInv, SyncMode, Others
<1>2. \A c : Reserved(c) => Reserved(c)'
  BY ReservedFrame, Zenon
<1>3. QueueSync'
  BY <1>2, Zenon DEF PipeInv, QueueSync
<1>4. WorkerSync'
  BY <1>2, Zenon DEF PipeInv, WorkerSync
<1> QED
  BY <1>1, <1>3, <1>4, Zenon DEF PipeInv

(* A push by a thread that waits for nothing reserves the thread.          *)
LEMMA PipePush ==
  ASSUME PersistenceTypeOK, PipeInv, NEW t \in Threads, Unreserved(t), Others(t),
         NEW c \in Command, c.to = t, Push(c),
         UNCHANGED <<rows, worker, sync, open, closing, circuit>>,
         \/ /\ c.type = "put" /\ thr'[t].pc = "wait"
            /\ thr'[t].job = c.job /\ thr'[t].snap = c.snap
         \/ c.type = "delete" /\ thr'[t].pc = "pruneWait" /\ thr'[t].confirm = FALSE
  PROVE  PipeInv' /\ reply' = [reply EXCEPT ![t] = "queued"]
<1>1. reply' = [reply EXCEPT ![t] = "queued"]
  BY ThreadAssumption, Zenon DEF Push
<1>2. /\ reply'[t] = "queued" /\ \A u \in Threads \ {t} : reply'[u] = reply[u]
  BY <1>1, Zenon DEF PersistenceTypeOK
<1>3. \A d : Reserved(d) => d.to \in Threads \ {t} /\ Reserved(d)'
  BY <1>2, ReservedFrame, Zenon
<1>4. Reserved(c)'
  BY <1>2, Zenon DEF Reserved
<1>5. /\ Len(queue) \in Nat /\ Len(queue') = Len(queue) + 1
      /\ \A k \in 1..Len(queue) : queue'[k] = queue[k]
      /\ queue'[Len(queue) + 1] = c
  BY PushEffect, SMTT(60) DEF PersistenceTypeOK
<1>6. \A k \in 1..Len(queue') : k \in 1..Len(queue) \/ k = Len(queue) + 1
  BY <1>5, SMTT(60)
<1>7. QueueSync'
  <2>1. (\A k \in 1..Len(queue) : Reserved(queue[k]))'
    BY <1>3, <1>4, <1>5, <1>6, Zenon DEF PipeInv, QueueSync
  <2>2. \A i, k \in 1..Len(queue') : i # k => queue'[i].to # queue'[k].to
    <3>1. \A i \in 1..Len(queue) : queue[i].to # t
      BY <1>3, Zenon DEF PipeInv, QueueSync
    <3> QED
      BY <1>5, <1>6, <3>1, Zenon DEF PipeInv, QueueSync
  <2> QED
    BY <2>1, <2>2, Zenon DEF QueueSync
<1>8. WorkerSync'
  <2>1. worker.pc \in WorkerPCs => worker.cmd.to # t /\ Reserved(worker.cmd)'
    BY <1>3, Zenon DEF PipeInv, WorkerSync
  <2> QED
    BY <1>5, <1>6, <2>1, Zenon DEF PipeInv, WorkerSync
<1>9. SyncMode'
  <2>1. thr'[t].pc \notin DrainPCs /\ (thr'[t].pc \in PrunePCs => thr'[t].confirm = FALSE)
    BY Zenon DEF DrainPCs, PrunePCs
  <2> QED
    BY <2>1, Zenon DEF PipeInv, SyncMode, Others
<1> QED
  BY <1>1, <1>7, <1>8, <1>9, Zenon DEF PipeInv

(* A purge keeps its arguments from step to step.                          *)
LEMMA PruneGoto ==
  ASSUME ThreadsOK, NEW t \in Threads, thr[t].pc \in PrunePCs,
         NEW pc \in PrunePCs, Goto(t, pc)
  PROVE  thr'[t].pc = pc /\ thr'[t].old = thr[t].old /\ thr'[t].confirm = thr[t].confirm
<1>1. thr[t] \in PruneThread
  BY ThreadFields, Zenon DEF ThreadsOK
<1>2. thr'[t] = [thr[t] EXCEPT !.pc = pc]
  BY Zenon DEF Goto, ThreadsOK
<1> QED
  BY <1>1, <1>2, Zenon DEF PruneThread

(* In this configuration a put is sent or blocks; it is never skipped or   *)
(* dropped.                                                                *)
LEMMA SyncPut ==
  ASSUME TypeInv, SyncMode, NEW t \in Threads, PersistPut(t)
  PROVE  /\ UNCHANGED <<rows, open, worker, closing, sync, circuit>>
         /\ \/ Push(PutCmd(thr[t].job, thr[t].snap, t)) /\ thr'[t].pc = "wait"
            \/ UNCHANGED <<queue, reply>> /\ thr'[t].pc = "send"
<1>1. CanWrite(circuit) /\ sync /\ ~closing
  BY Zenon DEF SyncMode, CanWrite, Configured
<1>2. thr[t].pc \in JobPCs
  BY Zenon DEF PersistPut, JobPCs
<1>3. \A pc \in JobPCs : Goto(t, pc) => thr'[t].pc = pc
  BY <1>2, GotoMove, Zenon DEF TypeInv
<1>4. "wait" \in JobPCs /\ "send" \in JobPCs
  BY Zenon DEF JobPCs
<1>5. \/ Put(t, thr[t].job, thr[t].snap, "sent") /\ Goto(t, "wait")
      \/ Put(t, thr[t].job, thr[t].snap, "blocked") /\ Goto(t, "send")
  BY <1>1, Zenon DEF PersistPut, Put, Enqueue
<1> QED
  BY <1>1, <1>3, <1>4, <1>5, Zenon DEF Put, Enqueue

(* Neither is a purge.                                                     *)
LEMMA SyncPrune ==
  ASSUME TypeInv, SyncMode, NEW t \in Threads, PruneRequest(t)
  PROVE  /\ UNCHANGED <<rows, open, worker, closing, sync, circuit>>
         /\ thr'[t].old = thr[t].old /\ thr'[t].confirm = FALSE
         /\ \/ Push(DeleteCmd(thr[t].old, t)) /\ thr'[t].pc = "pruneWait"
            \/ UNCHANGED <<queue, reply>> /\ thr'[t].pc = "pruneSend"
<1>1. CanWrite(circuit) /\ sync /\ ~closing
  BY Zenon DEF SyncMode, CanWrite, Configured
<1>2. thr[t].pc \in PrunePCs /\ thr[t].confirm = FALSE
  BY Zenon DEF PruneRequest, PrunePCs, SyncMode
<1>3. \A pc \in PrunePCs : Goto(t, pc) => /\ thr'[t].pc = pc /\ thr'[t].old = thr[t].old
                                         /\ thr'[t].confirm = FALSE
  BY <1>2, PruneGoto, Zenon DEF TypeInv
<1>4. "pruneWait" \in PrunePCs /\ "pruneSend" \in PrunePCs
  BY Zenon DEF PrunePCs
<1>5. \/ Prune1(t, "sent") /\ Goto(t, "pruneWait")
      \/ Prune1(t, "blocked") /\ Goto(t, "pruneSend")
  BY <1>1, <1>2, Zenon DEF PruneRequest, Prune1, DeleteOlderThan, Enqueue
<1> QED
  BY <1>1, <1>2, <1>3, <1>4, <1>5, Zenon DEF Prune1, DeleteOlderThan, Enqueue

(* The threads' steps of this configuration.                               *)
SyncMoves(t) ==
  \/ PersistPut(t) \/ PutSend(t) \/ PutReturned(t) \/ Emit(t)
  \/ PruneRequest(t) \/ PruneSend(t) \/ PruneReturned(t) \/ Remove(t)
  \/ \E old \in SUBSET Jobs : GcStale(t, old, FALSE)
  \/ \E j \in Jobs : Cancel(t, j)

(* The steps of this configuration.                                        *)
LEMMA SyncCases ==
  ASSUME WaitingWrites, SyncMode, Next
  PROVE  \/ \E t \in Threads, j \in Jobs, parent \in Jobs : Create(t, j, parent)
         \/ \E t \in Threads, j \in Jobs : Changes(t, j)
         \/ \E t \in Threads : SyncMoves(t)
         \/ Work \/ Crash
         \/ \E old \in SUBSET Jobs : Restart(old)
         \/ RecoverList
         \/ \E j \in Jobs : RecoverRow(j)
         \/ Serve
<1>0. "cleanup" \notin Ops /\ "timeout" \notin Ops /\ "shutdown" \notin Ops
  BY Zenon DEF WaitingWrites
<1>1. ASSUME NEW t \in Threads, Call(t)
      PROVE  \/ \E j \in Jobs, parent \in Jobs : Create(t, j, parent)
             \/ \E j \in Jobs : Changes(t, j)
             \/ SyncMoves(t)
  BY <1>0, <1>1, Zenon DEF Call, Changes, SyncMoves
<1>2. ASSUME NEW t \in Threads
      PROVE  /\ ~ShutdownMark(t) /\ ~ShutdownDisable(t) /\ ~ShutdownClose(t)
             /\ ~ShutdownEnd(t, TRUE) /\ ~ShutdownEnd(t, FALSE)
  BY Zenon DEF SyncMode, DrainPCs, ShutdownMark, ShutdownDisable, ShutdownClose, ShutdownEnd
<1>3. ASSUME NEW t \in Threads, Continue(t) \/ Timeout(t) PROVE SyncMoves(t)
  BY <1>0, <1>2, <1>3, Zenon DEF Continue, Timeout, SyncMoves
<1>4. ASSUME Process
      PROVE  \/ Crash \/ RecoverList \/ Serve
             \/ \E old \in SUBSET Jobs : Restart(old)
             \/ \E j \in Jobs : RecoverRow(j)
  BY <1>4, Zenon DEF Process
<1> QED
  BY <1>1, <1>3, <1>4, Zenon DEF Next

(* They are among the threads' steps in general.                           *)
LEMMA SyncMovesAreMoves == ASSUME NEW t \in Threads, SyncMoves(t) PROVE Moves(t)
BY Zenon DEF SyncMoves, Moves

(* A step of a thread keeps each command paired with its waiter.           *)
LEMMA PipeMove ==
  ASSUME CoreInv, PipeInv, NEW t \in Threads, SyncMoves(t)
  PROVE  PipeInv'
<1>0. TypeInv /\ PersistenceTypeOK /\ ThreadsOK /\ SyncMode /\ Fresh
  BY Zenon DEF CoreInv, TypeInv, PersistenceOK, PipeInv
<1>1. CASE PersistPut(t)
  <2>1. /\ UNCHANGED <<rows, open, worker, closing, sync, circuit>>
        /\ \/ Push(PutCmd(thr[t].job, thr[t].snap, t)) /\ thr'[t].pc = "wait"
           \/ UNCHANGED <<queue, reply>> /\ thr'[t].pc = "send"
    BY <1>0, <1>1, SyncPut, Zenon
  <2>2. thr[t].pc = "put" /\ thr[t] \in JobThread /\ Keeps(t) /\ Others(t)
    BY <1>0, <1>1, PersistPutEffect, Zenon
  <2>3. Unreserved(t)
    BY <2>2, Zenon DEF Unreserved
  <2>4. CASE Push(PutCmd(thr[t].job, thr[t].snap, t)) /\ thr'[t].pc = "wait"
    <3> DEFINE c == PutCmd(thr[t].job, thr[t].snap, t)
    <3>1. /\ c \in Command /\ c.type = "put" /\ c.to = t
          /\ c.job = thr[t].job /\ c.snap = thr[t].snap
      BY <2>2, ThreadKinds, CommandTypes, SMTT(60) DEF Receivers
    <3>2. thr'[t].job = c.job /\ thr'[t].snap = c.snap
      BY <2>2, <2>4, <3>1, Zenon DEF Keeps, JobPCs
    <3> HIDE DEF c
    <3> QED
      BY <1>0, <2>1, <2>2, <2>3, <2>4, <3>1, <3>2, PipePush, ZenonT(60) DEF c
  <2>5. CASE UNCHANGED <<queue, reply>> /\ thr'[t].pc = "send"
    <3>1. thr'[t].pc \notin DrainPCs /\ thr'[t].pc \notin PrunePCs
      BY <2>5, Zenon DEF DrainPCs, PrunePCs
    <3> QED
      BY <2>1, <2>2, <2>3, <2>5, <3>1, PipeThread, ZenonT(60)
  <2> QED
    BY <2>1, <2>4, <2>5, Zenon
<1>2. CASE PutSend(t)
  <2>1. /\ UNCHANGED <<rows, open, circuit, worker, closing, sync>>
        /\ thr[t].pc = "send" /\ thr[t] \in JobThread
        /\ Keeps(t) /\ Others(t) /\ thr'[t].pc = "wait"
    BY <1>0, <1>2, PutSendEffect, Zenon
  <2>2. Push(PutCmd(thr[t].job, thr[t].snap, t))
    BY <1>2, Zenon DEF PutSend, SendBlocked
  <2>3. Unreserved(t)
    BY <2>1, Zenon DEF Unreserved
  <2> DEFINE c == PutCmd(thr[t].job, thr[t].snap, t)
  <2>4. /\ c \in Command /\ c.type = "put" /\ c.to = t
        /\ c.job = thr[t].job /\ c.snap = thr[t].snap
    BY <2>1, ThreadKinds, CommandTypes, SMTT(60) DEF Receivers
  <2>5. thr'[t].job = c.job /\ thr'[t].snap = c.snap
    BY <2>1, <2>4, Zenon DEF Keeps, JobPCs
  <2> HIDE DEF c
  <2> QED
    BY <1>0, <2>1, <2>2, <2>3, <2>4, <2>5, PipePush, ZenonT(60) DEF c
<1>3. CASE PruneRequest(t)
  <2>1. /\ UNCHANGED <<rows, open, worker, closing, sync, circuit>>
        /\ thr'[t].confirm = FALSE
        /\ \/ Push(DeleteCmd(thr[t].old, t)) /\ thr'[t].pc = "pruneWait"
           \/ UNCHANGED <<queue, reply>> /\ thr'[t].pc = "pruneSend"
    BY <1>0, <1>3, SyncPrune, Zenon
  <2>2. thr[t].pc = "prune" /\ Others(t)
    BY <1>0, <1>3, PruneRequestEffect, Zenon
  <2>3. Unreserved(t) /\ thr[t].old \in SUBSET Jobs
    BY <1>0, <2>2, ThreadFields, Zenon DEF Unreserved, ThreadsOK, PrunePCs
  <2>4. CASE Push(DeleteCmd(thr[t].old, t)) /\ thr'[t].pc = "pruneWait"
    <3> DEFINE c == DeleteCmd(thr[t].old, t)
    <3>1. c \in Command /\ c.type = "delete" /\ c.to = t
      BY <2>3, CommandTypes, ZenonT(60) DEF Receivers
    <3> HIDE DEF c
    <3> QED
      BY <1>0, <2>1, <2>2, <2>3, <2>4, <3>1, PipePush, ZenonT(60) DEF c
  <2>5. CASE UNCHANGED <<queue, reply>> /\ thr'[t].pc = "pruneSend"
    <3>1. thr'[t].pc \notin DrainPCs
      BY <2>5, Zenon DEF DrainPCs
    <3> QED
      BY <2>1, <2>2, <2>3, <2>5, <3>1, PipeThread, Zenon
  <2> QED
    BY <2>1, <2>4, <2>5, Zenon
<1>4. CASE PruneSend(t)
  <2>1. /\ UNCHANGED <<rows, open, circuit, worker, closing, sync>>
        /\ thr[t].pc = "pruneSend" /\ Others(t) /\ thr'[t].pc = "pruneWait"
    BY <1>0, <1>4, PruneSendEffect, Zenon
  <2>2. Push(DeleteCmd(thr[t].old, t)) /\ Goto(t, "pruneWait")
    BY <1>4, Zenon DEF PruneSend, SendBlocked
  <2>3. Unreserved(t) /\ thr[t].old \in SUBSET Jobs /\ thr[t].confirm = FALSE
    BY <1>0, <2>1, ThreadFields, Zenon DEF Unreserved, ThreadsOK, PrunePCs, SyncMode
  <2>4. thr'[t].confirm = FALSE
    BY <1>0, <2>1, <2>2, <2>3, PruneGoto, ZenonT(60) DEF PrunePCs
  <2> DEFINE c == DeleteCmd(thr[t].old, t)
  <2>5. c \in Command /\ c.type = "delete" /\ c.to = t
    <3>1. t \in Receivers
      BY Zenon DEF Receivers
    <3>2. thr[t].old \in SUBSET Jobs
      BY <2>3, Zenon
    <3> QED
      BY <3>1, <3>2, CommandTypes, ZenonT(60)
  <2> HIDE DEF c
  <2> QED
    BY <1>0, <2>1, <2>2, <2>3, <2>4, <2>5, PipePush, ZenonT(60) DEF c
<1>5. CASE PutReturned(t) \/ PruneReturned(t)
  <2>1. /\ UNCHANGED <<rows, open, circuit, queue, worker, closing, sync>>
        /\ Others(t) /\ thr'[t].pc \in {"idle", "emit", "remove"}
    BY <1>0, <1>5, PutReturnedEffect, PruneReturnedEffect, Zenon
  <2>2. TakeReply(t)
    BY <1>5, Zenon DEF PutReturned, PruneReturned
  <2>3. Unreserved(t) /\ \A u \in Threads \ {t} : reply'[u] = reply[u]
    BY <1>0, <2>2, Zenon DEF TakeReply, Unreserved, PersistenceTypeOK
  <2>4. thr'[t].pc = "remove" => thr'[t].confirm = FALSE
    <3>1. CASE PruneReturned(t)
      <4>1. thr[t].pc \in PrunePCs /\ thr[t].confirm = FALSE
        BY <1>0, <3>1, Zenon DEF PruneReturned, PrunePCs, SyncMode
      <4>2. Goto(t, "remove") \/ Return(t)
        BY <3>1, Zenon DEF PruneReturned
      <4> QED
        BY <1>0, <4>1, <4>2, PruneGoto, ReturnMove, ThreadKinds, ZenonT(60) DEF PrunePCs
    <3>2. CASE PutReturned(t)
      BY <1>0, <3>2, PutReturnedEffect, Zenon
    <3> QED
      BY <1>5, <3>1, <3>2, Zenon
  <2> QED
    BY <2>1, <2>3, <2>4, PipeThread, Zenon DEF DrainPCs, PrunePCs
<1>6. CASE Emit(t)
  <2>1. UNCHANGED pvars /\ thr[t].pc = "emit" /\ Others(t) /\ thr'[t].pc = "idle"
    BY <1>0, <1>6, EmitEffect, WorkerIsUsed, Zenon DEF TypeInv
  <2> QED
    BY <2>1, PipeThread, Zenon DEF DrainPCs, PrunePCs, pvars, Unreserved
<1>7. CASE Remove(t)
  <2>1. /\ UNCHANGED pvars /\ thr[t].pc = "remove" /\ Others(t)
        /\ thr'[t].pc \in {"idle", "remove"}
    BY <1>0, <1>7, RemoveEffect, Zenon
  <2>2. thr'[t].pc = "remove" => thr'[t].confirm = FALSE
    <3>1. thr[t] \in PruneThread /\ thr[t].confirm = FALSE
      BY <1>0, <2>1, ThreadFields, Zenon DEF PrunePCs, ThreadsOK, SyncMode
    <3>2. \/ Return(t)
          \/ \E K : thr'[t] = [thr[t] EXCEPT !.old = K]
      BY <1>0, <1>7, Zenon DEF Remove, ThreadsOK
    <3>3. \A K : [thr[t] EXCEPT !.old = K].confirm = FALSE
      BY <3>1, Zenon DEF PruneThread
    <3> QED
      BY <1>0, <3>2, <3>3, ReturnMove, ThreadKinds, Zenon
  <2> QED
    BY <2>1, <2>2, PipeThread, Zenon DEF DrainPCs, PrunePCs, pvars, Unreserved
<1>8. CASE \E old \in SUBSET Jobs : GcStale(t, old, FALSE)
  <2>1. /\ UNCHANGED pvars /\ thr[t].pc = "idle" /\ Others(t) /\ thr'[t].pc = "prune"
        /\ thr'[t].confirm = FALSE
    <3>1. PICK old \in SUBSET Jobs : GcStale(t, old, FALSE)
      BY <1>8, Zenon
    <3>2. thr'[t] = [pc |-> "prune", old |-> old, confirm |-> FALSE]
      BY <1>0, <3>1, GcEffect, Zenon
    <3>3. UNCHANGED pvars /\ thr[t].pc = "idle" /\ Others(t) /\ thr'[t].pc = "prune"
      BY <1>0, <3>1, GcEffect, Zenon
    <3> QED
      BY <3>2, <3>3, SMTT(60)
  <2> QED
    BY <2>1, PipeThread, ZenonT(60) DEF DrainPCs, PrunePCs, pvars, Unreserved
<1>9. CASE \E j \in Jobs : Cancel(t, j)
  <2>1. UNCHANGED pvars /\ UNCHANGED thr
    BY <1>0, <1>9, CancelEffect, Zenon
  <2> QED
    BY <2>1, ZenonT(60) DEF PipeInv, SyncMode, QueueSync, WorkerSync, Reserved, pvars
<1> QED
  BY <1>1, <1>2, <1>3, <1>4, <1>5, <1>6, <1>7, <1>8, <1>9, ZenonT(60) DEF SyncMoves

(* So does the worker; and this is what it does to rows and answers.       *)
LEMMA SyncWork ==
  ASSUME WaitingWrites, PersistenceOK, PipeInv, WorkerStep, UNCHANGED thr
  PROVE  /\ PipeInv'
         /\ \/ UNCHANGED <<rows, reply>>
            \/ /\ worker.pc = "put" /\ UNCHANGED reply
               /\ rows' = [rows EXCEPT ![worker.cmd.job] = worker.cmd.snap]
            \/ /\ worker.pc = "delete" /\ UNCHANGED reply
               /\ rows' = Prune(worker.cmd.jobs)
            \/ /\ worker.pc \in {"putdone", "reply"} /\ UNCHANGED rows
               /\ reply' = [reply EXCEPT ![worker.cmd.to] = "ok"]
<1>0. /\ PersistenceTypeOK /\ SyncMode /\ QueueSync /\ WorkerSync
      /\ CanWrite(circuit) /\ BackendErrors = {}
  BY Zenon DEF PersistenceOK, PipeInv, SyncMode, CanWrite, Configured, BackendErrors, WaitingWrites
<1>1. ASSUME worker.pc \in WorkerPCs
      PROVE  /\ worker \in Busy /\ worker.cmd \in Command /\ Reserved(worker.cmd)
             /\ worker.result = NoError
             /\ \A i \in 1..Len(queue) : queue[i].to # worker.cmd.to
  BY <1>0, <1>1, WorkerFields, Zenon DEF PersistenceTypeOK, WorkerSync, Busy
<1>2. ASSUME UNCHANGED <<sync, open, closing, thr, circuit>> PROVE SyncMode'
  BY <1>0, <1>2, Zenon DEF SyncMode
<1>3. ASSUME UNCHANGED <<queue, thr, reply>>
      PROVE  QueueSync' /\ \A c : Reserved(c) => Reserved(c)'
  BY <1>0, <1>3, ZenonT(60) DEF QueueSync, Reserved
<1>4. CASE WorkerReceive
  <2>1. /\ queue # <<>> /\ queue' = Tail(queue)
        /\ UNCHANGED <<rows, open, circuit, closing, sync>>
    BY <1>4, Zenon DEF WorkerReceive
  <2>2. /\ Len(queue) \in Nat \ {0} /\ Len(queue') = Len(queue) - 1
        /\ Head(queue) = queue[1]
        /\ \A i \in 1..Len(queue') : queue'[i] = queue[i + 1]
    BY <1>0, <2>1, HeadAndTail, Zenon
  <2>3. 1 \in 1..Len(queue) /\ \A i \in 1..Len(queue') : i + 1 \in 1..Len(queue) /\ i + 1 # 1
    BY <2>2, SMTT(60)
  <2>4. Reserved(Head(queue))
    BY <1>0, <2>2, <2>3, Zenon DEF QueueSync
  <2>5. Head(queue).type \in {"put", "delete"}
    BY <2>4, Zenon DEF Reserved
  <2>6. /\ worker' = [pc |-> Head(queue).type, cmd |-> Head(queue), result |-> NoError]
        /\ UNCHANGED reply
    BY <1>0, <1>4, <2>5, Zenon DEF WorkerReceive
  <2>7. \A c : Reserved(c) => Reserved(c)'
    BY <2>6, Zenon DEF Reserved
  <2>8. QueueSync'
    <3>1. \A i, k \in 1..Len(queue') : i # k => i + 1 # k + 1
      BY <2>2, SMTT(60)
    <3>2. (\A i \in 1..Len(queue) : Reserved(queue[i]))'
      BY <1>0, <2>2, <2>3, <2>7, Zenon DEF QueueSync
    <3>3. \A i, k \in 1..Len(queue') : i # k => queue'[i].to # queue'[k].to
      BY <1>0, <2>2, <2>3, <3>1, SMTT(60) DEF QueueSync
    <3> QED
      BY <3>2, <3>3, Zenon DEF QueueSync
  <2>9. WorkerSync'
    <3>1. /\ worker'.pc \in {"put", "delete"} /\ worker'.cmd = queue[1] /\ worker'.result = NoError
      BY <2>2, <2>5, <2>6, Zenon
    <3>2. \A i \in 1..Len(queue') : queue'[i].to # queue[1].to
      BY <1>0, <2>2, <2>3, ZenonT(60) DEF QueueSync
    <3> QED
      BY <2>2, <2>4, <2>7, <3>1, <3>2, ZenonT(60) DEF WorkerSync
  <2> QED
    BY <1>2, <2>1, <2>6, <2>8, <2>9, Zenon DEF PipeInv
<1>5. CASE WorkerPut
  <2>1. worker.pc = "put" /\ worker.pc \in WorkerPCs
    BY <1>5, Zenon DEF WorkerPut, WorkerPCs
  <2>2. /\ rows' = [rows EXCEPT ![worker.cmd.job] = worker.cmd.snap]
        /\ worker' = [worker EXCEPT !.pc = "putdone"]
        /\ UNCHANGED <<open, circuit, queue, closing, reply, sync>>
    BY <1>0, <1>5, Zenon DEF WorkerPut
  <2>3. worker'.pc = "putdone" /\ worker'.cmd = worker.cmd /\ worker'.result = worker.result
    BY <1>1, <2>1, <2>2, Zenon DEF Busy
  <2>4. worker.cmd.job \in Jobs
    BY <1>1, <2>1, CommandFields, Zenon DEF PersistenceOK, WorkerKind
  <2>5. rows'[worker.cmd.job] = worker.cmd.snap
    BY <1>0, <2>2, <2>4, Zenon DEF PersistenceTypeOK
  <2>6. WorkerSync'
    BY <1>1, <1>3, <2>1, <2>2, <2>3, <2>5, ZenonT(60) DEF WorkerSync
  <2> QED
    BY <1>2, <1>3, <2>1, <2>2, <2>6, Zenon DEF PipeInv
<1>6. CASE WorkerDelete
  <2>1. worker.pc = "delete" /\ worker.pc \in WorkerPCs
    BY <1>6, Zenon DEF WorkerDelete, WorkerPCs
  <2>2. /\ rows' = Prune(worker.cmd.jobs)
        /\ worker' = [worker EXCEPT !.pc = "deletedone"]
        /\ UNCHANGED <<open, circuit, queue, closing, reply, sync>>
    BY <1>0, <1>6, Zenon DEF WorkerDelete
  <2>3. worker'.pc = "deletedone" /\ worker'.cmd = worker.cmd /\ worker'.result = worker.result
    BY <1>1, <2>1, <2>2, Zenon DEF Busy
  <2>4. WorkerSync'
    BY <1>1, <1>3, <2>1, <2>2, <2>3, Zenon DEF WorkerSync
  <2> QED
    BY <1>2, <1>3, <2>1, <2>2, <2>4, ZenonT(60) DEF PipeInv
<1>7. CASE WorkerRecordDelete
  <2>1. worker.pc = "deletedone" /\ worker.pc \in WorkerPCs
    BY <1>7, Zenon DEF WorkerRecordDelete, WorkerPCs
  <2>2. /\ circuit' = circuit /\ worker' = [worker EXCEPT !.pc = "reply"]
        /\ UNCHANGED <<rows, open, queue, closing, reply, sync>>
    BY <1>0, <1>1, <1>7, <2>1, ZenonT(60)
      DEF WorkerRecordDelete, RecordRetentionSuccess, CanRetryRetention, CanWrite
  <2>3. worker'.pc = "reply" /\ worker'.cmd = worker.cmd /\ worker'.result = worker.result
    BY <1>1, <2>1, <2>2, Zenon DEF Busy
  <2>4. WorkerSync'
    BY <1>1, <1>3, <2>1, <2>2, <2>3, ZenonT(60) DEF WorkerSync
  <2> QED
    BY <1>2, <1>3, <2>1, <2>2, <2>4, ZenonT(60) DEF PipeInv
<1>8. CASE WorkerRecordPut \/ WorkerReply
  <2>1. worker.pc \in {"putdone", "reply"} /\ worker.pc \in WorkerPCs
    BY <1>8, Zenon DEF WorkerRecordPut, WorkerReply, WorkerPCs
  <2>2. worker.result = NoError /\ worker.cmd.to \in Threads
    BY <1>1, <2>1, Zenon DEF Reserved
  <2>3. circuit' = Configured
    BY <1>0, <1>8, <2>2, Zenon DEF WorkerRecordPut, WorkerReply, RecordSuccess, SyncMode, Configured
  <2>4. /\ worker' = Idle /\ UNCHANGED <<rows, open, queue, closing, sync>>
        /\ Answer(worker.cmd, "ok")
    BY <1>8, <2>2, Zenon DEF WorkerRecordPut, WorkerReply
  <2>5. reply' = [reply EXCEPT ![worker.cmd.to] = "ok"]
    BY <2>2, <2>4, ThreadAssumption, Zenon DEF Answer
  <2>6. \A u \in Threads \ {worker.cmd.to} : reply'[u] = reply[u]
    BY <1>0, <2>5, Zenon DEF PersistenceTypeOK
  <2>7. QueueSync'
    <3>1. (\A i \in 1..Len(queue) : Reserved(queue[i]))'
      <4>1. \A i \in 1..Len(queue) : Reserved(queue[i]) /\ queue[i].to # worker.cmd.to
        BY <1>0, <1>1, <2>1, Zenon DEF QueueSync
      <4> QED
        BY <2>4, <2>6, <4>1, Zenon DEF Reserved
    <3> QED
      BY <1>0, <2>4, <3>1, Zenon DEF QueueSync
  <2>8. WorkerSync'
    BY <2>4, Zenon DEF WorkerSync, Idle, WorkerPCs
  <2>9. SyncMode'
    BY <1>0, <2>3, <2>4, Zenon DEF SyncMode
  <2> QED
    BY <2>1, <2>4, <2>5, <2>7, <2>8, <2>9, Zenon DEF PipeInv
<1> QED
  BY <1>4, <1>5, <1>6, <1>7, <1>8, Zenon DEF WorkerStep

(* Every step keeps the pairing.                                           *)
LEMMA PipeStep ==
  ASSUME WaitingWrites, CoreInv, PipeInv, [Next]_vars
  PROVE  PipeInv'
<1>0. TypeInv /\ Quiet /\ SyncMode /\ ThreadsOK /\ PersistenceOK /\ Errors = {}
  BY Zenon DEF CoreInv, TypeInv, PipeInv, WaitingWrites
<1>1. ASSUME NEW t \in Threads, NEW j \in Jobs, NEW parent \in Jobs, Create(t, j, parent)
      PROVE  PipeInv'
  <2>1. UNCHANGED pvars /\ thr[t].pc = "idle" /\ thr'[t].pc = "put" /\ Others(t)
    BY <1>0, <1>1, CreateEffect, Zenon DEF Others
  <2> QED
    BY <2>1, PipeThread, Zenon DEF DrainPCs, PrunePCs, pvars, Unreserved
<1>2. ASSUME NEW t \in Threads, NEW j \in Jobs, Changes(t, j) PROVE PipeInv'
  <2>1. PICK s \in Snapshot, op \in {"output", "update"} : Transition(t, j, op, s)
    BY <1>0, <1>2, ChangeEffect, Zenon
  <2>2. op \in JobOps
    BY Zenon DEF JobOps
  <2>3. UNCHANGED pvars /\ thr[t].pc = "idle" /\ thr'[t].pc = "put" /\ Others(t)
    BY <1>0, <2>1, <2>2, TransitionEffect, ZenonT(60) DEF Others
  <2> QED
    BY <2>3, PipeThread, Zenon DEF DrainPCs, PrunePCs, pvars, Unreserved
<1>3. ASSUME NEW t \in Threads, SyncMoves(t) PROVE PipeInv'
  BY <1>3, PipeMove, Zenon
<1>4. ASSUME Work PROVE PipeInv'
  BY <1>0, <1>4, WorkEffect, SyncWork, Zenon
<1>5. ASSUME queue' = <<>>, worker' = Idle, \A t \in Threads : thr'[t].pc = "idle",
             sync' = sync, open' = TRUE, closing' = FALSE, circuit' = Configured
      PROVE  PipeInv'
  <2>1. SyncMode'
    BY <1>0, <1>5, Zenon DEF SyncMode, DrainPCs, PrunePCs
  <2>2. QueueSync' /\ WorkerSync'
    BY <1>5, SMTT(60) DEF QueueSync, WorkerSync, Idle, WorkerPCs
  <2> QED
    BY <2>1, <2>2, Zenon DEF PipeInv
<1>6. ASSUME Crash PROVE PipeInv'
  BY <1>0, <1>5, <1>6, CrashEffect, ZenonT(60)
<1>7. ASSUME \/ \E old \in SUBSET Jobs : Restart(old)
             \/ RecoverList \/ Serve
             \/ \E j \in Jobs : RecoverRow(j)
      PROVE  PipeInv'
  <2>1. UNCHANGED <<queue, worker, thr, sync, open, closing, circuit>> /\ phase # "up"
    BY <1>0, <1>7, Zenon DEF Restart, RecoverList, Serve, RecoverRow, pvars
  <2> QED
    BY <1>0, <1>5, <2>1, Zenon DEF Quiet, SyncMode
<1>8. ASSUME UNCHANGED vars PROVE PipeInv'
  BY <1>8, ZenonT(60) DEF PipeInv, SyncMode, QueueSync, WorkerSync, Reserved, vars, pvars, mvars
<1> QED
  BY <1>0, <1>1, <1>2, <1>3, <1>4, <1>6, <1>7, <1>8, SyncCases, ZenonT(60)

-----------------------------------------------------------------------------
(* What a purge may take: jobs that are over.                              *)
OldOver ==
  \A t \in Threads : thr[t].pc \in PrunePCs =>
    \A j \in thr[t].old : j \in used /\ (Tracked(j) => IsTerminal(jobs[j]))

(* The subscribers know the present state, or somebody is about to tell.   *)
SeenLatest ==
  \A j \in Jobs : Tracked(j) /\ seen[j] # Absent /\ seen[j] # jobs[j] =>
    \E t \in Threads : WorkingOn(t, j) /\ thr[t].op # "output"

SeenOver == \A j \in Jobs : ~Tracked(j) /\ seen[j] # Absent => IsTerminal(seen[j])

OverInv == OldOver /\ SeenLatest /\ SeenOver

(* Nothing follows a terminal state.                                       *)
LEMMA TerminalStays ==
  ASSUME NEW a, NEW b, IsTerminal(a), Precedes(a, b) PROVE a = b /\ IsTerminal(b)
BY Zenon DEF Precedes, IsTerminal, TerminalStatuses

(* Only Emit ends an operation that has something to tell.                 *)
LEMMA SyncStays ==
  ASSUME TypeInv, SyncMode, NEW t \in Threads, SyncMoves(t), ~Emit(t),
         NEW u \in Threads, NEW j \in Jobs, WorkingOn(u, j), thr[u].op # "output"
  PROVE  WorkingOn(u, j)' /\ thr'[u].op # "output"
<1>0. ThreadsOK /\ thr[u].pc \in JobPCs
  BY Zenon DEF TypeInv, WorkingOn
<1>1. ASSUME Others(t), thr[t].pc \notin JobPCs
      PROVE  WorkingOn(u, j)' /\ thr'[u].op # "output"
  BY <1>0, <1>1, Zenon DEF Others, WorkingOn
<1>2. ASSUME Others(t), Keeps(t), thr'[t].pc \in JobPCs
      PROVE  WorkingOn(u, j)' /\ thr'[u].op # "output"
  BY <1>0, <1>2, Zenon DEF Others, Keeps, WorkingOn
<1>3. ASSUME Others(t), u # t PROVE WorkingOn(u, j)' /\ thr'[u].op # "output"
  BY <1>0, <1>3, Zenon DEF Others, WorkingOn
<1>4. CASE PersistPut(t)
  BY <1>2, <1>4, SyncPut, PersistPutEffect, Zenon DEF JobPCs
<1>5. CASE PutSend(t)
  BY <1>2, <1>5, PutSendEffect, Zenon DEF JobPCs
<1>6. CASE PutReturned(t)
  <2>1. Others(t) /\ Keeps(t) /\ Persisted(t) /\ thr[t].pc = "wait"
    BY <1>6, PutReturnedEffect, Zenon DEF PutReturned
  <2>2. CASE u = t
    <3>1. Goto(t, "emit")
      BY <2>1, <2>2, Zenon DEF Persisted
    <3>2. thr'[t].pc = "emit"
      BY <1>0, <2>1, <3>1, GotoMove, Zenon DEF JobPCs
    <3> QED
      BY <1>2, <2>1, <3>2, Zenon DEF JobPCs
  <2> QED
    BY <1>3, <2>1, <2>2, Zenon
<1>7. CASE PruneRequest(t) \/ PruneSend(t) \/ PruneReturned(t)
  BY <1>1, <1>7, PruneRequestEffect, PruneSendEffect, PruneReturnedEffect, Zenon DEF JobPCs
<1>8. CASE Remove(t)
  <2>1. Others(t) /\ thr[t].pc = "remove"
    BY <1>8, RemoveEffect, Zenon
  <2> QED
    BY <1>1, <2>1, Zenon DEF JobPCs
<1>9. CASE \E old \in SUBSET Jobs : GcStale(t, old, FALSE)
  BY <1>1, <1>9, GcEffect, Zenon DEF JobPCs
<1>10. CASE \E k \in Jobs : Cancel(t, k)
  BY <1>10, CancelEffect, Zenon DEF WorkingOn
<1> QED
  BY <1>4, <1>5, <1>6, <1>7, <1>8, <1>9, <1>10, Zenon DEF SyncMoves

(* What a step of a purge does to its arguments.                           *)
LEMMA OldMove ==
  ASSUME TypeInv, SyncMode, NEW t \in Threads, SyncMoves(t), thr'[t].pc \in PrunePCs,
         \A u \in Threads, j \in Jobs : WorkingOn(u, j) => j \in used
  PROVE  \/ \E old \in SUBSET Jobs : GcStale(t, old, FALSE) /\ thr'[t].old = old
         \/ thr[t].pc \in PrunePCs /\ thr'[t].old \subseteq thr[t].old
<1>0. ThreadsOK
  BY Zenon DEF TypeInv
<1>1. CASE PersistPut(t) \/ PutSend(t) \/ PutReturned(t)
  <2>1. thr'[t].pc \in {"idle", "emit", "wait", "send"}
    BY <1>1, PersistPutEffect, PutSendEffect, PutReturnedEffect, Zenon
  <2> QED
    BY <2>1, Zenon DEF PrunePCs
<1>2. CASE Emit(t)
  BY <1>2, EmitEffect, Zenon DEF PrunePCs
<1>3. CASE PruneRequest(t)
  BY <1>3, SyncPrune, Zenon DEF PruneRequest, PrunePCs
<1>4. CASE PruneSend(t) \/ PruneReturned(t)
  <2>1. thr[t].pc \in PrunePCs
    BY <1>4, Zenon DEF PruneSend, PruneReturned, PrunePCs
  <2>2. \/ \E pc \in PrunePCs : Goto(t, pc)
        \/ Return(t)
    BY <1>4, Zenon DEF PruneSend, PruneReturned, PrunePCs
  <2>3. ~Return(t)
    BY <1>0, ReturnMove, ThreadKinds, Zenon DEF PrunePCs
  <2> QED
    BY <1>0, <2>1, <2>2, <2>3, PruneGoto, Zenon
<1>5. CASE Remove(t)
  <2>1. thr[t].pc = "remove" /\ thr'[t].pc \in {"idle", "remove"}
    BY <1>5, RemoveEffect, Zenon
  <2>2. thr'[t].pc = "remove"
    BY <2>1, Zenon DEF PrunePCs
  <2>3. thr'[t].old \subseteq thr[t].old
    <3>1. thr[t] \in PruneThread
      BY <1>0, <2>1, ThreadFields, Zenon DEF PrunePCs, ThreadsOK
    <3>2. ~Return(t)
      BY <1>0, <2>2, ReturnMove, ThreadKinds, Zenon
    <3>3. PICK j : thr'[t] = [thr[t] EXCEPT !.old = thr[t].old \ {j}]
      BY <1>0, <1>5, <3>2, Zenon DEF Remove, ThreadsOK
    <3>4. [thr[t] EXCEPT !.old = thr[t].old \ {j}].old = thr[t].old \ {j}
      BY <3>1, Zenon DEF PruneThread
    <3> QED
      BY <3>3, <3>4, Zenon
  <2> QED
    BY <2>1, <2>3, Zenon DEF PrunePCs
<1>6. CASE \E old \in SUBSET Jobs : GcStale(t, old, FALSE)
  <2>1. PICK old \in SUBSET Jobs : GcStale(t, old, FALSE)
    BY <1>6, Zenon
  <2>2. thr'[t] = [pc |-> "prune", old |-> old, confirm |-> FALSE]
    BY <2>1, GcEffect, Zenon
  <2>3. thr'[t].old = old
    BY <2>2, SMTT(60)
  <2> QED
    BY <2>1, <2>3, Zenon
<1>7. CASE \E k \in Jobs : Cancel(t, k)
  BY <1>7, CancelEffect, Zenon
<1> QED
  BY <1>1, <1>2, <1>3, <1>4, <1>5, <1>6, <1>7, ZenonT(60) DEF SyncMoves

(* A step of a thread keeps the purge to jobs that are over.               *)
LEMMA OverMove ==
  ASSUME EventInv, SyncMode, OverInv, NEW t \in Threads, SyncMoves(t)
  PROVE  OverInv'
<1>0. /\ TypeInv /\ TypeInv' /\ CoreInv /\ Fresh /\ Owned /\ ThreadsOK /\ Moves(t)
      /\ OldOver /\ SeenLatest /\ SeenOver /\ used' = used
      /\ jobs \in [Jobs -> Snapshot \cup {Absent}]
      /\ \A u \in Threads, j \in Jobs : WorkingOn(u, j) => j \in used
      /\ \A j \in Jobs : jobs'[j] \in {jobs[j], Absent}
  BY SyncMovesAreMoves, MoveEffect, WorkerIsUsed, Zenon
    DEF EventInv, OwnerInv, CoreInv, TypeInv, ManagerOK, OverInv
<1>1. Others(t)
  <2>1. CASE \E k \in Jobs : Cancel(t, k)
    BY <1>0, <2>1, CancelEffect, Zenon DEF Others
  <2>2. CASE \E old \in SUBSET Jobs : GcStale(t, old, FALSE)
    BY <1>0, <2>2, GcEffect, Zenon
  <2>3. CASE Remove(t)
    BY <1>0, <2>3, RemoveEffect, Zenon
  <2> QED
    BY <1>0, <2>1, <2>2, <2>3, PersistPutEffect, PutSendEffect, PutReturnedEffect, EmitEffect,
       PruneRequestEffect, PruneSendEffect, PruneReturnedEffect, ZenonT(60) DEF SyncMoves
<1>2. OldOver'
  <2>1. ASSUME NEW u \in Threads, thr'[u].pc \in PrunePCs, NEW j \in thr'[u].old
        PROVE  j \in used /\ (jobs'[j] # Absent => IsTerminal(jobs'[j]))
    <3>0. j \in Jobs
      BY <1>0, <2>1, ThreadFields, Zenon DEF TypeInv, ThreadsOK
    <3>1. j \in used /\ (jobs[j] # Absent => IsTerminal(jobs[j]))
      <4>1. CASE u # t \/ (thr[t].pc \in PrunePCs /\ thr'[t].old \subseteq thr[t].old)
        BY <1>0, <1>1, <2>1, <4>1, Zenon DEF OldOver, Tracked, Others
      <4>2. CASE u = t /\ \E old \in SUBSET Jobs : GcStale(t, old, FALSE) /\ thr'[t].old = old
        <5>1. j \in used /\ jobs[j].status \notin InFlight
          BY <2>1, <4>2, Zenon DEF GcStale
        <5>2. jobs[j] # Absent => jobs[j].status \in InFlight \cup TerminalStatuses
          BY <1>0, <3>0, Zenon DEF Snapshot
        <5> QED
          BY <5>1, <5>2, Zenon DEF IsTerminal
      <4> QED
        BY <1>0, <2>1, <4>1, <4>2, OldMove, ZenonT(60)
    <3> QED
      BY <1>0, <3>0, <3>1, Zenon
  <2> QED
    BY <1>0, <2>1, Zenon DEF OldOver, Tracked
<1>3. CASE Emit(t)
  <2> DEFINE h == thr[t].job
  <2>1. /\ UNCHANGED jobs /\ thr[t].pc = "emit" /\ thr[t] \in JobThread
        /\ seen'[h] = thr[t].snap /\ \A j \in Jobs \ {h} : seen'[j] = seen[j]
    BY <1>0, <1>3, EmitEffect, Zenon
  <2>2. h \in Jobs /\ WorkingOn(t, h)
    BY <2>1, ThreadKinds, Zenon DEF WorkingOn
  <2>3. seen'[h] = jobs[h] /\ jobs[h] # Absent
    BY <1>0, <2>1, <2>2, Zenon DEF Owned, Tracked
  <2>4. \A j \in Jobs \ {h}, u \in Threads :
          WorkingOn(u, j) => WorkingOn(u, j)' /\ thr'[u].op = thr[u].op
    BY <1>1, <2>2, Zenon DEF Others, WorkingOn
  <2> HIDE DEF h
  <2>5. SeenLatest'
    <3>1. ASSUME NEW j \in Jobs, jobs'[j] # Absent, seen'[j] # Absent, seen'[j] # jobs'[j]
          PROVE  \E u \in Threads : WorkingOn(u, j)' /\ thr'[u].op # "output"
      <4>1. j # h /\ jobs[j] # Absent /\ seen[j] # Absent /\ seen[j] # jobs[j]
        BY <2>1, <2>3, <3>1, Zenon
      <4>2. PICK u \in Threads : WorkingOn(u, j) /\ thr[u].op # "output"
        BY <1>0, <4>1, Zenon DEF SeenLatest, Tracked
      <4> QED
        BY <2>4, <4>1, <4>2, Zenon
    <3> QED
      BY <3>1, Zenon DEF SeenLatest, Tracked
  <2>6. SeenOver'
    BY <1>0, <2>1, <2>3, ZenonT(60) DEF SeenOver, Tracked
  <2> QED
    BY <1>2, <2>5, <2>6, Zenon DEF OverInv
<1>4. CASE ~Emit(t)
  <2>1. UNCHANGED seen
    BY <1>0, <1>4, MoveSeen, Zenon
  <2>2. SeenLatest'
    <3>1. ASSUME NEW j \in Jobs, jobs'[j] # Absent, seen'[j] # Absent, seen'[j] # jobs'[j]
          PROVE  \E u \in Threads : WorkingOn(u, j)' /\ thr'[u].op # "output"
      <4>1. jobs[j] # Absent /\ seen[j] # Absent /\ seen[j] # jobs[j]
        BY <1>0, <2>1, <3>1, Zenon
      <4>2. PICK u \in Threads : WorkingOn(u, j) /\ thr[u].op # "output"
        BY <1>0, <4>1, Zenon DEF SeenLatest, Tracked
      <4> QED
        BY <1>0, <1>4, <4>2, SyncStays, Zenon
    <3> QED
      BY <3>1, Zenon DEF SeenLatest, Tracked
  <2>3. SeenOver'
    <3>1. ASSUME NEW j \in Jobs, jobs'[j] = Absent, seen'[j] # Absent
          PROVE  IsTerminal(seen'[j])
      <4>1. CASE jobs[j] = Absent
        BY <1>0, <2>1, <3>1, <4>1, Zenon DEF SeenOver, Tracked
      <4>2. CASE jobs[j] # Absent
        <5>1. \A u \in Threads : ~WorkingOn(u, j)
          BY <1>0, <3>1, <4>2, MoveThreads, Zenon
        <5>2. seen[j] = jobs[j]
          BY <1>0, <2>1, <3>1, <4>2, <5>1, ZenonT(60) DEF SeenLatest, Tracked
        <5>3. Remove(t)
          <6>1. jobs' # jobs
            BY <3>1, <4>2, Zenon
          <6> QED
            BY <1>4, <6>1, Zenon DEF SyncMoves, PersistPut, PutSend, PutReturned, PruneRequest, PruneSend,
                              PruneReturned, GcStale, Cancel
        <5>4. j \in thr[t].old /\ thr[t].pc \in PrunePCs
          <6>1. PICK k \in thr[t].old : jobs' = [jobs EXCEPT ![k] = Absent]
            BY <5>3, Zenon DEF Remove
          <6>2. k = j
            BY <1>0, <3>1, <4>2, <6>1, Zenon
          <6> QED
            BY <5>3, <6>1, <6>2, Zenon DEF Remove, PrunePCs
        <5> QED
          BY <1>0, <2>1, <4>2, <5>2, <5>4, Zenon DEF OldOver, Tracked
      <4> QED
        BY <4>1, <4>2, Zenon
    <3> QED
      BY <3>1, Zenon DEF SeenOver, Tracked
  <2> QED
    BY <1>2, <2>2, <2>3, Zenon DEF OverInv
<1> QED
  BY <1>3, <1>4, Zenon

(* Every step does.                                                        *)
LEMMA OverStep ==
  ASSUME WaitingWrites, EventInv, SyncMode, OverInv, [Next]_vars
  PROVE  OverInv'
<1>0. /\ TypeInv /\ CoreInv /\ Quiet /\ SeenBehind /\ OwnerPerJob /\ Errors = {}
      /\ OldOver /\ SeenLatest /\ SeenOver
      /\ jobs \in [Jobs -> Snapshot \cup {Absent}]
      /\ \A u \in Threads : thr[u].pc \in PrunePCs => thr[u].old \subseteq Jobs
  BY ThreadFields, Zenon
    DEF EventInv, OwnerInv, CoreInv, TypeInv, ManagerOK, ThreadsOK, OverInv, WaitingWrites
<1>1. ASSUME NEW t \in Threads, NEW j \in Jobs, thr[t].pc = "idle", thr'[t].pc = "put",
             Others(t), UNCHANGED seen, used \subseteq used',
             \A k \in Jobs \ {j} : jobs'[k] = jobs[k],
             IsTerminal(jobs[j]) => jobs'[j] = jobs[j],
             j \in used \/ seen[j] = Absent, jobs[j] # Absent \/ j \notin used,
             jobs'[j] # Absent,
             \/ seen[j] = Absent
             \/ seen[j] = jobs[j] /\ jobs'[j] = jobs[j]
             \/ WorkingOn(t, j)' /\ thr'[t].op # "output"
      PROVE  OverInv'
  <2>1. OldOver'
    <3>1. ASSUME NEW u \in Threads, thr'[u].pc \in PrunePCs, NEW k \in thr'[u].old
          PROVE  k \in used' /\ (jobs'[k] # Absent => IsTerminal(jobs'[k]))
      <4>1. u # t
        BY <1>1, <3>1, Zenon DEF PrunePCs
      <4>2. k \in Jobs /\ k \in used /\ (jobs[k] # Absent => IsTerminal(jobs[k]))
        BY <1>0, <1>1, <3>1, <4>1, ZenonT(60) DEF OldOver, Tracked, Others
      <4> QED
        BY <1>1, <4>2, Zenon
    <3> QED
      BY <3>1, Zenon DEF OldOver, Tracked
  <2>2. SeenLatest'
    <3>1. ASSUME NEW k \in Jobs, jobs'[k] # Absent, seen'[k] # Absent, seen'[k] # jobs'[k]
          PROVE  \E u \in Threads : WorkingOn(u, k)' /\ thr'[u].op # "output"
      <4>1. CASE k = j
        BY <1>1, <3>1, <4>1, Zenon
      <4>2. CASE k # j
        <5>1. PICK u \in Threads : WorkingOn(u, k) /\ thr[u].op # "output"
          BY <1>0, <1>1, <3>1, <4>2, Zenon DEF SeenLatest, Tracked
        <5>2. u # t
          BY <1>1, <5>1, Zenon DEF WorkingOn, JobPCs
        <5> QED
          BY <1>1, <5>1, <5>2, Zenon DEF WorkingOn, Others
      <4> QED
        BY <4>1, <4>2, Zenon
    <3> QED
      BY <3>1, Zenon DEF SeenLatest, Tracked
  <2>3. SeenOver'
    BY <1>0, <1>1, Zenon DEF SeenOver, Tracked
  <2> QED
    BY <2>1, <2>2, <2>3, Zenon DEF OverInv
<1>2. ASSUME NEW t \in Threads, NEW j \in Jobs, NEW parent \in Jobs, Create(t, j, parent)
      PROVE  OverInv'
  <2>1. /\ UNCHANGED seen /\ j \notin used /\ used' = used \cup {j}
        /\ jobs'[j] = NewJob /\ \A k \in Jobs \ {j} : jobs'[k] = jobs[k]
        /\ thr[t].pc = "idle" /\ thr'[t].pc = "put" /\ Others(t)
    BY <1>0, <1>2, CreateEffect, Zenon DEF Others
  <2>2. seen[j] = Absent /\ jobs[j] = Absent /\ NewJob # Absent
    BY <1>0, <2>1, SnapshotTypes, Zenon DEF SeenBehind, CoreInv, Fresh
  <2>3. ~IsTerminal(jobs[j])
    BY <2>2, SMTT(60) DEF IsTerminal, Absent, TerminalStatuses
  <2> QED
    BY <1>1, <2>1, <2>2, <2>3, Zenon
<1>3. ASSUME NEW t \in Threads, NEW j \in Jobs, Changes(t, j) PROVE OverInv'
  <2>1. PICK s \in Snapshot, op \in {"output", "update"} :
          /\ Transition(t, j, op, s) /\ Precedes(jobs[j], s)
          /\ op = "output" => s = jobs[j]
    BY <1>0, <1>3, ChangeEffect, Zenon
  <2>2. op \in JobOps
    BY Zenon DEF JobOps
  <2>3. /\ UNCHANGED <<seen, used>> /\ jobs[j] # Absent /\ jobs'[j] = s
        /\ \A k \in Jobs \ {j} : jobs'[k] = jobs[k]
        /\ thr[t].pc = "idle" /\ thr'[t].pc = "put" /\ thr'[t].op = op
        /\ thr'[t].job = j /\ Others(t)
    BY <1>0, <2>1, <2>2, TransitionEffect, Zenon DEF Others
  <2>4. \A u \in Threads : ~WorkingOn(u, j)
    <3>1. \A u \in Threads \ {t} : ~WorkingOn(u, j)
      BY <1>0, <2>1, Zenon DEF Transition, MayMutate
    <3> QED
      BY <2>3, <3>1, Zenon DEF WorkingOn, JobPCs
  <2>5. seen[j] = Absent \/ seen[j] = jobs[j]
    BY <1>0, <2>3, <2>4, Zenon DEF SeenLatest, Tracked
  <2>6. op = "update" => WorkingOn(t, j)' /\ thr'[t].op # "output"
    BY <2>3, Zenon DEF WorkingOn, JobPCs
  <2>7. j \in used
    BY <1>0, <2>3, Zenon DEF CoreInv, Fresh
  <2>8. IsTerminal(jobs[j]) => s = jobs[j]
    BY <2>1, TerminalStays, SMTT(60)
  <2>9. s # Absent
    BY SnapshotTypes, Zenon
  <2> QED
    BY <1>1, <2>1, <2>3, <2>5, <2>6, <2>7, <2>8, <2>9, ZenonT(60)
<1>4. ASSUME NEW t \in Threads, SyncMoves(t) PROVE OverInv'
  BY <1>4, OverMove, Zenon
<1>5. ASSUME UNCHANGED <<jobs, used, thr, seen>> PROVE OverInv'
  BY <1>0, <1>5, Zenon DEF OverInv, OldOver, SeenLatest, SeenOver, Tracked, WorkingOn
<1>6. ASSUME Work PROVE OverInv'
  BY <1>0, <1>5, <1>6, WorkEffect, Zenon
<1>7. ASSUME Crash PROVE OverInv'
  BY <1>0, <1>7, CrashEffect, Zenon DEF OverInv, OldOver, SeenLatest, SeenOver, PrunePCs
<1>8. ASSUME \/ \E old \in SUBSET Jobs : Restart(old)
             \/ RecoverList \/ Serve \/ UNCHANGED vars
      PROVE  OverInv'
  <2>1. UNCHANGED <<jobs, used, thr, seen>>
    BY <1>8, Zenon DEF Restart, RecoverList, Serve, vars, mvars
  <2> QED
    BY <1>5, <2>1, Zenon
<1>9. ASSUME NEW j \in Jobs, RecoverRow(j) PROVE OverInv'
  <2>1. rows[j] # Absent /\ rows[j] \in Snapshot
    BY <1>0, <1>9, Zenon
      DEF CoreInv, TodoInv, RecoverRow, TypeInv, PersistenceOK, PersistenceTypeOK
  <2>2. /\ phase = "recovering" /\ j \in todo /\ UNCHANGED thr
        /\ jobs'[j] = Recovered(rows[j]) /\ seen'[j] \in {seen[j], Recovered(rows[j])}
        /\ \A k \in Jobs \ {j} : jobs'[k] = jobs[k] /\ seen'[k] = seen[k]
    BY <1>0, <1>9, <2>1, RecoverRowEffect, Zenon
  <2>3. seen[j] = Absent /\ \A u \in Threads : thr[u].pc = "idle"
    BY <1>0, <2>2, Zenon DEF SeenBehind, Quiet
  <2>4. Recovered(rows[j]) # Absent
    BY <2>1, RecoveredForward, SnapshotTypes, Zenon
  <2>5. \A u \in Threads, k \in Jobs : ~WorkingOn(u, k)
    BY <2>3, Zenon DEF WorkingOn, JobPCs
  <2>6. \A k \in Jobs : jobs[k] # Absent /\ seen[k] # Absent => seen[k] = jobs[k]
    BY <1>0, <2>5, Zenon DEF SeenLatest, Tracked
  <2>7. OldOver'
    BY <2>2, <2>3, Zenon DEF OldOver, PrunePCs
  <2>8. \A k \in Jobs : jobs'[k] # Absent /\ seen'[k] # Absent => seen'[k] = jobs'[k]
    BY <2>2, <2>3, <2>6, Zenon
  <2>9. SeenOver'
    BY <1>0, <2>2, <2>4, Zenon DEF SeenOver, Tracked
  <2> QED
    BY <2>7, <2>8, <2>9, Zenon DEF OverInv, SeenLatest, Tracked
<1> QED
  BY <1>2, <1>3, <1>4, <1>6, <1>7, <1>8, <1>9, SyncCases, ZenonT(60)

-----------------------------------------------------------------------------
(* State s of j would survive a crash, or j is over.                       *)
Durable(j, s) ==
  \/ rows[j] # Absent /\ Precedes(s, rows[j])
  \/ rows[j] = Absent /\ (IsTerminal(s) \/ IsTerminal(jobs[j]))

(* A thread that may go on to emit has its snapshot on disk.               *)
Answered(t) == thr[t].pc = "emit" \/ (thr[t].pc = "wait" /\ reply[t] # "queued")

ThreadDurable == \A t \in Threads : Answered(t) => Durable(thr[t].job, thr[t].snap)

SeenDurable == \A j \in Jobs : seen[j] # Absent => Durable(j, seen[j])

DurableInv == ThreadDurable /\ SeenDurable

(* A job a client knows has a row, and is in the map or about to be.       *)
Found ==
  \A j \in known :
    /\ rows[j] # Absent
    /\ phase = "up" => Tracked(j)
    /\ phase = "recovering" => Tracked(j) \/ j \in todo

(* create hands the writer the pending job.                                *)
CreateSnap ==
  \A t \in Threads : thr[t].pc \in JobPCs /\ thr[t].op = "create" => thr[t].snap = NewJob

KnownInv == Found /\ CreateSnap

SyncInv == EventInv /\ PipeInv /\ OverInv /\ DurableInv /\ KnownInv

(* Durability depends on the row and on whether the job is over.           *)
LEMMA DurableStays ==
  ASSUME NEW j, NEW s, Durable(j, s), rows'[j] = rows[j],
         IsTerminal(jobs[j]) => IsTerminal(jobs'[j]) \/ IsTerminal(s)
  PROVE  Durable(j, s)'
BY Zenon DEF Durable

(* A purge takes only rows of jobs that are over.                          *)
LEMMA DurablePruned ==
  ASSUME CoreInv, NEW j \in Jobs, NEW s \in Snapshot, Durable(j, s), UNCHANGED jobs,
         rows'[j] = rows[j] \/ (rows'[j] = Absent /\ IsTerminal(rows[j])),
         Tracked(j) \/ IsTerminal(s)
  PROVE  Durable(j, s)'
<1>1. CASE rows'[j] = rows[j]
  BY <1>1, Zenon DEF Durable
<1>2. CASE rows'[j] = Absent /\ IsTerminal(rows[j])
  <2>1. rows[j] # Absent
    BY <1>2, SMTT(60) DEF IsTerminal, Absent, TerminalStatuses
  <2>2. rows[j] \in Snapshot
    BY <2>1, Zenon DEF CoreInv, TypeInv, PersistenceOK, PersistenceTypeOK
  <2>3. Tracked(j) => Precedes(rows[j], jobs[j])
    BY <2>2, Zenon DEF CoreInv, Ahead, Copy, RowCopy
  <2> QED
    BY <1>2, <2>3, TerminalStays, Zenon DEF Durable
<1> QED
  BY <1>1, <1>2, Zenon

(* What a push does to the answers.                                        *)
LEMMA PushReply ==
  ASSUME PersistenceTypeOK, NEW t \in Threads, NEW c, c.to = t, Push(c)
  PROVE  reply'[t] = "queued" /\ \A u \in Threads \ {t} : reply'[u] = reply[u]
<1>1. reply' = [reply EXCEPT ![t] = "queued"]
  BY ThreadAssumption, Zenon DEF Push
<1> QED
  BY <1>1, Zenon DEF PersistenceTypeOK

(* No step of a thread makes a thread answered: only the worker does.      *)
LEMMA AnsweredMove ==
  ASSUME CoreInv, PipeInv, NEW t \in Threads, SyncMoves(t), NEW u \in Threads, Answered(u)'
  PROVE  Answered(u) /\ \E j \in Jobs : WorkingOn(u, j) /\ WorkingOn(u, j)'
<1>0. TypeInv /\ TypeInv' /\ PersistenceTypeOK /\ ThreadsOK /\ ThreadsOK' /\ SyncMode /\ Fresh
  BY SyncMovesAreMoves, MoveEffect, Zenon DEF CoreInv, TypeInv, PersistenceOK, PipeInv
<1>1. \E j \in Jobs : WorkingOn(u, j) /\ WorkingOn(u, j)'
  <2>1. thr'[u].pc \in JobPCs
    BY Zenon DEF Answered, JobPCs
  <2>2. PICK j \in Jobs : thr'[u].job = j
    BY <1>0, <2>1, ThreadFields, Zenon DEF ThreadsOK
  <2>3. WorkingOn(u, j)'
    BY <2>1, <2>2, Zenon DEF WorkingOn
  <2> QED
    BY <2>3, SyncMovesAreMoves, MoveThreads, Zenon
<1> SUFFICES Answered(u)
  BY <1>1, Zenon
<1>2. ASSUME Others(t), \A v \in Threads \ {t} : reply'[v] = reply[v],
             thr'[t].pc \in {"emit", "wait"} =>
               \/ thr'[t].pc = "wait" /\ reply'[t] = "queued"
               \/ Answered(t)
      PROVE  Answered(u)
  <2>1. CASE u = t
    BY <1>2, <2>1, Zenon DEF Answered
  <2>2. CASE u # t
    BY <1>2, <2>2, Zenon DEF Answered, Others
  <2> QED
    BY <2>1, <2>2, Zenon
<1>3. CASE PersistPut(t)
  <2>1. /\ UNCHANGED <<rows, open, worker, closing, sync, circuit>>
        /\ \/ Push(PutCmd(thr[t].job, thr[t].snap, t)) /\ thr'[t].pc = "wait"
           \/ UNCHANGED <<queue, reply>> /\ thr'[t].pc = "send"
    BY <1>0, <1>3, SyncPut, Zenon
  <2>2. Others(t)
    BY <1>0, <1>3, PersistPutEffect, Zenon
  <2>3. CASE Push(PutCmd(thr[t].job, thr[t].snap, t)) /\ thr'[t].pc = "wait"
    <3>1. PutCmd(thr[t].job, thr[t].snap, t).to = t
      BY Zenon DEF PutCmd
    <3> QED
      BY <1>0, <1>2, <2>2, <2>3, <3>1, PushReply, ZenonT(60)
  <2>4. CASE UNCHANGED <<queue, reply>> /\ thr'[t].pc = "send"
    BY <1>2, <2>2, <2>4, Zenon
  <2> QED
    BY <2>1, <2>3, <2>4, Zenon
<1>4. CASE PutSend(t)
  <2>1. Others(t) /\ thr'[t].pc = "wait"
    BY <1>0, <1>4, PutSendEffect, Zenon
  <2>2. Push(PutCmd(thr[t].job, thr[t].snap, t))
    BY <1>4, Zenon DEF PutSend, SendBlocked
  <2>3. PutCmd(thr[t].job, thr[t].snap, t).to = t
    BY Zenon DEF PutCmd
  <2> QED
    BY <1>0, <1>2, <2>1, <2>2, <2>3, PushReply, ZenonT(60)
<1>5. CASE PruneRequest(t)
  <2>1. /\ UNCHANGED <<rows, open, worker, closing, sync, circuit>>
        /\ \/ Push(DeleteCmd(thr[t].old, t)) /\ thr'[t].pc = "pruneWait"
           \/ UNCHANGED <<queue, reply>> /\ thr'[t].pc = "pruneSend"
    BY <1>0, <1>5, SyncPrune, Zenon
  <2>2. Others(t)
    BY <1>0, <1>5, PruneRequestEffect, Zenon
  <2>3. DeleteCmd(thr[t].old, t).to = t
    BY Zenon DEF DeleteCmd
  <2> QED
    BY <1>0, <1>2, <2>1, <2>2, <2>3, PushReply, ZenonT(60)
<1>6. CASE PruneSend(t)
  <2>1. Others(t) /\ thr'[t].pc = "pruneWait"
    BY <1>0, <1>6, PruneSendEffect, Zenon
  <2>2. Push(DeleteCmd(thr[t].old, t))
    BY <1>6, Zenon DEF PruneSend, SendBlocked
  <2>3. DeleteCmd(thr[t].old, t).to = t
    BY Zenon DEF DeleteCmd
  <2> QED
    BY <1>0, <1>2, <2>1, <2>2, <2>3, PushReply, ZenonT(60)
<1>7. CASE PutReturned(t)
  <2>1. thr[t].pc = "wait" /\ Others(t) /\ thr'[t].pc \in {"idle", "emit"}
    BY <1>0, <1>7, PutReturnedEffect, Zenon
  <2>2. TakeReply(t)
    BY <1>7, Zenon DEF PutReturned
  <2>3. reply[t] # "queued" /\ \A v \in Threads \ {t} : reply'[v] = reply[v]
    BY <1>0, <2>2, Zenon DEF TakeReply, PersistenceTypeOK
  <2> QED
    BY <1>2, <2>1, <2>3, Zenon DEF Answered
<1>8. CASE PruneReturned(t)
  <2>1. Others(t) /\ thr'[t].pc \in {"idle", "remove"}
    BY <1>0, <1>8, PruneReturnedEffect, Zenon
  <2>2. TakeReply(t)
    BY <1>8, Zenon DEF PruneReturned
  <2>3. \A v \in Threads \ {t} : reply'[v] = reply[v]
    BY <1>0, <2>2, Zenon DEF TakeReply, PersistenceTypeOK
  <2> QED
    BY <1>2, <2>1, <2>3, Zenon
<1>9. CASE Emit(t)
  <2>1. UNCHANGED pvars /\ Others(t) /\ thr'[t].pc = "idle"
    BY <1>0, <1>9, EmitEffect, WorkerIsUsed, Zenon DEF TypeInv
  <2> QED
    BY <1>2, <2>1, Zenon DEF pvars
<1>10. CASE Remove(t)
  <2>1. UNCHANGED pvars /\ Others(t) /\ thr'[t].pc \in {"idle", "remove"}
    BY <1>0, <1>10, RemoveEffect, Zenon
  <2> QED
    BY <1>2, <2>1, Zenon DEF pvars
<1>11. CASE \E old \in SUBSET Jobs : GcStale(t, old, FALSE)
  <2>1. PICK old \in SUBSET Jobs : GcStale(t, old, FALSE)
    BY <1>11, Zenon
  <2>2. UNCHANGED pvars /\ Others(t) /\ thr'[t].pc = "prune"
    BY <1>0, <2>1, GcEffect, Zenon
  <2> QED
    BY <1>2, <2>2, Zenon DEF pvars
<1>12. CASE \E j \in Jobs : Cancel(t, j)
  <2>1. UNCHANGED pvars /\ UNCHANGED thr
    BY <1>0, <1>12, CancelEffect, Zenon
  <2> QED
    BY <2>1, Zenon DEF Answered, pvars
<1> QED
  BY <1>3, <1>4, <1>5, <1>6, <1>7, <1>8, <1>9, <1>10, <1>11, <1>12, ZenonT(60) DEF SyncMoves

(* A step of a thread keeps what is durable durable, and what it announces *)
(* was written.                                                            *)
LEMMA DurableMove ==
  ASSUME EventInv, PipeInv, OverInv, DurableInv, NEW t \in Threads, SyncMoves(t)
  PROVE  DurableInv'
<1>0. /\ CoreInv /\ TypeInv /\ Fresh /\ SyncMode /\ Moves(t) /\ OverInv'
      /\ UNCHANGED rows /\ \A j \in Jobs : jobs'[j] \in {jobs[j], Absent}
  BY SyncMovesAreMoves, MoveEffect, OverMove, Zenon
    DEF EventInv, OwnerInv, CoreInv, TypeInv, PipeInv
<1>1. ThreadDurable'
  <2>1. ASSUME NEW u \in Threads, Answered(u)' PROVE Durable(thr[u].job, thr[u].snap)'
    <3>1. Answered(u) /\ \E j \in Jobs : WorkingOn(u, j) /\ WorkingOn(u, j)'
      BY <1>0, <2>1, AnsweredMove, Zenon
    <3>2. PICK j \in Jobs : WorkingOn(u, j) /\ WorkingOn(u, j)'
      BY <3>1, Zenon
    <3>3. thr'[u].snap = thr[u].snap /\ jobs'[j] = jobs[j]
      BY <1>0, <3>2, MoveThreads, Zenon
    <3>4. Durable(j, thr[u].snap)
      BY <3>1, <3>2, Zenon DEF DurableInv, ThreadDurable, WorkingOn
    <3> QED
      BY <1>0, <3>2, <3>3, <3>4, Zenon DEF Durable, WorkingOn
  <2> QED
    BY <2>1, Zenon DEF ThreadDurable
<1>2. ASSUME NEW j \in Jobs, seen'[j] # Absent, seen'[j] = seen[j]
      PROVE  Durable(j, seen[j])'
  <2>1. Durable(j, seen[j])
    BY <1>2, Zenon DEF DurableInv, SeenDurable
  <2>2. CASE jobs'[j] = jobs[j]
    BY <1>0, <1>2, <2>1, <2>2, Zenon DEF Durable
  <2>3. CASE jobs'[j] = Absent
    <3>1. IsTerminal(seen'[j])
      BY <1>0, <1>2, <2>3, Zenon DEF OverInv, SeenOver, Tracked
    <3> QED
      BY <1>0, <1>2, <2>1, <3>1, Zenon DEF Durable
  <2> QED
    BY <1>0, <2>2, <2>3, Zenon
<1>3. SeenDurable'
  <2>1. CASE UNCHANGED seen
    BY <1>2, <2>1, Zenon DEF SeenDurable
  <2>2. CASE Emit(t)
    <3>1. /\ thr[t].pc = "emit" /\ thr[t] \in JobThread /\ UNCHANGED jobs
          /\ seen'[thr[t].job] = thr[t].snap
          /\ \A j \in Jobs \ {thr[t].job} : seen'[j] = seen[j]
      BY <1>0, <2>2, EmitEffect, WorkerIsUsed, Zenon DEF TypeInv
    <3>2. Durable(thr[t].job, thr[t].snap)
      BY <3>1, Zenon DEF DurableInv, ThreadDurable, Answered
    <3>3. ASSUME NEW j \in Jobs, j = thr[t].job PROVE Durable(j, seen[j])'
      BY <1>0, <3>1, <3>2, <3>3, Zenon DEF Durable
    <3> QED
      BY <1>2, <3>1, <3>3, Zenon DEF SeenDurable
  <2> QED
    BY <1>0, <2>1, <2>2, MoveSeen, Zenon
<1> QED
  BY <1>1, <1>3, Zenon DEF DurableInv

(* The worker answers after the write, and deletes only what is over.      *)
LEMMA DurableWork ==
  ASSUME WaitingWrites, EventInv, PipeInv, OverInv, DurableInv, Work
  PROVE  DurableInv'
<1>0. /\ CoreInv /\ TypeInv /\ PersistenceOK /\ PersistenceTypeOK /\ ThreadsOK /\ Owned
      /\ SeenBehind /\ UNCHANGED <<jobs, thr, seen>> /\ WorkerStep /\ WorkerSync /\ WorkerKind
      /\ rows \in [Jobs -> Snapshot \cup {Absent}] /\ seen \in [Jobs -> Snapshot \cup {Absent}]
      /\ reply \in [Threads -> {"none", "queued", "ok", "failed"}]
  BY WorkEffect, Zenon
    DEF EventInv, OwnerInv, CoreInv, TypeInv, PersistenceOK, PersistenceTypeOK, ManagerOK, PipeInv
<1>1. \A u \in Threads : thr[u].pc \in JobPCs => thr[u].job \in Jobs /\ thr[u].snap \in Snapshot
  BY <1>0, ThreadFields, Zenon DEF ThreadsOK
<1>2. ASSUME NEW u \in Threads, thr[u].pc \in JobPCs
      PROVE  Tracked(thr[u].job) /\ thr[u].snap = jobs[thr[u].job]
  BY <1>0, <1>1, <1>2, Zenon DEF Owned, WorkingOn
<1>3. ASSUME NEW j \in Jobs, seen[j] # Absent
      PROVE  /\ seen[j] \in Snapshot
             /\ IF Tracked(j) THEN Precedes(seen[j], jobs[j]) ELSE IsTerminal(seen[j])
  BY <1>0, <1>3, Zenon DEF SeenBehind, OverInv, SeenOver
<1>4. ASSUME UNCHANGED reply,
             \A j \in Jobs, s \in Snapshot :
               Durable(j, s) /\ (IF Tracked(j) THEN Precedes(s, jobs[j]) ELSE IsTerminal(s))
                 => Durable(j, s)'
      PROVE  DurableInv'
  <2>1. ASSUME NEW u \in Threads, Answered(u) PROVE Durable(thr[u].job, thr[u].snap)'
    <3>1. thr[u].pc \in JobPCs
      BY <2>1, Zenon DEF Answered, JobPCs
    <3>2. Durable(thr[u].job, thr[u].snap)
      BY <2>1, Zenon DEF DurableInv, ThreadDurable
    <3>3. Precedes(thr[u].snap, jobs[thr[u].job])
      BY <1>1, <1>2, <3>1, PrecedesReflexive, ZenonT(60)
    <3>4. thr'[u].job = thr[u].job /\ thr'[u].snap = thr[u].snap
      BY <1>0, Zenon
    <3> QED
      BY <1>1, <1>2, <1>4, <3>1, <3>2, <3>3, <3>4, ZenonT(60)
  <2>2. ThreadDurable'
    BY <1>0, <1>4, <2>1, Zenon DEF ThreadDurable, Answered
  <2>3. SeenDurable'
    BY <1>0, <1>3, <1>4, Zenon DEF DurableInv, SeenDurable
  <2> QED
    BY <2>2, <2>3, Zenon DEF DurableInv
<1>5. CASE UNCHANGED <<rows, reply>>
  BY <1>0, <1>4, <1>5, Zenon DEF Durable
<1>6. CASE /\ worker.pc = "put" /\ UNCHANGED reply
           /\ rows' = [rows EXCEPT ![worker.cmd.job] = worker.cmd.snap]
  <2> DEFINE h == worker.cmd.job
  <2> DEFINE u == worker.cmd.to
  <2>1. /\ u \in Threads /\ thr[u].pc = "wait" /\ thr[u].job = h /\ thr[u].snap = worker.cmd.snap
    BY <1>0, <1>6, Zenon DEF WorkerSync, WorkerPCs, Reserved, WorkerKind
  <2>2. h \in Jobs /\ worker.cmd.snap \in Snapshot /\ Tracked(h) /\ worker.cmd.snap = jobs[h]
    BY <1>1, <1>2, <2>1, Zenon DEF JobPCs
  <2>3. rows'[h] = jobs[h] /\ rows'[h] # Absent /\ \A k \in Jobs \ {h} : rows'[k] = rows[k]
    BY <1>0, <1>6, <2>2, Zenon DEF Tracked
  <2>4. ASSUME NEW j \in Jobs, NEW s \in Snapshot, Durable(j, s),
               IF Tracked(j) THEN Precedes(s, jobs[j]) ELSE IsTerminal(s)
        PROVE  Durable(j, s)'
    <3>1. CASE j = h
      BY <2>2, <2>3, <2>4, <3>1, ZenonT(60) DEF Durable
    <3>2. CASE j # h
      BY <1>0, <2>3, <2>4, <3>2, ZenonT(60) DEF Durable
    <3> QED
      BY <3>1, <3>2, Zenon
  <2> QED
    BY <1>4, <1>6, <2>4, Zenon
<1>7. CASE /\ worker.pc = "delete" /\ UNCHANGED reply
           /\ rows' = Prune(worker.cmd.jobs)
  <2>1. \A j \in Jobs : rows'[j] = rows[j] \/ (rows'[j] = Absent /\ IsTerminal(rows[j]))
    BY <1>0, <1>7, PruneEffect, Zenon
  <2>2. ASSUME NEW j \in Jobs, NEW s \in Snapshot, Durable(j, s),
               IF Tracked(j) THEN Precedes(s, jobs[j]) ELSE IsTerminal(s)
        PROVE  Durable(j, s)'
    BY <1>0, <2>1, <2>2, DurablePruned, Zenon
  <2> QED
    BY <1>4, <1>7, <2>2, Zenon
<1>8. CASE /\ worker.pc \in {"putdone", "reply"} /\ UNCHANGED rows
           /\ reply' = [reply EXCEPT ![worker.cmd.to] = "ok"]
  <2> DEFINE u == worker.cmd.to
  <2>1. /\ u \in Threads
        /\ \/ /\ thr[u].pc = "wait" /\ worker.pc = "putdone"
              /\ rows[thr[u].job] = thr[u].snap
           \/ thr[u].pc = "pruneWait"
    BY <1>0, <1>8, Zenon DEF WorkerSync, WorkerPCs, Reserved, WorkerKind
  <2>2. reply'[u] = "ok" /\ \A v \in Threads \ {u} : reply'[v] = reply[v]
    BY <1>0, <1>8, <2>1, ZenonT(60)
  <2>3. SeenDurable'
    BY <1>0, <1>8, Zenon DEF DurableInv, SeenDurable, Durable
  <2>4. ASSUME NEW v \in Threads, Answered(v)' PROVE Durable(thr[v].job, thr[v].snap)'
    <3>1. CASE v = u
      <4>1. thr[u].pc = "wait" /\ rows[thr[u].job] = thr[u].snap
        BY <1>0, <2>1, <2>4, <3>1, ZenonT(60) DEF Answered
      <4>2. thr[u].snap \in Snapshot
        BY <1>1, <2>1, <4>1, Zenon DEF JobPCs
      <4>3. Precedes(thr[u].snap, thr[u].snap) /\ thr[u].snap # Absent
        BY <4>2, PrecedesReflexive, SnapshotTypes, Zenon
      <4> QED
        BY <1>0, <1>8, <3>1, <4>1, <4>3, ZenonT(60) DEF Durable
    <3>2. CASE v # u
      <4>1. Answered(v)
        BY <1>0, <2>2, <2>4, <3>2, Zenon DEF Answered
      <4> QED
        BY <1>0, <1>8, <4>1, Zenon DEF DurableInv, ThreadDurable, Durable
    <3> QED
      BY <3>1, <3>2, Zenon
  <2> QED
    BY <2>3, <2>4, Zenon DEF DurableInv, ThreadDurable
<1> QED
  BY <1>0, <1>5, <1>6, <1>7, <1>8, SyncWork, ZenonT(60)

(* What subscribers were told stays durable.                               *)
LEMMA DurableStep ==
  ASSUME WaitingWrites, EventInv, PipeInv, OverInv, DurableInv, [Next]_vars
  PROVE  DurableInv'
<1>0. /\ CoreInv /\ TypeInv /\ Quiet /\ TodoInv /\ Fresh /\ SeenBehind /\ SyncMode
      /\ ThreadsOK /\ Errors = {} /\ jobs \in [Jobs -> Snapshot \cup {Absent}]
      /\ rows \in [Jobs -> Snapshot \cup {Absent}]
  BY Zenon DEF EventInv, OwnerInv, CoreInv, TypeInv, PersistenceOK, PersistenceTypeOK, ManagerOK,
         PipeInv, WaitingWrites
<1>1. ASSUME NEW t \in Threads, NEW j \in Jobs, thr'[t].pc = "put",
             Others(t), UNCHANGED <<rows, reply, seen>>,
             \A k \in Jobs \ {j} : jobs'[k] = jobs[k],
             IsTerminal(jobs[j]) => jobs'[j] = jobs[j]
      PROVE  DurableInv'
  <2>1. ASSUME NEW k \in Jobs, NEW s, Durable(k, s) PROVE Durable(k, s)'
    <3>1. IsTerminal(jobs[k]) => IsTerminal(jobs'[k])
      BY <1>1, Zenon
    <3> QED
      BY <1>1, <2>1, <3>1, DurableStays, Zenon
  <2>2. ASSUME NEW u \in Threads, Answered(u)' PROVE Durable(thr[u].job, thr[u].snap)'
    <3>1. u # t /\ thr'[u] = thr[u] /\ Answered(u)
      BY <1>1, <2>2, Zenon DEF Answered, Others
    <3>2. thr[u].job \in Jobs
      BY <1>0, <3>1, ThreadFields, ZenonT(60) DEF ThreadsOK, Answered, JobPCs
    <3>3. Durable(thr[u].job, thr[u].snap)
      BY <3>1, Zenon DEF DurableInv, ThreadDurable
    <3> QED
      BY <2>1, <3>1, <3>2, <3>3, Zenon DEF Durable
  <2>3. SeenDurable'
    BY <1>1, <2>1, Zenon DEF DurableInv, SeenDurable
  <2> QED
    BY <2>2, <2>3, Zenon DEF DurableInv, ThreadDurable
<1>2. ASSUME NEW t \in Threads, NEW j \in Jobs, NEW parent \in Jobs, Create(t, j, parent)
      PROVE  DurableInv'
  <2>1. /\ UNCHANGED <<pvars, seen>> /\ j \notin used
        /\ \A k \in Jobs \ {j} : jobs'[k] = jobs[k]
        /\ thr'[t].pc = "put" /\ Others(t)
    BY <1>0, <1>2, CreateEffect, ZenonT(60) DEF Others
  <2>2. ~IsTerminal(jobs[j])
    BY <1>0, <2>1, SMTT(60) DEF Fresh, IsTerminal, Absent, TerminalStatuses
  <2> QED
    BY <1>1, <2>1, <2>2, Zenon DEF pvars
<1>3. ASSUME NEW t \in Threads, NEW j \in Jobs, Changes(t, j) PROVE DurableInv'
  <2>1. PICK s \in Snapshot, op \in {"output", "update"} :
          /\ Transition(t, j, op, s) /\ Precedes(jobs[j], s)
          /\ op = "output" => s = jobs[j]
    BY <1>0, <1>3, ChangeEffect, Zenon
  <2>2. op \in JobOps
    BY Zenon DEF JobOps
  <2>3. /\ UNCHANGED <<pvars, seen>> /\ jobs'[j] = s
        /\ \A k \in Jobs \ {j} : jobs'[k] = jobs[k]
        /\ thr'[t].pc = "put" /\ Others(t)
    BY <1>0, <2>1, <2>2, TransitionEffect, Zenon DEF Others
  <2>4. IsTerminal(jobs[j]) => s = jobs[j]
    BY <2>1, TerminalStays, SMTT(60)
  <2> QED
    BY <1>1, <2>3, <2>4, Zenon DEF pvars
<1>4. ASSUME NEW t \in Threads, SyncMoves(t) PROVE DurableInv'
  BY <1>4, DurableMove, Zenon
<1>5. ASSUME Work PROVE DurableInv'
  BY <1>5, DurableWork, Zenon
<1>6. ASSUME \A t \in Threads : thr'[t].pc = "idle", SeenDurable' PROVE DurableInv'
  BY <1>6, Zenon DEF DurableInv, ThreadDurable, Answered
<1>7. ASSUME Crash PROVE DurableInv'
  BY <1>0, <1>6, <1>7, CrashEffect, Zenon DEF SeenDurable
<1>8. ASSUME \/ \E old \in SUBSET Jobs : Restart(old)
             \/ RecoverList
      PROVE  DurableInv'
  <2>1. UNCHANGED <<thr, seen>> /\ phase \in {"down", "starting"}
    BY <1>8, Zenon DEF Restart, RecoverList
  <2>2. \A j \in Jobs : seen'[j] = Absent
    BY <1>0, <2>1, Zenon DEF SeenBehind
  <2>3. \A t \in Threads : thr'[t].pc = "idle"
    BY <1>0, <2>1, Zenon DEF Quiet
  <2> QED
    BY <1>6, <2>2, <2>3, Zenon DEF SeenDurable
<1>9. ASSUME NEW j \in Jobs, RecoverRow(j) PROVE DurableInv'
  <2>1. rows[j] # Absent /\ rows[j] \in Snapshot
    BY <1>0, <1>9, Zenon DEF TodoInv, RecoverRow
  <2>2. CanWrite(circuit)
    BY <1>0, Zenon DEF SyncMode, CanWrite, Configured
  <2>3. /\ phase = "recovering" /\ j \in todo /\ UNCHANGED thr
        /\ seen'[j] \in {seen[j], Recovered(rows[j])} /\ rows'[j] = Recovered(rows[j])
        /\ \A k \in Jobs \ {j} : /\ jobs'[k] = jobs[k] /\ rows'[k] = rows[k]
                                 /\ seen'[k] = seen[k]
    BY <1>0, <1>9, <2>1, <2>2, RecoverRowEffect, ZenonT(60)
  <2>4. \A t \in Threads : thr'[t].pc = "idle"
    BY <1>0, <2>3, Zenon DEF Quiet
  <2>5. seen[j] = Absent
    BY <1>0, <2>3, Zenon DEF SeenBehind
  <2>6. Recovered(rows[j]) # Absent /\ Precedes(Recovered(rows[j]), Recovered(rows[j]))
    BY <2>1, RecoveredForward, PrecedesReflexive, SnapshotTypes, ZenonT(60)
  <2>7. ASSUME NEW k \in Jobs, seen'[k] # Absent PROVE Durable(k, seen[k])'
    <3>1. CASE k = j
      BY <2>3, <2>5, <2>6, <2>7, <3>1, ZenonT(60) DEF Durable
    <3>2. CASE k # j
      <4>1. jobs'[k] = jobs[k] /\ rows'[k] = rows[k] /\ seen'[k] = seen[k]
        BY <2>3, <3>2, Zenon
      <4> QED
        BY <2>7, <4>1, Zenon DEF DurableInv, SeenDurable, Durable
    <3> QED
      BY <3>1, <3>2, Zenon
  <2> QED
    BY <1>6, <2>4, <2>7, Zenon DEF SeenDurable
<1>10. ASSUME Serve \/ UNCHANGED vars PROVE DurableInv'
  <2>1. UNCHANGED <<rows, jobs, thr, seen, reply>>
    BY <1>10, Zenon DEF Serve, vars, pvars, mvars
  <2> QED
    BY <2>1, Zenon DEF DurableInv, ThreadDurable, SeenDurable, Answered, Durable
<1> QED
  BY <1>0, <1>2, <1>3, <1>4, <1>5, <1>7, <1>8, <1>9, <1>10, SyncCases, ZenonT(60)

(* An id that a client holds keeps its row, and is found after recovery.   *)
LEMMA KnownStep ==
  ASSUME WaitingWrites, EventInv, PipeInv, DurableInv, KnownInv, [Next]_vars
  PROVE  KnownInv'
<1>0. /\ CoreInv /\ TypeInv /\ Quiet /\ TodoInv /\ Fresh /\ SyncMode /\ Owned
      /\ ThreadsOK /\ Errors = {} /\ jobs \in [Jobs -> Snapshot \cup {Absent}]
      /\ rows \in [Jobs -> Snapshot \cup {Absent}] /\ known \subseteq used /\ used \subseteq Jobs
      /\ known \subseteq Jobs
  BY Zenon DEF EventInv, OwnerInv, CoreInv, TypeInv, PersistenceOK, PersistenceTypeOK, ManagerOK,
         PipeInv, WaitingWrites
<1>1. CreateSnap /\ Found /\ (CreateSnap' /\ Found' => KnownInv')
  BY Zenon DEF KnownInv
<1>2. ASSUME NEW t \in Threads, NEW j \in Jobs, UNCHANGED <<rows, phase, known, todo>>,
             \A k \in Jobs \ {j} : jobs'[k] = jobs[k], jobs'[j] # Absent,
             Others(t), thr'[t].op = "create" => thr'[t].snap = NewJob
      PROVE  KnownInv'
  <2>1. CreateSnap'
    BY <1>1, <1>2, Zenon DEF Found, CreateSnap, Others
  <2>2. Found'
    BY <1>0, <1>1, <1>2, Zenon DEF Found, CreateSnap, Tracked
  <2> QED
    BY <1>1, <2>1, <2>2, Zenon
<1>3. ASSUME NEW t \in Threads, NEW j \in Jobs, NEW parent \in Jobs, Create(t, j, parent)
      PROVE  KnownInv'
  <2>1. /\ UNCHANGED <<pvars, phase, known, todo>>
        /\ \A k \in Jobs \ {j} : jobs'[k] = jobs[k]
        /\ thr'[t].snap = NewJob /\ jobs'[j] = NewJob /\ Others(t)
    BY <1>0, <1>3, CreateEffect, Zenon DEF Others
  <2>2. NewJob # Absent
    BY SnapshotTypes, Zenon
  <2> QED
    BY <1>2, <2>1, <2>2, Zenon DEF pvars
<1>4. ASSUME NEW t \in Threads, NEW j \in Jobs, Changes(t, j) PROVE KnownInv'
  <2>1. PICK s \in Snapshot, op \in {"output", "update"} : Transition(t, j, op, s)
    BY <1>0, <1>4, ChangeEffect, ZenonT(60)
  <2>2. op \in JobOps
    BY Zenon DEF JobOps
  <2>3. /\ UNCHANGED <<pvars, phase, known, todo>> /\ jobs'[j] = s
        /\ \A k \in Jobs \ {j} : jobs'[k] = jobs[k]
        /\ thr'[t].op = op /\ Others(t)
    BY <1>0, <2>1, <2>2, TransitionEffect, ZenonT(60) DEF Others
  <2>4. s # Absent
    BY SnapshotTypes, Zenon
  <2> QED
    BY <1>2, <2>3, <2>4, Zenon DEF pvars
<1>5. ASSUME NEW t \in Threads, SyncMoves(t) PROVE KnownInv'
  <2>1. Moves(t) /\ UNCHANGED <<rows, phase, todo>>
    BY <1>0, <1>5, SyncMovesAreMoves, MoveEffect, ZenonT(60)
  <2>2. CreateSnap'
    <3>1. ASSUME NEW u \in Threads, thr'[u].pc \in JobPCs, thr'[u].op = "create"
          PROVE  thr'[u].snap = NewJob
      <4>1. PICK j \in Jobs : thr'[u].job = j
        BY <1>0, <2>1, <3>1, MoveEffect, ThreadFields, ZenonT(60) DEF TypeInv, ThreadsOK
      <4>2. WorkingOn(u, j)'
        BY <3>1, <4>1, Zenon DEF WorkingOn
      <4>3. WorkingOn(u, j) /\ thr'[u].snap = thr[u].snap /\ thr'[u].op = thr[u].op
        BY <1>0, <2>1, <4>2, MoveThreads, ZenonT(60)
      <4> QED
        BY <1>1, <3>1, <4>3, Zenon DEF Found, CreateSnap, WorkingOn
    <3> QED
      BY <3>1, Zenon DEF Found, CreateSnap
  <2>3. CASE Emit(t)
    <3>1. /\ thr[t].pc = "emit" /\ thr[t] \in JobThread /\ UNCHANGED jobs
          /\ known' = IF thr[t].op = "create" THEN known \cup {thr[t].job} ELSE known
      BY <1>0, <2>3, EmitEffect, WorkerIsUsed, Zenon DEF TypeInv
    <3> DEFINE h == thr[t].job
    <3>2. h \in Jobs /\ Tracked(h) /\ thr[t].snap = jobs[h] /\ phase = "up"
      BY <1>0, <3>1, ThreadKinds, Zenon DEF Owned, WorkingOn, JobPCs, Quiet
    <3>3. thr[t].op = "create" => rows[h] # Absent
      <4>1. Durable(h, thr[t].snap)
        BY <3>1, Zenon DEF DurableInv, ThreadDurable, Answered
      <4>2. thr[t].op = "create" => ~IsTerminal(thr[t].snap)
        <5>1. thr[t].op = "create" => thr[t].snap = NewJob
          BY <1>1, <3>1, Zenon DEF Found, CreateSnap, JobPCs
        <5>2. ~IsTerminal(NewJob)
          BY Zenon DEF NewJob, IsTerminal, TerminalStatuses
        <5> QED
          BY <5>1, <5>2, Zenon
      <4> QED
        BY <3>2, <4>1, <4>2, Zenon DEF Durable
    <3>4. Found'
      BY <1>0, <1>1, <2>1, <3>1, <3>2, <3>3, ZenonT(60) DEF Found, CreateSnap, Tracked
    <3> QED
      BY <1>1, <2>2, <3>4, Zenon
  <2>4. CASE Remove(t)
    <3>1. PICK j \in thr[t].old : jobs' = [jobs EXCEPT ![j] = Absent] /\ known' = known \ {j}
      BY <2>4, Zenon DEF Remove
    <3>2. Found'
      BY <1>0, <1>1, <2>1, <3>1, ZenonT(60) DEF Found, CreateSnap, Tracked
    <3> QED
      BY <1>1, <2>2, <3>2, ZenonT(60)
  <2>5. CASE ~Emit(t) /\ ~Remove(t)
    <3>1. UNCHANGED <<jobs, known>>
      BY <1>5, <2>5, ZenonT(60) DEF SyncMoves, PersistPut, PutSend, PutReturned, PruneRequest, PruneSend,
                        PruneReturned, GcStale, Cancel
    <3>2. Found'
      BY <1>1, <2>1, <3>1, Zenon DEF Found, CreateSnap, Tracked
    <3> QED
      BY <1>1, <2>2, <3>2, Zenon
  <2> QED
    BY <2>3, <2>4, <2>5, Zenon
<1>6. ASSUME Work PROVE KnownInv'
  <2>1. /\ known' = {j \in known : rows[j] = Absent \/ rows'[j] # Absent}
        /\ UNCHANGED <<phase, jobs, thr, todo>>
    BY <1>0, <1>6, WorkEffect, ZenonT(60)
  <2> QED
    BY <1>1, <2>1, Zenon DEF Found, CreateSnap, Tracked
<1>7. ASSUME Crash PROVE KnownInv'
  <2>1. /\ UNCHANGED <<rows, known>> /\ phase' = "down" /\ \A t \in Threads : thr'[t].pc = "idle"
    BY <1>0, <1>7, CrashEffect, ZenonT(60)
  <2> QED
    BY <1>1, <2>1, ZenonT(60) DEF Found, CreateSnap, JobPCs
<1>8. ASSUME \E old \in SUBSET Jobs : Restart(old) PROVE KnownInv'
  <2>1. /\ known' = {j \in known : rows[j] = Absent \/ rows'[j] # Absent}
        /\ UNCHANGED thr /\ phase' = "starting"
    BY <1>8, Zenon DEF Restart, ForgetPurged
  <2> QED
    BY <1>1, <2>1, ZenonT(60) DEF Found, CreateSnap
<1>9. ASSUME RecoverList PROVE KnownInv'
  <2>1. /\ todo' = {j \in Jobs : rows[j] # Absent}
        /\ UNCHANGED <<rows, known, thr>> /\ phase' = "recovering"
    BY <1>0, <1>9, ZenonT(60) DEF RecoverList
  <2> QED
    BY <1>0, <1>1, <2>1, ZenonT(60) DEF Found, CreateSnap
<1>10. ASSUME NEW j \in Jobs, RecoverRow(j) PROVE KnownInv'
  <2>1. rows[j] # Absent /\ rows[j] \in Snapshot
    BY <1>0, <1>10, ZenonT(60) DEF TodoInv, RecoverRow
  <2>2. /\ phase = "recovering" /\ UNCHANGED <<thr, phase, known>>
        /\ todo' = todo \ {j} /\ jobs'[j] = Recovered(rows[j])
        /\ rows'[j] \in {rows[j], Recovered(rows[j])}
        /\ \A k \in Jobs \ {j} : jobs'[k] = jobs[k] /\ rows'[k] = rows[k]
    BY <1>0, <1>10, <2>1, RecoverRowEffect, ZenonT(60)
  <2>3. Recovered(rows[j]) # Absent
    BY <2>1, RecoveredForward, SnapshotTypes, ZenonT(60)
  <2>4. Found'
    BY <1>0, <1>1, <2>1, <2>2, <2>3, ZenonT(60) DEF Found, CreateSnap, Tracked
  <2> QED
    BY <1>1, <2>2, <2>4, ZenonT(60) DEF Found, CreateSnap
<1>11. ASSUME Serve PROVE KnownInv'
  <2>1. /\ phase = "recovering" /\ todo = {} /\ phase' = "up"
        /\ UNCHANGED <<rows, jobs, known, thr>>
    BY <1>11, Zenon DEF Serve, pvars
  <2> QED
    BY <1>1, <2>1, ZenonT(60) DEF Found, CreateSnap, Tracked
<1>12. ASSUME UNCHANGED vars PROVE KnownInv'
  BY <1>12, Zenon DEF KnownInv, Found, CreateSnap, Tracked, vars, pvars, mvars
<1> QED
  BY <1>0, <1>3, <1>4, <1>5, <1>6, <1>7, <1>8, <1>9, <1>10, <1>11, <1>12, SyncCases, ZenonT(60)

(* The invariant of this configuration holds at the start.                 *)
LEMMA SyncInit == ASSUME WaitingWrites, Init PROVE SyncInv
<1>1. EventInv
  BY EventInit, ZenonT(60)
<1>2. PipeInv
  <2>1. SyncMode
    BY ThreadKinds, Zenon
      DEF Init, PersistenceInit, SyncMode, WaitingWrites, DrainPCs, PrunePCs, ThreadIdle, FreshWriter
  <2> QED
    BY <2>1, SMTT(60) DEF Init, PersistenceInit, FreshWriter, PipeInv, QueueSync, WorkerSync, Idle, WorkerPCs
<1>3. OverInv /\ DurableInv /\ KnownInv
  BY Zenon DEF Init, OverInv, OldOver, SeenLatest, SeenOver, DurableInv, ThreadDurable, SeenDurable,
         Answered, KnownInv, Found, CreateSnap, ThreadIdle, PrunePCs, JobPCs
<1> QED
  BY <1>1, <1>2, <1>3, ZenonT(60) DEF SyncInv

(* The invariant of this configuration always holds.                       *)
LEMMA SyncAlways == ASSUME WaitingWrites PROVE Spec => []SyncInv
<1>1. Init => SyncInv
  BY SyncInit, Zenon
<1>2. SyncInv /\ [Next]_vars => SyncInv'
  <2>1. SUFFICES ASSUME SyncInv, [Next]_vars PROVE SyncInv'
    BY Zenon
  <2>2. OwnerPerJob /\ EventInv /\ PipeInv /\ SyncMode /\ CoreInv
    BY <2>1, Zenon DEF SyncInv, WaitingWrites, PipeInv, EventInv, OwnerInv
  <2>3. EventInv'
    BY <2>1, <2>2, EventStep, Zenon
  <2>4. PipeInv'
    BY <2>1, <2>2, PipeStep, Zenon
  <2>5. OverInv' /\ DurableInv' /\ KnownInv'
    BY <2>1, <2>2, OverStep, DurableStep, KnownStep, ZenonT(60) DEF SyncInv
  <2> QED
    BY <2>3, <2>4, <2>5, Zenon DEF SyncInv
<1> QED
  BY <1>1, <1>2, PTL DEF Spec

(* A state that a subscriber was told of survives a crash: when writes     *)
(* wait for the backend, whatever was announced is on disk, or something   *)
(* later is, or the job is over and was purged.                            *)
THEOREM EventsAreDurable == ASSUME WaitingWrites PROVE Spec => []NotifiedIsDurable
<1>1. SyncInv => NotifiedIsDurable
  BY Zenon DEF SyncInv, DurableInv, SeenDurable, Durable, NotifiedIsDurable
<1> QED
  BY <1>1, SyncAlways, PTL

(* An id that a client holds can be queried whenever the server is up,     *)
(* across any number of crashes, until a purge takes the job: "clients     *)
(* never see a silently lost job" (job_storage/mod.rs).                    *)
THEOREM JobsAreNeverLost == ASSUME WaitingWrites PROVE Spec => []NeverLost
<1>1. SyncInv => NeverLost
  BY Zenon DEF SyncInv, KnownInv, Found, NeverLost
<1> QED
  BY <1>1, SyncAlways, PTL
=============================================================================
