---------------------------- MODULE SqliteStorage ----------------------------
(***************************************************************************)
(* Ownership of a job database file (dcc-mcp-job/src/job_storage/          *)
(* sqlite.rs): every SqliteStorage opened on the file, in whatever process, *)
(* competes for one lease, an OS lock on a sidecar file.  An operation     *)
(* holds a read guard on the instance's lifecycle lock; shutdown and       *)
(* force_close give the lease up only once no guard is left, the latter    *)
(* through a fence thread if it has to wait.                               *)
(*                                                                         *)
(* The rows are not modelled here (see JobPersistence); what matters is    *)
(* which instance has a statement running.                                 *)
(***************************************************************************)
EXTENDS Naturals

CONSTANTS
    Instances,   \* SqliteStorage values, each opened once
    Callers,     \* threads that use an instance
    NoOwner,     \* the sidecar file is not locked
    SpawnFails   \* whether the OS may refuse the fence thread

ASSUME OwnerAssumption == NoOwner \notin Instances
ASSUME SpawnAssumption == SpawnFails \in BOOLEAN

VARIABLES
    lease,      \* the instance whose descriptor holds the OS lock
    status,     \* "new", "opening", "open" or "gone"
    lockFile,   \* lock_file is Some: this instance has not unlocked yet
    closed,     \* the closed flag
    op,         \* op[i][c]: where caller c is inside an operation of i
    closer,     \* the thread that shuts the instance down
    fence,      \* the close thread: "none", "waiting" or "done"
    late        \* history: write statements that started on a closed instance

vars == <<lease, status, lockFile, closed, op, closer, fence, late>>

(* entered: guard taken, closed not yet read; checked: ensure_open         *)
(* returned; locked: holds conn; cleared: a write that has read closed once *)
(* more; query, execute: the statement is running.                         *)
Guarded == {"entered", "checked", "locked", "cleared", "query", "execute"}

Statement == {"query", "execute"}

TypeOK ==
    /\ lease \in Instances \cup {NoOwner}
    /\ status \in [Instances -> {"new", "opening", "open", "gone"}]
    /\ lockFile \in [Instances -> BOOLEAN]
    /\ closed \in [Instances -> BOOLEAN]
    /\ op \in [Instances -> [Callers -> {"idle"} \cup Guarded]]
    /\ closer \in [Instances -> {"idle", "waiting", "marked"}]
    /\ fence \in [Instances -> {"none", "waiting", "done"}]
    /\ late \in [Instances -> Nat]

Init ==
    /\ lease = NoOwner
    /\ status = [i \in Instances |-> "new"]
    /\ lockFile = [i \in Instances |-> FALSE]
    /\ closed = [i \in Instances |-> FALSE]
    /\ op = [i \in Instances |-> [c \in Callers |-> "idle"]]
    /\ closer = [i \in Instances |-> "idle"]
    /\ fence = [i \in Instances |-> "none"]
    /\ late = [i \in Instances |-> 0]

(* No read guard on the lifecycle lock: a writer gets it.                  *)
Quiescent(i) == \A c \in Callers : op[i][c] \notin Guarded

(* lock_file.take() and unlock: only the first take finds the file.        *)
Unlock(i) ==
    /\ lockFile' = [lockFile EXCEPT ![i] = FALSE]
    /\ lease' = IF lockFile[i] THEN NoOwner ELSE lease

-----------------------------------------------------------------------------
(* open: try_lock fails at once while another instance has the lock; the   *)
(* schema and the writability probe are written before it returns.         *)
Open(i) ==
    /\ status[i] = "new"
    /\ lease = NoOwner
    /\ lease' = i
    /\ lockFile' = [lockFile EXCEPT ![i] = TRUE]
    /\ status' = [status EXCEPT ![i] = "opening"]
    /\ UNCHANGED <<closed, op, closer, fence, late>>

OpenReturns(i) ==
    /\ status[i] = "opening"
    /\ status' = [status EXCEPT ![i] = "open"]
    /\ UNCHANGED <<lease, lockFile, closed, op, closer, fence, late>>

(* An error after the lock was taken drops the file.                       *)
OpenFails(i) ==
    /\ status[i] = "opening"
    /\ status' = [status EXCEPT ![i] = "new"]
    /\ Unlock(i)
    /\ UNCHANGED <<closed, op, closer, fence, late>>

-----------------------------------------------------------------------------
(* put, update_status, delete_older_than (execute) and get, list (query).  *)
At(i, c, pc) == status[i] = "open" /\ op[i][c] = pc

Goto(i, c, pc) ==
    /\ op' = [op EXCEPT ![i][c] = pc]
    /\ UNCHANGED <<lease, status, lockFile, closed, closer, fence>>

(* A step that starts no write.                                            *)
Move(i, c, pc) == Goto(i, c, pc) /\ UNCHANGED late

(* lifecycle.read(): a writer that waits keeps new readers out.            *)
Enter(i, c) ==
    /\ At(i, c, "idle")
    /\ closer[i] # "waiting" /\ fence[i] # "waiting"
    /\ Move(i, c, "entered")

EnsureOpen(i, c) ==
    /\ At(i, c, "entered")
    /\ Move(i, c, IF closed[i] THEN "idle" ELSE "checked")

LockConnection(i, c) ==
    /\ At(i, c, "checked")
    /\ \A d \in Callers : op[i][d] \notin {"locked", "cleared"} \cup Statement
    /\ Move(i, c, "locked")

Query(i, c) ==
    /\ At(i, c, "locked")
    /\ Move(i, c, "query")

(* Faulty: the flag is not read again.                                     *)
RecheckSkipped(i, c) ==
    /\ At(i, c, "locked")
    /\ Move(i, c, "cleared")

(* A write reads the flag again under the connection's mutex, a read does  *)
(* not.                                                                    *)
Recheck(i, c) ==
    /\ At(i, c, "locked")
    /\ Move(i, c, IF closed[i] THEN "idle" ELSE "cleared")

(* The write statement starts.  force_close sets the flag without the      *)
(* mutex, and its interrupt reaches only a statement that already runs.    *)
Execute(i, c) ==
    /\ At(i, c, "cleared")
    /\ Goto(i, c, "execute")
    /\ late' = [late EXCEPT ![i] = IF closed[i] THEN @ + 1 ELSE @]

(* The statement ends, fails or is interrupted.                            *)
Finish(i, c) ==
    /\ \E pc \in Statement : At(i, c, pc)
    /\ Move(i, c, "idle")

-----------------------------------------------------------------------------
(* shutdown_with_timeout: try_write_for, then close and unlock under the   *)
(* write guard; on the timeout, force_close.                               *)
Shutdown(i) ==
    /\ status[i] = "open" /\ closer[i] = "idle"
    /\ closer' = [closer EXCEPT ![i] = "waiting"]
    /\ UNCHANGED <<lease, status, lockFile, closed, op, fence, late>>

ShutdownReleases(i) ==
    /\ closer[i] = "waiting"
    /\ Quiescent(i)
    /\ closed' = [closed EXCEPT ![i] = TRUE]
    /\ Unlock(i)
    /\ closer' = [closer EXCEPT ![i] = "idle"]
    /\ UNCHANGED <<status, op, fence, late>>

(* The first step of force_close, on its own or after the timeout.         *)
ForceClose(i) ==
    /\ status[i] = "open" /\ closer[i] \in {"idle", "waiting"}
    /\ closed' = [closed EXCEPT ![i] = TRUE]
    /\ closer' = [closer EXCEPT ![i] = "marked"]
    /\ UNCHANGED <<lease, status, lockFile, op, fence, late>>

(* Faulty: the lease goes while operations are inside.                     *)
ForceReleaseAtOnce(i) ==
    /\ closer[i] = "marked"
    /\ Unlock(i)
    /\ closer' = [closer EXCEPT ![i] = "idle"]
    /\ UNCHANGED <<status, closed, op, fence, late>>

ForceRelease(i) ==
    /\ closer[i] = "marked"
    /\ Quiescent(i)
    /\ Unlock(i)
    /\ closer' = [closer EXCEPT ![i] = "idle"]
    /\ UNCHANGED <<status, closed, op, fence, late>>

(* Faulty: nobody is left to release the lease.                            *)
ForceDeferUnfenced(i) ==
    /\ closer[i] = "marked"
    /\ ~Quiescent(i)
    /\ closer' = [closer EXCEPT ![i] = "idle"]
    /\ UNCHANGED <<lease, status, lockFile, closed, op, fence, late>>

(* Guards are left: the first such call starts the fence thread.           *)
ForceDefer(i) ==
    /\ closer[i] = "marked"
    /\ ~Quiescent(i)
    /\ \/ /\ fence[i] = "none"
          /\ fence' = [fence EXCEPT ![i] = "waiting"]
       \/ /\ fence[i] # "none" \/ SpawnFails
          /\ UNCHANGED fence
    /\ closer' = [closer EXCEPT ![i] = "idle"]
    /\ UNCHANGED <<lease, status, lockFile, closed, op, late>>

(* The fence thread obtains lifecycle.write().                             *)
Fence(i) ==
    /\ fence[i] = "waiting"
    /\ Quiescent(i)
    /\ Unlock(i)
    /\ fence' = [fence EXCEPT ![i] = "done"]
    /\ UNCHANGED <<status, closed, op, closer, late>>

-----------------------------------------------------------------------------
(* The last reference to the storage goes: nobody is inside it.            *)
Drop(i) ==
    /\ status[i] = "open" /\ closer[i] = "idle"
    /\ Quiescent(i)
    /\ status' = [status EXCEPT ![i] = "gone"]
    /\ Unlock(i)
    /\ UNCHANGED <<closed, op, closer, fence, late>>

(* The process dies: its threads are gone and the OS drops its locks.      *)
ProcessDies(i) ==
    /\ status[i] \in {"opening", "open"}
    /\ status' = [status EXCEPT ![i] = "gone"]
    /\ op' = [op EXCEPT ![i] = [c \in Callers |-> "idle"]]
    /\ closer' = [closer EXCEPT ![i] = "idle"]
    /\ fence' = [fence EXCEPT ![i] = "done"]
    /\ Unlock(i)
    /\ UNCHANGED <<closed, late>>

-----------------------------------------------------------------------------
Operation(i, c) ==
    \/ EnsureOpen(i, c)
    \/ LockConnection(i, c)
    \/ Query(i, c)
    \/ Recheck(i, c)
    \/ Execute(i, c)
    \/ Finish(i, c)

Closing(i) == ShutdownReleases(i) \/ ForceRelease(i) \/ ForceDefer(i)

Next ==
    \E i \in Instances :
        \/ Open(i) \/ OpenReturns(i) \/ OpenFails(i)
        \/ \E c \in Callers : Enter(i, c) \/ Operation(i, c)
        \/ Shutdown(i) \/ ForceClose(i) \/ Closing(i)
        \/ Fence(i) \/ Drop(i) \/ ProcessDies(i)

Spec == Init /\ [][Next]_vars

(***************************************************************************)
(* Operations that entered come to an end (statements are bounded by the   *)
(* busy timeout and interrupted by force_close), the closing thread and    *)
(* the fence thread are scheduled, and the shutdown timeout passes.        *)
(***************************************************************************)
Fairness ==
    \A i \in Instances :
        /\ \A c \in Callers : SF_vars(Operation(i, c))
        /\ WF_vars(Closing(i))
        /\ WF_vars(closer[i] = "waiting" /\ ForceClose(i))
        /\ WF_vars(Fence(i))

FairSpec == Spec /\ Fairness

-----------------------------------------------------------------------------
(***************************************************************************)
(* "otherwise a replacement could acquire the lease before a pre-statement *)
(* writer is fenced" (force_close): an instance that passed the closed     *)
(* check, and above all one whose statement is running, owns the file.     *)
(***************************************************************************)
Inside(i) == \E c \in Callers : op[i][c] \in Guarded \ {"entered"}

OwnerOnly == \A i \in Instances : Inside(i) \/ status[i] = "opening" => lease = i

(***************************************************************************)
(* Closing an instance lets at most one more write through, however many   *)
(* callers were past ensure_open: the one that had read the flag under the *)
(* connection's mutex (put, update_status, delete_older_than) when         *)
(* force_close set it.                                                     *)
(***************************************************************************)
AtMostOneLateWrite == \A i \in Instances : late[i] <= 1

(***************************************************************************)
(* The file is handed over: whatever was running when force_close or       *)
(* shutdown closed an instance, its lease is released in the end, so that  *)
(* a replacement can open the database.                                    *)
(***************************************************************************)
HandsOver == \A i \in Instances : closed[i] ~> lease # i

=============================================================================
