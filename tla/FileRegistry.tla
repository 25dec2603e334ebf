---------------------------- MODULE FileRegistry ----------------------------
(***************************************************************************)
(* The service registry that DCC processes share through services.json     *)
(* (dcc-mcp-transport, discovery/file_registry.rs), with the heartbeat     *)
(* that republishes a lost row and the shutdown that removes it            *)
(* (dcc-mcp-gateway, gateway/runner.rs and gateway/handle.rs).             *)
(*                                                                         *)
(* Every process holds one handle: an in-memory map, the modification time *)
(* it last saw, and a locked sentinel file for the service it registered.  *)
(* A mutation is a transaction under services.lock that reloads the file,  *)
(* edits the map, flushes the map and publishes it.  Readers take no lock. *)
(*                                                                         *)
(* A row is reduced to its lease: Absent, NoClient or the client that      *)
(* holds it.  Time is not modelled: which rows are stale and which leases  *)
(* have expired is a choice made when the code looks.                      *)
(***************************************************************************)
EXTENDS Naturals, FiniteSets

CONSTANTS Procs,      \* processes, each with one handle and one service
          Legacy,     \* services of older builds that write without the lock
          Gateways,   \* processes that prune, evict and lease
          Readers,    \* processes whose handle is also read by other threads
          Mortal,     \* services whose DCC host may die under them
          Clients,    \* callers that lease a service
          NoClient, Absent, NoProc,
          MaxFails,   \* bound: failed flushes in a behaviour
          MaxReads    \* bound: reloads by reader threads and older builds

ASSUME RegistryAssumption ==
  /\ Gateways \subseteq Procs /\ Readers \subseteq Procs /\ Mortal \subseteq Procs
  /\ Legacy \cap Procs = {}
  /\ NoProc \notin Procs
  /\ NoClient \notin Clients /\ Absent \notin Clients \cup {NoClient}
  /\ MaxFails \in Nat /\ MaxReads \in Nat

VARIABLES disk,     \* the rows of services.json
          lock,     \* the process that holds services.lock
          mem,      \* services: the map of each handle
          current,  \* last_mtime is that of the file on disk (looked at by readers)
          sentinel, \* the sentinel file found under a service's name
          handle,   \* sentinel_handles contains the process's own service
          up,       \* the process runs
          hostUp,   \* the DCC host bound to the service runs
          stage,    \* life of the registration; "active": registration_active
          missing,  \* the heartbeat found no row and is about to republish
          tx,       \* the write transaction of the handle
          rd,       \* the reload of the handle's reader thread
          snap,     \* the map of each older build, read at some earlier time
          fails,    \* failed flushes so far
          reads     \* reloads by reader threads and older builds so far

bounds == <<fails, reads>>
svars == <<sentinel, handle>>
pvars == <<up, hostUp, stage, missing>>
vars == <<disk, lock, mem, current, svars, pvars, tx, rd, snap, bounds>>

Services == Procs \cup Legacy
Entry == Clients \cup {NoClient, Absent}
Rows == [Services -> Entry]
NoRows == [k \in Services |-> Absent]

OpNames == {"none", "register", "heartbeat", "deregister", "prune", "cleanup",
            "lease", "release"}
Op == [name : OpNames, key : Services \cup {Absent}, client : Clients \cup {NoClient}]
NoOp == [name |-> "none", key |-> Absent, client |-> NoClient]

(* A transaction: its place, the operation, the rows it loaded, the        *)
(* services it edited with their new rows in "edit", whether the map still *)
(* holds them, and what it flushes.                                        *)
Tx == [pc : {"idle", "load", "base", "apply", "flush", "rename", "publish"},
       op : Op, base : Rows, owned : BOOLEAN,
       edited : SUBSET Services, edit : Rows, intact : BOOLEAN, next : Rows]
NoTx == [pc |-> "idle", op |-> NoOp, base |-> NoRows, owned |-> FALSE,
         edited |-> {}, edit |-> NoRows, intact |-> TRUE, next |-> NoRows]

(* A reload by a reader thread: its place and the rows it read.            *)
Rd == [pc : {"idle", "read", "publish"}, rows : Rows]
NoRd == [pc |-> "idle", rows |-> NoRows]

Present(m) == {k \in Services : m[k] # Absent}
Patch(m, K, e) == [k \in Services |-> IF k \in K THEN e[k] ELSE m[k]]

(* The types; services.lock is held exactly by the process that is inside  *)
(* with_write_transaction, on every way out of it.                         *)
TypeOK ==
  /\ disk \in Rows /\ lock \in Procs \cup {NoProc}
  /\ mem \in [Procs -> Rows] /\ current \in [Readers -> BOOLEAN]
  /\ sentinel \in [Procs -> {"absent", "free", "held"}] /\ handle \in [Procs -> BOOLEAN]
  /\ up \in [Procs -> BOOLEAN] /\ hostUp \in [Procs -> BOOLEAN]
  /\ stage \in [Procs -> {"starting", "active", "stopping", "stopped"}]
  /\ missing \in [Procs -> BOOLEAN]
  /\ tx \in [Procs -> Tx] /\ rd \in [Procs -> Rd] /\ snap \in [Legacy -> Rows]
  /\ fails \in 0..MaxFails /\ reads \in 0..MaxReads
  /\ \A p \in Procs : tx[p].pc # "idle" <=> lock = p

Init ==
  /\ disk = NoRows /\ lock = NoProc
  /\ mem = [p \in Procs |-> NoRows] /\ current = [p \in Readers |-> TRUE]
  /\ sentinel = [p \in Procs |-> "absent"] /\ handle = [p \in Procs |-> FALSE]
  /\ up = [p \in Procs |-> TRUE] /\ hostUp = [p \in Procs |-> TRUE]
  /\ stage = [p \in Procs |-> "starting"] /\ missing = [p \in Procs |-> FALSE]
  /\ tx = [p \in Procs |-> NoTx] /\ rd = [p \in Procs |-> NoRd]
  /\ snap = [k \in Legacy |-> NoRows]
  /\ fails = 0 /\ reads = 0

-----------------------------------------------------------------------------
(* The write transaction.                                                  *)

(* with_write_transaction takes write_lock and services.lock.  A call that *)
(* times out returns an error and has changed nothing.                     *)
Begin(p, name, k, c) ==
  /\ up[p] /\ tx[p].pc = "idle" /\ lock = NoProc
  /\ lock' = p
  /\ tx' = [tx EXCEPT ![p] = [NoTx EXCEPT !.pc = "load",
                              !.op = [name |-> name, key |-> k, client |-> c]]]
  /\ UNCHANGED <<disk, mem, current, svars, pvars, rd, snap, bounds>>

(* GatewayRunner::start registers; a heartbeat that found no row does so   *)
(* again, without looking at registration_active a second time.            *)
CallRegister(p) ==
  (stage[p] = "starting" \/ missing[p]) /\ Begin(p, "register", p, NoClient)

(* The heartbeat loop looks at registration_active before each beat.       *)
CallHeartbeat(p) ==
  stage[p] = "active" /\ ~missing[p] /\ Begin(p, "heartbeat", p, NoClient)

CallDeregister(p) == stage[p] = "stopping" /\ Begin(p, "deregister", p, NoClient)

(* evict_host_died_instance: a gateway removes the row of another service. *)
CallEvict(p, k) == ~hostUp[k] /\ Begin(p, "deregister", k, NoClient)

CallPrune(p) == Begin(p, "prune", Absent, NoClient)
CallCleanup(p) == Begin(p, "cleanup", Absent, NoClient)
CallAcquireLease(p, k, c) == Begin(p, "lease", k, c)
CallReleaseLease(p, k, c) == Begin(p, "release", k, c)

(* update_mtime: the file's time is remembered.                            *)
UpdateMtime(p) == current' = [q \in Readers |-> current[q] \/ q = p]

(* The map a transaction leaves.  Nobody looks at that of a handle without *)
(* reader threads before the next transaction reloads it.                  *)
Kept(p, m) == IF p \in Readers THEN m ELSE NoRows

(* force_reload_from_file, first half: load_from_file.                     *)
TxLoad(p) ==
  /\ tx[p].pc = "load"
  /\ mem' = [mem EXCEPT ![p] = disk]
  /\ tx' = [tx EXCEPT ![p].pc = "base"]
  /\ UNCHANGED <<disk, lock, current, svars, pvars, rd, snap, bounds>>

(* force_reload_from_file, second half: update_mtime, then the baseline is *)
(* taken from the map, and the sentinels owned before the edit.            *)
TxBaseline(p) ==
  /\ tx[p].pc = "base"
  /\ UpdateMtime(p)
  /\ tx' = [tx EXCEPT ![p].pc = "apply", ![p].base = mem[p], ![p].owned = handle[p]]
  /\ UNCHANGED <<disk, lock, mem, svars, pvars, rd, snap, bounds>>

(* Mutant: a heartbeat that found no row leaves it at that.                *)
ReturnMissingIgnored(p, found, ok) ==
  LET n == tx[p].op.name IN
  /\ missing' = [missing EXCEPT ![p] = @ /\ n # "register"]
  /\ stage' = [stage EXCEPT ![p] =
                 IF n = "register" /\ @ = "starting" THEN IF ok THEN "active" ELSE "stopped"
                 ELSE IF n = "deregister" /\ tx[p].op.key = p /\ @ = "stopping" THEN "stopped"
                 ELSE @]
  /\ UNCHANGED <<up, hostUp>>

(* What the caller does with the answer.  A start that fails gives up; a   *)
(* heartbeat that found nothing republishes if the registration is still   *)
(* active; shutdown takes its keys once, whatever the answer.              *)
Return(p, found, ok) ==
  LET n == tx[p].op.name
      own == tx[p].op.key = p
  IN  /\ missing' = [missing EXCEPT ![p] =
                       IF n = "register" THEN FALSE
                       ELSE IF n = "heartbeat" THEN ok /\ ~found /\ stage[p] = "active"
                       ELSE @]
      /\ stage' = [stage EXCEPT ![p] =
                     IF n = "register" /\ @ = "starting"
                       THEN IF ok THEN "active" ELSE "stopped"
                     ELSE IF n = "deregister" /\ own /\ @ = "stopping" THEN "stopped"
                     ELSE @]
      /\ UNCHANGED <<up, hostUp>>

Unlock(p) == lock' = NoProc /\ tx' = [tx EXCEPT ![p] = NoTx]

(* The closure's (value, changed): a changed map goes on to the flush, an  *)
(* unchanged one ends the transaction.                                     *)
Apply(p, K, e) ==
  /\ mem' = [mem EXCEPT ![p] = IF K = {} THEN Kept(p, @) ELSE Patch(@, K, e)]
  /\ IF K # {}
     THEN /\ tx' = [tx EXCEPT ![p].pc = "flush", ![p].edited = K, ![p].edit = Patch(NoRows, K, e)]
          /\ UNCHANGED <<lock, pvars>>
     ELSE Unlock(p) /\ Return(p, FALSE, TRUE)
  /\ UNCHANGED <<disk, current, rd, snap, bounds>>

Doing(p, name) == tx[p].pc = "apply" /\ tx[p].op.name = name

(* Re-registering reuses a handle whose file is still there; otherwise the *)
(* orphaned handle is dropped and a named, locked sentinel is created.     *)
Register(p) ==
  /\ Doing(p, "register")
  /\ IF handle[p] /\ sentinel[p] # "absent"
     THEN UNCHANGED svars
     ELSE /\ sentinel' = [sentinel EXCEPT ![p] = "held"]
          /\ handle' = [handle EXCEPT ![p] = TRUE]
  /\ Apply(p, {p}, [k \in Services |-> NoClient])

(* heartbeat, update_snapshot, update_status and set_pid: rewrite a row    *)
(* that is there.                                                          *)
Heartbeat(p) ==
  LET k == tx[p].op.key IN
  /\ Doing(p, "heartbeat")
  /\ Apply(p, {k} \cap Present(mem[p]), mem[p])
  /\ UNCHANGED svars

(* remove_entry drops the handle if it is ours, and unlinks the sentinel   *)
(* only if there was a row.                                                *)
Deregister(p) ==
  LET k == tx[p].op.key
      K == {k} \cap Present(mem[p])
  IN  /\ Doing(p, "deregister")
      /\ handle' = [handle EXCEPT ![p] = @ /\ k # p]
      /\ sentinel' = [sentinel EXCEPT ![k] =
                        IF K # {} THEN "absent"
                        ELSE IF k = p /\ @ = "held" /\ handle[p] THEN "free" ELSE @]
      /\ Apply(p, K, NoRows)

(* Mutant: only a sentinel file that is gone counts, its lock is not tried. *)
SentinelIsGone(p, k) == ~(k = p /\ handle[p]) /\ sentinel[k] = "absent"

(* sentinel_is_dead: our own handle is alive; otherwise the file is gone   *)
(* or its lock can be taken.                                               *)
SentinelIsDead(p, k) == ~(k = p /\ handle[p]) /\ sentinel[k] # "held"

(* Rows of older builds carry a PID, taken to be alive.                    *)
DeadKeys(p) ==
  {k \in Present(mem[p]) \cap Procs : SentinelIsDead(p, k) \/ ~hostUp[k]}

PruneDeadEntries(p) ==
  /\ Doing(p, "prune")
  /\ sentinel' = [k \in Procs |-> IF k \in DeadKeys(p) THEN "absent" ELSE sentinel[k]]
  /\ handle' = [handle EXCEPT ![p] = @ /\ p \notin DeadKeys(p)]
  /\ Apply(p, DeadKeys(p), NoRows)

(* cleanup_stale leaves sentinels alone.  Any row may be stale: its owner  *)
(* may have been suspended for longer than the timeout.                    *)
CleanupStale(p) ==
  /\ Doing(p, "cleanup")
  /\ \E stale \in SUBSET Present(mem[p]) : Apply(p, stale, NoRows)
  /\ UNCHANGED svars

(* acquire_lease clears every expired lease on its way and grants the      *)
(* asked row if that is free.                                              *)
AcquireLease(p) ==
  LET k == tx[p].op.key
      Leased == {j \in Services : mem[p][j] \in Clients}
  IN  /\ Doing(p, "lease")
      /\ \E expired \in SUBSET Leased :
           LET granted == {k} \cap (Present(mem[p]) \ (Leased \ expired)) IN
           Apply(p, expired \cup granted,
                 [j \in Services |-> IF j \in granted THEN tx[p].op.client ELSE NoClient])
      /\ UNCHANGED svars

ReleaseLease(p) ==
  LET k == tx[p].op.key IN
  /\ Doing(p, "release")
  /\ Apply(p, {j \in {k} \cap Present(mem[p]) : mem[p][j] = tx[p].op.client},
           [j \in Services |-> NoClient])
  /\ UNCHANGED svars

(* Mutant: a row the older build did not know of is taken for removed.     *)
ReconcileTrustsFile(base, file, local, changed) ==
  IF file = base THEN local
  ELSE [k \in Services |-> IF k \in changed THEN local[k] ELSE file[k]]

(* reconcile_unlocked_writer_changes: the map as it is, unless the file no *)
(* longer holds the baseline; then our changes go on top of the file's     *)
(* rows, and these on top of the baseline's.                               *)
Reconcile(base, file, local, changed) ==
  IF file = base THEN local
  ELSE [k \in Services |->
          IF k \in changed THEN local[k]
          ELSE IF file[k] # Absent THEN file[k] ELSE base[k]]

(* The rows of the map that differ from the baseline: an edited row does   *)
(* in its times, if in nothing else.                                       *)
Changed(p) ==
  {k \in Services : mem[p][k] # tx[p].base[k]} \cup (IF tx[p].intact THEN tx[p].edited ELSE {})

(* Mutant: the map is reloaded once more before it is listed.              *)
TxFlushReloads(p) ==
  /\ tx[p].pc = "flush"
  /\ mem' = [mem EXCEPT ![p] = disk]
  /\ tx' = [tx EXCEPT ![p].pc = "rename", ![p].next = Reconcile(tx[p].base, disk, disk, {})]
  /\ UNCHANGED <<disk, lock, current, svars, pvars, rd, snap, bounds>>

(* flush_to_file_after_transaction lists the map and reads the file.       *)
TxFlush(p) ==
  /\ tx[p].pc = "flush"
  /\ tx' = [tx EXCEPT ![p].pc = "rename",
                      ![p].next = Reconcile(tx[p].base, disk, mem[p], Changed(p))]
  /\ UNCHANGED <<disk, lock, mem, current, svars, pvars, rd, snap, bounds>>

(* write_atomic: the temporary file is renamed over services.json, and no  *)
(* handle has seen the new modification time.                              *)
TxRename(p) ==
  /\ tx[p].pc = "rename"
  /\ disk' = tx[p].next
  /\ current' = [q \in Readers |-> FALSE]
  /\ tx' = [tx EXCEPT ![p].pc = "publish"]
  /\ UNCHANGED <<lock, mem, svars, pvars, rd, snap, bounds>>

(* replace_services, update_mtime, and the unlock.                         *)
TxPublish(p) ==
  /\ tx[p].pc = "publish"
  /\ mem' = [mem EXCEPT ![p] = Kept(p, tx[p].next)]
  /\ UpdateMtime(p)
  /\ Unlock(p) /\ Return(p, TRUE, TRUE)
  /\ UNCHANGED <<disk, svars, rd, snap, bounds>>

(* Mutant: the rollback restores the handle but not the unlinked file.     *)
RollbackForgetsFile(p, owned) ==
  LET desired == tx[p].owned /\ disk[p] # Absent IN
  /\ mem' = [mem EXCEPT ![p] = Kept(p, disk)]
  /\ UpdateMtime(p)
  /\ handle' = [handle EXCEPT ![p] = desired]
  /\ sentinel' = [sentinel EXCEPT ![p] = IF owned /\ ~desired THEN "absent" ELSE @]
  /\ UNCHANGED <<disk, rd, snap, reads>>

(* rollback_failed_transaction: the map is the file again, and the         *)
(* sentinels are those owned before whose rows are still in the file.      *)
(* "owned": the process has a handle now.  One that is to be restored may  *)
(* fail to be created, before or after its file is; that is only logged.   *)
Rollback(p, owned) ==
  LET desired == tx[p].owned /\ disk[p] # Absent IN
  /\ mem' = [mem EXCEPT ![p] = Kept(p, disk)]
  /\ UpdateMtime(p)
  /\ \/ /\ owned = desired
        /\ handle' = [handle EXCEPT ![p] = owned] /\ UNCHANGED sentinel
     \/ /\ owned /\ ~desired
        /\ handle' = [handle EXCEPT ![p] = FALSE]
        /\ sentinel' = [sentinel EXCEPT ![p] = "absent"]
     \/ /\ desired /\ ~owned
        /\ handle' = [handle EXCEPT ![p] = TRUE]
        /\ sentinel' = [sentinel EXCEPT ![p] = "held"]
     \/ /\ desired /\ ~owned
        /\ handle' = [handle EXCEPT ![p] = FALSE]
        /\ \E file \in {sentinel[p], "free"} : sentinel' = [sentinel EXCEPT ![p] = file]
  /\ UNCHANGED <<disk, rd, snap, reads>>

(* The flush fails.                                                        *)
TxFail(p) ==
  /\ tx[p].pc \in {"flush", "rename"} /\ fails < MaxFails
  /\ fails' = fails + 1
  /\ Rollback(p, handle[p])
  /\ Unlock(p) /\ Return(p, FALSE, FALSE)

(* The closure fails: register has dropped an orphaned handle when         *)
(* create_sentinel returns its error.                                      *)
RegisterFails(p) ==
  /\ Doing(p, "register") /\ ~(handle[p] /\ sentinel[p] # "absent")
  /\ fails < MaxFails
  /\ fails' = fails + 1
  /\ Rollback(p, FALSE)
  /\ Unlock(p) /\ Return(p, FALSE, FALSE)

-----------------------------------------------------------------------------
(* Readers, processes and older builds.                                    *)

(* reload_if_stale: the new modification time is remembered before the     *)
(* file is read; the fast path changes nothing.                            *)
ReloadIfStale(p) ==
  /\ up[p] /\ rd[p].pc = "idle" /\ ~current[p] /\ reads < MaxReads
  /\ reads' = reads + 1
  /\ current' = [current EXCEPT ![p] = TRUE]
  /\ rd' = [rd EXCEPT ![p].pc = "read"]
  /\ UNCHANGED <<disk, lock, mem, svars, pvars, tx, snap, fails>>

(* load_from_file reads the file and builds a map outside any lock ...     *)
ReaderRead(p) ==
  /\ rd[p].pc = "read"
  /\ rd' = [rd EXCEPT ![p].pc = "publish", ![p].rows = disk]
  /\ UNCHANGED <<disk, lock, mem, current, svars, pvars, tx, snap, bounds>>

(* ... and publishes it in one short critical section.                     *)
ReaderPublish(p) ==
  /\ rd[p].pc = "publish"
  /\ mem' = [mem EXCEPT ![p] = rd[p].rows]
  /\ rd' = [rd EXCEPT ![p] = NoRd]
  /\ tx' = [tx EXCEPT ![p].intact = @ /\ tx[p].pc # "flush"]
  /\ UNCHANGED <<disk, lock, current, svars, pvars, snap, bounds>>

(* deregister_all first withdraws registration_active.                     *)
Stop(p) ==
  /\ up[p] /\ stage[p] = "active"
  /\ stage' = [stage EXCEPT ![p] = "stopping"]
  /\ UNCHANGED <<disk, lock, mem, current, svars, up, hostUp, missing, tx, rd, snap, bounds>>

(* The process dies: the system drops its locks, files stay.               *)
Crash(p) ==
  /\ up[p]
  /\ up' = [up EXCEPT ![p] = FALSE]
  /\ lock' = IF lock = p THEN NoProc ELSE lock
  /\ tx' = [tx EXCEPT ![p] = NoTx] /\ rd' = [rd EXCEPT ![p] = NoRd]
  /\ mem' = [mem EXCEPT ![p] = NoRows] /\ missing' = [missing EXCEPT ![p] = FALSE]
  /\ handle' = [handle EXCEPT ![p] = FALSE]
  /\ sentinel' = [sentinel EXCEPT ![p] = IF @ = "held" THEN "free" ELSE @]
  /\ stage' = [stage EXCEPT ![p] = "stopped"]
  /\ UNCHANGED <<disk, current, hostUp, snap, bounds>>

HostDies(p) ==
  /\ hostUp[p]
  /\ hostUp' = [hostUp EXCEPT ![p] = FALSE]
  /\ UNCHANGED <<disk, lock, mem, current, svars, up, stage, missing, tx, rd, snap, bounds>>

(* An older build reads the file into its map ...                          *)
LegacyRead(k) ==
  /\ snap[k] # disk /\ reads < MaxReads
  /\ reads' = reads + 1
  /\ snap' = [snap EXCEPT ![k] = disk]
  /\ UNCHANGED <<disk, lock, mem, current, svars, pvars, tx, rd, fails>>

(* ... and later overwrites the whole file with that map and its own row,  *)
(* without services.lock: what others wrote in between is gone.            *)
LegacyWrite(k, e) ==
  LET map == [snap[k] EXCEPT ![k] = e] IN
  /\ map # disk
  /\ disk' = map /\ snap' = [snap EXCEPT ![k] = map]
  /\ current' = [q \in Readers |-> FALSE]
  /\ UNCHANGED <<lock, mem, svars, pvars, tx, rd, bounds>>

-----------------------------------------------------------------------------
Transact(p) ==
  \/ TxLoad(p) \/ TxBaseline(p) \/ TxFlush(p) \/ TxRename(p) \/ TxPublish(p)
  \/ Register(p) \/ Heartbeat(p) \/ Deregister(p) \/ PruneDeadEntries(p)
  \/ CleanupStale(p) \/ AcquireLease(p) \/ ReleaseLease(p)

Serve(p) ==
  \/ CallPrune(p) \/ CallCleanup(p)
  \/ \E k \in Mortal : CallEvict(p, k)
  \/ \E k \in Services, c \in Clients : CallAcquireLease(p, k, c) \/ CallReleaseLease(p, k, c)

Read(p) == ReloadIfStale(p) \/ ReaderRead(p) \/ ReaderPublish(p)

Next ==
  \/ \E p \in Procs :
       \/ CallRegister(p) \/ CallHeartbeat(p) \/ CallDeregister(p)
       \/ Transact(p) \/ TxFail(p) \/ RegisterFails(p) \/ Stop(p) \/ Crash(p)
  \/ \E p \in Gateways : Serve(p)
  \/ \E p \in Readers : Read(p)
  \/ \E p \in Mortal : HostDies(p)
  \/ \E k \in Legacy : LegacyRead(k) \/ \E e \in {NoClient, Absent} : LegacyWrite(k, e)

Spec == Init /\ [][Next]_vars

(* A transaction that holds the lock runs on.  The periodic calls poll a   *)
(* try-lock, and are taken to get it if it is free again and again.        *)
Fairness ==
  /\ \A p \in Procs : WF_vars(Transact(p)) /\ SF_vars(CallRegister(p)) /\ SF_vars(CallHeartbeat(p))
  /\ \A p \in Gateways : SF_vars(CallPrune(p))

FairSpec == Spec /\ Fairness

-----------------------------------------------------------------------------
(* What a transaction does to services.json: its edit is in it; a row that *)
(* it loaded and did not edit is still there, though an older build may    *)
(* have overwritten the file meanwhile with a map that lacks it; and where *)
(* there are no such builds the other rows are untouched, so that the      *)
(* reload under services.lock, the edit of the map and the rename act as   *)
(* one step, whatever other processes, crashes and failed flushes do in    *)
(* between.                                                                *)
CommitsItsEdit(p) ==
  TxRename(p) =>
    /\ \A k \in tx[p].edited : disk'[k] = tx[p].edit[k]
    /\ \A k \in Services \ tx[p].edited :
         /\ tx[p].base[k] # Absent => disk'[k] # Absent
         /\ Legacy = {} => disk'[k] = disk[k]

(* with_write_transaction is atomic on a handle that no other thread       *)
(* reloads.                                                                *)
CommitIsAtomic == [][\A p \in Procs \ Readers : CommitsItsEdit(p)]_vars

(* with_write_transaction is atomic on every handle.                       *)
EveryCommitIsAtomic == [][\A p \in Procs : CommitsItsEdit(p)]_vars

(* prune_dead_entries never removes the row of a process that runs, whose  *)
(* DCC host runs and that holds its sentinel, though remove_entry, prune,  *)
(* rollback and the orphan path of register all unlink sentinels.          *)
PruneSparesTheLiving ==
  [][\A p \in Procs : PruneDeadEntries(p) =>
       \A k \in tx'[p].edited \cap Procs : ~(up[k] /\ hostUp[k] /\ handle[k])]_vars

(* A registered service whose row another process removed (stale, evicted  *)
(* or overwritten) is in services.json again, unless it stops: the         *)
(* heartbeat republishes it.                                               *)
Registered(p) == up[p] /\ stage[p] = "active"
RowComesBack == \A p \in Procs \ Readers : Registered(p) ~> (disk[p] # Absent \/ ~Registered(p))

(* The row a dead process left behind goes, as long as a gateway runs.     *)
GhostsGo ==
  \A p \in Procs : ~up[p] ~> (disk[p] = Absent \/ \A g \in Gateways \ Readers : ~up[g])

=============================================================================
