--------------------------- MODULE GatewayLaunch ---------------------------
(***************************************************************************)
(* How a standalone gateway daemon is started: gateway-launch.lock and its *)
(* reclaim, the launch manifest and the pidfile (dcc-mcp-gateway-ensure    *)
(* lib.rs), the launcher and the guardian of a sidecar (dcc-mcp-sidecar    *)
(* gateway_daemon/launcher.rs, guardian.rs), the launcher of the command   *)
(* line (dcc-mcp-cli application/gateway_ensure.rs) and the daemon itself  *)
(* (dcc-mcp-sidecar gateway_daemon.rs).                                    *)
(*                                                                         *)
(* The lock is a file: it exists or not, and it grows old.  A guardian     *)
(* drops the lock as soon as it has spawned the daemon, the command line   *)
(* only when the daemon answers.  The takeover of a running older gateway  *)
(* is part of GatewayElection and is left out here.                        *)
(***************************************************************************)
EXTENDS Naturals, FiniteSets

CONSTANTS Launchers, NoLauncher,
          Pids,       \* process ids of daemons; the id of a dead one is reused
          Threshold,  \* GatewayGuardianSettings::failure_threshold
          Scenarios   \* who launches and what may fail, one of these

(* "hasty": a wait may time out while a daemon is starting; "slow": a      *)
(* launcher may hold its lock for longer than the staleness threshold; the *)
(* numbers bound crashes of launchers, deaths of daemons, failed spawns.   *)
Scenario == [kind : [Launchers -> {"guardian", "cli"}], hasty : BOOLEAN, slow : BOOLEAN,
             launcherDeaths : Nat, daemonDeaths : Nat, spawnErrors : Nat]

Faults == {"launcherDeaths", "daemonDeaths", "spawnErrors"}

ASSUME LaunchAssumption ==
  /\ NoLauncher \notin Launchers /\ 0 \notin Pids
  /\ Threshold \in Nat \ {0} /\ Scenarios \subseteq Scenario

VARIABLES lnScenario,  \* the scenario; it does not change
          lnSpent,     \* the faults so far, counted against its bounds
          lnLock,      \* who created gateway-launch.lock, or NoLauncher
          lnStale,     \* the file is older than the staleness threshold
          lnPc,        \* where each launcher is
          lnHolds,     \* the launcher owns a LaunchLock
          lnReady,     \* the wait of the launcher succeeded
          lnFails,     \* consecutive_failures of a guardian
          lnChild,     \* the process a launcher spawned
          lnDaemon,    \* the life of each process
          lnManifest,  \* pid in gateway-autolaunch-<port>.json; 0: none
          lnPidfile    \* pid in the pidfile; 0: none

lockVars == <<lnLock, lnStale, lnHolds>>
fileVars == <<lnManifest, lnPidfile>>
launchVars == <<lnScenario, lnSpent, lockVars, lnPc, lnReady, lnFails, lnChild, lnDaemon, fileVars>>

Guards(l) == lnScenario.kind[l] = "guardian"
LaunchPcs == {"rest", "suspect", "start", "create", "inspect", "reinspect", "unlink",
              "recreate", "verify", "spawn", "drop", "wait", "pidfile", "done", "dead"}
Serving == {d \in Pids : lnDaemon[d] = "serving"}
Answers == Serving # {}

LaunchTypeOK ==
  /\ lnScenario \in Scenario /\ lnSpent \in [Faults -> Nat]
  /\ lnLock \in Launchers \cup {NoLauncher} /\ lnStale \in BOOLEAN
  /\ lnPc \in [Launchers -> LaunchPcs]
  /\ lnHolds \in [Launchers -> BOOLEAN] /\ lnReady \in [Launchers -> BOOLEAN]
  /\ lnFails \in [Launchers -> 0..Threshold]
  /\ lnChild \in [Launchers -> Pids \cup {0}]
  /\ lnDaemon \in [Pids -> {"dead", "starting", "serving"}]
  /\ lnManifest \in Pids \cup {0} /\ lnPidfile \in Pids \cup {0}

LaunchInit ==
  /\ lnScenario \in Scenarios /\ lnSpent = [b \in Faults |-> 0]
  /\ lnLock = NoLauncher /\ lnStale = FALSE
  /\ lnPc = [l \in Launchers |-> "rest"]
  /\ lnHolds = [l \in Launchers |-> FALSE] /\ lnReady = [l \in Launchers |-> FALSE]
  /\ lnFails = [l \in Launchers |-> 0] /\ lnChild = [l \in Launchers |-> 0]
  /\ lnDaemon = [d \in Pids |-> "dead"]
  /\ lnManifest = 0 /\ lnPidfile = 0

Jump(l, from, to) == lnPc[l] = from /\ lnPc' = [lnPc EXCEPT ![l] = to]
MayFail(b) == lnSpent[b] < lnScenario[b] /\ lnSpent' = [lnSpent EXCEPT ![b] = @ + 1]

(* A guardian goes back to watching; the command line is done.             *)
Returns(l) == IF Guards(l) THEN "rest" ELSE "done"

-----------------------------------------------------------------------------
(* The guardian.                                                           *)

Watch(l) ==
  /\ Guards(l) /\ lnPc[l] = "rest"
  /\ LET fails == IF Answers THEN 0
                  ELSE IF lnFails[l] = Threshold THEN Threshold ELSE lnFails[l] + 1
     IN  /\ lnFails' = [lnFails EXCEPT ![l] = fails]
         /\ Jump(l, "rest", IF fails = Threshold THEN "suspect" ELSE "rest")
  /\ UNCHANGED <<lnScenario, lnSpent, lockVars, lnReady, lnChild, lnDaemon, fileVars>>

(* After the jitter, look again before launching.                          *)
Reprobe(l) ==
  /\ Jump(l, "suspect", IF Answers THEN "rest" ELSE "start")
  /\ lnFails' = [lnFails EXCEPT ![l] = IF Answers THEN 0 ELSE @]
  /\ UNCHANGED <<lnScenario, lnSpent, lockVars, lnReady, lnChild, lnDaemon, fileVars>>

Invoke(l) ==
  /\ ~Guards(l) /\ Jump(l, "rest", "start")
  /\ UNCHANGED <<lnScenario, lnSpent, lockVars, lnReady, lnFails, lnChild, lnDaemon, fileVars>>

-----------------------------------------------------------------------------
(* ensure_gateway_running.                                                 *)

EnsureStart(l) ==
  /\ Jump(l, "start", IF Answers THEN Returns(l) ELSE "create")
  /\ lnFails' = [lnFails EXCEPT ![l] = IF Answers THEN 0 ELSE @]
  /\ UNCHANGED <<lnScenario, lnSpent, lockVars, lnReady, lnChild, lnDaemon, fileVars>>

(* create_launch_lock: create_new succeeds when there is no file.          *)
CreateLock(l, from, taken) ==
  /\ Jump(l, from, IF lnLock = NoLauncher THEN "verify" ELSE taken)
  /\ IF lnLock = NoLauncher
     THEN /\ lnLock' = l /\ lnStale' = FALSE
          /\ lnHolds' = [lnHolds EXCEPT ![l] = TRUE]
     ELSE UNCHANGED lockVars
  /\ UNCHANGED <<lnScenario, lnSpent, lnReady, lnFails, lnChild, lnDaemon, fileVars>>

(* Faulty: a lock file that exists is never stale.                         *)
LockIsStaleNever == lnLock = NoLauncher

(* launch_lock_is_stale: a file that is gone counts as stale.              *)
LockIsStale == lnLock = NoLauncher \/ lnStale

(* remove_stale_launch_lock looks twice, then unlinks whatever is there.   *)
InspectLock(l, from, to) ==
  /\ Jump(l, from, IF LockIsStale THEN to ELSE "wait")
  /\ UNCHANGED <<lnScenario, lnSpent, lockVars, lnReady, lnFails, lnChild, lnDaemon, fileVars>>

UnlinkStale(l) ==
  /\ Jump(l, "unlink", "recreate")
  /\ lnLock' = NoLauncher /\ lnStale' = FALSE
  /\ UNCHANGED <<lnScenario, lnSpent, lnHolds, lnReady, lnFails, lnChild, lnDaemon, fileVars>>

Acquire(l) ==
  \/ CreateLock(l, "create", "inspect")
  \/ InspectLock(l, "inspect", "reinspect")
  \/ InspectLock(l, "reinspect", "unlink")
  \/ UnlinkStale(l)
  \/ CreateLock(l, "recreate", "wait")

(* Faulty: it spawns without probing again under the lock.                 *)
VerifySpawns(l) ==
  /\ Jump(l, "verify", "spawn")
  /\ UNCHANGED <<lnScenario, lnSpent, lockVars, lnReady, lnFails, lnChild, lnDaemon, fileVars>>

(* Under the lock the gateway may answer after all.                        *)
Verify(l) ==
  /\ Jump(l, "verify", IF Answers THEN "drop" ELSE "spawn")
  /\ lnReady' = [lnReady EXCEPT ![l] = Answers]
  /\ UNCHANGED <<lnScenario, lnSpent, lockVars, lnFails, lnChild, lnDaemon, fileVars>>

(* Spawn the daemon and overwrite the manifest; only a guardian drops the  *)
(* lock right away.                                                        *)
SpawnDaemon(l) ==
  /\ Jump(l, "spawn", IF Guards(l) THEN "drop" ELSE "wait")
  /\ \E d \in Pids :
       /\ lnDaemon[d] = "dead"
       /\ lnDaemon' = [lnDaemon EXCEPT ![d] = "starting"]
       /\ lnChild' = [lnChild EXCEPT ![l] = d]
       /\ lnManifest' = d
  /\ UNCHANGED <<lnScenario, lnSpent, lockVars, lnReady, lnFails, lnPidfile>>

SpawnError(l) ==
  /\ Jump(l, "spawn", "drop") /\ MayFail("spawnErrors")
  /\ UNCHANGED <<lnScenario, lockVars, lnReady, lnFails, lnChild, lnDaemon, fileVars>>

(* LaunchLock::drop removes the file, whoever created the one it finds.    *)
DropLock(l) ==
  /\ Jump(l, "drop", CASE lnReady[l] /\ lnChild[l] # 0 /\ ~Guards(l) -> "pidfile"
                       [] ~lnReady[l] /\ lnChild[l] # 0 /\ Guards(l) -> "wait"
                       [] OTHER -> Returns(l))
  /\ lnLock' = NoLauncher /\ lnStale' = FALSE
  /\ lnHolds' = [lnHolds EXCEPT ![l] = FALSE]
  /\ lnFails' = [lnFails EXCEPT ![l] = IF lnReady[l] THEN 0 ELSE @]
  /\ UNCHANGED <<lnScenario, lnSpent, lnReady, lnChild, lnDaemon, fileVars>>

(* wait_gateway_ready ends with an answer or with its timeout.             *)
WaitReady(l) ==
  /\ Jump(l, "wait", IF lnHolds[l] THEN "drop" ELSE Returns(l))
  /\ \/ Answers
     \/ lnScenario.hasty \/ \A d \in Pids : lnDaemon[d] = "dead"
  /\ lnReady' = [lnReady EXCEPT ![l] = Answers /\ lnHolds[l]]
  /\ lnFails' = [lnFails EXCEPT ![l] = IF Answers THEN 0 ELSE @]
  /\ lnChild' = [lnChild EXCEPT ![l] = IF Guards(l) THEN 0 ELSE @]
  /\ UNCHANGED <<lnScenario, lnSpent, lockVars, lnDaemon, fileVars>>

WritePidfile(l) ==
  /\ Jump(l, "pidfile", "done")
  /\ lnPidfile' = lnChild[l]
  /\ UNCHANGED <<lnScenario, lnSpent, lockVars, lnReady, lnFails, lnChild, lnDaemon, lnManifest>>

LauncherStep(l) ==
  \/ Watch(l) \/ Reprobe(l) \/ EnsureStart(l) \/ Acquire(l) \/ Verify(l) \/ SpawnDaemon(l)
  \/ DropLock(l) \/ WaitReady(l) \/ WritePidfile(l)

-----------------------------------------------------------------------------
(* The daemon, and what time and faults do.                                *)

(* run: the loser of the election finds an owner and exits.                *)
RunDaemon(d) ==
  /\ lnDaemon[d] = "starting"
  /\ lnDaemon' = [lnDaemon EXCEPT ![d] = IF Answers THEN "dead" ELSE "serving"]
  /\ UNCHANGED <<lnScenario, lnSpent, lockVars, lnPc, lnReady, lnFails, lnChild, fileVars>>

(* A crash, a signal or the idle timeout.                                  *)
DaemonDies(d) ==
  /\ lnDaemon[d] # "dead" /\ MayFail("daemonDeaths")
  /\ lnDaemon' = [lnDaemon EXCEPT ![d] = "dead"]
  /\ UNCHANGED <<lnScenario, lockVars, lnPc, lnReady, lnFails, lnChild, fileVars>>

(* The lock file of a launcher that died stays.                            *)
LauncherDies(l) ==
  /\ lnPc[l] \notin {"done", "dead"} /\ MayFail("launcherDeaths")
  /\ lnPc' = [lnPc EXCEPT ![l] = "dead"]
  /\ lnHolds' = [lnHolds EXCEPT ![l] = FALSE]
  /\ UNCHANGED <<lnScenario, lnLock, lnStale, lnReady, lnFails, lnChild, lnDaemon, fileVars>>

LockAges ==
  /\ lnLock # NoLauncher /\ ~lnStale
  /\ lnPc[lnLock] = "dead" \/ lnScenario.slow
  /\ lnStale' = TRUE
  /\ UNCHANGED <<lnScenario, lnSpent, lnLock, lnHolds, lnPc, lnReady, lnFails, lnChild, lnDaemon, fileVars>>

LaunchNext ==
  \/ \E l \in Launchers : Invoke(l) \/ LauncherStep(l) \/ SpawnError(l) \/ LauncherDies(l)
  \/ \E d \in Pids : RunDaemon(d) \/ DaemonDies(d)
  \/ LockAges

(* A running task is polled, a daemon finishes its start, time passes.     *)
LaunchFairness ==
  /\ \A l \in Launchers : WF_launchVars(LauncherStep(l))
  /\ \A d \in Pids : WF_launchVars(RunDaemon(d))
  /\ WF_launchVars(LockAges)

LaunchSpec == LaunchInit /\ [][LaunchNext]_launchVars /\ LaunchFairness

-----------------------------------------------------------------------------
(* One launcher at a time: nobody dies and nobody is slow, so no lock is   *)
(* stale and no two launchers own the launch lock ("Re-check immediately   *)
(* before unlinking (race protection)", gateway-ensure lib.rs:212).  A lock*)
(* that is gone counts as stale, though, and what is unlinked then may be  *)
(* the one that somebody else has created since.                           *)
SingleFlight ==
  (~lnScenario.slow /\ lnScenario.launcherDeaths = 0) =>
     \A l, k \in Launchers : lnHolds[l] /\ lnHolds[k] => l = k

(* The pidfile written by the command line names the gateway that serves   *)
(* the port, when only the command line launches, nothing dies or fails and*)
(* no wait times out early: the lock is held until the daemon answers, so  *)
(* a second daemon is never spawned beside it, also not by a launcher that *)
(* reclaims a lock it saw go (gateway_ensure.rs: stop and status commands  *)
(* find the process through the pidfile).                                  *)
PidfileNamesGateway ==
  ( /\ \A l \in Launchers : ~Guards(l)
    /\ ~lnScenario.slow /\ ~lnScenario.hasty
    /\ \A b \in Faults : lnScenario[b] = 0
    /\ Answers /\ lnPidfile # 0 ) => lnPidfile \in Serving

(* Where a guardian lives, the gateway always comes back: after launchers  *)
(* that died with the lock in hand, daemons that died, spawns that failed  *)
(* and locks that were pulled from under their owners.                     *)
GatewayComesBack ==
  \A l \in Launchers :
    []<>(Answers \/ ~Guards(l) \/ lnPc[l] = "dead")
=============================================================================
