--------------------------- MODULE GatewayProofs ---------------------------
(***************************************************************************)
(* Proofs about the parts of the gateway, for any number of processes and  *)
(* callers.                                                                *)
(*                                                                         *)
(* is_newer_election is a strict order: whatever builds meet at the port,  *)
(* no two of them, and no ring of them, replace each other for ever.  The  *)
(* circuit breaker acts on every count at its threshold.  The pidfile      *)
(* names the gateway that serves, because one daemon at most is spawned.   *)
(* And the gateway that serves is advertised, alone: winning the port is   *)
(* exclusive, and the winner sweeps before it publishes.                   *)
(***************************************************************************)
EXTENDS GatewayElection, GatewayLaunch, CircuitBreaker, TLAPS

-----------------------------------------------------------------------------
(***************************************************************************)
(* Two builds never both ask each other to yield (version.rs).             *)
(***************************************************************************)
THEOREM NeverBothNewer ==
  ASSUME NEW a \in ElectionInfo, NEW b \in ElectionInfo, is_newer_election(a, b)
  PROVE  ~is_newer_election(b, a)
BY SMTT(60) DEF ElectionInfo, NoAdapter, is_newer_election

(***************************************************************************)
(* A build that replaces the one which replaced a third would have         *)
(* replaced the third itself, so that a chain of takeovers never closes to *)
(* a ring (version.rs).                                                    *)
(***************************************************************************)
THEOREM NewerIsTransitive ==
  ASSUME NEW a \in ElectionInfo, NEW b \in ElectionInfo, NEW c \in ElectionInfo,
         is_newer_election(a, b), is_newer_election(b, c)
  PROVE  is_newer_election(a, c)
BY SMTT(60) DEF ElectionInfo, NoAdapter, is_newer_election

-----------------------------------------------------------------------------
CircuitInv == CircuitTypeOK /\ ThresholdActedOn

(* A caller that moves leaves the others where they are.                   *)
LEMMA PassFacts ==
  ASSUME CircuitTypeOK, NEW c \in Callers, NEW from, NEW to \in CallPcs, Pass(c, from, to)
  PROVE  /\ cbPc' \in [Callers -> CallPcs]
         /\ cbPc[c] = from /\ cbPc'[c] = to
         /\ \A d \in Callers : d # c => cbPc'[d] = cbPc[d]
BY Zenon DEF CircuitTypeOK, Pass

(* The breaker starts closed, with nobody inside.                          *)
LEMMA CircuitStarts == CircuitInit => CircuitInv
<1> SUFFICES ASSUME CircuitInit PROVE CircuitInv
  BY Zenon
<1>1. cbFailures \in Nat /\ cbOpen \in {"none", "running", "expired"} /\ cbOutages \in 0..MaxOutages
  BY CircuitAssumption, SMTT(60) DEF CircuitInit
<1>2. cbPc \in [Callers -> CallPcs] /\ cbTry \in [Callers -> 0..ReadRetries]
  BY CircuitAssumption, SMTT(60) DEF CircuitInit, CallPcs
<1>3. cbDown \in BOOLEAN
  BY Zenon DEF CircuitInit
<1>4. ThresholdActedOn
  BY CircuitAssumption, SMTT(60) DEF CircuitInit, ThresholdActedOn
<1> QED
  BY <1>1, <1>2, <1>3, <1>4, Zenon DEF CircuitInv, CircuitTypeOK

(* Every step keeps the types; a retry is only made below the limit.       *)
LEMMA CircuitTypeStep ==
  ASSUME CircuitTypeOK, [CircuitNext]_circuitVars
  PROVE  CircuitTypeOK'
<1> USE CircuitAssumption
<1>1. ASSUME NEW c \in Callers, BeginCall(c) PROVE CircuitTypeOK'
  BY <1>1, 0 \in 0..ReadRetries, PassFacts, SMTT(60) DEF BeginCall, CircuitTypeOK, CallPcs
<1>2. ASSUME NEW c \in Callers, CheckOpen(c) PROVE CircuitTypeOK'
  <2>1. cbPc' \in [Callers -> CallPcs]
    BY <1>2, Zenon DEF CheckOpen, Pass, CircuitTypeOK, CallPcs
  <2> QED
    BY <1>2, <2>1, Zenon DEF CheckOpen, CircuitTypeOK
<1>3. ASSUME NEW c \in Callers, Answer(c) PROVE CircuitTypeOK'
  <2>1. cbPc' \in [Callers -> CallPcs]
    BY <1>3, Zenon DEF Answer, Pass, CircuitTypeOK, CallPcs
  <2>2. cbTry' \in [Callers -> 0..ReadRetries]
    BY <1>3, SMTT(60) DEF Answer, MayRetry, CircuitTypeOK
  <2> QED
    BY <1>3, <2>1, <2>2, Zenon DEF Answer, CircuitTypeOK
<1>4. ASSUME NEW c \in Callers, SuccessZero(c) \/ SuccessClose(c) PROVE CircuitTypeOK'
  BY <1>4, PassFacts, SMTT(60) DEF SuccessZero, SuccessClose, CircuitTypeOK, CallPcs
<1>5. ASSUME NEW c \in Callers, FailureCount(c) PROVE CircuitTypeOK'
  <2>1. cbPc' \in [Callers -> CallPcs]
    BY <1>5, Zenon DEF FailureCount, Pass, CircuitTypeOK, CallPcs
  <2> QED
    BY <1>5, <2>1, SMTT(60) DEF FailureCount, CircuitTypeOK
<1>6. ASSUME NEW c \in Callers, FailureOpen(c) \/ FailureRezero(c) PROVE CircuitTypeOK'
  BY <1>6, PassFacts, SMTT(60) DEF FailureOpen, FailureRezero, CircuitTypeOK, CallPcs
<1>7. CASE Expire
  BY <1>7, Zenon DEF Expire, CircuitTypeOK
<1>8. CASE Outage
  BY <1>8, SMTT(60) DEF Outage, CircuitTypeOK
<1>9. CASE Recovery
  BY <1>9, Zenon DEF Recovery, CircuitTypeOK
<1>10. CASE UNCHANGED circuitVars
  BY <1>10, Zenon DEF circuitVars, CircuitTypeOK
<1> QED
  BY <1>1, <1>2, <1>3, <1>4, <1>5, <1>6, <1>7, <1>8, <1>9, <1>10, Zenon DEF CircuitNext, CallStep

(* A step that neither adds to the count nor takes a caller out of the     *)
(* opening path leaves the promise as it was.                              *)
LEMMA OpenersStay ==
  ASSUME CircuitTypeOK, ThresholdActedOn, cbFailures' = cbFailures,
         \A d \in Callers : cbPc[d] \in {"open", "rezero"} => cbPc'[d] \in {"open", "rezero"}
  PROVE  ThresholdActedOn'
BY Zenon DEF ThresholdActedOn

(* Whoever brings the count to the threshold stays on its way to open the  *)
(* circuit until the count is reset, by itself or by a success.            *)
LEMMA ThresholdStep ==
  ASSUME CircuitInv, [CircuitNext]_circuitVars
  PROVE  ThresholdActedOn'
<1> USE CircuitAssumption DEF CircuitInv
<1>1. ASSUME NEW c \in Callers, BeginCall(c) \/ CheckOpen(c) \/ Answer(c) \/ SuccessClose(c)
      PROVE  ThresholdActedOn'
  <2>1. cbPc[c] \in {"idle", "check", "sent", "close"} /\ cbFailures' = cbFailures
    BY <1>1, Zenon DEF BeginCall, CheckOpen, Answer, SuccessClose, Pass
  <2>2. \A d \in Callers : d # c => cbPc'[d] = cbPc[d]
    BY <1>1, Zenon DEF BeginCall, CheckOpen, Answer, SuccessClose, Pass, CircuitTypeOK
  <2> QED
    BY <2>1, <2>2, OpenersStay, Zenon
<1>2. ASSUME NEW c \in Callers, SuccessZero(c) \/ FailureRezero(c) PROVE ThresholdActedOn'
  BY <1>2, SMTT(60) DEF SuccessZero, FailureRezero, ThresholdActedOn
<1>3. ASSUME NEW c \in Callers, FailureCount(c) PROVE ThresholdActedOn'
  <2>1. CASE cbFailures + 1 >= FailureThreshold
    BY <1>3, <2>1, Zenon DEF FailureCount, Pass, CircuitTypeOK, ThresholdActedOn
  <2>2. CASE ~(cbFailures + 1 >= FailureThreshold)
    BY <1>3, <2>2, Zenon DEF FailureCount, CircuitTypeOK, ThresholdActedOn
  <2> QED
    BY <2>1, <2>2, Zenon
<1>4. ASSUME NEW c \in Callers, FailureOpen(c) PROVE ThresholdActedOn'
  BY <1>4, OpenersStay, Zenon DEF FailureOpen, Pass, CircuitTypeOK
<1>5. CASE Expire \/ Outage \/ Recovery \/ UNCHANGED circuitVars
  BY <1>5, OpenersStay, Zenon DEF Expire, Outage, Recovery, circuitVars
<1> QED
  BY <1>1, <1>2, <1>3, <1>4, <1>5, Zenon DEF CircuitNext, CallStep

(***************************************************************************)
(* For any callers, threshold and retries: a failure count at or above the *)
(* threshold always has a call on its way to open the circuit, so that no  *)
(* interleaving of on_success and on_transport_failure (resilience.rs)     *)
(* leaves a full count that nobody will act on.                            *)
(***************************************************************************)
THEOREM FullCountIsActedOn == CircuitSpec => []ThresholdActedOn
<1>1. CircuitInv /\ [CircuitNext]_circuitVars => CircuitInv'
  BY CircuitTypeStep, ThresholdStep, Zenon DEF CircuitInv
<1>2. CircuitInv => ThresholdActedOn
  BY Zenon DEF CircuitInv
<1> QED
  BY CircuitStarts, <1>1, <1>2, PTL DEF CircuitSpec

-----------------------------------------------------------------------------
(* Only the command line launches, and nothing dies, fails or is late.     *)
Undisturbed ==
  /\ \A l \in Launchers : ~Guards(l)
  /\ ~lnScenario.slow /\ ~lnScenario.hasty
  /\ \A b \in Faults : lnScenario[b] = 0

Up == {d \in Pids : lnDaemon[d] # "dead"}

(* Before a gateway answers, the launch lock is held by the one launcher   *)
(* that looks, spawns or waits for its daemon.                             *)
BeforeAnswer ==
  /\ ~lnStale
  /\ \A l \in Launchers :
       /\ lnPc[l] \notin {"reinspect", "unlink", "recreate", "drop", "pidfile"}
       /\ lnPc[l] = "inspect" => lnLock # NoLauncher
       /\ lnPc[l] \in {"verify", "spawn"} \/ lnHolds[l] => lnLock = l
  /\ Up # {} => \E l \in Launchers : lnLock = l /\ lnPc[l] = "wait"

(* One daemon at most is ever spawned.                                     *)
OneDaemon ==
  /\ \A d, e \in Up : d = e
  /\ lnPidfile # 0 => lnPidfile \in Up
  /\ \A l \in Launchers :
       /\ lnPc[l] # "dead"
       /\ lnChild[l] # 0 => lnChild[l] \in Up
       /\ lnHolds[l] => lnPc[l] \in {"verify", "spawn", "wait", "drop"}
       /\ lnHolds[l] /\ lnPc[l] = "wait" => lnChild[l] # 0
       /\ lnPc[l] = "spawn" => Up = {}

LaunchInv == LaunchTypeOK /\ (Undisturbed => OneDaemon /\ (~Answers => BeforeAnswer))


(* A launcher that moves leaves the others where they are.                 *)
LEMMA JumpFacts ==
  ASSUME LaunchTypeOK, NEW l \in Launchers, NEW from, NEW to \in LaunchPcs, Jump(l, from, to)
  PROVE  /\ lnPc' \in [Launchers -> LaunchPcs]
         /\ lnPc[l] = from /\ lnPc'[l] = to
         /\ \A k \in Launchers : k # l => lnPc'[k] = lnPc[k]
BY Zenon DEF LaunchTypeOK, Jump

(* The launchers start at rest, with no lock, no daemon and no file.       *)
LEMMA LaunchStarts == LaunchInit => LaunchInv
<1> SUFFICES ASSUME LaunchInit PROVE LaunchInv
  BY Zenon
<1>1. LaunchTypeOK
  <2>1. lnScenario \in Scenario /\ lnSpent \in [Faults -> Nat]
    BY LaunchAssumption, Zenon DEF LaunchInit
  <2>2. lnPc \in [Launchers -> LaunchPcs] /\ lnFails \in [Launchers -> 0..Threshold]
    BY LaunchAssumption, SMTT(60) DEF LaunchInit, LaunchPcs
  <2> QED
    BY <2>1, <2>2, Zenon DEF LaunchInit, LaunchTypeOK
<1>2. Up = {} /\ OneDaemon /\ BeforeAnswer
  BY Zenon DEF LaunchInit, Up, OneDaemon, BeforeAnswer
<1> QED
  BY <1>1, <1>2, Zenon DEF LaunchInv

(* Where nothing fails, the faults are never spent.                        *)
LEMMA NoFaults ==
  ASSUME LaunchTypeOK, Undisturbed, NEW b \in Faults
  PROVE  ~MayFail(b)
<1>1. lnSpent[b] \in Nat /\ lnScenario[b] = 0
  BY Zenon DEF LaunchTypeOK, Undisturbed
<1> QED
  BY <1>1, SMTT(60) DEF MayFail

(* The scenario stays, so what is undisturbed stays so.                    *)
LEMMA StaysUndisturbed ==
  ASSUME UNCHANGED lnScenario
  PROVE  (Undisturbed' <=> Undisturbed) /\ (\A l \in Launchers : Guards(l)' <=> Guards(l))
BY Zenon DEF Undisturbed, Guards

(* What a step leaves alone when the daemons and the files stay.           *)
LEMMA SameDaemons ==
  ASSUME UNCHANGED <<lnDaemon, lnPidfile>>
  PROVE  Up' = Up /\ Serving' = Serving /\ (Answers' <=> Answers)
BY Zenon DEF Up, Serving, Answers

(* The types, action by action.                                            *)
LEMMA LaunchTypeStep ==
  ASSUME LaunchTypeOK, [LaunchNext]_launchVars
  PROVE  LaunchTypeOK'
<1> USE LaunchAssumption
<1>1. ASSUME NEW l \in Launchers, Watch(l) \/ Reprobe(l) \/ EnsureStart(l) PROVE LaunchTypeOK'
  <2>1. lnFails' \in [Launchers -> 0..Threshold]
    BY <1>1, SMTT(60) DEF LaunchTypeOK, Watch, Reprobe, EnsureStart
  <2>2. lnPc' \in [Launchers -> LaunchPcs]
    BY <1>1, Zenon DEF LaunchTypeOK, Watch, Reprobe, EnsureStart, Jump, Returns, LaunchPcs
  <2> QED
    BY <1>1, <2>1, <2>2, Zenon DEF LaunchTypeOK, Watch, Reprobe, EnsureStart, lockVars, fileVars
<1>2. ASSUME NEW l \in Launchers, Invoke(l) \/ Acquire(l) PROVE LaunchTypeOK'
  <2>1. lnPc' \in [Launchers -> LaunchPcs]
    BY <1>2, Zenon DEF LaunchTypeOK, Invoke, Acquire, CreateLock, InspectLock, UnlinkStale, Jump, LaunchPcs
  <2>2. lnLock' \in Launchers \cup {NoLauncher} /\ lnStale' \in BOOLEAN
        /\ lnHolds' \in [Launchers -> BOOLEAN]
    BY <1>2, Zenon DEF LaunchTypeOK, Invoke, Acquire, CreateLock, InspectLock, UnlinkStale, lockVars
  <2> QED
    BY <1>2, <2>1, <2>2, Zenon
    DEF LaunchTypeOK, Invoke, Acquire, CreateLock, InspectLock, UnlinkStale, fileVars
<1>3. ASSUME NEW l \in Launchers, Verify(l) \/ WritePidfile(l) PROVE LaunchTypeOK'
  <2>1. lnPc' \in [Launchers -> LaunchPcs]
    BY <1>3, Zenon DEF LaunchTypeOK, Verify, WritePidfile, Jump, LaunchPcs
  <2>2. lnReady' \in [Launchers -> BOOLEAN] /\ lnPidfile' \in Pids \cup {0}
    BY <1>3, Zenon DEF LaunchTypeOK, Verify, WritePidfile, Answers, fileVars
  <2> QED
    BY <1>3, <2>1, <2>2, Zenon DEF LaunchTypeOK, Verify, WritePidfile, lockVars, fileVars
<1>4. ASSUME NEW l \in Launchers, SpawnDaemon(l) PROVE LaunchTypeOK'
  <2>1. lnPc' \in [Launchers -> LaunchPcs]
    BY <1>4, Zenon DEF LaunchTypeOK, SpawnDaemon, Jump, LaunchPcs
  <2>2. lnDaemon' \in [Pids -> {"dead", "starting", "serving"}]
        /\ lnChild' \in [Launchers -> Pids \cup {0}] /\ lnManifest' \in Pids \cup {0}
    BY <1>4, SMTT(60) DEF LaunchTypeOK, SpawnDaemon
  <2> QED
    BY <1>4, <2>1, <2>2, Zenon DEF LaunchTypeOK, SpawnDaemon, lockVars
<1>5. ASSUME NEW l \in Launchers, SpawnError(l) \/ LauncherDies(l) PROVE LaunchTypeOK'
  <2>1. lnPc' \in [Launchers -> LaunchPcs] /\ lnSpent' \in [Faults -> Nat]
    BY <1>5, SMTT(60) DEF LaunchTypeOK, SpawnError, LauncherDies, MayFail, Jump, LaunchPcs, Faults
  <2>2. lnHolds' \in [Launchers -> BOOLEAN]
    BY <1>5, Zenon DEF LaunchTypeOK, SpawnError, LauncherDies, lockVars
  <2> QED
    BY <1>5, <2>1, <2>2, Zenon DEF LaunchTypeOK, SpawnError, LauncherDies, lockVars, fileVars
<1>6. ASSUME NEW l \in Launchers, DropLock(l) PROVE LaunchTypeOK'
  <2>1. lnPc' \in [Launchers -> LaunchPcs]
    <3>1. PICK to \in LaunchPcs : Jump(l, "drop", to)
      BY <1>6, Zenon DEF DropLock, Returns, LaunchPcs
    <3> QED
      BY <3>1, JumpFacts, Zenon
  <2>2. lnFails' \in [Launchers -> 0..Threshold]
    BY <1>6, SMTT(60) DEF LaunchTypeOK, DropLock
  <2>3. lnHolds' \in [Launchers -> BOOLEAN]
    BY <1>6, Zenon DEF LaunchTypeOK, DropLock
  <2> QED
    BY <1>6, <2>1, <2>2, <2>3, Zenon DEF LaunchTypeOK, DropLock, fileVars
<1>7. ASSUME NEW l \in Launchers, WaitReady(l) PROVE LaunchTypeOK'
  <2>1. lnPc' \in [Launchers -> LaunchPcs]
    BY <1>7, Zenon DEF LaunchTypeOK, WaitReady, Jump, Returns, LaunchPcs
  <2>2. lnFails' \in [Launchers -> 0..Threshold] /\ lnChild' \in [Launchers -> Pids \cup {0}]
    BY <1>7, SMTT(60) DEF LaunchTypeOK, WaitReady
  <2>3. lnReady' \in [Launchers -> BOOLEAN]
    BY <1>7, Zenon DEF LaunchTypeOK, WaitReady, Answers
  <2> QED
    BY <1>7, <2>1, <2>2, <2>3, Zenon DEF LaunchTypeOK, WaitReady, lockVars, fileVars
<1>8. ASSUME NEW d \in Pids, RunDaemon(d) \/ DaemonDies(d) PROVE LaunchTypeOK'
  <2>1. lnDaemon' \in [Pids -> {"dead", "starting", "serving"}] /\ lnSpent' \in [Faults -> Nat]
    BY <1>8, SMTT(60) DEF LaunchTypeOK, RunDaemon, DaemonDies, MayFail, Faults
  <2> QED
    BY <1>8, <2>1, Zenon DEF LaunchTypeOK, RunDaemon, DaemonDies, lockVars, fileVars
<1>9. CASE LockAges \/ UNCHANGED launchVars
  BY <1>9, Zenon DEF LaunchTypeOK, LockAges, launchVars, lockVars, fileVars
<1> QED
  BY <1>1, <1>2, <1>3, <1>4, <1>5, <1>6, <1>7, <1>8, <1>9, Zenon DEF LaunchNext, LauncherStep

Launching == OneDaemon /\ (~Answers => BeforeAnswer)

(* Watching, asking and looking at the lock: nothing moves but the         *)
(* launcher.  A lock that is gone shows that a gateway answers.            *)
LEMMA LookKeeps ==
  ASSUME LaunchTypeOK, Undisturbed, Launching, NEW l \in Launchers,
         Reprobe(l) \/ Invoke(l) \/ EnsureStart(l)
           \/ InspectLock(l, "inspect", "reinspect") \/ InspectLock(l, "reinspect", "unlink")
  PROVE  Launching'
<1>1. /\ UNCHANGED <<lnLock, lnStale, lnHolds, lnChild, lnDaemon, lnPidfile>>
      /\ \E to \in {"rest", "done", "start", "create", "reinspect", "unlink", "wait"} :
           /\ \E from \in {"suspect", "rest", "start", "inspect", "reinspect"} : Jump(l, from, to)
           /\ to \in {"reinspect", "unlink"} => lnPc[l] \in {"inspect", "reinspect"} /\ LockIsStale
  BY Zenon DEF Reprobe, Invoke, EnsureStart, InspectLock, Returns, lockVars, fileVars, Jump
<1>2. PICK to \in {"rest", "done", "start", "create", "reinspect", "unlink", "wait"} :
           /\ \E from \in {"suspect", "rest", "start", "inspect", "reinspect"} : Jump(l, from, to)
           /\ to \in {"reinspect", "unlink"} => lnPc[l] \in {"inspect", "reinspect"} /\ LockIsStale
  BY <1>1, Zenon
<1>3. /\ lnPc[l] \in {"suspect", "rest", "start", "inspect", "reinspect"} /\ lnPc'[l] = to
      /\ \A k \in Launchers : k # l => lnPc'[k] = lnPc[k]
  <2>1. PICK from \in {"suspect", "rest", "start", "inspect", "reinspect"} : Jump(l, from, to)
    BY <1>2, Zenon
  <2>2. to \in LaunchPcs
    BY Zenon DEF LaunchPcs
  <2> QED
    BY <2>1, <2>2, JumpFacts, Zenon
<1>4. Up' = Up /\ (Answers' <=> Answers)
  BY <1>1, SameDaemons, Zenon
<1>5. OneDaemon'
  BY <1>1, <1>3, <1>4, Zenon DEF Launching, OneDaemon
<1>6. ~Answers => to \notin {"reinspect", "unlink"}
  BY <1>2, Zenon DEF Launching, BeforeAnswer, LockIsStale
<1>7. ~Answers => BeforeAnswer'
  BY <1>1, <1>2, <1>3, <1>4, <1>6, Zenon DEF Launching, BeforeAnswer
<1> QED
  BY <1>4, <1>5, <1>7, Zenon DEF Launching

(* Taking the lock, also by way of unlinking one that was gone.            *)
LEMMA LockKeeps ==
  ASSUME LaunchTypeOK, Undisturbed, Launching, NEW l \in Launchers,
         CreateLock(l, "create", "inspect") \/ CreateLock(l, "recreate", "wait") \/ UnlinkStale(l)
  PROVE  Launching'
<1>1. Up' = Up /\ (Answers' <=> Answers) /\ UNCHANGED <<lnChild, lnPidfile>>
  BY SameDaemons, Zenon DEF CreateLock, UnlinkStale, fileVars
<1>2. CASE UnlinkStale(l)
  <2>1. /\ lnPc[l] = "unlink" /\ lnPc'[l] = "recreate" /\ UNCHANGED lnHolds
        /\ \A k \in Launchers : k # l => lnPc'[k] = lnPc[k]
    BY <1>2, JumpFacts, Zenon DEF LaunchPcs, UnlinkStale
  <2>2. Answers
    BY <2>1, Zenon DEF Launching, BeforeAnswer
  <2> QED
    BY <1>1, <2>1, <2>2, Zenon DEF Launching, OneDaemon
<1>3. CASE CreateLock(l, "create", "inspect") \/ CreateLock(l, "recreate", "wait")
  <2>1. PICK from \in {"create", "recreate"}, taken \in {"inspect", "wait"} :
          CreateLock(l, from, taken) /\ (taken = "wait" => from = "recreate")
    BY <1>3, Zenon
  <2>2. CASE lnLock = NoLauncher
    <3>1. /\ lnPc[l] = from /\ lnPc'[l] = "verify"
          /\ \A k \in Launchers : k # l => lnPc'[k] = lnPc[k]
      BY <2>1, <2>2, JumpFacts, Zenon DEF LaunchPcs, CreateLock
    <3>2. /\ lnLock' = l /\ lnStale' = FALSE /\ lnHolds'[l]
          /\ \A k \in Launchers : k # l => lnHolds'[k] = lnHolds[k]
      BY <2>1, <2>2, Zenon DEF CreateLock, LaunchTypeOK
    <3>3. ~Answers => Up = {} /\ \A k \in Launchers : ~lnHolds[k] /\ lnPc[k] \notin {"inspect", "verify", "spawn"}
      BY <2>2, LaunchAssumption, Zenon DEF Launching, BeforeAnswer
    <3>4. OneDaemon'
      BY <1>1, <3>1, <3>2, Zenon DEF Launching, OneDaemon
    <3>5. ~Answers => BeforeAnswer'
      BY <1>1, <3>1, <3>2, <3>3, LaunchAssumption, Zenon DEF Launching, BeforeAnswer
    <3> QED
      BY <1>1, <3>4, <3>5, Zenon DEF Launching
  <2>3. CASE lnLock # NoLauncher
    <3>1. /\ lnPc[l] = from /\ lnPc'[l] = taken /\ UNCHANGED lockVars
          /\ \A k \in Launchers : k # l => lnPc'[k] = lnPc[k]
      BY <2>1, <2>3, JumpFacts, ZenonT(60) DEF LaunchPcs, CreateLock
    <3>2. OneDaemon'
      BY <1>1, <3>1, Zenon DEF Launching, OneDaemon, lockVars
    <3>3. ~Answers => BeforeAnswer'
      BY <1>1, <2>1, <2>3, <3>1, Zenon DEF Launching, BeforeAnswer, lockVars
    <3> QED
      BY <1>1, <3>2, <3>3, Zenon DEF Launching
  <2> QED
    BY <2>2, <2>3, Zenon
<1> QED
  BY <1>2, <1>3, Zenon

(* Looking again under the lock, and spawning: all daemons are dead then.  *)
LEMMA SpawnKeeps ==
  ASSUME LaunchTypeOK, Undisturbed, Launching, NEW l \in Launchers, Verify(l) \/ SpawnDaemon(l)
  PROVE  Launching'
<1>1. CASE Verify(l)
  <2>1. Up' = Up /\ (Answers' <=> Answers) /\ UNCHANGED <<lnChild, lnPidfile, lnLock, lnStale, lnHolds>>
    BY <1>1, SameDaemons, Zenon DEF Verify, fileVars, lockVars
  <2>2. /\ lnPc[l] = "verify" /\ lnPc'[l] = IF Answers THEN "drop" ELSE "spawn"
        /\ \A k \in Launchers : k # l => lnPc'[k] = lnPc[k]
    BY <1>1, JumpFacts, Zenon DEF LaunchPcs, Verify
  <2>3. ~Answers => lnLock = l /\ Up = {}
    BY <2>2, Zenon DEF Launching, BeforeAnswer
  <2>4. OneDaemon'
    BY <2>1, <2>2, <2>3, Zenon DEF Launching, OneDaemon
  <2>5. ~Answers => BeforeAnswer'
    BY <2>1, <2>2, <2>3, Zenon DEF Launching, BeforeAnswer
  <2> QED
    BY <2>1, <2>4, <2>5, Zenon DEF Launching
<1>2. CASE SpawnDaemon(l)
  <2>1. PICK d \in Pids : /\ lnDaemon[d] = "dead"
                          /\ lnDaemon' = [lnDaemon EXCEPT ![d] = "starting"]
                          /\ lnChild' = [lnChild EXCEPT ![l] = d]
    BY <1>2, Zenon DEF SpawnDaemon
  <2>2. /\ lnPc[l] = "spawn" /\ lnPc'[l] = "wait"
        /\ \A k \in Launchers : k # l => lnPc'[k] = lnPc[k]
    BY <1>2, JumpFacts, Zenon DEF LaunchPcs, SpawnDaemon, Undisturbed
  <2>3. UNCHANGED <<lnLock, lnStale, lnHolds, lnPidfile>>
    BY <1>2, Zenon DEF SpawnDaemon, lockVars
  <2>4. Up = {} /\ ~Answers
    BY <2>2, Zenon DEF Launching, OneDaemon, Up, Answers, Serving
  <2>5. Up' = {d}
    BY <2>1, <2>4, Zenon DEF Up, LaunchTypeOK
  <2>6. lnPidfile = 0 /\ \A k \in Launchers : k # l => lnChild'[k] = 0
    BY <2>1, <2>4, Zenon DEF Launching, OneDaemon, LaunchTypeOK
  <2>7. lnChild'[l] = d /\ d # 0
    BY <2>1, LaunchAssumption, Zenon DEF LaunchTypeOK
  <2>8. lnLock = l /\ \A k \in Launchers : k # l => lnPc[k] # "spawn" /\ ~lnHolds[k]
    BY <2>2, <2>4, Zenon DEF Launching, BeforeAnswer
  <2>9. OneDaemon'
    BY <2>2, <2>3, <2>5, <2>6, <2>7, <2>8, Zenon DEF Launching, OneDaemon
  <2>10. BeforeAnswer'
    BY <2>2, <2>3, <2>4, <2>8, Zenon DEF Launching, BeforeAnswer
  <2> QED
    BY <2>9, <2>10, Zenon DEF Launching
<1> QED
  BY <1>1, <1>2, Zenon

(* The lock is dropped, and the wait of its holder ends, only when a       *)
(* gateway answers.                                                        *)
LEMMA ReadyKeeps ==
  ASSUME LaunchTypeOK, Undisturbed, Launching, NEW l \in Launchers,
         DropLock(l) \/ WaitReady(l) \/ WritePidfile(l)
  PROVE  Launching'
<1>1. Up' = Up /\ (Answers' <=> Answers)
  BY Zenon DEF Up, Answers, Serving, DropLock, WaitReady, WritePidfile
<1>2. CASE DropLock(l)
  <2>1. PICK to \in {"pidfile", "wait", "done"} : Jump(l, "drop", to)
    BY <1>2, Zenon DEF DropLock, Returns, Undisturbed
  <2>2. /\ lnPc[l] = "drop" /\ lnPc'[l] \in {"pidfile", "wait", "done"}
        /\ \A k \in Launchers : k # l => lnPc'[k] = lnPc[k]
    BY <2>1, JumpFacts, ZenonT(60) DEF LaunchPcs
  <2>3. /\ UNCHANGED <<lnChild, lnPidfile>> /\ ~lnHolds'[l]
        /\ \A k \in Launchers : k # l => lnHolds'[k] = lnHolds[k]
    BY <1>2, Zenon DEF DropLock, fileVars, LaunchTypeOK
  <2>4. Answers
    BY <2>2, Zenon DEF Launching, BeforeAnswer
  <2> QED
    BY <1>1, <2>2, <2>3, <2>4, Zenon DEF Launching, OneDaemon
<1>3. CASE WaitReady(l)
  <2>1. PICK to \in {"drop", "done"} : Jump(l, "wait", to) /\ (to = "drop" <=> lnHolds[l])
    BY <1>3, Zenon DEF WaitReady, Returns, Undisturbed
  <2>2. /\ lnPc[l] = "wait" /\ lnPc'[l] = to
        /\ \A k \in Launchers : k # l => lnPc'[k] = lnPc[k]
    BY <2>1, JumpFacts, ZenonT(60) DEF LaunchPcs
  <2>3. UNCHANGED <<lnPidfile, lnLock, lnStale, lnHolds>> /\ lnChild' = lnChild
    <3>1. lnChild' = [lnChild EXCEPT ![l] = @]
      BY <1>3, Zenon DEF WaitReady, Undisturbed
    <3> QED
      BY <1>3, <3>1, Zenon DEF WaitReady, fileVars, lockVars, LaunchTypeOK
  <2>4. lnHolds[l] => Answers
    <3>1. lnHolds[l] => Up # {}
      BY <2>2, Zenon DEF Launching, OneDaemon
    <3> QED
      BY <1>3, <3>1, Zenon DEF WaitReady, Undisturbed, Up
  <2>5. ~Answers => Up = {}
    BY <1>3, Zenon DEF WaitReady, Undisturbed, Up
  <2>6. OneDaemon'
    BY <1>1, <2>1, <2>2, <2>3, Zenon DEF Launching, OneDaemon
  <2>7. ~Answers => BeforeAnswer'
    BY <1>1, <2>1, <2>2, <2>3, <2>4, <2>5, Zenon DEF Launching, BeforeAnswer
  <2> QED
    BY <1>1, <2>6, <2>7, Zenon DEF Launching
<1>4. CASE WritePidfile(l)
  <2>1. /\ lnPc[l] = "pidfile" /\ lnPc'[l] = "done"
        /\ \A k \in Launchers : k # l => lnPc'[k] = lnPc[k]
    BY <1>4, JumpFacts, Zenon DEF LaunchPcs, WritePidfile
  <2>2. UNCHANGED <<lnChild, lnHolds>> /\ lnPidfile' = lnChild[l]
    BY <1>4, Zenon DEF WritePidfile, lockVars
  <2>3. Answers
    BY <2>1, Zenon DEF Launching, BeforeAnswer
  <2> QED
    BY <1>1, <2>1, <2>2, <2>3, Zenon DEF Launching, OneDaemon
<1> QED
  BY <1>2, <1>3, <1>4, Zenon

(* A daemon that starts finds no other, so it serves.                      *)
LEMMA DaemonKeeps ==
  ASSUME LaunchTypeOK, Undisturbed, Launching, NEW d \in Pids, RunDaemon(d)
  PROVE  Launching'
<1>1. UNCHANGED <<lnPc, lnChild, lnHolds, lnPidfile>>
  BY Zenon DEF RunDaemon, fileVars, lockVars
<1>2. ~Answers
  <2>1. d \in Up /\ d \notin Serving
    BY Zenon DEF RunDaemon, Up, Serving
  <2>2. \A e \in Serving : e \in Up
    BY Zenon DEF Up, Serving
  <2> QED
    BY <2>1, <2>2, Zenon DEF Launching, OneDaemon, Answers
<1>3. lnDaemon' = [lnDaemon EXCEPT ![d] = "serving"]
  BY <1>2, Zenon DEF RunDaemon
<1>4. Up' = Up /\ Answers'
  <2>1. lnDaemon[d] = "starting" /\ lnDaemon \in [Pids -> {"dead", "starting", "serving"}]
    BY Zenon DEF RunDaemon, LaunchTypeOK
  <2> QED
    BY <1>3, <2>1, Zenon DEF Up, Answers, Serving
<1> QED
  BY <1>1, <1>4, Zenon DEF Launching, OneDaemon

(* Where nothing dies, no lock grows old.                                  *)
LEMMA RestKeeps ==
  ASSUME LaunchTypeOK, Undisturbed, Launching,
         \/ \E l \in Launchers : Watch(l) \/ SpawnError(l) \/ LauncherDies(l)
         \/ \E d \in Pids : DaemonDies(d)
         \/ LockAges
         \/ UNCHANGED launchVars
  PROVE  Launching'
<1>1. \A b \in Faults : ~MayFail(b)
  BY NoFaults, Zenon
<1>2. ~\E l \in Launchers : SpawnError(l) \/ LauncherDies(l)
  BY <1>1, Zenon DEF SpawnError, LauncherDies, Faults
<1>3. ~\E d \in Pids : DaemonDies(d)
  BY <1>1, Zenon DEF DaemonDies, Faults
<1>4. ~\E l \in Launchers : Watch(l)
  BY Zenon DEF Watch, Undisturbed
<1>5. ~LockAges
  <2>1. lnLock # NoLauncher => lnPc[lnLock] # "dead"
    BY Zenon DEF Launching, OneDaemon, LaunchTypeOK
  <2> QED
    BY <2>1, Zenon DEF LockAges, Undisturbed
<1>6. UNCHANGED launchVars
  BY <1>2, <1>3, <1>4, <1>5, Zenon
<1>7. UNCHANGED <<lnPc, lnChild, lnHolds, lnLock, lnStale, lnDaemon, lnPidfile>>
  BY <1>6, Zenon DEF launchVars, lockVars, fileVars
<1>8. Up' = Up /\ (Answers' <=> Answers)
  BY <1>7, SameDaemons, Zenon
<1> QED
  BY <1>7, <1>8, Zenon DEF Launching, OneDaemon, BeforeAnswer

(* The pidfile written by the command line (gateway_ensure.rs) names the   *)
(* gateway that serves, when only the command line launches, nothing dies  *)
(* or fails and no wait times out early: for any number of launchers and   *)
(* of process ids, although a launcher may unlink a lock that another has  *)
(* created since it saw the lock gone.                                     *)
THEOREM PidfileIsRight == LaunchSpec => []PidfileNamesGateway
<1>1. LaunchInit => LaunchInv
  BY LaunchStarts, Zenon
<1>2. LaunchInv /\ [LaunchNext]_launchVars => LaunchInv'
  <2> SUFFICES ASSUME LaunchInv, [LaunchNext]_launchVars PROVE LaunchInv'
    BY Zenon
  <2>1. LaunchTypeOK /\ LaunchTypeOK'
    BY LaunchTypeStep, Zenon DEF LaunchInv
  <2>2. UNCHANGED lnScenario
    BY Zenon DEF LaunchNext, LauncherStep, Invoke, Watch, Reprobe, EnsureStart, Acquire, CreateLock,
       InspectLock, UnlinkStale, Verify, SpawnDaemon, SpawnError, DropLock, WaitReady, WritePidfile,
       RunDaemon, DaemonDies, LauncherDies, LockAges, launchVars
  <2>3. Undisturbed' => Undisturbed /\ Launching
    BY <2>2, StaysUndisturbed, Zenon DEF LaunchInv, Launching
  <2>4. Undisturbed' => Launching'
    BY <2>1, <2>3, LookKeeps, LockKeeps, SpawnKeeps, ReadyKeeps, DaemonKeeps, RestKeeps, Zenon
    DEF LaunchNext, LauncherStep, Acquire
  <2> QED
    BY <2>1, <2>4, Zenon DEF LaunchInv, Launching
<1>3. LaunchInv => PidfileNamesGateway
  <2> SUFFICES ASSUME LaunchInv, Undisturbed, Answers, lnPidfile # 0 PROVE lnPidfile \in Serving
    BY Zenon DEF PidfileNamesGateway, Undisturbed
  <2>1. PICK d \in Pids : d \in Serving
    BY Zenon DEF Answers, Serving
  <2>2. d \in Up
    BY <2>1, ZenonT(60) DEF Serving, Up
  <2> QED
    BY <2>1, <2>2, Zenon DEF LaunchInv, OneDaemon
<1> QED
  BY <1>1, <1>2, <1>3, PTL DEF LaunchSpec

-----------------------------------------------------------------------------
(* What the argument needs of the types.                                   *)
ThreadPcs == {"idle", "prune", "bind", "probe", "ready", "ask", "poll", "suspect",
              "reap", "lost", "listening"} \cup WinnerPcs
ThreadRecord == [pc : ThreadPcs, tries : Nat, misses : Nat, seen : Nat \cup {NoVersion}]
Lives == {"off", "starting", "readback", "running", "failed", "exiting", "dead"}
Row == Sidecars \X Slots \X Roles

ElectionTypes ==
  /\ gwPort \in Threads \cup {Free, Lingering} /\ gwRows \subseteq Row /\ gwUnsure \subseteq Row
  /\ gwThread \in [Threads -> ThreadRecord] /\ gwLife \in [Sidecars -> Lives]

(* A thread that won the port holds it until it drains.                    *)
Winning == {"sweep", "publish", "tasks", "serving", "listening"}
WinnersHold == \A t \in Threads : Pc(t) \in Winning => Holds(t)

(* A thread at work belongs to a process that lives.                       *)
ThreadsLive == \A t \in Threads : Pc(t) # "idle" => Alive(t[1])

(* The active rows that no failed removal has left.                        *)
SureRows == {r \in gwRows : r[3] = "active" /\ r \notin gwUnsure}

(* What the winner swept stays away until it publishes its own row.        *)
SweptClean == \A t \in Threads : Pc(t) = "publish" => SureRows = {}

(* The row of t is there, or its registration failed.                      *)
Known(t) == OwnRow(t) \in gwRows \cup gwUnsure

Alone == \A t \in Threads : Pc(t) \in {"tasks", "serving"} => Known(t) /\ SureRows \subseteq {OwnRow(t)}

ElectionInv == ElectionTypes /\ WinnersHold /\ ThreadsLive /\ SweptClean /\ Alone

(* A thread is a process and a slot; nobody's port is no thread's.         *)
LEMMA ThreadPairs ==
  /\ \A p \in Sidecars, s \in Slots : <<p, s>> \in Threads
  /\ \A t \in Threads : t[1] \in Sidecars /\ t[2] \in Slots /\ t = <<t[1], t[2]>>
  /\ Free \notin Threads /\ Lingering \notin Threads
<1>1. "free" \notin Slots /\ "lingering" \notin Slots
  BY Zenon DEF Slots, Elections, Challengers, Challenger
<1> QED
  BY <1>1, SMTT(60) DEF Threads, Free, Lingering

LEMMA SlotNames ==
  /\ {"boot", "failover", "stray"} \subseteq Slots
  /\ \A s : Challenger(s) \in Slots /\ Challenger(s) \in Challengers
  /\ \A s \in Elections : Challenger(s) # s /\ s \notin Challengers
  /\ "stray" \notin Elections /\ "stray" \notin Challengers
BY Zenon DEF Slots, Elections, Challengers, Challenger

(* The row a gateway publishes.                                            *)
LEMMA OwnRows ==
  ASSUME NEW t \in Threads
  PROVE  /\ OwnRow(t) \in Row /\ OwnRow(t)[3] = "active" /\ OwnRow(t)[1] = t[1]
         /\ \A u \in Threads : OwnRow(u) = OwnRow(t) => u = t
<1>1. \A u \in Threads : u[1] \in Sidecars /\ u[2] \in Slots /\ u = <<u[1], u[2]>>
  BY ThreadPairs, Zenon
<1>2. "active" \in Roles
  BY Zenon DEF Roles
<1>3. OwnRow(t) \in Row
  BY <1>1, <1>2, Zenon DEF OwnRow, Row
<1> QED
  BY <1>1, <1>3, Zenon DEF OwnRow

(* The states a thread is put into.                                        *)
LEMMA RecordFacts ==
  /\ Idle \in ThreadRecord /\ Idle.pc = "idle"
  /\ \A pc \in ThreadPcs : At(pc) \in ThreadRecord /\ At(pc).pc = pc
  /\ \A r \in ThreadRecord, pc \in ThreadPcs :
       [r EXCEPT !.pc = pc] \in ThreadRecord /\ [r EXCEPT !.pc = pc].pc = pc
<1>1. NoVersion \in Nat \cup {NoVersion} /\ 0 \in Nat /\ "idle" \in ThreadPcs
  BY Zenon DEF ThreadPcs
<1>2. Idle \in ThreadRecord /\ Idle.pc = "idle"
  BY <1>1, Zenon DEF Idle, ThreadRecord
<1>3. \A r \in ThreadRecord, pc \in ThreadPcs :
        [r EXCEPT !.pc = pc] \in ThreadRecord /\ [r EXCEPT !.pc = pc].pc = pc
  BY Zenon DEF ThreadRecord
<1> QED
  BY <1>2, <1>3, Zenon DEF At

(* A thread that moves leaves the others where they are.                   *)
LEMMA GotoFacts ==
  ASSUME ElectionTypes, NEW t \in Threads, NEW pc \in ThreadPcs, Goto(t, pc)
  PROVE  /\ gwThread' \in [Threads -> ThreadRecord]
         /\ Pc(t)' = pc
         /\ \A u \in Threads : u # t => Pc(u)' = Pc(u)
<1>1. gwThread[t] \in ThreadRecord /\ gwThread' = [gwThread EXCEPT ![t] = [gwThread[t] EXCEPT !.pc = pc]]
  BY Zenon DEF ElectionTypes, Goto
<1>2. [gwThread[t] EXCEPT !.pc = pc] \in ThreadRecord /\ [gwThread[t] EXCEPT !.pc = pc].pc = pc
  BY <1>1, RecordFacts, Zenon
<1> QED
  BY <1>1, <1>2, Zenon DEF ElectionTypes, Pc

(* The port has one holder, so there is one winner.                        *)
LEMMA OneWinner ==
  ASSUME ElectionInv, NEW t \in Threads, NEW u \in Threads, Pc(t) \in Winning, Pc(u) \in Winning
  PROVE  t = u
BY Zenon DEF ElectionInv, WinnersHold, Holds

(* A live process keeps its rows when dead ones are pruned.                *)
LEMMA LiveRows ==
  ASSUME ElectionInv, NEW t \in Threads, Pc(t) # "idle"
  PROVE  OwnRow(t) \notin DeadRows
<1>1. Alive(t[1]) /\ OwnRow(t)[1] = t[1]
  BY OwnRows, Zenon DEF ElectionInv, ThreadsLive
<1> QED
  BY <1>1, Zenon DEF DeadRows

(* No sure row comes, and the winner's stays.                              *)
LEMMA RowsKept ==
  ASSUME ElectionInv, SureRows' \subseteq SureRows,
         \A u \in Threads : Pc(u)' = "publish" => Pc(u) = "publish",
         \A u \in Threads : Pc(u)' \in {"tasks", "serving"} =>
                              Pc(u) \in {"tasks", "serving"} /\ (Known(u) => Known(u)')
  PROVE  SweptClean' /\ Alone'
<1>1. SweptClean'
  BY Zenon DEF ElectionInv, SweptClean
<1>2. ASSUME NEW u \in Threads, Pc(u)' \in {"tasks", "serving"}
      PROVE  Known(u)' /\ SureRows' \subseteq {OwnRow(u)}
  <2>1. Known(u) /\ SureRows \subseteq {OwnRow(u)}
    BY <1>2, Zenon DEF ElectionInv, Alone
  <2> QED
    BY <1>2, <2>1, Zenon
<1>3. Alone'
  BY <1>2, Zenon DEF Alone, OwnRow
<1> QED
  BY <1>1, <1>3, Zenon

(* Threads move on without winning, rows go but not the winner's.          *)
LEMMA QuietKeeps ==
  ASSUME ElectionInv, UNCHANGED <<gwPort, gwLife>>,
         gwThread' \in [Threads -> ThreadRecord], gwRows' \subseteq Row, gwUnsure' \subseteq Row,
         SureRows' \subseteq SureRows,
         \A u \in Threads : Pc(u)' = Pc(u) \/ (Pc(u) # "idle" /\ Pc(u)' \notin Winning),
         \A u \in Threads : Pc(u)' \in {"tasks", "serving"} => (Known(u) => Known(u)')
  PROVE  ElectionInv'
<1>1. ElectionTypes'
  BY Zenon DEF ElectionInv, ElectionTypes
<1>2. WinnersHold'
  BY Zenon DEF ElectionInv, WinnersHold, Holds
<1>3. ThreadsLive'
  BY Zenon DEF ElectionInv, ThreadsLive, Alive
<1>4. \A u \in Threads : Pc(u)' \in Winning => Pc(u) = Pc(u)'
  BY Zenon
<1>5. SweptClean' /\ Alone'
  BY <1>4, RowsKept, Zenon DEF Winning
<1> QED
  BY <1>1, <1>2, <1>3, <1>5, Zenon DEF ElectionInv

(* A registry that nobody writes.                                          *)
LEMMA SameRows ==
  ASSUME ElectionTypes, UNCHANGED registryVars
  PROVE  /\ gwRows' \subseteq Row /\ gwUnsure' \subseteq Row /\ SureRows' = SureRows
         /\ \A u \in Threads : Known(u)' = Known(u)
<1>1. gwRows' = gwRows /\ gwUnsure' = gwUnsure
  BY Zenon DEF registryVars
<1> QED
  BY <1>1, Zenon DEF ElectionTypes, SureRows, Known, OwnRow

(* The rows of a thread are not another thread's.                          *)
LEMMA OthersRows ==
  ASSUME NEW t \in Threads, NEW u \in Threads, u # t
  PROVE  OwnRow(u) \notin RowsOf(t)
<1>1. u = <<u[1], u[2]>> /\ t = <<t[1], t[2]>>
  BY ThreadPairs, Zenon
<1> QED
  BY <1>1, Zenon DEF OwnRow, RowsOf

(* Rows that are withdrawn while nobody who starts is cut off: no sure row *)
(* comes, and the rows that were not meant stay.                           *)
LEMMA WithdrawFacts ==
  ASSUME ElectionInv, NEW W, NEW T \in SUBSET Threads, Withdraw(W, T),
         \A t \in T : Pc(t) # "tasks"
  PROVE  /\ gwRows' \subseteq Row /\ gwUnsure' \subseteq Row /\ SureRows' \subseteq SureRows
         /\ \A u \in Threads : OwnRow(u) \notin W /\ Known(u) => Known(u)'
<1>1. \A rows : Orphaned(T, rows) = rows
  BY Zenon DEF Orphaned
<1>2. PICK left \in SUBSET (gwRows \cap W) :
             gwRows' = (gwRows \ W) \cup left /\ gwUnsure' = (gwUnsure \ W) \cup left
  BY <1>1, Zenon DEF Withdraw
<1>3. gwRows \subseteq Row /\ gwUnsure \subseteq Row
  BY Zenon DEF ElectionInv, ElectionTypes
<1>4. SureRows' \subseteq SureRows
  BY <1>2, Zenon DEF SureRows
<1>5. \A u \in Threads : OwnRow(u) \notin W /\ Known(u) => Known(u)'
  BY <1>2, Zenon DEF Known, OwnRow
<1> QED
  BY <1>2, <1>3, <1>4, <1>5, Zenon

(* The same, when nobody is cut off.                                       *)
LEMMA PlainWithdraw ==
  ASSUME ElectionInv, NEW W, Withdraw(W, {})
  PROVE  /\ gwRows' \subseteq Row /\ gwUnsure' \subseteq Row /\ SureRows' \subseteq SureRows
         /\ \A u \in Threads : OwnRow(u) \notin W /\ Known(u) => Known(u)'
<1>1. {} \in SUBSET Threads /\ \A t \in {} : Pc(t) # "tasks"
  BY ZenonT(60)
<1> QED
  BY <1>1, WithdrawFacts, Zenon

(* When a gateway that starts is cut off, its row becomes the stray one.   *)
LEMMA OrphanFacts ==
  ASSUME ElectionInv, NEW W, NEW T \in SUBSET Threads, Withdraw(W, T),
         NEW c \in T, Pc(c) = "tasks", OwnRow(<<c[1], "stray">>) \notin W
  PROVE  /\ gwRows' \subseteq Row /\ gwUnsure' \subseteq Row
         /\ Known(<<c[1], "stray">>)' /\ SureRows' \subseteq {OwnRow(<<c[1], "stray">>)}
<1> DEFINE row == OwnRow(<<c[1], "stray">>)
<1>0. c \in Threads /\ <<c[1], "stray">> \in Threads
  BY ThreadPairs, SlotNames, ZenonT(60)
<1>1. row = <<c[1], "stray", "active">> /\ row \in Row /\ OwnRow(c)[1] = c[1]
  BY <1>0, OwnRows, ZenonT(60) DEF OwnRow
<1> HIDE DEF row
<1>2. \A t \in T : Pc(t) = "tasks" => t = c
  BY <1>0, OneWinner, ZenonT(60) DEF Winning
<1>3. \A rows : Orphaned(T, rows) = {IF r = OwnRow(c) THEN row ELSE r : r \in rows}
  <2>1. \A r : (\E t \in T : Pc(t) = "tasks" /\ r = OwnRow(t)) <=> r = OwnRow(c)
    BY <1>2, ZenonT(60)
  <2>2. \A r : (IF \E t \in T : Pc(t) = "tasks" /\ r = OwnRow(t) THEN <<r[1], "stray", "active">> ELSE r)
              = IF r = OwnRow(c) THEN row ELSE r
    BY <1>1, <2>1, ZenonT(60)
  <2> QED
    BY <2>2, ZenonT(60) DEF Orphaned
<1> DEFINE R == {IF r = OwnRow(c) THEN row ELSE r : r \in gwRows}
           U == {IF r = OwnRow(c) THEN row ELSE r : r \in gwUnsure}
<1>4. PICK left \in SUBSET (R \cap W) : gwRows' = (R \ W) \cup left /\ gwUnsure' = (U \ W) \cup left
  BY <1>3, ZenonT(60) DEF Withdraw
<1>5. Known(c) /\ SureRows \subseteq {OwnRow(c)}
  BY <1>0, ZenonT(60) DEF ElectionInv, Alone
<1>6. R \subseteq Row /\ U \subseteq Row
  <2>1. gwRows \subseteq Row /\ gwUnsure \subseteq Row
    BY ZenonT(60) DEF ElectionInv, ElectionTypes
  <2> QED
    BY <1>1, <2>1, ZenonT(60)
<1>7. row \in R \cup U
  BY <1>5, ZenonT(60) DEF Known
<1>8. ASSUME NEW r \in R, r \notin U, r[3] = "active" PROVE r = row
  <2> SUFFICES ASSUME r # row PROVE FALSE
    BY ZenonT(60)
  <2>1. r \in gwRows /\ r # OwnRow(c)
    BY <1>8, ZenonT(60)
  <2>2. r \notin gwUnsure
    BY <1>8, <2>1, ZenonT(60)
  <2> QED
    BY <1>5, <1>8, <2>1, <2>2, ZenonT(60) DEF SureRows
<1> HIDE DEF R, U
<1>9. Known(<<c[1], "stray">>)'
  <2>1. row \in gwRows' \cup gwUnsure'
    BY <1>4, <1>7, ZenonT(60) DEF row
  <2> QED
    BY <2>1, ZenonT(60) DEF Known, OwnRow, row
<1>10. SureRows' \subseteq {row}
  BY <1>4, <1>8, ZenonT(60) DEF SureRows
<1> QED
  BY <1>4, <1>6, <1>9, <1>10, ZenonT(60) DEF row

(* Pruning, looking, asking and giving up: nobody wins and nobody loses.   *)
LEMMA WaitKeeps ==
  ASSUME ElectionInv, NEW t \in Threads,
         \/ Prune(t) \/ Announce(t) \/ Suspect(t) \/ GiveUp(t)
         \/ Bind(t) /\ Taken
         \/ Poll(t) /\ Taken
  PROVE  ElectionInv'
<1> USE DEF ElectionInv
<1>0. ElectionTypes
  BY Zenon
<1>1. CASE Prune(t)
  <2>1. Pc(t) = "prune" /\ Pc(t)' = "bind" /\ (\A u \in Threads : u # t => Pc(u)' = Pc(u))
        /\ gwThread' \in [Threads -> ThreadRecord]
    BY <1>0, <1>1, GotoFacts, Zenon DEF Prune, ThreadPcs
  <2>2. Withdraw(DeadRows, {})
    BY <1>1, Zenon DEF Prune
  <2>3. /\ gwRows' \subseteq Row /\ gwUnsure' \subseteq Row /\ SureRows' \subseteq SureRows
        /\ \A u \in Threads : OwnRow(u) \notin DeadRows /\ Known(u) => Known(u)'
    BY <2>2, PlainWithdraw, Zenon
  <2>4. ASSUME NEW u \in Threads, Pc(u)' \in {"tasks", "serving"} PROVE Known(u) => Known(u)'
    <3>1. OwnRow(u) \notin DeadRows
      BY <2>1, <2>4, LiveRows, Zenon
    <3> QED
      BY <2>3, <3>1, Zenon
  <2> QED
    BY <1>1, <2>1, <2>3, <2>4, QuietKeeps, Zenon DEF Prune, Winning
<1>2. CASE Announce(t)
  <2>1. Pc(t) = "ready" /\ Pc(t)' = "ask" /\ (\A u \in Threads : u # t => Pc(u)' = Pc(u))
        /\ gwThread' \in [Threads -> ThreadRecord]
    BY <1>0, <1>2, GotoFacts, Zenon DEF Announce, ThreadPcs
  <2>2. <<t[1], t[2], "challenger">> \in Row /\ <<t[1], t[2], "challenger">>[3] # "active"
    <3>1. t[1] \in Sidecars /\ t[2] \in Slots /\ "challenger" \in Roles
      BY ThreadPairs, Zenon DEF Roles
    <3> QED
      BY <3>1, Zenon DEF Row
  <2>3. \/ gwRows' = gwRows \cup {<<t[1], t[2], "challenger">>} /\ gwUnsure' \subseteq gwUnsure
           /\ gwUnsure \ {<<t[1], t[2], "challenger">>} \subseteq gwUnsure'
        \/ gwRows' = gwRows /\ gwUnsure' = gwUnsure \cup {<<t[1], t[2], "challenger">>}
    BY <1>2, Zenon DEF Announce, Register
  <2>4. SureRows' \subseteq SureRows /\ gwRows' \subseteq Row /\ gwUnsure' \subseteq Row
    <3>1. gwRows' \subseteq Row /\ gwUnsure' \subseteq Row
      BY <1>0, <2>2, <2>3, Zenon DEF ElectionTypes
    <3>2. ASSUME NEW r \in gwRows', r[3] = "active", r \notin gwUnsure' PROVE r \in SureRows
      <4>1. r # <<t[1], t[2], "challenger">>
        BY <2>2, <3>2, ZenonT(60)
      <4> QED
        BY <2>3, <3>2, <4>1, Zenon DEF SureRows
    <3> QED
      BY <3>1, <3>2, Zenon DEF SureRows
  <2>5. \A u \in Threads : Known(u) => Known(u)'
    <3>1. \A u \in Threads : OwnRow(u) # <<t[1], t[2], "challenger">>
      BY <2>2, OwnRows, Zenon
    <3> QED
      BY <2>3, <3>1, Zenon DEF Known, OwnRow
  <2> QED
    BY <1>2, <2>1, <2>4, <2>5, QuietKeeps, Zenon DEF Announce, Winning
<1>3. CASE Suspect(t)
  <2>1. PICK pc \in {"ask", "reap"} : Goto(t, pc)
    BY <1>3, Zenon DEF Suspect
  <2>2. Pc(t) = "suspect" /\ Pc(t)' = pc /\ (\A u \in Threads : u # t => Pc(u)' = Pc(u))
        /\ gwThread' \in [Threads -> ThreadRecord]
    BY <1>0, <1>3, <2>1, GotoFacts, Zenon DEF Suspect, ThreadPcs
  <2>3. /\ gwRows' \subseteq Row /\ gwUnsure' \subseteq Row /\ SureRows' = SureRows
        /\ \A u \in Threads : Known(u)' = Known(u)
    BY <1>0, <1>3, SameRows, Zenon DEF Suspect
  <2> QED
    BY <1>3, <2>2, <2>3, QuietKeeps, Zenon DEF Suspect, Winning
<1>4. CASE GiveUp(t)
  <2>1. Pc(t) = "poll" /\ Pc(t)' = "idle" /\ (\A u \in Threads : u # t => Pc(u)' = Pc(u))
        /\ gwThread' \in [Threads -> ThreadRecord]
    BY <1>0, <1>4, RecordFacts, Zenon DEF GiveUp, ElectionTypes, Pc
  <2>2. Withdraw(RowsOf(t), {})
    BY <1>4, Zenon DEF GiveUp
  <2>3. /\ gwRows' \subseteq Row /\ gwUnsure' \subseteq Row /\ SureRows' \subseteq SureRows
        /\ \A u \in Threads : OwnRow(u) \notin RowsOf(t) /\ Known(u) => Known(u)'
    BY <2>2, PlainWithdraw, ZenonT(60)
  <2>4. \A u \in Threads : u # t /\ Known(u) => Known(u)'
    BY <2>3, OthersRows, Zenon
  <2> QED
    BY <1>4, <2>1, <2>3, <2>4, QuietKeeps, Zenon DEF GiveUp, Winning
<1>5. CASE Bind(t) /\ Taken
  <2>1. Pc(t) = "bind" /\ Pc(t)' = "probe" /\ (\A u \in Threads : u # t => Pc(u)' = Pc(u))
        /\ gwThread' \in [Threads -> ThreadRecord]
    BY <1>0, <1>5, GotoFacts, Zenon DEF Bind, ThreadPcs
  <2>2. UNCHANGED <<gwPort, gwLife>> /\ UNCHANGED registryVars
    BY <1>5, Zenon DEF Bind
  <2>3. /\ gwRows' \subseteq Row /\ gwUnsure' \subseteq Row /\ SureRows' = SureRows
        /\ \A u \in Threads : Known(u)' = Known(u)
    BY <1>0, <2>2, SameRows, Zenon
  <2> QED
    BY <2>1, <2>2, <2>3, QuietKeeps, Zenon DEF Winning
<1>6. CASE Poll(t) /\ Taken
  <2>1. /\ Pc(t) = "poll" /\ Pc(t)' \in {"suspect", "ask"} /\ (\A u \in Threads : u # t => Pc(u)' = Pc(u))
        /\ gwThread' \in [Threads -> ThreadRecord]
    <3>1. gwThread[t] \in ThreadRecord
      BY <1>0, Zenon DEF ElectionTypes
    <3> DEFINE a == gwThread[t].tries + 1
               b == gwThread[t].misses + 1
               pc == IF b >= RecoveryAttempts THEN "suspect" ELSE "ask"
               new == [gwThread[t] EXCEPT !.tries = a, !.misses = b, !.pc = pc]
    <3>2. gwThread' = [gwThread EXCEPT ![t] = new] /\ Pc(t) = "poll"
      BY <1>6, Zenon DEF Poll
    <3>3. a \in Nat /\ b \in Nat
      BY <3>1, SMTT(60) DEF ThreadRecord
    <3>4. pc \in {"suspect", "ask"} /\ pc \in ThreadPcs
      BY Zenon DEF ThreadPcs
    <3> HIDE DEF a, b, pc
    <3>5. new \in ThreadRecord /\ new.pc \in {"suspect", "ask"}
      BY <3>1, <3>3, <3>4, Zenon DEF ThreadRecord
    <3> HIDE DEF new
    <3> QED
      BY <1>0, <3>2, <3>5, Zenon DEF ElectionTypes, Pc
  <2>2. UNCHANGED <<gwPort, gwLife>> /\ UNCHANGED registryVars
    BY <1>6, Zenon DEF Poll
  <2>3. /\ gwRows' \subseteq Row /\ gwUnsure' \subseteq Row /\ SureRows' = SureRows
        /\ \A u \in Threads : Known(u)' = Known(u)
    BY <1>0, <2>2, SameRows, Zenon
  <2> QED
    BY <2>1, <2>2, <2>3, QuietKeeps, Zenon DEF Winning
<1> QED
  BY <1>1, <1>2, <1>3, <1>4, <1>5, <1>6, Zenon

(* Taking the free port: nobody else has it, and no row is written yet.    *)
LEMMA WinKeeps ==
  ASSUME ElectionInv, NEW t \in Threads, ~Taken, Bind(t) \/ Poll(t)
  PROVE  ElectionInv'
<1>0. ElectionTypes
  BY Zenon DEF ElectionInv
<1>1. \A u \in Threads : Pc(u) \notin Winning
  BY ThreadPairs, Zenon DEF ElectionInv, WinnersHold, Holds, Taken
<1>2. /\ Pc(t) # "idle" /\ Pc(t)' = "sweep" /\ (\A u \in Threads : u # t => Pc(u)' = Pc(u))
      /\ gwThread' \in [Threads -> ThreadRecord] /\ gwPort' = t
  <2>1. CASE Bind(t)
    BY <1>0, <2>1, GotoFacts, Zenon DEF Bind, ThreadPcs, WinnerPcs
  <2>2. CASE Poll(t)
    <3>1. gwThread' = [gwThread EXCEPT ![t] = At("sweep")] /\ gwPort' = t /\ Pc(t) = "poll"
      BY <2>2, Zenon DEF Poll
    <3>2. At("sweep") \in ThreadRecord /\ At("sweep").pc = "sweep"
      BY RecordFacts, Zenon DEF ThreadPcs, WinnerPcs
    <3> QED
      BY <1>0, <3>1, <3>2, Zenon DEF ElectionTypes, Pc
  <2> QED
    BY <2>1, <2>2, Zenon
<1>3. gwLife' = gwLife /\ gwRows' = gwRows /\ gwUnsure' = gwUnsure
  BY Zenon DEF Bind, Poll, registryVars
<1>4. ElectionTypes'
  BY <1>0, <1>2, <1>3, Zenon DEF ElectionTypes
<1>5. WinnersHold'
  BY <1>1, <1>2, Zenon DEF WinnersHold, Holds
<1>6. ThreadsLive'
  BY <1>2, <1>3, Zenon DEF ElectionInv, ThreadsLive, Alive
<1>7. \A u \in Threads : Pc(u)' \notin {"publish", "tasks", "serving"}
  BY <1>1, <1>2, Zenon DEF Winning
<1> QED
  BY <1>4, <1>5, <1>6, <1>7, Zenon DEF ElectionInv, SweptClean, Alone

(* The winner sweeps and publishes: its row is the only active one.        *)
LEMMA PublishKeeps ==
  ASSUME ElectionInv, NEW t \in Threads, Sweep(t) \/ Publish(t)
  PROVE  ElectionInv'
<1>0. ElectionTypes
  BY Zenon DEF ElectionInv
<1>1. /\ Pc(t) \in {"sweep", "publish"} /\ Pc(t)' \in {"publish", "tasks"}
      /\ (Pc(t)' = "tasks" <=> Publish(t))
      /\ (\A u \in Threads : u # t => Pc(u)' = Pc(u)) /\ gwThread' \in [Threads -> ThreadRecord]
  <2>1. CASE Sweep(t)
    <3>1. Pc(t) = "sweep" /\ Goto(t, "publish") /\ "publish" \in ThreadPcs
      BY <2>1, Zenon DEF Sweep, ThreadPcs, WinnerPcs
    <3>2. ~Publish(t)
      BY <3>1, Zenon DEF Publish
    <3> QED
      BY <1>0, <3>1, <3>2, GotoFacts, Zenon
  <2>2. CASE Publish(t)
    BY <1>0, <2>2, GotoFacts, Zenon DEF Publish, ThreadPcs, WinnerPcs
  <2> QED
    BY <2>1, <2>2, Zenon
<1>2. UNCHANGED <<gwPort, gwLife>>
  BY Zenon DEF Sweep, Publish
<1>3. \A u \in Threads : u # t => Pc(u)' \notin Winning
  BY <1>1, OneWinner, Zenon DEF Winning
<1>4. /\ ~Publish(t) => SureRows' = {}
      /\ Publish(t) => Known(t)' /\ SureRows' \subseteq {OwnRow(t)}
      /\ gwRows' \subseteq Row /\ gwUnsure' \subseteq Row
  <2>1. CASE Publish(t)
    <3>1. /\ SureRows = {} /\ OwnRow(t) \in Row /\ gwRows \subseteq Row /\ gwUnsure \subseteq Row
      BY <1>0, <2>1, OwnRows, Zenon DEF Publish, ElectionInv, SweptClean, ElectionTypes
    <3>2. \/ gwRows' = gwRows \cup {OwnRow(t)} /\ gwUnsure' = gwUnsure \ ({OwnRow(t)} \ gwRows)
          \/ gwRows' = gwRows /\ gwUnsure' = gwUnsure \cup {OwnRow(t)}
      BY <2>1, Zenon DEF Publish, Register
    <3>3. gwRows' \subseteq Row /\ gwUnsure' \subseteq Row /\ OwnRow(t) \in gwRows' \cup gwUnsure'
      BY <3>1, <3>2, Zenon
    <3>4. SureRows' \subseteq {OwnRow(t)}
      BY <3>1, <3>2, Zenon DEF SureRows
    <3>5. Known(t)'
      BY <3>3, Zenon DEF Known, OwnRow
    <3> QED
      BY <2>1, <3>3, <3>4, <3>5, Zenon
  <2>2. CASE ~Publish(t)
    <3>1. Sweep(t) /\ Withdraw(gwRows \cup gwUnsure, {})
      BY <2>2, Zenon DEF Sweep
    <3>2. \A rows : Orphaned({}, rows) = rows
      BY Zenon DEF Orphaned
    <3>3. PICK left \in SUBSET gwRows : gwRows' = left /\ gwUnsure' = left
      <4>1. PICK left \in SUBSET (gwRows \cap (gwRows \cup gwUnsure)) :
                  /\ gwRows' = (gwRows \ (gwRows \cup gwUnsure)) \cup left
                  /\ gwUnsure' = (gwUnsure \ (gwRows \cup gwUnsure)) \cup left
        BY <3>1, <3>2, Zenon DEF Withdraw
      <4>2. gwRows' = left /\ gwUnsure' = left /\ left \in SUBSET gwRows
        BY <4>1, Zenon
      <4> QED
        BY <4>2, Zenon
    <3>4. SureRows' = {}
      BY <3>3, Zenon DEF SureRows
    <3> QED
      BY <1>0, <2>2, <3>3, <3>4, Zenon DEF ElectionTypes
  <2> QED
    BY <2>1, <2>2, Zenon
<1>6. ElectionTypes'
  BY <1>0, <1>1, <1>2, <1>4, Zenon DEF ElectionTypes
<1>7. WinnersHold'
  BY <1>1, <1>2, <1>3, Zenon DEF ElectionInv, WinnersHold, Holds, Winning
<1>8. ThreadsLive'
  BY <1>1, <1>2, Zenon DEF ElectionInv, ThreadsLive, Alive
<1>9. SweptClean'
  BY <1>1, <1>3, <1>4, Zenon DEF SweptClean, Winning
<1>10. Alone'
  <2> SUFFICES ASSUME NEW u \in Threads, Pc(u)' \in {"tasks", "serving"}
               PROVE  Known(u)' /\ SureRows' \subseteq {OwnRow(u)}
    BY Zenon DEF Alone, OwnRow
  <2>1. u = t /\ Publish(t)
    BY <1>1, <1>3, Zenon DEF Winning
  <2> QED
    BY <1>4, <2>1, Zenon
<1> QED
  BY <1>6, <1>7, <1>8, <1>9, <1>10, Zenon DEF ElectionInv

(* The gateway did not come up: its listener drains without a row.         *)
LEMMA TasksFailKeeps ==
  ASSUME ElectionInv, NEW t \in Threads, TasksFail(t)
  PROVE  ElectionInv'
<1> DEFINE stray == <<t[1], "stray">>
<1>0. ElectionTypes /\ stray \in Threads /\ stray[1] = t[1]
  BY ThreadPairs, SlotNames, Zenon DEF ElectionInv
<1>1. /\ Pc(t) = "tasks" /\ gwPort' = stray /\ UNCHANGED gwLife
      /\ gwThread' = [gwThread EXCEPT ![t].pc = "lost", ![stray] = At("draining")]
      /\ Withdraw({OwnRow(t)}, {})
  BY Zenon DEF TasksFail
<1>2. At("draining") \in ThreadRecord /\ At("draining").pc = "draining"
  BY RecordFacts, Zenon DEF ThreadPcs, WinnerPcs
<1>3. [gwThread[t] EXCEPT !.pc = "lost"] \in ThreadRecord /\ [gwThread[t] EXCEPT !.pc = "lost"].pc = "lost"
  <2>1. gwThread[t] \in ThreadRecord /\ "lost" \in ThreadPcs
    BY <1>0, Zenon DEF ElectionTypes, ThreadPcs
  <2> QED
    BY <2>1, RecordFacts, Zenon
<1> HIDE DEF stray
<1>4. /\ gwThread' \in [Threads -> ThreadRecord]
      /\ Pc(stray)' = "draining" /\ (t # stray => Pc(t)' = "lost")
      /\ \A u \in Threads : u # t /\ u # stray => Pc(u)' = Pc(u)
  BY <1>0, <1>1, <1>2, <1>3, Zenon DEF ElectionTypes, Pc
<1>5. \A u \in Threads : Pc(u)' \notin Winning
  <2>1. \A u \in Threads : u # t => Pc(u) \notin Winning
    BY <1>1, OneWinner, Zenon DEF Winning
  <2> QED
    BY <1>4, <2>1, Zenon DEF Winning
<1>6. ElectionTypes'
  <2>1. gwRows' \subseteq Row /\ gwUnsure' \subseteq Row
    BY <1>1, PlainWithdraw, Zenon
  <2> QED
    BY <1>0, <1>1, <1>4, <2>1, Zenon DEF ElectionTypes
<1>7. ThreadsLive'
  BY <1>0, <1>1, <1>4, Zenon DEF ElectionInv, ThreadsLive, Alive
<1> QED
  BY <1>5, <1>6, <1>7, Zenon DEF ElectionInv, WinnersHold, SweptClean, Alone, Winning

(* A challenger whose gateway did not come up, and a gateway that drained. *)
LEMMA GoneKeeps ==
  ASSUME ElectionInv, NEW t \in Threads,
         (Lost(t) /\ t[2] \notin Elections) \/ Drained(t)
  PROVE  ElectionInv'
<1>0. ElectionTypes
  BY Zenon DEF ElectionInv
<1>1. /\ Pc(t) \in {"lost", "draining"} /\ gwThread' = [gwThread EXCEPT ![t] = Idle] /\ UNCHANGED gwLife
      /\ Withdraw(RowsOf(t), {}) \/ UNCHANGED registryVars
      /\ UNCHANGED gwPort \/ (Holds(t) /\ Release)
  BY Zenon DEF Lost, Drained, ReleaseIf
<1>2. Pc(t)' = "idle" /\ (\A u \in Threads : u # t => Pc(u)' = Pc(u)) /\ gwThread' \in [Threads -> ThreadRecord]
  BY <1>0, <1>1, RecordFacts, Zenon DEF ElectionTypes, Pc
<1>3. /\ gwRows' \subseteq Row /\ gwUnsure' \subseteq Row /\ SureRows' \subseteq SureRows
      /\ \A u \in Threads : u # t /\ Known(u) => Known(u)'
  <2>1. CASE Withdraw(RowsOf(t), {})
    <3>1. /\ gwRows' \subseteq Row /\ gwUnsure' \subseteq Row /\ SureRows' \subseteq SureRows
          /\ \A u \in Threads : OwnRow(u) \notin RowsOf(t) /\ Known(u) => Known(u)'
      BY <2>1, PlainWithdraw, ZenonT(60)
    <3> QED
      BY <3>1, OthersRows, Zenon
  <2>2. CASE UNCHANGED registryVars
    BY <1>0, <2>2, SameRows, Zenon
  <2> QED
    BY <1>1, <2>1, <2>2, Zenon
<1>4. CASE UNCHANGED gwPort
  BY <1>1, <1>2, <1>3, <1>4, QuietKeeps, Zenon DEF Winning
<1>5. CASE Holds(t) /\ Release
  <2>1. \A u \in Threads : Pc(u)' \notin Winning
    <3>1. \A u \in Threads : Pc(u) \in Winning => u = t
      BY <1>5, Zenon DEF ElectionInv, WinnersHold, Holds
    <3> QED
      BY <1>2, <3>1, Zenon DEF Winning
  <2>2. gwPort' \in {Free, Lingering}
    BY <1>5, Zenon DEF Release, Unheld
  <2>3. ElectionTypes'
    BY <1>0, <1>1, <1>2, <1>3, <2>2, Zenon DEF ElectionTypes
  <2>4. ThreadsLive'
    BY <1>1, <1>2, Zenon DEF ElectionInv, ThreadsLive, Alive
  <2> QED
    BY <2>1, <2>3, <2>4, Zenon DEF ElectionInv, WinnersHold, SweptClean, Alone, Winning
<1> QED
  BY <1>1, <1>4, <1>5, Zenon

(* The cleanup loop prunes rows, never its own, and may yield.             *)
LEMMA CleanupKeeps ==
  ASSUME ElectionInv, NEW t \in Threads, Cleanup(t)
  PROVE  ElectionInv'
<1>0. ElectionTypes
  BY Zenon DEF ElectionInv
<1>1. Pc(t) = "serving" /\ UNCHANGED <<gwPort, gwLife>> /\ (Goto(t, "draining") \/ UNCHANGED gwThread)
  BY Zenon DEF Cleanup
<1>2. Withdraw(DeadRows, {})
  BY Zenon DEF Cleanup
<1>3. gwThread' \in [Threads -> ThreadRecord]
      /\ \A u \in Threads : Pc(u)' = Pc(u) \/ (u = t /\ Pc(u)' = "draining")
  <2>1. CASE Goto(t, "draining")
    BY <1>0, <2>1, GotoFacts, Zenon DEF ThreadPcs, WinnerPcs
  <2>2. CASE UNCHANGED gwThread
    BY <1>0, <2>2, Zenon DEF ElectionTypes, Pc
  <2> QED
    BY <1>1, <2>1, <2>2, Zenon
<1>4. /\ gwRows' \subseteq Row /\ gwUnsure' \subseteq Row /\ SureRows' \subseteq SureRows
      /\ \A u \in Threads : OwnRow(u) \notin DeadRows /\ Known(u) => Known(u)'
  BY <1>2, PlainWithdraw, ZenonT(60)
<1>5. ASSUME NEW u \in Threads, Pc(u)' \in {"tasks", "serving"} PROVE Known(u) => Known(u)'
  <2>1. Pc(u) # "idle"
    BY <1>1, <1>3, <1>5, Zenon
  <2>2. OwnRow(u) \notin DeadRows
    BY <2>1, LiveRows, Zenon
  <2> QED
    BY <1>4, <2>2, Zenon
<1> QED
  BY <1>1, <1>3, <1>4, <1>5, QuietKeeps, Zenon DEF Winning

(* POST /gateway/yield: a resident that finds the challenger newer drains. *)
LEMMA AskKeeps ==
  ASSUME ElectionInv, NEW t \in Threads, Ask(t)
  PROVE  ElectionInv'
<1>0. ElectionTypes
  BY Zenon DEF ElectionInv
<1> DEFINE yielding == {h \in Threads : is_newer_version(Info[t[1]].crate, gwThread[t].seen) /\ Yields(h, t[1])}
           moved(u) == IF u = t THEN [gwThread[t] EXCEPT !.pc = "poll"]
                       ELSE IF u \in yielding THEN [gwThread[u] EXCEPT !.pc = "draining"]
                       ELSE gwThread[u]
<1>1. /\ Pc(t) = "ask" /\ UNCHANGED <<gwPort, gwLife>> /\ UNCHANGED registryVars
      /\ gwThread' = [u \in Threads |-> moved(u)]
  BY Zenon DEF Ask
<1>2. \A u \in yielding : Pc(u) # "idle"
  BY Zenon DEF Yields
<1> HIDE DEF yielding
<1>3. ASSUME NEW u \in Threads
      PROVE  /\ moved(u) \in ThreadRecord
             /\ moved(u).pc = Pc(u) \/ (Pc(u) # "idle" /\ moved(u).pc \in {"poll", "draining"})
  <2>1. gwThread[u] \in ThreadRecord /\ gwThread[t] \in ThreadRecord
    BY <1>0, Zenon DEF ElectionTypes
  <2>2. "poll" \in ThreadPcs /\ "draining" \in ThreadPcs
    BY Zenon DEF ThreadPcs, WinnerPcs
  <2>3. \A pc \in {"poll", "draining"} : /\ [gwThread[u] EXCEPT !.pc = pc] \in ThreadRecord
                                         /\ [gwThread[u] EXCEPT !.pc = pc].pc = pc
    BY <2>1, <2>2, RecordFacts, ZenonT(60)
  <2> QED
    BY <1>1, <1>2, <2>1, <2>3, Zenon DEF Pc
<1> HIDE DEF moved
<1>4. gwThread' \in [Threads -> ThreadRecord]
      /\ \A u \in Threads : Pc(u)' = Pc(u) \/ (Pc(u) # "idle" /\ Pc(u)' \in {"poll", "draining"})
  BY <1>1, <1>3, Zenon DEF Pc
<1>5. /\ gwRows' \subseteq Row /\ gwUnsure' \subseteq Row /\ SureRows' = SureRows
      /\ \A u \in Threads : Known(u)' = Known(u)
  BY <1>0, <1>1, SameRows, Zenon
<1> QED
  BY <1>1, <1>4, <1>5, QuietKeeps, Zenon DEF Winning

(* Every thread of a process is gone, and the port with it if it held the  *)
(* port; what is left of the others wins nothing by it.                    *)
LEMMA DeathKeeps ==
  ASSUME ElectionInv, NEW p \in Sidecars, gwLife' = [gwLife EXCEPT ![p] = "dead"], UNCHANGED registryVars,
         gwThread' \in [Threads -> ThreadRecord],
         \A u \in Threads : u[1] = p => Pc(u)' = "idle",
         \A u \in Threads : u[1] # p => Pc(u)' = Pc(u) \/ (Pc(u) # "idle" /\ Pc(u)' \notin Winning),
         \/ UNCHANGED gwPort
         \/ gwPort' \in {Free, Lingering} /\ \E s \in Slots : Holds(<<p, s>>)
  PROVE  ElectionInv'
<1>0. ElectionTypes
  BY Zenon DEF ElectionInv
<1>1. ElectionTypes'
  <2>1. gwLife' \in [Sidecars -> Lives]
    BY <1>0, Zenon DEF ElectionTypes, Lives
  <2>2. gwRows' \subseteq Row /\ gwUnsure' \subseteq Row
    BY <1>0, SameRows, Zenon
  <2> QED
    BY <1>0, <2>1, <2>2, Zenon DEF ElectionTypes
<1>2. \A u \in Threads : Pc(u)' \in Winning => Pc(u)' = Pc(u) /\ u[1] # p
  BY Zenon DEF Winning
<1>3. WinnersHold'
  <2> SUFFICES ASSUME NEW u \in Threads, Pc(u)' \in Winning PROVE gwPort' = u
    BY Zenon DEF WinnersHold, Holds
  <2>1. gwPort = u /\ u[1] # p
    BY <1>2, Zenon DEF ElectionInv, WinnersHold, Holds
  <2>2. \A s \in Slots : ~Holds(<<p, s>>)
    BY <2>1, SMTT(60) DEF Holds
  <2> QED
    BY <2>1, <2>2, Zenon
<1>4. ThreadsLive'
  <2> SUFFICES ASSUME NEW u \in Threads, Pc(u)' # "idle" PROVE Alive(u[1])'
    BY Zenon DEF ThreadsLive
  <2>1. u[1] # p /\ u[1] \in Sidecars /\ Pc(u) # "idle"
    BY ThreadPairs, Zenon
  <2>2. gwLife'[u[1]] = gwLife[u[1]]
    BY <1>0, <2>1, Zenon DEF ElectionTypes
  <2> QED
    BY <2>1, <2>2, Zenon DEF ElectionInv, ThreadsLive, Alive
<1>5. SweptClean' /\ Alone'
  <2>1. SureRows' = SureRows /\ \A u \in Threads : Known(u)' = Known(u)
    BY <1>0, SameRows, Zenon
  <2> QED
    BY <1>2, <2>1, RowsKept, Zenon DEF Winning
<1> QED
  BY <1>1, <1>3, <1>4, <1>5, Zenon DEF ElectionInv

(* The threads that Without leaves.                                        *)
LEMMA WithoutFacts ==
  ASSUME ElectionTypes, NEW p \in Sidecars, NEW threads \in [Threads -> ThreadRecord]
  PROVE  /\ Without(p, threads) \in [Threads -> ThreadRecord]
         /\ \A u \in Threads : Without(p, threads)[u] = IF u[1] = p THEN Idle ELSE threads[u]
BY RecordFacts, Zenon DEF Without

(* A process that crashes or exits.                                        *)
LEMMA DieKeeps ==
  ASSUME ElectionInv, NEW p \in Sidecars, Die(p)
  PROVE  ElectionInv'
<1>0. ElectionTypes
  BY Zenon DEF ElectionInv
<1>1. /\ gwLife' = [gwLife EXCEPT ![p] = "dead"] /\ UNCHANGED registryVars
      /\ gwThread' = Without(p, gwThread)
      /\ UNCHANGED gwPort \/ (Release /\ \E s \in Slots : Holds(<<p, s>>))
  BY Zenon DEF Die, ReleaseIf
<1>2. /\ gwThread' \in [Threads -> ThreadRecord]
      /\ \A u \in Threads : gwThread'[u] = IF u[1] = p THEN Idle ELSE gwThread[u]
  <2>1. gwThread \in [Threads -> ThreadRecord]
    BY <1>0, Zenon DEF ElectionTypes
  <2>2. /\ Without(p, gwThread) \in [Threads -> ThreadRecord]
        /\ \A u \in Threads : Without(p, gwThread)[u] = IF u[1] = p THEN Idle ELSE gwThread[u]
    BY <1>0, <2>1, WithoutFacts, Zenon
  <2> QED
    BY <1>1, <2>2, Zenon
<1>3. \A u \in Threads : (u[1] = p => Pc(u)' = "idle") /\ (u[1] # p => Pc(u)' = Pc(u))
  BY <1>2, RecordFacts, Zenon DEF Pc
<1>4. Release => gwPort' \in {Free, Lingering}
  BY Zenon DEF Release, Unheld
<1> QED
  BY <1>1, <1>2, <1>3, <1>4, DeathKeeps, Zenon

(* A challenger ends the process that holds the port and does not answer,  *)
(* or finds that it may not.                                               *)
LEMMA ReapKeeps ==
  ASSUME ElectionInv, NEW t \in Threads, Reap(t)
  PROVE  ElectionInv'
<1> DEFINE patient == [gwThread EXCEPT ![t].pc = "ask", ![t].misses = 0]
           eager == [gwThread EXCEPT ![t].pc = "poll"]
<1>0. ElectionTypes /\ Pc(t) = "reap" /\ UNCHANGED registryVars
  BY Zenon DEF ElectionInv, Reap
<1>1. ASSUME NEW new, new \in {patient, eager}
      PROVE  /\ new \in [Threads -> ThreadRecord] /\ new[t].pc \in {"ask", "poll"}
             /\ \A u \in Threads : u # t => new[u] = gwThread[u]
  <2>1. gwThread[t] \in ThreadRecord /\ {"ask", "poll"} \subseteq ThreadPcs
    BY <1>0, Zenon DEF ElectionTypes, ThreadPcs
  <2>2. \A r \in ThreadRecord : [[r EXCEPT !.pc = "ask"] EXCEPT !.misses = 0] \in ThreadRecord
                                /\ [[r EXCEPT !.pc = "ask"] EXCEPT !.misses = 0].pc = "ask"
    BY <2>1, Zenon DEF ThreadRecord
  <2>3. patient = [gwThread EXCEPT ![t] = [[gwThread[t] EXCEPT !.pc = "ask"] EXCEPT !.misses = 0]]
    BY <1>0, Zenon DEF ElectionTypes
  <2>4. [gwThread[t] EXCEPT !.pc = "poll"] \in ThreadRecord /\ [gwThread[t] EXCEPT !.pc = "poll"].pc = "poll"
    BY <2>1, RecordFacts, Zenon
  <2>5. CASE new = patient
    <3>1. PICK a \in ThreadRecord : a.pc = "ask" /\ new = [gwThread EXCEPT ![t] = a]
      BY <2>1, <2>2, <2>3, <2>5, Zenon
    <3> QED
      BY <1>0, <3>1, Zenon DEF ElectionTypes
  <2>6. CASE new = eager
    <3>1. PICK a \in ThreadRecord : a.pc = "poll" /\ new = [gwThread EXCEPT ![t] = a]
      BY <2>4, <2>6, Zenon
    <3> QED
      BY <1>0, <3>1, Zenon DEF ElectionTypes
  <2> QED
    BY <1>1, <2>5, <2>6, Zenon
<1>2. CASE gwThread' = patient /\ UNCHANGED <<gwPort, gwLife, gwHung>>
  <2>1. /\ gwThread' \in [Threads -> ThreadRecord] /\ gwThread'[t].pc \in {"ask", "poll"}
        /\ \A u \in Threads : u # t => gwThread'[u] = gwThread[u]
    BY <1>1, <1>2, Zenon
  <2>2. \A u \in Threads : Pc(u)' = Pc(u) \/ (Pc(u) # "idle" /\ Pc(u)' \notin Winning)
    BY <1>0, <2>1, Zenon DEF Pc, Winning
  <2>3. /\ gwRows' \subseteq Row /\ gwUnsure' \subseteq Row /\ SureRows' = SureRows
        /\ \A u \in Threads : Known(u)' = Known(u)
    BY <1>0, SameRows, Zenon
  <2> QED
    BY <1>0, <1>2, <2>1, <2>2, <2>3, QuietKeeps, Zenon
<1>3. ASSUME NEW h \in PortHolder(t[1]), gwLife' = [gwLife EXCEPT ![h[1]] = "dead"], Release,
             gwThread' = Without(h[1], IF gwPort' = Free THEN eager ELSE patient)
      PROVE  ElectionInv'
  <2>1. h \in Threads /\ Holds(h) /\ h[1] # t[1] /\ h[1] \in Sidecars /\ h[2] \in Slots /\ h = <<h[1], h[2]>>
    BY <1>3, ThreadPairs, Zenon DEF PortHolder
  <2>2. PICK new \in {patient, eager} : gwThread' = Without(h[1], new)
    BY <1>3, Zenon
  <2>3. /\ new \in [Threads -> ThreadRecord] /\ new[t].pc \in {"ask", "poll"}
        /\ \A u \in Threads : u # t => new[u] = gwThread[u]
    BY <1>1, <2>2, Zenon
  <2> HIDE DEF patient, eager
  <2>4. /\ gwThread' \in [Threads -> ThreadRecord]
        /\ \A u \in Threads : gwThread'[u] = IF u[1] = h[1] THEN Idle ELSE new[u]
    <3>1. /\ Without(h[1], new) \in [Threads -> ThreadRecord]
          /\ \A u \in Threads : Without(h[1], new)[u] = IF u[1] = h[1] THEN Idle ELSE new[u]
      BY <1>0, <2>1, <2>3, WithoutFacts, ZenonT(60)
    <3> QED
      BY <2>2, <3>1, Zenon
  <2>5. \A u \in Threads : u[1] = h[1] => Pc(u)' = "idle"
    BY <2>4, RecordFacts, Zenon DEF Pc
  <2>6. \A u \in Threads : u[1] # h[1] => Pc(u)' = Pc(u) \/ (Pc(u) # "idle" /\ Pc(u)' \notin Winning)
    BY <1>0, <2>3, <2>4, Zenon DEF Pc, Winning
  <2>7. gwPort' \in {Free, Lingering} /\ \E s \in Slots : Holds(<<h[1], s>>)
    BY <1>3, <2>1, Zenon DEF Release, Unheld
  <2> QED
    BY <1>0, <1>3, <2>1, <2>4, <2>5, <2>6, <2>7, DeathKeeps, Zenon
<1> QED
  BY <1>2, <1>3, Zenon DEF Reap

(* The end of an election: the winner goes on serving, the loser may       *)
(* become a challenger, and the probe loop aborts the challenger it had.   *)
LEMMA ConcludeKeeps ==
  ASSUME ElectionInv, NEW t \in Threads, NEW wins \in BOOLEAN, NEW new \in ThreadRecord,
         new.pc \in {"idle", "ready"}, Conclude(t, wins, new), Pc(t) # "idle",
         wins => Pc(t) = "tasks" /\ t[2] \in Elections
  PROVE  ElectionInv'
<1> DEFINE p == t[1]
           c == <<p, Challenger(t[2])>>
           stray == <<p, "stray">>
           next == [gwThread EXCEPT ![t] = IF wins THEN At("serving") ELSE Idle, ![c] = new]
<1>0. ElectionTypes
  BY Zenon DEF ElectionInv
<1>1. /\ p \in Sidecars /\ c \in Threads /\ stray \in Threads
      /\ c[1] = p /\ stray[1] = p /\ (wins => c # t)
  <2>1. p \in Sidecars /\ t[2] \in Slots /\ t = <<p, t[2]>>
    BY ThreadPairs, Zenon
  <2>2. Challenger(t[2]) \in Slots /\ "stray" \in Slots /\ (t[2] \in Elections => Challenger(t[2]) # t[2])
    BY SlotNames, Zenon
  <2> QED
    BY <2>1, <2>2, ThreadPairs, Zenon
<1>2. /\ At("serving") \in ThreadRecord /\ At("serving").pc = "serving"
      /\ Idle \in ThreadRecord /\ Idle.pc = "idle"
  BY RecordFacts, Zenon DEF ThreadPcs, WinnerPcs
<1>3. Alive(p)
  BY Zenon DEF ElectionInv, ThreadsLive
<1>4. \/ /\ gwLife' = [gwLife EXCEPT ![p] = "readback"]
         /\ gwThread' = next /\ UNCHANGED gwPort /\ UNCHANGED registryVars
      \/ /\ Withdraw(RowsOf(c) \cup DeadRows, {c})
         /\ AbortChallenger(c, next)
         /\ UNCHANGED gwLife
  BY Zenon DEF Conclude
<1>5. /\ next \in [Threads -> ThreadRecord] /\ next[c] = new
      /\ (t # c => next[t] = IF wins THEN At("serving") ELSE Idle)
      /\ \A u \in Threads : u # t /\ u # c => next[u] = gwThread[u]
  <2>1. gwThread \in [Threads -> ThreadRecord] /\ (IF wins THEN At("serving") ELSE Idle) \in ThreadRecord
    BY <1>0, <1>2, Zenon DEF ElectionTypes
  <2> HIDE DEF c
  <2> QED
    BY <1>1, <2>1, Zenon
<1>5a. stray = <<c[1], "stray">> /\ OwnRow(stray) \notin RowsOf(c) \cup DeadRows
  <2>1. stray = <<c[1], "stray">>
    BY Zenon
  <2>2. c # stray
    BY SlotNames, Zenon
  <2>3. OwnRow(stray) \notin RowsOf(c)
    BY <1>1, <2>2, OthersRows, Zenon
  <2>4. OwnRow(stray)[1] = p
    BY <1>1, OwnRows, Zenon
  <2>5. OwnRow(stray) \notin DeadRows
    BY <1>3, <2>4, Zenon DEF DeadRows
  <2> QED
    BY <2>1, <2>3, <2>5, Zenon
<1> HIDE DEF next, c, stray, p
<1>5b. {c} \in SUBSET Threads /\ c \in {c} /\ \A d \in {c} : d = c
  BY <1>1, ZenonT(60)
<1>6. ASSUME NEW u \in Threads, next[u].pc \in Winning
      PROVE  /\ u # c /\ Pc(u) \in Winning
             /\ (u = t => next[u].pc = "serving" /\ Pc(u) = "tasks") /\ (u # t => next[u].pc = Pc(u))
  BY <1>2, <1>5, <1>6, Zenon DEF Winning, Pc
<1>7. CASE /\ gwLife' = [gwLife EXCEPT ![p] = "readback"]
           /\ gwThread' = next /\ UNCHANGED gwPort /\ UNCHANGED registryVars
  <2>1. \A u \in Threads : Pc(u)' = next[u].pc
    BY <1>7, Zenon DEF Pc
  <2>2. ElectionTypes'
    <3>1. gwLife' \in [Sidecars -> Lives]
      BY <1>0, <1>7, Zenon DEF ElectionTypes, Lives
    <3>2. gwRows' \subseteq Row /\ gwUnsure' \subseteq Row
      BY <1>0, <1>7, SameRows, Zenon
    <3> QED
      BY <1>0, <1>5, <1>7, <3>1, <3>2, Zenon DEF ElectionTypes
  <2>3. WinnersHold'
    BY <1>6, <1>7, <2>1, Zenon DEF ElectionInv, WinnersHold, Holds
  <2>4. ThreadsLive'
    <3> SUFFICES ASSUME NEW u \in Threads, Pc(u)' # "idle" PROVE Alive(u[1])'
      BY Zenon DEF ThreadsLive
    <3>1. u[1] \in Sidecars /\ Alive(u[1])
      <4>1. u \in {t, c} => u[1] = p
        BY <1>1, Zenon DEF p
      <4>2. u \notin {t, c} => Pc(u) # "idle"
        BY <1>5, <2>1, Zenon DEF Pc
      <4> QED
        BY <1>3, <4>1, <4>2, ThreadPairs, Zenon DEF ElectionInv, ThreadsLive
    <3>2. gwLife'[u[1]] \in {gwLife[u[1]], "readback"}
      BY <1>0, <1>1, <1>7, <3>1, Zenon DEF ElectionTypes
    <3> QED
      BY <3>1, <3>2, Zenon DEF Alive
  <2>5. SureRows' = SureRows /\ \A u \in Threads : Known(u)' = Known(u)
    BY <1>0, <1>7, SameRows, Zenon
  <2>6. \A u \in Threads : Pc(u)' = "publish" => Pc(u) = "publish"
    BY <1>6, <2>1, Zenon DEF Winning
  <2>7. \A u \in Threads : Pc(u)' \in {"tasks", "serving"} => Pc(u) \in {"tasks", "serving"}
    BY <1>6, <2>1, Zenon DEF Winning
  <2>8. SweptClean' /\ Alone'
    BY <1>7, <2>5, <2>6, <2>7, RowsKept, Zenon
  <2> QED
    BY <2>2, <2>3, <2>4, <2>8, Zenon DEF ElectionInv
<1>8. CASE /\ Withdraw(RowsOf(c) \cup DeadRows, {c})
           /\ gwThread' = next /\ ReleaseIf(Holds(c)) /\ UNCHANGED gwLife
  <2>1. \A u \in Threads : Pc(u)' = next[u].pc
    BY <1>8, Zenon DEF Pc
  <2>2. gwPort' = gwPort \/ (Holds(c) /\ gwPort' \in {Free, Lingering})
    BY <1>8, Zenon DEF ReleaseIf, Release, Unheld
  <2>3. gwRows' \subseteq Row /\ gwUnsure' \subseteq Row
    <3>1. CASE Pc(c) = "tasks"
      BY <1>5a, <1>5b, <1>8, <3>1, OrphanFacts, Zenon
    <3>2. CASE Pc(c) # "tasks"
      BY <1>5b, <1>8, <3>2, WithdrawFacts, ZenonT(60)
    <3> QED
      BY <3>1, <3>2, Zenon
  <2>4. ElectionTypes'
    BY <1>0, <1>5, <1>8, <2>2, <2>3, Zenon DEF ElectionTypes
  <2>5. WinnersHold'
    BY <1>6, <2>1, <2>2, Zenon DEF ElectionInv, WinnersHold, Holds
  <2>6. ThreadsLive'
    <3> SUFFICES ASSUME NEW u \in Threads, Pc(u)' # "idle" PROVE Alive(u[1])
      BY <1>8, Zenon DEF ThreadsLive, Alive
    <3>1. u \in {t, c} => u[1] = p
      BY <1>1, Zenon DEF p
    <3>2. u \notin {t, c} => Pc(u) # "idle"
      BY <1>5, <2>1, Zenon DEF Pc
    <3> QED
      BY <1>3, <3>1, <3>2, Zenon DEF ElectionInv, ThreadsLive
  <2>7. CASE Pc(c) = "tasks"
    <3>1. \A u \in Threads : Pc(u)' \notin Winning
      BY <1>1, <1>6, <2>1, <2>7, OneWinner, Zenon DEF Winning
    <3> QED
      BY <2>4, <2>5, <2>6, <3>1, Zenon DEF ElectionInv, SweptClean, Alone, Winning
  <2>8. CASE Pc(c) # "tasks"
    <3>1. /\ SureRows' \subseteq SureRows
          /\ \A u \in Threads : OwnRow(u) \notin RowsOf(c) \cup DeadRows /\ Known(u) => Known(u)'
      BY <1>5b, <1>8, <2>8, WithdrawFacts, ZenonT(60)
    <3>2. \A u \in Threads : Pc(u)' = "publish" => Pc(u) = "publish"
      BY <1>6, <2>1, Zenon DEF Winning
    <3>3. ASSUME NEW u \in Threads, Pc(u)' \in {"tasks", "serving"}
          PROVE  Pc(u) \in {"tasks", "serving"} /\ (Known(u) => Known(u)')
      <4>1. u # c /\ Pc(u) \in {"tasks", "serving"}
        BY <1>6, <2>1, <3>3, Zenon DEF Winning
      <4>2. OwnRow(u) \notin DeadRows
        BY <4>1, LiveRows, Zenon
      <4>3. OwnRow(u) \notin RowsOf(c)
        BY <1>1, <4>1, OthersRows, Zenon
      <4> QED
        BY <3>1, <4>1, <4>2, <4>3, Zenon
    <3>4. SweptClean' /\ Alone'
      BY <3>1, <3>2, <3>3, RowsKept, Zenon
    <3> QED
      BY <2>4, <2>5, <2>6, <3>4, Zenon DEF ElectionInv
  <2> QED
    BY <2>7, <2>8, Zenon
<1>9. CASE /\ Withdraw(RowsOf(c) \cup DeadRows, {c}) /\ UNCHANGED gwLife
           /\ Pc(c) = "tasks" /\ gwThread' = [next EXCEPT ![stray] = At("serving")] /\ gwPort' = stray
  <2>1. /\ gwThread' \in [Threads -> ThreadRecord] /\ Pc(stray)' = "serving"
        /\ \A u \in Threads : u # stray => Pc(u)' = next[u].pc
    BY <1>1, <1>2, <1>5, <1>9, Zenon DEF Pc
  <2>2. \A u \in Threads : u # stray => Pc(u)' \notin Winning
    BY <1>1, <1>6, <1>9, <2>1, OneWinner, Zenon DEF Winning
  <2>3. /\ gwRows' \subseteq Row /\ gwUnsure' \subseteq Row
        /\ Known(stray)' /\ SureRows' \subseteq {OwnRow(stray)}
    BY <1>5a, <1>5b, <1>9, OrphanFacts, ZenonT(60)
  <2>4. ElectionTypes'
    BY <1>0, <1>1, <1>9, <2>1, <2>3, Zenon DEF ElectionTypes
  <2>5. WinnersHold'
    BY <1>9, <2>2, Zenon DEF WinnersHold, Holds
  <2>6. ThreadsLive'
    <3> SUFFICES ASSUME NEW u \in Threads, Pc(u)' # "idle" PROVE Alive(u[1])
      BY <1>9, Zenon DEF ThreadsLive, Alive
    <3>1. u \in {t, c, stray} => u[1] = p
      BY <1>1, Zenon DEF p
    <3>2. u \notin {t, c, stray} => Pc(u) # "idle"
      BY <1>5, <2>1, Zenon DEF Pc
    <3> QED
      BY <1>3, <3>1, <3>2, Zenon DEF ElectionInv, ThreadsLive
  <2>8. SweptClean'
    BY <2>1, <2>2, Zenon DEF SweptClean, Winning
  <2>9. Alone'
    <3> SUFFICES ASSUME NEW u \in Threads, Pc(u)' \in {"tasks", "serving"}
                 PROVE  Known(u)' /\ SureRows' \subseteq {OwnRow(u)}
      BY Zenon DEF Alone, OwnRow
    <3>1. u = stray
      BY <2>2, Zenon DEF Winning
    <3> QED
      BY <2>3, <3>1, Zenon
  <2> QED
    BY <2>4, <2>5, <2>6, <2>8, <2>9, Zenon DEF ElectionInv
<1>10. AbortChallenger(c, next) =>
         \/ gwThread' = next /\ ReleaseIf(Holds(c))
         \/ Pc(c) = "tasks" /\ gwThread' = [next EXCEPT ![stray] = At("serving")] /\ gwPort' = stray
  BY <1>1, Zenon DEF AbortChallenger, stray
<1> QED
  BY <1>4, <1>7, <1>8, <1>9, <1>10, Zenon

(* SidecarGatewayControl::shutdown: what holds the port goes on as a stray *)
(* gateway, with a stray row, or the port is released.                     *)
LEMMA StopKeeps ==
  ASSUME ElectionInv, NEW p \in Sidecars, Stop(p)
  PROVE  ElectionInv'
<1> DEFINE held == {t \in Threads : Holds(t) /\ t[1] = p}
           stray == <<p, "stray">>
           W == {r \in gwRows \cup gwUnsure : r[1] = p /\ r[2] # "stray"}
           T == {t \in Threads : t[1] = p}
<1>0. ElectionTypes /\ stray \in Threads /\ stray[1] = p
  BY ThreadPairs, SlotNames, Zenon DEF ElectionInv
<1>1. /\ gwLife[p] = "running" /\ gwLife' = [gwLife EXCEPT ![p] = "exiting"]
      /\ Withdraw(W, T)
      /\ \/ held = {} /\ gwThread' = Without(p, gwThread) /\ UNCHANGED gwPort
         \/ \E t \in held : \E pc \in Outlives(t) :
                /\ gwThread' = [Without(p, gwThread) EXCEPT ![stray] = At(pc)]
                /\ IF pc = "idle" THEN Release ELSE gwPort' = stray
  BY Zenon DEF Stop
<1>2. /\ Without(p, gwThread) \in [Threads -> ThreadRecord]
      /\ \A u \in Threads : Without(p, gwThread)[u] = IF u[1] = p THEN Idle ELSE gwThread[u]
  <2>1. gwThread \in [Threads -> ThreadRecord]
    BY <1>0, Zenon DEF ElectionTypes
  <2> QED
    BY <1>0, <2>1, WithoutFacts, Zenon
<1>2a. OwnRow(stray) \notin W /\ \A u \in Threads : u[1] # p => OwnRow(u) \notin W
  <2>1. OwnRow(stray)[2] = "stray"
    BY Zenon DEF OwnRow
  <2>2. \A u \in Threads : OwnRow(u)[1] = u[1]
    BY OwnRows, Zenon
  <2> QED
    BY <2>1, <2>2, Zenon
<1>2b. T \in SUBSET Threads /\ \A c \in T : c[1] = p
  BY Zenon
<1>2c. ASSUME NEW c \in T, Pc(c) = "tasks"
       PROVE  /\ gwRows' \subseteq Row /\ gwUnsure' \subseteq Row
              /\ Known(stray)' /\ SureRows' \subseteq {OwnRow(stray)}
  <2>1. <<c[1], "stray">> = stray
    BY <1>2b, <1>2c, Zenon
  <2> HIDE DEF W, T, stray
  <2> QED
    BY <1>1, <1>2a, <1>2b, <1>2c, <2>1, OrphanFacts, Zenon
<1>2d. ASSUME \A c \in T : Pc(c) # "tasks"
       PROVE  /\ gwRows' \subseteq Row /\ gwUnsure' \subseteq Row /\ SureRows' \subseteq SureRows
              /\ \A u \in Threads : OwnRow(u) \notin W /\ Known(u) => Known(u)'
  <2> HIDE DEF W, T
  <2> QED
    BY <1>1, <1>2b, <1>2d, WithdrawFacts, Zenon
<1> HIDE DEF W
<1>3. gwRows' \subseteq Row /\ gwUnsure' \subseteq Row
  <2>1. CASE \E c \in T : Pc(c) = "tasks"
    BY <1>2c, <2>1, Zenon
  <2>2. CASE \A c \in T : Pc(c) # "tasks"
    BY <1>2d, <2>2, Zenon
  <2> QED
    BY <2>1, <2>2, Zenon
<1>4. gwLife' \in [Sidecars -> Lives] /\ \A q \in Sidecars : Alive(q) => Alive(q)'
  <2>1. gwLife \in [Sidecars -> Lives] /\ "exiting" \in Lives
    BY <1>0, Zenon DEF ElectionTypes, Lives
  <2>2. \A q \in Sidecars : gwLife'[q] \in {gwLife[q], "exiting"}
    BY <1>1, <2>1, Zenon
  <2> QED
    BY <1>1, <2>1, <2>2, Zenon DEF Alive
<1>5. Alive(p)
  BY <1>1, Zenon DEF Alive
<1>6. CASE held = {} /\ gwThread' = Without(p, gwThread) /\ UNCHANGED gwPort
  <2>1. \A c \in T : Pc(c) # "tasks"
    BY <1>6, Zenon DEF ElectionInv, WinnersHold, Winning
  <2>2. \A u \in Threads : (u[1] = p => Pc(u)' = "idle") /\ (u[1] # p => Pc(u)' = Pc(u))
    BY <1>2, <1>6, RecordFacts, Zenon DEF Pc
  <2>3. ElectionTypes'
    BY <1>0, <1>2, <1>3, <1>4, <1>6, Zenon DEF ElectionTypes
  <2>4. WinnersHold'
    BY <1>6, <2>2, Zenon DEF ElectionInv, WinnersHold, Holds, Winning
  <2>5. ThreadsLive'
    BY <1>4, <2>2, ThreadPairs, Zenon DEF ElectionInv, ThreadsLive
  <2>6. SureRows' \subseteq SureRows
    BY <1>2d, <2>1, Zenon
  <2>7. ASSUME NEW u \in Threads, Pc(u)' \in {"tasks", "serving"}
        PROVE  Pc(u) \in {"tasks", "serving"} /\ (Known(u) => Known(u)')
    <3>1. u[1] # p /\ Pc(u)' = Pc(u)
      BY <2>2, <2>7, Zenon
    <3>2. OwnRow(u) \notin W
      BY <1>2a, <3>1, Zenon
    <3> QED
      BY <1>2d, <2>1, <2>7, <3>1, <3>2, Zenon
  <2>8. \A u \in Threads : Pc(u)' = "publish" => Pc(u) = "publish"
    BY <2>2, Zenon
  <2>9. SweptClean' /\ Alone'
    BY <2>6, <2>7, <2>8, RowsKept, Zenon
  <2> QED
    BY <2>3, <2>4, <2>5, <2>9, Zenon DEF ElectionInv
<1>7. ASSUME NEW t \in held, NEW pc \in Outlives(t),
             gwThread' = [Without(p, gwThread) EXCEPT ![stray] = At(pc)],
             IF pc = "idle" THEN Release ELSE gwPort' = stray
      PROVE  ElectionInv'
  <2>1. t \in Threads /\ Holds(t) /\ t[1] = p
    BY <1>7, Zenon
  <2>2. /\ pc \in {"serving", "idle", "listening", "draining"}
        /\ pc = "serving" => Pc(t) = "tasks" \/ (Pc(t) = "serving" /\ t[2] = "stray")
    BY <1>7, Zenon DEF Outlives
  <2>3. At(pc) \in ThreadRecord /\ At(pc).pc = pc
    <3>1. pc \in ThreadPcs
      BY <2>2, Zenon DEF ThreadPcs, WinnerPcs
    <3> QED
      BY <3>1, RecordFacts, Zenon
  <2> HIDE DEF stray
  <2>4. /\ gwThread' \in [Threads -> ThreadRecord] /\ Pc(stray)' = pc
        /\ \A u \in Threads : u # stray => gwThread'[u] = IF u[1] = p THEN Idle ELSE gwThread[u]
    BY <1>0, <1>2, <1>7, <2>3, Zenon DEF Pc
  <2>5. \A u \in Threads : u # stray => /\ u[1] = p => Pc(u)' = "idle"
                                        /\ u[1] # p => Pc(u)' = Pc(u)
    BY <2>4, RecordFacts, Zenon DEF Pc
  <2>6. \A u \in Threads : u # stray => Pc(u)' \notin Winning
    <3>1. \A u \in Threads : Pc(u) \in Winning => u = t
      BY <2>1, Zenon DEF ElectionInv, WinnersHold, Holds
    <3> QED
      BY <2>1, <2>5, <3>1, Zenon DEF Winning
  <2>7. gwPort' \in Threads \cup {Free, Lingering} /\ (pc # "idle" => gwPort' = stray)
    BY <1>0, <1>7, Zenon DEF Release, Unheld
  <2>8. ElectionTypes'
    BY <1>3, <1>4, <2>4, <2>7, Zenon DEF ElectionTypes
  <2>9. WinnersHold'
    BY <2>4, <2>6, <2>7, Zenon DEF WinnersHold, Holds, Winning
  <2>10. ThreadsLive'
    <3> SUFFICES ASSUME NEW u \in Threads, Pc(u)' # "idle" PROVE Alive(u[1])
      BY <1>4, ThreadPairs, Zenon DEF ThreadsLive
    <3>1. CASE u = stray
      BY <1>0, <1>5, <3>1, Zenon
    <3>2. CASE u # stray
      BY <2>5, <3>2, Zenon DEF ElectionInv, ThreadsLive
    <3> QED
      BY <3>1, <3>2, Zenon
  <2>11. SweptClean'
    BY <2>2, <2>4, <2>6, Zenon DEF SweptClean, Winning
  <2>12. Alone'
    <3> SUFFICES ASSUME NEW u \in Threads, Pc(u)' \in {"tasks", "serving"}
                 PROVE  Known(u)' /\ SureRows' \subseteq {OwnRow(u)}
      BY Zenon DEF Alone, OwnRow
    <3>1. u = stray /\ pc = "serving"
      BY <2>2, <2>4, <2>6, Zenon DEF Winning
    <3>2. CASE Pc(t) = "tasks"
      <4>1. t \in T
        BY <2>1, Zenon
      <4> QED
        BY <1>2c, <3>1, <3>2, <4>1, Zenon
    <3>3. CASE Pc(t) = "serving" /\ t[2] = "stray"
      <4>1. t = stray
        BY <2>1, <3>3, ThreadPairs, Zenon DEF stray
      <4>2. \A c \in T : Pc(c) # "tasks"
        BY <1>2b, <2>1, <3>3, OneWinner, Zenon DEF Winning
      <4>3. Known(stray) /\ SureRows \subseteq {OwnRow(stray)}
        BY <2>1, <3>3, <4>1, Zenon DEF ElectionInv, Alone
      <4> QED
        BY <1>0, <1>2a, <1>2d, <3>1, <4>2, <4>3, Zenon
    <3> QED
      BY <2>2, <3>1, <3>2, <3>3, Zenon
  <2> QED
    BY <2>8, <2>9, <2>10, <2>11, <2>12, Zenon DEF ElectionInv
<1> QED
  BY <1>1, <1>6, <1>7, Zenon

(* Starting, reading back and probing: an idle thread of a live process    *)
(* sets out.                                                               *)
LEMMA LifeKeeps ==
  ASSUME ElectionInv, NEW p \in Sidecars, Start(p) \/ Readback(p) \/ FailoverProbe(p)
  PROVE  ElectionInv'
<1>0. ElectionTypes /\ UNCHANGED gwPort /\ UNCHANGED registryVars
  BY Zenon DEF ElectionInv, Start, Readback, FailoverProbe
<1>0a. /\ gwRows' \subseteq Row /\ gwUnsure' \subseteq Row /\ SureRows' = SureRows
       /\ \A u \in Threads : Known(u)' = Known(u)
  BY <1>0, SameRows, Zenon
<1>1. /\ gwLife' = gwLife \/ \E life \in {"starting", "running", "failed"} : gwLife' = [gwLife EXCEPT ![p] = life]
      /\ gwLife'[p] \in {"starting", "running", "failed"}
  <2>1. gwLife \in [Sidecars -> Lives]
    BY <1>0, Zenon DEF ElectionTypes
  <2> QED
    BY <2>1, Zenon DEF Start, Readback, FailoverProbe
<1>2. \/ gwThread' = gwThread
      \/ \E t \in Threads, r \in {At("prune"), Idle} :
           t[1] = p /\ gwThread' = [gwThread EXCEPT ![t] = r]
  <2>1. \A s \in {"boot", "failover", "bootChallenger"} : <<p, s>> \in Threads /\ <<p, s>>[1] = p
    <3>1. {"boot", "failover", "bootChallenger"} \subseteq Slots
      BY Zenon DEF Slots, Elections, Challengers, Challenger
    <3> QED
      BY <3>1, ThreadPairs, Zenon
  <2> QED
    BY <2>1, Zenon DEF Start, Readback, FailoverProbe
<1>3. /\ gwThread' \in [Threads -> ThreadRecord]
      /\ \A u \in Threads : Pc(u)' = Pc(u) \/ (u[1] = p /\ Pc(u)' \in {"prune", "idle"})
  <2>1. At("prune") \in ThreadRecord /\ At("prune").pc = "prune" /\ Idle \in ThreadRecord /\ Idle.pc = "idle"
    BY RecordFacts, Zenon DEF ThreadPcs
  <2>2. CASE gwThread' = gwThread
    BY <1>0, <2>2, Zenon DEF ElectionTypes, Pc
  <2>3. ASSUME NEW t \in Threads, NEW r \in {At("prune"), Idle}, t[1] = p,
               gwThread' = [gwThread EXCEPT ![t] = r]
        PROVE  /\ gwThread' \in [Threads -> ThreadRecord]
               /\ \A u \in Threads : Pc(u)' = Pc(u) \/ (u[1] = p /\ Pc(u)' \in {"prune", "idle"})
    <3>1. r \in ThreadRecord /\ r.pc \in {"prune", "idle"}
      BY <2>1, <2>3, Zenon
    <3> QED
      BY <1>0, <2>3, <3>1, Zenon DEF ElectionTypes, Pc
  <2> QED
    BY <1>2, <2>2, <2>3, Zenon
<1>4. gwLife' \in [Sidecars -> Lives] /\ \A q \in Sidecars : q # p => gwLife'[q] = gwLife[q]
  BY <1>0, <1>1, Zenon DEF ElectionTypes, Lives
<1>5. ElectionTypes'
  BY <1>0, <1>0a, <1>3, <1>4, Zenon DEF ElectionTypes
<1>6. \A u \in Threads : Pc(u)' \in Winning => Pc(u)' = Pc(u)
  BY <1>3, Zenon DEF Winning
<1>7. WinnersHold'
  BY <1>0, <1>6, Zenon DEF ElectionInv, WinnersHold, Holds
<1>8. ThreadsLive'
  <2> SUFFICES ASSUME NEW u \in Threads, Pc(u)' # "idle" PROVE Alive(u[1])'
    BY Zenon DEF ThreadsLive
  <2>1. CASE u[1] = p
    BY <1>1, <2>1, Zenon DEF Alive
  <2>2. CASE u[1] # p
    BY <1>3, <1>4, <2>2, ThreadPairs, Zenon DEF ElectionInv, ThreadsLive, Alive
  <2> QED
    BY <2>1, <2>2, Zenon
<1>9. SweptClean' /\ Alone'
  BY <1>0a, <1>6, RowsKept, Zenon DEF Winning
<1> QED
  BY <1>5, <1>7, <1>8, <1>9, Zenon DEF ElectionInv

(* Nothing that the invariant speaks of moves but a lingering socket.      *)
LEMMA StillKeeps ==
  ASSUME ElectionInv,
         (\E p \in Sidecars : Hang(p)) \/ PortFree \/ UNCHANGED electionVars
  PROVE  ElectionInv'
<1>1. /\ UNCHANGED <<gwThread, gwLife>> /\ UNCHANGED registryVars
      /\ UNCHANGED gwPort \/ (gwPort = Lingering /\ gwPort' = Free)
  BY Zenon DEF Hang, PortFree, electionVars
<1>2. \A u \in Threads : Pc(u)' = Pc(u) /\ (Pc(u) \in Winning => gwPort' = u)
  BY <1>1, ThreadPairs, Zenon DEF Pc, ElectionInv, WinnersHold, Holds
<1>2a. /\ gwRows' \subseteq Row /\ gwUnsure' \subseteq Row /\ SureRows' = SureRows
       /\ \A u \in Threads : Known(u)' = Known(u)
  BY <1>1, SameRows, Zenon DEF ElectionInv
<1>3. ElectionTypes' /\ WinnersHold' /\ ThreadsLive'
  BY <1>1, <1>2, <1>2a, Zenon DEF ElectionInv, ElectionTypes, WinnersHold, Holds, ThreadsLive, Alive
<1>4. SweptClean' /\ Alone'
  BY <1>1, <1>2, <1>2a, RowsKept, Zenon
<1> QED
  BY <1>3, <1>4, Zenon DEF ElectionInv

(* The verdict of the readiness probe ends an election, and so do the      *)
(* gateway tasks that came up or did not.                                  *)
LEMMA VerdictKeeps ==
  ASSUME ElectionInv, NEW t \in Threads,
         Probe(t) \/ TasksUp(t) \/ (Lost(t) /\ t[2] \in Elections)
  PROVE  ElectionInv'
<1>0. ElectionTypes
  BY Zenon DEF ElectionInv
<1>1. Idle \in ThreadRecord /\ Idle.pc \in {"idle", "ready"}
  BY RecordFacts, Zenon
<1>2. CASE Probe(t)
  <2>1. Pc(t) # "idle"
    BY <1>2, Zenon DEF Probe
  <2>2. CASE Conclude(t, FALSE, Idle)
    BY <1>1, <2>1, <2>2, ConcludeKeeps, Zenon
  <2>3. ASSUME NEW v \in IF gwRows = {} THEN {NoVersion} ELSE {Info[r[1]].crate : r \in gwRows},
               Conclude(t, FALSE, [Idle EXCEPT !.pc = "ready", !.seen = v])
        PROVE  ElectionInv'
    <3> DEFINE new == [Idle EXCEPT !.pc = "ready", !.seen = v]
    <3>1. v \in Nat \cup {NoVersion}
      <4>1. \A r \in gwRows : r[1] \in Sidecars
        BY <1>0, Zenon DEF ElectionTypes, Row
      <4>2. \A q \in Sidecars : Info[q].crate \in Nat
        BY ElectionAssumption, Zenon DEF ElectionInfo
      <4> QED
        BY <2>3, <4>1, <4>2, Zenon
    <3>2. new \in ThreadRecord /\ new.pc \in {"idle", "ready"}
      <4>1. "ready" \in ThreadPcs
        BY Zenon DEF ThreadPcs
      <4> QED
        BY <1>1, <3>1, <4>1, Zenon DEF ThreadRecord
    <3> QED
      BY <2>1, <2>3, <3>2, ConcludeKeeps, Zenon
  <2> QED
    BY <1>2, <2>2, <2>3, Zenon DEF Probe
<1>3. CASE TasksUp(t) /\ t[2] \in Elections
  <2>1. Pc(t) = "tasks" /\ Conclude(t, TRUE, Idle)
    BY <1>3, Zenon DEF TasksUp
  <2> QED
    BY <1>1, <1>3, <2>1, ConcludeKeeps, Zenon
<1>4. CASE TasksUp(t) /\ t[2] \notin Elections
  <2>1. Pc(t) = "tasks" /\ Goto(t, "serving") /\ UNCHANGED <<gwPort, gwLife>> /\ UNCHANGED registryVars
    BY <1>4, Zenon DEF TasksUp
  <2>2. Pc(t)' = "serving" /\ (\A u \in Threads : u # t => Pc(u)' = Pc(u))
        /\ gwThread' \in [Threads -> ThreadRecord]
    BY <1>0, <2>1, GotoFacts, Zenon DEF ThreadPcs, WinnerPcs
  <2>2a. /\ gwRows' \subseteq Row /\ gwUnsure' \subseteq Row /\ SureRows' = SureRows
         /\ \A u \in Threads : Known(u)' = Known(u)
    BY <1>0, <2>1, SameRows, Zenon
  <2>3. ElectionTypes' /\ ThreadsLive'
    BY <1>0, <2>1, <2>2, <2>2a, Zenon DEF ElectionInv, ElectionTypes, ThreadsLive, Alive
  <2>4. WinnersHold'
    BY <2>1, <2>2, Zenon DEF ElectionInv, WinnersHold, Holds, Winning
  <2>5. SweptClean' /\ Alone'
    BY <2>1, <2>2, <2>2a, RowsKept, Zenon
  <2> QED
    BY <2>3, <2>4, <2>5, Zenon DEF ElectionInv
<1>5. CASE Lost(t) /\ t[2] \in Elections
  <2>1. Pc(t) = "lost" /\ Conclude(t, FALSE, Idle)
    BY <1>5, Zenon DEF Lost
  <2> QED
    BY <1>1, <2>1, ConcludeKeeps, Zenon
<1> QED
  BY <1>2, <1>3, <1>4, <1>5, Zenon

(* Peers find the gateway that serves in the registry, and no other, up to *)
(* the writes that failed: while a winner runs the gateway tasks, its row  *)
(* is there unless its registration failed, and any other active row is    *)
(* one whose removal failed (runner.rs, tasks.rs), for any number of       *)
(* sidecars of any builds, whoever starts, yields, hangs, crashes, is      *)
(* reaped or shut down, and whichever writes of the registry fail.         *)
THEOREM GatewayIsAdvertisedAlone == ElectionSpec => []SoleActiveRow
<1>1. ElectionInit => ElectionInv
  <2> SUFFICES ASSUME ElectionInit PROVE ElectionInv
    BY Zenon
  <2>1. \A t \in Threads : Pc(t) = "idle"
    BY RecordFacts, Zenon DEF ElectionInit, Pc
  <2>2. gwThread \in [Threads -> ThreadRecord] /\ gwLife \in [Sidecars -> Lives]
    BY RecordFacts, Zenon DEF ElectionInit, Lives
  <2>3. gwPort \in {Free, Lingering} /\ gwRows \subseteq Row /\ gwUnsure \subseteq Row
    BY Zenon DEF ElectionInit, Unheld
  <2> QED
    BY <2>1, <2>2, <2>3, Zenon
    DEF ElectionInv, ElectionTypes, WinnersHold, ThreadsLive, SweptClean, Alone, Winning
<1>2. ElectionInv /\ [ElectionNext]_electionVars => ElectionInv'
  <2> SUFFICES ASSUME ElectionInv, [ElectionNext]_electionVars PROVE ElectionInv'
    BY Zenon
  <2>1. ASSUME NEW t \in Threads, ThreadStep(t) PROVE ElectionInv'
    BY <2>1, WaitKeeps, WinKeeps, PublishKeeps, TasksFailKeeps, GoneKeeps, AskKeeps, ReapKeeps,
       VerdictKeeps, Zenon DEF ThreadStep
  <2>2. ASSUME NEW p \in Sidecars,
               Start(p) \/ Readback(p) \/ FailoverProbe(p) \/ Stop(p) \/ Exit(p) \/ Crash(p) \/ Hang(p)
        PROVE  ElectionInv'
    BY <2>2, LifeKeeps, StopKeeps, DieKeeps, StillKeeps, Zenon DEF Exit, Crash
  <2> QED
    BY <2>1, <2>2, CleanupKeeps, StillKeeps, Zenon DEF ElectionNext
<1>3. ElectionInv => SoleActiveRow
  BY Zenon DEF ElectionInv, Alone, Known, SureRows, SoleActiveRow
<1> QED
  BY <1>1, <1>2, <1>3, PTL DEF ElectionSpec
=============================================================================
