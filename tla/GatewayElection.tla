-------------------------- MODULE GatewayElection --------------------------
(***************************************************************************)
(* Which process serves the gateway port: the election that every sidecar  *)
(* runs when it starts, the challenger loop, the failover probe, voluntary *)
(* yield, reaping and shutdown (dcc-mcp-gateway gateway/runner.rs,         *)
(* tasks.rs, handle.rs, port_recovery.rs; dcc-mcp-sidecar                  *)
(* sidecar_gateway.rs).                                                    *)
(*                                                                         *)
(* A sidecar runs up to five threads of control, its slots: the election   *)
(* inside start(), the elections of the failover probe, the challenger     *)
(* loop that each of the two may spawn, and a gateway that no handle owns  *)
(* any more ("stray").  A slot that wins the port serves the gateway.      *)
(*                                                                         *)
(* The __gateway__ rows of the registry are triples of a sidecar, the slot *)
(* that wrote the row and its role.  A write of the registry may fail, and *)
(* the election goes on as if it had not: every result is discarded.  Time *)
(* is not modelled: a sleep may end, and a row that nobody refreshes may   *)
(* be stale, at any moment.                                                *)
(***************************************************************************)
EXTENDS ElectionOrder, FiniteSets

CONSTANTS Sidecars,         \* processes that start a GatewayRunner
          Probers,          \* those that are sidecars and run the failover probe
          Info,             \* ElectionInfo of each process
          Quitters,         \* sidecars that may be shut down
          Reapable,         \* sidecars recorded in a pidfile or launch manifest
          MaxRetries,       \* challenger_timeout_secs / challenger_poll_interval_secs
          RecoveryAttempts, \* RECOVERY_BIND_ATTEMPTS
          ProbeFailures,    \* DCC_MCP_GATEWAY_PROBE_FAILURES
          Budgets           \* bounds of a behaviour, one of these

(* How many sidecars may start, crashes, failed startups and late probes,  *)
(* gateways that stop answering, whether a closed socket may linger, and   *)
(* how many rows may be wrong at a time because their last write failed.   *)
Budget == [starts : Nat, crashes : Nat, faults : Nat, hangs : Nat, lingers : BOOLEAN,
           unsure : Nat]

ASSUME ElectionAssumption ==
  /\ Info \in [Sidecars -> ElectionInfo] /\ Reapable \subseteq Sidecars /\ Quitters \subseteq Sidecars
  /\ Probers \subseteq Sidecars
  /\ MaxRetries \in Nat \ {0} /\ RecoveryAttempts \in Nat \ {0}
  /\ ProbeFailures \in Nat \ {0} /\ Budgets \subseteq Budget

VARIABLES gwPort,    \* Free, Lingering (TIME_WAIT) or the thread that holds it
          gwRows,    \* the __gateway__ rows of the registry
          gwUnsure,  \* history: rows whose last registration or removal failed
          gwThread,  \* the state of every thread
          gwLife,    \* the life of each sidecar
          gwProbed,  \* consecutive failures of the failover probe
          gwFlag,    \* FailoverHandles.is_gateway
          gwHung,    \* the process serves HTTP no longer
          gwBudget   \* what is left of the bounds

registryVars == <<gwRows, gwUnsure>>
electionVars == <<gwPort, registryVars, gwThread, gwLife, gwProbed, gwFlag, gwHung,
                  gwBudget>>

Elections == {"boot", "failover"}
Challenger(s) == IF s = "boot" THEN "bootChallenger" ELSE "failoverChallenger"
Challengers == {Challenger(s) : s \in Elections}
Slots == Elections \cup Challengers \cup {"stray"}
Threads == Sidecars \X Slots
Free == <<"nobody", "free">>
Lingering == <<"nobody", "lingering">>
Roles == {"active", "challenger"}
NoVersion == -1   \* no sentinel row was found: gw_version is empty

WinnerPcs == {"sweep", "publish", "tasks", "serving", "draining"}
ThreadState ==
  [pc : {"idle", "prune", "bind", "probe", "ready", "ask", "poll", "suspect",
         "reap", "lost", "listening"} \cup WinnerPcs,
   tries : 0..MaxRetries,       \* attempt
   misses : 0..MaxRetries,      \* failed_bind_attempts
   seen : Nat \cup {NoVersion}] \* gw_version
Idle == [pc |-> "idle", tries |-> 0, misses |-> 0, seen |-> NoVersion]
At(pc) == [Idle EXCEPT !.pc = pc]

Pc(t) == gwThread[t].pc
Holds(t) == gwPort = t
Taken == gwPort # Free

(* GET /v1/readyz on the gateway port answers 200 with ok.                 *)
Healthy == \E t \in Threads : /\ Holds(t) /\ ~gwHung[t[1]]
                              /\ Pc(t) \in {"tasks", "serving", "listening"}

(* The socket listens, and its first request waits for the gateway to come *)
(* up.                                                                     *)
Rising == \E t \in Threads : Holds(t) /\ Pc(t) \in {"sweep", "publish"}

Spend(b) == gwBudget[b] > 0 /\ gwBudget' = [gwBudget EXCEPT ![b] = @ - 1]

(* The verdict of a probe.  A probe of a rising gateway gets its answer    *)
(* late or, when the registry is slow, runs into its timeout first.        *)
Verdict(ok) ==
  \/ /\ ok = Healthy /\ ~Rising
     /\ UNCHANGED gwBudget
  \/ /\ ~ok /\ Rising /\ Spend("faults")

(* The socket of a closed listener is free, or lingers when it closed      *)
(* connections first.                                                      *)
Unheld == {Free} \cup IF gwBudget.lingers THEN {Lingering} ELSE {}
Release == gwPort' \in Unheld
ReleaseIf(held) == IF held THEN Release ELSE UNCHANGED gwPort

Goto(t, pc) == gwThread' = [gwThread EXCEPT ![t].pc = pc]
Alive(p) == gwLife[p] \in {"starting", "readback", "running", "failed", "exiting"}
DeadRows == {r \in gwRows : ~Alive(r[1])}
OwnRow(t) == <<t[1], t[2], "active">>
RowsOf(t) == {<<t[1], t[2], role>> : role \in Roles}

(* register_async; its result is dropped.                                  *)
Register(r) ==
  \/ gwRows' = gwRows \cup {r} /\ gwUnsure' = gwUnsure \ ({r} \ gwRows)
  \/ /\ UNCHANGED gwRows /\ gwUnsure' = gwUnsure \cup {r}
     /\ Cardinality(gwUnsure') <= gwBudget.unsure

(* The active row of a gateway whose start is cut off has no owner left.   *)
Orphaned(T, rows) ==
  {IF \E t \in T : Pc(t) = "tasks" /\ r = OwnRow(t) THEN <<r[1], "stray", "active">> ELSE r :
     r \in rows}

(* deregister_async of the rows in W, or a prune, when the threads in T    *)
(* are cut off; the removals that fail leave their rows.                   *)
Withdraw(W, T) ==
  LET rows == Orphaned(T, gwRows)
  IN  \E left \in SUBSET (rows \cap W) :
        /\ gwRows' = (rows \ W) \cup left
        /\ gwUnsure' = (Orphaned(T, gwUnsure) \ W) \cup left
        /\ left # {} => Cardinality(gwUnsure') <= gwBudget.unsure

ElectionInit ==
  /\ gwBudget \in Budgets /\ gwPort \in Unheld /\ gwRows = {} /\ gwUnsure = {}
  /\ gwThread = [t \in Threads |-> Idle]
  /\ gwLife = [p \in Sidecars |-> "off"]
  /\ gwProbed = [p \in Sidecars |-> 0]
  /\ gwFlag = [p \in Sidecars |-> FALSE]
  /\ gwHung = [p \in Sidecars |-> FALSE]

-----------------------------------------------------------------------------
(* Starting, and running an election.                                      *)

Start(p) ==
  /\ gwLife[p] = "off" /\ Spend("starts")
  /\ gwLife' = [gwLife EXCEPT ![p] = "starting"]
  /\ gwThread' = [gwThread EXCEPT ![<<p, "boot">>] = At("prune")]
  /\ UNCHANGED <<gwPort, registryVars, gwProbed, gwFlag, gwHung>>

(* prune_dead_entries before the bind                                      *)
Prune(t) ==
  /\ Pc(t) = "prune"
  /\ Withdraw(DeadRows, {})
  /\ Goto(t, "bind")
  /\ UNCHANGED <<gwPort, gwLife, gwProbed, gwFlag, gwHung, gwBudget>>

Bind(t) ==
  /\ Pc(t) = "bind"
  /\ IF Taken THEN Goto(t, "probe") /\ UNCHANGED gwPort
              ELSE Goto(t, "sweep") /\ gwPort' = t
  /\ UNCHANGED <<registryVars, gwLife, gwProbed, gwFlag, gwHung, gwBudget>>

(* Faulty: the winner leaves the rows it finds.                            *)
SweepNothing(t) ==
  /\ Pc(t) = "sweep"
  /\ Goto(t, "publish")
  /\ UNCHANGED <<gwPort, registryVars, gwLife, gwProbed, gwFlag, gwHung, gwBudget>>

(* The winner removes every sentinel row it finds before it writes its own;*)
(* when the list fails it finds none.                                      *)
Sweep(t) ==
  /\ Pc(t) = "sweep"
  /\ Withdraw(gwRows \cup gwUnsure, {})
  /\ Goto(t, "publish")
  /\ UNCHANGED <<gwPort, gwLife, gwProbed, gwFlag, gwHung, gwBudget>>

Publish(t) ==
  /\ Pc(t) = "publish"
  /\ Register(OwnRow(t))
  /\ Goto(t, "tasks")
  /\ UNCHANGED <<gwPort, gwLife, gwProbed, gwFlag, gwHung, gwBudget>>

(* A challenger task that is aborted: its guards withdraw the row of the   *)
(* challenge and, once promoted, the active row and the listeners.  While  *)
(* the gateway tasks start no guard owns them yet: the row stays, and the  *)
(* listener, if it was spawned already, goes on as a stray gateway.        *)
AbortChallenger(t, new) ==
  LET stray == <<t[1], "stray">>
  IN  \/ gwThread' = new /\ ReleaseIf(Holds(t))
      \/ /\ Pc(t) = "tasks"
         /\ gwThread' = [new EXCEPT ![stray] = At("serving")]
         /\ gwPort' = stray

(* What becomes of an election: start() goes on to its readback; the probe *)
(* loop replaces the handles it kept, which aborts the previous challenger,*)
(* and then prunes the registry.                                           *)
Conclude(t, wins, new) ==
  LET p == t[1]
      c == <<p, Challenger(t[2])>>
      next == [gwThread EXCEPT ![t] = IF wins THEN At("serving") ELSE Idle, ![c] = new]
  IN  IF t[2] = "boot"
      THEN /\ gwLife' = [gwLife EXCEPT ![p] = "readback"]
           /\ gwFlag' = [gwFlag EXCEPT ![p] = wins]
           /\ gwThread' = next
           /\ UNCHANGED <<gwPort, registryVars>>
      ELSE /\ gwFlag' = [gwFlag EXCEPT ![p] = wins]
           /\ Withdraw(RowsOf(c) \cup DeadRows, {c})
           /\ AbortChallenger(c, next)
           /\ UNCHANGED gwLife

(* The port was taken: read the first sentinel row, then probe readiness.  *)
(* An unhealthy resident starts the challenger loop.                       *)
Probe(t) ==
  /\ Pc(t) = "probe"
  /\ \/ Verdict(TRUE) /\ Conclude(t, FALSE, Idle)
     \/ /\ Verdict(FALSE)
        /\ \E v \in IF gwRows = {} THEN {NoVersion} ELSE {Info[r[1]].crate : r \in gwRows} :
             Conclude(t, FALSE, [Idle EXCEPT !.pc = "ready", !.seen = v])
  /\ UNCHANGED <<gwProbed, gwHung>>

(* start_gateway_tasks answered its own probe                              *)
TasksUp(t) ==
  /\ Pc(t) = "tasks"
  /\ IF t[2] \in Elections THEN Conclude(t, TRUE, Idle)
     ELSE Goto(t, "serving") /\ UNCHANGED <<gwPort, registryVars, gwLife, gwFlag>>
  /\ UNCHANGED <<gwProbed, gwHung, gwBudget>>

(* The gateway did not answer its own probe: the listener is told to go,   *)
(* the row is withdrawn and the election counts as lost.                   *)
TasksFail(t) ==
  LET stray == <<t[1], "stray">>
  IN  /\ Pc(t) = "tasks" /\ Spend("faults")
      /\ gwPort' = stray
      /\ gwThread' = [gwThread EXCEPT ![t].pc = "lost", ![stray] = At("draining")]
      /\ Withdraw({OwnRow(t)}, {})
      /\ UNCHANGED <<gwLife, gwProbed, gwFlag, gwHung>>

Lost(t) ==
  /\ Pc(t) = "lost"
  /\ IF t[2] \in Elections THEN Conclude(t, FALSE, Idle)
     ELSE /\ gwThread' = [gwThread EXCEPT ![t] = Idle]
          /\ Withdraw(RowsOf(t), {})
          /\ UNCHANGED <<gwPort, gwLife, gwFlag>>
  /\ UNCHANGED <<gwProbed, gwHung, gwBudget>>

(* start() reads its own row back from disk, repairs it, and lets the      *)
(* challenger and the cleanup loop go; or it gives up, and what the        *)
(* election started runs on without an owner.                              *)
Readback(p) ==
  /\ gwLife[p] = "readback"
  /\ \/ /\ gwLife' = [gwLife EXCEPT ![p] = "running"]
        /\ UNCHANGED <<gwThread, gwBudget>>
     \/ /\ Spend("faults")
        /\ gwLife' = [gwLife EXCEPT ![p] = "failed"]
        /\ gwThread' = [gwThread EXCEPT ![<<p, "bootChallenger">>] = Idle]
  /\ UNCHANGED <<gwPort, registryVars, gwProbed, gwFlag, gwHung>>

-----------------------------------------------------------------------------
(* The challenger loop.                                                    *)

(* Once start() is done, publish the challenge.                            *)
Announce(t) ==
  /\ Pc(t) = "ready"
  /\ t[2] = "bootChallenger" => gwLife[t[1]] = "running"
  /\ Register(<<t[1], t[2], "challenger">>)
  /\ Goto(t, "ask")
  /\ UNCHANGED <<gwPort, gwLife, gwProbed, gwFlag, gwHung, gwBudget>>

(* POST /gateway/yield, when the crate is newer than the one that was seen;*)
(* the resident yields when it finds the challenger's crate newer.         *)
Yields(h, p) ==
  /\ Holds(h) /\ Pc(h) \in {"serving", "listening"} /\ ~gwHung[h[1]]
  /\ is_newer_version(Info[p].crate, Info[h[1]].crate)

Ask(t) ==
  LET p == t[1]
      asks == is_newer_version(Info[p].crate, gwThread[t].seen)
      yielding == {h \in Threads : asks /\ Yields(h, p)}
  IN  /\ Pc(t) = "ask"
      /\ gwThread' = [u \in Threads |->
           IF u = t THEN [gwThread[t] EXCEPT !.pc = "poll"]
           ELSE IF u \in yielding THEN [gwThread[u] EXCEPT !.pc = "draining"]
           ELSE gwThread[u]]
      /\ UNCHANGED <<gwPort, registryVars, gwLife, gwProbed, gwFlag, gwHung, gwBudget>>

(* One attempt to bind.                                                    *)
Poll(t) ==
  LET me == gwThread[t]
      missed == me.misses + 1
  IN  /\ Pc(t) = "poll" /\ me.tries < MaxRetries
      /\ IF Taken
         THEN /\ gwThread' = [gwThread EXCEPT ![t] =
                   [me EXCEPT !.tries = @ + 1, !.misses = missed,
                     !.pc = IF missed >= RecoveryAttempts THEN "suspect" ELSE "ask"]]
              /\ UNCHANGED gwPort
         ELSE /\ gwThread' = [gwThread EXCEPT ![t] = At("sweep")]
              /\ gwPort' = t
      /\ UNCHANGED <<registryVars, gwLife, gwProbed, gwFlag, gwHung, gwBudget>>

GiveUp(t) ==
  /\ Pc(t) = "poll" /\ gwThread[t].tries = MaxRetries
  /\ gwThread' = [gwThread EXCEPT ![t] = Idle]
  /\ Withdraw(RowsOf(t), {})
  /\ UNCHANGED <<gwPort, gwLife, gwProbed, gwFlag, gwHung, gwBudget>>

(* Is the holder still healthy?                                            *)
Suspect(t) ==
  /\ Pc(t) = "suspect"
  /\ \/ Verdict(TRUE) /\ Goto(t, "ask")
     \/ Verdict(FALSE) /\ Goto(t, "reap")
  /\ UNCHANGED <<gwPort, registryVars, gwLife, gwProbed, gwFlag, gwHung>>

(* service_dead_port_holder_pid: the one process that listens, if it is    *)
(* another process that this deployment started.                           *)
PortHolder(p) == {h \in Threads : Holds(h) /\ h[1] # p /\ h[1] \in Reapable}

(* Every thread of a process is gone.                                      *)
Without(p, threads) == [u \in Threads |-> IF u[1] = p THEN Idle ELSE threads[u]]

Reap(t) ==
  LET patient == [gwThread EXCEPT ![t].pc = "ask", ![t].misses = 0]
  IN  /\ Pc(t) = "reap"
      /\ \/ /\ PortHolder(t[1]) = {}
            /\ gwThread' = patient
            /\ UNCHANGED <<gwPort, gwLife, gwHung>>
         \/ \E h \in PortHolder(t[1]) :
              /\ gwLife' = [gwLife EXCEPT ![h[1]] = "dead"]
              /\ gwHung' = [gwHung EXCEPT ![h[1]] = FALSE]
              /\ Release
              /\ gwThread' = Without(h[1], IF gwPort' = Free
                                           THEN [gwThread EXCEPT ![t].pc = "poll"]
                                           ELSE patient)
      /\ UNCHANGED <<registryVars, gwProbed, gwFlag, gwBudget>>

-----------------------------------------------------------------------------
(* The gateway at work.                                                    *)

(* One turn of the cleanup loop: refresh the own row, remove the rows of   *)
(* dead processes (the eviction of stale rows spares __gateway__ rows),    *)
(* and yield to a newer row, unless it is stale or the list fails.         *)
Cleanup(t) ==
  /\ Pc(t) = "serving" /\ ~gwHung[t[1]]
  /\ t[2] \in {"boot", "bootChallenger"} => gwLife[t[1]] = "running"
  /\ Withdraw(DeadRows, {})
  /\ \/ UNCHANGED gwThread
     \/ /\ \E r \in gwRows' : is_newer_election(Info[r[1]], Info[t[1]])
        /\ Goto(t, "draining")
  /\ UNCHANGED <<gwPort, gwLife, gwProbed, gwFlag, gwHung, gwBudget>>

(* The listener is gone.  A promoted challenger returns, and its guards    *)
(* withdraw its rows; any other gateway leaves its row behind.             *)
Drained(t) ==
  /\ Pc(t) = "draining"
  /\ ReleaseIf(Holds(t))
  /\ gwThread' = [gwThread EXCEPT ![t] = Idle]
  /\ IF t[2] \in Challengers THEN Withdraw(RowsOf(t), {}) ELSE UNCHANGED registryVars
  /\ UNCHANGED <<gwLife, gwProbed, gwFlag, gwHung, gwBudget>>

PortFree ==
  /\ gwPort = Lingering /\ gwPort' = Free
  /\ UNCHANGED <<registryVars, gwThread, gwLife, gwProbed, gwFlag, gwHung, gwBudget>>

(* Faulty: failed probes are not added up.                                 *)
FailoverProbeForgets(p) ==
  /\ p \in Probers /\ gwLife[p] = "running" /\ ~gwFlag[p]
  /\ Pc(<<p, "failover">>) = "idle"
  /\ Verdict(TRUE) \/ Verdict(FALSE)
  /\ gwProbed' = [gwProbed EXCEPT ![p] = 0]
  /\ UNCHANGED <<gwPort, registryVars, gwThread, gwLife, gwFlag, gwHung>>

(* One turn of the failover probe: skipped for ever by a sidecar that the  *)
(* flag says is the gateway.                                               *)
FailoverProbe(p) ==
  /\ p \in Probers /\ gwLife[p] = "running" /\ ~gwFlag[p]
  /\ Pc(<<p, "failover">>) = "idle"
  /\ \/ /\ Verdict(TRUE)
        /\ gwProbed' = [gwProbed EXCEPT ![p] = 0] /\ UNCHANGED gwThread
     \/ /\ Verdict(FALSE) /\ gwProbed[p] + 1 < ProbeFailures
        /\ gwProbed' = [gwProbed EXCEPT ![p] = @ + 1] /\ UNCHANGED gwThread
     \/ /\ Verdict(FALSE) /\ gwProbed[p] + 1 >= ProbeFailures
        /\ gwProbed' = [gwProbed EXCEPT ![p] = 0]
        /\ gwThread' = [gwThread EXCEPT ![<<p, "failover">>] = At("prune")]
  /\ UNCHANGED <<gwPort, registryVars, gwLife, gwFlag, gwHung>>

-----------------------------------------------------------------------------
(* Shutdown and faults.                                                    *)

(* SidecarGatewayControl::shutdown: abort the probe and what it started,   *)
(* then drop the handle of start().  The listener of a gateway won by the  *)
(* probe is not among the handles, and a gateway that is starting has no   *)
(* owner yet: both outlive the shutdown.                                   *)
Outlives(t) == CASE Pc(t) = "tasks" -> {"serving", "idle"}
                 [] Pc(t) = "serving" /\ t[2] = "failover" -> {"listening"}
                 [] Pc(t) = "draining" /\ t[2] = "failover" -> {"draining"}
                 [] Pc(t) \in {"serving", "listening", "draining"} /\ t[2] = "stray" -> {Pc(t)}
                 [] OTHER -> {"idle"}

Stop(p) ==
  LET held == {t \in Threads : Holds(t) /\ t[1] = p}
      stray == <<p, "stray">>
  IN  /\ gwLife[p] = "running" /\ p \in Quitters
      /\ gwLife' = [gwLife EXCEPT ![p] = "exiting"]
      /\ Withdraw({r \in gwRows \cup gwUnsure : r[1] = p /\ r[2] # "stray"},
                  {t \in Threads : t[1] = p})
      /\ IF held = {}
         THEN gwThread' = Without(p, gwThread) /\ UNCHANGED gwPort
         ELSE \E t \in held : \E pc \in Outlives(t) :
                /\ gwThread' = [Without(p, gwThread) EXCEPT ![stray] = At(pc)]
                /\ IF pc = "idle" THEN Release ELSE gwPort' = stray
      /\ gwProbed' = [gwProbed EXCEPT ![p] = 0]
      /\ gwFlag' = [gwFlag EXCEPT ![p] = FALSE]
      /\ UNCHANGED <<gwHung, gwBudget>>

Die(p) ==
  /\ gwLife' = [gwLife EXCEPT ![p] = "dead"]
  /\ gwThread' = Without(p, gwThread)
  /\ ReleaseIf(\E s \in Slots : Holds(<<p, s>>))
  /\ gwHung' = [gwHung EXCEPT ![p] = FALSE]
  /\ gwProbed' = [gwProbed EXCEPT ![p] = 0]
  /\ gwFlag' = [gwFlag EXCEPT ![p] = FALSE]
  /\ UNCHANGED registryVars

Exit(p) == gwLife[p] = "exiting" /\ Die(p) /\ UNCHANGED gwBudget
Crash(p) == Alive(p) /\ Spend("crashes") /\ Die(p)

(* The process lives and holds the port, and answers no request.           *)
Hang(p) ==
  /\ Spend("hangs") /\ ~gwHung[p]
  /\ \E s \in Slots : Holds(<<p, s>>) /\ Pc(<<p, s>>) = "serving"
  /\ gwHung' = [gwHung EXCEPT ![p] = TRUE]
  /\ UNCHANGED <<gwPort, registryVars, gwThread, gwLife, gwProbed, gwFlag>>

-----------------------------------------------------------------------------
ThreadStep(t) ==
  /\ Pc(t) \notin {"idle", "serving", "listening"}
  /\ \/ Prune(t) \/ Bind(t) \/ Probe(t) \/ Sweep(t) \/ Publish(t) \/ TasksUp(t)
     \/ TasksFail(t) \/ Lost(t) \/ Announce(t) \/ Ask(t) \/ Poll(t) \/ GiveUp(t)
     \/ Suspect(t) \/ Reap(t) \/ Drained(t)

ElectionNext ==
  \/ \E t \in Threads : ThreadStep(t) \/ Cleanup(t)
  \/ \E p \in Sidecars : Start(p) \/ Readback(p) \/ FailoverProbe(p) \/ Stop(p)
                           \/ Exit(p) \/ Crash(p) \/ Hang(p)
  \/ PortFree

(* Tasks of a running process are polled by its runtime, a socket in       *)
(* TIME_WAIT is freed by the kernel, and a process that was shut down      *)
(* exits.  Nothing obliges a sidecar to start or to stop.                  *)
ElectionFairness ==
  /\ \A t \in Threads : WF_electionVars(ThreadStep(t))
  /\ \A p \in Sidecars : /\ WF_electionVars(Readback(p))
                         /\ WF_electionVars(FailoverProbe(p))
                         /\ WF_electionVars(Exit(p))
  /\ WF_electionVars(PortFree)

ElectionSpec == ElectionInit /\ [][ElectionNext]_electionVars /\ ElectionFairness

-----------------------------------------------------------------------------
(* The types of the election's state.                                      *)
ElectionTypeOK ==
  /\ gwPort \in Threads \cup {Free, Lingering}
  /\ gwRows \subseteq Sidecars \X Slots \X Roles
  /\ gwUnsure \subseteq Sidecars \X Slots \X Roles
  /\ gwThread \in [Threads -> ThreadState]
  /\ gwLife \in [Sidecars -> {"off", "starting", "readback", "running", "failed",
                              "exiting", "dead"}]
  /\ gwProbed \in [Sidecars -> 0..ProbeFailures]
  /\ gwFlag \in [Sidecars -> BOOLEAN] /\ gwHung \in [Sidecars -> BOOLEAN]

(* Peers find the gateway that serves in the registry, and no other, up to *)
(* the writes that failed: whoever runs the gateway tasks has its active   *)
(* row unless its registration failed, whatever other winners, challengers *)
(* and cleanup loops remove, and every other active row is one whose       *)
(* removal failed, though a winner that yielded leaves its row behind      *)
(* (runner.rs sweeps after the bind and before it publishes, and drops     *)
(* every result; test in sidecar_gateway.rs: "registry should converge to  *)
(* one gateway").                                                          *)
SoleActiveRow ==
  \A t \in Threads : Pc(t) \in {"tasks", "serving"} =>
    /\ OwnRow(t) \in gwRows \cup gwUnsure
    /\ \A r \in gwRows \ gwUnsure : r[3] = "active" => r = OwnRow(t)

(* While a sidecar probes, the port is served again and again, whoever     *)
(* crashes: "a surviving peer can take over when the elected gateway       *)
(* crashes or becomes service-dead" (sidecar_gateway.rs).                  *)
TakeoverEventually ==
  \A p \in Probers :
    (gwLife[p] = "running" /\ ~gwFlag[p]) ~> (Healthy \/ gwLife[p] # "running")

(* The same, as long as no gateway hangs: after a crash the port is served *)
(* again, and so it is once a hung holder has gone.                        *)
TakeoverAfterCrash ==
  \A p \in Probers :
    (gwLife[p] = "running" /\ ~gwFlag[p])
      ~> (Healthy \/ gwLife[p] # "running" \/ \E q \in Sidecars : gwHung[q])
=============================================================================
