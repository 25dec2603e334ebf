----------------------------- MODULE MCGateway -----------------------------
(***************************************************************************)
(* GatewayElection, GatewayLaunch and CircuitBreaker for TLC.  The three   *)
(* share no state, so one run explores them one beside the other: "part"   *)
(* says which of them moves, and the two others rest in an initial state.  *)
(***************************************************************************)
EXTENDS GatewayElection, GatewayLaunch, CircuitBreaker, TLC

CONSTANTS p1, p2, l1, l2

VARIABLE part

vars == <<part, electionVars, launchVars, circuitVars>>

-----------------------------------------------------------------------------
(* p1 is the newer build, and the one that runs the failover probe.        *)
NewerFirst == [p \in Sidecars |-> [crate |-> IF p = p1 THEN 2 ELSE 1, adapter |-> 0, dcc |-> "real"]]

Bounds(starts, crashes, faults, hangs, lingers, unsure) ==
  [starts |-> starts, crashes |-> crashes, faults |-> faults, hangs |-> hangs, lingers |-> lingers,
   unsure |-> unsure]

SmallBudgets == {Bounds(2, 1, 0, 1, FALSE, 1), Bounds(2, 0, 1, 0, FALSE, 0),
                 Bounds(1, 1, 0, 0, TRUE, 0)}

Launch2(first, second, hasty, slow, launchers, daemons, spawns) ==
  [kind |-> l1 :> first @@ l2 :> second, hasty |-> hasty, slow |-> slow,
   launcherDeaths |-> launchers, daemonDeaths |-> daemons, spawnErrors |-> spawns]

SmallScenarios == {Launch2("guardian", "guardian", FALSE, TRUE, 1, 1, 0),
                   Launch2("guardian", "cli", TRUE, TRUE, 1, 0, 1),
                   Launch2("guardian", "cli", FALSE, FALSE, 0, 1, 1),
                   Launch2("cli", "cli", FALSE, FALSE, 0, 0, 0)}

-----------------------------------------------------------------------------
Init ==
  /\ part \in {"election", "launch", "circuit"}
  /\ ElectionInit /\ LaunchInit /\ CircuitInit
  /\ part # "election" => gwPort = Free /\ gwBudget = CHOOSE b \in Budgets : TRUE
  /\ part # "launch" => lnScenario = CHOOSE s \in Scenarios : \A l \in Launchers : s.kind[l] = "cli"

Next ==
  /\ UNCHANGED part
  /\ \/ part = "election" /\ ElectionNext /\ UNCHANGED <<launchVars, circuitVars>>
     \/ part = "launch" /\ LaunchNext /\ UNCHANGED <<electionVars, circuitVars>>
     \/ part = "circuit" /\ CircuitNext /\ UNCHANGED <<electionVars, launchVars>>

(* The fairness of each part, as long as it is the one that moves.         *)
ElectionFair ==
  /\ \A t \in Threads : WF_electionVars(part = "election" /\ ThreadStep(t))
  /\ \A p \in Sidecars : /\ WF_electionVars(part = "election" /\ Readback(p))
                         /\ WF_electionVars(part = "election" /\ FailoverProbe(p))
                         /\ WF_electionVars(part = "election" /\ Exit(p))
  /\ WF_electionVars(part = "election" /\ PortFree)

LaunchFair ==
  /\ \A l \in Launchers : WF_launchVars(part = "launch" /\ LauncherStep(l))
  /\ \A d \in Pids : WF_launchVars(part = "launch" /\ RunDaemon(d))
  /\ WF_launchVars(part = "launch" /\ LockAges)

CircuitFair ==
  /\ \A c \in Callers : /\ WF_circuitVars(part = "circuit" /\ CallStep(c))
                        /\ WF_circuitVars(part = "circuit" /\ BeginCall(c))
  /\ WF_circuitVars(part = "circuit" /\ Expire)

Spec == Init /\ [][Next]_vars /\ ElectionFair /\ LaunchFair /\ CircuitFair
=============================================================================
