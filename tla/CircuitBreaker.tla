--------------------------- MODULE CircuitBreaker ---------------------------
(***************************************************************************)
(* The circuit breaker of one backend (dcc-mcp-gateway gateway/            *)
(* resilience.rs) and the calls that go through it (backend_client/ops.rs: *)
(* rest_get_idempotent, rest_post_idempotent, forward_tools_call).         *)
(*                                                                         *)
(* The count of failures is an atomic and open_until a mutex: each access  *)
(* to either is a step of its own.  A deadline is abstracted to "running"  *)
(* or "expired".                                                           *)
(***************************************************************************)
EXTENDS Naturals, FiniteSets

CONSTANTS Callers,     \* tasks that call the backend
          Readers,     \* those whose calls are idempotent and are retried
          ReadRetries, \* read_retry_max
          FailureThreshold, \* failure_threshold
          MaxOutages   \* bound: how often the backend goes down

ASSUME CircuitAssumption ==
  /\ Readers \subseteq Callers /\ ReadRetries \in Nat
  /\ FailureThreshold \in Nat \ {0} /\ MaxOutages \in Nat

VARIABLES cbFailures,  \* consecutive_failures
          cbOpen,      \* open_until: none, or a deadline that runs or has expired
          cbPc,        \* where each call is
          cbTry,       \* the attempt a call is on
          cbDown,      \* the backend fails every request
          cbOutages    \* the outages so far

circuitVars == <<cbFailures, cbOpen, cbPc, cbTry, cbDown, cbOutages>>

CallPcs == {"idle", "check", "sent", "zero", "close", "count", "open", "rezero"}

CircuitTypeOK ==
  /\ cbFailures \in Nat /\ cbOpen \in {"none", "running", "expired"}
  /\ cbPc \in [Callers -> CallPcs] /\ cbTry \in [Callers -> 0..ReadRetries]
  /\ cbDown \in BOOLEAN /\ cbOutages \in 0..MaxOutages

CircuitInit ==
  /\ cbFailures = 0 /\ cbOpen = "none"
  /\ cbPc = [c \in Callers |-> "idle"] /\ cbTry = [c \in Callers |-> 0]
  /\ cbDown = FALSE /\ cbOutages = 0

Pass(c, from, to) == cbPc[c] = from /\ cbPc' = [cbPc EXCEPT ![c] = to]

BeginCall(c) ==
  /\ Pass(c, "idle", "check") /\ cbTry' = [cbTry EXCEPT ![c] = 0]
  /\ UNCHANGED <<cbFailures, cbOpen, cbDown, cbOutages>>

(* check_open: an expired deadline is cleared and everybody is let through.*)
CheckOpen(c) ==
  /\ Pass(c, "check", IF cbOpen = "running" THEN "idle" ELSE "sent")
  /\ cbOpen' = IF cbOpen = "expired" THEN "none" ELSE cbOpen
  /\ UNCHANGED <<cbFailures, cbTry, cbDown, cbOutages>>

MayRetry(c) == c \in Readers /\ cbTry[c] < ReadRetries

(* The answer: a transport failure is retried, then counted; any other     *)
(* answer, an error included, is a success of the circuit.                 *)
Answer(c) ==
  /\ cbPc[c] = "sent"
  /\ IF cbDown
     THEN /\ Pass(c, "sent", IF MayRetry(c) THEN "check" ELSE "count")
          /\ cbTry' = [cbTry EXCEPT ![c] = IF MayRetry(c) THEN @ + 1 ELSE @]
     ELSE Pass(c, "sent", "zero") /\ UNCHANGED cbTry
  /\ UNCHANGED <<cbFailures, cbOpen, cbDown, cbOutages>>

(* on_success: the counter first, then the deadline.                       *)
SuccessZero(c) ==
  /\ Pass(c, "zero", "close") /\ cbFailures' = 0
  /\ UNCHANGED <<cbOpen, cbTry, cbDown, cbOutages>>

SuccessClose(c) ==
  /\ Pass(c, "close", "idle") /\ cbOpen' = "none"
  /\ UNCHANGED <<cbFailures, cbTry, cbDown, cbOutages>>

(* Faulty: the threshold is off by one.                                    *)
FailureCountLate(c) ==
  /\ Pass(c, "count", IF cbFailures + 1 > FailureThreshold THEN "open" ELSE "idle")
  /\ cbFailures' = cbFailures + 1
  /\ UNCHANGED <<cbOpen, cbTry, cbDown, cbOutages>>

(* on_transport_failure: fetch_add, then the deadline, then the counter.   *)
FailureCount(c) ==
  /\ Pass(c, "count", IF cbFailures + 1 >= FailureThreshold THEN "open" ELSE "idle")
  /\ cbFailures' = cbFailures + 1
  /\ UNCHANGED <<cbOpen, cbTry, cbDown, cbOutages>>

(* Faulty: the deadline lies in the past.                                  *)
FailureOpenElapsed(c) ==
  /\ Pass(c, "open", "rezero") /\ cbOpen' = "expired"
  /\ UNCHANGED <<cbFailures, cbTry, cbDown, cbOutages>>

FailureOpen(c) ==
  /\ Pass(c, "open", "rezero") /\ cbOpen' = "running"
  /\ UNCHANGED <<cbFailures, cbTry, cbDown, cbOutages>>

FailureRezero(c) ==
  /\ Pass(c, "rezero", "idle") /\ cbFailures' = 0
  /\ UNCHANGED <<cbOpen, cbTry, cbDown, cbOutages>>

Expire ==
  /\ cbOpen = "running" /\ cbOpen' = "expired"
  /\ UNCHANGED <<cbFailures, cbPc, cbTry, cbDown, cbOutages>>

Outage ==
  /\ ~cbDown /\ cbOutages < MaxOutages
  /\ cbDown' = TRUE /\ cbOutages' = cbOutages + 1
  /\ UNCHANGED <<cbFailures, cbOpen, cbPc, cbTry>>

Recovery ==
  /\ cbDown /\ cbDown' = FALSE
  /\ UNCHANGED <<cbFailures, cbOpen, cbPc, cbTry, cbOutages>>

CallStep(c) ==
  \/ CheckOpen(c) \/ Answer(c) \/ SuccessZero(c) \/ SuccessClose(c)
  \/ FailureCount(c) \/ FailureOpen(c) \/ FailureRezero(c)

CircuitNext ==
  \/ \E c \in Callers : BeginCall(c) \/ CallStep(c)
  \/ Expire \/ Outage \/ Recovery

(* Clients keep calling, a call ends or times out, and time passes.        *)
CircuitFairness ==
  /\ \A c \in Callers : WF_circuitVars(CallStep(c)) /\ WF_circuitVars(BeginCall(c))
  /\ WF_circuitVars(Expire)

CircuitSpec == CircuitInit /\ [][CircuitNext]_circuitVars /\ CircuitFairness

-----------------------------------------------------------------------------
(* A count that reached the threshold is never forgotten: as long as it    *)
(* stands, some call is on its way to open the circuit and to reset it,    *)
(* whatever successes and other failures do in between (resilience.rs      *)
(* takes the counter and the deadline one after the other).                *)
ThresholdActedOn ==
  cbFailures >= FailureThreshold => \E c \in Callers : cbPc[c] \in {"open", "rezero"}

(* The circuit follows its backend, whatever late answers do.  One that    *)
(* stays down is cut off: again and again its circuit opens and the calls  *)
(* to it fail at once, instead of each waiting for a timeout.  One that    *)
(* stays up is served: its circuit ends closed, even when a late failure   *)
(* opened it after the recovery (resilience.rs).                           *)
FollowsBackend ==
  /\ (<>[]cbDown) => []<>(cbOpen = "running")
  /\ (<>[]~cbDown) => <>[](cbOpen = "none")
=============================================================================
