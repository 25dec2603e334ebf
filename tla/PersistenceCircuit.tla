------------------------- MODULE PersistenceCircuit -------------------------
(***************************************************************************)
(* The write circuit of a JobManager with a storage backend attached       *)
(* (dcc-mcp-job/src/job/persistence.rs, struct PersistenceCircuit): the    *)
(* record a mutex guards and its pure updates.  Every manager modelled     *)
(* here has a backend, so `configured` is always true and has no field;    *)
(* the log lines are left out.  An error is a fingerprint (the text        *)
(* `error.to_string()`); the category error_kind() makes of a fingerprint  *)
(* is only ever compared with "retention_prune_failed", so all of its      *)
(* values are the one kind "backend".                                      *)
(***************************************************************************)
EXTENDS Naturals

CONSTANTS
    Errors,     \* fingerprints of the errors the backend can return
    Threshold   \* PERSISTENCE_FAILURE_THRESHOLD

ASSUME ThresholdAssumption == Threshold \in Nat \ {0}

NoError == "no error"

(* What every write to a closed backend returns.                           *)
ClosedError == "closed"

Fingerprints == Errors \cup {ClosedError}

Kinds == {"none", "backend", "queue_full", "retention_prune_failed",
          "server_shutdown"}

Circuit == [disabled : BOOLEAN, failures : 0..Threshold,
            lastError : Fingerprints \cup {NoError}, lastKind : Kinds]

Configured == [disabled |-> FALSE, failures |-> 0,
               lastError |-> NoError, lastKind |-> "none"]

CanWrite(c) == ~c.disabled

RecordSuccess(c) ==
    [c EXCEPT !.failures = 0, !.lastError = NoError, !.lastKind = "none"]

(* Only an unbroken run of one and the same error counts up; a different   *)
(* error starts again at one.                                              *)
Failures(c, e) == IF c.lastError = e THEN c.failures + 1 ELSE 1

RecordFailure(c, e) ==
    [disabled  |-> c.disabled \/ Failures(c, e) >= Threshold,
     failures  |-> Failures(c, e),
     lastError |-> e,
     lastKind  |-> "backend"]

(* Unconditional: a circuit that is already disabled takes the new kind.   *)
Disable(c, kind) ==
    [disabled |-> TRUE, failures |-> 0, lastError |-> NoError,
     lastKind |-> kind]

CanRetryRetention(c) == c.disabled /\ c.lastKind = "retention_prune_failed"

RecordRetentionSuccess(c) == IF CanRetryRetention(c) THEN Configured ELSE c

=============================================================================
