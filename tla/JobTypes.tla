------------------------------ MODULE JobTypes ------------------------------
(***************************************************************************)
(* What the job manager, its persistence worker and its storage exchange:  *)
(* the life-cycle status of a job (dcc-mcp-job/src/job/types.rs) and the   *)
(* snapshot of a job that is persisted and sent to subscribers.  Of a      *)
(* job's fields the model keeps the status and the progress; every other   *)
(* field is written once, together with one of these.                      *)
(***************************************************************************)
EXTENDS Naturals

CONSTANTS
    Jobs,         \* job ids (UUIDs: an id is used for one job only)
    MaxProgress   \* bound on the progress a tool reports

ASSUME MaxProgressAssumption == MaxProgress \in Nat

InFlight == {"pending", "running"}

TerminalStatuses == {"completed", "failed", "cancelled", "interrupted"}

Snapshot == [status : InFlight \cup TerminalStatuses, progress : 0..MaxProgress]

(* No entry in the manager's map, or no row in the storage.                *)
Absent == [status |-> "absent", progress |-> 0]

IsTerminal(s) == s.status \in TerminalStatuses

(* The job a fresh Job::new() describes.                                   *)
NewJob == [status |-> "pending", progress |-> 0]

(***************************************************************************)
(* s is m or an earlier state of a job whose state is now m.               *)
(***************************************************************************)
Precedes(s, m) ==
    \/ s = m
    \/ s.status = "pending"
    \/ s.status = "running" /\ IsTerminal(m)
    \/ s.status = "running" /\ m.status = "running" /\ s.progress <= m.progress

=============================================================================
