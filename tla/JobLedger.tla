------------------------------ MODULE JobLedger ------------------------------
(***************************************************************************)
(* What durable job storage promises, whatever queues, workers, crashes    *)
(* and write failures lie between it and the manager: the record of a job  *)
(* only ever moves forward along the job's life cycle, a job that is over  *)
(* keeps its record, and only a job that is over may lose it.              *)
(***************************************************************************)
EXTENDS JobTypes

VARIABLE ledger   \* the durable record of each job

Init == ledger = [j \in Jobs |-> Absent]

(* A later state of j becomes durable; states in between may be skipped.   *)
Record(j, s) ==
    /\ ledger[j] = Absent \/ Precedes(ledger[j], s)
    /\ ledger' = [ledger EXCEPT ![j] = s]

(* Jobs that are over are removed.                                         *)
Purge(gone) ==
    /\ \A j \in gone : IsTerminal(ledger[j])
    /\ ledger' = [j \in Jobs |-> IF j \in gone THEN Absent ELSE ledger[j]]

Next ==
    \/ \E j \in Jobs, s \in Snapshot : Record(j, s)
    \/ \E gone \in SUBSET Jobs : Purge(gone)

Spec == Init /\ [][Next]_ledger

=============================================================================
