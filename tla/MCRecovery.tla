----------------------------- MODULE MCRecovery -----------------------------
(***************************************************************************)
(* WorkflowRun and UpdateSet for TLC, the two parts that go on after a     *)
(* crash from what it left on disk.  They share no state, so one run       *)
(* explores one beside the other: "part" says which of them moves, and the *)
(* other rests in an initial state.                                        *)
(***************************************************************************)
EXTENDS MCWorkflows, MCUpdateSet

VARIABLE part

vars == <<part, wfVars, updateVars>>

Init ==
    /\ part \in {"workflow", "update"}
    /\ WorkflowInit /\ UpdateInit
    /\ part # "workflow" => wfPlan = CHOOSE p \in Plans : TRUE
    /\ part # "update" => usWorld = CHOOSE w \in Installations : TRUE

Next ==
    /\ UNCHANGED part
    /\ \/ part = "workflow" /\ WorkflowNext /\ UNCHANGED updateVars
       \/ part = "update" /\ UpdateNext /\ UNCHANGED wfVars

\* The fairness of each part, as long as it is the one that moves.
WorkflowFair == \A d \in Drivers : WF_wfVars(part = "workflow" /\ PolledStep(d))

UpdateFair ==
    /\ WF_updateVars(part = "update" /\ OperationStep)
    /\ SF_updateVars(part = "update" /\ Launch)

Spec == Init /\ [][Next]_vars /\ WorkflowFair /\ UpdateFair
=============================================================================
