---------------------------- MODULE MCWorkflows ----------------------------
(* WorkflowRun on small specifications.                                    *)
EXTENDS WorkflowRun

\* Steps 1, 2 and 3 of the given kinds and children, with the list at the root.
\* The keyed steps share one key.
Plan(kinds, children, list, keyed, shared, timed, attempts, forces, overlap, resumes, crashes, cancels, faults) ==
    [kind |-> [s \in Steps |-> IF s = Root THEN "seq" ELSE kinds[s]],
     children |-> [s \in Steps |-> IF s = Root THEN list ELSE children[s]],
     key |-> [s \in Steps |-> IF s \in keyed THEN CHOOSE k \in Keys : TRUE ELSE NoKey],
     shared |-> shared, timed |-> timed, attempts |-> attempts, forces |-> forces, overlap |-> overlap,
     resumes |-> resumes, crashes |-> crashes, cancels |-> cancels, faults |-> faults]

E == <<>>

\* A gate with a timeout before a foreach; a parallel with a gate, a retried tool,
\* no timeouts and a cancel; a branch and a tool with one key that other workflows
\* use too, forced resumes; a parallel of tools; one tool driven twice while storage
\* calls fail; a foreach with and one without a body, and a cancel.
Gated == Plan(<<"approve", "foreach", "tool">>, <<E, <<3>>, E>>, <<1, 2>>, {}, {}, {1}, 1, {{}}, TRUE, 1, 1, 0, 0)
Cancelled == Plan(<<"parallel", "tool", "approve">>, <<<<2, 3>>, E, E>>, <<1>>, {2}, {}, {}, 2, {{}}, TRUE, 0, 0, 1, 0)
Forced == Plan(<<"branch", "tool", "tool">>, <<<<2>>, E, E>>, <<1, 3>>, {2, 3}, Keys, {2}, 1, {{}, {2}}, FALSE, 1, 0, 0, 1)
Crashed == Plan(<<"parallel", "tool", "tool">>, <<<<2, 3>>, E, E>>, <<1>>, {}, {}, {2, 3}, 1, {{}}, FALSE, 1, 1, 0, 1)
Twice == Plan(<<"tool", "tool", "tool">>, <<E, E, E>>, <<2>>, {2}, {}, {}, 1, {{}}, TRUE, 1, 1, 0, 2)
Emptied == Plan(<<"foreach", "foreach", "tool">>, <<<<3>>, E, E>>, <<1, 2>>, {}, {}, {}, 1, {{}}, FALSE, 0, 0, 1, 1)

SmallPlans == {Gated, Cancelled, Forced, Crashed, Twice, Emptied}

\* A foreach of two tools that is interrupted and resumed.
LoopedPlan == {Plan(<<"foreach", "tool", "tool">>, <<<<2, 3>>, E, E>>, <<1>>, {}, {}, {}, 1, {{}}, FALSE, 1, 1, 0, 0)}
=============================================================================
