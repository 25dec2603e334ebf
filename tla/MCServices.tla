----------------------------- MODULE MCServices -----------------------------
(***************************************************************************)
(* SchedulerService and SqliteStorage for TLC, two parts of the server     *)
(* that are closed while they are in use.  They share no state, so one run *)
(* explores one beside the other: "part" says which of them moves, and the *)
(* other rests in an initial state.                                        *)
(***************************************************************************)
EXTENDS SchedulerService, SqliteStorage

VARIABLE part

servicesVars == <<part, scVars, vars>>

\* nightly and push admit one fire at a time, free any number.
OneAtATime == [i \in Schedules |-> IF i = "free" THEN 0 ELSE 1]

ServicesInit ==
    /\ part \in {"scheduler", "database"}
    /\ SchedulerInit /\ Init
    /\ part # "scheduler" => \A r \in Requests : scRequest[r].schedule = CHOOSE i \in Hooks : TRUE

ServicesNext ==
    /\ UNCHANGED part
    /\ \/ part = "scheduler" /\ SchedulerNext /\ UNCHANGED vars
       \/ part = "database" /\ Next /\ UNCHANGED scVars

\* The fairness of each part, as long as it is the one that moves.
SchedulerFair ==
    /\ \A c \in Crons : /\ WF_scVars(part = "scheduler" /\ CronStep(c))
                        /\ SF_scVars(part = "scheduler" /\ CronFire(c) /\ scRunning' # scRunning)
    /\ \A r \in Requests : WF_scVars(part = "scheduler" /\ (HookGate(r) \/ HookFire(r)))
    /\ \A i \in Schedules : /\ WF_scVars(part = "scheduler" /\ RunEnds(i))
                            /\ WF_scVars(part = "scheduler" /\ MarkTerminal(i))

DatabaseFair ==
    \A i \in Instances :
        /\ \A c \in Callers : SF_vars(part = "database" /\ Operation(i, c))
        /\ WF_vars(part = "database" /\ Closing(i))
        /\ WF_vars(part = "database" /\ closer[i] = "waiting" /\ ForceClose(i))
        /\ WF_vars(part = "database" /\ Fence(i))

ServicesSpec == ServicesInit /\ [][ServicesNext]_servicesVars /\ SchedulerFair /\ DatabaseFair
=============================================================================
