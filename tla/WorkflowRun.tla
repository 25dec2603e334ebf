---------------------------- MODULE WorkflowRun ----------------------------
(***************************************************************************)
(* One persisted workflow of dcc-mcp-workflow: the executor that drives    *)
(* its tree of steps, the rows it leaves in SQLite, the approval gate, the *)
(* idempotency cache, and resume after a failure or a crash.               *)
(*                                                                         *)
(* A driver is one spawned call of WorkflowExecutor::drive over the whole  *)
(* specification, started by run or by resume; nothing stops two resumes   *)
(* from driving the same workflow at once.  Every step of the tree is a    *)
(* small machine inside each driver; a composite step moves its children.  *)
(***************************************************************************)
EXTENDS Integers, Sequences, FiniteSets

CONSTANTS
    Drivers,      \* calls of run / resume
    NoDriver,
    Steps,        \* step ids of the specification, Root included
    Root,         \* the top-level list of steps (WorkflowSpec.steps)
    Items,        \* length of the array a foreach iterates over
    Keys,         \* rendered idempotency keys, each with its scope
    NoKey,
    Plans         \* the specifications, each with what may happen to its run

Kinds == {"seq", "tool", "approve", "foreach", "parallel", "branch"}

\* WorkflowSpec::validate, which run and resume call: there is a step, and no
\* id occurs twice in the tree.  Nested lists may be empty.
Validated(p) ==
    /\ p.children[Root] # <<>>
    /\ \A s, t \in Steps : \A i \in 1..Len(p.children[s]), j \in 1..Len(p.children[t]) :
         p.children[s][i] = p.children[t][j] => s = t /\ i = j
    /\ \A s \in Steps : \A i \in 1..Len(p.children[s]) : p.children[s][i] # Root

\* A plan: StepKind and nested steps of every step ("seq" is the top-level
\* list), the idempotency key of each step, the keys of global scope, the steps
\* with a timeout (their own, or the default of the approvals),
\* RetryPolicy.max_attempts, the force_steps callers may pass to resume, whether
\* callers resume a workflow that is being driven, and bounds on the
\* environment: faults is the number of storage calls that fail.
ASSUME WorkflowAssumption ==
    /\ NoDriver \notin Drivers /\ Root \in Steps /\ Items \in Nat \ {0} /\ NoKey \notin Keys
    /\ \A p \in Plans :
         /\ p.kind \in [Steps -> Kinds] /\ \A s \in Steps : p.kind[s] = "seq" <=> s = Root
         /\ p.children \in [Steps -> Seq(Steps)] /\ Validated(p)
         /\ p.key \in [Steps -> Keys \cup {NoKey}] /\ p.shared \subseteq Keys
         /\ p.timed \subseteq Steps /\ p.forces \subseteq SUBSET Steps
         /\ p.attempts \in Nat \ {0} /\ p.overlap \in BOOLEAN
         /\ p.resumes \in Nat /\ p.crashes \in Nat /\ p.cancels \in Nat
         /\ p.faults \in Nat

VARIABLES
    wfPlan,     \* the specification of this run: spec_json, never rewritten
    wfUp,       \* the server process runs
    wfStatus,   \* workflows.status
    wfCurrent,  \* workflows.current_step_id
    wfRows,     \* workflow_steps.status of each step
    wfDrv,      \* the drivers
    wfGate,     \* ApprovalGate: whose sender is registered for each step
    wfCached,   \* IdempotencyStore: the keys with an entry
    wfTracked,  \* WorkflowRegistry: the driver whose cancel token is kept
    wfRan,      \* history: the tools that took effect, with their item
    wfReached,  \* history: the steps that reached "completed"
    wfApproved, \* history: the gates a person approved
    wfForeign,  \* history: the keys another workflow stored a result under
    wfStale,    \* history: the last write of workflows.status failed
    wfSpent     \* how much of the environment's budget is used

wfDisk == <<wfStatus, wfCurrent, wfRows, wfStale>>
wfHistory == <<wfRan, wfReached, wfApproved, wfForeign>>
wfVars == <<wfPlan, wfUp, wfDisk, wfDrv, wfGate, wfCached, wfTracked, wfHistory, wfSpent>>

Kind == wfPlan.kind
Children == wfPlan.children
Key == wfPlan.key
Timed == wfPlan.timed
MaxAttempts == wfPlan.attempts

NoStep == Root
Leaves == {s \in Steps : Kind[s] = "tool"}
Resting == [pc |-> "idle", out |-> "none", pos |-> 0, item |-> 1]
Idle == [phase |-> "idle", cancelled |-> FALSE, preloaded |-> {}, force |-> {},
         at |-> [s \in Steps |-> Resting]]

Kids(s) == {Children[s][i] : i \in 1..Len(Children[s])}

\* The index of the foreach item a step works on: 1 outside a foreach.
ItemOf(d, s) ==
    IF \E p \in Steps : Kind[p] = "foreach" /\ s \in Kids(p)
    THEN wfDrv[d].at[CHOOSE p \in Steps : Kind[p] = "foreach" /\ s \in Kids(p)].item
    ELSE 1

Driving(d) == wfUp /\ wfDrv[d].phase = "run"
AtStep(d, s, pc) == Driving(d) /\ wfDrv[d].at[s].pc = pc

Update(d, s, r) == [wfDrv EXCEPT ![d].at[s] = r]
MoveTo(d, s, pc) == Update(d, s, [wfDrv[d].at[s] EXCEPT !.pc = pc])
ExitWith(d, s, out) == Update(d, s, [wfDrv[d].at[s] EXCEPT !.pc = "exit", !.out = out])

-----------------------------------------------------------------------------
(* WorkflowStorage.  The executor drops or logs every error of a write, so *)
(* a driver goes on as if it had been made.  The insert of the workflow    *)
(* row may fail as well ("lost"): then an update changes no row, and the   *)
(* row of a step is refused for the missing row it refers to.              *)

StorageFails ==
    /\ wfSpent.faults < wfPlan.faults
    /\ wfSpent' = [wfSpent EXCEPT !.faults = @ + 1]

UpsertStep(s, row) ==
    \/ /\ wfRows' = IF wfStatus = "lost" THEN wfRows ELSE [wfRows EXCEPT ![s] = row]
       /\ UNCHANGED wfSpent
    \/ StorageFails /\ UNCHANGED wfRows

UpdateStatus(status, step) ==
    \/ /\ wfStatus' = IF wfStatus = "lost" THEN wfStatus ELSE status
       /\ wfCurrent' = IF wfStatus = "lost" THEN wfCurrent ELSE step
       /\ wfStale' = FALSE
       /\ UNCHANGED wfSpent
    \/ StorageFails /\ wfStale' = TRUE /\ UNCHANGED <<wfStatus, wfCurrent>>

-----------------------------------------------------------------------------
(* run_step: the checks before a step and the two rows it writes.          *)

\* Faulty: a skipped step has no outcome.
CheckForgetsSkipped(d, s) ==
    /\ AtStep(d, s, "check")
    /\ wfDrv' = IF wfDrv[d].cancelled
                THEN Update(d, s, [Resting EXCEPT !.pc = "done", !.out = "cancelled"])
                ELSE MoveTo(d, s, IF s \in wfDrv[d].preloaded THEN "idle" ELSE "row")
    /\ UNCHANGED <<wfPlan, wfUp, wfDisk, wfGate, wfCached, wfTracked, wfHistory, wfSpent>>

\* drive and run_step test the cancel token; a preloaded id is skipped
\* whatever its position in the tree.
Check(d, s) ==
    /\ AtStep(d, s, "check")
    /\ wfDrv' = IF wfDrv[d].cancelled
                THEN Update(d, s, [Resting EXCEPT !.pc = "done", !.out = "cancelled"])
                ELSE IF s \in wfDrv[d].preloaded
                THEN Update(d, s, [Resting EXCEPT !.pc = "done", !.out = "ok"])
                ELSE MoveTo(d, s, "row")
    /\ UNCHANGED <<wfPlan, wfUp, wfDisk, wfGate, wfCached, wfTracked, wfHistory, wfSpent>>

EnterRow(d, s) ==
    /\ AtStep(d, s, "row")
    /\ UpsertStep(s, "running")
    /\ wfDrv' = MoveTo(d, s, "current")
    /\ UNCHANGED <<wfPlan, wfUp, wfStatus, wfCurrent, wfStale, wfGate, wfCached, wfTracked, wfHistory>>

EnterCurrent(d, s) ==
    /\ AtStep(d, s, "current")
    /\ UpdateStatus("running", s)
    /\ wfDrv' = MoveTo(d, s, CASE Kind[s] = "tool" -> "lookup"
                               [] Kind[s] = "approve" -> "register"
                               [] OTHER -> "kids")
    /\ UNCHANGED <<wfPlan, wfUp, wfRows, wfGate, wfCached, wfTracked, wfHistory>>

\* Faulty: a failed step is stored as completed.
RowOfOptimistic(out) == IF out = "cancelled" THEN out ELSE "completed"

RowOf(out) == CASE out = "ok" -> "completed" [] OTHER -> out

\* The row of the outcome.
ExitStep(d, s) ==
    /\ AtStep(d, s, "exit")
    /\ s # Root
    /\ UpsertStep(s, RowOf(wfDrv[d].at[s].out))
    /\ wfReached' = IF wfDrv[d].at[s].out = "ok" THEN wfReached \cup {s} ELSE wfReached
    /\ wfDrv' = MoveTo(d, s, "done")
    /\ UNCHANGED <<wfPlan, wfUp, wfStatus, wfCurrent, wfStale, wfGate, wfCached, wfTracked, wfRan,
                   wfApproved, wfForeign>>

-----------------------------------------------------------------------------
(* run_with_policy: idempotency lookup, attempts, idempotency write.       *)

\* The entry is found by scope, workflow and rendered key, whichever step
\* stored it; an error of the store reads as no entry.
Lookup(d, s) ==
    /\ AtStep(d, s, "lookup")
    /\ \/ /\ wfDrv' = IF Key[s] \in wfCached THEN ExitWith(d, s, "ok") ELSE MoveTo(d, s, "call")
          /\ UNCHANGED wfSpent
       \/ Key[s] \in wfCached /\ StorageFails /\ wfDrv' = MoveTo(d, s, "call")
    /\ UNCHANGED <<wfPlan, wfUp, wfDisk, wfGate, wfCached, wfTracked, wfHistory>>

MayTryAgain(tries) == tries < MaxAttempts

\* One attempt ends.  A call that is cancelled or timed out is dropped, and
\* the tool may have taken effect or not.
Attempt(d, s) ==
    LET effect == wfRan \cup {<<s, ItemOf(d, s)>>}
        tries == wfDrv[d].at[s].pos + 1
    IN  /\ AtStep(d, s, "call")
        /\ \/ /\ wfDrv[d].cancelled
              /\ wfRan' \in {wfRan, effect}
              /\ wfDrv' = ExitWith(d, s, "cancelled")
           \/ /\ ~wfDrv[d].cancelled
              /\ wfRan' = effect
              /\ wfDrv' = IF Key[s] # NoKey THEN MoveTo(d, s, "put") ELSE ExitWith(d, s, "ok")
           \/ /\ ~wfDrv[d].cancelled
              /\ wfRan' \in {wfRan, effect}
              /\ \/ MayTryAgain(tries) /\ wfDrv' = Update(d, s, [wfDrv[d].at[s] EXCEPT !.pos = tries])
                 \/ wfDrv' = ExitWith(d, s, "failed")
        /\ UNCHANGED <<wfPlan, wfUp, wfDisk, wfGate, wfCached, wfTracked, wfReached, wfApproved,
                       wfForeign, wfSpent>>

PutKey(d, s) ==
    /\ AtStep(d, s, "put")
    /\ \/ wfCached' = wfCached \cup {Key[s]} /\ UNCHANGED wfSpent
       \/ StorageFails /\ UNCHANGED wfCached
    /\ wfDrv' = ExitWith(d, s, "ok")
    /\ UNCHANGED <<wfPlan, wfUp, wfDisk, wfGate, wfTracked, wfHistory>>

\* idempotency_ttl_secs: an entry whose time is over is no longer found.
ExpireKey(k) ==
    /\ k \in wfCached
    /\ wfCached' = wfCached \ {k}
    /\ UNCHANGED <<wfPlan, wfUp, wfDisk, wfDrv, wfGate, wfTracked, wfHistory, wfSpent>>

\* A step of another workflow stores its result under a key of global scope.
OtherPut(k) ==
    /\ wfUp /\ k \in wfPlan.shared
    /\ wfCached' = wfCached \cup {k}
    /\ wfForeign' = wfForeign \cup {k}
    /\ UNCHANGED <<wfPlan, wfUp, wfDisk, wfDrv, wfGate, wfTracked, wfRan, wfReached, wfApproved, wfSpent>>

-----------------------------------------------------------------------------
(* run_approve and ApprovalGate.  The answer a waiter has received and not *)
(* yet polled is its pc: "yes" or "no"; a closed channel reads as "no".    *)

\* Dropping the sender registered for s closes its waiter's channel.
DropSender(drv, s) ==
    IF wfGate[s] # NoDriver /\ drv[wfGate[s]].at[s].pc = "wait"
    THEN [drv EXCEPT ![wfGate[s]].at[s] = [@ EXCEPT !.pc = "no"]] ELSE drv

WaitHandle(d, s) ==
    /\ AtStep(d, s, "register")
    /\ wfDrv' = [DropSender(wfDrv, s) EXCEPT ![d].at[s] = [@ EXCEPT !.pc = "wait"]]
    /\ wfGate' = [wfGate EXCEPT ![s] = d]
    /\ UNCHANGED <<wfPlan, wfUp, wfDisk, wfCached, wfTracked, wfHistory, wfSpent>>

Resolve(s, answer) ==
    /\ wfUp
    /\ wfGate[s] # NoDriver
    /\ wfGate' = [wfGate EXCEPT ![s] = NoDriver]
    /\ wfDrv' = MoveTo(wfGate[s], s, answer)
    /\ wfApproved' = IF answer = "yes" THEN wfApproved \cup {s} ELSE wfApproved
    /\ UNCHANGED <<wfPlan, wfUp, wfDisk, wfCached, wfTracked, wfRan, wfReached, wfForeign, wfSpent>>

\* Faulty: the registered sender stays behind.
UnblockKeepsSender(d, s) ==
    /\ \E pc \in {"wait", "yes", "no"} : AtStep(d, s, pc)
    /\ \/ /\ wfDrv[d].cancelled \/ s \in Timed
          /\ wfDrv' = ExitWith(d, s, IF wfDrv[d].cancelled THEN "cancelled" ELSE "failed")
       \/ /\ ~wfDrv[d].cancelled
          /\ wfDrv[d].at[s].pc # "wait"
          /\ wfDrv' = ExitWith(d, s, IF wfDrv[d].at[s].pc = "yes" THEN "ok" ELSE "failed")
    /\ UNCHANGED <<wfPlan, wfUp, wfDisk, wfGate, wfCached, wfTracked, wfHistory, wfSpent>>

\* The select is biased: cancellation, then the timer if there is one, then the
\* answer; the first two discard whatever sender is registered under the key.
Unblock(d, s) ==
    /\ \E pc \in {"wait", "yes", "no"} : AtStep(d, s, pc)
    /\ \/ /\ wfDrv[d].cancelled \/ s \in Timed
          /\ wfGate' = [wfGate EXCEPT ![s] = NoDriver]
          /\ wfDrv' = [DropSender(wfDrv, s) EXCEPT ![d].at[s] = [@ EXCEPT !.pc = "exit",
                         !.out = IF wfDrv[d].cancelled THEN "cancelled" ELSE "failed"]]
       \/ /\ ~wfDrv[d].cancelled
          /\ wfDrv[d].at[s].pc # "wait"
          /\ wfDrv' = ExitWith(d, s, IF wfDrv[d].at[s].pc = "yes" THEN "ok" ELSE "failed")
          /\ UNCHANGED wfGate
    /\ UNCHANGED <<wfPlan, wfUp, wfDisk, wfCached, wfTracked, wfHistory, wfSpent>>

-----------------------------------------------------------------------------
(* drive, run_foreach, run_branch, run_parallel: a composite step.         *)

StartChild(drv, d, c) == [drv EXCEPT ![d].at[c] = [Resting EXCEPT !.pc = "check"]]

\* How a step may end before its first child: its expression fails, a branch
\* takes its empty else list, a list is empty (what a foreach without items
\* comes to), or a foreach sees the cancellation before its next item.
EndsEarly(d, s, out) ==
    \/ out = "failed"
    \/ out = "ok" /\ (Kind[s] = "branch" \/ Len(Children[s]) = 0)
    \/ out = "cancelled" /\ Kind[s] = "foreach" /\ wfDrv[d].cancelled

\* drive over the children in order; a foreach repeats it for each item.
Advance(d, s) ==
    LET me == wfDrv[d].at[s]
        last == Len(Children[s])
        next == Update(d, s, [me EXCEPT !.pos = me.pos + 1])
        again == Update(d, s, [me EXCEPT !.pos = 1, !.item = me.item + 1])
        child == wfDrv[d].at[Children[s][me.pos]]
    IN  /\ AtStep(d, s, "kids")
        /\ Kind[s] # "parallel"
        /\ \/ me.pos = 0 /\ last > 0 /\ wfDrv' = StartChild(next, d, Children[s][1])
           \/ /\ me.pos = 0
              /\ Kind[s] \in {"foreach", "branch"}
              /\ \E out \in {"ok", "failed", "cancelled"} :
                   EndsEarly(d, s, out) /\ wfDrv' = ExitWith(d, s, out)
           \/ /\ me.pos > 0
              /\ child.pc = "done"
              /\ wfDrv' = IF child.out # "ok" THEN ExitWith(d, s, child.out)
                          ELSE IF me.pos < last
                          THEN StartChild(next, d, Children[s][me.pos + 1])
                          ELSE IF Kind[s] = "foreach" /\ me.item < Items
                          THEN StartChild(again, d, Children[s][1])
                          ELSE ExitWith(d, s, "ok")
        /\ UNCHANGED <<wfPlan, wfUp, wfDisk, wfGate, wfCached, wfTracked, wfHistory, wfSpent>>

\* Every branch is spawned, all are joined, and only then is the outcome
\* decided: a failed branch does not stop its siblings.
Fork(d, s) ==
    /\ AtStep(d, s, "kids") /\ Kind[s] = "parallel" /\ wfDrv[d].at[s].pos = 0
    /\ wfDrv' = [wfDrv EXCEPT ![d].at = [c \in Steps |->
                   IF c = s THEN [wfDrv[d].at[s] EXCEPT !.pos = 1]
                   ELSE IF c \in Kids(s) THEN [Resting EXCEPT !.pc = "check"]
                   ELSE wfDrv[d].at[c]]]
    /\ UNCHANGED <<wfPlan, wfUp, wfDisk, wfGate, wfCached, wfTracked, wfHistory, wfSpent>>

Join(d, s) ==
    LET outs == {wfDrv[d].at[c].out : c \in Kids(s)}
    IN  /\ AtStep(d, s, "kids") /\ Kind[s] = "parallel" /\ wfDrv[d].at[s].pos = 1
        /\ \A c \in Kids(s) : wfDrv[d].at[c].pc = "done"
        /\ wfDrv' = ExitWith(d, s, IF "cancelled" \in outs THEN "cancelled"
                                   ELSE IF "failed" \in outs THEN "failed" ELSE "ok")
        /\ UNCHANGED <<wfPlan, wfUp, wfDisk, wfGate, wfCached, wfTracked, wfHistory, wfSpent>>

-----------------------------------------------------------------------------
(* run, resume, the end of a run, cancel, crash and restart.               *)

Started(d, preloaded, force) ==
    [Idle EXCEPT !.phase = "run", !.preloaded = preloaded, !.force = force,
                 !.at[Root].pc = "kids"]

\* The workflow is driven also when insert_workflow fails.
Run(d) ==
    /\ wfUp /\ wfStatus = "none"
    /\ \/ wfStatus' = "pending" /\ UNCHANGED wfSpent
       \/ wfStatus' = "lost" /\ StorageFails
    /\ wfDrv' = [wfDrv EXCEPT ![d] = Started(d, {}, {})]
    /\ wfTracked' = d
    /\ UNCHANGED <<wfPlan, wfUp, wfCurrent, wfRows, wfStale, wfGate, wfCached, wfHistory>>

\* Faulty: interrupted steps are skipped as well.
PreloadedInterrupted == {s \in Steps : wfRows[s] \in {"completed", "interrupted"}}

\* load_resume_snapshot: the ids of the rows that say completed.
Preloaded == {s \in Steps : wfRows[s] = "completed"}

\* ensure_resumable reads a snapshot; nothing keeps it valid afterwards.
ResumeLoad(d, force) ==
    /\ wfUp /\ wfDrv[d].phase = "idle"
    /\ wfSpent.resumes < wfPlan.resumes
    /\ wfPlan.overlap \/ \A e \in Drivers : wfDrv[e].phase = "idle"
    /\ \/ wfStatus \in {"failed", "interrupted", "pending"}
       \/ wfStatus = "completed" /\ force # {}
    /\ wfDrv' = [wfDrv EXCEPT ![d] = [Idle EXCEPT !.phase = "load", !.force = force,
                   !.preloaded = Preloaded \ force]]
    /\ wfSpent' = [wfSpent EXCEPT !.resumes = @ + 1]
    /\ UNCHANGED <<wfPlan, wfUp, wfDisk, wfGate, wfCached, wfTracked, wfHistory>>

\* reset_for_resume also sets error_msg, a column MIGRATION_V1 does not create:
\* its statement never compiles, the error is logged, and the row keeps the
\* status and the step it had.
ResumeGo(d) ==
    /\ wfUp /\ wfDrv[d].phase = "load"
    /\ wfDrv' = [wfDrv EXCEPT ![d] = Started(d, wfDrv[d].preloaded, wfDrv[d].force)]
    /\ wfTracked' = d
    /\ UNCHANGED <<wfPlan, wfUp, wfDisk, wfGate, wfCached, wfHistory, wfSpent>>

Finish(d) ==
    /\ AtStep(d, Root, "exit")
    /\ UpdateStatus(RowOf(wfDrv[d].at[Root].out), NoStep)
    /\ wfDrv' = [wfDrv EXCEPT ![d] = Idle]
    /\ UNCHANGED <<wfPlan, wfUp, wfRows, wfGate, wfCached, wfTracked, wfHistory>>

\* The registry keeps the token of the run that was tracked last.
Cancel ==
    /\ wfUp /\ wfTracked # NoDriver
    /\ ~wfDrv[wfTracked].cancelled
    /\ wfSpent.cancels < wfPlan.cancels
    /\ wfDrv' = [wfDrv EXCEPT ![wfTracked].cancelled = TRUE]
    /\ wfSpent' = [wfSpent EXCEPT !.cancels = @ + 1]
    /\ UNCHANGED <<wfPlan, wfUp, wfDisk, wfGate, wfCached, wfTracked, wfHistory>>

\* Drivers, waiters and the registry live in the process; the rows and the
\* idempotency table live in SQLite.
Crash ==
    /\ wfUp /\ wfSpent.crashes < wfPlan.crashes
    /\ wfUp' = FALSE
    /\ wfDrv' = [d \in Drivers |-> Idle]
    /\ wfGate' = [s \in Steps |-> NoDriver]
    /\ wfTracked' = NoDriver
    /\ wfSpent' = [wfSpent EXCEPT !.crashes = @ + 1]
    /\ UNCHANGED <<wfPlan, wfDisk, wfCached, wfHistory>>

\* Faulty: recovery overlooks pending rows.
NonTerminalRunning == {"running"}
NonTerminal == {"pending", "running"}

\* recover_persisted: a row left pending or running becomes interrupted, and
\* so does the step it names; an error of the first write ends the recovery,
\* one of the second is dropped.
Restart ==
    /\ ~wfUp
    /\ wfUp' = TRUE
    /\ \/ wfStatus \notin NonTerminal /\ UNCHANGED <<wfStatus, wfRows, wfStale, wfSpent>>
       \/ /\ wfStatus \in NonTerminal
          /\ wfStatus' = "interrupted" /\ wfStale' = FALSE
          /\ IF wfCurrent = NoStep THEN UNCHANGED <<wfRows, wfSpent>>
             ELSE UpsertStep(wfCurrent, "interrupted")
       \/ /\ wfStatus \in NonTerminal
          /\ StorageFails /\ wfStale' = TRUE
          /\ UNCHANGED <<wfStatus, wfRows>>
    /\ UNCHANGED <<wfPlan, wfCurrent, wfDrv, wfGate, wfCached, wfTracked, wfHistory>>

-----------------------------------------------------------------------------
DriverStep(d) ==
    \/ Finish(d)
    \/ ResumeGo(d)
    \/ \E s \in Steps :
         \/ Check(d, s) \/ EnterRow(d, s) \/ EnterCurrent(d, s) \/ ExitStep(d, s)
         \/ Lookup(d, s) \/ Attempt(d, s) \/ PutKey(d, s)
         \/ WaitHandle(d, s) \/ Unblock(d, s)
         \/ Advance(d, s) \/ Fork(d, s) \/ Join(d, s)

WorkflowInit ==
    /\ wfPlan \in Plans
    /\ wfUp = TRUE
    /\ wfStatus = "none" /\ wfCurrent = NoStep
    /\ wfRows = [s \in Steps |-> "none"]
    /\ wfDrv = [d \in Drivers |-> Idle]
    /\ wfGate = [s \in Steps |-> NoDriver]
    /\ wfCached = {} /\ wfTracked = NoDriver
    /\ wfRan = {} /\ wfReached = {} /\ wfApproved = {} /\ wfForeign = {} /\ wfStale = FALSE
    /\ wfSpent = [resumes |-> 0, crashes |-> 0, cancels |-> 0, faults |-> 0]

WorkflowNext ==
    \/ \E d \in Drivers : DriverStep(d) \/ Run(d)
    \/ \E d \in Drivers, f \in wfPlan.forces : ResumeLoad(d, f)
    \/ \E k \in Keys : ExpireKey(k) \/ OtherPut(k)
    \/ \E s \in Steps, a \in {"yes", "no"} : Resolve(s, a)
    \/ Cancel \/ Crash \/ Restart

\* A driver waits for a call or a person and has no timer: neither a step policy
\* nor the executor sets a timeout by default.
Waiting(d, s) ==
    /\ AtStep(d, s, "call") \/ AtStep(d, s, "wait")
    /\ s \notin Timed /\ ~wfDrv[d].cancelled

\* The runtime polls every spawned driver.  Nothing makes a call return that
\* has no timeout and is not cancelled.
PolledStep(d) ==
    DriverStep(d) /\ \A s \in Steps : Waiting(d, s) => wfDrv'[d].at[s] = wfDrv[d].at[s]

WorkflowFairness == \A d \in Drivers : WF_wfVars(PolledStep(d))

WorkflowSpec == WorkflowInit /\ [][WorkflowNext]_wfVars /\ WorkflowFairness

-----------------------------------------------------------------------------
RowStates == {"none", "running", "completed", "failed", "cancelled", "interrupted"}

\* Shape of the state: rows, drivers and gate hold only what the code writes,
\* and no tool is attempted more often than its retry policy allows.
WorkflowTypeOK ==
    /\ wfStatus \in RowStates \cup {"pending", "lost"}
    /\ wfCurrent \in Steps
    /\ wfRows \in [Steps -> RowStates]
    /\ wfGate \in [Steps -> Drivers \cup {NoDriver}]
    /\ wfCached \subseteq Keys
    /\ wfTracked \in Drivers \cup {NoDriver}
    /\ \A d \in Drivers, s \in Leaves : wfDrv[d].at[s].pos < MaxAttempts
    /\ \A d \in Drivers, s \in Steps : wfDrv[d].at[s].item \in 1..Items

\* A workflow whose row says pending or running in a live server has a driver,
\* unless the last write of that status failed: recovery and the ends of
\* overlapping runs leave no row that claims to run and that nobody will ever
\* end, however runs, resumes, cancels, crashes and failed writes interleave.
DrivenOrSettled ==
    wfUp /\ wfStatus \in {"pending", "running"} /\ ~wfStale => \E d \in Drivers : Driving(d)

\* An entry of the approval gate has a waiter that can still receive its
\* answer: no path out of run_approve leaves a sender behind, and a second
\* driver of the same gate takes the entry over.
GateHasWaiter ==
    \A s \in Steps : wfGate[s] # NoDriver => AtStep(wfGate[s], s, "wait")

\* The leaves of the tree below s: those in every set that holds s and, with a
\* step, its children.
Below(s) ==
    {l \in Leaves : \A T \in SUBSET Steps :
        s \in T /\ (\A t \in T : Kids(t) \subseteq T) => l \in T}

\* What follows an approve step in the same list, however deep, takes effect
\* only after a person approved that gate, also when the run is resumed, driven
\* twice, or interrupted while the gate was open.
NothingBehindGate ==
    \A p \in Steps : Kind[p] \in {"seq", "foreach", "branch"} =>
        \A i \in 1..Len(Children[p]) : \A j \in 1..(i - 1) :
            Kind[Children[p][j]] = "approve"
              /\ (\E l \in Below(Children[p][i]), k \in 1..Items : <<l, k>> \in wfRan)
            => Children[p][j] \in wfApproved

TookEffect(s) == \E k \in 1..Items : <<s, k>> \in wfRan

\* A tool step whose row says completed took effect, or has the result of a call
\* made under its idempotency key, by a step of this workflow or of another: no
\* crash, retry, cancellation, failed write, expired entry or overlapping run
\* records a step that a resume then skips though nothing was done for it.
CompletedTookEffect ==
    \A s \in Leaves : wfRows[s] = "completed" =>
        \/ TookEffect(s)
        \/ /\ Key[s] # NoKey
           /\ Key[s] \in wfForeign \/ \E t \in Leaves : Key[t] = Key[s] /\ TookEffect(t)

\* Every run comes to an end: a driver finishes or dies with its process,
\* whatever its tools, its gates, the storage and the other drivers do, unless
\* from some point on it waits for a call or an answer without a timeout.
DriverEnds ==
    \A d \in Drivers : []<>(wfDrv[d].phase # "run") \/ <>[](\E s \in Steps : Waiting(d, s))

\* A result found under an idempotency key is that of the same tool step
\* (docs/guide/workflows.md:107 makes the tool part of the match).  The stores
\* compare scope, workflow and key only.
HitsOwnResult ==
    \A s \in Leaves : wfRows[s] = "completed" => TookEffect(s)

\* A resumed workflow says so from its start: "Reset a workflow row's status back
\* to `Pending` so a resume run can drive it forward again" (sqlite.rs:436).
ResumeResetsStatus ==
    [][\A d \in Drivers : wfDrv[d].phase = "load" /\ wfDrv'[d].phase = "run"
         => wfStatus' = "pending" /\ wfCurrent' = NoStep]_wfVars

\* Only force_steps runs a completed step again (docs/guide/workflows.md:311).
\* Recovery overwrites the row of the last step that completed when the server
\* stopped before the next one was entered, and two resumes may overlap.
OnlyForceReruns ==
    [][\A d \in Drivers, s \in Leaves :
         AtStep(d, s, "lookup") /\ wfDrv'[d].at[s].pc = "call"
           /\ s \in wfReached /\ ItemOf(d, s) = 1
         => s \in wfDrv[d].force]_wfVars

\* A workflow recorded completed ran the body of a foreach for every item. The
\* skip of a resume goes by step id, so a body step that completed for one item
\* is skipped for all the others.
ForeachRanAll ==
    wfStatus = "completed" =>
        \A p \in Steps : Kind[p] = "foreach" =>
            \A s \in Kids(p) \cap Leaves, k \in 1..Items : <<s, k>> \in wfRan
=============================================================================
