--------------------------- MODULE WorkflowProofs ---------------------------
(***************************************************************************)
(* The workflow executor, for any specification that validate accepts and  *)
(* any number of drivers, resumes, crashes and cancellations.              *)
(***************************************************************************)
EXTENDS WorkflowRun, TLAPS

StepStates ==
    [pc : {"idle", "check", "row", "current", "lookup", "call", "put", "register", "wait",
           "yes", "no", "kids", "exit", "done"},
     out : {"none", "ok", "failed", "cancelled"}, pos : Nat, item : 1..Items]

DriverStates ==
    [phase : {"idle", "load", "run"}, cancelled : BOOLEAN, preloaded : SUBSET Steps,
     force : SUBSET Steps, at : [Steps -> StepStates]]

Active(r) == r.pc \notin {"idle", "done"}

StatusStates == RowStates \cup {"pending", "lost"}

Ran(ran, s) == \E k \in 1..Items : <<s, k>> \in ran

\* A call was made under the key of s.
KeyUsed(plan, ran, foreign, s) ==
    /\ plan.key[s] # NoKey
    /\ \/ plan.key[s] \in foreign
       \/ \E t \in Steps : plan.kind[t] = "tool" /\ plan.key[t] = plan.key[s] /\ Ran(ran, t)

\* What a step that succeeded leaves behind: a gate was approved, a tool ran or
\* has the result of a call under its key.
Effect(plan, ran, foreign, approved, s) ==
    /\ plan.kind[s] = "approve" => s \in approved
    /\ plan.kind[s] = "tool" => Ran(ran, s) \/ KeyUsed(plan, ran, foreign, s)

\* What the machine of one step knows, whatever the others do.
StepOK(plan, ran, foreign, approved, s, r) ==
    /\ r.pc \in {"lookup", "call", "put"} => plan.kind[s] = "tool"
    /\ r.pc \in {"register", "wait", "yes", "no"} => plan.kind[s] = "approve"
    /\ r.pc = "kids" => plan.kind[s] \notin {"tool", "approve"}
    /\ r.pc \in {"check", "row", "current"} => r.pos = 0
    /\ plan.kind[s] = "tool" => r.pos < plan.attempts
    /\ r.pc \in {"exit", "done"} => r.out # "none"
    /\ r.pc \in {"exit", "done"} /\ r.out = "ok" => Effect(plan, ran, foreign, approved, s)
    /\ r.pc = "put" => plan.key[s] # NoKey /\ Effect(plan, ran, foreign, approved, s)
    /\ r.pc = "yes" => s \in approved
    /\ r.pc = "kids" /\ plan.kind[s] # "parallel" =>
         /\ r.pos <= Len(plan.children[s])
         /\ \A j \in 1..(r.pos - 1) :
              Effect(plan, ran, foreign, approved, plan.children[s][j])

KidsOf(plan, s) == {plan.children[s][i] : i \in 1..Len(plan.children[s])}

\* The steps below s, itself included.
Subtree(plan, s) ==
    {x \in Steps : \A T \in SUBSET Steps :
        s \in T /\ (\A t \in T : KidsOf(plan, t) \subseteq T) => x \in T}

\* Where a composite step stands while its i-th child is at work.
Place(plan, p, i) == IF plan.kind[p] = "parallel" THEN 1 ELSE i

\* A child is at work only where its parent stands.
Nested(plan, at) ==
    \A p \in Steps : \A i \in 1..Len(plan.children[p]) :
        Active(at[plan.children[p][i]]) => at[p].pc = "kids" /\ at[p].pos = Place(plan, p, i)

TreeOK(plan, at) ==
    /\ Nested(plan, at)
    /\ \A s \in Steps : Active(at[s]) => s \in Subtree(plan, Root)
    /\ at[Root].pc \in {"kids", "exit"}

DriverOK(plan, ran, foreign, approved, v) ==
    /\ \A s \in Steps : StepOK(plan, ran, foreign, approved, s, v.at[s])
    /\ \A s \in v.preloaded : Effect(plan, ran, foreign, approved, s)
    /\ v.phase = "run" => TreeOK(plan, v.at)

DriversOK(plan, ran, foreign, approved, drv) ==
    \A d \in Drivers : DriverOK(plan, ran, foreign, approved, drv[d])

\* NothingBehindGate of a specification and its history.
Behind(plan, ran, approved) ==
    \A p \in Steps : plan.kind[p] # "parallel" =>
        \A i \in 1..Len(plan.children[p]) : \A j \in 1..(i - 1) :
            plan.kind[plan.children[p][j]] = "approve"
              /\ (\E l \in Subtree(plan, plan.children[p][i]), k \in 1..Items : <<l, k>> \in ran)
            => plan.children[p][j] \in approved

WorkflowTypes ==
    /\ wfPlan \in Plans /\ wfUp \in BOOLEAN
    /\ wfStatus \in StatusStates /\ wfCurrent \in Steps
    /\ wfRows \in [Steps -> RowStates] /\ wfDrv \in [Drivers -> DriverStates]
    /\ wfGate \in [Steps -> Drivers \cup {NoDriver}]
    /\ wfCached \subseteq Keys /\ wfTracked \in Drivers \cup {NoDriver}

\* A row or an entry of the idempotency store says that a step is done.
Recorded(plan, rows, cached, s) ==
    rows[s] = "completed" \/ (plan.kind[s] = "tool" /\ plan.key[s] \in cached)

\* What is stored was done.
Stored ==
    \A s \in Steps : Recorded(wfPlan, wfRows, wfCached, s)
                       => Effect(wfPlan, wfRan, wfForeign, wfApproved, s)

Fresh == wfStatus = "none" => \A d \in Drivers : wfDrv[d].phase = "idle"

WorkflowInv ==
    /\ WorkflowTypes /\ Stored /\ Fresh
    /\ DriversOK(wfPlan, wfRan, wfForeign, wfApproved, wfDrv)
    /\ Behind(wfPlan, wfRan, wfApproved)
    /\ DrivenOrSettled /\ GateHasWaiter

-----------------------------------------------------------------------------
(* Plans and trees.                                                        *)

(* What validate and the types of a specification give.                    *)
LEMMA PlanFacts ==
    ASSUME NEW plan \in Plans
    PROVE  /\ plan.kind \in [Steps -> Kinds] /\ plan.children \in [Steps -> Seq(Steps)]
           /\ Validated(plan) /\ plan.key \in [Steps -> Keys \cup {NoKey}] /\ plan.forces \subseteq SUBSET Steps
           /\ plan.attempts \in Nat \ {0}
           /\ \A s \in Steps : plan.kind[s] = "seq" <=> s = Root
BY WorkflowAssumption, Zenon

(* A list of children has a length, and its members are steps, not Root.   *)
LEMMA ChildFacts ==
    ASSUME NEW plan \in Plans, NEW p \in Steps
    PROVE  /\ Len(plan.children[p]) \in Nat
           /\ \A i \in 1..Len(plan.children[p]) :
                i \in Nat /\ i >= 1 /\ plan.children[p][i] \in Steps /\ plan.children[p][i] # Root
<1>1. plan.children[p] \in Seq(Steps)
  BY PlanFacts, Zenon
<1>2. Len(plan.children[p]) \in Nat /\ \A i \in 1..Len(plan.children[p]) : plan.children[p][i] \in Steps
  BY <1>1
<1>3. \A i \in 1..Len(plan.children[p]) : i \in Nat /\ i >= 1
  BY <1>2
<1>4. \A i \in 1..Len(plan.children[p]) : plan.children[p][i] # Root
  BY PlanFacts, Zenon DEF Validated
<1> QED
  BY <1>2, <1>3, <1>4, Zenon

(* A step has one parent and one place in its list.                        *)
LEMMA OneParent ==
    ASSUME NEW plan \in Plans, NEW p \in Steps, NEW q \in Steps,
           NEW i \in 1..Len(plan.children[p]), NEW j \in 1..Len(plan.children[q]),
           plan.children[p][i] = plan.children[q][j]
    PROVE  p = q /\ i = j
<1>1. Validated(plan)
  BY PlanFacts, Zenon
<1>2. \A u, v \in Steps : \A k \in 1..Len(plan.children[u]), l \in 1..Len(plan.children[v]) :
        plan.children[u][k] = plan.children[v][l] => u = v /\ k = l
  BY <1>1, Zenon DEF Validated
<1> QED
  BY <1>2, Zenon

(* The places of a composite step are positive.                            *)
LEMMA PlacePositive ==
    ASSUME NEW plan \in Plans, NEW p \in Steps, NEW i \in 1..Len(plan.children[p])
    PROVE  Place(plan, p, i) # 0
<1>1. i >= 1 /\ i \in Nat
  BY ChildFacts, Zenon
<1> QED
  BY <1>1 DEF Place

(* Below a step that is not driving its children nobody is at work.        *)
LEMMA Quiet ==
    ASSUME NEW plan \in Plans, NEW at, Nested(plan, at), NEW c \in Steps, at[c].pc # "kids",
           NEW x \in Subtree(plan, c), x # c
    PROVE  ~Active(at[x])
<1> DEFINE T == {y \in Steps : y = c \/ ~Active(at[y])}
<1>1. T \in SUBSET Steps /\ c \in T
  BY Zenon
<1>2. ASSUME NEW t \in T PROVE KidsOf(plan, t) \subseteq T
  <2>1. t \in Steps /\ at[t].pc # "kids"
    BY <1>2, Zenon DEF Active
  <2>2. ASSUME NEW i \in 1..Len(plan.children[t]) PROVE plan.children[t][i] \in T
    <3>1. plan.children[t][i] \in Steps
      BY <2>1, <2>2, ChildFacts, Zenon
    <3>2. ~Active(at[plan.children[t][i]])
      BY <2>1, <2>2, Zenon DEF Nested
    <3> QED
      BY <3>1, <3>2, Zenon
  <2> HIDE DEF T
  <2> QED
    BY <2>2, Zenon DEF KidsOf
<1> HIDE DEF T
<1>3. x \in T
  BY <1>1, <1>2, Zenon DEF Subtree
<1> QED
  BY <1>3, Zenon DEF T

(* While a step works, every step above it stands where that child is.     *)
LEMMA AncestorStands ==
    ASSUME NEW plan \in Plans, NEW at, Nested(plan, at), NEW p \in Steps,
           NEW i \in 1..Len(plan.children[p]), NEW x \in Subtree(plan, plan.children[p][i]),
           Active(at[x])
    PROVE  at[p].pc = "kids" /\ at[p].pos = Place(plan, p, i)
<1> DEFINE c == plan.children[p][i]
<1>0. c \in Steps
  BY ChildFacts, Zenon
<1> SUFFICES Active(at[c])
  BY Zenon DEF Nested
<1> HIDE DEF c
<1>1. CASE at[c].pc = "kids"
  BY <1>1, Zenon DEF Active
<1>2. CASE at[c].pc # "kids"
  <2>1. x \in Subtree(plan, c)
    BY Zenon DEF c
  <2>2. x = c
    BY <1>0, <1>2, <2>1, Quiet, Zenon
  <2> QED
    BY <2>2, Zenon
<1> QED
  BY <1>1, <1>2, Zenon

(* Subtrees are closed under children, and hold their root.                *)
LEMMA SubtreeFacts ==
    ASSUME NEW plan \in Plans, NEW s \in Steps
    PROVE  /\ s \in Subtree(plan, s)
           /\ \A p \in Subtree(plan, s) : \A i \in 1..Len(plan.children[p]) :
                plan.children[p][i] \in Subtree(plan, s)
<1>1. s \in Subtree(plan, s)
  BY Zenon DEF Subtree
<1>2. ASSUME NEW p \in Subtree(plan, s), NEW i \in 1..Len(plan.children[p])
      PROVE  plan.children[p][i] \in Subtree(plan, s)
  <2>1. p \in Steps
    BY Zenon DEF Subtree
  <2>2. plan.children[p][i] \in Steps
    BY <2>1, ChildFacts, Zenon
  <2>3. ASSUME NEW T \in SUBSET Steps, s \in T, \A t \in T : KidsOf(plan, t) \subseteq T
        PROVE  plan.children[p][i] \in T
    <3>1. p \in T
      BY <2>3, Zenon DEF Subtree
    <3>2. plan.children[p][i] \in KidsOf(plan, p)
      BY Zenon DEF KidsOf
    <3> QED
      BY <2>3, <3>1, <3>2, Zenon
  <2> QED
    BY <2>2, <2>3, Zenon DEF Subtree
<1> QED
  BY <1>1, <1>2, Zenon

(* A step that is at work, and drives no children, moves anywhere.         *)
LEMMA LeafMoves ==
    ASSUME NEW plan \in Plans, NEW at \in [Steps -> StepStates], TreeOK(plan, at),
           NEW s \in Steps, s # Root, Active(at[s]), at[s].pc # "kids", NEW r
    PROVE  TreeOK(plan, [at EXCEPT ![s] = r])
<1> DEFINE new == [at EXCEPT ![s] = r]
<1>1. \A t \in Steps : t # s => new[t] = at[t]
  BY Zenon
<1> HIDE DEF new
<1>2. ASSUME NEW p \in Steps, NEW i \in 1..Len(plan.children[p]), Active(new[plan.children[p][i]])
      PROVE  new[p].pc = "kids" /\ new[p].pos = Place(plan, p, i)
  <2>0. plan.children[p][i] \in Steps
    BY ChildFacts, Zenon
  <2>1. Active(at[plan.children[p][i]])
    BY <1>1, <1>2, <2>0, Zenon
  <2>2. at[p].pc = "kids" /\ at[p].pos = Place(plan, p, i)
    BY <2>1, Zenon DEF TreeOK, Nested
  <2> QED
    BY <1>1, <2>2, Zenon
<1>3. ASSUME NEW t \in Steps, Active(new[t]) PROVE t \in Subtree(plan, Root)
  BY <1>1, <1>3, Zenon DEF TreeOK
<1>4. new[Root].pc \in {"kids", "exit"}
  BY <1>1, WorkflowAssumption, Zenon DEF TreeOK
<1>5. Nested(plan, new)
  BY <1>2, Zenon DEF Nested
<1> QED
  BY <1>3, <1>4, <1>5, Zenon DEF TreeOK, new

(* A composite step ends once none of its children is at work.             *)
LEMMA ParentEnds ==
    ASSUME NEW plan \in Plans, NEW at \in [Steps -> StepStates], TreeOK(plan, at),
           NEW s \in Steps, at[s].pc = "kids", NEW r, r.pc = "exit",
           \A i \in 1..Len(plan.children[s]) : ~Active(at[plan.children[s][i]])
    PROVE  TreeOK(plan, [at EXCEPT ![s] = r])
<1> DEFINE new == [at EXCEPT ![s] = r]
<1>1. new[s] = r /\ \A t \in Steps : t # s => new[t] = at[t]
  BY Zenon
<1> HIDE DEF new
<1>0. Active(at[s])
  BY Zenon DEF Active
<1>2. ASSUME NEW p \in Steps, NEW i \in 1..Len(plan.children[p]), Active(new[plan.children[p][i]])
      PROVE  new[p].pc = "kids" /\ new[p].pos = Place(plan, p, i)
  <2>0. plan.children[p][i] \in Steps
    BY ChildFacts, Zenon
  <2>1. Active(at[plan.children[p][i]])
    BY <1>0, <1>1, <1>2, <2>0, Zenon
  <2>2. at[p].pc = "kids" /\ at[p].pos = Place(plan, p, i)
    BY <2>1, Zenon DEF TreeOK, Nested
  <2>3. p # s
    BY <2>1, Zenon
  <2> QED
    BY <1>1, <2>2, <2>3, Zenon
<1>3. ASSUME NEW t \in Steps, Active(new[t]) PROVE t \in Subtree(plan, Root)
  BY <1>0, <1>1, <1>3, Zenon DEF TreeOK
<1>4. new[Root].pc \in {"kids", "exit"}
  BY <1>1, WorkflowAssumption, Zenon DEF TreeOK
<1>5. Nested(plan, new)
  BY <1>2, Zenon DEF Nested
<1> QED
  BY <1>3, <1>4, <1>5, Zenon DEF TreeOK, new

(* A composite step none of whose children is at work starts the i-th one. *)
LEMMA ChildStarts ==
    ASSUME NEW plan \in Plans, NEW at \in [Steps -> StepStates], TreeOK(plan, at),
           NEW s \in Steps, at[s].pc = "kids", plan.kind[s] # "parallel",
           \A i \in 1..Len(plan.children[s]) : ~Active(at[plan.children[s][i]]),
           NEW i \in 1..Len(plan.children[s]), NEW r, r.pc = "kids", r.pos = i, NEW q
    PROVE  /\ plan.children[s][i] # s
           /\ TreeOK(plan, [[at EXCEPT ![s] = r] EXCEPT ![plan.children[s][i]] = q])
<1> DEFINE c == plan.children[s][i]
           new == [[at EXCEPT ![s] = r] EXCEPT ![c] = q]
<1>0. Active(at[s])
  BY Zenon DEF Active
<1>1. c \in Steps /\ c # s /\ c # Root
  BY <1>0, ChildFacts, Zenon
<1>a. c = plan.children[s][i]
  BY Zenon
<1> HIDE DEF c
<1>2. new[s] = r /\ new[c] = q /\ \A t \in Steps : t # s /\ t # c => new[t] = at[t]
  BY <1>1, Zenon
<1> HIDE DEF new
<1>3. ASSUME NEW p \in Steps, NEW j \in 1..Len(plan.children[p]), Active(new[plan.children[p][j]])
      PROVE  new[p].pc = "kids" /\ new[p].pos = Place(plan, p, j)
  <2>0. plan.children[p][j] \in Steps
    BY ChildFacts, Zenon
  <2>1. CASE plan.children[p][j] = c
    <3>1. p = s /\ j = i
      <4>1. plan.children[p][j] = plan.children[s][i]
        BY <2>1, <1>a, Zenon
      <4> QED
        BY <4>1, OneParent, ZenonT(60)
    <3> QED
      BY <1>2, <3>1, Zenon DEF Place
  <2>2. CASE plan.children[p][j] # c
    <3>1. Active(at[plan.children[p][j]])
      BY <1>0, <1>2, <1>3, <2>0, <2>2, Zenon
    <3>2. at[p].pc = "kids" /\ at[p].pos = Place(plan, p, j)
      BY <3>1, Zenon DEF TreeOK, Nested
    <3>3. p # s
      BY <3>1, Zenon
    <3>4. p # c
      BY <1>a, <3>2, Zenon DEF Active
    <3> QED
      BY <1>2, <3>2, <3>3, <3>4, Zenon
  <2> QED
    BY <2>1, <2>2, Zenon
<1>4. ASSUME NEW t \in Steps, Active(new[t]) PROVE t \in Subtree(plan, Root)
  <2>1. s \in Subtree(plan, Root)
    BY <1>0, Zenon DEF TreeOK
  <2>2. c \in Subtree(plan, Root)
    BY <2>1, <1>a, SubtreeFacts, WorkflowAssumption, Zenon
  <2> QED
    BY <1>2, <1>4, <2>1, <2>2, Zenon DEF TreeOK
<1>5. new[Root].pc \in {"kids", "exit"}
  BY <1>1, <1>2, WorkflowAssumption, Zenon DEF TreeOK
<1>6. Nested(plan, new)
  BY <1>3, Zenon DEF Nested
<1>7. TreeOK(plan, new)
  BY <1>4, <1>5, <1>6, Zenon DEF TreeOK
<1> QED
  BY <1>1, <1>7, Zenon DEF c, new

\* A tree whose step s started all its children.
Forked(plan, at, s, r, q) ==
    [c \in Steps |-> IF c = s THEN r ELSE IF c \in KidsOf(plan, s) THEN q ELSE at[c]]

(* A parallel step none of whose children is at work starts them all.      *)
LEMMA ChildrenStart ==
    ASSUME NEW plan \in Plans, NEW at \in [Steps -> StepStates], TreeOK(plan, at),
           NEW s \in Steps, at[s].pc = "kids", plan.kind[s] = "parallel",
           \A i \in 1..Len(plan.children[s]) : ~Active(at[plan.children[s][i]]),
           NEW r, r.pc = "kids", r.pos = 1, NEW q
    PROVE  TreeOK(plan, Forked(plan, at, s, r, q))
<1> DEFINE new == Forked(plan, at, s, r, q)
<1>0. Active(at[s])
  BY Zenon DEF Active
<1>1. \A c \in KidsOf(plan, s) : c # s /\ c # Root /\ ~Active(at[c])
  BY <1>0, ChildFacts, Zenon DEF KidsOf
<1>2. new[s] = r /\ \A t \in Steps : t # s /\ t \notin KidsOf(plan, s) => new[t] = at[t]
  BY Zenon DEF Forked
<1> HIDE DEF new
<1>3. ASSUME NEW p \in Steps, NEW j \in 1..Len(plan.children[p]), Active(new[plan.children[p][j]])
      PROVE  new[p].pc = "kids" /\ new[p].pos = Place(plan, p, j)
  <2>0. plan.children[p][j] \in Steps
    BY ChildFacts, Zenon
  <2>1. CASE plan.children[p][j] \in KidsOf(plan, s)
    <3>1. PICK i \in 1..Len(plan.children[s]) : plan.children[p][j] = plan.children[s][i]
      BY <2>1, Zenon DEF KidsOf
    <3>2. p = s
      BY <3>1, OneParent, Zenon
    <3> QED
      BY <1>2, <3>2, Zenon DEF Place
  <2>2. CASE plan.children[p][j] \notin KidsOf(plan, s)
    <3>1. Active(at[plan.children[p][j]])
      BY <1>0, <1>2, <1>3, <2>0, <2>2, Zenon
    <3>2. at[p].pc = "kids" /\ at[p].pos = Place(plan, p, j)
      BY <3>1, Zenon DEF TreeOK, Nested
    <3>3. p # s
      BY <3>1, Zenon
    <3>4. p \notin KidsOf(plan, s)
      BY <1>1, <3>2, Zenon DEF Active
    <3> QED
      BY <1>2, <3>2, <3>3, <3>4, Zenon
  <2> QED
    BY <2>1, <2>2, Zenon
<1>4. ASSUME NEW t \in Steps, Active(new[t]) PROVE t \in Subtree(plan, Root)
  <2>1. s \in Subtree(plan, Root)
    BY <1>0, Zenon DEF TreeOK
  <2>2. \A c \in KidsOf(plan, s) : c \in Subtree(plan, Root)
    <3>1. \A i \in 1..Len(plan.children[s]) : plan.children[s][i] \in Subtree(plan, Root)
      BY <2>1, SubtreeFacts, WorkflowAssumption, Zenon
    <3> QED
      BY <3>1, Zenon DEF KidsOf
  <2> QED
    BY <1>2, <1>4, <2>1, <2>2, Zenon DEF TreeOK
<1>5. new[Root].pc \in {"kids", "exit"}
  BY <1>1, <1>2, WorkflowAssumption, Zenon DEF TreeOK
<1>6. Nested(plan, new)
  BY <1>3, Zenon DEF Nested
<1> QED
  BY <1>4, <1>5, <1>6, Zenon DEF TreeOK, new

(* No child is at work where its parent has not started, or where the one  *)
(* the parent waits for is done.                                           *)
LEMMA NoChildAtWork ==
    ASSUME NEW plan \in Plans, NEW at, TreeOK(plan, at), NEW s \in Steps,
           \/ at[s].pos = 0
           \/ plan.kind[s] # "parallel" /\ at[plan.children[s][at[s].pos]].pc = "done"
           \/ \A c \in KidsOf(plan, s) : at[c].pc = "done",
           NEW i \in 1..Len(plan.children[s])
    PROVE  ~Active(at[plan.children[s][i]])
<1> SUFFICES ASSUME Active(at[plan.children[s][i]]) PROVE FALSE
  BY Zenon
<1>1. at[s].pos = Place(plan, s, i)
  BY Zenon DEF TreeOK, Nested
<1>2. at[s].pos # 0
  BY <1>1, PlacePositive, Zenon
<1>3. plan.kind[s] # "parallel" => at[s].pos = i
  BY <1>1, Zenon DEF Place
<1>4. plan.children[s][i] \in KidsOf(plan, s)
  BY Zenon DEF KidsOf
<1> QED
  BY <1>2, <1>3, <1>4, Zenon DEF Active

-----------------------------------------------------------------------------
(* Drivers.                                                                *)

\* The drivers with one step of one of them changed.
Changed(drv, d, s, r) == [drv EXCEPT ![d].at[s] = r]

\* new is drv but for step s of driver d, which is r.
UpdateOf(drv, new, d, s, r) ==
    /\ new \in [Drivers -> DriverStates]
    /\ new[d].at = [drv[d].at EXCEPT ![s] = r]
    /\ \A e \in Drivers : /\ new[e].phase = drv[e].phase
                          /\ new[e].preloaded = drv[e].preloaded
                          /\ e # d => new[e] = drv[e]
    /\ \A e \in Drivers, t \in Steps : e # d \/ t # s => new[e].at[t] = drv[e].at[t]
    /\ new[d].at[s] = r

(* What a driver looks like after one of its steps changed.                *)
LEMMA UpdateFacts ==
    ASSUME NEW drv \in [Drivers -> DriverStates], NEW d \in Drivers, NEW s \in Steps,
           NEW r \in StepStates
    PROVE  UpdateOf(drv, Changed(drv, d, s, r), d, s, r)
<1> DEFINE v == [drv[d] EXCEPT !.at[s] = r]
           new == Changed(drv, d, s, r)
<1>1. drv[d] \in DriverStates
  BY Zenon
<1>2. drv[d].at \in [Steps -> StepStates]
  BY <1>1, Zenon DEF DriverStates
<1>3. [drv[d].at EXCEPT ![s] = r] \in [Steps -> StepStates]
  BY <1>2, Zenon
<1>4. /\ v \in DriverStates /\ v.at = [drv[d].at EXCEPT ![s] = r]
      /\ v.phase = drv[d].phase /\ v.preloaded = drv[d].preloaded
  BY <1>1, <1>3, Zenon DEF DriverStates
<1>5. new = [drv EXCEPT ![d] = v]
  BY Zenon DEF Changed
<1> HIDE DEF v, new
<1>6. new \in [Drivers -> DriverStates] /\ new[d] = v /\ \A e \in Drivers : e # d => new[e] = drv[e]
  BY <1>4, <1>5, Zenon
<1>7. v.at[s] = r /\ \A t \in Steps : t # s => v.at[t] = drv[d].at[t]
  BY <1>2, <1>4, Zenon
<1> QED
  BY <1>4, <1>6, <1>7, Zenon DEF new, UpdateOf

(* Approvals and effects are never taken back.                             *)
LEMMA EffectsStay ==
    ASSUME NEW plan, NEW ran, NEW foreign, NEW approved, NEW ran2, NEW foreign2, NEW approved2,
           ran \subseteq ran2, foreign \subseteq foreign2, approved \subseteq approved2
    PROVE  /\ \A s : Effect(plan, ran, foreign, approved, s) => Effect(plan, ran2, foreign2, approved2, s)
           /\ \A s, r : StepOK(plan, ran, foreign, approved, s, r) => StepOK(plan, ran2, foreign2, approved2, s, r)
           /\ \A drv : DriversOK(plan, ran, foreign, approved, drv) => DriversOK(plan, ran2, foreign2, approved2, drv)
<1>1. ASSUME NEW s, Effect(plan, ran, foreign, approved, s) PROVE Effect(plan, ran2, foreign2, approved2, s)
  BY <1>1, Zenon DEF Effect, KeyUsed, Ran
<1>2. ASSUME NEW s, NEW r, StepOK(plan, ran, foreign, approved, s, r) PROVE StepOK(plan, ran2, foreign2, approved2, s, r)
  BY <1>1, <1>2, Zenon DEF StepOK
<1>3. ASSUME NEW drv, DriversOK(plan, ran, foreign, approved, drv) PROVE DriversOK(plan, ran2, foreign2, approved2, drv)
  BY <1>1, <1>2, <1>3, Zenon DEF DriversOK, DriverOK
<1> QED
  BY <1>1, <1>2, <1>3, Zenon

(* One step of one driver changes, and the tree stays in order.            *)
LEMMA OneChanges ==
    ASSUME NEW plan \in Plans, NEW ran, NEW foreign, NEW approved, NEW drv \in [Drivers -> DriverStates],
           DriversOK(plan, ran, foreign, approved, drv), NEW d \in Drivers, NEW s \in Steps,
           NEW r \in StepStates, StepOK(plan, ran, foreign, approved, s, r),
           TreeOK(plan, [drv[d].at EXCEPT ![s] = r])
    PROVE  DriversOK(plan, ran, foreign, approved, Changed(drv, d, s, r))
<1> DEFINE new == Changed(drv, d, s, r)
<1>0. UpdateOf(drv, new, d, s, r)
  BY UpdateFacts, Zenon
<1> HIDE DEF new
<1>1. /\ new \in [Drivers -> DriverStates]
      /\ new[d].at = [drv[d].at EXCEPT ![s] = r]
      /\ \A e \in Drivers : /\ new[e].phase = drv[e].phase
                            /\ new[e].preloaded = drv[e].preloaded
                            /\ e # d => new[e] = drv[e]
      /\ \A e \in Drivers, t \in Steps : e # d \/ t # s => new[e].at[t] = drv[e].at[t]
      /\ new[d].at[s] = r
  BY <1>0, Zenon DEF UpdateOf
<1>2. ASSUME NEW e \in Drivers PROVE DriverOK(plan, ran, foreign, approved, new[e])
  <2>1. CASE e # d
    BY <1>1, <2>1, Zenon DEF DriversOK
  <2>2. CASE e = d
    <3>1. DriverOK(plan, ran, foreign, approved, drv[d])
      BY Zenon DEF DriversOK
    <3>2. \A t \in Steps : StepOK(plan, ran, foreign, approved, t, new[d].at[t])
      BY <1>1, <3>1, Zenon DEF DriverOK
    <3>3. \A t \in new[d].preloaded : Effect(plan, ran, foreign, approved, t)
      BY <1>1, <3>1, Zenon DEF DriverOK
    <3> QED
      BY <1>1, <2>2, <3>2, <3>3, Zenon DEF DriverOK
  <2> QED
    BY <2>1, <2>2, Zenon
<1> QED
  BY <1>2, Zenon DEF DriversOK, new

(* A step that drives no children moves on.                                *)
LEMMA LeafChanges ==
    ASSUME NEW plan \in Plans, NEW ran, NEW foreign, NEW approved, NEW drv \in [Drivers -> DriverStates],
           DriversOK(plan, ran, foreign, approved, drv), NEW d \in Drivers, drv[d].phase = "run",
           NEW s \in Steps, s # Root, Active(drv[d].at[s]), drv[d].at[s].pc # "kids",
           NEW r \in StepStates, StepOK(plan, ran, foreign, approved, s, r)
    PROVE  DriversOK(plan, ran, foreign, approved, Changed(drv, d, s, r))
<1>1. TreeOK(plan, drv[d].at)
  BY Zenon DEF DriversOK, DriverOK
<1>2. drv[d].at \in [Steps -> StepStates]
  BY Zenon DEF DriverStates
<1>3. TreeOK(plan, [drv[d].at EXCEPT ![s] = r])
  BY <1>1, <1>2, LeafMoves, Zenon
<1> QED
  BY <1>3, OneChanges, Zenon

-----------------------------------------------------------------------------
(* The pieces of the invariant that an action mostly leaves alone.         *)

(* The root is at work as long as its driver runs, and is never a leaf.    *)
LEMMA RootStands ==
    ASSUME WorkflowInv, NEW d \in Drivers, wfDrv[d].phase = "run"
    PROVE  wfDrv[d].at[Root].pc \in {"kids", "exit"}
BY Zenon DEF WorkflowInv, DriversOK, DriverOK, TreeOK

(* A row that claims to run keeps its driver when no driver ends.          *)
LEMMA StillDriven ==
    ASSUME WorkflowInv, UNCHANGED wfUp, \A d \in Drivers : wfDrv'[d].phase = wfDrv[d].phase,
           \/ wfStatus' = wfStatus /\ (wfStale' = wfStale \/ wfStale' = TRUE \/ wfStatus = "lost")
           \/ wfStatus' = "running" /\ \E d \in Drivers : Driving(d)
    PROVE  DrivenOrSettled' /\ Fresh'
<1>1. DrivenOrSettled'
  BY Zenon DEF WorkflowInv, DrivenOrSettled, Driving
<1>2. Fresh'
  <2>1. CASE wfStatus' = wfStatus
    BY <2>1, Zenon DEF WorkflowInv, Fresh
  <2>2. CASE wfStatus' = "running"
    BY <2>2, Zenon DEF Fresh
  <2> QED
    BY <2>1, <2>2, Zenon
<1> QED
  BY <1>1, <1>2, Zenon

(* What was stored and done stays so while no row and no key is added.     *)
LEMMA StillStored ==
    ASSUME WorkflowInv, UNCHANGED wfPlan, wfRan \subseteq wfRan', wfForeign \subseteq wfForeign',
           wfApproved \subseteq wfApproved',
           \A s \in Steps : Recorded(wfPlan, wfRows', wfCached', s) =>
              Recorded(wfPlan, wfRows, wfCached, s) \/ Effect(wfPlan, wfRan', wfForeign', wfApproved', s)
    PROVE  Stored'
<1>1. \A s : Effect(wfPlan, wfRan, wfForeign, wfApproved, s) => Effect(wfPlan, wfRan', wfForeign', wfApproved', s)
  BY EffectsStay, Zenon
<1>2. ASSUME NEW s \in Steps, Recorded(wfPlan, wfRows', wfCached', s)
      PROVE  Effect(wfPlan, wfRan', wfForeign', wfApproved', s)
  BY <1>1, <1>2, Zenon DEF WorkflowInv, Stored
<1> QED
  BY <1>2, Zenon DEF Stored

(* A gate that was approved stays so.                                      *)
LEMMA StillBehind ==
    ASSUME WorkflowInv, UNCHANGED <<wfPlan, wfRan>>, wfApproved \subseteq wfApproved'
    PROVE  Behind(wfPlan', wfRan', wfApproved')
<1>1. Behind(wfPlan, wfRan, wfApproved)
  BY Zenon DEF WorkflowInv
<1>2. Behind(wfPlan, wfRan, wfApproved')
  BY <1>1, Zenon DEF Behind
<1> QED
  BY <1>2, Zenon

(* The holder of a gate waits on while its step and its driver are left    *)
(* alone.                                                                  *)
LEMMA StillWaits ==
    ASSUME WorkflowInv, UNCHANGED <<wfUp, wfGate>>,
           \A d \in Drivers : wfDrv'[d].phase = wfDrv[d].phase,
           \A d \in Drivers, s \in Steps :
             wfDrv[d].at[s].pc = "wait" => wfDrv'[d].at[s].pc = "wait"
    PROVE  GateHasWaiter'
<1>1. ASSUME NEW s \in Steps, wfGate[s] # NoDriver
      PROVE  wfGate[s] \in Drivers /\ wfUp /\ wfDrv'[wfGate[s]].phase = "run"
                /\ wfDrv'[wfGate[s]].at[s].pc = "wait"
  <2>1. wfGate[s] \in Drivers
    BY <1>1, Zenon DEF WorkflowInv, WorkflowTypes
  <2>2. AtStep(wfGate[s], s, "wait")
    BY <1>1, Zenon DEF WorkflowInv, GateHasWaiter
  <2> QED
    BY <2>1, <2>2, Zenon DEF AtStep, Driving
<1> QED
  BY <1>1, Zenon DEF GateHasWaiter, AtStep, Driving

(* One machine that drives no children and waits for nobody moves on.      *)
LEMMA LeafStep ==
    ASSUME WorkflowInv, NEW d \in Drivers, NEW s \in Steps, NEW pc, AtStep(d, s, pc),
           pc \notin {"idle", "done", "kids", "wait"}, pc = "exit" => s # Root,
           NEW r \in StepStates, StepOK(wfPlan, wfRan', wfForeign', wfApproved', s, r),
           wfDrv' = Update(d, s, r), UNCHANGED <<wfPlan, wfUp, wfGate>>,
           wfRan \subseteq wfRan', wfForeign \subseteq wfForeign', wfApproved \subseteq wfApproved'
    PROVE  /\ wfDrv' \in [Drivers -> DriverStates]
           /\ DriversOK(wfPlan', wfRan', wfForeign', wfApproved', wfDrv')
           /\ GateHasWaiter'
           /\ \A e \in Drivers : wfDrv'[e].phase = wfDrv[e].phase
<1>0. wfDrv \in [Drivers -> DriverStates] /\ wfPlan \in Plans
  BY Zenon DEF WorkflowInv, WorkflowTypes
<1>1. wfDrv' = Changed(wfDrv, d, s, r)
  BY Zenon DEF Update, Changed
<1>2. UpdateOf(wfDrv, wfDrv', d, s, r)
  BY <1>0, <1>1, UpdateFacts, Zenon
<1>3. wfDrv[d].phase = "run" /\ wfDrv[d].at[s].pc = pc /\ Active(wfDrv[d].at[s])
  BY Zenon DEF AtStep, Driving, Active
<1>4. s # Root
  BY <1>3, RootStands, Zenon
<1>5. DriversOK(wfPlan, wfRan', wfForeign', wfApproved', wfDrv)
  BY EffectsStay, Zenon DEF WorkflowInv
<1>6. DriversOK(wfPlan, wfRan', wfForeign', wfApproved', Changed(wfDrv, d, s, r))
  BY <1>0, <1>3, <1>4, <1>5, LeafChanges, Zenon
<1>7. /\ wfDrv' \in [Drivers -> DriverStates]
      /\ \A e \in Drivers : wfDrv'[e].phase = wfDrv[e].phase
      /\ \A e \in Drivers, t \in Steps :
           wfDrv[e].at[t].pc = "wait" => wfDrv'[e].at[t].pc = "wait"
  BY <1>2, <1>3, Zenon DEF UpdateOf
<1>8. GateHasWaiter'
  BY <1>7, StillWaits, Zenon
<1> QED
  BY <1>1, <1>6, <1>7, <1>8, Zenon

(* The invariant from its pieces.                                          *)
LEMMA Pieces ==
    ASSUME wfPlan' \in Plans, wfUp' \in BOOLEAN, wfStatus' \in StatusStates,
           wfCurrent' \in Steps, wfRows' \in [Steps -> RowStates],
           wfDrv' \in [Drivers -> DriverStates],
           wfGate' \in [Steps -> Drivers \cup {NoDriver}], wfCached' \subseteq Keys,
           wfTracked' \in Drivers \cup {NoDriver}, Stored', DrivenOrSettled', Fresh',
           DriversOK(wfPlan', wfRan', wfForeign', wfApproved', wfDrv'), Behind(wfPlan', wfRan', wfApproved'),
           GateHasWaiter'
    PROVE  WorkflowInv'
BY Zenon DEF WorkflowInv, WorkflowTypes

(* The types, one conjunct each.                                           *)
LEMMA WorkflowFacts ==
    ASSUME WorkflowInv
    PROVE  /\ wfPlan \in Plans /\ wfUp \in BOOLEAN /\ wfStatus \in StatusStates
           /\ wfCurrent \in Steps /\ wfRows \in [Steps -> RowStates]
           /\ wfDrv \in [Drivers -> DriverStates]
           /\ wfGate \in [Steps -> Drivers \cup {NoDriver}] /\ wfCached \subseteq Keys
           /\ wfTracked \in Drivers \cup {NoDriver}
           /\ \A d \in Drivers, s \in Steps : wfDrv[d].at[s] \in StepStates
<1>1. \A d \in Drivers : wfDrv[d].at \in [Steps -> StepStates]
  BY Zenon DEF WorkflowInv, WorkflowTypes, DriverStates
<1> QED
  BY <1>1, Zenon DEF WorkflowInv, WorkflowTypes

(* An action inside one driver that touches neither rows, gates nor what   *)
(* was done, from what it does to the drivers.                             *)
LEMMA InDriver ==
    ASSUME WorkflowInv, wfDrv' \in [Drivers -> DriverStates],
           DriversOK(wfPlan', wfRan', wfForeign', wfApproved', wfDrv'), GateHasWaiter',
           \A e \in Drivers : wfDrv'[e].phase = wfDrv[e].phase,
           UNCHANGED <<wfPlan, wfUp, wfDisk, wfGate, wfCached, wfTracked, wfHistory>>
    PROVE  WorkflowInv'
<1>1. UNCHANGED <<wfPlan, wfUp, wfStatus, wfCurrent, wfRows, wfStale, wfGate, wfCached, wfTracked, wfRan,
                  wfForeign, wfApproved>>
  BY Zenon DEF wfDisk, wfHistory
<1>2. DrivenOrSettled' /\ Fresh'
  BY <1>1, StillDriven, Zenon
<1>3. Stored'
  BY <1>1, StillStored, Zenon
<1>4. Behind(wfPlan', wfRan', wfApproved')
  BY <1>1, StillBehind, Zenon
<1> QED
  BY <1>1, <1>2, <1>3, <1>4, WorkflowFacts, Pieces, Zenon

-----------------------------------------------------------------------------
(* run_step and run_with_policy.                                           *)

Pcs == {"idle", "check", "row", "current", "lookup", "call", "put", "register", "wait", "yes",
        "no", "kids", "exit", "done"}
Outs == {"none", "ok", "failed", "cancelled"}

(* The states a machine moves to.                                          *)
LEMMA Moved ==
    ASSUME NEW r \in StepStates, NEW pc \in Pcs
    PROVE  /\ [r EXCEPT !.pc = pc] \in StepStates
           /\ [r EXCEPT !.pc = pc].pc = pc /\ [r EXCEPT !.pc = pc].out = r.out
           /\ [r EXCEPT !.pc = pc].pos = r.pos
BY Zenon DEF StepStates, Pcs

(* The states a machine exits with.                                        *)
LEMMA Exited ==
    ASSUME NEW r \in StepStates, NEW out \in Outs
    PROVE  LET x == [r EXCEPT !.pc = "exit", !.out = out]
           IN  x \in StepStates /\ x.pc = "exit" /\ x.out = out /\ x.pos = r.pos
BY Zenon DEF StepStates, Outs

(* The states Check and a parent put a machine in.                         *)
LEMMA Rested ==
    /\ Resting \in StepStates
    /\ [Resting EXCEPT !.pc = "check"] \in StepStates
    /\ \A out \in Outs :
         LET x == [Resting EXCEPT !.pc = "done", !.out = out]
         IN  x \in StepStates /\ x.pc = "done" /\ x.out = out /\ x.pos = 0
<1>1. Resting \in StepStates
  BY WorkflowAssumption DEF Resting, StepStates
<1>2. [Resting EXCEPT !.pc = "check"] \in StepStates
  BY <1>1, Zenon DEF StepStates
<1>3. ASSUME NEW out \in Outs
      PROVE  LET x == [Resting EXCEPT !.pc = "done", !.out = out]
             IN  x \in StepStates /\ x.pc = "done" /\ x.out = out /\ x.pos = 0
  BY <1>1, Zenon DEF StepStates, Outs, Resting
<1> QED
  BY <1>1, <1>2, <1>3, Zenon

(* A machine that rests, or has only been told to check, knows nothing.    *)
LEMMA RestedOK ==
    ASSUME NEW plan \in Plans, NEW ran, NEW foreign, NEW approved, NEW s \in Steps, NEW r \in StepStates,
           r.pos = 0, r.pc \in {"idle", "check", "row", "current"}
    PROVE  StepOK(plan, ran, foreign, approved, s, r)
<1>1. 0 < plan.attempts
  <2>1. plan.attempts \in Nat \ {0}
    BY PlanFacts, Zenon
  <2> QED
    BY <2>1
<1> QED
  BY <1>1, Zenon DEF StepOK

(* What one machine knows, from the invariant.                             *)
LEMMA Knows ==
    ASSUME WorkflowInv, NEW d \in Drivers, NEW s \in Steps
    PROVE  /\ StepOK(wfPlan, wfRan, wfForeign, wfApproved, s, wfDrv[d].at[s])
           /\ \A x \in wfDrv[d].preloaded : Effect(wfPlan, wfRan, wfForeign, wfApproved, x)
           /\ wfDrv[d].phase = "run" => TreeOK(wfPlan, wfDrv[d].at)
BY Zenon DEF WorkflowInv, DriversOK, DriverOK

(* An outcome that needs no approval and no effect, or has them.           *)
LEMMA ExitOK ==
    ASSUME NEW plan, NEW ran, NEW foreign, NEW approved, NEW s \in Steps, NEW r, NEW x,
           StepOK(plan, ran, foreign, approved, s, r), x.pos = r.pos, x.pc \in {"exit", "done"},
           x.out \in {"ok", "failed", "cancelled"}, x.out = "ok" => Effect(plan, ran, foreign, approved, s)
    PROVE  StepOK(plan, ran, foreign, approved, s, x)
BY Zenon DEF StepOK

(* A result stored under a key is one for every tool step with that key.   *)
LEMMA SameKey ==
    ASSUME NEW plan, NEW ran, NEW foreign, NEW approved, NEW s \in Steps, NEW t \in Steps,
           plan.kind[s] = "tool", plan.kind[t] = "tool", plan.key[s] # NoKey,
           plan.key[t] = plan.key[s], Effect(plan, ran, foreign, approved, s)
    PROVE  Effect(plan, ran, foreign, approved, t)
<1>1. KeyUsed(plan, ran, foreign, t)
  BY Zenon DEF Effect, KeyUsed
<1> QED
  BY <1>1, Zenon DEF Effect

(* The row of a step after a write that may fail.                          *)
LEMMA Upserted ==
    ASSUME WorkflowInv, NEW s \in Steps, NEW row \in RowStates, UpsertStep(s, row)
    PROVE  /\ wfRows' \in [Steps -> RowStates]
           /\ \A x \in Steps : wfRows'[x] = "completed" =>
                wfRows[x] = "completed" \/ (x = s /\ row = "completed")
<1>1. wfRows' = wfRows \/ wfRows' = [wfRows EXCEPT ![s] = row]
  BY Zenon DEF UpsertStep
<1> QED
  BY <1>1, WorkflowFacts, Zenon

(* The status of a workflow after a write that may fail.                   *)
LEMMA StatusUpdated ==
    ASSUME WorkflowInv, NEW status \in StatusStates, NEW step \in Steps, UpdateStatus(status, step)
    PROVE  /\ wfStatus' \in StatusStates /\ wfCurrent' \in Steps
           /\ \/ wfStatus' = status
              \/ wfStatus' = wfStatus /\ (wfStale' = TRUE \/ wfStatus = "lost")
BY WorkflowFacts, Zenon DEF UpdateStatus

(* The checks before a step: what is skipped as preloaded was done.        *)
LEMMA CheckStep ==
    ASSUME WorkflowInv, NEW d \in Drivers, NEW s \in Steps, Check(d, s)
    PROVE  WorkflowInv'
<1> DEFINE me == wfDrv[d].at[s]
<1>1. /\ AtStep(d, s, "check") /\ me.pc = "check" /\ me \in StepStates
      /\ wfPlan \in Plans
      /\ UNCHANGED <<wfPlan, wfUp, wfDisk, wfGate, wfCached, wfTracked, wfHistory>>
      /\ wfRan' = wfRan /\ wfForeign' = wfForeign /\ wfApproved' = wfApproved
  BY WorkflowFacts, Zenon DEF Check, AtStep, wfHistory
<1>2. StepOK(wfPlan, wfRan, wfForeign, wfApproved, s, me) /\ me.pos = 0
  BY <1>1, Knows, Zenon DEF StepOK
<1>3. PICK r \in StepStates : wfDrv' = Update(d, s, r) /\ StepOK(wfPlan, wfRan, wfForeign, wfApproved, s, r)
  <2>1. CASE wfDrv[d].cancelled
    <3> DEFINE r == [Resting EXCEPT !.pc = "done", !.out = "cancelled"]
    <3>1. r \in StepStates /\ r.pc = "done" /\ r.out = "cancelled" /\ r.pos = 0
      BY Rested, Zenon DEF Outs
    <3>2. wfDrv' = Update(d, s, r)
      BY <2>1, Zenon DEF Check
    <3> HIDE DEF r
    <3>3. StepOK(wfPlan, wfRan, wfForeign, wfApproved, s, r)
      BY <1>2, <3>1, ExitOK, Zenon
    <3> QED
      BY <3>1, <3>2, <3>3, Zenon
  <2>2. CASE ~wfDrv[d].cancelled /\ s \in wfDrv[d].preloaded
    <3> DEFINE r == [Resting EXCEPT !.pc = "done", !.out = "ok"]
    <3>1. r \in StepStates /\ r.pc = "done" /\ r.out = "ok" /\ r.pos = 0
      BY Rested, Zenon DEF Outs
    <3>2. wfDrv' = Update(d, s, r)
      BY <2>2, Zenon DEF Check
    <3> HIDE DEF r
    <3>3. Effect(wfPlan, wfRan, wfForeign, wfApproved, s)
      BY <2>2, Knows, Zenon
    <3>4. StepOK(wfPlan, wfRan, wfForeign, wfApproved, s, r)
      BY <1>2, <3>1, <3>3, ExitOK, Zenon
    <3> QED
      BY <3>1, <3>2, <3>4, Zenon
  <2>3. CASE ~wfDrv[d].cancelled /\ s \notin wfDrv[d].preloaded
    <3> DEFINE r == [me EXCEPT !.pc = "row"]
    <3>1. r \in StepStates /\ r.pc = "row" /\ r.pos = 0
      BY <1>1, <1>2, Moved, ZenonT(60) DEF Pcs
    <3>2. wfDrv' = Update(d, s, r)
      BY <2>3, Zenon DEF Check, MoveTo
    <3> HIDE DEF r
    <3>3. StepOK(wfPlan, wfRan, wfForeign, wfApproved, s, r)
      BY <1>1, <3>1, RestedOK, Zenon
    <3> QED
      BY <3>1, <3>2, <3>3, Zenon
  <2> QED
    BY <2>1, <2>2, <2>3, Zenon
<1>4. StepOK(wfPlan, wfRan', wfForeign', wfApproved', s, r)
  BY <1>1, <1>3, Zenon
<1>5. /\ wfDrv' \in [Drivers -> DriverStates] /\ DriversOK(wfPlan', wfRan', wfForeign', wfApproved', wfDrv')
      /\ GateHasWaiter' /\ \A e \in Drivers : wfDrv'[e].phase = wfDrv[e].phase
  BY <1>1, <1>3, <1>4, LeafStep, Zenon
<1> QED
  BY <1>1, <1>5, InDriver, Zenon

(* The row of a step that is entered says running.                         *)
LEMMA EnterRowStep ==
    ASSUME WorkflowInv, NEW d \in Drivers, NEW s \in Steps, EnterRow(d, s)
    PROVE  WorkflowInv'
<1> DEFINE me == wfDrv[d].at[s]
           r == [me EXCEPT !.pc = "current"]
<1>1. /\ AtStep(d, s, "row") /\ me.pc = "row" /\ me \in StepStates /\ wfPlan \in Plans
      /\ UNCHANGED <<wfPlan, wfUp, wfStatus, wfCurrent, wfStale, wfGate, wfCached, wfTracked>>
      /\ wfRan' = wfRan /\ wfForeign' = wfForeign /\ wfApproved' = wfApproved
      /\ UpsertStep(s, "running")
  BY WorkflowFacts, Zenon DEF EnterRow, AtStep, wfHistory
<1>2. me.pos = 0
  BY <1>1, Knows, Zenon DEF StepOK
<1>3. r \in StepStates /\ r.pc = "current" /\ r.pos = 0
  BY <1>1, <1>2, Moved, ZenonT(60) DEF Pcs
<1>4. wfDrv' = Update(d, s, r)
  BY Zenon DEF EnterRow, MoveTo
<1> HIDE DEF r
<1>5. StepOK(wfPlan, wfRan', wfForeign', wfApproved', s, r)
  BY <1>1, <1>3, RestedOK, Zenon
<1>6. /\ wfDrv' \in [Drivers -> DriverStates] /\ DriversOK(wfPlan', wfRan', wfForeign', wfApproved', wfDrv')
      /\ GateHasWaiter' /\ \A e \in Drivers : wfDrv'[e].phase = wfDrv[e].phase
  BY <1>1, <1>3, <1>4, <1>5, LeafStep, Zenon
<1>7. DrivenOrSettled' /\ Fresh'
  BY <1>1, <1>6, StillDriven, Zenon
<1>8. wfRows' \in [Steps -> RowStates] /\ \A x \in Steps : wfRows'[x] = "completed" => wfRows[x] = "completed"
  <2>1. "running" \in RowStates /\ "running" # "completed"
    BY Zenon DEF RowStates
  <2> QED
    BY <1>1, <2>1, Upserted, Zenon
<1>9. Stored'
  BY <1>1, <1>8, StillStored, Zenon DEF Recorded
<1>10. Behind(wfPlan', wfRan', wfApproved')
  BY <1>1, StillBehind, Zenon
<1> QED
  BY <1>1, <1>6, <1>7, <1>8, <1>9, <1>10, WorkflowFacts, Pieces, Zenon

(* A step that is entered goes to the machine of its kind.                 *)
LEMMA EnterCurrentStep ==
    ASSUME WorkflowInv, NEW d \in Drivers, NEW s \in Steps, EnterCurrent(d, s)
    PROVE  WorkflowInv'
<1> DEFINE me == wfDrv[d].at[s]
           to == CASE Kind[s] = "tool" -> "lookup" [] Kind[s] = "approve" -> "register"
                   [] OTHER -> "kids"
           r == [me EXCEPT !.pc = to]
<1>1. /\ AtStep(d, s, "current") /\ me.pc = "current" /\ me \in StepStates /\ wfPlan \in Plans
      /\ UNCHANGED <<wfPlan, wfUp, wfRows, wfGate, wfCached, wfTracked>>
      /\ wfRan' = wfRan /\ wfForeign' = wfForeign /\ wfApproved' = wfApproved
      /\ UpdateStatus("running", s)
  BY WorkflowFacts, Zenon DEF EnterCurrent, AtStep, wfHistory
<1>2. StepOK(wfPlan, wfRan, wfForeign, wfApproved, s, me) /\ me.pos = 0
  BY <1>1, Knows, Zenon DEF StepOK
<1>a. \/ wfPlan.kind[s] = "tool" /\ to = "lookup"
      \/ wfPlan.kind[s] = "approve" /\ to = "register"
      \/ wfPlan.kind[s] \notin {"tool", "approve"} /\ to = "kids"
  BY DEF Kind
<1>4. wfDrv' = Update(d, s, r)
  BY Zenon DEF EnterCurrent, MoveTo
<1> HIDE DEF to
<1>3. r \in StepStates /\ r.pc = to /\ r.pos = 0
  <2>1. to \in Pcs
    BY <1>a, Zenon DEF Pcs
  <2> QED
    BY <1>1, <1>2, <2>1, Moved, Zenon
<1> HIDE DEF r
<1>5. StepOK(wfPlan, wfRan', wfForeign', wfApproved', s, r)
  <2>1. r.pos <= Len(wfPlan.children[s]) /\ 1..(r.pos - 1) = {}
    <3>1. Len(wfPlan.children[s]) \in Nat
      BY <1>1, ChildFacts, Zenon
    <3> QED
      BY <1>3, <3>1
  <2>2. wfPlan.kind[s] = "tool" => r.pos < wfPlan.attempts
    BY <1>2, <1>3, Zenon DEF StepOK
  <2> QED
    BY <1>a, <1>3, <2>1, <2>2, Zenon DEF StepOK
<1>6. /\ wfDrv' \in [Drivers -> DriverStates] /\ DriversOK(wfPlan', wfRan', wfForeign', wfApproved', wfDrv')
      /\ GateHasWaiter' /\ \A e \in Drivers : wfDrv'[e].phase = wfDrv[e].phase
  BY <1>1, <1>3, <1>4, <1>5, LeafStep, Zenon
<1>11. /\ wfStatus' \in StatusStates /\ wfCurrent' \in Steps
       /\ \/ wfStatus' = "running"
          \/ wfStatus' = wfStatus /\ (wfStale' = TRUE \/ wfStatus = "lost")
  <2>1. "running" \in StatusStates
    BY Zenon DEF StatusStates, RowStates
  <2> QED
    BY <1>1, <2>1, StatusUpdated, Zenon
<1>7. DrivenOrSettled' /\ Fresh'
  BY <1>1, <1>6, <1>11, StillDriven, Zenon DEF AtStep
<1>9. Stored'
  BY <1>1, StillStored, Zenon
<1>10. Behind(wfPlan', wfRan', wfApproved')
  BY <1>1, StillBehind, Zenon
<1> QED
  BY <1>1, <1>6, <1>7, <1>9, <1>10, <1>11, WorkflowFacts, Pieces, Zenon

(* The row of an outcome: completed only for what was done.                *)
LEMMA ExitStepStep ==
    ASSUME WorkflowInv, NEW d \in Drivers, NEW s \in Steps, ExitStep(d, s)
    PROVE  WorkflowInv'
<1> DEFINE me == wfDrv[d].at[s]
           r == [me EXCEPT !.pc = "done"]
<1>1. /\ AtStep(d, s, "exit") /\ s # Root /\ me.pc = "exit" /\ me \in StepStates /\ wfPlan \in Plans
      /\ UNCHANGED <<wfPlan, wfUp, wfStatus, wfCurrent, wfStale, wfGate, wfCached, wfTracked>>
      /\ wfRan' = wfRan /\ wfForeign' = wfForeign /\ wfApproved' = wfApproved
      /\ UpsertStep(s, RowOf(me.out))
  BY WorkflowFacts, Zenon DEF ExitStep, AtStep
<1>2. /\ StepOK(wfPlan, wfRan, wfForeign, wfApproved, s, me) /\ me.out # "none"
      /\ me.out = "ok" => Effect(wfPlan, wfRan, wfForeign, wfApproved, s)
  BY <1>1, Knows, Zenon DEF StepOK
<1>a. me.out \in {"ok", "failed", "cancelled"}
  BY <1>1, <1>2, Zenon DEF StepStates
<1>3. r \in StepStates /\ r.pc = "done" /\ r.pos = me.pos /\ r.out = me.out
  BY <1>1, Moved, Zenon DEF Pcs
<1>4. wfDrv' = Update(d, s, r)
  BY Zenon DEF ExitStep, MoveTo
<1> HIDE DEF r
<1>5. StepOK(wfPlan, wfRan', wfForeign', wfApproved', s, r)
  BY <1>1, <1>2, <1>a, <1>3, ExitOK, Zenon
<1>6. /\ wfDrv' \in [Drivers -> DriverStates] /\ DriversOK(wfPlan', wfRan', wfForeign', wfApproved', wfDrv')
      /\ GateHasWaiter' /\ \A e \in Drivers : wfDrv'[e].phase = wfDrv[e].phase
  BY <1>1, <1>3, <1>4, <1>5, LeafStep, Zenon
<1>7. DrivenOrSettled' /\ Fresh'
  BY <1>1, <1>6, StillDriven, Zenon
<1>b. RowOf(me.out) \in RowStates /\ (RowOf(me.out) = "completed" => me.out = "ok")
  BY <1>a DEF RowOf, RowStates
<1>8. /\ wfRows' \in [Steps -> RowStates]
      /\ \A x \in Steps : wfRows'[x] = "completed" =>
            wfRows[x] = "completed" \/ Effect(wfPlan, wfRan', wfForeign', wfApproved', x)
  BY <1>1, <1>2, <1>b, Upserted, Zenon
<1>9. Stored'
  BY <1>1, <1>8, StillStored, Zenon DEF Recorded
<1>10. Behind(wfPlan', wfRan', wfApproved')
  BY <1>1, StillBehind, Zenon
<1> QED
  BY <1>1, <1>6, <1>7, <1>8, <1>9, <1>10, WorkflowFacts, Pieces, Zenon

(* An idempotency key that is found was put there after a call under it.   *)
LEMMA LookupStep ==
    ASSUME WorkflowInv, NEW d \in Drivers, NEW s \in Steps, Lookup(d, s)
    PROVE  WorkflowInv'
<1> DEFINE me == wfDrv[d].at[s]
<1>1. /\ AtStep(d, s, "lookup") /\ me.pc = "lookup" /\ me \in StepStates
      /\ wfPlan \in Plans
      /\ UNCHANGED <<wfPlan, wfUp, wfDisk, wfGate, wfCached, wfTracked, wfHistory>>
      /\ wfRan' = wfRan /\ wfForeign' = wfForeign /\ wfApproved' = wfApproved
  BY WorkflowFacts, Zenon DEF Lookup, AtStep, wfHistory
<1>2. StepOK(wfPlan, wfRan, wfForeign, wfApproved, s, me)
  BY <1>1, Knows, Zenon
<1>3. PICK r \in StepStates : wfDrv' = Update(d, s, r) /\ StepOK(wfPlan, wfRan, wfForeign, wfApproved, s, r)
  <2>0. \/ wfDrv' = ExitWith(d, s, "ok") /\ Key[s] \in wfCached
        \/ wfDrv' = MoveTo(d, s, "call")
    BY Zenon DEF Lookup
  <2>1. CASE wfDrv' = ExitWith(d, s, "ok") /\ Key[s] \in wfCached
    <3> DEFINE r == [me EXCEPT !.pc = "exit", !.out = "ok"]
    <3>1. r \in StepStates /\ r.pc = "exit" /\ r.out = "ok" /\ r.pos = me.pos
      BY <1>1, Exited, Zenon DEF Outs
    <3>2. wfDrv' = Update(d, s, r)
      BY <2>1, Zenon DEF ExitWith
    <3> HIDE DEF r
    <3>3. Effect(wfPlan, wfRan, wfForeign, wfApproved, s)
      BY <1>1, <1>2, <2>1, Zenon DEF WorkflowInv, Stored, Recorded, Key, StepOK
    <3>4. StepOK(wfPlan, wfRan, wfForeign, wfApproved, s, r)
      BY <1>2, <3>1, <3>3, ExitOK, Zenon
    <3> QED
      BY <3>1, <3>2, <3>4, Zenon
  <2>2. CASE wfDrv' = MoveTo(d, s, "call")
    <3> DEFINE r == [me EXCEPT !.pc = "call"]
    <3>1. r \in StepStates /\ r.pc = "call" /\ r.pos = me.pos
      BY <1>1, Moved, ZenonT(60) DEF Pcs
    <3>2. wfDrv' = Update(d, s, r)
      BY <2>2, Zenon DEF MoveTo
    <3> HIDE DEF r
    <3>3. StepOK(wfPlan, wfRan, wfForeign, wfApproved, s, r)
      BY <1>1, <1>2, <3>1, Zenon DEF StepOK
    <3> QED
      BY <3>1, <3>2, <3>3, Zenon
  <2> QED
    BY <2>0, <2>1, <2>2, Zenon
<1>4. StepOK(wfPlan, wfRan', wfForeign', wfApproved', s, r)
  BY <1>1, <1>3, Zenon
<1>5. /\ wfDrv' \in [Drivers -> DriverStates] /\ DriversOK(wfPlan', wfRan', wfForeign', wfApproved', wfDrv')
      /\ GateHasWaiter' /\ \A e \in Drivers : wfDrv'[e].phase = wfDrv[e].phase
  BY <1>1, <1>3, <1>4, LeafStep, Zenon
<1> QED
  BY <1>1, <1>5, InDriver, Zenon

(* The item a step works on is one of the array.                           *)
LEMMA ItemBounded ==
    ASSUME WorkflowInv, NEW d \in Drivers, NEW s \in Steps
    PROVE  ItemOf(d, s) \in 1..Items
<1>1. \A p \in Steps : wfDrv[d].at[p].item \in 1..Items
  BY WorkflowFacts, Zenon DEF StepStates
<1>2. 1 \in 1..Items
  BY WorkflowAssumption
<1>3. CASE \E p \in Steps : Kind[p] = "foreach" /\ s \in Kids(p)
  <2> DEFINE q == CHOOSE p \in Steps : Kind[p] = "foreach" /\ s \in Kids(p)
  <2>1. q \in Steps
    BY <1>3, Zenon
  <2>2. ItemOf(d, s) = wfDrv[d].at[q].item
    BY <1>3, Zenon DEF ItemOf
  <2> QED
    BY <1>1, <2>1, <2>2, Zenon
<1>4. CASE ~\E p \in Steps : Kind[p] = "foreach" /\ s \in Kids(p)
  BY <1>2, <1>4, Zenon DEF ItemOf
<1> QED
  BY <1>3, <1>4, Zenon

(* A tool that is being called takes effect behind approved gates only.    *)
LEMMA EffectBehind ==
    ASSUME WorkflowInv, NEW d \in Drivers, NEW s \in Steps, AtStep(d, s, "call"), NEW k,
           wfRan' \subseteq wfRan \cup {<<s, k>>}, UNCHANGED <<wfPlan, wfApproved>>
    PROVE  Behind(wfPlan', wfRan', wfApproved')
<1>0. wfPlan \in Plans
  BY WorkflowFacts, Zenon
<1>1. Active(wfDrv[d].at[s]) /\ Nested(wfPlan, wfDrv[d].at)
  BY Knows, Zenon DEF AtStep, Driving, Active, TreeOK
<1>2. ASSUME NEW p \in Steps, wfPlan.kind[p] # "parallel",
             NEW i \in 1..Len(wfPlan.children[p]), NEW j \in 1..(i - 1),
             wfPlan.kind[wfPlan.children[p][j]] = "approve",
             NEW l \in Subtree(wfPlan, wfPlan.children[p][i]), NEW m \in 1..Items,
             <<l, m>> \in wfRan'
      PROVE  wfPlan.children[p][j] \in wfApproved
  <2>1. CASE <<l, m>> \in wfRan
    BY <1>2, <2>1, Zenon DEF WorkflowInv, Behind
  <2>2. CASE l = s
    <3>1. wfDrv[d].at[p].pc = "kids" /\ wfDrv[d].at[p].pos = Place(wfPlan, p, i)
      BY <1>0, <1>1, <2>2, AncestorStands, Zenon
    <3>2. wfDrv[d].at[p].pos = i
      BY <1>2, <3>1, Zenon DEF Place
    <3>3. StepOK(wfPlan, wfRan, wfForeign, wfApproved, p, wfDrv[d].at[p])
      BY Knows, Zenon
    <3>4. Effect(wfPlan, wfRan, wfForeign, wfApproved, wfPlan.children[p][j])
      BY <1>2, <3>1, <3>2, <3>3, Zenon DEF StepOK
    <3> QED
      BY <1>2, <3>4, Zenon DEF Effect
  <2>3. <<l, m>> \in wfRan \/ <<l, m>> = <<s, k>>
    BY <1>2, Zenon
  <2>4. <<l, m>> = <<s, k>> => l = s
    BY SMT
  <2> QED
    BY <2>1, <2>2, <2>3, <2>4, Zenon
<1>3. Behind(wfPlan, wfRan', wfApproved)
  BY <1>2, Zenon DEF Behind
<1> QED
  BY <1>3, Zenon

(* An attempt: what ends as ok, or goes on to store its key, took effect,  *)
(* and no attempt is one too many.                                         *)
LEMMA AttemptStep ==
    ASSUME WorkflowInv, NEW d \in Drivers, NEW s \in Steps, Attempt(d, s)
    PROVE  WorkflowInv'
<1> DEFINE me == wfDrv[d].at[s]
           k == ItemOf(d, s)
           effect == wfRan \cup {<<s, k>>}
           tries == me.pos + 1
<1>1. /\ AtStep(d, s, "call") /\ me.pc = "call" /\ me \in StepStates
      /\ wfPlan \in Plans
      /\ UNCHANGED <<wfPlan, wfUp, wfStatus, wfCurrent, wfRows, wfStale, wfGate, wfCached, wfTracked>>
      /\ wfApproved' = wfApproved /\ wfForeign' = wfForeign
      /\ wfRan' \in {wfRan, effect}
  BY WorkflowFacts, Zenon DEF Attempt, AtStep, wfDisk
<1>2. StepOK(wfPlan, wfRan, wfForeign, wfApproved, s, me) /\ wfPlan.kind[s] = "tool"
  BY <1>1, Knows, Zenon DEF StepOK
<1>3. k \in 1..Items
  BY ItemBounded, Zenon
<1>4. wfRan' = effect => Effect(wfPlan, wfRan', wfForeign', wfApproved', s)
  <2>1. <<s, k>> \in effect
    BY Zenon
  <2> HIDE DEF k, effect
  <2> QED
    BY <1>2, <1>3, <2>1, Zenon DEF Effect, Ran
<1>5. wfRan \subseteq wfRan' /\ wfRan' \subseteq wfRan \cup {<<s, k>>}
  BY <1>1, Zenon
<1>6. StepOK(wfPlan, wfRan', wfForeign', wfApproved', s, me)
  <2>1. \A x, r : StepOK(wfPlan, wfRan, wfForeign, wfApproved, x, r) => StepOK(wfPlan, wfRan', wfForeign', wfApproved', x, r)
    BY <1>1, <1>5, EffectsStay, Zenon
  <2> QED
    BY <1>2, <2>1, Zenon
<1>7. \/ /\ wfDrv' = ExitWith(d, s, "cancelled")
      \/ /\ wfRan' = effect
         /\ wfDrv' = IF Key[s] # NoKey THEN MoveTo(d, s, "put") ELSE ExitWith(d, s, "ok")
      \/ /\ MayTryAgain(tries) /\ wfDrv' = Update(d, s, [me EXCEPT !.pos = tries])
      \/ wfDrv' = ExitWith(d, s, "failed")
  BY Zenon DEF Attempt
<1> HIDE DEF k, effect
<1>8. PICK r \in StepStates : wfDrv' = Update(d, s, r) /\ StepOK(wfPlan, wfRan', wfForeign', wfApproved', s, r)
  <2>1. ASSUME NEW out \in {"ok", "failed", "cancelled"}, wfDrv' = ExitWith(d, s, out),
               out = "ok" => wfRan' = effect
        PROVE  \E r \in StepStates : wfDrv' = Update(d, s, r) /\ StepOK(wfPlan, wfRan', wfForeign', wfApproved', s, r)
    <3> DEFINE r == [me EXCEPT !.pc = "exit", !.out = out]
    <3>0. out \in Outs
      BY <2>1, Zenon DEF Outs
    <3>1. r \in StepStates /\ r.pc = "exit" /\ r.out = out /\ r.pos = me.pos
      BY <1>1, <3>0, Exited, Zenon
    <3>2. wfDrv' = Update(d, s, r)
      BY <2>1, Zenon DEF ExitWith
    <3> HIDE DEF r
    <3>3. StepOK(wfPlan, wfRan', wfForeign', wfApproved', s, r)
      BY <1>4, <1>6, <2>1, <3>1, ExitOK, Zenon
    <3> QED
      BY <3>1, <3>2, <3>3, Zenon
  <2>2. CASE wfRan' = effect /\ Key[s] # NoKey /\ wfDrv' = MoveTo(d, s, "put")
    <3> DEFINE r == [me EXCEPT !.pc = "put"]
    <3>1. r \in StepStates /\ r.pc = "put" /\ r.pos = me.pos
      BY <1>1, Moved, Zenon DEF Pcs
    <3>2. wfDrv' = Update(d, s, r)
      BY <2>2, Zenon DEF MoveTo
    <3> HIDE DEF r
    <3>3. StepOK(wfPlan, wfRan', wfForeign', wfApproved', s, r)
      BY <1>1, <1>2, <1>4, <1>6, <2>2, <3>1, Zenon DEF StepOK, Key
    <3> QED
      BY <3>1, <3>2, <3>3, Zenon
  <2>3. CASE MayTryAgain(tries) /\ wfDrv' = Update(d, s, [me EXCEPT !.pos = tries])
    <3> DEFINE r == [me EXCEPT !.pos = tries]
    <3>0. tries \in Nat
      <4>1. me.pos \in Nat
        BY <1>1, Zenon DEF StepStates
      <4> QED
        BY <4>1
    <3>a. tries < wfPlan.attempts
      BY <2>3, Zenon DEF MayTryAgain, MaxAttempts
    <3>b. wfDrv' = Update(d, s, r)
      BY <2>3, Zenon
    <3> HIDE DEF tries
    <3>1. r \in StepStates /\ r.pc = "call" /\ r.pos = tries
      BY <1>1, <3>0, Zenon DEF StepStates
    <3> HIDE DEF r
    <3>3. StepOK(wfPlan, wfRan', wfForeign', wfApproved', s, r)
      BY <1>2, <3>a, <3>1, Zenon DEF StepOK
    <3> QED
      BY <3>1, <3>b, <3>3, Zenon
  <2>4. CASE wfRan' = effect /\ Key[s] = NoKey /\ wfDrv' = ExitWith(d, s, "ok")
    BY <2>1, <2>4, Zenon
  <2>5. CASE wfDrv' = ExitWith(d, s, "cancelled")
    BY <2>1, <2>5, Zenon
  <2>6. CASE wfDrv' = ExitWith(d, s, "failed")
    BY <2>1, <2>6, Zenon
  <2> QED
    BY <1>7, <2>2, <2>3, <2>4, <2>5, <2>6, Zenon
<1>9. /\ wfDrv' \in [Drivers -> DriverStates] /\ DriversOK(wfPlan', wfRan', wfForeign', wfApproved', wfDrv')
      /\ GateHasWaiter' /\ \A e \in Drivers : wfDrv'[e].phase = wfDrv[e].phase
  BY <1>1, <1>5, <1>8, LeafStep, Zenon
<1>10. DrivenOrSettled' /\ Fresh'
  BY <1>1, <1>9, StillDriven, Zenon
<1>11. Stored'
  BY <1>1, <1>5, StillStored, Zenon
<1>12. Behind(wfPlan', wfRan', wfApproved')
  BY <1>1, <1>5, EffectBehind, Zenon
<1> QED
  BY <1>1, <1>9, <1>10, <1>11, <1>12, WorkflowFacts, Pieces, Zenon

(* A key is stored after a call under it.                                  *)
LEMMA PutKeyStep ==
    ASSUME WorkflowInv, NEW d \in Drivers, NEW s \in Steps, PutKey(d, s)
    PROVE  WorkflowInv'
<1> DEFINE me == wfDrv[d].at[s]
           r == [me EXCEPT !.pc = "exit", !.out = "ok"]
<1>1. /\ AtStep(d, s, "put") /\ me.pc = "put" /\ me \in StepStates /\ wfPlan \in Plans
      /\ UNCHANGED <<wfPlan, wfUp, wfStatus, wfCurrent, wfRows, wfStale, wfGate, wfTracked>>
      /\ wfRan' = wfRan /\ wfForeign' = wfForeign /\ wfApproved' = wfApproved
      /\ wfCached' = wfCached \cup {wfPlan.key[s]} \/ wfCached' = wfCached
  BY WorkflowFacts, Zenon DEF PutKey, AtStep, wfDisk, wfHistory, Key
<1>2. /\ StepOK(wfPlan, wfRan, wfForeign, wfApproved, s, me)
      /\ wfPlan.kind[s] = "tool" /\ wfPlan.key[s] # NoKey
      /\ Effect(wfPlan, wfRan, wfForeign, wfApproved, s)
  BY <1>1, Knows, Zenon DEF StepOK
<1>3. r \in StepStates /\ r.pc = "exit" /\ r.out = "ok" /\ r.pos = me.pos
  BY <1>1, Exited, Zenon DEF Outs
<1>4. wfDrv' = Update(d, s, r)
  BY Zenon DEF PutKey, ExitWith
<1> HIDE DEF r
<1>5. StepOK(wfPlan, wfRan', wfForeign', wfApproved', s, r)
  BY <1>1, <1>2, <1>3, ExitOK, Zenon
<1>6. /\ wfDrv' \in [Drivers -> DriverStates] /\ DriversOK(wfPlan', wfRan', wfForeign', wfApproved', wfDrv')
      /\ GateHasWaiter' /\ \A e \in Drivers : wfDrv'[e].phase = wfDrv[e].phase
  BY <1>1, <1>3, <1>4, <1>5, LeafStep, Zenon
<1>7. DrivenOrSettled' /\ Fresh'
  BY <1>1, <1>6, StillDriven, Zenon
<1>8. wfCached' \subseteq Keys
  <2>1. wfPlan.key[s] \in Keys
    BY <1>1, <1>2, PlanFacts, Zenon
  <2> QED
    BY <1>1, <2>1, WorkflowFacts, Zenon
<1>9. Stored'
  <2>1. ASSUME NEW x \in Steps, Recorded(wfPlan, wfRows', wfCached', x),
               ~Recorded(wfPlan, wfRows, wfCached, x)
        PROVE  Effect(wfPlan, wfRan', wfForeign', wfApproved', x)
    <3>1. wfPlan.kind[x] = "tool" /\ wfPlan.key[x] = wfPlan.key[s]
      BY <1>1, <2>1, Zenon DEF Recorded
    <3> QED
      BY <1>1, <1>2, <3>1, SameKey, Zenon
  <2> QED
    BY <1>1, <2>1, StillStored, Zenon
<1>10. Behind(wfPlan', wfRan', wfApproved')
  BY <1>1, StillBehind, Zenon
<1> QED
  BY <1>1, <1>6, <1>7, <1>8, <1>9, <1>10, WorkflowFacts, Pieces, Zenon

(* A key expires.                                                          *)
LEMMA ExpireKeyStep ==
    ASSUME WorkflowInv, NEW k \in Keys, ExpireKey(k)
    PROVE  WorkflowInv'
<1>1. /\ UNCHANGED <<wfPlan, wfUp, wfStatus, wfCurrent, wfRows, wfStale, wfDrv, wfGate, wfTracked>>
      /\ wfRan' = wfRan /\ wfForeign' = wfForeign /\ wfApproved' = wfApproved
      /\ wfCached' \subseteq wfCached
  BY Zenon DEF ExpireKey, wfDisk, wfHistory
<1>2. DrivenOrSettled' /\ Fresh'
  BY <1>1, StillDriven, Zenon
<1>3. Stored'
  BY <1>1, StillStored, Zenon DEF Recorded
<1>4. Behind(wfPlan', wfRan', wfApproved')
  BY <1>1, StillBehind, Zenon
<1>5. GateHasWaiter'
  BY <1>1, StillWaits, Zenon
<1>6. DriversOK(wfPlan', wfRan', wfForeign', wfApproved', wfDrv')
  BY <1>1, Zenon DEF WorkflowInv
<1>7. wfCached' \subseteq Keys
  BY <1>1, WorkflowFacts, Zenon
<1> QED
  BY <1>1, <1>2, <1>3, <1>4, <1>5, <1>6, <1>7, WorkflowFacts, Pieces, Zenon

(* Another workflow stores a result under a key of global scope.           *)
LEMMA OtherPutStep ==
    ASSUME WorkflowInv, NEW k \in Keys, OtherPut(k)
    PROVE  WorkflowInv'
<1>1. /\ UNCHANGED <<wfPlan, wfUp, wfStatus, wfCurrent, wfRows, wfStale, wfDrv, wfGate, wfTracked>>
      /\ wfRan' = wfRan /\ wfForeign' = wfForeign \cup {k} /\ wfApproved' = wfApproved
      /\ wfCached' = wfCached \cup {k}
  BY Zenon DEF OtherPut, wfDisk
<1>2. DrivenOrSettled' /\ Fresh'
  BY <1>1, StillDriven, Zenon
<1>3. Stored'
  <2>1. ASSUME NEW x \in Steps, Recorded(wfPlan, wfRows', wfCached', x),
               ~Recorded(wfPlan, wfRows, wfCached, x)
        PROVE  Effect(wfPlan, wfRan', wfForeign', wfApproved', x)
    <3>1. wfPlan.kind[x] = "tool" /\ wfPlan.key[x] = k /\ k # NoKey
      BY <1>1, <2>1, WorkflowAssumption, Zenon DEF Recorded
    <3>2. KeyUsed(wfPlan, wfRan', wfForeign', x)
      BY <1>1, <3>1, Zenon DEF KeyUsed
    <3> QED
      BY <3>1, <3>2, Zenon DEF Effect
  <2> QED
    BY <1>1, <2>1, StillStored, Zenon
<1>4. Behind(wfPlan', wfRan', wfApproved')
  BY <1>1, StillBehind, Zenon
<1>5. GateHasWaiter'
  BY <1>1, StillWaits, Zenon
<1>6. DriversOK(wfPlan', wfRan', wfForeign', wfApproved', wfDrv')
  BY <1>1, EffectsStay, Zenon DEF WorkflowInv
<1>7. wfCached' \subseteq Keys
  BY <1>1, WorkflowFacts, Zenon
<1> QED
  BY <1>1, <1>2, <1>3, <1>4, <1>5, <1>6, <1>7, WorkflowFacts, Pieces, Zenon

-----------------------------------------------------------------------------
(* run_approve and the gate.                                               *)

\* The drivers once the sender registered for s is dropped.
DroppedFrom(s, mid) ==
    /\ mid \in [Drivers -> DriverStates]
    /\ DriversOK(wfPlan, wfRan, wfForeign, wfApproved, mid)
    /\ \A e \in Drivers : mid[e].phase = wfDrv[e].phase
    /\ \A e \in Drivers, t \in Steps : t # s => mid[e].at[t] = wfDrv[e].at[t]
    /\ \A e \in Drivers : \/ mid[e].at[s].pc = wfDrv[e].at[s].pc
                          \/ wfDrv[e].at[s].pc = "wait" /\ mid[e].at[s].pc = "no"

(* A waiter whose sender is dropped reads "no".                            *)
LEMMA SenderDropped ==
    ASSUME WorkflowInv, NEW s \in Steps
    PROVE  DroppedFrom(s, DropSender(wfDrv, s))
<1> DEFINE mid == DropSender(wfDrv, s)
           g == wfGate[s]
           r == [wfDrv[g].at[s] EXCEPT !.pc = "no"]
<1>0. wfDrv \in [Drivers -> DriverStates] /\ wfPlan \in Plans
      /\ DriversOK(wfPlan, wfRan, wfForeign, wfApproved, wfDrv)
  BY WorkflowFacts, Zenon DEF WorkflowInv
<1>1. CASE ~(g # NoDriver /\ wfDrv[g].at[s].pc = "wait")
  <2>1. mid = wfDrv
    BY <1>1, Zenon DEF DropSender
  <2> HIDE DEF mid
  <2>a. DroppedFrom(s, wfDrv)
    BY <1>0, Zenon DEF DroppedFrom
  <2>2. DroppedFrom(s, mid)
    BY <2>a, <2>1, Zenon
  <2> QED
    BY <2>2, Zenon DEF mid
<1>2. CASE g # NoDriver /\ wfDrv[g].at[s].pc = "wait"
  <2>1. mid = Changed(wfDrv, g, s, r)
    BY <1>2, Zenon DEF DropSender, Changed
  <2>2. g \in Drivers
    BY <1>2, WorkflowFacts, Zenon
  <2>3. wfDrv[g].phase = "run"
    BY <1>2, Zenon DEF WorkflowInv, GateHasWaiter, AtStep, Driving
  <2>4. r \in StepStates /\ r.pc = "no" /\ r.pos = wfDrv[g].at[s].pos
    <3>1. wfDrv[g].at[s] \in StepStates
      BY <2>2, WorkflowFacts, Zenon
    <3> QED
      BY <3>1, Moved, Zenon DEF Pcs
  <2> HIDE DEF mid, r, g
  <2>5. StepOK(wfPlan, wfRan, wfForeign, wfApproved, s, wfDrv[g].at[s])
    BY <2>2, Knows, Zenon
  <2>6. StepOK(wfPlan, wfRan, wfForeign, wfApproved, s, r)
    BY <1>2, <2>4, <2>5, Zenon DEF StepOK
  <2>7. s # Root
    BY <1>2, <2>2, <2>3, RootStands, Zenon
  <2>8. Active(wfDrv[g].at[s]) /\ wfDrv[g].at[s].pc # "kids"
    BY <1>2, Zenon DEF Active
  <2>9. DriversOK(wfPlan, wfRan, wfForeign, wfApproved, mid)
    BY <1>0, <2>1, <2>2, <2>3, <2>4, <2>6, <2>7, <2>8, LeafChanges, Zenon
  <2>10. UpdateOf(wfDrv, mid, g, s, r)
    BY <1>0, <2>1, <2>2, <2>4, UpdateFacts, Zenon
  <2>11. /\ mid \in [Drivers -> DriverStates]
         /\ \A e \in Drivers : mid[e].phase = wfDrv[e].phase
         /\ \A e \in Drivers, t \in Steps : e # g \/ t # s => mid[e].at[t] = wfDrv[e].at[t]
         /\ mid[g].at[s] = r
    BY <2>10, Zenon DEF UpdateOf
  <2>12. \A e \in Drivers : \/ mid[e].at[s].pc = wfDrv[e].at[s].pc
                            \/ wfDrv[e].at[s].pc = "wait" /\ mid[e].at[s].pc = "no"
    <3>1. \A e \in Drivers : e # g => mid[e].at[s].pc = wfDrv[e].at[s].pc
      BY <2>11, Zenon
    <3>2. wfDrv[g].at[s].pc = "wait" /\ mid[g].at[s].pc = "no"
      BY <1>2, <2>4, <2>11, Zenon
    <3> QED
      BY <3>1, <3>2, Zenon
  <2>13. DroppedFrom(s, mid)
    BY <2>9, <2>11, <2>12, Zenon DEF DroppedFrom
  <2> QED
    BY <2>13, Zenon DEF mid
<1> QED
  BY <1>1, <1>2, Zenon

(* The other gates keep their waiters when only step s moves.              *)
LEMMA OtherGates ==
    ASSUME WorkflowInv, NEW s \in Steps, UNCHANGED wfUp,
           \A e \in Drivers : wfDrv'[e].phase = wfDrv[e].phase,
           \A e \in Drivers, t \in Steps : t # s => wfDrv'[e].at[t] = wfDrv[e].at[t],
           NEW g \in Drivers \cup {NoDriver}, wfGate' = [wfGate EXCEPT ![s] = g],
           g # NoDriver => wfUp /\ wfDrv[g].phase = "run" /\ wfDrv'[g].at[s].pc = "wait"
    PROVE  GateHasWaiter' /\ wfGate' \in [Steps -> Drivers \cup {NoDriver}]
<1>0. wfGate \in [Steps -> Drivers \cup {NoDriver}]
  BY WorkflowFacts, Zenon
<1>1. /\ wfGate' \in [Steps -> Drivers \cup {NoDriver}] /\ wfGate'[s] = g
      /\ \A t \in Steps : t # s => wfGate'[t] = wfGate[t]
  BY <1>0, Zenon
<1>2. ASSUME NEW t \in Steps, wfGate'[t] # NoDriver
      PROVE  wfUp' /\ wfDrv'[wfGate'[t]].phase = "run" /\ wfDrv'[wfGate'[t]].at[t].pc = "wait"
  <2>0. wfGate'[t] \in Drivers
    BY <1>1, <1>2, Zenon
  <2>1. CASE t = s
    BY <1>1, <1>2, <2>0, <2>1, Zenon
  <2>2. CASE t # s
    <3>1. wfGate'[t] = wfGate[t]
      BY <1>1, <2>2, Zenon
    <3>2. AtStep(wfGate[t], t, "wait")
      BY <1>2, <3>1, Zenon DEF WorkflowInv, GateHasWaiter
    <3>3. wfUp /\ wfDrv[wfGate[t]].phase = "run" /\ wfDrv[wfGate[t]].at[t].pc = "wait"
      BY <3>2, Zenon DEF AtStep, Driving
    <3> QED
      BY <2>0, <2>2, <3>1, <3>3, ZenonT(60)
  <2> QED
    BY <2>1, <2>2, Zenon
<1>3. GateHasWaiter'
  BY <1>2, Zenon DEF GateHasWaiter, AtStep, Driving
<1> QED
  BY <1>1, <1>3, Zenon

\* One machine moves while the gate of its step is rewritten.
GateMove(d, s, r, mid) ==
    /\ AtStep(d, s, wfDrv[d].at[s].pc) /\ wfDrv[d].at[s].pc \in {"register", "wait", "yes", "no"}
    /\ DroppedFrom(s, mid)
    /\ r \in StepStates /\ StepOK(wfPlan, wfRan, wfForeign, wfApproved', s, r)
    /\ wfDrv' = Changed(mid, d, s, r)
    /\ UNCHANGED <<wfPlan, wfUp, wfStatus, wfCurrent, wfRows, wfStale, wfCached, wfTracked, wfRan, wfForeign>>
    /\ wfApproved \subseteq wfApproved'

(* Such a move keeps the invariant if whoever is registered afterwards     *)
(* waits.                                                                  *)
LEMMA GateMoves ==
    ASSUME WorkflowInv, NEW d \in Drivers, NEW s \in Steps, NEW r, NEW mid, GateMove(d, s, r, mid),
           NEW g \in Drivers \cup {NoDriver}, wfGate' = [wfGate EXCEPT ![s] = g],
           g # NoDriver => g = d /\ r.pc = "wait"
    PROVE  WorkflowInv'
<1>1. /\ Driving(d) /\ wfDrv[d].phase = "run" /\ wfUp
      /\ wfDrv[d].at[s].pc \in {"register", "wait", "yes", "no"}
      /\ mid \in [Drivers -> DriverStates] /\ r \in StepStates /\ wfDrv' = Changed(mid, d, s, r)
      /\ UNCHANGED <<wfPlan, wfUp, wfStatus, wfCurrent, wfRows, wfStale, wfCached, wfTracked, wfRan, wfForeign>>
      /\ wfApproved \subseteq wfApproved' /\ wfPlan \in Plans
      /\ StepOK(wfPlan, wfRan, wfForeign, wfApproved', s, r)
  BY WorkflowFacts, Zenon DEF GateMove, DroppedFrom, AtStep, Driving
<1>2. /\ \A e \in Drivers : mid[e].phase = wfDrv[e].phase
      /\ \A e \in Drivers, t \in Steps : t # s => mid[e].at[t] = wfDrv[e].at[t]
      /\ mid[d].at[s].pc \in {"register", "wait", "yes", "no"}
      /\ DriversOK(wfPlan, wfRan, wfForeign, wfApproved, mid)
  BY <1>1, Zenon DEF GateMove, DroppedFrom
<1>3. s # Root
  BY <1>1, RootStands, Zenon
<1>4. Active(mid[d].at[s]) /\ mid[d].at[s].pc # "kids" /\ mid[d].phase = "run"
  BY <1>1, <1>2, Zenon DEF Active
<1>5. DriversOK(wfPlan, wfRan, wfForeign, wfApproved', mid)
  BY <1>1, <1>2, EffectsStay, Zenon
<1>6. DriversOK(wfPlan, wfRan, wfForeign, wfApproved', Changed(mid, d, s, r))
  BY <1>1, <1>3, <1>4, <1>5, LeafChanges, Zenon
<1>7. UpdateOf(mid, wfDrv', d, s, r)
  BY <1>1, UpdateFacts, Zenon
<1>8. /\ wfDrv' \in [Drivers -> DriverStates]
      /\ \A e \in Drivers : wfDrv'[e].phase = wfDrv[e].phase
      /\ \A e \in Drivers, t \in Steps : t # s => wfDrv'[e].at[t] = wfDrv[e].at[t]
      /\ wfDrv'[d].at[s] = r
  <2>1. /\ wfDrv' \in [Drivers -> DriverStates]
        /\ \A e \in Drivers : wfDrv'[e].phase = mid[e].phase
        /\ \A e \in Drivers, t \in Steps : e # d \/ t # s => wfDrv'[e].at[t] = mid[e].at[t]
        /\ wfDrv'[d].at[s] = r
    BY <1>7, Zenon DEF UpdateOf
  <2>2. \A e \in Drivers : wfDrv'[e].phase = wfDrv[e].phase
    BY <1>2, <2>1, Zenon
  <2>3. ASSUME NEW e \in Drivers, NEW t \in Steps, t # s
        PROVE  wfDrv'[e].at[t] = wfDrv[e].at[t]
    BY <1>2, <2>1, <2>3, ZenonT(60)
  <2> QED
    BY <2>1, <2>2, <2>3, Zenon
<1>9. GateHasWaiter' /\ wfGate' \in [Steps -> Drivers \cup {NoDriver}]
  BY <1>1, <1>8, OtherGates, Zenon
<1>10. DrivenOrSettled' /\ Fresh'
  BY <1>1, <1>8, StillDriven, Zenon
<1>11. Stored'
  BY <1>1, StillStored, Zenon
<1>12. Behind(wfPlan', wfRan', wfApproved')
  BY <1>1, StillBehind, Zenon
<1>13. DriversOK(wfPlan', wfRan', wfForeign', wfApproved', wfDrv')
  BY <1>1, <1>6, Zenon
<1> QED
  BY <1>1, <1>8, <1>9, <1>10, <1>11, <1>12, <1>13, WorkflowFacts, Pieces, Zenon

(* A new waiter takes the entry over; the one it replaces reads "no".      *)
LEMMA WaitHandleStep ==
    ASSUME WorkflowInv, NEW d \in Drivers, NEW s \in Steps, WaitHandle(d, s)
    PROVE  WorkflowInv'
<1> DEFINE mid == DropSender(wfDrv, s)
           r == [mid[d].at[s] EXCEPT !.pc = "wait"]
<1>1. /\ AtStep(d, s, wfDrv[d].at[s].pc) /\ wfDrv[d].at[s].pc = "register"
      /\ UNCHANGED <<wfPlan, wfUp, wfStatus, wfCurrent, wfRows, wfStale, wfCached, wfTracked, wfRan, wfForeign, wfApproved>>
      /\ wfGate' = [wfGate EXCEPT ![s] = d]
  BY Zenon DEF WaitHandle, AtStep, wfDisk, wfHistory
<1>2. wfDrv' = Changed(mid, d, s, r)
  BY Zenon DEF WaitHandle, Changed
<1>3. DroppedFrom(s, mid)
  BY SenderDropped, Zenon
<1> HIDE DEF mid
<1>4. mid[d].at[s] \in StepStates /\ StepOK(wfPlan, wfRan, wfForeign, wfApproved, s, mid[d].at[s])
      /\ mid[d].at[s].pc = "register"
  BY <1>1, <1>3, Zenon DEF DroppedFrom, DriversOK, DriverOK, DriverStates
<1>5. r \in StepStates /\ r.pc = "wait" /\ r.pos = mid[d].at[s].pos
  BY <1>4, Moved, Zenon DEF Pcs
<1> HIDE DEF r
<1>6. StepOK(wfPlan, wfRan, wfForeign, wfApproved', s, r)
  BY <1>1, <1>4, <1>5, Zenon DEF StepOK
<1>7. GateMove(d, s, r, mid)
  BY <1>1, <1>2, <1>3, <1>5, <1>6, Zenon DEF GateMove
<1> QED
  BY <1>1, <1>5, <1>7, GateMoves, Zenon

(* A person answers: the waiter that is registered hears it.               *)
LEMMA ResolveStep ==
    ASSUME WorkflowInv, NEW s \in Steps, NEW answer \in {"yes", "no"}, Resolve(s, answer)
    PROVE  WorkflowInv'
<1> DEFINE d == wfGate[s]
           r == [wfDrv[d].at[s] EXCEPT !.pc = answer]
<1>1. /\ wfUp /\ d # NoDriver
      /\ UNCHANGED <<wfPlan, wfUp, wfStatus, wfCurrent, wfRows, wfStale, wfCached, wfTracked, wfRan, wfForeign>>
      /\ wfApproved' = IF answer = "yes" THEN wfApproved \cup {s} ELSE wfApproved
      /\ wfGate' = [wfGate EXCEPT ![s] = NoDriver]
  BY Zenon DEF Resolve, wfDisk
<1>2. wfDrv' = Changed(wfDrv, d, s, r)
  BY Zenon DEF Resolve, Changed, MoveTo, Update
<1>3. d \in Drivers /\ AtStep(d, s, "wait")
  BY <1>1, WorkflowFacts, Zenon DEF WorkflowInv, GateHasWaiter
<1> HIDE DEF d
<1>4. /\ wfDrv[d].at[s].pc = "wait" /\ AtStep(d, s, wfDrv[d].at[s].pc)
      /\ wfDrv[d].at[s] \in StepStates
      /\ StepOK(wfPlan, wfRan, wfForeign, wfApproved, s, wfDrv[d].at[s])
  BY <1>3, Knows, WorkflowFacts, Zenon DEF AtStep
<1>5. r \in StepStates /\ r.pc = answer /\ r.pos = wfDrv[d].at[s].pos
  <2>1. answer \in Pcs
    BY Zenon DEF Pcs
  <2> QED
    BY <1>4, <2>1, Moved, Zenon
<1> HIDE DEF r
<1>6. /\ wfApproved \subseteq wfApproved' /\ (answer = "yes" => s \in wfApproved')
  BY <1>1, Zenon
<1>7. StepOK(wfPlan, wfRan, wfForeign, wfApproved', s, r)
  BY <1>4, <1>5, <1>6, Zenon DEF StepOK
<1>8. DroppedFrom(s, wfDrv)
  BY WorkflowFacts, Zenon DEF DroppedFrom, WorkflowInv
<1>9. GateMove(d, s, r, wfDrv)
  BY <1>1, <1>2, <1>4, <1>5, <1>6, <1>7, <1>8, Zenon DEF GateMove
<1> QED
  BY <1>1, <1>3, <1>9, GateMoves, Zenon

(* The wait ends by cancellation, by its timer or by the answer.           *)
LEMMA UnblockStep ==
    ASSUME WorkflowInv, NEW d \in Drivers, NEW s \in Steps, Unblock(d, s)
    PROVE  WorkflowInv'
<1> DEFINE me == wfDrv[d].at[s]
           mid == DropSender(wfDrv, s)
           late == IF wfDrv[d].cancelled THEN "cancelled" ELSE "failed"
           out == IF me.pc = "yes" THEN "ok" ELSE "failed"
<1>1. /\ AtStep(d, s, me.pc) /\ me.pc \in {"wait", "yes", "no"}
      /\ UNCHANGED <<wfPlan, wfUp, wfDisk, wfCached, wfTracked, wfHistory>>
      /\ UNCHANGED <<wfPlan, wfUp, wfStatus, wfCurrent, wfRows, wfStale, wfCached, wfTracked, wfRan, wfForeign, wfApproved>>
      /\ me \in StepStates
  BY WorkflowFacts, Zenon DEF Unblock, AtStep, wfDisk, wfHistory
<1>2. CASE /\ wfGate' = [wfGate EXCEPT ![s] = NoDriver]
           /\ wfDrv' = [mid EXCEPT ![d].at[s] = [@ EXCEPT !.pc = "exit", !.out = late]]
  <2> DEFINE r == [mid[d].at[s] EXCEPT !.pc = "exit", !.out = late]
  <2>1. wfDrv' = Changed(mid, d, s, r)
    BY <1>2, Zenon DEF Changed
  <2>2. DroppedFrom(s, mid)
    BY SenderDropped, Zenon
  <2> HIDE DEF mid
  <2>3. mid[d].at[s] \in StepStates /\ StepOK(wfPlan, wfRan, wfForeign, wfApproved, s, mid[d].at[s])
    BY <2>2, Zenon DEF DroppedFrom, DriversOK, DriverOK, DriverStates
  <2>4. late \in Outs /\ late \in {"failed", "cancelled"}
    BY Zenon DEF Outs
  <2> HIDE DEF late
  <2>5. r \in StepStates /\ r.pc = "exit" /\ r.out = late /\ r.pos = mid[d].at[s].pos
    BY <2>3, <2>4, Exited, Zenon
  <2> HIDE DEF r
  <2>6. StepOK(wfPlan, wfRan, wfForeign, wfApproved, s, r)
    BY <2>3, <2>4, <2>5, ExitOK, Zenon
  <2>7. GateMove(d, s, r, mid)
    BY <1>1, <2>1, <2>2, <2>5, <2>6, Zenon DEF GateMove
  <2> QED
    BY <1>2, <2>7, GateMoves, Zenon
<1>3. CASE /\ me.pc # "wait" /\ wfDrv' = ExitWith(d, s, out) /\ UNCHANGED wfGate
  <2> DEFINE r == [me EXCEPT !.pc = "exit", !.out = out]
  <2>1. wfDrv' = Update(d, s, r)
    BY <1>3, Zenon DEF ExitWith
  <2>2. out \in Outs /\ out \in {"ok", "failed"} /\ (out = "ok" => me.pc = "yes")
    BY Zenon DEF Outs
  <2> HIDE DEF out
  <2>3. r \in StepStates /\ r.pc = "exit" /\ r.out = out /\ r.pos = me.pos
    BY <1>1, <2>2, Exited, Zenon
  <2> HIDE DEF r
  <2>4. StepOK(wfPlan, wfRan, wfForeign, wfApproved, s, me)
    BY Knows, Zenon
  <2>5. out = "ok" => Effect(wfPlan, wfRan, wfForeign, wfApproved, s)
    BY <2>2, <2>4, Zenon DEF StepOK, Effect
  <2>6. StepOK(wfPlan, wfRan', wfForeign', wfApproved', s, r)
    BY <1>1, <2>2, <2>3, <2>4, <2>5, ExitOK, Zenon
  <2>7. /\ wfDrv' \in [Drivers -> DriverStates] /\ DriversOK(wfPlan', wfRan', wfForeign', wfApproved', wfDrv')
        /\ GateHasWaiter' /\ \A e \in Drivers : wfDrv'[e].phase = wfDrv[e].phase
    BY <1>1, <1>3, <2>1, <2>3, <2>6, LeafStep, Zenon
  <2> QED
    BY <1>1, <1>3, <2>7, InDriver, Zenon
<1> QED
  BY <1>2, <1>3, Zenon DEF Unblock

-----------------------------------------------------------------------------
(* Composite steps.                                                        *)

(* A driver rearranges its tree.                                           *)
LEMMA TreeStep ==
    ASSUME WorkflowInv, NEW d \in Drivers, wfDrv' \in [Drivers -> DriverStates],
           \A e \in Drivers : e # d => wfDrv'[e] = wfDrv[e],
           wfDrv'[d].phase = wfDrv[d].phase, wfDrv'[d].preloaded = wfDrv[d].preloaded,
           \A t \in Steps : StepOK(wfPlan, wfRan, wfForeign, wfApproved, t, wfDrv'[d].at[t]),
           TreeOK(wfPlan, wfDrv'[d].at),
           \A t \in Steps : wfDrv[d].at[t].pc = "wait" => wfDrv'[d].at[t].pc = "wait",
           UNCHANGED <<wfPlan, wfUp, wfDisk, wfGate, wfCached, wfTracked, wfHistory>>
    PROVE  WorkflowInv'
<1>0. UNCHANGED <<wfPlan, wfUp, wfGate, wfRan, wfForeign, wfApproved>>
  BY Zenon DEF wfHistory
<1>1. DriverOK(wfPlan, wfRan, wfForeign, wfApproved, wfDrv'[d])
  <2>1. \A x \in wfDrv'[d].preloaded : Effect(wfPlan, wfRan, wfForeign, wfApproved, x)
    BY Zenon DEF WorkflowInv, DriversOK, DriverOK
  <2> QED
    BY <2>1, Zenon DEF DriverOK
<1>2. ASSUME NEW e \in Drivers PROVE DriverOK(wfPlan, wfRan, wfForeign, wfApproved, wfDrv'[e])
  <2>1. CASE e = d
    BY <1>1, <2>1, Zenon
  <2>2. CASE e # d
    BY <2>2, Zenon DEF WorkflowInv, DriversOK
  <2> QED
    BY <2>1, <2>2, Zenon
<1>3. DriversOK(wfPlan', wfRan', wfForeign', wfApproved', wfDrv')
  <2>1. DriversOK(wfPlan, wfRan, wfForeign, wfApproved, wfDrv')
    BY <1>2, Zenon DEF DriversOK
  <2> QED
    BY <1>0, <2>1, Zenon
<1>4. \A e \in Drivers : wfDrv'[e].phase = wfDrv[e].phase
  BY Zenon
<1>5. \A e \in Drivers, t \in Steps : wfDrv[e].at[t].pc = "wait" => wfDrv'[e].at[t].pc = "wait"
  BY Zenon
<1>6. GateHasWaiter'
  BY <1>0, <1>4, <1>5, StillWaits, Zenon
<1> QED
  BY <1>3, <1>4, <1>6, InDriver, Zenon

\* A composite step none of whose children is at work, and nothing outside the
\* drivers changes.
BetweenChildren(d, s) ==
    /\ AtStep(d, s, "kids")
    /\ \A i \in 1..Len(wfPlan.children[s]) : ~Active(wfDrv[d].at[wfPlan.children[s][i]])
    /\ UNCHANGED <<wfPlan, wfUp, wfDisk, wfGate, wfCached, wfTracked, wfHistory>>

(* What such a step knows.                                                 *)
LEMMA BetweenFacts ==
    ASSUME WorkflowInv, NEW d \in Drivers, NEW s \in Steps, BetweenChildren(d, s)
    PROVE  /\ wfPlan \in Plans /\ wfDrv \in [Drivers -> DriverStates]
           /\ wfDrv[d].phase = "run" /\ wfDrv[d].at[s].pc = "kids"
           /\ wfDrv[d].at \in [Steps -> StepStates] /\ wfDrv[d].at[s] \in StepStates
           /\ TreeOK(wfPlan, wfDrv[d].at)
           /\ \A t \in Steps : StepOK(wfPlan, wfRan, wfForeign, wfApproved, t, wfDrv[d].at[t])
           /\ Effect(wfPlan, wfRan, wfForeign, wfApproved, s)
<1>1. wfDrv[d].phase = "run" /\ wfDrv[d].at[s].pc = "kids"
  BY Zenon DEF BetweenChildren, AtStep, Driving
<1>2. \A t \in Steps : StepOK(wfPlan, wfRan, wfForeign, wfApproved, t, wfDrv[d].at[t])
  BY Knows, Zenon
<1>3. Effect(wfPlan, wfRan, wfForeign, wfApproved, s)
  <2>1. StepOK(wfPlan, wfRan, wfForeign, wfApproved, s, wfDrv[d].at[s])
    BY <1>2, Zenon
  <2> QED
    BY <1>1, <2>1, Zenon DEF StepOK, Effect
<1>4. wfDrv[d].at \in [Steps -> StepStates]
  BY WorkflowFacts, Zenon DEF DriverStates
<1>5. TreeOK(wfPlan, wfDrv[d].at)
  BY <1>1, Knows, Zenon
<1> QED
  BY <1>1, <1>2, <1>3, <1>4, <1>5, WorkflowFacts, Zenon

(* A composite step ends.                                                  *)
LEMMA CompositeExits ==
    ASSUME WorkflowInv, NEW d \in Drivers, NEW s \in Steps, BetweenChildren(d, s),
           NEW out \in {"ok", "failed", "cancelled"}, wfDrv' = ExitWith(d, s, out)
    PROVE  WorkflowInv'
<1> DEFINE me == wfDrv[d].at[s]
           r == [me EXCEPT !.pc = "exit", !.out = out]
<1>1. /\ wfPlan \in Plans /\ wfDrv \in [Drivers -> DriverStates]
      /\ wfDrv[d].phase = "run" /\ me.pc = "kids"
      /\ wfDrv[d].at \in [Steps -> StepStates] /\ me \in StepStates
      /\ TreeOK(wfPlan, wfDrv[d].at)
      /\ \A t \in Steps : StepOK(wfPlan, wfRan, wfForeign, wfApproved, t, wfDrv[d].at[t])
      /\ Effect(wfPlan, wfRan, wfForeign, wfApproved, s)
  BY BetweenFacts, Zenon
<1>2. wfDrv' = Changed(wfDrv, d, s, r)
  BY Zenon DEF ExitWith, Update, Changed
<1>3. r \in StepStates /\ r.pc = "exit" /\ r.out = out /\ r.pos = me.pos
  <2>1. out \in Outs
    BY Zenon DEF Outs
  <2> QED
    BY <1>1, <2>1, Exited, Zenon
<1> HIDE DEF r
<1>4. UpdateOf(wfDrv, wfDrv', d, s, r)
  BY <1>1, <1>2, <1>3, UpdateFacts, Zenon
<1>5. /\ wfDrv' \in [Drivers -> DriverStates]
      /\ wfDrv'[d].at = [wfDrv[d].at EXCEPT ![s] = r]
      /\ \A e \in Drivers : /\ wfDrv'[e].phase = wfDrv[e].phase
                            /\ wfDrv'[e].preloaded = wfDrv[e].preloaded
                            /\ e # d => wfDrv'[e] = wfDrv[e]
      /\ \A t \in Steps : t # s => wfDrv'[d].at[t] = wfDrv[d].at[t]
      /\ wfDrv'[d].at[s] = r
  BY <1>4, Zenon DEF UpdateOf
<1>6. TreeOK(wfPlan, [wfDrv[d].at EXCEPT ![s] = r])
  BY <1>1, <1>3, ParentEnds, Zenon DEF BetweenChildren
<1>7. TreeOK(wfPlan, wfDrv'[d].at)
  BY <1>5, <1>6, Zenon
<1>8. StepOK(wfPlan, wfRan, wfForeign, wfApproved, s, r)
  BY <1>1, <1>3, ExitOK, Zenon
<1>9. \A t \in Steps : StepOK(wfPlan, wfRan, wfForeign, wfApproved, t, wfDrv'[d].at[t])
  BY <1>1, <1>5, <1>8, Zenon
<1>10. \A t \in Steps : wfDrv[d].at[t].pc = "wait" => wfDrv'[d].at[t].pc = "wait"
  BY <1>1, <1>5, Zenon
<1> QED
  BY <1>5, <1>7, <1>9, <1>10, TreeStep, Zenon DEF BetweenChildren

(* A composite step starts one child.                                      *)
LEMMA CompositeStarts ==
    ASSUME WorkflowInv, NEW d \in Drivers, NEW s \in Steps, BetweenChildren(d, s),
           wfPlan.kind[s] # "parallel", NEW i \in 1..Len(wfPlan.children[s]),
           NEW r \in StepStates, r.pc = "kids", r.pos = i,
           StepOK(wfPlan, wfRan, wfForeign, wfApproved, s, r),
           wfDrv' = StartChild(Update(d, s, r), d, wfPlan.children[s][i])
    PROVE  WorkflowInv'
<1> DEFINE me == wfDrv[d].at[s]
           c == wfPlan.children[s][i]
           q == [Resting EXCEPT !.pc = "check"]
           mid == Changed(wfDrv, d, s, r)
<1>1. /\ wfPlan \in Plans /\ wfDrv \in [Drivers -> DriverStates]
      /\ wfDrv[d].phase = "run" /\ me.pc = "kids"
      /\ wfDrv[d].at \in [Steps -> StepStates] /\ me \in StepStates
      /\ TreeOK(wfPlan, wfDrv[d].at)
      /\ \A t \in Steps : StepOK(wfPlan, wfRan, wfForeign, wfApproved, t, wfDrv[d].at[t])
  BY BetweenFacts, Zenon
<1>2. wfDrv' = Changed(mid, d, c, q)
  BY Zenon DEF StartChild, Update, Changed
<1>3. q \in StepStates /\ q.pc = "check" /\ q.pos = 0
  BY Rested, Zenon DEF Resting
<1>4. c \in Steps /\ ~Active(wfDrv[d].at[c])
  BY <1>1, ChildFacts, Zenon DEF BetweenChildren
<1> HIDE DEF q, me
<1>5. c # s /\ TreeOK(wfPlan, [[wfDrv[d].at EXCEPT ![s] = r] EXCEPT ![c] = q])
  BY <1>1, ChildStarts, Zenon DEF BetweenChildren, me
<1> HIDE DEF c
<1>6. UpdateOf(wfDrv, mid, d, s, r)
  BY <1>1, UpdateFacts, Zenon
<1> HIDE DEF mid
<1>7. /\ mid \in [Drivers -> DriverStates]
      /\ mid[d].at = [wfDrv[d].at EXCEPT ![s] = r]
  BY <1>6, Zenon DEF UpdateOf
<1>a. (\A t \in Steps : t # s => mid[d].at[t] = wfDrv[d].at[t]) /\ mid[d].at[s] = r
  BY <1>6, Zenon DEF UpdateOf
<1>b. /\ mid[d].phase = wfDrv[d].phase /\ mid[d].preloaded = wfDrv[d].preloaded
      /\ \A e \in Drivers : e # d => mid[e] = wfDrv[e]
  BY <1>6, Zenon DEF UpdateOf
<1>8. UpdateOf(mid, wfDrv', d, c, q)
  <2>1. UpdateOf(mid, Changed(mid, d, c, q), d, c, q)
    BY <1>3, <1>4, <1>7, UpdateFacts, Zenon
  <2> QED
    BY <1>2, <2>1, Zenon
<1>9. /\ wfDrv' \in [Drivers -> DriverStates]
      /\ wfDrv'[d].at = [mid[d].at EXCEPT ![c] = q]
  BY <1>8, Zenon DEF UpdateOf
<1>c. (\A t \in Steps : t # c => wfDrv'[d].at[t] = mid[d].at[t]) /\ wfDrv'[d].at[c] = q
  BY <1>8, Zenon DEF UpdateOf
<1>d. /\ wfDrv'[d].phase = mid[d].phase /\ wfDrv'[d].preloaded = mid[d].preloaded
      /\ \A e \in Drivers : e # d => wfDrv'[e] = mid[e]
  BY <1>8, Zenon DEF UpdateOf
<1>10. TreeOK(wfPlan, wfDrv'[d].at)
  BY <1>5, <1>7, <1>9, Zenon
<1>11. StepOK(wfPlan, wfRan, wfForeign, wfApproved, c, q)
  BY <1>1, <1>3, <1>4, RestedOK, Zenon
<1>12. \A t \in Steps : t # c /\ t # s => wfDrv'[d].at[t] = wfDrv[d].at[t]
  BY <1>a, <1>c, Zenon
<1>13. wfDrv'[d].at[s] = r
  BY <1>5, <1>a, <1>c, Zenon
<1>14. ASSUME NEW t \in Steps PROVE StepOK(wfPlan, wfRan, wfForeign, wfApproved, t, wfDrv'[d].at[t])
  <2>1. CASE t = c
    BY <1>c, <1>11, <2>1, Zenon
  <2>2. CASE t = s
    BY <1>13, <2>2, Zenon
  <2>3. CASE t # c /\ t # s
    BY <1>1, <1>12, <2>3, Zenon
  <2> QED
    BY <2>1, <2>2, <2>3, Zenon
<1>15. \A t \in Steps : wfDrv[d].at[t].pc = "wait" => wfDrv'[d].at[t].pc = "wait"
  BY <1>1, <1>4, <1>12, Zenon DEF Active, me
<1>16. /\ \A e \in Drivers : e # d => wfDrv'[e] = wfDrv[e]
       /\ wfDrv'[d].phase = wfDrv[d].phase /\ wfDrv'[d].preloaded = wfDrv[d].preloaded
  BY <1>b, <1>d, Zenon
<1> QED
  BY <1>9, <1>10, <1>14, <1>15, <1>16, TreeStep, Zenon DEF BetweenChildren

(* Counting from one.                                                      *)
LEMMA Counting ==
    /\ \A n, l \in Nat : n <= l /\ n > 0 => n \in 1..l
    /\ \A n, l \in Nat : n < l => n + 1 \in Nat /\ n + 1 \in 1..l
    /\ \A l \in Nat : \A n \in 1..l : n \in Nat /\ 1 \in 1..l /\ 0 < l
    /\ 1 \in Nat /\ 0 \in Nat /\ 0 + 1 = 1 /\ 1..0 = {}
BY SMTT(60)

(* The place of a composite step: what it has passed took effect.          *)
LEMMA PlaceOK ==
    ASSUME NEW plan \in Plans, NEW ran, NEW foreign, NEW approved, NEW s \in Steps, NEW r,
           plan.kind[s] \notin {"tool", "approve"}, r.pc = "kids", NEW i \in Nat, r.pos = i + 1,
           i < Len(plan.children[s]),
           \A j \in 1..i : Effect(plan, ran, foreign, approved, plan.children[s][j])
    PROVE  StepOK(plan, ran, foreign, approved, s, r)
<1>1. Len(plan.children[s]) \in Nat
  BY ChildFacts, Zenon
<1>2. r.pos <= Len(plan.children[s]) /\ 1..(r.pos - 1) = 1..i
  BY <1>1
<1> QED
  BY <1>2, Zenon DEF StepOK

(* The lists: drive, run_foreach, run_branch.                              *)
LEMMA AdvanceStep ==
    ASSUME WorkflowInv, NEW d \in Drivers, NEW s \in Steps, Advance(d, s)
    PROVE  WorkflowInv'
<1> DEFINE me == wfDrv[d].at[s]
           last == Len(wfPlan.children[s])
           kid(i) == wfPlan.children[s][i]
           child == wfDrv[d].at[kid(me.pos)]
<1>1. /\ AtStep(d, s, "kids") /\ wfPlan.kind[s] # "parallel"
      /\ UNCHANGED <<wfPlan, wfUp, wfDisk, wfGate, wfCached, wfTracked, wfHistory>>
  BY Zenon DEF Advance, Kind
<1>2. /\ wfPlan \in Plans /\ me \in StepStates /\ me.pos \in Nat /\ last \in Nat
      /\ me.pc = "kids" /\ TreeOK(wfPlan, wfDrv[d].at)
      /\ StepOK(wfPlan, wfRan, wfForeign, wfApproved, s, me)
  <2>1. wfPlan \in Plans /\ me \in StepStates
    BY WorkflowFacts, Zenon
  <2>2. me.pos \in Nat
    BY <2>1, Zenon DEF StepStates
  <2>3. last \in Nat
    BY <2>1, ChildFacts, Zenon
  <2>4. me.pc = "kids" /\ wfDrv[d].phase = "run"
    BY <1>1, Zenon DEF AtStep, Driving
  <2>5. TreeOK(wfPlan, wfDrv[d].at) /\ StepOK(wfPlan, wfRan, wfForeign, wfApproved, s, me)
    BY <2>4, Knows, Zenon
  <2> QED
    BY <2>1, <2>2, <2>3, <2>4, <2>5, Zenon
<1>3. /\ wfPlan.kind[s] \notin {"tool", "approve"} /\ me.pos <= last
      /\ \A j \in 1..(me.pos - 1) : Effect(wfPlan, wfRan, wfForeign, wfApproved, kid(j))
  BY <1>1, <1>2, Zenon DEF StepOK
<1>4. /\ \/ me.pos = 0 /\ last > 0
            /\ wfDrv' = StartChild(Update(d, s, [me EXCEPT !.pos = me.pos + 1]), d, kid(1))
         \/ me.pos = 0 /\ \E out \in {"ok", "failed", "cancelled"} : wfDrv' = ExitWith(d, s, out)
         \/ /\ me.pos > 0 /\ child.pc = "done"
            /\ \/ child.out # "ok" /\ wfDrv' = ExitWith(d, s, child.out)
               \/ /\ child.out = "ok" /\ me.pos < last
                  /\ wfDrv' = StartChild(Update(d, s, [me EXCEPT !.pos = me.pos + 1]), d, kid(me.pos + 1))
               \/ /\ child.out = "ok" /\ me.item < Items
                  /\ wfDrv' = StartChild(Update(d, s, [me EXCEPT !.pos = 1, !.item = me.item + 1]), d, kid(1))
               \/ wfDrv' = ExitWith(d, s, "ok")
  BY ZenonT(60) DEF Advance, Children
<1>5. CASE me.pos = 0
  <2>1. BetweenChildren(d, s)
    BY <1>1, <1>2, <1>5, NoChildAtWork, Zenon DEF BetweenChildren
  <2>2. CASE last > 0 /\ wfDrv' = StartChild(Update(d, s, [me EXCEPT !.pos = me.pos + 1]), d, kid(1))
    <3> DEFINE r == [me EXCEPT !.pos = me.pos + 1]
    <3>1. me.pos + 1 = 1 /\ 1 \in Nat /\ 1 \in 1..last /\ 0 < last /\ 0 \in Nat /\ 0 + 1 = 1 /\ 1..0 = {}
      BY <1>2, <1>5, <2>2
    <3>2. r \in StepStates /\ r.pc = "kids" /\ r.pos = 1
      BY <1>2, <3>1, Zenon DEF StepStates
    <3>3. wfDrv' = StartChild(Update(d, s, r), d, kid(1))
      BY <2>2, Zenon
    <3> HIDE DEF r
    <3>4. StepOK(wfPlan, wfRan, wfForeign, wfApproved, s, r)
      BY <1>2, <1>3, <3>1, <3>2, PlaceOK, Zenon
    <3> QED
      BY <1>1, <2>1, <3>1, <3>2, <3>3, <3>4, CompositeStarts, ZenonT(60)
  <2>3. CASE \E out \in {"ok", "failed", "cancelled"} : wfDrv' = ExitWith(d, s, out)
    BY <2>1, <2>3, CompositeExits, Zenon
  <2>4. ~(me.pos > 0)
    BY <1>5
  <2> QED
    BY <1>4, <2>2, <2>3, <2>4, Zenon
<1>6. CASE me.pos > 0 /\ child.pc = "done"
  <2>0. me.pos # 0
    <3>1. ~(0 > 0)
      OBVIOUS
    <3> QED
      BY <1>6, <3>1, Zenon
  <2>1. BetweenChildren(d, s)
    BY <1>1, <1>2, <1>6, NoChildAtWork, Zenon DEF BetweenChildren
  <2>a. me.pos \in 1..last
    BY <1>2, <1>3, <1>6, Counting, Zenon
  <2>b. kid(me.pos) \in Steps
    BY <1>2, <2>a, ChildFacts, Zenon
  <2>2. StepOK(wfPlan, wfRan, wfForeign, wfApproved, kid(me.pos), child) /\ child \in StepStates
    BY <2>b, Knows, WorkflowFacts, Zenon
  <2>3. /\ child.out \in {"ok", "failed", "cancelled"}
        /\ child.out = "ok" => Effect(wfPlan, wfRan, wfForeign, wfApproved, kid(me.pos))
    BY <1>6, <2>2, Zenon DEF StepOK, StepStates
  <2>4. CASE child.out # "ok" /\ wfDrv' = ExitWith(d, s, child.out)
    BY <2>1, <2>3, <2>4, CompositeExits, Zenon
  <2>5. CASE /\ child.out = "ok" /\ me.pos < last
             /\ wfDrv' = StartChild(Update(d, s, [me EXCEPT !.pos = me.pos + 1]), d, kid(me.pos + 1))
    <3> DEFINE i == me.pos + 1
               r == [me EXCEPT !.pos = i]
    <3>1. i \in Nat /\ i \in 1..last
      BY <1>2, <2>5, Counting, ZenonT(60)
    <3>2. \A j \in 1..me.pos : j = me.pos \/ j \in 1..(me.pos - 1)
      BY <1>2
    <3>3. \A j \in 1..me.pos : Effect(wfPlan, wfRan, wfForeign, wfApproved, kid(j))
      BY <1>3, <2>3, <2>5, <3>2, Zenon
    <3>4. wfDrv' = StartChild(Update(d, s, r), d, kid(i))
      BY <2>5, Zenon
    <3>5. r \in StepStates /\ r.pc = "kids" /\ r.pos = me.pos + 1
      BY <1>2, <3>1, Zenon DEF StepStates
    <3>6. r.pos = i
      BY <3>5, Zenon
    <3> HIDE DEF r
    <3>7. StepOK(wfPlan, wfRan, wfForeign, wfApproved, s, r)
      BY <1>2, <1>3, <2>5, <3>3, <3>5, PlaceOK, ZenonT(60)
    <3> HIDE DEF i
    <3> QED
      BY <1>1, <2>1, <3>1, <3>4, <3>5, <3>6, <3>7, CompositeStarts, ZenonT(60)
  <2>6. CASE /\ child.out = "ok" /\ me.item < Items
             /\ wfDrv' = StartChild(Update(d, s, [me EXCEPT !.pos = 1, !.item = me.item + 1]), d, kid(1))
    <3> DEFINE r == [me EXCEPT !.pos = 1, !.item = me.item + 1]
    <3>1. 1 \in Nat /\ 1 \in 1..last /\ 0 < last /\ 0 \in Nat /\ 0 + 1 = 1 /\ 1..0 = {}
      BY <1>2, <2>a, Counting, Zenon
    <3>2. me.item \in 1..Items
      BY <1>2, Zenon DEF StepStates
    <3>3. me.item + 1 \in 1..Items
      <4>1. Items \in Nat /\ me.item \in Nat
        BY <3>2, WorkflowAssumption, Counting, ZenonT(60)
      <4> QED
        BY <2>6, <4>1, Counting, Zenon
    <3>4. r \in StepStates /\ r.pc = "kids" /\ r.pos = 1
      BY <1>2, <3>1, <3>3, Zenon DEF StepStates
    <3>5. wfDrv' = StartChild(Update(d, s, r), d, kid(1))
      BY <2>6, Zenon
    <3> HIDE DEF r
    <3>6. StepOK(wfPlan, wfRan, wfForeign, wfApproved, s, r)
      BY <1>2, <1>3, <3>1, <3>4, PlaceOK, ZenonT(60)
    <3> QED
      BY <1>1, <2>1, <3>1, <3>4, <3>5, <3>6, CompositeStarts, Zenon
  <2>7. CASE wfDrv' = ExitWith(d, s, "ok")
    BY <2>1, <2>7, CompositeExits, Zenon
  <2> QED
    BY <1>4, <2>0, <2>4, <2>5, <2>6, <2>7, ZenonT(60)
<1> QED
  BY <1>4, <1>5, <1>6, Zenon

(* run_parallel: all children start, and the step ends when all are done.  *)
LEMMA ForkStep ==
    ASSUME WorkflowInv, NEW d \in Drivers, NEW s \in Steps, Fork(d, s)
    PROVE  WorkflowInv'
<1> DEFINE me == wfDrv[d].at[s]
           r == [me EXCEPT !.pos = 1]
           q == [Resting EXCEPT !.pc = "check"]
           f == [c \in Steps |-> IF c = s THEN r
                   ELSE IF c \in KidsOf(wfPlan, s) THEN q ELSE wfDrv[d].at[c]]
           v == [wfDrv[d] EXCEPT !.at = f]
<1>1. /\ AtStep(d, s, "kids") /\ wfPlan.kind[s] = "parallel" /\ me.pos = 0
      /\ UNCHANGED <<wfPlan, wfUp, wfDisk, wfGate, wfCached, wfTracked, wfHistory>>
  BY Zenon DEF Fork, Kind
<1>a. \A x \in Steps : Kids(x) = KidsOf(wfPlan, x)
  BY Zenon DEF Kids, KidsOf, Children
<1>2. wfDrv' = [wfDrv EXCEPT ![d] = v]
  <2>1. Kids(s) = KidsOf(wfPlan, s)
    BY <1>a, Zenon
  <2> QED
    BY <2>1, Zenon DEF Fork
<1>3. wfPlan \in Plans /\ wfDrv[d].phase = "run" /\ TreeOK(wfPlan, wfDrv[d].at)
  BY <1>1, WorkflowFacts, Knows, Zenon DEF AtStep, Driving
<1>4. BetweenChildren(d, s)
  BY <1>1, <1>3, NoChildAtWork, Zenon DEF BetweenChildren
<1>5. /\ wfDrv \in [Drivers -> DriverStates] /\ me.pc = "kids"
      /\ wfDrv[d].at \in [Steps -> StepStates] /\ me \in StepStates
      /\ \A t \in Steps : StepOK(wfPlan, wfRan, wfForeign, wfApproved, t, wfDrv[d].at[t])
  BY <1>4, BetweenFacts, Zenon
<1>6. r \in StepStates /\ r.pc = "kids" /\ r.pos = 1
  BY <1>5, Counting, Zenon DEF StepStates
<1>7. q \in StepStates /\ q.pc = "check" /\ q.pos = 0
  BY Rested, Zenon DEF Resting
<1> HIDE DEF r, q
<1>8. TreeOK(wfPlan, f)
  <2>1. \A i \in 1..Len(wfPlan.children[s]) : ~Active(wfDrv[d].at[wfPlan.children[s][i]])
    BY <1>4, Zenon DEF BetweenChildren
  <2>2. TreeOK(wfPlan, Forked(wfPlan, wfDrv[d].at, s, r, q))
    BY <1>1, <1>3, <1>5, <1>6, <2>1, ChildrenStart, Zenon
  <2> QED
    BY <2>2, Zenon DEF Forked
<1>9. /\ f \in [Steps -> StepStates] /\ f[s] = r
      /\ \A t \in KidsOf(wfPlan, s) : t \in Steps /\ t # s => f[t] = q
      /\ \A t \in Steps : t # s /\ t \notin KidsOf(wfPlan, s) => f[t] = wfDrv[d].at[t]
  BY <1>5, <1>6, <1>7, Zenon
<1> HIDE DEF f
<1>10. ASSUME NEW t \in Steps
       PROVE  /\ StepOK(wfPlan, wfRan, wfForeign, wfApproved, t, f[t])
              /\ wfDrv[d].at[t].pc = "wait" => f[t].pc = "wait"
  <2>1. CASE t = s
    <3>1. StepOK(wfPlan, wfRan, wfForeign, wfApproved, s, me)
      BY <1>5, Zenon
    <3>2. StepOK(wfPlan, wfRan, wfForeign, wfApproved, s, r)
      BY <1>1, <1>5, <1>6, <3>1, Zenon DEF StepOK
    <3> QED
      BY <1>5, <1>9, <2>1, <3>2, Zenon
  <2>2. CASE t # s /\ t \in KidsOf(wfPlan, s)
    <3>1. StepOK(wfPlan, wfRan, wfForeign, wfApproved, t, q)
      BY <1>3, <1>7, RestedOK, Zenon
    <3>2. ~Active(wfDrv[d].at[t])
      BY <1>4, <2>2, Zenon DEF BetweenChildren, KidsOf
    <3> QED
      BY <1>9, <2>2, <3>1, <3>2, Zenon DEF Active
  <2>3. CASE t # s /\ t \notin KidsOf(wfPlan, s)
    BY <1>5, <1>9, <2>3, Zenon
  <2> QED
    BY <2>1, <2>2, <2>3, Zenon
<1>11. /\ v \in DriverStates /\ v.at = f /\ v.phase = wfDrv[d].phase
       /\ v.preloaded = wfDrv[d].preloaded
  <2>1. wfDrv[d] \in DriverStates
    BY <1>5, Zenon
  <2> QED
    BY <1>9, <2>1, Zenon DEF DriverStates
<1> HIDE DEF v
<1>12. /\ wfDrv' \in [Drivers -> DriverStates] /\ wfDrv'[d] = v
       /\ \A e \in Drivers : e # d => wfDrv'[e] = wfDrv[e]
  BY <1>2, <1>5, <1>11, Zenon
<1>13. wfDrv'[d].at = f /\ wfDrv'[d].phase = wfDrv[d].phase /\ wfDrv'[d].preloaded = wfDrv[d].preloaded
  BY <1>11, <1>12, Zenon
<1>14. TreeOK(wfPlan, wfDrv'[d].at)
  BY <1>8, <1>13, Zenon
<1>15. \A t \in Steps : /\ StepOK(wfPlan, wfRan, wfForeign, wfApproved, t, wfDrv'[d].at[t])
                        /\ wfDrv[d].at[t].pc = "wait" => wfDrv'[d].at[t].pc = "wait"
  BY <1>10, <1>13, Zenon
<1> QED
  BY <1>1, <1>12, <1>13, <1>14, <1>15, TreeStep, ZenonT(60)

(* The outcome of a parallel step is decided when every branch is done.    *)
LEMMA JoinStep ==
    ASSUME WorkflowInv, NEW d \in Drivers, NEW s \in Steps, Join(d, s)
    PROVE  WorkflowInv'
<1> DEFINE outs == {wfDrv[d].at[c].out : c \in Kids(s)}
           out == IF "cancelled" \in outs THEN "cancelled"
                  ELSE IF "failed" \in outs THEN "failed" ELSE "ok"
<1>1. /\ AtStep(d, s, "kids")
      /\ UNCHANGED <<wfPlan, wfUp, wfDisk, wfGate, wfCached, wfTracked, wfHistory>>
      /\ \A c \in KidsOf(wfPlan, s) : wfDrv[d].at[c].pc = "done"
  BY Zenon DEF Join, Kids, KidsOf, Children
<1>2. wfPlan \in Plans /\ TreeOK(wfPlan, wfDrv[d].at)
  BY <1>1, WorkflowFacts, Knows, Zenon DEF AtStep, Driving
<1>3. BetweenChildren(d, s)
  BY <1>1, <1>2, NoChildAtWork, Zenon DEF BetweenChildren
<1>4. wfDrv' = ExitWith(d, s, out)
  BY Zenon DEF Join
<1>5. out \in {"ok", "failed", "cancelled"}
  BY Zenon
<1> HIDE DEF out
<1> QED
  BY <1>3, <1>4, <1>5, CompositeExits, Zenon

-----------------------------------------------------------------------------
(* run, resume, the end of a run, cancel, crash and restart.               *)

(* A driver at rest knows nothing.                                         *)
LEMMA IdleOK ==
    ASSUME NEW plan \in Plans, NEW ran, NEW foreign, NEW approved
    PROVE  /\ Idle \in DriverStates /\ DriverOK(plan, ran, foreign, approved, Idle)
           /\ Idle.at = [s \in Steps |-> Resting] /\ Idle.phase = "idle"
<1>1. Idle.at = [s \in Steps |-> Resting] /\ Idle.phase = "idle" /\ Idle.preloaded = {}
  BY Zenon DEF Idle
<1>2. [s \in Steps |-> Resting] \in [Steps -> StepStates]
  BY Rested, Zenon
<1>3. Idle \in DriverStates
  BY <1>2, Zenon DEF Idle, DriverStates
<1>4. ASSUME NEW s \in Steps PROVE StepOK(plan, ran, foreign, approved, s, Idle.at[s])
  <2>1. Idle.at[s] = Resting
    BY <1>1, Zenon
  <2>2. Resting.pc = "idle" /\ Resting.pos = 0
    BY Zenon DEF Resting
  <2>3. StepOK(plan, ran, foreign, approved, s, Resting)
    BY <2>2, Rested, RestedOK, Zenon
  <2> QED
    BY <2>1, <2>3, Zenon
<1>5. DriverOK(plan, ran, foreign, approved, Idle)
  BY <1>1, <1>4, Zenon DEF DriverOK
<1> QED
  BY <1>1, <1>3, <1>5, Zenon

(* A driver that loads: what it will skip took effect.                     *)
LEMMA LoadOK ==
    ASSUME NEW plan \in Plans, NEW ran, NEW foreign, NEW approved, NEW pre \in SUBSET Steps,
           NEW force \in SUBSET Steps, \A x \in pre : Effect(plan, ran, foreign, approved, x), NEW v,
           v = [Idle EXCEPT !.phase = "load", !.force = force, !.preloaded = pre]
    PROVE  v \in DriverStates /\ DriverOK(plan, ran, foreign, approved, v)
<1>1. Idle \in DriverStates /\ DriverOK(plan, ran, foreign, approved, Idle)
  BY IdleOK, Zenon
<1>2. v \in DriverStates /\ v.at = Idle.at /\ v.phase = "load" /\ v.preloaded = pre
  BY <1>1, Zenon DEF DriverStates
<1> QED
  BY <1>1, <1>2, Zenon DEF DriverOK

(* A driver that starts: only its root is at work.                         *)
LEMMA StartedOK ==
    ASSUME NEW plan \in Plans, NEW ran, NEW foreign, NEW approved, NEW d, NEW pre \in SUBSET Steps,
           NEW force \in SUBSET Steps, \A x \in pre : Effect(plan, ran, foreign, approved, x)
    PROVE  /\ Started(d, pre, force) \in DriverStates /\ Started(d, pre, force).phase = "run"
           /\ DriverOK(plan, ran, foreign, approved, Started(d, pre, force))
<1> DEFINE v == Started(d, pre, force)
           q == [Resting EXCEPT !.pc = "kids"]
           f == [Idle.at EXCEPT ![Root] = q]
<1>0. Root \in Steps
  BY WorkflowAssumption, Zenon
<1>1. /\ Idle \in DriverStates /\ DriverOK(plan, ran, foreign, approved, Idle)
      /\ Idle.at = [s \in Steps |-> Resting]
  BY IdleOK, Zenon
<1>2. q \in StepStates /\ q.pc = "kids" /\ q.pos = 0
  BY Rested, Zenon DEF Resting, StepStates
<1>3. Idle.at[Root] = Resting
  BY <1>0, <1>1, Zenon
<1>4. v = [Idle EXCEPT !.phase = "run", !.preloaded = pre, !.force = force, !.at = f]
  BY <1>3, Zenon DEF Started
<1>5. /\ f \in [Steps -> StepStates] /\ f[Root] = q
      /\ \A s \in Steps : s # Root => f[s] = Resting
  <2>1. Idle.at \in [Steps -> StepStates]
    BY <1>1, Zenon DEF DriverStates
  <2>2. \A s \in Steps : Idle.at[s] = Resting
    BY <1>1, Zenon
  <2> QED
    BY <1>0, <1>2, <2>1, <2>2, Zenon
<1> HIDE DEF f, q, v
<1>6. v \in DriverStates /\ v.phase = "run" /\ v.preloaded = pre /\ v.at = f
  BY <1>1, <1>4, <1>5, Zenon DEF DriverStates
<1>7. ASSUME NEW s \in Steps PROVE StepOK(plan, ran, foreign, approved, s, f[s])
  <2>1. CASE s = Root
    <3>1. plan.kind[Root] = "seq"
      BY <1>0, PlanFacts, Zenon
    <3>2. Len(plan.children[Root]) \in Nat
      BY <1>0, ChildFacts, Zenon
    <3>3. 0 <= Len(plan.children[Root]) /\ 1..(0 - 1) = {}
      BY <3>2
    <3>4. StepOK(plan, ran, foreign, approved, Root, q)
      BY <1>2, <3>1, <3>3, Zenon DEF StepOK
    <3> QED
      BY <1>5, <2>1, <3>4, Zenon
  <2>2. CASE s # Root
    <3>1. Resting.pc = "idle" /\ Resting.pos = 0
      BY Zenon DEF Resting
    <3>2. StepOK(plan, ran, foreign, approved, s, Resting)
      BY <3>1, Rested, RestedOK, Zenon
    <3> QED
      BY <1>5, <2>2, <3>2, Zenon
  <2> QED
    BY <2>1, <2>2, Zenon
<1>8. TreeOK(plan, f)
  <2>1. \A s \in Steps : s # Root => ~Active(f[s])
    <3>1. Resting.pc = "idle"
      BY Zenon DEF Resting
    <3> QED
      BY <1>5, <3>1, Zenon DEF Active
  <2>2. Nested(plan, f)
    BY <2>1, ChildFacts, Zenon DEF Nested
  <2>3. Root \in Subtree(plan, Root)
    BY <1>0, SubtreeFacts, Zenon
  <2> QED
    BY <1>2, <1>5, <2>1, <2>2, <2>3, Zenon DEF TreeOK
<1>9. DriverOK(plan, ran, foreign, approved, v)
  BY <1>6, <1>7, <1>8, Zenon DEF DriverOK
<1> QED
  BY <1>6, <1>9, Zenon DEF v

(* A driver that holds no gate is replaced by another one.                 *)
LEMMA Replaced ==
    ASSUME WorkflowInv, NEW d \in Drivers, NEW v \in DriverStates,
           DriverOK(wfPlan, wfRan, wfForeign, wfApproved, v), wfDrv' = [wfDrv EXCEPT ![d] = v],
           \A t \in Steps : wfGate[t] # d,
           UNCHANGED <<wfPlan, wfUp, wfGate, wfRan, wfForeign, wfApproved>>
    PROVE  /\ wfDrv' \in [Drivers -> DriverStates] /\ wfDrv'[d] = v
           /\ \A e \in Drivers : e # d => wfDrv'[e] = wfDrv[e]
           /\ DriversOK(wfPlan', wfRan', wfForeign', wfApproved', wfDrv') /\ GateHasWaiter'
           /\ Behind(wfPlan', wfRan', wfApproved')
<1>1. /\ wfDrv' \in [Drivers -> DriverStates] /\ wfDrv'[d] = v
      /\ \A e \in Drivers : e # d => wfDrv'[e] = wfDrv[e]
  BY WorkflowFacts, Zenon
<1>2. DriversOK(wfPlan, wfRan, wfForeign, wfApproved, wfDrv')
  <2>1. \A e \in Drivers : DriverOK(wfPlan, wfRan, wfForeign, wfApproved, wfDrv[e])
    BY Zenon DEF WorkflowInv, DriversOK
  <2> QED
    BY <1>1, <2>1, Zenon DEF DriversOK
<1>3. ASSUME NEW s \in Steps, wfGate[s] # NoDriver
      PROVE  wfUp /\ wfDrv'[wfGate[s]].phase = "run" /\ wfDrv'[wfGate[s]].at[s].pc = "wait"
  <2>1. wfGate[s] \in Drivers /\ wfGate[s] # d
    BY <1>3, WorkflowFacts, Zenon
  <2>2. AtStep(wfGate[s], s, "wait")
    BY <1>3, Zenon DEF WorkflowInv, GateHasWaiter
  <2>3. wfDrv'[wfGate[s]] = wfDrv[wfGate[s]]
    BY <1>1, <2>1, Zenon
  <2> QED
    BY <2>2, <2>3, Zenon DEF AtStep, Driving
<1>4. GateHasWaiter'
  BY <1>3, Zenon DEF GateHasWaiter, AtStep, Driving
<1>5. Behind(wfPlan', wfRan', wfApproved')
  BY StillBehind, Zenon
<1> QED
  BY <1>1, <1>2, <1>4, <1>5, Zenon

(* Only a driver that runs holds a gate.                                   *)
LEMMA OnlyRunningHold ==
    ASSUME WorkflowInv, NEW d \in Drivers, wfDrv[d].phase # "run"
    PROVE  \A t \in Steps : wfGate[t] # d
<1>1. ASSUME NEW t \in Steps, wfGate[t] = d PROVE FALSE
  <2>1. d # NoDriver
    BY WorkflowAssumption, Zenon
  <2> QED
    BY <1>1, <2>1, Zenon DEF WorkflowInv, GateHasWaiter, AtStep, Driving
<1> QED
  BY <1>1, Zenon

(* run.                                                                    *)
LEMMA RunStep ==
    ASSUME WorkflowInv, NEW d \in Drivers, Run(d)
    PROVE  WorkflowInv'
<1>1. /\ wfUp /\ wfStatus = "none" /\ wfStatus' \in {"pending", "lost"} /\ wfTracked' = d
      /\ wfDrv' = [wfDrv EXCEPT ![d] = Started(d, {}, {})]
      /\ UNCHANGED <<wfPlan, wfUp, wfCurrent, wfRows, wfGate, wfCached, wfRan, wfForeign, wfApproved>>
  BY Zenon DEF Run, wfHistory
<1>2. \A t \in Steps : wfGate[t] # d
  <2>1. wfDrv[d].phase = "idle"
    BY <1>1, Zenon DEF WorkflowInv, Fresh
  <2>2. wfDrv[d].phase # "run"
    BY <2>1, Zenon
  <2> QED
    BY <2>2, OnlyRunningHold, Zenon
<1>3. /\ Started(d, {}, {}) \in DriverStates /\ Started(d, {}, {}).phase = "run"
      /\ DriverOK(wfPlan, wfRan, wfForeign, wfApproved, Started(d, {}, {}))
  <2>1. wfPlan \in Plans /\ {} \in SUBSET Steps
    BY WorkflowFacts, Zenon
  <2>2. \A x \in {} : Effect(wfPlan, wfRan, wfForeign, wfApproved, x)
    BY Zenon
  <2> QED
    BY <2>1, <2>2, StartedOK, Zenon
<1>4. /\ wfDrv' \in [Drivers -> DriverStates] /\ wfDrv'[d] = Started(d, {}, {})
      /\ DriversOK(wfPlan', wfRan', wfForeign', wfApproved', wfDrv') /\ GateHasWaiter'
      /\ Behind(wfPlan', wfRan', wfApproved')
  BY <1>1, <1>2, <1>3, Replaced, Zenon
<1>5. DrivenOrSettled'
  BY <1>1, <1>3, <1>4, Zenon DEF DrivenOrSettled, Driving
<1>6. Fresh'
  BY <1>1, Zenon DEF Fresh
<1>7. Stored'
  BY <1>1, StillStored, Zenon
<1>8. wfStatus' \in StatusStates
  BY <1>1, Zenon DEF StatusStates
<1> QED
  BY <1>1, <1>4, <1>5, <1>6, <1>7, <1>8, WorkflowFacts, Pieces, Zenon

(* resume, its snapshot.                                                   *)
LEMMA ResumeLoadStep ==
    ASSUME WorkflowInv, NEW d \in Drivers, NEW force \in wfPlan.forces, ResumeLoad(d, force)
    PROVE  WorkflowInv'
<1> DEFINE pre == Preloaded \ force
           v == [Idle EXCEPT !.phase = "load", !.force = force, !.preloaded = pre]
<1>1. /\ wfUp /\ wfDrv[d].phase = "idle" /\ wfStatus # "none"
      /\ wfDrv' = [wfDrv EXCEPT ![d] = v]
      /\ UNCHANGED <<wfPlan, wfUp, wfStatus, wfCurrent, wfRows, wfStale, wfGate, wfCached, wfTracked, wfRan,
                     wfForeign, wfApproved>>
  BY Zenon DEF ResumeLoad, wfDisk, wfHistory
<1>2. \A t \in Steps : wfGate[t] # d
  <2>1. wfDrv[d].phase # "run"
    BY <1>1, Zenon
  <2> QED
    BY <2>1, OnlyRunningHold, Zenon
<1>3. v \in DriverStates /\ DriverOK(wfPlan, wfRan, wfForeign, wfApproved, v)
  <2>1. wfPlan \in Plans
    BY WorkflowFacts, Zenon
  <2>2. pre \in SUBSET Steps /\ force \in SUBSET Steps
    BY <2>1, PlanFacts, Zenon DEF Preloaded
  <2>3. \A x \in pre : Effect(wfPlan, wfRan, wfForeign, wfApproved, x)
    BY Zenon DEF Preloaded, WorkflowInv, Stored, Recorded
  <2> HIDE DEF pre
  <2> QED
    BY <2>1, <2>2, <2>3, LoadOK, Zenon
<1> HIDE DEF v
<1>4. /\ wfDrv' \in [Drivers -> DriverStates] /\ wfDrv'[d] = v
      /\ \A e \in Drivers : e # d => wfDrv'[e] = wfDrv[e]
      /\ DriversOK(wfPlan', wfRan', wfForeign', wfApproved', wfDrv') /\ GateHasWaiter'
      /\ Behind(wfPlan', wfRan', wfApproved')
  BY <1>1, <1>2, <1>3, Replaced, Zenon
<1>5. DrivenOrSettled'
  <2>1. ASSUME wfStatus \in {"pending", "running"}, ~wfStale
        PROVE  \E e \in Drivers : wfUp /\ wfDrv'[e].phase = "run"
    <3>1. PICK e \in Drivers : wfDrv[e].phase = "run"
      BY <1>1, <2>1, Zenon DEF WorkflowInv, DrivenOrSettled, Driving
    <3>2. e # d
      BY <1>1, <3>1, Zenon
    <3> QED
      BY <1>1, <1>4, <3>1, <3>2, Zenon
  <2> QED
    BY <1>1, <2>1, Zenon DEF DrivenOrSettled, Driving
<1>6. Fresh'
  BY <1>1, Zenon DEF Fresh
<1>7. Stored'
  BY <1>1, StillStored, Zenon
<1> QED
  BY <1>1, <1>4, <1>5, <1>6, <1>7, WorkflowFacts, Pieces, ZenonT(60)

(* resume, its start.                                                      *)
LEMMA ResumeGoStep ==
    ASSUME WorkflowInv, NEW d \in Drivers, ResumeGo(d)
    PROVE  WorkflowInv'
<1> DEFINE v == Started(d, wfDrv[d].preloaded, wfDrv[d].force)
<1>1. /\ wfUp /\ wfDrv[d].phase = "load" /\ wfTracked' = d
      /\ wfDrv' = [wfDrv EXCEPT ![d] = v]
      /\ UNCHANGED <<wfPlan, wfUp, wfStatus, wfCurrent, wfRows, wfGate, wfCached, wfRan, wfForeign,
                     wfApproved>>
  BY Zenon DEF ResumeGo, wfDisk, wfHistory
<1>2. \A t \in Steps : wfGate[t] # d
  <2>1. wfDrv[d].phase # "run"
    BY <1>1, Zenon
  <2> QED
    BY <2>1, OnlyRunningHold, Zenon
<1>3. v \in DriverStates /\ v.phase = "run" /\ DriverOK(wfPlan, wfRan, wfForeign, wfApproved, v)
  <2>1. wfPlan \in Plans /\ wfDrv[d] \in DriverStates
    BY WorkflowFacts, Zenon
  <2>2. wfDrv[d].preloaded \in SUBSET Steps /\ wfDrv[d].force \in SUBSET Steps
    BY <2>1, Zenon DEF DriverStates
  <2>3. \A x \in wfDrv[d].preloaded : Effect(wfPlan, wfRan, wfForeign, wfApproved, x)
    BY Zenon DEF WorkflowInv, DriversOK, DriverOK
  <2> QED
    BY <2>1, <2>2, <2>3, StartedOK, Zenon
<1> HIDE DEF v
<1>4. /\ wfDrv' \in [Drivers -> DriverStates] /\ wfDrv'[d] = v
      /\ DriversOK(wfPlan', wfRan', wfForeign', wfApproved', wfDrv') /\ GateHasWaiter'
      /\ Behind(wfPlan', wfRan', wfApproved')
  BY <1>1, <1>2, <1>3, Replaced, Zenon
<1>5. DrivenOrSettled'
  BY <1>1, <1>3, <1>4, Zenon DEF DrivenOrSettled, Driving
<1>6. Fresh'
  BY <1>1, Zenon DEF WorkflowInv, Fresh
<1>7. Stored'
  BY <1>1, StillStored, Zenon
<1> QED
  BY <1>1, <1>4, <1>5, <1>6, <1>7, WorkflowFacts, Pieces, ZenonT(60)

(* The end of a run: its root is at its end, so no gate waits in it.       *)
LEMMA FinishStep ==
    ASSUME WorkflowInv, NEW d \in Drivers, Finish(d)
    PROVE  WorkflowInv'
<1> DEFINE out == wfDrv[d].at[Root].out
<1>0. Root \in Steps /\ wfPlan \in Plans
  BY WorkflowAssumption, WorkflowFacts, Zenon
<1>1. /\ wfUp /\ wfDrv[d].phase = "run" /\ wfDrv[d].at[Root].pc = "exit"
      /\ UpdateStatus(RowOf(out), NoStep)
      /\ wfDrv' = [wfDrv EXCEPT ![d] = Idle]
      /\ UNCHANGED <<wfPlan, wfUp, wfRows, wfGate, wfCached, wfTracked, wfRan, wfForeign, wfApproved>>
  BY Zenon DEF Finish, wfHistory, AtStep, Driving
<1>2. ASSUME NEW t \in Steps, wfGate[t] = d PROVE FALSE
  <2>1. d # NoDriver
    BY WorkflowAssumption, Zenon
  <2>2. wfDrv[d].at[t].pc = "wait"
    BY <1>2, <2>1, Zenon DEF WorkflowInv, GateHasWaiter, AtStep
  <2>3. TreeOK(wfPlan, wfDrv[d].at)
    BY <1>0, <1>1, Knows, Zenon
  <2>4. Active(wfDrv[d].at[t]) /\ t # Root
    BY <1>1, <2>2, Zenon DEF Active
  <2>5. t \in Subtree(wfPlan, Root) /\ Nested(wfPlan, wfDrv[d].at)
    BY <2>3, <2>4, Zenon DEF TreeOK
  <2>6. wfDrv[d].at[Root].pc # "kids"
    BY <1>1, Zenon
  <2> QED
    BY <1>0, <2>4, <2>5, <2>6, Quiet, Zenon
<1>3. Idle \in DriverStates /\ Idle.phase = "idle" /\ DriverOK(wfPlan, wfRan, wfForeign, wfApproved, Idle)
  BY <1>0, IdleOK, Zenon
<1>4. /\ wfDrv' \in [Drivers -> DriverStates]
      /\ DriversOK(wfPlan', wfRan', wfForeign', wfApproved', wfDrv') /\ GateHasWaiter'
      /\ Behind(wfPlan', wfRan', wfApproved')
  <2>1. \A t \in Steps : wfGate[t] # d
    BY <1>2, Zenon
  <2> QED
    BY <1>1, <1>3, <2>1, Replaced, Zenon
<1>5. out \in {"ok", "failed", "cancelled"}
  <2>1. wfDrv[d].at[Root] \in StepStates /\ StepOK(wfPlan, wfRan, wfForeign, wfApproved, Root, wfDrv[d].at[Root])
    BY <1>0, WorkflowFacts, Knows, Zenon
  <2>2. out # "none"
    BY <1>1, <2>1, Zenon DEF StepOK
  <2>3. out \in {"none", "ok", "failed", "cancelled"}
    BY <2>1, Zenon DEF StepStates
  <2> QED
    BY <2>2, <2>3, Zenon
<1> HIDE DEF out
<1>6. RowOf(out) \in {"completed", "failed", "cancelled"}
  BY <1>5 DEF RowOf
<1>a. /\ wfStatus' \in StatusStates /\ wfCurrent' \in Steps
      /\ \/ wfStatus' \in {"completed", "failed", "cancelled"}
         \/ wfStatus' = wfStatus /\ (wfStale' = TRUE \/ wfStatus = "lost")
  <2>1. RowOf(out) \in StatusStates /\ NoStep \in Steps
    BY <1>0, <1>6, Zenon DEF StatusStates, RowStates, NoStep
  <2> QED
    BY <1>1, <1>6, <2>1, StatusUpdated, Zenon
<1>b. wfStatus # "none"
  BY <1>1, Zenon DEF WorkflowInv, Fresh
<1>7. DrivenOrSettled' /\ Fresh'
  BY <1>a, <1>b, Zenon DEF DrivenOrSettled, Fresh
<1>8. Stored'
  BY <1>1, StillStored, Zenon
<1> QED
  BY <1>1, <1>4, <1>a, <1>7, <1>8, WorkflowFacts, Pieces, ZenonT(60)

(* cancel.                                                                 *)
LEMMA CancelStep ==
    ASSUME WorkflowInv, Cancel
    PROVE  WorkflowInv'
<1> DEFINE d == wfTracked
           v == [wfDrv[d] EXCEPT !.cancelled = TRUE]
<1>1. /\ d # NoDriver /\ wfDrv' = [wfDrv EXCEPT ![d] = v]
      /\ UNCHANGED <<wfPlan, wfUp, wfDisk, wfGate, wfCached, wfTracked, wfHistory>>
  BY Zenon DEF Cancel
<1>2. d \in Drivers /\ wfDrv \in [Drivers -> DriverStates]
  BY <1>1, WorkflowFacts, Zenon
<1>3. /\ v \in DriverStates /\ v.at = wfDrv[d].at /\ v.phase = wfDrv[d].phase
      /\ v.preloaded = wfDrv[d].preloaded
  <2>1. wfDrv[d] \in DriverStates
    BY <1>2, Zenon
  <2> QED
    BY <2>1, Zenon DEF DriverStates
<1> HIDE DEF v
<1>4. /\ wfDrv' \in [Drivers -> DriverStates] /\ wfDrv'[d] = v
      /\ \A e \in Drivers : e # d => wfDrv'[e] = wfDrv[e]
  BY <1>1, <1>2, <1>3, Zenon
<1>5. \A e \in Drivers : /\ wfDrv'[e].at = wfDrv[e].at /\ wfDrv'[e].phase = wfDrv[e].phase
                         /\ wfDrv'[e].preloaded = wfDrv[e].preloaded
  BY <1>3, <1>4, Zenon
<1>6. UNCHANGED <<wfUp, wfGate, wfPlan, wfRan, wfForeign, wfApproved>>
  BY <1>1, Zenon DEF wfHistory
<1>7. DriversOK(wfPlan', wfRan', wfForeign', wfApproved', wfDrv')
  <2>1. DriversOK(wfPlan, wfRan, wfForeign, wfApproved, wfDrv)
    BY Zenon DEF WorkflowInv
  <2>2. DriversOK(wfPlan, wfRan, wfForeign, wfApproved, wfDrv')
    BY <1>5, <2>1, Zenon DEF DriversOK, DriverOK
  <2> QED
    BY <1>6, <2>2, Zenon
<1>8. GateHasWaiter'
  BY <1>5, <1>6, StillWaits, Zenon
<1> QED
  BY <1>1, <1>4, <1>5, <1>7, <1>8, InDriver, Zenon

(* The process dies.                                                       *)
LEMMA CrashStep ==
    ASSUME WorkflowInv, Crash
    PROVE  WorkflowInv'
<1>1. /\ ~wfUp' /\ wfDrv' = [d \in Drivers |-> Idle] /\ wfGate' = [s \in Steps |-> NoDriver]
      /\ wfUp' \in BOOLEAN /\ wfTracked' = NoDriver
      /\ UNCHANGED <<wfPlan, wfStatus, wfCurrent, wfRows, wfStale, wfCached, wfRan, wfForeign, wfApproved>>
  BY Zenon DEF Crash, wfDisk, wfHistory
<1>2. Idle \in DriverStates /\ Idle.phase = "idle" /\ DriverOK(wfPlan, wfRan, wfForeign, wfApproved, Idle)
  BY WorkflowFacts, IdleOK, Zenon
<1>3. wfDrv' \in [Drivers -> DriverStates] /\ \A d \in Drivers : wfDrv'[d] = Idle
  BY <1>1, <1>2, Zenon
<1>4. DriversOK(wfPlan, wfRan, wfForeign, wfApproved, wfDrv')
  BY <1>2, <1>3, Zenon DEF DriversOK
<1>5. DrivenOrSettled' /\ Fresh'
  BY <1>1, <1>2, <1>3, Zenon DEF DrivenOrSettled, Fresh
<1>6. wfGate' \in [Steps -> Drivers \cup {NoDriver}] /\ GateHasWaiter'
  BY <1>1, Zenon DEF GateHasWaiter
<1>7. Stored'
  BY <1>1, StillStored, Zenon
<1>8. Behind(wfPlan', wfRan', wfApproved')
  BY <1>1, StillBehind, Zenon
<1> QED
  BY <1>1, <1>3, <1>4, <1>5, <1>6, <1>7, <1>8, WorkflowFacts, Pieces, ZenonT(60)

(* recover_persisted: nothing claims to run before a driver does, unless   *)
(* its write fails.                                                        *)
LEMMA RestartStep ==
    ASSUME WorkflowInv, Restart
    PROVE  WorkflowInv'
<1>1. /\ ~wfUp /\ wfUp' = TRUE
      /\ UNCHANGED <<wfPlan, wfCurrent, wfDrv, wfGate, wfCached, wfTracked, wfRan, wfForeign, wfApproved>>
  BY Zenon DEF Restart, wfHistory
<1>2. /\ wfStatus' \in StatusStates /\ (wfStatus' = "none" => wfStatus = "none")
      /\ wfStatus' \in {"pending", "running"} => wfStale' = TRUE
      /\ wfRows' \in [Steps -> RowStates]
      /\ \A s \in Steps : wfRows'[s] = "completed" => wfRows[s] = "completed"
  <2>0. /\ wfStatus \in StatusStates /\ wfRows \in [Steps -> RowStates] /\ wfCurrent \in Steps
        /\ "interrupted" \in RowStates /\ "interrupted" \in StatusStates
    BY WorkflowFacts, Zenon DEF RowStates, StatusStates
  <2>1. CASE /\ wfStatus' = "interrupted"
             /\ wfRows' = wfRows \/ UpsertStep(wfCurrent, "interrupted")
    <3>1. /\ wfRows' \in [Steps -> RowStates]
          /\ \A s \in Steps : wfRows'[s] = "completed" => wfRows[s] = "completed"
      <4>1. CASE wfRows' = wfRows
        BY <2>0, <4>1, Zenon
      <4>2. CASE UpsertStep(wfCurrent, "interrupted")
        BY <2>0, <4>2, Upserted, Zenon
      <4> QED
        BY <2>1, <4>1, <4>2, Zenon
    <3> QED
      BY <2>0, <2>1, <3>1, Zenon
  <2>2. CASE /\ wfStatus \notin NonTerminal \/ wfStale' = TRUE
             /\ wfStatus' = wfStatus /\ wfRows' = wfRows
    BY <2>0, <2>2, Zenon DEF NonTerminal
  <2>3. \/ /\ wfStatus' = "interrupted"
           /\ wfRows' = wfRows \/ UpsertStep(wfCurrent, "interrupted")
        \/ /\ wfStatus \notin NonTerminal \/ wfStale' = TRUE
           /\ wfStatus' = wfStatus /\ wfRows' = wfRows
    BY Zenon DEF Restart
  <2> QED
    BY <2>1, <2>2, <2>3, Zenon
<1>3. DrivenOrSettled'
  BY <1>2, Zenon DEF DrivenOrSettled
<1>4. Fresh'
  BY <1>1, <1>2, Zenon DEF WorkflowInv, Fresh
<1>5. GateHasWaiter'
  <2>1. \A s \in Steps : wfGate[s] = NoDriver
    BY <1>1, Zenon DEF WorkflowInv, GateHasWaiter, AtStep, Driving
  <2> QED
    BY <1>1, <2>1, Zenon DEF GateHasWaiter
<1>6. Stored'
  BY <1>1, <1>2, StillStored, Zenon DEF Recorded
<1>7. Behind(wfPlan', wfRan', wfApproved')
  BY <1>1, StillBehind, Zenon
<1>8. DriversOK(wfPlan', wfRan', wfForeign', wfApproved', wfDrv')
  BY <1>1, Zenon DEF WorkflowInv
<1> QED
  BY <1>1, <1>2, <1>3, <1>4, <1>5, <1>6, <1>7, <1>8, WorkflowFacts, Pieces, ZenonT(60)

-----------------------------------------------------------------------------
(* Every step keeps the invariant, and what the invariant says.            *)

LEMMA WorkflowStarts ==
    ASSUME WorkflowInit
    PROVE  WorkflowInv
<1>1. /\ wfPlan \in Plans /\ wfUp \in BOOLEAN /\ wfStatus = "none" /\ wfCurrent = Root
      /\ wfRows = [s \in Steps |-> "none"] /\ wfDrv = [d \in Drivers |-> Idle]
      /\ wfGate = [s \in Steps |-> NoDriver] /\ wfCached = {} /\ wfTracked = NoDriver
      /\ wfRan = {}
  BY Zenon DEF WorkflowInit, NoStep
<1>2. Idle \in DriverStates /\ Idle.phase = "idle" /\ DriverOK(wfPlan, wfRan, wfForeign, wfApproved, Idle)
  BY <1>1, IdleOK, Zenon
<1>3. wfDrv \in [Drivers -> DriverStates] /\ \A d \in Drivers : wfDrv[d] = Idle
  BY <1>1, <1>2, Zenon
<1>4. WorkflowTypes
  <2>1. Root \in Steps /\ "none" \in RowStates
    BY WorkflowAssumption, Zenon DEF RowStates
  <2>2. wfStatus \in StatusStates
    BY <1>1, <2>1, Zenon DEF StatusStates
  <2> QED
    BY <1>1, <1>3, <2>1, <2>2, Zenon DEF WorkflowTypes
<1>5. Stored
  BY <1>1, Zenon DEF Stored, Recorded
<1>6. DriversOK(wfPlan, wfRan, wfForeign, wfApproved, wfDrv)
  BY <1>2, <1>3, Zenon DEF DriversOK
<1>7. Fresh
  BY <1>2, <1>3, Zenon DEF Fresh
<1>8. Behind(wfPlan, wfRan, wfApproved)
  BY <1>1, Zenon DEF Behind
<1>9. DrivenOrSettled /\ GateHasWaiter
  BY <1>1, Zenon DEF DrivenOrSettled, GateHasWaiter
<1> QED
  BY <1>4, <1>5, <1>6, <1>7, <1>8, <1>9, ZenonT(60) DEF WorkflowInv

LEMMA WorkflowSteps ==
    ASSUME WorkflowInv, WorkflowNext
    PROVE  WorkflowInv'
<1>1. ASSUME NEW d \in Drivers, DriverStep(d) PROVE WorkflowInv'
  <2>1. CASE Finish(d) \/ ResumeGo(d)
    BY <2>1, FinishStep, ResumeGoStep, Zenon
  <2>2. ASSUME NEW s \in Steps,
               \/ Check(d, s) \/ EnterRow(d, s) \/ EnterCurrent(d, s) \/ ExitStep(d, s)
               \/ Lookup(d, s) \/ Attempt(d, s) \/ PutKey(d, s)
        PROVE  WorkflowInv'
    BY <2>2, CheckStep, EnterRowStep, EnterCurrentStep, ExitStepStep, LookupStep, AttemptStep,
       PutKeyStep, Zenon
  <2>3. ASSUME NEW s \in Steps,
               \/ WaitHandle(d, s) \/ Unblock(d, s)
               \/ Advance(d, s) \/ Fork(d, s) \/ Join(d, s)
        PROVE  WorkflowInv'
    BY <2>3, WaitHandleStep, UnblockStep, AdvanceStep, ForkStep, JoinStep, Zenon
  <2> QED
    BY <1>1, <2>1, <2>2, <2>3, Zenon DEF DriverStep
<1>2. ASSUME NEW d \in Drivers, Run(d) PROVE WorkflowInv'
  BY <1>2, RunStep, Zenon
<1>3. ASSUME NEW d \in Drivers, NEW f \in wfPlan.forces, ResumeLoad(d, f) PROVE WorkflowInv'
  BY <1>3, ResumeLoadStep, Zenon
<1>4. ASSUME NEW k \in Keys, ExpireKey(k) \/ OtherPut(k) PROVE WorkflowInv'
  BY <1>4, ExpireKeyStep, OtherPutStep, Zenon
<1>5. ASSUME NEW s \in Steps, NEW a \in {"yes", "no"}, Resolve(s, a) PROVE WorkflowInv'
  BY <1>5, ResolveStep, Zenon
<1>6. ASSUME Cancel \/ Crash \/ Restart PROVE WorkflowInv'
  BY <1>6, CancelStep, CrashStep, RestartStep, Zenon
<1> QED
  BY <1>1, <1>2, <1>3, <1>4, <1>5, <1>6, Zenon DEF WorkflowNext

(* Nothing depends on how far the model has spent its bounds.              *)
LEMMA WorkflowStutters ==
    ASSUME WorkflowInv, UNCHANGED wfVars
    PROVE  WorkflowInv'
<1>1. /\ UNCHANGED <<wfPlan, wfUp, wfDisk, wfGate, wfCached, wfTracked, wfHistory>>
      /\ wfDrv' = wfDrv
  BY Zenon DEF wfVars
<1>2. UNCHANGED <<wfRan, wfForeign, wfApproved>>
  BY <1>1, Zenon DEF wfHistory
<1>3. wfDrv' \in [Drivers -> DriverStates] /\ DriversOK(wfPlan', wfRan', wfForeign', wfApproved', wfDrv')
  BY <1>1, <1>2, Zenon DEF WorkflowInv, WorkflowTypes
<1>4. GateHasWaiter'
  BY <1>1, StillWaits, Zenon
<1> QED
  BY <1>1, <1>3, <1>4, InDriver, Zenon

LEMMA WorkflowInvHolds == WorkflowSpec => []WorkflowInv
<1>1. WorkflowInit => WorkflowInv
  BY WorkflowStarts
<1>2. WorkflowInv /\ [WorkflowNext]_wfVars => WorkflowInv'
  BY WorkflowSteps, WorkflowStutters, Zenon
<1> QED
  BY <1>1, <1>2, PTL DEF WorkflowSpec

(* A row that says pending or running in a live server has a driver unless *)
(* the last write of its status failed, for any specification, any number  *)
(* of overlapping runs and resumes, and any crashes and failed writes:     *)
(* recover_persisted leaves no row that claims to run.                     *)
THEOREM RowsAreDriven == WorkflowSpec => []DrivenOrSettled
<1>1. WorkflowInv => DrivenOrSettled
  BY Zenon DEF WorkflowInv
<1> QED
  BY <1>1, WorkflowInvHolds, PTL

(* Every entry of the approval gate has a live waiter: no way out of       *)
(* run_approve, of a run or of a crash leaves a sender behind.             *)
THEOREM GatesAreWaitedFor == WorkflowSpec => []GateHasWaiter
<1>1. WorkflowInv => GateHasWaiter
  BY Zenon DEF WorkflowInv
<1> QED
  BY <1>1, WorkflowInvHolds, PTL

(* What follows an approve step in its list, at any depth, runs only after *)
(* that gate was approved, in the first run and in every resume.           *)
THEOREM GatesGuardTheRest == WorkflowSpec => []NothingBehindGate
<1>1. ASSUME WorkflowInv PROVE NothingBehindGate
  <2>1. Behind(wfPlan, wfRan, wfApproved)
    BY <1>1, Zenon DEF WorkflowInv
  <2>2. \A s \in Steps : Kids(s) = KidsOf(wfPlan, s)
    BY Zenon DEF Kids, KidsOf, Children
  <2>3. \A s : Below(s) \subseteq Subtree(wfPlan, s)
    BY <2>2, ZenonT(60) DEF Below, Subtree, Leaves
  <2>4. ASSUME NEW p \in Steps, Kind[p] \in {"seq", "foreach", "branch"},
               NEW i \in 1..Len(Children[p]), NEW j \in 1..(i - 1),
               Kind[Children[p][j]] = "approve",
               \E l \in Below(Children[p][i]), k \in 1..Items : <<l, k>> \in wfRan
        PROVE  Children[p][j] \in wfApproved
    <3>1. wfPlan.kind[p] # "parallel"
      BY <2>4, Zenon DEF Kind
    <3>2. \E l \in Subtree(wfPlan, wfPlan.children[p][i]), k \in 1..Items : <<l, k>> \in wfRan
      BY <2>3, <2>4, Zenon DEF Children
    <3>3. wfPlan.kind[wfPlan.children[p][j]] = "approve" /\ i \in 1..Len(wfPlan.children[p])
      BY <2>4, Zenon DEF Kind, Children
    <3> QED
      BY <2>1, <3>1, <3>2, <3>3, Zenon DEF Behind, Children
  <2> QED
    BY <2>4, Zenon DEF NothingBehindGate
<1> QED
  BY <1>1, WorkflowInvHolds, PTL

(* A tool step whose row says completed ran, or has the result of a call   *)
(* under its idempotency key by a step of this workflow or of another, so  *)
(* a resume skips nothing for which nothing was done.                      *)
THEOREM CompletedRowsRan == WorkflowSpec => []CompletedTookEffect
<1>1. ASSUME WorkflowInv PROVE CompletedTookEffect
  <2>1. ASSUME NEW s \in Steps, wfPlan.kind[s] = "tool", wfRows[s] = "completed"
        PROVE  Ran(wfRan, s) \/ KeyUsed(wfPlan, wfRan, wfForeign, s)
    BY <1>1, <2>1, Zenon DEF WorkflowInv, Stored, Recorded, Effect
  <2> QED
    BY <2>1, Zenon DEF CompletedTookEffect, TookEffect, Ran, KeyUsed, Leaves, Kind, Key
<1> QED
  BY <1>1, WorkflowInvHolds, PTL
=============================================================================
