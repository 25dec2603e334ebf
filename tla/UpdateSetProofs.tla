-------------------------- MODULE UpdateSetProofs --------------------------
(***************************************************************************)
(* Proofs about UpdateSet, for every number of files, generations, spare   *)
(* backup paths, stagings, crashes and failed renames.                     *)
(*                                                                         *)
(* WorkInv ties the set an operation works on to the pending one on disk   *)
(* and to its journal; SwapInv says how far the swap or the rollback got;  *)
(* BuildInv that a release is newer than the build that staged it.  For    *)
(* the originals RetainInv adds that no set is retained while another      *)
(* transaction is open, which needs that running images can be deleted.    *)
(***************************************************************************)
EXTENDS UpdateSet, TLAPS

-----------------------------------------------------------------------------
(* The records of the state.                                               *)
Gens == 1..MaxGen

Losses == {"nothing", "manifest", "component", "journal"}
Journals == {"none", "applying", "committed"}
StagedSet ==
  [is : BOOLEAN, gen : Gens, src : 0..MaxGen, build : Gens, lost : Losses,
   journal : Journals, orig : [Targets -> 0..MaxGen], slot : [Targets -> Slots]]

Kinds == {"none", "apply", "clear", "stage"}
AfterClean == {"done", "sweep", "decide", "tidied"}
Steps ==
  {"idle", "recover", "sweep", "clean", "remove", "stage", "swapSets", "nameSet", "dropPrevious",
   "apply", "verify", "prepare", "journal", "swapOut", "swapIn", "commit", "persist", "detach",
   "decide", "rollback", "unjournal", "tidied", "clear", "dropPending", "done"}
Operation ==
  [kind : Kinds, build : Gens, pc : Steps, gen : Gens, k : 0..2 * N, todo : SUBSET StagedSet,
   work : StagedSet, ret : AfterClean, full : BOOLEAN, failed : BOOLEAN, reexec : BOOLEAN]

Types ==
  /\ usWorld \in Installations
  /\ usTarget \in [Targets -> 0..MaxGen] /\ usPrepared \in [Targets -> 0..Torn]
  /\ usBackup \in [Targets -> [Slots -> 0..MaxGen]]
  /\ usPending \in StagedSet /\ usPrevious \in StagedSet /\ usCommitted \subseteq StagedSet
  /\ usApplied \in [src : 0..MaxGen, tgt : Gens, build : Gens]
  /\ usOp \in Operation /\ usBuilds \subseteq Gens
  /\ usSpent \in [latest : Gens, stages : Nat, aborts : Nat, faults : Nat]

(* What the operation knows at each step.                                  *)
InSwap == {"swapOut", "swapIn", "commit"}

CounterInv ==
  /\ usOp.pc \in {"prepare", "swapOut", "rollback"} => usOp.k <= N
  /\ usOp.pc = "swapIn" => usOp.k < N
  /\ usOp.pc = "journal" => usOp.k = 0
  /\ usOp.pc \in {"recover", "sweep"} => usOp.kind # "none"
  /\ (usOp.pc \in {"clean", "remove"} /\ usOp.ret = "sweep") => usOp.kind # "none"
  /\ usOp.pc = "remove" => usOp.ret # "tidied"

(* The set at work is the pending one; its journal says how far it got.    *)
WorkInv ==
  /\ usPrevious.journal = "none"
  /\ ~usPending.is => usPending.journal = "none"
  /\ usOp.pc \in {"swapSets", "nameSet"} => usPending.journal = "none" /\ usOp.work.journal = "none"
  /\ (usOp.pc \in {"verify", "prepare", "journal", "tidied"} \/ (usOp.pc = "clean" /\ usOp.ret = "tidied")) =>
       /\ usPending.is /\ usPending.journal = "none" /\ usOp.work.is
       /\ usOp.work.gen = usPending.gen /\ usOp.work.lost = usPending.lost
       /\ usOp.pc \in {"prepare", "journal"} => usPending.lost = "nothing"
       /\ usWorld.single /\ usOp.kind = "apply" => Entries(usPending) = {Exe}
  /\ usOp.pc \in InSwap \cup {"rollback", "unjournal"} =>
       usPending = usOp.work /\ usPending.is /\ usPending.journal = "applying"
  /\ usOp.pc \in {"persist", "detach"} =>
       usPending = usOp.work /\ usPending.is /\ usPending.journal = "committed"
  /\ usOp.pc \in {"dropPending", "dropPrevious"} => usPending.journal = "none"
  /\ usPending.journal # "none" =>
       usPending.lost = "nothing" /\ (usWorld.single => Entries(usPending) = {Exe})
  /\ usOp.pc \in {"apply", "clear", "stage"} => usOp.kind = usOp.pc
  /\ usOp.pc \in {"verify", "prepare", "journal"} => usOp.kind = "apply"
  /\ (usOp.pc \in InSwap \cup {"rollback", "unjournal", "tidied"}
        \/ (usOp.pc = "clean" /\ usOp.ret = "tidied")) => usOp.kind \in {"apply", "clear"}

(* How far the swap, the rollback or the copying got.                      *)
SwapInv ==
  /\ usOp.pc \in {"prepare", "journal"} =>
       \A t \in Targets : t \in Entries(usPending) /\ (usOp.pc = "journal" \/ t <= usOp.k) =>
         usOp.work.orig[t] = usTarget[t]
  /\ usOp.pc \in InSwap =>
       \A t \in Targets : t \in Entries(usOp.work) /\ (usOp.pc = "commit" \/ t <= usOp.k) =>
         usTarget[t] = usOp.work.gen
  /\ usOp.pc = "swapIn" => usTarget[usOp.k + 1] = Absent /\ usOp.k + 1 \in Entries(usOp.work)
  /\ usOp.pc \in {"rollback", "unjournal"} /\ (usOp.pc = "unjournal" \/ usOp.full) =>
       \A t \in Targets : t \in Entries(usOp.work) /\ (usOp.pc = "unjournal" \/ t > N - usOp.k) =>
         usTarget[t] = usOp.work.orig[t]

(* Processes stage only releases newer than themselves.                    *)
Newer(set) == set.is => set.build < set.gen
BuildInv ==
  /\ Newer(usPending) /\ Newer(usPrevious) /\ Newer(usOp.work)
  /\ \A s \in usCommitted \cup usOp.todo : Newer(s)
  /\ usOp.kind = "stage" => usOp.build < usOp.gen
  /\ usApplied.src # usApplied.tgt => usApplied.build < usApplied.tgt
  /\ usOp.reexec => usOp.pc = "done" /\ usTarget[Exe] > usOp.build

(* Where running images can be deleted, no set is retained beside a        *)
(* transaction.                                                            *)
Unlocked == ~usWorld.locks
Kept ==
  Applying => \A t \in Targets :
    Covered(t) /\ usPending.orig[t] # Absent => usPending.orig[t] \in {usTarget[t], Backup(usPending, t)}
AfterSweep ==
  {"stage", "swapSets", "nameSet", "apply", "verify", "prepare", "journal", "swapOut",
   "swapIn", "commit", "persist", "detach", "rollback", "unjournal", "tidied", "clear",
   "dropPending"}
RetainInv ==
  /\ usCommitted # {} => ~Applying
  /\ usOp.pc \in AfterSweep => usCommitted = {}
  /\ usOp.pc = "sweep" => usCommitted \subseteq usOp.todo /\ (usOp.todo # {} => ~Applying)
  /\ usOp.pc \in {"clean", "remove"} =>
       /\ ~Applying /\ (usOp.pc = "remove" \/ usOp.ret # "tidied" => usOp.full)
       /\ usOp.ret = "sweep" => usCommitted \subseteq usOp.todo \cup {usOp.work}
       /\ usOp.ret = "tidied" => usCommitted = {} /\ usOp.pc = "clean"

IInv == Types /\ CounterInv /\ WorkInv /\ SwapInv /\ BuildInv

(* What every step does: it keeps the invariant, keeps the originals where *)
(* running images can be deleted, and is all-or-nothing.                   *)
Retained == Unlocked /\ RetainInv /\ Kept => RetainInv' /\ Kept'

Atomic ==
  /\ ~Applying => usTarget' = usTarget
  /\ Applying /\ ~Applying' =>
       \/ usPending'.journal = "committed" /\ \A t \in Targets : Covered(t) => usTarget'[t] = usPending.gen
       \/ usPending'.journal = "none" /\ \A t \in Targets : Covered(t) => usTarget'[t] = usPending.orig[t]

Good == IInv' /\ Retained /\ Atomic

-----------------------------------------------------------------------------
(* The fields of an operation that a step does not name stay.              *)
Args == <<usOp.kind, usOp.build, usOp.gen, usOp.todo, usOp.work, usOp.ret>>

(* GoTo moves the operation to another step and starts its count again.    *)
LEMMA OpGoTo ==
  ASSUME usOp \in Operation, NEW pc \in Steps, GoTo(pc)
  PROVE  /\ usOp' \in Operation /\ usOp'.pc = pc /\ usOp'.k = 0
         /\ UNCHANGED <<Args, usOp.full, usOp.failed, usOp.reexec>>
<1>1. 0 \in 0..2 * N
  BY UpdateAssumption, SMTT(60)
<1>2. usOp' = [usOp EXCEPT !.pc = pc, !.k = 0]
  BY Zenon DEF GoTo
<1> QED
  BY <1>1, <1>2, Zenon DEF Operation, Args

(* Walk goes on to the next file.                                          *)
LEMMA OpWalk ==
  ASSUME usOp \in Operation, NEW pc \in Steps, Walk(pc), usOp.k < 2 * N
  PROVE  /\ usOp' \in Operation /\ usOp'.pc = pc /\ usOp'.k = usOp.k + 1
         /\ UNCHANGED <<Args, usOp.full, usOp.failed, usOp.reexec>>
<1>1. usOp.k \in 0..2 * N
  BY Zenon DEF Operation
<1>2. usOp.k + 1 \in 0..2 * N
  BY <1>1, UpdateAssumption, SMTT(60)
<1>3. usOp' = [usOp EXCEPT !.pc = pc, !.k = usOp.k + 1]
  BY Zenon DEF Walk
<1> QED
  BY <1>2, <1>3, Zenon DEF Operation, Args

(* Fail ends the operation with an error.                                  *)
LEMMA OpFail ==
  ASSUME usOp \in Operation, Fail
  PROVE  /\ usOp' \in Operation /\ usOp'.pc = "done"
         /\ UNCHANGED <<Args, usOp.k, usOp.full, usOp.reexec>>
<1>1. usOp' = [usOp EXCEPT !.pc = "done", !.failed = TRUE]
  BY Zenon DEF Fail
<1> QED
  BY <1>1, Zenon DEF Operation, Args, Steps

(* Undo turns to the rollback.                                             *)
LEMMA OpUndo ==
  ASSUME usOp \in Operation, Undo
  PROVE  /\ usOp' \in Operation /\ usOp'.pc = "rollback" /\ usOp'.k = 0
         /\ usOp'.full = TRUE /\ UNCHANGED <<Args, usOp.reexec>>
<1>1. 0 \in 0..2 * N
  BY UpdateAssumption, SMTT(60)
<1>2. usOp' = [usOp EXCEPT !.pc = "rollback", !.k = 0, !.failed = TRUE, !.full = TRUE]
  BY Zenon DEF Undo
<1> QED
  BY <1>1, <1>2, Zenon DEF Operation, Args, Steps

(* Skip leaves an entry as it is, and the journal with it.                 *)
LEMMA OpSkip ==
  ASSUME usOp \in Operation, Skip, usOp.k < 2 * N
  PROVE  /\ usOp' \in Operation /\ usOp'.pc = usOp.pc /\ usOp'.k = usOp.k + 1
         /\ usOp'.full = FALSE /\ UNCHANGED <<Args, usOp.failed, usOp.reexec>>
<1>1. usOp.k \in 0..2 * N
  BY Zenon DEF Operation
<1>2. usOp.k + 1 \in 0..2 * N
  BY <1>1, UpdateAssumption, SMTT(60)
<1>3. usOp' = [usOp EXCEPT !.k = usOp.k + 1, !.full = FALSE]
  BY Zenon DEF Skip
<1> QED
  BY <1>2, <1>3, Zenon DEF Operation, Args

(* The fields of a set.                                                    *)
LEMMA SetFields ==
  ASSUME NEW s \in StagedSet
  PROVE  /\ s.is \in BOOLEAN /\ s.gen \in Gens /\ s.src \in 0..MaxGen /\ s.build \in Gens
         /\ s.lost \in Losses /\ s.journal \in Journals
         /\ s.orig \in [Targets -> 0..MaxGen] /\ s.slot \in [Targets -> Slots]
         /\ Entries(s) \subseteq Targets
<1>1. /\ s.is \in BOOLEAN /\ s.gen \in Gens /\ s.src \in 0..MaxGen /\ s.build \in Gens
      /\ s.lost \in Losses /\ s.journal \in Journals
      /\ s.orig \in [Targets -> 0..MaxGen] /\ s.slot \in [Targets -> Slots]
  BY Zenon DEF StagedSet
<1> QED
  BY <1>1, UpdateAssumption, Zenon DEF Entries, Gens

(* The fields of an operation.                                             *)
LEMMA OpFields ==
  ASSUME NEW o \in Operation
  PROVE  /\ o.kind \in Kinds /\ o.build \in Gens /\ o.pc \in Steps /\ o.gen \in Gens
         /\ o.k \in 0..2 * N /\ o.todo \subseteq StagedSet /\ o.work \in StagedSet
         /\ o.ret \in AfterClean /\ o.full \in BOOLEAN /\ o.failed \in BOOLEAN
         /\ o.reexec \in BOOLEAN
BY Zenon DEF Operation

(* What the assumption on the constants gives.                             *)
LEMMA Constants ==
  /\ N \in Nat /\ N > 0 /\ MaxGen \in Nat /\ MaxGen > 0 /\ Spares \in Nat
  /\ Exe \in Targets /\ 1 \in Gens /\ 0 \in Slots /\ Gens \subseteq 0..MaxGen
  /\ Absent = 0 /\ Absent \in 0..MaxGen /\ Absent \in 0..Torn /\ Torn \in 0..Torn
  /\ 0..MaxGen \subseteq 0..Torn /\ 0 \in 0..2 * N
BY UpdateAssumption, SMTT(60) DEF Exe, Targets, Gens, Slots, Absent, Torn

(* No set is a set that is not there, without a journal.                   *)
LEMMA NoSetTypes ==
  /\ NoOriginals \in [Targets -> 0..MaxGen] /\ NoOriginals \in [Targets -> Slots]
  /\ NoSet \in StagedSet /\ NoSet.is = FALSE /\ NoSet.journal = "none"
<1>1. NoOriginals \in [Targets -> 0..MaxGen] /\ NoOriginals \in [Targets -> Slots]
  BY Constants, Zenon DEF NoOriginals
<1>2. 1 \in 0..MaxGen /\ 1 \in Gens
  BY Constants, Zenon
<1>3. NoSet \in StagedSet /\ NoSet.is = FALSE /\ NoSet.journal = "none"
  BY <1>1, <1>2, Zenon DEF NoSet, StagedSet, Losses, Journals
<1> QED
  BY <1>1, <1>3, Zenon

-----------------------------------------------------------------------------
(* Frames.                                                                 *)
Quiet == UNCHANGED <<filesVars, usBuilds, usSpent, usWorld>>

(* Frame: the types of what a step leaves alone.                           *)
LEMMA Retyped ==
  ASSUME Types, usOp' \in Operation, UNCHANGED <<usBuilds, usSpent, usWorld>>,
         usTarget' \in [Targets -> 0..MaxGen], usPrepared' \in [Targets -> 0..Torn],
         usBackup' \in [Targets -> [Slots -> 0..MaxGen]], usPending' \in StagedSet,
         usPrevious' \in StagedSet, usCommitted' \subseteq StagedSet,
         usApplied' \in [src : 0..MaxGen, tgt : Gens, build : Gens]
  PROVE  Types'
BY Zenon DEF Types

(* Away from the transaction its clauses say nothing.                      *)
LEMMA NoSwap ==
  ASSUME usOp'.pc \notin {"prepare", "journal", "swapOut", "swapIn", "commit", "rollback", "unjournal"}
  PROVE  SwapInv'
BY Zenon DEF SwapInv, InSwap

(* What the fields of the operation and of the sets range over.            *)
LEMMA Ranges ==
  ASSUME Types
  PROVE  /\ usOp.kind \in Kinds /\ usOp.ret \in AfterClean /\ usOp.k \in 0..2 * N /\ usOp.pc \in Steps
         /\ usPending.is \in BOOLEAN /\ usPending.journal \in Journals /\ usOp.full \in BOOLEAN
         /\ usOp.work.is \in BOOLEAN /\ N \in Nat /\ N > 0
BY OpFields, SetFields, Constants, Zenon DEF Types

(* What the step does not touch is kept, and so is all when no transaction *)
(* is open.                                                                *)
LEMMA KeptSame ==
  ASSUME Kept, ~Applying' \/ UNCHANGED <<usPending, filesVars>>
  PROVE  Kept'
<1>1. CASE ~Applying'
  BY <1>1, Zenon DEF Kept
<1>2. CASE UNCHANGED <<usPending, filesVars>>
  BY <1>2, Zenon DEF Kept, Applying, Covered, Entries, Backup, filesVars
<1> QED
  BY <1>1, <1>2, Zenon

(* A step that leaves the pending set alone, or finds no open transaction. *)
LEMMA AtomicSame ==
  ASSUME \/ UNCHANGED usPending /\ (Applying \/ UNCHANGED usTarget)
         \/ ~Applying /\ UNCHANGED usTarget
  PROVE  Atomic
BY Zenon DEF Atomic, Applying

-----------------------------------------------------------------------------
(* The steps of an operation.                                              *)

(* recover_stage_swap gives up, or takes the previous set back where none  *)
(* is pending.                                                             *)
LEMMA RecoverKeeps ==
  ASSUME Types, CounterInv, WorkInv, SwapInv, BuildInv, RecoverSwap
  PROVE  Good
<1>1. /\ Types' /\ Quiet /\ usOp.pc = "recover" /\ UNCHANGED <<usCommitted, usApplied>>
      /\ UNCHANGED <<usOp.kind, usOp.build, usOp.gen, usOp.work, usOp.ret, usOp.reexec>>
      /\ \/ usOp'.pc = "done" /\ UNCHANGED <<usPending, usPrevious, usOp.todo>>
         \/ /\ usOp'.pc = "sweep" /\ usOp'.todo = usCommitted /\ usPrevious' = NoSet
            /\ usPending' = usPending \/ (usPending' = usPrevious /\ ~usPending.is)
  <2>0. usOp \in Operation
    BY Zenon DEF Types
  <2>1. usOp.pc = "recover" /\ Quiet /\ UNCHANGED <<usCommitted, usApplied>>
    BY Zenon DEF RecoverSwap, At, Same, Quiet
  <2>2. CASE Fail /\ UNCHANGED <<usPending, usPrevious>>
    BY <2>0, <2>1, <2>2, OpFail, Retyped, Zenon DEF Args, Types, Quiet, filesVars
  <2>3. CASE /\ usOp' = [usOp EXCEPT !.pc = "sweep", !.todo = usCommitted] /\ usPrevious' = NoSet
             /\ usPending' = IF usPrevious.is /\ ~usPending.is THEN usPrevious ELSE usPending
    <3>1. usCommitted \in SUBSET StagedSet
      BY Zenon DEF Types
    <3>2. /\ usOp' \in Operation /\ usOp'.pc = "sweep" /\ usOp'.todo = usCommitted
          /\ UNCHANGED <<usOp.kind, usOp.build, usOp.gen, usOp.work, usOp.ret, usOp.reexec>>
      BY <2>0, <2>3, <3>1, Zenon DEF Operation, Steps
    <3> QED
      BY <2>1, <2>3, <3>2, Retyped, NoSetTypes, Zenon DEF Types, Quiet, filesVars
  <2> QED
    BY <2>2, <2>3, Zenon DEF RecoverSwap
<1>2. IInv'
  <2>2. Types' /\ CounterInv'
    BY <1>1, Constants, Zenon DEF CounterInv, Args, Quiet, filesVars, setsVars
  <2>3. WorkInv'
    BY <1>1, NoSetTypes, Zenon DEF WorkInv, InSwap, Entries, Args, Quiet, filesVars, setsVars
  <2>4. SwapInv'
    BY <1>1, Zenon DEF SwapInv, WorkInv, InSwap, Entries, Args, Quiet, filesVars, setsVars
  <2>5. BuildInv'
    BY <1>1, NoSetTypes, Zenon DEF BuildInv, WorkInv, Newer, Args, Quiet, filesVars, setsVars
  <2> QED
    BY <2>2, <2>3, <2>4, <2>5, Zenon DEF IInv
<1>3. Retained
  <2> SUFFICES ASSUME Unlocked, RetainInv, Kept PROVE RetainInv' /\ Kept'
    BY Zenon DEF Retained
  <2>2. RetainInv'
    BY <1>1, NoSetTypes, Ranges, Zenon
       DEF RetainInv, CounterInv, WorkInv, Applying, AfterSweep, InSwap, Args, Quiet, filesVars,
           setsVars
  <2>3. Kept'
    <3>1. ~Applying' \/ UNCHANGED <<usPending, filesVars>>
      BY <1>1, NoSetTypes, Zenon DEF WorkInv, Applying, Args, Quiet, filesVars, setsVars
    <3> QED
      BY <3>1, KeptSame, Zenon
  <2> QED
    BY <2>2, <2>3, Zenon
<1>4. Atomic
  <2>1. UNCHANGED usTarget /\ (~Applying \/ UNCHANGED usPending)
    BY <1>1, Zenon DEF WorkInv, Quiet, filesVars, Applying
  <2> QED
    BY <2>1, AtomicSame, Zenon
<1> QED
  BY <1>2, <1>3, <1>4, Zenon DEF Good

(* The sweep goes on with the operation, fails, or takes a retained set to *)
(* clean.                                                                  *)
LEMMA SweepKeeps ==
  ASSUME Types, CounterInv, WorkInv, SwapInv, BuildInv, Sweep
  PROVE  Good
<1>1. /\ Types' /\ Quiet /\ usOp.pc = "sweep" /\ UNCHANGED setsVars
      /\ UNCHANGED <<usOp.kind, usOp.build, usOp.gen, usOp.reexec>>
      /\ \/ /\ usOp.todo = {} /\ usOp'.pc = usOp.kind /\ usOp.kind # "none"
            /\ UNCHANGED <<usOp.todo, usOp.work>>
         \/ usOp'.pc = "done" /\ UNCHANGED <<usOp.todo, usOp.work>>
         \/ /\ usOp'.pc = "clean" /\ usOp'.work \in usOp.todo /\ usOp'.full = TRUE
            /\ usOp'.ret = "sweep" /\ usOp'.todo = usOp.todo \ {usOp'.work}
  <2>0. usOp \in Operation /\ usOp.kind \in Kinds
    BY OpFields, Zenon DEF Types
  <2>1. usOp.pc = "sweep" /\ Quiet /\ UNCHANGED setsVars
    BY Zenon DEF Sweep, At, Same, Quiet
  <2>2. usOp.kind # "none"
    BY <2>1, Zenon DEF CounterInv
  <2>3. usOp' \in Operation => Types'
    BY <2>1, Retyped, Zenon DEF Types, Quiet, filesVars, setsVars
  <2>4. CASE usOp.todo = {} /\ GoTo(usOp.kind)
    <3>1. usOp.kind \in Steps
      BY <2>0, <2>2, Zenon DEF Kinds, Steps
    <3> QED
      BY <2>0, <2>1, <2>2, <2>3, <2>4, <3>1, OpGoTo, Zenon DEF Args
  <2>5. CASE Fail
    BY <2>0, <2>1, <2>3, <2>5, OpFail, Zenon DEF Args
  <2>6. ASSUME NEW s \in usOp.todo,
               usOp' = [usOp EXCEPT !.pc = "clean", !.k = 0, !.work = s, !.full = TRUE,
                                    !.ret = "sweep", !.todo = usOp.todo \ {s}]
        PROVE  /\ usOp' \in Operation /\ usOp'.pc = "clean" /\ usOp'.work = s
               /\ usOp'.full = TRUE /\ usOp'.ret = "sweep" /\ usOp'.todo = usOp.todo \ {s}
               /\ UNCHANGED <<usOp.kind, usOp.build, usOp.gen, usOp.reexec>>
    <3>1. s \in StagedSet /\ usOp.todo \ {s} \in SUBSET StagedSet /\ 0 \in 0..2 * N
      BY <2>0, OpFields, Constants, Zenon
    <3>2. usOp' \in Operation
      BY <2>0, <2>6, <3>1, Zenon DEF Operation, Steps, AfterClean
    <3>3. /\ usOp'.pc = "clean" /\ usOp'.work = s
          /\ usOp'.full = TRUE /\ usOp'.ret = "sweep" /\ usOp'.todo = usOp.todo \ {s}
      BY <2>0, <2>6, Zenon DEF Operation
    <3>4. UNCHANGED <<usOp.kind, usOp.build, usOp.gen, usOp.reexec>>
      BY <2>0, <2>6, Zenon DEF Operation
    <3> QED
      BY <3>2, <3>3, <3>4, Zenon
  <2>7. \/ usOp.todo = {} /\ GoTo(usOp.kind)
        \/ Fail
        \/ \E s \in usOp.todo :
              usOp' = [usOp EXCEPT !.pc = "clean", !.k = 0, !.work = s, !.full = TRUE,
                                   !.ret = "sweep", !.todo = usOp.todo \ {s}]
    BY Zenon DEF Sweep
  <2>8. CASE \E s \in usOp.todo :
              usOp' = [usOp EXCEPT !.pc = "clean", !.k = 0, !.work = s, !.full = TRUE,
                                   !.ret = "sweep", !.todo = usOp.todo \ {s}]
    BY <2>1, <2>3, <2>6, <2>8, Zenon
  <2> QED
    BY <2>4, <2>5, <2>7, <2>8, Zenon
<1>2. IInv'
  <2>0. usOp'.pc \in {"apply", "clear", "stage", "done", "clean"} /\ usOp.kind # "none"
    BY <1>1, Ranges, Zenon DEF CounterInv, Kinds
  <2>2. Types' /\ CounterInv'
    BY <2>0, <1>1, Zenon DEF CounterInv
  <2>3. WorkInv'
    <3>1. UNCHANGED <<usPending, usPrevious, usOp.kind>> /\ usPrevious.journal = "none"
      BY <1>1, Zenon DEF setsVars, WorkInv
    <3>2. ~(usOp'.pc = "clean" /\ usOp'.ret = "tidied") /\ UNCHANGED usWorld
      BY <1>1, Ranges, Zenon DEF Kinds, Quiet
    <3>3. usOp'.pc \in {"apply", "clear", "stage"} => usOp'.kind = usOp'.pc
      BY <1>1, Zenon
    <3> QED
      BY <2>0, <3>1, <3>2, <3>3, Zenon DEF WorkInv, InSwap, Entries
  <2>4. SwapInv'
    BY <2>0, NoSwap, Zenon
  <2>5. BuildInv'
    BY <1>1, NoSetTypes, Zenon DEF BuildInv, WorkInv, Newer, Args, Quiet, filesVars, setsVars
  <2> QED
    BY <2>2, <2>3, <2>4, <2>5, Zenon DEF IInv
<1>3. Retained
  <2> SUFFICES ASSUME Unlocked, RetainInv, Kept PROVE RetainInv' /\ Kept'
    BY Zenon DEF Retained
  <2>2. RetainInv'
    <3>1. /\ usOp.pc = "sweep" /\ UNCHANGED <<usCommitted, Applying>>
          /\ usCommitted \subseteq usOp.todo /\ (usOp.todo # {} => ~Applying)
      BY <1>1, Zenon DEF RetainInv, setsVars, Applying
    <3>2. (usCommitted # {} => ~Applying)'
      BY <3>1, Zenon DEF RetainInv
    <3>3. CASE usOp.todo = {} /\ usOp'.pc \notin {"clean", "remove", "sweep"}
      BY <3>1, <3>2, <3>3, Zenon DEF RetainInv
    <3>4. CASE usOp'.pc = "done"
      BY <3>2, <3>4, Zenon DEF RetainInv, AfterSweep
    <3>5. CASE /\ usOp'.pc = "clean" /\ usOp'.work \in usOp.todo /\ usOp'.full = TRUE
               /\ usOp'.ret = "sweep" /\ usOp'.todo = usOp.todo \ {usOp'.work}
      BY <3>1, <3>2, <3>5, Zenon DEF RetainInv, AfterSweep
    <3> QED
      BY <3>3, <3>4, <3>5, <1>1, Ranges, Zenon DEF Kinds
  <2>3. Kept'
    <3>1. ~Applying' \/ UNCHANGED <<usPending, filesVars>>
      BY <1>1, NoSetTypes, Zenon DEF WorkInv, Applying, Args, Quiet, filesVars, setsVars
    <3> QED
      BY <3>1, KeptSame, Zenon
  <2> QED
    BY <2>2, <2>3, Zenon
<1>4. Atomic
  <2>1. UNCHANGED <<usPending, usTarget>>
    BY <1>1, Zenon DEF Quiet, filesVars, setsVars
  <2> QED
    BY <2>1, AtomicSame, Zenon
<1> QED
  BY <1>2, <1>3, <1>4, Zenon DEF Good

(* Cleaning a file never touches a target; only a locked image stops it    *)
(* from being complete.                                                    *)
LEMMA CleanFileKeeps ==
  ASSUME Types, CounterInv, WorkInv, SwapInv, BuildInv, CleanFile
  PROVE  Good
<1>1. /\ Types' /\ UNCHANGED <<usTarget, setsVars, usWorld>> /\ usOp.pc = "clean"
      /\ UNCHANGED <<Args, usOp.reexec>>
      /\ \/ usOp'.pc = "clean" /\ (usOp'.full = usOp.full \/ usWorld.locks)
         \/ usOp'.pc = "done"
  <2> DEFINE w == usOp.work
  <2> DEFINE t == 1 + usOp.k \div 2
  <2>0. /\ usOp \in Operation /\ w \in StagedSet /\ usOp.k \in 0..2 * N
        /\ usPrepared \in [Targets -> 0..Torn] /\ usBackup \in [Targets -> [Slots -> 0..MaxGen]]
    BY OpFields, Zenon DEF Types
  <2>1. /\ usOp.pc = "clean" /\ UNCHANGED <<usTarget, setsVars, usBuilds, usSpent, usWorld>>
        /\ usOp.k < 2 * N
    BY Zenon DEF CleanFile, At, Same
  <2>2. "clean" \in Steps
    BY Zenon DEF Steps
  <2>3. ASSUME Walk("clean")
        PROVE  /\ usOp' \in Operation /\ usOp'.pc = "clean" /\ usOp'.full = usOp.full
               /\ UNCHANGED <<Args, usOp.reexec>>
    BY <2>0, <2>1, <2>2, <2>3, OpWalk, Zenon
  <2>4. ASSUME Fail PROVE usOp' \in Operation /\ usOp'.pc = "done" /\ UNCHANGED <<Args, usOp.reexec>>
    BY <2>0, <2>4, OpFail, Zenon
  <2>5. ASSUME usOp' = [usOp EXCEPT !.k = usOp.k + 1, !.full = FALSE]
        PROVE  usOp' \in Operation /\ usOp'.pc = "clean" /\ UNCHANGED <<Args, usOp.reexec>>
    BY <2>0, <2>1, <2>5, OpSkip, Zenon DEF Skip
  <2>6. ASSUME usOp' \in Operation, usPrepared' \in [Targets -> 0..Torn],
               usBackup' \in [Targets -> [Slots -> 0..MaxGen]]
        PROVE  Types'
    BY <2>1, <2>6, Retyped, Zenon DEF Types, setsVars
  <2>7. CASE Walk("clean") /\ UNCHANGED <<usPrepared, usBackup>>
    BY <2>0, <2>1, <2>3, <2>6, <2>7, Zenon
  <2>8. CASE CleanPrepared(w, t) /\ UNCHANGED usBackup
    <3>1. usPrepared' \in [Targets -> 0..Torn]
      BY <2>0, <2>8, Constants, Zenon DEF CleanPrepared
    <3>2. Walk("clean") \/ Fail
      BY <2>8, Zenon DEF CleanPrepared
    <3> QED
      BY <2>0, <2>1, <2>3, <2>4, <2>6, <2>8, <3>1, <3>2, Zenon
  <2>9. CASE CleanBackup(w, t) /\ UNCHANGED usPrepared
    <3>1. usBackup' \in [Targets -> [Slots -> 0..MaxGen]]
      <4>1. CASE UNCHANGED usBackup
        BY <2>0, <4>1, Zenon
      <4>2. CASE usBackup' = [usBackup EXCEPT ![t][w.slot[t]] = Absent]
        BY <2>0, <4>2, Constants, Zenon
      <4> QED
        BY <2>9, <4>1, <4>2, Zenon DEF CleanBackup
    <3>2. \/ Walk("clean") \/ Fail
          \/ usWorld.locks /\ usOp' = [usOp EXCEPT !.k = usOp.k + 1, !.full = FALSE]
      BY <2>9, Zenon DEF CleanBackup
    <3> QED
      BY <2>0, <2>1, <2>3, <2>4, <2>5, <2>6, <2>9, <3>1, <3>2, Zenon
  <2> QED
    BY <2>7, <2>8, <2>9, Zenon DEF CleanFile
<1>2. IInv'
  <2>2. Types' /\ CounterInv'
    BY <1>1, Constants, Zenon DEF CounterInv, Args, Quiet, filesVars, setsVars
  <2>3. WorkInv'
    BY <1>1, NoSetTypes, Zenon DEF WorkInv, InSwap, Entries, Args, Quiet, filesVars, setsVars
  <2>4. SwapInv'
    BY <1>1, Zenon DEF SwapInv, WorkInv, InSwap, Entries, Args, Quiet, filesVars, setsVars
  <2>5. BuildInv'
    BY <1>1, NoSetTypes, Zenon DEF BuildInv, WorkInv, Newer, Args, Quiet, filesVars, setsVars
  <2> QED
    BY <2>2, <2>3, <2>4, <2>5, Zenon DEF IInv
<1>3. Retained
  <2> SUFFICES ASSUME Unlocked, RetainInv, Kept PROVE RetainInv' /\ Kept'
    BY Zenon DEF Retained
  <2>0. /\ usOp.pc = "clean" /\ UNCHANGED <<usCommitted, Applying, usOp.ret, usOp.todo, usOp.work>> /\ ~Applying
        /\ (usOp'.pc = "clean" /\ UNCHANGED usOp.full) \/ usOp'.pc = "done"
    <3>1. ~usWorld.locks
      BY Zenon DEF Unlocked
    <3> QED
      BY <3>1, <1>1, Zenon DEF RetainInv, setsVars, Applying, Args
  <2>2. RetainInv'
    BY <2>0, Zenon DEF RetainInv, AfterSweep
  <2>3. Kept'
    BY <2>0, Zenon DEF Kept
  <2> QED
    BY <2>2, <2>3, Zenon
<1>4. Atomic
  <2>1. UNCHANGED <<usPending, usTarget>>
    BY <1>1, Zenon DEF Quiet, filesVars, setsVars
  <2> QED
    BY <2>1, AtomicSame, Zenon
<1> QED
  BY <1>2, <1>3, <1>4, Zenon DEF Good

(* A cleaned set is removed if nothing of it stays.                        *)
LEMMA CleanedKeeps ==
  ASSUME Types, CounterInv, WorkInv, SwapInv, BuildInv, Cleaned
  PROVE  Good
<1>1. /\ Types' /\ Quiet /\ UNCHANGED setsVars /\ usOp.pc = "clean"
      /\ UNCHANGED <<Args, usOp.full, usOp.reexec>>
      /\ usOp'.pc = IF usOp.full /\ usOp.ret # "tidied" THEN "remove" ELSE usOp.ret
  <2>1. usOp \in Operation /\ usOp.ret \in AfterClean
    BY OpFields, Zenon DEF Types
  <2>2. /\ Quiet /\ UNCHANGED setsVars /\ usOp.pc = "clean"
        /\ GoTo(IF usOp.full /\ usOp.ret # "tidied" THEN "remove" ELSE usOp.ret)
    BY Zenon DEF Cleaned, At, Same, Quiet
  <2>3. (IF usOp.full /\ usOp.ret # "tidied" THEN "remove" ELSE usOp.ret) \in Steps
    BY <2>1, Zenon DEF AfterClean, Steps
  <2>4. /\ usOp' \in Operation /\ UNCHANGED <<Args, usOp.full, usOp.reexec>>
        /\ usOp'.pc = IF usOp.full /\ usOp.ret # "tidied" THEN "remove" ELSE usOp.ret
    BY <2>1, <2>2, <2>3, OpGoTo, Zenon
  <2> QED
    BY <2>2, <2>4, Retyped, Zenon DEF Types, Quiet, filesVars, setsVars
<1>2. IInv'
  <2>0. usOp'.pc \in {"remove", "done", "sweep", "decide", "tidied"} /\ (usOp'.pc = "tidied" => usOp.ret = "tidied")
    BY <1>1, Ranges, Zenon DEF AfterClean
  <2>2. Types' /\ CounterInv'
    BY <2>0, <1>1, Zenon DEF CounterInv, Args
  <2>3. WorkInv'
    BY <2>0, <1>1, Zenon DEF WorkInv, InSwap, Entries, Args, Quiet, setsVars
  <2>4. SwapInv'
    BY <2>0, NoSwap, Zenon
  <2>5. BuildInv'
    BY <1>1, NoSetTypes, Zenon DEF BuildInv, WorkInv, Newer, Args, Quiet, filesVars, setsVars
  <2> QED
    BY <2>2, <2>3, <2>4, <2>5, Zenon DEF IInv
<1>3. Retained
  <2> SUFFICES ASSUME Unlocked, RetainInv, Kept PROVE RetainInv' /\ Kept'
    BY Zenon DEF Retained
  <2>2. RetainInv'
    BY <1>1, NoSetTypes, Ranges, Zenon
       DEF RetainInv, CounterInv, WorkInv, Applying, AfterSweep, InSwap, Args, Quiet, filesVars,
           setsVars
  <2>3. Kept'
    <3>1. ~Applying' \/ UNCHANGED <<usPending, filesVars>>
      BY <1>1, NoSetTypes, Zenon DEF WorkInv, Applying, Args, Quiet, filesVars, setsVars
    <3> QED
      BY <3>1, KeptSame, Zenon
  <2> QED
    BY <2>2, <2>3, Zenon
<1>4. Atomic
  <2>1. UNCHANGED <<usPending, usTarget>>
    BY <1>1, Zenon DEF Quiet, filesVars, setsVars
  <2> QED
    BY <2>1, AtomicSame, Zenon
<1> QED
  BY <1>2, <1>3, <1>4, Zenon DEF Good

(* The three renames of staging, in order.                                 *)
LEMMA StagingKeeps ==
  ASSUME Types, CounterInv, WorkInv, SwapInv, BuildInv, MovePending \/ NameSet \/ DropPrevious
  PROVE  Good
<1>1. /\ Types' /\ Quiet /\ UNCHANGED <<usCommitted, usApplied, Args, usOp.reexec>>
      /\ \/ /\ usOp.pc = "swapSets" /\ usOp'.pc = "nameSet" /\ usPending' = NoSet
            /\ usPrevious' \in {usPending, usPrevious}
         \/ /\ usOp.pc = "nameSet" /\ usOp'.pc = "dropPrevious" /\ usPending' = usOp.work
            /\ usPrevious' = usPrevious
         \/ /\ usOp.pc = "dropPrevious" /\ usOp'.pc = "done" /\ usPending' = usPending
            /\ usPrevious' = NoSet
  <2>1. usOp \in Operation /\ usOp.work \in StagedSet /\ NoSet \in StagedSet
    BY OpFields, NoSetTypes, Zenon DEF Types
  <2>2. Quiet /\ UNCHANGED <<usCommitted, usApplied>>
    BY Zenon DEF MovePending, NameSet, DropPrevious, Same, Quiet
  <2>3. ASSUME usOp' \in Operation, usPending' \in StagedSet, usPrevious' \in StagedSet PROVE Types'
    BY <2>2, <2>3, Retyped, Zenon DEF Types, Quiet, filesVars
  <2>4. {"nameSet", "dropPrevious", "done"} \subseteq Steps
    BY Zenon DEF Steps
  <2>5. CASE MovePending
    BY <2>1, <2>2, <2>3, <2>4, <2>5, OpGoTo, Zenon DEF MovePending, At, Types
  <2>6. CASE NameSet
    BY <2>1, <2>2, <2>3, <2>4, <2>6, OpGoTo, Zenon DEF NameSet, At, Types, Same
  <2>7. CASE DropPrevious
    BY <2>1, <2>2, <2>3, <2>4, <2>7, OpGoTo, Zenon DEF DropPrevious, At, Types, Same
  <2> QED
    BY <2>5, <2>6, <2>7, Zenon
<1>2. IInv'
  <2>2. Types' /\ CounterInv'
    BY <1>1, Constants, Zenon DEF CounterInv, Args, Quiet, filesVars, setsVars
  <2>3. WorkInv'
    BY <1>1, NoSetTypes, Zenon DEF WorkInv, InSwap, Entries, Args, Quiet, filesVars, setsVars
  <2>4. SwapInv'
    BY <1>1, Zenon DEF SwapInv, WorkInv, InSwap, Entries, Args, Quiet, filesVars, setsVars
  <2>5. BuildInv'
    BY <1>1, NoSetTypes, Zenon DEF BuildInv, WorkInv, Newer, Args, Quiet, filesVars, setsVars
  <2> QED
    BY <2>2, <2>3, <2>4, <2>5, Zenon DEF IInv
<1>3. Retained
  <2> SUFFICES ASSUME Unlocked, RetainInv, Kept PROVE RetainInv' /\ Kept'
    BY Zenon DEF Retained
  <2>2. RetainInv'
    BY <1>1, NoSetTypes, Ranges, Zenon
       DEF RetainInv, CounterInv, WorkInv, Applying, AfterSweep, InSwap, Args, Quiet, filesVars,
           setsVars
  <2>3. Kept'
    <3>1. ~Applying' \/ UNCHANGED <<usPending, filesVars>>
      BY <1>1, NoSetTypes, Zenon DEF WorkInv, Applying, Args, Quiet, filesVars, setsVars
    <3> QED
      BY <3>1, KeptSame, Zenon
  <2> QED
    BY <2>2, <2>3, Zenon
<1>4. Atomic
  <2>1. UNCHANGED usTarget /\ (~Applying \/ UNCHANGED usPending)
    BY <1>1, Zenon DEF WorkInv, Quiet, filesVars, Applying
  <2> QED
    BY <2>1, AtomicSame, Zenon
<1> QED
  BY <1>2, <1>3, <1>4, Zenon DEF Good

(* A set is prepared only if all its components are there.                 *)
LEMMA VerifyKeeps ==
  ASSUME Types, CounterInv, WorkInv, SwapInv, BuildInv, Verify
  PROVE  Good
<1>1. /\ Types' /\ Quiet /\ UNCHANGED <<usPrevious, usCommitted, usApplied>>
      /\ usOp.pc = "verify" /\ UNCHANGED <<Args, usOp.reexec>>
      /\ \/ usOp'.pc = "prepare" /\ usOp'.k = 0 /\ usPending' = usPending
            /\ usPending.lost = "nothing"
         \/ usOp'.pc = "done" /\ usPending' \in {usPending, NoSet}
  <2>1. usOp \in Operation /\ usPending \in StagedSet /\ NoSet \in StagedSet
    BY NoSetTypes, Zenon DEF Types
  <2>2. Quiet /\ UNCHANGED <<usPrevious, usCommitted, usApplied>> /\ usOp.pc = "verify"
    BY Zenon DEF Verify, At, Same, Quiet
  <2>3. ASSUME usOp' \in Operation, usPending' \in StagedSet PROVE Types'
    BY <2>2, <2>3, Retyped, Zenon DEF Types, Quiet, filesVars
  <2>4. "prepare" \in Steps
    BY Zenon DEF Steps
  <2>5. \/ usPending.lost = "nothing" /\ GoTo("prepare") /\ UNCHANGED usPending
        \/ Fail /\ usPending' \in {usPending, NoSet}
    BY Zenon DEF Verify, Rejects
  <2> QED
    BY <2>1, <2>2, <2>3, <2>4, <2>5, OpGoTo, OpFail, Zenon
<1>2. IInv'
  <2>2. Types' /\ CounterInv'
    BY <1>1, Constants, SMTT(60) DEF CounterInv, Args, Quiet, filesVars, setsVars
  <2>3. WorkInv'
    BY <1>1, NoSetTypes, Zenon DEF WorkInv, InSwap, Entries, Args, Quiet, filesVars, setsVars
  <2>4. SwapInv'
    <3>1. usOp'.pc = "done" \/ (usOp'.pc = "prepare" /\ usOp'.k = 0)
      BY <1>1, Zenon
    <3> QED
      BY <3>1, NoSwap, Constants, SMTT(60) DEF SwapInv, InSwap, Targets
  <2>5. BuildInv'
    BY <1>1, NoSetTypes, Zenon DEF BuildInv, WorkInv, Newer, Args, Quiet, filesVars, setsVars
  <2> QED
    BY <2>2, <2>3, <2>4, <2>5, Zenon DEF IInv
<1>3. Retained
  <2> SUFFICES ASSUME Unlocked, RetainInv, Kept PROVE RetainInv' /\ Kept'
    BY Zenon DEF Retained
  <2>2. RetainInv'
    BY <1>1, NoSetTypes, Ranges, Zenon
       DEF RetainInv, CounterInv, WorkInv, Applying, AfterSweep, InSwap, Args, Quiet, filesVars,
           setsVars
  <2>3. Kept'
    <3>1. ~Applying' \/ UNCHANGED <<usPending, filesVars>>
      BY <1>1, NoSetTypes, Zenon DEF WorkInv, Applying, Args, Quiet, filesVars, setsVars
    <3> QED
      BY <3>1, KeptSame, Zenon
  <2> QED
    BY <2>2, <2>3, Zenon
<1>4. Atomic
  <2>1. UNCHANGED usTarget /\ ~Applying
    BY <1>1, Zenon DEF WorkInv, Quiet, filesVars, Applying
  <2> QED
    BY <2>1, AtomicSame, Zenon
<1> QED
  BY <1>2, <1>3, <1>4, Zenon DEF Good

(* The original of an entry steps aside, into the backup the journal       *)
(* names.                                                                  *)
LEMMA SwapOutKeeps ==
  ASSUME Types, CounterInv, WorkInv, SwapInv, BuildInv, SwapOut
  PROVE  Good
<1>1. /\ Types' /\ UNCHANGED <<usPrepared, setsVars, usWorld>> /\ usOp.pc = "swapOut"
      /\ UNCHANGED <<Args, usOp.reexec>> /\ usOp.k \in 0..N
      /\ \/ usOp.k = N /\ usOp'.pc = "commit" /\ UNCHANGED filesVars
         \/ /\ usOp.k < N /\ usOp'.pc = "swapOut" /\ usOp'.k = usOp.k + 1 /\ UNCHANGED filesVars
            /\ usOp.k + 1 \notin Entries(usOp.work)
         \/ usOp'.pc = "rollback" /\ usOp'.k = 0 /\ usOp'.full = TRUE /\ UNCHANGED filesVars
         \/ /\ usOp.k < N /\ usOp'.pc = "swapIn" /\ usOp'.k = usOp.k
            /\ usOp.k + 1 \in Entries(usOp.work)
            /\ usTarget' = [usTarget EXCEPT ![usOp.k + 1] = Absent]
            /\ usBackup' = IF usOp.work.orig[usOp.k + 1] = Absent THEN usBackup
                           ELSE [usBackup EXCEPT ![usOp.k + 1][usOp.work.slot[usOp.k + 1]]
                                     = usOp.work.orig[usOp.k + 1]]
  <2> DEFINE w == usOp.work
  <2> DEFINE t == usOp.k + 1
  <2>0. /\ usOp \in Operation /\ w \in StagedSet /\ w.orig \in [Targets -> 0..MaxGen]
        /\ w.slot \in [Targets -> Slots] /\ usTarget \in [Targets -> 0..MaxGen]
        /\ usBackup \in [Targets -> [Slots -> 0..MaxGen]] /\ usOp.k \in 0..2 * N
    BY OpFields, SetFields, Zenon DEF Types
  <2>1. usOp.pc = "swapOut" /\ UNCHANGED <<usPrepared, setsVars, usBuilds, usSpent, usWorld>>
    BY Zenon DEF SwapOut, At, Same
  <2>2. usOp.k \in 0..N /\ (usOp.k # N => usOp.k < N /\ t \in Targets /\ usOp.k < 2 * N)
    <3>1. usOp.k <= N /\ N \in Nat /\ N > 0
      BY <2>1, Constants, Zenon DEF CounterInv
    <3>2. usOp.k \in Nat
      BY <2>0, <3>1, SMTT(60)
    <3> QED
      BY <3>1, <3>2, SMTT(60) DEF Targets
  <2>3. ASSUME usOp' \in Operation, usTarget' \in [Targets -> 0..MaxGen],
               usBackup' \in [Targets -> [Slots -> 0..MaxGen]]
        PROVE  Types'
    BY <2>1, <2>3, Retyped, Zenon DEF Types, setsVars
  <2>4. {"swapOut", "swapIn", "commit"} \subseteq Steps
    BY Zenon DEF Steps
  <2>5. CASE usOp.k = N /\ GoTo("commit") /\ UNCHANGED <<usTarget, usBackup>>
    BY <2>0, <2>1, <2>2, <2>3, <2>4, <2>5, OpGoTo, Zenon DEF filesVars
  <2>6. CASE /\ usOp.k # N /\ t \notin Entries(w) /\ Walk("swapOut")
             /\ UNCHANGED <<usTarget, usBackup>>
    BY <2>0, <2>1, <2>2, <2>3, <2>4, <2>6, OpWalk, Zenon DEF filesVars
  <2>7. CASE Undo /\ UNCHANGED <<usTarget, usBackup>>
    BY <2>0, <2>1, <2>2, <2>3, <2>4, <2>7, OpUndo, Zenon DEF filesVars
  <2>8. CASE /\ usOp.k # N /\ t \in Entries(w) /\ usOp' = [usOp EXCEPT !.pc = "swapIn"]
             /\ usTarget' = [usTarget EXCEPT ![t] = Absent]
             /\ usBackup' = IF w.orig[t] = Absent THEN usBackup
                            ELSE [usBackup EXCEPT ![t][w.slot[t]] = w.orig[t]]
    <3>1. /\ usOp' \in Operation /\ usOp'.pc = "swapIn" /\ usOp'.k = usOp.k
          /\ UNCHANGED <<Args, usOp.reexec>>
      BY <2>0, <2>4, <2>8, Zenon DEF Operation, Args, Steps
    <3>2. usTarget' \in [Targets -> 0..MaxGen]
      BY <2>0, <2>8, Constants, Zenon
    <3>3. usBackup' \in [Targets -> [Slots -> 0..MaxGen]]
      <4>1. w.orig[t] \in 0..MaxGen
        BY <2>0, <2>2, <2>8, Zenon
      <4> QED
        BY <2>0, <2>8, <4>1, Zenon
    <3> QED
      BY <2>1, <2>2, <2>3, <2>8, <3>1, <3>2, <3>3, Zenon
  <2>9. \/ usOp.k = N /\ GoTo("commit") /\ UNCHANGED <<usTarget, usBackup>>
        \/ /\ usOp.k # N /\ t \notin Entries(w) /\ Walk("swapOut")
           /\ UNCHANGED <<usTarget, usBackup>>
        \/ Undo /\ UNCHANGED <<usTarget, usBackup>>
        \/ /\ usOp.k # N /\ t \in Entries(w) /\ usOp' = [usOp EXCEPT !.pc = "swapIn"]
           /\ usTarget' = [usTarget EXCEPT ![t] = Absent]
           /\ usBackup' = IF w.orig[t] = Absent THEN usBackup
                          ELSE [usBackup EXCEPT ![t][w.slot[t]] = w.orig[t]]
    BY Zenon DEF SwapOut
  <2> QED
    BY <2>5, <2>6, <2>7, <2>8, <2>9, Zenon
<1>2. IInv'
  <2>2. Types' /\ CounterInv'
    <3>1. /\ usOp.k \in 0..N /\ N \in Nat
          /\ \/ usOp'.pc = "commit" \/ (usOp.k < N /\ usOp'.pc = "swapOut" /\ usOp'.k = usOp.k + 1)
             \/ usOp'.pc = "rollback" /\ usOp'.k = 0
             \/ usOp.k < N /\ usOp'.pc = "swapIn" /\ usOp'.k = usOp.k
      BY <1>1, Constants, Zenon
    <3>2. CounterInv'
      BY <3>1, SMTT(60) DEF CounterInv
    <3> QED
      BY <3>2, <1>1, Zenon
  <2>3. WorkInv'
    BY <1>1, NoSetTypes, Zenon DEF WorkInv, InSwap, Entries, Args, Quiet, filesVars, setsVars
  <2>4. SwapInv'
    <3>1. /\ usOp.k \in 0..N /\ N \in Nat /\ usOp.pc = "swapOut" /\ UNCHANGED <<usPending, usOp.work>>
          /\ \A t \in Targets : t \in Entries(usOp.work) /\ t <= usOp.k => usTarget[t] = usOp.work.gen
          /\ usTarget \in [Targets -> 0..MaxGen] /\ Entries(usOp.work) \subseteq Targets
      BY <1>1, Constants, OpFields, SetFields, Zenon
         DEF setsVars, SwapInv, InSwap, Args, Types
    <3>2. CASE usOp.k = N /\ usOp'.pc = "commit" /\ UNCHANGED filesVars
      BY <3>1, <3>2, SMTT(60) DEF SwapInv, InSwap, Entries, Targets, filesVars
    <3>3. CASE /\ usOp'.pc = "swapOut" /\ usOp'.k = usOp.k + 1 /\ UNCHANGED filesVars
               /\ usOp.k + 1 \notin Entries(usOp.work)
      BY <3>1, <3>3, SMTT(60) DEF SwapInv, InSwap, Entries, Targets, filesVars
    <3>4. CASE usOp'.pc = "rollback" /\ usOp'.k = 0
      BY <3>1, <3>4, SMTT(60) DEF SwapInv, InSwap, Targets
    <3>5. CASE /\ usOp'.pc = "swapIn" /\ usOp'.k = usOp.k /\ usOp.k + 1 \in Entries(usOp.work)
               /\ usTarget' = [usTarget EXCEPT ![usOp.k + 1] = Absent]
      <4>1. usOp.k + 1 \in Targets /\ usTarget'[usOp.k + 1] = Absent
        BY <3>1, <3>5, Zenon
      <4>2. \A t \in Targets : t <= usOp.k => usTarget'[t] = usTarget[t]
        BY <3>1, <3>5, SMTT(60) DEF Targets
      <4> QED
        BY <3>1, <3>5, <4>1, <4>2, Zenon DEF SwapInv, InSwap, Entries
    <3> QED
      BY <3>2, <3>3, <3>4, <3>5, <1>1, Zenon
  <2>5. BuildInv'
    BY <1>1, NoSetTypes, Zenon DEF BuildInv, WorkInv, Newer, Args, Quiet, filesVars, setsVars
  <2> QED
    BY <2>2, <2>3, <2>4, <2>5, Zenon DEF IInv
<1>3. Retained
  <2> SUFFICES ASSUME Unlocked, RetainInv, Kept PROVE RetainInv' /\ Kept'
    BY Zenon DEF Retained
  <2>2. RetainInv'
    BY <1>1, NoSetTypes, Ranges, Zenon
       DEF RetainInv, CounterInv, WorkInv, Applying, AfterSweep, InSwap, Args, Quiet, filesVars,
           setsVars
  <2>3. Kept'
    <3>1. /\ usPending = usOp.work /\ usPending \in StagedSet /\ Applying /\ UNCHANGED <<usPending, usOp.work>>
          /\ usTarget \in [Targets -> 0..MaxGen] /\ usBackup \in [Targets -> [Slots -> 0..MaxGen]]
          /\ usPending.slot \in [Targets -> Slots]
      BY <1>1, SetFields, Zenon DEF WorkInv, Applying, setsVars, Args, InSwap, Types
    <3>2. SUFFICES ASSUME NEW u \in Targets, Covered(u), usPending.orig[u] # Absent
                   PROVE  usPending.orig[u] \in {usTarget'[u], usBackup'[u][usPending.slot[u]]}
      BY <3>1, Zenon DEF Kept, Covered, Entries, Backup
    <3>3. usPending.orig[u] \in {usTarget[u], usBackup[u][usPending.slot[u]]}
      BY <3>1, <3>2, Zenon DEF Kept, Backup
    <3>4. CASE UNCHANGED filesVars
      BY <3>3, <3>4, Zenon DEF filesVars
    <3>5. CASE /\ usTarget' = [usTarget EXCEPT ![usOp.k + 1] = Absent]
               /\ usBackup' = IF usOp.work.orig[usOp.k + 1] = Absent THEN usBackup
                              ELSE [usBackup EXCEPT ![usOp.k + 1][usOp.work.slot[usOp.k + 1]]
                                        = usOp.work.orig[usOp.k + 1]]
      <4>1. CASE u = usOp.k + 1
        <5>1. usBackup' = [usBackup EXCEPT ![u][usPending.slot[u]] = usPending.orig[u]]
          BY <3>1, <3>2, <3>5, <4>1, Zenon
        <5>2. usPending.slot[u] \in Slots
          BY <3>1, Zenon
        <5> QED
          BY <3>1, <5>1, <5>2, Zenon
      <4>2. CASE u # usOp.k + 1
        <5>1. usTarget'[u] = usTarget[u] /\ usBackup'[u] = usBackup[u]
          BY <3>1, <3>5, <4>2, Zenon
        <5> QED
          BY <3>3, <5>1, Zenon
      <4> QED
        BY <4>1, <4>2, Zenon
    <3> QED
      BY <3>4, <3>5, <1>1, Zenon
  <2> QED
    BY <2>2, <2>3, Zenon
<1>4. Atomic
  <2>1. UNCHANGED usPending /\ Applying
    BY <1>1, Zenon DEF setsVars, WorkInv, InSwap, Applying
  <2> QED
    BY <2>1, AtomicSame, Zenon
<1> QED
  BY <1>2, <1>3, <1>4, Zenon DEF Good

(* The prepared copy takes its place, or the rollback begins.              *)
LEMMA SwapInKeeps ==
  ASSUME Types, CounterInv, WorkInv, SwapInv, BuildInv, SwapIn
  PROVE  Good
<1>1. /\ Types' /\ UNCHANGED <<usBackup, setsVars, usWorld>> /\ usOp.pc = "swapIn"
      /\ UNCHANGED <<Args, usOp.reexec>> /\ usOp.k \in 0..(N - 1)
      /\ \/ /\ usOp'.pc = "swapOut" /\ usOp'.k = usOp.k + 1
            /\ usTarget' = [usTarget EXCEPT ![usOp.k + 1] = usOp.work.gen]
         \/ usOp'.pc = "rollback" /\ usOp'.k = 0 /\ usOp'.full = TRUE /\ UNCHANGED usTarget
  <2> DEFINE t == usOp.k + 1
  <2>0. /\ usOp \in Operation /\ usOp.work \in StagedSet /\ usOp.work.gen \in 0..MaxGen
        /\ usTarget \in [Targets -> 0..MaxGen] /\ usPrepared \in [Targets -> 0..Torn]
        /\ usOp.k \in 0..2 * N
    BY OpFields, SetFields, Constants, Zenon DEF Types
  <2>1. usOp.pc = "swapIn" /\ UNCHANGED <<usBackup, setsVars, usBuilds, usSpent, usWorld>>
    BY Zenon DEF SwapIn, At, Same
  <2>2. usOp.k \in 0..(N - 1) /\ usOp.k < 2 * N
    BY <2>0, <2>1, Constants, SMTT(60) DEF CounterInv
  <2>3. ASSUME usOp' \in Operation, usTarget' \in [Targets -> 0..MaxGen],
               usPrepared' \in [Targets -> 0..Torn]
        PROVE  Types'
    BY <2>1, <2>3, Retyped, Zenon DEF Types, setsVars
  <2>4. CASE /\ Walk("swapOut") /\ usTarget' = [usTarget EXCEPT ![t] = usOp.work.gen]
             /\ usPrepared' = [usPrepared EXCEPT ![t] = Absent]
    <3>1. "swapOut" \in Steps
      BY Zenon DEF Steps
    <3>2. usTarget' \in [Targets -> 0..MaxGen] /\ usPrepared' \in [Targets -> 0..Torn]
      BY <2>0, <2>4, Constants, Zenon
    <3> QED
      BY <2>0, <2>1, <2>2, <2>3, <2>4, <3>1, <3>2, OpWalk, Zenon
  <2>5. CASE Undo /\ UNCHANGED <<usTarget, usPrepared>>
    BY <2>0, <2>1, <2>2, <2>3, <2>5, OpUndo, Zenon
  <2> QED
    BY <2>4, <2>5, Zenon DEF SwapIn
<1>2. IInv'
  <2>2. Types' /\ CounterInv'
    <3>1. /\ usOp.k \in 0..(N - 1) /\ N \in Nat
          /\ (usOp'.pc = "swapOut" /\ usOp'.k = usOp.k + 1) \/ (usOp'.pc = "rollback" /\ usOp'.k = 0)
      BY <1>1, Constants, Zenon
    <3>2. CounterInv'
      BY <3>1, SMTT(60) DEF CounterInv
    <3> QED
      BY <3>2, <1>1, Zenon
  <2>3. WorkInv'
    BY <1>1, NoSetTypes, Zenon DEF WorkInv, InSwap, Entries, Args, Quiet, filesVars, setsVars
  <2>4. SwapInv'
    <3>1. /\ usOp.k \in 0..(N - 1) /\ N \in Nat /\ usOp.pc = "swapIn" /\ UNCHANGED <<usPending, usOp.work>>
          /\ \A t \in Targets : t \in Entries(usOp.work) /\ t <= usOp.k => usTarget[t] = usOp.work.gen
          /\ usTarget \in [Targets -> 0..MaxGen]
      BY <1>1, Constants, Zenon DEF setsVars, SwapInv, InSwap, Args, Types
    <3>2. CASE usOp'.pc = "rollback" /\ usOp'.k = 0
      BY <3>1, <3>2, SMTT(60) DEF SwapInv, InSwap, Targets
    <3>3. CASE /\ usOp'.pc = "swapOut" /\ usOp'.k = usOp.k + 1
               /\ usTarget' = [usTarget EXCEPT ![usOp.k + 1] = usOp.work.gen]
      <4>1. \A t \in Targets : t <= usOp.k + 1 => t <= usOp.k \/ t = usOp.k + 1
        BY <3>1, SMTT(60) DEF Targets
      <4>2. \A t \in Targets : t \in Entries(usOp.work) /\ t <= usOp.k + 1 => usTarget'[t] = usOp.work.gen
        BY <3>1, <3>3, <4>1, Zenon
      <4> QED
        BY <3>1, <3>3, <4>2, Zenon DEF SwapInv, InSwap, Entries
    <3> QED
      BY <3>2, <3>3, <1>1, Zenon
  <2>5. BuildInv'
    BY <1>1, NoSetTypes, Zenon DEF BuildInv, WorkInv, Newer, Args, Quiet, filesVars, setsVars
  <2> QED
    BY <2>2, <2>3, <2>4, <2>5, Zenon DEF IInv
<1>3. Retained
  <2> SUFFICES ASSUME Unlocked, RetainInv, Kept PROVE RetainInv' /\ Kept'
    BY Zenon DEF Retained
  <2>2. RetainInv'
    BY <1>1, NoSetTypes, Ranges, Zenon
       DEF RetainInv, CounterInv, WorkInv, Applying, AfterSweep, InSwap, Args, Quiet, filesVars,
           setsVars
  <2>3. Kept'
    <3>1. /\ usPending = usOp.work /\ usPending \in StagedSet /\ Applying /\ UNCHANGED <<usPending, usOp.work>>
          /\ usTarget \in [Targets -> 0..MaxGen] /\ usBackup \in [Targets -> [Slots -> 0..MaxGen]]
          /\ usPending.slot \in [Targets -> Slots]
      BY <1>1, SetFields, Zenon DEF WorkInv, Applying, setsVars, Args, InSwap, Types
    <3>2. SUFFICES ASSUME NEW u \in Targets, Covered(u), usPending.orig[u] # Absent
                   PROVE  usPending.orig[u] \in {usTarget'[u], usBackup'[u][usPending.slot[u]]}
      BY <3>1, Zenon DEF Kept, Covered, Entries, Backup
    <3>3. usPending.orig[u] \in {usTarget[u], usBackup[u][usPending.slot[u]]}
      BY <3>1, <3>2, Zenon DEF Kept, Backup
    <3>4. usTarget[usOp.k + 1] = Absent /\ UNCHANGED usBackup
      BY <1>1, Zenon DEF SwapInv
    <3>5. \A v \in Targets : v # usOp.k + 1 => usTarget'[v] = usTarget[v]
      BY <3>1, <1>1, Zenon
    <3> QED
      BY <3>2, <3>3, <3>4, <3>5, Zenon
  <2> QED
    BY <2>2, <2>3, Zenon
<1>4. Atomic
  <2>1. UNCHANGED usPending /\ Applying
    BY <1>1, Zenon DEF setsVars, WorkInv, InSwap, Applying
  <2> QED
    BY <2>1, AtomicSame, Zenon
<1> QED
  BY <1>2, <1>3, <1>4, Zenon DEF Good

(* A failed rename turns to the rollback.                                  *)
LEMMA SwapFaultKeeps ==
  ASSUME Types, CounterInv, WorkInv, SwapInv, BuildInv, SwapFault
  PROVE  Good
<1>1. /\ Types' /\ UNCHANGED <<filesVars, setsVars, usWorld>> /\ usOp.pc \in {"swapOut", "swapIn"}
      /\ UNCHANGED <<Args, usOp.reexec>>
      /\ usOp'.pc = "rollback" /\ usOp'.k = 0 /\ usOp'.full = TRUE
  <2>1. /\ usOp.pc \in {"swapOut", "swapIn"} /\ UNCHANGED <<filesVars, setsVars, usBuilds, usWorld>>
        /\ Undo /\ usSpent' = [usSpent EXCEPT !.faults = @ + 1]
    BY Zenon DEF SwapFault, At, Faulty
  <2>2. usSpent' \in [latest : Gens, stages : Nat, aborts : Nat, faults : Nat]
    BY <2>1, SMTT(60) DEF Types
  <2>3. usOp \in Operation
    BY Zenon DEF Types
  <2>4. /\ usOp' \in Operation /\ usOp'.pc = "rollback" /\ usOp'.k = 0
        /\ usOp'.full = TRUE /\ UNCHANGED <<Args, usOp.reexec>>
    BY <2>1, <2>3, OpUndo, Zenon
  <2> QED
    BY <2>1, <2>2, <2>4, Zenon DEF Types, filesVars, setsVars
<1>2. IInv'
  <2>2. Types' /\ CounterInv'
    BY <1>1, Constants, SMTT(60) DEF CounterInv, Args, Quiet, filesVars, setsVars
  <2>3. WorkInv'
    BY <1>1, NoSetTypes, Zenon DEF WorkInv, InSwap, Entries, Args, Quiet, filesVars, setsVars
  <2>4. SwapInv'
    <3>1. usOp'.pc = "rollback" /\ usOp'.k = 0
      BY <1>1, Zenon
    <3> QED
      BY <3>1, Constants, SMTT(60) DEF SwapInv, InSwap, Targets
  <2>5. BuildInv'
    BY <1>1, NoSetTypes, Zenon DEF BuildInv, WorkInv, Newer, Args, Quiet, filesVars, setsVars
  <2> QED
    BY <2>2, <2>3, <2>4, <2>5, Zenon DEF IInv
<1>3. Retained
  <2> SUFFICES ASSUME Unlocked, RetainInv, Kept PROVE RetainInv' /\ Kept'
    BY Zenon DEF Retained
  <2>2. RetainInv'
    BY <1>1, NoSetTypes, Ranges, Zenon
       DEF RetainInv, CounterInv, WorkInv, Applying, AfterSweep, InSwap, Args, Quiet, filesVars,
           setsVars
  <2>3. Kept'
    <3>1. ~Applying' \/ UNCHANGED <<usPending, filesVars>>
      BY <1>1, NoSetTypes, Zenon DEF WorkInv, Applying, Args, Quiet, filesVars, setsVars
    <3> QED
      BY <3>1, KeptSame, Zenon
  <2> QED
    BY <2>2, <2>3, Zenon
<1>4. Atomic
  <2>1. UNCHANGED <<usPending, usTarget>>
    BY <1>1, Zenon DEF Quiet, filesVars, setsVars
  <2> QED
    BY <2>1, AtomicSame, Zenon
<1> QED
  BY <1>2, <1>3, <1>4, Zenon DEF Good

(* A failed rename of staging leaves the sets or gives the previous one    *)
(* its name back.                                                          *)
LEMMA StageFaultKeeps ==
  ASSUME Types, CounterInv, WorkInv, SwapInv, BuildInv, StageFault
  PROVE  Good
<1>1. /\ Types' /\ UNCHANGED <<filesVars, usCommitted, usApplied, usWorld, Args, usOp.reexec>>
      /\ usOp.pc \in {"swapSets", "nameSet"} /\ usOp'.pc = "done"
      /\ \/ UNCHANGED <<usPending, usPrevious>>
         \/ usPending' = usPrevious /\ usPrevious' = NoSet
  <2>1. /\ usOp.pc \in {"swapSets", "nameSet"} /\ Fail
        /\ UNCHANGED <<filesVars, usCommitted, usApplied, usBuilds, usWorld>>
        /\ usSpent' = [usSpent EXCEPT !.faults = @ + 1]
        /\ \/ UNCHANGED <<usPending, usPrevious>>
           \/ usPending' = usPrevious /\ usPrevious' = NoSet
    BY Zenon DEF StageFault, At, Faulty
  <2>2. usSpent' \in [latest : Gens, stages : Nat, aborts : Nat, faults : Nat]
    BY <2>1, SMTT(60) DEF Types
  <2>3. usOp \in Operation /\ usPending' \in StagedSet /\ usPrevious' \in StagedSet
    BY <2>1, NoSetTypes, Zenon DEF Types
  <2>4. usOp' \in Operation /\ usOp'.pc = "done" /\ UNCHANGED <<Args, usOp.reexec>>
    BY <2>1, <2>3, OpFail, Zenon
  <2> QED
    BY <2>1, <2>2, <2>3, <2>4, Zenon DEF Types, filesVars
<1>2. IInv'
  <2>2. Types' /\ CounterInv'
    BY <1>1, Zenon DEF CounterInv
  <2>3. WorkInv'
    <3>1. usPending'.journal = "none" /\ usPrevious'.journal = "none"
      BY <1>1, NoSetTypes, Zenon DEF WorkInv
    <3> QED
      BY <1>1, <3>1, Zenon DEF WorkInv, InSwap
  <2>4. SwapInv'
    BY <1>1, NoSwap, Zenon
  <2>5. BuildInv'
    BY <1>1, NoSetTypes, Zenon DEF BuildInv, Newer, Args, filesVars
  <2> QED
    BY <2>2, <2>3, <2>4, <2>5, Zenon DEF IInv
<1>3. ~Applying /\ ~Applying' /\ UNCHANGED usTarget
  BY <1>1, <1>2, Zenon DEF WorkInv, Applying, filesVars
<1>4. Retained
  BY <1>1, <1>3, KeptSame, Zenon DEF Retained, RetainInv, AfterSweep
<1> QED
  BY <1>2, <1>3, <1>4, AtomicSame, Zenon DEF Good

(* The applied generation is recorded from the set at work.                *)
LEMMA PersistKeeps ==
  ASSUME Types, CounterInv, WorkInv, SwapInv, BuildInv, Persist
  PROVE  Good
<1>1. /\ Types' /\ Quiet /\ usOp.pc = "persist" /\ UNCHANGED <<usPending, usPrevious, usCommitted>>
      /\ UNCHANGED <<Args, usOp.reexec>>
      /\ \/ usOp'.pc = "done" /\ UNCHANGED usApplied
         \/ usOp'.pc = "detach" /\ usApplied'.tgt = usOp.work.gen /\ usApplied'.build = usOp.work.build
  <2>0. usOp \in Operation /\ usOp.work \in StagedSet
    BY OpFields, Zenon DEF Types
  <2>1. usOp.pc = "persist" /\ Quiet /\ UNCHANGED <<usPending, usPrevious, usCommitted>>
    BY Zenon DEF Persist, At, Same, Quiet
  <2>2. ASSUME usOp' \in Operation, usApplied' \in [src : 0..MaxGen, tgt : Gens, build : Gens]
        PROVE  Types'
    BY <2>1, <2>2, Retyped, Zenon DEF Types, Quiet, filesVars
  <2>3. CASE Fail /\ UNCHANGED usApplied
    <3>1. usApplied' \in [src : 0..MaxGen, tgt : Gens, build : Gens]
      BY <2>3, Zenon DEF Types
    <3> QED
      BY <2>0, <2>1, <2>2, <2>3, <3>1, OpFail, Zenon
  <2>4. CASE /\ GoTo("detach")
             /\ usApplied' = [src |-> usOp.work.src, tgt |-> usOp.work.gen, build |-> usOp.work.build]
    <3>1. usOp.work.src \in 0..MaxGen /\ usOp.work.gen \in Gens /\ usOp.work.build \in Gens
      BY <2>0, SetFields, Zenon
    <3>2. /\ usApplied' \in [src : 0..MaxGen, tgt : Gens, build : Gens]
          /\ usApplied'.tgt = usOp.work.gen /\ usApplied'.build = usOp.work.build
      BY <2>4, <3>1, Zenon
    <3>3. "detach" \in Steps
      BY Zenon DEF Steps
    <3> QED
      BY <2>0, <2>1, <2>2, <2>4, <3>2, <3>3, OpGoTo, Zenon
  <2> QED
    BY <2>3, <2>4, Zenon DEF Persist
<1>2. IInv'
  <2>2. Types' /\ CounterInv'
    BY <1>1, Constants, Zenon DEF CounterInv, Args, Quiet, filesVars, setsVars
  <2>3. WorkInv'
    BY <1>1, NoSetTypes, Zenon DEF WorkInv, InSwap, Entries, Args, Quiet, filesVars, setsVars
  <2>4. SwapInv'
    BY <1>1, Zenon DEF SwapInv, WorkInv, InSwap, Entries, Args, Quiet, filesVars, setsVars
  <2>5. BuildInv'
    BY <1>1, NoSetTypes, Zenon DEF BuildInv, WorkInv, Newer, Args, Quiet, filesVars, setsVars
  <2> QED
    BY <2>2, <2>3, <2>4, <2>5, Zenon DEF IInv
<1>3. Retained
  <2> SUFFICES ASSUME Unlocked, RetainInv, Kept PROVE RetainInv' /\ Kept'
    BY Zenon DEF Retained
  <2>2. RetainInv'
    BY <1>1, NoSetTypes, Ranges, Zenon
       DEF RetainInv, CounterInv, WorkInv, Applying, AfterSweep, InSwap, Args, Quiet, filesVars,
           setsVars
  <2>3. Kept'
    <3>1. ~Applying' \/ UNCHANGED <<usPending, filesVars>>
      BY <1>1, NoSetTypes, Zenon DEF WorkInv, Applying, Args, Quiet, filesVars, setsVars
    <3> QED
      BY <3>1, KeptSame, Zenon
  <2> QED
    BY <2>2, <2>3, Zenon
<1>4. Atomic
  <2>1. UNCHANGED <<usPending, usTarget>>
    BY <1>1, Zenon DEF Quiet, filesVars, setsVars
  <2> QED
    BY <2>1, AtomicSame, Zenon
<1> QED
  BY <1>2, <1>3, <1>4, Zenon DEF Good

(* The committed set changes its name, and is then cleaned.                *)
LEMMA DetachKeeps ==
  ASSUME Types, CounterInv, WorkInv, SwapInv, BuildInv, Detach
  PROVE  Good
<1>1. /\ Types' /\ Quiet /\ usOp.pc = "detach" /\ UNCHANGED <<usPrevious, usApplied>>
      /\ UNCHANGED <<usOp.kind, usOp.build, usOp.gen, usOp.todo, usOp.work, usOp.reexec>>
      /\ usOp'.pc = "clean" /\ usOp'.ret \in {"decide", "done"} /\ usOp'.full = TRUE
      /\ usCommitted' = usCommitted \cup {usOp.work} /\ usPending' = NoSet
  <2> DEFINE r == IF usOp.kind = "apply" THEN "decide" ELSE "done"
  <2>0. usOp \in Operation /\ usOp.work \in StagedSet
    BY OpFields, Zenon DEF Types
  <2>1. /\ usOp.pc = "detach" /\ Quiet /\ UNCHANGED <<usPrevious, usApplied>>
        /\ usCommitted' = usCommitted \cup {usOp.work} /\ usPending' = NoSet
        /\ usOp' = [usOp EXCEPT !.pc = "clean", !.k = 0, !.full = TRUE, !.ret = r]
    BY Zenon DEF Detach, At, Same, Quiet
  <2>2. r \in {"decide", "done"} /\ r \in AfterClean /\ 0 \in 0..2 * N
    BY Constants, Zenon DEF AfterClean
  <2> HIDE DEF r
  <2>3. /\ usOp' \in Operation /\ usOp'.pc = "clean" /\ usOp'.ret = r /\ usOp'.full = TRUE
        /\ UNCHANGED <<usOp.kind, usOp.build, usOp.gen, usOp.todo, usOp.work, usOp.reexec>>
    BY <2>0, <2>1, <2>2, Zenon DEF Operation, Steps
  <2>4. usCommitted' \subseteq StagedSet /\ usPending' \in StagedSet
    BY <2>0, <2>1, NoSetTypes, Zenon DEF Types
  <2>5. Types'
    BY <2>1, <2>3, <2>4, Retyped, Zenon DEF Types, Quiet, filesVars
  <2> QED
    BY <2>1, <2>2, <2>3, <2>5, Zenon
<1>2. IInv'
  <2>2. Types' /\ CounterInv'
    BY <1>1, Constants, Zenon DEF CounterInv, Args, Quiet, filesVars, setsVars
  <2>3. WorkInv'
    BY <1>1, NoSetTypes, Zenon DEF WorkInv, InSwap, Entries, Args, Quiet, filesVars, setsVars
  <2>4. SwapInv'
    BY <1>1, Zenon DEF SwapInv, WorkInv, InSwap, Entries, Args, Quiet, filesVars, setsVars
  <2>5. BuildInv'
    BY <1>1, NoSetTypes, Zenon DEF BuildInv, WorkInv, Newer, Args, Quiet, filesVars, setsVars
  <2> QED
    BY <2>2, <2>3, <2>4, <2>5, Zenon DEF IInv
<1>3. Retained
  <2> SUFFICES ASSUME Unlocked, RetainInv, Kept PROVE RetainInv' /\ Kept'
    BY Zenon DEF Retained
  <2>2. RetainInv'
    BY <1>1, NoSetTypes, Ranges, Zenon
       DEF RetainInv, CounterInv, WorkInv, Applying, AfterSweep, InSwap, Args, Quiet, filesVars,
           setsVars
  <2>3. Kept'
    <3>1. ~Applying' \/ UNCHANGED <<usPending, filesVars>>
      BY <1>1, NoSetTypes, Zenon DEF WorkInv, Applying, Args, Quiet, filesVars, setsVars
    <3> QED
      BY <3>1, KeptSame, Zenon
  <2> QED
    BY <2>2, <2>3, Zenon
<1>4. Atomic
  <2>1. UNCHANGED usTarget /\ ~Applying
    BY <1>1, Zenon DEF WorkInv, Quiet, filesVars, Applying
  <2> QED
    BY <2>1, AtomicSame, Zenon
<1> QED
  BY <1>2, <1>3, <1>4, Zenon DEF Good

(* The caller is told to start again only as the record says.              *)
LEMMA DecideKeeps ==
  ASSUME Types, CounterInv, WorkInv, SwapInv, BuildInv, Decide
  PROVE  Good
<1>1. /\ Types' /\ Quiet /\ usOp.pc = "decide" /\ UNCHANGED setsVars
      /\ UNCHANGED Args /\ usOp'.pc = "done" /\ (usOp'.reexec => RequiresReexec(usOp.build))
  <2> DEFINE r == RequiresReexec(usOp.build)
  <2>0. usOp \in Operation
    BY Zenon DEF Types
  <2>1. /\ usOp.pc = "decide" /\ Quiet /\ UNCHANGED setsVars
        /\ usOp' = [usOp EXCEPT !.pc = "done", !.reexec = r]
    BY Zenon DEF Decide, At, Same, Quiet
  <2>2. r \in BOOLEAN
    BY Zenon DEF RequiresReexec
  <2> HIDE DEF r
  <2>3. usOp' \in Operation /\ usOp'.pc = "done" /\ usOp'.reexec = r /\ UNCHANGED Args
    BY <2>0, <2>1, <2>2, Zenon DEF Operation, Steps, Args
  <2>4. Types'
    BY <2>1, <2>3, Retyped, Zenon DEF Types, Quiet, filesVars, setsVars
  <2> QED
    BY <2>1, <2>3, <2>4, Zenon DEF r
<1>2. IInv'
  <2>2. Types' /\ CounterInv'
    BY <1>1, Constants, Zenon DEF CounterInv, Args, Quiet, filesVars, setsVars
  <2>3. WorkInv'
    BY <1>1, NoSetTypes, Zenon DEF WorkInv, InSwap, Entries, Args, Quiet, filesVars, setsVars
  <2>4. SwapInv'
    BY <1>1, Zenon DEF SwapInv, WorkInv, InSwap, Entries, Args, Quiet, filesVars, setsVars
  <2>5. BuildInv'
    <3>1. usOp'.reexec => usTarget[Exe] > usOp.build
      <4>1. usOp.build \in Gens /\ usApplied.build \in Gens /\ usApplied.tgt \in Gens
        BY OpFields, Zenon DEF Types
      <4> QED
        BY <4>1, <1>1, Constants, SMTT(60) DEF RequiresReexec, BuildInv, Gens
    <3> QED
      BY <3>1, <1>1, Zenon DEF BuildInv, Newer, Args, Quiet, filesVars, setsVars
  <2> QED
    BY <2>2, <2>3, <2>4, <2>5, Zenon DEF IInv
<1>3. Retained
  <2> SUFFICES ASSUME Unlocked, RetainInv, Kept PROVE RetainInv' /\ Kept'
    BY Zenon DEF Retained
  <2>2. RetainInv'
    BY <1>1, NoSetTypes, Ranges, Zenon
       DEF RetainInv, CounterInv, WorkInv, Applying, AfterSweep, InSwap, Args, Quiet, filesVars,
           setsVars
  <2>3. Kept'
    <3>1. ~Applying' \/ UNCHANGED <<usPending, filesVars>>
      BY <1>1, NoSetTypes, Zenon DEF WorkInv, Applying, Args, Quiet, filesVars, setsVars
    <3> QED
      BY <3>1, KeptSame, Zenon
  <2> QED
    BY <2>2, <2>3, Zenon
<1>4. Atomic
  <2>1. UNCHANGED <<usPending, usTarget>>
    BY <1>1, Zenon DEF Quiet, filesVars, setsVars
  <2> QED
    BY <2>1, AtomicSame, Zenon
<1> QED
  BY <1>2, <1>3, <1>4, Zenon DEF Good

(* Dropping the journal leaves the set as it was staged.                   *)
LEMMA UnjournalKeeps ==
  ASSUME Types, CounterInv, WorkInv, SwapInv, BuildInv, Unjournal
  PROVE  Good
<1>1. /\ Types' /\ Quiet /\ usOp.pc = "unjournal" /\ UNCHANGED <<usPrevious, usCommitted, usApplied>>
      /\ UNCHANGED <<usOp.kind, usOp.build, usOp.gen, usOp.todo, usOp.work, usOp.full, usOp.reexec>>
      /\ usOp'.pc = "clean" /\ usOp'.ret = "tidied"
      /\ UNCHANGED <<usPending.is, usPending.gen, usPending.build, usPending.lost>>
      /\ usPending'.journal = "none"
  <2>0. usOp \in Operation /\ usPending \in StagedSet
    BY Zenon DEF Types
  <2>1. /\ usOp.pc = "unjournal" /\ Quiet /\ UNCHANGED <<usPrevious, usCommitted, usApplied>>
        /\ usOp' = [usOp EXCEPT !.pc = "clean", !.k = 0, !.ret = "tidied"]
        /\ usPending' = [usPending EXCEPT !.journal = "none", !.orig = NoOriginals, !.slot = NoOriginals]
    BY Zenon DEF Unjournal, At, Same, Quiet
  <2>2. 0 \in 0..2 * N
    BY Constants, Zenon
  <2>3. /\ usOp' \in Operation /\ usOp'.pc = "clean" /\ usOp'.ret = "tidied"
        /\ UNCHANGED <<usOp.kind, usOp.build, usOp.gen, usOp.todo, usOp.work, usOp.full, usOp.reexec>>
    BY <2>0, <2>1, <2>2, Zenon DEF Operation, Steps, AfterClean
  <2>4. /\ usPending' \in StagedSet /\ usPending'.journal = "none"
        /\ UNCHANGED <<usPending.is, usPending.gen, usPending.build, usPending.lost>>
    BY <2>0, <2>1, NoSetTypes, Zenon DEF StagedSet, Journals
  <2>5. Types'
    BY <2>1, <2>3, <2>4, Retyped, Zenon DEF Types, Quiet, filesVars
  <2> QED
    BY <2>1, <2>3, <2>4, <2>5, Zenon
<1>2. IInv'
  <2>2. Types' /\ CounterInv'
    BY <1>1, Constants, Zenon DEF CounterInv, Args, Quiet, filesVars, setsVars
  <2>3. WorkInv'
    BY <1>1, NoSetTypes, Zenon DEF WorkInv, InSwap, Entries, Args, Quiet, filesVars, setsVars
  <2>4. SwapInv'
    BY <1>1, Zenon DEF SwapInv, WorkInv, InSwap, Entries, Args, Quiet, filesVars, setsVars
  <2>5. BuildInv'
    BY <1>1, NoSetTypes, Zenon DEF BuildInv, WorkInv, Newer, Args, Quiet, filesVars, setsVars
  <2> QED
    BY <2>2, <2>3, <2>4, <2>5, Zenon DEF IInv
<1>3. Retained
  <2> SUFFICES ASSUME Unlocked, RetainInv, Kept PROVE RetainInv' /\ Kept'
    BY Zenon DEF Retained
  <2>2. RetainInv'
    BY <1>1, NoSetTypes, Ranges, Zenon
       DEF RetainInv, CounterInv, WorkInv, Applying, AfterSweep, InSwap, Args, Quiet, filesVars,
           setsVars
  <2>3. Kept'
    <3>1. ~Applying' \/ UNCHANGED <<usPending, filesVars>>
      BY <1>1, NoSetTypes, Zenon DEF WorkInv, Applying, Args, Quiet, filesVars, setsVars
    <3> QED
      BY <3>1, KeptSame, Zenon
  <2> QED
    BY <2>2, <2>3, Zenon
<1>4. Atomic
  <2>1. usOp.pc = "unjournal" /\ usPending'.journal = "none" /\ UNCHANGED usTarget
    BY <1>1, Zenon DEF Quiet, filesVars
  <2>2. usPending = usOp.work /\ Applying
    BY <2>1, Zenon DEF WorkInv, InSwap, Applying
  <2>3. \A t \in Targets : t \in Entries(usOp.work) => usTarget[t] = usOp.work.orig[t]
    BY <2>1, Zenon DEF SwapInv
  <2> QED
    BY <2>1, <2>2, <2>3, Zenon DEF Atomic, Covered
<1> QED
  BY <1>2, <1>3, <1>4, Zenon DEF Good

(* After the rollback: failed, cleared, or tried again.                    *)
LEMMA TidiedKeeps ==
  ASSUME Types, CounterInv, WorkInv, SwapInv, BuildInv, Tidied
  PROVE  Good
<1>1. /\ Types' /\ Quiet /\ usOp.pc = "tidied" /\ UNCHANGED setsVars
      /\ UNCHANGED <<Args, usOp.reexec>>
      /\ \/ usOp'.pc = "done"
         \/ usOp'.pc = "dropPending" /\ usOp.kind = "clear"
         \/ usOp'.pc = "verify" /\ usOp.kind # "clear"
  <2>0. usOp \in Operation
    BY Zenon DEF Types
  <2>1. usOp.pc = "tidied" /\ Quiet /\ UNCHANGED setsVars
    BY Zenon DEF Tidied, At, Same, Quiet
  <2>2. \/ GoTo("done")
        \/ GoTo("dropPending") /\ usOp.kind = "clear"
        \/ GoTo("verify") /\ usOp.kind # "clear"
    BY Zenon DEF Tidied
  <2>3. {"done", "dropPending", "verify"} \subseteq Steps
    BY Zenon DEF Steps
  <2>4. \A pc \in Steps : GoTo(pc) =>
          usOp' \in Operation /\ usOp'.pc = pc /\ UNCHANGED <<Args, usOp.reexec>>
    BY <2>0, OpGoTo, Zenon
  <2>5. usOp' \in Operation => Types'
    BY <2>1, Retyped, Zenon DEF Types, Quiet, filesVars, setsVars
  <2> QED
    BY <2>1, <2>2, <2>3, <2>4, <2>5, Zenon
<1>2. IInv'
  <2>2. Types' /\ CounterInv'
    BY <1>1, Constants, Zenon DEF CounterInv, Args, Quiet, filesVars, setsVars
  <2>3. WorkInv'
    BY <1>1, NoSetTypes, Zenon DEF WorkInv, InSwap, Entries, Args, Quiet, filesVars, setsVars
  <2>4. SwapInv'
    BY <1>1, Zenon DEF SwapInv, WorkInv, InSwap, Entries, Args, Quiet, filesVars, setsVars
  <2>5. BuildInv'
    BY <1>1, NoSetTypes, Zenon DEF BuildInv, WorkInv, Newer, Args, Quiet, filesVars, setsVars
  <2> QED
    BY <2>2, <2>3, <2>4, <2>5, Zenon DEF IInv
<1>3. Retained
  <2> SUFFICES ASSUME Unlocked, RetainInv, Kept PROVE RetainInv' /\ Kept'
    BY Zenon DEF Retained
  <2>2. RetainInv'
    BY <1>1, NoSetTypes, Ranges, Zenon
       DEF RetainInv, CounterInv, WorkInv, Applying, AfterSweep, InSwap, Args, Quiet, filesVars,
           setsVars
  <2>3. Kept'
    <3>1. ~Applying' \/ UNCHANGED <<usPending, filesVars>>
      BY <1>1, NoSetTypes, Zenon DEF WorkInv, Applying, Args, Quiet, filesVars, setsVars
    <3> QED
      BY <3>1, KeptSame, Zenon
  <2> QED
    BY <2>2, <2>3, Zenon
<1>4. Atomic
  <2>1. UNCHANGED <<usPending, usTarget>>
    BY <1>1, Zenon DEF Quiet, filesVars, setsVars
  <2> QED
    BY <2>1, AtomicSame, Zenon
<1> QED
  BY <1>2, <1>3, <1>4, Zenon DEF Good

(* Dropping the pending set loses a part first, then the set.              *)
LEMMA DropPendingKeeps ==
  ASSUME Types, CounterInv, WorkInv, SwapInv, BuildInv, DropPending
  PROVE  Good
<1>1. /\ Types' /\ Quiet /\ usOp.pc = "dropPending" /\ UNCHANGED <<usPrevious, usCommitted, usApplied>>
      /\ UNCHANGED <<Args, usOp.reexec>>
      /\ \/ /\ usOp'.pc = "dropPending"
            /\ UNCHANGED <<usPending.is, usPending.journal, usPending.gen, usPending.build>>
         \/ usOp'.pc = "done" /\ usPending' = NoSet
  <2>0. usOp \in Operation /\ usPending \in StagedSet
    BY Zenon DEF Types
  <2>1. usOp.pc = "dropPending" /\ Quiet /\ UNCHANGED <<usPrevious, usCommitted, usApplied>>
    BY Zenon DEF DropPending, At, Same, Quiet
  <2>2. usOp' \in Operation /\ usPending' \in StagedSet => Types'
    BY <2>1, Retyped, Zenon DEF Types, Quiet, filesVars
  <2>3. CASE UNCHANGED usOp /\ \E what \in {"manifest", "component"} : usPending' = [usPending EXCEPT !.lost = what]
    <3>1. PICK what \in Losses : usPending' = [usPending EXCEPT !.lost = what]
      BY <2>3, Zenon DEF Losses
    <3>2. /\ usPending' \in StagedSet
          /\ UNCHANGED <<usPending.is, usPending.journal, usPending.gen, usPending.build>>
      BY <2>0, <3>1, Zenon DEF StagedSet
    <3> QED
      BY <2>0, <2>1, <2>2, <2>3, <3>2, Zenon DEF Args
  <2>4. CASE GoTo("done") /\ usPending' = NoSet
    <3>1. "done" \in Steps /\ NoSet \in StagedSet
      BY NoSetTypes, Zenon DEF Steps
    <3> QED
      BY <2>0, <2>1, <2>2, <2>4, <3>1, OpGoTo, Zenon
  <2> QED
    BY <2>3, <2>4, Zenon DEF DropPending
<1>2. IInv'
  <2>2. Types' /\ CounterInv'
    BY <1>1, Constants, Zenon DEF CounterInv, Args, Quiet, filesVars, setsVars
  <2>3. WorkInv'
    BY <1>1, NoSetTypes, Zenon DEF WorkInv, InSwap, Entries, Args, Quiet, filesVars, setsVars
  <2>4. SwapInv'
    BY <1>1, Zenon DEF SwapInv, WorkInv, InSwap, Entries, Args, Quiet, filesVars, setsVars
  <2>5. BuildInv'
    BY <1>1, NoSetTypes, Zenon DEF BuildInv, WorkInv, Newer, Args, Quiet, filesVars, setsVars
  <2> QED
    BY <2>2, <2>3, <2>4, <2>5, Zenon DEF IInv
<1>3. Retained
  <2> SUFFICES ASSUME Unlocked, RetainInv, Kept PROVE RetainInv' /\ Kept'
    BY Zenon DEF Retained
  <2>2. RetainInv'
    BY <1>1, NoSetTypes, Ranges, Zenon
       DEF RetainInv, CounterInv, WorkInv, Applying, AfterSweep, InSwap, Args, Quiet, filesVars,
           setsVars
  <2>3. Kept'
    <3>1. ~Applying' \/ UNCHANGED <<usPending, filesVars>>
      BY <1>1, NoSetTypes, Zenon DEF WorkInv, Applying, Args, Quiet, filesVars, setsVars
    <3> QED
      BY <3>1, KeptSame, Zenon
  <2> QED
    BY <2>2, <2>3, Zenon
<1>4. Atomic
  <2>1. UNCHANGED usTarget /\ ~Applying
    BY <1>1, Zenon DEF WorkInv, Quiet, filesVars, Applying
  <2> QED
    BY <2>1, AtomicSame, Zenon
<1> QED
  BY <1>2, <1>3, <1>4, Zenon DEF Good

(* A set with another journal state, or with a lost part, is a set.        *)
LEMMA SetTypes ==
  ASSUME NEW s \in StagedSet
  PROVE  /\ \A j \in Journals :
              /\ [s EXCEPT !.journal = j] \in StagedSet /\ [s EXCEPT !.journal = j].journal = j
              /\ [s EXCEPT !.journal = j].is = s.is /\ [s EXCEPT !.journal = j].gen = s.gen
              /\ [s EXCEPT !.journal = j].build = s.build
              /\ [s EXCEPT !.journal = j].orig = s.orig /\ [s EXCEPT !.journal = j].slot = s.slot
         /\ \A l \in Losses :
              /\ [s EXCEPT !.lost = l] \in StagedSet /\ [s EXCEPT !.lost = l].journal = s.journal
              /\ [s EXCEPT !.lost = l].is = s.is /\ [s EXCEPT !.lost = l].gen = s.gen
              /\ [s EXCEPT !.lost = l].build = s.build
BY Zenon DEF StagedSet

(* Removing a set loses its journal first, then the set.                   *)
LEMMA RemoveSetKeeps ==
  ASSUME Types, CounterInv, WorkInv, SwapInv, BuildInv, RemoveSet
  PROVE  Good
<1>1. /\ Types' /\ Quiet /\ UNCHANGED <<usPending, usPrevious, usApplied>>
      /\ usOp.pc = "remove"
      /\ UNCHANGED <<usOp.kind, usOp.build, usOp.gen, usOp.todo, usOp.ret, usOp.full, usOp.reexec>>
      /\ Newer(usOp.work) => Newer(usOp.work)'
      /\ \/ usOp'.pc = "remove" /\ usCommitted' = (usCommitted \ {usOp.work}) \cup {usOp'.work}
         \/ /\ usOp'.pc = usOp.ret /\ usOp'.work = usOp.work
            /\ usCommitted' = usCommitted \ {usOp.work}
  <2> DEFINE w == usOp.work
  <2> DEFINE x == [w EXCEPT !.lost = "journal"]
  <2>1. /\ usOp \in Operation /\ usOp.ret \in AfterClean /\ w \in StagedSet
        /\ usCommitted \subseteq StagedSet
    BY OpFields, Zenon DEF Types
  <2>2. Quiet /\ UNCHANGED <<usPending, usPrevious, usApplied>> /\ usOp.pc = "remove"
    BY Zenon DEF RemoveSet, At, Same, Quiet
  <2>3. x \in StagedSet /\ x.is = w.is /\ x.gen = w.gen /\ x.build = w.build
    BY <2>1, SetTypes, Zenon DEF Losses
  <2>4. ASSUME usOp' \in Operation, usCommitted' \subseteq StagedSet PROVE Types'
    BY <2>2, <2>4, Retyped, Zenon DEF Types, Quiet, filesVars
  <2>5. CASE usOp' = [usOp EXCEPT !.work = x] /\ usCommitted' = (usCommitted \ {w}) \cup {x}
    <3> HIDE DEF x
    <3>1. usOp' \in Operation /\ usOp'.pc = usOp.pc /\ usOp'.work = x
      BY <2>1, <2>3, <2>5, Zenon DEF Operation
    <3>2. UNCHANGED <<usOp.kind, usOp.build, usOp.gen, usOp.todo, usOp.ret, usOp.full, usOp.reexec>>
      BY <2>1, <2>5, Zenon DEF Operation
    <3> QED
      BY <2>1, <2>2, <2>3, <2>4, <2>5, <3>1, <3>2, Zenon DEF Newer
  <2>6. CASE GoTo(usOp.ret) /\ usCommitted' = usCommitted \ {w}
    <3>1. usOp.ret \in Steps
      BY <2>1, Zenon DEF AfterClean, Steps
    <3> QED
      BY <2>1, <2>2, <2>4, <2>6, <3>1, OpGoTo, Zenon DEF Args, Newer
  <2> QED
    BY <2>5, <2>6, Zenon DEF RemoveSet
<1>2. IInv'
  <2>0. usOp'.pc \in {"remove", "done", "sweep", "decide", "tidied"} /\ (usOp'.pc # "remove" => usOp'.pc = usOp.ret)
    BY <1>1, Ranges, Zenon DEF AfterClean
  <2>2. Types' /\ CounterInv'
    BY <2>0, <1>1, Zenon DEF CounterInv
  <2>3. WorkInv'
    <3>1. usOp'.pc # "tidied"
      BY <2>0, <1>1, Zenon DEF CounterInv
    <3> QED
      BY <2>0, <3>1, <1>1, Zenon DEF WorkInv, InSwap, Entries, Quiet
  <2>4. SwapInv'
    BY <2>0, NoSwap, Zenon
  <2>5. BuildInv'
    BY <1>1, NoSetTypes, Zenon DEF BuildInv, WorkInv, Newer, Args, Quiet, filesVars, setsVars
  <2> QED
    BY <2>2, <2>3, <2>4, <2>5, Zenon DEF IInv
<1>3. Retained
  <2> SUFFICES ASSUME Unlocked, RetainInv, Kept PROVE RetainInv' /\ Kept'
    BY Zenon DEF Retained
  <2>2. RetainInv'
    <3>1. /\ usOp.pc = "remove" /\ UNCHANGED <<Applying, usOp.ret, usOp.todo, usOp.full>> /\ ~Applying
          /\ usOp.full /\ (usOp.ret = "sweep" => usCommitted \subseteq usOp.todo \cup {usOp.work})
          /\ usOp.ret \in {"done", "sweep", "decide"}
      BY <1>1, Ranges, Zenon DEF RetainInv, Applying, AfterClean
    <3>2. CASE usOp'.pc = "remove" /\ usCommitted' = (usCommitted \ {usOp.work}) \cup {usOp'.work}
      BY <3>1, <3>2, Zenon DEF RetainInv, AfterSweep
    <3>3. CASE usOp'.pc = usOp.ret /\ usOp'.work = usOp.work /\ usCommitted' = usCommitted \ {usOp.work}
      BY <3>1, <3>3, Zenon DEF RetainInv, AfterSweep
    <3> QED
      BY <3>2, <3>3, <1>1, Zenon
  <2>3. Kept'
    <3>1. ~Applying' \/ UNCHANGED <<usPending, filesVars>>
      BY <1>1, NoSetTypes, Zenon DEF WorkInv, Applying, Args, Quiet, filesVars, setsVars
    <3> QED
      BY <3>1, KeptSame, Zenon
  <2> QED
    BY <2>2, <2>3, Zenon
<1>4. Atomic
  <2>1. UNCHANGED <<usPending, usTarget>>
    BY <1>1, Zenon DEF Quiet, filesVars, setsVars
  <2> QED
    BY <2>1, AtomicSame, Zenon
<1> QED
  BY <1>2, <1>3, <1>4, Zenon DEF Good

(* A set as it is staged.                                                  *)
NewSet(g, x, b) == [NoSet EXCEPT !.is = TRUE, !.gen = g, !.src = x, !.build = b]

(* A staged set has its generation and build, and no journal.              *)
LEMMA NewSetTypes ==
  ASSUME NEW g \in Gens, NEW x \in 0..MaxGen, NEW b \in Gens
  PROVE  /\ NewSet(g, x, b) \in StagedSet /\ NewSet(g, x, b).is = TRUE
         /\ NewSet(g, x, b).gen = g /\ NewSet(g, x, b).build = b
         /\ NewSet(g, x, b).journal = "none"
<1>1. NoSet \in StagedSet /\ NoSet.journal = "none"
  BY NoSetTypes, Zenon
<1>2. NewSet(g, x, b) \in StagedSet /\ NewSet(g, x, b).is = TRUE
  BY <1>1, Zenon DEF NewSet, StagedSet
<1>3. NewSet(g, x, b).gen = g /\ NewSet(g, x, b).build = b
  BY <1>1, Zenon DEF NewSet, StagedSet
<1>4. NewSet(g, x, b).journal = NoSet.journal
  BY <1>1, Zenon DEF NewSet, StagedSet
<1> QED
  BY <1>1, <1>2, <1>3, <1>4, Zenon

(* A set is staged only where no transaction is open.                      *)
LEMMA StageCheckKeeps ==
  ASSUME Types, CounterInv, WorkInv, SwapInv, BuildInv, StageCheck
  PROVE  Good
<1>1. /\ Types' /\ Quiet /\ UNCHANGED setsVars /\ usOp.pc = "stage"
      /\ UNCHANGED <<usOp.kind, usOp.build, usOp.gen, usOp.todo, usOp.reexec>>
      /\ \/ usOp'.pc = "done" /\ usOp'.work = usOp.work
         \/ /\ usOp'.pc = "swapSets"
            /\ usPending.is => usPending.journal = "none"
            /\ usOp'.work.gen = usOp.gen /\ usOp'.work.build = usOp.build
            /\ usOp'.work.journal = "none"
  <2> DEFINE w == NewSet(usOp.gen, usTarget[Exe], usOp.build)
  <2>1. /\ usOp \in Operation /\ w \in StagedSet /\ w.gen = usOp.gen /\ w.build = usOp.build
        /\ w.journal = "none"
    <3>1. usOp \in Operation /\ usOp.gen \in Gens /\ usOp.build \in Gens
      BY OpFields, Zenon DEF Types
    <3>2. usTarget[Exe] \in 0..MaxGen
      BY Constants, Zenon DEF Types
    <3> QED
      BY <3>1, <3>2, NewSetTypes, ZenonT(60)
  <2>2. Quiet /\ UNCHANGED setsVars /\ usOp.pc = "stage"
    BY Zenon DEF StageCheck, At, Same, Quiet
  <2>3. ASSUME usOp' \in Operation PROVE Types'
    BY <2>2, <2>3, Retyped, Zenon DEF Types, Quiet, filesVars, setsVars
  <2>4. CASE Fail
    BY <2>1, <2>2, <2>3, <2>4, OpFail, Zenon DEF Args
  <2>5. CASE /\ ~(usPending.is /\ usPending.journal # "none")
             /\ usOp' = [usOp EXCEPT !.pc = "swapSets", !.work = w]
    <3> HIDE DEF w
    <3>1. usOp' \in Operation /\ usOp'.pc = "swapSets" /\ usOp'.work = w
      BY <2>1, <2>5, Zenon DEF Operation, Steps
    <3>2. UNCHANGED <<usOp.kind, usOp.build, usOp.gen, usOp.todo, usOp.reexec>>
      BY <2>1, <2>5, Zenon DEF Operation
    <3> QED
      BY <2>1, <2>2, <2>3, <2>5, <3>1, <3>2, Zenon
  <2>6. \/ Fail
        \/ /\ ~(usPending.is /\ usPending.journal # "none")
           /\ usOp' = [usOp EXCEPT !.pc = "swapSets", !.work = w]
    BY Zenon DEF StageCheck, NewSet
  <2> QED
    BY <2>4, <2>5, <2>6, Zenon
<1>2. IInv'
  <2>2. Types' /\ CounterInv'
    BY <1>1, Constants, Zenon DEF CounterInv, Args, Quiet, filesVars, setsVars
  <2>3. WorkInv'
    BY <1>1, NoSetTypes, Zenon DEF WorkInv, InSwap, Entries, Args, Quiet, filesVars, setsVars
  <2>4. SwapInv'
    BY <1>1, Zenon DEF SwapInv, WorkInv, InSwap, Entries, Args, Quiet, filesVars, setsVars
  <2>5. BuildInv'
    BY <1>1, NoSetTypes, Zenon DEF BuildInv, WorkInv, Newer, Args, Quiet, filesVars, setsVars
  <2> QED
    BY <2>2, <2>3, <2>4, <2>5, Zenon DEF IInv
<1>3. Retained
  <2> SUFFICES ASSUME Unlocked, RetainInv, Kept PROVE RetainInv' /\ Kept'
    BY Zenon DEF Retained
  <2>2. RetainInv'
    BY <1>1, NoSetTypes, Ranges, Zenon
       DEF RetainInv, CounterInv, WorkInv, Applying, AfterSweep, InSwap, Args, Quiet, filesVars,
           setsVars
  <2>3. Kept'
    <3>1. ~Applying' \/ UNCHANGED <<usPending, filesVars>>
      BY <1>1, NoSetTypes, Zenon DEF WorkInv, Applying, Args, Quiet, filesVars, setsVars
    <3> QED
      BY <3>1, KeptSame, Zenon
  <2> QED
    BY <2>2, <2>3, Zenon
<1>4. Atomic
  <2>1. UNCHANGED <<usPending, usTarget>>
    BY <1>1, Zenon DEF Quiet, filesVars, setsVars
  <2> QED
    BY <2>1, AtomicSame, Zenon
<1> QED
  BY <1>2, <1>3, <1>4, Zenon DEF Good

(* Where a journal leads.                                                  *)
LEMMA JournalLeads ==
  ASSUME NEW set \in StagedSet, NEW fresh \in {"verify", "dropPending"}
  PROVE  \/ JournalStep(set, fresh) = "persist" /\ set.journal = "committed"
         \/ JournalStep(set, fresh) = "rollback" /\ set.journal = "applying"
         \/ JournalStep(set, fresh) = fresh /\ set.journal = "none"
<1>1. set.journal \in Journals
  BY SetFields, Zenon
<1> QED
  BY <1>1, Zenon DEF JournalStep, Journals

(* clear_staged_binary_update follows the journal too.                     *)
LEMMA ClearInspectKeeps ==
  ASSUME Types, CounterInv, WorkInv, SwapInv, BuildInv, ClearInspect
  PROVE  Good
<1>1. /\ Types' /\ Quiet /\ usOp.pc = "clear" /\ UNCHANGED setsVars
      /\ UNCHANGED <<usOp.kind, usOp.build, usOp.gen, usOp.todo, usOp.ret, usOp.reexec>>
      /\ \/ usOp'.pc = "done" /\ UNCHANGED usOp.work
         \/ /\ usOp'.pc = JournalStep(usPending, "dropPending") /\ usOp'.work = usPending
            /\ usPending.is /\ usOp'.k = 0 /\ usOp'.full = TRUE
  <2> DEFINE step == JournalStep(usPending, "dropPending")
  <2>0. usOp \in Operation /\ usPending \in StagedSet /\ usPending.is \in BOOLEAN /\ 0 \in 0..2 * N
    BY SetFields, Constants, Zenon DEF Types
  <2>1. usOp.pc = "clear" /\ Quiet /\ UNCHANGED setsVars
    BY Zenon DEF ClearInspect, At, Same, Quiet
  <2>2. usOp' \in Operation => Types'
    BY <2>1, Retyped, Zenon DEF Types, Quiet, filesVars, setsVars
  <2>3. step \in Steps /\ "done" \in Steps
    BY <2>0, JournalLeads, Zenon DEF Steps
  <2>4. \/ GoTo("done") \/ Fail
        \/ usPending.is /\ usOp' = [usOp EXCEPT !.k = 0, !.work = usPending, !.full = TRUE, !.pc = step]
    BY <2>0, Zenon DEF ClearInspect
  <2> HIDE DEF step
  <2>5. CASE GoTo("done")
    BY <2>0, <2>1, <2>2, <2>3, <2>5, OpGoTo, Zenon DEF Args
  <2>6. CASE Fail
    BY <2>0, <2>1, <2>2, <2>6, OpFail, Zenon DEF Args
  <2>7. CASE usPending.is /\ usOp' = [usOp EXCEPT !.k = 0, !.work = usPending, !.full = TRUE, !.pc = step]
    <3>1. /\ usOp' \in Operation /\ usOp'.pc = step /\ usOp'.k = 0 /\ usOp'.work = usPending
          /\ usOp'.full = TRUE
          /\ UNCHANGED <<usOp.kind, usOp.build, usOp.gen, usOp.todo, usOp.ret, usOp.reexec>>
      BY <2>0, <2>3, <2>7, Zenon DEF Operation
    <3> QED
      BY <2>1, <2>2, <2>7, <3>1, Zenon DEF step
  <2> QED
    BY <2>4, <2>5, <2>6, <2>7, Zenon
<1>2. IInv'
  <2>0. /\ usPending \in StagedSet
        /\ \/ usOp'.pc = "done" /\ UNCHANGED usOp.work
           \/ /\ usOp'.work = usPending /\ usPending.is /\ usOp'.k = 0
              /\ \/ usOp'.pc = "persist" /\ usPending.journal = "committed"
                 \/ usOp'.pc = "rollback" /\ usPending.journal = "applying"
                 \/ usOp'.pc = "dropPending" /\ usPending.journal = "none"
    BY <1>1, JournalLeads, Zenon DEF Types
  <2>2. Types' /\ CounterInv'
    BY <2>0, <1>1, Constants, SMTT(60) DEF CounterInv
  <2>3. WorkInv'
    BY <2>0, <1>1, Zenon DEF WorkInv, InSwap, Entries, Quiet, setsVars
  <2>4. SwapInv'
    BY <2>0, NoSwap, Constants, SMTT(60) DEF SwapInv, InSwap, Targets
  <2>5. BuildInv'
    BY <1>1, NoSetTypes, Zenon DEF BuildInv, WorkInv, Newer, Args, Quiet, filesVars, setsVars
  <2> QED
    BY <2>2, <2>3, <2>4, <2>5, Zenon DEF IInv
<1>3. Retained
  <2> SUFFICES ASSUME Unlocked, RetainInv, Kept PROVE RetainInv' /\ Kept'
    BY Zenon DEF Retained
  <2>2. RetainInv'
    <3>1. /\ UNCHANGED <<usCommitted, Applying>> /\ usOp.pc = "clear"
          /\ usOp'.pc \in {"done", "persist", "rollback", "dropPending"}
      BY <1>1, JournalLeads, Zenon DEF setsVars, Applying, Types
    <3> QED
      BY <3>1, Zenon DEF RetainInv, AfterSweep
  <2>3. Kept'
    <3>1. ~Applying' \/ UNCHANGED <<usPending, filesVars>>
      BY <1>1, NoSetTypes, Zenon DEF WorkInv, Applying, Args, Quiet, filesVars, setsVars
    <3> QED
      BY <3>1, KeptSame, Zenon
  <2> QED
    BY <2>2, <2>3, Zenon
<1>4. Atomic
  <2>1. UNCHANGED <<usPending, usTarget>>
    BY <1>1, Zenon DEF Quiet, filesVars, setsVars
  <2> QED
    BY <2>1, AtomicSame, Zenon
<1> QED
  BY <1>2, <1>3, <1>4, Zenon DEF Good

(* Going on with the pending set.                                          *)
LEMMA OpTakes ==
  ASSUME Types, NEW pc \in Steps,
         usOp' = [usOp EXCEPT !.k = 0, !.work = usPending, !.full = TRUE, !.pc = pc]
  PROVE  /\ usOp' \in Operation /\ usOp'.pc = pc /\ usOp'.k = 0 /\ usOp'.work = usPending
         /\ usOp'.full = TRUE
         /\ UNCHANGED <<usOp.kind, usOp.build, usOp.gen, usOp.todo, usOp.ret, usOp.reexec>>
<1>1. usOp \in Operation /\ usPending \in StagedSet /\ 0 \in 0..2 * N
  BY Constants, Zenon DEF Types
<1>2. usOp' \in Operation
  BY <1>1, Zenon DEF Operation
<1>3. usOp'.pc = pc /\ usOp'.k = 0 /\ usOp'.work = usPending /\ usOp'.full = TRUE
  BY <1>1, Zenon DEF Operation
<1>4. UNCHANGED <<usOp.kind, usOp.build, usOp.gen, usOp.todo, usOp.ret, usOp.reexec>>
  BY <1>1, Zenon DEF Operation
<1> QED
  BY <1>2, <1>3, <1>4, Zenon

(* What apply does with the pending set: nothing, a rejection by the       *)
(* single-binary entry point, or the step its journal leads to.            *)
LEMMA InspectKeeps ==
  ASSUME Types, CounterInv, WorkInv, SwapInv, BuildInv, Inspect
  PROVE  Good
<1>1. /\ Types' /\ Quiet /\ UNCHANGED <<usPrevious, usCommitted, usApplied>>
      /\ usOp.pc = "apply"
      /\ UNCHANGED <<usOp.kind, usOp.build, usOp.gen, usOp.todo, usOp.reexec>>
      /\ \/ usOp'.pc \in {"decide", "done"} /\ UNCHANGED <<usPending, usOp.work>>
         \/ /\ usOp'.pc = "done" /\ usOp'.work = usOp.work /\ usPending' = NoSet
            /\ usWorld.single /\ usPending.is
            /\ usPending.lost = "manifest" \/ Entries(usPending) # {Exe}
         \/ /\ usOp'.work = usPending /\ usOp'.full = TRUE /\ usOp'.k = 0
            /\ usPending' = usPending /\ usPending.is
            /\ usWorld.single => Entries(usPending) = {Exe}
            /\ \/ usOp'.pc = "persist" /\ usPending.journal = "committed"
               \/ usOp'.pc = "rollback" /\ usPending.journal = "applying"
               \/ usOp'.pc = "verify" /\ usPending.journal = "none"
  <2> DEFINE foreign == usPending.lost = "manifest" \/ (usWorld.single /\ Entries(usPending) # {Exe})
  <2> DEFINE pc == JournalStep(usPending, "verify")
  <2>1. usOp \in Operation /\ usPending \in StagedSet /\ NoSet \in StagedSet
    BY NoSetTypes, Zenon DEF Types
  <2>2. Quiet /\ UNCHANGED <<usPrevious, usCommitted, usApplied>> /\ usOp.pc = "apply"
    BY Zenon DEF Inspect, At, Same, Quiet
  <2>3. ASSUME usOp' \in Operation, usPending' \in StagedSet PROVE Types'
    BY <2>2, <2>3, Retyped, Zenon DEF Types, Quiet, filesVars
  <2>4. CASE (GoTo("decide") \/ Fail) /\ UNCHANGED usPending
    <3>1. "decide" \in Steps
      BY Zenon DEF Steps
    <3> QED
      BY <2>1, <2>2, <2>3, <2>4, <3>1, OpGoTo, OpFail, Zenon DEF Args
  <2>5. CASE usPending.is /\ foreign /\ Fail /\ usWorld.single /\ Rejects
    BY <2>1, <2>2, <2>3, <2>5, OpFail, Zenon DEF Args, Rejects
  <2>6. CASE /\ usPending.is /\ ~foreign /\ UNCHANGED usPending
             /\ usOp' = [usOp EXCEPT !.k = 0, !.work = usPending, !.full = TRUE, !.pc = pc]
    <3>1. \/ pc = "persist" /\ usPending.journal = "committed"
          \/ pc = "rollback" /\ usPending.journal = "applying"
          \/ pc = "verify" /\ usPending.journal = "none"
      BY <2>1, JournalLeads, Zenon
    <3>2. pc \in Steps
      BY <3>1, Zenon DEF Steps
    <3> HIDE DEF pc
    <3> QED
      BY <2>1, <2>2, <2>3, <2>6, <3>1, <3>2, OpTakes, Zenon
  <2>7. \/ (GoTo("decide") \/ Fail) /\ UNCHANGED usPending
        \/ usPending.is /\ foreign /\ Fail /\ usWorld.single /\ Rejects
        \/ /\ usPending.is /\ ~foreign /\ UNCHANGED usPending
           /\ usOp' = [usOp EXCEPT !.k = 0, !.work = usPending, !.full = TRUE, !.pc = pc]
    <3>1. usPending.is \in BOOLEAN
      BY <2>1, SetFields, Zenon
    <3> QED
      BY <3>1, Zenon DEF Inspect
  <2> QED
    BY <2>4, <2>5, <2>6, <2>7, Zenon
<1>2. IInv'
  <2>2. Types' /\ CounterInv'
    <3>1. usOp'.pc \in {"decide", "done", "persist", "rollback", "verify"} /\ (usOp'.pc = "rollback" => usOp'.k = 0)
      BY <1>1, Zenon
    <3> QED
      BY <3>1, <1>1, Constants, SMTT(60) DEF CounterInv
  <2>3. WorkInv'
    BY <1>1, NoSetTypes, ZenonT(60) DEF WorkInv, InSwap, Entries, Args, Quiet, filesVars, setsVars
  <2>4. SwapInv'
    <3>1. usOp'.pc \in {"decide", "done", "persist", "rollback", "verify"} /\ (usOp'.pc = "rollback" => usOp'.k = 0)
      BY <1>1, Zenon
    <3> QED
      BY <3>1, NoSwap, Constants, SMTT(60) DEF SwapInv, InSwap, Targets
  <2>5. BuildInv'
    BY <1>1, NoSetTypes, Zenon DEF BuildInv, WorkInv, Newer, Args, Quiet, filesVars, setsVars
  <2> QED
    BY <2>2, <2>3, <2>4, <2>5, Zenon DEF IInv
<1>3. Retained
  <2> SUFFICES ASSUME Unlocked, RetainInv, Kept PROVE RetainInv' /\ Kept'
    BY Zenon DEF Retained
  <2>2. RetainInv'
    BY <1>1, NoSetTypes, Ranges, Zenon
       DEF RetainInv, CounterInv, WorkInv, Applying, AfterSweep, InSwap, Args, Quiet, filesVars,
           setsVars
  <2>3. Kept'
    <3>1. ~Applying' \/ UNCHANGED <<usPending, filesVars>>
      BY <1>1, NoSetTypes, Zenon DEF WorkInv, Applying, Args, Quiet, filesVars, setsVars
    <3> QED
      BY <3>1, KeptSame, Zenon
  <2> QED
    BY <2>2, <2>3, Zenon
<1>4. Atomic
  <2>1. UNCHANGED usTarget /\ (~Applying \/ UNCHANGED usPending)
    BY <1>1, Zenon DEF WorkInv, Quiet, filesVars, Applying
  <2> QED
    BY <2>1, AtomicSame, Zenon
<1> QED
  BY <1>2, <1>3, <1>4, Zenon DEF Good

(* An entry is prepared: its original and its backup path are noted.       *)
LEMMA OpNotes ==
  ASSUME Types, usOp.k < N, NEW t \in Targets, NEW x \in Slots,
         usOp' = [usOp EXCEPT !.k = @ + 1, !.work.orig[t] = usTarget[t], !.work.slot[t] = x]
  PROVE  /\ usOp' \in Operation /\ usOp'.pc = usOp.pc /\ usOp'.k = usOp.k + 1
         /\ usOp'.work.orig[t] = usTarget[t]
         /\ \A u \in Targets \ {t} : usOp'.work.orig[u] = usOp.work.orig[u]
         /\ UNCHANGED <<usOp.work.is, usOp.work.gen, usOp.work.build, usOp.work.lost>>
         /\ UNCHANGED <<usOp.kind, usOp.build, usOp.gen, usOp.todo, usOp.reexec>>
<1> DEFINE w == usOp.work
<1> DEFINE o == [w.orig EXCEPT ![t] = usTarget[t]]
<1> DEFINE l == [w.slot EXCEPT ![t] = x]
<1> DEFINE v == [w EXCEPT !.orig = o, !.slot = l]
<1>1. /\ usOp \in Operation /\ w \in StagedSet /\ usTarget[t] \in 0..MaxGen
      /\ w.orig \in [Targets -> 0..MaxGen] /\ w.slot \in [Targets -> Slots]
      /\ usOp.k \in 0..2 * N
  BY OpFields, SetFields, Zenon DEF Types
<1>2. usOp.k + 1 \in 0..2 * N
  BY <1>1, Constants, SMTT(60)
<1>3. /\ o \in [Targets -> 0..MaxGen] /\ l \in [Targets -> Slots]
      /\ o[t] = usTarget[t] /\ \A u \in Targets \ {t} : o[u] = w.orig[u]
  BY <1>1, Zenon
<1> HIDE DEF o, l
<1>4. /\ v \in StagedSet /\ v.orig = o /\ v.is = w.is /\ v.gen = w.gen /\ v.build = w.build
      /\ v.lost = w.lost
  BY <1>1, <1>3, Zenon DEF StagedSet
<1>5. usOp' = [usOp EXCEPT !.k = usOp.k + 1, !.work = v]
  BY <1>1, Zenon DEF o, l, Operation, StagedSet
<1> HIDE DEF v
<1>6. usOp' \in Operation /\ usOp'.pc = usOp.pc /\ usOp'.k = usOp.k + 1 /\ usOp'.work = v
  BY <1>1, <1>2, <1>4, <1>5, Zenon DEF Operation
<1>7. UNCHANGED <<usOp.kind, usOp.build, usOp.gen, usOp.todo, usOp.reexec>>
  BY <1>1, <1>5, Zenon DEF Operation
<1> QED
  BY <1>3, <1>4, <1>6, <1>7, Zenon

(* Preparing notes the original of each entry, in order.                   *)
LEMMA PrepareKeeps ==
  ASSUME Types, CounterInv, WorkInv, SwapInv, BuildInv, Prepare
  PROVE  Good
<1>1. /\ Types' /\ UNCHANGED <<usTarget, usBackup, setsVars, usWorld>> /\ usOp.pc = "prepare"
      /\ UNCHANGED <<usOp.kind, usOp.build, usOp.gen, usOp.todo, usOp.reexec>>
      /\ UNCHANGED <<usOp.work.is, usOp.work.gen, usOp.work.build, usOp.work.lost>>
      /\ usOp.k \in 0..N
      /\ \/ usOp.k = N /\ usOp'.pc = "journal" /\ usOp'.k = 0 /\ usOp'.work = usOp.work
         \/ /\ usOp'.pc = "prepare" /\ usOp'.work = usOp.work
            /\ \/ usOp'.k = usOp.k
               \/ usOp.k < N /\ usOp'.k = usOp.k + 1 /\ usOp.k + 1 \notin Entries(usPending)
         \/ /\ usOp.k < N /\ usOp'.k = usOp.k + 1 /\ usOp'.pc = "prepare"
            /\ usOp'.work.orig[usOp.k + 1] = usTarget[usOp.k + 1]
            /\ \A u \in Targets \ {usOp.k + 1} : usOp'.work.orig[u] = usOp.work.orig[u]
  <2> DEFINE t == usOp.k + 1
  <2>0. /\ usOp \in Operation /\ usPending \in StagedSet /\ usPending.gen \in 0..Torn
        /\ usPrepared \in [Targets -> 0..Torn] /\ usOp.k \in 0..2 * N
    BY OpFields, SetFields, Constants, Zenon DEF Types
  <2>1. usOp.pc = "prepare" /\ UNCHANGED <<usTarget, usBackup, setsVars, usBuilds, usSpent, usWorld>>
    BY Zenon DEF Prepare, At, Same
  <2>2. usOp.k \in 0..N /\ (usOp.k # N => usOp.k < N /\ t \in Targets /\ usOp.k < 2 * N)
    BY <2>0, <2>1, Constants, SMTT(60) DEF CounterInv, Targets
  <2>3. ASSUME usOp' \in Operation, usPrepared' \in [Targets -> 0..Torn] PROVE Types'
    BY <2>1, <2>3, Retyped, Zenon DEF Types, setsVars
  <2>4. "prepare" \in Steps /\ "journal" \in Steps
    BY Zenon DEF Steps
  <2>5. CASE usOp.k = N /\ GoTo("journal") /\ UNCHANGED usPrepared
    <3>1. /\ usOp' \in Operation /\ usOp'.pc = "journal" /\ usOp'.k = 0
          /\ UNCHANGED <<Args, usOp.reexec>>
      BY <2>0, <2>4, <2>5, OpGoTo, Zenon
    <3> QED
      BY <2>0, <2>1, <2>2, <2>3, <2>5, <3>1, Zenon DEF Args
  <2>6. CASE usOp.k # N /\ t \notin Entries(usPending) /\ Walk("prepare") /\ UNCHANGED usPrepared
    <3>1. /\ usOp' \in Operation /\ usOp'.pc = "prepare" /\ usOp'.k = usOp.k + 1
          /\ UNCHANGED <<Args, usOp.reexec>>
      BY <2>0, <2>2, <2>4, <2>6, OpWalk, Zenon
    <3> QED
      BY <2>0, <2>1, <2>2, <2>3, <2>6, <3>1, Zenon DEF Args
  <2>7. CASE usPrepared' = [usPrepared EXCEPT ![t] = Torn] /\ UNCHANGED usOp
    <3>1. usPrepared' \in [Targets -> 0..Torn]
      BY <2>0, <2>7, Constants, Zenon
    <3> QED
      BY <2>0, <2>1, <2>2, <2>3, <2>7, <3>1, Zenon
  <2>8. CASE /\ usOp.k # N /\ usPrepared' = [usPrepared EXCEPT ![t] = usPending.gen]
             /\ \E s \in Slots :
                  usOp' = [usOp EXCEPT !.k = @ + 1, !.work.orig[t] = usTarget[t],
                                       !.work.slot[t] = s]
    <3>1. usPrepared' \in [Targets -> 0..Torn]
      BY <2>0, <2>8, Zenon
    <3>2. /\ usOp' \in Operation /\ usOp'.pc = usOp.pc /\ usOp'.k = usOp.k + 1
          /\ usOp'.work.orig[t] = usTarget[t]
          /\ \A u \in Targets \ {t} : usOp'.work.orig[u] = usOp.work.orig[u]
          /\ UNCHANGED <<usOp.work.is, usOp.work.gen, usOp.work.build, usOp.work.lost>>
          /\ UNCHANGED <<usOp.kind, usOp.build, usOp.gen, usOp.todo, usOp.reexec>>
      BY <2>2, <2>8, OpNotes, Zenon
    <3> QED
      BY <2>1, <2>2, <2>3, <2>8, <3>1, <3>2, Zenon
  <2>9. \/ usOp.k = N /\ GoTo("journal") /\ UNCHANGED usPrepared
        \/ usOp.k # N /\ t \notin Entries(usPending) /\ Walk("prepare") /\ UNCHANGED usPrepared
        \/ usPrepared' = [usPrepared EXCEPT ![t] = Torn] /\ UNCHANGED usOp
        \/ /\ usOp.k # N /\ usPrepared' = [usPrepared EXCEPT ![t] = usPending.gen]
           /\ \E s \in Slots :
                usOp' = [usOp EXCEPT !.k = @ + 1, !.work.orig[t] = usTarget[t],
                                     !.work.slot[t] = s]
    BY Zenon DEF Prepare
  <2> QED
    BY <2>5, <2>6, <2>7, <2>8, <2>9, Zenon
<1>2. IInv'
  <2>2. Types' /\ CounterInv'
    BY <1>1, Constants, SMTT(60) DEF CounterInv, Args, Quiet, filesVars, setsVars
  <2>3. WorkInv'
    BY <1>1, NoSetTypes, Zenon DEF WorkInv, InSwap, Entries, Args, Quiet, filesVars, setsVars
  <2>4. SwapInv'
    <3>1. /\ usOp.k \in 0..N /\ N \in Nat /\ UNCHANGED <<usTarget, usPending>> /\ usOp.pc = "prepare"
          /\ \A t \in Targets : t \in Entries(usPending) /\ t <= usOp.k => usOp.work.orig[t] = usTarget[t]
      BY <1>1, Constants, Zenon DEF setsVars, SwapInv
    <3>2. CASE usOp.k = N /\ usOp'.pc = "journal" /\ usOp'.work = usOp.work
      <4>1. \A t \in Targets : t <= usOp.k
        BY <3>1, <3>2, SMTT(60) DEF Targets
      <4>2. \A t \in Targets : t \in Entries(usPending) => usOp.work.orig[t] = usTarget[t]
        BY <3>1, <4>1, Zenon
      <4> QED
        BY <3>1, <3>2, <4>2, Zenon DEF SwapInv, InSwap, Entries
    <3>3. CASE usOp'.pc = "prepare" /\ usOp'.work = usOp.work /\ usOp'.k = usOp.k
      BY <3>1, <3>3, Zenon DEF SwapInv, InSwap, Entries
    <3>4. CASE /\ usOp'.pc = "prepare" /\ usOp'.work = usOp.work /\ usOp'.k = usOp.k + 1
               /\ usOp.k + 1 \notin Entries(usPending)
      BY <3>1, <3>4, SMTT(60) DEF SwapInv, InSwap, Entries, Targets
    <3>5. CASE /\ usOp'.k = usOp.k + 1 /\ usOp'.pc = "prepare"
               /\ usOp'.work.orig[usOp.k + 1] = usTarget[usOp.k + 1]
               /\ \A u \in Targets \ {usOp.k + 1} : usOp'.work.orig[u] = usOp.work.orig[u]
      BY <3>1, <3>5, SMTT(60) DEF SwapInv, InSwap, Entries, Targets
    <3> QED
      BY <3>2, <3>3, <3>4, <3>5, <1>1, Zenon
  <2>5. BuildInv'
    BY <1>1, NoSetTypes, Zenon DEF BuildInv, WorkInv, Newer, Args, Quiet, filesVars, setsVars
  <2> QED
    BY <2>2, <2>3, <2>4, <2>5, Zenon DEF IInv
<1>3. Retained
  <2> SUFFICES ASSUME Unlocked, RetainInv, Kept PROVE RetainInv' /\ Kept'
    BY Zenon DEF Retained
  <2>2. RetainInv'
    BY <1>1, NoSetTypes, Ranges, Zenon
       DEF RetainInv, CounterInv, WorkInv, Applying, AfterSweep, InSwap, Args, Quiet, filesVars,
           setsVars
  <2>3. Kept'
    <3>1. ~Applying' \/ UNCHANGED <<usPending, filesVars>>
      BY <1>1, NoSetTypes, Zenon DEF WorkInv, Applying, Args, Quiet, filesVars, setsVars
    <3> QED
      BY <3>1, KeptSame, Zenon
  <2> QED
    BY <2>2, <2>3, Zenon
<1>4. Atomic
  <2>1. UNCHANGED <<usPending, usTarget>>
    BY <1>1, Zenon DEF Quiet, filesVars, setsVars
  <2> QED
    BY <2>1, AtomicSame, Zenon
<1> QED
  BY <1>2, <1>3, <1>4, Zenon DEF Good

(* The journal of the pending set is rewritten.                            *)
LEMMA OpJournals ==
  ASSUME Types, NEW pc \in Steps, NEW j \in Journals,
         usOp' = [usOp EXCEPT !.pc = pc, !.work.journal = j],
         usPending' = [usOp.work EXCEPT !.journal = j]
  PROVE  /\ usOp' \in Operation /\ usOp'.pc = pc /\ usOp'.k = usOp.k /\ usOp'.work = usPending'
         /\ usPending' \in StagedSet /\ usPending'.journal = j
         /\ usPending'.is = usOp.work.is /\ usPending'.gen = usOp.work.gen
         /\ usPending'.build = usOp.work.build /\ usPending'.lost = usOp.work.lost
         /\ usPending'.orig = usOp.work.orig /\ usPending'.slot = usOp.work.slot
         /\ UNCHANGED <<usOp.kind, usOp.build, usOp.gen, usOp.todo, usOp.ret, usOp.full, usOp.reexec>>
<1> DEFINE w == usOp.work
<1> DEFINE v == [w EXCEPT !.journal = j]
<1>1. usOp \in Operation /\ w \in StagedSet
  BY OpFields, Zenon DEF Types
<1>2. /\ v \in StagedSet /\ v.journal = j /\ v.is = w.is /\ v.gen = w.gen /\ v.build = w.build
      /\ v.lost = w.lost /\ v.orig = w.orig /\ v.slot = w.slot
  BY <1>1, Zenon DEF StagedSet
<1>3. usOp' = [usOp EXCEPT !.pc = pc, !.work = v] /\ usPending' = v
  BY <1>1, Zenon DEF Operation, StagedSet
<1> HIDE DEF v
<1>4. usOp' \in Operation /\ usOp'.pc = pc /\ usOp'.k = usOp.k /\ usOp'.work = v
  BY <1>1, <1>2, <1>3, Zenon DEF Operation
<1>5. UNCHANGED <<usOp.kind, usOp.build, usOp.gen, usOp.todo, usOp.ret, usOp.full, usOp.reexec>>
  BY <1>1, <1>3, Zenon DEF Operation
<1> QED
  BY <1>2, <1>3, <1>4, <1>5, Zenon

(* The journal is written before the swap and committed after it.          *)
LEMMA JournalKeeps ==
  ASSUME Types, CounterInv, WorkInv, SwapInv, BuildInv, WriteJournal \/ Commit
  PROVE  Good
<1>1. /\ Types' /\ Quiet /\ UNCHANGED <<usPrevious, usCommitted, usApplied>>
      /\ UNCHANGED <<usOp.kind, usOp.build, usOp.gen, usOp.todo, usOp.ret, usOp.full, usOp.reexec>>
      /\ usOp'.k = usOp.k /\ usOp'.work = usPending'
      /\ usPending'.is = usOp.work.is /\ usPending'.gen = usOp.work.gen
      /\ usPending'.build = usOp.work.build /\ usPending'.lost = usOp.work.lost
      /\ usPending'.orig = usOp.work.orig /\ usPending'.slot = usOp.work.slot
      /\ \/ WriteJournal /\ usOp.pc = "journal" /\ usOp'.pc = "swapOut" /\ usPending'.journal = "applying"
         \/ Commit /\ usOp.pc = "commit" /\ usOp'.pc = "persist" /\ usPending'.journal = "committed"
  <2>1. Quiet /\ UNCHANGED <<usPrevious, usCommitted, usApplied>>
    BY Zenon DEF WriteJournal, Commit, Same, Quiet
  <2>2. ASSUME usOp' \in Operation, usPending' \in StagedSet PROVE Types'
    BY <2>1, <2>2, Retyped, Zenon DEF Types, Quiet, filesVars
  <2>3. {"swapOut", "persist"} \subseteq Steps /\ {"applying", "committed"} \subseteq Journals
    BY Zenon DEF Steps, Journals
  <2>4. CASE WriteJournal
    <3>1. /\ usOp.pc = "journal" /\ usOp' = [usOp EXCEPT !.pc = "swapOut", !.work.journal = "applying"]
          /\ usPending' = [usOp.work EXCEPT !.journal = "applying"]
      BY <2>4, Zenon DEF WriteJournal, At
    <3> QED
      BY <2>1, <2>2, <2>3, <2>4, <3>1, OpJournals, Zenon
  <2>5. CASE Commit
    <3>1. /\ usOp.pc = "commit" /\ usOp' = [usOp EXCEPT !.pc = "persist", !.work.journal = "committed"]
          /\ usPending' = [usOp.work EXCEPT !.journal = "committed"]
      BY <2>5, Zenon DEF Commit, At
    <3> QED
      BY <2>1, <2>2, <2>3, <2>5, <3>1, OpJournals, Zenon
  <2> QED
    BY <2>4, <2>5, Zenon
<1>2. IInv'
  <2>2. Types' /\ CounterInv'
    BY <1>1, Constants, SMTT(60) DEF CounterInv, Args, Quiet, filesVars, setsVars
  <2>3. WorkInv'
    <3>1. /\ UNCHANGED <<usPrevious, usWorld, usOp.kind, usOp.ret>> /\ usOp'.work = usPending'
          /\ usPending'.is = usOp.work.is /\ usPending'.gen = usOp.work.gen
          /\ usPending'.lost = usOp.work.lost
      BY <1>1, Zenon DEF Quiet
    <3>2. CASE usOp.pc = "journal" /\ usOp'.pc = "swapOut" /\ usPending'.journal = "applying"
      BY <3>1, <3>2, ZenonT(60) DEF WorkInv, InSwap, Entries
    <3>3. CASE usOp.pc = "commit" /\ usOp'.pc = "persist" /\ usPending'.journal = "committed"
      BY <3>1, <3>3, ZenonT(60) DEF WorkInv, InSwap, Entries
    <3> QED
      BY <1>1, <3>2, <3>3, Zenon
  <2>4. SwapInv'
    <3>1. usOp'.pc = "persist" \/ (usOp'.pc = "swapOut" /\ usOp.pc = "journal" /\ usOp'.k = usOp.k)
      BY <1>1, Zenon
    <3>2. usOp.pc = "journal" => usOp.k = 0
      BY Zenon DEF CounterInv
    <3> QED
      BY <3>1, <3>2, NoSwap, SMTT(60) DEF SwapInv, InSwap, Targets
  <2>5. BuildInv'
    BY <1>1, NoSetTypes, Zenon DEF BuildInv, WorkInv, Newer, Args, Quiet, filesVars, setsVars
  <2> QED
    BY <2>2, <2>3, <2>4, <2>5, Zenon DEF IInv
<1>3. Retained
  <2> SUFFICES ASSUME Unlocked, RetainInv, Kept PROVE RetainInv' /\ Kept'
    BY Zenon DEF Retained
  <2>2. RetainInv'
    BY <1>1, NoSetTypes, Ranges, Zenon
       DEF RetainInv, CounterInv, WorkInv, Applying, AfterSweep, InSwap, Args, Quiet, filesVars,
           setsVars
  <2>3. Kept'
    <3>1. CASE usPending'.journal = "committed"
      BY <3>1, Zenon DEF Kept, Applying
    <3>2. CASE usOp.pc = "journal" /\ WriteJournal
      <4>1. usOp.work.gen = usPending.gen /\ usPending'.gen = usOp.work.gen /\ usPending'.orig = usOp.work.orig
        BY <3>2, <1>1, Zenon DEF WorkInv
      <4>2. \A t \in Targets : t \in Entries(usPending) => usOp.work.orig[t] = usTarget[t]
        BY <3>2, Zenon DEF SwapInv
      <4>3. UNCHANGED usTarget
        BY <1>1, Zenon DEF Quiet, filesVars
      <4> QED
        BY <4>1, <4>2, <4>3, Zenon DEF Kept, Covered, Entries
    <3> QED
      BY <3>1, <3>2, <1>1, Zenon
  <2> QED
    BY <2>2, <2>3, Zenon
<1>4. Atomic
  <2>1. CASE WriteJournal
    <3>1. UNCHANGED usTarget /\ ~Applying
      BY <1>1, <2>1, Zenon DEF WriteJournal, At, WorkInv, Quiet, filesVars, Applying
    <3> QED
      BY <3>1, AtomicSame, Zenon
  <2>2. CASE Commit
    <3>1. usOp.pc = "commit" /\ usPending'.journal = "committed" /\ UNCHANGED usTarget
      BY <1>1, <2>2, Zenon DEF Quiet, filesVars, Commit, At
    <3>2. usPending = usOp.work /\ Applying
      BY <3>1, Zenon DEF WorkInv, InSwap, Applying
    <3>3. \A t \in Targets : t \in Entries(usOp.work) => usTarget[t] = usOp.work.gen
      BY <3>1, Zenon DEF SwapInv, InSwap
    <3> QED
      BY <3>1, <3>2, <3>3, Zenon DEF Atomic, Covered
  <2> QED
    BY <2>1, <2>2, Zenon
<1> QED
  BY <1>2, <1>3, <1>4, Zenon DEF Good

(* One entry of the rollback: it stays at the entry, skips it, or has      *)
(* restored it; a target goes only when its original is kept elsewhere.    *)
Undone(w, t) ==
  /\ usOp' \in Operation /\ usOp'.pc = "rollback" /\ UNCHANGED <<Args, usOp.reexec>>
  /\ usTarget' \in [Targets -> 0..MaxGen] /\ usPrepared' \in [Targets -> 0..Torn] /\ UNCHANGED usBackup
  /\ \A s \in Targets \ {t} : usTarget'[s] = usTarget[s]
  /\ usTarget'[t] = usTarget[t] \/ w.orig[t] \in {Absent, Backup(w, t)}
  /\ \/ usOp'.k = usOp.k /\ usOp'.full = usOp.full
     \/ usOp'.k = usOp.k + 1 /\ usOp'.full = FALSE
     \/ usOp'.k = usOp.k + 1 /\ usOp'.full = usOp.full /\ usTarget'[t] = w.orig[t]

(* The ways of one entry of the rollback.                                  *)
LEMMA UndoneWays ==
  ASSUME Types, usOp.pc = "rollback", usOp.k < 2 * N, NEW w \in StagedSet, NEW t \in Targets,
         usTarget' \in [Targets -> 0..MaxGen], usPrepared' \in [Targets -> 0..Torn], UNCHANGED usBackup,
         \A s \in Targets \ {t} : usTarget'[s] = usTarget[s],
         usTarget'[t] = usTarget[t] \/ w.orig[t] \in {Absent, Backup(w, t)},
         UNCHANGED usOp \/ Skip \/ (Walk("rollback") /\ usTarget'[t] = w.orig[t])
  PROVE  Undone(w, t)
<1>1. usOp \in Operation /\ "rollback" \in Steps
  BY Zenon DEF Types, Steps
<1>2. CASE UNCHANGED usOp
  BY <1>1, <1>2, Zenon DEF Undone, Args
<1>3. CASE Skip
  BY <1>1, <1>3, OpSkip, Zenon DEF Undone
<1>4. CASE Walk("rollback") /\ usTarget'[t] = w.orig[t]
  BY <1>1, <1>4, OpWalk, Zenon DEF Undone
<1> QED
  BY <1>2, <1>3, <1>4, Zenon

(* An entry that had an original gets it back from its backup.             *)
LEMMA RestoreEffect ==
  ASSUME Types, usOp.pc = "rollback", usOp.k < 2 * N, NEW w \in StagedSet, NEW t \in Targets,
         Restore(w, t)
  PROVE  Undone(w, t)
<1>0. /\ usTarget \in [Targets -> 0..MaxGen] /\ usPrepared \in [Targets -> 0..Torn]
      /\ w.orig[t] \in 0..MaxGen
  BY SetFields, Zenon DEF Types
<1>1. w.orig[t] \in 0..Torn /\ Absent \in 0..MaxGen /\ Absent \in 0..Torn /\ Torn \in 0..Torn
  BY <1>0, Constants, Zenon
<1>2. CASE usTarget[t] = w.orig[t]
  <2>1. /\ UNCHANGED <<usTarget, usBackup>>
        /\ \/ Walk("rollback") /\ usPrepared' = [usPrepared EXCEPT ![t] = Absent]
           \/ Skip /\ UNCHANGED usPrepared
    BY <1>2, Zenon DEF Restore
  <2>2. usTarget' \in [Targets -> 0..MaxGen] /\ usPrepared' \in [Targets -> 0..Torn]
    BY <1>0, <1>1, <2>1, Zenon
  <2> QED
    BY <1>2, <2>1, <2>2, UndoneWays, Zenon
<1>3. CASE usTarget[t] # w.orig[t] /\ (Backup(w, t) # w.orig[t] \/ usTarget[t] \notin {Absent, w.gen})
  <2>1. Skip /\ UNCHANGED <<usTarget, usPrepared, usBackup>>
    BY <1>3, Zenon DEF Restore, filesVars
  <2> QED
    BY <1>0, <2>1, UndoneWays, Zenon
<1>4. CASE usTarget[t] # w.orig[t] /\ Backup(w, t) = w.orig[t] /\ usTarget[t] \in {Absent, w.gen}
  <2>1. \/ /\ usPrepared' = [usPrepared EXCEPT ![t] = IF @ = Torn THEN w.orig[t] ELSE Torn]
           /\ UNCHANGED <<usOp, usTarget, usBackup>>
        \/ usTarget' = [usTarget EXCEPT ![t] = Absent] /\ UNCHANGED <<usOp, usPrepared, usBackup>>
        \/ Skip /\ UNCHANGED <<usTarget, usPrepared, usBackup>>
        \/ /\ Walk("rollback") /\ usTarget' = [usTarget EXCEPT ![t] = w.orig[t]]
           /\ usPrepared' = [usPrepared EXCEPT ![t] = Absent] /\ UNCHANGED usBackup
    BY <1>4, Zenon DEF Restore, Uninstall, filesVars
  <2>2. usTarget' \in [Targets -> 0..MaxGen] /\ usPrepared' \in [Targets -> 0..Torn]
    BY <1>0, <1>1, <2>1, Zenon
  <2>3. /\ \A s \in Targets \ {t} : usTarget'[s] = usTarget[s]
        /\ UNCHANGED usOp \/ Skip \/ (Walk("rollback") /\ usTarget'[t] = w.orig[t])
    BY <1>0, <2>1, Zenon
  <2> QED
    BY <1>4, <2>1, <2>2, <2>3, UndoneWays, Zenon
<1> QED
  BY <1>2, <1>3, <1>4, Zenon

(* An entry that had none is removed again.                                *)
LEMMA WithdrawEffect ==
  ASSUME Types, usOp.pc = "rollback", usOp.k < 2 * N, NEW w \in StagedSet, NEW t \in Targets,
         w.orig[t] = Absent, Withdraw(w, t)
  PROVE  Undone(w, t)
<1>0. usTarget \in [Targets -> 0..MaxGen] /\ usPrepared \in [Targets -> 0..Torn]
  BY Zenon DEF Types
<1>1. Absent \in 0..MaxGen /\ Absent \in 0..Torn
  BY Constants, Zenon
<1>2. \/ Skip /\ UNCHANGED <<usTarget, usPrepared, usBackup>>
      \/ usTarget' = [usTarget EXCEPT ![t] = Absent] /\ UNCHANGED <<usOp, usPrepared, usBackup>>
      \/ /\ usTarget[t] = Absent /\ Walk("rollback") /\ usPrepared' = [usPrepared EXCEPT ![t] = Absent]
         /\ UNCHANGED <<usTarget, usBackup>>
  BY Zenon DEF Withdraw, Uninstall, filesVars
<1>3. usTarget' \in [Targets -> 0..MaxGen] /\ usPrepared' \in [Targets -> 0..Torn]
  BY <1>0, <1>1, <1>2, Zenon
<1>4. \A s \in Targets \ {t} : usTarget'[s] = usTarget[s]
  BY <1>0, <1>2, Zenon
<1> QED
  BY <1>2, <1>3, <1>4, UndoneWays, Zenon

(* The rollback walks the entries backwards; only a full one drops the     *)
(* journal.                                                                *)
LEMMA RollbackKeeps ==
  ASSUME Types, CounterInv, WorkInv, SwapInv, BuildInv, Rollback
  PROVE  Good
<1>1. /\ Types' /\ UNCHANGED <<usBackup, setsVars, usWorld>> /\ usOp.pc = "rollback"
      /\ UNCHANGED <<Args, usOp.reexec>> /\ usOp.k \in 0..N
      /\ \/ usOp.k = N /\ usOp'.pc = "done" /\ UNCHANGED usTarget
         \/ usOp.k = N /\ usOp'.pc = "unjournal" /\ usOp.full = TRUE /\ UNCHANGED usTarget
         \/ /\ usOp.k < N /\ usOp'.pc = "rollback" /\ usOp'.k = usOp.k + 1 /\ UNCHANGED usTarget
            /\ usOp'.full = usOp.full /\ N - usOp.k \notin Entries(usOp.work)
         \/ usOp.k < N /\ N - usOp.k \in Entries(usOp.work) /\ Undone(usOp.work, N - usOp.k)
  <2> DEFINE w == usOp.work
  <2> DEFINE t == N - usOp.k
  <2>0. /\ usOp \in Operation /\ w \in StagedSet /\ Entries(w) \subseteq Targets /\ usOp.full \in BOOLEAN
        /\ usOp.k \in 0..2 * N
    BY OpFields, SetFields, Zenon DEF Types
  <2>1. usOp.pc = "rollback" /\ UNCHANGED <<setsVars, usBuilds, usSpent, usWorld>>
    BY Zenon DEF Rollback, At, Same
  <2>2. usOp.k \in 0..N /\ (usOp.k # N => usOp.k < N /\ usOp.k < 2 * N) /\ ~(usOp.k = N /\ usOp.k < N)
    BY <2>0, <2>1, Constants, SMTT(60) DEF CounterInv
  <2>3. ASSUME usOp' \in Operation, usTarget' \in [Targets -> 0..MaxGen],
               usPrepared' \in [Targets -> 0..Torn], UNCHANGED usBackup
        PROVE  Types'
    BY <2>1, <2>3, Retyped, Zenon DEF Types, setsVars
  <2>4. ASSUME UNCHANGED filesVars, usOp' \in Operation PROVE Types'
    BY <2>3, <2>4, Zenon DEF filesVars, Types
  <2>5. CASE usOp.k = N
    <3>1. UNCHANGED filesVars /\ ((usOp.full /\ GoTo("unjournal")) \/ Fail)
      BY <2>2, <2>5, Zenon DEF Rollback
    <3>2. "unjournal" \in Steps
      BY Zenon DEF Steps
    <3>3. CASE usOp.full /\ GoTo("unjournal")
      BY <2>0, <2>1, <2>2, <2>4, <2>5, <3>1, <3>2, <3>3, OpGoTo, Zenon DEF filesVars
    <3>4. CASE Fail
      BY <2>0, <2>1, <2>2, <2>4, <2>5, <3>1, <3>4, OpFail, Zenon DEF filesVars
    <3> QED
      BY <3>1, <3>3, <3>4, Zenon
  <2>6. CASE usOp.k < N /\ t \notin Entries(w)
    <3>1. Walk("rollback") /\ UNCHANGED filesVars
      BY <2>2, <2>6, Zenon DEF Rollback
    <3>2. "rollback" \in Steps
      BY Zenon DEF Steps
    <3> QED
      BY <2>0, <2>1, <2>2, <2>4, <2>6, <3>1, <3>2, OpWalk, Zenon DEF filesVars
  <2>7. CASE usOp.k < N /\ t \in Entries(w)
    <3>1. usOp.k # N /\ t \in Targets
      BY <2>0, <2>2, <2>7, Zenon
    <3>2. (w.orig[t] # Absent /\ Restore(w, t)) \/ (w.orig[t] = Absent /\ Withdraw(w, t))
      BY <2>7, <3>1, Zenon DEF Rollback
    <3> HIDE DEF w, t
    <3>3. Undone(w, t)
      BY <2>0, <2>1, <2>2, <3>1, <3>2, RestoreEffect, WithdrawEffect, Zenon
    <3>4. Types' /\ UNCHANGED usBackup /\ UNCHANGED <<Args, usOp.reexec>>
      BY <2>3, <3>3, Zenon DEF Undone
    <3> QED
      BY <2>1, <2>2, <2>7, <3>3, <3>4, Zenon DEF w, t
  <2> QED
    BY <2>2, <2>5, <2>6, <2>7, Zenon
<1>2. IInv'
  <2>0. /\ usOp.pc = "rollback" /\ usOp.k \in 0..N /\ N \in Nat
        /\ \/ usOp'.pc = "done" \/ (usOp'.pc = "unjournal" /\ usOp.k = N /\ usOp.full = TRUE /\ UNCHANGED usTarget)
           \/ /\ usOp'.pc = "rollback" /\ usOp.k < N
              /\ \/ usOp'.k = usOp.k + 1 /\ UNCHANGED <<usTarget, usOp.full>> /\ N - usOp.k \notin Entries(usOp.work)
                 \/ Undone(usOp.work, N - usOp.k)
    BY <1>1, Constants, Zenon DEF Undone
  <2>2. Types' /\ CounterInv'
    <3>1. usOp'.pc = "rollback" => usOp'.k <= N
      BY <2>0, SMTT(60) DEF Undone
    <3>2. CounterInv'
      BY <2>0, <3>1, Zenon DEF CounterInv
    <3> QED
      BY <3>2, <1>1, Zenon
  <2>3. WorkInv'
    <3>1. UNCHANGED <<usPending, usPrevious, usOp.work, usOp.kind, usWorld>>
      BY <1>1, Zenon DEF Args, setsVars
    <3>2. usOp'.pc \in {"done", "unjournal", "rollback"}
      BY <2>0, Zenon
    <3> QED
      BY <2>0, <3>1, <3>2, Zenon DEF WorkInv, InSwap, Entries
  <2>4. SwapInv'
    <3>1. /\ UNCHANGED usOp.work /\ usOp.full \in BOOLEAN
          /\ usOp.full => \A t \in Targets : t \in Entries(usOp.work) /\ t > N - usOp.k => usTarget[t] = usOp.work.orig[t]
      BY <2>0, <1>1, Ranges, Zenon DEF SwapInv, Args
    <3>2. \A t \in Targets : t > N - (usOp.k + 1) => t > N - usOp.k \/ t = N - usOp.k
      BY <2>0, SMTT(60) DEF Targets
    <3>3. CASE usOp'.pc = "done"
      BY <3>3, NoSwap, Zenon
    <3>4. CASE usOp'.pc = "unjournal" /\ usOp.k = N /\ usOp.full = TRUE /\ UNCHANGED usTarget
      <4>1. \A t \in Targets : t > N - usOp.k
        BY <2>0, <3>4, SMTT(60) DEF Targets
      <4>2. \A t \in Targets : t \in Entries(usOp.work) => usTarget[t] = usOp.work.orig[t]
        BY <3>1, <3>4, <4>1, Zenon
      <4> QED
        BY <3>1, <3>4, <4>2, Zenon DEF SwapInv, InSwap, Entries
    <3>5. ASSUME usOp'.pc = "rollback",
                 usOp'.full => \A t \in Targets : t \in Entries(usOp.work) /\ t > N - usOp'.k =>
                                                usTarget'[t] = usOp.work.orig[t]
          PROVE  SwapInv'
      BY <3>1, <3>5, Zenon DEF SwapInv, InSwap, Entries
    <3>6. CASE /\ usOp'.pc = "rollback" /\ usOp'.k = usOp.k + 1 /\ UNCHANGED <<usTarget, usOp.full>>
               /\ N - usOp.k \notin Entries(usOp.work)
      BY <3>1, <3>2, <3>5, <3>6, Zenon
    <3>7. CASE usOp'.pc = "rollback" /\ usOp.k < N /\ Undone(usOp.work, N - usOp.k)
      <4>1. \A t \in Targets : t # N - usOp.k => usTarget'[t] = usTarget[t]
        BY <3>7, Zenon DEF Undone
      <4>2. CASE usOp'.k = usOp.k /\ usOp'.full = usOp.full
        <5>1. \A t \in Targets : t > N - usOp.k => t # N - usOp.k
          BY <2>0, SMTT(60) DEF Targets
        <5> QED
          BY <3>1, <3>5, <3>7, <4>1, <4>2, <5>1, Zenon
      <4>3. CASE usOp'.k = usOp.k + 1 /\ usOp'.full = usOp.full /\ usTarget'[N - usOp.k] = usOp.work.orig[N - usOp.k]
        BY <3>1, <3>2, <3>5, <3>7, <4>1, <4>3, Zenon
      <4>4. CASE usOp'.full = FALSE
        BY <3>5, <3>7, <4>4, Zenon
      <4> QED
        BY <3>7, <4>2, <4>3, <4>4, Zenon DEF Undone
    <3> QED
      BY <2>0, <3>3, <3>4, <3>6, <3>7, Zenon
  <2>5. BuildInv'
    BY <1>1, NoSetTypes, Zenon DEF BuildInv, WorkInv, Newer, Args, Quiet, filesVars, setsVars
  <2> QED
    BY <2>2, <2>3, <2>4, <2>5, Zenon DEF IInv
<1>3. Retained
  <2> SUFFICES ASSUME Unlocked, RetainInv, Kept PROVE RetainInv' /\ Kept'
    BY Zenon DEF Retained
  <2>2. RetainInv'
    <3>1. UNCHANGED <<usCommitted, Applying>> /\ usOp.pc = "rollback"
      BY <1>1, Zenon DEF setsVars, Applying
    <3>2. usOp'.pc \in {"done", "unjournal", "rollback"}
      BY <1>1, Zenon DEF Undone
    <3> QED
      BY <3>1, <3>2, Zenon DEF RetainInv, AfterSweep
  <2>3. Kept'
    <3>1. /\ usPending = usOp.work /\ usPending \in StagedSet /\ Applying /\ UNCHANGED <<usPending, usOp.work>>
          /\ usTarget \in [Targets -> 0..MaxGen] /\ usBackup \in [Targets -> [Slots -> 0..MaxGen]]
          /\ usPending.slot \in [Targets -> Slots]
      BY <1>1, SetFields, Zenon DEF WorkInv, Applying, setsVars, Args, InSwap, Types
    <3>2. SUFFICES ASSUME NEW u \in Targets, Covered(u), usPending.orig[u] # Absent
                   PROVE  usPending.orig[u] \in {usTarget'[u], usBackup'[u][usPending.slot[u]]}
      BY <3>1, Zenon DEF Kept, Covered, Entries, Backup
    <3>3. usPending.orig[u] \in {usTarget[u], usBackup[u][usPending.slot[u]]}
      BY <3>1, <3>2, Zenon DEF Kept, Backup
    <3>4. UNCHANGED usBackup
      BY <1>1, Zenon
    <3>5. CASE UNCHANGED usTarget
      BY <3>3, <3>4, <3>5, Zenon
    <3>6. CASE Undone(usOp.work, N - usOp.k)
      <4>1. CASE u = N - usOp.k
        BY <3>1, <3>2, <3>3, <3>4, <3>6, <4>1, Zenon DEF Undone, Backup
      <4>2. CASE u # N - usOp.k
        BY <3>3, <3>4, <3>6, <4>2, Zenon DEF Undone
      <4> QED
        BY <4>1, <4>2, Zenon
    <3> QED
      BY <3>5, <3>6, <1>1, Zenon
  <2> QED
    BY <2>2, <2>3, Zenon
<1>4. Atomic
  <2>1. UNCHANGED usPending /\ Applying
    BY <1>1, Zenon DEF setsVars, WorkInv, InSwap, Applying
  <2> QED
    BY <2>1, AtomicSame, Zenon
<1> QED
  BY <1>2, <1>3, <1>4, Zenon DEF Good

(* No operation is idle.                                                   *)
LEMMA NoOperationTypes ==
  /\ NoOperation \in Operation /\ NoOperation.pc = "idle" /\ NoOperation.kind = "none"
  /\ NoOperation.work = NoSet /\ NoOperation.todo = {} /\ NoOperation.reexec = FALSE
<1>1. 1 \in Gens /\ 0 \in 0..2 * N /\ NoSet \in StagedSet /\ {} \in SUBSET StagedSet
  BY Constants, NoSetTypes, Zenon
<1> QED
  BY <1>1, Zenon DEF NoOperation, Operation, Kinds, Steps, AfterClean

(* Return and a crash end the operation and leave the disk alone.          *)
LEMMA EndKeeps ==
  ASSUME Types, CounterInv, WorkInv, SwapInv, BuildInv, Return \/ Abort
  PROVE  Good
<1>1. Types' /\ UNCHANGED <<filesVars, setsVars, usWorld>> /\ usOp' = NoOperation
  <2>1. UNCHANGED <<filesVars, setsVars, usBuilds, usWorld>> /\ usOp' = NoOperation
    BY Zenon DEF Return, Abort, Same
  <2>2. usSpent' \in [latest : Gens, stages : Nat, aborts : Nat, faults : Nat]
    BY SMTT(60) DEF Return, Abort, Same, Types
  <2> QED
    BY <2>1, <2>2, NoOperationTypes, Zenon DEF Types, filesVars, setsVars
<1>2. IInv'
  <2>0. usOp'.pc = "idle" /\ usOp'.kind = "none" /\ usOp'.work = NoSet /\ usOp'.todo = {} /\ usOp'.reexec = FALSE
    BY <1>1, NoOperationTypes, Zenon
  <2>2. Types' /\ CounterInv'
    BY <2>0, <1>1, Zenon DEF CounterInv
  <2>3. WorkInv'
    BY <2>0, <1>1, Zenon DEF WorkInv, InSwap, Entries, setsVars
  <2>4. SwapInv'
    BY <2>0, NoSwap, Zenon
  <2>5. BuildInv'
    BY <2>0, <1>1, NoSetTypes, Zenon DEF BuildInv, Newer, setsVars
  <2> QED
    BY <2>2, <2>3, <2>4, <2>5, Zenon DEF IInv
<1>3. Retained
  <2> SUFFICES ASSUME Unlocked, RetainInv, Kept PROVE RetainInv' /\ Kept'
    BY Zenon DEF Retained
  <2>2. RetainInv'
    <3>1. UNCHANGED <<usCommitted, Applying>> /\ usOp'.pc = "idle"
      BY <1>1, NoOperationTypes, Zenon DEF setsVars, Applying
    <3> QED
      BY <3>1, Zenon DEF RetainInv, AfterSweep
  <2>3. Kept'
    <3>1. ~Applying' \/ UNCHANGED <<usPending, filesVars>>
      BY <1>1, NoSetTypes, Zenon DEF WorkInv, Applying, Args, Quiet, filesVars, setsVars
    <3> QED
      BY <3>1, KeptSame, Zenon
  <2> QED
    BY <2>2, <2>3, Zenon
<1>4. Atomic
  <2>1. UNCHANGED <<usPending, usTarget>>
    BY <1>1, Zenon DEF Quiet, filesVars, setsVars
  <2> QED
    BY <2>1, AtomicSame, Zenon
<1> QED
  BY <1>2, <1>3, <1>4, Zenon DEF Good

(* An operation as it begins.                                              *)
Begun(kind, b, g) == [NoOperation EXCEPT !.kind = kind, !.build = b, !.gen = g, !.pc = "recover"]

(* An operation begins at the recovery of an interrupted staging.          *)
LEMMA BegunTypes ==
  ASSUME NEW kind \in Kinds, NEW b \in Gens, NEW g \in Gens
  PROVE  /\ Begun(kind, b, g) \in Operation /\ Begun(kind, b, g).kind = kind
         /\ Begun(kind, b, g).build = b /\ Begun(kind, b, g).gen = g
         /\ Begun(kind, b, g).pc = "recover" /\ Begun(kind, b, g).work = NoSet
         /\ Begun(kind, b, g).todo = {} /\ ~Begun(kind, b, g).reexec
<1>1. /\ NoOperation \in Operation
      /\ NoOperation.work = NoSet /\ NoOperation.todo = {} /\ NoOperation.reexec = FALSE
  BY NoOperationTypes, Zenon
<1>2. Begun(kind, b, g) \in Operation
  BY <1>1, Zenon DEF Begun, Operation, Steps
<1>3. /\ Begun(kind, b, g).kind = kind /\ Begun(kind, b, g).build = b
      /\ Begun(kind, b, g).gen = g /\ Begun(kind, b, g).pc = "recover"
  BY <1>1, Zenon DEF Begun, Operation
<1>4. /\ Begun(kind, b, g).work = NoOperation.work /\ Begun(kind, b, g).todo = NoOperation.todo
      /\ Begun(kind, b, g).reexec = NoOperation.reexec
  BY <1>1, Zenon DEF Begun, Operation
<1> QED
  BY <1>1, <1>2, <1>3, <1>4, Zenon

(* What beginning an operation does.                                       *)
LEMMA BeginEffect ==
  ASSUME Types, NEW kind \in Kinds, NEW b \in Gens, NEW g \in Gens, Begin(kind, b, g),
         usSpent' \in [latest : Gens, stages : Nat, aborts : Nat, faults : Nat]
  PROVE  /\ Types' /\ usOp.pc = "idle" /\ usOp' = Begun(kind, b, g) /\ usOp' \in Operation
         /\ UNCHANGED <<filesVars, setsVars, usWorld>>
<1>1. /\ usOp.pc = "idle" /\ usOp' = Begun(kind, b, g)
      /\ UNCHANGED <<filesVars, setsVars, usWorld>>
      /\ usBuilds' = usBuilds \cup {usTarget[Exe]} /\ usTarget[Exe] # Absent
  BY Zenon DEF Begin, At, Begun
<1>2. usTarget[Exe] \in Gens
  BY <1>1, Constants, SMTT(60) DEF Types, Gens
<1>3. usOp' \in Operation
  BY <1>1, BegunTypes, Zenon
<1> QED
  BY <1>1, <1>2, <1>3, Zenon DEF Types, filesVars, setsVars

(* Beginning an operation keeps the invariant.                             *)
LEMMA BegunInv ==
  ASSUME IInv, NEW kind \in Kinds, NEW b \in Gens, NEW g \in Gens, Begin(kind, b, g),
         kind # "none", kind = "stage" => b < g,
         usSpent' \in [latest : Gens, stages : Nat, aborts : Nat, faults : Nat]
  PROVE  IInv' /\ usOp.pc = "idle" /\ usOp'.pc = "recover" /\ UNCHANGED <<filesVars, setsVars, usWorld>>
<1>1. Types /\ CounterInv /\ WorkInv /\ SwapInv /\ BuildInv
  BY Zenon DEF IInv
<1>2. Types' /\ usOp.pc = "idle" /\ usOp' = Begun(kind, b, g) /\ UNCHANGED <<filesVars, setsVars, usWorld>>
  BY <1>1, BeginEffect, Zenon
<1>3. /\ usOp'.pc = "recover" /\ usOp'.kind = kind /\ usOp'.work = NoSet /\ usOp'.todo = {}
      /\ ~usOp'.reexec /\ usOp'.build = b /\ usOp'.gen = g
  <2>1. /\ Begun(kind, b, g).kind = kind /\ Begun(kind, b, g).build = b /\ Begun(kind, b, g).gen = g
        /\ Begun(kind, b, g).pc = "recover" /\ Begun(kind, b, g).work = NoSet
        /\ Begun(kind, b, g).todo = {} /\ ~Begun(kind, b, g).reexec
    BY BegunTypes, SMTT(60)
  <2> QED
    BY <1>2, <2>1, Zenon
<1>4. CounterInv'
  BY <1>3, Zenon DEF CounterInv
<1>5. WorkInv'
  BY <1>1, <1>2, <1>3, Zenon DEF WorkInv, InSwap, Entries, setsVars
<1>6. SwapInv'
  BY <1>3, NoSwap, Zenon
<1>7. BuildInv'
  BY <1>1, <1>2, <1>3, NoSetTypes, Zenon DEF BuildInv, Newer, setsVars
<1> QED
  BY <1>2, <1>3, <1>4, <1>5, <1>6, <1>7, Zenon DEF IInv

(* The ways an operation begins.                                           *)
Begins ==
  \E kind \in Kinds, b \in Gens, g \in Gens :
    /\ Begin(kind, b, g) /\ kind # "none" /\ (kind = "stage" => b < g)
    /\ usSpent' \in [latest : Gens, stages : Nat, aborts : Nat, faults : Nat]

(* Every way of the model to begin an operation is one of these.           *)
LEMMA BeginWays ==
  ASSUME Types,
         \/ Launch
         \/ \E b \in usBuilds : BeginApply(b) \/ BeginClear(b) \/ \E g \in 1..MaxGen : BeginStage(b, g)
  PROVE  Begins
<1>1. /\ usSpent \in [latest : Gens, stages : Nat, aborts : Nat, faults : Nat] /\ usBuilds \subseteq Gens
      /\ usTarget[Exe] \in 0..MaxGen /\ 1 \in Gens /\ Gens = 1..MaxGen
      /\ {"apply", "clear", "stage"} \subseteq Kinds
  BY Constants, Zenon DEF Types, Gens, Kinds
<1>2. ASSUME NEW b \in Gens, BeginApply(b) PROVE Begins
  BY <1>1, <1>2, Zenon DEF BeginApply, Begins
<1>3. ASSUME NEW b \in Gens, BeginClear(b) PROVE Begins
  BY <1>1, <1>3, Zenon DEF BeginClear, Begins
<1>4. ASSUME NEW b \in Gens, NEW g \in Gens, BeginStage(b, g) PROVE Begins
  <2>1. b < g /\ Begin("stage", b, g) /\ usSpent' = [usSpent EXCEPT !.stages = @ + 1, !.latest = g]
    BY <1>4, Zenon DEF BeginStage, UpdateAvailable
  <2>2. usSpent' \in [latest : Gens, stages : Nat, aborts : Nat, faults : Nat]
    <3>1. usSpent.stages + 1 \in Nat
      BY <1>1, SMTT(60)
    <3> QED
      BY <1>1, <2>1, <3>1, Zenon
  <2> QED
    BY <1>1, <2>1, <2>2, Zenon DEF Begins
<1>5. CASE Launch
  <2>1. usTarget[Exe] \in Gens
    <3>1. usTarget[Exe] # Absent
      BY <1>5, Zenon DEF Launch, BeginApply, Begin
    <3> QED
      BY <1>1, <3>1, Constants, SMTT(60) DEF Absent
  <2> QED
    BY <1>2, <1>5, <2>1, Zenon DEF Launch
<1> QED
  BY <1>1, <1>2, <1>3, <1>4, <1>5, Zenon

(* Beginning an operation is such a step.                                  *)
LEMMA BeginKeeps ==
  ASSUME IInv, Begins
  PROVE  Good
<1>1. PICK kind \in Kinds, b \in Gens, g \in Gens :
        /\ Begin(kind, b, g) /\ kind # "none" /\ (kind = "stage" => b < g)
        /\ usSpent' \in [latest : Gens, stages : Nat, aborts : Nat, faults : Nat]
  BY Zenon DEF Begins
<1>2. IInv' /\ usOp'.pc = "recover" /\ UNCHANGED <<filesVars, setsVars>>
  BY <1>1, BegunInv, Zenon
<1>3. UNCHANGED <<usCommitted, Applying, usPending, usTarget>>
  BY <1>2, Zenon DEF setsVars, filesVars, Applying
<1>4. Retained
  BY <1>2, <1>3, KeptSame, Zenon DEF Retained, RetainInv, AfterSweep
<1> QED
  BY <1>2, <1>3, <1>4, AtomicSame, Zenon DEF Good

(* The invariant holds at the start.                                       *)
LEMMA InitInv ==
  ASSUME UpdateInit
  PROVE  IInv
<1>1. /\ usWorld \in Installation /\ usTarget \in [Targets -> 0..MaxGen] /\ usTarget[Exe] \in Gens
  BY UpdateAssumption, Constants, SMTT(60) DEF UpdateInit, Installation, Gens
<1>2. Types
  <2>1. usPrepared \in [Targets -> 0..Torn] /\ usBackup \in [Targets -> [Slots -> 0..MaxGen]]
    BY Constants, Zenon DEF UpdateInit, NoOriginals
  <2>2. usApplied \in [src : 0..MaxGen, tgt : Gens, build : Gens]
    BY Constants, Zenon DEF UpdateInit
  <2>3. usSpent \in [latest : Gens, stages : Nat, aborts : Nat, faults : Nat]
    BY Constants, Zenon DEF UpdateInit
  <2>4. usOp \in Operation /\ usPending \in StagedSet /\ usPrevious \in StagedSet
    BY NoOperationTypes, NoSetTypes, Zenon DEF UpdateInit
  <2> QED
    BY <1>1, <2>1, <2>2, <2>3, <2>4, Zenon DEF UpdateInit, Types
<1>3. /\ usOp.pc = "idle" /\ usOp.kind = "none" /\ usOp.work = NoSet /\ usOp.todo = {} /\ usOp.reexec = FALSE
      /\ usPending = NoSet /\ usPrevious = NoSet /\ usCommitted = {} /\ usApplied.src = 1 /\ usApplied.tgt = 1
  BY NoOperationTypes, Zenon DEF UpdateInit
<1>4. CounterInv /\ SwapInv
  BY <1>3, Zenon DEF CounterInv, SwapInv, InSwap
<1>5. WorkInv
  BY <1>3, NoSetTypes, Zenon DEF WorkInv, InSwap
<1>6. BuildInv
  BY <1>3, NoSetTypes, Zenon DEF BuildInv, Newer
<1> QED
  BY <1>2, <1>4, <1>5, <1>6, Zenon DEF IInv

(* Stuttering is such a step.                                              *)
LEMMA StutterKeeps ==
  ASSUME IInv, UNCHANGED updateVars
  PROVE  Good
<1>1. /\ UNCHANGED <<usWorld, usTarget, usPrepared, usBackup, usPending, usPrevious>>
      /\ UNCHANGED <<usCommitted, usApplied, usOp, usBuilds, usSpent>>
  BY Zenon DEF updateVars, filesVars, setsVars
<1>2. Types'
  BY <1>1, Zenon DEF IInv, Types
<1>3. CounterInv' /\ WorkInv'
  BY <1>1, ZenonT(60) DEF IInv, CounterInv, WorkInv, Entries, InSwap
<1>4. SwapInv' /\ BuildInv'
  BY <1>1, Zenon DEF IInv, SwapInv, BuildInv, Newer, Entries, InSwap
<1>5. Retained
  BY <1>1, KeptSame, Zenon DEF Retained, RetainInv, Applying, filesVars
<1> QED
  BY <1>1, <1>2, <1>3, <1>4, <1>5, AtomicSame, Zenon DEF Good, IInv

(* Every step is.                                                          *)
LEMMA NextKeeps ==
  ASSUME IInv, [UpdateNext]_updateVars
  PROVE  Good
<1>1. Types /\ CounterInv /\ WorkInv /\ SwapInv /\ BuildInv
  BY Zenon DEF IInv
<1>2. ASSUME OperationStep PROVE Good
  BY <1>1, <1>2, RecoverKeeps, SweepKeeps, CleanFileKeeps, CleanedKeeps, RemoveSetKeeps, StageCheckKeeps,
     StagingKeeps, InspectKeeps, VerifyKeeps, PrepareKeeps, JournalKeeps, SwapOutKeeps, SwapInKeeps,
     PersistKeeps, DetachKeeps, DecideKeeps, RollbackKeeps, UnjournalKeeps, TidiedKeeps, ClearInspectKeeps,
     DropPendingKeeps, EndKeeps, Zenon DEF OperationStep
<1> QED
  BY <1>1, <1>2, BeginWays, BeginKeeps, StageFaultKeeps, SwapFaultKeeps, EndKeeps, StutterKeeps, Zenon DEF UpdateNext

-----------------------------------------------------------------------------
(* The inductive invariant: the types, the counters, what the set at work  *)
(* has to do with the pending one, how far the swap or the rollback got,   *)
(* and that releases are newer than the builds that staged them.           *)
THEOREM UpdateInvariant == UpdateSpec => []IInv
<1>1. UpdateInit => IInv
  BY InitInv, Zenon
<1>2. IInv /\ [UpdateNext]_updateVars => IInv'
  BY NextKeeps, Zenon DEF Good
<1> QED
  BY <1>1, <1>2, PTL DEF UpdateSpec

(* Every reachable state is well typed.                                    *)
THEOREM UpdateTypes == UpdateSpec => []UpdateTypeOK
<1>1. IInv => UpdateTypeOK
  <2>1. SUFFICES ASSUME Types PROVE UpdateTypeOK
    BY Zenon DEF IInv
  <2>2. /\ usPending.journal \in Journals /\ usPending.gen \in Gens /\ usOp.k \in 0..2 * N
    BY <2>1, SetFields, Ranges, Zenon DEF Types
  <2> QED
    BY <2>1, <2>2, Zenon DEF Types, UpdateTypeOK, Journals, Gens
<1> QED
  BY <1>1, UpdateInvariant, PTL

(* Installed files change only under an open journal; it is committed when *)
(* every file of the set is new and withdrawn when every file is what it   *)
(* was (apply_entries, rollback): for every number of files, generations,  *)
(* crashes and failed renames, on every kind of installation.              *)
THEOREM TransactionsAreAtomic == UpdateSpec => AllOrNothing
<1>1. IInv /\ [UpdateNext]_updateVars => [Atomic]_updateVars
  BY NextKeeps, Zenon DEF Good
<1>2. UpdateSpec => [][Atomic]_updateVars
  BY <1>1, UpdateInvariant, PTL DEF UpdateSpec
<1> QED
  BY <1>2, PTL DEF AllOrNothing, Atomic

(* A process told to start again finds a newer executable than itself      *)
(* (applied_generation_requires_reexec), however many builds, releases and *)
(* crashes there were.                                                     *)
THEOREM RestartsFindNewerBuilds == UpdateSpec => []ReexecIsProgress
<1>1. IInv => ReexecIsProgress
  BY Zenon DEF IInv, BuildInv, ReexecIsProgress
<1> QED
  BY <1>1, UpdateInvariant, PTL

(* No step changes what kind of installation it is.                        *)
LEMMA WorldStays ==
  ASSUME [UpdateNext]_updateVars
  PROVE  UNCHANGED usWorld
<1>1. CASE UNCHANGED updateVars
  BY <1>1, Zenon DEF updateVars
<1>2. ASSUME OperationStep PROVE UNCHANGED usWorld
  <2>1. CASE RecoverSwap \/ Sweep \/ CleanFile \/ Cleaned \/ RemoveSet
    BY <2>1, Zenon DEF RecoverSwap, Sweep, CleanFile, Cleaned, RemoveSet, Same
  <2>2. CASE StageCheck \/ MovePending \/ NameSet \/ DropPrevious
    BY <2>2, Zenon DEF StageCheck, MovePending, NameSet, DropPrevious, Same
  <2>3. CASE Inspect \/ Verify \/ Prepare \/ WriteJournal \/ SwapOut \/ SwapIn
    BY <2>3, Zenon DEF Inspect, Verify, Prepare, WriteJournal, SwapOut, SwapIn, Same
  <2>4. CASE Commit \/ Persist \/ Detach \/ Decide \/ Rollback \/ Unjournal \/ Tidied
    BY <2>4, Zenon DEF Commit, Persist, Detach, Decide, Rollback, Unjournal, Tidied, Same
  <2>5. CASE ClearInspect \/ DropPending \/ Return
    BY <2>5, Zenon DEF ClearInspect, DropPending, Return, Same
  <2> QED
    BY <1>2, <2>1, <2>2, <2>3, <2>4, <2>5, Zenon DEF OperationStep
<1>3. ASSUME StageFault \/ SwapFault \/ Abort PROVE UNCHANGED usWorld
  BY <1>3, Zenon DEF StageFault, SwapFault, Abort
<1>4. ASSUME NEW b, BeginApply(b) \/ BeginClear(b) \/ \E g \in 1..MaxGen : BeginStage(b, g)
      PROVE  UNCHANGED usWorld
  BY <1>4, Zenon DEF BeginApply, BeginClear, BeginStage, Begin
<1> QED
  BY <1>1, <1>2, <1>3, <1>4, Zenon DEF UpdateNext, Launch

(* The original of every file of an open transaction is at its place or in *)
(* the backup the journal names, for every number of files, sets and       *)
(* crashes, where a running image can be deleted. (Where it cannot, a      *)
(* retained set and a later transaction may share a backup path, and the   *)
(* cleaning of the one deletes the backup of the other.)                   *)
THEOREM OriginalsAreKept == UpdateSpec => []OriginalKept
<1> DEFINE Inv == IInv /\ (Unlocked => RetainInv /\ Kept)
<1>1. UpdateInit => Inv
  <2>1. SUFFICES ASSUME UpdateInit PROVE RetainInv /\ Kept
    BY InitInv, Zenon
  <2>2. ~Applying /\ usCommitted = {} /\ usOp.pc = "idle"
    BY <2>1, NoSetTypes, NoOperationTypes, Zenon DEF UpdateInit, Applying
  <2> QED
    BY <2>2, Zenon DEF RetainInv, Kept, AfterSweep
<1>2. Inv /\ [UpdateNext]_updateVars => Inv'
  BY NextKeeps, WorldStays, Zenon DEF Good, Retained, Unlocked
<1>3. Inv => OriginalKept
  BY Zenon DEF Unlocked, Kept, OriginalKept
<1> QED
  BY <1>1, <1>2, <1>3, PTL DEF UpdateSpec
=============================================================================
