------------------------------ MODULE UpdateSet ------------------------------
(***************************************************************************)
(* Staged updates of an executable and its sibling files (dcc-mcp-updater  *)
(* update_set.rs and update_set/committed_cleanup.rs): staging a set,      *)
(* applying it at the next launch under a journal, rolling a failed or     *)
(* interrupted transaction back, and clearing a staged set.                *)
(*                                                                         *)
(* Contents are generations, compared as the code compares digests; build  *)
(* versions grow with generations.  Every rename, copy, removal and journal*)
(* write is a step, and the process may stop between any two of them.  One *)
(* operation at a time holds the installation lock, which the operating    *)
(* system frees when its process ends.                                     *)
(***************************************************************************)
EXTENDS Naturals, FiniteSets

CONSTANTS N,         \* targets 1..N; N is the executable, the others siblings
          MaxGen,    \* generations 1..MaxGen
          Includes,  \* the targets each generation replaces
          Installations, \* the installations to start from, see Installation
          Spares,    \* bound: uniquely named backup paths of a target
          MaxStages, MaxAborts, MaxFaults \* bounds: stagings, crashes, failed renames

Targets == 1..N
Exe == N
Absent == 0
Torn == MaxGen + 1   \* the digest of a copy that was cut off
Slots == 0..Spares   \* 0: the canonical backup path

(* The generation of each target at first; whether the launches follow     *)
(* UpdateSetPolicy::CurrentExecutableOnly; whether the image of a running  *)
(* process cannot be deleted (Windows).                                    *)
Installation == [installed : [Targets -> 0..MaxGen], single : BOOLEAN, locks : BOOLEAN]

ASSUME UpdateAssumption ==
  /\ N \in Nat \ {0} /\ MaxGen \in Nat \ {0} /\ Spares \in Nat
  /\ Includes \in [1..MaxGen -> SUBSET Targets] /\ \A g \in 1..MaxGen : Exe \in Includes[g]
  /\ Installations \subseteq Installation /\ \A w \in Installations : w.installed[Exe] # Absent
  /\ MaxStages \in Nat /\ MaxAborts \in Nat /\ MaxFaults \in Nat

VARIABLES usWorld,     \* one of Installations; it does not change
          usTarget,    \* the installed files
          usPrepared,  \* <target>.dcc-mcp-new
          usBackup,    \* <target>.dcc-mcp-backup and its unique siblings
          usPending,   \* pending-set, with its manifest and journal
          usPrevious,  \* pending-set.previous
          usCommitted, \* the pending-set.committed-* directories
          usApplied,   \* applied-generation.json
          usOp,        \* the operation that holds the lock, or NoOperation
          usBuilds,    \* builds of the processes that were ever launched
          usSpent      \* the latest release; stagings, crashes, faults so far

filesVars == <<usTarget, usPrepared, usBackup>>
setsVars == <<usPending, usPrevious, usCommitted, usApplied>>
updateVars == <<filesVars, setsVars, usOp, usBuilds, usSpent, usWorld>>

NoOriginals == [t \in Targets |-> Absent]
(* A staged set: what it replaces and what its journal says; "lost" is what*)
(* an interrupted removal of the directory took away.                      *)
NoSet == [is |-> FALSE, gen |-> 1, src |-> 1, build |-> 1, lost |-> "nothing",
          journal |-> "none", orig |-> NoOriginals, slot |-> NoOriginals]
NoOperation == [kind |-> "none", build |-> 1, pc |-> "idle", gen |-> 1, k |-> 0, todo |-> {},
         work |-> NoSet, ret |-> "done", full |-> TRUE, failed |-> FALSE, reexec |-> FALSE]

UpdateInit ==
  /\ usWorld \in Installations /\ usTarget = usWorld.installed
  /\ usPrepared = NoOriginals
  /\ usBackup = [t \in Targets |-> [s \in Slots |-> Absent]]
  /\ usPending = NoSet /\ usPrevious = NoSet /\ usCommitted = {}
  /\ usApplied = [src |-> 1, tgt |-> 1, build |-> 1]
  /\ usOp = NoOperation /\ usBuilds = {usTarget[Exe]}
  /\ usSpent = [latest |-> 1, stages |-> 0, aborts |-> 0, faults |-> 0]

At(pc) == usOp.pc = pc
GoTo(pc) == usOp' = [usOp EXCEPT !.pc = pc, !.k = 0]
(* Walk the entries of a journal: k counts them, up or down.               *)
Walk(pc) == usOp' = [usOp EXCEPT !.pc = pc, !.k = @ + 1]
Fail == usOp' = [usOp EXCEPT !.pc = "done", !.failed = TRUE]
Entries(set) == Includes[set.gen]
Rejects == usPending' = NoSet
Same(vs) == UNCHANGED <<vs, usBuilds, usSpent, usWorld>>
(* A rename fails.                                                         *)
Faulty == usSpent.faults < MaxFaults /\ usSpent' = [usSpent EXCEPT !.faults = @ + 1]

-----------------------------------------------------------------------------
(* Taking the lock: canonical_existing needs the executable to be there.   *)
(* Launches apply; any process that ever ran may stage or clear.           *)
Begin(kind, build, gen) ==
  /\ At("idle") /\ usTarget[Exe] # Absent
  /\ build \in usBuilds \cup {usTarget[Exe]}
  /\ usBuilds' = usBuilds \cup {usTarget[Exe]}
  /\ usOp' = [NoOperation EXCEPT !.kind = kind, !.build = build, !.gen = gen, !.pc = "recover"]
  /\ UNCHANGED <<filesVars, setsVars, usWorld>>

BeginApply(b) == Begin("apply", b, 1) /\ UNCHANGED usSpent
BeginClear(b) == Begin("clear", b, 1) /\ UNCHANGED usSpent
(* The release a process asks for is offered only when it is newer than    *)
(* the process; releases never go back.                                    *)
UpdateAvailable(b, g) == usSpent.latest <= g /\ b < g

BeginStage(b, g) ==
  /\ usSpent.stages < MaxStages /\ UpdateAvailable(b, g)
  /\ Begin("stage", b, g)
  /\ usSpent' = [usSpent EXCEPT !.stages = @ + 1, !.latest = g]

(* recover_stage_swap.                                                     *)
RecoverSwap ==
  /\ At("recover")
  /\ IF usPrevious.is /\ usPending.is /\ usPending.lost = "manifest"
     THEN Fail /\ UNCHANGED <<usPending, usPrevious>>
     ELSE /\ usOp' = [usOp EXCEPT !.pc = "sweep", !.todo = usCommitted]
          /\ usPrevious' = NoSet
          /\ usPending' = IF usPrevious.is /\ ~usPending.is THEN usPrevious ELSE usPending
  /\ Same(<<filesVars, usCommitted, usApplied>>)

(* cleanup_committed_sets: clean what each retained set names, then drop   *)
(* it; a set without a readable journal fails the operation.               *)
Sweep ==
  /\ At("sweep")
  /\ IF usOp.todo = {}
     THEN GoTo(usOp.kind)
     ELSE \E s \in usOp.todo :
            IF s.lost = "journal" THEN Fail
            ELSE usOp' = [usOp EXCEPT !.pc = "clean", !.k = 0, !.work = s, !.full = TRUE,
                                      !.ret = "sweep", !.todo = @ \ {s}]
  /\ Same(<<filesVars, setsVars>>)

-----------------------------------------------------------------------------
(* cleanup_committed_entries: the prepared file and the backup of every    *)
(* entry, each removed only if its digest is one the journal knows.  The   *)
(* old image of a running process may have to stay for a later launch.     *)
Backup(w, t) == usBackup[t][w.slot[t]]

CleanPrepared(w, t) ==
  IF usPrepared[t] \in {Absent, w.gen, w.orig[t]}
  THEN Walk("clean") /\ usPrepared' = [usPrepared EXCEPT ![t] = Absent]
  ELSE Fail /\ UNCHANGED usPrepared

CleanBackup(w, t) ==
  \/ /\ Backup(w, t) \in {Absent, w.orig[t]}
     /\ Walk("clean") /\ usBackup' = [usBackup EXCEPT ![t][w.slot[t]] = Absent]
  \/ /\ usWorld.locks /\ Backup(w, t) # Absent /\ Backup(w, t) = w.orig[t]
     /\ usOp' = [usOp EXCEPT !.k = @ + 1, !.full = FALSE] /\ UNCHANGED usBackup
  \/ /\ Backup(w, t) \notin {Absent, w.orig[t]}
     /\ Fail /\ UNCHANGED usBackup

CleanFile ==
  /\ At("clean") /\ usOp.k < 2 * N
  /\ LET w == usOp.work
         t == 1 + usOp.k \div 2
     IN  \/ t \notin Entries(w) /\ Walk("clean") /\ UNCHANGED <<usPrepared, usBackup>>
         \/ t \in Entries(w) /\ usOp.k % 2 = 0 /\ CleanPrepared(w, t) /\ UNCHANGED usBackup
         \/ t \in Entries(w) /\ usOp.k % 2 = 1 /\ CleanBackup(w, t) /\ UNCHANGED usPrepared
  /\ Same(<<usTarget, setsVars>>)

Cleaned ==
  /\ At("clean") /\ usOp.k = 2 * N
  /\ GoTo(IF usOp.full /\ usOp.ret # "tidied" THEN "remove" ELSE usOp.ret)
  /\ Same(<<filesVars, setsVars>>)

(* remove_dir_all of a committed set: its files go in any order, so the    *)
(* journal may go before the directory does.                               *)
RemoveSet ==
  /\ At("remove")
  /\ \/ /\ usOp.work.lost = "nothing"
        /\ usOp' = [usOp EXCEPT !.work.lost = "journal"]
        /\ usCommitted' = (usCommitted \ {usOp.work}) \cup {[usOp.work EXCEPT !.lost = "journal"]}
     \/ GoTo(usOp.ret) /\ usCommitted' = usCommitted \ {usOp.work}
  /\ Same(<<filesVars, usPending, usPrevious, usApplied>>)

-----------------------------------------------------------------------------
(* Staging: the new set is complete before it gets its name.               *)

StageCheck ==
  /\ At("stage")
  /\ IF usPending.is /\ usPending.journal # "none" THEN Fail
     ELSE usOp' = [usOp EXCEPT !.pc = "swapSets",
                     !.work = [NoSet EXCEPT !.is = TRUE, !.gen = usOp.gen,
                                            !.src = usTarget[Exe], !.build = usOp.build]]
  /\ Same(<<filesVars, setsVars>>)

MovePending ==
  /\ At("swapSets")
  /\ GoTo("nameSet")
  /\ usPrevious' = IF usPending.is THEN usPending ELSE usPrevious
  /\ usPending' = NoSet
  /\ Same(<<filesVars, usCommitted, usApplied>>)

NameSet ==
  /\ At("nameSet")
  /\ GoTo("dropPrevious") /\ usPending' = usOp.work
  /\ Same(<<filesVars, usPrevious, usCommitted, usApplied>>)

(* Either rename fails: the previous set gets its name back, if that       *)
(* rename does not fail too.                                               *)
StageFault ==
  /\ At("swapSets") \/ At("nameSet")
  /\ Faulty /\ Fail
  /\ \/ UNCHANGED <<usPending, usPrevious>>
     \/ At("nameSet") /\ usPrevious.is /\ usPending' = usPrevious /\ usPrevious' = NoSet
  /\ UNCHANGED <<filesVars, usCommitted, usApplied, usBuilds, usWorld>>

DropPrevious ==
  /\ At("dropPrevious")
  /\ GoTo("done") /\ usPrevious' = NoSet
  /\ Same(<<filesVars, usPending, usCommitted, usApplied>>)

-----------------------------------------------------------------------------
(* Applying: what the pending set asks for.                                *)

(* Faulty: a build newer than the applied one re-executes.                 *)
RequiresReexecAnyBuild(build) ==
  usApplied.src # usApplied.tgt /\ usTarget[Exe] = usApplied.tgt

RequiresReexec(build) ==
  /\ usApplied.src # usApplied.tgt /\ build <= usApplied.build
  /\ usTarget[Exe] = usApplied.tgt

(* Faulty: an open journal is left for another launch.                     *)
JournalStepLater(set, fresh) ==
  CASE set.journal = "committed" -> "persist" [] set.journal = "applying" -> "done"
    [] OTHER -> fresh

(* Where the journal of a set says to go on.                               *)
JournalStep(set, fresh) ==
  CASE set.journal = "committed" -> "persist" [] set.journal = "applying" -> "rollback"
    [] OTHER -> fresh

(* Read the manifest, refuse it, or go on with its journal.                *)
Inspect ==
  /\ At("apply")
  /\ LET p == usPending
         foreign == p.lost = "manifest" \/ (usWorld.single /\ Entries(p) # {Exe})
     IN  CASE ~p.is -> GoTo("decide") /\ UNCHANGED usPending
           [] p.is /\ foreign -> Fail /\ (IF usWorld.single THEN Rejects ELSE UNCHANGED usPending)
           [] p.is /\ ~foreign /\ p.build > usOp.build ->
                /\ IF RequiresReexec(usOp.build) THEN GoTo("decide") ELSE Fail
                /\ UNCHANGED usPending
           [] OTHER ->
                /\ usOp' = [usOp EXCEPT !.k = 0, !.work = p, !.full = TRUE,
                              !.pc = JournalStep(p, "verify")]
                /\ UNCHANGED usPending
  /\ Same(<<filesVars, usPrevious, usCommitted, usApplied>>)

Verify ==
  /\ At("verify")
  /\ IF usTarget[Exe] = usPending.src /\ usPending.lost = "nothing"
     THEN GoTo("prepare") /\ UNCHANGED usPending
     ELSE Fail /\ (IF usWorld.single THEN Rejects ELSE UNCHANGED usPending)
  /\ Same(<<filesVars, usPrevious, usCommitted, usApplied>>)

(* Copy the staged file beside its target; the copy may be cut off.        *)
Prepare ==
  /\ At("prepare")
  /\ LET t == usOp.k + 1
     IN  IF usOp.k = N \/ t \notin Entries(usPending)
         THEN (IF usOp.k = N THEN GoTo("journal") ELSE Walk("prepare")) /\ UNCHANGED usPrepared
         ELSE IF usPrepared[t] # Torn
         THEN usPrepared' = [usPrepared EXCEPT ![t] = Torn] /\ UNCHANGED usOp
         ELSE /\ usPrepared' = [usPrepared EXCEPT ![t] = usPending.gen]
              /\ \E s \in Slots :
                   /\ usBackup[t][s] = Absent /\ (s = 0 \/ usBackup[t][0] # Absent)
                   /\ usOp' = [usOp EXCEPT !.k = @ + 1, !.work.orig[t] = usTarget[t],
                                           !.work.slot[t] = s]
  /\ Same(<<usTarget, usBackup, setsVars>>)

WriteJournal ==
  /\ At("journal")
  /\ usOp' = [usOp EXCEPT !.pc = "swapOut", !.work.journal = "applying"]
  /\ usPending' = [usOp.work EXCEPT !.journal = "applying"]
  /\ Same(<<filesVars, usPrevious, usCommitted, usApplied>>)

-----------------------------------------------------------------------------
(* The swap: each target steps aside for its successor, the executable     *)
(* last; any failure turns to the rollback.                                *)

(* Faulty: the journal is dropped without a rollback.                      *)
UndoForgets == usOp' = [usOp EXCEPT !.pc = "unjournal", !.k = 0, !.failed = TRUE, !.full = TRUE]

Undo == usOp' = [usOp EXCEPT !.pc = "rollback", !.k = 0, !.failed = TRUE, !.full = TRUE]

(* Faulty: the original is deleted, not moved to its backup.               *)
SwapOutDeletes ==
  /\ At("swapOut")
  /\ LET w == usOp.work
         t == usOp.k + 1
     IN  IF usOp.k = N THEN GoTo("commit") /\ UNCHANGED usTarget
         ELSE IF t \notin Entries(w) THEN Walk("swapOut") /\ UNCHANGED usTarget
         ELSE IF usTarget[t] # w.orig[t] THEN Undo /\ UNCHANGED usTarget
         ELSE /\ usOp' = [usOp EXCEPT !.pc = "swapIn"]
              /\ usTarget' = [usTarget EXCEPT ![t] = Absent]
  /\ Same(<<usPrepared, usBackup, setsVars>>)

SwapOut ==
  /\ At("swapOut")
  /\ LET w == usOp.work
         t == usOp.k + 1
     IN  IF usOp.k = N THEN GoTo("commit") /\ UNCHANGED <<usTarget, usBackup>>
         ELSE IF t \notin Entries(w) THEN Walk("swapOut") /\ UNCHANGED <<usTarget, usBackup>>
         ELSE IF usTarget[t] # w.orig[t] THEN Undo /\ UNCHANGED <<usTarget, usBackup>>
         ELSE /\ usOp' = [usOp EXCEPT !.pc = "swapIn"]
              /\ usTarget' = [usTarget EXCEPT ![t] = Absent]
              /\ usBackup' = IF w.orig[t] = Absent THEN usBackup
                             ELSE [usBackup EXCEPT ![t][w.slot[t]] = w.orig[t]]
  /\ Same(<<usPrepared, setsVars>>)

SwapIn ==
  /\ At("swapIn")
  /\ LET t == usOp.k + 1
     IN  IF usPrepared[t] = usOp.work.gen
         THEN /\ Walk("swapOut")
              /\ usTarget' = [usTarget EXCEPT ![t] = usPrepared[t]]
              /\ usPrepared' = [usPrepared EXCEPT ![t] = Absent]
         ELSE Undo /\ UNCHANGED <<usTarget, usPrepared>>
  /\ Same(<<usBackup, setsVars>>)

SwapFault ==
  /\ At("swapOut") \/ At("swapIn")
  /\ usOp.k < N /\ usOp.k + 1 \in Entries(usOp.work)
  /\ Faulty /\ Undo
  /\ UNCHANGED <<filesVars, setsVars, usBuilds, usWorld>>

Commit ==
  /\ At("commit")
  /\ usOp' = [usOp EXCEPT !.pc = "persist", !.work.journal = "committed"]
  /\ usPending' = [usOp.work EXCEPT !.journal = "committed"]
  /\ Same(<<filesVars, usPrevious, usCommitted, usApplied>>)

Persist ==
  /\ At("persist")
  /\ IF usTarget[Exe] = usOp.work.gen
     THEN /\ GoTo("detach")
          /\ usApplied' = [src |-> usOp.work.src, tgt |-> usOp.work.gen, build |-> usOp.work.build]
     ELSE Fail /\ UNCHANGED usApplied
  /\ Same(<<filesVars, usPending, usPrevious, usCommitted>>)

(* finish_committed: the set changes its name, then its files are cleaned. *)
Detach ==
  /\ At("detach")
  /\ usOp' = [usOp EXCEPT !.pc = "clean", !.k = 0, !.full = TRUE,
                          !.ret = IF usOp.kind = "apply" THEN "decide" ELSE "done"]
  /\ usCommitted' = usCommitted \cup {usOp.work} /\ usPending' = NoSet
  /\ Same(<<filesVars, usPrevious, usApplied>>)

Decide ==
  /\ At("decide")
  /\ usOp' = [usOp EXCEPT !.pc = "done", !.reexec = RequiresReexec(usOp.build)]
  /\ Same(<<filesVars, setsVars>>)

-----------------------------------------------------------------------------
(* rollback_entry, entry by entry in reverse; an entry that cannot be      *)
(* restored is skipped and the journal then stays.                         *)
Skip == usOp' = [usOp EXCEPT !.k = @ + 1, !.full = FALSE]

(* remove_file on an image that a process runs: where it is locked the     *)
(* removal may fail.                                                       *)
Uninstall(t) ==
  \/ usTarget' = [usTarget EXCEPT ![t] = Absent] /\ UNCHANGED <<usOp, usPrepared, usBackup>>
  \/ usWorld.locks /\ Skip /\ UNCHANGED filesVars

Restore(w, t) ==
  CASE usTarget[t] = w.orig[t] ->
         /\ UNCHANGED <<usTarget, usBackup>>
         /\ IF Backup(w, t) \in {Absent, w.orig[t]}
            THEN Walk("rollback") /\ usPrepared' = [usPrepared EXCEPT ![t] = Absent]
            ELSE Skip /\ UNCHANGED usPrepared
    [] usTarget[t] # w.orig[t] /\ (Backup(w, t) # w.orig[t] \/ usTarget[t] \notin {Absent, w.gen}) ->
         Skip /\ UNCHANGED filesVars
    [] OTHER ->
         CASE usPrepared[t] # w.orig[t] ->  \* prepare_verified_copy
                /\ usPrepared' = [usPrepared EXCEPT ![t] = IF @ = Torn THEN w.orig[t] ELSE Torn]
                /\ UNCHANGED <<usOp, usTarget, usBackup>>
           [] usPrepared[t] = w.orig[t] /\ usTarget[t] # Absent -> Uninstall(t)
           [] OTHER ->
                /\ Walk("rollback")
                /\ usTarget' = [usTarget EXCEPT ![t] = w.orig[t]]
                /\ usPrepared' = [usPrepared EXCEPT ![t] = Absent]
                /\ UNCHANGED usBackup

Withdraw(w, t) ==
  CASE Backup(w, t) # Absent \/ usTarget[t] \notin {Absent, w.gen} -> Skip /\ UNCHANGED filesVars
    [] Backup(w, t) = Absent /\ usTarget[t] = w.gen -> Uninstall(t)
    [] OTHER ->
         /\ Walk("rollback") /\ usPrepared' = [usPrepared EXCEPT ![t] = Absent]
         /\ UNCHANGED <<usTarget, usBackup>>

Rollback ==
  /\ At("rollback")
  /\ LET w == usOp.work
         t == N - usOp.k
     IN  CASE usOp.k = N ->
                UNCHANGED filesVars /\ (IF usOp.full THEN GoTo("unjournal") ELSE Fail)
           [] usOp.k < N /\ t \notin Entries(w) -> Walk("rollback") /\ UNCHANGED filesVars
           [] usOp.k < N /\ t \in Entries(w) /\ w.orig[t] # Absent -> Restore(w, t)
           [] OTHER -> Withdraw(w, t)
  /\ Same(setsVars)

(* Remove the journal, then what the transaction left beside the targets.  *)
Unjournal ==
  /\ At("unjournal")
  /\ usOp' = [usOp EXCEPT !.pc = "clean", !.k = 0, !.ret = "tidied"]
  /\ usPending' = [usPending EXCEPT !.journal = "none", !.orig = NoOriginals, !.slot = NoOriginals]
  /\ Same(<<filesVars, usPrevious, usCommitted, usApplied>>)

Tidied ==
  /\ At("tidied")
  /\ GoTo(CASE usOp.failed -> "done" [] usOp.kind = "clear" -> "dropPending" [] OTHER -> "verify")
  /\ Same(<<filesVars, setsVars>>)

-----------------------------------------------------------------------------
(* clear_staged_binary_update.                                             *)
ClearInspect ==
  /\ At("clear")
  /\ LET p == usPending
     IN  CASE ~p.is -> GoTo("done")
           [] p.is /\ (p.lost = "manifest" \/ Entries(p) # {Exe}) -> Fail
           [] OTHER -> usOp' = [usOp EXCEPT !.k = 0, !.work = p, !.full = TRUE,
                                  !.pc = JournalStep(p, "dropPending")]
  /\ Same(<<filesVars, setsVars>>)

(* remove_dir_all again: the manifest or a component may go first.         *)
DropPending ==
  /\ At("dropPending")
  /\ \/ /\ usPending.lost = "nothing" /\ UNCHANGED usOp
        /\ \E what \in {"manifest", "component"} : usPending' = [usPending EXCEPT !.lost = what]
     \/ GoTo("done") /\ usPending' = NoSet
  /\ Same(<<filesVars, usPrevious, usCommitted, usApplied>>)

-----------------------------------------------------------------------------
(* The operation returns, or its process ends in the middle of it.         *)
Return ==
  /\ At("done") /\ usOp' = NoOperation
  /\ Same(<<filesVars, setsVars>>)

Abort ==
  /\ ~At("idle") /\ usSpent.aborts < MaxAborts
  /\ usSpent' = [usSpent EXCEPT !.aborts = @ + 1] /\ usOp' = NoOperation
  /\ UNCHANGED <<filesVars, setsVars, usBuilds, usWorld>>

OperationStep ==
  \/ RecoverSwap \/ Sweep \/ CleanFile \/ Cleaned \/ RemoveSet
  \/ StageCheck \/ MovePending \/ NameSet \/ DropPrevious
  \/ Inspect \/ Verify \/ Prepare \/ WriteJournal \/ SwapOut \/ SwapIn
  \/ Commit \/ Persist \/ Detach \/ Decide \/ Rollback \/ Unjournal \/ Tidied
  \/ ClearInspect \/ DropPending \/ Return

(* A launch, by a process of the installed build or by one that has waited.*)
Launch == BeginApply(usTarget[Exe])

UpdateNext ==
  \/ OperationStep \/ StageFault \/ SwapFault \/ Abort \/ Launch
  \/ \E b \in usBuilds : BeginApply(b) \/ BeginClear(b) \/ \E g \in 1..MaxGen : BeginStage(b, g)

(* An operation runs on, and the program is launched again and again.      *)
UpdateFairness == WF_updateVars(OperationStep) /\ SF_updateVars(Launch)

UpdateSpec == UpdateInit /\ [][UpdateNext]_updateVars /\ UpdateFairness

-----------------------------------------------------------------------------
(* The types of the files, the sets and the operation.                     *)
UpdateTypeOK ==
  /\ usTarget \in [Targets -> 0..MaxGen]
  /\ usPrepared \in [Targets -> 0..Torn]
  /\ usBackup \in [Targets -> [Slots -> 0..MaxGen]]
  /\ usPending.journal \in {"none", "applying", "committed"} /\ usPending.gen \in 1..MaxGen
  /\ usOp.k \in 0..2 * N /\ usBuilds \subseteq 1..MaxGen

Applying == usPending.is /\ usPending.journal = "applying"
Covered(t) == t \in Entries(usPending)

(* All or nothing, whoever crashes and whichever rename fails: installed   *)
(* files change only while a journal says so; the journal commits when     *)
(* every file of the set is the new one, and it is withdrawn when every    *)
(* file is again what it was (update_set.rs: apply_entries, rollback).     *)
AllOrNothing ==
  [][ /\ ~Applying => usTarget' = usTarget
      /\ Applying /\ ~Applying' =>
           \/ usPending'.journal = "committed" /\ \A t \in Targets : Covered(t) => usTarget'[t] = usPending.gen
           \/ usPending'.journal = "none" /\ \A t \in Targets : Covered(t) => usTarget'[t] = usPending.orig[t]
    ]_updateVars

(* What an open transaction replaces is never lost: the original of every  *)
(* file is at its place or in the backup the journal names, so the next    *)
(* launch can go back (JournalEntry, backup_path_for_transaction).  This   *)
(* is for installations whose running images can be deleted; in the others *)
(* a set stays retained, and its cleanup takes a backup of the same name.  *)
OriginalKept ==
  ~usWorld.locks /\ Applying => \A t \in Targets :
    Covered(t) /\ usPending.orig[t] # Absent => usPending.orig[t] \in {usTarget[t], Backup(usPending, t)}

(* A process told to start again finds a newer executable than itself: the *)
(* launch that applied a set, or met one applied by another process, never *)
(* restarts into the same build for ever (applied_generation_requires_     *)
(* reexec; test source_and_older_builds_reexec_but_newer_build_does_not).  *)
ReexecIsProgress == At("done") /\ usOp.reexec => usTarget[Exe] > usOp.build

(* What no launch gets past: the executable is gone, the set comes from a  *)
(* build that was rolled back, a rollback would have to delete an image    *)
(* that is locked while it runs or to restore an original that was lost,   *)
(* or a retained set cannot be cleaned.                                    *)
Wedged ==
  \/ usTarget[Exe] = Absent
  \/ usPending.is /\ usPending.build > usTarget[Exe]
  \/ /\ usWorld.locks /\ Applying
     /\ \E t \in Targets :
          /\ Covered(t) /\ usTarget[t] # usPending.orig[t]
          /\ usTarget[t] = usPending.gen \/ Backup(usPending, t) # usPending.orig[t]
  \/ \E s \in usCommitted :
       \/ s.lost = "journal"
       \/ \E t \in Entries(s) : \/ usPrepared[t] \notin {Absent, s.gen, s.orig[t]}
                              \/ Backup(s, t) \notin {Absent, s.orig[t]}

(* An interrupted transaction is settled by later launches, forwards or    *)
(* backwards, unless the crash left what no launch gets past.              *)
TransactionSettles == Applying ~> (~Applying \/ Wedged)

(* "Crash-recoverable staged updates for a binary and its sibling runtimes"*)
(* (update_set.rs): after a crash the next launch can work.                *)
NextLaunchRecovers == At("idle") => ~Wedged
=============================================================================
