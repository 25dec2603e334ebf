------------------------- MODULE SqliteStorageProofs -------------------------
(***************************************************************************)
(* The ownership of a job database, proved for any number of instances and *)
(* callers.                                                                *)
(***************************************************************************)
EXTENDS SqliteStorage, TLAPS

(***************************************************************************)
(* Why OwnerOnly holds.  An instance has the OS lock exactly while its     *)
(* lock_file is there; one that is open and not closed has it; and one     *)
(* whose lock_file is gone has nobody past the closed check, because every *)
(* release waited for the guards and set closed before.                    *)
(***************************************************************************)
LeaseInv ==
    /\ \A i \in Instances : lockFile[i] <=> lease = i
    /\ \A i \in Instances : status[i] = "opening" => lockFile[i]
    /\ \A i \in Instances : status[i] # "open" => Quiescent(i)
    /\ \A i \in Instances : status[i] = "open" /\ ~closed[i] => lockFile[i]
    /\ \A i \in Instances : Inside(i) => lockFile[i] /\ status[i] = "open"
    /\ \A i \in Instances : closer[i] = "marked" => closed[i]
    /\ \A i \in Instances : closer[i] # "idle" => status[i] = "open"
    /\ \A i \in Instances : fence[i] = "waiting" => closed[i]
    /\ \A i \in Instances :
          status[i] \in {"new", "opening"} => ~closed[i] /\ fence[i] = "none"

IInv == TypeOK /\ LeaseInv

(* An instance without guards has nobody past the check.                   *)
LEMMA QuiescentIsOutside ==
    ASSUME NEW i \in Instances, Quiescent(i)
    PROVE  ~Inside(i)
BY DEF Quiescent, Inside

(* Initially nobody holds the lease.                                       *)
LEMMA InitIInv == Init => IInv
BY OwnerAssumption DEF Init, IInv, TypeOK, LeaseInv, Quiescent, Inside, Guarded

(* Every step keeps the types.                                             *)
LEMMA TypeStep == TypeOK /\ [Next]_vars => TypeOK'
<1> SUFFICES ASSUME TypeOK, [Next]_vars PROVE TypeOK'
  OBVIOUS
<1> USE DEF TypeOK, Guarded
<1>1. CASE UNCHANGED vars
  BY <1>1 DEF vars
<1>2. ASSUME NEW i \in Instances, NEW c \in Callers, Enter(i, c) \/ Operation(i, c)
      PROVE  TypeOK'
  <2>1. /\ UNCHANGED <<lease, status, lockFile, closed, closer, fence>>
        /\ \E pc \in {"idle"} \cup Guarded : op' = [op EXCEPT ![i][c] = pc]
    BY <1>2, Zenon DEF Enter, Operation, EnsureOpen, LockConnection, Query,
                       Recheck, Execute, Finish, Goto, Move
  <2>2. \/ late' = late
        \/ late' = [late EXCEPT ![i] = IF closed[i] THEN @ + 1 ELSE @]
    BY <1>2, Zenon DEF Enter, Operation, EnsureOpen, LockConnection, Query, Recheck,
                       Execute, Finish, Goto, Move
  <2>3. late' \in [Instances -> Nat]
    BY <2>2
  <2>4. op' \in [Instances -> [Callers -> {"idle"} \cup Guarded]]
    BY <2>1
  <2> QED
    BY <2>1, <2>3, <2>4, Zenon
<1>3. ASSUME NEW i \in Instances, Open(i) \/ OpenReturns(i) \/ OpenFails(i)
      PROVE  TypeOK'
  BY <1>3, Zenon DEF Open, OpenReturns, OpenFails, Unlock
<1>4. ASSUME NEW i \in Instances,
             Shutdown(i) \/ ForceClose(i) \/ Closing(i) \/ Fence(i) \/ Drop(i)
      PROVE  TypeOK'
  BY <1>4, Zenon DEF Shutdown, ForceClose, Closing, ShutdownReleases, ForceRelease,
              ForceDefer, Fence, Drop, Unlock
<1>5. ASSUME NEW i \in Instances, ProcessDies(i)
      PROVE  TypeOK'
  BY <1>5 DEF ProcessDies, Unlock
<1> QED
  BY <1>1, <1>2, <1>3, <1>4, <1>5 DEF Next

(***************************************************************************)
(* A step inside an operation: only the passage of the closed check can    *)
(* disturb the invariant, and it requires an instance that is not closed.  *)
(***************************************************************************)
LEMMA OperationStep ==
    ASSUME IInv, NEW i \in Instances, NEW c \in Callers,
           Enter(i, c) \/ Operation(i, c)
    PROVE  LeaseInv'
<1> USE DEF IInv, TypeOK, Guarded
<1>1. /\ status[i] = "open"
      /\ UNCHANGED <<lease, status, lockFile, closed, closer, fence>>
  BY DEF Enter, Operation, EnsureOpen, LockConnection, Query, Recheck,
         Execute, Finish, At, Goto, Move
<1>2. \A k \in Instances \ {i} : op'[k] = op[k]
  BY DEF Enter, Operation, EnsureOpen, LockConnection, Query, Recheck,
         Execute, Finish, At, Goto, Move
<1>3. \A d \in Callers \ {c} : op'[i][d] = op[i][d]
  BY DEF Enter, Operation, EnsureOpen, LockConnection, Query, Recheck,
         Execute, Finish, At, Goto, Move
<1>4. \/ op'[i][c] \in {"idle", "entered"}
      \/ op[i][c] \in Guarded \ {"entered"}
      \/ ~closed[i]
  BY DEF Enter, Operation, EnsureOpen, LockConnection, Query, Recheck,
         Execute, Finish, At, Goto, Move
<1>5. Inside(i)' => Inside(i) \/ ~closed[i]
  BY <1>3, <1>4 DEF Inside
<1>6. \A k \in Instances \ {i} : Inside(k)' = Inside(k) /\ Quiescent(k)' = Quiescent(k)
  BY <1>2 DEF Inside, Quiescent
<1> QED
  BY <1>1, <1>5, <1>6, Zenon DEF LeaseInv

(* Taking the lease, and ending the attempt to open.                       *)
LEMMA OpenStep ==
    ASSUME IInv, NEW i \in Instances,
           Open(i) \/ OpenReturns(i) \/ OpenFails(i)
    PROVE  LeaseInv'
<1> USE DEF IInv, TypeOK
<1>1. UNCHANGED <<op, closed, closer, fence>>
  BY DEF Open, OpenReturns, OpenFails
<1>2. \A k \in Instances : Inside(k)' = Inside(k) /\ Quiescent(k)' = Quiescent(k)
  BY <1>1 DEF Inside, Quiescent
<1>3. CASE Open(i)
  <2>1. \A k \in Instances : ~lockFile[k]
    BY <1>3, OwnerAssumption DEF Open, LeaseInv
  <2> QED
    BY <1>1, <1>2, <1>3, <2>1 DEF Open, LeaseInv
<1>4. CASE OpenReturns(i)
  BY <1>1, <1>2, <1>4 DEF OpenReturns, LeaseInv
<1>5. CASE OpenFails(i)
  BY <1>1, <1>2, <1>5, QuiescentIsOutside, OwnerAssumption
     DEF OpenFails, LeaseInv, Unlock
<1> QED
  BY <1>3, <1>4, <1>5

(* Closing, with or without the fence: the lease goes only when no guard   *)
(* is left, and the instance is closed by then.                            *)
LEMMA CloseStep ==
    ASSUME IInv, NEW i \in Instances,
           Shutdown(i) \/ ForceClose(i) \/ Closing(i) \/ Fence(i)
    PROVE  LeaseInv'
<1> USE DEF IInv, TypeOK
<1>1. UNCHANGED <<op, status>>
  BY DEF Shutdown, ForceClose, Closing, ShutdownReleases, ForceRelease,
         ForceDefer, Fence
<1>2. \A k \in Instances : Inside(k)' = Inside(k) /\ Quiescent(k)' = Quiescent(k)
  BY <1>1 DEF Inside, Quiescent
<1>3. CASE Shutdown(i)
  BY <1>1, <1>2, <1>3 DEF Shutdown, LeaseInv
<1>8. CASE ForceClose(i)
  BY <1>1, <1>2, <1>8 DEF ForceClose, LeaseInv
<1>4. CASE ShutdownReleases(i)
  BY <1>1, <1>2, <1>4, QuiescentIsOutside, OwnerAssumption
     DEF ShutdownReleases, Unlock, LeaseInv
<1>5. CASE ForceRelease(i)
  BY <1>1, <1>2, <1>5, QuiescentIsOutside, OwnerAssumption
     DEF ForceRelease, Unlock, LeaseInv
<1>6. CASE ForceDefer(i)
  BY <1>1, <1>2, <1>6 DEF ForceDefer, LeaseInv
<1>7. CASE Fence(i)
  BY <1>1, <1>2, <1>7, QuiescentIsOutside, OwnerAssumption
     DEF Fence, Unlock, LeaseInv
<1> QED
  BY <1>3, <1>4, <1>5, <1>6, <1>7, <1>8 DEF Closing

(* Drop and the end of a process take the instance out of use.             *)
LEMMA EndStep ==
    ASSUME IInv, NEW i \in Instances, Drop(i) \/ ProcessDies(i)
    PROVE  LeaseInv'
<1> USE DEF IInv, TypeOK
<1>1. \A k \in Instances \ {i} : op'[k] = op[k]
  BY DEF Drop, ProcessDies
<1>2. \A k \in Instances \ {i} : Inside(k)' = Inside(k) /\ Quiescent(k)' = Quiescent(k)
  BY <1>1 DEF Inside, Quiescent
<1>3. Quiescent(i)' /\ ~Inside(i)'
  BY DEF Drop, ProcessDies, Quiescent, Inside, Guarded
<1>4. CASE Drop(i)
  BY <1>2, <1>3, <1>4, OwnerAssumption DEF Drop, Unlock, LeaseInv
<1>5. CASE ProcessDies(i)
  BY <1>2, <1>3, <1>5, OwnerAssumption DEF ProcessDies, Unlock, LeaseInv
<1> QED
  BY <1>4, <1>5

(***************************************************************************)
(* SqliteStorage is type correct.                                          *)
(***************************************************************************)
THEOREM TypeCorrect == Spec => []TypeOK
<1>1. Init => TypeOK
  BY InitIInv DEF IInv
<1> QED
  BY <1>1, TypeStep, PTL DEF Spec

(* The inductive invariant holds.                                          *)
LEMMA InvariantHolds == Spec => []IInv
<1>1. IInv /\ [Next]_vars => IInv'
  <2> SUFFICES ASSUME IInv, [Next]_vars PROVE IInv'
    OBVIOUS
  <2>1. TypeOK'
    BY TypeStep DEF IInv
  <2>2. LeaseInv'
    <3>1. CASE UNCHANGED vars
      BY <3>1 DEF vars, IInv, LeaseInv, Quiescent, Inside
    <3>2. CASE Next
      BY <3>2, OperationStep, OpenStep, CloseStep, EndStep DEF Next
    <3> QED
      BY <3>1, <3>2
  <2> QED
    BY <2>1, <2>2 DEF IInv
<1> QED
  BY InitIInv, <1>1, PTL DEF Spec

(***************************************************************************)
(* Whatever force_close, shutdown, the fence thread, Drop and dying        *)
(* processes do, and however many instances compete for one database file, *)
(* an instance that is inside an operation past ensure_open owns the       *)
(* lease: no replacement can be writing.                                   *)
(***************************************************************************)
THEOREM OnlyTheOwnerRuns == Spec => []OwnerOnly
<1>1. IInv => OwnerOnly
  BY DEF IInv, LeaseInv, OwnerOnly
<1> QED
  BY InvariantHolds, <1>1, PTL

-----------------------------------------------------------------------------
(***************************************************************************)
(* Why AtMostOneLateWrite holds.  One caller at a time is past the mutex   *)
(* of the connection, so at most one has been cleared when the instance is *)
(* closed, nobody is cleared afterwards, and before there is no late write.*)
(***************************************************************************)
Inner == {"locked", "cleared"} \cup Statement

Cleared(i) == \E c \in Callers : op[i][c] = "cleared"

WriteInv ==
    /\ \A i \in Instances, c, d \in Callers :
          op[i][c] \in Inner /\ op[i][d] \in Inner => c = d
    /\ \A i \in Instances : ~closed[i] => late[i] = 0
    /\ \A i \in Instances : closed[i] /\ Cleared(i) => late[i] = 0
    /\ \A i \in Instances : late[i] <= 1

(* A caller moves: into the mutex when nobody is inside, to "cleared" only *)
(* on an open instance, and from there to its statement.                   *)
LEMMA CallerWrites ==
    ASSUME TypeOK, WriteInv, NEW i \in Instances, NEW c \in Callers,
           Enter(i, c) \/ Operation(i, c)
    PROVE  WriteInv'
<1> USE DEF TypeOK, Guarded
<1>1. /\ status[i] = "open" /\ UNCHANGED <<status, closed>>
      /\ \A k \in Instances \ {i} : op'[k] = op[k]
      /\ \A d \in Callers \ {c} : op'[i][d] = op[i][d]
      /\ \A k \in Instances \ {i} : late'[k] = late[k]
  BY DEF Enter, Operation, EnsureOpen, LockConnection, Query, Recheck,
         Execute, Finish, At, Goto, Move
<1>2. \/ op'[i][c] \notin Inner \/ op[i][c] \in Inner
      \/ \A d \in Callers : op[i][d] \notin Inner
  BY DEF Enter, Operation, EnsureOpen, LockConnection, Query, Recheck,
         Execute, Finish, At, Goto, Move, Inner, Statement
<1>3. op'[i][c] = "cleared" => ~closed[i] /\ late'[i] = late[i]
  BY DEF Enter, Operation, EnsureOpen, LockConnection, Query, Recheck,
         Execute, Finish, At, Goto, Move
<1>4. \/ late'[i] = late[i]
      \/ closed[i] /\ op[i][c] = "cleared" /\ op'[i][c] = "execute" /\ late'[i] = late[i] + 1
  BY DEF Enter, Operation, EnsureOpen, LockConnection, Query, Recheck,
         Execute, Finish, At, Goto, Move
<1>5. \A k \in Instances, d, e \in Callers :
        op'[k][d] \in Inner /\ op'[k][e] \in Inner => d = e
  BY <1>1, <1>2, ZenonT(60) DEF WriteInv
<1>6. \A k \in Instances \ {i} : Cleared(k)' = Cleared(k)
  BY <1>1 DEF Cleared
<1>8. CASE late'[i] = late[i]
  <2>1. closed[i] /\ Cleared(i)' => Cleared(i)
    BY <1>1, <1>3 DEF Cleared
  <2>2. \A k \in Instances : late'[k] = late[k]
    BY <1>1, <1>8
  <2> QED
    BY <1>1, <1>5, <1>6, <2>1, <2>2 DEF WriteInv
<1>9. CASE closed[i] /\ op[i][c] = "cleared" /\ op'[i][c] = "execute" /\ late'[i] = late[i] + 1
  <2>1. Cleared(i) /\ late[i] = 0
    BY <1>9 DEF Cleared, WriteInv
  <2>2. ~Cleared(i)'
    <3> SUFFICES ASSUME NEW d \in Callers, op'[i][d] = "cleared" PROVE FALSE
      BY DEF Cleared
    <3>1. d # c /\ op[i][d] = "cleared"
      BY <1>1, <1>9
    <3> QED
      BY <1>9, <3>1 DEF WriteInv, Inner
  <2>3. late'[i] = 1
    BY <1>9, <2>1
  <2>4. \A k \in Instances : ~closed'[k] => late'[k] = 0
    BY <1>1, <1>9 DEF WriteInv
  <2>5. \A k \in Instances : closed'[k] /\ Cleared(k)' => late'[k] = 0
    BY <1>1, <1>6, <2>2, Zenon DEF WriteInv
  <2>6. \A k \in Instances : late'[k] <= 1
    BY <1>1, <2>3 DEF WriteInv
  <2> QED
    BY <1>5, <2>4, <2>5, <2>6, Zenon DEF WriteInv
<1> QED
  BY <1>4, <1>8, <1>9

(* The other steps move no caller, except that a process may die.          *)
LEMMA OtherStepsWriteNothing ==
    ASSUME TypeOK, WriteInv, NEW i \in Instances,
           \/ Open(i) \/ OpenReturns(i) \/ OpenFails(i)
           \/ Shutdown(i) \/ ForceClose(i) \/ Closing(i) \/ Fence(i) \/ Drop(i)
           \/ ProcessDies(i)
    PROVE  WriteInv'
<1> USE DEF TypeOK
<1>1. UNCHANGED late /\ \A k \in Instances : closed[k] => closed'[k]
  BY DEF Open, OpenReturns, OpenFails, Shutdown, ForceClose, Closing, ShutdownReleases,
         ForceRelease, ForceDefer, Fence, Drop, ProcessDies
<1>2. \A k \in Instances, c \in Callers : op'[k][c] = op[k][c] \/ op'[k][c] = "idle"
  BY DEF Open, OpenReturns, OpenFails, Shutdown, ForceClose, Closing, ShutdownReleases,
         ForceRelease, ForceDefer, Fence, Drop, ProcessDies
<1>3. \A k \in Instances, c, d \in Callers :
        op'[k][c] \in Inner /\ op'[k][d] \in Inner => c = d
  BY <1>2, Zenon DEF WriteInv, Inner, Statement
<1>4. \A k \in Instances : Cleared(k)' => Cleared(k)
  BY <1>2 DEF Cleared
<1>5. \A k \in Instances : ~closed[k] => late[k] = 0
  BY DEF WriteInv
<1> QED
  BY <1>1, <1>3, <1>4, <1>5, Zenon DEF WriteInv

(***************************************************************************)
(* Closing an instance, by shutdown or force_close, lets at most one more  *)
(* write statement start, however many instances and callers there are.    *)
(***************************************************************************)
THEOREM CloseStopsWrites == Spec => []AtMostOneLateWrite
<1>1. Init => WriteInv
  BY DEF Init, WriteInv, Cleared, Inner, Statement
<1>2. TypeOK /\ WriteInv /\ [Next]_vars => WriteInv'
  <2> SUFFICES ASSUME TypeOK, WriteInv, [Next]_vars PROVE WriteInv'
    OBVIOUS
  <2>1. CASE UNCHANGED vars
    BY <2>1 DEF vars, WriteInv, Cleared
  <2>2. CASE Next
    BY <2>2, CallerWrites, OtherStepsWriteNothing, Zenon DEF Next
  <2> QED
    BY <2>1, <2>2
<1>3. WriteInv => AtMostOneLateWrite
  BY DEF WriteInv, AtMostOneLateWrite
<1> QED
  BY <1>1, <1>2, <1>3, TypeCorrect, PTL DEF Spec

=============================================================================
