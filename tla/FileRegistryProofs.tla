------------------------- MODULE FileRegistryProofs -------------------------
(***************************************************************************)
(* The transactions and the sentinels of the file registry, proved for any *)
(* number of processes, services of older builds, clients, failed flushes  *)
(* and reader threads.                                                     *)
(***************************************************************************)
EXTENDS FileRegistry, TLAPS

(***************************************************************************)
(* What a transaction knows of the file at each of its places, on a handle *)
(* without reader threads: its map is what it loaded with its edit on top, *)
(* and what it is about to write holds the edit and every row it loaded.   *)
(* The lock keeps the other processes away: where no older builds write,   *)
(* what it loaded is still in the file.                                    *)
(***************************************************************************)
Follows(p) ==
  /\ tx[p].intact
  /\ tx[p].pc = "base" => (Legacy = {} => mem[p] = disk)
  /\ tx[p].pc = "apply" => mem[p] = tx[p].base /\ (Legacy = {} => tx[p].base = disk)
  /\ tx[p].pc = "flush" =>
       /\ \A k \in Services :
            mem[p][k] = IF k \in tx[p].edited THEN tx[p].edit[k] ELSE tx[p].base[k]
       /\ Legacy = {} => tx[p].base = disk
  /\ tx[p].pc = "rename" =>
       /\ \A k \in tx[p].edited : tx[p].next[k] = tx[p].edit[k]
       /\ \A k \in Services \ tx[p].edited :
            /\ tx[p].base[k] # Absent => tx[p].next[k] # Absent
            /\ Legacy = {} => tx[p].next[k] = disk[k]

TxInv == \A p \in Procs \ Readers : Follows(p)

(***************************************************************************)
(* A running process whose host runs and that holds its handle has the     *)
(* named sentinel file locked.  Another process unlinks that file only if  *)
(* the host is dead, and a dead host stays dead.                           *)
(***************************************************************************)
SentinelInv ==
  /\ \A p \in Procs : up[p] /\ hostUp[p] /\ handle[p] => sentinel[p] = "held"
  /\ \A p \in Procs : tx[p].op.name = "deregister" /\ tx[p].op.key # p =>
       tx[p].op.key \in Procs /\ ~hostUp[tx[p].op.key]

IInv == TypeOK /\ TxInv /\ SentinelInv

-----------------------------------------------------------------------------
(* The constants of the model have their types.                            *)
LEMMA ConstantTypes ==
  /\ NoRows \in Rows /\ NoTx \in Tx /\ NoRd \in Rd
  /\ NoTx.pc = "idle" /\ NoTx.op.name = "none" /\ NoTx.intact
  /\ \A k \in Services \cup {Absent}, c \in Clients \cup {NoClient}, n \in OpNames :
       LET o == [name |-> n, key |-> k, client |-> c]
           t == [NoTx EXCEPT !.pc = "load", !.op = o]
       IN  t \in Tx /\ t.pc = "load" /\ t.op = o /\ t.intact
<1>1. NoRows \in Rows
  BY DEF NoRows, Rows, Entry
<1>2. NoOp \in Op
  BY DEF NoOp, Op, OpNames
<1>3. NoTx \in Tx /\ NoTx.pc = "idle" /\ NoTx.op.name = "none" /\ NoTx.intact
  BY <1>1, <1>2 DEF NoTx, Tx, NoOp
<1>4. NoRd \in Rd
  BY <1>1 DEF NoRd, Rd
<1>5. ASSUME NEW k \in Services \cup {Absent}, NEW c \in Clients \cup {NoClient},
             NEW n \in OpNames
      PROVE  LET o == [name |-> n, key |-> k, client |-> c]
                 t == [NoTx EXCEPT !.pc = "load", !.op = o]
             IN  t \in Tx /\ t.pc = "load" /\ t.op = o /\ t.intact
  <2>1. [name |-> n, key |-> k, client |-> c] \in Op
    BY DEF Op
  <2> QED
    BY <2>1, <1>3, Zenon DEF Tx
<1> QED
  BY <1>1, <1>3, <1>4, <1>5, Zenon

(* Patch puts the edit on top of a map.                                    *)
LEMMA PatchRows ==
  ASSUME NEW m \in Rows, NEW K \in SUBSET Services, NEW e \in Rows
  PROVE  /\ Patch(m, K, e) \in Rows
         /\ \A k \in Services : Patch(m, K, e)[k] = IF k \in K THEN e[k] ELSE m[k]
BY DEF Patch, Rows

(* Merging with the file yields rows.                                      *)
LEMMA ReconcileRows ==
  ASSUME NEW b \in Rows, NEW f \in Rows, NEW l \in Rows, NEW c
  PROVE  Reconcile(b, f, l, c) \in Rows
BY DEF Reconcile, Rows

(* The answer to the caller changes only the life of the registration.     *)
LEMMA ReturnTypes ==
  ASSUME TypeOK, NEW p \in Procs, NEW found \in BOOLEAN, NEW ok \in BOOLEAN,
         Return(p, found, ok)
  PROVE  /\ stage' \in [Procs -> {"starting", "active", "stopping", "stopped"}]
         /\ missing' \in [Procs -> BOOLEAN]
         /\ up' = up /\ hostUp' = hostUp
<1>1. stage' \in [Procs -> {"starting", "active", "stopping", "stopped"}]
  BY DEF Return, TypeOK
<1>2. missing' \in [Procs -> BOOLEAN]
  BY Zenon DEF Return, TypeOK
<1> QED
  BY <1>1, <1>2, Zenon DEF Return

(* What a transaction knows survives a step that leaves it, its map and,   *)
(* if no older build writes, the file alone.                               *)
LEMMA FollowsFrame ==
  ASSUME NEW q \in Procs, Follows(q), tx'[q] = tx[q], mem'[q] = mem[q],
         Legacy = {} => disk' = disk
  PROVE  Follows(q)'
BY DEF Follows

(* A step that gives a process neither a transaction nor a handle it did   *)
(* not have leaves the sentinels in order.                                 *)
LEMMA SentinelFrame ==
  ASSUME SentinelInv, NEW p \in Procs, hostUp' = hostUp,
         \A q \in Procs \ {p} : /\ tx'[q] = tx[q] /\ up'[q] = up[q]
                               /\ handle'[q] = handle[q]
                               /\ sentinel'[q] = sentinel[q],
         tx'[p].op = tx[p].op \/ tx'[p].op.name = "none",
         \/ up'[p] = FALSE
         \/ up'[p] = up[p] /\ handle'[p] = handle[p] /\ sentinel'[p] = sentinel[p]
  PROVE  SentinelInv'
<1>1. ASSUME NEW q \in Procs, up'[q], hostUp'[q], handle'[q]
      PROVE  sentinel'[q] = "held"
  <2>1. CASE q = p
    BY <1>1, <2>1 DEF SentinelInv
  <2>2. CASE q # p
    BY <1>1, <2>2 DEF SentinelInv
  <2> QED
    BY <2>1, <2>2
<1>2. ASSUME NEW q \in Procs, tx'[q].op.name = "deregister", tx'[q].op.key # q
      PROVE  tx'[q].op.key \in Procs /\ ~hostUp'[tx'[q].op.key]
  <2>1. tx'[q].op = tx[q].op
    BY <1>2
  <2> QED
    BY <1>2, <2>1 DEF SentinelInv
<1> QED
  BY <1>1, <1>2 DEF SentinelInv

(* The type of a transaction's record, and of the lock, when one process   *)
(* moves.                                                                  *)
LEMMA TxMove ==
  ASSUME TypeOK, NEW p \in Procs, NEW t \in Tx, tx' = [tx EXCEPT ![p] = t],
         \/ t.pc # "idle" /\ lock' = p /\ lock \in {p, NoProc}
         \/ t.pc = "idle" /\ lock' = NoProc /\ lock = p
  PROVE  /\ tx' \in [Procs -> Tx] /\ tx'[p] = t
         /\ \A q \in Procs \ {p} : tx'[q] = tx[q]
         /\ lock' \in Procs \cup {NoProc}
         /\ \A q \in Procs : tx'[q].pc # "idle" <=> lock' = q
<1>1. /\ tx' \in [Procs -> Tx] /\ tx'[p] = t
      /\ \A q \in Procs \ {p} : tx'[q] = tx[q]
  BY DEF TypeOK
<1>2. lock' \in Procs \cup {NoProc}
  OBVIOUS
<1>3. \A q \in Procs \ {p} : tx[q].pc = "idle" /\ lock' # q
  BY RegistryAssumption DEF TypeOK
<1> QED
  BY <1>1, <1>2, <1>3, RegistryAssumption

(* A transaction's record, field by field.                                 *)
LEMMA TxRecord ==
  ASSUME NEW t \in Tx
  PROVE  /\ t = [pc |-> t.pc, op |-> t.op, base |-> t.base, owned |-> t.owned,
                 edited |-> t.edited, edit |-> t.edit, intact |-> t.intact,
                 next |-> t.next]
         /\ t.op \in Op /\ t.base \in Rows /\ t.owned \in BOOLEAN
         /\ t.edited \in SUBSET Services /\ t.edit \in Rows /\ t.next \in Rows
         /\ t.intact \in BOOLEAN
BY DEF Tx

(* The updates of it that the steps make.                                  *)
LEMMA TxPc ==
  ASSUME NEW t \in Tx, NEW c \in {"base", "publish"}
  PROVE  LET u == [t EXCEPT !.pc = c] IN
         u \in Tx /\ u.pc = c /\ u.op = t.op /\ u.intact = t.intact
BY TxRecord DEF Tx

(* The baseline is recorded.                                               *)
LEMMA TxBase ==
  ASSUME NEW t \in Tx, NEW b \in Rows, NEW w \in BOOLEAN
  PROVE  LET u == [t EXCEPT !.pc = "apply", !.base = b, !.owned = w]
         IN  u \in Tx /\ u.pc = "apply" /\ u.op = t.op /\ u.base = b
             /\ u.intact = t.intact
BY TxRecord, Zenon DEF Tx

(* What is to be written is recorded.                                      *)
LEMMA TxNext ==
  ASSUME NEW t \in Tx, NEW n \in Rows
  PROVE  LET u == [t EXCEPT !.pc = "rename", !.next = n]
         IN  /\ u \in Tx /\ u.pc = "rename" /\ u.op = t.op /\ u.next = n
             /\ u.edited = t.edited /\ u.edit = t.edit /\ u.base = t.base
             /\ u.intact = t.intact
BY TxRecord, Zenon DEF Tx

-----------------------------------------------------------------------------
(* Initially nobody is in a transaction and nobody has a sentinel.         *)
LEMMA InitIInv == Init => IInv
<1> SUFFICES ASSUME Init PROVE IInv
  OBVIOUS
<1>0. NoRows \in Rows /\ NoTx \in Tx /\ NoRd \in Rd /\ NoTx.pc = "idle"
  BY ConstantTypes, Zenon
<1>1. TypeOK
  <2>1. /\ fails \in 0..MaxFails /\ reads \in 0..MaxReads
    BY RegistryAssumption DEF Init
  <2>2. \A p \in Procs : tx[p].pc # "idle" <=> lock = p
    BY <1>0, RegistryAssumption DEF Init
  <2>3. /\ tx \in [Procs -> Tx] /\ rd \in [Procs -> Rd] /\ mem \in [Procs -> Rows]
        /\ disk \in Rows
    BY <1>0 DEF Init
  <2> QED
    BY <2>1, <2>2, <2>3 DEF Init, TypeOK
<1>2. TxInv
  BY ConstantTypes, ZenonT(60) DEF Init, TxInv, Follows
<1>3. SentinelInv
  BY ConstantTypes, Zenon DEF Init, SentinelInv
<1> QED
  BY <1>1, <1>2, <1>3 DEF IInv

-----------------------------------------------------------------------------
(* Taking the lock: the operation is recorded, and one that removes a row  *)
(* of another process does so because the host is dead.                    *)
LEMMA BeginStep ==
  ASSUME IInv, NEW p \in Procs, NEW n \in OpNames, NEW k \in Services \cup {Absent},
         NEW c \in Clients \cup {NoClient}, Begin(p, n, k, c),
         n = "deregister" /\ k # p => k \in Procs /\ ~hostUp[k]
  PROVE  IInv'
<1> DEFINE o == [name |-> n, key |-> k, client |-> c]
           t == [NoTx EXCEPT !.pc = "load", !.op = o]
<1>1. t \in Tx /\ t.pc = "load" /\ t.op = o /\ t.intact
  BY ConstantTypes, ZenonT(60)
<1>2. o.name = n /\ o.key = k
  OBVIOUS
<1>3. /\ lock = NoProc /\ lock' = p /\ tx' = [tx EXCEPT ![p] = t]
      /\ UNCHANGED <<disk, mem, current, sentinel, handle, up, hostUp, stage, missing, rd, snap, fails, reads>>
  BY DEF Begin, svars, pvars, bounds
<1> HIDE DEF t, o
<1>4. /\ tx' \in [Procs -> Tx] /\ tx'[p] = t
      /\ \A q \in Procs \ {p} : tx'[q] = tx[q]
      /\ lock' \in Procs \cup {NoProc}
      /\ \A q \in Procs : tx'[q].pc # "idle" <=> lock' = q
  BY <1>1, <1>3, TxMove, Zenon DEF IInv
<1>5. TypeOK'
  BY <1>3, <1>4 DEF IInv, TypeOK
<1>6. TxInv'
  <2>1. Follows(p)'
    BY <1>1, <1>4 DEF Follows
  <2>2. ASSUME NEW q \in Procs \ Readers, q # p PROVE Follows(q)'
    BY <2>2, <1>3, <1>4, FollowsFrame, SMTT(60) DEF IInv, TxInv
  <2> QED
    BY <2>1, <2>2 DEF TxInv
<1>7. SentinelInv'
  BY <1>1, <1>2, <1>3, <1>4 DEF IInv, SentinelInv
<1> QED
  BY <1>5, <1>6, <1>7 DEF IInv

(* The reload makes the map the file.                                      *)
LEMMA ReloadStep ==
  ASSUME IInv, NEW p \in Procs, TxLoad(p)
  PROVE  IInv'
<1> DEFINE t == [tx[p] EXCEPT !.pc = "base"]
<1>0. tx[p] \in Tx /\ lock = p
  BY DEF TxLoad, IInv, TypeOK
<1>1. t \in Tx /\ t.pc = "base" /\ t.op = tx[p].op /\ t.intact = tx[p].intact
  BY <1>0, TxPc, Zenon
<1>2. /\ tx' = [tx EXCEPT ![p] = t] /\ lock' = lock
      /\ mem' = [mem EXCEPT ![p] = disk]
      /\ UNCHANGED <<disk, current, sentinel, handle, up, hostUp, stage, missing, rd, snap, fails, reads>>
  BY DEF TxLoad, svars, pvars, bounds
<1> HIDE DEF t
<1>3. /\ tx' \in [Procs -> Tx] /\ tx'[p] = t
      /\ \A q \in Procs \ {p} : tx'[q] = tx[q]
      /\ lock' \in Procs \cup {NoProc}
      /\ \A q \in Procs : tx'[q].pc # "idle" <=> lock' = q
  BY <1>0, <1>1, <1>2, TxMove, Zenon DEF IInv
<1>4. /\ mem' \in [Procs -> Rows] /\ mem'[p] = disk
      /\ \A q \in Procs \ {p} : mem'[q] = mem[q]
  BY <1>2 DEF IInv, TypeOK
<1>5. TypeOK'
  BY <1>2, <1>3, <1>4 DEF IInv, TypeOK
<1>6. TxInv'
  <2>1. p \notin Readers => Follows(p)'
    BY <1>1, <1>2, <1>3, <1>4 DEF Follows, IInv, TxInv
  <2>2. ASSUME NEW q \in Procs \ Readers, q # p PROVE Follows(q)'
    BY <2>2, <1>2, <1>3, <1>4, FollowsFrame DEF IInv, TxInv
  <2> QED
    BY <2>1, <2>2 DEF TxInv
<1>7. SentinelInv'
  BY <1>1, <1>2, <1>3 DEF IInv, SentinelInv
<1> QED
  BY <1>5, <1>6, <1>7 DEF IInv

(* update_mtime touches what one reader remembers.                         *)
LEMMA MtimeType ==
  ASSUME TypeOK, NEW p \in Procs, UpdateMtime(p)
  PROVE  current' \in [Readers -> BOOLEAN]
BY Zenon DEF TypeOK, UpdateMtime

(* The baseline is the map just loaded.                                    *)
LEMMA BaselineStep ==
  ASSUME IInv, NEW p \in Procs, TxBaseline(p)
  PROVE  IInv'
<1> DEFINE t == [tx[p] EXCEPT !.pc = "apply", !.base = mem[p], !.owned = handle[p]]
<1>0. tx[p] \in Tx /\ lock = p /\ mem[p] \in Rows /\ handle[p] \in BOOLEAN
  BY DEF TxBaseline, IInv, TypeOK
<1>1. /\ t \in Tx /\ t.pc = "apply" /\ t.op = tx[p].op /\ t.base = mem[p]
      /\ t.intact = tx[p].intact
  <2> DEFINE x == tx[p]
             b == mem[p]
             w == handle[p]
  <2>1. x \in Tx /\ b \in Rows /\ w \in BOOLEAN
    BY <1>0
  <2> HIDE DEF x, b, w
  <2>2. LET u == [x EXCEPT !.pc = "apply", !.base = b, !.owned = w]
        IN  u \in Tx /\ u.pc = "apply" /\ u.op = x.op /\ u.base = b /\ u.intact = x.intact
    BY <2>1, TxRecord, Zenon DEF Tx
  <2> QED
    BY <2>2 DEF x, b, w
<1>2. /\ tx' = [tx EXCEPT ![p] = t] /\ lock' = lock /\ UpdateMtime(p)
      /\ UNCHANGED <<disk, mem, sentinel, handle, up, hostUp, stage, missing, rd, snap, fails, reads>>
  BY Zenon DEF TxBaseline, svars, pvars, bounds
<1> HIDE DEF t
<1>3. /\ tx' \in [Procs -> Tx] /\ tx'[p] = t
      /\ \A q \in Procs \ {p} : tx'[q] = tx[q]
      /\ lock' \in Procs \cup {NoProc}
      /\ \A q \in Procs : tx'[q].pc # "idle" <=> lock' = q
  BY <1>0, <1>1, <1>2, TxMove, Zenon DEF IInv
<1>4. current' \in [Readers -> BOOLEAN]
  BY <1>2, MtimeType DEF IInv
<1>5. TypeOK'
  BY <1>2, <1>3, <1>4 DEF IInv, TypeOK
<1>6. TxInv'
  <2>1. p \notin Readers => Follows(p)'
    BY <1>1, <1>2, <1>3 DEF Follows, IInv, TxInv, TxBaseline
  <2>2. ASSUME NEW q \in Procs \ Readers, q # p PROVE Follows(q)'
    BY <2>2, <1>2, <1>3, FollowsFrame DEF IInv, TxInv
  <2> QED
    BY <2>1, <2>2 DEF TxInv
<1>7. SentinelInv'
  BY <1>1, <1>2, <1>3 DEF IInv, SentinelInv
<1> QED
  BY <1>5, <1>6, <1>7 DEF IInv

(* The merge keeps the edit, and a row we did not change is the file's or  *)
(* the baseline's.                                                         *)
LEMMA Merge ==
  ASSUME NEW b \in Rows, NEW f \in Rows, NEW l \in Rows, NEW K \in SUBSET Services,
         \A k \in Services \ K : l[k] = b[k]
  PROVE  /\ \A k \in K : Reconcile(b, f, l, K)[k] = l[k]
         /\ \A k \in Services \ K :
              /\ b[k] # Absent => Reconcile(b, f, l, K)[k] # Absent
              /\ b = f => Reconcile(b, f, l, K)[k] = f[k]
BY DEF Reconcile

(* So does the flush, which merges the map with the file.                  *)
LEMMA FlushStep ==
  ASSUME IInv, NEW p \in Procs, TxFlush(p)
  PROVE  IInv'
<1> DEFINE m == Reconcile(tx[p].base, disk, mem[p], Changed(p))
           t == [tx[p] EXCEPT !.pc = "rename", !.next = m]
<1>0. /\ tx[p] \in Tx /\ lock = p /\ mem[p] \in Rows /\ disk \in Rows /\ tx[p].base \in Rows
      /\ tx[p].edited \in SUBSET Services /\ tx[p].edit \in Rows
  BY DEF TxFlush, IInv, TypeOK, Tx
<1>a. m \in Rows
  BY <1>0, ReconcileRows
<1>b. ASSUME p \notin Readers
      PROVE  /\ tx[p].intact
             /\ \A k \in tx[p].edited : m[k] = tx[p].edit[k]
             /\ \A k \in Services \ tx[p].edited :
                  /\ tx[p].base[k] # Absent => m[k] # Absent
                  /\ Legacy = {} => m[k] = disk[k]
  <2>1. /\ tx[p].intact /\ Legacy = {} => tx[p].base = disk
        /\ \A k \in Services :
             mem[p][k] = IF k \in tx[p].edited THEN tx[p].edit[k] ELSE tx[p].base[k]
    BY <1>b DEF IInv, TxInv, Follows, TxFlush
  <2>2. tx[p].intact
    BY <1>b DEF IInv, TxInv, Follows
  <2>3. Changed(p) = tx[p].edited
    BY <1>0, <2>1, <2>2 DEF Changed
  <2>4. \A k \in Services \ tx[p].edited : mem[p][k] = tx[p].base[k]
    BY <2>1
  <2>5. /\ \A k \in tx[p].edited : m[k] = mem[p][k]
        /\ \A k \in Services \ tx[p].edited :
             /\ tx[p].base[k] # Absent => m[k] # Absent
             /\ tx[p].base = disk => m[k] = disk[k]
    BY <1>0, <2>3, <2>4, Merge, SMTT(60)
  <2> HIDE DEF m
  <2> QED
    BY <1>0, <2>1, <2>2, <2>5
<1>2. /\ tx' = [tx EXCEPT ![p] = t] /\ lock' = lock
      /\ UNCHANGED <<disk, mem, current, sentinel, handle, up, hostUp, stage, missing, rd, snap, fails, reads>>
  BY Zenon DEF TxFlush, svars, pvars, bounds
<1> HIDE DEF m
<1>1. /\ t \in Tx /\ t.pc = "rename" /\ t.op = tx[p].op /\ t.next = m
      /\ t.edited = tx[p].edited /\ t.edit = tx[p].edit /\ t.base = tx[p].base
      /\ t.intact = tx[p].intact
  BY <1>0, <1>a, TxNext, Zenon
<1> HIDE DEF t
<1>3. /\ tx' \in [Procs -> Tx] /\ tx'[p] = t
      /\ \A q \in Procs \ {p} : tx'[q] = tx[q]
      /\ lock' \in Procs \cup {NoProc}
      /\ \A q \in Procs : tx'[q].pc # "idle" <=> lock' = q
  BY <1>0, <1>1, <1>2, TxMove, Zenon DEF IInv
<1>5. TypeOK'
  BY <1>2, <1>3 DEF IInv, TypeOK
<1>6. TxInv'
  <2>1. p \notin Readers => Follows(p)'
    BY <1>b, <1>1, <1>2, <1>3 DEF Follows
  <2>2. ASSUME NEW q \in Procs \ Readers, q # p PROVE Follows(q)'
    BY <2>2, <1>2, <1>3, FollowsFrame DEF IInv, TxInv
  <2> QED
    BY <2>1, <2>2 DEF TxInv
<1>7. SentinelInv'
  BY <1>1, <1>2, <1>3 DEF IInv, SentinelInv
<1> QED
  BY <1>5, <1>6, <1>7 DEF IInv

(* The rename changes the file; nobody else is in a transaction.           *)
LEMMA RenameStep ==
  ASSUME IInv, NEW p \in Procs, TxRename(p)
  PROVE  IInv'
<1> DEFINE t == [tx[p] EXCEPT !.pc = "publish"]
<1>0. tx[p] \in Tx /\ lock = p /\ tx[p].next \in Rows
  BY DEF TxRename, IInv, TypeOK, Tx
<1>1. t \in Tx /\ t.pc = "publish" /\ t.op = tx[p].op /\ t.intact = tx[p].intact
  BY <1>0, TxPc, Zenon
<1>2. /\ tx' = [tx EXCEPT ![p] = t] /\ lock' = lock /\ disk' = tx[p].next
      /\ current' = [q \in Readers |-> FALSE]
      /\ UNCHANGED <<mem, sentinel, handle, up, hostUp, stage, missing, rd, snap, fails, reads>>
  BY DEF TxRename, svars, pvars, bounds
<1> HIDE DEF t
<1>3. /\ tx' \in [Procs -> Tx] /\ tx'[p] = t
      /\ \A q \in Procs \ {p} : tx'[q] = tx[q]
      /\ lock' \in Procs \cup {NoProc}
      /\ \A q \in Procs : tx'[q].pc # "idle" <=> lock' = q
  BY <1>0, <1>1, <1>2, TxMove, Zenon DEF IInv
<1>4. current' \in [Readers -> BOOLEAN] /\ disk' \in Rows
  BY <1>0, <1>2
<1>5. TypeOK'
  BY <1>2, <1>3, <1>4 DEF IInv, TypeOK
<1>6. TxInv'
  <2>1. \A q \in Procs : tx'[q].pc \in {"idle", "publish"}
    BY <1>0, <1>1, <1>3, SMTT(60) DEF IInv, TypeOK
  <2>2. \A q \in Procs \ Readers : tx'[q].intact
    BY <1>1, <1>3 DEF IInv, TxInv, Follows
  <2> QED
    BY <2>1, <2>2 DEF TxInv, Follows
<1>7. SentinelInv'
  BY <1>1, <1>2, <1>3, SentinelFrame DEF IInv
<1> QED
  BY <1>5, <1>6, <1>7 DEF IInv

(* A transaction that ends: its record is empty and the lock is free.      *)
LEMMA UnlockMove ==
  ASSUME TypeOK, NEW p \in Procs, tx[p].pc # "idle", Unlock(p)
  PROVE  /\ tx' \in [Procs -> Tx] /\ tx'[p] = NoTx
         /\ \A q \in Procs \ {p} : tx'[q] = tx[q]
         /\ lock' \in Procs \cup {NoProc}
         /\ \A q \in Procs : tx'[q].pc # "idle" <=> lock' = q
<1>1. NoTx \in Tx /\ NoTx.pc = "idle"
  BY ConstantTypes, Zenon
<1>2. lock = p /\ lock' = NoProc /\ tx' = [tx EXCEPT ![p] = NoTx]
  BY DEF TypeOK, Unlock
<1> QED
  BY <1>1, <1>2, TxMove, Zenon

(* The edit: whatever an operation does to the sentinels, the rest of the  *)
(* invariant is kept.                                                      *)
LEMMA ApplyStep ==
  ASSUME IInv, NEW p \in Procs, tx[p].pc = "apply", NEW K \in SUBSET Services,
         NEW e \in Rows, Apply(p, K, e),
         sentinel' \in [Procs -> {"absent", "free", "held"}],
         handle' \in [Procs -> BOOLEAN],
         \A q \in Procs : up[q] /\ hostUp[q] /\ handle'[q] => sentinel'[q] = "held"
  PROVE  IInv'
<1>0. /\ tx[p] \in Tx /\ lock = p /\ mem[p] \in Rows /\ TypeOK
      /\ NoRows \in Rows /\ NoTx.pc = "idle" /\ NoTx.op.name = "none" /\ NoTx.intact
  BY ConstantTypes, ZenonT(60) DEF IInv, TypeOK
<1>1. UNCHANGED <<disk, current, rd, snap, fails, reads>>
  BY DEF Apply, bounds
<1>2. CASE K # {}
  <2> DEFINE d == Patch(NoRows, K, e)
             t == [tx[p] EXCEPT !.pc = "flush", !.edited = K, !.edit = d]
             m == Patch(mem[p], K, e)
  <2>1. d \in Rows /\ m \in Rows
    BY <1>0, PatchRows, Zenon
  <2>2. /\ tx' = [tx EXCEPT ![p] = t] /\ lock' = lock
        /\ mem' = [mem EXCEPT ![p] = m]
        /\ UNCHANGED <<up, hostUp, stage, missing>>
    <3>1. /\ tx' = [tx EXCEPT ![p].pc = "flush", ![p].edited = K, ![p].edit = d]
          /\ UNCHANGED <<lock, pvars>>
      BY <1>2 DEF Apply
    <3>2. mem' = [mem EXCEPT ![p] = IF K = {} THEN Kept(p, @) ELSE Patch(@, K, e)]
      BY DEF Apply
    <3> HIDE DEF d
    <3>3. tx' = [tx EXCEPT ![p] = t]
      BY <3>1, <1>0, Zenon DEF TypeOK
    <3>4. mem' = [mem EXCEPT ![p] = m]
      BY <3>2, <1>2, Zenon
    <3> QED
      BY <3>1, <3>3, <3>4, Zenon DEF pvars
  <2>3. \A k \in Services : /\ d[k] = IF k \in K THEN e[k] ELSE Absent
                            /\ m[k] = IF k \in K THEN e[k] ELSE mem[p][k]
    BY DEF Patch, NoRows
  <2> HIDE DEF d, m
  <2>4. /\ t \in Tx /\ t.pc = "flush" /\ t.op = tx[p].op /\ t.base = tx[p].base
        /\ t.edited = K /\ t.edit = d /\ t.intact = tx[p].intact
    <3> DEFINE x == tx[p]
    <3>1. x \in Tx /\ t = [x EXCEPT !.pc = "flush", !.edited = K, !.edit = d]
      BY <1>0
    <3> HIDE DEF x, t
    <3>2. LET u == [x EXCEPT !.pc = "flush", !.edited = K, !.edit = d]
          IN  /\ u \in Tx /\ u.pc = "flush" /\ u.op = x.op /\ u.base = x.base
              /\ u.edited = K /\ u.edit = d /\ u.intact = x.intact
      BY <3>1, <2>1, TxRecord, Zenon DEF Tx
    <3> QED
      BY <3>1, <3>2 DEF x
  <2> HIDE DEF t
  <2>5. /\ tx' \in [Procs -> Tx] /\ tx'[p] = t
        /\ \A q \in Procs \ {p} : tx'[q] = tx[q]
        /\ lock' \in Procs \cup {NoProc}
        /\ \A q \in Procs : tx'[q].pc # "idle" <=> lock' = q
    BY <1>0, <2>2, <2>4, TxMove, Zenon
  <2>6. /\ mem' \in [Procs -> Rows] /\ mem'[p] = m
        /\ \A q \in Procs \ {p} : mem'[q] = mem[q]
    BY <2>1, <2>2, SMTT(60) DEF IInv, TypeOK
  <2>7. TypeOK'
    BY <1>0, <1>1, <2>2, <2>5, <2>6, SMTT(60) DEF TypeOK
  <2>8. p \notin Readers => Follows(p)'
    <3> SUFFICES ASSUME p \notin Readers PROVE Follows(p)'
      OBVIOUS
    <3>1. tx[p].intact /\ mem[p] = tx[p].base /\ (Legacy = {} => tx[p].base = disk)
      BY DEF IInv, TxInv, Follows
    <3>2. \A k \in Services : m[k] = IF k \in K THEN d[k] ELSE tx[p].base[k]
      BY <3>1, <2>3
    <3> QED
      BY <3>1, <3>2, <1>1, <2>4, <2>5, <2>6, ZenonT(60) DEF Follows
  <2>9. ASSUME NEW q \in Procs \ Readers, q # p PROVE Follows(q)'
    BY <2>9, <1>1, <2>5, <2>6, FollowsFrame DEF IInv, TxInv
  <2>10. TxInv'
    BY <2>8, <2>9 DEF TxInv
  <2>11. SentinelInv'
    BY <2>2, <2>4, <2>5, SMTT(30) DEF IInv, SentinelInv
  <2> QED
    BY <2>7, <2>10, <2>11 DEF IInv
<1>3. CASE K = {}
  <2>1. Unlock(p) /\ Return(p, FALSE, TRUE) /\ mem' = [mem EXCEPT ![p] = Kept(p, mem[p])]
    BY <1>3, Zenon DEF Apply
  <2>2. /\ stage' \in [Procs -> {"starting", "active", "stopping", "stopped"}]
        /\ missing' \in [Procs -> BOOLEAN]
        /\ up' = up /\ hostUp' = hostUp
    BY <1>0, <2>1, ReturnTypes, Zenon
  <2>3. /\ tx' \in [Procs -> Tx] /\ tx'[p] = NoTx
        /\ \A q \in Procs \ {p} : tx'[q] = tx[q]
        /\ lock' \in Procs \cup {NoProc}
        /\ \A q \in Procs : tx'[q].pc # "idle" <=> lock' = q
    BY <1>0, <2>1, UnlockMove
  <2>4. /\ mem' \in [Procs -> Rows]
        /\ \A q \in Procs \ {p} : mem'[q] = mem[q]
    BY <1>0, <2>1 DEF TypeOK, Kept
  <2>5. TypeOK'
    BY <1>0, <1>1, <2>2, <2>3, <2>4, SMTT(60) DEF TypeOK
  <2>6. Follows(p)'
    BY <1>0, <2>3 DEF Follows
  <2>7. ASSUME NEW q \in Procs \ Readers, q # p PROVE Follows(q)'
    BY <2>7, <1>1, <2>3, <2>4, FollowsFrame DEF IInv, TxInv
  <2>8. TxInv'
    BY <2>6, <2>7, SMTT(60) DEF TxInv
  <2>9. SentinelInv'
    BY <1>0, <2>2, <2>3, SMTT(30) DEF IInv, SentinelInv
  <2> QED
    BY <2>5, <2>8, <2>9 DEF IInv
<1> QED
  BY <1>2, <1>3

-----------------------------------------------------------------------------
(* The operations.  A fresh or reused sentinel is locked.                  *)
LEMMA RegisterStep ==
  ASSUME IInv, NEW p \in Procs, Register(p)
  PROVE  IInv'
<1> DEFINE e == [k \in Services |-> NoClient]
<1>1. tx[p].pc = "apply" /\ Apply(p, {p}, e)
  BY DEF Register, Doing
<1>2. {p} \in SUBSET Services /\ e \in Rows
  BY DEF Services, Rows, Entry
<1>3. /\ sentinel' \in [Procs -> {"absent", "free", "held"}]
      /\ handle' \in [Procs -> BOOLEAN]
      /\ \A q \in Procs : up[q] /\ hostUp[q] /\ handle'[q] => sentinel'[q] = "held"
  <2>1. CASE handle[p] /\ sentinel[p] # "absent"
    BY <2>1, SMTT(30) DEF Register, svars, IInv, TypeOK, SentinelInv
  <2>2. CASE ~(handle[p] /\ sentinel[p] # "absent")
    <3>1. /\ sentinel' = [sentinel EXCEPT ![p] = "held"]
          /\ handle' = [handle EXCEPT ![p] = TRUE]
      BY <2>2 DEF Register
    <3>2. /\ sentinel' \in [Procs -> {"absent", "free", "held"}] /\ sentinel'[p] = "held"
          /\ \A q \in Procs \ {p} : sentinel'[q] = sentinel[q]
      BY <3>1 DEF IInv, TypeOK
    <3>3. /\ handle' \in [Procs -> BOOLEAN]
          /\ \A q \in Procs \ {p} : handle'[q] = handle[q]
      BY <3>1 DEF IInv, TypeOK
    <3> QED
      BY <3>2, <3>3 DEF IInv, SentinelInv
  <2> QED
    BY <2>1, <2>2, SMTT(60)
<1> HIDE DEF e
<1> QED
  BY <1>1, <1>2, <1>3, ApplyStep

(* Rewriting, cleaning and leasing leave the sentinels alone.              *)
LEMMA QuietStep ==
  ASSUME IInv, NEW p \in Procs, tx[p].pc = "apply", NEW K \in SUBSET Services,
         NEW e \in Rows, Apply(p, K, e), UNCHANGED svars
  PROVE  IInv'
<1>1. /\ sentinel' \in [Procs -> {"absent", "free", "held"}]
      /\ handle' \in [Procs -> BOOLEAN]
      /\ \A q \in Procs : up[q] /\ hostUp[q] /\ handle'[q] => sentinel'[q] = "held"
  BY DEF svars, IInv, TypeOK, SentinelInv
<1> QED
  BY <1>1, ApplyStep, SMTT(60)

(* A heartbeat rewrites a row that is there.                               *)
LEMMA HeartbeatStep ==
  ASSUME IInv, NEW p \in Procs, Heartbeat(p)
  PROVE  IInv'
<1> DEFINE K == {tx[p].op.key} \cap Present(mem[p])
<1>1. tx[p].pc = "apply" /\ Apply(p, K, mem[p]) /\ UNCHANGED svars
  BY DEF Heartbeat, Doing
<1>2. K \in SUBSET Services /\ mem[p] \in Rows
  BY DEF Present, IInv, TypeOK
<1> HIDE DEF K
<1> QED
  BY <1>1, <1>2, QuietStep

(* A cleanup removes rows.                                                 *)
LEMMA CleanupStep ==
  ASSUME IInv, NEW p \in Procs, CleanupStale(p)
  PROVE  IInv'
<1>1. PICK K \in SUBSET Present(mem[p]) : Apply(p, K, NoRows)
  BY DEF CleanupStale
<1>2. tx[p].pc = "apply" /\ UNCHANGED svars
  BY DEF CleanupStale, Doing
<1>3. K \in SUBSET Services /\ NoRows \in Rows
  BY ConstantTypes, Zenon DEF Present
<1> QED
  BY <1>1, <1>2, <1>3, QuietStep

(* Leasing clears what has expired and grants one row.                     *)
LEMMA AcquireStep ==
  ASSUME IInv, NEW p \in Procs, AcquireLease(p)
  PROVE  IInv'
<1> DEFINE k == tx[p].op.key
           L == {j \in Services : mem[p][j] \in Clients}
           G(x) == {k} \cap (Present(mem[p]) \ (L \ x))
           E(x) == [j \in Services |-> IF j \in G(x) THEN tx[p].op.client ELSE NoClient]
<1>1. PICK x \in SUBSET L : Apply(p, x \cup G(x), E(x))
  BY Zenon DEF AcquireLease
<1>2. tx[p].pc = "apply" /\ UNCHANGED svars
  BY DEF AcquireLease, Doing
<1>3. x \cup G(x) \in SUBSET Services
  BY DEF Present
<1>4. tx[p].op.client \in Clients \cup {NoClient}
  BY DEF IInv, TypeOK, Tx, Op
<1>5. E(x) \in Rows
  BY <1>4 DEF Rows, Entry
<1> HIDE DEF G, E, L, k
<1> QED
  BY <1>1, <1>2, <1>3, <1>5, QuietStep

(* A release frees a row its client holds.                                 *)
LEMMA ReleaseStep ==
  ASSUME IInv, NEW p \in Procs, ReleaseLease(p)
  PROVE  IInv'
<1> DEFINE K == {j \in {tx[p].op.key} \cap Present(mem[p]) : mem[p][j] = tx[p].op.client}
           e == [j \in Services |-> NoClient]
<1>1. tx[p].pc = "apply" /\ Apply(p, K, e) /\ UNCHANGED svars
  BY SMTT(60) DEF ReleaseLease, Doing
<1>2. K \in SUBSET Services /\ e \in Rows
  BY SMTT(60) DEF Rows, Entry, Present
<1> HIDE DEF K, e
<1> QED
  BY <1>1, <1>2, QuietStep, SMTT(60)

(* A row removed on behalf of another process had a dead host.             *)
LEMMA DeregisterStep ==
  ASSUME IInv, NEW p \in Procs, Deregister(p)
  PROVE  IInv'
<1> DEFINE k == tx[p].op.key
           K == {k} \cap Present(mem[p])
<1>1. tx[p].pc = "apply" /\ Apply(p, K, NoRows) /\ tx[p].op.name = "deregister"
  BY DEF Deregister, Doing
<1>2. K \in SUBSET Services /\ NoRows \in Rows
  BY ConstantTypes, ZenonT(60) DEF Present
<1>3. /\ handle' = [handle EXCEPT ![p] = @ /\ k # p]
      /\ sentinel' = [sentinel EXCEPT ![k] =
                        IF K # {} THEN "absent"
                        ELSE IF k = p /\ @ = "held" /\ handle[p] THEN "free" ELSE @]
  BY SMTT(60) DEF Deregister
<1>4. k # p => k \in Procs /\ ~hostUp[k]
  BY <1>1 DEF IInv, SentinelInv
<1> HIDE DEF k, K
<1>5. /\ handle' \in [Procs -> BOOLEAN]
      /\ handle'[p] => k # p /\ handle[p]
      /\ \A q \in Procs \ {p} : handle'[q] = handle[q]
  <2>1. handle \in [Procs -> BOOLEAN]
    BY DEF IInv, TypeOK
  <2> QED
    BY <2>1, <1>3, Zenon
<1>6. /\ sentinel' \in [Procs -> {"absent", "free", "held"}]
      /\ \A q \in Procs \ {k} : sentinel'[q] = sentinel[q]
  BY <1>3, Zenon DEF IInv, TypeOK
<1>7. \A q \in Procs : up[q] /\ hostUp[q] /\ handle'[q] => sentinel'[q] = "held"
  BY <1>4, <1>5, <1>6 DEF IInv, SentinelInv
<1> QED
  BY <1>1, <1>2, <1>5, <1>6, <1>7, ApplyStep, SMTT(60)

(* Pruning unlinks only what it finds unlocked or bound to a dead host.    *)
LEMMA PruneStep ==
  ASSUME IInv, NEW p \in Procs, PruneDeadEntries(p)
  PROVE  IInv'
<1> DEFINE K == DeadKeys(p)
<1>1. tx[p].pc = "apply" /\ Apply(p, K, NoRows)
  BY DEF PruneDeadEntries, Doing
<1>2. K \in SUBSET Services /\ NoRows \in Rows
  BY ConstantTypes, Zenon DEF DeadKeys, Present
<1>3. \A q \in K : ~(up[q] /\ hostUp[q] /\ handle[q])
  BY DEF DeadKeys, SentinelIsDead, IInv, SentinelInv
<1>4. /\ sentinel' = [q \in Procs |-> IF q \in K THEN "absent" ELSE sentinel[q]]
      /\ handle' = [handle EXCEPT ![p] = @ /\ p \notin K]
  BY DEF PruneDeadEntries
<1> HIDE DEF K
<1>5. /\ handle' \in [Procs -> BOOLEAN]
      /\ \A q \in Procs : handle'[q] => handle[q]
  <2>1. handle \in [Procs -> BOOLEAN]
    BY DEF IInv, TypeOK
  <2> QED
    BY <2>1, <1>4
<1>6. /\ sentinel' \in [Procs -> {"absent", "free", "held"}]
      /\ \A q \in Procs \ K : sentinel'[q] = sentinel[q]
  BY <1>4, SMTT(60) DEF IInv, TypeOK
<1>7. \A q \in Procs : up[q] /\ hostUp[q] /\ handle'[q] => sentinel'[q] = "held"
  BY <1>3, <1>5, <1>6 DEF IInv, SentinelInv
<1> QED
  BY <1>1, <1>2, <1>5, <1>6, <1>7, ApplyStep

-----------------------------------------------------------------------------
(* The end of a transaction, and its failure.                              *)
LEMMA PublishStep ==
  ASSUME IInv, NEW p \in Procs, TxPublish(p)
  PROVE  IInv'
<1>0. /\ TypeOK /\ tx[p].pc # "idle" /\ tx[p].next \in Rows /\ NoRows \in Rows
      /\ NoTx.pc = "idle" /\ NoTx.op.name = "none" /\ NoTx.intact /\ TRUE \in BOOLEAN
  BY ConstantTypes, Zenon DEF TxPublish, IInv, TypeOK, Tx
<1>1. /\ Unlock(p) /\ Return(p, TRUE, TRUE) /\ UpdateMtime(p)
      /\ mem' = [mem EXCEPT ![p] = Kept(p, tx[p].next)]
      /\ UNCHANGED <<disk, sentinel, handle, rd, snap, fails, reads>>
  BY Zenon DEF TxPublish, svars, bounds
<1>t. /\ tx' \in [Procs -> Tx] /\ tx'[p] = NoTx
      /\ \A q \in Procs \ {p} : tx'[q] = tx[q]
      /\ lock' \in Procs \cup {NoProc}
      /\ \A q \in Procs : tx'[q].pc # "idle" <=> lock' = q
  BY <1>0, <1>1, UnlockMove
<1>r. /\ stage' \in [Procs -> {"starting", "active", "stopping", "stopped"}]
      /\ missing' \in [Procs -> BOOLEAN]
      /\ up' = up /\ hostUp' = hostUp
  BY <1>0, <1>1, ReturnTypes, ZenonT(60)
<1>m. /\ mem' \in [Procs -> Rows]
      /\ \A q \in Procs \ {p} : mem'[q] = mem[q]
  BY <1>0, <1>1, SMTT(60) DEF TypeOK, Kept
<1>c. current' \in [Readers -> BOOLEAN]
  BY <1>0, <1>1, MtimeType, SMTT(60)
<1>5. TypeOK'
  <2>1. /\ disk' \in Rows /\ rd' \in [Procs -> Rd] /\ snap' \in [Legacy -> Rows]
        /\ reads' \in 0..MaxReads /\ fails' \in 0..MaxFails
        /\ up' \in [Procs -> BOOLEAN] /\ hostUp' \in [Procs -> BOOLEAN]
        /\ sentinel' \in [Procs -> {"absent", "free", "held"}] /\ handle' \in [Procs -> BOOLEAN]
    BY <1>0, <1>1, <1>r, ZenonT(60) DEF TypeOK
  <2> QED
    BY <2>1, <1>t, <1>r, <1>m, <1>c, ZenonT(60) DEF TypeOK
<1>6. TxInv'
  <2>1. Follows(p)'
    BY <1>0, <1>t, SMTT(60) DEF Follows
  <2>2. ASSUME NEW q \in Procs \ Readers, q # p PROVE Follows(q)'
    BY <2>2, <1>1, <1>t, <1>m, FollowsFrame, SMTT(60) DEF IInv, TxInv
  <2> QED
    BY <2>1, <2>2, SMTT(60) DEF TxInv
<1>7. SentinelInv'
  BY <1>0, <1>1, <1>t, <1>r, SentinelFrame DEF IInv
<1> QED
  BY <1>5, <1>6, <1>7 DEF IInv

(* The rollback: the process ends with a handle only if it had one before, *)
(* or has created the file anew.                                           *)
LEMMA RollbackSentinels ==
  ASSUME IInv, NEW p \in Procs, NEW w \in BOOLEAN, w => handle[p], Rollback(p, w)
  PROVE  /\ sentinel' \in [Procs -> {"absent", "free", "held"}]
         /\ handle' \in [Procs -> BOOLEAN]
         /\ \A q \in Procs : up[q] /\ hostUp[q] /\ handle'[q] => sentinel'[q] = "held"
<1>0. /\ handle \in [Procs -> BOOLEAN] /\ sentinel \in [Procs -> {"absent", "free", "held"}]
      /\ \A q \in Procs : up[q] /\ hostUp[q] /\ handle[q] => sentinel[q] = "held"
  BY DEF IInv, TypeOK, SentinelInv
<1>1. PICK h \in BOOLEAN, f \in {"absent", "free", "held"} :
        /\ handle' = [handle EXCEPT ![p] = h] /\ sentinel' = [sentinel EXCEPT ![p] = f]
        /\ h => f = "held" \/ (handle[p] /\ f = sentinel[p])
  <2>1. sentinel = [sentinel EXCEPT ![p] = sentinel[p]]
    BY <1>0
  <2>2. sentinel[p] \in {"absent", "free", "held"}
    BY <1>0
  <2> QED
    BY <2>1, <2>2, ZenonT(60) DEF Rollback
<1>2. /\ handle' \in [Procs -> BOOLEAN] /\ handle'[p] = h
      /\ \A q \in Procs \ {p} : handle'[q] = handle[q]
  BY <1>0, <1>1, Zenon
<1>3. /\ sentinel' \in [Procs -> {"absent", "free", "held"}] /\ sentinel'[p] = f
      /\ \A q \in Procs \ {p} : sentinel'[q] = sentinel[q]
  BY <1>0, <1>1, Zenon
<1> QED
  BY <1>0, <1>1, <1>2, <1>3, SMTT(60)

(* A transaction that fails, in its flush or in its closure.               *)
LEMMA FailStep ==
  ASSUME IInv, NEW p \in Procs, TxFail(p) \/ RegisterFails(p)
  PROVE  IInv'
<1>0. /\ TypeOK /\ tx[p].pc # "idle" /\ disk \in Rows /\ NoRows \in Rows
      /\ NoTx.pc = "idle" /\ NoTx.op.name = "none" /\ NoTx.intact /\ FALSE \in BOOLEAN
  BY ConstantTypes, Zenon DEF TxFail, RegisterFails, Doing, IInv, TypeOK
<1>1. PICK w \in BOOLEAN : (w => handle[p]) /\ Rollback(p, w)
  <2>1. handle[p] \in BOOLEAN
    BY <1>0 DEF TypeOK
  <2> QED
    BY <2>1, Zenon DEF TxFail, RegisterFails
<1>2. /\ Unlock(p) /\ Return(p, FALSE, FALSE)
      /\ fails < MaxFails /\ fails' = fails + 1
  BY Zenon DEF TxFail, RegisterFails
<1>3. /\ UpdateMtime(p) /\ mem' = [mem EXCEPT ![p] = Kept(p, disk)]
      /\ UNCHANGED <<disk, rd, snap, reads>>
  BY <1>1, ZenonT(60) DEF Rollback
<1>4. fails' \in 0..MaxFails
  BY <1>0, <1>2, RegistryAssumption DEF TypeOK
<1>8. /\ sentinel' \in [Procs -> {"absent", "free", "held"}]
      /\ handle' \in [Procs -> BOOLEAN]
      /\ \A q \in Procs : up[q] /\ hostUp[q] /\ handle'[q] => sentinel'[q] = "held"
  BY <1>1, RollbackSentinels
<1>t. /\ tx' \in [Procs -> Tx] /\ tx'[p] = NoTx
      /\ \A q \in Procs \ {p} : tx'[q] = tx[q]
      /\ lock' \in Procs \cup {NoProc}
      /\ \A q \in Procs : tx'[q].pc # "idle" <=> lock' = q
  BY <1>0, <1>2, UnlockMove
<1>r. /\ stage' \in [Procs -> {"starting", "active", "stopping", "stopped"}]
      /\ missing' \in [Procs -> BOOLEAN]
      /\ up' = up /\ hostUp' = hostUp
  BY <1>0, <1>2, ReturnTypes, ZenonT(60)
<1>m. /\ mem' \in [Procs -> Rows]
      /\ \A q \in Procs \ {p} : mem'[q] = mem[q]
  BY <1>0, <1>3, SMTT(60) DEF TypeOK, Kept
<1>c. current' \in [Readers -> BOOLEAN]
  BY <1>0, <1>3, MtimeType, SMTT(60)
<1>5. TypeOK'
  <2>1. /\ disk' \in Rows /\ rd' \in [Procs -> Rd] /\ reads' \in 0..MaxReads
        /\ up' \in [Procs -> BOOLEAN] /\ hostUp' \in [Procs -> BOOLEAN]
        /\ snap' \in [Legacy -> Rows]
    BY <1>0, <1>3, <1>r, ZenonT(60) DEF TypeOK
  <2> QED
    BY <2>1, <1>4, <1>8, <1>t, <1>r, <1>m, <1>c, ZenonT(60) DEF TypeOK
<1>6. TxInv'
  <2>1. Follows(p)'
    BY <1>0, <1>t, ZenonT(60) DEF Follows
  <2>2. ASSUME NEW q \in Procs \ Readers, q # p PROVE Follows(q)'
    BY <2>2, <1>3, <1>t, <1>m, FollowsFrame, SMTT(60) DEF IInv, TxInv
  <2> QED
    BY <2>1, <2>2 DEF TxInv
<1>7. SentinelInv'
  <2>1. \A q \in Procs : up'[q] /\ hostUp'[q] /\ handle'[q] => sentinel'[q] = "held"
    BY <1>8, <1>r, SMTT(60)
  <2>2. \A q \in Procs : tx'[q].op.name = "deregister" /\ tx'[q].op.key # q =>
          tx'[q].op.key \in Procs /\ ~hostUp'[tx'[q].op.key]
    BY <1>0, <1>t, <1>r DEF IInv, SentinelInv
  <2> QED
    BY <2>1, <2>2, ZenonT(60) DEF SentinelInv
<1> QED
  BY <1>5, <1>6, <1>7 DEF IInv

-----------------------------------------------------------------------------
(* Reader threads touch only the map of their own handle.                  *)
LEMMA ReadStep ==
  ASSUME IInv, NEW p \in Readers, Read(p)
  PROVE  IInv'
<1>0. p \in Procs /\ NoRd \in Rd /\ rd[p] \in Rd /\ rd[p].rows \in Rows /\ disk \in Rows
  BY ConstantTypes, RegistryAssumption, Zenon DEF IInv, TypeOK, Rd
<1>1. UNCHANGED <<disk, lock, sentinel, handle, up, hostUp, stage, missing, snap, fails>>
  BY DEF Read, ReloadIfStale, ReaderRead, ReaderPublish, svars, pvars, bounds
<1>t. /\ tx' \in [Procs -> Tx] /\ tx'[p].pc = tx[p].pc /\ tx'[p].op = tx[p].op
      /\ \A q \in Procs \ {p} : tx'[q] = tx[q]
  <2>0. tx \in [Procs -> Tx] /\ tx[p] \in Tx
    BY <1>0 DEF IInv, TypeOK
  <2>1. CASE tx' = tx
    BY <2>0, <2>1
  <2>2. CASE ReaderPublish(p)
    <3> DEFINE i == tx[p].intact /\ tx[p].pc # "flush"
    <3>1. i \in BOOLEAN /\ tx' = [tx EXCEPT ![p].intact = i]
      BY <2>2, <2>0, Zenon DEF ReaderPublish
    <3> HIDE DEF i
    <3>2. [tx[p] EXCEPT !.intact = i] \in Tx
      BY <2>0, <3>1, TxRecord DEF Tx
    <3> QED
      BY <2>0, <3>1, <3>2, TxRecord, ZenonT(60)
  <2> QED
    BY <2>1, <2>2 DEF Read, ReloadIfStale, ReaderRead
<1>2. /\ mem' \in [Procs -> Rows]
      /\ \A q \in Procs \ {p} : mem'[q] = mem[q]
  BY <1>0 DEF Read, ReloadIfStale, ReaderRead, ReaderPublish, IInv, TypeOK
<1>3. current' \in [Readers -> BOOLEAN]
  BY Zenon DEF Read, ReloadIfStale, ReaderRead, ReaderPublish, IInv, TypeOK
<1>4. reads' \in 0..MaxReads
  BY RegistryAssumption DEF Read, ReloadIfStale, ReaderRead, ReaderPublish, IInv, TypeOK, bounds
<1>5. rd' \in [Procs -> Rd]
  <2>1. \E r \in Rd : rd' = [rd EXCEPT ![p] = r]
    <3>1. [rd[p] EXCEPT !.pc = "read"] \in Rd /\ [rd[p] EXCEPT !.pc = "publish", !.rows = disk] \in Rd
      BY <1>0, Zenon DEF Rd
    <3>2. CASE ReloadIfStale(p)
      <4>1. rd' = [rd EXCEPT ![p] = [rd[p] EXCEPT !.pc = "read"]]
        BY <3>2 DEF ReloadIfStale, IInv, TypeOK
      <4> QED
        BY <3>1, <4>1, Zenon
    <3>3. CASE ReaderRead(p)
      <4>1. rd' = [rd EXCEPT ![p] = [rd[p] EXCEPT !.pc = "publish", !.rows = disk]]
        BY <3>3, Zenon DEF ReaderRead, IInv, TypeOK
      <4> QED
        BY <3>1, <4>1, Zenon
    <3>4. CASE ReaderPublish(p)
      BY <3>4, <1>0, Zenon DEF ReaderPublish
    <3> QED
      BY <3>2, <3>3, <3>4 DEF Read
  <2> QED
    BY <2>1, Zenon DEF IInv, TypeOK
<1>6. TypeOK'
  <2>1. \A q \in Procs : tx'[q].pc # "idle" <=> lock' = q
    BY <1>0, <1>1, <1>t, SMTT(60) DEF IInv, TypeOK
  <2> QED
    BY <1>1, <1>2, <1>3, <1>4, <1>5, <1>t, <2>1, SMTT(60) DEF IInv, TypeOK
<1>7. TxInv'
  BY <1>1, <1>2, <1>t, FollowsFrame, SMTT(60) DEF IInv, TxInv
<1>8. SentinelInv'
  BY <1>0, <1>1, <1>t, ZenonT(60) DEF IInv, SentinelInv
<1> QED
  BY <1>6, <1>7, <1>8 DEF IInv

(* A stop and the death of a host change one flag.                         *)
LEMMA FlagStep ==
  ASSUME IInv, NEW p \in Procs, Stop(p) \/ HostDies(p)
  PROVE  IInv'
<1>1. UNCHANGED <<disk, lock, mem, current, sentinel, handle, up, missing, tx, rd, snap, fails, reads>>
  BY DEF Stop, HostDies, svars, bounds
<1>2. /\ stage' \in [Procs -> {"starting", "active", "stopping", "stopped"}]
      /\ hostUp' \in [Procs -> BOOLEAN]
  BY ZenonT(60) DEF Stop, HostDies, IInv, TypeOK
<1>3. \A q \in Procs : hostUp'[q] => hostUp[q]
  BY DEF Stop, HostDies, IInv, TypeOK
<1>4. TypeOK'
  BY <1>1, <1>2, SMTT(60) DEF IInv, TypeOK
<1>5. TxInv'
  BY <1>1, FollowsFrame, SMTT(60) DEF IInv, TxInv
<1>6. SentinelInv'
  BY <1>1, <1>3 DEF IInv, SentinelInv
<1> QED
  BY <1>4, <1>5, <1>6 DEF IInv

(* A crash ends the transaction the process was in, if any.                *)
LEMMA CrashStep ==
  ASSUME IInv, NEW p \in Procs, Crash(p)
  PROVE  IInv'
<1>0. /\ NoTx \in Tx /\ NoTx.pc = "idle" /\ NoTx.op.name = "none" /\ NoTx.intact
      /\ NoRd \in Rd /\ NoRows \in Rows
  BY ConstantTypes, Zenon
<1>1. /\ UNCHANGED <<disk, current, hostUp, snap, fails, reads>>
      /\ lock' = IF lock = p THEN NoProc ELSE lock
      /\ tx' = [tx EXCEPT ![p] = NoTx] /\ rd' = [rd EXCEPT ![p] = NoRd]
      /\ mem' = [mem EXCEPT ![p] = NoRows] /\ missing' = [missing EXCEPT ![p] = FALSE]
      /\ up' = [up EXCEPT ![p] = FALSE] /\ handle' = [handle EXCEPT ![p] = FALSE]
      /\ stage' = [stage EXCEPT ![p] = "stopped"]
      /\ sentinel' = [sentinel EXCEPT ![p] = IF @ = "held" THEN "free" ELSE @]
  BY SMTT(60) DEF Crash, bounds
<1>2. /\ tx' \in [Procs -> Tx] /\ tx'[p] = NoTx
      /\ \A q \in Procs \ {p} : tx'[q] = tx[q]
      /\ mem' \in [Procs -> Rows]
      /\ \A q \in Procs \ {p} : mem'[q] = mem[q]
  BY <1>0, <1>1, SMTT(60) DEF IInv, TypeOK
<1>3. /\ up' \in [Procs -> BOOLEAN] /\ ~up'[p]
      /\ \A q \in Procs \ {p} : up'[q] = up[q]
      /\ handle' \in [Procs -> BOOLEAN] /\ missing' \in [Procs -> BOOLEAN]
      /\ \A q \in Procs \ {p} : handle'[q] = handle[q]
  BY <1>1, SMTT(60) DEF IInv, TypeOK
<1>4. /\ sentinel' \in [Procs -> {"absent", "free", "held"}]
      /\ \A q \in Procs \ {p} : sentinel'[q] = sentinel[q]
      /\ stage' \in [Procs -> {"starting", "active", "stopping", "stopped"}]
      /\ rd' \in [Procs -> Rd]
  BY <1>0, <1>1, SMTT(60) DEF IInv, TypeOK
<1>5. /\ lock' \in Procs \cup {NoProc}
      /\ \A q \in Procs : tx'[q].pc # "idle" <=> lock' = q
  BY <1>0, <1>1, <1>2, RegistryAssumption, SMTT(60) DEF IInv, TypeOK
<1>6. TypeOK'
  BY <1>1, <1>2, <1>3, <1>4, <1>5, SMTT(60) DEF IInv, TypeOK
<1>7. TxInv'
  <2>1. Follows(p)'
    BY <1>0, <1>2 DEF Follows
  <2>2. ASSUME NEW q \in Procs \ Readers, q # p PROVE Follows(q)'
    BY <2>2, <1>1, <1>2, FollowsFrame DEF IInv, TxInv
  <2> QED
    BY <2>1, <2>2 DEF TxInv
<1>8. SentinelInv'
  <2>1. \A q \in Procs \ {p} : /\ tx'[q] = tx[q] /\ up'[q] = up[q]
                              /\ handle'[q] = handle[q]
                              /\ sentinel'[q] = sentinel[q]
    BY <1>2, <1>3, <1>4, SMTT(60)
  <2>2. tx'[p].op.name = "none" /\ up'[p] = FALSE /\ hostUp' = hostUp
    BY <1>0, <1>1, <1>2, <1>3
  <2>3. SentinelInv
    BY DEF IInv
  <2> QED
    BY <2>1, <2>2, <2>3, SentinelFrame, ZenonT(60)
<1> QED
  BY <1>6, <1>7, <1>8 DEF IInv

(* An older build overwrites the file with its map.                        *)
LEMMA LegacyStep ==
  ASSUME IInv, NEW k \in Legacy,
         LegacyRead(k) \/ \E e \in {NoClient, Absent} : LegacyWrite(k, e)
  PROVE  IInv'
<1>1. UNCHANGED <<lock, mem, sentinel, handle, up, hostUp, stage, missing, tx, rd, fails>>
  BY DEF LegacyRead, LegacyWrite, svars, pvars, bounds
<1>2. disk' \in Rows /\ current' \in [Readers -> BOOLEAN] /\ snap' \in [Legacy -> Rows]
  <2>0. snap \in [Legacy -> Rows] /\ disk \in Rows /\ snap[k] \in Rows /\ current \in [Readers -> BOOLEAN]
    BY DEF IInv, TypeOK
  <2>1. CASE LegacyRead(k)
    BY <2>0, <2>1, Zenon DEF LegacyRead
  <2>2. ASSUME NEW e \in {NoClient, Absent}, LegacyWrite(k, e)
        PROVE  disk' \in Rows /\ current' \in [Readers -> BOOLEAN] /\ snap' \in [Legacy -> Rows]
    <3> DEFINE m == [snap[k] EXCEPT ![k] = e]
    <3>1. disk' = m /\ snap' = [snap EXCEPT ![k] = m] /\ current' = [q \in Readers |-> FALSE]
      BY <2>2 DEF LegacyWrite
    <3>2. m \in Rows
      BY <2>0, Zenon DEF Rows, Entry
    <3> HIDE DEF m
    <3> QED
      BY <2>0, <3>1, <3>2, Zenon
  <2> QED
    BY <2>1, <2>2
<1>3. reads' \in 0..MaxReads
  BY RegistryAssumption DEF LegacyRead, LegacyWrite, IInv, TypeOK, bounds
<1>4. TypeOK'
  BY <1>1, <1>2, <1>3, SMTT(60) DEF IInv, TypeOK
<1>5. TxInv'
  BY <1>1, FollowsFrame, SMTT(60) DEF IInv, TxInv
<1>6. SentinelInv'
  BY <1>1, ZenonT(60) DEF IInv, SentinelInv
<1> QED
  BY <1>4, <1>5, <1>6 DEF IInv

(* Every step keeps the invariant.                                         *)
LEMMA NextStep == IInv /\ [Next]_vars => IInv'
<1> SUFFICES ASSUME IInv, [Next]_vars PROVE IInv'
  OBVIOUS
<1>1. CASE UNCHANGED vars
  <2>1. UNCHANGED <<disk, lock, mem, current, sentinel, handle, up, hostUp, stage,
                    missing, tx, rd, snap, fails, reads>>
    BY <1>1, SMTT(60) DEF vars, svars, pvars, bounds
  <2>2. TypeOK' /\ SentinelInv'
    BY <2>1, SMTT(60) DEF IInv, TypeOK, SentinelInv
  <2>3. TxInv'
    BY <2>1, FollowsFrame DEF IInv, TxInv
  <2> QED
    BY <2>2, <2>3 DEF IInv
<1>2. ASSUME NEW p \in Procs, CallRegister(p) \/ CallHeartbeat(p) \/ CallDeregister(p)
      PROVE  IInv'
  <2>1. \E n \in {"register", "heartbeat", "deregister"} : Begin(p, n, p, NoClient)
    BY <1>2 DEF CallRegister, CallHeartbeat, CallDeregister
  <2>2. PICK n \in {"register", "heartbeat", "deregister"} : Begin(p, n, p, NoClient)
    BY <2>1
  <2>3. n \in OpNames /\ p \in Services \cup {Absent} /\ NoClient \in Clients \cup {NoClient}
    BY DEF OpNames, Services
  <2> QED
    BY <2>2, <2>3, BeginStep, SMTT(60)
<1>3. ASSUME NEW p \in Procs, Transact(p) PROVE IInv'
  BY <1>3, ReloadStep, BaselineStep, FlushStep, RenameStep, PublishStep, RegisterStep,
     HeartbeatStep, DeregisterStep, PruneStep, CleanupStep, AcquireStep, ReleaseStep
     DEF Transact
<1>4. ASSUME NEW p \in Gateways, Serve(p) PROVE IInv'
  <2>0. p \in Procs /\ NoClient \in Clients \cup {NoClient} /\ Absent \in Services \cup {Absent}
        /\ {"prune", "cleanup", "deregister", "lease", "release"} \subseteq OpNames
    BY RegistryAssumption DEF OpNames
  <2>1. CASE CallPrune(p)
    BY <2>0, <2>1, BeginStep DEF CallPrune
  <2>2. CASE CallCleanup(p)
    BY <2>0, <2>2, BeginStep DEF CallCleanup
  <2>3. ASSUME NEW k \in Mortal, CallEvict(p, k) PROVE IInv'
    <3>1. Begin(p, "deregister", k, NoClient) /\ ~hostUp[k] /\ k \in Procs
          /\ k \in Services \cup {Absent}
      BY <2>3, RegistryAssumption DEF CallEvict, Services
    <3> QED
      BY <2>0, <3>1, BeginStep
  <2>4. ASSUME NEW k \in Services, NEW c \in Clients,
               CallAcquireLease(p, k, c) \/ CallReleaseLease(p, k, c)
        PROVE  IInv'
    <3>1. PICK n \in {"lease", "release"} : Begin(p, n, k, c)
      BY <2>4 DEF CallAcquireLease, CallReleaseLease
    <3> QED
      BY <2>0, <3>1, BeginStep
  <2> QED
    BY <1>4, <2>1, <2>2, <2>3, <2>4 DEF Serve
<1>5. ASSUME NEW p \in Mortal, HostDies(p) PROVE IInv'
  BY <1>5, FlagStep, RegistryAssumption
<1> QED
  BY <1>1, <1>2, <1>3, <1>4, <1>5, FailStep, FlagStep, CrashStep, ReadStep, LegacyStep DEF Next

(* The inductive invariant holds.                                          *)
THEOREM InvariantHolds == Spec => []IInv
BY InitIInv, NextStep, PTL DEF Spec

(***************************************************************************)
(* The registry keeps its types, and services.lock is held exactly by the  *)
(* process inside with_write_transaction.                                  *)
(***************************************************************************)
THEOREM TypeCorrect == Spec => []TypeOK
<1>1. IInv => TypeOK
  BY DEF IInv
<1> QED
  BY <1>1, InvariantHolds, PTL

(***************************************************************************)
(* A write transaction on a handle without reader threads commits its edit *)
(* and keeps every row it loaded, for any number of processes, crashes,    *)
(* failed flushes and older builds that overwrite the file meanwhile; and  *)
(* without these it acts as one step.                                      *)
(***************************************************************************)
THEOREM TransactionsAreAtomic == Spec => CommitIsAtomic
<1>1. ASSUME IInv PROVE \A p \in Procs \ Readers : CommitsItsEdit(p)
  BY <1>1 DEF IInv, TxInv, Follows, CommitsItsEdit, TxRename
<1>2. IInv => [\A p \in Procs \ Readers : CommitsItsEdit(p)]_vars
  BY <1>1
<1> QED
  BY <1>2, InvariantHolds, PTL DEF CommitIsAtomic

(***************************************************************************)
(* prune_dead_entries removes no row of a process that runs, with its host *)
(* running, and holds its sentinel.                                        *)
(***************************************************************************)
THEOREM PruningIsSafe == Spec => PruneSparesTheLiving
<1> DEFINE A == \A p \in Procs : PruneDeadEntries(p) =>
                  \A k \in tx'[p].edited \cap Procs : ~(up[k] /\ hostUp[k] /\ handle[k])
<1>1. ASSUME IInv PROVE A
  <2> SUFFICES ASSUME NEW p \in Procs, PruneDeadEntries(p),
                      NEW k \in Procs, k \in tx'[p].edited
               PROVE  ~(up[k] /\ hostUp[k] /\ handle[k])
    OBVIOUS
  <2>1. tx'[p].edited \in {DeadKeys(p), {}}
    <3>0. tx \in [Procs -> Tx] /\ tx[p] \in Tx
      BY <1>1 DEF IInv, TypeOK
    <3>1. CASE DeadKeys(p) = {}
      BY <3>0, <3>1 DEF PruneDeadEntries, Apply, Unlock, NoTx
    <3>2. CASE DeadKeys(p) # {}
      BY <3>0, <3>2 DEF PruneDeadEntries, Apply, Tx
    <3> QED
      BY <3>1, <3>2, SMTT(60)
  <2> QED
    BY <2>1, <1>1 DEF DeadKeys, SentinelIsDead, IInv, SentinelInv
<1>2. IInv => [A]_vars
  BY <1>1
<1> QED
  BY <1>2, InvariantHolds, PTL DEF PruneSparesTheLiving

=============================================================================
