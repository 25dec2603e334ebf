--------------------------- MODULE DispatchProofs ---------------------------
(***************************************************************************)
(* The counters of the two components that hand out work.  The depth       *)
(* counter and the capacity bound of the host dispatcher, for any number   *)
(* of posters and jobs, any capacity and any batch size; and the slots of  *)
(* the scheduler's concurrency tracker, for any cron schedules, webhooks   *)
(* and limits and any finite number of requests in parallel.               *)
(***************************************************************************)
EXTENDS HostDispatcher, SchedulerService, FiniteSetTheorems, TLAPS

-----------------------------------------------------------------------------
(* The host dispatcher.                                                    *)

(* Posters that passed the capacity check and are not counted yet.         *)
Passed == {p \in Posters : poster[p].pc \in {"admitted", "sent"}}

(* Outside a drain the main thread's batch is empty.                       *)
BatchInv == drain.pc \in {"idle", "enter", "await"} => drain.batch = <<>>

(***************************************************************************)
(* Why DepthBound holds: a post in transit is charged to the bound from    *)
(* the moment it passes the check, when the counter is below the capacity. *)
(***************************************************************************)
DepthInv ==
    Capacity > 0 =>
        pending + Cardinality(Passed) <= Capacity + Cardinality(Posters) - 1

IInv == TypeOK /\ BatchInv /\ PendingAccounts /\ DepthInv

(* The posters in transit are finitely many, and the uncounted are among   *)
(* those that passed the check.                                            *)
LEMMA PosterSets ==
    /\ IsFiniteSet(Uncounted) /\ IsFiniteSet(Passed)
    /\ Cardinality(Uncounted) \in Nat
    /\ Cardinality(Passed) \in Nat
    /\ Cardinality(Posters) \in Nat
    /\ Cardinality(Uncounted) <= Cardinality(Passed)
    /\ Cardinality(Passed) <= Cardinality(Posters)
<1>1. Uncounted \subseteq Passed /\ Passed \subseteq Posters
  BY DEF Uncounted, Passed
<1>2. IsFiniteSet(Passed) /\ IsFiniteSet(Uncounted)
  BY <1>1, PostersAssumption, FS_Subset
<1> QED
  BY <1>1, <1>2, PostersAssumption, FS_Subset, FS_CardinalityType

(* Sequence facts used by the steps below.                                 *)
LEMMA SequenceFacts ==
    /\ \A s \in Seq(Jobs), j \in Jobs :
          Append(s, j) \in Seq(Jobs) /\ Len(Append(s, j)) = Len(s) + 1
    /\ \A s \in Seq(Jobs) : s # <<>> =>
          /\ Head(s) \in Jobs
          /\ Tail(s) \in Seq(Jobs)
          /\ Len(Tail(s)) = Len(s) - 1
    /\ \A s \in Seq(Jobs) : Len(s) \in Nat
    /\ Len(<<>>) = 0
    /\ <<>> \in Seq(Jobs)
OBVIOUS

(* The dispatcher starts within the invariant.                             *)
LEMMA InitIInv == Init => IInv
<1> SUFFICES ASSUME Init PROVE IInv
  OBVIOUS
<1>1. TypeOK
  <2>1. poster \in [Posters -> [pc : {"idle"}, job : {NoJob}]]
    BY DEF Init, AtRest
  <2>2. drain \in [pc : {"idle"}, batch : Seq(Jobs)]
    BY SequenceFacts DEF Init
  <2>3. shutdown \in BOOLEAN /\ answer \in [Jobs -> {"none"}]
    BY Zenon DEF Init
  <2> QED
    BY <2>1, <2>2, <2>3, SequenceFacts DEF Init, TypeOK
<1>6. BatchInv
  BY DEF Init, BatchInv
<1>2. Uncounted = {} /\ Passed = {}
  BY DEF Init, Uncounted, Passed, AtRest
<1>3. Cardinality({}) = 0
  BY FS_EmptySet
<1>4. PendingAccounts
  BY <1>2, <1>3 DEF Init, PendingAccounts, Unsubtracted, Draining
<1>5. DepthInv
  BY <1>2, <1>3, PosterSets, CapacityAssumption, SMTT(60) DEF Init, DepthInv
<1> QED
  BY <1>1, <1>4, <1>5, <1>6 DEF IInv

(***************************************************************************)
(* HostDispatcher's variables keep their types.                            *)
(***************************************************************************)
LEMMA TypeStep == TypeOK /\ BatchInv /\ [Next]_vars => TypeOK' /\ BatchInv'
<1> SUFFICES ASSUME TypeOK, BatchInv, [Next]_vars PROVE TypeOK' /\ BatchInv'
  OBVIOUS
<1> USE DEF TypeOK, BatchInv
<1>1. CASE UNCHANGED vars
  BY <1>1 DEF vars
<1>2. ASSUME NEW p \in Posters, NEW j \in Jobs, Post(p, j)
      PROVE  TypeOK' /\ BatchInv'
  <2>1. CASE shutdown
    BY <1>2, <2>1, SMTT(30) DEF Post, Reject, AtRest, Answers
  <2>2. CASE ~shutdown
    <3>1. answer' \in [Jobs -> {"none", "posted"} \cup Answers]
      BY <1>2, <2>2 DEF Post
    <3>2. [pc |-> "flagged", job |-> j] \in [pc : PosterPCs, job : Jobs]
      BY DEF PosterPCs
    <3> QED
      BY <1>2, <2>2, <3>1, <3>2, ZenonT(60) DEF Post
  <2> QED
    BY <2>1, <2>2
<1>3. ASSUME NEW p \in Posters, CheckCapacity(p)
      PROVE  TypeOK' /\ BatchInv'
  <2>1. poster[p] \in [pc : PosterPCs, job : Jobs]
    BY <1>3 DEF CheckCapacity, At
  <2> QED
    <3> DEFINE Poster == [pc : {"idle"}, job : {NoJob}] \cup [pc : PosterPCs, job : Jobs]
    <3>1. CASE Full
      <4>1. poster' = [poster EXCEPT ![p] = AtRest] /\ AtRest \in Poster
        BY <1>3, <3>1 DEF CheckCapacity, Reject, AtRest
      <4>2. poster' \in [Posters -> Poster]
        BY <4>1
      <4>3. answer' \in [Jobs -> {"none", "posted"} \cup Answers]
        BY <1>3, <2>1, <3>1 DEF CheckCapacity, Reject, Answers
      <4> QED
        BY <1>3, <4>2, <4>3 DEF CheckCapacity
    <3>2. CASE ~Full
      <4>1. [poster[p] EXCEPT !.pc = "admitted"] \in Poster
        BY <2>1 DEF PosterPCs
      <4>2. poster' = [poster EXCEPT ![p] = [poster[p] EXCEPT !.pc = "admitted"]]
        BY <1>3, <3>2 DEF CheckCapacity, Move
      <4>3. poster' \in [Posters -> Poster]
        BY <4>1, <4>2
      <4> QED
        BY <1>3, <3>2, <4>3 DEF CheckCapacity
    <3> QED
      BY <3>1, <3>2
<1>4. ASSUME NEW p \in Posters, Send(p)
      PROVE  TypeOK' /\ BatchInv'
  <2>1. poster[p] \in [pc : PosterPCs, job : Jobs]
    BY <1>4 DEF Send, At
  <2> QED
    <3>1. [poster[p] EXCEPT !.pc = "sent"] \in [pc : PosterPCs, job : Jobs]
      BY <2>1 DEF PosterPCs
    <3> QED
      BY <1>4, <2>1, <3>1, SequenceFacts DEF Send, Move
<1>5. ASSUME NEW p \in Posters, Count(p)
      PROVE  TypeOK' /\ BatchInv'
  <2>1. poster[p] \in [pc : PosterPCs, job : Jobs]
    BY <1>5 DEF Count, At
  <2> QED
    <3>1. [poster[p] EXCEPT !.pc = "counted"] \in [pc : PosterPCs, job : Jobs]
      BY <2>1 DEF PosterPCs
    <3> QED
      BY <1>5, <3>1 DEF Count, Move
<1>6. ASSUME NEW p \in Posters, PushTime(p)
      PROVE  TypeOK' /\ BatchInv'
  <2>1. poster[p] \in [pc : PosterPCs, job : Jobs]
    BY <1>6 DEF PushTime, At
  <2> QED
    BY <1>6, <2>1, SequenceFacts DEF PushTime, AtRest
<1>7. CASE HostTick \/ TickBlocking \/ AwaitTimeout
  BY <1>7 DEF HostTick, TickBlocking, AwaitTimeout
<1>8. ASSUME NEW next \in {"recv", "sub"}, Receive(next)
      PROVE  TypeOK' /\ BatchInv'
  BY <1>8, SequenceFacts, SMTT(60) DEF Receive, PopTime
<1>9. CASE Tick \/ DrainStops \/ TickReturns
  BY <1>9 DEF Tick, DrainStops, TickReturns
<1>14. CASE DrainDone
  <2>1. pending' \in Int
    BY <1>14, SequenceFacts DEF DrainDone
  <2> QED
    BY <1>14, <2>1, SMTT(60) DEF DrainDone
<1>10. CASE Peek
  BY <1>8, <1>10 DEF Peek
<1>11. ASSUME NEW outcome \in {"ran", "panic"}, RunOne(outcome)
       PROVE  TypeOK' /\ BatchInv'
  BY <1>11, SequenceFacts, Zenon DEF RunOne, Answers
<1>12. CASE Shutdown \/ ShutdownGivesUp \/ ShutdownLock
  BY <1>12, ZenonT(60) DEF Shutdown, ShutdownGivesUp, ShutdownLock
<1>13. CASE CancelOne
  BY <1>13, SequenceFacts, SMTT(60) DEF CancelOne, Answers
<1>15. CASE ShutdownDone
  BY <1>15, SequenceFacts DEF ShutdownDone
<1> QED
  BY <1>1, <1>2, <1>3, <1>4, <1>5, <1>6, <1>7, <1>8, <1>9, <1>10, <1>11, <1>12, SMTT(60),
     <1>13, <1>14, <1>15 DEF Next, Enqueue, Ticking, Closing, AwaitFirst, DrainOne

(* How a step of one poster changes the two sets and their sizes.          *)
LEMMA OnePosterMoves ==
    ASSUME TypeOK, NEW p \in Posters, NEW r, poster' = [poster EXCEPT ![p] = r]
    PROVE  /\ (p \in Uncounted <=> r.pc = "sent") => Uncounted' = Uncounted
           /\ p \notin Uncounted /\ r.pc = "sent" =>
                 Cardinality(Uncounted') = Cardinality(Uncounted) + 1
           /\ p \in Uncounted /\ r.pc # "sent" =>
                 Cardinality(Uncounted') = Cardinality(Uncounted) - 1
           /\ (p \in Passed <=> r.pc \in {"admitted", "sent"}) => Passed' = Passed
           /\ p \in Passed /\ r.pc \notin {"admitted", "sent"} =>
                 Cardinality(Passed') = Cardinality(Passed) - 1
<1>1. /\ poster'[p] = r
      /\ \A q \in Posters \ {p} : poster'[q] = poster[q]
  BY DEF TypeOK
<1>2. ASSUME r.pc = "sent", p \notin Uncounted
      PROVE  Cardinality(Uncounted') = Cardinality(Uncounted) + 1
  <2>1. Uncounted' = Uncounted \cup {p}
    BY <1>1, <1>2 DEF Uncounted
  <2> QED
    BY <1>2, <2>1, PosterSets, FS_AddElement, Zenon
<1>3. ASSUME r.pc # "sent", p \in Uncounted
      PROVE  Cardinality(Uncounted') = Cardinality(Uncounted) - 1
  <2>1. Uncounted' = Uncounted \ {p}
    BY <1>1, <1>3 DEF Uncounted
  <2> QED
    BY <1>3, <2>1, PosterSets, FS_RemoveElement, Zenon
<1>4. ASSUME r.pc \notin {"admitted", "sent"}, p \in Passed
      PROVE  Cardinality(Passed') = Cardinality(Passed) - 1
  <2>1. Passed' = Passed \ {p}
    BY <1>1, <1>4 DEF Passed
  <2> QED
    BY <1>4, <2>1, PosterSets, FS_RemoveElement, Zenon
<1>5. (p \in Uncounted <=> r.pc = "sent") => Uncounted' = Uncounted
  BY <1>1 DEF Uncounted
<1>6. (p \in Passed <=> r.pc \in {"admitted", "sent"}) => Passed' = Passed
  BY <1>1 DEF Passed
<1> QED
  BY <1>2, <1>3, <1>4, <1>5, <1>6

(***************************************************************************)
(* A poster's step: Send puts a job in the channel and a poster in         *)
(* transit, Count takes both back, and only a check that found room below  *)
(* the capacity adds a poster to those charged to the bound.               *)
(***************************************************************************)
LEMMA PosterStep ==
    ASSUME IInv, NEW p \in Posters, (\E j \in Jobs : Post(p, j)) \/ Enqueue(p)
    PROVE  PendingAccounts' /\ DepthInv'
<1> USE DEF IInv, TypeOK
<1>1. UNCHANGED drain
  BY DEF Post, Enqueue, CheckCapacity, Send, Count, PushTime
<1>2. Unsubtracted' = Unsubtracted /\ Unsubtracted \in Nat
  BY <1>1, SequenceFacts DEF Unsubtracted
<1>3. /\ Cardinality(Uncounted)' = Cardinality(Uncounted')
      /\ Cardinality(Passed)' = Cardinality(Passed')
      /\ Cardinality(Posters)' = Cardinality(Posters)
  OBVIOUS
<1>5. ASSUME NEW j \in Jobs, Post(p, j)
      PROVE  PendingAccounts' /\ DepthInv'
  <2>1. PICK r : poster' = [poster EXCEPT ![p] = r] /\ r.pc \in {"idle", "flagged"}
    BY <1>5 DEF Post, Reject, AtRest
  <2>2. p \notin Uncounted /\ p \notin Passed
    BY <1>5 DEF Post, At, Uncounted, Passed
  <2>3. Uncounted' = Uncounted /\ Passed' = Passed
    BY <2>1, <2>2, OnePosterMoves, Zenon
  <2> QED
    BY <1>2, <1>3, <1>5, <2>3, SMTT(60) DEF Post, PendingAccounts, DepthInv
<1>6. CASE CheckCapacity(p)
  <2>1. p \notin Uncounted /\ p \notin Passed
    BY <1>6 DEF CheckCapacity, At, Uncounted, Passed
  <2>2. CASE Full
    <3>1. poster' = [poster EXCEPT ![p] = AtRest]
      BY <1>6, <2>2 DEF CheckCapacity, Reject
    <3>2. Uncounted' = Uncounted /\ Passed' = Passed
      BY <3>1, <2>1, OnePosterMoves, Zenon DEF AtRest
    <3> QED
      BY <1>2, <1>3, <1>6, <3>2 DEF CheckCapacity, PendingAccounts, DepthInv
  <2>3. CASE ~Full
    <3>1. PICK r : poster' = [poster EXCEPT ![p] = r] /\ r.pc = "admitted"
      BY <1>6, <2>3 DEF CheckCapacity, Move
    <3>2. Uncounted' = Uncounted
      BY <3>1, <2>1, OnePosterMoves, ZenonT(60)
    <3>3. Cardinality(Passed') <= Cardinality(Posters) /\ Cardinality(Passed') \in Nat
      BY PostersAssumption, FS_Subset, FS_CardinalityType DEF Passed
    <3>4. Capacity > 0 => pending \in 0..(Capacity - 1)
      BY <2>3, CapacityAssumption, SMTT(60) DEF Full
    <3>5. PendingAccounts'
      BY <1>2, <1>3, <1>6, <3>2, SMTT(60) DEF CheckCapacity, PendingAccounts
    <3>6. DepthInv'
      BY <1>3, <1>6, <3>3, <3>4, CapacityAssumption, PosterSets, SMTT(60)
         DEF CheckCapacity, DepthInv
    <3> QED
      BY <3>5, <3>6
  <2> QED
    BY <2>2, <2>3
<1>7. CASE Send(p)
  <2>1. p \notin Uncounted /\ p \in Passed
    BY <1>7 DEF Send, At, Uncounted, Passed
  <2> DEFINE r == [poster[p] EXCEPT !.pc = "sent"]
  <2>2. poster' = [poster EXCEPT ![p] = r] /\ r.pc = "sent"
    <3>1. poster[p] \in [pc : PosterPCs, job : Jobs]
      BY <1>7 DEF Send, At
    <3> QED
      BY <1>7, <3>1 DEF Send, Move
  <2> HIDE DEF r
  <2>3. Passed' = Passed /\ Cardinality(Uncounted') = Cardinality(Uncounted) + 1
    BY <2>1, <2>2, OnePosterMoves, ZenonT(60)
  <2>5. poster[p].job \in Jobs
    BY <1>7 DEF Send, At
  <2>6. Len(queue') = Len(queue) + 1 /\ Len(queue) \in Nat
    BY <1>7, <2>5, SequenceFacts DEF Send
  <2>7. pending' = pending
    BY <1>7 DEF Send
  <2> QED
    BY <1>2, <1>3, <2>3, <2>6, <2>7, PosterSets, SMTT(30) DEF PendingAccounts, DepthInv
<1>8. CASE Count(p)
  <2>1. p \in Uncounted /\ p \in Passed
    BY <1>8 DEF Count, At, Uncounted, Passed
  <2> DEFINE r == [poster[p] EXCEPT !.pc = "counted"]
  <2>2. poster' = [poster EXCEPT ![p] = r] /\ r.pc = "counted"
    <3>1. poster[p] \in [pc : PosterPCs, job : Jobs]
      BY <1>8 DEF Count, At
    <3> QED
      BY <1>8, <3>1 DEF Count, Move
  <2> HIDE DEF r
  <2>4. /\ Cardinality(Uncounted') = Cardinality(Uncounted) - 1
        /\ Cardinality(Passed') = Cardinality(Passed) - 1
    BY <2>1, <2>2, OnePosterMoves, Zenon
  <2>5. Len(queue) \in Nat
    BY SequenceFacts
  <2>6. pending' = pending + 1 /\ queue' = queue
    BY <1>8 DEF Count
  <2>7. PendingAccounts'
    BY <1>2, <1>3, <2>4, <2>5, <2>6, PosterSets, SMTT(30) DEF PendingAccounts
  <2>8. DepthInv'
    BY <1>3, <2>4, <2>6, PosterSets, CapacityAssumption DEF DepthInv
  <2> QED
    BY <2>7, <2>8
<1>9. CASE PushTime(p)
  <2>1. p \notin Uncounted /\ p \notin Passed
    BY <1>9 DEF PushTime, At, Uncounted, Passed
  <2>2. poster' = [poster EXCEPT ![p] = AtRest]
    BY <1>9 DEF PushTime
  <2>3. Uncounted' = Uncounted /\ Passed' = Passed
    BY <2>1, <2>2, OnePosterMoves, Zenon DEF AtRest
  <2> QED
    BY <1>2, <1>3, <1>9, <2>3, SMTT(60) DEF PushTime, PendingAccounts, DepthInv
<1> QED
  BY <1>5, <1>6, <1>7, <1>8, <1>9, SMTT(60) DEF Enqueue

(* Nothing is lost between the channel, the batch and the counter.         *)
LEMMA Balance ==
    ASSUME NEW l \in Nat, NEW u \in Nat, NEW p \in Int, NEW c \in Nat,
           NEW n \in Nat, NEW m \in Nat, NEW k \in Int,
           p = l + u - c, n + m - k = l + u - p
    PROVE  k = n + m - c
OBVIOUS

(***************************************************************************)
(* A step of the main thread or of shutdown leaves the posters alone: what *)
(* leaves the channel enters the batch or the counter, and what leaves the *)
(* batch leaves the counter.                                               *)
(***************************************************************************)
LEMMA ConsumerStep ==
    ASSUME IInv, HostTick \/ TickBlocking \/ AwaitTimeout \/ Ticking
                 \/ Shutdown \/ ShutdownGivesUp \/ Closing
    PROVE  PendingAccounts' /\ DepthInv'
<1> USE DEF IInv, TypeOK
<1>1. poster' = poster
  BY DEF HostTick, TickBlocking, AwaitTimeout, Ticking, Tick, AwaitFirst, DrainOne,
         DrainStops, Peek, DrainDone, RunOne, TickReturns, Receive, Shutdown,
         ShutdownGivesUp, Closing, ShutdownLock, CancelOne, ShutdownDone
<1>2. Uncounted' = Uncounted /\ Passed' = Passed
  BY <1>1 DEF Uncounted, Passed
<1>3. /\ Cardinality(Uncounted)' = Cardinality(Uncounted)
      /\ Cardinality(Passed)' = Cardinality(Passed)
  BY <1>2
<1>4. Len(queue) \in Nat /\ Len(drain.batch) \in Nat /\ Unsubtracted \in Nat
  BY SequenceFacts DEF Unsubtracted
<1>5. ASSUME NEW n \in Nat, NEW m \in Nat, NEW k \in Int,
             Len(queue') = n, Unsubtracted' = m, pending' = k,
             n + m - k = Len(queue) + Unsubtracted - pending, k <= pending
      PROVE  PendingAccounts' /\ DepthInv'
  <2>1. pending = Len(queue) + Unsubtracted - Cardinality(Uncounted)
    BY DEF PendingAccounts
  <2>2. k = n + m - Cardinality(Uncounted)
    <3>1. Cardinality(Uncounted) \in Nat /\ pending \in Int
      BY PosterSets
    <3>2. PICK l \in Nat, u \in Nat, c \in Nat, p \in Int :
             /\ l = Len(queue) /\ u = Unsubtracted
             /\ c = Cardinality(Uncounted) /\ p = pending
      BY <1>4, <3>1
    <3>3. p = l + u - c /\ n + m - k = l + u - p
      BY <1>5, <2>1, <3>2
    <3>4. k = n + m - c
      BY <3>3, Balance
    <3> QED
      BY <3>2, <3>4
  <2>3. PendingAccounts'
    BY <1>3, <1>5, <2>2 DEF PendingAccounts
  <2>4. Capacity > 0 =>
           k + Cardinality(Passed) <= Capacity + Cardinality(Posters) - 1
    BY <1>5, PosterSets, CapacityAssumption, SMTT(30) DEF DepthInv
  <2>5. DepthInv'
    BY <1>3, <1>5, <2>4 DEF DepthInv
  <2> QED
    BY <2>3, <2>5
<1>6. CASE HostTick \/ TickBlocking \/ AwaitTimeout \/ DrainStops
           \/ Shutdown \/ ShutdownGivesUp \/ ShutdownLock \/ ShutdownDone
  <2>1. Unsubtracted' = Unsubtracted /\ queue' = queue /\ pending' = pending
    BY <1>6 DEF HostTick, TickBlocking, AwaitTimeout, DrainStops, Shutdown,
                ShutdownGivesUp, ShutdownLock, ShutdownDone, Unsubtracted, Draining
  <2> QED
    BY <1>4, <1>5, <2>1, SMTT(60)
<1>7. CASE Tick
  <2>1. Unsubtracted' = Unsubtracted /\ queue' = queue /\ pending' = pending
    BY <1>7, SequenceFacts DEF Tick, Unsubtracted, Draining, BatchInv
  <2> QED
    BY <1>4, <1>5, <2>1
<1>8. ASSUME NEW next \in {"recv", "sub"}, Receive(next),
             drain.pc \in {"await", "recv", "peek"}
      PROVE  PendingAccounts' /\ DepthInv'
  <2>1. Len(queue') = Len(queue) - 1 /\ Len(queue') \in Nat
    BY <1>8, SequenceFacts DEF Receive
  <2>2. Unsubtracted = Len(drain.batch)
    BY <1>8, SequenceFacts DEF Unsubtracted, Draining, BatchInv
  <2>3. Unsubtracted' = Len(drain.batch) + 1
    BY <1>8, SequenceFacts DEF Receive, Unsubtracted, Draining
  <2>4. pending' = pending
    BY <1>8 DEF Receive
  <2>5. /\ Len(drain.batch) + 1 \in Nat
        /\ Len(queue') + (Len(drain.batch) + 1) - pending
              = Len(queue) + Len(drain.batch) - pending
    BY <1>4, <2>1
  <2> QED
    BY <1>5, <2>1, <2>2, <2>3, <2>4, <2>5, SMTT(60)
<1>9. CASE Peek /\ UNCHANGED queue
  <2>1. drain.pc = "peek" /\ drain' = [drain EXCEPT !.pc = "sub"] /\ pending' = pending
    BY <1>9, SequenceFacts DEF Peek, Receive
  <2>2. Unsubtracted' = Unsubtracted
    BY <2>1 DEF Unsubtracted, Draining
  <2> QED
    BY <1>4, <1>5, <1>9, <2>1, <2>2
<1>10. CASE DrainDone
  <2>1. Unsubtracted = Len(drain.batch) /\ Unsubtracted' = 0
    BY <1>10 DEF DrainDone, Unsubtracted, Draining
  <2>2. pending' = pending - Len(drain.batch) /\ queue' = queue
    BY <1>10 DEF DrainDone
  <2>3. /\ pending - Len(drain.batch) \in Int
        /\ pending - Len(drain.batch) <= pending
        /\ Len(queue) + 0 - (pending - Len(drain.batch))
              = Len(queue) + Len(drain.batch) - pending
    BY <1>4
  <2> QED
    BY <1>4, <1>5, <2>1, <2>2, <2>3
<1>11. CASE TickReturns \/ \E outcome \in {"ran", "panic"} : RunOne(outcome)
  <2>1. Unsubtracted' = Unsubtracted /\ queue' = queue /\ pending' = pending
    BY <1>11, SMTT(60) DEF RunOne, TickReturns, Unsubtracted, Draining
  <2> QED
    BY <1>4, <1>5, <2>1
<1>12. CASE CancelOne
  <2>1. Len(queue') = Len(queue) - 1 /\ Len(queue') \in Nat
    BY <1>12, SequenceFacts DEF CancelOne
  <2>2. Unsubtracted' = Unsubtracted /\ pending' = pending - 1
    BY <1>12 DEF CancelOne, Unsubtracted
  <2>3. /\ pending - 1 \in Int /\ pending - 1 <= pending
        /\ Len(queue') + Unsubtracted - (pending - 1)
              = Len(queue) + Unsubtracted - pending
    BY <1>4, <2>1
  <2> QED
    BY <1>4, <1>5, <2>1, <2>2, <2>3, ZenonT(60)
<1>13. CASE Peek
  <2>1. CASE queue # <<>>
    BY <1>8, <1>13, <2>1 DEF Peek
  <2>2. CASE queue = <<>>
    BY <1>9, <1>13, <2>2 DEF Peek, Receive
  <2> QED
    BY <2>1, <2>2
<1> QED
  BY <1>6, <1>7, <1>8, <1>10, <1>11, <1>12, <1>13, SMTT(60)
     DEF Ticking, Closing, AwaitFirst, DrainOne

(* The invariant is inductive.                                             *)
LEMMA InvariantHolds == Spec => []IInv
<1>1. IInv /\ [Next]_vars => IInv'
  <2> SUFFICES ASSUME IInv, [Next]_vars PROVE IInv'
    OBVIOUS
  <2>1. TypeOK' /\ BatchInv'
    BY TypeStep DEF IInv
  <2>2. PendingAccounts' /\ DepthInv'
    <3>1. CASE UNCHANGED vars
      BY <3>1 DEF vars, IInv, PendingAccounts, DepthInv, Uncounted, Unsubtracted,
                  Passed
    <3>2. CASE Next
      BY <3>2, PosterStep, ConsumerStep DEF Next
    <3> QED
      BY <3>1, <3>2
  <2> QED
    BY <2>1, <2>2 DEF IInv
<1> QED
  BY InitIInv, <1>1, PTL DEF Spec

(***************************************************************************)
(* The dispatcher's shared state keeps its types.                          *)
(***************************************************************************)
THEOREM TypeCorrect == Spec => []TypeOK
<1>1. IInv => TypeOK
  BY DEF IInv
<1> QED
  BY InvariantHolds, <1>1, PTL

(***************************************************************************)
(* For any number of posters, whatever they race with, the depth counter   *)
(* differs from the depth of the queue only by the posts and drains in     *)
(* transit (enqueue, drain_ready, drain_awaiting, shutdown).               *)
(***************************************************************************)
THEOREM CounterIsExact == Spec => []PendingAccounts
<1>1. IInv => PendingAccounts
  BY DEF IInv
<1> QED
  BY InvariantHolds, <1>1, PTL

(***************************************************************************)
(* For every capacity and every number of posters, the check-then-send of  *)
(* enqueue exceeds the capacity by less than the number of posters.        *)
(***************************************************************************)
THEOREM QueueIsBounded == Spec => []DepthBound
<1>1. IInv => DepthBound
  <2> SUFFICES ASSUME IInv, Capacity > 0
               PROVE  Len(queue) <= Capacity + Cardinality(Posters) - 1
    BY DEF DepthBound
  <2>1. Len(queue) \in Nat /\ Unsubtracted \in Nat
    BY SequenceFacts DEF IInv, TypeOK, Unsubtracted
  <2>2. pending \in Int
    BY DEF IInv, TypeOK
  <2> QED
    BY <2>1, <2>2, PosterSets, CapacityAssumption, SMTT(30) DEF IInv, PendingAccounts, DepthInv
<1> QED
  BY InvariantHolds, <1>1, PTL

-----------------------------------------------------------------------------
(* The scheduler.                                                          *)

SchedulerInv == SchedulerTypeOK /\ CountsExact

(* The types, one conjunct each.                                           *)
LEMMA TypeFacts ==
    ASSUME SchedulerTypeOK
    PROVE  /\ scCounts \in [Schedules -> Nat] /\ scRunning \in [Schedules -> Nat]
           /\ scEnded \in [Schedules -> Nat]
           /\ scTask \in [Crons -> {"sleep", "gate", "fire", "grace", "ended"}]
           /\ scRequest \in [Requests -> [pc : {"none", "gate", "fire"}, schedule : Hooks]]
BY DEF SchedulerTypeOK

(* Requests are finitely many, so the slots they hold can be counted.      *)
LEMMA FiringFinite ==
    ASSUME NEW i
    PROVE  IsFiniteSet(Firing(i)) /\ Cardinality(Firing(i)) \in Nat
<1>1. Firing(i) \subseteq Requests
  BY DEF Firing
<1> QED
  BY <1>1, SchedulerAssumption, FS_Subset, FS_CardinalityType

(* A task holds one slot or none.                                          *)
LEMMA TaskFiresType == ASSUME NEW i PROVE TaskFires(i) \in {0, 1}
BY DEF TaskFires

(* Who holds a slot of i depends on the requests and on the task of i only.*)
LEMMA FiringSame == ASSUME NEW i, scRequest' = scRequest PROVE Firing(i)' = Firing(i)
BY DEF Firing

(* A request that passed the gate holds a slot of its schedule.            *)
LEMMA FiringAdds ==
    ASSUME SchedulerTypeOK, NEW r \in Requests, scRequest[r].pc = "gate",
           scRequest' = [scRequest EXCEPT ![r].pc = "fire"], NEW i \in Schedules
    PROVE  Cardinality(Firing(i)') =
              IF i = scRequest[r].schedule THEN Cardinality(Firing(i)) + 1
              ELSE Cardinality(Firing(i))
<1>0. r \notin Firing(i)
  BY DEF Firing
<1>1. scRequest'[r].pc = "fire" /\ scRequest'[r].schedule = scRequest[r].schedule
  BY TypeFacts
<1>2. \A q \in Requests : q # r => scRequest'[q] = scRequest[q]
  BY TypeFacts
<1>3. Firing(i)' = IF i = scRequest[r].schedule THEN Firing(i) \cup {r} ELSE Firing(i)
  BY <1>1, <1>2, scRequest[r].pc # "fire" DEF Firing
<1> QED
  BY <1>0, <1>3, FiringFinite, FS_AddElement, Zenon

(* A request that has fired gives its slot up.                             *)
LEMMA FiringRemoves ==
    ASSUME SchedulerTypeOK, NEW r \in Requests, scRequest[r].pc = "fire",
           scRequest' = [scRequest EXCEPT ![r].pc = "none"], NEW i \in Schedules
    PROVE  Cardinality(Firing(i)') =
              IF i = scRequest[r].schedule THEN Cardinality(Firing(i)) - 1
              ELSE Cardinality(Firing(i))
<1>1. scRequest'[r].pc = "none"
  BY TypeFacts
<1>2. \A q \in Requests : q # r => scRequest'[q] = scRequest[q]
  BY TypeFacts
<1>3. Firing(i)' = IF i = scRequest[r].schedule THEN Firing(i) \ {r} ELSE Firing(i)
  BY <1>1, <1>2 DEF Firing
<1>4. i = scRequest[r].schedule => r \in Firing(i)
  BY DEF Firing
<1> QED
  BY <1>3, <1>4, FiringFinite, FS_RemoveElement, ZenonT(60)

(* A request outside the gate and the fire holds nothing.                  *)
LEMMA FiringKept ==
    ASSUME SchedulerTypeOK, NEW r \in Requests, scRequest[r].pc # "fire",
           \A q \in Requests : q # r => scRequest'[q] = scRequest[q],
           scRequest'[r].pc # "fire", NEW i \in Schedules
    PROVE  Firing(i)' = Firing(i)
BY DEF Firing

(* The tracker starts empty.                                               *)
LEMMA SchedulerStarts == SchedulerInit => SchedulerInv
<1> SUFFICES ASSUME SchedulerInit PROVE SchedulerInv
  OBVIOUS
<1>1. {scCounts, scRunning, scEnded} \subseteq [Schedules -> Nat]
  BY DEF SchedulerInit
<1>2. /\ scTask \in [Crons -> {"sleep", "gate", "fire", "grace", "ended"}]
      /\ scRequest \in [Requests -> [pc : {"none", "gate", "fire"}, schedule : Hooks]]
  BY DEF SchedulerInit
<1>3. scAborted \in [Crons -> BOOLEAN] /\ {scHandle, scShut} \subseteq BOOLEAN
  BY Zenon DEF SchedulerInit
<1>4. ASSUME NEW i \in Schedules
      PROVE  /\ scCounts[i] = Holding(i) + scRunning[i] + scEnded[i]
             /\ MaxConcurrent[i] # 0 => scCounts[i] <= MaxConcurrent[i]
  <2>1. Firing(i) = {}
    BY DEF SchedulerInit, Firing
  <2>2. Cardinality(Firing(i)) = 0
    BY <2>1, FS_EmptySet
  <2>3. TaskFires(i) = 0
    BY DEF SchedulerInit, TaskFires
  <2> QED
    BY <2>2, <2>3, SchedulerAssumption DEF SchedulerInit, Holding
<1> QED
  BY <1>1, <1>2, <1>3, <1>4 DEF SchedulerInv, SchedulerTypeOK, CountsExact

(* What the tracker's two updates do to the counts.                        *)
LEMMA TrackerFacts ==
    ASSUME SchedulerTypeOK, NEW i \in Schedules
    PROVE  /\ Acquire(i) => /\ scCounts' \in [Schedules -> Nat]
                            /\ scCounts'[i] = scCounts[i] + 1
                            /\ \A k \in Schedules : k # i => scCounts'[k] = scCounts[k]
           /\ Release(i) => /\ scCounts' \in [Schedules -> Nat]
                            /\ scCounts[i] > 0 => scCounts'[i] = scCounts[i] - 1
                            /\ scCounts'[i] <= scCounts[i]
                            /\ \A k \in Schedules : k # i => scCounts'[k] = scCounts[k]
BY TypeFacts DEF Acquire, Release

(* What a step of a cron task may do: move the task, take or give back a   *)
(* slot of its own schedule, add a run of it.                              *)
LEMMA CronMoves ==
    ASSUME NEW c, CronStep(c)
    PROVE  /\ CronUnchanged
           /\ scCounts' = scCounts \/ Acquire(c) \/ Release(c)
           /\ scRunning' = scRunning \/ scRunning' = [scRunning EXCEPT ![c] = @ + 1]
           /\ \E p \in {"sleep", "gate", "fire", "grace", "ended"} : scTask' = [scTask EXCEPT ![c] = p]
<1>1. ASSUME CronTick(c) \/ CronGrace(c) \/ CronEnds(c)
      PROVE  /\ CronUnchanged /\ scCounts' = scCounts /\ scRunning' = scRunning
             /\ \E p \in {"sleep", "gate", "fire", "grace", "ended"} : scTask' = [scTask EXCEPT ![c] = p]
  BY <1>1, ZenonT(60) DEF CronTick, CronGrace, CronEnds
<1>2. ASSUME CronGate(c)
      PROVE  /\ CronUnchanged /\ scRunning' = scRunning
             /\ scCounts' = scCounts \/ Acquire(c)
             /\ \E p \in {"sleep", "gate", "fire", "grace", "ended"} : scTask' = [scTask EXCEPT ![c] = p]
  BY <1>2, ZenonT(60) DEF CronGate
<1>3. ASSUME CronFire(c)
      PROVE  /\ CronUnchanged
             /\ scCounts' = scCounts \/ Release(c)
             /\ scRunning' = scRunning \/ scRunning' = [scRunning EXCEPT ![c] = @ + 1]
             /\ \E p \in {"sleep", "gate", "fire", "grace", "ended"} : scTask' = [scTask EXCEPT ![c] = p]
  BY <1>3, ZenonT(60) DEF CronFire
<1> QED
  BY <1>1, <1>2, <1>3, ZenonT(60) DEF CronStep

(* Every step of a cron task keeps the types.                              *)
LEMMA CronTypeStep ==
    ASSUME SchedulerTypeOK, NEW c \in Crons, CronStep(c)
    PROVE  SchedulerTypeOK'
<1>0. c \in Schedules
  BY DEF Schedules
<1>1. scTask' \in [Crons -> {"sleep", "gate", "fire", "grace", "ended"}]
  <2>1. PICK p \in {"sleep", "gate", "fire", "grace", "ended"} : scTask' = [scTask EXCEPT ![c] = p]
    BY CronMoves, ZenonT(60)
  <2> QED
    BY <2>1, TypeFacts, SMTT(60)
<1>2. scCounts' \in [Schedules -> Nat]
  <2>1. scCounts' = scCounts \/ Acquire(c) \/ Release(c)
    BY CronMoves, ZenonT(60)
  <2> QED
    BY <1>0, <2>1, TypeFacts, TrackerFacts, ZenonT(60)
<1>3. scRunning' \in [Schedules -> Nat]
  <2>1. scRunning' = scRunning \/ scRunning' = [scRunning EXCEPT ![c] = @ + 1]
    BY CronMoves, ZenonT(60)
  <2> QED
    BY <1>0, <2>1, TypeFacts, SMTT(60)
<1>4. CronUnchanged
  BY CronMoves, ZenonT(60)
<1> QED
  BY <1>1, <1>2, <1>3, <1>4 DEF CronUnchanged, SchedulerTypeOK

(* Every step of a webhook request keeps the types.                        *)
LEMMA HookTypeStep ==
    ASSUME SchedulerTypeOK, NEW r \in Requests,
           HookGate(r) \/ HookFire(r) \/ \E i \in Hooks : HookArrives(r, i)
    PROVE  SchedulerTypeOK'
<1>0. scRequest[r].schedule \in Schedules
  BY TypeFacts DEF Schedules
<1>1. scRequest' \in [Requests -> [pc : {"none", "gate", "fire"}, schedule : Hooks]]
  BY TypeFacts DEF HookGate, HookFire, HookArrives
<1>2. scCounts' \in [Schedules -> Nat]
  BY <1>0, TypeFacts, TrackerFacts DEF HookGate, HookFire, HookArrives
<1>3. scRunning' \in [Schedules -> Nat]
  BY <1>0, TypeFacts DEF HookGate, HookFire, HookArrives
<1>4. HookUnchanged
  BY DEF HookGate, HookFire, HookArrives
<1> QED
  BY <1>1, <1>2, <1>3, <1>4 DEF HookUnchanged, SchedulerTypeOK

(* Every step keeps the types.                                             *)
LEMMA SchedulerTypeStep ==
    ASSUME SchedulerTypeOK, [SchedulerNext]_scVars
    PROVE  SchedulerTypeOK'
<1>1. ASSUME NEW i \in Schedules, RunEnds(i) PROVE SchedulerTypeOK'
  <2>1. scRunning' \in [Schedules -> Nat] /\ scEnded' \in [Schedules -> Nat]
    BY <1>1, TypeFacts DEF RunEnds
  <2> QED
    BY <1>1, <2>1 DEF RunEnds, SchedulerTypeOK
<1>2. ASSUME NEW i \in Schedules, MarkTerminal(i) PROVE SchedulerTypeOK'
  <2>1. scCounts' \in [Schedules -> Nat] /\ scEnded' \in [Schedules -> Nat]
    BY <1>2, TypeFacts, TrackerFacts DEF MarkTerminal
  <2> QED
    BY <1>2, <2>1 DEF MarkTerminal, SchedulerTypeOK
<1>3. CASE SchedulerShutdown
  <2>1. scTask' \in [Crons -> {"sleep", "gate", "fire", "grace", "ended"}]
    BY <1>3, TypeFacts DEF SchedulerShutdown
  <2>2. scAborted' \in [Crons -> BOOLEAN]
    BY <1>3 DEF SchedulerShutdown
  <2> QED
    BY <1>3, <2>1, <2>2 DEF SchedulerShutdown, SchedulerTypeOK
<1>4. CASE DropHandle
  BY <1>4, Zenon DEF DropHandle, SchedulerTypeOK
<1>5. CASE UNCHANGED scVars
  BY <1>5 DEF scVars, SchedulerTypeOK
<1> QED
  BY <1>1, <1>2, <1>3, <1>4, <1>5, CronTypeStep, HookTypeStep, SMTT(60) DEF SchedulerNext

(* The statement of CountsExact for one schedule.                          *)
Exact(i) ==
    /\ scCounts[i] = Cardinality(Firing(i)) + TaskFires(i) + scRunning[i] + scEnded[i]
    /\ MaxConcurrent[i] # 0 => scCounts[i] <= MaxConcurrent[i]

(* CountsExact is that statement for every schedule.                       *)
LEMMA ExactIsCounts == CountsExact <=> \A i \in Schedules : Exact(i)
BY SMTT(60) DEF CountsExact, Exact, Holding

(* A step that leaves the numbers of a schedule alone leaves it exact.     *)
LEMMA ExactSame ==
    ASSUME NEW i \in Schedules, Exact(i), scCounts'[i] = scCounts[i],
           Cardinality(Firing(i)') = Cardinality(Firing(i)), TaskFires(i)' = TaskFires(i),
           scRunning'[i] + scEnded'[i] = scRunning[i] + scEnded[i],
           SchedulerTypeOK, SchedulerTypeOK'
    PROVE  Exact(i)'
<1>1. /\ scCounts[i] \in Nat /\ scRunning[i] \in Nat /\ scEnded[i] \in Nat
      /\ scRunning'[i] \in Nat /\ scEnded'[i] \in Nat
  BY DEF SchedulerTypeOK
<1>2. Cardinality(Firing(i)) \in Nat /\ TaskFires(i) \in {0, 1}
  BY FiringFinite, TaskFiresType, SMTT(60)
<1> QED
  BY <1>1, <1>2 DEF Exact

(* The numbers of one schedule, before and after a step.                   *)
LEMMA Numbers ==
    ASSUME SchedulerTypeOK, SchedulerTypeOK', NEW i \in Schedules
    PROVE  /\ scCounts[i] \in Nat /\ scRunning[i] \in Nat /\ scEnded[i] \in Nat
           /\ scCounts'[i] \in Nat /\ scRunning'[i] \in Nat /\ scEnded'[i] \in Nat
           /\ Cardinality(Firing(i)) \in Nat /\ TaskFires(i) \in {0, 1}
           /\ MaxConcurrent[i] \in Nat
BY FiringFinite, TaskFiresType, SchedulerAssumption DEF SchedulerTypeOK

(* Cron tasks: a slot is taken at the gate, and passes to the run the sink *)
(* accepted or goes back.                                                  *)
LEMMA CronExact ==
    ASSUME SchedulerTypeOK, SchedulerTypeOK', NEW c \in Crons, CronStep(c),
           NEW i \in Schedules, Exact(i)
    PROVE  Exact(i)'
<1>0. c \in Schedules
  BY SMTT(60) DEF Schedules
<1>1. Firing(i)' = Firing(i) /\ scEnded' = scEnded
  <2>1. scRequest' = scRequest /\ scEnded' = scEnded
    BY CronMoves, ZenonT(60) DEF CronUnchanged
  <2> QED
    BY <2>1, FiringSame, ZenonT(60)
<1>2. i # c => TaskFires(i)' = TaskFires(i)
  <2>1. PICK p \in {"sleep", "gate", "fire", "grace", "ended"} : scTask' = [scTask EXCEPT ![c] = p]
    BY CronMoves, ZenonT(60)
  <2>2. i # c /\ i \in Crons => scTask'[i] = scTask[i]
    BY <2>1, TypeFacts, SMTT(60)
  <2> QED
    BY <2>2, ZenonT(60) DEF TaskFires
<1>3. CASE i # c
  <2>1. scCounts'[i] = scCounts[i]
    <3>1. scCounts' = scCounts \/ Acquire(c) \/ Release(c)
      BY CronMoves, ZenonT(60)
    <3> QED
      BY <1>0, <1>3, <3>1, TrackerFacts, ZenonT(60)
  <2>2. scRunning'[i] = scRunning[i]
    <3>1. scRunning' = scRunning \/ scRunning' = [scRunning EXCEPT ![c] = @ + 1]
      BY CronMoves, ZenonT(60)
    <3> QED
      BY <1>0, <1>3, <3>1, TypeFacts, SMTT(60)
  <2>3. scRunning'[i] + scEnded'[i] = scRunning[i] + scEnded[i]
    BY <1>1, <2>2, ZenonT(60)
  <2>4. Cardinality(Firing(i)') = Cardinality(Firing(i))
    BY <1>1, ZenonT(60)
  <2> QED
    BY <1>2, <1>3, <2>1, <2>3, <2>4, ExactSame, ZenonT(60)
<1>4. ASSUME CronTick(c) \/ CronGrace(c) \/ CronEnds(c), i = c PROVE Exact(i)'
  <2>1. scCounts' = scCounts /\ scRunning' = scRunning
    BY <1>4 DEF CronTick, CronGrace, CronEnds
  <2>2. TaskFires(i)' = TaskFires(i)
    BY <1>4, TypeFacts DEF CronTick, CronGrace, CronEnds, TaskFires
  <2> QED
    BY <1>1, <2>1, <2>2, ExactSame, SMTT(60)
<1>5. ASSUME CronGate(c), i = c PROVE Exact(i)'
  <2>1. TaskFires(i) = 0 /\ scRunning' = scRunning
    BY <1>5, SMTT(60) DEF CronGate, TaskFires
  <2>2. CASE MayAcquire(c)
    <3>1. TaskFires(i)' = 1
      BY <1>5, <2>2, TypeFacts DEF CronGate, TaskFires
    <3>2. scCounts'[i] = scCounts[i] + 1
      BY <1>0, <1>5, <2>2, TrackerFacts DEF CronGate
    <3>3. MaxConcurrent[i] # 0 => scCounts[i] < MaxConcurrent[i]
      BY <1>5, <2>2, SMTT(60) DEF MayAcquire
    <3> QED
      BY <1>1, <2>1, <3>1, <3>2, <3>3, Numbers, SMTT(60) DEF Exact
  <2>3. CASE ~MayAcquire(c)
    <3>1. TaskFires(i)' = 0 /\ scCounts' = scCounts
      BY <1>5, <2>3, TypeFacts DEF CronGate, TaskFires
    <3> QED
      BY <1>1, <2>1, <3>1, ExactSame, SMTT(60)
  <2> QED
    BY <2>2, <2>3
<1>6. ASSUME CronFire(c), i = c PROVE Exact(i)'
  <2>1. TaskFires(i) = 1 /\ TaskFires(i)' = 0
    BY <1>6, TypeFacts, SMTT(60) DEF CronFire, TaskFires
  <2>2. CASE scRunning' = [scRunning EXCEPT ![c] = @ + 1] /\ scCounts' = scCounts
    <3>1. scRunning'[i] = scRunning[i] + 1
      BY <1>6, <2>2, TypeFacts, SMTT(60)
    <3> QED
      BY <1>1, <2>1, <2>2, <3>1, Numbers DEF Exact
  <2>3. CASE Release(c) /\ scRunning' = scRunning
    <3>1. scCounts[i] > 0
      BY <2>1, Numbers DEF Exact
    <3>2. scCounts'[i] = scCounts[i] - 1
      BY <1>0, <1>6, <2>3, <3>1, TrackerFacts
    <3> QED
      BY <1>1, <2>1, <2>3, <3>2, Numbers, SMTT(60) DEF Exact
  <2> QED
    BY <1>6, <2>2, <2>3, SMTT(60) DEF CronFire
<1> QED
  BY <1>3, <1>4, <1>5, <1>6 DEF CronStep

(* Webhook requests: the same, with the slot held by the request.          *)
LEMMA HookExact ==
    ASSUME SchedulerTypeOK, SchedulerTypeOK', NEW r \in Requests, NEW i \in Schedules, Exact(i),
           HookGate(r) \/ HookFire(r) \/ \E k \in Hooks : HookArrives(r, k)
    PROVE  Exact(i)'
<1> DEFINE s == scRequest[r].schedule
<1>0. s \in Schedules
  BY TypeFacts DEF Schedules
<1>1. TaskFires(i)' = TaskFires(i) /\ scEnded' = scEnded
  BY SMTT(60) DEF HookGate, HookFire, HookArrives, HookUnchanged, TaskFires
<1>2. ASSUME NEW k \in Hooks, HookArrives(r, k) PROVE Exact(i)'
  <2>1. Firing(i)' = Firing(i)
    BY <1>2, TypeFacts, FiringKept, SMTT(60) DEF HookArrives
  <2> QED
    BY <1>1, <1>2, <2>1, ExactSame, SMTT(60) DEF HookArrives
<1>3. ASSUME HookGate(r), MayAcquire(s) PROVE Exact(i)'
  <2>1. Cardinality(Firing(i)') = IF i = s THEN Cardinality(Firing(i)) + 1 ELSE Cardinality(Firing(i))
    BY <1>3, FiringAdds DEF HookGate
  <2>2. scRunning' = scRunning /\ scCounts'[i] = IF i = s THEN scCounts[i] + 1 ELSE scCounts[i]
    BY <1>0, <1>3, TrackerFacts, SMTT(60) DEF HookGate
  <2>3. MaxConcurrent[s] # 0 => scCounts[s] < MaxConcurrent[s]
    BY <1>3 DEF MayAcquire
  <2> QED
    BY <1>1, <2>1, <2>2, <2>3, Numbers DEF Exact
<1>4. ASSUME HookGate(r), ~MayAcquire(s) PROVE Exact(i)'
  <2>1. scRequest' = [scRequest EXCEPT ![r].pc = "none"] /\ scCounts' = scCounts /\ scRunning' = scRunning
    BY <1>4 DEF HookGate
  <2>2. Firing(i)' = Firing(i)
    BY <1>4, <2>1, TypeFacts, FiringKept DEF HookGate
  <2> QED
    BY <1>1, <2>1, <2>2, ExactSame
<1>5. ASSUME HookFire(r) PROVE Exact(i)'
  <2>1. Cardinality(Firing(i)') = IF i = s THEN Cardinality(Firing(i)) - 1 ELSE Cardinality(Firing(i))
    BY <1>5, FiringRemoves, Zenon DEF HookFire
  <2>2. i = s => Cardinality(Firing(i)) > 0
    <3>1. i = s => r \in Firing(i)
      BY <1>5, SMTT(60) DEF HookFire, Firing
    <3> QED
      BY <3>1, FiringFinite, FS_EmptySet
  <2>3. CASE scRunning' = [scRunning EXCEPT ![s] = @ + 1] /\ scCounts' = scCounts
    <3>1. scRunning'[i] = IF i = s THEN scRunning[i] + 1 ELSE scRunning[i]
      BY <1>0, <2>3, TypeFacts, SMTT(60)
    <3> QED
      BY <1>1, <2>1, <2>3, <3>1, Numbers, SMTT(60) DEF Exact
  <2>4. CASE Release(s) /\ scRunning' = scRunning
    <3>1. i = s => scCounts[i] > 0
      BY <2>2, Numbers, SMTT(60) DEF Exact
    <3>2. scCounts'[i] = IF i = s THEN scCounts[i] - 1 ELSE scCounts[i]
      BY <1>0, <2>4, <3>1, TrackerFacts
    <3> QED
      BY <1>1, <2>1, <2>4, <3>2, Numbers, SMTT(60) DEF Exact
  <2> QED
    BY <1>5, <2>3, <2>4 DEF HookFire
<1> QED
  BY <1>2, <1>3, <1>4, <1>5

(* A fire that is marked terminal takes one from the count and one from    *)
(* the ended fires: the sum and the limit survive.                         *)
LEMMA OneLess ==
    /\ \A f, r \in Nat : \A t \in {0, 1} : f + t + r \in Nat
    /\ \A c, s, e \in Nat : c = s + e => c - 1 = s + (e - 1)
    /\ \A c, m \in Nat : c <= m => c - 1 <= m
BY SMTT(60)

(* The host: a run that ends keeps its slot until it is marked terminal.   *)
LEMMA HostExact ==
    ASSUME SchedulerTypeOK, SchedulerTypeOK', NEW k \in Schedules, RunEnds(k) \/ MarkTerminal(k),
           NEW i \in Schedules, Exact(i)
    PROVE  Exact(i)'
<1>1. Firing(i)' = Firing(i) /\ TaskFires(i)' = TaskFires(i)
  BY FiringSame, SMTT(60) DEF RunEnds, MarkTerminal, TaskFires
<1>2. CASE RunEnds(k)
  <2>1. scCounts' = scCounts /\ scRunning'[i] + scEnded'[i] = scRunning[i] + scEnded[i]
    BY <1>2, TypeFacts, Numbers DEF RunEnds
  <2> QED
    BY <1>1, <2>1, ExactSame, SMTT(60)
<1>3. CASE MarkTerminal(k)
  <2>1. scRunning' = scRunning /\ scEnded'[i] = IF i = k THEN scEnded[i] - 1 ELSE scEnded[i]
    BY <1>3, TypeFacts, SMTT(60) DEF MarkTerminal
  <2>2. i = k => scCounts[i] > 0
    BY <1>3, Numbers, SMTT(60) DEF MarkTerminal, Exact
  <2>3. scCounts'[i] = IF i = k THEN scCounts[i] - 1 ELSE scCounts[i]
    BY <1>3, <2>2, TrackerFacts, SMTT(60) DEF MarkTerminal
  <2>4. CASE i = k
    <3>1. /\ scCounts'[i] = scCounts[i] - 1 /\ scEnded'[i] = scEnded[i] - 1
          /\ scRunning'[i] = scRunning[i]
      BY <2>1, <2>3, <2>4, Zenon
    <3>2. /\ scCounts[i] \in Nat /\ scRunning[i] \in Nat /\ scEnded[i] \in Nat
          /\ Cardinality(Firing(i)) \in Nat /\ TaskFires(i) \in {0, 1} /\ MaxConcurrent[i] \in Nat
      BY Numbers, ZenonT(60)
    <3>3. /\ scCounts[i] = Cardinality(Firing(i)) + TaskFires(i) + scRunning[i] + scEnded[i]
          /\ MaxConcurrent[i] # 0 => scCounts[i] <= MaxConcurrent[i]
      BY ZenonT(60) DEF Exact
    <3>4. Cardinality(Firing(i)) + TaskFires(i) + scRunning[i] \in Nat
      BY <3>2, OneLess, ZenonT(60)
    <3>5. scCounts[i] - 1 = Cardinality(Firing(i)) + TaskFires(i) + scRunning[i] + (scEnded[i] - 1)
      <4>1. scCounts[i] \in Nat /\ scEnded[i] \in Nat
        BY <3>2, ZenonT(60)
      <4>2. scCounts[i] = Cardinality(Firing(i)) + TaskFires(i) + scRunning[i] + scEnded[i]
        BY <3>3, ZenonT(60)
      <4>3. \A c, s, e \in Nat : c = s + e => c - 1 = s + (e - 1)
        BY OneLess, ZenonT(60)
      <4> QED
        BY <3>4, <4>1, <4>2, <4>3, ZenonT(60)
    <3>6. scCounts[i] <= MaxConcurrent[i] => scCounts[i] - 1 <= MaxConcurrent[i]
      BY <3>2, OneLess, ZenonT(60)
    <3>7. scCounts'[i] = Cardinality(Firing(i)) + TaskFires(i) + scRunning'[i] + scEnded'[i]
      BY <3>1, <3>5, ZenonT(60)
    <3>8. MaxConcurrent[i] # 0 => scCounts'[i] <= MaxConcurrent[i]
      BY <3>1, <3>3, <3>6, ZenonT(60)
    <3> QED
      BY <1>1, <3>7, <3>8, ZenonT(60) DEF Exact
  <2>5. CASE i # k
    <3>1. scCounts'[i] = scCounts[i] /\ scRunning'[i] + scEnded'[i] = scRunning[i] + scEnded[i]
      BY <2>1, <2>3, <2>5, Zenon
    <3>2. Cardinality(Firing(i)') = Cardinality(Firing(i))
      BY <1>1, Zenon
    <3> QED
      BY <1>1, <3>1, <3>2, ExactSame, ZenonT(60)
  <2> QED
    BY <2>4, <2>5, SMTT(60)
<1> QED
  BY <1>2, <1>3, SMTT(60)

(* Every step keeps the counts exact.                                      *)
LEMMA SchedulerStep ==
    ASSUME SchedulerInv, [SchedulerNext]_scVars
    PROVE  SchedulerInv'
<1>1. SchedulerTypeOK /\ SchedulerTypeOK'
  BY SchedulerTypeStep DEF SchedulerInv
<1>2. \A i \in Schedules : Exact(i)
  BY ExactIsCounts DEF SchedulerInv
<1>3. ASSUME NEW i \in Schedules PROVE Exact(i)'
  <2>1. CASE SchedulerShutdown
    <3>1. TaskFires(i)' = TaskFires(i)
      BY <1>1, <2>1, TypeFacts DEF SchedulerShutdown, TaskFires
    <3>2. Firing(i)' = Firing(i)
      BY <2>1, FiringSame, SMTT(60) DEF SchedulerShutdown
    <3> QED
      BY <1>1, <1>2, <2>1, <3>1, <3>2, ExactSame, SMTT(60) DEF SchedulerShutdown
  <2>2. CASE DropHandle \/ UNCHANGED scVars
    <3>1. Firing(i)' = Firing(i) /\ TaskFires(i)' = TaskFires(i)
      BY <2>2, FiringSame, SMTT(60) DEF DropHandle, scVars, TaskFires
    <3> QED
      BY <1>1, <1>2, <2>2, <3>1, ExactSame, SMTT(60) DEF DropHandle, scVars
  <2> QED
    BY <1>1, <1>2, <2>1, <2>2, CronExact, HookExact, HostExact, SMTT(60) DEF SchedulerNext
<1>4. CountsExact'
  BY <1>3 DEF CountsExact, Exact, Holding
<1> QED
  BY <1>1, <1>4 DEF SchedulerInv

(***************************************************************************)
(* For any schedules, limits and finitely many requests in parallel the    *)
(* tracker's count of a schedule is exactly the fires that are being made, *)
(* run, or ended and not yet marked, and within max_concurrent: no order   *)
(* of ticks, requests, refusals, marks, shutdown and drop leaks a slot or  *)
(* gives one twice (ConcurrencyTracker, service.rs).                       *)
(***************************************************************************)
THEOREM SlotsAreExact == SchedulerSpec => []CountsExact
<1>1. SchedulerInv /\ [SchedulerNext]_scVars => SchedulerInv'
  BY SchedulerStep
<1>2. SchedulerInv => CountsExact
  BY DEF SchedulerInv
<1> QED
  BY SchedulerStarts, <1>1, <1>2, PTL DEF SchedulerSpec
=============================================================================
