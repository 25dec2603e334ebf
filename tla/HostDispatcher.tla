--------------------------- MODULE HostDispatcher ---------------------------
(***************************************************************************)
(* The queue that carries tool calls onto a DCC's main thread              *)
(* (dcc-mcp-host/src/lib.rs): server threads post jobs, the main thread    *)
(* drains and runs them, any thread may shut the dispatcher down.  The     *)
(* shared counters are separate atomics, so each access is a step.         *)
(*                                                                         *)
(* The main thread is driven by HostAdapter                                *)
(* (python/dcc_mcp_core/host/_adapter.py), which stops ticking once it     *)
(* sees the dispatcher shut down.                                          *)
(*                                                                         *)
(* pending is a usize: a negative number n stands for the wrapped value    *)
(* 2^64 + n, which is larger than every capacity.  Left out: the lifetime  *)
(* totals and the wait-time percentiles, which nothing reads back.         *)
(***************************************************************************)
EXTENDS Integers, Sequences, FiniteSets

CONSTANTS
    Jobs,       \* the jobs posted, each once
    Posters,    \* threads that post
    NoJob,      \* a poster between two posts
    Capacity,   \* 0 is unbounded
    MaxJobs     \* the max_jobs of tick

ASSUME CapacityAssumption == Capacity \in Nat
ASSUME MaxJobsAssumption == MaxJobs \in Nat \ {0}
ASSUME PostersAssumption == IsFiniteSet(Posters)
ASSUME NoJobAssumption == NoJob \notin Jobs

VARIABLES
    shutdown,   \* the shutdown flag
    queue,      \* the mpsc channel
    pending,    \* the depth counter
    times,      \* submit_times: whose submission each entry dates
    poster,     \* where each poster is, and with which job
    drain,      \* the main thread: its step and its batch
    closer,     \* the thread that runs shutdown()
    answer      \* what the poster of each job was told

vars == <<shutdown, queue, pending, times, poster, drain, closer, answer>>

Answers == {"ran", "panic", "shutdown", "overloaded"}

(* flagged: shutdown was clear; admitted: capacity was left; sent: in the  *)
(* channel, not counted; counted: not in submit_times yet.                 *)
PosterPCs == {"flagged", "admitted", "sent", "counted"}

TypeOK ==
    /\ shutdown \in BOOLEAN
    /\ queue \in Seq(Jobs)
    /\ pending \in Int
    /\ times \in Seq(Jobs)
    /\ poster \in [Posters -> [pc : {"idle"}, job : {NoJob}]
                              \cup [pc : PosterPCs, job : Jobs]]
    /\ drain \in [pc : {"idle", "enter", "await", "recv", "peek", "sub", "run"},
                  batch : Seq(Jobs)]
    /\ closer \in {"idle", "lock", "cancel", "done"}
    /\ answer \in [Jobs -> {"none", "posted"} \cup Answers]

AtRest == [pc |-> "idle", job |-> NoJob]

Init ==
    /\ shutdown = FALSE
    /\ queue = <<>>
    /\ pending = 0
    /\ times = <<>>
    /\ poster = [p \in Posters |-> AtRest]
    /\ drain = [pc |-> "idle", batch |-> <<>>]
    /\ closer = "idle"
    /\ answer = [j \in Jobs |-> "none"]

Draining == {"recv", "peek", "sub"}

Locked == drain.pc \in {"await"} \cup Draining \/ closer = "cancel"

-----------------------------------------------------------------------------
(* post and enqueue.  A rejected job is answered at once.                  *)
At(p, pc) == poster[p].pc = pc

Move(p, pc) == poster' = [poster EXCEPT ![p].pc = pc]

Reject(p, j, why) ==
    /\ answer' = [answer EXCEPT ![j] = why]
    /\ poster' = [poster EXCEPT ![p] = AtRest]

Post(p, j) ==
    /\ At(p, "idle")
    /\ answer[j] = "none"
    /\ IF shutdown THEN Reject(p, j, "shutdown")
       ELSE /\ poster' = [poster EXCEPT ![p] = [pc |-> "flagged", job |-> j]]
            /\ answer' = [answer EXCEPT ![j] = "posted"]
    /\ UNCHANGED <<shutdown, queue, pending, times, drain, closer>>

(* Faulty: one too many.                                                   *)
FullOffByOne == Capacity > 0 /\ (pending < 0 \/ pending > Capacity)

(* pending.load() >= capacity, on the wrapped value.                       *)
Full == Capacity > 0 /\ (pending < 0 \/ pending >= Capacity)

CheckCapacity(p) ==
    /\ At(p, "flagged")
    /\ IF Full THEN Reject(p, poster[p].job, "overloaded")
       ELSE Move(p, "admitted") /\ UNCHANGED answer
    /\ UNCHANGED <<shutdown, queue, pending, times, drain, closer>>

Send(p) ==
    /\ At(p, "admitted")
    /\ queue' = Append(queue, poster[p].job)
    /\ Move(p, "sent")
    /\ UNCHANGED <<shutdown, pending, times, drain, closer, answer>>

Count(p) ==
    /\ At(p, "sent")
    /\ pending' = pending + 1
    /\ Move(p, "counted")
    /\ UNCHANGED <<shutdown, queue, times, drain, closer, answer>>

PushTime(p) ==
    /\ At(p, "counted")
    /\ times' = Append(times, poster[p].job)
    /\ poster' = [poster EXCEPT ![p] = AtRest]
    /\ UNCHANGED <<shutdown, queue, pending, drain, closer, answer>>

-----------------------------------------------------------------------------
(* The main thread.  The adapter looks at the flag, then ticks.            *)
HostTick ==
    /\ drain.pc = "idle"
    /\ ~shutdown
    /\ drain' = [drain EXCEPT !.pc = "enter"]
    /\ UNCHANGED <<shutdown, queue, pending, times, poster, closer, answer>>

(* tick: try_lock, and an empty batch if the lock is taken.                *)
Tick ==
    /\ drain.pc = "enter"
    /\ drain' = [drain EXCEPT !.pc = IF Locked THEN "run" ELSE "recv"]
    /\ UNCHANGED <<shutdown, queue, pending, times, poster, closer, answer>>

(* tick_blocking, when pending was zero: waits for the first job with the  *)
(* lock held.                                                              *)
TickBlocking ==
    /\ drain.pc = "enter"
    /\ pending = 0
    /\ ~Locked
    /\ drain' = [drain EXCEPT !.pc = "await"]
    /\ UNCHANGED <<shutdown, queue, pending, times, poster, closer, answer>>

PopTime == times' = IF times = <<>> THEN times ELSE Tail(times)

(* recv or try_recv, and observe_dequeue.                                  *)
Receive(next) ==
    /\ queue # <<>>
    /\ queue' = Tail(queue)
    /\ PopTime
    /\ drain' = [pc |-> next, batch |-> Append(drain.batch, Head(queue))]
    /\ UNCHANGED <<shutdown, pending, poster, closer, answer>>

AwaitFirst == drain.pc = "await" /\ Receive("recv")

AwaitTimeout ==
    /\ drain.pc = "await"
    /\ drain' = [drain EXCEPT !.pc = "idle"]
    /\ UNCHANGED <<shutdown, queue, pending, times, poster, closer, answer>>

(* The loop over max_jobs.                                                 *)
DrainOne ==
    /\ drain.pc = "recv"
    /\ Len(drain.batch) < MaxJobs
    /\ Receive("recv")

DrainStops ==
    /\ drain.pc = "recv"
    /\ queue = <<>> \/ Len(drain.batch) >= MaxJobs
    /\ drain' = [drain EXCEPT !.pc = "peek"]
    /\ UNCHANGED <<shutdown, queue, pending, times, poster, closer, answer>>

(* The look-ahead for more_pending takes a job of its own.                 *)
Peek ==
    /\ drain.pc = "peek"
    /\ \/ Receive("sub")
       \/ /\ queue = <<>>
          /\ drain' = [drain EXCEPT !.pc = "sub"]
          /\ UNCHANGED <<shutdown, queue, pending, times, poster, closer, answer>>

(* Faulty: the job taken to look ahead is not subtracted.                  *)
DrainDoneForgetsPeek ==
    /\ drain.pc = "sub"
    /\ pending' = pending - (IF Len(drain.batch) > MaxJobs THEN MaxJobs
                             ELSE Len(drain.batch))
    /\ drain' = [drain EXCEPT !.pc = "run"]
    /\ UNCHANGED <<shutdown, queue, times, poster, closer, answer>>

(* One fetch_sub for the whole batch, and the lock is dropped.             *)
DrainDone ==
    /\ drain.pc = "sub"
    /\ pending' = pending - Len(drain.batch)
    /\ drain' = [drain EXCEPT !.pc = "run"]
    /\ UNCHANGED <<shutdown, queue, times, poster, closer, answer>>

(* Faulty: a panic unwinds past the result channel.                        *)
RunOneUncaught(outcome) ==
    /\ drain.pc = "run"
    /\ drain.batch # <<>>
    /\ answer' = IF outcome = "panic" THEN answer
                 ELSE [answer EXCEPT ![Head(drain.batch)] = outcome]
    /\ drain' = [drain EXCEPT !.batch = Tail(drain.batch)]
    /\ UNCHANGED <<shutdown, queue, pending, times, poster, closer>>

(* Runnable::run: a panic is caught and reported.                          *)
RunOne(outcome) ==
    /\ drain.pc = "run"
    /\ drain.batch # <<>>
    /\ answer' = [answer EXCEPT ![Head(drain.batch)] = outcome]
    /\ drain' = [drain EXCEPT !.batch = Tail(drain.batch)]
    /\ UNCHANGED <<shutdown, queue, pending, times, poster, closer>>

TickReturns ==
    /\ drain.pc = "run"
    /\ drain.batch = <<>>
    /\ drain' = [drain EXCEPT !.pc = "idle"]
    /\ UNCHANGED <<shutdown, queue, pending, times, poster, closer, answer>>

-----------------------------------------------------------------------------
(* shutdown: the flag, then up to 1000 tries for the lock.                 *)
Shutdown ==
    /\ closer = "idle"
    /\ shutdown' = TRUE
    /\ closer' = "lock"
    /\ UNCHANGED <<queue, pending, times, poster, drain, answer>>

ShutdownLock ==
    /\ closer = "lock"
    /\ ~Locked
    /\ closer' = "cancel"
    /\ UNCHANGED <<shutdown, queue, pending, times, poster, drain, answer>>

ShutdownGivesUp ==
    /\ closer = "lock"
    /\ Locked
    /\ closer' = "done"
    /\ UNCHANGED <<shutdown, queue, pending, times, poster, drain, answer>>

CancelOne ==
    /\ closer = "cancel"
    /\ queue # <<>>
    /\ queue' = Tail(queue)
    /\ answer' = [answer EXCEPT ![Head(queue)] = "shutdown"]
    /\ pending' = pending - 1
    /\ UNCHANGED <<shutdown, times, poster, drain, closer>>

ShutdownDone ==
    /\ closer = "cancel"
    /\ queue = <<>>
    /\ times' = <<>>
    /\ closer' = "done"
    /\ UNCHANGED <<shutdown, queue, pending, poster, drain, answer>>

-----------------------------------------------------------------------------
Enqueue(p) == CheckCapacity(p) \/ Send(p) \/ Count(p) \/ PushTime(p)

Ticking ==
    \/ Tick
    \/ AwaitFirst
    \/ DrainOne
    \/ DrainStops
    \/ Peek
    \/ DrainDone
    \/ \E outcome \in {"ran", "panic"} : RunOne(outcome)
    \/ TickReturns

Closing == ShutdownLock \/ CancelOne \/ ShutdownDone

Next ==
    \/ \E p \in Posters : (\E j \in Jobs : Post(p, j)) \/ Enqueue(p)
    \/ HostTick \/ TickBlocking \/ AwaitTimeout \/ Ticking
    \/ Shutdown \/ ShutdownGivesUp \/ Closing

Spec == Init /\ [][Next]_vars

(***************************************************************************)
(* Every thread is scheduled and the DCC keeps firing its idle callback.   *)
(* Nobody has to post or to shut down.                                     *)
(***************************************************************************)
Fairness ==
    /\ \A p \in Posters : WF_vars(Enqueue(p))
    /\ WF_vars(HostTick)
    /\ WF_vars(AwaitTimeout)
    /\ WF_vars(Ticking)
    /\ WF_vars(Closing \/ ShutdownGivesUp)

FairSpec == Spec /\ Fairness

-----------------------------------------------------------------------------
Uncounted == {p \in Posters : poster[p].pc = "sent"}

Unsubtracted == IF drain.pc \in Draining THEN Len(drain.batch) ELSE 0

(***************************************************************************)
(* The depth counter drifts only by what is in transit: posts sent and not *)
(* yet counted make it smaller (and may wrap it below zero), jobs received *)
(* and not yet subtracted make it larger.  With nobody in transit it is    *)
(* the depth of the queue, through every shutdown and overlap of posts and *)
(* drains (enqueue, drain_ready, drain_awaiting, shutdown).                *)
(***************************************************************************)
PendingAccounts ==
    pending = Len(queue) + Unsubtracted - Cardinality(Uncounted)

(***************************************************************************)
(* "slightly over cap on a burst" (enqueue): a bounded queue never holds   *)
(* more than the capacity plus one job for every other poster that raced   *)
(* the check.                                                              *)
(***************************************************************************)
DepthBound ==
    Capacity > 0 => Len(queue) <= Capacity + Cardinality(Posters) - 1

(***************************************************************************)
(* Every job is in one place: still with its poster, in the channel, in    *)
(* the main thread's batch, or answered; so it runs at most once and its   *)
(* caller hears one outcome (Runnable::run, cancel, cancel_with_error).    *)
(***************************************************************************)
Places(j) ==
    {<<"poster", p>> : p \in {q \in Posters :
        poster[q].job = j /\ poster[q].pc \in {"flagged", "admitted"}}}
    \cup {<<"queue", i>> : i \in {k \in 1..Len(queue) : queue[k] = j}}
    \cup {<<"batch", i>> : i \in {k \in 1..Len(drain.batch) : drain.batch[k] = j}}

OnePlace ==
    \A j \in Jobs :
        Cardinality(Places(j)) = IF answer[j] = "posted" THEN 1 ELSE 0

(***************************************************************************)
(* Every post is answered as long as the dispatcher is not shut down: by   *)
(* the job's outcome or by QueueOverloaded.                                *)
(***************************************************************************)
PostsAnswered ==
    \A j \in Jobs : answer[j] = "posted" ~> answer[j] # "posted" \/ shutdown

(***************************************************************************)
(* "Drain and cancel everything still queued so posters don't block        *)
(* indefinitely awaiting their result channels" (shutdown): once shutdown  *)
(* has returned and nobody is inside the dispatcher, every post has an     *)
(* answer.                                                                 *)
(***************************************************************************)
NobodyInside ==
    drain.pc = "idle" /\ \A p \in Posters : At(p, "idle")

ShutdownAnswersAll ==
    closer = "done" /\ NobodyInside => \A j \in Jobs : answer[j] # "posted"

(***************************************************************************)
(* "The dispatcher's queue was full" (DispatchError::QueueOverloaded): a   *)
(* post is turned away only while that many jobs are queued or being       *)
(* drained.                                                                *)
(***************************************************************************)
OverloadedMeansFull ==
    [][\A j \in Jobs :
          answer[j] # "overloaded" /\ answer'[j] = "overloaded"
            => Len(queue) + Unsubtracted >= Capacity]_vars

=============================================================================
