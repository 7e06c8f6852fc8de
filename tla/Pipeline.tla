------------------------------ MODULE Pipeline ------------------------------
(***************************************************************************)
(* The background pipeline inside one process (internal/infra/pipeline and *)
(* internal/app): the poll stage that fetches jobs into a buffered         *)
(* channel, the handle stage whose workers share a read-write lock, the    *)
(* fix stage, the trigger pulled by uploads, and how they stop: on a       *)
(* signal, on a worker's error, or by a crash; after that the process is   *)
(* started again.  What handling a job does to orders and balances is      *)
(* module Gophermart; here a handler just succeeds, fails or is told to    *)
(* retry later.  Times are left out: a timer may fire at any moment.       *)
(***************************************************************************)
EXTENDS Integers, FiniteSets, Sequences

CONSTANTS
    Jobs,               \* the jobs uploads will enqueue
    Workers,            \* the workers of the handle stage
    BufferSize,         \* of the channel, and the most jobs one fetch takes
    ConfigTimeout,      \* the configured shutdown timeout, in ticks
    MaxStops,           \* how many times the process stops
    MaxOvertakes,       \* how many times a lease runs out while its job is held
    None                \* no job

ASSUME ConstantsAssumption ==
    /\ IsFiniteSet(Jobs) /\ IsFiniteSet(Workers)
    /\ BufferSize \in Nat \ {0}
    /\ ConfigTimeout \in Nat
    /\ MaxStops \in Nat
    /\ MaxOvertakes \in Nat
    /\ None \notin Jobs

VARIABLES
    rows,       \* job -> its row: inserted but not committed ("pending"), to be
                \* fetched ("scheduled"), fetched ("taken"), or closed for good
    trigger,    \* a token is in triggerCh
    poll,       \* where the poll stage is, and the fetched jobs it has to send
    queue,      \* the channel from the poll to the handle stage
    wrk,        \* worker -> where it is, and its job
    fix,        \* the fix stage runs
    inner,      \* the workers' context is cancelled
    outer,      \* the stages' context is cancelled
    app,        \* the life of the process
    waited,     \* ticks Pipeline.Shutdown has waited
    stops,      \* stops so far
    overtakes   \* leases that ran out so far while their job was held

table == <<rows, overtakes>>
contexts == <<inner, outer>>
process == <<app, waited, stops>>
vars == <<rows, trigger, poll, queue, wrk, fix, inner, outer, app, waited, stops, overtakes>>

PollState == [pc : {"fetch", "send", "wait", "stopped"}, batch : SUBSET Jobs]

WorkerState ==
    [pc   : {"recv", "lock", "handle", "trylock", "count", "pause", "again", "give up",
             "fail", "stopped"},
     job  : Jobs \cup {None}]

TypeOK ==
    /\ rows \in [Jobs -> {"none", "pending", "scheduled", "taken", "closed", "failed"}]
    /\ trigger \in BOOLEAN
    /\ poll \in PollState
    /\ queue \in Seq(Jobs) /\ Len(queue) <= BufferSize
    /\ wrk \in [Workers -> WorkerState]
    /\ fix \in BOOLEAN
    /\ inner \in BOOLEAN /\ outer \in BOOLEAN
    /\ app \in {"running", "draining", "stopping", "down"}
    /\ waited \in 0..ConfigTimeout
    /\ stops \in 0..MaxStops
    /\ overtakes \in 0..MaxOvertakes

NewWorker  == [pc |-> "recv", job |-> None]
DeadWorker == [pc |-> "stopped", job |-> None]

Init ==
    /\ rows = [j \in Jobs |-> "none"]
    /\ trigger = FALSE
    /\ poll = [pc |-> "fetch", batch |-> {}]
    /\ queue = <<>>
    /\ wrk = [w \in Workers |-> NewWorker]
    /\ fix = TRUE
    /\ inner = FALSE /\ outer = FALSE
    /\ app = "running"
    /\ waited = 0 /\ stops = 0 /\ overtakes = 0
-----------------------------------------------------------------------------
(* JobQueue.Enqueue, in the transaction of an upload.                      *)

\* The job is inserted and the trigger pulled, before the row is committed;
\* an upload accepted before a signal may still get here after it.
Enqueue(j) ==
    /\ app # "down"
    /\ rows[j] = "none"
    /\ rows' = [rows EXCEPT ![j] = "pending"]
    /\ trigger' = TRUE
    /\ UNCHANGED <<poll, queue, wrk, fix, contexts, process, overtakes>>

CommitUpload(j) ==
    /\ rows[j] = "pending"
    /\ rows' = [rows EXCEPT ![j] = "scheduled"]
    /\ UNCHANGED <<trigger, poll, queue, wrk, fix, contexts, process, overtakes>>

RollBackUpload(j) ==
    /\ rows[j] = "pending"
    /\ rows' = [rows EXCEPT ![j] = "none"]
    /\ UNCHANGED <<trigger, poll, queue, wrk, fix, contexts, process, overtakes>>
-----------------------------------------------------------------------------
(* PollStage.Run.                                                          *)

Scheduled == {j \in Jobs : rows[j] = "scheduled"}

\* The sets of jobs one fetch may take: as many as there are, up to LIMIT.
Takeable ==
    {S \in SUBSET Scheduled :
        /\ Cardinality(S) <= BufferSize
        /\ Cardinality(S) = BufferSize \/ S = Scheduled}

\* The poll stage is back at the head of its loop.
LoopHead == IF outer THEN "stopped" ELSE "fetch"

\* The head of the loop was passed: GetUpdate ignores a later cancellation.
TakenUnmarked(S) == rows
Taken(S) == [j \in Jobs |-> IF j \in S THEN "taken" ELSE rows[j]]

Fetch(S) ==
    /\ poll.pc = "fetch"
    /\ S \in Takeable \ {{}}
    /\ rows' = Taken(S)
    /\ poll' = [pc |-> "send", batch |-> S]
    /\ UNCHANGED <<trigger, queue, wrk, fix, contexts, process, overtakes>>

\* No job is scheduled, or the statement fails: wait.
FetchNothing ==
    /\ poll.pc = "fetch"
    /\ poll' = [poll EXCEPT !.pc = "wait"]
    /\ UNCHANGED <<table, trigger, queue, wrk, fix, contexts, process>>

\* The jobs left to send once j was taken by the channel.
RestForgotten(j) == {}
Rest(j) == poll.batch \ {j}

CapacityOneMore == BufferSize + 1
Capacity == BufferSize

Send(j) ==
    /\ poll.pc = "send" /\ j \in poll.batch
    /\ Len(queue) < Capacity
    /\ queue' = Append(queue, j)
    /\ poll' = [pc |-> IF Rest(j) = {} THEN LoopHead ELSE "send", batch |-> Rest(j)]
    /\ UNCHANGED <<table, trigger, wrk, fix, contexts, process>>

WakesByTrigger == trigger
Wakes == TRUE   \* by the trigger or by the timer

\* The wait is over; a token that was there may have been taken or not.
Wake ==
    /\ poll.pc = "wait"
    /\ Wakes
    /\ trigger' \in {trigger, FALSE}
    /\ poll' = [poll EXCEPT !.pc = LoopHead]
    /\ UNCHANGED <<table, queue, wrk, fix, contexts, process>>

\* The stage sees the cancellation where it waits: for time or for room.
StopsInWait == poll.pc = "wait"
StopsIn == poll.pc \in {"send", "wait"}

StopPoll ==
    /\ outer /\ StopsIn
    /\ poll' = [pc |-> "stopped", batch |-> {}]
    /\ UNCHANGED <<table, trigger, queue, wrk, fix, contexts, process>>
-----------------------------------------------------------------------------
(* HandleStage: worker, retry, withRLock and withTryLock.                  *)

At(pcs) == {w \in Workers : wrk[w].pc \in pcs}

\* A worker is done with its job: the head of its loop checks the context.
FreeWorker == IF inner THEN DeadWorker ELSE NewWorker

\* The mutex inside sync.RWMutex: TryLock takes it before it looks at the
\* number of readers, and it is given back last, by Unlock and by a TryLock
\* that found readers.
InnerHeld == At({"count", "pause", "again", "give up"}) # {}

\* Nobody reads; the workers that wait in RLock are not counted.
NoReader == At({"handle"}) = {}

\* Nobody has the write lock.
NoWriter == At({"pause"}) = {}

Goes(w, pc) == wrk' = [wrk EXCEPT ![w].pc = pc]

Receive(w) ==
    /\ wrk[w].pc = "recv"
    /\ queue # <<>>
    /\ wrk' = [wrk EXCEPT ![w] = [pc |-> "lock", job |-> Head(queue)]]
    /\ queue' = Tail(queue)
    /\ UNCHANGED <<table, trigger, poll, fix, contexts, process>>

\* The select of a free worker sees the cancellation (or the closed channel,
\* which is closed only then).
StopWorker(w) ==
    /\ wrk[w].pc = "recv"
    /\ inner
    /\ wrk' = [wrk EXCEPT ![w] = DeadWorker]
    /\ UNCHANGED <<table, trigger, poll, queue, fix, contexts, process>>

\* RLock, and the handler begins; under a cancelled context it fails at once.
RLockForgotten(w) ==
    /\ wrk[w].pc = "lock"
    /\ Goes(w, IF inner THEN "fail" ELSE "handle")
    /\ UNCHANGED <<table, trigger, poll, queue, fix, contexts, process>>
RLock(w) ==
    /\ wrk[w].pc = "lock"
    /\ NoWriter
    /\ Goes(w, IF inner THEN "fail" ELSE "handle")
    /\ UNCHANGED <<table, trigger, poll, queue, fix, contexts, process>>

\* Handle saves the job: closed, or scheduled for another attempt.
Handle(w, status) ==
    /\ wrk[w].pc = "handle"
    /\ status \in {"closed", "scheduled"}
    /\ rows' = [rows EXCEPT ![wrk[w].job] = status]
    /\ wrk' = [wrk EXCEPT ![w] = FreeWorker]
    /\ UNCHANGED <<trigger, poll, queue, fix, contexts, process, overtakes>>

\* Handle returns an error, which is a transient one for 429.
HandleErr(w) ==
    /\ wrk[w].pc = "handle"
    /\ Goes(w, "fail")
    /\ UNCHANGED <<table, trigger, poll, queue, fix, contexts, process>>

TooManyRequests(w) ==
    /\ wrk[w].pc = "handle"
    /\ Goes(w, "trylock")
    /\ UNCHANGED <<table, trigger, poll, queue, fix, contexts, process>>

\* TryLock takes the inner mutex; where another worker has it, also one that
\* will not get the lock either, it fails, and the worker does not wait.
TryLock(w) ==
    /\ wrk[w].pc = "trylock"
    /\ Goes(w, IF InnerHeld THEN "lock" ELSE "count")
    /\ UNCHANGED <<table, trigger, poll, queue, fix, contexts, process>>

\* Then it looks at the number of readers: with a reader it fails as well.
CountReaders(w) ==
    /\ wrk[w].pc = "count"
    /\ Goes(w, IF NoReader THEN "pause" ELSE "again")
    /\ UNCHANGED <<table, trigger, poll, queue, fix, contexts, process>>

\* The worker with the write lock has waited for RetryAfter; Unlock lets the
\* readers in.
Resume(w) ==
    /\ wrk[w].pc = "pause"
    /\ Goes(w, "again")
    /\ UNCHANGED <<table, trigger, poll, queue, fix, contexts, process>>

\* Or it is cancelled, and that is the error of its job.
PauseCancelled(w) ==
    /\ wrk[w].pc = "pause"
    /\ inner
    /\ Goes(w, "give up")
    /\ UNCHANGED <<table, trigger, poll, queue, fix, contexts, process>>

\* The inner mutex is given back; the worker asks again, or fails.
Release(w) ==
    /\ wrk[w].pc \in {"again", "give up"}
    /\ Goes(w, IF wrk[w].pc = "again" THEN "lock" ELSE "fail")
    /\ UNCHANGED <<table, trigger, poll, queue, fix, contexts, process>>

Fail(w) ==
    /\ wrk[w].pc = "fail"
    /\ ~inner
    /\ rows' = [rows EXCEPT ![wrk[w].job] = "failed"]
    /\ wrk' = [wrk EXCEPT ![w] = NewWorker]
    /\ UNCHANGED <<trigger, poll, queue, fix, contexts, process, overtakes>>

\* Fail fails, always so under a cancelled context: the worker returns the
\* error, and the error group cancels the other workers.
FailErr(w) ==
    /\ wrk[w].pc = "fail"
    /\ IF inner THEN UNCHANGED stops
       ELSE stops < MaxStops /\ stops' = stops + 1
    /\ wrk' = [wrk EXCEPT ![w] = DeadWorker]
    /\ inner' = TRUE
    /\ UNCHANGED <<table, trigger, poll, queue, fix, outer, app, waited>>

\* All workers have returned, so the stage does: that cancels the other stages.
HandleStageReturns ==
    /\ Workers \subseteq At({"stopped"})
    /\ ~outer
    /\ outer' = TRUE
    /\ UNCHANGED <<table, trigger, poll, queue, wrk, fix, inner, process>>
-----------------------------------------------------------------------------
(* FixStage.Run.                                                           *)

Copies(j) ==
    (IF j \in poll.batch THEN 1 ELSE 0)
        + Cardinality({i \in DOMAIN queue : queue[i] = j})
        + Cardinality({w \in Workers : wrk[w].job = j})

FixProcessingTimeout(S) ==
    /\ fix
    /\ S # {}
    /\ \A j \in S : rows[j] = "taken"
    /\ overtakes' = overtakes + Cardinality({j \in S : Copies(j) > 0})
    /\ overtakes' <= MaxOvertakes
    /\ rows' = [j \in Jobs |-> IF j \in S THEN "scheduled" ELSE rows[j]]
    /\ UNCHANGED <<trigger, poll, queue, wrk, fix, contexts, process>>

StopFix ==
    /\ fix /\ outer
    /\ fix' = FALSE
    /\ UNCHANGED <<table, trigger, poll, queue, wrk, contexts, process>>
-----------------------------------------------------------------------------
(* app.Run and Pipeline.Shutdown.                                          *)

AllStopped == poll.pc = "stopped" /\ ~fix /\ Workers \subseteq At({"stopped"})

\* Run is told to end: by a signal, or by the pipeline when all stages have
\* returned.  It first shuts the HTTP server down.
Signal ==
    /\ app = "running" /\ stops < MaxStops
    /\ app' = "draining"
    /\ stops' = stops + 1
    /\ UNCHANGED <<table, trigger, poll, queue, wrk, fix, contexts, waited>>

Notified ==
    /\ app = "running" /\ AllStopped
    /\ app' = "draining"
    /\ UNCHANGED <<table, trigger, poll, queue, wrk, fix, contexts, waited, stops>>

\* Then it cancels the pipeline and waits for it.
Shutdown ==
    /\ app = "draining"
    /\ app' = "stopping" /\ waited' = 0
    /\ inner' = TRUE /\ outer' = TRUE
    /\ UNCHANGED <<table, trigger, poll, queue, wrk, fix, stops>>

Tick ==
    /\ app = "stopping" /\ waited < ConfigTimeout
    /\ waited' = waited + 1
    /\ UNCHANGED <<table, trigger, poll, queue, wrk, fix, contexts, app, stops>>

\* The field of Pipeline that bounds the wait: New never sets it.
shutdownTimeout == 0

\* The process is gone with all it held; open transactions are rolled back.
Dies ==
    /\ app' = "down" /\ waited' = 0
    /\ rows' = [j \in Jobs |-> IF rows[j] = "pending" THEN "none" ELSE rows[j]]
    /\ trigger' = FALSE
    /\ poll' = [pc |-> "stopped", batch |-> {}]
    /\ queue' = <<>>
    /\ wrk' = [w \in Workers |-> DeadWorker]
    /\ fix' = FALSE
    /\ inner' = TRUE /\ outer' = TRUE
    /\ UNCHANGED overtakes

Exit ==
    /\ app = "stopping"
    /\ AllStopped \/ waited >= shutdownTimeout
    /\ Dies
    /\ UNCHANGED stops

Crash ==
    /\ app # "down" /\ stops < MaxStops
    /\ stops' = stops + 1
    /\ Dies

Start ==
    /\ app = "down"
    /\ app' = "running"
    /\ poll' = [pc |-> "fetch", batch |-> {}]
    /\ wrk' = [w \in Workers |-> NewWorker]
    /\ fix' = TRUE
    /\ inner' = FALSE /\ outer' = FALSE
    /\ UNCHANGED <<table, trigger, queue, waited, stops>>
-----------------------------------------------------------------------------
PollStep ==
    \/ \E S \in SUBSET Jobs : Fetch(S)
    \/ Scheduled = {} /\ FetchNothing
    \/ \E j \in Jobs : Send(j)
    \/ Wake
    \/ StopPoll

WorkerStep(w) ==
    \/ Receive(w) \/ StopWorker(w)
    \/ RLock(w) \/ TryLock(w) \/ CountReaders(w) \/ Resume(w) \/ Release(w)
    \/ HandleErr(w) \/ Handle(w, "closed") \/ Handle(w, "scheduled") \/ TooManyRequests(w)
    \/ Fail(w) \/ FailErr(w)

AppStep == Notified \/ Shutdown \/ Exit \/ Start

Next ==
    \/ \E j \in Jobs : Enqueue(j) \/ CommitUpload(j) \/ RollBackUpload(j)
    \/ PollStep \/ FetchNothing
    \/ \E w \in Workers : WorkerStep(w) \/ PauseCancelled(w)
    \/ HandleStageReturns
    \/ (\E S \in SUBSET Jobs : FixProcessingTimeout(S)) \/ StopFix
    \/ AppStep \/ Signal \/ Tick \/ Crash

Spec == Init /\ [][Next]_vars

(* Goroutines run; timers fire; the rows of GetUpdate come in the order of *)
(* next_attempt_at, so a job scheduled again and again is fetched; an      *)
(* accrual system that is asked again and again decides; the process is    *)
(* started again.  Uploads, errors, signals and crashes need not happen.   *)
Fairness ==
    /\ WF_vars(PollStep)
    /\ WF_vars(StopPoll)
    /\ \A j \in Jobs : SF_vars(\E S \in SUBSET Jobs : j \in S /\ Fetch(S))
    /\ \A w \in Workers : WF_vars(WorkerStep(w))
    /\ \A w \in Workers : SF_vars(Handle(w, "closed"))
    /\ WF_vars(HandleStageReturns)
    /\ \A j \in Jobs : WF_vars(\E S \in SUBSET Jobs : j \in S /\ FixProcessingTimeout(S))
    /\ WF_vars(StopFix)
    /\ WF_vars(AppStep)

FairSpec == Spec /\ Fairness
-----------------------------------------------------------------------------
(* Properties.                                                             *)

\* No job slips away between the poll stage and a worker: until the pipeline
\* first stops, a job that is taken in the database is in the batch, in the
\* channel or with a worker, who saves it before taking another.
TakenInHand ==
    \A j \in Jobs : rows[j] = "taken" /\ stops = 0 => Copies(j) > 0

\* A job is in memory at most once, and once more for each time the fix stage
\* overtook its holder; a job in memory and scheduled counts twice.
CopiesBounded ==
    \A j \in Jobs :
        Copies(j) + (IF rows[j] = "scheduled" THEN 1 ELSE 0) <= 1 + overtakes

\* While one worker sits out a Retry-After, no handler is running and nobody
\* else pauses, whoever tries the lock, fails to get it and asks again in the
\* meantime (HandleStage.withRLock around the handler, withTryLock around the
\* wait).
PauseExcludes ==
    \A w \in At({"pause"}) : At({"handle", "pause"}) = {w}

\* Whoever stops stops everything: after a worker's error no stage is left
\* waiting for another, and the process ends.
StopsWhole == \A w \in Workers : wrk[w].pc = "stopped" ~> app = "down"

\* Every job that was committed is closed in the end: also one whose trigger
\* came before its commit, one left in the channel, one lost in a crash.
JobsSettle == \A j \in Jobs : rows[j] = "scheduled" ~> rows[j] \in {"closed", "failed"}

\* The process leaves handlers behind only after the configured timeout.
GracefulExit ==
    [][app = "stopping" /\ app' = "down" /\ stops' = stops /\ ~AllStopped
        => waited >= ConfigTimeout]_vars

\* The rows as JobTable sees them.
JobRow(j) ==
    CASE rows[j] \in {"none", "pending"}  -> "none"
      [] rows[j] \in {"closed", "failed"} -> "closed"
      [] OTHER -> rows[j]

\* Batch, channel and workers together are the holders of the jobs that the
\* table promises, through every way of stopping.
Table == INSTANCE JobTable WITH
    row       <- [j \in Jobs |-> JobRow(j)],
    holders   <- [j \in Jobs |-> Copies(j)],
    overtaken <- overtakes
TableSpec == Table!Spec
=============================================================================
