--------------------------- MODULE PipelineProofs ---------------------------
(***************************************************************************)
(* Theorems about Pipeline, for any finite sets of jobs and workers, any   *)
(* buffer, and any number of stops and of overtaken leases.                *)
(***************************************************************************)
EXTENDS Pipeline, FiniteSetTheorems, SequenceTheorems, TLAPS

-----------------------------------------------------------------------------
(* Counting the copies of a job.                                           *)

InBatch(batch, j) == IF j \in batch THEN 1 ELSE 0
InQueue(q, j) == Cardinality({i \in DOMAIN q : q[i] = j})
AtWorkers(ws, j) == Cardinality({w \in Workers : ws[w].job = j})

LEMMA QueueNat ==
  ASSUME NEW q \in Seq(Jobs), NEW j
  PROVE  IsFiniteSet({i \in DOMAIN q : q[i] = j}) /\ InQueue(q, j) \in Nat
<1>1. IsFiniteSet(1..Len(q)) /\ DOMAIN q = 1..Len(q)
  BY FS_Interval, LenProperties
<1>2. IsFiniteSet({i \in DOMAIN q : q[i] = j})
  BY <1>1, FS_Subset
<1>3. QED
  BY <1>2, FS_CardinalityType DEF InQueue

LEMMA AppendCounts ==
  ASSUME NEW q \in Seq(Jobs), NEW k \in Jobs, NEW j
  PROVE  InQueue(Append(q, k), j) = InQueue(q, j) + (IF k = j THEN 1 ELSE 0)
<1> DEFINE S == {i \in DOMAIN q : q[i] = j}
           T == {i \in DOMAIN Append(q, k) : Append(q, k)[i] = j}
           n == Len(q) + 1
<1>0. InQueue(q, j) = Cardinality(S) /\ InQueue(Append(q, k), j) = Cardinality(T)
  BY DEF InQueue
<1>1. IsFiniteSet(S) /\ Cardinality(S) \in Nat
  BY QueueNat DEF InQueue
<1>2. /\ DOMAIN q = 1..Len(q) /\ Len(q) \in Nat
      /\ DOMAIN Append(q, k) = 1..n
      /\ \A i \in 1..Len(q) : Append(q, k)[i] = q[i]
      /\ Append(q, k)[n] = k
  BY LenProperties
<1>3. n \notin S
  BY <1>2
<1>4. CASE k = j
  <2>1. T = S \cup {n}
    BY <1>2, <1>4
  <2>2. Cardinality(T) = Cardinality(S) + 1
    BY <1>1, <1>3, <2>1, FS_AddElement
  <2> HIDE DEF S, T
  <2>3. QED
    BY <1>0, <1>4, <2>2
<1>5. CASE k # j
  <2>1. T = S
    BY <1>2, <1>5
  <2> HIDE DEF S, T
  <2>2. QED
    BY <1>0, <1>1, <1>5, <2>1
<1>6. QED
  BY <1>4, <1>5

LEMMA TailCounts ==
  ASSUME NEW q \in Seq(Jobs), q # <<>>, NEW j
  PROVE  InQueue(q, j) = InQueue(Tail(q), j) + (IF Head(q) = j THEN 1 ELSE 0)
<1> DEFINE S == {i \in DOMAIN q : q[i] = j}
           T == {i \in DOMAIN Tail(q) : Tail(q)[i] = j}
           U == S \ {1}
           f == [i \in T |-> i + 1]
<1>0. InQueue(q, j) = Cardinality(S) /\ InQueue(Tail(q), j) = Cardinality(T)
  BY DEF InQueue
<1>1. /\ Len(q) \in Nat \ {0} /\ DOMAIN q = 1..Len(q)
      /\ Tail(q) \in Seq(Jobs) /\ DOMAIN Tail(q) = 1..(Len(q) - 1)
      /\ \A i \in 1..(Len(q) - 1) : Tail(q)[i] = q[i + 1]
      /\ Head(q) = q[1]
  BY LenProperties, EmptySeq, HeadTailProperties
<1>2. IsFiniteSet(S) /\ Cardinality(S) \in Nat /\ IsFiniteSet(T) /\ Cardinality(T) \in Nat
  BY <1>1, QueueNat DEF InQueue
<1>3. f \in Bijection(T, U)
  <2>1. f \in [T -> U]
    BY <1>1
  <2>2. \A a, b \in T : f[a] = f[b] => a = b
    BY <1>1
  <2>3. \A u \in U : \E a \in T : f[a] = u
    <3> SUFFICES ASSUME NEW u \in U PROVE \E a \in T : f[a] = u
      OBVIOUS
    <3>1. u \in 2..Len(q) /\ q[u] = j
      BY <1>1
    <3>2. u - 1 \in T /\ (u - 1) + 1 = u
      BY <1>1, <3>1
    <3>3. f[u - 1] = u
      BY <3>2
    <3>4. QED
      BY <3>2, <3>3
  <2>4. QED
    BY <2>1, <2>2, <2>3 DEF Bijection, Injection, Surjection, IsInjective
<1>4. Cardinality(U) = Cardinality(T)
  BY <1>2, <1>3, FS_Bijection DEF ExistsBijection
<1>5. Cardinality(U) = IF 1 \in S THEN Cardinality(S) - 1 ELSE Cardinality(S)
  BY <1>2, FS_RemoveElement
<1>6. 1 \in S <=> Head(q) = j
  BY <1>1
<1> HIDE DEF S, T, U, f
<1>7. QED
  BY <1>0, <1>2, <1>4, <1>5, <1>6

LEMMA WorkersNat ==
  ASSUME NEW ws, NEW j PROVE AtWorkers(ws, j) \in Nat
BY ConstantsAssumption, FS_Subset, FS_CardinalityType DEF AtWorkers

LEMMA WorkerCounts ==
  ASSUME NEW w \in Workers, \A v \in Workers \ {w} : wrk'[v] = wrk[v], NEW j
  PROVE  /\ (wrk[w].job = j <=> wrk'[w].job = j) => AtWorkers(wrk', j) = AtWorkers(wrk, j)
         /\ wrk[w].job = j /\ wrk'[w].job # j => AtWorkers(wrk, j) = AtWorkers(wrk', j) + 1
         /\ wrk[w].job # j /\ wrk'[w].job = j => AtWorkers(wrk', j) = AtWorkers(wrk, j) + 1
<1> DEFINE S == {v \in Workers : wrk[v].job = j}
           T == {v \in Workers : wrk'[v].job = j}
<1>1. IsFiniteSet(S) /\ IsFiniteSet(T) /\ Cardinality(S) \in Nat /\ Cardinality(T) \in Nat
  BY ConstantsAssumption, FS_Subset, FS_CardinalityType
<1>2. S \ {w} = T \ {w}
  OBVIOUS
<1>3. /\ Cardinality(S \ {w}) = IF w \in S THEN Cardinality(S) - 1 ELSE Cardinality(S)
      /\ Cardinality(T \ {w}) = IF w \in T THEN Cardinality(T) - 1 ELSE Cardinality(T)
  BY <1>1, FS_RemoveElement
<1>4. (w \in S <=> wrk[w].job = j) /\ (w \in T <=> wrk'[w].job = j)
  OBVIOUS
<1>5. AtWorkers(wrk, j) = Cardinality(S) /\ AtWorkers(wrk', j) = Cardinality(T)
  BY DEF AtWorkers
<1> HIDE DEF S, T
<1>6. Cardinality(S \ {w}) = Cardinality(T \ {w})
  BY <1>2
<1>7. (w \in S <=> w \in T) => Cardinality(T) = Cardinality(S)
  BY <1>1, <1>3, <1>6
<1>8. w \in S /\ w \notin T => Cardinality(S) = Cardinality(T) + 1
  BY <1>1, <1>3, <1>6
<1>9. w \notin S /\ w \in T => Cardinality(T) = Cardinality(S) + 1
  BY <1>1, <1>3, <1>6
<1>10. QED
  BY <1>4, <1>5, <1>7, <1>8, <1>9

-----------------------------------------------------------------------------
(* Types, and where jobs can be.                                           *)

\* The poll stage has jobs in hand only while it sends them, and a worker has
\* one unless it waits for one or has stopped.
HandsHold ==
    /\ poll.pc # "send" => poll.batch = {}
    /\ \A w \in Workers : wrk[w].job = None <=> wrk[w].pc \in {"recv", "stopped"}

PipelineInv == TypeOK /\ HandsHold

LEMMA CopiesSplit ==
  ASSUME PipelineInv, NEW j \in Jobs
  PROVE  /\ Copies(j) = InBatch(poll.batch, j) + InQueue(queue, j) + AtWorkers(wrk, j)
         /\ InBatch(poll.batch, j) \in Nat
         /\ InQueue(queue, j) \in Nat
         /\ AtWorkers(wrk, j) \in Nat
         /\ Copies(j) \in Nat
<1>1. /\ InBatch(poll.batch, j) \in Nat
      /\ InQueue(queue, j) \in Nat
      /\ AtWorkers(wrk, j) \in Nat
  BY QueueNat, WorkersNat DEF PipelineInv, TypeOK, InBatch
<1>2. QED
  BY <1>1 DEF Copies, InBatch, InQueue, AtWorkers

LEMMA PipelineInvInit == Init => PipelineInv
<1> SUFFICES ASSUME Init PROVE PipelineInv
  OBVIOUS
<1>1. NewWorker \in WorkerState /\ NewWorker.job = None /\ NewWorker.pc = "recv"
  BY DEF NewWorker, WorkerState
<1>2. poll \in PollState /\ poll.batch = {}
  BY DEF Init, PollState
<1>3. queue \in Seq(Jobs) /\ Len(queue) <= BufferSize
  BY ConstantsAssumption, EmptySeq DEF Init
<1>4. /\ rows \in [Jobs -> {"none", "pending", "scheduled", "taken", "closed", "failed"}]
      /\ waited \in 0..ConfigTimeout /\ stops \in 0..MaxStops /\ overtakes \in 0..MaxOvertakes
  BY ConstantsAssumption DEF Init
<1>5. wrk \in [Workers -> WorkerState] /\ HandsHold
  BY <1>1, <1>2 DEF Init, HandsHold
<1>6. QED
  BY <1>2, <1>3, <1>4, <1>5 DEF Init, PipelineInv, TypeOK

LEMMA UploadTypes ==
  ASSUME PipelineInv, NEW j \in Jobs, Enqueue(j) \/ CommitUpload(j) \/ RollBackUpload(j)
  PROVE  PipelineInv'
BY DEF Enqueue, CommitUpload, RollBackUpload, PipelineInv, TypeOK, HandsHold, contexts, process

LEMMA PollTypes ==
  ASSUME PipelineInv,
         \/ \E S \in SUBSET Jobs : Fetch(S)
         \/ FetchNothing \/ Wake \/ StopPoll
         \/ \E j \in Jobs : Send(j)
  PROVE  PipelineInv'
<1> USE DEF PipelineInv, TypeOK, HandsHold, contexts, process, table, PollState
<1>1. ASSUME NEW S \in SUBSET Jobs, Fetch(S) PROVE PipelineInv'
  BY <1>1 DEF Fetch, Taken
<1>2. CASE FetchNothing \/ Wake \/ StopPoll
  <2>1. poll' \in PollState /\ poll'.pc # "send" /\ poll'.batch = {}
    <3>1. CASE FetchNothing
      BY <3>1 DEF FetchNothing
    <3>2. CASE Wake
      BY <3>2 DEF Wake, LoopHead
    <3>3. CASE StopPoll
      BY <3>3 DEF StopPoll
    <3>4. QED
      BY <1>2, <3>1, <3>2, <3>3
  <2>2. trigger' \in BOOLEAN /\ UNCHANGED <<table, queue, wrk, fix, contexts, process>>
    BY <1>2 DEF FetchNothing, Wake, StopPoll
  <2>3. QED
    BY <2>1, <2>2
<1>3. ASSUME NEW j \in Jobs, Send(j) PROVE PipelineInv'
  <2>1. /\ queue' = Append(queue, j) /\ queue' \in Seq(Jobs) /\ Len(queue') = Len(queue) + 1
        /\ Len(queue) \in Nat /\ Len(queue) < BufferSize /\ BufferSize \in Nat
    BY <1>3, ConstantsAssumption, LenProperties DEF Send, Capacity
  <2>2. poll' \in PollState /\ (poll'.pc # "send" => poll'.batch = {})
    BY <1>3 DEF Send, Rest, LoopHead
  <2>3. UNCHANGED <<table, trigger, wrk, fix, contexts, process>>
    BY <1>3 DEF Send
  <2>4. QED
    BY <2>1, <2>2, <2>3
<1>4. QED
  BY <1>1, <1>2, <1>3

\* A worker moves, with the job it has, with another or with none.
LEMMA WorkerMoves ==
  ASSUME PipelineInv, NEW w \in Workers, NEW x \in WorkerState,
         x.job = None <=> x.pc \in {"recv", "stopped"},
         wrk' = [wrk EXCEPT ![w] = x],
         rows' \in [Jobs -> {"none", "pending", "scheduled", "taken", "closed", "failed"}],
         queue' \in Seq(Jobs), Len(queue') <= BufferSize,
         inner' \in BOOLEAN, stops' \in 0..MaxStops,
         UNCHANGED <<trigger, poll, fix, outer, app, waited, overtakes>>
  PROVE  PipelineInv'
BY DEF PipelineInv, TypeOK, HandsHold

LEMMA WorkerTypes ==
  ASSUME PipelineInv, NEW w \in Workers, WorkerStep(w) \/ PauseCancelled(w)
  PROVE  PipelineInv'
<1> USE DEF PipelineInv, TypeOK, contexts, process, table
<1>1. wrk[w] \in WorkerState /\ (wrk[w].job = None <=> wrk[w].pc \in {"recv", "stopped"})
  BY DEF HandsHold
<1>2. NewWorker \in WorkerState /\ DeadWorker \in WorkerState
  BY DEF NewWorker, DeadWorker, WorkerState
<1>3. /\ NewWorker.job = None /\ NewWorker.pc = "recv"
      /\ DeadWorker.job = None /\ DeadWorker.pc = "stopped"
  BY DEF NewWorker, DeadWorker
<1>4. ASSUME NEW pc \in {"lock", "handle", "trylock", "count", "pause", "again", "give up", "fail"},
             wrk[w].pc \notin {"recv", "stopped"}, Goes(w, pc),
             UNCHANGED <<table, trigger, poll, queue, fix, contexts, process>>
      PROVE  PipelineInv'
  <2> DEFINE x == [wrk[w] EXCEPT !.pc = pc]
  <2>1. x \in WorkerState /\ x.job = wrk[w].job /\ x.pc = pc
    BY <1>1 DEF WorkerState
  <2>2. wrk' = [wrk EXCEPT ![w] = x]
    BY <1>4 DEF Goes
  <2> HIDE DEF x
  <2>3. QED
    BY <1>1, <1>4, <2>1, <2>2, WorkerMoves
<1>5. CASE Receive(w)
  <2> DEFINE x == [pc |-> "lock", job |-> Head(queue)]
  <2>1. /\ Head(queue) \in Jobs /\ queue' \in Seq(Jobs) /\ Len(queue') <= BufferSize
        /\ wrk' = [wrk EXCEPT ![w] = x]
        /\ UNCHANGED <<table, trigger, poll, fix, contexts, process>>
    BY <1>5, HeadTailProperties, LenProperties, ConstantsAssumption DEF Receive
  <2>2. x \in WorkerState /\ x.job # None /\ x.pc = "lock"
    BY <2>1, ConstantsAssumption DEF WorkerState
  <2> HIDE DEF x
  <2>3. QED
    BY <2>1, <2>2, WorkerMoves
<1>6. CASE StopWorker(w)
  BY <1>2, <1>3, <1>6, WorkerMoves DEF StopWorker
<1>7. CASE RLock(w)
  BY <1>4, <1>7 DEF RLock
<1>8. CASE TryLock(w) \/ CountReaders(w)
  BY <1>4, <1>8 DEF TryLock, CountReaders
<1>9. CASE Resume(w) \/ PauseCancelled(w) \/ Release(w)
  BY <1>4, <1>9 DEF Resume, PauseCancelled, Release
<1>10. CASE HandleErr(w) \/ TooManyRequests(w)
  BY <1>4, <1>10 DEF HandleErr, TooManyRequests
<1>11. ASSUME NEW status, Handle(w, status) PROVE PipelineInv'
  <2>1. FreeWorker \in {NewWorker, DeadWorker}
    BY DEF FreeWorker
  <2>2. QED
    BY <1>2, <1>3, <1>11, <2>1, WorkerMoves DEF Handle
<1>12. CASE Fail(w)
  BY <1>2, <1>3, <1>12, WorkerMoves DEF Fail
<1>13. CASE FailErr(w)
  <2>1. stops' \in 0..MaxStops
    BY <1>13, ConstantsAssumption DEF FailErr
  <2>2. QED
    BY <1>2, <1>3, <1>13, <2>1, WorkerMoves DEF FailErr
<1>14. QED
  BY <1>5, <1>6, <1>7, <1>8, <1>9, <1>10, <1>11, <1>12, <1>13 DEF WorkerStep

LEMMA FixTypes ==
  ASSUME PipelineInv, (\E S \in SUBSET Jobs : FixProcessingTimeout(S)) \/ StopFix
  PROVE  PipelineInv'
<1> USE DEF PipelineInv, TypeOK, HandsHold, contexts, process, table
<1>1. ASSUME NEW S \in SUBSET Jobs, FixProcessingTimeout(S) PROVE PipelineInv'
  <2>1. Cardinality({j \in S : Copies(j) > 0}) \in Nat
    BY ConstantsAssumption, FS_Subset, FS_CardinalityType
  <2>2. overtakes' \in 0..MaxOvertakes
    BY <1>1, <2>1, ConstantsAssumption DEF FixProcessingTimeout
  <2>3. QED
    BY <1>1, <2>2 DEF FixProcessingTimeout
<1>2. CASE StopFix
  BY <1>2 DEF StopFix
<1>3. QED
  BY <1>1, <1>2

LEMMA DiesTypes ==
  ASSUME PipelineInv, Dies, stops' \in 0..MaxStops PROVE PipelineInv'
<1> USE DEF PipelineInv, TypeOK, HandsHold
<1>1. DeadWorker \in WorkerState /\ DeadWorker.job = None /\ DeadWorker.pc = "stopped"
  BY DEF DeadWorker, WorkerState
<1>2. /\ queue' = <<>> /\ queue' \in Seq(Jobs) /\ Len(queue') <= BufferSize
  BY ConstantsAssumption DEF Dies
<1>3. poll' \in PollState /\ poll'.batch = {}
  BY DEF Dies, PollState
<1>4. /\ rows' \in [Jobs -> {"none", "pending", "scheduled", "taken", "closed", "failed"}]
      /\ wrk' \in [Workers -> WorkerState] /\ HandsHold'
      /\ waited' \in 0..ConfigTimeout /\ overtakes' \in 0..MaxOvertakes
  BY <1>1, <1>3, ConstantsAssumption DEF Dies
<1>5. /\ trigger' \in BOOLEAN /\ fix' \in BOOLEAN /\ inner' \in BOOLEAN /\ outer' \in BOOLEAN
      /\ app' = "down"
  BY DEF Dies
<1>6. QED
  BY <1>2, <1>3, <1>4, <1>5

LEMMA AppTypes ==
  ASSUME PipelineInv,
         HandleStageReturns \/ AppStep \/ Signal \/ Tick \/ Crash
  PROVE  PipelineInv'
<1> USE DEF PipelineInv, TypeOK, HandsHold, contexts, process, table
<1>1. CASE HandleStageReturns \/ Signal \/ Notified \/ Shutdown \/ Tick
  <2>1. UNCHANGED <<table, trigger, poll, queue, wrk, fix>>
    BY <1>1 DEF HandleStageReturns, Signal, Notified, Shutdown, Tick
  <2>2. waited' \in 0..ConfigTimeout /\ stops' \in 0..MaxStops
    BY <1>1, ConstantsAssumption DEF HandleStageReturns, Signal, Notified, Shutdown, Tick
  <2>3. /\ inner' \in BOOLEAN /\ outer' \in BOOLEAN
        /\ app' \in {"running", "draining", "stopping", "down"}
    BY <1>1 DEF HandleStageReturns, Signal, Notified, Shutdown, Tick
  <2>4. QED
    BY <2>1, <2>2, <2>3
<1>2. CASE Exit
  BY <1>2, DiesTypes DEF Exit
<1>3. CASE Crash
  <2>1. stops' \in 0..MaxStops
    BY <1>3, ConstantsAssumption DEF Crash
  <2>2. QED
    BY <1>3, <2>1, DiesTypes DEF Crash
<1>4. CASE Start
  <2>1. NewWorker \in WorkerState /\ NewWorker.job = None /\ NewWorker.pc = "recv"
    BY DEF NewWorker, WorkerState
  <2>2. poll' \in PollState /\ poll'.batch = {}
    BY <1>4 DEF Start, PollState
  <2>3. QED
    BY <1>4, <2>1, <2>2 DEF Start
<1>5. QED
  BY <1>1, <1>2, <1>3, <1>4 DEF AppStep

LEMMA PipelineInvStep == PipelineInv /\ [Next]_vars => PipelineInv'
<1> SUFFICES ASSUME PipelineInv, [Next]_vars PROVE PipelineInv'
  OBVIOUS
<1>1. CASE UNCHANGED vars
  BY <1>1 DEF vars, PipelineInv, TypeOK, HandsHold
<1>2. QED
  BY <1>1, UploadTypes, PollTypes, WorkerTypes, FixTypes, AppTypes DEF Next, PollStep

\* The states of stages, workers and process have their types, and the channel
\* never holds more than its buffer (PollStage.Run, HandleStage.worker).
THEOREM PipelineTypeCorrect == Spec => []TypeOK
<1>1. PipelineInv => TypeOK
  BY DEF PipelineInv
<1>2. QED
  BY <1>1, PipelineInvInit, PipelineInvStep, PTL DEF Spec
-----------------------------------------------------------------------------
(* Pipeline implements the job table.                                      *)

\* Where the copies of a job are after a step.
LEMMA CopiesNext ==
  ASSUME PipelineInv', NEW j \in Jobs
  PROVE  /\ Copies(j)' = InBatch(poll'.batch, j) + InQueue(queue', j) + AtWorkers(wrk', j)
         /\ InBatch(poll'.batch, j) \in Nat
         /\ InQueue(queue', j) \in Nat
         /\ AtWorkers(wrk', j) \in Nat
         /\ Copies(j)' \in Nat
<1>1. /\ InBatch(poll'.batch, j) \in Nat
      /\ InQueue(queue', j) \in Nat
      /\ AtWorkers(wrk', j) \in Nat
  BY QueueNat, WorkersNat DEF PipelineInv, TypeOK, InBatch
<1>2. QED
  BY <1>1 DEF Copies, InBatch, InQueue, AtWorkers

\* Sending hands the job on.
LEMMA SendCopies ==
  ASSUME PipelineInv, PipelineInv', NEW k \in Jobs, Send(k), NEW j \in Jobs
  PROVE  Copies(j)' = Copies(j)
<1>1. /\ k \in poll.batch /\ poll'.batch = poll.batch \ {k}
      /\ queue' = Append(queue, k) /\ UNCHANGED wrk
  BY DEF Send, Rest
<1>2. InBatch(poll.batch, j) = InBatch(poll'.batch, j) + (IF k = j THEN 1 ELSE 0)
  BY <1>1 DEF InBatch
<1>3. InQueue(queue', j) = InQueue(queue, j) + (IF k = j THEN 1 ELSE 0)
  BY <1>1, AppendCounts DEF PipelineInv, TypeOK
<1>4. AtWorkers(wrk', j) = AtWorkers(wrk, j)
  BY <1>1
<1>5. QED
  BY <1>2, <1>3, <1>4, CopiesSplit, CopiesNext

\* So does receiving it.
LEMMA ReceiveCopies ==
  ASSUME PipelineInv, PipelineInv', NEW w \in Workers, Receive(w), NEW j \in Jobs
  PROVE  Copies(j)' = Copies(j)
<1>1. /\ wrk \in [Workers -> WorkerState]
      /\ wrk[w].job = None <=> wrk[w].pc \in {"recv", "stopped"}
  BY DEF PipelineInv, TypeOK, HandsHold
<1>2. /\ queue # <<>> /\ queue' = Tail(queue) /\ UNCHANGED poll /\ wrk[w].job = None
  BY <1>1 DEF Receive
<1>3. wrk'[w].job = Head(queue) /\ \A v \in Workers \ {w} : wrk'[v] = wrk[v]
  BY <1>1 DEF Receive
<1>4. InQueue(queue, j) = InQueue(queue', j) + (IF Head(queue) = j THEN 1 ELSE 0)
  BY <1>2, TailCounts DEF PipelineInv, TypeOK
<1>5. wrk[w].job # j
  BY <1>2, ConstantsAssumption
<1>6. CASE Head(queue) = j
  <2>1. AtWorkers(wrk', j) = AtWorkers(wrk, j) + 1
    BY <1>3, <1>5, <1>6, WorkerCounts
  <2>2. QED
    BY <1>2, <1>4, <1>6, <2>1, CopiesSplit, CopiesNext
<1>7. CASE Head(queue) # j
  <2>1. AtWorkers(wrk', j) = AtWorkers(wrk, j)
    BY <1>3, <1>5, <1>7, WorkerCounts
  <2>2. QED
    BY <1>2, <1>4, <1>7, <2>1, CopiesSplit, CopiesNext
<1>8. QED
  BY <1>6, <1>7

\* A worker that keeps its job keeps the count.
LEMMA KeptCopies ==
  ASSUME PipelineInv, PipelineInv', NEW w \in Workers, wrk'[w].job = wrk[w].job,
         \A v \in Workers \ {w} : wrk'[v] = wrk[v],
         UNCHANGED <<poll, queue>>, NEW j \in Jobs
  PROVE  Copies(j)' = Copies(j)
<1>1. AtWorkers(wrk', j) = AtWorkers(wrk, j)
  BY WorkerCounts
<1>2. QED
  BY <1>1, CopiesSplit, CopiesNext

\* The table counts as everybody does.
LEMMA TableCounts == ASSUME NEW S PROVE Table!Cardinality(S) = Cardinality(S)
BY DEF Table!Cardinality, Cardinality

Rows == [j \in Jobs |-> JobRow(j)]
Hands == [j \in Jobs |-> Copies(j)]

\* A step that moves copies about, and rows at most between states the table
\* does not tell apart, is none of the table's.
LEMMA Stutters ==
  ASSUME \A j \in Jobs : JobRow(j)' = JobRow(j) /\ Copies(j)' = Copies(j),
         UNCHANGED overtakes
  PROVE  UNCHANGED Table!vars
BY DEF Table!vars

\* Rows stay, and some copies are lost.
LEMMA Drops ==
  ASSUME PipelineInv, PipelineInv',
         \A j \in Jobs : JobRow(j)' = JobRow(j) /\ Copies(j)' <= Copies(j),
         UNCHANGED overtakes
  PROVE  Table!Drop
<1>1. \A j \in Jobs : Copies(j)' \in Nat
  BY CopiesNext
<1>2. QED
  BY <1>1 DEF Table!Drop

LEMMA TableInit == Init => Table!Init
<1> SUFFICES ASSUME Init PROVE Table!Init
  OBVIOUS
<1>1. PipelineInv
  BY PipelineInvInit
<1>2. ASSUME NEW j \in Jobs PROVE Copies(j) = 0
  <2>1. InBatch(poll.batch, j) = 0
    BY DEF Init, InBatch
  <2>2. InQueue(queue, j) = 0
    <3>1. {i \in DOMAIN queue : queue[i] = j} = {}
      BY EmptySeq DEF Init
    <3>2. QED
      BY <3>1, FS_EmptySet DEF InQueue
  <2>3. AtWorkers(wrk, j) = 0
    <3>1. {w \in Workers : wrk[w].job = j} = {}
      BY ConstantsAssumption DEF Init, NewWorker
    <3>2. QED
      BY <3>1, FS_EmptySet DEF AtWorkers
  <2>4. QED
    BY <1>1, <2>1, <2>2, <2>3, CopiesSplit
<1>3. \A j \in Jobs : JobRow(j) = "none"
  BY DEF Init, JobRow
<1>4. overtakes = 0
  BY DEF Init
<1>5. QED
  BY <1>2, <1>3, <1>4 DEF Table!Init

LEMMA UploadTable ==
  ASSUME PipelineInv, PipelineInv', NEW j \in Jobs,
         Enqueue(j) \/ CommitUpload(j) \/ RollBackUpload(j)
  PROVE  [Table!Next]_Table!vars
<1>1. UNCHANGED <<poll, queue, wrk, overtakes>>
  BY DEF Enqueue, CommitUpload, RollBackUpload
<1>2. \A k \in Jobs : Copies(k)' = Copies(k)
  BY <1>1 DEF Copies
<1>3. CASE Enqueue(j) \/ RollBackUpload(j)
  <2>1. \A k \in Jobs : JobRow(k)' = JobRow(k)
    BY <1>3 DEF Enqueue, RollBackUpload, JobRow, PipelineInv, TypeOK
  <2>2. QED
    BY <1>1, <1>2, <2>1, Stutters
<1>4. CASE CommitUpload(j)
  <2>1. Rows[j] = "none" /\ Rows' = [Rows EXCEPT ![j] = "scheduled"]
    BY <1>4 DEF CommitUpload, Rows, JobRow, PipelineInv, TypeOK
  <2>2. Hands' = Hands
    BY <1>2 DEF Hands
  <2>3. Table!Create(j)
    BY <1>1, <2>1, <2>2 DEF Table!Create, Rows, Hands
  <2>4. QED
    BY <2>3 DEF Table!Next
<1>5. QED
  BY <1>3, <1>4

LEMMA PollTable ==
  ASSUME PipelineInv, PipelineInv',
         \/ \E S \in SUBSET Jobs : Fetch(S)
         \/ FetchNothing \/ Wake \/ StopPoll
         \/ \E j \in Jobs : Send(j)
  PROVE  [Table!Next]_Table!vars
<1>1. ASSUME NEW S \in SUBSET Jobs, Fetch(S) PROVE [Table!Next]_Table!vars
  <2>1. \A j \in S : rows[j] = "scheduled"
    BY <1>1 DEF Fetch, Takeable, Scheduled
  <2>2. rows' = [j \in Jobs |-> IF j \in S THEN "taken" ELSE rows[j]]
    BY <1>1 DEF Fetch, Taken
  <2>3. poll.batch = {} /\ poll'.batch = S /\ UNCHANGED <<queue, wrk, overtakes>>
    BY <1>1 DEF Fetch, PipelineInv, HandsHold
  <2>4. \A j \in S : JobRow(j) = "scheduled"
    BY <2>1 DEF JobRow
  <2>5. \A j \in Jobs : JobRow(j)' = IF j \in S THEN "taken" ELSE JobRow(j)
    BY <2>2 DEF JobRow
  <2>6. ASSUME NEW j \in Jobs
        PROVE  Copies(j)' = IF j \in S THEN Copies(j) + 1 ELSE Copies(j)
    BY <2>3, CopiesSplit, CopiesNext DEF InBatch
  <2>7. Table!GetUpdate(S)
    BY <2>3, <2>4, <2>5, <2>6 DEF Table!GetUpdate
  <2>8. QED
    BY <2>7 DEF Table!Next
<1>2. CASE FetchNothing \/ Wake
  <2>1. poll'.batch = poll.batch /\ UNCHANGED <<rows, queue, wrk, overtakes>>
    BY <1>2 DEF FetchNothing, Wake, table, PipelineInv, TypeOK, PollState
  <2>2. \A j \in Jobs : JobRow(j)' = JobRow(j) /\ Copies(j)' = Copies(j)
    BY <2>1 DEF JobRow, Copies
  <2>3. QED
    BY <2>1, <2>2, Stutters
<1>3. CASE StopPoll
  <2>1. poll'.batch = {} /\ UNCHANGED <<rows, queue, wrk, overtakes>>
    BY <1>3 DEF StopPoll, table
  <2>2. ASSUME NEW j \in Jobs PROVE JobRow(j)' = JobRow(j) /\ Copies(j)' <= Copies(j)
    <3>1. InBatch(poll'.batch, j) = 0
      BY <2>1 DEF InBatch
    <3>2. QED
      BY <2>1, <3>1, CopiesSplit, CopiesNext DEF JobRow
  <2>3. QED
    BY <2>1, <2>2, Drops DEF Table!Next
<1>4. ASSUME NEW k \in Jobs, Send(k) PROVE [Table!Next]_Table!vars
  <2>1. UNCHANGED <<rows, overtakes>>
    BY <1>4 DEF Send, table
  <2>2. \A j \in Jobs : Copies(j)' = Copies(j)
    BY <1>4, SendCopies
  <2>3. QED
    BY <2>1, <2>2, Stutters DEF JobRow
<1>5. QED
  BY <1>1, <1>2, <1>3, <1>4

\* A worker lets go of its job, and saves it or not.
LEMMA LetsGo ==
  ASSUME PipelineInv, PipelineInv', NEW w \in Workers, wrk[w].job # None,
         NEW x, x.job = None, wrk' = [wrk EXCEPT ![w] = x],
         UNCHANGED <<poll, queue, overtakes>>
  PROVE  /\ wrk[w].job \in Jobs
         /\ \A j \in Jobs : Copies(j) = Copies(j)' + (IF j = wrk[w].job THEN 1 ELSE 0)
<1>1. /\ wrk[w].job \in Jobs /\ wrk'[w].job = None
      /\ \A v \in Workers \ {w} : wrk'[v] = wrk[v]
  BY DEF PipelineInv, TypeOK, WorkerState
<1>2. ASSUME NEW j \in Jobs
      PROVE  Copies(j) = Copies(j)' + (IF j = wrk[w].job THEN 1 ELSE 0)
  <2>1. wrk'[w].job # j
    BY <1>1, ConstantsAssumption
  <2>2. /\ Copies(j) = InBatch(poll.batch, j) + InQueue(queue, j) + AtWorkers(wrk, j)
        /\ Copies(j)' = InBatch(poll.batch, j) + InQueue(queue, j) + AtWorkers(wrk', j)
        /\ InBatch(poll.batch, j) \in Nat /\ InQueue(queue, j) \in Nat
        /\ AtWorkers(wrk, j) \in Nat /\ AtWorkers(wrk', j) \in Nat
    BY CopiesSplit, CopiesNext
  <2>3. CASE wrk[w].job = j
    <3>1. AtWorkers(wrk, j) = AtWorkers(wrk', j) + 1
      BY <1>1, <2>1, <2>3, WorkerCounts
    <3>2. QED
      BY <2>2, <2>3, <3>1
  <2>4. CASE wrk[w].job # j
    <3>1. AtWorkers(wrk, j) = AtWorkers(wrk', j)
      BY <1>1, <2>1, <2>4, WorkerCounts
    <3>2. QED
      BY <2>2, <2>4, <3>1
  <2>5. QED
    BY <2>3, <2>4
<1>3. QED
  BY <1>1, <1>2

\* It saves it: an Update of the table.
LEMMA Saves ==
  ASSUME PipelineInv, PipelineInv', NEW w \in Workers, wrk[w].job # None,
         NEW x, x.job = None, wrk' = [wrk EXCEPT ![w] = x],
         NEW status \in {"closed", "failed", "scheduled"},
         rows' = [rows EXCEPT ![wrk[w].job] = status],
         UNCHANGED <<poll, queue, overtakes>>
  PROVE  Table!Next
<1> DEFINE j == wrk[w].job
           state == IF status = "scheduled" THEN "scheduled" ELSE "closed"
<1>1. /\ j \in Jobs
      /\ \A k \in Jobs : Copies(k) = Copies(k)' + (IF k = j THEN 1 ELSE 0)
  BY LetsGo
<1>2. \A k \in Jobs : Copies(k) \in Nat /\ Copies(k)' \in Nat
  BY CopiesSplit, CopiesNext
<1>3. \A k \in Jobs : JobRow(k)' = IF k = j THEN state ELSE JobRow(k)
  BY <1>1 DEF JobRow, PipelineInv, TypeOK
<1> HIDE DEF j
<1>4. Copies(j) > 0 /\ \A k \in Jobs : Copies(k)' = IF k = j THEN Copies(k) - 1 ELSE Copies(k)
  BY <1>1, <1>2
<1>5. Rows' = [Rows EXCEPT ![j] = state]
  BY <1>1, <1>3 DEF Rows
<1>6. Hands[j] > 0 /\ Hands' = [Hands EXCEPT ![j] = @ - 1]
  BY <1>1, <1>4 DEF Hands
<1>7. Table!Update(j, state)
  BY <1>5, <1>6 DEF Table!Update, Rows, Hands
<1>8. QED
  BY <1>1, <1>7 DEF Table!Next

LEMMA WorkerTable ==
  ASSUME PipelineInv, PipelineInv', NEW w \in Workers, WorkerStep(w) \/ PauseCancelled(w)
  PROVE  [Table!Next]_Table!vars
<1>1. /\ wrk \in [Workers -> WorkerState]
      /\ wrk[w].job = None <=> wrk[w].pc \in {"recv", "stopped"}
  BY DEF PipelineInv, TypeOK, HandsHold
<1>2. NewWorker.job = None /\ DeadWorker.job = None
  BY DEF NewWorker, DeadWorker
<1>3. FreeWorker.job = None
  BY <1>2 DEF FreeWorker
<1>4. ASSUME NEW x, x.job = wrk[w].job, wrk' = [wrk EXCEPT ![w] = x],
             UNCHANGED <<rows, poll, queue, overtakes>>
      PROVE  [Table!Next]_Table!vars
  <2>1. wrk'[w].job = wrk[w].job /\ \A v \in Workers \ {w} : wrk'[v] = wrk[v]
    BY <1>1, <1>4
  <2>2. \A j \in Jobs : Copies(j)' = Copies(j)
    BY <1>4, <2>1, KeptCopies
  <2>3. \A j \in Jobs : JobRow(j)' = JobRow(j)
    BY <1>4 DEF JobRow
  <2>4. QED
    BY <1>4, <2>2, <2>3, Stutters
<1>5. ASSUME NEW pc, Goes(w, pc), UNCHANGED <<rows, poll, queue, overtakes>>
      PROVE  [Table!Next]_Table!vars
  <2> DEFINE x == [wrk[w] EXCEPT !.pc = pc]
  <2>1. x.job = wrk[w].job
    BY <1>1 DEF WorkerState
  <2>2. wrk' = [wrk EXCEPT ![w] = x]
    BY <1>5 DEF Goes
  <2> HIDE DEF x
  <2>3. QED
    BY <1>4, <1>5, <2>1, <2>2
<1>6. CASE Receive(w)
  <2>1. UNCHANGED <<rows, overtakes>>
    BY <1>6 DEF Receive, table
  <2>2. \A j \in Jobs : Copies(j)' = Copies(j)
    BY <1>6, ReceiveCopies
  <2>3. QED
    BY <2>1, <2>2, Stutters DEF JobRow
<1>7. CASE StopWorker(w)
  BY <1>1, <1>2, <1>4, <1>7 DEF StopWorker, table
<1>8. CASE RLock(w)
  BY <1>5, <1>8 DEF RLock, table
<1>9. CASE TryLock(w) \/ CountReaders(w) \/ Release(w)
  BY <1>5, <1>9 DEF TryLock, CountReaders, Release, table
<1>10. CASE Resume(w) \/ PauseCancelled(w) \/ HandleErr(w) \/ TooManyRequests(w)
  BY <1>5, <1>10 DEF Resume, PauseCancelled, HandleErr, TooManyRequests, table
<1>11. ASSUME NEW status, Handle(w, status) PROVE [Table!Next]_Table!vars
  BY <1>1, <1>3, <1>11, Saves DEF Handle
<1>12. CASE Fail(w)
  BY <1>1, <1>2, <1>12, Saves DEF Fail
<1>13. CASE FailErr(w)
  <2>1. /\ wrk' = [wrk EXCEPT ![w] = DeadWorker] /\ wrk[w].job # None
        /\ UNCHANGED <<rows, poll, queue, overtakes>>
    BY <1>1, <1>13 DEF FailErr, table
  <2>2. \A j \in Jobs : Copies(j) = Copies(j)' + (IF j = wrk[w].job THEN 1 ELSE 0)
    BY <1>2, <2>1, LetsGo
  <2>3. ASSUME NEW j \in Jobs PROVE Copies(j)' <= Copies(j)
    <3>1. Copies(j) \in Nat /\ Copies(j)' \in Nat
      BY CopiesSplit, CopiesNext
    <3>2. QED
      BY <2>2, <3>1
  <2>4. \A j \in Jobs : JobRow(j)' = JobRow(j)
    BY <2>1 DEF JobRow
  <2>5. QED
    BY <2>1, <2>3, <2>4, Drops DEF Table!Next
<1>14. QED
  BY <1>6, <1>7, <1>8, <1>9, <1>10, <1>11, <1>12, <1>13 DEF WorkerStep

LEMMA FixTable ==
  ASSUME PipelineInv, PipelineInv',
         (\E S \in SUBSET Jobs : FixProcessingTimeout(S)) \/ StopFix
  PROVE  [Table!Next]_Table!vars
<1>1. ASSUME NEW S \in SUBSET Jobs, FixProcessingTimeout(S) PROVE [Table!Next]_Table!vars
  <2>1. /\ \A j \in S : rows[j] = "taken"
        /\ rows' = [j \in Jobs |-> IF j \in S THEN "scheduled" ELSE rows[j]]
        /\ UNCHANGED <<poll, queue, wrk>>
    BY <1>1 DEF FixProcessingTimeout
  <2>2. overtakes' = overtakes + Cardinality({j \in S : Hands[j] > 0})
    <3>1. {j \in S : Copies(j) > 0} = {j \in S : Hands[j] > 0}
      BY DEF Hands
    <3>2. overtakes' = overtakes + Cardinality({j \in S : Copies(j) > 0})
      BY <1>1 DEF FixProcessingTimeout
    <3>3. QED
      BY <3>1, <3>2
  <2>3. Hands' = Hands
    BY <2>1 DEF Hands, Copies
  <2>4. /\ \A j \in S : Rows[j] = "taken"
        /\ Rows' = [j \in Jobs |-> IF j \in S THEN "scheduled" ELSE Rows[j]]
    BY <2>1 DEF Rows, JobRow
  <2>5. Table!FixProcessingTimeout(S)
    BY <2>2, <2>3, <2>4, TableCounts DEF Table!FixProcessingTimeout, Rows, Hands
  <2>6. QED
    BY <2>5 DEF Table!Next
<1>2. CASE StopFix
  <2>1. UNCHANGED <<rows, poll, queue, wrk, overtakes>>
    BY <1>2 DEF StopFix, table
  <2>2. QED
    BY <2>1, Stutters DEF JobRow, Copies
<1>3. QED
  BY <1>1, <1>2

\* All workers are replaced at once, by ones that hold nothing.
LEMMA NewHands ==
  ASSUME PipelineInv, PipelineInv', NEW x, x.job = None,
         wrk' = [w \in Workers |-> x], poll'.batch = {}, queue' = queue \/ queue' = <<>>
  PROVE  \A j \in Jobs : Copies(j)' <= Copies(j)
<1> SUFFICES ASSUME NEW j \in Jobs PROVE Copies(j)' <= Copies(j)
  OBVIOUS
<1>1. AtWorkers(wrk', j) = 0
  <2>1. {w \in Workers : wrk'[w].job = j} = {}
    BY ConstantsAssumption
  <2>2. QED
    BY <2>1, FS_EmptySet DEF AtWorkers
<1>2. InBatch(poll'.batch, j) = 0
  BY DEF InBatch
<1>3. InQueue(queue', j) <= InQueue(queue, j)
  <2>1. CASE queue' = queue
    BY <2>1, CopiesSplit
  <2>2. CASE queue' = <<>>
    <3>1. {i \in DOMAIN queue' : queue'[i] = j} = {}
      BY <2>2, EmptySeq
    <3>2. InQueue(queue', j) = 0
      BY <3>1, FS_EmptySet DEF InQueue
    <3>3. QED
      BY <3>2, CopiesSplit
  <2>3. QED
    BY <2>1, <2>2
<1>4. QED
  BY <1>1, <1>2, <1>3, CopiesSplit, CopiesNext

LEMMA AppTable ==
  ASSUME PipelineInv, PipelineInv',
         HandleStageReturns \/ AppStep \/ Signal \/ Tick \/ Crash
  PROVE  [Table!Next]_Table!vars
<1>1. CASE HandleStageReturns \/ Signal \/ Notified \/ Shutdown \/ Tick
  <2>1. UNCHANGED <<rows, poll, queue, wrk, overtakes>>
    BY <1>1 DEF HandleStageReturns, Signal, Notified, Shutdown, Tick, table
  <2>2. QED
    BY <2>1, Stutters DEF JobRow, Copies
<1>2. CASE Dies
  <2>1. DeadWorker.job = None
    BY DEF DeadWorker
  <2>2. /\ wrk' = [w \in Workers |-> DeadWorker] /\ poll'.batch = {} /\ queue' = <<>>
        /\ UNCHANGED overtakes
        /\ rows' = [j \in Jobs |-> IF rows[j] = "pending" THEN "none" ELSE rows[j]]
    BY <1>2 DEF Dies
  <2>3. \A j \in Jobs : JobRow(j)' = JobRow(j)
    BY <2>2 DEF JobRow
  <2>4. \A j \in Jobs : Copies(j)' <= Copies(j)
    BY <2>1, <2>2, NewHands
  <2>5. QED
    BY <2>2, <2>3, <2>4, Drops DEF Table!Next
<1>3. CASE Start
  <2>1. NewWorker.job = None
    BY DEF NewWorker
  <2>2. /\ wrk' = [w \in Workers |-> NewWorker] /\ poll'.batch = {}
        /\ UNCHANGED <<rows, queue, overtakes>>
    BY <1>3 DEF Start, table
  <2>3. \A j \in Jobs : Copies(j)' <= Copies(j)
    BY <2>1, <2>2, NewHands
  <2>4. QED
    BY <2>2, <2>3, Drops DEF Table!Next, JobRow
<1>4. QED
  BY <1>1, <1>2, <1>3 DEF AppStep, Exit, Crash

\* Each step is one of the table, or changes nothing there.
LEMMA TableStep == PipelineInv /\ PipelineInv' /\ [Next]_vars => [Table!Next]_Table!vars
<1> SUFFICES ASSUME PipelineInv, PipelineInv', [Next]_vars PROVE [Table!Next]_Table!vars
  OBVIOUS
<1>1. CASE UNCHANGED vars
  <2>1. UNCHANGED <<rows, poll, queue, wrk, overtakes>>
    BY <1>1 DEF vars
  <2>2. QED
    BY <2>1, Stutters DEF JobRow, Copies
<1>2. QED
  BY <1>1, UploadTable, PollTable, WorkerTable, FixTable, AppTable DEF Next, PollStep

\* Channel, workers and every way of stopping keep the promise of table jobs
\* (PollStage, HandleStage, FixStage over JobRepo): nobody fetches a job that
\* is not scheduled, and only its holder saves it.
THEOREM PipelineIsTable == Spec => TableSpec
<1>1. QED
  BY TableInit, TableStep, PipelineInvInit, PipelineInvStep, PTL
     DEF Spec, TableSpec, Table!Spec

\* With the promise comes its bound, from the proof of the lease.
Lease == INSTANCE JobTableProofs WITH
    row       <- [j \in Jobs |-> JobRow(j)],
    holders   <- [j \in Jobs |-> Copies(j)],
    overtaken <- overtakes

\* A job is in memory at most once, and once more for each lease the fix stage
\* gave away (JobRepo.GetUpdate, JobRepo.FixProcessingTimeout).
THEOREM CopiesAlwaysBounded == Spec => []CopiesBounded
<1>1. Table!Init => Lease!LeaseInv
  BY DEF Table!Init, Lease!LeaseInv, Lease!TypeOK, Lease!LeaseBound, Lease!UnbornUnheld,
         Lease!RowStates
<1>2. [Table!Next]_Table!vars => [Lease!Next]_Lease!vars
  BY DEF Table!Next, Table!vars, Table!Create, Table!Update, Table!GetUpdate,
         Table!FixProcessingTimeout, Table!Drop, Table!Cardinality,
         Lease!Next, Lease!vars, Lease!Create, Lease!Update, Lease!GetUpdate,
         Lease!FixProcessingTimeout, Lease!Drop, Lease!Cardinality
<1>3. Lease!LeaseInv /\ [Table!Next]_Table!vars => Lease!LeaseInv'
  <2>1. Lease!IsFiniteSet(Jobs)
    BY ConstantsAssumption DEF Lease!IsFiniteSet, IsFiniteSet
  <2>2. QED
    BY <1>2, <2>1, Lease!LeaseStep
<1>4. Lease!LeaseInv => CopiesBounded
  BY DEF Lease!LeaseInv, Lease!LeaseBound, CopiesBounded, JobRow
<1>5. QED
  BY <1>1, <1>3, <1>4, PipelineIsTable, PTL DEF TableSpec, Table!Spec
-----------------------------------------------------------------------------
(* The lock of the handle stage.                                           *)

\* The inner mutex has one holder: without it two workers could both find no
\* reader and both pause.
HoldsMutex(w) == wrk[w].pc \in {"count", "pause", "again", "give up"}
OneHolds == \A v, w \in Workers : HoldsMutex(v) /\ HoldsMutex(w) => v = w

LockInv == OneHolds /\ PauseExcludes

\* A step that takes neither mutex nor lock.
LEMMA LockKept ==
  ASSUME LockInv, NEW w \in Workers, \A v \in Workers \ {w} : wrk'[v] = wrk[v],
         HoldsMutex(w)' => HoldsMutex(w), wrk'[w].pc \notin {"handle", "pause"}
  PROVE  LockInv'
<1>1. OneHolds'
  BY DEF LockInv, OneHolds, HoldsMutex
<1>2. PauseExcludes'
  BY DEF LockInv, PauseExcludes, At
<1>3. QED
  BY <1>1, <1>2 DEF LockInv

LEMMA LockWorker ==
  ASSUME LockInv, PipelineInv, NEW w \in Workers, WorkerStep(w) \/ PauseCancelled(w)
  PROVE  LockInv'
<1>1. wrk \in [Workers -> WorkerState]
  BY DEF PipelineInv, TypeOK
<1>2. ASSUME NEW pc, Goes(w, pc)
      PROVE  wrk'[w].pc = pc /\ \A v \in Workers \ {w} : wrk'[v] = wrk[v]
  BY <1>1, <1>2 DEF Goes, WorkerState
<1>3. ASSUME NEW pc \in {"lock", "trylock", "fail"}, Goes(w, pc) PROVE LockInv'
  BY <1>2, <1>3, LockKept DEF HoldsMutex
<1>4. ASSUME NEW pc \in {"again", "give up"}, Goes(w, pc), HoldsMutex(w) PROVE LockInv'
  BY <1>2, <1>4, LockKept
<1>5. CASE RLock(w)
  <2>1. CASE inner
    BY <1>3, <1>5, <2>1 DEF RLock
  <2>2. CASE ~inner
    <3>1. wrk'[w].pc = "handle" /\ \A v \in Workers \ {w} : wrk'[v] = wrk[v]
      BY <1>2, <1>5, <2>2 DEF RLock
    <3>2. OneHolds'
      BY <3>1 DEF LockInv, OneHolds, HoldsMutex
    <3>3. PauseExcludes'
      BY <1>5, <3>1 DEF RLock, NoWriter, PauseExcludes, At
    <3>4. QED
      BY <3>2, <3>3 DEF LockInv
  <2>3. QED
    BY <2>1, <2>2
<1>6. CASE TryLock(w)
  <2>1. CASE InnerHeld
    BY <1>3, <1>6, <2>1 DEF TryLock
  <2>2. CASE ~InnerHeld
    <3>1. wrk'[w].pc = "count" /\ \A v \in Workers \ {w} : wrk'[v] = wrk[v]
      BY <1>2, <1>6, <2>2 DEF TryLock
    <3>2. \A v \in Workers : ~HoldsMutex(v)
      BY <2>2 DEF InnerHeld, At, HoldsMutex
    <3>3. OneHolds'
      BY <3>1, <3>2 DEF OneHolds, HoldsMutex
    <3>4. PauseExcludes'
      BY <3>1 DEF LockInv, PauseExcludes, At
    <3>5. QED
      BY <3>3, <3>4 DEF LockInv
  <2>3. QED
    BY <2>1, <2>2
<1>7. CASE CountReaders(w)
  <2>1. HoldsMutex(w)
    BY <1>7 DEF CountReaders, HoldsMutex
  <2>2. CASE ~NoReader
    BY <1>4, <1>7, <2>1, <2>2 DEF CountReaders
  <2>3. CASE NoReader
    <3>1. wrk'[w].pc = "pause" /\ \A v \in Workers \ {w} : wrk'[v] = wrk[v]
      BY <1>2, <1>7, <2>3 DEF CountReaders
    <3>2. \A v \in Workers \ {w} : wrk[v].pc \notin {"handle", "pause"}
      BY <2>1, <2>3 DEF NoReader, At, LockInv, OneHolds, HoldsMutex
    <3>3. OneHolds'
      BY <2>1, <3>1 DEF LockInv, OneHolds, HoldsMutex
    <3>4. PauseExcludes'
      BY <3>1, <3>2 DEF PauseExcludes, At
    <3>5. QED
      BY <3>3, <3>4 DEF LockInv
  <2>4. QED
    BY <2>2, <2>3
<1>8. CASE Resume(w) \/ PauseCancelled(w)
  BY <1>4, <1>8 DEF Resume, PauseCancelled, HoldsMutex
<1>9. CASE Release(w) \/ HandleErr(w) \/ TooManyRequests(w)
  BY <1>3, <1>9 DEF Release, HandleErr, TooManyRequests
<1>10. CASE Receive(w)
  <2>1. wrk'[w].pc = "lock" /\ \A v \in Workers \ {w} : wrk'[v] = wrk[v]
    BY <1>1, <1>10 DEF Receive
  <2>2. QED
    BY <2>1, LockKept DEF HoldsMutex
<1>11. CASE StopWorker(w) \/ Handle(w, "closed") \/ Handle(w, "scheduled") \/ Fail(w) \/ FailErr(w)
  <2>1. PICK x \in {NewWorker, DeadWorker} : wrk' = [wrk EXCEPT ![w] = x]
    BY <1>11 DEF StopWorker, Handle, FreeWorker, Fail, FailErr
  <2>2. x.pc \in {"recv", "stopped"}
    BY DEF NewWorker, DeadWorker
  <2>3. wrk'[w].pc \in {"recv", "stopped"} /\ \A v \in Workers \ {w} : wrk'[v] = wrk[v]
    BY <1>1, <2>1, <2>2
  <2>4. QED
    BY <2>3, LockKept DEF HoldsMutex
<1>12. QED
  BY <1>5, <1>6, <1>7, <1>8, <1>9, <1>10, <1>11 DEF WorkerStep

LEMMA LockStep == PipelineInv /\ LockInv /\ [Next]_vars => LockInv'
<1> SUFFICES ASSUME PipelineInv, LockInv, [Next]_vars PROVE LockInv'
  OBVIOUS
<1>1. ASSUME NEW w \in Workers, WorkerStep(w) \/ PauseCancelled(w) PROVE LockInv'
  BY <1>1, LockWorker
<1>2. ASSUME UNCHANGED wrk PROVE LockInv'
  BY <1>2 DEF LockInv, OneHolds, HoldsMutex, PauseExcludes, At
<1>3. ASSUME wrk' = [w \in Workers |-> DeadWorker] \/ wrk' = [w \in Workers |-> NewWorker]
      PROVE  LockInv'
  <2>1. \A w \in Workers : wrk'[w].pc \in {"recv", "stopped"}
    BY <1>3 DEF DeadWorker, NewWorker
  <2>2. OneHolds'
    BY <2>1 DEF OneHolds, HoldsMutex
  <2>3. PauseExcludes'
    BY <2>1 DEF PauseExcludes, At
  <2>4. QED
    BY <2>2, <2>3 DEF LockInv
<1>4. CASE PollStep \/ FetchNothing
  BY <1>2, <1>4 DEF PollStep, Fetch, FetchNothing, Send, Wake, StopPoll
<1>5. ASSUME NEW j \in Jobs, Enqueue(j) \/ CommitUpload(j) \/ RollBackUpload(j)
      PROVE  LockInv'
  BY <1>2, <1>5 DEF Enqueue, CommitUpload, RollBackUpload
<1>6. CASE (\E S \in SUBSET Jobs : FixProcessingTimeout(S)) \/ StopFix \/ HandleStageReturns
  BY <1>2, <1>6 DEF FixProcessingTimeout, StopFix, HandleStageReturns
<1>7. CASE AppStep \/ Signal \/ Tick \/ Crash
  <2>1. CASE Notified \/ Shutdown \/ Signal \/ Tick
    BY <1>2, <2>1 DEF Notified, Shutdown, Signal, Tick
  <2>2. CASE Exit \/ Crash
    BY <1>3, <2>2 DEF Exit, Crash, Dies
  <2>3. CASE Start
    BY <1>3, <2>3 DEF Start
  <2>4. QED
    BY <1>7, <2>1, <2>2, <2>3 DEF AppStep
<1>8. CASE UNCHANGED vars
  BY <1>2, <1>8 DEF vars
<1>9. QED
  BY <1>1, <1>4, <1>5, <1>6, <1>7, <1>8 DEF Next

\* While one worker sits out a Retry-After no handler asks the accrual system
\* and nobody else pauses (HandleStage.withRLock, withTryLock), although an
\* attempt at the lock takes two steps and may fail halfway.
THEOREM PauseAlwaysExcludes == Spec => []PauseExcludes
<1>1. ASSUME Init PROVE LockInv
  <2>1. \A w \in Workers : wrk[w].pc = "recv"
    BY <1>1 DEF Init, NewWorker
  <2>2. OneHolds
    BY <2>1 DEF OneHolds, HoldsMutex
  <2>3. PauseExcludes
    BY <2>1 DEF PauseExcludes, At
  <2>4. QED
    BY <2>2, <2>3 DEF LockInv
<1>2. LockInv => PauseExcludes
  BY DEF LockInv
<1>3. QED
  BY <1>1, <1>2, PipelineInvInit, PipelineInvStep, LockStep, PTL DEF Spec
-----------------------------------------------------------------------------
(* Taken jobs are in hand.                                                 *)

\* Before the first stop nothing is cancelled and no worker has stopped: this
\* is what keeps the stages from dropping what they hold.
NothingStopped ==
    stops = 0 =>
        /\ app = "running"
        /\ ~inner /\ ~outer
        /\ At({"stopped"}) = {}

InHandInv == PipelineInv /\ NothingStopped /\ TakenInHand

\* A step that takes nothing and loses no copy.
LEMMA InHandKept ==
  ASSUME InHandInv, PipelineInv', NothingStopped', stops' = stops,
         \A j \in Jobs : rows'[j] = "taken" => rows[j] = "taken" /\ Copies(j)' = Copies(j)
  PROVE  InHandInv'
BY DEF InHandInv, TakenInHand

\* Once something was stopped there is nothing to keep.
LEMMA InHandStopped ==
  ASSUME PipelineInv', stops' # 0 PROVE InHandInv'
BY DEF InHandInv, NothingStopped, TakenInHand

LEMMA InHandWorker ==
  ASSUME InHandInv, PipelineInv', NEW w \in Workers, WorkerStep(w) \/ PauseCancelled(w),
         stops = 0
  PROVE  InHandInv'
<1>1. /\ wrk \in [Workers -> WorkerState] /\ stops \in Nat
      /\ wrk[w].job = None <=> wrk[w].pc \in {"recv", "stopped"}
  BY ConstantsAssumption DEF InHandInv, PipelineInv, TypeOK, HandsHold
<1>2. ~inner /\ ~outer /\ app = "running" /\ At({"stopped"}) = {}
  BY DEF InHandInv, NothingStopped
<1>3. ASSUME wrk'[w].pc # "stopped", \A v \in Workers \ {w} : wrk'[v] = wrk[v],
             UNCHANGED <<contexts, process>>
      PROVE  NothingStopped'
  BY <1>2, <1>3 DEF NothingStopped, At, contexts, process
<1>4. ASSUME wrk'[w].pc # "stopped", wrk'[w].job = wrk[w].job,
             \A v \in Workers \ {w} : wrk'[v] = wrk[v],
             UNCHANGED <<rows, poll, queue, contexts, process>>
      PROVE  InHandInv'
  <2>1. NothingStopped'
    BY <1>3, <1>4
  <2>2. \A j \in Jobs : Copies(j)' = Copies(j)
    BY <1>4, KeptCopies DEF InHandInv
  <2>3. QED
    BY <1>4, <2>1, <2>2, InHandKept DEF process
<1>5. ASSUME NEW pc, pc # "stopped", Goes(w, pc),
             UNCHANGED <<rows, poll, queue, contexts, process>>
      PROVE  InHandInv'
  <2>1. /\ wrk'[w].pc = pc /\ wrk'[w].job = wrk[w].job
        /\ \A v \in Workers \ {w} : wrk'[v] = wrk[v]
    BY <1>1, <1>5 DEF Goes, WorkerState
  <2>2. QED
    BY <1>4, <1>5, <2>1
<1>6. ASSUME NEW status, status # "taken", wrk[w].job # None,
             rows' = [rows EXCEPT ![wrk[w].job] = status],
             wrk' = [wrk EXCEPT ![w] = NewWorker],
             UNCHANGED <<poll, queue, contexts, process, overtakes>>
      PROVE  InHandInv'
  <2>1. NewWorker.job = None /\ NewWorker.pc = "recv"
    BY DEF NewWorker
  <2>2. wrk'[w].pc # "stopped" /\ \A v \in Workers \ {w} : wrk'[v] = wrk[v]
    BY <1>1, <1>6, <2>1
  <2>3. NothingStopped'
    BY <1>3, <1>6, <2>2
  <2>4. /\ wrk[w].job \in Jobs
        /\ \A j \in Jobs : Copies(j) = Copies(j)' + (IF j = wrk[w].job THEN 1 ELSE 0)
    BY <1>6, <2>1, LetsGo DEF InHandInv
  <2>5. \A j \in Jobs : Copies(j)' \in Nat
    BY CopiesNext
  <2>6. ASSUME NEW j \in Jobs, rows'[j] = "taken"
        PROVE  rows[j] = "taken" /\ Copies(j)' = Copies(j)
    <3>1. j # wrk[w].job /\ rows[j] = "taken"
      BY <1>6, <2>4, <2>6 DEF InHandInv, PipelineInv, TypeOK
    <3>2. QED
      BY <2>4, <2>5, <3>1
  <2>7. QED
    BY <1>6, <2>3, <2>6, InHandKept DEF process
<1>7. CASE Receive(w)
  <2>1. wrk'[w].pc = "lock" /\ \A v \in Workers \ {w} : wrk'[v] = wrk[v]
    BY <1>1, <1>7 DEF Receive
  <2>2. NothingStopped'
    BY <1>3, <1>7, <2>1 DEF Receive
  <2>3. \A j \in Jobs : Copies(j)' = Copies(j)
    BY <1>7, ReceiveCopies DEF InHandInv
  <2>4. QED
    BY <1>7, <2>2, <2>3, InHandKept DEF Receive, table, process
<1>8. CASE RLock(w)
  BY <1>5, <1>8 DEF RLock, table
<1>9. CASE TryLock(w) \/ CountReaders(w) \/ Release(w)
  BY <1>5, <1>9 DEF TryLock, CountReaders, Release, table
<1>10. CASE Resume(w) \/ HandleErr(w) \/ TooManyRequests(w)
  BY <1>5, <1>10 DEF Resume, HandleErr, TooManyRequests, table
<1>11. ASSUME NEW status \in {"closed", "scheduled"}, Handle(w, status) PROVE InHandInv'
  <2>1. FreeWorker = NewWorker /\ wrk[w].job # None
    BY <1>1, <1>2, <1>11 DEF Handle, FreeWorker
  <2>2. QED
    BY <1>6, <1>11, <2>1 DEF Handle
<1>12. CASE Fail(w)
  <2>1. wrk[w].job # None
    BY <1>1, <1>12 DEF Fail
  <2>2. QED
    BY <1>6, <1>12, <2>1 DEF Fail
<1>13. CASE FailErr(w)
  <2>1. stops' # 0
    BY <1>1, <1>2, <1>13 DEF FailErr
  <2>2. QED
    BY <2>1, InHandStopped
<1>14. QED
  BY <1>2, <1>7, <1>8, <1>9, <1>10, <1>11, <1>12, <1>13
     DEF WorkerStep, StopWorker, PauseCancelled

LEMMA InHandPoll ==
  ASSUME InHandInv, PipelineInv', PollStep \/ FetchNothing, stops = 0
  PROVE  InHandInv'
<1>1. UNCHANGED <<wrk, fix, contexts, process, overtakes>>
  BY DEF PollStep, Fetch, FetchNothing, Send, Wake, StopPoll, table
<1>2. NothingStopped'
  BY <1>1 DEF InHandInv, NothingStopped, At, contexts, process
<1>3. ASSUME NEW S \in SUBSET Jobs, Fetch(S) PROVE InHandInv'
  <2>1. /\ rows' = [j \in Jobs |-> IF j \in S THEN "taken" ELSE rows[j]]
        /\ poll.batch = {} /\ poll'.batch = S /\ UNCHANGED queue
    BY <1>3 DEF Fetch, Taken, InHandInv, PipelineInv, HandsHold
  <2>2. ASSUME NEW j \in Jobs, rows'[j] = "taken" PROVE Copies(j)' > 0
    <3>1. CASE j \in S
      <4>1. InBatch(poll'.batch, j) = 1
        BY <2>1, <3>1 DEF InBatch
      <4>2. QED
        BY <4>1, CopiesNext
    <3>2. CASE j \notin S
      <4>1. rows[j] = "taken" /\ Copies(j) > 0
        BY <2>1, <2>2, <3>2 DEF InHandInv, TakenInHand
      <4>2. InBatch(poll'.batch, j) = InBatch(poll.batch, j)
        BY <2>1, <3>2 DEF InBatch
      <4>3. QED
        BY <1>1, <2>1, <4>1, <4>2, CopiesSplit, CopiesNext DEF InHandInv
    <3>3. QED
      BY <3>1, <3>2
  <2>3. QED
    BY <1>2, <2>2 DEF InHandInv, TakenInHand
<1>4. ASSUME NEW k \in Jobs, Send(k) PROVE InHandInv'
  <2>1. \A j \in Jobs : Copies(j)' = Copies(j)
    BY <1>4, SendCopies DEF InHandInv
  <2>2. QED
    BY <1>1, <1>2, <1>4, <2>1, InHandKept DEF Send, table, process
<1>5. CASE FetchNothing \/ Wake
  <2>1. poll'.batch = poll.batch /\ UNCHANGED <<rows, queue>>
    BY <1>5 DEF FetchNothing, Wake, table, InHandInv, PipelineInv, TypeOK, PollState
  <2>2. \A j \in Jobs : Copies(j)' = Copies(j)
    BY <1>1, <2>1 DEF Copies
  <2>3. QED
    BY <1>1, <1>2, <2>1, <2>2, InHandKept DEF process
<1>6. ~StopPoll
  BY DEF StopPoll, InHandInv, NothingStopped
<1>7. QED
  BY <1>3, <1>4, <1>5, <1>6 DEF PollStep

LEMMA InHandStep ==
  ASSUME Workers # {}, InHandInv, PipelineInv', [Next]_vars PROVE InHandInv'
<1>1. stops \in Nat /\ stops' \in Nat
  BY ConstantsAssumption DEF InHandInv, PipelineInv, TypeOK
<1>2. CASE stops # 0
  <2>1. stops' = stops \/ stops' = stops + 1
    BY DEF Next, PollStep, WorkerStep, AppStep, vars, table, process, contexts,
           Enqueue, CommitUpload, RollBackUpload, Fetch, FetchNothing, Send, Wake, StopPoll,
           Receive, StopWorker, RLock, TryLock, CountReaders, Resume, PauseCancelled, Release,
           HandleErr, Handle, TooManyRequests, Fail, FailErr, HandleStageReturns, FixProcessingTimeout, StopFix,
           Notified, Shutdown, Exit, Start, Signal, Tick, Crash
  <2>2. QED
    BY <1>1, <1>2, <2>1, InHandStopped
<1>3. CASE stops = 0
  <2>1. /\ app = "running" /\ ~inner /\ ~outer /\ At({"stopped"}) = {}
    BY <1>3 DEF InHandInv, NothingStopped
  <2>2. ~AllStopped /\ ~ (Workers \subseteq At({"stopped"}))
    BY <2>1 DEF AllStopped
  <2>3. ASSUME UNCHANGED <<poll, queue, wrk, contexts, process>>,
               \A j \in Jobs : rows'[j] = "taken" => rows[j] = "taken"
        PROVE  InHandInv'
    <3>1. NothingStopped'
      BY <2>3 DEF InHandInv, NothingStopped, At, contexts, process
    <3>2. \A j \in Jobs : Copies(j)' = Copies(j)
      BY <2>3 DEF Copies
    <3>3. QED
      BY <2>3, <3>1, <3>2, InHandKept DEF process
  <2>4. ASSUME NEW j \in Jobs, Enqueue(j) \/ CommitUpload(j) \/ RollBackUpload(j)
        PROVE  InHandInv'
    <3>1. \A k \in Jobs : rows'[k] = "taken" => rows[k] = "taken"
      BY <2>4 DEF Enqueue, CommitUpload, RollBackUpload, InHandInv, PipelineInv, TypeOK
    <3>2. QED
      BY <2>3, <2>4, <3>1 DEF Enqueue, CommitUpload, RollBackUpload
  <2>5. ASSUME NEW S \in SUBSET Jobs, FixProcessingTimeout(S) PROVE InHandInv'
    BY <2>3, <2>5 DEF FixProcessingTimeout
  <2>6. CASE PollStep \/ FetchNothing
    BY <1>3, <2>6, InHandPoll
  <2>7. ASSUME NEW w \in Workers, WorkerStep(w) \/ PauseCancelled(w) PROVE InHandInv'
    BY <1>3, <2>7, InHandWorker
  <2>8. CASE Signal \/ Crash
    <3>1. stops' # 0
      BY <1>1, <2>8 DEF Signal, Crash
    <3>2. QED
      BY <3>1, InHandStopped
  <2>9. ~ (StopFix \/ HandleStageReturns \/ AppStep \/ Tick)
    BY <2>1, <2>2 DEF StopFix, HandleStageReturns, AppStep, Notified, Shutdown, Exit, Start, Tick
  <2>10. CASE UNCHANGED vars
    BY <2>3, <2>10 DEF vars, contexts, process
  <2>11. QED
    BY <2>4, <2>5, <2>6, <2>7, <2>8, <2>9, <2>10 DEF Next
<1>4. QED
  BY <1>2, <1>3

\* Before the first stop no fetched job slips away between the poll stage, the
\* channel and a worker (PollStage.Run, HandleStage.worker), given a worker.
THEOREM TakenAlwaysInHand == ASSUME Workers # {} PROVE Spec => []TakenInHand
<1>1. Init => InHandInv
  BY PipelineInvInit
     DEF Init, InHandInv, NothingStopped, TakenInHand, At, NewWorker
<1>2. InHandInv /\ PipelineInv' /\ [Next]_vars => InHandInv'
  BY InHandStep
<1>3. InHandInv => TakenInHand
  BY DEF InHandInv
<1>4. QED
  BY <1>1, <1>2, <1>3, PipelineInvInit, PipelineInvStep, PTL DEF Spec
=============================================================================
