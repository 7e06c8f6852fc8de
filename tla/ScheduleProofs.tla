--------------------------- MODULE ScheduleProofs ---------------------------
(***************************************************************************)
(* Theorems about Schedule, for any finite set of jobs, any size of a      *)
(* fetch, any timeout and delay, and any number of crashes and of failing  *)
(* runs of the fix stage: how long a job is lost, that the job table is    *)
(* implemented, and that nobody who is due is starved.                     *)
(***************************************************************************)
EXTENDS Schedule, FiniteSetTheorems, SequenceTheorems, TLAPS

-----------------------------------------------------------------------------
(* The leases.                                                             *)

\* The longest that a job may be lost when so many runs of the fix stage
\* have failed.
Limits(f) == ProcTimeout + FixDelay * (1 + f)

\* A holder keeps its lease.
LeasesKept == \A j \in Jobs : row[j] = "taken" => clock[j] \in 0..ProcTimeout

\* What is left for a lost job includes the time until the next run of the
\* fix stage: that one finds it overdue, or leaves it one more delay.
LostFound ==
    \A j \in Jobs : row[j] = "lost" => clock[j] \in Nat /\ clock[j] + fixIn <= Limits(failures)

ScheduleInv ==
    /\ row \in [Jobs -> {"none", "due", "later", "taken", "lost", "closed"}]
    /\ clock = [j \in Jobs |-> clock[j]]
    /\ fixIn \in 0..FixDelay
    /\ failures \in Nat
    /\ LeasesKept
    /\ LostFound

LEMMA LimitsGrow ==
  ASSUME NEW f \in Nat
  PROVE  /\ Limits(f) \in Nat
         /\ ProcTimeout + FixDelay <= Limits(f)
         /\ Limits(f + 1) = Limits(f) + FixDelay
<1>1. FixDelay \in Nat /\ ProcTimeout \in Nat
  BY ScheduleAssumption
<1>2. FixDelay * f \in Nat /\ FixDelay * (1 + f) = FixDelay + FixDelay * f
  BY <1>1
<1>3. FixDelay * (1 + (f + 1)) = FixDelay + FixDelay * (1 + f)
  BY <1>1
<1>4. QED
  BY <1>1, <1>2, <1>3 DEF Limits

LEMMA ScheduleInvInit == Init => ScheduleInv
BY ScheduleAssumption DEF Init, ScheduleInv, LeasesKept, LostFound

\* A step in which no job is fetched or lost, and time stands still.
LEMMA RowsLeft ==
  ASSUME ScheduleInv, row' \in [Jobs -> {"none", "due", "later", "taken", "lost", "closed"}],
         clock' = [j \in Jobs |-> clock'[j]], UNCHANGED <<fixIn, failures>>,
         \A j \in Jobs : row'[j] = "taken" => clock'[j] \in 0..ProcTimeout,
         \A j \in Jobs : row'[j] = "lost" => row[j] = "lost" /\ clock'[j] = clock[j]
  PROVE  ScheduleInv'
BY DEF ScheduleInv, LeasesKept, LostFound, Limits

LEMMA FetchSchedule ==
  ASSUME ScheduleInv, NEW S \in SUBSET Jobs, GetUpdate(S) PROVE ScheduleInv'
BY RowsLeft, ScheduleAssumption DEF GetUpdate, ScheduleInv, LeasesKept

LEMMA HandleSchedule ==
  ASSUME ScheduleInv, NEW j \in Jobs, Create(j) \/ Close(j) \/ PutOff(j) PROVE ScheduleInv'
<1>1. CASE Create(j)
  BY <1>1, RowsLeft DEF Create, ScheduleInv, LeasesKept
<1>2. CASE Close(j)
  BY <1>2, RowsLeft DEF Close, ScheduleInv, LeasesKept
<1>3. CASE PutOff(j)
  BY <1>3, RowsLeft DEF PutOff, ScheduleInv, LeasesKept
<1>4. QED
  BY <1>1, <1>2, <1>3

LEMMA FixSchedule == ASSUME ScheduleInv, FixProcessingTimeout PROVE ScheduleInv'
<1> USE DEF ScheduleInv
<1>1. /\ fixIn' = FixDelay /\ FixDelay \in Nat /\ ProcTimeout \in Nat /\ failures' = failures
      /\ row' = [j \in Jobs |-> IF j \in Overdue THEN "due" ELSE row[j]]
      /\ clock' = [j \in Jobs |-> IF j \in Overdue THEN 0 ELSE clock[j]]
  BY ScheduleAssumption DEF FixProcessingTimeout
<1>2. LeasesKept'
  BY <1>1 DEF LeasesKept
<1>3. ASSUME NEW j \in Jobs, row'[j] = "lost"
      PROVE  clock'[j] \in Nat /\ clock'[j] + fixIn' <= Limits(failures')
  <2>1. row[j] = "lost" /\ j \notin Overdue /\ clock'[j] = clock[j]
    BY <1>1, <1>3
  <2>2. clock[j] \in Nat /\ clock[j] <= ProcTimeout
    BY <1>1, <2>1 DEF Overdue, LostFound
  <2>3. QED
    BY <1>1, <2>1, <2>2, LimitsGrow
<1>4. QED
  BY <1>1, <1>2, <1>3 DEF LostFound, Limits

LEMMA FixFailsSchedule == ASSUME ScheduleInv, FixFails PROVE ScheduleInv'
<1> USE DEF ScheduleInv
<1>1. /\ fixIn = 0 /\ fixIn' = FixDelay /\ FixDelay \in Nat /\ failures' = failures + 1
      /\ failures \in Nat /\ row' = row /\ clock' = clock
  BY ScheduleAssumption DEF FixFails
<1>2. LeasesKept'
  BY <1>1 DEF LeasesKept
<1>3. ASSUME NEW j \in Jobs, row'[j] = "lost"
      PROVE  clock'[j] \in Nat /\ clock'[j] + fixIn' <= Limits(failures')
  <2>1. clock[j] \in Nat /\ clock[j] + fixIn <= Limits(failures)
    BY <1>1, <1>3 DEF LostFound
  <2>2. Limits(failures') = Limits(failures) + FixDelay /\ Limits(failures) \in Nat
    BY <1>1, LimitsGrow
  <2>3. QED
    BY <1>1, <2>1, <2>2
<1>4. QED
  BY <1>1, <1>2, <1>3 DEF LostFound, Limits

LEMMA CrashSchedule == ASSUME ScheduleInv, Crash PROVE ScheduleInv'
<1> USE DEF ScheduleInv
<1>1. /\ fixIn' = 0 /\ fixIn \in Nat /\ FixDelay \in Nat /\ ProcTimeout \in Nat
      /\ failures' = failures /\ clock' = clock
      /\ row' = [j \in Jobs |-> IF row[j] = "taken" THEN "lost" ELSE row[j]]
  BY ScheduleAssumption DEF Crash
<1>2. LeasesKept'
  BY <1>1 DEF LeasesKept
<1>3. ASSUME NEW j \in Jobs, row'[j] = "lost"
      PROVE  clock'[j] \in Nat /\ clock'[j] + fixIn' <= Limits(failures')
  <2>1. Limits(failures) \in Nat /\ ProcTimeout <= Limits(failures)
    BY <1>1, LimitsGrow
  <2>2. CASE row[j] = "taken"
    BY <1>1, <2>1, <2>2 DEF LeasesKept
  <2>3. CASE row[j] = "lost"
    BY <1>1, <2>1, <2>3 DEF LostFound
  <2>4. QED
    BY <1>1, <1>3, <2>2, <2>3
<1>4. QED
  BY <1>1, <1>2, <1>3 DEF LostFound, Limits

LEMMA TickSchedule == ASSUME ScheduleInv, Tick PROVE ScheduleInv'
<1> USE DEF ScheduleInv
<1> DEFINE ripe == {j \in Jobs : row[j] = "later" /\ clock[j] = 1}
<1>1. /\ fixIn \in Nat /\ fixIn > 0 /\ fixIn' = fixIn - 1 /\ FixDelay \in Nat
      /\ ProcTimeout \in Nat /\ failures' = failures
      /\ \A j \in Jobs : row[j] = "taken" => clock[j] < ProcTimeout
      /\ row' = [j \in Jobs |-> IF j \in ripe THEN "due" ELSE row[j]]
      /\ clock' = [j \in Jobs |->
                CASE row[j] = "later" -> clock[j] - 1
                  [] row[j] \in {"taken", "lost"} -> clock[j] + 1
                  [] OTHER -> clock[j]]
  BY ScheduleAssumption DEF Tick
<1>2. ASSUME NEW j \in Jobs, row'[j] \in {"taken", "lost"}
      PROVE  row[j] = row'[j] /\ clock'[j] = clock[j] + 1
  BY <1>1, <1>2
<1>3. ASSUME NEW j \in Jobs, row'[j] = "taken" PROVE clock'[j] \in 0..ProcTimeout
  BY <1>1, <1>2, <1>3 DEF LeasesKept
<1>4. ASSUME NEW j \in Jobs, row'[j] = "lost"
      PROVE  clock'[j] \in Nat /\ clock'[j] + fixIn' <= Limits(failures')
  <2>1. clock[j] \in Nat /\ clock[j] + fixIn <= Limits(failures) /\ clock'[j] = clock[j] + 1
    BY <1>2, <1>4 DEF LostFound
  <2>2. clock'[j] + fixIn' = clock[j] + fixIn
    BY <1>1, <2>1
  <2>3. QED
    BY <1>1, <2>1, <2>2
<1>5. row' \in [Jobs -> {"none", "due", "later", "taken", "lost", "closed"}]
  BY <1>1
<1>6. clock' = [j \in Jobs |-> clock'[j]]
  BY <1>1
<1>7. fixIn' \in 0..FixDelay
  BY <1>1
<1>8. QED
  BY <1>1, <1>3, <1>4, <1>5, <1>6, <1>7 DEF LeasesKept, LostFound, Limits

LEMMA ScheduleInvStep == ScheduleInv /\ [Next]_vars => ScheduleInv'
<1> SUFFICES ASSUME ScheduleInv, [Next]_vars PROVE ScheduleInv'
  OBVIOUS
<1>1. CASE UNCHANGED vars
  BY <1>1, RowsLeft DEF vars, ScheduleInv, LeasesKept
<1>2. QED
  BY <1>1, HandleSchedule, FetchSchedule, FixSchedule, FixFailsSchedule, CrashSchedule,
     TickSchedule DEF Next

\* A job that was lost in a crash is scheduled again within the processing
\* timeout and the delays of the fix stage (FixStage.Run), one delay for each
\* of its runs that failed.
THEOREM LostNeverLong == Spec => []LostNotLong
<1>1. ScheduleInv => LostNotLong
  <2> SUFFICES ASSUME ScheduleInv, NEW j \in Jobs, row[j] \in {"taken", "lost"}
               PROVE  clock[j] <= Limits(failures)
    BY DEF LostNotLong, Limits
  <2>1. /\ Limits(failures) \in Nat /\ ProcTimeout + FixDelay <= Limits(failures)
        /\ ProcTimeout \in Nat /\ FixDelay \in Nat /\ fixIn \in Nat
    BY LimitsGrow, ScheduleAssumption DEF ScheduleInv
  <2>2. CASE row[j] = "taken"
    BY <2>1, <2>2 DEF ScheduleInv, LeasesKept
  <2>3. CASE row[j] = "lost"
    BY <2>1, <2>3 DEF ScheduleInv, LostFound
  <2>4. QED
    BY <2>2, <2>3
<1>2. QED
  BY <1>1, ScheduleInvInit, ScheduleInvStep, PTL DEF Spec
-----------------------------------------------------------------------------
(* Schedule implements the job table.                                      *)

\* The table counts as everybody does.
LEMMA TableCounts == ASSUME NEW S PROVE Table!Cardinality(S) = Cardinality(S)
BY DEF Table!Cardinality, Cardinality

LEMMA TableInit == Init => Table!Init
BY DEF Init, Table!Init, JobRow, Holders

\* A holder saves the job and lets go of it.
LEMMA Saved ==
  ASSUME ScheduleInv, NEW j \in Jobs, row[j] = "taken", NEW s \in {"later", "closed"},
         row' = [row EXCEPT ![j] = s]
  PROVE  Table!Update(j, IF s = "later" THEN "scheduled" ELSE s)
<1>1. [k \in Jobs |-> Holders(k)][j] = 1
  BY DEF Holders
<1>2. [k \in Jobs |-> Holders(k)]' = [[k \in Jobs |-> Holders(k)] EXCEPT ![j] = @ - 1]
  <2> DEFINE H == [k \in Jobs |-> Holders(k)]
  <2>1. H' = [H EXCEPT ![j] = 0]
    BY DEF Holders, ScheduleInv
  <2>2. H[j] - 1 = 0
    BY <1>1
  <2> HIDE DEF H
  <2>3. H' = [H EXCEPT ![j] = @ - 1]
    BY <2>1, <2>2
  <2>4. QED
    BY <2>3 DEF H
<1>3. [k \in Jobs |-> JobRow(k)]' =
          [[k \in Jobs |-> JobRow(k)] EXCEPT ![j] = IF s = "later" THEN "scheduled" ELSE s]
  BY DEF JobRow, ScheduleInv
<1>4. QED
  BY <1>1, <1>2, <1>3 DEF Table!Update

\* Each step is one of the table, or changes nothing there.
LEMMA TableStep == ScheduleInv /\ [Next]_vars => [Table!Next]_Table!vars
<1> SUFFICES ASSUME ScheduleInv, [Next]_vars PROVE [Table!Next]_Table!vars
  OBVIOUS
<1> USE DEF ScheduleInv
<1>1. ASSUME NEW j \in Jobs, Create(j) PROVE Table!Create(j)
  BY <1>1 DEF Create, Table!Create, JobRow, Holders
<1>2. ASSUME NEW j \in Jobs, Close(j) PROVE Table!Update(j, "closed")
  BY <1>2, Saved DEF Close
<1>3. ASSUME NEW j \in Jobs, PutOff(j) PROVE Table!Update(j, "scheduled")
  BY <1>3, Saved DEF PutOff
<1>4. ASSUME NEW S \in SUBSET Jobs, GetUpdate(S) PROVE Table!GetUpdate(S)
  <2>1. \A j \in S : row[j] \in {"due", "later"}
    BY <1>4 DEF GetUpdate, Selected, Scheduled
  <2>2. QED
    BY <1>4, <2>1 DEF GetUpdate, Table!GetUpdate, JobRow, Holders
<1>5. CASE FixProcessingTimeout
  <2>1. row' = [j \in Jobs |-> IF j \in Overdue THEN "due" ELSE row[j]]
    BY <1>5 DEF FixProcessingTimeout
  <2>2. \A j \in Overdue : row[j] = "lost"
    BY ScheduleAssumption DEF Overdue, LeasesKept
  <2>3. {j \in Overdue : [k \in Jobs |-> Holders(k)][j] > 0} = {}
    BY <2>2 DEF Holders, Overdue
  <2>4. Cardinality({j \in Overdue : [k \in Jobs |-> Holders(k)][j] > 0}) = 0
    BY <2>3, FS_EmptySet
  <2>5. [j \in Jobs |-> JobRow(j)]' =
            [j \in Jobs |-> IF j \in Overdue THEN "scheduled" ELSE [k \in Jobs |-> JobRow(k)][j]]
    BY <2>1, <2>2 DEF JobRow, Overdue
  <2>6. [j \in Jobs |-> Holders(j)]' = [j \in Jobs |-> Holders(j)]
    BY <2>1, <2>2 DEF Holders
  <2>7. \A j \in Overdue : [k \in Jobs |-> JobRow(k)][j] = "taken"
    BY <2>2 DEF JobRow, Overdue
  <2>8. Table!FixProcessingTimeout(Overdue)
    BY <2>4, <2>5, <2>6, <2>7, TableCounts DEF Table!FixProcessingTimeout
  <2>9. QED
    BY <2>8 DEF Table!Next, Overdue
<1>6. CASE Crash
  <2>1. row' = [j \in Jobs |-> IF row[j] = "taken" THEN "lost" ELSE row[j]]
    BY <1>6 DEF Crash
  <2>2. Table!Drop
    BY <2>1 DEF Table!Drop, JobRow, Holders
  <2>3. QED
    BY <2>2 DEF Table!Next
<1>7. CASE Tick
  <2>1. row' = [j \in Jobs |-> IF row[j] = "later" /\ clock[j] = 1 THEN "due" ELSE row[j]]
    BY <1>7 DEF Tick
  <2>2. QED
    BY <2>1 DEF Table!vars, JobRow, Holders
<1>8. CASE FixFails \/ UNCHANGED vars
  BY <1>8 DEF FixFails, vars, Table!vars, JobRow, Holders
<1>9. QED
  BY <1>1, <1>2, <1>3, <1>4, <1>5, <1>6, <1>7, <1>8 DEF Next, Table!Next

\* Time stamps, delays and the order of fetches do not break the promise of
\* table jobs (JobRepo): while leases are kept a fetched job has one holder.
THEOREM ScheduleIsTable == Spec => TableSpec
<1>1. QED
  BY TableInit, TableStep, ScheduleInvInit, ScheduleInvStep, PTL DEF Spec, TableSpec, Table!Spec
-----------------------------------------------------------------------------
(* Queues: sequences of jobs without repetitions.                          *)

\* No job is in q twice.
Distinct(q) == \A a, b \in DOMAIN q : q[a] = q[b] => a = b

\* The jobs at the first b places.
Ahead(q, b) == {q[a] : a \in 1..b}

\* The queue q holds the jobs of D, each once.
Queues(q, D) == q \in Seq(Jobs) /\ Distinct(q) /\ ToSet(q) = D

\* There are b jobs at the first b places.
LEMMA AheadCounts ==
  ASSUME NEW q \in Seq(Jobs), Distinct(q), NEW b \in 0..Len(q)
  PROVE  IsFiniteSet(Ahead(q, b)) /\ Cardinality(Ahead(q, b)) = b
<1> DEFINE f == [a \in 1..b |-> q[a]]
<1>1. b \in Nat /\ 1..b \subseteq DOMAIN q
  OBVIOUS
<1>2. f \in Bijection(1..b, Ahead(q, b))
  BY <1>1 DEF Ahead, Distinct, Bijection, Injection, Surjection, IsInjective
<1>3. IsFiniteSet(1..b) /\ Cardinality(1..b) = b
  BY <1>1, FS_Interval
<1>4. QED
  BY <1>2, <1>3, FS_Bijection DEF ExistsBijection

\* The queue is as long as its set is large.
LEMMA QueueCounts ==
  ASSUME NEW D, NEW q, Queues(q, D)
  PROVE  IsFiniteSet(D) /\ Cardinality(D) = Len(q)
<1>1. q \in Seq(Jobs) /\ Len(q) \in 0..Len(q) /\ DOMAIN q = 1..Len(q)
  BY DEF Queues
<1>2. Ahead(q, Len(q)) = D
  BY <1>1 DEF Ahead, ToSet, Queues
<1>3. QED
  BY <1>1, <1>2, AheadCounts DEF Queues

\* What SetToSeqs makes of a set of jobs.
LEMMA AnyOrder ==
  ASSUME NEW D \in SUBSET Jobs, NEW q \in SetToSeqs(D)
  PROVE  Queues(q, D)
<1>1. IsFiniteSet(D) /\ Cardinality(D) \in Nat
  BY ScheduleAssumption, FS_Subset, FS_CardinalityType
<1> DEFINE n == Cardinality(D)
<1>2. q \in [1..n -> D] /\ \A a, b \in 1..n : a # b => q[a] # q[b]
  BY DEF SetToSeqs
<1>3. q \in Seq(D) /\ q \in Seq(Jobs) /\ DOMAIN q = 1..n
  BY <1>1, <1>2, SeqDef
<1>4. q \in Injection(1..n, D)
  BY <1>2 DEF Injection, IsInjective
<1>5. Cardinality(1..n) = n
  BY <1>1, FS_Interval
<1>6. q \in Surjection(1..n, D)
  BY <1>1, <1>4, <1>5, FS_Injection
<1>7. ToSet(q) = D
  BY <1>2, <1>3, <1>6 DEF ToSet, Surjection
<1>8. Distinct(q)
  BY <1>2, <1>3 DEF Distinct
<1>9. QED
  BY <1>3, <1>7, <1>8 DEF Queues

\* More jobs at the end.
LEMMA QueueExtended ==
  ASSUME NEW D, NEW E, NEW p, NEW q, Queues(p, D), Queues(q, E), D \cap E = {}
  PROVE  /\ Queues(p \o q, D \cup E)
         /\ \A b \in DOMAIN (p \o q) :
                IF b \in DOMAIN p THEN (p \o q)[b] = p[b] ELSE (p \o q)[b] \in E
<1> DEFINE r == p \o q
           m == Len(p)
           n == Len(q)
<1>1. /\ p \in Seq(Jobs) /\ q \in Seq(Jobs) /\ m \in Nat /\ n \in Nat
      /\ DOMAIN p = 1..m /\ DOMAIN q = 1..n
  BY DEF Queues
<1>2. /\ r \in Seq(Jobs) /\ Len(r) = m + n
      /\ \A i \in 1..(m + n) : r[i] = IF i <= m THEN p[i] ELSE q[i - m]
  BY <1>1, ConcatProperties
<1>3. DOMAIN r = 1..(m + n)
  BY <1>2
<1> HIDE DEF r
<1>4. \A i \in 1..m : p[i] \in D
  BY <1>1 DEF Queues, ToSet
<1>5. \A i \in 1..n : q[i] \in E
  BY <1>1 DEF Queues, ToSet
<1> HIDE DEF m, n
<1>6. \A i \in 1..m : i \in 1..(m + n) /\ r[i] = p[i] /\ r[i] \in D
  BY <1>1, <1>2, <1>4
<1>7. \A i \in 1..(m + n) \ 1..m : i - m \in 1..n /\ r[i] = q[i - m] /\ r[i] \in E
  BY <1>1, <1>2, <1>5
<1>8. \A i \in 1..n : i + m \in 1..(m + n) /\ r[i + m] = q[i]
  BY <1>1, <1>2
<1>9. Distinct(r)
  <2> SUFFICES ASSUME NEW a \in 1..(m + n), NEW b \in 1..(m + n), r[a] = r[b] PROVE a = b
    BY <1>3 DEF Distinct
  <2>1. a \in 1..m <=> b \in 1..m
    BY <1>6, <1>7
  <2>2. CASE a \in 1..m
    BY <1>1, <1>6, <2>1, <2>2 DEF Queues, Distinct
  <2>3. CASE a \notin 1..m
    <3>1. a - m = b - m
      BY <1>1, <1>7, <2>1, <2>3 DEF Queues, Distinct
    <3>2. QED
      BY <1>1, <3>1
  <2>4. QED
    BY <2>2, <2>3
<1>10. ToSet(r) = D \cup E
  <2>1. ToSet(r) \subseteq D \cup E
    BY <1>3, <1>6, <1>7 DEF ToSet
  <2>2. D \subseteq ToSet(r)
    BY <1>1, <1>3, <1>6 DEF ToSet, Queues
  <2>3. E \subseteq ToSet(r)
    BY <1>1, <1>3, <1>8 DEF ToSet, Queues
  <2>4. QED
    BY <2>1, <2>2, <2>3
<1>11. QED
  BY <1>1, <1>2, <1>3, <1>6, <1>7, <1>9, <1>10 DEF Queues, r

\* One more job somewhere.
LEMMA InsertedAt ==
  ASSUME NEW p \in Seq(Jobs), NEW i \in 1..(Len(p) + 1), NEW e \in Jobs
  PROVE  /\ InsertAt(p, i, e) \in Seq(Jobs)
         /\ Len(InsertAt(p, i, e)) = Len(p) + 1
         /\ \A b \in 1..(Len(p) + 1) : InsertAt(p, i, e)[b] =
                IF b < i THEN p[b] ELSE IF b = i THEN e ELSE p[b - 1]
<1> DEFINE n == Len(p)
           u == SubSeq(p, 1, i - 1)
           v == SubSeq(p, i, n)
<1>1. /\ n \in Nat /\ i \in Nat /\ 1 <= i /\ i <= n + 1
      /\ \A a \in 1..n : p[a] \in Jobs
  OBVIOUS
<1>2. /\ u \in Seq(Jobs) /\ Len(u) = i - 1
      /\ \A a \in 1..(i - 1) : u[a] = p[a]
  <2>1. /\ 1 \in Int /\ i - 1 \in Int /\ \A a \in 1..(i - 1) : p[a] \in Jobs
    BY <1>1
  <2>2. /\ u \in Seq(Jobs)
        /\ Len(u) = IF 1 <= i - 1 THEN i - 1 - 1 + 1 ELSE 0
        /\ \A a \in 1..(i - 1 - 1 + 1) : u[a] = p[1 + a - 1]
    BY <2>1, SubSeqProperties
  <2> HIDE DEF u, n
  <2>3. /\ (IF 1 <= i - 1 THEN i - 1 - 1 + 1 ELSE 0) = i - 1
        /\ 1..(i - 1 - 1 + 1) = 1..(i - 1)
        /\ \A a \in 1..(i - 1) : 1 + a - 1 = a
    BY <1>1
  <2>4. QED
    BY <2>2, <2>3
<1>3. /\ v \in Seq(Jobs) /\ Len(v) = n - i + 1
      /\ \A a \in 1..(n - i + 1) : v[a] = p[i + a - 1]
  <2>1. /\ i \in Int /\ n \in Int /\ \A a \in i..n : p[a] \in Jobs
    BY <1>1
  <2>2. /\ v \in Seq(Jobs)
        /\ Len(v) = IF i <= n THEN n - i + 1 ELSE 0
        /\ \A a \in 1..(n - i + 1) : v[a] = p[i + a - 1]
    BY <2>1, SubSeqProperties
  <2> HIDE DEF v, n
  <2>3. (IF i <= n THEN n - i + 1 ELSE 0) = n - i + 1
    BY <1>1
  <2>4. QED
    BY <2>2, <2>3
<1> DEFINE w == u \o <<e>>
<1> HIDE DEF u, v, n
<1>4. <<e>> \in Seq(Jobs) /\ Len(<<e>>) = 1 /\ <<e>>[1] = e
  OBVIOUS
<1>5. /\ w \in Seq(Jobs) /\ Len(w) = i
      /\ \A a \in 1..i : w[a] = IF a < i THEN p[a] ELSE e
  <2>1. /\ w \in Seq(Jobs) /\ Len(w) = (i - 1) + 1
        /\ \A a \in 1..((i - 1) + 1) : w[a] = IF a <= i - 1 THEN u[a] ELSE <<e>>[a - (i - 1)]
    BY <1>2, <1>4, ConcatProperties
  <2> HIDE DEF w
  <2>2. /\ (i - 1) + 1 = i
        /\ \A a \in 1..i : IF a < i THEN a \in 1..(i - 1) ELSE a - (i - 1) = 1
    BY <1>1
  <2>3. \A a \in 1..i : a < i <=> a <= i - 1
    BY <1>1
  <2>4. QED
    BY <1>2, <1>4, <2>1, <2>2, <2>3
<1> HIDE DEF w
<1>6. /\ w \o v \in Seq(Jobs) /\ Len(w \o v) = i + (n - i + 1)
      /\ \A b \in 1..(i + (n - i + 1)) : (w \o v)[b] = IF b <= i THEN w[b] ELSE v[b - i]
  <2>1. /\ w \o v \in Seq(Jobs) /\ Len(w \o v) = Len(w) + Len(v)
        /\ \A b \in 1..(Len(w) + Len(v)) :
                (w \o v)[b] = IF b <= Len(w) THEN w[b] ELSE v[b - Len(w)]
    BY <1>3, <1>5, ConcatProperties
  <2>2. Len(w) = i /\ Len(v) = n - i + 1
    BY <1>3, <1>5
  <2>3. QED
    BY <2>1, <2>2
<1>7. /\ i + (n - i + 1) = n + 1
      /\ \A b \in 1..(n + 1) : IF b <= i THEN b \in 1..i
                               ELSE b - i \in 1..(n - i + 1) /\ i + (b - i) - 1 = b - 1
  BY <1>1
<1>8. \A b \in 1..(n + 1) : (w \o v)[b] = IF b < i THEN p[b] ELSE IF b = i THEN e ELSE p[b - 1]
  <2> SUFFICES ASSUME NEW b \in 1..(n + 1)
               PROVE  (w \o v)[b] = IF b < i THEN p[b] ELSE IF b = i THEN e ELSE p[b - 1]
    OBVIOUS
  <2>1. CASE b <= i
    <3>1. b < i \/ b = i
      BY <1>1, <2>1
    <3>2. QED
      BY <1>5, <1>6, <1>7, <2>1, <3>1
  <2>2. CASE ~ (b <= i)
    <3>1. ~ (b < i) /\ b # i
      BY <1>1, <2>2
    <3>2. QED
      BY <1>3, <1>6, <1>7, <2>2, <3>1
  <2>3. QED
    BY <2>1, <2>2
<1>9. QED
  BY <1>6, <1>7, <1>8 DEF InsertAt, w, u, v, n

\* A job put in between others.
LEMMA QueueInserted ==
  ASSUME NEW D, NEW p, Queues(p, D), NEW e \in Jobs \ D, NEW i \in 1..(Len(p) + 1)
  PROVE  Queues(InsertAt(p, i, e), D \cup {e})
<1> DEFINE n == Len(p)
           r == InsertAt(p, i, e)
<1>1. /\ p \in Seq(Jobs) /\ n \in Nat /\ i \in Nat /\ 1 <= i /\ i <= n + 1 /\ DOMAIN p = 1..n
      /\ \A a \in 1..n : p[a] \in D
      /\ \A a, b \in 1..n : p[a] = p[b] => a = b
      /\ \A d \in D : \E a \in 1..n : p[a] = d
  BY DEF Queues, Distinct, ToSet
<1>2. /\ r \in Seq(Jobs) /\ Len(r) = n + 1
      /\ \A b \in 1..(n + 1) : r[b] = IF b < i THEN p[b] ELSE IF b = i THEN e ELSE p[b - 1]
  BY <1>1, InsertedAt
<1>3. DOMAIN r = 1..(n + 1)
  BY <1>2
<1> HIDE DEF r, n
<1>4. \A b \in 1..(n + 1) : IF b < i THEN b \in 1..n ELSE b = i \/ b - 1 \in 1..n
  BY <1>1
<1>5. Distinct(r)
  <2> SUFFICES ASSUME NEW a \in 1..(n + 1), NEW b \in 1..(n + 1), r[a] = r[b] PROVE a = b
    BY <1>3 DEF Distinct
  <2>1. \A c \in 1..(n + 1) : c = i <=> r[c] = e
    BY <1>1, <1>2, <1>4
  <2> DEFINE old(c) == IF c < i THEN c ELSE c - 1
  <2>2. \A c \in 1..(n + 1) : c # i => old(c) \in 1..n /\ r[c] = p[old(c)]
    BY <1>1, <1>2, <1>4
  <2>3. \A c, d \in 1..(n + 1) : c # i /\ d # i /\ old(c) = old(d) => c = d
    BY <1>1
  <2> HIDE DEF old
  <2>4. QED
    BY <1>1, <2>1, <2>2, <2>3
<1>6. ToSet(r) = D \cup {e}
  <2>1. \A b \in 1..(n + 1) : r[b] \in D \cup {e}
    BY <1>1, <1>2, <1>4
  <2>2. i \in 1..(n + 1) /\ r[i] = e
    BY <1>1, <1>2
  <2>3. \A a \in 1..n : \E b \in 1..(n + 1) : r[b] = p[a]
    <3> SUFFICES ASSUME NEW a \in 1..n PROVE \E b \in 1..(n + 1) : r[b] = p[a]
      OBVIOUS
    <3>1. CASE a < i
      BY <1>1, <1>2, <3>1
    <3>2. CASE ~ (a < i)
      <4>1. a + 1 \in 1..(n + 1) /\ ~ (a + 1 < i) /\ a + 1 # i /\ a + 1 - 1 = a
        BY <1>1, <3>2
      <4>2. r[a + 1] = p[a]
        BY <1>2, <4>1
      <4>3. QED
        BY <4>1, <4>2
    <3>3. QED
      BY <3>1, <3>2
  <2>4. QED
    BY <1>1, <1>3, <2>1, <2>2, <2>3 DEF ToSet
<1>7. QED
  BY <1>2, <1>5, <1>6 DEF Queues, r

-----------------------------------------------------------------------------
(* The columns and the queue.                                              *)

\* The rows the queue is the order of, and those that will join it.
DueJobs == {j \in Jobs : row[j] = "due"}
Uncreated == {j \in Jobs : row[j] = "none"}

\* The types of the columns, with what the status of a row says of its clock.
Columns ==
    /\ row \in [Jobs -> {"none", "due", "later", "taken", "lost", "closed"}]
    /\ clock \in [Jobs -> Nat]
    /\ \A j \in Jobs :
        /\ row[j] = "later" => clock[j] \in 1..34
        /\ row[j] \in {"due", "none", "closed"} => clock[j] = 0
    /\ attempt \in [Jobs -> 0..MaxAttempt]
    /\ fixIn \in 0..FixDelay
    /\ passes \in [Jobs -> 0..Cardinality(Jobs)]
    /\ crashes \in 0..MaxCrashes
    /\ failures \in 0..MaxFailures

\* A job that is due has its turn at the latest when those before it had
\* theirs, and those that are still to be created: a fetch that leaves it
\* behind brings it forward by Limit places.
ServedInTurn ==
    /\ \A j \in Jobs : row[j] # "due" => passes[j] = 0
    /\ \A b \in DOMAIN due :
            passes[due[b]] * Limit + b + Cardinality(Uncreated) <= Cardinality(Jobs)

\* The inductive invariant.
QueueInv == Columns /\ Queues(due, DueJobs) /\ ServedInTurn

LEMMA LastDelay == Len(delays) = 15 /\ delays[15] = 34
BY DEF delays

\* The waits between attempts (delays) are 1 to 34 ticks.
LEMMA DelayBounded == ASSUME NEW a \in Nat PROVE Delay(a) \in 1..34
<1> DEFINE i == IF a < 15 THEN a + 1 ELSE 15
<1>1. \/ i = 1 \/ i = 2 \/ i = 3 \/ i = 4 \/ i = 5
      \/ i = 6 \/ i = 7 \/ i = 8 \/ i = 9 \/ i = 10
      \/ i = 11 \/ i = 12 \/ i = 13 \/ i = 14 \/ i = 15
  OBVIOUS
<1>2. Delay(a) = delays[i]
  BY LastDelay DEF Delay
<1> HIDE DEF i
<1>3. QED
  BY <1>1, <1>2 DEF delays

\* Attempts are counted up to the bound.
LEMMA AttemptCounted ==
  ASSUME NEW a \in 0..MaxAttempt
  PROVE  Next1(a) \in 0..MaxAttempt
BY ScheduleAssumption DEF Next1

\* There are finitely many jobs.
LEMMA JobsCounted ==
  /\ IsFiniteSet(Jobs) /\ Cardinality(Jobs) \in Nat
  /\ \A S \in SUBSET Jobs : IsFiniteSet(S) /\ Cardinality(S) \in Nat
BY ScheduleAssumption, FS_Subset, FS_CardinalityType

\* Disjoint sets have room beside each other.
LEMMA RoomForBoth ==
  ASSUME NEW T, IsFiniteSet(T), NEW A \in SUBSET T, NEW B \in SUBSET T, A \cap B = {}
  PROVE  Cardinality(A) + Cardinality(B) <= Cardinality(T)
<1>1. IsFiniteSet(A) /\ IsFiniteSet(B) /\ IsFiniteSet(T)
  BY FS_Subset
<1>2. Cardinality(A \cap B) = 0
  BY FS_EmptySet
<1>3. Cardinality(A \cup B) = Cardinality(A) + Cardinality(B) - Cardinality(A \cap B)
  BY <1>1, FS_Union
<1>4. Cardinality(A \cup B) <= Cardinality(T)
  BY FS_Subset
<1>5. Cardinality(A) \in Nat /\ Cardinality(B) \in Nat
  BY <1>1, FS_CardinalityType
<1>6. QED
  BY <1>2, <1>3, <1>4, <1>5

\* The invariant implies the two properties.
LEMMA QueueInvType == QueueInv => TypeOK
<1> SUFFICES ASSUME QueueInv PROVE TypeOK
  OBVIOUS
<1>1. Len(due) = Cardinality(ToSet(due)) /\ ToSet(due) = DueJobs /\ due \in Seq(Jobs)
  BY QueueCounts DEF QueueInv, Queues
<1>2. QED
  BY <1>1, LastDelay DEF QueueInv, Columns, TypeOK, DueJobs

LEMMA QueueInvServed == QueueInv => DueServed
<1> SUFFICES ASSUME QueueInv, NEW j \in Jobs PROVE passes[j] * Limit <= Cardinality(Jobs) - 1
  BY DEF DueServed
<1>1. /\ Limit \in Nat /\ passes[j] \in Nat /\ passes[j] * Limit \in Nat
      /\ Cardinality(Jobs) \in Nat /\ Cardinality(Uncreated) \in Nat
  BY ScheduleAssumption, JobsCounted DEF QueueInv, Columns, Uncreated
<1>2. CASE row[j] = "due"
  <2>1. PICK b \in DOMAIN due : due[b] = j
    BY <1>2 DEF QueueInv, Queues, ToSet, DueJobs
  <2>2. b \in Nat /\ 1 <= b
    BY <2>1 DEF QueueInv, Queues
  <2>3. passes[j] * Limit + b + Cardinality(Uncreated) <= Cardinality(Jobs)
    BY <2>1 DEF QueueInv, ServedInTurn
  <2>4. QED
    BY <1>1, <2>2, <2>3
<1>3. CASE row[j] # "due"
  <2>1. passes[j] * Limit = 0
    BY <1>1, <1>3 DEF QueueInv, ServedInTurn
  <2>2. Cardinality(Jobs) # 0
    BY JobsCounted, FS_EmptySet
  <2>3. QED
    BY <1>1, <2>1, <2>2
<1>4. QED
  BY <1>2, <1>3

\* Jobs that become due join the queue at its end.
LEMMA JoinedServed ==
  ASSUME QueueInv, NEW E, E \cap DueJobs = {},
         Queues(due', DueJobs'), UNCHANGED passes, Uncreated' = Uncreated,
         \A b \in DOMAIN due' : IF b \in DOMAIN due THEN due'[b] = due[b] ELSE due'[b] \in E,
         \A j \in Jobs : row'[j] # "due" => row[j] # "due"
  PROVE  ServedInTurn'
<1>1. \A j \in Jobs : row'[j] # "due" => passes'[j] = 0
  BY DEF QueueInv, ServedInTurn
<1>2. ASSUME NEW b \in DOMAIN due'
      PROVE  passes'[due'[b]] * Limit + b + Cardinality(Uncreated') <= Cardinality(Jobs)
  <2>1. CASE b \in DOMAIN due
    BY <1>2, <2>1 DEF QueueInv, ServedInTurn
  <2>2. CASE b \notin DOMAIN due
    <3>1. due'[b] \in Jobs /\ row[due'[b]] # "due"
      BY <1>2, <2>2 DEF DueJobs, Queues, ToSet
    <3>2. passes'[due'[b]] * Limit = 0
      BY <3>1, ScheduleAssumption DEF QueueInv, ServedInTurn
    <3>3. b \in Nat /\ b <= Cardinality(DueJobs') /\ Cardinality(DueJobs') \in Nat
      BY <1>2, QueueCounts DEF Queues
    <3>4. Cardinality(DueJobs') + Cardinality(Uncreated') <= Cardinality(Jobs)
      <4>1. DueJobs' \in SUBSET Jobs /\ Uncreated' \in SUBSET Jobs /\ DueJobs' \cap Uncreated' = {}
        BY DEF DueJobs, Uncreated
      <4>2. QED
        BY <4>1, JobsCounted, RoomForBoth
    <3>5. Cardinality(Uncreated') \in Nat /\ Cardinality(Jobs) \in Nat
      BY JobsCounted DEF Uncreated
    <3>6. QED
      BY <3>2, <3>3, <3>4, <3>5
  <2>3. QED
    BY <2>1, <2>2
<1>3. QED
  BY <1>1, <1>2 DEF ServedInTurn

\* Nobody joins or leaves.
LEMMA NobodyMoves ==
  ASSUME QueueInv, Columns', UNCHANGED <<due, passes>>, DueJobs' = DueJobs, Uncreated' = Uncreated
  PROVE  QueueInv'
<1>1. Queues(due', DueJobs')
  BY DEF QueueInv
<1>2. {} \cap DueJobs = {} /\ (\A j \in Jobs : row'[j] # "due" => row[j] # "due")
  BY DEF DueJobs
<1>3. ServedInTurn'
  BY <1>1, <1>2, JoinedServed
<1>4. QED
  BY <1>1, <1>3 DEF QueueInv

\* A new job may get in anywhere: it has been counted as one to be created.
LEMMA CreateQueue == ASSUME QueueInv, NEW j \in Jobs, Create(j) PROVE QueueInv'
<1>1. /\ row[j] = "none" /\ row' = [row EXCEPT ![j] = "due"]
      /\ UNCHANGED <<clock, attempt, fixIn, passes, crashes, failures>>
  BY DEF Create
<1>2. PICK i \in 1 .. Len(due) + 1 : due' = InsertAt(due, i, j)
  BY DEF Create
<1>3. Columns'
  BY <1>1 DEF QueueInv, Columns
<1>4. DueJobs' = DueJobs \cup {j} /\ j \notin DueJobs
  BY <1>1 DEF DueJobs, QueueInv, Columns
<1>5. Queues(due', DueJobs')
  BY <1>2, <1>4, QueueInserted DEF QueueInv
<1>6. /\ due \in Seq(Jobs) /\ Len(due) \in Nat /\ i \in Nat /\ 1 <= i /\ i <= Len(due) + 1
      /\ DOMAIN due = 1..Len(due)
  BY <1>2 DEF QueueInv, Queues
<1>7. /\ DOMAIN due' = 1..(Len(due) + 1)
      /\ \A b \in 1..(Len(due) + 1) :
            due'[b] = IF b < i THEN due[b] ELSE IF b = i THEN j ELSE due[b - 1]
  <2> DEFINE r == InsertAt(due, i, j)
  <2>1. /\ r \in Seq(Jobs) /\ Len(r) = Len(due) + 1
        /\ \A b \in 1..(Len(due) + 1) :
              r[b] = IF b < i THEN due[b] ELSE IF b = i THEN j ELSE due[b - 1]
    BY <1>6, InsertedAt
  <2> HIDE DEF r
  <2>2. DOMAIN r = 1..(Len(due) + 1)
    BY <2>1
  <2>3. due' = r
    BY <1>2 DEF r
  <2>4. QED
    BY <2>1, <2>2, <2>3
<1>8. /\ Cardinality(Uncreated') = Cardinality(Uncreated) - 1
      /\ Cardinality(Uncreated) \in Nat /\ Cardinality(Jobs) \in Nat
  <2>1. Uncreated' = Uncreated \ {j} /\ j \in Uncreated
    BY <1>1 DEF Uncreated, QueueInv, Columns
  <2>2. IsFiniteSet(Uncreated)
    BY JobsCounted DEF Uncreated
  <2>3. QED
    BY <2>1, <2>2, FS_RemoveElement, JobsCounted DEF Uncreated
<1>9. Limit \in Nat /\ \A k \in Jobs : passes[k] \in Nat /\ passes[k] * Limit \in Nat
  BY ScheduleAssumption DEF QueueInv, Columns
<1>10. ASSUME NEW b \in 1..(Len(due) + 1)
       PROVE  passes'[due'[b]] * Limit + b + Cardinality(Uncreated') <= Cardinality(Jobs)
  <2>1. CASE b < i
    <3>1. b \in DOMAIN due /\ due'[b] = due[b] /\ due[b] \in Jobs
      BY <1>6, <1>7, <2>1
    <3>2. passes[due[b]] * Limit + b + Cardinality(Uncreated) <= Cardinality(Jobs)
      BY <3>1 DEF QueueInv, ServedInTurn
    <3> DEFINE m == passes[due[b]] * Limit
    <3>3. m \in Nat /\ m + b + Cardinality(Uncreated) <= Cardinality(Jobs)
      BY <1>9, <3>1, <3>2
    <3>4. passes'[due'[b]] * Limit = m
      BY <1>1, <3>1
    <3> HIDE DEF m
    <3>5. QED
      BY <1>8, <3>3, <3>4
  <2>2. CASE b = i
    <3>1. due'[b] = j /\ passes'[j] = 0
      BY <1>1, <1>7, <2>2 DEF QueueInv, ServedInTurn
    <3>2. passes'[due'[b]] * Limit = 0
      BY <1>9, <3>1
    <3>3. Cardinality(DueJobs) + Cardinality(Uncreated) <= Cardinality(Jobs)
      <4>1. DueJobs \in SUBSET Jobs /\ Uncreated \in SUBSET Jobs /\ DueJobs \cap Uncreated = {}
        BY DEF DueJobs, Uncreated
      <4>2. QED
        BY <4>1, JobsCounted, RoomForBoth
    <3>4. Len(due) = Cardinality(DueJobs)
      BY QueueCounts DEF QueueInv
    <3>5. QED
      BY <1>6, <1>8, <3>2, <3>3, <3>4
  <2>3. CASE ~ (b < i) /\ b # i
    <3>1. b - 1 \in DOMAIN due /\ due'[b] = due[b - 1] /\ due[b - 1] \in Jobs
      BY <1>6, <1>7, <2>3
    <3>2. passes[due[b - 1]] * Limit + (b - 1) + Cardinality(Uncreated) <= Cardinality(Jobs)
      BY <3>1 DEF QueueInv, ServedInTurn
    <3> DEFINE m == passes[due[b - 1]] * Limit
    <3>3. m \in Nat /\ m + (b - 1) + Cardinality(Uncreated) <= Cardinality(Jobs)
      BY <1>9, <3>1, <3>2
    <3>4. passes'[due'[b]] * Limit = m
      BY <1>1, <3>1
    <3> HIDE DEF m
    <3>5. QED
      BY <1>6, <1>8, <3>3, <3>4
  <2>4. QED
    BY <2>1, <2>2, <2>3
<1>11. ServedInTurn'
  BY <1>1, <1>7, <1>10 DEF ServedInTurn, QueueInv, Columns
<1>12. QED
  BY <1>3, <1>5, <1>11 DEF QueueInv

\* The rank of a job that is due is its place, counted from the end.
LEMMA RankOfDue ==
  ASSUME QueueInv, NEW b \in DOMAIN due
  PROVE  /\ due[b] \in DueJobs
         /\ Rank(due[b]) = b - Len(due)
<1>1. due[b] \in DueJobs
  BY DEF QueueInv, Queues, ToSet
<1>2. (CHOOSE i \in DOMAIN due : due[i] = due[b]) = b
  BY DEF QueueInv, Queues, Distinct
<1>3. QED
  BY <1>1, <1>2 DEF Rank, DueJobs

\* A fetch that leaves a due job behind is full of jobs that were before it.
LEMMA LeftBehind ==
  ASSUME QueueInv, NEW S \in SUBSET Jobs, GetUpdate(S),
         NEW b \in DOMAIN due, due[b] \notin S
  PROVE  Cardinality(S) = Limit /\ S \subseteq Ahead(due, b - 1)
<1>1. S \in Selected /\ S \subseteq Scheduled
  BY DEF GetUpdate, Selected
<1>2. /\ due[b] \in Scheduled \ S /\ Rank(due[b]) = b - Len(due)
      /\ b \in Nat /\ Len(due) \in Nat /\ 1 <= b /\ b <= Len(due)
      /\ DOMAIN due = 1..Len(due)
  BY RankOfDue DEF Scheduled, DueJobs, QueueInv, Queues
<1>3. Cardinality(S) = Limit
  BY <1>1, <1>2 DEF Selected
<1>4. ASSUME NEW i \in S PROVE i \in Ahead(due, b - 1)
  <2>1. Rank(i) <= b - Len(due)
    BY <1>1, <1>2 DEF Selected
  <2>2. CASE row[i] = "later"
    <3>1. Rank(i) = clock[i] /\ clock[i] \in 1..34
      BY <2>2 DEF Rank, QueueInv, Columns
    <3>2. b - Len(due) <= 0 /\ b - Len(due) \in Int
      BY <1>2
    <3> DEFINE r == clock[i]
               m == b - Len(due)
    <3>3. r \in 1..34 /\ m \in Int /\ m <= 0 /\ r <= m
      BY <2>1, <3>1, <3>2
    <3> HIDE DEF r, m
    <3>4. QED
      BY <3>3
  <2>3. CASE row[i] = "due"
    <3>1. PICK a \in DOMAIN due : due[a] = i
      BY <2>3 DEF QueueInv, Queues, ToSet, DueJobs
    <3>2. a \in 1..Len(due) /\ a - Len(due) <= b - Len(due) /\ a # b
      BY <1>2, <2>1, <3>1, RankOfDue
    <3>3. a \in 1..(b - 1)
      BY <1>2, <3>2
    <3>4. due[a] \in Ahead(due, b - 1)
      BY <3>3 DEF Ahead
    <3>5. QED
      BY <3>1, <3>4
  <2>4. QED
    BY <1>1, <2>2, <2>3 DEF Scheduled
<1>5. QED
  BY <1>3, <1>4

\* And brings that job forward by as many places.
LEMMA BroughtForward ==
  ASSUME QueueInv, NEW S \in SUBSET Jobs, GetUpdate(S), Queues(due', DueJobs \ S),
         NEW c \in DOMAIN due'
  PROVE  \E b \in DOMAIN due : due[b] = due'[c] /\ c + Limit <= b
<1>1. due' \in Seq(Jobs) /\ Distinct(due') /\ InOrder(due') /\ DOMAIN due' = 1..Len(due')
  BY DEF GetUpdate, Queues
<1>2. ASSUME NEW d \in DOMAIN due'
      PROVE  due'[d] \in DueJobs \ S /\ \E a \in DOMAIN due : due[a] = due'[d]
  BY <1>2 DEF Queues, QueueInv, ToSet
<1>3. PICK b \in DOMAIN due : due[b] = due'[c]
  BY <1>2
<1>4. /\ b \in Nat /\ c \in Nat /\ 1 <= b /\ 1 <= c /\ b - 1 \in 0..Len(due) /\ c - 1 \in 0..Len(due')
      /\ Len(due) \in Nat /\ due \in Seq(Jobs) /\ Distinct(due) /\ DOMAIN due = 1..Len(due)
  BY <1>1, <1>3 DEF QueueInv, Queues
<1>5. Cardinality(S) = Limit /\ S \subseteq Ahead(due, b - 1)
  BY <1>2, <1>3, LeftBehind
<1>6. ASSUME NEW d \in 1..(c - 1) PROVE due'[d] \in Ahead(due, b - 1) \ S
  <2>1. d \in DOMAIN due' /\ d < c
    BY <1>1, <1>4
  <2>2. PICK a \in DOMAIN due : due[a] = due'[d]
    BY <1>2, <2>1
  <2>3. Rank(due[a]) < Rank(due[b])
    BY <1>1, <1>3, <2>1, <2>2 DEF InOrder
  <2>4. a - Len(due) < b - Len(due) /\ a \in 1..Len(due)
    BY <1>4, <2>3, RankOfDue
  <2>5. a \in 1..(b - 1)
    BY <1>4, <2>4
  <2>6. QED
    BY <1>2, <2>1, <2>2, <2>5 DEF Ahead
<1>7. Ahead(due', c - 1) \subseteq Ahead(due, b - 1) \ S
  BY <1>6 DEF Ahead
<1>8. /\ IsFiniteSet(Ahead(due, b - 1)) /\ Cardinality(Ahead(due, b - 1)) = b - 1
      /\ Cardinality(Ahead(due', c - 1)) = c - 1
  BY <1>1, <1>4, AheadCounts
<1>9. Cardinality(S) + Cardinality(Ahead(due', c - 1)) <= Cardinality(Ahead(due, b - 1))
  BY <1>5, <1>7, <1>8, RoomForBoth
<1>10. c + Limit <= b
  BY <1>4, <1>5, <1>8, <1>9, ScheduleAssumption
<1>11. QED
  BY <1>3, <1>10

\* A fetch that leaves due jobs behind takes Limit jobs from before them.
LEMMA FetchQueue == ASSUME QueueInv, NEW S \in SUBSET Jobs, GetUpdate(S) PROVE QueueInv'
<1>1. /\ row' = [j \in Jobs |-> IF j \in S THEN "taken" ELSE row[j]]
      /\ clock' = [j \in Jobs |-> IF j \in S THEN 0 ELSE clock[j]]
      /\ passes' = [j \in Jobs |->
            IF j \in S THEN 0
            ELSE IF row[j] = "due" /\ passes[j] < Cardinality(Jobs) THEN passes[j] + 1
            ELSE passes[j]]
      /\ UNCHANGED <<attempt, fixIn, crashes, failures>>
      /\ due' \in SetToSeqs(ToSet(due) \ S)
  BY DEF GetUpdate
<1>2. S \subseteq Scheduled
  BY DEF GetUpdate, Selected
<1>3. Columns'
  BY <1>1, JobsCounted DEF QueueInv, Columns
<1>4. DueJobs' = DueJobs \ S /\ Uncreated' = Uncreated
  BY <1>1, <1>2 DEF DueJobs, Uncreated, Scheduled
<1>5. Queues(due', DueJobs \ S)
  <2>1. ToSet(due) \ S = DueJobs \ S /\ DueJobs \ S \in SUBSET Jobs
    BY DEF QueueInv, Queues, DueJobs
  <2>2. QED
    BY <1>1, <2>1, AnyOrder
<1>6. ASSUME NEW j \in Jobs, row'[j] # "due" PROVE passes'[j] = 0
  BY <1>1, <1>6 DEF QueueInv, ServedInTurn
<1>7. ASSUME NEW c \in DOMAIN due'
      PROVE  passes'[due'[c]] * Limit + c + Cardinality(Uncreated') <= Cardinality(Jobs)
  <2>1. PICK b \in DOMAIN due : due[b] = due'[c] /\ c + Limit <= b
    BY <1>5, BroughtForward
  <2> DEFINE p == passes[due[b]]
             n == passes'[due'[c]]
             u == Cardinality(Uncreated)
  <2>2. due[b] \in Jobs
    BY RankOfDue DEF DueJobs
  <2>3. due[b] \in Jobs /\ p \in Nat /\ n \in Nat /\ n <= p + 1
    BY <1>1, <1>3, <2>1, <2>2 DEF QueueInv, Columns
  <2>4. p * Limit + b + u <= Cardinality(Jobs)
    BY DEF QueueInv, ServedInTurn
  <2>5. /\ b \in Nat /\ c \in Nat /\ u \in Nat /\ Limit \in Nat
        /\ Cardinality(Jobs) \in Nat
    BY <1>5, JobsCounted, ScheduleAssumption DEF QueueInv, Queues, Uncreated
  <2> HIDE DEF p, n, u
  <2>6. n * Limit <= p * Limit + Limit /\ p * Limit \in Nat /\ n * Limit \in Nat
    <3>1. n * Limit <= (p + 1) * Limit
      BY <2>3, <2>5
    <3>2. (p + 1) * Limit = p * Limit + Limit
      BY <2>3, <2>5
    <3>3. QED
      BY <2>3, <2>5, <3>1, <3>2
  <2> DEFINE pl == p * Limit
             nl == n * Limit
  <2>7. nl <= pl + Limit /\ pl \in Nat /\ nl \in Nat /\ pl + b + u <= Cardinality(Jobs)
    BY <2>4, <2>6
  <2> HIDE DEF pl, nl
  <2>8. nl + c + u <= Cardinality(Jobs)
    BY <2>1, <2>5, <2>7
  <2>9. QED
    BY <1>4, <2>8 DEF nl, n, u
<1>8. ServedInTurn'
  BY <1>6, <1>7 DEF ServedInTurn
<1>9. QED
  BY <1>3, <1>4, <1>5, <1>8 DEF QueueInv

\* Jobs join at the end in any order.
LEMMA JoinAtTheEnd ==
  ASSUME QueueInv, NEW E \in SUBSET Jobs, E \cap DueJobs = {}, Columns',
         DueJobs' = DueJobs \cup E, Uncreated' = Uncreated,
         NEW q \in SetToSeqs(E), due' = due \o q, UNCHANGED passes
  PROVE  QueueInv'
<1>1. Queues(q, E) /\ Queues(due, DueJobs) /\ DueJobs \cap E = {}
  BY AnyOrder DEF QueueInv
<1>2. /\ Queues(due \o q, DueJobs \cup E)
      /\ \A b \in DOMAIN (due \o q) :
            IF b \in DOMAIN due THEN (due \o q)[b] = due[b] ELSE (due \o q)[b] \in E
  BY <1>1, QueueExtended
<1>3. Queues(due', DueJobs')
  BY <1>2
<1>4. \A b \in DOMAIN due' : IF b \in DOMAIN due THEN due'[b] = due[b] ELSE due'[b] \in E
  BY <1>2
<1>5. \A j \in Jobs : row'[j] # "due" => row[j] # "due"
  <2>1. DueJobs \subseteq DueJobs'
    OBVIOUS
  <2>2. QED
    BY <2>1 DEF DueJobs
<1>6. ServedInTurn'
  BY <1>3, <1>4, <1>5, JoinedServed
<1>7. QED
  BY <1>3, <1>6 DEF QueueInv

LEMMA FixQueue == ASSUME QueueInv, FixProcessingTimeout PROVE QueueInv'
<1>1. /\ fixIn' = FixDelay
      /\ row' = [j \in Jobs |-> IF j \in Overdue THEN "due" ELSE row[j]]
      /\ clock' = [j \in Jobs |-> IF j \in Overdue THEN 0 ELSE clock[j]]
      /\ attempt' = [j \in Jobs |-> IF j \in Overdue THEN Next1(attempt[j]) ELSE attempt[j]]
      /\ UNCHANGED <<passes, crashes, failures>>
  BY DEF FixProcessingTimeout
<1>2. PICK q \in SetToSeqs(Overdue) : due' = due \o q
  BY DEF FixProcessingTimeout
<1>3. Overdue \in SUBSET Jobs /\ Overdue \cap DueJobs = {}
  BY DEF Overdue, DueJobs
<1>4. Columns'
  BY <1>1, AttemptCounted, ScheduleAssumption DEF QueueInv, Columns
<1>5. DueJobs' = DueJobs \cup Overdue /\ Uncreated' = Uncreated
  BY <1>1 DEF DueJobs, Uncreated, Overdue
<1>6. QED
  BY <1>1, <1>2, <1>3, <1>4, <1>5, JoinAtTheEnd

\* Time passes: jobs whose time has come join at the end.
LEMMA TickQueue == ASSUME QueueInv, Tick PROVE QueueInv'
<1> DEFINE ripe == {j \in Jobs : row[j] = "later" /\ clock[j] = 1}
<1>1. /\ fixIn > 0 /\ fixIn' = fixIn - 1
      /\ row' = [j \in Jobs |-> IF j \in ripe THEN "due" ELSE row[j]]
      /\ clock' = [j \in Jobs |->
                CASE row[j] = "later" -> clock[j] - 1
                  [] row[j] \in {"taken", "lost"} -> clock[j] + 1
                  [] OTHER -> clock[j]]
      /\ UNCHANGED <<attempt, passes, crashes, failures>>
  BY DEF Tick
<1>2. PICK q \in SetToSeqs(ripe) : due' = due \o q
  BY DEF Tick
<1>3. ripe \in SUBSET Jobs /\ ripe \cap DueJobs = {}
  BY DEF DueJobs
<1>4. Columns'
  <2>1. ASSUME NEW j \in Jobs
        PROVE  /\ clock'[j] \in Nat
               /\ row'[j] = "later" => clock'[j] \in 1..34
               /\ row'[j] \in {"due", "none", "closed"} => clock'[j] = 0
    <3>1. CASE row[j] = "later"
      BY <1>1, <3>1 DEF QueueInv, Columns
    <3>2. CASE row[j] \in {"taken", "lost"}
      BY <1>1, <3>2 DEF QueueInv, Columns
    <3>3. CASE row[j] \notin {"later", "taken", "lost"}
      BY <1>1, <3>3 DEF QueueInv, Columns
    <3>4. QED
      BY <3>1, <3>2, <3>3
  <2>2. clock' \in [Jobs -> Nat]
    <3>1. clock' = [j \in Jobs |-> clock'[j]]
      BY <1>1
    <3>2. QED
      BY <2>1, <3>1
  <2>3. row' \in [Jobs -> {"none", "due", "later", "taken", "lost", "closed"}]
    BY <1>1 DEF QueueInv, Columns
  <2>4. fixIn' \in 0..FixDelay
    BY <1>1, ScheduleAssumption DEF QueueInv, Columns
  <2>5. QED
    BY <1>1, <2>1, <2>2, <2>3, <2>4 DEF QueueInv, Columns
<1>5. DueJobs' = DueJobs \cup ripe /\ Uncreated' = Uncreated
  BY <1>1 DEF DueJobs, Uncreated
<1>6. UNCHANGED passes
  BY <1>1
<1> HIDE DEF ripe
<1>7. QED
  BY <1>2, <1>3, <1>4, <1>5, <1>6, JoinAtTheEnd

\* The handler saves its job.
LEMMA SaveQueue == ASSUME QueueInv, NEW j \in Jobs, Close(j) \/ PutOff(j) PROVE QueueInv'
<1>1. DueJobs' = DueJobs /\ Uncreated' = Uncreated /\ UNCHANGED <<due, passes>>
  BY DEF Close, PutOff, DueJobs, Uncreated, QueueInv, Columns
<1>2. CASE Close(j)
  BY <1>1, <1>2, AttemptCounted, NobodyMoves DEF Close, QueueInv, Columns
<1>3. CASE PutOff(j)
  <2>1. Delay(attempt[j]) \in 1..34
    BY DelayBounded, ScheduleAssumption DEF QueueInv, Columns
  <2>2. Columns'
    BY <1>3, <2>1, AttemptCounted DEF PutOff, QueueInv, Columns
  <2>3. QED
    BY <1>1, <2>2, NobodyMoves
<1>4. QED
  BY <1>2, <1>3

LEMMA CrashQueue == ASSUME QueueInv, Crash \/ FixFails \/ UNCHANGED vars PROVE QueueInv'
<1>1. CASE Crash
  <2>1. /\ row' = [j \in Jobs |-> IF row[j] = "taken" THEN "lost" ELSE row[j]]
        /\ crashes' = crashes + 1 /\ crashes < MaxCrashes /\ fixIn' = 0
        /\ UNCHANGED <<due, clock, attempt, passes, failures>>
    BY <1>1 DEF Crash
  <2>2. Columns'
    BY <2>1, ScheduleAssumption DEF QueueInv, Columns
  <2>3. DueJobs' = DueJobs /\ Uncreated' = Uncreated
    BY <2>1 DEF DueJobs, Uncreated
  <2>4. QED
    BY <2>1, <2>2, <2>3, NobodyMoves
<1>2. CASE FixFails
  <2>1. /\ failures' = failures + 1 /\ failures < MaxFailures /\ fixIn' = FixDelay
        /\ UNCHANGED <<row, due, clock, attempt, passes, crashes>>
    BY <1>2 DEF FixFails
  <2>2. Columns'
    BY <2>1, ScheduleAssumption DEF QueueInv, Columns
  <2>3. DueJobs' = DueJobs /\ Uncreated' = Uncreated
    BY <2>1 DEF DueJobs, Uncreated
  <2>4. QED
    BY <2>1, <2>2, <2>3, NobodyMoves
<1>3. CASE UNCHANGED vars
  BY <1>3 DEF vars, QueueInv, Columns, DueJobs, Uncreated, ServedInTurn
<1>4. QED
  BY <1>1, <1>2, <1>3

LEMMA QueueInvInit == Init => QueueInv
<1> SUFFICES ASSUME Init PROVE QueueInv
  OBVIOUS
<1>1. Columns
  BY ScheduleAssumption, JobsCounted DEF Init, Columns
<1>2. Queues(due, DueJobs)
  <2>1. due = <<>> /\ <<>> \in Seq(Jobs) /\ DOMAIN <<>> = {}
    BY DEF Init
  <2>2. DueJobs = {}
    BY DEF Init, DueJobs
  <2>3. ToSet(<<>>) = {}
    BY <2>1 DEF ToSet
  <2>4. QED
    BY <2>1, <2>2, <2>3 DEF Queues, Distinct
<1>3. ServedInTurn
  BY DEF Init, ServedInTurn
<1>4. QED
  BY <1>1, <1>2, <1>3 DEF QueueInv

LEMMA QueueInvStep == QueueInv /\ [Next]_vars => QueueInv'
BY CreateQueue, SaveQueue, FetchQueue, FixQueue, TickQueue, CrashQueue DEF Next

\* The columns of table jobs have their types, the queue holds the jobs that
\* are due, each once, and a delay is one of the table's (getNextAttemptAt).
THEOREM ScheduleTyped == Spec => []TypeOK
BY QueueInvType, QueueInvInit, QueueInvStep, PTL DEF Spec

\* Fetching by next_attempt_at, whether or not it has come, starves nobody
\* that is due (GetUpdate): a job is left behind at most once for every Limit
\* other jobs, whatever is created, put off, lost or found in between.
THEOREM DueAlwaysServed == Spec => []DueServed
BY QueueInvServed, QueueInvInit, QueueInvStep, PTL DEF Spec
=============================================================================
