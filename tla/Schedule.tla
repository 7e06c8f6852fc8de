------------------------------ MODULE Schedule ------------------------------
(***************************************************************************)
(* When jobs are fetched: the time stamps of table jobs.  GetUpdate takes  *)
(* rows in the order of next_attempt_at, whether or not their time has     *)
(* come; handling a job that is not settled puts its next attempt off by a *)
(* delay that grows with the attempts; the fix stage runs on its timer and *)
(* brings back rows that were taken longer ago than the processing timeout.*)
(*                                                                         *)
(* Time is counted in ticks.  Instead of next_attempt_at itself the model  *)
(* keeps what the statements tell apart: the order of the rows whose time  *)
(* has come, and for the others the ticks that are left.  Handlers keep    *)
(* their lease here (Gophermart and Pipeline show what happens if not),    *)
(* and a 429, while the handler waits it out, changes nothing.             *)
(***************************************************************************)
EXTENDS Integers, FiniteSets, Sequences, SequencesExt

CONSTANTS
    Jobs,
    Limit,              \* the most jobs one fetch takes: the buffer size
    ProcTimeout,        \* the processing timeout, in ticks
    FixDelay,           \* ticks between two runs of the fix stage
    MaxAttempt,         \* attempts are counted up to here
    MaxCrashes,         \* how many times the process dies
    MaxFailures         \* how many runs of the fix stage fail

ASSUME ScheduleAssumption ==
    /\ IsFiniteSet(Jobs)
    /\ Limit \in Nat \ {0}
    /\ ProcTimeout \in Nat \ {0}
    /\ FixDelay \in Nat \ {0}
    /\ MaxAttempt \in Nat
    /\ MaxCrashes \in Nat
    /\ MaxFailures \in Nat

VARIABLES
    row,        \* job -> its row: no next attempt but "taken" by a handler or
                \* "lost" by one, a next attempt that is "due" or "later"
    due,        \* the jobs whose next attempt is due, in its order
    clock,      \* job -> ticks to the next attempt (later), or since the fetch
    attempt,    \* job -> the column attempt
    fixIn,      \* ticks to the next run of the fix stage
    passes,     \* job -> fetches that left it behind since it is due: history,
                \* counted up to the number of jobs
    crashes,    \* crashes so far
    failures    \* failed runs of the fix stage so far

vars == <<row, due, clock, attempt, fixIn, passes, crashes, failures>>

delays == <<1, 1, 1, 2, 2, 2, 3, 5, 8, 8, 13, 13, 13, 21, 34>>

TypeOK ==
    /\ row \in [Jobs -> {"none", "due", "later", "taken", "lost", "closed"}]
    /\ due \in Seq(Jobs)
    /\ ToSet(due) = {j \in Jobs : row[j] = "due"}
    /\ Len(due) = Cardinality(ToSet(due))
    /\ \A j \in Jobs :
        /\ row[j] = "later" => clock[j] \in 1..delays[Len(delays)]
        /\ row[j] \in {"due", "none", "closed"} => clock[j] = 0
    /\ clock \in [Jobs -> Nat]
    /\ attempt \in [Jobs -> 0..MaxAttempt]
    /\ fixIn \in 0..FixDelay
    /\ passes \in [Jobs -> 0..Cardinality(Jobs)]
    /\ crashes \in 0..MaxCrashes
    /\ failures \in 0..MaxFailures

Init ==
    /\ row = [j \in Jobs |-> "none"]
    /\ due = <<>>
    /\ clock = [j \in Jobs |-> 0]
    /\ attempt = [j \in Jobs |-> 0]
    /\ fixIn = 0
    /\ passes = [j \in Jobs |-> 0]
    /\ crashes = 0 /\ failures = 0

\* The column attempt after attempt = attempt + 1.
Next1(a) == IF a < MaxAttempt THEN a + 1 ELSE a

\* getNextAttemptAt: the table's last delay serves all later attempts.
DelayNone(a) == 0
Delay(a) == delays[IF a < Len(delays) THEN a + 1 ELSE Len(delays)]
-----------------------------------------------------------------------------
\* entity.NewJob took next_attempt_at before the upload's transaction did the
\* rest, so when the row is committed it may come before others that are due.
Create(j) ==
    /\ row[j] = "none"
    /\ row' = [row EXCEPT ![j] = "due"]
    /\ \E i \in 1 .. Len(due) + 1 : due' = InsertAt(due, i, j)
    /\ UNCHANGED <<clock, attempt, fixIn, passes, crashes, failures>>

Scheduled == {j \in Jobs : row[j] \in {"due", "later"}}

\* What ORDER BY next_attempt_at compares, relative to now.
Rank(j) ==
    IF row[j] = "later" THEN clock[j]
    ELSE (CHOOSE i \in DOMAIN due : due[i] = j) - Len(due)

InOrder(q) == \A i, k \in DOMAIN q : i < k => Rank(q[i]) < Rank(q[k])

\* The sets of rows that the fetch may select.
SelectedUnordered ==
    {S \in SUBSET Scheduled :
        Cardinality(S) = IF Cardinality(Scheduled) < Limit THEN Cardinality(Scheduled) ELSE Limit}
SelectedLatestFirst ==
    {S \in SUBSET Scheduled :
        /\ Cardinality(S) <= Limit
        /\ Cardinality(S) = Limit \/ S = Scheduled
        /\ \A i \in S, j \in Scheduled \ S : Rank(i) >= Rank(j)}
Selected ==
    {S \in SUBSET Scheduled :
        /\ Cardinality(S) <= Limit
        /\ Cardinality(S) = Limit \/ S = Scheduled
        /\ \A i \in S, j \in Scheduled \ S : Rank(i) <= Rank(j)}

GetUpdate(S) ==
    /\ S # {} /\ S \in Selected
    /\ row' = [j \in Jobs |-> IF j \in S THEN "taken" ELSE row[j]]
    /\ due' \in {q \in SetToSeqs(ToSet(due) \ S) : InOrder(q)}
    /\ clock' = [j \in Jobs |-> IF j \in S THEN 0 ELSE clock[j]]
    /\ passes' = [j \in Jobs |->
            IF j \in S THEN 0
            ELSE IF row[j] = "due" /\ passes[j] < Cardinality(Jobs) THEN passes[j] + 1
            ELSE passes[j]]
    /\ UNCHANGED <<attempt, fixIn, crashes, failures>>

\* The order is settled, or the handler gives up: no next attempt.
Close(j) ==
    /\ row[j] = "taken"
    /\ row' = [row EXCEPT ![j] = "closed"]
    /\ clock' = [clock EXCEPT ![j] = 0]
    /\ attempt' = [attempt EXCEPT ![j] = Next1(@)]
    /\ UNCHANGED <<due, fixIn, passes, crashes, failures>>

\* The accrual system is still computing.
PutOff(j) ==
    /\ row[j] = "taken"
    /\ row' = [row EXCEPT ![j] = "later"]
    /\ clock' = [clock EXCEPT ![j] = Delay(attempt[j])]
    /\ attempt' = [attempt EXCEPT ![j] = Next1(@)]
    /\ UNCHANGED <<due, fixIn, passes, crashes, failures>>
-----------------------------------------------------------------------------
\* The rows that were taken too long ago, whoever may hold them.
OverdueAnyTime == {j \in Jobs : row[j] \in {"taken", "lost"}}
OverdueRetried == {j \in OverdueAnyTime : clock[j] > ProcTimeout /\ attempt[j] > 0}
Overdue == {j \in Jobs : row[j] \in {"taken", "lost"} /\ clock[j] > ProcTimeout}

\* The fix stage runs when its timer fires, and sets the timer again.
FixProcessingTimeout ==
    /\ fixIn = 0
    /\ fixIn' = FixDelay
    /\ row' = [j \in Jobs |-> IF j \in Overdue THEN "due" ELSE row[j]]
    /\ \E q \in SetToSeqs(Overdue) : due' = due \o q
    /\ clock' = [j \in Jobs |-> IF j \in Overdue THEN 0 ELSE clock[j]]
    /\ attempt' = [j \in Jobs |-> IF j \in Overdue THEN Next1(attempt[j]) ELSE attempt[j]]
    /\ UNCHANGED <<passes, crashes, failures>>

\* Its statement fails, which is logged: the next run is a delay away.
FixFails ==
    /\ fixIn = 0 /\ failures < MaxFailures
    /\ failures' = failures + 1
    /\ fixIn' = FixDelay
    /\ UNCHANGED <<row, due, clock, attempt, passes, crashes>>

\* The process dies with the jobs it holds (or stops: a worker's error, a
\* signal) and is started again, which runs the fix stage at once.
Crash ==
    /\ crashes < MaxCrashes
    /\ crashes' = crashes + 1
    /\ row' = [j \in Jobs |-> IF row[j] = "taken" THEN "lost" ELSE row[j]]
    /\ fixIn' = 0
    /\ UNCHANGED <<due, clock, attempt, passes, failures>>

\* Time passes: not before a run of the fix stage whose time has come, and
\* not beyond the lease of a job that is still held.
Tick ==
    LET ripe == {j \in Jobs : row[j] = "later" /\ clock[j] = 1}
    IN  /\ fixIn > 0
        /\ \A j \in Jobs : row[j] = "taken" => clock[j] < ProcTimeout
        /\ fixIn' = fixIn - 1
        /\ row' = [j \in Jobs |-> IF j \in ripe THEN "due" ELSE row[j]]
        /\ \E q \in SetToSeqs(ripe) : due' = due \o q
        /\ clock' = [j \in Jobs |->
                CASE row[j] = "later" -> clock[j] - 1
                  [] row[j] \in {"taken", "lost"} -> clock[j] + 1
                  [] OTHER -> clock[j]]
        /\ UNCHANGED <<attempt, passes, crashes, failures>>

Next ==
    \/ \E j \in Jobs : Create(j) \/ Close(j) \/ PutOff(j)
    \/ \E S \in SUBSET Jobs : GetUpdate(S)
    \/ FixProcessingTimeout \/ FixFails
    \/ Crash
    \/ Tick

Spec == Init /\ [][Next]_vars

(* The poll stage keeps fetching and handlers end, each at some time or    *)
(* other; time passes and the fix stage runs with it.  Nothing is said of  *)
(* any one job: that each is fetched is for GetUpdate to see to.           *)
Fairness ==
    /\ WF_vars(\E S \in SUBSET Jobs : GetUpdate(S))
    /\ \A j \in Jobs : WF_vars(Close(j) \/ PutOff(j))
    /\ WF_vars(FixProcessingTimeout)
    /\ WF_vars(Tick)

FairSpec == Spec /\ Fairness
-----------------------------------------------------------------------------
(* Properties.                                                             *)

\* Although GetUpdate does not wait for delays to pass, and so fetches a job
\* that was just put off again and again, nobody is starved by that: a job
\* that is due is left behind only by fetches full of jobs that were before
\* it, and of each of those only once.
DueServed == \A j \in Jobs : passes[j] * Limit <= Cardinality(Jobs) - 1

\* A job that nobody holds any more after a crash is back in the schedule at
\* the latest one processing timeout and one delay of the fix stage after it
\* was fetched, or a delay more for each run of the fix stage that failed;
\* times when the service is down are not counted.
LostNotLong ==
    \A j \in Jobs : row[j] \in {"taken", "lost"} =>
        clock[j] <= ProcTimeout + FixDelay * (1 + failures)

\* Every job that has a next attempt is fetched, with no more fairness than
\* that fetches happen and time passes: this is why the models without time
\* may assume that a job that is scheduled again and again is fetched.
Fetched == \A j \in Jobs : row[j] \in {"due", "later"} ~> row[j] = "taken"

\* The rows as JobTable sees them, and who has them in hand.
JobRow(j) ==
    CASE row[j] \in {"due", "later"}  -> "scheduled"
      [] row[j] \in {"taken", "lost"} -> "taken"
      [] OTHER -> row[j]
Holders(j) == IF row[j] = "taken" THEN 1 ELSE 0

\* While handlers keep their lease nothing is overtaken: a fetched job has
\* one holder, whatever the fix stage finds.
Table == INSTANCE JobTable WITH
    row       <- [j \in Jobs |-> JobRow(j)],
    holders   <- [j \in Jobs |-> Holders(j)],
    overtaken <- 0
TableSpec == Table!Spec
=============================================================================
