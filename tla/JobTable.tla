------------------------------ MODULE JobTable ------------------------------
(***************************************************************************)
(* What table jobs promises to everybody who works from it: a row is       *)
(* waiting to be fetched, taken by a fetch, or closed, and a fetched job   *)
(* is in the hands of whoever fetched it until it is saved or dropped.     *)
(* Gophermart, Pipeline and Schedule each implement this table; they see   *)
(* different things of the same rows.                                      *)
(***************************************************************************)
EXTENDS Integers, FiniteSets

CONSTANT Jobs

VARIABLES
    row,        \* job -> what the committed row says
    holders,    \* job -> how many copies of it are in somebody's hands
    overtaken   \* how often the fix stage took a row from a living holder

vars == <<row, holders, overtaken>>

RowStates == {"none", "scheduled", "taken", "closed"}

TypeOK ==
    /\ row \in [Jobs -> RowStates]
    /\ holders \in [Jobs -> Nat]
    /\ overtaken \in Nat

Init ==
    /\ row = [j \in Jobs |-> "none"]
    /\ holders = [j \in Jobs |-> 0]
    /\ overtaken = 0

\* JobRepo.Create, committed.
Create(j) ==
    /\ row[j] = "none"
    /\ row' = [row EXCEPT ![j] = "scheduled"]
    /\ UNCHANGED <<holders, overtaken>>

\* JobRepo.GetUpdate: only scheduled rows, each for one caller.
GetUpdate(S) ==
    /\ \A j \in S : row[j] = "scheduled"
    /\ row' = [j \in Jobs |-> IF j \in S THEN "taken" ELSE row[j]]
    /\ holders' = [j \in Jobs |-> IF j \in S THEN holders[j] + 1 ELSE holders[j]]
    /\ UNCHANGED overtaken

\* JobRepo.Update by a holder, who lets go of the job.  It asks nothing of
\* the row, so one that was overtaken overwrites what it finds.
Update(j, state) ==
    /\ holders[j] > 0
    /\ row' = [row EXCEPT ![j] = state]
    /\ holders' = [holders EXCEPT ![j] = @ - 1]
    /\ UNCHANGED overtaken

\* Holders are gone without a word: a crash, a shutdown.
Drop ==
    /\ holders' \in [Jobs -> Nat]
    /\ \A j \in Jobs : holders'[j] <= holders[j]
    /\ UNCHANGED <<row, overtaken>>

\* JobRepo.FixProcessingTimeout: taken rows are scheduled again, held or not.
FixProcessingTimeout(S) ==
    /\ \A j \in S : row[j] = "taken"
    /\ row' = [j \in Jobs |-> IF j \in S THEN "scheduled" ELSE row[j]]
    /\ overtaken' = overtaken + Cardinality({j \in S : holders[j] > 0})
    /\ UNCHANGED holders

Next ==
    \/ \E j \in Jobs : Create(j) \/ Update(j, "scheduled") \/ Update(j, "closed")
    \/ \E S \in SUBSET Jobs : GetUpdate(S) \/ FixProcessingTimeout(S)
    \/ Drop

Spec == Init /\ [][Next]_vars

\* The lease: a job is in as many hands as there were overtakes, and one
\* more; a scheduled row counts, for it is about to be fetched.
LeaseBound ==
    \A j \in Jobs :
        holders[j] + (IF row[j] = "scheduled" THEN 1 ELSE 0) <= 1 + overtaken
=============================================================================
