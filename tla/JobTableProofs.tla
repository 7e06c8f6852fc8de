--------------------------- MODULE JobTableProofs ---------------------------
(***************************************************************************)
(* The lease bound of table jobs, for any finite set of jobs.              *)
(***************************************************************************)
EXTENDS JobTable, FiniteSetTheorems, TLAPS

\* The fix stage counts at least one overtake for each job it takes from a
\* living holder.
LEMMA OvertakesCounted ==
    ASSUME IsFiniteSet(Jobs), TypeOK,
           NEW S \in SUBSET Jobs,
           NEW n \in Nat, n = Cardinality({j \in S : holders[j] > 0})
    PROVE  \A j \in S : holders[j] > 0 => n >= 1
<1> DEFINE H == {j \in S : holders[j] > 0}
<1>1. IsFiniteSet(H)
    BY FS_Subset
<1> SUFFICES ASSUME NEW j \in S, holders[j] > 0
             PROVE  n >= 1
    OBVIOUS
<1>2. H # {}
    OBVIOUS
<1>3. Cardinality(H) # 0
    BY <1>1, <1>2, FS_EmptySet
<1> QED BY <1>3

\* The number of overtakes a fix adds is a natural number.
LEMMA OvertakesNat ==
    ASSUME IsFiniteSet(Jobs), NEW S \in SUBSET Jobs
    PROVE  Cardinality({j \in S : holders[j] > 0}) \in Nat
BY FS_Subset, FS_CardinalityType

\* A job that is not there yet is in nobody's hands: without this the bound
\* is not inductive, for Create would schedule a job somebody holds.
UnbornUnheld == \A j \in Jobs : row[j] = "none" => holders[j] = 0

LeaseInv == TypeOK /\ LeaseBound /\ UnbornUnheld

LEMMA LeaseStep ==
    ASSUME IsFiniteSet(Jobs), LeaseInv, [Next]_vars
    PROVE  LeaseInv'
<1> USE DEF LeaseInv, TypeOK, LeaseBound, UnbornUnheld, RowStates
<1>1. ASSUME NEW j \in Jobs, Create(j)
      PROVE  LeaseInv'
  <2>1. TypeOK'
    BY <1>1 DEF Create
  <2>2. ASSUME NEW k \in Jobs
        PROVE  holders'[k] + (IF row'[k] = "scheduled" THEN 1 ELSE 0) <= 1 + overtaken'
    <3>1. holders[k] + (IF row[k] = "scheduled" THEN 1 ELSE 0) <= 1 + overtaken
      OBVIOUS
    <3>2. CASE k = j
      BY <1>1, <3>2 DEF Create
    <3>3. CASE k # j
      BY <1>1, <3>1, <3>3 DEF Create
    <3> QED BY <3>2, <3>3
  <2>3. UnbornUnheld'
    BY <1>1 DEF Create
  <2> QED BY <2>1, <2>2, <2>3
<1>2. ASSUME NEW j \in Jobs, NEW state \in {"scheduled", "closed"}, Update(j, state)
      PROVE  LeaseInv'
    BY <1>2 DEF Update
<1>3. ASSUME NEW S \in SUBSET Jobs, GetUpdate(S)
      PROVE  LeaseInv'
  <2>1. TypeOK'
    BY <1>3 DEF GetUpdate
  <2>2. LeaseBound'
    BY <1>3 DEF GetUpdate
  <2>3. UnbornUnheld'
    BY <1>3 DEF GetUpdate
  <2> QED BY <2>1, <2>2, <2>3
<1>4. ASSUME NEW S \in SUBSET Jobs, FixProcessingTimeout(S)
      PROVE  LeaseInv'
  <2> DEFINE n == Cardinality({j \in S : holders[j] > 0})
  <2>1. n \in Nat
    BY OvertakesNat
  <2>2. \A j \in S : holders[j] > 0 => n >= 1
    BY <2>1, OvertakesCounted
  <2> HIDE DEF n
  <2>3. overtaken' = overtaken + n
    BY <1>4 DEF FixProcessingTimeout, n
  <2>4. row' = [j \in Jobs |-> IF j \in S THEN "scheduled" ELSE row[j]] /\ holders' = holders
    BY <1>4 DEF FixProcessingTimeout
  <2>5. \A j \in S : row[j] = "taken"
    BY <1>4 DEF FixProcessingTimeout
  <2>6. TypeOK'
    BY <2>1, <2>3, <2>4
  <2>7. ASSUME NEW j \in Jobs
        PROVE  holders'[j] + (IF row'[j] = "scheduled" THEN 1 ELSE 0) <= 1 + overtaken'
    <3>1. CASE j \notin S
        BY <2>1, <2>3, <2>4, <3>1
    <3>2. CASE j \in S /\ holders[j] = 0
        BY <2>1, <2>3, <2>4, <3>2
    <3>3. CASE j \in S /\ holders[j] > 0
      <4>1. n >= 1
        BY <2>2, <3>3
      <4>2. holders[j] <= 1 + overtaken
        BY <2>5, <3>3
      <4> QED BY <2>1, <2>3, <2>4, <4>1, <4>2
    <3> QED BY <3>1, <3>2, <3>3
  <2>8. UnbornUnheld'
    BY <2>4, <2>5
  <2> QED BY <2>6, <2>7, <2>8
<1>5. CASE Drop
  <2>1. TypeOK'
    BY <1>5 DEF Drop
  <2>2. ASSUME NEW j \in Jobs
        PROVE  holders'[j] + (IF row'[j] = "scheduled" THEN 1 ELSE 0) <= 1 + overtaken'
    BY <1>5 DEF Drop
  <2>3. UnbornUnheld'
    BY <1>5 DEF Drop
  <2> QED BY <2>1, <2>2, <2>3
<1>6. CASE UNCHANGED vars
    BY <1>6 DEF vars
<1> QED BY <1>1, <1>2, <1>3, <1>4, <1>5, <1>6 DEF Next

\* JobRepo.GetUpdate hands a job to one caller at a time: with no overtaken
\* lease a job has one holder at most and none while it is scheduled, and
\* every overtake of FixProcessingTimeout allows for one more.
THEOREM LeaseHolds == ASSUME IsFiniteSet(Jobs) PROVE Spec => []LeaseBound
<1>1. Init => LeaseInv
    BY DEF Init, LeaseInv, TypeOK, LeaseBound, UnbornUnheld, RowStates
<1>2. LeaseInv /\ [Next]_vars => LeaseInv'
    BY LeaseStep
<1>3. LeaseInv => LeaseBound
    BY DEF LeaseInv
<1> QED BY <1>1, <1>2, <1>3, PTL DEF Spec
=============================================================================
