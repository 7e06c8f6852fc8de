------------------------------ MODULE Entities ------------------------------
(***************************************************************************)
(* The values the system keeps and the pure operations on them: package    *)
(* internal/entity, and the conversions between an entity and its row in   *)
(* package internal/infra/repo.                                            *)
(*                                                                         *)
(* An order's uuid is abstracted by its number, which is unique in the     *)
(* table orders.  Money is an integer count of 1/Unit of a cent, so with   *)
(* Unit = 1 every amount is a whole number of cents and with Unit = 2 half *)
(* cents can be told apart; rows hold whole cents.                         *)
(***************************************************************************)
EXTENDS Integers

CONSTANTS
    Users,      \* the registered users
    Unit,       \* how many units of money a cent has
    None        \* SQL null, "no row", "not yet known"

OrderTypes    == {"INCOME", "OUTCOME"}
OrderStatuses == {"NEW", "PROCESSING", "INVALID", "PROCESSED"}
JobStatuses   == {"NEW", "PROCESSING", "FAILED", "PROCESSED"}

Order   == [user : Users, type : OrderTypes, status : OrderStatuses, amount : Int]
Balance == [current : Nat, withdrawn : Nat]
Job     == [status : JobStatuses, scheduled : BOOLEAN]

\* What the accrual system may say of an order once it has decided.
Answer == [status : OrderStatuses, accrual : Int]

ASSUME UnitAssumption == Unit \in Nat \ {0}
ASSUME NoneAssumption == None \notin Order \cup Balance \cup Job \cup Answer
-----------------------------------------------------------------------------
\* An order whose status no accrual answer may change any more.
FinalInvalidOnly(status) == status = "INVALID"
Final(status) == status \in {"INVALID", "PROCESSED"}

\* A new income order is worth nothing until the accrual system answers.
NewIncomeOrder(user) ==
    [user |-> user, type |-> "INCOME", status |-> "NEW", amount |-> 0]

\* A withdrawal is an order that is born PROCESSED.
NewOutcomeOrder(user, amount) ==
    [user |-> user, type |-> "OUTCOME", status |-> "PROCESSED", amount |-> amount]

\* NewOutcomeOrder refuses these amounts.
BadAmount(amount) == amount <= 0

\* Order.Update of an order that is not final: only a PROCESSED answer
\* carries an amount.
OrderUpdatedUnpaid(order, answer) == [order EXCEPT !.status = answer.status]
OrderUpdated(order, answer) ==
    [order EXCEPT !.status = answer.status,
                  !.amount = IF answer.status = "PROCESSED" THEN answer.accrual ELSE @]
-----------------------------------------------------------------------------
NewBalance == [current |-> 0, withdrawn |-> 0]

\* Balance.Update of a PROCESSED order succeeds: the amount is not negative
\* and a withdrawal is covered.
CanApplyUncovered(balance, order) == order.amount >= 0
CanApply(balance, order) ==
    /\ order.amount >= 0
    /\ order.type = "OUTCOME" => balance.current >= order.amount

\* Balance.put or Balance.withdraw.
AppliedTwice(balance, order) ==
    IF order.type = "INCOME"
    THEN [balance EXCEPT !.current = @ + 2 * order.amount]
    ELSE [current   |-> balance.current - order.amount,
          withdrawn |-> balance.withdrawn + order.amount]
Applied(balance, order) ==
    IF order.type = "INCOME"
    THEN [balance EXCEPT !.current = @ + order.amount]
    ELSE [current   |-> balance.current - order.amount,
          withdrawn |-> balance.withdrawn + order.amount]
-----------------------------------------------------------------------------
\* decimal.Round(2) of a non-negative amount: to whole cents, half a cent up.
Round(amount) ==
    LET part == amount % Unit
    IN  IF 2 * part >= Unit THEN amount - part + Unit ELSE amount - part

OrderRow(order)     == [order EXCEPT !.amount = Round(@)]
BalanceRow(balance) == [current   |-> Round(balance.current),
                        withdrawn |-> Round(balance.withdrawn)]
-----------------------------------------------------------------------------
\* A job is scheduled while its next_attempt_at is not null.
NewJobUnscheduled == [status |-> "NEW", scheduled |-> FALSE]
NewJob == [status |-> "NEW", scheduled |-> TRUE]

\* The rows GetUpdate selects, without asking whether their time has come,
\* and what it makes of them: taken, with no next attempt.
DueUnfinished(job) == job.status \in {"NEW", "PROCESSING"}
Due(job) == job.scheduled
FetchedStillScheduled(job) == [status |-> "PROCESSING", scheduled |-> TRUE]
Fetched(job) == [status |-> "PROCESSING", scheduled |-> FALSE]

\* The row FixProcessingTimeout selects, and what it makes of it.
Lost(job)     == job.status = "PROCESSING" /\ ~job.scheduled
RequeuedForgotten(job) == job
Requeued(job) == [job EXCEPT !.scheduled = TRUE]

\* The row pollAccrual saves once the order was updated.
HandledInOneGo(status) == [status |-> "PROCESSED", scheduled |-> FALSE]
Handled(status) ==
    IF Final(status) THEN [status |-> "PROCESSED", scheduled |-> FALSE]
                     ELSE [status |-> "PROCESSING", scheduled |-> TRUE]

\* The row fail saves.
FailedJob == [status |-> "FAILED", scheduled |-> FALSE]
=============================================================================
