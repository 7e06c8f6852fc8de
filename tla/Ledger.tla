------------------------------- MODULE Ledger -------------------------------
(***************************************************************************)
(* What the loyalty system promises of orders and balances, as if every    *)
(* use case were one atomic step: an order is uploaded once, it moves      *)
(* forward until the accrual system's answer is final, the final answer is *)
(* credited in the very step that records it, and a withdrawal takes its   *)
(* sum from a balance that covers it.                                      *)
(***************************************************************************)
EXTENDS Entities

CONSTANTS
    Numbers,            \* the order numbers
    Amounts             \* the sums of money that are credited or withdrawn

VARIABLES
    orders,             \* number -> the row of table orders, or None
    balances            \* user -> the row of table balances

ledgerVars == <<orders, balances>>

Init ==
    /\ orders = [n \in Numbers |-> None]
    /\ balances = [u \in Users |-> NewBalance]

\* OrderUseCase.Create
Upload(n, u) ==
    /\ orders[n] = None
    /\ orders' = [orders EXCEPT ![n] = NewIncomeOrder(u)]
    /\ UNCHANGED balances

Open(n) == orders[n] # None /\ orders[n].type = "INCOME" /\ ~Final(orders[n].status)

\* OrderUseCase.UpdateAccrual with an answer that credits nothing
Mark(n, status) ==
    /\ Open(n)
    /\ status \in {"PROCESSING", "INVALID"}
    /\ orders' = [orders EXCEPT ![n].status = status]
    /\ UNCHANGED balances

\* OrderUseCase.UpdateAccrual with a PROCESSED answer
Credit(n, accrual) ==
    /\ Open(n)
    /\ accrual >= 0
    /\ orders' = [orders EXCEPT ![n].status = "PROCESSED", ![n].amount = accrual]
    /\ balances' = [balances EXCEPT ![orders[n].user].current = @ + accrual]

\* BalanceUseCase.Withdraw
Spend(n, u, sum) ==
    /\ orders[n] = None
    /\ sum > 0
    /\ balances[u].current >= sum
    /\ orders' = [orders EXCEPT ![n] = NewOutcomeOrder(u, sum)]
    /\ balances' = [balances EXCEPT ![u] =
                        [current |-> @.current - sum, withdrawn |-> @.withdrawn + sum]]

Next ==
    \E n \in Numbers :
        \/ \E u \in Users : Upload(n, u)
        \/ \E status \in OrderStatuses : Mark(n, status)
        \/ \E accrual \in Amounts : Credit(n, accrual)
        \/ \E u \in Users, sum \in Amounts : Spend(n, u, sum)

Spec == Init /\ [][Next]_ledgerVars
=============================================================================
