------------------------------- MODULE Reading -------------------------------
(***************************************************************************)
(* What clients see: GET /api/user/orders, /api/user/balance and           *)
(* /api/user/withdrawals over the rows of Gophermart.  Each is a single    *)
(* SELECT outside any transaction and writes nothing, so it is an operator *)
(* on the committed rows, and a client may get its answer in any state; a  *)
(* client that asks several of them asks in several states.  The order of  *)
(* a listing (ORDER BY created_at) is left out.                            *)
(***************************************************************************)
EXTENDS Gophermart

Unfiltered == "nil"     \* a field of the filter that is not set

ASSUME UnfilteredAssumption == Unfiltered \notin Users

\* The most the accrual system grants for one order.
Highest == CHOOSE h \in Accruals : \A a \in Accruals : a <= h

ASSUME HighestAssumption == \E h \in Accruals \cap Nat : \A a \in Accruals : a <= h

\* OrderRepo.GetAll: the numbers of the rows that pass the filter.
GetAllOfType(type, user) ==
    {n \in Numbers : orders[n] # None /\ type \in {Unfiltered, orders[n].type}}
GetAll(type, user) ==
    {n \in Numbers : /\ orders[n] # None
                     /\ type \in {Unfiltered, orders[n].type}
                     /\ user \in {Unfiltered, orders[n].user}}

\* orderEndpoints.toResponse: the accrual is shown of PROCESSED orders only,
\* and omitted where it is zero.
OrderResponseEarly(n) ==
    [status  |-> orders[n].status,
     accrual |-> IF orders[n].status = "PROCESSING" THEN orders[n].amount ELSE 0]
OrderResponse(n) ==
    [status  |-> orders[n].status,
     accrual |-> IF orders[n].status = "PROCESSED" THEN orders[n].amount ELSE 0]

\* No content, or a response for each number listed.
Listing(shown) ==
    [code |-> IF DOMAIN shown = {} THEN "204" ELSE "200", shown |-> shown]

\* The use case asks for the orders of either type: a user's withdrawals are
\* listed among the uploaded orders, with their sum as the accrual.
GetOrders(u) == Listing([n \in GetAll(Unfiltered, u) |-> OrderResponse(n)])

WithdrawResponse(n) == orders[n].amount

GetWithdrawals(u) == Listing([n \in GetAll("OUTCOME", u) |-> WithdrawResponse(n)])

BalanceResponse(balance) == [current |-> balance.current, withdrawn |-> balance.withdrawn]
GetBalance(u) == BalanceResponse(balances[u])
-----------------------------------------------------------------------------
(* Properties.                                                             *)

\* The numbers of u's uploads that were answered 202, or withdrawals 200.
AcceptedOf(u, kind) ==
    {req[r].number : r \in {q \in Requests :
        Accepted(q) /\ req[q].user = u /\ req[q].kind = kind}}

\* Clients read their writes, and nobody else's: GET /api/user/orders has every
\* upload of the user that was answered 202, GET /api/user/withdrawals exactly
\* the withdrawals answered 200, and neither has a number that the user did
\* not have accepted (OrderRepo.GetAll and its filter).
ReadYourWrites ==
    \A u \in Users :
        LET listed == DOMAIN GetOrders(u).shown
            uploads == AcceptedOf(u, "upload")
            withdrawals == AcceptedOf(u, "withdraw")
        IN  /\ uploads \subseteq listed /\ listed \subseteq uploads \cup withdrawals
            /\ DOMAIN GetWithdrawals(u).shown = withdrawals
            /\ GetWithdrawals(u).code = "204" <=> withdrawals = {}

\* The list of uploaded numbers is that: what is in GET /api/user/orders was
\* uploaded (SPECIFICATION.md:52, :151).  Not so: OrderUseCase.GetAll asks for
\* the user's orders of either type.
UploadsListed ==
    \A u \in Users : DOMAIN GetOrders(u).shown \subseteq AcceptedOf(u, "upload")

\* The three answers tell one story: what a balance shows is explained by
\* what the same user's listings show, the accruals of the orders that are
\* not withdrawals and the sums of those that are.
BalanceExplained ==
    \A u \in Users :
        LET uploads == GetAll("INCOME", u)
            shown == GetOrders(u).shown
            sums == GetWithdrawals(u).shown
        IN  /\ GetBalance(u).current + GetBalance(u).withdrawn
                    <= SumFunction([n \in uploads |-> shown[n].accrual])
            /\ GetBalance(u).withdrawn <= SumFunction(sums)

\* What overtaken leases can cost: of all the workers that hold one order, and
\* of all that will fetch it again after a stale copy made it open again, each
\* credits it at most once, so that a balance exceeds what the listing shows
\* by no more than the highest accrual for each lease that ran out under its
\* holder (FixProcessingTimeout, UpdateAccrual, updateBalance).
OverpaymentBounded ==
    \A u \in Users :
        LET shown == GetOrders(u).shown
        IN  GetBalance(u).current + GetBalance(u).withdrawn
                <= SumFunction([n \in GetAll("INCOME", u) |-> shown[n].accrual])
                        + overtakes * Highest

\* A final status in a listing is the decision of the accrual system, with its
\* amount, whatever copies of the order workers hold and save: a stale copy can
\* make a final order open again, but never gives it another end.
DecisionShown ==
    \A u \in Users : \A n \in GetAll("INCOME", u) :
        LET shown == GetOrders(u).shown[n]
        IN  Final(shown.status) => shown = verdicts[n]

Rank(status) == CASE status = "NEW" -> 0 [] status = "PROCESSING" -> 1 [] OTHER -> 2

\* While leases are kept (MaxOvertakes = 0), a client that lists its orders
\* again finds all it found before, each order as far as it was or further,
\* and one in a final status exactly as it was: the order that UpdateAccrual
\* saves was read before the call to the accrual system, and what protects it
\* for so long is not the transaction but that nobody else has the job.  One
\* overtaken lease is enough to break this: Order.Update sees that an order is
\* final in the worker's copy, not in the row that the copy overwrites.
ListingsAdvance ==
    [][\A u \in Users :
        LET before == GetOrders(u).shown
            after == GetOrders(u).shown'
        IN  \A n \in DOMAIN before :
                /\ n \in DOMAIN after
                /\ Rank(before[n].status) <= Rank(after[n].status)
                /\ Final(before[n].status) => after[n] = before[n]]_vars
=============================================================================
