----------------------------- MODULE Gophermart -----------------------------
(***************************************************************************)
(* The use cases of the loyalty system over its PostgreSQL tables, one     *)
(* action per statement where another request, worker or process may run   *)
(* in between: uploading an order (OrderUseCase.Create), withdrawing       *)
(* (BalanceUseCase.Withdraw), the background job that asks the accrual     *)
(* system about an order (JobUseCase.Handle), the fix of jobs whose lease  *)
(* ran out (JobUseCase.FixProcessingTimeout), and crashes of the process.  *)
(*                                                                         *)
(* orders, balances and jobs are the COMMITTED rows.  What a transaction   *)
(* has written and not committed lives in the local state of the request   *)
(* or worker that runs it, which also says which locks it holds.           *)
(***************************************************************************)
EXTENDS Entities, FiniteSetsExt

CONSTANTS
    Numbers,        \* the order numbers clients send
    ValidNumbers,   \* those that pass the Luhn check
    Requests,       \* HTTP requests, each one upload or withdrawal
    Workers,        \* places for a fetched job: a handler's, or one in its queue
    Sums,           \* the sums clients ask to withdraw
    Accruals,       \* the amounts the accrual system grants
    Isolation,      \* the database's default_transaction_isolation
    MaxOvertakes,   \* how many times a lease runs out while its job is held
    MaxCrashes      \* how many times the process crashes

Codes == {"200", "202", "402", "409", "422", "500"}
Isolations == {"read committed", "repeatable read"}

\* The rows that a repeatable read transaction saw first; None in their place
\* when reads are not repeatable.
SeenRows == [order : Order \cup {None}, balance : Balance, job : Job \cup {None}]

ASSUME ConstantsAssumption ==
    /\ IsFiniteSet(Numbers)
    /\ ValidNumbers \subseteq Numbers
    /\ Sums \subseteq Int
    /\ Accruals \subseteq Int
    /\ Isolation \in Isolations
    /\ MaxOvertakes \in Nat
    /\ MaxCrashes \in Nat
    /\ None \notin Users \cup Numbers \cup Codes \cup SeenRows

VARIABLES
    orders,         \* number -> row of table orders, or None
    balances,       \* user -> row of table balances
    jobs,           \* number -> row of table jobs for that order, or None
    verdicts,       \* number -> the accrual system's final answer, or None
    req,            \* request -> the state of its handler
    wrk,            \* worker -> the state of its handler
    books,          \* user -> what was ever earned and spent: history, read by no action
    overtakes,      \* leases that ran out so far while their job was held
    crashes         \* crashes so far

tables == <<orders, balances, jobs>>
vars == <<orders, balances, jobs, verdicts, req, wrk, books, overtakes, crashes>>

\* The rows a repeatable read transaction saw first; None when reads are
\* not repeatable.
Snapshot == [order : Order \cup {None}, balance : Balance, job : Job \cup {None}] \cup {None}

RequestState ==
    [pc      : {"new", "insert", "commit", "done"},
     kind    : {"upload", "withdraw", None},
     user    : Users \cup {None},
     number  : Numbers \cup {None},
     order   : Order \cup {None},       \* the order to insert
     balance : Balance \cup {None},     \* the updated copy of the balance
     seen    : Snapshot,
     code    : Codes \cup {None}]

WorkerState ==
    [pc      : {"idle", "read", "ask", "credit", "order", "balance", "job", "fail"},
     number  : Numbers \cup {None},
     order   : Order \cup {None},       \* the copy of the order
     balance : Balance \cup {None},     \* the updated copy of the balance
     seen    : Snapshot]

NewRequest ==
    [pc |-> "new", kind |-> None, user |-> None, number |-> None, order |-> None,
     balance |-> None, seen |-> None, code |-> None]

\* A request that ends with this status code (None: the client gets none).
Ended(request, code) ==
    [request EXCEPT !.pc = "done", !.code = code,
                    !.order = None, !.balance = None, !.seen = None]

\* A worker with the job of order n in hand, and no transaction.
Holding(pc, n) ==
    [pc |-> pc, number |-> n, order |-> None, balance |-> None, seen |-> None]

IdleWorker == Holding("idle", None)

Init ==
    /\ orders = [n \in Numbers |-> None]
    /\ balances = [u \in Users |-> NewBalance]
    /\ jobs = [n \in Numbers |-> None]
    /\ verdicts = [n \in Numbers |-> None]
    /\ req = [r \in Requests |-> NewRequest]
    /\ wrk = [w \in Workers |-> IdleWorker]
    /\ books = [u \in Users |-> [earned |-> 0, spent |-> 0]]
    /\ overtakes = 0
    /\ crashes = 0
-----------------------------------------------------------------------------
(* Transactions: snapshots, and the locks their pending writes hold.       *)

Repeatable == Isolation = "repeatable read"

SnapshotOf(n, u) ==
    IF Repeatable THEN [order |-> orders[n], balance |-> balances[u], job |-> jobs[n]]
                  ELSE None

\* The rows that the transaction with snapshot seen reads: with repeatable
\* reads those of the snapshot, and to overwrite one that is not the current
\* row any more is a serialization failure; otherwise the last writer wins.
LatestBalance(seen, u)  == balances[u]
VisibleBalance(seen, u) == IF seen = None THEN balances[u] ELSE seen.balance
VisibleOrder(seen, n)   == IF seen = None THEN orders[n] ELSE seen.order
VisibleJob(seen, n)     == IF seen = None THEN jobs[n] ELSE seen.job

\* The row of order n is updated by a worker, uncommitted.
OrderLocked(n) == \E v \in Workers : wrk[v].number = n /\ wrk[v].pc \in {"balance", "job"}

\* The balance row of user u is updated by a worker, uncommitted.
BalanceLocked(u) ==
    \E v \in Workers : wrk[v].pc = "job" /\ wrk[v].balance # None /\ wrk[v].order.user = u

\* The unique key n is inserted by a request, uncommitted.
KeyLockedByOneself(n) == \E q \in Requests : req[q].pc = "insert" /\ req[q].number = n
KeyLocked(n) == \E q \in Requests : req[q].pc = "commit" /\ req[q].number = n
-----------------------------------------------------------------------------
(* POST /api/user/orders: createOrder and OrderUseCase.Create.             *)

Answered(r, code) == req' = [req EXCEPT ![r] = Ended(@, code)]

\* What the upload of n by u is answered when it finds the number taken.
Taken(n, u) == IF orders[n].user = u THEN "200" ELSE "409"

\* Validate the number and look for the order, outside any transaction.
PostOrder(r, u, n) ==
    LET posted == [NewRequest EXCEPT !.kind = "upload", !.user = u, !.number = n]
    IN  /\ req[r].pc = "new"
        /\ req' = [req EXCEPT ![r] =
                IF n \notin ValidNumbers THEN Ended(posted, "422")
                ELSE IF orders[n] # None THEN Ended(posted, Taken(n, u))
                ELSE [posted EXCEPT !.pc = "insert", !.order = OrderRow(NewIncomeOrder(u))]]
        /\ UNCHANGED <<tables, verdicts, wrk, books, overtakes, crashes>>

\* INSERT ... ON CONFLICT DO NOTHING, which waits for an uncommitted insert
\* of the same key.  The same statement serves uploads and withdrawals.
ConflictIgnored(n) == FALSE
Conflict(n) == orders[n] # None

InsertOrder(r) ==
    LET n == req[r].number
    IN  /\ req[r].pc = "insert"
        /\ ~KeyLocked(n)
        /\ IF Conflict(n)
           THEN Answered(r, IF req[r].kind = "upload" THEN "200" ELSE "409")
           ELSE req' = [req EXCEPT ![r] = [@ EXCEPT !.pc = "commit"]]
        /\ UNCHANGED <<tables, verdicts, wrk, books, overtakes, crashes>>

\* Insert the poll job and commit both rows.
EnqueueJob(r) ==
    LET n == req[r].number
    IN  /\ req[r].pc = "commit" /\ req[r].kind = "upload"
        /\ orders' = [orders EXCEPT ![n] = req[r].order]
        /\ jobs' = [jobs EXCEPT ![n] = NewJob]
        /\ Answered(r, "202")
        /\ UNCHANGED <<balances, verdicts, wrk, books, overtakes, crashes>>
-----------------------------------------------------------------------------
(* POST /api/user/balance/withdraw: withdraw and BalanceUseCase.Withdraw.  *)

\* Validate, begin the transaction, read the balance and update the copy.
PostWithdraw(r, u, n, sum) ==
    LET posted == [NewRequest EXCEPT !.kind = "withdraw", !.user = u, !.number = n]
        order == NewOutcomeOrder(u, sum)
    IN  /\ req[r].pc = "new"
        /\ req' = [req EXCEPT ![r] =
                IF n \notin ValidNumbers \/ BadAmount(sum) THEN Ended(posted, "422")
                ELSE IF ~CanApply(balances[u], order) THEN Ended(posted, "402")
                ELSE [posted EXCEPT !.pc = "insert",
                                    !.order = OrderRow(order),
                                    !.balance = BalanceRow(Applied(balances[u], order)),
                                    !.seen = SnapshotOf(n, u)]]
        /\ UNCHANGED <<tables, verdicts, wrk, books, overtakes, crashes>>

\* Overwrite the balance row with the copy and commit.
SaveBalance(r) ==
    LET n == req[r].number
        u == req[r].user
    IN  /\ req[r].pc = "commit" /\ req[r].kind = "withdraw"
        /\ ~BalanceLocked(u)
        /\ VisibleBalance(req[r].seen, u) = balances[u]
        /\ orders' = [orders EXCEPT ![n] = req[r].order]
        /\ balances' = [balances EXCEPT ![u] = req[r].balance]
        /\ books' = [books EXCEPT ![u].spent = @ + req[r].order.amount]
        /\ Answered(r, "200")
        /\ UNCHANGED <<jobs, verdicts, wrk, overtakes, crashes>>

\* A statement of either request fails, the transaction is rolled back.
AbortRequest(r) ==
    /\ req[r].pc \in {"insert", "commit"}
    /\ Answered(r, "500")
    /\ UNCHANGED <<tables, verdicts, wrk, books, overtakes, crashes>>
-----------------------------------------------------------------------------
(* The background job: JobRepo.GetUpdate, JobUseCase.pollAccrual with      *)
(* OrderUseCase.UpdateAccrual, and HandleStage.worker.                     *)

Held(n) == \E w \in Workers : wrk[w].number = n

Moved(w, pc) == wrk' = [wrk EXCEPT ![w] = [@ EXCEPT !.pc = pc]]

\* The transaction is gone with its copies; the job is still held.
RolledBack(w, pc) == wrk' = [wrk EXCEPT ![w] = Holding(pc, @.number)]

\* GetUpdate takes a job; it waits in the queue or is handled.
FetchJob(w, n) ==
    /\ wrk[w].pc = "idle"
    /\ jobs[n] # None /\ Due(jobs[n])
    /\ jobs' = [jobs EXCEPT ![n] = Fetched(@)]
    /\ wrk' = [wrk EXCEPT ![w] = Holding("read", n)]
    /\ UNCHANGED <<orders, balances, verdicts, req, books, overtakes, crashes>>

\* Begin the transaction and read the order.
ReadOrder(w) ==
    LET n == wrk[w].number
    IN  /\ wrk[w].pc = "read"
        /\ wrk' = [wrk EXCEPT ![w] = [@ EXCEPT !.pc = "ask",
                                               !.order = orders[n],
                                               !.seen = SnapshotOf(n, orders[n].user)]]
        /\ UNCHANGED <<tables, verdicts, req, books, overtakes, crashes>>

\* The accrual system computes (REGISTERED and PROCESSING are one status
\* here) or has decided; a decision is never revised.
Answers(n) ==
    IF verdicts[n] # None THEN {verdicts[n]}
    ELSE [status : {"PROCESSED"}, accrual : Accruals]
         \cup [status : {"PROCESSING", "INVALID"}, accrual : {0}]

\* The worker's copy of the order is updated; only PROCESSED touches the balance.
Informed(worker, answer) ==
    [worker EXCEPT !.pc = IF answer.status = "PROCESSED" THEN "credit" ELSE "order",
                   !.order = OrderUpdated(@, answer)]

\* GET /api/orders/{number} is answered 200, inside the transaction.  Only
\* now does Order.Update find out that the order was final all along.
AskAccrual(w) ==
    LET n == wrk[w].number
    IN  /\ wrk[w].pc = "ask"
        /\ \E answer \in Answers(n) :
            /\ verdicts' = [verdicts EXCEPT ![n] = IF Final(answer.status) THEN answer ELSE @]
            /\ IF Final(wrk[w].order.status) THEN RolledBack(w, "fail")
               ELSE wrk' = [wrk EXCEPT ![w] = Informed(@, answer)]
        /\ UNCHANGED <<tables, req, books, overtakes, crashes>>

\* It is answered 429: roll back, wait and handle the job again.
TooManyRequests(w) ==
    /\ wrk[w].pc = "ask"
    /\ RolledBack(w, "read")
    /\ UNCHANGED <<tables, verdicts, req, books, overtakes, crashes>>

\* updateBalance: read the balance and update the copy.
ReadBalance(w) ==
    LET order == wrk[w].order
        balance == VisibleBalance(wrk[w].seen, order.user)
    IN  /\ wrk[w].pc = "credit"
        /\ IF CanApply(balance, order)
           THEN wrk' = [wrk EXCEPT ![w] =
                    [@ EXCEPT !.pc = "order", !.balance = BalanceRow(Applied(balance, order))]]
           ELSE RolledBack(w, "fail")
        /\ UNCHANGED <<tables, verdicts, req, books, overtakes, crashes>>

\* The UPDATE of the order's row, which waits for its lock.
UpdateOrder(w) ==
    LET n == wrk[w].number
    IN  /\ wrk[w].pc = "order"
        /\ ~OrderLocked(n)
        /\ VisibleOrder(wrk[w].seen, n) = orders[n]
        /\ Moved(w, IF wrk[w].balance # None THEN "balance" ELSE "job")
        /\ UNCHANGED <<tables, verdicts, req, books, overtakes, crashes>>

\* The UPDATE of the balance's row, which waits for its lock.
UpdateBalance(w) ==
    LET u == wrk[w].order.user
    IN  /\ wrk[w].pc = "balance"
        /\ ~BalanceLocked(u)
        /\ VisibleBalance(wrk[w].seen, u) = balances[u]
        /\ Moved(w, "job")
        /\ UNCHANGED <<tables, verdicts, req, books, overtakes, crashes>>

\* The UPDATE of the job's row, and the commit of all the rows written.
UpdateJob(w) ==
    LET n == wrk[w].number
        order == OrderRow(wrk[w].order)
        credits == wrk[w].balance # None
    IN  /\ wrk[w].pc = "job"
        /\ VisibleJob(wrk[w].seen, n) = jobs[n]
        /\ orders' = [orders EXCEPT ![n] = order]
        /\ jobs' = [jobs EXCEPT ![n] = Handled(order.status)]
        /\ IF credits
           THEN /\ balances' = [balances EXCEPT ![order.user] = wrk[w].balance]
                /\ books' = [books EXCEPT ![order.user].earned = @ + order.amount]
           ELSE UNCHANGED <<balances, books>>
        /\ wrk' = [wrk EXCEPT ![w] = IdleWorker]
        /\ UNCHANGED <<verdicts, req, overtakes, crashes>>

\* A statement, the call (204, 500, unreachable) or the commit fails: the
\* transaction is rolled back and the handler gives up on the job.
AbortHandle(w) ==
    /\ wrk[w].pc \in {"read", "ask", "credit", "order", "balance", "job"}
    /\ RolledBack(w, "fail")
    /\ UNCHANGED <<tables, verdicts, req, books, overtakes, crashes>>

\* JobUseCase.fail: nothing will ever fetch this job again.
FailJob(w) ==
    LET n == wrk[w].number
    IN  /\ wrk[w].pc = "fail"
        /\ jobs' = [jobs EXCEPT ![n] = FailedJob]
        /\ wrk' = [wrk EXCEPT ![w] = IdleWorker]
        /\ UNCHANGED <<orders, balances, verdicts, req, books, overtakes, crashes>>
-----------------------------------------------------------------------------
\* FixStage: the jobs S, fetched longer ago than the processing timeout and
\* not saved since, are scheduled again, whether or not a worker holds them.
FixProcessingTimeout(S) ==
    /\ S # {}
    /\ \A n \in S : jobs[n] # None /\ Lost(jobs[n])
    /\ overtakes' = overtakes + Cardinality({n \in S : Held(n)})
    /\ overtakes' <= MaxOvertakes
    /\ jobs' = [n \in Numbers |-> IF n \in S THEN Requeued(jobs[n]) ELSE jobs[n]]
    /\ UNCHANGED <<orders, balances, verdicts, req, wrk, books, crashes>>

\* The process dies, or shuts down without waiting for its handlers, and is
\* started again: only committed rows remain, clients get no answer.
Crash ==
    /\ crashes < MaxCrashes
    /\ crashes' = crashes + 1
    /\ wrk' = [w \in Workers |-> IdleWorker]
    /\ req' = [r \in Requests |->
                  IF req[r].pc \in {"insert", "commit"}
                  THEN Ended(req[r], None) ELSE req[r]]
    /\ UNCHANGED <<tables, verdicts, books, overtakes>>

\* Nothing is left to do: the poll stage keeps finding no job.
NoData ==
    /\ \A r \in Requests : req[r].pc = "done"
    /\ \A w \in Workers : wrk[w].pc = "idle"
    /\ \A n \in Numbers : jobs[n] # None => ~jobs[n].scheduled /\ ~Lost(jobs[n])
    /\ UNCHANGED vars
-----------------------------------------------------------------------------
RequestStep(r) == InsertOrder(r) \/ EnqueueJob(r) \/ SaveBalance(r)

WorkerStep(w) ==
    \/ ReadOrder(w) \/ ReadBalance(w) \/ UpdateOrder(w) \/ UpdateBalance(w)
    \/ UpdateJob(w) \/ FailJob(w)

Next ==
    \/ \E r \in Requests :
        \/ \E u \in Users, n \in Numbers : PostOrder(r, u, n)
        \/ \E u \in Users, n \in Numbers, sum \in Sums : PostWithdraw(r, u, n, sum)
        \/ RequestStep(r)
        \/ AbortRequest(r)
    \/ \E w \in Workers :
        \/ \E n \in Numbers : FetchJob(w, n)
        \/ WorkerStep(w)
        \/ AskAccrual(w)
        \/ TooManyRequests(w)
        \/ AbortHandle(w)
    \/ \E S \in SUBSET Numbers : FixProcessingTimeout(S)
    \/ Crash
    \/ NoData

Spec == Init /\ [][Next]_vars

(* Handlers keep running; GetUpdate takes the oldest jobs first, so a job  *)
(* scheduled again and again is fetched; the fix stage runs on a timer; an *)
(* accrual system asked again and again decides at last.  Clients need not *)
(* send anything, and nothing needs to fail.                               *)
Fairness ==
    /\ \A r \in Requests : WF_vars(RequestStep(r))
    /\ \A w \in Workers : WF_vars(WorkerStep(w))
    /\ \A w \in Workers : SF_vars(AskAccrual(w) /\ verdicts'[wrk[w].number] # None)
    /\ \A n \in Numbers : SF_vars(\E w \in Workers : FetchJob(w, n))
    /\ \A n \in Numbers :
            WF_vars(\E S \in SUBSET Numbers : n \in S /\ FixProcessingTimeout(S))

FairSpec == Spec /\ Fairness
-----------------------------------------------------------------------------
(* Properties.                                                             *)

\* Rows and handler states have their types; in particular no interleaving
\* drives a balance below zero (columns current and withdrawn of balances).
TypeOK ==
    /\ orders \in [Numbers -> Order \cup {None}]
    /\ \A n \in Numbers : orders[n] # None => orders[n].amount >= 0
    /\ balances \in [Users -> Balance]
    /\ jobs \in [Numbers -> Job \cup {None}]
    /\ verdicts \in [Numbers -> Answer \cup {None}]
    /\ req \in [Requests -> RequestState]
    /\ wrk \in [Workers -> WorkerState]
    /\ books \in [Users -> [earned : Nat, spent : Nat]]
    /\ overtakes \in Nat
    /\ crashes \in Nat

\* What the rows of table orders say that user u earned and spent.
RowsOf(u, type) ==
    {n \in Numbers : orders[n] # None /\ orders[n].user = u /\ orders[n].type = type
                       /\ orders[n].status = "PROCESSED"}
EarnedRows(u) == SumFunction([n \in RowsOf(u, "INCOME") |-> orders[n].amount])
SpentRows(u)  == SumFunction([n \in RowsOf(u, "OUTCOME") |-> orders[n].amount])

\* Every accrual that was ever added to a balance belongs to one PROCESSED
\* income order, and every sum ever taken to one withdrawal: pollAccrual
\* credits an order once although it is retried, requeued and restarted.
CreditedOnce ==
    \A u \in Users : books[u].earned = EarnedRows(u) /\ books[u].spent = SpentRows(u)

Granted(n) == verdicts[n] # None /\ verdicts[n].status = "PROCESSED"

GrantsTo(u) ==
    {n \in Numbers : orders[n] # None /\ orders[n].user = u /\ orders[n].type = "INCOME"
                       /\ Granted(n) /\ verdicts[n].accrual > 0}
GrantedTo(u) == SumFunction([n \in GrantsTo(u) |-> verdicts[n].accrual])

\* No user ever has, or has withdrawn, more than the accrual system granted
\* for the orders they uploaded.
NotMoreThanGranted ==
    \A u \in Users : balances[u].current + balances[u].withdrawn <= GrantedTo(u)

\* GET /api/user/balance tells what the orders add up to: no update of a
\* balance is lost.
BalanceExact ==
    \A u \in Users :
        /\ balances[u].current = EarnedRows(u) - SpentRows(u)
        /\ balances[u].withdrawn = SpentRows(u)

Accepted(r) ==
    req[r].code = "202" \/ (req[r].kind = "withdraw" /\ req[r].code = "200")

\* Clients are told the truth about what was stored: a row of orders is there
\* exactly because one request of its user was answered 202 (upload) or 200
\* (withdrawal), no two requests were so answered for one number, and an
\* upload is answered 409 only if the number is another user's.
Receipts ==
    /\ \A n \in Numbers : orders[n] # None =>
        \E r \in Requests : Accepted(r) /\ req[r].number = n
    /\ \A r \in Requests : Accepted(r) =>
        LET order == orders[req[r].number]
        IN  order # None /\ order.user = req[r].user
            /\ (order.type = "INCOME" <=> req[r].kind = "upload")
    /\ \A r, q \in Requests :
        Accepted(r) /\ Accepted(q) /\ req[r].number = req[q].number => r = q
    /\ \A r \in Requests : req[r].kind = "upload" /\ req[r].code = "409" =>
        orders[req[r].number] # None /\ orders[req[r].number].user # req[r].user

\* The lease: while a worker holds a job nobody else does, and the row shows
\* it taken, so that FOR UPDATE SKIP LOCKED and the fix stage leave it alone.
OneHolder ==
    \A w \in Workers : wrk[w].pc # "idle" =>
        /\ Lost(jobs[wrk[w].number])
        /\ \A v \in Workers \ {w} : wrk[v].number # wrk[w].number

\* Order and job move in the same transaction: a PROCESSED job has a final
\* order, and a final order's job is never open again.
JobTellsOrder ==
    \A n \in Numbers : jobs[n] # None =>
        /\ orders[n] # None /\ orders[n].type = "INCOME"
        /\ jobs[n].status = "PROCESSED" => Final(orders[n].status)
        /\ Final(orders[n].status) => jobs[n].status \in {"PROCESSED", "FAILED"}

\* No accepted order is forgotten, not even by a crash: its job is closed, or
\* scheduled, or in the state FixProcessingTimeout looks for; and a closed job
\* is not scheduled.
JobsRecoverable ==
    \A n \in Numbers : orders[n] # None /\ orders[n].type = "INCOME" =>
        /\ jobs[n] # None
        /\ jobs[n].status = "NEW" => jobs[n].scheduled
        /\ jobs[n].status \in {"PROCESSED", "FAILED"} => ~jobs[n].scheduled

\* An upload is answered 200 only to the user whose order it is.
OwnerAnswer ==
    \A r \in Requests : req[r].kind = "upload" /\ req[r].code = "200" =>
        orders[req[r].number].user = req[r].user

\* Nobody withdraws more than was ever credited to them.
NoOverdraft == \A u \in Users : SpentRows(u) <= EarnedRows(u)

\* Every request ends, however it waits for the locks of others.
RequestsEnd == \A r \in Requests : req[r].pc \in {"insert", "commit"} ~> req[r].pc = "done"

\* Every accepted order reaches a final status, or its job is given up.
OrdersSettle ==
    \A n \in Numbers :
        jobs[n] # None ~>
            (jobs[n] # None /\ (Final(orders[n].status) \/ jobs[n].status = "FAILED"))

\* The abstract specification: with repeatable reads every use case is atomic.
Atomic == INSTANCE Ledger WITH Amounts <- Sums \cup Accruals
LedgerSpec == Atomic!Spec

\* What the row of order n's job is to those who only fetch and save it.
JobRow(n) ==
    CASE jobs[n] = None -> "none"
      [] jobs[n] # None /\ jobs[n].scheduled -> "scheduled"
      [] jobs[n] # None /\ Lost(jobs[n])     -> "taken"
      [] OTHER -> "closed"

\* Transactions and crashes treat jobs as the table they share with the
\* pipeline promises, overtaken leases included.
Table == INSTANCE JobTable WITH
    Jobs      <- Numbers,
    row       <- [n \in Numbers |-> JobRow(n)],
    holders   <- [n \in Numbers |-> Cardinality({w \in Workers : wrk[w].number = n})],
    overtaken <- overtakes
TableSpec == Table!Spec
=============================================================================
