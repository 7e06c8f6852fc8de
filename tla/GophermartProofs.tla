-------------------------- MODULE GophermartProofs --------------------------
(***************************************************************************)
(* Theorems about Gophermart and what clients are told, for every value of *)
(* the constants: types, receipts, who holds which kind of order, the life *)
(* of a job row and who holds it, and that transactions and crashes keep   *)
(* the promise of the job table.                                           *)
(***************************************************************************)
EXTENDS Reading, FiniteSetTheorems, TLAPS

-----------------------------------------------------------------------------
(* What the pure operations of Entities return, and what they preserve.    *)

\* Rounding to cents (decimal.Round in toRow) keeps an amount non-negative.
LEMMA RoundType == ASSUME NEW a \in Nat PROVE Round(a) \in Nat
<1> DEFINE part == a % Unit
<1>1. part \in Nat /\ part <= a
  BY UnitAssumption
<1>2. QED
  BY <1>1, UnitAssumption DEF Round

\* With whole cents rounding changes nothing.
LEMMA RoundIdentity == ASSUME Unit = 1, NEW a \in Nat PROVE Round(a) = a
  BY SMT DEF Round

\* toRow keeps whose order it is, its kind and its status, and an amount
\* that is not negative.
LEMMA OrderRowType ==
  ASSUME NEW o \in Order, o.amount >= 0
  PROVE  /\ OrderRow(o) \in Order
         /\ OrderRow(o).amount >= 0
         /\ OrderRow(o).user = o.user
         /\ OrderRow(o).type = o.type
         /\ OrderRow(o).status = o.status
<1>1. Round(o.amount) \in Nat
  BY RoundType DEF Order
<1>2. QED
  BY <1>1 DEF Order, OrderRow

\* The constructors of orders.
LEMMA NewIncomeOrderType ==
  ASSUME NEW u \in Users
  PROVE  /\ NewIncomeOrder(u) \in Order
         /\ NewIncomeOrder(u).amount = 0
         /\ NewIncomeOrder(u).user = u
  BY DEF Order, NewIncomeOrder, OrderTypes, OrderStatuses

LEMMA NewOutcomeOrderType ==
  ASSUME NEW u \in Users, NEW a \in Int
  PROVE  /\ NewOutcomeOrder(u, a) \in Order
         /\ NewOutcomeOrder(u, a).amount = a
         /\ NewOutcomeOrder(u, a).user = u
         /\ NewOutcomeOrder(u, a).type = "OUTCOME"
  BY DEF Order, NewOutcomeOrder, OrderTypes, OrderStatuses

\* Order.Update changes the status, and the amount only on PROCESSED.
LEMMA OrderUpdatedType ==
  ASSUME NEW o \in Order, NEW answer \in Answer
  PROVE  /\ OrderUpdated(o, answer) \in Order
         /\ OrderUpdated(o, answer).user = o.user
         /\ OrderUpdated(o, answer).type = o.type
         /\ OrderUpdated(o, answer).status = answer.status
         /\ answer.status # "PROCESSED" => OrderUpdated(o, answer).amount = o.amount
  BY DEF Order, Answer, OrderUpdated

\* Balance.Update, where it succeeds, leaves no column negative.
LEMMA AppliedType ==
  ASSUME NEW b \in Balance, NEW o \in Order, CanApply(b, o)
  PROVE  Applied(b, o) \in Balance
<1>1. b.current \in Nat /\ b.withdrawn \in Nat /\ o.amount \in Nat
  BY DEF Balance, Order, CanApply
<1>2. CASE o.type = "INCOME"
  BY <1>1, <1>2 DEF Balance, Applied
<1>3. CASE o.type = "OUTCOME"
  <2>1. b.current - o.amount \in Nat
    BY <1>1, <1>3 DEF CanApply
  <2>2. QED
    BY <1>1, <1>3, <2>1 DEF Balance, Applied
<1>4. QED
  BY <1>2, <1>3 DEF Order, OrderTypes

LEMMA BalanceRowType ==
  ASSUME NEW b \in Balance PROVE BalanceRow(b) \in Balance
  BY RoundType DEF Balance, BalanceRow

\* The row pollAccrual saves: PROCESSED exactly when the order is final.
LEMMA HandledType ==
  ASSUME NEW status
  PROVE  /\ Handled(status) \in Job
         /\ Handled(status).status = "PROCESSED" <=> Final(status)
         /\ Handled(status).scheduled <=> ~Final(status)
<1>1. CASE Final(status)
  <2>1. Handled(status) = [status |-> "PROCESSED", scheduled |-> FALSE]
    BY <1>1 DEF Handled
  <2>2. QED
    BY <1>1, <2>1 DEF Job, JobStatuses
<1>2. CASE ~Final(status)
  <2>1. Handled(status) = [status |-> "PROCESSING", scheduled |-> TRUE]
    BY <1>2 DEF Handled
  <2>2. QED
    BY <1>2, <2>1 DEF Job, JobStatuses
<1>3. QED
  BY <1>1, <1>2

-----------------------------------------------------------------------------
(* What the steps of a handler return.                                     *)

LEMMA EndedType ==
  ASSUME NEW q \in RequestState, NEW code \in Codes \cup {None}
  PROVE  /\ Ended(q, code) \in RequestState
         /\ Ended(q, code).pc = "done"
         /\ Ended(q, code).kind = q.kind
         /\ Ended(q, code).user = q.user
         /\ Ended(q, code).number = q.number
         /\ Ended(q, code).code = code
  BY DEF RequestState, Ended, Snapshot

LEMMA HoldingType ==
  ASSUME NEW pc \in {"idle", "read", "fail"}, NEW n \in Numbers \cup {None}
  PROVE  /\ Holding(pc, n) \in WorkerState
         /\ Holding(pc, n).pc = pc
         /\ Holding(pc, n).number = n
         /\ Holding(pc, n).order = None
         /\ Holding(pc, n).balance = None
         /\ Holding(pc, n).seen = None
  BY DEF WorkerState, Holding, Snapshot

-----------------------------------------------------------------------------
(* Type correctness.  A handler that is about to write a row holds one:    *)
(* TypeOK alone would let it hold None.                                    *)

RequestReady(q) ==
    q.pc \in {"insert", "commit"} =>
        /\ q.kind \in {"upload", "withdraw"}
        /\ q.user \in Users
        /\ q.number \in Numbers
        /\ q.order \in Order
        /\ q.order.amount >= 0
        /\ q.kind = "withdraw" => q.balance \in Balance

WorkerReady(x) ==
    /\ x.pc # "idle" => x.number \in Numbers /\ orders[x.number] # None
    /\ x.pc \in {"ask", "credit", "order", "balance", "job"} => x.order \in Order
    /\ x.pc \in {"ask", "order", "balance", "job"} => x.order.amount >= 0

JobsHaveOrders == \A n \in Numbers : jobs[n] # None => orders[n] # None
RequestsReady  == \A r \in Requests : RequestReady(req[r])
WorkersReady   == \A w \in Workers : WorkerReady(wrk[w])

TypeInv == TypeOK /\ JobsHaveOrders /\ RequestsReady /\ WorkersReady

LEMMA SnapshotType ==
  ASSUME TypeInv, NEW n \in Numbers, NEW u \in Users
  PROVE  SnapshotOf(n, u) \in Snapshot
  BY DEF TypeInv, TypeOK, SnapshotOf, Snapshot

LEMMA VisibleBalanceType ==
  ASSUME TypeInv, NEW seen \in Snapshot, NEW u \in Users
  PROVE  VisibleBalance(seen, u) \in Balance
  BY DEF TypeInv, TypeOK, VisibleBalance, Snapshot

\* A step that moves one request and nothing else.
LEMMA RequestMoves ==
  ASSUME TypeInv, NEW r \in Requests, NEW q \in RequestState, RequestReady(q),
         req' = [req EXCEPT ![r] = q],
         UNCHANGED <<tables, verdicts, wrk, books, overtakes, crashes>>
  PROVE  TypeInv'
<1> USE DEF TypeInv, tables
<1>1. TypeOK'
  BY DEF TypeOK
<1>2. JobsHaveOrders'
  BY DEF JobsHaveOrders
<1>3. RequestsReady'
  BY DEF TypeOK, RequestsReady, RequestReady
<1>4. WorkersReady'
  BY DEF WorkersReady, WorkerReady
<1>5. QED
  BY <1>1, <1>2, <1>3, <1>4

\* A step that moves one worker, and at most records a verdict besides.
LEMMA WorkerMoves ==
  ASSUME TypeInv, NEW w \in Workers, NEW x \in WorkerState, WorkerReady(x),
         wrk' = [wrk EXCEPT ![w] = x],
         verdicts' \in [Numbers -> Answer \cup {None}],
         UNCHANGED <<tables, req, books, overtakes, crashes>>
  PROVE  TypeInv'
<1> USE DEF TypeInv, tables
<1>1. TypeOK'
  BY DEF TypeOK
<1>2. JobsHaveOrders'
  BY DEF JobsHaveOrders
<1>3. RequestsReady'
  BY DEF RequestsReady, RequestReady
<1>4. WorkersReady'
  BY DEF TypeOK, WorkersReady, WorkerReady
<1>5. QED
  BY <1>1, <1>2, <1>3, <1>4

\* A step that moves one worker and writes one job.
LEMMA JobMoves ==
  ASSUME TypeInv, NEW w \in Workers, NEW x \in WorkerState, WorkerReady(x),
         wrk' = [wrk EXCEPT ![w] = x],
         NEW n \in Numbers, NEW j \in Job, orders[n] # None,
         jobs' = [jobs EXCEPT ![n] = j],
         UNCHANGED <<orders, balances, verdicts, req, books, overtakes, crashes>>
  PROVE  TypeInv'
<1> USE DEF TypeInv
<1>1. TypeOK'
  BY DEF TypeOK
<1>2. JobsHaveOrders'
  BY DEF TypeOK, JobsHaveOrders
<1>3. RequestsReady'
  BY DEF RequestsReady, RequestReady
<1>4. WorkersReady'
  BY DEF TypeOK, WorkersReady, WorkerReady
<1>5. QED
  BY <1>1, <1>2, <1>3, <1>4

LEMMA TypePostOrder ==
  ASSUME TypeInv, NEW r \in Requests, NEW u \in Users, NEW n \in Numbers, PostOrder(r, u, n)
  PROVE  TypeInv'
<1> DEFINE posted == [NewRequest EXCEPT !.kind = "upload", !.user = u, !.number = n]
           inserting == [posted EXCEPT !.pc = "insert", !.order = OrderRow(NewIncomeOrder(u))]
           q == IF n \notin ValidNumbers THEN Ended(posted, "422")
                ELSE IF orders[n] # None THEN Ended(posted, Taken(n, u))
                ELSE inserting
<1>1. posted \in RequestState
  BY DEF RequestState, NewRequest, Snapshot
<1>2. /\ Ended(posted, "422") \in RequestState
      /\ RequestReady(Ended(posted, "422"))
      /\ Ended(posted, Taken(n, u)) \in RequestState
      /\ RequestReady(Ended(posted, Taken(n, u)))
  BY <1>1, EndedType DEF RequestReady, Taken, Codes
<1>3. inserting \in RequestState /\ RequestReady(inserting)
  <2>1. /\ OrderRow(NewIncomeOrder(u)) \in Order
        /\ OrderRow(NewIncomeOrder(u)).amount >= 0
    BY NewIncomeOrderType, OrderRowType
  <2>2. QED
    BY <2>1 DEF RequestState, NewRequest, Snapshot, RequestReady
<1>4. q \in RequestState /\ RequestReady(q)
  BY <1>2, <1>3
<1>5. /\ req' = [req EXCEPT ![r] = q]
      /\ UNCHANGED <<tables, verdicts, wrk, books, overtakes, crashes>>
  BY DEF PostOrder
<1>6. QED
  BY <1>4, <1>5, RequestMoves

LEMMA TypePostWithdraw ==
  ASSUME TypeInv, NEW r \in Requests, NEW u \in Users, NEW n \in Numbers, NEW sum \in Sums,
         PostWithdraw(r, u, n, sum)
  PROVE  TypeInv'
<1> DEFINE posted == [NewRequest EXCEPT !.kind = "withdraw", !.user = u, !.number = n]
           order == NewOutcomeOrder(u, sum)
           inserting == [posted EXCEPT !.pc = "insert",
                                       !.order = OrderRow(order),
                                       !.balance = BalanceRow(Applied(balances[u], order)),
                                       !.seen = SnapshotOf(n, u)]
           q == IF n \notin ValidNumbers \/ BadAmount(sum) THEN Ended(posted, "422")
                ELSE IF ~CanApply(balances[u], order) THEN Ended(posted, "402")
                ELSE inserting
<1>1. posted \in RequestState
  BY DEF RequestState, NewRequest, Snapshot
<1>2. /\ Ended(posted, "422") \in RequestState
      /\ RequestReady(Ended(posted, "422"))
      /\ Ended(posted, "402") \in RequestState
      /\ RequestReady(Ended(posted, "402"))
  BY <1>1, EndedType DEF RequestReady, Codes
<1>3. ASSUME ~BadAmount(sum), CanApply(balances[u], order)
      PROVE  inserting \in RequestState /\ RequestReady(inserting)
  <2>1. sum \in Int /\ sum >= 0
    BY <1>3, ConstantsAssumption DEF BadAmount
  <2>2. order \in Order /\ order.amount >= 0
    BY <2>1, NewOutcomeOrderType
  <2>3. OrderRow(order) \in Order /\ OrderRow(order).amount >= 0
    BY <2>2, OrderRowType
  <2>4. BalanceRow(Applied(balances[u], order)) \in Balance
    BY <1>3, <2>2, AppliedType, BalanceRowType DEF TypeInv, TypeOK
  <2>5. SnapshotOf(n, u) \in Snapshot
    BY SnapshotType
  <2> HIDE DEF order
  <2>6. QED
    BY <2>3, <2>4, <2>5 DEF RequestState, NewRequest, RequestReady
<1>4. q \in RequestState /\ RequestReady(q)
  BY <1>2, <1>3
<1>5. /\ req' = [req EXCEPT ![r] = q]
      /\ UNCHANGED <<tables, verdicts, wrk, books, overtakes, crashes>>
  BY DEF PostWithdraw
<1>6. QED
  BY <1>4, <1>5, RequestMoves

LEMMA TypeInsertOrder ==
  ASSUME TypeInv, NEW r \in Requests, InsertOrder(r)
  PROVE  TypeInv'
<1> DEFINE answer == IF req[r].kind = "upload" THEN "200" ELSE "409"
           inserted == [req[r] EXCEPT !.pc = "commit"]
           q == IF Conflict(req[r].number) THEN Ended(req[r], answer) ELSE inserted
<1>1. req[r] \in RequestState /\ RequestReady(req[r]) /\ req[r].pc = "insert"
  BY DEF TypeInv, TypeOK, RequestsReady, InsertOrder
<1>2. Ended(req[r], answer) \in RequestState /\ RequestReady(Ended(req[r], answer))
  BY <1>1, EndedType DEF RequestReady, Codes
<1>3. inserted \in RequestState /\ RequestReady(inserted)
  BY <1>1 DEF RequestState, RequestReady
<1>4. q \in RequestState /\ RequestReady(q)
  BY <1>2, <1>3
<1>5. /\ req' = [req EXCEPT ![r] = q]
      /\ UNCHANGED <<tables, verdicts, wrk, books, overtakes, crashes>>
  BY DEF InsertOrder, Answered
<1>6. QED
  BY <1>4, <1>5, RequestMoves

LEMMA TypeEnqueueJob ==
  ASSUME TypeInv, NEW r \in Requests, EnqueueJob(r)
  PROVE  TypeInv'
<1> DEFINE n == req[r].number
           o == req[r].order
           q == Ended(req[r], "202")
<1>1. /\ req[r] \in RequestState
      /\ n \in Numbers /\ o \in Order /\ o.amount >= 0
  BY DEF TypeInv, TypeOK, RequestsReady, RequestReady, EnqueueJob
<1>2. q \in RequestState /\ RequestReady(q)
  BY <1>1, EndedType DEF RequestReady, Codes
<1>3. /\ orders' = [orders EXCEPT ![n] = o]
      /\ jobs' = [jobs EXCEPT ![n] = NewJob]
      /\ req' = [req EXCEPT ![r] = q]
      /\ UNCHANGED <<balances, verdicts, wrk, books, overtakes, crashes>>
  BY DEF EnqueueJob, Answered
<1>4. o # None /\ NewJob \in Job
  BY <1>1, NoneAssumption DEF NewJob, Job, JobStatuses
<1> HIDE DEF n, o, q
<1> USE DEF TypeInv
<1>5. TypeOK'
  BY <1>1, <1>2, <1>3, <1>4 DEF TypeOK
<1>6. JobsHaveOrders'
  BY <1>1, <1>3, <1>4 DEF TypeOK, JobsHaveOrders
<1>7. RequestsReady'
  BY <1>2, <1>3 DEF TypeOK, RequestsReady, RequestReady
<1>8. WorkersReady'
  BY <1>1, <1>3, <1>4 DEF TypeOK, WorkersReady, WorkerReady
<1>9. QED
  BY <1>5, <1>6, <1>7, <1>8

LEMMA TypeSaveBalance ==
  ASSUME TypeInv, NEW r \in Requests, SaveBalance(r)
  PROVE  TypeInv'
<1> DEFINE n == req[r].number
           u == req[r].user
           o == req[r].order
           b == req[r].balance
           q == Ended(req[r], "200")
<1>1. /\ req[r] \in RequestState
      /\ n \in Numbers /\ u \in Users /\ o \in Order /\ o.amount >= 0 /\ b \in Balance
  BY DEF TypeInv, TypeOK, RequestsReady, RequestReady, SaveBalance
<1>2. q \in RequestState /\ RequestReady(q)
  BY <1>1, EndedType DEF RequestReady, Codes
<1>3. /\ orders' = [orders EXCEPT ![n] = o]
      /\ balances' = [balances EXCEPT ![u] = b]
      /\ books' = [books EXCEPT ![u].spent = @ + o.amount]
      /\ req' = [req EXCEPT ![r] = q]
      /\ UNCHANGED <<jobs, verdicts, wrk, overtakes, crashes>>
  BY DEF SaveBalance, Answered
<1>4. o # None /\ o.amount \in Nat
  BY <1>1, NoneAssumption DEF Order
<1> HIDE DEF n, u, o, b, q
<1> USE DEF TypeInv
<1>5. books' \in [Users -> [earned : Nat, spent : Nat]]
  BY <1>1, <1>3, <1>4 DEF TypeOK
<1>6. TypeOK'
  BY <1>1, <1>2, <1>3, <1>4, <1>5 DEF TypeOK
<1>7. JobsHaveOrders'
  BY <1>1, <1>3, <1>4 DEF TypeOK, JobsHaveOrders
<1>8. RequestsReady'
  BY <1>2, <1>3 DEF TypeOK, RequestsReady, RequestReady
<1>9. WorkersReady'
  BY <1>1, <1>3, <1>4 DEF TypeOK, WorkersReady, WorkerReady
<1>10. QED
  BY <1>6, <1>7, <1>8, <1>9

LEMMA TypeAbortRequest ==
  ASSUME TypeInv, NEW r \in Requests, AbortRequest(r)
  PROVE  TypeInv'
<1> DEFINE q == Ended(req[r], "500")
<1>1. q \in RequestState /\ RequestReady(q)
  BY EndedType DEF TypeInv, TypeOK, RequestReady, Codes
<1>2. /\ req' = [req EXCEPT ![r] = q]
      /\ UNCHANGED <<tables, verdicts, wrk, books, overtakes, crashes>>
  BY DEF AbortRequest, Answered
<1>3. QED
  BY <1>1, <1>2, RequestMoves

LEMMA TypeFetchJob ==
  ASSUME TypeInv, NEW w \in Workers, NEW n \in Numbers, FetchJob(w, n)
  PROVE  TypeInv'
<1>1. orders[n] # None
  BY DEF TypeInv, JobsHaveOrders, FetchJob
<1>2. Holding("read", n) \in WorkerState /\ WorkerReady(Holding("read", n))
  BY <1>1, HoldingType DEF WorkerReady
<1>3. Fetched(jobs[n]) \in Job
  BY DEF Fetched, Job, JobStatuses
<1>4. /\ wrk' = [wrk EXCEPT ![w] = Holding("read", n)]
      /\ jobs' = [jobs EXCEPT ![n] = Fetched(jobs[n])]
      /\ UNCHANGED <<orders, balances, verdicts, req, books, overtakes, crashes>>
  BY DEF FetchJob
<1>5. QED
  BY <1>1, <1>2, <1>3, <1>4, JobMoves

\* The worker lets its transaction go: the case of four actions.
LEMMA TypeRolledBack ==
  ASSUME TypeInv, NEW w \in Workers, wrk[w].pc # "idle",
         NEW pc \in {"read", "fail"}, RolledBack(w, pc),
         verdicts' \in [Numbers -> Answer \cup {None}],
         UNCHANGED <<tables, req, books, overtakes, crashes>>
  PROVE  TypeInv'
<1> DEFINE x == Holding(pc, wrk[w].number)
<1>1. wrk[w].number \in Numbers /\ orders[wrk[w].number] # None
  BY DEF TypeInv, WorkersReady, WorkerReady
<1>2. x \in WorkerState /\ WorkerReady(x)
  BY <1>1, HoldingType DEF WorkerReady
<1>3. wrk' = [wrk EXCEPT ![w] = x]
  BY DEF RolledBack
<1>4. QED
  BY <1>2, <1>3, WorkerMoves

LEMMA TypeReadOrder ==
  ASSUME TypeInv, NEW w \in Workers, ReadOrder(w)
  PROVE  TypeInv'
<1> DEFINE n == wrk[w].number
           x == [wrk[w] EXCEPT !.pc = "ask", !.order = orders[n],
                               !.seen = SnapshotOf(n, orders[n].user)]
<1>1. wrk[w] \in WorkerState /\ n \in Numbers /\ orders[n] # None
  BY DEF TypeInv, TypeOK, WorkersReady, WorkerReady, ReadOrder
<1>2. orders[n] \in Order /\ orders[n].amount >= 0
  BY <1>1 DEF TypeInv, TypeOK
<1>3. SnapshotOf(n, orders[n].user) \in Snapshot
  BY <1>1, <1>2, SnapshotType DEF Order
<1>4. x \in WorkerState /\ WorkerReady(x)
  BY <1>1, <1>2, <1>3 DEF WorkerState, WorkerReady
<1>5. /\ wrk' = [wrk EXCEPT ![w] = x]
      /\ UNCHANGED <<tables, verdicts, req, books, overtakes, crashes>>
  BY DEF ReadOrder
<1>6. verdicts' \in [Numbers -> Answer \cup {None}]
  BY <1>5 DEF TypeInv, TypeOK
<1>7. QED
  BY <1>4, <1>5, <1>6, WorkerMoves

LEMMA AnswersType ==
  ASSUME TypeInv, NEW n \in Numbers
  PROVE  \A answer \in Answers(n) : answer \in Answer
<1>1. CASE verdicts[n] # None
  BY <1>1 DEF TypeInv, TypeOK, Answers
<1>2. CASE verdicts[n] = None
  <2>1. [status : {"PROCESSED"}, accrual : Accruals] \subseteq Answer
    BY ConstantsAssumption DEF Answer, OrderStatuses
  <2>2. [status : {"PROCESSING", "INVALID"}, accrual : {0}] \subseteq Answer
    BY DEF Answer, OrderStatuses
  <2>3. QED
    BY <1>2, <2>1, <2>2 DEF Answers
<1>3. QED
  BY <1>1, <1>2

LEMMA TypeAskAccrual ==
  ASSUME TypeInv, NEW w \in Workers, AskAccrual(w)
  PROVE  TypeInv'
<1> DEFINE n == wrk[w].number
<1>1. /\ wrk[w] \in WorkerState /\ n \in Numbers /\ orders[n] # None
      /\ wrk[w].order \in Order /\ wrk[w].order.amount >= 0
      /\ wrk[w].pc = "ask"
  BY DEF TypeInv, TypeOK, WorkersReady, WorkerReady, AskAccrual
<1>2. PICK answer \in Answers(n) :
        /\ verdicts' = [verdicts EXCEPT ![n] = IF Final(answer.status) THEN answer ELSE @]
        /\ IF Final(wrk[w].order.status) THEN RolledBack(w, "fail")
           ELSE wrk' = [wrk EXCEPT ![w] = Informed(@, answer)]
  BY DEF AskAccrual
<1>3. answer \in Answer
  BY <1>1, AnswersType
<1>4. verdicts' \in [Numbers -> Answer \cup {None}]
  BY <1>1, <1>2, <1>3 DEF TypeInv, TypeOK
<1>5. UNCHANGED <<tables, req, books, overtakes, crashes>>
  BY DEF AskAccrual
<1>6. CASE Final(wrk[w].order.status)
  BY <1>1, <1>2, <1>4, <1>5, <1>6, TypeRolledBack
<1>7. CASE ~Final(wrk[w].order.status)
  <2> DEFINE x == Informed(wrk[w], answer)
  <2>1. /\ OrderUpdated(wrk[w].order, answer) \in Order
        /\ answer.status # "PROCESSED" => OrderUpdated(wrk[w].order, answer).amount >= 0
    BY <1>1, <1>3, OrderUpdatedType
  <2>2. x \in WorkerState /\ WorkerReady(x)
    BY <1>1, <2>1 DEF WorkerState, WorkerReady, Informed
  <2>3. wrk' = [wrk EXCEPT ![w] = x]
    BY <1>2, <1>7
  <2>4. QED
    BY <1>4, <1>5, <2>2, <2>3, WorkerMoves
<1>8. QED
  BY <1>6, <1>7

LEMMA TypeReadBalance ==
  ASSUME TypeInv, NEW w \in Workers, ReadBalance(w)
  PROVE  TypeInv'
<1> DEFINE order == wrk[w].order
           balance == VisibleBalance(wrk[w].seen, order.user)
           x == [wrk[w] EXCEPT !.pc = "order", !.balance = BalanceRow(Applied(balance, order))]
<1>1. /\ wrk[w] \in WorkerState /\ order \in Order
      /\ wrk[w].number \in Numbers /\ orders[wrk[w].number] # None
      /\ wrk[w].pc = "credit"
  BY DEF TypeInv, TypeOK, WorkersReady, WorkerReady, ReadBalance
<1>2. UNCHANGED <<tables, verdicts, req, books, overtakes, crashes>>
  BY DEF ReadBalance
<1>3. verdicts' \in [Numbers -> Answer \cup {None}]
  BY <1>2 DEF TypeInv, TypeOK
<1>4. balance \in Balance
  BY <1>1, VisibleBalanceType DEF WorkerState, Order
<1>5. CASE CanApply(balance, order)
  <2>1. order.amount >= 0 /\ BalanceRow(Applied(balance, order)) \in Balance
    BY <1>1, <1>4, <1>5, AppliedType, BalanceRowType DEF CanApply
  <2>2. x \in WorkerState /\ WorkerReady(x)
    BY <1>1, <2>1 DEF WorkerState, WorkerReady
  <2>3. wrk' = [wrk EXCEPT ![w] = x]
    BY <1>5 DEF ReadBalance
  <2>4. QED
    BY <1>2, <1>3, <2>2, <2>3, WorkerMoves
<1>6. CASE ~CanApply(balance, order)
  <2>1. RolledBack(w, "fail")
    BY <1>6 DEF ReadBalance
  <2>2. QED
    BY <1>1, <1>2, <1>3, <2>1, TypeRolledBack
<1>7. QED
  BY <1>5, <1>6

\* A statement succeeded and the transaction goes on.
LEMMA TypeMoved ==
  ASSUME TypeInv, NEW w \in Workers, wrk[w].pc \in {"order", "balance"},
         NEW pc \in {"balance", "job"}, Moved(w, pc),
         UNCHANGED <<tables, verdicts, req, books, overtakes, crashes>>
  PROVE  TypeInv'
<1> DEFINE x == [wrk[w] EXCEPT !.pc = pc]
<1>1. wrk[w] \in WorkerState /\ WorkerReady(wrk[w])
  BY DEF TypeInv, TypeOK, WorkersReady
<1>2. x \in WorkerState /\ WorkerReady(x)
  BY <1>1 DEF WorkerState, WorkerReady
<1>3. wrk' = [wrk EXCEPT ![w] = x]
  BY DEF Moved
<1>4. verdicts' \in [Numbers -> Answer \cup {None}]
  BY DEF TypeInv, TypeOK
<1>5. QED
  BY <1>2, <1>3, <1>4, WorkerMoves

LEMMA TypeUpdateJob ==
  ASSUME TypeInv, NEW w \in Workers, UpdateJob(w)
  PROVE  TypeInv'
<1> DEFINE n == wrk[w].number
           o == OrderRow(wrk[w].order)
           b == wrk[w].balance
           u == o.user
           j == Handled(o.status)
<1>1. /\ wrk[w] \in WorkerState /\ n \in Numbers
      /\ wrk[w].order \in Order /\ wrk[w].order.amount >= 0
  BY DEF TypeInv, TypeOK, WorkersReady, WorkerReady, UpdateJob
<1>2. o \in Order /\ o.amount >= 0
  BY <1>1, OrderRowType
<1>3. o # None /\ o.amount \in Nat /\ u \in Users
  BY <1>2, NoneAssumption DEF Order
<1>4. j \in Job /\ j # None
  BY HandledType, NoneAssumption
<1>5. b # None => b \in Balance
  BY <1>1 DEF WorkerState
<1>6. IdleWorker \in WorkerState /\ IdleWorker.pc = "idle"
  BY HoldingType DEF IdleWorker
<1>7. /\ orders' = [orders EXCEPT ![n] = o]
      /\ jobs' = [jobs EXCEPT ![n] = j]
      /\ \/ /\ b # None
            /\ balances' = [balances EXCEPT ![u] = b]
            /\ books' = [books EXCEPT ![u].earned = @ + o.amount]
         \/ UNCHANGED <<balances, books>>
      /\ wrk' = [wrk EXCEPT ![w] = IdleWorker]
      /\ UNCHANGED <<verdicts, req, overtakes, crashes>>
  BY DEF UpdateJob
<1> HIDE DEF n, o, b, u, j
<1> USE DEF TypeInv
<1>8. books' \in [Users -> [earned : Nat, spent : Nat]]
  BY <1>3, <1>7 DEF TypeOK
<1>9. balances' \in [Users -> Balance]
  BY <1>3, <1>5, <1>7 DEF TypeOK
<1>10. TypeOK'
  BY <1>1, <1>2, <1>4, <1>6, <1>7, <1>8, <1>9 DEF TypeOK
<1>11. JobsHaveOrders'
  BY <1>1, <1>3, <1>7 DEF TypeOK, JobsHaveOrders
<1>12. RequestsReady'
  BY <1>7 DEF RequestsReady, RequestReady
<1>13. WorkersReady'
  BY <1>1, <1>3, <1>6, <1>7 DEF TypeOK, WorkersReady, WorkerReady
<1>14. QED
  BY <1>10, <1>11, <1>12, <1>13

LEMMA TypeFailJob ==
  ASSUME TypeInv, NEW w \in Workers, FailJob(w)
  PROVE  TypeInv'
<1> DEFINE n == wrk[w].number
<1>1. n \in Numbers /\ orders[n] # None
  BY DEF TypeInv, WorkersReady, WorkerReady, FailJob
<1>2. IdleWorker \in WorkerState /\ WorkerReady(IdleWorker)
  BY HoldingType DEF IdleWorker, WorkerReady
<1>3. FailedJob \in Job
  BY DEF FailedJob, Job, JobStatuses
<1>4. /\ jobs' = [jobs EXCEPT ![n] = FailedJob]
      /\ wrk' = [wrk EXCEPT ![w] = IdleWorker]
      /\ UNCHANGED <<orders, balances, verdicts, req, books, overtakes, crashes>>
  BY DEF FailJob
<1>5. QED
  BY <1>1, <1>2, <1>3, <1>4, JobMoves

LEMMA TypeFix ==
  ASSUME TypeInv, NEW S \in SUBSET Numbers, FixProcessingTimeout(S)
  PROVE  TypeInv'
<1> USE DEF TypeInv
<1>1. \A n \in S : jobs[n] \in Job /\ Requeued(jobs[n]) \in Job
  BY DEF TypeOK, FixProcessingTimeout, Requeued, Job
<1>2. jobs' \in [Numbers -> Job \cup {None}]
  BY <1>1 DEF TypeOK, FixProcessingTimeout
<1>3. overtakes' \in Nat
  <2> DEFINE held == {n \in S : Held(n)}
  <2>1. IsFiniteSet(held)
    BY ConstantsAssumption, FS_Subset
  <2>2. Cardinality(held) \in Nat
    BY <2>1, FS_CardinalityType
  <2>3. QED
    BY <2>2 DEF TypeOK, FixProcessingTimeout
<1>4. TypeOK'
  BY <1>2, <1>3 DEF TypeOK, FixProcessingTimeout
<1>5. JobsHaveOrders'
  BY DEF JobsHaveOrders, FixProcessingTimeout
<1>6. RequestsReady'
  BY DEF RequestsReady, RequestReady, FixProcessingTimeout
<1>7. WorkersReady'
  BY DEF WorkersReady, WorkerReady, FixProcessingTimeout
<1>8. QED
  BY <1>4, <1>5, <1>6, <1>7

LEMMA TypeCrash == ASSUME TypeInv, Crash PROVE TypeInv'
<1> USE DEF TypeInv
<1>1. IdleWorker \in WorkerState /\ WorkerReady(IdleWorker)'
  BY HoldingType DEF IdleWorker, WorkerReady
<1>2. \A r \in Requests :
        /\ Ended(req[r], None) \in RequestState
        /\ Ended(req[r], None).pc = "done"
  BY EndedType DEF TypeOK
<1>3. req' \in [Requests -> RequestState]
  BY <1>2 DEF TypeOK, Crash
<1>4. TypeOK'
  BY <1>1, <1>3 DEF TypeOK, Crash, tables
<1>5. JobsHaveOrders'
  BY DEF JobsHaveOrders, Crash, tables
<1>6. RequestsReady'
  <2>1. SUFFICES ASSUME NEW r \in Requests PROVE RequestReady(req[r])'
    BY DEF RequestsReady
  <2>2. CASE req[r].pc \in {"insert", "commit"}
    BY <1>2, <2>2 DEF Crash, RequestReady
  <2>3. CASE req[r].pc \notin {"insert", "commit"}
    BY <2>3 DEF Crash, RequestReady
  <2>4. QED
    BY <2>2, <2>3
<1>7. WorkersReady'
  BY <1>1 DEF WorkersReady, WorkerReady, Crash
<1>8. QED
  BY <1>4, <1>5, <1>6, <1>7

LEMMA TypeInit == Init => TypeInv
<1> SUFFICES ASSUME Init PROVE TypeInv
  OBVIOUS
<1>1. NewRequest \in RequestState /\ RequestReady(NewRequest)
  BY DEF RequestState, NewRequest, Snapshot, RequestReady
<1>2. IdleWorker \in WorkerState /\ IdleWorker.pc = "idle"
  BY HoldingType DEF IdleWorker
<1>3. NewBalance \in Balance
  BY DEF NewBalance, Balance
<1>4. TypeOK
  BY <1>1, <1>2, <1>3 DEF Init, TypeOK
<1>5. JobsHaveOrders /\ RequestsReady
  BY <1>1 DEF Init, JobsHaveOrders, RequestsReady
<1>6. WorkersReady
  BY <1>2 DEF Init, WorkersReady, WorkerReady
<1>7. QED
  BY <1>4, <1>5, <1>6 DEF TypeInv

LEMMA TypeStep == TypeInv /\ [Next]_vars => TypeInv'
<1> SUFFICES ASSUME TypeInv, [Next]_vars PROVE TypeInv'
  OBVIOUS
<1>1. ASSUME NEW r \in Requests, NEW u \in Users, NEW n \in Numbers, PostOrder(r, u, n)
      PROVE  TypeInv'
  BY <1>1, TypePostOrder
<1>2. ASSUME NEW r \in Requests, NEW u \in Users, NEW n \in Numbers, NEW sum \in Sums,
             PostWithdraw(r, u, n, sum)
      PROVE  TypeInv'
  BY <1>2, TypePostWithdraw
<1>3. ASSUME NEW r \in Requests, RequestStep(r) \/ AbortRequest(r) PROVE TypeInv'
  BY <1>3, TypeInsertOrder, TypeEnqueueJob, TypeSaveBalance, TypeAbortRequest DEF RequestStep
<1>4. ASSUME NEW w \in Workers, NEW n \in Numbers, FetchJob(w, n) PROVE TypeInv'
  BY <1>4, TypeFetchJob
<1>5. ASSUME NEW w \in Workers, WorkerStep(w) PROVE TypeInv'
  <2>1. CASE UpdateOrder(w)
    <3>1. /\ wrk[w].pc = "order"
          /\ Moved(w, "balance") \/ Moved(w, "job")
          /\ UNCHANGED <<tables, verdicts, req, books, overtakes, crashes>>
      BY <2>1 DEF UpdateOrder
    <3>2. QED
      BY <3>1, TypeMoved
  <2>2. CASE UpdateBalance(w)
    BY <2>2, TypeMoved DEF UpdateBalance
  <2>3. QED
    BY <1>5, <2>1, <2>2, TypeReadOrder, TypeReadBalance, TypeUpdateJob, TypeFailJob
       DEF WorkerStep
<1>6. ASSUME NEW w \in Workers, AskAccrual(w) PROVE TypeInv'
  BY <1>6, TypeAskAccrual
<1>7. ASSUME NEW w \in Workers, TooManyRequests(w) \/ AbortHandle(w) PROVE TypeInv'
  <2>1. /\ wrk[w].pc # "idle"
        /\ RolledBack(w, "read") \/ RolledBack(w, "fail")
        /\ UNCHANGED <<tables, verdicts, req, books, overtakes, crashes>>
    BY <1>7 DEF TooManyRequests, AbortHandle
  <2>2. verdicts' \in [Numbers -> Answer \cup {None}]
    BY <2>1 DEF TypeInv, TypeOK
  <2>3. QED
    BY <2>1, <2>2, TypeRolledBack
<1>8. ASSUME NEW S \in SUBSET Numbers, FixProcessingTimeout(S) PROVE TypeInv'
  BY <1>8, TypeFix
<1>9. ASSUME NoData \/ UNCHANGED vars PROVE TypeInv'
  BY <1>9 DEF NoData, vars, TypeInv, TypeOK, JobsHaveOrders, RequestsReady, RequestReady,
              WorkersReady, WorkerReady
<1>10. QED
  BY <1>1, <1>2, <1>3, <1>4, <1>5, <1>6, <1>7, <1>8, <1>9, TypeCrash DEF Next

\* In every reachable state rows and handlers hold values of their types, and
\* no balance is negative: what the updates of UpdateAccrual and Withdraw write
\* was checked by Balance.Update, whatever happened to the row since.
THEOREM TypeCorrect == Spec => []TypeOK
<1>1. TypeInv => TypeOK
  BY DEF TypeInv
<1>2. QED
  BY <1>1, TypeInit, TypeStep, PTL DEF Spec
-----------------------------------------------------------------------------
(* Which actions write what: a row or a handler that a step changes was    *)
(* changed by one of these.                                                *)

RequestAction(r) ==
    \/ \E u \in Users, n \in Numbers : PostOrder(r, u, n)
    \/ \E u \in Users, n \in Numbers, sum \in Sums : PostWithdraw(r, u, n, sum)
    \/ RequestStep(r)
    \/ AbortRequest(r)

WorkerAction(w) ==
    \/ \E n \in Numbers : FetchJob(w, n)
    \/ WorkerStep(w)
    \/ AskAccrual(w)
    \/ TooManyRequests(w)
    \/ AbortHandle(w)

FixAction == \E S \in SUBSET Numbers : FixProcessingTimeout(S)

LEMMA StepCases ==
  ASSUME [Next]_vars
  PROVE  \/ \E r \in Requests : RequestAction(r)
         \/ \E w \in Workers : WorkerAction(w)
         \/ FixAction
         \/ Crash
         \/ UNCHANGED vars
  BY DEF Next, RequestAction, WorkerAction, FixAction, NoData

LEMMA RequestActionFrame ==
  ASSUME TypeInv, NEW p \in Requests, RequestAction(p)
  PROVE  /\ \A r \in Requests : r # p => req'[r] = req[r]
         /\ UNCHANGED <<wrk, verdicts, overtakes, crashes>>
         /\ EnqueueJob(p) \/ SaveBalance(p) \/ UNCHANGED <<orders, balances, jobs, books>>
  BY DEF TypeInv, TypeOK, RequestAction, RequestStep, PostOrder, PostWithdraw, InsertOrder,
         EnqueueJob, SaveBalance, Answered, AbortRequest, tables

LEMMA WorkerActionFrame ==
  ASSUME TypeInv, NEW v \in Workers, WorkerAction(v)
  PROVE  /\ \A w \in Workers : w # v => wrk'[w] = wrk[w]
         /\ UNCHANGED <<req, overtakes, crashes>>
         /\ UpdateJob(v) \/ UNCHANGED <<orders, balances, books>>
         /\ \/ \E n \in Numbers : FetchJob(v, n)
            \/ UpdateJob(v)
            \/ FailJob(v)
            \/ UNCHANGED jobs
  BY DEF TypeInv, TypeOK, WorkerAction, WorkerStep, FetchJob, ReadOrder, AskAccrual,
         TooManyRequests, ReadBalance, UpdateOrder, UpdateBalance, UpdateJob, AbortHandle,
         FailJob, Moved, RolledBack, tables

LEMMA RequestFrame ==
  ASSUME TypeInv, [Next]_vars, NEW r \in Requests
  PROVE  req'[r] = req[r] \/ RequestAction(r) \/ Crash
<1>1. ASSUME FixAction \/ UNCHANGED vars PROVE req'[r] = req[r]
  BY <1>1 DEF FixAction, FixProcessingTimeout, vars
<1>2. QED
  BY <1>1, StepCases, RequestActionFrame, WorkerActionFrame

LEMMA WorkerFrame ==
  ASSUME TypeInv, [Next]_vars, NEW w \in Workers
  PROVE  wrk'[w] = wrk[w] \/ WorkerAction(w) \/ Crash
<1>1. ASSUME FixAction \/ UNCHANGED vars PROVE wrk'[w] = wrk[w]
  BY <1>1 DEF FixAction, FixProcessingTimeout, vars
<1>2. QED
  BY <1>1, StepCases, RequestActionFrame, WorkerActionFrame

LEMMA OrderFrame ==
  ASSUME TypeInv, [Next]_vars, NEW n \in Numbers
  PROVE  \/ orders'[n] = orders[n]
         \/ \E r \in Requests : (EnqueueJob(r) \/ SaveBalance(r)) /\ req[r].number = n
         \/ \E w \in Workers : UpdateJob(w) /\ wrk[w].number = n
<1>1. ASSUME FixAction \/ Crash \/ UNCHANGED vars PROVE orders'[n] = orders[n]
  BY <1>1 DEF FixAction, FixProcessingTimeout, Crash, vars, tables
<1>2. ASSUME NEW r \in Requests, EnqueueJob(r) \/ SaveBalance(r), req[r].number # n
      PROVE  orders'[n] = orders[n]
  BY <1>2 DEF EnqueueJob, SaveBalance, TypeInv, TypeOK
<1>3. ASSUME NEW w \in Workers, UpdateJob(w), wrk[w].number # n
      PROVE  orders'[n] = orders[n]
  BY <1>3 DEF UpdateJob, TypeInv, TypeOK
<1>4. QED
  BY <1>1, <1>2, <1>3, StepCases, RequestActionFrame, WorkerActionFrame

LEMMA JobFrame ==
  ASSUME TypeInv, [Next]_vars, NEW n \in Numbers
  PROVE  \/ jobs'[n] = jobs[n]
         \/ \E r \in Requests : EnqueueJob(r) /\ req[r].number = n
         \/ \E w \in Workers :
              FetchJob(w, n) \/ ((UpdateJob(w) \/ FailJob(w)) /\ wrk[w].number = n)
         \/ \E S \in SUBSET Numbers : n \in S /\ FixProcessingTimeout(S)
<1>1. ASSUME Crash \/ UNCHANGED vars PROVE jobs'[n] = jobs[n]
  BY <1>1 DEF Crash, vars, tables
<1>2. ASSUME NEW S \in SUBSET Numbers, FixProcessingTimeout(S), n \notin S
      PROVE  jobs'[n] = jobs[n]
  BY <1>2 DEF FixProcessingTimeout
<1>3. ASSUME NEW r \in Requests, EnqueueJob(r) \/ SaveBalance(r)
      PROVE  jobs'[n] = jobs[n] \/ (EnqueueJob(r) /\ req[r].number = n)
  BY <1>3 DEF EnqueueJob, SaveBalance, TypeInv, TypeOK
<1>4. ASSUME NEW w \in Workers, UpdateJob(w) \/ FailJob(w), wrk[w].number # n
      PROVE  jobs'[n] = jobs[n]
  BY <1>4 DEF UpdateJob, FailJob, TypeInv, TypeOK
<1>5. ASSUME NEW w \in Workers, NEW m \in Numbers, FetchJob(w, m), m # n
      PROVE  jobs'[n] = jobs[n]
  BY <1>5 DEF FetchJob, TypeInv, TypeOK
<1>6. QED
  BY <1>1, <1>2, <1>3, <1>4, <1>5, StepCases, RequestActionFrame, WorkerActionFrame DEF FixAction
-----------------------------------------------------------------------------
(* Kinds.  A worker only ever holds an income order: the unique key of a   *)
(* number is held by the request that has inserted it, so that no          *)
(* withdrawal is committed over the order of a job.                        *)

KeysHeld ==
    \A r \in Requests : req[r].pc = "commit" =>
        /\ orders[req[r].number] = None
        /\ \A q \in Requests : q # r /\ req[q].pc = "commit" => req[q].number # req[r].number

RequestKinds ==
    \A r \in Requests : req[r].pc \in {"insert", "commit"} =>
        req[r].order.type = IF req[r].kind = "upload" THEN "INCOME" ELSE "OUTCOME"

IncomeJobs == \A n \in Numbers : jobs[n] # None => orders[n].type = "INCOME"

IncomeHeld ==
    \A w \in Workers :
        /\ wrk[w].pc # "idle" => orders[wrk[w].number].type = "INCOME"
        /\ wrk[w].order # None => wrk[w].order.type = "INCOME"

KindInv == TypeInv /\ KeysHeld /\ RequestKinds /\ IncomeJobs /\ IncomeHeld

LEMMA KindInit == Init => KindInv
  BY TypeInit DEF Init, KindInv, KeysHeld, RequestKinds, IncomeJobs, IncomeHeld, NewRequest,
                  IdleWorker, Holding

\* A request whose key is inserted inserted it now or was there before.
LEMMA CommitFrame ==
  ASSUME TypeInv, [Next]_vars, NEW r \in Requests, req'[r].pc = "commit"
  PROVE  \/ req'[r] = req[r]
         \/ InsertOrder(r) /\ ~Conflict(req[r].number) /\ req'[r] = [req[r] EXCEPT !.pc = "commit"]
<1>1. ASSUME NEW u \in Users, NEW n \in Numbers, PostOrder(r, u, n) PROVE FALSE
  BY <1>1 DEF PostOrder, TypeInv, TypeOK, NewRequest, Ended
<1>2. ASSUME NEW u \in Users, NEW n \in Numbers, NEW sum \in Sums, PostWithdraw(r, u, n, sum)
      PROVE  FALSE
  BY <1>2 DEF PostWithdraw, TypeInv, TypeOK, NewRequest, Ended
<1>3. ASSUME NEW code, req'[r] = Ended(req[r], code) PROVE FALSE
  BY <1>3 DEF Ended, TypeInv, TypeOK, RequestState
<1>4. CASE InsertOrder(r)
  BY <1>3, <1>4 DEF InsertOrder, Answered, TypeInv, TypeOK
<1>5. CASE EnqueueJob(r) \/ SaveBalance(r) \/ AbortRequest(r)
  BY <1>3, <1>5 DEF EnqueueJob, SaveBalance, AbortRequest, Answered, TypeInv, TypeOK
<1>6. CASE Crash
  BY <1>3, <1>6 DEF Crash
<1>7. QED
  BY <1>1, <1>2, <1>4, <1>5, <1>6, RequestFrame DEF RequestAction, RequestStep

LEMMA KeysHeldStep ==
  ASSUME KindInv, [Next]_vars
  PROVE  KeysHeld'
<1> SUFFICES ASSUME NEW r \in Requests, req'[r].pc = "commit"
             PROVE  /\ orders'[req'[r].number] = None
                    /\ \A q \in Requests : q # r /\ req'[q].pc = "commit" =>
                            req'[q].number # req'[r].number
  BY DEF KeysHeld
<1> DEFINE n == req[r].number
<1> USE DEF KindInv
<1>1. /\ req'[r].number = n
      /\ req[r].pc \in {"insert", "commit"}
      /\ n \in Numbers
      /\ orders[n] = None
  <2>1. CASE req'[r] = req[r]
    BY <2>1 DEF KeysHeld, TypeInv, RequestsReady, RequestReady
  <2>2. CASE InsertOrder(r) /\ ~Conflict(n) /\ req'[r] = [req[r] EXCEPT !.pc = "commit"]
    BY <2>2 DEF InsertOrder, Conflict, TypeInv, TypeOK, RequestState, RequestsReady, RequestReady
  <2>3. QED
    BY <2>1, <2>2, CommitFrame
<1>2. ASSUME NEW q \in Requests, q # r, req[q].pc = "commit" PROVE req[q].number # n
  <2>1. CASE req[r].pc = "commit"
    BY <1>2, <2>1 DEF KeysHeld
  <2>2. CASE req[r].pc = "insert"
    BY <1>2, <2>2, CommitFrame DEF InsertOrder, KeyLocked
  <2>3. QED
    BY <1>1, <2>1, <2>2
<1>3. orders'[n] = None
  <2>1. ASSUME NEW q \in Requests, EnqueueJob(q) \/ SaveBalance(q), req[q].number = n PROVE FALSE
    <3>1. req[q].pc = "commit" /\ \E code \in Codes : req'[q] = Ended(req[q], code)
      BY <2>1 DEF EnqueueJob, SaveBalance, Answered, Codes, TypeInv, TypeOK
    <3>2. req'[q].pc = "done"
      BY <3>1, EndedType DEF TypeInv, TypeOK
    <3>3. QED
      BY <1>2, <2>1, <3>1, <3>2
  <2>2. ASSUME NEW w \in Workers, UpdateJob(w), wrk[w].number = n PROVE FALSE
    BY <1>1, <2>2 DEF UpdateJob, TypeInv, WorkersReady, WorkerReady
  <2>3. QED
    BY <1>1, <2>1, <2>2, OrderFrame
<1>4. ASSUME NEW q \in Requests, q # r, req'[q].pc = "commit" PROVE req'[q].number # n
  <2>1. CASE req'[q] = req[q]
    BY <1>2, <1>4, <2>1
  <2>2. CASE InsertOrder(q) /\ req'[q] = [req[q] EXCEPT !.pc = "commit"]
    <3>1. req'[r] = req[r]
      BY <1>4, <2>2, RequestActionFrame DEF RequestAction, RequestStep
    <3>2. req'[q].number = req[q].number /\ ~KeyLocked(req[q].number)
      BY <2>2 DEF InsertOrder, TypeInv, TypeOK, RequestState
    <3>3. QED
      BY <1>4, <3>1, <3>2 DEF KeyLocked
  <2>3. QED
    BY <1>4, <2>1, <2>2, CommitFrame
<1>5. QED
  BY <1>1, <1>3, <1>4

LEMMA RequestKindsStep ==
  ASSUME KindInv, [Next]_vars
  PROVE  RequestKinds'
<1> SUFFICES ASSUME NEW r \in Requests, req'[r].pc \in {"insert", "commit"}
             PROVE  req'[r].order.type = IF req'[r].kind = "upload" THEN "INCOME" ELSE "OUTCOME"
  BY DEF RequestKinds
<1> USE DEF KindInv
<1>1. ASSUME NEW u \in Users, NEW n \in Numbers, PostOrder(r, u, n)
      PROVE  req'[r].order = OrderRow(NewIncomeOrder(u)) /\ req'[r].kind = "upload"
  BY <1>1 DEF PostOrder, TypeInv, TypeOK, NewRequest, Ended
<1>2. ASSUME NEW u \in Users, NEW n \in Numbers, NEW sum \in Sums, PostWithdraw(r, u, n, sum)
      PROVE  req'[r].order = OrderRow(NewOutcomeOrder(u, sum)) /\ req'[r].kind = "withdraw"
  BY <1>2 DEF PostWithdraw, TypeInv, TypeOK, NewRequest, Ended
<1>3. ASSUME NEW code, req'[r] = Ended(req[r], code) PROVE FALSE
  BY <1>3 DEF Ended, TypeInv, TypeOK, RequestState
<1>4. CASE InsertOrder(r)
  <2>1. req'[r] = [req[r] EXCEPT !.pc = "commit"]
    BY <1>3, <1>4 DEF InsertOrder, Answered, TypeInv, TypeOK
  <2>2. req'[r].order = req[r].order /\ req'[r].kind = req[r].kind
    BY <2>1 DEF TypeInv, TypeOK, RequestState
  <2>3. QED
    BY <1>4, <2>2 DEF InsertOrder, RequestKinds
<1>5. CASE EnqueueJob(r) \/ SaveBalance(r) \/ AbortRequest(r)
  BY <1>3, <1>5 DEF EnqueueJob, SaveBalance, AbortRequest, Answered, TypeInv, TypeOK
<1>6. CASE Crash
  BY <1>3, <1>6 DEF Crash, RequestKinds
<1>8. ASSUME NEW u \in Users
      PROVE  OrderRow(NewIncomeOrder(u)).type = "INCOME"
  BY <1>8 DEF OrderRow, NewIncomeOrder
<1>9. ASSUME NEW u \in Users, NEW sum \in Sums
      PROVE  OrderRow(NewOutcomeOrder(u, sum)).type = "OUTCOME"
  BY <1>9 DEF OrderRow, NewOutcomeOrder
<1>10. CASE req'[r] = req[r]
  BY <1>10 DEF RequestKinds
<1>11. QED
  BY <1>1, <1>2, <1>4, <1>5, <1>6, <1>8, <1>9, <1>10, RequestFrame DEF RequestAction, RequestStep

\* The type of an order that is there never changes.
LEMMA TypeStays ==
  ASSUME KindInv, [Next]_vars, NEW n \in Numbers, orders[n] # None, orders[n].type = "INCOME"
  PROVE  orders'[n].type = "INCOME"
<1> USE DEF KindInv
<1>1. ASSUME NEW q \in Requests, EnqueueJob(q) \/ SaveBalance(q), req[q].number = n PROVE FALSE
  BY <1>1 DEF EnqueueJob, SaveBalance, KeysHeld
<1>2. ASSUME NEW w \in Workers, UpdateJob(w), wrk[w].number = n
      PROVE  orders'[n].type = "INCOME"
  <2>1. wrk[w].order \in Order /\ wrk[w].order.type = "INCOME"
    BY <1>2, NoneAssumption DEF UpdateJob, IncomeHeld, TypeInv, WorkersReady, WorkerReady
  <2>2. orders'[n] = OrderRow(wrk[w].order)
    BY <1>2 DEF UpdateJob, TypeInv, TypeOK
  <2>3. QED
    BY <2>1, <2>2 DEF OrderRow, Order
<1>3. QED
  BY <1>1, <1>2, OrderFrame DEF TypeInv

LEMMA IncomeJobsStep ==
  ASSUME KindInv, [Next]_vars
  PROVE  IncomeJobs'
<1> SUFFICES ASSUME NEW n \in Numbers, jobs'[n] # None PROVE orders'[n].type = "INCOME"
  BY DEF IncomeJobs
<1> USE DEF KindInv
<1>1. CASE jobs[n] # None
  BY <1>1, TypeStays DEF IncomeJobs, TypeInv, JobsHaveOrders
<1>2. CASE jobs[n] = None
  <2>1. ASSUME NEW r \in Requests, EnqueueJob(r), req[r].number = n
        PROVE  orders'[n].type = "INCOME"
    <3>1. orders'[n] = req[r].order
      BY <2>1 DEF EnqueueJob, TypeInv, TypeOK
    <3>2. QED
      BY <2>1, <3>1 DEF EnqueueJob, RequestKinds
  <2>2. ASSUME NEW w \in Workers, UpdateJob(w) \/ FailJob(w), wrk[w].number = n
        PROVE  orders'[n].type = "INCOME"
    BY <2>2, TypeStays DEF UpdateJob, FailJob, TypeInv, WorkersReady, WorkerReady, IncomeHeld
  <2>3. ASSUME NEW w \in Workers, FetchJob(w, n) PROVE FALSE
    BY <1>2, <2>3 DEF FetchJob
  <2>4. ASSUME NEW S \in SUBSET Numbers, n \in S, FixProcessingTimeout(S) PROVE FALSE
    BY <1>2, <2>4 DEF FixProcessingTimeout
  <2>5. QED
    BY <1>2, <2>1, <2>2, <2>3, <2>4, JobFrame
<1>3. QED
  BY <1>1, <1>2

\* Where the state of a worker comes from.
LEMMA WorkerCases ==
  ASSUME TypeInv, [Next]_vars, NEW w \in Workers
  PROVE  \/ wrk'[w] = wrk[w]
         \/ wrk'[w] = IdleWorker
         \/ \E n \in Numbers : jobs[n] # None /\ wrk'[w] = Holding("read", n)
         \/ wrk[w].pc # "idle" /\ wrk'[w] \in {Holding("read", wrk[w].number),
                                              Holding("fail", wrk[w].number)}
         \/ ReadOrder(w)
         \/ /\ wrk[w].pc = "ask" /\ UNCHANGED books /\ ~Final(wrk[w].order.status)
            /\ \E answer \in Answers(wrk[w].number) : wrk'[w] = Informed(wrk[w], answer)
         \/ /\ ReadBalance(w)
            /\ CanApply(VisibleBalance(wrk[w].seen, wrk[w].order.user), wrk[w].order)
         \/ /\ wrk[w].pc \in {"order", "balance"} /\ UNCHANGED books
            /\ \E pc \in {"balance", "job"} : wrk'[w] = [wrk[w] EXCEPT !.pc = pc]
<1>1. wrk \in [Workers -> WorkerState]
  BY DEF TypeInv, TypeOK
<1>2. ASSUME NEW n \in Numbers, FetchJob(w, n)
      PROVE  jobs[n] # None /\ wrk'[w] = Holding("read", n)
  BY <1>1, <1>2 DEF FetchJob
<1>3. CASE AskAccrual(w)
  BY <1>1, <1>3 DEF AskAccrual, RolledBack
<1>4. CASE TooManyRequests(w) \/ AbortHandle(w)
  BY <1>1, <1>4 DEF TooManyRequests, AbortHandle, RolledBack
<1>5. CASE ReadBalance(w)
  BY <1>1, <1>5 DEF ReadBalance, RolledBack
<1>6. CASE UpdateOrder(w) \/ UpdateBalance(w)
  BY <1>1, <1>6 DEF UpdateOrder, UpdateBalance, Moved
<1>7. CASE UpdateJob(w) \/ FailJob(w)
  BY <1>1, <1>7 DEF UpdateJob, FailJob
<1>8. CASE Crash
  BY <1>8 DEF Crash
<1>9. QED
  BY <1>2, <1>3, <1>4, <1>5, <1>6, <1>7, <1>8, WorkerFrame DEF WorkerAction, WorkerStep

LEMMA IncomeHeldStep ==
  ASSUME KindInv, [Next]_vars
  PROVE  IncomeHeld'
<1> SUFFICES ASSUME NEW w \in Workers
             PROVE  /\ wrk'[w].pc # "idle" => orders'[wrk'[w].number].type = "INCOME"
                    /\ wrk'[w].order # None => wrk'[w].order.type = "INCOME"
  BY DEF IncomeHeld
<1> USE DEF KindInv
<1>1. wrk[w] \in WorkerState
  BY DEF TypeInv, TypeOK
<1>2. wrk[w].pc # "idle" =>
        /\ wrk[w].number \in Numbers
        /\ orders[wrk[w].number] # None
        /\ orders[wrk[w].number].type = "INCOME"
        /\ orders'[wrk[w].number].type = "INCOME"
  BY TypeStays DEF TypeInv, WorkersReady, WorkerReady, IncomeHeld
<1>3. wrk[w].pc \in {"ask", "credit", "order", "balance", "job"} =>
        wrk[w].order \in Order /\ wrk[w].order.type = "INCOME"
  BY NoneAssumption DEF TypeInv, WorkersReady, WorkerReady, IncomeHeld
<1>4. CASE wrk'[w] = wrk[w]
  BY <1>2, <1>4 DEF IncomeHeld
<1>5. ASSUME NEW pc \in {"idle", "read", "fail"}, NEW n \in Numbers \cup {None},
             wrk'[w] = Holding(pc, n)
      PROVE  wrk'[w].pc = pc /\ wrk'[w].number = n /\ wrk'[w].order = None
  BY <1>5, HoldingType
<1>6. CASE wrk'[w] = IdleWorker
  BY <1>5, <1>6 DEF IdleWorker
<1>7. ASSUME NEW n \in Numbers, jobs[n] # None, wrk'[w] = Holding("read", n)
      PROVE  orders'[wrk'[w].number].type = "INCOME" /\ wrk'[w].order = None
  BY <1>5, <1>7, TypeStays DEF IncomeJobs, TypeInv, JobsHaveOrders
<1>8. CASE wrk[w].pc # "idle" /\ wrk'[w] \in {Holding("read", wrk[w].number),
                                             Holding("fail", wrk[w].number)}
  BY <1>2, <1>5, <1>8
<1>9. CASE ReadOrder(w)
  <2>1. wrk[w].pc # "idle" /\ wrk'[w].number = wrk[w].number /\ wrk'[w].order = orders[wrk[w].number]
    BY <1>1, <1>9 DEF ReadOrder, WorkerState, TypeInv, TypeOK
  <2>2. QED
    BY <1>2, <2>1
<1>10. ASSUME wrk[w].pc = "ask", NEW answer, wrk'[w] = Informed(wrk[w], answer)
       PROVE  wrk'[w].number = wrk[w].number /\ wrk'[w].order.type = "INCOME"
  <2>1. wrk[w].order \in Order /\ wrk[w].order.type = "INCOME"
    BY <1>3, <1>10
  <2>2. wrk'[w].number = wrk[w].number /\ wrk'[w].order = OrderUpdated(wrk[w].order, answer)
    BY <1>1, <1>10 DEF Informed, WorkerState
  <2>3. OrderUpdated(wrk[w].order, answer).type = wrk[w].order.type
    BY <2>1 DEF OrderUpdated, Order
  <2>4. QED
    BY <2>1, <2>2, <2>3
<1>11. CASE ReadBalance(w) /\ CanApply(VisibleBalance(wrk[w].seen, wrk[w].order.user),
                                       wrk[w].order)
  <2> DEFINE b == BalanceRow(Applied(VisibleBalance(wrk[w].seen, wrk[w].order.user),
                                     wrk[w].order))
  <2>1. wrk[w].pc = "credit" /\ wrk'[w] = [wrk[w] EXCEPT !.pc = "order", !.balance = b]
    BY <1>11 DEF ReadBalance, TypeInv, TypeOK
  <2> HIDE DEF b
  <2>2. wrk'[w].number = wrk[w].number /\ wrk'[w].order = wrk[w].order
    BY <1>1, <2>1 DEF WorkerState
  <2>3. QED
    BY <1>2, <1>3, <2>1, <2>2
<1>12. ASSUME wrk[w].pc \in {"order", "balance"}, NEW pc, wrk'[w] = [wrk[w] EXCEPT !.pc = pc]
       PROVE  wrk'[w].number = wrk[w].number /\ wrk'[w].order = wrk[w].order
  BY <1>1, <1>12 DEF WorkerState
<1>13. QED
  BY <1>2, <1>3, <1>4, <1>6, <1>7, <1>8, <1>9, <1>10, <1>11, <1>12, WorkerCases DEF KindInv

LEMMA KindStep == KindInv /\ [Next]_vars => KindInv'
  BY TypeStep, KeysHeldStep, RequestKindsStep, IncomeJobsStep, IncomeHeldStep DEF KindInv
-----------------------------------------------------------------------------
(* The life of a job.                                                      *)

\* Requests insert new orders: with their user, and an upload as NEW.
UploadsNew ==
    \A r \in Requests : req[r].pc \in {"insert", "commit"} =>
        /\ req[r].order.user = req[r].user
        /\ req[r].kind = "upload" => req[r].order.status = "NEW"

LifeInv == KindInv /\ UploadsNew /\ JobTellsOrder /\ JobsRecoverable

LEMMA UploadsNewStep ==
  ASSUME KindInv, UploadsNew, [Next]_vars
  PROVE  UploadsNew'
<1> SUFFICES ASSUME NEW r \in Requests, req'[r].pc \in {"insert", "commit"}
             PROVE  /\ req'[r].order.user = req'[r].user
                    /\ req'[r].kind = "upload" => req'[r].order.status = "NEW"
  BY DEF UploadsNew
<1> USE DEF KindInv
<1>1. ASSUME NEW u \in Users, NEW n \in Numbers, PostOrder(r, u, n)
      PROVE  req'[r].order = OrderRow(NewIncomeOrder(u)) /\ req'[r].user = u
  BY <1>1 DEF PostOrder, TypeInv, TypeOK, NewRequest, Ended
<1>2. ASSUME NEW u \in Users, NEW n \in Numbers, NEW sum \in Sums, PostWithdraw(r, u, n, sum)
      PROVE  /\ req'[r].order = OrderRow(NewOutcomeOrder(u, sum))
             /\ req'[r].user = u /\ req'[r].kind = "withdraw"
  BY <1>2 DEF PostWithdraw, TypeInv, TypeOK, NewRequest, Ended
<1>3. ASSUME NEW code, req'[r] = Ended(req[r], code) PROVE FALSE
  BY <1>3 DEF Ended, TypeInv, TypeOK, RequestState
<1>4. CASE InsertOrder(r)
  <2>1. req'[r] = [req[r] EXCEPT !.pc = "commit"]
    BY <1>3, <1>4 DEF InsertOrder, Answered, TypeInv, TypeOK
  <2>2. /\ req'[r].order = req[r].order /\ req'[r].kind = req[r].kind
        /\ req'[r].user = req[r].user
    BY <2>1 DEF TypeInv, TypeOK, RequestState
  <2>3. QED
    BY <1>4, <2>2 DEF InsertOrder, UploadsNew
<1>5. CASE EnqueueJob(r) \/ SaveBalance(r) \/ AbortRequest(r)
  BY <1>3, <1>5 DEF EnqueueJob, SaveBalance, AbortRequest, Answered, TypeInv, TypeOK
<1>6. CASE Crash
  BY <1>3, <1>6 DEF Crash, UploadsNew
<1>7. ASSUME NEW u \in Users
      PROVE  /\ OrderRow(NewIncomeOrder(u)).user = u
             /\ OrderRow(NewIncomeOrder(u)).status = "NEW"
  BY <1>7 DEF OrderRow, NewIncomeOrder
<1>8. ASSUME NEW u \in Users, NEW sum \in Sums
      PROVE  OrderRow(NewOutcomeOrder(u, sum)).user = u
  BY <1>8 DEF OrderRow, NewOutcomeOrder
<1>9. CASE req'[r] = req[r]
  BY <1>9 DEF UploadsNew
<1>10. QED
  BY <1>1, <1>2, <1>4, <1>5, <1>6, <1>7, <1>8, <1>9, RequestFrame DEF RequestAction, RequestStep

\* The rows that a step saves are rows.
LEMMA JobRowsThere ==
  NewJob # None /\ FailedJob # None /\ \A job : Fetched(job) # None
<1>1. NewJob \in Job /\ FailedJob \in Job /\ \A job : Fetched(job) \in Job
  BY DEF NewJob, FailedJob, Fetched, Job, JobStatuses
<1>2. QED
  BY <1>1, NoneAssumption

\* What both properties say of one number.
NumberLives(n) ==
    /\ jobs[n] # None =>
        /\ orders[n] # None /\ orders[n].type = "INCOME"
        /\ jobs[n].status = "PROCESSED" => Final(orders[n].status)
        /\ Final(orders[n].status) => jobs[n].status \in {"PROCESSED", "FAILED"}
    /\ orders[n] # None /\ orders[n].type = "INCOME" =>
        /\ jobs[n] # None
        /\ jobs[n].status = "NEW" => jobs[n].scheduled
        /\ jobs[n].status \in {"PROCESSED", "FAILED"} => ~jobs[n].scheduled

LEMMA LivesSame == JobTellsOrder /\ JobsRecoverable <=> \A n \in Numbers : NumberLives(n)
  BY DEF JobTellsOrder, JobsRecoverable, NumberLives

\* What a transaction or a fetch leaves of one number.
LEMMA LivesStep ==
  ASSUME LifeInv, [Next]_vars, NEW n \in Numbers
  PROVE  NumberLives(n)'
<1> USE DEF LifeInv, KindInv
<1>1. NumberLives(n)
  BY LivesSame
<1>2. orders \in [Numbers -> Order \cup {None}] /\ jobs \in [Numbers -> Job \cup {None}]
  BY DEF TypeInv, TypeOK
<1>3. ASSUME NEW r \in Requests, EnqueueJob(r), req[r].number = n PROVE NumberLives(n)'
  <2>1. orders'[n] = req[r].order /\ jobs'[n] = NewJob
    BY <1>2, <1>3 DEF EnqueueJob
  <2>2. /\ req[r].order \in Order /\ req[r].order.type = "INCOME"
        /\ req[r].order.status = "NEW"
    BY <1>3 DEF EnqueueJob, TypeInv, RequestsReady, RequestReady, RequestKinds, UploadsNew
  <2>3. orders'[n] # None /\ jobs'[n] # None
    BY <2>1, <2>2, JobRowsThere, NoneAssumption
  <2>4. QED
    BY <2>1, <2>2, <2>3 DEF NumberLives, NewJob, Final
<1>4. ASSUME NEW r \in Requests, SaveBalance(r), req[r].number = n PROVE NumberLives(n)'
  <2>1. orders'[n] = req[r].order /\ jobs'[n] = jobs[n]
    BY <1>2, <1>4 DEF SaveBalance
  <2>2. req[r].order.type = "OUTCOME" /\ orders[n] = None
    BY <1>4 DEF SaveBalance, RequestKinds, KeysHeld
  <2>3. jobs[n] = None
    BY <1>1, <2>2 DEF NumberLives
  <2>4. QED
    BY <2>1, <2>2, <2>3 DEF NumberLives
<1>5. ASSUME NEW w \in Workers, UpdateJob(w), wrk[w].number = n PROVE NumberLives(n)'
  <2> DEFINE o == OrderRow(wrk[w].order)
  <2>1. orders'[n] = o /\ jobs'[n] = Handled(o.status)
    BY <1>2, <1>5 DEF UpdateJob
  <2>2. wrk[w].order \in Order /\ wrk[w].order.amount >= 0 /\ wrk[w].order.type = "INCOME"
    BY <1>5, NoneAssumption
       DEF UpdateJob, TypeInv, WorkersReady, WorkerReady, IncomeHeld
  <2>3. o \in Order /\ o.type = "INCOME"
    BY <2>2, OrderRowType
  <2> HIDE DEF o
  <2>4. /\ Handled(o.status) # None
        /\ Handled(o.status).status = "PROCESSED" <=> Final(o.status)
        /\ Handled(o.status).scheduled <=> ~Final(o.status)
        /\ Handled(o.status).status \in {"PROCESSED", "PROCESSING"}
    BY HandledType, NoneAssumption DEF Handled
  <2>5. o # None
    BY <2>3, NoneAssumption
  <2>6. QED
    BY <2>1, <2>3, <2>4, <2>5 DEF NumberLives
<1>6. ASSUME NEW w \in Workers, FailJob(w), wrk[w].number = n PROVE NumberLives(n)'
  <2>1. orders'[n] = orders[n] /\ jobs'[n] = FailedJob
    BY <1>2, <1>6 DEF FailJob
  <2>2. orders[n] # None /\ orders[n].type = "INCOME"
    BY <1>6 DEF FailJob, TypeInv, WorkersReady, WorkerReady, IncomeHeld
  <2>3. FailedJob # None
    BY JobRowsThere
  <2>4. QED
    BY <2>1, <2>2, <2>3 DEF NumberLives, FailedJob
<1>7. ASSUME NEW w \in Workers, FetchJob(w, n) PROVE NumberLives(n)'
  <2>1. orders'[n] = orders[n] /\ jobs'[n] = Fetched(jobs[n]) /\ jobs[n] # None /\ Due(jobs[n])
    BY <1>2, <1>7 DEF FetchJob
  <2>2. Fetched(jobs[n]) # None
    BY JobRowsThere
  <2>3. ~Final(orders[n].status)
    BY <1>1, <2>1 DEF NumberLives, Due
  <2>4. QED
    BY <1>1, <2>1, <2>2, <2>3 DEF NumberLives, Fetched
<1>8. ASSUME NEW S \in SUBSET Numbers, n \in S, FixProcessingTimeout(S) PROVE NumberLives(n)'
  <2>1. /\ orders'[n] = orders[n] /\ jobs'[n] = Requeued(jobs[n])
        /\ jobs[n] # None /\ Lost(jobs[n])
    BY <1>8 DEF FixProcessingTimeout
  <2>2. jobs[n] \in Job
    BY <1>2, <2>1
  <2>3. Requeued(jobs[n]) \in Job /\ Requeued(jobs[n]).status = "PROCESSING"
    BY <2>1, <2>2 DEF Requeued, Job, Lost
  <2>4. QED
    BY <1>1, <2>1, <2>3, NoneAssumption DEF NumberLives, Lost
<1>9. CASE jobs'[n] = jobs[n] /\ orders'[n] = orders[n]
  BY <1>1, <1>9 DEF NumberLives
<1>10. QED
  BY <1>3, <1>4, <1>5, <1>6, <1>7, <1>8, <1>9, OrderFrame, JobFrame

LEMMA LifeInit == Init => LifeInv
  BY KindInit DEF Init, LifeInv, UploadsNew, JobTellsOrder, JobsRecoverable, NewRequest

LEMMA LifeStep == LifeInv /\ [Next]_vars => LifeInv'
<1> SUFFICES ASSUME LifeInv, [Next]_vars PROVE LifeInv'
  OBVIOUS
<1>1. KindInv' /\ UploadsNew'
  BY KindStep, UploadsNewStep DEF LifeInv
<1>2. \A n \in Numbers : NumberLives(n)'
  BY LivesStep
<1>3. JobTellsOrder' /\ JobsRecoverable'
  BY <1>2 DEF JobTellsOrder, JobsRecoverable, NumberLives
<1>4. QED
  BY <1>1, <1>3 DEF LifeInv

\* Order and job move together (JobUseCase.pollAccrual), whatever copies stale
\* workers write: a PROCESSED job has a final order, and the job of a final
\* order is closed.
THEOREM JobAlwaysTellsOrder == Spec => []JobTellsOrder
<1>1. LifeInv => JobTellsOrder
  BY DEF LifeInv
<1>2. QED
  BY <1>1, LifeInit, LifeStep, PTL DEF Spec

\* No accepted order is forgotten: its job is closed, scheduled, or found by
\* JobRepo.FixProcessingTimeout, after any number of crashes and overtakes.
THEOREM JobsAlwaysRecoverable == Spec => []JobsRecoverable
<1>1. LifeInv => JobsRecoverable
  BY DEF LifeInv
<1>2. QED
  BY <1>1, LifeInit, LifeStep, PTL DEF Spec
-----------------------------------------------------------------------------
(* Who holds a job, while no lease is overtaken.                           *)

\* An idle worker holds nothing.
IdleEmpty == \A w \in Workers : wrk[w].pc = "idle" <=> wrk[w].number = None

HolderInv == KindInv /\ IdleEmpty /\ OneHolder

\* A worker keeps its job, lets go of it, or takes one.
LEMMA NumberKept ==
  ASSUME TypeInv, NEW w \in Workers, WorkerAction(w)
  PROVE  \/ /\ wrk'[w].number = wrk[w].number
            /\ wrk[w].pc # "idle" /\ wrk'[w].pc # "idle"
            /\ UNCHANGED tables
         \/ wrk'[w] = IdleWorker /\ (UpdateJob(w) \/ FailJob(w))
         \/ \E n \in Numbers : FetchJob(w, n) /\ wrk'[w] = Holding("read", n)
<1>1. wrk \in [Workers -> WorkerState]
  BY DEF TypeInv, TypeOK
<1>2. ASSUME NEW n \in Numbers, FetchJob(w, n) PROVE wrk'[w] = Holding("read", n)
  BY <1>1, <1>2 DEF FetchJob
<1>3. ASSUME NEW pc \in {"read", "fail"}, RolledBack(w, pc)
      PROVE  wrk'[w].number = wrk[w].number /\ wrk'[w].pc = pc
  BY <1>1, <1>3 DEF RolledBack, Holding
<1>4. CASE ReadOrder(w)
  BY <1>1, <1>4 DEF ReadOrder, WorkerState
<1>5. CASE AskAccrual(w)
  <2>1. ASSUME NEW answer, wrk' = [wrk EXCEPT ![w] = Informed(@, answer)]
        PROVE  wrk'[w].number = wrk[w].number /\ wrk'[w].pc # "idle"
    BY <1>1, <2>1 DEF Informed, WorkerState
  <2>2. QED
    BY <1>3, <1>5, <2>1 DEF AskAccrual
<1>6. CASE TooManyRequests(w) \/ AbortHandle(w)
  BY <1>3, <1>6 DEF TooManyRequests, AbortHandle
<1>7. CASE ReadBalance(w)
  <2>1. ASSUME NEW b, wrk' = [wrk EXCEPT ![w] = [@ EXCEPT !.pc = "order", !.balance = b]]
        PROVE  wrk'[w].number = wrk[w].number /\ wrk'[w].pc # "idle"
    BY <1>1, <2>1 DEF WorkerState
  <2>2. QED
    BY <1>3, <1>7, <2>1 DEF ReadBalance
<1>8. CASE UpdateOrder(w) \/ UpdateBalance(w)
  BY <1>1, <1>8 DEF UpdateOrder, UpdateBalance, Moved, WorkerState
<1>9. CASE UpdateJob(w) \/ FailJob(w)
  BY <1>1, <1>9 DEF UpdateJob, FailJob
<1>10. QED
  BY <1>2, <1>4, <1>5, <1>6, <1>7, <1>8, <1>9 DEF WorkerAction, WorkerStep

LEMMA IdleEmptyStep ==
  ASSUME TypeInv, IdleEmpty, [Next]_vars PROVE IdleEmpty'
<1> SUFFICES ASSUME NEW w \in Workers
             PROVE  wrk'[w].pc = "idle" <=> wrk'[w].number = None
  BY DEF IdleEmpty
<1>1. IdleWorker.pc = "idle" /\ IdleWorker.number = None
  BY DEF IdleWorker, Holding
<1>2. \A n \in Numbers : Holding("read", n).pc = "read" /\ Holding("read", n).number # None
  BY ConstantsAssumption DEF Holding
<1>3. CASE Crash
  BY <1>1, <1>3 DEF Crash
<1>4. QED
  BY <1>1, <1>2, <1>3, WorkerFrame, NumberKept DEF IdleEmpty

\* The fix stage overtakes nobody: the jobs it takes are in no hands.
LEMMA FixSpares ==
  ASSUME MaxOvertakes = 0, TypeInv, NEW S \in SUBSET Numbers, FixProcessingTimeout(S)
  PROVE  \A n \in S : ~Held(n)
<1> DEFINE H == {n \in S : Held(n)}
<1>1. IsFiniteSet(H)
  BY ConstantsAssumption, FS_Subset
<1>2. Cardinality(H) \in Nat /\ overtakes \in Nat /\ overtakes + Cardinality(H) <= 0
  BY <1>1, FS_CardinalityType DEF TypeInv, TypeOK, FixProcessingTimeout
<1>3. H = {}
  BY <1>1, <1>2, FS_EmptySet
<1>4. QED
  BY <1>3

LEMMA OneHolderStep ==
  ASSUME MaxOvertakes = 0, HolderInv, [Next]_vars PROVE OneHolder'
<1> USE DEF HolderInv, KindInv
<1>1. wrk \in [Workers -> WorkerState] /\ jobs \in [Numbers -> Job \cup {None}]
  BY DEF TypeInv, TypeOK
<1>2. ASSUME NEW w \in Workers, wrk[w].pc # "idle"
      PROVE  /\ wrk[w].number \in Numbers /\ orders[wrk[w].number] # None
             /\ Lost(jobs[wrk[w].number])
             /\ \A v \in Workers \ {w} : wrk[v].number # wrk[w].number
  BY <1>2 DEF OneHolder, TypeInv, WorkersReady, WorkerReady
<1>3. ASSUME UNCHANGED wrk,
             \A w \in Workers : wrk[w].pc # "idle" => jobs'[wrk[w].number] = jobs[wrk[w].number]
      PROVE  OneHolder'
  BY <1>2, <1>3 DEF OneHolder
<1>4. ASSUME NEW r \in Requests, RequestAction(r) PROVE OneHolder'
  <2>1. UNCHANGED wrk
    BY <1>4, RequestActionFrame
  <2>2. ASSUME NEW w \in Workers, wrk[w].pc # "idle"
        PROVE  jobs'[wrk[w].number] = jobs[wrk[w].number]
    <3>1. CASE EnqueueJob(r)
      <4>1. orders[req[r].number] = None
        BY <3>1 DEF EnqueueJob, KeysHeld
      <4>2. wrk[w].number # req[r].number
        BY <1>2, <2>2, <4>1
      <4>3. QED
        BY <1>1, <1>2, <2>2, <3>1, <4>2 DEF EnqueueJob
    <3>2. CASE SaveBalance(r)
      BY <3>2 DEF SaveBalance
    <3>3. QED
      BY <1>4, <3>1, <3>2, RequestActionFrame
  <2>3. QED
    BY <1>3, <2>1, <2>2
<1>5. ASSUME NEW v \in Workers, WorkerAction(v) PROVE OneHolder'
  <2>1. \A w \in Workers \ {v} : wrk'[w] = wrk[w]
    BY <1>5, WorkerActionFrame
  <2>2. CASE /\ wrk'[v].number = wrk[v].number
             /\ wrk[v].pc # "idle" /\ wrk'[v].pc # "idle"
             /\ UNCHANGED tables
    <3>1. \A w \in Workers : /\ wrk'[w].number = wrk[w].number
                             /\ wrk'[w].pc = "idle" <=> wrk[w].pc = "idle"
      BY <2>1, <2>2
    <3>2. jobs' = jobs
      BY <2>2 DEF tables
    <3>3. QED
      BY <1>2, <3>1, <3>2 DEF OneHolder
  <2>3. CASE wrk'[v] = IdleWorker /\ (UpdateJob(v) \/ FailJob(v))
    <3>1. wrk'[v].pc = "idle" /\ wrk'[v].number = None
      BY <2>3 DEF IdleWorker, Holding
    <3>2. wrk[v].pc # "idle"
      BY <2>3 DEF UpdateJob, FailJob
    <3>3. ASSUME NEW w \in Workers \ {v}, wrk'[w].pc # "idle"
          PROVE  /\ Lost(jobs'[wrk'[w].number])
                 /\ \A x \in Workers \ {w} : wrk'[x].number # wrk'[w].number
      <4>1. wrk'[w] = wrk[w] /\ wrk[w].pc # "idle"
        BY <2>1, <3>3
      <4>2. wrk[w].number # wrk[v].number /\ wrk[w].number \in Numbers
        BY <1>2, <3>2, <4>1
      <4>3. jobs'[wrk[w].number] = jobs[wrk[w].number]
        BY <1>1, <2>3, <4>2 DEF UpdateJob, FailJob
      <4>4. \A x \in Workers \ {w} : wrk'[x].number # wrk[w].number
        BY <1>2, <2>1, <3>1, <4>1, <4>2, ConstantsAssumption
      <4>5. QED
        BY <1>2, <4>1, <4>3, <4>4
    <3>4. QED
      BY <3>1, <3>3 DEF OneHolder
  <2>4. ASSUME NEW n \in Numbers, FetchJob(v, n), wrk'[v] = Holding("read", n)
        PROVE  OneHolder'
    <3>1. /\ wrk[v].pc = "idle" /\ Due(jobs[n]) /\ jobs' = [jobs EXCEPT ![n] = Fetched(@)]
      BY <2>4 DEF FetchJob
    <3>2. wrk'[v].number = n
      BY <2>4 DEF Holding
    <3>3. Lost(jobs'[n])
      BY <1>1, <3>1 DEF Lost, Fetched
    <3>4. \A w \in Workers : wrk[w].pc # "idle" => wrk[w].number # n
      BY <1>2, <3>1 DEF Lost, Due
    <3>5. \A w \in Workers : wrk[w].number # n
      BY <3>4, ConstantsAssumption DEF IdleEmpty
    <3>6. ASSUME NEW w \in Workers \ {v}, wrk'[w].pc # "idle"
          PROVE  /\ Lost(jobs'[wrk'[w].number])
                 /\ \A x \in Workers \ {w} : wrk'[x].number # wrk'[w].number
      <4>1. wrk'[w] = wrk[w] /\ wrk[w].pc # "idle" /\ wrk[w].number # n
        BY <2>1, <3>5, <3>6
      <4>2. jobs'[wrk[w].number] = jobs[wrk[w].number]
        BY <1>1, <1>2, <3>1, <4>1
      <4>3. \A x \in Workers \ {w} : wrk'[x].number # wrk[w].number
        BY <1>2, <2>1, <3>2, <4>1
      <4>4. QED
        BY <1>2, <4>1, <4>2, <4>3
    <3>7. \A x \in Workers \ {v} : wrk'[x].number # n
      BY <2>1, <3>5
    <3>8. QED
      BY <3>2, <3>3, <3>6, <3>7 DEF OneHolder
  <2>5. QED
    BY <1>5, <2>2, <2>3, <2>4, NumberKept
<1>6. ASSUME NEW S \in SUBSET Numbers, FixProcessingTimeout(S) PROVE OneHolder'
  <2>1. \A w \in Workers : wrk[w].pc # "idle" => wrk[w].number \notin S
    BY <1>6, FixSpares DEF Held
  <2>2. QED
    BY <1>2, <1>3, <1>6, <2>1 DEF FixProcessingTimeout
<1>7. CASE Crash
  <2>1. \A w \in Workers : wrk'[w].pc = "idle"
    BY <1>7 DEF Crash, IdleWorker, Holding
  <2>2. QED
    BY <2>1 DEF OneHolder
<1>8. CASE UNCHANGED vars
  BY <1>3, <1>8 DEF vars
<1>9. QED
  BY <1>4, <1>5, <1>6, <1>7, <1>8, StepCases DEF FixAction

\* While no lease is overtaken (JobRepo.GetUpdate with FOR UPDATE SKIP LOCKED,
\* against FixProcessingTimeout), a job in somebody's hands is in nobody
\* else's, and its row says so.
THEOREM OneHolderAlways == ASSUME MaxOvertakes = 0 PROVE Spec => []OneHolder
<1>1. Init => HolderInv
  BY KindInit DEF Init, HolderInv, IdleEmpty, OneHolder, IdleWorker, Holding
<1>2. HolderInv /\ [Next]_vars => HolderInv'
  BY KindStep, IdleEmptyStep, OneHolderStep DEF HolderInv, KindInv
<1>3. HolderInv => OneHolder
  BY DEF HolderInv
<1>4. QED
  BY <1>1, <1>2, <1>3, PTL DEF Spec
-----------------------------------------------------------------------------
(* Gophermart implements the job table.                                    *)

Rows  == [n \in Numbers |-> JobRow(n)]
Hands == [n \in Numbers |-> Cardinality({w \in Workers : wrk[w].number = n})]

\* The table counts as everybody does.
LEMMA TableCounts == ASSUME NEW S PROVE Table!Cardinality(S) = Cardinality(S)
BY DEF Table!Cardinality, Cardinality

LEMMA HandsNat ==
  ASSUME IsFiniteSet(Workers), NEW n \in Numbers
  PROVE  /\ Hands[n] \in Nat
         /\ Hands'[n] \in Nat
         /\ Hands[n] > 0 <=> Held(n)
<1>1. /\ IsFiniteSet({w \in Workers : wrk[w].number = n})
      /\ IsFiniteSet({w \in Workers : wrk'[w].number = n})
  BY FS_Subset
<1>2. /\ Cardinality({w \in Workers : wrk[w].number = n}) \in Nat
      /\ Cardinality({w \in Workers : wrk'[w].number = n}) \in Nat
      /\ Cardinality({w \in Workers : wrk[w].number = n}) = 0
             <=> {w \in Workers : wrk[w].number = n} = {}
  BY <1>1, FS_CardinalityType, FS_EmptySet
<1>3. /\ Hands[n] = Cardinality({w \in Workers : wrk[w].number = n})
      /\ Hands'[n] = Cardinality({w \in Workers : wrk'[w].number = n})
  BY DEF Hands
<1>4. Held(n) <=> {w \in Workers : wrk[w].number = n} # {}
  BY DEF Held
<1>5. QED
  BY <1>2, <1>3, <1>4

\* One worker moves: what that does to the number of hands.
LEMMA HandsMove ==
  ASSUME IsFiniteSet(Workers), NEW v \in Workers, NEW n \in Numbers,
         \A w \in Workers \ {v} : wrk'[w].number = wrk[w].number
  PROVE  /\ (wrk[v].number = n <=> wrk'[v].number = n) => Hands'[n] = Hands[n]
         /\ wrk[v].number = n /\ wrk'[v].number # n => Hands'[n] = Hands[n] - 1
         /\ wrk[v].number # n /\ wrk'[v].number = n => Hands'[n] = Hands[n] + 1
<1> DEFINE S == {w \in Workers : wrk[w].number = n}
           T == {w \in Workers : wrk'[w].number = n}
<1>1. IsFiniteSet(S) /\ IsFiniteSet(T) /\ Cardinality(S) \in Nat /\ Cardinality(T) \in Nat
  BY FS_Subset, FS_CardinalityType
<1>2. S \ {v} = T \ {v}
  OBVIOUS
<1>3. /\ Cardinality(S \ {v}) = IF v \in S THEN Cardinality(S) - 1 ELSE Cardinality(S)
      /\ Cardinality(T \ {v}) = IF v \in T THEN Cardinality(T) - 1 ELSE Cardinality(T)
  BY <1>1, FS_RemoveElement
<1>4. (v \in S <=> wrk[v].number = n) /\ (v \in T <=> wrk'[v].number = n)
  OBVIOUS
<1>5. Hands[n] = Cardinality(S) /\ Hands'[n] = Cardinality(T)
  BY DEF Hands
<1> HIDE DEF S, T
<1>6. Cardinality(S \ {v}) = Cardinality(T \ {v})
  BY <1>2
<1>7. (v \in S <=> v \in T) => Cardinality(T) = Cardinality(S)
  BY <1>1, <1>3, <1>6
<1>8. v \in S /\ v \notin T => Cardinality(T) = Cardinality(S) - 1
  BY <1>1, <1>3, <1>6
<1>9. v \notin S /\ v \in T => Cardinality(T) = Cardinality(S) + 1
  BY <1>1, <1>3, <1>6
<1>10. QED
  BY <1>4, <1>5, <1>7, <1>8, <1>9

LEMMA TableInit == Init => Table!Init
<1> SUFFICES ASSUME Init PROVE Table!Init
  OBVIOUS
<1>1. ASSUME NEW n \in Numbers PROVE JobRow(n) = "none" /\ Hands[n] = 0
  <2>1. {w \in Workers : wrk[w].number = n} = {}
    BY ConstantsAssumption DEF Init, IdleWorker, Holding
  <2>2. QED
    BY <2>1, FS_EmptySet DEF Init, JobRow, Hands
<1>2. overtakes = 0
  BY DEF Init
<1>3. QED
  BY <1>1, <1>2 DEF Table!Init, Hands

\* A request commits an order and its job, or touches no job.
LEMMA RequestTable ==
  ASSUME LifeInv, NEW r \in Requests, RequestAction(r)
  PROVE  [Table!Next]_Table!vars
<1> USE DEF LifeInv, KindInv
<1>1. UNCHANGED <<wrk, overtakes>>
  BY RequestActionFrame
<1>2. Hands' = Hands
  BY <1>1 DEF Hands
<1>3. CASE EnqueueJob(r)
  <2>1. PICK n \in Numbers : n = req[r].number /\ orders[n] = None
    BY <1>3 DEF EnqueueJob, KeysHeld, TypeInv, RequestsReady, RequestReady
  <2>2. jobs[n] = None
    BY <2>1 DEF TypeInv, JobsHaveOrders
  <2>3. jobs' = [jobs EXCEPT ![n] = NewJob]
    BY <1>3, <2>1 DEF EnqueueJob
  <2>4. \A k \in Numbers \ {n} : JobRow(k)' = JobRow(k)
    BY <2>3 DEF JobRow, Lost
  <2>5. jobs'[n] # None /\ jobs'[n].scheduled
    BY <2>1, <2>3, JobRowsThere DEF TypeInv, TypeOK, NewJob
  <2>6. JobRow(n)' = "scheduled" /\ JobRow(n) = "none"
    BY <2>2, <2>5 DEF JobRow, Lost
  <2>7. Rows[n] = "none" /\ Rows' = [Rows EXCEPT ![n] = "scheduled"]
    BY <2>1, <2>4, <2>6 DEF Rows
  <2>8. Table!Create(n)
    BY <1>1, <1>2, <2>7 DEF Table!Create, Rows, Hands
  <2>9. QED
    BY <2>1, <2>8 DEF Table!Next
<1>4. CASE jobs' = jobs
  <2>1. Rows' = Rows
    BY <1>4 DEF Rows, JobRow, Lost
  <2>2. QED
    BY <1>1, <1>2, <2>1 DEF Table!vars, Rows, Hands
<1>5. QED
  BY <1>3, <1>4, RequestActionFrame DEF SaveBalance

\* A worker fetches a job, saves it and lets go of it, or keeps it.
LEMMA WorkerTable ==
  ASSUME IsFiniteSet(Workers), LifeInv, IdleEmpty, NEW v \in Workers, WorkerAction(v)
  PROVE  [Table!Next]_Table!vars
<1> USE DEF LifeInv, KindInv
<1>1. /\ \A w \in Workers \ {v} : wrk'[w].number = wrk[w].number
      /\ UNCHANGED overtakes
      /\ jobs \in [Numbers -> Job \cup {None}]
  BY WorkerActionFrame DEF TypeInv, TypeOK
<1>2. CASE wrk'[v].number = wrk[v].number /\ UNCHANGED tables
  <2>1. \A n \in Numbers : Hands'[n] = Hands[n]
    BY <1>1, <1>2, HandsMove
  <2>2. Hands' = Hands
    BY <2>1 DEF Hands
  <2>3. Rows' = Rows
    BY <1>2 DEF Rows, JobRow, Lost, tables
  <2>4. QED
    BY <1>1, <2>2, <2>3 DEF Table!vars, Rows, Hands
<1>3. CASE wrk'[v] = IdleWorker /\ (UpdateJob(v) \/ FailJob(v))
  <2>1. PICK n \in Numbers : n = wrk[v].number /\ wrk'[v].number = None
    BY <1>3 DEF UpdateJob, FailJob, IdleWorker, Holding, TypeInv, WorkersReady, WorkerReady
  <2>2. PICK row \in Job : /\ jobs' = [jobs EXCEPT ![n] = row]
                           /\ row.status \in {"PROCESSED", "FAILED"} \/ row.scheduled
    <3>1. CASE FailJob(v)
      <4>1. jobs' = [jobs EXCEPT ![n] = FailedJob]
        BY <2>1, <3>1 DEF FailJob
      <4>2. FailedJob \in Job /\ FailedJob.status \in {"PROCESSED", "FAILED"}
        BY DEF FailedJob, Job, JobStatuses
      <4>3. QED
        BY <4>1, <4>2
    <3>2. CASE UpdateJob(v)
      <4>1. PICK status : jobs' = [jobs EXCEPT ![n] = Handled(status)]
        BY <2>1, <3>2 DEF UpdateJob
      <4>2. /\ Handled(status) \in Job
            /\ Handled(status).status \in {"PROCESSED", "FAILED"} \/ Handled(status).scheduled
        BY HandledType
      <4>3. QED
        BY <4>1, <4>2
    <3>3. QED
      BY <1>3, <3>1, <3>2
  <2>3. Held(n)
    BY <2>1 DEF Held
  <2>4. PICK state \in {"scheduled", "closed"} : JobRow(n)' = state
    BY <1>1, <2>1, <2>2, NoneAssumption DEF JobRow, Lost
  <2>5. \A k \in Numbers \ {n} : JobRow(k)' = JobRow(k)
    BY <2>2 DEF JobRow, Lost
  <2>6. Rows' = [Rows EXCEPT ![n] = state]
    BY <2>1, <2>4, <2>5 DEF Rows
  <2>7. Hands[n] > 0 /\ Hands'[n] = Hands[n] - 1
    BY <1>1, <2>1, <2>3, HandsNat, HandsMove, ConstantsAssumption
  <2>8. \A k \in Numbers \ {n} : Hands'[k] = Hands[k]
    BY <1>1, <2>1, HandsMove, ConstantsAssumption
  <2>9. Hands' = [Hands EXCEPT ![n] = @ - 1]
    BY <2>1, <2>7, <2>8 DEF Hands
  <2>10. Table!Update(n, state)
    BY <1>1, <2>6, <2>7, <2>9 DEF Table!Update, Rows, Hands
  <2>11. QED
    BY <2>1, <2>10 DEF Table!Next
<1>4. ASSUME NEW n \in Numbers, FetchJob(v, n), wrk'[v] = Holding("read", n)
      PROVE  [Table!Next]_Table!vars
  <2>1. /\ wrk[v].number = None /\ wrk'[v].number = n
        /\ jobs[n] # None /\ jobs[n].scheduled /\ jobs' = [jobs EXCEPT ![n] = Fetched(@)]
    BY <1>4 DEF FetchJob, IdleEmpty, Holding, Due
  <2>2. jobs'[n] = Fetched(jobs[n]) /\ Fetched(jobs[n]) # None
    BY <1>1, <2>1, JobRowsThere
  <2>3. JobRow(n) = "scheduled" /\ JobRow(n)' = "taken"
    BY <2>1, <2>2 DEF JobRow, Lost, Fetched
  <2>4. \A k \in Numbers \ {n} : JobRow(k)' = JobRow(k)
    BY <2>1 DEF JobRow, Lost
  <2>5. Rows' = [k \in Numbers |-> IF k \in {n} THEN "taken" ELSE Rows[k]]
    BY <2>3, <2>4 DEF Rows
  <2>6. Hands'[n] = Hands[n] + 1
    BY <1>1, <2>1, HandsMove, ConstantsAssumption
  <2>7. \A k \in Numbers \ {n} : Hands'[k] = Hands[k]
    BY <1>1, <2>1, HandsMove, ConstantsAssumption
  <2>8. Hands' = [k \in Numbers |-> IF k \in {n} THEN Hands[k] + 1 ELSE Hands[k]]
    BY <2>6, <2>7 DEF Hands
  <2>9. \A k \in {n} : Rows[k] = "scheduled"
    BY <2>3 DEF Rows
  <2>10. Table!GetUpdate({n})
    BY <1>1, <2>5, <2>8, <2>9 DEF Table!GetUpdate, Rows, Hands
  <2>11. QED
    BY <2>10 DEF Table!Next
<1>5. QED
  BY <1>2, <1>3, <1>4, NumberKept

LEMMA FixTable ==
  ASSUME IsFiniteSet(Workers), NEW S \in SUBSET Numbers, FixProcessingTimeout(S), LifeInv
  PROVE  [Table!Next]_Table!vars
<1>1. /\ \A n \in S : jobs[n] # None /\ Lost(jobs[n])
      /\ overtakes' = overtakes + Cardinality({n \in S : Held(n)})
      /\ jobs' = [n \in Numbers |-> IF n \in S THEN Requeued(jobs[n]) ELSE jobs[n]]
      /\ UNCHANGED wrk
  BY DEF FixProcessingTimeout
<1>2. {n \in S : Held(n)} = {n \in S : Hands[n] > 0}
  BY HandsNat
<1>3. Hands' = Hands
  BY <1>1 DEF Hands
<1>4. ASSUME NEW n \in S PROVE JobRow(n) = "taken" /\ JobRow(n)' = "scheduled"
  <2>1. jobs[n] \in Job /\ jobs[n].status = "PROCESSING" /\ ~jobs[n].scheduled /\ jobs[n] # None
    BY <1>1 DEF LifeInv, KindInv, TypeInv, TypeOK, Lost
  <2>2. jobs'[n] \in Job /\ jobs'[n].scheduled
    BY <1>1, <2>1 DEF Requeued, Job
  <2>3. QED
    BY <2>1, <2>2, NoneAssumption DEF JobRow, Lost
<1>5. \A n \in Numbers \ S : JobRow(n)' = JobRow(n)
  BY <1>1 DEF JobRow, Lost
<1>6. /\ \A n \in S : Rows[n] = "taken"
      /\ Rows' = [n \in Numbers |-> IF n \in S THEN "scheduled" ELSE Rows[n]]
  BY <1>4, <1>5 DEF Rows
<1>7. Table!FixProcessingTimeout(S)
  BY <1>1, <1>2, <1>3, <1>6, TableCounts DEF Table!FixProcessingTimeout, Rows, Hands
<1>8. QED
  BY <1>7 DEF Table!Next

LEMMA CrashTable ==
  ASSUME IsFiniteSet(Workers), Crash PROVE Table!Drop
<1>1. wrk' = [w \in Workers |-> IdleWorker] /\ UNCHANGED <<jobs, overtakes>>
  BY DEF Crash, tables
<1>2. ASSUME NEW n \in Numbers PROVE Hands'[n] = 0
  <2>1. {w \in Workers : wrk'[w].number = n} = {}
    BY <1>1, ConstantsAssumption DEF IdleWorker, Holding
  <2>2. QED
    BY <2>1, FS_EmptySet DEF Hands
<1>3. \A n \in Numbers : Hands[n] \in Nat
  BY HandsNat
<1>4. Hands' \in [Numbers -> Nat] /\ \A n \in Numbers : Hands'[n] <= Hands[n]
  BY <1>2, <1>3 DEF Hands
<1>5. Rows' = Rows
  BY <1>1 DEF Rows, JobRow, Lost
<1>6. QED
  BY <1>1, <1>4, <1>5 DEF Table!Drop, Rows, Hands

LEMMA TableStep ==
  ASSUME IsFiniteSet(Workers), LifeInv, IdleEmpty, [Next]_vars
  PROVE  [Table!Next]_Table!vars
<1>1. CASE UNCHANGED vars
  BY <1>1 DEF vars, Table!vars, JobRow, Lost
<1>2. QED
  BY <1>1, RequestTable, WorkerTable, FixTable, CrashTable, StepCases DEF FixAction, Table!Next

\* Transactions that read and write jobs among other rows (JobUseCase.Handle,
\* OrderUseCase.Create), their failures and crashes keep the promise of table
\* jobs, overtaken leases included.
THEOREM GophermartIsTable == ASSUME IsFiniteSet(Workers) PROVE Spec => TableSpec
<1> DEFINE Inv == LifeInv /\ IdleEmpty
<1>1. Init => Inv
  BY LifeInit DEF Init, IdleEmpty, IdleWorker, Holding
<1>2. Inv /\ [Next]_vars => Inv'
  BY LifeStep, IdleEmptyStep DEF LifeInv, KindInv
<1>3. Inv /\ [Next]_vars => [Table!Next]_Table!vars
  BY TableStep
<1> HIDE DEF Inv
<1>4. QED
  BY <1>1, <1>2, <1>3, TableInit, PTL DEF Spec, TableSpec, Table!Spec
-----------------------------------------------------------------------------
(* What clients are told.                                                  *)

\* A worker's copy of an order has its user.
CopyUsers ==
    \A w \in Workers :
        wrk[w].pc \in {"ask", "credit", "order", "balance", "job"} =>
            wrk[w].order.user = orders[wrk[w].number].user

\* An answer ends a request.
CodesEnd == \A r \in Requests : req[r].code # None => req[r].pc = "done"

\* An upload that found the number in other hands.
Refused(r) == req[r].kind = "upload" /\ req[r].code = "409"

\* An accepted or refused request names a number of the table.
Numbered == \A r \in Requests : Accepted(r) \/ Refused(r) => req[r].number \in Numbers

ReceiptInv == KindInv /\ UploadsNew /\ CopyUsers /\ CodesEnd /\ Numbered /\ Receipts

\* An order that is there stays there, with its user and its type.
LEMMA OrderStays ==
  ASSUME KindInv, CopyUsers, [Next]_vars, NEW n \in Numbers, orders[n] # None
  PROVE  /\ orders'[n] # None
         /\ orders'[n].user = orders[n].user
         /\ orders'[n].type = orders[n].type
<1> USE DEF KindInv
<1>1. ASSUME NEW q \in Requests, EnqueueJob(q) \/ SaveBalance(q), req[q].number = n PROVE FALSE
  BY <1>1 DEF EnqueueJob, SaveBalance, KeysHeld
<1>2. ASSUME NEW w \in Workers, UpdateJob(w), wrk[w].number = n
      PROVE  /\ orders'[n] # None
             /\ orders'[n].user = orders[n].user
             /\ orders'[n].type = orders[n].type
  <2>1. /\ wrk[w].order \in Order /\ wrk[w].order.amount >= 0
        /\ wrk[w].order.type = "INCOME" /\ orders[n].type = "INCOME"
        /\ wrk[w].order.user = orders[n].user
    BY <1>2, NoneAssumption
       DEF UpdateJob, IncomeHeld, TypeInv, WorkersReady, WorkerReady, CopyUsers
  <2>2. orders'[n] = OrderRow(wrk[w].order)
    BY <1>2 DEF UpdateJob, TypeInv, TypeOK
  <2>3. /\ OrderRow(wrk[w].order) \in Order
        /\ OrderRow(wrk[w].order).user = wrk[w].order.user
        /\ OrderRow(wrk[w].order).type = wrk[w].order.type
    BY <2>1, OrderRowType
  <2>4. orders'[n] # None
    BY <2>2, <2>3, NoneAssumption
  <2>5. QED
    BY <2>1, <2>2, <2>3, <2>4
<1>3. QED
  BY <1>1, <1>2, OrderFrame DEF TypeInv

LEMMA CopyUsersStep ==
  ASSUME KindInv, CopyUsers, [Next]_vars
  PROVE  CopyUsers'
<1> SUFFICES ASSUME NEW w \in Workers,
                    wrk'[w].pc \in {"ask", "credit", "order", "balance", "job"}
             PROVE  wrk'[w].order.user = orders'[wrk'[w].number].user
  BY DEF CopyUsers
<1>1. wrk[w] \in WorkerState /\ orders \in [Numbers -> Order \cup {None}]
  BY DEF KindInv, TypeInv, TypeOK
<1>2. wrk[w].pc # "idle" =>
        /\ wrk[w].number \in Numbers
        /\ orders[wrk[w].number] # None
        /\ orders'[wrk[w].number].user = orders[wrk[w].number].user
  BY OrderStays DEF KindInv, TypeInv, WorkersReady, WorkerReady
<1>3. ASSUME wrk[w].pc \in {"ask", "credit", "order", "balance", "job"},
             wrk'[w].number = wrk[w].number, wrk'[w].order.user = wrk[w].order.user
      PROVE  wrk'[w].order.user = orders'[wrk'[w].number].user
  BY <1>2, <1>3 DEF CopyUsers
<1>4. IdleWorker.pc = "idle" /\ \A n \in Numbers, pc \in {"read", "fail"} : Holding(pc, n).pc = pc
  BY DEF IdleWorker, Holding
<1>5. CASE wrk'[w] = wrk[w]
  BY <1>3, <1>5
<1>6. CASE ReadOrder(w)
  <2>1. /\ wrk[w].pc # "idle" /\ wrk'[w].number = wrk[w].number
        /\ wrk'[w].order = orders[wrk[w].number]
    BY <1>1, <1>6 DEF ReadOrder, WorkerState, KindInv, TypeInv, TypeOK
  <2>2. QED
    BY <1>2, <2>1
<1>7. ASSUME wrk[w].pc = "ask", NEW answer \in Answers(wrk[w].number),
             wrk'[w] = Informed(wrk[w], answer)
      PROVE  wrk'[w].order.user = orders'[wrk'[w].number].user
  <2>1. wrk[w].order \in Order /\ wrk'[w].number = wrk[w].number
    BY <1>1, <1>7 DEF KindInv, TypeInv, WorkersReady, WorkerReady, Informed, WorkerState
  <2>2. wrk'[w].order = OrderUpdated(wrk[w].order, answer)
    BY <1>1, <1>7 DEF Informed, WorkerState
  <2>3. OrderUpdated(wrk[w].order, answer).user = wrk[w].order.user
    BY <2>1 DEF OrderUpdated, Order
  <2>4. QED
    BY <1>3, <1>7, <2>1, <2>2, <2>3
<1>8. CASE ReadBalance(w) /\ CanApply(VisibleBalance(wrk[w].seen, wrk[w].order.user),
                                      wrk[w].order)
  <2>1. PICK b : wrk[w].pc = "credit" /\ wrk'[w] = [wrk[w] EXCEPT !.pc = "order", !.balance = b]
    BY <1>8 DEF ReadBalance, KindInv, TypeInv, TypeOK
  <2>2. wrk'[w].number = wrk[w].number /\ wrk'[w].order = wrk[w].order
    BY <1>1, <2>1 DEF WorkerState
  <2>3. QED
    BY <1>3, <2>1, <2>2
<1>9. ASSUME wrk[w].pc \in {"order", "balance"}, NEW pc, wrk'[w] = [wrk[w] EXCEPT !.pc = pc]
      PROVE  wrk'[w].order.user = orders'[wrk'[w].number].user
  <2>1. wrk'[w].number = wrk[w].number /\ wrk'[w].order = wrk[w].order
    BY <1>1, <1>9 DEF WorkerState
  <2>2. QED
    BY <1>3, <1>9, <2>1
<1>10. ~ (wrk'[w] = IdleWorker \/ \E n \in Numbers : wrk'[w] = Holding("read", n))
  BY <1>4
<1>11. ~ (wrk[w].pc # "idle" /\ wrk'[w] \in {Holding("read", wrk[w].number),
                                            Holding("fail", wrk[w].number)})
  BY <1>2, <1>4
<1>12. QED
  BY <1>5, <1>6, <1>7, <1>8, <1>9, <1>10, <1>11, WorkerCases DEF KindInv

\* How a step answers a request, if it does.
LEMMA Outcomes ==
  ASSUME KindInv, CodesEnd, [Next]_vars, NEW r \in Requests
  PROVE  \/ req'[r] = req[r]
         \/ req'[r].code = None
         \/ req'[r].pc = "done" /\ req'[r].code \in {"422", "402", "500"}
         \/ /\ req'[r].pc = "done" /\ req'[r].kind = "upload" /\ req'[r].code \in {"200", "409"}
            /\ req'[r].code = "409" =>
                 /\ req'[r].number \in Numbers
                 /\ orders[req'[r].number] # None
                 /\ orders[req'[r].number].user # req'[r].user
         \/ req'[r].pc = "done" /\ req'[r].kind = "withdraw" /\ req'[r].code = "409"
         \/ EnqueueJob(r) /\ req'[r] = Ended(req[r], "202")
         \/ SaveBalance(r) /\ req'[r] = Ended(req[r], "200")
<1>1. req \in [Requests -> RequestState] /\ "422" # None /\ "402" # None /\ "500" # None
  BY ConstantsAssumption DEF KindInv, TypeInv, TypeOK, Codes
<1>2. \A q \in RequestState, code \in Codes \cup {None} :
        /\ Ended(q, code).pc = "done" /\ Ended(q, code).code = code
        /\ Ended(q, code).kind = q.kind /\ Ended(q, code).number = q.number
        /\ Ended(q, code).user = q.user
  BY EndedType
<1>3. ASSUME NEW u \in Users, NEW n \in Numbers, PostOrder(r, u, n)
      PROVE  \/ req'[r].code = None
             \/ req'[r].pc = "done" /\ req'[r].code = "422"
             \/ /\ req'[r].pc = "done" /\ req'[r].kind = "upload"
                /\ req'[r].code \in {"200", "409"}
                /\ req'[r].code = "409" =>
                     /\ req'[r].number \in Numbers
                     /\ orders[req'[r].number] # None
                     /\ orders[req'[r].number].user # req'[r].user
  <2> DEFINE posted == [NewRequest EXCEPT !.kind = "upload", !.user = u, !.number = n]
  <2>1. /\ posted \in RequestState /\ posted.kind = "upload"
        /\ posted.user = u /\ posted.number = n
    BY DEF RequestState, NewRequest, Snapshot
  <2>2. CASE n \notin ValidNumbers
    <3>1. req'[r] = Ended(posted, "422")
      BY <1>1, <1>3, <2>2 DEF PostOrder
    <3> HIDE DEF posted
    <3>2. QED
      BY <1>2, <2>1, <3>1 DEF Codes
  <2>3. CASE n \in ValidNumbers /\ orders[n] # None
    <3>1. req'[r] = Ended(posted, Taken(n, u)) /\ Taken(n, u) \in {"200", "409"}
      BY <1>1, <1>3, <2>3 DEF PostOrder, Taken
    <3>2. Taken(n, u) = "409" => orders[n].user # u
      BY DEF Taken
    <3> HIDE DEF posted
    <3>3. QED
      BY <1>2, <2>1, <2>3, <3>1, <3>2 DEF Codes
  <2>4. CASE n \in ValidNumbers /\ orders[n] = None
    BY <1>1, <1>3, <2>4 DEF PostOrder, NewRequest
  <2>5. QED
    BY <2>2, <2>3, <2>4
<1>4. ASSUME NEW u \in Users, NEW n \in Numbers, NEW sum \in Sums, PostWithdraw(r, u, n, sum)
      PROVE  \/ req'[r].code = None
             \/ req'[r].pc = "done" /\ req'[r].code \in {"422", "402"}
  <2> DEFINE posted == [NewRequest EXCEPT !.kind = "withdraw", !.user = u, !.number = n]
  <2>1. posted \in RequestState
    BY DEF RequestState, NewRequest, Snapshot
  <2>2. ASSUME NEW code \in {"422", "402"}, req'[r] = Ended(posted, code)
        PROVE  req'[r].pc = "done" /\ req'[r].code \in {"422", "402"}
    <3> HIDE DEF posted
    <3>1. QED
      BY <1>2, <2>1, <2>2 DEF Codes
  <2>3. ASSUME NEW x, NEW y, NEW z,
               req'[r] = [posted EXCEPT !.pc = "insert", !.order = x, !.balance = y, !.seen = z]
        PROVE  req'[r].code = None
    BY <2>3 DEF NewRequest
  <2>4. QED
    BY <1>1, <1>4, <2>2, <2>3 DEF PostWithdraw
<1>5. CASE InsertOrder(r)
  <2>1. req[r].pc = "insert" /\ req[r] \in RequestState /\ req[r].code = None
        /\ req[r].kind \in {"upload", "withdraw"}
    BY <1>1, <1>5 DEF InsertOrder, CodesEnd, KindInv, TypeInv, RequestsReady, RequestReady
  <2>2. CASE req'[r] = [req[r] EXCEPT !.pc = "commit"]
    BY <2>1, <2>2 DEF RequestState
  <2>3. CASE req'[r] = Ended(req[r], IF req[r].kind = "upload" THEN "200" ELSE "409")
    BY <1>2, <2>1, <2>3 DEF Codes
  <2>4. QED
    BY <1>1, <1>5, <2>2, <2>3 DEF InsertOrder, Answered
<1>6. CASE AbortRequest(r)
  BY <1>1, <1>2, <1>6 DEF AbortRequest, Answered, Codes
<1>7. CASE EnqueueJob(r) \/ SaveBalance(r)
  BY <1>1, <1>7 DEF EnqueueJob, SaveBalance, Answered
<1>8. CASE Crash
  BY <1>1, <1>2, <1>8 DEF Crash
<1>9. QED
  BY <1>3, <1>4, <1>5, <1>6, <1>7, <1>8, RequestFrame DEF RequestAction, RequestStep, KindInv

LEMMA CodesEndStep ==
  ASSUME KindInv, CodesEnd, [Next]_vars PROVE CodesEnd'
<1>1. \A r \in Requests, code \in {"202", "200"} : Ended(req[r], code).pc = "done"
  BY EndedType DEF KindInv, TypeInv, TypeOK, Codes
<1>2. QED
  BY <1>1, Outcomes DEF CodesEnd

\* Nothing happens to a request that has ended.
LEMMA DoneStays ==
  ASSUME TypeInv, [Next]_vars, NEW r \in Requests, req[r].pc = "done"
  PROVE  req'[r] = req[r]
<1>1. ~RequestAction(r)
  BY DEF RequestAction, RequestStep, PostOrder, PostWithdraw, InsertOrder, EnqueueJob,
         SaveBalance, AbortRequest
<1>2. CASE Crash
  BY <1>2 DEF Crash
<1>3. QED
  BY <1>1, <1>2, RequestFrame

\* A request that is accepted now was accepted before, or commits its order.
LEMMA AcceptedNow ==
  ASSUME ReceiptInv, [Next]_vars, NEW r \in Requests, Accepted(r)'
  PROVE  \/ Accepted(r) /\ req'[r] = req[r]
         \/ /\ req[r].pc = "commit" /\ orders[req[r].number] = None
            /\ req'[r].number = req[r].number /\ req'[r].user = req[r].user
            /\ req'[r].kind = req[r].kind /\ req[r].number \in Numbers
            /\ orders'[req[r].number] = req[r].order
            /\ EnqueueJob(r) \/ SaveBalance(r)
<1> USE DEF ReceiptInv, KindInv
<1>1. CASE req'[r] = req[r]
  BY <1>1 DEF Accepted
<1>2. ASSUME EnqueueJob(r) \/ SaveBalance(r), NEW code \in {"202", "200"},
             req'[r] = Ended(req[r], code)
      PROVE  /\ req[r].pc = "commit" /\ orders[req[r].number] = None
             /\ req'[r].number = req[r].number /\ req'[r].user = req[r].user
             /\ req'[r].kind = req[r].kind /\ req[r].number \in Numbers
             /\ orders'[req[r].number] = req[r].order
  <2>1. req[r].pc = "commit" /\ req[r].number \in Numbers
    BY <1>2 DEF EnqueueJob, SaveBalance, TypeInv, RequestsReady, RequestReady
  <2>2. orders[req[r].number] = None
    BY <2>1 DEF KeysHeld
  <2>3. orders'[req[r].number] = req[r].order
    BY <1>2, <2>1 DEF EnqueueJob, SaveBalance, TypeInv, TypeOK
  <2>4. req[r] \in RequestState /\ code \in Codes \cup {None}
    BY DEF TypeInv, TypeOK, Codes
  <2>5. QED
    BY <1>2, <2>1, <2>2, <2>3, <2>4, EndedType
<1>3. req'[r] = req[r] \/ ((EnqueueJob(r) \/ SaveBalance(r))
                           /\ \E code \in {"202", "200"} : req'[r] = Ended(req[r], code))
  BY Outcomes, ConstantsAssumption DEF Accepted, Codes
<1>4. QED
  BY <1>1, <1>2, <1>3

\* Every row has its request.
LEMMA RowsAccepted ==
  ASSUME ReceiptInv, [Next]_vars, NEW n \in Numbers, orders'[n] # None
  PROVE  \E r \in Requests : Accepted(r)' /\ req'[r].number = n
<1> USE DEF ReceiptInv, KindInv
<1>1. CASE orders[n] # None
  <2>1. PICK r \in Requests : Accepted(r) /\ req[r].number = n
    BY <1>1 DEF Receipts
  <2>2. req[r].pc = "done"
    BY <2>1, ConstantsAssumption DEF Accepted, CodesEnd, Codes
  <2>3. req'[r] = req[r]
    BY <2>2, DoneStays
  <2>4. QED
    BY <2>1, <2>3 DEF Accepted
<1>2. CASE orders[n] = None
  <2>1. ASSUME NEW w \in Workers, UpdateJob(w), wrk[w].number = n PROVE FALSE
    BY <1>2, <2>1 DEF UpdateJob, TypeInv, WorkersReady, WorkerReady
  <2>2. PICK r \in Requests : (EnqueueJob(r) \/ SaveBalance(r)) /\ req[r].number = n
    BY <1>2, <2>1, OrderFrame
  <2>3. req[r] \in RequestState /\ req \in [Requests -> RequestState]
    BY DEF TypeInv, TypeOK
  <2>4. CASE EnqueueJob(r)
    <3>1. req'[r] = Ended(req[r], "202")
      BY <2>3, <2>4 DEF EnqueueJob, Answered
    <3>2. req'[r].code = "202" /\ req'[r].number = n
      BY <2>2, <2>3, <3>1, EndedType DEF Codes
    <3>3. QED
      BY <3>2 DEF Accepted
  <2>5. CASE SaveBalance(r)
    <3>1. req'[r] = Ended(req[r], "200") /\ req[r].kind = "withdraw"
      BY <2>3, <2>5 DEF SaveBalance, Answered
    <3>2. req'[r].code = "200" /\ req'[r].number = n /\ req'[r].kind = "withdraw"
      BY <2>2, <2>3, <3>1, EndedType DEF Codes
    <3>3. QED
      BY <3>2 DEF Accepted
  <2>6. QED
    BY <2>2, <2>4, <2>5
<1>3. QED
  BY <1>1, <1>2

\* Every accepted request has its row.
LEMMA AcceptedRows ==
  ASSUME ReceiptInv, [Next]_vars, NEW r \in Requests, Accepted(r)'
  PROVE  /\ req'[r].number \in Numbers
         /\ orders'[req'[r].number] # None
         /\ orders'[req'[r].number].user = req'[r].user
         /\ orders'[req'[r].number].type = "INCOME" <=> req'[r].kind = "upload"
<1> USE DEF ReceiptInv, KindInv
<1>1. CASE Accepted(r) /\ req'[r] = req[r]
  <2>1. /\ orders[req[r].number] # None /\ orders[req[r].number].user = req[r].user
        /\ orders[req[r].number].type = "INCOME" <=> req[r].kind = "upload"
    BY <1>1 DEF Receipts
  <2>2. req[r].number \in Numbers
    BY <1>1 DEF Numbered
  <2>3. QED
    BY <1>1, <2>1, <2>2, OrderStays
<1>2. CASE /\ req[r].pc = "commit"
           /\ req'[r].number = req[r].number /\ req'[r].user = req[r].user
           /\ req'[r].kind = req[r].kind /\ req[r].number \in Numbers
           /\ orders'[req[r].number] = req[r].order
  <2>1. /\ req[r].order \in Order /\ req[r].order.user = req[r].user
        /\ req[r].order.type = "INCOME" <=> req[r].kind = "upload"
    BY <1>2 DEF TypeInv, RequestsReady, RequestReady, RequestKinds, UploadsNew
  <2>2. req[r].order # None
    BY <2>1, NoneAssumption
  <2>3. QED
    BY <1>2, <2>1, <2>2
<1>3. QED
  BY <1>1, <1>2, AcceptedNow

\* No two requests are accepted for one number.
LEMMA AcceptedOnce ==
  ASSUME ReceiptInv, [Next]_vars, NEW r \in Requests, NEW q \in Requests,
         Accepted(r)', Accepted(q)', req'[r].number = req'[q].number
  PROVE  r = q
<1> USE DEF ReceiptInv, KindInv
<1>1. ASSUME NEW x \in Requests, NEW y \in Requests, req'[x].number = req'[y].number,
             Accepted(x), req'[x] = req[x],
             orders[req[y].number] = None, req'[y].number = req[y].number
      PROVE  FALSE
  BY <1>1 DEF Receipts
<1>2. ASSUME req[r].pc = "commit", req[q].pc = "commit", req[r].number = req[q].number
      PROVE  r = q
  BY <1>2 DEF KeysHeld
<1>3. CASE Accepted(r) /\ req'[r] = req[r] /\ Accepted(q) /\ req'[q] = req[q]
  BY <1>3 DEF Receipts
<1>4. QED
  BY <1>1, <1>2, <1>3, AcceptedNow

\* A number in other hands stays in other hands.
LEMMA RefusedStep ==
  ASSUME ReceiptInv, [Next]_vars, NEW r \in Requests, Refused(r)'
  PROVE  /\ req'[r].number \in Numbers
         /\ orders'[req'[r].number] # None
         /\ orders'[req'[r].number].user # req'[r].user
<1> USE DEF ReceiptInv, KindInv
<1>1. CASE req'[r] = req[r]
  <2>1. /\ req[r].number \in Numbers /\ orders[req[r].number] # None
        /\ orders[req[r].number].user # req[r].user
    BY <1>1 DEF Refused, Numbered, Receipts
  <2>2. QED
    BY <1>1, <2>1, OrderStays
<1>2. CASE /\ req'[r].number \in Numbers /\ orders[req'[r].number] # None
           /\ orders[req'[r].number].user # req'[r].user
  BY <1>2, OrderStays
<1>3. req'[r].kind = "upload" /\ req'[r].code = "409" /\ req'[r].code # None
  BY ConstantsAssumption DEF Refused, Codes
<1>4. ASSUME NEW code \in {"200", "202"}, req'[r] = Ended(req[r], code) PROVE FALSE
  <2>1. req'[r].code = code
    BY <1>4, EndedType DEF TypeInv, TypeOK, Codes
  <2>2. QED
    BY <1>3, <2>1
<1>5. QED
  BY <1>1, <1>2, <1>3, <1>4, Outcomes

LEMMA ReceiptInit == Init => ReceiptInv
<1> SUFFICES ASSUME Init PROVE ReceiptInv
  OBVIOUS
<1>1. \A r \in Requests : req[r].code = None /\ req[r].pc = "new"
  BY DEF Init, NewRequest
<1>2. \A n \in Numbers : orders[n] = None
  BY DEF Init
<1>3. \A r \in Requests : ~Accepted(r) /\ ~Refused(r)
  BY <1>1, ConstantsAssumption DEF Accepted, Refused, Codes
<1>4. CopyUsers
  BY DEF Init, CopyUsers, IdleWorker, Holding
<1>5. Receipts
  BY <1>2, <1>3 DEF Receipts, Refused
<1>6. QED
  BY <1>1, <1>3, <1>4, <1>5, KindInit DEF ReceiptInv, UploadsNew, CodesEnd, Numbered

LEMMA ReceiptStep == ReceiptInv /\ [Next]_vars => ReceiptInv'
<1> SUFFICES ASSUME ReceiptInv, [Next]_vars PROVE ReceiptInv'
  OBVIOUS
<1>1. KindInv' /\ UploadsNew' /\ CopyUsers' /\ CodesEnd'
  BY KindStep, UploadsNewStep, CopyUsersStep, CodesEndStep DEF ReceiptInv
<1>2. Numbered'
  BY AcceptedRows, RefusedStep DEF Numbered
<1>3. Receipts'
  <2>1. ASSUME NEW n \in Numbers, orders'[n] # None
        PROVE  \E r \in Requests : Accepted(r)' /\ req'[r].number = n
    BY <2>1, RowsAccepted
  <2>2. ASSUME NEW r \in Requests, Accepted(r)'
        PROVE  /\ orders'[req'[r].number] # None
               /\ orders'[req'[r].number].user = req'[r].user
               /\ orders'[req'[r].number].type = "INCOME" <=> req'[r].kind = "upload"
    BY <2>2, AcceptedRows
  <2>3. ASSUME NEW r \in Requests, req'[r].kind = "upload", req'[r].code = "409"
        PROVE  /\ orders'[req'[r].number] # None
               /\ orders'[req'[r].number].user # req'[r].user
    BY <2>3, RefusedStep DEF Refused
  <2>4. QED
    BY <2>1, <2>2, <2>3, AcceptedOnce DEF Receipts
<1>4. QED
  BY <1>1, <1>2, <1>3 DEF ReceiptInv

\* Clients are told the truth about what was stored: Receipts, in every
\* interleaving of uploads, withdrawals, background jobs and crashes.
THEOREM ReceiptsAlways == Spec => []Receipts
<1>1. Init => ReceiptInv
  BY ReceiptInit
<1>2. ReceiptInv /\ [Next]_vars => ReceiptInv'
  BY ReceiptStep
<1>3. ReceiptInv => Receipts
  BY DEF ReceiptInv
<1>4. QED
  BY <1>1, <1>2, <1>3, PTL DEF Spec

\* Only uploads and withdrawals are accepted.
AcceptedKinds == \A r \in Requests : Accepted(r) => req[r].kind \in {"upload", "withdraw"}

LEMMA AcceptedKindsStep ==
  ASSUME ReceiptInv, AcceptedKinds, [Next]_vars PROVE AcceptedKinds'
<1> SUFFICES ASSUME NEW r \in Requests, Accepted(r)'
             PROVE  req'[r].kind \in {"upload", "withdraw"}
  BY DEF AcceptedKinds
<1>1. CASE Accepted(r) /\ req'[r] = req[r]
  BY <1>1 DEF AcceptedKinds
<1>2. CASE req'[r].kind = req[r].kind /\ (EnqueueJob(r) \/ SaveBalance(r))
  BY <1>2 DEF EnqueueJob, SaveBalance
<1>3. QED
  BY <1>1, <1>2, AcceptedNow

\* The rows of a user are those their accepted requests were for.
LEMMA RowsTold ==
  ASSUME ReceiptInv, AcceptedKinds, NEW u \in Users, NEW n \in Numbers
  PROVE  /\ orders[n] # None /\ orders[n].user = u
            <=> \E r \in Requests : Accepted(r) /\ req[r].user = u /\ req[r].number = n
                                    /\ req[r].kind \in {"upload", "withdraw"}
         /\ orders[n] # None /\ orders[n].user = u /\ orders[n].type = "OUTCOME"
            <=> \E r \in Requests : Accepted(r) /\ req[r].user = u /\ req[r].number = n
                                    /\ req[r].kind = "withdraw"
<1> USE DEF ReceiptInv, KindInv
<1>1. ASSUME NEW r \in Requests, Accepted(r), req[r].number = n
      PROVE  /\ orders[n] # None /\ orders[n].user = req[r].user
             /\ req[r].kind \in {"upload", "withdraw"}
             /\ orders[n].type = "OUTCOME" <=> req[r].kind = "withdraw"
  <2>1. /\ orders[n] # None /\ orders[n].user = req[r].user
        /\ orders[n].type = "INCOME" <=> req[r].kind = "upload"
    BY <1>1 DEF Receipts
  <2>2. orders[n].type \in {"INCOME", "OUTCOME"}
    BY <2>1 DEF TypeInv, TypeOK, Order, OrderTypes
  <2>3. QED
    BY <1>1, <2>1, <2>2 DEF AcceptedKinds
<1>2. ASSUME orders[n] # None
      PROVE  \E r \in Requests : Accepted(r) /\ req[r].number = n
  BY <1>2 DEF Receipts
<1>3. QED
  BY <1>1, <1>2

\* Clients find in the listings (orderEndpoints.getOrders and
\* balanceEndpoints.getWithdrawals over OrderRepo.GetAll) what they were told
\* was stored, and nothing that they did not have accepted.
THEOREM WritesAlwaysRead == Spec => []ReadYourWrites
<1> DEFINE Inv == ReceiptInv /\ AcceptedKinds
<1>1. Init => Inv
  BY ReceiptInit, ConstantsAssumption DEF Init, AcceptedKinds, Accepted, NewRequest, Codes
<1>2. Inv /\ [Next]_vars => Inv'
  BY ReceiptStep, AcceptedKindsStep
<1>3. Inv => ReadYourWrites
  <2> SUFFICES ASSUME Inv, NEW u \in Users
               PROVE  /\ AcceptedOf(u, "upload") \subseteq DOMAIN GetOrders(u).shown
                      /\ DOMAIN GetOrders(u).shown
                            \subseteq AcceptedOf(u, "upload") \cup AcceptedOf(u, "withdraw")
                      /\ DOMAIN GetWithdrawals(u).shown = AcceptedOf(u, "withdraw")
                      /\ GetWithdrawals(u).code = "204" <=> AcceptedOf(u, "withdraw") = {}
    BY Zenon DEF ReadYourWrites
  <2>1. \A r \in Requests : Accepted(r) => req[r].number \in Numbers
    BY DEF ReceiptInv, Numbered
  <2>2. GetAll(Unfiltered, u) = {n \in Numbers : orders[n] # None /\ orders[n].user = u}
    BY UnfilteredAssumption DEF GetAll
  <2>3. GetAll("OUTCOME", u) = {n \in Numbers :
            orders[n] # None /\ orders[n].user = u /\ orders[n].type = "OUTCOME"}
    BY UnfilteredAssumption DEF GetAll, Unfiltered
  <2>4. GetAll(Unfiltered, u) = AcceptedOf(u, "upload") \cup AcceptedOf(u, "withdraw")
    BY <2>1, <2>2, RowsTold DEF AcceptedOf
  <2>5. GetAll("OUTCOME", u) = AcceptedOf(u, "withdraw")
    BY <2>1, <2>3, RowsTold DEF AcceptedOf
  <2>6. /\ DOMAIN GetOrders(u).shown = GetAll(Unfiltered, u)
        /\ DOMAIN GetWithdrawals(u).shown = GetAll("OUTCOME", u)
        /\ GetWithdrawals(u).code = "204" <=> GetAll("OUTCOME", u) = {}
    BY DEF GetOrders, GetWithdrawals, Listing
  <2>7. QED
    BY <2>4, <2>5, <2>6
<1>4. QED
  BY <1>1, <1>2, <1>3, PTL DEF Spec
-----------------------------------------------------------------------------
(* Listings advance.                                                       *)

\* While nobody else has its job, a worker's copy of an order is as the row
\* was when it was read, and the row is still open when the copy is updated.
Fresh ==
    \A w \in Workers :
        /\ wrk[w].pc = "ask" => wrk[w].order.status = orders[wrk[w].number].status
        /\ wrk[w].pc \in {"credit", "order", "balance", "job"} =>
              ~Final(orders[wrk[w].number].status) /\ wrk[w].order.status # "NEW"

\* The accrual system decides for INVALID, or grants an amount.
VerdictsMade ==
    \A n \in Numbers : verdicts[n] # None =>
        \/ verdicts[n].status = "INVALID" /\ verdicts[n].accrual = 0
        \/ verdicts[n].status = "PROCESSED" /\ verdicts[n].accrual \in Accruals

LEMMA AnswerCases ==
  ASSUME VerdictsMade, NEW n \in Numbers, NEW answer \in Answers(n)
  PROVE  \/ answer.status \in {"PROCESSING", "INVALID"} /\ answer.accrual = 0
         \/ answer.status = "PROCESSED" /\ answer.accrual \in Accruals
BY DEF VerdictsMade, Answers

LEMMA VerdictsMadeStep ==
  ASSUME TypeInv, VerdictsMade, [Next]_vars PROVE VerdictsMade'
<1>1. ASSUME NEW w \in Workers, AskAccrual(w) PROVE VerdictsMade'
  <2>1. PICK answer \in Answers(wrk[w].number) :
          verdicts' = [verdicts EXCEPT ![wrk[w].number] =
                          IF Final(answer.status) THEN answer ELSE @]
    BY <1>1 DEF AskAccrual
  <2>2. wrk[w].number \in Numbers /\ verdicts \in [Numbers -> Answer \cup {None}]
    BY <1>1 DEF AskAccrual, TypeInv, TypeOK, WorkersReady, WorkerReady
  <2>3. Final(answer.status) =>
          \/ answer.status = "INVALID" /\ answer.accrual = 0
          \/ answer.status = "PROCESSED" /\ answer.accrual \in Accruals
    BY <2>1, <2>2, AnswerCases DEF Final
  <2>4. QED
    BY <2>1, <2>2, <2>3 DEF VerdictsMade
<1>2. ASSUME UNCHANGED verdicts PROVE VerdictsMade'
  BY <1>2 DEF VerdictsMade
<1>3. ASSUME NEW w \in Workers, WorkerAction(w), ~AskAccrual(w) PROVE UNCHANGED verdicts
  BY <1>3 DEF WorkerAction, WorkerStep, FetchJob, ReadOrder, TooManyRequests, ReadBalance,
              UpdateOrder, UpdateBalance, UpdateJob, AbortHandle, FailJob
<1>4. CASE FixAction \/ Crash \/ UNCHANGED vars
  BY <1>2, <1>4 DEF FixAction, FixProcessingTimeout, Crash, vars
<1>5. QED
  BY <1>1, <1>2, <1>3, <1>4, StepCases, RequestActionFrame

\* Only its worker changes an order in hand, and lets go of it with that.
LEMMA HeldOrderStays ==
  ASSUME HolderInv, [Next]_vars, NEW w \in Workers, wrk[w].pc # "idle", ~UpdateJob(w)
  PROVE  orders'[wrk[w].number] = orders[wrk[w].number]
<1> USE DEF HolderInv, KindInv
<1>1. wrk[w].number \in Numbers /\ orders[wrk[w].number] # None
  BY DEF TypeInv, WorkersReady, WorkerReady
<1>2. ASSUME NEW q \in Requests, EnqueueJob(q) \/ SaveBalance(q),
             req[q].number = wrk[w].number
      PROVE  FALSE
  BY <1>1, <1>2 DEF EnqueueJob, SaveBalance, KeysHeld
<1>3. ASSUME NEW v \in Workers, UpdateJob(v), wrk[v].number = wrk[w].number PROVE FALSE
  BY <1>3 DEF OneHolder
<1>4. QED
  BY <1>1, <1>2, <1>3, OrderFrame

LEMMA FreshStep ==
  ASSUME HolderInv, VerdictsMade, Fresh, [Next]_vars PROVE Fresh'
<1> SUFFICES ASSUME NEW w \in Workers,
                    wrk'[w].pc \in {"ask", "credit", "order", "balance", "job"}
             PROVE  /\ wrk'[w].pc = "ask" =>
                          wrk'[w].order.status = orders'[wrk'[w].number].status
                    /\ wrk'[w].pc # "ask" =>
                          /\ ~Final(orders'[wrk'[w].number].status)
                          /\ wrk'[w].order.status # "NEW"
  BY DEF Fresh
<1> USE DEF HolderInv, KindInv
<1>1. wrk \in [Workers -> WorkerState]
  BY DEF TypeInv, TypeOK
<1>2. IdleWorker.pc = "idle" /\ \A n \in Numbers, pc \in {"read", "fail"} : Holding(pc, n).pc = pc
  BY DEF IdleWorker, Holding
<1>3. ~UpdateJob(w)
  BY <1>1, <1>2 DEF UpdateJob
<1>4. wrk[w].pc # "idle" =>
        /\ orders'[wrk[w].number] = orders[wrk[w].number]
        /\ wrk[w].number \in Numbers
  BY <1>3, HeldOrderStays DEF TypeInv, WorkersReady, WorkerReady
<1>5. CASE wrk'[w] = wrk[w]
  BY <1>4, <1>5 DEF Fresh
<1>6. CASE ReadOrder(w)
  <2>1. /\ wrk[w].pc = "read" /\ wrk'[w].pc = "ask" /\ wrk'[w].number = wrk[w].number
        /\ wrk'[w].order = orders[wrk[w].number]
    BY <1>1, <1>6 DEF ReadOrder, WorkerState
  <2>2. QED
    BY <1>4, <2>1
<1>7. ASSUME wrk[w].pc = "ask", ~Final(wrk[w].order.status),
             NEW answer \in Answers(wrk[w].number), wrk'[w] = Informed(wrk[w], answer)
      PROVE  /\ wrk'[w].pc # "ask"
             /\ ~Final(orders'[wrk'[w].number].status)
             /\ wrk'[w].order.status # "NEW"
  <2>1. wrk[w].order \in Order
    BY <1>7 DEF TypeInv, WorkersReady, WorkerReady
  <2>2. /\ wrk'[w].number = wrk[w].number /\ wrk'[w].pc # "ask"
        /\ wrk'[w].order = OrderUpdated(wrk[w].order, answer)
    BY <1>1, <1>7 DEF Informed, WorkerState
  <2>3. OrderUpdated(wrk[w].order, answer).status = answer.status
    BY <2>1 DEF OrderUpdated, Order
  <2>4. answer.status # "NEW"
    BY <1>4, <1>7, AnswerCases
  <2>5. QED
    BY <1>4, <1>7, <2>2, <2>3, <2>4 DEF Fresh
<1>8. CASE ReadBalance(w) /\ CanApply(VisibleBalance(wrk[w].seen, wrk[w].order.user),
                                      wrk[w].order)
  <2>1. PICK b : wrk[w].pc = "credit" /\ wrk'[w] = [wrk[w] EXCEPT !.pc = "order", !.balance = b]
    BY <1>1, <1>8 DEF ReadBalance
  <2>2. /\ wrk'[w].number = wrk[w].number /\ wrk'[w].order = wrk[w].order
        /\ wrk'[w].pc = "order"
    BY <1>1, <2>1 DEF WorkerState
  <2>3. QED
    BY <1>4, <2>1, <2>2 DEF Fresh
<1>9. ASSUME wrk[w].pc \in {"order", "balance"}, NEW pc \in {"balance", "job"},
             wrk'[w] = [wrk[w] EXCEPT !.pc = pc]
      PROVE  /\ wrk'[w].pc # "ask"
             /\ ~Final(orders'[wrk'[w].number].status)
             /\ wrk'[w].order.status # "NEW"
  <2>1. /\ wrk'[w].number = wrk[w].number /\ wrk'[w].order = wrk[w].order
        /\ wrk'[w].pc = pc
    BY <1>1, <1>9 DEF WorkerState
  <2>2. QED
    BY <1>4, <1>9, <2>1 DEF Fresh
<1>10. ~ (wrk'[w] = IdleWorker \/ \E n \in Numbers : wrk'[w] = Holding("read", n))
  BY <1>2
<1>11. ~ (wrk[w].pc # "idle" /\ wrk'[w] \in {Holding("read", wrk[w].number),
                                            Holding("fail", wrk[w].number)})
  BY <1>2, <1>4
<1>12. QED
  BY <1>5, <1>6, <1>7, <1>8, <1>9, <1>10, <1>11, WorkerCases

\* What a client finds in its list now it finds there after the step.
LEMMA ListingStep ==
  ASSUME HolderInv, CopyUsers, Fresh, [Next]_vars,
         NEW u \in Users, NEW n \in DOMAIN GetOrders(u).shown
  PROVE  LET before == GetOrders(u).shown
             after == GetOrders(u).shown'
         IN  /\ n \in DOMAIN after
             /\ Rank(before[n].status) <= Rank(after[n].status)
             /\ Final(before[n].status) => after[n] = before[n]
<1> USE DEF HolderInv, KindInv
<1>1. /\ GetOrders(u).shown = [m \in GetAll(Unfiltered, u) |-> OrderResponse(m)]
      /\ GetOrders(u).shown' = [m \in GetAll(Unfiltered, u)' |-> OrderResponse(m)']
  BY DEF GetOrders, Listing
<1>2. /\ n \in Numbers /\ orders[n] # None /\ orders[n] \in Order
      /\ u \in {Unfiltered, orders[n].user}
  BY <1>1 DEF GetAll, TypeInv, TypeOK
<1>3. orders'[n] # None /\ orders'[n].user = orders[n].user
  BY <1>2, OrderStays
<1>4. n \in GetAll(Unfiltered, u)'
  BY <1>2, <1>3 DEF GetAll
<1>5. /\ GetOrders(u).shown[n] = OrderResponse(n)
      /\ GetOrders(u).shown'[n] = OrderResponse(n)'
      /\ n \in DOMAIN GetOrders(u).shown'
  BY <1>1, <1>4
<1>6. OrderResponse(n).status = orders[n].status /\ OrderResponse(n)'.status = orders'[n].status
  BY DEF OrderResponse
<1>7. CASE orders'[n] = orders[n]
  <2>1. OrderResponse(n)' = OrderResponse(n)
    BY <1>7 DEF OrderResponse
  <2>2. Rank(orders[n].status) <= Rank(orders[n].status)
    BY <1>2 DEF Order, OrderStatuses, Rank
  <2>3. QED
    BY <1>5, <1>6, <1>7, <2>1, <2>2
<1>8. ASSUME NEW r \in Requests, EnqueueJob(r) \/ SaveBalance(r), req[r].number = n PROVE FALSE
  BY <1>2, <1>8 DEF EnqueueJob, SaveBalance, KeysHeld
<1>9. ASSUME NEW w \in Workers, UpdateJob(w), wrk[w].number = n
      PROVE  ~Final(orders[n].status) /\ Rank(orders[n].status) <= Rank(orders'[n].status)
  <2>1. ~Final(orders[n].status) /\ wrk[w].order.status # "NEW" /\ wrk[w].order \in Order
    BY <1>9 DEF UpdateJob, Fresh, TypeInv, WorkersReady, WorkerReady
  <2>2. orders'[n] = OrderRow(wrk[w].order)
    BY <1>2, <1>9 DEF UpdateJob, TypeInv, TypeOK
  <2>3. orders'[n].status = wrk[w].order.status
    BY <2>1, <2>2 DEF OrderRow, Order
  <2>4. QED
    BY <1>2, <2>1, <2>3 DEF Order, OrderStatuses, Rank, Final
<1>10. QED
  BY <1>2, <1>5, <1>6, <1>7, <1>8, <1>9, OrderFrame

\* While no lease is overtaken, a client that lists its orders again
\* (orderEndpoints.getOrders over OrderRepo.GetAll) finds all of them no less
\* advanced, and those in a final status as they were.
THEOREM ListingsAlwaysAdvance == ASSUME MaxOvertakes = 0 PROVE Spec => ListingsAdvance
<1> DEFINE Inv == HolderInv /\ CopyUsers /\ VerdictsMade /\ Fresh
<1>1. Init => Inv
  BY KindInit DEF Init, HolderInv, IdleEmpty, OneHolder, IdleWorker, Holding, CopyUsers,
                  VerdictsMade, Fresh
<1>2. Inv /\ [Next]_vars => Inv'
  BY KindStep, IdleEmptyStep, OneHolderStep, CopyUsersStep, VerdictsMadeStep, FreshStep
     DEF HolderInv, KindInv
<1>3. Inv /\ [Next]_vars =>
        [\A u \in Users :
            LET before == GetOrders(u).shown
                after == GetOrders(u).shown'
            IN  \A n \in DOMAIN before :
                    /\ n \in DOMAIN after
                    /\ Rank(before[n].status) <= Rank(after[n].status)
                    /\ Final(before[n].status) => after[n] = before[n]]_vars
  BY ListingStep
<1> HIDE DEF Inv
<1>4. QED
  BY <1>1, <1>2, <1>3, PTL DEF Spec, ListingsAdvance
=============================================================================
