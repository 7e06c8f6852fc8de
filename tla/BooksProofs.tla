---------------------------- MODULE BooksProofs -----------------------------
(***************************************************************************)
(* Theorems about money in Gophermart, for any number of users, numbers,   *)
(* requests and workers: what balances, the rows of table orders, the      *)
(* accrual system's answers and the listings say of each other.  Where Unit *)
(* is 1 in a theorem, amounts are whole cents.                             *)
(***************************************************************************)
EXTENDS GophermartProofs, SumTheorems

-----------------------------------------------------------------------------
(* Balances and books, where amounts are whole cents.  A balance is        *)
(* overwritten with a copy that may be stale by then, so the invariant     *)
(* bounds every copy in flight: by the books of its user, which only grow, *)
(* plus the amount that is entered in them when the copy is saved.         *)

\* No balance shows more than what was ever added to it, an order that was
\* credited twice counted twice, or more withdrawn than ever was: an update
\* that is lost only takes away.
BalancesBooked ==
    \A u \in Users :
        /\ balances[u].current + balances[u].withdrawn <= books[u].earned
        /\ balances[u].withdrawn <= books[u].spent

Bounded(u, b, toEarn, toSpend) ==
    /\ b.current + b.withdrawn <= books[u].earned + toEarn
    /\ b.withdrawn <= books[u].spent + toSpend

RequestBounded(q) ==
    q.pc \in {"insert", "commit"} /\ q.kind = "withdraw" =>
        Bounded(q.user, q.balance, 0, q.order.amount)

WorkerBounded(x) ==
    /\ x.balance # None =>
        /\ x.pc \in {"order", "balance", "job"}
        /\ Bounded(x.order.user, x.balance, x.order.amount, 0)
    /\ x.seen # None =>
        /\ x.pc \in {"ask", "credit", "order", "balance", "job"}
        /\ Bounded(x.order.user, x.seen.balance, 0, 0)

RequestsBounded == \A r \in Requests : RequestBounded(req[r])
WorkersBounded  == \A w \in Workers : WorkerBounded(wrk[w])

BoundInv == TypeInv /\ BalancesBooked /\ RequestsBounded /\ WorkersBounded

\* The books of a user only grow, so a copy stays bounded.
LEMMA BoundedGrows ==
  ASSUME TypeInv, TypeInv', NEW u \in Users, NEW b \in Balance, NEW e \in Int, NEW s \in Int,
         Bounded(u, b, e, s),
         books'[u].earned >= books[u].earned, books'[u].spent >= books[u].spent
  PROVE  /\ b.current + b.withdrawn <= books'[u].earned + e
         /\ b.withdrawn <= books'[u].spent + s
<1>1. /\ books[u].earned \in Nat /\ books[u].spent \in Nat
      /\ books'[u].earned \in Nat /\ books'[u].spent \in Nat
      /\ b.current \in Nat /\ b.withdrawn \in Nat
  BY DEF TypeInv, TypeOK, Balance
<1>2. QED
  BY <1>1 DEF Bounded

\* No step takes anything out of the books.
LEMMA BooksGrow ==
  ASSUME TypeInv, [Next]_vars, NEW u \in Users
  PROVE  books'[u].earned >= books[u].earned /\ books'[u].spent >= books[u].spent
<1>1. books[u].earned \in Nat /\ books[u].spent \in Nat
  BY DEF TypeInv, TypeOK
<1>2. ASSUME books' = books
      PROVE  books'[u].earned >= books[u].earned /\ books'[u].spent >= books[u].spent
  BY <1>1, <1>2
<1>3. ASSUME NEW r \in Requests, SaveBalance(r)
      PROVE  books'[u].earned >= books[u].earned /\ books'[u].spent >= books[u].spent
  <2> DEFINE v == req[r].user
             a == req[r].order.amount
  <2>1. v \in Users /\ a \in Nat
    BY <1>3 DEF SaveBalance, TypeInv, RequestsReady, RequestReady, Order
  <2>2. books' = [books EXCEPT ![v].spent = @ + a]
    BY <1>3 DEF SaveBalance
  <2> HIDE DEF v, a
  <2>3. QED
    BY <1>1, <2>1, <2>2 DEF TypeInv, TypeOK
<1>4. ASSUME NEW w \in Workers, UpdateJob(w)
      PROVE  books'[u].earned >= books[u].earned /\ books'[u].spent >= books[u].spent
  <2> DEFINE o == OrderRow(wrk[w].order)
             v == o.user
             a == o.amount
  <2>1. wrk[w].order \in Order /\ wrk[w].order.amount >= 0
    BY <1>4 DEF UpdateJob, TypeInv, WorkersReady, WorkerReady
  <2>2. v \in Users /\ a \in Nat
    BY <2>1, OrderRowType DEF Order
  <2>3. books' = [books EXCEPT ![v].earned = @ + a] \/ books' = books
    BY <1>4 DEF UpdateJob
  <2> HIDE DEF v, a
  <2>4. QED
    BY <1>1, <2>2, <2>3 DEF TypeInv, TypeOK
<1>5. QED
  BY <1>2, <1>3, <1>4
     DEF Next, RequestStep, WorkerStep, vars, PostOrder, PostWithdraw, InsertOrder, EnqueueJob,
         AbortRequest, FetchJob, ReadOrder, AskAccrual, TooManyRequests, ReadBalance,
         UpdateOrder, UpdateBalance, AbortHandle, FailJob, FixProcessingTimeout, Crash, NoData

\* A handler that does not move stays bounded.
LEMMA RequestKept ==
  ASSUME TypeInv, TypeInv', [Next]_vars,
         NEW r \in Requests, req'[r] = req[r], RequestBounded(req[r])
  PROVE  RequestBounded(req[r])'
<1>1. SUFFICES ASSUME req[r].pc \in {"insert", "commit"}, req[r].kind = "withdraw"
               PROVE  /\ req[r].balance.current + req[r].balance.withdrawn
                            <= books'[req[r].user].earned + 0
                      /\ req[r].balance.withdrawn
                            <= books'[req[r].user].spent + req[r].order.amount
  BY DEF RequestBounded, Bounded
<1>2. /\ req[r].user \in Users /\ req[r].balance \in Balance /\ req[r].order.amount \in Int
      /\ Bounded(req[r].user, req[r].balance, 0, req[r].order.amount)
  BY <1>1 DEF TypeInv, RequestsReady, RequestReady, RequestBounded, Order
<1>3. QED
  BY <1>2, BooksGrow, BoundedGrows

LEMMA WorkerKept ==
  ASSUME TypeInv, TypeInv', [Next]_vars,
         NEW w \in Workers, wrk'[w] = wrk[w], WorkerBounded(wrk[w])
  PROVE  WorkerBounded(wrk[w])'
<1> DEFINE x == wrk[w]
<1>1. ASSUME x.balance # None
      PROVE  /\ x.balance.current + x.balance.withdrawn
                    <= books'[x.order.user].earned + x.order.amount
             /\ x.balance.withdrawn <= books'[x.order.user].spent + 0
  <2>1. /\ x.order.user \in Users /\ x.balance \in Balance /\ x.order.amount \in Int
        /\ Bounded(x.order.user, x.balance, x.order.amount, 0)
    BY <1>1 DEF TypeInv, TypeOK, WorkersReady, WorkerReady, WorkerBounded, WorkerState, Order
  <2>2. QED
    BY <2>1, BooksGrow, BoundedGrows
<1>2. ASSUME x.seen # None
      PROVE  /\ x.seen.balance.current + x.seen.balance.withdrawn
                    <= books'[x.order.user].earned + 0
             /\ x.seen.balance.withdrawn <= books'[x.order.user].spent + 0
  <2>1. /\ x.order.user \in Users /\ x.seen.balance \in Balance
        /\ Bounded(x.order.user, x.seen.balance, 0, 0)
    BY <1>2 DEF TypeInv, TypeOK, WorkersReady, WorkerReady, WorkerBounded, WorkerState,
                Snapshot, Order
  <2> DEFINE u == x.order.user
             b == x.seen.balance
  <2>2. 0 \in Int /\ u \in Users /\ b \in Balance /\ Bounded(u, b, 0, 0)
    BY <2>1
  <2> HIDE DEF u, b
  <2>3. b.current + b.withdrawn <= books'[u].earned + 0 /\ b.withdrawn <= books'[u].spent + 0
    BY <2>2, BooksGrow, BoundedGrows
  <2>4. QED
    BY <2>3 DEF u, b
<1>3. QED
  BY <1>1, <1>2 DEF WorkerBounded, Bounded

\* Applying an order to a bounded balance gives a bounded copy.
LEMMA AppliedBounded ==
  ASSUME Unit = 1, TypeInv, NEW u \in Users, NEW b \in Balance, Bounded(u, b, 0, 0),
         NEW o \in Order, CanApply(b, o)
  PROVE  /\ o.type = "INCOME" => Bounded(u, BalanceRow(Applied(b, o)), o.amount, 0)
         /\ o.type = "OUTCOME" => Bounded(u, BalanceRow(Applied(b, o)), 0, o.amount)
<1>1. /\ b.current \in Nat /\ b.withdrawn \in Nat /\ o.amount \in Nat
      /\ books[u].earned \in Nat /\ books[u].spent \in Nat
  BY DEF Balance, Order, CanApply, TypeInv, TypeOK
<1>2. /\ BalanceRow(Applied(b, o)).current = Applied(b, o).current
      /\ BalanceRow(Applied(b, o)).withdrawn = Applied(b, o).withdrawn
  <2>1. Applied(b, o).current \in Nat /\ Applied(b, o).withdrawn \in Nat
    BY AppliedType DEF Balance
  <2>2. QED
    BY <2>1, RoundIdentity DEF BalanceRow
<1>3. CASE o.type = "INCOME"
  <2>1. Applied(b, o).current = b.current + o.amount /\ Applied(b, o).withdrawn = b.withdrawn
    BY <1>3 DEF Applied, Balance
  <2>2. QED
    BY <1>1, <1>2, <1>3, <2>1 DEF Bounded
<1>4. CASE o.type = "OUTCOME"
  <2>1. /\ Applied(b, o).current = b.current - o.amount
        /\ Applied(b, o).withdrawn = b.withdrawn + o.amount
    BY <1>4 DEF Applied
  <2>2. QED
    BY <1>1, <1>2, <1>4, <2>1 DEF Bounded
<1>5. QED
  BY <1>3, <1>4 DEF Order, OrderTypes

LEMMA BookedBounded ==
  ASSUME BoundInv, NEW u \in Users
  PROVE  Bounded(u, balances[u], 0, 0)
<1>1. /\ balances[u].current \in Nat /\ balances[u].withdrawn \in Nat
      /\ books[u].earned \in Nat /\ books[u].spent \in Nat
  BY DEF BoundInv, TypeInv, TypeOK, Balance
<1>2. QED
  BY <1>1 DEF BoundInv, BalancesBooked, Bounded

LEMMA RequestsBoundedStep ==
  ASSUME Unit = 1, BoundInv, TypeInv', [Next]_vars
  PROVE  RequestsBounded'
<1> SUFFICES ASSUME NEW r \in Requests PROVE RequestBounded(req[r])'
  BY DEF RequestsBounded
<1>1. CASE req'[r] = req[r]
  BY <1>1, RequestKept DEF BoundInv, RequestsBounded
<1>2. ASSUME NEW q \in RequestState, NEW code \in Codes \cup {None}, req'[r] = Ended(q, code)
      PROVE  RequestBounded(req[r])'
  BY <1>2, EndedType DEF RequestBounded
<1>3. ASSUME NEW u \in Users, NEW n \in Numbers, PostOrder(r, u, n)
      PROVE  RequestBounded(req[r])'
  <2> DEFINE posted == [NewRequest EXCEPT !.kind = "upload", !.user = u, !.number = n]
  <2>1. posted \in RequestState /\ "422" \in Codes /\ Taken(n, u) \in Codes
    BY DEF RequestState, NewRequest, Snapshot, Codes, Taken
  <2>2. CASE n \notin ValidNumbers
    BY <1>2, <1>3, <2>1, <2>2 DEF PostOrder, BoundInv, TypeInv, TypeOK
  <2>3. CASE n \in ValidNumbers /\ orders[n] # None
    BY <1>2, <1>3, <2>1, <2>3 DEF PostOrder, BoundInv, TypeInv, TypeOK
  <2>4. CASE n \in ValidNumbers /\ orders[n] = None
    <3>1. req'[r] = [posted EXCEPT !.pc = "insert", !.order = OrderRow(NewIncomeOrder(u))]
      BY <1>3, <2>4 DEF PostOrder, BoundInv, TypeInv, TypeOK
    <3>2. req'[r].kind = "upload"
      BY <3>1 DEF NewRequest
    <3>3. QED
      BY <3>2 DEF RequestBounded
  <2>5. QED
    BY <2>2, <2>3, <2>4
<1>4. ASSUME NEW u \in Users, NEW n \in Numbers, NEW sum \in Sums, PostWithdraw(r, u, n, sum)
      PROVE  RequestBounded(req[r])'
  <2> DEFINE posted == [NewRequest EXCEPT !.kind = "withdraw", !.user = u, !.number = n]
             o == NewOutcomeOrder(u, sum)
  <2>1. posted \in RequestState /\ "422" \in Codes /\ "402" \in Codes
    BY DEF RequestState, NewRequest, Snapshot, Codes
  <2>2. CASE n \notin ValidNumbers \/ BadAmount(sum)
    BY <1>2, <1>4, <2>1, <2>2 DEF PostWithdraw, BoundInv, TypeInv, TypeOK
  <2>3. CASE ~(n \notin ValidNumbers \/ BadAmount(sum)) /\ ~CanApply(balances[u], o)
    BY <1>2, <1>4, <2>1, <2>3 DEF PostWithdraw, BoundInv, TypeInv, TypeOK
  <2>4. CASE ~(n \notin ValidNumbers \/ BadAmount(sum)) /\ CanApply(balances[u], o)
    <3> DEFINE b == BalanceRow(Applied(balances[u], o))
    <3>1. req'[r] = [posted EXCEPT !.pc = "insert", !.order = OrderRow(o), !.balance = b,
                                   !.seen = SnapshotOf(n, u)]
      BY <1>4, <2>4 DEF PostWithdraw, BoundInv, TypeInv, TypeOK
    <3>2. req'[r].user = u /\ req'[r].order = OrderRow(o) /\ req'[r].balance = b
      BY <3>1 DEF NewRequest
    <3>3. o \in Order /\ o.type = "OUTCOME" /\ o.amount = sum /\ sum \in Nat
      BY <2>4, NewOutcomeOrderType, ConstantsAssumption DEF BadAmount
    <3>4. OrderRow(o).amount = sum
      BY <3>3, RoundIdentity DEF OrderRow, Order
    <3>5. balances[u] \in Balance /\ Bounded(u, balances[u], 0, 0)
      BY BookedBounded DEF BoundInv, TypeInv, TypeOK
    <3>6. Bounded(u, b, 0, sum)
      BY <2>4, <3>3, <3>5, AppliedBounded DEF BoundInv
    <3>7. books' = books
      BY <1>4 DEF PostWithdraw
    <3> HIDE DEF b, o
    <3>8. QED
      BY <3>2, <3>4, <3>6, <3>7 DEF RequestBounded, Bounded
  <2>5. QED
    BY <2>2, <2>3, <2>4
<1>5. CASE InsertOrder(r)
  <2>1. CASE req'[r] = [req[r] EXCEPT !.pc = "commit"]
    <3>1. /\ req'[r].kind = req[r].kind /\ req'[r].user = req[r].user
          /\ req'[r].order = req[r].order /\ req'[r].balance = req[r].balance
      BY <2>1 DEF BoundInv, TypeInv, TypeOK, RequestState
    <3>2. req[r].pc = "insert" /\ books' = books
      BY <1>5 DEF InsertOrder
    <3>3. RequestBounded(req[r])
      BY DEF BoundInv, RequestsBounded
    <3>4. QED
      BY <3>1, <3>2, <3>3 DEF RequestBounded, Bounded
  <2>2. CASE req'[r] # [req[r] EXCEPT !.pc = "commit"]
    <3>1. \/ req'[r] = Ended(req[r], "200")
          \/ req'[r] = Ended(req[r], "409")
      BY <1>5, <2>2 DEF InsertOrder, Answered, BoundInv, TypeInv, TypeOK
    <3>2. QED
      BY <1>2, <3>1 DEF BoundInv, TypeInv, TypeOK, Codes
  <2>3. QED
    BY <2>1, <2>2
<1>6. CASE EnqueueJob(r) \/ SaveBalance(r) \/ AbortRequest(r)
  <2>1. \E code \in Codes : req'[r] = Ended(req[r], code)
    BY <1>6 DEF EnqueueJob, SaveBalance, AbortRequest, Answered, Codes, BoundInv, TypeInv, TypeOK
  <2>2. QED
    BY <1>2, <2>1 DEF BoundInv, TypeInv, TypeOK
<1>7. CASE Crash
  BY <1>1, <1>2, <1>7 DEF Crash, BoundInv, TypeInv, TypeOK
<1>8. QED
  BY <1>1, <1>3, <1>4, <1>5, <1>6, <1>7, RequestFrame
     DEF BoundInv, RequestAction, RequestStep

\* An update of a worker that keeps what is bounded.
LEMMA WorkersBoundedStep ==
  ASSUME Unit = 1, KindInv, BoundInv, TypeInv', [Next]_vars
  PROVE  WorkersBounded'
<1> SUFFICES ASSUME NEW w \in Workers PROVE WorkerBounded(wrk[w])'
  BY DEF WorkersBounded
<1>1. wrk[w] \in WorkerState /\ WorkerBounded(wrk[w])
  BY DEF BoundInv, WorkersBounded, TypeInv, TypeOK
<1>2. CASE wrk'[w] = wrk[w]
  BY <1>1, <1>2, WorkerKept DEF BoundInv
<1>3. ASSUME wrk'[w].balance = None, wrk'[w].seen = None PROVE WorkerBounded(wrk[w])'
  BY <1>3 DEF WorkerBounded
<1>4. ASSUME NEW pc \in {"idle", "read", "fail"}, NEW n \in Numbers \cup {None},
             wrk'[w] = Holding(pc, n)
      PROVE  WorkerBounded(wrk[w])'
  BY <1>3, <1>4, HoldingType
<1>5. CASE wrk'[w] = IdleWorker
  BY <1>4, <1>5 DEF IdleWorker
<1>6. CASE wrk[w].pc # "idle" /\ wrk'[w] \in {Holding("read", wrk[w].number),
                                             Holding("fail", wrk[w].number)}
  BY <1>4, <1>6 DEF BoundInv, TypeInv, WorkersReady, WorkerReady
<1>7. CASE ReadOrder(w)
  <2> DEFINE n == wrk[w].number
             u == orders[n].user
  <2>1. n \in Numbers /\ u \in Users
    BY <1>7 DEF ReadOrder, BoundInv, TypeInv, TypeOK, WorkersReady, WorkerReady, Order
  <2>2. /\ wrk'[w].pc = "ask" /\ wrk'[w].order = orders[n] /\ wrk'[w].balance = wrk[w].balance
        /\ wrk'[w].seen = SnapshotOf(n, u) /\ books' = books
    BY <1>1, <1>7 DEF ReadOrder, WorkerState, BoundInv, TypeInv, TypeOK
  <2>3. wrk[w].balance = None
    BY <1>1, <1>7 DEF WorkerBounded, ReadOrder
  <2>4. SnapshotOf(n, u) # None => SnapshotOf(n, u).balance = balances[u]
    BY DEF SnapshotOf
  <2>5. Bounded(u, balances[u], 0, 0)
    BY <2>1, BookedBounded
  <2> HIDE DEF n, u
  <2>6. wrk'[w].order.user = u
    BY <2>2 DEF u
  <2>7. QED
    BY <2>2, <2>3, <2>4, <2>5, <2>6 DEF WorkerBounded, Bounded
<1>8. ASSUME wrk[w].pc = "ask", UNCHANGED books, NEW answer \in Answers(wrk[w].number),
             wrk'[w] = Informed(wrk[w], answer)
      PROVE  WorkerBounded(wrk[w])'
  <2>1. /\ wrk'[w].pc \in {"credit", "order"} /\ wrk'[w].balance = wrk[w].balance
        /\ wrk'[w].seen = wrk[w].seen
        /\ wrk'[w].order = OrderUpdated(wrk[w].order, answer)
    BY <1>1, <1>8 DEF Informed, WorkerState
  <2>2. wrk'[w].order.user = wrk[w].order.user
    BY <1>8, <2>1 DEF OrderUpdated, BoundInv, TypeInv, WorkersReady, WorkerReady, Order
  <2>3. wrk[w].balance = None
    BY <1>1, <1>8 DEF WorkerBounded
  <2>4. QED
    BY <1>1, <1>8, <2>1, <2>2, <2>3 DEF WorkerBounded, Bounded
<1>9. CASE /\ ReadBalance(w)
           /\ CanApply(VisibleBalance(wrk[w].seen, wrk[w].order.user), wrk[w].order)
  <2> DEFINE o == wrk[w].order
             u == o.user
             b == VisibleBalance(wrk[w].seen, u)
             c == BalanceRow(Applied(b, o))
  <2>1. o \in Order /\ o.type = "INCOME" /\ u \in Users
    BY <1>9, NoneAssumption
       DEF ReadBalance, BoundInv, TypeInv, WorkersReady, WorkerReady, KindInv, IncomeHeld, Order
  <2>2. wrk' = [wrk EXCEPT ![w] = [@ EXCEPT !.pc = "order", !.balance = c]] /\ books' = books
    BY <1>9 DEF ReadBalance
  <2>3. b \in Balance
    BY <1>1, <2>1, VisibleBalanceType DEF BoundInv, WorkerState
  <2>4. b = IF wrk[w].seen = None THEN balances[u] ELSE wrk[w].seen.balance
    BY DEF VisibleBalance
  <2>5. CanApply(b, o)
    BY <1>9
  <2>6. u = wrk[w].order.user /\ o = wrk[w].order /\ c = BalanceRow(Applied(b, o))
    OBVIOUS
  <2> HIDE DEF o, u, b, c
  <2>7. Bounded(u, b, 0, 0)
    <3>1. Bounded(u, balances[u], 0, 0)
      BY <2>1, BookedBounded
    <3>2. wrk[w].seen # None => Bounded(u, wrk[w].seen.balance, 0, 0)
      BY <1>1, <2>6 DEF WorkerBounded
    <3>3. QED
      BY <2>4, <3>1, <3>2
  <2>8. Bounded(u, c, o.amount, 0)
    BY <2>1, <2>3, <2>5, <2>6, <2>7, AppliedBounded DEF BoundInv
  <2>9. /\ wrk'[w].pc = "order" /\ wrk'[w].order = o /\ wrk'[w].balance = c
        /\ wrk'[w].seen = wrk[w].seen
    BY <1>1, <2>2, <2>6 DEF WorkerState, BoundInv, TypeInv, TypeOK
  <2>10. u = o.user
    BY <2>6
  <2>11. wrk[w].seen # None => Bounded(u, wrk[w].seen.balance, 0, 0)
    BY <1>1, <2>6 DEF WorkerBounded
  <2>12. QED
    BY <2>2, <2>8, <2>9, <2>10, <2>11 DEF WorkerBounded, Bounded
<1>10. ASSUME wrk[w].pc \in {"order", "balance"}, UNCHANGED books, NEW pc \in {"balance", "job"},
              wrk'[w] = [wrk[w] EXCEPT !.pc = pc]
       PROVE  WorkerBounded(wrk[w])'
  <2>1. /\ wrk'[w].pc \in {"balance", "job"} /\ wrk'[w].balance = wrk[w].balance
        /\ wrk'[w].seen = wrk[w].seen /\ wrk'[w].order = wrk[w].order
    BY <1>1, <1>10 DEF WorkerState
  <2>2. QED
    BY <1>1, <1>10, <2>1 DEF WorkerBounded, Bounded
<1>11. TypeInv
  BY DEF BoundInv
<1>12. QED
  BY <1>2, <1>4, <1>5, <1>6, <1>7, <1>8, <1>9, <1>10, <1>11, WorkerCases

\* A saved copy is bounded by books that enter its amount in the same commit.
LEMMA BalancesBookedStep ==
  ASSUME Unit = 1, KindInv, BoundInv, TypeInv', [Next]_vars
  PROVE  BalancesBooked'
<1> SUFFICES ASSUME NEW u \in Users
             PROVE  /\ balances'[u].current + balances'[u].withdrawn <= books'[u].earned
                    /\ balances'[u].withdrawn <= books'[u].spent
  BY DEF BalancesBooked
<1>1. /\ books[u].earned \in Nat /\ books[u].spent \in Nat
      /\ books'[u].earned \in Nat /\ books'[u].spent \in Nat
      /\ balances[u] \in Balance /\ balances'[u] \in Balance
      /\ books \in [Users -> [earned : Nat, spent : Nat]]
      /\ balances \in [Users -> Balance]
  BY DEF BoundInv, TypeInv, TypeOK
<1>2. CASE balances'[u] = balances[u]
  <2>1. 0 \in Int /\ Bounded(u, balances[u], 0, 0)
    BY BookedBounded
  <2>2. /\ balances[u].current + balances[u].withdrawn <= books'[u].earned + 0
        /\ balances[u].withdrawn <= books'[u].spent + 0
    BY <1>1, <2>1, BooksGrow, BoundedGrows DEF BoundInv
  <2>3. QED
    BY <1>1, <1>2, <2>2
<1>3. ASSUME NEW r \in Requests, SaveBalance(r), balances'[u] # balances[u]
      PROVE  /\ balances'[u].current + balances'[u].withdrawn <= books'[u].earned
             /\ balances'[u].withdrawn <= books'[u].spent
  <2> DEFINE a == req[r].order.amount
             b == req[r].balance
  <2>1. req[r].user = u /\ balances'[u] = b
    BY <1>1, <1>3 DEF SaveBalance
  <2>2. a \in Int /\ b \in Balance
    BY <1>3 DEF SaveBalance, BoundInv, TypeInv, RequestsReady, RequestReady, Order
  <2>3. Bounded(u, b, 0, a)
    BY <1>3, <2>1 DEF SaveBalance, BoundInv, RequestsBounded, RequestBounded
  <2>4. books'[u].earned = books[u].earned /\ books'[u].spent = books[u].spent + a
    BY <1>1, <1>3, <2>1 DEF SaveBalance
  <2> HIDE DEF a, b
  <2>5. QED
    BY <1>1, <2>1, <2>2, <2>3, <2>4 DEF Bounded
<1>4. ASSUME NEW w \in Workers, UpdateJob(w), balances'[u] # balances[u]
      PROVE  /\ balances'[u].current + balances'[u].withdrawn <= books'[u].earned
             /\ balances'[u].withdrawn <= books'[u].spent
  <2> DEFINE o == OrderRow(wrk[w].order)
             a == o.amount
             b == wrk[w].balance
  <2>1. wrk[w].order \in Order /\ wrk[w].order.amount \in Nat
    BY <1>4 DEF UpdateJob, BoundInv, TypeInv, WorkersReady, WorkerReady, Order
  <2>2. o.user = wrk[w].order.user /\ a = wrk[w].order.amount
    BY <2>1, RoundIdentity DEF OrderRow, Order
  <2>3. b # None /\ o.user = u /\ balances'[u] = b
    BY <1>1, <1>4 DEF UpdateJob
  <2>4. Bounded(u, b, a, 0)
    BY <2>2, <2>3 DEF BoundInv, WorkersBounded, WorkerBounded
  <2>5. books'[u].earned = books[u].earned + a /\ books'[u].spent = books[u].spent
    BY <1>1, <1>4, <2>3 DEF UpdateJob
  <2> HIDE DEF a, b
  <2>6. QED
    BY <1>1, <2>1, <2>2, <2>3, <2>4, <2>5 DEF Bounded
<1>5. ASSUME FixAction \/ Crash \/ UNCHANGED vars PROVE balances' = balances
  BY <1>5 DEF FixAction, FixProcessingTimeout, Crash, vars, tables
<1>6. ASSUME NEW r \in Requests, EnqueueJob(r) PROVE balances' = balances
  BY <1>6 DEF EnqueueJob
<1>7. QED
  BY <1>2, <1>3, <1>4, <1>5, <1>6, StepCases, RequestActionFrame, WorkerActionFrame DEF BoundInv

LEMMA BoundInit == Init => BoundInv
<1> SUFFICES ASSUME Init PROVE BoundInv
  OBVIOUS
<1>1. BalancesBooked
  <2>1. ASSUME NEW u \in Users
        PROVE  /\ balances[u].current + balances[u].withdrawn <= books[u].earned
               /\ balances[u].withdrawn <= books[u].spent
    <3>1. balances[u].current = 0 /\ balances[u].withdrawn = 0
      BY <2>1 DEF Init, NewBalance
    <3>2. books[u].earned = 0 /\ books[u].spent = 0
      BY <2>1 DEF Init
    <3>3. QED
      BY <3>1, <3>2
  <2>2. QED
    BY <2>1 DEF BalancesBooked
<1>2. RequestsBounded /\ WorkersBounded
  BY DEF Init, RequestsBounded, RequestBounded, NewRequest, WorkersBounded, WorkerBounded,
         IdleWorker, Holding
<1>3. QED
  BY <1>1, <1>2, TypeInit DEF BoundInv

\* However the read-modify-writes of OrderUseCase.UpdateAccrual and
\* BalanceUseCase.Withdraw overwrite each other at read committed.  What the
\* books have to do with the orders is the matter of the theorems below.
LEMMA BalancesAlwaysBooked == ASSUME Unit = 1 PROVE Spec => []BalancesBooked
<1> DEFINE Inv == KindInv /\ BoundInv
<1>1. Init => Inv
  BY KindInit, BoundInit
<1>2. Inv /\ [Next]_vars => Inv'
  <2> SUFFICES ASSUME KindInv, BoundInv, [Next]_vars PROVE KindInv' /\ BoundInv'
    OBVIOUS
  <2>1. KindInv' /\ TypeInv'
    BY KindStep DEF KindInv
  <2>2. QED
    BY <2>1, RequestsBoundedStep, WorkersBoundedStep, BalancesBookedStep DEF BoundInv
<1>3. Inv => BalancesBooked
  BY DEF BoundInv
<1> HIDE DEF Inv
<1>4. QED
  BY <1>1, <1>2, <1>3, PTL DEF Spec
-----------------------------------------------------------------------------
(* What the rows of table orders add up to.                                *)

\* What a row counts for among what u earned (INCOME) or spent (OUTCOME).
Share(order, u, type) ==
    IF order # None /\ order.user = u /\ order.type = type /\ order.status = "PROCESSED"
    THEN order.amount ELSE 0

\* The same for every row of the table.
Shares(rows, u, type) == [n \in Numbers |-> Share(rows[n], u, type)]

\* Contents the table may have (TypeOK).
IsRows(rows) ==
    /\ rows \in [Numbers -> Order \cup {None}]
    /\ \A n \in Numbers : rows[n] # None => rows[n].amount >= 0

\* No row counts for less than nothing.
LEMMA ShareNat ==
  ASSUME NEW rows, IsRows(rows), NEW n \in Numbers, NEW u, NEW type
  PROVE  Share(rows[n], u, type) \in Nat
BY DEF IsRows, Share, Order

LEMMA SharesType ==
  ASSUME NEW rows, IsRows(rows), NEW u, NEW type
  PROVE  Shares(rows, u, type) \in [Numbers -> Nat]
BY ShareNat DEF Shares

\* Rows of another user, type or status count for nothing, so that the sum
\* over some rows is one over all numbers.
LEMMA SharesTotal ==
  ASSUME NEW rows, IsRows(rows), NEW u, NEW type
  PROVE  LET R == {n \in Numbers : rows[n] # None /\ rows[n].user = u /\ rows[n].type = type
                                     /\ rows[n].status = "PROCESSED"}
         IN  SumFunction([n \in R |-> rows[n].amount]) = SumFunction(Shares(rows, u, type))
<1> DEFINE R == {n \in Numbers : rows[n] # None /\ rows[n].user = u /\ rows[n].type = type
                                   /\ rows[n].status = "PROCESSED"}
           f == [n \in R |-> rows[n].amount]
<1>1. R \in SUBSET Numbers
  OBVIOUS
<1>2. ASSUME NEW n \in Numbers
      PROVE  /\ n \in R => rows[n].amount \in Nat
             /\ Shares(rows, u, type)[n] = IF n \in R THEN rows[n].amount ELSE 0
  BY ShareNat DEF IsRows, Order, Shares, Share
<1> HIDE DEF R
<1>3. f \in [R -> Nat]
  BY <1>1, <1>2
<1>4. \A n \in Numbers : Shares(rows, u, type)[n] = IF n \in R THEN f[n] ELSE 0
  BY <1>2
<1> HIDE DEF f
<1>5. SumFunction(f) = SumFunction(Shares(rows, u, type))
  BY <1>1, <1>3, <1>4, SharesType, SumPadded, ConstantsAssumption
<1>6. QED
  BY <1>5 DEF R, f

\* EarnedRows and SpentRows are such sums, before a step and after it.
LEMMA OrdersTotal ==
  ASSUME NEW u
  PROVE  /\ TypeOK => /\ EarnedRows(u) = SumFunction(Shares(orders, u, "INCOME"))
                      /\ SpentRows(u) = SumFunction(Shares(orders, u, "OUTCOME"))
         /\ TypeOK' => /\ EarnedRows(u)' = SumFunction(Shares(orders', u, "INCOME"))
                       /\ SpentRows(u)' = SumFunction(Shares(orders', u, "OUTCOME"))
<1>1. /\ TypeOK => IsRows(orders)
      /\ TypeOK' => IsRows(orders')
  BY DEF TypeOK, IsRows
<1>2. QED
  BY <1>1, SharesTotal DEF EarnedRows, SpentRows, RowsOf

\* A step writes one row.
LEMMA RowWritten ==
  ASSUME TypeOK, TypeOK', NEW n \in Numbers, \A m \in Numbers \ {n} : orders'[m] = orders[m],
         NEW u
  PROVE  /\ EarnedRows(u)' = EarnedRows(u) - Share(orders[n], u, "INCOME")
                                           + Share(orders'[n], u, "INCOME")
         /\ SpentRows(u)' = SpentRows(u) - Share(orders[n], u, "OUTCOME")
                                         + Share(orders'[n], u, "OUTCOME")
<1>1. IsRows(orders) /\ IsRows(orders')
  BY DEF TypeOK, IsRows
<1>2. ASSUME NEW type
      PROVE  SumFunction(Shares(orders', u, type)) =
                SumFunction(Shares(orders, u, type)) - Share(orders[n], u, type)
                                                     + Share(orders'[n], u, type)
  <2> DEFINE f == Shares(orders, u, type)
             g == Shares(orders', u, type)
  <2>1. f \in [Numbers -> Nat] /\ g \in [Numbers -> Nat]
    BY <1>1, SharesType
  <2>2. /\ \A m \in Numbers \ {n} : g[m] = f[m]
        /\ f[n] = Share(orders[n], u, type) /\ g[n] = Share(orders'[n], u, type)
    BY DEF Shares
  <2> HIDE DEF f, g
  <2>3. SumFunction(g) = SumFunction(f) - f[n] + g[n]
    BY <2>1, <2>2, SumChanged, ConstantsAssumption
  <2>4. QED
    BY <2>2, <2>3 DEF f, g
<1>3. QED
  BY <1>2, OrdersTotal

\* What was earned and what was spent is never negative.
LEMMA TotalsNat ==
  ASSUME TypeOK, NEW u PROVE EarnedRows(u) \in Nat /\ SpentRows(u) \in Nat
<1>1. IsRows(orders)
  BY DEF TypeOK, IsRows
<1>2. QED
  BY <1>1, OrdersTotal, SharesType, SumNat, ConstantsAssumption
-----------------------------------------------------------------------------
(* Which copies pay.                                                       *)

\* A withdrawal is PROCESSED from the start (NewOutcomeOrder).
WithdrawalsPaid ==
    \A r \in Requests : req[r].pc \in {"insert", "commit"} /\ req[r].kind = "withdraw" =>
        req[r].order.status = "PROCESSED"

\* A worker has a balance to save exactly if its order is PROCESSED
\* (UpdateAccrual, updateBalance).
CopyPaid(x) ==
    /\ x.pc \in {"read", "ask", "credit"} => x.balance = None
    /\ x.pc = "credit" => x.order.status = "PROCESSED"
    /\ x.pc \in {"order", "balance", "job"} =>
          (x.balance # None <=> x.order.status = "PROCESSED")

CopiesPaid == \A w \in Workers : CopyPaid(wrk[w])

\* Every step keeps that of the requests.
LEMMA WithdrawalsPaidStep ==
  ASSUME TypeInv, WithdrawalsPaid, [Next]_vars PROVE WithdrawalsPaid'
<1> SUFFICES ASSUME NEW r \in Requests, req'[r].pc \in {"insert", "commit"},
                    req'[r].kind = "withdraw"
             PROVE  req'[r].order.status = "PROCESSED"
  BY DEF WithdrawalsPaid
<1>1. req \in [Requests -> RequestState]
  BY DEF TypeInv, TypeOK
<1>2. ASSUME NEW code, req'[r] = Ended(req[r], code) PROVE FALSE
  BY <1>1, <1>2 DEF Ended, RequestState
<1>3. ASSUME NEW u \in Users, NEW n \in Numbers, NEW sum \in Sums, PostWithdraw(r, u, n, sum)
      PROVE  req'[r].order.status = "PROCESSED"
  <2>1. req'[r].order = OrderRow(NewOutcomeOrder(u, sum))
    BY <1>1, <1>3 DEF PostWithdraw, NewRequest, Ended
  <2>2. QED
    BY <2>1 DEF OrderRow, NewOutcomeOrder
<1>4. ASSUME NEW u \in Users, NEW n \in Numbers, PostOrder(r, u, n) PROVE FALSE
  <2>1. req'[r].kind = "upload"
    BY <1>1, <1>4 DEF PostOrder, NewRequest, Ended
  <2>2. QED
    BY <2>1
<1>5. CASE InsertOrder(r)
  <2>1. req'[r] = [req[r] EXCEPT !.pc = "commit"]
    BY <1>1, <1>2, <1>5 DEF InsertOrder, Answered
  <2>2. /\ req'[r].order = req[r].order /\ req'[r].kind = req[r].kind
        /\ req[r].pc = "insert"
    BY <1>1, <1>5, <2>1 DEF RequestState, InsertOrder
  <2>3. QED
    BY <2>2 DEF WithdrawalsPaid
<1>6. CASE EnqueueJob(r) \/ SaveBalance(r) \/ AbortRequest(r)
  BY <1>1, <1>2, <1>6 DEF EnqueueJob, SaveBalance, AbortRequest, Answered
<1>7. CASE Crash
  BY <1>2, <1>7 DEF Crash, WithdrawalsPaid
<1>8. CASE req'[r] = req[r]
  BY <1>8 DEF WithdrawalsPaid
<1>9. QED
  BY <1>3, <1>4, <1>5, <1>6, <1>7, <1>8, RequestFrame DEF RequestAction, RequestStep

\* Every step keeps that of the workers.
LEMMA CopiesPaidStep ==
  ASSUME TypeInv, CopiesPaid, [Next]_vars PROVE CopiesPaid'
<1> SUFFICES ASSUME NEW w \in Workers PROVE CopyPaid(wrk'[w])
  BY DEF CopiesPaid
<1>1. wrk \in [Workers -> WorkerState] /\ CopyPaid(wrk[w]) /\ WorkerReady(wrk[w])
  BY DEF TypeInv, TypeOK, WorkersReady, CopiesPaid
<1>2. CASE wrk'[w] = wrk[w]
  BY <1>1, <1>2
<1>3. ASSUME NEW pc \in {"idle", "read", "fail"}, NEW n, wrk'[w] = Holding(pc, n)
      PROVE  CopyPaid(wrk'[w])
  BY <1>3 DEF Holding, CopyPaid
<1>4. CASE ReadOrder(w)
  <2>1. wrk'[w].pc = "ask" /\ wrk'[w].balance = wrk[w].balance /\ wrk[w].pc = "read"
    BY <1>1, <1>4 DEF ReadOrder, WorkerState
  <2>2. QED
    BY <1>1, <2>1 DEF CopyPaid
<1>5. ASSUME wrk[w].pc = "ask",
             NEW answer \in Answers(wrk[w].number), wrk'[w] = Informed(wrk[w], answer)
      PROVE  CopyPaid(wrk'[w])
  <2> DEFINE o == wrk[w].order
  <2>1. o \in Order /\ wrk[w].balance = None
    BY <1>1, <1>5 DEF CopyPaid, WorkerReady
  <2>2. /\ wrk'[w].pc = (IF answer.status = "PROCESSED" THEN "credit" ELSE "order")
        /\ wrk'[w].order = OrderUpdated(o, answer) /\ wrk'[w].balance = None
    BY <1>1, <1>5, <2>1 DEF Informed, WorkerState
  <2>3. OrderUpdated(o, answer).status = answer.status
    BY <2>1 DEF OrderUpdated, Order
  <2> HIDE DEF o
  <2>4. QED
    BY <2>2, <2>3 DEF CopyPaid
<1>6. CASE /\ ReadBalance(w)
           /\ CanApply(VisibleBalance(wrk[w].seen, wrk[w].order.user), wrk[w].order)
  <2> DEFINE o == wrk[w].order
             b == VisibleBalance(wrk[w].seen, o.user)
  <2>1. wrk[w].pc = "credit" /\ o \in Order /\ o.status = "PROCESSED"
    BY <1>1, <1>6 DEF ReadBalance, CopyPaid, WorkerReady
  <2>2. b \in Balance
    BY <1>1, <2>1, VisibleBalanceType DEF WorkerState, Order
  <2>3. BalanceRow(Applied(b, o)) \in Balance
    BY <1>6, <2>1, <2>2, AppliedType, BalanceRowType
  <2>4. wrk' = [wrk EXCEPT ![w] = [@ EXCEPT !.pc = "order",
                                            !.balance = BalanceRow(Applied(b, o))]]
    BY <1>6 DEF ReadBalance
  <2>5. /\ wrk'[w].pc = "order" /\ wrk'[w].order = o
        /\ wrk'[w].balance = BalanceRow(Applied(b, o))
    BY <1>1, <2>4 DEF WorkerState
  <2> HIDE DEF o, b
  <2>6. QED
    BY <2>1, <2>3, <2>5, NoneAssumption DEF CopyPaid
<1>7. ASSUME wrk[w].pc \in {"order", "balance"}, NEW pc \in {"balance", "job"},
             wrk'[w] = [wrk[w] EXCEPT !.pc = pc]
      PROVE  CopyPaid(wrk'[w])
  <2>1. /\ wrk'[w].pc = pc /\ wrk'[w].order = wrk[w].order
        /\ wrk'[w].balance = wrk[w].balance
    BY <1>1, <1>7 DEF WorkerState
  <2>2. QED
    BY <1>1, <1>7, <2>1 DEF CopyPaid
<1>8. wrk'[w] = IdleWorker => CopyPaid(wrk'[w])
  BY <1>3 DEF IdleWorker
<1>9. QED
  BY <1>1, <1>2, <1>3, <1>4, <1>5, <1>6, <1>7, <1>8, WorkerCases
-----------------------------------------------------------------------------
(* Every credit and every withdrawal is one row.                           *)

\* The inductive invariant: a worker that credits holds the job alone, its
\* copy is as old as the row, and the row is still open.
PaidInv ==
    /\ HolderInv /\ UploadsNew /\ CopyUsers /\ VerdictsMade /\ Fresh
    /\ WithdrawalsPaid /\ CopiesPaid
    /\ CreditedOnce

\* Steps that write neither rows nor books.
LEMMA CreditedSame ==
  ASSUME CreditedOnce, UNCHANGED <<orders, books>> PROVE CreditedOnce'
<1>1. ASSUME NEW u \in Users
      PROVE  EarnedRows(u)' = EarnedRows(u) /\ SpentRows(u)' = SpentRows(u)
  BY DEF EarnedRows, SpentRows, RowsOf
<1>2. QED
  BY <1>1 DEF CreditedOnce

\* An upload adds a row that counts for nothing.
LEMMA UploadEntered ==
  ASSUME KindInv, UploadsNew, TypeInv', NEW r \in Requests, EnqueueJob(r), NEW u \in Users
  PROVE  /\ EarnedRows(u)' = EarnedRows(u) /\ SpentRows(u)' = SpentRows(u)
         /\ books' = books
<1> USE DEF KindInv
<1> DEFINE n == req[r].number
           o == req[r].order
<1>1. /\ n \in Numbers /\ o \in Order /\ o.status = "NEW" /\ orders[n] = None
      /\ orders \in [Numbers -> Order \cup {None}]
  BY DEF EnqueueJob, TypeInv, TypeOK, RequestsReady, RequestReady, UploadsNew, KeysHeld
<1>2. orders' = [orders EXCEPT ![n] = o] /\ books' = books
  BY DEF EnqueueJob
<1> HIDE DEF n, o
<1>3. ASSUME NEW type PROVE Share(orders[n], u, type) = 0 /\ Share(orders'[n], u, type) = 0
  BY <1>1, <1>2 DEF Share
<1>4. /\ \A m \in Numbers \ {n} : orders'[m] = orders[m]
      /\ TypeOK /\ TypeOK'
  BY <1>1, <1>2 DEF TypeInv
<1>5. QED
  BY <1>1, <1>2, <1>3, <1>4, RowWritten, TotalsNat

\* A withdrawal adds a row and books its amount with it.
LEMMA WithdrawalEntered ==
  ASSUME KindInv, UploadsNew, WithdrawalsPaid, TypeInv',
         NEW r \in Requests, SaveBalance(r), NEW u \in Users
  PROVE  LET spent == IF u = req[r].user THEN req[r].order.amount ELSE 0
         IN  /\ EarnedRows(u)' = EarnedRows(u) /\ SpentRows(u)' = SpentRows(u) + spent
             /\ books'[u].earned = books[u].earned /\ books'[u].spent = books[u].spent + spent
<1> USE DEF KindInv
<1> DEFINE n == req[r].number
           o == req[r].order
           v == req[r].user
<1>1. /\ n \in Numbers /\ o \in Order /\ o.amount >= 0 /\ v \in Users
      /\ o.status = "PROCESSED" /\ o.type = "OUTCOME" /\ o.user = v
      /\ orders[n] = None
      /\ orders \in [Numbers -> Order \cup {None}]
      /\ books \in [Users -> [earned : Nat, spent : Nat]]
  BY DEF SaveBalance, TypeInv, TypeOK, RequestsReady, RequestReady, UploadsNew, KeysHeld,
         RequestKinds, WithdrawalsPaid
<1>2. orders' = [orders EXCEPT ![n] = o] /\ books' = [books EXCEPT ![v].spent = @ + o.amount]
  BY DEF SaveBalance
<1> HIDE DEF n, o, v
<1>3. /\ Share(orders[n], u, "INCOME") = 0 /\ Share(orders'[n], u, "INCOME") = 0
      /\ Share(orders[n], u, "OUTCOME") = 0
      /\ Share(orders'[n], u, "OUTCOME") = IF u = v THEN o.amount ELSE 0
  BY <1>1, <1>2, NoneAssumption DEF Share
<1>4. /\ \A m \in Numbers \ {n} : orders'[m] = orders[m]
      /\ TypeOK /\ TypeOK'
  BY <1>1, <1>2 DEF TypeInv
<1>5. /\ EarnedRows(u)' = EarnedRows(u)
      /\ SpentRows(u)' = SpentRows(u) + IF u = v THEN o.amount ELSE 0
  <2>1. EarnedRows(u) \in Nat /\ SpentRows(u) \in Nat /\ o.amount \in Int
    BY <1>1, <1>4, TotalsNat DEF Order
  <2>2. QED
    BY <1>1, <1>3, <1>4, <2>1, RowWritten
<1>6. /\ books'[u].earned = books[u].earned
      /\ books'[u].spent = books[u].spent + IF u = v THEN o.amount ELSE 0
  <2>1. books[u].spent \in Nat
    BY <1>1
  <2>2. QED
    BY <1>1, <1>2, <2>1
<1>7. QED
  BY <1>5, <1>6 DEF o, v

\* The answer to a job books an amount with the row that it makes PROCESSED,
\* or neither; what that row had counted for before is overwritten.
LEMMA AnswerEntered ==
  ASSUME KindInv, CopiesPaid, TypeInv', NEW w \in Workers, UpdateJob(w), NEW u \in Users
  PROVE  LET order == OrderRow(wrk[w].order)
             earned == IF u = order.user /\ order.status = "PROCESSED"
                       THEN order.amount ELSE 0
             before == orders[wrk[w].number]
         IN  /\ earned \in Nat
             /\ Share(before, u, "INCOME") \in Nat /\ Share(before, u, "INCOME") <= EarnedRows(u)
             /\ EarnedRows(u)' = EarnedRows(u) - Share(before, u, "INCOME") + earned
             /\ SpentRows(u)' = SpentRows(u)
             /\ books'[u].earned = books[u].earned + earned
             /\ books'[u].spent = books[u].spent
<1> USE DEF KindInv
<1> DEFINE n == wrk[w].number
           o == OrderRow(wrk[w].order)
           v == wrk[w].order.user
           paid == wrk[w].order.status = "PROCESSED"
           earned == IF u = v /\ paid THEN o.amount ELSE 0
<1>1. /\ n \in Numbers /\ orders[n] # None /\ orders[n].type = "INCOME"
      /\ wrk[w].order \in Order /\ wrk[w].order.amount >= 0 /\ wrk[w].order.type = "INCOME"
      /\ wrk[w].balance # None <=> paid
      /\ orders \in [Numbers -> Order \cup {None}]
      /\ books \in [Users -> [earned : Nat, spent : Nat]]
  BY NoneAssumption DEF UpdateJob, TypeInv, TypeOK, WorkersReady, WorkerReady, IncomeHeld,
                        CopiesPaid, CopyPaid
<1>2. /\ o \in Order /\ o.amount >= 0 /\ o.user = v /\ o.type = "INCOME" /\ v \in Users
      /\ o.status = "PROCESSED" <=> paid
  BY <1>1, OrderRowType DEF Order
<1>3. /\ orders' = [orders EXCEPT ![n] = o]
      /\ books' = IF paid THEN [books EXCEPT ![v].earned = @ + o.amount] ELSE books
  BY <1>1, <1>2 DEF UpdateJob
<1> HIDE DEF n, o, v, paid
<1>4. /\ Share(orders'[n], u, "INCOME") = earned
      /\ Share(orders[n], u, "OUTCOME") = 0 /\ Share(orders'[n], u, "OUTCOME") = 0
  BY <1>1, <1>2, <1>3, NoneAssumption DEF Share
<1>5. /\ \A m \in Numbers \ {n} : orders'[m] = orders[m]
      /\ TypeOK /\ TypeOK'
  BY <1>1, <1>3 DEF TypeInv
<1>6. earned \in Nat /\ EarnedRows(u) \in Nat /\ SpentRows(u) \in Nat
  BY <1>2, <1>5, TotalsNat DEF Order
<1>7. Share(orders[n], u, "INCOME") \in Nat /\ Share(orders[n], u, "INCOME") <= EarnedRows(u)
  <2> DEFINE f == Shares(orders, u, "INCOME")
  <2>1. f \in [Numbers -> Nat] /\ f[n] = Share(orders[n], u, "INCOME")
    <3>1. IsRows(orders)
      BY <1>5 DEF TypeOK, IsRows
    <3>2. QED
      BY <1>1, <3>1, SharesType DEF Shares
  <2>2. EarnedRows(u) = SumFunction(f)
    BY <1>5, OrdersTotal
  <2> HIDE DEF f
  <2>3. QED
    BY <1>1, <2>1, <2>2, SumAtLeast, ConstantsAssumption
<1>8. /\ EarnedRows(u)' = EarnedRows(u) - Share(orders[n], u, "INCOME") + earned
      /\ SpentRows(u)' = SpentRows(u)
  BY <1>1, <1>4, <1>5, <1>6, <1>7, RowWritten
<1>9. books'[u].earned = books[u].earned + earned /\ books'[u].spent = books[u].spent
  <2>1. books[u].earned \in Nat
    BY <1>1
  <2>2. QED
    BY <1>1, <1>2, <1>3, <2>1
<1>10. earned = IF u = o.user /\ o.status = "PROCESSED" THEN o.amount ELSE 0
  BY <1>2
<1>11. QED
  BY <1>6, <1>7, <1>8, <1>9, <1>10 DEF n, o

LEMMA PaidInit == Init => PaidInv
<1> SUFFICES ASSUME Init PROVE PaidInv
  OBVIOUS
<1>1. HolderInv
  BY KindInit DEF Init, HolderInv, IdleEmpty, OneHolder, IdleWorker, Holding
<1>2. /\ \A r \in Requests : req[r].pc = "new"
      /\ \A w \in Workers : wrk[w].pc = "idle" /\ wrk[w].balance = None
  BY DEF Init, NewRequest, IdleWorker, Holding
<1>3. UploadsNew /\ CopyUsers /\ VerdictsMade /\ Fresh /\ WithdrawalsPaid /\ CopiesPaid
  BY <1>2 DEF Init, UploadsNew, CopyUsers, VerdictsMade, Fresh, WithdrawalsPaid, CopiesPaid, CopyPaid
<1>4. TypeOK /\ \A n \in Numbers : orders[n] = None
  BY <1>1 DEF Init, HolderInv, KindInv, TypeInv
<1>5. ASSUME NEW u \in Users PROVE EarnedRows(u) = 0 /\ SpentRows(u) = 0
  <2>1. ASSUME NEW type PROVE SumFunction(Shares(orders, u, type)) = 0
    <3>1. \A n \in Numbers : Shares(orders, u, type)[n] = 0
      BY <1>4 DEF Shares, Share
    <3>2. Shares(orders, u, type) \in [Numbers -> Nat]
      BY <1>4, SharesType DEF TypeOK, IsRows
    <3>3. QED
      BY <3>1, <3>2, SumZero, ConstantsAssumption
  <2>2. QED
    BY <1>4, <2>1, OrdersTotal
<1>6. CreditedOnce
  BY <1>5 DEF Init, CreditedOnce
<1>7. QED
  BY <1>1, <1>3, <1>6 DEF PaidInv

LEMMA PaidStep == ASSUME MaxOvertakes = 0, PaidInv, [Next]_vars PROVE PaidInv'
<1>1. KindInv' /\ TypeInv'
  BY KindStep DEF PaidInv, HolderInv, KindInv
<1>2. HolderInv'
  BY <1>1, IdleEmptyStep, OneHolderStep DEF PaidInv, HolderInv, KindInv
<1>3. UploadsNew' /\ CopyUsers' /\ VerdictsMade' /\ Fresh' /\ WithdrawalsPaid' /\ CopiesPaid'
  BY UploadsNewStep, CopyUsersStep, VerdictsMadeStep, FreshStep, WithdrawalsPaidStep,
     CopiesPaidStep DEF PaidInv, HolderInv, KindInv
<1>4. CreditedOnce'
  <2>1. CASE UNCHANGED <<orders, books>>
    BY <2>1, CreditedSame DEF PaidInv
  <2>2. ASSUME NEW r \in Requests, EnqueueJob(r) \/ SaveBalance(r) PROVE CreditedOnce'
    BY <1>1, <2>2, UploadEntered, WithdrawalEntered DEF PaidInv, HolderInv, CreditedOnce
  <2>3. ASSUME NEW w \in Workers, UpdateJob(w) PROVE CreditedOnce'
    <3>1. ~Final(orders[wrk[w].number].status)
      BY <2>3 DEF PaidInv, Fresh, UpdateJob
    <3>2. \A u \in Users : Share(orders[wrk[w].number], u, "INCOME") = 0
      BY <3>1 DEF Share, Final
    <3>3. QED
      BY <1>1, <2>3, <3>2, AnswerEntered, TotalsNat
         DEF PaidInv, HolderInv, KindInv, TypeInv, CreditedOnce
  <2>4. CASE FixAction \/ Crash \/ UNCHANGED vars
    BY <2>1, <2>4 DEF FixAction, FixProcessingTimeout, Crash, vars, tables
  <2>5. QED
    BY <2>1, <2>2, <2>3, <2>4, StepCases, RequestActionFrame, WorkerActionFrame
       DEF PaidInv, HolderInv, KindInv
<1>5. QED
  BY <1>2, <1>3, <1>4 DEF PaidInv

\* No accrual is credited twice and no withdrawal is booked without its row
\* (JobUseCase.pollAccrual, BalanceUseCase.Withdraw), over any number of
\* retries and crashes, while no lease is overtaken.
THEOREM CreditedAlwaysOnce == ASSUME MaxOvertakes = 0 PROVE Spec => []CreditedOnce
<1>1. PaidInv => CreditedOnce
  BY DEF PaidInv
<1>2. PaidInv /\ [Next]_vars => PaidInv'
  BY PaidStep
<1>3. QED
  BY <1>1, <1>2, PaidInit, PTL DEF Spec
-----------------------------------------------------------------------------
(* Every final order was decided, and every credit granted.                *)

\* The order is as the accrual system decided.
Decides(verdict, order) ==
    /\ verdict # None /\ verdict.status = order.status
    /\ order.status = "PROCESSED" => verdict.accrual = order.amount

\* Of the orders in the hands of workers that are final,
DecidedCopies ==
    \A w \in Workers :
        wrk[w].pc \in {"credit", "order", "balance", "job"} /\ Final(wrk[w].order.status) =>
        Decides(verdicts[wrk[w].number], wrk[w].order)

\* and of the uploads in the table.
DecidedRows ==
    \A n \in Numbers :
        orders[n] # None /\ orders[n].type = "INCOME" /\ Final(orders[n].status) =>
        Decides(verdicts[n], orders[n])

\* The inductive invariant: what is final comes from verdicts, which stay.
GrantInv == KindInv /\ UploadsNew /\ VerdictsMade /\ DecidedCopies /\ DecidedRows

\* The accrual system does not go back on its word.
LEMMA VerdictStays ==
  ASSUME TypeInv, [Next]_vars, NEW n \in Numbers, verdicts[n] # None
  PROVE  verdicts'[n] = verdicts[n]
<1>1. verdicts \in [Numbers -> Answer \cup {None}]
  BY DEF TypeInv, TypeOK
<1>2. ASSUME NEW w \in Workers, AskAccrual(w) PROVE verdicts'[n] = verdicts[n]
  <2>1. PICK answer \in Answers(wrk[w].number) :
          verdicts' = [verdicts EXCEPT ![wrk[w].number] =
                          IF Final(answer.status) THEN answer ELSE @]
    BY <1>2 DEF AskAccrual
  <2>2. wrk[w].number = n => answer = verdicts[n]
    BY <2>1 DEF Answers
  <2>3. QED
    BY <1>1, <2>1, <2>2
<1>3. ASSUME NEW w \in Workers, WorkerAction(w), ~AskAccrual(w) PROVE UNCHANGED verdicts
  BY <1>3 DEF WorkerAction, WorkerStep, FetchJob, ReadOrder, TooManyRequests, ReadBalance,
              UpdateOrder, UpdateBalance, UpdateJob, AbortHandle, FailJob
<1>4. CASE FixAction \/ Crash \/ UNCHANGED vars
  BY <1>4 DEF FixAction, FixProcessingTimeout, Crash, vars
<1>5. QED
  BY <1>2, <1>3, <1>4, StepCases, RequestActionFrame

\* Only an answer takes a worker from asking to what follows.
LEMMA AskedNow ==
  ASSUME TypeInv, [Next]_vars, NEW w \in Workers, wrk[w].pc = "ask",
         wrk'[w].pc \in {"credit", "order"}
  PROVE  AskAccrual(w)
<1>1. wrk \in [Workers -> WorkerState]
  BY DEF TypeInv, TypeOK
<1>2. ~Crash
  BY DEF Crash, IdleWorker, Holding
<1>3. ASSUME NEW pc \in {"read", "fail"}, RolledBack(w, pc) PROVE FALSE
  BY <1>1, <1>3 DEF RolledBack, Holding
<1>4. WorkerAction(w)
  BY <1>2, WorkerFrame
<1>5. QED
  BY <1>3, <1>4 DEF WorkerAction, WorkerStep, FetchJob, ReadOrder, TooManyRequests, ReadBalance,
              UpdateOrder, UpdateBalance, UpdateJob, AbortHandle, FailJob

\* A copy becomes final by a verdict; it does not change after that.
LEMMA DecidedCopiesStep ==
  ASSUME GrantInv, [Next]_vars PROVE DecidedCopies'
<1> USE DEF GrantInv, KindInv
<1> SUFFICES ASSUME NEW w \in Workers,
                    wrk'[w].pc \in {"credit", "order", "balance", "job"},
                    Final(wrk'[w].order.status)
             PROVE  Decides(verdicts'[wrk'[w].number], wrk'[w].order)
  BY DEF DecidedCopies, Decides
<1>1. wrk \in [Workers -> WorkerState] /\ WorkerReady(wrk[w])
  BY DEF TypeInv, TypeOK, WorkersReady
<1>2. ASSUME wrk[w].pc \in {"credit", "order", "balance", "job"},
             wrk'[w].number = wrk[w].number, wrk'[w].order = wrk[w].order
      PROVE  Decides(verdicts'[wrk'[w].number], wrk'[w].order)
  <2>1. wrk[w].number \in Numbers /\ Decides(verdicts[wrk[w].number], wrk[w].order)
    BY <1>1, <1>2 DEF DecidedCopies, WorkerReady
  <2>2. QED
    BY <1>2, <2>1, VerdictStays DEF Decides
<1>3. ASSUME NEW answer, wrk[w].pc = "ask", wrk'[w] = Informed(wrk[w], answer)
      PROVE  Decides(verdicts'[wrk'[w].number], wrk'[w].order)
  <2>1. wrk'[w].pc \in {"credit", "order"}
    BY <1>1, <1>3 DEF Informed, WorkerState
  <2>2. AskAccrual(w)
    BY <1>3, <2>1, AskedNow
  <2>3. PICK given \in Answers(wrk[w].number) :
          /\ verdicts' = [verdicts EXCEPT ![wrk[w].number] =
                             IF Final(given.status) THEN given ELSE @]
          /\ RolledBack(w, "fail") \/ wrk' = [wrk EXCEPT ![w] = Informed(@, given)]
    BY <2>2 DEF AskAccrual
  <2>4. ~RolledBack(w, "fail")
    BY <1>1, <2>1 DEF RolledBack, Holding
  <2>5. /\ wrk'[w].order = OrderUpdated(wrk[w].order, given)
        /\ wrk'[w].number = wrk[w].number
    BY <1>1, <2>3, <2>4 DEF Informed, WorkerState
  <2>6. wrk[w].order \in Order /\ wrk[w].number \in Numbers
    BY <1>1, <1>3 DEF WorkerReady
  <2>7. /\ Final(given.status) /\ wrk'[w].order.status = given.status
        /\ given.status = "PROCESSED" => wrk'[w].order.amount = given.accrual
    BY <2>5, <2>6 DEF OrderUpdated, Order
  <2>8. verdicts'[wrk[w].number] = given
    BY <2>3, <2>6, <2>7 DEF TypeInv, TypeOK
  <2>9. given # None
    BY <2>3, <2>6, NoneAssumption, AnswersType
  <2>10. QED
    BY <2>5, <2>7, <2>8, <2>9 DEF Decides
<1>4. CASE wrk'[w] = wrk[w]
  BY <1>2, <1>4
<1>5. CASE /\ ReadBalance(w)
           /\ CanApply(VisibleBalance(wrk[w].seen, wrk[w].order.user), wrk[w].order)
  <2>1. PICK b : wrk[w].pc = "credit" /\ wrk'[w] = [wrk[w] EXCEPT !.pc = "order", !.balance = b]
    BY <1>1, <1>5 DEF ReadBalance
  <2>2. QED
    BY <1>1, <1>2, <2>1 DEF WorkerState
<1>6. ASSUME wrk[w].pc \in {"order", "balance"}, NEW pc \in {"balance", "job"},
             wrk'[w] = [wrk[w] EXCEPT !.pc = pc]
      PROVE  wrk'[w].number = wrk[w].number /\ wrk'[w].order = wrk[w].order
  BY <1>1, <1>6 DEF WorkerState
<1>7. ASSUME NEW n, NEW pc, wrk'[w] = Holding(pc, n) PROVE pc \in {"credit", "order", "balance", "job"}
  BY <1>7 DEF Holding
<1>8. wrk'[w] # IdleWorker
  BY <1>7 DEF IdleWorker
<1>9. ~ReadOrder(w)
  BY <1>1 DEF ReadOrder, WorkerState
<1>10. ~ \E n \in Numbers : jobs[n] # None /\ wrk'[w] = Holding("read", n)
  BY <1>7
<1>11. wrk'[w] \notin {Holding("read", wrk[w].number), Holding("fail", wrk[w].number)}
  BY <1>7
<1>12. QED
  BY <1>2, <1>3, <1>4, <1>5, <1>6, <1>8, <1>9, <1>10, <1>11, WorkerCases

\* With whole cents a row holds the amount of its entity.
LEMMA RowWhole ==
  ASSUME Unit = 1, NEW o \in Order, o.amount >= 0 PROVE OrderRow(o) = o
<1>1. o.amount \in Nat
  BY DEF Order
<1>2. Round(o.amount) = o.amount
  BY <1>1, RoundIdentity
<1>3. QED
  BY <1>2 DEF OrderRow, Order

\* A row becomes final by a copy that is.
LEMMA DecidedRowsStep ==
  ASSUME Unit = 1, GrantInv, [Next]_vars PROVE DecidedRows'
<1> USE DEF GrantInv, KindInv
<1> SUFFICES ASSUME NEW n \in Numbers, orders'[n] # None, orders'[n].type = "INCOME",
                    Final(orders'[n].status)
             PROVE  Decides(verdicts'[n], orders'[n])
  BY DEF DecidedRows, Decides
<1>1. orders \in [Numbers -> Order \cup {None}]
  BY DEF TypeInv, TypeOK
<1>2. CASE orders'[n] = orders[n]
  BY <1>2, VerdictStays DEF DecidedRows, Decides
<1>3. ASSUME NEW r \in Requests, EnqueueJob(r) \/ SaveBalance(r), req[r].number = n PROVE FALSE
  <2>1. orders'[n] = req[r].order
    BY <1>1, <1>3 DEF EnqueueJob, SaveBalance
  <2>2. QED
    BY <1>3, <2>1 DEF EnqueueJob, SaveBalance, UploadsNew, RequestKinds, Final
<1>4. ASSUME NEW w \in Workers, UpdateJob(w), wrk[w].number = n
      PROVE  Decides(verdicts'[n], orders'[n])
  <2>1. /\ orders'[n] = OrderRow(wrk[w].order) /\ wrk[w].order \in Order
        /\ wrk[w].order.amount >= 0 /\ wrk[w].pc = "job" /\ UNCHANGED verdicts
    BY <1>1, <1>4 DEF UpdateJob, TypeInv, WorkersReady, WorkerReady
  <2>2. orders'[n] = wrk[w].order
    BY <2>1, RowWhole
  <2>3. QED
    BY <1>4, <2>1, <2>2 DEF DecidedCopies, Decides
<1>5. QED
  BY <1>2, <1>3, <1>4, OrderFrame

LEMMA GrantInit == Init => GrantInv
<1> SUFFICES ASSUME Init PROVE GrantInv
  OBVIOUS
<1>1. /\ \A r \in Requests : req[r].pc = "new"
      /\ \A w \in Workers : wrk[w].pc = "idle"
  BY DEF Init, NewRequest, IdleWorker, Holding
<1>2. QED
  BY <1>1, KindInit DEF Init, GrantInv, UploadsNew, VerdictsMade, DecidedCopies, DecidedRows

LEMMA GrantStep == ASSUME Unit = 1, GrantInv, [Next]_vars PROVE GrantInv'
BY KindStep, UploadsNewStep, VerdictsMadeStep, DecidedCopiesStep, DecidedRowsStep
   DEF GrantInv, KindInv

\* Rows with an amount are among the orders with a grant.
LEMMA EarnedWithinGrants ==
  ASSUME TypeOK, DecidedRows, NEW u PROVE EarnedRows(u) <= GrantedTo(u)
<1> DEFINE S == GrantsTo(u)
           R == {n \in RowsOf(u, "INCOME") : orders[n].amount > 0}
           f == [n \in R |-> orders[n].amount]
           g == [n \in S |-> verdicts[n].accrual]
<1>1. IsRows(orders)
  BY DEF TypeOK, IsRows
<1>2. /\ S \in SUBSET Numbers /\ R \in SUBSET S
      /\ \A n \in R : orders[n].amount \in Nat /\ orders[n].amount = verdicts[n].accrual
      /\ \A n \in S : verdicts[n].accrual \in Nat
  BY DEF GrantsTo, RowsOf, DecidedRows, Decides, Granted, Final, TypeOK, Order, Answer
<1>3. ASSUME NEW n \in Numbers
      PROVE  Shares(orders, u, "INCOME")[n] = IF n \in R THEN orders[n].amount ELSE 0
  BY DEF Shares, Share, RowsOf, TypeOK, Order
<1> HIDE DEF R, S
<1>4. f \in [R -> Nat] /\ g \in [S -> Nat]
  BY <1>2
<1>5. /\ \A n \in Numbers : Shares(orders, u, "INCOME")[n] = IF n \in R THEN f[n] ELSE 0
      /\ \A n \in R : f[n] <= g[n]
  BY <1>2, <1>3
<1>6. GrantedTo(u) = SumFunction(g)
  BY DEF GrantedTo, S
<1> HIDE DEF f, g
<1>7. IsFiniteSet(S) /\ R \in SUBSET Numbers
  BY <1>2, ConstantsAssumption, FS_Subset
<1>8. SumFunction(f) = EarnedRows(u)
  BY <1>1, <1>4, <1>5, <1>7, SharesType, SumPadded, OrdersTotal, ConstantsAssumption
<1>9. SumFunction(f) <= SumFunction(g)
  BY <1>2, <1>4, <1>5, <1>7, SumMonotonic
<1>10. QED
  BY <1>6, <1>8, <1>9

\* The money in the system is the money the accrual system granted
\* (OrderUseCase.UpdateAccrual), while no lease is overtaken and amounts have
\* no fractions of a cent.
THEOREM GrantsSuffice ==
  ASSUME MaxOvertakes = 0, Unit = 1 PROVE Spec => []NotMoreThanGranted
<1>1. ASSUME BalancesBooked, CreditedOnce, GrantInv PROVE NotMoreThanGranted
  <2> SUFFICES ASSUME NEW u \in Users
               PROVE  balances[u].current + balances[u].withdrawn <= GrantedTo(u)
    BY DEF NotMoreThanGranted
  <2>1. TypeOK /\ DecidedRows
    BY <1>1 DEF GrantInv, KindInv, TypeInv
  <2>2. /\ balances[u].current + balances[u].withdrawn <= EarnedRows(u)
        /\ EarnedRows(u) <= GrantedTo(u)
    BY <1>1, <2>1, EarnedWithinGrants DEF BalancesBooked, CreditedOnce
  <2>3. /\ balances[u].current \in Nat /\ balances[u].withdrawn \in Nat /\ EarnedRows(u) \in Nat
        /\ GrantedTo(u) \in Nat
    <3>1. /\ GrantsTo(u) \in SUBSET Numbers
          /\ [n \in GrantsTo(u) |-> verdicts[n].accrual] \in [GrantsTo(u) -> Nat]
      BY <2>1 DEF GrantsTo, Granted, TypeOK, Answer
    <3>2. GrantedTo(u) \in Nat
      BY <3>1, ConstantsAssumption, FS_Subset, SumNat DEF GrantedTo
    <3>3. QED
      BY <2>1, <3>2, TotalsNat DEF TypeOK, Balance
  <2>4. QED
    BY <2>2, <2>3
<1>2. GrantInv /\ [Next]_vars => GrantInv'
  BY GrantStep
<1>3. QED
  BY <1>1, <1>2, GrantInit, BalancesAlwaysBooked, CreditedAlwaysOnce, PTL DEF Spec
-----------------------------------------------------------------------------
(* The three answers tell one story.                                       *)

\* The accruals in the listing of orders add up to what was earned: open
\* orders and withdrawals are shown without one (OrderResponse).
LEMMA UploadsShown ==
  ASSUME TypeOK, NEW u \in Users
  PROVE  SumFunction([n \in GetAll("INCOME", u) |-> GetOrders(u).shown[n].accrual]) =
            EarnedRows(u)
<1> DEFINE S == GetAll("INCOME", u)
           f == [n \in S |-> GetOrders(u).shown[n].accrual]
<1>1. IsRows(orders)
  BY DEF TypeOK, IsRows
<1>2. /\ S = {n \in Numbers : orders[n] # None /\ orders[n].type = "INCOME" /\ orders[n].user = u}
      /\ S \in SUBSET GetAll(Unfiltered, u)
  BY UnfilteredAssumption DEF GetAll, Unfiltered
<1>3. ASSUME NEW n \in S PROVE f[n] = Share(orders[n], u, "INCOME")
  <2>1. GetOrders(u).shown[n] = OrderResponse(n)
    BY <1>2 DEF GetOrders, Listing
  <2>2. QED
    BY <1>2, <2>1 DEF OrderResponse, Share
<1>4. ASSUME NEW n \in Numbers
      PROVE  Shares(orders, u, "INCOME")[n] = IF n \in S THEN f[n] ELSE 0
  <2>1. n \notin S => Share(orders[n], u, "INCOME") = 0
    BY <1>2 DEF Share
  <2>2. QED
    BY <1>3, <2>1 DEF Shares
<1>5. S \in SUBSET Numbers /\ f \in [S -> Nat]
  BY <1>1, <1>2, <1>3, ShareNat
<1> HIDE DEF f, S
<1>6. SumFunction(f) = EarnedRows(u)
  BY <1>1, <1>4, <1>5, SharesType, SumPadded, OrdersTotal, ConstantsAssumption
<1>7. QED
  BY <1>6 DEF f, S

\* The listing of withdrawals has everything that was spent.
LEMMA WithdrawalsShown ==
  ASSUME TypeOK, NEW u \in Users
  PROVE  /\ SumFunction(GetWithdrawals(u).shown) \in Nat
         /\ SpentRows(u) <= SumFunction(GetWithdrawals(u).shown)
<1> DEFINE S == GetAll("OUTCOME", u)
           R == RowsOf(u, "OUTCOME")
           f == [n \in R |-> orders[n].amount]
           g == [n \in S |-> WithdrawResponse(n)]
<1>1. S = {n \in Numbers : orders[n] # None /\ orders[n].type = "OUTCOME" /\ orders[n].user = u}
  BY UnfilteredAssumption DEF GetAll, Unfiltered
<1>2. R \in SUBSET S /\ S \in SUBSET Numbers
  BY <1>1 DEF RowsOf
<1>3. \A n \in S : orders[n].amount \in Nat /\ g[n] = orders[n].amount
  BY <1>1 DEF WithdrawResponse, TypeOK, Order
<1>4. /\ f \in [R -> Nat] /\ g \in [S -> Nat]
      /\ \A n \in R : f[n] <= g[n]
  BY <1>2, <1>3
<1>5. GetWithdrawals(u).shown = g /\ SpentRows(u) = SumFunction(f)
  BY DEF GetWithdrawals, Listing, SpentRows
<1> HIDE DEF f, g, S, R
<1>6. IsFiniteSet(S)
  BY <1>2, ConstantsAssumption, FS_Subset
<1>7. QED
  BY <1>2, <1>4, <1>5, <1>6, SumNat, SumMonotonic

\* The balance a client is shown is explained by the two listings it is shown
\* (GetBalance, GetOrders, GetWithdrawals), while no lease is overtaken and
\* amounts have no fractions of a cent.
THEOREM AlwaysExplained ==
  ASSUME MaxOvertakes = 0, Unit = 1 PROVE Spec => []BalanceExplained
<1>1. ASSUME BalancesBooked, CreditedOnce, TypeOK PROVE BalanceExplained
  <2> SUFFICES ASSUME NEW u \in Users
               PROVE  /\ GetBalance(u).current + GetBalance(u).withdrawn
                            <= SumFunction([n \in GetAll("INCOME", u) |->
                                                GetOrders(u).shown[n].accrual])
                      /\ GetBalance(u).withdrawn <= SumFunction(GetWithdrawals(u).shown)
    BY DEF BalanceExplained
  <2>1. GetBalance(u).current = balances[u].current /\ GetBalance(u).withdrawn = balances[u].withdrawn
    BY DEF GetBalance, BalanceResponse
  <2>2. /\ balances[u].current + balances[u].withdrawn <= EarnedRows(u)
        /\ balances[u].withdrawn <= SpentRows(u)
    BY <1>1 DEF BalancesBooked, CreditedOnce
  <2>3. balances[u].withdrawn \in Nat /\ SpentRows(u) \in Nat
    BY <1>1, TotalsNat DEF TypeOK, Balance
  <2>4. GetBalance(u).withdrawn <= SumFunction(GetWithdrawals(u).shown)
    BY <1>1, <2>1, <2>2, <2>3, WithdrawalsShown
  <2>5. QED
    BY <1>1, <2>1, <2>2, <2>4, UploadsShown
<1>2. QED
  BY <1>1, BalancesAlwaysBooked, CreditedAlwaysOnce, TypeCorrect, PTL
-----------------------------------------------------------------------------
(* Final orders are what the accrual system decided.                       *)

\* A final status that GET /api/user/orders shows is the accrual system's
\* decision, with its amount, however often leases are overtaken and in
\* whatever order the stale copies of an order are saved
\* (OrderUseCase.UpdateAccrual), where amounts have no fractions of a cent.
THEOREM DecisionAlwaysShown == ASSUME Unit = 1 PROVE Spec => []DecisionShown
<1>1. GrantInv => DecisionShown
  <2> SUFFICES ASSUME GrantInv, NEW u \in Users, NEW n \in GetAll("INCOME", u),
                      Final(GetOrders(u).shown[n].status)
               PROVE  GetOrders(u).shown[n] = verdicts[n]
    BY DEF DecisionShown
  <2>1. /\ n \in Numbers /\ orders[n] # None /\ orders[n].type = "INCOME"
        /\ n \in GetAll(Unfiltered, u)
    BY UnfilteredAssumption DEF GetAll, Unfiltered
  <2>2. GetOrders(u).shown[n] = OrderResponse(n)
    BY <2>1 DEF GetOrders, Listing
  <2>3. Final(orders[n].status)
    BY <2>2 DEF OrderResponse
  <2>4. Decides(verdicts[n], orders[n])
    BY <2>1, <2>3 DEF GrantInv, DecidedRows
  <2>5. /\ verdicts[n] \in Answer
        /\ orders[n].status = "INVALID" => verdicts[n].accrual = 0
    BY <2>1, <2>4 DEF GrantInv, KindInv, TypeInv, TypeOK, VerdictsMade, Decides
  <2>6. verdicts[n] = [status  |-> orders[n].status,
                       accrual |-> IF orders[n].status = "PROCESSED"
                                   THEN orders[n].amount ELSE 0]
    BY <2>3, <2>4, <2>5 DEF Decides, Answer, Final
  <2>7. QED
    BY <2>2, <2>6 DEF OrderResponse
<1>2. GrantInv /\ [Next]_vars => GrantInv'
  BY GrantStep
<1>3. QED
  BY <1>1, <1>2, GrantInit, PTL DEF Spec
-----------------------------------------------------------------------------
(* What overtaken leases can cost.  An order is credited at most once by   *)
(* each worker that has its job, and once more by the one that fetches it  *)
(* next.  While the order is open one of these credits is due; each of the *)
(* others is owed to a lease that was overtaken, and to a lease of its own.*)

Chances(n) ==
    Hands[n] + IF JobRow(n) = "scheduled" \/ (JobRow(n) = "taken" /\ Hands[n] = 0)
               THEN 1 ELSE 0

OpenRow(n) ==
    orders[n] # None /\ orders[n].type = "INCOME" /\ orders[n].status # "PROCESSED"

Surplus(n) == IF OpenRow(n) /\ Chances(n) > 0 THEN Chances(n) - 1 ELSE Chances(n)
Surpluses  == [n \in Numbers |-> Surplus(n)]

\* The leases overtaken so far that may have cost an accrual already.
Spent == overtakes - SumFunction(Surpluses)

\* The inductive invariant: the books exceed the rows by an accrual for each.
OverpaymentInv ==
    /\ LifeInv /\ IdleEmpty /\ CopyUsers /\ GrantInv /\ CopiesPaid /\ WithdrawalsPaid
    /\ SumFunction(Surpluses) <= overtakes
    /\ \A u \in Users : books[u].earned <= EarnedRows(u) + Highest * Spent

LEMMA SurplusNat ==
  ASSUME IsFiniteSet(Workers), NEW n \in Numbers
  PROVE  /\ Chances(n) \in Nat /\ Chances(n)' \in Nat
         /\ Surplus(n) \in Nat /\ Surplus(n)' \in Nat
         /\ Hands[n] \in Nat /\ Hands'[n] \in Nat
<1>1. Hands[n] \in Nat /\ Hands'[n] \in Nat
  BY HandsNat
<1>2. Chances(n) \in Nat /\ Chances(n)' \in Nat
  BY <1>1 DEF Chances
<1>3. QED
  BY <1>1, <1>2 DEF Surplus

\* Fewer chances of an order that is no more open are no more surplus.
LEMMA SurplusShrinks ==
  ASSUME IsFiniteSet(Workers), NEW n \in Numbers,
         Chances(n)' <= Chances(n), OpenRow(n) => OpenRow(n)'
  PROVE  Surplus(n)' <= Surplus(n)
BY SurplusNat DEF Surplus

\* A new order is in nobody's hands: a request adds no surplus.
LEMMA RequestSurplus ==
  ASSUME IsFiniteSet(Workers), LifeInv, IdleEmpty, TypeInv',
         NEW r \in Requests, RequestAction(r), NEW n \in Numbers
  PROVE  Surplus(n)' <= Surplus(n)
<1> USE DEF LifeInv, KindInv
<1>1. Hands' = Hands
  BY RequestActionFrame DEF Hands
<1>2. CASE orders'[n] = orders[n] /\ jobs'[n] = jobs[n]
  BY <1>1, <1>2, SurplusNat, SurplusShrinks DEF Chances, OpenRow, JobRow, Lost
<1>3. ASSUME EnqueueJob(r) \/ SaveBalance(r), req[r].number = n
      PROVE  Surplus(n)' <= Surplus(n)
  <2>1. orders[n] = None /\ jobs[n] = None
    BY <1>3 DEF EnqueueJob, SaveBalance, KeysHeld, TypeInv, JobsHaveOrders
  <2>2. ~Held(n)
    BY <2>1, ConstantsAssumption DEF Held, IdleEmpty, TypeInv, WorkersReady, WorkerReady
  <2>3. Hands[n] = 0 /\ Hands'[n] = 0
    BY <1>1, <2>2, HandsNat
  <2>4. CASE EnqueueJob(r)
    <3>1. /\ orders'[n] = req[r].order /\ req[r].order \in Order
          /\ req[r].order.type = "INCOME" /\ req[r].order.status = "NEW"
          /\ jobs'[n] = NewJob
      BY <1>3, <2>4 DEF EnqueueJob, TypeInv, TypeOK, RequestsReady, RequestReady, RequestKinds,
                        UploadsNew
    <3>2. OpenRow(n)' /\ JobRow(n)' = "scheduled"
      <4>1. OpenRow(n)'
        BY <3>1, NoneAssumption DEF OpenRow, Order
      <4>2. jobs'[n] # None /\ jobs'[n].scheduled
        BY <3>1, JobRowsThere, NoneAssumption DEF NewJob, Job
      <4>3. JobRow(n)' = "scheduled"
        BY <3>1, <4>2 DEF JobRow, NewJob, Lost
      <4>4. QED
        BY <4>1, <4>3
    <3>3. Chances(n)' = 1
      BY <2>3, <3>2 DEF Chances
    <3>4. Surplus(n)' = 0
      BY <3>2, <3>3 DEF Surplus
    <3>5. QED
      BY <3>4, SurplusNat
  <2>5. CASE SaveBalance(r)
    <3>1. jobs'[n] = None
      BY <2>1, <2>5 DEF SaveBalance
    <3>2. Chances(n)' = 0
      BY <2>3, <3>1 DEF Chances, JobRow
    <3>3. Surplus(n)' = 0
      BY <3>2 DEF Surplus
    <3>4. QED
      BY <3>3, SurplusNat
  <2>6. QED
    BY <1>3, <2>4, <2>5
<1>4. ASSUME EnqueueJob(r) \/ SaveBalance(r), req[r].number # n
      PROVE  orders'[n] = orders[n] /\ jobs'[n] = jobs[n]
  BY <1>4 DEF EnqueueJob, SaveBalance, TypeInv, TypeOK
<1>5. QED
  BY <1>2, <1>3, <1>4, RequestActionFrame

\* A worker that lets go of a job spends a chance.
LEMMA WorkerSurplus ==
  ASSUME IsFiniteSet(Workers), LifeInv, IdleEmpty, TypeInv',
         NEW w \in Workers, WorkerAction(w), NEW n \in Numbers
  PROVE  /\ Surplus(n)' <= Surplus(n)
         /\ UpdateJob(w) /\ wrk[w].number = n /\ orders[n].status = "PROCESSED" =>
                Surplus(n)' < Surplus(n)
<1> USE DEF LifeInv, KindInv
<1>1. /\ \A v \in Workers \ {w} : wrk'[v].number = wrk[v].number
      /\ jobs \in [Numbers -> Job \cup {None}] /\ jobs' \in [Numbers -> Job \cup {None}]
  BY WorkerActionFrame DEF TypeInv, TypeOK
<1>2. ASSUME orders'[n] = orders[n], jobs'[n] = jobs[n], Hands'[n] = Hands[n]
      PROVE  Surplus(n)' <= Surplus(n)
  BY <1>2, SurplusNat, SurplusShrinks DEF Chances, OpenRow, JobRow, Lost
<1>3. CASE wrk'[w].number = wrk[w].number /\ UNCHANGED tables
  <2>1. Hands'[n] = Hands[n]
    BY <1>1, <1>3, HandsMove
  <2>2. ~UpdateJob(w) \/ wrk[w].number # n
    BY <1>3, ConstantsAssumption DEF UpdateJob, IdleWorker, Holding, TypeInv, TypeOK
  <2>3. QED
    BY <1>2, <1>3, <2>1, <2>2 DEF tables
<1>4. CASE wrk'[w] = IdleWorker /\ (UpdateJob(w) \/ FailJob(w)) /\ wrk[w].number # n
  <2>1. wrk'[w].number # n
    BY <1>4, ConstantsAssumption DEF IdleWorker, Holding
  <2>2. Hands'[n] = Hands[n]
    BY <1>1, <1>4, <2>1, HandsMove
  <2>3. orders'[n] = orders[n] /\ jobs'[n] = jobs[n]
    BY <1>4 DEF UpdateJob, FailJob, TypeInv, TypeOK
  <2>4. QED
    BY <1>2, <1>4, <2>2, <2>3
<1>5. CASE wrk'[w] = IdleWorker /\ (UpdateJob(w) \/ FailJob(w)) /\ wrk[w].number = n
  <2>1. wrk'[w].number # n
    BY <1>5, ConstantsAssumption DEF IdleWorker, Holding
  <2>2. Hands'[n] = Hands[n] - 1
    BY <1>1, <1>5, <2>1, HandsMove
  <2>3. Chances(n) >= Hands[n]
    BY SurplusNat DEF Chances
  <2>4. /\ Surplus(n) >= Hands[n] - 1
        /\ orders[n].status = "PROCESSED" => Surplus(n) >= Hands[n]
    BY <2>3, SurplusNat DEF Surplus, OpenRow
  <2>5. Surplus(n)' <= Hands'[n]
    <3>1. CASE FailJob(w)
      <4>1. jobs'[n] = FailedJob
        BY <1>1, <1>5, <3>1 DEF FailJob
      <4>2. JobRow(n)' = "closed"
        BY <4>1, JobRowsThere DEF JobRow, Lost, FailedJob
      <4>3. Chances(n)' = Hands'[n]
        BY <4>2, SurplusNat DEF Chances
      <4>4. QED
        BY <4>3, SurplusNat DEF Surplus
    <3>2. CASE UpdateJob(w)
      <4> DEFINE o == OrderRow(wrk[w].order)
      <4>1. /\ wrk[w].order \in Order /\ wrk[w].order.amount >= 0
            /\ wrk[w].order.type = "INCOME"
        BY <3>2, NoneAssumption DEF UpdateJob, TypeInv, WorkersReady, WorkerReady, IncomeHeld
      <4>2. o \in Order /\ o.type = "INCOME"
        BY <4>1, OrderRowType
      <4>3. orders'[n] = o /\ jobs'[n] = Handled(o.status)
        BY <1>1, <1>5, <3>2 DEF UpdateJob, TypeInv, TypeOK
      <4> HIDE DEF o
      <4>4. CASE Final(o.status)
        <5>1. JobRow(n)' = "closed"
          BY <1>1, <4>3, <4>4, HandledType, NoneAssumption DEF JobRow, Lost, Handled
        <5>2. Chances(n)' = Hands'[n]
          BY <5>1, SurplusNat DEF Chances
        <5>3. QED
          BY <5>2, SurplusNat DEF Surplus
      <4>5. CASE ~Final(o.status)
        <5>1. OpenRow(n)'
          BY <4>2, <4>3, <4>5, NoneAssumption DEF OpenRow, Final
        <5>2. Chances(n)' <= Hands'[n] + 1
          BY SurplusNat DEF Chances
        <5>3. QED
          BY <5>1, <5>2, SurplusNat DEF Surplus
      <4>6. QED
        BY <4>4, <4>5
    <3>3. QED
      BY <1>5, <3>1, <3>2
  <2>6. QED
    BY <2>2, <2>4, <2>5, SurplusNat
<1>6. ASSUME NEW m \in Numbers, FetchJob(w, m), wrk'[w] = Holding("read", m)
      PROVE  Surplus(n)' <= Surplus(n) /\ ~UpdateJob(w)
  <2>1. /\ wrk[w].pc = "idle" /\ wrk[w].number = None /\ wrk'[w].number = m
        /\ jobs[m] # None /\ jobs[m].scheduled /\ jobs' = [jobs EXCEPT ![m] = Fetched(@)]
        /\ UNCHANGED orders
    BY <1>6 DEF FetchJob, IdleEmpty, Holding, Due
  <2>2. CASE n # m
    <3>1. Hands'[n] = Hands[n]
      BY <1>1, <2>1, <2>2, HandsMove, ConstantsAssumption
    <3>2. QED
      BY <1>2, <2>1, <2>2, <3>1 DEF UpdateJob
  <2>3. CASE n = m
    <3>1. Hands'[n] = Hands[n] + 1
      BY <1>1, <2>1, <2>3, HandsMove, ConstantsAssumption
    <3>2. jobs'[n] = Fetched(jobs[n]) /\ Fetched(jobs[n]) # None
      BY <1>1, <2>1, <2>3, JobRowsThere
    <3>3. JobRow(n) = "scheduled" /\ JobRow(n)' = "taken"
      BY <2>1, <2>3, <3>2 DEF JobRow, Lost, Fetched
    <3>4. Chances(n)' = Chances(n)
      BY <3>1, <3>3, SurplusNat DEF Chances
    <3>5. QED
      BY <2>1, <3>4, SurplusNat, SurplusShrinks DEF OpenRow, UpdateJob
  <2>4. QED
    BY <2>2, <2>3
<1>7. QED
  BY <1>3, <1>4, <1>5, <1>6, NumberKept

\* To schedule a job again adds a chance exactly if it is held.
LEMMA FixSurplus ==
  ASSUME IsFiniteSet(Workers), LifeInv, NEW S \in SUBSET Numbers, FixProcessingTimeout(S),
         NEW n \in Numbers
  PROVE  Surplus(n)' <= IF n \in {m \in S : Held(m)} THEN Surplus(n) + 1 ELSE Surplus(n)
<1>1. UNCHANGED <<orders, wrk>> /\ Hands' = Hands
  BY DEF FixProcessingTimeout, Hands
<1>2. OpenRow(n)' <=> OpenRow(n)
  BY <1>1 DEF OpenRow
<1>3. CASE n \notin S
  <2>1. jobs'[n] = jobs[n]
    BY <1>3 DEF FixProcessingTimeout
  <2>2. QED
    BY <1>1, <1>2, <1>3, <2>1, SurplusNat, SurplusShrinks DEF Chances, JobRow, Lost
<1>4. CASE n \in S
  <2>1. jobs[n] \in Job /\ jobs[n] # None /\ Lost(jobs[n]) /\ jobs'[n] = Requeued(jobs[n])
    BY <1>4 DEF FixProcessingTimeout, LifeInv, KindInv, TypeInv, TypeOK
  <2>2. jobs'[n] # None /\ jobs'[n].scheduled
    BY <2>1, NoneAssumption DEF Requeued, Job
  <2>3. JobRow(n) = "taken" /\ JobRow(n)' = "scheduled"
    BY <2>1, <2>2 DEF JobRow, Lost
  <2>4. /\ Chances(n)' = Hands[n] + 1
        /\ Chances(n) = IF Held(n) THEN Hands[n] ELSE Hands[n] + 1
    BY <1>1, <2>3, HandsNat DEF Chances
  <2>5. QED
    BY <1>2, <1>4, <2>4, SurplusNat, HandsNat DEF Surplus
<1>5. QED
  BY <1>3, <1>4

\* After a crash nobody holds a job, and who held it will not credit it.
LEMMA CrashSurplus ==
  ASSUME IsFiniteSet(Workers), Crash, NEW n \in Numbers PROVE Surplus(n)' <= Surplus(n)
<1>1. UNCHANGED <<orders, jobs>>
  BY DEF Crash, tables
<1>2. Hands'[n] = 0
  <2>1. {w \in Workers : wrk'[w].number = n} = {}
    BY ConstantsAssumption DEF Crash, IdleWorker, Holding
  <2>2. QED
    BY <2>1, FS_EmptySet DEF Hands
<1>3. JobRow(n)' = JobRow(n)
  BY <1>1 DEF JobRow, Lost
<1>4. Chances(n)' <= Chances(n)
  BY <1>2, <1>3, SurplusNat DEF Chances
<1>5. QED
  BY <1>1, <1>4, SurplusShrinks DEF OpenRow

\* No lease is spent twice: what steps add to the surplus they add to the
\* leases overtaken, and a second credit takes one from the surplus.
LEMMA SpentStep ==
  ASSUME IsFiniteSet(Workers), LifeInv, IdleEmpty, TypeInv', [Next]_vars,
         SumFunction(Surpluses) <= overtakes
  PROVE  /\ Spent \in Nat /\ Spent' \in Nat /\ Spent <= Spent'
         /\ \A w \in Workers :
                UpdateJob(w) /\ orders[wrk[w].number].status = "PROCESSED" => Spent < Spent'
<1> DEFINE f == Surpluses
           g == Surpluses'
<1>1. f \in [Numbers -> Nat] /\ g \in [Numbers -> Nat]
  BY SurplusNat DEF Surpluses
<1>2. \A n \in Numbers : f[n] = Surplus(n) /\ g[n] = Surplus(n)'
  BY DEF Surpluses
<1> HIDE DEF f, g
<1>3. SumFunction(f) \in Nat /\ SumFunction(g) \in Nat
  BY <1>1, SumNat, ConstantsAssumption
<1>4. overtakes \in Nat /\ overtakes' \in Nat
  BY DEF LifeInv, KindInv, TypeInv, TypeOK
<1>5. Spent = overtakes - SumFunction(f) /\ Spent' = overtakes' - SumFunction(g)
  BY DEF Spent, f, g
<1>6. SumFunction(f) <= overtakes
  BY DEF f
<1>7. CASE overtakes' = overtakes /\ \A n \in Numbers : Surplus(n)' <= Surplus(n)
  <2>1. SumFunction(g) <= SumFunction(f)
    BY <1>1, <1>2, <1>7, SumMonotonic, ConstantsAssumption
  <2>2. ASSUME NEW w \in Workers, UpdateJob(w), orders[wrk[w].number].status = "PROCESSED"
        PROVE  SumFunction(g) < SumFunction(f)
    <3>1. wrk[w].number \in Numbers /\ WorkerAction(w)
      BY <2>2 DEF UpdateJob, WorkerAction, WorkerStep, LifeInv, KindInv, TypeInv, WorkersReady,
                  WorkerReady
    <3>2. g[wrk[w].number] < f[wrk[w].number]
      BY <1>2, <2>2, <3>1, WorkerSurplus
    <3>3. QED
      BY <1>1, <1>2, <1>7, <3>1, <3>2, SumLess, ConstantsAssumption
  <2>3. QED
    BY <1>3, <1>4, <1>5, <1>6, <1>7, <2>1, <2>2
<1>8. CASE FixAction
  <2>1. PICK S \in SUBSET Numbers : FixProcessingTimeout(S)
    BY <1>8 DEF FixAction
  <2> DEFINE T == {n \in S : Held(n)}
  <2>2. overtakes' = overtakes + Cardinality(T)
    BY <2>1 DEF FixProcessingTimeout
  <2>3. \A n \in Numbers : g[n] <= IF n \in T THEN f[n] + 1 ELSE f[n]
    BY <1>2, <2>1, FixSurplus
  <2>4. T \in SUBSET Numbers
    OBVIOUS
  <2> HIDE DEF T
  <2>5. SumFunction(g) <= SumFunction(f) + Cardinality(T)
    BY <1>1, <2>3, <2>4, SumGrows, ConstantsAssumption
  <2>6. Cardinality(T) \in Nat
    BY <2>4, FS_Subset, FS_CardinalityType, ConstantsAssumption
  <2>7. \A w \in Workers : ~UpdateJob(w)
    BY <2>1, ConstantsAssumption
       DEF FixProcessingTimeout, UpdateJob, IdleWorker, Holding, LifeInv, KindInv, TypeInv, TypeOK
  <2>8. QED
    BY <1>3, <1>4, <1>5, <1>6, <2>2, <2>5, <2>6, <2>7
<1>9. ASSUME NEW r \in Requests, RequestAction(r)
      PROVE  overtakes' = overtakes /\ \A n \in Numbers : Surplus(n)' <= Surplus(n)
  BY <1>9, RequestActionFrame, RequestSurplus DEF LifeInv, KindInv
<1>10. ASSUME NEW w \in Workers, WorkerAction(w)
       PROVE  overtakes' = overtakes /\ \A n \in Numbers : Surplus(n)' <= Surplus(n)
  BY <1>10, WorkerActionFrame, WorkerSurplus DEF LifeInv, KindInv
<1>11. ASSUME Crash
       PROVE  overtakes' = overtakes /\ \A n \in Numbers : Surplus(n)' <= Surplus(n)
  BY <1>11, CrashSurplus DEF Crash
<1>12. ASSUME UNCHANGED vars
       PROVE  overtakes' = overtakes /\ \A n \in Numbers : Surplus(n)' <= Surplus(n)
  <2>1. Hands' = Hands /\ UNCHANGED <<orders, jobs, overtakes>>
    BY <1>12 DEF vars, Hands
  <2>2. QED
    BY <2>1, SurplusNat, SurplusShrinks DEF Chances, OpenRow, JobRow, Lost
<1>13. QED
  BY <1>7, <1>8, <1>9, <1>10, <1>11, <1>12, StepCases

\* The most that is granted for an order, and what its row can count for.
LEMMA HighestGrant == Highest \in Nat /\ \A a \in Accruals : a <= Highest
<1>1. PICK h \in Accruals \cap Nat : \A a \in Accruals : a <= h
  BY HighestAssumption
<1>2. Highest \in Accruals /\ \A a \in Accruals : a <= Highest
  BY <1>1 DEF Highest
<1>3. QED
  BY <1>1, <1>2, ConstantsAssumption

LEMMA ShareGranted ==
  ASSUME GrantInv, NEW n \in Numbers, NEW u
  PROVE  /\ Share(orders[n], u, "INCOME") <= Highest
         /\ Share(orders[n], u, "INCOME") # 0 => orders[n].status = "PROCESSED"
<1>1. CASE Share(orders[n], u, "INCOME") = 0
  BY <1>1, HighestGrant
<1>2. CASE Share(orders[n], u, "INCOME") # 0
  <2>1. /\ orders[n] # None /\ orders[n].type = "INCOME" /\ orders[n].status = "PROCESSED"
        /\ Share(orders[n], u, "INCOME") = orders[n].amount
    BY <1>2 DEF Share
  <2>2. Decides(verdicts[n], orders[n])
    BY <2>1 DEF GrantInv, DecidedRows, Final
  <2>3. orders[n].amount \in Accruals
    BY <2>1, <2>2 DEF GrantInv, VerdictsMade, Decides
  <2>4. QED
    BY <2>1, <2>3, HighestGrant
<1>3. QED
  BY <1>1, <1>2

LEMMA Multiples ==
  ASSUME NEW h \in Nat, NEW a \in Nat, NEW b \in Nat
  PROVE  /\ h * a \in Nat /\ h * b \in Nat
         /\ a <= b => h * a <= h * b
         /\ a < b => h * a + h <= h * b
<1>1. h * a \in Nat /\ h * b \in Nat
  OBVIOUS
<1>2. ASSUME NEW c \in Nat, NEW d \in Nat, c <= d PROVE h * c <= h * d
  <2>1. d - c \in Nat /\ h * (d - c) \in Nat
    BY <1>2
  <2>2. h * d = h * c + h * (d - c)
    BY <1>2
  <2>3. h * c \in Nat /\ h * d \in Nat
    OBVIOUS
  <2>4. QED
    BY <2>1, <2>2, <2>3
<1>3. a < b => h * (a + 1) <= h * b
  BY <1>2
<1>4. h * (a + 1) = h * a + h
  OBVIOUS
<1>5. QED
  BY <1>1, <1>2, <1>3, <1>4

LEMMA OverpaymentStep ==
  ASSUME Unit = 1, IsFiniteSet(Workers), OverpaymentInv, [Next]_vars PROVE OverpaymentInv'
<1> USE DEF LifeInv, KindInv
<1>1. LifeInv' /\ IdleEmpty' /\ CopyUsers' /\ GrantInv' /\ CopiesPaid' /\ WithdrawalsPaid'
  BY LifeStep, IdleEmptyStep, CopyUsersStep, GrantStep, CopiesPaidStep, WithdrawalsPaidStep
     DEF OverpaymentInv
<1>2. TypeInv /\ TypeInv' /\ KindInv
  BY <1>1 DEF OverpaymentInv
<1>3. /\ Spent \in Nat /\ Spent' \in Nat /\ Spent <= Spent'
      /\ \A w \in Workers :
            UpdateJob(w) /\ orders[wrk[w].number].status = "PROCESSED" => Spent < Spent'
  BY <1>2, SpentStep DEF OverpaymentInv
<1>4. SumFunction(Surpluses)' <= overtakes'
  <2>1. Surpluses' \in [Numbers -> Nat]
    BY SurplusNat DEF Surpluses
  <2>2. SumFunction(Surpluses') \in Nat /\ overtakes' \in Nat
    BY <1>2, <2>1, SumNat, ConstantsAssumption DEF TypeInv, TypeOK
  <2>3. QED
    BY <1>3, <2>2 DEF Spent
<1>5. ASSUME NEW u \in Users
      PROVE  books'[u].earned <= EarnedRows(u)' + Highest * Spent'
  <2> DEFINE a == Highest * Spent
             b == Highest * Spent'
  <2>1. /\ a \in Nat /\ b \in Nat /\ a <= b
        /\ Spent < Spent' => a + Highest <= b
    BY <1>3, HighestGrant, Multiples
  <2>2. /\ EarnedRows(u) \in Nat /\ EarnedRows(u)' \in Nat
        /\ books[u].earned \in Nat
    <3>1. TypeOK /\ TypeOK'
      BY <1>2 DEF TypeInv
    <3>2. IsRows(orders') /\ EarnedRows(u)' = SumFunction(Shares(orders', u, "INCOME"))
      BY <3>1, OrdersTotal DEF TypeOK, IsRows
    <3>3. EarnedRows(u)' \in Nat
      BY <3>2, SharesType, SumNat, ConstantsAssumption
    <3>4. QED
      BY <3>1, <3>3, TotalsNat DEF TypeOK
  <2>3. books[u].earned <= EarnedRows(u) + a
    BY DEF OverpaymentInv
  <2> HIDE DEF a, b
  <2>4. CASE UNCHANGED <<orders, books>>
    <3>1. EarnedRows(u)' = EarnedRows(u)
      BY <2>4 DEF EarnedRows, RowsOf
    <3>2. QED
      BY <2>1, <2>2, <2>3, <2>4, <3>1 DEF b
  <2>5. ASSUME NEW r \in Requests, EnqueueJob(r) \/ SaveBalance(r)
        PROVE  books'[u].earned <= EarnedRows(u)' + b
    <3>1. books'[u].earned = books[u].earned /\ EarnedRows(u)' = EarnedRows(u)
      BY <1>2, <2>5, UploadEntered, WithdrawalEntered DEF OverpaymentInv
    <3>2. QED
      BY <2>1, <2>2, <2>3, <3>1
  <2>6. ASSUME NEW w \in Workers, UpdateJob(w)
        PROVE  books'[u].earned <= EarnedRows(u)' + b
    <3> DEFINE share == Share(orders[wrk[w].number], u, "INCOME")
    <3>1. PICK earned \in Nat :
            /\ share \in Nat
            /\ EarnedRows(u)' = EarnedRows(u) - share + earned
            /\ books'[u].earned = books[u].earned + earned
      BY <1>2, <2>6, AnswerEntered DEF OverpaymentInv
    <3>2. wrk[w].number \in Numbers
      BY <1>2, <2>6 DEF UpdateJob, TypeInv, WorkersReady, WorkerReady
    <3>3. share <= Highest /\ (share # 0 => Spent < Spent')
      BY <1>3, <2>6, <3>2, ShareGranted DEF OverpaymentInv
    <3> HIDE DEF share
    <3>4. a + share <= b
      BY <2>1, <3>1, <3>3, HighestGrant
    <3>5. QED
      BY <2>1, <2>2, <2>3, <3>1, <3>4
  <2>7. CASE FixAction \/ Crash \/ UNCHANGED vars
    BY <2>4, <2>7 DEF FixAction, FixProcessingTimeout, Crash, vars, tables, b
  <2>8. QED
    BY <1>2, <2>4, <2>5, <2>6, <2>7, StepCases, RequestActionFrame, WorkerActionFrame DEF b
<1>6. QED
  BY <1>1, <1>4, <1>5 DEF OverpaymentInv

LEMMA OverpaymentInit == ASSUME IsFiniteSet(Workers), Init PROVE OverpaymentInv
<1>1. PaidInv /\ LifeInv /\ GrantInv
  BY PaidInit, LifeInit, GrantInit
<1>2. \A n \in Numbers : Surpluses[n] = 0
  <2>1. ASSUME NEW n \in Numbers PROVE Surplus(n) = 0
    <3>1. Hands[n] = 0
      <4>1. ~Held(n)
        BY ConstantsAssumption DEF Init, Held, IdleWorker, Holding
      <4>2. QED
        BY <4>1, HandsNat
    <3>2. JobRow(n) = "none"
      BY DEF Init, JobRow
    <3>3. QED
      BY <3>1, <3>2 DEF Surplus, Chances
  <2>2. QED
    BY <2>1 DEF Surpluses
<1>3. SumFunction(Surpluses) = 0
  <2>1. Surpluses \in [Numbers -> Nat]
    BY SurplusNat DEF Surpluses
  <2>2. QED
    BY <1>2, <2>1, SumZero, ConstantsAssumption
<1>4. overtakes = 0
  BY DEF Init
<1>5. Spent = 0 /\ Highest * Spent = 0
  BY <1>3, <1>4, HighestGrant DEF Spent
<1>6. ASSUME NEW u \in Users PROVE books[u].earned <= EarnedRows(u) + Highest * Spent
  <2>1. books[u].earned = 0 /\ EarnedRows(u) \in Nat
    BY <1>1, TotalsNat DEF Init, LifeInv, KindInv, TypeInv
  <2>2. QED
    BY <1>5, <2>1
<1>7. QED
  BY <1>1, <1>3, <1>4, <1>6 DEF OverpaymentInv, PaidInv, HolderInv

\* What a client is shown as balance (GetBalance) exceeds the accruals in the
\* listing of orders (GetOrders) by no more than the highest accrual for each
\* lease that was overtaken: however the copies that FixProcessingTimeout lets
\* come about are handled, saved, failed, requeued or lost in a crash, at
\* either isolation level, where amounts have no fractions of a cent.
THEOREM OverpaymentAlwaysBounded ==
  ASSUME Unit = 1, IsFiniteSet(Workers) PROVE Spec => []OverpaymentBounded
<1>1. ASSUME BalancesBooked, OverpaymentInv PROVE OverpaymentBounded
  <2> SUFFICES ASSUME NEW u \in Users
               PROVE  GetBalance(u).current + GetBalance(u).withdrawn
                        <= SumFunction([n \in GetAll("INCOME", u) |->
                                            GetOrders(u).shown[n].accrual])
                             + overtakes * Highest
    BY DEF OverpaymentBounded
  <2>1. TypeOK
    BY <1>1 DEF OverpaymentInv, LifeInv, KindInv, TypeInv
  <2>2. /\ GetBalance(u).current = balances[u].current
        /\ GetBalance(u).withdrawn = balances[u].withdrawn
    BY DEF GetBalance, BalanceResponse
  <2>3. balances[u].current + balances[u].withdrawn <= books[u].earned
    BY <1>1 DEF BalancesBooked
  <2>4. books[u].earned <= EarnedRows(u) + Highest * Spent
    BY <1>1 DEF OverpaymentInv
  <2>5. Spent \in Nat /\ Spent <= overtakes /\ overtakes \in Nat
    <3>1. Surpluses \in [Numbers -> Nat]
      BY <1>1, SurplusNat DEF Surpluses
    <3>2. SumFunction(Surpluses) \in Nat /\ overtakes \in Nat
      BY <2>1, <3>1, SumNat, ConstantsAssumption DEF TypeOK
    <3>3. QED
      BY <1>1, <3>2 DEF OverpaymentInv, Spent
  <2>6. /\ Highest * Spent <= Highest * overtakes /\ Highest * overtakes = overtakes * Highest
        /\ Highest * Spent \in Nat /\ Highest * overtakes \in Nat
    BY <2>5, HighestGrant, Multiples
  <2>7. /\ EarnedRows(u) \in Nat /\ books[u].earned \in Nat
        /\ balances[u].current \in Nat /\ balances[u].withdrawn \in Nat
    BY <2>1, TotalsNat DEF TypeOK, Balance
  <2>8. balances[u].current + balances[u].withdrawn <= EarnedRows(u) + overtakes * Highest
    BY <2>3, <2>4, <2>6, <2>7
  <2>9. QED
    BY <2>1, <2>2, <2>8, UploadsShown
<1>2. OverpaymentInv /\ [Next]_vars => OverpaymentInv'
  BY OverpaymentStep
<1>3. Init => OverpaymentInv
  BY OverpaymentInit
<1>4. QED
  BY <1>1, <1>2, <1>3, BalancesAlwaysBooked, PTL DEF Spec
=============================================================================
