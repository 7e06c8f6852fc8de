# A TLA+ verification project for gophermart

This directory models the loyalty system *gophermart* (the repository around
it) in TLA+: the use cases over their PostgreSQL tables, the background
pipeline that asks the accrual system about uploaded orders, registration and
login, and the check of order numbers. TLC checks the models on small
instances; TLAPS proves the safety properties of the passing runs and the
refinements of the job table for every value of the constants, all but the two
that rest on an isolation level the code does not ask for (section 6).
`PROJECT.json` lists, for every definition, the source lines it stands for, and
every run, property, hazard and theorem.

    tlc -workers 2 -config Safety.cfg MCGophermart     # a run
    tlapm GophermartProofs.tla                          # a proof

## 1. The system

A client registers (`POST /api/user/register`), logs in, uploads order numbers
(`POST /api/user/orders`), reads its balance and withdraws
(`POST /api/user/balance/withdraw`). For each uploaded order a *job* is put in
a table in the same transaction. A pipeline inside the process fetches jobs,
asks the external accrual system what the order is worth, and writes order,
balance and job in one transaction.

| component | state | operations | what makes it correct |
|---|---|---|---|
| entities (`internal/entity`, row conversions in `internal/infra/repo`) | none; values | `Order.Update`, `Balance.Update`, `Job` constructors, rounding to cents | a balance is never negative; final orders refuse updates |
| order use case (`usecase/order.go`, `repo/order_postgres.go`) | table `orders` | `Create`, `UpdateAccrual`, listing | a number belongs to one user; an accrual is credited once; a final order stays as it is, and listings never go back |
| balance use case (`usecase/balance.go`, `repo/balance_postgres.go`) | table `balances` | `Withdraw`, reading | nobody spends more than they earned; the balance agrees with the orders, and the listings explain it |
| job use case (`usecase/job.go`, `repo/job_postgres.go`) | table `jobs` | `GetUpdate`, `Handle`/`pollAccrual`, `fail`, `FixProcessingTimeout` | a job has one holder; no accepted order is forgotten, also across crashes; none starves, and a lost one is back in time |
| pipeline (`infra/pipeline`, `services/job/queue.go`) | trigger channel, job channel, workers, read-write lock, contexts | poll, handle and fix stages, `Shutdown` | nothing gets lost between stages; whoever stops stops everything; a pause after a 429 excludes handlers |
| application (`internal/app`) | life of the process | start, signal, shutdown, exit | handlers are not cut off before the configured timeout |
| accounts (`usecase/auth.go`, `repo/user_postgres.go`) | table `users` | `Register`, `Login` | logins are unique, every user has a balance, a token names the right account |
| number check (`services/checksum`, `services/validator`) | none | `ValidateLuhn` | accepts exactly the numbers with the right check digit |
| accrual client (`services/api`) | none | `Get` | 429 is told apart from other errors |
| accrual system (external binary) | verdicts | answers | (environment) |
| tokens and the middleware (`services/token`, `middlewares/auth.go`) | none; a token outlives crashes | `Create`, `GetUserID`, `Auth` | nobody acts for a user without that user's password, nor longer than configured |
| hashes, router and endpoints, configuration, logging, migrations, docs | none, or the schema | – | see section 8 |

**How they interact.** Requests run concurrently with each other and with the
workers of the pipeline; they share nothing but the tables. A use case opens a
transaction at the default isolation of the database and issues single
statements; entities are read, changed in memory and written back as whole
rows. `JobQueue.Enqueue` inserts the job and pulls the trigger from inside the
upload's transaction. The poll stage sends fetched jobs through a buffered
channel to the workers of the handle stage; the fix stage reschedules jobs
that have been `PROCESSING` for longer than a timeout. The stages run in error
groups: the end of one worker with an error cancels the other workers, then
the stages, then the application.

**What is hard about it.**

- Read-modify-write: `Withdraw` and `updateBalance` read a balance, decide on
  the copy, and overwrite the row some statements later. The same holds for
  the order, with a call to another system in between.
- Unique keys under races: looking a number (or login) up and inserting it are
  two statements; the loser meets the conflict in another branch of the code.
- Leases: a job that waits long in the channel, or whose handler waits long for
  the accrual system, is rescheduled while it is still held.
- Crashes between the fetch and the save of a job, or inside its transaction.
- Lost jobs are found by the age of their row alone, and `GetUpdate` takes jobs
  whose time has not come: order and age of rows are all there is against
  starvation.
- What a client reads it reads in several requests, between other people's
  commits; a token is believed without a look at the database.
- The trigger comes before the commit it announces.
- Shutdown: three stages, two contexts, a channel that may be full, a
  read-write lock that may be held for a minute.
- Rounding to cents, separately for orders and balances.

## 2. Modules

| module | models | composed of |
|---|---|---|
| `Entities` | the records and the pure operations on them, and what saving a row does to them | |
| `Ledger` | the abstract promise: upload, mark, credit, spend as atomic steps | `Entities` |
| `JobTable` | the abstract promise of table `jobs`: scheduled, taken by a holder, closed | |
| `Gophermart` | requests, workers, the fix and crashes over the tables, one action per statement | `Entities`; refines `Ledger` and `JobTable` |
| `Reading` | what the read-only endpoints answer in each state of `Gophermart` | `Gophermart` |
| `Pipeline` | the stages and the life of the process, with `orders` left out | refines `JobTable` |
| `Schedule` | the time stamps of jobs: the order of fetches, delays, the processing timeout | refines `JobTable` |
| `Auth` | registration and login | |
| `Sessions` | the clock, the life of a token, the middleware that asks for it | `Auth` |
| `Luhn` | the number check | |
| `MC…` | symmetry and values of constants for TLC | |
| `SumTheorems` | what sums over finite sets do, for the proofs | |
| `…Proofs` | theorems, see section 6; `BooksProofs` has those about the money in `Gophermart` and `Reading` | the module they are about |

`Gophermart`, `Pipeline` and `Schedule` look at one table from three sides: the
transactions that write a job among other rows, the process that moves jobs
through its stages, and the columns that say when. Each refines `JobTable`
(`TableSpec` in each of them), which is what connects them: whatever one of
them assumes of the table, the others keep.

### Gophermart

`orders`, `balances`, `jobs` hold the *committed* rows (`None`: no row). What
a transaction has written but not committed is in the local state of the
request (`req`) or worker (`wrk`) that runs it, and so are the locks it holds:
`OrderLocked`, `BalanceLocked` and `KeyLocked` say that some transaction is
past the statement that takes the lock; none of them asks for a lock it has. A
statement that would wait in PostgreSQL is an action that is not enabled.

| code | action |
|---|---|
| `createOrder`, first half of `OrderUseCase.Create` | `PostOrder` |
| `OrderRepo.Create` | `InsertOrder` |
| `JobQueue.Enqueue` and commit | `EnqueueJob` |
| `withdraw`, `BalanceUseCase.Withdraw` up to the insert | `PostWithdraw` |
| `BalanceRepo.Update` and commit | `SaveBalance` |
| `JobRepo.GetUpdate` | `FetchJob` |
| `OrderUseCase.UpdateAccrual`, statement by statement | `ReadOrder`, `AskAccrual` / `TooManyRequests`, `ReadBalance`, `UpdateOrder`, `UpdateBalance` |
| end of `pollAccrual`, commit | `UpdateJob` |
| an error in any of these | `AbortRequest`, `AbortHandle`, `FailJob` |
| `JobRepo.FixProcessingTimeout` | `FixProcessingTimeout` |
| the process dies and is started again | `Crash` |

`Isolation` is a parameter. The code never sets an isolation level, so it runs
at whatever `default_transaction_isolation` is: `"read committed"` unless the
operator changes it. At `"repeatable read"` a transaction reads from the
snapshot `seen`, and overwriting a row that has changed since is not enabled:
the transaction is left with `Abort…`, which is what a serialization failure
is. Nothing in the repository asks for that level; one run, `Atomic`, looks at
what it would give, and no theorem is about it. `books` is a history variable: what was ever put on or taken off a balance.
No action reads it.

Money is an integer number of 1/`Unit` cents. `Round` is `decimal.Round(2)`,
applied where the code makes rows.

### Reading

The three listing endpoints are single `SELECT`s outside any transaction: an
operator on the committed rows for each (`GetOrders`, `GetWithdrawals`,
`GetBalance`, over `GetAll`, the query with its filter). A client may be
answered in any state, so that a property of two answers is one of two states.
`GET /api/user/orders` lists withdrawals too, as the code does.

### JobTable

`row`, `holders` and `overtaken` are what a committed row says, how many copies
of the job are in somebody's hands, and how often the fix stage took a job
from a living holder. `Update` by a holder asks nothing of the row, `Drop` is
the end of any number of holders without a word.

### Pipeline

`rows` is the job table seen from the pipeline (`"pending"`: inserted but not
committed, so no fetch can see it). `poll`, `queue`, `wrk` and `fix` are the
goroutines and the channel; `inner` and `outer` are the context of the workers
and the one of the stages; `app`, `waited` are the life of the process. The
write lock is held by the worker at `"pause"`, read locks by those at
`"handle"`. `TryLock` is three steps, as in Go's `sync.RWMutex`: it takes the mutex
inside the lock, looks for readers, and gives the mutex back, so that it fails
also when another `TryLock` that will fail is under way. A worker whose `TryLock`
fails does not wait: it asks again at once, and so may all of them, turn and turn
about. Times are left out: a timer may fire at any moment, so a property
that holds here holds for every setting of the delays.

### Schedule

Instead of `next_attempt_at` and `updated_at` the model keeps what the
statements tell apart: `due` is the order of the rows whose time has come,
`clock` the ticks to the next attempt, or since the fetch. `Selected` is the
`ORDER BY next_attempt_at LIMIT` of `GetUpdate`, over *all* rows with a next
attempt. `passes` is history: how many fetches left a job behind.
Handlers keep their lease here; what happens if not is in the other two.

### Auth

`users` and `balances` are committed rows. A uuid is named by the request that
makes it. `KeyLocked` is the wait of an `INSERT` for another one of the same
login; `Violates` is the violation of `users_login_key`, which `ON CONFLICT
(id)` does not catch.

### Sessions

Each step of `Auth` is a step of `Sessions`; one that makes a token gives it an
expiry. `ExpiresAt` is `jwt.NewNumericDate`, which drops the fraction of the
second, and `ActsFor` is whom the middleware takes the bearer of a token for:
the expiry test of the library and the one `GetUserID` adds, which looks the
other way at the boundary. `made` is history.

### Luhn

A number is the sequence of its bytes; `Addend` has the parity exactly as the
code computes it. The reference is the check-digit definition, from the right,
with the table of doubled digits.

## 3. Runs

`NAME.cfg` belongs to run *NAME*. Symmetry is used in the safety runs only.

| run | question | instance | shows |
|---|---|---|---|
| `Safety` | do uploads, withdrawals, jobs and readers of two users get along at read committed? | 3 requests, 2 workers, 3 valid numbers and an invalid one, sums 0, 1, 2, accruals -1, 2, one crash, no overtaken lease | `TypeOK`, `CreditedOnce`, `NotMoreThanGranted`, `Receipts`, `OneHolder`, `ReadYourWrites`, `BalanceExplained`, `ListingsAdvance` |
| `Overtaken` | what still holds when a lease runs out under its holder, and does everybody get on? | one user, 2 requests, 2 numbers, 2 workers, sum 1, accrual 2, one overtaken lease, one crash | `OverpaymentBounded`, `DecisionShown`, `JobTellsOrder`, `JobsRecoverable`, `TableSpec` (refinement of `JobTable`), `RequestsEnd`, `OrdersSettle` |
| `Atomic` | does repeatable read make the use cases atomic? | 2 users, 3 requests, 2 workers, 3 numbers, sum 1, accruals 0, 2, one crash, at repeatable read | `LedgerSpec` (refinement of `Ledger`), `BalanceExact` |
| `Pipeline` | what do the stages lose, duplicate, wait for or forget? | 2 jobs, 2 workers, buffer 2, one stop or crash, one overtaken lease | `TypeOK`, `TakenInHand`, `CopiesBounded`, `PauseExcludes`, `StopsWhole`, `JobsSettle`, `TableSpec` |
| `Schedule` | is every job fetched, and a lost one in time? | 3 jobs, one per fetch, processing timeout 1, fix delay 2, attempts counted to 3, one crash, one failed run of the fix stage | `TypeOK`, `DueServed`, `LostNotLong`, `Fetched`, `TableSpec` |
| `Sessions` | do racing, failing registrations keep accounts in order, and tokens their word? | 4 requests, 2 logins, 2 passwords, any fault; 2 ticks a second, a life of 3, times 0 to 4 | `SessionTypeOK`, `Accounts`, `TokensHonest`, `RegisteredOnce`, `SessionsHonest`, `SessionsLast` |
| `Luhn` | is the code's sum the Luhn check? | every number of up to 4 of the bytes `/ 0 … 9 :` | `AcceptsLuhn`, `CatchesTypos` |

And the runs that end in a counterexample, which section 5 explains:
`Overdraft` (`NoOverdraft`), `DoubleCredit` (`NotMoreThanGranted`), `ForeignUpload`
(`OwnerAnswer`), `Withdrawn` (`UploadsListed`), `GracefulExit` (`GracefulExit`).

**Why the bounds are enough.** Every race in this code is between two
transactions on one row or key. Two users, two workers and three requests have
all pairs (upload/upload, upload/withdrawal, withdrawal/withdrawal,
job/withdrawal, job/job) in the same behaviour as an upload that gives the
money to withdraw; a third valid number lets two orders and a withdrawal of
one user exist together. A worker of `Gophermart` is any place in the process
where a fetched job can be (a handler or a slot of the channel), so two workers
mean two jobs in memory. In `Overtaken` they are the two that have one job, and one
user is enough: all waiting there is for a number or for one balance, and what
holds of more users is proved (section 6). One crash is enough for every interrupted
step, since a crash leaves only committed rows behind, which are arbitrary
reachable rows. In `Pipeline` a batch of two can be half sent; both jobs may lie
in the channel while the overtaken lease puts one of them into the next batch,
so that the poll stage blocks on a full channel. In `Schedule` a fetch takes one
of three jobs, the least that makes two jobs wait for a third; a processing
timeout shorter than the delay of the fix stage lets a lost job miss one of its
runs. In `Sessions` a life of one second and a half begins at either half of a
second. In `Luhn`, both parities of the length and of the position and
all carries occur with three digits already. The bounds are `MaxCrashes`,
`MaxOvertakes`, `MaxStops`, `MaxFailures`, `MaxNow` and `MaxLength`, each a guard
of one action, and `MaxAttempt`, where the attempts stop being counted; uploads
and withdrawals are bounded by the set `Requests`, jobs by `Jobs`.

`MaxOvertakes = 0` means: no lease runs out while its job is held, which is
what the processing timeout is configured for and what the code does not
enforce. `Safety` therefore says nothing of stale copies; `Overtaken` says what is
left of its properties when a lease is overtaken, and `DoubleCredit` and section 5
what is not. `CHECK_DEADLOCK FALSE` is set for `Sessions` and `Luhn`, where the clients
(the typist) may be done; `Gophermart` has the idle polling as the step
`NoData`, so that a real deadlock of locks would be found.

**Fairness.** `FairSpec` of `Gophermart` and `Pipeline` assumes that

- goroutines are scheduled and statements return (weak fairness of the steps
  of requests, workers and stages), and the fix stage's timer fires;
- a job scheduled again and again is fetched (strong fairness): `GetUpdate`
  orders by `next_attempt_at`, so that it takes the job waiting longest;
- an accrual system that is asked again and again decides in the end, and its
  handler once goes through (strong fairness of the deciding answer);
- after it died the process is started again.

It assumes nothing of clients, errors, 429s, signals and crashes: those may
happen or not. Without the third assumption an order may be computed for ever,
and without the fourth nothing follows from a crash.

`FairSpec` of `Schedule` assumes less: that *some* fetch happens, handlers end,
the fix stage runs and time passes (weak fairness of each). That every
single job is then fetched is the property `Fetched`: it is what
justifies the strong fairness of fetches that the two models without time
assume.

## 4. Properties

*Ledger side.* `CreditedOnce` relates the history of balances to the rows of
orders: what was credited is exactly the amounts of `PROCESSED` orders.
`NotMoreThanGranted` relates balances to the verdicts of the accrual system.
`OverpaymentBounded` is what is left of it when leases run out: of the workers that
hold one order, and of those that fetch it after a stale copy made it open again,
each may credit it once, so that a balance exceeds what the listing shows by at
most the highest accrual for each lease that was overtaken. `DecisionShown`:
a stale copy may take a final status back, but a final status that is shown is
the decision of the accrual system. `Receipts` relates what clients were told to what is stored.
`OneHolder` is the lease. `JobTellsOrder` and `JobsRecoverable` tie jobs to
orders so that no accepted order drops out of sight. `LedgerSpec` says that the
statements of the use cases, interleaved, add up to the atomic steps of
`Ledger`, if reads are repeatable; the refinement mapping is the identity on
committed rows. `BalanceExact`, that a balance is what the user's rows add up to,
holds there too, and fails at the level the code runs at (section 5).

*Reader side.* `ReadYourWrites`: a user's list of orders has every upload that was
accepted, the list of withdrawals exactly those that were, and neither has
anything else. `BalanceExplained`: while leases are kept, the balance never
shows more than the listings account for. `ListingsAdvance`: while leases are
kept, whoever lists again finds all orders again, none less advanced, final ones
unchanged; one overtaken lease breaks this (section 5).

*Job table.* `TableSpec`, in three modules, with one mapping each: rows to
scheduled, taken or closed, and copies (workers; batch, channel and workers;
living handlers) to holders.

*Pipeline side.* `TakenInHand`: before the first stop a job that is taken in
the table is in memory, once per lease (`CopiesBounded`). `PauseExcludes`:
while one worker sits out a Retry-After, no handler asks.
`StopsWhole`: the end of one worker ends the process, even with a full channel
and a held lock. `JobsSettle`: no committed job is forgotten although triggers
come early and stops drop everything in memory.

*Schedule.* `DueServed`: fetching jobs that were put off before their time
starves none whose time has come. `LostNotLong`: a bound on how long a job stays
lost, by the runs of the fix stage that failed. `Fetched`: see fairness.

*Accounts.* `Accounts`, `TokensHonest`, `RegisteredOnce` for racing
registrations and logins; `SessionsHonest` and `SessionsLast` bound the life of a
session from both sides.

*Mutants.* Each property of a passing run has a mutant in the modules (an
operator next to the one it replaces: `CanApplyUncovered`, `FinalInvalidOnly`,
`RestForgotten`, …) that TLC finds to break it.

## 5. Where the code and its documents disagree

Each of these is a run with a counterexample.

- **`Overdraft`.** `BalanceUseCase.Withdraw` checks a copy of the balance. At
  read committed two withdrawals of one user both pass and both are paid, and
  the second overwrites the first's balance; the specification promises 402.
- **`DoubleCredit`.** When a lease runs out while the job is handled, two
  workers read the order before either commits and both credit it.
- **`ForeignUpload`.** Two users upload one number at once. The loser's
  `INSERT` conflicts, and `Create` returns `ErrOrderExists`, answered
  200 ("already uploaded by this user") where the specification wants 409.
- **`Withdrawn`.** `GET /api/user/orders` asks for orders of either type, so that
  withdrawals are listed among the uploaded orders (`SPECIFICATION.md:52`, `:151`).
- **`GracefulExit`.** `New` does not copy `cfg.ShutdownTimeout`, so `Shutdown`
  waits for no time at all, whatever `config.yml` says, and the process exits
  while stages have not stopped.

Others the models show but no run is kept for:

- A final order may become open again: `Order.Update` refuses to change a final
  order, but looks at the worker's copy. After an overtaken lease that copy may
  be older than a row that is final by then, and makes it `PROCESSING` again;
  `SPECIFICATION.md:365` says that these statuses are final. `ListingsAdvance` in
  place of the properties of `DoubleCredit` finds it.
- An accrual that was granted is not always credited: any error but a 429 makes
  `fail` close the job for good (`FailJob`), and the order is never decided. That
  goes for a 429 whose `Retry-After` is no number, too: `Get` makes it an ordinary
  error. This is why `OrdersSettle` has to count a failed job as settled.
- Sums are rounded to cents separately in `orders` and `balances`. With `Unit = 2`
  `NoOverdraft` fails without any race: a withdrawal of half a cent is stored as a
  whole cent, and leaves the balance, rounded on its own, as it was; a second one
  is paid from it again.
- Two registrations of one login both pass the look-up. The loser's `INSERT`
  violates the key on `login`, which `ON CONFLICT (id)` does not catch (`Violates`),
  and is answered 500 where `SPECIFICATION.md:94` wants 409.
- `BalanceExact` fails at read committed without any withdrawal check being
  involved: a withdrawal and a credit overwrite each other (`Atomic` shows that
  repeatable read is a cure).
- A worker that was answered 429 asks again at once if its `TryLock` fails, because
  another worker is in its handler or is trying for the lock as well (`TryLock`
  and `Release` go back to `"lock"`).
- `GetUpdate` takes a job as soon as its `next_attempt_at` is not null, also
  when it lies in the future, so the delays of `pollAccrual` only order the jobs
  (`DueServed` shows that this starves none).

And some seen in the code, outside the models: both listings are sorted by
`created_at` ascending where `SPECIFICATION.md:155` and `:273` want the newest
first; `config.yml:18` has the `shutdown_timeout` of the HTTP server under
`accrual_api`, where nothing reads it, and `app.go:47` passes the server the zero
that is left instead of keeping its default, so that it does not wait for open
requests either; the accrual client has no timeout.

## 6. Proofs

| theorem | says | argument |
|---|---|---|
| `GophermartProofs!TypeCorrect` | `Spec => []TypeOK` | `TypeOK` alone is not inductive: that a balance stays natural needs that a request's copy is covered, that an amount in a worker's copy is not negative and that a handler at a given `pc` has its order and balance. `TypeInv` adds these; one lemma per group of actions |
| `GophermartProofs!JobAlwaysTellsOrder`, `JobsAlwaysRecoverable` | `Spec => []JobTellsOrder`, … | `LifeInv`: with `KindInv` (who has which kind of order in hand), uploads insert `NEW` orders, and a handler that closes a job has a final copy of the order, also a stale one |
| `GophermartProofs!OneHolderAlways` | `MaxOvertakes = 0` implies `Spec => []OneHolder` | `HolderInv`: a fetch finds scheduled rows only, and no worker at rest holds a number |
| `GophermartProofs!ReceiptsAlways` | `Spec => []Receipts` | `ReceiptInv`: orders never go and keep user and type (a worker's copy has both), and two requests past their `INSERT` differ in number (`KeysHeld`) |
| `GophermartProofs!WritesAlwaysRead` | `Spec => []ReadYourWrites` | `ReceiptInv`, and that only uploads and withdrawals are accepted; `Unfiltered` is no user (`UnfilteredAssumption`) |
| `GophermartProofs!ListingsAlwaysAdvance` | `MaxOvertakes = 0` implies `Spec => ListingsAdvance` | on top of `HolderInv`, `Fresh`: who holds the job alone has a copy as old as the row, and the row is open when the copy is advanced |
| `GophermartProofs!GophermartIsTable` | `Spec => TableSpec`, for finitely many workers | every action maps to a step of `JobTable` or a stutter; the count of holders is a cardinality, and a worker that takes or lets go of a number changes it by one |
| `BooksProofs!CreditedAlwaysOnce` | `MaxOvertakes = 0` implies `Spec => []CreditedOnce` | `PaidInv`: a worker has a balance to save exactly if its copy of the order is `PROCESSED`; by `Fresh` the row it overwrites still counts for nothing, so that books and rows change by the same amount |
| `BooksProofs!GrantsSuffice`, `AlwaysExplained` | `MaxOvertakes = 0` and `Unit = 1` imply `Spec => []NotMoreThanGranted`, `[]BalanceExplained` | balance ≤ books (`BalancesAlwaysBooked`: every *copy* of a balance is bounded by the books and the handler's own pending amount, and the books only grow) = rows (`CreditedAlwaysOnce`) ≤ verdicts (`GrantInv`: a copy becomes final by a verdict, and verdicts stay), and rows are what the listings show |
| `BooksProofs!DecisionAlwaysShown` | `Unit = 1` implies `Spec => []DecisionShown` | `GrantInv` again: a final copy, and so a final row, is the verdict, however old the copy |
| `BooksProofs!OverpaymentAlwaysBounded` | `Unit = 1` implies `Spec => []OverpaymentBounded`, for finitely many workers | see below |
| `JobTableProofs!LeaseHolds` | `Spec => []LeaseBound`, for finitely many jobs | `LeaseInv`: with `UnbornUnheld`, since a job that is created must not be held |
| `PipelineProofs!PipelineTypeCorrect`, `PipelineIsTable` | `Spec => []TypeOK`, `Spec => TableSpec` | `PipelineInv`: the poll stage has jobs in hand only while it sends, a worker unless it waits or has stopped |
| `PipelineProofs!CopiesAlwaysBounded` | `Spec => []CopiesBounded` | not by induction over the pipeline: `PipelineIsTable`, and `LeaseHolds` for the table under the mapping |
| `PipelineProofs!PauseAlwaysExcludes` | `Spec => []PauseExcludes` | with `TypeOK`, that one worker at most has the inner mutex, and that one at `"pause"` has no reader beside it |
| `PipelineProofs!TakenAlwaysInHand` | `Workers # {}` implies `Spec => []TakenInHand` | `InHandInv`: before the first stop nothing is cancelled, so that nothing drops what it holds |
| `ScheduleProofs!ScheduleTyped`, `DueAlwaysServed` | `Spec => []TypeOK`, `[]DueServed` | `QueueInv`: `due` lists the due jobs, each once, and for the job at place `b`, `passes * Limit + b` and the jobs still to be created are together at most the number of jobs (`ServedInTurn`). A fetch that leaves a due job behind takes `Limit` jobs from before it; a new job may get in before others, and is one fewer to be created; jobs that come back go to the end |
| `ScheduleProofs!LostNeverLong` | `Spec => []LostNotLong` | `ScheduleInv`: the age of a lost job *plus the time to the next run of the fix stage* is bounded, which is inductive where the age alone is not |
| `ScheduleProofs!ScheduleIsTable` | `Spec => TableSpec` | as above, with nothing overtaken |
| `AuthProofs!AccountsAlways`, `TokensAlwaysHonest`, `RegisteredAtMostOnce` | `Spec => []Accounts`, … | `AuthInv`: each handler's state says which account it has or will have, and a login in phase `"commit"` is in no row and in no other handler |
| `AuthProofs!SessionsAlwaysHonest`, `SessionsAlwaysLast` | `SessionSpec => []SessionsHonest`, … | `SessionInv`: `AuthInv`, which the steps of the clock keep, and every token carries the expiry of when it was made; the rest is arithmetic of the truncation |
| `AuthProofs!SessionsTyped` | `SessionSpec => []SessionTypeOK` | with `SessionInv`: who was answered a token is done, so that neither the token nor its stamps change |
| `LuhnProofs!LuhnAccepted` | `Spec => []AcceptsLuhn`, numbers of every length | what a place counts for from the left is what its mirror image counts for from the right, and a sum does not depend on the order; the last digit counts for itself |
| `LuhnProofs!TyposCaught` | `Spec => []CatchesTypos`, numbers of every length | a changed digit changes the sum by 1 to 9, two neighbours swapped likewise, since exactly one of the two places doubles; two multiples of ten are not that near |
| `SumTheorems!SumCounts` | `SumFunction(f)` is a number of cells, for every finite `f` into `Nat` | see below |

They hold for any number of users, numbers, requests, workers, jobs, crashes and
stops, both isolation levels and, where nothing is said of leases, any number of
overtaken ones. The assumptions are the named ones of the modules (`Unit`
positive, `None` different from everything, `Numbers` finite, a highest accrual, the
shape of the bounds) and those in the table:

- `Unit = 1` says that no amount has fractions of a cent. With half cents
  rounding may add to a balance, and order and balance are rounded apart
  (section 5).
- `MaxOvertakes = 0` says that handlers keep their lease. `OneHolder`,
  `CreditedOnce`, `NotMoreThanGranted`, `BalanceExplained` and `ListingsAdvance`
  fail without it: run `DoubleCredit` shows the third, and in its last state the
  second and the fourth fail too; section 5 has the last.
- Finitely many workers: a cardinality means nothing otherwise.

No theorem assumes an isolation level. That `BalanceExact` and `LedgerSpec` hold at
repeatable read is model-checked only (`Atomic`): the code runs at read committed,
where they do not hold, and what is proved is proved of that.

*What overtaken leases can cost.* The books of a user exceed their `PROCESSED` rows
by the credits that were made more than once, and the bound on those is about
leases, not about money. An order is credited at most once by each worker that
holds its job, and once more by whoever fetches the job next: `Chances` of an order
counts both. One of them is due while the order is open; the others are its
`Surplus`. `OverpaymentInv` says that all surpluses together are at most `overtakes`,
and that the books exceed the rows by at most the highest accrual for each
overtaken lease that is no longer a surplus. The fix stage makes one chance, and
counts one overtaken lease. A credit takes one chance: of an open order it
is the one that was due, and otherwise the surplus shrinks by one, as `Spent`
grows. A stale copy that makes a `PROCESSED` order open again takes its
amount from the rows and turns one surplus into a chance that is due. A crash only
takes chances away.

*Sums.* `EarnedRows`, `SpentRows`, `GrantedTo` and `LuhnSum` are sums over sets or
sequences of any size, and `SumFunction` is recursive. `SumTheorems` proves once
that such a sum is the number of cells of a table with `f[x]` cells in row `x`
(`SumCounts`), by taking a smallest subset for which it is not; that there is one
is the well-foundedness of the strict subsets of a finite set. From there on the
theorems about cardinalities do: one value changes (`SumChanged`), values
that are not there count for nothing (`SumPadded`), more is not less
(`SumMonotonic`), the order does not matter (`SumReindexed`).

*Operators.* `GophermartProofs` begins with lemmas about the operators of
`Entities`: rounding keeps naturals and, with whole cents, is the identity;
`Applied` of a covered order is a balance. `BooksProofs` has what one written row
does to the totals (`RowWritten`), `ScheduleProofs` what becomes of a queue when
jobs are put in, taken out or appended.

Left to TLC is liveness: `RequestsEnd`, `OrdersSettle`, `StopsWhole`, `JobsSettle`
and `Fetched`. They rest on fairness, which is about `ENABLED`, and that is out of
the prover's reach. So are `BalanceExact` and `LedgerSpec`, for the reason above. The
properties of section 5 belong to runs that violate them.

## 7. Plan

Done, in the order in which a mistake would cost money: `Entities`, `Ledger`,
`Gophermart`, `Auth`, `Pipeline`, `Luhn`; then `JobTable`, which joins the
modules that share the table, `Schedule` and `Sessions` for what depends on
time, `Reading` for what clients see; their runs; and the theorems above: the
safety properties of the passing runs but `BalanceExact`, and the refinements of
`JobTable`.
What would come next:

1. A repaired `Withdraw` and `updateBalance` (`SELECT … FOR UPDATE`) next to the
   present ones, shown and proved to refine `Ledger` at read committed.
2. The safety half of the progress properties: that a request or worker that
   cannot move waits for one that can, which is what the liveness runs rely on.

## 8. What is not modelled

- The order in which listings come (section 5 has what the code does).
- Statements of `Gophermart` that fail before anything was written leave no
  trace but a 500; only those inside a transaction are actions.
- `fail` of an order that is final already is done by the code in the
  transaction of the handler; here the transaction is rolled back (it wrote
  nothing) and `FailJob` follows.
- A lost reply after a commit is the same as a commit whose client is not
  looking; it is not a step of its own.
- A job's last error; uuids and the timestamps of orders and users.
- The `Retry-After` of a 429 as a time: how long the pause is nothing depends on.
- HTTP, JSON, compression and content types. bcrypt tells passwords apart, and
  nobody forges a JWT: both are taken at their word.
- The HTTP server, but for its phase in the shutdown.
- Configuration, dependency wiring, logging, migrations (their tables are the
  variables) and generated API documentation.
- `Pipeline` knows nothing of orders, `Gophermart` nothing of stages, `Schedule` of
  neither: `JobTable` is what they have in common, not a composition in which the
  stages of one process run the transactions of `Gophermart` step by step.
- A call to the accrual system that is never answered: the client has no timeout,
  and the models assume that every call ends.
