# A TLA+ model of the e-commerce backend

The repository is a Go service (gin, GORM) over PostgreSQL, Redis, RabbitMQ and
Elasticsearch: users, sessions, wallets, products, coupons, orders and shops. Its
logic is short; what is hard is what happens between its statements. This directory
models the parts that keep state, checks them with TLC on small instances and proves
the main safety properties with TLAPS for every instance.

`PROJECT.json` lists components, runs, mutants, the lines of the source each definition
stands for, the hazards of the code and the disagreements found.

## 1. Inventory

| component | state | operations | works with |
|---|---|---|---|
| order (`internal/order`) | `orders`, delay queue, consumer queue | `CreateOrder`, `HandleOrderTimeout`, `ListenTimeout`/`handleSingleMessage` | locks `products` and `user_coupons`, writes `stock_change_logs`, publishes to and consumes from RabbitMQ over one shared channel |
| product (`internal/product`) | `products`, index of documents | create, update, status, delete, search, rebuild at start | goroutines write documents after the answer; stock is taken by order |
| coupon (`internal/coupon`) | `coupon_templates`, `user_coupons` | create template, grant; lock, spend, return (called by order) | order |
| auth (`internal/auth`, `middleware/auth.go`) | Redis: hash per session, set of sessions per user | login, both refreshes, logout, verification | Lua scripts in Redis; every other endpoint |
| user (`internal/user`) | `users` | register | creates the wallet in its transaction |
| wallet (`internal/wallet`) | `user_wallets`, `wallet_logs` | deposit | user |
| shop (`internal/shop`) | `shops` | create, read, list | product reads names |
| lists (`List...` of shop, order, coupon, product) | none of their own | count, then a page by offset | the four tables above, which grow meanwhile |
| rate limiter (`middleware/ratelimit.go`) | token bucket per address, kept until the process ends | admit or refuse a login | auth |
| process (`cmd`, `internal/app`, `pkg/mq`, `pkg/redis`, ...) | main, the goroutine of `Run`, the consumer, channel, telemetry providers | start, serve, signals, shutdown, `/health`, `/ready` | all |
| pkg, logs, metrics, config, schema, deployment | | | no state of their own that a property is about |

The behaviours that are hard, and what makes the components correct in spite of them:

- *Orders.* Requests interleave statement by statement under row locks, and wait for
  uncommitted keys. A statement fails; the commit's answer is lost; the process dies
  between commit and publish, or between closing an order and returning its coupon;
  messages are redelivered; the channel closes under both publisher and consumer.
  Correct means: one order per idempotency key, success only if the order exists,
  stock, its log and orders in agreement, one open order per coupon, no coupon stranded,
  every scheduled order closed, nobody waiting for ever.
- *Accounts.* Registrations collide on unique indexes without a prior check; deposits
  are retried, share keys, contend for a wallet, round, overflow. Correct means:
  distinct users with one wallet each, one credit per key, balances that are sums of
  the log.
- *Grants.* Read, count, deduct and insert run outside a transaction. Correct means: no
  template gives out more than its total, no user more than the limit.
- *Sessions.* Verification reads before the script writes; scripts are sent again;
  hashes and tokens expire separately. Correct means: logout and replacement are final,
  live sessions are listed, a hash lives as long as its token.
- *Catalog.* Documents are written by goroutines in any order, lost at a restart, and
  rewritten from a read that grows old. Correct means: a document that nothing is about
  to write follows its row, except where two writes overlapped or one was lost, until a
  start repairs it; a search survives documents that do not.
- *Lists.* Count and page are two statements outside a transaction, pages are offsets
  into a list that changes, rows commit in another order than that of their
  `created_at`. Correct means: what a client misses or sees twice has its reason in what
  joined or left the list while it read.
- *Process and limiter.* Signals, failures and the close of the channel meet start, service
  and shutdown at any point; logins read the clock before they reach their bucket. Correct
  means: the process ends when asked, each provider is shut down once, readiness tells
  the truth about the consumer as far as its channel shows it, an address gets no more than its
  bucket and rate give, and is not refused before it took a first bucket of its own.

## 2. Modules

| module | models |
|---|---|
| `Orders` | order, the locks on product and coupon rows, RabbitMQ, the consumer |
| `OrderBook` | what order placement promises: placing, closing and returning are atomic |
| `OrdersProofs` | theorems about `Orders` |
| `Accounts` | user and wallet |
| `Ledger` | what accounts promise: opening and crediting are atomic |
| `AccountsProofs` | theorems about `Accounts` |
| `Grants` | coupon templates and grants |
| `CouponIssue` | what grants promise: a coupon and its unit go together, or a failure costs one unit |
| `GrantsProofs` | theorems about `Grants` |
| `Sessions` | auth |
| `SessionBook` | what sessions promise: both tokens at once, renewed one by one, over when they end |
| `SessionsProofs` | theorems about `Sessions` |
| `SumTheorems` | sums over finite sets and the induction they need, for `OrdersProofs` and `AccountsProofs` |
| `Catalog`, `CatalogProofs` | product rows and documents |
| `Listings`, `ListingsProofs` | the four paged lists and a client that walks one |
| `RateLimiter` | token buckets of logins |
| `Lifecycle` | the process: main, `Run`, consumer, probes, signals, restart |
| `Server`, `ServerProofs` | `Lifecycle` and `RateLimiter` composed, and theorems about all three |
| `MC...` | instances for TLC and statements of the repository the code does not keep |

`Orders` composes order, product stock, coupon rows and broker, because one transaction
and one message tie them together. The other components share no row with it that both
change: grants only insert rows in `user_coupons`, product updates leave the stock column alone, and a session only says who
asks. They are modelled apart.

### Orders

One call is one `POST /order/create`; the order it inserts has its name. `call[c].pc`
is the next statement of the transaction: `lockProduct` is `GetProductByID` with
`FOR UPDATE`, then `DeductStock` (update and log row), then, with a coupon,
`GetUserCouponForUpdate` with the service's checks and `UseCouponWithVersion`, then
`CreateOrder`, commit and `PublishTimeoutMessage`. What a transaction has written stays in
`call[c]` until `Commit` applies all of it; a rollback is to forget it. Locks are not
variables: `LocksProduct`, `LocksCoupon` and `LocksKey` say who holds what from where
calls are. An insert of a key that another transaction has inserted waits for it.

`DeductStock` is two statements on the row `GetProductByID` has locked, hence one step. GORM
scans what `RETURNING` gives into the model of `Updates`; the `Scan(&result)` chained to it runs a
`SELECT` with the same `WHERE`, on the row as the `UPDATE` left it. An order goes on only if
both find the row, that is if the stock is at least twice the quantity. `OrderBook` has the
same condition, and `orders_last_units` shows where it departs from what is documented.
`UpdateStock` has the same chain and no caller.

The broker is three sets, `delayed` (TTL running), `ready`, `unacked`. `Deliver` hands a
message to the one consumer, whose steps are `ReadOrder`, `CloseOrder`, `ReturnCoupon`,
`Ack`. A failing handler (`HandlerFails`) goes through `Settle`, in which the retry
count is read from the headers as RabbitMQ returns them, that is without the count.
`ReturnCouponFails` is logged and acknowledged, as in the code. `ChannelCloses` requeues
what is not acknowledged and ends the consumer for good; only `Restart` opens a channel
again. The prefetched messages of a channel are part of `ready`: who keeps them is
not visible to any property.

### Accounts

`InsertUser`, `InsertWallet` and the commit of a registration; `InsertLog`,
`CreditWallet` and the commit of a deposit. The unique indexes on name, email and
deposit key are waits (`HoldsIndexKey`, `HoldsKey`), the wallet row a lock
(`LocksWallet`). Amounts are tenths of a cent and `Stored` rounds as `decimal(16,2)`
does; a balance over `MaxBalance` fails its statement. The upsert of a wallet
(`INSERT ... ON CONFLICT DO UPDATE`) is one statement.

### Grants

Four steps per grant: `GetTemplate` with its checks, `CountUserCoupons`,
`DeductRemainingQty` (one conditional `UPDATE` that looks at quantity and validity again),
`CreateUserCoupon`. The clock moves. No operation makes a template inactive, so the
status check has one outcome. `raced` is a history variable: grants that counted
while another of the same user and template had counted and not inserted.

To `CouponIssue` a unit counts as left until its coupon is inserted
(`Left`: the column and the grants that are `Inserting`). Then the four statements of a
grant are one step, `Issue`; `Lose` is a failure after the unit was taken. The limit per user
is not part of it, since the code does not keep it.

### Sessions

A request reads and verifies in one step, and runs its script in another. The four Lua
scripts are the four actions `CreateSession`, `SetAccessToken`, `SetRefreshToken`,
`DelSession`; `ScriptUnanswered` runs one or not, and lets the client send it again. A
session is named by its login and a token by the request that made it. `SetRefreshToken`
sets a time to live in nanoseconds read as seconds, as the code does; the constant 5 of
the pruning is `PruneAbove`.

`SessionBook` sees the tokens that verify at a moment (`CurrentAccess`, `CurrentRefresh`) and the
requests whose tokens were answered (`Answered`). A session that was not
answered may begin twice, since its script may be sent again; one that was answered and has ended,
by logout or by time, cannot begin or be renewed.

### Catalog

`row` and `docs` are the two stores. A handler writes its row, leaves a goroutine in
`task` and answers; `RunTask` runs them in any order. An update reads the product
back and drops the error: a product that is not found is a zero product under the nil
UUID (`Zero`). `FindAll` and `RebuildIndex` are the start's goroutine, which runs beside
the first requests. A search reads ids in one step and rows in another, so the delay until
a document is searchable needs no step of its own. `Ordered` is the sort of the search: the zero document is
from year 1 and matches only queries without a text, where all scores are equal, so it comes last.

`DocumentsFollowRows` is the strongest statement about both stores that the code keeps.
`Busy(p)` says that a request, a goroutine or the start's bulk still may write the
document of `p`. When nothing does, the document is the copy of the row (or is absent, for
a product taken off sale, or is `Given`, see below), unless `p` is `disturbed`. That history variable is set by
exactly what the code does not answer for: a write of the row while another write was on its way
to the document (the documents carry no version), `UpdateProductStatus`, which
writes no document, a failed or forgotten goroutine, and a delete by a user who is not
the publisher. The read of all rows by a start takes a product out of it again, when nothing else
was under way.

A row keeps the price of a request rounded to `decimal(16,2)`; the constant `Stored` is that
rounding. `CreateProduct` indexes the product in memory, whose price is the request's (`Given`),
so that document may differ from its row. `Follows` allows it as long as the row is still the
rounded copy of what the request gave; an update and a start read the price back from the row.

### Listings

One client walks one list (`kind`): it asks for page after page with one size until a page is not
full or until it has asked for the total. `CountRows` and `FindPage` are
the two statements of each request. A row is `stamped` by GORM before its insert is sent and `listed`
with the commit, so rows appear in any order of their stamps, and stamps may tie: `Newest`
then leaves the choice open, per statement. `Begin` has the bindings: the three lists with `binding:"required,max=20"`
refuse 0 and accept negative sizes, for which GORM leaves out LIMIT and OFFSET; the
list of coupons has its defaults. Products join and leave the list by their status; rows of
the other tables never leave.

### RateLimiter, Lifecycle, Server

`GetLimiter` is the look-up under the map's mutex together with the reading of the clock,
`Admit` and `Refuse` are the decision under the bucket's mutex. Between the two, other logins of
the address may pass: `golang.org/x/time/rate` then sets the bucket's time back, and
later logins are given tokens for the same time again. `window` is the history the bound
is stated with: it is opened at any moment, and counts admissions of one address,
restarts, and by how much the bucket's time went back (`rewound`). It is kept for the
address `Watched` only; addresses are interchangeable, so it stands for any.

`Lifecycle` has three goroutines: `main` (with `Bootstrap`), `run` (the call of `Run`)
and `consumer`. Each step of `Run` succeeds or fails; its deferred `mqCleanup` is there
once the channel is. `Select` is the `select` of `main.go:29`. A signal reaches the
program only between `NotifyContext` and the deferred `sigCancel`; before and after it kills.
Providers are built and registered by `Provide`, whose failing branch shuts down what was
registered and lets `Bootstrap` go on, so that `stop` calls `shutdown` a second time. The
main goroutine leaves without waiting for the server, as in the code.

`Server` composes the two: a login is served only while `Run` is in its last call, and
`StartAgain`, the restart by Kubernetes, forgets the limiters.

## 3. Runs

Bounds name what is scarce: each is just large enough for the conflict the run is about.
`MaxDbFaults`, `MaxChannelFaults`, `MaxRestarts`, `MaxRedisFaults`, `MaxFaults`,
`MaxStarts`, `MaxSignals` bound the environment only; a failure may hit any statement.

| run | instance | shows |
|---|---|---|
| `orders` | 3 calls, 2 products of 4 units, one coupon, 3 keys, one fault of each kind; bodies of two and of one unit that take a stock down to where it refuses the next, compete for the coupon, repeat a key for another product, name no product | `OneOrderPerKey`, `AckedHasOrder`, `StockAudited`, `StockMatchesOrders`, `StockConserved`, `CouponExclusive`, `CouponNotStranded`, `OpenOrdersScheduled`, refinement of `OrderBook` |
| `orders_live` | 3 calls, 2 products of 6 units, contention on products, coupon and key, one fault of each kind, fairness | `CallsAnswered`, `ScheduledClosed` |
| `accounts` | 2 registrations over 4 profiles, 3 deposits over 5 bodies, one failure, fairness | `WalletPerUser`, `AckedIsLogged`, `BalanceIsLogged`, refinement of `Ledger`, `RequestsAnswered` |
| `grants` | 2 templates of 4 bodies, 3 grants, 2 users, clock to 3, 2 failures | `UnitsAccounted`, `LimitKeptInTurn`, refinement of `CouponIssue` |
| `sessions` | 4 requests, 1 user, token lives of 2, clock to 3, one unanswered script | `LoggedOutStaysOut`, `SessionsListed`, `KeyOutlivesRefresh`, refinement of `SessionBook` |
| `catalog` | a create with a price that the row rounds or keeps, then a create, update or delete, then an update, status change or foreign delete, then a search; two failures, two restarts | `DocumentsHaveRows`, `SearchInBounds`, `DocumentsFollowRows` |
| `listings` | 3 rows, clock to 2, sizes from -1 to 3 with a bound of 2, each list | `NothingMissed`, `NothingTwice` |
| `server` | two processes in turn, one signal, one failure, 4 logins of 2 addresses, buckets of 2 | `StopsCleanly`, `ReadyIsListening`, `AdmissionsBounded`, `RefusedAfterBurst`, `EndsWhenAsked` |

Every run checks its module's `TypeOK` too, but for `orders_live`. Three properties that
are theorems are not checked a second time, because a refinement of the same run excludes their
violation: `IdentitiesUnique` and `OneCreditPerKey` (the guards of `Open` and `Credit` in
`Ledger`) and `RevokedStaysRevoked` (the renewals of `SessionBook` take new tokens only).

Two calls suffice for a conflict over one resource; the third is there for the cases in which a
loser's retry or a third order sees the outcome of both. Two products are needed
because the product lock serialises calls of one product: only calls of different products
meet at the coupon and at the key. In `sessions`, four requests are a login,
two overlapping refreshes or a refresh and a logout, and a second login that prunes. In
`catalog` two failures and two restarts let a repair fail and be made by the next start.
Three rows make a walk of three pages of one, or of a full and a short one, with a row
committing between any two statements. In `server` a bucket of two and four logins empty a bucket,
refill it by a tick, overtake each other, and empty it again after a restart. A bucket
of 10 and a rate of 5 (`bootstrap.go:119`) differ from these in size only; the theorems cover them.

Four runs end in a violation. Each checks one statement of the repository the code does
not keep (section "findings" of `PROJECT.json` has the quotations):

| run | property | what happens |
|---|---|---|
| `orders_last_units` | `RefusedOnlyIfShort` | an order of two units is refused for want of stock while three are left |
| `orders_return_other` | `ReturnLeavesOthers` | a redelivered timeout message returns the coupon another open order has spent since |
| `orders_retry_cap` | `RetriesBounded` | the retry count never reaches the broker, a failing message is requeued for ever |
| `grants_limit` | `PerUserLimitKept` | two overlapping grants exceed the limit per user |

Other disagreements were met while modelling and are not runs of their own:

- `product/service.go:165` says '异步同步到 ES'. The goroutines of two updates may write in
  the other order, and the older text stays (`Overlapped` in `DocumentsFollowRows`).
- `openapi.yaml:313` says that a repeated idempotency key is no error but success. `CreateOrder` looks at
  stock and coupon before its insert can find the key: a repeated request is refused when its own first
  order has left too little stock or has spent the coupon (`DeductStock`, `CouponRefusal`). What
  `AckedHasOrder` says of success holds all the same.
- A deposit whose key another user has used, or the same user with another amount, is answered with success
  and credits nobody (`wallet/service.go:51`, against `openapi.yaml:132`): the key is unique over all
  deposits. `AckedIsLogged` is about the key for this reason.
- A search filters by the price of the document (`product/search.go:109`), which for a product
  created with a third decimal is not the price the row has and the answer shows.
- `UpdateProductStatus` leaves the document as it was; a delete by another user than the
  publisher removes it.
- `used_order_id` receives the coupon's own id (`order/service.go:88`); units are not given
  back when an order is closed, though `model/stock_change.go:15` names a reason for it; a
  retry with the same key does not publish a timeout message that the first attempt failed
  to publish.
- A name of 31 or 32 characters passes the handler and not the column (`LongNames`).
- After one refresh a session's hash is given nanoseconds where Redis reads seconds and
  practically never expires (`auth/repository.go:163`).
- `openapi.yaml:180` and `:338` say `minimum: 1` of `page_size`; the binding accepts
  negative numbers, and the answer is then the whole list. It lets the walks of `Listings`
  end at once and breaks none of their properties.
- `main.go:39` says '关闭 MQ → DB → OTel → cancel'. `stop` shuts down OTel, closes the logger and
  cancels. After a signal `Run` has not returned, so its deferred cleanup of the broker
  never runs, the database is not closed, and open requests are not waited for,
  though `README.md:65` speaks of '优雅关闭'. `StopsCleanly` claims the channel closed only when `Run` returned.
- `health.go:25` calls `ReadyHandler` the readiness probe, but `k8s/app/deployment.yaml:45`
  probes `/health`, which answers 200 always: a closed channel takes the pod out of
  nothing and restarts nothing. `ReadyIsListening` is about the handler. It excepts a consumer that ended
  while the AMQP channel stayed open (`lost`): the handler looks at the channel only and answers ready.
- `ratelimit.go` keeps every address for good; `lastSeen` is never set.

### Fairness

`Orders`: weak fairness of every call's steps (a goroutine per request runs on, and
PostgreSQL hands a lock on), of TTL expiry and delivery (the broker), and of the
handler (the consumer goroutine). `Accounts`: weak fairness of every request's steps. No
failure, restart or new request is fair; nothing is assumed of a closed channel, so
`ScheduledClosed` ends with it. `Server`: weak fairness of the main goroutine's steps, which
takes for granted that the exporters' shutdown comes back. Weak fairness is enough
because a lock, once free, stays free until a waiter takes it, and waiters are
finitely many. Requests that never begin are left alone: `CallsAnswered` and `RequestsAnswered`
speak of those that did.

## 4. Proofs

All theorems hold for every value of the constants allowed by the named assumptions of
the module (`BodiesAssumption`, ...): any number of requests, products, users,
keys, any bodies, any bound on failures. The assumptions say that inputs have their type
and that model values for "none" are not values; `Grants`,
`Sessions`, `Catalog` and `Listings` also that grants, requests and rows are finitely many.

Each proof module has an inductive invariant (`IInv`, in `ServerProofs` `ServerInv`), with a lemma per action
or per kind of action.

- `OrdersProofs`. `IInv` is `TypeOK` and the locking discipline: at most one transaction
  is between its statements on a product row and what it read is still so
  (`ProductLocked`: it still is at least twice the quantity of the order), likewise from `LockCoupon` on for the coupon (`CouponLocked`) and for the key of an
  uncommitted insert (`KeyLocked`); an order appears with its commit; messages and the
  handler are of orders that exist. None of the safety properties is inductive without
  it: that a commit keeps `StockAudited` needs that the stock is still what the call
  read. From it follow `TypeCorrect`, `KeysAreUnique`, `AnswersAreTrue`,
  `StockIsAccounted`, `OrdersAreLogged` and `ImplementsOrderBook` (every step is a step of `OrderBook` or
  leaves its variables alone).
  `NothingIsOversold` is about a sum over all orders of a product: a commit adds one order to a set
  that stays finite (`UnitsCounted`) and takes its quantity off the stock, which under `ProductLocked` is
  what the call read.
  `CouponExclusive` needs that the first delivery of a message finds
  its order open (`FirstDelivery`), and that until a second delivery a used coupon has
  its open order or is being returned, not both (`FreshCoupons`). `CouponNotStranded` and
  `OpenOrdersScheduled` are inductive with `SInv`: the message in the handler's hands
  is still in the broker (`HandlerHeld`), its order is closed before the coupon is touched
  (`ClosedBeforeReturn`), and what is about to be acknowledged has nothing left to return (`AckSettled`).
- `AccountsProofs`. `IndexKeysHeld` and `KeysHeld` say that an uncommitted row is the only
  one of its keys, `RowsHeld` that a deposit past its `UPDATE` holds the row and its
  balance is the stored one plus its amount. From it: types, identities, keys,
  and that `Accounts` implements `Ledger`. `BalancesAreSums` says of the sum over the whole log what
  `RowsHeld` says of one credit; it needs that the log is finite and names users that exist
  (`LogCounted`).
- `GrantsProofs`. `UnitsAccounted` is inductive with `RowsFirst`; the limit needs
  `TurnsTaken`: of grants that took turns at most one is under way and the count it saw
  still stands. Cardinalities by the library's theorems on finite sets. Every action of a grant is one of
  five moves (`Checks`, `Counts`, `Takes`, `Inserts`, `Leaks`), and `ImplementsCouponIssue`
  follows move by move: a unit moves from the column to `Inserting` unseen, and leaves `Left` with
  its coupon or with its failure.
- `SessionsProofs`. `RequestsWellFormed` and `RedisWellFormed` say whose tokens and
  sessions there are; with them the four invariants are inductive together, and
  `RevokedStaysRevoked` is an action property of their steps. `ImplementsSessionBook` needs besides
  that a token of one kind is never stored as the other (`TokensByKind`): a new token is then
  nobody's, in its own session or another. The three writing scripts are `Begin`, `RenewAccess` and
  `RenewRefresh`; a logout and a tick only make sessions cease (`CeasingEnds`).
- `SumTheorems`. `SumFunctionOnSet` of the community modules is a fold by a recursive function
  over the subsets of a set. That this function exists (`FoldExists`) and that the sum is the same whichever
  element is taken last (`SumTakesAny`) is proved by induction on cardinality. The library's
  induction theorems take an operator as a parameter and cannot be used; `NumbersByInduction` states induction
  about a set of numbers instead and comes from the well-foundedness of `<`.
- `CatalogProofs`. `RowsBehind` says that whatever is to become a document has a row, which
  stays; a search's ids between its two reads are then all found but a last nil UUID
  (`SearchesPlaceable`), so each place is below their number. `DocumentsFollowRows` is not
  inductive: it needs `AllFollow`, which says, for an undisturbed product, that what
  a goroutine or the bulk is about to write follows the row as well, and that a request about to read
  will. What a product was created from follows its row from the insert on (`InsertedFollows`). The steps
  of requests share one lemma, the goroutines another.
- `ListingsProofs`. The argument is about how many newer rows are listed before a row: that
  number only grows while nothing leaves, so a row of the beginning that was not seen stays at or
  behind the next offset (`Unmissed`); it only shrinks while nothing joins, so a row that was seen
  stays before it (`Unrepeated`). `PageFacts` says where a row of a page stands.
  Cardinalities by the library's theorems on finite sets.
- `ServerProofs`. For shutdown: a provider was shut down exactly once if it is built and no
  longer registered (`OtelOK`). For readiness: what serves has started its consumer, which
  stops by the context and drains by the channel (`ConsumerOK`). For the limiter: each address
  has its own bucket (`BucketsOK`), and `WindowOK` is an account: admissions in the window and
  tokens left never exceed a bucket per process plus the rate up to the last
  admission and over the rewound time, and tokens left plus what this process admitted are at least a
  bucket. `ServerInv` is their conjunction.

Every safety and action property of a passing run is a theorem, and so are the four
refinements. Only model-checked is liveness: `CallsAnswered`, `ScheduledClosed`,
`RequestsAnswered` and `EndsWhenAsked`; fairness and `ENABLED` are out of the prover's reach.

## 5. What is assumed, what is left out

- The schema is what the GORM models declare (`AutoMigrate`, `bootstrap.go:188`): the
  migrations name the coupon tables otherwise and lack `stock_change_logs`.
- PostgreSQL runs READ COMMITTED; a commit is atomic; a lost answer of a commit is an error to the
  caller (`CommitUnacknowledged`).
- There is one replica (`k8s/app/deployment.yaml`).
- In `Accounts` and `Grants` a killed process is a failing statement for each of its
  requests. In `Orders` and `Catalog` restarts are steps, since queues and goroutines are state.
- A coupon is granted before the orders that spend it; its template is always loaded.
- Redis keeps what it did: a restart from an older snapshot is not modelled. No copy of a
  script runs after its request was answered. Token ids do not collide.
- Elasticsearch is there at start; without it nothing is indexed and a search is empty.
  A batch of the rebuild is one `bulk`, applied document by document.
- A product whose price does not fit `decimal(16,2)` is a failing statement.
- A request that names the nil UUID as its product is not among those enumerated.
- A client of `Listings` asks for pages in order and with one size; the rows of one product
  list change by status only.
- Telemetry, Elasticsearch and the stores' pings fail or not; how long they take is
  not modelled.
- `UpdateProductStock`, `coupon.Service.UseCoupon` and `coupon.Service.ReturnCoupon` have no caller.

Not modelled, and why:

- Reads of single rows (`GetProduct`, `GetShop`, `ResolveShopNames`): they change nothing and
  take one statement.
- The amount of a deduction (`order/service.go:139`, `coupon/service.go:167`): pure
  functions with the same text, over floats, whose result no other part reads.
- Requests, responses and error codes, API documentation, logs, spans and metrics: formatting and
  output only. Configuration, migrations and manifests: data.
- Connection pools and reconnects: inside the client libraries.
- Draining of open requests at a shutdown: the code has none. What becomes of a request the
  process died under is in `Orders`, `Accounts`, `Grants` and `Catalog`.

## 6. Plan

A second replica: two limiters, two consumers, two rebuilds at once.
