------------------------------- MODULE Orders -------------------------------
(***************************************************************************)
(* Order placement and timeout closing: internal/order with the product    *)
(* and coupon rows its transaction locks, the RabbitMQ delay queue and the *)
(* timeout consumer.                                                       *)
(*                                                                         *)
(* A call is one POST /order/create.  It runs one database transaction,    *)
(* one action per statement, and publishes the timeout message after the   *)
(* commit.  The order a call inserts is named by the call: order[c].       *)
(* stock, stockLog, coupon and order are the committed rows; what an open  *)
(* transaction has written is in call[c] until Commit.  Row locks are not  *)
(* variables: a call holds them by being between two statements.           *)
(***************************************************************************)
EXTENDS Integers, Sequences, Functions

CONSTANTS
    Calls,            \* the create-order requests that may be made
    Products, Coupons, Users, Keys,
    NoProduct,        \* a product id that names no row
    NoCoupon,         \* the request carries no coupon
    NoOrder,          \* no order row
    Bodies,           \* the request bodies (and their user) a call may carry
    InitialStock, Price, MinAmount, CouponOwner,
    MaxRetries,       \* maxRetries of the message handler
    MaxDbFaults, MaxChannelFaults, MaxRestarts   \* bounds of the environment

ASSUME BodiesAssumption ==
    Bodies \subseteq [user : Users, product : Products \cup {NoProduct},
                      quantity : Nat \ {0}, coupon : Coupons \cup {NoCoupon},
                      key : Keys]

ASSUME CatalogueAssumption ==
    /\ InitialStock \in [Products -> Nat]
    /\ Price \in [Products -> Nat]
    /\ MinAmount \in [Coupons -> Nat]
    /\ CouponOwner \in [Coupons -> Users]

ASSUME BoundsAssumption ==
    /\ MaxRetries \in Nat \ {0} /\ MaxDbFaults \in Nat
    /\ MaxChannelFaults \in Nat /\ MaxRestarts \in Nat

ASSUME NullsAssumption ==
    /\ NoProduct \notin Products
    /\ NoCoupon \notin Coupons
    /\ NoOrder \notin {"processing", "timeout"}

VARIABLES
    body,       \* what each call asks for
    call,       \* progress, snapshot and reply of each call
    stock,      \* products.stock
    stockLog,   \* stock_change_logs, per product in commit order
    coupon,     \* user_coupon rows: status, used_order_id, version
    expired,    \* coupons whose expire_time has passed
    order,      \* orders.status of the row the call inserted, or NoOrder
    delayed,    \* the delay queue: timeout messages waiting for their TTL
    ready,      \* the consumer queue
    unacked,    \* delivered and not acknowledged
    attempts,   \* how often a timeout message has been handed to the handler
    consumer,   \* the ListenTimeout goroutine
    channel,    \* the AMQP channel of the process, used by both sides
    faults      \* how many faults the environment has produced, and the orders
                \*   whose message, or whose coupon's return, it has cost

dbVars == <<stock, stockLog, coupon, order>>
mqVars == <<delayed, ready, unacked, attempts>>
vars == <<body, call, stock, stockLog, coupon, expired, order,
          delayed, ready, unacked, attempts, consumer, channel, faults>>

-----------------------------------------------------------------------------
(* The statements of the transaction that run with the product row locked. *)
InTx == {"deduct", "lockCoupon", "useCoupon", "insert", "commit"}

Replies == {"none", "ok", "notFound", "insufficient", "notOwned",
            "couponUsed", "minAmount", "error", "unscheduled", "lost"}

HasCoupon(c) == body[c].coupon # NoCoupon

(* Variants named Bug... are plausible mistakes in the definition that      *)
(* follows them.  The specification uses none; each breaks a property.      *)
BugNoProductLock(c, p) == FALSE

(* SELECT ... FOR UPDATE keeps its row until the transaction ends. *)
LocksProduct(c, p) == call[c].pc \in InTx /\ body[c].product = p
LocksCoupon(c, cp) ==
    /\ call[c].pc \in {"useCoupon", "insert", "commit"}
    /\ body[c].coupon = cp

BugNoKeyLock(c, k) == FALSE

(* A row inserted but not committed blocks a second insert of its key. *)
LocksKey(c, k) == call[c].pc = "commit" /\ body[c].key = k

KeyTaken(k) == \E d \in Calls : order[d] # NoOrder /\ body[d].key = k

OrderAmount(b) == Price[b.product] * b.quantity

Charge(kind) == faults' = [faults EXCEPT ![kind] = @ + 1]

-----------------------------------------------------------------------------
CallState == [pc : InTx \cup {"idle", "publish", "done"}, reply : Replies,
              before : Nat, version : Nat]
LogEntry == [quantity : Int, before : Nat, after : Nat, by : Calls]
CouponRow == [status : {"unused", "used"}, usedOrder : Coupons \cup {NoOrder},
              version : Nat]
ConsumerState == [pc : {"idle", "read", "update", "return", "ack", "stopped"},
                  order : Calls \cup {NoOrder}]
FaultCount == [db : Nat, channel : Nat, restart : Nat,
               unsent : SUBSET Calls, unreturned : SUBSET Calls]

TypeOK ==
    /\ body \in [Calls -> Bodies]
    /\ call \in [Calls -> CallState]
    /\ stock \in [Products -> Nat]
    /\ stockLog \in [Products -> Seq(LogEntry)]
    /\ coupon \in [Coupons -> CouponRow]
    /\ expired \subseteq Coupons
    /\ order \in [Calls -> {NoOrder, "processing", "timeout"}]
    /\ delayed \subseteq Calls /\ ready \subseteq Calls /\ unacked \subseteq Calls
    /\ attempts \in [Calls -> Nat]
    /\ consumer \in ConsumerState
    /\ channel \in {"open", "closed"}
    /\ faults \in FaultCount

Init ==
    /\ body \in [Calls -> Bodies]
    /\ call = [c \in Calls |-> [pc |-> "idle", reply |-> "none",
                                before |-> 0, version |-> 0]]
    /\ stock = InitialStock
    /\ stockLog = [p \in Products |-> <<>>]
    /\ coupon = [cp \in Coupons |-> [status |-> "unused", usedOrder |-> NoOrder,
                                     version |-> 0]]
    /\ expired = {}
    /\ order = [c \in Calls |-> NoOrder]
    /\ delayed = {} /\ ready = {} /\ unacked = {}
    /\ attempts = [c \in Calls |-> 0]
    /\ consumer = [pc |-> "idle", order |-> NoOrder]
    /\ channel = "open"
    /\ faults = [db |-> 0, channel |-> 0, restart |-> 0,
                 unsent |-> {}, unreturned |-> {}]

-----------------------------------------------------------------------------
(* Service.CreateOrder *)

Goto(c, pc) == call' = [call EXCEPT ![c].pc = pc]

(* A returned error rolls the transaction back; nothing of it was committed. *)
Finish(c, reply) == call' = [call EXCEPT ![c].pc = "done", ![c].reply = reply]

(* BEGIN; GetProductByID FOR UPDATE waits for the lock of another call. *)
LockProduct(c) ==
    /\ call[c].pc = "idle"
    /\ \/ /\ body[c].product = NoProduct
          /\ Finish(c, "notFound")
       \/ /\ body[c].product \in Products
          /\ \A d \in Calls \ {c} : ~LocksProduct(d, body[c].product)
          /\ Goto(c, "deduct")
    /\ UNCHANGED <<body, dbVars, expired, mqVars, consumer, channel, faults>>

(* Neither statement has its WHERE condition, nor the column its check. *)
BugDeductUnchecked(c) ==
    /\ call[c].pc = "deduct"
    /\ call' = [call EXCEPT ![c].before = stock[body[c].product],
                            ![c].pc = IF HasCoupon(c) THEN "lockCoupon" ELSE "insert"]
    /\ UNCHANGED <<body, dbVars, expired, mqVars, consumer, channel, faults>>

(* UPDATE ... WHERE stock >= quantity, and the log row.  The Scan chained   *)
(* to Updates is a statement of its own, a SELECT with the same WHERE: it   *)
(* reads the row as the UPDATE left it, under its lock.  An order that does *)
(* not leave as many units as it takes finds no row there, and is refused.  *)
DeductStock(c) ==
    /\ call[c].pc = "deduct"
    /\ LET before == stock[body[c].product]
           q == body[c].quantity
           updated == before >= q
           found == updated /\ before - q >= q
       IN  \/ ~found /\ Finish(c, "insufficient")
           \/ /\ found
              /\ call' = [call EXCEPT ![c].before = before,
                                      ![c].pc = IF HasCoupon(c) THEN "lockCoupon"
                                                                ELSE "insert"]
    /\ UNCHANGED <<body, dbVars, expired, mqVars, consumer, channel, faults>>

(* GetUserCouponForUpdate finds no row of another user, else waits for the *)
(* row's lock; then the checks on status, expiry and minimum amount.       *)
CouponRefusal(c, cp) ==
    IF coupon[cp].status # "unused" \/ cp \in expired THEN "couponUsed"
    ELSE IF OrderAmount(body[c]) < MinAmount[cp] THEN "minAmount"
    ELSE "none"

LockCoupon(c) ==
    /\ call[c].pc = "lockCoupon"
    /\ LET cp == body[c].coupon
       IN  \/ /\ CouponOwner[cp] # body[c].user
              /\ Finish(c, "notOwned")
           \/ /\ CouponOwner[cp] = body[c].user
              /\ \A d \in Calls \ {c} : ~LocksCoupon(d, cp)
              /\ \/ /\ CouponRefusal(c, cp) # "none"
                    /\ Finish(c, CouponRefusal(c, cp))
                 \/ /\ CouponRefusal(c, cp) = "none"
                    /\ call' = [call EXCEPT ![c].pc = "useCoupon",
                                            ![c].version = coupon[cp].version]
    /\ UNCHANGED <<body, dbVars, expired, mqVars, consumer, channel, faults>>

(* UseCouponWithVersion repeats the checks in its WHERE clause. *)
UseCoupon(c) ==
    /\ call[c].pc = "useCoupon"
    /\ LET cp == body[c].coupon
           matches == /\ coupon[cp].status = "unused"
                      /\ coupon[cp].version = call[c].version
                      /\ cp \notin expired
       IN  \/ matches /\ Goto(c, "insert")
           \/ ~matches /\ Finish(c, "couponUsed")
    /\ UNCHANGED <<body, dbVars, expired, mqVars, consumer, channel, faults>>

(* An uncommitted row of the same key is taken for a placed order. *)
BugInsertNoWait(c) ==
    /\ call[c].pc = "insert"
    /\ LET known == KeyTaken(body[c].key) \/ \E d \in Calls \ {c} : LocksKey(d, body[c].key)
       IN  \/ known /\ Finish(c, "ok")
           \/ ~known /\ Goto(c, "commit")
    /\ UNCHANGED <<body, dbVars, expired, mqVars, consumer, channel, faults>>

(* The conflict becomes success inside the transaction, which then commits. *)
BugInsertSwallows(c) ==
    /\ call[c].pc = "insert"
    /\ \A d \in Calls \ {c} : ~LocksKey(d, body[c].key)
    /\ LET before == call[c].before
           after == before - body[c].quantity
       IN  \/ /\ KeyTaken(body[c].key) /\ Finish(c, "ok")
              /\ stock' = [stock EXCEPT ![body[c].product] = after]
              /\ stockLog' = [stockLog EXCEPT ![body[c].product] = Append(@,
                    [quantity |-> after - before, before |-> before, after |-> after, by |-> c])]
           \/ ~KeyTaken(body[c].key) /\ Goto(c, "commit") /\ UNCHANGED <<stock, stockLog>>
    /\ UNCHANGED <<body, coupon, order, expired, mqVars, consumer, channel, faults>>

(* The conflict is retried from the start of the transaction. *)
BugInsertRetries(c) ==
    /\ call[c].pc = "insert"
    /\ \A d \in Calls \ {c} : ~LocksKey(d, body[c].key)
    /\ Goto(c, IF KeyTaken(body[c].key) THEN "idle" ELSE "commit")
    /\ UNCHANGED <<body, dbVars, expired, mqVars, consumer, channel, faults>>

(* INSERT INTO orders: the unique index on the key waits for an uncommitted *)
(* row of the same key; the conflict is answered as success.                *)
InsertOrder(c) ==
    /\ call[c].pc = "insert"
    /\ \A d \in Calls \ {c} : ~LocksKey(d, body[c].key)
    /\ \/ KeyTaken(body[c].key) /\ Finish(c, "ok")
       \/ ~KeyTaken(body[c].key) /\ Goto(c, "commit")
    /\ UNCHANGED <<body, dbVars, expired, mqVars, consumer, channel, faults>>

(* What the commit makes visible, all at once.  used_order_id receives the  *)
(* coupon's own id: CreateOrder passes param.UserCouponID for the order id. *)
Apply(c) ==
    LET p == body[c].product
        q == body[c].quantity
        cp == body[c].coupon
        entry == [quantity |-> -q, before |-> call[c].before,
                  after |-> call[c].before - q, by |-> c]
    IN  /\ stock' = [stock EXCEPT ![p] = call[c].before - q]
        /\ stockLog' = [stockLog EXCEPT ![p] = Append(@, entry)]
        /\ coupon' = IF HasCoupon(c)
                     THEN [coupon EXCEPT ![cp] = [status |-> "used",
                                                  usedOrder |-> cp,
                                                  version |-> call[c].version + 1]]
                     ELSE coupon
        /\ order' = [order EXCEPT ![c] = "processing"]

Commit(c) ==
    /\ call[c].pc = "commit"
    /\ Apply(c)
    /\ Goto(c, "publish")
    /\ UNCHANGED <<body, expired, mqVars, consumer, channel, faults>>

(* The connection is lost after the server committed: CreateOrder returns *)
(* the error of COMMIT and publishes nothing.                             *)
CommitUnacknowledged(c) ==
    /\ call[c].pc = "commit"
    /\ faults.db < MaxDbFaults
    /\ Apply(c)
    /\ Finish(c, "error")
    /\ Charge("db")
    /\ UNCHANGED <<body, expired, mqVars, consumer, channel>>

(* Any statement may fail, or the request's context may be cancelled. *)
StatementFails(c) ==
    /\ call[c].pc \in InTx \cup {"idle"}
    /\ faults.db < MaxDbFaults
    /\ Finish(c, "error")
    /\ Charge("db")
    /\ UNCHANGED <<body, dbVars, expired, mqVars, consumer, channel>>

-----------------------------------------------------------------------------
(* Repository.PublishTimeoutMessage, without publisher confirms *)

Publish(c) ==
    /\ call[c].pc = "publish"
    /\ \/ /\ channel = "open"
          /\ delayed' = delayed \cup {c}
          /\ Finish(c, "ok")
       \/ /\ channel = "closed"
          /\ delayed' = delayed
          /\ Finish(c, "unscheduled")
    /\ UNCHANGED <<body, dbVars, expired, ready, unacked, attempts,
                   consumer, channel, faults>>

(* What the broker and the consumer do when the channel closes: unacked   *)
(* messages go back to the queue, an idle consumer loop returns.  Nothing *)
(* in the process opens another channel.                                  *)
CloseChannel ==
    /\ channel' = "closed"
    /\ ready' = ready \cup unacked
    /\ unacked' = {}
    /\ consumer' = IF consumer.pc = "idle" THEN [consumer EXCEPT !.pc = "stopped"]
                                           ELSE consumer

(* The frame is written, the connection dies before the broker reads it. *)
PublishLost(c) ==
    /\ call[c].pc = "publish"
    /\ channel = "open"
    /\ faults.channel < MaxChannelFaults
    /\ Finish(c, "ok")
    /\ CloseChannel
    /\ faults' = [faults EXCEPT !.channel = @ + 1, !.unsent = @ \cup {c}]
    /\ UNCHANGED <<body, dbVars, expired, delayed, attempts>>

ChannelCloses ==
    /\ channel = "open"
    /\ faults.channel < MaxChannelFaults
    /\ CloseChannel
    /\ Charge("channel")
    /\ UNCHANGED <<body, call, dbVars, expired, delayed, attempts>>

-----------------------------------------------------------------------------
(* The broker *)

(* The TTL of the delay queue dead-letters the message to the consumer queue. *)
TTLExpires(o) ==
    /\ o \in delayed
    /\ delayed' = delayed \ {o}
    /\ ready' = ready \cup {o}
    /\ UNCHANGED <<body, call, dbVars, expired, unacked, attempts,
                   consumer, channel, faults>>

Deliver(o) ==
    /\ o \in ready
    /\ consumer.pc = "idle"
    /\ ready' = ready \ {o}
    /\ unacked' = unacked \cup {o}
    /\ attempts' = [attempts EXCEPT ![o] = @ + 1]
    /\ consumer' = [pc |-> "read", order |-> o]
    /\ UNCHANGED <<body, call, dbVars, expired, delayed, channel, faults>>

-----------------------------------------------------------------------------
(* MqHandler.handleSingleMessage and Service.HandleOrderTimeout *)

(* After the order is known to be closed the service returns its coupon. *)
AfterClose(o) == IF HasCoupon(o) THEN "return" ELSE "ack"

(* The coupon is returned without a look at the order's status. *)
BugReadReturnsFirst ==
    /\ consumer.pc = "read"
    /\ consumer' = [consumer EXCEPT !.pc = AfterClose(consumer.order)]
    /\ UNCHANGED <<body, call, dbVars, expired, mqVars, channel, faults>>

(* An order found closed ends the handling: nothing left to do. *)
BugReadStopsIfClosed ==
    /\ consumer.pc = "read"
    /\ consumer' = [consumer EXCEPT
                      !.pc = IF order[consumer.order] = "processing" THEN "update"
                             ELSE "ack"]
    /\ UNCHANGED <<body, call, dbVars, expired, mqVars, channel, faults>>

ReadOrder ==
    /\ consumer.pc = "read"
    /\ consumer' = [consumer EXCEPT
                      !.pc = IF order[consumer.order] = "processing" THEN "update"
                             ELSE AfterClose(consumer.order)]
    /\ UNCHANGED <<body, call, dbVars, expired, mqVars, channel, faults>>

(* The two statuses of the UPDATE exchanged. *)
BugTimedOutSwapped(o) == [order EXCEPT ![o] = IF @ = "timeout" THEN "processing" ELSE @]

(* UPDATE orders SET status = timeout WHERE id = ? AND status = processing *)
TimedOut(o) == [order EXCEPT ![o] = IF @ = "processing" THEN "timeout" ELSE @]

CloseOrder ==
    /\ consumer.pc = "update"
    /\ order' = TimedOut(consumer.order)
    /\ consumer' = [consumer EXCEPT !.pc = AfterClose(consumer.order)]
    /\ UNCHANGED <<body, call, stock, stockLog, coupon, expired, mqVars,
                   channel, faults>>

(* ReturnCoupon waits for a transaction that holds the coupon's row. *)
ReturnCoupon ==
    LET cp == body[consumer.order].coupon
    IN  /\ consumer.pc = "return"
        /\ \A d \in Calls : ~LocksCoupon(d, cp)
        /\ coupon' = IF coupon[cp].status = "used"
                     THEN [coupon EXCEPT ![cp] = [status |-> "unused",
                                                  usedOrder |-> NoOrder,
                                                  version |-> @.version + 1]]
                     ELSE coupon
        /\ consumer' = [consumer EXCEPT !.pc = "ack"]
        /\ UNCHANGED <<body, call, stock, stockLog, order, expired, mqVars,
                       channel, faults>>

(* The service logs the error of ReturnCoupon and reports success. *)
ReturnCouponFails ==
    /\ consumer.pc = "return"
    /\ faults.db < MaxDbFaults
    /\ consumer' = [consumer EXCEPT !.pc = "ack"]
    /\ faults' = [faults EXCEPT !.db = @ + 1, !.unreturned = @ \cup {consumer.order}]
    /\ UNCHANGED <<body, call, dbVars, expired, mqVars, channel>>

(* A failed message is rejected without requeue. *)
BugSettleDrops(requeue) ==
    /\ consumer' = [pc |-> IF channel = "open" THEN "idle" ELSE "stopped",
                    order |-> NoOrder]
    /\ unacked' = unacked \ {consumer.order}
    /\ ready' = ready

(* The handler is done with the message.  On a closed channel the broker   *)
(* has requeued it already, the answer goes nowhere and the loop returns.  *)
Settle(requeue) ==
    LET o == consumer.order
    IN  /\ consumer' = [pc |-> IF channel = "open" THEN "idle" ELSE "stopped",
                        order |-> NoOrder]
        /\ unacked' = unacked \ {o}
        /\ ready' = IF requeue /\ channel = "open" THEN ready \cup {o} ELSE ready

Ack ==
    /\ consumer.pc = "ack"
    /\ Settle(FALSE)
    /\ UNCHANGED <<body, call, dbVars, expired, delayed, attempts, channel, faults>>

(* getRetryCount of the delivered headers.  PublishTimeoutMessage sets no  *)
(* header, and the handler's increment changes its own copy: basic.nack    *)
(* carries no headers, so the broker redelivers the message as published.  *)
RetryCount(o) == 0

(* Reading or closing the order returned an error. *)
HandlerFails ==
    /\ consumer.pc \in {"read", "update"}
    /\ faults.db < MaxDbFaults
    /\ \/ order' = order
       \/ consumer.pc = "update" /\ order' = TimedOut(consumer.order)
    /\ Settle(RetryCount(consumer.order) < MaxRetries)
    /\ Charge("db")
    /\ UNCHANGED <<body, call, stock, stockLog, coupon, expired, delayed,
                   attempts, channel>>

-----------------------------------------------------------------------------
(* A coupon's expire_time passes. *)
CouponExpires(cp) ==
    /\ cp \notin expired
    /\ expired' = expired \cup {cp}
    /\ UNCHANGED <<body, call, dbVars, mqVars, consumer, channel, faults>>

(* The process is killed and started again: calls in progress get no reply, *)
(* their transactions roll back, the broker requeues what was not acked.    *)
InProgress(c) == call[c].pc \in InTx \cup {"publish"}

Restart ==
    /\ faults.restart < MaxRestarts
    /\ call' = [c \in Calls |->
                   IF InProgress(c)
                   THEN [call[c] EXCEPT !.pc = "done", !.reply = "lost"]
                   ELSE call[c]]
    /\ ready' = ready \cup unacked
    /\ unacked' = {}
    /\ consumer' = [pc |-> "idle", order |-> NoOrder]
    /\ channel' = "open"
    /\ Charge("restart")
    /\ UNCHANGED <<body, dbVars, expired, delayed, attempts>>

(* Every request is answered and the consumer waits for a message. *)
Quiescent ==
    /\ \A c \in Calls : call[c].pc = "done"
    /\ consumer.pc \in {"idle", "stopped"}
    /\ UNCHANGED vars

-----------------------------------------------------------------------------
CallStep(c) ==
    \/ LockProduct(c) \/ DeductStock(c) \/ LockCoupon(c) \/ UseCoupon(c)
    \/ InsertOrder(c) \/ Commit(c) \/ Publish(c)

Handle == ReadOrder \/ CloseOrder \/ ReturnCoupon \/ Ack

Fault ==
    \/ \E c \in Calls : \/ StatementFails(c) \/ CommitUnacknowledged(c)
                        \/ PublishLost(c)
    \/ ChannelCloses \/ ReturnCouponFails \/ HandlerFails \/ Restart

Next ==
    \/ \E c \in Calls : CallStep(c) \/ TTLExpires(c) \/ Deliver(c)
    \/ \E cp \in Coupons : CouponExpires(cp)
    \/ Handle \/ Fault \/ Quiescent

Spec == Init /\ [][Next]_vars

(* A request runs on, the broker moves and delivers its messages, the       *)
(* consumer goroutine handles what it took.  Nothing fails or restarts by   *)
(* fairness.  Messages are finitely many and each is redelivered finitely   *)
(* often, so fairness of delivering some message reaches every one.         *)
Fairness ==
    /\ \A c \in Calls : WF_vars(CallStep(c)) /\ WF_vars(TTLExpires(c))
    /\ WF_vars(\E o \in Calls : Deliver(o))
    /\ WF_vars(Handle)

FairSpec == Spec /\ Fairness

-----------------------------------------------------------------------------
(* Properties *)

OrderExists(c) == order[c] # NoOrder

(* Two requests with one idempotency key never both leave an order: the     *)
(* unique index, the wait on an uncommitted row and the rollback of the     *)
(* loser (repository.go CreateOrder, service.go CreateOrder).               *)
OneOrderPerKey ==
    \A c, d \in Calls :
        OrderExists(c) /\ OrderExists(d) /\ body[c].key = body[d].key => c = d

(* A request answered with success, by its own insert or by the conflict    *)
(* that CreateOrder turns into success, has an order under its key.         *)
AckedHasOrder ==
    \A c \in Calls : call[c].reply = "ok" => KeyTaken(body[c].key)

(* stock_change_logs is the history of products.stock: it starts at the     *)
(* initial stock, each entry continues the previous one by its quantity,    *)
(* never below zero, and it ends at the stock column.                       *)
StockAudited ==
    \A p \in Products :
        LET log == stockLog[p]
            Before(i) == IF i = 1 THEN InitialStock[p] ELSE log[i - 1].after
        IN  /\ \A i \in 1 .. Len(log) :
                  /\ log[i].before = Before(i)
                  /\ log[i].after = log[i].before + log[i].quantity
            /\ stock[p] = Before(Len(log) + 1)

(* The log has one entry per order of the product, with its quantity: the   *)
(* stock row, the log row and the order row commit together or not at all.  *)
StockMatchesOrders ==
    \A p \in Products :
        LET log == stockLog[p]
        IN  /\ \A i \in 1 .. Len(log) :
                  /\ OrderExists(log[i].by)
                  /\ body[log[i].by].product = p
                  /\ log[i].quantity = -body[log[i].by].quantity
            /\ \A i, j \in 1 .. Len(log) : log[i].by = log[j].by => i = j
            /\ \A c \in Calls : OrderExists(c) /\ body[c].product = p
                  => \E i \in 1 .. Len(log) : log[i].by = c

(* Nothing is oversold: the units of a product that are left and those of   *)
(* its orders are together the initial stock, in every interleaving of the  *)
(* transactions that read the stock in one statement and apply it with the  *)
(* commit (DeductStock, CreateOrder).  Closing gives no unit back.          *)
OrdersOf(p) == {c \in Calls : OrderExists(c) /\ body[c].product = p}

StockConserved ==
    \A p \in Products :
        stock[p] + SumFunctionOnSet([c \in Calls |-> body[c].quantity], OrdersOf(p))
            = InitialStock[p]

(* Two open orders paid with one coupon: possible only after the timeout    *)
(* message of an order with that coupon was handled more than once.         *)
CouponExclusive ==
    \A c, d \in Calls :
        /\ order[c] = "processing" /\ order[d] = "processing"
        /\ c # d /\ HasCoupon(c) /\ body[c].coupon = body[d].coupon
        => \E o \in Calls : body[o].coupon = body[c].coupon /\ attempts[o] > 1

(* A used coupon belongs to an open order, to a closed one whose timeout    *)
(* message will still return it, or to one whose return failed and was      *)
(* acknowledged all the same (service.go:169): no crash between closing and *)
(* returning strands it, because a redelivered message goes on to           *)
(* ReturnCoupon.                                                            *)
CouponNotStranded ==
    \A cp \in Coupons : coupon[cp].status = "used" =>
        \E o \in Calls : /\ body[o].coupon = cp
                         /\ \/ order[o] = "processing"
                            \/ /\ order[o] = "timeout"
                               /\ o \in ready \cup unacked \cup faults.unreturned

(* An open order whose request is over has its timeout message in the       *)
(* broker, or its request was told that it failed, or ended with the        *)
(* process, or the connection swallowed the message: redeliveries, failing  *)
(* handlers and restarts lose no message, and success without a message is  *)
(* only the lost frame of a publisher without confirms (repository.go:89).  *)
OpenOrdersScheduled ==
    \A c \in Calls : order[c] = "processing" /\ call[c].pc = "done" =>
        \/ c \in delayed \cup ready \cup unacked \cup faults.unsent
        \/ call[c].reply \in {"error", "unscheduled", "lost"}

(* The steps of many transactions, handlers and failures amount to the one  *)
(* atomic placement, closing and coupon return that OrderBook describes.    *)
Book == INSTANCE OrderBook
          WITH used <- {cp \in Coupons : coupon[cp].status = "used"}
PlacesAtomically == Book!Spec

(* Every request that entered its transaction is answered: no cycle of row  *)
(* and key locks holds it back.                                             *)
CallsAnswered ==
    \A c \in Calls : (call[c].pc # "idle") ~> (call[c].pc = "done")

(* An order whose timeout message is in the broker is closed, also when the *)
(* handler fails or the process restarts on the way, unless the channel     *)
(* closes: then nothing consumes until a restart (mq_handler.go:52).        *)
ScheduledClosed ==
    \A c \in Calls : channel = "open" /\ c \in delayed \cup ready \cup unacked
                       ~> (order[c] = "timeout" \/ channel = "closed")
=============================================================================
