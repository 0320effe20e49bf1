---------------------------- MODULE OrdersProofs ----------------------------
(* Proofs about Orders for every set of calls, rows and bodies and every     *)
(* bound on the environment: types, the locking discipline, the safety       *)
(* properties it yields, and that Orders implements OrderBook.               *)
EXTENDS Orders, SumTheorems

(* The handler holds an order, which exists, while it is between two steps. *)
HandlerHoldsOrder ==
    consumer.pc \in {"read", "update", "return", "ack"} =>
        consumer.order \in Calls /\ OrderExists(consumer.order)

(* A return is on account of a closed order that carries a coupon. *)
ReturnsForClosed ==
    consumer.pc = "return" =>
        order[consumer.order] = "timeout" /\ HasCoupon(consumer.order)

(* Messages name orders that exist. *)
MessagesNameOrders ==
    \A c \in delayed \cup ready \cup unacked : OrderExists(c)

(* A call's order appears with its commit. *)
OrderAtCommit ==
    \A c \in Calls :
        /\ call[c].pc \in InTx \cup {"idle"} => order[c] = NoOrder
        /\ call[c].pc = "publish" => OrderExists(c)

(* The product row: one transaction at a time, and what it read stays true: *)
(* the stock is that of DeductStock, which found twice the quantity.        *)
ProductLocked ==
    \A c \in Calls : call[c].pc \in InTx =>
        /\ body[c].product \in Products
        /\ \A d \in Calls : call[d].pc \in InTx
             /\ body[d].product = body[c].product => d = c
        /\ call[c].pc # "deduct" =>
             /\ call[c].before = stock[body[c].product]
             /\ call[c].before - body[c].quantity >= body[c].quantity

(* The coupon row, likewise, from the statement that locked it. *)
CouponLocked ==
    \A c \in Calls :
        /\ call[c].pc \in {"lockCoupon", "useCoupon"} => HasCoupon(c)
        /\ call[c].pc \in {"useCoupon", "insert", "commit"} /\ HasCoupon(c) =>
             /\ CouponOwner[body[c].coupon] = body[c].user
             /\ coupon[body[c].coupon].status = "unused"
             /\ coupon[body[c].coupon].version = call[c].version
             /\ \A d \in Calls : LocksCoupon(d, body[c].coupon) => d = c

(* An uncommitted insert is the only holder of its key. *)
KeyLocked ==
    \A c \in Calls : call[c].pc = "commit" =>
        /\ ~KeyTaken(body[c].key)
        /\ \A d \in Calls : LocksKey(d, body[c].key) => d = c

Discipline ==
    /\ HandlerHoldsOrder /\ ReturnsForClosed /\ MessagesNameOrders
    /\ OrderAtCommit /\ ProductLocked /\ CouponLocked /\ KeyLocked

IInv == TypeOK /\ Discipline

-----------------------------------------------------------------------------
(* Facts about the constants and the row types. *)

LEMMA BodyFacts ==
    ASSUME TypeOK, NEW c \in Calls
    PROVE  /\ body[c].user \in Users
           /\ body[c].product \in Products \cup {NoProduct}
           /\ body[c].quantity \in Nat /\ body[c].quantity > 0
           /\ body[c].coupon \in Coupons \cup {NoCoupon}
           /\ body[c].key \in Keys
BY BodiesAssumption DEF TypeOK

LEMMA InitInv == Init => IInv
<1> SUFFICES ASSUME Init PROVE IInv
  OBVIOUS
<1>1. TypeOK
  BY CatalogueAssumption, NullsAssumption
     DEF Init, TypeOK, InTx, Replies, CallState, LogEntry, CouponRow,
         ConsumerState, FaultCount
<1>2. Discipline
  BY NullsAssumption DEF Init, Discipline, HandlerHoldsOrder, ReturnsForClosed,
     MessagesNameOrders, OrderAtCommit, ProductLocked, CouponLocked, KeyLocked, InTx
<1> QED BY <1>1, <1>2 DEF IInv

LEMMA GotoType ==
    ASSUME call \in [Calls -> CallState], NEW c \in Calls,
           NEW pc \in InTx \cup {"idle", "publish", "done"}, Goto(c, pc)
    PROVE  call' \in [Calls -> CallState]
BY DEF Goto, CallState

LEMMA FinishType ==
    ASSUME call \in [Calls -> CallState], NEW c \in Calls,
           NEW reply \in Replies, Finish(c, reply)
    PROVE  call' \in [Calls -> CallState]
BY DEF Finish, CallState

LEMMA ChargeType ==
    ASSUME faults \in FaultCount, NEW kind \in {"db", "channel", "restart"},
           Charge(kind)
    PROVE  faults' \in FaultCount
BY DEF Charge, FaultCount

(* A fault that also costs an order its message, or a coupon its return. *)
LEMMA LossType ==
    ASSUME faults \in FaultCount, NEW c \in Calls
    PROVE  /\ [faults EXCEPT !.channel = @ + 1, !.unsent = @ \cup {c}] \in FaultCount
           /\ [faults EXCEPT !.db = @ + 1, !.unreturned = @ \cup {c}] \in FaultCount
<1>1. /\ faults.channel + 1 \in Nat /\ faults.db + 1 \in Nat
      /\ faults.unsent \cup {c} \in SUBSET Calls
      /\ faults.unreturned \cup {c} \in SUBSET Calls
  BY DEF FaultCount
<1>2. \A n \in Nat, S \in SUBSET Calls :
         /\ [faults EXCEPT !.channel = n, !.unsent = S] \in FaultCount
         /\ [faults EXCEPT !.db = n, !.unreturned = S] \in FaultCount
  BY DEF FaultCount
<1> QED BY <1>1, <1>2

-----------------------------------------------------------------------------
(* Types are preserved by the calls' steps. *)
LEMMA CallTypes ==
    ASSUME IInv, NEW c \in Calls,
           CallStep(c) \/ StatementFails(c) \/ CommitUnacknowledged(c)
             \/ PublishLost(c)
    PROVE  TypeOK'
<1>0. TypeOK /\ call \in [Calls -> CallState] /\ faults \in FaultCount
  BY DEF IInv, TypeOK
<1>1. CASE LockProduct(c)
  <2>1. call' \in [Calls -> CallState]
    BY <1>0, <1>1, GotoType, FinishType DEF LockProduct, InTx, Replies
  <2> QED BY <1>0, <1>1, <2>1 DEF LockProduct, TypeOK, dbVars, mqVars
<1>2. CASE DeductStock(c)
  <2>1. stock[body[c].product] \in Nat
    BY <1>0, <1>2 DEF DeductStock, IInv, Discipline, ProductLocked, TypeOK, InTx
  <2>2. call' \in [Calls -> CallState]
    BY <1>0, <1>2, <2>1, FinishType DEF DeductStock, InTx, Replies, CallState
  <2> QED BY <1>0, <1>2, <2>2 DEF DeductStock, TypeOK, dbVars, mqVars
<1>3. CASE LockCoupon(c)
  <2>1. coupon[body[c].coupon].version \in Nat
    BY <1>0, <1>3, BodyFacts DEF LockCoupon, IInv, Discipline, CouponLocked,
       HasCoupon, TypeOK, CouponRow
  <2>2. CouponRefusal(c, body[c].coupon) \in {"none", "couponUsed", "minAmount"}
    BY DEF CouponRefusal
  <2>3. call' \in [Calls -> CallState]
    BY <1>0, <1>3, <2>1, <2>2, FinishType DEF LockCoupon, InTx, Replies, CallState
  <2> QED BY <1>0, <1>3, <2>3 DEF LockCoupon, TypeOK, dbVars, mqVars
<1>4. CASE UseCoupon(c)
  <2>1. call' \in [Calls -> CallState]
    BY <1>0, <1>4, GotoType, FinishType DEF UseCoupon, InTx, Replies
  <2> QED BY <1>0, <1>4, <2>1 DEF UseCoupon, TypeOK, dbVars, mqVars
<1>5. CASE InsertOrder(c)
  <2>1. call' \in [Calls -> CallState]
    BY <1>0, <1>5, GotoType, FinishType DEF InsertOrder, InTx, Replies
  <2> QED BY <1>0, <1>5, <2>1 DEF InsertOrder, TypeOK, dbVars, mqVars
<1>6. ASSUME call[c].pc = "commit", Apply(c)
      PROVE  /\ stock' \in [Products -> Nat]
             /\ stockLog' \in [Products -> Seq(LogEntry)]
             /\ coupon' \in [Coupons -> CouponRow]
             /\ order' \in [Calls -> {NoOrder, "processing", "timeout"}]
  <2>1. /\ body[c].product \in Products
        /\ call[c].before - body[c].quantity >= body[c].quantity
    BY <1>6 DEF IInv, Discipline, ProductLocked, InTx
  <2>2. /\ call[c].before \in Nat
        /\ call[c].before - body[c].quantity \in Nat
        /\ -body[c].quantity \in Int
        /\ call[c].version + 1 \in Nat
    BY <1>0, <2>1, BodyFacts DEF CallState
  <2>3. stock' \in [Products -> Nat]
    BY <1>0, <1>6, <2>1, <2>2 DEF Apply, TypeOK
  <2>4. stockLog' \in [Products -> Seq(LogEntry)]
    <3> DEFINE entry == [quantity |-> -body[c].quantity, before |-> call[c].before,
                         after |-> call[c].before - body[c].quantity, by |-> c]
    <3>1. entry \in LogEntry
      BY <2>2 DEF LogEntry
    <3>2. stockLog[body[c].product] \in Seq(LogEntry)
      BY <1>0, <2>1 DEF TypeOK
    <3>3. Append(stockLog[body[c].product], entry) \in Seq(LogEntry)
      BY <3>1, <3>2
    <3> HIDE DEF entry
    <3>4. stockLog' = [stockLog EXCEPT ![body[c].product] =
                          Append(stockLog[body[c].product], entry)]
      BY <1>6 DEF Apply, entry
    <3> QED BY <1>0, <3>3, <3>4 DEF TypeOK
  <2>5. coupon' \in [Coupons -> CouponRow]
    <3>1. CASE HasCoupon(c)
      <4>1. body[c].coupon \in Coupons
        BY <1>0, <3>1, BodyFacts DEF HasCoupon
      <4> QED BY <1>0, <1>6, <2>2, <3>1, <4>1 DEF Apply, TypeOK, CouponRow
    <3>2. CASE ~HasCoupon(c)
      BY <1>0, <1>6, <3>2 DEF Apply, TypeOK
    <3> QED BY <3>1, <3>2
  <2>6. order' \in [Calls -> {NoOrder, "processing", "timeout"}]
    BY <1>0, <1>6 DEF Apply, TypeOK
  <2> QED BY <2>3, <2>4, <2>5, <2>6
<1>7. CASE Commit(c)
  <2>1. call' \in [Calls -> CallState]
    BY <1>0, <1>7, GotoType DEF Commit
  <2> QED BY <1>0, <1>6, <1>7, <2>1 DEF Commit, TypeOK, mqVars
<1>8. CASE CommitUnacknowledged(c)
  <2>1. call' \in [Calls -> CallState] /\ faults' \in FaultCount
    BY <1>0, <1>8, FinishType, ChargeType DEF CommitUnacknowledged, Replies
  <2> QED BY <1>0, <1>6, <1>8, <2>1 DEF CommitUnacknowledged, TypeOK, mqVars
<1>9. CASE StatementFails(c)
  <2>1. call' \in [Calls -> CallState] /\ faults' \in FaultCount
    BY <1>0, <1>9, FinishType, ChargeType DEF StatementFails, Replies
  <2> QED BY <1>0, <1>9, <2>1 DEF StatementFails, TypeOK, dbVars, mqVars
<1>10. CASE Publish(c)
  <2>1. call' \in [Calls -> CallState]
    BY <1>0, <1>10, FinishType DEF Publish, Replies
  <2> QED BY <1>0, <1>10, <2>1 DEF Publish, TypeOK, dbVars
<1>11. CASE PublishLost(c)
  <2>1. call' \in [Calls -> CallState]
    BY <1>0, <1>11, FinishType DEF PublishLost, Replies
  <2>3. faults' \in FaultCount
    BY <1>0, <1>11, LossType DEF PublishLost
  <2>2. consumer' \in ConsumerState
    BY <1>0, <1>11 DEF PublishLost, CloseChannel, TypeOK, ConsumerState
  <2> QED BY <1>0, <1>11, <2>1, <2>2, <2>3 DEF PublishLost, CloseChannel, TypeOK, dbVars
<1> QED
  BY <1>1, <1>2, <1>3, <1>4, <1>5, <1>7, <1>8, <1>9, <1>10, <1>11 DEF CallStep

(* Types are preserved by the broker, the consumer and the environment. *)
LEMMA OtherTypes ==
    ASSUME IInv,
           \/ \E o \in Calls : TTLExpires(o) \/ Deliver(o)
           \/ \E cp \in Coupons : CouponExpires(cp)
           \/ Handle \/ ChannelCloses \/ ReturnCouponFails \/ HandlerFails
           \/ Restart \/ UNCHANGED vars
    PROVE  TypeOK'
<1>0. TypeOK /\ faults \in FaultCount /\ consumer \in ConsumerState
  BY DEF IInv, TypeOK
<1>1. ASSUME NEW o \in Calls, TTLExpires(o) PROVE TypeOK'
  BY <1>0, <1>1 DEF TTLExpires, TypeOK, dbVars
<1>2. ASSUME NEW o \in Calls, Deliver(o) PROVE TypeOK'
  <2>1. consumer' \in ConsumerState
    BY <1>2 DEF Deliver, ConsumerState
  <2> QED BY <1>0, <1>2, <2>1 DEF Deliver, TypeOK, dbVars
<1>3. ASSUME NEW cp \in Coupons, CouponExpires(cp) PROVE TypeOK'
  BY <1>0, <1>3 DEF CouponExpires, TypeOK, dbVars, mqVars
<1>4. CASE ReadOrder
  <2>1. consumer' \in ConsumerState
    BY <1>0, <1>4 DEF ReadOrder, AfterClose, ConsumerState
  <2> QED BY <1>0, <1>4, <2>1 DEF ReadOrder, TypeOK, dbVars, mqVars
<1>5. CASE CloseOrder
  <2>1. consumer' \in ConsumerState
    BY <1>0, <1>5 DEF CloseOrder, AfterClose, ConsumerState
  <2>2. order' \in [Calls -> {NoOrder, "processing", "timeout"}]
    BY <1>0, <1>5 DEF CloseOrder, TimedOut, TypeOK
  <2> QED BY <1>0, <1>5, <2>1, <2>2 DEF CloseOrder, TypeOK, mqVars
<1>6. CASE ReturnCoupon
  <2>1. consumer' \in ConsumerState
    BY <1>0, <1>6 DEF ReturnCoupon, ConsumerState
  <2>2. body[consumer.order].coupon \in Coupons
    BY <1>0, <1>6, BodyFacts DEF ReturnCoupon, IInv, Discipline,
       HandlerHoldsOrder, ReturnsForClosed, HasCoupon
  <2>3. coupon[body[consumer.order].coupon].version + 1 \in Nat
    BY <1>0, <2>2 DEF TypeOK, CouponRow
  <2>4. coupon' \in [Coupons -> CouponRow]
    <3>1. \/ coupon' = coupon
          \/ coupon' = [coupon EXCEPT ![body[consumer.order].coupon] =
                 [status |-> "unused", usedOrder |-> NoOrder,
                  version |-> coupon[body[consumer.order].coupon].version + 1]]
      BY <1>6 DEF ReturnCoupon
    <3> QED BY <1>0, <2>3, <3>1 DEF TypeOK, CouponRow
  <2> QED BY <1>0, <1>6, <2>1, <2>4 DEF ReturnCoupon, TypeOK, mqVars
<1>7. CASE ReturnCouponFails
  <2>1. consumer' \in ConsumerState
    BY <1>0, <1>7 DEF ReturnCouponFails, ConsumerState
  <2>2. consumer.order \in Calls
    BY <1>7 DEF ReturnCouponFails, IInv, Discipline, HandlerHoldsOrder
  <2>3. faults' \in FaultCount
    BY <1>0, <1>7, <2>2, LossType DEF ReturnCouponFails
  <2> QED BY <1>0, <1>7, <2>1, <2>3 DEF ReturnCouponFails, TypeOK, dbVars, mqVars
<1>8. ASSUME NEW b \in BOOLEAN, Settle(b),
             consumer.pc \in {"read", "update", "return", "ack"}
      PROVE  /\ consumer' \in ConsumerState
             /\ ready' \subseteq Calls /\ unacked' \subseteq Calls
  BY <1>0, <1>8 DEF Settle, IInv, Discipline, HandlerHoldsOrder, TypeOK, ConsumerState
<1>9. CASE Ack
  BY <1>0, <1>8, <1>9 DEF Ack, TypeOK, dbVars
<1>10. CASE HandlerFails
  <2>1. order' \in [Calls -> {NoOrder, "processing", "timeout"}]
    BY <1>0, <1>10 DEF HandlerFails, TimedOut, TypeOK
  <2>2. /\ consumer' \in ConsumerState
        /\ ready' \subseteq Calls /\ unacked' \subseteq Calls
    <3>1. (RetryCount(consumer.order) < MaxRetries) \in BOOLEAN
      OBVIOUS
    <3> QED BY <1>8, <1>10, <3>1 DEF HandlerFails
  <2>3. faults' \in FaultCount
    BY <1>0, <1>10, ChargeType DEF HandlerFails
  <2> QED BY <1>0, <1>10, <2>1, <2>2, <2>3 DEF HandlerFails, TypeOK
<1>11. CASE ChannelCloses
  <2>1. consumer' \in ConsumerState /\ faults' \in FaultCount
    BY <1>0, <1>11, ChargeType DEF ChannelCloses, CloseChannel, ConsumerState
  <2> QED BY <1>0, <1>11, <2>1 DEF ChannelCloses, CloseChannel, TypeOK, dbVars
<1>12. CASE Restart
  <2>1. call' \in [Calls -> CallState]
    BY ZenonT(30), <1>0, <1>12 DEF Restart, TypeOK, CallState, Replies
  <2>2. consumer' \in ConsumerState /\ faults' \in FaultCount
    BY <1>0, <1>12, ChargeType DEF Restart, ConsumerState
  <2> QED BY <1>0, <1>12, <2>1, <2>2 DEF Restart, TypeOK, dbVars
<1>13. CASE UNCHANGED vars
  BY <1>0, <1>13 DEF vars, TypeOK
<1> QED
  BY <1>1, <1>2, <1>3, <1>4, <1>5, <1>6, <1>7, <1>9, <1>10, <1>11, <1>12, <1>13
     DEF Handle
-----------------------------------------------------------------------------
(* What moving or finishing a call does to the calls. *)
LEMMA GotoEffect ==
    ASSUME call \in [Calls -> CallState], NEW c \in Calls, NEW pc, Goto(c, pc)
    PROVE  /\ call'[c].pc = pc /\ call'[c].reply = call[c].reply
           /\ call'[c].before = call[c].before /\ call'[c].version = call[c].version
           /\ \A d \in Calls \ {c} : call'[d] = call[d]
BY DEF Goto, CallState

LEMMA FinishEffect ==
    ASSUME call \in [Calls -> CallState], NEW c \in Calls, NEW reply,
           Finish(c, reply)
    PROVE  /\ call'[c].pc = "done" /\ call'[c].reply = reply
           /\ \A d \in Calls \ {c} : call'[d] = call[d]
BY DEF Finish, CallState

(* A step that only finishes calls (an error, a lost process) and leaves the *)
(* rows alone keeps the rows' discipline: locks are only given up.           *)
RowDiscipline == OrderAtCommit /\ ProductLocked /\ CouponLocked /\ KeyLocked

LEMMA GivingUp ==
    ASSUME IInv, UNCHANGED <<body, dbVars>>,
           \A d \in Calls : call'[d] = call[d] \/ call'[d].pc = "done"
    PROVE  RowDiscipline'
<1> USE DEF IInv, Discipline
<1>1. OrderAtCommit'
  BY DEF OrderAtCommit, OrderExists, dbVars, InTx
<1>2. ProductLocked'
  BY DEF ProductLocked, dbVars, InTx
<1>3. CouponLocked'
  BY DEF CouponLocked, LocksCoupon, HasCoupon, dbVars
<1>4. KeyLocked'
  BY DEF KeyLocked, LocksKey, KeyTaken, dbVars
<1> QED BY <1>1, <1>2, <1>3, <1>4 DEF RowDiscipline

(* The statements of a transaction keep the rows' discipline. *)
LEMMA StatementRows ==
    ASSUME IInv, NEW c \in Calls,
           \/ LockProduct(c) \/ DeductStock(c) \/ LockCoupon(c) \/ UseCoupon(c)
           \/ InsertOrder(c)
    PROVE  RowDiscipline'
<1>0. /\ TypeOK /\ call \in [Calls -> CallState] /\ OrderAtCommit
      /\ ProductLocked /\ CouponLocked /\ KeyLocked
  BY DEF IInv, Discipline, TypeOK
<1>1. UNCHANGED <<body, dbVars>>
  BY DEF LockProduct, DeductStock, LockCoupon, UseCoupon, InsertOrder
<1>2. ASSUME NEW reply, Finish(c, reply) PROVE RowDiscipline'
  BY <1>0, <1>1, <1>2, GivingUp, FinishEffect
<1>3. CASE LockProduct(c)
  <2>1. CASE Finish(c, "notFound")
    BY <1>2, <2>1
  <2>2. CASE /\ body[c].product \in Products
             /\ \A d \in Calls \ {c} : ~LocksProduct(d, body[c].product)
             /\ Goto(c, "deduct")
    <3>0. /\ call'[c].pc = "deduct" /\ call[c].pc = "idle"
          /\ \A d \in Calls \ {c} : call'[d] = call[d]
      BY <1>0, <1>3, <2>2, GotoEffect DEF LockProduct
    <3>1. OrderAtCommit'
      BY <1>0, <1>1, <3>0 DEF OrderAtCommit, OrderExists, dbVars, InTx
    <3>2. ProductLocked'
      BY <1>0, <1>1, <2>2, <3>0 DEF ProductLocked, LocksProduct, dbVars, InTx
    <3>3. CouponLocked'
      BY <1>0, <1>1, <3>0 DEF CouponLocked, LocksCoupon, HasCoupon, dbVars
    <3>4. KeyLocked'
      BY <1>0, <1>1, <3>0 DEF KeyLocked, LocksKey, KeyTaken, dbVars
    <3> QED BY <3>1, <3>2, <3>3, <3>4 DEF RowDiscipline
  <2> QED BY <1>3, <2>1, <2>2 DEF LockProduct
<1>4. CASE DeductStock(c)
  <2>1. CASE Finish(c, "insufficient")
    BY <1>2, <2>1
  <2>2. CASE /\ stock[body[c].product] - body[c].quantity >= body[c].quantity
             /\ call' = [call EXCEPT ![c].before = stock[body[c].product],
                                     ![c].pc = IF HasCoupon(c) THEN "lockCoupon"
                                                               ELSE "insert"]
    <3>0. /\ call[c].pc = "deduct"
          /\ call'[c].pc = IF HasCoupon(c) THEN "lockCoupon" ELSE "insert"
          /\ call'[c].before = stock[body[c].product]
          /\ \A d \in Calls \ {c} : call'[d] = call[d]
      BY <1>0, <1>4, <2>2 DEF DeductStock, CallState
    <3>1. OrderAtCommit'
      BY <1>0, <1>1, <3>0 DEF OrderAtCommit, OrderExists, dbVars, InTx
    <3>2. ProductLocked'
      BY <1>0, <1>1, <2>2, <3>0 DEF ProductLocked, dbVars, InTx
    <3>3. CouponLocked'
      BY <1>0, <1>1, <3>0 DEF CouponLocked, LocksCoupon, HasCoupon, dbVars
    <3>4. KeyLocked'
      BY <1>0, <1>1, <3>0 DEF KeyLocked, LocksKey, KeyTaken, dbVars
    <3> QED BY <3>1, <3>2, <3>3, <3>4 DEF RowDiscipline
  <2> QED BY <1>4, <2>1, <2>2 DEF DeductStock
<1>5. CASE LockCoupon(c)
  <2>1. CASE Finish(c, "notOwned") \/ Finish(c, CouponRefusal(c, body[c].coupon))
    BY <1>2, <2>1
  <2>2. CASE /\ CouponOwner[body[c].coupon] = body[c].user
             /\ \A d \in Calls \ {c} : ~LocksCoupon(d, body[c].coupon)
             /\ CouponRefusal(c, body[c].coupon) = "none"
             /\ call' = [call EXCEPT ![c].pc = "useCoupon",
                                     ![c].version = coupon[body[c].coupon].version]
    <3>0. /\ call[c].pc = "lockCoupon" /\ call'[c].pc = "useCoupon"
          /\ call'[c].version = coupon[body[c].coupon].version
          /\ call'[c].before = call[c].before
          /\ \A d \in Calls \ {c} : call'[d] = call[d]
      BY <1>0, <1>5, <2>2 DEF LockCoupon, CallState
    <3>1. OrderAtCommit'
      BY <1>0, <1>1, <3>0 DEF OrderAtCommit, OrderExists, dbVars, InTx
    <3>2. ProductLocked'
      BY <1>0, <1>1, <3>0 DEF ProductLocked, dbVars, InTx
    <3>3. coupon[body[c].coupon].status = "unused" /\ HasCoupon(c)
      BY <1>0, <2>2, <3>0 DEF CouponRefusal, CouponLocked
    <3>4. CouponLocked'
      BY <1>0, <1>1, <2>2, <3>0, <3>3 DEF CouponLocked, LocksCoupon, HasCoupon, dbVars
    <3>5. KeyLocked'
      BY <1>0, <1>1, <3>0 DEF KeyLocked, LocksKey, KeyTaken, dbVars
    <3> QED BY <3>1, <3>2, <3>4, <3>5 DEF RowDiscipline
  <2> QED BY <1>5, <2>1, <2>2 DEF LockCoupon
<1>6. CASE UseCoupon(c)
  <2>1. CASE Finish(c, "couponUsed")
    BY <1>2, <2>1
  <2>2. CASE Goto(c, "insert")
    <3>0. /\ call[c].pc = "useCoupon" /\ call'[c].pc = "insert"
          /\ call'[c].version = call[c].version /\ call'[c].before = call[c].before
          /\ \A d \in Calls \ {c} : call'[d] = call[d]
      BY <1>0, <1>6, <2>2, GotoEffect DEF UseCoupon
    <3>1. OrderAtCommit'
      BY <1>0, <1>1, <3>0 DEF OrderAtCommit, OrderExists, dbVars, InTx
    <3>2. ProductLocked'
      BY <1>0, <1>1, <3>0 DEF ProductLocked, dbVars, InTx
    <3>3. CouponLocked'
      BY <1>0, <1>1, <3>0 DEF CouponLocked, LocksCoupon, HasCoupon, dbVars
    <3>4. KeyLocked'
      BY <1>0, <1>1, <3>0 DEF KeyLocked, LocksKey, KeyTaken, dbVars
    <3> QED BY <3>1, <3>2, <3>3, <3>4 DEF RowDiscipline
  <2> QED BY <1>6, <2>1, <2>2 DEF UseCoupon
<1>7. CASE InsertOrder(c)
  <2>1. CASE Finish(c, "ok")
    BY <1>2, <2>1
  <2>2. CASE ~KeyTaken(body[c].key) /\ Goto(c, "commit")
    <3>0. /\ call[c].pc = "insert" /\ call'[c].pc = "commit"
          /\ call'[c].version = call[c].version /\ call'[c].before = call[c].before
          /\ \A d \in Calls \ {c} : call'[d] = call[d]
      BY <1>0, <1>7, <2>2, GotoEffect DEF InsertOrder
    <3>1. OrderAtCommit'
      BY <1>0, <1>1, <3>0 DEF OrderAtCommit, OrderExists, dbVars, InTx
    <3>2. ProductLocked'
      BY <1>0, <1>1, <3>0 DEF ProductLocked, dbVars, InTx
    <3>3. CouponLocked'
      BY <1>0, <1>1, <3>0 DEF CouponLocked, LocksCoupon, HasCoupon, dbVars
    <3>4. KeyLocked'
      BY <1>0, <1>1, <1>7, <2>2, <3>0 DEF InsertOrder, KeyLocked, LocksKey, KeyTaken, dbVars
    <3> QED BY <3>1, <3>2, <3>3, <3>4 DEF RowDiscipline
  <2> QED BY <1>7, <2>1, <2>2 DEF InsertOrder
<1> QED BY <1>3, <1>4, <1>5, <1>6, <1>7
(* Committing releases the locks and leaves what the other transactions     *)
(* have read as it was: they hold other rows and other keys.                 *)
LEMMA CommitRows ==
    ASSUME IInv, NEW c \in Calls, Commit(c) \/ CommitUnacknowledged(c)
    PROVE  RowDiscipline'
<1>0. /\ TypeOK /\ call \in [Calls -> CallState] /\ OrderAtCommit
      /\ ProductLocked /\ CouponLocked /\ KeyLocked
  BY DEF IInv, Discipline, TypeOK
<1>1. /\ call[c].pc = "commit" /\ Apply(c) /\ body' = body
  BY DEF Commit, CommitUnacknowledged
<1>2. /\ call'[c].pc \in {"publish", "done"}
      /\ \A d \in Calls \ {c} : call'[d] = call[d]
  BY <1>0, GotoEffect, FinishEffect DEF Commit, CommitUnacknowledged
<1>3. /\ order' = [order EXCEPT ![c] = "processing"]
      /\ \A d \in Calls \ {c} : order'[d] = order[d]
      /\ order'[c] = "processing"
  BY <1>0, <1>1 DEF Apply, TypeOK
<1>4. OrderAtCommit'
  BY <1>0, <1>2, <1>3, NullsAssumption DEF OrderAtCommit, OrderExists, InTx
<1>5. ProductLocked'
  <2>1. body[c].product \in Products
    BY <1>0, <1>1 DEF ProductLocked, InTx
  <2>2. \A p \in Products \ {body[c].product} : stock'[p] = stock[p]
    BY <1>0, <1>1 DEF Apply, TypeOK
  <2> QED BY <1>0, <1>1, <1>2, <2>1, <2>2 DEF ProductLocked, InTx
<1>6. CouponLocked'
  <2>1. \A cp \in Coupons : cp # body[c].coupon => coupon'[cp] = coupon[cp]
    BY <1>0, <1>1 DEF Apply, TypeOK
  <2>2. \A d \in Calls \ {c} :
           /\ call[d].pc \in {"useCoupon", "insert", "commit"} /\ HasCoupon(d)
           => body[d].coupon # body[c].coupon
    BY <1>0, <1>1 DEF CouponLocked, LocksCoupon, HasCoupon
  <2>3. \A d \in Calls : HasCoupon(d) => body[d].coupon \in Coupons
    BY <1>0, BodyFacts DEF HasCoupon
  <2> QED BY <1>0, <1>1, <1>2, <2>1, <2>2, <2>3 DEF CouponLocked, LocksCoupon, HasCoupon
<1>7. KeyLocked'
  <2>1. \A d \in Calls \ {c} : call[d].pc = "commit" => body[d].key # body[c].key
    BY <1>0, <1>1 DEF KeyLocked, LocksKey
  <2> QED BY <1>0, <1>1, <1>2, <1>3, <2>1 DEF KeyLocked, LocksKey, KeyTaken
<1> QED BY <1>4, <1>5, <1>6, <1>7 DEF RowDiscipline

(* The consumer changes an existing order's status and, of the coupons, only *)
(* one that no transaction has locked.                                       *)
LEMMA ConsumerRows ==
    ASSUME IInv, Handle \/ ReturnCouponFails \/ HandlerFails
    PROVE  RowDiscipline'
<1>0. /\ TypeOK /\ OrderAtCommit /\ ProductLocked /\ CouponLocked /\ KeyLocked
      /\ HandlerHoldsOrder
  BY DEF IInv, Discipline
<1>1. body' = body /\ call' = call /\ stock' = stock
  BY DEF Handle, ReadOrder, CloseOrder, ReturnCoupon, Ack, ReturnCouponFails,
     HandlerFails, dbVars
<1>2. \A d \in Calls : order'[d] = NoOrder <=> order[d] = NoOrder
  <2>1. order' = order \/ order' = TimedOut(consumer.order)
    BY DEF Handle, ReadOrder, CloseOrder, ReturnCoupon, Ack, ReturnCouponFails,
       HandlerFails, dbVars
  <2> QED BY <1>0, <2>1, NullsAssumption DEF TimedOut, TypeOK
<1>3. OrderAtCommit'
  BY <1>0, <1>1, <1>2 DEF OrderAtCommit, OrderExists
<1>4. ProductLocked'
  BY <1>0, <1>1 DEF ProductLocked
<1>5. CouponLocked'
  <2>1. CASE coupon' = coupon
    BY <1>0, <1>1, <2>1 DEF CouponLocked, LocksCoupon, HasCoupon
  <2>2. CASE ReturnCoupon
    <3>1. \A cp \in Coupons \ {body[consumer.order].coupon} : coupon'[cp] = coupon[cp]
      BY <1>0, <2>2 DEF ReturnCoupon, TypeOK
    <3>2. \A d \in Calls : ~LocksCoupon(d, body[consumer.order].coupon)
      BY <2>2 DEF ReturnCoupon
    <3>3. \A d \in Calls : HasCoupon(d) => body[d].coupon \in Coupons
      BY <1>0, BodyFacts DEF HasCoupon
    <3> QED BY <1>0, <1>1, <3>1, <3>2, <3>3 DEF CouponLocked, LocksCoupon, HasCoupon
  <2> QED BY <2>1, <2>2 DEF Handle, ReadOrder, CloseOrder, Ack, ReturnCouponFails,
             HandlerFails, dbVars
<1>6. KeyLocked'
  BY <1>0, <1>1, <1>2 DEF KeyLocked, LocksKey, KeyTaken
<1> QED BY <1>3, <1>4, <1>5, <1>6 DEF RowDiscipline

(* Publishing ends the call; the environment's other steps end calls or     *)
(* touch no row and no call.                                                 *)
LEMMA OtherRows ==
    ASSUME IInv,
           \/ \E c \in Calls : Publish(c) \/ PublishLost(c) \/ StatementFails(c)
                              \/ TTLExpires(c) \/ Deliver(c)
           \/ \E cp \in Coupons : CouponExpires(cp)
           \/ ChannelCloses \/ Restart \/ UNCHANGED vars
    PROVE  RowDiscipline'
<1>0. call \in [Calls -> CallState]
  BY DEF IInv, TypeOK
<1>1. UNCHANGED <<body, dbVars>>
  BY DEF Publish, PublishLost, StatementFails, TTLExpires, Deliver, CouponExpires,
     ChannelCloses, Restart, vars, dbVars
<1>2. \A d \in Calls : call'[d] = call[d] \/ call'[d].pc = "done"
  <2>1. CASE \E c \in Calls : Publish(c) \/ PublishLost(c) \/ StatementFails(c)
    <3>1. PICK c \in Calls : Publish(c) \/ PublishLost(c) \/ StatementFails(c)
      BY <2>1
    <3>2. \E r : Finish(c, r)
      BY <3>1 DEF Publish, PublishLost, StatementFails
    <3> QED BY <1>0, <3>2, FinishEffect
  <2>2. CASE Restart
    BY <1>0, <2>2 DEF Restart, CallState
  <2>3. CASE call' = call
    BY <2>3
  <2> QED BY <2>1, <2>2, <2>3 DEF TTLExpires, Deliver, CouponExpires,
             ChannelCloses, vars
<1> QED BY <1>1, <1>2, GivingUp
-----------------------------------------------------------------------------
(* Orders never disappear, and a closed one stays closed. *)
LEMMA OrdersStay ==
    ASSUME IInv, [Next]_vars, NEW c \in Calls
    PROVE  /\ body' = body
           /\ order[c] # NoOrder => order'[c] # NoOrder
           /\ order[c] = "timeout" => order'[c] = "timeout"
<1>1. body' = body
  BY DEF Next, CallStep, LockProduct, DeductStock, LockCoupon, UseCoupon,
     InsertOrder, Commit, Publish, TTLExpires, Deliver, CouponExpires, Handle,
     ReadOrder, CloseOrder, ReturnCoupon, Ack, Fault, StatementFails,
     CommitUnacknowledged, PublishLost, ChannelCloses, ReturnCouponFails,
     HandlerFails, Restart, Quiescent, vars
<1>2. \/ order' = order
      \/ order' = TimedOut(consumer.order)
      \/ \E d \in Calls : /\ call[d].pc = "commit"
                         /\ order' = [order EXCEPT ![d] = "processing"]
  BY DEF Next, CallStep, LockProduct, DeductStock, LockCoupon, UseCoupon,
     InsertOrder, Commit, Publish, TTLExpires, Deliver, CouponExpires, Handle,
     ReadOrder, CloseOrder, ReturnCoupon, Ack, Fault, StatementFails,
     CommitUnacknowledged, PublishLost, ChannelCloses, ReturnCouponFails,
     HandlerFails, Restart, Quiescent, vars, dbVars, Apply
<1>3. \A d \in Calls : call[d].pc = "commit" => order[d] = NoOrder
  BY DEF IInv, Discipline, OrderAtCommit, InTx
<1> QED
  BY <1>1, <1>2, <1>3, NullsAssumption DEF TimedOut, IInv, TypeOK

(* Messages and the handler only ever name orders that exist. *)
LEMMA MessageStep ==
    ASSUME IInv, [Next]_vars
    PROVE  HandlerHoldsOrder' /\ ReturnsForClosed' /\ MessagesNameOrders'
<1>0. /\ TypeOK /\ HandlerHoldsOrder /\ ReturnsForClosed /\ MessagesNameOrders
      /\ OrderAtCommit
  BY DEF IInv, Discipline
<1>1. /\ body' = body
      /\ \A c \in Calls : OrderExists(c) => OrderExists(c)'
      /\ \A c \in Calls : order[c] = "timeout" => order'[c] = "timeout"
  <2>1. CASE Calls = {}
    <3>1. body' = body
      BY <1>0, <2>1 DEF Next, Handle, ReadOrder, CloseOrder, ReturnCoupon, Ack, Fault,
         ChannelCloses, ReturnCouponFails, HandlerFails, Restart, Quiescent,
         CouponExpires, vars
    <3> QED BY <2>1, <3>1
  <2>2. CASE Calls # {}
    BY <2>2, OrdersStay DEF OrderExists
  <2> QED BY <2>1, <2>2
<1>2. ASSUME consumer' = consumer,
             delayed' \cup ready' \cup unacked' \subseteq Calls,
             \A c \in delayed' \cup ready' \cup unacked' :
                c \in delayed \cup ready \cup unacked \/ call[c].pc = "publish"
      PROVE  HandlerHoldsOrder' /\ ReturnsForClosed' /\ MessagesNameOrders'
  <2>1. MessagesNameOrders'
    BY <1>0, <1>1, <1>2 DEF MessagesNameOrders, OrderExists, OrderAtCommit
  <2>2. HandlerHoldsOrder'
    BY <1>0, <1>1, <1>2 DEF HandlerHoldsOrder, OrderExists
  <2>3. ReturnsForClosed'
    BY <1>0, <1>1, <1>2 DEF HandlerHoldsOrder, ReturnsForClosed, HasCoupon
  <2> QED BY <2>1, <2>2, <2>3
<1>3. ASSUME NEW c \in Calls,
             \/ CallStep(c) \/ StatementFails(c) \/ CommitUnacknowledged(c)
             \/ TTLExpires(c)
      PROVE  HandlerHoldsOrder' /\ ReturnsForClosed' /\ MessagesNameOrders'
  BY <1>0, <1>2, <1>3 DEF CallStep, LockProduct, DeductStock, LockCoupon, UseCoupon,
     InsertOrder, Commit, Publish, StatementFails, CommitUnacknowledged, TTLExpires,
     mqVars, TypeOK
<1>4. ASSUME NEW c \in Calls, Deliver(c)
      PROVE  HandlerHoldsOrder' /\ ReturnsForClosed' /\ MessagesNameOrders'
  BY <1>0, <1>1, <1>4 DEF Deliver, HandlerHoldsOrder, ReturnsForClosed,
     MessagesNameOrders, OrderExists, TypeOK, dbVars
<1>5. ASSUME CloseChannel, UNCHANGED <<body, order, delayed>>
      PROVE  HandlerHoldsOrder' /\ ReturnsForClosed' /\ MessagesNameOrders'
  BY <1>0, <1>5 DEF CloseChannel, HandlerHoldsOrder, ReturnsForClosed,
     MessagesNameOrders, OrderExists, HasCoupon, TypeOK, ConsumerState
<1>6. CASE ChannelCloses \/ \E c \in Calls : PublishLost(c)
  BY <1>5, <1>6 DEF ChannelCloses, PublishLost, dbVars
<1>7. CASE Restart
  BY <1>0, <1>7 DEF Restart, dbVars, HandlerHoldsOrder, ReturnsForClosed,
     MessagesNameOrders, OrderExists
<1>8. CASE ReadOrder
  <2>1. /\ consumer'.order = consumer.order
        /\ consumer'.pc = "return" =>
             order[consumer.order] # "processing" /\ HasCoupon(consumer.order)
        /\ consumer.order \in Calls /\ OrderExists(consumer.order)
    BY <1>0, <1>8 DEF ReadOrder, AfterClose, TypeOK, ConsumerState, HandlerHoldsOrder
  <2>2. UNCHANGED <<body, order, delayed, ready, unacked>>
    BY <1>8 DEF ReadOrder, dbVars, mqVars
  <2> QED BY <1>0, <2>1, <2>2 DEF HandlerHoldsOrder, ReturnsForClosed,
             MessagesNameOrders, OrderExists, HasCoupon, TypeOK
<1>9. CASE CloseOrder
  <2>1. /\ consumer'.order = consumer.order
        /\ consumer'.pc = "return" => HasCoupon(consumer.order)
        /\ consumer.order \in Calls /\ OrderExists(consumer.order)
    BY <1>0, <1>9 DEF CloseOrder, AfterClose, TypeOK, ConsumerState, HandlerHoldsOrder
  <2>2. order'[consumer.order] = "timeout"
    BY <1>0, <1>9, <2>1 DEF CloseOrder, TimedOut, TypeOK, OrderExists
  <2>3. UNCHANGED <<body, delayed, ready, unacked>>
    BY <1>9 DEF CloseOrder, mqVars
  <2>4. MessagesNameOrders'
    BY <1>0, <1>1, <2>3 DEF MessagesNameOrders, OrderExists, TypeOK
  <2>5. HandlerHoldsOrder' /\ ReturnsForClosed'
    BY <2>1, <2>2, <2>3, NullsAssumption DEF HandlerHoldsOrder, ReturnsForClosed,
       OrderExists, HasCoupon
  <2> QED BY <2>4, <2>5
<1>10. CASE ReturnCoupon \/ ReturnCouponFails
  <2>1. consumer'.order = consumer.order /\ consumer'.pc = "ack"
    BY <1>0, <1>10 DEF ReturnCoupon, ReturnCouponFails, TypeOK, ConsumerState
  <2>2. UNCHANGED <<body, order, delayed, ready, unacked>>
    BY <1>10 DEF ReturnCoupon, ReturnCouponFails, dbVars, mqVars
  <2>3. consumer.order \in Calls /\ OrderExists(consumer.order)
    BY <1>0, <1>10 DEF ReturnCoupon, ReturnCouponFails, HandlerHoldsOrder
  <2> QED BY <1>0, <2>1, <2>2, <2>3 DEF HandlerHoldsOrder, ReturnsForClosed,
             MessagesNameOrders, OrderExists
<1>11. CASE Ack \/ HandlerFails
  <2>1. /\ consumer'.pc \in {"idle", "stopped"}
        /\ ready' \subseteq ready \cup {consumer.order}
        /\ unacked' \subseteq unacked /\ delayed' = delayed
    BY <1>11 DEF Ack, HandlerFails, Settle
  <2>2. consumer.order \in Calls /\ OrderExists(consumer.order)
    BY <1>0, <1>11 DEF Ack, HandlerFails, HandlerHoldsOrder
  <2>3. MessagesNameOrders'
    BY <1>0, <1>1, <2>1, <2>2 DEF MessagesNameOrders, OrderExists, TypeOK
  <2> QED BY <2>1, <2>3 DEF HandlerHoldsOrder, ReturnsForClosed
<1>12. CASE (\E cp \in Coupons : CouponExpires(cp)) \/ UNCHANGED vars
  BY <1>0, <1>2, <1>12 DEF CouponExpires, vars, mqVars, TypeOK
<1> QED
  BY <1>3, <1>4, <1>6, <1>7, <1>8, <1>9, <1>10, <1>11, <1>12
     DEF Next, Handle, Fault, Quiescent

(* The inductive invariant. *)
THEOREM InductiveStep == IInv /\ [Next]_vars => IInv'
<1> SUFFICES ASSUME IInv, [Next]_vars PROVE IInv'
  OBVIOUS
<1>1. TypeOK'
  BY CallTypes, OtherTypes DEF Next, Fault, Quiescent
<1>2. HandlerHoldsOrder' /\ ReturnsForClosed' /\ MessagesNameOrders'
  BY MessageStep
<1>3. RowDiscipline'
  BY StatementRows, CommitRows, ConsumerRows, OtherRows
     DEF Next, CallStep, Fault, Quiescent
<1> QED BY <1>1, <1>2, <1>3 DEF IInv, Discipline, RowDiscipline

(* Every behaviour of Orders keeps its types and its locking discipline. *)
THEOREM Disciplined == Spec => []IInv
BY InitInv, InductiveStep, PTL DEF Spec

(* Type correctness of Orders. *)
THEOREM TypeCorrect == Spec => []TypeOK
<1>1. IInv => TypeOK
  BY DEF IInv
<1> QED BY <1>1, Disciplined, PTL
-----------------------------------------------------------------------------
(* What the discipline is for. *)

LEMMA SafetyInit ==
    Init => OneOrderPerKey /\ AckedHasOrder /\ StockAudited /\ StockMatchesOrders
<1> SUFFICES ASSUME Init
             PROVE  OneOrderPerKey /\ AckedHasOrder /\ StockAudited /\ StockMatchesOrders
  OBVIOUS
<1>1. OneOrderPerKey /\ AckedHasOrder /\ StockMatchesOrders
  BY DEF Init, OneOrderPerKey, AckedHasOrder, StockMatchesOrders, OrderExists
<1>2. StockAudited
  BY DEF Init, StockAudited
<1> QED BY <1>1, <1>2

(* The steps that commit are the only ones that change stock, log or orders *)
(* other than by closing one.                                                *)
LEMMA RowChanges ==
    ASSUME IInv, [Next]_vars
    PROVE  \/ \E c \in Calls : /\ call[c].pc = "commit" /\ Apply(c)
                              /\ body' = body
           \/ /\ UNCHANGED <<body, stock, stockLog>>
              /\ \A c \in Calls : order'[c] = NoOrder <=> order[c] = NoOrder
<1>1. \/ \E c \in Calls : call[c].pc = "commit" /\ Apply(c) /\ body' = body
      \/ /\ UNCHANGED <<body, stock, stockLog>>
         /\ order' = order \/ order' = TimedOut(consumer.order)
  <2> DEFINE Kept == /\ UNCHANGED <<body, stock, stockLog>>
                     /\ order' = order \/ order' = TimedOut(consumer.order)
  <2>1. ASSUME NEW c \in Calls, Commit(c) \/ CommitUnacknowledged(c)
        PROVE  call[c].pc = "commit" /\ Apply(c) /\ body' = body
    BY <2>1 DEF Commit, CommitUnacknowledged
  <2>2. ASSUME NEW c \in Calls,
               \/ LockProduct(c) \/ DeductStock(c) \/ LockCoupon(c) \/ UseCoupon(c)
               \/ InsertOrder(c) \/ Publish(c) \/ StatementFails(c) \/ PublishLost(c)
               \/ TTLExpires(c) \/ Deliver(c)
        PROVE  Kept
    BY <2>2 DEF LockProduct, DeductStock, LockCoupon, UseCoupon, InsertOrder, Publish,
       StatementFails, PublishLost, TTLExpires, Deliver, dbVars
  <2>3. CASE Handle \/ ReturnCouponFails \/ HandlerFails
    BY <2>3 DEF Handle, ReadOrder, CloseOrder, ReturnCoupon, Ack, ReturnCouponFails,
       HandlerFails, dbVars
  <2>4. CASE \/ ChannelCloses \/ Restart \/ Quiescent \/ UNCHANGED vars
             \/ \E cp \in Coupons : CouponExpires(cp)
    BY <2>4 DEF ChannelCloses, Restart, Quiescent, CouponExpires, vars, dbVars
  <2> HIDE DEF Kept
  <2>5. Kept \/ \E c \in Calls : call[c].pc = "commit" /\ Apply(c) /\ body' = body
    BY <2>1, <2>2, <2>3, <2>4 DEF Next, CallStep, Fault, Kept
  <2> QED BY <2>5 DEF Kept
<1> QED BY <1>1, NullsAssumption DEF TimedOut, IInv, TypeOK

LEMMA KeyStep ==
    ASSUME IInv, OneOrderPerKey, [Next]_vars PROVE OneOrderPerKey'
<1>1. CASE /\ UNCHANGED <<body, stock, stockLog>>
           /\ \A c \in Calls : order'[c] = NoOrder <=> order[c] = NoOrder
  BY <1>1 DEF OneOrderPerKey, OrderExists
<1>2. ASSUME NEW c \in Calls, call[c].pc = "commit", Apply(c), body' = body
      PROVE  OneOrderPerKey'
  <2>1. ~KeyTaken(body[c].key)
    BY <1>2 DEF IInv, Discipline, KeyLocked
  <2>2. \A d \in Calls \ {c} : order'[d] = order[d]
    BY <1>2 DEF Apply, IInv, TypeOK
  <2> QED BY <1>2, <2>1, <2>2 DEF OneOrderPerKey, OrderExists, KeyTaken
<1> QED BY <1>1, <1>2, RowChanges

LEMMA AckStep ==
    ASSUME IInv, AckedHasOrder, [Next]_vars PROVE AckedHasOrder'
<1> SUFFICES ASSUME NEW c \in Calls, call'[c].reply = "ok"
             PROVE  KeyTaken(body[c].key)'
  BY DEF AckedHasOrder
<1>0. call \in [Calls -> CallState]
  BY DEF IInv, TypeOK
<1>1. KeyTaken(body[c].key) => KeyTaken(body[c].key)'
  BY OrdersStay DEF KeyTaken
<1>2. CASE call[c].reply = "ok"
  BY <1>1, <1>2 DEF AckedHasOrder
<1>3. CASE call[c].reply # "ok"
  <2>1. (InsertOrder(c) /\ Finish(c, "ok")) \/ Publish(c) \/ PublishLost(c)
    <3>1. ASSUME NEW d \in Calls,
                 CallStep(d) \/ StatementFails(d) \/ CommitUnacknowledged(d)
                   \/ PublishLost(d)
          PROVE  (InsertOrder(c) /\ Finish(c, "ok")) \/ Publish(c) \/ PublishLost(c)
      <4>1. d = c
        BY <1>0, <1>3, <3>1, GotoEffect, FinishEffect
           DEF CallStep, LockProduct, DeductStock, LockCoupon, UseCoupon, InsertOrder,
               Commit, Publish, StatementFails, CommitUnacknowledged, PublishLost
      <4>2. ASSUME NEW pc, Goto(c, pc) PROVE FALSE
        BY <1>0, <1>3, <4>2, GotoEffect
      <4>3. ASSUME NEW r, Finish(c, r), r # "ok" PROVE FALSE
        BY <1>0, <4>3, FinishEffect
      <4>4. CouponRefusal(c, body[c].coupon) # "ok"
        BY DEF CouponRefusal
      <4>5. ~LockProduct(c) /\ ~Commit(c) /\ ~CommitUnacknowledged(c)
            /\ ~StatementFails(c) /\ ~UseCoupon(c)
        BY <4>2, <4>3 DEF LockProduct, Commit, CommitUnacknowledged, StatementFails,
           UseCoupon
      <4>6. ~DeductStock(c)
        BY <1>0, <1>3, <4>3 DEF DeductStock, CallState
      <4>7. ~LockCoupon(c)
        BY <1>0, <1>3, <4>3, <4>4 DEF LockCoupon, CallState
      <4>8. InsertOrder(c) => Finish(c, "ok")
        BY <4>2 DEF InsertOrder
      <4> QED BY <3>1, <4>1, <4>5, <4>6, <4>7, <4>8 DEF CallStep
    <3>2. CASE Restart
      BY <1>0, <1>3, <3>2 DEF Restart, CallState
    <3>3. CASE call' = call
      BY <1>3, <3>3
    <3> QED BY <3>1, <3>2, <3>3 DEF Next, TTLExpires, Deliver, CouponExpires, Handle,
               ReadOrder, CloseOrder, ReturnCoupon, Ack, Fault, ChannelCloses,
               ReturnCouponFails, HandlerFails, Quiescent, vars
  <2>2. KeyTaken(body[c].key)
    <3>1. CASE InsertOrder(c) /\ Finish(c, "ok")
      <4>1. call'[c].pc = "done"
        BY <1>0, <3>1, FinishEffect
      <4>2. ~Goto(c, "commit")
        BY <1>0, <4>1, GotoEffect
      <4> QED BY <3>1, <4>2 DEF InsertOrder
    <3>2. CASE call[c].pc = "publish"
      BY <3>2 DEF IInv, Discipline, OrderAtCommit, KeyTaken, OrderExists
    <3> QED BY <2>1, <3>1, <3>2 DEF Publish, PublishLost
  <2> QED BY <1>1, <2>2
<1> QED BY <1>2, <1>3
LEMMA LogTyped ==
    ASSUME TypeOK, NEW p \in Products, NEW i \in 1 .. Len(stockLog[p])
    PROVE  stockLog[p][i].by \in Calls
<1>1. stockLog[p] \in Seq(LogEntry)
  BY DEF TypeOK
<1>2. stockLog[p][i] \in LogEntry
  BY <1>1
<1> QED BY <1>2 DEF LogEntry

(* The entry a commit appends continues the log: the transaction read the   *)
(* stock under the row lock it still holds.                                  *)
LEMMA LogStep ==
    ASSUME IInv, NEW c \in Calls, call[c].pc = "commit", Apply(c)
    PROVE  /\ body[c].product \in Products
           /\ stock'[body[c].product] = stock[body[c].product] - body[c].quantity
           /\ \A r \in Products \ {body[c].product} :
                stock'[r] = stock[r] /\ stockLog'[r] = stockLog[r]
           /\ Len(stockLog[body[c].product]) \in Nat
           /\ Len(stockLog'[body[c].product]) = Len(stockLog[body[c].product]) + 1
           /\ \A i \in 1 .. Len(stockLog[body[c].product]) :
                stockLog'[body[c].product][i] = stockLog[body[c].product][i]
           /\ stockLog'[body[c].product][Len(stockLog[body[c].product]) + 1] =
                [quantity |-> -body[c].quantity, before |-> stock[body[c].product],
                 after |-> stock[body[c].product] - body[c].quantity, by |-> c]
<1> DEFINE p == body[c].product
           entry == [quantity |-> -body[c].quantity, before |-> stock[p],
                     after |-> stock[p] - body[c].quantity, by |-> c]
<1>1. /\ p \in Products
      /\ call[c].before = stock[p]
  BY DEF IInv, Discipline, ProductLocked, InTx
<1>2. /\ stock' = [stock EXCEPT ![p] = stock[p] - body[c].quantity]
      /\ stockLog' = [stockLog EXCEPT ![p] = Append(stockLog[p], entry)]
  BY <1>1 DEF Apply
<1>3. /\ stock \in [Products -> Nat] /\ stockLog \in [Products -> Seq(LogEntry)]
      /\ stockLog[p] \in Seq(LogEntry)
  BY <1>1 DEF IInv, TypeOK
<1>4. stockLog'[p] = Append(stockLog[p], entry)
  BY <1>1, <1>2, <1>3
<1>5. /\ Len(stockLog[p]) \in Nat
      /\ Len(stockLog'[p]) = Len(stockLog[p]) + 1
      /\ \A i \in 1 .. Len(stockLog[p]) : stockLog'[p][i] = stockLog[p][i]
      /\ stockLog'[p][Len(stockLog[p]) + 1] = entry
  <2> HIDE DEF entry
  <2> QED BY <1>3, <1>4
<1> QED BY <1>1, <1>2, <1>3, <1>5

LEMMA AuditStep ==
    ASSUME IInv, StockAudited, [Next]_vars PROVE StockAudited'
<1>1. CASE UNCHANGED <<body, stock, stockLog>>
  BY <1>1 DEF StockAudited
<1>2. ASSUME NEW c \in Calls, call[c].pc = "commit", Apply(c) PROVE StockAudited'
  <2> DEFINE p == body[c].product
             Before(log, r, i) == IF i = 1 THEN InitialStock[r] ELSE log[i - 1].after
  <2>a. /\ p \in Products
        /\ stock'[p] = stock[p] - body[c].quantity
        /\ \A r \in Products \ {p} : stock'[r] = stock[r] /\ stockLog'[r] = stockLog[r]
        /\ Len(stockLog[p]) \in Nat
        /\ Len(stockLog'[p]) = Len(stockLog[p]) + 1
        /\ \A i \in 1 .. Len(stockLog[p]) : stockLog'[p][i] = stockLog[p][i]
        /\ stockLog'[p][Len(stockLog[p]) + 1] =
             [quantity |-> -body[c].quantity, before |-> stock[p],
              after |-> stock[p] - body[c].quantity, by |-> c]
    BY <1>2, LogStep
  <2> SUFFICES ASSUME NEW r \in Products
               PROVE  /\ \A i \in 1 .. Len(stockLog'[r]) :
                           /\ stockLog'[r][i].before = Before(stockLog'[r], r, i)
                           /\ stockLog'[r][i].after =
                                stockLog'[r][i].before + stockLog'[r][i].quantity
                      /\ stock'[r] = Before(stockLog'[r], r, Len(stockLog'[r]) + 1)
    BY DEF StockAudited
  <2>0. /\ \A i \in 1 .. Len(stockLog[r]) :
             /\ stockLog[r][i].before = Before(stockLog[r], r, i)
             /\ stockLog[r][i].after = stockLog[r][i].before + stockLog[r][i].quantity
        /\ stock[r] = Before(stockLog[r], r, Len(stockLog[r]) + 1)
    BY DEF StockAudited
  <2>1. CASE r # p
    <3>1. stock'[r] = stock[r] /\ stockLog'[r] = stockLog[r]
      BY <2>a, <2>1
    <3>2. \A i : Before(stockLog'[r], r, i) = Before(stockLog[r], r, i)
      BY <3>1
    <3> HIDE DEF Before, p
    <3> QED BY <2>0, <3>1, <3>2
  <2>2. CASE r = p
    <3> DEFINE n == Len(stockLog[p])
    <3>1. /\ n \in Nat /\ Len(stockLog'[p]) = n + 1
          /\ stock'[p] = stock[p] - body[c].quantity
          /\ \A i \in 1 .. n : stockLog'[p][i] = stockLog[p][i]
          /\ stockLog'[p][n + 1].before = stock[p]
          /\ stockLog'[p][n + 1].quantity = -body[c].quantity
          /\ stockLog'[p][n + 1].after = stock[p] - body[c].quantity
      BY <2>a
    <3>2. stock[p] \in Nat /\ body[c].quantity \in Nat
      BY <2>2, BodyFacts DEF IInv, TypeOK
    <3> HIDE DEF n, p
    <3>3. stock[p] = Before(stockLog[p], p, n + 1)
      BY <2>0, <2>2 DEF n
    <3>4. Before(stockLog'[p], p, n + 1) = stock[p]
      BY <3>1, <3>3
    <3>5. ASSUME NEW i \in 1 .. n
          PROVE  /\ stockLog'[p][i].before = Before(stockLog'[p], p, i)
                 /\ stockLog'[p][i].after =
                      stockLog'[p][i].before + stockLog'[p][i].quantity
      <4>1. Before(stockLog'[p], p, i) = Before(stockLog[p], p, i)
        BY <3>1
      <4>2. /\ stockLog[p][i].before = Before(stockLog[p], p, i)
            /\ stockLog[p][i].after = stockLog[p][i].before + stockLog[p][i].quantity
        BY <2>0, <2>2 DEF n
      <4> QED BY <3>1, <4>1, <4>2
    <3>6. Before(stockLog'[p], p, n + 2) = stock[p] - body[c].quantity
      BY <3>1
    <3>7. \A i \in 1 .. n + 1 :
             /\ stockLog'[p][i].before = Before(stockLog'[p], p, i)
             /\ stockLog'[p][i].after =
                  stockLog'[p][i].before + stockLog'[p][i].quantity
      <4> SUFFICES ASSUME NEW i \in 1 .. n + 1
                   PROVE  /\ stockLog'[p][i].before = Before(stockLog'[p], p, i)
                          /\ stockLog'[p][i].after =
                               stockLog'[p][i].before + stockLog'[p][i].quantity
        OBVIOUS
      <4>1. CASE i \in 1 .. n
        BY <3>5, <4>1
      <4>2. CASE i = n + 1
        BY <3>1, <3>2, <3>4, <4>2
      <4> QED BY <3>1, <4>1, <4>2
    <3> QED BY SMTT(30), <2>2, <3>1, <3>6, <3>7
  <2> QED BY <2>1, <2>2
<1> QED BY <1>1, <1>2, RowChanges

LEMMA MatchStep ==
    ASSUME IInv, StockMatchesOrders, [Next]_vars PROVE StockMatchesOrders'
<1>1. CASE /\ UNCHANGED <<body, stock, stockLog>>
           /\ \A c \in Calls : order'[c] = NoOrder <=> order[c] = NoOrder
  <2>1. \A p \in Products : \A i \in 1 .. Len(stockLog[p]) : stockLog[p][i].by \in Calls
    BY LogTyped DEF IInv
  <2> QED BY <1>1, <2>1 DEF StockMatchesOrders, OrderExists
<1>2. ASSUME NEW c \in Calls, call[c].pc = "commit", Apply(c), body' = body
      PROVE  StockMatchesOrders'
  <2> DEFINE p == body[c].product
             n == Len(stockLog[p])
             Fits(i, r) == /\ OrderExists(stockLog[r][i].by)
                           /\ body[stockLog[r][i].by].product = r
                           /\ stockLog[r][i].quantity = -body[stockLog[r][i].by].quantity
  <2>1. \A r \in Products : \A i \in 1 .. Len(stockLog[r]) :
           stockLog[r][i].by \in Calls /\ Fits(i, r)
    BY LogTyped DEF IInv, StockMatchesOrders
  <2>2. /\ order[c] = NoOrder /\ OrderExists(c)'
        /\ \A d \in Calls \ {c} : order'[d] = order[d]
    BY <1>2, NullsAssumption DEF IInv, TypeOK, Discipline, OrderAtCommit, InTx, Apply,
       OrderExists
  <2>3. \A r \in Products : \A i \in 1 .. Len(stockLog[r]) :
           stockLog[r][i].by # c
    BY <2>1, <2>2 DEF OrderExists
  <2>a. /\ p \in Products
        /\ stock'[p] = stock[p] - body[c].quantity
        /\ \A r \in Products \ {p} : stock'[r] = stock[r] /\ stockLog'[r] = stockLog[r]
        /\ Len(stockLog[p]) \in Nat
        /\ Len(stockLog'[p]) = Len(stockLog[p]) + 1
        /\ \A i \in 1 .. Len(stockLog[p]) : stockLog'[p][i] = stockLog[p][i]
        /\ stockLog'[p][Len(stockLog[p]) + 1] =
             [quantity |-> -body[c].quantity, before |-> stock[p],
              after |-> stock[p] - body[c].quantity, by |-> c]
    BY <1>2, LogStep
  <2>4. /\ p \in Products /\ n \in Nat /\ Len(stockLog'[p]) = n + 1
        /\ \A r \in Products \ {p} : stockLog'[r] = stockLog[r]
        /\ \A i \in 1 .. n : stockLog'[p][i] = stockLog[p][i]
        /\ stockLog'[p][n + 1].by = c
        /\ stockLog'[p][n + 1].quantity = -body[c].quantity
    BY <2>a
  <2> SUFFICES ASSUME NEW r \in Products
               PROVE  /\ \A i \in 1 .. Len(stockLog'[r]) : Fits(i, r)'
                      /\ \A i, j \in 1 .. Len(stockLog'[r]) :
                            stockLog'[r][i].by = stockLog'[r][j].by => i = j
                      /\ \A d \in Calls : OrderExists(d)' /\ body'[d].product = r
                            => \E i \in 1 .. Len(stockLog'[r]) : stockLog'[r][i].by = d
    BY DEF StockMatchesOrders
  <2>5. /\ \A i, j \in 1 .. Len(stockLog[r]) :
             stockLog[r][i].by = stockLog[r][j].by => i = j
        /\ \A d \in Calls : OrderExists(d) /\ body[d].product = r
             => \E i \in 1 .. Len(stockLog[r]) : stockLog[r][i].by = d
    BY DEF StockMatchesOrders
  <2>6. CASE r # p
    <3>1. stockLog'[r] = stockLog[r]
      BY <2>4, <2>6
    <3> HIDE DEF p, n
    <3>2. \A i \in 1 .. Len(stockLog[r]) : Fits(i, r)'
      <4> SUFFICES ASSUME NEW i \in 1 .. Len(stockLog[r]) PROVE Fits(i, r)'
        OBVIOUS
      <4>1. /\ stockLog[r][i].by \in Calls \ {c}
            /\ Fits(i, r)
        BY <2>1, <2>3
      <4> QED BY <1>2, <2>2, <3>1, <4>1 DEF OrderExists
    <3>3. \A d \in Calls : OrderExists(d)' /\ body'[d].product = r
            => \E i \in 1 .. Len(stockLog[r]) : stockLog[r][i].by = d
      <4>1. body[c].product # r
        BY <2>6 DEF p
      <4> QED BY <1>2, <2>2, <2>5, <4>1 DEF OrderExists
    <3> QED BY <2>5, <3>1, <3>2, <3>3
  <2>7. CASE r = p
    <3> HIDE DEF p, n
    <3>1. \A i \in 1 .. n + 1 : i \in 1 .. n \/ i = n + 1
      BY <2>4
    <3>2. n = Len(stockLog[r]) /\ body[c].product = r
      BY <2>7 DEF p, n
    <3>3. \A i \in 1 .. n + 1 : Fits(i, r)'
      <4> SUFFICES ASSUME NEW i \in 1 .. n + 1 PROVE Fits(i, r)'
        OBVIOUS
      <4>1. CASE i = n + 1
        BY <1>2, <2>2, <2>4, <2>7, <3>2, <4>1 DEF OrderExists
      <4>2. CASE i \in 1 .. n
        <5>1. /\ stockLog[r][i].by \in Calls \ {c}
              /\ Fits(i, r)
          BY <2>1, <2>3, <3>2, <4>2
        <5>2. stockLog'[r][i] = stockLog[r][i]
          BY <2>4, <2>7, <4>2
        <5> QED BY <1>2, <2>2, <5>1, <5>2 DEF OrderExists
      <4> QED BY <3>1, <4>1, <4>2
    <3>4. \A i, j \in 1 .. n + 1 : stockLog'[r][i].by = stockLog'[r][j].by => i = j
      <4>1. \A i \in 1 .. n : stockLog'[r][i] = stockLog[r][i] /\ stockLog'[r][i].by # c
        BY <2>3, <2>4, <2>7, <3>2
      <4>2. stockLog'[r][n + 1].by = c
        BY <2>4, <2>7
      <4>3. \A i, j \in 1 .. n : stockLog[r][i].by = stockLog[r][j].by => i = j
        BY <2>5, <3>2
      <4> QED BY <3>1, <4>1, <4>2, <4>3
    <3>5. \A d \in Calls : OrderExists(d)' /\ body'[d].product = r
            => \E i \in 1 .. n + 1 : stockLog'[r][i].by = d
      <4> SUFFICES ASSUME NEW d \in Calls, OrderExists(d)', body'[d].product = r
                   PROVE  \E i \in 1 .. n + 1 : stockLog'[r][i].by = d
        OBVIOUS
      <4>1. CASE d = c
        BY <2>4, <2>7, <4>1
      <4>2. CASE d # c
        <5>1. PICK i \in 1 .. n : stockLog[r][i].by = d
          BY <1>2, <2>2, <2>5, <3>2, <4>2 DEF OrderExists
        <5> QED BY <2>4, <2>7, <5>1
      <4> QED BY <4>1, <4>2
    <3> QED BY <2>4, <2>7, <3>3, <3>4, <3>5
  <2> QED BY <2>6, <2>7
<1> QED BY <1>1, <1>2, RowChanges

(* At most one order per idempotency key. *)
THEOREM KeysAreUnique == Spec => []OneOrderPerKey
<1>1. Init => OneOrderPerKey
  BY SafetyInit
<1> QED BY <1>1, KeyStep, Disciplined, PTL DEF Spec

(* A success answer means an order under the request's key. *)
THEOREM AnswersAreTrue == Spec => []AckedHasOrder
<1>1. Init => AckedHasOrder
  BY SafetyInit
<1> QED BY <1>1, AckStep, Disciplined, PTL DEF Spec

(* The stock column is what its change log says, and the log has exactly    *)
(* one entry per order.                                                      *)
THEOREM StockIsAccounted == Spec => [](StockAudited /\ StockMatchesOrders)
<1>1. Init => StockAudited /\ StockMatchesOrders
  BY SafetyInit
<1> QED BY <1>1, AuditStep, MatchStep, Disciplined, PTL DEF Spec
(* An order of a product is an entry of its log, with its quantity. *)
THEOREM OrdersAreLogged == Spec => []StockMatchesOrders
BY StockIsAccounted, PTL

-----------------------------------------------------------------------------
(* Units. *)

Quantities == [c \in Calls |-> body[c].quantity]

UnitsCounted ==
    /\ \A p \in Products : IsFiniteSet(OrdersOf(p))
    /\ StockConserved

(* A commit moves the units of one order from the stock to the orders. *)
LEMMA CommitCountsUnits ==
    ASSUME IInv, UnitsCounted, NEW c \in Calls, call[c].pc = "commit", Apply(c), body' = body
    PROVE  UnitsCounted'
<1> DEFINE p == body[c].product
           q == body[c].quantity
<1>1. /\ p \in Products /\ q \in Nat
      /\ stock \in [Products -> Nat] /\ InitialStock \in [Products -> Nat]
      /\ stock' = [stock EXCEPT ![p] = stock[p] - q]
  BY BodyFacts, CatalogueAssumption
     DEF IInv, TypeOK, Discipline, ProductLocked, InTx, Apply
<1>2. c \notin OrdersOf(p) /\ \A r : OrdersOf(r)' = IF r = p THEN OrdersOf(r) \cup {c}
                                                            ELSE OrdersOf(r)
  BY NullsAssumption DEF IInv, TypeOK, Discipline, OrderAtCommit, InTx, Apply,
     OrdersOf, OrderExists
<1>3. \A d \in Calls : Quantities[d] \in Int
  BY BodyFacts DEF Quantities, IInv
<1>4. SumFunctionOnSet(Quantities, OrdersOf(p) \cup {c})
        = SumFunctionOnSet(Quantities, OrdersOf(p)) + q
  <2>1. IsFiniteSet(OrdersOf(p)) /\ \A d \in OrdersOf(p) \cup {c} : Quantities[d] \in Int
    BY <1>1, <1>3 DEF UnitsCounted, OrdersOf
  <2>2. Quantities[c] = q
    BY DEF Quantities
  <2> QED BY <1>2, <2>1, <2>2, SumWithElement
<1>5. ASSUME NEW r \in Products
      PROVE  stock'[r] + SumFunctionOnSet(Quantities, OrdersOf(r)') = InitialStock[r]
  <2>1. /\ stock[r] + SumFunctionOnSet(Quantities, OrdersOf(r)) = InitialStock[r]
        /\ SumFunctionOnSet(Quantities, OrdersOf(r)) \in Int
    BY <1>3, SumIsInt DEF UnitsCounted, StockConserved, Quantities, OrdersOf
  <2>2. CASE r = p
    <3> DEFINE s == SumFunctionOnSet(Quantities, OrdersOf(r))
    <3>1. stock'[r] = stock[r] - q /\ stock[r] \in Int
      BY <1>1, <2>2
    <3>2. SumFunctionOnSet(Quantities, OrdersOf(r)') = s + q
      BY <1>2, <1>4, <2>2
    <3> HIDE DEF s, q
    <3>3. s \in Int /\ q \in Int
      BY <1>1, <2>1 DEF s, q
    <3>4. stock[r] + s = InitialStock[r]
      BY <2>1 DEF s
    <3> QED BY <3>1, <3>2, <3>3, <3>4
  <2>3. CASE r # p
    BY <1>1, <1>2, <2>1, <2>3
  <2> QED BY <2>2, <2>3
<1>6. \A r \in Products : IsFiniteSet(OrdersOf(r)')
  BY <1>2, FS_AddElement DEF UnitsCounted
<1> QED BY <1>5, <1>6 DEF UnitsCounted, StockConserved, Quantities

(* The units of a product are sold or left, never both and never neither:   *)
(* no interleaving, rollback, lost answer of a commit, crash or timeout     *)
(* oversells a product or loses a unit of it.                               *)
THEOREM NothingIsOversold == Spec => []StockConserved
<1>1. Init => UnitsCounted
  <2> SUFFICES ASSUME Init PROVE UnitsCounted
    OBVIOUS
  <2>1. \A p \in Products : OrdersOf(p) = {}
    BY DEF Init, OrdersOf, OrderExists
  <2>2. stock = InitialStock /\ InitialStock \in [Products -> Nat]
    BY CatalogueAssumption DEF Init
  <2>3. \A f : SumFunctionOnSet(f, {}) = 0
    BY SumOverEmptySet
  <2>4. \A p \in Products : stock[p] + 0 = InitialStock[p]
    BY <2>2
  <2>5. StockConserved
    BY <2>1, <2>3, <2>4 DEF StockConserved
  <2> QED BY <2>1, <2>5, FS_EmptySet DEF UnitsCounted
<1>2. IInv /\ UnitsCounted /\ [Next]_vars => UnitsCounted'
  <2> SUFFICES ASSUME IInv, UnitsCounted, [Next]_vars PROVE UnitsCounted'
    OBVIOUS
  <2>1. CASE body' = body /\ stock' = stock /\ \A c \in Calls : order'[c] = NoOrder <=> order[c] = NoOrder
    <3>1. \A p : OrdersOf(p)' = OrdersOf(p)
      BY <2>1 DEF OrdersOf, OrderExists
    <3> QED BY <2>1, <3>1 DEF UnitsCounted, StockConserved
  <2> QED BY <2>1, CommitCountsUnits, RowChanges
<1> QED BY <1>1, <1>2, Disciplined, PTL DEF Spec, UnitsCounted

-----------------------------------------------------------------------------
(* Orders implements OrderBook. *)

UsedCoupons == {cp \in Coupons : coupon[cp].status = "used"}

(* The commit of a transaction is the placement. *)
LEMMA CommitPlaces ==
    ASSUME IInv, NEW c \in Calls, call[c].pc = "commit", Apply(c), body' = body
    PROVE  Book!Place(c)
<1> DEFINE p == body[c].product
           q == body[c].quantity
           cp == body[c].coupon
<1>1. /\ order[c] = NoOrder
      /\ order' = [order EXCEPT ![c] = "processing"]
  BY DEF IInv, Discipline, OrderAtCommit, InTx, Apply
<1>2. \A d \in Calls : order[d] # NoOrder => body[d].key # body[c].key
  BY DEF IInv, Discipline, KeyLocked, KeyTaken
<1>3. /\ p \in Products /\ stock[p] - q >= q
      /\ stock' = [stock EXCEPT ![p] = stock[p] - q]
  BY DEF IInv, Discipline, ProductLocked, InTx, Apply
<1>4. \/ cp = NoCoupon /\ UsedCoupons' = UsedCoupons
      \/ /\ cp \in Coupons \ UsedCoupons
         /\ CouponOwner[cp] = body[c].user
         /\ UsedCoupons' = UsedCoupons \cup {cp}
  <2>1. CASE cp = NoCoupon
    BY <2>1 DEF Apply, HasCoupon, UsedCoupons
  <2>2. CASE cp # NoCoupon
    <3>1. cp \in Coupons
      BY <2>2, BodyFacts DEF IInv
    <3>2. CouponOwner[cp] = body[c].user /\ coupon[cp].status = "unused"
      BY <2>2 DEF IInv, Discipline, CouponLocked, HasCoupon
    <3>3. coupon \in [Coupons -> CouponRow]
      BY DEF IInv, TypeOK
    <3>4. coupon' = [coupon EXCEPT ![cp] = [status |-> "used", usedOrder |-> cp,
                                           version |-> call[c].version + 1]]
      BY <2>2 DEF Apply, HasCoupon
    <3> HIDE DEF cp
    <3>5. \A x \in Coupons : coupon'[x].status = IF x = cp THEN "used" ELSE coupon[x].status
      BY <3>1, <3>3, <3>4
    <3> QED BY <3>1, <3>2, <3>5 DEF UsedCoupons, cp
  <2> QED BY <2>1, <2>2
<1> QED BY <1>1, <1>2, <1>3, <1>4 DEF Book!Place, UsedCoupons

(* Closing an order and returning a coupon are the book's own steps, or     *)
(* nothing when the row no longer matches the WHERE clause.                  *)
LEMMA CloseCloses ==
    ASSUME IInv, consumer.order \in Calls, order' = TimedOut(consumer.order),
           UNCHANGED <<body, stock, coupon>>
    PROVE  Book!Close(consumer.order) \/ UNCHANGED <<body, stock, coupon, order>>
<1>1. CASE order[consumer.order] = "processing"
  BY <1>1 DEF TimedOut, Book!Close
<1>2. CASE order[consumer.order] # "processing"
  BY <1>2 DEF TimedOut, IInv, TypeOK
<1> QED BY <1>1, <1>2

LEMMA ReturnReturns ==
    ASSUME IInv, ReturnCoupon
    PROVE  \/ \E cp \in Coupons : Book!Return(cp)
           \/ UNCHANGED <<body, stock, coupon, order>>
<1> DEFINE o == consumer.order
           cp == body[o].coupon
<1>1. /\ o \in Calls /\ order[o] = "timeout" /\ HasCoupon(o)
      /\ UNCHANGED <<body, stock, order>>
  BY DEF ReturnCoupon, IInv, Discipline, HandlerHoldsOrder, ReturnsForClosed
<1>2. cp \in Coupons
  BY <1>1, BodyFacts DEF HasCoupon, IInv
<1>3. CASE coupon[cp].status = "used"
  <2>1. coupon' = [coupon EXCEPT ![cp] = [status |-> "unused", usedOrder |-> NoOrder,
                                         version |-> coupon[cp].version + 1]]
    BY <1>3 DEF ReturnCoupon
  <2>2. coupon \in [Coupons -> CouponRow]
    BY DEF IInv, TypeOK
  <2> HIDE DEF cp
  <2>3. \A x \in Coupons : coupon'[x].status = IF x = cp THEN "unused" ELSE coupon[x].status
    BY <1>2, <2>1, <2>2
  <2>4. cp \in UsedCoupons /\ UsedCoupons' = UsedCoupons \ {cp}
    BY <1>2, <1>3, <2>3 DEF UsedCoupons
  <2>5. PICK x \in Coupons : x = cp /\ x \in UsedCoupons /\ UsedCoupons' = UsedCoupons \ {x}
    BY <1>2, <2>4
  <2>6. order[o] = "timeout" /\ body[o].coupon = x
    BY <1>1, <2>5 DEF cp
  <2>7. Book!Return(x)
    BY <1>1, <2>5, <2>6 DEF Book!Return, UsedCoupons
  <2> QED BY <2>7
<1>4. CASE coupon[cp].status # "used"
  BY <1>1, <1>4 DEF ReturnCoupon
<1> QED BY <1>3, <1>4

LEMMA BookStep == IInv /\ [Next]_vars => [Book!Next]_(Book!vars)
<1> SUFFICES ASSUME IInv, [Next]_vars PROVE [Book!Next]_(Book!vars)
  OBVIOUS
<1>1. ASSUME NEW c \in Calls, Commit(c) \/ CommitUnacknowledged(c)
      PROVE  Book!Next
  <2>1. call[c].pc = "commit" /\ Apply(c) /\ body' = body
    BY <1>1 DEF Commit, CommitUnacknowledged
  <2> QED BY <2>1, CommitPlaces DEF Book!Next
<1>2. CASE ReturnCoupon
  BY <1>2, ReturnReturns DEF Book!Next, Book!vars
<1>3. CASE CloseOrder \/ HandlerFails
  <2>1. consumer.order \in Calls
    BY <1>3 DEF CloseOrder, HandlerFails, IInv, Discipline, HandlerHoldsOrder
  <2>2. /\ UNCHANGED <<body, stock, coupon>>
        /\ order' = order \/ order' = TimedOut(consumer.order)
    BY <1>3 DEF CloseOrder, HandlerFails
  <2> QED BY <2>1, <2>2, CloseCloses DEF Book!Next, Book!vars
<1>4. CASE UNCHANGED <<body, stock, coupon, order>>
  BY <1>4 DEF Book!vars
<1> QED
  BY <1>1, <1>2, <1>3, <1>4
     DEF Next, CallStep, LockProduct, DeductStock, LockCoupon, UseCoupon,
         InsertOrder, Publish, TTLExpires, Deliver, CouponExpires, Handle,
         ReadOrder, Ack, Fault, StatementFails, PublishLost, ChannelCloses,
         ReturnCouponFails, Restart, Quiescent, vars, dbVars

(* Placing, closing and coupon return are atomic to the rest of the shop,   *)
(* whatever the interleaving, the failures and the redeliveries.             *)
THEOREM ImplementsOrderBook == Spec => PlacesAtomically
<1>1. Init => Book!Init
  BY DEF Init, Book!Init
<1> QED BY <1>1, BookStep, Disciplined, PTL DEF Spec, Book!Spec, PlacesAtomically

-----------------------------------------------------------------------------
(* Coupons and messages.                                                    *)
(*                                                                          *)
(* One coupon pays one open order, unless the timeout message of an order   *)
(* with that coupon was handed to the handler twice.  The argument: until   *)
(* then the first delivery of an order's message finds the order open, so   *)
(* a return is always on account of the order that used the coupon last.    *)

Busy == consumer.pc \in {"read", "update", "return", "ack"}

(* The first delivery of a message finds its order open. *)
FirstDelivery ==
    /\ \A o \in Calls :
         /\ attempts[o] = 0 => order[o] # "timeout"
         /\ Busy /\ consumer.order = o => attempts[o] >= 1
         /\ consumer.pc = "read" /\ consumer.order = o /\ attempts[o] <= 1
              => order[o] = "processing"
    /\ consumer.pc = "update" => order[consumer.order] = "processing"

Fresh(cp) == \A o \in Calls : body[o].coupon = cp => attempts[o] <= 1

OpenWith(c, cp) == order[c] = "processing" /\ body[c].coupon = cp

(* A fresh coupon is used while an order with it is open or is about to     *)
(* return it, and those exclude each other.                                 *)
FreshCoupons ==
    \A cp \in Coupons : Fresh(cp) =>
        /\ \A c \in Calls : OpenWith(c, cp) =>
             /\ coupon[cp].status = "used"
             /\ \A d \in Calls : OpenWith(d, cp) => d = c
        /\ consumer.pc = "return" /\ body[consumer.order].coupon = cp =>
             /\ coupon[cp].status = "used"
             /\ \A d \in Calls : ~OpenWith(d, cp)

CInv == FirstDelivery /\ FreshCoupons

LEMMA CInit == Init => CInv
BY NullsAssumption DEF Init, CInv, FirstDelivery, FreshCoupons, Busy, OpenWith

LEMMA ExclusiveFromCInv == IInv /\ CInv => CouponExclusive
<1> SUFFICES ASSUME IInv, CInv, NEW c \in Calls, NEW d \in Calls,
                    order[c] = "processing", order[d] = "processing", c # d,
                    HasCoupon(c), body[c].coupon = body[d].coupon
             PROVE  \E o \in Calls : body[o].coupon = body[c].coupon /\ attempts[o] > 1
  BY DEF CouponExclusive
<1>1. body[c].coupon \in Coupons
  BY BodyFacts DEF IInv, HasCoupon
<1>2. ~Fresh(body[c].coupon)
  BY <1>1 DEF CInv, FreshCoupons, OpenWith
<1>3. \A o \in Calls : attempts[o] \in Nat
  BY DEF IInv, TypeOK
<1> QED BY <1>2, <1>3 DEF Fresh

(* A step that leaves orders, coupons, deliveries and the handler's place    *)
(* alone, or only sends the handler home.                                    *)
LEMMA CIdle ==
    ASSUME CInv, UNCHANGED <<body, order, coupon, attempts>>,
           consumer' = consumer \/ ~Busy'
    PROVE  CInv'
<1>1. FirstDelivery'
  BY DEF CInv, FirstDelivery, Busy
<1>2. FreshCoupons'
  BY DEF CInv, FreshCoupons, Fresh, OpenWith, Busy
<1> QED BY <1>1, <1>2 DEF CInv

LEMMA CCommit ==
    ASSUME IInv, CInv, NEW c \in Calls, call[c].pc = "commit", Apply(c),
           UNCHANGED <<body, attempts, consumer>>
    PROVE  CInv'
<1>0. /\ order[c] = NoOrder /\ order'[c] = "processing"
      /\ \A d \in Calls \ {c} : order'[d] = order[d]
  BY DEF IInv, Discipline, OrderAtCommit, InTx, Apply, TypeOK
<1>1. FirstDelivery'
  <2>1. Busy => consumer.order \in Calls \ {c}
    BY <1>0 DEF IInv, Discipline, HandlerHoldsOrder, OrderExists, Busy
  <2>2. \A o \in Calls : order'[o] = "timeout" <=> order[o] = "timeout"
    BY <1>0, NullsAssumption
  <2>3. \A o \in Calls : order[o] = "processing" => order'[o] = "processing"
    BY <1>0
  <2> QED BY <2>1, <2>2, <2>3 DEF CInv, FirstDelivery, Busy
<1>2. FreshCoupons'
  <2> SUFFICES ASSUME NEW cp \in Coupons, Fresh(cp)
               PROVE  /\ \A d \in Calls : OpenWith(d, cp)' =>
                           /\ coupon'[cp].status = "used"
                           /\ \A e \in Calls : OpenWith(e, cp)' => e = d
                      /\ consumer.pc = "return" /\ body[consumer.order].coupon = cp =>
                           /\ coupon'[cp].status = "used"
                           /\ \A d \in Calls : ~OpenWith(d, cp)'
    BY DEF FreshCoupons, Fresh
  <2>1. CASE body[c].coupon # cp
    <3>1. coupon'[cp] = coupon[cp]
      BY <2>1 DEF Apply, IInv, TypeOK
    <3>2. \A d \in Calls : OpenWith(d, cp)' <=> OpenWith(d, cp)
      BY <1>0, <2>1 DEF OpenWith
    <3> QED BY <3>1, <3>2 DEF CInv, FreshCoupons
  <2>2. CASE body[c].coupon = cp
    <3>1. HasCoupon(c) /\ coupon[cp].status = "unused"
      BY <2>2, NullsAssumption DEF IInv, Discipline, CouponLocked, HasCoupon
    <3>2. coupon'[cp].status = "used"
      BY <2>2, <3>1 DEF Apply, IInv, TypeOK
    <3>3. \A d \in Calls : ~OpenWith(d, cp)
      BY <3>1 DEF CInv, FreshCoupons
    <3>4. \A d \in Calls : OpenWith(d, cp)' => d = c
      BY <1>0, <3>3 DEF OpenWith
    <3>5. ~(consumer.pc = "return" /\ body[consumer.order].coupon = cp)
      BY <3>1 DEF CInv, FreshCoupons
    <3> QED BY <3>2, <3>4, <3>5
  <2> QED BY <2>1, <2>2
<1> QED BY <1>1, <1>2 DEF CInv

LEMMA CDeliver ==
    ASSUME IInv, CInv, NEW o \in Calls, Deliver(o)
    PROVE  CInv'
<1>0. /\ UNCHANGED <<body, order, coupon>>
      /\ consumer'.pc = "read" /\ consumer'.order = o /\ o \in ready
      /\ attempts \in [Calls -> Nat] /\ attempts' = [attempts EXCEPT ![o] = @ + 1]
  BY DEF Deliver, dbVars, IInv, TypeOK
<1>1. FirstDelivery'
  <2>1. OrderExists(o) /\ order[o] \in {NoOrder, "processing", "timeout"}
    BY <1>0 DEF IInv, TypeOK, Discipline, MessagesNameOrders
  <2>2. /\ \A d \in Calls : attempts[d] \in Nat /\ attempts'[d] \in Nat
                          /\ attempts'[d] >= attempts[d]
        /\ attempts'[o] = attempts[o] + 1
    BY <1>0
  <2> QED BY <1>0, <2>1, <2>2 DEF CInv, FirstDelivery, Busy, OrderExists
<1>2. FreshCoupons'
  <2>1. \A cp \in Coupons : Fresh(cp)' => Fresh(cp)
    BY <1>0 DEF Fresh
  <2> QED BY <1>0, <2>1 DEF CInv, FreshCoupons, OpenWith
<1> QED BY <1>1, <1>2 DEF CInv

LEMMA CHandle ==
    ASSUME IInv, CInv, Handle \/ ReturnCouponFails \/ HandlerFails
    PROVE  CInv'
<1> DEFINE o == consumer.order
<1>0. /\ Busy /\ o \in Calls /\ attempts[o] >= 1 /\ UNCHANGED <<body, attempts>>
      /\ order \in [Calls -> {NoOrder, "processing", "timeout"}]
      /\ consumer \in ConsumerState
      /\ HasCoupon(o) => body[o].coupon \in Coupons
  BY BodyFacts DEF IInv, TypeOK, Discipline, HandlerHoldsOrder, CInv, FirstDelivery,
     Busy, Handle, ReadOrder, CloseOrder, ReturnCoupon, Ack, ReturnCouponFails,
     HandlerFails, mqVars, HasCoupon
<1>1. CASE Ack \/ (HandlerFails /\ order' = order)
  BY <1>1, CIdle DEF Ack, HandlerFails, Settle, Busy, dbVars
<1>2. CASE ReadOrder
  <2>0. /\ UNCHANGED <<order, coupon>> /\ consumer'.order = o
        /\ consumer'.pc = IF order[o] = "processing" THEN "update" ELSE AfterClose(o)
        /\ consumer.pc = "read"
    BY <1>0, <1>2 DEF ReadOrder, dbVars, ConsumerState
  <2>1. FirstDelivery'
    BY <1>0, <2>0 DEF CInv, FirstDelivery, Busy, AfterClose
  <2>2. consumer'.pc = "return" => ~Fresh(body[o].coupon)
    <3>1. order[o] # "processing" => ~(attempts[o] <= 1)
      BY <1>0, <2>0 DEF CInv, FirstDelivery
    <3> QED BY <1>0, <2>0, <3>1 DEF Fresh
  <2>3. FreshCoupons'
    BY <1>0, <2>0, <2>2 DEF CInv, FreshCoupons, Fresh, OpenWith
  <2> QED BY <2>1, <2>3 DEF CInv
<1>3. CASE \/ CloseOrder
           \/ HandlerFails /\ order' = TimedOut(o) /\ consumer.pc = "update"
  <2>0. /\ coupon' = coupon /\ order[o] = "processing" /\ order'[o] = "timeout"
        /\ \A d \in Calls \ {o} : order'[d] = order[d]
    BY <1>0, <1>3 DEF CloseOrder, HandlerFails, TimedOut, CInv, FirstDelivery
  <2>1. \/ consumer'.order = o /\ consumer'.pc = AfterClose(o)
        \/ ~Busy'
    BY <1>0, <1>3 DEF CloseOrder, HandlerFails, Settle, ConsumerState, Busy
  <2>2. FirstDelivery'
    <3>1. ~(consumer'.pc = "read") /\ ~(consumer'.pc = "update")
      BY <2>1 DEF AfterClose, Busy
    <3>2. Busy' => consumer'.order = o
      BY <2>1
    <3> QED BY <1>0, <2>0, <3>1, <3>2 DEF CInv, FirstDelivery
  <2>3. FreshCoupons'
    <3> SUFFICES ASSUME NEW cp \in Coupons, Fresh(cp)
                 PROVE  /\ \A d \in Calls : OpenWith(d, cp)' =>
                             /\ coupon[cp].status = "used"
                             /\ \A e \in Calls : OpenWith(e, cp)' => e = d
                        /\ consumer'.pc = "return" /\ body[consumer'.order].coupon = cp =>
                             /\ coupon[cp].status = "used"
                             /\ \A d \in Calls : ~OpenWith(d, cp)'
      BY <1>0, <2>0 DEF FreshCoupons, Fresh
    <3>1. \A d \in Calls : OpenWith(d, cp)' => OpenWith(d, cp) /\ d # o
      BY <1>0, <2>0 DEF OpenWith
    <3>2. body[o].coupon = cp => OpenWith(o, cp)
      BY <2>0 DEF OpenWith
    <3>3. consumer'.pc = "return" => consumer'.order = o
      BY <2>1 DEF Busy
    <3>4. \A c \in Calls : OpenWith(c, cp) =>
            coupon[cp].status = "used" /\ \A d \in Calls : OpenWith(d, cp) => d = c
      BY DEF CInv, FreshCoupons
    <3> QED BY <1>0, <3>1, <3>2, <3>3, <3>4
  <2> QED BY <2>2, <2>3 DEF CInv
<1>4. CASE ReturnCoupon \/ ReturnCouponFails
  <2>0. /\ order' = order /\ consumer.pc = "return" /\ consumer'.pc = "ack"
        /\ consumer'.order = o
        /\ \A cp \in Coupons : cp # body[o].coupon => coupon'[cp] = coupon[cp]
    BY <1>0, <1>4 DEF ReturnCoupon, ReturnCouponFails, dbVars, ConsumerState, IInv, TypeOK
  <2>1. FirstDelivery'
    BY <1>0, <2>0 DEF CInv, FirstDelivery, Busy
  <2>2. FreshCoupons'
    BY <1>0, <2>0 DEF CInv, FreshCoupons, Fresh, OpenWith
  <2> QED BY <2>1, <2>2 DEF CInv
<1>5. HandlerFails => \/ order' = order
                      \/ consumer.pc = "update" /\ order' = TimedOut(o)
  BY DEF HandlerFails
<1> QED
  BY <1>1, <1>2, <1>3, <1>4, <1>5 DEF Handle

LEMMA CStep == IInv /\ CInv /\ [Next]_vars => CInv'
<1> SUFFICES ASSUME IInv, CInv, [Next]_vars PROVE CInv'
  OBVIOUS
<1>1. ASSUME NEW c \in Calls, Commit(c) \/ CommitUnacknowledged(c) PROVE CInv'
  BY <1>1, CCommit DEF Commit, CommitUnacknowledged, mqVars
<1>2. ASSUME NEW c \in Calls, Deliver(c) PROVE CInv'
  BY <1>2, CDeliver
<1>3. CASE Handle \/ ReturnCouponFails \/ HandlerFails
  BY <1>3, CHandle
<1>4. CASE /\ UNCHANGED <<body, order, coupon, attempts>>
           /\ consumer' = consumer \/ ~Busy'
  BY <1>4, CIdle
<1>5. CloseChannel => consumer' = consumer \/ ~Busy'
  BY DEF CloseChannel, Busy, IInv, TypeOK, ConsumerState
<1>6. ASSUME Restart PROVE ~Busy'
  BY <1>6 DEF Restart, Busy
<1> QED
  BY <1>1, <1>2, <1>3, <1>4, <1>5, <1>6
     DEF Next, CallStep, LockProduct, DeductStock, LockCoupon, UseCoupon, InsertOrder,
         Publish, TTLExpires, CouponExpires, Fault, StatementFails, PublishLost,
         ChannelCloses, Restart, Quiescent, vars, dbVars, mqVars

(* Two open orders never share a coupon whose orders' messages were each    *)
(* handled at most once.                                                    *)
THEOREM CouponsStayExclusive == Spec => []CouponExclusive
BY CInit, CStep, ExclusiveFromCInv, Disciplined, PTL DEF Spec

-----------------------------------------------------------------------------
(* No coupon is stranded and no message is lost.  The message the handler   *)
(* works on is still in the broker; when the channel closes the broker has  *)
(* taken everything back, and a consumer that waits has a channel.          *)
Held == ready \cup unacked

HandlerHeld ==
    /\ Busy => consumer.order \in Held
    /\ consumer.pc = "idle" => channel = "open"
    /\ channel = "closed" => unacked = {}

ClosedBeforeReturn ==
    consumer.pc \in {"return", "ack"} => order[consumer.order] = "timeout"

(* A message about to be acknowledged has no coupon to return: it has none, *)
(* it was returned, and then perhaps spent by an order still open, or its   *)
(* return failed.                                                           *)
AckSettled ==
    consumer.pc = "ack" /\ HasCoupon(consumer.order) =>
        LET cp == body[consumer.order].coupon
        IN  \/ coupon[cp].status = "unused"
            \/ consumer.order \in faults.unreturned
            \/ \E d \in Calls : OpenWith(d, cp)

SInv == /\ HandlerHeld /\ ClosedBeforeReturn /\ AckSettled
        /\ CouponNotStranded /\ OpenOrdersScheduled

LEMMA SInit == Init => SInv
BY NullsAssumption DEF Init, SInv, HandlerHeld, ClosedBeforeReturn, AckSettled,
   CouponNotStranded, OpenOrdersScheduled, Busy

(* Steps that leave the rows and the handler's message alone and lose none  *)
(* in the broker: the consumer stays where it is or gives up its message.   *)
LEMMA SRows ==
    ASSUME IInv, SInv, UNCHANGED <<body, order, coupon>>,
           consumer' = consumer \/ ~Busy',
           Held \subseteq Held', faults.unreturned \subseteq faults'.unreturned
    PROVE  ClosedBeforeReturn' /\ AckSettled' /\ CouponNotStranded'
<1>1. ClosedBeforeReturn'
  BY DEF SInv, ClosedBeforeReturn, Busy
<1>2. AckSettled'
  BY DEF SInv, AckSettled, Busy, OpenWith, HasCoupon
<1>3. CouponNotStranded'
  BY DEF SInv, CouponNotStranded, Held
<1> QED BY <1>1, <1>2, <1>3

(* A statement that fails or ends its request leaves no order behind. *)
LEMMA SStatement ==
    ASSUME IInv, SInv, NEW c \in Calls,
           \/ LockProduct(c) \/ DeductStock(c) \/ LockCoupon(c) \/ UseCoupon(c)
           \/ InsertOrder(c) \/ StatementFails(c)
    PROVE  SInv'
<1>1. /\ UNCHANGED <<body, order, coupon, delayed, ready, unacked, consumer, channel>>
      /\ faults'.unreturned = faults.unreturned /\ faults'.unsent = faults.unsent
      /\ call[c].pc \in InTx \cup {"idle"}
      /\ \A d \in Calls \ {c} : call'[d] = call[d]
  BY DEF LockProduct, DeductStock, LockCoupon, UseCoupon, InsertOrder, StatementFails,
     Goto, Finish, Charge, dbVars, mqVars, InTx, IInv, TypeOK, FaultCount
<1>2. order[c] = NoOrder
  BY <1>1 DEF IInv, Discipline, OrderAtCommit
<1>3. OpenOrdersScheduled'
  BY <1>1, <1>2, NullsAssumption DEF SInv, OpenOrdersScheduled
<1>4. HandlerHeld'
  BY <1>1 DEF SInv, HandlerHeld, Held, Busy
<1> QED BY <1>1, <1>3, <1>4, SRows DEF SInv, Held

LEMMA SCommit ==
    ASSUME IInv, SInv, NEW c \in Calls, Commit(c) \/ CommitUnacknowledged(c)
    PROVE  SInv'
<1>0. /\ call[c].pc = "commit" /\ Apply(c)
      /\ UNCHANGED <<body, delayed, ready, unacked, consumer, channel>>
      /\ faults'.unreturned = faults.unreturned /\ faults'.unsent = faults.unsent
      /\ call'[c].pc = "publish" \/ call'[c].reply = "error"
      /\ \A d \in Calls \ {c} : call'[d] = call[d]
  BY DEF Commit, CommitUnacknowledged, Goto, Finish, Charge, mqVars,
     IInv, TypeOK, CallState, FaultCount
<1>1. /\ order[c] = NoOrder /\ order'[c] = "processing"
      /\ \A d \in Calls \ {c} : order'[d] = order[d]
  BY <1>0 DEF IInv, Discipline, OrderAtCommit, InTx, Apply, TypeOK
<1>2. \A cp \in Coupons : cp # body[c].coupon => coupon'[cp] = coupon[cp]
  BY <1>0 DEF Apply, IInv, TypeOK
<1>3. HandlerHeld'
  BY <1>0 DEF SInv, HandlerHeld, Held, Busy
<1>4. OpenOrdersScheduled'
  BY <1>0, <1>1 DEF SInv, OpenOrdersScheduled
<1>5. Busy => consumer.order \in Calls \ {c}
  BY <1>1 DEF IInv, Discipline, HandlerHoldsOrder, OrderExists, Busy
<1>6. ClosedBeforeReturn'
  BY <1>0, <1>1, <1>5 DEF SInv, ClosedBeforeReturn, Busy
<1>7. AckSettled'
  <2> SUFFICES ASSUME consumer.pc = "ack", HasCoupon(consumer.order)
               PROVE  LET cp == body[consumer.order].coupon
                      IN  \/ coupon'[cp].status = "unused"
                          \/ consumer.order \in faults.unreturned
                          \/ \E d \in Calls : OpenWith(d, cp)'
    BY <1>0 DEF AckSettled, HasCoupon
  <2>1. body[consumer.order].coupon \in Coupons
    BY <1>5, BodyFacts DEF Busy, HasCoupon, IInv
  <2>2. \A d \in Calls : OpenWith(d, body[consumer.order].coupon) =>
                         OpenWith(d, body[consumer.order].coupon)'
    BY <1>0, <1>1, NullsAssumption DEF OpenWith
  <2>3. CASE body[consumer.order].coupon = body[c].coupon
    BY <1>0, <1>1, <2>3 DEF OpenWith
  <2>4. CASE body[consumer.order].coupon # body[c].coupon
    BY <1>2, <2>1, <2>2, <2>4 DEF SInv, AckSettled
  <2> QED BY <2>3, <2>4
<1>8. CouponNotStranded'
  <2> SUFFICES ASSUME NEW cp \in Coupons, coupon'[cp].status = "used"
               PROVE  \E o \in Calls : /\ body[o].coupon = cp
                                       /\ \/ order'[o] = "processing"
                                          \/ /\ order'[o] = "timeout"
                                             /\ o \in Held \cup faults.unreturned
    BY <1>0 DEF CouponNotStranded, Held
  <2>1. CASE cp = body[c].coupon
    BY <1>1, <2>1
  <2>2. CASE cp # body[c].coupon
    <3>1. PICK o \in Calls : /\ body[o].coupon = cp
                             /\ \/ order[o] = "processing"
                                \/ order[o] = "timeout" /\ o \in Held \cup faults.unreturned
      BY <1>2, <2>2 DEF SInv, CouponNotStranded, Held
    <3> QED BY <1>1, <2>2, <3>1
  <2> QED BY <2>1, <2>2
<1> QED BY <1>3, <1>4, <1>6, <1>7, <1>8 DEF SInv

(* Publishing, the channel and the broker.  Most of them only move messages. *)
Scheduled(d) == \/ d \in delayed \cup Held \cup faults.unsent
                \/ call[d].reply \in {"error", "unscheduled", "lost"}

LEMMA SMoves ==
    ASSUME IInv, SInv, UNCHANGED <<body, order, coupon>>,
           consumer' = consumer \/ ~Busy', HandlerHeld',
           Held \subseteq Held', faults.unreturned \subseteq faults'.unreturned,
           faults.unsent \subseteq faults'.unsent,
           delayed \cup Held \subseteq delayed' \cup Held',
           \A d \in Calls : order[d] = "processing" /\ call'[d].pc = "done" =>
                call'[d] = call[d] \/ Scheduled(d)'
    PROVE  SInv'
<1>1. ASSUME NEW d \in Calls, order'[d] = "processing", call'[d].pc = "done"
      PROVE  Scheduled(d)'
  <2>1. CASE call'[d] = call[d]
    BY <1>1, <2>1 DEF SInv, OpenOrdersScheduled, Scheduled, Held
  <2> QED BY <1>1, <2>1
<1>2. OpenOrdersScheduled'
  BY <1>1 DEF OpenOrdersScheduled, Scheduled, Held
<1> QED BY <1>2, SRows DEF SInv

LEMMA SMessages ==
    ASSUME IInv, SInv,
           \/ \E c \in Calls : Publish(c) \/ PublishLost(c) \/ TTLExpires(c)
           \/ ChannelCloses \/ Restart
    PROVE  SInv'
<1>0. /\ call \in [Calls -> CallState] /\ faults \in FaultCount
      /\ consumer \in ConsumerState
  BY DEF IInv, TypeOK
<1>1. ASSUME NEW c \in Calls, Publish(c) PROVE SInv'
  <2>1. HandlerHeld'
    BY <1>1 DEF SInv, HandlerHeld, Publish, Held, Busy
  <2>2. call'[c].reply = "unscheduled" \/ c \in delayed'
    BY <1>0, <1>1, FinishEffect DEF Publish
  <2>3. \A d \in Calls \ {c} : call'[d] = call[d]
    BY <1>0, <1>1, FinishEffect DEF Publish
  <2> QED BY <1>1, <2>1, <2>2, <2>3, SMoves DEF Publish, dbVars, Held, Scheduled
<1>2. CloseChannel => HandlerHeld' /\ Held' = Held /\ (consumer' = consumer \/ ~Busy')
  BY <1>0 DEF SInv, HandlerHeld, CloseChannel, Held, Busy, ConsumerState
<1>3. ASSUME NEW c \in Calls, PublishLost(c) PROVE SInv'
  <2>1. /\ faults'.unreturned = faults.unreturned
        /\ faults'.unsent = faults.unsent \cup {c}
    BY <1>0, <1>3 DEF PublishLost, FaultCount
  <2>2. \A d \in Calls \ {c} : call'[d] = call[d]
    BY <1>0, <1>3, FinishEffect DEF PublishLost
  <2>3. /\ UNCHANGED <<body, order, coupon, delayed>> /\ CloseChannel
    BY <1>3 DEF PublishLost, dbVars
  <2>4. HandlerHeld' /\ Held' = Held /\ (consumer' = consumer \/ ~Busy')
    BY <1>2, <2>3
  <2>5. Scheduled(c)'
    BY <2>1 DEF Scheduled
  <2> QED BY <2>1, <2>2, <2>3, <2>4, <2>5, SMoves
<1>4. ASSUME NEW c \in Calls, TTLExpires(c) PROVE SInv'
  <2>1. HandlerHeld'
    BY <1>4 DEF SInv, HandlerHeld, TTLExpires, Held, Busy
  <2> QED BY <1>4, <2>1, SMoves DEF TTLExpires, dbVars, Held
<1>5. CASE ChannelCloses
  <2>1. /\ faults'.unreturned = faults.unreturned /\ faults'.unsent = faults.unsent
    BY <1>0, <1>5 DEF ChannelCloses, Charge, FaultCount
  <2>2. /\ UNCHANGED <<body, call, order, coupon, delayed>> /\ CloseChannel
    BY <1>5 DEF ChannelCloses, dbVars
  <2>3. HandlerHeld' /\ Held' = Held /\ (consumer' = consumer \/ ~Busy')
    BY <1>2, <2>2
  <2> QED BY <2>1, <2>2, <2>3, SMoves
<1>6. CASE Restart
  <2>1. /\ faults'.unreturned = faults.unreturned /\ faults'.unsent = faults.unsent
    BY <1>0, <1>6 DEF Restart, Charge, FaultCount
  <2>2. HandlerHeld' /\ ~Busy' /\ Held' = Held
    BY <1>6 DEF Restart, HandlerHeld, Busy, Held
  <2>3. \A d \in Calls : call'[d] = call[d] \/ call'[d].reply = "lost"
    BY <1>0, <1>6 DEF Restart, CallState
  <2> QED BY <1>6, <2>1, <2>2, <2>3, SMoves DEF Restart, dbVars, Scheduled
<1> QED BY <1>1, <1>3, <1>4, <1>5, <1>6

LEMMA SDeliver ==
    ASSUME IInv, SInv, NEW o \in Calls, Deliver(o)
    PROVE  SInv'
<1>1. /\ UNCHANGED <<body, call, order, coupon, delayed, channel, faults>>
      /\ consumer' = [pc |-> "read", order |-> o] /\ consumer.pc = "idle"
      /\ Held' = Held /\ o \in Held
  BY DEF Deliver, dbVars, Held
<1>2. CouponNotStranded' /\ OpenOrdersScheduled'
  BY <1>1 DEF SInv, CouponNotStranded, OpenOrdersScheduled, Held
<1>3. HandlerHeld' /\ ClosedBeforeReturn' /\ AckSettled'
  BY <1>1 DEF SInv, HandlerHeld, ClosedBeforeReturn, AckSettled, Busy
<1> QED BY <1>2, <1>3 DEF SInv

(* Closing an order: its message is held, so its coupon is not stranded. *)
LEMMA SClose ==
    ASSUME IInv, SInv, consumer.pc = "update", coupon' = coupon,
           order' = TimedOut(consumer.order),
           UNCHANGED <<body, call, delayed, faults>>, Held \subseteq Held'
    PROVE  CouponNotStranded' /\ OpenOrdersScheduled' /\ order'[consumer.order] = "timeout"
<1> DEFINE o == consumer.order
<1>1. o \in Calls /\ o \in Held /\ order[o] \in {"processing", "timeout"}
  BY DEF SInv, HandlerHeld, Busy, IInv, TypeOK, Discipline, HandlerHoldsOrder, OrderExists
<1>2. order'[o] = "timeout" /\ \A d \in Calls \ {o} : order'[d] = order[d]
  BY <1>1 DEF TimedOut, IInv, TypeOK
<1>3. CouponNotStranded'
  BY <1>1, <1>2 DEF SInv, CouponNotStranded, Held
<1>4. OpenOrdersScheduled'
  BY <1>1, <1>2 DEF SInv, OpenOrdersScheduled, Held
<1> QED BY <1>2, <1>3, <1>4


LEMMA SHandle ==
    ASSUME IInv, SInv, ReadOrder \/ CloseOrder \/ ReturnCoupon \/ ReturnCouponFails
    PROVE  SInv'
<1> DEFINE o == consumer.order
           cp == body[o].coupon
<1>0. /\ Busy /\ consumer \in ConsumerState /\ faults \in FaultCount
      /\ o \in Calls /\ o \in Held /\ order[o] \in {"processing", "timeout"}
      /\ consumer'.order = o /\ Busy' /\ HasCoupon(o)' = HasCoupon(o)
      /\ UNCHANGED <<body, call, delayed, ready, unacked, channel>>
  BY DEF ReadOrder, CloseOrder, ReturnCoupon, ReturnCouponFails, AfterClose, IInv, TypeOK,
     Discipline, HandlerHoldsOrder, OrderExists, Busy, SInv, HandlerHeld, ConsumerState,
     dbVars, mqVars, HasCoupon
<1>1. HandlerHeld'
  BY <1>0 DEF SInv, HandlerHeld, Held, Busy
<1>2. CASE ReadOrder
  <2>1. UNCHANGED <<order, coupon, faults>>
    BY <1>2 DEF ReadOrder, dbVars
  <2>2. consumer'.pc = IF order[o] = "processing" THEN "update" ELSE AfterClose(o)
    BY <1>0, <1>2 DEF ReadOrder, ConsumerState
  <2>3. ClosedBeforeReturn' /\ AckSettled'
    BY <1>0, <2>1, <2>2 DEF ClosedBeforeReturn, AckSettled, AfterClose
  <2>4. CouponNotStranded' /\ OpenOrdersScheduled'
    BY <1>0, <2>1 DEF SInv, CouponNotStranded, OpenOrdersScheduled
  <2> QED BY <1>1, <2>3, <2>4 DEF SInv
<1>3. CASE CloseOrder
  <2>1. consumer.pc = "update" /\ coupon' = coupon /\ faults' = faults
    BY <1>3 DEF CloseOrder
  <2>2. order' = TimedOut(o) /\ consumer'.pc = AfterClose(o)
    BY <1>0, <1>3 DEF CloseOrder, ConsumerState
  <2>3. CouponNotStranded' /\ OpenOrdersScheduled' /\ order'[o] = "timeout"
    BY <1>0, <2>1, <2>2, SClose DEF Held
  <2>4. ClosedBeforeReturn' /\ AckSettled'
    BY <1>0, <2>2, <2>3 DEF ClosedBeforeReturn, AckSettled, AfterClose
  <2> QED BY <1>1, <2>3, <2>4 DEF SInv
<1>4. CASE ReturnCoupon \/ ReturnCouponFails
  <2>0. /\ order' = order /\ consumer.pc = "return" /\ consumer'.pc = "ack"
        /\ HasCoupon(o) /\ order[o] = "timeout"
    BY <1>0, <1>4 DEF ReturnCoupon, ReturnCouponFails, dbVars, ConsumerState, IInv,
       Discipline, ReturnsForClosed
  <2>1. cp \in Coupons /\ coupon \in [Coupons -> CouponRow]
    BY <1>0, <2>0, BodyFacts DEF HasCoupon, IInv, TypeOK
  <2>2. ClosedBeforeReturn'
    BY <1>0, <2>0 DEF ClosedBeforeReturn
  <2>3. CASE ReturnCoupon
    <3>1. /\ faults' = faults /\ coupon'[cp].status = "unused"
          /\ \A x \in Coupons \ {cp} : coupon'[x] = coupon[x]
      BY <2>1, <2>3 DEF ReturnCoupon, CouponRow
    <3>2. AckSettled'
      BY <1>0, <3>1 DEF AckSettled
    <3>3. \A x \in Coupons : coupon'[x].status = "used" => coupon[x].status = "used"
      BY <3>1
    <3>4. CouponNotStranded' /\ OpenOrdersScheduled'
      BY <1>0, <2>0, <3>1, <3>3 DEF SInv, CouponNotStranded, OpenOrdersScheduled
    <3> QED BY <1>1, <2>2, <3>2, <3>4 DEF SInv
  <2>4. CASE ReturnCouponFails
    <3>1. /\ coupon' = coupon /\ faults'.unsent = faults.unsent
          /\ faults'.unreturned = faults.unreturned \cup {o}
      BY <1>0, <2>4 DEF ReturnCouponFails, FaultCount, dbVars
    <3>2. AckSettled'
      BY <1>0, <3>1 DEF AckSettled
    <3>3. CouponNotStranded' /\ OpenOrdersScheduled'
      BY <1>0, <2>0, <3>1 DEF SInv, CouponNotStranded, OpenOrdersScheduled
    <3> QED BY <1>1, <2>2, <3>2, <3>3 DEF SInv
  <2> QED BY <1>4, <2>3, <2>4
<1> QED BY <1>2, <1>3, <1>4

(* The handler lets go of its message: acknowledged, it is settled; failed, *)
(* it goes back, because a redelivered message counts no retries.           *)
LEMMA SSettle ==
    ASSUME IInv, SInv, Ack \/ HandlerFails
    PROVE  SInv'
<1> DEFINE o == consumer.order
<1>0. /\ Busy /\ o \in Calls /\ o \in Held /\ OrderExists(o)
      /\ consumer'.order = NoOrder /\ ~Busy'
      /\ consumer'.pc = IF channel = "open" THEN "idle" ELSE "stopped"
      /\ unacked' = unacked \ {o} /\ faults \in FaultCount
      /\ UNCHANGED <<body, call, coupon, delayed, channel>>
  BY DEF Ack, HandlerFails, Settle, Busy, IInv, TypeOK, Discipline, HandlerHoldsOrder,
     SInv, HandlerHeld, dbVars
<1>1. HandlerHeld'
  BY <1>0 DEF SInv, HandlerHeld
<1>2. ClosedBeforeReturn' /\ AckSettled'
  BY <1>0 DEF ClosedBeforeReturn, AckSettled, Busy
<1>3. CASE Ack
  <2>1. /\ UNCHANGED <<order, faults, ready>> /\ consumer.pc = "ack"
        /\ order[o] = "timeout"
    BY <1>3 DEF Ack, Settle, dbVars, SInv, ClosedBeforeReturn
  <2>2. OpenOrdersScheduled'
    BY <1>0, <2>1 DEF SInv, OpenOrdersScheduled
  <2>3. CouponNotStranded'
    <3> SUFFICES ASSUME NEW cp \in Coupons, coupon[cp].status = "used"
                 PROVE  \E x \in Calls : /\ body[x].coupon = cp
                                         /\ \/ order[x] = "processing"
                                            \/ /\ order[x] = "timeout"
                                               /\ x \in ready \cup unacked'
                                                        \cup faults.unreturned
      BY <1>0, <2>1 DEF CouponNotStranded
    <3>1. PICK x \in Calls : /\ body[x].coupon = cp
                             /\ \/ order[x] = "processing"
                                \/ /\ order[x] = "timeout"
                                   /\ x \in ready \cup unacked \cup faults.unreturned
      BY DEF SInv, CouponNotStranded
    <3>2. CASE x # o
      BY <1>0, <3>1, <3>2
    <3>3. CASE x = o
      <4>1. HasCoupon(o)
        BY <3>1, <3>3, NullsAssumption DEF HasCoupon
      <4>2. o \in faults.unreturned \/ \E d \in Calls : OpenWith(d, cp)
        BY <2>1, <3>1, <3>3, <4>1 DEF SInv, AckSettled
      <4> QED BY <2>1, <3>1, <3>3, <4>2 DEF OpenWith
    <3> QED BY <3>2, <3>3
  <2> QED BY <1>1, <1>2, <2>2, <2>3 DEF SInv
<1>4. CASE HandlerFails
  <2>1. RetryCount(o) < MaxRetries
    BY BoundsAssumption DEF RetryCount
  <2>2. Held \subseteq Held'
    <3>1. Settle(TRUE)
      BY <1>4, <2>1 DEF HandlerFails, Settle
    <3>2. CASE channel = "open"
      BY <3>1, <3>2 DEF Settle, Held
    <3>3. CASE channel # "open"
      BY <1>0, <3>1, <3>3 DEF Settle, Held, SInv, HandlerHeld, IInv, TypeOK
    <3> QED BY <3>2, <3>3
  <2>3. faults'.unreturned = faults.unreturned /\ faults'.unsent = faults.unsent
    BY <1>0, <1>4 DEF HandlerFails, Charge, FaultCount
  <2>4. CASE order' = order
    BY <1>0, <1>1, <1>2, <2>2, <2>3, <2>4
       DEF SInv, CouponNotStranded, OpenOrdersScheduled, Held
  <2>5. CASE consumer.pc = "update" /\ order' = TimedOut(o)
    <3>1. o \in Calls /\ order'[o] = "timeout" /\ \A d \in Calls \ {o} : order'[d] = order[d]
      BY <1>0, <2>5 DEF TimedOut, OrderExists, IInv, TypeOK
    <3>2. CouponNotStranded' /\ OpenOrdersScheduled'
      BY <1>0, <2>2, <2>3, <3>1 DEF SInv, CouponNotStranded, OpenOrdersScheduled, Held
    <3> QED BY <1>1, <1>2, <3>2 DEF SInv
  <2> QED BY <1>4, <2>4, <2>5 DEF HandlerFails
<1> QED BY <1>3, <1>4

LEMMA SStep == IInv /\ SInv /\ [Next]_vars => SInv'
<1> SUFFICES ASSUME IInv, SInv, [Next]_vars PROVE SInv'
  OBVIOUS
<1>1. CASE UNCHANGED <<body, call, order, coupon, delayed, ready, unacked, consumer,
                       channel, faults>>
  <2>1. HandlerHeld' /\ OpenOrdersScheduled'
    BY <1>1 DEF SInv, HandlerHeld, OpenOrdersScheduled, Busy, Held
  <2> QED BY <1>1, <2>1, SRows DEF SInv, Held
<1>2. (\E cp \in Coupons : CouponExpires(cp)) \/ Quiescent \/ UNCHANGED vars =>
        UNCHANGED <<body, call, order, coupon, delayed, ready, unacked, consumer,
                    channel, faults>>
  BY DEF CouponExpires, Quiescent, vars, dbVars, mqVars
<1> QED
  BY <1>1, <1>2, SStatement, SCommit, SMessages, SDeliver, SHandle, SSettle
     DEF Next, CallStep, Handle, Fault

(* A spent coupon is never stranded: crashes between closing and returning   *)
(* included, only a failed return that was acknowledged keeps it.            *)
THEOREM CouponsAreReturned == Spec => []CouponNotStranded
<1>1. SInv => CouponNotStranded
  BY DEF SInv
<1> QED BY <1>1, SInit, SStep, Disciplined, PTL DEF Spec

(* An open order has its timeout message, or a reason not to that its        *)
(* request, the connection or the process is answerable for.                 *)
THEOREM OpenOrdersAreScheduled == Spec => []OpenOrdersScheduled
<1>1. SInv => OpenOrdersScheduled
  BY DEF SInv
<1> QED BY <1>1, SInit, SStep, Disciplined, PTL DEF Spec
=============================================================================
