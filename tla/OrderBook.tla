------------------------------ MODULE OrderBook ------------------------------
(***************************************************************************)
(* What order placement promises to the rest of the shop: an order, the    *)
(* stock it takes and the coupon it spends appear in one step, or nothing  *)
(* does; an open order is closed once; a coupon comes back only on account *)
(* of a closed order that carried it.  An order has to leave at least as   *)
(* many units as it takes, which is how DeductStock looks at the stock     *)
(* twice.  No locks, queues, retries or failures appear here.  Orders      *)
(* implements this specification.                                          *)
(***************************************************************************)
EXTENDS Integers

CONSTANTS Calls, Products, Coupons, NoCoupon, NoOrder, InitialStock, CouponOwner,
          Bodies

VARIABLES body, stock, used, order

vars == <<body, stock, used, order>>

Init ==
    /\ body \in [Calls -> Bodies]
    /\ stock = InitialStock
    /\ used = {}
    /\ order = [c \in Calls |-> NoOrder]

Place(c) ==
    LET b == body[c]
    IN  /\ order[c] = NoOrder
        /\ \A d \in Calls : order[d] # NoOrder => body[d].key # b.key
        /\ b.product \in Products
        /\ stock[b.product] - b.quantity >= b.quantity
        /\ stock' = [stock EXCEPT ![b.product] = @ - b.quantity]
        /\ \/ b.coupon = NoCoupon /\ used' = used
           \/ /\ b.coupon \in Coupons \ used
              /\ CouponOwner[b.coupon] = b.user
              /\ used' = used \cup {b.coupon}
        /\ order' = [order EXCEPT ![c] = "processing"]
        /\ UNCHANGED body

Close(c) ==
    /\ order[c] = "processing"
    /\ order' = [order EXCEPT ![c] = "timeout"]
    /\ UNCHANGED <<body, stock, used>>

Return(cp) ==
    /\ cp \in used
    /\ \E c \in Calls : order[c] = "timeout" /\ body[c].coupon = cp
    /\ used' = used \ {cp}
    /\ UNCHANGED <<body, stock, order>>

Next ==
    \/ \E c \in Calls : Place(c) \/ Close(c)
    \/ \E cp \in Coupons : Return(cp)

Spec == Init /\ [][Next]_vars
==============================================================================
