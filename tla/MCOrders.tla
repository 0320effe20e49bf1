------------------------------ MODULE MCOrders ------------------------------
(* Instances of Orders for TLC: two scarce products, one coupon and the       *)
(* request bodies under which calls compete for stock, key and coupon.  Calls *)
(* for different products are the ones that run their transactions at once.   *)
EXTENDS Orders, TLC

CONSTANTS Units, p1, p2, cp1, u1, u2, k1, k2, k3

MCStock == [p \in Products |-> Units]
MCPrice == [p \in Products |-> 2]
MCMinAmount == [cp \in Coupons |-> 3]
MCOwner == [cp \in Coupons |-> u1]

Request(u, p, q, cp, k) ==
    [user |-> u, product |-> p, quantity |-> q, coupon |-> cp, key |-> k]

(* Orders of two products that compete for one coupon, one below its       *)
(* minimum amount and one of a user who does not own it; plain orders that  *)
(* find the stock too low for two more, take one of its last units or       *)
(* repeat a key; and an unknown product id.                                 *)
MixedBodies == {Request(u1, p1, 2, cp1, k1), Request(u1, p2, 2, cp1, k2),
                Request(u1, p1, 1, cp1, k3), Request(u2, p1, 2, cp1, k3),
                Request(u1, p2, 2, NoCoupon, k1), Request(u2, p1, 2, NoCoupon, k2),
                Request(u2, p1, 1, NoCoupon, k3),
                Request(u1, NoProduct, 1, NoCoupon, k2)}

CallSymmetry == Permutations(Calls)

(* Liveness is checked without symmetry, for a few ways to fill the calls: *)
(* all three in conflict, a coupon asked for twice with its key and once    *)
(* without, and a key asked for by three.                                   *)
CONSTANTS c1, c2, c3

PaidP1 == Request(u1, p1, 2, cp1, k1)
PaidP2 == Request(u1, p2, 2, cp1, k2)
PlainP2 == Request(u1, p2, 1, NoCoupon, k1)

LiveInit ==
    /\ Init
    /\ <<body[c1], body[c2], body[c3]>> \in
          {<<PaidP1, PaidP2, PlainP2>>, <<PaidP1, PaidP1, PaidP2>>,
           <<PaidP1, PlainP2, PlainP2>>}

LiveSpec == LiveInit /\ [][Next]_vars /\ Fairness

LiveBodies == {PaidP1, PaidP2, PlainP2}
OneBody == {PaidP1}

-----------------------------------------------------------------------------
(* What the repository says of the program and its code does not do. *)

(* A timeout message that cannot be handled is dropped after maxRetries     *)
(* requeues (mq_handler.go:83 and :96).                                     *)
RetriesBounded == \A o \in Calls : attempts[o] <= MaxRetries + 1

(* 库存不足 (openapi.yaml:312): an order refused for want of stock asks for  *)
(* more units than there are.  No other transaction is between its          *)
(* statements on the row, so the stock column is what the call sees.        *)
RefusedOnlyIfShort ==
    [][\A c \in Calls : call[c].reply = "none" /\ call'[c].reply = "insufficient"
          => stock[body[c].product] < body[c].quantity]_vars

(* Returning a coupon leaves alone a coupon another operation has changed   *)
(* since (coupon/repository.go:157): it frees no open order's coupon.       *)
ReturnLeavesOthers ==
    [][\A c \in Calls : /\ order[c] = "processing"
                        /\ HasCoupon(c)
                        /\ coupon[body[c].coupon].status = "used"
                        => coupon'[body[c].coupon].status = "used"]_vars
=============================================================================
