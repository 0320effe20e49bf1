------------------------------ MODULE Listings ------------------------------
(***************************************************************************)
(* The four paged lists: shops (internal/shop), a user's orders, a user's  *)
(* coupons and the products on sale.  Each request runs two statements, a  *)
(* count and a page ORDER BY created_at DESC with OFFSET and LIMIT, outside *)
(* any transaction, while rows are inserted and products change status.    *)
(* created_at is set by the process before the insert, and the row appears *)
(* with a later commit: rows need not appear in the order of their stamps, *)
(* and two may have the same.  One client walks one list page by page.     *)
(* Operators named Bug... are plausible mistakes in the definition that    *)
(* follows them; the specification uses none, each breaks a property.      *)
(***************************************************************************)
EXTENDS Integers, FiniteSets

CONSTANTS
    Rows,              \* the rows that may be inserted into the listed table
    Sizes,             \* values of page_size in a query; 0 is one that is absent
    MaxSize,           \* bound of page_size in shop, order and product queries
    MaxCouponSize,     \* bound of page_size in coupon queries
    DefaultSize,       \* page size of a coupon query without one
    MaxTime            \* bound of the clock

ASSUME RowsAssumption == IsFiniteSet(Rows)

ASSUME SizesAssumption ==
    /\ Sizes \subseteq Int
    /\ MaxSize \in Nat /\ MaxCouponSize \in Nat /\ DefaultSize \in Nat \ {0}

VARIABLES
    kind,              \* the list that is walked
    row,               \* rows of its table: listed, or not matching its WHERE
    stamp,             \* created_at, once it is set
    now,
    walk,              \* the client: statement to come, query and last total
    start,             \* history: rows listed when the walk began
    seen, twice,       \* history: rows it was answered with, and more than once
    moved              \* history: rows that joined or left the list meanwhile,
                       \*   and whether one joined between a count and its page

table == <<kind, row, stamp, now>>
past == <<start, seen, twice, moved>>
vars == <<kind, row, stamp, now, walk, start, seen, twice, moved>>

-----------------------------------------------------------------------------
Kinds == {"shops", "orders", "coupons", "products"}

(* until: the client stops at a page that is not full, or at the total.    *)
Walk == [pc : {"idle", "count", "find", "done", "refused", "failed"}, size : Int,
         until : {"short", "total"}, page : Nat, total : Nat]

Moves == [joined : SUBSET Rows, left : SUBSET Rows, between : BOOLEAN]

TypeOK ==
    /\ kind \in Kinds
    /\ row \in [Rows -> {"none", "stamped", "listed", "unlisted", "failed"}]
    /\ stamp \in [Rows -> Nat]
    /\ now \in Nat
    /\ walk \in Walk
    /\ walk.size <= MaxSize \/ walk.size <= MaxCouponSize \/ walk.size = DefaultSize
    /\ start \subseteq Rows /\ seen \subseteq Rows /\ twice \subseteq Rows
    /\ moved \in Moves

Init ==
    /\ kind \in Kinds
    /\ row = [r \in Rows |-> "none"]
    /\ stamp = [r \in Rows |-> 0]
    /\ now = 0
    /\ walk \in [pc : {"idle"}, size : {0}, until : {"short", "total"}, page : {0},
                 total : {0}]
    /\ start = {} /\ seen = {} /\ twice = {}
    /\ moved = [joined |-> {}, left |-> {}, between |-> FALSE]

-----------------------------------------------------------------------------
(* The table *)

Listed == {r \in Rows : row[r] = "listed"}

Walking == walk.pc \in {"count", "find"}

SetStamp(r) ==
    /\ row[r] = "none"
    /\ row' = [row EXCEPT ![r] = "stamped"]
    /\ stamp' = [stamp EXCEPT ![r] = now]
    /\ UNCHANGED <<kind, now, walk, past>>

(* A row appears in the list, or it appears where the list does not look.  *)
Join(r) ==
    /\ row' = [row EXCEPT ![r] = "listed"]
    /\ moved' = IF Walking
                THEN [moved EXCEPT !.joined = @ \cup {r},
                                   !.between = @ \/ walk.pc = "find"]
                ELSE moved
    /\ UNCHANGED <<kind, stamp, now, walk, start, seen, twice>>

Hide(r) ==
    /\ row' = [row EXCEPT ![r] = "unlisted"]
    /\ moved' = IF Walking THEN [moved EXCEPT !.left = @ \cup {r}] ELSE moved
    /\ UNCHANGED <<kind, stamp, now, walk, start, seen, twice>>

(* Every shop is listed. *)
CreateShop(r) == kind = "shops" /\ row[r] = "stamped" /\ Join(r)

(* Orders of the client, or of another user. *)
CreateOrder(r) == kind = "orders" /\ row[r] = "stamped" /\ (Join(r) \/ Hide(r))

(* Coupons granted to the client, or to another user. *)
CreateUserCoupon(r) == kind = "coupons" /\ row[r] = "stamped" /\ (Join(r) \/ Hide(r))

(* Products on sale, or not. *)
CreateProduct(r) == kind = "products" /\ row[r] = "stamped" /\ (Join(r) \/ Hide(r))

(* The insert fails, or its transaction is rolled back. *)
CreateFails(r) ==
    /\ row[r] = "stamped"
    /\ row' = [row EXCEPT ![r] = "failed"]
    /\ UNCHANGED <<kind, stamp, now, walk, past>>

(* UpdateProductStatus and DeleteProduct. *)
ChangeStatus(r) ==
    /\ kind = "products"
    /\ \/ row[r] = "unlisted" /\ Join(r)
       \/ row[r] = "listed" /\ Hide(r)

-----------------------------------------------------------------------------
(* The walk.  The client begins with page 1 and asks for one after another. *)

Begin(size, accepted) ==
    /\ walk.pc = "idle"
    /\ \/ /\ accepted
          /\ walk' = [walk EXCEPT !.pc = "count", !.size = size, !.page = 1]
          /\ start' = Listed
       \/ /\ ~accepted
          /\ walk' = [walk EXCEPT !.pc = "refused"]
          /\ UNCHANGED start
    /\ UNCHANGED <<table, seen, twice, moved>>

(* The bound is missing from the binding. *)
BugUnbounded(size) == size # 0

(* binding:"required,max=20": zero is taken for absent, and a negative     *)
(* number is not refused.                                                  *)
Accepted(size) == size # 0 /\ size <= MaxSize

ListShops(size) == kind = "shops" /\ Begin(size, Accepted(size))
ListOrders(size) == kind = "orders" /\ Begin(size, Accepted(size))
ListProducts(size) == kind = "products" /\ Begin(size, Accepted(size))

(* The service's defaults for what the query leaves out. *)
CouponSize(size) == IF size = 0 THEN DefaultSize ELSE size

ListUserCoupons(size) ==
    kind = "coupons" /\ Begin(CouponSize(size), 0 <= size /\ size <= MaxCouponSize)

CountRows ==
    /\ walk.pc = "count"
    /\ walk' = [walk EXCEPT !.pc = "find", !.total = Cardinality(Listed)]
    /\ UNCHANGED <<table, past>>

(* The first n rows ORDER BY created_at DESC; rows with one stamp come in  *)
(* any order, and in another one the next time.                            *)
Newest(rows, n) ==
    {S \in SUBSET rows :
        /\ Cardinality(S) = IF n < Cardinality(rows) THEN n ELSE Cardinality(rows)
        /\ \A r \in S, q \in rows \ S : stamp[q] <= stamp[r]}

(* The pages are counted from zero. *)
BugOffsetFromZero == walk.page * walk.size

(* The next page begins at what was counted, not at what was read. *)
BugOffsetOverlaps == IF walk.page = 1 THEN 0 ELSE (walk.page - 1) * walk.size - 1

Offset == (walk.page - 1) * walk.size

(* A negative limit is left out of the statement, and a negative offset    *)
(* with it.                                                                *)
IsPage(S) ==
    IF walk.size < 0 THEN S = Listed
    ELSE \E skipped \in Newest(Listed, Offset) :
            S \in Newest(Listed \ skipped, walk.size)

Last(S) ==
    \/ walk.size < 0
    \/ walk.until = "short" /\ Cardinality(S) < walk.size
    \/ walk.until = "total" /\ walk.page * walk.size >= walk.total

FindPage ==
    /\ walk.pc = "find"
    /\ \E S \in SUBSET Listed :
          /\ IsPage(S)
          /\ seen' = seen \cup S
          /\ twice' = twice \cup (seen \cap S)
          /\ walk' = IF Last(S) THEN [walk EXCEPT !.pc = "done"]
                     ELSE [walk EXCEPT !.pc = "count", !.page = @ + 1]
    /\ UNCHANGED <<table, start, moved>>

(* Either statement fails: the request is answered with the error. *)
QueryFails ==
    /\ Walking
    /\ walk' = [walk EXCEPT !.pc = "failed"]
    /\ UNCHANGED <<table, past>>

-----------------------------------------------------------------------------
Tick ==
    /\ now < MaxTime
    /\ now' = now + 1
    /\ UNCHANGED <<kind, row, stamp, walk, past>>

Quiescent == walk.pc \in {"done", "refused", "failed"} /\ UNCHANGED vars

Insert(r) == CreateShop(r) \/ CreateOrder(r) \/ CreateUserCoupon(r) \/ CreateProduct(r)

Ask(size) == ListShops(size) \/ ListOrders(size) \/ ListProducts(size) \/ ListUserCoupons(size)

Next ==
    \/ \E r \in Rows : SetStamp(r) \/ Insert(r) \/ CreateFails(r) \/ ChangeStatus(r)
    \/ \E size \in Sizes : Ask(size)
    \/ CountRows \/ FindPage \/ QueryFails
    \/ Tick
    \/ Quiescent

Spec == Init /\ [][Next]_vars

-----------------------------------------------------------------------------
(* Properties *)

(* No two rows were given one created_at. *)
Untied ==
    \A q, r \in Rows : row[q] # "none" /\ row[r] # "none" /\ stamp[q] = stamp[r] => q = r

(* A walk that ends at a page that is not full has seen every row listed   *)
(* when it began, whatever was inserted meanwhile and in whatever order    *)
(* the inserts committed; one that ends at the total may miss rows only    *)
(* when an insert came between a count and its page (ListProducts,         *)
(* ListOrdersByUserID, ListUserCoupons, shop List).  What leaves the list  *)
(* of products draws the others to earlier pages.                          *)
NothingMissed ==
    walk.pc = "done" /\ Untied /\ moved.left = {}
        /\ (walk.until = "short" \/ ~moved.between)
    => start \subseteq seen

(* A walk sees a row twice only if another joined the list meanwhile.      *)
NothingTwice == Untied /\ moved.joined = {} => twice = {}
=============================================================================
