------------------------------- MODULE Grants -------------------------------
(***************************************************************************)
(* Coupon templates and their grants (internal/coupon).  GrantCoupon is    *)
(* not a transaction: it reads the template, counts the user's coupons,    *)
(* takes a unit off the template and inserts the coupon in four statements *)
(* that commit one by one.  A template is named by the request that made   *)
(* it and a user_coupons row by the grant that inserted it.  A process     *)
(* that is killed is, for each of its calls, a failing statement.          *)
(* Operators named Bug... are plausible mistakes in the definition that    *)
(* follows them; the specification uses none, each breaks a property.      *)
(***************************************************************************)
EXTENDS Integers, FiniteSets

CONSTANTS
    Creations,         \* POST /coupon/template requests
    Grants,            \* POST /coupon/grant requests
    Users,
    TemplateBodies,    \* validity, quantity and limit of a template
    MaxTime,           \* bound of the clock
    MaxDbFaults        \* bound of the environment

(* The bindings of CreateTemplateParam: total_qty is at least 1 and        *)
(* per_user_limit, when absent, is 0.                                      *)
ASSUME BodiesAssumption ==
    TemplateBodies \subseteq [start : Nat, end : Nat, total : Nat \ {0}, limit : Nat]

ASSUME GrantsAssumption == IsFiniteSet(Grants)

VARIABLES
    template,          \* what each creation asks for
    want,              \* template and user of each grant
    made,              \* answer of each creation
    rows,              \* committed coupon_templates rows
    remaining,         \* their remaining_qty column
    call,              \* progress and reply of each grant
    granted,           \* grants whose user_coupons row is committed
    raced,             \* history: grants that counted while another was under way
    now, faults

templates == <<template, made, rows, remaining>>
vars == <<template, want, made, rows, remaining, call, granted, raced, now, faults>>

-----------------------------------------------------------------------------
CallState ==
    [pc : {"idle", "count", "deduct", "create", "done"},
     reply : {"none", "ok", "notFound", "expired", "perUserLimit", "stockEmpty", "error"}]

TypeOK ==
    /\ template \in [Creations -> TemplateBodies]
    /\ want \in [Grants -> [template : Creations, user : Users]]
    /\ made \in [Creations -> {"none", "ok", "invalid", "error"}]
    /\ rows \subseteq Creations
    /\ remaining \in [Creations -> Nat]
    /\ call \in [Grants -> CallState]
    /\ granted \subseteq Grants /\ raced \subseteq Grants
    /\ now \in Nat /\ faults \in Nat

Init ==
    /\ template \in [Creations -> TemplateBodies]
    /\ want \in [Grants -> [template : Creations, user : Users]]
    /\ made = [c \in Creations |-> "none"]
    /\ rows = {}
    /\ remaining = [c \in Creations |-> 0]
    /\ call = [g \in Grants |-> [pc |-> "idle", reply |-> "none"]]
    /\ granted = {} /\ raced = {}
    /\ now = 0 /\ faults = 0

-----------------------------------------------------------------------------
(* Service.CreateTemplate *)

Limit(c) == IF template[c].limit = 0 THEN 1 ELSE template[c].limit

ApplyTemplate(c) ==
    /\ rows' = rows \cup {c}
    /\ remaining' = [remaining EXCEPT ![c] = template[c].total]

CreateTemplate(c) ==
    /\ made[c] = "none"
    /\ \/ /\ template[c].end <= template[c].start
          /\ made' = [made EXCEPT ![c] = "invalid"]
          /\ UNCHANGED <<rows, remaining>>
       \/ /\ template[c].end > template[c].start
          /\ ApplyTemplate(c)
          /\ made' = [made EXCEPT ![c] = "ok"]
    /\ UNCHANGED <<template, want, call, granted, raced, now, faults>>

(* The insert fails, or its answer is lost after it committed. *)
CreateTemplateFails(c) ==
    /\ made[c] = "none" /\ template[c].end > template[c].start
    /\ faults < MaxDbFaults
    /\ made' = [made EXCEPT ![c] = "error"]
    /\ \/ ApplyTemplate(c)
       \/ UNCHANGED <<rows, remaining>>
    /\ faults' = faults + 1
    /\ UNCHANGED <<template, want, call, granted, raced, now>>

-----------------------------------------------------------------------------
(* Service.GrantCoupon *)

Goto(g, pc) == call' = [call EXCEPT ![g].pc = pc]
Finish(g, reply) == call' = [call EXCEPT ![g].pc = "done", ![g].reply = reply]

Valid(c) == template[c].start <= now /\ now <= template[c].end

(* The read of the template and the checks on it; no operation makes a     *)
(* template inactive.                                                      *)
GetTemplate(g) ==
    /\ call[g].pc = "idle"
    /\ LET c == want[g].template
       IN  \/ c \notin rows /\ Finish(g, "notFound")
           \/ c \in rows /\ ~Valid(c) /\ Finish(g, "expired")
           \/ c \in rows /\ Valid(c) /\ Goto(g, "count")
    /\ UNCHANGED <<templates, want, granted, raced, now, faults>>

CouponsOf(u, c) == {h \in granted : want[h] = [template |-> c, user |-> u]}

(* Another grant of the same coupon to the same user has counted and has   *)
(* not inserted its row.                                                   *)
UnderWay(g) ==
    \E h \in Grants \ {g} : want[h] = want[g] /\ call[h].pc \in {"deduct", "create"}

(* The limit is compared with > where the code has >=. *)
BugCountOffByOne(g) ==
    /\ call[g].pc = "count"
    /\ LET count == Cardinality(CouponsOf(want[g].user, want[g].template))
       IN  \/ count > Limit(want[g].template) /\ Finish(g, "perUserLimit")
           \/ count <= Limit(want[g].template) /\ Goto(g, "deduct")
    /\ raced' = IF UnderWay(g) THEN raced \cup {g} ELSE raced
    /\ UNCHANGED <<templates, want, granted, now, faults>>

CountUserCoupons(g) ==
    /\ call[g].pc = "count"
    /\ LET count == Cardinality(CouponsOf(want[g].user, want[g].template))
       IN  \/ count >= Limit(want[g].template) /\ Finish(g, "perUserLimit")
           \/ count < Limit(want[g].template) /\ Goto(g, "deduct")
    /\ raced' = IF UnderWay(g) THEN raced \cup {g} ELSE raced
    /\ UNCHANGED <<templates, want, granted, now, faults>>

(* The UPDATE without remaining_qty > 0 in its WHERE. *)
BugTakeUnchecked(c) ==
    remaining' = [remaining EXCEPT ![c] = @ - 1]

(* UPDATE ... WHERE remaining_qty > 0 AND NOW() BETWEEN start_time AND     *)
(* end_time, on the row as it is now and not as it was read.               *)
TakeUnit(c) ==
    /\ remaining[c] > 0 /\ Valid(c)
    /\ remaining' = [remaining EXCEPT ![c] = @ - 1]

(* A grant that finds no unit goes on. *)
BugDeductIgnored(g) ==
    /\ call[g].pc = "deduct"
    /\ TakeUnit(want[g].template) \/ UNCHANGED remaining
    /\ Goto(g, "create")
    /\ UNCHANGED <<template, want, made, rows, granted, raced, now, faults>>

(* No row is updated when the units are gone, or the validity is over.     *)
DeductRemainingQty(g) ==
    /\ call[g].pc = "deduct"
    /\ LET c == want[g].template
       IN  \/ TakeUnit(c) /\ Goto(g, "create")
           \/ /\ remaining[c] = 0 \/ ~Valid(c)
              /\ Finish(g, "stockEmpty")
              /\ UNCHANGED remaining
    /\ UNCHANGED <<template, want, made, rows, granted, raced, now, faults>>

CreateUserCoupon(g) ==
    /\ call[g].pc = "create"
    /\ granted' = granted \cup {g}
    /\ Finish(g, "ok")
    /\ UNCHANGED <<templates, want, raced, now, faults>>

(* The unit is put back when the insert has no answer, which may have      *)
(* committed.                                                              *)
BugRefundOnError(g) ==
    /\ call[g].pc = "create" /\ faults < MaxDbFaults
    /\ Finish(g, "error")
    /\ remaining' = [remaining EXCEPT ![want[g].template] = @ + 1]
    /\ granted' \in {granted, granted \cup {g}}
    /\ faults' = faults + 1
    /\ UNCHANGED <<template, want, made, rows, raced, now>>

(* A statement fails, or its answer is lost after it committed; nothing    *)
(* puts the unit back.                                                     *)
GrantFails(g) ==
    /\ call[g].pc # "done" /\ faults < MaxDbFaults
    /\ Finish(g, "error")
    /\ \/ UNCHANGED <<remaining, granted>>
       \/ call[g].pc = "deduct" /\ TakeUnit(want[g].template) /\ UNCHANGED granted
       \/ /\ call[g].pc = "create" /\ granted' = granted \cup {g}
          /\ UNCHANGED remaining
    /\ faults' = faults + 1
    /\ UNCHANGED <<template, want, made, rows, raced, now>>

-----------------------------------------------------------------------------
Tick ==
    /\ now < MaxTime
    /\ now' = now + 1
    /\ UNCHANGED <<templates, want, call, granted, raced, faults>>

(* Nothing is left to do. *)
Quiescent ==
    /\ \A c \in Creations : made[c] # "none"
    /\ \A g \in Grants : call[g].pc = "done"
    /\ now = MaxTime
    /\ UNCHANGED vars

GrantStep(g) ==
    GetTemplate(g) \/ CountUserCoupons(g) \/ DeductRemainingQty(g) \/ CreateUserCoupon(g)

Next ==
    \/ \E c \in Creations : CreateTemplate(c) \/ CreateTemplateFails(c)
    \/ \E g \in Grants : GrantStep(g) \/ GrantFails(g)
    \/ Tick
    \/ Quiescent

Spec == Init /\ [][Next]_vars

-----------------------------------------------------------------------------
(* Properties *)

(* Grants of template c that hold one of its units: their coupon exists,   *)
(* or is about to be inserted.                                             *)
Holders(c) ==
    {g \in Grants : want[g].template = c /\ (g \in granted \/ call[g].pc = "create")}

(* No template gives out more coupons than its total, however grants       *)
(* interleave, and a unit that is neither left nor held was lost to a      *)
(* failure, one at most by each (DeductRemainingQty before                 *)
(* CreateUserCoupon, outside a transaction).                               *)
UnitsAccounted ==
    \A c \in rows :
        LET units == remaining[c] + Cardinality(Holders(c))
        IN  units <= template[c].total /\ template[c].total <= units + faults

(* Between grants that do not overlap, the limit per user is kept: a user  *)
(* exceeds it only by a grant that counted while another was under way.    *)
LimitKeptInTurn ==
    \A c \in rows, u \in Users :
        \/ Cardinality(CouponsOf(u, c)) <= Limit(c)
        \/ \E g \in raced : want[g] = [template |-> c, user |-> u]

(* A unit taken by a grant that has its insert before it is not gone yet:  *)
(* counted so, the four statements of a grant issue a coupon and take its  *)
(* unit in one step, or lose the unit to a failure, as CouponIssue says.   *)
Inserting(c) == {g \in Grants : want[g].template = c /\ call[g].pc = "create"}
Left == [c \in Creations |-> remaining[c] + Cardinality(Inserting(c))]
Issuing == INSTANCE CouponIssue WITH left <- Left, failures <- faults
GrantsAreIssues == Issuing!Spec
=============================================================================
