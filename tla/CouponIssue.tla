----------------------------- MODULE CouponIssue -----------------------------
(***************************************************************************)
(* What granting coupons promises: a template is published once with all   *)
(* its units, a coupon is issued in one step that takes one of them, at    *)
(* most one to each request, and a unit goes without a coupon only by a    *)
(* failure, one at a time.  The statements of a grant, the requests that   *)
(* run between them and the clock do not appear here.  Grants implements   *)
(* this specification.                                                     *)
(***************************************************************************)
EXTENDS Integers

CONSTANTS Creations, Grants, Users, TemplateBodies

VARIABLES
    template, want,    \* what the requests ask for
    rows,              \* published templates
    left,              \* units of each that no coupon has
    granted,           \* requests that have their coupon
    failures

vars == <<template, want, rows, left, granted, failures>>

Init ==
    /\ template \in [Creations -> TemplateBodies]
    /\ want \in [Grants -> [template : Creations, user : Users]]
    /\ rows = {}
    /\ left = [c \in Creations |-> 0]
    /\ granted = {}
    /\ failures = 0

(* The client is told of this step, or its answer is lost. *)
Answer == failures' \in {failures, failures + 1}

Publish(c) ==
    /\ c \notin rows /\ template[c].start < template[c].end
    /\ rows' = rows \cup {c}
    /\ left' = [left EXCEPT ![c] = template[c].total]
    /\ Answer
    /\ UNCHANGED <<template, want, granted>>

TakeOne(c) ==
    /\ c \in rows /\ left[c] > 0
    /\ left' = [left EXCEPT ![c] = @ - 1]
    /\ UNCHANGED <<template, want, rows>>

Issue(g) ==
    /\ g \notin granted
    /\ TakeOne(want[g].template)
    /\ granted' = granted \cup {g}
    /\ Answer

Lose(c) ==
    /\ TakeOne(c)
    /\ failures' = failures + 1
    /\ UNCHANGED granted

Fail ==
    /\ failures' = failures + 1
    /\ UNCHANGED <<template, want, rows, left, granted>>

Next ==
    \/ \E c \in Creations : Publish(c) \/ Lose(c)
    \/ \E g \in Grants : Issue(g)
    \/ Fail

Spec == Init /\ [][Next]_vars
=============================================================================
