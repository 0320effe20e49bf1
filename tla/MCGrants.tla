------------------------------ MODULE MCGrants ------------------------------
(* Instances of Grants for TLC: scarce templates, limits, expiry.           *)
EXTENDS Grants, TLC

Body(start, end, total, limit) ==
    [start |-> start, end |-> end, total |-> total, limit |-> limit]

(* A template of the least quantity and no limit given, a larger one, one  *)
(* that starts late and ends soon, and one that is refused.                *)
Bodies == {Body(0, 2, 1, 0), Body(0, 2, 2, 2), Body(1, 2, 2, 1), Body(1, 1, 1, 1)}

Plenty == {Body(0, 2, 2, 0)}

Symmetry == Permutations(Grants) \cup Permutations(Users) \cup Permutations(Creations)

-----------------------------------------------------------------------------
(* What the repository says of the program and its code does not do. *)

(* A grant beyond the limit per user is refused (openapi.yaml:388): no user *)
(* holds more coupons of a template than its per_user_limit.                *)
PerUserLimitKept ==
    \A c \in rows, u \in Users : Cardinality(CouponsOf(u, c)) <= Limit(c)
=============================================================================
