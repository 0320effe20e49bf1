----------------------------- MODULE MCCatalog ------------------------------
(* The instance of Catalog for TLC. *)
EXTENDS Catalog, TLC

CONSTANTS c1, c2, c3, c4, u1, u2, a, b, exact

(* The text b has a price that the row rounds to that of the text exact. *)
Rounding == [t \in Texts |-> IF t = b THEN exact ELSE t]

Creating(text) == [op |-> "create", by |-> u1, target |-> c1, text |-> text, status |-> "active"]
Updating(u, p, text) == [op |-> "update", by |-> u, target |-> p, text |-> text, status |-> "active"]
Doing(op, u) == [op |-> op, by |-> u, target |-> c1, text |-> NoText, status |-> "inactive"]

(* A product, then requests of its publisher, of another user, for an id    *)
(* that no product has, and a search.                                       *)
Mixed ==
    c1 :> {Creating(a), Creating(b)} @@
    c2 :> {Creating(b), Updating(u1, c1, b), Updating(u2, c4, b), Doing("delete", u1)} @@
    c3 :> {Updating(u1, c1, NoText), Updating(u1, c1, a), Doing("status", u1), Doing("delete", u2)} @@
    c4 :> {Doing("search", u2)}
=============================================================================
