----------------------------- MODULE MCListings -----------------------------
(* Instances of Listings for TLC.                                            *)
EXTENDS Listings, TLC

(* Absent, negative, at the bound and beyond it. *)
QuerySizes == -1 .. 3

RowSymmetry == Permutations(Rows)
=============================================================================
