---------------------------- MODULE GrantsProofs ----------------------------
(* Proofs about Grants for every finite set of grants, every template body   *)
(* and every bound on time and failures: types, the account of the units of *)
(* a template, and the limit per user between grants that do not overlap.   *)
EXTENDS Grants, FiniteSetTheorems, TLAPS

(* A grant past its first read is of a template that exists, a granted one *)
(* is over, and a template exists only once its creation was answered.     *)
RowsFirst ==
    /\ \A c \in rows : made[c] # "none"
    /\ \A g \in Grants :
          g \in granted \/ call[g].pc \in {"count", "deduct", "create"}
          => want[g].template \in rows
    /\ \A g \in granted : call[g].pc = "done"

Pair(c, u) == [template |-> c, user |-> u]
Busy(g) == call[g].pc \in {"deduct", "create"}
Overlapped(c, u) == \E g \in raced : want[g] = Pair(c, u)

(* Among grants that took turns one at most is under way, and while it is, *)
(* the count it saw, below the limit, still stands.                        *)
TurnsTaken ==
    \A c \in Creations, u \in Users :
        Overlapped(c, u) \/
        /\ Cardinality(CouponsOf(u, c)) <= Limit(c)
        /\ \A g \in Grants : Busy(g) /\ want[g] = Pair(c, u) =>
              /\ Cardinality(CouponsOf(u, c)) < Limit(c)
              /\ \A h \in Grants : Busy(h) /\ want[h] = Pair(c, u) => h = g

IInv == TypeOK /\ RowsFirst /\ UnitsAccounted /\ TurnsTaken

-----------------------------------------------------------------------------
(* Finite sets of grants. *)

LEMMA SubsetsAreFinite ==
    ASSUME NEW S, S \subseteq Grants
    PROVE  IsFiniteSet(S) /\ Cardinality(S) \in Nat
BY GrantsAssumption, FS_Subset, FS_CardinalityType

LEMMA AddGrant ==
    ASSUME NEW S, S \subseteq Grants, NEW g, g \notin S
    PROVE  Cardinality(S \cup {g}) = Cardinality(S) + 1
BY SubsetsAreFinite, FS_AddElement

LEMMA RemoveGrant ==
    ASSUME NEW S, S \subseteq Grants, NEW g \in S
    PROVE  Cardinality(S \ {g}) = Cardinality(S) - 1
BY SubsetsAreFinite, FS_RemoveElement

LEMMA LimitType ==
    ASSUME TypeOK, NEW c \in Creations
    PROVE  Limit(c) \in Nat \ {0}
BY BodiesAssumption DEF TypeOK, Limit

(* What moving one grant on does to all of them. *)
LEMMA GrantMoves ==
    ASSUME call \in [Grants -> CallState], NEW g \in Grants,
           NEW pc \in {"idle", "count", "deduct", "create", "done"},
           NEW reply \in {"none", "ok", "notFound", "expired", "perUserLimit",
                          "stockEmpty", "error"},
           \/ pc # "done" /\ Goto(g, pc)
           \/ pc = "done" /\ Finish(g, reply)
    PROVE  /\ call' \in [Grants -> CallState]
           /\ \A h \in Grants : h # g => call'[h] = call[h]
           /\ call'[g].pc = pc
BY DEF Goto, Finish, CallState

-----------------------------------------------------------------------------
LEMMA InitInv == Init => IInv
<1> SUFFICES ASSUME Init PROVE IInv
  OBVIOUS
<1>1. TypeOK
  BY DEF Init, TypeOK, CallState
<1>2. RowsFirst /\ UnitsAccounted
  BY DEF Init, RowsFirst, UnitsAccounted
<1>3. TurnsTaken
  <2> SUFFICES ASSUME NEW c \in Creations, NEW u \in Users
               PROVE  /\ Cardinality(CouponsOf(u, c)) <= Limit(c)
                      /\ \A g \in Grants : ~Busy(g)
    BY DEF TurnsTaken
  <2>1. CouponsOf(u, c) = {}
    BY DEF Init, CouponsOf
  <2> QED BY <2>1, <1>1, LimitType, FS_EmptySet DEF Init, Busy
<1> QED BY <1>1, <1>2, <1>3 DEF IInv

(* Every action of a grant is one of five moves. *)
Moves(g, pc) ==
    /\ call' \in [Grants -> CallState]
    /\ \A h \in Grants : h # g => call'[h] = call[h]
    /\ call'[g].pc = pc
    /\ UNCHANGED <<template, want, made, rows>>

Checks(g) ==
    /\ \E pc \in {"count", "done"} : Moves(g, pc)
    /\ call[g].pc \notin {"create", "done"}
    /\ call'[g].pc = "count" => want[g].template \in rows
    /\ UNCHANGED <<remaining, granted, raced>>
    /\ faults' \in {faults, faults + 1}

Counts(g) ==
    /\ call[g].pc = "count"
    /\ \E pc \in {"deduct", "done"} : Moves(g, pc)
    /\ call'[g].pc = "deduct" =>
          Cardinality(CouponsOf(want[g].user, want[g].template)) < Limit(want[g].template)
    /\ raced' = IF UnderWay(g) THEN raced \cup {g} ELSE raced
    /\ UNCHANGED <<remaining, granted, faults>>

Takes(g) ==
    /\ call[g].pc = "deduct"
    /\ TakeUnit(want[g].template)
    /\ \/ Moves(g, "create") /\ faults' = faults
       \/ Moves(g, "done") /\ faults' = faults + 1
    /\ UNCHANGED <<granted, raced>>

Inserts(g) ==
    /\ call[g].pc = "create" /\ Moves(g, "done")
    /\ granted' = granted \cup {g}
    /\ faults' \in {faults, faults + 1}
    /\ UNCHANGED <<remaining, raced>>

Leaks(g) ==
    /\ call[g].pc = "create" /\ Moves(g, "done")
    /\ faults' = faults + 1
    /\ UNCHANGED <<remaining, granted, raced>>

LEMMA StepIsMove ==
    ASSUME IInv, NEW g \in Grants, GrantStep(g) \/ GrantFails(g)
    PROVE  /\ Checks(g) \/ Counts(g) \/ Takes(g) \/ Inserts(g) \/ Leaks(g)
           /\ now' = now
<1> USE DEF IInv
<1>0. /\ call \in [Grants -> CallState] /\ faults \in Nat
      /\ want[g].template \in Creations
  BY DEF TypeOK
<1>1. CASE GetTemplate(g)
  <2>1. CASE want[g].template \in rows /\ Goto(g, "count")
    BY <1>0, <1>1, <2>1, GrantMoves DEF GetTemplate, Checks, Moves, templates
  <2>2. CASE Finish(g, "notFound") \/ Finish(g, "expired")
    BY <1>0, <1>1, <2>2, GrantMoves DEF GetTemplate, Checks, Moves, templates
  <2> QED BY <1>1, <2>1, <2>2 DEF GetTemplate
<1>2. CASE CountUserCoupons(g)
  <2> DEFINE n == Cardinality(CouponsOf(want[g].user, want[g].template))
  <2>1. CASE n < Limit(want[g].template) /\ Goto(g, "deduct")
    BY <1>0, <1>2, <2>1, GrantMoves DEF CountUserCoupons, Counts, Moves, templates
  <2>2. CASE Finish(g, "perUserLimit")
    BY <1>0, <1>2, <2>2, GrantMoves DEF CountUserCoupons, Counts, Moves, templates
  <2> QED BY <1>2, <2>1, <2>2 DEF CountUserCoupons
<1>3. CASE DeductRemainingQty(g)
  <2>1. CASE TakeUnit(want[g].template) /\ Goto(g, "create")
    BY <1>0, <1>3, <2>1, GrantMoves DEF DeductRemainingQty, Takes, Moves
  <2>2. CASE Finish(g, "stockEmpty") /\ UNCHANGED remaining
    BY <1>0, <1>3, <2>2, GrantMoves DEF DeductRemainingQty, Checks, Moves
  <2> QED BY <1>3, <2>1, <2>2 DEF DeductRemainingQty
<1>4. CASE CreateUserCoupon(g)
  BY <1>0, <1>4, GrantMoves DEF CreateUserCoupon, Inserts, Moves, templates
<1>5. CASE GrantFails(g)
  <2>1. Moves(g, "done") /\ faults' = faults + 1
    BY <1>0, <1>5, GrantMoves DEF GrantFails, Moves
  <2>2. CASE call[g].pc = "deduct" /\ TakeUnit(want[g].template) /\ UNCHANGED granted
    BY <1>5, <2>1, <2>2 DEF GrantFails, Takes
  <2>3. CASE call[g].pc = "create" /\ granted' = granted \cup {g} /\ UNCHANGED remaining
    BY <1>0, <1>5, <2>1, <2>3 DEF GrantFails, Inserts
  <2>4. CASE call[g].pc = "create" /\ UNCHANGED <<remaining, granted>>
    BY <1>5, <2>1, <2>4 DEF GrantFails, Leaks
  <2>5. CASE call[g].pc # "create" /\ UNCHANGED <<remaining, granted>>
    BY <1>0, <1>5, <2>1, <2>5 DEF GrantFails, Checks, Moves
  <2> QED BY <1>5, <2>2, <2>3, <2>4, <2>5 DEF GrantFails
<1> QED BY <1>1, <1>2, <1>3, <1>4, <1>5
        DEF GrantStep, GetTemplate, CountUserCoupons, DeductRemainingQty,
            CreateUserCoupon, GrantFails

-----------------------------------------------------------------------------
(* The units of a template. *)

LEMMA HoldersFinite ==
    ASSUME NEW c
    PROVE  /\ Holders(c) \subseteq Grants /\ Cardinality(Holders(c)) \in Nat
           /\ IsFiniteSet(Holders(c))
BY SubsetsAreFinite DEF Holders

(* Outside its creation a template and the grants that hold no unit of it *)
(* do not matter; the five moves change the holders by one at most.       *)
LEMMA UnitsKept ==
    ASSUME IInv, NEW g \in Grants,
           Checks(g) \/ Counts(g) \/ Takes(g) \/ Inserts(g) \/ Leaks(g)
    PROVE  UnitsAccounted'
<1> SUFFICES ASSUME NEW c \in rows
             PROVE  LET units == remaining'[c] + Cardinality(Holders(c)')
                    IN  units <= template[c].total /\ template[c].total <= units + faults'
  BY DEF UnitsAccounted, Checks, Counts, Takes, Inserts, Leaks, Moves
<1> DEFINE n == Cardinality(Holders(c))
<1>1. /\ remaining[c] + n <= template[c].total
      /\ template[c].total <= remaining[c] + n + faults
  BY DEF IInv, UnitsAccounted
<1>2. /\ n \in Nat /\ remaining \in [Creations -> Nat] /\ faults \in Nat
      /\ c \in Creations /\ template[c].total \in Nat
      /\ granted \subseteq Grants /\ call \in [Grants -> CallState]
  BY HoldersFinite, BodiesAssumption DEF IInv, TypeOK
<1>3. call[g].pc \in {"deduct", "create"} => g \notin granted
  BY DEF IInv, RowsFirst
<1>4. CASE Checks(g) \/ Counts(g)
  <2>1. Holders(c)' = Holders(c)
    BY <1>2, <1>4 DEF Holders, Checks, Counts, Moves
  <2> QED BY <1>1, <1>2, <1>4, <2>1 DEF Checks, Counts
<1>5. CASE Inserts(g)
  <2>1. Holders(c)' = Holders(c)
    BY <1>2, <1>5 DEF Holders, Inserts, Moves
  <2> QED BY <1>1, <1>2, <1>5, <2>1 DEF Inserts
<1>6. CASE want[g].template # c /\ (Takes(g) \/ Leaks(g))
  <2>1. Holders(c)' = Holders(c)
    BY <1>2, <1>6 DEF Holders, Takes, Leaks, Moves
  <2>2. remaining'[c] = remaining[c] /\ faults' >= faults /\ faults' \in Nat
    BY <1>2, <1>6 DEF Takes, Leaks, TakeUnit
  <2> QED BY <1>1, <1>2, <2>1, <2>2
<1>7. CASE want[g].template = c /\ Takes(g)
  <2>1. remaining'[c] = remaining[c] - 1 /\ g \notin Holders(c)
    BY <1>2, <1>3, <1>7 DEF Takes, TakeUnit, Holders
  <2>2. CASE Moves(g, "create") /\ faults' = faults
    <3>1. Holders(c)' = Holders(c) \cup {g}
      BY <1>2, <1>3, <1>7, <2>2 DEF Holders, Takes, Moves
    <3>2. Cardinality(Holders(c)') = n + 1
      BY <2>1, <3>1, AddGrant, HoldersFinite
    <3> QED BY <1>1, <1>2, <2>1, <2>2, <3>2
  <2>3. CASE Moves(g, "done") /\ faults' = faults + 1
    <3>1. Holders(c)' = Holders(c)
      BY <1>2, <1>3, <1>7, <2>3 DEF Holders, Takes, Moves
    <3> QED BY <1>1, <1>2, <2>1, <2>3, <3>1
  <2> QED BY <1>7, <2>2, <2>3 DEF Takes
<1>8. CASE want[g].template = c /\ Leaks(g)
  <2>1. g \in Holders(c)
    BY <1>8 DEF Holders, Leaks
  <2>2. Holders(c)' = Holders(c) \ {g}
    BY <1>2, <1>3, <1>8 DEF Holders, Leaks, Moves
  <2>3. Cardinality(Holders(c)') = n - 1
    BY <2>1, <2>2, RemoveGrant, HoldersFinite
  <2> QED BY <1>1, <1>2, <1>8, <2>3 DEF Leaks
<1> QED BY <1>4, <1>5, <1>6, <1>7, <1>8

(* A template starts with all its units and no holder. *)
LEMMA UnitsOfNewTemplate ==
    ASSUME IInv, NEW c \in Creations, CreateTemplate(c) \/ CreateTemplateFails(c)
    PROVE  UnitsAccounted'
<1> SUFFICES ASSUME NEW d \in rows'
             PROVE  LET units == remaining'[d] + Cardinality(Holders(d)')
                    IN  units <= template[d].total /\ template[d].total <= units + faults'
  BY DEF UnitsAccounted, CreateTemplate, CreateTemplateFails
<1>1. Holders(d)' = Holders(d) /\ Cardinality(Holders(d)) \in Nat
  BY HoldersFinite DEF Holders, CreateTemplate, CreateTemplateFails
<1>2. /\ faults \in Nat /\ faults' \in Nat /\ faults' >= faults /\ d \in Creations
      /\ remaining \in [Creations -> Nat] /\ template[d].total \in Nat
  BY BodiesAssumption
     DEF IInv, TypeOK, CreateTemplate, CreateTemplateFails, ApplyTemplate
<1>3. CASE d \in rows
  <2>1. d # c
    BY <1>3 DEF IInv, RowsFirst, CreateTemplate, CreateTemplateFails
  <2>2. remaining'[d] = remaining[d]
    BY <1>2, <2>1 DEF CreateTemplate, CreateTemplateFails, ApplyTemplate
  <2>3. /\ remaining[d] + Cardinality(Holders(d)) <= template[d].total
        /\ template[d].total <= remaining[d] + Cardinality(Holders(d)) + faults
    BY <1>3 DEF IInv, UnitsAccounted
  <2> QED BY <1>1, <1>2, <2>2, <2>3
<1>4. CASE d \notin rows
  <2>1. Holders(d) = {}
    BY <1>4 DEF IInv, RowsFirst, TypeOK, Holders
  <2>2. remaining'[d] = template[d].total
    BY <1>2, <1>4 DEF CreateTemplate, CreateTemplateFails, ApplyTemplate
  <2> QED BY <1>1, <1>2, <2>1, <2>2, FS_EmptySet
<1> QED BY <1>3, <1>4

-----------------------------------------------------------------------------
(* The limit per user. *)

LEMMA TurnsKept ==
    ASSUME IInv, NEW g \in Grants,
           Checks(g) \/ Counts(g) \/ Takes(g) \/ Inserts(g) \/ Leaks(g)
    PROVE  TurnsTaken'
<1> SUFFICES ASSUME NEW c \in Creations, NEW u \in Users, ~Overlapped(c, u)'
             PROVE  /\ Cardinality(CouponsOf(u, c)') <= Limit(c)
                    /\ \A h \in Grants : Busy(h)' /\ want[h] = Pair(c, u) =>
                          /\ Cardinality(CouponsOf(u, c)') < Limit(c)
                          /\ \A k \in Grants : Busy(k)' /\ want[k] = Pair(c, u) => k = h
  BY DEF TurnsTaken, Checks, Counts, Takes, Inserts, Leaks, Moves, Limit, Pair
<1> DEFINE n == Cardinality(CouponsOf(u, c))
<1>1. /\ granted \subseteq Grants /\ call \in [Grants -> CallState]
      /\ Limit(c) \in Nat \ {0} /\ raced \subseteq Grants
      /\ want \in [Grants -> [template : Creations, user : Users]]
  BY LimitType DEF IInv, TypeOK
<1>2. n \in Nat /\ CouponsOf(u, c) \subseteq Grants
  BY <1>1, SubsetsAreFinite DEF CouponsOf
<1>3. raced \subseteq raced' /\ want' = want
  BY DEF Checks, Counts, Takes, Inserts, Leaks, Moves
<1>4. ~Overlapped(c, u)
  BY <1>3 DEF Overlapped
<1>5. /\ n <= Limit(c)
      /\ \A h \in Grants : Busy(h) /\ want[h] = Pair(c, u) =>
            /\ n < Limit(c)
            /\ \A k \in Grants : Busy(k) /\ want[k] = Pair(c, u) => k = h
  BY <1>4 DEF IInv, TurnsTaken
<1>6. \A h \in Grants : h # g => (Busy(h)' <=> Busy(h))
  BY DEF Busy, Checks, Counts, Takes, Inserts, Leaks, Moves
<1>7. CASE Checks(g) \/ Takes(g) \/ Leaks(g)
  <2>1. CouponsOf(u, c)' = CouponsOf(u, c)
    BY <1>3, <1>7 DEF CouponsOf, Checks, Takes, Leaks
  <2>2. Busy(g)' => Busy(g)
    BY <1>7 DEF Busy, Checks, Takes, Leaks, Moves
  <2> QED BY <1>5, <1>6, <2>1, <2>2
<1>8. CASE Counts(g)
  <2>1. CouponsOf(u, c)' = CouponsOf(u, c)
    BY <1>3, <1>8 DEF CouponsOf, Counts
  <2>2. CASE want[g] # Pair(c, u) \/ ~Busy(g)'
    BY <1>5, <1>6, <2>1, <2>2
  <2>3. CASE want[g] = Pair(c, u) /\ Busy(g)'
    <3>1. g \notin raced'
      BY <1>3, <2>3 DEF Overlapped
    <3>2. ~UnderWay(g)
      BY <1>8, <3>1 DEF Counts
    <3>3. \A h \in Grants : Busy(h) /\ want[h] = Pair(c, u) => h = g
      BY <2>3, <3>2 DEF UnderWay, Busy
    <3>4. call'[g].pc = "deduct"
      BY <1>8, <2>3 DEF Counts, Moves, Busy
    <3>5. n < Limit(c)
      BY <1>8, <2>3, <3>4 DEF Counts, Pair
    <3> QED BY <1>5, <1>6, <2>1, <3>3, <3>5
  <2> QED BY <2>2, <2>3
<1>9. CASE Inserts(g)
  <2>1. g \notin granted /\ Busy(g) /\ ~Busy(g)'
    BY <1>9 DEF IInv, RowsFirst, Inserts, Moves, Busy
  <2>2. CASE want[g] # Pair(c, u)
    <3>1. CouponsOf(u, c)' = CouponsOf(u, c)
      BY <1>3, <1>9, <2>2 DEF CouponsOf, Inserts, Pair
    <3> QED BY <1>5, <1>6, <2>1, <3>1
  <2>3. CASE want[g] = Pair(c, u)
    <3>1. CouponsOf(u, c)' = CouponsOf(u, c) \cup {g} /\ g \notin CouponsOf(u, c)
      BY <1>3, <1>9, <2>1, <2>3 DEF CouponsOf, Inserts, Pair
    <3>2. Cardinality(CouponsOf(u, c)') = n + 1
      BY <1>2, <3>1, AddGrant
    <3>3. n < Limit(c) /\ \A h \in Grants : Busy(h) /\ want[h] = Pair(c, u) => h = g
      BY <1>5, <2>1, <2>3
    <3> QED BY <1>1, <1>2, <1>6, <2>1, <3>2, <3>3
  <2> QED BY <2>2, <2>3
<1> QED BY <1>7, <1>8, <1>9

(* Steps that leave every grant alone. *)
LEMMA OtherSteps ==
    ASSUME IInv, UNCHANGED <<template, want, call, granted, raced>>
    PROVE  TurnsTaken'
BY DEF IInv, TurnsTaken, Overlapped, Busy, CouponsOf, Limit, Pair

-----------------------------------------------------------------------------
LEMMA TypeAndRowsKept ==
    ASSUME IInv, NEW g \in Grants,
           Checks(g) \/ Counts(g) \/ Takes(g) \/ Inserts(g) \/ Leaks(g), now' = now
    PROVE  TypeOK' /\ RowsFirst'
<1>1. TypeOK'
  <2> USE DEF IInv, TypeOK, Moves
  <2>1. CASE Checks(g) \/ Counts(g) \/ Leaks(g)
    BY <2>1 DEF Checks, Counts, Leaks
  <2>2. CASE Takes(g)
    BY <2>2 DEF Takes, TakeUnit
  <2>3. CASE Inserts(g)
    BY <2>3 DEF Inserts
  <2> QED BY <2>1, <2>2, <2>3
<1>2. RowsFirst'
  <2>1. /\ RowsFirst /\ call \in [Grants -> CallState] /\ granted \subseteq Grants
        /\ \A h \in Grants : h # g => call'[h] = call[h]
        /\ UNCHANGED <<want, made, rows>>
    BY DEF IInv, TypeOK, Checks, Counts, Takes, Inserts, Leaks, Moves
  <2>2. g \notin granted
    BY DEF IInv, RowsFirst, Checks, Counts, Takes, Inserts, Leaks, Moves
  <2>3. CASE Checks(g)
    BY <2>1, <2>2, <2>3 DEF RowsFirst, Checks, Moves
  <2>4. CASE Counts(g) \/ Takes(g) \/ Leaks(g)
    BY <2>1, <2>2, <2>4 DEF RowsFirst, Counts, Takes, Leaks, Moves
  <2>5. CASE Inserts(g)
    BY <2>1, <2>2, <2>5 DEF RowsFirst, Inserts, Moves
  <2> QED BY <2>3, <2>4, <2>5
<1> QED BY <1>1, <1>2

LEMMA InductiveStep == IInv /\ [Next]_vars => IInv'
<1> SUFFICES ASSUME IInv, [Next]_vars PROVE IInv'
  OBVIOUS
<1>1. ASSUME NEW c \in Creations, CreateTemplate(c) \/ CreateTemplateFails(c)
      PROVE  IInv'
  <2>1. TypeOK'
    <3>1. template[c].total \in Nat /\ faults \in Nat /\ TypeOK
      BY BodiesAssumption DEF IInv, TypeOK
    <3>2. CASE CreateTemplate(c)
      BY <3>1, <3>2 DEF TypeOK, CreateTemplate, ApplyTemplate
    <3>3. CASE CreateTemplateFails(c)
      BY <3>1, <3>3 DEF TypeOK, CreateTemplateFails, ApplyTemplate
    <3> QED BY <1>1, <3>2, <3>3
  <2>2. RowsFirst'
    BY <1>1 DEF IInv, TypeOK, RowsFirst, CreateTemplate, CreateTemplateFails, ApplyTemplate
  <2>3. TurnsTaken'
    BY <1>1, OtherSteps DEF CreateTemplate, CreateTemplateFails
  <2> QED BY <1>1, <2>1, <2>2, <2>3, UnitsOfNewTemplate DEF IInv
<1>2. ASSUME NEW g \in Grants, GrantStep(g) \/ GrantFails(g)
      PROVE  IInv'
  BY <1>2, StepIsMove, TypeAndRowsKept, UnitsKept, TurnsKept DEF IInv
<1>3. CASE Tick
  <2>1. TypeOK' /\ RowsFirst'
    BY <1>3 DEF IInv, TypeOK, RowsFirst, Tick, templates
  <2>2. UnitsAccounted'
    BY <1>3 DEF IInv, UnitsAccounted, Holders, Tick, templates
  <2> QED BY <1>3, <2>1, <2>2, OtherSteps DEF IInv, Tick, templates
<1>4. CASE UNCHANGED vars
  <2>1. TypeOK' /\ RowsFirst'
    BY <1>4 DEF IInv, TypeOK, RowsFirst, vars
  <2>2. UnitsAccounted'
    BY <1>4 DEF IInv, UnitsAccounted, Holders, vars
  <2> QED BY <1>4, <2>1, <2>2, OtherSteps DEF IInv, vars
<1> QED BY <1>1, <1>2, <1>3, <1>4 DEF Next, Quiescent

THEOREM Invariant == Spec => []IInv
BY InitInv, InductiveStep, PTL DEF Spec

(* Every variable keeps its type; in particular no template's remaining_qty *)
(* goes below zero, whatever grants run at once (DeductRemainingQty).       *)
THEOREM TypeCorrect == Spec => []TypeOK
BY Invariant, PTL DEF IInv

(* No template gives out more than its total, and a failed grant costs one *)
(* unit at most (GrantCoupon).                                              *)
THEOREM UnitsAreAccounted == Spec => []UnitsAccounted
BY Invariant, PTL DEF IInv

(* A user holds more coupons than the limit only if two of its grants       *)
(* overlapped between the count and the insert (GrantCoupon).               *)
THEOREM LimitIsKeptInTurn == Spec => []LimitKeptInTurn
<1>1. IInv => LimitKeptInTurn
  BY DEF IInv, TypeOK, TurnsTaken, Overlapped, Pair, LimitKeptInTurn
<1> QED BY <1>1, Invariant, PTL

-----------------------------------------------------------------------------
(* CouponIssue.  Each of the five moves issues a coupon, loses a unit, or   *)
(* changes neither the units left nor the coupons.                          *)

LEMMA LeftType ==
    ASSUME TypeOK, NEW c \in Creations
    PROVE  /\ Inserting(c) \subseteq Grants /\ Cardinality(Inserting(c)) \in Nat
           /\ remaining[c] \in Nat
           /\ Left[c] = remaining[c] + Cardinality(Inserting(c))
BY SubsetsAreFinite DEF TypeOK, Inserting, Left

(* Two templates are told apart by what is left of them. *)
LEMMA LeftChanges ==
    ASSUME TypeOK, NEW c \in Creations, NEW n,
           remaining'[c] + Cardinality(Inserting(c)') = n,
           \A d \in Creations : d # c =>
               remaining'[d] = remaining[d] /\ Inserting(d)' = Inserting(d)
    PROVE  Left' = [Left EXCEPT ![c] = n]
BY DEF Left

LEMMA InsertingMoves ==
    ASSUME TypeOK, NEW g \in Grants, NEW c \in Creations,
           call' \in [Grants -> CallState], want' = want,
           \A h \in Grants : h # g => call'[h] = call[h]
    PROVE  /\ want[g].template # c => Inserting(c)' = Inserting(c)
           /\ (call[g].pc = "create" <=> call'[g].pc = "create")
                 => Inserting(c)' = Inserting(c)
           /\ want[g].template = c /\ call[g].pc # "create" /\ call'[g].pc = "create"
                 => Cardinality(Inserting(c)') = Cardinality(Inserting(c)) + 1
           /\ want[g].template = c /\ call[g].pc = "create" /\ call'[g].pc # "create"
                 => /\ Cardinality(Inserting(c)') = Cardinality(Inserting(c)) - 1
                    /\ Cardinality(Inserting(c)) > 0
<1>1. want[g].template # c \/ (call[g].pc = "create" <=> call'[g].pc = "create")
        => Inserting(c)' = Inserting(c)
  BY DEF Inserting
<1>2. CASE want[g].template = c /\ call[g].pc # "create" /\ call'[g].pc = "create"
  <2>1. Inserting(c)' = Inserting(c) \cup {g} /\ g \notin Inserting(c)
    BY <1>2 DEF Inserting
  <2> QED BY <1>2, <2>1, LeftType, AddGrant
<1>3. CASE want[g].template = c /\ call[g].pc = "create" /\ call'[g].pc # "create"
  <2>1. Inserting(c)' = Inserting(c) \ {g} /\ g \in Inserting(c)
    BY <1>3 DEF Inserting
  <2>2. Cardinality(Inserting(c)') = Cardinality(Inserting(c)) - 1
    BY <2>1, LeftType, RemoveGrant
  <2>3. Cardinality(Inserting(c)') \in Nat
    <3>1. Inserting(c)' \subseteq Grants
      BY <2>1, LeftType
    <3> QED BY <3>1, SubsetsAreFinite
  <2> QED BY <1>3, <2>2, <2>3, LeftType
<1> QED BY <1>1, <1>2, <1>3

LEMMA MoveIsIssueStep ==
    ASSUME IInv, NEW g \in Grants,
           Checks(g) \/ Counts(g) \/ Takes(g) \/ Inserts(g) \/ Leaks(g)
    PROVE  [Issuing!Next]_(Issuing!vars)
<1>1. PICK c \in Creations : c = want[g].template
  BY DEF IInv, TypeOK
<1>2. /\ TypeOK /\ remaining \in [Creations -> Nat]
      /\ UNCHANGED <<template, want, rows>>
      /\ call' \in [Grants -> CallState]
      /\ \A h \in Grants : h # g => call'[h] = call[h]
  BY DEF IInv, TypeOK, Checks, Counts, Takes, Inserts, Leaks, Moves
<1>3. call[g].pc \in {"deduct", "create"} => c \in rows /\ g \notin granted
  BY <1>1 DEF IInv, RowsFirst
<1>4. \A d \in Creations : d # c => Inserting(d)' = Inserting(d)
  BY <1>1, <1>2, InsertingMoves
<1>5. Left[c] = remaining[c] + Cardinality(Inserting(c))
      /\ remaining[c] \in Nat /\ Cardinality(Inserting(c)) \in Nat
  BY <1>2, LeftType
<1>6. ASSUME remaining' = remaining, call[g].pc # "create", call'[g].pc # "create"
      PROVE  Left' = Left
  BY <1>2, <1>6, InsertingMoves DEF Left
<1>7. CASE Checks(g)
  <2>1. UNCHANGED <<Left, granted>> /\ faults' \in {faults, faults + 1}
    BY <1>6, <1>7 DEF Checks, Moves
  <2> QED BY <1>2, <2>1 DEF Issuing!Next, Issuing!vars, Issuing!Fail
<1>8. CASE Counts(g)
  <2>1. UNCHANGED <<Left, granted, faults>>
    BY <1>6, <1>8 DEF Counts, Moves
  <2> QED BY <1>2, <2>1 DEF Issuing!vars
<1>9. ASSUME call[g].pc = "create", call'[g].pc # "create", remaining' = remaining
      PROVE  Left' = [Left EXCEPT ![c] = @ - 1] /\ Left[c] > 0
  <2>1. /\ Cardinality(Inserting(c)') = Cardinality(Inserting(c)) - 1
        /\ Cardinality(Inserting(c)) > 0
    BY <1>1, <1>2, <1>9, InsertingMoves
  <2>2. remaining'[c] + Cardinality(Inserting(c)') = Left[c] - 1
    BY <1>5, <1>9, <2>1
  <2> QED BY <1>2, <1>4, <1>5, <1>9, <2>1, <2>2, LeftChanges
<1>10. CASE Takes(g)
  <2>1. /\ remaining[c] > 0 /\ remaining'[c] = remaining[c] - 1
        /\ \A d \in Creations : d # c => remaining'[d] = remaining[d]
        /\ granted' = granted /\ call[g].pc = "deduct"
    BY <1>1, <1>2, <1>10 DEF Takes, TakeUnit
  <2>2. CASE Moves(g, "create") /\ faults' = faults
    <3>1. Cardinality(Inserting(c)') = Cardinality(Inserting(c)) + 1
      BY <1>1, <1>2, <2>1, <2>2, InsertingMoves DEF Moves
    <3>2. remaining'[c] + Cardinality(Inserting(c)') = Left[c]
      BY <1>5, <2>1, <3>1
    <3>3. Left' = [Left EXCEPT ![c] = Left[c]]
      BY <1>2, <1>4, <2>1, <3>2, LeftChanges
    <3>4. Left' = Left
      BY <3>3 DEF Left
    <3> QED BY <1>2, <2>1, <2>2, <3>4 DEF Issuing!vars
  <2>3. CASE Moves(g, "done") /\ faults' = faults + 1
    <3>1. Inserting(c)' = Inserting(c)
      BY <1>2, <2>1, <2>3, InsertingMoves DEF Moves
    <3>2. remaining'[c] + Cardinality(Inserting(c)') = Left[c] - 1 /\ Left[c] > 0
      BY <1>5, <2>1, <3>1
    <3>3. Left' = [Left EXCEPT ![c] = @ - 1]
      BY <1>2, <1>4, <2>1, <3>2, LeftChanges
    <3> QED BY <1>2, <1>3, <2>1, <2>3, <3>2, <3>3
            DEF Issuing!Next, Issuing!Lose, Issuing!TakeOne
  <2> QED BY <1>10, <2>2, <2>3 DEF Takes
<1>11. CASE Inserts(g)
  <2>1. /\ Left' = [Left EXCEPT ![c] = @ - 1] /\ Left[c] > 0
        /\ granted' = granted \cup {g} /\ call[g].pc = "create"
        /\ faults' \in {faults, faults + 1}
    BY <1>9, <1>11 DEF Inserts, Moves
  <2> QED BY <1>1, <1>2, <1>3, <2>1
          DEF Issuing!Next, Issuing!Issue, Issuing!TakeOne, Issuing!Answer
<1>12. CASE Leaks(g)
  <2>1. /\ Left' = [Left EXCEPT ![c] = @ - 1] /\ Left[c] > 0
        /\ UNCHANGED granted /\ call[g].pc = "create" /\ faults' = faults + 1
    BY <1>9, <1>12 DEF Leaks, Moves
  <2> QED BY <1>2, <1>3, <2>1 DEF Issuing!Next, Issuing!Lose, Issuing!TakeOne
<1> QED BY <1>7, <1>8, <1>10, <1>11, <1>12

(* A template that is published has all its units: no grant was past the    *)
(* read of a template that was not there.                                   *)
LEMMA CreationIsIssueStep ==
    ASSUME IInv, NEW c \in Creations, CreateTemplate(c) \/ CreateTemplateFails(c)
    PROVE  [Issuing!Next]_(Issuing!vars)
<1>1. /\ TypeOK /\ remaining \in [Creations -> Nat]
      /\ UNCHANGED <<template, want, call, granted>>
      /\ faults' \in {faults, faults + 1}
  BY DEF IInv, TypeOK, CreateTemplate, CreateTemplateFails
<1>2. \A d \in Creations : Inserting(d)' = Inserting(d)
  BY <1>1 DEF Inserting
<1>3. CASE ApplyTemplate(c) /\ template[c].end > template[c].start
  <2>1. c \notin rows
    BY DEF IInv, RowsFirst, CreateTemplate, CreateTemplateFails
  <2>2. Inserting(c) = {}
    BY <2>1 DEF IInv, RowsFirst, Inserting
  <2>3. remaining'[c] + Cardinality(Inserting(c)') = template[c].total
    <3>1. remaining'[c] = template[c].total /\ template[c].total \in Nat
      BY <1>1, <1>3, BodiesAssumption DEF TypeOK, ApplyTemplate
    <3> QED BY <1>2, <2>2, <3>1, FS_EmptySet
  <2>4. \A d \in Creations : d # c => remaining'[d] = remaining[d]
    BY <1>1, <1>3 DEF ApplyTemplate
  <2>5. Left' = [Left EXCEPT ![c] = template[c].total]
    BY <1>1, <1>2, <2>3, <2>4, LeftChanges
  <2>6. template[c].start < template[c].end
    BY <1>1, <1>3, BodiesAssumption DEF TypeOK
  <2>7. rows' = rows \cup {c}
    BY <1>3 DEF ApplyTemplate
  <2> QED BY <1>1, <2>1, <2>5, <2>6, <2>7 DEF Issuing!Next, Issuing!Publish, Issuing!Answer
<1>4. CASE UNCHANGED <<rows, remaining>>
  <2>1. Left' = Left
    BY <1>2, <1>4 DEF Left
  <2> QED BY <1>1, <1>4, <2>1 DEF Issuing!Next, Issuing!vars, Issuing!Fail
<1> QED BY <1>3, <1>4 DEF CreateTemplate, CreateTemplateFails

(* The statements of GrantCoupon, which commit one by one while other       *)
(* grants run, fail and lose their answers, amount to coupons issued in one *)
(* step with their unit, and units lost one at most by each failure.        *)
THEOREM ImplementsCouponIssue == Spec => GrantsAreIssues
<1>1. Init => Issuing!Init
  <2> SUFFICES ASSUME Init PROVE Issuing!Init
    OBVIOUS
  <2>1. \A c \in Creations : Inserting(c) = {}
    BY DEF Init, Inserting
  <2>2. Left = [c \in Creations |-> 0]
    <3>1. \A c \in Creations : remaining[c] = 0
      BY DEF Init
    <3>2. \A c \in Creations : Cardinality(Inserting(c)) = 0
      BY <2>1, FS_EmptySet
    <3> QED BY <3>1, <3>2 DEF Left
  <2> QED BY <2>2 DEF Init, Issuing!Init
<1>2. IInv /\ [Next]_vars => [Issuing!Next]_(Issuing!vars)
  <2> SUFFICES ASSUME IInv, [Next]_vars PROVE [Issuing!Next]_(Issuing!vars)
    OBVIOUS
  <2>1. CASE Tick \/ UNCHANGED vars
    <3>1. UNCHANGED <<template, want, rows, remaining, call, granted, faults>>
      BY <2>1 DEF Tick, vars, templates
    <3>2. Left' = Left
      BY <3>1 DEF Left, Inserting
    <3> QED BY <3>1, <3>2 DEF Issuing!vars
  <2> QED BY <2>1, CreationIsIssueStep, StepIsMove, MoveIsIssueStep DEF Next, Quiescent
<1> QED BY <1>1, <1>2, Invariant, PTL DEF Spec, GrantsAreIssues, Issuing!Spec
=============================================================================
