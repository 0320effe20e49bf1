--------------------------- MODULE ListingsProofs ---------------------------
(* Proofs about Listings for every finite set of rows, every page size and  *)
(* every run of the clock: types, and that a walk misses nothing and sees    *)
(* nothing twice but for the reasons its properties name.  The argument is   *)
(* about how many newer rows stand before a row in the list: that number     *)
(* only grows while nothing leaves, and only shrinks while nothing joins.    *)
EXTENDS Listings, FiniteSetTheorems, TLAPS

Newer(r) == {q \in Listed : stamp[q] > stamp[r]}

WalkOK ==
    /\ walk.pc = "idle" => seen = {} /\ twice = {}
    /\ Walking => walk.page >= 1 /\ walk.size # 0
    /\ Walking /\ walk.size < 0 => seen = {}

(* A row of the beginning not seen yet has not been passed by the offset,    *)
(* and a total without an insert since is not too small.                     *)
Unmissed ==
    Untied /\ moved.left = {} =>
        /\ Walking => start \subseteq Listed
        /\ Walking /\ walk.size > 0 =>
              \A r \in start : r \in seen \/ Cardinality(Newer(r)) >= Offset
        /\ walk.pc = "find" /\ ~moved.between => walk.total >= Cardinality(Listed)
        /\ NothingMissed

(* A row that was seen stands before the offset. *)
Unrepeated ==
    Untied /\ moved.joined = {} =>
        /\ twice = {}
        /\ Walking /\ walk.size > 0 =>
              \A r \in seen \cap Listed : Cardinality(Newer(r)) < Offset

IInv == TypeOK /\ WalkOK /\ Unmissed /\ Unrepeated

-----------------------------------------------------------------------------
(* Sets of rows. *)

LEMMA RowSets ==
    ASSUME NEW S, S \subseteq Rows
    PROVE  IsFiniteSet(S) /\ Cardinality(S) \in Nat
BY RowsAssumption, FS_Subset, FS_CardinalityType

LEMMA SmallerSet ==
    ASSUME NEW S, S \subseteq Rows, NEW T, T \subseteq S
    PROVE  Cardinality(T) <= Cardinality(S)
BY RowSets, FS_Subset

LEMMA StrictlySmaller ==
    ASSUME NEW S, S \subseteq Rows, NEW T, T \subseteq S, NEW x \in S, x \notin T
    PROVE  Cardinality(T) < Cardinality(S)
BY RowSets, FS_Subset

(* The rows of one page, when rows D are skipped before it.  A row with at   *)
(* least offset newer rows is not skipped; not on the page either, it has    *)
(* the rows of both before it; on the page, it does not.                     *)
LEMMA PageFacts ==
    ASSUME TypeOK, Untied, NEW offset \in Nat, NEW size \in Nat,
           NEW D \in Newest(Listed, offset), NEW P \in Newest(Listed \ D, size),
           NEW r \in Listed
    PROVE  /\ Cardinality(Newer(r)) >= offset => r \notin D
           /\ r \notin D \cup P => /\ Cardinality(Newer(r)) >= offset + size
                                 /\ Cardinality(P) = size
           /\ r \in P => /\ Cardinality(Newer(r)) >= offset
                         /\ Cardinality(Newer(r)) < offset + size
<1> DEFINE L == Listed
           before == Newer(r)
<1>0. /\ L \subseteq Rows /\ before = {q \in L : stamp[q] > stamp[r]}
      /\ \A p, q \in L : stamp[p] = stamp[q] => p = q
      /\ D \in Newest(L, offset) /\ P \in Newest(L \ D, size) /\ r \in L
  BY DEF Newer, Untied, Listed
<1> HIDE DEF L, before
<1>a. /\ D \subseteq L /\ P \subseteq L \ D
      /\ \A d \in D, q \in L \ D : stamp[q] <= stamp[d]
      /\ \A p \in P, q \in (L \ D) \ P : stamp[q] <= stamp[p]
  BY <1>0 DEF Newest
<1>1. /\ Cardinality(D) = IF offset < Cardinality(L) THEN offset ELSE Cardinality(L)
      /\ Cardinality(P) = IF size < Cardinality(L \ D) THEN size ELSE Cardinality(L \ D)
  BY <1>0 DEF Newest
<1>2. /\ Cardinality(L) \in Nat /\ Cardinality(D) \in Nat /\ Cardinality(P) \in Nat
      /\ Cardinality(L \ D) \in Nat /\ Cardinality(before) \in Nat
      /\ Cardinality(D \cup P) \in Nat
  BY <1>0, <1>a, RowSets
<1>3. Cardinality(D \cup P) = Cardinality(D) + Cardinality(P)
  <2>1. D \cap P = {} /\ IsFiniteSet(D) /\ IsFiniteSet(P)
    BY <1>0, <1>a, RowSets
  <2>2. Cardinality(D \cup P) = Cardinality(D) + Cardinality(P) - Cardinality(D \cap P)
    BY <2>1, FS_Union
  <2>3. Cardinality({}) = 0
    BY FS_EmptySet
  <2>4. Cardinality(D \cap P) = 0
    BY <2>1, <2>3
  <2> QED BY <1>2, <2>2, <2>4
<1>4. \A q \in L : stamp[q] \in Nat
  BY <1>0 DEF TypeOK
<1>5. Cardinality(D) <= offset /\ Cardinality(P) <= size
  BY <1>1, <1>2
<1>6. r \notin D => Cardinality(D) = offset
  <2>1. r \notin D => Cardinality(D) < Cardinality(L)
    BY <1>0, <1>a, StrictlySmaller
  <2> QED BY <1>1, <1>2, <2>1
<1>7. r \notin D \cup P => Cardinality(P) = size
  <2>1. r \notin D \cup P => Cardinality(P) < Cardinality(L \ D)
    BY <1>0, <1>a, StrictlySmaller
  <2> QED BY <1>1, <1>2, <2>1
<1>8. Cardinality(before) >= offset => r \notin D
  <2> SUFFICES ASSUME r \in D PROVE Cardinality(before) < offset
    BY <1>2
  <2>1. before \subseteq D /\ r \notin before
    BY <1>0, <1>a, <1>4
  <2>2. Cardinality(before) < Cardinality(D)
    BY <1>0, <1>a, <2>1, StrictlySmaller
  <2> QED BY <1>2, <1>5, <2>2
<1>9. ASSUME r \notin D \cup P
      PROVE  Cardinality(before) >= offset + size
  <2>1. D \cup P \subseteq before
    BY <1>0, <1>a, <1>4, <1>9
  <2>2. Cardinality(D \cup P) <= Cardinality(before)
    BY <1>0, <2>1, SmallerSet
  <2> QED BY <1>2, <1>3, <1>6, <1>7, <1>9, <2>2
<1>10. ASSUME r \in P PROVE Cardinality(before) < offset + size
  <2>1. before \subseteq D \cup P /\ r \notin before
    BY <1>0, <1>a, <1>4, <1>10
  <2>2. Cardinality(before) < Cardinality(D \cup P)
    BY <1>0, <1>a, <1>10, <2>1, StrictlySmaller
  <2> QED BY <1>2, <1>3, <1>5, <2>2
<1>11. ASSUME r \in P
       PROVE  Cardinality(before) >= offset
  <2>1. D \subseteq before
    BY <1>0, <1>a, <1>4, <1>11
  <2>2. Cardinality(D) <= Cardinality(before)
    BY <1>0, <2>1, SmallerSet
  <2> QED BY <1>0, <1>a, <1>2, <1>6, <1>11, <2>2
<1> QED BY <1>7, <1>8, <1>9, <1>10, <1>11 DEF before

-----------------------------------------------------------------------------
(* Types. *)
LEMMA InitInv == Init => IInv
<1> SUFFICES ASSUME Init PROVE IInv
  OBVIOUS
<1>1. TypeOK
  BY SizesAssumption DEF Init, TypeOK, Walk, Moves
<1> QED BY <1>1 DEF Init, IInv, WalkOK, Unmissed, Unrepeated, NothingMissed, Walking

LEMMA TypeStep == TypeOK /\ [Next]_vars => TypeOK'
<1> SUFFICES ASSUME TypeOK, [Next]_vars PROVE TypeOK'
  OBVIOUS
<1> USE DEF TypeOK
<1>1. Cardinality(Listed) \in Nat
  BY RowSets DEF Listed
<1>2. ASSUME NEW r \in Rows, Join(r) PROVE TypeOK'
  <2>1. moved' \in Moves
    <3>1. moved.joined \cup {r} \in SUBSET Rows /\ (moved.between \/ walk.pc = "find") \in BOOLEAN
      BY DEF Moves
    <3>2. \A S \in SUBSET Rows, b \in BOOLEAN :
            [moved EXCEPT !.joined = S, !.between = b] \in Moves
      BY DEF Moves
    <3> QED BY <1>2, <3>1, <3>2 DEF Join
  <2> QED BY <1>2, <2>1 DEF Join
<1>3. ASSUME NEW r \in Rows, Hide(r) PROVE TypeOK'
  <2>1. moved' \in Moves
    <3>1. moved.left \cup {r} \in SUBSET Rows
      BY DEF Moves
    <3>2. \A S \in SUBSET Rows : [moved EXCEPT !.left = S] \in Moves
      BY DEF Moves
    <3> QED BY <1>3, <3>1, <3>2 DEF Hide
  <2> QED BY <1>3, <2>1 DEF Hide
<1>4. ASSUME NEW r \in Rows, SetStamp(r) \/ CreateFails(r) PROVE TypeOK'
  BY <1>4 DEF SetStamp, CreateFails, past
<1>5. ASSUME NEW size \in Sizes, Ask(size) PROVE TypeOK'
  <2>1. ASSUME NEW n \in Int, NEW ok \in BOOLEAN, Begin(n, ok),
               ok => n <= MaxSize \/ n <= MaxCouponSize \/ n = DefaultSize
        PROVE  TypeOK'
    <3>0. \/ walk' = [walk EXCEPT !.pc = "refused"]
          \/ ok /\ walk' = [walk EXCEPT !.pc = "count", !.size = n, !.page = 1]
      BY <2>1 DEF Begin
    <3>1. walk' \in Walk
      <4>1. \A m \in Int :
              [walk EXCEPT !.pc = "count", !.size = m, !.page = 1] \in Walk
        BY DEF Walk
      <4>2. [walk EXCEPT !.pc = "refused"] \in Walk
        BY DEF Walk
      <4> QED BY <3>0, <4>1, <4>2
    <3>2. walk'.size = walk.size \/ (ok /\ walk'.size = n)
      BY <3>0 DEF Walk
    <3>3. walk'.size <= MaxSize \/ walk'.size <= MaxCouponSize \/ walk'.size = DefaultSize
      BY <2>1, <3>2
    <3> QED BY <2>1, <3>1, <3>3 DEF Begin, table, Listed
  <2>2. size \in Int /\ CouponSize(size) \in Int /\ Accepted(size) \in BOOLEAN
        /\ (0 <= size /\ size <= MaxCouponSize) \in BOOLEAN
    BY SizesAssumption DEF CouponSize, Accepted
  <2>3. Accepted(size) => size <= MaxSize
    BY DEF Accepted
  <2>4. 0 <= size /\ size <= MaxCouponSize =>
          CouponSize(size) <= MaxCouponSize \/ CouponSize(size) = DefaultSize
    BY DEF CouponSize
  <2> QED BY <1>5, <2>1, <2>2, <2>3, <2>4
        DEF Ask, ListShops, ListOrders, ListProducts, ListUserCoupons
<1>6. CASE CountRows
  BY <1>1, <1>6 DEF CountRows, Walk, table, past
<1>7. CASE FindPage
  <2>1. walk' = [walk EXCEPT !.pc = "done"]
        \/ walk' = [walk EXCEPT !.pc = "count", !.page = walk.page + 1]
    BY <1>7 DEF FindPage
  <2>2. walk.page + 1 \in Nat
    BY DEF Walk
  <2>3. \A n \in Nat : [walk EXCEPT !.pc = "count", !.page = n] \in Walk
    BY DEF Walk
  <2>4. walk' \in Walk /\ walk'.size = walk.size
    BY <2>1, <2>2, <2>3 DEF Walk
  <2> QED BY <1>7, <2>4 DEF FindPage, table, Listed
<1>8. CASE QueryFails
  BY <1>8 DEF QueryFails, Walk, table, past
<1>9. CASE Tick \/ Quiescent \/ UNCHANGED vars
  BY <1>9 DEF Tick, Quiescent, vars, past
<1> QED
  BY <1>2, <1>3, <1>4, <1>5, <1>6, <1>7, <1>8, <1>9
     DEF Next, Insert, CreateShop, CreateOrder, CreateUserCoupon, CreateProduct, ChangeStatus

-----------------------------------------------------------------------------
(* The table's steps. *)

(* What joins the list only puts rows before others. *)
LEMMA JoinKeeps ==
    ASSUME IInv, TypeOK', NEW r \in Rows, Join(r), row[r] # "none"
    PROVE  IInv'
<1>1. /\ Listed' = Listed \cup {r} /\ Listed \subseteq Rows
      /\ UNCHANGED <<stamp, walk, start, seen, twice>> /\ Walking' = Walking
  BY DEF Join, Listed, IInv, TypeOK, Walking
<1>2. Untied' => Untied
  BY <1>1 DEF Untied, Join, IInv, TypeOK
<1>3. WalkOK'
  BY <1>1 DEF IInv, WalkOK, Walking
<1>4. Walking => moved'.joined # {} /\ moved'.left = moved.left
                 /\ (walk.pc = "find" => moved'.between)
  BY DEF Join, IInv, TypeOK, Moves
<1>5. ~Walking => moved' = moved
  BY DEF Join
<1>6. Unrepeated'
  BY <1>1, <1>2, <1>4, <1>5 DEF IInv, Unrepeated
<1>7. ASSUME Walking PROVE Unmissed'
  <2>1. ASSUME Untied', moved'.left = {}
        PROVE  /\ start \subseteq Listed'
               /\ walk.size > 0 =>
                    \A q \in start : q \in seen \/ Cardinality(Newer(q)') >= Offset
    <3>1. Untied /\ moved.left = {}
      BY <1>2, <1>4, <1>7, <2>1
    <3>2. start \subseteq Listed
      BY <1>7, <3>1 DEF IInv, Unmissed
    <3>3. ASSUME NEW q \in start
          PROVE  /\ Cardinality(Newer(q)) <= Cardinality(Newer(q)')
                 /\ Cardinality(Newer(q)) \in Nat /\ Cardinality(Newer(q)') \in Nat
      <4>1. Newer(q) \subseteq Newer(q)' /\ Newer(q)' \subseteq Rows
        BY <1>1 DEF Newer
      <4> QED BY <4>1, SmallerSet, RowSets
    <3>4. walk.size > 0 => Offset \in Int
      BY DEF Offset, IInv, TypeOK, Walk
    <3>5. walk.size > 0 => \A q \in start : q \in seen \/ Cardinality(Newer(q)) >= Offset
      BY <1>7, <3>1 DEF IInv, Unmissed
    <3> QED BY <1>1, <3>2, <3>3, <3>4, <3>5
  <2>2. Offset' = Offset
    BY <1>1 DEF Offset
  <2>3. NothingMissed'
    BY <1>1, <1>7 DEF NothingMissed, Walking
  <2>4. ~(walk'.pc = "find" /\ ~moved'.between)
    BY <1>1, <1>4, <1>7
  <2> QED BY <1>1, <2>1, <2>2, <2>3, <2>4 DEF Unmissed
<1>8. ASSUME ~Walking PROVE Unmissed'
  <2>1. ASSUME Untied', moved'.left = {} PROVE NothingMissed'
    <3>1. Untied /\ moved.left = {} /\ NothingMissed
      BY <1>2, <1>5, <1>8, <2>1 DEF IInv, Unmissed
    <3> QED BY <1>1, <1>5, <1>8, <3>1 DEF NothingMissed
  <2>2. ~Walking' /\ walk'.pc # "find"
    BY <1>1, <1>8 DEF Walking
  <2> QED BY <2>1, <2>2 DEF Unmissed
<1> QED BY <1>3, <1>6, <1>7, <1>8 DEF IInv

(* What leaves it only takes rows from before others. *)
LEMMA HideKeeps ==
    ASSUME IInv, TypeOK', NEW r \in Rows, Hide(r), row[r] # "none"
    PROVE  IInv'
<1>1. /\ Listed' \subseteq Listed /\ Listed \subseteq Rows
      /\ UNCHANGED <<stamp, walk, start, seen, twice>> /\ Walking' = Walking
  BY DEF Hide, Listed, IInv, TypeOK, Walking
<1>2. Untied' => Untied
  BY <1>1 DEF Untied, Hide, IInv, TypeOK
<1>3. WalkOK'
  BY <1>1 DEF IInv, WalkOK, Walking
<1>4. Walking => moved'.left # {} /\ moved'.joined = moved.joined
  BY DEF Hide, IInv, TypeOK, Moves
<1>5. ~Walking => moved' = moved
  BY DEF Hide
<1>6. Unmissed'
  <2>1. ~Walking /\ NothingMissed /\ Untied' => NothingMissed'
    BY <1>1, <1>2, <1>5 DEF NothingMissed
  <2> QED BY <1>1, <1>2, <1>4, <1>5, <2>1 DEF IInv, Unmissed, Walking
<1>7. Unrepeated'
  <2> SUFFICES ASSUME Untied', moved'.joined = {} PROVE Unrepeated'
    BY DEF Unrepeated
  <2>1. Untied /\ moved.joined = {} /\ twice = {}
    BY <1>2, <1>4, <1>5 DEF IInv, Unrepeated
  <2>2. ASSUME NEW q \in Listed
        PROVE  /\ Cardinality(Newer(q)') <= Cardinality(Newer(q))
               /\ Cardinality(Newer(q)) \in Nat /\ Cardinality(Newer(q)') \in Nat
    <3>1. Newer(q)' \subseteq Newer(q) /\ Newer(q) \subseteq Rows
      BY <1>1 DEF Newer
    <3> QED BY <3>1, SmallerSet, RowSets
  <2>3. Offset' = Offset /\ (walk.size > 0 => Offset \in Int)
    BY <1>1 DEF Offset, IInv, TypeOK, Walk
  <2>4. Walking /\ walk.size > 0 =>
          \A q \in seen \cap Listed' : Cardinality(Newer(q)') < Offset
    BY <1>1, <2>1, <2>2, <2>3 DEF IInv, Unrepeated
  <2> QED BY <1>1, <2>1, <2>3, <2>4 DEF Unrepeated
<1> QED BY <1>3, <1>6, <1>7 DEF IInv

(* Steps that leave the list, the walk and its history alone. *)
LEMMA AsideKeeps ==
    ASSUME IInv, TypeOK', UNCHANGED <<walk, past>>, Listed' = Listed, Untied' => Untied,
           \A q \in Listed : stamp'[q] = stamp[q]
    PROVE  IInv'
<1>1. \A q \in Listed : Newer(q)' = Newer(q)
  BY DEF Newer
<1>2. Walking' = Walking /\ Offset' = Offset
  BY DEF Walking, Offset
<1>3. WalkOK'
  BY <1>2 DEF IInv, WalkOK, past
<1>4. Unmissed'
  <2>1. NothingMissed /\ Untied' => NothingMissed'
    BY DEF NothingMissed, past
  <2> QED BY <1>1, <1>2, <2>1 DEF IInv, Unmissed, past
<1>5. Unrepeated'
  BY <1>1, <1>2 DEF IInv, Unrepeated, past
<1> QED BY <1>3, <1>4, <1>5 DEF IInv

LEMMA StampKeeps ==
    ASSUME IInv, TypeOK', NEW r \in Rows, SetStamp(r) \/ CreateFails(r)
    PROVE  IInv'
<1>1. Listed' = Listed /\ UNCHANGED <<walk, past>>
  BY DEF SetStamp, CreateFails, Listed, IInv, TypeOK
<1>2. \A q \in Listed : stamp'[q] = stamp[q]
  BY DEF SetStamp, CreateFails, Listed, IInv, TypeOK
<1>3. Untied' => Untied
  BY DEF SetStamp, CreateFails, Untied, IInv, TypeOK
<1> QED BY <1>1, <1>2, <1>3, AsideKeeps

-----------------------------------------------------------------------------
(* The walk's steps. *)

LEMMA BeginKeeps ==
    ASSUME IInv, TypeOK', NEW n \in Int, NEW ok \in BOOLEAN, Begin(n, ok), ok => n # 0
    PROVE  IInv'
<1>1. /\ UNCHANGED <<row, stamp, seen, twice, moved>> /\ seen = {} /\ twice = {}
      /\ Listed' = Listed
  BY DEF Begin, table, IInv, WalkOK, Listed
<1>2. CASE walk' = [walk EXCEPT !.pc = "count", !.size = n, !.page = 1] /\ start' = Listed /\ ok
  <2>1. /\ walk'.pc = "count" /\ walk'.size = n /\ walk'.page = 1 /\ n # 0
        /\ Offset' = 0 /\ Walking'
    BY <1>2 DEF IInv, TypeOK, Walk, Offset, Walking
  <2>2. WalkOK'
    BY <1>1, <2>1 DEF WalkOK
  <2>3. \A q \in Listed : Cardinality(Newer(q)') \in Nat
    <3>1. \A q \in Listed : Newer(q)' \subseteq Rows
      BY <1>1 DEF Newer, Listed
    <3> QED BY <3>1, RowSets
  <2>4. Unmissed'
    BY <1>1, <1>2, <2>1, <2>3 DEF Unmissed, NothingMissed
  <2>5. Unrepeated'
    BY <1>1, <2>1 DEF Unrepeated
  <2> QED BY <2>2, <2>4, <2>5 DEF IInv
<1>3. CASE walk' = [walk EXCEPT !.pc = "refused"] /\ start' = start
  <2>1. walk'.pc = "refused" /\ ~Walking'
    BY <1>3 DEF IInv, TypeOK, Walk, Walking
  <2> QED BY <1>1, <2>1 DEF IInv, WalkOK, Unmissed, Unrepeated, NothingMissed
<1> QED BY <1>2, <1>3 DEF Begin

LEMMA AskKeeps ==
    ASSUME IInv, TypeOK', NEW size \in Sizes, Ask(size)
    PROVE  IInv'
<1>1. size \in Int /\ CouponSize(size) \in Int /\ Accepted(size) \in BOOLEAN
      /\ (0 <= size /\ size <= MaxCouponSize) \in BOOLEAN
  BY SizesAssumption DEF CouponSize, Accepted
<1>2. (Accepted(size) => size # 0) /\ CouponSize(size) # 0
  BY SizesAssumption DEF Accepted, CouponSize
<1> QED BY <1>1, <1>2, BeginKeeps
      DEF Ask, ListShops, ListOrders, ListProducts, ListUserCoupons

LEMMA CountKeeps == IInv /\ TypeOK' /\ CountRows => IInv'
<1> SUFFICES ASSUME IInv, TypeOK', CountRows PROVE IInv'
  OBVIOUS
<1>1. /\ UNCHANGED <<row, stamp, start, seen, twice, moved>> /\ Listed' = Listed
      /\ walk'.pc = "find" /\ walk'.total = Cardinality(Listed)
      /\ walk'.size = walk.size /\ walk'.page = walk.page
      /\ Walking /\ Walking' /\ Offset' = Offset /\ Untied' = Untied
      /\ Cardinality(Listed) \in Nat
  BY RowSets DEF CountRows, table, past, IInv, TypeOK, Walk, Walking, Offset, Listed, Untied
<1>2. \A q \in Rows : Newer(q)' = Newer(q)
  BY <1>1 DEF Newer
<1>3. WalkOK'
  BY <1>1 DEF IInv, WalkOK
<1>4. Unmissed'
  BY <1>1, <1>2 DEF IInv, TypeOK, Unmissed, NothingMissed
<1>5. Unrepeated'
  BY <1>1, <1>2 DEF IInv, TypeOK, Unrepeated
<1> QED BY <1>3, <1>4, <1>5 DEF IInv

LEMMA FailKeeps == IInv /\ TypeOK' /\ QueryFails => IInv'
<1> SUFFICES ASSUME IInv, TypeOK', QueryFails PROVE IInv'
  OBVIOUS
<1>1. /\ UNCHANGED <<row, stamp, start, seen, twice, moved>>
      /\ walk'.pc = "failed" /\ ~Walking' /\ Untied' = Untied
  BY DEF QueryFails, table, past, IInv, TypeOK, Walk, Walking, Untied
<1> QED BY <1>1 DEF IInv, WalkOK, Unmissed, Unrepeated, NothingMissed

LEMMA FindKeeps == IInv /\ TypeOK' /\ FindPage => IInv'
<1> SUFFICES ASSUME IInv, TypeOK', FindPage PROVE IInv'
  OBVIOUS
<1>1. PICK S \in SUBSET Listed :
        /\ IsPage(S)
        /\ seen' = seen \cup S /\ twice' = twice \cup (seen \cap S)
        /\ walk' = IF Last(S) THEN [walk EXCEPT !.pc = "done"]
                   ELSE [walk EXCEPT !.pc = "count", !.page = walk.page + 1]
  BY DEF FindPage
<1>2. /\ UNCHANGED <<row, stamp, start, moved>> /\ Listed' = Listed /\ Untied' = Untied
      /\ walk.pc = "find" /\ Walking /\ Listed \subseteq Rows
  BY DEF FindPage, table, Listed, Untied, Walking
<1>3. \A r \in Rows : Newer(r)' = Newer(r)
  BY <1>2 DEF Newer
<1>4. /\ walk.page \in Nat /\ walk.page >= 1 /\ walk.size \in Int /\ walk.size # 0
      /\ walk.total \in Nat /\ walk.until \in {"short", "total"}
      /\ seen \subseteq Rows /\ start \subseteq Rows
  BY <1>2 DEF IInv, TypeOK, WalkOK, Walk
<1>5. ASSUME walk.size > 0
      PROVE  Offset \in Nat /\ Offset + walk.size = walk.page * walk.size
  <2>1. \A a, b \in Nat : a * b \in Nat
    OBVIOUS
  <2>2. Offset \in Nat
    BY <1>4, <1>5, <2>1 DEF Offset
  <2> QED BY <1>4, <2>2 DEF Offset
<1>6. ASSUME walk.size > 0, Untied, NEW r \in Listed
      PROVE  /\ Cardinality(Newer(r)) \in Nat
             /\ r \notin seen \cup S /\ Cardinality(Newer(r)) >= Offset =>
                  /\ Cardinality(Newer(r)) >= walk.page * walk.size
                  /\ Cardinality(S) = walk.size
             /\ r \in S => /\ Cardinality(Newer(r)) >= Offset
                         /\ Cardinality(Newer(r)) < walk.page * walk.size
  <2>1. walk.size \in Nat /\ Offset \in Nat /\ Offset + walk.size = walk.page * walk.size
    BY <1>4, <1>5, <1>6
  <2>2. PICK D \in Newest(Listed, Offset) : S \in Newest(Listed \ D, walk.size)
    BY <1>1, <1>4, <1>6 DEF IsPage
  <2>3. Newer(r) \subseteq Rows
    BY <1>2 DEF Newer
  <2>4. /\ Cardinality(Newer(r)) >= Offset => r \notin D
        /\ r \notin D \cup S => /\ Cardinality(Newer(r)) >= Offset + walk.size
                              /\ Cardinality(S) = walk.size
        /\ r \in S => /\ Cardinality(Newer(r)) >= Offset
                      /\ Cardinality(Newer(r)) < Offset + walk.size
    BY <1>6, <2>1, <2>2, PageFacts DEF IInv
  <2> QED BY <2>1, <2>3, <2>4, RowSets
<1>7. Untied /\ moved.joined = {} => twice' = {}
  <2>1. ASSUME Untied, moved.joined = {} PROVE seen \cap S = {}
    <3>1. CASE walk.size < 0
      BY <1>2, <3>1 DEF IInv, WalkOK
    <3>2. ASSUME walk.size > 0, NEW r \in seen \cap S PROVE FALSE
      <4>1. Cardinality(Newer(r)) < Offset
        BY <1>2, <2>1, <3>2 DEF IInv, Unrepeated
      <4>2. Cardinality(Newer(r)) >= Offset /\ Cardinality(Newer(r)) \in Nat
        BY <1>6, <2>1, <3>2
      <4> QED BY <1>5, <3>2, <4>1, <4>2
    <3> QED BY <1>4, <3>1, <3>2
  <2> QED BY <1>1, <2>1 DEF IInv, Unrepeated
<1>8. CASE Last(S)
  <2>1. walk'.pc = "done" /\ walk'.until = walk.until /\ ~Walking'
    BY <1>1, <1>8 DEF IInv, TypeOK, Walk, Walking
  <2>2. ASSUME Untied, moved.left = {}, walk.until = "short" \/ ~moved.between,
               NEW r \in start
        PROVE  r \in seen \cup S
    <3>1. r \in Listed
      BY <1>2, <2>2 DEF IInv, Unmissed
    <3>2. CASE walk.size < 0
      BY <1>1, <3>1, <3>2 DEF IsPage
    <3>3. ASSUME walk.size > 0, r \notin seen \cup S PROVE FALSE
      <4>1. Cardinality(Newer(r)) >= Offset
        BY <1>2, <2>2, <3>3 DEF IInv, Unmissed
      <4>2. /\ Cardinality(Newer(r)) >= walk.page * walk.size /\ Cardinality(S) = walk.size
            /\ Cardinality(Newer(r)) \in Nat
        BY <1>6, <2>2, <3>1, <3>3, <4>1
      <4>3. walk.until = "total" /\ walk.page * walk.size >= walk.total
        BY <1>4, <1>8, <3>3, <4>2 DEF Last
      <4>4. walk.total >= Cardinality(Listed)
        BY <1>2, <2>2, <4>3 DEF IInv, Unmissed
      <4>5. Cardinality(Newer(r)) < Cardinality(Listed) /\ Cardinality(Listed) \in Nat
        <5>1. Newer(r) \subseteq Listed /\ r \notin Newer(r)
          BY <1>2, <3>1 DEF Newer, IInv, TypeOK
        <5> QED BY <1>2, <3>1, <5>1, StrictlySmaller, RowSets
      <4>6. walk.page * walk.size \in Int
        BY <1>4
      <4> QED BY <1>4, <4>2, <4>3, <4>4, <4>5, <4>6
    <3> QED BY <1>4, <3>2, <3>3
  <2>3. Unmissed'
    BY <1>1, <1>2, <2>1, <2>2 DEF Unmissed, NothingMissed
  <2>4. WalkOK'
    BY <2>1 DEF WalkOK
  <2>5. Unrepeated'
    BY <1>2, <1>7, <2>1 DEF Unrepeated
  <2> QED BY <2>3, <2>4, <2>5 DEF IInv
<1>9. CASE ~Last(S)
  <2>1. /\ walk'.pc = "count" /\ walk'.page = walk.page + 1 /\ walk'.size = walk.size
        /\ walk.size > 0 /\ Walking'
    BY <1>1, <1>4, <1>9 DEF IInv, TypeOK, Walk, Walking, Last
  <2>2. Offset' = walk.page * walk.size /\ walk.page * walk.size \in Nat
        /\ Offset \in Nat /\ Offset <= Offset'
    BY <1>4, <1>5, <2>1 DEF Offset
  <2>3. WalkOK'
    BY <1>4, <2>1 DEF WalkOK
  <2>4. Unmissed'
    <3>1. ASSUME Untied, moved.left = {}, NEW r \in start
          PROVE  r \in Listed /\ (r \in seen' \/ Cardinality(Newer(r)) >= Offset')
      <4>1. r \in Listed /\ (r \in seen \/ Cardinality(Newer(r)) >= Offset)
        BY <1>2, <2>1, <3>1 DEF IInv, Unmissed
      <4> QED BY <1>1, <1>6, <2>1, <2>2, <3>1, <4>1
    <3>2. NothingMissed'
      BY <2>1 DEF NothingMissed
    <3> QED BY <1>2, <1>3, <1>4, <2>1, <3>1, <3>2 DEF Unmissed
  <2>5. Unrepeated'
    <3>1. ASSUME Untied, moved.joined = {}, NEW r \in seen' \cap Listed
          PROVE  Cardinality(Newer(r)) < Offset'
      <4>1. r \in seen => Cardinality(Newer(r)) < Offset
        BY <1>2, <2>1, <3>1 DEF IInv, Unrepeated
      <4>2. r \in S => Cardinality(Newer(r)) < Offset'
        BY <1>6, <2>1, <2>2, <3>1
      <4>3. Cardinality(Newer(r)) \in Nat
        BY <1>6, <2>1, <3>1
      <4> QED BY <1>1, <2>2, <3>1, <4>1, <4>2, <4>3
    <3> QED BY <1>2, <1>3, <1>7, <2>1, <3>1 DEF Unrepeated
  <2> QED BY <2>3, <2>4, <2>5 DEF IInv
<1> QED BY <1>8, <1>9

-----------------------------------------------------------------------------
LEMMA NextKeeps == IInv /\ [Next]_vars => IInv'
<1> SUFFICES ASSUME IInv, [Next]_vars PROVE IInv'
  OBVIOUS
<1>1. TypeOK'
  BY TypeStep DEF IInv
<1>2. ASSUME NEW r \in Rows, Insert(r) \/ ChangeStatus(r) PROVE IInv'
  BY <1>1, <1>2, JoinKeeps, HideKeeps
     DEF Insert, CreateShop, CreateOrder, CreateUserCoupon, CreateProduct, ChangeStatus
<1>3. ASSUME NEW r \in Rows, SetStamp(r) \/ CreateFails(r) PROVE IInv'
  BY <1>1, <1>3, StampKeeps
<1>4. ASSUME NEW size \in Sizes, Ask(size) PROVE IInv'
  BY <1>1, <1>4, AskKeeps
<1>5. CASE CountRows \/ FindPage \/ QueryFails
  BY <1>1, <1>5, CountKeeps, FindKeeps, FailKeeps
<1>6. CASE Tick \/ Quiescent \/ UNCHANGED vars
  <2>1. UNCHANGED <<walk, past>> /\ Listed' = Listed /\ stamp' = stamp
        /\ (Untied' => Untied)
    BY <1>6 DEF Tick, Quiescent, vars, past, Listed, Untied
  <2> QED BY <1>1, <2>1, AsideKeeps
<1> QED BY <1>2, <1>3, <1>4, <1>5, <1>6 DEF Next

LEMMA Invariant == Spec => []IInv
<1>1. Init => IInv
  BY InitInv
<1>2. IInv /\ [Next]_vars => IInv'
  BY NextKeeps
<1> QED BY <1>1, <1>2, PTL DEF Spec

(* Every variable has its type, and the page size of an accepted query is    *)
(* bounded above for every size a client may send (though not below).        *)
THEOREM TypeCorrect == Spec => []TypeOK
<1>1. IInv => TypeOK
  BY DEF IInv
<1> QED BY <1>1, Invariant, PTL

(* A walk that stops at a page that is not full misses no row listed when    *)
(* it began, however many rows are inserted meanwhile; one that stops at the *)
(* total misses one only when an insert came between a count and its page.   *)
THEOREM WalksMissNothing == Spec => []NothingMissed
<1>1. IInv => NothingMissed
  <2> SUFFICES ASSUME IInv, Untied, moved.left = {} PROVE NothingMissed
    BY DEF NothingMissed
  <2> QED BY DEF IInv, Unmissed
<1> QED BY <1>1, Invariant, PTL

(* A walk is answered with a row twice only if another joined the list.      *)
THEOREM WalksSeeNothingTwice == Spec => []NothingTwice
<1>1. IInv => NothingTwice
  BY DEF IInv, Unrepeated, NothingTwice
<1> QED BY <1>1, Invariant, PTL
=============================================================================
