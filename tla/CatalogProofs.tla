---------------------------- MODULE CatalogProofs ----------------------------
(* Proofs about Catalog for every finite set of requests, whatever they ask  *)
(* for, and every bound on failures and restarts: types, rows behind every   *)
(* document, the bounds of a search, and documents that follow their rows.   *)
EXTENDS Catalog, FiniteSetTheorems, TLAPS

(* Requests ask for what they may. *)
BodiesAsked == \A c \in Calls : body[c] \in Asks[c]

(* Whatever is about to become a document, or was found as one, has a row. *)
RowsBehind ==
    /\ DocumentsHaveRows
    /\ \A c \in Calls : task[c].doc # NoDoc /\ task[c].id # Zero => row[task[c].id] # NoRow
    /\ \A p \in Calls : rebuild.docs[p] # NoDoc => row[p] # NoRow

(* What a search holds between its two reads. *)
Placeable(ids, r) ==
    Ordered(ids) /\ \A i \in DOMAIN ids : ids[i] # Zero => r[ids[i]] # NoRow
SearchesPlaceable ==
    /\ SearchInBounds
    /\ \A c \in Calls : call[c].pc = "place" => Placeable(call[c].ids, row)

(* A goroutine begins when its request is answered. *)
TasksOfDone == \A c \in Calls : task[c].id # Zero => call[c].pc = "done"

Base == TypeOK /\ BodiesAsked /\ RowsBehind /\ SearchesPlaceable /\ TasksOfDone

(* What is on its way to a document follows the row, and so does the document *)
(* itself when nothing is on its way.                                         *)
Following(p) ==
    /\ \A c \in Calls : task[c].id = p => Follows(Given(p), row[p], task[c].doc)
    /\ rebuild.docs[p] # NoDoc => Follows(Given(p), row[p], rebuild.docs[p])
    /\ row[p] # NoRow /\ ~Busy(p) => Follows(Given(p), row[p], docs[p])

AllFollow == \A p \in Calls \ disturbed : Following(p)

IInv == Base /\ AllFollow

-----------------------------------------------------------------------------
(* The types. *)

LEMMA RowType ==
    /\ NoRow \notin Row
    /\ \A r \in Row : /\ r.by \in Users /\ r.text \in Texts /\ r.status \in Statuses
                      /\ CopyOf(r) \in Doc /\ CopyOf(r) # NoDoc
    /\ NoDoc \notin Doc /\ ZeroDoc \in Doc /\ ZeroDoc # NoDoc
BY CallsAssumption DEF NoRow, NoDoc, Row, Doc, ZeroDoc, CopyOf, Statuses

LEMMA BodyType ==
    ASSUME TypeOK, BodiesAsked, NEW c \in Calls
    PROVE  /\ body[c].by \in Users /\ body[c].target \in Calls
           /\ body[c].text \in Texts \cup {NoText} /\ body[c].status \in Statuses
           /\ body[c].op = "create" => body[c].text \in Texts
           /\ body[c].op = "create" => Inserted(c) \in Row
BY AsksAssumption, StoredAssumption DEF TypeOK, BodiesAsked, Body, Inserted, Row

LEMMA InitInv == Init => IInv
<1> SUFFICES ASSUME Init PROVE IInv
  OBVIOUS
<1>1. body \in [Calls -> Body] /\ BodiesAsked
  BY AsksAssumption DEF Init, BodiesAsked
<1>2. TypeOK
  BY <1>1 DEF Init, TypeOK, CallState, Ids, NoTask, Nothing, NoRow, NoDoc
<1>3. RowsBehind
  BY DEF Init, RowsBehind, DocumentsHaveRows, Ids, Nothing, NoTask
<1>4. SearchesPlaceable /\ TasksOfDone
  BY DEF Init, SearchesPlaceable, SearchInBounds, TasksOfDone, NoTask
<1>5. AllFollow
  BY CallsAssumption DEF Init, AllFollow, Following, NoTask, Nothing
<1> QED BY <1>1, <1>2, <1>3, <1>4, <1>5 DEF IInv, Base

-----------------------------------------------------------------------------
(* What a write of a request does to the rows: it makes or changes one, and *)
(* no row goes.                                                             *)
Written ==
    /\ row' \in [Calls -> Row \cup {NoRow}]
    /\ \A p \in Calls : row[p] # NoRow => row'[p] # NoRow

LEMMA NothingWritten == TypeOK /\ UNCHANGED row => Written
BY DEF TypeOK, Written

LEMMA InsertWrites ==
    ASSUME TypeOK, BodiesAsked, NEW c \in Calls, body[c].op = "create", Insert(c)
    PROVE  Written /\ row'[c] # NoRow
<1>1. Inserted(c) \in Row
  BY BodyType
<1> QED BY <1>1, RowType DEF TypeOK, Insert, Written

LEMMA UpdateWrites ==
    ASSUME TypeOK, BodiesAsked, NEW c \in Calls, NEW changed,
           row[body[c].target] \in Row => changed \in Row,
           Update(c, changed)
    PROVE  Written
<1> DEFINE p == body[c].target
<1>1. CASE row[p].by = body[c].by
  <2>1. p \in Calls /\ row[p] \in Row
    BY <1>1, BodyType, CallsAssumption DEF TypeOK, NoRow
  <2>2. row' = [row EXCEPT ![p] = changed]
    BY <1>1 DEF Update
  <2> QED BY <2>1, <2>2, RowType DEF TypeOK, Written
<1>2. CASE row[p].by # body[c].by
  BY <1>2, NothingWritten DEF Update
<1> QED BY <1>1, <1>2

LEMMA WritePropertyWrites ==
    ASSUME TypeOK, BodiesAsked, NEW c \in Calls, WriteProperty(c)
    PROVE  Written
<1>1. CASE body[c].text = NoText
  BY <1>1, NothingWritten DEF WriteProperty
<1>2. CASE body[c].text # NoText
  <2> DEFINE changed == [row[body[c].target] EXCEPT !.text = Stored[body[c].text]]
  <2>1. Update(c, changed)
    BY <1>2 DEF WriteProperty
  <2>2. row[body[c].target] \in Row => changed \in Row
    BY <1>2, BodyType, StoredAssumption DEF Row
  <2> QED BY <2>1, <2>2, UpdateWrites
<1> QED BY <1>1, <1>2

LEMMA WriteStatusWrites ==
    ASSUME TypeOK, BodiesAsked, NEW c \in Calls, NEW status \in Statuses,
           WriteStatus(c, status)
    PROVE  Written
<1> DEFINE changed == [row[body[c].target] EXCEPT !.status = status]
<1>1. Update(c, changed)
  BY DEF WriteStatus
<1>2. row[body[c].target] \in Row => changed \in Row
  BY DEF Row
<1> QED BY <1>1, <1>2, UpdateWrites

-----------------------------------------------------------------------------
(* The goroutine of a request is the one there was, or one of an id that has *)
(* a row; the others' stay.                                                  *)
TasksLeft(c) ==
    /\ task' \in [Calls -> [id : Ids, doc : Doc \cup {NoDoc}]]
    /\ \A d \in Calls \ {c} : task'[d] = task[d]
    /\ \/ task'[c] = task[c]
       \/ task'[c].doc # NoDoc /\ task'[c].id # Zero => row'[task'[c].id] # NoRow

(* A step of a request: it writes, moves on, and may leave a goroutine.     *)
LEMMA RequestKeeps ==
    ASSUME Base, NEW c \in Calls, Written,
           UNCHANGED <<body, docs, rebuild, restarts>>, faults' \in Nat,
           NEW st \in CallState, call' = [call EXCEPT ![c] = st],
           st.reply # "panic", st.pc = "place" => Placeable(st.ids, row'),
           TasksLeft(c), st.pc = "done" \/ (UNCHANGED task /\ call[c].pc # "done"),
           disturbed' \subseteq Calls
    PROVE  Base'
<1>1. TypeOK'
  BY DEF Base, TypeOK, Written, TasksLeft
<1>2. BodiesAsked'
  BY DEF Base, BodiesAsked
<1>3. RowsBehind'
  <2>1. DocumentsHaveRows'
    BY DEF Base, RowsBehind, DocumentsHaveRows, Written
  <2>2. ASSUME NEW d \in Calls, task'[d].doc # NoDoc, task'[d].id # Zero
        PROVE  row'[task'[d].id] # NoRow
    <3>1. CASE task'[d] = task[d]
      <4>1. task[d].id \in Calls
        BY <2>2, <3>1 DEF Base, TypeOK, Ids
      <4> QED BY <2>2, <3>1, <4>1 DEF Base, RowsBehind, Written
    <3> QED BY <2>2, <3>1 DEF TasksLeft
  <2>3. \A p \in Calls : rebuild'.docs[p] # NoDoc => row'[p] # NoRow
    BY DEF Base, RowsBehind, Written
  <2> QED BY <2>1, <2>2, <2>3 DEF RowsBehind
<1>4. SearchesPlaceable'
  <2>1. SearchInBounds'
    BY DEF Base, TypeOK, SearchesPlaceable, SearchInBounds
  <2>2. ASSUME NEW d \in Calls, call'[d].pc = "place" PROVE Placeable(call'[d].ids, row')
    <3>1. CASE d = c
      BY <2>2, <3>1 DEF Base, TypeOK
    <3>2. CASE d # c
      <4>1. call'[d] = call[d]
        BY <3>2 DEF Base, TypeOK
      <4>2. Placeable(call[d].ids, row)
        BY <2>2, <4>1 DEF Base, SearchesPlaceable
      <4>3. call[d].ids \in Seq(Ids)
        BY DEF Base, TypeOK, CallState
      <4>4. \A i \in DOMAIN call[d].ids : call[d].ids[i] \in Calls \cup {Zero}
        BY <4>3 DEF Ids
      <4> QED BY <4>1, <4>2, <4>4 DEF Placeable, Written, Ordered
    <3> QED BY <3>1, <3>2
  <2> QED BY <2>1, <2>2 DEF SearchesPlaceable
<1>5. TasksOfDone'
  BY DEF Base, TypeOK, TasksOfDone, TasksLeft
<1> QED BY <1>1, <1>2, <1>3, <1>4, <1>5 DEF Base

(* What is disturbed are products. *)
LEMMA DisturbedType ==
    ASSUME TypeOK
    PROVE  /\ Disturb(Overlapped) => disturbed' \subseteq Calls
           /\ Disturb(Changed) => disturbed' \subseteq Calls
           /\ \A p \in Calls :
                 /\ Disturb({p}) => disturbed' \subseteq Calls
                 /\ Disturb(Overlapped \cup Unlisted(p)) => disturbed' \subseteq Calls
           /\ UNCHANGED disturbed => disturbed' \subseteq Calls
BY DEF TypeOK, Disturb, Overlapped, Changed, Unlisted

(* What Finish does to a request, and Leave to the goroutines.              *)
LEMMA NoIds == <<>> \in Seq(Ids)
OBVIOUS

LEMMA FinishMoves ==
    ASSUME TypeOK, NEW c \in Calls, NEW reply \in {"ok", "error"}, Finish(c, reply)
    PROVE  \E st \in CallState : /\ call' = [call EXCEPT ![c] = st]
                                 /\ st.reply # "panic" /\ st.pc = "done"
<1> DEFINE st == [call[c] EXCEPT !.pc = "done", !.reply = reply]
<1>1. call[c] \in CallState
  BY DEF TypeOK
<1>2. st \in CallState /\ st.reply # "panic" /\ st.pc = "done"
  BY <1>1 DEF CallState
<1>3. call' = [call EXCEPT ![c] = st]
  BY DEF Finish
<1> HIDE DEF st
<1> QED BY <1>2, <1>3

LEMMA LeaveLeaves ==
    ASSUME TypeOK, NEW c \in Calls, NEW id \in Ids, NEW doc \in Doc \cup {NoDoc},
           Leave(c, id, doc), doc # NoDoc /\ id # Zero => row'[id] # NoRow
    PROVE  TasksLeft(c)
BY DEF TypeOK, Leave, TasksLeft

(* A step that finishes the request, with or without a goroutine.           *)
LEMMA FinishKeeps ==
    ASSUME Base, NEW c \in Calls, NEW reply \in {"ok", "error"}, Finish(c, reply),
           Written, UNCHANGED <<body, docs, rebuild, restarts>>, faults' \in Nat,
           disturbed' \subseteq Calls,
           \/ UNCHANGED task
           \/ \E id \in Ids, doc \in Doc \cup {NoDoc} :
                 Leave(c, id, doc) /\ (doc # NoDoc /\ id # Zero => row'[id] # NoRow)
    PROVE  Base'
<1>1. PICK st \in CallState : /\ call' = [call EXCEPT ![c] = st]
                              /\ st.reply # "panic" /\ st.pc = "done"
  BY FinishMoves DEF Base
<1>2. TasksLeft(c)
  <2>1. CASE UNCHANGED task
    BY <2>1 DEF Base, TypeOK, TasksLeft
  <2>2. ASSUME NEW id \in Ids, NEW doc \in Doc \cup {NoDoc}, Leave(c, id, doc),
               doc # NoDoc /\ id # Zero => row'[id] # NoRow
        PROVE  TasksLeft(c)
    BY <2>2, LeaveLeaves DEF Base
  <2> QED BY <2>1, <2>2
<1> QED BY <1>1, <1>2, RequestKeeps

-----------------------------------------------------------------------------
(* The steps of the requests, one lemma each. *)

LEMMA FaultsGrow == ASSUME TypeOK PROVE faults \in Nat /\ faults + 1 \in Nat
BY DEF TypeOK

LEMMA CreateKeeps ==
    ASSUME Base, NEW c \in Calls, CreateProduct(c)
    PROVE  Base'
<1>1. Written /\ row'[c] # NoRow
  BY InsertWrites DEF Base, CreateProduct, Begins
<1>2. Given(c) \in Doc /\ Given(c) # NoDoc /\ c \in Ids
  <2>1. body[c].text \in Texts /\ body[c].status \in Statuses
    BY BodyType DEF Base, CreateProduct, Begins
  <2>2. Given(c) \in Doc
    BY <2>1 DEF Given, Doc
  <2> QED BY <2>2, RowType DEF Ids
<1>3. /\ Leave(c, c, Given(c)) /\ Finish(c, "ok")
      /\ UNCHANGED <<body, docs, rebuild, restarts, faults>> /\ disturbed' \subseteq Calls
  BY DisturbedType DEF CreateProduct, Base
<1> QED BY <1>1, <1>2, <1>3, FaultsGrow, FinishKeeps DEF Base

LEMMA PropertyKeeps ==
    ASSUME Base, NEW c \in Calls, UpdateProductProperty(c)
    PROVE  Base'
<1> DEFINE st == [call[c] EXCEPT !.pc = "read"]
<1>1. Written
  BY WritePropertyWrites DEF Base, UpdateProductProperty
<1>2. st \in CallState /\ st.reply # "panic" /\ st.pc = "read"
  <2>1. call[c] \in CallState /\ call[c].reply # "panic"
    BY DEF Base, TypeOK, SearchesPlaceable, SearchInBounds
  <2> QED BY <2>1 DEF CallState
<1>3. call' = [call EXCEPT ![c] = st]
  BY DEF UpdateProductProperty
<1>4. TasksLeft(c)
  BY DEF UpdateProductProperty, TasksLeft, Base, TypeOK
<1>5. /\ UNCHANGED <<body, docs, task, rebuild, restarts, faults>> /\ call[c].pc # "done"
      /\ disturbed' \subseteq Calls
  BY DisturbedType DEF UpdateProductProperty, Begins, Base
<1> HIDE DEF st
<1> QED BY <1>1, <1>2, <1>3, <1>4, <1>5, FaultsGrow, RequestKeeps DEF Base

LEMMA GetUpdatedKeeps ==
    ASSUME Base, NEW c \in Calls, GetUpdated(c)
    PROVE  Base'
<1> DEFINE p == body[c].target
<1>1. p \in Calls /\ row[p] \in Row \cup {NoRow}
  BY BodyType DEF Base, TypeOK
<1>2. \E id \in Ids, doc \in Doc \cup {NoDoc} :
          Leave(c, id, doc) /\ (doc # NoDoc /\ id # Zero => row'[id] # NoRow)
  <2>1. CASE row[p] = NoRow
    BY <2>1, RowType DEF GetUpdated, ReadForIndex, Ids
  <2>2. CASE row[p] # NoRow
    BY <1>1, <2>2, RowType DEF GetUpdated, ReadForIndex, Ids
  <2> QED BY <2>1, <2>2
<1>3. /\ Finish(c, "ok") /\ UNCHANGED <<body, row, docs, rebuild, disturbed, restarts, faults>>
      /\ disturbed' \subseteq Calls
  BY DEF GetUpdated, Base, TypeOK
<1>4. Written
  BY <1>3, NothingWritten DEF Base
<1> QED BY <1>2, <1>3, <1>4, FaultsGrow, FinishKeeps DEF Base

LEMMA GetUpdatedFailsKeeps ==
    ASSUME Base, NEW c \in Calls, GetUpdatedFails(c)
    PROVE  Base'
<1>1. /\ Leave(c, Zero, ZeroDoc) /\ Finish(c, "ok") /\ faults' = faults + 1
      /\ UNCHANGED <<body, row, docs, rebuild, restarts>> /\ disturbed' \subseteq Calls
  BY BodyType, DisturbedType DEF GetUpdatedFails, Base
<1>2. Zero \in Ids /\ ZeroDoc \in Doc
  BY RowType DEF Ids
<1>3. Written
  BY <1>1, NothingWritten DEF Base
<1> QED BY <1>1, <1>2, <1>3, FaultsGrow, FinishKeeps DEF Base

LEMMA StatusKeeps ==
    ASSUME Base, NEW c \in Calls, UpdateProductStatus(c)
    PROVE  Base'
<1>1. /\ WriteStatus(c, body[c].status) /\ Finish(c, "ok")
      /\ UNCHANGED <<body, docs, task, rebuild, restarts, faults>> /\ disturbed' \subseteq Calls
  BY DisturbedType DEF UpdateProductStatus, Base
<1>2. Written
  BY <1>1, BodyType, WriteStatusWrites DEF Base
<1> QED BY <1>1, <1>2, FaultsGrow, FinishKeeps DEF Base

LEMMA DeleteKeeps ==
    ASSUME Base, NEW c \in Calls, DeleteProduct(c)
    PROVE  Base'
<1>1. /\ WriteStatus(c, "inactive") /\ Leave(c, body[c].target, NoDoc) /\ Finish(c, "ok")
      /\ UNCHANGED <<body, docs, rebuild, restarts, faults>> /\ disturbed' \subseteq Calls
  BY BodyType, DisturbedType DEF DeleteProduct, Base
<1>2. Written
  BY <1>1, WriteStatusWrites DEF Base, Statuses
<1>3. body[c].target \in Ids
  BY BodyType DEF Base, Ids
<1> QED BY <1>1, <1>2, <1>3, FaultsGrow, FinishKeeps DEF Base

(* A search asks for ids of documents, which have rows unless it is Zero.   *)
LEMMA SearchKeeps ==
    ASSUME Base, NEW c \in Calls, SearchIds(c)
    PROVE  Base'
<1>a. PICK S \in SUBSET {i \in Ids : docs[i] # NoDoc} :
         \E s \in [1 .. Cardinality(S) -> S] :
            /\ Ordered(s)
            /\ \/ s = <<>> /\ Finish(c, "ok")
               \/ s # <<>> /\ call' = [call EXCEPT ![c] = [@ EXCEPT !.pc = "place", !.ids = s]]
  BY DEF SearchIds
<1>1. PICK s \in [1 .. Cardinality(S) -> S] :
         /\ Ordered(s)
         /\ \/ s = <<>> /\ Finish(c, "ok")
            \/ s # <<>> /\ call' = [call EXCEPT ![c] = [@ EXCEPT !.pc = "place", !.ids = s]]
  BY <1>a
<1>2. /\ UNCHANGED <<body, row, docs, task, rebuild, disturbed, restarts, faults>>
      /\ call[c].pc # "done" /\ disturbed' \subseteq Calls
  BY DEF SearchIds, Begins, Base, TypeOK
<1>3. Written
  BY <1>2, NothingWritten DEF Base
<1>4. CASE Finish(c, "ok")
  BY <1>2, <1>3, <1>4, FaultsGrow, FinishKeeps DEF Base
<1>5. CASE call' = [call EXCEPT ![c] = [@ EXCEPT !.pc = "place", !.ids = s]]
  <2> DEFINE st == [call[c] EXCEPT !.pc = "place", !.ids = s]
  <2>1. Cardinality(S) \in Nat
    <3>1. IsFiniteSet(Ids)
      BY CallsAssumption, FS_Singleton, FS_Union DEF Ids
    <3>2. S \subseteq Ids
      OBVIOUS
    <3> QED BY <3>1, <3>2, FS_Subset, FS_CardinalityType
  <2>2. s \in Seq(Ids)
    BY <2>1
  <2>3. \A i \in DOMAIN s : s[i] \in Ids /\ docs[s[i]] # NoDoc
    OBVIOUS
  <2>4. Placeable(s, row')
    BY <1>1, <1>2, <2>3 DEF Placeable, Base, RowsBehind, DocumentsHaveRows, Ids
  <2>5. st \in CallState /\ st.reply # "panic" /\ st.ids = s
    <3>1. call[c] \in CallState /\ call[c].reply # "panic"
      BY DEF Base, TypeOK, SearchesPlaceable, SearchInBounds
    <3> HIDE DEF Ids
    <3> QED BY <2>2, <3>1 DEF CallState
  <2>6. call' = [call EXCEPT ![c] = st]
    BY <1>5
  <2>7. TasksLeft(c)
    BY <1>2 DEF TasksLeft, Base, TypeOK
  <2> HIDE DEF st
  <2> QED BY <1>2, <1>3, <2>4, <2>5, <2>6, <2>7, FaultsGrow, RequestKeeps DEF Base
<1> QED BY <1>1, <1>4, <1>5

(* All but a last Zero are found, so every place is within their number.    *)
LEMMA PlacesFit ==
    ASSUME NEW ids \in Seq(Ids), Placeable(ids, row), NEW i \in Found(ids)
    PROVE  i <= Cardinality(Found(ids))
<1> DEFINE n == Len(ids)
<1>1. n \in Nat /\ DOMAIN ids = 1 .. n
  OBVIOUS
<1>2. CASE n # 0 /\ ids[n] = Zero
  <2>1. Found(ids) = 1 .. (n - 1)
    BY <1>1, <1>2 DEF Found, Placeable, Ordered
  <2>2. Cardinality(1 .. (n - 1)) = n - 1
    BY <1>1, <1>2, FS_Interval
  <2> QED BY <1>1, <2>1, <2>2
<1>3. CASE ~(n # 0 /\ ids[n] = Zero)
  <2>1. Found(ids) = 1 .. n
    BY <1>1, <1>3 DEF Found, Placeable, Ordered
  <2>2. Cardinality(1 .. n) = n
    BY <1>1, FS_Interval
  <2> QED BY <1>1, <2>1, <2>2
<1> QED BY <1>2, <1>3

LEMMA PlaceKeeps ==
    ASSUME Base, NEW c \in Calls, PlaceProducts(c)
    PROVE  Base'
<1> DEFINE st == [call[c] EXCEPT !.pc = "done", !.ids = <<>>, !.reply = "ok"]
<1>1. call[c].ids \in Seq(Ids) /\ Placeable(call[c].ids, row)
  BY DEF Base, TypeOK, CallState, SearchesPlaceable, PlaceProducts
<1>2. \A i \in Found(call[c].ids) : i <= Cardinality(Found(call[c].ids))
  BY <1>1, PlacesFit
<1>3. call' = [call EXCEPT ![c] = st]
  BY <1>2 DEF PlaceProducts
<1>4. /\ UNCHANGED <<body, row, docs, task, rebuild, disturbed, restarts, faults>>
      /\ disturbed' \subseteq Calls
  BY DEF PlaceProducts, Base, TypeOK
<1>5. st \in CallState /\ st.reply # "panic" /\ st.pc = "done"
  BY NoIds DEF Base, TypeOK, CallState
<1>6. Written
  BY <1>4, NothingWritten DEF Base
<1>7. TasksLeft(c)
  BY <1>4 DEF TasksLeft, Base, TypeOK
<1> HIDE DEF st
<1> QED BY <1>3, <1>4, <1>5, <1>6, <1>7, FaultsGrow, RequestKeeps DEF Base

LEMMA CallFailsKeeps ==
    ASSUME Base, NEW c \in Calls, CallFails(c)
    PROVE  Base'
<1> DEFINE st == [call[c] EXCEPT !.pc = "done", !.ids = <<>>, !.reply = "error"]
<1>1. /\ call' = [call EXCEPT ![c] = st]
      /\ UNCHANGED row \/ Write(c)
      /\ faults' = faults + 1
      /\ UNCHANGED <<body, docs, task, rebuild, restarts>> /\ disturbed' \subseteq Calls
  BY DisturbedType DEF CallFails, Base
<1>2. Written
  <2>1. CASE UNCHANGED row
    BY <2>1, NothingWritten DEF Base
  <2>2. CASE body[c].op = "create" /\ Insert(c)
    BY <2>2, InsertWrites DEF Base
  <2>3. CASE WriteProperty(c)
    BY <2>3, WritePropertyWrites DEF Base
  <2>4. CASE WriteStatus(c, body[c].status)
    BY <2>4, BodyType, WriteStatusWrites DEF Base
  <2>5. CASE WriteStatus(c, "inactive")
    BY <2>5, WriteStatusWrites DEF Base, Statuses
  <2> QED BY <1>1, <2>1, <2>2, <2>3, <2>4, <2>5 DEF Write
<1>3. st \in CallState /\ st.reply # "panic" /\ st.pc = "done"
  BY NoIds DEF Base, TypeOK, CallState
<1>4. TasksLeft(c)
  BY <1>1 DEF TasksLeft, Base, TypeOK
<1> HIDE DEF st
<1> QED BY <1>1, <1>2, <1>3, <1>4, FaultsGrow, RequestKeeps DEF Base

-----------------------------------------------------------------------------
(* The goroutines, the start and the end of the process. *)

(* No request moves on and no row changes: what is written is a document.   *)
LEMMA WriteDocument ==
    ASSUME Base, UNCHANGED <<body, call, row, restarts>>,
           docs' \in [Ids -> Doc \cup {NoDoc}],
           \A p \in Calls : docs'[p] # NoDoc => row[p] # NoRow,
           \A c \in Calls : task'[c] = task[c] \/ task'[c] = NoTask,
           task' \in [Calls -> [id : Ids, doc : Doc \cup {NoDoc}]],
           rebuild' \in [pc : {"find", "bulk"}, docs : [Calls -> Doc \cup {NoDoc}]],
           \A p \in Calls : rebuild'.docs[p] # NoDoc => row[p] # NoRow,
           disturbed' \subseteq Calls, faults' \in Nat
    PROVE  Base'
<1>1. TypeOK' /\ BodiesAsked'
  BY DEF Base, TypeOK, BodiesAsked
<1>2. RowsBehind'
  BY DEF Base, RowsBehind, DocumentsHaveRows, NoTask
<1>3. SearchesPlaceable'
  BY DEF Base, SearchesPlaceable, SearchInBounds
<1>4. TasksOfDone'
  BY DEF Base, TasksOfDone, NoTask
<1> QED BY <1>1, <1>2, <1>3, <1>4 DEF Base

LEMMA NoTaskType == NoTask \in [id : Ids, doc : Doc \cup {NoDoc}]
BY DEF NoTask, Ids

LEMMA RunTaskKeeps ==
    ASSUME Base, NEW c \in Calls, RunTask(c)
    PROVE  Base'
<1>1. task[c].id \in Ids /\ task[c].doc \in Doc \cup {NoDoc}
  BY DEF Base, TypeOK
<1>2. \A p \in Calls : docs'[p] # NoDoc => row[p] # NoRow
  BY <1>1, CallsAssumption
  DEF RunTask, Base, TypeOK, RowsBehind, DocumentsHaveRows, Ids
<1>3. /\ docs' \in [Ids -> Doc \cup {NoDoc}]
      /\ task' \in [Calls -> [id : Ids, doc : Doc \cup {NoDoc}]]
      /\ \A d \in Calls : task'[d] = task[d] \/ task'[d] = NoTask
  BY <1>1, NoTaskType DEF RunTask, Base, TypeOK
<1>4. UNCHANGED <<body, call, row, rebuild, disturbed, restarts, faults>>
  BY DEF RunTask
<1>5. /\ rebuild' \in [pc : {"find", "bulk"}, docs : [Calls -> Doc \cup {NoDoc}]]
      /\ \A p \in Calls : rebuild'.docs[p] # NoDoc => row[p] # NoRow
      /\ faults' \in Nat /\ disturbed' \subseteq Calls
  BY <1>4 DEF Base, TypeOK, RowsBehind
<1> QED BY <1>2, <1>3, <1>4, <1>5, WriteDocument

LEMMA TaskFailsKeeps ==
    ASSUME Base, NEW c \in Calls, TaskFails(c)
    PROVE  Base'
<1>1. /\ task' \in [Calls -> [id : Ids, doc : Doc \cup {NoDoc}]]
      /\ \A d \in Calls : task'[d] = task[d] \/ task'[d] = NoTask
  BY NoTaskType DEF TaskFails, Base, TypeOK
<1>2. disturbed' \subseteq Calls /\ faults' \in Nat
  BY DEF TaskFails, Disturb, Base, TypeOK, Ids
<1>3. UNCHANGED <<body, call, row, docs, rebuild, restarts>>
  BY DEF TaskFails
<1> QED BY <1>1, <1>2, <1>3, WriteDocument DEF Base, TypeOK, RowsBehind, DocumentsHaveRows

LEMMA NothingType ==
    Nothing \in [Calls -> Doc \cup {NoDoc}] /\ \A p \in Calls : Nothing[p] = NoDoc
BY DEF Nothing

LEMMA AllDocumentsType ==
    ASSUME TypeOK
    PROVE  /\ AllDocuments \in [Calls -> Doc \cup {NoDoc}]
           /\ \A p \in Calls :
                 /\ AllDocuments[p] # NoDoc <=> row[p] # NoRow
                 /\ AllDocuments[p] # NoDoc => AllDocuments[p] = CopyOf(row[p])
BY RowType DEF AllDocuments, TypeOK

LEMMA FindAllKeeps == Base /\ FindAll => Base'
<1> SUFFICES ASSUME Base, FindAll PROVE Base'
  OBVIOUS
<1>1. /\ rebuild' = [pc |-> "bulk", docs |-> AllDocuments] /\ disturbed' \subseteq Calls
      /\ UNCHANGED <<body, call, row, docs, task, restarts, faults>>
  BY DEF FindAll, Base, TypeOK
<1> QED BY <1>1, AllDocumentsType, WriteDocument DEF Base, TypeOK, RowsBehind, DocumentsHaveRows

LEMMA FindAllFailsKeeps == Base /\ FindAllFails => Base'
<1> SUFFICES ASSUME Base, FindAllFails PROVE Base'
  OBVIOUS
<1>1. /\ rebuild' = [rebuild EXCEPT !.pc = "bulk"] /\ faults' = faults + 1
      /\ UNCHANGED <<body, call, row, docs, task, disturbed, restarts>>
  BY DEF FindAllFails
<1> QED BY <1>1, WriteDocument DEF Base, TypeOK, RowsBehind, DocumentsHaveRows

LEMMA RebuildIndexKeeps ==
    ASSUME Base, NEW p \in Calls, RebuildIndex(p)
    PROVE  Base'
<1>1. /\ rebuild.docs[p] # NoDoc
      /\ docs' = [docs EXCEPT ![p] = rebuild.docs[p]]
      /\ rebuild' = [rebuild EXCEPT !.docs[p] = NoDoc]
      /\ UNCHANGED <<body, call, row, task, disturbed, restarts, faults>>
  BY DEF RebuildIndex
<1>2. /\ rebuild' \in [pc : {"find", "bulk"}, docs : [Calls -> Doc \cup {NoDoc}]]
      /\ rebuild'.pc = rebuild.pc /\ rebuild'.docs[p] = NoDoc
      /\ \A q \in Calls \ {p} : rebuild'.docs[q] = rebuild.docs[q]
  BY <1>1 DEF Base, TypeOK
<1>3. /\ docs' \in [Ids -> Doc \cup {NoDoc}] /\ docs'[p] = rebuild.docs[p]
      /\ \A q \in Calls \ {p} : docs'[q] = docs[q]
  BY <1>1 DEF Base, TypeOK, Ids
<1>4. \A q \in Calls : /\ docs'[q] # NoDoc => row[q] # NoRow
                       /\ rebuild'.docs[q] # NoDoc => row[q] # NoRow
  BY <1>1, <1>2, <1>3 DEF Base, RowsBehind, DocumentsHaveRows
<1> QED BY <1>1, <1>2, <1>3, <1>4, WriteDocument DEF Base, TypeOK

LEMMA BulkFailsKeeps == Base /\ BulkFails => Base'
<1> SUFFICES ASSUME Base, BulkFails PROVE Base'
  OBVIOUS
<1>1. /\ disturbed' \subseteq Calls
      /\ rebuild' = [rebuild EXCEPT !.docs = Nothing] /\ faults' = faults + 1
      /\ UNCHANGED <<body, call, row, docs, task, restarts>>
  BY DEF BulkFails, Disturb, Base, TypeOK
<1> QED BY <1>1, NothingType, WriteDocument DEF Base, TypeOK, RowsBehind, DocumentsHaveRows

LEMMA RestartKeeps == Base /\ Restart => Base'
<1> SUFFICES ASSUME Base, Restart PROVE Base'
  OBVIOUS
<1> DEFINE gone == [pc |-> "done", ids |-> <<>>, reply |-> "error"]
<1>1. /\ call' = [c \in Calls |-> IF call[c].pc \in {"read", "place"} THEN gone ELSE call[c]]
      /\ task' = [c \in Calls |-> NoTask]
      /\ rebuild' = [pc |-> "find", docs |-> Nothing]
      /\ restarts' = restarts + 1
      /\ UNCHANGED <<body, row, docs, faults>> /\ disturbed' \subseteq Calls
  BY DEF Restart, Disturb, Base, TypeOK
<1>2. gone \in CallState /\ gone.reply # "panic" /\ gone.pc # "place"
  BY NoIds DEF CallState
<1> HIDE DEF gone
<1>3. TypeOK' /\ BodiesAsked'
  BY <1>1, <1>2, NoTaskType, NothingType DEF Base, TypeOK, BodiesAsked
<1>4. RowsBehind'
  BY <1>1, NothingType DEF Base, RowsBehind, DocumentsHaveRows, NoTask
<1>5. SearchesPlaceable'
  BY <1>1, <1>2 DEF Base, SearchesPlaceable, SearchInBounds
<1>6. TasksOfDone'
  BY <1>1 DEF TasksOfDone, NoTask
<1> QED BY <1>3, <1>4, <1>5, <1>6 DEF Base

LEMMA StutterKeeps == Base /\ UNCHANGED vars => Base'
<1> SUFFICES ASSUME Base, UNCHANGED vars PROVE Base'
  OBVIOUS
<1>1. UNCHANGED <<body, call, row, docs, task, rebuild, disturbed, restarts, faults>>
  BY DEF vars
<1>2. TypeOK' /\ BodiesAsked' /\ RowsBehind'
  BY <1>1 DEF Base, TypeOK, BodiesAsked, RowsBehind, DocumentsHaveRows
<1>3. SearchesPlaceable' /\ TasksOfDone'
  BY <1>1 DEF Base, SearchesPlaceable, SearchInBounds, TasksOfDone
<1> QED BY <1>2, <1>3 DEF Base

-----------------------------------------------------------------------------
LEMMA BaseKeeps == Base /\ [Next]_vars => Base'
<1> SUFFICES ASSUME Base, [Next]_vars PROVE Base'
  OBVIOUS
<1>1. ASSUME NEW c \in Calls, CallStep(c) PROVE Base'
  BY <1>1, CreateKeeps, PropertyKeeps, GetUpdatedKeeps, StatusKeeps, DeleteKeeps,
     SearchKeeps, PlaceKeeps DEF CallStep
<1>2. ASSUME NEW c \in Calls,
             CallFails(c) \/ GetUpdatedFails(c) \/ RunTask(c) \/ TaskFails(c)
      PROVE  Base'
  BY <1>2, CallFailsKeeps, GetUpdatedFailsKeeps, RunTaskKeeps, TaskFailsKeeps
<1>3. CASE FindAll \/ FindAllFails \/ BulkFails \/ Restart
  BY <1>3, FindAllKeeps, FindAllFailsKeeps, BulkFailsKeeps, RestartKeeps
<1>4. ASSUME NEW p \in Calls, RebuildIndex(p) PROVE Base'
  BY <1>4, RebuildIndexKeeps
<1>5. CASE Quiescent \/ UNCHANGED vars
  BY <1>5, StutterKeeps DEF Quiescent
<1> QED BY <1>1, <1>2, <1>3, <1>4, <1>5 DEF Next

-----------------------------------------------------------------------------
(* What is on its way to the documents. *)

(* What a product was created from stays, and its row begins as the rounded  *)
(* copy of it.                                                               *)
LEMMA GivenStays == ASSUME NEW p, UNCHANGED body PROVE Given(p)' = Given(p)
BY DEF Given

LEMMA InsertedFollows == ASSUME NEW c PROVE Follows(Given(c), Inserted(c), Given(c))
BY DEF Follows, Given, Inserted, CopyOf

(* A step of a request that is not done. *)
LEMMA RequestFollows ==
    ASSUME IInv, NEW c \in Calls, NEW p \in Calls, Following(p),
           UNCHANGED <<body, docs, rebuild>>, call[c].pc # "done",
           \A d \in Calls \ {c} : call'[d] = call[d] /\ task'[d] = task[d],
           UNCHANGED task \/ task'[c].id # p \/ Follows(Given(p), row'[p], task'[c].doc),
           row'[p] # row[p] => ~Busy(p) /\ Busy(p)',
           call[c].pc = "read" /\ body[c].target = p => Busy(p)' \/ row'[p] = NoRow
    PROVE  Following(p)'
<1>1. task[c].id # p
  BY CallsAssumption DEF IInv, Base, TasksOfDone
<1>2. Busy(p) => Busy(p)' \/ row'[p] = NoRow
  BY <1>1 DEF Busy
<1>3. ASSUME NEW d \in Calls, task'[d].id = p PROVE Follows(Given(p), row'[p], task'[d].doc)
  <2>1. CASE task'[d] = task[d]
    <3>1. task[d].id = p /\ Busy(p)
      BY <1>3, <2>1 DEF Busy
    <3> QED BY <2>1, <3>1 DEF Following
  <2>2. CASE task'[d] # task[d]
    BY <1>3, <2>2
  <2> QED BY <2>1, <2>2
<1>4. rebuild'.docs[p] # NoDoc => Follows(Given(p), row'[p], rebuild'.docs[p])
  BY DEF Following, Busy
<1>5. row'[p] # NoRow /\ ~Busy(p)' => Follows(Given(p), row'[p], docs'[p])
  BY <1>2 DEF Following
<1> QED BY <1>3, <1>4, <1>5, GivenStays DEF Following

(* A request writes no row but that of its product. *)
LEMMA WritesTarget ==
    ASSUME TypeOK, NEW c \in Calls, NEW p \in Calls, row'[p] # row[p]
    PROVE  /\ Insert(c) => p = c
           /\ WriteProperty(c) => p = body[c].target
           /\ \A status : WriteStatus(c, status) => p = body[c].target
BY DEF TypeOK, Insert, WriteProperty, WriteStatus, Update

LEMMA CallFollows ==
    ASSUME IInv, NEW c \in Calls, CallStep(c) \/ CallFails(c) \/ GetUpdatedFails(c),
           NEW p \in Calls \ disturbed'
    PROVE  Following(p)'
<1>1. p \notin disturbed => Following(p)
  BY DEF IInv, AllFollow
<1>2. TypeOK
  BY DEF IInv, Base
<1>3. CASE CreateProduct(c)
  <2>1. /\ Insert(c) /\ Disturb(Overlapped) /\ Leave(c, c, Given(c))
        /\ Finish(c, "ok") /\ call[c].pc = "idle" /\ UNCHANGED <<body, docs, rebuild>>
    BY <1>3 DEF CreateProduct, Begins
  <2>2. p \notin disturbed /\ (row'[p] # row[p] => ~Busy(p))
    BY <2>1 DEF Disturb, Overlapped, Changed
  <2>3. /\ task'[c] = [id |-> c, doc |-> Given(c)] /\ row'[c] = Inserted(c)
        /\ \A d \in Calls \ {c} : call'[d] = call[d] /\ task'[d] = task[d]
    BY <1>2, <2>1 DEF TypeOK, Leave, Insert, Finish
  <2>4. task'[c].id # p \/ Follows(Given(p), row'[p], task'[c].doc)
    BY <2>3, InsertedFollows
  <2>5. row'[p] # row[p] => Busy(p)'
    BY <1>2, <2>1, <2>3, WritesTarget DEF Busy
  <2> QED BY <1>1, <2>1, <2>2, <2>3, <2>4, <2>5, RequestFollows
<1>4. CASE UpdateProductProperty(c)
  <2>1. /\ WriteProperty(c) /\ Disturb(Overlapped) /\ call[c].pc = "idle"
        /\ call' = [call EXCEPT ![c] = [@ EXCEPT !.pc = "read"]]
        /\ UNCHANGED <<body, docs, task, rebuild>>
    BY <1>4 DEF UpdateProductProperty, Begins
  <2>2. p \notin disturbed /\ (row'[p] # row[p] => ~Busy(p))
    BY <2>1 DEF Disturb, Overlapped, Changed
  <2>3. /\ call'[c].pc = "read"
        /\ \A d \in Calls \ {c} : call'[d] = call[d] /\ task'[d] = task[d]
    BY <1>2, <2>1 DEF TypeOK, CallState
  <2>4. row'[p] # row[p] => Busy(p)'
    BY <1>2, <2>1, <2>3, WritesTarget DEF Busy
  <2> QED BY <1>1, <2>1, <2>2, <2>3, <2>4, RequestFollows
<1>5. CASE GetUpdated(c)
  <2> DEFINE q == body[c].target
  <2>1. /\ ReadForIndex(c) /\ Finish(c, "ok") /\ call[c].pc = "read"
        /\ UNCHANGED <<body, row, docs, rebuild, disturbed>>
    BY <1>5 DEF GetUpdated
  <2>2. \A d \in Calls \ {c} : call'[d] = call[d] /\ task'[d] = task[d]
    BY <1>2, <2>1 DEF TypeOK, ReadForIndex, Leave, Finish
  <2>3. task'[c] = IF row[q] = NoRow THEN [id |-> Zero, doc |-> ZeroDoc]
                   ELSE [id |-> q, doc |-> CopyOf(row[q])]
    BY <1>2, <2>1 DEF TypeOK, ReadForIndex, Leave
  <2>4. task'[c].id # p \/ Follows(Given(p), row'[p], task'[c].doc)
    BY <2>1, <2>3, CallsAssumption DEF Follows
  <2>5. q = p => Busy(p)' \/ row'[p] = NoRow
    BY <2>1, <2>3 DEF Busy
  <2> QED BY <1>1, <2>1, <2>2, <2>4, <2>5, RequestFollows
<1>6. CASE GetUpdatedFails(c)
  <2>1. /\ Leave(c, Zero, ZeroDoc) /\ Disturb({body[c].target}) /\ Finish(c, "ok")
        /\ call[c].pc = "read" /\ UNCHANGED <<body, row, docs, rebuild>>
    BY <1>6 DEF GetUpdatedFails
  <2>2. \A d \in Calls \ {c} : call'[d] = call[d] /\ task'[d] = task[d]
    BY <1>2, <2>1 DEF TypeOK, Leave, Finish
  <2>3. task'[c].id # p
    BY <1>2, <2>1, CallsAssumption DEF TypeOK, Leave
  <2>4. p \notin disturbed /\ body[c].target # p
    BY <2>1 DEF Disturb
  <2> QED BY <1>1, <2>1, <2>2, <2>3, <2>4, RequestFollows
<1>7. CASE UpdateProductStatus(c) \/ CallFails(c)
  <2>1. /\ Disturb(Changed) /\ call[c].pc \notin {"done", "read"}
        /\ UNCHANGED <<body, docs, task, rebuild>>
    BY <1>7 DEF UpdateProductStatus, CallFails, Begins
  <2>2. \A d \in Calls \ {c} : call'[d] = call[d] /\ task'[d] = task[d]
    BY <1>2, <1>7 DEF TypeOK, UpdateProductStatus, CallFails, Finish
  <2>3. p \notin disturbed /\ row'[p] = row[p]
    BY <2>1 DEF Disturb, Changed
  <2> QED BY <1>1, <2>1, <2>2, <2>3, RequestFollows
<1>8. CASE DeleteProduct(c)
  <2> DEFINE q == body[c].target
  <2>1. /\ WriteStatus(c, "inactive") /\ Disturb(Overlapped \cup Unlisted(q))
        /\ Leave(c, q, NoDoc) /\ Finish(c, "ok") /\ call[c].pc = "idle"
        /\ UNCHANGED <<body, docs, rebuild>>
    BY <1>8 DEF DeleteProduct, Begins
  <2>2. /\ p \notin disturbed /\ (row'[p] # row[p] => ~Busy(p))
        /\ p = q => row'[p].status = "inactive"
    BY <2>1 DEF Disturb, Overlapped, Changed, Unlisted
  <2>3. /\ task'[c] = [id |-> q, doc |-> NoDoc]
        /\ \A d \in Calls \ {c} : call'[d] = call[d] /\ task'[d] = task[d]
    BY <1>2, <2>1 DEF TypeOK, Leave, Finish
  <2>4. task'[c].id # p \/ Follows(Given(p), row'[p], task'[c].doc)
    BY <2>2, <2>3 DEF Follows
  <2>5. row'[p] # row[p] => Busy(p)'
    BY <1>2, <2>1, <2>3, WritesTarget DEF Busy
  <2> QED BY <1>1, <2>1, <2>2, <2>3, <2>4, <2>5, RequestFollows
<1>9. CASE SearchIds(c) \/ PlaceProducts(c)
  <2>1. /\ call[c].pc \notin {"done", "read"}
        /\ UNCHANGED <<body, row, docs, task, rebuild, disturbed>>
    BY <1>9 DEF SearchIds, PlaceProducts, Begins
  <2>2. \A d \in Calls \ {c} : call'[d] = call[d]
    BY <1>2, <1>9 DEF TypeOK, SearchIds, PlaceProducts, Finish
  <2> QED BY <1>1, <2>1, <2>2, RequestFollows
<1> QED BY <1>3, <1>4, <1>5, <1>6, <1>7, <1>8, <1>9 DEF CallStep

(* A goroutine that runs writes what follows. *)
LEMMA TaskFollows ==
    ASSUME IInv, NEW c \in Calls, RunTask(c) \/ TaskFails(c), NEW p \in Calls \ disturbed'
    PROVE  Following(p)'
<1>1. /\ UNCHANGED <<body, call, row, rebuild>>
      /\ \A d \in Calls : task'[d] = IF d = c THEN NoTask ELSE task[d]
  BY DEF RunTask, TaskFails, IInv, Base, TypeOK
<1>2. p \notin disturbed /\ Following(p) /\ NoTask.id # p
  BY CallsAssumption DEF RunTask, TaskFails, Disturb, IInv, AllFollow, NoTask
<1>3. CASE task[c].id = p
  <2>1. RunTask(c)
    BY <1>3, CallsAssumption DEF TaskFails, Disturb
  <2>2. docs'[p] = task[c].doc
    BY <1>3, <2>1 DEF RunTask, IInv, Base, TypeOK, Ids
  <2>3. Follows(Given(p), row[p], docs'[p])
    BY <1>2, <1>3, <2>2 DEF Following
  <2> QED BY <1>1, <1>2, <2>3, GivenStays DEF Following
<1>4. CASE task[c].id # p
  <2>1. docs'[p] = docs[p]
    BY <1>4 DEF RunTask, TaskFails, IInv, Base, TypeOK, Ids
  <2>2. Busy(p) => Busy(p)'
    BY <1>1, <1>4 DEF Busy
  <2> QED BY <1>1, <1>2, <2>1, <2>2, GivenStays DEF Following
<1> QED BY <1>3, <1>4

(* The start reads what follows, and writes it. *)
LEMMA RebuildFollows ==
    ASSUME IInv, NEW p \in Calls \ disturbed',
           FindAll \/ FindAllFails \/ BulkFails \/ \E q \in Calls : RebuildIndex(q)
    PROVE  Following(p)'
<1>1. UNCHANGED <<body, call, row, task>>
  BY DEF FindAll, FindAllFails, BulkFails, RebuildIndex
<1>2. p \notin disturbed => Following(p)
  BY DEF IInv, AllFollow
<1>3. CASE FindAll
  <2>1. /\ rebuild'.docs = AllDocuments
        /\ p \notin disturbed \/ ~Busy(p)
    BY <1>3 DEF FindAll
  <2>2. /\ rebuild'.docs[p] # NoDoc => Follows(Given(p), row'[p], rebuild'.docs[p])
        /\ row'[p] # NoRow => Busy(p)'
    BY <1>1, <2>1, AllDocumentsType DEF Follows, Busy, IInv, Base
  <2>3. \A c \in Calls : task'[c].id = p => Follows(Given(p), row'[p], task'[c].doc)
    BY <1>1, <1>2, <2>1 DEF Following, Busy
  <2> QED BY <1>1, <2>2, <2>3, GivenStays DEF Following
<1>4. CASE FindAllFails
  <2>1. UNCHANGED <<docs, disturbed>> /\ rebuild'.docs = rebuild.docs
    BY <1>4 DEF FindAllFails, IInv, Base, TypeOK
  <2> QED BY <1>1, <1>2, <2>1, GivenStays DEF Following, Busy
<1>5. CASE BulkFails
  <2>1. p \notin disturbed /\ rebuild.docs[p] = NoDoc /\ UNCHANGED docs
    BY <1>5 DEF BulkFails, Disturb
  <2>2. rebuild'.docs[p] = NoDoc
    BY <1>5, NothingType DEF BulkFails, IInv, Base, TypeOK
  <2>3. Busy(p) => Busy(p)'
    BY <1>1, <2>1 DEF Busy
  <2> QED BY <1>1, <1>2, <2>1, <2>2, <2>3, GivenStays DEF Following
<1>6. ASSUME NEW q \in Calls, RebuildIndex(q) PROVE Following(p)'
  <2>1. /\ p \notin disturbed /\ rebuild.docs[q] # NoDoc
        /\ docs' = [docs EXCEPT ![q] = rebuild.docs[q]]
        /\ rebuild' = [rebuild EXCEPT !.docs[q] = NoDoc]
    BY <1>6 DEF RebuildIndex
  <2>2. CASE p = q
    <3>1. docs'[p] = rebuild.docs[p] /\ rebuild'.docs[p] = NoDoc
      BY <2>1, <2>2 DEF IInv, Base, TypeOK, Ids
    <3> QED BY <1>1, <1>2, <2>1, <2>2, <3>1, GivenStays DEF Following
  <2>3. CASE p # q
    <3>1. docs'[p] = docs[p] /\ rebuild'.docs[p] = rebuild.docs[p]
      BY <2>1, <2>3 DEF IInv, Base, TypeOK, Ids
    <3>2. Busy(p) => Busy(p)'
      BY <1>1, <3>1 DEF Busy
    <3> QED BY <1>1, <1>2, <2>1, <3>1, <3>2, GivenStays DEF Following
  <2> QED BY <2>2, <2>3
<1> QED BY <1>3, <1>4, <1>5, <1>6

(* With the process goes what was on its way. *)
LEMMA RestartFollows ==
    ASSUME IInv, Restart, NEW p \in Calls \ disturbed'
    PROVE  Following(p)'
<1>1. /\ p \notin disturbed /\ ~Busy(p) /\ UNCHANGED <<body, row, docs>>
      /\ \A c \in Calls : task'[c] = NoTask
      /\ rebuild'.docs = Nothing
  BY DEF Restart, Disturb
<1>2. Follows(Given(p), row[p], docs[p]) \/ row[p] = NoRow
  BY <1>1 DEF IInv, AllFollow, Following
<1> QED BY <1>1, <1>2, NothingType, GivenStays, CallsAssumption DEF Following, NoTask

LEMMA NextKeeps == IInv /\ [Next]_vars => IInv'
<1> SUFFICES ASSUME IInv, [Next]_vars PROVE IInv'
  OBVIOUS
<1>1. Base'
  BY BaseKeeps DEF IInv
<1>2. ASSUME NEW p \in Calls \ disturbed' PROVE Following(p)'
  <2>1. ASSUME NEW c \in Calls, CallStep(c) \/ CallFails(c) \/ GetUpdatedFails(c)
        PROVE  Following(p)'
    BY <1>2, <2>1, CallFollows
  <2>2. ASSUME NEW c \in Calls, RunTask(c) \/ TaskFails(c) PROVE Following(p)'
    BY <1>2, <2>2, TaskFollows
  <2>3. CASE FindAll \/ FindAllFails \/ BulkFails \/ \E q \in Calls : RebuildIndex(q)
    BY <1>2, <2>3, RebuildFollows
  <2>4. CASE Restart
    BY <1>2, <2>4, RestartFollows
  <2>5. CASE Quiescent \/ UNCHANGED vars
    <3>1. UNCHANGED <<body, call, row, docs, task, rebuild, disturbed>>
      BY <2>5 DEF Quiescent, vars
    <3>2. Following(p)
      BY <1>2, <3>1 DEF IInv, AllFollow
    <3> QED BY <3>1, <3>2, GivenStays DEF Following, Busy
  <2> QED BY <2>1, <2>2, <2>3, <2>4, <2>5 DEF Next
<1> QED BY <1>1, <1>2 DEF IInv, AllFollow

(* The invariant of every behaviour of the catalog. *)
THEOREM Invariant == Spec => []IInv
BY InitInv, NextKeeps, PTL DEF Spec

(* Rows, documents, goroutines and requests keep their types: no update     *)
(* makes a row of an id that has none (Repository.Update).                  *)
THEOREM TypeCorrect == Spec => []TypeOK
<1>1. IInv => TypeOK
  BY DEF IInv, Base
<1> QED BY <1>1, Invariant, PTL

(* Every document but that of the nil UUID has a row (UpdateProductProperty *)
(* indexes what it read, CreateProduct what it inserted).                   *)
THEOREM DocumentsAreOfRows == Spec => []DocumentsHaveRows
<1>1. IInv => DocumentsHaveRows
  BY DEF IInv, Base, RowsBehind
<1> QED BY <1>1, Invariant, PTL

(* No search indexes its slice out of range, whatever other requests and    *)
(* goroutines do between its two reads (SearchProducts).                    *)
THEOREM SearchesStayInBounds == Spec => []SearchInBounds
<1>1. IInv => SearchInBounds
  BY DEF IInv, Base, SearchesPlaceable
<1> QED BY <1>1, Invariant, PTL

(* A document nothing is about to write is the row's but for the rounding of *)
(* the insert, or gone with a product taken off sale.  Excepted are products *)
(* of which writes overlapped or one was lost and no start has come since    *)
(* (CreateProduct, UpdateProductProperty, DeleteProduct, rebuildIndex).      *)
THEOREM DocumentsAreCopies == Spec => []DocumentsFollowRows
<1>1. IInv => DocumentsFollowRows
  BY DEF IInv, AllFollow, Following, DocumentsFollowRows
<1> QED BY <1>1, Invariant, PTL
=============================================================================
