------------------------------ MODULE Catalog -------------------------------
(***************************************************************************)
(* The catalog (internal/product): products rows in PostgreSQL and their   *)
(* documents in Elasticsearch.  A handler writes the row, answers, and     *)
(* leaves the document to a goroutine nobody waits for; a start of the     *)
(* process writes all documents again from a read of all rows.  A product  *)
(* is named by the request that inserted it.  A document stands for what   *)
(* is copied from the product: texts and price as one value, and the       *)
(* status.                                                                 *)
(* A search reads the documents in one step and their rows in another, so  *)
(* the delay before a document is searchable is part of it.                *)
(* Operators named Bug... are plausible mistakes in the definition that    *)
(* follows them; the specification uses none, each breaks a property.      *)
(***************************************************************************)
EXTENDS Integers, Sequences, FiniteSets

CONSTANTS
    Calls,             \* requests to /product
    Users, Texts,
    Stored,            \* what a row keeps of a text: decimal(16,2) rounds its price
    NoText,            \* a PATCH without a field, and the text of a zero product
    Zero,              \* the nil UUID
    Asks,              \* what each request may ask for
    MaxFaults,         \* bounds of the environment
    MaxRestarts

Statuses == {"active", "inactive"}

Body == [op : {"create", "update", "status", "delete", "search"}, by : Users,
         target : Calls, text : Texts \cup {NoText}, status : Statuses]

ASSUME CallsAssumption ==
    /\ IsFiniteSet(Calls) /\ Zero \notin Calls
    /\ NoText \notin Texts /\ "nobody" \notin Users

ASSUME StoredAssumption == Stored \in [Texts -> Texts]

ASSUME AsksAssumption ==
    /\ Asks \in [Calls -> SUBSET Body]
    /\ \A c \in Calls : \A b \in Asks[c] : b.op = "create" => b.text \in Texts

VARIABLES
    body,              \* what each request asks for
    call,              \* progress and reply of each request
    row,               \* committed products rows, by id
    docs,              \* Elasticsearch: document by id
    task,              \* goroutine each request left behind
    rebuild,           \* the start's goroutine and the documents it has to write
    disturbed,         \* history: products a write concerned in a way the code
                       \*   does not answer for, until a start reads all rows
    restarts, faults

vars == <<body, call, row, docs, task, rebuild, disturbed, restarts, faults>>

-----------------------------------------------------------------------------
Ids == Calls \cup {Zero}

NoRow == [by |-> "nobody", text |-> NoText, status |-> "none"]
NoDoc == [text |-> NoText, status |-> "absent"]
NoTask == [id |-> Zero, doc |-> NoDoc]

Row == [by : Users, text : Texts, status : Statuses]
ZeroDoc == [text |-> NoText, status |-> "none"]
Doc == [text : Texts, status : Statuses] \cup {ZeroDoc}

CopyOf(r) == [text |-> r.text, status |-> r.status]

CallState ==
    [pc : {"idle", "read", "place", "done"}, ids : Seq(Ids),
     reply : {"none", "ok", "error", "panic"}]

TypeOK ==
    /\ body \in [Calls -> Body]
    /\ call \in [Calls -> CallState]
    /\ row \in [Calls -> Row \cup {NoRow}]
    /\ docs \in [Ids -> Doc \cup {NoDoc}]
    /\ task \in [Calls -> [id : Ids, doc : Doc \cup {NoDoc}]]
    /\ rebuild \in [pc : {"find", "bulk"}, docs : [Calls -> Doc \cup {NoDoc}]]
    /\ disturbed \subseteq Calls
    /\ restarts \in Nat /\ faults \in Nat

Nothing == [c \in Calls |-> NoDoc]

Init ==
    /\ body \in [Calls -> UNION {Asks[c] : c \in Calls}]
    /\ \A c \in Calls : body[c] \in Asks[c]
    /\ call = [c \in Calls |-> [pc |-> "idle", ids |-> <<>>, reply |-> "none"]]
    /\ row = [c \in Calls |-> NoRow]
    /\ docs = [i \in Ids |-> NoDoc]
    /\ task = [c \in Calls |-> NoTask]
    /\ rebuild = [pc |-> "find", docs |-> Nothing]
    /\ disturbed = {}
    /\ restarts = 0 /\ faults = 0

-----------------------------------------------------------------------------
(* Requests *)

Begins(c, op) == call[c].pc = "idle" /\ body[c].op = op

Finish(c, reply) == call' = [call EXCEPT ![c] = [@ EXCEPT !.pc = "done", !.reply = reply]]

Leave(c, id, doc) == task' = [task EXCEPT ![c] = [id |-> id, doc |-> doc]]

(* CreateProduct: the row has the price rounded.  The document is made of   *)
(* the product in memory, which has the price of the request: the INSERT    *)
(* reads no column back.                                                    *)
Inserted(c) == [by |-> body[c].by, text |-> Stored[body[c].text], status |-> body[c].status]
Given(c) == [text |-> body[c].text, status |-> body[c].status]

Insert(c) == row' = [row EXCEPT ![c] = Inserted(c)]

(* Something that may write the document of p is under way. *)
Busy(p) ==
    \/ \E c \in Calls : (call[c].pc = "read" /\ body[c].target = p) \/ task[c].id = p
    \/ rebuild.docs[p] # NoDoc

Changed == {p \in Calls : row'[p] # row[p]}

Overlapped == {p \in Changed : Busy(p)}

Disturb(P) == disturbed' = disturbed \cup P

(* The goroutine is started first, with the product about to be inserted. *)
BugIndexBeforeInsert(c) ==
    /\ Begins(c, "create")
    /\ \/ Insert(c) /\ Finish(c, "ok")
       \/ UNCHANGED row /\ Finish(c, "error")
    /\ Disturb(Overlapped)
    /\ Leave(c, c, Given(c))
    /\ UNCHANGED <<body, docs, rebuild, restarts, faults>>

CreateProduct(c) ==
    /\ Begins(c, "create")
    /\ Insert(c) /\ Disturb(Overlapped)
    /\ Leave(c, c, Given(c))
    /\ Finish(c, "ok")
    /\ UNCHANGED <<body, docs, rebuild, restarts, faults>>

(* The row is saved whole instead, which inserts one that is not there. *)
BugUpdateSaves(c, changed) == row' = [row EXCEPT ![body[c].target] = changed]

(* Repository.Update: UPDATE ... WHERE id = ? AND publisher = ?.  No row   *)
(* may match, which is no error.                                           *)
Update(c, changed) ==
    LET p == body[c].target
    IN  IF row[p].by = body[c].by
        THEN row' = [row EXCEPT ![p] = changed]
        ELSE UNCHANGED row

(* A PATCH without a field sends no statement. *)
WriteProperty(c) ==
    LET p == body[c].target
    IN  IF body[c].text = NoText THEN UNCHANGED row
        ELSE Update(c, [row[p] EXCEPT !.text = Stored[body[c].text]])

WriteStatus(c, status) == Update(c, [row[body[c].target] EXCEPT !.status = status])

UpdateProductProperty(c) ==
    /\ Begins(c, "update")
    /\ WriteProperty(c) /\ Disturb(Overlapped)
    /\ call' = [call EXCEPT ![c] = [@ EXCEPT !.pc = "read"]]
    /\ UNCHANGED <<body, docs, task, rebuild, restarts, faults>>

(* The product is read again and its error is dropped: one that is not     *)
(* found is a zero product, not nil, and its document has the nil UUID.    *)
ReadForIndex(c) ==
    LET p == body[c].target
    IN  IF row[p] = NoRow THEN Leave(c, Zero, ZeroDoc) ELSE Leave(c, p, CopyOf(row[p]))

GetUpdated(c) ==
    /\ call[c].pc = "read"
    /\ ReadForIndex(c)
    /\ Finish(c, "ok")
    /\ UNCHANGED <<body, row, docs, rebuild, disturbed, restarts, faults>>

(* UpdateProductStatus leaves the document alone. *)
UpdateProductStatus(c) ==
    /\ Begins(c, "status")
    /\ WriteStatus(c, body[c].status) /\ Disturb(Changed)
    /\ Finish(c, "ok")
    /\ UNCHANGED <<body, docs, task, rebuild, restarts, faults>>

(* The product stays on sale, and its document goes. *)
Unlisted(p) == IF row'[p].status = "inactive" THEN {} ELSE {p}

(* DeleteProduct makes the row inactive, and removes the document whether  *)
(* or not a row matched.                                                   *)
DeleteProduct(c) ==
    /\ Begins(c, "delete")
    /\ WriteStatus(c, "inactive")
    /\ Disturb(Overlapped \cup Unlisted(body[c].target))
    /\ Leave(c, body[c].target, NoDoc)
    /\ Finish(c, "ok")
    /\ UNCHANGED <<body, docs, rebuild, restarts, faults>>

(* search: the matching documents, by score and then the latest first; the *)
(* zero document, created in year 1, has no text and no score of its own,  *)
(* so it matches only where all scores are equal, and comes last.          *)
BugOrderByScore(s) == TRUE
Ordered(s) == \A i \in DOMAIN s : s[i] = Zero => i = Len(s)

SearchIds(c) ==
    /\ Begins(c, "search")
    /\ \E S \in SUBSET {i \in Ids : docs[i] # NoDoc} :
       \E s \in [1 .. Cardinality(S) -> S] :
          /\ {s[i] : i \in DOMAIN s} = S /\ Ordered(s)
          /\ \/ s = <<>> /\ Finish(c, "ok")
             \/ /\ s # <<>>
                /\ call' = [call EXCEPT ![c] = [@ EXCEPT !.pc = "place", !.ids = s]]
    /\ UNCHANGED <<body, row, docs, task, rebuild, disturbed, restarts, faults>>

Found(ids) == {i \in DOMAIN ids : ids[i] # Zero /\ row[ids[i]] # NoRow}

(* FindByIDs, and each product put at the place its id has among the ids,  *)
(* in a slice of the length of the products found.                         *)
PlaceProducts(c) ==
    /\ call[c].pc = "place"
    /\ LET places == Found(call[c].ids)
           fits == \A i \in places : i <= Cardinality(places)
           reply == IF fits THEN "ok" ELSE "panic"
       IN  call' = [call EXCEPT ![c] =
                       [@ EXCEPT !.pc = "done", !.ids = <<>>, !.reply = reply]]
    /\ UNCHANGED <<body, row, docs, task, rebuild, disturbed, restarts, faults>>

Write(c) ==
    \/ body[c].op = "create" /\ Insert(c)
    \/ body[c].op = "update" /\ WriteProperty(c)
    \/ body[c].op = "status" /\ WriteStatus(c, body[c].status)
    \/ body[c].op = "delete" /\ WriteStatus(c, "inactive")

(* A statement or the query of the search fails, or the statement's answer *)
(* is lost after it committed: no goroutine is started.                    *)
CallFails(c) ==
    /\ call[c].pc \in {"idle", "place"} /\ faults < MaxFaults
    /\ call' = [call EXCEPT ![c] =
                   [@ EXCEPT !.pc = "done", !.ids = <<>>, !.reply = "error"]]
    /\ UNCHANGED row \/ (call[c].pc = "idle" /\ Write(c))
    /\ Disturb(Changed)
    /\ faults' = faults + 1
    /\ UNCHANGED <<body, docs, task, rebuild, restarts>>

(* The read after an update fails; that error is dropped too. *)
GetUpdatedFails(c) ==
    /\ call[c].pc = "read" /\ faults < MaxFaults
    /\ Leave(c, Zero, ZeroDoc)
    /\ Disturb({body[c].target})
    /\ Finish(c, "ok")
    /\ faults' = faults + 1
    /\ UNCHANGED <<body, row, docs, rebuild, restarts>>

-----------------------------------------------------------------------------
(* Goroutines: index and remove, in whatever order they come to run. *)

RunTask(c) ==
    /\ task[c] # NoTask
    /\ docs' = [docs EXCEPT ![task[c].id] = task[c].doc]
    /\ task' = [task EXCEPT ![c] = NoTask]
    /\ UNCHANGED <<body, call, row, rebuild, disturbed, restarts, faults>>

(* A failure is logged and the document left as it is. *)
TaskFails(c) ==
    /\ task[c] # NoTask /\ faults < MaxFaults
    /\ Disturb({task[c].id} \ {Zero})
    /\ task' = [task EXCEPT ![c] = NoTask]
    /\ faults' = faults + 1
    /\ UNCHANGED <<body, call, row, docs, rebuild, restarts>>

(* Only the products on sale are read. *)
BugFindActive ==
    [p \in Calls |-> IF row[p].status = "active" THEN CopyOf(row[p]) ELSE NoDoc]

AllDocuments == [p \in Calls |-> IF row[p] = NoRow THEN NoDoc ELSE CopyOf(row[p])]

(* The start's goroutine: FindAll, which may come after the first requests. *)
FindAll ==
    /\ rebuild.pc = "find"
    /\ rebuild' = [pc |-> "bulk", docs |-> AllDocuments]
    /\ disturbed' = {p \in disturbed : Busy(p)}
    /\ UNCHANGED <<body, call, row, docs, task, restarts, faults>>

FindAllFails ==
    /\ rebuild.pc = "find" /\ faults < MaxFaults
    /\ rebuild' = [rebuild EXCEPT !.pc = "bulk"]
    /\ faults' = faults + 1
    /\ UNCHANGED <<body, call, row, docs, task, disturbed, restarts>>

(* One document of a batch: the requests of a bulk are applied one by one.  *)
RebuildIndex(p) ==
    /\ rebuild.docs[p] # NoDoc
    /\ docs' = [docs EXCEPT ![p] = rebuild.docs[p]]
    /\ rebuild' = [rebuild EXCEPT !.docs[p] = NoDoc]
    /\ UNCHANGED <<body, call, row, task, disturbed, restarts, faults>>

(* What is left of a batch fails, which is logged. *)
BulkFails ==
    /\ rebuild.docs # Nothing /\ faults < MaxFaults
    /\ Disturb({p \in Calls : rebuild.docs[p] # NoDoc})
    /\ rebuild' = [rebuild EXCEPT !.docs = Nothing]
    /\ faults' = faults + 1
    /\ UNCHANGED <<body, call, row, docs, task, restarts>>

(* The process ends and starts again: open requests and goroutines are gone. *)
Restart ==
    /\ restarts < MaxRestarts
    /\ call' = [c \in Calls |-> IF call[c].pc \in {"read", "place"}
                                THEN [pc |-> "done", ids |-> <<>>, reply |-> "error"]
                                ELSE call[c]]
    /\ task' = [c \in Calls |-> NoTask]
    /\ rebuild' = [pc |-> "find", docs |-> Nothing]
    /\ Disturb({p \in Calls : Busy(p)})
    /\ restarts' = restarts + 1
    /\ UNCHANGED <<body, row, docs, faults>>

AllDone ==
    /\ \A c \in Calls : call[c].pc = "done" /\ task[c] = NoTask
    /\ rebuild = [pc |-> "bulk", docs |-> Nothing]

Quiescent == AllDone /\ UNCHANGED vars

CallStep(c) ==
    \/ CreateProduct(c) \/ UpdateProductProperty(c) \/ GetUpdated(c)
    \/ UpdateProductStatus(c) \/ DeleteProduct(c)
    \/ SearchIds(c) \/ PlaceProducts(c)

Next ==
    \/ \E c \in Calls :
          CallStep(c) \/ CallFails(c) \/ GetUpdatedFails(c) \/ RunTask(c) \/ TaskFails(c)
    \/ FindAll \/ FindAllFails \/ BulkFails
    \/ \E p \in Calls : RebuildIndex(p)
    \/ Restart
    \/ Quiescent

Spec == Init /\ [][Next]_vars

-----------------------------------------------------------------------------
(* Properties *)

(* A document of any id but the nil UUID has a row, whatever failed in     *)
(* between: the goroutine of an insert starts after it, and rows stay.     *)
DocumentsHaveRows == \A p \in Calls : docs[p] # NoDoc => row[p] # NoRow

(* SearchProducts never indexes its slice out of range, though an id may   *)
(* have no row: the only such id is the nil UUID, and it is the last.      *)
SearchInBounds == \A c \in Calls : call[c].reply # "panic"

(* The copy of the row; or what the row was inserted from and is the        *)
(* rounded copy of; or none of a product taken off sale.                    *)
Follows(given, r, doc) ==
    \/ doc = CopyOf(r)
    \/ doc = given /\ CopyOf(r) = [given EXCEPT !.text = Stored[@]]
    \/ doc = NoDoc /\ r.status = "inactive"

(* A document nothing is about to write follows its row: it differs by no   *)
(* more than the rounding of the insert.  A start makes it do so again.     *)
(* Excepted are the products of which a write overlapped another one on its *)
(* way to the document, the status was changed, a goroutine was lost, or    *)
(* the document was removed by a user whose product it is not.              *)
DocumentsFollowRows ==
    \A p \in Calls \ disturbed :
        row[p] # NoRow /\ ~Busy(p) => Follows(Given(p), row[p], docs[p])
=============================================================================
