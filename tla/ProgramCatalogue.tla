-------------------------- MODULE ProgramCatalogue --------------------------
(***************************************************************************)
(* The caches of the program catalogue of program-rpc, for one program: the *)
(* rows in MySQL, their copies in Redis (L2, the cached models), and in     *)
(* each process the detail view and the category snapshot (L1).  A write    *)
(* commits, deletes the L2 keys, drops the L1 view of its own process and   *)
(* publishes an invalidation message to the others.  The preheat worker     *)
(* writes its mark past all of them.  Rows are represented by a version     *)
(* number; version 0 is a row that does not exist.                          *)
(***************************************************************************)
EXTENDS Integers, Sequences, FiniteSets

CONSTANTS
    Instances,          \* processes of program-rpc
    Readers, Writers,   \* those of them that serve the reads and the writes of the instance
    Flaky,              \* those of them whose subscription may break
    Rows,               \* the rows an instance of the model has
    Missing,            \* the sets of rows that may not exist at first
    MaxEdits, MaxMarks, MaxFaults \* bounds of the instance

\* The rows a detail view is made of, in the order DetailLoader.Load reads them,
\* and the places of those that the instance has.
LoadOrder == <<"program", "show", "category", "group", "ticket">>
Reads == {n \in 1..5 : LoadOrder[n] \in Rows}

\* L2 keys: program, first show time and group; the show time is also kept
\* under its own id.
RowOf(key) == IF key = "showById" THEN "show" ELSE key
L2Rows == {"program", "show", "group"} \cap Rows
L2Keys == {k \in {"program", "show", "group", "showById"} : RowOf(k) \in Rows}

ASSUME CatalogueAssumption ==
    /\ Readers \cup Writers \cup Flaky \subseteq Instances
    /\ {"program", "category"} \subseteq Rows
    /\ Rows \subseteq {"program", "show", "category", "group", "ticket"}
    /\ \A m \in Missing : "program" \in m => Rows \cap {"show"} \subseteq m

VARIABLES
    ver,       \* row -> version in MySQL
    l2,        \* L2 key -> version, NoCopy if there is no key
    view,      \* process -> L1 detail view, NoView if none
    snapshot,  \* process -> L1 category snapshot, NoCopy if none
    loader,    \* process -> the single load under way
    writer,    \* process -> the write under way
    inbox,     \* process -> number of messages sent to it, by cache
    online,    \* process -> the subscription is up
    edits, faults,
    silent,    \* history: the versions of the program that the preheat worker wrote
    excused    \* history: an invalidation was lost or met a load under way

cacheVars == <<l2, view, snapshot>>
catalogueVars ==
    <<ver, cacheVars, loader, writer, inbox, online, edits, faults, silent, excused>>

NoCopy == -1
NoView == [r \in Rows |-> NoCopy]
NoLoad == [at |-> 0, got |-> NoView, fill |-> NoCopy]
NoWrite == [at |-> "idle", topic |-> "detail"]
Topics == {"detail", "category"}
NoMessages == [topic \in Topics |-> 0]

CatalogueInit ==
    /\ \E m \in Missing : ver = [r \in Rows |-> IF r \in m THEN 0 ELSE 1]
    /\ l2 = [k \in L2Keys |-> NoCopy]
    /\ view = [i \in Instances |-> NoView]
    /\ snapshot = [i \in Instances |-> NoCopy]
    /\ loader = [i \in Instances |-> NoLoad]
    /\ writer = [i \in Instances |-> NoWrite]
    /\ inbox = [i \in Instances |-> NoMessages]
    /\ online = [i \in Instances |-> TRUE]
    /\ edits = 0
    /\ faults = 0
    /\ silent = {}
    /\ excused = FALSE

-----------------------------------------------------------------------------
(* Reads that go past the caches.  Whether the program matches the          *)
(* conditions of a query (area, categories, times, program_status) is left   *)
(* to the caller of these operators.                                        *)

Exists(r) == r \in Rows => ver[r] # 0

Row(r) == IF r \in Rows THEN ver[r] ELSE 0

FindAll == Row("category")

FindByProgramId == Row("ticket")

ToProgramListInfo ==
    [program |-> Row("program"), show |-> Row("show"),
     category |-> FindAll, ticket |-> FindByProgramId]

\* The programs of a page, and of the home list.
FindPageList(matches) == {r \in {"program"} : matches /\ Exists(r)}

FindHomeList(matches) == {r \in {"program"} : matches /\ Exists(r)}

PagePrograms(matches) == {ToProgramListInfo : p \in FindPageList(matches)}

ListHomePrograms(matches) == {ToProgramListInfo : p \in FindHomeList(matches)}

ListProgramCategories == FindAll

-----------------------------------------------------------------------------
(* Reads: ProgramDetailViewCache.Get.  A miss is loaded once per process.   *)

Loading(i) == loader[i].at # 0

\* An L1 hit changes nothing.
Get(i) ==
    /\ i \in Readers
    /\ view[i] = NoView
    /\ ~Loading(i)
    /\ loader' = [loader EXCEPT ![i].at = 1]
    /\ UNCHANGED <<ver, cacheVars, writer, inbox, online, edits, faults, silent, excused>>

RowAt(i) == LoadOrder[loader[i].at]

\* What the cache in front of a row holds; ticket categories have none.
CopyOf(i, r) ==
    CASE r \in L2Rows -> l2[r]
      [] r = "category" -> snapshot[i]
      [] OTHER -> NoCopy

Got(i, v) == [loader[i].got EXCEPT ![RowAt(i)] = v]

\* A row that does not exist ends the load with ErrProgramNotFound, which is
\* kept in L1 as well.
Advance(i, got) ==
    LET later == {n \in Reads : n > loader[i].at} IN
    IF got[RowAt(i)] = 0 \/ later = {}
      THEN /\ view' = [view EXCEPT ![i] = got]
           /\ loader' = [loader EXCEPT ![i] = NoLoad]
      ELSE /\ view' = view
           /\ \E n \in later :
                /\ \A m \in later : n <= m
                /\ loader' = [loader EXCEPT ![i] = [at |-> n, got |-> got, fill |-> NoCopy]]

Lookup(i) ==
    /\ Loading(i)
    /\ loader[i].fill = NoCopy
    /\ LET copy == CopyOf(i, RowAt(i)) IN
       \/ copy # NoCopy /\ Advance(i, Got(i, copy))
       \/ copy = NoCopy /\ RowAt(i) = "ticket" /\ Advance(i, Got(i, FindByProgramId))
       \/ /\ copy = NoCopy /\ RowAt(i) # "ticket"
          /\ loader' = [loader EXCEPT ![i].fill = ver[RowAt(i)]]
          /\ view' = view
    /\ UNCHANGED <<ver, l2, snapshot, writer, inbox, online, edits, faults, silent, excused>>

\* QueryRow and GetAll store what they have read; the placeholder of a row
\* that does not exist is set only if there is no key.
Fill(i) ==
    LET r == RowAt(i)
        v == loader[i].fill IN
    /\ Loading(i)
    /\ v # NoCopy
    /\ IF r = "category"
         THEN snapshot' = [snapshot EXCEPT ![i] = v] /\ l2' = l2
         ELSE /\ l2' = IF v = 0 /\ l2[r] # NoCopy THEN l2 ELSE [l2 EXCEPT ![r] = v]
              /\ snapshot' = snapshot
    /\ Advance(i, Got(i, v))
    /\ UNCHANGED <<ver, writer, inbox, online, edits, faults, silent, excused>>

\* GetProgramPreorder and the seat handlers read the show time by its id.
FindShowTime ==
    /\ "showById" \in L2Keys
    /\ Exists("show")
    /\ l2["showById"] = NoCopy
    /\ l2' = [l2 EXCEPT !["showById"] = ver["show"]]
    /\ UNCHANGED <<ver, view, snapshot, loader, writer, inbox, online, edits, faults, silent, excused>>

\* Expiry of an entry, or its eviction at the size limit of the cache.
ExpireView(i) ==
    /\ view[i] # NoView
    /\ view' = [view EXCEPT ![i] = NoView]
    /\ UNCHANGED <<ver, l2, snapshot, loader, writer, inbox, online, edits, faults, silent, excused>>

ExpireSnapshot(i) ==
    /\ snapshot[i] # NoCopy
    /\ snapshot' = [snapshot EXCEPT ![i] = NoCopy]
    /\ UNCHANGED <<ver, l2, view, loader, writer, inbox, online, edits, faults, silent, excused>>

\* Faulty: the copy under the id of the show time is stored without a TTL.
ExpireKeyOfRow(k) ==
    /\ k \in L2Rows
    /\ l2[k] # NoCopy
    /\ l2' = [l2 EXCEPT ![k] = NoCopy]
    /\ UNCHANGED <<ver, view, snapshot, loader, writer, inbox, online, edits, faults, silent, excused>>

ExpireKey(k) ==
    /\ l2[k] # NoCopy
    /\ l2' = [l2 EXCEPT ![k] = NoCopy]
    /\ UNCHANGED <<ver, view, snapshot, loader, writer, inbox, online, edits, faults, silent, excused>>

-----------------------------------------------------------------------------
(* Writes.                                                                  *)

\* New values of a row are a new version.
Written(rows) == [r \in Rows |-> IF r \in rows THEN ver[r] + 1 ELSE ver[r]]

\* The transaction of a write that changes "rows" and is answered with an
\* error unless "found"; afterwards the handler invalidates.
Commit(i, topic, rows, found) ==
    /\ writer[i].at = "idle"
    /\ edits < MaxEdits
    /\ found
    /\ ver' = Written(rows)
    /\ writer' = [writer EXCEPT ![i] =
                    [at |-> IF topic = "category" THEN "snapshot" ELSE "keys", topic |-> topic]]
    /\ edits' = edits + 1
    /\ UNCHANGED <<view, snapshot, loader, inbox, online, faults, silent, excused>>

InsertWithSession(i) == Commit(i, "detail", {"program"}, Row("program") = 0)

\* A new id, whose group must exist.
CreateProgram(i) ==
    InsertWithSession(i) /\ UNCHANGED l2

FindOneForUpdate == Exists("program")

\* The locked row is updated and, if the sale window moved, scheduled again.
UpdateProgram(i) ==
    Commit(i, "detail", {"program"}, FindOneForUpdate) /\ UNCHANGED l2

\* The update goes through the cached model, which deletes the key itself.
InvalidProgram(i) ==
    /\ Commit(i, "detail", {"program"}, Exists("program"))
    /\ l2' = [k \in L2Keys |-> IF k = "program" THEN NoCopy ELSE l2[k]]

\* The show time, the recent date of the group and the preheat mark.
CreateProgramShowTime(i) ==
    Commit(i, "detail", {"show", "group", "program"}, Exists("program")) /\ UNCHANGED l2

UpdateProgramShowTime(i) ==
    Commit(i, "detail", {"show"}, Exists("show")) /\ UNCHANGED l2

CreateTicketCategory(i) ==
    Commit(i, "detail", {"ticket"}, Exists("program")) /\ UNCHANGED l2

\* The seats are set free; the catalogue does not change.
ResetProgram(i) == Commit(i, "detail", {}, Exists("program")) /\ UNCHANGED l2

BatchCreateProgramCategories(i) ==
    Commit(i, "category", {"category"}, TRUE) /\ UNCHANGED l2

\* MarkInventoryPreheatedByProgramAndTaskProcessed of the preheat worker updates the
\* status in d_program, which the view shows, and invalidates nothing.
MarkInventoryPreheated ==
    /\ Exists("program")
    /\ Cardinality(silent) < MaxMarks
    /\ ver' = Written({"program"})
    /\ silent' = silent \cup {ver'["program"]}
    /\ UNCHANGED <<cacheVars, loader, writer, inbox, online, edits, faults, excused>>

AnyLoad == \E i \in Instances : Loading(i)

\* InvalidateProgram: first the keys of L2 ...
DeleteKeys(i) ==
    /\ writer[i].at = "keys"
    /\ l2' = [k \in L2Keys |-> IF k \in L2Rows THEN NoCopy ELSE l2[k]]
    /\ writer' = [writer EXCEPT ![i].at = "view"]
    /\ excused' = (excused \/ AnyLoad)
    /\ UNCHANGED <<ver, view, snapshot, loader, inbox, online, edits, faults, silent>>

\* ... then the view of this process, then the message.
InvalidateView(i) ==
    /\ writer[i].at = "view"
    /\ view' = [view EXCEPT ![i] = NoView]
    /\ writer' = [writer EXCEPT ![i].at = "publish"]
    /\ excused' = (excused \/ Loading(i))
    /\ UNCHANGED <<ver, l2, snapshot, loader, inbox, online, edits, faults, silent>>

\* InvalidateCategorySnapshot; a detail view keeps the names it was built with.
InvalidateCategorySnapshot(i) ==
    /\ writer[i].at = "snapshot"
    /\ snapshot' = [snapshot EXCEPT ![i] = NoCopy]
    /\ writer' = [writer EXCEPT ![i].at = "publish"]
    /\ excused' = (excused \/ Loading(i))
    /\ UNCHANGED <<ver, l2, view, loader, inbox, online, edits, faults, silent>>

\* Redis forwards a message to the subscribers of this moment.
Publish(i) ==
    LET topic == writer[i].topic IN
    /\ writer[i].at = "publish"
    /\ inbox' = [j \in Instances |->
                   IF online[j] THEN [inbox[j] EXCEPT ![topic] = @ + 1] ELSE inbox[j]]
    /\ excused' = (excused \/ \E j \in Instances : ~online[j])
    /\ writer' = [writer EXCEPT ![i] = NoWrite]
    /\ UNCHANGED <<ver, cacheVars, loader, online, edits, faults, silent>>

\* The DEL or the PUBLISH fails: the error is logged and the rest left out.
InvalidationFails(i) ==
    /\ writer[i].at \in {"keys", "publish"}
    /\ faults < MaxFaults
    /\ faults' = faults + 1
    /\ writer' = [writer EXCEPT ![i] = NoWrite]
    /\ excused' = TRUE
    /\ UNCHANGED <<ver, cacheVars, loader, inbox, online, edits, silent>>

-----------------------------------------------------------------------------
(* The subscriber of a process.                                             *)

\* Faulty: the registry has no entry for the category cache.
DispatchDetailOnly(i, topic) ==
    /\ online[i]
    /\ inbox[i][topic] > 0
    /\ inbox' = [inbox EXCEPT ![i][topic] = @ - 1]
    /\ view' = IF topic = "detail" THEN [view EXCEPT ![i] = NoView] ELSE view
    /\ excused' = (excused \/ Loading(i))
    /\ UNCHANGED <<ver, l2, snapshot, loader, writer, online, edits, faults, silent>>

Dispatch(i, topic) ==
    /\ online[i]
    /\ inbox[i][topic] > 0
    /\ inbox' = [inbox EXCEPT ![i][topic] = @ - 1]
    /\ view' = IF topic = "detail" THEN [view EXCEPT ![i] = NoView] ELSE view
    /\ snapshot' = IF topic = "category" THEN [snapshot EXCEPT ![i] = NoCopy] ELSE snapshot
    /\ excused' = (excused \/ Loading(i))
    /\ UNCHANGED <<ver, l2, loader, writer, online, edits, faults, silent>>

\* The connection breaks: what was under way to it is lost.
Disconnect(i) ==
    /\ i \in Flaky
    /\ online[i]
    /\ faults < MaxFaults
    /\ faults' = faults + 1
    /\ online' = [online EXCEPT ![i] = FALSE]
    /\ inbox' = [inbox EXCEPT ![i] = NoMessages]
    /\ excused' = (excused \/ inbox[i] # NoMessages)
    /\ UNCHANGED <<ver, cacheVars, loader, writer, edits, silent>>

\* Start subscribes again after its backoff; the caches stay as they are.
Reconnect(i) ==
    /\ ~online[i]
    /\ online' = [online EXCEPT ![i] = TRUE]
    /\ UNCHANGED <<ver, cacheVars, loader, writer, inbox, edits, faults, silent, excused>>

-----------------------------------------------------------------------------
Read(i) == Get(i) \/ Lookup(i) \/ Fill(i)

Write(i) ==
    \/ CreateProgram(i) \/ UpdateProgram(i) \/ InvalidProgram(i)
    \/ CreateProgramShowTime(i) \/ UpdateProgramShowTime(i)
    \/ CreateTicketCategory(i) \/ ResetProgram(i) \/ BatchCreateProgramCategories(i)

Expire(i) == ExpireView(i) \/ ExpireSnapshot(i)

Invalidate(i) ==
    DeleteKeys(i) \/ InvalidateView(i) \/ InvalidateCategorySnapshot(i) \/ Publish(i)

CatalogueNext ==
    \/ FindShowTime \/ MarkInventoryPreheated
    \/ \E k \in L2Keys : ExpireKey(k)
    \/ \E i \in Instances :
          \/ Read(i) \/ Expire(i) \/ Invalidate(i) \/ InvalidationFails(i)
          \/ i \in Writers /\ Write(i)
          \/ \E topic \in Topics : Dispatch(i, topic)
          \/ Disconnect(i) \/ Reconnect(i)

CatalogueSpec == CatalogueInit /\ [][CatalogueNext]_catalogueVars

\* Handlers run to their end and every entry has a TTL.
FairSpec ==
    /\ CatalogueSpec
    /\ \A k \in L2Keys : WF_catalogueVars(ExpireKey(k))
    /\ \A i \in Instances :
         /\ WF_catalogueVars(Lookup(i) \/ Fill(i))
         /\ WF_catalogueVars(ExpireView(i))
         /\ WF_catalogueVars(ExpireSnapshot(i))

-----------------------------------------------------------------------------
Copies == Nat \cup {NoCopy}

\* Types of the rows, the caches and the calls under way.
CatalogueTypeOK ==
    /\ ver \in [Rows -> Nat]
    /\ l2 \in [L2Keys -> Copies]
    /\ view \in [Instances -> [Rows -> Copies]]
    /\ snapshot \in [Instances -> Copies]
    /\ loader \in [Instances -> [at : {0} \cup Reads, got : [Rows -> Copies], fill : Copies]]
    /\ writer \in [Instances -> [at : {"idle", "keys", "view", "snapshot", "publish"},
                                 topic : Topics]]
    /\ inbox \in [Instances -> [Topics -> Nat]]
    /\ online \in [Instances -> BOOLEAN]
    /\ edits \in Nat
    /\ faults \in Nat
    /\ silent \subseteq Nat /\ IsFiniteSet(silent)
    /\ excused \in BOOLEAN

Current(copy, row) == copy \in {NoCopy, ver[row]}

Quiet == \A i \in Instances : writer[i].at = "idle" /\ inbox[i] = NoMessages

\* A copy is that of version v, but for the marks of the preheat worker.
UpToMarks(copy, v) ==
    \/ copy = NoCopy
    \/ copy <= v /\ \A w \in (copy + 1)..v : w \in silent

\* Once the writes have been published and the messages handled, the detail
\* view of every process agrees with the lists, which are read from the
\* database, on its show time and its prices, and its categories with the
\* category list; and on the program except for the preheat status, of which it
\* may show an older one.  Only if an invalidation was lost or met a load that
\* was under way may there be more between them.
ViewsCurrent ==
    Quiet /\ ~excused =>
        /\ \A i \in Instances :
             /\ snapshot[i] \in {NoCopy, ListProgramCategories}
             /\ \A matches \in BOOLEAN :
                \A info \in PagePrograms(matches) \cup ListHomePrograms(matches) :
                   /\ UpToMarks(view[i]["program"], info["program"])
                   /\ \A r \in Rows \cap {"show", "ticket"} : view[i][r] \in {NoCopy, info[r]}
        /\ UpToMarks(l2["program"], ver["program"])
        /\ \A k \in L2Rows \ {"program"} : Current(l2[k], k)

\* Whatever was lost, the expiry of the entries lets every cache become
\* current: an old copy is never handed on from one cache to another for ever.
CachesConverge ==
    <>[](/\ \A i \in Instances : /\ Current(snapshot[i], "category")
                                 /\ \A r \in Rows : Current(view[i][r], r)
         /\ \A k \in L2Keys : Current(l2[k], RowOf(k)))
=============================================================================
