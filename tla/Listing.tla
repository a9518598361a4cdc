------------------------------- MODULE Listing -------------------------------
(***************************************************************************)
(* The listings of the drive and the requests that change what they list.  *)
(* A client walks through a listing page by page, each page in a           *)
(* transaction of its own, while requests create, rename, move, trash,     *)
(* restore and purge entries, mark favourites and record opens.  One       *)
(* folder is observed: an entry is in it, elsewhere in the tree, in the    *)
(* trash or gone.  The listings are the folder by name, by date and by     *)
(* kind, the favourites, the recent opens and the trash.                   *)
(*                                                                         *)
(* A request holds FOR UPDATE on its entry from Lock until it commits.     *)
(* Every reading of the clock is a new instant (microseconds in the code). *)
(* Storage commands read it before they wait for the lock, the activity    *)
(* commands after.  open_count is left out: no code reads it.              *)
(***************************************************************************)
EXTENDS Integers, FiniteSets, Sequences

CONSTANTS Existing,   \* entries in the folder at the start: 1 .. Existing
          NumEntries, \* entries there can ever be: identifiers are not reused
          NumNames,   \* names of entries
          Requests,   \* requests that change something
          MaxLimit,   \* rows of a page: 200 in the code
          Second      \* clock readings in a second

ASSUME ListingAssumption ==
    /\ {Existing, NumEntries, NumNames, MaxLimit, Second} \subseteq Nat \ {0}
    /\ Existing <= NumEntries /\ Existing <= NumNames

VARIABLES
    clock,    \* the last reading of the clock
    row,      \* storage_entries, with the time of the tombstone
    favorite, \* favorites: created_at by entry, 0 for none
    opened,   \* recent_opens: opened_at by entry, 0 for none
    req,      \* the requests
    walk,     \* the client's walk through a listing
    cached,   \* its copy of the first page of the folder
    steady    \* history: entries listed under the same key since the walk began

vars == <<clock, row, favorite, opened, req, walk, cached, steady>>

Entries == 1 .. NumEntries
Names   == 1 .. NumNames
Places  == {"absent", "here", "elsewhere", "trash", "purged"}
FolderSorts == {"name", "date", "kind"}
Filters == {Names, {1, NumNames}}
Sources == FolderSorts \cup {"favorites", "recents", "trash"}
StorageOps  == {"create", "rename", "move", "trash", "restore", "purge"}
ActivityOps == {"favorite", "unfavorite", "open"}

\* The entry exists and deleted_at is null.
Alive(e) == row[e].place \in {"here", "elsewhere"}

(***************************************************************************)
(* Queries.                                                                *)
(***************************************************************************)

\* _apply_list_filters: here the names that name_contains admits.
Filtered(e, filter) == row[e].name \in filter

\* The rows that the WHERE clause of a listing admits, without its cursor.
Listed(source, filter, e) ==
    CASE source \in FolderSorts -> row[e].place = "here" /\ Filtered(e, filter)
      [] source = "favorites"   -> Alive(e) /\ favorite[e] # 0
      [] source = "recents"     -> Alive(e) /\ opened[e] # 0
      [] source = "trash"       -> row[e].place = "trash"

\* _list_sort_expression, and occurred_at or trashed_at of the other listings.
\* The kind of an entry, like the size of a file, never changes; here the parity
\* of its identifier.  The second key of the trash listing is the identifier of the
\* tombstone; an entry has one tombstone at a time, so its own identifier stands for it.
SortKey(source, e) ==
    CASE source = "name"      -> row[e].name
      [] source = "date"      -> row[e].updated
      [] source = "kind"      -> e % 2
      [] source = "favorites" -> favorite[e]
      [] source = "recents"   -> opened[e]
      [] source = "trash"     -> row[e].trashed

KeySet(source, e) == <<SortKey(source, e), e>>

\* PostgreSQL's comparison of the pairs (key, id) in the direction of the walk.
Precedes(asc, a, b) ==
    LET Less(x, y) == x[1] < y[1] \/ (x[1] = y[1] /\ x[2] < y[2])
    IN  IF asc THEN Less(a, b) ELSE Less(b, a)

\* The cursor of a walk that has no page yet.
NoCursor == <<>>

\* Faulty variant: only the sort key is compared.
AfterCursorKeyOnly(asc, cursor, key) ==
    \/ cursor = NoCursor
    \/ IF asc THEN cursor[1] < key[1] ELSE cursor[1] > key[1]

\* The keyset condition of list_children, _list_activity and list_trash.
AfterCursor(asc, cursor, key) == cursor = NoCursor \/ Precedes(asc, cursor, key)

\* What a response tells about an entry.
Item(source, e) ==
    [id |-> e, key |-> KeySet(source, e), name |-> row[e].name,
     updated |-> row[e].updated, favorite |-> favorite[e] # 0]

\* ORDER BY key, id: the i-th row is the one that i rows do not come after.
Ordered(source, asc, found) ==
    [i \in 1 .. Cardinality(found) |->
        CHOOSE e \in found :
            Cardinality({d \in found :
                d = e \/ Precedes(asc, KeySet(source, d), KeySet(source, e))}) = i]

\* The rows that follow the cursor.
Found(source, filter, asc, cursor) ==
    {e \in Entries : /\ Listed(source, filter, e)
                     /\ AfterCursor(asc, cursor, KeySet(source, e))}

\* limit + 1 rows are read; the page is the first limit of them and the cursor
\* is taken from its last row when there was one more.
Page(source, filter, asc, limit, cursor) ==
    LET found == Found(source, filter, asc, cursor)
        rows  == Ordered(source, asc, found)
        more  == Cardinality(found) > limit
    IN  [items |-> [i \in 1 .. IF more THEN limit ELSE Cardinality(found) |->
                       Item(source, rows[i])],
         next  |-> IF more THEN KeySet(source, rows[limit]) ELSE NoCursor]

(***************************************************************************)
(* Initial state: the entries of the folder were created, then marked as   *)
(* favourites, then opened and, if the client lists the trash, trashed.    *)
(* The favourites, the recent opens and the trash have no filter and are   *)
(* always newest first.                                                    *)
(***************************************************************************)

NoRow  == [place |-> "absent", name |-> 1, updated |-> 0, trashed |-> 0]
Idle   == [pc |-> "idle", op |-> "open", e |-> 1, name |-> 1, now |-> 0]
Done   == [Idle EXCEPT !.pc = "done"]
NoPage == [items |-> <<>>, next |-> NoCursor]

\* The entry as it is at the start of a walk through source.
FirstRow(source, e) ==
    [place |-> IF source = "trash" THEN "trash" ELSE "here", name |-> e, updated |-> e,
     trashed |-> IF source = "trash" THEN 3 * Existing + e ELSE 0]

Init ==
    /\ clock = 4 * Existing
    /\ favorite = [e \in Entries |-> IF e <= Existing THEN Existing + e ELSE 0]
    /\ opened = [e \in Entries |-> IF e <= Existing THEN 2 * Existing + e ELSE 0]
    /\ req = [r \in Requests |-> Idle]
    /\ \E source \in Sources, asc \in BOOLEAN, filter \in Filters, limit \in 1 .. MaxLimit :
          /\ source \notin FolderSorts => ~ asc /\ filter = Names
          /\ row = [e \in Entries |-> IF e <= Existing THEN FirstRow(source, e) ELSE NoRow]
          /\ walk = [pc |-> "walking", source |-> source, filter |-> filter, asc |-> asc,
                     limit |-> limit, cursor |-> NoCursor, page |-> NoPage, seen |-> <<>>]
          /\ steady = {e \in Entries : Listed(source, filter, e)}
    /\ cached = NoPage

(***************************************************************************)
(* Requests that change what is listed.                                    *)
(***************************************************************************)

\* Faulty variant: every command calls clock.now() first.
AlwaysStampedOnArrival(op) == TRUE

\* Storage commands call clock.now() first, the activity commands when they
\* hold the row.
StampedOnArrival(op) == op \in StorageOps

\* What a request can name: an entry or a tombstone that the client was shown,
\* or the identifier that the server draws for a creation.
Known(op, e) ==
    CASE op = "create" -> /\ row[e].place = "absent"
                          /\ \A r \in Requests : ~(req[r].op = "create" /\ req[r].e = e)
      [] op \in {"restore", "purge"} -> row[e].place = "trash"
      [] OTHER -> row[e].place \notin {"absent", "purged"}

\* The request arrives.
Begin(r) ==
    /\ req[r].pc = "idle"
    /\ \E op \in StorageOps \cup ActivityOps, e \in Entries, n \in Names :
          /\ Known(op, e)
          /\ op \notin {"create", "rename"} => n = 1
          /\ clock' = IF StampedOnArrival(op) THEN clock + 1 ELSE clock
          /\ req' = [req EXCEPT ![r] = [pc |-> "waiting", op |-> op, e |-> e,
                                        name |-> n, now |-> clock']]
    /\ UNCHANGED <<row, favorite, opened, walk, cached, steady>>

\* SELECT ... FOR UPDATE waits for the request that has the row.
EntryFree(e) == \A r \in Requests : ~(req[r].pc = "locked" /\ req[r].e = e)

\* What the command requires of the row: an active entry, a tombstone, or, for
\* a creation, a new identifier.
Admitted(op, e) ==
    CASE op \in {"rename", "move", "trash"} \cup ActivityOps -> Alive(e)
      [] op \in {"restore", "purge"} -> row[e].place = "trash"
      [] op = "create" -> row[e].place = "absent"

\* The row is locked and read.
Lock(r) ==
    /\ req[r].pc = "waiting"
    /\ EntryFree(req[r].e)
    /\ Admitted(req[r].op, req[r].e)
    /\ clock' = IF StampedOnArrival(req[r].op) THEN clock ELSE clock + 1
    /\ req' = [req EXCEPT ![r].pc = "locked",
                          ![r].now = IF StampedOnArrival(req[r].op) THEN @ ELSE clock']
    /\ UNCHANGED <<row, favorite, opened, walk, cached, steady>>

\* 404, or the answer of a trash command for an entry that is in the trash: the
\* row is not what the command needs and nothing changes.
Refuse(r) ==
    /\ req[r].pc = "waiting"
    /\ EntryFree(req[r].e)
    /\ ~ Admitted(req[r].op, req[r].e)
    /\ req' = [req EXCEPT ![r] = Done]
    /\ UNCHANGED <<clock, row, favorite, opened, walk, cached, steady>>

\* _ensure_name_available and the unique index, for the observed folder.
NameFree(e, n) == \A d \in Entries \ {e} : row[d].place = "here" => row[d].name # n

\* The end of the transaction of r.  The history keeps the entries that the
\* walk's listing still has under the same key.
Committed(r) ==
    /\ UNCHANGED <<clock, walk, cached>>
    /\ req' = [req EXCEPT ![r] = Done]
    /\ steady' = {e \in steady : /\ Listed(walk.source, walk.filter, e)'
                                 /\ SortKey(walk.source, e)' = SortKey(walk.source, e)}

\* CreateFolder, and the entry that a completed upload or a copy adds.
CommitCreate(r) ==
    LET q == req[r] IN
    /\ q.pc = "locked" /\ q.op = "create"
    /\ NameFree(q.e, q.name)
    /\ row' = [row EXCEPT ![q.e] = [NoRow EXCEPT !.place = "here", !.name = q.name,
                                                 !.updated = q.now]]
    /\ UNCHANGED <<favorite, opened>>
    /\ Committed(r)

\* Faulty variant: a rename that leaves updated_at alone.
CommitRenameUndated(r) ==
    LET q == req[r] IN
    /\ q.pc = "locked" /\ q.op = "rename"
    /\ row[q.e].place = "here" => NameFree(q.e, q.name)
    /\ row' = [row EXCEPT ![q.e].name = q.name]
    /\ UNCHANGED <<favorite, opened>>
    /\ Committed(r)

CommitRename(r) ==
    LET q == req[r] IN
    /\ q.pc = "locked" /\ q.op = "rename"
    /\ row[q.e].place = "here" => NameFree(q.e, q.name)
    /\ row' = [row EXCEPT ![q.e].name = q.name, ![q.e].updated = q.now]
    /\ UNCHANGED <<favorite, opened>>
    /\ Committed(r)

\* Into the folder or out of it.
CommitMove(r) ==
    LET q == req[r] IN
    /\ q.pc = "locked" /\ q.op = "move"
    /\ \E to \in {"here", "elsewhere"} :
          /\ to = "here" => NameFree(q.e, row[q.e].name)
          /\ row' = [row EXCEPT ![q.e].place = to, ![q.e].updated = q.now]
    /\ UNCHANGED <<favorite, opened>>
    /\ Committed(r)

\* soft_delete_subtree writes deleted_at only: updated_at stays.
CommitTrash(r) ==
    LET q == req[r] IN
    /\ q.pc = "locked" /\ q.op = "trash"
    /\ row' = [row EXCEPT ![q.e].place = "trash", ![q.e].trashed = q.now]
    /\ UNCHANGED <<favorite, opened>>
    /\ Committed(r)

CommitRestore(r) ==
    LET q == req[r] IN
    /\ q.pc = "locked" /\ q.op = "restore"
    /\ \E to \in {"here", "elsewhere"} :
          /\ to = "here" => NameFree(q.e, row[q.e].name)
          /\ row' = [row EXCEPT ![q.e].place = to, ![q.e].updated = q.now,
                                ![q.e].trashed = 0]
    /\ UNCHANGED <<favorite, opened>>
    /\ Committed(r)

\* The rows of favorites and recent_opens go with the entry (ON DELETE CASCADE).
CommitPurge(r) ==
    LET q == req[r] IN
    /\ q.pc = "locked" /\ q.op = "purge"
    /\ row' = [row EXCEPT ![q.e] = [NoRow EXCEPT !.place = "purged"]]
    /\ favorite' = [favorite EXCEPT ![q.e] = 0]
    /\ opened' = [opened EXCEPT ![q.e] = 0]
    /\ Committed(r)

\* INSERT ... ON CONFLICT DO NOTHING: the first created_at stays.
CommitFavorite(r) ==
    LET q == req[r] IN
    /\ q.pc = "locked" /\ q.op = "favorite"
    /\ favorite' = [favorite EXCEPT ![q.e] = IF @ = 0 THEN q.now ELSE @]
    /\ UNCHANGED <<row, opened>>
    /\ Committed(r)

CommitUnfavorite(r) ==
    LET q == req[r] IN
    /\ q.pc = "locked" /\ q.op = "unfavorite"
    /\ favorite' = [favorite EXCEPT ![q.e] = 0]
    /\ UNCHANGED <<row, opened>>
    /\ Committed(r)

\* INSERT ... ON CONFLICT DO UPDATE.
CommitOpen(r) ==
    LET q == req[r] IN
    /\ q.pc = "locked" /\ q.op = "open"
    /\ opened' = [opened EXCEPT ![q.e] = q.now]
    /\ UNCHANGED <<row, favorite>>
    /\ Committed(r)

\* A name conflict, an error or a disconnect: rollback.
Abort(r) ==
    /\ req[r].pc = "locked"
    /\ req' = [req EXCEPT ![r] = Done]
    /\ UNCHANGED <<clock, row, favorite, opened, walk, cached, steady>>

(***************************************************************************)
(* The client's walk.                                                      *)
(***************************************************************************)

\* The page of the client's listing that follows a cursor.
PageAt(cursor) == Page(walk.source, walk.filter, walk.asc, walk.limit, cursor)

\* The page reaches the client, which asks for the next one if there is one.
Delivered(page) ==
    [walk EXCEPT !.seen = @ \o [i \in DOMAIN page.items |-> page.items[i].key],
                 !.cursor = page.next, !.page = NoPage,
                 !.pc = IF page.next = NoCursor THEN "done" ELSE "walking"]

\* ListActivity and ListTrash: one query.
ReadActivity ==
    /\ walk.pc = "walking" /\ walk.source \notin FolderSorts
    /\ walk' = Delivered(PageAt(walk.cursor))
    /\ UNCHANGED <<clock, row, favorite, opened, req, cached, steady>>

\* ListFolderEntries, first query: list_children.
ReadChildren ==
    /\ walk.pc = "walking" /\ walk.source \in FolderSorts
    /\ walk' = [walk EXCEPT !.pc = "flags",
                   !.page = PageAt(walk.cursor)]
    /\ UNCHANGED <<clock, row, favorite, opened, req, cached, steady>>

\* Second query: favorite_entry_ids.  The client keeps the first page it gets.
ReadFlags ==
    /\ walk.pc = "flags"
    /\ LET page == walk.page
           full == [page EXCEPT !.items = [i \in DOMAIN @ |->
                       [@[i] EXCEPT !.favorite = favorite[page.items[i].id] # 0]]]
       IN  /\ walk' = Delivered(full)
           /\ cached' = IF walk.cursor = NoCursor THEN full ELSE cached
    /\ UNCHANGED <<clock, row, favorite, opened, req, steady>>

(***************************************************************************)
(* Conditional requests for the first page.                                *)
(***************************************************************************)

\* metadata_etag of a page: identifiers, updated_at and the cursor.
ETag(page) == <<[i \in DOMAIN page.items |->
                    <<page.items[i].id, page.items[i].updated>>], page.next>>

\* The latest updated_at of a page, 0 for none.
LastModified(page) ==
    LET times == {page.items[i].updated : i \in DOMAIN page.items}
    IN  IF times = {} THEN 0 ELSE CHOOSE t \in times : \A u \in times : u <= t

\* The validator a client sends: If-None-Match with the tag of its copy or with "*", or
\* If-Modified-Since.
Validators == {"etag", "any", "date"}

\* conditional_not_modified: If-None-Match decides alone when it is sent;
\* If-Modified-Since has no fraction of a second.
NotModified(how, page) ==
    \/ how = "any"
    \/ how = "etag" /\ ETag(cached) = ETag(page)
    \/ /\ how = "date"
       /\ LastModified(page) # 0 /\ LastModified(cached) # 0
       /\ LastModified(page) \div Second <= LastModified(cached) \div Second

FirstPage == PageAt(NoCursor)

\* 304 leaves the copy, 200 replaces it.
Revalidate ==
    /\ cached # NoPage
    /\ \E how \in Validators :
          cached' = IF NotModified(how, FirstPage) THEN cached ELSE FirstPage
    /\ UNCHANGED <<clock, row, favorite, opened, req, walk, steady>>

(***************************************************************************)
(* Specification.                                                          *)
(***************************************************************************)

Change(r) ==
    \/ Begin(r) \/ Lock(r) \/ Refuse(r) \/ Abort(r)
    \/ CommitCreate(r) \/ CommitRename(r) \/ CommitMove(r) \/ CommitTrash(r)
    \/ CommitRestore(r) \/ CommitPurge(r)
    \/ CommitFavorite(r) \/ CommitUnfavorite(r) \/ CommitOpen(r)

Walk == ReadActivity \/ ReadChildren \/ ReadFlags \/ Revalidate

Next == Walk \/ \E r \in Requests : Change(r)

Spec == Init /\ [][Next]_vars

(***************************************************************************)
(* Properties.                                                             *)
(***************************************************************************)

\* The items of a walk are in strict order across its pages, and a finished walk
\* has shown every entry that stayed in its listing under the same sort key,
\* whatever happened to the others between its pages: nothing shifts, so no
\* entry is skipped, and one comes back only if its own key moved past the
\* cursor (list_children, _list_activity, list_trash).
PagesExact ==
    /\ \A i, j \in DOMAIN walk.seen :
           i < j => Precedes(walk.asc, walk.seen[i], walk.seen[j])
    /\ walk.pc = "done" =>
           \A e \in steady : \E i \in DOMAIN walk.seen : walk.seen[i][2] = e

\* The favourites and the recent opens never show an entry twice, not even one
\* that is opened or marked again during the walk: the activity commands read
\* the clock under the lock, so a newer row is always before the cursor.
ActivityNeverRepeats ==
    walk.source \in {"favorites", "recents"} =>
        \A i, j \in DOMAIN walk.seen :
            walk.seen[i][2] = walk.seen[j][2] => i = j

\* A page without the favourite flags.
Metadata(page) ==
    [page EXCEPT !.items = [i \in DOMAIN @ |-> [@[i] EXCEPT !.favorite = FALSE]]]

\* A 304 to If-None-Match with the tag of its copy leaves the client with the metadata
\* the database holds now: the names and keys are not in the tag, so this rests on
\* every change of an entry moving its updated_at.  ("*" is answered with 304 whatever
\* the copy is.)
ETagMeansCurrent ==
    cached # NoPage /\ NotModified("etag", FirstPage) =>
        Metadata(cached) = Metadata(FirstPage)

\* "304: The cached representation is current."
CachedIsCurrent ==
    \A how \in {"etag", "date"} :
        cached # NoPage /\ NotModified(how, FirstPage) => cached = FirstPage
==============================================================================
