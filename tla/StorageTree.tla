----------------------------- MODULE StorageTree -----------------------------
(***************************************************************************)
(* The logical tree of folders and files: create, rename, move, copy,      *)
(* trash, restore and purge, each one transaction of one HTTP request.     *)
(*                                                                         *)
(* The database is PostgreSQL under READ COMMITTED: every statement has a  *)
(* snapshot of its own and a transaction keeps the row locks it takes.  A  *)
(* request therefore advances in steps, one for each statement that locks  *)
(* a row or takes a snapshot that is used later:                           *)
(*   Begin  - locks the entry (create: the parent; copy: nothing),         *)
(*   Aim    - locks the destination folder and, for a move, checks that    *)
(*            it is not a descendant,                                      *)
(*   Scan   - the snapshot on which a multi-row statement selects its      *)
(*            subtree,                                                     *)
(*   Finish - the row locks of that statement, the writes and the commit.  *)
(* Writes of an uncommitted transaction are visible to nobody else, so     *)
(* they all happen at Finish.  A request may end without effect at any     *)
(* step: a missing entry, a name conflict, a disconnect, statement_timeout *)
(* or its choice as a deadlock victim all roll back.                       *)
(*                                                                         *)
(* The tree has one owner.  The tombstone keeps the original parent as the *)
(* default destination of a restore; a restore may name any other folder,  *)
(* so the model lets it choose freely and keeps only which entries have a  *)
(* tombstone.                                                              *)
(***************************************************************************)
EXTENDS Naturals

CONSTANTS
    Entries,   \* identifiers of storage entries, never reused
    Root,      \* the storage root of the owner
    NoEntry,   \* no identifier
    Names,     \* normalized entry names
    Requests,  \* concurrent requests
    Ops        \* operations the clients ask for

ASSUME EntriesAssumption == Root \in Entries /\ NoEntry \notin Entries

ASSUME OpsAssumption ==
    Ops \subseteq {"create", "rename", "move", "copy", "trash", "restore", "purge"}

VARIABLES
    parent,  \* parent[e]: parent_id, NoEntry for the root
    name,    \* name[e]: normalized_name
    kind,    \* kind[e]: entry_type
    state,   \* state[e]: no row yet, deleted_at IS NULL, deleted_at set, or row deleted
    trash,   \* entries with a row in trash_items (entry_id is unique there)
    req      \* req[r]: the transaction of a request

vars == <<parent, name, kind, state, trash, req>>

Kinds == {"folder", "file"}

Pcs == {"idle", "aim", "scan", "finish"}

\* dest: the locked destination; rows: what the snapshot of Scan selected.
RequestStates == [op : Ops \cup {"none"}, pc : Pcs, entry : Entries \cup {NoEntry},
                  dest : Entries \cup {NoEntry}, rows : SUBSET Entries]

NoRequest == [op |-> "none", pc |-> "idle", entry |-> NoEntry, dest |-> NoEntry,
              rows |-> {}]

Init ==
    /\ parent = [e \in Entries |-> NoEntry]
    /\ \E n \in Names : name = [e \in Entries |-> n]
    /\ kind = [e \in Entries |-> "folder"]
    /\ state = [e \in Entries |-> IF e = Root THEN "active" ELSE "unused"]
    /\ trash = {}
    /\ req = [r \in Requests |-> NoRequest]

-----------------------------------------------------------------------------
(* Queries, locks and constraints *)

Present == {e \in Entries : state[e] \in {"active", "trashed"}}

Unused == {e \in Entries : state[e] = "unused"}

\* The recursive query over parent_id: the least set that holds the given rows
\* and is closed under children, deleted or not.
Closure(rows) ==
    LET all    == Present \cup rows
        closed == {S \in SUBSET all :
                     rows \subseteq S /\ \A y \in all : parent[y] \in S => y \in S}
    IN {x \in all : \A S \in closed : x \in S}

Subtree(e) == Closure({e})

\* Faulty variant: get_folder without for_update.
HeldEntry(r) == (IF req[r].op = "copy" THEN {} ELSE {req[r].entry}) \ {NoEntry}

\* Rows a request has locked FOR UPDATE.  A copy reads its source unlocked.
Held(r) ==
    ({req[r].dest} \cup (IF req[r].op = "copy" THEN {} ELSE {req[r].entry})) \ {NoEntry}

Free(r, rows) == \A q \in Requests \ {r} : Held(q) \cap rows = {}

IsFolder(d) == kind[d] = "folder" /\ state[d] = "active"

\* uq_storage_entries_active_sibling_name over the given rows.  name_exists asks
\* the same question of the rows it can see, earlier.
NamesUnique(p, n, s) ==
    \A x, y \in Entries :
        (x # y /\ s[x] = "active" /\ s[y] = "active" /\ p[x] = p[y]) => n[x] # n[y]

Begin(r, op, e, d, pc) ==
    req' = [req EXCEPT ![r] = [op |-> op, pc |-> pc, entry |-> e, dest |-> d,
                               rows |-> {}]]

At(r, op, pc) == req[r].op = op /\ req[r].pc = pc

Commit(r) == req' = [req EXCEPT ![r] = NoRequest]

Untouched == UNCHANGED <<parent, name, kind, state, trash>>

-----------------------------------------------------------------------------
(* Create: a folder, or the file of a completed upload *)

BeginCreate(r) ==
    /\ "create" \in Ops
    /\ req[r] = NoRequest
    /\ \E d \in Entries :
         Free(r, {d}) /\ IsFolder(d) /\ Begin(r, "create", NoEntry, d, "finish")
    /\ Untouched

FinishCreate(r) ==
    /\ At(r, "create", "finish")
    /\ \E e \in Unused, n \in Names, k \in Kinds :
         /\ parent' = [parent EXCEPT ![e] = req[r].dest]
         /\ name' = [name EXCEPT ![e] = n]
         /\ kind' = [kind EXCEPT ![e] = k]
         /\ state' = [state EXCEPT ![e] = "active"]
    /\ NamesUnique(parent', name', state')
    /\ Commit(r)
    /\ UNCHANGED trash

-----------------------------------------------------------------------------
(* Rename: locks the entry, not its parent *)

BeginRename(r) ==
    /\ "rename" \in Ops
    /\ req[r] = NoRequest
    /\ \E e \in Entries :
         /\ Free(r, {e})
         /\ state[e] = "active" /\ e # Root
         /\ Begin(r, "rename", e, NoEntry, "finish")
    /\ Untouched

\* Faulty variant: the new name is not stored.
FinishRenameBlank(r) ==
    /\ At(r, "rename", "finish")
    /\ name' = [name EXCEPT ![req[r].entry] = NoEntry]
    /\ Commit(r)
    /\ UNCHANGED <<parent, kind, state, trash>>

FinishRename(r) ==
    /\ At(r, "rename", "finish")
    /\ \E n \in Names : name' = [name EXCEPT ![req[r].entry] = n]
    /\ NamesUnique(parent, name', state)
    /\ Commit(r)
    /\ UNCHANGED <<parent, kind, state, trash>>

-----------------------------------------------------------------------------
(* Move *)

BeginMove(r) ==
    /\ "move" \in Ops
    /\ req[r] = NoRequest
    /\ \E e \in Entries :
         /\ Free(r, {e})
         /\ state[e] = "active" /\ e # Root
         /\ Begin(r, "move", e, NoEntry, "aim")
    /\ Untouched

\* Faulty variant: no is_descendant check.
AimMoveUnchecked(r) ==
    /\ At(r, "move", "aim")
    /\ \E d \in Entries \ {req[r].entry} :
         /\ Free(r, {d})
         /\ IsFolder(d)
         /\ req' = [req EXCEPT ![r].dest = d, ![r].pc = "finish"]
    /\ Untouched

AimMove(r) ==
    /\ At(r, "move", "aim")
    /\ \E d \in Entries \ {req[r].entry} :
         /\ Free(r, {d})
         /\ IsFolder(d)
         /\ d \notin Subtree(req[r].entry)
         /\ req' = [req EXCEPT ![r].dest = d, ![r].pc = "finish"]
    /\ Untouched

FinishMove(r) ==
    /\ At(r, "move", "finish")
    /\ parent' = [parent EXCEPT ![req[r].entry] = req[r].dest]
    /\ NamesUnique(parent', name, state)
    /\ Commit(r)
    /\ UNCHANGED <<name, kind, state, trash>>

-----------------------------------------------------------------------------
(* Copy *)

BeginCopy(r) ==
    /\ "copy" \in Ops
    /\ req[r] = NoRequest
    /\ \E e \in Entries :
         state[e] = "active" /\ e # Root /\ Begin(r, "copy", e, NoEntry, "aim")
    /\ Untouched

AimCopy(r) ==
    /\ At(r, "copy", "aim")
    /\ \E d \in Entries :
         /\ Free(r, {d})
         /\ IsFolder(d)
         /\ req' = [req EXCEPT ![r].dest = d, ![r].pc = "finish"]
    /\ Untouched

\* The rows below the source that _copy_folder_tree visits: the active ones, and
\* the copied root, which is inserted before the subtree is read, when the
\* destination lies in the source.
Below(source, dest, top) ==
    {x \in Subtree(source) \ {source} : state[x] = "active"}
    \cup {x \in {top} : /\ kind[source] = "folder" /\ source \in Present
                        /\ dest \in Subtree(source)}

\* The rows a copy inserts: top for the source itself, twin[x] for x below it.
\* Nodes are visited from the top; one whose parent has no copy fails the request.
Insert(source, dest, top, n, below, twin) ==
    LET up(x)     == IF x = top THEN dest ELSE parent[x]
        copyOf(x) == IF x = source THEN top ELSE twin[x]
        made      == {top} \cup {twin[x] : x \in below}
        origin(c) == IF c = top THEN source ELSE CHOOSE x \in below : twin[x] = c
    IN
    /\ \A x, y \in below : twin[x] = twin[y] => x = y
    /\ \A x \in below : up(x) \in below \cup {source}
    /\ parent' = [c \in Entries |->
                    IF c = top THEN dest
                    ELSE IF c \in made THEN copyOf(up(origin(c)))
                    ELSE parent[c]]
    /\ name' = [c \in Entries |->
                  IF c \notin made THEN name[c]
                  ELSE IF c = top \/ origin(c) = top THEN n
                  ELSE name[origin(c)]]
    /\ kind' = [c \in Entries |->
                  IF c \notin made THEN kind[c]
                  ELSE IF c # top /\ origin(c) = top THEN "folder"
                  ELSE kind[origin(c)]]
    /\ state' = [c \in Entries |-> IF c \in made THEN "active" ELSE state[c]]

\* _copy_file and _copy_folder_tree.  A file whose version a purge has deleted
\* cannot be copied.
FinishCopy(r) ==
    LET source == req[r].entry
        dest   == req[r].dest
    IN
    /\ At(r, "copy", "finish")
    /\ kind[source] = "file" => source \in Present
    /\ \E top \in Unused, n \in Names :
         \E twin \in [Below(source, dest, top) -> Unused \ {top}] :
           Insert(source, dest, top, n, Below(source, dest, top), twin)
    /\ NamesUnique(parent', name', state')
    /\ Commit(r)
    /\ UNCHANGED trash

-----------------------------------------------------------------------------
(* Trash.  Trashing an entry that is already trashed answers with the existing *)
(* tombstone and changes nothing.                                              *)

BeginTrash(r) ==
    /\ "trash" \in Ops
    /\ req[r] = NoRequest
    /\ \E e \in Entries :
         /\ Free(r, {e})
         /\ state[e] = "active" /\ e # Root
         /\ Begin(r, "trash", e, NoEntry, "scan")
    /\ Untouched

\* The subtree that an UPDATE or a DELETE selects on the snapshot of its statement.
Scan(r) ==
    /\ req[r].pc = "scan"
    /\ req' = [req EXCEPT ![r].pc = "finish", ![r].rows = Subtree(req[r].entry)]
    /\ Untouched

\* Rows of the snapshot that still exist when the statement has their locks.
Selected(r) == req[r].rows \cap Present

\* soft_delete_subtree and add_trash_item, whose entry_id must be new.
FinishTrash(r) ==
    /\ At(r, "trash", "finish")
    /\ Free(r, Selected(r))
    /\ state' = [e \in Entries |-> IF e \in Selected(r) THEN "trashed" ELSE state[e]]
    /\ req[r].entry \notin trash
    /\ trash' = trash \cup {req[r].entry}
    /\ Commit(r)
    /\ UNCHANGED <<parent, name, kind>>

-----------------------------------------------------------------------------
(* Restore *)

BeginRestore(r) ==
    /\ "restore" \in Ops
    /\ req[r] = NoRequest
    /\ \E e \in trash :
         /\ Free(r, {e})
         /\ state[e] = "trashed"
         /\ Begin(r, "restore", e, NoEntry, "aim")
    /\ Untouched

\* Faulty variant: the destination may be in the trash.
AimRestoreAnywhere(r) ==
    /\ At(r, "restore", "aim")
    /\ \E d \in Present :
         /\ Free(r, {d})
         /\ kind[d] = "folder"
         /\ req' = [req EXCEPT ![r].dest = d, ![r].pc = "scan"]
    /\ Untouched

AimRestore(r) ==
    /\ At(r, "restore", "aim")
    /\ \E d \in Entries :
         /\ Free(r, {d})
         /\ IsFolder(d)
         /\ req' = [req EXCEPT ![r].dest = d, ![r].pc = "scan"]
    /\ Untouched

\* Faulty variant: save_entry without restore_subtree.
FinishRestoreAlone(r) ==
    /\ At(r, "restore", "finish")
    /\ parent' = [parent EXCEPT ![req[r].entry] = req[r].dest]
    /\ state' = [state EXCEPT ![req[r].entry] = "active"]
    /\ NamesUnique(parent', name, state')
    /\ trash' = trash \ {req[r].entry}
    /\ Commit(r)
    /\ UNCHANGED <<name, kind>>

\* save_entry, restore_subtree and remove_trash_item of the one tombstone.
FinishRestore(r) ==
    /\ At(r, "restore", "finish")
    /\ Free(r, Selected(r))
    /\ parent' = [parent EXCEPT ![req[r].entry] = req[r].dest]
    /\ state' = [e \in Entries |-> IF e \in Selected(r) THEN "active" ELSE state[e]]
    /\ NamesUnique(parent', name, state')
    /\ trash' = trash \ {req[r].entry}
    /\ Commit(r)
    /\ UNCHANGED <<name, kind>>

-----------------------------------------------------------------------------
(* Purge *)

\* Faulty variant: a tombstone is enough, the entry's own state is not looked at.
BeginPurgeAny(r) ==
    /\ "purge" \in Ops
    /\ req[r] = NoRequest
    /\ \E e \in trash : Free(r, {e}) /\ Begin(r, "purge", e, NoEntry, "scan")
    /\ Untouched

BeginPurge(r) ==
    /\ "purge" \in Ops
    /\ req[r] = NoRequest
    /\ \E e \in trash :
         /\ Free(r, {e})
         /\ state[e] = "trashed"
         /\ Begin(r, "purge", e, NoEntry, "scan")
    /\ Untouched

\* hard_delete_subtree: the DELETE, and ON DELETE CASCADE for whatever the deleted
\* rows have as descendants and tombstones by then.  A row that is gone has no
\* name; the root's stands for it.  The sweep event of the same transaction is the
\* Purge of StorageOutbox.
FinishPurge(r) ==
    LET gone == Closure(Selected(r)) \cap Present IN
    /\ At(r, "purge", "finish")
    /\ Free(r, gone)
    /\ state' = [e \in Entries |-> IF e \in gone THEN "purged" ELSE state[e]]
    /\ parent' = [e \in Entries |-> IF e \in gone THEN NoEntry ELSE parent[e]]
    /\ name' = [e \in Entries |-> IF e \in gone THEN name[Root] ELSE name[e]]
    /\ trash' = trash \ gone
    /\ Commit(r)
    /\ UNCHANGED kind

-----------------------------------------------------------------------------

\* Any error of the request: the unit of work rolls back and releases its locks.
Abort(r) ==
    /\ req[r] # NoRequest
    /\ Commit(r)
    /\ Untouched

Next == \E r \in Requests :
    \/ BeginCreate(r) \/ FinishCreate(r)
    \/ BeginRename(r) \/ FinishRename(r)
    \/ BeginMove(r) \/ AimMove(r) \/ FinishMove(r)
    \/ BeginCopy(r) \/ AimCopy(r) \/ FinishCopy(r)
    \/ BeginTrash(r) \/ FinishTrash(r)
    \/ BeginRestore(r) \/ AimRestore(r) \/ FinishRestore(r)
    \/ BeginPurge(r) \/ FinishPurge(r)
    \/ Scan(r) \/ Abort(r)

Spec == Init /\ [][Next]_vars

-----------------------------------------------------------------------------
(* Properties *)

\* Every variable has its type.
TypeOK ==
    /\ parent \in [Entries -> Entries \cup {NoEntry}]
    /\ name \in [Entries -> Names]
    /\ kind \in [Entries -> Kinds]
    /\ state \in [Entries -> {"unused", "active", "trashed", "purged"}]
    /\ trash \subseteq Entries
    /\ req \in [Requests -> RequestStates]

\* "A folder cannot be moved to itself or to a descendant" (docs/DATABASE.md):
\* the entries form one tree of folders with files as leaves, and every entry,
\* trashed or not, is reached from the root.
Rooted ==
    /\ Present = Subtree(Root)
    /\ \A e \in Present \ {Root} : kind[parent[e]] = "folder"

\* Trashing takes the whole subtree: what the owner can still list is never inside
\* a folder that is in the trash, where a purge would take it along.
ActiveUnderActive ==
    \A e \in Entries \ {Root} : state[e] = "active" => state[parent[e]] = "active"

\* Nothing is lost in the trash: a trashed entry has a tombstone or lies in a
\* trashed folder, so (the tree being rooted) some tombstone lists it, restores it
\* and purges it.
TrashIsCovered ==
    \A e \in Entries : state[e] = "trashed" =>
        e \in trash \/ state[parent[e]] = "trashed"

\* "Only trashed entries can be purged." (PermanentlyDeleteUseCase): no step
\* deletes the row of an active entry.
PurgeOnlyTrashed ==
    [][\A e \in Entries : state'[e] = "purged" => state[e] # "active"]_vars

\* A tombstone stands for a deleted subtree root (TrashItem): its entry is trashed.
TombstonesAreTrashed == \A e \in trash : state[e] = "trashed"

\* The lock on the destination is enough: when an entry is created under, copied or
\* moved into a folder, or restored to its original folder or another one (its tombstone
\* goes), that folder is active at the commit.
AttachedToActive ==
    [][\A e \in Entries :
         ((parent'[e] # parent[e] \/ e \in trash \ trash') /\ state'[e] = "active") =>
             state'[parent'[e]] = "active"]_vars
=============================================================================
