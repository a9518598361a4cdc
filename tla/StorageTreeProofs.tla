-------------------------- MODULE StorageTreeProofs --------------------------
(***************************************************************************)
(* Proofs about StorageTree, in two parts.                                 *)
(*                                                                         *)
(* LockInv holds for every set of entries and any number of overlapping    *)
(* requests: the row locks keep a locked destination an active folder and  *)
(* a locked entry in the state it was checked in until the commit.         *)
(*                                                                         *)
(* TreeInv holds when requests do not overlap (Sequential).  Overlapping   *)
(* ones really break it: StorageTreeCycle.cfg and StorageTreePurge.cfg     *)
(* show how.  It says that the entries form one tree, that the trash is    *)
(* closed under children, and that it is covered by its tombstones.        *)
(***************************************************************************)
EXTENDS StorageTree, TLAPS

\* The root is never trashed, moved or purged.
RootKept ==
    /\ state[Root] = "active" /\ kind[Root] = "folder" /\ parent[Root] = NoEntry
    /\ Root \notin trash

\* parent_id refers to a row that exists and is a folder.
ParentsAreFolders ==
    \A e \in Present \ {Root} : parent[e] \in Present /\ kind[parent[e]] = "folder"

Subtrees == {"trash", "restore", "purge"}

\* The steps each operation goes through, and what it has locked by then.
Shape(t) ==
    /\ t.pc = "idle" => t = NoRequest
    /\ t.op \in {"none", "create"} => t.entry = NoEntry
    /\ t.op \notin {"none", "create"} => t.entry \in Entries \ {Root}
    /\ t.pc = "aim" => t.op \in {"move", "copy", "restore"}
    /\ t.pc = "scan" => t.op \in Subtrees
    /\ (t.pc = "finish" /\ t.op \in {"create", "move", "copy", "restore"}) => t.dest # NoEntry
    /\ (t.pc = "scan" /\ t.op = "restore") => t.dest # NoEntry
    /\ Root \notin t.rows

\* What was checked of a locked row still holds.
LockedRows(t) ==
    /\ t.dest # NoEntry => IsFolder(t.dest)
    /\ t.op \in {"rename", "move", "trash"} => state[t.entry] = "active"
    /\ t.op \in {"restore", "purge"} => state[t.entry] = "trashed"

LockInv ==
    /\ TypeOK
    /\ RootKept
    /\ ParentsAreFolders
    /\ \A r \in Requests : Shape(req[r])
    /\ \A r \in Requests : LockedRows(req[r])

-----------------------------------------------------------------------------
(* The closure of the recursive query *)

\* A closure holds its rows and the children of what it holds, and nothing that
\* is not a row of the table.
LEMMA ClosureHolds ==
    ASSUME NEW rows \in SUBSET Entries
    PROVE  /\ rows \subseteq Closure(rows)
           /\ Closure(rows) \subseteq Present \cup rows
           /\ \A y \in Present \cup rows : parent[y] \in Closure(rows) => y \in Closure(rows)
  BY DEF Closure

\* It is the least such set.
LEMMA ClosureLeast ==
    ASSUME NEW rows \in SUBSET Entries, NEW S, rows \subseteq S,
           \A y \in Present \cup rows : parent[y] \in S => y \in S
    PROVE  Closure(rows) \subseteq S
  <1> DEFINE T == S \cap (Present \cup rows)
  <1>1. /\ T \in SUBSET (Present \cup rows)
        /\ rows \subseteq T
        /\ \A y \in Present \cup rows : parent[y] \in T => y \in T
    OBVIOUS
  <1>2. Closure(rows) \subseteq T
    BY <1>1 DEF Closure
  <1> QED
    BY <1>2

\* So what it holds besides its rows is the child of something it holds.
LEMMA ClosureParent ==
    ASSUME NEW rows \in SUBSET Entries, NEW x \in Closure(rows) \ rows
    PROVE  parent[x] \in Closure(rows)
  <1> SUFFICES ASSUME parent[x] \notin Closure(rows) PROVE FALSE
    OBVIOUS
  <1> DEFINE S == Closure(rows) \ {x}
  <1>1. rows \subseteq S /\ \A y \in Present \cup rows : parent[y] \in S => y \in S
    BY ClosureHolds
  <1>2. Closure(rows) \subseteq S
    BY <1>1, ClosureLeast
  <1> QED
    BY <1>2

\* The root is in no closure that does not start from it.
LEMMA RootOutside ==
    ASSUME LockInv, NEW rows \in SUBSET (Entries \ {Root})
    PROVE  Root \notin Closure(rows) /\ Closure(rows) \subseteq Entries
  <1>1. Closure(rows) \subseteq Entries
    BY ClosureHolds DEF Present
  <1>2. parent[Root] = NoEntry /\ NoEntry \notin Entries
    BY EntriesAssumption DEF EntriesAssumption, LockInv, RootKept
  <1> QED
    BY <1>1, <1>2, ClosureParent

-----------------------------------------------------------------------------
(* Steps of a request *)

\* The record of a request that has not begun is in order.
LEMMA NoRequestOK == NoRequest \in RequestStates /\ Shape(NoRequest) /\ LockedRows(NoRequest)
  BY DEF NoRequest, RequestStates, Pcs, Shape, LockedRows, Subtrees

\* A step that only locks or reads.
LEMMA LockStep ==
    ASSUME LockInv, NEW r \in Requests, NEW t \in RequestStates,
           req' = [req EXCEPT ![r] = t], Untouched, Shape(t), LockedRows(t)
    PROVE  LockInv'
  <1>1. req' \in [Requests -> RequestStates] /\ req'[r] = t
        /\ \A q \in Requests \ {r} : req'[q] = req[q]
    BY DEF LockInv, TypeOK
  <1>2. /\ parent' = parent /\ name' = name /\ kind' = kind /\ state' = state /\ trash' = trash
    BY DEF Untouched
  <1>3. TypeOK' /\ RootKept' /\ ParentsAreFolders'
    BY <1>1, <1>2 DEF LockInv, TypeOK, RootKept, ParentsAreFolders, Present
  <1>4. \A q \in Requests : Shape(req'[q]) /\ LockedRows(req'[q])
    BY <1>1 DEF LockInv
  <1>5. ASSUME NEW q \in Requests PROVE Shape(req[q])' /\ LockedRows(req[q])'
    BY <1>2, <1>4 DEF Shape, LockedRows, IsFolder
  <1> QED
    BY <1>3, <1>5 DEF LockInv

\* A commit changes no row that another request has locked.
LEMMA CommitStep ==
    ASSUME LockInv, NEW r \in Requests, Commit(r),
           TypeOK!1', TypeOK!2', TypeOK!3', TypeOK!4', TypeOK!5',
           RootKept', ParentsAreFolders',
           \A q \in Requests \ {r} : \A e \in Held(q) :
               state'[e] = state[e] /\ kind'[e] = kind[e]
    PROVE  LockInv'
  <1>1. req' \in [Requests -> RequestStates] /\ req'[r] = NoRequest
        /\ \A q \in Requests \ {r} : req'[q] = req[q]
    BY NoRequestOK DEF LockInv, TypeOK, Commit
  <1>2. TypeOK'
    BY <1>1 DEF TypeOK
  <1>3. ASSUME NEW q \in Requests \ {r} PROVE Shape(req[q])' /\ LockedRows(req[q])'
    <2>1. req'[q] = req[q] /\ Shape(req[q]) /\ LockedRows(req[q]) /\ req[q] \in RequestStates
      BY <1>1 DEF LockInv, TypeOK
    <2>2. Shape(req[q])'
      BY <2>1 DEF Shape
    <2>3. NoEntry \notin Entries
      BY EntriesAssumption DEF EntriesAssumption
    <2>4. req[q].dest # NoEntry => IsFolder(req[q].dest)'
      BY <2>1, <1>3 DEF LockedRows, IsFolder, Held
    <2>5. req[q].op \in {"rename", "move", "trash", "restore", "purge"} =>
              state'[req[q].entry] = state[req[q].entry]
      BY <2>1, <2>3, <1>3 DEF Shape, Held
    <2> QED
      BY <2>1, <2>2, <2>4, <2>5 DEF LockedRows, IsFolder
  <1>4. Shape(req[r])' /\ LockedRows(req[r])'
    BY <1>1 DEF NoRequest, Shape, LockedRows, Subtrees
  <1> QED
    BY <1>2, <1>3, <1>4 DEF LockInv

\* The record with which an operation begins.
LEMMA BeginStep ==
    ASSUME LockInv, NEW r \in Requests,
           NEW op \in Ops, NEW e \in Entries \cup {NoEntry}, NEW d \in Entries \cup {NoEntry},
           NEW pc \in {"aim", "scan", "finish"},
           Begin(r, op, e, d, pc), Untouched,
           op = "create" => e = NoEntry /\ pc = "finish" /\ d # NoEntry,
           op # "create" => e \in Entries \ {Root} /\ d = NoEntry,
           pc = "aim" => op \in {"move", "copy", "restore"},
           pc = "scan" => op \in {"trash", "purge"},
           pc = "finish" => op \in {"create", "rename"},
           d # NoEntry => IsFolder(d),
           op \in {"rename", "move", "trash"} => state[e] = "active",
           op \in {"restore", "purge"} => state[e] = "trashed"
    PROVE  LockInv'
  <1> DEFINE t == [op |-> op, pc |-> pc, entry |-> e, dest |-> d, rows |-> {}]
  <1>0. op # "none"
    BY OpsAssumption DEF OpsAssumption
  <1>1. t \in RequestStates
    BY DEF RequestStates, Pcs
  <1>2. Shape(t)
    BY <1>0 DEF Shape, Subtrees
  <1>3. LockedRows(t)
    BY DEF LockedRows
  <1>4. req' = [req EXCEPT ![r] = t]
    BY DEF Begin
  <1> HIDE DEF t
  <1> QED
    BY <1>1, <1>2, <1>3, <1>4, LockStep

\* Every operation begins in order.
LEMMA BeginInv ==
    ASSUME LockInv, NEW r \in Requests,
           \/ BeginCreate(r) \/ BeginRename(r) \/ BeginMove(r) \/ BeginCopy(r)
           \/ BeginTrash(r) \/ BeginRestore(r) \/ BeginPurge(r)
    PROVE  LockInv'
  <1>0. NoEntry \notin Entries
    BY EntriesAssumption DEF EntriesAssumption
  <1>1. CASE BeginCreate(r)
    <2> PICK d \in Entries : IsFolder(d) /\ Begin(r, "create", NoEntry, d, "finish")
      BY <1>1 DEF BeginCreate
    <2> QED
      BY <1>0, <1>1, BeginStep DEF BeginCreate
  <1>2. CASE BeginRename(r)
    <2> PICK e \in Entries : state[e] = "active" /\ e # Root
                             /\ Begin(r, "rename", e, NoEntry, "finish")
      BY <1>2 DEF BeginRename
    <2> QED
      BY <1>0, <1>2, BeginStep DEF BeginRename
  <1>3. CASE BeginMove(r)
    <2> PICK e \in Entries : state[e] = "active" /\ e # Root
                             /\ Begin(r, "move", e, NoEntry, "aim")
      BY <1>3 DEF BeginMove
    <2> QED
      BY <1>0, <1>3, BeginStep DEF BeginMove
  <1>4. CASE BeginCopy(r)
    <2> PICK e \in Entries : state[e] = "active" /\ e # Root
                             /\ Begin(r, "copy", e, NoEntry, "aim")
      BY <1>4 DEF BeginCopy
    <2> QED
      BY <1>0, <1>4, BeginStep DEF BeginCopy
  <1>5. CASE BeginTrash(r)
    <2> PICK e \in Entries : state[e] = "active" /\ e # Root
                             /\ Begin(r, "trash", e, NoEntry, "scan")
      BY <1>5 DEF BeginTrash
    <2> QED
      BY <1>0, <1>5, BeginStep DEF BeginTrash
  <1>6. CASE BeginRestore(r)
    <2> PICK e \in trash : state[e] = "trashed" /\ Begin(r, "restore", e, NoEntry, "aim")
      BY <1>6 DEF BeginRestore
    <2>1. e \in Entries /\ e # Root
      BY DEF LockInv, TypeOK, RootKept
    <2> QED
      BY <1>0, <1>6, <2>1, BeginStep DEF BeginRestore
  <1>7. CASE BeginPurge(r)
    <2> PICK e \in trash : state[e] = "trashed" /\ Begin(r, "purge", e, NoEntry, "scan")
      BY <1>7 DEF BeginPurge
    <2>1. e \in Entries /\ e # Root
      BY DEF LockInv, TypeOK, RootKept
    <2> QED
      BY <1>0, <1>7, <2>1, BeginStep DEF BeginPurge
  <1> QED
    BY <1>1, <1>2, <1>3, <1>4, <1>5, <1>6, <1>7

\* The destination is an active folder when it is locked.
LEMMA AimInv ==
    ASSUME LockInv, NEW r \in Requests, AimMove(r) \/ AimCopy(r) \/ AimRestore(r)
    PROVE  LockInv'
  <1>1. req[r] \in RequestStates /\ Shape(req[r]) /\ LockedRows(req[r])
        /\ req[r].pc = "aim" /\ Untouched
    BY DEF LockInv, TypeOK, AimMove, AimCopy, AimRestore, At
  <1>2. PICK d \in Entries, pc \in {"scan", "finish"} :
            /\ IsFolder(d)
            /\ req' = [req EXCEPT ![r].dest = d, ![r].pc = pc]
            /\ pc = "scan" => req[r].op = "restore"
            /\ pc = "finish" => req[r].op \in {"move", "copy"}
    BY DEF AimMove, AimCopy, AimRestore, At
  <1> DEFINE t == [req[r] EXCEPT !.dest = d, !.pc = pc]
  <1>3. /\ t \in RequestStates /\ t.op = req[r].op /\ t.entry = req[r].entry
        /\ t.dest = d /\ t.pc = pc /\ t.rows = req[r].rows
    BY <1>1 DEF RequestStates, Pcs
  <1>4. req' = [req EXCEPT ![r] = t]
    BY <1>2
  <1> HIDE DEF t
  <1>5. NoEntry \notin Entries
    BY EntriesAssumption DEF EntriesAssumption
  <1>6. Shape(t)
    BY <1>1, <1>2, <1>3, <1>5 DEF Shape, Subtrees
  <1>7. LockedRows(t)
    BY <1>1, <1>2, <1>3 DEF LockedRows
  <1> QED
    BY <1>1, <1>3, <1>4, <1>6, <1>7, LockStep

\* The snapshot of a subtree never holds the root.
LEMMA ScanInv ==
    ASSUME LockInv, NEW r \in Requests, Scan(r)
    PROVE  LockInv'
  <1>1. req[r] \in RequestStates /\ Shape(req[r]) /\ LockedRows(req[r])
        /\ req[r].pc = "scan" /\ Untouched
    BY DEF LockInv, TypeOK, Scan
  <1>2. req[r].entry \in Entries \ {Root} /\ req[r].op \in Subtrees
    BY <1>1 DEF Shape, Subtrees
  <1>3. Subtree(req[r].entry) \subseteq Entries /\ Root \notin Subtree(req[r].entry)
    BY <1>2, RootOutside DEF Subtree
  <1> DEFINE t == [req[r] EXCEPT !.pc = "finish", !.rows = Subtree(req[r].entry)]
  <1>4. /\ t \in RequestStates /\ t.op = req[r].op /\ t.entry = req[r].entry
        /\ t.dest = req[r].dest /\ t.pc = "finish" /\ t.rows = Subtree(req[r].entry)
    BY <1>1, <1>3 DEF RequestStates, Pcs
  <1>5. req' = [req EXCEPT ![r] = t]
    BY DEF Scan
  <1> HIDE DEF t
  <1>6. Shape(t)
    BY <1>1, <1>2, <1>3, <1>4 DEF Shape, Subtrees
  <1>7. LockedRows(t)
    BY <1>1, <1>4 DEF LockedRows
  <1> QED
    BY <1>1, <1>4, <1>5, <1>6, <1>7, LockStep

\* A request that fails leaves everything as it is.
LEMMA AbortInv ==
    ASSUME LockInv, NEW r \in Requests, Abort(r)
    PROVE  LockInv'
  BY NoRequestOK, LockStep DEF Abort, Commit

-----------------------------------------------------------------------------
(* Commits *)

\* A locked row exists.
LEMMA HeldPresent ==
    ASSUME LockInv, NEW q \in Requests
    PROVE  Held(q) \subseteq Present
  <1>1. req[q] \in RequestStates /\ Shape(req[q]) /\ LockedRows(req[q])
    BY DEF LockInv, TypeOK
  <1>2. req[q].op \in Ops \cup {"none"} /\ Ops \subseteq {"create", "copy", "rename", "move", "trash"} \cup {"restore", "purge"}
    BY <1>1, OpsAssumption DEF RequestStates, OpsAssumption
  <1>3. req[q].dest # NoEntry => req[q].dest \in Present
    BY <1>1 DEF LockedRows, IsFolder, Present, RequestStates
  <1>4. (req[q].op # "copy" /\ req[q].entry # NoEntry) => req[q].entry \in Present
    BY <1>1, <1>2 DEF Shape, LockedRows, Present, RequestStates
  <1> QED
    BY <1>3, <1>4 DEF Held

\* A folder or a file is created in its locked folder.
LEMMA CreateInv ==
    ASSUME LockInv, NEW r \in Requests, FinishCreate(r)
    PROVE  LockInv'
  <1>1. PICK e \in Unused, n \in Names, k \in Kinds :
           /\ parent' = [parent EXCEPT ![e] = req[r].dest]
           /\ name' = [name EXCEPT ![e] = n]
           /\ kind' = [kind EXCEPT ![e] = k]
           /\ state' = [state EXCEPT ![e] = "active"]
    BY DEF FinishCreate
  <1>2. /\ Commit(r) /\ trash' = trash
        /\ req[r].dest \in Entries /\ IsFolder(req[r].dest)
    BY DEF FinishCreate, At, LockInv, TypeOK, RequestStates, Shape, LockedRows
  <1>3. e \in Entries /\ state[e] = "unused" /\ e # Root
    BY DEF Unused, LockInv, RootKept
  <1>4. TypeOK!1' /\ TypeOK!2' /\ TypeOK!3' /\ TypeOK!4' /\ TypeOK!5'
    BY <1>1, <1>2, <1>3 DEF LockInv, TypeOK
  <1>5. RootKept'
    BY <1>1, <1>2, <1>3, EntriesAssumption DEF EntriesAssumption, LockInv, TypeOK, RootKept
  <1>6. ParentsAreFolders'
    BY <1>1, <1>2, <1>3 DEF LockInv, TypeOK, ParentsAreFolders, Present, IsFolder
  <1>7. \A q \in Requests \ {r} : \A x \in Held(q) : state'[x] = state[x] /\ kind'[x] = kind[x]
    BY <1>1, <1>3, HeldPresent DEF LockInv, TypeOK, Present
  <1> QED
    BY <1>2, <1>4, <1>5, <1>6, <1>7, CommitStep

\* Renaming and moving change neither the state nor the kind of a row.
LEMMA RenameMoveInv ==
    ASSUME LockInv, NEW r \in Requests, FinishRename(r) \/ FinishMove(r)
    PROVE  LockInv'
  <1>1. /\ Commit(r) /\ trash' = trash /\ state' = state /\ kind' = kind
        /\ req[r].entry \in Entries \ {Root}
    BY DEF FinishRename, FinishMove, At, LockInv, Shape
  <1>2. \/ parent' = parent
        \/ /\ parent' = [parent EXCEPT ![req[r].entry] = req[r].dest]
           /\ req[r].dest \in Entries /\ IsFolder(req[r].dest)
    BY DEF FinishRename, FinishMove, At, LockInv, TypeOK, RequestStates, Shape, LockedRows
  <1>3. name' \in [Entries -> Names]
    BY <1>1 DEF FinishRename, FinishMove, LockInv, TypeOK
  <1>4. TypeOK!1' /\ TypeOK!2' /\ TypeOK!3' /\ TypeOK!4' /\ TypeOK!5'
    BY <1>1, <1>2, <1>3 DEF LockInv, TypeOK
  <1>5. RootKept'
    BY <1>1, <1>2, EntriesAssumption DEF EntriesAssumption, LockInv, TypeOK, RootKept
  <1>6. ParentsAreFolders'
    BY <1>1, <1>2 DEF LockInv, TypeOK, ParentsAreFolders, Present, IsFolder
  <1> QED
    BY <1>1, <1>4, <1>5, <1>6, CommitStep

\* The rows a statement selected are not the root's.
LEMMA SelectedOK ==
    ASSUME LockInv, NEW r \in Requests
    PROVE  Selected(r) \in SUBSET (Entries \ {Root}) /\ Selected(r) \subseteq Present
  BY DEF LockInv, TypeOK, RequestStates, Shape, Selected, Present

\* Trashing takes no row that another request has locked.
LEMMA TrashInv ==
    ASSUME LockInv, NEW r \in Requests, FinishTrash(r)
    PROVE  LockInv'
  <1>1. /\ Commit(r) /\ parent' = parent /\ name' = name /\ kind' = kind
        /\ trash' = trash \cup {req[r].entry} /\ req[r].entry \in Entries \ {Root}
        /\ state' = [e \in Entries |-> IF e \in Selected(r) THEN "trashed" ELSE state[e]]
    BY DEF FinishTrash, At, LockInv, Shape
  <1>2. TypeOK!1' /\ TypeOK!2' /\ TypeOK!3' /\ TypeOK!4' /\ TypeOK!5'
    BY <1>1 DEF LockInv, TypeOK
  <1>3. RootKept'
    BY <1>1, SelectedOK, EntriesAssumption DEF EntriesAssumption, LockInv, TypeOK, RootKept
  <1>4. Present' = Present
    BY <1>1, SelectedOK DEF Present, LockInv, TypeOK
  <1>5. ParentsAreFolders'
    BY <1>1, <1>4 DEF LockInv, ParentsAreFolders
  <1>6. ASSUME NEW q \in Requests \ {r}, NEW x \in Held(q)
        PROVE  state'[x] = state[x] /\ kind'[x] = kind[x]
    BY <1>1, HeldPresent DEF FinishTrash, Free, Present
  <1> QED
    BY <1>1, <1>2, <1>3, <1>5, <1>6, CommitStep

\* Restoring takes no row that another request has locked.
LEMMA RestoreInv ==
    ASSUME LockInv, NEW r \in Requests, FinishRestore(r)
    PROVE  LockInv'
  <1>1. /\ Commit(r) /\ name' = name /\ kind' = kind
        /\ trash' = trash \ {req[r].entry} /\ req[r].entry \in Entries \ {Root}
        /\ parent' = [parent EXCEPT ![req[r].entry] = req[r].dest]
        /\ state' = [e \in Entries |-> IF e \in Selected(r) THEN "active" ELSE state[e]]
    BY DEF FinishRestore, At, LockInv, Shape
  <1>2. req[r].dest \in Entries /\ IsFolder(req[r].dest)
    BY DEF FinishRestore, At, LockInv, TypeOK, RequestStates, Shape, LockedRows
  <1>3. TypeOK!1' /\ TypeOK!2' /\ TypeOK!3' /\ TypeOK!4' /\ TypeOK!5'
    BY <1>1, <1>2 DEF LockInv, TypeOK
  <1>4. RootKept'
    BY <1>1, SelectedOK, EntriesAssumption DEF EntriesAssumption, LockInv, TypeOK, RootKept
  <1>5. Present' = Present
    BY <1>1, SelectedOK DEF Present, LockInv, TypeOK
  <1>6. ParentsAreFolders'
    BY <1>1, <1>2, <1>5 DEF LockInv, TypeOK, ParentsAreFolders, IsFolder, Present
  <1>7. ASSUME NEW q \in Requests \ {r}, NEW x \in Held(q)
        PROVE  state'[x] = state[x] /\ kind'[x] = kind[x]
    BY <1>1, HeldPresent DEF FinishRestore, Free, Present
  <1> QED
    BY <1>1, <1>3, <1>4, <1>6, <1>7, CommitStep

\* The rows a purge deletes: with the children of each of them, without the root.
LEMMA GoneOK ==
    ASSUME LockInv, NEW r \in Requests, NEW gone, gone = Closure(Selected(r)) \cap Present
    PROVE  /\ gone \subseteq Entries \ {Root}
           /\ \A y \in Present : parent[y] \in gone => y \in gone
  <1>1. Selected(r) \in SUBSET Entries /\ Selected(r) \in SUBSET (Entries \ {Root})
        /\ Selected(r) \subseteq Present
    BY SelectedOK
  <1>2. Root \notin Closure(Selected(r))
    BY <1>1, RootOutside
  <1>3. \A y \in Present : parent[y] \in Closure(Selected(r)) => y \in Closure(Selected(r))
    BY <1>1, ClosureHolds
  <1> QED
    BY <1>2, <1>3 DEF Present

\* A purge deletes no row that another request has locked, and leaves no orphan.
LEMMA PurgeInv ==
    ASSUME LockInv, NEW r \in Requests, FinishPurge(r)
    PROVE  LockInv'
  <1> DEFINE gone == Closure(Selected(r)) \cap Present
  <1>1. /\ Free(r, gone) /\ Commit(r) /\ kind' = kind /\ trash' = trash \ gone
        /\ state' = [e \in Entries |-> IF e \in gone THEN "purged" ELSE state[e]]
        /\ parent' = [e \in Entries |-> IF e \in gone THEN NoEntry ELSE parent[e]]
        /\ name' = [e \in Entries |-> IF e \in gone THEN name[Root] ELSE name[e]]
    BY DEF FinishPurge
  <1>2. gone \subseteq Entries \ {Root} /\ \A y \in Present : parent[y] \in gone => y \in gone
    BY GoneOK
  <1> HIDE DEF gone
  <1>3. TypeOK!1' /\ TypeOK!2' /\ TypeOK!3' /\ TypeOK!4' /\ TypeOK!5'
    BY <1>1, EntriesAssumption DEF EntriesAssumption, LockInv, TypeOK
  <1>4. RootKept'
    BY <1>1, <1>2, EntriesAssumption DEF EntriesAssumption, LockInv, TypeOK, RootKept
  <1>5. Present' = Present \ gone
    BY <1>1 DEF Present
  <1>6. ParentsAreFolders'
    BY <1>1, <1>2, <1>5 DEF LockInv, TypeOK, ParentsAreFolders, Present
  <1>7. ASSUME NEW q \in Requests \ {r}, NEW x \in Held(q)
        PROVE  state'[x] = state[x] /\ kind'[x] = kind[x]
    BY <1>1, HeldPresent DEF Free, Present
  <1> QED
    BY <1>1, <1>3, <1>4, <1>6, <1>7, CommitStep

\* What a copy writes, row by row: below are the rows it copies besides the
\* source, each one after its parent.
Copied(source, dest, top, below, twin) ==
    LET made == {top} \cup {twin[x] : x \in below}
        copyOf(x) == IF x = source THEN top ELSE twin[x]
    IN
    /\ top \in Unused /\ below \subseteq Entries \ {source}
    /\ twin \in [below -> Unused \ {top}]
    /\ parent' \in [Entries -> Entries \cup {NoEntry}]
    /\ name' \in [Entries -> Names]
    /\ kind' \in [Entries -> Kinds]
    /\ state' \in [Entries -> {"unused", "active", "trashed", "purged"}]
    /\ \A c \in Entries \ made :
          parent'[c] = parent[c] /\ kind'[c] = kind[c] /\ state'[c] = state[c]
    /\ \A c \in made : state'[c] = "active"
    /\ parent'[top] = dest /\ kind'[top] = kind[source]
    /\ \A x \in below \ {top} :
          /\ x \in Subtree(source) /\ state[x] = "active"
          /\ parent[x] \in below \cup {source}
          /\ parent'[twin[x]] = copyOf(parent[x])
          /\ kind'[twin[x]] = kind[x]
    /\ \A x \in Subtree(source) \ {source} : state[x] = "active" => x \in below
    /\ top \in below =>
          /\ dest \in Subtree(source) /\ dest \in below \cup {source}
          /\ parent'[twin[top]] = copyOf(dest)
          /\ kind'[twin[top]] = "folder"

\* The written rows of Insert.
LEMMA InsertRows ==
    ASSUME LockInv, NEW source \in Entries, NEW dest \in Entries, NEW top \in Unused,
           NEW n \in Names, NEW below, below = Below(source, dest, top),
           NEW twin \in [below -> Unused \ {top}],
           Insert(source, dest, top, n, below, twin)
    PROVE  Copied(source, dest, top, below, twin)
  <1> DEFINE up(x) == IF x = top THEN dest ELSE parent[x]
             copyOf(x) == IF x = source THEN top ELSE twin[x]
             made == {top} \cup {twin[x] : x \in below}
             origin(c) == IF c = top THEN source ELSE CHOOSE x \in below : twin[x] = c
  <1>1. Subtree(source) \subseteq Entries
    BY ClosureHolds DEF Subtree, Present
  <1>2. /\ top \in Entries /\ below \subseteq Entries /\ made \subseteq Unused
        /\ Unused \subseteq Entries
        /\ \A x \in below \ {top} : x \in Subtree(source) /\ state[x] = "active"
        /\ \A x \in Subtree(source) \ {source} : state[x] = "active" => x \in below
        /\ top \in below => dest \in Subtree(source)
        /\ source \notin below
    BY <1>1 DEF Below, Unused, Present
  <1>3. /\ \A x, y \in below : twin[x] = twin[y] => x = y
        /\ \A x \in below : up(x) \in below \cup {source}
        /\ parent' = [c \in Entries |->
                        IF c = top THEN dest
                        ELSE IF c \in made THEN copyOf(up(origin(c))) ELSE parent[c]]
        /\ name' = [c \in Entries |->
                      IF c \notin made THEN name[c]
                      ELSE IF c = top \/ origin(c) = top THEN n ELSE name[origin(c)]]
        /\ kind' = [c \in Entries |->
                      IF c \notin made THEN kind[c]
                      ELSE IF c # top /\ origin(c) = top THEN "folder" ELSE kind[origin(c)]]
        /\ state' = [c \in Entries |-> IF c \in made THEN "active" ELSE state[c]]
    BY Zenon DEF Insert
  <1>4. ASSUME NEW x \in below
        PROVE  /\ twin[x] \in made /\ twin[x] # top /\ twin[x] \in Entries
               /\ origin(twin[x]) = x
    <2>1. twin[x] \in made /\ twin[x] # top /\ twin[x] \in Entries
      BY <1>2
    <2>2. (CHOOSE y \in below : twin[y] = twin[x]) \in below
          /\ twin[CHOOSE y \in below : twin[y] = twin[x]] = twin[x]
      BY Zenon
    <2> QED
      BY <1>3, <2>1, <2>2
  <1>5. \A c \in made \ {top} : origin(c) \in below /\ twin[origin(c)] = c
    BY <1>4
  <1>6. \A x \in below : copyOf(up(x)) \in Entries
    BY <1>2, <1>3
  <1>7. origin(top) = source
    OBVIOUS
  <1> HIDE DEF origin
  <1>8. parent' \in [Entries -> Entries \cup {NoEntry}] /\ name' \in [Entries -> Names]
        /\ kind' \in [Entries -> Kinds]
        /\ state' \in [Entries -> {"unused", "active", "trashed", "purged"}]
    <2>1. ASSUME NEW c \in Entries PROVE parent'[c] \in Entries \cup {NoEntry}
      BY <1>3, <1>5, <1>6 DEF LockInv, TypeOK
    <2>2. ASSUME NEW c \in Entries PROVE name'[c] \in Names
      BY <1>2, <1>3, <1>5 DEF LockInv, TypeOK
    <2>3. ASSUME NEW c \in Entries PROVE kind'[c] \in Kinds
      BY <1>2, <1>3, <1>5, <1>7 DEF LockInv, TypeOK, Kinds
    <2>4. ASSUME NEW c \in Entries PROVE state'[c] \in {"unused", "active", "trashed", "purged"}
      BY <1>3 DEF LockInv, TypeOK
    <2>5. DOMAIN parent' = Entries /\ DOMAIN name' = Entries /\ DOMAIN kind' = Entries
          /\ DOMAIN state' = Entries
      BY <1>3
    <2> QED
      BY <1>3, <2>1, <2>2, <2>3, <2>4
  <1>9. \A c \in Entries \ made :
          parent'[c] = parent[c] /\ kind'[c] = kind[c] /\ state'[c] = state[c]
    BY <1>3
  <1>10. /\ \A c \in made : state'[c] = "active"
         /\ parent'[top] = dest /\ kind'[top] = kind[source]
    BY <1>2, <1>3, <1>7
  <1>11. ASSUME NEW x \in below
         PROVE  /\ parent'[twin[x]] = copyOf(up(x))
                /\ kind'[twin[x]] = IF x = top THEN "folder" ELSE kind[x]
    BY <1>3, <1>4
  <1>12. \A x \in below \ {top} :
           /\ parent[x] \in below \cup {source}
           /\ parent'[twin[x]] = copyOf(parent[x])
           /\ kind'[twin[x]] = kind[x]
    BY <1>3, <1>11
  <1>13. top \in below =>
           /\ dest \in below \cup {source}
           /\ parent'[twin[top]] = copyOf(dest)
           /\ kind'[twin[top]] = "folder"
    BY <1>3, <1>11
  <1> QED
    BY <1>2, <1>8, <1>9, <1>10, <1>12, <1>13 DEF Copied

\* A copy goes through as Copied says, into a locked folder.
LEMMA CopyRows ==
    ASSUME LockInv, NEW r \in Requests, FinishCopy(r)
    PROVE  /\ req[r].entry \in Entries \ {Root} /\ req[r].dest \in Entries
           /\ IsFolder(req[r].dest) /\ Commit(r) /\ trash' = trash
           /\ \E top, below, twin : Copied(req[r].entry, req[r].dest, top, below, twin)
  <1>1. /\ req[r].entry \in Entries \ {Root} /\ req[r].dest \in Entries
        /\ IsFolder(req[r].dest) /\ Commit(r) /\ trash' = trash
    BY DEF FinishCopy, At, LockInv, TypeOK, RequestStates, Shape, LockedRows
  <1> DEFINE source == req[r].entry
             dest == req[r].dest
  <1>2. PICK top \in Unused, n \in Names :
            \E twin \in [Below(source, dest, top) -> Unused \ {top}] :
               Insert(source, dest, top, n, Below(source, dest, top), twin)
    BY DEF FinishCopy
  <1> DEFINE below == Below(source, dest, top)
  <1>3. PICK twin \in [below -> Unused \ {top}] : Insert(source, dest, top, n, below, twin)
    BY <1>2
  <1> HIDE DEF below
  <1>4. below = Below(source, dest, top)
    BY DEF below
  <1>5. Copied(source, dest, top, below, twin)
    BY <1>1, <1>3, <1>4, InsertRows
  <1> QED
    BY <1>1, <1>5

\* A copy only adds rows, each of them under a folder.
LEMMA CopyInv ==
    ASSUME LockInv, NEW r \in Requests, FinishCopy(r)
    PROVE  LockInv'
  <1> DEFINE source == req[r].entry
             dest == req[r].dest
  <1>1. /\ source \in Entries \ {Root} /\ dest \in Entries
        /\ IsFolder(dest) /\ Commit(r) /\ trash' = trash
    BY CopyRows
  <1>2. PICK top, below, twin : Copied(source, dest, top, below, twin)
    BY CopyRows
  <1> DEFINE made == {top} \cup {twin[x] : x \in below}
  <1> HIDE DEF source, dest
  <1>3. made \subseteq Unused /\ Root \notin made /\ Unused \subseteq Entries
    BY <1>2 DEF Copied, Unused, LockInv, RootKept
  <1>4. TypeOK!1' /\ TypeOK!2' /\ TypeOK!3' /\ TypeOK!4' /\ TypeOK!5'
    BY <1>1, <1>2 DEF Copied, LockInv, TypeOK
  <1>5. RootKept'
    BY <1>1, <1>2, <1>3, EntriesAssumption DEF EntriesAssumption, Copied, LockInv, RootKept
  <1>6. Present' = Present \cup made /\ Present \cap made = {}
    BY <1>2, <1>3 DEF Copied, Present, Unused
  <1>7. ASSUME NEW e \in Present' \ {Root}
        PROVE  parent'[e] \in Present' /\ kind'[parent'[e]] = "folder"
    <2>1. CASE e \in Present
      BY <1>2, <1>6, <2>1, <1>7 DEF Copied, LockInv, ParentsAreFolders, Present
    <2>2. CASE e = top
      BY <1>1, <1>2, <1>6, <2>2 DEF Copied, IsFolder, Present
    <2>3. ASSUME NEW x \in below, x # top, e = twin[x]
          PROVE  parent'[e] \in Present' /\ kind'[parent'[e]] = "folder"
      <3>1. /\ x \in Present /\ parent[x] \in below \cup {source}
            /\ parent'[e] = IF parent[x] = source THEN top ELSE twin[parent[x]]
        BY <1>2, <2>3 DEF Copied, Present
      <3>2. x # Root
        BY <1>1, <1>2, <3>1, EntriesAssumption
        DEF EntriesAssumption, Copied, LockInv, RootKept
      <3>3. parent[x] \in Present /\ kind[parent[x]] = "folder"
        BY <3>1, <3>2 DEF LockInv, ParentsAreFolders
      <3>4. parent[x] # top
        BY <3>3, <1>6
      <3> QED
        BY <1>2, <1>6, <3>1, <3>3, <3>4 DEF Copied
    <2>4. CASE top \in below /\ e = twin[top]
      <3>1. dest # top /\ kind[dest] = "folder"
        BY <1>1, <1>2 DEF IsFolder, Copied, Unused
      <3> QED
        BY <1>2, <1>6, <2>4, <3>1 DEF Copied
    <2> QED
      BY <1>6, <1>7, <2>1, <2>2, <2>3, <2>4
  <1>8. ParentsAreFolders'
    BY <1>7 DEF ParentsAreFolders
  <1>9. \A q \in Requests \ {r} : \A x \in Held(q) : state'[x] = state[x] /\ kind'[x] = kind[x]
    BY <1>2, <1>6, HeldPresent DEF Copied, Present
  <1> QED
    BY <1>1, <1>4, <1>5, <1>8, <1>9, CommitStep

-----------------------------------------------------------------------------
(* Any number of overlapping requests *)

\* Every step preserves LockInv.
LEMMA NextLockInv == LockInv /\ [Next]_vars => LockInv'
  <1> SUFFICES ASSUME LockInv, [Next]_vars PROVE LockInv'
    OBVIOUS
  <1>1. CASE UNCHANGED vars
    BY <1>1 DEF vars, LockInv, TypeOK, RootKept, ParentsAreFolders, Present, Shape, LockedRows,
                IsFolder
  <1>2. ASSUME NEW r \in Requests,
               \/ BeginCreate(r) \/ BeginRename(r) \/ BeginMove(r) \/ BeginCopy(r)
               \/ BeginTrash(r) \/ BeginRestore(r) \/ BeginPurge(r)
        PROVE  LockInv'
    BY <1>2, BeginInv
  <1>3. ASSUME NEW r \in Requests, AimMove(r) \/ AimCopy(r) \/ AimRestore(r) PROVE LockInv'
    BY <1>3, AimInv
  <1>4. ASSUME NEW r \in Requests, Scan(r) \/ Abort(r) PROVE LockInv'
    BY <1>4, ScanInv, AbortInv
  <1>5. ASSUME NEW r \in Requests, FinishCreate(r) \/ FinishCopy(r) PROVE LockInv'
    BY <1>5, CreateInv, CopyInv
  <1>6. ASSUME NEW r \in Requests, FinishRename(r) \/ FinishMove(r) PROVE LockInv'
    BY <1>6, RenameMoveInv
  <1>7. ASSUME NEW r \in Requests, FinishTrash(r) \/ FinishRestore(r) \/ FinishPurge(r)
        PROVE  LockInv'
    BY <1>7, TrashInv, RestoreInv, PurgeInv
  <1> QED
    BY <1>1, <1>2, <1>3, <1>4, <1>5, <1>6, <1>7 DEF Next

\* The tree starts as the root alone.
LEMMA InitLockInv == Init => LockInv
  <1> SUFFICES ASSUME Init PROVE LockInv
    OBVIOUS
  <1>1. TypeOK
    BY NoRequestOK DEF Init, TypeOK, Kinds
  <1>2. RootKept /\ ParentsAreFolders
    BY EntriesAssumption DEF EntriesAssumption, Init, RootKept, ParentsAreFolders, Present
  <1>3. \A r \in Requests : req[r] = NoRequest
    BY DEF Init
  <1> QED
    BY <1>1, <1>2, <1>3, NoRequestOK DEF LockInv

\* The locks do their work for any number of overlapping requests.
THEOREM LocksHold == Spec => []LockInv
  BY InitLockInv, NextLockInv, PTL DEF Spec

\* Every row and every request has its type, whatever requests overlap.
THEOREM TypeCorrect == Spec => []TypeOK
  <1>1. LockInv => TypeOK
    BY DEF LockInv
  <1> QED
    BY <1>1, LocksHold, PTL

\* A folder that an entry is created under, copied, moved or restored into is active
\* at the commit: for_update on the destination is enough, whatever requests overlap.
THEOREM DestinationActive == Spec => AttachedToActive
  <1> DEFINE A == \A e \in Entries :
                     ((parent'[e] # parent[e] \/ e \in trash \ trash')
                        /\ state'[e] = "active") => state'[parent'[e]] = "active"
  <1>1. LockInv /\ [Next]_vars => [A]_vars
    <2> SUFFICES ASSUME LockInv, Next PROVE A
      BY DEF A
    <2>1. PICK r \in Requests : Next!(r)
      BY DEF Next
    <2>2. CASE parent' = parent /\ trash \subseteq trash'
      BY <2>2
    <2>3. CASE FinishCreate(r) \/ FinishMove(r) \/ FinishRestore(r)
      <3>1. /\ req[r].dest \in Entries /\ state[req[r].dest] = "active"
            /\ parent \in [Entries -> Entries \cup {NoEntry}]
            /\ state \in [Entries -> {"unused", "active", "trashed", "purged"}]
        BY <2>3 DEF FinishCreate, FinishMove, FinishRestore, At, LockInv, TypeOK, RequestStates,
                    Shape, LockedRows, IsFolder
      <3> QED
        BY <2>3, <3>1 DEF FinishCreate, FinishMove, FinishRestore, Unused
    <2>4. CASE FinishCopy(r)
      <3> DEFINE source == req[r].entry
                 dest == req[r].dest
      <3>1. /\ source \in Entries /\ dest \in Entries /\ state[dest] = "active"
            /\ trash' = trash
        BY <2>4, CopyRows DEF IsFolder
      <3>2. PICK top, below, twin : Copied(source, dest, top, below, twin)
        BY <2>4, CopyRows
      <3> HIDE DEF source, dest
      <3> DEFINE made == {top} \cup {twin[x] : x \in below}
      <3>3. state'[dest] = "active"
        BY <3>1, <3>2 DEF Copied
      <3>4. ASSUME NEW e \in made PROVE parent'[e] \in made \cup {dest}
        BY <3>2, <3>4 DEF Copied
      <3>5. \A e \in Entries \ made : parent'[e] = parent[e]
        BY <3>2 DEF Copied
      <3>6. \A e \in made : state'[e] = "active"
        BY <3>2 DEF Copied
      <3> QED
        BY <3>1, <3>3, <3>4, <3>5, <3>6
    <2>5. CASE FinishPurge(r)
      <3> DEFINE gone == Closure(Selected(r)) \cap Present
      <3>1. /\ state' = [e \in Entries |-> IF e \in gone THEN "purged" ELSE state[e]]
            /\ parent' = [e \in Entries |-> IF e \in gone THEN NoEntry ELSE parent[e]]
            /\ trash' = trash \ gone
        BY <2>5 DEF FinishPurge
      <3> HIDE DEF gone
      <3> QED
        BY <3>1
    <2> QED
      BY <2>1, <2>2, <2>3, <2>4, <2>5
      DEF Untouched, BeginCreate, BeginRename, BeginMove, BeginCopy, BeginTrash, BeginRestore,
          BeginPurge, AimMove, AimCopy, AimRestore, Scan, Abort, FinishRename, FinishTrash
  <1> QED
    BY <1>1, LocksHold, PTL DEF Spec, AttachedToActive

-----------------------------------------------------------------------------
(* Requests that do not overlap *)

\* Requests do not overlap.
Sequential == \A q, r \in Requests : q = r

\* What a request has read of the tree is still so.
Snapshot(t) ==
    /\ (t.pc = "finish" /\ t.op \in Subtrees) => t.rows = Subtree(t.entry)
    /\ (t.pc = "finish" /\ t.op = "move") => t.dest \notin Subtree(t.entry)

\* Every entry is reached from the root.
Reached == Present \subseteq Subtree(Root)

TreeInv ==
    /\ LockInv
    /\ Reached
    /\ ActiveUnderActive
    /\ TrashIsCovered
    /\ \A r \in Requests : Snapshot(req[r])

\* Induction over the tree: what holds of the root and passes from a folder to its
\* entries holds of every entry.
LEMMA TreeInduction ==
    ASSUME LockInv, Reached, NEW S, Root \in S,
           \A y \in Present : parent[y] \in S => y \in S
    PROVE  Present \subseteq S
  <1>1. Root \in Entries /\ Root \in Present
    BY EntriesAssumption DEF EntriesAssumption, LockInv, RootKept, Present
  <1>2. Closure({Root}) \subseteq S
    BY <1>1, ClosureLeast
  <1> QED
    BY <1>2 DEF Reached, Subtree

\* The same, as what is to be shown of the tree after a step.
LEMMA ReachedAfter ==
    ASSUME LockInv',
           \A S \in SUBSET Present' :
              (Root \in S /\ \A y \in Present' : parent'[y] \in S => y \in S) => Present' \subseteq S
    PROVE  Reached'
  <1>1. Root \in Present'
    BY EntriesAssumption DEF EntriesAssumption, LockInv, RootKept, Present
  <1>2. Present' \cup {Root} = Present'
    BY <1>1
  <1> QED
    BY <1>2 DEF Reached, Subtree, Closure

\* The parent of an entry other than the root is an entry.
LEMMA ParentPresent ==
    ASSUME LockInv, NEW e \in Present
    PROVE  IF e = Root THEN parent[e] \notin Entries ELSE parent[e] \in Present
  BY EntriesAssumption DEF EntriesAssumption, LockInv, RootKept, ParentsAreFolders

\* Whatever lies below a trashed entry is trashed.
LEMMA TrashedBelow ==
    ASSUME LockInv, ActiveUnderActive, NEW rows \in SUBSET Entries,
           \A e \in rows : state[e] = "trashed"
    PROVE  \A x \in Closure(rows) : x \in Entries /\ state[x] = "trashed"
  <1> DEFINE S == {x \in Entries : state[x] = "trashed"}
  <1>1. ASSUME NEW y \in Present \cup rows, parent[y] \in S PROVE y \in S
    <2>1. y \in Present /\ y \in Entries
      BY DEF Present
    <2>2. y # Root
      BY <1>1, <2>1, ParentPresent
    <2> QED
      BY <1>1, <2>1, <2>2 DEF Present, ActiveUnderActive
  <1>2. Closure(rows) \subseteq S
    BY <1>1, ClosureLeast
  <1> QED
    BY <1>2

\* Giving an entry a new parent outside its subtree keeps every entry reached.
LEMMA AttachReached ==
    ASSUME LockInv, Reached, LockInv', NEW e \in Present \ {Root}, NEW d \in Present,
           d \notin Subtree(e), parent' = [parent EXCEPT ![e] = d], Present' = Present
    PROVE  Reached'
  <1>1. parent \in [Entries -> Entries \cup {NoEntry}] /\ e \in Entries
    BY DEF LockInv, TypeOK, Present
  <1>2. /\ e \in Subtree(e)
        /\ \A y \in Present : parent[y] \in Subtree(e) => y \in Subtree(e)
    BY <1>1, ClosureHolds DEF Subtree
  <1>3. ASSUME NEW S \in SUBSET Present, Root \in S,
               \A y \in Present : parent'[y] \in S => y \in S
        PROVE  Present \subseteq S
    <2>1. \A y \in Present : parent[y] \in S => y \in S \/ y = e
      BY <1>1, <1>3 DEF Present
    <2> DEFINE T == S \cup Subtree(e)
    <2>2. Present \subseteq T
      <3>1. Root \in T /\ \A y \in Present : parent[y] \in T => y \in T
        BY <1>2, <1>3, <2>1
      <3> HIDE DEF T
      <3> QED
        BY <3>1, TreeInduction
    <2>3. e \in S
      BY <1>1, <1>3, <2>2
    <2>4. Subtree(e) \subseteq S
      BY <1>1, <2>1, <2>3, ClosureLeast DEF Subtree
    <2> QED
      BY <2>2, <2>4
  <1> QED
    BY <1>3, ReachedAfter

\* After a commit no request is under way.
LEMMA Alone ==
    ASSUME Sequential, TypeOK, NEW r \in Requests, Commit(r)
    PROVE  \A q \in Requests : Snapshot(req[q])'
  <1>1. ASSUME NEW q \in Requests PROVE req'[q] = NoRequest
    BY DEF Sequential, Commit, TypeOK
  <1> QED
    BY <1>1 DEF NoRequest, Snapshot

-----------------------------------------------------------------------------
(* Steps of a request that is alone *)

\* Locking and reading leave the tree as it is.
LEMMA TreeUntouched ==
    ASSUME TreeInv, LockInv', Untouched
    PROVE  Reached' /\ ActiveUnderActive' /\ TrashIsCovered'
  <1>1. parent' = parent /\ state' = state /\ trash' = trash
    BY DEF Untouched
  <1> QED
    BY <1>1 DEF TreeInv, Reached, Subtree, Closure, Present, ActiveUnderActive, TrashIsCovered

\* A request reads the tree as it is.
LEMMA ReadTree ==
    ASSUME Sequential, TreeInv, NEW r \in Requests, Untouched,
           \/ BeginCreate(r) \/ BeginRename(r) \/ BeginMove(r) \/ BeginCopy(r)
           \/ BeginTrash(r) \/ BeginRestore(r) \/ BeginPurge(r)
           \/ AimMove(r) \/ AimCopy(r) \/ AimRestore(r) \/ Scan(r) \/ Abort(r)
    PROVE  \A q \in Requests : Snapshot(req[q])'
  <1>0. parent' = parent /\ state' = state
    BY DEF Untouched
  <1>1. \A q \in Requests : q = r
    BY DEF Sequential
  <1>2. req[r] \in RequestStates /\ req \in [Requests -> RequestStates] /\ Shape(req[r])
    BY DEF TreeInv, LockInv, TypeOK
  <1> SUFFICES Snapshot(req[r])'
    BY <1>1
  <1>3. CASE \/ BeginCreate(r) \/ BeginRename(r) \/ BeginMove(r) \/ BeginCopy(r)
             \/ BeginTrash(r) \/ BeginRestore(r) \/ BeginPurge(r)
    <2>1. PICK op, e, d, pc : /\ Begin(r, op, e, d, pc)
                              /\ pc # "finish" \/ op \in {"create", "rename"}
      <3>1. ASSUME BeginCreate(r) \/ BeginRename(r)
            PROVE  \E op \in {"create", "rename"} : \E e, d : Begin(r, op, e, d, "finish")
        BY <3>1, Zenon DEF BeginCreate, BeginRename
      <3>2. ASSUME BeginMove(r) \/ BeginCopy(r) \/ BeginRestore(r)
            PROVE  \E op, e, d : Begin(r, op, e, d, "aim")
        BY <3>2, Zenon DEF BeginMove, BeginCopy, BeginRestore
      <3>3. ASSUME BeginTrash(r) \/ BeginPurge(r)
            PROVE  \E op, e, d : Begin(r, op, e, d, "scan")
        BY <3>3, Zenon DEF BeginTrash, BeginPurge
      <3>4. "aim" # "finish" /\ "scan" # "finish"
        OBVIOUS
      <3> QED
        BY <1>3, <3>1, <3>2, <3>3, <3>4, Zenon
    <2>2. req'[r].pc # "finish" \/ req'[r].op \in {"create", "rename"}
      BY <1>2, <2>1 DEF Begin
    <2> QED
      BY <2>2 DEF Snapshot, Subtrees
  <1>4. CASE AimMove(r)
    <2>1. PICK d \in Entries : /\ d \notin Subtree(req[r].entry)
                               /\ req' = [req EXCEPT ![r].dest = d, ![r].pc = "finish"]
      BY <1>4 DEF AimMove
    <2>2. req'[r].dest = d /\ req'[r].entry = req[r].entry /\ req'[r].op = "move"
      BY <1>2, <1>4, <2>1 DEF AimMove, At, RequestStates
    <2>3. Subtree(req[r].entry)' = Subtree(req[r].entry)
      BY <1>0, <2>2 DEF Subtree, Closure, Present
    <2> QED
      BY <2>1, <2>2, <2>3 DEF Snapshot, Subtrees
  <1>5. CASE AimCopy(r) \/ AimRestore(r)
    <2>1. \/ req'[r].pc = "scan" \/ req'[r].op = "copy"
      BY <1>2, <1>5 DEF AimCopy, AimRestore, At, RequestStates
    <2> QED
      BY <2>1 DEF Snapshot, Subtrees
  <1>6. CASE Scan(r)
    <2>1. /\ req'[r].rows = Subtree(req[r].entry) /\ req'[r].entry = req[r].entry
          /\ req'[r].op \in Subtrees
      BY <1>2, <1>6 DEF Scan, Shape, RequestStates
    <2> QED
      BY <1>0, <2>1 DEF Snapshot, Subtrees, Subtree, Closure, Present
  <1>7. CASE Abort(r)
    BY <1>7, Alone DEF Abort, TreeInv, LockInv
  <1> QED
    BY <1>3, <1>4, <1>5, <1>6, <1>7

-----------------------------------------------------------------------------
(* Commits of a request that is alone *)

\* A new entry is reached through its folder.
LEMMA CreateTree ==
    ASSUME TreeInv, NEW r \in Requests, FinishCreate(r)
    PROVE  Reached' /\ ActiveUnderActive' /\ TrashIsCovered'
  <1>0. LockInv /\ LockInv' /\ Reached
    BY CreateInv DEF TreeInv
  <1>1. PICK e \in Unused :
           /\ parent' = [parent EXCEPT ![e] = req[r].dest]
           /\ state' = [state EXCEPT ![e] = "active"]
    BY DEF FinishCreate
  <1>2. /\ trash' = trash /\ req[r].dest \in Entries /\ state[req[r].dest] = "active"
        /\ e \in Entries /\ state[e] = "unused"
        /\ parent \in [Entries -> Entries \cup {NoEntry}]
        /\ state \in [Entries -> {"unused", "active", "trashed", "purged"}]
    BY <1>0 DEF FinishCreate, At, LockInv, TypeOK, RequestStates, Shape, LockedRows, IsFolder, Unused
  <1>3. Present' = Present \cup {e} /\ e \notin Present /\ req[r].dest \in Present
    BY <1>1, <1>2 DEF Present
  <1>4. \A y \in Present : parent'[y] = parent[y]
    BY <1>1, <1>2, <1>3
  <1>5. ASSUME NEW S \in SUBSET Present', Root \in S,
               \A y \in Present' : parent'[y] \in S => y \in S
        PROVE  Present' \subseteq S
    <2>1. Present \subseteq S
      BY <1>0, <1>3, <1>4, <1>5, TreeInduction
    <2> QED
      BY <1>1, <1>2, <1>3, <1>5, <2>1
  <1>6. Reached'
    BY <1>0, <1>5, ReachedAfter
  <1>7. \A y \in Present \ {Root} : parent[y] \in Present
    BY <1>0, ParentPresent
  <1>8. ActiveUnderActive'
    BY <1>1, <1>2, <1>7 DEF TreeInv, ActiveUnderActive, Present
  <1>9. TrashIsCovered'
    BY <1>0, <1>1, <1>2, <1>7 DEF TreeInv, TrashIsCovered, Present, LockInv, RootKept
  <1> QED
    BY <1>6, <1>8, <1>9

\* Renaming does not touch the tree; an entry moves to a folder outside its subtree.
LEMMA RenameMoveTree ==
    ASSUME TreeInv, NEW r \in Requests, FinishRename(r) \/ FinishMove(r)
    PROVE  Reached' /\ ActiveUnderActive' /\ TrashIsCovered'
  <1>0. LockInv /\ LockInv' /\ Reached
    BY RenameMoveInv DEF TreeInv
  <1>1. CASE FinishRename(r)
    BY <1>1
    DEF FinishRename, TreeInv, Reached, Subtree, Closure, Present, ActiveUnderActive, TrashIsCovered
  <1>2. CASE FinishMove(r)
    <2> DEFINE e == req[r].entry
               d == req[r].dest
    <2>1. /\ parent' = [parent EXCEPT ![e] = d] /\ state' = state /\ trash' = trash
          /\ e \in Entries \ {Root} /\ state[e] = "active"
          /\ d \in Entries /\ state[d] = "active"
          /\ parent \in [Entries -> Entries \cup {NoEntry}]
          /\ d \notin Subtree(e)
      BY <1>0, <1>2 DEF FinishMove, At, LockInv, TypeOK, RequestStates, Shape, LockedRows, IsFolder,
                        TreeInv, Snapshot
    <2> HIDE DEF e, d
    <2>2. Present' = Present /\ e \in Present /\ d \in Present
      BY <2>1 DEF Present
    <2>3. Reached'
      BY <1>0, <2>1, <2>2, AttachReached
    <2>4. ActiveUnderActive' /\ TrashIsCovered'
      BY <2>1 DEF TreeInv, ActiveUnderActive, TrashIsCovered
    <2> QED
      BY <2>3, <2>4
  <1> QED
    BY <1>1, <1>2

\* Trashing takes a subtree as a whole, and its top gets the tombstone.
LEMMA TrashTree ==
    ASSUME TreeInv, NEW r \in Requests, FinishTrash(r)
    PROVE  Reached' /\ ActiveUnderActive' /\ TrashIsCovered'
  <1> DEFINE e == req[r].entry
  <1>0. LockInv /\ LockInv' /\ Reached
    BY TrashInv DEF TreeInv
  <1>1. /\ parent' = parent /\ trash' = trash \cup {e}
        /\ state' = [x \in Entries |-> IF x \in Selected(r) THEN "trashed" ELSE state[x]]
        /\ e \in Entries /\ state[e] = "active" /\ req[r].rows = Subtree(e)
    BY <1>0 DEF FinishTrash, At, LockInv, Shape, LockedRows, TreeInv, Snapshot, Subtrees
  <1> HIDE DEF e
  <1>2. e \in Present /\ {e} \in SUBSET Entries
    BY <1>1 DEF Present
  <1>3. /\ Selected(r) = Subtree(e)
        /\ \A y \in Present : parent[y] \in Subtree(e) => y \in Subtree(e)
    BY <1>1, <1>2, ClosureHolds DEF Selected, Subtree
  <1>4. \A x \in Subtree(e) \ {e} : parent[x] \in Subtree(e)
    BY <1>2, ClosureParent DEF Subtree
  <1>5. Subtree(e) \subseteq Entries /\ Subtree(e) \subseteq Present
    BY <1>1, <1>3, SelectedOK, <1>0
  <1>6. Present' = Present
    BY <1>1, <1>3, <1>5 DEF Present
  <1>7. Reached'
    BY <1>0, <1>1, <1>6, ReachedAfter, TreeInduction
  <1>8. \A y \in Present \ {Root} : parent[y] \in Present
    BY <1>0, ParentPresent
  <1>9. ActiveUnderActive'
    BY <1>1, <1>3, <1>8 DEF TreeInv, ActiveUnderActive, Present
  <1>10. ASSUME NEW x \in Entries, state'[x] = "trashed"
         PROVE  x \in trash' \/ state'[parent'[x]] = "trashed"
    <2>1. CASE x \in Subtree(e)
      BY <1>1, <1>3, <1>4, <1>5, <2>1
    <2>2. CASE x \notin Subtree(e)
      <3>1. state[x] = "trashed" /\ x # Root /\ x \in Present
        BY <1>0, <1>1, <1>3, <1>10, <2>2 DEF LockInv, RootKept, Present
      <3> QED
        BY <1>1, <1>3, <1>8, <3>1 DEF TreeInv, TrashIsCovered, Present
    <2> QED
      BY <2>1, <2>2
  <1> QED
    BY <1>7, <1>9, <1>10 DEF TrashIsCovered

\* A restored subtree hangs below an active folder, which was not in it.
LEMMA RestoreTree ==
    ASSUME TreeInv, NEW r \in Requests, FinishRestore(r)
    PROVE  Reached' /\ ActiveUnderActive' /\ TrashIsCovered'
  <1> DEFINE e == req[r].entry
             d == req[r].dest
  <1>0. LockInv /\ LockInv' /\ Reached /\ ActiveUnderActive
    BY RestoreInv DEF TreeInv
  <1>1. /\ parent' = [parent EXCEPT ![e] = d] /\ trash' = trash \ {e}
        /\ state' = [x \in Entries |-> IF x \in Selected(r) THEN "active" ELSE state[x]]
        /\ e \in Entries \ {Root} /\ state[e] = "trashed" /\ req[r].rows = Subtree(e)
        /\ d \in Entries /\ state[d] = "active"
        /\ parent \in [Entries -> Entries \cup {NoEntry}]
    BY <1>0 DEF FinishRestore, At, LockInv, TypeOK, RequestStates, Shape, LockedRows, IsFolder,
                TreeInv, Snapshot, Subtrees
  <1> HIDE DEF e, d
  <1>2. e \in Present /\ d \in Present /\ {e} \in SUBSET Entries
    BY <1>1 DEF Present
  <1>3. /\ Selected(r) = Subtree(e) /\ e \in Subtree(e)
        /\ \A y \in Present : parent[y] \in Subtree(e) => y \in Subtree(e)
    BY <1>1, <1>2, ClosureHolds DEF Selected, Subtree
  <1>4. \A x \in Subtree(e) \ {e} : parent[x] \in Subtree(e)
    BY <1>2, ClosureParent DEF Subtree
  <1>5. Subtree(e) \subseteq Entries /\ Subtree(e) \subseteq Present
    BY <1>1, <1>3, SelectedOK, <1>0
  <1>6. Present' = Present
    BY <1>1, <1>3, <1>5 DEF Present
  <1>7. d \notin Subtree(e)
    <2>1. \A x \in Closure({e}) : state[x] = "trashed"
      BY <1>0, <1>1, <1>2, TrashedBelow
    <2> QED
      BY <1>1, <2>1 DEF Subtree
  <1>8. Reached'
    BY <1>0, <1>1, <1>2, <1>6, <1>7, AttachReached
  <1>9. \A y \in Present \ {Root} : parent[y] \in Present
    BY <1>0, ParentPresent
  <1>10. ASSUME NEW x \in Entries \ {Root}, state'[x] = "active"
         PROVE  state'[parent'[x]] = "active"
    <2>1. CASE x = e
      BY <1>1, <2>1
    <2>2. CASE x \in Subtree(e) \ {e}
      BY <1>1, <1>3, <1>4, <1>5, <2>2
    <2>3. CASE x \notin Subtree(e)
      <3>1. state[x] = "active" /\ x \in Present /\ parent'[x] = parent[x]
        BY <1>1, <1>3, <1>10, <2>3 DEF Present
      <3> QED
        BY <1>0, <1>1, <1>9, <3>1, <1>10 DEF ActiveUnderActive, Present
    <2> QED
      BY <2>1, <2>2, <2>3
  <1>11. ASSUME NEW x \in Entries, state'[x] = "trashed"
         PROVE  x \in trash' \/ state'[parent'[x]] = "trashed"
    <2>1. /\ state[x] = "trashed" /\ x \notin Subtree(e) /\ x # e /\ x # Root /\ x \in Present
          /\ parent'[x] = parent[x]
      BY <1>0, <1>1, <1>3, <1>11 DEF LockInv, RootKept, Present
    <2>2. parent[x] \in Present /\ parent[x] \notin Subtree(e)
      BY <1>3, <1>9, <2>1
    <2> QED
      BY <1>1, <1>3, <2>1, <2>2 DEF TreeInv, TrashIsCovered, Present
  <1> QED
    BY <1>8, <1>10, <1>11 DEF ActiveUnderActive, TrashIsCovered

\* A purge takes trashed rows only, with all that is below them.
LEMMA PurgeTrashed ==
    ASSUME TreeInv, NEW r \in Requests, FinishPurge(r)
    PROVE  \A x \in Closure(Selected(r)) : x \in Entries /\ state[x] = "trashed"
  <1>0. LockInv /\ ActiveUnderActive
    BY DEF TreeInv
  <1> DEFINE e == req[r].entry
  <1>1. e \in Entries /\ state[e] = "trashed" /\ req[r].rows = Subtree(e)
    BY <1>0 DEF FinishPurge, At, LockInv, Shape, LockedRows, TreeInv, Snapshot, Subtrees
  <1>2. \A x \in Closure({e}) : x \in Entries /\ state[x] = "trashed"
    BY <1>0, <1>1, TrashedBelow
  <1>3. Selected(r) \in SUBSET Entries /\ \A x \in Selected(r) : state[x] = "trashed"
    BY <1>1, <1>2 DEF Selected, Subtree, Present
  <1> QED
    BY <1>0, <1>3, TrashedBelow

\* A purge leaves the rest of the tree as it was.
LEMMA PurgeTree ==
    ASSUME TreeInv, NEW r \in Requests, FinishPurge(r)
    PROVE  Reached' /\ ActiveUnderActive' /\ TrashIsCovered'
  <1> DEFINE gone == Closure(Selected(r)) \cap Present
  <1>0. LockInv /\ LockInv' /\ Reached
    BY PurgeInv DEF TreeInv
  <1>1. /\ trash' = trash \ gone
        /\ state' = [x \in Entries |-> IF x \in gone THEN "purged" ELSE state[x]]
        /\ parent' = [x \in Entries |-> IF x \in gone THEN NoEntry ELSE parent[x]]
    BY DEF FinishPurge
  <1>2. gone \subseteq Entries \ {Root} /\ \A y \in Present : parent[y] \in gone => y \in gone
    BY <1>0, GoneOK
  <1>3. \A x \in gone : state[x] = "trashed"
    BY PurgeTrashed
  <1> HIDE DEF gone
  <1>4. Present' = Present \ gone
    BY <1>1 DEF Present
  <1>5. \A y \in Present' : parent'[y] = parent[y] /\ state'[y] = state[y]
    BY <1>1, <1>4 DEF Present
  <1>6. ASSUME NEW S \in SUBSET Present', Root \in S,
               \A y \in Present' : parent'[y] \in S => y \in S
        PROVE  Present' \subseteq S
    <2> DEFINE T == S \cup gone
    <2>1. Root \in T /\ \A y \in Present : parent[y] \in T => y \in T
      BY <1>2, <1>4, <1>5, <1>6
    <2>2. Present \subseteq T
      <3> HIDE DEF T
      <3> QED
        BY <1>0, <2>1, TreeInduction
    <2> QED
      BY <1>4, <2>2
  <1>7. Reached'
    BY <1>0, <1>6, ReachedAfter
  <1>8. \A y \in Present' \ {Root} : parent[y] \in Present'
    BY <1>0, <1>2, <1>4, ParentPresent
  <1>9. ActiveUnderActive'
    BY <1>1, <1>5, <1>8 DEF TreeInv, ActiveUnderActive, Present
  <1>10. ASSUME NEW x \in Entries, state'[x] = "trashed"
         PROVE  x \in trash' \/ state'[parent'[x]] = "trashed"
    <2>1. x \in Present' /\ x # Root /\ x \notin gone /\ state[x] = "trashed"
      BY <1>0, <1>1, <1>4, <1>10 DEF Present, LockInv, RootKept
    <2> QED
      BY <1>1, <1>5, <1>8, <2>1 DEF TreeInv, TrashIsCovered
  <1> QED
    BY <1>7, <1>9, <1>10 DEF TrashIsCovered

\* The copies are reached: the top through its folder, the others by induction over
\* the subtree of the source.
LEMMA CopyTree ==
    ASSUME TreeInv, NEW r \in Requests, FinishCopy(r)
    PROVE  Reached' /\ ActiveUnderActive' /\ TrashIsCovered'
  <1> DEFINE source == req[r].entry
             dest == req[r].dest
  <1>0. LockInv /\ LockInv' /\ Reached
    BY CopyInv DEF TreeInv
  <1>1. /\ source \in Entries \ {Root} /\ dest \in Entries
        /\ state[dest] = "active" /\ trash' = trash
    BY <1>0, CopyRows DEF IsFolder
  <1>2. PICK top, below, twin : Copied(source, dest, top, below, twin)
    BY <1>0, CopyRows
  <1> DEFINE made == {top} \cup {twin[x] : x \in below}
  <1> HIDE DEF source, dest
  <1>3. made \subseteq Unused /\ Unused \subseteq Entries /\ top \in made
        /\ \A x \in below : twin[x] \in made
    BY <1>2 DEF Copied, Unused
  <1>4. Present' = Present \cup made /\ Present \cap made = {} /\ dest \in Present
    BY <1>1, <1>2, <1>3 DEF Copied, Present, Unused
  <1>5. \A y \in Present : parent'[y] = parent[y] /\ state'[y] = state[y]
    BY <1>2, <1>4 DEF Copied, Present
  <1>6. ASSUME NEW S \in SUBSET Present', Root \in S,
               \A y \in Present' : parent'[y] \in S => y \in S
        PROVE  Present' \subseteq S
    <2>1. Present \subseteq S
      BY <1>0, <1>4, <1>5, <1>6, TreeInduction
    <2>2. top \in S
      BY <1>2, <1>3, <1>4, <1>6, <2>1 DEF Copied
    <2> DEFINE T == {x \in Entries : x = top \/ (x \in below => twin[x] \in S)}
    <2>3. ASSUME NEW y \in Present \cup {source}, parent[y] \in T
          PROVE  y \in T
      <3>1. y \in Entries
        BY <1>1 DEF Present
      <3>2. CASE y \in below \ {top}
        <4>1. /\ parent[y] \in below \cup {source}
              /\ parent'[twin[y]] = IF parent[y] = source THEN top ELSE twin[parent[y]]
              /\ y \in Present /\ source \notin below
          BY <1>2, <3>2 DEF Copied, Present
        <4>2. parent[y] # top
          BY <1>0, <1>1, <1>2, <1>3, <1>4, <4>1, ParentPresent DEF Copied
        <4>3. parent'[twin[y]] \in S
          BY <2>2, <2>3, <4>1, <4>2
        <4> QED
          BY <1>3, <1>4, <1>6, <3>1, <3>2, <4>3
      <3> QED
        BY <3>1, <3>2
    <2>4. source \in T
      BY <1>1, <1>2 DEF Copied
    <2>5. Subtree(source) \subseteq T
      <3> HIDE DEF T
      <3> QED
        BY <1>1, <2>3, <2>4, ClosureLeast DEF Subtree
    <2>6. ASSUME NEW x \in below \ {top} PROVE twin[x] \in S
      BY <1>2, <2>5 DEF Copied
    <2>7. top \in below => twin[top] \in S
      <3>1. dest # top
        BY <1>3, <1>4
      <3> QED
        BY <1>2, <1>3, <1>4, <1>6, <2>2, <2>6, <3>1 DEF Copied
    <2> QED
      BY <1>4, <2>1, <2>2, <2>6, <2>7
  <1>7. Reached'
    BY <1>0, <1>6, ReachedAfter
  <1>8. \A y \in Present \ {Root} : parent[y] \in Present
    BY <1>0, ParentPresent
  <1>9. ASSUME NEW e \in made PROVE state'[e] = "active" /\ state'[parent'[e]] = "active"
    <2>1. parent'[e] \in made \cup {dest}
      BY <1>2, <1>9 DEF Copied
    <2>2. state'[dest] = "active"
      BY <1>1, <1>4, <1>5
    <2> QED
      BY <1>2, <2>1, <2>2, <1>9 DEF Copied
  <1>10. \A e \in Entries \ made : state'[e] = state[e]
    BY <1>2 DEF Copied
  <1>11. ActiveUnderActive'
    BY <1>5, <1>8, <1>9, <1>10 DEF TreeInv, ActiveUnderActive, Present
  <1>12. ASSUME NEW e \in Entries, state'[e] = "trashed"
         PROVE  e \in trash' \/ state'[parent'[e]] = "trashed"
    <2>1. state[e] = "trashed" /\ e \in Present /\ e # Root
      BY <1>0, <1>9, <1>10, <1>12 DEF Present, LockInv, RootKept
    <2> QED
      BY <1>1, <1>5, <1>8, <2>1 DEF TreeInv, TrashIsCovered
  <1> QED
    BY <1>7, <1>11, <1>12 DEF TrashIsCovered

\* Every step of a request that is alone preserves TreeInv.
LEMMA NextTreeInv == Sequential /\ TreeInv /\ [Next]_vars => TreeInv'
  <1> SUFFICES ASSUME Sequential, TreeInv, [Next]_vars PROVE TreeInv'
    OBVIOUS
  <1>0. LockInv /\ LockInv' /\ TypeOK
    BY NextLockInv DEF TreeInv, LockInv
  <1>1. CASE UNCHANGED vars
    <2>1. Untouched /\ req' = req /\ parent' = parent /\ state' = state
      BY <1>1 DEF vars, Untouched
    <2>2. \A r \in Requests : Snapshot(req[r])'
      BY <2>1 DEF TreeInv, Snapshot, Subtree, Closure, Present
    <2> QED
      BY <1>0, <2>1, <2>2, TreeUntouched DEF TreeInv
  <1>2. ASSUME NEW r \in Requests,
               \/ BeginCreate(r) \/ BeginRename(r) \/ BeginMove(r) \/ BeginCopy(r)
               \/ BeginTrash(r) \/ BeginRestore(r) \/ BeginPurge(r)
               \/ AimMove(r) \/ AimCopy(r) \/ AimRestore(r) \/ Scan(r) \/ Abort(r)
        PROVE  TreeInv'
    <2>1. Untouched
      BY <1>2 DEF BeginCreate, BeginRename, BeginMove, BeginCopy, BeginTrash, BeginRestore,
                  BeginPurge, AimMove, AimCopy, AimRestore, Scan, Abort
    <2> QED
      BY <1>0, <1>2, <2>1, TreeUntouched, ReadTree DEF TreeInv
  <1>3. ASSUME NEW r \in Requests,
               \/ FinishCreate(r) \/ FinishRename(r) \/ FinishMove(r) \/ FinishCopy(r)
               \/ FinishTrash(r) \/ FinishRestore(r) \/ FinishPurge(r)
        PROVE  TreeInv'
    <2>1. Reached' /\ ActiveUnderActive' /\ TrashIsCovered'
      BY <1>3, CreateTree, RenameMoveTree, CopyTree, TrashTree, RestoreTree, PurgeTree
    <2>2. Commit(r)
      BY <1>3 DEF FinishCreate, FinishRename, FinishMove, FinishCopy, FinishTrash, FinishRestore,
                  FinishPurge
    <2> QED
      BY <1>0, <2>1, <2>2, Alone DEF TreeInv
  <1> QED
    BY <1>1, <1>2, <1>3 DEF Next

\* The root alone is a tree.
LEMMA InitTreeInv == Init => TreeInv
  <1> SUFFICES ASSUME Init PROVE TreeInv
    OBVIOUS
  <1>1. LockInv
    BY InitLockInv
  <1>2. Present = {Root}
    BY EntriesAssumption DEF EntriesAssumption, Init, Present
  <1>3. Reached
    BY <1>2, ClosureHolds, EntriesAssumption DEF EntriesAssumption, Reached, Subtree
  <1>4. ActiveUnderActive /\ TrashIsCovered
    BY DEF Init, ActiveUnderActive, TrashIsCovered
  <1>5. \A r \in Requests : Snapshot(req[r])
    BY DEF Init, NoRequest, Snapshot
  <1> QED
    BY <1>1, <1>3, <1>4, <1>5 DEF TreeInv

\* Requests that do not overlap keep the tree in order.
THEOREM TreeHolds == Sequential => (Spec => []TreeInv)
  <1> SUFFICES ASSUME Sequential PROVE Spec => []TreeInv
    OBVIOUS
  <1>1. TreeInv /\ [Next]_vars => TreeInv'
    BY NextTreeInv
  <1> QED
    BY <1>1, InitTreeInv, PTL DEF Spec

\* The entries form one tree of folders with files as leaves: no move, restore, copy
\* or purge, one after the other, cuts an entry off from the root.
THEOREM TreeIsRooted == Sequential => (Spec => []Rooted)
  <1>1. ASSUME TreeInv PROVE Rooted
    <2>1. LockInv /\ Reached /\ ParentsAreFolders
      BY <1>1 DEF TreeInv, LockInv
    <2>2. Root \in Present /\ {Root} \in SUBSET Entries
      BY <2>1, EntriesAssumption DEF EntriesAssumption, LockInv, RootKept, Present
    <2>3. Subtree(Root) \subseteq Present
      BY <2>2, ClosureHolds DEF Subtree
    <2> QED
      BY <2>1, <2>3 DEF Rooted, Reached, ParentsAreFolders
  <1> QED
    BY <1>1, TreeHolds, PTL

\* What the owner can list is never inside a folder that is in the trash, when
\* requests do not overlap.
THEOREM NothingActiveInTrash == Sequential => (Spec => []ActiveUnderActive)
  <1>1. TreeInv => ActiveUnderActive
    BY DEF TreeInv
  <1> QED
    BY <1>1, TreeHolds, PTL

\* Every trashed entry has a tombstone or lies in a trashed folder, when requests do
\* not overlap.
THEOREM TrashCovered == Sequential => (Spec => []TrashIsCovered)
  <1>1. TreeInv => TrashIsCovered
    BY DEF TreeInv
  <1> QED
    BY <1>1, TreeHolds, PTL

\* hard_delete_subtree deletes no active row, when no two requests of the behaviour overlap.
\* It is not enough that the purge itself runs alone: a trash and a creation that
\* overlapped earlier can have left an active entry below a trashed one.
THEOREM PurgeTakesTrashOnly == Sequential => (Spec => PurgeOnlyTrashed)
  <1> DEFINE A == \A e \in Entries : state'[e] = "purged" => state[e] # "active"
  <1>1. TreeInv /\ [Next]_vars => [A]_vars
    <2> SUFFICES ASSUME TreeInv, Next PROVE A
      BY DEF A
    <2>1. PICK r \in Requests : Next!(r)
      BY DEF Next
    <2>2. state \in [Entries -> {"unused", "active", "trashed", "purged"}]
      BY DEF TreeInv, LockInv, TypeOK
    <2>3. CASE state' = state
      BY <2>2, <2>3
    <2>4. CASE FinishCreate(r) \/ FinishTrash(r) \/ FinishRestore(r)
      BY <2>2, <2>4 DEF FinishCreate, FinishTrash, FinishRestore, Unused
    <2>5. CASE FinishCopy(r)
      <3>1. LockInv
        BY DEF TreeInv
      <3>2. PICK top, below, twin : Copied(req[r].entry, req[r].dest, top, below, twin)
        BY <2>5, <3>1, CopyRows
      <3> QED
        BY <2>2, <3>2 DEF Copied
    <2>6. CASE FinishPurge(r)
      <3> DEFINE gone == Closure(Selected(r)) \cap Present
      <3>1. state' = [e \in Entries |-> IF e \in gone THEN "purged" ELSE state[e]]
        BY <2>6 DEF FinishPurge
      <3>2. \A e \in gone : state[e] = "trashed"
        BY <2>6, PurgeTrashed
      <3> HIDE DEF gone
      <3> QED
        BY <2>2, <3>1, <3>2
    <2> QED
      BY <2>1, <2>3, <2>4, <2>5, <2>6
      DEF Untouched, BeginCreate, BeginRename, BeginMove, BeginCopy, BeginTrash, BeginRestore,
          BeginPurge, AimMove, AimCopy, AimRestore, Scan, Abort, FinishRename, FinishMove
  <1> QED
    BY <1>1, TreeHolds, PTL DEF Spec, PurgeOnlyTrashed

=============================================================================
