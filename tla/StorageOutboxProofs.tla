------------------------- MODULE StorageOutboxProofs -------------------------
(***************************************************************************)
(* Proofs about StorageOutbox for every set of objects, workers and copies *)
(* and every batch size.                                                   *)
(***************************************************************************)
EXTENDS StorageOutbox, TLAPS

\* Row locks: a worker holds locks and uncommitted work only while it detaches;
\* what it has detached is locked, has a row and no version.
WorkerLocks ==
    \A w \in Workers :
        /\ worker[w].pc # "detach" => /\ worker[w].locked = {}
                                      /\ worker[w].todo = {}
                                      /\ worker[w].adds = << >>
        /\ worker[w].locked \subseteq objects
        /\ worker[w].todo \subseteq worker[w].locked
        /\ \A k \in DOMAIN worker[w].adds :
             /\ worker[w].adds[k] = DeleteEvent(worker[w].adds[k].object)
             /\ worker[w].adds[k].object \in worker[w].locked
             /\ refs[worker[w].adds[k].object] = 0

\* FOR UPDATE excludes FOR UPDATE and FOR KEY SHARE; a shared row stays.
LocksExclude ==
    /\ \A v, w \in Workers : v # w => worker[v].locked \cap worker[w].locked = {}
    /\ \A c \in Copies :
         /\ copy[c].held \subseteq objects
         /\ \A w \in Workers : copy[c].held \cap worker[w].locked = {}

\* The control state of a worker agrees with the event it works on.
WorkerEvents ==
    \A w \in Workers :
        /\ worker[w].pc \in Leasing \cup {"lease", "record"} =>
             worker[w].event \in DOMAIN outbox
        /\ worker[w].pc \in {"snapshot", "claim", "detach"} =>
             outbox[worker[w].event].type = "sweep"
        /\ worker[w].pc \in {"unlink", "ack"} =>
             outbox[worker[w].event].type = "delete"
        /\ worker[w].pc = "ack" =>
             outbox[worker[w].event].object \notin blobs

\* Where an upload stands tells what exists on disk and in the database.
UploadPhases ==
    \A o \in Objects :
        /\ upload[o] = "none" => o \notin blobs
        /\ upload[o] \in {"published", "lost"} => o \in blobs
        /\ upload[o] = "compensated" => o \notin blobs
        /\ upload[o] # "done" => o \notin objects

\* A delete event belongs to an object that was once complete.
DeletesAreOfObjects ==
    \A i \in DOMAIN outbox : outbox[i].type = "delete" =>
        /\ outbox[i].object \in Objects
        /\ upload[outbox[i].object] = "done"

\* The catalogue part of the invariant depends on neither workers nor copies.
Catalogue ==
    /\ UploadPhases
    /\ DeletesAreOfObjects
    /\ CommittedBytesExist
    /\ DeleteEventsAreFinal
    /\ BytesAccountedFor

IndInv ==
    /\ TypeOK
    /\ WorkerLocks
    /\ LocksExclude
    /\ WorkerEvents
    /\ LeaseHolds
    /\ Catalogue

-----------------------------------------------------------------------------
(* Facts about sequences and about parts of the state that a step leaves alone *)

\* Appending one element: positions of the old elements and of the new one.
LEMMA AppendFacts ==
    ASSUME NEW S, NEW s \in Seq(S), NEW x \in S
    PROVE  /\ Append(s, x) \in Seq(S)
           /\ DOMAIN Append(s, x) = DOMAIN s \cup {Len(s) + 1}
           /\ Append(s, x)[Len(s) + 1] = x
           /\ \A i \in DOMAIN s : Append(s, x)[i] = s[i]
OBVIOUS

\* Concatenation keeps the positions of its first part and shifts the second.
LEMMA ConcatFacts ==
    ASSUME NEW S, NEW s \in Seq(S), NEW t \in Seq(S)
    PROVE  /\ s \o t \in Seq(S)
           /\ \A i \in DOMAIN s : i \in DOMAIN (s \o t) /\ (s \o t)[i] = s[i]
           /\ \A k \in DOMAIN t : /\ Len(s) + k \in DOMAIN (s \o t)
                                  /\ (s \o t)[Len(s) + k] = t[k]
           /\ \A i \in DOMAIN (s \o t) :
                i \in DOMAIN s \/ \E k \in DOMAIN t : i = Len(s) + k
<1>1. /\ s \o t \in Seq(S)
      /\ Len(s \o t) = Len(s) + Len(t)
      /\ \A i \in 1 .. Len(s) + Len(t) :
           (s \o t)[i] = IF i <= Len(s) THEN s[i] ELSE t[i - Len(s)]
  OBVIOUS
<1>2. ASSUME NEW i \in DOMAIN (s \o t), i \notin DOMAIN s
      PROVE  \E k \in DOMAIN t : i = Len(s) + k
  <2>1. i - Len(s) \in DOMAIN t
    BY <1>1, <1>2
  <2> QED BY <2>1
<1> QED BY <1>1, <1>2

\* Marking an event processed changes nothing else of the outbox.
LEMMA MarkFacts ==
    ASSUME TypeOK, NEW e \in DOMAIN outbox,
           NEW marked, marked = [outbox EXCEPT ![e].processed = TRUE]
    PROVE  /\ marked \in Seq(Events)
           /\ Len(marked) = Len(outbox)
           /\ DOMAIN marked = DOMAIN outbox
           /\ marked[e].processed = TRUE
           /\ marked[e].type = outbox[e].type
           /\ marked[e].object = outbox[e].object
           /\ \A i \in DOMAIN outbox : i # e => marked[i] = outbox[i]
<1>1. outbox \in Seq(Events) /\ outbox[e] \in Events /\ e \in 1 .. Len(outbox)
  BY DEF TypeOK
<1>2. [outbox[e] EXCEPT !.processed = TRUE] \in Events
  BY <1>1 DEF Events
<1>3. marked = [outbox EXCEPT ![e] = [outbox[e] EXCEPT !.processed = TRUE]]
  OBVIOUS
<1>4. marked \in Seq(Events) /\ Len(marked) = Len(outbox)
  BY <1>1, <1>2, <1>3
<1>5. /\ marked[e].processed = TRUE
      /\ marked[e].type = outbox[e].type
      /\ marked[e].object = outbox[e].object
  BY <1>1, <1>3 DEF Events
<1> QED BY <1>1, <1>3, <1>4, <1>5

\* A step that changes only workers and copies keeps the catalogue part.
LEMMA CatalogueFrame ==
    ASSUME Catalogue, UNCHANGED <<upload, blobs, objects, refs, outbox>>
    PROVE  Catalogue'
BY DEF Catalogue, UploadPhases, DeletesAreOfObjects, CommittedBytesExist,
       DeleteEventsAreFinal, BytesAccountedFor

-----------------------------------------------------------------------------
(* Initial states *)

\* The invariant holds of the empty store.
LEMMA InitInv == Init => IndInv
<1> SUFFICES ASSUME Init PROVE IndInv
  OBVIOUS
<1>1. TypeOK
  BY DEF Init, TypeOK, UploadStates, Events, WorkerStates, WorkerPcs, Idle,
         CopyStates, NoCopy
<1>2. WorkerLocks /\ LocksExclude /\ WorkerEvents /\ LeaseHolds
  BY DEF Init, WorkerLocks, LocksExclude, WorkerEvents, LeaseHolds, Leasing, Idle,
         NoCopy
<1>3. Catalogue
  BY DEF Init, Catalogue, UploadPhases, DeletesAreOfObjects, CommittedBytesExist,
         DeleteEventsAreFinal, BytesAccountedFor
<1> QED BY <1>1, <1>2, <1>3 DEF IndInv

-----------------------------------------------------------------------------
(* Worker steps *)

\* A step after which the worker holds no transaction and nothing else changed.
LEMMA OutsideTransaction ==
    ASSUME IndInv, NEW w \in Workers, NEW r \in WorkerStates,
           r.pc \notin Leasing,
           r.locked = {}, r.todo = {}, r.adds = << >>,
           r.pc \in {"lease", "record"} => r.event \in DOMAIN outbox,
           worker' = [worker EXCEPT ![w] = r],
           faults' \in Nat,
           UNCHANGED <<upload, blobs, objects, refs, outbox, copy, passed>>
    PROVE  IndInv'
<1>1. TypeOK'
  BY DEF IndInv, TypeOK
<1>2. WorkerLocks'
  BY DEF IndInv, TypeOK, WorkerLocks, Leasing
<1>3. LocksExclude'
  BY DEF IndInv, TypeOK, LocksExclude
<1>4. WorkerEvents'
  BY DEF IndInv, TypeOK, WorkerEvents, Leasing
<1>5. LeaseHolds'
  BY DEF IndInv, TypeOK, LeaseHolds, LeasedByOther, Pending
<1>6. Catalogue'
  BY CatalogueFrame DEF IndInv
<1> QED BY <1>1, <1>2, <1>3, <1>4, <1>5, <1>6 DEF IndInv

\* The idle record, and what a started cycle makes of it, are such records.
LEMMA IdleFacts ==
    /\ Idle \in WorkerStates
    /\ Idle.pc = "idle" /\ Idle.locked = {} /\ Idle.todo = {} /\ Idle.adds = << >>
    /\ "idle" \notin Leasing
BY DEF Idle, WorkerStates, WorkerPcs, Events, Leasing

\* A new cycle starts outside of any transaction.
LEMMA StartCycleInv ==
    ASSUME IndInv, NEW w \in Workers, StartCycle(w) PROVE IndInv'
<1> DEFINE r == [Idle EXCEPT !.pc = "poll_delete"]
<1>1. r \in WorkerStates /\ r.pc = "poll_delete"
      /\ r.locked = {} /\ r.todo = {} /\ r.adds = << >>
  BY IdleFacts DEF Idle, WorkerStates, WorkerPcs
<1>2. "poll_delete" \notin Leasing
  BY DEF Leasing
<1>3. worker' = [worker EXCEPT ![w] = r] /\ faults' \in Nat
  BY DEF StartCycle, IndInv, TypeOK
<1> HIDE DEF r
<1> QED BY <1>1, <1>2, <1>3, OutsideTransaction DEF StartCycle

\* Outside its transaction a worker has nothing locked.
LEMMA NoTransaction ==
    ASSUME IndInv, NEW w \in Workers, worker[w].pc # "detach"
    PROVE  /\ worker[w] \in WorkerStates
           /\ worker[w].locked = {} /\ worker[w].todo = {} /\ worker[w].adds = << >>
BY DEF IndInv, TypeOK, WorkerLocks

\* Choosing an event, whatever its type.
LEMMA ChooseInv ==
    ASSUME IndInv, NEW w \in Workers, worker[w].pc # "detach",
           NEW i \in DOMAIN outbox,
           worker' = [worker EXCEPT ![w].pc = "lease", ![w].event = i],
           UNCHANGED <<upload, blobs, objects, refs, outbox, copy, faults, passed>>
    PROVE  IndInv'
<1> DEFINE r == [worker[w] EXCEPT !.pc = "lease", !.event = i]
<1>1. /\ worker[w] \in WorkerStates
      /\ worker[w].locked = {} /\ worker[w].todo = {} /\ worker[w].adds = << >>
  BY NoTransaction
<1>2. i \in Nat
  BY DEF IndInv, TypeOK
<1>3. r \in WorkerStates
  BY <1>1, <1>2 DEF WorkerStates, WorkerPcs
<1>4. /\ r.pc = "lease" /\ r.event = i
      /\ r.locked = {} /\ r.todo = {} /\ r.adds = << >>
  BY <1>1 DEF WorkerStates
<1>5. worker' = [worker EXCEPT ![w] = r] /\ faults' \in Nat
  BY DEF IndInv, TypeOK
<1>6. "lease" \notin Leasing
  BY DEF Leasing
<1> HIDE DEF r
<1>7. r.pc \notin Leasing /\ r.event \in DOMAIN outbox
  BY <1>4, <1>6
<1> QED BY <1>3, <1>4, <1>5, <1>7, OutsideTransaction

\* Going on to a record that differs in the program counter only.
LEMMA PollOnInv ==
    ASSUME IndInv, NEW w \in Workers, worker[w].pc = "poll_delete",
           worker' = [worker EXCEPT ![w].pc = "poll_sweep"],
           UNCHANGED <<upload, blobs, objects, refs, outbox, copy, faults, passed>>
    PROVE  IndInv'
<1> DEFINE r == [worker[w] EXCEPT !.pc = "poll_sweep"]
<1>1. /\ worker[w] \in WorkerStates
      /\ worker[w].locked = {} /\ worker[w].todo = {} /\ worker[w].adds = << >>
  BY NoTransaction
<1>2. /\ r \in WorkerStates
      /\ r.pc = "poll_sweep" /\ r.locked = {} /\ r.todo = {} /\ r.adds = << >>
  BY <1>1 DEF WorkerStates, WorkerPcs
<1>3. worker' = [worker EXCEPT ![w] = r] /\ faults' \in Nat
  BY DEF IndInv, TypeOK
<1>4. "poll_sweep" \notin Leasing
  BY DEF Leasing
<1> HIDE DEF r
<1> QED BY <1>2, <1>3, <1>4, OutsideTransaction

\* Back to idle: end of a cycle, or a crash.
LEMMA ToIdleInv ==
    ASSUME IndInv, NEW w \in Workers,
           worker' = [worker EXCEPT ![w] = Idle], faults' \in Nat,
           UNCHANGED <<upload, blobs, objects, refs, outbox, copy, passed>>
    PROVE  IndInv'
BY IdleFacts, OutsideTransaction

\* Looking for the oldest delete event takes no lock.
LEMMA PollDeletesInv ==
    ASSUME IndInv, NEW w \in Workers, PollDeletes(w) PROVE IndInv'
<1>1. CASE worker' = [worker EXCEPT ![w].pc = "poll_sweep"]
  BY <1>1, PollOnInv DEF PollDeletes
<1>2. ASSUME NEW i \in Oldest("delete"),
             worker' = [worker EXCEPT ![w].pc = "lease", ![w].event = i]
      PROVE  IndInv'
  <2>1. i \in DOMAIN outbox
    BY DEF Oldest
  <2> QED BY <1>2, <2>1, ChooseInv DEF PollDeletes
<1> QED BY <1>1, <1>2 DEF PollDeletes

\* Looking for the oldest sweep event takes no lock.
LEMMA PollSweepsInv ==
    ASSUME IndInv, NEW w \in Workers, PollSweeps(w) PROVE IndInv'
<1>1. CASE worker' = [worker EXCEPT ![w] = Idle]
  <2>1. faults' \in Nat
    BY DEF PollSweeps, IndInv, TypeOK
  <2> QED BY <1>1, <2>1, ToIdleInv DEF PollSweeps
<1>2. ASSUME NEW i \in Oldest("sweep"),
             worker' = [worker EXCEPT ![w].pc = "lease", ![w].event = i]
      PROVE  IndInv'
  <2>1. i \in DOMAIN outbox
    BY DEF Oldest
  <2> QED BY <1>2, <2>1, ChooseInv DEF PollSweeps
<1> QED BY <1>1, <1>2 DEF PollSweeps

\* A successful lease: the worker opens a transaction on a pending event that no
\* other worker has leased.
LEMMA LeaseInv ==
    ASSUME IndInv, NEW w \in Workers, Lease(w) PROVE IndInv'
<1> DEFINE i == worker[w].event
           pc == IF outbox[i].type = "sweep" THEN "snapshot" ELSE "unlink"
<1>1. CASE ~(Pending(i) /\ ~LeasedByOther(w, i))
  <2>1. worker' = [worker EXCEPT ![w] = Idle] /\ faults' \in Nat
    BY <1>1 DEF Lease, IndInv, TypeOK
  <2> QED BY <2>1, ToIdleInv DEF Lease
<1>2. CASE Pending(i) /\ ~LeasedByOther(w, i)
  <2>1. /\ worker' = [worker EXCEPT ![w].pc = pc]
        /\ worker[w].pc = "lease"
        /\ UNCHANGED <<upload, blobs, objects, refs, outbox, copy, faults, passed>>
    BY <1>2 DEF Lease
  <2>2. /\ i \in DOMAIN outbox
        /\ pc \in {"snapshot", "unlink"}
        /\ pc = "snapshot" => outbox[i].type = "sweep"
        /\ pc = "unlink" => outbox[i].type = "delete"
    <3>1. i \in DOMAIN outbox
      BY <2>1 DEF IndInv, WorkerEvents
    <3>2. outbox[i] \in Events
      BY <3>1 DEF IndInv, TypeOK
    <3>3. outbox[i].type \in {"sweep", "delete"}
      BY <3>2 DEF Events
    <3> QED BY <3>1, <3>3
  <2> HIDE DEF pc
  <2>3. TypeOK'
    BY <2>1, <2>2 DEF IndInv, TypeOK, WorkerStates, WorkerPcs
  <2>4. WorkerLocks' /\ LocksExclude'
    BY <2>1, <2>2 DEF IndInv, TypeOK, WorkerStates, WorkerLocks, LocksExclude
  <2>5. WorkerEvents'
    BY <2>1, <2>2 DEF IndInv, TypeOK, WorkerStates, WorkerEvents, Leasing
  <2>6. LeaseHolds'
    BY <1>2, <2>1, <2>2 DEF IndInv, TypeOK, WorkerStates, LeaseHolds, LeasedByOther,
       Pending, Leasing
  <2>7. Catalogue'
    BY <2>1, CatalogueFrame DEF IndInv
  <2> QED BY <2>3, <2>4, <2>5, <2>6, <2>7 DEF IndInv
<1> QED BY <1>1, <1>2

\* The claim's snapshot locks nothing and writes nothing yet.
LEMMA SnapshotOrphansInv ==
    ASSUME IndInv, NEW w \in Workers, SnapshotOrphans(w) PROVE IndInv'
<1> DEFINE seen == {o \in objects : IsOrphan(o)}
<1>1. /\ worker' = [worker EXCEPT ![w].pc = "claim", ![w].orphans = seen]
      /\ worker[w].pc = "snapshot"
      /\ seen \subseteq Objects
      /\ UNCHANGED <<upload, blobs, objects, refs, outbox, copy, faults, passed>>
  BY DEF SnapshotOrphans, IndInv, TypeOK
<1> HIDE DEF seen
<1>2. TypeOK'
  <2>1. [worker[w] EXCEPT !.pc = "claim", !.orphans = seen] \in WorkerStates
    BY <1>1 DEF IndInv, TypeOK, WorkerStates, WorkerPcs
  <2>2. worker' = [worker EXCEPT ![w] = [worker[w] EXCEPT !.pc = "claim", !.orphans = seen]]
    BY <1>1
  <2> QED BY <1>1, <2>1, <2>2 DEF IndInv, TypeOK
<1>3. WorkerLocks' /\ LocksExclude'
  BY <1>1 DEF IndInv, TypeOK, WorkerStates, WorkerLocks, LocksExclude
<1>4. WorkerEvents' /\ LeaseHolds'
  BY <1>1 DEF IndInv, TypeOK, WorkerStates, WorkerEvents, LeaseHolds, LeasedByOther,
     Pending, Leasing
<1>5. Catalogue'
  BY <1>1, CatalogueFrame DEF IndInv
<1> QED BY <1>2, <1>3, <1>4, <1>5 DEF IndInv

\* The claim skips what others have locked, so exclusion is kept.
LEMMA ClaimOrphansInv ==
    ASSUME IndInv, NEW w \in Workers, ClaimOrphans(w) PROVE IndInv'
<1>1. PICK locked, todo :
        /\ locked \subseteq ((worker[w].orphans \cap objects) \ ForUpdate(w)) \ KeyShared
        /\ todo \subseteq locked
        /\ worker' = [worker EXCEPT ![w].pc = "detach", ![w].orphans = {},
                                    ![w].locked = locked, ![w].todo = todo,
                                    ![w].more = (todo # locked)]
  BY DEF ClaimOrphans
<1>2. /\ worker[w].pc = "claim" /\ worker[w].adds = << >>
      /\ UNCHANGED <<upload, blobs, objects, refs, outbox, copy, faults>>
      /\ passed' \subseteq Objects
      /\ locked \subseteq objects /\ locked \subseteq Objects /\ todo \subseteq Objects
  BY <1>1 DEF ClaimOrphans, IndInv, TypeOK, WorkerLocks
<1>3. \A v \in Workers : v # w => locked \cap worker[v].locked = {}
  BY <1>1 DEF ForUpdate
<1>4. \A c \in Copies : locked \cap copy[c].held = {}
  BY <1>1 DEF KeyShared
<1> DEFINE r == [worker[w] EXCEPT !.pc = "detach", !.orphans = {}, !.locked = locked,
                                 !.todo = todo, !.more = (todo # locked)]
<1>5. TypeOK'
  <2>1. r \in WorkerStates
    BY <1>2 DEF IndInv, TypeOK, WorkerStates, WorkerPcs
  <2>2. worker' = [worker EXCEPT ![w] = r]
    BY <1>1
  <2> QED BY <1>2, <2>1, <2>2 DEF IndInv, TypeOK
<1>6. WorkerLocks'
  BY <1>1, <1>2 DEF IndInv, TypeOK, WorkerStates, WorkerLocks
<1>7. LocksExclude'
  BY <1>1, <1>2, <1>3, <1>4 DEF IndInv, TypeOK, WorkerStates, LocksExclude
<1>8. WorkerEvents' /\ LeaseHolds'
  <2>1. \A v \in Workers : worker'[v].event = worker[v].event
    BY <1>1 DEF IndInv, TypeOK, WorkerStates
  <2>2. \A v \in Workers : worker'[v].pc = IF v = w THEN "detach" ELSE worker[v].pc
    BY <1>1 DEF IndInv, TypeOK, WorkerStates
  <2>3. WorkerEvents'
    BY <1>2, <2>1, <2>2 DEF IndInv, WorkerEvents, Leasing
  <2>4. LeaseHolds'
    BY <1>2, <2>1, <2>2 DEF IndInv, LeaseHolds, LeasedByOther, Pending, Leasing
  <2> QED BY <2>3, <2>4
<1>9. Catalogue'
  BY <1>2, CatalogueFrame DEF IndInv
<1> QED BY <1>5, <1>6, <1>7, <1>8, <1>9 DEF IndInv

\* The recheck: only a row without versions is added to the uncommitted work.
LEMMA DetachInv ==
    ASSUME IndInv, NEW w \in Workers, Detach(w) PROVE IndInv'
<1>1. PICK o \in worker[w].todo :
        worker' = [worker EXCEPT ![w].todo = @ \ {o},
                     ![w].adds = IF IsOrphan(o) THEN Append(@, DeleteEvent(o)) ELSE @]
  BY DEF Detach
<1> DEFINE adds == IF IsOrphan(o) THEN Append(worker[w].adds, DeleteEvent(o))
                   ELSE worker[w].adds
<1>2. /\ worker' = [worker EXCEPT ![w].todo = worker[w].todo \ {o}, ![w].adds = adds]
      /\ worker[w].pc = "detach"
      /\ worker[w] \in WorkerStates
      /\ UNCHANGED <<upload, blobs, objects, refs, outbox, copy, faults, passed>>
  BY <1>1 DEF Detach, IndInv, TypeOK
<1>3. /\ o \in worker[w].locked /\ o \in Objects
      /\ worker[w].adds \in Seq(Events)
      /\ DeleteEvent(o) \in Events
      /\ DeleteEvent(o).object = o
  BY <1>1, <1>2 DEF IndInv, TypeOK, WorkerLocks, WorkerStates, Events, DeleteEvent
<1>4. adds \in Seq(Events)
  BY <1>3, AppendFacts
<1>5. \A k \in DOMAIN adds : /\ adds[k] = DeleteEvent(adds[k].object)
                             /\ adds[k].object \in worker[w].locked
                             /\ refs[adds[k].object] = 0
  <2>1. \A k \in DOMAIN worker[w].adds :
          /\ worker[w].adds[k] = DeleteEvent(worker[w].adds[k].object)
          /\ worker[w].adds[k].object \in worker[w].locked
          /\ refs[worker[w].adds[k].object] = 0
    BY DEF IndInv, WorkerLocks
  <2>2. CASE IsOrphan(o)
    BY <1>3, <2>1, <2>2, AppendFacts DEF IsOrphan
  <2>3. CASE ~IsOrphan(o)
    BY <2>1, <2>3
  <2> QED BY <2>2, <2>3
<1> HIDE DEF adds
<1>6. TypeOK'
  BY <1>2, <1>4 DEF IndInv, TypeOK, WorkerStates
<1>7. WorkerLocks'
  BY <1>2, <1>5 DEF IndInv, TypeOK, WorkerStates, WorkerLocks
<1>8. LocksExclude'
  BY <1>2 DEF IndInv, TypeOK, WorkerStates, LocksExclude
<1>9. WorkerEvents' /\ LeaseHolds'
  BY <1>2 DEF IndInv, TypeOK, WorkerStates, WorkerEvents, LeaseHolds, LeasedByOther,
     Pending, Leasing
<1>10. Catalogue'
  BY <1>2, CatalogueFrame DEF IndInv
<1> QED BY <1>6, <1>7, <1>8, <1>9, <1>10 DEF IndInv

\* An exception rolls back: the worker keeps the event and no lock.
LEMMA FailEventInv ==
    ASSUME IndInv, NEW w \in Workers, FailEvent(w) PROVE IndInv'
<1> DEFINE r == [Idle EXCEPT !.pc = "record", !.event = worker[w].event]
<1>1. /\ worker[w].event \in DOMAIN outbox /\ worker[w].event \in Nat
      /\ faults' \in Nat
  BY DEF FailEvent, Fault, IndInv, TypeOK, WorkerStates, WorkerEvents
<1>2. /\ r \in WorkerStates /\ r.pc = "record" /\ r.event = worker[w].event
      /\ r.locked = {} /\ r.todo = {} /\ r.adds = << >>
  BY <1>1, IdleFacts DEF Idle, WorkerStates, WorkerPcs
<1>3. worker' = [worker EXCEPT ![w] = r]
  BY DEF FailEvent, ToRecord
<1>4. "record" \notin Leasing
  BY DEF Leasing
<1> HIDE DEF r
<1> QED BY <1>1, <1>2, <1>3, <1>4, OutsideTransaction DEF FailEvent

\* record_failure leaves the event pending and the worker idle.
LEMMA RecordFailureInv ==
    ASSUME IndInv, NEW w \in Workers, RecordFailure(w) PROVE IndInv'
<1>1. faults' \in Nat
  BY DEF RecordFailure, IndInv, TypeOK
<1> QED BY <1>1, ToIdleInv DEF RecordFailure

\* A stopped worker loses its transaction with its locks.
LEMMA CrashWorkerInv ==
    ASSUME IndInv, NEW w \in Workers, CrashWorker(w) PROVE IndInv'
<1>1. faults' \in Nat
  BY DEF CrashWorker, Fault, IndInv, TypeOK
<1> QED BY <1>1, ToIdleInv DEF CrashWorker

\* A handled event leaves the worker without a transaction.
LEMMA NextIterationFacts ==
    ASSUME NEW w, worker[w] \in WorkerStates
    PROVE  LET r == NextIteration(w) IN
           /\ r \in WorkerStates /\ r.pc \in {"idle", "poll_delete"}
           /\ r.locked = {} /\ r.todo = {} /\ r.adds = << >>
<1> DEFINE n == worker[w].seen + 1
           p == [Idle EXCEPT !.pc = "poll_delete", !.seen = n]
<1>1. n \in Nat
  BY DEF WorkerStates
<1> HIDE DEF n
<1>2. /\ p \in WorkerStates /\ p.pc = "poll_delete"
      /\ p.locked = {} /\ p.todo = {} /\ p.adds = << >>
  BY <1>1, IdleFacts DEF Idle, WorkerStates, WorkerPcs
<1>3. NextIteration(w) = p \/ NextIteration(w) = Idle
  BY DEF NextIteration, n
<1> QED BY <1>2, <1>3, IdleFacts

\* The commit of a sweep: the detached rows go, their delete events come, and the
\* sweep itself is marked unless more orphans are waiting.
LEMMA SweepEffectInv ==
    ASSUME IndInv, NEW w \in Workers, SweepEffect(w),
           NEW r \in WorkerStates,
           r.pc \notin Leasing, r.locked = {}, r.todo = {}, r.adds = << >>,
           r.pc \in {"lease", "record"} => r.event = worker[w].event,
           worker' = [worker EXCEPT ![w] = r],
           faults' \in Nat
    PROVE  IndInv'
<1> DEFINE e == worker[w].event
           adds == worker[w].adds
           base == IF worker[w].more THEN outbox
                   ELSE [outbox EXCEPT ![e].processed = TRUE]
<1>1. /\ worker[w].pc = "detach"
      /\ objects' = objects \ Detached(w)
      /\ outbox' = base \o adds
      /\ UNCHANGED <<upload, blobs, refs, copy, passed>>
  BY DEF SweepEffect
<1>2. /\ e \in DOMAIN outbox /\ outbox[e].type = "sweep"
      /\ worker[w] \in WorkerStates
      /\ adds \in Seq(Events)
      /\ outbox \in Seq(Events)
  BY <1>1 DEF IndInv, TypeOK, WorkerStates, WorkerEvents, Leasing
<1>3. \A k \in DOMAIN adds : /\ adds[k] = DeleteEvent(adds[k].object)
                             /\ adds[k].object \in worker[w].locked
                             /\ refs[adds[k].object] = 0
  BY DEF IndInv, WorkerLocks
<1>4. /\ base \in Seq(Events)
      /\ Len(base) = Len(outbox)
      /\ DOMAIN base = DOMAIN outbox
      /\ base[e].type = outbox[e].type
      /\ base[e].object = outbox[e].object
      /\ \A i \in DOMAIN outbox : i # e => base[i] = outbox[i]
  <2>1. CASE worker[w].more
    BY <1>2, <2>1
  <2>2. CASE ~worker[w].more
    <3>1. base = [outbox EXCEPT ![e].processed = TRUE]
      BY <2>2
    <3> HIDE DEF base, e
    <3> QED BY <1>2, <3>1, MarkFacts DEF IndInv
  <2> QED BY <2>1, <2>2
<1>5. \A o : o \in Detached(w) <=> \E k \in DOMAIN adds : o = adds[k].object
  BY DEF Detached
<1>6. r.pc # "detach" /\ r.pc \notin {"snapshot", "claim", "unlink", "ack"}
  BY DEF Leasing
<1>7. /\ Detached(w) \subseteq worker[w].locked
      /\ \A o \in Detached(w) : refs[o] = 0 /\ o \in objects /\ o \in Objects
      /\ \A o \in Detached(w) : upload[o] = "done"
  <2>1. Detached(w) \subseteq worker[w].locked
    BY <1>3, <1>5
  <2>2. worker[w].locked \subseteq objects /\ objects \subseteq Objects
    BY DEF IndInv, TypeOK, WorkerLocks
  <2> QED BY <1>3, <1>5, <2>1, <2>2 DEF IndInv, Catalogue, UploadPhases
<1> HIDE DEF base, adds, e
<1>8. /\ outbox' \in Seq(Events)
      /\ \A i \in DOMAIN outbox : i \in DOMAIN outbox' /\ outbox'[i] = base[i]
      /\ \A k \in DOMAIN adds : /\ Len(base) + k \in DOMAIN outbox'
                                /\ outbox'[Len(base) + k] = adds[k]
      /\ \A i \in DOMAIN outbox' :
           i \in DOMAIN outbox \/ \E k \in DOMAIN adds : i = Len(base) + k
  <2> DEFINE joined == base \o adds
  <2>1. /\ joined \in Seq(Events)
        /\ \A i \in DOMAIN base : i \in DOMAIN joined /\ joined[i] = base[i]
        /\ \A k \in DOMAIN adds : /\ Len(base) + k \in DOMAIN joined
                                  /\ joined[Len(base) + k] = adds[k]
        /\ \A i \in DOMAIN joined :
             i \in DOMAIN base \/ \E k \in DOMAIN adds : i = Len(base) + k
    BY <1>2, <1>4, ConcatFacts
  <2>2. outbox' = joined
    BY <1>1
  <2> HIDE DEF joined
  <2> QED BY <1>4, <2>1, <2>2
<1>9. TypeOK'
  BY <1>1, <1>6, <1>8 DEF IndInv, TypeOK
<1>10. WorkerLocks'
  <2>1. \A v \in Workers : v # w => worker[v].locked \cap Detached(w) = {}
    BY <1>7 DEF IndInv, LocksExclude
  <2>2. \A v \in Workers : v # w => worker[v].locked \subseteq objects'
    BY <1>1, <2>1 DEF IndInv, WorkerLocks
  <2> QED BY <1>1, <1>6, <2>2 DEF IndInv, TypeOK, WorkerLocks
<1>11. LocksExclude'
  <2>1. \A c \in Copies : copy[c].held \subseteq objects'
    BY <1>1, <1>7 DEF IndInv, LocksExclude
  <2> QED BY <1>1, <1>6, <2>1 DEF IndInv, TypeOK, LocksExclude
<1>12. \A v \in Workers : v # w => worker'[v] = worker[v]
  BY <1>1 DEF IndInv, TypeOK
<1>13. worker'[w] = r
  BY <1>1 DEF IndInv, TypeOK
<1>14. WorkerEvents'
  <2>1. \A i \in DOMAIN outbox : /\ i \in DOMAIN outbox'
                                 /\ outbox'[i].type = outbox[i].type
                                 /\ outbox'[i].object = outbox[i].object
    BY <1>4, <1>8
  <2>2. r.pc \in {"lease", "record"} => r.event \in DOMAIN outbox'
    BY <1>2, <2>1 DEF e
  <2> QED BY <1>1, <1>6, <1>12, <1>13, <2>1, <2>2 DEF IndInv, WorkerEvents, Leasing
<1>15. LeaseHolds'
  <2>1. \A v \in Workers : v # w /\ worker[v].pc \in Leasing => worker[v].event # e
    BY <1>1 DEF IndInv, LeaseHolds, LeasedByOther, Leasing, e
  <2>2. \A v \in Workers : v # w /\ worker[v].pc \in Leasing =>
           /\ worker[v].event \in DOMAIN outbox
           /\ outbox'[worker[v].event] = outbox[worker[v].event]
    BY <1>4, <1>8, <2>1 DEF IndInv, WorkerEvents
  <2> QED BY <1>6, <1>12, <1>13, <2>2 DEF IndInv, LeaseHolds, LeasedByOther, Pending,
        Leasing
<1>16. UploadPhases' /\ CommittedBytesExist'
  BY <1>1, <1>7 DEF IndInv, TypeOK, Catalogue, UploadPhases, CommittedBytesExist
<1>17. \A i \in DOMAIN outbox' : outbox'[i].type = "delete" =>
          \/ i \in DOMAIN outbox /\ outbox'[i] = outbox[i]
          \/ \E k \in DOMAIN adds : /\ outbox'[i] = adds[k]
                                    /\ adds[k].object \in Detached(w)
                                    /\ adds[k].processed = FALSE
  <2> SUFFICES ASSUME NEW i \in DOMAIN outbox', outbox'[i].type = "delete",
                      ~(i \in DOMAIN outbox /\ outbox'[i] = outbox[i])
               PROVE  \E k \in DOMAIN adds : /\ outbox'[i] = adds[k]
                                             /\ adds[k].object \in Detached(w)
                                             /\ adds[k].processed = FALSE
    OBVIOUS
  <2>1. i \notin DOMAIN outbox
    BY <1>2, <1>4, <1>8
  <2>2. PICK k \in DOMAIN adds : outbox'[i] = adds[k]
    BY <1>8, <2>1
  <2>3. adds[k].object \in Detached(w)
    BY <1>5
  <2>4. adds[k].processed = FALSE
    BY <1>3 DEF DeleteEvent
  <2> QED BY <2>2, <2>3, <2>4
<1>18. DeletesAreOfObjects' /\ DeleteEventsAreFinal'
  <2> SUFFICES ASSUME NEW i \in DOMAIN outbox', outbox'[i].type = "delete"
               PROVE  /\ outbox'[i].object \in Objects
                      /\ upload[outbox'[i].object] = "done"
                      /\ outbox'[i].object \notin objects'
                      /\ outbox'[i].processed => outbox'[i].object \notin blobs
    BY <1>1 DEF DeletesAreOfObjects, DeleteEventsAreFinal
  <2>1. CASE i \in DOMAIN outbox /\ outbox'[i] = outbox[i]
    BY <1>1, <2>1 DEF IndInv, Catalogue, DeletesAreOfObjects, DeleteEventsAreFinal
  <2>2. ASSUME NEW k \in DOMAIN adds, outbox'[i] = adds[k],
               adds[k].object \in Detached(w), adds[k].processed = FALSE
        PROVE  /\ outbox'[i].object \in Objects
               /\ upload[outbox'[i].object] = "done"
               /\ outbox'[i].object \notin objects'
               /\ outbox'[i].processed => outbox'[i].object \notin blobs
    BY <1>1, <1>7, <2>2
  <2> QED BY <1>17, <2>1, <2>2
<1>19. BytesAccountedFor'
  <2> SUFFICES ASSUME NEW o \in blobs', upload'[o] = "done", o \notin objects'
               PROVE  \E i \in DOMAIN outbox' : outbox'[i] = DeleteEvent(o)
    BY DEF BytesAccountedFor
  <2>1. CASE o \in Detached(w)
    BY <1>3, <1>5, <1>8, <2>1
  <2>2. CASE o \notin Detached(w)
    <3>1. PICK i \in DOMAIN outbox : outbox[i] = DeleteEvent(o)
      BY <1>1, <2>2 DEF IndInv, Catalogue, BytesAccountedFor
    <3>2. i # e
      BY <1>2, <3>1 DEF DeleteEvent
    <3> QED BY <1>4, <1>8, <3>1, <3>2
  <2> QED BY <2>1, <2>2
<1> QED BY <1>9, <1>10, <1>11, <1>14, <1>15, <1>16, <1>18, <1>19 DEF IndInv, Catalogue

\* A committed sweep goes on with the next iteration.
LEMMA CommitSweepInv ==
    ASSUME IndInv, NEW w \in Workers, CommitSweep(w) PROVE IndInv'
<1> DEFINE r == NextIteration(w)
<1>1. /\ r \in WorkerStates /\ r.pc \in {"idle", "poll_delete"}
      /\ r.locked = {} /\ r.todo = {} /\ r.adds = << >>
  BY NextIterationFacts DEF IndInv, TypeOK
<1>2. SweepEffect(w) /\ worker' = [worker EXCEPT ![w] = r] /\ faults' \in Nat
  BY DEF CommitSweep, IndInv, TypeOK
<1> HIDE DEF r
<1>3. r.pc \notin Leasing /\ r.pc \notin {"lease", "record"}
  BY <1>1 DEF Leasing
<1> QED BY <1>1, <1>2, <1>3, SweepEffectInv

\* Unlink removes bytes of an object that has no row.
LEMMA UnlinkInv ==
    ASSUME IndInv, NEW w \in Workers, Unlink(w) PROVE IndInv'
<1> DEFINE e == worker[w].event
           gone == outbox[e].object
<1>1. /\ worker[w].pc = "unlink"
      /\ blobs' = blobs \ {gone}
      /\ worker' = [worker EXCEPT ![w].pc = "ack"]
      /\ UNCHANGED <<upload, objects, refs, outbox, copy, faults, passed>>
  BY DEF Unlink
<1>2. /\ e \in DOMAIN outbox /\ outbox[e].type = "delete"
      /\ gone \in Objects /\ gone \notin objects /\ upload[gone] = "done"
      /\ ~outbox[e].processed
  BY <1>1 DEF IndInv, WorkerEvents, Leasing, LeaseHolds, Pending, Catalogue,
     DeletesAreOfObjects, DeleteEventsAreFinal
<1>3. \A v \in Workers : v # w => worker'[v] = worker[v]
  BY <1>1 DEF IndInv, TypeOK
<1>4. worker'[w].pc = "ack" /\ worker'[w].event = e /\ worker'[w].locked = {}
      /\ worker'[w].todo = {} /\ worker'[w].adds = << >>
  BY <1>1, NoTransaction DEF IndInv, TypeOK, WorkerStates
<1>5. TypeOK'
  BY <1>1 DEF IndInv, TypeOK, WorkerStates, WorkerPcs
<1> HIDE DEF e, gone
<1>6. WorkerLocks'
  BY <1>1, <1>3, <1>4 DEF IndInv, WorkerLocks
<1>7. LocksExclude'
  BY <1>1, <1>3, <1>4 DEF IndInv, LocksExclude
<1>8. WorkerEvents'
  BY <1>1, <1>2, <1>3, <1>4 DEF IndInv, WorkerEvents, Leasing, gone
<1>9. LeaseHolds'
  BY <1>1, <1>2, <1>3, <1>4 DEF IndInv, LeaseHolds, LeasedByOther, Pending, Leasing, e
<1>10. UploadPhases' /\ CommittedBytesExist'
  BY <1>1, <1>2 DEF IndInv, TypeOK, Catalogue, UploadPhases, CommittedBytesExist
<1>11. DeletesAreOfObjects' /\ DeleteEventsAreFinal'
  BY <1>1 DEF IndInv, Catalogue, DeletesAreOfObjects, DeleteEventsAreFinal
<1>12. BytesAccountedFor'
  BY <1>1 DEF IndInv, Catalogue, BytesAccountedFor
<1> QED BY <1>5, <1>6, <1>7, <1>8, <1>9, <1>10, <1>11, <1>12 DEF IndInv, Catalogue

\* The acknowledged event is a delete event whose bytes are gone.
LEMMA AckEffectInv ==
    ASSUME IndInv, NEW w \in Workers, AckEffect(w),
           NEW r \in WorkerStates,
           r.pc \notin Leasing, r.locked = {}, r.todo = {}, r.adds = << >>,
           r.pc \in {"lease", "record"} => r.event = worker[w].event,
           worker' = [worker EXCEPT ![w] = r],
           faults' \in Nat
    PROVE  IndInv'
<1> DEFINE e == worker[w].event
<1>1. /\ worker[w].pc = "ack"
      /\ outbox' = [outbox EXCEPT ![e].processed = TRUE]
      /\ UNCHANGED <<upload, blobs, objects, refs, copy, passed>>
  BY DEF AckEffect
<1>2. /\ e \in DOMAIN outbox /\ outbox[e].type = "delete"
      /\ outbox[e].object \notin blobs
      /\ worker[w] \in WorkerStates
  BY <1>1 DEF IndInv, TypeOK, WorkerEvents, Leasing
<1>3. /\ outbox' \in Seq(Events)
      /\ DOMAIN outbox' = DOMAIN outbox
      /\ outbox'[e].type = outbox[e].type
      /\ outbox'[e].object = outbox[e].object
      /\ \A i \in DOMAIN outbox : i # e => outbox'[i] = outbox[i]
  BY <1>1, <1>2, MarkFacts DEF IndInv
<1>4. r.pc # "detach" /\ r.pc \notin {"snapshot", "claim", "unlink", "ack"}
  BY DEF Leasing
<1> HIDE DEF e
<1>5. TypeOK'
  BY <1>1, <1>3, <1>4 DEF IndInv, TypeOK
<1>6. \A v \in Workers : v # w => worker'[v] = worker[v]
  BY <1>1 DEF IndInv, TypeOK
<1>7. worker'[w] = r
  BY <1>1 DEF IndInv, TypeOK
<1>8. WorkerLocks'
  BY <1>1, <1>4, <1>6, <1>7 DEF IndInv, WorkerLocks
<1>9. LocksExclude'
  BY <1>1, <1>4, <1>6, <1>7 DEF IndInv, LocksExclude
<1>10. WorkerEvents'
  <2>1. \A i \in DOMAIN outbox : /\ outbox'[i].type = outbox[i].type
                                 /\ outbox'[i].object = outbox[i].object
    BY <1>3
  <2> QED BY <1>1, <1>2, <1>3, <1>4, <1>6, <1>7, <2>1 DEF IndInv, WorkerEvents, Leasing, e
<1>11. LeaseHolds'
  <2>1. \A v \in Workers : v # w /\ worker[v].pc \in Leasing => worker[v].event # e
    BY <1>1 DEF IndInv, LeaseHolds, LeasedByOther, Leasing, e
  <2>2. \A v \in Workers : v # w /\ worker[v].pc \in Leasing =>
           outbox'[worker[v].event] = outbox[worker[v].event]
    BY <1>3, <2>1 DEF IndInv, WorkerEvents
  <2> QED BY <1>4, <1>6, <1>7, <2>2 DEF IndInv, LeaseHolds, LeasedByOther, Pending,
        Leasing
<1>12. UploadPhases' /\ CommittedBytesExist'
  BY <1>1 DEF IndInv, Catalogue, UploadPhases, CommittedBytesExist
<1>13. DeletesAreOfObjects' /\ DeleteEventsAreFinal'
  <2>1. \A i \in DOMAIN outbox : /\ outbox'[i].type = outbox[i].type
                                 /\ outbox'[i].object = outbox[i].object
    BY <1>3
  <2> QED BY <1>1, <1>2, <1>3, <2>1 DEF IndInv, Catalogue, DeletesAreOfObjects,
        DeleteEventsAreFinal
<1>14. BytesAccountedFor'
  <2> SUFFICES ASSUME NEW o \in blobs', upload'[o] = "done", o \notin objects'
               PROVE  \E i \in DOMAIN outbox' : outbox'[i] = DeleteEvent(o)
    BY DEF BytesAccountedFor
  <2>1. PICK i \in DOMAIN outbox : outbox[i] = DeleteEvent(o)
    BY <1>1 DEF IndInv, Catalogue, BytesAccountedFor
  <2>2. i # e
    BY <1>1, <1>2, <2>1 DEF DeleteEvent
  <2> QED BY <1>3, <2>1, <2>2
<1> QED BY <1>5, <1>8, <1>9, <1>10, <1>11, <1>12, <1>13, <1>14 DEF IndInv, Catalogue

\* An acknowledged delete goes on with the next iteration.
LEMMA AcknowledgeInv ==
    ASSUME IndInv, NEW w \in Workers, Acknowledge(w) PROVE IndInv'
<1> DEFINE r == NextIteration(w)
<1>1. /\ r \in WorkerStates /\ r.pc \in {"idle", "poll_delete"}
      /\ r.locked = {} /\ r.todo = {} /\ r.adds = << >>
  BY NextIterationFacts DEF IndInv, TypeOK
<1>2. AckEffect(w) /\ worker' = [worker EXCEPT ![w] = r] /\ faults' \in Nat
  BY DEF Acknowledge, IndInv, TypeOK
<1> HIDE DEF r
<1>3. r.pc \notin Leasing /\ r.pc \notin {"lease", "record"}
  BY <1>1 DEF Leasing
<1> QED BY <1>1, <1>2, <1>3, AckEffectInv

\* A commit that took effect and raised: the work is durable, the failure of the
\* finished event is still to be recorded.
LEMMA AmbiguousEventInv ==
    ASSUME IndInv, NEW w \in Workers, AmbiguousEvent(w) PROVE IndInv'
<1> DEFINE r == [Idle EXCEPT !.pc = "record", !.event = worker[w].event]
<1>1. worker[w].event \in Nat /\ faults' \in Nat
  BY DEF AmbiguousEvent, Fault, IndInv, TypeOK, WorkerStates
<1>2. /\ r \in WorkerStates /\ r.pc = "record" /\ r.event = worker[w].event
      /\ r.locked = {} /\ r.todo = {} /\ r.adds = << >>
  BY <1>1, IdleFacts DEF Idle, WorkerStates, WorkerPcs
<1>3. worker' = [worker EXCEPT ![w] = r]
  BY DEF AmbiguousEvent, ToRecord
<1>4. r.pc \notin Leasing
  BY <1>2 DEF Leasing
<1>5. SweepEffect(w) \/ AckEffect(w)
  BY DEF AmbiguousEvent
<1> HIDE DEF r
<1> QED BY <1>1, <1>2, <1>3, <1>4, <1>5, SweepEffectInv, AckEffectInv

-----------------------------------------------------------------------------
(* Upload steps *)

\* A step of an upload changes neither outbox nor locks.
LEMMA UploadFrame ==
    ASSUME IndInv, objects \subseteq objects', refs' \in [Objects -> Nat],
           \A o \in objects : refs'[o] = refs[o],
           UNCHANGED <<outbox, worker, copy>>
    PROVE  WorkerLocks' /\ LocksExclude' /\ LeaseHolds'
<1>1. WorkerLocks'
  BY DEF IndInv, WorkerLocks
<1>2. LocksExclude'
  BY DEF IndInv, LocksExclude
<1>3. LeaseHolds'
  BY DEF IndInv, LeaseHolds, LeasedByOther, Pending
<1> QED BY <1>1, <1>2, <1>3

\* Published bytes have neither a row nor an event yet.
LEMMA PublishInv ==
    ASSUME IndInv, NEW o \in Objects, Publish(o) PROVE IndInv'
<1>1. /\ upload[o] = "none"
      /\ upload' = [upload EXCEPT ![o] = "published"]
      /\ blobs' = blobs \cup {o}
      /\ UNCHANGED <<objects, refs, outbox, worker, copy, faults, passed>>
  BY DEF Publish
<1>2. \A i \in DOMAIN outbox : outbox[i].type = "delete" => outbox[i].object # o
  BY <1>1 DEF IndInv, Catalogue, DeletesAreOfObjects
<1>3. TypeOK'
  BY <1>1 DEF IndInv, TypeOK, UploadStates
<1>4. WorkerLocks' /\ LocksExclude' /\ LeaseHolds'
  BY <1>1, UploadFrame DEF IndInv, TypeOK
<1>5. WorkerEvents'
  BY <1>1, <1>2 DEF IndInv, WorkerEvents, Leasing
<1>6. UploadPhases' /\ CommittedBytesExist' /\ BytesAccountedFor'
  BY <1>1 DEF IndInv, TypeOK, Catalogue, UploadPhases, CommittedBytesExist,
     BytesAccountedFor
<1>7. DeletesAreOfObjects' /\ DeleteEventsAreFinal'
  BY <1>1, <1>2 DEF IndInv, TypeOK, Catalogue, DeletesAreOfObjects, DeleteEventsAreFinal
<1> QED BY <1>3, <1>4, <1>5, <1>6, <1>7 DEF IndInv, Catalogue

\* The row of a completed upload finds its bytes on disk.
LEMMA CommitUploadInv ==
    ASSUME IndInv, NEW o \in Objects, CommitUpload(o) PROVE IndInv'
<1>1. /\ upload[o] = "published"
      /\ upload' = [upload EXCEPT ![o] = "done"]
      /\ objects' = objects \cup {o}
      /\ refs' = [refs EXCEPT ![o] = 1]
      /\ UNCHANGED <<blobs, outbox, worker, copy, faults, passed>>
  BY DEF CommitUpload
<1>2. \A i \in DOMAIN outbox : outbox[i].type = "delete" => outbox[i].object # o
  BY <1>1 DEF IndInv, Catalogue, DeletesAreOfObjects
<1>3. o \notin objects /\ o \in blobs
  BY <1>1 DEF IndInv, Catalogue, UploadPhases
<1>4. TypeOK'
  BY <1>1 DEF IndInv, TypeOK, UploadStates
<1>5. WorkerLocks' /\ LocksExclude' /\ LeaseHolds'
  <2>1. \A p \in objects : refs'[p] = refs[p]
    BY <1>1, <1>3 DEF IndInv, TypeOK
  <2>2. refs' \in [Objects -> Nat]
    BY <1>4 DEF TypeOK
  <2> QED BY <1>1, <2>1, <2>2, UploadFrame
<1>6. WorkerEvents'
  BY <1>1 DEF IndInv, WorkerEvents
<1>7. UploadPhases' /\ BytesAccountedFor'
  BY <1>1, <1>3 DEF IndInv, TypeOK, Catalogue, UploadPhases, BytesAccountedFor
<1>8. CommittedBytesExist'
  <2>1. objects' \subseteq blobs'
    BY <1>1, <1>3 DEF IndInv, Catalogue, CommittedBytesExist
  <2>2. \A p \in Objects : p # o => refs'[p] = refs[p]
    BY <1>1 DEF IndInv, TypeOK
  <2>3. \A p \in Objects : refs'[p] > 0 => p \in objects'
    BY <1>1, <2>2 DEF IndInv, Catalogue, CommittedBytesExist
  <2> QED BY <2>1, <2>3 DEF CommittedBytesExist
<1>9. DeletesAreOfObjects'
  BY <1>1, <1>2 DEF IndInv, TypeOK, Catalogue, DeletesAreOfObjects
<1>10. DeleteEventsAreFinal'
  BY <1>1, <1>2 DEF IndInv, TypeOK, Catalogue, DeleteEventsAreFinal
<1> QED BY <1>4, <1>5, <1>6, <1>7, <1>8, <1>9, <1>10 DEF IndInv, Catalogue

\* The compensation and the crash touch an object without row and event.
LEMMA GiveUpUploadInv ==
    ASSUME IndInv, NEW o \in Objects, FailUpload(o) \/ CrashUpload(o) PROVE IndInv'
<1>1. /\ upload[o] = "published"
      /\ \/ upload' = [upload EXCEPT ![o] = "compensated"] /\ blobs' = blobs \ {o}
         \/ upload' = [upload EXCEPT ![o] = "lost"] /\ blobs' = blobs
      /\ UNCHANGED <<objects, refs, outbox, worker, copy, passed>>
      /\ faults' = faults + 1
  BY DEF FailUpload, CrashUpload, Fault
<1>2. \A i \in DOMAIN outbox : outbox[i].type = "delete" => outbox[i].object # o
  BY <1>1 DEF IndInv, Catalogue, DeletesAreOfObjects
<1>3. o \notin objects /\ o \in blobs
  BY <1>1 DEF IndInv, Catalogue, UploadPhases
<1>4. TypeOK'
  <2>1. upload' \in [Objects -> UploadStates]
    BY <1>1 DEF IndInv, TypeOK, UploadStates
  <2>2. blobs' \subseteq Objects
    BY <1>1 DEF IndInv, TypeOK
  <2>3. faults' \in Nat
    BY <1>1 DEF IndInv, TypeOK
  <2> QED BY <1>1, <2>1, <2>2, <2>3 DEF IndInv, TypeOK
<1>5. WorkerLocks' /\ LocksExclude' /\ LeaseHolds'
  BY <1>1, UploadFrame DEF IndInv, TypeOK
<1>6. WorkerEvents'
  BY <1>1 DEF IndInv, WorkerEvents
<1>7. UploadPhases'
  BY <1>1, <1>3 DEF IndInv, TypeOK, Catalogue, UploadPhases
<1>8. CommittedBytesExist' /\ BytesAccountedFor'
  BY <1>1, <1>3 DEF IndInv, TypeOK, Catalogue, CommittedBytesExist, BytesAccountedFor
<1>9. DeletesAreOfObjects' /\ DeleteEventsAreFinal'
  BY <1>1, <1>2 DEF IndInv, TypeOK, Catalogue, DeletesAreOfObjects, DeleteEventsAreFinal
<1> QED BY <1>4, <1>5, <1>6, <1>7, <1>8, <1>9 DEF IndInv, Catalogue

-----------------------------------------------------------------------------
(* Copies and purges *)

\* A copy that changes only its own record and shares no claimed row.
LEMMA CopyFrame ==
    ASSUME IndInv, NEW c \in Copies, NEW r \in CopyStates,
           r.held \subseteq objects,
           \A w \in Workers : r.held \cap worker[w].locked = {},
           copy' = [copy EXCEPT ![c] = r],
           UNCHANGED <<upload, blobs, objects, refs, outbox, worker, faults, passed>>
    PROVE  IndInv'
<1>1. TypeOK'
  BY DEF IndInv, TypeOK
<1>2. WorkerLocks' /\ WorkerEvents' /\ LeaseHolds'
  BY DEF IndInv, WorkerLocks, WorkerEvents, LeaseHolds, LeasedByOther, Pending
<1>3. LocksExclude'
  BY DEF IndInv, TypeOK, LocksExclude
<1>4. Catalogue'
  BY CatalogueFrame DEF IndInv
<1> QED BY <1>1, <1>2, <1>3, <1>4 DEF IndInv

\* A copy that is not in a transaction shares nothing.
LEMMA NoCopyFacts ==
    NoCopy \in CopyStates /\ NoCopy.held = {}
BY DEF NoCopy, CopyStates

\* Reading the source of a copy takes no lock.
LEMMA ReadSourceInv ==
    ASSUME IndInv, NEW c \in Copies, ReadSource(c) PROVE IndInv'
<1>1. PICK want \in SUBSET Objects :
        copy' = [copy EXCEPT ![c] = [pc |-> "insert", want |-> want, held |-> {}]]
  BY DEF ReadSource
<1> DEFINE r == [pc |-> "insert", want |-> want, held |-> {}]
<1>2. r \in CopyStates /\ r.held = {}
  BY DEF CopyStates
<1>3. copy' = [copy EXCEPT ![c] = r]
  BY <1>1
<1> HIDE DEF r
<1> QED BY <1>2, <1>3, CopyFrame DEF ReadSource

\* The foreign-key check shares a row only when no worker has it claimed.
LEMMA InsertVersionInv ==
    ASSUME IndInv, NEW c \in Copies, InsertVersion(c) PROVE IndInv'
<1>1. PICK o \in copy[c].want :
        /\ \A w \in Workers : o \notin worker[w].locked
        /\ copy' = [copy EXCEPT ![c] =
                      IF o \in objects
                        THEN [pc |-> "insert", want |-> copy[c].want \ {o},
                              held |-> copy[c].held \cup {o}]
                        ELSE NoCopy]
  BY DEF InsertVersion
<1> DEFINE r == [pc |-> "insert", want |-> copy[c].want \ {o},
                 held |-> copy[c].held \cup {o}]
<1>2. CASE o \notin objects
  BY <1>1, <1>2, NoCopyFacts, CopyFrame DEF InsertVersion
<1>3. CASE o \in objects
  <2>1. r \in CopyStates /\ r.held = copy[c].held \cup {o}
    BY <1>1 DEF IndInv, TypeOK, CopyStates
  <2>2. copy' = [copy EXCEPT ![c] = r]
    BY <1>1, <1>3
  <2> HIDE DEF r
  <2>3. r.held \subseteq objects
    BY <1>3, <2>1 DEF IndInv, LocksExclude
  <2>4. \A w \in Workers : r.held \cap worker[w].locked = {}
    BY <1>1, <2>1 DEF IndInv, LocksExclude
  <2> QED BY <2>1, <2>2, <2>3, <2>4, CopyFrame DEF InsertVersion
<1> QED BY <1>2, <1>3

\* A copy that rolls back gives up its shared locks.
LEMMA AbortCopyInv ==
    ASSUME IndInv, NEW c \in Copies, AbortCopy(c) PROVE IndInv'
BY NoCopyFacts, CopyFrame DEF AbortCopy

\* New versions refer to rows the copy has shared, which no worker has detached.
LEMMA CommitCopyInv ==
    ASSUME IndInv, NEW c \in Copies, CommitCopy(c) PROVE IndInv'
<1>1. /\ refs' = [o \in Objects |-> IF o \in copy[c].held THEN refs[o] + 1 ELSE refs[o]]
      /\ copy' = [copy EXCEPT ![c] = NoCopy]
      /\ UNCHANGED <<upload, blobs, objects, outbox, worker, faults>>
      /\ passed' = passed \ copy[c].held
  BY DEF CommitCopy
<1>2. /\ copy[c].held \subseteq objects
      /\ \A w \in Workers : copy[c].held \cap worker[w].locked = {}
  BY DEF IndInv, LocksExclude
<1>3. \A o \in Objects : o \notin copy[c].held => refs'[o] = refs[o]
  BY <1>1
<1>4. TypeOK'
  BY <1>1, NoCopyFacts DEF IndInv, TypeOK
<1>5. WorkerLocks'
  <2>1. \A w \in Workers : \A k \in DOMAIN worker[w].adds :
          refs'[worker[w].adds[k].object] = 0
    BY <1>2, <1>3 DEF IndInv, TypeOK, WorkerLocks
  <2> QED BY <1>1, <2>1 DEF IndInv, WorkerLocks
<1>6. LocksExclude'
  BY <1>1, NoCopyFacts DEF IndInv, TypeOK, LocksExclude
<1>7. WorkerEvents' /\ LeaseHolds'
  BY <1>1 DEF IndInv, WorkerEvents, LeaseHolds, LeasedByOther, Pending
<1>8. CommittedBytesExist'
  BY <1>1, <1>2, <1>3 DEF IndInv, Catalogue, CommittedBytesExist
<1>9. UploadPhases' /\ DeletesAreOfObjects' /\ DeleteEventsAreFinal' /\ BytesAccountedFor'
  BY <1>1 DEF IndInv, Catalogue, UploadPhases, DeletesAreOfObjects,
     DeleteEventsAreFinal, BytesAccountedFor
<1> QED BY <1>4, <1>5, <1>6, <1>7, <1>8, <1>9 DEF IndInv, Catalogue

\* A purge only removes versions; the new sweep event disturbs no other event.
LEMMA PurgeInv == ASSUME IndInv, Purge PROVE IndInv'
<1>1. /\ outbox' = Append(outbox, SweepEvent)
      /\ UNCHANGED <<upload, blobs, objects, worker, copy, faults>>
      /\ passed' = {}
  BY DEF Purge
<1>2. /\ refs' \in [Objects -> Nat]
      /\ \A o \in Objects : refs'[o] <= refs[o]
  <2>1. PICK dec \in [Objects -> 0 .. MaxRefs] :
          /\ \A o \in Objects : dec[o] <= refs[o]
          /\ refs' = [o \in Objects |-> refs[o] - dec[o]]
    BY DEF Purge
  <2>2. \A o \in Objects : refs[o] \in Nat /\ dec[o] \in Nat
    BY <2>1, BoundsAssumption DEF IndInv, TypeOK
  <2>3. \A o \in Objects : refs[o] - dec[o] \in Nat /\ refs[o] - dec[o] <= refs[o]
    BY <2>1, <2>2
  <2> QED BY <2>1, <2>3
<1>3. SweepEvent \in Events /\ SweepEvent.type = "sweep"
  BY DEF SweepEvent, Events
<1>4. /\ outbox' \in Seq(Events)
      /\ DOMAIN outbox' = DOMAIN outbox \cup {Len(outbox) + 1}
      /\ outbox'[Len(outbox) + 1] = SweepEvent
      /\ \A i \in DOMAIN outbox : outbox'[i] = outbox[i]
  <2>1. outbox \in Seq(Events)
    BY DEF IndInv, TypeOK
  <2> QED BY <1>1, <1>3, <2>1, AppendFacts
<1>5. TypeOK'
  BY <1>1, <1>2, <1>4 DEF IndInv, TypeOK
<1>6. WorkerLocks'
  <2>1. \A o \in Objects : refs[o] = 0 => refs'[o] = 0
    BY <1>2 DEF IndInv, TypeOK
  <2>2. \A w \in Workers : \A k \in DOMAIN worker[w].adds :
          refs'[worker[w].adds[k].object] = 0
    BY <2>1 DEF IndInv, TypeOK, WorkerLocks
  <2> QED BY <1>1, <2>2 DEF IndInv, WorkerLocks
<1>7. LocksExclude'
  BY <1>1 DEF IndInv, LocksExclude
<1>8. WorkerEvents' /\ LeaseHolds'
  <2>1. WorkerEvents'
    BY <1>1, <1>4 DEF IndInv, WorkerEvents, Leasing
  <2>2. \A w \in Workers : worker[w].pc \in Leasing =>
          outbox'[worker[w].event] = outbox[worker[w].event]
    BY <1>4 DEF IndInv, WorkerEvents
  <2>3. LeaseHolds'
    BY <1>1, <2>2 DEF IndInv, LeaseHolds, LeasedByOther, Pending
  <2> QED BY <2>1, <2>3
<1>9. CommittedBytesExist'
  <2>1. \A o \in Objects : refs'[o] > 0 => refs[o] > 0
    BY <1>2 DEF IndInv, TypeOK
  <2> QED BY <1>1, <2>1 DEF IndInv, Catalogue, CommittedBytesExist
<1>10. UploadPhases' /\ DeletesAreOfObjects' /\ DeleteEventsAreFinal'
  BY <1>1, <1>3, <1>4 DEF IndInv, Catalogue, UploadPhases, DeletesAreOfObjects,
     DeleteEventsAreFinal
<1>11. BytesAccountedFor'
  BY <1>1, <1>4 DEF IndInv, Catalogue, BytesAccountedFor
<1> QED BY <1>5, <1>6, <1>7, <1>8, <1>9, <1>10, <1>11 DEF IndInv, Catalogue

-----------------------------------------------------------------------------
(* The theorems *)

\* With commits whose outcome is known, every step keeps the invariant.
LEMMA NextInv ==
    ASSUME ~AmbiguousUploads, IndInv, [Next]_vars PROVE IndInv'
<1>1. ASSUME UNCHANGED vars PROVE IndInv'
  <2>1. TypeOK' /\ WorkerLocks' /\ LocksExclude' /\ WorkerEvents'
    BY <1>1 DEF vars, IndInv, TypeOK, WorkerLocks, LocksExclude, WorkerEvents
  <2>2. LeaseHolds'
    BY <1>1 DEF vars, IndInv, LeaseHolds, LeasedByOther, Pending
  <2>3. Catalogue'
    BY <1>1, CatalogueFrame DEF vars, IndInv
  <2> QED BY <2>1, <2>2, <2>3 DEF IndInv
<1>2. ASSUME NEW o \in Objects,
             Publish(o) \/ CommitUpload(o) \/ FailUpload(o) \/ CrashUpload(o)
      PROVE  IndInv'
  BY <1>2, PublishInv, CommitUploadInv, GiveUpUploadInv
<1>3. ASSUME NEW c \in Copies, ReadSource(c) \/ CopyStep(c) \/ AbortCopy(c)
      PROVE  IndInv'
  BY <1>3, ReadSourceInv, InsertVersionInv, CommitCopyInv, AbortCopyInv DEF CopyStep
<1>4. ASSUME NEW w \in Workers,
             WorkerStep(w) \/ FailEvent(w) \/ AmbiguousEvent(w) \/ CrashWorker(w)
      PROVE  IndInv'
  BY <1>4, StartCycleInv, PollDeletesInv, PollSweepsInv, LeaseInv, SnapshotOrphansInv,
     ClaimOrphansInv, DetachInv, CommitSweepInv, UnlinkInv, AcknowledgeInv,
     RecordFailureInv, FailEventInv, AmbiguousEventInv, CrashWorkerInv DEF WorkerStep
<1> QED BY <1>1, <1>2, <1>3, <1>4, PurgeInv DEF Next, AmbiguousUpload

\* IndInv is an inductive invariant of the specification.
THEOREM Invariance ==
    ASSUME ~AmbiguousUploads PROVE Spec => []IndInv
<1>1. IndInv /\ [Next]_vars => IndInv'
  BY NextInv
<1> QED BY <1>1, InitInv, PTL DEF Spec

\* Type correctness of uploads, copies, purges and workers.
THEOREM TypeCorrect ==
    ASSUME ~AmbiguousUploads PROVE Spec => []TypeOK
<1>1. IndInv => TypeOK
  BY DEF IndInv
<1> QED BY <1>1, Invariance, PTL

\* The docstring of ProcessStorageOutboxUseCase for any number of workers, copies
\* and objects and any batch sizes: no interleaving of completions, copies,
\* purges, sweeps, failures and crashes removes bytes or a row that a committed
\* version needs.
THEOREM BytesSafety ==
    ASSUME ~AmbiguousUploads PROVE Spec => []CommittedBytesExist
<1>1. IndInv => CommittedBytesExist
  BY DEF IndInv, Catalogue
<1> QED BY <1>1, Invariance, PTL

\* Metadata goes before bytes, for good.
THEOREM DetachBeforeDelete ==
    ASSUME ~AmbiguousUploads PROVE Spec => []DeleteEventsAreFinal
<1>1. IndInv => DeleteEventsAreFinal
  BY DEF IndInv, Catalogue
<1> QED BY <1>1, Invariance, PTL

\* Claim lock and recheck together make the foreign key a last defence only.
THEOREM RecheckSuffices ==
    ASSUME ~AmbiguousUploads PROVE Spec => []SweepsKeepForeignKey
<1>1. IndInv => SweepsKeepForeignKey
  BY DEF IndInv, WorkerLocks, SweepsKeepForeignKey, Detached
<1> QED BY <1>1, Invariance, PTL

\* A leased event is never lost to another worker.
THEOREM LeaseSafety ==
    ASSUME ~AmbiguousUploads PROVE Spec => []LeaseHolds
<1>1. IndInv => LeaseHolds
  BY DEF IndInv
<1> QED BY <1>1, Invariance, PTL

\* Bytes of completed uploads never fall out of the bookkeeping.
THEOREM NoLeak ==
    ASSUME ~AmbiguousUploads PROVE Spec => []BytesAccountedFor
<1>1. IndInv => BytesAccountedFor
  BY DEF IndInv, Catalogue
<1> QED BY <1>1, Invariance, PTL

-----------------------------------------------------------------------------
(* Refinement of ObjectLifecycle *)

\* In states of the invariant no object dangles and none has leaked, so a phase
\* follows from the upload, the row and the bytes alone.
Phase ==
    [o \in Objects |->
        IF o \in objects THEN "live"
        ELSE IF o \in blobs THEN (IF upload[o] = "done" THEN "detached" ELSE "staged")
        ELSE IF upload[o] = "none" THEN "absent" ELSE "gone"]

\* Under the invariant the phase function takes lifecycle values only.
LEMMA PhaseLemma == IndInv => [o \in Objects |-> PhaseOf(o)] = Phase
<1> SUFFICES ASSUME IndInv, NEW o \in Objects PROVE PhaseOf(o) = Phase[o]
  BY DEF Phase
<1>1. upload[o] \in UploadStates
  BY DEF IndInv, TypeOK
<1>2. /\ o \in objects => o \in blobs
      /\ o \in blobs /\ upload[o] = "done" /\ o \notin objects =>
           \E i \in DOMAIN outbox : outbox[i] = DeleteEvent(o)
      /\ o \in blobs => upload[o] \notin {"none", "compensated"}
  BY DEF IndInv, Catalogue, CommittedBytesExist, BytesAccountedFor, UploadPhases
<1> QED BY <1>1, <1>2 DEF PhaseOf, Phase, UploadStates

\* Every step is a step of the lifecycle or leaves the phases and versions alone.
LEMMA StepRefines ==
    ASSUME ~AmbiguousUploads, IndInv, IndInv', [Next]_vars
    PROVE  [Lifecycle!Next]_(Lifecycle!vars)
<1> DEFINE abs == [o \in Objects |-> PhaseOf(o)]
<1>1. abs = Phase /\ abs' = Phase'
  <2>1. abs = Phase
    BY PhaseLemma
  <2>2. ([o \in Objects |-> PhaseOf(o)] = Phase)'
    BY PhaseLemma, PTL
  <2> QED BY <2>1, <2>2
<1>2. ASSUME UNCHANGED <<upload, blobs, objects, refs>>
      PROVE  UNCHANGED Lifecycle!vars
  <2>1. Phase' = Phase
    BY <1>2 DEF Phase
  <2> QED BY <1>1, <1>2, <2>1 DEF Lifecycle!vars
<1>3. ASSUME NEW o \in Objects, Publish(o) PROVE Lifecycle!Stage(o)
  <2>1. Phase[o] = "absent" /\ Phase' = [Phase EXCEPT ![o] = "staged"]
    BY <1>3 DEF Publish, Phase, IndInv, TypeOK, Catalogue, UploadPhases
  <2> QED BY <1>1, <1>3, <2>1 DEF Lifecycle!Stage, Publish
<1>4. ASSUME NEW o \in Objects, CommitUpload(o) PROVE Lifecycle!Admit(o)
  <2>1. Phase[o] = "staged" /\ Phase' = [Phase EXCEPT ![o] = "live"]
    BY <1>4 DEF CommitUpload, Phase, IndInv, TypeOK, Catalogue, UploadPhases
  <2> QED BY <1>1, <1>4, <2>1 DEF Lifecycle!Admit, CommitUpload
<1>5. ASSUME NEW o \in Objects, FailUpload(o) PROVE Lifecycle!Withdraw(o)
  <2>1. Phase[o] = "staged" /\ Phase' = [Phase EXCEPT ![o] = "gone"]
    BY <1>5 DEF FailUpload, Phase, IndInv, TypeOK, Catalogue, UploadPhases
  <2> QED BY <1>1, <1>5, <2>1 DEF Lifecycle!Withdraw, FailUpload
<1>6. ASSUME NEW o \in Objects, CrashUpload(o) PROVE UNCHANGED Lifecycle!vars
  <2>1. Phase' = Phase
    BY <1>6 DEF CrashUpload, Phase, IndInv, TypeOK, Catalogue, UploadPhases
  <2> QED BY <1>1, <1>6, <2>1 DEF Lifecycle!vars, CrashUpload
<1>7. ASSUME NEW c \in Copies, CommitCopy(c) PROVE Lifecycle!Share(copy[c].held)
  <2>1. Phase' = Phase /\ \A o \in copy[c].held : o \in Objects /\ Phase[o] = "live"
    BY <1>7 DEF CommitCopy, Phase, IndInv, TypeOK, LocksExclude
  <2> QED BY <1>1, <1>7, <2>1 DEF Lifecycle!Share, CommitCopy
<1>8. ASSUME Purge PROVE Lifecycle!Release
  <2>1. Phase' = Phase
    BY <1>8 DEF Purge, Phase
  <2>2. refs' \in [Objects -> Nat]
    BY DEF IndInv, TypeOK
  <2>3. \A o \in Objects : refs'[o] <= refs[o]
    <3>1. PICK dec \in [Objects -> 0 .. MaxRefs] :
            refs' = [o \in Objects |-> refs[o] - dec[o]]
      BY <1>8 DEF Purge
    <3>2. \A o \in Objects : refs[o] \in Nat /\ dec[o] \in Nat
      BY BoundsAssumption DEF IndInv, TypeOK
    <3> QED BY <3>1, <3>2
  <2> QED BY <1>1, <2>1, <2>2, <2>3 DEF Lifecycle!Release
<1>9. ASSUME NEW w \in Workers, SweepEffect(w) PROVE Lifecycle!Cut(Detached(w))
  <2>1. /\ objects' = objects \ Detached(w)
        /\ UNCHANGED <<upload, blobs, refs>>
    BY <1>9 DEF SweepEffect
  <2>2. \A o \in Detached(w) : /\ o \in Objects /\ o \in objects
                               /\ refs[o] = 0
                               /\ o \in blobs /\ upload[o] = "done"
    <3>1. \A o \in Detached(w) : o \in worker[w].locked /\ refs[o] = 0
      BY DEF IndInv, WorkerLocks, Detached
    <3> QED BY <3>1 DEF IndInv, TypeOK, WorkerLocks, Catalogue, CommittedBytesExist,
          UploadPhases
  <2>3. \A o \in Detached(w) : Phase[o] = "live"
    BY <2>2 DEF Phase
  <2>4. Phase' = [o \in Objects |-> IF o \in Detached(w) THEN "detached" ELSE Phase[o]]
    BY <2>1, <2>2 DEF Phase
  <2> QED BY <1>1, <2>1, <2>2, <2>3, <2>4 DEF Lifecycle!Cut
<1>10. ASSUME NEW w \in Workers, Unlink(w)
       PROVE  \/ Lifecycle!Reclaim(outbox[worker[w].event].object)
              \/ UNCHANGED Lifecycle!vars
  <2> DEFINE o == outbox[worker[w].event].object
  <2>1. o \in Objects /\ o \notin objects /\ upload[o] = "done"
    BY <1>10 DEF Unlink, IndInv, WorkerEvents, Leasing, Catalogue, DeletesAreOfObjects,
       DeleteEventsAreFinal
  <2>2. blobs' = blobs \ {o} /\ UNCHANGED <<upload, objects, refs>>
    BY <1>10 DEF Unlink
  <2> HIDE DEF o
  <2>3. CASE o \in blobs
    <3>1. Phase[o] = "detached" /\ Phase' = [Phase EXCEPT ![o] = "gone"]
      BY <2>1, <2>2, <2>3 DEF Phase
    <3>2. Lifecycle!Reclaim(o)
      BY <1>1, <2>1, <2>2, <3>1 DEF Lifecycle!Reclaim
    <3> QED BY <3>2 DEF o
  <2>4. CASE o \notin blobs
    <3>1. blobs' = blobs
      BY <2>2, <2>4
    <3> QED BY <1>2, <2>2, <3>1
  <2> QED BY <2>3, <2>4
<1>11. ASSUME NEW c \in Copies, ReadSource(c) \/ InsertVersion(c) \/ AbortCopy(c)
       PROVE  UNCHANGED Lifecycle!vars
  BY <1>2, <1>11 DEF ReadSource, InsertVersion, AbortCopy
<1>12. ASSUME NEW w \in Workers,
              \/ StartCycle(w) \/ PollDeletes(w) \/ PollSweeps(w) \/ Lease(w)
              \/ SnapshotOrphans(w) \/ ClaimOrphans(w) \/ Detach(w)
              \/ AckEffect(w) \/ RecordFailure(w) \/ FailEvent(w) \/ CrashWorker(w)
       PROVE  UNCHANGED Lifecycle!vars
  <2>1. UNCHANGED <<upload, blobs, objects, refs>>
    BY <1>12 DEF StartCycle, PollDeletes, PollSweeps, Lease, SnapshotOrphans,
       ClaimOrphans, Detach, AckEffect, RecordFailure, FailEvent, CrashWorker
  <2> QED BY <1>2, <2>1
<1>13. ASSUME NEW c \in Copies, CommitCopy(c) PROVE Lifecycle!Next
  <2>1. copy[c].held \in SUBSET Objects
    BY DEF IndInv, TypeOK, CopyStates
  <2> QED BY <1>7, <1>13, <2>1 DEF Lifecycle!Next
<1>14. ASSUME NEW w \in Workers, SweepEffect(w) PROVE Lifecycle!Next
  <2>1. Detached(w) \in SUBSET Objects
    <3>1. Detached(w) \subseteq worker[w].locked
      BY DEF IndInv, WorkerLocks, Detached
    <3>2. worker[w].locked \subseteq Objects
      BY DEF IndInv, TypeOK, WorkerLocks
    <3> QED BY <3>1, <3>2
  <2> QED BY <1>9, <1>14, <2>1 DEF Lifecycle!Next
<1>15. ASSUME NEW w \in Workers, Unlink(w)
       PROVE  Lifecycle!Next \/ UNCHANGED Lifecycle!vars
  <2>1. outbox[worker[w].event].object \in Objects
    BY <1>15 DEF Unlink, IndInv, WorkerEvents, Leasing, Catalogue, DeletesAreOfObjects
  <2> QED BY <1>10, <1>15, <2>1 DEF Lifecycle!Next
<1>16. ASSUME UNCHANGED vars PROVE UNCHANGED Lifecycle!vars
  BY <1>2, <1>16 DEF vars
<1>17. CASE Next
  <2>1. ASSUME NEW o \in Objects,
               Publish(o) \/ CommitUpload(o) \/ FailUpload(o) \/ CrashUpload(o)
        PROVE  [Lifecycle!Next]_(Lifecycle!vars)
    BY <1>3, <1>4, <1>5, <1>6, <2>1 DEF Lifecycle!Next
  <2>2. ASSUME NEW c \in Copies, ReadSource(c) \/ CopyStep(c) \/ AbortCopy(c)
        PROVE  [Lifecycle!Next]_(Lifecycle!vars)
    BY <1>11, <1>13, <2>2 DEF CopyStep
  <2>3. ASSUME NEW w \in Workers,
               WorkerStep(w) \/ FailEvent(w) \/ AmbiguousEvent(w) \/ CrashWorker(w)
        PROVE  [Lifecycle!Next]_(Lifecycle!vars)
    BY <1>12, <1>14, <1>15, <2>3
       DEF WorkerStep, CommitSweep, Acknowledge, AmbiguousEvent
  <2>4. ASSUME Purge PROVE [Lifecycle!Next]_(Lifecycle!vars)
    BY <1>8, <2>4 DEF Lifecycle!Next
  <2> QED BY <1>17, <2>1, <2>2, <2>3, <2>4 DEF Next, AmbiguousUpload
<1> QED BY <1>16, <1>17

\* Uploads, copies, purges and the outbox worker implement the object lifecycle,
\* for any number of objects, workers and copies: the two-phase cleanup is a
\* refinement, not only a set of invariants.
THEOREM Refinement ==
    ASSUME ~AmbiguousUploads PROVE Spec => ImplementsLifecycle
<1>1. Init => Lifecycle!Init
  <2> SUFFICES ASSUME Init PROVE Lifecycle!Init
    OBVIOUS
  <2>1. Phase = [o \in Objects |-> "absent"]
    BY DEF Init, Phase
  <2>2. [o \in Objects |-> PhaseOf(o)] = [o \in Objects |-> "absent"]
    BY <2>1, InitInv, PhaseLemma
  <2> QED BY <2>2 DEF Init, Lifecycle!Init
<1>2. IndInv /\ IndInv' /\ [Next]_vars => [Lifecycle!Next]_(Lifecycle!vars)
  BY StepRefines
<1> QED BY <1>1, <1>2, Invariance, PTL DEF Spec, ImplementsLifecycle, Lifecycle!Spec

-----------------------------------------------------------------------------
(* Orphans are scheduled *)

Sweeping(r) == r.pc \in {"snapshot", "claim", "detach"}

\* Another sweep than the one a worker handles is pending.
LaterSweep(event) == \E j \in DOMAIN outbox : j # event /\ outbox[j] = SweepEvent

\* No earlier sweep is pending when a worker has chosen one.
InOrder(r) ==
    (r.pc = "lease" \/ Sweeping(r)) /\ outbox[r.event].type = "sweep" =>
        \A j \in DOMAIN outbox :
            j < r.event /\ outbox[j].type = "sweep" => outbox[j].processed

AddedBy(r) == {r.adds[k].object : k \in DOMAIN r.adds}

\* An orphan is in the hands of the sweep under way or of a later one, or passed over.
PassesOverNone(r) ==
    \A o \in objects : refs[o] = 0 =>
        /\ r.pc = "claim" => o \in r.orphans \/ o \in passed \/ LaterSweep(r.event)
        /\ r.pc = "detach" /\ ~r.more =>
             o \in r.todo \/ o \in AddedBy(r) \/ o \in passed \/ LaterSweep(r.event)

ScheduleInv ==
    /\ OrphansAreScheduled
    /\ \A w \in Workers : InOrder(worker[w]) /\ PassesOverNone(worker[w])

\* The leases make the sweeps a sequence: the oldest is the only one under way.
LEMMA OneSweep ==
    ASSUME IndInv, ScheduleInv, NEW v \in Workers, NEW w \in Workers,
           Sweeping(worker[v]), Sweeping(worker[w])
    PROVE  v = w
<1> DEFINE i == worker[v].event
           j == worker[w].event
<1>1. worker[v].pc \in Leasing /\ worker[w].pc \in Leasing
  BY DEF Sweeping, Leasing
<1>2. /\ i \in DOMAIN outbox /\ outbox[i].type = "sweep"
      /\ j \in DOMAIN outbox /\ outbox[j].type = "sweep"
  BY <1>1 DEF IndInv, WorkerEvents, Sweeping
<1>3. /\ ~outbox[i].processed /\ ~outbox[j].processed
      /\ ~LeasedByOther(v, i)
  BY <1>1 DEF IndInv, LeaseHolds, Pending
<1>4. i \in Nat /\ j \in Nat
  BY <1>2 DEF IndInv, TypeOK
<1>5. ~(i < j) /\ ~(j < i)
  BY <1>2, <1>3 DEF ScheduleInv, InOrder
<1>6. i = j
  BY <1>4, <1>5
<1> QED BY <1>1, <1>3, <1>6 DEF LeasedByOther

\* Orphans only become fewer, and what was passed over stays noted.
FewerOrphans ==
    \A o \in objects' : refs'[o] = 0 =>
        /\ o \in objects /\ refs[o] = 0
        /\ o \in passed => o \in passed'

\* Steps of uploads and copies.
LEMMA ScheduleFrame ==
    ASSUME ScheduleInv, FewerOrphans, UNCHANGED <<outbox, worker>>
    PROVE  ScheduleInv'
<1>1. OrphansAreScheduled'
  BY DEF ScheduleInv, OrphansAreScheduled, FewerOrphans
<1>2. ASSUME NEW w \in Workers PROVE InOrder(worker[w])' /\ PassesOverNone(worker[w])'
  <2>1. InOrder(worker[w]) /\ PassesOverNone(worker[w])
    BY DEF ScheduleInv
  <2>2. InOrder(worker[w])'
    BY <2>1 DEF InOrder, Sweeping
  <2>3. LaterSweep(worker[w].event)' <=> LaterSweep(worker[w].event)
    BY DEF LaterSweep
  <2>4. AddedBy(worker[w])' = AddedBy(worker[w])
    BY DEF AddedBy
  <2>5. PassesOverNone(worker[w])'
    BY <2>1, <2>3, <2>4 DEF PassesOverNone, FewerOrphans
  <2> QED BY <2>2, <2>5
<1> QED BY <1>1, <1>2 DEF ScheduleInv

\* Completions of uploads add no orphan.
LEMMA UploadSchedule ==
    ASSUME IndInv, ScheduleInv, NEW o \in Objects,
           Publish(o) \/ CommitUpload(o) \/ FailUpload(o) \/ CrashUpload(o)
    PROVE  ScheduleInv'
<1>1. UNCHANGED <<outbox, worker, passed>>
  BY DEF Publish, CommitUpload, FailUpload, CrashUpload
<1>3. FewerOrphans
  <2>1. CASE CommitUpload(o)
    <3>1. objects' = objects \cup {o} /\ refs' = [refs EXCEPT ![o] = 1]
      BY <2>1 DEF CommitUpload
    <3>2. refs \in [Objects -> Nat] /\ objects \subseteq Objects
      BY DEF IndInv, TypeOK
    <3> QED BY <1>1, <3>1, <3>2 DEF FewerOrphans
  <2>2. CASE ~CommitUpload(o)
    BY <1>1, <2>2 DEF FewerOrphans, Publish, FailUpload, CrashUpload
  <2> QED BY <2>1, <2>2
<1> QED BY <1>1, <1>3, ScheduleFrame

\* A copy that reads, locks a row or is rolled back changes nothing a sweep looks at.
LEMMA CopySchedule ==
    ASSUME ScheduleInv, NEW c \in Copies,
           ReadSource(c) \/ InsertVersion(c) \/ AbortCopy(c)
    PROVE  ScheduleInv'
<1>1. UNCHANGED <<objects, refs, outbox, worker, passed>>
  BY DEF ReadSource, InsertVersion, AbortCopy
<1>2. FewerOrphans
  BY <1>1 DEF FewerOrphans
<1> QED BY <1>1, <1>2, ScheduleFrame

\* What a committed copy held is no orphan any more.
LEMMA CommitCopySchedule ==
    ASSUME IndInv, ScheduleInv, NEW c \in Copies, CommitCopy(c)
    PROVE  ScheduleInv'
<1>1. /\ refs' = [o \in Objects |-> IF o \in copy[c].held THEN refs[o] + 1 ELSE refs[o]]
      /\ passed' = passed \ copy[c].held
      /\ UNCHANGED <<objects, outbox, worker>>
  BY DEF CommitCopy
<1>2. ASSUME NEW o \in objects, refs'[o] = 0
      PROVE  refs[o] = 0 /\ (o \in passed => o \in passed')
  <2>1. o \in Objects /\ refs[o] \in Nat
    BY DEF IndInv, TypeOK
  <2>2. o \notin copy[c].held /\ refs[o] = 0
    BY <1>1, <1>2, <2>1
  <2> QED BY <1>1, <2>2
<1>3. FewerOrphans
  BY <1>1, <1>2 DEF FewerOrphans
<1> QED BY <1>1, <1>3, ScheduleFrame

\* A purge brings its own sweep.
LEMMA PurgeSchedule ==
    ASSUME IndInv, ScheduleInv, Purge
    PROVE  ScheduleInv'
<1>1. outbox' = Append(outbox, SweepEvent) /\ UNCHANGED <<objects, worker, copy>>
  BY DEF Purge
<1>2. outbox \in Seq(Events) /\ SweepEvent \in Events /\ Len(outbox) \in Nat
  BY DEF IndInv, TypeOK, SweepEvent, Events
<1>3. /\ DOMAIN outbox = 1 .. Len(outbox)
      /\ DOMAIN outbox' = DOMAIN outbox \cup {Len(outbox) + 1}
      /\ outbox'[Len(outbox) + 1] = SweepEvent
      /\ \A i \in DOMAIN outbox : outbox'[i] = outbox[i]
  BY <1>1, <1>2, AppendFacts
<1>4. OrphansAreScheduled'
  BY <1>3 DEF OrphansAreScheduled
<1>5. ASSUME NEW w \in Workers PROVE InOrder(worker[w])' /\ PassesOverNone(worker[w])'
  <2> DEFINE r == worker[w]
  <2>1. r.pc = "lease" \/ Sweeping(r) => r.event \in DOMAIN outbox
    BY DEF IndInv, WorkerEvents, Sweeping, Leasing
  <2>2. InOrder(r) /\ worker'[w] = r
    BY <1>1 DEF ScheduleInv
  <2>3. ASSUME r.pc = "lease" \/ Sweeping(r), outbox'[r.event].type = "sweep",
               NEW j \in DOMAIN outbox', j < r.event, outbox'[j].type = "sweep"
        PROVE  outbox'[j].processed
    <3>1. r.event \in DOMAIN outbox /\ j \in DOMAIN outbox
      BY <1>2, <1>3, <2>1, <2>3
    <3> QED BY <1>3, <2>2, <2>3, <3>1 DEF InOrder
  <2>4. InOrder(worker[w])'
    BY <2>2, <2>3 DEF InOrder, Sweeping
  <2>5. ASSUME Sweeping(r) PROVE LaterSweep(worker[w].event)'
    <3>1. r.event # Len(outbox) + 1
      BY <1>2, <1>3, <2>1, <2>5
    <3> QED BY <1>3, <2>2, <3>1 DEF LaterSweep
  <2>6. PassesOverNone(worker[w])'
    BY <2>2, <2>5 DEF PassesOverNone, Sweeping
  <2> QED BY <2>4, <2>6
<1> QED BY <1>4, <1>5 DEF ScheduleInv

\* A worker goes on to r, and nothing else changes.
LEMMA WorkerSchedule ==
    ASSUME IndInv, ScheduleInv, NEW w \in Workers, NEW r,
           worker' = [worker EXCEPT ![w] = r],
           UNCHANGED <<objects, refs, outbox, passed>>,
           InOrder(r), PassesOverNone(r)
    PROVE  ScheduleInv'
<1>1. OrphansAreScheduled'
  BY DEF ScheduleInv, OrphansAreScheduled
<1>2. ASSUME NEW v \in Workers PROVE InOrder(worker[v])' /\ PassesOverNone(worker[v])'
  <2>1. worker'[v] = r \/ worker'[v] = worker[v]
    BY DEF IndInv, TypeOK
  <2> DEFINE q == worker'[v]
  <2>2. InOrder(q) /\ PassesOverNone(q)
    BY <2>1 DEF ScheduleInv
  <2>3. InOrder(worker[v])'
    BY <2>2 DEF InOrder, Sweeping
  <2>4. PassesOverNone(worker[v])'
    BY <2>2 DEF PassesOverNone, AddedBy, LaterSweep
  <2> QED BY <2>3, <2>4
<1> QED BY <1>1, <1>2 DEF ScheduleInv

\* A worker that has no sweep, chosen or under way, promises nothing.
LEMMA AtRest ==
    ASSUME NEW r, r.pc \notin {"lease", "snapshot", "claim", "detach"}
    PROVE  InOrder(r) /\ PassesOverNone(r)
BY DEF InOrder, PassesOverNone, Sweeping

\* Cycles, polls, deletions and everything that ends a transaction without effect.
LEMMA RestSchedule ==
    ASSUME IndInv, ScheduleInv, NEW w \in Workers,
           \/ StartCycle(w) \/ RecordFailure(w) \/ CrashWorker(w) \/ FailEvent(w)
           \/ Unlink(w)
    PROVE  ScheduleInv'
<1>1. worker[w] \in WorkerStates
  BY DEF IndInv, TypeOK
<1>2. UNCHANGED <<objects, refs, outbox, passed>>
  BY DEF StartCycle, RecordFailure, CrashWorker, FailEvent, Unlink
<1>3. \E r : /\ worker' = [worker EXCEPT ![w] = r]
             /\ r.pc \notin {"lease", "snapshot", "claim", "detach"}
  <2>1. CASE StartCycle(w)
    <3> DEFINE r == [Idle EXCEPT !.pc = "poll_delete"]
    <3>1. worker' = [worker EXCEPT ![w] = r] /\ r.pc = "poll_delete"
      BY <2>1 DEF StartCycle, Idle
    <3> QED BY <3>1
  <2>2. CASE RecordFailure(w) \/ CrashWorker(w)
    <3>1. worker' = [worker EXCEPT ![w] = Idle] /\ Idle.pc = "idle"
      BY <2>2 DEF RecordFailure, CrashWorker, Idle
    <3> QED BY <3>1
  <2>3. CASE FailEvent(w)
    <3> DEFINE r == [Idle EXCEPT !.pc = "record", !.event = worker[w].event]
    <3>1. worker' = [worker EXCEPT ![w] = r] /\ r.pc = "record"
      BY <2>3 DEF FailEvent, ToRecord, Idle
    <3> QED BY <3>1
  <2>4. CASE Unlink(w)
    <3> DEFINE r == [worker[w] EXCEPT !.pc = "ack"]
    <3>1. worker' = [worker EXCEPT ![w] = r] /\ r.pc = "ack"
      BY <1>1, <2>4 DEF Unlink, WorkerStates
    <3> QED BY <3>1
  <2> QED BY <2>1, <2>2, <2>3, <2>4
<1>4. PICK r : /\ worker' = [worker EXCEPT ![w] = r]
               /\ r.pc \notin {"lease", "snapshot", "claim", "detach"}
  BY <1>3
<1> QED BY <1>2, <1>4, AtRest, WorkerSchedule

\* Polls choose a delete event, the oldest sweep or nothing.
LEMMA PollSchedule ==
    ASSUME IndInv, ScheduleInv, NEW w \in Workers, PollDeletes(w) \/ PollSweeps(w)
    PROVE  ScheduleInv'
<1>1. worker[w] \in WorkerStates /\ outbox \in Seq(Events)
  BY DEF IndInv, TypeOK
<1>2. UNCHANGED <<objects, refs, outbox, passed>>
  BY DEF PollDeletes, PollSweeps
<1>3. CASE worker' = [worker EXCEPT ![w] = Idle]
  <2>1. Idle.pc = "idle"
    BY DEF Idle
  <2> QED BY <1>2, <1>3, <2>1, AtRest, WorkerSchedule
<1>4. CASE worker' = [worker EXCEPT ![w].pc = "poll_sweep"]
  <2> DEFINE r == [worker[w] EXCEPT !.pc = "poll_sweep"]
  <2>1. worker' = [worker EXCEPT ![w] = r] /\ r.pc = "poll_sweep"
    BY <1>1, <1>4 DEF WorkerStates
  <2> HIDE DEF r
  <2> QED BY <1>2, <2>1, AtRest, WorkerSchedule
<1>5. ASSUME NEW type \in {"delete", "sweep"}, NEW i \in Oldest(type),
             worker' = [worker EXCEPT ![w].pc = "lease", ![w].event = i]
      PROVE  ScheduleInv'
  <2> DEFINE r == [worker[w] EXCEPT !.pc = "lease", !.event = i]
  <2>1. worker' = [worker EXCEPT ![w] = r] /\ r.pc = "lease" /\ r.event = i
    BY <1>1, <1>5 DEF WorkerStates
  <2> HIDE DEF r
  <2>2. /\ i \in DOMAIN outbox /\ outbox[i].type = type
        /\ \A j \in DOMAIN outbox : (outbox[j].type = type /\ ~outbox[j].processed) => i <= j
    BY DEF Oldest, Pending
  <2>3. ASSUME outbox[i].type = "sweep", NEW j \in DOMAIN outbox, j < i, outbox[j].type = "sweep"
        PROVE  outbox[j].processed
    <3>1. i \in Nat /\ j \in Nat /\ ~(i <= j)
      BY <1>1, <2>2, <2>3
    <3> QED BY <2>2, <2>3, <3>1
  <2>4. InOrder(r)
    BY <2>1, <2>3 DEF InOrder
  <2>5. PassesOverNone(r)
    BY <2>1 DEF PassesOverNone
  <2> QED BY <1>2, <2>1, <2>4, <2>5, WorkerSchedule
<1> QED BY <1>3, <1>4, <1>5 DEF PollDeletes, PollSweeps

\* The lease keeps what was chosen, the snapshot sees every orphan.
LEMMA LeaseSchedule ==
    ASSUME IndInv, ScheduleInv, NEW w \in Workers, Lease(w) \/ SnapshotOrphans(w)
    PROVE  ScheduleInv'
<1>1. worker[w] \in WorkerStates
  BY DEF IndInv, TypeOK
<1>2. UNCHANGED <<objects, refs, outbox, passed>>
  BY DEF Lease, SnapshotOrphans
<1>3. InOrder(worker[w])
  BY DEF ScheduleInv
<1>4. CASE Lease(w) /\ worker' = [worker EXCEPT ![w] = Idle]
  <2>1. Idle.pc = "idle"
    BY DEF Idle
  <2> QED BY <1>2, <1>4, <2>1, AtRest, WorkerSchedule
<1>5. CASE Lease(w) /\ ~(worker' = [worker EXCEPT ![w] = Idle])
  <2> DEFINE pc == IF outbox[worker[w].event].type = "sweep" THEN "snapshot" ELSE "unlink"
             r == [worker[w] EXCEPT !.pc = pc]
  <2>1. worker' = [worker EXCEPT ![w].pc = pc] /\ worker[w].pc = "lease"
    BY <1>5 DEF Lease
  <2>2. pc \in {"snapshot", "unlink"}
    OBVIOUS
  <2> HIDE DEF pc
  <2>3. worker' = [worker EXCEPT ![w] = r] /\ r.pc = pc /\ r.event = worker[w].event
    BY <1>1, <2>1 DEF WorkerStates
  <2> HIDE DEF r
  <2>4. InOrder(r)
    BY <1>3, <2>1, <2>3 DEF InOrder
  <2>5. PassesOverNone(r)
    BY <2>2, <2>3 DEF PassesOverNone
  <2> QED BY <1>2, <2>3, <2>4, <2>5, WorkerSchedule
<1>6. CASE SnapshotOrphans(w)
  <2> DEFINE seen == {o \in objects : IsOrphan(o)}
             r == [worker[w] EXCEPT !.pc = "claim", !.orphans = seen]
  <2>1. worker[w].pc = "snapshot"
    BY <1>6 DEF SnapshotOrphans
  <2>2. /\ worker' = [worker EXCEPT ![w] = r]
        /\ r.pc = "claim" /\ r.event = worker[w].event /\ r.orphans = seen
    BY <1>1, <1>6 DEF SnapshotOrphans, WorkerStates
  <2> HIDE DEF r
  <2>3. InOrder(r)
    BY <1>3, <2>1, <2>2 DEF InOrder, Sweeping
  <2>4. PassesOverNone(r)
    BY <2>2 DEF PassesOverNone, IsOrphan
  <2> QED BY <1>2, <2>2, <2>3, <2>4, WorkerSchedule
<1> QED BY <1>4, <1>5, <1>6

\* A claim leaves out only what a copy shares, or reports that there is more.
LEMMA ClaimSchedule ==
    ASSUME IndInv, ScheduleInv, NEW w \in Workers, ClaimOrphans(w)
    PROVE  ScheduleInv'
<1> DEFINE free == ((worker[w].orphans \cap objects) \ ForUpdate(w)) \ KeyShared
<1>1. worker[w] \in WorkerStates /\ worker[w].pc = "claim"
  BY DEF IndInv, TypeOK, ClaimOrphans
<1>2. /\ UNCHANGED <<objects, refs, outbox>>
      /\ passed' = passed \cup (worker[w].orphans \cap objects \cap KeyShared)
  BY DEF ClaimOrphans
<1>3. PICK locked \in SUBSET free, todo \in SUBSET free :
        /\ locked # free => Cardinality(locked) = OrphanBatchSize + 1
        /\ Cardinality(todo) <= OrphanBatchSize
        /\ worker' = [worker EXCEPT ![w].pc = "detach", ![w].orphans = {},
                                    ![w].locked = locked, ![w].todo = todo,
                                    ![w].more = (todo # locked)]
  BY DEF ClaimOrphans
<1>4. ForUpdate(w) = {}
  <2> SUFFICES ASSUME NEW v \in Workers \ {w} PROVE worker[v].locked = {}
    BY DEF ForUpdate
  <2>1. ~Sweeping(worker[v])
    BY <1>1, OneSweep DEF Sweeping
  <2> QED BY <2>1 DEF Sweeping, IndInv, WorkerLocks
<1>5. todo = locked => todo = free
  <2> SUFFICES ASSUME todo = locked, locked # free PROVE FALSE
    OBVIOUS
  <2>1. Cardinality(todo) = OrphanBatchSize + 1
    BY <1>3
  <2> QED BY <1>3, <2>1, BoundsAssumption DEF BoundsAssumption
<1> DEFINE more == todo # locked
           r == [worker[w] EXCEPT !.pc = "detach", !.orphans = {}, !.locked = locked,
                                  !.todo = todo, !.more = more]
<1>6. worker' = [worker EXCEPT ![w] = r]
  BY <1>3
<1>7. ~more => todo = free
  BY <1>5
<1> HIDE DEF more, free
<1>8. /\ r.pc = "detach" /\ r.event = worker[w].event /\ r.todo = todo /\ r.more = more
  BY <1>1 DEF WorkerStates
<1> HIDE DEF r
<1>9. InOrder(r)
  <2>1. InOrder(worker[w])
    BY DEF ScheduleInv
  <2> QED BY <1>1, <1>8, <2>1 DEF InOrder, Sweeping
<1>10. /\ worker'[w] = r /\ \A v \in Workers \ {w} : worker'[v] = worker[v]
       /\ passed \subseteq passed'
  BY <1>2, <1>6 DEF IndInv, TypeOK
<1>11. OrphansAreScheduled'
  BY <1>2, <1>10 DEF ScheduleInv, OrphansAreScheduled
<1>12. ASSUME NEW v \in Workers PROVE InOrder(worker[v])'
  <2>1. InOrder(worker[v])
    BY DEF ScheduleInv
  <2>2. worker'[v] = r \/ worker'[v] = worker[v]
    BY <1>10
  <2> QED BY <1>2, <1>9, <2>1, <2>2 DEF InOrder, Sweeping
<1>13. PassesOverNone(worker[w])'
  <2> SUFFICES ASSUME NEW o \in objects, refs[o] = 0, ~more
               PROVE  o \in todo \/ o \in passed' \/ LaterSweep(worker[w].event)'
    BY <1>2, <1>8, <1>10 DEF PassesOverNone
  <2>1. o \in worker[w].orphans \/ o \in passed \/ LaterSweep(worker[w].event)
    BY <1>1 DEF ScheduleInv, PassesOverNone
  <2>2. LaterSweep(worker[w].event) => LaterSweep(worker[w].event)'
    BY <1>2, <1>8, <1>10 DEF LaterSweep
  <2> QED BY <1>2, <1>4, <1>7, <1>10, <2>1, <2>2 DEF free
<1>14. ASSUME NEW v \in Workers, v # w PROVE PassesOverNone(worker[v])'
  <2>1. PassesOverNone(worker[v]) /\ worker'[v] = worker[v]
    BY <1>10, <1>14 DEF ScheduleInv
  <2>2. LaterSweep(worker[v].event) => LaterSweep(worker[v].event)'
    BY <1>2, <2>1 DEF LaterSweep
  <2>3. AddedBy(worker[v])' = AddedBy(worker[v])
    BY <2>1 DEF AddedBy
  <2> QED BY <1>2, <1>10, <2>1, <2>2, <2>3 DEF PassesOverNone
<1> QED BY <1>11, <1>12, <1>13, <1>14 DEF ScheduleInv

\* What the recheck passes by has gained a version.
LEMMA DetachSchedule ==
    ASSUME IndInv, ScheduleInv, NEW w \in Workers, Detach(w)
    PROVE  ScheduleInv'
<1>1. worker[w] \in WorkerStates /\ worker[w].pc = "detach"
  BY DEF IndInv, TypeOK, Detach
<1>2. UNCHANGED <<objects, refs, outbox, passed>>
  BY DEF Detach
<1>3. PICK d \in worker[w].todo :
        worker' = [worker EXCEPT ![w].todo = @ \ {d},
                     ![w].adds = IF IsOrphan(d) THEN Append(@, DeleteEvent(d)) ELSE @]
  BY DEF Detach
<1>4. worker[w].adds \in Seq(Events) /\ d \in Objects /\ DeleteEvent(d) \in Events
  BY <1>1 DEF WorkerStates, DeleteEvent, Events
<1> DEFINE adds == IF IsOrphan(d) THEN Append(worker[w].adds, DeleteEvent(d))
                   ELSE worker[w].adds
           todo == worker[w].todo \ {d}
           r == [worker[w] EXCEPT !.todo = todo, !.adds = adds]
<1>5. worker' = [worker EXCEPT ![w] = r]
  BY <1>3
<1>6. /\ \A k \in DOMAIN worker[w].adds : k \in DOMAIN adds /\ adds[k] = worker[w].adds[k]
      /\ IsOrphan(d) => \E k \in DOMAIN adds : adds[k] = DeleteEvent(d)
  BY <1>4, AppendFacts
<1> HIDE DEF adds, todo
<1>7. /\ r.pc = "detach" /\ r.event = worker[w].event /\ r.more = worker[w].more
      /\ r.todo = todo /\ r.adds = adds
  BY <1>1 DEF WorkerStates
<1> HIDE DEF r
<1>8. AddedBy(worker[w]) \subseteq AddedBy(r) /\ (IsOrphan(d) => d \in AddedBy(r))
  <2>1. DeleteEvent(d).object = d
    BY DEF DeleteEvent
  <2> QED BY <1>6, <1>7, <2>1 DEF AddedBy
<1>9. InOrder(worker[w]) /\ PassesOverNone(worker[w])
  BY DEF ScheduleInv
<1>10. InOrder(r)
  BY <1>1, <1>7, <1>9 DEF InOrder, Sweeping
<1>11. PassesOverNone(r)
  BY <1>1, <1>7, <1>8, <1>9 DEF PassesOverNone, IsOrphan, todo
<1> QED BY <1>2, <1>5, <1>10, <1>11, WorkerSchedule

\* Events keep their places and their types, and no sweep but that of w is ticked off.
KeepsSweeps(w) ==
    /\ outbox' \in Seq(Events)
    /\ DOMAIN outbox \subseteq DOMAIN outbox'
    /\ \A j \in DOMAIN outbox :
         /\ outbox'[j].type = outbox[j].type
         /\ outbox[j].processed => outbox'[j].processed
         /\ outbox[j] = SweepEvent /\ (Sweeping(worker[w]) => j # worker[w].event) =>
              outbox'[j] = SweepEvent

\* The worker that ends a transaction has no sweep any more.
LEMMA EndSchedule ==
    ASSUME IndInv, ScheduleInv, NEW w \in Workers, NEW r,
           worker' = [worker EXCEPT ![w] = r],
           r.pc \notin {"lease", "snapshot", "claim", "detach"},
           objects' \subseteq objects, UNCHANGED <<refs, passed>>,
           KeepsSweeps(w), OrphansAreScheduled'
    PROVE  ScheduleInv'
<1>1. ASSUME NEW v \in Workers PROVE InOrder(worker[v])' /\ PassesOverNone(worker[v])'
  <2>1. CASE v = w
    <3>1. worker'[v] = r
      BY <2>1 DEF IndInv, TypeOK
    <3> QED BY <3>1 DEF InOrder, PassesOverNone, Sweeping
  <2>2. CASE v # w
    <3> DEFINE q == worker[v]
    <3>1. worker'[v] = q
      BY <2>2 DEF IndInv, TypeOK
    <3>2. InOrder(q) /\ PassesOverNone(q)
      BY DEF ScheduleInv
    <3>3. q.pc = "lease" \/ Sweeping(q) => q.event \in DOMAIN outbox
      BY DEF IndInv, WorkerEvents, Sweeping, Leasing
    <3>4. Sweeping(q) => ~Sweeping(worker[w])
      BY <2>2, OneSweep
    <3>5. outbox \in Seq(Events)
      BY DEF IndInv, TypeOK
    <3>6. ASSUME q.pc = "lease" \/ Sweeping(q), outbox'[q.event].type = "sweep",
                 NEW j \in DOMAIN outbox', j < q.event, outbox'[j].type = "sweep"
          PROVE  outbox'[j].processed
      <4>1. q.event \in DOMAIN outbox
        BY <3>3, <3>6
      <4>2. j \in DOMAIN outbox
        <5>1. j \in Nat /\ j >= 1 /\ q.event \in 1 .. Len(outbox) /\ Len(outbox) \in Nat
          BY <3>5, <3>6, <4>1 DEF KeepsSweeps
        <5> QED BY <3>5, <3>6, <5>1
      <4> QED BY <3>2, <3>6, <4>1, <4>2 DEF InOrder, KeepsSweeps
    <3>7. InOrder(worker[v])'
      BY <3>1, <3>6 DEF InOrder, Sweeping
    <3>8. ASSUME Sweeping(q), LaterSweep(q.event) PROVE LaterSweep(worker[v].event)'
      BY <3>1, <3>4, <3>8 DEF LaterSweep, KeepsSweeps
    <3>9. AddedBy(worker[v])' = AddedBy(q)
      BY <3>1 DEF AddedBy
    <3>10. PassesOverNone(worker[v])'
      BY <3>1, <3>2, <3>8, <3>9 DEF PassesOverNone, Sweeping
    <3> QED BY <3>7, <3>10
  <2> QED BY <2>1, <2>2
<1> QED BY <1>1 DEF ScheduleInv

\* What follows a handled or a failed event.
LEMMA AfterEvent ==
    ASSUME IndInv, NEW w \in Workers
    PROVE  /\ NextIteration(w).pc \in {"idle", "poll_delete"}
           /\ [Idle EXCEPT !.pc = "record", !.event = worker[w].event].pc = "record"
BY DEF NextIteration, Idle

\* The commit of a sweep: the orphans that remain were passed over or are with a
\* later sweep, or the sweep itself stays.
LEMMA SweepEffectSchedule ==
    ASSUME IndInv, ScheduleInv, NEW w \in Workers, SweepEffect(w)
    PROVE  /\ objects' \subseteq objects /\ UNCHANGED <<refs, passed>>
           /\ KeepsSweeps(w) /\ OrphansAreScheduled'
<1> DEFINE q == worker[w]
           marked == IF q.more THEN outbox ELSE [outbox EXCEPT ![q.event].processed = TRUE]
<1>1. /\ q.pc = "detach" /\ q.todo = {}
      /\ objects' = objects \ Detached(w) /\ UNCHANGED <<refs, passed>>
      /\ outbox' = marked \o q.adds
  BY DEF SweepEffect
<1>2. /\ q \in WorkerStates /\ q.adds \in Seq(Events) /\ q.more \in BOOLEAN
      /\ outbox \in Seq(Events) /\ TypeOK
  BY DEF IndInv, TypeOK, WorkerStates
<1>3. q.event \in DOMAIN outbox /\ outbox[q.event].type = "sweep" /\ Sweeping(q)
  BY <1>1 DEF IndInv, WorkerEvents, Leasing, Sweeping
<1>4. /\ marked \in Seq(Events) /\ DOMAIN marked = DOMAIN outbox
      /\ \A j \in DOMAIN outbox :
           /\ marked[j].type = outbox[j].type
           /\ outbox[j].processed => marked[j].processed
           /\ j # q.event \/ q.more => marked[j] = outbox[j]
  <2>1. CASE q.more
    BY <1>2, <2>1
  <2>2. CASE ~q.more
    <3> DEFINE m == [outbox EXCEPT ![q.event].processed = TRUE]
    <3>1. marked = m
      BY <2>2
    <3>2. /\ m \in Seq(Events) /\ DOMAIN m = DOMAIN outbox
          /\ m[q.event].processed = TRUE /\ m[q.event].type = outbox[q.event].type
          /\ \A j \in DOMAIN outbox : j # q.event => m[j] = outbox[j]
      BY <1>2, <1>3, MarkFacts
    <3> HIDE DEF m, marked
    <3> QED BY <2>2, <3>1, <3>2
  <2> QED BY <1>2, <2>1, <2>2
<1> HIDE DEF marked
<1>5. /\ outbox' \in Seq(Events)
      /\ \A j \in DOMAIN outbox : j \in DOMAIN outbox' /\ outbox'[j] = marked[j]
  BY <1>1, <1>2, <1>4, ConcatFacts
<1>6. KeepsSweeps(w)
  BY <1>3, <1>4, <1>5 DEF KeepsSweeps
<1>7. OrphansAreScheduled'
  <2> SUFFICES ASSUME NEW o \in objects', refs'[o] = 0
               PROVE  (\E i \in DOMAIN outbox' : outbox'[i] = SweepEvent) \/ o \in passed'
    BY DEF OrphansAreScheduled
  <2>1. o \in objects /\ o \notin Detached(w) /\ refs[o] = 0 /\ passed' = passed
    BY <1>1
  <2>2. CASE q.more
    <3>1. (\E i \in DOMAIN outbox : outbox[i] = SweepEvent) \/ o \in passed
      BY <2>1 DEF ScheduleInv, OrphansAreScheduled
    <3> QED BY <1>4, <1>5, <2>1, <2>2, <3>1
  <2>3. CASE ~q.more
    <3>1. PassesOverNone(q) /\ AddedBy(q) = Detached(w)
      BY DEF ScheduleInv, AddedBy, Detached
    <3>2. o \in passed \/ LaterSweep(q.event)
      BY <1>1, <2>1, <2>3, <3>1 DEF PassesOverNone
    <3> QED BY <1>4, <1>5, <2>1, <3>2 DEF LaterSweep
  <2> QED BY <1>2, <2>2, <2>3
<1> QED BY <1>1, <1>6, <1>7

\* The commit of a deletion ticks off a delete event.
LEMMA AckEffectSchedule ==
    ASSUME IndInv, ScheduleInv, NEW w \in Workers, AckEffect(w)
    PROVE  /\ objects' \subseteq objects /\ UNCHANGED <<refs, passed>>
           /\ KeepsSweeps(w) /\ OrphansAreScheduled'
<1> DEFINE q == worker[w]
<1>1. /\ q.pc = "ack" /\ UNCHANGED <<objects, refs, passed>>
      /\ outbox' = [outbox EXCEPT ![q.event].processed = TRUE]
  BY DEF AckEffect
<1>2. q.event \in DOMAIN outbox /\ outbox[q.event].type = "delete" /\ TypeOK
  BY <1>1 DEF IndInv, WorkerEvents, Leasing
<1>3. /\ outbox' \in Seq(Events) /\ DOMAIN outbox' = DOMAIN outbox
      /\ outbox'[q.event].processed = TRUE /\ outbox'[q.event].type = outbox[q.event].type
      /\ \A j \in DOMAIN outbox : j # q.event => outbox'[j] = outbox[j]
  BY <1>1, <1>2, MarkFacts
<1>4. \A j \in DOMAIN outbox : outbox[j] = SweepEvent => outbox'[j] = SweepEvent
  <2>1. SweepEvent.type = "sweep"
    BY DEF SweepEvent
  <2> QED BY <1>2, <1>3, <2>1
<1>5. KeepsSweeps(w)
  BY <1>3, <1>4 DEF KeepsSweeps
<1>6. OrphansAreScheduled'
  BY <1>1, <1>3, <1>4 DEF ScheduleInv, OrphansAreScheduled
<1> QED BY <1>1, <1>5, <1>6

\* Commits of workers, and those whose answer is lost.
LEMMA CommitSchedule ==
    ASSUME IndInv, ScheduleInv, NEW w \in Workers,
           CommitSweep(w) \/ Acknowledge(w) \/ AmbiguousEvent(w)
    PROVE  ScheduleInv'
<1>1. SweepEffect(w) \/ AckEffect(w)
  BY DEF CommitSweep, Acknowledge, AmbiguousEvent
<1>2. /\ objects' \subseteq objects /\ UNCHANGED <<refs, passed>>
      /\ KeepsSweeps(w) /\ OrphansAreScheduled'
  BY <1>1, SweepEffectSchedule, AckEffectSchedule
<1> DEFINE next == NextIteration(w)
           failed == [Idle EXCEPT !.pc = "record", !.event = worker[w].event]
<1>3. worker' = [worker EXCEPT ![w] = next] \/ worker' = [worker EXCEPT ![w] = failed]
  BY DEF CommitSweep, Acknowledge, AmbiguousEvent, ToRecord
<1>4. /\ next.pc \notin {"lease", "snapshot", "claim", "detach"}
      /\ failed.pc \notin {"lease", "snapshot", "claim", "detach"}
  <2>1. next.pc \in {"idle", "poll_delete"} /\ failed.pc = "record"
    BY AfterEvent
  <2> HIDE DEF next, failed
  <2> QED BY <2>1
<1> HIDE DEF next, failed
<1> QED BY <1>2, <1>3, <1>4, EndSchedule

\* Every step keeps the orphans scheduled.
LEMMA NextSchedule ==
    ASSUME ~AmbiguousUploads, IndInv, ScheduleInv, [Next]_vars
    PROVE  ScheduleInv'
<1>1. ASSUME UNCHANGED vars PROVE ScheduleInv'
  <2>1. FewerOrphans /\ UNCHANGED <<outbox, worker>>
    BY <1>1 DEF vars, FewerOrphans
  <2> QED BY <2>1, ScheduleFrame
<1>2. ASSUME NEW o \in Objects,
             Publish(o) \/ CommitUpload(o) \/ FailUpload(o) \/ CrashUpload(o)
      PROVE  ScheduleInv'
  BY <1>2, UploadSchedule
<1>3. ASSUME NEW c \in Copies, ReadSource(c) \/ CopyStep(c) \/ AbortCopy(c)
      PROVE  ScheduleInv'
  BY <1>3, CopySchedule, CommitCopySchedule DEF CopyStep
<1>4. ASSUME NEW w \in Workers,
             WorkerStep(w) \/ FailEvent(w) \/ AmbiguousEvent(w) \/ CrashWorker(w)
      PROVE  ScheduleInv'
  BY <1>4, RestSchedule, PollSchedule, LeaseSchedule, ClaimSchedule, DetachSchedule,
     CommitSchedule DEF WorkerStep
<1> QED BY <1>1, <1>2, <1>3, <1>4, PurgeSchedule DEF Next, AmbiguousUpload

\* A sweep request outlives every failure and crash of a worker and every race of two
\* workers, for any batch size, any number of copies of any size and however they end:
\* an orphan without a pending sweep was passed over while a copy had it locked.
THEOREM NoOrphanForgotten ==
    ASSUME ~AmbiguousUploads PROVE Spec => []OrphansAreScheduled
<1>1. Init => ScheduleInv
  BY DEF Init, ScheduleInv, OrphansAreScheduled, InOrder, PassesOverNone,
         Sweeping, Idle
<1>2. IndInv /\ ScheduleInv /\ [Next]_vars => ScheduleInv'
  BY NextSchedule
<1>3. ScheduleInv => OrphansAreScheduled
  BY DEF ScheduleInv
<1> QED BY <1>1, <1>2, <1>3, Invariance, PTL DEF Spec
=============================================================================
