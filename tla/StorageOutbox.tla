---------------------------- MODULE StorageOutbox ----------------------------
(***************************************************************************)
(* Life of the immutable storage objects of DriveMPVD: an upload publishes *)
(* bytes and then commits the object row, copies share the object through  *)
(* further file versions, a purge removes versions and requests an orphan  *)
(* sweep, and the outbox worker detaches the row of an orphan before it    *)
(* deletes the bytes.                                                      *)
(*                                                                         *)
(* The database is PostgreSQL under READ COMMITTED.  A transaction that    *)
(* keeps locks between two statements is a process with a program counter; *)
(* its row locks are read off the state of the processes:                  *)
(*   - a copy holds FOR KEY SHARE on each object its uncommitted versions  *)
(*     reference (the foreign-key check of the INSERT);                    *)
(*   - a sweep holds FOR UPDATE on the objects it claimed;                 *)
(*   - a worker holds FOR UPDATE on the outbox event it leased.            *)
(* A file version is represented by the object it references only: refs[o] *)
(* counts the committed rows of file_versions that reference object o.     *)
(* The rows of thumbnails and previews are never written by this code      *)
(* base.                                                                   *)
(***************************************************************************)
EXTENDS Naturals, Sequences, FiniteSets

CONSTANTS
    Objects,          \* storage objects, each with the storage key of its upload
    NoObject,         \* the object of an orphan-sweep event
    Workers,          \* processes running ProcessStorageOutboxUseCase
    Copies,           \* concurrent copy requests
    EventBatchSize,   \* events one polling cycle handles
    OrphanBatchSize,  \* objects one sweep detaches
    CopySize,         \* files one copied subtree holds at most
    CopyAborts,       \* may a copy fail after it has locked an object?
    AmbiguousUploads, \* may the COMMIT of a completion take effect and yet raise?
    MaxRefs,          \* bound: versions of one object
    MaxPurges,        \* bound: purges
    MaxFaults         \* bound: injected failures and crashes

ASSUME ObjectsAssumption == NoObject \notin Objects

ASSUME BoundsAssumption ==
    /\ EventBatchSize \in Nat \ {0}
    /\ OrphanBatchSize \in Nat \ {0}
    /\ MaxRefs \in Nat
    /\ MaxPurges \in Nat
    /\ MaxFaults \in Nat
    /\ CopySize \in Nat

VARIABLES
    upload,   \* upload[o]: how far the completion that creates o has come
    blobs,    \* objects whose bytes are under objects/ on disk
    objects,  \* committed rows of storage_objects (all of them READY)
    refs,     \* refs[o]: committed file_versions rows that reference o
    outbox,   \* outbox_events in (created_at, id) order
    worker,   \* worker[w]: control state of a worker and its transaction
    copy,     \* copy[c]: control state of a copy request
    faults,   \* failures injected so far
    passed    \* history: orphans a sweep passed over because a copy had locked
              \* them, since the last purge and until a version references them

vars == <<upload, blobs, objects, refs, outbox, worker, copy, faults, passed>>

UploadStates == {"none", "published", "done", "compensated", "lost"}

Events == [type : {"sweep", "delete"}, object : Objects \cup {NoObject},
           processed : BOOLEAN]

\* Faulty variant: an event type the worker does not know.
MistypedDeleteEvent(o) == [type |-> "deleted", object |-> o, processed |-> FALSE]

\* A delete event carries the storage key of its object; a sweep names none.
SweepEvent == [type |-> "sweep", object |-> NoObject, processed |-> FALSE]
DeleteEvent(o) == [type |-> "delete", object |-> o, processed |-> FALSE]

WorkerPcs == {"idle", "poll_delete", "poll_sweep", "lease", "snapshot", "claim",
              "detach", "unlink", "ack", "record"}

WorkerStates == [pc : WorkerPcs, seen : Nat, event : Nat, orphans : SUBSET Objects,
                 locked : SUBSET Objects, todo : SUBSET Objects, more : BOOLEAN,
                 adds : Seq(Events)]

\* seen: events of this cycle; event: index of the chosen event; orphans: what
\* the statement snapshot of the claim saw; locked: rows locked FOR UPDATE;
\* todo: claimed rows not yet deleted; adds: uncommitted delete events.
Idle == [pc |-> "idle", seen |-> 0, event |-> 0, orphans |-> {}, locked |-> {},
         todo |-> {}, more |-> FALSE, adds |-> << >>]

CopyStates == [pc : {"idle", "insert"}, want : SUBSET Objects, held : SUBSET Objects]

NoCopy == [pc |-> "idle", want |-> {}, held |-> {}]

Init ==
    /\ upload = [o \in Objects |-> "none"]
    /\ blobs = {}
    /\ objects = {}
    /\ refs = [o \in Objects |-> 0]
    /\ outbox = << >>
    /\ worker = [w \in Workers |-> Idle]
    /\ copy = [c \in Copies |-> NoCopy]
    /\ faults = 0
    /\ passed = {}

-----------------------------------------------------------------------------
(* Locks and queries *)

\* Objects some worker other than w has locked FOR UPDATE.
ForUpdate(w) == UNION {worker[v].locked : v \in Workers \ {w}}

\* Objects locked FOR KEY SHARE by a copy whose versions are not committed.
KeyShared == UNION {copy[c].held : c \in Copies}

\* The row lock of an event lasts as long as the transaction that leased it.
Leasing == {"snapshot", "claim", "detach", "unlink", "ack"}
LeasedByOther(w, i) ==
    \E v \in Workers \ {w} : worker[v].pc \in Leasing /\ worker[v].event = i

Pending(i) == ~outbox[i].processed

\* The event that list(limit=1) returns for one event type: the oldest pending.
Oldest(type) ==
    {i \in DOMAIN outbox :
        /\ outbox[i].type = type
        /\ Pending(i)
        /\ \A j \in DOMAIN outbox :
             (outbox[j].type = type /\ Pending(j)) => i <= j}

\* The orphan condition, evaluated on committed rows.
IsOrphan(o) == refs[o] = 0

Fault == faults < MaxFaults /\ faults' = faults + 1

-----------------------------------------------------------------------------
(* Upload completion: bytes first, then the row and its first version *)

\* publish_upload: os.replace moves the staged bytes to the object key.
Publish(o) ==
    /\ upload[o] = "none"
    /\ upload' = [upload EXCEPT ![o] = "published"]
    /\ blobs' = blobs \cup {o}
    /\ UNCHANGED <<objects, refs, outbox, worker, copy, faults, passed>>

\* add_storage_object, add_file and the session row, committed together.
CommitUpload(o) ==
    /\ upload[o] = "published"
    /\ upload' = [upload EXCEPT ![o] = "done"]
    /\ objects' = objects \cup {o}
    /\ refs' = [refs EXCEPT ![o] = 1]
    /\ UNCHANGED <<blobs, outbox, worker, copy, faults, passed>>

\* Any error after publish_upload: the transaction rolls back and the except
\* branch deletes the published bytes.
FailUpload(o) ==
    /\ upload[o] = "published"
    /\ Fault
    /\ upload' = [upload EXCEPT ![o] = "compensated"]
    /\ blobs' = blobs \ {o}
    /\ UNCHANGED <<objects, refs, outbox, worker, copy, passed>>

\* The process stops between publish_upload and the commit.
CrashUpload(o) ==
    /\ upload[o] = "published"
    /\ Fault
    /\ upload' = [upload EXCEPT ![o] = "lost"]
    /\ UNCHANGED <<blobs, objects, refs, outbox, worker, copy, passed>>

\* The server commits, the client loses the answer, commit() raises and the
\* except branch deletes the bytes of the committed object.
AmbiguousUpload(o) ==
    /\ AmbiguousUploads
    /\ upload[o] = "published"
    /\ Fault
    /\ upload' = [upload EXCEPT ![o] = "compensated"]
    /\ objects' = objects \cup {o}
    /\ refs' = [refs EXCEPT ![o] = 1]
    /\ blobs' = blobs \ {o}
    /\ UNCHANGED <<outbox, worker, copy, passed>>

-----------------------------------------------------------------------------
(* Copy: reads versions without a lock, inserts versions of its own, commits *)

\* get_entry and the current versions of the subtree, read without FOR UPDATE.
ReadSource(c) ==
    /\ copy[c].pc = "idle"
    /\ \E want \in SUBSET {o \in Objects : refs[o] > 0} :
         /\ want # {}
         /\ Cardinality(want) <= CopySize
         /\ copy' = [copy EXCEPT ![c] = [pc |-> "insert", want |-> want, held |-> {}]]
    /\ UNCHANGED <<upload, blobs, objects, refs, outbox, worker, faults, passed>>

\* Faulty variant: no foreign key on file_versions.storage_object_id.
InsertUnchecked(c) ==
    /\ copy[c].pc = "insert"
    /\ \E o \in copy[c].want :
         copy' = [copy EXCEPT ![c] = [pc |-> "insert", want |-> copy[c].want \ {o},
                                      held |-> copy[c].held \cup {o}]]
    /\ UNCHANGED <<upload, blobs, objects, refs, outbox, worker, faults, passed>>

\* add_file: the foreign-key check waits for a FOR UPDATE lock and then either
\* locks the object FOR KEY SHARE or, with the row gone, fails the whole copy.
InsertVersion(c) ==
    /\ copy[c].pc = "insert"
    /\ \E o \in copy[c].want :
         /\ \A w \in Workers : o \notin worker[w].locked
         /\ copy' = [copy EXCEPT ![c] =
                       IF o \in objects
                         THEN [pc |-> "insert", want |-> copy[c].want \ {o},
                               held |-> copy[c].held \cup {o}]
                         ELSE NoCopy]
    /\ UNCHANGED <<upload, blobs, objects, refs, outbox, worker, faults, passed>>

CommitCopy(c) ==
    /\ copy[c].pc = "insert"
    /\ copy[c].want = {}
    /\ \A o \in copy[c].held : refs[o] < MaxRefs
    /\ refs' = [o \in Objects |-> IF o \in copy[c].held THEN refs[o] + 1 ELSE refs[o]]
    /\ copy' = [copy EXCEPT ![c] = NoCopy]
    /\ passed' = passed \ copy[c].held
    /\ UNCHANGED <<upload, blobs, objects, outbox, worker, faults>>

\* An error or a disconnect after the first insert rolls the copy back.
AbortCopy(c) ==
    /\ CopyAborts
    /\ copy[c].pc = "insert"
    /\ copy' = [copy EXCEPT ![c] = NoCopy]
    /\ UNCHANGED <<upload, blobs, objects, refs, outbox, worker, faults, passed>>

-----------------------------------------------------------------------------
(* Purge: hard_delete_subtree and the sweep request, in one transaction *)

\* Faulty variant: the purge itself deletes the bytes of what it orphans.
PurgeBytesFirst ==
    /\ Cardinality({i \in DOMAIN outbox : outbox[i].type = "sweep"}) < MaxPurges
    /\ \E dec \in [Objects -> 0 .. MaxRefs] :
         /\ \A o \in Objects : dec[o] <= refs[o]
         /\ refs' = [o \in Objects |-> refs[o] - dec[o]]
    /\ blobs' = {o \in blobs : refs[o] > 0 => refs'[o] > 0}
    /\ outbox' = Append(outbox, SweepEvent)
    /\ passed' = {}
    /\ UNCHANGED <<upload, objects, worker, copy, faults>>

\* dec[o] versions of object o belong to the purged subtree.
Purge ==
    /\ Cardinality({i \in DOMAIN outbox : outbox[i].type = "sweep"}) < MaxPurges
    /\ \E dec \in [Objects -> 0 .. MaxRefs] :
         /\ \A o \in Objects : dec[o] <= refs[o]
         /\ refs' = [o \in Objects |-> refs[o] - dec[o]]
    /\ outbox' = Append(outbox, SweepEvent)
    /\ passed' = {}
    /\ UNCHANGED <<upload, blobs, objects, worker, copy, faults>>

-----------------------------------------------------------------------------
(* Outbox worker *)

\* The CLI loop starts a polling cycle.
StartCycle(w) ==
    /\ worker[w].pc = "idle"
    /\ worker' = [worker EXCEPT ![w] = [Idle EXCEPT !.pc = "poll_delete"]]
    /\ UNCHANGED <<upload, blobs, objects, refs, outbox, copy, faults, passed>>

\* _next_pending_message looks for a delete event first, in its own transaction,
PollDeletes(w) ==
    /\ worker[w].pc = "poll_delete"
    /\ \/ \E i \in Oldest("delete") :
            worker' = [worker EXCEPT ![w].pc = "lease", ![w].event = i]
       \/ /\ Oldest("delete") = {}
          /\ worker' = [worker EXCEPT ![w].pc = "poll_sweep"]
    /\ UNCHANGED <<upload, blobs, objects, refs, outbox, copy, faults, passed>>

\* ... then for a sweep event; with neither the cycle ends.
PollSweeps(w) ==
    /\ worker[w].pc = "poll_sweep"
    /\ \/ \E i \in Oldest("sweep") :
            worker' = [worker EXCEPT ![w].pc = "lease", ![w].event = i]
       \/ /\ Oldest("sweep") = {}
          /\ worker' = [worker EXCEPT ![w] = Idle]
    /\ UNCHANGED <<upload, blobs, objects, refs, outbox, copy, faults, passed>>

\* Faulty variant: the event is read without a row lock.
LeaseUnlocked(w) ==
    /\ worker[w].pc = "lease"
    /\ LET i == worker[w].event IN
         IF Pending(i)
           THEN worker' = [worker EXCEPT ![w].pc =
                  IF outbox[i].type = "sweep" THEN "snapshot" ELSE "unlink"]
           ELSE worker' = [worker EXCEPT ![w] = Idle]
    /\ UNCHANGED <<upload, blobs, objects, refs, outbox, copy, faults, passed>>

\* get_pending_for_update(skip_locked): an event that is locked or no longer
\* pending is not claimed, and the cycle ends.
Lease(w) ==
    /\ worker[w].pc = "lease"
    /\ LET i == worker[w].event IN
         IF Pending(i) /\ ~LeasedByOther(w, i)
           THEN worker' = [worker EXCEPT ![w].pc =
                  IF outbox[i].type = "sweep" THEN "snapshot" ELSE "unlink"]
           ELSE worker' = [worker EXCEPT ![w] = Idle]
    /\ UNCHANGED <<upload, blobs, objects, refs, outbox, copy, faults, passed>>

\* claim_orphan_storage_objects evaluates the orphan condition on the snapshot
\* of its statement ...
SnapshotOrphans(w) ==
    /\ worker[w].pc = "snapshot"
    /\ worker' = [worker EXCEPT ![w].pc = "claim",
                                ![w].orphans = {o \in objects : IsOrphan(o)}]
    /\ UNCHANGED <<upload, blobs, objects, refs, outbox, copy, faults, passed>>

\* ... and then locks at most limit + 1 of those rows, skipping locked ones and
\* rows deleted meanwhile.  The row beyond the limit stays locked but unclaimed.
ClaimOrphans(w) ==
    /\ worker[w].pc = "claim"
    /\ LET free == ((worker[w].orphans \cap objects) \ ForUpdate(w)) \ KeyShared IN
         \E locked \in SUBSET free, todo \in SUBSET free :
           /\ todo \subseteq locked
           /\ Cardinality(locked) <= OrphanBatchSize + 1
           /\ locked # free => Cardinality(locked) = OrphanBatchSize + 1
           /\ Cardinality(todo) <= OrphanBatchSize
           /\ todo # locked => Cardinality(todo) = OrphanBatchSize
           /\ worker' = [worker EXCEPT ![w].pc = "detach",
                                       ![w].orphans = {},
                                       ![w].locked = locked,
                                       ![w].todo = todo,
                                       ![w].more = (todo # locked)]
    /\ passed' = passed \cup (worker[w].orphans \cap objects \cap KeyShared)
    /\ UNCHANGED <<upload, blobs, objects, refs, outbox, copy, faults>>

\* Faulty variant: the claimed row is deleted without the recheck.
DetachUnchecked(w) ==
    /\ worker[w].pc = "detach"
    /\ \E o \in worker[w].todo :
         worker' = [worker EXCEPT ![w].todo = @ \ {o},
                                  ![w].adds = Append(@, DeleteEvent(o))]
    /\ UNCHANGED <<upload, blobs, objects, refs, outbox, copy, faults, passed>>

\* delete_claimed_orphan_storage_object rechecks the orphan condition with a new
\* snapshot; a row it deletes is followed by outbox.add of the delete event.
Detach(w) ==
    /\ worker[w].pc = "detach"
    /\ \E o \in worker[w].todo :
         worker' = [worker EXCEPT ![w].todo = @ \ {o},
                      ![w].adds = IF IsOrphan(o) THEN Append(@, DeleteEvent(o)) ELSE @]
    /\ UNCHANGED <<upload, blobs, objects, refs, outbox, copy, faults, passed>>

\* A handled event uses up one iteration of the cycle.
NextIteration(w) ==
    IF worker[w].seen + 1 < EventBatchSize
      THEN [Idle EXCEPT !.pc = "poll_delete", !.seen = worker[w].seen + 1]
      ELSE Idle

Detached(w) == {worker[w].adds[k].object : k \in DOMAIN worker[w].adds}

\* Faulty variant: the delete events are not part of the sweep's transaction.
SweepWithoutEvents(w) ==
    /\ worker[w].pc = "detach"
    /\ worker[w].todo = {}
    /\ objects' = objects \ Detached(w)
    /\ outbox' = IF worker[w].more
                   THEN outbox
                   ELSE [outbox EXCEPT ![worker[w].event].processed = TRUE]
    /\ UNCHANGED <<upload, blobs, refs, copy, passed>>

\* Faulty variant: has_more is ignored and the sweep always marked processed.
SweepOnce(w) ==
    /\ worker[w].pc = "detach"
    /\ worker[w].todo = {}
    /\ objects' = objects \ Detached(w)
    /\ outbox' = [outbox EXCEPT ![worker[w].event].processed = TRUE] \o worker[w].adds
    /\ UNCHANGED <<upload, blobs, refs, copy, passed>>

\* What the commit of a sweep makes durable.  With has_more the event stays
\* pending for another round.  The foreign key of file_versions would abort the
\* deletion of a referenced row.
SweepEffect(w) ==
    /\ worker[w].pc = "detach"
    /\ worker[w].todo = {}
    /\ \A o \in Detached(w) : refs[o] = 0
    /\ objects' = objects \ Detached(w)
    /\ outbox' = (IF worker[w].more
                    THEN outbox
                    ELSE [outbox EXCEPT ![worker[w].event].processed = TRUE])
                 \o worker[w].adds
    /\ UNCHANGED <<upload, blobs, refs, copy, passed>>

CommitSweep(w) ==
    /\ SweepEffect(w)
    /\ worker' = [worker EXCEPT ![w] = NextIteration(w)]
    /\ UNCHANGED faults

\* Faulty variant: the event is acknowledged although nothing was deleted.
UnlinkNothing(w) ==
    /\ worker[w].pc = "unlink"
    /\ worker' = [worker EXCEPT ![w].pc = "ack"]
    /\ UNCHANGED <<upload, blobs, objects, refs, outbox, copy, faults, passed>>

\* storage.delete: unlink(missing_ok) succeeds also when the bytes are gone.
Unlink(w) ==
    /\ worker[w].pc = "unlink"
    /\ blobs' = blobs \ {outbox[worker[w].event].object}
    /\ worker' = [worker EXCEPT ![w].pc = "ack"]
    /\ UNCHANGED <<upload, objects, refs, outbox, copy, faults, passed>>

\* mark_processed and the commit that releases the lease.
AckEffect(w) ==
    /\ worker[w].pc = "ack"
    /\ Pending(worker[w].event)
    /\ outbox' = [outbox EXCEPT ![worker[w].event].processed = TRUE]
    /\ UNCHANGED <<upload, blobs, objects, refs, copy, passed>>

Acknowledge(w) ==
    /\ AckEffect(w)
    /\ worker' = [worker EXCEPT ![w] = NextIteration(w)]
    /\ UNCHANGED faults

\* After an exception the transaction is over and the failure is to be recorded.
ToRecord(w) == [worker EXCEPT ![w] = [Idle EXCEPT !.pc = "record",
                                                  !.event = worker[w].event]]

\* An exception inside _process_message (an I/O error of the provider, an error
\* of the database or of the commit): rollback, then _record_failure.
FailEvent(w) ==
    /\ worker[w].pc \in Leasing
    /\ Fault
    /\ worker' = ToRecord(w)
    /\ UNCHANGED <<upload, blobs, objects, refs, outbox, copy, passed>>

\* The commit took effect but raised: the failure of a finished event is recorded.
AmbiguousEvent(w) ==
    /\ Fault
    /\ SweepEffect(w) \/ AckEffect(w)
    /\ worker' = ToRecord(w)

\* record_failure updates attempts and last_error of the event if it is still
\* pending (neither steers the worker); the UPDATE waits for a lease.
RecordFailure(w) ==
    /\ worker[w].pc = "record"
    /\ ~LeasedByOther(w, worker[w].event)
    /\ worker' = [worker EXCEPT ![w] = Idle]
    /\ UNCHANGED <<upload, blobs, objects, refs, outbox, copy, faults, passed>>

\* The worker process stops anywhere: its transaction rolls back, the container
\* restarts it.  An error of _record_failure also ends here, through the CLI.
CrashWorker(w) ==
    /\ worker[w].pc # "idle"
    /\ Fault
    /\ worker' = [worker EXCEPT ![w] = Idle]
    /\ UNCHANGED <<upload, blobs, objects, refs, outbox, copy, passed>>

-----------------------------------------------------------------------------

WorkerStep(w) ==
    \/ StartCycle(w) \/ PollDeletes(w) \/ PollSweeps(w) \/ Lease(w)
    \/ SnapshotOrphans(w) \/ ClaimOrphans(w) \/ Detach(w) \/ CommitSweep(w)
    \/ Unlink(w) \/ Acknowledge(w) \/ RecordFailure(w)

CopyStep(c) == InsertVersion(c) \/ CommitCopy(c)

Next ==
    \/ \E o \in Objects : \/ Publish(o) \/ CommitUpload(o) \/ FailUpload(o)
                          \/ CrashUpload(o) \/ AmbiguousUpload(o)
    \/ \E c \in Copies : ReadSource(c) \/ CopyStep(c) \/ AbortCopy(c)
    \/ Purge
    \/ \E w \in Workers : WorkerStep(w) \/ FailEvent(w) \/ AmbiguousEvent(w)
                                        \/ CrashWorker(w)

Spec == Init /\ [][Next]_vars

\* The worker is a loop that never waits for anything but its own statements, and a
\* started copy ends: it commits, or an error, a disconnect or statement_timeout
\* rolls it back.
FairSpec ==
    /\ Spec
    /\ \A w \in Workers : WF_vars(WorkerStep(w))
    /\ \A c \in Copies : WF_vars(CopyStep(c) \/ AbortCopy(c))

-----------------------------------------------------------------------------
(* Properties *)

\* Every variable has its type.
TypeOK ==
    /\ upload \in [Objects -> UploadStates]
    /\ blobs \subseteq Objects
    /\ objects \subseteq Objects
    /\ refs \in [Objects -> Nat]
    /\ outbox \in Seq(Events)
    /\ worker \in [Workers -> WorkerStates]
    /\ copy \in [Copies -> CopyStates]
    /\ faults \in Nat
    /\ passed \subseteq Objects

\* "It can never remove bytes that a committed database reference still needs"
\* (ProcessStorageOutboxUseCase): a committed file version has its object row,
\* and every object row has its bytes, whatever copies, purges, sweeps, retries
\* and crashes interleave.
CommittedBytesExist ==
    /\ \A o \in Objects : refs[o] > 0 => o \in objects
    /\ objects \subseteq blobs

\* Detach before delete: an object with a physical-delete event, pending or not,
\* has no row left, and once the event is processed its bytes are gone.
DeleteEventsAreFinal ==
    \A i \in DOMAIN outbox : outbox[i].type = "delete" =>
        /\ outbox[i].object \notin objects
        /\ outbox[i].processed => outbox[i].object \notin blobs

\* The recheck of delete_claimed_orphan_storage_object, under the claim's lock,
\* is enough: no row a sweep has deleted can gain a version before the commit,
\* so the foreign key never aborts a sweep.
SweepsKeepForeignKey ==
    \A w \in Workers : worker[w].pc = "detach" =>
        \A o \in Detached(w) : o \in objects /\ refs[o] = 0

\* "The leased storage outbox event was lost." is never raised: a leased event
\* stays pending and is leased by one worker.
LeaseHolds ==
    \A w \in Workers : worker[w].pc \in Leasing =>
        /\ Pending(worker[w].event)
        /\ ~LeasedByOther(w, worker[w].event)

\* No bytes escape the bookkeeping: bytes of a completed upload are behind a row
\* or wait for a pending delete event, also after failures and crashes of workers.
BytesAccountedFor ==
    \A o \in blobs : upload[o] = "done" =>
        \/ o \in objects
        \/ \E i \in DOMAIN outbox : outbox[i] = DeleteEvent(o)

\* A sweep request is kept until it has done its work, whatever workers crash, fail,
\* race or lose the answer of a commit, and however copies end: an orphan without a
\* pending sweep is one that a sweep passed over while a copy had its row locked
\* (SKIP LOCKED in claim_orphan_storage_objects), and nothing else is forgotten.
OrphansAreScheduled ==
    \A o \in objects : refs[o] = 0 =>
        \/ \E i \in DOMAIN outbox : outbox[i] = SweepEvent
        \/ o \in passed

\* Cleanup of an orphan ends: its bytes are deleted, a copy that had already read
\* the file references them again, or a sweep passed it over while a copy had its
\* row locked, the one case in which only the sweep of a later purge finds it.
OrphansAreReclaimed ==
    \A o \in Objects :
        (upload[o] = "done" /\ refs[o] = 0) ~>
            (o \notin blobs \/ refs[o] > 0 \/ o \in passed)

\* The same without the exception.  It does not hold: a copy that is rolled back
\* after a sweep has passed over its source leaves the bytes on disk for good
\* (StorageOutboxSkippedSweep.cfg).
EveryOrphanIsReclaimed ==
    \A o \in Objects :
        (upload[o] = "done" /\ refs[o] = 0) ~> (o \notin blobs \/ refs[o] > 0)

-----------------------------------------------------------------------------
(* Refinement *)

\* The phase of an object, read off the database and the disk.  A row without
\* bytes, or bytes of a completed upload that neither a row nor a pending delete
\* event accounts for, is no phase of a lifecycle.
PhaseOf(o) ==
    IF o \in objects THEN (IF o \in blobs THEN "live" ELSE "dangling")
    ELSE IF o \notin blobs THEN (IF upload[o] = "none" THEN "absent" ELSE "gone")
    ELSE IF upload[o] \in {"published", "lost"} THEN "staged"
    ELSE IF \E i \in DOMAIN outbox : outbox[i] = DeleteEvent(o) THEN "detached"
    ELSE "leaked"

Lifecycle == INSTANCE ObjectLifecycle WITH phase <- [o \in Objects |-> PhaseOf(o)]

\* Uploads, copies, purges and the two-phase worker implement the lifecycle: with
\* commits whose outcome is known, no interleaving, retry or crash takes an object
\* through any other transition.
ImplementsLifecycle == Lifecycle!Spec
=============================================================================
