------------------------------- MODULE Uploads -------------------------------
(***************************************************************************)
(* One resumable upload: its session row, its staging file and the object  *)
(* file it becomes.  Requests to start, append a chunk, complete and       *)
(* cancel may overlap (a client that timed out retries, a second tab       *)
(* resumes); SELECT ... FOR UPDATE on the session row serialises their     *)
(* transactions, but each of them touches files after its transaction is   *)
(* over: append truncates, complete deletes, cancel and start discard.     *)
(*                                                                         *)
(* A file is the sequence of its bytes.  The client's file holds byte i at *)
(* position i, so a stored byte is right when it equals its position; 0 is *)
(* the hole that extending a file leaves.  Checks that only reject a       *)
(* request (ownership, policy, MIME, scanner, name and parent of the       *)
(* destination) are the freedom of a request to fail before it acts.       *)
(***************************************************************************)
EXTENDS Naturals, Sequences

CONSTANTS
    Requests,         \* requests being served at the same time
    MaxSize,          \* bound: size of the uploaded file
    NoFile,           \* the content of a file that does not exist
    AmbiguousCommits  \* may a COMMIT take effect and yet raise?

ASSUME SizeAssumption == MaxSize \in Nat

VARIABLES
    status,    \* status of the session row; "none" and "gone" without a row
    expected,  \* expected_size
    uploaded,  \* uploaded_bytes, the confirmed offset
    expired,   \* is expires_at in the past?
    staging,   \* content of staging/<id>.part
    object,    \* content of objects/<key>
    req,       \* req[r]: control state of a request
    raced,     \* ghost: the commit of a start or an append was ambiguous, or an append
               \* was admitted while the truncation of another one was still pending
    unsure,    \* ghost: the commit of a completion took effect and yet raised
    crashed    \* ghost: a process has stopped in the middle of a request

vars == <<status, expected, uploaded, expired, staging, object, req, raced, unsure, crashed>>

Statuses == {"none", "created", "uploading", "completed", "cancelled", "gone"}

Pcs == {"idle", "start", "write", "commit", "truncate", "cut", "publish", "replace",
        "finish", "compensate", "discard"}

Sizes == 0 .. MaxSize

Contents == UNION {[1 .. n -> Sizes] : n \in Sizes}

ASSUME FileAssumption == NoFile \notin Contents

\* base: the confirmed offset the request found; pos: position of its file handle.
RequestStates == [pc : Pcs, base : Sizes, pos : Sizes]

Idle == [pc |-> "idle", base |-> 0, pos |-> 0]

Init ==
    /\ status = "none"
    /\ expected = 0
    /\ uploaded = 0
    /\ expired = FALSE
    /\ staging = NoFile
    /\ object = NoFile
    /\ req = [r \in Requests |-> Idle]
    /\ raced = FALSE
    /\ unsure = FALSE
    /\ crashed = FALSE

-----------------------------------------------------------------------------

\* The session row is locked from its SELECT FOR UPDATE to the end of the
\* transaction; what a request does to files afterwards is not covered.
RowFree ==
    \A r \in Requests : req[r].pc \notin {"write", "commit", "publish", "replace", "finish"}

\* _require_writable
Writable == status \in {"created", "uploading"} /\ ~expired

\* ftruncate(n): cuts the file or extends it with zeros.  A file that was unlinked
\* under its handle stays unlinked.
Resize(file, n) ==
    IF file = NoFile THEN NoFile
    ELSE [i \in 1 .. n |-> IF i <= Len(file) THEN file[i] ELSE 0]

\* One byte of the client's file, written at the position after pos.
WriteAt(file, pos) ==
    IF file = NoFile THEN NoFile
    ELSE [i \in 1 .. (IF pos < Len(file) THEN Len(file) ELSE pos + 1) |->
            IF i = pos + 1 THEN i ELSE IF i <= Len(file) THEN file[i] ELSE 0]

Goto(r, pc) == req' = [req EXCEPT ![r].pc = pc]

Done(r) == req' = [req EXCEPT ![r] = Idle]

Row == <<status, expected, uploaded, expired>>

-----------------------------------------------------------------------------
(* Start *)

\* create_upload creates the empty staging file before the row is committed.
BeginStart(r) ==
    /\ status = "none" /\ staging = NoFile
    /\ req[r] = Idle
    /\ staging' = << >>
    /\ Goto(r, "start")
    /\ UNCHANGED <<Row, object, raced, unsure, crashed>>

CommitStart(r) ==
    /\ req[r].pc = "start"
    /\ status' = "created"
    /\ \E n \in Sizes : expected' = n
    /\ Done(r)
    /\ UNCHANGED <<uploaded, expired, staging, object, raced, unsure, crashed>>

\* Any error: the except branch discards the staging file.
FailStart(r) ==
    /\ req[r].pc = "start"
    /\ Goto(r, "discard")
    /\ UNCHANGED <<Row, staging, object, raced, unsure, crashed>>

\* The row is committed but commit() raises: a session without a staging file.
AmbiguousStart(r) ==
    /\ AmbiguousCommits
    /\ req[r].pc = "start"
    /\ status' = "created"
    /\ \E n \in Sizes : expected' = n
    /\ Goto(r, "discard")
    /\ raced' = TRUE
    /\ UNCHANGED <<uploaded, expired, staging, object, unsure, crashed>>

-----------------------------------------------------------------------------
(* Append *)

\* The row is locked and the client's offset equals uploaded_bytes.  append_chunk
\* opens the staging file; one of another size is resized to the offset and the
\* request fails.  Without a staging file it fails at once.
BeginAppend(r) ==
    /\ req[r] = Idle
    /\ RowFree
    /\ Writable
    /\ staging # NoFile
    /\ \/ /\ Len(staging) = uploaded
          /\ req' = [req EXCEPT ![r] = [pc |-> "write", base |-> uploaded, pos |-> uploaded]]
          /\ UNCHANGED staging
       \/ /\ Len(staging) # uploaded
          /\ staging' = Resize(staging, uploaded)
          /\ UNCHANGED req
    /\ raced' = (raced \/ \E q \in Requests : req[q].pc \in {"truncate", "cut"})
    /\ UNCHANGED <<Row, object, unsure, crashed>>

\* Faulty variant: set_remaining is not called.
WriteUnbounded(r) ==
    /\ req[r].pc = "write"
    /\ staging' = WriteAt(staging, req[r].pos)
    /\ req' = [req EXCEPT ![r].pos = @ + 1]
    /\ UNCHANGED <<Row, object, raced, unsure, crashed>>

\* The bounded stream yields no byte beyond expected_size.
WriteByte(r) ==
    /\ req[r].pc = "write"
    /\ req[r].pos < expected
    /\ staging' = WriteAt(staging, req[r].pos)
    /\ req' = [req EXCEPT ![r].pos = @ + 1]
    /\ UNCHANGED <<Row, object, raced, unsure, crashed>>

\* The stream fails (disconnect, too many bytes): no handler truncates, the
\* transaction rolls back.
FailStream(r) ==
    /\ req[r].pc = "write"
    /\ Done(r)
    /\ UNCHANGED <<Row, staging, object, raced, unsure, crashed>>

\* A write or the fsync fails: append_chunk truncates under the row lock.
FailWrite(r) ==
    /\ req[r].pc = "write"
    /\ staging' = Resize(staging, req[r].base)
    /\ Done(r)
    /\ UNCHANGED <<Row, object, raced, unsure, crashed>>

\* The chunk is persisted.  An empty one, or a file that is not as long as the
\* bytes received make it, is an error after append_completed.
EndChunk(r) ==
    /\ req[r].pc = "write"
    /\ Goto(r, IF \/ req[r].pos = req[r].base
                  \/ staging # NoFile /\ Len(staging) # req[r].pos
                 THEN "truncate" ELSE "commit")
    /\ UNCHANGED <<Row, staging, object, raced, unsure, crashed>>

\* record_progress, save_upload_session and the commit.
CommitAppend(r) ==
    /\ req[r].pc = "commit"
    /\ uploaded' = req[r].pos
    /\ status' = "uploading"
    /\ Done(r)
    /\ UNCHANGED <<expected, expired, staging, object, raced, unsure, crashed>>

\* The commit fails: the rollback releases the row before the except branch runs.
FailAppend(r) ==
    /\ req[r].pc = "commit"
    /\ Goto(r, "truncate")
    /\ UNCHANGED <<Row, staging, object, raced, unsure, crashed>>

\* The server commits but commit() raises.
AmbiguousAppend(r) ==
    /\ AmbiguousCommits
    /\ req[r].pc = "commit"
    /\ uploaded' = req[r].pos
    /\ status' = "uploading"
    /\ Goto(r, "truncate")
    /\ raced' = TRUE
    /\ UNCHANGED <<expected, expired, staging, object, unsure, crashed>>

\* truncate_upload, outside of any transaction: the open fails without a staging file.
OpenStaging(r) ==
    /\ req[r].pc = "truncate"
    /\ IF staging = NoFile THEN Done(r) ELSE Goto(r, "cut")
    /\ UNCHANGED <<Row, staging, object, raced, unsure, crashed>>

\* Faulty variant: the compensation truncates to zero, not to the previous offset.
TruncateToZero(r) ==
    /\ req[r].pc = "cut"
    /\ staging' = Resize(staging, 0)
    /\ object' = Resize(object, 0)
    /\ Done(r)
    /\ UNCHANGED <<Row, raced, unsure, crashed>>

\* ... and ftruncate(previous_offset) through the handle, which stays with the file
\* when a completion renames it: the file is the staging file, the object or unlinked.
TruncateAppend(r) ==
    /\ req[r].pc = "cut"
    /\ staging' = Resize(staging, req[r].base)
    /\ object' = Resize(object, req[r].base)
    /\ Done(r)
    /\ UNCHANGED <<Row, raced, unsure, crashed>>

-----------------------------------------------------------------------------
(* Complete *)

\* The row is locked, all bytes are confirmed and the staging file has their size.
BeginComplete(r) ==
    /\ req[r] = Idle
    /\ RowFree
    /\ Writable
    /\ uploaded = expected
    /\ staging # NoFile
    /\ Len(staging) = expected
    /\ Goto(r, "publish")
    /\ UNCHANGED <<Row, staging, object, raced, unsure, crashed>>

\* publish_upload compares the size once more.
CheckSize(r) ==
    /\ req[r].pc = "publish"
    /\ staging # NoFile
    /\ Len(staging) = expected
    /\ Goto(r, "replace")
    /\ UNCHANGED <<Row, staging, object, raced, unsure, crashed>>

\* Faulty variant: the bytes are copied over whatever the object key holds.
PublishCopy(r) ==
    /\ req[r].pc = "replace"
    /\ staging # NoFile
    /\ object' = staging
    /\ Goto(r, "finish")
    /\ UNCHANGED <<Row, staging, raced, unsure, crashed>>

\* No object of that key, then os.replace.  (Only a completion creates the object
\* and the row lock admits one, so nothing can come between the two calls.)
PublishUpload(r) ==
    /\ req[r].pc = "replace"
    /\ staging # NoFile
    /\ object = NoFile
    /\ object' = staging
    /\ staging' = NoFile
    /\ Goto(r, "finish")
    /\ UNCHANGED <<Row, raced, unsure, crashed>>

\* Rejected before publish_upload, or by it before os.replace; or a directory fsync
\* fails after os.replace, when published_key is not set and nobody compensates.
RejectComplete(r) ==
    /\ req[r].pc \in {"publish", "replace", "finish"}
    /\ Done(r)
    /\ UNCHANGED <<Row, staging, object, raced, unsure, crashed>>

CommitComplete(r) ==
    /\ req[r].pc = "finish"
    /\ status' = "completed"
    /\ Done(r)
    /\ UNCHANGED <<expected, uploaded, expired, staging, object, raced, unsure, crashed>>

\* An error after publish_upload: the rollback releases the row first.
FailComplete(r) ==
    /\ req[r].pc = "finish"
    /\ Goto(r, "compensate")
    /\ UNCHANGED <<Row, staging, object, raced, unsure, crashed>>

\* The server commits but commit() raises: the except branch will delete the object.
AmbiguousComplete(r) ==
    /\ AmbiguousCommits
    /\ req[r].pc = "finish"
    /\ status' = "completed"
    /\ Goto(r, "compensate")
    /\ unsure' = TRUE
    /\ UNCHANGED <<expected, uploaded, expired, staging, object, raced, crashed>>

\* storage.delete(published_key), outside of any transaction.
Compensate(r) ==
    /\ req[r].pc = "compensate"
    /\ object' = NoFile
    /\ Done(r)
    /\ UNCHANGED <<Row, staging, raced, unsure, crashed>>

-----------------------------------------------------------------------------
(* Cancel *)

\* Faulty variant: a completed upload can be cancelled.
CancelAny(r) ==
    /\ req[r] = Idle
    /\ RowFree
    /\ status \in {"created", "uploading", "cancelled", "completed"}
    /\ status' = "cancelled"
    /\ Goto(r, "discard")
    /\ UNCHANGED <<expected, uploaded, expired, staging, object, raced, unsure, crashed>>

\* Locks the row, refuses a completed upload, commits; also for an expired one.
Cancel(r) ==
    /\ req[r] = Idle
    /\ RowFree
    /\ status \in {"created", "uploading", "cancelled"}
    /\ status' = "cancelled"
    /\ Goto(r, "discard")
    /\ UNCHANGED <<expected, uploaded, expired, staging, object, raced, unsure, crashed>>

\* Faulty variant: only the row is changed.
DiscardNothing(r) ==
    /\ req[r].pc = "discard"
    /\ Done(r)
    /\ UNCHANGED <<Row, staging, object, raced, unsure, crashed>>

\* discard_upload, after the transaction of cancel or of a failed start.
Discard(r) ==
    /\ req[r].pc = "discard"
    /\ staging' = NoFile
    /\ Done(r)
    /\ UNCHANGED <<Row, object, raced, unsure, crashed>>

-----------------------------------------------------------------------------
(* Environment *)

\* The process serving the request stops; its transaction rolls back.  A cancel
\* whose commit takes effect and yet raises skips its discard in the same way.
Crash(r) ==
    /\ req[r] # Idle
    /\ Done(r)
    /\ crashed' = TRUE
    /\ UNCHANGED <<Row, staging, object, raced, unsure>>

\* expires_at passes.  No code path ever writes the status EXPIRED.
Expire ==
    /\ status # "none" /\ ~expired
    /\ expired' = TRUE
    /\ UNCHANGED <<status, expected, uploaded, staging, object, req, raced, unsure, crashed>>

\* The folder of the session is purged: its foreign key cascades to the row.
PurgeParent ==
    /\ status \notin {"none", "gone"}
    /\ RowFree
    /\ status' = "gone"
    /\ UNCHANGED <<expected, uploaded, expired, staging, object, req, raced, unsure, crashed>>

Next ==
    \/ \E r \in Requests :
         \/ BeginStart(r) \/ CommitStart(r) \/ FailStart(r) \/ AmbiguousStart(r)
         \/ BeginAppend(r) \/ WriteByte(r) \/ FailStream(r) \/ FailWrite(r)
         \/ EndChunk(r) \/ CommitAppend(r) \/ FailAppend(r) \/ AmbiguousAppend(r)
         \/ OpenStaging(r) \/ TruncateAppend(r)
         \/ BeginComplete(r) \/ CheckSize(r) \/ PublishUpload(r) \/ RejectComplete(r)
         \/ CommitComplete(r) \/ FailComplete(r) \/ AmbiguousComplete(r) \/ Compensate(r)
         \/ Cancel(r) \/ Discard(r)
         \/ Crash(r)
    \/ Expire
    \/ PurgeParent

Spec == Init /\ [][Next]_vars

-----------------------------------------------------------------------------
(* Properties *)

\* Every variable has its type.
TypeOK ==
    /\ status \in Statuses
    /\ expected \in Sizes
    /\ uploaded \in Sizes
    /\ {expired, raced, unsure, crashed} \subseteq BOOLEAN
    /\ staging = NoFile \/ staging \in Contents
    /\ object = NoFile \/ object \in Contents
    /\ req \in [Requests -> RequestStates]

\* The first n bytes of a file are the client's.
HasPrefix(file, n) == Len(file) >= n /\ \A i \in 1 .. n : file[i] = i

\* The offset is confirmed only after bytes and metadata are persisted (STORAGE.md):
\* whatever streams, writes, commits and processes fail, the staging file holds
\* every confirmed byte until it is published, as long as no append is admitted
\* before the truncation of a failed one.
ConfirmedBytesStaged ==
    (status \in {"created", "uploading"} /\ ~raced) =>
        IF staging = NoFile THEN uploaded = expected ELSE HasPrefix(staging, uploaded)

\* Late compensations of overlapping requests never hit the object of a completion
\* that committed and knows it: neither the delete of a failed completion nor a
\* truncation through a handle opened before the rename.  A completed upload has its
\* object unless the commit of the completion raised, and the object holds the
\* client's bytes unless an append was admitted before a pending truncation.
CompletedHasObject ==
    (status = "completed" /\ ~unsure) =>
        /\ object # NoFile
        /\ raced \/ (Len(object) = expected /\ HasPrefix(object, expected))

\* What is published is what the client sent.
PublishedIntact ==
    status = "completed" => object # NoFile /\ HasPrefix(object, expected)

\* "cancelled ... uploads leave no staging files" (test_storage_api.py): a cancelled
\* upload has no staging file once its requests are answered, unless a process died.
CancelledLeavesNoStaging ==
    (status = "cancelled" /\ staging # NoFile) =>
        crashed \/ \E r \in Requests : req[r].pc = "discard"

\* A session never leaves completed or cancelled (but its row can go with the
\* folder), and a confirmed offset is never taken back.
SessionsOnlyAdvance ==
    [][/\ status \in {"completed", "cancelled"} => status' \in {status, "gone"}
       /\ uploaded' >= uploaded]_vars
=============================================================================
