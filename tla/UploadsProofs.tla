---------------------------- MODULE UploadsProofs ----------------------------
(***************************************************************************)
(* Proofs about Uploads, for every number of overlapping requests, every   *)
(* file size and with or without ambiguous commits.                        *)
(*                                                                         *)
(* The row lock orders the transactions, not what requests do to files     *)
(* after they have released it.  The strengthening says which of these     *)
(* late actions can be pending in which state of the session, and what the *)
(* holder of the row still knows about the row and the files.              *)
(***************************************************************************)
EXTENDS Uploads, TLAPS

-----------------------------------------------------------------------------
(* The inductive invariant *)

Open == status \in {"created", "uploading"}

Locks(r) == req[r].pc \in {"write", "commit", "publish", "replace", "finish"}

\* One request holds the session row, and the session is open while it does.
RowLock ==
    \A r \in Requests : Locks(r) =>
        Open /\ \A q \in Requests : Locks(q) => q = r

\* Before there is a row, at most one request is active: it starts the upload or
\* discards the staging file it made.
BeforeRow ==
    /\ \A r \in Requests : req[r].pc = "start" => status = "none"
    /\ status = "none" =>
         /\ uploaded = 0
         /\ \A r \in Requests : req[r].pc # "idle" =>
              /\ req[r].pc \in {"start", "discard"} /\ staging # NoFile
              /\ \A q \in Requests : req[q].pc # "idle" => q = r

\* An append that holds the row started at the confirmed offset; a completion that
\* holds it has found every byte confirmed.
HolderKnows ==
    \A r \in Requests :
        /\ req[r].pc \in {"write", "commit"} =>
             req[r].base = uploaded /\ uploaded <= req[r].pos
        /\ req[r].pc \in {"publish", "replace", "finish"} => uploaded = expected

\* The object is the uploaded file, unless raced.
ObjectRight ==
    /\ object # NoFile
    /\ raced \/ (Len(object) = expected /\ HasPrefix(object, expected))

\* A staging file is published once: whoever published it is alone, and a later
\* compensation can only be its own.
PublishedOnce ==
    /\ \A r \in Requests : req[r].pc \in {"finish", "compensate"} =>
         /\ staging = NoFile /\ (status # "completed" \/ unsure)
         /\ \A q \in Requests : req[q].pc \in {"finish", "compensate"} => q = r
    /\ \A r \in Requests : req[r].pc = "finish" => ObjectRight
    /\ status = "completed" => staging = NoFile /\ uploaded = expected

\* As long as nothing has raced, a pending truncation cuts at the confirmed offset,
\* no discard threatens an open session, a completion renames the file it has
\* measured, and an append meets no truncation and has written the client's bytes up
\* to its position.
NothingRaced ==
    /\ (Open \/ status = "completed") /\ ~raced =>
         \A r \in Requests : req[r].pc \in {"truncate", "cut"} => req[r].base = uploaded
    /\ Open /\ ~raced =>
         \A r \in Requests :
            /\ req[r].pc # "discard"
            /\ req[r].pc = "replace" => staging # NoFile /\ Len(staging) = expected
            /\ req[r].pc \in {"write", "commit"} =>
                 /\ staging # NoFile /\ HasPrefix(staging, req[r].pos)
                 /\ \A q \in Requests : req[q].pc \notin {"truncate", "cut"}

IndInv ==
    /\ TypeOK /\ RowLock /\ BeforeRow /\ HolderKnows /\ PublishedOnce /\ NothingRaced
    /\ ConfirmedBytesStaged /\ CompletedHasObject /\ CancelledLeavesNoStaging

-----------------------------------------------------------------------------
(* Files *)

\* A content is a sequence, and determined as a function by its length.
LEMMA ContentsAreFiles ==
    ASSUME NEW f \in Contents
    PROVE  /\ Len(f) \in Sizes /\ f \in [1 .. Len(f) -> Sizes]
           /\ f # NoFile
  <1>1. PICK n \in Sizes : f \in [1 .. n -> Sizes]
    BY DEF Contents
  <1>2. n \in Nat /\ Len(f) = n
    BY <1>1, SizeAssumption DEF SizeAssumption, Sizes
  <1> QED
    BY <1>1, <1>2, FileAssumption DEF FileAssumption

\* A function on 1..n is a content of length n.
LEMMA FilesAreContents ==
    ASSUME NEW n \in Sizes, NEW f \in [1 .. n -> Sizes]
    PROVE  f \in Contents /\ Len(f) = n
  <1>1. n \in Nat
    BY SizeAssumption DEF SizeAssumption, Sizes
  <1> QED
    BY <1>1 DEF Contents

\* ftruncate gives a file its length and keeps every byte below it.
LEMMA ResizeLemma ==
    ASSUME NEW f \in Contents, NEW n \in Sizes
    PROVE  /\ Resize(f, n) \in Contents /\ Resize(f, n) # NoFile /\ Len(Resize(f, n)) = n
           /\ \A m \in Sizes : m <= n /\ HasPrefix(f, m) => HasPrefix(Resize(f, n), m)
  <1> DEFINE g == [i \in 1 .. n |-> IF i <= Len(f) THEN f[i] ELSE 0]
  <1>1. Len(f) \in Sizes /\ f \in [1 .. Len(f) -> Sizes] /\ f # NoFile
    BY ContentsAreFiles
  <1>2. n \in Nat /\ Len(f) \in Nat /\ 0 \in Sizes
    BY <1>1, SizeAssumption DEF SizeAssumption, Sizes
  <1>3. g \in [1 .. n -> Sizes]
    BY <1>1, <1>2
  <1>4. g \in Contents /\ Len(g) = n
    BY <1>3, FilesAreContents
  <1>5. Resize(f, n) = g /\ g # NoFile
    BY <1>1, <1>4, ContentsAreFiles DEF Resize
  <1>6. ASSUME NEW m \in Sizes, m <= n, HasPrefix(f, m) PROVE HasPrefix(g, m)
    <2>1. m \in Nat /\ Len(g) >= m
      BY <1>2, <1>4, <1>6 DEF Sizes
    <2>2. ASSUME NEW i \in 1 .. m PROVE g[i] = i
      BY <1>2, <1>6, <2>1 DEF HasPrefix
    <2> QED
      BY <2>1, <2>2 DEF HasPrefix
  <1> QED
    BY <1>4, <1>5, <1>6

\* Writing the client's next byte keeps the right bytes right and adds one.
LEMMA WriteLemma ==
    ASSUME NEW f \in Contents, NEW pos \in Sizes, pos < MaxSize
    PROVE  /\ WriteAt(f, pos) \in Contents /\ WriteAt(f, pos) # NoFile
           /\ \A m \in Sizes : HasPrefix(f, m) => HasPrefix(WriteAt(f, pos), m)
           /\ HasPrefix(f, pos) => HasPrefix(WriteAt(f, pos), pos + 1)
  <1> DEFINE n == IF pos < Len(f) THEN Len(f) ELSE pos + 1
             g == [i \in 1 .. n |-> IF i = pos + 1 THEN i ELSE IF i <= Len(f) THEN f[i] ELSE 0]
  <1>1. Len(f) \in Sizes /\ f \in [1 .. Len(f) -> Sizes] /\ f # NoFile
    BY ContentsAreFiles
  <1>2. /\ pos \in Nat /\ Len(f) \in Nat /\ 0 \in Sizes /\ pos + 1 \in Sizes
        /\ n \in Sizes /\ n \in Nat /\ n >= pos + 1 /\ n >= Len(f)
    BY <1>1, SizeAssumption DEF SizeAssumption, Sizes
  <1>3. g \in [1 .. n -> Sizes]
    <2> HIDE DEF n
    <2> QED BY <1>1, <1>2
  <1>4. g \in Contents /\ Len(g) = n
    BY <1>2, <1>3, FilesAreContents
  <1>5. WriteAt(f, pos) = g /\ g # NoFile
    BY <1>1, <1>4, ContentsAreFiles DEF WriteAt
  <1> HIDE DEF n
  <1>6. ASSUME NEW m \in Sizes, HasPrefix(f, m) PROVE HasPrefix(g, m)
    <2>1. m \in Nat /\ Len(g) >= m /\ Len(f) >= m
      BY <1>2, <1>4, <1>6 DEF Sizes, HasPrefix
    <2>2. ASSUME NEW i \in 1 .. m PROVE g[i] = i
      BY <1>2, <1>6, <2>1 DEF HasPrefix
    <2> QED
      BY <2>1, <2>2 DEF HasPrefix
  <1>7. ASSUME HasPrefix(f, pos) PROVE HasPrefix(g, pos + 1)
    <2>1. ASSUME NEW i \in 1 .. pos + 1 PROVE g[i] = i
      BY <1>2, <1>7 DEF HasPrefix
    <2> QED
      BY <1>2, <1>4, <2>1 DEF HasPrefix
  <1> QED
    BY <1>4, <1>5, <1>6, <1>7

-----------------------------------------------------------------------------
(* Control *)

\* A request moves on and keeps what it carries.
LEMMA GotoLemma ==
    ASSUME TypeOK, NEW r \in Requests, NEW pc \in Pcs, Goto(r, pc)
    PROVE  /\ req' \in [Requests -> RequestStates]
           /\ req'[r].pc = pc /\ req'[r].base = req[r].base /\ req'[r].pos = req[r].pos
           /\ \A q \in Requests \ {r} : req'[q] = req[q]
    BY DEF Goto, TypeOK, RequestStates

\* A request is answered.
LEMMA DoneLemma ==
    ASSUME TypeOK, NEW r \in Requests, Done(r)
    PROVE  /\ req' \in [Requests -> RequestStates] /\ req'[r].pc = "idle"
           /\ \A q \in Requests \ {r} : req'[q] = req[q]
    BY SizeAssumption DEF SizeAssumption, Done, TypeOK, RequestStates, Idle, Pcs, Sizes

\* A file of the session is a content or does not exist.
LEMMA FileTypes ==
    ASSUME TypeOK
    PROVE  /\ staging # NoFile => staging \in Contents
           /\ object # NoFile => object \in Contents
    BY DEF TypeOK

\* Initially there is nothing.
LEMMA InitInv == Init => IndInv
  <1> SUFFICES ASSUME Init PROVE IndInv
    OBVIOUS
  <1>1. Idle \in RequestStates /\ 0 \in Sizes /\ Idle.pc = "idle"
    BY SizeAssumption DEF SizeAssumption, Idle, RequestStates, Pcs, Sizes
  <1> QED
    BY <1>1
    DEF Init, Statuses, IndInv, TypeOK, RowLock, Locks, Open, BeforeRow, HolderKnows, PublishedOnce, NothingRaced,
        ConfirmedBytesStaged, CompletedHasObject, ObjectRight, CancelledLeavesNoStaging

-----------------------------------------------------------------------------
(* Each action preserves the invariant *)

\* A request ends without touching the row or a file: a failed stream, a rejected
\* completion, a crash.
LEMMA LeaveInv ==
    ASSUME IndInv, NEW r \in Requests, Done(r), UNCHANGED <<Row, staging, object, raced, unsure>>,
           crashed' \in BOOLEAN, crashed => crashed', crashed' \/ req[r].pc # "discard"
    PROVE  IndInv'
  <1>1. /\ req' \in [Requests -> RequestStates] /\ req'[r].pc = "idle"
        /\ \A q \in Requests \ {r} : req'[q] = req[q]
    BY DoneLemma DEF IndInv
  <1>2. /\ status' = status /\ expected' = expected /\ uploaded' = uploaded
        /\ expired' = expired /\ staging' = staging /\ object' = object /\ raced' = raced
        /\ unsure' = unsure
    BY DEF Row
  <1> QED
    BY <1>1, <1>2
    DEF IndInv, TypeOK, RowLock, Locks, Open, BeforeRow, HolderKnows, PublishedOnce, NothingRaced,
        ConfirmedBytesStaged, CompletedHasObject, ObjectRight, CancelledLeavesNoStaging

\* create_upload makes the staging file.
LEMMA BeginStartInv ==
    ASSUME IndInv, NEW r \in Requests, BeginStart(r)
    PROVE  IndInv'
  <1>1. /\ req' \in [Requests -> RequestStates] /\ req'[r].pc = "start"
        /\ \A q \in Requests \ {r} : req'[q] = req[q]
    BY GotoLemma DEF BeginStart, IndInv, Pcs
  <1>2. << >> \in Contents /\ << >> # NoFile
    <2>1. 0 \in Sizes /\ << >> \in [1 .. 0 -> Sizes]
      BY SizeAssumption DEF SizeAssumption, Sizes
    <2> QED
      BY <2>1, FilesAreContents, ContentsAreFiles
  <1>3. /\ status = "none" /\ staging = NoFile /\ staging' = << >>
        /\ status' = status /\ expected' = expected /\ uploaded' = uploaded
        /\ expired' = expired /\ object' = object /\ raced' = raced
        /\ unsure' = unsure /\ crashed' = crashed
    BY DEF BeginStart, Row
  <1> QED
    BY <1>1, <1>2, <1>3
    DEF IndInv, TypeOK, RowLock, Locks, Open, BeforeRow, HolderKnows, PublishedOnce, NothingRaced,
        ConfirmedBytesStaged, CompletedHasObject, ObjectRight, CancelledLeavesNoStaging

\* The row appears: nothing is uploaded yet and nobody else is active.
LEMMA StartInv ==
    ASSUME IndInv, NEW r \in Requests, CommitStart(r) \/ AmbiguousStart(r)
    PROVE  IndInv'
  <1>1. /\ req' \in [Requests -> RequestStates]
        /\ \/ req'[r].pc = "idle" /\ raced' = raced
           \/ req'[r].pc = "discard" /\ raced' = TRUE
        /\ \A q \in Requests \ {r} : req'[q] = req[q]
    BY GotoLemma, DoneLemma DEF CommitStart, AmbiguousStart, IndInv, Pcs
  <1>2. /\ status = "none" /\ uploaded = 0 /\ staging # NoFile
        /\ \A q \in Requests \ {r} : req[q].pc = "idle"
    BY DEF CommitStart, AmbiguousStart, IndInv, BeforeRow
  <1>3. /\ status' = "created" /\ expected' \in Sizes
        /\ UNCHANGED <<uploaded, expired, staging, object, unsure, crashed>>
    BY DEF CommitStart, AmbiguousStart
  <1>4. HasPrefix(staging, 0)
    <2>1. Len(staging) \in Nat
      BY <1>2, FileTypes, ContentsAreFiles, SizeAssumption DEF SizeAssumption, IndInv, Sizes
    <2> QED
      BY <2>1 DEF HasPrefix
  <1> QED
    BY <1>1, <1>2, <1>3, <1>4
    DEF Statuses, IndInv, TypeOK, RowLock, Locks, Open, BeforeRow, HolderKnows, PublishedOnce, NothingRaced,
        ConfirmedBytesStaged, CompletedHasObject, ObjectRight, CancelledLeavesNoStaging

\* The start failed: its staging file is still there until the discard.
LEMMA FailStartInv ==
    ASSUME IndInv, NEW r \in Requests, FailStart(r)
    PROVE  IndInv'
  <1>1. /\ req' \in [Requests -> RequestStates] /\ req'[r].pc = "discard"
        /\ \A q \in Requests \ {r} : req'[q] = req[q]
    BY GotoLemma DEF FailStart, IndInv, Pcs
  <1>2. /\ req[r].pc = "start" /\ status = "none"
        /\ status' = status /\ expected' = expected /\ uploaded' = uploaded
        /\ expired' = expired /\ staging' = staging /\ object' = object /\ raced' = raced /\ unsure' = unsure
        /\ crashed' = crashed
    BY DEF FailStart, Row, IndInv, BeforeRow
  <1> QED
    BY <1>1, <1>2
    DEF IndInv, TypeOK, RowLock, Locks, Open, BeforeRow, HolderKnows, PublishedOnce, NothingRaced,
        ConfirmedBytesStaged, CompletedHasObject, ObjectRight, CancelledLeavesNoStaging

\* The append takes the row and finds the staging file as long as the confirmed offset.
LEMMA AdmitAppendInv ==
    ASSUME IndInv, NEW r \in Requests, BeginAppend(r), Len(staging) = uploaded,
           req' = [req EXCEPT ![r] = [pc |-> "write", base |-> uploaded, pos |-> uploaded]],
           UNCHANGED staging
    PROVE  IndInv'
  <1>1. /\ req' \in [Requests -> RequestStates]
        /\ req'[r].pc = "write" /\ req'[r].base = uploaded /\ req'[r].pos = uploaded
        /\ \A q \in Requests \ {r} : req'[q] = req[q]
    BY DEF IndInv, TypeOK, RequestStates, Pcs
  <1>2. /\ Open /\ staging # NoFile /\ \A q \in Requests : ~Locks(q)
        /\ raced' \in BOOLEAN /\ (raced => raced')
        /\ ~raced' => \A q \in Requests : req[q].pc \notin {"truncate", "cut"}
    BY DEF BeginAppend, Writable, RowFree, Open, Locks, IndInv, TypeOK
  <1>3. /\ status' = status /\ expected' = expected /\ uploaded' = uploaded
        /\ expired' = expired /\ object' = object /\ crashed' = crashed /\ staging' = staging
        /\ unsure' = unsure
    BY DEF BeginAppend, Row
  <1>4. uploaded \in Nat
    BY SizeAssumption DEF SizeAssumption, IndInv, TypeOK, Sizes
  <1>5. ~raced => HasPrefix(staging, uploaded)
    BY <1>2 DEF IndInv, ConfirmedBytesStaged, Open
  <1>6. TypeOK'
    BY <1>1, <1>2, <1>3 DEF IndInv, TypeOK
  <1>7. RowLock' /\ BeforeRow' /\ HolderKnows'
    BY <1>1, <1>2, <1>3, <1>4 DEF IndInv, RowLock, Locks, Open, BeforeRow, HolderKnows
  <1>8. PublishedOnce' /\ NothingRaced'
    BY <1>1, <1>2, <1>3, <1>5
    DEF IndInv, PublishedOnce, NothingRaced, ObjectRight, Open, Locks
  <1>9. ConfirmedBytesStaged' /\ CompletedHasObject' /\ CancelledLeavesNoStaging'
    BY <1>1, <1>2, <1>3
    DEF IndInv, ConfirmedBytesStaged, CompletedHasObject, CancelledLeavesNoStaging, Open
  <1> QED
    BY <1>6, <1>7, <1>8, <1>9 DEF IndInv

\* What a resize does to a file, if there is one.
LEMMA CutLemma ==
    ASSUME NEW f, f = NoFile \/ f \in Contents, NEW n \in Sizes
    PROVE  /\ Resize(f, n) = NoFile \/ Resize(f, n) \in Contents
           /\ Resize(f, n) = NoFile <=> f = NoFile
           /\ f # NoFile => Len(Resize(f, n)) = n
           /\ \A m \in Sizes : m <= n /\ f # NoFile /\ HasPrefix(f, m)
                                 => HasPrefix(Resize(f, n), m)
  <1>1. CASE f = NoFile
    BY <1>1 DEF Resize
  <1>2. CASE f # NoFile
    BY <1>2, ResizeLemma
  <1> QED
    BY <1>1, <1>2

\* The append finds a staging file of another length and repairs it.
LEMMA RepairInv ==
    ASSUME IndInv, NEW r \in Requests, BeginAppend(r),
           staging' = Resize(staging, uploaded), UNCHANGED req
    PROVE  IndInv'
  <1>1. /\ Open /\ staging # NoFile /\ \A q \in Requests : ~Locks(q)
        /\ raced' \in BOOLEAN /\ (raced => raced')
    BY DEF BeginAppend, Writable, RowFree, Open, Locks, IndInv, TypeOK
  <1>2. /\ status' = status /\ expected' = expected /\ uploaded' = uploaded
        /\ expired' = expired /\ object' = object /\ unsure' = unsure
        /\ crashed' = crashed
    BY DEF BeginAppend, Row
  <1>3. uploaded \in Sizes /\ uploaded <= uploaded
    BY SizeAssumption DEF SizeAssumption, IndInv, TypeOK, Sizes
  <1>4. /\ staging' \in Contents /\ staging' # NoFile
        /\ HasPrefix(staging, uploaded) => HasPrefix(staging', uploaded)
    BY <1>1, <1>3, CutLemma DEF IndInv, TypeOK
  <1> QED
    BY <1>1, <1>2, <1>4
    DEF IndInv, TypeOK, RowLock, Locks, Open, BeforeRow, HolderKnows, PublishedOnce, NothingRaced,
        ConfirmedBytesStaged, CompletedHasObject, ObjectRight, CancelledLeavesNoStaging

\* The next byte goes to its place.
LEMMA WriteByteInv ==
    ASSUME IndInv, NEW r \in Requests, WriteByte(r)
    PROVE  IndInv'
  <1>1. /\ req[r].pc = "write" /\ req[r].pos < expected /\ staging' = WriteAt(staging, req[r].pos)
        /\ status' = status /\ expected' = expected /\ uploaded' = uploaded
        /\ expired' = expired /\ object' = object /\ raced' = raced
        /\ unsure' = unsure /\ crashed' = crashed
    BY DEF WriteByte, Row
  <1>2. /\ req[r].pos \in Sizes /\ req[r].pos \in Nat /\ req[r].pos < MaxSize
        /\ req[r].pos + 1 \in Sizes /\ uploaded \in Sizes /\ uploaded \in Nat
    BY <1>1, SizeAssumption DEF SizeAssumption, IndInv, TypeOK, RequestStates, Sizes
  <1>3. /\ req' \in [Requests -> RequestStates] /\ req'[r].pc = "write"
        /\ req'[r].base = req[r].base /\ req'[r].pos = req[r].pos + 1
        /\ \A q \in Requests \ {r} : req'[q] = req[q]
    BY <1>1, <1>2 DEF WriteByte, IndInv, TypeOK, RequestStates
  <1>4. /\ staging' = NoFile \/ staging' \in Contents
        /\ staging' = NoFile <=> staging = NoFile
        /\ staging # NoFile /\ HasPrefix(staging, uploaded) => HasPrefix(staging', uploaded)
        /\ staging # NoFile /\ HasPrefix(staging, req[r].pos)
             => HasPrefix(staging', req[r].pos + 1)
    <2>1. CASE staging = NoFile
      BY <1>1, <2>1 DEF WriteAt
    <2>2. CASE staging # NoFile
      <3>1. staging \in Contents
        BY <2>2, FileTypes DEF IndInv
      <3> QED
        BY <1>1, <1>2, <2>2, <3>1, WriteLemma
    <2> QED BY <2>1, <2>2
  <1>5. Open /\ \A q \in Requests : Locks(q) => q = r
    BY <1>1 DEF IndInv, RowLock, Locks
  <1>6. TypeOK' /\ RowLock' /\ BeforeRow' /\ HolderKnows'
    BY <1>1, <1>2, <1>3, <1>4, <1>5
    DEF IndInv, TypeOK, RowLock, Locks, Open, BeforeRow, HolderKnows
  <1>7. PublishedOnce' /\ CompletedHasObject' /\ CancelledLeavesNoStaging'
    BY <1>1, <1>3, <1>4, <1>5
    DEF IndInv, PublishedOnce, ObjectRight, CompletedHasObject, CancelledLeavesNoStaging, Open
  <1>8. NothingRaced' /\ ConfirmedBytesStaged'
    BY <1>1, <1>3, <1>4, <1>5
    DEF IndInv, NothingRaced, ConfirmedBytesStaged, Open, Locks
  <1> QED
    BY <1>6, <1>7, <1>8 DEF IndInv

\* A write fails: the staging file is cut under the lock.
LEMMA FailWriteInv ==
    ASSUME IndInv, NEW r \in Requests, FailWrite(r)
    PROVE  IndInv'
  <1>1. /\ req[r].pc = "write" /\ staging' = Resize(staging, req[r].base)
        /\ Done(r)
        /\ status' = status /\ expected' = expected /\ uploaded' = uploaded
        /\ expired' = expired /\ object' = object /\ raced' = raced
        /\ unsure' = unsure /\ crashed' = crashed
    BY DEF FailWrite, Row
  <1>2. /\ req' \in [Requests -> RequestStates] /\ req'[r].pc = "idle"
        /\ \A q \in Requests \ {r} : req'[q] = req[q]
    BY <1>1, DoneLemma DEF IndInv
  <1>3. req[r].base \in Sizes /\ uploaded \in Sizes /\ uploaded <= uploaded
    BY SizeAssumption DEF SizeAssumption, IndInv, TypeOK, RequestStates, Sizes
  <1>4. /\ staging' = NoFile \/ staging' \in Contents
        /\ staging' = NoFile <=> staging = NoFile
        /\ req[r].base = uploaded /\ staging # NoFile /\ HasPrefix(staging, uploaded)
             => HasPrefix(staging', uploaded)
    BY <1>1, <1>3, CutLemma DEF IndInv, TypeOK
  <1>5. /\ Open /\ req[r].base = uploaded
        /\ \A q \in Requests \ {r} : ~Locks(q)
    BY <1>1 DEF IndInv, HolderKnows, RowLock, Locks
  <1>6. TypeOK' /\ RowLock' /\ BeforeRow' /\ HolderKnows'
    BY <1>1, <1>2, <1>4 DEF IndInv, TypeOK, RowLock, Locks, Open, BeforeRow, HolderKnows
  <1>7. PublishedOnce' /\ CompletedHasObject' /\ CancelledLeavesNoStaging'
    BY <1>1, <1>2, <1>4, <1>5
    DEF IndInv, PublishedOnce, ObjectRight, CompletedHasObject, CancelledLeavesNoStaging
  <1>8. NothingRaced' /\ ConfirmedBytesStaged'
    BY <1>1, <1>2, <1>4, <1>5
    DEF IndInv, NothingRaced, ConfirmedBytesStaged, Open, Locks
  <1> QED
    BY <1>6, <1>7, <1>8 DEF IndInv

\* truncate_upload opens the staging file or finds none.
LEMMA OpenStagingInv ==
    ASSUME IndInv, NEW r \in Requests, OpenStaging(r)
    PROVE  IndInv'
  <1>1. /\ req[r].pc = "truncate"
        /\ status' = status /\ expected' = expected /\ uploaded' = uploaded
        /\ expired' = expired /\ staging' = staging /\ object' = object /\ raced' = raced
        /\ unsure' = unsure /\ crashed' = crashed
    BY DEF OpenStaging, Row
  <1>2. /\ req' \in [Requests -> RequestStates]
        /\ req'[r].pc = "idle" \/ (req'[r].pc = "cut" /\ req'[r].base = req[r].base)
        /\ \A q \in Requests \ {r} : req'[q] = req[q]
    BY GotoLemma, DoneLemma DEF OpenStaging, IndInv, Pcs
  <1>3. TypeOK' /\ RowLock' /\ BeforeRow' /\ HolderKnows'
    BY <1>1, <1>2 DEF IndInv, TypeOK, RowLock, Locks, Open, BeforeRow, HolderKnows
  <1>4. PublishedOnce' /\ CompletedHasObject' /\ CancelledLeavesNoStaging'
    BY <1>1, <1>2
    DEF IndInv, PublishedOnce, ObjectRight, CompletedHasObject, CancelledLeavesNoStaging
  <1>5. NothingRaced' /\ ConfirmedBytesStaged'
    BY <1>1, <1>2 DEF IndInv, NothingRaced, ConfirmedBytesStaged, Open
  <1> QED
    BY <1>3, <1>4, <1>5 DEF IndInv

\* The late truncation, wherever the file is by then: at the confirmed offset it
\* takes nothing away, unless raced.
LEMMA TruncateInv ==
    ASSUME IndInv, NEW r \in Requests, TruncateAppend(r)
    PROVE  IndInv'
  <1>1. /\ req[r].pc = "cut" /\ staging' = Resize(staging, req[r].base)
        /\ object' = Resize(object, req[r].base) /\ Done(r)
        /\ status' = status /\ expected' = expected /\ uploaded' = uploaded
        /\ expired' = expired /\ raced' = raced /\ unsure' = unsure /\ crashed' = crashed
    BY DEF TruncateAppend, Row
  <1>2. /\ req' \in [Requests -> RequestStates] /\ req'[r].pc = "idle"
        /\ \A q \in Requests \ {r} : req'[q] = req[q]
    BY <1>1, DoneLemma DEF IndInv
  <1>3. /\ req[r].base \in Sizes /\ uploaded \in Sizes /\ uploaded <= uploaded
        /\ expected \in Sizes
    BY SizeAssumption DEF SizeAssumption, IndInv, TypeOK, RequestStates, Sizes
  <1>4. /\ staging' = NoFile \/ staging' \in Contents
        /\ staging' = NoFile <=> staging = NoFile
        /\ req[r].base = uploaded /\ staging # NoFile =>
             /\ Len(staging') = uploaded
             /\ HasPrefix(staging, uploaded) => HasPrefix(staging', uploaded)
    BY <1>1, <1>3, CutLemma DEF IndInv, TypeOK
  <1>5. /\ object' = NoFile \/ object' \in Contents
        /\ object' = NoFile <=> object = NoFile
        /\ req[r].base = uploaded /\ object # NoFile =>
             /\ Len(object') = uploaded
             /\ HasPrefix(object, uploaded) => HasPrefix(object', uploaded)
    <2> DEFINE cut == Resize(object, req[r].base)
    <2>1. object = NoFile \/ object \in Contents
      BY DEF IndInv, TypeOK
    <2>2. /\ cut = NoFile \/ cut \in Contents
          /\ cut = NoFile <=> object = NoFile
          /\ object # NoFile => Len(cut) = req[r].base
          /\ uploaded <= req[r].base /\ object # NoFile /\ HasPrefix(object, uploaded)
               => HasPrefix(cut, uploaded)
      BY <1>3, <2>1, CutLemma
    <2> HIDE DEF cut
    <2> QED BY <1>1, <1>3, <2>2 DEF cut
  <1>6. /\ (Open \/ status = "completed") /\ ~raced => req[r].base = uploaded
        /\ Open /\ ~raced => \A q \in Requests : req[q].pc \notin {"write", "commit"}
    BY <1>1 DEF IndInv, NothingRaced
  <1>7. TypeOK' /\ RowLock' /\ BeforeRow' /\ HolderKnows'
    BY <1>1, <1>2, <1>4, <1>5
    DEF IndInv, TypeOK, RowLock, Locks, Open, BeforeRow, HolderKnows
  <1>8. ASSUME uploaded = expected, Open \/ status = "completed", ObjectRight
        PROVE  ObjectRight'
    <2>1. object # NoFile /\ object' # NoFile
      BY <1>5, <1>8 DEF ObjectRight
    <2>2. CASE raced
      BY <1>1, <2>1, <2>2 DEF ObjectRight
    <2>3. CASE ~raced
      <3>1. req[r].base = uploaded /\ HasPrefix(object, expected)
        BY <1>6, <1>8, <2>3 DEF ObjectRight
      <3>2. Len(object') = expected /\ HasPrefix(object', expected)
        BY <1>5, <1>8, <2>1, <3>1
      <3> QED BY <1>1, <2>1, <3>2 DEF ObjectRight
    <2> QED BY <2>2, <2>3
  <1>9. PublishedOnce'
    <2>1. ASSUME NEW q \in Requests, req'[q].pc = "finish" PROVE ObjectRight'
      <3>1. req[q].pc = "finish"
        BY <1>2, <2>1
      <3>2. uploaded = expected /\ Open /\ ObjectRight
        BY <3>1 DEF IndInv, HolderKnows, RowLock, Locks, PublishedOnce
      <3> QED BY <1>8, <3>2
    <2> QED
      BY <1>1, <1>2, <1>4, <2>1 DEF IndInv, PublishedOnce
  <1>10. CompletedHasObject' /\ CancelledLeavesNoStaging'
    <2>1. ASSUME status = "completed", ~unsure PROVE ObjectRight'
      BY <1>8, <2>1 DEF IndInv, PublishedOnce, CompletedHasObject, ObjectRight
    <2>2. CompletedHasObject'
      BY <1>1, <2>1 DEF CompletedHasObject, ObjectRight
    <2> QED
      BY <1>1, <1>2, <1>4, <2>2 DEF IndInv, CancelledLeavesNoStaging
  <1>11. NothingRaced' /\ ConfirmedBytesStaged'
    <2>1. ASSUME Open, ~raced, NEW q \in Requests, req[q].pc = "replace"
          PROVE  staging' # NoFile /\ Len(staging') = expected
      BY <1>4, <1>6, <2>1 DEF IndInv, NothingRaced, HolderKnows
    <2>2. NothingRaced'
      BY <1>1, <1>2, <1>6, <2>1 DEF IndInv, NothingRaced, Open
    <2>3. ConfirmedBytesStaged'
      BY <1>1, <1>4, <1>6 DEF IndInv, ConfirmedBytesStaged, Open
    <2> QED
      BY <2>2, <2>3
  <1> QED
    BY <1>7, <1>9, <1>10, <1>11 DEF IndInv

\* The chunk is persisted and about to be confirmed, or it is refused and its bytes are
\* to be cut off after the row is released.
LEMMA ChunkInv ==
    ASSUME IndInv, NEW r \in Requests, EndChunk(r) \/ FailAppend(r)
    PROVE  IndInv'
  <1>1. /\ req[r].pc \in {"write", "commit"}
        /\ status' = status /\ expected' = expected /\ uploaded' = uploaded
        /\ expired' = expired /\ staging' = staging /\ object' = object /\ raced' = raced /\ unsure' = unsure
        /\ crashed' = crashed
    BY DEF EndChunk, FailAppend, Row
  <1>2. PICK pc \in {"truncate", "commit"} : Goto(r, pc) /\ (pc = "commit" => req[r].pc = "write")
    BY DEF EndChunk, FailAppend
  <1>3. /\ req' \in [Requests -> RequestStates]
        /\ req'[r].pc = pc /\ req'[r].base = req[r].base /\ req'[r].pos = req[r].pos
        /\ \A q \in Requests \ {r} : req'[q] = req[q]
    BY <1>2, GotoLemma DEF IndInv, Pcs
  <1>4. Open /\ \A q \in Requests : Locks(q) => q = r
    BY <1>1 DEF IndInv, RowLock, Locks
  <1>5. TypeOK' /\ RowLock' /\ BeforeRow' /\ HolderKnows'
    BY <1>1, <1>2, <1>3, <1>4 DEF IndInv, TypeOK, RowLock, Locks, Open, BeforeRow, HolderKnows
  <1>6. /\ PublishedOnce' /\ CompletedHasObject' /\ CancelledLeavesNoStaging'
        /\ ConfirmedBytesStaged'
    BY <1>1, <1>2, <1>3, <1>4
    DEF IndInv, PublishedOnce, ObjectRight, CompletedHasObject, CancelledLeavesNoStaging,
        ConfirmedBytesStaged, Open
  <1>7. NothingRaced'
    BY <1>1, <1>2, <1>3, <1>4 DEF IndInv, NothingRaced, HolderKnows, Open, Locks
  <1> QED
    BY <1>5, <1>6, <1>7 DEF IndInv

\* The offset is confirmed: every byte up to it is in the staging file, unless raced.
LEMMA ConfirmInv ==
    ASSUME IndInv, NEW r \in Requests, CommitAppend(r) \/ AmbiguousAppend(r)
    PROVE  IndInv'
  <1>1. /\ req[r].pc = "commit" /\ uploaded' = req[r].pos /\ status' = "uploading"
        /\ expected' = expected /\ expired' = expired /\ staging' = staging
        /\ object' = object /\ unsure' = unsure /\ crashed' = crashed
    BY DEF CommitAppend, AmbiguousAppend
  <1>2. /\ req' \in [Requests -> RequestStates]
        /\ \/ req'[r].pc = "idle" /\ raced' = raced
           \/ req'[r].pc = "truncate" /\ raced' = TRUE
        /\ \A q \in Requests \ {r} : req'[q] = req[q]
    BY GotoLemma, DoneLemma DEF CommitAppend, AmbiguousAppend, IndInv, Pcs
  <1>3. Open /\ (\A q \in Requests : Locks(q) => q = r) /\ req[r].pos \in Sizes
    BY <1>1 DEF IndInv, RowLock, Locks, TypeOK, RequestStates
  <1>4. TypeOK' /\ RowLock' /\ BeforeRow' /\ HolderKnows'
    BY <1>1, <1>2, <1>3
    DEF IndInv, TypeOK, RowLock, Locks, Open, BeforeRow, HolderKnows, Statuses
  <1>5. PublishedOnce' /\ CompletedHasObject' /\ CancelledLeavesNoStaging'
    BY <1>1, <1>2, <1>3
    DEF IndInv, PublishedOnce, ObjectRight, CompletedHasObject, CancelledLeavesNoStaging, Open,
        Locks
  <1>6. NothingRaced' /\ ConfirmedBytesStaged'
    BY <1>1, <1>2, <1>3 DEF IndInv, NothingRaced, ConfirmedBytesStaged, Open, Locks
  <1> QED
    BY <1>4, <1>5, <1>6 DEF IndInv

\* The completion takes the row.
LEMMA BeginCompleteInv ==
    ASSUME IndInv, NEW r \in Requests, BeginComplete(r)
    PROVE  IndInv'
  <1>1. /\ Open /\ staging # NoFile /\ uploaded = expected /\ \A q \in Requests : ~Locks(q)
        /\ status' = status /\ expected' = expected /\ uploaded' = uploaded
        /\ expired' = expired /\ staging' = staging /\ object' = object /\ raced' = raced /\ unsure' = unsure
        /\ crashed' = crashed
    BY DEF BeginComplete, Row, Writable, RowFree, Open, Locks
  <1>2. /\ req' \in [Requests -> RequestStates] /\ req'[r].pc = "publish"
        /\ req[r].pc = "idle"
        /\ \A q \in Requests \ {r} : req'[q] = req[q]
    BY GotoLemma DEF BeginComplete, Idle, IndInv, Pcs
  <1> QED
    BY <1>1, <1>2
    DEF IndInv, TypeOK, RowLock, Locks, Open, BeforeRow, HolderKnows, PublishedOnce, NothingRaced,
        ConfirmedBytesStaged, CompletedHasObject, ObjectRight, CancelledLeavesNoStaging

\* publish_upload has measured the staging file.
LEMMA CheckSizeInv ==
    ASSUME IndInv, NEW r \in Requests, CheckSize(r)
    PROVE  IndInv'
  <1>1. /\ req[r].pc = "publish" /\ staging # NoFile /\ Len(staging) = expected
        /\ status' = status /\ expected' = expected /\ uploaded' = uploaded
        /\ expired' = expired /\ staging' = staging /\ object' = object /\ raced' = raced
        /\ unsure' = unsure /\ crashed' = crashed
    BY DEF CheckSize, Row
  <1>2. /\ req' \in [Requests -> RequestStates] /\ req'[r].pc = "replace"
        /\ \A q \in Requests \ {r} : req'[q] = req[q]
    BY GotoLemma DEF CheckSize, IndInv, Pcs
  <1>3. TypeOK' /\ RowLock' /\ BeforeRow' /\ HolderKnows'
    BY <1>1, <1>2 DEF IndInv, TypeOK, RowLock, Locks, Open, BeforeRow, HolderKnows
  <1>4. PublishedOnce' /\ CompletedHasObject' /\ CancelledLeavesNoStaging'
    BY <1>1, <1>2
    DEF IndInv, PublishedOnce, ObjectRight, CompletedHasObject, CancelledLeavesNoStaging
  <1>5. NothingRaced' /\ ConfirmedBytesStaged'
    BY <1>1, <1>2 DEF IndInv, NothingRaced, ConfirmedBytesStaged, Open
  <1> QED
    BY <1>3, <1>4, <1>5 DEF IndInv

\* os.replace: the staging file becomes the object.
LEMMA PublishInv ==
    ASSUME IndInv, NEW r \in Requests, PublishUpload(r)
    PROVE  IndInv'
  <1>1. /\ req[r].pc = "replace" /\ staging # NoFile
        /\ object' = staging /\ staging' = NoFile
        /\ status' = status /\ expected' = expected /\ uploaded' = uploaded
        /\ expired' = expired /\ raced' = raced
        /\ unsure' = unsure /\ crashed' = crashed
    BY DEF PublishUpload, Row
  <1>2. /\ req' \in [Requests -> RequestStates] /\ req'[r].pc = "finish"
        /\ \A q \in Requests \ {r} : req'[q] = req[q]
    BY GotoLemma DEF PublishUpload, IndInv, Pcs
  <1>3. Open /\ uploaded = expected /\ (\A q \in Requests : Locks(q) => q = r)
    BY <1>1 DEF IndInv, RowLock, Locks, HolderKnows
  <1>4. raced \/ (Len(staging) = expected /\ HasPrefix(staging, expected))
    BY <1>1, <1>3 DEF IndInv, ConfirmedBytesStaged, NothingRaced, Open
  <1>5. TypeOK' /\ RowLock' /\ BeforeRow' /\ HolderKnows'
    BY <1>1, <1>2, <1>3 DEF IndInv, TypeOK, RowLock, Locks, Open, BeforeRow, HolderKnows
  <1>6. PublishedOnce'
    BY <1>1, <1>2, <1>3, <1>4 DEF IndInv, PublishedOnce, ObjectRight, Open
  <1>7. NothingRaced' /\ ConfirmedBytesStaged' /\ CompletedHasObject' /\ CancelledLeavesNoStaging'
    BY <1>1, <1>2, <1>3
    DEF IndInv, NothingRaced, ConfirmedBytesStaged, CompletedHasObject,
        CancelledLeavesNoStaging, Open, Locks
  <1> QED
    BY <1>5, <1>6, <1>7 DEF IndInv

\* The metadata of the completion is committed, whatever its answer.
LEMMA CommitCompleteInv ==
    ASSUME IndInv, NEW r \in Requests, CommitComplete(r) \/ AmbiguousComplete(r)
    PROVE  IndInv'
  <1>1. /\ req[r].pc = "finish" /\ status' = "completed"
        /\ expected' = expected /\ uploaded' = uploaded /\ expired' = expired
        /\ staging' = staging /\ object' = object /\ raced' = raced /\ crashed' = crashed
    BY DEF CommitComplete, AmbiguousComplete
  <1>2. /\ req' \in [Requests -> RequestStates]
        /\ \/ req'[r].pc = "idle" /\ unsure' = unsure
           \/ req'[r].pc = "compensate" /\ unsure' = TRUE
        /\ \A q \in Requests \ {r} : req'[q] = req[q]
    BY DoneLemma, GotoLemma DEF CommitComplete, AmbiguousComplete, IndInv, Pcs
  <1>3. /\ Open /\ (\A q \in Requests : Locks(q) => q = r) /\ staging = NoFile /\ ObjectRight
        /\ uploaded = expected
        /\ \A q \in Requests \ {r} : req[q].pc \notin {"finish", "compensate"}
    BY <1>1 DEF IndInv, RowLock, Locks, PublishedOnce, HolderKnows
  <1>4. unsure' \in BOOLEAN
    BY <1>2 DEF IndInv, TypeOK
  <1>5. TypeOK'
    BY <1>1, <1>2, <1>4 DEF IndInv, TypeOK, Statuses
  <1>6. RowLock' /\ BeforeRow' /\ HolderKnows'
    BY <1>1, <1>2, <1>3 DEF IndInv, RowLock, Locks, Open, BeforeRow, HolderKnows
  <1>7. PublishedOnce'
    BY <1>1, <1>2, <1>3 DEF PublishedOnce
  <1>8. CompletedHasObject' /\ CancelledLeavesNoStaging' /\ ConfirmedBytesStaged'
    BY <1>1, <1>3
    DEF CompletedHasObject, ObjectRight, CancelledLeavesNoStaging, ConfirmedBytesStaged
  <1>9. NothingRaced'
    BY <1>1, <1>2, <1>3 DEF IndInv, NothingRaced, Open
  <1> QED
    BY <1>5, <1>6, <1>7, <1>8, <1>9 DEF IndInv

\* The completion fails after the file was published; the object is deleted later.
LEMMA FailCompleteInv ==
    ASSUME IndInv, NEW r \in Requests, FailComplete(r)
    PROVE  IndInv'
  <1>1. /\ req[r].pc = "finish"
        /\ status' = status /\ expected' = expected /\ uploaded' = uploaded
        /\ expired' = expired /\ staging' = staging /\ object' = object /\ raced' = raced /\ unsure' = unsure
        /\ crashed' = crashed
    BY DEF FailComplete, Row
  <1>2. /\ req' \in [Requests -> RequestStates] /\ req'[r].pc = "compensate"
        /\ \A q \in Requests \ {r} : req'[q] = req[q]
    BY GotoLemma DEF FailComplete, IndInv, Pcs
  <1> QED
    BY <1>1, <1>2
    DEF IndInv, TypeOK, RowLock, Locks, Open, BeforeRow, HolderKnows, PublishedOnce, NothingRaced,
        ConfirmedBytesStaged, CompletedHasObject, ObjectRight, CancelledLeavesNoStaging

\* The object that is deleted is the one of the failed completion: nobody else has
\* published, so nobody else has completed, unless its own commit took effect.
LEMMA CompensateInv ==
    ASSUME IndInv, NEW r \in Requests, Compensate(r)
    PROVE  IndInv'
  <1>1. /\ req[r].pc = "compensate" /\ object' = NoFile
        /\ status' = status /\ expected' = expected /\ uploaded' = uploaded
        /\ expired' = expired /\ staging' = staging /\ raced' = raced
        /\ unsure' = unsure /\ crashed' = crashed
    BY DEF Compensate, Row
  <1>2. /\ req' \in [Requests -> RequestStates] /\ req'[r].pc = "idle"
        /\ \A q \in Requests \ {r} : req'[q] = req[q]
    BY DoneLemma DEF Compensate, IndInv
  <1>3. /\ status # "completed" \/ unsure
        /\ \A q \in Requests \ {r} : req[q].pc # "finish"
    BY <1>1 DEF IndInv, PublishedOnce
  <1> QED
    BY <1>1, <1>2, <1>3
    DEF IndInv, TypeOK, RowLock, Locks, Open, BeforeRow, HolderKnows, PublishedOnce, NothingRaced,
        ConfirmedBytesStaged, CompletedHasObject, ObjectRight, CancelledLeavesNoStaging

\* The session is cancelled; its staging file goes later.
LEMMA CancelInv ==
    ASSUME IndInv, NEW r \in Requests, Cancel(r)
    PROVE  IndInv'
  <1>1. /\ status \in {"created", "uploading", "cancelled"} /\ status' = "cancelled"
        /\ \A q \in Requests : ~Locks(q)
        /\ expected' = expected /\ uploaded' = uploaded /\ expired' = expired
        /\ staging' = staging /\ object' = object /\ raced' = raced
        /\ unsure' = unsure /\ crashed' = crashed
    BY DEF Cancel, RowFree, Locks
  <1>2. /\ req' \in [Requests -> RequestStates] /\ req'[r].pc = "discard"
        /\ \A q \in Requests \ {r} : req'[q] = req[q]
    BY GotoLemma DEF Cancel, IndInv, Pcs
  <1> QED
    BY <1>1, <1>2
    DEF Statuses, IndInv, TypeOK, RowLock, Locks, Open, BeforeRow, HolderKnows, PublishedOnce, NothingRaced,
        ConfirmedBytesStaged, CompletedHasObject, ObjectRight, CancelledLeavesNoStaging

\* The staging file goes: no session that counts on it is open, unless a start raced.
LEMMA DiscardInv ==
    ASSUME IndInv, NEW r \in Requests, Discard(r)
    PROVE  IndInv'
  <1>1. /\ req[r].pc = "discard" /\ staging' = NoFile
        /\ status' = status /\ expected' = expected /\ uploaded' = uploaded
        /\ expired' = expired /\ object' = object /\ raced' = raced
        /\ unsure' = unsure /\ crashed' = crashed
    BY DEF Discard, Row
  <1>2. /\ req' \in [Requests -> RequestStates] /\ req'[r].pc = "idle"
        /\ \A q \in Requests \ {r} : req'[q] = req[q]
    BY DoneLemma DEF Discard, IndInv
  <1>3. ~Open \/ raced
    BY <1>1 DEF IndInv, NothingRaced
  <1> QED
    BY <1>1, <1>2, <1>3
    DEF IndInv, TypeOK, RowLock, Locks, Open, BeforeRow, HolderKnows, PublishedOnce, NothingRaced,
        ConfirmedBytesStaged, CompletedHasObject, ObjectRight, CancelledLeavesNoStaging

\* The session expires or goes with its folder.
LEMMA EnvironmentInv ==
    ASSUME IndInv, Expire \/ PurgeParent \/ UNCHANGED vars
    PROVE  IndInv'
  <1>1. /\ expected' = expected /\ uploaded' = uploaded /\ staging' = staging
        /\ object' = object /\ req' = req /\ raced' = raced
        /\ unsure' = unsure /\ crashed' = crashed
        /\ expired' \in BOOLEAN
    BY DEF Expire, PurgeParent, vars, IndInv, TypeOK
  <1>2. CASE status' = status
    BY <1>1, <1>2
    DEF IndInv, TypeOK, RowLock, Locks, Open, BeforeRow, HolderKnows, PublishedOnce, NothingRaced,
        ConfirmedBytesStaged, CompletedHasObject, ObjectRight, CancelledLeavesNoStaging
  <1>3. CASE status' = "gone" /\ status # "none" /\ \A q \in Requests : ~Locks(q)
    BY <1>1, <1>3
    DEF Statuses, IndInv, TypeOK, RowLock, Locks, Open, BeforeRow, HolderKnows, PublishedOnce, NothingRaced,
        ConfirmedBytesStaged, CompletedHasObject, ObjectRight, CancelledLeavesNoStaging
  <1> QED
    BY <1>2, <1>3 DEF Expire, PurgeParent, vars, RowFree, Locks

\* Every step preserves the invariant.
LEMMA NextInv == IndInv /\ [Next]_vars => IndInv'
  <1> SUFFICES ASSUME IndInv, [Next]_vars PROVE IndInv'
    OBVIOUS
  <1>1. ASSUME NEW r \in Requests,
               BeginStart(r) \/ CommitStart(r) \/ FailStart(r) \/ AmbiguousStart(r)
        PROVE  IndInv'
    BY <1>1, BeginStartInv, StartInv, FailStartInv
  <1>2. ASSUME NEW r \in Requests, BeginAppend(r) PROVE IndInv'
    BY <1>2, AdmitAppendInv, RepairInv DEF BeginAppend
  <1>3. ASSUME NEW r \in Requests, WriteByte(r) PROVE IndInv'
    BY <1>3, WriteByteInv
  <1>4. ASSUME NEW r \in Requests, FailStream(r) \/ RejectComplete(r) \/ Crash(r)
        PROVE  IndInv'
    <2>1. crashed \in BOOLEAN
      BY DEF IndInv, TypeOK
    <2>2. Done(r) /\ UNCHANGED <<Row, staging, object, raced, unsure>>
      BY <1>4 DEF FailStream, RejectComplete, Crash
    <2>3. CASE crashed' = TRUE
      BY <2>2, <2>3, LeaveInv
    <2>4. CASE crashed' = crashed /\ req[r].pc # "discard"
      <3>1. crashed' \in BOOLEAN /\ (crashed => crashed')
        BY <2>1, <2>4
      <3> QED
        BY <2>2, <2>4, <3>1, LeaveInv
    <2> QED
      BY <1>4, <2>3, <2>4 DEF FailStream, RejectComplete, Crash
  <1>5. ASSUME NEW r \in Requests, FailWrite(r) \/ OpenStaging(r) \/ TruncateAppend(r)
        PROVE  IndInv'
    BY <1>5, FailWriteInv, OpenStagingInv, TruncateInv
  <1>6. ASSUME NEW r \in Requests, EndChunk(r) \/ FailAppend(r) PROVE IndInv'
    BY <1>6, ChunkInv
  <1>7. ASSUME NEW r \in Requests, CommitAppend(r) \/ AmbiguousAppend(r) PROVE IndInv'
    BY <1>7, ConfirmInv
  <1>8. ASSUME NEW r \in Requests, BeginComplete(r) \/ CheckSize(r) \/ PublishUpload(r)
        PROVE  IndInv'
    BY <1>8, BeginCompleteInv, CheckSizeInv, PublishInv
  <1>9. ASSUME NEW r \in Requests,
               \/ CommitComplete(r) \/ AmbiguousComplete(r)
               \/ FailComplete(r) \/ Compensate(r)
        PROVE  IndInv'
    BY <1>9, CommitCompleteInv, FailCompleteInv, CompensateInv
  <1>10. ASSUME NEW r \in Requests, Cancel(r) \/ Discard(r) PROVE IndInv'
    BY <1>10, CancelInv, DiscardInv
  <1>11. CASE Expire \/ PurgeParent \/ UNCHANGED vars
    BY <1>11, EnvironmentInv
  <1> QED
    BY <1>1, <1>2, <1>3, <1>4, <1>5, <1>6, <1>7, <1>8, <1>9, <1>10, <1>11 DEF Next

-----------------------------------------------------------------------------
(* The theorems *)

\* The inductive invariant holds in every reachable state.
THEOREM Invariance == Spec => []IndInv
    BY InitInv, NextInv, PTL DEF Spec

\* Every variable keeps its type.
THEOREM TypeCorrect == Spec => []TypeOK
  <1>1. IndInv => TypeOK
    BY DEF IndInv
  <1> QED
    BY <1>1, Invariance, PTL

\* Whatever fails, every confirmed byte is in the staging file until it is published.
THEOREM ConfirmedBytesKept == Spec => []ConfirmedBytesStaged
  <1>1. IndInv => ConfirmedBytesStaged
    BY DEF IndInv
  <1> QED
    BY <1>1, Invariance, PTL

\* No late compensation, neither a delete nor a truncation through an old handle, hits
\* the object of a completion that committed and was told so; the contents are the
\* client's unless an append overtook a pending truncation.
THEOREM CompletedObjectKept == Spec => []CompletedHasObject
  <1>1. IndInv => CompletedHasObject
    BY DEF IndInv
  <1> QED
    BY <1>1, Invariance, PTL

\* A cancelled upload leaves no staging file behind unless a process died.
THEOREM CancelledCleansUp == Spec => []CancelledLeavesNoStaging
  <1>1. IndInv => CancelledLeavesNoStaging
    BY DEF IndInv
  <1> QED
    BY <1>1, Invariance, PTL

\* A session never leaves a final status and a confirmed offset is never taken back.
THEOREM SessionsAdvance == Spec => SessionsOnlyAdvance
  <1>1. ASSUME IndInv, [Next]_vars
        PROVE  /\ status \in {"completed", "cancelled"} => status' \in {status, "gone"}
               /\ uploaded' >= uploaded
    <2>1. uploaded \in Nat
      BY <1>1, SizeAssumption DEF SizeAssumption, IndInv, TypeOK, Sizes
    <2>2. CASE \E r \in Requests : CommitStart(r) \/ AmbiguousStart(r)
      BY <1>1, <2>1, <2>2 DEF CommitStart, AmbiguousStart, IndInv, BeforeRow
    <2>3. CASE \E r \in Requests : CommitAppend(r) \/ AmbiguousAppend(r)
      BY <1>1, <2>1, <2>3
      DEF CommitAppend, AmbiguousAppend, IndInv, RowLock, Locks, Open, HolderKnows
    <2>4. CASE \E r \in Requests : CommitComplete(r) \/ AmbiguousComplete(r)
      BY <1>1, <2>1, <2>4 DEF CommitComplete, AmbiguousComplete, IndInv, RowLock, Locks, Open
    <2>5. CASE \E r \in Requests : Cancel(r)
      BY <2>1, <2>5 DEF Cancel
    <2>6. CASE PurgeParent
      BY <2>1, <2>6 DEF PurgeParent
    <2>7. CASE status' = status /\ uploaded' = uploaded
      BY <2>1, <2>7
    <2> QED
      BY <1>1, <2>2, <2>3, <2>4, <2>5, <2>6, <2>7
      DEF Next, vars, Row, BeginStart, FailStart, BeginAppend, WriteByte, FailStream, FailWrite,
          EndChunk, FailAppend, OpenStaging, TruncateAppend, BeginComplete, CheckSize,
          PublishUpload, RejectComplete, FailComplete, Compensate, Discard, Crash, Expire
  <1>2. IndInv /\ [Next]_vars =>
          [/\ status \in {"completed", "cancelled"} => status' \in {status, "gone"}
           /\ uploaded' >= uploaded]_vars
    BY <1>1
  <1> QED
    BY <1>2, Invariance, PTL DEF Spec, SessionsOnlyAdvance
=============================================================================
