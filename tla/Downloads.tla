------------------------------ MODULE Downloads ------------------------------
(***************************************************************************)
(* One download of one file: preconditions, byte ranges, the answer and    *)
(* the streaming of its body in blocks, while the file may be purged and   *)
(* its bytes unlinked by the outbox worker at any moment.                  *)
(*                                                                         *)
(* Published bytes never change, so byte i of the file is its position i.  *)
(* The file on disk may be shorter than its row says (a damaged volume);   *)
(* damage after the size check of the handler is not modelled.             *)
(* The request headers are parsed already: a range set is a sequence of    *)
(* members, a condition is what it compares with the current validators.   *)
(* The variant that hands the file to the proxy (X-Accel-Redirect) ends    *)
(* with the answer, like HEAD.                                             *)
(***************************************************************************)
EXTENDS Integers, Sequences

CONSTANTS MaxSize,   \* bytes of a file
          MaxRanges, \* _MAX_RANGES
          BlockSize, \* bytes of a read
          Asks       \* the requests: [method, range, conds]

\* A member "first-last", "first-", "-suffix", or one that does not parse.
\* "0--1" is a member with a negative last position.
Members == [kind : {"both", "from", "suffix", "malformed"}, first : Nat, last : Int]

ASSUME DownloadsAssumption ==
    /\ MaxSize \in Nat /\ MaxRanges \in Nat \ {0} /\ BlockSize \in Nat \ {0}
    /\ \A a \in Asks : a.method \in {"GET", "HEAD"} /\ a.range \in Seq(Members)

VARIABLES
    size,   \* size of the file in its row
    bytes,  \* length of the file on disk, -1 when it is unlinked
    entry,  \* is the entry active in the database
    ask,    \* the request
    rsp,    \* its answer: status and ranges
    pc,     \* where the handler is
    todo,   \* the satisfiable ranges that are still to be coalesced
    merged, \* the ranges coalesced so far
    handle, \* next position to read and bytes that remain, while a file is open
    part,   \* the range that is streamed
    body    \* the bytes sent, as positions

vars == <<size, bytes, entry, ask, rsp, pc, todo, merged, handle, part, body>>

(***************************************************************************)
(* Ranges.                                                                 *)
(***************************************************************************)

\* No Range header, or another unit than bytes.
NoRange == <<>>

Smaller(a, b) == IF a < b THEN a ELSE b
Larger(a, b)  == IF a < b THEN b ELSE a

\* The range of one member in a file of n bytes; its end is below its start
\* when the loop of parse_ranges goes on to the next member, or raises.
Resolve(m, n) ==
    CASE m.kind = "malformed" -> [start |-> 0, end |-> -1]
      [] m.kind = "suffix" /\ m.last <= 0 -> [start |-> 0, end |-> -1]
      [] m.kind = "suffix" /\ m.last > 0 ->
             [start |-> Larger(0, n - m.last), end |-> n - 1]
      [] m.kind = "from" -> [start |-> m.first, end |-> n - 1]
      [] m.kind = "both" -> [start |-> m.first, end |-> Smaller(m.last, n - 1)]

Satisfiable(r) == r.start <= r.end

\* The ranges that parse_ranges resolves.
Resolved(range, n) ==
    {r \in {Resolve(range[i], n) : i \in DOMAIN range} : Satisfiable(r)}

\* RangeRequestError.
Refused(range, n) ==
    \/ Len(range) > MaxRanges \/ n = 0
    \/ \E i \in DOMAIN range : range[i].kind = "malformed"
    \/ Resolved(range, n) = {}

\* The order of the loop of _coalesce_ranges.  A range that is asked for twice
\* joins itself, so the list of the code is a set here.
Least(r, ranges) ==
    \A q \in ranges : r.start < q.start \/ (r.start = q.start /\ r.end <= q.end)

\* Faulty variant: the last of two overlapping ranges decides the end.
JoinLastEnd(ranges, r) ==
    LET n == Len(ranges) IN
    IF ranges # <<>> /\ r.start <= ranges[n].end + 1
    THEN [ranges EXCEPT ![n] = [start |-> ranges[n].start, end |-> r.end]]
    ELSE Append(ranges, r)

\* An overlapping or adjacent range is joined with the last one.
Join(ranges, r) ==
    LET n == Len(ranges) IN
    IF ranges # <<>> /\ r.start <= ranges[n].end + 1
    THEN [ranges EXCEPT ![n] = [start |-> ranges[n].start,
                                end |-> Larger(ranges[n].end, r.end)]]
    ELSE Append(ranges, r)

(***************************************************************************)
(* Preconditions.  A condition is "none" (absent), "match" or "differ"     *)
(* against the current ETag, and for If-Modified-Since "older", "newer"    *)
(* or "bad" (not a date).                                                  *)
(***************************************************************************)

\* evaluate_preconditions: 0 when the request goes on.
Precondition(conds) ==
    CASE conds.ifMatch = "differ" -> 412
      [] conds.ifMatch # "differ" /\ conds.ifNoneMatch = "match" -> 304
      [] conds.ifMatch # "differ" /\ conds.ifNoneMatch = "none"
             /\ conds.ifModifiedSince = "newer" -> 304
      [] OTHER -> 0

(***************************************************************************)
(* The request.                                                            *)
(***************************************************************************)

Closed == [at |-> 0, left |-> -1]
NoAnswer == [status |-> 0, ranges |-> <<>>]

Init ==
    /\ size \in 0 .. MaxSize
    /\ bytes \in {n \in {size - 1, size} : n >= 0}
    /\ entry = TRUE
    /\ ask \in Asks
    /\ rsp = NoAnswer
    /\ pc = "prepare"
    /\ todo = {} /\ merged = <<>>
    /\ handle = Closed
    /\ part = 1
    /\ body = <<>>

\* The handler ends with an answer that has no body to stream.
Answer(status) ==
    /\ rsp' = [status |-> status, ranges |-> <<>>]
    /\ pc' = "ended"
    /\ UNCHANGED <<size, bytes, entry, ask, todo, merged, handle, part, body>>

\* PrepareDownload, in the database: the entry, its version and its object.
Prepare ==
    /\ pc = "prepare" /\ entry
    /\ pc' = "stat"
    /\ UNCHANGED <<size, bytes, entry, ask, rsp, todo, merged, handle, part, body>>

PrepareMissing == pc = "prepare" /\ ~ entry /\ Answer(404)

\* Faulty variant: any file on disk will do.
AnyFileOnDisk == bytes # -1

\* PrepareDownload, on disk: the file is there and has the size of its row.
OnDisk == bytes = size

Stat ==
    /\ pc = "stat" /\ OnDisk
    /\ pc' = "answer"
    /\ UNCHANGED <<size, bytes, entry, ask, rsp, todo, merged, handle, part, body>>

StatMissing == pc = "stat" /\ ~ OnDisk /\ Answer(404)

\* 304 and 412.
AnswerCondition ==
    /\ pc = "answer" /\ Precondition(ask.conds) # 0
    /\ Answer(Precondition(ask.conds))

AnswerUnsatisfiable ==
    /\ pc = "answer" /\ Precondition(ask.conds) = 0
    /\ ask.range # NoRange /\ Refused(ask.range, size)
    /\ Answer(416)

\* parse_ranges, up to the call of _coalesce_ranges.
ParseRanges ==
    /\ pc = "answer" /\ Precondition(ask.conds) = 0
    /\ ask.range # NoRange /\ ~ Refused(ask.range, size)
    /\ todo' = Resolved(ask.range, size)
    /\ pc' = "coalesce"
    /\ UNCHANGED <<size, bytes, entry, ask, rsp, merged, handle, part, body>>

\* One turn of the loop of _coalesce_ranges.
CoalesceRange ==
    /\ pc = "coalesce"
    /\ \E current \in todo :
          /\ Least(current, todo)
          /\ todo' = todo \ {current}
          /\ merged' = Join(merged, current)
    /\ UNCHANGED <<size, bytes, entry, ask, rsp, pc, handle, part, body>>

\* A GET goes on with the body.
Content(status, ranges) ==
    /\ rsp' = [status |-> status, ranges |-> ranges]
    /\ pc' = IF ask.method = "HEAD" THEN "ended" ELSE "open"
    /\ UNCHANGED <<size, bytes, entry, ask, todo, merged, handle, part, body>>

AnswerWhole ==
    /\ pc = "answer" /\ Precondition(ask.conds) = 0
    /\ ask.range = NoRange
    /\ Content(200, <<>>)

AnswerRanges ==
    /\ pc = "coalesce" /\ todo = {}
    /\ Content(206, merged)

(***************************************************************************)
(* stream_download.                                                        *)
(***************************************************************************)

\* _stream_path opens the file once more for every range; the end of the file
\* ends a range without an error.
Open ==
    /\ pc = "open" /\ bytes # -1
    /\ handle' = IF rsp.ranges = <<>> THEN [at |-> 0, left |-> bytes]
                 ELSE LET r == rsp.ranges[part]
                      IN  [at |-> r.start, left |-> Smaller(r.end + 1, bytes) - r.start]
    /\ pc' = "read"
    /\ UNCHANGED <<size, bytes, entry, ask, rsp, todo, merged, part, body>>

\* The file is gone: the response breaks off.
OpenMissing ==
    /\ pc = "open" /\ bytes = -1
    /\ pc' = "broken"
    /\ UNCHANGED <<size, bytes, entry, ask, rsp, todo, merged, handle, part, body>>

\* min(block_size, remaining); a whole file is read up to its end.
Block(left) == Smaller(BlockSize, left)

\* One block.  The handle keeps an unlinked file readable.
Read ==
    /\ pc = "read" /\ handle.left > 0
    /\ body' = body \o [i \in 1 .. Block(handle.left) |-> handle.at + i - 1]
    /\ handle' = [at |-> handle.at + Block(handle.left),
                  left |-> handle.left - Block(handle.left)]
    /\ UNCHANGED <<size, bytes, entry, ask, rsp, pc, todo, merged, part>>

\* The range is finished: the file is closed and the next range follows.
ClosePart ==
    /\ pc = "read" /\ handle.left <= 0
    /\ handle' = Closed
    /\ IF part < Len(rsp.ranges) THEN part' = part + 1 /\ pc' = "open"
                                 ELSE part' = part /\ pc' = "ended"
    /\ UNCHANGED <<size, bytes, entry, ask, rsp, todo, merged, body>>

\* The client goes away, or a read fails.
Break ==
    /\ pc \in {"open", "read"}
    /\ handle' = Closed
    /\ pc' = "broken"
    /\ UNCHANGED <<size, bytes, entry, ask, rsp, todo, merged, part, body>>

(***************************************************************************)
(* The rest of the system.                                                 *)
(***************************************************************************)

\* The entry is trashed and purged.
PurgeFile ==
    /\ entry
    /\ entry' = FALSE
    /\ UNCHANGED <<size, bytes, ask, rsp, pc, todo, merged, handle, part, body>>

\* The outbox worker deletes the bytes of a purged file.
Unlink ==
    /\ ~ entry /\ bytes # -1
    /\ bytes' = -1
    /\ UNCHANGED <<size, entry, ask, rsp, pc, todo, merged, handle, part, body>>

Handler ==
    \/ Prepare \/ PrepareMissing \/ Stat \/ StatMissing
    \/ AnswerCondition \/ AnswerUnsatisfiable \/ AnswerWhole
    \/ ParseRanges \/ CoalesceRange \/ AnswerRanges
    \/ Open \/ OpenMissing \/ Read \/ ClosePart

Next == Handler \/ Break \/ PurgeFile \/ Unlink

Spec == Init /\ [][Next]_vars

(***************************************************************************)
(* Properties.                                                             *)
(***************************************************************************)

\* Byte b of an n byte file is one that a member asks for, by RFC 9110.
AskedBy(m, n, b) ==
    CASE m.kind = "suffix"    -> b >= n - m.last
      [] m.kind = "from"      -> b >= m.first
      [] m.kind = "both"      -> m.first <= b /\ b <= m.last
      [] m.kind = "malformed" -> FALSE

Requested(range, n) ==
    {b \in 0 .. n - 1 : \E i \in DOMAIN range : AskedBy(range[i], n, b)}

BytesOf(ranges) == UNION {r.start .. r.end : r \in {ranges[i] : i \in DOMAIN ranges}}

\* The ranges of a 206 are exactly the bytes asked for, in order, with a gap
\* between any two: no byte is sent twice, whatever overlaps, and a header of
\* many members costs no more than the file.  A well-formed header within the
\* limit is refused only when the file has none of the bytes it asks for
\* (parse_ranges, _coalesce_ranges).
RangesExact ==
    /\ rsp.status = 206 =>
        /\ BytesOf(rsp.ranges) = Requested(ask.range, size)
        /\ \A i \in DOMAIN rsp.ranges : rsp.ranges[i].start <= rsp.ranges[i].end
        /\ \A i, j \in DOMAIN rsp.ranges :
              i < j => rsp.ranges[i].end + 1 < rsp.ranges[j].start
    /\ rsp.status = 416 =>
        \/ Requested(ask.range, size) = {}
        \/ Len(ask.range) > MaxRanges
        \/ \E i \in DOMAIN ask.range : ask.range[i].kind = "malformed"

\* The bytes that the headers of the answer announce.
Announced == IF rsp.status = 200 THEN 0 .. size - 1 ELSE BytesOf(rsp.ranges)

\* A GET that ends without an error has sent the bytes its headers announced,
\* each once and in the order of the file, even if the file was purged and
\* unlinked on the way or was damaged before the size check; one that breaks off has
\* left out nothing before the last byte it sent (stream_download, _stream_path).
BodyAsAnnounced ==
    rsp.status \in {200, 206} /\ ask.method = "GET" =>
        LET sent == {body[i] : i \in DOMAIN body} IN
        /\ \A i, j \in DOMAIN body : i < j => body[i] < body[j]
        /\ sent \subseteq Announced
        /\ \A b \in sent, a \in Announced : a < b => a \in sent
        /\ pc = "ended" => sent = Announced
==============================================================================
