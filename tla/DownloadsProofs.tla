--------------------------- MODULE DownloadsProofs ---------------------------
(***************************************************************************)
(* What the answer of a download announces and sends, for every size of    *)
(* file, range set, block size and limit on the number of ranges.          *)
(***************************************************************************)
EXTENDS Downloads, SequenceTheorems, TLAPS

(***************************************************************************)
(* The inductive invariant.                                                *)
(***************************************************************************)

\* The ranges of a file of n bytes.
Within(n) == {r \in [start : Nat, end : Nat] : r.start <= r.end /\ r.end < n}

\* The bytes of a set of ranges.
BytesIn(ranges) == UNION {r.start .. r.end : r \in ranges}

Separated(ranges) ==
    \A i, j \in DOMAIN ranges : i < j => ranges[i].end + 1 < ranges[j].start

\* Before the answer, while it is streamed, and after.
Early == {"prepare", "stat", "answer", "coalesce"}
Streaming == {"open", "read"}
Late == {"broken", "ended"}

Statuses == {0, 200, 206, 304, 404, 412, 416}

\* The types of the variables of a download.
TypeOK ==
    /\ size \in Nat /\ bytes \in Int /\ entry \in BOOLEAN /\ ask \in Asks
    /\ rsp \in [status : Statuses, ranges : Seq(Within(size))]
    /\ pc \in Early \cup Streaming \cup Late
    /\ todo \subseteq Within(size) /\ merged \in Seq(Within(size))
    /\ handle \in [at : Nat, left : Int]
    /\ part \in Nat \ {0}
    /\ body \in Seq(Nat)

\* Nothing is answered or sent before the answer.
NothingYet ==
    /\ pc \in Early => rsp = NoAnswer /\ body = <<>> /\ part = 1
    /\ pc \in Early \ {"coalesce"} => merged = <<>>

\* The loop of _coalesce_ranges: the bytes of both lists are those asked for,
\* and what is still to come starts no earlier than what is there.
LoopInv ==
    pc = "coalesce" =>
        /\ Separated(merged)
        /\ \A i \in DOMAIN merged : \A r \in todo : merged[i].start <= r.start
        /\ BytesOf(merged) \cup BytesIn(todo) = Requested(ask.range, size)
        /\ todo # {} \/ merged # <<>>

\* What was checked on disk holds for as long as a file is there.
DiskChecked == pc \in {"answer", "coalesce", "open", "read"} => bytes \in {size, -1}

\* A 206, and no other answer, has ranges.
StatusInv == rsp.status = 206 <=> rsp.ranges # <<>>

\* The range that is streamed; the whole file when the answer has no ranges.
Bounds ==
    IF rsp.status = 206 THEN rsp.ranges[part] ELSE [start |-> 0, end |-> size - 1]

\* The sequence s is the part of a set of bytes below position c, in order.
Prefix(s, set, c) ==
    /\ \A i, j \in DOMAIN s : i < j => s[i] < s[j]
    /\ {s[i] : i \in DOMAIN s} = {b \in set : b < c}

\* The bytes sent are the announced ones below position c.
SentBelow(c) == Prefix(body, Announced, c)

PartInv == rsp.status = 206 /\ pc \in Streaming => part \in DOMAIN rsp.ranges

StreamInv ==
    /\ pc \in Streaming => rsp.status \in {200, 206}
    /\ pc = "open" => SentBelow(Bounds.start)
    /\ pc = "read" =>
        /\ Bounds.start <= handle.at /\ handle.at <= Bounds.end + 1
        /\ handle.left = Bounds.end + 1 - handle.at
        /\ SentBelow(handle.at)
    /\ pc = "broken" => \E c \in Nat : SentBelow(c)
    /\ pc = "ended" /\ rsp.status \in {200, 206} /\ ask.method = "GET" => SentBelow(size)

IndInv ==
    /\ TypeOK /\ NothingYet /\ LoopInv /\ DiskChecked
    /\ StatusInv /\ RangesExact /\ PartInv /\ StreamInv

(***************************************************************************)
(* Ranges.                                                                 *)
(***************************************************************************)

\* A member of a range set resolves to a range of the file or to nothing,
\* and the range has the bytes that RFC 9110 gives the member (parse_ranges).
LEMMA ResolveRange ==
    ASSUME NEW m \in Members, NEW n \in Nat
    PROVE  /\ Resolve(m, n) \in [start : Nat, end : Int]
           /\ Satisfiable(Resolve(m, n)) => Resolve(m, n) \in Within(n)
           /\ \A b \in Int :
                 b \in Resolve(m, n).start .. Resolve(m, n).end <=>
                 b \in 0 .. n - 1 /\ AskedBy(m, n, b)
<1>0. /\ m.first \in Nat /\ m.last \in Int
      /\ m.kind \in {"both", "from", "suffix", "malformed"}
  BY DEF Members
<1>1. CASE m.kind = "malformed"
  BY <1>0, <1>1 DEF Resolve, Satisfiable, AskedBy, Within
<1>2. CASE m.kind = "from"
  BY <1>0, <1>2 DEF Resolve, Satisfiable, AskedBy, Within
<1>3. CASE m.kind = "both"
  BY <1>0, <1>3 DEF Resolve, Satisfiable, AskedBy, Within, Smaller
<1>4. CASE m.kind = "suffix" /\ m.last <= 0
  BY <1>0, <1>4 DEF Resolve, Satisfiable, AskedBy, Within
<1>5. CASE m.kind = "suffix" /\ m.last > 0
  BY <1>0, <1>5 DEF Resolve, Satisfiable, AskedBy, Within, Larger
<1> QED
  BY <1>0, <1>1, <1>2, <1>3, <1>4, <1>5

\* The ranges that parse_ranges resolves are ranges of the file, and together
\* they are the bytes asked for.
LEMMA ResolvedRanges ==
    ASSUME NEW range \in Seq(Members), NEW n \in Nat
    PROVE  /\ Resolved(range, n) \subseteq Within(n)
           /\ BytesIn(Resolved(range, n)) = Requested(range, n)
<1>1. ASSUME NEW i \in DOMAIN range
      PROVE  range[i] \in Members
  BY <1>1
<1>2. Resolved(range, n) \subseteq Within(n)
  BY <1>1, ResolveRange DEF Resolved
<1>3. ASSUME NEW b \in BytesIn(Resolved(range, n))
      PROVE  b \in Requested(range, n)
  <2>1. PICK i \in DOMAIN range : b \in Resolve(range[i], n).start .. Resolve(range[i], n).end
    BY <1>3 DEF BytesIn, Resolved
  <2>2. b \in Int
    BY <2>1, <1>1, ResolveRange
  <2> QED
    BY <2>1, <2>2, <1>1, ResolveRange DEF Requested
<1>4. ASSUME NEW b \in Requested(range, n)
      PROVE  b \in BytesIn(Resolved(range, n))
  <2>1. /\ b \in 0 .. n - 1
        /\ \E i \in DOMAIN range : AskedBy(range[i], n, b)
    BY <1>4 DEF Requested
  <2>2. PICK i \in DOMAIN range : b \in Resolve(range[i], n).start .. Resolve(range[i], n).end
    BY <2>1, <1>1, ResolveRange
  <2>3. Satisfiable(Resolve(range[i], n))
    <3> DEFINE r == Resolve(range[i], n)
    <3>1. r \in [start : Nat, end : Int]
      BY <1>1, ResolveRange
    <3> QED
      BY <2>2, <3>1 DEF Satisfiable
  <2>4. Resolve(range[i], n) \in Resolved(range, n)
    BY <2>3 DEF Resolved
  <2> QED
    BY <2>2, <2>4 DEF BytesIn
<1> QED
  BY <1>2, <1>3, <1>4

\* One turn of the loop of _coalesce_ranges: the ranges stay apart, the bytes
\* of the new one are added and no others, and the starts stay in order.
LEMMA JoinRange ==
    ASSUME NEW n \in Nat, NEW ranges \in Seq(Within(n)), NEW r \in Within(n),
           Separated(ranges),
           \A i \in DOMAIN ranges : ranges[i].start <= r.start
    PROVE  /\ Join(ranges, r) \in Seq(Within(n))
           /\ Join(ranges, r) # <<>>
           /\ Separated(Join(ranges, r))
           /\ \A i \in DOMAIN Join(ranges, r) : Join(ranges, r)[i].start <= r.start
           /\ BytesOf(Join(ranges, r)) = BytesOf(ranges) \cup (r.start .. r.end)
<1> DEFINE k == Len(ranges)
           last == ranges[k]
           wide == [start |-> last.start, end |-> Larger(last.end, r.end)]
           joined == [ranges EXCEPT ![k] = wide]
<1>0. /\ r.start \in Nat /\ r.end \in Nat /\ r.start <= r.end /\ r.end < n
      /\ \A i \in DOMAIN ranges :
            /\ ranges[i].start \in Nat /\ ranges[i].end \in Nat
            /\ ranges[i].start <= ranges[i].end /\ ranges[i].end < n
  <2>1. \A i \in DOMAIN ranges : ranges[i] \in Within(n)
    OBVIOUS
  <2> QED
    BY <2>1 DEF Within
<1>1. CASE ranges # <<>> /\ r.start <= last.end + 1
  <2>1. Join(ranges, r) = joined
    BY <1>1 DEF Join
  <2>2. k \in DOMAIN ranges /\ k \in Nat /\ DOMAIN ranges = 1 .. k
    BY <1>1
  <2>3. wide \in Within(n)
    BY <1>0, <2>2 DEF Within, Larger
  <2>4. /\ joined \in Seq(Within(n)) /\ DOMAIN joined = 1 .. k
        /\ joined[k] = wide /\ \A i \in 1 .. k - 1 : joined[i] = ranges[i]
    BY <2>2, <2>3
  <2>5. joined # <<>>
    BY <2>2, <2>4
  <2> HIDE DEF joined
  <2>6. Separated(joined)
    <3>1. ASSUME NEW i \in 1 .. k, NEW j \in 1 .. k, i < j
          PROVE  joined[i].end + 1 < joined[j].start
      <4>1. i \in 1 .. k - 1 /\ joined[i] = ranges[i] /\ joined[j].start = ranges[j].start
        BY <3>1, <2>2, <2>4
      <4>2. ranges[i].end + 1 < ranges[j].start
        BY <3>1, <2>2 DEF Separated
      <4> QED
        BY <4>1, <4>2
    <3> QED
      BY <3>1, <2>4 DEF Separated
  <2>7. \A i \in DOMAIN joined : joined[i].start <= r.start
    BY <2>2, <2>4
  <2>8. wide.start .. wide.end = (last.start .. last.end) \cup (r.start .. r.end)
    BY <1>0, <1>1, <2>2 DEF Larger
  <2> HIDE DEF wide
  <2>9. BytesOf(joined) = BytesOf(ranges) \cup (r.start .. r.end)
    <3>1. ASSUME NEW b \in BytesOf(joined)
          PROVE  b \in BytesOf(ranges) \cup (r.start .. r.end)
      <4>1. PICK i \in DOMAIN joined : b \in joined[i].start .. joined[i].end
        BY <3>1 DEF BytesOf
      <4>2. CASE i = k
        BY <4>1, <4>2, <2>2, <2>4, <2>8 DEF BytesOf
      <4>3. CASE i # k
        <5>1. i \in 1 .. k - 1
          BY <4>3, <2>2, <2>4
        <5> QED
          BY <5>1, <4>1, <2>2, <2>4 DEF BytesOf
      <4> QED
        BY <4>2, <4>3
    <3>2. ASSUME NEW b \in BytesOf(ranges)
          PROVE  b \in BytesOf(joined)
      <4>1. PICK i \in DOMAIN ranges : b \in ranges[i].start .. ranges[i].end
        BY <3>2 DEF BytesOf
      <4>2. CASE i = k
        BY <4>1, <4>2, <2>2, <2>4, <2>8 DEF BytesOf
      <4>3. CASE i # k
        <5>1. i \in 1 .. k - 1
          BY <4>3, <2>2, <2>4
        <5> QED
          BY <5>1, <4>1, <2>2, <2>4 DEF BytesOf
      <4> QED
        BY <4>2, <4>3
    <3>3. ASSUME NEW b \in r.start .. r.end
          PROVE  b \in BytesOf(joined)
      BY <3>3, <2>2, <2>4, <2>8 DEF BytesOf
    <3> QED
      BY <3>1, <3>2, <3>3
  <2> QED
    BY <2>1, <2>4, <2>5, <2>6, <2>7, <2>9
<1>2. CASE ~ (ranges # <<>> /\ r.start <= last.end + 1)
  <2> DEFINE longer == Append(ranges, r)
  <2>1. Join(ranges, r) = longer
    BY <1>2 DEF Join
  <2>2. /\ longer \in Seq(Within(n)) /\ longer # <<>>
        /\ k \in Nat /\ DOMAIN ranges = 1 .. k /\ DOMAIN longer = 1 .. k + 1
        /\ longer[k + 1] = r /\ \A i \in 1 .. k : longer[i] = ranges[i]
    OBVIOUS
  <2> HIDE DEF longer
  <2>3. \A i \in 1 .. k : ranges[i].end + 1 < r.start
    <3>1. ASSUME NEW i \in 1 .. k
          PROVE  ranges[i].end + 1 < r.start
      <4>1. k \in DOMAIN ranges /\ ranges # <<>>
        BY <2>2
      <4>2. last.end + 1 < r.start
        BY <4>1, <1>0, <1>2
      <4>3. i \in DOMAIN ranges /\ (i = k \/ i < k)
        <5>1. k \in Nat /\ DOMAIN ranges = 1 .. k
          OBVIOUS
        <5> HIDE DEF k
        <5> QED
          BY <5>1, <3>1
      <4>4. \A j \in DOMAIN ranges : i < j => ranges[i].end + 1 < ranges[j].start
        BY <4>3 DEF Separated
      <4>5. /\ ranges[i].end \in Nat /\ last.start \in Nat /\ last.end \in Nat
            /\ last.start <= last.end /\ r.start \in Nat
        BY <4>1, <4>3, <1>0
      <4> QED
        BY <4>1, <4>2, <4>3, <4>4, <4>5
    <3> QED
      BY <3>1
  <2>4. Separated(longer)
    BY <2>2, <2>3 DEF Separated
  <2>5. \A i \in DOMAIN longer : longer[i].start <= r.start
    BY <2>2, <1>0
  <2>6. BytesOf(longer) = BytesOf(ranges) \cup (r.start .. r.end)
    <3>1. ASSUME NEW b \in BytesOf(longer)
          PROVE  b \in BytesOf(ranges) \cup (r.start .. r.end)
      <4>1. PICK i \in DOMAIN longer : b \in longer[i].start .. longer[i].end
        BY <3>1 DEF BytesOf
      <4>2. i = k + 1 \/ i \in 1 .. k
        BY <2>2
      <4> QED
        BY <4>1, <4>2, <2>2 DEF BytesOf
    <3>2. ASSUME NEW b \in BytesOf(ranges)
          PROVE  b \in BytesOf(longer)
      <4>1. PICK i \in DOMAIN ranges : b \in ranges[i].start .. ranges[i].end
        BY <3>2 DEF BytesOf
      <4>2. i \in DOMAIN longer
        BY <2>2
      <4> QED
        BY <4>1, <4>2, <2>2 DEF BytesOf
    <3>3. ASSUME NEW b \in r.start .. r.end
          PROVE  b \in BytesOf(longer)
      <4>1. k + 1 \in DOMAIN longer
        BY <2>2
      <4> QED
        BY <3>3, <4>1, <2>2 DEF BytesOf
    <3> QED
      BY <3>1, <3>2, <3>3
  <2> QED
    BY <2>1, <2>2, <2>4, <2>5, <2>6
<1> QED
  BY <1>1, <1>2

\* In separated ranges the parts follow one another: nothing comes before the
\* first, nothing between two that are adjacent, nothing after the last.
LEMMA PartsFollow ==
    ASSUME NEW n \in Nat, NEW ranges \in Seq(Within(n)), Separated(ranges),
           NEW p \in DOMAIN ranges
    PROVE  /\ BytesOf(ranges) \subseteq 0 .. n - 1
           /\ ranges[p].start .. ranges[p].end \subseteq BytesOf(ranges)
           /\ ranges[p] \in Within(n)
           /\ p = 1 => \A b \in BytesOf(ranges) : ranges[p].start <= b
           /\ p < Len(ranges) =>
                 /\ p + 1 \in DOMAIN ranges
                 /\ ranges[p + 1] \in Within(n)
                 /\ \A b \in BytesOf(ranges) :
                       b < ranges[p + 1].start <=> b < ranges[p].end + 1
           /\ p >= Len(ranges) => \A b \in BytesOf(ranges) : b < ranges[p].end + 1
<1> DEFINE k == Len(ranges)
<1>1. /\ k \in Nat /\ DOMAIN ranges = 1 .. k
      /\ \A i \in 1 .. k : ranges[i] \in Within(n)
  OBVIOUS
<1> HIDE DEF k
<1>2. \A i \in 1 .. k :
         /\ ranges[i].start \in Nat /\ ranges[i].end \in Nat
         /\ ranges[i].start <= ranges[i].end /\ ranges[i].end < n
  BY <1>1 DEF Within
<1>3. \A i, j \in 1 .. k : i < j => ranges[i].end + 1 < ranges[j].start
  BY <1>1 DEF Separated
<1>4. \A b \in BytesOf(ranges) : \E i \in 1 .. k : b \in ranges[i].start .. ranges[i].end
  BY <1>1 DEF BytesOf
<1>5. BytesOf(ranges) \subseteq 0 .. n - 1
  <2>1. ASSUME NEW b \in BytesOf(ranges)
        PROVE  b \in 0 .. n - 1
    <3>1. PICK i \in 1 .. k : b \in ranges[i].start .. ranges[i].end
      BY <1>4
    <3> QED
      BY <3>1, <1>2
  <2> QED
    BY <2>1
<1>6. ranges[p].start .. ranges[p].end \subseteq BytesOf(ranges)
  BY DEF BytesOf
<1>7. ASSUME p = 1, NEW b \in BytesOf(ranges)
      PROVE  ranges[p].start <= b
  <2>1. PICK i \in 1 .. k : b \in ranges[i].start .. ranges[i].end
    BY <1>4
  <2>2. i = 1 \/ (1 < i /\ 1 \in 1 .. k)
    BY <1>1
  <2> QED
    BY <2>1, <2>2, <1>2, <1>3, <1>7
<1>8. ASSUME p < k, NEW b \in BytesOf(ranges)
      PROVE  b < ranges[p + 1].start <=> b < ranges[p].end + 1
  <2>1. PICK i \in 1 .. k : b \in ranges[i].start .. ranges[i].end
    BY <1>4
  <2>2. p \in 1 .. k /\ p + 1 \in 1 .. k /\ p < p + 1
    BY <1>1, <1>8
  <2>3. ranges[p].end + 1 < ranges[p + 1].start
    BY <2>2, <1>3
  <2>4. /\ ranges[p].end \in Nat /\ ranges[p].start <= ranges[p].end
        /\ ranges[p + 1].start \in Nat /\ ranges[p + 1].start <= ranges[p + 1].end
        /\ ranges[p].start \in Nat /\ ranges[p + 1].end \in Nat
        /\ ranges[i].start \in Nat /\ ranges[i].end \in Nat
    BY <2>2, <1>2
  <2>5. b \in Int /\ ranges[i].start <= b /\ b <= ranges[i].end
    BY <2>1, <2>4
  <2>6. CASE i <= p
    <3>1. i = p \/ i < p
      BY <2>2, <2>6
    <3>2. i = p \/ ranges[i].end + 1 < ranges[p].start
      BY <3>1, <2>2, <1>3
    <3>3. b <= ranges[p].end
      <4>1. CASE i = p
        BY <4>1, <2>5
      <4>2. CASE ranges[i].end + 1 < ranges[p].start
        BY <4>2, <2>4, <2>5
      <4> QED
        BY <4>1, <4>2, <3>2
    <3> QED
      BY <3>3, <2>3, <2>4, <2>5
  <2>7. CASE p + 1 <= i
    <3>1. i = p + 1 \/ p + 1 < i
      BY <2>2, <2>7
    <3>2. i = p + 1 \/ ranges[p + 1].end + 1 < ranges[i].start
      BY <3>1, <2>2, <1>3
    <3>3. ranges[p + 1].start <= b
      <4>1. CASE i = p + 1
        BY <4>1, <2>5
      <4>2. CASE ranges[p + 1].end + 1 < ranges[i].start
        BY <4>2, <2>4, <2>5
      <4> QED
        BY <4>1, <4>2, <3>2
    <3> QED
      BY <3>3, <2>3, <2>4, <2>5
  <2> QED
    BY <2>2, <2>6, <2>7
<1>9. ASSUME p >= k, NEW b \in BytesOf(ranges)
      PROVE  b < ranges[p].end + 1
  <2>1. PICK i \in 1 .. k : b \in ranges[i].start .. ranges[i].end
    BY <1>4
  <2>2. p \in 1 .. k /\ p = k
    BY <1>1, <1>9
  <2>3. i = p \/ ranges[i].end + 1 < ranges[p].start
    BY <2>2, <1>3
  <2> QED
    BY <2>1, <2>2, <2>3, <1>2
<1>10. p < k => p + 1 \in 1 .. k
  BY <1>1
<1> QED
  BY <1>1, <1>5, <1>6, <1>7, <1>8, <1>9, <1>10 DEF k

(***************************************************************************)
(* The steps up to the answer.                                             *)
(***************************************************************************)

\* A request is one of those that the header parser hands on.
LEMMA AskType ==
    ASSUME TypeOK
    PROVE  ask.method \in {"GET", "HEAD"} /\ ask.range \in Seq(Members)
BY DownloadsAssumption DEF DownloadsAssumption, TypeOK

\* evaluate_preconditions answers 304 or 412, or lets the request go on.
LEMMA PreconditionStatus ==
    ASSUME NEW conds
    PROVE  Precondition(conds) \in {0, 304, 412}
BY DEF Precondition

\* The invariant holds when a request arrives.
LEMMA InitInv == Init => IndInv
<1> SUFFICES ASSUME Init PROVE IndInv
  OBVIOUS
<1>1. TypeOK
  <2>1. size \in Nat
    BY DownloadsAssumption DEF DownloadsAssumption, Init
  <2> QED
    BY <2>1 DEF Init, TypeOK, NoAnswer, Closed, Early, Statuses
<1>2. NothingYet
  BY DEF Init, NothingYet
<1>3. pc = "prepare" /\ rsp.status = 0 /\ rsp.ranges = <<>>
  BY DEF Init, NoAnswer
<1> QED
  BY <1>1, <1>2, <1>3 DEF IndInv, LoopInv, DiskChecked, StatusInv, RangesExact,
                          PartInv, StreamInv, Streaming

\* While the file is looked up, only the place in the handler changes.
LEMMA LookupStep == IndInv /\ (Prepare \/ Stat) => IndInv'
<1> SUFFICES ASSUME IndInv, Prepare \/ Stat PROVE IndInv'
  OBVIOUS
<1>1. /\ pc \in {"prepare", "stat"} /\ pc' \in {"stat", "answer"}
      /\ pc' = "answer" => bytes = size
      /\ UNCHANGED <<size, bytes, entry, ask, rsp, todo, merged, handle, part, body>>
  BY DEF Prepare, Stat, OnDisk
<1>2. TypeOK'
  BY <1>1 DEF IndInv, TypeOK, Early
<1>3. NothingYet' /\ rsp.status = 0 /\ rsp.ranges = <<>>
  BY <1>1 DEF IndInv, NothingYet, Early, NoAnswer
<1> QED
  BY <1>1, <1>2, <1>3 DEF IndInv, LoopInv, DiskChecked, StatusInv, RangesExact,
                          PartInv, StreamInv, Streaming

\* An answer without content sends nothing; a 416 is given only to a header
\* that is malformed, too long or without a byte of the file.
LEMMA AnswerStep ==
    ASSUME IndInv, pc \in Early, NEW status \in {304, 404, 412, 416}, Answer(status),
           status = 416 => Refused(ask.range, size)
    PROVE  IndInv'
<1>1. /\ rsp' = [status |-> status, ranges |-> <<>>] /\ pc' = "ended"
      /\ UNCHANGED <<size, bytes, entry, ask, todo, merged, handle, part, body>>
  BY DEF Answer
<1>2. TypeOK'
  BY <1>1 DEF IndInv, TypeOK, Late, Statuses
<1>3. rsp'.status = status /\ rsp'.ranges = <<>>
  BY <1>1
<1>4. RangesExact'
  <2>1. CASE status = 416
    <3>1. size \in Nat /\ ask.range \in Seq(Members)
      BY AskType DEF IndInv, TypeOK
    <3>2. Resolved(ask.range, size) = {} => Requested(ask.range, size) = {}
      BY <3>1, ResolvedRanges DEF BytesIn
    <3>3. size = 0 => Requested(ask.range, size) = {}
      BY DEF Requested
    <3> QED
      BY <2>1, <3>2, <3>3, <1>1, <1>3 DEF Refused, RangesExact
  <2> QED
    BY <2>1, <1>3 DEF RangesExact
<1> QED
  BY <1>1, <1>2, <1>3, <1>4 DEF IndInv, NothingYet, LoopInv, DiskChecked, StatusInv,
                               PartInv, StreamInv, Early, Streaming

\* parse_ranges hands a range of the file, or several, to _coalesce_ranges.
LEMMA ParseStep == IndInv /\ ParseRanges => IndInv'
<1> SUFFICES ASSUME IndInv, ParseRanges PROVE IndInv'
  OBVIOUS
<1>1. /\ pc = "answer" /\ pc' = "coalesce"
      /\ ~ Refused(ask.range, size) /\ todo' = Resolved(ask.range, size)
      /\ UNCHANGED <<size, bytes, entry, ask, rsp, merged, handle, part, body>>
  BY DEF ParseRanges
<1>2. size \in Nat /\ ask.range \in Seq(Members)
  BY AskType DEF IndInv, TypeOK
<1>3. /\ todo' \subseteq Within(size) /\ todo' # {}
      /\ BytesIn(todo') = Requested(ask.range, size)
  BY <1>1, <1>2, ResolvedRanges DEF Refused
<1>4. TypeOK'
  BY <1>1, <1>3 DEF IndInv, TypeOK, Early
<1>5. NothingYet' /\ merged = <<>> /\ rsp.status = 0 /\ rsp.ranges = <<>>
  BY <1>1 DEF IndInv, NothingYet, Early, NoAnswer
<1>6. LoopInv'
  <2>1. BytesOf(<<>>) = {}
    BY DEF BytesOf
  <2>2. Separated(<<>>)
    BY DEF Separated
  <2> QED
    BY <2>1, <2>2, <1>1, <1>3, <1>5 DEF LoopInv
<1> QED
  BY <1>1, <1>4, <1>5, <1>6 DEF IndInv, DiskChecked, StatusInv, RangesExact,
                               PartInv, StreamInv, Streaming

\* A turn of the loop of _coalesce_ranges keeps the invariant of the loop.
LEMMA CoalesceStep == IndInv /\ CoalesceRange => IndInv'
<1> SUFFICES ASSUME IndInv, CoalesceRange PROVE IndInv'
  OBVIOUS
<1>1. PICK r \in todo : /\ Least(r, todo) /\ todo' = todo \ {r}
                        /\ merged' = Join(merged, r)
  BY DEF CoalesceRange
<1>2. /\ pc = "coalesce" /\ pc' = "coalesce"
      /\ UNCHANGED <<size, bytes, entry, ask, rsp, handle, part, body>>
  BY DEF CoalesceRange
<1>3. /\ size \in Nat /\ todo \subseteq Within(size) /\ merged \in Seq(Within(size))
      /\ r \in Within(size)
  BY DEF IndInv, TypeOK
<1>4. /\ Separated(merged) /\ \A i \in DOMAIN merged : merged[i].start <= r.start
      /\ BytesOf(merged) \cup BytesIn(todo) = Requested(ask.range, size)
  BY <1>2 DEF IndInv, LoopInv
<1>5. /\ merged' \in Seq(Within(size)) /\ merged' # <<>> /\ Separated(merged')
      /\ \A i \in DOMAIN merged' : merged'[i].start <= r.start
      /\ BytesOf(merged') = BytesOf(merged) \cup (r.start .. r.end)
  BY <1>1, <1>3, <1>4, JoinRange
<1>6. TypeOK'
  BY <1>1, <1>2, <1>5 DEF IndInv, TypeOK
<1>7. LoopInv'
  <2>1. ASSUME NEW i \in DOMAIN merged', NEW q \in todo'
        PROVE  merged'[i].start <= q.start
    <3>1. q \in todo /\ r.start <= q.start /\ q.start \in Nat /\ r.start \in Nat
      BY <1>1, <1>3 DEF Least, Within
    <3>2. merged'[i] \in Within(size)
      BY <1>5
    <3>3. merged'[i].start \in Nat
      BY <3>2 DEF Within
    <3> QED
      BY <3>1, <3>3, <1>5
  <2>2. BytesIn(todo) = BytesIn(todo') \cup (r.start .. r.end)
    BY <1>1 DEF BytesIn
  <2> QED
    BY <2>1, <2>2, <1>2, <1>4, <1>5 DEF LoopInv
<1>8. NothingYet' /\ rsp.status = 0 /\ rsp.ranges = <<>>
  BY <1>2 DEF IndInv, NothingYet, Early, NoAnswer
<1> QED
  BY <1>2, <1>6, <1>7, <1>8 DEF IndInv, DiskChecked, StatusInv, RangesExact,
                               PartInv, StreamInv, Streaming

(***************************************************************************)
(* The answer and the stream.                                              *)
(***************************************************************************)

\* A prefix depends only on which bytes lie below its bound.
LEMMA PrefixSame ==
    ASSUME NEW s, NEW set, NEW c, NEW d, Prefix(s, set, c),
           \A b \in set : b < c <=> b < d
    PROVE  Prefix(s, set, d)
BY DEF Prefix

\* A block that starts at the bound of a prefix makes it longer, in order.
LEMMA PrefixExtended ==
    ASSUME NEW s \in Seq(Nat), NEW set \in SUBSET Int, NEW at \in Nat, NEW k \in Nat,
           at .. at + k - 1 \subseteq set, Prefix(s, set, at)
    PROVE  /\ s \o [i \in 1 .. k |-> at + i - 1] \in Seq(Nat)
           /\ Prefix(s \o [i \in 1 .. k |-> at + i - 1], set, at + k)
<1> DEFINE block == [i \in 1 .. k |-> at + i - 1]
           n == Len(s)
           t == s \o block
<1>1. block \in Seq(Nat) /\ Len(block) = k /\ \A i \in 1 .. k : block[i] = at + i - 1
  <2>1. \A i \in 1 .. k : at + i - 1 \in Nat
    OBVIOUS
  <2>2. block \in [1 .. k -> Nat]
    BY <2>1
  <2> QED
    BY <2>2
<1>2. n \in Nat /\ DOMAIN s = 1 .. n /\ \A i \in 1 .. n : s[i] \in Nat
  OBVIOUS
<1> HIDE DEF block
<1>3. /\ t \in Seq(Nat) /\ Len(t) = n + k /\ DOMAIN t = 1 .. n + k
      /\ \A i \in 1 .. n : t[i] = s[i]
      /\ \A i \in n + 1 .. n + k : t[i] = block[i - n]
  <2>1. /\ t \in Seq(Nat) /\ Len(t) = n + k
        /\ \A i \in 1 .. n + k : t[i] = IF i <= n THEN s[i] ELSE block[i - n]
    BY <1>1, ConcatProperties
  <2> HIDE DEF t, n
  <2>2. /\ \A i \in 1 .. n : i \in 1 .. n + k /\ i <= n
        /\ \A i \in n + 1 .. n + k : i \in 1 .. n + k /\ ~ (i <= n)
    BY <1>2
  <2> QED
    BY <2>1, <2>2
<1> HIDE DEF t, n
<1>4. \A i \in n + 1 .. n + k : t[i] = at + (i - n) - 1
  <2>1. ASSUME NEW i \in n + 1 .. n + k
        PROVE  t[i] = at + (i - n) - 1
    <3>1. i - n \in 1 .. k
      BY <1>2
    <3> QED
      BY <3>1, <1>1, <1>3
  <2> QED
    BY <2>1
<1>5. \A i \in 1 .. n : s[i] \in set /\ s[i] < at
  BY <1>2 DEF Prefix
<1>6. ASSUME NEW i \in 1 .. n + k, NEW j \in 1 .. n + k, i < j
      PROVE  t[i] < t[j]
  <2>1. CASE j <= n
    <3>1. i \in 1 .. n /\ j \in 1 .. n
      BY <1>2, <1>6, <2>1
    <3> QED
      BY <3>1, <1>2, <1>3, <1>6 DEF Prefix
  <2>2. CASE i <= n /\ j > n
    <3>1. i \in 1 .. n /\ j \in n + 1 .. n + k
      BY <1>2, <2>2
    <3>2. t[i] \in Nat /\ t[i] < at
      BY <3>1, <1>2, <1>3, <1>5
    <3>3. t[j] = at + (j - n) - 1
      BY <3>1, <1>4
    <3> QED
      BY <3>1, <3>2, <3>3, <1>2
  <2>3. CASE i > n
    <3>1. i \in n + 1 .. n + k /\ j \in n + 1 .. n + k
      BY <1>2, <1>6, <2>3
    <3>2. t[i] = at + (i - n) - 1 /\ t[j] = at + (j - n) - 1
      BY <3>1, <1>4
    <3> QED
      BY <3>1, <3>2, <1>2, <1>6
  <2> QED
    BY <1>2, <2>1, <2>2, <2>3
<1>7. ASSUME NEW i \in 1 .. n + k
      PROVE  t[i] \in set /\ t[i] < at + k
  <2>1. CASE i <= n
    <3>1. i \in 1 .. n
      BY <1>2, <2>1
    <3>2. t[i] \in Nat /\ t[i] < at /\ t[i] \in set
      BY <3>1, <1>2, <1>3, <1>5
    <3> QED
      BY <3>2
  <2>2. CASE i > n
    <3>1. i \in n + 1 .. n + k
      BY <1>2, <2>2
    <3>2. t[i] = at + (i - n) - 1
      BY <3>1, <1>4
    <3>3. t[i] \in at .. at + k - 1
      BY <3>1, <3>2, <1>2
    <3> QED
      BY <3>3
  <2> QED
    BY <1>2, <2>1, <2>2
<1>8. ASSUME NEW b \in set, b < at + k
      PROVE  \E i \in 1 .. n + k : t[i] = b
  <2>1. CASE b < at
    <3>1. PICK i \in 1 .. n : s[i] = b
      BY <2>1, <1>2 DEF Prefix
    <3>2. i \in 1 .. n + k
      BY <1>2
    <3> QED
      BY <3>1, <3>2, <1>3
  <2>2. CASE b >= at
    <3>1. n + (b - at) + 1 \in n + 1 .. n + k
      BY <1>2, <1>8, <2>2
    <3>2. n + (b - at) + 1 \in 1 .. n + k
      BY <1>2, <3>1
    <3>3. t[n + (b - at) + 1] = at + ((n + (b - at) + 1) - n) - 1
      BY <3>1, <1>4
    <3>4. at + ((n + (b - at) + 1) - n) - 1 = b
      BY <1>2
    <3> QED
      BY <3>2, <3>3, <3>4
  <2> QED
    BY <2>1, <2>2
<1>9. Prefix(t, set, at + k)
  <2>1. {t[i] : i \in DOMAIN t} \subseteq {b \in set : b < at + k}
    BY <1>3, <1>7
  <2>2. {b \in set : b < at + k} \subseteq {t[i] : i \in DOMAIN t}
    BY <1>3, <1>8
  <2> QED
    BY <2>1, <2>2, <1>3, <1>6 DEF Prefix
<1> QED
  BY <1>3, <1>9 DEF t, block

\* The range that is streamed lies in the file and its bytes are announced.
LEMMA StreamedRange ==
    ASSUME IndInv, pc \in Streaming
    PROVE  /\ size \in Nat /\ rsp.status \in {200, 206}
           /\ Bounds.start \in Nat /\ Bounds.end \in Int
           /\ Bounds.start <= Bounds.end + 1 /\ Bounds.end < size
           /\ Bounds.start .. Bounds.end \subseteq Announced
           /\ Announced \subseteq 0 .. size - 1
<1>1. size \in Nat /\ rsp.status \in {200, 206} /\ rsp.ranges \in Seq(Within(size))
  BY DEF IndInv, TypeOK, StreamInv
<1>2. CASE rsp.status = 200
  BY <1>1, <1>2 DEF Bounds, Announced
<1>3. CASE rsp.status = 206
  <2>1. part \in DOMAIN rsp.ranges /\ Separated(rsp.ranges)
    BY <1>3 DEF IndInv, PartInv, RangesExact, Separated
  <2>2. /\ rsp.ranges[part] \in Within(size)
        /\ rsp.ranges[part].start .. rsp.ranges[part].end \subseteq BytesOf(rsp.ranges)
        /\ BytesOf(rsp.ranges) \subseteq 0 .. size - 1
    BY <1>1, <2>1, PartsFollow
  <2>3. Bounds = rsp.ranges[part] /\ Announced = BytesOf(rsp.ranges)
    BY <1>3 DEF Bounds, Announced
  <2>4. /\ Bounds.start \in Nat /\ Bounds.end \in Nat
        /\ Bounds.start <= Bounds.end /\ Bounds.end < size
    BY <2>2, <2>3 DEF Within
  <2> QED
    BY <1>1, <2>2, <2>3, <2>4
<1> QED
  BY <1>1, <1>2, <1>3

\* The answer with content: a 206 has the coalesced ranges, and nothing that it
\* announces comes before the first of them.
LEMMA ContentStep ==
    ASSUME IndInv, NEW status, NEW ranges, Content(status, ranges),
           \/ pc = "answer" /\ status = 200 /\ ranges = <<>>
           \/ pc = "coalesce" /\ todo = {} /\ status = 206 /\ ranges = merged
    PROVE  IndInv'
<1>1. /\ rsp'.status = status /\ rsp'.ranges = ranges
      /\ pc' = IF ask.method = "HEAD" THEN "ended" ELSE "open"
      /\ UNCHANGED <<size, bytes, entry, ask, todo, merged, handle, part, body>>
  BY DEF Content
<1>2. pc \in Early /\ part = 1 /\ body = <<>> /\ size \in Nat
  BY DEF IndInv, NothingYet, TypeOK, Early
<1>3. TypeOK'
  <2>1. /\ TypeOK /\ merged \in Seq(Within(size)) /\ <<>> \in Seq(Within(size))
        /\ rsp' = [status |-> status, ranges |-> ranges]
    BY DEF IndInv, TypeOK, Content
  <2>2. ranges \in Seq(Within(size)) /\ status \in Statuses
    BY <2>1 DEF Statuses
  <2>3. pc' \in Early \cup Streaming \cup Late
    BY <1>1 DEF Streaming, Late
  <2> QED
    BY <2>1, <2>2, <2>3, <1>1 DEF TypeOK
<1>4. NothingYet' /\ LoopInv'
  BY <1>1 DEF NothingYet, LoopInv, Early
<1>5. DiskChecked'
  BY <1>1 DEF IndInv, DiskChecked
<1>6. status = 206 =>
         /\ ranges \in Seq(Within(size)) /\ ranges # <<>> /\ Separated(ranges)
         /\ BytesOf(ranges) = Requested(ask.range, size)
  <2>1. BytesIn({}) = {}
    BY DEF BytesIn
  <2>2. status = 206 => pc = "coalesce" /\ todo = {} /\ ranges = merged
    OBVIOUS
  <2>3. TypeOK /\ LoopInv
    BY DEF IndInv
  <2> QED
    BY <2>1, <2>2, <2>3 DEF TypeOK, LoopInv
<1>7. StatusInv'
  BY <1>1, <1>6 DEF StatusInv
<1>8. RangesExact'
  <2>1. CASE status = 206
    <3>1. \A i \in DOMAIN ranges : ranges[i] \in Within(size)
      BY <2>1, <1>6
    <3>2. \A i \in DOMAIN ranges : ranges[i].start <= ranges[i].end
      BY <3>1 DEF Within
    <3> QED
      BY <3>2, <2>1, <1>1, <1>6 DEF RangesExact, Separated
  <2> QED
    BY <2>1, <1>1 DEF RangesExact
<1>9. status = 206 => 1 \in DOMAIN ranges
  BY <1>6
<1>10. PartInv'
  BY <1>1, <1>2, <1>9 DEF PartInv
<1>11. SentBelow(Bounds.start)'
  <2>1. CASE status = 200
    <3>1. Bounds'.start = 0 /\ Announced' = 0 .. size - 1
      BY <2>1, <1>1 DEF Bounds, Announced
    <3> QED
      BY <3>1, <1>1, <1>2 DEF SentBelow, Prefix
  <2>2. CASE status = 206
    <3>1. Bounds' = ranges[1] /\ Announced' = BytesOf(ranges)
      BY <2>2, <1>1, <1>2 DEF Bounds, Announced
    <3>2. /\ ranges[1] \in Within(size) /\ BytesOf(ranges) \subseteq 0 .. size - 1
          /\ \A b \in BytesOf(ranges) : ranges[1].start <= b
      BY <2>2, <1>2, <1>6, <1>9, PartsFollow
    <3>3. ranges[1].start \in Nat
      BY <3>2 DEF Within
    <3>4. {b \in BytesOf(ranges) : b < ranges[1].start} = {}
      BY <3>2, <3>3
    <3> QED
      BY <3>1, <3>4, <1>1, <1>2 DEF SentBelow, Prefix
  <2> QED
    BY <2>1, <2>2
<1>12. StreamInv'
  BY <1>1, <1>11 DEF StreamInv, Streaming
<1> QED
  BY <1>3, <1>4, <1>5, <1>7, <1>8, <1>10, <1>12 DEF IndInv

\* What a step leaves alone when it keeps the request, its answer and the file.
KeptFacts ==
    /\ NothingYet' /\ LoopInv' /\ StatusInv' /\ RangesExact'
    /\ Announced' = Announced

\* A step of the stream keeps the request, its answer and the size of the file.
LEMMA StreamKeeps ==
    ASSUME IndInv, pc \in Streaming, pc' \in Streaming \cup Late,
           UNCHANGED <<size, ask, rsp>>
    PROVE  KeptFacts
<1>1. ~ (pc' \in Early) /\ pc' # "coalesce"
  BY DEF Early, Streaming, Late
<1>2. NothingYet' /\ LoopInv'
  BY <1>1 DEF NothingYet, LoopInv
<1>3. StatusInv' /\ RangesExact'
  BY DEF IndInv, StatusInv, RangesExact
<1>4. Announced' = Announced
  BY DEF Announced
<1> QED
  BY <1>2, <1>3, <1>4 DEF KeptFacts

\* The file that is opened has the size that was checked, so that the bytes to
\* read are those of the range.
LEMMA OpenStep == IndInv /\ Open => IndInv'
<1> SUFFICES ASSUME IndInv, Open PROVE IndInv'
  OBVIOUS
<1>1. /\ pc = "open" /\ bytes # -1 /\ pc' = "read"
      /\ UNCHANGED <<size, bytes, entry, ask, rsp, todo, merged, part, body>>
  BY DEF Open
<1>2. pc \in Streaming /\ pc' \in Streaming \cup Late
  BY <1>1 DEF Streaming
<1>3. KeptFacts
  BY <1>1, <1>2, StreamKeeps
<1>4. /\ size \in Nat /\ rsp.status \in {200, 206}
      /\ Bounds.start \in Nat /\ Bounds.end \in Int
      /\ Bounds.start <= Bounds.end + 1 /\ Bounds.end < size
  BY <1>2, StreamedRange
<1>5. bytes = size
  BY <1>1 DEF IndInv, DiskChecked
<1>6. handle' = [at |-> Bounds.start, left |-> Bounds.end + 1 - Bounds.start]
  <2>1. CASE rsp.status = 206
    <3>1. rsp.ranges # <<>> /\ Bounds = rsp.ranges[part]
      BY <2>1 DEF IndInv, StatusInv, Bounds
    <3>2. handle' = [at |-> Bounds.start,
                     left |-> Smaller(Bounds.end + 1, bytes) - Bounds.start]
      BY <3>1 DEF Open
    <3>3. Smaller(Bounds.end + 1, bytes) = Bounds.end + 1
      BY <1>4, <1>5 DEF Smaller
    <3> QED
      BY <3>2, <3>3, <1>4
  <2>2. CASE rsp.status = 200
    <3>1. rsp.ranges = <<>> /\ Bounds = [start |-> 0, end |-> size - 1]
      BY <2>2 DEF IndInv, StatusInv, Bounds
    <3>2. size - 1 + 1 - 0 = size
      BY <1>4
    <3> QED
      BY <3>1, <3>2, <1>5 DEF Open
  <2> QED
    BY <2>1, <2>2, <1>4
<1>7. TypeOK'
  BY <1>1, <1>4, <1>6 DEF IndInv, TypeOK, Streaming
<1>8. PartInv' /\ DiskChecked'
  BY <1>1, <1>2 DEF IndInv, PartInv, DiskChecked
<1>9. StreamInv'
  <2>1. Bounds' = Bounds
    BY <1>1 DEF Bounds
  <2>2. handle'.at = Bounds.start /\ handle'.left = Bounds.end + 1 - Bounds.start
    BY <1>6
  <2>3. Prefix(body, Announced, Bounds.start)
    BY <1>1 DEF IndInv, StreamInv, SentBelow
  <2> QED
    BY <2>1, <2>2, <2>3, <1>1, <1>3, <1>4 DEF StreamInv, SentBelow, KeptFacts
<1> QED
  BY <1>3, <1>7, <1>8, <1>9 DEF IndInv, KeptFacts

\* A block adds the next announced bytes, and no others.
LEMMA ReadStep == IndInv /\ Read => IndInv'
<1> SUFFICES ASSUME IndInv, Read PROVE IndInv'
  OBVIOUS
<1> DEFINE k == Block(handle.left)
<1>1. /\ pc = "read" /\ pc' = "read" /\ handle.left > 0
      /\ body' = body \o [i \in 1 .. k |-> handle.at + i - 1]
      /\ handle' = [at |-> handle.at + k, left |-> handle.left - k]
      /\ UNCHANGED <<size, bytes, entry, ask, rsp, todo, merged, part>>
  BY DEF Read
<1>2. pc \in Streaming /\ pc' \in Streaming \cup Late
  BY <1>1 DEF Streaming
<1>3. KeptFacts
  BY <1>1, <1>2, StreamKeeps
<1>4. /\ size \in Nat /\ rsp.status \in {200, 206}
      /\ Bounds.start \in Nat /\ Bounds.end \in Int /\ Bounds.end < size
      /\ Bounds.start .. Bounds.end \subseteq Announced
      /\ Announced \subseteq 0 .. size - 1
  BY <1>2, StreamedRange
<1>5. /\ handle.at \in Nat /\ handle.left \in Int
      /\ Bounds.start <= handle.at /\ handle.at <= Bounds.end + 1
      /\ handle.left = Bounds.end + 1 - handle.at
      /\ Prefix(body, Announced, handle.at)
  BY <1>1 DEF IndInv, TypeOK, StreamInv, SentBelow
<1>6. k \in Nat /\ k <= handle.left
  BY <1>1, <1>5, DownloadsAssumption DEF DownloadsAssumption, Block, Smaller
<1> HIDE DEF k
<1>7. handle.at .. handle.at + k - 1 \subseteq Announced
  <2>1. handle.at .. handle.at + k - 1 \subseteq Bounds.start .. Bounds.end
    BY <1>4, <1>5, <1>6
  <2> QED
    BY <2>1, <1>4
<1>8. body' \in Seq(Nat) /\ Prefix(body', Announced, handle.at + k)
  <2>1. Announced \in SUBSET Int
    BY <1>4
  <2>2. body \in Seq(Nat)
    BY DEF IndInv, TypeOK
  <2> QED
    BY <2>1, <2>2, <1>1, <1>5, <1>6, <1>7, PrefixExtended
<1>9. TypeOK'
  <2>1. handle' \in [at : Nat, left : Int]
    BY <1>1, <1>5, <1>6
  <2> QED
    BY <2>1, <1>1, <1>8 DEF IndInv, TypeOK, Streaming
<1>10. PartInv' /\ DiskChecked'
  BY <1>1, <1>2 DEF IndInv, PartInv, DiskChecked
<1>11. StreamInv'
  <2>1. Bounds' = Bounds
    BY <1>1 DEF Bounds
  <2>2. handle'.at = handle.at + k /\ handle'.left = handle.left - k
    BY <1>1
  <2>3. /\ Bounds.start <= handle.at + k /\ handle.at + k <= Bounds.end + 1
        /\ handle.left - k = Bounds.end + 1 - (handle.at + k)
    BY <1>4, <1>5, <1>6
  <2> QED
    BY <2>1, <2>2, <2>3, <1>1, <1>3, <1>4, <1>8 DEF StreamInv, SentBelow, KeptFacts
<1> QED
  BY <1>3, <1>9, <1>10, <1>11 DEF IndInv, KeptFacts

\* After a range the next one follows without an announced byte between them;
\* after the last one everything announced is sent.
LEMMA CloseStep == IndInv /\ ClosePart => IndInv'
<1> SUFFICES ASSUME IndInv, ClosePart PROVE IndInv'
  OBVIOUS
<1>1. /\ pc = "read" /\ handle.left <= 0 /\ handle' = Closed
      /\ \/ part < Len(rsp.ranges) /\ part' = part + 1 /\ pc' = "open"
         \/ ~ (part < Len(rsp.ranges)) /\ part' = part /\ pc' = "ended"
      /\ UNCHANGED <<size, bytes, entry, ask, rsp, todo, merged, body>>
  BY DEF ClosePart
<1>2. pc \in Streaming /\ pc' \in Streaming \cup Late
  BY <1>1 DEF Streaming, Late
<1>3. KeptFacts
  BY <1>1, <1>2, StreamKeeps
<1>4. /\ size \in Nat /\ rsp.status \in {200, 206}
      /\ Bounds.start \in Nat /\ Bounds.end \in Int /\ Bounds.end < size
      /\ Announced \subseteq 0 .. size - 1
  BY <1>2, StreamedRange
<1>5. handle.at = Bounds.end + 1 /\ Prefix(body, Announced, Bounds.end + 1)
  <2>1. /\ handle.at \in Nat /\ handle.at <= Bounds.end + 1
        /\ handle.left = Bounds.end + 1 - handle.at
        /\ Prefix(body, Announced, handle.at)
    BY <1>1 DEF IndInv, TypeOK, StreamInv, SentBelow
  <2>2. handle.at = Bounds.end + 1
    BY <2>1, <1>1, <1>4
  <2> QED
    BY <2>1, <2>2
<1>6. /\ part \in Nat \ {0} /\ rsp.ranges \in Seq(Within(size))
      /\ rsp.status = 206 => part \in DOMAIN rsp.ranges /\ Separated(rsp.ranges)
      /\ rsp.status = 200 => Len(rsp.ranges) = 0
  BY <1>2 DEF IndInv, TypeOK, PartInv, StatusInv, RangesExact, Separated
<1>7. TypeOK'
  <2>1. handle' \in [at : Nat, left : Int] /\ part' \in Nat \ {0}
    BY <1>1, <1>6 DEF Closed
  <2> QED
    BY <2>1, <1>1, <1>2 DEF IndInv, TypeOK
<1>8. CASE pc' = "open"
  <2>1. part < Len(rsp.ranges) /\ part' = part + 1 /\ rsp.status = 206
    BY <1>1, <1>4, <1>6, <1>8
  <2>2. /\ part + 1 \in DOMAIN rsp.ranges
        /\ rsp.ranges[part + 1] \in Within(size)
        /\ \A b \in BytesOf(rsp.ranges) :
              b < rsp.ranges[part + 1].start <=> b < rsp.ranges[part].end + 1
    BY <2>1, <1>4, <1>6, PartsFollow
  <2>3. /\ Bounds = rsp.ranges[part] /\ Bounds' = rsp.ranges[part + 1]
        /\ Announced = BytesOf(rsp.ranges)
    BY <2>1, <1>1 DEF Bounds, Announced
  <2>4. Prefix(body, Announced, Bounds'.start)
    BY <2>2, <2>3, <1>5, PrefixSame
  <2>5. StreamInv'
    BY <2>4, <1>1, <1>3, <1>4, <1>8 DEF StreamInv, SentBelow, KeptFacts
  <2>6. PartInv'
    BY <2>1, <2>2, <1>1 DEF PartInv
  <2>7. DiskChecked'
    BY <1>1, <1>8 DEF IndInv, DiskChecked
  <2> QED
    BY <2>5, <2>6, <2>7, <1>3, <1>7 DEF IndInv, KeptFacts
<1>9. CASE pc' = "ended"
  <2>1. part >= Len(rsp.ranges)
    BY <1>1, <1>6, <1>9
  <2>2. \A b \in Announced : b < Bounds.end + 1 <=> b < size
    <3>1. CASE rsp.status = 206
      <4>1. \A b \in BytesOf(rsp.ranges) : b < rsp.ranges[part].end + 1
        BY <2>1, <3>1, <1>4, <1>6, PartsFollow
      <4>2. Bounds = rsp.ranges[part] /\ Announced = BytesOf(rsp.ranges)
        BY <3>1 DEF Bounds, Announced
      <4> QED
        BY <4>1, <4>2, <1>4
    <3>2. CASE rsp.status = 200
      BY <3>2, <1>4 DEF Bounds
    <3> QED
      BY <3>1, <3>2, <1>4
  <2>3. Prefix(body, Announced, size)
    BY <2>2, <1>5, PrefixSame
  <2>4. StreamInv'
    BY <2>3, <1>1, <1>3, <1>9 DEF StreamInv, SentBelow, KeptFacts, Streaming
  <2>5. PartInv' /\ DiskChecked'
    BY <1>9 DEF PartInv, DiskChecked, Streaming
  <2> QED
    BY <2>4, <2>5, <1>3, <1>7 DEF IndInv, KeptFacts
<1> QED
  BY <1>1, <1>8, <1>9

\* A response that breaks off keeps what it has sent.
LEMMA BreakStep == IndInv /\ (Break \/ OpenMissing) => IndInv'
<1> SUFFICES ASSUME IndInv, Break \/ OpenMissing PROVE IndInv'
  OBVIOUS
<1>1. /\ pc \in Streaming /\ pc' = "broken" /\ handle' \in {Closed, handle}
      /\ UNCHANGED <<size, bytes, entry, ask, rsp, todo, merged, part, body>>
  BY DEF Break, OpenMissing, Streaming
<1>2. KeptFacts
  BY <1>1, StreamKeeps DEF Late
<1>3. TypeOK'
  BY <1>1 DEF IndInv, TypeOK, Closed, Late
<1>4. \E c \in Nat : Prefix(body, Announced, c)
  <2>1. Bounds.start \in Nat
    BY <1>1, StreamedRange
  <2>2. CASE pc = "open"
    BY <2>1, <2>2 DEF IndInv, StreamInv, SentBelow
  <2>3. CASE pc = "read"
    BY <2>3 DEF IndInv, TypeOK, StreamInv, SentBelow
  <2> QED
    BY <1>1, <2>2, <2>3 DEF Streaming
<1>5. StreamInv'
  BY <1>1, <1>2, <1>4 DEF StreamInv, SentBelow, KeptFacts, Streaming
<1>6. PartInv' /\ DiskChecked'
  BY <1>1 DEF PartInv, DiskChecked, Streaming
<1> QED
  BY <1>2, <1>3, <1>5, <1>6 DEF IndInv, KeptFacts

\* The rest of the system changes only the entry and the file on disk.
LEMMA SystemStep == IndInv /\ (PurgeFile \/ Unlink) => IndInv'
<1> SUFFICES ASSUME IndInv, PurgeFile \/ Unlink PROVE IndInv'
  OBVIOUS
<1>1. UNCHANGED <<size, ask, rsp, pc, todo, merged, handle, part, body>>
  BY DEF PurgeFile, Unlink
<1>2. bytes' \in {bytes, -1}
  BY DEF PurgeFile, Unlink
<1>3. TypeOK'
  <2>1. TypeOK
    BY DEF IndInv
  <2>2. entry' \in BOOLEAN /\ bytes' \in Int
    <3>1. CASE PurgeFile
      BY <2>1, <3>1 DEF PurgeFile, TypeOK
    <3>2. CASE Unlink
      BY <2>1, <3>2 DEF Unlink, TypeOK
    <3> QED
      BY <3>1, <3>2
  <2> QED
    BY <2>1, <2>2, <1>1 DEF TypeOK
<1>4. NothingYet' /\ LoopInv' /\ StatusInv' /\ RangesExact' /\ PartInv'
  BY <1>1 DEF IndInv, NothingYet, LoopInv, StatusInv, RangesExact, PartInv
<1>5. DiskChecked'
  BY <1>1, <1>2 DEF IndInv, DiskChecked
<1>6. Bounds' = Bounds /\ Announced' = Announced
  BY <1>1 DEF Bounds, Announced
<1>7. StreamInv'
  BY <1>1, <1>6 DEF IndInv, StreamInv, SentBelow
<1> QED
  BY <1>3, <1>4, <1>5, <1>7 DEF IndInv

(***************************************************************************)
(* The theorems.                                                           *)
(***************************************************************************)

\* Every step of a download, of the outbox worker and of the other requests
\* keeps the invariant.
LEMMA InductiveStep == IndInv /\ [Next]_vars => IndInv'
<1> SUFFICES ASSUME IndInv, [Next]_vars PROVE IndInv'
  OBVIOUS
<1>1. CASE Prepare \/ Stat
  BY <1>1, LookupStep
<1>2. CASE PrepareMissing \/ StatMissing
  BY <1>2, AnswerStep DEF PrepareMissing, StatMissing, Early
<1>3. CASE AnswerCondition
  <2>1. Precondition(ask.conds) \in {304, 412}
    BY <1>3, PreconditionStatus DEF AnswerCondition
  <2> QED
    BY <2>1, <1>3, AnswerStep DEF AnswerCondition, Early
<1>4. CASE AnswerUnsatisfiable
  BY <1>4, AnswerStep DEF AnswerUnsatisfiable, Early
<1>5. CASE AnswerWhole
  BY <1>5, ContentStep DEF AnswerWhole
<1>6. CASE ParseRanges
  BY <1>6, ParseStep
<1>7. CASE CoalesceRange
  BY <1>7, CoalesceStep
<1>8. CASE AnswerRanges
  BY <1>8, ContentStep DEF AnswerRanges
<1>9. CASE Open
  BY <1>9, OpenStep
<1>10. CASE Read
  BY <1>10, ReadStep
<1>11. CASE ClosePart
  BY <1>11, CloseStep
<1>12. CASE Break \/ OpenMissing
  BY <1>12, BreakStep
<1>13. CASE PurgeFile \/ Unlink
  BY <1>13, SystemStep
<1>14. CASE UNCHANGED vars
  BY <1>14 DEF vars, IndInv, TypeOK, NothingYet, LoopInv, DiskChecked, StatusInv,
               RangesExact, PartInv, StreamInv, SentBelow, Bounds, Announced
<1> QED
  BY <1>1, <1>2, <1>3, <1>4, <1>5, <1>6, <1>7, <1>8, <1>9, <1>10, <1>11, <1>12,
     <1>13, <1>14 DEF Next, Handler

\* The invariant holds in every state of a download.
THEOREM Invariance == Spec => []IndInv
BY InitInv, InductiveStep, PTL DEF Spec

\* Every variable has its type: the ranges of an answer lie in the file,
\* whatever the header asks for.
THEOREM TypeCorrect == Spec => []TypeOK
<1>1. IndInv => TypeOK
  BY DEF IndInv
<1> QED
  BY <1>1, Invariance, PTL

\* A 206 has exactly the bytes asked for, in ranges with a gap between any two,
\* and a 416 is never given to a well-formed header that the file satisfies, for
\* every size of file and every range set (parse_ranges, _coalesce_ranges).
THEOREM RangesAreExact == Spec => []RangesExact
<1>1. IndInv => RangesExact
  BY DEF IndInv
<1> QED
  BY <1>1, Invariance, PTL

\* The bytes sent are a prefix of the announced ones, and all of them when the
\* response ends without an error (stream_download, _stream_path).
LEMMA SentIsAnnounced == IndInv => BodyAsAnnounced
<1> SUFFICES ASSUME IndInv, rsp.status \in {200, 206}, ask.method = "GET"
             PROVE  LET sent == {body[i] : i \in DOMAIN body} IN
                    /\ \A i, j \in DOMAIN body : i < j => body[i] < body[j]
                    /\ sent \subseteq Announced
                    /\ \A b \in sent, a \in Announced : a < b => a \in sent
                    /\ pc = "ended" => sent = Announced
  BY DEF BodyAsAnnounced
<1>1. size \in Nat /\ Announced \subseteq 0 .. size - 1
  <2>1. size \in Nat /\ rsp.ranges \in Seq(Within(size))
    BY DEF IndInv, TypeOK
  <2>2. CASE rsp.status = 200
    BY <2>1, <2>2 DEF Announced
  <2>3. CASE rsp.status = 206
    <3>1. Separated(rsp.ranges) /\ 1 \in DOMAIN rsp.ranges
      BY <2>1, <2>3 DEF IndInv, StatusInv, RangesExact, Separated
    <3>2. BytesOf(rsp.ranges) \subseteq 0 .. size - 1
      BY <2>1, <3>1, PartsFollow
    <3> QED
      BY <2>1, <2>3, <3>2 DEF Announced
  <2> QED
    BY <2>2, <2>3
<1>2. \E c \in Int : Prefix(body, Announced, c) /\ (pc = "ended" => c = size)
  <2>1. pc \in Streaming \cup Late
    BY DEF IndInv, TypeOK, NothingYet, NoAnswer
  <2>2. CASE pc \in Streaming
    <3>1. Bounds.start \in Nat /\ handle.at \in Nat
      BY <2>2, StreamedRange DEF IndInv, TypeOK
    <3> QED
      BY <2>2, <3>1 DEF IndInv, StreamInv, SentBelow, Streaming
  <2>3. CASE pc = "broken"
    BY <2>3 DEF IndInv, StreamInv, SentBelow
  <2>4. CASE pc = "ended"
    BY <2>4, <1>1 DEF IndInv, StreamInv, SentBelow
  <2> QED
    BY <2>1, <2>2, <2>3, <2>4 DEF Late
<1>3. PICK c \in Int : Prefix(body, Announced, c) /\ (pc = "ended" => c = size)
  BY <1>2
<1>4. /\ \A i, j \in DOMAIN body : i < j => body[i] < body[j]
      /\ {body[i] : i \in DOMAIN body} = {b \in Announced : b < c}
  BY <1>3 DEF Prefix
<1>5. \A b \in {b \in Announced : b < c} : \A a \in Announced : a < b => a < c
  BY <1>1, <1>3
<1>6. pc = "ended" => {b \in Announced : b < c} = Announced
  <2>1. \A b \in Announced : b < size
    BY <1>1
  <2> QED
    BY <2>1, <1>3
<1> QED
  BY <1>4, <1>5, <1>6

\* A GET that ends has sent exactly what its headers announced, once and in
\* order, and one that breaks off a prefix of it, for every block size and
\* wherever the file is unlinked in between.
THEOREM BodyIsAnnounced == Spec => []BodyAsAnnounced
BY SentIsAnnounced, Invariance, PTL
==============================================================================
