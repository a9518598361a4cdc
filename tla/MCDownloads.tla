----------------------------- MODULE MCDownloads -----------------------------
EXTENDS Downloads

Member(kind, first, last) == [kind |-> kind, first |-> first, last |-> last]

SmallMembers ==
    {Member("both", first, last) : first \in 0 .. MaxSize, last \in -1 .. MaxSize}
    \cup {Member("from", first, 0) : first \in 0 .. MaxSize}
    \cup {Member("suffix", 0, last) : last \in {0, 1, 2, MaxSize + 1}}
    \cup {Member("malformed", 0, 0)}

\* Members that a file of MaxSize bytes satisfies.
Proper == {m \in SmallMembers : m.kind = "both" /\ m.first <= m.last}

\* Any two members, chains of proper ones, and more members than the limit.
Ranges ==
    UNION {[1 .. n -> SmallMembers] : n \in 0 .. 2}
    \cup [1 .. MaxRanges -> Proper]
    \cup {[i \in 1 .. MaxRanges + 1 |-> m] : m \in SmallMembers}

NoConds == [ifMatch |-> "none", ifNoneMatch |-> "none", ifModifiedSince |-> "none"]

Conds == [ifMatch : {"none", "match", "differ"}, ifNoneMatch : {"none", "match", "differ"},
          ifModifiedSince : {"none", "older", "newer", "bad"}]

\* Every range set without conditions, every condition with simple ranges.
MCAsks ==
    [method : {"GET"}, range : Ranges, conds : {NoConds}]
    \cup [method : {"GET", "HEAD"}, range : {NoRange, <<Member("from", 1, 0)>>}, conds : Conds]
==============================================================================
