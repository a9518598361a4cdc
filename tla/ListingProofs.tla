---------------------------- MODULE ListingProofs ----------------------------
(***************************************************************************)
(* Proofs about Listing, for any number of entries, names, requests and    *)
(* rows on a page, and for every listing, direction and filter.            *)
(*                                                                         *)
(* A walk is right because the cursor splits the listing in two: what the  *)
(* client has seen is not after it, and what has stayed under its key and  *)
(* was not seen is after it.  An activity listing repeats nothing because  *)
(* a stamp read under the row lock is newer than every stamp of that row.  *)
(* An ETag means something because a stamp is given to one change only.    *)
(***************************************************************************)
EXTENDS Listing, FiniteSetTheorems, TLAPS

Keys == Nat \X Entries

Rows == [place : Places, name : Names, updated : Nat, trashed : Nat]

ReqStates ==
    [pc : {"idle", "waiting", "locked", "done"}, op : StorageOps \cup ActivityOps,
     e : Entries, name : Names, now : Nat]

Items == [id : Entries, key : Keys, name : Names, updated : Nat, favorite : BOOLEAN]

Pages == [items : Seq(Items), next : {NoCursor} \cup Keys]

Walks ==
    [pc : {"walking", "flags", "done"}, source : Sources, filter : Filters, asc : BOOLEAN,
     limit : 1 .. MaxLimit, cursor : {NoCursor} \cup Keys, page : Pages, seen : Seq(Keys)]

\* Every variable has its type.
TypeOK ==
    /\ clock \in Nat
    /\ row \in [Entries -> Rows]
    /\ favorite \in [Entries -> Nat] /\ opened \in [Entries -> Nat]
    /\ req \in [Requests -> ReqStates]
    /\ walk \in Walks
    /\ cached \in Pages
    /\ steady \subseteq Entries

-----------------------------------------------------------------------------
(* Time *)

Underway(r) == req[r].pc \in {"waiting", "locked"}

\* Nothing carries an instant that is still to come; what is listed has one.
StampsPast ==
    /\ \A e \in Entries : row[e].updated <= clock /\ favorite[e] <= clock /\ opened[e] <= clock
    /\ \A e \in Entries : row[e].place \notin {"absent", "purged"} => row[e].updated > 0
    /\ \A r \in Requests : req[r].now <= clock

\* FOR UPDATE: an entry is locked by one request, and stays as that request read it.
LocksExclude ==
    /\ \A q, r \in Requests :
          (req[q].pc = "locked" /\ req[r].pc = "locked" /\ req[q].e = req[r].e) => q = r
    /\ \A r \in Requests : req[r].pc = "locked" => Admitted(req[r].op, req[r].e)

\* The instant of a storage command is its own until it commits.
StampsOwn ==
    \A r \in Requests : (Underway(r) /\ req[r].op \in StorageOps) =>
        /\ req[r].now > 0
        /\ \A e \in Entries : row[e].updated # req[r].now
        /\ \A q \in Requests \ {r} :
             (Underway(q) /\ req[q].op \in StorageOps) => req[q].now # req[r].now

\* An activity command that has its row has an instant after those of the row.
StampsGrow ==
    \A r \in Requests : (req[r].pc = "locked" /\ req[r].op \in ActivityOps) =>
        favorite[req[r].e] <= req[r].now /\ opened[req[r].e] <= req[r].now

-----------------------------------------------------------------------------
(* The walk *)

Seen(e) == \E i \in DOMAIN walk.seen : walk.seen[i][2] = e

\* A page goes on where the cursor is, in order, and up to its own cursor.
Follows(page) ==
    /\ \A i, j \in DOMAIN page.items :
          i < j => Precedes(walk.asc, page.items[i].key, page.items[j].key)
    /\ \A i \in DOMAIN page.items : AfterCursor(walk.asc, walk.cursor, page.items[i].key)
    /\ page.next # NoCursor => \E i \in DOMAIN page.items : page.items[i].key = page.next
    /\ page.next # NoCursor => \A i \in DOMAIN page.items :
          page.items[i].key = page.next \/ Precedes(walk.asc, page.items[i].key, page.next)

\* What the walk still owes is on the page or after it.
Covers(page) ==
    \A e \in steady :
        \/ Seen(e)
        \/ \E i \in DOMAIN page.items : page.items[i].key[2] = e
        \/ page.next # NoCursor /\ Precedes(walk.asc, page.next, KeySet(walk.source, e))

\* The cursor splits the listing.
WalkInv ==
    /\ \A i, j \in DOMAIN walk.seen :
          i < j => Precedes(walk.asc, walk.seen[i], walk.seen[j])
    /\ walk.pc # "done" /\ walk.cursor = NoCursor => walk.seen = <<>>
    /\ walk.pc # "done" /\ walk.cursor # NoCursor =>
          \A i \in DOMAIN walk.seen :
              walk.seen[i] = walk.cursor \/ Precedes(walk.asc, walk.seen[i], walk.cursor)
    /\ \A e \in steady : Listed(walk.source, walk.filter, e)
    /\ walk.pc = "walking" => \A e \in steady :
          Seen(e) \/ AfterCursor(walk.asc, walk.cursor, KeySet(walk.source, e))
    /\ walk.pc = "flags" => Follows(walk.page) /\ Covers(walk.page)
    /\ walk.pc = "done" => \A e \in steady : Seen(e)
    /\ walk.pc = "flags" => walk.source \in FolderSorts
    /\ walk.source \notin FolderSorts => ~walk.asc

\* Of an entry that an activity listing has shown, only newer stamps exist or can come.
ActivityInv ==
    walk.source \in {"favorites", "recents"} =>
        \A i \in DOMAIN walk.seen :
            LET k == walk.seen[i] IN
            /\ k[1] <= clock
            /\ SortKey(walk.source, k[2]) = 0 \/ SortKey(walk.source, k[2]) >= k[1]
            /\ \A r \in Requests :
                 (req[r].pc = "locked" /\ req[r].op \in ActivityOps /\ req[r].e = k[2]) =>
                     req[r].now >= k[1]

-----------------------------------------------------------------------------
(* Copies of pages *)

\* The sort key of an item, as the three orders of a folder compute it.
KeyOf(x) ==
    CASE walk.source = "name" -> x.name
      [] walk.source = "date" -> x.updated
      [] walk.source = "kind" -> x.id % 2

\* An item of a page is dated, has the key of its metadata, and tells the truth as long
\* as the row keeps its updated_at, which no command under way is going to reuse.
ItemTrue(x) ==
    /\ 0 < x.updated /\ x.updated <= clock
    /\ x.key = <<KeyOf(x), x.id>>
    /\ x.updated = row[x.id].updated => x.name = row[x.id].name
    /\ \A r \in Requests : (Underway(r) /\ req[r].op \in StorageOps) => x.updated # req[r].now

PageTrue(page) ==
    page # NoPage => /\ walk.source \in FolderSorts
                     /\ \A i \in DOMAIN page.items : ItemTrue(page.items[i])

IndInv ==
    /\ TypeOK
    /\ StampsPast /\ LocksExclude /\ StampsOwn /\ StampsGrow
    /\ WalkInv
    /\ ActivityInv /\ ActivityNeverRepeats
    /\ PageTrue(walk.page) /\ PageTrue(cached)

-----------------------------------------------------------------------------
(* The order of a listing *)

\* The comparison of pairs (key, id) is a strict total order in both directions.
LEMMA OrderOfKeys ==
    ASSUME NEW asc \in BOOLEAN
    PROVE  /\ \A a \in Keys : ~Precedes(asc, a, a)
           /\ \A a, b \in Keys : Precedes(asc, a, b) \/ a = b \/ Precedes(asc, b, a)
           /\ \A a, b \in Keys : ~(Precedes(asc, a, b) /\ Precedes(asc, b, a))
           /\ \A a, b, c \in Keys :
                (Precedes(asc, a, b) /\ Precedes(asc, b, c)) => Precedes(asc, a, c)
  <1>1. Entries \subseteq Nat
    BY ListingAssumption DEF ListingAssumption, Entries
  <1>2. ASSUME NEW a \in Keys PROVE a[1] \in Nat /\ a[2] \in Nat /\ a = <<a[1], a[2]>>
    <2>1. PICK x \in Nat, y \in Entries : a = <<x, y>>
      BY DEF Keys
    <2> QED
      BY <1>1, <2>1
  <1>3. \A a, b \in Keys : (a[1] = b[1] /\ a[2] = b[2]) => a = b
    BY <1>2
  <1> QED
    BY <1>2, <1>3 DEF Precedes

\* No cursor is not a position.
LEMMA NoCursorNoKey == NoCursor \notin Keys
  BY DEF NoCursor, Keys

Keyed(source, found) ==
    \A e \in found : KeySet(source, e) \in Keys /\ KeySet(source, e)[2] = e

\* Ordered lists the rows it is given, in order, each once.
Lists(source, asc, found) ==
    LET n == Cardinality(found)
        rows == Ordered(source, asc, found)
    IN  /\ n \in Nat
        /\ \A i \in 1 .. n : rows[i] \in found
        /\ \A i, j \in 1 .. n :
              i < j => Precedes(asc, KeySet(source, rows[i]), KeySet(source, rows[j]))
        /\ \A e \in found : \E i \in 1 .. n : rows[i] = e

\* A set of entries has its rows in order, each once: the ranks of n rows are 1 to n.
LEMMA OrderedRows ==
    ASSUME NEW source, NEW asc \in BOOLEAN, NEW found \in SUBSET Entries, Keyed(source, found)
    PROVE  Lists(source, asc, found)
  <1> DEFINE n == Cardinality(found)
             rows == Ordered(source, asc, found)
             Before(d, e) == Precedes(asc, KeySet(source, d), KeySet(source, e))
             Upto(e) == {d \in found : d = e \/ Before(d, e)}
             Rank(e) == Cardinality(Upto(e))
             f == [e \in found |-> Rank(e)]
  <1>1. /\ \A d \in found : ~Before(d, d)
        /\ \A d, e \in found : Before(d, e) \/ d = e \/ Before(e, d)
        /\ \A d, e \in found : ~(Before(d, e) /\ Before(e, d))
        /\ \A c, d, e \in found : (Before(c, d) /\ Before(d, e)) => Before(c, e)
    BY OrderOfKeys DEF Keyed
  <1>2. IsFiniteSet(found) /\ n \in Nat
    <2>1. IsFiniteSet(Entries)
      BY FS_Interval, ListingAssumption DEF ListingAssumption, Entries
    <2> QED
      BY <2>1, FS_Subset, FS_CardinalityType
  <1> HIDE DEF Before, n
  <1>3. ASSUME NEW e \in found PROVE IsFiniteSet(Upto(e)) /\ Rank(e) \in 1 .. n
    <2>1. Upto(e) \in SUBSET found /\ Upto(e) # {}
      OBVIOUS
    <2> HIDE DEF Upto
    <2>2. IsFiniteSet(Upto(e)) /\ Rank(e) <= n
      BY <1>2, <2>1, FS_Subset DEF n
    <2>3. Rank(e) \in Nat /\ Rank(e) # 0
      BY <2>1, <2>2, FS_CardinalityType, FS_EmptySet
    <2> QED
      BY <1>2, <2>2, <2>3
  <1>4. ASSUME NEW d \in found, NEW e \in found, Before(d, e) PROVE Rank(d) < Rank(e)
    <2>1. Upto(d) \in SUBSET Upto(e) /\ Upto(d) # Upto(e)
      <3>1. e \in Upto(e) /\ e \notin Upto(d)
        BY <1>1, <1>4
      <3> QED
        BY <1>1, <1>4, <3>1
    <2> HIDE DEF Upto
    <2>2. Rank(d) <= Rank(e) /\ Rank(d) # Rank(e)
      BY <1>3, <2>1, FS_Subset
    <2> QED
      BY <1>2, <1>3, <2>2
  <1> HIDE DEF Rank
  <1>5. ASSUME NEW d \in found, NEW e \in found, Rank(d) = Rank(e) PROVE d = e
    <2>1. Rank(d) \in 1 .. n
      BY <1>3
    <2>2. ~(Rank(d) < Rank(e)) /\ ~(Rank(e) < Rank(d))
      BY <1>2, <1>5, <2>1
    <2>3. ~Before(d, e) /\ ~Before(e, d)
      BY <1>4, <2>2
    <2> QED
      BY <1>1, <2>3
  <1>6. f \in Injection(found, 1 .. n)
    BY <1>3, <1>5 DEF Injection, IsInjective
  <1>7. f \in Surjection(found, 1 .. n)
    <2>1. IsFiniteSet(1 .. n) /\ Cardinality(1 .. n) = n
      BY <1>2, FS_Interval
    <2> HIDE DEF f
    <2> QED
      BY <1>6, <2>1, FS_Injection DEF n
  <1>8. \A i \in 1 .. n : \E e \in found : Rank(e) = i
    BY <1>7 DEF Surjection
  <1>9. \A i \in 1 .. n : rows[i] = CHOOSE e \in found : Rank(e) = i
    BY DEF Ordered, Rank, Before, n
  <1> HIDE DEF rows
  <1>10. \A i \in 1 .. n : rows[i] \in found /\ Rank(rows[i]) = i
    BY <1>8, <1>9
  <1>11. ASSUME NEW i \in 1 .. n, NEW j \in 1 .. n, i < j PROVE Before(rows[i], rows[j])
    BY <1>1, <1>2, <1>4, <1>10, <1>11
  <1>12. \A e \in found : \E i \in 1 .. n : rows[i] = e
    BY <1>3, <1>5, <1>10
  <1> QED
    BY <1>2, <1>10, <1>11, <1>12 DEF Lists, rows, n, Before

\* Every row has a sort key in every listing.
LEMMA KeysTyped ==
    ASSUME TypeOK, NEW source \in Sources, NEW e \in Entries
    PROVE  /\ SortKey(source, e) \in Nat
           /\ KeySet(source, e) = <<SortKey(source, e), e>>
           /\ KeySet(source, e) \in Keys
           /\ KeySet(source, e)[1] = SortKey(source, e)
           /\ KeySet(source, e)[2] = e
  <1>1. e \in Nat /\ e % 2 \in Nat
    BY ListingAssumption DEF ListingAssumption, Entries
  <1>2. row[e] \in Rows /\ favorite[e] \in Nat /\ opened[e] \in Nat
    BY DEF TypeOK
  <1>3. row[e].name \in Nat /\ row[e].updated \in Nat /\ row[e].trashed \in Nat
    BY <1>2, ListingAssumption DEF ListingAssumption, Rows, Names
  <1>4. SortKey(source, e) \in Nat
    BY <1>1, <1>2, <1>3 DEF SortKey, Sources, FolderSorts
  <1> QED
    BY <1>4 DEF KeySet, Keys

\* What an item tells has its type.
LEMMA ItemsTyped ==
    ASSUME TypeOK, NEW source \in Sources, NEW e \in Entries
    PROVE  Item(source, e) \in Items
  <1>1. KeySet(source, e) \in Keys
    BY KeysTyped
  <1>2. row[e].name \in Names /\ row[e].updated \in Nat
    BY DEF TypeOK, Rows
  <1> QED
    BY <1>1, <1>2 DEF Item, Items

\* The items of a page are rows of the listing behind the cursor.
ShowsRows(page, cursor) ==
    \A i \in DOMAIN page.items :
        \E e \in Found(walk.source, walk.filter, walk.asc, cursor) :
            page.items[i] = Item(walk.source, e)

\* The page is in order, ends at its own cursor, and leaves no row out before it.
Unbroken(page, cursor) ==
    /\ \A i, j \in DOMAIN page.items :
          i < j => Precedes(walk.asc, page.items[i].key, page.items[j].key)
    /\ page.next # NoCursor => \E i \in DOMAIN page.items : page.items[i].key = page.next
    /\ page.next # NoCursor => \A i \in DOMAIN page.items :
          page.items[i].key = page.next \/ Precedes(walk.asc, page.items[i].key, page.next)
    /\ \A e \in Found(walk.source, walk.filter, walk.asc, cursor) :
          \/ \E i \in DOMAIN page.items : page.items[i].key[2] = e
          \/ page.next # NoCursor /\ Precedes(walk.asc, page.next, KeySet(walk.source, e))

\* A page read behind a cursor shows what it should.
LEMMA PageRows ==
    ASSUME TypeOK, NEW cursor
    PROVE  LET page == PageAt(cursor) IN
           page \in Pages /\ ShowsRows(page, cursor) /\ Unbroken(page, cursor)
  <1> DEFINE source == walk.source
             found == Found(source, walk.filter, walk.asc, cursor)
             rows == Ordered(source, walk.asc, found)
             n == Cardinality(found)
             more == n > walk.limit
             m == IF more THEN walk.limit ELSE n
             page == PageAt(cursor)
             Key(e) == KeySet(source, e)
             Before(a, b) == Precedes(walk.asc, a, b)
  <1>1. /\ source \in Sources /\ walk.asc \in BOOLEAN
        /\ walk.limit \in Nat /\ walk.limit >= 1
    BY ListingAssumption DEF ListingAssumption, TypeOK, Walks
  <1>2. found \in SUBSET Entries
    BY DEF Found
  <1>3. \A e \in Entries : Key(e) \in Keys /\ Key(e)[2] = e /\ Item(source, e) \in Items
    BY <1>1, KeysTyped, ItemsTyped
  <1>4. page = [items |-> [i \in 1 .. m |-> Item(source, rows[i])],
                next |-> IF more THEN Key(rows[walk.limit]) ELSE NoCursor]
    BY DEF PageAt, Page
  <1>5. \A e \in Entries : Item(source, e).key = Key(e)
    BY DEF Item
  <1> HIDE DEF source, found, rows, page, Key, Before
  <1>6. /\ n \in Nat
        /\ \A i \in 1 .. n : rows[i] \in found
        /\ \A i, j \in 1 .. n : i < j => Before(Key(rows[i]), Key(rows[j]))
        /\ \A e \in found : \E i \in 1 .. n : rows[i] = e
    <2>1. Keyed(source, found)
      BY <1>2, <1>3 DEF Keyed, Key
    <2>2. Lists(source, walk.asc, found)
      BY <1>1, <1>2, <2>1, OrderedRows
    <2> QED
      BY <2>2 DEF Lists, rows, Key, Before
  <1> HIDE DEF n
  <1>7. m \in Nat /\ m <= n /\ (more => m = walk.limit /\ m \in 1 .. n) /\ (~more => m = n)
    BY <1>1, <1>6
  <1> HIDE DEF m
  <1>8. DOMAIN page.items = 1 .. m /\ \A i \in 1 .. m : page.items[i] = Item(source, rows[i])
    BY <1>4
  <1>9. \A i \in 1 .. m : rows[i] \in found /\ rows[i] \in Entries
    BY <1>2, <1>6, <1>7
  <1>10. \A i \in 1 .. m : page.items[i].key = Key(rows[i])
    BY <1>5, <1>8, <1>9
  <1>11. page.next = IF more THEN Key(rows[m]) ELSE NoCursor
    BY <1>4, <1>7
  <1>12. more => page.next \in Keys /\ page.next # NoCursor
    BY <1>3, <1>6, <1>2, <1>7, <1>11, NoCursorNoKey
  <1>13. page \in Pages
    <2>1. page.items \in Seq(Items)
      BY <1>3, <1>4, <1>7, <1>9
    <2>2. page.next \in {NoCursor} \cup Keys
      BY <1>11, <1>12
    <2> QED
      BY <1>4, <2>1, <2>2 DEF Pages
  <1>14. ShowsRows(page, cursor)
    BY <1>8, <1>9 DEF ShowsRows, found, source
  <1>15. ASSUME NEW i \in 1 .. m, NEW j \in 1 .. m, i < j
         PROVE  Before(page.items[i].key, page.items[j].key)
    BY <1>6, <1>7, <1>10, <1>15
  <1>16. ASSUME page.next # NoCursor, NEW i \in 1 .. m
         PROVE  page.items[i].key = page.next \/ Before(page.items[i].key, page.next)
    <2>1. more /\ m \in 1 .. n
      BY <1>7, <1>11, <1>16
    <2>2. i = m \/ i < m
      BY <1>7
    <2> QED
      BY <1>6, <1>7, <1>10, <1>11, <2>1, <2>2
  <1>17. page.next # NoCursor => \E i \in 1 .. m : page.items[i].key = page.next
    BY <1>6, <1>7, <1>10, <1>11
  <1>18. ASSUME NEW e \in found
         PROVE  \/ \E i \in 1 .. m : page.items[i].key[2] = e
                \/ page.next # NoCursor /\ Before(page.next, Key(e))
    <2>1. PICK i \in 1 .. n : rows[i] = e
      BY <1>6
    <2>2. CASE i \in 1 .. m
      BY <1>2, <1>3, <1>10, <2>1, <2>2
    <2>3. CASE i \notin 1 .. m
      <3>1. more /\ m \in 1 .. n /\ m < i
        BY <1>6, <1>7, <2>3
      <3> QED
        BY <1>6, <1>11, <1>12, <2>1, <3>1
    <2> QED
      BY <2>2, <2>3
  <1>19. Unbroken(page, cursor)
    BY <1>8, <1>15, <1>16, <1>17, <1>18 DEF Unbroken, found, source, Key, Before
  <1> QED
    BY <1>13, <1>14, <1>19 DEF page

\* The page that the client asks for goes on where it is and leaves out nothing it is owed.
LEMMA PageFollows ==
    ASSUME TypeOK, WalkInv, walk.pc = "walking"
    PROVE  Follows(PageAt(walk.cursor)) /\ Covers(PageAt(walk.cursor))
  <1> DEFINE page == PageAt(walk.cursor)
             found == Found(walk.source, walk.filter, walk.asc, walk.cursor)
  <1>1. page \in Pages /\ ShowsRows(page, walk.cursor) /\ Unbroken(page, walk.cursor)
    BY PageRows
  <1> HIDE DEF page
  <1>2. ASSUME NEW i \in DOMAIN page.items
        PROVE  AfterCursor(walk.asc, walk.cursor, page.items[i].key)
    <2>1. PICK e \in found : page.items[i] = Item(walk.source, e)
      BY <1>1 DEF ShowsRows
    <2>2. AfterCursor(walk.asc, walk.cursor, KeySet(walk.source, e))
      BY <2>1 DEF Found
    <2> QED
      BY <2>1, <2>2 DEF Item
  <1>3. Follows(page)
    BY <1>1, <1>2 DEF Follows, Unbroken
  <1>4. \A e \in steady : Seen(e) \/ e \in found
    BY DEF WalkInv, TypeOK, Found
  <1>5. Covers(page)
    BY <1>1, <1>4 DEF Covers, Unbroken
  <1> QED
    BY <1>3, <1>5 DEF page

\* A page of the folder tells the truth when it is read.
LEMMA PageIsTrue ==
    ASSUME TypeOK, StampsPast, StampsOwn, walk.source \in FolderSorts, NEW cursor
    PROVE  PageTrue(PageAt(cursor))
  <1> DEFINE page == PageAt(cursor)
  <1>1. ShowsRows(page, cursor)
    BY PageRows
  <1> HIDE DEF page
  <1>2. ASSUME NEW i \in DOMAIN page.items PROVE ItemTrue(page.items[i])
    <2>1. PICK e \in Found(walk.source, walk.filter, walk.asc, cursor) :
              page.items[i] = Item(walk.source, e)
      BY <1>1 DEF ShowsRows
    <2>2. e \in Entries /\ row[e].place = "here"
      <3>1. e \in Entries /\ Listed(walk.source, walk.filter, e)
        BY <2>1 DEF Found
      <3> QED
        BY <3>1 DEF Listed, Filtered, Alive, FolderSorts
    <2> DEFINE x == Item(walk.source, e)
    <2>3. /\ x.id = e /\ x.name = row[e].name /\ x.updated = row[e].updated
          /\ x.key = <<SortKey(walk.source, e), e>>
      BY DEF Item, KeySet
    <2> HIDE DEF x
    <2>4. 0 < x.updated /\ x.updated <= clock
      BY <2>2, <2>3 DEF StampsPast, TypeOK, Rows
    <2>5. x.key = <<KeyOf(x), x.id>>
      BY <2>3 DEF KeyOf, SortKey, FolderSorts
    <2>6. \A r \in Requests : (Underway(r) /\ req[r].op \in StorageOps) => x.updated # req[r].now
      BY <2>2, <2>3 DEF StampsOwn
    <2>7. ItemTrue(x)
      BY <2>3, <2>4, <2>5, <2>6 DEF ItemTrue
    <2> QED
      BY <2>1, <2>7 DEF x
  <1> QED
    BY <1>2 DEF PageTrue, page

-----------------------------------------------------------------------------
(* The initial states *)

\* The invariant holds before the first page and the first request.
LEMMA InitInv == ASSUME Init PROVE IndInv
  <1>1. PICK source \in Sources, asc \in BOOLEAN, filter \in Filters, limit \in 1 .. MaxLimit :
          /\ source \notin FolderSorts => ~ asc /\ filter = Names
          /\ row = [e \in Entries |-> IF e <= Existing THEN FirstRow(source, e) ELSE NoRow]
          /\ walk = [pc |-> "walking", source |-> source, filter |-> filter, asc |-> asc,
                     limit |-> limit, cursor |-> NoCursor, page |-> NoPage, seen |-> <<>>]
          /\ steady = {e \in Entries : Listed(source, filter, e)}
    BY DEF Init
  <1>2. NoPage \in Pages /\ NoPage.next = NoCursor /\ NoPage.items = <<>>
    BY DEF NoPage, Pages
  <1>3. /\ Existing \in Nat /\ NumEntries \in Nat /\ 1 \in Entries /\ 1 \in Names
        /\ Entries \subseteq Nat /\ \A e \in Entries : e > 0
        /\ \A e \in Entries : e <= Existing => e \in Names
    BY ListingAssumption DEF ListingAssumption, Entries, Names
  <1>4. ASSUME NEW e \in Entries
        PROVE  /\ row[e] \in Rows
               /\ row[e].updated <= clock /\ favorite[e] <= clock /\ opened[e] <= clock
               /\ favorite[e] \in Nat /\ opened[e] \in Nat
               /\ row[e].place \notin {"absent", "purged"} => row[e].updated > 0
    <2>1. CASE e <= Existing
      <3>1. row[e] = FirstRow(source, e)
        BY <1>1, <2>1
      <3>2. row[e] \in Rows /\ row[e].updated = e
        BY <1>3, <2>1, <3>1 DEF FirstRow, Rows, Places
      <3> QED
        BY <1>3, <2>1, <3>2 DEF Init
    <2>2. CASE ~(e <= Existing)
      <3>1. row[e] = NoRow
        BY <1>1, <2>2
      <3>2. row[e] \in Rows /\ row[e].updated = 0 /\ row[e].place = "absent"
        BY <1>3, <3>1 DEF NoRow, Rows, Places
      <3> QED
        BY <1>3, <2>2, <3>2 DEF Init
    <2> QED
      BY <2>1, <2>2
  <1>5. /\ Idle \in ReqStates /\ Idle.pc = "idle" /\ Idle.now = 0
        /\ \A r \in Requests : req[r] = Idle
    BY <1>3 DEF Idle, ReqStates, ActivityOps, Init
  <1>6. TypeOK
    <2>1. clock \in Nat
      BY <1>3 DEF Init
    <2>2. row \in [Entries -> Rows] /\ favorite \in [Entries -> Nat] /\ opened \in [Entries -> Nat]
      BY <1>1, <1>4 DEF Init
    <2>3. req \in [Requests -> ReqStates]
      BY <1>5 DEF Init
    <2>4. walk \in Walks
      BY <1>1, <1>2 DEF Walks
    <2> QED
      BY <1>1, <1>2, <2>1, <2>2, <2>3, <2>4 DEF TypeOK, Init
  <1>7. StampsPast
    BY <1>3, <1>4, <1>5 DEF StampsPast, Init
  <1>8. LocksExclude /\ StampsOwn /\ StampsGrow
    BY <1>5 DEF LocksExclude, StampsOwn, StampsGrow, Underway
  <1>9. WalkInv
    BY <1>1 DEF WalkInv, AfterCursor
  <1>10. ActivityInv /\ ActivityNeverRepeats
    BY <1>1 DEF ActivityInv, ActivityNeverRepeats
  <1>11. PageTrue(walk.page) /\ PageTrue(cached)
    BY <1>1 DEF PageTrue, Init
  <1> QED
    BY <1>6, <1>7, <1>8, <1>9, <1>10, <1>11 DEF IndInv
-----------------------------------------------------------------------------
(* Steps that leave the rows and the walk alone *)

\* The queries read the rows only.
LEMMA SameRows ==
    ASSUME UNCHANGED <<row, favorite, opened>>
    PROVE  /\ \A source, filter, e : Listed(source, filter, e)' <=> Listed(source, filter, e)
           /\ \A source, e : SortKey(source, e)' = SortKey(source, e)
           /\ \A source, e : KeySet(source, e)' = KeySet(source, e)
           /\ \A source, e : Item(source, e)' = Item(source, e)
           /\ \A op, e : Admitted(op, e)' <=> Admitted(op, e)
  BY DEF Listed, Filtered, Alive, SortKey, KeySet, Item, Admitted

\* The promises about the walk are about the rows and the walk.
LEMMA SameWalk ==
    ASSUME WalkInv, ActivityNeverRepeats,
           UNCHANGED <<row, favorite, opened, walk, steady>>
    PROVE  WalkInv' /\ ActivityNeverRepeats'
  <1>1. WalkInv'
    BY DEF WalkInv, Follows, Covers, Seen, Listed, Filtered, Alive, KeySet, SortKey
  <1>2. ActivityNeverRepeats'
    BY DEF ActivityNeverRepeats
  <1> QED
    BY <1>1, <1>2

\* The instant of this step.
Fresh(t) == t.now = clock + 1 /\ clock' = clock + 1

\* Request r goes on to t, and keeps its instant or takes the one of this step.
Proceeds(r, t) ==
    /\ t \in ReqStates
    /\ req' = [req EXCEPT ![r] = t]
    /\ clock' \in {clock, clock + 1}
    /\ t.now <= clock'
    /\ t.pc = "locked" => EntryFree(t.e) /\ Admitted(t.op, t.e)
    /\ t.pc = "locked" /\ t.op \in ActivityOps => Fresh(t)
    /\ t.pc \in {"waiting", "locked"} /\ t.op \in StorageOps =>
          Fresh(t) \/ (Underway(r) /\ req[r].op \in StorageOps /\ t.now = req[r].now)
    /\ UNCHANGED <<row, favorite, opened, walk, cached, steady>>

\* A request that arrives, locks its row or gives up disturbs nothing.
LEMMA RequestStep ==
    ASSUME IndInv, NEW r \in Requests, NEW t, Proceeds(r, t)
    PROVE  IndInv'
  <1> USE DEF Proceeds
  <1>1. /\ TypeOK /\ StampsPast /\ LocksExclude /\ StampsOwn /\ StampsGrow
        /\ WalkInv /\ ActivityInv /\ ActivityNeverRepeats
        /\ PageTrue(walk.page) /\ PageTrue(cached)
    BY DEF IndInv
  <1>2. /\ clock \in Nat /\ clock' \in Nat /\ clock <= clock'
        /\ req \in [Requests -> ReqStates]
    BY <1>1 DEF TypeOK
  <1>3. /\ \A q \in Requests : req'[q] = IF q = r THEN t ELSE req[q]
        /\ req' \in [Requests -> ReqStates]
    BY <1>2
  <1>4. \A q \in Requests : req[q].now \in Nat
    BY <1>2 DEF ReqStates
  <1>5. TypeOK'
    BY <1>1, <1>2, <1>3 DEF TypeOK
  <1>6. StampsPast'
    <2>1. \A e \in Entries :
             row[e].updated \in Nat /\ favorite[e] \in Nat /\ opened[e] \in Nat
      BY <1>1 DEF TypeOK, Rows
    <2> QED
      BY <1>1, <1>2, <1>3, <1>4, <2>1 DEF StampsPast
  <1>7. LocksExclude'
    <2>1. \A op, e : Admitted(op, e)' <=> Admitted(op, e)
      BY SameRows
    <2> QED
      BY <1>1, <1>3, <2>1 DEF LocksExclude, EntryFree
  <1>8. StampsOwn'
    <2>1. \A e \in Entries : row[e].updated \in Nat /\ row[e].updated <= clock
      BY <1>1 DEF TypeOK, Rows, StampsPast
    <2>2. \A q \in Requests : req[q].now <= clock
      BY <1>1 DEF StampsPast
    <2>3. ASSUME NEW p \in Requests, Underway(p)', req'[p].op \in StorageOps, p # r
          PROVE  /\ req'[p].now > 0
                 /\ \A e \in Entries : row'[e].updated # req'[p].now
                 /\ \A q \in Requests \ {p} :
                      (Underway(q)' /\ req'[q].op \in StorageOps) => req'[q].now # req'[p].now
      <3>1. Underway(p) /\ req[p].op \in StorageOps /\ req'[p] = req[p]
        BY <1>3, <2>3 DEF Underway
      <3>2. ASSUME NEW q \in Requests \ {p}, Underway(q)', req'[q].op \in StorageOps
            PROVE  req'[q].now # req'[p].now
        <4>1. CASE q = r
          BY <1>1, <1>2, <1>3, <1>4, <2>2, <3>1, <3>2, <4>1 DEF StampsOwn, Fresh, Underway
        <4>2. CASE q # r
          BY <1>1, <1>3, <3>1, <3>2, <4>2 DEF StampsOwn, Underway
        <4> QED
          BY <4>1, <4>2
      <3> QED
        BY <1>1, <3>1, <3>2 DEF StampsOwn
    <2>4. ASSUME Underway(r)', req'[r].op \in StorageOps
          PROVE  /\ req'[r].now > 0
                 /\ \A e \in Entries : row'[e].updated # req'[r].now
                 /\ \A q \in Requests \ {r} :
                      (Underway(q)' /\ req'[q].op \in StorageOps) => req'[q].now # req'[r].now
      <3>1. /\ req'[r] = t
            /\ \A q \in Requests \ {r} : req'[q] = req[q] /\ (Underway(q)' <=> Underway(q))
        BY <1>3 DEF Underway
      <3>2. CASE Fresh(t)
        BY <1>2, <1>4, <2>1, <2>2, <3>1, <3>2 DEF Fresh
      <3>3. CASE Underway(r) /\ req[r].op \in StorageOps /\ t.now = req[r].now
        BY <1>1, <3>1, <3>3 DEF StampsOwn
      <3> QED
        BY <1>3, <2>4, <3>2, <3>3 DEF Underway
    <2> QED
      BY <2>3, <2>4 DEF StampsOwn
  <1>9. StampsGrow'
    <2>1. \A e \in Entries : /\ favorite[e] \in Nat /\ opened[e] \in Nat
                             /\ favorite[e] <= clock /\ opened[e] <= clock
      BY <1>1 DEF TypeOK, StampsPast
    <2>2. \A q \in Requests : req'[q].e \in Entries
      BY <1>3 DEF ReqStates
    <2> QED
      BY <1>1, <1>2, <1>3, <2>1, <2>2 DEF StampsGrow, Fresh
  <1>10. WalkInv' /\ ActivityNeverRepeats'
    BY <1>1, SameWalk
  <1>11. ActivityInv'
    <2> SUFFICES ASSUME walk.source \in {"favorites", "recents"}, NEW i \in DOMAIN walk.seen
                 PROVE  LET k == walk.seen[i] IN
                        /\ k[1] <= clock'
                        /\ SortKey(walk.source, k[2])' = 0 \/ SortKey(walk.source, k[2])' >= k[1]
                        /\ \A q \in Requests :
                             (req'[q].pc = "locked" /\ req'[q].op \in ActivityOps /\ req'[q].e = k[2])
                                 => req'[q].now >= k[1]
      BY DEF ActivityInv
    <2> DEFINE k == walk.seen[i]
    <2>1. /\ k[1] <= clock
          /\ SortKey(walk.source, k[2]) = 0 \/ SortKey(walk.source, k[2]) >= k[1]
          /\ \A q \in Requests :
               (req[q].pc = "locked" /\ req[q].op \in ActivityOps /\ req[q].e = k[2])
                   => req[q].now >= k[1]
      BY <1>1 DEF ActivityInv
    <2>2. k[1] \in Nat
      BY <1>1 DEF TypeOK, Walks, Keys
    <2>3. SortKey(walk.source, k[2])' = SortKey(walk.source, k[2])
      BY DEF SortKey
    <2> HIDE DEF k
    <2>4. \A q \in Requests :
             (req'[q].pc = "locked" /\ req'[q].op \in ActivityOps /\ req'[q].e = k[2])
                 => req'[q].now >= k[1]
      BY <1>2, <1>3, <2>1, <2>2 DEF Fresh
    <2> QED
      BY <1>2, <2>1, <2>2, <2>3, <2>4 DEF k
  <1>12. ASSUME NEW page \in Pages, PageTrue(page) PROVE PageTrue(page)'
    <2> SUFFICES ASSUME NEW i \in DOMAIN page.items, ItemTrue(page.items[i])
                 PROVE  ItemTrue(page.items[i])'
      BY <1>12 DEF PageTrue
    <2> DEFINE x == page.items[i]
    <2>1. x.updated \in Nat
      <3>1. page.items \in Seq(Items)
        BY DEF Pages
      <3>2. x \in Items
        BY <3>1
      <3> QED
        BY <3>2 DEF Items
    <2> HIDE DEF x
    <2>2. 0 < x.updated /\ x.updated <= clock'
      BY <1>2, <2>1 DEF ItemTrue, x
    <2>3. x.key = <<KeyOf(x)', x.id>>
      BY DEF ItemTrue, KeyOf, x
    <2>4. \A q \in Requests : (Underway(q)' /\ req'[q].op \in StorageOps) => x.updated # req'[q].now
      <3>1. \A q \in Requests : (Underway(q) /\ req[q].op \in StorageOps) => x.updated # req[q].now
        BY DEF ItemTrue, x
      <3>2. x.updated <= clock
        BY DEF ItemTrue, x
      <3> QED
        BY <1>2, <1>3, <2>1, <3>1, <3>2 DEF Underway, Fresh
    <2> QED
      BY <2>2, <2>3, <2>4 DEF ItemTrue, x
  <1>13. PageTrue(walk.page)' /\ PageTrue(cached)'
    <2>1. walk.page \in Pages /\ cached \in Pages
      BY <1>1 DEF TypeOK, Walks
    <2> QED
      BY <1>1, <1>12, <2>1
  <1> QED
    BY <1>5, <1>6, <1>7, <1>8, <1>9, <1>10, <1>11, <1>13 DEF IndInv

-----------------------------------------------------------------------------
(* Steps of requests that change a row *)

\* What a commit does to the row of request r, and to no other: it leaves the metadata
\* alone, dates it with the request's instant, or removes it.
RowStep(r) ==
    LET e == req[r].e IN
    /\ row' \in [Entries -> Rows]
    /\ \A d \in Entries \ {e} : row'[d] = row[d]
    /\ \/ /\ row'[e].updated = row[e].updated /\ row'[e].name = row[e].name
          /\ row'[e].place = row[e].place \/ row[e].place \notin {"absent", "purged"}
       \/ row'[e].updated = req[r].now /\ req[r].op \in StorageOps
       \/ row'[e].updated = 0 /\ row'[e].place = "purged"

\* What a commit does to one of the tables of activity.
ActivityStep(r, old, new) ==
    LET e == req[r].e IN
    /\ new \in [Entries -> Nat]
    /\ \A d \in Entries \ {e} : new[d] = old[d]
    /\ \/ new[e] = old[e]
       \/ new[e] = 0
       \/ new[e] = req[r].now /\ req[r].op \in ActivityOps

\* The end of a transaction leaves the walk with what it can still rely on.
LEMMA CommitWalk ==
    ASSUME TypeOK, WalkInv, ActivityNeverRepeats, NEW r \in Requests, Committed(r)
    PROVE  WalkInv' /\ ActivityNeverRepeats' /\ steady' \subseteq steady
  <1>1. walk' = walk /\ steady' \subseteq steady
    BY DEF Committed
  <1>2. \A e \in steady' : /\ Listed(walk.source, walk.filter, e)'
                           /\ SortKey(walk.source, e)' = SortKey(walk.source, e)
    BY DEF Committed
  <1>3. \A e \in steady' : KeySet(walk.source, e)' = KeySet(walk.source, e)
    BY <1>1, <1>2 DEF KeySet
  <1>4. \A e : Seen(e)' <=> Seen(e)
    BY <1>1 DEF Seen
  <1>5. ASSUME walk.pc = "flags" PROVE Follows(walk.page)' /\ Covers(walk.page)'
    BY <1>1, <1>3, <1>4, <1>5 DEF WalkInv, Follows, Covers
  <1>6. \A e \in steady' : Listed(walk.source, walk.filter, e)'
    BY <1>2
  <1>7. ASSUME walk.pc = "walking"
        PROVE  \A e \in steady' :
                  Seen(e)' \/ AfterCursor(walk.asc, walk.cursor, KeySet(walk.source, e)')
    BY <1>1, <1>3, <1>4, <1>7 DEF WalkInv
  <1>8. walk.pc = "done" => \A e \in steady' : Seen(e)'
    BY <1>1, <1>4 DEF WalkInv
  <1>9. WalkInv'
    BY <1>1, <1>5, <1>6, <1>7, <1>8 DEF WalkInv
  <1>10. ActivityNeverRepeats'
    BY <1>1 DEF ActivityNeverRepeats
  <1> QED
    BY <1>1, <1>9, <1>10

\* A commit that changes the rows of its own entry as above preserves the invariant.
LEMMA CommitStep ==
    ASSUME IndInv, NEW r \in Requests, req[r].pc = "locked", Committed(r), RowStep(r),
           ActivityStep(r, favorite, favorite'), ActivityStep(r, opened, opened')
    PROVE  IndInv'
  <1> DEFINE e0 == req[r].e
             t0 == req[r].now
  <1>1. /\ TypeOK /\ StampsPast /\ LocksExclude /\ StampsOwn /\ StampsGrow
        /\ WalkInv /\ ActivityInv /\ ActivityNeverRepeats
        /\ PageTrue(walk.page) /\ PageTrue(cached)
    BY DEF IndInv
  <1>2. UNCHANGED <<clock, walk, cached>> /\ clock \in Nat
    BY <1>1 DEF Committed, TypeOK
  <1>3. Done \in ReqStates /\ Done.pc = "done" /\ Done.now = 0
    BY ListingAssumption DEF ListingAssumption, Done, Idle, ReqStates, ActivityOps, Entries, Names
  <1>4. /\ \A q \in Requests : req'[q] = IF q = r THEN Done ELSE req[q]
        /\ req' \in [Requests -> ReqStates]
    BY <1>1, <1>3 DEF Committed, TypeOK
  <1>5. e0 \in Entries /\ t0 \in Nat /\ t0 <= clock
    BY <1>1 DEF TypeOK, ReqStates, StampsPast
  <1>6. \A q \in Requests : Underway(q)' => q # r /\ Underway(q)
    BY <1>3, <1>4 DEF Underway
  <1>7. \A q \in Requests : (req'[q].pc = "locked") => q # r /\ req[q].pc = "locked" /\ req[q].e # e0
    BY <1>1, <1>3, <1>4 DEF LocksExclude
  <1>8. WalkInv' /\ ActivityNeverRepeats' /\ steady' \subseteq steady
    BY <1>1, CommitWalk
  <1>9. TypeOK'
    BY <1>1, <1>2, <1>4, <1>8 DEF TypeOK, RowStep, ActivityStep
  <1>10. /\ \A e \in Entries : row[e].updated \in Nat /\ row'[e].updated \in Nat
         /\ \A d \in Entries \ {e0} : row'[d] = row[d] /\ favorite'[d] = favorite[d] /\ opened'[d] = opened[d]
    <2>1. \A e \in Entries : row[e] \in Rows /\ row'[e] \in Rows
      BY <1>1 DEF TypeOK, RowStep
    <2> QED
      BY <2>1 DEF Rows, RowStep, ActivityStep
  <1>11. req[r].op \in StorageOps =>
            /\ t0 > 0
            /\ \A e \in Entries : row[e].updated # t0
            /\ \A q \in Requests \ {r} :
                 (Underway(q) /\ req[q].op \in StorageOps) => req[q].now # t0
    BY <1>1 DEF StampsOwn, Underway
  <1>12. StampsPast'
    <2>1. ASSUME NEW e \in Entries
          PROVE  /\ row'[e].updated <= clock
                 /\ row'[e].place \notin {"absent", "purged"} => row'[e].updated > 0
      <3>1. CASE e = e0
        BY <1>1, <1>2, <1>5, <1>10, <1>11, <2>1, <3>1 DEF StampsPast, RowStep
      <3>2. CASE e # e0
        BY <1>1, <1>10, <2>1, <3>2 DEF StampsPast
      <3> QED
        BY <3>1, <3>2
    <2>2. ASSUME NEW e \in Entries PROVE favorite'[e] <= clock /\ opened'[e] <= clock
      <3>1. CASE e = e0
        BY <1>1, <1>2, <1>5, <2>2, <3>1 DEF StampsPast, ActivityStep
      <3>2. CASE e # e0
        BY <1>1, <1>10, <2>2, <3>2 DEF StampsPast
      <3> QED
        BY <3>1, <3>2
    <2>3. \A q \in Requests : req'[q].now <= clock
      BY <1>1, <1>2, <1>3, <1>4 DEF StampsPast
    <2> QED
      BY <1>2, <2>1, <2>2, <2>3 DEF StampsPast
  <1>13. LocksExclude'
    <2>1. ASSUME NEW q \in Requests, req'[q].pc = "locked" PROVE Admitted(req[q].op, req[q].e)'
      <3>1. q # r /\ req'[q] = req[q] /\ req[q].pc = "locked" /\ req[q].e # e0 /\ req[q].e \in Entries
        BY <1>1, <1>4, <1>7, <2>1 DEF TypeOK, ReqStates
      <3>2. row'[req[q].e] = row[req[q].e]
        BY <1>10, <3>1
      <3>3. Admitted(req[q].op, req[q].e)
        BY <1>1, <3>1 DEF LocksExclude
      <3> QED
        BY <3>1, <3>2, <3>3 DEF Admitted, Alive
    <2>2. \A p, q \in Requests :
            (req'[p].pc = "locked" /\ req'[q].pc = "locked" /\ req'[p].e = req'[q].e) => p = q
      BY <1>1, <1>4, <1>7 DEF LocksExclude
    <2> QED
      BY <2>1, <2>2 DEF LocksExclude
  <1>14. StampsOwn'
    <2> SUFFICES ASSUME NEW p \in Requests, Underway(p)', req'[p].op \in StorageOps
                 PROVE  /\ req'[p].now > 0
                        /\ \A e \in Entries : row'[e].updated # req'[p].now
                        /\ \A q \in Requests \ {p} :
                             (Underway(q)' /\ req'[q].op \in StorageOps) => req'[q].now # req'[p].now
      BY DEF StampsOwn
    <2>1. p # r /\ req'[p] = req[p] /\ Underway(p) /\ req[p].op \in StorageOps
      BY <1>4, <1>6
    <2>2. /\ req[p].now > 0
          /\ \A e \in Entries : row[e].updated # req[p].now
          /\ \A q \in Requests \ {p} :
               (Underway(q) /\ req[q].op \in StorageOps) => req[q].now # req[p].now
      BY <1>1, <2>1 DEF StampsOwn
    <2>3. ASSUME NEW e \in Entries PROVE row'[e].updated # req[p].now
      <3>1. CASE e = e0
        <4>1. req[p].now # 0
          BY <2>2
        <4> QED
          BY <1>11, <2>1, <2>2, <3>1, <4>1 DEF RowStep
      <3>2. CASE e # e0
        BY <1>10, <2>2, <3>2
      <3> QED
        BY <3>1, <3>2
    <2> QED
      BY <1>4, <1>6, <2>1, <2>2, <2>3
  <1>15. StampsGrow'
    <2> SUFFICES ASSUME NEW q \in Requests, req'[q].pc = "locked", req'[q].op \in ActivityOps
                 PROVE  favorite'[req'[q].e] <= req'[q].now /\ opened'[req'[q].e] <= req'[q].now
      BY DEF StampsGrow
    <2>1. q # r /\ req'[q] = req[q] /\ req[q].pc = "locked" /\ req[q].e # e0 /\ req[q].e \in Entries
      BY <1>1, <1>4, <1>7 DEF TypeOK, ReqStates
    <2> QED
      BY <1>1, <1>10, <2>1 DEF StampsGrow
  <1>16. ActivityInv'
    <2> SUFFICES ASSUME walk.source \in {"favorites", "recents"}, NEW i \in DOMAIN walk.seen
                 PROVE  LET k == walk.seen[i] IN
                        /\ k[1] <= clock
                        /\ SortKey(walk.source, k[2])' = 0 \/ SortKey(walk.source, k[2])' >= k[1]
                        /\ \A q \in Requests :
                             (req'[q].pc = "locked" /\ req'[q].op \in ActivityOps /\ req'[q].e = k[2])
                                 => req'[q].now >= k[1]
      BY <1>2 DEF ActivityInv
    <2> DEFINE k == walk.seen[i]
    <2>1. /\ k[1] <= clock
          /\ SortKey(walk.source, k[2]) = 0 \/ SortKey(walk.source, k[2]) >= k[1]
          /\ \A q \in Requests :
               (req[q].pc = "locked" /\ req[q].op \in ActivityOps /\ req[q].e = k[2])
                   => req[q].now >= k[1]
      BY <1>1 DEF ActivityInv
    <2>2. k[2] \in Entries /\ k' = k
      BY <1>1, <1>2 DEF TypeOK, Walks, Keys
    <2> HIDE DEF k
    <2>3. SortKey(walk.source, k[2])' = 0 \/ SortKey(walk.source, k[2])' >= k[1]
      <3>1. CASE k[2] = e0
        <4>1. ASSUME NEW old, NEW new, ActivityStep(r, old, new), old[e0] = 0 \/ old[e0] >= k[1]
              PROVE  new[e0] = 0 \/ new[e0] >= k[1]
          BY <2>1, <3>1, <4>1 DEF ActivityStep
        <4>2. CASE walk.source = "favorites"
          BY <1>2, <2>1, <2>2, <3>1, <4>1, <4>2 DEF SortKey
        <4>3. CASE walk.source = "recents"
          BY <1>2, <2>1, <2>2, <3>1, <4>1, <4>3 DEF SortKey
        <4> QED
          BY <4>2, <4>3
      <3>2. CASE k[2] # e0
        BY <1>2, <1>10, <2>1, <2>2, <3>2 DEF SortKey
      <3> QED
        BY <3>1, <3>2
    <2>4. \A q \in Requests :
             (req'[q].pc = "locked" /\ req'[q].op \in ActivityOps /\ req'[q].e = k[2])
                 => req'[q].now >= k[1]
      BY <1>4, <1>7, <2>1
    <2> QED
      BY <2>1, <2>3, <2>4 DEF k
  <1>17. ASSUME NEW page \in Pages, PageTrue(page) PROVE PageTrue(page)'
    <2> SUFFICES ASSUME NEW i \in DOMAIN page.items, ItemTrue(page.items[i])
                 PROVE  ItemTrue(page.items[i])'
      BY <1>2, <1>17 DEF PageTrue
    <2> DEFINE x == page.items[i]
    <2>1. x.updated \in Nat /\ x.id \in Entries
      <3>1. page.items \in Seq(Items)
        BY DEF Pages
      <3>2. x \in Items
        BY <3>1
      <3> QED
        BY <3>2 DEF Items
    <2>2. /\ 0 < x.updated /\ x.updated <= clock
          /\ x.updated = row[x.id].updated => x.name = row[x.id].name
          /\ \A q \in Requests : (Underway(q) /\ req[q].op \in StorageOps) => x.updated # req[q].now
      BY DEF ItemTrue
    <2>3. x.key = <<KeyOf(x)', x.id>>
      BY <1>2 DEF ItemTrue, KeyOf
    <2> HIDE DEF x
    <2>4. x.updated = row'[x.id].updated => x.name = row'[x.id].name
      <3>1. CASE x.id = e0
        <4>1. x.updated # 0 /\ (req[r].op \in StorageOps => x.updated # t0)
          BY <2>1, <2>2 DEF Underway
        <4> QED
          BY <2>2, <3>1, <4>1 DEF RowStep
      <3>2. CASE x.id # e0
        BY <1>10, <2>1, <2>2, <3>2
      <3> QED
        BY <3>1, <3>2
    <2>5. \A q \in Requests : (Underway(q)' /\ req'[q].op \in StorageOps) => x.updated # req'[q].now
      BY <1>4, <1>6, <2>2
    <2> QED
      BY <1>2, <2>2, <2>3, <2>4, <2>5 DEF ItemTrue, x
  <1>18. PageTrue(walk.page)' /\ PageTrue(cached)'
    <2>1. walk.page \in Pages /\ cached \in Pages
      BY <1>1 DEF TypeOK, Walks
    <2> QED
      BY <1>1, <1>2, <1>17, <2>1
  <1> QED
    BY <1>8, <1>9, <1>12, <1>13, <1>14, <1>15, <1>16, <1>18 DEF IndInv

\* The values that requests leave behind have their types.
LEMMA Constants ==
    /\ Done \in ReqStates /\ Done.pc = "done" /\ Done.now = 0
    /\ NoRow \in Rows /\ NoRow.updated = 0
    /\ 1 \in Names
  BY ListingAssumption DEF ListingAssumption, Done, Idle, ReqStates, ActivityOps, NoRow, Rows,
                           Places, Entries, Names

\* A request that arrives.
LEMMA BeginStep == ASSUME IndInv, NEW r \in Requests, Begin(r) PROVE IndInv'
  <1>1. PICK op \in StorageOps \cup ActivityOps, e \in Entries, n \in Names :
          /\ clock' = IF StampedOnArrival(op) THEN clock + 1 ELSE clock
          /\ req' = [req EXCEPT ![r] = [pc |-> "waiting", op |-> op, e |-> e,
                                        name |-> n, now |-> clock']]
    BY DEF Begin
  <1> DEFINE t == [pc |-> "waiting", op |-> op, e |-> e, name |-> n, now |-> clock']
  <1>2. clock \in Nat /\ clock' \in {clock, clock + 1} /\ clock' \in Nat
    BY <1>1 DEF IndInv, TypeOK
  <1>3. t \in ReqStates /\ t.pc = "waiting" /\ t.op = op /\ t.now = clock'
    BY <1>2 DEF ReqStates
  <1>4. op \in StorageOps => clock' = clock + 1
    BY <1>1 DEF StampedOnArrival
  <1>5. UNCHANGED <<row, favorite, opened, walk, cached, steady>>
    BY DEF Begin
  <1>6. req' = [req EXCEPT ![r] = t]
    BY <1>1
  <1> HIDE DEF t
  <1>7. Proceeds(r, t)
    BY <1>2, <1>3, <1>4, <1>5, <1>6 DEF Proceeds, Fresh
  <1> QED
    BY <1>7, RequestStep

\* A request that gets its row.
LEMMA LockStep == ASSUME IndInv, NEW r \in Requests, Lock(r) PROVE IndInv'
  <1> DEFINE q == req[r]
             now == IF StampedOnArrival(q.op) THEN q.now ELSE clock'
             t == [q EXCEPT !.pc = "locked", !.now = now]
  <1>1. TypeOK /\ StampsPast
    BY DEF IndInv
  <1>2. q \in ReqStates /\ q.now <= clock /\ clock \in Nat
    BY <1>1 DEF TypeOK, StampsPast
  <1>3. clock' = (IF StampedOnArrival(q.op) THEN clock ELSE clock + 1)
    BY DEF Lock
  <1>4. /\ q.pc = "waiting" /\ EntryFree(q.e) /\ Admitted(q.op, q.e)
        /\ UNCHANGED <<row, favorite, opened, walk, cached, steady>>
    BY DEF Lock
  <1>5. req' = [req EXCEPT ![r] = t]
    BY DEF Lock
  <1>6. now \in Nat
    BY <1>2, <1>3 DEF ReqStates
  <1> HIDE DEF now
  <1>7. t \in ReqStates /\ t.pc = "locked" /\ t.op = q.op /\ t.e = q.e /\ t.now = now
    BY <1>2, <1>6 DEF ReqStates
  <1>8. q.op \in ActivityOps => ~StampedOnArrival(q.op)
    BY DEF StampedOnArrival, StorageOps, ActivityOps
  <1>9. q.op \in StorageOps => StampedOnArrival(q.op)
    BY DEF StampedOnArrival
  <1> HIDE DEF t
  <1>10. t.now <= clock' /\ clock' \in {clock, clock + 1}
    BY <1>2, <1>3, <1>7 DEF now, ReqStates
  <1>11. Proceeds(r, t)
    BY <1>2, <1>3, <1>4, <1>5, <1>7, <1>8, <1>9, <1>10 DEF Proceeds, Fresh, Underway, now
  <1> QED
    BY <1>11, RequestStep

\* A request that ends without effect.
LEMMA EndStep == ASSUME IndInv, NEW r \in Requests, Refuse(r) \/ Abort(r) PROVE IndInv'
  <1>1. clock' = clock /\ clock \in Nat /\ req' = [req EXCEPT ![r] = Done]
    BY DEF Refuse, Abort, IndInv, TypeOK
  <1>2. UNCHANGED <<row, favorite, opened, walk, cached, steady>>
    BY DEF Refuse, Abort
  <1>3. Proceeds(r, Done)
    BY <1>1, <1>2, Constants DEF Proceeds
  <1> QED
    BY <1>3, RequestStep

\* A commit leaves a table of activity that it does not write as it was.
LEMMA NoActivity ==
    ASSUME TypeOK, NEW r \in Requests
    PROVE  /\ UNCHANGED favorite => ActivityStep(r, favorite, favorite')
           /\ UNCHANGED opened => ActivityStep(r, opened, opened')
  BY DEF ActivityStep, TypeOK

\* The commands that date the row.
LEMMA DatedCommit ==
    ASSUME IndInv, NEW r \in Requests,
           CommitCreate(r) \/ CommitRename(r) \/ CommitMove(r) \/ CommitRestore(r)
    PROVE  IndInv'
  <1> DEFINE q == req[r]
             e == q.e
  <1>1. TypeOK
    BY DEF IndInv
  <1>2. q \in ReqStates /\ e \in Entries /\ q.now \in Nat /\ q.name \in Names
    BY <1>1 DEF TypeOK, ReqStates
  <1>3. row \in [Entries -> Rows] /\ row[e] \in Rows
    BY <1>1, <1>2 DEF TypeOK
  <1>4. q.pc = "locked" /\ q.op \in StorageOps /\ UNCHANGED <<favorite, opened>> /\ Committed(r)
    BY DEF CommitCreate, CommitRename, CommitMove, CommitRestore, StorageOps
  <1>5. \E w \in Rows : row' = [row EXCEPT ![e] = w] /\ w.updated = q.now
    <2>1. CASE CommitCreate(r)
      <3> DEFINE w == [NoRow EXCEPT !.place = "here", !.name = q.name, !.updated = q.now]
      <3>1. w \in Rows /\ w.updated = q.now
        BY <1>2, Constants DEF Rows, Places
      <3>2. row' = [row EXCEPT ![e] = w]
        BY <2>1 DEF CommitCreate
      <3> QED
        BY <3>1, <3>2
    <2>2. CASE CommitRename(r)
      <3> DEFINE w == [row[e] EXCEPT !.name = q.name, !.updated = q.now]
      <3>1. w \in Rows /\ w.updated = q.now
        BY <1>2, <1>3 DEF Rows
      <3>2. row' = [row EXCEPT ![e] = w]
        BY <1>2, <1>3, <2>2 DEF CommitRename
      <3> QED
        BY <3>1, <3>2
    <2>3. CASE CommitMove(r)
      <3>1. PICK to \in {"here", "elsewhere"} :
              row' = [row EXCEPT ![e].place = to, ![e].updated = q.now]
        BY <2>3 DEF CommitMove
      <3> DEFINE w == [row[e] EXCEPT !.place = to, !.updated = q.now]
      <3>2. w \in Rows /\ w.updated = q.now
        BY <1>2, <1>3 DEF Rows, Places
      <3>3. row' = [row EXCEPT ![e] = w]
        BY <1>2, <1>3, <3>1
      <3> QED
        BY <3>2, <3>3
    <2>4. CASE CommitRestore(r)
      <3>1. PICK to \in {"here", "elsewhere"} :
              row' = [row EXCEPT ![e].place = to, ![e].updated = q.now, ![e].trashed = 0]
        BY <2>4 DEF CommitRestore
      <3> DEFINE w == [row[e] EXCEPT !.place = to, !.updated = q.now, !.trashed = 0]
      <3>2. w \in Rows /\ w.updated = q.now
        BY <1>2, <1>3 DEF Rows, Places
      <3>3. row' = [row EXCEPT ![e] = w]
        BY <1>2, <1>3, <3>1
      <3> QED
        BY <3>2, <3>3
    <2> QED
      BY <2>1, <2>2, <2>3, <2>4
  <1>6. RowStep(r)
    BY <1>2, <1>3, <1>4, <1>5 DEF RowStep
  <1> QED
    BY <1>1, <1>4, <1>6, NoActivity, CommitStep

\* The commands that leave updated_at alone, or remove the row.
LEMMA UndatedCommit ==
    ASSUME IndInv, NEW r \in Requests,
           \/ CommitTrash(r) \/ CommitPurge(r)
           \/ CommitFavorite(r) \/ CommitUnfavorite(r) \/ CommitOpen(r)
    PROVE  IndInv'
  <1> DEFINE q == req[r]
             e == q.e
  <1>1. TypeOK
    BY DEF IndInv
  <1>2. q \in ReqStates /\ e \in Entries /\ q.now \in Nat
    BY <1>1 DEF TypeOK, ReqStates
  <1>3. /\ row \in [Entries -> Rows] /\ row[e] \in Rows
        /\ favorite \in [Entries -> Nat] /\ opened \in [Entries -> Nat]
    BY <1>1, <1>2 DEF TypeOK
  <1>4. q.pc = "locked" /\ Committed(r)
    BY DEF CommitTrash, CommitPurge, CommitFavorite, CommitUnfavorite, CommitOpen
  <1>5. UNCHANGED row => RowStep(r)
    BY <1>2, <1>3 DEF RowStep
  <1>6. CASE CommitTrash(r)
    <2> DEFINE w == [row[e] EXCEPT !.place = "trash", !.trashed = q.now]
    <2>1. w \in Rows /\ w.updated = row[e].updated /\ w.name = row[e].name
      BY <1>2, <1>3 DEF Rows, Places
    <2>2. row' = [row EXCEPT ![e] = w]
      BY <1>2, <1>3, <1>6 DEF CommitTrash
    <2>3. row[e].place \notin {"absent", "purged"}
      <3>1. q.op = "trash" /\ Admitted(q.op, e)
        BY <1>4, <1>6 DEF CommitTrash, IndInv, LocksExclude
      <3> QED
        BY <3>1 DEF Admitted, Alive
    <2> HIDE DEF w
    <2>4. RowStep(r)
      BY <1>2, <1>3, <2>1, <2>2, <2>3 DEF RowStep
    <2> QED
      BY <1>1, <1>4, <1>6, <2>4, NoActivity, CommitStep DEF CommitTrash
  <1>7. CASE CommitPurge(r)
    <2> DEFINE w == [NoRow EXCEPT !.place = "purged"]
    <2>1. w \in Rows /\ w.updated = 0 /\ w.place = "purged"
      BY Constants DEF Rows, Places
    <2>2. row' = [row EXCEPT ![e] = w]
      BY <1>7 DEF CommitPurge
    <2> HIDE DEF w
    <2>3. RowStep(r)
      BY <1>2, <1>3, <2>1, <2>2 DEF RowStep
    <2>4. ActivityStep(r, favorite, favorite') /\ ActivityStep(r, opened, opened')
      BY <1>2, <1>3, <1>7 DEF CommitPurge, ActivityStep
    <2> QED
      BY <1>4, <2>3, <2>4, CommitStep
  <1>8. CASE CommitFavorite(r) \/ CommitUnfavorite(r)
    <2>1. ActivityStep(r, favorite, favorite')
      BY <1>2, <1>3, <1>8 DEF CommitFavorite, CommitUnfavorite, ActivityStep, ActivityOps
    <2>2. UNCHANGED <<row, opened>>
      BY <1>8 DEF CommitFavorite, CommitUnfavorite
    <2> QED
      BY <1>1, <1>4, <1>5, <2>1, <2>2, NoActivity, CommitStep
  <1>9. CASE CommitOpen(r)
    <2>1. ActivityStep(r, opened, opened')
      BY <1>2, <1>3, <1>9 DEF CommitOpen, ActivityStep, ActivityOps
    <2>2. UNCHANGED <<row, favorite>>
      BY <1>9 DEF CommitOpen
    <2> QED
      BY <1>1, <1>4, <1>5, <2>1, <2>2, NoActivity, CommitStep
  <1> QED
    BY <1>6, <1>7, <1>8, <1>9

-----------------------------------------------------------------------------
(* Steps of the client *)

\* A sequence behind another one.
LEMMA Joined ==
    ASSUME NEW S, NEW s \in Seq(S), NEW t \in Seq(S)
    PROVE  /\ s \o t \in Seq(S)
           /\ Len(s) \in Nat /\ Len(t) \in Nat
           /\ DOMAIN s = 1 .. Len(s) /\ DOMAIN t = 1 .. Len(t)
           /\ DOMAIN (s \o t) = 1 .. (Len(s) + Len(t))
           /\ \A i \in 1 .. Len(s) : (s \o t)[i] = s[i]
           /\ \A i \in 1 .. Len(t) : (s \o t)[Len(s) + i] = t[i]
  OBVIOUS

\* The positions of a sequence behind another one are of the first or of the second.
LEMMA JoinedIndex ==
    ASSUME NEW m \in Nat, NEW n \in Nat, NEW i \in 1 .. (m + n)
    PROVE  i \in 1 .. m \/ \E j \in 1 .. n : i = m + j
  <1>1. CASE i <= m
    BY <1>1
  <1>2. CASE i > m
    <2>1. i - m \in 1 .. n /\ i = m + (i - m)
      BY <1>2
    <2> QED
      BY <2>1
  <1> QED
    BY <1>1, <1>2

\* A page that goes on where the walk is can be delivered: nothing is shown twice, nothing
\* is out of order and nothing is passed over.
CanDeliver(page) ==
    /\ page \in Pages
    /\ walk.pc # "done"
    /\ Follows(page) /\ Covers(page)
    /\ walk.source \in {"favorites", "recents"} => ShowsRows(page, walk.cursor)
    /\ walk' = Delivered(page)
    /\ UNCHANGED <<clock, row, favorite, opened, req, steady>>

\* The keys of a page.
KeysOf(page) == [i \in DOMAIN page.items |-> page.items[i].key]

\* What a delivery makes of the walk.
LEMMA DeliveredWalk ==
    ASSUME TypeOK, NEW page, CanDeliver(page)
    PROVE  /\ KeysOf(page) \in Seq(Keys) /\ DOMAIN KeysOf(page) = DOMAIN page.items
           /\ \A i \in DOMAIN page.items : KeysOf(page)[i] = page.items[i].key
           /\ walk' \in Walks
           /\ walk'.seen = walk.seen \o KeysOf(page)
           /\ walk'.cursor = page.next /\ walk'.page = NoPage
           /\ walk'.pc = IF page.next = NoCursor THEN "done" ELSE "walking"
           /\ walk'.source = walk.source /\ walk'.filter = walk.filter /\ walk'.asc = walk.asc
  <1>1. page.items \in Seq(Items) /\ page.next \in {NoCursor} \cup Keys
    BY DEF CanDeliver, Pages
  <1>2. ASSUME NEW i \in DOMAIN page.items PROVE page.items[i].key \in Keys
    <2>1. page.items[i] \in Items
      BY <1>1
    <2> QED
      BY <2>1 DEF Items
  <1>3. KeysOf(page) \in Seq(Keys)
    BY <1>1, <1>2 DEF KeysOf
  <1> DEFINE seen == walk.seen \o KeysOf(page)
             pc == IF page.next = NoCursor THEN "done" ELSE "walking"
  <1>4. walk \in Walks /\ seen \in Seq(Keys)
    BY <1>3 DEF TypeOK, Walks
  <1>5. NoPage \in Pages
    BY DEF NoPage, Pages
  <1>6. walk' = [walk EXCEPT !.seen = seen, !.cursor = page.next, !.page = NoPage, !.pc = pc]
    BY DEF CanDeliver, Delivered, KeysOf
  <1>7. pc \in {"walking", "flags", "done"}
    OBVIOUS
  <1> HIDE DEF seen, pc
  <1>8. /\ walk' \in Walks /\ walk'.seen = seen /\ walk'.cursor = page.next
        /\ walk'.page = NoPage /\ walk'.pc = pc
        /\ walk'.source = walk.source /\ walk'.filter = walk.filter /\ walk'.asc = walk.asc
    BY <1>1, <1>4, <1>5, <1>6, <1>7 DEF Walks
  <1> QED
    BY <1>3, <1>8 DEF seen, pc, KeysOf

\* A delivery keeps the promises about the walk.
LEMMA DeliveredWalkInv ==
    ASSUME TypeOK, WalkInv, NEW page, CanDeliver(page)
    PROVE  WalkInv'
  <1> DEFINE keys == KeysOf(page)
             m == Len(walk.seen)
             n == Len(keys)
             Before(a, b) == Precedes(walk.asc, a, b)
             pos == walk.cursor
  <1>1. /\ keys \in Seq(Keys) /\ DOMAIN keys = DOMAIN page.items
        /\ \A i \in DOMAIN page.items : keys[i] = page.items[i].key
        /\ walk'.seen = walk.seen \o keys
        /\ walk'.cursor = page.next
        /\ walk'.pc = IF page.next = NoCursor THEN "done" ELSE "walking"
        /\ walk'.source = walk.source /\ walk'.filter = walk.filter /\ walk'.asc = walk.asc
    BY DeliveredWalk
  <1>2. /\ walk.seen \in Seq(Keys) /\ walk.asc \in BOOLEAN /\ walk.source \in Sources
        /\ pos \in {NoCursor} \cup Keys
    BY DEF TypeOK, Walks
  <1>3. page.next \in {NoCursor} \cup Keys
    BY DEF CanDeliver, Pages
  <1>4. Follows(page) /\ Covers(page) /\ walk.pc # "done"
    BY DEF CanDeliver
  <1>5. UNCHANGED <<row, favorite, opened, steady>>
    BY DEF CanDeliver
  <1> HIDE DEF keys
  <1>6. /\ m \in Nat /\ n \in Nat
        /\ DOMAIN walk.seen = 1 .. m /\ DOMAIN keys = 1 .. n
        /\ DOMAIN walk'.seen = 1 .. (m + n)
        /\ \A i \in 1 .. m : walk'.seen[i] = walk.seen[i] /\ walk.seen[i] \in Keys
        /\ \A i \in 1 .. n : walk'.seen[m + i] = keys[i] /\ keys[i] \in Keys
    BY <1>1, <1>2, Joined
  <1> HIDE DEF m, n
  <1>7. ASSUME NEW i \in 1 .. (m + n) PROVE i \in 1 .. m \/ \E j \in 1 .. n : i = m + j
    BY <1>6, JoinedIndex
  <1>8. /\ \A a, b, c \in Keys : (Before(a, b) /\ Before(b, c)) => Before(a, c)
    BY <1>2, OrderOfKeys
  <1> HIDE DEF Before, pos
  <1>9. ASSUME NEW i \in 1 .. m, NEW j \in 1 .. n PROVE Before(walk.seen[i], keys[j])
    <2>1. pos # NoCursor /\ (walk.seen[i] = pos \/ Before(walk.seen[i], pos))
      <3>1. i \in DOMAIN walk.seen /\ walk.seen # <<>>
        BY <1>6, <1>9
      <3> QED
        BY <1>4, <3>1 DEF WalkInv, Before, pos
    <2>2. Before(pos, keys[j])
      BY <1>1, <1>4, <1>6, <2>1 DEF Follows, AfterCursor, Before, pos
    <2> QED
      BY <1>2, <1>6, <1>8, <2>1, <2>2
  <1>10. ASSUME NEW i \in 1 .. n, NEW j \in 1 .. n, i < j PROVE Before(keys[i], keys[j])
    <2>1. i \in DOMAIN page.items /\ j \in DOMAIN page.items
      BY <1>1, <1>6
    <2>2. Before(page.items[i].key, page.items[j].key)
      BY <1>4, <1>10, <2>1 DEF Follows, Before
    <2> QED
      BY <1>1, <2>1, <2>2
  <1>11. ASSUME NEW i \in DOMAIN walk'.seen, NEW j \in DOMAIN walk'.seen, i < j
         PROVE  Before(walk'.seen[i], walk'.seen[j])
    <2>1. i \in 1 .. (m + n) /\ j \in 1 .. (m + n)
      BY <1>6
    <2>2. CASE i \in 1 .. m /\ j \in 1 .. m
      <3>1. Before(walk.seen[i], walk.seen[j])
        BY <1>6, <1>11, <2>2 DEF WalkInv, Before
      <3> QED
        BY <1>6, <2>2, <3>1
    <2>3. CASE i \in 1 .. m /\ \E b \in 1 .. n : j = m + b
      BY <1>6, <1>9, <2>3
    <2>4. CASE \E a, b \in 1 .. n : i = m + a /\ j = m + b
      <3>1. PICK a, b \in 1 .. n : i = m + a /\ j = m + b
        BY <2>4
      <3>2. a < b
        BY <1>6, <1>11, <3>1
      <3> QED
        BY <1>6, <1>10, <3>1, <3>2
    <2>5. CASE j \in 1 .. m /\ \E a \in 1 .. n : i = m + a
      BY <1>6, <1>11, <2>5
    <2> QED
      BY <1>7, <2>1, <2>2, <2>3, <2>4, <2>5
  <1>12. ASSUME page.next # NoCursor, NEW i \in DOMAIN walk'.seen
         PROVE  walk'.seen[i] = page.next \/ Before(walk'.seen[i], page.next)
    <2>1. \A j \in 1 .. n : keys[j] = page.next \/ Before(keys[j], page.next)
      BY <1>1, <1>4, <1>6, <1>12 DEF Follows, Before
    <2>2. CASE \E j \in 1 .. n : i = m + j
      BY <1>6, <2>1, <2>2
    <2>3. CASE i \in 1 .. m
      <3>1. PICK j \in 1 .. n : keys[j] = page.next
        BY <1>1, <1>4, <1>6, <1>12 DEF Follows
      <3> QED
        BY <1>6, <1>9, <2>3, <3>1
    <2> QED
      BY <1>6, <1>7, <2>2, <2>3
  <1>13. ASSUME NEW e \in steady
         PROVE  Seen(e)' \/ (page.next # NoCursor /\ Precedes(walk.asc, page.next, KeySet(walk.source, e)))
    <2>1. CASE Seen(e)
      <3>1. PICK i \in 1 .. m : walk.seen[i][2] = e
        BY <1>6, <2>1 DEF Seen
      <3>2. i \in DOMAIN walk'.seen /\ walk'.seen[i][2] = e
        BY <1>6, <3>1
      <3> QED
        BY <3>2 DEF Seen
    <2>2. CASE \E i \in DOMAIN page.items : page.items[i].key[2] = e
      <3>1. PICK i \in 1 .. n : keys[i][2] = e
        BY <1>1, <1>6, <2>2
      <3>2. m + i \in DOMAIN walk'.seen /\ walk'.seen[m + i][2] = e
        BY <1>6, <3>1
      <3> QED
        BY <3>2 DEF Seen
    <2> QED
      BY <1>4, <2>1, <2>2 DEF Covers
  <1>14. \A e : KeySet(walk.source, e)' = KeySet(walk.source, e)
    BY <1>1, <1>5 DEF KeySet, SortKey
  <1>15. \A e : Listed(walk.source, walk.filter, e)' <=> Listed(walk.source, walk.filter, e)
    BY <1>1, <1>5 DEF Listed, Filtered, Alive
  <1>16. /\ \A i, j \in DOMAIN walk'.seen :
              i < j => Precedes(walk'.asc, walk'.seen[i], walk'.seen[j])
         /\ walk'.cursor # NoCursor => \A i \in DOMAIN walk'.seen :
              walk'.seen[i] = walk'.cursor \/ Precedes(walk'.asc, walk'.seen[i], walk'.cursor)
    BY <1>1, <1>11, <1>12 DEF Before
  <1>17. /\ walk'.pc = "walking" => \A e \in steady' :
              Seen(e)' \/ AfterCursor(walk'.asc, walk'.cursor, KeySet(walk.source, e)')
         /\ walk'.pc = "done" => \A e \in steady' : Seen(e)'
    BY <1>1, <1>5, <1>13, <1>14 DEF AfterCursor
  <1>18. \A e \in steady' : Listed(walk.source, walk.filter, e)'
    BY <1>5, <1>15 DEF WalkInv
  <1>19. /\ walk'.pc # "flags"
         /\ walk'.pc # "done" => walk'.cursor # NoCursor
         /\ walk'.source \notin FolderSorts => ~walk'.asc
    BY <1>1 DEF WalkInv
  <1> QED
    BY <1>16, <1>17, <1>18, <1>19 DEF WalkInv

\* A delivery keeps the promises about the listings of activity: a row behind the cursor
\* has an older stamp than any the client was shown, so its entry was not shown.
LEMMA DeliveredActivity ==
    ASSUME IndInv, NEW page, CanDeliver(page), walk.source \in {"favorites", "recents"}
    PROVE  ActivityInv' /\ ActivityNeverRepeats'
  <1> DEFINE keys == KeysOf(page)
             m == Len(walk.seen)
             n == Len(keys)
             Stamp(e) == SortKey(walk.source, e)
             Cares(r, k) == req[r].pc = "locked" /\ req[r].op \in ActivityOps /\ req[r].e = k[2]
  <1>1. /\ keys \in Seq(Keys) /\ DOMAIN keys = DOMAIN page.items
        /\ \A i \in DOMAIN page.items : keys[i] = page.items[i].key
        /\ walk'.seen = walk.seen \o keys /\ walk'.source = walk.source
    BY DeliveredWalk DEF IndInv
  <1>2. /\ TypeOK /\ StampsPast /\ StampsGrow /\ WalkInv /\ ActivityInv /\ ActivityNeverRepeats
        /\ walk.seen \in Seq(Keys) /\ walk.source \in Sources
        /\ walk.cursor \in {NoCursor} \cup Keys
    BY DEF IndInv, TypeOK, Walks
  <1>3. UNCHANGED <<clock, row, favorite, opened, req, steady>> /\ walk.pc # "done"
    BY DEF CanDeliver
  <1> HIDE DEF keys
  <1>4. /\ m \in Nat /\ n \in Nat
        /\ DOMAIN walk.seen = 1 .. m /\ DOMAIN keys = 1 .. n
        /\ DOMAIN walk'.seen = 1 .. (m + n)
        /\ \A i \in 1 .. m : walk'.seen[i] = walk.seen[i] /\ walk.seen[i] \in Keys
        /\ \A i \in 1 .. n : walk'.seen[m + i] = keys[i] /\ keys[i] \in Keys
    BY <1>1, <1>2, Joined
  <1> HIDE DEF m, n
  <1>5. ASSUME NEW i \in 1 .. (m + n) PROVE i \in 1 .. m \/ \E j \in 1 .. n : i = m + j
    BY <1>4, JoinedIndex
  <1>6. walk.source \notin FolderSorts /\ walk.asc = FALSE
    <2>1. walk.source \notin FolderSorts /\ walk.asc \in BOOLEAN
      BY <1>2 DEF FolderSorts, TypeOK, Walks
    <2> QED
      BY <1>2, <2>1 DEF WalkInv
  <1>7. ASSUME NEW j \in 1 .. n
        PROVE  /\ keys[j][2] \in Entries /\ keys[j][1] \in Nat
               /\ keys[j][1] = Stamp(keys[j][2]) /\ Stamp(keys[j][2]) # 0
    <2>1. j \in DOMAIN page.items /\ ShowsRows(page, walk.cursor)
      BY <1>1, <1>4 DEF CanDeliver
    <2>2. PICK e \in Found(walk.source, walk.filter, walk.asc, walk.cursor) :
             page.items[j] = Item(walk.source, e)
      BY <2>1 DEF ShowsRows
    <2>3. e \in Entries /\ Listed(walk.source, walk.filter, e)
      BY <2>2 DEF Found
    <2>4. keys[j] = KeySet(walk.source, e)
      BY <1>1, <2>1, <2>2 DEF Item
    <2>5. keys[j][1] = Stamp(e) /\ keys[j][2] = e /\ Stamp(e) \in Nat
      BY <1>2, <2>3, <2>4, KeysTyped
    <2>6. Stamp(e) # 0
      BY <1>6, <2>3 DEF Listed, SortKey, FolderSorts, Filtered, Alive
    <2> QED
      BY <2>3, <2>5, <2>6
  <1>8. \A e : Stamp(e)' = Stamp(e)
    BY <1>1, <1>3 DEF SortKey
  <1>9. \A e \in Entries : Stamp(e) <= clock /\ Stamp(e) \in Nat
    BY <1>2 DEF TypeOK, StampsPast, SortKey
  <1>10. \A r \in Requests : (req[r].pc = "locked" /\ req[r].op \in ActivityOps) => req[r].now >= Stamp(req[r].e)
    <2>1. \A r \in Requests : req[r].e \in Entries /\ req[r].now \in Nat
      BY <1>2 DEF TypeOK, ReqStates
    <2>2. \A e \in Entries : favorite[e] \in Nat /\ opened[e] \in Nat
      BY <1>2 DEF TypeOK
    <2> QED
      BY <1>2, <2>1, <2>2 DEF StampsGrow, SortKey
  <1> HIDE DEF Stamp
  <1>11. ASSUME NEW i \in 1 .. m
         PROVE  LET k == walk.seen[i] IN
                /\ k[1] <= clock /\ (Stamp(k[2]) = 0 \/ Stamp(k[2]) >= k[1])
                /\ \A r \in Requests : Cares(r, k) => req[r].now >= k[1]
    BY <1>2, <1>4 DEF ActivityInv, Stamp
  <1>12. ASSUME NEW i \in 1 .. n
         PROVE  LET k == keys[i] IN
                /\ k[1] <= clock /\ (Stamp(k[2]) = 0 \/ Stamp(k[2]) >= k[1])
                /\ \A r \in Requests : Cares(r, k) => req[r].now >= k[1]
    BY <1>7, <1>9, <1>10
  <1>13. ASSUME NEW i \in DOMAIN walk'.seen
         PROVE  LET k == walk'.seen[i] IN
                /\ k[1] <= clock /\ (Stamp(k[2]) = 0 \/ Stamp(k[2]) >= k[1])
                /\ \A r \in Requests : Cares(r, k) => req[r].now >= k[1]
    <2>1. CASE i \in 1 .. m
      BY <1>4, <1>11, <2>1
    <2>2. CASE \E j \in 1 .. n : i = m + j
      <3>1. PICK j \in 1 .. n : i = m + j
        BY <2>2
      <3> QED
        BY <1>4, <1>12, <3>1
    <2> QED
      BY <1>4, <1>5, <2>1, <2>2
  <1>14. ActivityInv'
    BY <1>3, <1>8, <1>13 DEF ActivityInv, Stamp
  <1>15. ASSUME NEW i \in 1 .. m, NEW j \in 1 .. n PROVE walk.seen[i][2] # keys[j][2]
    <2> DEFINE a == walk.seen[i]
               b == keys[j]
               c == walk.cursor
    <2>1. a \in Keys /\ b \in Keys
      BY <1>4
    <2>2. i \in DOMAIN walk.seen /\ walk.seen # <<>> /\ j \in DOMAIN page.items
      BY <1>1, <1>4
    <2>3. c # NoCursor /\ (a = c \/ Precedes(FALSE, a, c))
      BY <1>2, <1>3, <1>6, <2>2 DEF WalkInv
    <2>4. Precedes(FALSE, c, b)
      BY <1>1, <1>6, <2>2, <2>3 DEF CanDeliver, Follows, AfterCursor
    <2>5. c \in Keys
      BY <1>2, <2>3
    <2> HIDE DEF a, b, c
    <2>6. Precedes(FALSE, a, b)
      BY <2>1, <2>3, <2>4, <2>5, OrderOfKeys
    <2>7. b[1] < a[1] \/ (b[1] = a[1] /\ b[2] < a[2])
      BY <2>6 DEF Precedes
    <2>8. a[1] \in Nat /\ a[2] \in Nat /\ b[1] \in Nat /\ b[2] \in Nat
      BY <2>1, ListingAssumption DEF ListingAssumption, Keys, Entries
    <2>9. b[1] = Stamp(b[2]) /\ b[1] # 0
      BY <1>7 DEF b
    <2>10. Stamp(a[2]) = 0 \/ Stamp(a[2]) >= a[1]
      BY <1>11 DEF a
    <2>11. ASSUME a[2] = b[2] PROVE FALSE
      BY <2>7, <2>8, <2>9, <2>10, <2>11
    <2> QED
      BY <2>11 DEF a, b
  <1>16. ASSUME NEW i \in 1 .. n, NEW j \in 1 .. n, keys[i][2] = keys[j][2] PROVE i = j
    <2>1. keys[i] \in Keys /\ keys[i][1] = keys[j][1]
      BY <1>4, <1>7, <1>16
    <2>2. ~Precedes(FALSE, keys[i], keys[j]) /\ ~Precedes(FALSE, keys[j], keys[i])
      <3>1. keys[i][1] \in Nat /\ keys[i][2] \in Nat
        BY <2>1, ListingAssumption DEF ListingAssumption, Keys, Entries
      <3> QED
        BY <1>16, <2>1, <3>1 DEF Precedes
    <2>3. i \in DOMAIN page.items /\ j \in DOMAIN page.items
      BY <1>1, <1>4
    <2>4. ~(i < j) /\ ~(j < i)
      BY <1>1, <1>6, <2>2, <2>3 DEF CanDeliver, Follows
    <2> QED
      BY <1>4, <2>4
  <1>17. ASSUME NEW i \in DOMAIN walk'.seen, NEW j \in DOMAIN walk'.seen,
                walk'.seen[i][2] = walk'.seen[j][2]
         PROVE  i = j
    <2>1. CASE i \in 1 .. m /\ j \in 1 .. m
      BY <1>2, <1>4, <1>17, <2>1 DEF ActivityNeverRepeats
    <2>2. CASE i \in 1 .. m /\ \E b \in 1 .. n : j = m + b
      <3>1. PICK b \in 1 .. n : j = m + b
        BY <2>2
      <3>2. walk.seen[i][2] = keys[b][2]
        BY <1>4, <1>17, <2>2, <3>1
      <3> QED
        BY <1>15, <2>2, <3>2
    <2>3. CASE j \in 1 .. m /\ \E a \in 1 .. n : i = m + a
      <3>1. PICK a \in 1 .. n : i = m + a
        BY <2>3
      <3>2. walk.seen[j][2] = keys[a][2]
        BY <1>4, <1>17, <2>3, <3>1
      <3> QED
        BY <1>15, <2>3, <3>2
    <2>4. CASE \E a, b \in 1 .. n : i = m + a /\ j = m + b
      <3>1. PICK a, b \in 1 .. n : i = m + a /\ j = m + b
        BY <2>4
      <3>2. keys[a][2] = keys[b][2]
        BY <1>4, <1>17, <3>1
      <3> QED
        BY <1>16, <3>1, <3>2
    <2> QED
      BY <1>4, <1>5, <2>1, <2>2, <2>3, <2>4
  <1>18. ActivityNeverRepeats'
    BY <1>17 DEF ActivityNeverRepeats
  <1> QED
    BY <1>14, <1>18

\* What is not about the walk or the copy stays when only these change.
LEMMA SameRequests ==
    ASSUME TypeOK, StampsPast, LocksExclude, StampsOwn, StampsGrow,
           walk' \in Walks, cached' \in Pages,
           UNCHANGED <<clock, row, favorite, opened, req, steady>>
    PROVE  TypeOK' /\ StampsPast' /\ LocksExclude' /\ StampsOwn' /\ StampsGrow'
  <1>1. TypeOK'
    BY DEF TypeOK
  <1>2. StampsPast' /\ StampsOwn' /\ StampsGrow'
    BY DEF StampsPast, StampsOwn, StampsGrow, Underway
  <1>3. LocksExclude'
    BY DEF LocksExclude, Admitted, Alive
  <1> QED
    BY <1>1, <1>2, <1>3

\* A delivery preserves the invariant, with a true copy or the one that was there.
LEMMA DeliveredStep ==
    ASSUME IndInv, NEW page, CanDeliver(page), cached' \in Pages, PageTrue(cached)'
    PROVE  IndInv'
  <1>1. walk' \in Walks /\ walk'.source = walk.source /\ walk'.page = NoPage
    BY DeliveredWalk DEF IndInv
  <1>2. UNCHANGED <<clock, row, favorite, opened, req, steady>>
    BY DEF CanDeliver
  <1>3. TypeOK' /\ StampsPast' /\ LocksExclude' /\ StampsOwn' /\ StampsGrow'
    BY <1>1, <1>2, SameRequests DEF IndInv
  <1>4. WalkInv'
    BY DeliveredWalkInv DEF IndInv
  <1>5. ActivityInv' /\ ActivityNeverRepeats'
    <2>1. CASE walk.source \in {"favorites", "recents"}
      BY <2>1, DeliveredActivity
    <2>2. CASE walk.source \notin {"favorites", "recents"}
      BY <1>1, <2>2 DEF ActivityInv, ActivityNeverRepeats
    <2> QED
      BY <2>1, <2>2
  <1>6. PageTrue(walk.page)'
    BY <1>1 DEF PageTrue, NoPage
  <1> QED
    BY <1>3, <1>4, <1>5, <1>6 DEF IndInv

\* A page of an activity listing or of the trash.
LEMMA ReadActivityStep == ASSUME IndInv, ReadActivity PROVE IndInv'
  <1> DEFINE page == PageAt(walk.cursor)
  <1>1. walk.pc = "walking" /\ walk' = Delivered(page)
    BY DEF ReadActivity
  <1>2. UNCHANGED <<clock, row, favorite, opened, req, cached, steady>>
    BY DEF ReadActivity
  <1>3. page \in Pages /\ ShowsRows(page, walk.cursor)
    BY PageRows DEF IndInv
  <1>4. Follows(page) /\ Covers(page)
    BY <1>1, PageFollows DEF IndInv
  <1> HIDE DEF page
  <1>5. CanDeliver(page)
    BY <1>1, <1>2, <1>3, <1>4 DEF CanDeliver
  <1>6. walk'.source = walk.source
    BY <1>5, DeliveredWalk DEF IndInv
  <1>7. cached' \in Pages /\ PageTrue(cached)'
    <2>1. cached \in Pages /\ PageTrue(cached)
      BY DEF IndInv, TypeOK
    <2> QED
      BY <1>2, <1>6, <2>1 DEF PageTrue, ItemTrue, KeyOf, Underway
  <1> QED
    BY <1>5, <1>7, DeliveredStep

\* The first query of a page of a folder.
LEMMA ReadChildrenStep == ASSUME IndInv, ReadChildren PROVE IndInv'
  <1> DEFINE page == PageAt(walk.cursor)
  <1>1. /\ walk.pc = "walking" /\ walk.source \in FolderSorts
        /\ walk' = [walk EXCEPT !.pc = "flags", !.page = page]
    BY DEF ReadChildren
  <1>2. UNCHANGED <<clock, row, favorite, opened, req, cached, steady>>
    BY DEF ReadChildren
  <1>3. page \in Pages
    BY PageRows DEF IndInv
  <1>4. Follows(page) /\ Covers(page)
    BY <1>1, PageFollows DEF IndInv
  <1>5. PageTrue(page)
    BY <1>1, PageIsTrue DEF IndInv
  <1> HIDE DEF page
  <1>6. walk \in Walks
    BY DEF IndInv, TypeOK
  <1>7. /\ walk' \in Walks /\ walk'.pc = "flags" /\ walk'.page = page
        /\ walk'.source = walk.source /\ walk'.filter = walk.filter /\ walk'.asc = walk.asc
        /\ walk'.cursor = walk.cursor /\ walk'.seen = walk.seen
    BY <1>1, <1>3, <1>6 DEF Walks
  <1>8. TypeOK' /\ StampsPast' /\ LocksExclude' /\ StampsOwn' /\ StampsGrow'
    <2>1. cached' \in Pages
      BY <1>2 DEF IndInv, TypeOK
    <2> QED
      BY <1>2, <1>7, <2>1, SameRequests DEF IndInv
  <1>9. WalkInv'
    <2>1. WalkInv
      BY DEF IndInv
    <2>2. \A e : KeySet(walk.source, e)' = KeySet(walk.source, e)
      BY <1>2, <1>7 DEF KeySet, SortKey
    <2>3. \A e : Listed(walk.source, walk.filter, e)' <=> Listed(walk.source, walk.filter, e)
      BY <1>2, <1>7 DEF Listed, Filtered, Alive
    <2>4. \A e : Seen(e)' <=> Seen(e)
      BY <1>7 DEF Seen
    <2>5. Follows(walk.page)'
      BY <1>4, <1>7 DEF Follows
    <2>6. Covers(walk.page)'
      BY <1>2, <1>4, <1>7, <2>2, <2>4 DEF Covers
    <2>7. \A e \in steady' : Listed(walk.source, walk.filter, e)'
      BY <1>2, <2>1, <2>3 DEF WalkInv
    <2>8. /\ \A i, j \in DOMAIN walk'.seen :
               i < j => Precedes(walk'.asc, walk'.seen[i], walk'.seen[j])
          /\ walk'.cursor = NoCursor => walk'.seen = <<>>
          /\ walk'.cursor # NoCursor => \A i \in DOMAIN walk'.seen :
               walk'.seen[i] = walk'.cursor \/ Precedes(walk'.asc, walk'.seen[i], walk'.cursor)
      BY <1>1, <1>7, <2>1 DEF WalkInv
    <2> QED
      BY <1>1, <1>7, <2>5, <2>6, <2>7, <2>8 DEF WalkInv
  <1>10. ActivityInv' /\ ActivityNeverRepeats'
    BY <1>1, <1>7 DEF ActivityInv, ActivityNeverRepeats, FolderSorts
  <1>11. PageTrue(walk.page)' /\ PageTrue(cached)'
    <2>1. PageTrue(cached)
      BY DEF IndInv
    <2>2. PageTrue(cached)'
      BY <1>2, <1>7, <2>1 DEF PageTrue, ItemTrue, KeyOf, Underway
    <2>3. PageTrue(walk.page)'
      BY <1>2, <1>5, <1>7 DEF PageTrue, ItemTrue, KeyOf, Underway
    <2> QED
      BY <2>2, <2>3
  <1> QED
    BY <1>8, <1>9, <1>10, <1>11 DEF IndInv

\* The second query.  It changes nothing that the invariant is about.
LEMMA ReadFlagsStep == ASSUME IndInv, ReadFlags PROVE IndInv'
  <1> DEFINE page == walk.page
             Flagged(i) == [page.items[i] EXCEPT !.favorite = favorite[page.items[i].id] # 0]
             full == [page EXCEPT !.items = [i \in DOMAIN page.items |-> Flagged(i)]]
  <1>1. walk.pc = "flags" /\ page \in Pages /\ page.items \in Seq(Items)
    BY DEF ReadFlags, IndInv, TypeOK, Walks, Pages
  <1>2. /\ walk' = Delivered(full)
        /\ cached' = IF walk.cursor = NoCursor THEN full ELSE cached
        /\ UNCHANGED <<clock, row, favorite, opened, req, steady>>
    BY DEF ReadFlags
  <1>3. Follows(page) /\ Covers(page) /\ PageTrue(page) /\ walk.source \in FolderSorts
    BY <1>1 DEF IndInv, WalkInv
  <1> HIDE DEF page
  <1>4. \A i \in DOMAIN page.items : page.items[i] \in Items
    BY <1>1
  <1>5. ASSUME NEW i \in DOMAIN page.items
        PROVE  /\ Flagged(i) \in Items
               /\ Flagged(i).id = page.items[i].id /\ Flagged(i).key = page.items[i].key
               /\ Flagged(i).name = page.items[i].name
               /\ Flagged(i).updated = page.items[i].updated
    BY <1>4 DEF Items
  <1> HIDE DEF Flagged
  <1>6. /\ full \in Pages /\ full.next = page.next /\ DOMAIN full.items = DOMAIN page.items
        /\ \A i \in DOMAIN page.items : full.items[i] = Flagged(i)
    <2>1. [i \in DOMAIN page.items |-> Flagged(i)] \in Seq(Items)
      BY <1>1, <1>5
    <2> QED
      BY <1>1, <2>1 DEF Pages
  <1> HIDE DEF full
  <1>7. /\ \A i \in DOMAIN full.items :
              /\ full.items[i].id = page.items[i].id /\ full.items[i].key = page.items[i].key
              /\ full.items[i].name = page.items[i].name
              /\ full.items[i].updated = page.items[i].updated
    BY <1>5, <1>6
  <1>8. Follows(full) /\ Covers(full)
    BY <1>3, <1>6, <1>7 DEF Follows, Covers
  <1>9. CanDeliver(full)
    BY <1>1, <1>2, <1>3, <1>6, <1>8 DEF CanDeliver, FolderSorts
  <1>10. walk'.source = walk.source
    BY <1>9, DeliveredWalk DEF IndInv
  <1>11. ASSUME NEW i \in DOMAIN full.items PROVE ItemTrue(full.items[i])
    <2>1. page # NoPage
      BY <1>6, <1>11 DEF NoPage
    <2>2. ItemTrue(page.items[i])
      BY <1>3, <1>6, <2>1 DEF PageTrue
    <2>3. KeyOf(full.items[i]) = KeyOf(page.items[i])
      BY <1>7 DEF KeyOf
    <2> QED
      BY <1>7, <2>2, <2>3 DEF ItemTrue
  <1>12. PageTrue(full)
    BY <1>3, <1>11 DEF PageTrue
  <1>13. cached' \in Pages /\ PageTrue(cached)'
    <2>1. cached \in Pages /\ PageTrue(cached)
      BY DEF IndInv, TypeOK
    <2>2. cached' \in {cached, full}
      BY <1>2
    <2>3. PageTrue(cached')
      BY <1>12, <2>1, <2>2
    <2> QED
      BY <1>2, <1>6, <1>10, <2>1, <2>2, <2>3 DEF PageTrue, ItemTrue, KeyOf, Underway
  <1> QED
    BY <1>9, <1>13, DeliveredStep

\* A conditional request: the copy stays or becomes the page as it is.
LEMMA RevalidateStep == ASSUME IndInv, Revalidate PROVE IndInv'
  <1>1. /\ cached # NoPage /\ cached' \in {cached, FirstPage}
        /\ UNCHANGED <<clock, row, favorite, opened, req, walk, steady>>
    BY DEF Revalidate
  <1>2. cached \in Pages /\ PageTrue(cached) /\ walk.source \in FolderSorts
    BY <1>1 DEF IndInv, TypeOK, PageTrue
  <1>3. FirstPage \in Pages /\ PageTrue(FirstPage)
    BY <1>2, PageRows, PageIsTrue DEF FirstPage, IndInv
  <1>4. cached' \in Pages /\ PageTrue(cached')
    BY <1>1, <1>2, <1>3
  <1>5. PageTrue(cached)' /\ PageTrue(walk.page)'
    BY <1>1, <1>4 DEF PageTrue, ItemTrue, KeyOf, Underway, IndInv
  <1>6. TypeOK' /\ StampsPast' /\ LocksExclude' /\ StampsOwn' /\ StampsGrow'
    <2>1. walk' \in Walks
      BY <1>1 DEF IndInv, TypeOK
    <2> QED
      BY <1>1, <1>4, <2>1, SameRequests DEF IndInv
  <1>7. WalkInv' /\ ActivityNeverRepeats'
    BY <1>1, SameWalk DEF IndInv
  <1>8. ActivityInv'
    BY <1>1 DEF IndInv, ActivityInv, SortKey
  <1> QED
    BY <1>5, <1>6, <1>7, <1>8 DEF IndInv

-----------------------------------------------------------------------------
(* The theorems *)

\* Every step preserves the invariant.
LEMMA NextInv == ASSUME IndInv, [Next]_vars PROVE IndInv'
  <1>1. CASE UNCHANGED vars
    <2>1. UNCHANGED <<clock, row, favorite, opened, req, walk, cached, steady>>
      BY <1>1 DEF vars
    <2>2. walk' \in Walks /\ cached' \in Pages
      BY <2>1 DEF IndInv, TypeOK
    <2>3. TypeOK' /\ StampsPast' /\ LocksExclude' /\ StampsOwn' /\ StampsGrow'
      BY <2>1, <2>2, SameRequests DEF IndInv
    <2>4. WalkInv' /\ ActivityNeverRepeats'
      BY <2>1, SameWalk DEF IndInv
    <2>5. ActivityInv' /\ PageTrue(cached)' /\ PageTrue(walk.page)'
      BY <2>1 DEF IndInv, ActivityInv, SortKey, PageTrue, ItemTrue, KeyOf, Underway
    <2> QED
      BY <2>3, <2>4, <2>5 DEF IndInv
  <1>2. CASE Walk
    BY <1>2, ReadActivityStep, ReadChildrenStep, ReadFlagsStep, RevalidateStep DEF Walk
  <1>3. ASSUME NEW r \in Requests, Change(r) PROVE IndInv'
    BY <1>3, BeginStep, LockStep, EndStep, DatedCommit, UndatedCommit DEF Change
  <1> QED
    BY <1>1, <1>2, <1>3 DEF Next

\* The invariant holds in every reachable state.
THEOREM Invariance == Spec => []IndInv
  <1>1. Init => IndInv
    BY InitInv
  <1>2. IndInv /\ [Next]_vars => IndInv'
    BY NextInv
  <1> QED
    BY <1>1, <1>2, PTL DEF Spec

\* Every variable of the listings keeps its type.
THEOREM TypeCorrect == Spec => []TypeOK
  <1>1. IndInv => TypeOK
    BY DEF IndInv
  <1> QED
    BY <1>1, Invariance, PTL

\* Whatever commits between two pages of list_children, _list_activity or list_trash, in any
\* order and with any limit: the walk is in strict order, and when it ends it has shown every
\* entry that stayed in its listing under the same key.
THEOREM WalksAreExact == Spec => []PagesExact
  <1>1. IndInv => PagesExact
    BY DEF IndInv, WalkInv, PagesExact, Seen
  <1> QED
    BY <1>1, Invariance, PTL

\* A walk through the favourites or the recent opens shows no entry twice: the activity
\* commands read the clock under the row lock.
THEOREM ActivityShownOnce == Spec => []ActivityNeverRepeats
  <1>1. IndInv => ActivityNeverRepeats
    BY DEF IndInv
  <1> QED
    BY <1>1, Invariance, PTL

\* Equal tags mean equal metadata, as every change of an entry has an instant of its own.
LEMMA SameTag == ASSUME IndInv PROVE ETagMeansCurrent
  <1> DEFINE page == FirstPage
  <1> SUFFICES ASSUME cached # NoPage, ETag(cached) = ETag(page)
               PROVE  Metadata(cached) = Metadata(page)
    BY DEF ETagMeansCurrent, NotModified
  <1>1. walk.source \in FolderSorts /\ PageTrue(cached) /\ cached \in Pages
    BY DEF IndInv, PageTrue, TypeOK
  <1>2. page \in Pages /\ ShowsRows(page, NoCursor) /\ PageTrue(page)
    BY <1>1, PageRows, PageIsTrue DEF FirstPage, IndInv
  <1> HIDE DEF page
  <1> DEFINE tag(p) == [i \in DOMAIN p.items |-> <<p.items[i].id, p.items[i].updated>>]
  <1>3. tag(cached) = tag(page) /\ cached.next = page.next
    BY DEF ETag
  <1>4. /\ DOMAIN cached.items = DOMAIN page.items
        /\ \A i \in DOMAIN page.items : /\ cached.items[i].id = page.items[i].id
                                        /\ cached.items[i].updated = page.items[i].updated
    <2>1. DOMAIN tag(cached) = DOMAIN cached.items /\ DOMAIN tag(page) = DOMAIN page.items
      OBVIOUS
    <2>2. DOMAIN cached.items = DOMAIN page.items
      BY <1>3, <2>1
    <2>3. \A i \in DOMAIN page.items : tag(cached)[i] = tag(page)[i]
      BY <1>3
    <2> QED
      BY <2>2, <2>3
  <1>5. ASSUME NEW i \in DOMAIN page.items
        PROVE  [cached.items[i] EXCEPT !.favorite = FALSE] = [page.items[i] EXCEPT !.favorite = FALSE]
    <2> DEFINE x == cached.items[i]
               y == page.items[i]
    <2>1. x \in Items /\ y \in Items
      <3>1. cached.items \in Seq(Items) /\ page.items \in Seq(Items)
        BY <1>1, <1>2 DEF Pages
      <3> QED
        BY <1>4, <3>1
    <2>2. page # NoPage
      BY <1>5 DEF NoPage
    <2>3. ItemTrue(x) /\ ItemTrue(y)
      BY <1>1, <1>2, <1>4, <2>2 DEF PageTrue
    <2>4. \E e \in Entries : y = Item(walk.source, e)
      BY <1>2 DEF ShowsRows, Found
    <2>5. x.id = y.id /\ x.updated = y.updated
      BY <1>4
    <2> HIDE DEF x, y
    <2>6. y.updated = row[y.id].updated /\ y.name = row[y.id].name
      BY <2>4 DEF Item
    <2>7. x.name = y.name
      BY <2>3, <2>5, <2>6 DEF ItemTrue
    <2>8. x.key = y.key
      BY <2>3, <2>5, <2>7 DEF ItemTrue, KeyOf
    <2>9. [x EXCEPT !.favorite = FALSE] = [y EXCEPT !.favorite = FALSE]
      BY <2>1, <2>5, <2>7, <2>8 DEF Items
    <2> QED
      BY <2>9 DEF x, y
  <1> DEFINE bare(p) == [i \in DOMAIN p.items |-> [p.items[i] EXCEPT !.favorite = FALSE]]
  <1>6. bare(cached) = bare(page)
    BY <1>4, <1>5
  <1>7. /\ Metadata(cached) = [cached EXCEPT !.items = bare(cached)]
        /\ Metadata(page) = [page EXCEPT !.items = bare(page)]
    BY DEF Metadata
  <1> HIDE DEF bare
  <1> QED
    BY <1>1, <1>2, <1>3, <1>6, <1>7 DEF Pages

\* A 304 to If-None-Match always leaves the client with the metadata that the database holds,
\* although neither names nor keys are in the tag.
THEOREM TagsAreCurrent == Spec => []ETagMeansCurrent
  <1>1. IndInv => ETagMeansCurrent
    BY SameTag
  <1> QED
    BY <1>1, Invariance, PTL

==============================================================================
