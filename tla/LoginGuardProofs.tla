--------------------------- MODULE LoginGuardProofs ---------------------------
(***************************************************************************)
(* Proofs about LoginGuard, for every number of logins, every set of       *)
(* clients and every setting that satisfies the assumptions of the module. *)
(*                                                                         *)
(* The properties relate a row to ghosts that are updated when a           *)
(* transaction commits, while the transaction computes from the copy it    *)
(* made when it took its lock.  The strengthening says that the copy of a  *)
(* lock holder still is the row, because it is the only holder.            *)
(***************************************************************************)
EXTENDS LoginGuard, TLAPS

-----------------------------------------------------------------------------
(* The inductive invariant *)

\* Nothing carries an instant that is still to come.
PastInstants ==
    /\ \A i \in Logins : login[i].now <= clock
    /\ \A c \in Clients : bucket[c].start <= clock

\* A login that waits for its bucket or holds it has a client, and its instant is at
\* most MaxLag old.
WaitsAreBounded ==
    \A i \in Logins : login[i].pc \in {"limit", "bucket"} =>
        login[i].c \in Clients /\ clock <= login[i].now + MaxLag

\* The advisory lock: a bucket has one holder, whose copy is the row.
BucketHeld ==
    \A i \in Logins : login[i].pc = "bucket" =>
        /\ login[i].b = bucket[login[i].c]
        /\ \A j \in Logins : login[j].pc = "bucket" /\ login[j].c = login[i].c => i = j

\* FOR UPDATE: the account has one holder, whose copy is the row.
AccountHeld ==
    \A i \in Logins : login[i].pc = "account" =>
        /\ login[i].a = account
        /\ \A j \in Logins : login[j].pc = "account" => i = j

\* Up to the limit the row counts the requests that were let through; beyond it the
\* window is full.
CountMeans(n, b) == n = IF b.count <= Limit THEN b.count ELSE Limit

\* A block belongs to the window that is in the row, and that window is full.
BlockMeans(b) == b.blocked > 0 => b.count > Limit

AdmittedCounted ==
    \A c \in Clients : CountMeans(admitted[c], bucket[c]) /\ BlockMeans(bucket[c])

IndInv ==
    /\ TypeOK /\ PastInstants /\ WaitsAreBounded /\ BucketHeld /\ AccountHeld
    /\ AdmittedCounted /\ AdmittedPerWindow /\ NoFailureLost

-----------------------------------------------------------------------------
(* The limiter *)

\* What _consume_locked leaves of a row, at an instant that may be older than the row: it
\* keeps its type, its window does not start in the future, and it is blocked only when
\* its window is full.
LEMMA ConsumeRow ==
    ASSUME NEW b \in Buckets, NEW now \in Nat, NEW time \in 1 .. MaxTime,
           now <= time, b.start <= time, BlockMeans(b)
    PROVE  LET d == Consume(b, now) IN
             /\ d.row \in Buckets /\ d.allowed \in BOOLEAN
             /\ d.row.start <= time
             /\ BlockMeans(d.row)
  <1> USE GuardAssumption
         DEF GuardAssumption, BlockMeans, Consume, Decision, Buckets, Times
  <1>1. CASE b.count = 0
    BY <1>1 DEF NewWindow
  <1>2. CASE b.count # 0 /\ b.blocked > now
    BY <1>2
  <1>3. CASE b.count # 0 /\ ~(b.blocked > now) /\ b.start + Window <= now
    BY <1>3 DEF NewWindow
  <1>4. CASE b.count # 0 /\ ~(b.blocked > now) /\ ~(b.start + Window <= now)
    <2>1. CASE b.count + 1 > Limit
      BY <1>4, <2>1
    <2>2. CASE ~(b.count + 1 > Limit)
      BY <1>4, <2>2
    <2> QED BY <2>1, <2>2
  <1> QED BY <1>1, <1>2, <1>3, <1>4

\* How a request moves the counter: it opens a window with count 1, or it stays in the
\* window and is counted within the limit or denied, and it is denied only when the
\* window is full.
LEMMA ConsumeCount ==
    ASSUME NEW b \in Buckets, NEW now \in Nat, BlockMeans(b)
    PROVE  LET d == Consume(b, now) IN
             \/ d.allowed /\ d.row.count = 1 /\ (b.count = 0 \/ b.start # d.row.start)
             \/ /\ b.count # 0 /\ d.row.start = b.start
                /\ \/ d.allowed /\ d.row.count = b.count + 1 /\ d.row.count <= Limit
                   \/ ~d.allowed /\ b.count >= Limit /\ d.row.count >= b.count
                      /\ d.row.count > Limit
    BY GuardAssumption
    DEF GuardAssumption, BlockMeans, Consume, Decision, NewWindow, Buckets, Times

-----------------------------------------------------------------------------
(* Each action preserves the invariant *)

\* Nothing has happened yet.
LEMMA InitInv == Init => IndInv
    BY GuardAssumption
    DEF GuardAssumption, Init, IndInv, TypeOK, PastInstants, WaitsAreBounded, BucketHeld, AccountHeld,
        AdmittedCounted, AdmittedPerWindow, NoFailureLost, NotServed,
        NoBucket, Unlocked, LoginStates, Pcs, Buckets, Accounts, Times, CountMeans, BlockMeans

\* Time passes: only the ages of instants change, and Tick waits for the late ones.
LEMMA TickInv == IndInv /\ Tick => IndInv'
  <1> SUFFICES ASSUME IndInv, Tick PROVE IndInv'
    OBVIOUS
  <1>1. clock' = clock + 1 /\ clock' \in 1 .. MaxTime /\ clock \in Nat
    BY GuardAssumption DEF GuardAssumption, Tick, IndInv, TypeOK
  <1>2. \A i \in Logins : login[i].now \in Nat
    BY GuardAssumption DEF GuardAssumption, IndInv, TypeOK, LoginStates, Times
  <1>3. \A c \in Clients : bucket[c].start \in Nat
    BY GuardAssumption DEF GuardAssumption, IndInv, TypeOK, Buckets, Times
  <1>4. PastInstants'
    BY <1>1, <1>2, <1>3 DEF Tick, IndInv, PastInstants
  <1>5. WaitsAreBounded'
    BY <1>1, <1>2, GuardAssumption DEF GuardAssumption, Tick, IndInv, WaitsAreBounded
  <1> QED
    BY <1>1, <1>4, <1>5
    DEF Tick, IndInv, TypeOK, BucketHeld, AccountHeld, AdmittedCounted, AdmittedPerWindow,
        NoFailureLost

\* A login that moves on alone and neither waits for nor takes a lock, leaving both rows
\* as they are: the shape of Done and of a rollback.
LEMMA DoneInv ==
    ASSUME NEW i \in Logins, IndInv, Done(i),
           UNCHANGED <<clock, bucket, account, admitted, misses>>
    PROVE  IndInv'
  <1>1. /\ login' \in [Logins -> LoginStates]
        /\ login'[i] = NotServed("done")
        /\ \A j \in Logins \ {i} : login'[j] = login[j]
    BY GuardAssumption
    DEF GuardAssumption, Done, IndInv, TypeOK, LoginStates, NotServed, Pcs, NoBucket, Unlocked,
        Buckets, Accounts, Times
  <1> QED
    BY <1>1
    DEF IndInv, TypeOK, PastInstants, WaitsAreBounded, BucketHeld, AccountHeld,
        AdmittedCounted, AdmittedPerWindow, NoFailureLost, NotServed

\* A login arrives and reads the clock.
LEMMA BeginInv ==
    ASSUME NEW i \in Logins, NEW c \in Clients, NEW right \in BOOLEAN,
           IndInv, Begin(i, c, right)
    PROVE  IndInv'
  <1>1. /\ login' \in [Logins -> LoginStates]
        /\ login'[i].pc = "limit" /\ login'[i].c = c /\ login'[i].now = clock
        /\ \A j \in Logins \ {i} : login'[j] = login[j]
    <2>1. clock \in Times
      BY GuardAssumption DEF GuardAssumption, IndInv, TypeOK, Times
    <2> QED
      BY <2>1, GuardAssumption
      DEF GuardAssumption, Begin, IndInv, TypeOK, LoginStates, Pcs, NoBucket, Unlocked,
          Buckets, Accounts, Times
  <1> QED
    BY <1>1, GuardAssumption
    DEF GuardAssumption, Begin, IndInv, TypeOK, PastInstants, WaitsAreBounded, BucketHeld,
        AccountHeld, AdmittedCounted, AdmittedPerWindow, NoFailureLost

\* A login takes the advisory lock of its bucket and reads the row.
LEMMA LockBucketInv ==
    ASSUME NEW i \in Logins, IndInv, LockBucket(i)
    PROVE  IndInv'
  <1>1. login[i].c \in Clients
    BY DEF LockBucket, IndInv, WaitsAreBounded
  <1>2. /\ login' \in [Logins -> LoginStates]
        /\ login'[i].pc = "bucket" /\ login'[i].b = bucket[login[i].c]
        /\ login'[i].c = login[i].c /\ login'[i].now = login[i].now
        /\ \A j \in Logins \ {i} : login'[j] = login[j]
    BY <1>1 DEF LockBucket, IndInv, TypeOK, LoginStates, Pcs
  <1> QED
    BY <1>1, <1>2
    DEF LockBucket, BucketFree, IndInv, TypeOK, PastInstants, WaitsAreBounded, BucketHeld,
        AccountHeld, AdmittedCounted, AdmittedPerWindow, NoFailureLost

\* The limiter decides from its copy, which is the row: a denied request leaves the
\* ghost alone, an admitted one is counted in the row as well.
LEMMA CommitBucketInv ==
    ASSUME NEW i \in Logins, IndInv, CommitBucket(i)
    PROVE  IndInv'
  <1> DEFINE c == login[i].c
             d == Consume(login[i].b, login[i].now)
             opened == bucket[c].count = 0 \/ bucket[c].start # d.row.start
  <1>1. /\ c \in Clients /\ login[i].b = bucket[c] /\ login[i].b \in Buckets
        /\ login[i].now \in Nat /\ login[i].now <= clock
        /\ clock \in 1 .. MaxTime /\ bucket[c].start <= clock
        /\ CountMeans(admitted[c], bucket[c]) /\ BlockMeans(bucket[c])
    BY GuardAssumption
    DEF GuardAssumption, CommitBucket, IndInv, TypeOK, BucketHeld, WaitsAreBounded,
        PastInstants, AdmittedCounted, LoginStates, Times
  <1>2. /\ d.row \in Buckets /\ d.allowed \in BOOLEAN
        /\ d.row.start <= clock
        /\ BlockMeans(d.row)
    BY <1>1, ConsumeRow
  <1>3. \/ d.allowed /\ d.row.count = 1 /\ opened
        \/ ~opened /\ d.allowed /\ d.row.count = bucket[c].count + 1 /\ d.row.count <= Limit
        \/ /\ ~opened /\ ~d.allowed /\ bucket[c].count >= Limit
           /\ d.row.count >= bucket[c].count /\ d.row.count > Limit
    BY <1>1, ConsumeCount
  <1>4. /\ bucket' = [bucket EXCEPT ![c] = d.row]
        /\ admitted' = [admitted EXCEPT ![c] = IF opened THEN 1
                                               ELSE IF d.allowed THEN admitted[c] + 1
                                               ELSE admitted[c]]
        /\ login' = [login EXCEPT ![i] = IF d.allowed
                                         THEN [login[i] EXCEPT !.pc = "admitted", !.b = NoBucket]
                                         ELSE NotServed("done")]
        /\ UNCHANGED <<clock, account, misses>>
    BY DEF CommitBucket
  <1> HIDE DEF d
  <1>5. /\ login' \in [Logins -> LoginStates]
        /\ login'[i].pc \in {"admitted", "done"} /\ login'[i].now <= clock
        /\ \A j \in Logins \ {i} : login'[j] = login[j]
    <2>1. NoBucket \in Buckets /\ NotServed("done") \in LoginStates
      BY GuardAssumption
      DEF GuardAssumption, NoBucket, Unlocked, NotServed, Buckets, Accounts, LoginStates, Pcs,
          Times
    <2>2. /\ [login[i] EXCEPT !.pc = "admitted", !.b = NoBucket] \in LoginStates
          /\ [login[i] EXCEPT !.pc = "admitted", !.b = NoBucket].pc = "admitted"
          /\ [login[i] EXCEPT !.pc = "admitted", !.b = NoBucket].now = login[i].now
      BY <2>1 DEF IndInv, TypeOK, LoginStates, Pcs
    <2>3. NotServed("done").pc = "done" /\ NotServed("done").now <= clock
      BY <1>1, GuardAssumption DEF GuardAssumption, NotServed
    <2> QED
      BY <1>1, <1>4, <2>1, <2>2, <2>3 DEF IndInv, TypeOK
  <1>6. /\ bucket' \in [Clients -> Buckets] /\ bucket'[c] = d.row
        /\ \A x \in Clients \ {c} : bucket'[x] = bucket[x]
    BY <1>1, <1>2, <1>4 DEF IndInv, TypeOK
  <1>7. /\ admitted' \in [Clients -> Nat]
        /\ CountMeans(admitted'[c], d.row) /\ admitted'[c] <= Limit
        /\ \A x \in Clients \ {c} : admitted'[x] = admitted[x]
    <2>1. admitted[c] \in Nat /\ admitted[c] <= Limit /\ bucket[c].count \in Nat
      BY <1>1 DEF IndInv, TypeOK, AdmittedPerWindow, Buckets
    <2>2. admitted'[c] = IF opened THEN 1 ELSE IF d.allowed THEN admitted[c] + 1 ELSE admitted[c]
      BY <1>1, <1>4 DEF IndInv, TypeOK
    <2>3. d.row.count \in Nat
      BY <1>2 DEF Buckets
    <2>4. /\ admitted'[c] \in Nat /\ admitted'[c] <= Limit
          /\ CountMeans(admitted'[c], d.row)
      BY <1>1, <1>3, <2>1, <2>2, <2>3, GuardAssumption DEF GuardAssumption, CountMeans
    <2> QED
      BY <1>1, <1>4, <2>2, <2>4 DEF IndInv, TypeOK
  <1>8. TypeOK'
    BY <1>4, <1>5, <1>6, <1>7 DEF IndInv, TypeOK
  <1>9. PastInstants' /\ WaitsAreBounded'
    BY <1>1, <1>2, <1>4, <1>5, <1>6 DEF IndInv, PastInstants, WaitsAreBounded
  <1>10. BucketHeld'
    <2>1. \A j \in Logins : login[j].pc = "bucket" /\ j # i => login[j].c # c
      BY DEF IndInv, BucketHeld, CommitBucket
    <2> QED
      BY <1>5, <1>6, <2>1 DEF IndInv, BucketHeld, WaitsAreBounded
  <1>11. AccountHeld' /\ NoFailureLost'
    BY <1>4, <1>5 DEF IndInv, AccountHeld, NoFailureLost
  <1>12. AdmittedCounted' /\ AdmittedPerWindow'
    BY <1>2, <1>6, <1>7 DEF IndInv, AdmittedCounted, AdmittedPerWindow
  <1> QED
    BY <1>8, <1>9, <1>10, <1>11, <1>12 DEF IndInv

\* A login takes the account row FOR UPDATE and reads it.
LEMMA LockAccountInv ==
    ASSUME NEW i \in Logins, IndInv, LockAccount(i)
    PROVE  IndInv'
  <1>1. /\ login' \in [Logins -> LoginStates]
        /\ login'[i].pc = "account" /\ login'[i].a = account
        /\ login'[i].c = login[i].c /\ login'[i].now = login[i].now
        /\ \A j \in Logins \ {i} : login'[j] = login[j]
    BY DEF LockAccount, IndInv, TypeOK, LoginStates, Pcs
  <1> QED
    BY <1>1
    DEF LockAccount, AccountFree, IndInv, TypeOK, PastInstants, WaitsAreBounded, BucketHeld,
        AccountHeld, AdmittedCounted, AdmittedPerWindow, NoFailureLost

\* The holder of the account row writes its copy back and leaves; nobody else holds it.
LEMMA AccountWriteInv ==
    ASSUME NEW i \in Logins, IndInv, login[i].pc = "account", Done(i),
           account' \in Accounts, misses' \in Nat, account'.failed = misses',
           UNCHANGED <<clock, bucket, admitted>>
    PROVE  IndInv'
  <1>1. /\ login' \in [Logins -> LoginStates]
        /\ login'[i] = NotServed("done")
        /\ \A j \in Logins \ {i} : login'[j] = login[j]
    BY GuardAssumption
    DEF GuardAssumption, Done, IndInv, TypeOK, LoginStates, NotServed, Pcs, NoBucket, Unlocked,
        Buckets, Accounts, Times
  <1>2. AccountHeld'
    BY <1>1 DEF IndInv, AccountHeld, NotServed
  <1> QED
    BY <1>1, <1>2
    DEF IndInv, TypeOK, PastInstants, WaitsAreBounded, BucketHeld, AdmittedCounted,
        AdmittedPerWindow, NoFailureLost, NotServed

\* A wrong password is counted on top of every earlier one.
LEMMA CommitFailureInv ==
    ASSUME NEW i \in Logins, IndInv, CommitFailure(i)
    PROVE  IndInv'
  <1>1. login[i].a = account /\ account \in Accounts /\ account.failed = misses /\ misses \in Nat
    BY DEF CommitFailure, IndInv, TypeOK, AccountHeld, NoFailureLost
  <1>2. login[i].now \in Nat /\ login[i].now <= MaxTime
    BY GuardAssumption
    DEF GuardAssumption, IndInv, TypeOK, PastInstants, LoginStates, Times
  <1>3. account' \in Accounts /\ account'.failed = misses' /\ misses' \in Nat
    BY <1>1, <1>2, GuardAssumption
    DEF GuardAssumption, CommitFailure, register_failed_login, Accounts, Times
  <1> QED
    BY <1>3, AccountWriteInv DEF CommitFailure

\* A right password resets the counter and the ghost together.
LEMMA CommitSuccessInv ==
    ASSUME NEW i \in Logins, IndInv, CommitSuccess(i)
    PROVE  IndInv'
  <1>1. Unlocked \in Accounts /\ Unlocked.failed = 0
    BY GuardAssumption DEF GuardAssumption, Unlocked, Accounts, Times
  <1> QED
    BY <1>1, AccountWriteInv DEF CommitSuccess

\* A password change resets them too, when no login holds the row.
LEMMA ChangePasswordInv == IndInv /\ ChangePassword => IndInv'
  <1>1. Unlocked \in Accounts /\ Unlocked.failed = 0
    BY GuardAssumption DEF GuardAssumption, Unlocked, Accounts, Times
  <1> QED
    BY <1>1
    DEF ChangePassword, AccountFree, IndInv, TypeOK, PastInstants, WaitsAreBounded, BucketHeld,
        AccountHeld, AdmittedCounted, AdmittedPerWindow, NoFailureLost

\* Every step preserves the invariant.
LEMMA NextInv == IndInv /\ [Next]_vars => IndInv'
  <1> SUFFICES ASSUME IndInv, [Next]_vars PROVE IndInv'
    OBVIOUS
  <1>1. CASE Tick
    BY <1>1, TickInv
  <1>2. CASE ChangePassword
    BY <1>2, ChangePasswordInv
  <1>3. ASSUME NEW i \in Logins, NEW c \in Clients, NEW right \in BOOLEAN, Begin(i, c, right)
        PROVE  IndInv'
    BY <1>3, BeginInv
  <1>4. ASSUME NEW i \in Logins, LockBucket(i) PROVE IndInv'
    BY <1>4, LockBucketInv
  <1>5. ASSUME NEW i \in Logins, CommitBucket(i) PROVE IndInv'
    BY <1>5, CommitBucketInv
  <1>6. ASSUME NEW i \in Logins, LockAccount(i) PROVE IndInv'
    BY <1>6, LockAccountInv
  <1>7. ASSUME NEW i \in Logins, CommitLocked(i) \/ Fail(i) PROVE IndInv'
    BY <1>7, DoneInv DEF CommitLocked, Fail
  <1>8. ASSUME NEW i \in Logins, CommitFailure(i) PROVE IndInv'
    BY <1>8, CommitFailureInv
  <1>9. ASSUME NEW i \in Logins, CommitSuccess(i) PROVE IndInv'
    BY <1>9, CommitSuccessInv
  <1>10. CASE UNCHANGED vars
    BY <1>10
    DEF vars, IndInv, TypeOK, PastInstants, WaitsAreBounded, BucketHeld, AccountHeld,
        AdmittedCounted, AdmittedPerWindow, NoFailureLost
  <1> QED
    BY <1>1, <1>2, <1>3, <1>4, <1>5, <1>6, <1>7, <1>8, <1>9, <1>10 DEF Next

-----------------------------------------------------------------------------
(* The theorems *)

\* The inductive invariant holds in every reachable state.
THEOREM Invariance == Spec => []IndInv
    BY InitInv, NextInv, PTL DEF Spec

\* Every variable keeps its type.
THEOREM TypeCorrect == Spec => []TypeOK
  <1>1. IndInv => TypeOK
    BY DEF IndInv
  <1> QED
    BY <1>1, Invariance, PTL

\* No window of the limiter lets through more than login_rate_limit requests of a client.
THEOREM LimitHolds == Spec => []AdmittedPerWindow
  <1>1. IndInv => AdmittedPerWindow
    BY DEF IndInv
  <1> QED
    BY <1>1, Invariance, PTL

\* A request is denied only in a window that has let through login_rate_limit requests,
\* however old its instant is when it reaches the bucket.
THEOREM DenialsJustified == Spec => []DeniedOnlyWhenFull
  <1>1. ASSUME IndInv, NEW i \in Logins, login[i].pc = "bucket",
               ~Consume(login[i].b, login[i].now).allowed
        PROVE  admitted[login[i].c] >= Limit
    <2>1. /\ login[i].c \in Clients /\ login[i].b = bucket[login[i].c]
          /\ login[i].b \in Buckets /\ login[i].now \in Nat
          /\ CountMeans(admitted[login[i].c], login[i].b) /\ BlockMeans(login[i].b)
      BY <1>1, GuardAssumption
      DEF GuardAssumption, IndInv, TypeOK, BucketHeld, WaitsAreBounded, AdmittedCounted,
          LoginStates, Times
    <2>2. login[i].b.count >= Limit /\ login[i].b.count \in Nat
      BY <1>1, <2>1, ConsumeCount DEF Buckets
    <2> QED
      BY <2>1, <2>2, GuardAssumption DEF GuardAssumption, CountMeans
  <1>2. IndInv => DeniedOnlyWhenFull
    BY <1>1 DEF DeniedOnlyWhenFull
  <1> QED
    BY <1>2, Invariance, PTL

\* No failed login is lost, however many run at once.
THEOREM FailuresCounted == Spec => []NoFailureLost
  <1>1. IndInv => NoFailureLost
    BY DEF IndInv
  <1> QED
    BY <1>1, Invariance, PTL

\* A login that looks at the password does so when the lock of the account is over now,
\* although it compares the lock with the instant it read on arrival.
THEOREM LockRespected == Spec => NothingVerifiedWhileLocked
  <1>1. ASSUME IndInv, [Next]_vars, NEW i \in Logins,
               login[i].pc = "account", misses' # misses, login'[i].pc = "done"
        PROVE  account.locked <= clock
    <2>1. PICK j \in Logins : CommitFailure(j) \/ CommitSuccess(j)
      BY <1>1
      DEF Next, vars, Tick, ChangePassword, AccountFree, Begin, LockBucket, CommitBucket,
          LockAccount, CommitLocked, Fail
    <2>2. j = i
      BY <1>1, <2>1 DEF CommitFailure, CommitSuccess, IndInv, AccountHeld
    <2>3. ~(account.locked > login[i].now)
      BY <1>1, <2>1, <2>2 DEF CommitFailure, CommitSuccess, is_locked, IndInv, AccountHeld
    <2>4. login[i].now \in Nat /\ account.locked \in Nat /\ clock \in Nat
          /\ login[i].now <= clock
      BY <1>1, GuardAssumption
      DEF GuardAssumption, IndInv, TypeOK, PastInstants, LoginStates, Accounts, Times
    <2> QED
      BY <2>3, <2>4
  <1>2. IndInv /\ [Next]_vars =>
          [\A i \in Logins :
             login[i].pc = "account" /\ misses' # misses /\ login'[i].pc = "done"
                => account.locked <= clock]_vars
    BY <1>1
  <1> QED
    BY <1>2, Invariance, PTL DEF Spec, NothingVerifiedWhileLocked
=============================================================================
