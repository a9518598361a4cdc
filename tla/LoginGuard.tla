------------------------------ MODULE LoginGuard ------------------------------
(***************************************************************************)
(* What stands between a login request and a session: the fixed-window     *)
(* rate limiter of the client and the temporary lock of the account.       *)
(*                                                                         *)
(* A login reads the clock once, when it starts, and uses that instant in  *)
(* both transactions, however long it waits for the advisory lock of its   *)
(* bucket and for the account row: requests reach a row with instants out  *)
(* of order.  Each transaction works on a copy of the row it read.         *)
(*                                                                         *)
(* Time is counted in ticks.  A login for a name that does not exist uses  *)
(* the limiter in the same way and never reaches the account row.  The     *)
(* refresh limiter is the same code with its own buckets.                  *)
(***************************************************************************)
EXTENDS Integers

CONSTANTS
    N,            \* bound: logins that arrive, numbered in the order of arrival
    Clients,      \* client addresses; a bucket belongs to an address and a name
    NoClient,
    MaxTime,      \* bound: ticks
    MaxLag,       \* bound: ticks a login waits for its bucket
    Limit,        \* login_rate_limit
    Window,       \* login_rate_window_seconds
    Block,        \* login_rate_block_seconds
    MaxFailed,    \* maximum_failed_logins
    LockDuration  \* account_lock_seconds

ASSUME GuardAssumption ==
    /\ N \in Nat /\ MaxTime \in Nat \ {0} /\ MaxLag \in Nat /\ LockDuration \in Nat
    /\ Limit \in Nat \ {0} /\ Window \in Nat \ {0} /\ Block \in Nat /\ MaxFailed \in Nat \ {0}

VARIABLES
    clock,     \* the time
    bucket,    \* bucket[c]: row of auth_rate_limits
    account,   \* failed_login_attempts and locked_until of the administrator
    login,     \* login[i]: control state of a login
    admitted,  \* ghost: admitted[c]: requests let through in the current window
    misses     \* ghost: wrong passwords looked at since the last reset

vars == <<clock, bucket, account, login, admitted, misses>>

Logins == 1 .. N

Times == 0 .. MaxTime + Block + LockDuration

\* count 0: there is no row yet; blocked 0: blocked_until is NULL.
Buckets == [start : Times, count : Nat, blocked : Times]

\* locked 0: locked_until is NULL.
Accounts == [failed : Nat, locked : Times]

NoBucket == [start |-> 0, count |-> 0, blocked |-> 0]

Unlocked == [failed |-> 0, locked |-> 0]

\* new, waiting for the bucket, holding it, waiting for the account, holding it, done.
Pcs == {"new", "limit", "bucket", "admitted", "account", "done"}

\* now: the instant read at the start; b, a: copies of the rows.
LoginStates ==
    [pc : Pcs, c : Clients \cup {NoClient}, right : BOOLEAN, now : Times, b : Buckets,
     a : Accounts]

NotServed(pc) ==
    [pc |-> pc, c |-> NoClient, right |-> FALSE, now |-> 0, b |-> NoBucket, a |-> Unlocked]

Init ==
    /\ clock = 1
    /\ bucket = [c \in Clients |-> NoBucket]
    /\ account = Unlocked
    /\ login = [i \in Logins |-> NotServed("new")]
    /\ admitted = [c \in Clients |-> 0]
    /\ misses = 0

-----------------------------------------------------------------------------

\* Time passes; no login waits more than MaxLag for its bucket.
Tick ==
    /\ clock < MaxTime
    /\ \A i \in Logins : login[i].pc \in {"limit", "bucket"} => clock < login[i].now + MaxLag
    /\ clock' = clock + 1
    /\ UNCHANGED <<bucket, account, login, admitted, misses>>

Begin(i, c, right) ==
    /\ login[i].pc = "new" /\ \A j \in 1 .. i - 1 : login[j].pc # "new"
    /\ login' = [login EXCEPT ![i] = [pc |-> "limit", c |-> c, right |-> right, now |-> clock,
                                      b |-> NoBucket, a |-> Unlocked]]
    /\ UNCHANGED <<clock, bucket, account, admitted, misses>>

Done(i) == login' = [login EXCEPT ![i] = NotServed("done")]

-----------------------------------------------------------------------------
(* The rate limiter *)

\* Faulty variant: no advisory lock.
BucketUnlocked(i) == TRUE

\* pg_advisory_xact_lock on scope and subject
BucketFree(i) ==
    \A j \in Logins : login[j].pc = "bucket" => login[j].c # login[i].c

LockBucket(i) ==
    /\ login[i].pc = "limit"
    /\ BucketFree(i)
    /\ login' = [login EXCEPT ![i].pc = "bucket", ![i].b = bucket[login[i].c]]
    /\ UNCHANGED <<clock, bucket, account, admitted, misses>>

\* The answer of _consume_locked: the row it leaves and whether the request may go on.
Decision(row, allowed) == [row |-> row, allowed |-> allowed]

\* Faulty variant: a new window goes on counting where the old one stopped.
KeepCount(b, now) == [start |-> now, count |-> b.count + 1, blocked |-> 0]

NewWindow(b, now) == [start |-> now, count |-> 1, blocked |-> 0]

Consume(b, now) ==
    IF b.count = 0 THEN Decision(NewWindow(b, now), TRUE)
    ELSE IF b.blocked > now THEN Decision(b, FALSE)
    ELSE IF b.start + Window <= now THEN Decision(NewWindow(b, now), TRUE)
    ELSE IF b.count + 1 > Limit
         THEN Decision([start |-> b.start, count |-> b.count + 1, blocked |-> now + Block], FALSE)
    ELSE Decision([b EXCEPT !.count = @ + 1], TRUE)

\* The transaction of the limiter commits; a denied login ends with 429.
CommitBucket(i) ==
    /\ login[i].pc = "bucket"
    /\ LET c == login[i].c
           d == Consume(login[i].b, login[i].now)
           opened == bucket[c].count = 0 \/ bucket[c].start # d.row.start IN
         /\ bucket' = [bucket EXCEPT ![c] = d.row]
         /\ admitted' = [admitted EXCEPT ![c] = IF opened THEN 1
                                                ELSE IF d.allowed THEN @ + 1 ELSE @]
         /\ login' = [login EXCEPT ![i] = IF d.allowed
                                          THEN [@ EXCEPT !.pc = "admitted", !.b = NoBucket]
                                          ELSE NotServed("done")]
    /\ UNCHANGED <<clock, account, misses>>

-----------------------------------------------------------------------------
(* The account lock *)

\* Faulty variant: the account is read without FOR UPDATE.
AccountUnlocked == TRUE

AccountFree == \A j \in Logins : login[j].pc # "account"

\* get_by_normalized_username with for_update
LockAccount(i) ==
    /\ login[i].pc = "admitted"
    /\ AccountFree
    /\ login' = [login EXCEPT ![i].pc = "account", ![i].a = account]
    /\ UNCHANGED <<clock, bucket, account, admitted, misses>>

\* Faulty variant: the password is verified before the lock is looked at.
NeverLocked(a, now) == FALSE

is_locked(a, now) == a.locked > now

\* register_failed_login: the counter keeps growing after the lock has expired, so the
\* next wrong password locks again at once.
register_failed_login(a, now) ==
    [failed |-> a.failed + 1,
     locked |-> IF a.failed + 1 >= MaxFailed THEN now + LockDuration ELSE a.locked]

\* Refused without looking at the password; only an event is recorded.
CommitLocked(i) ==
    /\ login[i].pc = "account"
    /\ is_locked(login[i].a, login[i].now)
    /\ Done(i)
    /\ UNCHANGED <<clock, bucket, account, admitted, misses>>

\* A wrong password.  (save writes every column of the copy.)
CommitFailure(i) ==
    /\ login[i].pc = "account"
    /\ ~is_locked(login[i].a, login[i].now)
    /\ ~login[i].right
    /\ account' = register_failed_login(login[i].a, login[i].now)
    /\ misses' = misses + 1
    /\ Done(i)
    /\ UNCHANGED <<clock, bucket, admitted>>

\* register_successful_login; the session is created in the same transaction.
CommitSuccess(i) ==
    /\ login[i].pc = "account"
    /\ ~is_locked(login[i].a, login[i].now)
    /\ login[i].right
    /\ account' = Unlocked
    /\ misses' = 0
    /\ Done(i)
    /\ UNCHANGED <<clock, bucket, admitted>>

\* change_password clears the lock as well.
ChangePassword ==
    /\ AccountFree
    /\ account # Unlocked
    /\ account' = Unlocked
    /\ misses' = 0
    /\ UNCHANGED <<clock, bucket, login, admitted>>

\* Either transaction fails and rolls back.
Fail(i) ==
    /\ login[i].pc \in {"bucket", "account"}
    /\ Done(i)
    /\ UNCHANGED <<clock, bucket, account, admitted, misses>>

-----------------------------------------------------------------------------

Next ==
    \/ Tick
    \/ ChangePassword
    \/ \E i \in Logins :
         \/ \E c \in Clients, right \in BOOLEAN : Begin(i, c, right)
         \/ LockBucket(i) \/ CommitBucket(i)
         \/ LockAccount(i) \/ CommitLocked(i) \/ CommitFailure(i) \/ CommitSuccess(i)
         \/ Fail(i)

Spec == Init /\ [][Next]_vars

-----------------------------------------------------------------------------
(* Properties *)

\* Every variable has its type.
TypeOK ==
    /\ clock \in 1 .. MaxTime
    /\ bucket \in [Clients -> Buckets]
    /\ account \in Accounts
    /\ login \in [Logins -> LoginStates]
    /\ admitted \in [Clients -> Nat]
    /\ misses \in Nat

\* No window lets through more than Limit requests of a client, whatever the order in
\* which concurrent requests with older and newer instants reach the bucket.
AdmittedPerWindow == \A c \in Clients : admitted[c] <= Limit

\* A client is denied only in a window that has let through all of Limit requests: no
\* block outlives the window it was imposed on, not even for a request that waited with
\* an instant from before the block ended, and no request is counted twice.
DeniedOnlyWhenFull ==
    \A i \in Logins :
        login[i].pc = "bucket" /\ ~Consume(login[i].b, login[i].now).allowed
            => admitted[login[i].c] >= Limit

\* Concurrent failed logins are all counted (FOR UPDATE on the account row).
NoFailureLost == account.failed = misses

\* While the account is locked no password is looked at, right or wrong: the row changes
\* by a login only when its lock is over at the current time, not just at the instant
\* the login read when it started.
NothingVerifiedWhileLocked ==
    [][\A i \in Logins :
         login[i].pc = "account" /\ misses' # misses /\ login'[i].pc = "done"
            => account.locked <= clock]_vars
=============================================================================
