----------------------------- MODULE AuthSessions -----------------------------
(***************************************************************************)
(* Server side of authentication: the administrator account, the session   *)
(* rows and the transactions of the bootstrap and password commands and of *)
(* the login, refresh, logout and revoke-all requests, at the granularity  *)
(* of their row locks under READ COMMITTED.                                *)
(*                                                                         *)
(* A login and a password change lock the account row FOR UPDATE; a        *)
(* refresh and a logout lock their session row FOR UPDATE, keep a copy of  *)
(* it and write the whole copy back; the bulk revocation is one UPDATE     *)
(* that takes the rows of its snapshot one by one and looks at each again  *)
(* once it has the lock.  Every transaction ends by inserting a security   *)
(* event whose foreign key takes a KEY SHARE lock on the account row, so   *)
(* sessions-then-account meets the account-then-sessions of a password     *)
(* change: PostgreSQL resolves the deadlock by aborting a victim.          *)
(*                                                                         *)
(* Rate limiting, lockout and the clock are in LoginGuard.  Nothing in the *)
(* code disables the account, so `enabled` stays true; names, fingerprints *)
(* and the token encoding are abstracted away.                             *)
(***************************************************************************)
EXTENDS Naturals

CONSTANTS
    N  \* bound: requests and commands that arrive; each is served once

ASSUME NAssumption == N \in Nat

VARIABLES
    password,  \* how often the password has been set; 0 before the bootstrap
    sess,      \* sess[s]: the committed row of a session
    expired,   \* sessions whose expires_at has passed
    handed,    \* handed[s]: the token pairs handed out for s
    accepted,  \* ghost: accepted[s]: the tokens a rotation has consumed
    tx         \* tx[r]: the transaction that serves r

vars == <<password, sess, expired, handed, accepted, tx>>

\* Requests are numbered in the order of their arrival.  The session a login creates
\* and the token pair (refresh and CSRF token, always drawn together) that a login or a
\* rotation draws have the number of that request.
Requests == 1 .. N

Sessions == Requests

Tokens == Requests

NoToken == 0

Reasons == {"logout", "admin_action", "password_changed", "refresh_reuse"}

\* born: the password in force when the session was created.
Rows == [jti : Nat, born : Nat, revoked : Reasons \cup {"no"}]

\* No row: nothing was handed out for this identifier yet.
NoRow == [jti |-> NoToken, born |-> 0, revoked |-> "no"]

\* is_active, apart from the expiry.
Active(s) == sess[s].jti # NoToken /\ sess[s].revoked = "no"

Ops == {"none", "bootstrap", "login", "refresh", "logout", "revoke_all", "change_password"}

\* new: not arrived; account, session, bulk: about to take row locks; decide: locks
\* held, conditions not yet evaluated; event: about to insert the security event.
Pcs == {"new", "account", "session", "bulk", "decide", "event", "commit", "done"}

\* s, token, cookie, given: what the request carries; seen: password read under the lock;
\* row: the copy of the session; todo, scope: rows the UPDATE has still to visit and
\* rows its snapshot held; rows, acct: locks.
TxStates ==
    [op : Ops, pc : Pcs, s : Nat, token : Nat, cookie : BOOLEAN,
     given : Nat, seen : Nat, row : Rows, todo : SUBSET Sessions,
     scope : SUBSET Sessions, rows : SUBSET Sessions, acct : {"none", "share", "update"}]

\* The record of a request that is not being served.
Fresh(pc) ==
    [op |-> "none", pc |-> pc, s |-> 0, token |-> NoToken, cookie |-> FALSE, given |-> 0,
     seen |-> 0, row |-> NoRow, todo |-> {}, scope |-> {}, rows |-> {}, acct |-> "none"]

Init ==
    /\ password = 0
    /\ sess = [s \in Sessions |-> NoRow]
    /\ expired = {}
    /\ handed = [s \in Sessions |-> {}]
    /\ accepted = [s \in Sessions |-> {}]
    /\ tx = [r \in Requests |-> Fresh("new")]

Rest == <<password, sess, expired, handed, accepted>>

-----------------------------------------------------------------------------
(* Locks *)

\* Faulty variant: the account is read without FOR UPDATE.
AccountUnlocked(r) == TRUE

\* FOR UPDATE on the account row; the INSERT of the bootstrap waits the same way on
\* the unique singleton key.
AccountFree(r) == \A q \in Requests \ {r} : tx[q].acct = "none"

\* FOR KEY SHARE, taken by the foreign key of a security event.
AccountShareable(r) == \A q \in Requests \ {r} : tx[q].acct # "update"

\* Faulty variant: the session is read without FOR UPDATE.
RowUnlocked(r, s) == TRUE

RowFree(r, s) == \A q \in Requests \ {r} : s \notin tx[q].rows

\* A request leaves its transaction and with it every lock.
Released(r) == Fresh("done")

\* commit() raised, the process died or PostgreSQL chose r as the victim of a
\* deadlock: the unit of work rolls back.
Rollback(r) ==
    /\ tx[r].pc \notin {"new", "done"}
    /\ tx' = [tx EXCEPT ![r] = Released(r)]
    /\ UNCHANGED Rest

\* The transactions that hold what r waits for.
Blockers(r) ==
    {q \in Requests \ {r} :
        \/ tx[r].pc = "account" /\ tx[q].acct # "none"
        \/ tx[r].pc = "session" /\ tx[r].s \in tx[q].rows
        \/ /\ tx[r].pc = "bulk" /\ \A s \in tx[r].todo : ~RowFree(r, s)
           /\ tx[r].todo \cap tx[q].rows # {}
        \/ tx[r].pc = "event" /\ tx[q].acct = "update"}

\* PostgreSQL's deadlock detector: r is on a cycle of waiting transactions.
BreakDeadlock(r) ==
    /\ Blockers(r) # {}
    /\ \E cycle \in SUBSET {q \in Requests : Blockers(q) # {}} :
         r \in cycle /\ \A q \in cycle : Blockers(q) \cap cycle # {}
    /\ tx' = [tx EXCEPT ![r] = Released(r)]
    /\ UNCHANGED Rest

-----------------------------------------------------------------------------
(* Arrival: everything a request does before its first lock *)

Arrives(r) == tx[r].pc = "new" /\ \A q \in 1 .. r - 1 : tx[q].pc # "new"

Arrive(r, op, pc, s) ==
    /\ Arrives(r)
    /\ tx' = [tx EXCEPT ![r].op = op, ![r].pc = pc, ![r].s = s]
    /\ UNCHANGED Rest

\* CLI commands (create_admin, change_admin_password).
BeginBootstrap(r) == Arrive(r, "bootstrap", "account", 0)

BeginChangePassword(r) == Arrive(r, "change_password", "account", 0)

\* A login carries a password that is or was valid.
BeginLogin(r) ==
    \E given \in 1 .. password :
        /\ Arrives(r)
        /\ tx' = [tx EXCEPT ![r].op = "login", ![r].pc = "account", ![r].given = given]
        /\ UNCHANGED Rest

\* Any token pair ever handed out may come back, in cookies or in the payload;
\* decode_refresh refuses it once the session has expired.
BeginRefresh(r) ==
    \E s \in Sessions \ expired, cookie \in BOOLEAN : \E token \in handed[s] :
        /\ Arrives(r)
        /\ tx' = [tx EXCEPT ![r].op = "refresh", ![r].pc = "session", ![r].s = s,
                            ![r].token = token, ![r].cookie = cookie]
        /\ UNCHANGED Rest

\* AuthenticationMiddleware: an unlocked read in a transaction of its own, before
\* the use case starts.
Authenticated(s) == Active(s) /\ s \notin expired /\ password > 0

BeginLogout(r) ==
    \E s \in Sessions : Authenticated(s) /\ Arrive(r, "logout", "session", s)

BeginRevokeAll(r) ==
    \E s \in Sessions : Authenticated(s) /\ Arrive(r, "revoke_all", "bulk", s)

-----------------------------------------------------------------------------
(* Taking locks *)

\* get_by_normalized_username / get_single with for_update.
LockAccount(r) ==
    /\ tx[r].pc = "account"
    /\ AccountFree(r)
    /\ tx' = [tx EXCEPT ![r].acct = "update", ![r].seen = password, ![r].pc = "decide"]
    /\ UNCHANGED Rest

\* auth_sessions.get with for_update.
LockSession(r) ==
    /\ tx[r].pc = "session"
    /\ RowFree(r, tx[r].s)
    /\ tx' = [tx EXCEPT ![r].rows = {tx[r].s}, ![r].row = sess[tx[r].s], ![r].pc = "decide"]
    /\ UNCHANGED Rest

\* revoke_all_active: the snapshot of the UPDATE.
StartUpdate(r) ==
    /\ tx[r].pc = "bulk" /\ tx[r].scope = {}
    /\ LET live == {s \in Sessions : Active(s)} IN
         tx' = [tx EXCEPT ![r].todo = live, ![r].scope = live,
                          ![r].pc = IF live = {} THEN "event" ELSE "bulk"]
    /\ UNCHANGED Rest

\* Faulty variant: the bulk revocation passes over rows that are locked.
VisitRowSkipLocked(r) ==
    /\ tx[r].pc = "bulk"
    /\ \E s \in tx[r].todo :
         tx' = [tx EXCEPT ![r].todo = @ \ {s},
                          ![r].rows = IF Active(s) /\ RowFree(r, s) THEN @ \cup {s} ELSE @,
                          ![r].pc = IF tx[r].todo = {s} THEN "event" ELSE "bulk"]
    /\ UNCHANGED Rest

\* The next row of the snapshot, in whatever order the scan returns them: it waits
\* for the row and looks again whether it is still unrevoked.
VisitRow(r) ==
    /\ tx[r].pc = "bulk"
    /\ \E s \in tx[r].todo :
         /\ RowFree(r, s)
         /\ tx' = [tx EXCEPT ![r].todo = @ \ {s},
                             ![r].rows = IF Active(s) THEN @ \cup {s} ELSE @,
                             ![r].pc = IF tx[r].todo = {s} THEN "event" ELSE "bulk"]
    /\ UNCHANGED Rest

\* security_events.add: the foreign key to the account.
InsertEvent(r) ==
    /\ tx[r].pc = "event"
    /\ AccountShareable(r)
    /\ tx' = [tx EXCEPT ![r].acct = IF @ = "update" THEN @ ELSE "share", ![r].pc = "commit"]
    /\ UNCHANGED Rest

-----------------------------------------------------------------------------
(* Decisions *)

\* Faulty variant: an error raised inside the unit of work leaves its transaction open.
RejectWithoutRollback(r) == tx' = [tx EXCEPT ![r].pc = "done"] /\ UNCHANGED Rest

Reject(r) == tx' = [tx EXCEPT ![r] = Released(r)] /\ UNCHANGED Rest

Continue(r, pc) == tx' = [tx EXCEPT ![r].pc = pc] /\ UNCHANGED Rest

DecideBootstrap(r) ==
    /\ tx[r].op = "bootstrap" /\ tx[r].pc = "decide"
    /\ IF tx[r].seen = 0 THEN Continue(r, "event") ELSE Reject(r)

\* A wrong password ends in a transaction of its own kind (LoginGuard), not in a session.
DecideLogin(r) ==
    /\ tx[r].op = "login" /\ tx[r].pc = "decide"
    /\ IF tx[r].given = tx[r].seen THEN Continue(r, "event") ELSE Reject(r)

DecideChangePassword(r) ==
    /\ tx[r].op = "change_password" /\ tx[r].pc = "decide"
    /\ IF tx[r].seen > 0 THEN Continue(r, "bulk") ELSE Reject(r)

\* Faulty variant: the last reason wins.
RevokedAgain(row, reason) == [row EXCEPT !.revoked = reason]

\* Faulty variant: the reason is not one of SessionRevocationReason.
RevokedWithoutReason(row, reason) == [row EXCEPT !.revoked = "yes"]

\* AuthSession.revoke: idempotent, keeps the first reason.
Revoked(row, reason) == IF row.revoked = "no" THEN [row EXCEPT !.revoked = reason] ELSE row

\* Logout does not look whether the session is still active.
DecideLogout(r) ==
    /\ tx[r].op = "logout" /\ tx[r].pc = "decide"
    /\ tx' = [tx EXCEPT ![r].row = Revoked(@, "logout"), ![r].pc = "event"]
    /\ UNCHANGED Rest

\* _validate_csrf: cookie and header carry the CSRF token that came with the refresh
\* token, so a stale refresh cookie comes with a stale CSRF token.
CsrfRefused(r) == tx[r].cookie /\ tx[r].token # tx[r].row.jti

RefuseRefresh(r) ==
    /\ tx[r].op = "refresh" /\ tx[r].pc = "decide"
    /\ tx[r].row.revoked # "no" \/ CsrfRefused(r)
    /\ Reject(r)

\* A token that is not the current one: the family ends.
DetectReuse(r) ==
    /\ tx[r].op = "refresh" /\ tx[r].pc = "decide"
    /\ tx[r].row.revoked = "no" /\ ~CsrfRefused(r)
    /\ tx[r].token # tx[r].row.jti
    /\ tx' = [tx EXCEPT ![r].row = Revoked(@, "refresh_reuse"), ![r].pc = "event"]
    /\ UNCHANGED Rest

\* AuthSession.rotate with new tokens.
Rotation(r) ==
    /\ tx[r].op = "refresh" /\ tx[r].pc = "decide"
    /\ tx[r].row.revoked = "no" /\ ~CsrfRefused(r)
    /\ tx[r].token = tx[r].row.jti
    /\ tx' = [tx EXCEPT ![r].row.jti = r, ![r].pc = "event"]
    /\ UNCHANGED Rest

-----------------------------------------------------------------------------
(* Commits: what the transaction wrote becomes visible and its locks go *)

Finish(r) == tx[r].pc = "commit" /\ tx' = [tx EXCEPT ![r] = Released(r)]

CommitBootstrap(r) ==
    /\ tx[r].op = "bootstrap"
    /\ Finish(r)
    /\ password' = 1
    /\ UNCHANGED <<sess, expired, handed, accepted>>

\* _create_session
CommitLogin(r) ==
    /\ tx[r].op = "login"
    /\ Finish(r)
    /\ sess' = [sess EXCEPT ![r] = [jti |-> r, born |-> tx[r].seen, revoked |-> "no"]]
    /\ handed' = [handed EXCEPT ![r] = {r}]
    /\ UNCHANGED <<password, expired, accepted>>

\* save: the copy replaces every column.  A rotation hands out its token pair.
CommitSession(r) ==
    /\ tx[r].op \in {"refresh", "logout"}
    /\ Finish(r)
    /\ LET s == tx[r].s
           rotated == tx[r].op = "refresh" /\ tx[r].row.revoked = "no" IN
         /\ sess' = [sess EXCEPT ![s] = tx[r].row]
         /\ handed' = IF rotated THEN [handed EXCEPT ![s] = @ \cup {r}] ELSE handed
         /\ accepted' = IF rotated THEN [accepted EXCEPT ![s] = @ \cup {tx[r].token}] ELSE accepted
    /\ UNCHANGED <<password, expired>>

\* The rows the UPDATE holds, revoked for the same reason.
RevokedRows(r, reason) ==
    [s \in Sessions |-> IF s \in tx[r].rows THEN [sess[s] EXCEPT !.revoked = reason] ELSE sess[s]]

CommitRevokeAll(r) ==
    /\ tx[r].op = "revoke_all"
    /\ Finish(r)
    /\ sess' = RevokedRows(r, "admin_action")
    /\ UNCHANGED <<password, expired, handed, accepted>>

CommitChangePassword(r) ==
    /\ tx[r].op = "change_password"
    /\ Finish(r)
    /\ password' = tx[r].seen + 1
    /\ sess' = RevokedRows(r, "password_changed")
    /\ UNCHANGED <<expired, handed, accepted>>

\* Time passes: expires_at of a session.
Expire(s) ==
    /\ sess[s] # NoRow /\ s \notin expired
    /\ expired' = expired \cup {s}
    /\ UNCHANGED <<password, sess, handed, accepted, tx>>

-----------------------------------------------------------------------------

Begin(r) ==
    \/ BeginBootstrap(r) \/ BeginChangePassword(r) \/ BeginLogin(r)
    \/ BeginRefresh(r) \/ BeginLogout(r) \/ BeginRevokeAll(r)

Step(r) ==
    \/ LockAccount(r) \/ LockSession(r) \/ StartUpdate(r) \/ VisitRow(r) \/ InsertEvent(r)
    \/ DecideBootstrap(r) \/ DecideLogin(r) \/ DecideChangePassword(r) \/ DecideLogout(r)
    \/ RefuseRefresh(r) \/ DetectReuse(r) \/ Rotation(r)
    \/ CommitBootstrap(r) \/ CommitLogin(r) \/ CommitSession(r)
    \/ CommitRevokeAll(r) \/ CommitChangePassword(r)

Next ==
    \/ \E r \in Requests : Begin(r) \/ Step(r) \/ Rollback(r) \/ BreakDeadlock(r)
    \/ \E s \in Sessions : Expire(s)

Safety == Init /\ [][Next]_vars

\* A request that has arrived is stepped to its end, and PostgreSQL breaks a deadlock.
\* Requests need not arrive, nothing need fail, sessions need not expire.
Spec ==
    /\ Safety
    /\ \A r \in Requests : WF_vars(Step(r))
    /\ WF_vars(\E r \in Requests : BreakDeadlock(r))

-----------------------------------------------------------------------------
(* Properties *)

\* Every variable has its type.
TypeOK ==
    /\ password \in Nat
    /\ sess \in [Sessions -> Rows]
    /\ expired \in SUBSET Sessions
    /\ handed \in [Sessions -> SUBSET Tokens]
    /\ accepted \in [Sessions -> SUBSET Tokens]
    /\ tx \in [Requests -> TxStates]

\* A refresh token is consumed at most once and nobody is left with a token that was
\* neither consumed nor current: whatever two refreshes of one session interleave, each
\* token handed out either is the one the row accepts or was exchanged for a newer one
\* (AuthSession.rotate, "the only valid refresh token for this family").
TokensAccounted ==
    \A s \in Sessions : sess[s] # NoRow =>
        /\ handed[s] = accepted[s] \cup {sess[s].jti}
        /\ sess[s].jti \notin accepted[s]

\* No session opened with an earlier password survives: a login that overlaps a
\* password change, and a refresh that writes its copy of the row back, never leave one
\* (ChangeAdminPasswordUseCase: "invalidate every active session").
PasswordEndsSessions ==
    \A s \in Sessions : Active(s) => sess[s].born = password

\* A revocation is never undone and keeps its first reason, although refresh and logout
\* overwrite every column of the row with a copy they made earlier.
RevocationIsFinal ==
    [][\A s \in Sessions : sess[s].revoked # "no" => sess'[s].revoked = sess[s].revoked]_vars

\* The reuse of a refresh token revokes its family (docs/SECURITY.md:29-30): a refresh of an
\* active session is refused only by ending the session.  It does not hold for cookies,
\* because _validate_csrf refuses a stale pair before the token is compared.
ReuseEndsFamily ==
    [][\A r \in Requests : RefuseRefresh(r) => tx[r].row.revoked # "no"]_vars

\* When a bulk revocation commits, no session its UPDATE saw is left active, whichever of
\* them were being rotated or logged out while it waited (revoke_all_active).
BulkRevocationComplete ==
    [][\A r \in Requests : \A s \in tx[r].scope :
         tx[r].pc = "commit" /\ (sess' # sess \/ password' # password) /\ tx'[r].pc = "done"
            => sess'[s].revoked # "no"]_vars

\* The committed rows behave as if every operation were one atomic step.
Store == INSTANCE SessionStore

ImplementsStore == Store!Spec

\* Every request that has arrived is answered, deadlocks included: from some point on
\* none is being served (the unit of work rolls back on every exit).
RequestsFinish == <>[](\A r \in Requests : tx[r].pc \in {"new", "done"})
=============================================================================
