-------------------------- MODULE AuthSessionsProofs --------------------------
(***************************************************************************)
(* Proofs about AuthSessions, for every number of requests.                *)
(*                                                                         *)
(* A transaction decides and writes from what it read earlier: the account *)
(* it read under FOR UPDATE, the copy of a session row, the rows its       *)
(* UPDATE has visited.  The inductive invariant says of every open         *)
(* transaction what it still knows about the committed rows, and of every  *)
(* pair of transactions that their locks exclude each other, which is why  *)
(* the knowledge of one survives the commit of another.                    *)
(***************************************************************************)
EXTENDS AuthSessions, TLAPS

-----------------------------------------------------------------------------
(* What a transaction knows *)

AccountOps == {"bootstrap", "login", "change_password"}

SessionOps == {"refresh", "logout"}

BulkOps == {"revoke_all", "change_password"}

\* Where each kind of request can be; a request that is not served holds nothing.
ControlOK(r) ==
    \/ tx[r] = Fresh("new")
    \/ tx[r] = Fresh("done")
    \/ tx[r].op \in {"bootstrap", "login"} /\ tx[r].pc \in {"account", "decide", "event", "commit"}
    \/ tx[r].op = "change_password"
       /\ tx[r].pc \in {"account", "decide", "bulk", "event", "commit"}
    \/ tx[r].op \in SessionOps /\ tx[r].pc \in {"session", "decide", "event", "commit"}
    \/ tx[r].op = "revoke_all" /\ tx[r].pc \in {"bulk", "event", "commit"}

\* Only a refresh carries cookies; only session and bulk requests hold rows.
CarriesOK(r) ==
    /\ tx[r].cookie => tx[r].op = "refresh"
    /\ tx[r].op \in {"bootstrap", "login"} => tx[r].rows = {}
    /\ tx[r].op \notin BulkOps => tx[r].scope = {}

\* The holder of the account row has read the password that is still in force, and
\* got past its decision for a reason.
AccountOK(r) ==
    tx[r].op \in AccountOps =>
        /\ tx[r].pc # "account" => tx[r].acct = "update" /\ tx[r].seen = password
        /\ tx[r].op = "login" => tx[r].given > 0
        /\ tx[r].op = "login" /\ tx[r].pc \in {"event", "commit"} => tx[r].given = tx[r].seen
        /\ tx[r].op = "bootstrap" /\ tx[r].pc \in {"event", "commit"} => tx[r].seen = 0
        /\ tx[r].op = "change_password" /\ tx[r].pc \in {"bulk", "event", "commit"}
             => tx[r].seen > 0

\* What the copy of a session row has become when it is about to be written back.
Pending(r, row) ==
    \/ tx[r].op = "logout" /\ tx[r].row = Revoked(row, "logout")
    \/ /\ tx[r].op = "refresh" /\ row.revoked = "no"
       /\ tx[r].row = [row EXCEPT !.revoked = "refresh_reuse"]
    \/ /\ tx[r].op = "refresh" /\ row.revoked = "no" /\ tx[r].token = row.jti
       /\ tx[r].row = [row EXCEPT !.jti = r]

\* A refresh or a logout works on a row that exists; its copy is the committed row
\* with its own change.
SessionOK(r) ==
    tx[r].op \in SessionOps =>
        /\ tx[r].s \in Sessions /\ sess[tx[r].s].jti # NoToken
        /\ tx[r].rows = IF tx[r].pc = "session" THEN {} ELSE {tx[r].s}
        /\ tx[r].pc = "decide" => tx[r].row = sess[tx[r].s]
        /\ tx[r].pc \in {"event", "commit"} => Pending(r, sess[tx[r].s])

\* The bulk UPDATE has every row of its snapshot before it, locked and active, or
\* behind it and revoked by somebody else; a password change has seen every session.
BulkOK(r) ==
    tx[r].op \in BulkOps =>
        /\ tx[r].rows \subseteq tx[r].scope /\ tx[r].todo \subseteq tx[r].scope
        /\ \A s \in tx[r].scope : sess[s].jti # NoToken
        /\ \A s \in tx[r].rows : Active(s)
        /\ \A s \in tx[r].scope : s \notin tx[r].todo /\ s \notin tx[r].rows
                                    => sess[s].revoked # "no"
        /\ tx[r].pc \in {"event", "commit"} => tx[r].todo = {}
        /\ tx[r].pc \in {"account", "decide"} => tx[r].scope = {}
        /\ tx[r].op = "change_password"
             /\ (tx[r].scope # {} \/ tx[r].pc \in {"event", "commit"})
             => \A s \in Sessions : Active(s) => s \in tx[r].scope

TxOK(r) == ControlOK(r) /\ CarriesOK(r) /\ AccountOK(r) /\ SessionOK(r) /\ BulkOK(r)

\* FOR UPDATE and UPDATE lock a session row for one transaction.
RowsExclusive ==
    \A q, r \in Requests : q # r => tx[q].rows \cap tx[r].rows = {}

\* FOR UPDATE on the account excludes every other lock on it.
AccountExclusive ==
    \A q, r \in Requests : q # r /\ tx[r].acct = "update" => tx[q].acct = "none"

\* A row comes with its first token and never goes; only a finished request has
\* created a row or handed out a token.
RowsOK ==
    \A s \in Sessions :
        /\ \/ sess[s] = NoRow /\ handed[s] = {} /\ accepted[s] = {}
           \/ sess[s].jti \in Tokens /\ sess[s].born > 0 /\ tx[s].pc = "done"
        /\ \A t \in handed[s] : tx[t].pc = "done"

IndInv ==
    /\ TypeOK
    /\ \A r \in Requests : TxOK(r)
    /\ RowsExclusive /\ AccountExclusive /\ RowsOK
    /\ TokensAccounted /\ PasswordEndsSessions

-----------------------------------------------------------------------------
(* What one transaction knows survives the steps of another *)

\* The record of a request that is not being served is well-typed and knows nothing.
LEMMA FreshOK ==
    /\ Fresh("new") \in TxStates /\ Fresh("done") \in TxStates
    /\ \A pc \in {"new", "done"} :
         /\ Fresh(pc).pc = pc /\ Fresh(pc).op = "none" /\ Fresh(pc).rows = {}
         /\ Fresh(pc).acct = "none" /\ Fresh(pc).scope = {} /\ Fresh(pc).todo = {}
         /\ Fresh(pc).cookie = FALSE
    BY DEF Fresh, TxStates, Ops, Pcs, NoToken, Rows, NoRow, Reasons

\* A request that is over satisfies every condition on transactions.
LEMMA DoneOK ==
    ASSUME NEW r \in Requests, tx'[r] = Fresh("done")
    PROVE  TxOK(r)'
    BY FreshOK DEF TxOK, ControlOK, CarriesOK, AccountOK, SessionOK, BulkOK, AccountOps, SessionOps, BulkOps

\* Initially nothing is served and nothing is stored.
LEMMA InitInv == Init => IndInv
  <1> SUFFICES ASSUME Init PROVE IndInv
    OBVIOUS
  <1>1. TypeOK
    BY FreshOK DEF Init, TypeOK, Rows, NoRow, NoToken
  <1>2. ASSUME NEW r \in Requests PROVE TxOK(r)
    BY FreshOK
    DEF Init, TxOK, ControlOK, CarriesOK, AccountOK, SessionOK, BulkOK, AccountOps, SessionOps,
        BulkOps
  <1> QED
    BY <1>1, <1>2, FreshOK
    DEF Init, IndInv, RowsExclusive, AccountExclusive, RowsOK, TokensAccounted,
        PasswordEndsSessions, Active, NoRow, Sessions

\* q keeps its knowledge when a step leaves its record and the rows it has locked alone,
\* deletes no row and undoes no revocation, and, when q holds the account, neither sets
\* the password nor activates a session.
LEMMA TxKept ==
    ASSUME NEW q \in Requests, TxOK(q), tx'[q] = tx[q], sess' \in [Sessions -> Rows],
           tx[q] \in TxStates,
           \A s \in tx[q].rows : sess'[s] = sess[s],
           \A s \in Sessions : sess[s].jti # NoToken => sess'[s].jti # NoToken,
           \A s \in Sessions : sess[s].revoked # "no" => sess'[s].revoked # "no",
           tx[q].acct = "update" =>
             password' = password /\ \A s \in Sessions : Active(s)' => Active(s)
    PROVE  TxOK(q)'
  <1>1. ControlOK(q)' /\ CarriesOK(q)'
    BY DEF TxOK, ControlOK, CarriesOK
  <1>2. AccountOK(q)'
    BY DEF TxOK, AccountOK
  <1>3. SessionOK(q)'
    <2>1. CASE tx[q].op \in SessionOps
      <3>1. tx[q].s \in Sessions /\ sess[tx[q].s].jti # NoToken
        BY <2>1 DEF TxOK, SessionOK
      <3>2. CASE tx[q].pc = "session"
        BY <2>1, <3>1, <3>2 DEF TxOK, SessionOK
      <3>3. CASE tx[q].pc # "session"
        <4>1. sess'[tx[q].s] = sess[tx[q].s]
          BY <2>1, <3>3 DEF TxOK, SessionOK
        <4> QED
          BY <2>1, <3>1, <3>3, <4>1 DEF TxOK, SessionOK, Pending
      <3> QED BY <3>2, <3>3
    <2> QED
      BY <2>1 DEF SessionOK
  <1>4. BulkOK(q)'
    <2>1. CASE tx[q].op \in BulkOps
      <3>1. tx[q].scope \subseteq Sessions
        BY DEF TxStates
      <3>2. \A s \in tx[q].rows : Active(s)'
        BY <2>1 DEF TxOK, BulkOK, Active
      <3>3. tx[q].op = "change_password" /\ tx[q].pc \in {"event", "commit"}
              => tx[q].acct = "update"
        BY DEF TxOK, AccountOK, AccountOps
      <3>4. tx[q].op = "change_password" /\ tx[q].scope # {} => tx[q].acct = "update"
        BY <2>1 DEF TxOK, AccountOK, AccountOps, BulkOK
      <3> QED
        BY <2>1, <3>1, <3>2, <3>3, <3>4 DEF TxOK, BulkOK
    <2> QED
      BY <2>1 DEF BulkOK
  <1> QED
    BY <1>1, <1>2, <1>3, <1>4 DEF TxOK

\* A step of r that commits nothing preserves the invariant when r comes out right and
\* its locks are compatible with the others.
LEMMA LocalStep ==
    ASSUME NEW r \in Requests, IndInv, UNCHANGED Rest,
           NEW t \in TxStates, tx' = [tx EXCEPT ![r] = t], TxOK(r)',
           tx[r].pc # "done",
           \A q \in Requests \ {r} : t.rows \cap tx[q].rows = {},
           t.acct = "update" => \A q \in Requests \ {r} : tx[q].acct = "none",
           t.acct # "none" => \A q \in Requests \ {r} : tx[q].acct # "update"
    PROVE  IndInv'
  <1>1. tx' \in [Requests -> TxStates] /\ tx'[r] = t /\ \A q \in Requests \ {r} : tx'[q] = tx[q]
    BY DEF IndInv, TypeOK
  <1>2. TypeOK'
    BY <1>1 DEF IndInv, TypeOK, Rest
  <1>3. ASSUME NEW q \in Requests PROVE TxOK(q)'
    <2>1. CASE q = r
      BY <2>1
    <2>2. CASE q # r
      <3>1. TxOK(q) /\ tx[q] \in TxStates /\ sess' \in [Sessions -> Rows]
        BY <1>2 DEF IndInv, TypeOK
      <3> QED
        BY <1>1, <2>2, <3>1, TxKept DEF Rest, Active
    <2> QED BY <2>1, <2>2
  <1>4. RowsExclusive' /\ AccountExclusive'
    BY <1>1 DEF IndInv, RowsExclusive, AccountExclusive
  <1>5. RowsOK'
    BY <1>1 DEF IndInv, RowsOK, Rest, TypeOK, Sessions, Tokens
  <1>6. TokensAccounted' /\ PasswordEndsSessions'
    BY DEF IndInv, TokensAccounted, PasswordEndsSessions, Active, Rest
  <1> QED
    BY <1>2, <1>3, <1>4, <1>5, <1>6 DEF IndInv

-----------------------------------------------------------------------------
(* Each step that commits nothing *)

\* A transaction that ends without a commit: refusal, rollback, victim of a deadlock.
LEMMA EndInv ==
    ASSUME NEW r \in Requests, IndInv, tx[r].pc # "done",
           tx' = [tx EXCEPT ![r] = Released(r)], UNCHANGED Rest
    PROVE  IndInv'
  <1>1. tx'[r] = Fresh("done")
    BY DEF IndInv, TypeOK, Released
  <1>2. TxOK(r)'
    BY <1>1, DoneOK
  <1> QED
    BY <1>2, FreshOK, LocalStep DEF Released

\* A request that has just arrived holds nothing.
LEMMA ArrivesFresh ==
    ASSUME NEW r \in Requests, IndInv, Arrives(r)
    PROVE  tx[r] = Fresh("new")
    BY FreshOK DEF IndInv, TxOK, ControlOK, Arrives, SessionOps

\* A request without tokens arrives: for a session that exists, or for the account.
LEMMA ArriveInv ==
    ASSUME NEW r \in Requests, IndInv, NEW op \in Ops, NEW pc \in Pcs, NEW s \in Nat,
           Arrive(r, op, pc, s),
           \/ op \in {"bootstrap", "change_password"} /\ pc = "account"
           \/ op = "logout" /\ pc = "session" /\ s \in Sessions /\ Active(s)
           \/ op = "revoke_all" /\ pc = "bulk"
    PROVE  IndInv'
  <1> DEFINE t == [tx[r] EXCEPT !.op = op, !.pc = pc, !.s = s]
  <1>1. /\ tx[r] \in TxStates /\ tx[r].pc # "done"
        /\ tx[r].rows = {} /\ tx[r].scope = {} /\ tx[r].todo = {}
        /\ tx[r].acct = "none" /\ tx[r].cookie = FALSE
    BY ArrivesFresh, FreshOK DEF Arrive
  <1>2. /\ t \in TxStates /\ t.op = op /\ t.pc = pc /\ t.s = s
        /\ t.rows = {} /\ t.scope = {} /\ t.todo = {} /\ t.acct = "none" /\ t.cookie = FALSE
    BY <1>1 DEF TxStates
  <1>3. tx' = [tx EXCEPT ![r] = t] /\ UNCHANGED Rest
    BY DEF Arrive
  <1>4. tx'[r] = t /\ sess' = sess
    BY <1>3 DEF IndInv, TypeOK, Rest
  <1> HIDE DEF t
  <1>5. TxOK(r)'
    BY <1>2, <1>4
    DEF TxOK, ControlOK, CarriesOK, AccountOK, SessionOK, BulkOK, AccountOps, SessionOps,
        BulkOps, Active
  <1> QED
    BY <1>1, <1>2, <1>3, <1>5, LocalStep

\* A login arrives with a password that has been set.
LEMMA BeginLoginInv ==
    ASSUME NEW r \in Requests, IndInv, BeginLogin(r)
    PROVE  IndInv'
  <1>1. PICK given \in 1 .. password :
          /\ Arrives(r)
          /\ tx' = [tx EXCEPT ![r].op = "login", ![r].pc = "account", ![r].given = given]
          /\ UNCHANGED Rest
    BY DEF BeginLogin
  <1> DEFINE t == [tx[r] EXCEPT !.op = "login", !.pc = "account", !.given = given]
  <1>2. /\ tx[r] \in TxStates /\ tx[r].pc # "done"
        /\ tx[r].rows = {} /\ tx[r].scope = {} /\ tx[r].acct = "none" /\ tx[r].cookie = FALSE
    BY <1>1, ArrivesFresh, FreshOK
  <1>3. given \in Nat /\ given > 0
    BY <1>1 DEF IndInv, TypeOK
  <1>4. /\ t \in TxStates /\ t.op = "login" /\ t.pc = "account" /\ t.given = given
        /\ t.rows = {} /\ t.scope = {} /\ t.acct = "none" /\ t.cookie = FALSE
    BY <1>2, <1>3 DEF TxStates, Ops, Pcs
  <1>5. tx' = [tx EXCEPT ![r] = t]
    BY <1>1
  <1>6. tx'[r] = t
    BY <1>5 DEF IndInv, TypeOK
  <1> HIDE DEF t
  <1>7. TxOK(r)'
    BY <1>3, <1>4, <1>6
    DEF TxOK, ControlOK, CarriesOK, AccountOK, SessionOK, BulkOK, AccountOps, SessionOps,
        BulkOps
  <1> QED
    BY <1>1, <1>2, <1>4, <1>5, <1>7, LocalStep

\* A refresh arrives with a token that was handed out, so its session exists.
LEMMA BeginRefreshInv ==
    ASSUME NEW r \in Requests, IndInv, BeginRefresh(r)
    PROVE  IndInv'
  <1>1. PICK s \in Sessions \ expired, cookie \in BOOLEAN : \E token \in handed[s] :
          /\ Arrives(r)
          /\ tx' = [tx EXCEPT ![r].op = "refresh", ![r].pc = "session", ![r].s = s,
                              ![r].token = token, ![r].cookie = cookie]
          /\ UNCHANGED Rest
    BY DEF BeginRefresh
  <1>2. PICK token \in handed[s] :
          /\ Arrives(r)
          /\ tx' = [tx EXCEPT ![r].op = "refresh", ![r].pc = "session", ![r].s = s,
                              ![r].token = token, ![r].cookie = cookie]
          /\ UNCHANGED Rest
    BY <1>1
  <1> DEFINE t == [tx[r] EXCEPT !.op = "refresh", !.pc = "session", !.s = s,
                                !.token = token, !.cookie = cookie]
  <1>3. /\ tx[r] \in TxStates /\ tx[r].pc # "done"
        /\ tx[r].rows = {} /\ tx[r].scope = {} /\ tx[r].acct = "none"
    BY <1>2, ArrivesFresh, FreshOK
  <1>4. s \in Nat /\ token \in Nat
    BY NAssumption DEF NAssumption, IndInv, TypeOK, Sessions, Tokens, Requests
  <1>5. /\ t \in TxStates /\ t.op = "refresh" /\ t.pc = "session" /\ t.s = s
        /\ t.rows = {} /\ t.scope = {} /\ t.acct = "none"
    BY <1>3, <1>4 DEF TxStates, Ops, Pcs
  <1>6. tx' = [tx EXCEPT ![r] = t]
    BY <1>2
  <1>7. tx'[r] = t /\ sess' = sess
    BY <1>2, <1>6 DEF IndInv, TypeOK, Rest
  <1>8. sess[s].jti # NoToken
    BY NAssumption DEF NAssumption, IndInv, RowsOK, Tokens, Requests, NoToken
  <1> HIDE DEF t
  <1>9. TxOK(r)'
    BY <1>5, <1>7, <1>8
    DEF TxOK, ControlOK, CarriesOK, AccountOK, SessionOK, BulkOK, AccountOps, SessionOps,
        BulkOps
  <1> QED
    BY <1>2, <1>3, <1>5, <1>6, <1>9, LocalStep

\* FOR UPDATE on the account: nobody else has any lock on it, and the password is read.
LEMMA LockAccountInv ==
    ASSUME NEW r \in Requests, IndInv, LockAccount(r)
    PROVE  IndInv'
  <1> DEFINE t == [tx[r] EXCEPT !.acct = "update", !.seen = password, !.pc = "decide"]
  <1>1. tx[r] \in TxStates /\ TxOK(r) /\ tx[r].pc = "account" /\ password \in Nat
    BY DEF LockAccount, IndInv, TypeOK
  <1>2. /\ t \in TxStates /\ t.acct = "update" /\ t.seen = password /\ t.pc = "decide"
        /\ t.op = tx[r].op /\ t.rows = tx[r].rows /\ t.scope = tx[r].scope
        /\ t.cookie = tx[r].cookie /\ t.given = tx[r].given /\ t.todo = tx[r].todo
    BY <1>1 DEF TxStates, Pcs
  <1>3. tx' = [tx EXCEPT ![r] = t] /\ UNCHANGED Rest
    BY DEF LockAccount
  <1>4. tx'[r] = t /\ sess' = sess /\ password' = password
    BY <1>3 DEF IndInv, TypeOK, Rest
  <1>5. tx[r].op \in AccountOps /\ tx[r].scope = {} /\ tx[r].rows = {}
    BY <1>1, FreshOK
    DEF TxOK, ControlOK, CarriesOK, AccountOK, SessionOK, BulkOK, AccountOps, SessionOps,
        BulkOps
  <1> HIDE DEF t
  <1>6. TxOK(r)'
    BY <1>1, <1>2, <1>4, <1>5
    DEF TxOK, ControlOK, CarriesOK, AccountOK, SessionOK, BulkOK, AccountOps, SessionOps,
        BulkOps
  <1> QED
    BY <1>1, <1>2, <1>3, <1>5, <1>6, LocalStep DEF LockAccount, AccountFree

\* FOR UPDATE on a session: nobody else has the row, and the copy is made.
LEMMA LockSessionInv ==
    ASSUME NEW r \in Requests, IndInv, LockSession(r)
    PROVE  IndInv'
  <1> DEFINE t == [tx[r] EXCEPT !.rows = {tx[r].s}, !.row = sess[tx[r].s], !.pc = "decide"]
  <1>1. tx[r] \in TxStates /\ TxOK(r) /\ tx[r].pc = "session"
    BY DEF LockSession, IndInv, TypeOK
  <1>2. /\ tx[r].op \in SessionOps /\ tx[r].s \in Sessions /\ sess[tx[r].s].jti # NoToken
        /\ sess[tx[r].s] \in Rows
    BY <1>1, FreshOK
    DEF IndInv, TypeOK, TxOK, ControlOK, SessionOK
  <1>3. /\ t \in TxStates /\ t.rows = {tx[r].s} /\ t.row = sess[tx[r].s] /\ t.pc = "decide"
        /\ t.op = tx[r].op /\ t.s = tx[r].s /\ t.scope = tx[r].scope
        /\ t.cookie = tx[r].cookie /\ t.acct = tx[r].acct
    BY <1>1, <1>2 DEF TxStates, Pcs
  <1>4. tx' = [tx EXCEPT ![r] = t] /\ UNCHANGED Rest
    BY DEF LockSession
  <1>5. tx'[r] = t /\ sess' = sess
    BY <1>4 DEF IndInv, TypeOK, Rest
  <1> HIDE DEF t
  <1>6. TxOK(r)'
    BY <1>1, <1>2, <1>3, <1>5
    DEF TxOK, ControlOK, CarriesOK, AccountOK, SessionOK, BulkOK, AccountOps, SessionOps,
        BulkOps
  <1>7. \A q \in Requests \ {r} : t.rows \cap tx[q].rows = {}
    BY <1>3 DEF LockSession, RowFree
  <1> QED
    BY <1>1, <1>3, <1>4, <1>6, <1>7, LocalStep DEF IndInv, AccountExclusive

\* Only bulk requests are at "bulk".
LEMMA AtBulk ==
    ASSUME NEW r \in Requests, IndInv, tx[r].pc = "bulk"
    PROVE  tx[r] \in TxStates /\ TxOK(r) /\ tx[r].op \in BulkOps
    BY FreshOK DEF IndInv, TypeOK, TxOK, ControlOK, BulkOps, SessionOps

\* The UPDATE takes its snapshot: all active sessions are still before it.
LEMMA StartUpdateInv ==
    ASSUME NEW r \in Requests, IndInv, StartUpdate(r)
    PROVE  IndInv'
  <1> DEFINE live == {s \in Sessions : Active(s)}
             pc == IF live = {} THEN "event" ELSE "bulk"
             t == [tx[r] EXCEPT !.todo = live, !.scope = live, !.pc = pc]
  <1>1. /\ tx[r] \in TxStates /\ TxOK(r) /\ tx[r].op \in BulkOps /\ tx[r].pc = "bulk"
        /\ tx[r].rows = {}
    BY AtBulk DEF StartUpdate, TxOK, BulkOK
  <1>2. live \subseteq Sessions /\ pc \in {"event", "bulk"} /\ (pc = "event" => live = {})
    OBVIOUS
  <1>3. /\ t \in TxStates /\ t.todo = live /\ t.scope = live /\ t.pc = pc
        /\ t.op = tx[r].op /\ t.rows = {} /\ t.acct = tx[r].acct /\ t.seen = tx[r].seen
        /\ t.cookie = tx[r].cookie /\ t.given = tx[r].given
    BY <1>1, <1>2 DEF TxStates, Pcs
  <1>4. tx' = [tx EXCEPT ![r] = t] /\ UNCHANGED Rest
    BY DEF StartUpdate
  <1>5. tx'[r] = t /\ sess' = sess /\ password' = password
    BY <1>4 DEF IndInv, TypeOK, Rest
  <1>6. \A s \in live : sess[s].jti # NoToken
    BY DEF Active
  <1>7. \A s \in Sessions : Active(s)' => s \in live
    BY <1>5 DEF Active
  <1> HIDE DEF t, live, pc
  <1>8. TxOK(r)'
    <2>1. ControlOK(r)' /\ CarriesOK(r)' /\ SessionOK(r)'
      BY <1>1, <1>2, <1>3, <1>5 DEF TxOK, ControlOK, CarriesOK, SessionOK, SessionOps, BulkOps
    <2>2. AccountOK(r)'
      BY <1>1, <1>2, <1>3, <1>5 DEF TxOK, AccountOK, AccountOps, BulkOps
    <2>3. BulkOK(r)'
      BY <1>1, <1>2, <1>3, <1>5, <1>6, <1>7 DEF BulkOK
    <2> QED
      BY <2>1, <2>2, <2>3 DEF TxOK
  <1> QED
    BY <1>1, <1>3, <1>4, <1>8, LocalStep DEF IndInv, AccountExclusive

\* The UPDATE gets the lock of a row and looks at it again: it holds it when it is
\* still active, and passes on when somebody else has revoked it.
LEMMA VisitRowInv ==
    ASSUME NEW r \in Requests, IndInv, VisitRow(r)
    PROVE  IndInv'
  <1>1. PICK s \in tx[r].todo :
          /\ RowFree(r, s)
          /\ tx' = [tx EXCEPT ![r].todo = @ \ {s},
                              ![r].rows = IF Active(s) THEN @ \cup {s} ELSE @,
                              ![r].pc = IF tx[r].todo = {s} THEN "event" ELSE "bulk"]
          /\ UNCHANGED Rest
    BY DEF VisitRow
  <1> DEFINE held == IF Active(s) THEN tx[r].rows \cup {s} ELSE tx[r].rows
             pc == IF tx[r].todo = {s} THEN "event" ELSE "bulk"
             t == [tx[r] EXCEPT !.todo = tx[r].todo \ {s}, !.rows = held, !.pc = pc]
  <1>2. tx[r] \in TxStates /\ TxOK(r) /\ tx[r].op \in BulkOps /\ tx[r].pc = "bulk"
    BY AtBulk DEF VisitRow
  <1>3. /\ tx[r].todo \subseteq Sessions /\ s \in Sessions /\ held \subseteq Sessions
        /\ pc \in {"event", "bulk"} /\ (pc = "event" => tx[r].todo \ {s} = {})
    BY <1>2 DEF TxStates
  <1>4. /\ t \in TxStates /\ t.todo = tx[r].todo \ {s} /\ t.rows = held /\ t.pc = pc
        /\ t.op = tx[r].op /\ t.scope = tx[r].scope /\ t.acct = tx[r].acct
        /\ t.seen = tx[r].seen /\ t.cookie = tx[r].cookie /\ t.given = tx[r].given
    BY <1>2, <1>3 DEF TxStates, Pcs
  <1>5. tx' = [tx EXCEPT ![r] = t]
    BY <1>1
  <1>6. tx'[r] = t /\ sess' = sess /\ password' = password
    BY <1>1, <1>5 DEF IndInv, TypeOK, Rest
  <1>7. s \in tx[r].scope /\ (~Active(s) => sess[s].revoked # "no")
    BY <1>2 DEF TxOK, BulkOK, Active
  <1> HIDE DEF t, pc
  <1>8. TxOK(r)'
    <2>1. ControlOK(r)' /\ CarriesOK(r)' /\ SessionOK(r)'
      BY <1>2, <1>3, <1>4, <1>6 DEF TxOK, ControlOK, CarriesOK, SessionOK, SessionOps, BulkOps
    <2>2. AccountOK(r)'
      BY <1>2, <1>3, <1>4, <1>6 DEF TxOK, AccountOK, AccountOps, BulkOps
    <2>3. BulkOK(r)'
      BY <1>2, <1>3, <1>4, <1>6, <1>7 DEF TxOK, BulkOK, Active
    <2> QED
      BY <2>1, <2>2, <2>3 DEF TxOK
  <1>9. \A q \in Requests \ {r} : t.rows \cap tx[q].rows = {}
    BY <1>1, <1>4 DEF RowFree, IndInv, RowsExclusive
  <1>10. /\ t.acct = "update" => \A q \in Requests \ {r} : tx[q].acct = "none"
         /\ t.acct # "none" => \A q \in Requests \ {r} : tx[q].acct # "update"
    BY <1>4 DEF IndInv, AccountExclusive
  <1> QED
    BY <1>1, <1>2, <1>4, <1>5, <1>8, <1>9, <1>10, LocalStep

\* The foreign key takes KEY SHARE on the account unless r already has FOR UPDATE.
LEMMA InsertEventInv ==
    ASSUME NEW r \in Requests, IndInv, InsertEvent(r)
    PROVE  IndInv'
  <1> DEFINE acct == IF tx[r].acct = "update" THEN "update" ELSE "share"
             t == [tx[r] EXCEPT !.acct = acct, !.pc = "commit"]
  <1>1. tx[r] \in TxStates /\ TxOK(r) /\ tx[r].pc = "event"
    BY DEF InsertEvent, IndInv, TypeOK
  <1>2. /\ t \in TxStates /\ t.acct = acct /\ t.pc = "commit"
        /\ t.op = tx[r].op /\ t.s = tx[r].s /\ t.token = tx[r].token /\ t.row = tx[r].row
        /\ t.rows = tx[r].rows /\ t.scope = tx[r].scope /\ t.todo = tx[r].todo
        /\ t.cookie = tx[r].cookie /\ t.given = tx[r].given /\ t.seen = tx[r].seen
    BY <1>1 DEF TxStates, Pcs
  <1>3. tx' = [tx EXCEPT ![r] = t] /\ UNCHANGED Rest
    BY DEF InsertEvent
  <1>4. tx'[r] = t /\ sess' = sess /\ password' = password
    BY <1>3 DEF IndInv, TypeOK, Rest
  <1> HIDE DEF t
  <1>5. TxOK(r)'
    <2>1. ControlOK(r)' /\ CarriesOK(r)'
      BY <1>1, <1>2, <1>4, FreshOK DEF TxOK, ControlOK, CarriesOK
    <2>2. AccountOK(r)'
      BY <1>1, <1>2, <1>4 DEF TxOK, AccountOK
    <2>3. SessionOK(r)'
      BY <1>1, <1>2, <1>4 DEF TxOK, SessionOK, Pending
    <2>4. BulkOK(r)'
      BY <1>1, <1>2, <1>4 DEF TxOK, BulkOK, Active
    <2> QED
      BY <2>1, <2>2, <2>3, <2>4 DEF TxOK
  <1>6. \A q \in Requests \ {r} : t.rows \cap tx[q].rows = {}
    BY <1>2 DEF IndInv, RowsExclusive
  <1>7. /\ t.acct = "update" => \A q \in Requests \ {r} : tx[q].acct = "none"
        /\ \A q \in Requests \ {r} : tx[q].acct # "update"
    BY <1>1, <1>2 DEF IndInv, AccountExclusive, InsertEvent, AccountShareable
  <1> QED
    BY <1>1, <1>2, <1>3, <1>5, <1>6, <1>7, LocalStep

\* A decision that goes on with pc, changing nothing but the copy of the row.
LEMMA DecideInv ==
    ASSUME NEW r \in Requests, IndInv, tx[r].pc = "decide", NEW row \in Rows,
           NEW pc \in {"event", "bulk"},
           NEW t, t = [tx[r] EXCEPT !.row = row, !.pc = pc],
           tx' = [tx EXCEPT ![r] = t], UNCHANGED Rest,
           \/ tx[r].op = "bootstrap" /\ pc = "event" /\ tx[r].seen = 0
           \/ tx[r].op = "login" /\ pc = "event" /\ tx[r].given = tx[r].seen
           \/ tx[r].op = "change_password" /\ pc = "bulk" /\ tx[r].seen > 0
           \/ tx[r].op = "logout" /\ pc = "event" /\ row = Revoked(tx[r].row, "logout")
           \/ /\ tx[r].op = "refresh" /\ pc = "event" /\ tx[r].row.revoked = "no"
              /\ \/ row = [tx[r].row EXCEPT !.revoked = "refresh_reuse"]
                 \/ tx[r].token = tx[r].row.jti /\ row = [tx[r].row EXCEPT !.jti = r]
    PROVE  IndInv'
  <1>1. tx[r] \in TxStates /\ TxOK(r)
    BY DEF IndInv, TypeOK
  <1>2. /\ t \in TxStates /\ t.row = row /\ t.pc = pc
        /\ t.op = tx[r].op /\ t.s = tx[r].s /\ t.token = tx[r].token /\ t.acct = tx[r].acct
        /\ t.rows = tx[r].rows /\ t.scope = tx[r].scope /\ t.todo = tx[r].todo
        /\ t.cookie = tx[r].cookie /\ t.given = tx[r].given /\ t.seen = tx[r].seen
    BY <1>1 DEF TxStates, Pcs
  <1>3. tx'[r] = t /\ sess' = sess /\ password' = password
    BY DEF IndInv, TypeOK, Rest
  <1>4. TxOK(r)'
    <2>1. ControlOK(r)' /\ CarriesOK(r)'
      BY <1>1, <1>2, <1>3, FreshOK DEF TxOK, ControlOK, CarriesOK, SessionOps
    <2>2. AccountOK(r)'
      BY <1>1, <1>2, <1>3 DEF TxOK, AccountOK, AccountOps
    <2>3. SessionOK(r)'
      BY <1>1, <1>2, <1>3 DEF TxOK, SessionOK, SessionOps, Pending
    <2>4. BulkOK(r)'
      BY <1>1, <1>2, <1>3 DEF TxOK, BulkOK, BulkOps, Active
    <2> QED
      BY <2>1, <2>2, <2>3, <2>4 DEF TxOK
  <1>5. \A q \in Requests \ {r} : t.rows \cap tx[q].rows = {}
    BY <1>2 DEF IndInv, RowsExclusive
  <1>6. /\ t.acct = "update" => \A q \in Requests \ {r} : tx[q].acct = "none"
        /\ t.acct # "none" => \A q \in Requests \ {r} : tx[q].acct # "update"
    BY <1>2 DEF IndInv, AccountExclusive
  <1> QED
    BY <1>2, <1>4, <1>5, <1>6, LocalStep

-----------------------------------------------------------------------------
(* Commits *)

\* A row that some transaction has locked exists.
LEMMA HeldRowsExist ==
    ASSUME NEW q \in Requests, TxOK(q), NEW s \in tx[q].rows
    PROVE  sess[s].jti # NoToken
    BY FreshOK
    DEF TxOK, ControlOK, CarriesOK, SessionOK, BulkOK, SessionOps, BulkOps, Active

\* A commit of r preserves the invariant when it writes only rows r has locked and the
\* row of a new session, and touches the password or activates a session only while r
\* holds the account.
LEMMA CommitStep ==
    ASSUME NEW r \in Requests, IndInv, Finish(r),
           password' \in Nat, sess' \in [Sessions -> Rows],
           handed' \in [Sessions -> SUBSET Tokens], accepted' \in [Sessions -> SUBSET Tokens],
           UNCHANGED expired,
           \A s \in Sessions : sess'[s] # sess[s] => s \in tx[r].rows \/ sess[s] = NoRow,
           \A s \in Sessions : sess[s].jti # NoToken => sess'[s].jti # NoToken,
           \A s \in Sessions : sess[s].revoked # "no" => sess'[s].revoked # "no",
           tx[r].acct # "update" =>
             password' = password /\ \A s \in Sessions : Active(s)' => Active(s),
           RowsOK', TokensAccounted', PasswordEndsSessions'
    PROVE  IndInv'
  <1>1. /\ tx' \in [Requests -> TxStates] /\ tx'[r] = Fresh("done")
        /\ \A q \in Requests \ {r} : tx'[q] = tx[q]
    BY FreshOK DEF Finish, Released, IndInv, TypeOK
  <1>2. TypeOK'
    BY <1>1 DEF IndInv, TypeOK
  <1>3. ASSUME NEW q \in Requests PROVE TxOK(q)'
    <2>1. CASE q = r
      BY <1>1, <2>1, DoneOK
    <2>2. CASE q # r
      <3>1. TxOK(q) /\ tx[q] \in TxStates /\ tx'[q] = tx[q]
        BY <1>1, <2>2 DEF IndInv, TypeOK
      <3>2. \A s \in tx[q].rows : sess'[s] = sess[s]
        <4>1. \A s \in tx[q].rows : s \in Sessions /\ s \notin tx[r].rows
          BY <2>2, <3>1 DEF IndInv, RowsExclusive, TxStates
        <4>2. \A s \in tx[q].rows : sess[s] # NoRow
          BY <3>1, HeldRowsExist DEF NoRow
        <4> QED
          BY <4>1, <4>2
      <3>3. tx[q].acct = "update" => tx[r].acct # "update"
        BY <2>2 DEF IndInv, AccountExclusive
      <3> QED
        BY <3>1, <3>2, <3>3, TxKept
    <2> QED BY <2>1, <2>2
  <1>4. RowsExclusive' /\ AccountExclusive'
    BY <1>1, FreshOK DEF IndInv, RowsExclusive, AccountExclusive
  <1> QED
    BY <1>2, <1>3, <1>4 DEF IndInv

\* A request that commits was not finished: it has created no row and handed out no
\* token yet, and afterwards every finished request is still finished.
LEMMA CommitsOnce ==
    ASSUME NEW r \in Requests, IndInv, Finish(r)
    PROVE  /\ sess[r] = NoRow /\ handed[r] = {} /\ accepted[r] = {}
           /\ \A s \in Sessions : r \notin handed[s] /\ r \notin accepted[s]
           /\ tx'[r].pc = "done"
           /\ \A q \in Requests : tx[q].pc = "done" => tx'[q].pc = "done"
  <1>1. tx'[r] = Fresh("done") /\ \A q \in Requests \ {r} : tx'[q] = tx[q]
    BY DEF Finish, Released, IndInv, TypeOK
  <1>2. tx[r].pc # "done" /\ r \in Sessions
    BY DEF Finish, Sessions
  <1>3. sess[r] = NoRow /\ handed[r] = {} /\ accepted[r] = {}
    BY <1>2 DEF IndInv, RowsOK
  <1>4. \A s \in Sessions : r \notin handed[s]
    BY <1>2 DEF IndInv, RowsOK
  <1>5. \A s \in Sessions : accepted[s] \subseteq handed[s]
    <2>1. \A s \in Sessions : sess[s].jti \in Tokens => sess[s] # NoRow
      BY NAssumption DEF NAssumption, NoRow, NoToken, Tokens, Requests
    <2> QED
      BY <2>1 DEF IndInv, RowsOK, TokensAccounted
  <1> QED
    BY <1>1, <1>3, <1>4, <1>5, FreshOK

\* The bootstrap sets the first password: there is no session yet.
LEMMA CommitBootstrapInv ==
    ASSUME NEW r \in Requests, IndInv, CommitBootstrap(r)
    PROVE  IndInv'
  <1>1. /\ Finish(r) /\ password' = 1
        /\ UNCHANGED <<sess, expired, handed, accepted>>
        /\ tx[r].acct = "update" /\ password = 0
    BY DEF CommitBootstrap, Finish, IndInv, TxOK, AccountOK, AccountOps
  <1>2. \A s \in Sessions : ~Active(s)
    BY <1>1, NAssumption
    DEF NAssumption, IndInv, RowsOK, PasswordEndsSessions, Active, NoRow, TypeOK, Rows
  <1>3. RowsOK' /\ TokensAccounted'
    BY <1>1, CommitsOnce DEF IndInv, RowsOK, TokensAccounted, TypeOK, Sessions, Tokens
  <1>4. PasswordEndsSessions'
    BY <1>1, <1>2 DEF PasswordEndsSessions, Active
  <1> QED
    BY <1>1, <1>3, <1>4, CommitStep DEF IndInv, TypeOK

\* A login creates its session with the password in force.
LEMMA CommitLoginInv ==
    ASSUME NEW r \in Requests, IndInv, CommitLogin(r)
    PROVE  IndInv'
  <1> DEFINE row == [jti |-> r, born |-> tx[r].seen, revoked |-> "no"]
  <1>1. /\ Finish(r) /\ sess' = [sess EXCEPT ![r] = row] /\ handed' = [handed EXCEPT ![r] = {r}]
        /\ UNCHANGED <<password, expired, accepted>>
        /\ tx[r].acct = "update" /\ tx[r].seen = password /\ tx[r].seen > 0
    BY DEF CommitLogin, Finish, IndInv, TxOK, AccountOK, AccountOps
  <1>2. r \in Sessions /\ r \in Tokens /\ r \in Nat /\ r # NoToken
    BY NAssumption DEF NAssumption, Sessions, Tokens, Requests, NoToken
  <1>3. row \in Rows
    BY <1>1, <1>2 DEF Rows, IndInv, TypeOK
  <1>4. /\ sess' \in [Sessions -> Rows] /\ sess'[r] = row
        /\ \A s \in Sessions \ {r} : sess'[s] = sess[s]
    BY <1>1, <1>2, <1>3 DEF IndInv, TypeOK
  <1>5. /\ handed' \in [Sessions -> SUBSET Tokens] /\ handed'[r] = {r}
        /\ \A s \in Sessions \ {r} : handed'[s] = handed[s]
    BY <1>1, <1>2 DEF IndInv, TypeOK
  <1>6. /\ sess[r] = NoRow /\ accepted[r] = {} /\ tx'[r].pc = "done"
        /\ \A q \in Requests : tx[q].pc = "done" => tx'[q].pc = "done"
    BY <1>1, CommitsOnce
  <1>7. RowsOK'
    BY <1>1, <1>2, <1>4, <1>5, <1>6 DEF IndInv, RowsOK, TypeOK, Sessions, Tokens
  <1>8. TokensAccounted'
    BY <1>1, <1>4, <1>5, <1>6 DEF IndInv, TokensAccounted
  <1>9. PasswordEndsSessions'
    BY <1>1, <1>4 DEF IndInv, PasswordEndsSessions, Active
  <1>10. /\ \A s \in Sessions : sess'[s] # sess[s] => sess[s] = NoRow
         /\ \A s \in Sessions : sess[s].jti # NoToken => sess'[s].jti # NoToken
         /\ \A s \in Sessions : sess[s].revoked # "no" => sess'[s].revoked # "no"
    BY <1>4, <1>6 DEF NoRow
  <1> QED
    BY <1>1, <1>4, <1>5, <1>7, <1>8, <1>9, <1>10, CommitStep DEF IndInv, TypeOK

\* A refresh or a logout writes its copy back.  Nobody else wrote the row since the copy
\* was made, so the commit is a rotation or a revocation of the committed row.
LEMMA SessionWrite ==
    ASSUME NEW r \in Requests, IndInv, CommitSession(r)
    PROVE  /\ tx[r].s \in Sessions /\ tx[r].rows = {tx[r].s} /\ tx[r].row \in Rows
           /\ sess[tx[r].s].jti \in Tokens /\ sess[tx[r].s] \in Rows
           /\ Pending(r, sess[tx[r].s])
  <1>1. /\ tx[r].op \in SessionOps /\ tx[r].pc = "commit" /\ TxOK(r) /\ tx[r] \in TxStates
    BY DEF CommitSession, Finish, SessionOps, IndInv, TypeOK
  <1>2. tx[r].s \in Sessions /\ tx[r].rows = {tx[r].s} /\ Pending(r, sess[tx[r].s])
        /\ sess[tx[r].s].jti # NoToken
    BY <1>1 DEF TxOK, SessionOK
  <1>3. sess[tx[r].s].jti \in Tokens
    BY <1>2 DEF IndInv, RowsOK, NoRow
  <1> QED
    BY <1>1, <1>2, <1>3 DEF TxStates, IndInv, TypeOK

\* Such a commit preserves the invariant: a rotation consumes exactly the current token.
LEMMA CommitSessionInv ==
    ASSUME NEW r \in Requests, IndInv, CommitSession(r)
    PROVE  IndInv'
  <1> DEFINE s == tx[r].s
             old == sess[s]
             new == tx[r].row
             rotated == tx[r].op = "refresh" /\ tx[r].row.revoked = "no"
  <1>1. /\ Finish(r) /\ sess' = [sess EXCEPT ![s] = new]
        /\ handed' = IF rotated THEN [handed EXCEPT ![s] = @ \cup {r}] ELSE handed
        /\ accepted' = IF rotated THEN [accepted EXCEPT ![s] = @ \cup {tx[r].token}] ELSE accepted
        /\ UNCHANGED <<password, expired>>
    BY DEF CommitSession
  <1>2. /\ s \in Sessions /\ tx[r].rows = {s} /\ new \in Rows /\ old \in Rows
        /\ old.jti \in Tokens /\ Pending(r, old)
    BY SessionWrite
  <1>3. r \in Sessions /\ r \in Tokens /\ r \in Nat /\ \A t \in Tokens : t # NoToken
    BY NAssumption DEF NAssumption, Sessions, Tokens, Requests, NoToken
  <1>4. /\ new.born = old.born /\ new.jti \in Tokens
        /\ old.revoked # "no" => new = old
        /\ rotated => new.jti = r /\ tx[r].token = old.jti /\ old.revoked = "no"
        /\ ~rotated => new.jti = old.jti
    BY <1>2, <1>3 DEF Pending, Revoked, Rows
  <1>5. /\ sess' \in [Sessions -> Rows] /\ sess'[s] = new
        /\ \A x \in Sessions \ {s} : sess'[x] = sess[x]
    BY <1>1, <1>2 DEF IndInv, TypeOK
  <1>6. /\ handed' \in [Sessions -> SUBSET Tokens]
        /\ handed'[s] = IF rotated THEN handed[s] \cup {r} ELSE handed[s]
        /\ \A x \in Sessions \ {s} : handed'[x] = handed[x]
    BY <1>1, <1>2, <1>3 DEF IndInv, TypeOK
  <1>7. /\ accepted' \in [Sessions -> SUBSET Tokens]
        /\ accepted'[s] = IF rotated THEN accepted[s] \cup {old.jti} ELSE accepted[s]
        /\ \A x \in Sessions \ {s} : accepted'[x] = accepted[x]
    BY <1>1, <1>2, <1>4 DEF IndInv, TypeOK
  <1>8. /\ tx'[r].pc = "done"
        /\ \A q \in Requests : tx[q].pc = "done" => tx'[q].pc = "done"
        /\ \A x \in Sessions : r \notin handed[x] /\ r \notin accepted[x]
    BY <1>1, CommitsOnce
  <1>9. tx[s].pc = "done" /\ old.born > 0 /\ old # NoRow
    <2>1. old # NoRow
      <3>1. NoRow.jti = NoToken
        BY DEF NoRow
      <3>2. old.jti # NoToken
        BY <1>2, <1>3
      <3> QED
        BY <3>1, <3>2
    <2> QED
      BY <1>2, <2>1 DEF IndInv, RowsOK
  <1> HIDE DEF rotated, new, s, old
  <1>10. RowsOK'
    <2>1. \A x \in Sessions : \A t \in handed'[x] : tx'[t].pc = "done"
      BY <1>3, <1>6, <1>8 DEF IndInv, RowsOK, TypeOK, Tokens
    <2>2. \A x \in Sessions \ {s} :
            \/ sess'[x] = NoRow /\ handed'[x] = {} /\ accepted'[x] = {}
            \/ sess'[x].jti \in Tokens /\ sess'[x].born > 0 /\ tx'[x].pc = "done"
      BY <1>5, <1>6, <1>7, <1>8 DEF IndInv, RowsOK, Sessions
    <2>3. sess'[s].jti \in Tokens /\ sess'[s].born > 0 /\ tx'[s].pc = "done"
      BY <1>2, <1>4, <1>5, <1>8, <1>9 DEF Sessions
    <2> QED
      BY <2>1, <2>2, <2>3 DEF RowsOK
  <1>11. TokensAccounted'
    <2>1. handed[s] = accepted[s] \cup {old.jti} /\ old.jti \notin accepted[s]
      BY <1>2, <1>9 DEF IndInv, TokensAccounted, old
    <2>2. handed'[s] = accepted'[s] \cup {sess'[s].jti} /\ sess'[s].jti \notin accepted'[s]
      <3>1. CASE rotated
        <4>1. r # old.jti
          BY <1>2, <1>8, <2>1
        <4> QED
          BY <1>2, <1>4, <1>5, <1>6, <1>7, <1>8, <2>1, <3>1, <4>1
      <3>2. CASE ~rotated
        BY <1>4, <1>5, <1>6, <1>7, <2>1, <3>2
      <3> QED BY <3>1, <3>2
    <2> QED
      BY <1>5, <1>6, <1>7, <2>2 DEF IndInv, TokensAccounted
  <1>12. ASSUME NEW x \in Sessions, Active(x)' PROVE Active(x)
    BY <1>2, <1>3, <1>4, <1>5, <1>12 DEF Active, old
  <1>13. PasswordEndsSessions'
    BY <1>1, <1>4, <1>5, <1>12 DEF IndInv, PasswordEndsSessions, Active, old
  <1>14. /\ \A x \in Sessions : sess'[x] # sess[x] => x \in tx[r].rows
         /\ \A x \in Sessions : sess[x].jti # NoToken => sess'[x].jti # NoToken
         /\ \A x \in Sessions : sess[x].revoked # "no" => sess'[x].revoked # "no"
    BY <1>2, <1>3, <1>4, <1>5 DEF old
  <1> QED
    BY <1>1, <1>5, <1>6, <1>7, <1>10, <1>11, <1>12, <1>13, <1>14, CommitStep DEF IndInv, TypeOK

\* The commit of a bulk UPDATE revokes the rows it holds, all of them active until now,
\* and leaves every other row alone.
LEMMA BulkWrite ==
    ASSUME NEW r \in Requests, IndInv, Finish(r), tx[r].op \in BulkOps, NEW reason \in Reasons,
           sess' = RevokedRows(r, reason), UNCHANGED <<expired, handed, accepted>>
    PROVE  /\ sess' \in [Sessions -> Rows] /\ reason # "no"
           /\ tx[r].rows \subseteq Sessions
           /\ \A s \in tx[r].rows :
                Active(s) /\ sess'[s] = [sess[s] EXCEPT !.revoked = reason]
                          /\ sess'[s].jti = sess[s].jti /\ sess'[s].born = sess[s].born
                          /\ sess'[s].revoked = reason
           /\ \A s \in Sessions \ tx[r].rows : sess'[s] = sess[s]
           /\ RowsOK' /\ TokensAccounted'
  <1>1. tx[r] \in TxStates /\ TxOK(r) /\ reason # "no" /\ sess \in [Sessions -> Rows]
    BY DEF IndInv, TypeOK, Reasons
  <1>2. tx[r].rows \subseteq Sessions /\ \A s \in tx[r].rows : Active(s)
    BY <1>1 DEF TxStates, TxOK, BulkOK
  <1>3. \A s \in Sessions :
          /\ [sess[s] EXCEPT !.revoked = reason] \in Rows
          /\ [sess[s] EXCEPT !.revoked = reason].jti = sess[s].jti
          /\ [sess[s] EXCEPT !.revoked = reason].born = sess[s].born
          /\ [sess[s] EXCEPT !.revoked = reason].revoked = reason
    BY <1>1 DEF Rows
  <1>4. /\ \A s \in tx[r].rows : sess'[s] = [sess[s] EXCEPT !.revoked = reason]
        /\ \A s \in Sessions \ tx[r].rows : sess'[s] = sess[s]
    BY <1>2 DEF RevokedRows
  <1>5. sess' \in [Sessions -> Rows]
    <2>1. sess' = [s \in Sessions |-> IF s \in tx[r].rows
                                      THEN [sess[s] EXCEPT !.revoked = reason] ELSE sess[s]]
      BY DEF RevokedRows
    <2> QED
      BY <1>1, <1>3, <2>1
  <1>6. \A s \in Sessions : sess'[s].jti = sess[s].jti /\ sess'[s].born = sess[s].born
    BY <1>2, <1>3, <1>4
  <1>7. /\ tx'[r].pc = "done"
        /\ \A q \in Requests : tx[q].pc = "done" => tx'[q].pc = "done"
    BY CommitsOnce
  <1>8. \A s \in tx[r].rows : sess[s] # NoRow
    BY <1>2 DEF Active, NoRow
  <1>9. RowsOK'
    BY <1>2, <1>4, <1>6, <1>7, <1>8 DEF IndInv, RowsOK, TypeOK, Sessions, Tokens
  <1>10. TokensAccounted'
    BY <1>2, <1>4, <1>6, <1>8 DEF IndInv, TokensAccounted
  <1> QED
    BY <1>1, <1>2, <1>3, <1>4, <1>5, <1>9, <1>10

\* revoke_all ends the sessions its UPDATE holds.
LEMMA CommitRevokeAllInv ==
    ASSUME NEW r \in Requests, IndInv, CommitRevokeAll(r)
    PROVE  IndInv'
  <1>1. /\ Finish(r) /\ tx[r].op \in BulkOps /\ sess' = RevokedRows(r, "admin_action")
        /\ UNCHANGED <<password, expired, handed, accepted>> /\ "admin_action" \in Reasons
    BY DEF CommitRevokeAll, BulkOps, Reasons
  <1>2. /\ sess' \in [Sessions -> Rows] /\ RowsOK' /\ TokensAccounted'
        /\ \A s \in tx[r].rows : sess'[s].jti = sess[s].jti /\ sess'[s].revoked # "no"
        /\ \A s \in Sessions \ tx[r].rows : sess'[s] = sess[s]
    BY <1>1, BulkWrite DEF Reasons
  <1>3. \A s \in Sessions : Active(s)' => s \notin tx[r].rows /\ Active(s)
    BY <1>2 DEF Active
  <1>4. PasswordEndsSessions'
    BY <1>1, <1>2, <1>3 DEF IndInv, PasswordEndsSessions
  <1>5. /\ \A s \in Sessions : sess'[s] # sess[s] => s \in tx[r].rows
        /\ \A s \in Sessions : sess[s].jti # NoToken => sess'[s].jti # NoToken
        /\ \A s \in Sessions : sess[s].revoked # "no" => sess'[s].revoked # "no"
    BY <1>2
  <1> QED
    BY <1>1, <1>2, <1>3, <1>4, <1>5, CommitStep DEF IndInv, TypeOK

\* A password change holds every active session when it commits: none is left.
LEMMA ChangePasswordWrite ==
    ASSUME NEW r \in Requests, IndInv, CommitChangePassword(r)
    PROVE  /\ tx[r].acct = "update" /\ tx[r].seen = password /\ password > 0
           /\ \A s \in Sessions : Active(s) <=> s \in tx[r].rows
           /\ \A s \in Sessions : ~Active(s)'
  <1>1. /\ Finish(r) /\ tx[r].op = "change_password" /\ tx[r].pc = "commit" /\ TxOK(r)
        /\ sess' = RevokedRows(r, "password_changed") /\ "password_changed" \in Reasons
        /\ UNCHANGED <<expired, handed, accepted>>
    BY DEF CommitChangePassword, Finish, IndInv, Reasons
  <1>2. tx[r].acct = "update" /\ tx[r].seen = password /\ password > 0
    BY <1>1 DEF TxOK, AccountOK, AccountOps
  <1>3. \A s \in Sessions : Active(s) => s \in tx[r].rows
    BY <1>1 DEF TxOK, BulkOK, BulkOps, Active
  <1>4. /\ tx[r].rows \subseteq Sessions
        /\ \A s \in tx[r].rows : Active(s) /\ sess'[s].revoked # "no"
        /\ \A s \in Sessions \ tx[r].rows : sess'[s] = sess[s]
    BY <1>1, BulkWrite DEF BulkOps, Reasons
  <1>5. \A s \in Sessions : ~Active(s)'
    BY <1>3, <1>4 DEF Active
  <1> QED
    BY <1>2, <1>3, <1>4, <1>5

\* change_password sets the next password and ends every session.
LEMMA CommitChangePasswordInv ==
    ASSUME NEW r \in Requests, IndInv, CommitChangePassword(r)
    PROVE  IndInv'
  <1>1. /\ Finish(r) /\ tx[r].op \in BulkOps /\ sess' = RevokedRows(r, "password_changed")
        /\ password' = tx[r].seen + 1
        /\ UNCHANGED <<expired, handed, accepted>> /\ "password_changed" \in Reasons
    BY DEF CommitChangePassword, BulkOps, Reasons
  <1>2. tx[r].acct = "update" /\ tx[r].seen = password /\ \A s \in Sessions : ~Active(s)'
    BY ChangePasswordWrite
  <1>3. /\ sess' \in [Sessions -> Rows] /\ RowsOK' /\ TokensAccounted'
        /\ \A s \in tx[r].rows : sess'[s].jti = sess[s].jti /\ sess'[s].revoked # "no"
        /\ \A s \in Sessions \ tx[r].rows : sess'[s] = sess[s]
    BY <1>1, BulkWrite DEF Reasons
  <1>4. PasswordEndsSessions'
    BY <1>2 DEF PasswordEndsSessions
  <1>5. /\ \A s \in Sessions : sess'[s] # sess[s] => s \in tx[r].rows
        /\ \A s \in Sessions : sess[s].jti # NoToken => sess'[s].jti # NoToken
        /\ \A s \in Sessions : sess[s].revoked # "no" => sess'[s].revoked # "no"
    BY <1>3
  <1>6. password' \in Nat
    BY <1>1, <1>2 DEF IndInv, TypeOK
  <1> QED
    BY <1>1, <1>2, <1>3, <1>4, <1>5, <1>6, CommitStep DEF IndInv, TypeOK

\* The clock only moves sessions into `expired`.
LEMMA ExpireInv ==
    ASSUME NEW s \in Sessions, IndInv, Expire(s)
    PROVE  IndInv'
  <1>1. /\ UNCHANGED <<password, sess, handed, accepted, tx>>
        /\ expired' \in SUBSET Sessions
    BY DEF Expire, IndInv, TypeOK
  <1>2. TypeOK'
    BY <1>1 DEF IndInv, TypeOK
  <1>3. ASSUME NEW q \in Requests PROVE TxOK(q)'
    BY <1>1, TxKept DEF IndInv, TypeOK, Active
  <1> QED
    BY <1>1, <1>2, <1>3
    DEF IndInv, RowsExclusive, AccountExclusive, RowsOK, TokensAccounted, PasswordEndsSessions,
        Active

-----------------------------------------------------------------------------
(* Invariance *)

\* A decision to go on leaves the copy of the row as it is.
LEMMA ContinueInv ==
    ASSUME NEW r \in Requests, IndInv, tx[r].pc = "decide", NEW pc \in {"event", "bulk"},
           Continue(r, pc),
           \/ tx[r].op = "bootstrap" /\ pc = "event" /\ tx[r].seen = 0
           \/ tx[r].op = "login" /\ pc = "event" /\ tx[r].given = tx[r].seen
           \/ tx[r].op = "change_password" /\ pc = "bulk" /\ tx[r].seen > 0
    PROVE  IndInv'
  <1> DEFINE t == [tx[r] EXCEPT !.row = tx[r].row, !.pc = pc]
  <1>1. tx[r] \in TxStates /\ tx[r].row \in Rows
    BY DEF IndInv, TypeOK, TxStates
  <1>2. t = [tx[r] EXCEPT !.pc = pc]
    BY <1>1 DEF TxStates
  <1>3. tx' = [tx EXCEPT ![r] = t] /\ UNCHANGED Rest
    BY <1>2 DEF Continue
  <1> HIDE DEF t
  <1>4. t = [tx[r] EXCEPT !.row = tx[r].row, !.pc = pc]
    BY DEF t
  <1> QED
    BY <1>1, <1>3, <1>4, DecideInv

\* A refresh or a logout changes its copy.
LEMMA ChangeCopyInv ==
    ASSUME NEW r \in Requests, IndInv, DecideLogout(r) \/ DetectReuse(r) \/ Rotation(r)
    PROVE  IndInv'
  <1>1. tx[r] \in TxStates /\ tx[r].row \in Rows /\ tx[r].pc = "decide" /\ r \in Nat
    BY NAssumption
    DEF NAssumption, IndInv, TypeOK, TxStates, DecideLogout, DetectReuse, Rotation, Requests
  <1>2. CASE DecideLogout(r)
    <2> DEFINE row == Revoked(tx[r].row, "logout")
    <2>1. row \in Rows
      BY <1>1 DEF Revoked, Rows, Reasons
    <2>2. tx' = [tx EXCEPT ![r] = [tx[r] EXCEPT !.row = row, !.pc = "event"]]
      BY <1>2 DEF DecideLogout
    <2>3. UNCHANGED Rest /\ tx[r].op = "logout"
      BY <1>2 DEF DecideLogout
    <2> HIDE DEF row
    <2>4. row = Revoked(tx[r].row, "logout")
      BY DEF row
    <2> QED
      BY <1>1, <2>1, <2>2, <2>3, <2>4, DecideInv
  <1>3. CASE DetectReuse(r)
    <2> DEFINE row == [tx[r].row EXCEPT !.revoked = "refresh_reuse"]
    <2>1. row \in Rows /\ Revoked(tx[r].row, "refresh_reuse") = row
      BY <1>1, <1>3 DEF Revoked, Rows, Reasons, DetectReuse
    <2>2. tx' = [tx EXCEPT ![r] = [tx[r] EXCEPT !.row = row, !.pc = "event"]]
      BY <1>3, <2>1 DEF DetectReuse
    <2> QED
      BY <1>1, <1>3, <2>1, <2>2, DecideInv DEF DetectReuse
  <1>4. CASE Rotation(r)
    <2> DEFINE row == [tx[r].row EXCEPT !.jti = r]
    <2>1. row \in Rows
      BY <1>1 DEF Rows
    <2>2. tx' = [tx EXCEPT ![r] = [tx[r] EXCEPT !.row = row, !.pc = "event"]]
      BY <1>4 DEF Rotation
    <2> QED
      BY <1>1, <1>4, <2>1, <2>2, DecideInv DEF Rotation
  <1> QED
    BY <1>2, <1>3, <1>4

\* Every arrival preserves the invariant.
LEMMA BeginInv ==
    ASSUME NEW r \in Requests, IndInv, Begin(r)
    PROVE  IndInv'
  <1>1. CASE BeginBootstrap(r) \/ BeginChangePassword(r)
    BY <1>1, ArriveInv DEF BeginBootstrap, BeginChangePassword, Ops, Pcs
  <1>2. CASE BeginLogin(r)
    BY <1>2, BeginLoginInv
  <1>3. CASE BeginRefresh(r)
    BY <1>3, BeginRefreshInv
  <1>4. CASE BeginLogout(r) \/ BeginRevokeAll(r)
    <2>1. Sessions \subseteq Nat
      BY NAssumption DEF NAssumption, Sessions, Requests
    <2> QED
      BY <1>4, <2>1, ArriveInv DEF BeginLogout, BeginRevokeAll, Authenticated, Ops, Pcs
  <1> QED
    BY <1>1, <1>2, <1>3, <1>4 DEF Begin

\* Every decision preserves the invariant.
LEMMA DecisionInv ==
    ASSUME NEW r \in Requests, IndInv,
           \/ DecideBootstrap(r) \/ DecideLogin(r) \/ DecideChangePassword(r) \/ DecideLogout(r)
           \/ RefuseRefresh(r) \/ DetectReuse(r) \/ Rotation(r)
    PROVE  IndInv'
  <1>1. CASE Reject(r) /\ tx[r].pc = "decide"
    BY <1>1, EndInv DEF Reject
  <1>2. CASE DecideBootstrap(r)
    BY <1>1, <1>2, ContinueInv DEF DecideBootstrap
  <1>3. CASE DecideLogin(r)
    BY <1>1, <1>3, ContinueInv DEF DecideLogin
  <1>4. CASE DecideChangePassword(r)
    BY <1>1, <1>4, ContinueInv DEF DecideChangePassword
  <1>5. CASE RefuseRefresh(r)
    BY <1>1, <1>5 DEF RefuseRefresh
  <1>6. CASE DecideLogout(r) \/ DetectReuse(r) \/ Rotation(r)
    BY <1>6, ChangeCopyInv
  <1> QED
    BY <1>2, <1>3, <1>4, <1>5, <1>6

\* Every step of the system preserves the invariant.
LEMMA NextInv == IndInv /\ [Next]_vars => IndInv'
  <1> SUFFICES ASSUME IndInv, [Next]_vars PROVE IndInv'
    OBVIOUS
  <1>1. ASSUME NEW r \in Requests, Begin(r) PROVE IndInv'
    BY <1>1, BeginInv
  <1>2. ASSUME NEW r \in Requests, Step(r) PROVE IndInv'
    <2>1. CASE LockAccount(r) \/ LockSession(r) \/ InsertEvent(r)
      BY <2>1, LockAccountInv, LockSessionInv, InsertEventInv
    <2>2. CASE StartUpdate(r) \/ VisitRow(r)
      BY <2>2, StartUpdateInv, VisitRowInv
    <2>3. CASE CommitBootstrap(r) \/ CommitLogin(r) \/ CommitSession(r)
      BY <2>3, CommitBootstrapInv, CommitLoginInv, CommitSessionInv
    <2>4. CASE CommitRevokeAll(r) \/ CommitChangePassword(r)
      BY <2>4, CommitRevokeAllInv, CommitChangePasswordInv
    <2> QED
      BY <1>2, <2>1, <2>2, <2>3, <2>4, DecisionInv DEF Step
  <1>3. ASSUME NEW r \in Requests, Rollback(r) \/ BreakDeadlock(r) PROVE IndInv'
    BY <1>3, EndInv DEF Rollback, BreakDeadlock, Blockers
  <1>4. ASSUME NEW s \in Sessions, Expire(s) PROVE IndInv'
    BY <1>4, ExpireInv
  <1>5. CASE UNCHANGED vars
    <2>1. ASSUME NEW q \in Requests PROVE TxOK(q)'
      BY <1>5, TxKept DEF IndInv, TypeOK, Active, vars
    <2> QED
      BY <1>5, <2>1
      DEF vars, IndInv, TypeOK, RowsExclusive, AccountExclusive, RowsOK, TokensAccounted,
          PasswordEndsSessions, Active
  <1> QED
    BY <1>1, <1>2, <1>3, <1>4, <1>5 DEF Next

\* The inductive invariant holds in every reachable state.
THEOREM Invariance == Spec => []IndInv
    BY InitInv, NextInv, PTL DEF Spec, Safety

\* Every variable keeps its type.
THEOREM TypeCorrect == Spec => []TypeOK
  <1>1. IndInv => TypeOK
    BY DEF IndInv
  <1> QED
    BY <1>1, Invariance, PTL

\* Each token handed out is the one its row accepts or was exchanged exactly once.
THEOREM TokensOnce == Spec => []TokensAccounted
  <1>1. IndInv => TokensAccounted
    BY DEF IndInv
  <1> QED
    BY <1>1, Invariance, PTL

\* Every active session was opened with the password in force.
THEOREM PasswordHolds == Spec => []PasswordEndsSessions
  <1>1. IndInv => PasswordEndsSessions
    BY DEF IndInv
  <1> QED
    BY <1>1, Invariance, PTL

-----------------------------------------------------------------------------
(* What a step may never do *)

Commit(r) ==
    \/ CommitBootstrap(r) \/ CommitLogin(r) \/ CommitSession(r)
    \/ CommitRevokeAll(r) \/ CommitChangePassword(r)

\* Committed data changes only when a transaction commits.
LEMMA OnlyCommitsWrite ==
    ASSUME [Next]_vars
    PROVE  UNCHANGED <<password, sess, handed, accepted>> \/ \E r \in Requests : Commit(r)
  <1>1. ASSUME NEW r \in Requests, Begin(r) PROVE UNCHANGED Rest
    BY <1>1
    DEF Begin, BeginBootstrap, BeginChangePassword, BeginLogin, BeginRefresh, BeginLogout,
        BeginRevokeAll, Arrive
  <1>2. ASSUME NEW r \in Requests, Step(r) PROVE UNCHANGED Rest \/ Commit(r)
    BY <1>2
    DEF Step, Commit, LockAccount, LockSession, StartUpdate, VisitRow, InsertEvent,
        DecideBootstrap, DecideLogin, DecideChangePassword, DecideLogout, RefuseRefresh,
        DetectReuse, Rotation, Reject, Continue
  <1>3. ASSUME NEW r \in Requests, Rollback(r) \/ BreakDeadlock(r) PROVE UNCHANGED Rest
    BY <1>3 DEF Rollback, BreakDeadlock
  <1>4. ASSUME NEW s \in Sessions, Expire(s)
        PROVE  UNCHANGED <<password, sess, handed, accepted>>
    BY <1>4 DEF Expire
  <1>5. CASE UNCHANGED vars
    BY <1>5 DEF vars
  <1> QED
    BY <1>1, <1>2, <1>3, <1>4, <1>5 DEF Next, Rest

\* A commit never touches the row of a session that is revoked.
LEMMA CommitKeepsRevoked ==
    ASSUME NEW r \in Requests, IndInv, Commit(r), NEW s \in Sessions, sess[s].revoked # "no"
    PROVE  sess'[s] = sess[s]
  <1>1. CASE CommitBootstrap(r)
    BY <1>1 DEF CommitBootstrap
  <1>2. CASE CommitLogin(r)
    <2>1. sess[r] = NoRow
      BY <1>2, CommitsOnce DEF CommitLogin
    <2>2. s # r
      BY <2>1 DEF NoRow
    <2> QED
      BY <1>2, <2>2 DEF CommitLogin, IndInv, TypeOK
  <1>3. CASE CommitSession(r)
    <2>1. sess' = [sess EXCEPT ![tx[r].s] = tx[r].row]
      BY <1>3 DEF CommitSession
    <2>2. tx[r].s = s => tx[r].row = sess[s]
      BY <1>3, SessionWrite DEF Pending, Revoked
    <2> QED
      BY <2>1, <2>2 DEF IndInv, TypeOK
  <1>4. CASE CommitRevokeAll(r) \/ CommitChangePassword(r)
    <2>1. PICK reason \in Reasons : sess' = RevokedRows(r, reason)
      BY <1>4 DEF CommitRevokeAll, CommitChangePassword, Reasons
    <2>2. TxOK(r) /\ tx[r].op \in BulkOps
      BY <1>4 DEF CommitRevokeAll, CommitChangePassword, BulkOps, IndInv
    <2>3. s \notin tx[r].rows
      BY <2>2 DEF TxOK, BulkOK, Active
    <2> QED
      BY <2>1, <2>3 DEF RevokedRows
  <1> QED
    BY <1>1, <1>2, <1>3, <1>4 DEF Commit

\* No commit undoes a revocation or changes its reason, although refresh and logout
\* overwrite the whole row with a copy.
THEOREM RevocationStays == Spec => RevocationIsFinal
  <1>1. IndInv /\ [Next]_vars =>
          [\A s \in Sessions :
             sess[s].revoked # "no" => sess'[s].revoked = sess[s].revoked]_vars
    BY OnlyCommitsWrite, CommitKeepsRevoked
  <1> QED
    BY <1>1, Invariance, PTL DEF Spec, Safety, RevocationIsFinal

\* When a bulk revocation commits, every session of its snapshot is revoked, by it or by
\* a transaction that had the row before.
THEOREM BulkIsComplete == Spec => BulkRevocationComplete
  <1>1. ASSUME IndInv, [Next]_vars, NEW r \in Requests, NEW s \in tx[r].scope,
               tx[r].pc = "commit", sess' # sess \/ password' # password, tx'[r].pc = "done"
        PROVE  sess'[s].revoked # "no"
    <2>1. PICK q \in Requests : Commit(q)
      BY <1>1, OnlyCommitsWrite
    <2>2. q = r
      BY <1>1, <2>1
      DEF Commit, CommitBootstrap, CommitLogin, CommitSession, CommitRevokeAll,
          CommitChangePassword, Finish, IndInv, TypeOK
    <2>3. TxOK(r) /\ tx[r] \in TxStates
      BY <1>1 DEF IndInv, TypeOK
    <2>4. s \in Sessions /\ tx[r].op \in BulkOps
      BY <1>1, <2>3 DEF TxOK, CarriesOK, TxStates
    <2>5. CommitRevokeAll(r) \/ CommitChangePassword(r)
      BY <2>1, <2>2, <2>4
      DEF Commit, CommitBootstrap, CommitLogin, CommitSession, BulkOps
    <2>6. PICK reason \in Reasons : sess' = RevokedRows(r, reason)
      BY <2>5 DEF CommitRevokeAll, CommitChangePassword, Reasons
    <2>7. CASE s \in tx[r].rows
      <3>1. sess[s] \in Rows /\ sess'[s] = [sess[s] EXCEPT !.revoked = reason]
        BY <1>1, <2>4, <2>6, <2>7 DEF IndInv, TypeOK, RevokedRows
      <3> QED
        BY <3>1 DEF Rows, Reasons
    <2>8. CASE s \notin tx[r].rows
      <3>1. sess[s].revoked # "no"
        BY <1>1, <2>3, <2>4, <2>8 DEF TxOK, BulkOK
      <3> QED
        BY <2>4, <2>6, <2>8, <3>1 DEF RevokedRows
    <2> QED BY <2>7, <2>8
  <1>2. IndInv /\ [Next]_vars =>
          [\A r \in Requests : \A s \in tx[r].scope :
             tx[r].pc = "commit" /\ (sess' # sess \/ password' # password) /\ tx'[r].pc = "done"
                => sess'[s].revoked # "no"]_vars
    BY <1>1
  <1> QED
    BY <1>2, Invariance, PTL DEF Spec, Safety, BulkRevocationComplete

-----------------------------------------------------------------------------
(* Refinement of SessionStore *)

\* Each commit is one atomic operation of the store, or leaves it alone (a logout of a
\* session that was revoked meanwhile).
LEMMA CommitRefines ==
    ASSUME NEW r \in Requests, IndInv, Commit(r)
    PROVE  Store!Next \/ UNCHANGED <<password, sess, handed>>
  <1>1. CASE CommitBootstrap(r)
    <2>1. password = 0
      BY <1>1 DEF CommitBootstrap, Finish, IndInv, TxOK, AccountOK, AccountOps
    <2> QED
      BY <1>1, <2>1 DEF CommitBootstrap, Store!Next, Store!Bootstrap
  <1>2. CASE CommitLogin(r)
    <2>1. /\ sess[r] = NoRow /\ handed[r] = {} /\ \A s \in Sessions : r \notin handed[s]
      BY <1>2, CommitsOnce DEF CommitLogin
    <2>2. tx[r].seen = password /\ password > 0
      BY <1>2 DEF CommitLogin, Finish, IndInv, TxOK, AccountOK, AccountOps
    <2>3. Store!Login(r, r)
      BY <1>2, <2>1, <2>2
      DEF CommitLogin, Store!Login, Store!HandOut, Store!Fresh, Store!NoRow, NoRow
    <2> QED
      BY <2>3 DEF Store!Next, Sessions, Tokens
  <1>3. CASE CommitSession(r)
    <2> DEFINE s == tx[r].s
    <2>1. /\ s \in Sessions /\ sess[s].jti \in Tokens /\ sess[s] \in Rows /\ Pending(r, sess[s])
          /\ tx[r].row \in Rows
      BY <1>3, SessionWrite
    <2>2. sess[s].jti # NoToken
      BY <2>1, NAssumption DEF NAssumption, Tokens, Requests, NoToken
    <2>3. sess' = [sess EXCEPT ![s] = tx[r].row] /\ UNCHANGED password
      BY <1>3 DEF CommitSession
    <2>4. CASE tx[r].op = "refresh" /\ tx[r].row.revoked = "no"
      <3>1. tx[r].row = [sess[s] EXCEPT !.jti = r] /\ sess[s].revoked = "no"
        BY <2>1, <2>4 DEF Pending, Rows
      <3>2. \A x \in Sessions : r \notin handed[x]
        BY <1>3, CommitsOnce DEF CommitSession
      <3>3. handed' = [handed EXCEPT ![s] = handed[s] \cup {r}]
        BY <1>3, <2>4 DEF CommitSession
      <3>4. Store!Rotate(s, r)
        BY <2>2, <2>3, <3>1, <3>2, <3>3
        DEF Store!Rotate, Store!Active, Store!HandOut, Store!Fresh
      <3> QED
        BY <2>1, <3>4 DEF Store!Next, Tokens
    <2>5. CASE ~(tx[r].op = "refresh" /\ tx[r].row.revoked = "no")
      <3>1. UNCHANGED handed
        BY <1>3, <2>5 DEF CommitSession
      <3>2. CASE sess[s].revoked # "no"
        <4>1. tx[r].row = sess[s]
          BY <2>1, <3>2 DEF Pending, Revoked
        <4> QED
          BY <2>3, <3>1, <4>1 DEF IndInv, TypeOK
      <3>3. CASE sess[s].revoked = "no"
        <4>1. PICK reason \in {"logout", "refresh_reuse"} :
                tx[r].row = [sess[s] EXCEPT !.revoked = reason]
          BY <2>1, <2>5, <3>3 DEF Pending, Revoked, Rows
        <4>2. Store!Revoke(s, reason)
          BY <2>2, <2>3, <3>1, <3>3, <4>1 DEF Store!Revoke, Store!Active
        <4> QED
          BY <2>1, <4>2 DEF Store!Next
      <3> QED BY <3>2, <3>3
    <2> QED BY <2>4, <2>5
  <1>4. CASE CommitRevokeAll(r)
    <2> DEFINE spared == Sessions \ tx[r].rows
    <2>1. /\ Finish(r) /\ tx[r].op \in BulkOps /\ sess' = RevokedRows(r, "admin_action")
          /\ UNCHANGED <<password, expired, handed, accepted>> /\ "admin_action" \in Reasons
      BY <1>4 DEF CommitRevokeAll, BulkOps, Reasons
    <2>2. tx[r].rows \subseteq Sessions /\ \A s \in tx[r].rows : Active(s)
      BY <2>1, BulkWrite
    <2>3. Store!RevokeAll(spared)
      BY <2>1, <2>2 DEF RevokedRows, Store!RevokeAll, Store!Active, Active
    <2> QED
      BY <2>3 DEF Store!Next
  <1>5. CASE CommitChangePassword(r)
    <2>1. /\ tx[r].seen = password /\ password > 0
          /\ \A s \in Sessions : Active(s) <=> s \in tx[r].rows
      BY <1>5, ChangePasswordWrite
    <2>2. Store!ChangePassword
      BY <1>5, <2>1 DEF CommitChangePassword, RevokedRows, Store!ChangePassword, Store!Active, Active
    <2> QED
      BY <2>2 DEF Store!Next
  <1> QED
    BY <1>1, <1>2, <1>3, <1>4, <1>5 DEF Commit

\* The row locks make every operation atomic: whoever looks at committed rows sees the
\* behaviour of SessionStore.
THEOREM Refinement == Spec => ImplementsStore
  <1>1. Init => Store!Init
    BY DEF Init, Store!Init, NoRow, Store!NoRow
  <1>2. IndInv /\ [Next]_vars => [Store!Next]_<<password, sess, handed>>
    BY OnlyCommitsWrite, CommitRefines
  <1> QED
    BY <1>1, <1>2, Invariance, PTL DEF Spec, Safety, ImplementsStore, Store!Spec
=============================================================================
