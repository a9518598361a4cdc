----------------------------- MODULE SessionStore -----------------------------
(***************************************************************************)
(* What the session tables promise to everyone who looks at committed      *)
(* rows: a login starts a family with its first token pair, a refresh      *)
(* replaces the pair by the next one, a revocation is final, and a new     *)
(* password ends every session in the step that changes the credential.    *)
(* Every operation is one step here; AuthSessions has the row locks and    *)
(* the transactions that implement it.                                     *)
(***************************************************************************)
EXTENDS Naturals

CONSTANTS
    Sessions,  \* identifiers of sessions (one refresh-token family each)
    Tokens,    \* token pairs; refresh and CSRF token are always drawn together
    NoToken

VARIABLES
    password,  \* how often the password has been set; 0 before the bootstrap
    sess,      \* sess[s]: the committed row of a session
    handed     \* handed[s]: the token pairs handed out for s

\* No row: nothing was handed out for this identifier yet.
NoRow == [jti |-> NoToken, born |-> 0, revoked |-> "no"]

\* is_active, apart from the expiry, which depends on the clock alone.
Active(s) == sess[s].jti # NoToken /\ sess[s].revoked = "no"

Init ==
    /\ password = 0
    /\ sess = [s \in Sessions |-> NoRow]
    /\ handed = [s \in Sessions |-> {}]

-----------------------------------------------------------------------------

Bootstrap ==
    /\ password = 0
    /\ password' = 1
    /\ UNCHANGED <<sess, handed>>

\* A token pair nobody was given before.
Fresh(t) == \A s \in Sessions : t \notin handed[s]

HandOut(s, t) == Fresh(t) /\ handed' = [handed EXCEPT ![s] = @ \cup {t}]

Login(s, t) ==
    /\ password > 0
    /\ sess[s] = NoRow
    /\ HandOut(s, t)
    /\ sess' = [sess EXCEPT ![s] = [jti |-> t, born |-> password, revoked |-> "no"]]
    /\ UNCHANGED password

Rotate(s, t) ==
    /\ Active(s)
    /\ HandOut(s, t)
    /\ sess' = [sess EXCEPT ![s].jti = t]
    /\ UNCHANGED password

Revoke(s, reason) ==
    /\ Active(s)
    /\ sess' = [sess EXCEPT ![s].revoked = reason]
    /\ UNCHANGED <<password, handed>>

\* Sessions whose login overlaps the revocation may be spared by it.
RevokeAll(spared) ==
    /\ sess' = [s \in Sessions |->
                  IF Active(s) /\ s \notin spared
                  THEN [sess[s] EXCEPT !.revoked = "admin_action"] ELSE sess[s]]
    /\ UNCHANGED <<password, handed>>

ChangePassword ==
    /\ password > 0
    /\ password' = password + 1
    /\ sess' = [s \in Sessions |->
                  IF Active(s) THEN [sess[s] EXCEPT !.revoked = "password_changed"]
                  ELSE sess[s]]
    /\ UNCHANGED handed

Next ==
    \/ Bootstrap
    \/ \E s \in Sessions, t \in Tokens : Login(s, t) \/ Rotate(s, t)
    \/ \E s \in Sessions, reason \in {"logout", "refresh_reuse"} : Revoke(s, reason)
    \/ \E spared \in SUBSET Sessions : RevokeAll(spared)
    \/ ChangePassword

Spec == Init /\ [][Next]_<<password, sess, handed>>
=============================================================================
