--------------------------- MODULE AuthClientProofs ---------------------------
(***************************************************************************)
(* Proofs about AuthClient, for any number of tabs, calls, expiries and    *)
(* losses.                                                                 *)
(*                                                                         *)
(* Both results follow a token pair through its life.  A pair is fresh     *)
(* when the server hands it out, so until its answer is delivered nobody   *)
(* can use it; it enters the jar once; and only a refresh that carries the *)
(* current pair of a session replaces it.                                  *)
(***************************************************************************)
EXTENDS AuthClient, TLAPS

Rows == [jti : {NoToken} \cup Tokens, born : Nat, revoked : {"no", "logout"}]

\* The types of the session store and of the history variables.
StoreOK ==
    /\ password \in Nat
    /\ sess \in [Sessions -> Rows]
    /\ handed \in [Sessions -> SUBSET Tokens]
    /\ losses \in Nat /\ collided \in BOOLEAN /\ needless \in BOOLEAN

\* A pair belongs to one session, which has a row.
HandedOnce ==
    /\ \A s, u \in Sessions : \A p \in handed[s] : p \in handed[u] => s = u
    /\ \A s \in Sessions : sess[s].jti = NoToken => handed[s] = {}

Handed(p) == \E s \in Sessions : p \in handed[s]

\* The browser only has pairs that the server handed out.
PairsAreHanded ==
    /\ jar # NoToken => Handed(jar)
    /\ \A c \in Calls : call[c].pair # NoToken => Handed(call[c].pair)
    /\ \A c \in Calls : ref[c].pc # "none" => Handed(ref[c].pair)

\* A call belongs to a tab and carries the header of its cookies.
CallsOK ==
    \A c \in Calls :
        /\ call[c].pc \notin {"new", "done"} => call[c].tab \in Tabs
        /\ call[c].csrf = call[c].pair

\* A refresh that is in flight is the one its tab shares.
RefreshOwned ==
    \A c \in Calls : ref[c].pc # "none" =>
        /\ call[c].pc = "waiting" /\ call[c].on = c
        /\ active[call[c].tab] = c

-----------------------------------------------------------------------------

\* An active session has moved on from a pair only because the access token had
\* expired or the refresh was needless.
Superseded ==
    \A s \in Sessions : \A p \in handed[s] :
        (Store!Active(s) /\ p # sess[s].jti) => p \in stale \/ needless

\* The same of a refresh that may yet move it on.
Superseding ==
    \A c \in Calls, s \in Sessions :
        (ref[c].pc = "sent" /\ ref[c].pair \in handed[s] /\ Store!Active(s)) =>
            ref[c].pair \in stale \/ needless

-----------------------------------------------------------------------------

\* The pair of an answer that has not been delivered: the session's current one, and
\* nowhere in the browser.
Undelivered(p) ==
    /\ Handed(p)
    /\ \A s \in Sessions : p \in handed[s] => sess[s].jti = p
    /\ jar # p
    /\ \A d \in Calls : ref[d].pc # "none" => ref[d].pair # p

AnswersFresh ==
    \A c \in Calls :
        /\ ref[c].pc = "answered" /\ ref[c].status = 200 => Undelivered(c)
        /\ call[c].pc = "answered" /\ call[c].kind = "login" /\ call[c].status = 200 =>
              Undelivered(N + c)

Undisturbed == losses = 0 /\ ~collided

\* Without losses and collisions: the jar lags behind its session only while the answer
\* of its refresh is under way,
JarCurrent ==
    \A s \in Sessions : (jar \in handed[s] /\ Store!Active(s) /\ jar # sess[s].jti) =>
        \E c \in Calls : ref[c].pc = "answered" /\ ref[c].status = 200 /\ ref[c].pair = jar

\* no two refreshes in flight carry the same pair,
RefreshOnce ==
    \A c, d \in Calls :
        (ref[c].pc # "none" /\ ref[d].pc # "none" /\ ref[c].pair = ref[d].pair) => c = d

\* and so a refresh carries the current pair and fails only when its session is over.
RefreshCurrent ==
    \A c \in Calls, s \in Sessions :
        (ref[c].pair \in handed[s] /\ Store!Active(s)) =>
            /\ ref[c].pc = "sent" => ref[c].pair = sess[s].jti
            /\ ref[c].pc = "answered" => ref[c].status = 200

IndInv ==
    /\ TypeOK /\ StoreOK
    /\ HandedOnce /\ PairsAreHanded /\ CallsOK /\ RefreshOwned
    /\ Superseded /\ Superseding /\ ForbiddenMeansOvertaken
    /\ AnswersFresh
    /\ Undisturbed => JarCurrent /\ RefreshOnce /\ RefreshCurrent

-----------------------------------------------------------------------------
(* Facts used throughout *)

\* The numbering of calls, pairs and sessions.
LEMMA Numbers ==
    /\ N \in Nat
    /\ Calls \subseteq Nat \ {0} /\ Calls \subseteq Sessions /\ Calls \subseteq Tokens
    /\ NoToken \notin Tokens /\ 0 \notin Calls
    /\ \A c \in Calls : N + c \in Tokens /\ N + c \notin Calls
    /\ \A c, d \in Calls : N + c = N + d => c = d
  BY BoundsAssumption DEF BoundsAssumption, Calls, Tokens, Sessions, NoToken

\* A pair that was handed out belongs to SessionOf of it, and to no other session.
LEMMA SessionOfPair ==
    ASSUME IndInv, NEW p, Handed(p)
    PROVE  /\ SessionOf(p) \in Sessions /\ p \in handed[SessionOf(p)]
           /\ p \in Tokens /\ p # NoToken
           /\ \A s \in Sessions : p \in handed[s] => s = SessionOf(p)
  <1>1. SessionOf(p) \in Sessions /\ p \in handed[SessionOf(p)]
    BY Zenon DEF Handed, SessionOf
  <1>2. \A s \in Sessions : p \in handed[s] => s = SessionOf(p)
    BY <1>1 DEF IndInv, HandedOnce
  <1>3. p \in Tokens /\ p # NoToken
    BY <1>1, Numbers DEF IndInv, StoreOK
  <1> QED
    BY <1>1, <1>2, <1>3

\* The record of a call that is not under way.
LEMMA NoCallOK ==
    ASSUME NEW pc \in {"new", "done"}
    PROVE  /\ NoCall(pc) \in CallStates /\ NoCall(pc).pc = pc
           /\ NoCall(pc).csrf = NoToken /\ NoCall(pc).pair = NoToken /\ NoCall(pc).status = 0
  BY DEF NoCall, CallStates, Kinds, Statuses

\* A call that is not waiting has no refresh of its own in flight.
LEMMA NoOwnRefresh ==
    ASSUME IndInv, NEW c \in Calls, call[c].pc # "waiting"
    PROVE  ref[c].pc = "none"
  BY DEF IndInv, RefreshOwned

-----------------------------------------------------------------------------
(* Steps that change one call *)

\* What a step leaves alone that only changes a call, a tab and the count of losses.
Kept ==
    /\ UNCHANGED <<store, stale, jar, active, ref, collided, needless>>
    /\ losses' \in Nat /\ losses' >= losses
    /\ ui' \in [Tabs -> {"loading", "in", "out"}]

\* The record of a call after a step.
CallAfter(c, t) ==
    /\ t \in CallStates
    /\ t.pc \notin {"new", "done"} => t.tab \in Tabs
    /\ t.csrf = t.pair
    /\ t.pair # NoToken => Handed(t.pair)
    /\ t.status = 403 => needless
    /\ t.pc = "answered" /\ t.kind = "login" /\ t.status = 200 => Undelivered(N + c)

\* A step that changes one call, and nothing that a pair depends on.
LEMMA CallStep ==
    ASSUME IndInv, NEW c \in Calls, NEW t, CallAfter(c, t),
           call' = [call EXCEPT ![c] = t], ref[c].pc = "none", Kept
    PROVE  IndInv'
  <1>1. /\ password' = password /\ sess' = sess /\ handed' = handed /\ stale' = stale
        /\ jar' = jar /\ active' = active /\ ref' = ref
        /\ collided' = collided /\ needless' = needless
    BY DEF store, Kept
  <1>2. /\ call' \in [Calls -> CallStates] /\ call'[c] = t
        /\ \A d \in Calls \ {c} : call'[d] = call[d]
    BY DEF IndInv, TypeOK, CallAfter
  <1>3. TypeOK' /\ StoreOK'
    BY <1>1, <1>2 DEF IndInv, TypeOK, StoreOK, Kept
  <1>4. HandedOnce' /\ Superseded' /\ Superseding'
    BY <1>1 DEF IndInv, HandedOnce, Superseded, Superseding, Store!Active
  <1>5. PairsAreHanded'
    BY <1>1, <1>2 DEF IndInv, PairsAreHanded, Handed, CallAfter
  <1>6. CallsOK'
    BY <1>2 DEF IndInv, CallsOK, CallAfter
  <1>7. RefreshOwned'
    BY <1>1, <1>2 DEF IndInv, RefreshOwned
  <1>8. ForbiddenMeansOvertaken'
    BY <1>1, <1>2 DEF IndInv, ForbiddenMeansOvertaken, CallAfter
  <1>9. AnswersFresh'
    <2>1. ASSUME NEW p, Undelivered(p) PROVE Undelivered(p)'
      BY <1>1, <2>1 DEF Undelivered, Handed
    <2> QED
      BY <1>1, <1>2, <2>1 DEF IndInv, AnswersFresh, CallAfter
  <1>10. Undisturbed' => Undisturbed
    BY <1>1 DEF Undisturbed, IndInv, StoreOK, Kept
  <1>11. Undisturbed' => JarCurrent' /\ RefreshOnce' /\ RefreshCurrent'
    BY <1>1, <1>10 DEF IndInv, JarCurrent, RefreshOnce, RefreshCurrent, Store!Active
  <1> QED
    BY <1>3, <1>4, <1>5, <1>6, <1>7, <1>8, <1>9, <1>11 DEF IndInv

\* A call is sent with the cookies of the jar.
LEMMA StartInv ==
    ASSUME IndInv, NEW c \in Calls, NEW tab \in Tabs, Start(c, tab)
    PROVE  IndInv'
  <1>1. PICK kind \in Kinds :
           call' = [call EXCEPT ![c] = [Sent(c, jar, jar) EXCEPT !.kind = kind, !.tab = tab]]
    BY DEF Start, Offers, Kinds, IndInv, TypeOK
  <1> DEFINE t == [Sent(c, jar, jar) EXCEPT !.kind = kind, !.tab = tab]
  <1>2. call[c] \in CallStates /\ jar \in {NoToken} \cup Tokens
    BY DEF IndInv, TypeOK
  <1>3. /\ t \in CallStates /\ t.pc = "sent" /\ t.tab = tab /\ t.csrf = jar /\ t.pair = jar
        /\ t.status = call[c].status
    BY <1>2 DEF CallStates, Sent
  <1>4. call' = [call EXCEPT ![c] = t]
    BY <1>1
  <1> HIDE DEF t
  <1>5. jar # NoToken => Handed(jar)
    BY DEF IndInv, PairsAreHanded
  <1>6. call[c].status = 403 => needless
    BY DEF IndInv, ForbiddenMeansOvertaken
  <1>7. CallAfter(c, t)
    BY <1>3, <1>5, <1>6 DEF CallAfter
  <1>8. Kept /\ call[c].pc # "waiting"
    BY DEF Start, IndInv, TypeOK, StoreOK, Kept, store
  <1> QED
    BY <1>4, <1>7, <1>8, NoOwnRefresh, CallStep

\* A call ends: its record is that of no call.
LEMMA EndCall ==
    ASSUME IndInv, NEW c \in Calls, call' = [call EXCEPT ![c] = NoCall("done")],
           ref[c].pc = "none", Kept
    PROVE  IndInv'
  <1> DEFINE t == NoCall("done")
  <1>1. CallAfter(c, t)
    BY NoCallOK DEF CallAfter
  <1>2. call' = [call EXCEPT ![c] = t]
    OBVIOUS
  <1> HIDE DEF t
  <1> QED
    BY <1>1, <1>2, CallStep

\* A 403, a second 401, or nothing at all: the caller gets the error.
LEMMA ErrorInv ==
    ASSUME IndInv, NEW c \in Calls, ReceiveError(c) \/ Lose(c)
    PROVE  IndInv'
  <1>1. /\ losses \in Nat /\ ui \in [Tabs -> {"loading", "in", "out"}]
    BY DEF IndInv, TypeOK, StoreOK
  <1>2. losses' \in Nat /\ losses' >= losses
    BY <1>1 DEF ReceiveError, Lose
  <1>3. ui' \in [Tabs -> {"loading", "in", "out"}]
    BY <1>1 DEF ReceiveError, Lose
  <1>4. /\ call' = [call EXCEPT ![c] = NoCall("done")] /\ call[c].pc # "waiting"
        /\ UNCHANGED <<store, stale, jar, active, ref, collided, needless>>
    BY DEF ReceiveError, Lose, Answered, store
  <1>5. Kept
    BY <1>2, <1>3, <1>4 DEF Kept
  <1> QED
    BY <1>4, <1>5, NoOwnRefresh, EndCall

-----------------------------------------------------------------------------
(* Steps of the server *)

\* A pair nobody was given before is nowhere in the browser.
LEMMA FreshPair ==
    ASSUME IndInv, NEW p \in Tokens, Store!Fresh(p)
    PROVE  /\ ~Handed(p) /\ jar # p
           /\ \A d \in Calls : ref[d].pc # "none" => ref[d].pair # p
  BY Numbers DEF Store!Fresh, Handed, IndInv, PairsAreHanded

\* What the server answers, except to a login.
LEMMA ServedAs ==
    ASSUME NEW c \in Calls, Serve(c), call[c].kind # "login"
    PROVE  LET status == Authenticate(call[c].pair, call[c].csrf,
                                      call[c].kind \in {"write", "logout"})
           IN  call' = [call EXCEPT ![c] = [call[c] EXCEPT !.pc = "answered", !.status = status]]
  <1> DEFINE status == Authenticate(call[c].pair, call[c].csrf, call[c].kind \in {"write", "logout"})
  <1> HIDE DEF status
  <1> QED
    BY DEF Serve, status

\* A call is answered without effect on the session store.
LEMMA ServeCallInv ==
    ASSUME IndInv, NEW c \in Calls, Serve(c), UNCHANGED store, call[c].kind # "login"
    PROVE  IndInv'
  <1> DEFINE status == Authenticate(call[c].pair, call[c].csrf, call[c].kind \in {"write", "logout"})
             t == [call[c] EXCEPT !.pc = "answered", !.status = status]
  <1>1. /\ call[c].pc = "sent" /\ call[c] \in CallStates /\ call[c].tab \in Tabs
        /\ call[c].csrf = call[c].pair
        /\ call[c].pair # NoToken => Handed(call[c].pair)
    BY DEF Serve, IndInv, TypeOK, CallsOK, PairsAreHanded
  <1>2. status \in Statuses
    BY DEF Authenticate, Statuses
  <1>3. ASSUME status = 403 PROVE needless
    <2> DEFINE p == call[c].pair
    <2>1. /\ p # NoToken /\ p \notin stale /\ Store!Active(SessionOf(p))
          /\ p # sess[SessionOf(p)].jti
      BY <1>1, <1>3 DEF Authenticate
    <2> HIDE DEF p
    <2>2. SessionOf(p) \in Sessions /\ p \in handed[SessionOf(p)]
      BY <1>1, <2>1, SessionOfPair DEF p
    <2> QED
      BY <2>1, <2>2 DEF IndInv, Superseded
  <1> HIDE DEF status
  <1>4. /\ t \in CallStates /\ t.pc = "answered" /\ t.tab = call[c].tab /\ t.kind = call[c].kind
        /\ t.csrf = call[c].csrf /\ t.pair = call[c].pair /\ t.status = status
    BY <1>1, <1>2 DEF CallStates
  <1>5. call' = [call EXCEPT ![c] = t]
    BY DEF Serve, status
  <1> HIDE DEF t
  <1>6. CallAfter(c, t)
    BY <1>1, <1>3, <1>4 DEF CallAfter
  <1>7. Kept
    BY DEF Serve, Kept, IndInv, TypeOK, StoreOK
  <1> QED
    BY <1>1, <1>5, <1>6, <1>7, NoOwnRefresh, CallStep

\* A login hands out a pair that nobody has yet.
LEMMA ServeLoginInv ==
    ASSUME IndInv, NEW c \in Calls, Serve(c), Store!Login(c, N + c), call[c].kind = "login"
    PROVE  IndInv'
  <1> DEFINE p == N + c
             t == [call[c] EXCEPT !.pc = "answered", !.status = 200]
  <1>1. /\ call[c].pc = "sent" /\ call[c] \in CallStates /\ call[c].tab \in Tabs
        /\ call[c].csrf = call[c].pair
        /\ stale' = stale /\ jar' = jar /\ ui' = ui /\ active' = active /\ ref' = ref
        /\ losses' = losses /\ collided' = collided /\ needless' = needless
    BY DEF Serve, IndInv, TypeOK, CallsOK
  <1>2. /\ t \in CallStates /\ t.pc = "answered" /\ t.tab = call[c].tab /\ t.kind = "login"
        /\ t.csrf = t.pair /\ t.pair = call[c].pair /\ t.status = 200
    <2>1. 200 \in Statuses
      BY DEF Statuses
    <2>2. /\ t \in CallStates /\ t.pc = "answered" /\ t.tab = call[c].tab /\ t.kind = call[c].kind
          /\ t.csrf = call[c].csrf /\ t.pair = call[c].pair /\ t.status = 200
      BY <1>1, <2>1 DEF CallStates
    <2> QED
      BY <1>1, <2>2
  <1>3. call' = [call EXCEPT ![c] = t]
    BY DEF Serve
  <1> HIDE DEF t
  <1>4. /\ call' \in [Calls -> CallStates] /\ call'[c] = t
        /\ \A d \in Calls \ {c} : call'[d] = call[d]
    BY <1>2, <1>3 DEF IndInv, TypeOK
  <1>5. /\ p \in Tokens /\ p # NoToken /\ c \in Sessions /\ Store!Fresh(p)
    BY Numbers DEF Store!Login, Store!HandOut
  <1> HIDE DEF p
  <1>6. /\ ~Handed(p) /\ jar # p /\ \A d \in Calls : ref[d].pc # "none" => ref[d].pair # p
    BY <1>5, FreshPair
  <1>7. sess[c].jti = NoToken /\ handed[c] = {}
    BY <1>5 DEF Store!Login, Store!NoRow, IndInv, HandedOnce
  <1>8. /\ sess' = [sess EXCEPT ![c] = [jti |-> p, born |-> password, revoked |-> "no"]]
        /\ handed' = [handed EXCEPT ![c] = @ \cup {p}] /\ password' = password
    BY DEF Store!Login, Store!HandOut, p
  <1>9. StoreOK'
    BY <1>1, <1>5, <1>8 DEF IndInv, StoreOK, Rows
  <1>10. /\ handed'[c] = {p} /\ sess'[c].jti = p
         /\ \A s \in Sessions \ {c} : handed'[s] = handed[s] /\ sess'[s] = sess[s]
    BY <1>5, <1>7, <1>8 DEF IndInv, StoreOK
  <1>11. TypeOK'
    BY <1>1, <1>4 DEF IndInv, TypeOK
  <1>12. HandedOnce'
    BY <1>5, <1>6, <1>10 DEF IndInv, HandedOnce, Handed
  <1>13. \A q : Handed(q) => Handed(q)' /\ q # p
    BY <1>6, <1>7, <1>10 DEF Handed
  <1>14. PairsAreHanded'
    BY <1>1, <1>2, <1>4, <1>13 DEF IndInv, PairsAreHanded
  <1>15. CallsOK' /\ RefreshOwned'
    BY <1>1, <1>2, <1>4 DEF IndInv, CallsOK, RefreshOwned
  <1>16. Superseded' /\ Superseding'
    BY <1>1, <1>6, <1>10 DEF IndInv, Superseded, Superseding, Store!Active
  <1>17. ForbiddenMeansOvertaken'
    BY <1>1, <1>2, <1>4 DEF IndInv, ForbiddenMeansOvertaken
  <1>18. AnswersFresh'
    <2>1. ASSUME NEW q, Undelivered(q) PROVE Undelivered(q)'
      <3>1. Handed(q)' /\ q # p
        BY <1>13, <2>1 DEF Undelivered
      <3> QED
        BY <1>1, <1>10, <2>1, <3>1 DEF Undelivered
    <2>2. Undelivered(p)'
      <3>1. Handed(p)'
        BY <1>5, <1>10 DEF Handed
      <3>2. \A s \in Sessions : p \in handed'[s] => sess'[s].jti = p
        BY <1>6, <1>10 DEF Handed
      <3> QED
        BY <1>1, <1>6, <3>1, <3>2 DEF Undelivered
    <2> QED
      BY <1>1, <1>4, <2>1, <2>2 DEF IndInv, AnswersFresh, p
  <1>19. Undisturbed' => JarCurrent' /\ RefreshOnce' /\ RefreshCurrent'
    <2> SUFFICES ASSUME Undisturbed' PROVE JarCurrent' /\ RefreshOnce' /\ RefreshCurrent'
      OBVIOUS
    <2>1. JarCurrent /\ RefreshOnce /\ RefreshCurrent
      BY <1>1 DEF Undisturbed, IndInv
    <2>2. JarCurrent'
      BY <1>1, <1>6, <1>10, <2>1 DEF JarCurrent, Store!Active
    <2>3. RefreshOnce'
      BY <1>1, <2>1 DEF RefreshOnce
    <2>4. RefreshCurrent'
      BY <1>1, <1>6, <1>10, <2>1 DEF RefreshCurrent, Store!Active
    <2> QED
      BY <2>2, <2>3, <2>4
  <1> QED
    BY <1>9, <1>11, <1>12, <1>14, <1>15, <1>16, <1>17, <1>18, <1>19 DEF IndInv

\* A logout ends a session.
LEMMA ServeLogoutInv ==
    ASSUME IndInv, NEW c \in Calls, Serve(c), call[c].kind = "logout",
           NEW u \in Sessions, Store!Revoke(u, "logout"),
           Authenticate(call[c].pair, call[c].csrf, call[c].kind \in {"write", "logout"}) = 200
    PROVE  IndInv'
  <1> DEFINE status == Authenticate(call[c].pair, call[c].csrf, call[c].kind \in {"write", "logout"})
             t == [call[c] EXCEPT !.pc = "answered", !.status = status]
  <1>0. status = 200
    OBVIOUS
  <1>1. /\ call[c].pc = "sent" /\ call[c] \in CallStates /\ call[c].tab \in Tabs
        /\ call[c].csrf = call[c].pair
        /\ stale' = stale /\ jar' = jar /\ ui' = ui /\ active' = active /\ ref' = ref
        /\ losses' = losses /\ collided' = collided /\ needless' = needless
    BY DEF Serve, IndInv, TypeOK, CallsOK
  <1>2. /\ t \in CallStates /\ t.pc = "answered" /\ t.tab = call[c].tab /\ t.kind = "logout"
        /\ t.csrf = t.pair /\ t.pair = call[c].pair /\ t.status = 200
    <2>1. status \in Statuses
      BY <1>0 DEF Statuses
    <2> HIDE DEF status
    <2>2. /\ t \in CallStates /\ t.pc = "answered" /\ t.tab = call[c].tab /\ t.kind = call[c].kind
          /\ t.csrf = call[c].csrf /\ t.pair = call[c].pair /\ t.status = status
      BY <1>1, <2>1 DEF CallStates
    <2> QED
      BY <1>0, <1>1, <2>2
  <1>3. call' = [call EXCEPT ![c] = t]
    BY ServedAs
  <1> HIDE DEF t
  <1>4. /\ call' \in [Calls -> CallStates] /\ call'[c] = t
        /\ \A d \in Calls \ {c} : call'[d] = call[d]
    BY <1>2, <1>3 DEF IndInv, TypeOK
  <1>5. /\ sess' = [sess EXCEPT ![u].revoked = "logout"] /\ handed' = handed
        /\ password' = password
    BY DEF Store!Revoke
  <1>6. StoreOK'
    BY <1>1, <1>5 DEF IndInv, StoreOK, Rows
  <1>7. \A s \in Sessions : sess'[s].jti = sess[s].jti /\ (Store!Active(s)' => Store!Active(s))
    BY <1>5 DEF IndInv, StoreOK, Rows, Store!Active
  <1>8. TypeOK'
    BY <1>1, <1>4 DEF IndInv, TypeOK
  <1>9. HandedOnce'
    BY <1>5, <1>7 DEF IndInv, HandedOnce
  <1>10. PairsAreHanded'
    BY <1>1, <1>2, <1>4, <1>5 DEF IndInv, PairsAreHanded, Handed
  <1>11. CallsOK' /\ RefreshOwned'
    BY <1>1, <1>2, <1>4 DEF IndInv, CallsOK, RefreshOwned
  <1>12. Superseded' /\ Superseding'
    BY <1>1, <1>5, <1>7 DEF IndInv, Superseded, Superseding
  <1>13. ForbiddenMeansOvertaken'
    BY <1>1, <1>2, <1>4 DEF IndInv, ForbiddenMeansOvertaken
  <1>14. AnswersFresh'
    <2>1. ASSUME NEW q, Undelivered(q) PROVE Undelivered(q)'
      BY <1>1, <1>5, <1>7, <2>1 DEF Undelivered, Handed
    <2> QED
      BY <1>1, <1>2, <1>4, <2>1 DEF IndInv, AnswersFresh
  <1>15. Undisturbed' => JarCurrent' /\ RefreshOnce' /\ RefreshCurrent'
    <2> SUFFICES ASSUME Undisturbed' PROVE JarCurrent' /\ RefreshOnce' /\ RefreshCurrent'
      OBVIOUS
    <2>1. JarCurrent /\ RefreshOnce /\ RefreshCurrent
      BY <1>1 DEF Undisturbed, IndInv
    <2> QED
      BY <1>1, <1>5, <1>7, <2>1 DEF JarCurrent, RefreshOnce, RefreshCurrent
  <1> QED
    BY <1>6, <1>8, <1>9, <1>10, <1>11, <1>12, <1>13, <1>14, <1>15 DEF IndInv

\* The server handles a call.
LEMMA ServeInv ==
    ASSUME IndInv, NEW c \in Calls, Serve(c)
    PROVE  IndInv'
  <1>1. CASE call[c].kind = "login"
    <2>1. Store!Login(c, N + c)
      BY <1>1 DEF Serve
    <2> QED
      BY <1>1, <2>1, ServeLoginInv
  <1>2. CASE call[c].kind # "login" /\ UNCHANGED store
    BY <1>2, ServeCallInv
  <1>3. CASE call[c].kind # "login" /\ ~UNCHANGED store
    <2> DEFINE p == call[c].pair
               status == Authenticate(p, call[c].csrf, call[c].kind \in {"write", "logout"})
    <2>1. /\ call[c].kind = "logout" /\ Store!Revoke(SessionOf(p), "logout")
          /\ status = 200
      BY <1>3 DEF Serve
    <2>2. p # NoToken
      BY <2>1 DEF Authenticate
    <2>3. SessionOf(p) \in Sessions
      BY <2>2, SessionOfPair DEF IndInv, PairsAreHanded
    <2> QED
      BY <2>1, <2>3, ServeLogoutInv
  <1> QED
    BY <1>1, <1>2, <1>3

\* A refresh is answered: with a new pair for the current one, or with an error.
LEMMA ServeRefreshInv ==
    ASSUME IndInv, NEW c \in Calls, ServeRefresh(c)
    PROVE  IndInv'
  <1> DEFINE p == ref[c].pair
             u == SessionOf(p)
             status == RefreshAnswer(p)
             t == [ref[c] EXCEPT !.pc = "answered", !.status = status]
  <1>1. /\ ref[c].pc = "sent" /\ ref[c] \in RefreshStates /\ Handed(p)
        /\ stale' = stale /\ jar' = jar /\ ui' = ui /\ active' = active /\ call' = call
        /\ losses' = losses /\ collided' = collided /\ needless' = needless
    BY DEF ServeRefresh, IndInv, TypeOK, PairsAreHanded
  <1>2. /\ u \in Sessions /\ p \in handed[u] /\ p \in Tokens
        /\ \A s \in Sessions : p \in handed[s] => s = u
    BY <1>1, SessionOfPair
  <1>3. /\ status \in {200, 401, 403}
        /\ status = 200 => Store!Active(u) /\ p = sess[u].jti
        /\ status = 401 => ~Store!Active(u)
        /\ status = 403 => p # sess[u].jti
    BY DEF RefreshAnswer
  <1>4. \/ status = 200 /\ Store!Rotate(u, c)
        \/ status # 200 /\ UNCHANGED store
    BY DEF ServeRefresh
  <1>5. ref' = [ref EXCEPT ![c] = t]
    BY DEF ServeRefresh
  <1> HIDE DEF p, u, status
  <1>6. t \in RefreshStates /\ t.pc = "answered" /\ t.pair = p /\ t.status = status
    <2>1. status \in Statuses
      BY <1>3 DEF Statuses
    <2> QED
      BY <1>1, <2>1 DEF RefreshStates, p
  <1> HIDE DEF t
  <1>7. /\ ref' \in [Calls -> RefreshStates] /\ ref'[c] = t
        /\ \A d \in Calls \ {c} : ref'[d] = ref[d]
    BY <1>5, <1>6 DEF IndInv, TypeOK
  <1>8. ref[c].pair = p
    BY DEF p
  <1>9. TypeOK' /\ CallsOK' /\ RefreshOwned' /\ ForbiddenMeansOvertaken'
    <2>1. TypeOK' /\ CallsOK' /\ ForbiddenMeansOvertaken'
      BY <1>1, <1>7 DEF IndInv, TypeOK, CallsOK, ForbiddenMeansOvertaken
    <2>2. RefreshOwned'
      BY <1>1, <1>6, <1>7 DEF IndInv, RefreshOwned
    <2> QED
      BY <2>1, <2>2
  <1>10. CASE status # 200
    <2>1. sess' = sess /\ handed' = handed /\ password' = password
      BY <1>4, <1>10 DEF store
    <2>2. StoreOK' /\ HandedOnce' /\ Superseded'
      BY <1>1, <2>1 DEF IndInv, StoreOK, HandedOnce, Superseded, Store!Active
    <2>3. PairsAreHanded'
      BY <1>1, <1>6, <1>7, <2>1 DEF IndInv, PairsAreHanded, Handed
    <2>4. Superseding'
      BY <1>1, <1>6, <1>7, <2>1 DEF IndInv, Superseding, Store!Active
    <2>5. AnswersFresh'
      <3>1. ASSUME NEW q, Undelivered(q) PROVE Undelivered(q)'
        BY <1>1, <1>6, <1>7, <1>8, <2>1, <3>1 DEF Undelivered, Handed
      <3> QED
        BY <1>1, <1>6, <1>7, <1>10, <3>1 DEF IndInv, AnswersFresh
    <2>6. ASSUME Undisturbed' PROVE JarCurrent' /\ RefreshOnce' /\ RefreshCurrent'
      <3>1. JarCurrent /\ RefreshOnce /\ RefreshCurrent
        BY <1>1, <2>6 DEF Undisturbed, IndInv
      <3>2. ~Store!Active(u)
        BY <1>1, <1>2, <1>3, <1>8, <1>10, <3>1 DEF RefreshCurrent
      <3>3. JarCurrent'
        BY <1>1, <1>7, <2>1, <3>1 DEF JarCurrent, Store!Active
      <3>4. RefreshOnce'
        BY <1>1, <1>6, <1>7, <1>8, <3>1 DEF RefreshOnce
      <3>5. RefreshCurrent'
        BY <1>2, <1>6, <1>7, <2>1, <3>1, <3>2 DEF RefreshCurrent, Store!Active
      <3> QED
        BY <3>3, <3>4, <3>5
    <2> QED
      BY <1>9, <2>2, <2>3, <2>4, <2>5, <2>6 DEF IndInv
  <1>11. CASE status = 200
    <2>0. Store!Active(u) /\ p = sess[u].jti
      BY <1>3, <1>11
    <2>1. /\ sess' = [sess EXCEPT ![u].jti = c] /\ password' = password
          /\ handed' = [handed EXCEPT ![u] = @ \cup {c}] /\ Store!Fresh(c)
      BY <1>4, <1>11 DEF Store!Rotate, Store!HandOut
    <2>2. c \in Tokens /\ c # NoToken
      BY Numbers
    <2>3. /\ ~Handed(c) /\ jar # c /\ \A d \in Calls : ref[d].pc # "none" => ref[d].pair # c
      BY <2>1, <2>2, FreshPair
    <2>4. StoreOK'
      BY <1>1, <1>2, <2>1, <2>2 DEF IndInv, StoreOK, Rows
    <2>5. /\ handed'[u] = handed[u] \cup {c} /\ sess'[u].jti = c
          /\ \A s \in Sessions \ {u} : handed'[s] = handed[s] /\ sess'[s] = sess[s]
          /\ \A s \in Sessions : Store!Active(s)' => Store!Active(s)
      BY <1>2, <2>0, <2>1, <2>2 DEF IndInv, StoreOK, Rows, Store!Active
    <2>6. HandedOnce'
      BY <1>2, <2>2, <2>3, <2>5 DEF IndInv, HandedOnce, Handed
    <2>7. \A q : Handed(q) => Handed(q)' /\ q # c
      BY <1>2, <2>3, <2>5 DEF Handed
    <2>8. PairsAreHanded'
      BY <1>1, <1>6, <1>7, <2>7 DEF IndInv, PairsAreHanded
    <2>9. Superseded'
      <3>1. p \in stale \/ needless
        BY <1>1, <1>2, <1>8, <2>0 DEF IndInv, Superseding
      <3> QED
        BY <1>1, <2>0, <2>5, <3>1 DEF IndInv, Superseded
    <2>10. Superseding'
      BY <1>1, <1>6, <1>7, <2>3, <2>5 DEF IndInv, Superseding
    <2>11. AnswersFresh'
      <3>1. ASSUME NEW q, Undelivered(q) PROVE Undelivered(q)'
        <4>1. Handed(q)' /\ q # c
          BY <2>7, <3>1 DEF Undelivered
        <4>2. p # q /\ q \notin handed[u]
          BY <1>1, <1>2, <1>8, <2>0, <3>1 DEF Undelivered
        <4> QED
          BY <1>1, <1>6, <1>7, <2>5, <3>1, <4>1, <4>2 DEF Undelivered
      <3>2. Undelivered(c)'
        <4>1. Handed(c)'
          BY <1>2, <2>5 DEF Handed
        <4>2. \A s \in Sessions : c \in handed'[s] => sess'[s].jti = c
          BY <2>3, <2>5 DEF Handed
        <4>3. p # c
          BY <1>1, <1>8, <2>3
        <4> QED
          BY <1>1, <1>6, <1>7, <2>3, <4>1, <4>2, <4>3 DEF Undelivered
      <3> QED
        BY <1>1, <1>7, <3>1, <3>2 DEF IndInv, AnswersFresh
    <2>12. ASSUME Undisturbed' PROVE JarCurrent' /\ RefreshOnce' /\ RefreshCurrent'
      <3>1. JarCurrent /\ RefreshOnce /\ RefreshCurrent
        BY <1>1, <2>12 DEF Undisturbed, IndInv
      <3>2. ASSUME NEW s \in Sessions, jar \in handed'[s], Store!Active(s)', jar # sess'[s].jti
            PROVE  \E d \in Calls : ref'[d].pc = "answered" /\ ref'[d].status = 200
                                    /\ ref'[d].pair = jar
        <4>1. CASE jar = p
          BY <1>6, <1>7, <1>11, <4>1
        <4>2. CASE jar # p
          <5>1. jar \in handed[s] /\ Store!Active(s) /\ jar # sess[s].jti
            BY <2>0, <2>3, <2>5, <3>2, <4>2
          <5>2. PICK d \in Calls : ref[d].pc = "answered" /\ ref[d].status = 200
                                   /\ ref[d].pair = jar
            BY <3>1, <5>1 DEF JarCurrent
          <5> QED
            BY <1>1, <1>7, <5>2
        <4> QED
          BY <4>1, <4>2
      <3>3. JarCurrent'
        BY <1>1, <3>2 DEF JarCurrent
      <3>4. RefreshOnce'
        BY <1>1, <1>6, <1>7, <1>8, <3>1 DEF RefreshOnce
      <3>5. ASSUME NEW d \in Calls, NEW s \in Sessions, ref'[d].pair \in handed'[s],
                   Store!Active(s)'
            PROVE  /\ ref'[d].pc = "sent" => ref'[d].pair = sess'[s].jti
                   /\ ref'[d].pc = "answered" => ref'[d].status = 200
        <4>1. CASE d = c
          BY <1>6, <1>7, <1>11, <4>1
        <4>2. CASE d # c /\ ref[d].pc # "none"
          <5>1. ref'[d] = ref[d] /\ ref[d].pair # c /\ ref[d].pair # p
            BY <1>1, <1>7, <1>8, <2>3, <3>1, <4>2 DEF RefreshOnce
          <5>2. ref[d].pair \in handed[s] /\ Store!Active(s)
            BY <2>5, <3>5, <5>1
          <5> QED
            BY <2>0, <2>5, <3>1, <5>1, <5>2 DEF RefreshCurrent
        <4>3. CASE d # c /\ ref[d].pc = "none"
          BY <1>7, <4>3
        <4> QED
          BY <4>1, <4>2, <4>3
      <3> QED
        BY <3>3, <3>4, <3>5 DEF RefreshCurrent
    <2> QED
      BY <1>9, <2>4, <2>6, <2>8, <2>9, <2>10, <2>11, <2>12 DEF IndInv
  <1> QED
    BY <1>10, <1>11

\* An access token expires.
LEMMA ExpireInv ==
    ASSUME IndInv, NEW p \in Tokens, Expire(p)
    PROVE  IndInv'
  <1>1. /\ stale' = stale \cup {p}
        /\ password' = password /\ sess' = sess /\ handed' = handed /\ jar' = jar /\ ui' = ui
        /\ active' = active /\ call' = call /\ ref' = ref
        /\ losses' = losses /\ collided' = collided /\ needless' = needless
    BY DEF Expire, store
  <1>2. TypeOK' /\ StoreOK' /\ HandedOnce' /\ PairsAreHanded' /\ CallsOK' /\ RefreshOwned'
        /\ ForbiddenMeansOvertaken'
    BY <1>1 DEF IndInv, TypeOK, StoreOK, HandedOnce, PairsAreHanded, Handed, CallsOK, RefreshOwned,
                ForbiddenMeansOvertaken
  <1>3. Superseded' /\ Superseding'
    BY <1>1 DEF IndInv, Superseded, Superseding, Store!Active
  <1>4. AnswersFresh'
    BY <1>1 DEF IndInv, AnswersFresh, Undelivered, Handed
  <1>5. Undisturbed' => JarCurrent' /\ RefreshOnce' /\ RefreshCurrent'
    BY <1>1 DEF IndInv, Undisturbed, JarCurrent, RefreshOnce, RefreshCurrent, Store!Active
  <1> QED
    BY <1>2, <1>3, <1>4, <1>5 DEF IndInv

-----------------------------------------------------------------------------
(* Steps of the browser that change the jar or a refresh *)

\* The record of a call whose answer changes the jar.
JarAfter(c, t) ==
    /\ jar' = NoToken \/ (jar' = N + c /\ Undelivered(N + c))
    /\ t \in CallStates /\ t.pc \in {"sent", "done"} /\ (t.pc = "sent" => t.tab \in Tabs)
    /\ t.csrf = t.pair /\ (t.pair = NoToken \/ t.pair = jar') /\ t.status = 0

KeptByJar ==
    /\ UNCHANGED <<store, stale, active, ref, losses>>
    /\ collided' = collided /\ needless' = needless
    /\ ui' \in [Tabs -> {"loading", "in", "out"}]

\* A successful login or logout: the jar changes with the answer.
LEMMA JarStep ==
    ASSUME IndInv, NEW c \in Calls, NEW t, JarAfter(c, t),
           call' = [call EXCEPT ![c] = t], ref[c].pc = "none", KeptByJar
    PROVE  IndInv'
  <1> DEFINE p == jar'
  <1> USE DEF JarAfter, KeptByJar
  <1>1. /\ password' = password /\ sess' = sess /\ handed' = handed /\ stale' = stale
        /\ active' = active /\ ref' = ref /\ losses' = losses
    BY DEF store
  <1>2. /\ call' \in [Calls -> CallStates] /\ call'[c] = t
        /\ \A d \in Calls \ {c} : call'[d] = call[d]
    BY DEF IndInv, TypeOK
  <1>4. p \in {NoToken} \cup Tokens
    BY Numbers
  <1>5. TypeOK' /\ StoreOK'
    BY <1>1, <1>2, <1>4 DEF IndInv, TypeOK, StoreOK
  <1>6. HandedOnce' /\ Superseded' /\ Superseding'
    BY <1>1 DEF IndInv, HandedOnce, Superseded, Superseding, Store!Active
  <1>7. PairsAreHanded'
    BY <1>1, <1>2 DEF IndInv, PairsAreHanded, Handed, Undelivered
  <1>8. CallsOK'
    BY <1>2 DEF IndInv, CallsOK
  <1>9. RefreshOwned'
    BY <1>1, <1>2 DEF IndInv, RefreshOwned
  <1>10. ForbiddenMeansOvertaken'
    BY <1>2 DEF IndInv, ForbiddenMeansOvertaken
  <1>11. AnswersFresh'
    <2>1. ASSUME NEW q, q # p, Undelivered(q) PROVE Undelivered(q)'
      BY <1>1, <2>1 DEF Undelivered, Handed
    <2>2. \A d \in Calls : d # p /\ (d # c => N + d # p)
      <3>1. p = 0 \/ p = N + c
        BY DEF NoToken
      <3>2. N \in Nat /\ Calls = 1 .. N
        BY Numbers DEF Calls
      <3> HIDE DEF p, JarAfter, KeptByJar
      <3> QED
        BY <3>1, <3>2
    <2> QED
      BY <1>1, <1>2, <2>1, <2>2 DEF IndInv, AnswersFresh
  <1>12. Undisturbed' => JarCurrent' /\ RefreshOnce' /\ RefreshCurrent'
    <2> SUFFICES ASSUME Undisturbed' PROVE JarCurrent' /\ RefreshOnce' /\ RefreshCurrent'
      OBVIOUS
    <2>1. RefreshOnce /\ RefreshCurrent
      BY <1>1 DEF IndInv, Undisturbed
    <2>2. RefreshOnce' /\ RefreshCurrent'
      BY <1>1, <2>1 DEF RefreshOnce, RefreshCurrent, Store!Active
    <2>3. \A s \in Sessions : p \in handed[s] => p = sess[s].jti
      BY Numbers DEF Undelivered, IndInv, StoreOK
    <2>4. JarCurrent'
      BY <1>1, <2>3 DEF JarCurrent
    <2> QED
      BY <2>2, <2>4
  <1> QED
    BY <1>5, <1>6, <1>7, <1>8, <1>9, <1>10, <1>11, <1>12 DEF IndInv

\* A successful answer.
LEMMA ReceiveOkInv ==
    ASSUME IndInv, NEW c \in Calls, ReceiveOk(c)
    PROVE  IndInv'
  <1>1. /\ call[c].pc = "answered" /\ call[c].status = 200 /\ call[c] \in CallStates
        /\ call[c].tab \in Tabs /\ call[c].kind \in Kinds
        /\ ui \in [Tabs -> {"loading", "in", "out"}] /\ losses \in Nat
        /\ ref[c].pc = "none"
    BY NoOwnRefresh
    DEF ReceiveOk, Answered, IndInv, TypeOK, CallsOK, CallStates, StoreOK
  <1>2. ui' \in [Tabs -> {"loading", "in", "out"}]
    BY <1>1 DEF ReceiveOk
  <1>3. /\ UNCHANGED <<store, stale, active, ref, losses>>
        /\ collided' = collided /\ needless' = needless
    BY DEF ReceiveOk, store
  <1>7. KeptByJar
    BY <1>2, <1>3 DEF KeptByJar
  <1>4. CASE call[c].kind \notin {"login", "logout"}
    <2>1. jar' = jar /\ call' = [call EXCEPT ![c] = NoCall("done")]
      BY <1>4 DEF ReceiveOk
    <2>2. Kept
      BY <1>1, <1>2, <1>3, <2>1 DEF Kept
    <2> QED
      BY <1>1, <2>1, <2>2, EndCall
  <1>5. CASE call[c].kind = "logout"
    <2> DEFINE t == NoCall("done")
    <2>1. jar' = NoToken /\ call' = [call EXCEPT ![c] = t]
      BY <1>5 DEF ReceiveOk
    <2>2. /\ t \in CallStates /\ t.pc = "done" /\ t.csrf = t.pair /\ t.pair = NoToken
          /\ t.status = 0
      BY NoCallOK
    <2> HIDE DEF t
    <2>3. JarAfter(c, t)
      BY <2>1, <2>2 DEF JarAfter
    <2> QED
      BY <1>1, <1>7, <2>1, <2>3, JarStep
  <1>6. CASE call[c].kind = "login"
    <2> DEFINE p == N + c
               t == [Sent(c, p, p) EXCEPT !.kind = "session", !.status = 0]
    <2>1. jar' = p /\ call' = [call EXCEPT ![c] = t]
      BY <1>6 DEF ReceiveOk
    <2>2. p \in Tokens /\ p # NoToken
      BY Numbers
    <2> HIDE DEF p
    <2>3. /\ t \in CallStates /\ t.pc = "sent" /\ t.csrf = p /\ t.pair = p
          /\ t.status = 0 /\ t.tab = call[c].tab
      <3>1. 0 \in Statuses /\ "session" \in Kinds
        BY DEF Statuses, Kinds
      <3> QED
        BY <1>1, <2>2, <3>1 DEF CallStates, Sent
    <2>4. Undelivered(p)
      BY <1>1, <1>6 DEF IndInv, AnswersFresh, p
    <2> HIDE DEF t
    <2>5. JarAfter(c, t)
      BY <1>1, <2>1, <2>3, <2>4 DEF JarAfter, p
    <2> QED
      BY <1>1, <1>7, <2>1, <2>5, JarStep
  <1> QED
    BY <1>4, <1>5, <1>6

\* The first 401 of a call that finds no cookie, or a refresh in flight.
LEMMA JoinRefreshInv ==
    ASSUME IndInv, NEW c \in Calls, Receive401(c), UNCHANGED <<active, ref>>,
           collided' = collided, needless' = needless
    PROVE  IndInv'
  <1> DEFINE t == [call[c] EXCEPT !.pc = "waiting", !.on = active[call[c].tab]]
  <1>1. /\ call[c].pc = "answered" /\ call[c].status = 401 /\ call[c] \in CallStates
        /\ call[c].tab \in Tabs /\ call[c].csrf = call[c].pair
        /\ call[c].pair # NoToken => Handed(call[c].pair)
        /\ ui \in [Tabs -> {"loading", "in", "out"}] /\ losses \in Nat
        /\ active[call[c].tab] \in {0} \cup Calls
        /\ ref[c].pc = "none"
    BY NoOwnRefresh
    DEF Receive401, Answered, IndInv, TypeOK, CallsOK, CallStates, StoreOK, PairsAreHanded
  <1>2. Kept
    <2>1. ui' \in [Tabs -> {"loading", "in", "out"}]
      BY <1>1 DEF Receive401, ClearTab
    <2> QED
      BY <1>1, <2>1 DEF Receive401, Kept, store
  <1>3. CASE call' = [call EXCEPT ![c] = NoCall("done")]
    BY <1>1, <1>2, <1>3, EndCall
  <1>4. CASE call' = [call EXCEPT ![c] = t]
    <2>1. /\ t \in CallStates /\ t.pc = "waiting" /\ t.tab = call[c].tab /\ t.status = call[c].status
          /\ t.csrf = call[c].csrf /\ t.pair = call[c].pair
      BY <1>1 DEF CallStates
    <2> HIDE DEF t
    <2>2. CallAfter(c, t)
      BY <1>1, <2>1 DEF CallAfter
    <2> QED
      BY <1>1, <1>2, <1>4, <2>2, CallStep
  <1>5. \/ call' = [call EXCEPT ![c] = NoCall("done")]
        \/ call' = [call EXCEPT ![c] = t]
        \/ ref' = [ref EXCEPT ![c] = [pc |-> "sent", pair |-> jar, status |-> 0]]
    BY DEF Receive401
  <1>6. CASE ref' = [ref EXCEPT ![c] = [pc |-> "sent", pair |-> jar, status |-> 0]]
    BY <1>1, <1>6 DEF IndInv, TypeOK
  <1> QED
    BY <1>3, <1>4, <1>5, <1>6

\* The first 401 of a call that starts the refresh of its tab.
LEMMA StartRefreshInv ==
    ASSUME IndInv, NEW c \in Calls, Receive401(c), ~UNCHANGED <<active, ref>>
    PROVE  IndInv'
  <1> DEFINE tab == call[c].tab
             t == [call[c] EXCEPT !.pc = "waiting", !.on = c]
             x == [pc |-> "sent", pair |-> jar, status |-> 0]
  <1>1. /\ call[c].pc = "answered" /\ call[c].status = 401 /\ call[c] \in CallStates
        /\ tab \in Tabs /\ call[c].csrf = call[c].pair
        /\ call[c].pair # NoToken => Handed(call[c].pair)
        /\ ref[c].pc = "none"
    BY NoOwnRefresh
    DEF Receive401, Answered, IndInv, TypeOK, CallsOK, CallStates, StoreOK, PairsAreHanded
  <1>2. /\ jar # NoToken /\ active[tab] = 0
        /\ call' = [call EXCEPT ![c] = t]
        /\ active' = [active EXCEPT ![tab] = c]
        /\ ref' = [ref EXCEPT ![c] = x]
        /\ ui' = ui /\ stale' = stale /\ jar' = jar /\ losses' = losses
        /\ password' = password /\ sess' = sess /\ handed' = handed
    BY DEF Receive401, Shared, store
  <1>3. /\ collided' = (collided \/ \E d \in Calls : /\ ref[d].pc # "none"
                                                       /\ ref[d].pair = jar
                                                       /\ call[d].tab # tab)
        /\ needless' = (needless \/ (jar \notin stale /\ Store!Active(SessionOf(jar))))
    BY DEF Receive401
  <1>4. /\ t \in CallStates /\ t.pc = "waiting" /\ t.tab = tab /\ t.status = call[c].status
        /\ t.csrf = call[c].csrf /\ t.pair = call[c].pair /\ t.on = c /\ t.kind = call[c].kind
    BY <1>1 DEF CallStates
  <1>5. /\ x \in RefreshStates /\ x.pc = "sent" /\ x.pair = jar
    BY DEF IndInv, TypeOK, RefreshStates, Statuses
  <1> HIDE DEF t, x, tab
  <1>6. /\ call' \in [Calls -> CallStates] /\ call'[c] = t
        /\ \A d \in Calls \ {c} : call'[d] = call[d]
    BY <1>2, <1>4 DEF IndInv, TypeOK
  <1>7. /\ ref' \in [Calls -> RefreshStates] /\ ref'[c] = x
        /\ \A d \in Calls \ {c} : ref'[d] = ref[d]
    BY <1>2, <1>5 DEF IndInv, TypeOK
  <1>8. /\ active' \in [Tabs -> {0} \cup Calls] /\ active'[tab] = c
        /\ \A u \in Tabs \ {tab} : active'[u] = active[u]
    BY <1>1, <1>2 DEF IndInv, TypeOK
  <1>9. Handed(jar)
    BY <1>2 DEF IndInv, PairsAreHanded
  <1>10. (needless => needless') /\ (collided => collided')
         /\ collided' \in BOOLEAN /\ needless' \in BOOLEAN
    BY <1>3
  <1>11. TypeOK' /\ StoreOK' /\ HandedOnce'
    BY <1>2, <1>6, <1>7, <1>8, <1>10 DEF IndInv, TypeOK, StoreOK, HandedOnce
  <1>12. PairsAreHanded'
    BY <1>1, <1>2, <1>4, <1>5, <1>6, <1>7, <1>9 DEF IndInv, PairsAreHanded, Handed
  <1>13. CallsOK'
    BY <1>1, <1>4, <1>6 DEF IndInv, CallsOK
  <1>14. ASSUME NEW d \in Calls, ref[d].pc # "none"
         PROVE  /\ d # c /\ call[d].tab # tab /\ call[d].tab \in Tabs
                /\ call[d].pc = "waiting" /\ call[d].on = d /\ active[call[d].tab] = d
    BY <1>1, <1>2, <1>14, Numbers DEF IndInv, RefreshOwned, CallsOK
  <1>15. RefreshOwned'
    BY <1>4, <1>6, <1>7, <1>8, <1>14 DEF RefreshOwned
  <1>16. Superseded'
    BY <1>2, <1>10 DEF IndInv, Superseded, Store!Active
  <1>17. \A s \in Sessions : (jar \in handed[s] /\ Store!Active(s)) => jar \in stale \/ needless'
    BY <1>3, <1>9, SessionOfPair
  <1>18. Superseding'
    BY <1>2, <1>5, <1>7, <1>10, <1>17 DEF IndInv, Superseding, Store!Active
  <1>19. ForbiddenMeansOvertaken'
    BY <1>1, <1>4, <1>6, <1>10 DEF IndInv, ForbiddenMeansOvertaken
  <1>20. AnswersFresh'
    <2>1. ASSUME NEW q, Undelivered(q) PROVE Undelivered(q)'
      BY <1>2, <1>5, <1>7, <2>1 DEF Undelivered, Handed
    <2> QED
      BY <1>4, <1>5, <1>6, <1>7, <2>1 DEF IndInv, AnswersFresh
  <1>21. ASSUME Undisturbed' PROVE JarCurrent' /\ RefreshOnce' /\ RefreshCurrent'
    <2>1. /\ ~collided /\ losses = 0
          /\ \A d \in Calls : ref[d].pc # "none" => ref[d].pair # jar
      BY <1>2, <1>3, <1>14, <1>21 DEF Undisturbed
    <2>2. JarCurrent /\ RefreshOnce /\ RefreshCurrent
      BY <2>1 DEF IndInv, Undisturbed
    <2>3. \A s \in Sessions : (jar \in handed[s] /\ Store!Active(s)) => jar = sess[s].jti
      BY <2>1, <2>2 DEF JarCurrent
    <2>4. JarCurrent'
      BY <1>2, <2>3 DEF JarCurrent, Store!Active
    <2>5. RefreshOnce'
      BY <1>5, <1>7, <2>1, <2>2 DEF RefreshOnce
    <2>6. RefreshCurrent'
      BY <1>2, <1>5, <1>7, <2>2, <2>3 DEF RefreshCurrent, Store!Active
    <2> QED
      BY <2>4, <2>5, <2>6
  <1> QED
    BY <1>11, <1>12, <1>13, <1>15, <1>16, <1>18, <1>19, <1>20, <1>21 DEF IndInv

\* The first 401 of a call.
LEMMA Receive401Inv ==
    ASSUME IndInv, NEW c \in Calls, Receive401(c)
    PROVE  IndInv'
  <1>1. CASE UNCHANGED <<active, ref>>
    <2>1. ref' = ref /\ ref[c].pc = "none" /\ ref \in [Calls -> RefreshStates]
      BY <1>1, NoOwnRefresh DEF Receive401, Answered, IndInv, TypeOK
    <2>2. ref' # [ref EXCEPT ![c] = [pc |-> "sent", pair |-> jar, status |-> 0]]
      BY <2>1
    <2>3. UNCHANGED <<collided, needless>>
      BY <2>2 DEF Receive401
    <2> QED
      BY <1>1, <2>3, JoinRefreshInv
  <1>2. CASE ~UNCHANGED <<active, ref>>
    BY <1>2, StartRefreshInv
  <1> QED
    BY <1>1, <1>2

Waits(d, c) == call[d].pc = "waiting" /\ call[d].on = c

\* What the end of a refresh does to the calls that waited for it: they are sent again
\* with the pair that is in the jar now, or fail.
CallsReleased(c) ==
    /\ call' \in [Calls -> CallStates]
    /\ \A d \in Calls : ~Waits(d, c) => call'[d] = call[d]
    /\ \A d \in Calls : Waits(d, c) =>
          /\ call'[d].pc \in {"sent", "done"} /\ (call'[d].pc = "sent" => call'[d].tab \in Tabs)
          /\ call'[d].csrf = call'[d].pair
          /\ call'[d].pair = NoToken \/ call'[d].pair = jar'
          /\ call'[d].status = 0

\* The pair of its answer is stored, or the jar stays as it is.
Delivered(c) == jar' = c /\ ref[c].pc = "answered" /\ ref[c].status = 200

NotDelivered(c) == jar' = jar /\ (losses' # 0 \/ ref[c].status # 200)

\* What it does to the rest of the browser.
RefreshEnds(c) ==
    /\ ref[c].pc # "none"
    /\ ref' = [ref EXCEPT ![c] = NoRefresh]
    /\ active' = [active EXCEPT ![call[c].tab] = 0]
    /\ ui' \in [Tabs -> {"loading", "in", "out"}]
    /\ UNCHANGED <<password, sess, handed, stale>>
    /\ collided' = collided /\ needless' = needless
    /\ losses' \in Nat /\ losses' >= losses
    /\ Delivered(c) \/ NotDelivered(c)

\* A refresh ends: its pair is delivered, or it failed, or its answer is lost.
LEMMA RefreshEndsInv ==
    ASSUME IndInv, NEW c \in Calls, RefreshEnds(c), CallsReleased(c)
    PROVE  IndInv'
  <1>1. /\ password' = password /\ sess' = sess /\ handed' = handed /\ stale' = stale
        /\ collided' = collided /\ needless' = needless /\ losses' \in Nat /\ losses' >= losses
    BY DEF RefreshEnds
  <1>2. /\ call[c].pc = "waiting" /\ call[c].on = c /\ call[c].tab \in Tabs
        /\ active[call[c].tab] = c
    BY DEF RefreshEnds, IndInv, RefreshOwned, CallsOK
  <1>3. /\ ref' \in [Calls -> RefreshStates] /\ ref'[c].pc = "none"
        /\ \A d \in Calls \ {c} : ref'[d] = ref[d]
    BY DEF RefreshEnds, IndInv, TypeOK, NoRefresh, RefreshStates, Statuses
  <1>4. /\ active' \in [Tabs -> {0} \cup Calls]
        /\ \A u \in Tabs \ {call[c].tab} : active'[u] = active[u]
    BY DEF RefreshEnds, IndInv, TypeOK
  <1>5. /\ (jar' = c /\ Undelivered(c)) \/ NotDelivered(c)
        /\ jar' = jar \/ (jar' = c /\ Undelivered(c))
        /\ jar' \in {NoToken} \cup Tokens
    <2>1. CASE Delivered(c)
      <3>1. jar' = c /\ Undelivered(c)
        BY <2>1 DEF Delivered, IndInv, AnswersFresh
      <3> QED
        BY <3>1, Numbers
    <2>2. CASE NotDelivered(c)
      <3>1. jar' = jar /\ jar \in {NoToken} \cup Tokens
        BY <2>2 DEF NotDelivered, IndInv, TypeOK
      <3> QED
        BY <2>2, <3>1
    <2> QED
      BY <2>1, <2>2 DEF RefreshEnds
  <1>6. TypeOK' /\ StoreOK'
    BY <1>1, <1>3, <1>4, <1>5 DEF IndInv, TypeOK, StoreOK, RefreshEnds, CallsReleased
  <1>7. HandedOnce' /\ Superseded'
    BY <1>1 DEF IndInv, HandedOnce, Superseded, Store!Active
  <1>8. Superseding'
    BY <1>1, <1>3 DEF IndInv, Superseding, Store!Active
  <1>9. jar' # NoToken => Handed(jar')
    BY <1>5 DEF IndInv, PairsAreHanded, Undelivered
  <1>10. PairsAreHanded'
    <2>1. \A p : Handed(p) => Handed(p)'
      BY <1>1 DEF Handed
    <2>2. jar' # NoToken => Handed(jar)'
      BY <1>1, <1>9 DEF Handed
    <2>3. ASSUME NEW d \in Calls, call'[d].pair # NoToken PROVE Handed(call[d].pair)'
      BY <1>1, <1>9, <2>3 DEF IndInv, PairsAreHanded, CallsReleased, Handed
    <2>4. ASSUME NEW d \in Calls, ref'[d].pc # "none" PROVE Handed(ref[d].pair)'
      BY <1>1, <1>3, <2>4 DEF IndInv, PairsAreHanded, Handed
    <2> QED
      BY <2>2, <2>3, <2>4 DEF PairsAreHanded
  <1>11. CallsOK'
    BY DEF IndInv, CallsOK, CallsReleased
  <1>12. RefreshOwned'
    <2> SUFFICES ASSUME NEW d \in Calls, ref'[d].pc # "none"
                 PROVE  /\ call'[d].pc = "waiting" /\ call'[d].on = d
                        /\ active'[call'[d].tab] = d
      BY DEF RefreshOwned
    <2>1. /\ d # c /\ ref[d].pc # "none" /\ call[d].pc = "waiting" /\ call[d].on = d
          /\ call[d].tab \in Tabs /\ active[call[d].tab] = d
      BY <1>3 DEF IndInv, RefreshOwned, CallsOK
    <2>2. call'[d] = call[d]
      BY <2>1 DEF CallsReleased, Waits
    <2> QED
      BY <1>2, <1>4, <2>1, <2>2
  <1>13. ForbiddenMeansOvertaken'
    BY <1>1 DEF IndInv, ForbiddenMeansOvertaken, CallsReleased
  <1>14. AnswersFresh'
    <2>1. ASSUME NEW q, q # c, Undelivered(q) PROVE Undelivered(q)'
      BY <1>1, <1>3, <1>5, <2>1 DEF Undelivered, Handed
    <2>2. \A d \in Calls : N + d # c
      BY Numbers
    <2>3. \A d \in Calls : call'[d].pc = "answered" => call'[d] = call[d]
      BY DEF CallsReleased
    <2> QED
      BY <1>3, <2>1, <2>2, <2>3 DEF IndInv, AnswersFresh
  <1>15. ASSUME Undisturbed' PROVE JarCurrent' /\ RefreshOnce' /\ RefreshCurrent'
    <2>1. losses' = 0 /\ Undisturbed
      BY <1>1, <1>15 DEF Undisturbed, IndInv, StoreOK
    <2>2. JarCurrent /\ RefreshOnce /\ RefreshCurrent
      BY <2>1 DEF IndInv
    <2>3. RefreshOnce' /\ RefreshCurrent'
      BY <1>1, <1>3, <2>2 DEF RefreshOnce, RefreshCurrent, Store!Active
    <2>4. CASE jar' = c /\ Undelivered(c)
      BY <1>1, <2>3, <2>4 DEF JarCurrent, Undelivered
    <2>5. CASE NotDelivered(c)
      <3>1. jar' = jar /\ ref[c].status # 200
        BY <2>1, <2>5 DEF NotDelivered
      <3> SUFFICES ASSUME NEW s \in Sessions, jar \in handed[s], Store!Active(s),
                          jar # sess[s].jti
                   PROVE  \E d \in Calls : /\ ref'[d].pc = "answered" /\ ref'[d].status = 200
                                           /\ ref'[d].pair = jar
        BY <1>1, <2>3, <3>1 DEF JarCurrent, Store!Active
      <3>2. PICK d \in Calls : ref[d].pc = "answered" /\ ref[d].status = 200 /\ ref[d].pair = jar
        BY <2>2 DEF JarCurrent
      <3>3. ref'[d] = ref[d]
        BY <1>3, <3>1, <3>2
      <3> QED
        BY <3>2, <3>3
    <2> QED
      BY <1>5, <2>3, <2>4, <2>5
  <1> QED
    BY <1>6, <1>7, <1>8, <1>10, <1>11, <1>12, <1>13, <1>14, <1>15 DEF IndInv

\* The record of a call that is sent again after a refresh.
LEMMA ResendOK ==
    ASSUME NEW d \in Calls, call[d] \in CallStates, NEW c \in Calls
    PROVE  LET t == [Resend(d, c) EXCEPT !.retried = TRUE, !.status = 0, !.on = 0]
           IN  /\ t \in CallStates /\ t.pc = "sent" /\ t.tab = call[d].tab
               /\ t.csrf = c /\ t.pair = c /\ t.status = 0
  <1>1. 0 \in Statuses /\ TRUE \in BOOLEAN /\ c \in {NoToken} \cup Tokens
    BY Numbers DEF Statuses
  <1> QED
    BY <1>1 DEF Resend, Sent, CallStates

\* The answer of a refresh arrives.
LEMMA SettleInv ==
    ASSUME IndInv, NEW c \in Calls, SettleRefresh(c)
    PROVE  IndInv'
  <1>1. /\ ui \in [Tabs -> {"loading", "in", "out"}] /\ losses \in Nat
        /\ \A d \in Calls : call[d] \in CallStates
    BY DEF IndInv, TypeOK, StoreOK
  <1>2. Delivered(c) \/ NotDelivered(c)
    BY DEF SettleRefresh, Delivered, NotDelivered
  <1>3. ui' \in [Tabs -> {"loading", "in", "out"}]
    BY <1>1 DEF SettleRefresh
  <1>4. RefreshEnds(c)
    <2>1. /\ ref[c].pc # "none" /\ ref' = [ref EXCEPT ![c] = NoRefresh]
          /\ active' = [active EXCEPT ![call[c].tab] = 0]
          /\ UNCHANGED <<password, sess, handed, stale>>
          /\ collided' = collided /\ needless' = needless /\ losses' = losses
      BY DEF SettleRefresh, store
    <2>2. losses' \in Nat /\ losses' >= losses
      BY <1>1, <2>1
    <2> QED
      BY <1>2, <1>3, <2>1, <2>2 DEF RefreshEnds
  <1>5. CallsReleased(c)
    <2> DEFINE Again(d) == [Resend(d, c) EXCEPT !.retried = TRUE, !.status = 0, !.on = 0]
    <2>1. ASSUME NEW d \in Calls
          PROVE  /\ Again(d) \in CallStates /\ Again(d).pc = "sent" /\ Again(d).tab = call[d].tab
                 /\ Again(d).csrf = c /\ Again(d).pair = c /\ Again(d).status = 0
      BY <1>1, ResendOK
    <2>2. call' = [d \in Calls |->
                     IF ~Waits(d, c) THEN call[d]
                     ELSE IF ref[c].status = 200 THEN Again(d) ELSE NoCall("done")]
      BY DEF SettleRefresh, Waits
    <2>3. ref[c].status = 200 => jar' = c
      BY DEF SettleRefresh
    <2>4. \A d \in Calls : Waits(d, c) => call[d].tab \in Tabs
      BY DEF Waits, IndInv, CallsOK
    <2> HIDE DEF Again
    <2>5. call' \in [Calls -> CallStates]
      BY <1>1, <2>1, <2>2, NoCallOK
    <2>6. CASE ref[c].status = 200
      BY <2>1, <2>2, <2>3, <2>4, <2>5, <2>6 DEF CallsReleased
    <2>7. CASE ref[c].status # 200
      BY <2>2, <2>5, <2>7, NoCallOK DEF CallsReleased
    <2> QED
      BY <2>6, <2>7
  <1> QED
    BY <1>4, <1>5, RefreshEndsInv

\* A refresh request or its answer is lost.
LEMMA LoseRefreshInv ==
    ASSUME IndInv, NEW c \in Calls, LoseRefresh(c)
    PROVE  IndInv'
  <1>1. /\ ui \in [Tabs -> {"loading", "in", "out"}] /\ losses \in Nat
        /\ \A d \in Calls : call[d] \in CallStates
    BY DEF IndInv, TypeOK, StoreOK
  <1>2. losses' \in Nat /\ losses' >= losses /\ losses' # 0
    BY <1>1 DEF LoseRefresh
  <1>3. ui' \in [Tabs -> {"loading", "in", "out"}]
    BY <1>1 DEF LoseRefresh
  <1>4. NotDelivered(c)
    BY <1>2 DEF LoseRefresh, NotDelivered
  <1>5. RefreshEnds(c)
    BY <1>2, <1>3, <1>4 DEF LoseRefresh, RefreshEnds, store
  <1>6. CallsReleased(c)
    <2>1. call' = [d \in Calls |-> IF Waits(d, c) THEN NoCall("done") ELSE call[d]]
      BY DEF LoseRefresh, Waits
    <2>2. call' \in [Calls -> CallStates]
      BY <1>1, <2>1, NoCallOK
    <2> QED
      BY <2>1, <2>2, NoCallOK DEF CallsReleased
  <1> QED
    BY <1>5, <1>6, RefreshEndsInv

-----------------------------------------------------------------------------
(* The invariant and what follows from it *)

\* The pages are being loaded.
LEMMA InitInv == Init => IndInv
  <1> SUFFICES ASSUME Init PROVE IndInv
    OBVIOUS
  <1>1. /\ N \in Nat /\ 2 * N + 1 \in Tokens /\ N + 1 \in Sessions /\ 2 * N + 1 # NoToken
    BY Numbers DEF Tokens, Sessions, NoToken
  <1>2. /\ call = [c \in Calls |-> NoCall("new")] /\ ref = [c \in Calls |-> NoRefresh]
        /\ active = [t \in Tabs |-> 0] /\ stale = {} /\ losses = 0 /\ password = 1
        /\ collided = FALSE /\ needless = FALSE
        /\ ui \in [Tabs -> {"loading", "in", "out"}]
    BY DEF Init
  <1>3. /\ \A c \in Calls : call[c] \in CallStates /\ call[c].pc = "new"
                           /\ call[c].csrf = NoToken /\ call[c].pair = NoToken
                           /\ call[c].status = 0
        /\ \A c \in Calls : ref[c] \in RefreshStates /\ ref[c].pc = "none"
    BY <1>2, NoCallOK DEF NoRefresh, RefreshStates, Statuses
  <1>4. jar \in {NoToken} \cup Tokens
    BY <1>1 DEF Init
  <1>5. TypeOK
    BY <1>2, <1>3, <1>4 DEF TypeOK
  <1>6. \A s \in Sessions :
          \/ s = N + 1 /\ jar # NoToken /\ handed[s] = {jar}
             /\ sess[s] = [jti |-> jar, born |-> 1, revoked |-> "no"]
          \/ handed[s] = {} /\ sess[s] = Store!NoRow
    BY DEF Init
  <1>7. StoreOK
    <2>1. Store!NoRow \in Rows /\ [jti |-> jar, born |-> 1, revoked |-> "no"] \in Rows
      BY <1>4 DEF Store!NoRow, Rows
    <2>2. sess \in [Sessions -> Rows]
      BY <2>1 DEF Init
    <2>3. handed \in [Sessions -> SUBSET Tokens]
      BY <1>1 DEF Init
    <2> QED
      BY <1>2, <2>2, <2>3 DEF StoreOK
  <1>8. HandedOnce
    BY <1>6 DEF HandedOnce
  <1>9. jar # NoToken => Handed(jar)
    <2>1. jar # NoToken => jar \in handed[N + 1]
      BY <1>1 DEF Init
    <2> QED
      BY <1>1, <2>1 DEF Handed
  <1>10. \A s \in Sessions : \A p \in handed[s] : p = sess[s].jti /\ p = jar
    BY <1>6
  <1>11. PairsAreHanded /\ CallsOK /\ RefreshOwned
    BY <1>3, <1>9 DEF PairsAreHanded, CallsOK, RefreshOwned
  <1>12. Superseded /\ Superseding /\ ForbiddenMeansOvertaken /\ AnswersFresh
    BY <1>3, <1>10 DEF Superseded, Superseding, ForbiddenMeansOvertaken, AnswersFresh
  <1>13. JarCurrent /\ RefreshOnce /\ RefreshCurrent
    BY <1>3, <1>10 DEF JarCurrent, RefreshOnce, RefreshCurrent
  <1> QED
    BY <1>5, <1>7, <1>8, <1>11, <1>12, <1>13 DEF IndInv

\* Every step keeps the invariant.
LEMMA NextInv ==
    ASSUME IndInv, [Next]_vars
    PROVE  IndInv'
  <1>1. ASSUME NEW c \in Calls, NEW t \in Tabs, Start(c, t) PROVE IndInv'
    BY <1>1, StartInv
  <1>2. ASSUME NEW c \in Calls, Progress(c) PROVE IndInv'
    BY <1>2, ServeInv, ReceiveOkInv, Receive401Inv, ErrorInv, ServeRefreshInv, SettleInv
    DEF Progress, ReceiveRefresh
  <1>3. ASSUME NEW c \in Calls, Lose(c) \/ LoseRefresh(c) PROVE IndInv'
    BY <1>3, ErrorInv, LoseRefreshInv
  <1>4. ASSUME NEW p \in Tokens, Expire(p) PROVE IndInv'
    BY <1>4, ExpireInv
  <1>5. CASE UNCHANGED vars
    BY <1>5 DEF vars, IndInv, TypeOK, StoreOK, HandedOnce, PairsAreHanded, Handed, CallsOK,
        RefreshOwned, Superseded, Superseding, ForbiddenMeansOvertaken, AnswersFresh,
        Undelivered, Undisturbed, JarCurrent, RefreshOnce, RefreshCurrent, Store!Active
  <1> QED
    BY <1>1, <1>2, <1>3, <1>4, <1>5 DEF Next

\* The invariant holds in every reachable state.
THEOREM Invariance == Spec => []IndInv
  <1>1. IndInv /\ [Next]_vars => IndInv'
    BY NextInv
  <1> QED
    BY InitInv, <1>1, PTL DEF Spec

\* Every variable of the browser keeps its type, whatever the tabs do and the network
\* loses.
THEOREM TypeCorrect == Spec => []TypeOK
  <1>1. IndInv => TypeOK
    BY DEF IndInv
  <1> QED
    BY Invariance, <1>1, PTL

\* The CSRF check of the server (AuthenticateAccessUseCase) refuses a call of the client
\* only after a refresh that was not needed: a call keeps the header of its cookies when
\* it is sent again, and an active session moves on only with a refresh.
THEOREM RefusalsExplained == Spec => []ForbiddenMeansOvertaken
  <1>1. IndInv => ForbiddenMeansOvertaken
    BY DEF IndInv
  <1> QED
    BY Invariance, <1>1, PTL

\* What a step of the client may do to a tab that believes to be authenticated.
LogoutExplained(t) ==
    \/ losses > 0 \/ collided \/ jar = NoToken
    \/ \E c \in Calls : /\ call[c].tab = t /\ ref[c].pc = "answered" /\ ref'[c].pc = "none"
                       /\ ~Store!Active(SessionOf(ref[c].pair))
    \/ \E c \in Calls : call[c].tab = t /\ call[c].kind = "logout" /\ call'[c].pc = "done"

\* A refresh that fails without losses and collisions was refused because its session
\* is over.
LEMMA FailedRefresh ==
    ASSUME IndInv, NEW c \in Calls, SettleRefresh(c), ref[c].status # 200
    PROVE  LogoutExplained(call[c].tab)
  <1>1. ref[c].pc = "answered" /\ ref'[c].pc = "none"
    BY DEF SettleRefresh, IndInv, TypeOK, NoRefresh
  <1>2. CASE ~Undisturbed
    BY <1>2 DEF Undisturbed, LogoutExplained, IndInv, StoreOK
  <1>3. CASE Undisturbed
    <2>1. RefreshCurrent
      BY <1>3 DEF IndInv
    <2>2. Handed(ref[c].pair)
      BY <1>1 DEF IndInv, PairsAreHanded
    <2>3. /\ SessionOf(ref[c].pair) \in Sessions
          /\ ref[c].pair \in handed[SessionOf(ref[c].pair)]
      BY <2>2, SessionOfPair
    <2>4. ~Store!Active(SessionOf(ref[c].pair))
      BY <1>1, <2>1, <2>3 DEF RefreshCurrent
    <2> QED
      BY <1>1, <2>4 DEF LogoutExplained
  <1> QED
    BY <1>2, <1>3

\* A step takes a tab out of the authenticated state only for a reason.
LEMMA LogoutStep ==
    ASSUME IndInv, [Next]_vars, NEW t \in Tabs, ui[t] = "in", ui'[t] = "out"
    PROVE  LogoutExplained(t)
  <1>1. ui \in [Tabs -> {"loading", "in", "out"}] /\ call \in [Calls -> CallStates]
    BY DEF IndInv, TypeOK
  <1>2. ASSUME NEW c \in Calls, NEW u \in Tabs, Start(c, u) PROVE FALSE
    BY <1>2 DEF Start
  <1>3. ASSUME NEW c \in Calls, Serve(c) \/ ServeRefresh(c) PROVE FALSE
    BY <1>3 DEF Serve, ServeRefresh
  <1>4. ASSUME NEW p \in Tokens, Expire(p) PROVE FALSE
    BY <1>4 DEF Expire
  <1>5. ASSUME NEW c \in Calls, ReceiveOk(c) PROVE LogoutExplained(t)
    <2>1. call[c].tab = t /\ call[c].kind = "logout"
      BY <1>1, <1>5 DEF ReceiveOk
    <2>2. call'[c].pc = "done"
      BY <1>1, <1>5, <2>1, NoCallOK DEF ReceiveOk
    <2> QED
      BY <2>1, <2>2 DEF LogoutExplained
  <1>6. ASSUME NEW c \in Calls, ReceiveError(c) PROVE LogoutExplained(t)
    <2>1. call[c].tab = t /\ call[c].kind = "logout"
      BY <1>1, <1>6 DEF ReceiveError
    <2>2. call'[c].pc = "done"
      BY <1>1, <1>6, NoCallOK DEF ReceiveError
    <2> QED
      BY <2>1, <2>2 DEF LogoutExplained
  <1>7. ASSUME NEW c \in Calls, Receive401(c) PROVE LogoutExplained(t)
    <2>1. jar = NoToken
      BY <1>7 DEF Receive401
    <2> QED
      BY <2>1 DEF LogoutExplained
  <1>8. ASSUME NEW c \in Calls, SettleRefresh(c) PROVE LogoutExplained(t)
    <2>1. call[c].tab = t /\ ref[c].status # 200
      BY <1>1, <1>8 DEF SettleRefresh
    <2> QED
      BY <1>8, <2>1, FailedRefresh
  <1>9. ASSUME NEW c \in Calls, Lose(c) \/ LoseRefresh(c) PROVE FALSE
    BY <1>1, <1>9 DEF Lose, LoseRefresh
  <1>10. CASE UNCHANGED vars
    BY <1>10 DEF vars
  <1>11. ASSUME NEW c \in Calls, Progress(c) PROVE LogoutExplained(t)
    BY <1>3, <1>5, <1>6, <1>7, <1>8, <1>11 DEF Progress, ReceiveRefresh
  <1> QED
    BY <1>2, <1>4, <1>9, <1>10, <1>11 DEF Next

\* AuthProvider never turns an authenticated tab into an anonymous one for another reason
\* than a logout, missing cookies or a session that is over, in whatever order the
\* answers of the calls that share a refresh arrive, unless an answer was lost or two
\* tabs refreshed with the same pair.
THEOREM LogoutsJustified == Spec => NoSpuriousLogout
  <1>1. IndInv /\ [Next]_vars =>
          \A t \in Tabs : ui[t] = "in" /\ ui'[t] = "out" => LogoutExplained(t)
    BY LogoutStep
  <1>2. IndInv /\ [Next]_vars => [\A t \in Tabs : ui[t] = "in" /\ ui'[t] = "out" =>
         \/ losses > 0 \/ collided \/ jar = NoToken
         \/ \E c \in Calls : /\ call[c].tab = t /\ ref[c].pc = "answered" /\ ref'[c].pc = "none"
                            /\ ~Store!Active(SessionOf(ref[c].pair))
         \/ \E c \in Calls : call[c].tab = t /\ call[c].kind = "logout" /\ call'[c].pc = "done"]_vars
    BY <1>1 DEF LogoutExplained
  <1> QED
    BY Invariance, <1>2, PTL DEF Spec, NoSpuriousLogout

===============================================================================
