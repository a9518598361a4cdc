------------------------------ MODULE AuthClient ------------------------------
(***************************************************************************)
(* The browser side of authentication, composed with the session store of  *)
(* the server: the cookie jar that all tabs share, the API client that     *)
(* answers a 401 with one refresh and one retry, the refresh that all      *)
(* calls of a tab share while it is in flight, and what each tab believes. *)
(*                                                                         *)
(* A token pair stands for the three cookies of one answer (access,        *)
(* refresh, CSRF), which the browser stores together.  A call is sent with *)
(* the cookies and the CSRF header of that moment and may be served and    *)
(* answered much later.  The server is SessionStore: AuthSessions shows    *)
(* that its transactions appear as these atomic steps.  Bodies, paths and  *)
(* the data of the answers are abstracted away; the rate limiter of the    *)
(* refresh endpoint is the freedom of an answer to be lost.                *)
(***************************************************************************)
EXTENDS Naturals, FiniteSets

CONSTANTS
    Tabs,        \* tabs of one browser
    N,           \* bound: calls the tabs make, numbered in the order they are made
    MaxExpired,  \* bound: access tokens that expire
    MaxLosses    \* bound: requests and answers the network loses

ASSUME BoundsAssumption == {N, MaxExpired, MaxLosses} \subseteq Nat

VARIABLES
    password, sess, handed,  \* the session store
    stale,      \* token pairs whose access token has expired
    jar,        \* the token pair in the cookie jar
    ui,         \* ui[t]: status of the AuthProvider of a tab
    active,     \* active[t]: activeRefresh, as the call that started it
    call,       \* call[c]: state of a call
    ref,        \* ref[c]: the refresh request that call c started
    losses,     \* requests and answers lost so far
    collided,   \* ghost: two tabs refreshed with the same pair
    needless    \* ghost: a refresh was started although the jar was still good

store == <<password, sess, handed>>

vars == <<password, sess, handed, stale, jar, ui, active, call, ref, losses, collided, needless>>

Calls == 1 .. N

\* The pair of a refresh has the number of the call that started it, the pair of a
\* login comes after those, the pair the browser already has comes last.
Tokens == 1 .. 2 * N + 1

\* A session has the number of the login that created it.
Sessions == 1 .. N + 1

NoToken == 0

Store == INSTANCE SessionStore

Kinds == {"none", "session", "read", "write", "login", "logout"}

Statuses == {0, 200, 401, 403}

CallStates ==
    [pc : {"new", "sent", "answered", "waiting", "done"}, kind : Kinds, tab : Tabs \cup {0},
     pair : {NoToken} \cup Tokens, csrf : {NoToken} \cup Tokens, status : Statuses,
     retried : BOOLEAN, on : {0} \cup Calls]

NoCall(pc) ==
    [pc |-> pc, kind |-> "none", tab |-> 0, pair |-> NoToken, csrf |-> NoToken,
     status |-> 0, retried |-> FALSE, on |-> 0]

RefreshStates ==
    [pc : {"none", "sent", "answered"}, pair : {NoToken} \cup Tokens, status : Statuses]

NoRefresh == [pc |-> "none", pair |-> NoToken, status |-> 0]

\* The pages are being loaded, with the cookies of an earlier visit or without, or their
\* checks have already succeeded.
Init ==
    /\ password = 1
    /\ jar \in {NoToken, 2 * N + 1}
    /\ sess = [s \in Sessions |->
                 IF s = N + 1 /\ jar # NoToken
                 THEN [jti |-> jar, born |-> 1, revoked |-> "no"] ELSE Store!NoRow]
    /\ handed = [s \in Sessions |-> IF s = N + 1 /\ jar # NoToken THEN {jar} ELSE {}]
    /\ stale = {}
    /\ \E status \in {"loading", "in"} :
         /\ status = "in" => jar # NoToken
         /\ ui = [t \in Tabs |-> status]
    /\ active = [t \in Tabs |-> 0]
    /\ call = [c \in Calls |-> NoCall("new")]
    /\ ref = [c \in Calls |-> NoRefresh]
    /\ losses = 0
    /\ collided = FALSE
    /\ needless = FALSE

-----------------------------------------------------------------------------
(* Server *)

\* The session a token pair was handed out for.
SessionOf(p) == CHOOSE s \in Sessions : p \in handed[s]

\* AuthenticationMiddleware and AuthenticateAccessUseCase: access token, session, CSRF.
Authenticate(p, csrf, unsafe) ==
    IF p = NoToken \/ p \in stale THEN 401
    ELSE IF ~Store!Active(SessionOf(p)) THEN 401
    ELSE IF unsafe /\ csrf # sess[SessionOf(p)].jti THEN 403
    ELSE 200

\* RefreshSessionUseCase with cookies: a superseded pair fails the CSRF check.
RefreshAnswer(p) ==
    IF ~Store!Active(SessionOf(p)) THEN 401
    ELSE IF p # sess[SessionOf(p)].jti THEN 403
    ELSE 200

\* The server handles a call.
Serve(c) ==
    /\ call[c].pc = "sent"
    /\ LET kind == call[c].kind
           status == IF kind = "login" THEN 200
                     ELSE Authenticate(call[c].pair, call[c].csrf, kind \in {"write", "logout"}) IN
         /\ call' = [call EXCEPT ![c].pc = "answered", ![c].status = status]
         /\ \/ kind = "login" /\ Store!Login(c, N + c)
            \/ kind = "logout" /\ status = 200 /\ Store!Revoke(SessionOf(call[c].pair), "logout")
            \/ kind # "login" /\ ~(kind = "logout" /\ status = 200) /\ UNCHANGED store
    /\ UNCHANGED <<stale, jar, ui, active, ref, losses, collided, needless>>

\* The server handles the refresh that c started.
ServeRefresh(c) ==
    /\ ref[c].pc = "sent"
    /\ LET status == RefreshAnswer(ref[c].pair) IN
         /\ ref' = [ref EXCEPT ![c].pc = "answered", ![c].status = status]
         /\ \/ status = 200 /\ Store!Rotate(SessionOf(ref[c].pair), c)
            \/ status # 200 /\ UNCHANGED store
    /\ UNCHANGED <<stale, jar, ui, active, call, losses, collided, needless>>

\* The access token of a pair expires: one that is in the jar or travels with a call, for
\* nobody would notice it of another.
Expire(p) ==
    /\ Cardinality(stale) < MaxExpired
    /\ p \notin stale
    /\ p = jar \/ \E c \in Calls : call[c].pc = "sent" /\ call[c].pair = p
    /\ stale' = stale \cup {p}
    /\ UNCHANGED <<store, jar, ui, active, call, ref, losses, collided, needless>>

-----------------------------------------------------------------------------
(* Client *)

\* #request builds the headers and the browser attaches the cookies when it is sent.
Sent(c, p, csrf) == [call[c] EXCEPT !.pc = "sent", !.pair = p, !.csrf = csrf]

\* What the pages offer: the check on page load, reads, writes and logout when
\* authenticated, the login form when not.
Offers(t) ==
    CASE ui[t] = "loading" -> {"session"}
      [] ui[t] = "in" -> {"read", "write", "logout"}
      [] ui[t] = "out" -> {"login"}

\* Faulty variant: every 401 starts a refresh of its own.
NeverShared(t) == FALSE

\* refreshAccessSession returns the promise of the refresh that is in flight.
Shared(t) == active[t] # 0

Start(c, t) ==
    /\ call[c].pc = "new" /\ \A d \in 1 .. c - 1 : call[d].pc # "new"
    /\ \E kind \in Offers(t) :
         /\ kind \in {"session", "login"} =>
              \A d \in Calls : call[d].tab = t => call[d].kind \notin {"session", "login"}
         /\ call' = [call EXCEPT ![c] = [Sent(c, jar, jar) EXCEPT !.kind = kind, !.tab = t]]
    /\ UNCHANGED <<store, stale, jar, ui, active, ref, losses, collided, needless>>

\* clearSession
ClearTab(t) == ui' = [ui EXCEPT ![t] = "out"]

Answered(c, status) == call[c].pc = "answered" /\ call[c].status = status

\* A successful answer: its cookies are stored, then the caller goes on.  login asks for
\* the session next.
ReceiveOk(c) ==
    /\ Answered(c, 200)
    /\ LET t == call[c].tab
           kind == call[c].kind IN
         /\ jar' = CASE kind = "login" -> N + c
                     [] kind = "logout" -> NoToken
                     [] OTHER -> jar
         /\ ui' = CASE kind = "session" -> [ui EXCEPT ![t] = "in"]
                    [] kind = "logout" -> [ui EXCEPT ![t] = "out"]
                    [] OTHER -> ui
         /\ call' = [call EXCEPT ![c] =
                       IF kind = "login"
                       THEN [Sent(c, jar', jar') EXCEPT !.kind = "session", !.status = 0]
                       ELSE NoCall("done")]
    /\ UNCHANGED <<store, stale, active, ref, losses, collided, needless>>

\* The first 401 of a call: without a CSRF cookie there is nothing to refresh, otherwise
\* the call waits for the refresh in flight or starts one.
Receive401(c) ==
    /\ Answered(c, 401) /\ ~call[c].retried
    /\ LET t == call[c].tab IN
         \/ /\ jar = NoToken
            /\ ClearTab(t)
            /\ call' = [call EXCEPT ![c] = NoCall("done")]
            /\ UNCHANGED <<active, ref, collided, needless>>
         \/ /\ jar # NoToken /\ Shared(t)
            /\ call' = [call EXCEPT ![c].pc = "waiting", ![c].on = active[t]]
            /\ UNCHANGED <<ui, active, ref, collided, needless>>
         \/ /\ jar # NoToken /\ ~Shared(t)
            /\ call' = [call EXCEPT ![c].pc = "waiting", ![c].on = c]
            /\ active' = [active EXCEPT ![t] = c]
            /\ ref' = [ref EXCEPT ![c] = [pc |-> "sent", pair |-> jar, status |-> 0]]
            /\ collided' = (collided \/ \E d \in Calls : /\ ref[d].pc # "none"
                                                           /\ ref[d].pair = jar
                                                           /\ call[d].tab # t)
            /\ needless' = (needless \/ (jar \notin stale /\ Store!Active(SessionOf(jar))))
            /\ UNCHANGED ui
    /\ UNCHANGED <<store, stale, jar, losses>>

\* A second 401, or a 403: the caller gets the error.  The check on page load and a
\* logout treat it as the end of the session.
ReceiveError(c) ==
    /\ Answered(c, 403) \/ (Answered(c, 401) /\ call[c].retried)
    /\ LET t == call[c].tab IN
         ui' = IF call[c].kind = "logout" \/ ui[t] = "loading"
               THEN [ui EXCEPT ![t] = "out"] ELSE ui
    /\ call' = [call EXCEPT ![c] = NoCall("done")]
    /\ UNCHANGED <<store, stale, jar, active, ref, losses, collided, needless>>

\* Faulty variant: the retry reuses the headers of the first attempt.
ResendOldHeaders(c, p) == Sent(c, p, call[c].csrf)

\* operation() runs again and builds its headers anew.
Resend(c, p) == Sent(c, p, p)

\* The promise of the refresh settles: activeRefresh is reset, and every call that
\* waited for it is sent again or fails.
SettleRefresh(c) ==
    LET t == call[c].tab
        ok == ref[c].status = 200
        Waits(d) == call[d].pc = "waiting" /\ call[d].on = c IN
      /\ ref[c].pc = "answered"
      /\ jar' = IF ok THEN c ELSE jar
      /\ ui' = IF ok THEN ui ELSE [ui EXCEPT ![t] = "out"]
      /\ active' = [active EXCEPT ![t] = 0]
      /\ ref' = [ref EXCEPT ![c] = NoRefresh]
      /\ call' = [d \in Calls |->
                    IF ~Waits(d) THEN call[d]
                    ELSE IF ok THEN [Resend(d, c) EXCEPT !.retried = TRUE, !.status = 0, !.on = 0]
                    ELSE NoCall("done")]
      /\ UNCHANGED <<store, stale, losses, collided, needless>>

\* Faulty variant: the refresh request answers its own 401 with a refresh, joins the one
\* in flight, which is itself, and never settles.
SettleRecursive(c) == ref[c].status # 401 /\ SettleRefresh(c)

ReceiveRefresh(c) == SettleRefresh(c)

\* The network loses a request or an answer: not an authentication failure, so nobody
\* retries.  The check on page load reports the API as unreachable.
Lose(c) ==
    /\ losses < MaxLosses /\ losses' = losses + 1
    /\ call[c].pc \in {"sent", "answered"}
    /\ ui' = IF ui[call[c].tab] = "loading" THEN [ui EXCEPT ![call[c].tab] = "out"] ELSE ui
    /\ call' = [call EXCEPT ![c] = NoCall("done")]
    /\ UNCHANGED <<store, stale, jar, active, ref, collided, needless>>

LoseRefresh(c) ==
    /\ losses < MaxLosses /\ losses' = losses + 1
    /\ ref[c].pc \in {"sent", "answered"}
    /\ LET t == call[c].tab IN
         /\ ui' = IF ui[t] = "loading" THEN [ui EXCEPT ![t] = "out"] ELSE ui
         /\ active' = [active EXCEPT ![t] = 0]
    /\ ref' = [ref EXCEPT ![c] = NoRefresh]
    /\ call' = [d \in Calls |-> IF call[d].pc = "waiting" /\ call[d].on = c
                                THEN NoCall("done") ELSE call[d]]
    /\ UNCHANGED <<store, stale, jar, collided, needless>>

-----------------------------------------------------------------------------

Progress(c) ==
    \/ Serve(c) \/ ReceiveOk(c) \/ Receive401(c) \/ ReceiveError(c)
    \/ ServeRefresh(c) \/ ReceiveRefresh(c)

Next ==
    \/ \E c \in Calls : \/ \E t \in Tabs : Start(c, t)
                        \/ Progress(c) \/ Lose(c) \/ LoseRefresh(c)
    \/ \E p \in Tokens : Expire(p)

\* The server answers and the browser delivers; nobody has to click.
Spec == Init /\ [][Next]_vars /\ \A c \in Calls : WF_vars(Progress(c))

-----------------------------------------------------------------------------
(* Properties *)

\* Every variable has its type.
TypeOK ==
    /\ jar \in {NoToken} \cup Tokens
    /\ stale \in SUBSET Tokens
    /\ ui \in [Tabs -> {"loading", "in", "out"}]
    /\ active \in [Tabs -> {0} \cup Calls]
    /\ call \in [Calls -> CallStates]
    /\ ref \in [Calls -> RefreshStates]

\* A tab leaves the authenticated state only when it logs out, when the cookies are gone
\* or when the session it tried to refresh is over, however many calls received a 401 at
\* once and in whatever order their answers arrive, unless an answer was lost or two tabs
\* refreshed with the same pair.
NoSpuriousLogout ==
    [][\A t \in Tabs : ui[t] = "in" /\ ui'[t] = "out" =>
         \/ losses > 0 \/ collided \/ jar = NoToken
         \/ \E c \in Calls : /\ call[c].tab = t /\ ref[c].pc = "answered" /\ ref'[c].pc = "none"
                            /\ ~Store!Active(SessionOf(ref[c].pair))
         \/ \E c \in Calls : call[c].tab = t /\ call[c].kind = "logout" /\ call'[c].pc = "done"]_vars

\* A mutation is refused for its CSRF token only when a refresh was made although the
\* cookies were still good (a 401 that arrives after the refresh it should have shared).
ForbiddenMeansOvertaken ==
    \A c \in Calls : call[c].status = 403 => needless

\* Every call is settled: answered, failed or retried once and then answered.
CallsSettle == <>[](\A c \in Calls : call[c].pc \in {"new", "done"})

\* A request that carries the CSRF cookie and its header is not refused for CSRF.
CsrfErrorMeansAbsent == \A c \in Calls : call[c].status = 403 => call[c].csrf = NoToken
=============================================================================
