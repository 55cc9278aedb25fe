------------------------------ MODULE Sessions ------------------------------
(***************************************************************************)
(* The cookies of one browser or app signed in to one account: the signed  *)
(* "session" cookie, which carries all of the session's values, and the    *)
(* "session_token" cookie.  The server keeps no session.  Every reply to a *)
(* request that passes ValidSession sets both cookies again, with the      *)
(* values the request came with, so replies that cross overwrite each      *)
(* other's.  A request is served when it is sent; its reply is received    *)
(* later, in any order, or lost.                                           *)
(* Passkey ceremonies keep their state in a table of the server under a    *)
(* token that is one of the session's values.                              *)
(* Time is counted in ticks that stand for days: an idle timeout of the    *)
(* settings or the default is Day, "remember me" and the limit of the      *)
(* cookie store are Week, the Android app's minimum is AndroidMin.         *)
(* Not covered: other accounts (Accounts has them), a clock set back, the  *)
(* verification of passkeys, a server without SESSION_SECRET (its restart  *)
(* loses every session), ceremonies finished twice at once.                *)
(***************************************************************************)
EXTENDS Naturals, FiniteSetsExt

CONSTANTS
    Day,          \* idle window of a session that is not remembered
    Week,         \* idle window of a remembered one, and age limit of the store
    AndroidMin,   \* androidCompanionIdleMinSeconds
    MaxDuration,  \* SESSION_MAX_DURATION
    MaxNow,       \* bound: the clock of a behaviour
    MaxTokens,    \* bound: logins and passkey ceremonies begun, together
    MaxChanges,   \* bound: changes of the account
    MaxReplies,   \* bound: requests in flight together
    None

ASSUME SessionAssumption ==
    /\ {Day, Week, AndroidMin, MaxDuration, MaxNow} \subseteq Nat
    /\ {MaxTokens, MaxChanges, MaxReplies} \subseteq Nat
    /\ 0 < Day /\ Day < Week /\ Week < AndroidMin

VARIABLES
    now,          \* the clock
    android,      \* the client is the Android app
    crc,          \* checksum of the account, one number per version
    jar,          \* the cookies, None where there is none
    replies,      \* replies under way
    table,        \* passkeyLoginSessions and passkeyRegSessions
    logins,       \* number of logins, their tokens are 1 .. logins
    begun,        \* number of ceremonies
    hist          \* histories, see NoHistory

vars == <<now, android, crc, jar, replies, table, logins, begun, hist>>

Kinds == {"login", "register"}

Number == Nat \cup {None}

Values ==
    [token: Number, hash: Number, maxAge: Nat, created: Nat, updated: Nat,
     ceremony: [Kinds -> Number]]

SessionCookie == [values: Values, encoded: Nat, expires: Nat]

TokenCookie == [value: Number, expires: Nat]

Pending == [kind: Kinds, token: Number, at: Nat]

ASSUME NoneAssumption == None \notin Nat \cup SessionCookie \cup TokenCookie \cup Pending

-----------------------------------------------------------------------------
(* Session values and their checks.                                        *)

NoCeremony == [k \in Kinds |-> None]

(* The values of a session without cookie, or whose cookie is refused.     *)
NewSession ==
    [token |-> None, hash |-> None, maxAge |-> 0, created |-> 0, updated |-> 0,
     ceremony |-> NoCeremony]

(* session.Get: the store refuses a cookie encoded too long ago.           *)
Session ==
    IF jar.session # None /\ now - jar.session.encoded <= Week
    THEN jar.session.values ELSE NewSession

(* Of the login's age, and of every later check.                           *)
effectiveIdleSeconds(maxAge) ==
    IF android /\ maxAge < AndroidMin THEN AndroidMin ELSE maxAge

\* Mutant: the age since the login is not checked.
FreshOnly(s) == s.updated <= now /\ s.updated + effectiveIdleSeconds(s.maxAge) >= now

WithinBounds(s) ==
    /\ s.updated <= now
    /\ s.updated + effectiveIdleSeconds(s.maxAge) >= now
    /\ s.created + MaxDuration >= now

ValidSession ==
    /\ jar.token # None /\ Session.token = jar.token.value
    /\ WithinBounds(Session)
    /\ Session.hash = crc

\* Mutant: the end of the window is stored for its beginning.
TouchedAhead(s) == [s EXCEPT !.updated = now + s.maxAge]

\* Mutant: a request leaves the time of the last activity as it was.
NotTouched(s) == s

(* ValidSession counts every request as activity.  It has set updated_at   *)
(* before RefreshSession looks, which so never finds it a day old.         *)
touchSessionIdle(s) == [s EXCEPT !.updated = now]

-----------------------------------------------------------------------------
(* Histories.  live is the session the user should have, from the receipt *)
(* of a login until something ends it or confuses its cookies; base is a   *)
(* time such that every reply received since was served no earlier; out    *)
(* are the sessions logged out of; pending is the ceremony the browser     *)
(* should be able to finish.                                               *)

NoLogin == [at |-> 0, seen |-> 0, window |-> 0]

NoHistory ==
    [login |-> [t \in 1 .. MaxTokens |-> NoLogin],
     live |-> None, base |-> 0, out |-> {}, pending |-> None]

Quiet == replies = {}

(* Replies other than to mere visits change what the cookies say.  When    *)
(* one of them crosses another reply nothing is expected any more.         *)
Mixed(op) == ~Quiet /\ (op # "visit" \/ \E r \in replies : r.op # "visit")

Crossing(h, op) ==
    [h EXCEPT !.live = IF Mixed(op) THEN None ELSE @,
              !.pending = IF Quiet THEN @ ELSE None]

(* An authenticated request.                                               *)
Served(op) ==
    [Crossing(hist, op) EXCEPT !.base = IF Quiet THEN now ELSE @,
                               !.login[Session.token].seen = now]

-----------------------------------------------------------------------------
(* Requests.                                                               *)

(* A reply sets the session cookie, with an age for the browser, and       *)
(* usually the session_token cookie too.                                   *)
Reply(op, values, age, both) ==
    /\ Cardinality(replies) < MaxReplies
    /\ replies' = replies \cup
           {[op |-> op, values |-> values, age |-> age, both |-> both, served |-> now]}

Window == effectiveIdleSeconds(Session.maxAge)

(* Login: the settings' timeout or the default, or a week if there is no   *)
(* timeout and the user is to be remembered.                               *)
setLoginSession(s, age) ==
    [s EXCEPT !.token = logins + 1, !.hash = crc, !.maxAge = effectiveIdleSeconds(age),
              !.created = now, !.updated = now]

LoggedIn(age) ==
    [Crossing(hist, "login") EXCEPT
        !.base = IF Quiet THEN now ELSE @,
        !.login[logins + 1] = [at |-> now, seen |-> now, window |-> effectiveIdleSeconds(age)]]

Login(age) ==
    /\ logins + begun < MaxTokens
    /\ Reply("login", setLoginSession(Session, age), effectiveIdleSeconds(age), TRUE)
    /\ logins' = logins + 1
    /\ hist' = LoggedIn(age)
    /\ UNCHANGED <<now, android, crc, jar, table, begun>>

(* Any request behind ValidSession that leaves the session as it is.       *)
Visit ==
    /\ ValidSession
    /\ Reply("visit", touchSessionIdle(Session), Window, TRUE)
    /\ hist' = Served("visit")
    /\ UNCHANGED <<now, android, crc, jar, table, logins, begun>>

\* Mutant: the session keeps the checksum it had.
EditForgotten(s) == s

(* setUser: the session takes the new checksum.                            *)
setUser(s) == [s EXCEPT !.hash = crc + 1]

(* The user changes their own account.                                     *)
OwnEdit ==
    /\ ValidSession
    /\ crc < MaxChanges
    /\ crc' = crc + 1
    /\ Reply("edit", setUser(touchSessionIdle(Session)), Window, TRUE)
    /\ hist' = Served("edit")
    /\ UNCHANGED <<now, android, jar, table, logins, begun>>

(* Logout is not counted as activity: the reply removes both cookies.      *)
Logout ==
    /\ ValidSession
    /\ Reply("logout", Session, 0, TRUE)
    /\ hist' = [Crossing(hist, "logout") EXCEPT !.live = None, !.pending = None]
    /\ UNCHANGED <<now, android, crc, jar, table, logins, begun>>

(* Somebody else changes the account.                                      *)
AccountChange ==
    /\ crc < MaxChanges
    /\ crc' = crc + 1
    /\ hist' = [hist EXCEPT !.live = None]
    /\ UNCHANGED <<now, android, jar, replies, table, logins, begun>>

-----------------------------------------------------------------------------
(* Passkey ceremonies.                                                     *)

(* Begins a ceremony whose token is the next number.                       *)
Begin(kind) ==
    /\ logins + begun < MaxTokens
    /\ begun' = begun + 1
    /\ table' = table \cup {<<kind, begun + 1>>}
    /\ UNCHANGED <<now, android, crc, jar, logins>>

WithCeremony(s, kind, c) == [s EXCEPT !.ceremony[kind] = c]

(* Anybody may begin a login: the session cookie is set with the store's   *)
(* own age, the other is not.                                              *)
PasskeyBeginLogin ==
    /\ Begin("login")
    /\ Reply("login/begin", WithCeremony(Session, "login", begun + 1), Week, FALSE)
    /\ hist' = Crossing(hist, "login/begin")

PasskeyBeginRegister ==
    /\ ValidSession
    /\ Begin("register")
    /\ Reply("register/begin", WithCeremony(touchSessionIdle(Session), "register", begun + 1),
             Window, TRUE)
    /\ hist' = Served("register/begin")

CanFinish(kind) == <<kind, Session.ceremony[kind]>> \in table

\* Mutant: a ceremony that failed is over.
FailureForgets(kind) == table \ {<<kind, Session.ceremony[kind]>>}

(* A passkey that is refused leaves the ceremony as it was.                *)
AfterFailure(kind) == table

Over(h) == [h EXCEPT !.pending = None]

PasskeyFinishLogin(age) ==
    /\ CanFinish("login")
    /\ logins + begun < MaxTokens
    /\ Reply("login", WithCeremony(setLoginSession(Session, age), "login", None),
             effectiveIdleSeconds(age), TRUE)
    /\ table' = table \ {<<"login", Session.ceremony["login"]>>}
    /\ logins' = logins + 1
    /\ hist' = Over(LoggedIn(age))
    /\ UNCHANGED <<now, android, crc, jar, begun>>

PasskeyLoginRefused ==
    /\ CanFinish("login")
    /\ table' = AfterFailure("login")
    /\ UNCHANGED <<now, android, crc, jar, replies, logins, begun, hist>>

PasskeyFinishRegister ==
    /\ ValidSession
    /\ CanFinish("register")
    /\ crc < MaxChanges
    /\ crc' = crc + 1
    /\ Reply("edit", WithCeremony(setUser(touchSessionIdle(Session)), "register", None), Window, TRUE)
    /\ table' = table \ {<<"register", Session.ceremony["register"]>>}
    /\ hist' = Over(Served("edit"))
    /\ UNCHANGED <<now, android, jar, logins, begun>>

-----------------------------------------------------------------------------
(* The browser.                                                            *)

NoCookies == [session |-> None, token |-> None]

SetCookies(r) ==
    [session |-> [values |-> r.values, encoded |-> r.served, expires |-> now + r.age],
     token   |-> IF r.both THEN [value |-> r.values.token, expires |-> now + r.age]
                 ELSE jar.token]

\* Mutant: the cookies are removed under another path.
ClearedElsewhere(r) == IF r.op = "logout" THEN jar ELSE SetCookies(r)

(* clearSession removes both cookies.                                      *)
Cookies(r) == IF r.op = "logout" THEN NoCookies ELSE SetCookies(r)

Alone(r) == replies = {r}

Started(r) ==
    LET kind == IF r.op = "login/begin" THEN "login" ELSE "register"
    IN  [kind |-> kind, token |-> r.values.ceremony[kind], at |-> r.served]

Received(r) ==
    [hist EXCEPT
        !.live = IF r.op = "login" /\ Alone(r) /\ r.values.hash = crc
                 THEN r.values.token ELSE @,
        !.out = IF r.op = "logout" /\ Alone(r) THEN @ \cup {r.values.token} ELSE @,
        !.pending = IF /\ r.op \in {"login/begin", "register/begin"}
                       /\ Alone(r)
                       /\ <<Started(r).kind, Started(r).token>> \in table
                    THEN Started(r) ELSE @]

Receive(r) ==
    /\ replies' = replies \ {r}
    /\ jar' = Cookies(r)
    /\ hist' = Received(r)
    /\ UNCHANGED <<now, android, crc, table, logins, begun>>

Lose(r) ==
    /\ replies' = replies \ {r}
    /\ hist' = [hist EXCEPT !.live = None]
    /\ UNCHANGED <<now, android, crc, jar, table, logins, begun>>

Kept(cookie) == IF cookie = None \/ cookie.expires <= now' THEN None ELSE cookie

Tick ==
    /\ now < MaxNow
    /\ now' = now + 1
    /\ jar' = [session |-> Kept(jar.session), token |-> Kept(jar.token)]
    /\ UNCHANGED <<android, crc, replies, table, logins, begun, hist>>

-----------------------------------------------------------------------------

Init ==
    /\ now = 0
    /\ android \in BOOLEAN
    /\ crc = 0
    /\ jar = NoCookies
    /\ replies = {}
    /\ table = {}
    /\ logins = 0 /\ begun = 0
    /\ hist = NoHistory

(* The tables of ceremonies are lost, cookies stay valid.                  *)
Restart ==
    /\ table' = {}
    /\ hist' = [hist EXCEPT !.pending = None]
    /\ UNCHANGED <<now, android, crc, jar, replies, logins, begun>>

Next ==
    \/ \E age \in {Day, Week} : Login(age) \/ PasskeyFinishLogin(age)
    \/ Visit \/ OwnEdit \/ Logout \/ AccountChange
    \/ PasskeyBeginLogin \/ PasskeyBeginRegister
    \/ PasskeyLoginRefused \/ PasskeyFinishRegister
    \/ \E r \in replies : Receive(r) \/ Lose(r)
    \/ Tick \/ Restart

Spec == Init /\ [][Next]_vars

-----------------------------------------------------------------------------
(* Properties.                                                             *)

Least(a, b) == IF a < b THEN a ELSE b

(* Types; a cookie never speaks of a time or of a login that is to come.   *)
TypeOK ==
    /\ now \in 0 .. MaxNow /\ android \in BOOLEAN /\ crc \in 0 .. MaxChanges
    /\ table \subseteq Kinds \X (1 .. begun)
    /\ jar \in [session: SessionCookie \cup {None}, token: TokenCookie \cup {None}]
    /\ jar.session # None =>
        /\ jar.session.encoded <= now /\ now < jar.session.expires
        /\ jar.session.values.token \in {None} \cup 1 .. logins
        /\ jar.session.values.created <= jar.session.values.updated
        /\ jar.session.values.updated <= jar.session.encoded
    /\ hist.live \in {None} \cup 1 .. logins

(* A session is accepted only within its idle window of the last request   *)
(* that was, and within SESSION_MAX_DURATION of its login, whatever        *)
(* replies were lost or received late.                                     *)
AcceptedWithinLimits ==
    ValidSession =>
        /\ now - hist.login[jar.token.value].seen <= hist.login[jar.token.value].window
        /\ now - hist.login[jar.token.value].at <= MaxDuration

(* A user who has been active is not signed out: not within the idle       *)
(* window, nor by changing their own account or beginning a ceremony,      *)
(* unless replies crossed of which one changed the cookies, one was lost,  *)
(* or somebody else changed the account.  No window is longer than the age *)
(* the cookie store accepts, the Android app's least of all.               *)
ActiveSessionAccepted ==
    /\ Quiet /\ hist.live # None
    /\ now < hist.base + Least(hist.login[hist.live].window, Week)
    /\ now <= hist.login[hist.live].at + MaxDuration
    => ValidSession /\ jar.token.value = hist.live

(* After a log out whose reply was the last to come in, the session is     *)
(* never accepted again.                                                   *)
LoggedOutStaysOut == ValidSession => jar.token.value \notin hist.out

(* A registration is finished in a session that must be accepted (main.go  *)
(* puts it behind ValidSession).  The user has one unless the maximum age  *)
(* is reached, a reply was lost, or somebody else changed the account.     *)
SignedIn == hist.live # None /\ now <= hist.login[hist.live].at + MaxDuration

(* A ceremony that was begun can be finished, for the shortest life of a   *)
(* cookie, though it failed before, the session went on or its user        *)
(* changed the account: unless the server stopped, requests crossed or,    *)
(* for a registration, the user is no longer to be signed in.              *)
BegunCanFinish ==
    /\ Quiet /\ hist.pending # None
    /\ now < hist.pending.at + Day
    /\ hist.pending.kind = "register" => SignedIn
    => /\ Session.ceremony[hist.pending.kind] = hist.pending.token
       /\ CanFinish(hist.pending.kind)
       /\ hist.pending.kind = "register" => ValidSession
=============================================================================
