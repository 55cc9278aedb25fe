--------------------------- MODULE SessionsProofs ---------------------------
(***************************************************************************)
(* The safety properties of Sessions, for any lengths of the timeouts in   *)
(* their order, any number of logins, ceremonies, changes and requests in  *)
(* flight.                                                                 *)
(*                                                                         *)
(* Sound says what any copy of a session may be relied on, in the cookie   *)
(* or in a reply under way: it is no newer than what the server has seen   *)
(* of its login.  LiveInv and PendingInv say where the copies must be so   *)
(* that a session, or a ceremony, goes on.                                 *)
(***************************************************************************)
EXTENDS Sessions, TLAPS

Operations == {"login", "visit", "edit", "logout", "login/begin", "register/begin"}

ReplyMessage ==
    [op: Operations, values: Values, age: Nat, both: BOOLEAN, served: Nat]

LoginHistory == [at: Nat, seen: Nat, window: Nat]

History ==
    [login: [1 .. MaxTokens -> LoginHistory], live: Number, base: Nat, out: SUBSET Nat,
     pending: Pending \cup {None}]

(* A copy of a session against the history of its login.                   *)
SoundValues(v) ==
    /\ v \in Values
    /\ v.created <= v.updated
    /\ v.token # None =>
        /\ v.token \in 1 .. logins /\ v.token \notin hist.out
        /\ v.created = hist.login[v.token].at
        /\ v.updated <= hist.login[v.token].seen
        /\ effectiveIdleSeconds(v.maxAge) = hist.login[v.token].window
        /\ Day <= hist.login[v.token].window

SoundJar ==
    /\ jar \in [session: SessionCookie \cup {None}, token: TokenCookie \cup {None}]
    /\ jar.session # None =>
        /\ SoundValues(jar.session.values)
        /\ jar.session.values.updated <= jar.session.encoded
        /\ jar.session.encoded <= now /\ now < jar.session.expires
    /\ jar.token # None => jar.token.value \in 1 .. logins

(* Every operation but two stamps the session and sets both cookies for    *)
(* the length of its window.                                               *)
SoundReply(r) ==
    /\ r \in ReplyMessage
    /\ SoundValues(r.values)
    /\ hist.base <= r.served /\ r.served <= now
    /\ r.values.updated <= r.served
    /\ r.op = "login/begin" => ~r.both /\ r.age = Week
    /\ r.op # "login/begin" => r.both /\ r.values.token # None
    /\ r.op \notin {"login/begin", "logout"} =>
        r.age = hist.login[r.values.token].window /\ r.values.updated = r.served

Counters ==
    /\ now \in 0 .. MaxNow /\ android \in BOOLEAN /\ crc \in 0 .. MaxChanges
    /\ logins \in Nat /\ begun \in Nat /\ logins + begun <= MaxTokens
    /\ table \subseteq Kinds \X (1 .. begun)
    /\ hist \in History
    /\ hist.live \in {None} \cup 1 .. logins
    /\ hist.base <= now
    /\ hist.out \subseteq 1 .. logins

Sound == Counters /\ SoundJar /\ \A r \in replies : SoundReply(r)

-----------------------------------------------------------------------------
(* Facts about values.                                                     *)

LEMMA Constants ==
    /\ Day \in Nat /\ Week \in Nat /\ AndroidMin \in Nat /\ MaxDuration \in Nat
    /\ MaxNow \in Nat /\ MaxTokens \in Nat
    /\ 0 < Day /\ Day < Week
    /\ None \notin Nat
BY SessionAssumption, NoneAssumption

LEMMA EffectiveIdle ==
    ASSUME NEW age \in Nat
    PROVE  /\ effectiveIdleSeconds(age) \in Nat /\ age <= effectiveIdleSeconds(age)
           /\ effectiveIdleSeconds(effectiveIdleSeconds(age)) = effectiveIdleSeconds(age)
BY Constants DEF effectiveIdleSeconds

LEMMA NewSessionIsSound == SoundValues(NewSession) /\ NewSession.token = None
<1>1. NewSession \in Values
  BY DEF NewSession, Values, NoCeremony, Number
<1>2. NewSession.token = None /\ NewSession.created = 0 /\ NewSession.updated = 0
  BY DEF NewSession
<1> QED
  BY <1>1, <1>2 DEF SoundValues

(* The session a request comes with.                                       *)
LEMMA SessionFacts ==
    ASSUME Sound
    PROVE  /\ SoundValues(Session) /\ Session.updated <= now
           /\ Session = NewSession \/ (jar.session # None /\ Session = jar.session.values)
           /\ Session \in Values
           /\ Session.created \in Nat /\ Session.updated \in Nat /\ Session.maxAge \in Nat
<1>1. CASE Session = NewSession
  <2>1. NewSession.updated = 0 /\ now \in Nat
    BY DEF NewSession, Sound, Counters
  <2> QED
    BY <1>1, <2>1, NewSessionIsSound DEF SoundValues, Values
<1>2. CASE Session # NewSession
  <2>1. jar.session # None /\ Session = jar.session.values
    BY <1>2 DEF Session
  <2>2. SoundValues(Session) /\ Session.updated <= jar.session.encoded /\ jar.session.encoded <= now
    BY <2>1 DEF Sound, SoundJar
  <2>3. Session \in Values
    BY <2>2 DEF SoundValues
  <2>4. Session.created \in Nat /\ Session.updated \in Nat /\ Session.maxAge \in Nat
    BY <2>3 DEF Values
  <2>5. jar.session.encoded \in Nat /\ now \in Nat
    BY <2>1 DEF Sound, SoundJar, SessionCookie, Counters
  <2> QED
    BY <2>1, <2>2, <2>3, <2>4, <2>5
<1> QED
  BY <1>1, <1>2

LEMMA ValidFacts ==
    ASSUME Sound, ValidSession
    PROVE  /\ Session.token \in 1 .. logins /\ Session.token # None
           /\ Session.token \in 1 .. MaxTokens
           /\ jar.session # None /\ Session = jar.session.values
           /\ Session.hash = crc
           /\ Session.token = jar.token.value /\ jar.token # None
<1>1. jar.token # None /\ Session.token = jar.token.value /\ Session.hash = crc
  BY DEF ValidSession
<1>2. Session.token \in 1 .. logins
  BY <1>1 DEF Sound, SoundJar
<1>3. Session.token # None
  BY <1>2, Constants
<1>4. Session.token \in 1 .. MaxTokens
  BY <1>2, Constants DEF Sound, Counters
<1>5. Session # NewSession
  BY <1>3, NewSessionIsSound
<1> QED
  BY <1>1, <1>2, <1>3, <1>4, <1>5, SessionFacts

(* A copy stays sound when its login is seen again.                        *)
LEMMA StaysSound ==
    ASSUME NEW v, SoundValues(v), logins \in Nat, logins' \in Nat, logins <= logins',
           android' = android,
           \A t \in 1 .. logins : t \in hist'.out => t \in hist.out,
           \A t \in 1 .. logins :
               /\ hist'.login[t].at = hist.login[t].at
               /\ hist'.login[t].window = hist.login[t].window
               /\ \/ hist'.login[t].seen = hist.login[t].seen
                  \/ v.updated <= hist'.login[t].seen
    PROVE  SoundValues(v)'
<1>1. CASE v.token = None
  BY <1>1 DEF SoundValues
<1>2. CASE v.token # None
  <2>1. v.token \in 1 .. logins /\ v.token \in 1 .. logins'
    BY <1>2 DEF SoundValues
  <2>2. effectiveIdleSeconds(v.maxAge)' = effectiveIdleSeconds(v.maxAge)
    BY DEF effectiveIdleSeconds
  <2> QED
    BY <1>2, <2>1, <2>2 DEF SoundValues
<1> QED
  BY <1>1, <1>2

-----------------------------------------------------------------------------
(* What a request does to the histories.                                   *)

LEMMA CrossingFacts ==
    ASSUME NEW h \in History, NEW op
    PROVE  /\ Crossing(h, op) \in History
           /\ Crossing(h, op).login = h.login /\ Crossing(h, op).base = h.base
           /\ Crossing(h, op).out = h.out
           /\ Crossing(h, op).live = (IF Mixed(op) THEN None ELSE h.live)
           /\ Crossing(h, op).pending = (IF Quiet THEN h.pending ELSE None)
<1> HIDE DEF Mixed, Quiet
<1> QED
  BY DEF Crossing, History, Number

(* Of the login t nothing is changed but when it was seen last.            *)
SeenOnly(login, next, t) ==
    /\ next[t].at = login[t].at /\ next[t].window = login[t].window
    /\ next[t].seen = login[t].seen \/ next[t].seen = now

LEMMA ServedFacts ==
    ASSUME Sound, ValidSession, NEW op
    PROVE  /\ Served(op) \in History
           /\ Served(op).out = hist.out
           /\ Served(op).base = (IF Quiet THEN now ELSE hist.base)
           /\ Served(op).live = (IF Mixed(op) THEN None ELSE hist.live)
           /\ Served(op).pending = (IF Quiet THEN hist.pending ELSE None)
           /\ Served(op).login[Session.token].seen = now
           /\ \A t \in 1 .. MaxTokens : SeenOnly(hist.login, Served(op).login, t)
<1> DEFINE h == Crossing(hist, op)
<1>1. hist \in History /\ now \in Nat
  BY Constants DEF Sound, Counters
<1>2. h \in History /\ h.login = hist.login /\ h.base = hist.base /\ h.out = hist.out
      /\ h.live = (IF Mixed(op) THEN None ELSE hist.live)
      /\ h.pending = (IF Quiet THEN hist.pending ELSE None)
  BY <1>1, CrossingFacts
<1>3. Session.token \in 1 .. MaxTokens
  BY ValidFacts
<1> DEFINE next == [h EXCEPT !.base = IF Quiet THEN now ELSE @, !.login[Session.token].seen = now]
<1>4. Served(op) = next
  BY DEF Served
<1> DEFINE l == [h.login EXCEPT ![Session.token].seen = now]
<1> HIDE DEF h, Mixed, Quiet
<1>5. l \in [1 .. MaxTokens -> LoginHistory]
  BY <1>1, <1>2, <1>3 DEF History, LoginHistory
<1>6. /\ next.out = h.out /\ next.base = (IF Quiet THEN now ELSE h.base)
      /\ next.live = h.live /\ next.pending = h.pending
      /\ next.login = l
  BY <1>2 DEF History
<1>7. next \in History
  <2>1. next = [h EXCEPT !.base = IF Quiet THEN now ELSE @, !.login = l]
    BY <1>2 DEF History
  <2> HIDE DEF l, next
  <2> QED
    BY <1>1, <1>2, <1>5, <2>1 DEF History
<1>8. l[Session.token].seen = now
  BY <1>1, <1>2, <1>3 DEF History, LoginHistory
<1>9. ASSUME NEW t \in 1 .. MaxTokens PROVE SeenOnly(hist.login, l, t)
  BY <1>1, <1>2, <1>3 DEF History, LoginHistory, SeenOnly
<1> HIDE DEF l, next
<1> QED
  BY <1>2, <1>4, <1>6, <1>7, <1>8, <1>9

LEMMA LoggedInFacts ==
    ASSUME Sound, NEW age \in Nat, logins + begun < MaxTokens
    PROVE  /\ LoggedIn(age) \in History
           /\ LoggedIn(age).out = hist.out
           /\ LoggedIn(age).base = (IF Quiet THEN now ELSE hist.base)
           /\ LoggedIn(age).live = (IF Mixed("login") THEN None ELSE hist.live)
           /\ LoggedIn(age).pending = (IF Quiet THEN hist.pending ELSE None)
           /\ LoggedIn(age).login[logins + 1]
              = [at |-> now, seen |-> now, window |-> effectiveIdleSeconds(age)]
           /\ \A t \in 1 .. logins : LoggedIn(age).login[t] = hist.login[t]
<1> DEFINE h == Crossing(hist, "login")
           first == [at |-> now, seen |-> now, window |-> effectiveIdleSeconds(age)]
<1>1. hist \in History /\ now \in Nat /\ logins \in Nat /\ begun \in Nat /\ MaxTokens \in Nat
  BY Constants DEF Sound, Counters
<1>2. h \in History /\ h.login = hist.login /\ h.base = hist.base /\ h.out = hist.out
      /\ h.live = (IF Mixed("login") THEN None ELSE hist.live)
      /\ h.pending = (IF Quiet THEN hist.pending ELSE None)
  BY <1>1, CrossingFacts
<1>3. logins + 1 \in 1 .. MaxTokens /\ \A t \in 1 .. logins : t # logins + 1 /\ t \in 1 .. MaxTokens
  BY <1>1
<1>4. first \in LoginHistory
  BY <1>1, EffectiveIdle DEF LoginHistory
<1> DEFINE next == [h EXCEPT !.base = IF Quiet THEN now ELSE @, !.login[logins + 1] = first]
<1>5. LoggedIn(age) = next
  BY DEF LoggedIn
<1> DEFINE l == [h.login EXCEPT ![logins + 1] = first]
<1> HIDE DEF h, first, Mixed, Quiet
<1>6. /\ next.out = h.out /\ next.base = (IF Quiet THEN now ELSE h.base)
      /\ next.live = h.live /\ next.pending = h.pending
      /\ next.login = l
  BY <1>2 DEF History
<1>7. l \in [1 .. MaxTokens -> LoginHistory]
  BY <1>2, <1>3, <1>4 DEF History
<1>8. next \in History
  <2>1. next = [h EXCEPT !.base = IF Quiet THEN now ELSE @, !.login = l]
    BY <1>2 DEF History
  <2> HIDE DEF l, next
  <2> QED
    BY <1>1, <1>2, <1>7, <2>1 DEF History
<1>9. l[logins + 1] = first /\ \A t \in 1 .. logins : l[t] = hist.login[t]
  BY <1>1, <1>2, <1>3 DEF History
<1> HIDE DEF l, next
<1> QED
  BY <1>2, <1>5, <1>6, <1>8, <1>9 DEF first

-----------------------------------------------------------------------------
(* Every copy is sound.                                                    *)

LEMMA InitSound == Init => Sound
<1> SUFFICES ASSUME Init PROVE Sound
  OBVIOUS
<1> USE DEF Init
<1>1. NoHistory.login \in [1 .. MaxTokens -> LoginHistory]
  BY DEF NoHistory, NoLogin, LoginHistory
<1>2. NoHistory \in History
  BY <1>1 DEF NoHistory, History, Number
<1>3. hist.live = None /\ hist.base = 0 /\ hist.out = {}
  BY DEF NoHistory
<1>4. Counters
  BY <1>2, <1>3, Constants, SessionAssumption DEF Counters
<1>5. SoundJar
  BY DEF SoundJar, NoCookies
<1> QED
  BY <1>4, <1>5 DEF Sound

(* Old copies when only the histories and the counters move on.            *)
LEMMA CopiesStaySound ==
    ASSUME Sound, logins \in Nat, logins' \in Nat, logins <= logins', UNCHANGED <<now, android>>,
           hist'.out = hist.out,
           hist'.base = hist.base \/ (Quiet /\ hist'.base = now),
           \A t \in 1 .. logins : SeenOnly(hist.login, hist'.login, t)
    PROVE  /\ jar' = jar => SoundJar'
           /\ \A r \in replies : SoundReply(r)'
<1>1. now \in Nat
  BY DEF Sound, Counters
<1>2. ASSUME NEW v, SoundValues(v), v.updated <= now PROVE SoundValues(v)'
  <2>1. v.updated \in Nat
    BY <1>2 DEF SoundValues, Values
  <2>2. \A t \in 1 .. logins :
               /\ hist'.login[t].at = hist.login[t].at
               /\ hist'.login[t].window = hist.login[t].window
               /\ \/ hist'.login[t].seen = hist.login[t].seen
                  \/ v.updated <= hist'.login[t].seen
    BY <1>2 DEF SeenOnly
  <2> QED
    BY <1>2, <2>2, StaysSound
<1>3. ASSUME jar' = jar PROVE SoundJar'
  <2>1. ASSUME jar.session # None PROVE SoundValues(jar.session.values)'
    <3>1. SoundValues(jar.session.values) /\ jar.session.values.updated <= jar.session.encoded
          /\ jar.session.encoded <= now /\ jar.session.encoded \in Nat
      BY <2>1 DEF Sound, SoundJar, SessionCookie
    <3>2. jar.session.values.updated \in Nat
      BY <3>1 DEF SoundValues, Values
    <3>3. jar.session.values.updated <= now
      BY <3>1, <3>2, <1>1
    <3> DEFINE v == jar.session.values
    <3> HIDE DEF v
    <3>4. SoundValues(v) /\ v.updated <= now
      BY <3>1, <3>3 DEF v
    <3>5. \A u : SoundValues(u) /\ u.updated <= now => SoundValues(u)'
      BY <1>2
    <3>6. jar'.session.values = jar.session.values
      BY <1>3
    <3> QED
      BY <3>4, <3>5, <3>6 DEF v, SoundValues
  <2>2. jar.token # None => jar.token.value \in 1 .. logins'
    BY DEF Sound, SoundJar
  <2>3. jar \in [session: SessionCookie \cup {None}, token: TokenCookie \cup {None}]
    BY DEF Sound, SoundJar
  <2>4. jar.session # None =>
        /\ jar.session.values.updated <= jar.session.encoded
        /\ jar.session.encoded <= now /\ now < jar.session.expires
    BY DEF Sound, SoundJar
  <2>5. now' = now
    OBVIOUS
  <2> HIDE DEF SoundValues
  <2> QED
    BY <1>3, <2>1, <2>2, <2>3, <2>4, <2>5 DEF SoundJar
<1>4. ASSUME NEW r \in replies PROVE SoundReply(r)'
  <2>1. SoundReply(r)
    BY DEF Sound
  <2>2. r.served \in Nat /\ r.values.updated \in Nat /\ r.values.updated <= r.served /\ r.served <= now
    BY <2>1 DEF SoundReply, ReplyMessage, Values
  <2>3. SoundValues(r.values)'
    BY <1>1, <1>2, <2>1, <2>2 DEF SoundReply
  <2>4. ~Quiet
    BY DEF Quiet
  <2>5. hist'.base = hist.base
    BY <2>4
  <2>6. r.values.token # None => hist'.login[r.values.token].window = hist.login[r.values.token].window
    BY <2>1 DEF SoundReply, SoundValues, SeenOnly
  <2> HIDE DEF SoundValues
  <2> QED
    BY <2>1, <2>2, <2>3, <2>5, <2>6 DEF SoundReply
<1> QED
  BY <1>3, <1>4

(* A request that adds the reply m.                                        *)
LEMMA AnswerIsSound ==
    ASSUME Sound, NEW m, replies' = replies \cup {m}, SoundReply(m)', Counters',
           logins <= logins', UNCHANGED <<now, android, jar>>,
           hist'.out = hist.out,
           hist'.base = hist.base \/ (Quiet /\ hist'.base = now),
           \A t \in 1 .. logins : SeenOnly(hist.login, hist'.login, t)
    PROVE  Sound'
<1>1. logins \in Nat /\ logins' \in Nat
  BY DEF Sound, Counters
<1>2. SoundJar' /\ \A r \in replies : SoundReply(r)'
  BY <1>1, CopiesStaySound
<1> QED
  BY <1>2 DEF Sound

(* The fields of a reply, and that it is under way.                        *)
ReplyOf(op, values, age, both) ==
    [op |-> op, values |-> values, age |-> age, both |-> both, served |-> now]

LEMMA OverFacts ==
    ASSUME NEW h \in History
    PROVE  /\ Over(h) \in History
           /\ Over(h).login = h.login /\ Over(h).base = h.base
           /\ Over(h).out = h.out /\ Over(h).live = h.live /\ Over(h).pending = None
BY DEF Over, History

(* An authenticated request that stamps the session.                       *)
LEMMA ServedIsSound ==
    ASSUME Sound, ValidSession, NEW op \in {"visit", "edit", "register/begin"},
           NEW v \in Values,
           v.token = Session.token, v.maxAge = Session.maxAge, v.created = Session.created,
           v.updated = now,
           Reply(op, v, Window, TRUE),
           hist' = Served(op) \/ hist' = Over(Served(op)),
           UNCHANGED <<now, android, jar, logins>>,
           crc' \in 0 .. MaxChanges, begun' \in Nat, logins + begun' <= MaxTokens,
           table' \subseteq Kinds \X (1 .. begun')
    PROVE  Sound'
<1> PICK m : m = ReplyOf(op, v, Window, TRUE)
  OBVIOUS
<1> DEFINE t == Session.token
<1>1. /\ hist' \in History
      /\ hist'.out = hist.out /\ hist'.base = (IF Quiet THEN now ELSE hist.base)
      /\ hist'.live = (IF Mixed(op) THEN None ELSE hist.live)
      /\ hist'.login[t].seen = now
      /\ \A u \in 1 .. MaxTokens : SeenOnly(hist.login, hist'.login, u)
  <2> HIDE DEF Mixed, Quiet, SeenOnly
  <2> QED
    BY ServedFacts, OverFacts
<1>2. /\ hist \in History /\ now \in Nat /\ logins \in Nat /\ now \in 0 .. MaxNow
      /\ android \in BOOLEAN /\ hist.base \in Nat /\ hist.base <= now
      /\ begun \in Nat /\ logins + begun <= MaxTokens /\ MaxTokens \in Nat
  BY Constants DEF Sound, Counters, History
<1>3. \A u \in 1 .. logins : u \in 1 .. MaxTokens
  BY <1>2
<1>4. t \in 1 .. logins /\ t # None /\ Session.created \in Nat /\ Session.maxAge \in Nat
      /\ Session.updated \in Nat /\ Session.updated <= now
      /\ SoundValues(Session)
  BY ValidFacts, SessionFacts
<1>5. hist'.live \in {None} \cup 1 .. logins /\ hist'.base <= now
  BY <1>1, <1>2 DEF Sound, Counters
<1>6. Counters'
  BY <1>1, <1>2, <1>5 DEF Sound, Counters
<1>7. effectiveIdleSeconds(v.maxAge)' = Window /\ Window \in Nat
  BY <1>4, EffectiveIdle DEF Window, effectiveIdleSeconds
<1>8. Window = hist'.login[t].window /\ Day <= hist'.login[t].window
      /\ hist'.login[t].at = Session.created
  BY <1>1, <1>2, <1>4 DEF SoundValues, SeenOnly, Window
<1>9. SoundValues(v)'
  <2>1. v.created <= v.updated
    <3>1. Session.created <= Session.updated
      BY <1>4 DEF SoundValues
    <3> QED
      BY <1>2, <1>4, <3>1
  <2>2. v.token \in 1 .. logins' /\ v.token \notin hist'.out
    BY <1>1, <1>4 DEF SoundValues
  <2>3. v.updated <= hist'.login[v.token].seen /\ v.created = hist'.login[v.token].at
    BY <1>1, <1>2, <1>8
  <2> QED
    BY <1>7, <1>8, <2>1, <2>2, <2>3 DEF SoundValues
<1>10. m \in ReplyMessage
  BY <1>2, <1>7 DEF ReplyMessage, ReplyOf, Operations
<1>11. /\ m.op = op /\ m.values = v /\ m.age = Window /\ m.served = now
  BY DEF ReplyOf
<1>12. replies' = replies \cup {m}
  BY DEF Reply, ReplyOf
<1>13. hist'.base = hist.base \/ (Quiet /\ hist'.base = now)
  BY <1>1
<1>14. SoundReply(m)'
  <2>1. now' = now /\ v.updated = now
    OBVIOUS
  <2>2. m.served = now /\ m.served = now' /\ m.values.updated = now /\ now \in Nat
    BY <1>2, <1>5, <1>11, <2>1
  <2>3. now <= now
    BY <2>2
  <2>4. hist'.base <= m.served /\ m.served <= now' /\ m.values.updated <= m.served
    BY <1>2, <1>5, <1>11, <2>2, <2>3
  <2>5. m.values.token # None /\ m.op \notin {"login/begin", "logout"}
        /\ m.age = hist'.login[m.values.token].window /\ m.values.updated = m.served
    BY <1>4, <1>8, <1>11
  <2>6. m.both
    BY DEF ReplyOf
  <2> QED
    BY <1>9, <1>10, <1>11, <2>4, <2>5, <2>6 DEF SoundReply
<1>15. logins <= logins' /\ hist'.out = hist.out
       /\ \A u \in 1 .. logins : SeenOnly(hist.login, hist'.login, u)
  BY <1>3, <1>1, <1>2
<1> QED
  BY <1>6, <1>12, <1>13, <1>14, <1>15, AnswerIsSound

(* A login, with a passkey or without.                                     *)
LEMMA LoginIsSound ==
    ASSUME Sound, NEW age \in {Day, Week}, NEW v \in Values,
           v.token = logins + 1, v.maxAge = effectiveIdleSeconds(age), v.created = now,
           v.updated = now,
           logins + begun < MaxTokens,
           Reply("login", v, effectiveIdleSeconds(age), TRUE),
           hist' = LoggedIn(age) \/ hist' = Over(LoggedIn(age)),
           logins' = logins + 1,
           UNCHANGED <<now, android, crc, jar, begun>>,
           table' \subseteq table
    PROVE  Sound'
<1> PICK m : m = ReplyOf("login", v, effectiveIdleSeconds(age), TRUE)
  OBVIOUS
<1> DEFINE t == logins + 1
<1>1. /\ hist \in History /\ now \in Nat /\ logins \in Nat /\ begun \in Nat /\ now \in 0 .. MaxNow
      /\ MaxTokens \in Nat /\ age \in Nat /\ Day <= age /\ Day \in Nat /\ hist.base \in Nat
      /\ hist.base <= now /\ hist.out \subseteq 1 .. logins /\ None \notin Nat
  BY Constants DEF Sound, Counters, History
<1>2. /\ hist' \in History
      /\ hist'.out = hist.out /\ hist'.base = (IF Quiet THEN now ELSE hist.base)
      /\ hist'.live = (IF Mixed("login") THEN None ELSE hist.live)
      /\ hist'.login[t] = [at |-> now, seen |-> now, window |-> effectiveIdleSeconds(age)]
      /\ \A u \in 1 .. logins : hist'.login[u] = hist.login[u]
  <2> HIDE DEF Mixed, Quiet
  <2> QED
    BY <1>1, LoggedInFacts, OverFacts
<1>3. hist'.live \in {None} \cup 1 .. t /\ hist'.base <= now /\ hist'.out \subseteq 1 .. t
  BY <1>1, <1>2 DEF Sound, Counters
<1>4. table' \subseteq Kinds \X (1 .. begun)
  BY DEF Sound, Counters
<1>5. Counters'
  BY <1>1, <1>2, <1>3, <1>4 DEF Sound, Counters
<1>6. /\ effectiveIdleSeconds(v.maxAge)' = effectiveIdleSeconds(age)
      /\ effectiveIdleSeconds(age) \in Nat /\ age <= effectiveIdleSeconds(age)
  BY <1>1, EffectiveIdle DEF effectiveIdleSeconds
<1>7. hist'.login[t].window = effectiveIdleSeconds(age) /\ Day <= hist'.login[t].window
      /\ hist'.login[t].at = now /\ hist'.login[t].seen = now
  BY <1>1, <1>2, <1>6
<1>8. t \in 1 .. logins' /\ t \notin hist'.out /\ t # None
  BY <1>1, <1>2
<1>9. SoundValues(v)'
  BY <1>1, <1>6, <1>7, <1>8 DEF SoundValues
<1>10. m \in ReplyMessage
  BY <1>1, <1>6 DEF ReplyMessage, ReplyOf, Operations
<1>11. /\ m.op = "login" /\ m.values = v /\ m.age = effectiveIdleSeconds(age)
       /\ m.served = now
  BY DEF ReplyOf
<1>12. replies' = replies \cup {m}
  BY DEF Reply, ReplyOf
<1>13. hist'.base = hist.base \/ (Quiet /\ hist'.base = now)
  BY <1>2
<1>14. \A u \in 1 .. logins : SeenOnly(hist.login, hist'.login, u)
  BY <1>2 DEF SeenOnly
<1>15. SoundReply(m)'
  <2>1. now' = now /\ v.updated = now
    OBVIOUS
  <2>2. m.served = now /\ m.served = now' /\ m.values.updated = now /\ now \in Nat
    BY <1>1, <1>3, <1>11, <2>1
  <2>3. now <= now
    BY <2>2
  <2>4. hist'.base <= m.served /\ m.served <= now' /\ m.values.updated <= m.served
    BY <1>1, <1>3, <1>11, <2>2, <2>3
  <2>5. m.values.token # None /\ m.op \notin {"login/begin", "logout"}
        /\ m.age = hist'.login[m.values.token].window /\ m.values.updated = m.served
    BY <1>7, <1>8, <1>11
  <2>6. m.both
    BY DEF ReplyOf
  <2> QED
    BY <1>9, <1>10, <1>11, <2>4, <2>5, <2>6 DEF SoundReply
<1>16. logins <= logins'
  BY <1>1
<1> QED
  BY <1>2, <1>5, <1>12, <1>13, <1>14, <1>15, <1>16, AnswerIsSound

(* Changing the ceremony of a session changes nothing else of it.          *)
LEMMA CeremonyFacts ==
    ASSUME NEW v \in Values, NEW kind \in Kinds, NEW c \in Number
    PROVE  /\ WithCeremony(v, kind, c) \in Values
           /\ WithCeremony(v, kind, c).token = v.token
           /\ WithCeremony(v, kind, c).hash = v.hash
           /\ WithCeremony(v, kind, c).maxAge = v.maxAge
           /\ WithCeremony(v, kind, c).created = v.created
           /\ WithCeremony(v, kind, c).updated = v.updated
           /\ WithCeremony(v, kind, c).ceremony = [v.ceremony EXCEPT ![kind] = c]
<1> DEFINE f == [v.ceremony EXCEPT ![kind] = c]
<1>1. f \in [Kinds -> Number]
  BY DEF Values
<1>2. WithCeremony(v, kind, c) = [v EXCEPT !.ceremony = f]
  BY DEF WithCeremony, Values
<1> HIDE DEF f
<1>3. [v EXCEPT !.ceremony = f] \in Values
  BY <1>1 DEF Values
<1>4. /\ [v EXCEPT !.ceremony = f].token = v.token
      /\ [v EXCEPT !.ceremony = f].hash = v.hash
      /\ [v EXCEPT !.ceremony = f].maxAge = v.maxAge
      /\ [v EXCEPT !.ceremony = f].created = v.created
      /\ [v EXCEPT !.ceremony = f].updated = v.updated
      /\ [v EXCEPT !.ceremony = f].ceremony = f
  BY DEF Values
<1> QED
  BY <1>2, <1>3, <1>4 DEF f

LEMMA TouchFacts ==
    ASSUME Sound, NEW s \in Values
    PROVE  /\ touchSessionIdle(s) \in Values
           /\ touchSessionIdle(s).token = s.token /\ touchSessionIdle(s).hash = s.hash
           /\ touchSessionIdle(s).maxAge = s.maxAge
           /\ touchSessionIdle(s).created = s.created
           /\ touchSessionIdle(s).updated = now
           /\ touchSessionIdle(s).ceremony = s.ceremony
<1>1. now \in Nat
  BY DEF Sound, Counters
<1> QED
  BY <1>1 DEF touchSessionIdle, Values

LEMMA SetUserFacts ==
    ASSUME Sound, NEW s \in Values
    PROVE  /\ setUser(s) \in Values
           /\ setUser(s).token = s.token /\ setUser(s).hash = crc + 1
           /\ setUser(s).maxAge = s.maxAge
           /\ setUser(s).created = s.created
           /\ setUser(s).updated = s.updated
           /\ setUser(s).ceremony = s.ceremony
<1>1. crc + 1 \in Number
  BY DEF Sound, Counters, Number
<1> QED
  BY <1>1 DEF setUser, Values

LEMMA LoginFacts ==
    ASSUME Sound, NEW s \in Values, NEW age \in {Day, Week}
    PROVE  /\ setLoginSession(s, age) \in Values
           /\ setLoginSession(s, age).token = logins + 1 /\ setLoginSession(s, age).hash = crc
           /\ setLoginSession(s, age).maxAge = effectiveIdleSeconds(age)
           /\ setLoginSession(s, age).created = now
           /\ setLoginSession(s, age).updated = now
           /\ setLoginSession(s, age).ceremony = s.ceremony
<1>1. crc \in Number /\ logins + 1 \in Number /\ now \in Nat /\ effectiveIdleSeconds(age) \in Nat
  BY Constants, EffectiveIdle DEF Sound, Counters, Number
<1> QED
  BY <1>1 DEF setLoginSession, Values

LEMMA VisitSound == Sound /\ Visit => Sound'
<1> SUFFICES ASSUME Sound, Visit PROVE Sound'
  OBVIOUS
<1> USE DEF Visit
<1>1. PICK v : v = touchSessionIdle(Session)
  OBVIOUS
<1>2. v \in Values /\ v.token = Session.token /\ v.maxAge = Session.maxAge
      /\ v.created = Session.created /\ v.updated = now
  BY <1>1, SessionFacts, TouchFacts
<1>3. Reply("visit", v, Window, TRUE)
  BY <1>1
<1>4. crc' \in 0 .. MaxChanges /\ begun' \in Nat /\ logins + begun' <= MaxTokens
      /\ table' \subseteq Kinds \X (1 .. begun')
  BY DEF Sound, Counters
<1> QED
  BY <1>2, <1>3, <1>4, ServedIsSound

LEMMA OwnEditSound == Sound /\ OwnEdit => Sound'
<1> SUFFICES ASSUME Sound, OwnEdit PROVE Sound'
  OBVIOUS
<1> USE DEF OwnEdit
<1>1. PICK v : v = setUser(touchSessionIdle(Session))
  OBVIOUS
<1>2. v \in Values /\ v.token = Session.token /\ v.maxAge = Session.maxAge
      /\ v.created = Session.created /\ v.updated = now
  <2>1. PICK s : s = touchSessionIdle(Session)
    OBVIOUS
  <2>2. s \in Values /\ s.token = Session.token /\ s.maxAge = Session.maxAge
        /\ s.created = Session.created /\ s.updated = now
    BY <2>1, SessionFacts, TouchFacts
  <2> QED
    BY <1>1, <2>1, <2>2, SetUserFacts
<1>3. Reply("edit", v, Window, TRUE)
  BY <1>1
<1>4. crc' \in 0 .. MaxChanges /\ begun' \in Nat /\ logins + begun' <= MaxTokens
      /\ table' \subseteq Kinds \X (1 .. begun')
  BY SessionAssumption DEF Sound, Counters
<1> QED
  BY <1>2, <1>3, <1>4, ServedIsSound

LEMMA PasskeyBeginRegisterSound == Sound /\ PasskeyBeginRegister => Sound'
<1> SUFFICES ASSUME Sound, PasskeyBeginRegister PROVE Sound'
  OBVIOUS
<1> USE DEF PasskeyBeginRegister, Begin
<1>1. PICK v : v = WithCeremony(touchSessionIdle(Session), "register", begun + 1)
  OBVIOUS
<1>2. begun \in Nat /\ logins \in Nat /\ MaxTokens \in Nat /\ table \subseteq Kinds \X (1 .. begun)
      /\ crc \in 0 .. MaxChanges
  BY Constants DEF Sound, Counters
<1>3. v \in Values /\ v.token = Session.token /\ v.maxAge = Session.maxAge
      /\ v.created = Session.created /\ v.updated = now
  <2>1. PICK s : s = touchSessionIdle(Session)
    OBVIOUS
  <2>2. s \in Values /\ s.token = Session.token /\ s.maxAge = Session.maxAge
        /\ s.created = Session.created /\ s.updated = now
    BY <2>1, SessionFacts, TouchFacts
  <2>3. PICK c : c = begun + 1
    OBVIOUS
  <2>4. c \in Number /\ "register" \in Kinds
    BY <1>2, <2>3 DEF Number, Kinds
  <2>5. v = WithCeremony(s, "register", c)
    BY <1>1, <2>1, <2>3
  <2>6. /\ v \in Values /\ v.token = s.token /\ v.maxAge = s.maxAge
        /\ v.created = s.created /\ v.updated = s.updated
    BY ONLY <2>2, <2>4, <2>5, CeremonyFacts
  <2> QED
    BY <2>2, <2>6
<1>4. Reply("register/begin", v, Window, TRUE)
  BY <1>1
<1>5. crc' \in 0 .. MaxChanges /\ begun' \in Nat /\ logins + begun' <= MaxTokens
      /\ table' \subseteq Kinds \X (1 .. begun')
  BY <1>2 DEF Kinds
<1>6. UNCHANGED <<now, android, jar, logins>>
  OBVIOUS
<1> QED
  BY <1>3, <1>4, <1>5, <1>6, ServedIsSound

LEMMA PasskeyFinishRegisterSound == Sound /\ PasskeyFinishRegister => Sound'
<1> SUFFICES ASSUME Sound, PasskeyFinishRegister PROVE Sound'
  OBVIOUS
<1> USE DEF PasskeyFinishRegister
<1>1. PICK v : v = WithCeremony(setUser(touchSessionIdle(Session)), "register", None)
  OBVIOUS
<1>2. v \in Values /\ v.token = Session.token /\ v.maxAge = Session.maxAge
      /\ v.created = Session.created /\ v.updated = now
  <2>1. PICK s : s = touchSessionIdle(Session)
    OBVIOUS
  <2>2. s \in Values /\ s.token = Session.token /\ s.maxAge = Session.maxAge
        /\ s.created = Session.created /\ s.updated = now
    BY <2>1, SessionFacts, TouchFacts
  <2>3. PICK e : e = setUser(s)
    OBVIOUS
  <2>4. e \in Values /\ e.token = s.token /\ e.maxAge = s.maxAge
        /\ e.created = s.created /\ e.updated = s.updated
    BY <2>2, <2>3, SetUserFacts
  <2>5. None \in Number /\ "register" \in Kinds
    BY DEF Number, Kinds
  <2>6. v = WithCeremony(e, "register", None)
    BY <1>1, <2>1, <2>3
  <2>7. /\ v \in Values /\ v.token = e.token /\ v.maxAge = e.maxAge
        /\ v.created = e.created /\ v.updated = e.updated
    BY ONLY <2>4, <2>5, <2>6, CeremonyFacts
  <2> QED
    BY <2>2, <2>4, <2>7
<1>3. Reply("edit", v, Window, TRUE)
  BY <1>1
<1>4. crc' \in 0 .. MaxChanges /\ begun' \in Nat /\ logins + begun' <= MaxTokens
      /\ table' \subseteq Kinds \X (1 .. begun')
  BY SessionAssumption DEF Sound, Counters
<1> QED
  BY <1>2, <1>3, <1>4, ServedIsSound

LEMMA LoginSound == ASSUME NEW age \in {Day, Week} PROVE Sound /\ Login(age) => Sound'
<1> SUFFICES ASSUME Sound, Login(age) PROVE Sound'
  OBVIOUS
<1> USE DEF Login
<1>1. PICK v : v = setLoginSession(Session, age)
  OBVIOUS
<1>2. v \in Values /\ v.token = logins + 1 /\ v.maxAge = effectiveIdleSeconds(age)
      /\ v.created = now /\ v.updated = now
  BY <1>1, SessionFacts, LoginFacts
<1>3. Reply("login", v, effectiveIdleSeconds(age), TRUE) /\ table' \subseteq table
  BY <1>1
<1> QED
  BY <1>2, <1>3, LoginIsSound

LEMMA PasskeyFinishLoginSound ==
    ASSUME NEW age \in {Day, Week} PROVE Sound /\ PasskeyFinishLogin(age) => Sound'
<1> SUFFICES ASSUME Sound, PasskeyFinishLogin(age) PROVE Sound'
  OBVIOUS
<1> USE DEF PasskeyFinishLogin
<1>1. PICK v : v = WithCeremony(setLoginSession(Session, age), "login", None)
  OBVIOUS
<1>2. v \in Values /\ v.token = logins + 1 /\ v.maxAge = effectiveIdleSeconds(age)
      /\ v.created = now /\ v.updated = now
  <2>1. PICK s : s = setLoginSession(Session, age)
    OBVIOUS
  <2>2. s \in Values /\ s.token = logins + 1 /\ s.maxAge = effectiveIdleSeconds(age)
        /\ s.created = now /\ s.updated = now
    BY <2>1, SessionFacts, LoginFacts
  <2>3. None \in Number /\ "login" \in Kinds
    BY DEF Number, Kinds
  <2> QED
    BY <1>1, <2>1, <2>2, <2>3, CeremonyFacts
<1>3. Reply("login", v, effectiveIdleSeconds(age), TRUE) /\ table' \subseteq table
  BY <1>1
<1> QED
  BY <1>2, <1>3, LoginIsSound

LEMMA LogoutSound == Sound /\ Logout => Sound'
<1> SUFFICES ASSUME Sound, Logout PROVE Sound'
  OBVIOUS
<1> USE DEF Logout
<1>1. PICK m : m = ReplyOf("logout", Session, 0, TRUE)
  OBVIOUS
<1>2. /\ m.op = "logout" /\ m.values = Session /\ m.served = now
      /\ replies' = replies \cup {m}
  BY <1>1 DEF ReplyOf, Reply
<1>3. m.both
  BY <1>1 DEF ReplyOf
<1>4. hist \in History /\ now \in Nat /\ logins \in Nat /\ hist.base <= now /\ Session \in Values
      /\ hist.base \in Nat
  <2> HIDE DEF Logout
  <2>1. Session \in Values
    BY SessionFacts
  <2> QED
    BY <2>1, Constants DEF Sound, Counters, History
<1>5. PICK h : h = Crossing(hist, "logout")
  OBVIOUS
<1>6. h \in History /\ h.login = hist.login /\ h.base = hist.base /\ h.out = hist.out
  BY <1>4, <1>5, CrossingFacts
<1>7. hist' = [h EXCEPT !.live = None, !.pending = None]
  BY <1>5
<1>8. /\ hist' \in History /\ hist'.login = hist.login /\ hist'.base = hist.base
      /\ hist'.out = hist.out /\ hist'.live = None
  BY <1>6, <1>7 DEF History, Number
<1>9. Counters'
  BY <1>8 DEF Sound, Counters
<1>10. \A t \in 1 .. logins : SeenOnly(hist.login, hist'.login, t)
  BY <1>8 DEF SeenOnly
<1>11. SoundReply(m)'
  <2>1. m \in ReplyMessage
    BY <1>1, <1>4 DEF ReplyMessage, ReplyOf, Operations
  <2>2. Session.token # None /\ Session.updated <= now /\ SoundValues(Session)
    BY ValidFacts, SessionFacts
  <2>3. SoundValues(m.values)'
    <3>1. PICK v : v = Session
      OBVIOUS
    <3>2. SoundValues(v)
      BY <2>2, <3>1
    <3>3. SoundValues(v)'
      BY <1>4, <1>8, <3>2, StaysSound
    <3> QED
      BY <1>2, <3>1, <3>3
  <2>4. now' = now
    OBVIOUS
  <2>5. hist'.base <= m.served /\ m.served <= now' /\ m.values.updated <= m.served
    <3>1. now <= now
      BY <1>4
    <3> QED
      BY <1>2, <1>4, <1>8, <2>2, <2>4, <3>1
  <2> QED
    BY <1>2, <1>3, <2>1, <2>2, <2>3, <2>5 DEF SoundReply
<1>12. logins <= logins'
  BY <1>4
<1> QED
  BY <1>2, <1>8, <1>9, <1>10, <1>11, <1>12, AnswerIsSound

LEMMA PasskeyBeginLoginSound == Sound /\ PasskeyBeginLogin => Sound'
<1> SUFFICES ASSUME Sound, PasskeyBeginLogin PROVE Sound'
  OBVIOUS
<1> USE DEF PasskeyBeginLogin, Begin
<1>1. PICK v : v = WithCeremony(Session, "login", begun + 1)
  OBVIOUS
<1>2. PICK m : m = ReplyOf("login/begin", v, Week, FALSE)
  OBVIOUS
<1>3. /\ m.op = "login/begin" /\ m.values = v /\ m.age = Week /\ m.served = now
      /\ replies' = replies \cup {m}
  BY <1>1, <1>2 DEF ReplyOf, Reply
<1>4. ~m.both
  BY <1>2 DEF ReplyOf
<1>5. hist \in History /\ now \in Nat /\ logins \in Nat /\ hist.base <= now
      /\ hist.base \in Nat /\ begun \in Nat /\ MaxTokens \in Nat
  BY Constants DEF Sound, Counters, History
<1>6. /\ v \in Values /\ v.token = Session.token /\ v.maxAge = Session.maxAge
      /\ v.created = Session.created /\ v.updated = Session.updated
  <2>1. PICK c : c = begun + 1
    OBVIOUS
  <2>2. c \in Number /\ "login" \in Kinds
    BY <1>5, <2>1 DEF Number, Kinds
  <2>3. PICK s : s = Session
    OBVIOUS
  <2>4. s \in Values
    BY <2>3, SessionFacts
  <2>5. v = WithCeremony(s, "login", c)
    BY <1>1, <2>1, <2>3
  <2> HIDE DEF PasskeyBeginLogin, Begin
  <2>6. /\ v \in Values /\ v.token = s.token /\ v.maxAge = s.maxAge
        /\ v.created = s.created /\ v.updated = s.updated
    BY ONLY <2>2, <2>4, <2>5, CeremonyFacts
  <2> QED
    BY <2>3, <2>6
<1>7. /\ hist' \in History /\ hist'.login = hist.login /\ hist'.base = hist.base
      /\ hist'.out = hist.out /\ hist'.live \in {None, hist.live}
  <2> HIDE DEF Mixed, Quiet
  <2> QED
    BY <1>5, CrossingFacts
<1>8. Counters'
  <2>1. begun' = begun + 1 /\ begun' \in Nat /\ logins + begun' <= MaxTokens
        /\ table' \subseteq Kinds \X (1 .. begun')
    BY <1>5 DEF Sound, Counters, Kinds
  <2> QED
    BY <1>5, <1>7, <2>1 DEF Sound, Counters
<1>9. \A t \in 1 .. logins : SeenOnly(hist.login, hist'.login, t)
  BY <1>7 DEF SeenOnly
<1>10. SoundReply(m)'
  <2>1. m \in ReplyMessage
    BY <1>2, <1>5, <1>6, Constants DEF ReplyMessage, ReplyOf, Operations
  <2>2. v.updated <= now /\ SoundValues(v)
    <3>1. SoundValues(Session) /\ Session.updated <= now
      BY SessionFacts
    <3> QED
      BY <1>6, <3>1 DEF SoundValues
  <2>3. SoundValues(v)'
    BY <1>5, <1>7, <2>2, StaysSound
  <2>4. now' = now
    OBVIOUS
  <2>5. hist'.base <= m.served /\ m.served <= now' /\ m.values.updated <= m.served
    <3>1. now <= now
      BY <1>5
    <3> QED
      BY <1>3, <1>5, <1>7, <2>2, <2>4, <3>1
  <2> QED
    BY <1>3, <1>4, <2>1, <2>3, <2>5 DEF SoundReply
<1>11. logins <= logins' /\ UNCHANGED <<now, android, jar>>
  BY <1>5
<1> QED
  BY <1>3, <1>7, <1>8, <1>9, <1>10, <1>11, AnswerIsSound

(* Steps that leave the logins and the requests in flight as they are.     *)
LEMMA AccountChangeSound == Sound /\ AccountChange => Sound'
<1> SUFFICES ASSUME Sound, AccountChange PROVE Sound'
  OBVIOUS
<1> USE DEF AccountChange
<1>1. hist \in History /\ logins \in Nat
  BY DEF Sound, Counters
<1>2. /\ hist' \in History /\ hist'.login = hist.login /\ hist'.base = hist.base
      /\ hist'.out = hist.out /\ hist'.live = None
  BY <1>1 DEF History, Number
<1>3. Counters'
  BY <1>2, SessionAssumption DEF Sound, Counters
<1>4. \A t \in 1 .. logins : SeenOnly(hist.login, hist'.login, t)
  BY <1>2 DEF SeenOnly
<1>5. logins <= logins'
  BY <1>1
<1>6. SoundJar' /\ \A r \in replies : SoundReply(r)'
  BY <1>1, <1>2, <1>4, <1>5, CopiesStaySound
<1> QED
  BY <1>3, <1>6 DEF Sound

LEMMA RestartSound == Sound /\ Restart => Sound'
<1> SUFFICES ASSUME Sound, Restart PROVE Sound'
  OBVIOUS
<1> USE DEF Restart
<1>1. hist \in History /\ logins \in Nat
  BY DEF Sound, Counters
<1>2. /\ hist' \in History /\ hist'.login = hist.login /\ hist'.base = hist.base
      /\ hist'.out = hist.out /\ hist'.live = hist.live
  BY <1>1 DEF History, Number
<1>3. Counters'
  BY <1>2 DEF Sound, Counters
<1>4. \A t \in 1 .. logins : SeenOnly(hist.login, hist'.login, t)
  BY <1>2 DEF SeenOnly
<1>5. logins <= logins'
  BY <1>1
<1>6. SoundJar' /\ \A r \in replies : SoundReply(r)'
  BY <1>1, <1>2, <1>4, <1>5, CopiesStaySound
<1> QED
  BY <1>3, <1>6 DEF Sound

LEMMA PasskeyLoginRefusedSound == Sound /\ PasskeyLoginRefused => Sound'
<1> SUFFICES ASSUME Sound, PasskeyLoginRefused PROVE Sound'
  OBVIOUS
<1> QED
  BY DEF PasskeyLoginRefused, AfterFailure, Sound, Counters, SoundJar, SoundReply, SoundValues,
         effectiveIdleSeconds

LEMMA LoseSound == ASSUME NEW r \in replies PROVE Sound /\ Lose(r) => Sound'
<1> SUFFICES ASSUME Sound, Lose(r) PROVE Sound'
  OBVIOUS
<1> USE DEF Lose
<1>1. hist \in History /\ logins \in Nat
  BY DEF Sound, Counters
<1>2. /\ hist' \in History /\ hist'.login = hist.login /\ hist'.base = hist.base
      /\ hist'.out = hist.out /\ hist'.live = None
  BY <1>1 DEF History, Number
<1>3. Counters'
  BY <1>2 DEF Sound, Counters
<1>4. \A t \in 1 .. logins : SeenOnly(hist.login, hist'.login, t)
  BY <1>2 DEF SeenOnly
<1>5. logins <= logins'
  BY <1>1
<1>6. SoundJar' /\ \A q \in replies : SoundReply(q)'
  BY <1>1, <1>2, <1>4, <1>5, CopiesStaySound
<1> QED
  BY <1>3, <1>6 DEF Sound

LEMMA TickSound == Sound /\ Tick => Sound'
<1> SUFFICES ASSUME Sound, Tick PROVE Sound'
  OBVIOUS
<1> USE DEF Tick
<1>1. now \in Nat /\ now' \in 0 .. MaxNow /\ now' = now + 1 /\ hist.base \in Nat
  BY Constants DEF Sound, Counters, History
<1>2. Counters'
  BY <1>1 DEF Sound, Counters
<1>3. \A v : SoundValues(v) => SoundValues(v)'
  BY DEF SoundValues, effectiveIdleSeconds
<1>4. /\ jar'.session = Kept(jar.session) /\ jar'.token = Kept(jar.token)
      /\ jar' = [session |-> jar'.session, token |-> jar'.token]
  OBVIOUS
<1>5. jar'.session # None => jar'.session = jar.session /\ ~(jar.session.expires <= now')
  BY <1>4 DEF Kept
<1>6. jar'.token # None => jar'.token = jar.token
  BY <1>4 DEF Kept
<1>7. jar' \in [session: SessionCookie \cup {None}, token: TokenCookie \cup {None}]
  <2>1. jar'.session \in SessionCookie \cup {None} /\ jar'.token \in TokenCookie \cup {None}
    BY <1>5, <1>6 DEF Sound, SoundJar
  <2> QED
    BY <1>4, <2>1
<1>8. ASSUME jar'.session # None
      PROVE  /\ SoundValues(jar.session.values)'
             /\ jar'.session.values.updated <= jar'.session.encoded
             /\ jar'.session.encoded <= now' /\ now' < jar'.session.expires
  <2>1. jar'.session = jar.session /\ ~(jar.session.expires <= now')
    BY <1>5, <1>8
  <2>2. jar.session \in SessionCookie /\ jar.session # None
    BY <1>8, <2>1 DEF Sound, SoundJar
  <2>3. jar.session.encoded <= now /\ jar.session.encoded \in Nat /\ jar.session.expires \in Nat
        /\ jar.session.values.updated <= jar.session.encoded /\ SoundValues(jar.session.values)
    BY <2>2 DEF Sound, SoundJar, SessionCookie
  <2>4. jar.session.encoded <= now' /\ now' < jar.session.expires
    BY <1>1, <2>1, <2>3
  <2>5. SoundValues(jar.session.values)'
    <3>1. PICK v : v = jar.session.values
      OBVIOUS
    <3>2. SoundValues(v)'
      BY <1>3, <2>3, <3>1
    <3> QED
      BY <2>1, <3>1, <3>2
  <2> QED
    BY <2>1, <2>3, <2>4, <2>5
<1>9. SoundJar'
  <2>1. jar'.token # None => jar'.token.value \in 1 .. logins'
    BY <1>6 DEF Sound, SoundJar
  <2> QED
    BY <1>7, <1>8, <2>1 DEF SoundJar
<1>10. ASSUME NEW r \in replies' PROVE SoundReply(r)'
  <2>1. SoundReply(r) /\ r.served \in Nat
    BY DEF Sound, SoundReply, ReplyMessage
  <2>2. r.served <= now'
    BY <1>1, <2>1 DEF SoundReply
  <2> QED
    BY <1>3, <2>1, <2>2 DEF SoundReply
<1> QED
  BY <1>2, <1>9, <1>10 DEF Sound

(* What the receipt of a reply adds to the histories.                      *)
LEMMA ReceivedFacts ==
    ASSUME Sound, NEW r \in replies
    PROVE  /\ Received(r) \in History
           /\ Received(r).login = hist.login /\ Received(r).base = hist.base
           /\ Received(r).live = (IF r.op = "login" /\ Alone(r) /\ r.values.hash = crc
                                  THEN r.values.token ELSE hist.live)
           /\ Received(r).out = (IF r.op = "logout" /\ Alone(r)
                                 THEN hist.out \cup {r.values.token} ELSE hist.out)
           /\ Received(r).pending = (IF /\ r.op \in {"login/begin", "register/begin"}
                                        /\ Alone(r)
                                        /\ <<Started(r).kind, Started(r).token>> \in table
                                     THEN Started(r) ELSE hist.pending)
           /\ Started(r) \in Pending
           /\ r.op # "login/begin" => r.values.token \in 1 .. logins
<1>1. SoundReply(r) /\ hist \in History /\ logins \in Nat
  BY DEF Sound, Counters
<1>2. r.values \in Values /\ r.served \in Nat
  BY <1>1 DEF SoundReply, ReplyMessage
<1>3. Started(r) \in Pending
  BY <1>2 DEF Started, Pending, Kinds, Values
<1>4. r.op # "login/begin" => r.values.token \in 1 .. logins
  BY <1>1 DEF SoundReply, SoundValues
<1> DEFINE live == IF r.op = "login" /\ Alone(r) /\ r.values.hash = crc
                   THEN r.values.token ELSE hist.live
           out == IF r.op = "logout" /\ Alone(r)
                  THEN hist.out \cup {r.values.token} ELSE hist.out
           pending == IF /\ r.op \in {"login/begin", "register/begin"}
                         /\ Alone(r)
                         /\ <<Started(r).kind, Started(r).token>> \in table
                      THEN Started(r) ELSE hist.pending
<1>5. Received(r) = [hist EXCEPT !.live = live, !.out = out, !.pending = pending]
  BY <1>1 DEF Received, History
<1>6. live \in Number /\ out \in SUBSET Nat /\ pending \in Pending \cup {None}
  <2> HIDE DEF Alone, Started
  <2>1. hist.live \in Number /\ hist.out \in SUBSET Nat /\ hist.pending \in Pending \cup {None}
    BY <1>1 DEF History
  <2>2. r.values.token \in Number
    BY <1>2 DEF Values
  <2>3. r.op = "logout" => r.values.token \in Nat
    BY <1>4
  <2> QED
    BY <1>3, <2>1, <2>2, <2>3
<1> HIDE DEF live, out, pending
<1>7. /\ Received(r) \in History
      /\ Received(r).login = hist.login /\ Received(r).base = hist.base
      /\ Received(r).live = live /\ Received(r).out = out /\ Received(r).pending = pending
  BY <1>1, <1>5, <1>6 DEF History
<1> QED
  BY <1>3, <1>4, <1>7 DEF live, out, pending

LEMMA ReceiveSound == ASSUME NEW r \in replies PROVE Sound /\ Receive(r) => Sound'
<1> SUFFICES ASSUME Sound, Receive(r) PROVE Sound'
  OBVIOUS
<1> USE DEF Receive
<1>1. SoundReply(r) /\ hist \in History /\ logins \in Nat /\ now \in Nat
  BY Constants DEF Sound, Counters
<1>2. /\ hist' \in History /\ hist'.login = hist.login /\ hist'.base = hist.base
      /\ hist'.live = (IF r.op = "login" /\ Alone(r) /\ r.values.hash = crc
                       THEN r.values.token ELSE hist.live)
      /\ hist'.out = (IF r.op = "logout" /\ Alone(r)
                      THEN hist.out \cup {r.values.token} ELSE hist.out)
      /\ r.op # "login/begin" => r.values.token \in 1 .. logins
  BY ReceivedFacts
<1>3. hist'.live \in {None} \cup 1 .. logins /\ hist'.out \subseteq 1 .. logins
  <2>1. hist.live \in {None} \cup 1 .. logins /\ hist.out \subseteq 1 .. logins
    BY DEF Sound, Counters
  <2>2. r.op = "login" => r.values.token \in 1 .. logins
    BY <1>2
  <2>3. r.op = "logout" => r.values.token \in 1 .. logins
    BY <1>2
  <2> QED
    BY <1>2, <2>1, <2>2, <2>3
<1>4. Counters'
  BY <1>2, <1>3 DEF Sound, Counters
<1>5. CASE r.op = "logout" /\ Alone(r)
  <2>1. replies' = {} /\ jar' = NoCookies
    BY <1>5 DEF Alone, Cookies
  <2>2. SoundJar'
    BY <2>1 DEF SoundJar, NoCookies
  <2> QED
    BY <1>4, <2>1, <2>2 DEF Sound
<1>6. CASE ~(r.op = "logout" /\ Alone(r))
  <2>1. hist'.out = hist.out
    BY <1>2, <1>6
  <2>2. \A t \in 1 .. logins : SeenOnly(hist.login, hist'.login, t)
    BY <1>2 DEF SeenOnly
  <2>3. logins <= logins'
    BY <1>1
  <2>4. \A q \in replies : SoundReply(q)'
    BY <1>1, <1>2, <2>1, <2>2, <2>3, CopiesStaySound
  <2>5. CASE r.op = "logout"
    <3>1. jar' = NoCookies
      BY <2>5 DEF Cookies
    <3>2. SoundJar'
      BY <3>1 DEF SoundJar, NoCookies
    <3> QED
      BY <1>4, <2>4, <3>2 DEF Sound
  <2>6. CASE r.op # "logout"
    <3>1. jar' = SetCookies(r)
      BY <2>6 DEF Cookies
    <3>2. r.values \in Values /\ r.served \in Nat /\ r.age \in Nat
      BY <1>1 DEF SoundReply, ReplyMessage
    <3>3. 0 < r.age
      <4>1. CASE r.op = "login/begin"
        BY <1>1, <4>1, Constants DEF SoundReply
      <4>2. CASE r.op # "login/begin"
        <5>1. r.age = hist.login[r.values.token].window /\ r.values.token # None
          BY <1>1, <2>6, <4>2 DEF SoundReply
        <5>2. Day <= r.age
          BY <1>1, <5>1 DEF SoundReply, SoundValues
        <5> QED
          BY <3>2, <5>2, Constants
      <4> QED
        BY <4>1, <4>2
    <3>4. /\ jar'.session = [values |-> r.values, encoded |-> r.served, expires |-> now + r.age]
          /\ jar'.token = IF r.both THEN [value |-> r.values.token, expires |-> now + r.age]
                          ELSE jar.token
          /\ jar' = [session |-> jar'.session, token |-> jar'.token]
      BY <3>1 DEF SetCookies
    <3>5. now + r.age \in Nat /\ now < now + r.age
      BY <1>1, <3>2, <3>3
    <3>6. jar'.session \in SessionCookie
      BY <3>2, <3>4, <3>5 DEF SessionCookie
    <3>7. jar'.token \in TokenCookie \cup {None} /\ (jar'.token # None => jar'.token.value \in 1 .. logins')
      <4>1. CASE r.both
        <5>1. r.values.token \in 1 .. logins
          BY <1>1, <1>2, <4>1 DEF SoundReply
        <5>2. r.values.token \in Number
          BY <3>2 DEF Values
        <5>3. jar'.token = [value |-> r.values.token, expires |-> now + r.age]
          BY <3>4, <4>1
        <5> QED
          BY <3>5, <5>1, <5>2, <5>3 DEF TokenCookie
      <4>2. CASE ~r.both
        <5>1. jar'.token = jar.token
          BY <3>4, <4>2
        <5> QED
          BY <5>1 DEF Sound, SoundJar
      <4> QED
        BY <4>1, <4>2
    <3>8. SoundValues(r.values)'
      BY <2>4 DEF SoundReply
    <3>9. SoundJar'
      <4>1. jar'.session.values = r.values /\ jar'.session.encoded = r.served
            /\ jar'.session.expires = now + r.age
        BY <3>4
      <4>2. r.values.updated <= r.served /\ r.served <= now
        BY <1>1 DEF SoundReply
      <4>3. SoundValues(jar.session.values)'
        BY <3>8, <4>1
      <4>4. jar' \in [session: SessionCookie \cup {None}, token: TokenCookie \cup {None}]
        BY <3>4, <3>6, <3>7
      <4> QED
        BY <3>5, <3>7, <4>1, <4>2, <4>3, <4>4 DEF SoundJar
    <3> QED
      BY <1>4, <2>4, <3>9 DEF Sound
  <2> QED
    BY <2>5, <2>6
<1> QED
  BY <1>5, <1>6

LEMMA SoundStep == Sound /\ [Next]_vars => Sound'
<1> SUFFICES ASSUME Sound, [Next]_vars PROVE Sound'
  OBVIOUS
<1>1. CASE UNCHANGED vars
  <2> USE <1>1 DEF vars
  <2>1. Counters'
    BY DEF Sound, Counters
  <2>2. SoundJar'
    BY DEF Sound, SoundJar, SoundValues, effectiveIdleSeconds
  <2>3. \A m \in replies' : SoundReply(m)'
    <3>1. TAKE m \in replies'
    <3>2. SoundReply(m)
      BY DEF Sound
    <3> QED
      BY <3>2 DEF SoundReply, SoundValues, effectiveIdleSeconds
  <2> QED
    BY <2>1, <2>2, <2>3 DEF Sound
<1>2. CASE \E age \in {Day, Week} : Login(age) \/ PasskeyFinishLogin(age)
  BY <1>2, LoginSound, PasskeyFinishLoginSound
<1>3. CASE Visit
  BY <1>3, VisitSound
<1>4. CASE OwnEdit
  BY <1>4, OwnEditSound
<1>5. CASE Logout
  BY <1>5, LogoutSound
<1>6. CASE AccountChange
  BY <1>6, AccountChangeSound
<1>7. CASE PasskeyBeginLogin
  BY <1>7, PasskeyBeginLoginSound
<1>8. CASE PasskeyBeginRegister
  BY <1>8, PasskeyBeginRegisterSound
<1>9. CASE PasskeyLoginRefused
  BY <1>9, PasskeyLoginRefusedSound
<1>10. CASE PasskeyFinishRegister
  BY <1>10, PasskeyFinishRegisterSound
<1>11. CASE \E r \in replies : Receive(r) \/ Lose(r)
  BY <1>11, ReceiveSound, LoseSound
<1>12. CASE Tick
  BY <1>12, TickSound
<1>13. CASE Restart
  BY <1>13, RestartSound
<1> QED
  BY <1>1, <1>2, <1>3, <1>4, <1>5, <1>6, <1>7, <1>8, <1>9, <1>10, <1>11, <1>12, <1>13 DEF Next

THEOREM AlwaysSound == Spec => []Sound
BY InitSound, SoundStep, PTL DEF Spec

-----------------------------------------------------------------------------
(* What follows for the session the server is asked to accept.             *)

(* Types; a cookie never speaks of a time or of a login that is to come.   *)
THEOREM TypeCorrect == Spec => []TypeOK
<1>1. Sound => TypeOK
  <2> SUFFICES ASSUME Sound PROVE TypeOK
    OBVIOUS
  <2>1. now \in 0 .. MaxNow /\ android \in BOOLEAN /\ crc \in 0 .. MaxChanges
        /\ table \subseteq Kinds \X (1 .. begun) /\ hist.live \in {None} \cup 1 .. logins
    BY DEF Sound, Counters
  <2>2. SoundJar
    BY DEF Sound
  <2> QED
    BY <2>1, <2>2 DEF SoundJar, SoundValues, TypeOK
<1> QED
  BY <1>1, AlwaysSound, PTL

(* No reply, lost, late or received in the wrong order, makes the server   *)
(* accept a session that nobody used for its idle window, or beyond        *)
(* SESSION_MAX_DURATION of its login.                                      *)
THEOREM Limits == Spec => []AcceptedWithinLimits
<1>1. Sound => AcceptedWithinLimits
  <2> SUFFICES ASSUME Sound, ValidSession
               PROVE  /\ now - hist.login[jar.token.value].seen <= hist.login[jar.token.value].window
                      /\ now - hist.login[jar.token.value].at <= MaxDuration
    BY DEF AcceptedWithinLimits
  <2> DEFINE t == Session.token
  <2>1. t = jar.token.value /\ t # None /\ t \in 1 .. MaxTokens
    BY ValidFacts
  <2>2. hist.login[t] \in LoginHistory
    BY <2>1 DEF Sound, Counters, History
  <2>3. /\ Session.created = hist.login[t].at /\ Session.updated <= hist.login[t].seen
        /\ effectiveIdleSeconds(Session.maxAge) = hist.login[t].window
    BY <2>1, SessionFacts DEF SoundValues
  <2>4. Session.updated + effectiveIdleSeconds(Session.maxAge) >= now
        /\ Session.created + MaxDuration >= now
    BY DEF ValidSession, WithinBounds
  <2>5. now \in Nat /\ Session.updated \in Nat
    BY Constants, SessionFacts DEF Sound, Counters
  <2>6. hist.login[t].seen \in Nat /\ hist.login[t].window \in Nat /\ hist.login[t].at \in Nat
    BY <2>2 DEF LoginHistory
  <2> HIDE DEF t
  <2>7. now - hist.login[t].seen <= hist.login[t].window /\ now - hist.login[t].at <= MaxDuration
    BY <2>3, <2>4, <2>5, <2>6, Constants
  <2> QED
    BY <2>1, <2>7
<1> QED
  BY <1>1, AlwaysSound, PTL

(* When the reply to a log out was the last one in, no copy of the session *)
(* is left, so it is never accepted again.                                 *)
THEOREM LogoutIsFinal == Spec => []LoggedOutStaysOut
<1>1. Sound => LoggedOutStaysOut
  <2> SUFFICES ASSUME Sound, ValidSession PROVE jar.token.value \notin hist.out
    BY DEF LoggedOutStaysOut
  <2>1. Session.token # None /\ Session.token = jar.token.value
    BY ValidFacts
  <2> QED
    BY <2>1, SessionFacts DEF SoundValues
<1> QED
  BY <1>1, AlwaysSound, PTL

-----------------------------------------------------------------------------
(* Where the copies of the live session are.                               *)

(* The end of the time in which the session is surely accepted.            *)
Ending == hist.base + Least(hist.login[hist.live].window, Week)

GoodJar ==
    /\ jar.session # None /\ jar.token # None
    /\ jar.session.values.token = hist.live /\ jar.session.values.hash = crc
    /\ hist.base <= jar.session.values.updated /\ hist.base <= jar.session.encoded
    /\ Ending <= jar.session.expires /\ Ending <= jar.token.expires

(* A reply that is received while the session lives leaves the browser     *)
(* with it: only visits cross.                                             *)
LiveReply(r) ==
    /\ r.op = "visit" \/ replies = {r}
    /\ r.op # "logout"
    /\ r.op = "login" => r.values.hash = crc
    /\ r.op \notin {"login", "login/begin"} => r.values.token = hist.live /\ r.values.hash = crc
    /\ r.op = "login/begin" =>
        /\ r.values.token \in {hist.live, None}
        /\ r.served < Ending => /\ r.values.token = hist.live /\ r.values.hash = crc
                                /\ hist.base <= r.values.updated

(* Unless a reply is under way that brings both cookies, the browser has   *)
(* them.                                                                   *)
LiveInv ==
    hist.live # None =>
        /\ jar.token # None => jar.token.value = hist.live
        /\ jar.session # None => jar.session.values.token \in {hist.live, None}
        /\ \A r \in replies : LiveReply(r)
        /\ now < Ending /\ (\A r \in replies : r.op = "login/begin") => GoodJar

-----------------------------------------------------------------------------
(* Where the token of the pending ceremony is.                             *)

Begins == {"login/begin", "register/begin"}

PendingJar(p) ==
    /\ jar.session # None
    /\ jar.session.values.ceremony[p.kind] = p.token
    /\ p.at <= jar.session.encoded /\ p.at + Day <= jar.session.expires

(* A reply keeps the token of the ceremony, or begins another that is in   *)
(* the table.                                                              *)
PendingReply(p, r) ==
    /\ replies = {r} /\ r.op # "logout"
    /\ p.at <= r.served
    /\ r.op \in Begins => <<Started(r).kind, Started(r).token>> \in table
    /\ r.op \notin Begins /\ r.served < p.at + Day => r.values.ceremony[p.kind] = p.token

PendingInv ==
    hist.pending # None =>
        /\ hist.pending.at <= now
        /\ <<hist.pending.kind, hist.pending.token>> \in table
        /\ now < hist.pending.at + Day => PendingJar(hist.pending)
        /\ \A r \in replies : PendingReply(hist.pending, r)

-----------------------------------------------------------------------------
(* A user who is active is not signed out.                                 *)

LEMMA EndingFacts ==
    ASSUME Sound, hist.live # None
    PROVE  /\ hist.live \in 1 .. logins /\ hist.live \in 1 .. MaxTokens
           /\ hist.login[hist.live].window \in Nat /\ hist.base \in Nat
           /\ now \in Nat /\ hist.base <= now
           /\ Ending \in Nat
           /\ Ending <= hist.base + hist.login[hist.live].window
           /\ Ending <= hist.base + Week
<1>1. hist.live \in 1 .. logins /\ logins \in Nat /\ begun \in Nat /\ logins + begun <= MaxTokens
      /\ hist \in History /\ now \in Nat /\ hist.base <= now /\ MaxTokens \in Nat /\ Week \in Nat
  BY Constants DEF Sound, Counters
<1>2. hist.live \in 1 .. MaxTokens
  BY <1>1
<1>3. hist.login[hist.live].window \in Nat /\ hist.base \in Nat
  BY <1>1, <1>2 DEF History, LoginHistory
<1>4. PICK w \in Nat, b \in Nat : w = hist.login[hist.live].window /\ b = hist.base
  BY <1>3
<1>5. Ending = b + Least(w, Week)
  BY <1>4 DEF Ending
<1>6. Ending \in Nat /\ Ending <= b + w /\ Ending <= b + Week
  BY <1>1, <1>5 DEF Least
<1> QED
  BY <1>1, <1>2, <1>3, <1>4, <1>6

LEMMA LiveServed ==
    ASSUME Sound, Sound', LiveInv, ValidSession, NEW op \in {"visit", "edit", "register/begin"},
           NEW v \in Values, v.token = Session.token, v.hash = crc',
           op = "visit" => crc' = crc,
           Reply(op, v, Window, TRUE),
           hist' = Served(op) \/ hist' = Over(Served(op)),
           jar' = jar
    PROVE  LiveInv'
<1>1. hist'.live = (IF Mixed(op) THEN None ELSE hist.live)
  <2> HIDE DEF Mixed
  <2> QED
    BY ServedFacts, OverFacts
<1>2. CASE hist'.live = None
  BY <1>2 DEF LiveInv
<1>3. CASE hist'.live # None
  <2>1. hist.live # None /\ hist'.live = hist.live /\ ~Mixed(op)
    BY <1>1, <1>3
  <2>2. v.token = hist.live
    BY <2>1, ValidFacts DEF LiveInv
  <2>3. PICK m : m = ReplyOf(op, v, Window, TRUE)
    OBVIOUS
  <2>4. replies' = replies \cup {m} /\ m.op = op /\ m.values = v
    BY <2>3 DEF Reply, ReplyOf
  <2>5. replies = {} \/ (op = "visit" /\ \A r \in replies : r.op = "visit")
    BY <2>1 DEF Mixed, Quiet
  <2>6. LiveReply(m)'
    BY <2>1, <2>2, <2>4, <2>5 DEF LiveReply
  <2>7. ASSUME NEW r \in replies PROVE LiveReply(r)'
    <3>1. r.op = "visit" /\ crc' = crc
      BY <2>5, <2>7
    <3> QED
      BY <2>1, <2>7, <3>1 DEF LiveInv, LiveReply
  <2>8. m \in replies' /\ m.op # "login/begin"
    BY <2>4
  <2> QED
    BY <2>1, <2>4, <2>6, <2>7, <2>8 DEF LiveInv
<1> QED
  BY <1>2, <1>3

LEMMA LiveLogin ==
    ASSUME Sound, Sound', LiveInv, NEW age \in {Day, Week}, logins + begun < MaxTokens,
           NEW v \in Values, v.hash = crc,
           Reply("login", v, effectiveIdleSeconds(age), TRUE),
           hist' = LoggedIn(age) \/ hist' = Over(LoggedIn(age)),
           UNCHANGED <<jar, crc>>
    PROVE  LiveInv'
<1>1. hist'.live = (IF Mixed("login") THEN None ELSE hist.live)
  <2>1. age \in Nat
    BY Constants
  <2>2. LoggedIn(age) \in History
        /\ LoggedIn(age).live = (IF Mixed("login") THEN None ELSE hist.live)
    BY <2>1, LoggedInFacts
  <2>3. Over(LoggedIn(age)).live = LoggedIn(age).live
    BY <2>2, OverFacts
  <2> HIDE DEF Mixed
  <2> QED
    BY <2>2, <2>3
<1>2. CASE hist'.live = None
  BY <1>2 DEF LiveInv
<1>3. CASE hist'.live # None
  <2>1. hist.live # None /\ hist'.live = hist.live /\ replies = {}
    BY <1>1, <1>3 DEF Mixed, Quiet
  <2>2. PICK m : m = ReplyOf("login", v, effectiveIdleSeconds(age), TRUE)
    OBVIOUS
  <2>3. replies' = {m} /\ m.op = "login" /\ m.values = v
    BY <2>1, <2>2 DEF Reply, ReplyOf
  <2>4. LiveReply(m)'
    BY <2>3 DEF LiveReply
  <2> QED
    BY <2>1, <2>3, <2>4 DEF LiveInv
<1> QED
  BY <1>2, <1>3

(* While the browser surely has the session, requests come with it.        *)
LEMMA GoodJarIsPresented ==
    ASSUME Sound, hist.live # None, GoodJar, now < Ending
    PROVE  Session = jar.session.values
<1>1. jar.session # None /\ hist.base <= jar.session.encoded /\ jar.session.encoded \in Nat
  BY DEF GoodJar, Sound, SoundJar, SessionCookie
<1>2. now - jar.session.encoded <= Week
  BY <1>1, EndingFacts, Constants
<1> QED
  BY <1>1, <1>2 DEF Session

LEMMA LiveBeginLogin == Sound /\ Sound' /\ LiveInv /\ PasskeyBeginLogin => LiveInv'
<1> SUFFICES ASSUME Sound, Sound', LiveInv, PasskeyBeginLogin PROVE LiveInv'
  OBVIOUS
<1> USE DEF PasskeyBeginLogin, Begin
<1>1. /\ hist'.login = hist.login /\ hist'.base = hist.base
      /\ hist'.live = (IF Mixed("login/begin") THEN None ELSE hist.live)
  <2>1. hist \in History
    BY DEF Sound, Counters
  <2> HIDE DEF Mixed, Quiet
  <2> QED
    BY <2>1, CrossingFacts
<1>2. CASE hist'.live = None
  BY <1>2 DEF LiveInv
<1>3. CASE hist'.live # None
  <2>1. hist.live # None /\ hist'.live = hist.live /\ replies = {}
    BY <1>1, <1>3 DEF Mixed, Quiet
  <2>2. PICK v : v = WithCeremony(Session, "login", begun + 1)
    OBVIOUS
  <2>3. PICK m : m = ReplyOf("login/begin", v, Week, FALSE)
    OBVIOUS
  <2>4. replies' = {m} /\ m.op = "login/begin" /\ m.values = v /\ m.served = now
    BY <2>1, <2>2, <2>3 DEF Reply, ReplyOf
  <2>5. v.token = Session.token /\ v.hash = Session.hash /\ v.updated = Session.updated
    <3>1. PICK c : c = begun + 1
      OBVIOUS
    <3>2. c \in Number /\ "login" \in Kinds
      BY <3>1 DEF Number, Kinds, Sound, Counters
    <3>3. PICK s : s = Session
      OBVIOUS
    <3>4. s \in Values
      BY <3>3, SessionFacts
    <3>5. v = WithCeremony(s, "login", c)
      BY <2>2, <3>1, <3>3
    <3>6. v.token = s.token /\ v.hash = s.hash /\ v.updated = s.updated
      BY ONLY <3>2, <3>4, <3>5, CeremonyFacts
    <3> QED
      BY <3>3, <3>6
  <2>6. v.token \in {hist.live, None}
    BY <2>1, <2>5, SessionFacts, NewSessionIsSound DEF LiveInv
  <2>7. Ending' = Ending
    BY <1>1, <2>1 DEF Ending
  <2>8. now < Ending => GoodJar
    BY <2>1 DEF LiveInv
  <2>9. now < Ending => v.token = hist.live /\ v.hash = crc /\ hist.base <= v.updated
    BY <2>1, <2>5, <2>8, GoodJarIsPresented DEF GoodJar
  <2>10. LiveReply(m)'
    BY <1>1, <2>1, <2>4, <2>6, <2>7, <2>9 DEF LiveReply
  <2>11. now < Ending => GoodJar'
    BY <1>1, <2>1, <2>7, <2>8 DEF GoodJar
  <2> QED
    BY <1>1, <2>1, <2>4, <2>7, <2>10, <2>11 DEF LiveInv
<1> QED
  BY <1>2, <1>3

LEMMA LiveReceive ==
    ASSUME NEW r \in replies PROVE Sound /\ Sound' /\ LiveInv /\ Receive(r) => LiveInv'
<1> SUFFICES ASSUME Sound, Sound', LiveInv, Receive(r), hist'.live # None PROVE LiveInv'
  BY DEF LiveInv
<1> USE DEF Receive
<1>1. /\ hist'.login = hist.login /\ hist'.base = hist.base
      /\ hist'.live = (IF r.op = "login" /\ Alone(r) /\ r.values.hash = crc
                       THEN r.values.token ELSE hist.live)
      /\ r.op # "login/begin" => r.values.token \in 1 .. logins
  BY ReceivedFacts
<1>2. /\ SoundReply(r) /\ now \in Nat /\ hist.base \in Nat /\ hist.base <= now
      /\ r.served \in Nat /\ r.age \in Nat /\ now' = now /\ crc' = crc
      /\ r.values.updated \in Nat
  BY Constants DEF Sound, Counters, History, SoundReply, ReplyMessage, Values
<1>3. Ending' \in Nat /\ Ending' <= hist.base + hist.login[hist'.live].window
      /\ Ending' <= hist.base + Week
      /\ hist.login[hist'.live].window \in Nat
  <2>1. hist'.live \in 1 .. logins' /\ logins' \in Nat /\ begun' \in Nat
        /\ logins' + begun' <= MaxTokens /\ hist' \in History /\ MaxTokens \in Nat /\ Week \in Nat
    BY Constants DEF Sound, Counters
  <2>2. hist'.live \in 1 .. MaxTokens
    BY <2>1
  <2>3. hist'.login[hist'.live].window \in Nat
    BY <2>1, <2>2 DEF History, LoginHistory
  <2>4. PICK w \in Nat : w = hist'.login[hist'.live].window
    BY <2>3
  <2>5. Ending' = hist.base + Least(w, Week)
    BY <1>1, <2>4 DEF Ending
  <2>6. Ending' \in Nat /\ Ending' <= hist.base + w /\ Ending' <= hist.base + Week
    BY <1>2, <2>1, <2>5 DEF Least
  <2> QED
    BY <1>1, <2>4, <2>6
(* Both cookies of the session that lives on come in.                      *)
<1>4. ASSUME r.op \notin {"login/begin", "logout"}, r.values.token = hist'.live,
             r.values.hash = crc
      PROVE  GoodJar' /\ jar'.token # None /\ jar'.token.value = hist'.live
             /\ jar'.session.values.token = hist'.live
  <2>1. r.age = hist.login[hist'.live].window /\ r.values.updated = r.served /\ hist.base <= r.served
        /\ r.values.token # None
    BY <1>2, <1>4 DEF SoundReply
  <2>2. r.both
    BY <1>2, <1>4 DEF SoundReply
  <2>3. /\ jar'.session = [values |-> r.values, encoded |-> r.served, expires |-> now + r.age]
        /\ jar'.token = [value |-> r.values.token, expires |-> now + r.age]
    BY <1>4, <2>2 DEF Cookies, SetCookies
  <2>4. jar'.token.value = hist'.live /\ jar'.session.values = r.values
        /\ jar'.session.encoded = r.served /\ jar'.session.expires = now + r.age
        /\ jar'.token.expires = now + r.age
    BY <1>4, <2>3
  <2>5. jar'.token # None /\ jar'.session # None
    <3>1. now + r.age \in Nat /\ r.values \in Values /\ r.values.token \in Number
      BY <1>2 DEF SoundReply, ReplyMessage, Values
    <3>2. jar'.session \in SessionCookie /\ jar'.token \in TokenCookie
      BY <1>2, <2>3, <3>1 DEF SessionCookie, TokenCookie
    <3> QED
      BY <3>2, NoneAssumption
  <2>6. Ending' <= now + r.age
    <3>1. PICK w \in Nat : w = r.age
      BY <1>2
    <3>2. Ending' <= hist.base + w
      BY <1>3, <2>1, <3>1
    <3> QED
      BY <1>2, <1>3, <3>1, <3>2
  <2> QED
    BY <1>1, <1>2, <1>4, <2>1, <2>4, <2>5, <2>6 DEF GoodJar
<1>5. CASE r.op = "login" /\ Alone(r) /\ r.values.hash = crc
  <2>1. replies' = {} /\ hist'.live = r.values.token
    BY <1>1, <1>5 DEF Alone
  <2>2. GoodJar' /\ jar'.token.value = hist'.live /\ jar'.session.values.token = hist'.live
    BY <1>4, <1>5, <2>1
  <2> QED
    BY <2>1, <2>2 DEF LiveInv
<1>6. CASE ~(r.op = "login" /\ Alone(r) /\ r.values.hash = crc)
  <2>1. hist'.live = hist.live /\ hist.live # None
    BY <1>1, <1>6
  <2>2. LiveReply(r)
    BY <2>1 DEF LiveInv
  <2>3. r.op # "login"
    BY <1>6, <2>2 DEF LiveReply, Alone
  <2>4. Ending' = Ending
    BY <1>1, <2>1 DEF Ending
  <2>5. \A q \in replies' : LiveReply(q)'
    <3> SUFFICES ASSUME NEW q \in replies' PROVE LiveReply(q)'
      OBVIOUS
    <3>1. q \in replies /\ q # r
      OBVIOUS
    <3>2. LiveReply(q) /\ q.op = "visit"
      BY <2>1, <3>1 DEF LiveInv, LiveReply
    <3> QED
      BY <1>2, <2>1, <3>2 DEF LiveReply
  <2>6. CASE r.op # "login/begin"
    <3>1. r.values.token = hist.live /\ r.values.hash = crc /\ r.op # "logout"
      BY <2>2, <2>3, <2>6 DEF LiveReply
    <3>2. GoodJar' /\ jar'.token.value = hist'.live /\ jar'.session.values.token = hist'.live
      BY <1>4, <2>1, <2>6, <3>1
    <3> QED
      BY <2>5, <3>2 DEF LiveInv
  <2>7. CASE r.op = "login/begin"
    <3>1. replies = {r} /\ replies' = {}
      BY <2>2, <2>7 DEF LiveReply
    <3>2. /\ jar'.session = [values |-> r.values, encoded |-> r.served, expires |-> now + Week]
          /\ jar'.token = jar.token
      <4>1. ~r.both /\ r.age = Week
        BY <1>2, <2>7 DEF SoundReply
      <4> QED
        BY <2>7, <4>1 DEF Cookies, SetCookies
    <3>3. jar'.session.values = r.values /\ jar'.session.encoded = r.served
          /\ jar'.session.expires = now + Week
      BY <3>2
    <3>4. jar'.session.values.token \in {hist'.live, None}
      BY <2>1, <2>2, <2>7, <3>3 DEF LiveReply
    <3>5. jar'.token # None => jar'.token.value = hist'.live
      BY <2>1, <3>2 DEF LiveInv
    <3>6. ASSUME now' < Ending' PROVE GoodJar'
      <4>1. now < Ending /\ Ending \in Nat /\ GoodJar
        BY <1>2, <1>3, <2>1, <2>4, <2>7, <3>1, <3>6 DEF LiveInv
      <4>2. r.served < Ending
        BY <1>2, <4>1 DEF SoundReply
      <4>3. r.values.token = hist.live /\ r.values.hash = crc /\ hist.base <= r.values.updated
        BY <2>2, <2>7, <4>2 DEF LiveReply
      <4>4. jar'.token # None /\ Ending <= jar'.token.expires
        BY <3>2, <4>1 DEF GoodJar
      <4>5. Ending <= now + Week
        BY <1>2, <1>3, <2>4, Constants
      <4>6. hist.base <= r.served
        BY <1>2 DEF SoundReply
      <4>7. jar'.session # None
        <5>1. r.values.token # None
          BY <2>1, <4>3
        <5>2. now + Week \in Nat /\ r.values \in Values
          BY <1>2, Constants DEF SoundReply, ReplyMessage
        <5>3. jar'.session \in SessionCookie
          BY <1>2, <3>2, <5>2 DEF SessionCookie
        <5> QED
          BY <5>3, NoneAssumption
      <4> QED
        BY <1>1, <1>2, <2>1, <2>4, <3>3, <4>3, <4>4, <4>5, <4>6, <4>7 DEF GoodJar
    <3> QED
      BY <3>1, <3>4, <3>5, <3>6 DEF LiveInv
  <2> QED
    BY <2>6, <2>7
<1> QED
  BY <1>5, <1>6

LEMMA LiveTick == Sound /\ Sound' /\ LiveInv /\ Tick => LiveInv'
<1> SUFFICES ASSUME Sound, Sound', LiveInv, Tick, hist.live # None PROVE LiveInv'
  BY DEF LiveInv, Tick
<1> USE DEF Tick
<1>1. Ending' = Ending /\ Ending \in Nat /\ now \in Nat /\ now' = now + 1
  BY EndingFacts DEF Ending
<1>2. /\ jar'.session = Kept(jar.session) /\ jar'.token = Kept(jar.token)
  OBVIOUS
<1>3. jar'.session # None => jar'.session = jar.session
  BY <1>2 DEF Kept
<1>4. jar'.token # None => jar'.token = jar.token
  BY <1>2 DEF Kept
<1>5. \A r \in replies' : LiveReply(r)'
  BY <1>1 DEF LiveInv, LiveReply
<1>6. ASSUME now' < Ending', \A r \in replies' : r.op = "login/begin" PROVE GoodJar'
  <2>1. now < Ending
    BY <1>1, <1>6
  <2>2. GoodJar
    BY <1>6, <2>1 DEF LiveInv
  <2>3. jar.session \in SessionCookie /\ jar.token \in TokenCookie
    BY <2>2 DEF GoodJar, Sound, SoundJar
  <2>4. jar.session.expires \in Nat /\ jar.token.expires \in Nat
        /\ Ending <= jar.session.expires /\ Ending <= jar.token.expires
    BY <2>2, <2>3 DEF GoodJar, SessionCookie, TokenCookie
  <2>5. ~(jar.session.expires <= now') /\ ~(jar.token.expires <= now')
    BY <1>1, <1>6, <2>4
  <2>6. jar'.session = jar.session /\ jar'.token = jar.token
    BY <1>2, <2>2, <2>5 DEF Kept, GoodJar
  <2> QED
    BY <1>1, <2>2, <2>6 DEF GoodJar
<1> QED
  BY <1>3, <1>4, <1>5, <1>6 DEF LiveInv

LEMMA LiveRestart == Sound /\ LiveInv /\ Restart => LiveInv'
<1> SUFFICES ASSUME Sound, LiveInv, Restart PROVE LiveInv'
  OBVIOUS
<1> USE DEF Restart
<1>1. hist'.login = hist.login /\ hist'.base = hist.base /\ hist'.live = hist.live
  BY DEF Sound, Counters, History
<1>2. Ending' = Ending
  BY <1>1 DEF Ending
<1> QED
  BY <1>1, <1>2 DEF LiveInv, LiveReply, GoodJar

(* Steps after which nothing is expected of the session.                   *)
LEMMA LiveEnds ==
    ASSUME Sound, Logout \/ AccountChange \/ \E r \in replies : Lose(r)
    PROVE  LiveInv'
<1>1. hist'.live = None
  <2>1. hist \in History
    BY DEF Sound, Counters
  <2>2. ASSUME Logout PROVE hist'.live = None
    <3>1. PICK h : h = Crossing(hist, "logout")
      OBVIOUS
    <3>2. h \in History
      BY <2>1, <3>1, CrossingFacts
    <3>3. hist' = [h EXCEPT !.live = None, !.pending = None]
      BY <2>2, <3>1 DEF Logout
    <3> QED
      BY <3>2, <3>3 DEF History
  <2>3. ASSUME AccountChange \/ \E r \in replies : Lose(r) PROVE hist'.live = None
    BY <2>1, <2>3 DEF AccountChange, Lose, History
  <2> QED
    BY <2>2, <2>3
<1> QED
  BY <1>1 DEF LiveInv

LEMMA LiveUnchanged ==
    ASSUME LiveInv, UNCHANGED <<now, crc, jar, replies, hist>> PROVE LiveInv'
BY DEF LiveInv, LiveReply, GoodJar, Ending

LEMMA LiveStep == Sound /\ Sound' /\ LiveInv /\ [Next]_vars => LiveInv'
<1> SUFFICES ASSUME Sound, Sound', LiveInv, [Next]_vars PROVE LiveInv'
  OBVIOUS
<1>1. CASE UNCHANGED vars
  BY <1>1, LiveUnchanged DEF vars
<1>2. ASSUME NEW age \in {Day, Week}, Login(age) PROVE LiveInv'
  <2>1. PICK v : v = setLoginSession(Session, age)
    OBVIOUS
  <2>2. v \in Values /\ v.hash = crc
    BY <2>1, SessionFacts, LoginFacts
  <2>3. logins + begun < MaxTokens /\ Reply("login", v, effectiveIdleSeconds(age), TRUE)
        /\ hist' = LoggedIn(age) /\ UNCHANGED <<jar, crc>>
    BY <1>2, <2>1 DEF Login
  <2> QED
    BY <2>2, <2>3, LiveLogin
<1>3. ASSUME NEW age \in {Day, Week}, PasskeyFinishLogin(age) PROVE LiveInv'
  <2>1. PICK s : s = setLoginSession(Session, age)
    OBVIOUS
  <2>2. s \in Values /\ s.hash = crc
    BY <2>1, SessionFacts, LoginFacts
  <2>3. PICK v : v = WithCeremony(s, "login", None)
    OBVIOUS
  <2>4. v \in Values /\ v.hash = crc
    <3>1. None \in Number /\ "login" \in Kinds
      BY DEF Number, Kinds
    <3> QED
      BY <2>2, <2>3, <3>1, CeremonyFacts
  <2>5. logins + begun < MaxTokens /\ Reply("login", v, effectiveIdleSeconds(age), TRUE)
        /\ hist' = Over(LoggedIn(age)) /\ UNCHANGED <<jar, crc>>
    BY <1>3, <2>1, <2>3 DEF PasskeyFinishLogin
  <2> QED
    BY <2>4, <2>5, LiveLogin
<1>4. ASSUME Visit PROVE LiveInv'
  <2>1. PICK v : v = touchSessionIdle(Session)
    OBVIOUS
  <2>2. ValidSession /\ Session.hash = crc
    BY <1>4, ValidFacts DEF Visit
  <2>3. v \in Values /\ v.token = Session.token /\ v.hash = crc
    BY <2>1, <2>2, SessionFacts, TouchFacts
  <2>4. Reply("visit", v, Window, TRUE) /\ hist' = Served("visit") /\ UNCHANGED <<jar, crc>>
    BY <1>4, <2>1 DEF Visit
  <2> QED
    BY <2>2, <2>3, <2>4, LiveServed
<1>5. ASSUME OwnEdit PROVE LiveInv'
  <2>1. PICK s : s = touchSessionIdle(Session)
    OBVIOUS
  <2>2. s \in Values /\ s.token = Session.token
    BY <2>1, SessionFacts, TouchFacts
  <2>3. PICK v : v = setUser(s)
    OBVIOUS
  <2>4. ValidSession /\ Reply("edit", v, Window, TRUE) /\ hist' = Served("edit")
        /\ jar' = jar /\ crc' = crc + 1
    BY <1>5, <2>1, <2>3 DEF OwnEdit
  <2>5. v \in Values /\ v.token = Session.token /\ v.hash = crc'
    BY <2>2, <2>3, <2>4, SetUserFacts
  <2> QED
    BY <2>4, <2>5, LiveServed
<1>6. ASSUME PasskeyBeginRegister PROVE LiveInv'
  <2>1. PICK s : s = touchSessionIdle(Session)
    OBVIOUS
  <2>2. ValidSession /\ Session.hash = crc
    BY <1>6, ValidFacts DEF PasskeyBeginRegister
  <2>3. s \in Values /\ s.token = Session.token /\ s.hash = crc
    BY <2>1, <2>2, SessionFacts, TouchFacts
  <2>4. PICK v : v = WithCeremony(s, "register", begun + 1)
    OBVIOUS
  <2>5. v \in Values /\ v.token = Session.token /\ v.hash = crc
    <3>1. PICK c : c = begun + 1
      OBVIOUS
    <3>2. c \in Number /\ "register" \in Kinds
      BY <3>1 DEF Number, Kinds, Sound, Counters
    <3> QED
      BY <2>3, <2>4, <3>1, <3>2, CeremonyFacts
  <2>6. Reply("register/begin", v, Window, TRUE) /\ hist' = Served("register/begin")
        /\ UNCHANGED <<jar, crc>>
    BY <1>6, <2>1, <2>4 DEF PasskeyBeginRegister, Begin
  <2> QED
    BY <2>2, <2>5, <2>6, LiveServed
<1>7. ASSUME PasskeyFinishRegister PROVE LiveInv'
  <2>1. PICK s : s = touchSessionIdle(Session)
    OBVIOUS
  <2>2. s \in Values /\ s.token = Session.token
    BY <2>1, SessionFacts, TouchFacts
  <2>3. PICK e : e = setUser(s)
    OBVIOUS
  <2>4. PICK v : v = WithCeremony(e, "register", None)
    OBVIOUS
  <2>5. ValidSession /\ Reply("edit", v, Window, TRUE) /\ hist' = Over(Served("edit"))
        /\ jar' = jar /\ crc' = crc + 1
    BY <1>7, <2>1, <2>3, <2>4 DEF PasskeyFinishRegister
  <2>6. e \in Values /\ e.token = Session.token /\ e.hash = crc'
    BY <2>2, <2>3, <2>5, SetUserFacts
  <2>7. v \in Values /\ v.token = Session.token /\ v.hash = crc'
    <3>1. None \in Number /\ "register" \in Kinds
      BY DEF Number, Kinds
    <3> QED
      BY <2>4, <2>6, <3>1, CeremonyFacts
  <2> QED
    BY <2>5, <2>7, LiveServed
<1>8. CASE Logout \/ AccountChange \/ \E r \in replies : Lose(r)
  BY <1>8, LiveEnds
<1>9. CASE PasskeyBeginLogin
  BY <1>9, LiveBeginLogin
<1>10. CASE PasskeyLoginRefused
  BY <1>10, LiveUnchanged DEF PasskeyLoginRefused
<1>11. ASSUME NEW r \in replies, Receive(r) PROVE LiveInv'
  BY <1>11, LiveReceive
<1>12. CASE Tick
  BY <1>12, LiveTick
<1>13. CASE Restart
  BY <1>13, LiveRestart
<1> QED
  BY <1>1, <1>2, <1>3, <1>4, <1>5, <1>6, <1>7, <1>8, <1>9, <1>10, <1>11, <1>12, <1>13 DEF Next

(* A user who is active stays signed in, through edits of their own        *)
(* account, visits that cross and ceremonies, until replies cross that     *)
(* change the cookies, one is lost or somebody else changes the account.   *)
THEOREM ActiveStaysSignedIn == Spec => []ActiveSessionAccepted
<1>1. Init => LiveInv
  BY DEF Init, NoHistory, LiveInv
<1>2. Sound /\ LiveInv => ActiveSessionAccepted
  <2> SUFFICES ASSUME Sound, LiveInv, Quiet, hist.live # None,
                      now < hist.base + Least(hist.login[hist.live].window, Week),
                      now <= hist.login[hist.live].at + MaxDuration
               PROVE  ValidSession /\ jar.token.value = hist.live
    BY DEF ActiveSessionAccepted
  <2>1. now < Ending /\ GoodJar /\ jar.token.value = hist.live
    BY DEF Ending, LiveInv, Quiet, GoodJar
  <2>2. Session = jar.session.values
    BY <2>1, GoodJarIsPresented
  <2>3. Session.token = hist.live /\ Session.hash = crc /\ hist.base <= Session.updated
        /\ jar.token # None
    BY <2>1, <2>2 DEF GoodJar
  <2>4. /\ Session.created = hist.login[hist.live].at
        /\ effectiveIdleSeconds(Session.maxAge) = hist.login[hist.live].window
        /\ Session.updated <= now /\ Session.updated \in Nat
    BY <2>3, SessionFacts DEF SoundValues
  <2>5. WithinBounds(Session)
    <3>1. PICK w \in Nat, b \in Nat, a \in Nat :
             w = hist.login[hist.live].window /\ b = hist.base /\ a = hist.login[hist.live].at
      BY EndingFacts DEF Sound, Counters, History, LoginHistory
    <3>2. now \in Nat /\ Ending \in Nat /\ Ending <= b + w
      BY <3>1, EndingFacts
    <3>3. Session.updated + w >= now
      BY <2>1, <2>3, <2>4, <3>1, <3>2
    <3>4. a + MaxDuration >= now
      BY <3>1, <3>2, Constants
    <3> QED
      BY <2>4, <3>1, <3>3, <3>4 DEF WithinBounds
  <2> QED
    BY <2>1, <2>3, <2>5 DEF ValidSession
<1>3. Spec => []LiveInv
  BY <1>1, LiveStep, AlwaysSound, PTL DEF Spec
<1> QED
  BY <1>2, <1>3, AlwaysSound, PTL

-----------------------------------------------------------------------------
(* A ceremony that was begun can be finished.                              *)

LEMMA PendingFacts ==
    ASSUME Sound, hist.pending # None
    PROVE  /\ hist.pending \in Pending
           /\ hist.pending.kind \in Kinds /\ hist.pending.at \in Nat
<1>1. hist.pending \in Pending
  BY DEF Sound, Counters, History
<1> QED
  BY <1>1 DEF Pending

LEMMA PendingJarIsPresented ==
    ASSUME Sound, hist.pending # None, PendingJar(hist.pending), now < hist.pending.at + Day
    PROVE  Session = jar.session.values
<1>1. jar.session # None /\ hist.pending.at <= jar.session.encoded /\ jar.session.encoded \in Nat
  BY DEF PendingJar, Sound, SoundJar, SessionCookie
<1>2. now \in Nat
  BY DEF Sound, Counters
<1>3. now - jar.session.encoded <= Week
  BY <1>1, <1>2, PendingFacts, Constants
<1> QED
  BY <1>1, <1>3 DEF Session

(* A request is answered.                                                  *)
LEMMA PendingAnswer ==
    ASSUME Sound, PendingInv, NEW m, replies' = replies \cup {m}, m.served = now, m.op # "logout",
           UNCHANGED <<now, jar>>,
           hist'.pending = (IF Quiet THEN hist.pending ELSE None),
           table \subseteq table',
           m.op \in Begins => <<Started(m).kind, Started(m).token>> \in table',
           m.op \notin Begins => m.values.ceremony = Session.ceremony
    PROVE  PendingInv'
<1>1. CASE hist'.pending = None
  BY <1>1 DEF PendingInv
<1>2. CASE hist'.pending # None
  <2>1. hist.pending # None /\ hist'.pending = hist.pending /\ replies = {}
    BY <1>2 DEF Quiet
  <2>2. /\ hist.pending.at <= now /\ <<hist.pending.kind, hist.pending.token>> \in table
        /\ now < hist.pending.at + Day => PendingJar(hist.pending)
    BY <2>1 DEF PendingInv
  <2>3. now < hist.pending.at + Day => Session.ceremony[hist.pending.kind] = hist.pending.token
    BY <2>1, <2>2, PendingJarIsPresented DEF PendingJar
  <2>4. PICK p : p = hist.pending
    OBVIOUS
  <2>5. PendingReply(p, m)'
    <3>1. Started(m)' = Started(m)
      BY DEF Started
    <3> QED
      BY <2>1, <2>2, <2>3, <2>4, <3>1 DEF PendingReply
  <2>6. now < p.at + Day => PendingJar(p)'
    BY <2>2, <2>4 DEF PendingJar
  <2> QED
    BY <2>1, <2>2, <2>4, <2>5, <2>6 DEF PendingInv
<1> QED
  BY <1>1, <1>2

LEMMA PendingReceive ==
    ASSUME NEW r \in replies PROVE Sound /\ Sound' /\ PendingInv /\ Receive(r) => PendingInv'
<1> SUFFICES ASSUME Sound, Sound', PendingInv, Receive(r), hist'.pending # None
             PROVE  PendingInv'
  BY DEF PendingInv
<1> USE DEF Receive
<1>1. /\ hist'.pending = (IF /\ r.op \in {"login/begin", "register/begin"}
                             /\ Alone(r)
                             /\ <<Started(r).kind, Started(r).token>> \in table
                          THEN Started(r) ELSE hist.pending)
      /\ Started(r) \in Pending
  BY ReceivedFacts
<1>2. /\ SoundReply(r) /\ now \in Nat /\ r.served \in Nat /\ r.age \in Nat /\ now' = now
      /\ r.served <= now
  BY DEF Sound, Counters, SoundReply, ReplyMessage
<1>3. ASSUME r.op # "logout" PROVE Day <= r.age
  <2>1. CASE r.op = "login/begin"
    BY <1>2, <2>1, Constants DEF SoundReply
  <2>2. CASE r.op # "login/begin"
    <3>1. r.age = hist.login[r.values.token].window /\ r.values.token # None
      BY <1>2, <1>3, <2>2 DEF SoundReply
    <3> QED
      BY <1>2, <3>1 DEF SoundReply, SoundValues
  <2> QED
    BY <2>1, <2>2
<1>4. ASSUME r.op # "logout"
      PROVE  /\ jar'.session # None
             /\ jar'.session.values = r.values /\ jar'.session.encoded = r.served
             /\ r.served + Day <= jar'.session.expires
  <2>1. jar'.session = [values |-> r.values, encoded |-> r.served, expires |-> now + r.age]
    BY <1>4 DEF Cookies, SetCookies
  <2>2. now + r.age \in Nat /\ r.values \in Values /\ r.served + Day <= now + r.age
    BY <1>2, <1>3, <1>4, Constants DEF SoundReply, ReplyMessage
  <2>3. jar'.session \in SessionCookie
    BY <1>2, <2>1, <2>2 DEF SessionCookie
  <2>4. jar'.session # None
    BY <2>3, NoneAssumption
  <2> QED
    BY <2>1, <2>2, <2>4
<1>5. CASE /\ r.op \in {"login/begin", "register/begin"}
           /\ Alone(r)
           /\ <<Started(r).kind, Started(r).token>> \in table
  <2>1. hist'.pending = Started(r) /\ replies' = {}
    BY <1>1, <1>5 DEF Alone
  <2>2. PICK p : p = Started(r)
    OBVIOUS
  <2>3. p.at = r.served /\ p.token = r.values.ceremony[p.kind]
    BY <2>2 DEF Started
  <2>4. PendingJar(p)'
    <3>1. r.op # "logout"
      BY <1>5
    <3>2. r.served <= r.served
      BY <1>2
    <3> QED
      BY <1>4, <2>3, <3>1, <3>2 DEF PendingJar
  <2> QED
    BY <1>2, <1>5, <2>1, <2>2, <2>3, <2>4 DEF PendingInv
<1>6. CASE ~(/\ r.op \in {"login/begin", "register/begin"}
             /\ Alone(r)
             /\ <<Started(r).kind, Started(r).token>> \in table)
  <2>1. hist'.pending = hist.pending /\ hist.pending # None
    BY <1>1, <1>6
  <2>2. PICK p : p = hist.pending
    OBVIOUS
  <2>3. PendingReply(p, r)
    BY <2>1, <2>2 DEF PendingInv
  <2>4. replies = {r} /\ replies' = {} /\ r.op # "logout" /\ r.op \notin Begins /\ p.at <= r.served
    BY <1>6, <2>3 DEF PendingReply, Alone, Begins
  <2>5. p.at \in Nat
    BY <2>1, <2>2, PendingFacts
  <2>6. ASSUME now < p.at + Day PROVE PendingJar(p)'
    <3>1. r.served < p.at + Day
      BY <1>2, <2>5, <2>6, Constants
    <3>2. r.values.ceremony[p.kind] = p.token
      BY <2>3, <2>4, <3>1 DEF PendingReply
    <3>3. PICK e : e = jar'.session.expires
      OBVIOUS
    <3>4. e \in Nat
      BY <1>4, <2>4, <3>3 DEF Sound, SoundJar, SessionCookie
    <3>5. p.at + Day <= e
      BY <1>2, <1>4, <2>4, <2>5, <3>3, <3>4, Constants
    <3> QED
      BY <1>4, <2>4, <3>2, <3>3, <3>5 DEF PendingJar
  <2> QED
    BY <1>2, <2>1, <2>2, <2>4, <2>6 DEF PendingInv
<1> QED
  BY <1>5, <1>6

LEMMA PendingTick == Sound /\ PendingInv /\ Tick => PendingInv'
<1> SUFFICES ASSUME Sound, PendingInv, Tick, hist.pending # None PROVE PendingInv'
  BY DEF PendingInv, Tick
<1> USE DEF Tick
<1>1. PICK p : p = hist.pending
  OBVIOUS
<1>2. p.at \in Nat /\ now \in Nat /\ now' = now + 1 /\ hist'.pending = p /\ p.at <= now
  BY <1>1, PendingFacts DEF Sound, Counters, PendingInv
<1>3. ASSUME now' < p.at + Day PROVE PendingJar(p)'
  <2>1. PendingJar(p)
    BY <1>1, <1>2, <1>3, Constants DEF PendingInv
  <2>2. jar.session # None /\ jar.session.expires \in Nat /\ p.at + Day <= jar.session.expires
    BY <2>1 DEF PendingJar, Sound, SoundJar, SessionCookie
  <2>3. ~(jar.session.expires <= now')
    BY <1>2, <1>3, <2>2, Constants
  <2>4. jar'.session = jar.session
    BY <2>2, <2>3 DEF Kept
  <2> QED
    BY <2>1, <2>4 DEF PendingJar
<1>4. ASSUME NEW r \in replies' PROVE PendingReply(p, r)'
  <2>1. PendingReply(p, r)
    BY <1>1 DEF PendingInv
  <2> QED
    BY <2>1 DEF PendingReply, Started
<1>5. p.at <= now' /\ <<p.kind, p.token>> \in table'
  BY <1>1, <1>2 DEF PendingInv
<1> QED
  BY <1>2, <1>3, <1>4, <1>5 DEF PendingInv

(* A reply that is lost leaves the cookies as they are.                    *)
LEMMA PendingUnchanged ==
    ASSUME PendingInv, UNCHANGED <<now, jar, table>>, hist'.pending = hist.pending,
           replies' = replies \/ \E r \in replies : replies' = replies \ {r}
    PROVE  PendingInv'
<1>1. CASE replies' = replies
  BY <1>1 DEF PendingInv, PendingJar, PendingReply, Started
<1>2. CASE \E r \in replies : replies' = replies \ {r}
  <2> SUFFICES ASSUME hist.pending # None PROVE PendingInv'
    BY DEF PendingInv
  <2>1. replies' = {}
    BY <1>2 DEF PendingInv, PendingReply
  <2> QED
    BY <2>1 DEF PendingInv, PendingJar
<1> QED
  BY <1>1, <1>2

LEMMA PendingStep == Sound /\ Sound' /\ PendingInv /\ [Next]_vars => PendingInv'
<1> SUFFICES ASSUME Sound, Sound', PendingInv, [Next]_vars PROVE PendingInv'
  OBVIOUS
<1>1. hist \in History
  BY DEF Sound, Counters
<1>2. PICK c : c = begun + 1
  OBVIOUS
<1>3. c \in Number /\ None \in Number /\ "login" \in Kinds /\ "register" \in Kinds
  BY <1>2 DEF Number, Kinds, Sound, Counters
<1>4. PICK s : s = Session
  OBVIOUS
<1>5. PICK u : u = touchSessionIdle(s)
  OBVIOUS
<1>6. s \in Values /\ u \in Values /\ u.ceremony = Session.ceremony
  BY <1>4, <1>5, SessionFacts, TouchFacts
<1>7. CASE UNCHANGED vars
  BY <1>7, PendingUnchanged DEF vars
<1>8. ASSUME NEW age \in {Day, Week}, Login(age) PROVE PendingInv'
  <2>1. PICK v : v = setLoginSession(Session, age)
    OBVIOUS
  <2>2. v.ceremony = Session.ceremony
    BY <2>1, SessionFacts, LoginFacts
  <2>3. PICK m : m = ReplyOf("login", v, effectiveIdleSeconds(age), TRUE)
    OBVIOUS
  <2>4. /\ replies' = replies \cup {m} /\ m.op = "login" /\ m.values = v /\ m.served = now
        /\ UNCHANGED <<now, jar, table>>
    BY <1>8, <2>1, <2>3 DEF Login, Reply, ReplyOf
  <2>5. hist'.pending = (IF Quiet THEN hist.pending ELSE None)
    <3>1. age \in Nat /\ logins + begun < MaxTokens
      BY <1>8, Constants DEF Login
    <3> HIDE DEF Quiet
    <3> QED
      BY <1>8, <3>1, LoggedInFacts DEF Login
  <2> QED
    BY <2>2, <2>4, <2>5, PendingAnswer DEF Begins
<1>9. ASSUME Visit PROVE PendingInv'
  <2>1. PICK m : m = ReplyOf("visit", u, Window, TRUE)
    OBVIOUS
  <2>2. /\ replies' = replies \cup {m} /\ m.op = "visit" /\ m.values = u /\ m.served = now
        /\ UNCHANGED <<now, jar, table>>
    BY <1>4, <1>5, <1>9, <2>1 DEF Visit, Reply, ReplyOf
  <2>3. hist'.pending = (IF Quiet THEN hist.pending ELSE None)
    <3> HIDE DEF Quiet
    <3> QED
      BY <1>9, ServedFacts DEF Visit
  <2> QED
    BY <1>6, <2>2, <2>3, PendingAnswer DEF Begins
<1>10. ASSUME OwnEdit PROVE PendingInv'
  <2>1. PICK v : v = setUser(u)
    OBVIOUS
  <2>2. v.ceremony = Session.ceremony
    BY <1>6, <2>1, SetUserFacts
  <2>3. PICK m : m = ReplyOf("edit", v, Window, TRUE)
    OBVIOUS
  <2>4. /\ replies' = replies \cup {m} /\ m.op = "edit" /\ m.values = v /\ m.served = now
        /\ UNCHANGED <<now, jar, table>>
    BY <1>4, <1>5, <1>10, <2>1, <2>3 DEF OwnEdit, Reply, ReplyOf
  <2>5. hist'.pending = (IF Quiet THEN hist.pending ELSE None)
    <3> HIDE DEF Quiet
    <3> QED
      BY <1>10, ServedFacts DEF OwnEdit
  <2> QED
    BY <2>2, <2>4, <2>5, PendingAnswer DEF Begins
<1>11. ASSUME PasskeyBeginLogin PROVE PendingInv'
  <2>1. PICK v : v = WithCeremony(s, "login", c)
    OBVIOUS
  <2>2. v.ceremony["login"] = c
    <3>1. v.ceremony = [s.ceremony EXCEPT !["login"] = c]
      BY <1>3, <1>6, <2>1, CeremonyFacts
    <3>2. s.ceremony \in [Kinds -> Number]
      BY <1>6 DEF Values
    <3> QED
      BY <1>3, <3>1, <3>2
  <2>3. PICK m : m = ReplyOf("login/begin", v, Week, FALSE)
    OBVIOUS
  <2>4. /\ replies' = replies \cup {m} /\ m.op = "login/begin" /\ m.values = v /\ m.served = now
        /\ UNCHANGED <<now, jar>> /\ table' = table \cup {<<"login", c>>}
    BY <1>2, <1>4, <1>11, <2>1, <2>3 DEF PasskeyBeginLogin, Begin, Reply, ReplyOf
  <2>5. Started(m).kind = "login" /\ Started(m).token = c
    BY <2>2, <2>4 DEF Started
  <2>6. hist'.pending = (IF Quiet THEN hist.pending ELSE None)
    <3> HIDE DEF Quiet
    <3> QED
      BY <1>1, <1>11, CrossingFacts DEF PasskeyBeginLogin
  <2> QED
    BY <2>4, <2>5, <2>6, PendingAnswer DEF Begins
<1>12. ASSUME PasskeyBeginRegister PROVE PendingInv'
  <2>1. PICK v : v = WithCeremony(u, "register", c)
    OBVIOUS
  <2>2. v.ceremony["register"] = c
    <3>1. v.ceremony = [u.ceremony EXCEPT !["register"] = c]
      BY <1>3, <1>6, <2>1, CeremonyFacts
    <3>2. u.ceremony \in [Kinds -> Number]
      BY <1>6 DEF Values
    <3> QED
      BY <1>3, <3>1, <3>2
  <2>3. PICK m : m = ReplyOf("register/begin", v, Window, TRUE)
    OBVIOUS
  <2>4. /\ replies' = replies \cup {m} /\ m.op = "register/begin" /\ m.values = v /\ m.served = now
        /\ UNCHANGED <<now, jar>> /\ table' = table \cup {<<"register", c>>}
    BY <1>2, <1>4, <1>5, <1>12, <2>1, <2>3 DEF PasskeyBeginRegister, Begin, Reply, ReplyOf
  <2>5. Started(m).kind = "register" /\ Started(m).token = c
    BY <2>2, <2>4 DEF Started
  <2>6. hist'.pending = (IF Quiet THEN hist.pending ELSE None)
    <3> HIDE DEF Quiet
    <3> QED
      BY <1>12, ServedFacts DEF PasskeyBeginRegister
  <2> QED
    BY <2>4, <2>5, <2>6, PendingAnswer DEF Begins
<1>13. ASSUME Logout PROVE PendingInv'
  <2>1. PICK h : h = Crossing(hist, "logout")
    OBVIOUS
  <2>2. h \in History
    BY <1>1, <2>1, CrossingFacts
  <2>3. hist' = [h EXCEPT !.live = None, !.pending = None]
    BY <1>13, <2>1 DEF Logout
  <2>4. hist'.pending = None
    BY <2>2, <2>3 DEF History
  <2> QED
    BY <2>4 DEF PendingInv
<1>14. ASSUME NEW age \in {Day, Week}, PasskeyFinishLogin(age) PROVE PendingInv'
  <2>1. age \in Nat /\ logins + begun < MaxTokens /\ hist' = Over(LoggedIn(age))
    BY <1>14, Constants DEF PasskeyFinishLogin
  <2>2. LoggedIn(age) \in History
    BY <2>1, LoggedInFacts
  <2>3. hist'.pending = None
    BY <2>1, <2>2, OverFacts
  <2> QED
    BY <2>3 DEF PendingInv
<1>15. ASSUME PasskeyFinishRegister PROVE PendingInv'
  <2>1. ValidSession /\ hist' = Over(Served("edit"))
    BY <1>15 DEF PasskeyFinishRegister
  <2>2. Served("edit") \in History
    BY <2>1, ServedFacts
  <2>3. hist'.pending = None
    BY <2>1, <2>2, OverFacts
  <2> QED
    BY <2>3 DEF PendingInv
<1>16. CASE Restart
  <2>1. hist'.pending = None
    BY <1>1, <1>16 DEF Restart, History
  <2> QED
    BY <2>1 DEF PendingInv
<1>17. CASE AccountChange \/ PasskeyLoginRefused \/ \E r \in replies : Lose(r)
  <2>1. /\ hist'.pending = hist.pending /\ UNCHANGED <<now, jar, table>>
        /\ replies' = replies \/ \E r \in replies : replies' = replies \ {r}
    BY <1>1, <1>17 DEF AccountChange, PasskeyLoginRefused, AfterFailure, Lose, History
  <2> QED
    BY <2>1, PendingUnchanged
<1>18. ASSUME NEW r \in replies, Receive(r) PROVE PendingInv'
  BY <1>18, PendingReceive
<1>19. CASE Tick
  BY <1>19, PendingTick
<1> QED
  BY <1>7, <1>8, <1>9, <1>10, <1>11, <1>12, <1>13, <1>14, <1>15, <1>16, <1>17, <1>18, <1>19
     DEF Next

-----------------------------------------------------------------------------
(* A registration that was begun has the session of its user: what the     *)
(* browser was told of it is no later than base, for a user who is signed  *)
(* in or whose login is being answered.                                    *)

Returning == hist.live # None \/ \E r \in replies : r.op = "login"

BaseInv ==
    /\ hist.live # None => Day <= hist.login[hist.live].window
    /\ hist.live # None =>
          \A r \in replies : r.op = "register/begin" => r.served <= hist.base
    /\ hist.pending # None /\ hist.pending.kind = "register" /\ Returning
          => hist.pending.at <= hist.base

(* A request of the session, or a login, sets base when nothing crosses.   *)
LEMMA BaseAnswer ==
    ASSUME Sound, PendingInv, BaseInv, NEW m, replies' = replies \cup {m}, m.served = now,
           hist'.base = (IF Quiet THEN now ELSE hist.base),
           hist'.live = (IF Mixed(m.op) THEN None ELSE hist.live),
           \A t \in 1 .. logins : hist'.login[t].window = hist.login[t].window,
           hist'.pending # None => Quiet /\ hist'.pending = hist.pending
    PROVE  BaseInv'
<1>1. now \in Nat
  BY DEF Sound, Counters
<1>2. ASSUME hist'.live # None, NEW r \in replies', r.op = "register/begin"
      PROVE  r.served <= hist'.base
  <2>1. hist'.live = hist.live /\ (Quiet \/ m.op = "visit")
    BY <1>2 DEF Mixed
  <2>2. CASE r \in replies
    BY <1>2, <2>1, <2>2 DEF BaseInv, Quiet
  <2>3. CASE r = m
    BY <1>1, <1>2, <2>1, <2>3
  <2> QED
    BY <2>2, <2>3
<1>3. ASSUME hist'.pending # None PROVE hist'.pending.at <= hist'.base
  BY <1>3 DEF PendingInv
<1>4. hist'.live # None => Day <= hist'.login[hist'.live].window
  BY DEF BaseInv, Sound, Counters
<1> QED
  BY <1>2, <1>3, <1>4 DEF BaseInv

(* The same when base stays, and nobody's login is answered.               *)
LEMMA BaseKept ==
    ASSUME BaseInv, hist'.base = hist.base, hist'.login = hist.login,
           hist'.live \in {hist.live, None}, hist'.pending \in {hist.pending, None},
           \A r \in replies' : r \in replies \/ r.op = "login/begin"
    PROVE  BaseInv'
<1>1. Returning' => Returning
  BY DEF Returning
<1> QED
  BY <1>1 DEF BaseInv

LEMMA BaseReceive ==
    ASSUME NEW r \in replies PROVE Sound /\ BaseInv /\ Receive(r) => BaseInv'
<1> SUFFICES ASSUME Sound, BaseInv, Receive(r) PROVE BaseInv'
  OBVIOUS
<1>1. /\ replies' = replies \ {r} /\ hist'.base = hist.base /\ hist'.login = hist.login
      /\ hist'.live = (IF r.op = "login" /\ Alone(r) /\ r.values.hash = crc
                       THEN r.values.token ELSE hist.live)
      /\ hist'.pending = (IF /\ r.op \in {"login/begin", "register/begin"}
                             /\ Alone(r)
                             /\ <<Started(r).kind, Started(r).token>> \in table
                          THEN Started(r) ELSE hist.pending)
  BY ReceivedFacts DEF Receive
<1>2. Alone(r) => replies' = {}
  BY <1>1 DEF Alone
<1>3. Returning' => Returning
  BY <1>1 DEF Returning
<1>4. ASSUME hist'.live # None, NEW m \in replies', m.op = "register/begin"
      PROVE  m.served <= hist'.base
  BY <1>1, <1>2, <1>4 DEF BaseInv
<1>5. ASSUME hist'.pending # None, hist'.pending.kind = "register", Returning'
      PROVE  hist'.pending.at <= hist'.base
  <2>1. CASE hist'.pending = hist.pending
    BY <1>1, <1>3, <1>5, <2>1 DEF BaseInv
  <2>2. CASE hist'.pending # hist.pending
    <3>1. r.op \in {"login/begin", "register/begin"} /\ Alone(r) /\ hist'.pending = Started(r)
      BY <1>1, <2>2
    <3>2. Started(r).kind = "register" => r.op = "register/begin"
      BY <3>1 DEF Started
    <3>3. r.op = "register/begin" /\ hist'.pending.at = r.served
      BY <1>5, <3>1, <3>2 DEF Started
    <3>4. hist.live # None
      BY <1>1, <1>2, <1>5, <3>1, <3>3 DEF Returning
    <3> QED
      BY <1>1, <3>3, <3>4 DEF BaseInv
  <2> QED
    BY <2>1, <2>2
<1>6. ASSUME hist'.live # None PROVE Day <= hist'.login[hist'.live].window
  <2>1. SoundValues(r.values)
    BY DEF Sound, SoundReply
  <2>2. CASE hist'.live = hist.live
    BY <1>1, <1>6, <2>2 DEF BaseInv
  <2>3. CASE hist'.live = r.values.token
    BY <1>1, <1>6, <2>1, <2>3 DEF SoundValues
  <2> QED
    BY <1>1, <2>2, <2>3
<1> QED
  BY <1>4, <1>5, <1>6 DEF BaseInv

LEMMA BaseStep == Sound /\ PendingInv /\ BaseInv /\ [Next]_vars => BaseInv'
<1> SUFFICES ASSUME Sound, PendingInv, BaseInv, [Next]_vars PROVE BaseInv'
  OBVIOUS
<1>1. hist \in History
  BY DEF Sound, Counters
<1> HIDE DEF Quiet, Mixed
<1>2. ASSUME NEW age \in {Day, Week}, Login(age) \/ PasskeyFinishLogin(age) PROVE BaseInv'
  <2>1. PICK h : h = LoggedIn(age)
    OBVIOUS
  <2>2. /\ age \in Nat /\ logins + begun < MaxTokens
        /\ hist' = h \/ hist' = Over(h)
    BY <1>2, <2>1, Constants DEF Login, PasskeyFinishLogin
  <2>3. /\ h \in History
        /\ h.base = (IF Quiet THEN now ELSE hist.base)
        /\ h.live = (IF Mixed("login") THEN None ELSE hist.live)
        /\ h.pending = (IF Quiet THEN hist.pending ELSE None)
        /\ \A t \in 1 .. logins : h.login[t] = hist.login[t]
    BY <2>1, <2>2, LoggedInFacts
  <2>4. /\ hist'.base = h.base /\ hist'.live = h.live /\ hist'.login = h.login
        /\ hist'.pending \in {h.pending, None}
    BY <2>2, <2>3, OverFacts
  <2>5. PICK w, a : replies' = replies \cup {ReplyOf("login", w, a, TRUE)}
    BY <1>2 DEF Login, PasskeyFinishLogin, Reply, ReplyOf
  <2>6. PICK m : m = ReplyOf("login", w, a, TRUE)
    OBVIOUS
  <2>7. replies' = replies \cup {m} /\ m.op = "login" /\ m.served = now
    BY <2>5, <2>6 DEF ReplyOf
  <2>8. hist'.pending # None => Quiet /\ hist'.pending = hist.pending
    BY <2>3, <2>4
  <2> QED
    BY <2>3, <2>4, <2>7, <2>8, BaseAnswer
<1>3. ASSUME Visit \/ OwnEdit \/ PasskeyBeginRegister \/ PasskeyFinishRegister PROVE BaseInv'
  <2>1. ValidSession
    BY <1>3 DEF Visit, OwnEdit, PasskeyBeginRegister, PasskeyFinishRegister
  <2>2. PICK op \in {"visit", "edit", "register/begin"} :
            /\ hist' = Served(op) \/ hist' = Over(Served(op))
            /\ \E w, a : replies' = replies \cup {ReplyOf(op, w, a, TRUE)}
    BY <1>3 DEF Visit, OwnEdit, PasskeyBeginRegister, PasskeyFinishRegister, Reply, ReplyOf
  <2>3. PICK h : h = Served(op)
    OBVIOUS
  <2>4. /\ h \in History
        /\ h.base = (IF Quiet THEN now ELSE hist.base)
        /\ h.live = (IF Mixed(op) THEN None ELSE hist.live)
        /\ h.pending = (IF Quiet THEN hist.pending ELSE None)
        /\ \A t \in 1 .. MaxTokens : h.login[t].window = hist.login[t].window
    BY <2>1, <2>3, ServedFacts DEF SeenOnly
  <2>5. /\ hist'.base = h.base /\ hist'.live = h.live /\ hist'.login = h.login
        /\ hist'.pending \in {h.pending, None}
    BY <2>2, <2>3, <2>4, OverFacts
  <2>6. PICK w, a : replies' = replies \cup {ReplyOf(op, w, a, TRUE)}
    BY <2>2
  <2>7. PICK m : m = ReplyOf(op, w, a, TRUE)
    OBVIOUS
  <2>8. replies' = replies \cup {m} /\ m.op = op /\ m.served = now
    BY <2>6, <2>7 DEF ReplyOf
  <2>9. \A t \in 1 .. logins : t \in 1 .. MaxTokens
    BY Constants DEF Sound, Counters
  <2>10. hist'.pending # None => Quiet /\ hist'.pending = hist.pending
    BY <2>4, <2>5
  <2> QED
    BY <2>4, <2>5, <2>8, <2>9, <2>10, BaseAnswer
<1>4. CASE PasskeyBeginLogin
  <2>1. \E w, a : replies' = replies \cup {ReplyOf("login/begin", w, a, FALSE)}
    BY <1>4 DEF PasskeyBeginLogin, Reply, ReplyOf
  <2>2. \A r \in replies' : r \in replies \/ r.op = "login/begin"
    BY <2>1 DEF ReplyOf
  <2>3. /\ hist'.base = hist.base /\ hist'.live \in {hist.live, None}
        /\ hist'.login = hist.login /\ hist'.pending \in {hist.pending, None}
    BY <1>1, <1>4, CrossingFacts DEF PasskeyBeginLogin
  <2> QED
    BY <2>2, <2>3, BaseKept
<1>5. CASE Logout
  <2>1. PICK h : h = Crossing(hist, "logout")
    OBVIOUS
  <2>2. hist' = [h EXCEPT !.live = None, !.pending = None] /\ h \in History
    BY <1>1, <1>5, <2>1, CrossingFacts DEF Logout
  <2>3. hist'.live = None /\ hist'.pending = None
    BY <2>2 DEF History
  <2> QED
    BY <2>3 DEF BaseInv
<1>6. CASE AccountChange \/ PasskeyLoginRefused \/ Tick \/ Restart \/ UNCHANGED vars
           \/ \E r \in replies : Lose(r)
  <2>1. hist' \in {hist, [hist EXCEPT !.live = None], [hist EXCEPT !.pending = None]}
        /\ replies' \subseteq replies
    BY <1>6 DEF AccountChange, PasskeyLoginRefused, Tick, Restart, vars, Lose
  <2>2. /\ hist'.base = hist.base /\ hist'.live \in {hist.live, None}
        /\ hist'.login = hist.login /\ hist'.pending \in {hist.pending, None}
    BY <1>1, <2>1 DEF History
  <2> QED
    BY <2>1, <2>2, BaseKept
<1>7. ASSUME NEW r \in replies, Receive(r) PROVE BaseInv'
  BY <1>7, BaseReceive
<1> QED
  BY <1>2, <1>3, <1>4, <1>5, <1>6, <1>7 DEF Next

(* The browser can finish a ceremony it was told of, whatever else it did  *)
(* meanwhile, for a day, unless the server restarted or requests crossed.  *)
(* A registration takes a session too: its user must still have to be      *)
(* signed in, which ActiveSessionAccepted then says of the session.        *)
THEOREM CeremonySurvives == Spec => []BegunCanFinish
<1>1. Init => PendingInv /\ BaseInv
  BY DEF Init, NoHistory, PendingInv, BaseInv
<1>2. Sound /\ PendingInv /\ BaseInv /\ ActiveSessionAccepted => BegunCanFinish
  <2> SUFFICES ASSUME Sound, PendingInv, BaseInv, ActiveSessionAccepted,
                      Quiet, hist.pending # None, now < hist.pending.at + Day,
                      hist.pending.kind = "register" => SignedIn
               PROVE  /\ Session.ceremony[hist.pending.kind] = hist.pending.token
                      /\ CanFinish(hist.pending.kind)
                      /\ hist.pending.kind = "register" => ValidSession
    BY DEF BegunCanFinish
  <2>1. PendingJar(hist.pending) /\ <<hist.pending.kind, hist.pending.token>> \in table
    BY DEF PendingInv
  <2>2. Session = jar.session.values
    BY <2>1, PendingJarIsPresented
  <2>3. ASSUME hist.pending.kind = "register" PROVE ValidSession
    <3>1. hist.live # None /\ hist.pending.at <= hist.base
      BY <2>3 DEF SignedIn, BaseInv, Returning
    <3>2. PICK w \in Nat, b \in Nat, p \in Nat :
             w = hist.login[hist.live].window /\ b = hist.base /\ p = hist.pending.at
      BY <3>1, EndingFacts, PendingFacts
    <3>3. Day <= w
      BY <3>1, <3>2 DEF BaseInv
    <3>4. now \in Nat /\ now < b + Least(w, Week)
      BY <3>1, <3>2, <3>3, EndingFacts, Constants DEF Least
    <3> QED
      BY <2>3, <3>1, <3>2, <3>4 DEF ActiveSessionAccepted, SignedIn
  <2> QED
    BY <2>1, <2>2, <2>3 DEF PendingJar, CanFinish
<1>3. Spec => [](PendingInv /\ BaseInv)
  BY <1>1, PendingStep, BaseStep, AlwaysSound, PTL DEF Spec
<1> QED
  BY <1>2, <1>3, AlwaysSound, ActiveStaysSignedIn, PTL
=============================================================================
