--------------------------- MODULE AccountsProofs ---------------------------
(***************************************************************************)
(* Proofs about Accounts and AccountSteps, for any sets of names, browsers,*)
(* password hashes and credentials.                                        *)
(*                                                                         *)
(* The first part is about Accounts, where a handler is one step.  The     *)
(* second is about its handlers split at their store calls: the types hold *)
(* for any number of handlers in flight; what the cache holds between      *)
(* handlers, and the refinement of Accounts, for one at a time.            *)
(***************************************************************************)
EXTENDS AccountSteps, TLAPS

-----------------------------------------------------------------------------
(* Types of the expressions handlers save.                               *)

(* A new account starts with a well-formed table of passkeys.            *)
LEMMA NoPasskeysType == NoPasskeys \in [Creds -> Labels \cup {None}]
BY DEF NoPasskeys

(* A record and its checksum and cookie have the types they should.      *)
LEMMA DigestType ==
    ASSUME NEW n \in Names, NEW u \in User
    PROVE  /\ Digest(n, u) \in Hash
           /\ CookieFor(n, u) \in Cookie
BY DEF Digest, CookieFor, Hash, Cookie, User

(* None is told apart from every record, checksum, cookie and label.     *)
LEMMA NoneIsNoValue == None \notin User /\ None \notin Hash /\ None \notin Cookie
                       /\ None \notin Labels
BY ConstantsAssumption

(* v is u edited by a handler that leaves the password alone.            *)
Evolves(u, v) == v \in User /\ v.pw = u.pw /\ v.epoch >= u.epoch

(* Updating fields of a record other than the password, the epoch never  *)
(* downwards.                                                            *)
LEMMA FieldUpdates ==
    ASSUME NEW u \in User, NEW x \in BOOLEAN, NEW e \in Nat, e >= u.epoch,
           NEW f \in [Creds -> Labels \cup {None}]
    PROVE  /\ Evolves(u, [u EXCEPT !.admin = x])
           /\ Evolves(u, [u EXCEPT !.disabled = x])
           /\ Evolves(u, [u EXCEPT !.epoch = e])
           /\ Evolves(u, [u EXCEPT !.passkeys = f])
           /\ Evolves(u, [u EXCEPT !.passkeys = f, !.epoch = e])
<1>1. u.epoch >= u.epoch
  BY DEF User
<1>2. Evolves(u, [u EXCEPT !.admin = x])
  BY <1>1 DEF User, Evolves
<1>3. Evolves(u, [u EXCEPT !.disabled = x])
  BY <1>1 DEF User, Evolves
<1>4. Evolves(u, [u EXCEPT !.epoch = e])
  BY DEF User, Evolves
<1>5. Evolves(u, [u EXCEPT !.passkeys = f])
  BY <1>1 DEF User, Evolves
<1>6. Evolves(u, [u EXCEPT !.passkeys = f, !.epoch = e])
  BY DEF User, Evolves
<1>7. QED BY <1>2, <1>3, <1>4, <1>5, <1>6

(* The records the handlers save for an existing account.                *)
LEMMA Updates ==
    ASSUME NEW u \in User
    PROVE  /\ \A x \in BOOLEAN : Evolves(u, [u EXCEPT !.admin = x])
           /\ \A x \in BOOLEAN : Evolves(u, [u EXCEPT !.disabled = x])
           /\ Evolves(u, [u EXCEPT !.epoch = @ + 1])
           /\ Evolves(u, [u EXCEPT !.passkeys = NoPasskeys])
           /\ \A k \in Creds, l \in Labels : Evolves(u, [u EXCEPT !.passkeys[k] = l])
           /\ \A k \in Creds :
                 Evolves(u, [u EXCEPT !.passkeys[k] = None, !.epoch = @ + 1])
<1>1. /\ u.epoch + 1 \in Nat /\ u.epoch + 1 >= u.epoch
      /\ u.epoch \in Nat /\ u.epoch >= u.epoch
      /\ u.passkeys \in [Creds -> Labels \cup {None}]
  BY DEF User
<1>2. ASSUME NEW k \in Creds, NEW l \in Labels \cup {None}
      PROVE  [u.passkeys EXCEPT ![k] = l] \in [Creds -> Labels \cup {None}]
  BY <1>1
<1>3. /\ \A x \in BOOLEAN : Evolves(u, [u EXCEPT !.admin = x])
      /\ \A x \in BOOLEAN : Evolves(u, [u EXCEPT !.disabled = x])
      /\ Evolves(u, [u EXCEPT !.epoch = @ + 1])
      /\ Evolves(u, [u EXCEPT !.passkeys = NoPasskeys])
  BY <1>1, NoPasskeysType, FieldUpdates
<1>4. ASSUME NEW k \in Creds, NEW l \in Labels
      PROVE  Evolves(u, [u EXCEPT !.passkeys[k] = l])
  <2>1. [u.passkeys EXCEPT ![k] = l] \in [Creds -> Labels \cup {None}]
    BY <1>2
  <2>2. QED BY <1>1, <2>1, FieldUpdates
<1>5. ASSUME NEW k \in Creds
      PROVE  Evolves(u, [u EXCEPT !.passkeys[k] = None, !.epoch = @ + 1])
  <2>1. [u.passkeys EXCEPT ![k] = None] \in [Creds -> Labels \cup {None}]
    BY <1>2
  <2>2. QED BY <1>1, <2>1, FieldUpdates
<1>6. QED BY <1>3, <1>4, <1>5

-----------------------------------------------------------------------------
(* What a valid session says of its account, in a state that satisfies the*)
(* inductive invariant.                                                  *)
LEMMA ValidSessionFacts ==
    ASSUME IInv, NEW b \in Browsers, ValidSession(b)
    PROVE  /\ cookie[b] \in Cookie
           /\ Me(b) \in Names
           /\ Exists(Me(b))
           /\ users[Me(b)] \in User
           /\ cookie[b] = CookieFor(Me(b), users[Me(b)])
           /\ cookie[b].hash.user = users[Me(b)]
           /\ ~users[Me(b)].disabled
           /\ b \notin revoked
<1>1. cookie[b] \in Cookie /\ Me(b) \in Names
  BY DEF IInv, TypeOK, ValidSession, Cookie, Me
<1>2. cookie[b].hash \in Hash /\ cookie[b].hash # None
  BY <1>1, NoneIsNoValue DEF Cookie
<1>3. Exists(Me(b)) /\ cookie[b].hash = Digest(Me(b), users[Me(b)])
  BY <1>1, <1>2 DEF IInv, CacheMatchesStore, ValidSession, Me
<1>4. cookie[b].hash.user = users[Me(b)]
  BY <1>3 DEF Digest
<1>5. cookie[b] = CookieFor(Me(b), users[Me(b)]) /\ ~users[Me(b)].disabled
  BY <1>4 DEF IInv, CookiesFromRecords, ValidSession, Me
<1>6. users[Me(b)] \in User
  BY <1>1, <1>3 DEF IInv, TypeOK, Exists
<1>7. b \notin revoked
  <2>1. ~(users[Me(b)].epoch < users[Me(b)].epoch)
    BY <1>6 DEF User
  <2>2. QED
    BY <1>1, <1>3, <1>4, <2>1 DEF IInv, EpochsBehind, ValidSession
<1>8. QED BY <1>1, <1>3, <1>4, <1>5, <1>6, <1>7

-----------------------------------------------------------------------------
(* What a handler run by browser b may do to the cookies when it saves the*)
(* record v of account n: nothing, renew b's own, or clear b's own.      *)
CookieAfterSave(b, n, v) ==
    \/ UNCHANGED cookie
    \/ ~v.disabled /\ n = Me(b) /\ SetUser(b, n, v)
    \/ ClearSession(b)

(* A browser's next cookie is the old one, none, or the one in the reply.*)
LEMMA CookieCases ==
    ASSUME IInv, NEW b \in Browsers, NEW n \in Names, NEW v,
           CookieAfterSave(b, n, v), NEW c \in Browsers
    PROVE  \/ cookie'[c] = cookie[c]
           \/ cookie'[c] = None
           \/ c = b /\ n = Me(b) /\ ~v.disabled /\ cookie'[c] = CookieFor(n, v)
BY DEF IInv, TypeOK, CookieAfterSave, SetUser, ClearSession, Receives

(* The handlers that save an edited record of an existing account preserve*)
(* the invariant: SetUserAdmin, SetUserDisabled, RevokeUserSessions, and *)
(* registering, renaming and removing a passkey.                         *)
LEMMA SaveStep ==
    ASSUME IInv, NEW b \in Browsers, ValidSession(b),
           NEW n \in Names, Exists(n), NEW v, Evolves(users[n], v),
           SaveUser(n, v), CookieAfterSave(b, n, v),
           passkeysOn' = passkeysOn,
           spent \subseteq spent', spent' \subseteq PwHashes \cup Creds,
           \/ UNCHANGED revoked
           \/ /\ v.epoch > users[n].epoch /\ Revoke(n)
              /\ cookie'[b] = cookie[b] \/ cookie'[b] = None
    PROVE  IInv'
<1>1. /\ users[n] \in User /\ v \in User /\ v # None
      /\ v.pw = users[n].pw /\ v.epoch >= users[n].epoch
      /\ v.epoch \in Nat /\ users[n].epoch \in Nat
  BY NoneIsNoValue DEF IInv, TypeOK, Exists, Evolves, User
<1>2. /\ users'[n] = v /\ crc'[n] = Digest(n, v)
      /\ \A m \in Names \ {n} : users'[m] = users[m] /\ crc'[m] = crc[m]
  BY DEF IInv, TypeOK, SaveUser
<1>3. Digest(n, v) \in Hash /\ CookieFor(n, v) \in Cookie /\ CookieFor(n, v) # None
  BY <1>1, DigestType, NoneIsNoValue
<1>4. /\ CookieFor(n, v).username = n
      /\ CookieFor(n, v).hash.user = v
  BY DEF CookieFor, Digest
<1>5. TypeOK'
  <2>1. users' \in [Names -> User \cup {None}]
    BY <1>1 DEF IInv, TypeOK, SaveUser
  <2>2. crc' \in [Names -> Hash \cup {None}]
    BY <1>3 DEF IInv, TypeOK, SaveUser
  <2>3. cookie' \in [Browsers -> Cookie \cup {None}]
    BY <1>3 DEF IInv, TypeOK, CookieAfterSave, SetUser, ClearSession, Receives
  <2>4. revoked' \subseteq Browsers
    BY DEF IInv, TypeOK, Revoke, SessionsOf
  <2>5. passkeysOn' \in BOOLEAN
    BY DEF IInv, TypeOK
  <2>6. QED BY <2>1, <2>2, <2>3, <2>4, <2>5 DEF TypeOK
<1>6. CacheMatchesStore'
  <2>1. SUFFICES ASSUME NEW m \in Names
                 PROVE  crc'[m] = IF Exists(m)' THEN Digest(m, users'[m]) ELSE None
    BY DEF CacheMatchesStore, Digest
  <2>2. CASE m = n
    BY <2>2, <1>1, <1>2 DEF Exists
  <2>3. CASE m # n
    BY <2>3, <1>2 DEF IInv, CacheMatchesStore, Exists
  <2>4. QED BY <2>2, <2>3
<1>7. CookiesFromRecords'
  <2>1. SUFFICES ASSUME NEW c \in Browsers, cookie'[c] # None
                 PROVE  /\ cookie'[c] = CookieFor(cookie'[c].username, cookie'[c].hash.user)
                        /\ ~cookie'[c].hash.user.disabled
    BY DEF CookiesFromRecords, CookieFor, Digest
  <2>2. CASE cookie'[c] = cookie[c]
    BY <2>1, <2>2 DEF IInv, CookiesFromRecords
  <2>3. CASE ~v.disabled /\ cookie'[c] = CookieFor(n, v)
    BY <2>3, <1>4
  <2>4. QED BY <2>1, <2>2, <2>3, CookieCases
<1>8. \A m \in Names : Exists(m)' <=> Exists(m)
  BY <1>1, <1>2 DEF Exists
<1>9. \A m \in Names : Exists(m) => users'[m].pw = users[m].pw
  BY <1>1, <1>2
<1>10. HashesInUse'
  <2>1. \A m \in Names : Exists(m)' => users'[m].pw \in spent'
    BY <1>8, <1>9 DEF IInv, HashesInUse
  <2>2. ASSUME NEW c \in Browsers, cookie'[c] # None
        PROVE  cookie'[c].hash.user.pw \in spent'
    <3>1. CASE cookie'[c] = cookie[c]
      BY <2>2, <3>1 DEF IInv, HashesInUse
    <3>2. CASE cookie'[c] = CookieFor(n, v)
      BY <3>2, <1>1, <1>4 DEF IInv, HashesInUse
    <3>3. QED BY <2>2, <3>1, <3>2, CookieCases
  <2>3. \A m, k \in Names :
            Exists(m)' /\ Exists(k)' /\ users'[m].pw = users'[k].pw => m = k
    BY <1>8, <1>9 DEF IInv, HashesInUse
  <2>4. QED BY <2>1, <2>2, <2>3 DEF HashesInUse
<1>11. EpochsBehind'
  <2>1. SUFFICES ASSUME NEW c \in Browsers, NEW m \in Names, cookie'[c] # None,
                        Exists(m)', users'[m].pw = cookie'[c].hash.user.pw
                 PROVE  /\ cookie'[c].hash.user.epoch <= users'[m].epoch
                        /\ c \in revoked' => cookie'[c].hash.user.epoch < users'[m].epoch
    BY DEF EpochsBehind
  <2>2. /\ Exists(m) /\ users'[m].pw = users[m].pw
        /\ users[m] \in User /\ users'[m] \in User
        /\ users'[m].epoch >= users[m].epoch
    BY <2>1, <1>1, <1>2, <1>8, <1>9 DEF IInv, TypeOK, Exists, User
  <2>3. CASE cookie'[c] = cookie[c]
    <3>1. /\ cookie[c].hash.user \in User
          /\ cookie[c].hash.user.epoch <= users[m].epoch
          /\ c \in revoked => cookie[c].hash.user.epoch < users[m].epoch
      BY <2>1, <2>2, <2>3 DEF IInv, EpochsBehind, TypeOK, Cookie, Hash
    <3>2. /\ cookie[c].hash.user.epoch \in Nat
          /\ users[m].epoch \in Nat /\ users'[m].epoch \in Nat
      BY <2>2, <3>1 DEF User
    <3>3. CASE c \in revoked \/ c \notin revoked'
      BY <2>2, <2>3, <3>1, <3>2, <3>3
    <3>4. CASE c \in SessionsOf(n) /\ v.epoch > users[n].epoch
      <4>1. users[n].pw = users[m].pw
        BY <2>1, <2>2, <2>3, <3>4 DEF SessionsOf
      <4>2. m = n
        BY <4>1, <2>2 DEF IInv, HashesInUse
      <4>3. QED BY <4>2, <3>1, <3>2, <3>4, <2>3, <1>1, <1>2
    <3>5. QED BY <3>3, <3>4 DEF Revoke
  <2>4. CASE c = b /\ n = Me(b) /\ cookie'[c] = CookieFor(n, v)
    <3>1. m = n
      BY <2>1, <2>2, <2>4, <1>1, <1>4 DEF IInv, HashesInUse
    <3>2. cookie'[c].hash.user.epoch = users'[m].epoch /\ users'[m].epoch \in Nat
      BY <3>1, <2>4, <1>1, <1>2, <1>4
    <3>3. c \notin revoked
      BY <2>4, ValidSessionFacts
    <3>4. CASE UNCHANGED revoked
      BY <3>2, <3>3, <3>4
    <3>5. CASE /\ v.epoch > users[n].epoch
               /\ cookie'[b] = cookie[b] \/ cookie'[b] = None
      <4>1. cookie'[c] = cookie[c] \/ cookie'[c] = None
        BY <2>4, <3>5
      <4>2. cookie[c].hash.user = users[n]
        BY <2>4, ValidSessionFacts
      <4>3. v = users[n]
        BY <4>1, <4>2, <2>1, <2>4, <1>4
      <4>4. QED BY <4>3, <3>5, <1>1
    <3>6. QED BY <3>4, <3>5, <2>4
  <2>5. QED BY <2>1, <2>3, <2>4, CookieCases
<1>12. QED BY <1>5, <1>6, <1>7, <1>10, <1>11 DEF IInv

-----------------------------------------------------------------------------
(* Logging out and expiring, and a restart: cookies are dropped, nothing *)
(* else changes, and the cache rebuilt by a restart is the one it had.   *)
LEMMA DropStep ==
    ASSUME IInv, UNCHANGED <<users, crc, passkeysOn, spent, revoked>>,
           cookie' \in [Browsers -> Cookie \cup {None}],
           \A c \in Browsers : cookie'[c] = cookie[c] \/ cookie'[c] = None
    PROVE  IInv'
<1>1. TypeOK' /\ CacheMatchesStore'
  BY DEF IInv, TypeOK, CacheMatchesStore, Exists, Digest
<1>2. CookiesFromRecords'
  <2>1. SUFFICES ASSUME NEW c \in Browsers, cookie'[c] # None
                 PROVE  /\ cookie'[c] = CookieFor(cookie'[c].username, cookie'[c].hash.user)
                        /\ ~cookie'[c].hash.user.disabled
    BY DEF CookiesFromRecords, CookieFor, Digest
  <2>2. cookie'[c] = cookie[c]
    BY <2>1
  <2>3. QED BY <2>1, <2>2 DEF IInv, CookiesFromRecords
<1>3. HashesInUse'
  BY DEF IInv, HashesInUse, Exists
<1>4. EpochsBehind'
  BY DEF IInv, EpochsBehind, Exists
<1>5. QED BY <1>1, <1>2, <1>3, <1>4 DEF IInv

-----------------------------------------------------------------------------
(* Logging in, by password or by passkey.                                *)
LEMMA LoginKeeps ==
    ASSUME IInv, NEW b \in Browsers, NEW n \in Names, Exists(n), ~users[n].disabled,
           SetLoginSession(b, n)
    PROVE  IInv'
<1> DEFINE k == CookieFor(n, users[n])
<1>1. users[n] \in User /\ users[n].epoch \in Nat
  BY DEF IInv, TypeOK, Exists, User
<1>2. k \in Cookie /\ k # None /\ k.username = n /\ k.hash.user = users[n]
  BY <1>1, DigestType, NoneIsNoValue DEF CookieFor, Digest
<1>3. crc' = crc
  <2>1. crc[n] = Digest(n, users[n])
    BY DEF IInv, CacheMatchesStore
  <2>2. QED BY <2>1 DEF IInv, TypeOK, SetLoginSession
<1>4. CASE cookie' = cookie
  BY <1>3, <1>4, DropStep DEF IInv, TypeOK, SetLoginSession
<1>5. CASE cookie' # cookie
  <2>1. UNCHANGED <<users, passkeysOn, spent>> /\ revoked' = revoked \ {b}
    BY <1>5 DEF SetLoginSession
  <2>2. /\ cookie' \in [Browsers -> Cookie \cup {None}]
        /\ cookie'[b] = k
        /\ \A c \in Browsers \ {b} : cookie'[c] = cookie[c]
    BY <1>2, <1>5 DEF IInv, TypeOK, SetLoginSession, SetUser, Receives
  <2> HIDE DEF k
  <2>3. TypeOK' /\ CacheMatchesStore'
    BY <1>3, <2>1, <2>2 DEF IInv, TypeOK, CacheMatchesStore, Exists, Digest
  <2>4. CookiesFromRecords'
    <3>1. SUFFICES ASSUME NEW c \in Browsers, cookie'[c] # None
                   PROVE  /\ cookie'[c] = CookieFor(cookie'[c].username, cookie'[c].hash.user)
                          /\ ~cookie'[c].hash.user.disabled
      BY DEF CookiesFromRecords, CookieFor, Digest
    <3>2. CASE c = b
      BY <3>2, <1>2, <2>2 DEF k
    <3>3. CASE c # b
      BY <3>1, <3>3, <2>2 DEF IInv, CookiesFromRecords
    <3>4. QED BY <3>2, <3>3
  <2>5. HashesInUse'
    BY <1>2, <2>1, <2>2 DEF IInv, HashesInUse, Exists
  <2>6. EpochsBehind'
    <3>1. SUFFICES ASSUME NEW c \in Browsers, NEW m \in Names, cookie'[c] # None,
                          Exists(m), users[m].pw = cookie'[c].hash.user.pw
                   PROVE  /\ cookie'[c].hash.user.epoch <= users[m].epoch
                          /\ c \in revoked \ {b} => cookie'[c].hash.user.epoch < users[m].epoch
      BY <2>1 DEF EpochsBehind, Exists
    <3>2. CASE c = b
      <4>1. m = n
        BY <3>1, <3>2, <1>2, <2>2 DEF IInv, HashesInUse
      <4>2. QED BY <3>2, <4>1, <1>1, <1>2, <2>2
    <3>3. CASE c # b
      BY <3>1, <3>3, <2>2 DEF IInv, EpochsBehind
    <3>4. QED BY <3>2, <3>3
  <2>7. QED BY <2>3, <2>4, <2>5, <2>6 DEF IInv
<1>6. QED BY <1>4, <1>5

(* Logging out, and a cookie that runs out.                              *)
LEMMA LogoutKeeps ==
    ASSUME IInv, NEW b \in Browsers, Logout(b) \/ Expire(b)
    PROVE  IInv'
<1>1. cookie' \in {cookie, [cookie EXCEPT ![b] = None]} /\ UNCHANGED <<users, crc, passkeysOn, spent, revoked>>
  BY DEF Logout, Expire, ClearSession, Receives
<1>2. /\ cookie' \in [Browsers -> Cookie \cup {None}]
      /\ \A c \in Browsers : cookie'[c] = cookie[c] \/ cookie'[c] = None
  BY <1>1 DEF IInv, TypeOK
<1>3. QED BY <1>1, <1>2, DropStep

(* A restart rebuilds the checksums from the store, so nothing changes.  *)
LEMMA RestartKeeps ==
    ASSUME IInv, NEW secretFixed \in BOOLEAN, Restart(secretFixed)
    PROVE  IInv'
<1>1. crc' = crc
  BY DEF IInv, TypeOK, CacheMatchesStore, Restart
<1>2. /\ cookie' \in [Browsers -> Cookie \cup {None}]
      /\ \A c \in Browsers : cookie'[c] = cookie[c] \/ cookie'[c] = None
  BY DEF IInv, TypeOK, Restart
<1>3. QED BY <1>1, <1>2, DropStep DEF Restart

-----------------------------------------------------------------------------
(* A new account starts with a password hash no account ever had.        *)
LEMMA CreateStep ==
    ASSUME IInv, NEW b \in Browsers, NEW n \in Names, NEW pw \in PwHashes \ spent,
           NEW adm \in BOOLEAN, NEW prof \in Profiles, CreateUser(b, n, pw, adm, prof)
    PROVE  IInv'
<1> DEFINE u == [pw |-> pw, admin |-> adm, disabled |-> FALSE, epoch |-> 0,
                 profile |-> prof, passkeys |-> NoPasskeys]
<1>1. u \in User /\ u # None /\ u.pw = pw
  <2>1. NoPasskeys \in [Creds -> Labels \cup {None}]
    BY NoPasskeysType
  <2>2. u \in User
    BY <2>1 DEF User
  <2>3. QED BY <2>2, NoneIsNoValue
<1>2. Digest(n, u) \in Hash
  BY <1>1, DigestType
<1>3. ~Exists(n) /\ SaveUser(n, u)
  BY DEF CreateUser
<1> HIDE DEF u
<1>4. /\ users'[n] = u /\ crc'[n] = Digest(n, u)
      /\ \A m \in Names \ {n} : users'[m] = users[m] /\ crc'[m] = crc[m]
  BY <1>3 DEF IInv, TypeOK, SaveUser
<1>5. spent' = spent \cup {pw} /\ UNCHANGED <<cookie, passkeysOn, revoked>>
  BY DEF CreateUser
<1>6. TypeOK'
  <2>1. users' \in [Names -> User \cup {None}]
    BY <1>1, <1>3 DEF IInv, TypeOK, SaveUser
  <2>2. crc' \in [Names -> Hash \cup {None}]
    BY <1>2, <1>3 DEF IInv, TypeOK, SaveUser
  <2>3. QED BY <2>1, <2>2, <1>5 DEF IInv, TypeOK
<1>7. CacheMatchesStore'
  <2>1. SUFFICES ASSUME NEW m \in Names
                 PROVE  crc'[m] = IF Exists(m)' THEN Digest(m, users'[m]) ELSE None
    BY DEF CacheMatchesStore, Digest
  <2>2. CASE m = n
    BY <2>2, <1>1, <1>4 DEF Exists
  <2>3. CASE m # n
    BY <2>3, <1>4 DEF IInv, CacheMatchesStore, Exists
  <2>4. QED BY <2>2, <2>3
<1>8. CookiesFromRecords'
  BY <1>5 DEF IInv, CookiesFromRecords, CookieFor, Digest
<1>9. \A m \in Names \ {n} : Exists(m)' <=> Exists(m)
  BY <1>4 DEF Exists
<1>10. HashesInUse'
  <2>1. \A m \in Names : Exists(m)' => users'[m].pw \in spent'
    BY <1>1, <1>4, <1>5, <1>9 DEF IInv, HashesInUse
  <2>2. \A c \in Browsers : cookie'[c] # None => cookie'[c].hash.user.pw \in spent'
    BY <1>5 DEF IInv, HashesInUse
  <2>3. \A m \in Names \ {n} : Exists(m)' => users'[m].pw # pw
    BY <1>4, <1>9 DEF IInv, HashesInUse
  <2>4. ASSUME NEW m \in Names, NEW k \in Names,
               Exists(m)', Exists(k)', users'[m].pw = users'[k].pw
        PROVE  m = k
    <3>1. CASE m = n \/ k = n
      BY <2>3, <2>4, <3>1, <1>1, <1>4
    <3>2. CASE m # n /\ k # n
      BY <2>4, <3>2, <1>4, <1>9 DEF IInv, HashesInUse
    <3>3. QED BY <3>1, <3>2
  <2>5. QED BY <2>1, <2>2, <2>4 DEF HashesInUse
<1>11. EpochsBehind'
  <2>1. SUFFICES ASSUME NEW c \in Browsers, NEW m \in Names, cookie[c] # None,
                        Exists(m)', users'[m].pw = cookie[c].hash.user.pw
                 PROVE  /\ cookie[c].hash.user.epoch <= users'[m].epoch
                        /\ c \in revoked => cookie[c].hash.user.epoch < users'[m].epoch
    BY <1>5 DEF EpochsBehind
  <2>2. m # n
    BY <2>1, <1>1, <1>4 DEF IInv, HashesInUse
  <2>3. QED BY <2>1, <2>2, <1>4, <1>9 DEF IInv, EpochsBehind
<1>12. QED BY <1>6, <1>7, <1>8, <1>10, <1>11 DEF IInv

(* The password hash of a removed account is out of use for good.        *)
LEMMA RemoveStep ==
    ASSUME IInv, NEW b \in Browsers, NEW n \in Names, RemoveUser(b, n)
    PROVE  IInv'
<1>1. /\ Exists(n)
      /\ ~Exists(n)' /\ crc'[n] = None
      /\ \A m \in Names \ {n} : users'[m] = users[m] /\ crc'[m] = crc[m]
      /\ UNCHANGED <<cookie, passkeysOn, spent>>
      /\ Revoke(n)
  BY DEF IInv, TypeOK, RemoveUser, Exists
<1>2. \A m \in Names : Exists(m)' => m # n /\ Exists(m)
  BY <1>1 DEF Exists
<1>3. TypeOK'
  BY DEF IInv, TypeOK, RemoveUser, Revoke, SessionsOf
<1>4. CacheMatchesStore'
  <2>1. SUFFICES ASSUME NEW m \in Names
                 PROVE  crc'[m] = IF Exists(m)' THEN Digest(m, users'[m]) ELSE None
    BY DEF CacheMatchesStore, Digest
  <2>2. CASE m = n
    BY <2>2, <1>1
  <2>3. CASE m # n
    BY <2>3, <1>1 DEF IInv, CacheMatchesStore, Exists
  <2>4. QED BY <2>2, <2>3
<1>5. CookiesFromRecords'
  BY <1>1 DEF IInv, CookiesFromRecords, CookieFor, Digest
<1>6. HashesInUse'
  BY <1>1, <1>2 DEF IInv, HashesInUse
<1>7. EpochsBehind'
  <2>1. SUFFICES ASSUME NEW c \in Browsers, NEW m \in Names, cookie[c] # None,
                        Exists(m)', users'[m].pw = cookie[c].hash.user.pw
                 PROVE  /\ cookie[c].hash.user.epoch <= users'[m].epoch
                        /\ c \in revoked' => cookie[c].hash.user.epoch < users'[m].epoch
    BY <1>1 DEF EpochsBehind
  <2>2. m # n /\ Exists(m) /\ users'[m] = users[m]
    BY <2>1, <1>1, <1>2
  <2>3. c \notin SessionsOf(n)
    BY <2>1, <2>2, <1>1 DEF IInv, HashesInUse, SessionsOf
  <2>4. c \in revoked' => c \in revoked
    BY <2>3, <1>1 DEF Revoke
  <2>5. QED BY <2>1, <2>2, <2>4 DEF IInv, EpochsBehind
<1>8. QED BY <1>3, <1>4, <1>5, <1>6, <1>7 DEF IInv

-----------------------------------------------------------------------------
(* The record UpdateUser saves.                                          *)
LEMMA UpdatedUserFacts ==
    ASSUME IInv, NEW b \in Browsers, ValidSession(b), NEW prev \in Names, Exists(prev),
           NEW pw \in (PwHashes \ spent) \cup {None}, NEW adm \in BOOLEAN,
           NEW prof \in Profiles
    PROVE  LET u == UpdatedUser(b, prev, pw, adm, prof)
           IN  /\ u \in User
               /\ u.pw = (IF pw = None THEN users[prev].pw ELSE pw)
               /\ u.epoch = users[prev].epoch
               /\ u.disabled = users[prev].disabled
               /\ prev = Me(b) => u.admin = users[prev].admin
<1> DEFINE old == users[prev]
           x == IF prev = Me(b) THEN old.admin ELSE cookie[b].admin /\ adm
           p == IF pw = None THEN old.pw ELSE pw
<1>1. old \in User
  BY DEF IInv, TypeOK, Exists
<1>2. x \in BOOLEAN
  BY <1>1, ValidSessionFacts DEF User, Cookie
<1>3. p \in PwHashes
  BY <1>1 DEF User
<1>4. UpdatedUser(b, prev, pw, adm, prof)
        = [old EXCEPT !.pw = p, !.admin = x, !.profile = prof]
  BY DEF UpdatedUser
<1>5. prev = Me(b) => x = old.admin
  OBVIOUS
<1> HIDE DEF old, x, p
<1>6. /\ [old EXCEPT !.pw = p, !.admin = x, !.profile = prof] \in User
      /\ [old EXCEPT !.pw = p, !.admin = x, !.profile = prof].pw = p
      /\ [old EXCEPT !.pw = p, !.admin = x, !.profile = prof].epoch = old.epoch
      /\ [old EXCEPT !.pw = p, !.admin = x, !.profile = prof].disabled = old.disabled
      /\ [old EXCEPT !.pw = p, !.admin = x, !.profile = prof].admin = x
  BY <1>1, <1>2, <1>3 DEF User
<1>7. QED BY <1>4, <1>5, <1>6 DEF old, p

(* UpdateUser, with and without a rename or a new password.              *)
LEMMA UpdateUserStep ==
    ASSUME IInv, NEW b \in Browsers, NEW prev \in Names, NEW n \in Names,
           NEW pw \in (PwHashes \ spent) \cup {None}, NEW adm \in BOOLEAN,
           NEW prof \in Profiles, UpdateUser(b, prev, n, pw, adm, prof)
    PROVE  IInv'
<1> DEFINE u == UpdatedUser(b, prev, pw, adm, prof)
<1>1. /\ ValidSession(b) /\ Exists(prev) /\ users[prev] \in User
      /\ n # prev => ~Exists(n)
  BY DEF UpdateUser, MayActFor, IInv, TypeOK, Exists
<1>2. /\ u \in User /\ u # None
      /\ u.pw = (IF pw = None THEN users[prev].pw ELSE pw)
      /\ u.epoch = users[prev].epoch /\ u.epoch \in Nat
      /\ u.disabled = users[prev].disabled
  BY <1>1, UpdatedUserFacts, NoneIsNoValue DEF User
<1>3. /\ users' = [users EXCEPT ![prev] = None, ![n] = u]
      /\ crc' = [crc EXCEPT ![prev] = None, ![n] = Digest(n, u)]
      /\ spent' = (IF pw = None THEN spent ELSE spent \cup {pw})
      /\ IF prev # Me(b) THEN UNCHANGED cookie
         ELSE IF pw # None THEN ClearSession(b) ELSE SetUser(b, n, u)
      /\ IF pw # None THEN Revoke(prev) ELSE UNCHANGED revoked
      /\ UNCHANGED passkeysOn
  BY DEF UpdateUser
<1> HIDE DEF u
<1>4. /\ Digest(n, u) \in Hash
      /\ CookieFor(n, u) \in Cookie /\ CookieFor(n, u) # None
      /\ CookieFor(n, u).username = n /\ CookieFor(n, u).hash.user = u
  BY <1>2, DigestType, NoneIsNoValue DEF CookieFor, Digest
<1>5. /\ users'[n] = u /\ crc'[n] = Digest(n, u)
      /\ n # prev => users'[prev] = None /\ crc'[prev] = None
      /\ \A m \in Names \ {n, prev} : users'[m] = users[m] /\ crc'[m] = crc[m]
  BY <1>3 DEF IInv, TypeOK
<1>6. \A m \in Names : Exists(m)' => m = n \/ (m # prev /\ Exists(m) /\ users'[m] = users[m])
  BY <1>5 DEF Exists
<1>7. ASSUME NEW c \in Browsers
      PROVE  \/ cookie'[c] = cookie[c]
             \/ cookie'[c] = None
             \/ c = b /\ prev = Me(b) /\ pw = None /\ cookie'[c] = CookieFor(n, u)
  BY <1>3 DEF IInv, TypeOK, SetUser, ClearSession, Receives
<1>8. TypeOK'
  <2>1. users' \in [Names -> User \cup {None}]
    BY <1>2, <1>3 DEF IInv, TypeOK
  <2>2. crc' \in [Names -> Hash \cup {None}]
    BY <1>3, <1>4 DEF IInv, TypeOK
  <2>3. cookie' \in [Browsers -> Cookie \cup {None}]
    BY <1>3, <1>4 DEF IInv, TypeOK, SetUser, ClearSession, Receives
  <2>4. spent' \subseteq PwHashes \cup Creds /\ revoked' \subseteq Browsers
    BY <1>3 DEF IInv, TypeOK, Revoke, SessionsOf
  <2>5. QED BY <2>1, <2>2, <2>3, <2>4, <1>3 DEF IInv, TypeOK
<1>9. CacheMatchesStore'
  <2>1. SUFFICES ASSUME NEW m \in Names
                 PROVE  crc'[m] = IF Exists(m)' THEN Digest(m, users'[m]) ELSE None
    BY DEF CacheMatchesStore, Digest
  <2>2. CASE m = n
    BY <2>2, <1>2, <1>5 DEF Exists
  <2>3. CASE m # n /\ m = prev
    BY <2>3, <1>5 DEF Exists
  <2>4. CASE m \notin {n, prev}
    BY <2>4, <1>5 DEF IInv, CacheMatchesStore, Exists
  <2>5. QED BY <2>2, <2>3, <2>4
<1>10. CookiesFromRecords'
  <2>1. SUFFICES ASSUME NEW c \in Browsers, cookie'[c] # None
                 PROVE  /\ cookie'[c] = CookieFor(cookie'[c].username, cookie'[c].hash.user)
                        /\ ~cookie'[c].hash.user.disabled
    BY DEF CookiesFromRecords, CookieFor, Digest
  <2>2. CASE cookie'[c] = cookie[c]
    BY <2>1, <2>2 DEF IInv, CookiesFromRecords
  <2>3. CASE prev = Me(b) /\ cookie'[c] = CookieFor(n, u)
    <3>1. ~u.disabled
      BY <2>3, <1>1, <1>2, ValidSessionFacts
    <3>2. QED BY <2>3, <3>1, <1>4
  <2>4. QED BY <2>1, <2>2, <2>3, <1>7
<1>11. HashesInUse'
  <2>1. u.pw \in spent'
    BY <1>1, <1>2, <1>3 DEF IInv, HashesInUse
  <2>2. ASSUME NEW m \in Names, Exists(m)'
        PROVE  users'[m].pw \in spent'
    <3>1. CASE m = n
      BY <3>1, <2>1, <1>5
    <3>2. CASE m # n
      <4>1. Exists(m) /\ users'[m] = users[m]
        BY <2>2, <3>2, <1>6
      <4>2. users[m].pw \in spent
        BY <4>1 DEF IInv, HashesInUse
      <4>3. QED BY <4>1, <4>2, <1>3
    <3>3. QED BY <3>1, <3>2
  <2>3. ASSUME NEW c \in Browsers, cookie'[c] # None
        PROVE  cookie'[c].hash.user.pw \in spent'
    <3>1. CASE cookie'[c] = cookie[c]
      <4>1. cookie[c].hash.user.pw \in spent
        BY <2>3, <3>1 DEF IInv, HashesInUse
      <4>2. QED BY <3>1, <4>1, <1>3
    <3>2. CASE cookie'[c] = CookieFor(n, u)
      BY <3>2, <2>1, <1>4
    <3>3. QED BY <2>3, <3>1, <3>2, <1>7
  <2>4. ASSUME NEW m \in Names, m # n, Exists(m)'
        PROVE  users'[m].pw # u.pw
    <3>1. m # prev /\ Exists(m) /\ users'[m] = users[m]
      BY <2>4, <1>6
    <3>2. users[m].pw # users[prev].pw /\ users[m].pw \in spent
      BY <3>1, <1>1 DEF IInv, HashesInUse
    <3>3. QED BY <3>1, <3>2, <1>2
  <2>5. ASSUME NEW m \in Names, NEW k \in Names,
               Exists(m)', Exists(k)', users'[m].pw = users'[k].pw
        PROVE  m = k
    <3>1. CASE m = n \/ k = n
      BY <2>4, <2>5, <3>1, <1>5
    <3>2. CASE m # n /\ k # n
      BY <2>5, <3>2, <1>6 DEF IInv, HashesInUse
    <3>3. QED BY <3>1, <3>2
  <2>6. QED BY <2>2, <2>3, <2>5 DEF HashesInUse
<1>12. EpochsBehind'
  <2>1. SUFFICES ASSUME NEW c \in Browsers, NEW m \in Names, cookie'[c] # None,
                        Exists(m)', users'[m].pw = cookie'[c].hash.user.pw
                 PROVE  /\ cookie'[c].hash.user.epoch <= users'[m].epoch
                        /\ c \in revoked' => cookie'[c].hash.user.epoch < users'[m].epoch
    BY DEF EpochsBehind
  <2>2. CASE cookie'[c] = cookie[c] /\ m # n
    <3>1. m # prev /\ Exists(m) /\ users'[m] = users[m]
      BY <2>1, <2>2, <1>6
    <3>2. c \notin SessionsOf(prev)
      BY <2>1, <2>2, <3>1, <1>1 DEF IInv, HashesInUse, SessionsOf
    <3>3. c \in revoked' => c \in revoked
      BY <3>2, <1>3 DEF Revoke
    <3>4. QED BY <2>1, <2>2, <3>1, <3>3 DEF IInv, EpochsBehind
  <2>3. CASE cookie'[c] = cookie[c] /\ m = n
    <3>1. u.pw \in spent
      BY <2>1, <2>3, <1>5 DEF IInv, HashesInUse
    <3>2. pw = None
      BY <3>1, <1>2
    <3>3. users[prev].pw = cookie[c].hash.user.pw
      BY <2>1, <2>3, <3>2, <1>2, <1>5
    <3>4. QED BY <2>1, <2>3, <3>2, <3>3, <1>1, <1>2, <1>3, <1>5 DEF IInv, EpochsBehind
  <2>4. CASE c = b /\ prev = Me(b) /\ pw = None /\ cookie'[c] = CookieFor(n, u)
    <3>1. m = n
      <4>1. Exists(n)' /\ users'[m].pw = users'[n].pw
        BY <2>1, <2>4, <1>2, <1>4, <1>5 DEF Exists
      <4>2. QED BY <4>1, <2>1, <1>11 DEF HashesInUse
    <3>2. c \notin revoked'
      BY <2>4, <1>1, <1>3, ValidSessionFacts
    <3>3. QED BY <2>4, <3>1, <3>2, <1>2, <1>4, <1>5
  <2>5. QED BY <2>1, <2>2, <2>3, <2>4, <1>7
<1>13. QED BY <1>8, <1>9, <1>10, <1>11, <1>12 DEF IInv

-----------------------------------------------------------------------------
(* Turning passkeys off edits every record that has one, at once.        *)
LEMMA SettingsStep ==
    ASSUME IInv, NEW b \in Browsers, NEW on \in BOOLEAN, GlobalSettingSubmit(b, on)
    PROVE  IInv'
<1> DEFINE had == {m \in Names : Exists(m) /\ HasPasskeys(users[m])}
           cleared(m) == [users[m] EXCEPT !.passkeys = NoPasskeys]
<1>1. CASE UNCHANGED <<users, crc, cookie>>
  <2>1. passkeysOn' \in BOOLEAN /\ UNCHANGED <<spent, revoked>>
    BY DEF GlobalSettingSubmit
  <2>2. TypeOK' /\ CacheMatchesStore' /\ CookiesFromRecords'
    BY <1>1, <2>1 DEF IInv, TypeOK, CacheMatchesStore, CookiesFromRecords, Exists,
                      Digest, CookieFor
  <2>3. HashesInUse' /\ EpochsBehind'
    BY <1>1, <2>1 DEF IInv, HashesInUse, EpochsBehind, Exists
  <2>4. QED BY <2>2, <2>3 DEF IInv
<1>2. CASE ClearStoredPasskeysForAllUsers /\ SetUser(b, Me(b), users'[Me(b)])
  <2>1. /\ users' = [m \in Names |-> IF m \in had THEN cleared(m) ELSE users[m]]
        /\ crc' = [m \in Names |-> IF m \in had THEN Digest(m, cleared(m)) ELSE crc[m]]
    BY <1>2 DEF ClearStoredPasskeysForAllUsers
  <2>2. UNCHANGED <<spent, revoked>> /\ passkeysOn' \in BOOLEAN
    BY DEF GlobalSettingSubmit
  <2>3. ASSUME NEW m \in Names, Exists(m)
        PROVE  /\ users[m] \in User /\ users'[m] \in User /\ users'[m] # None
               /\ users'[m].pw = users[m].pw
               /\ users'[m].epoch = users[m].epoch /\ users'[m].epoch \in Nat
               /\ users'[m].disabled = users[m].disabled
    <3>1. users[m] \in User
      BY <2>3 DEF IInv, TypeOK, Exists
    <3>2. /\ cleared(m) \in User
          /\ cleared(m).pw = users[m].pw
          /\ cleared(m).epoch = users[m].epoch
          /\ cleared(m).disabled = users[m].disabled
      BY <3>1, NoPasskeysType DEF User
    <3>3. users'[m] = cleared(m) \/ users'[m] = users[m]
      BY <2>1
    <3>4. QED BY <3>1, <3>2, <3>3, NoneIsNoValue DEF User
  <2>4. \A m \in Names : ~Exists(m) => ~Exists(m)' /\ crc'[m] = crc[m]
    BY <2>1 DEF Exists
  <2>5. \A m \in Names : Exists(m)' <=> Exists(m)
    BY <2>3, <2>4 DEF Exists
  <2> HIDE DEF had, cleared
  <2> DEFINE n == Me(b)
             v == users'[n]
  <2>6. /\ ValidSession(b) /\ n \in Names /\ Exists(n)
        /\ users[n] \in User /\ ~users[n].disabled /\ b \notin revoked
        /\ v \in User /\ v.pw = users[n].pw /\ ~v.disabled /\ v.epoch \in Nat
    BY <2>3, ValidSessionFacts DEF GlobalSettingSubmit, NeedsAdmin
  <2>7. /\ CookieFor(n, v) \in Cookie
        /\ CookieFor(n, v).username = n /\ CookieFor(n, v).hash.user = v
    BY <2>6, DigestType DEF CookieFor, Digest
  <2>8. /\ cookie' \in {cookie, [cookie EXCEPT ![b] = CookieFor(n, v)]}
        /\ \A c \in Browsers : \/ cookie'[c] = cookie[c]
                               \/ c = b /\ cookie'[c] = CookieFor(n, v)
    BY <1>2 DEF SetUser, Receives, IInv, TypeOK
  <2> HIDE DEF v
  <2>9. CacheMatchesStore'
    <3>1. SUFFICES ASSUME NEW m \in Names
                   PROVE  crc'[m] = IF Exists(m)' THEN Digest(m, users'[m]) ELSE None
      BY DEF CacheMatchesStore, Digest
    <3>2. CASE ~Exists(m)
      BY <3>2, <2>4 DEF IInv, CacheMatchesStore
    <3>3. CASE Exists(m)
      <4>1. crc[m] = Digest(m, users[m])
        BY <3>3 DEF IInv, CacheMatchesStore
      <4>2. crc'[m] = Digest(m, users'[m])
        BY <2>1, <4>1
      <4>3. QED BY <3>3, <4>2, <2>5
    <3>4. QED BY <3>2, <3>3
  <2>10. TypeOK'
    <3>1. users' \in [Names -> User \cup {None}]
      BY <2>1, <2>3, <2>4 DEF Exists
    <3>2. ASSUME NEW m \in Names
          PROVE  crc'[m] \in Hash \cup {None}
      <4>1. CASE Exists(m)
        BY <4>1, <2>3, <2>5, <2>9, DigestType DEF CacheMatchesStore, Digest
      <4>2. CASE ~Exists(m)
        BY <4>2, <2>4 DEF IInv, TypeOK
      <4>3. QED BY <4>1, <4>2
    <3>3. crc' \in [Names -> Hash \cup {None}]
      BY <2>1, <3>2
    <3>4. cookie' \in [Browsers -> Cookie \cup {None}]
      BY <2>7, <2>8 DEF IInv, TypeOK
    <3>5. QED BY <3>1, <3>3, <3>4, <2>2 DEF IInv, TypeOK
  <2>11. CookiesFromRecords'
    <3>1. SUFFICES ASSUME NEW c \in Browsers, cookie'[c] # None
                   PROVE  /\ cookie'[c] = CookieFor(cookie'[c].username, cookie'[c].hash.user)
                          /\ ~cookie'[c].hash.user.disabled
      BY DEF CookiesFromRecords, CookieFor, Digest
    <3>2. CASE cookie'[c] = CookieFor(n, v)
      BY <3>2, <2>6, <2>7
    <3>3. CASE cookie'[c] = cookie[c]
      BY <3>1, <3>3 DEF IInv, CookiesFromRecords
    <3>4. QED BY <3>2, <3>3, <2>8
  <2>12. HashesInUse'
    <3>1. \A m \in Names : Exists(m)' => users'[m].pw = users[m].pw /\ users[m].pw \in spent
      BY <2>3, <2>5 DEF IInv, HashesInUse
    <3>2. ASSUME NEW c \in Browsers, cookie'[c] # None
          PROVE  cookie'[c].hash.user.pw \in spent
      <4>1. CASE cookie'[c] = CookieFor(n, v)
        BY <4>1, <2>6, <2>7 DEF IInv, HashesInUse
      <4>2. CASE cookie'[c] = cookie[c]
        BY <3>2, <4>2 DEF IInv, HashesInUse
      <4>3. QED BY <4>1, <4>2, <2>8
    <3>3. \A m, k \in Names :
              Exists(m)' /\ Exists(k)' /\ users'[m].pw = users'[k].pw => m = k
      BY <3>1, <2>5 DEF IInv, HashesInUse
    <3>4. QED BY <3>1, <3>2, <3>3, <2>2 DEF HashesInUse
  <2>13. EpochsBehind'
    <3>1. SUFFICES ASSUME NEW c \in Browsers, NEW m \in Names, cookie'[c] # None,
                          Exists(m)', users'[m].pw = cookie'[c].hash.user.pw
                   PROVE  /\ cookie'[c].hash.user.epoch <= users'[m].epoch
                          /\ c \in revoked => cookie'[c].hash.user.epoch < users'[m].epoch
      BY <2>2 DEF EpochsBehind
    <3>2. Exists(m) /\ users'[m].pw = users[m].pw /\ users'[m].epoch = users[m].epoch
      BY <3>1, <2>3, <2>5
    <3>3. CASE cookie'[c] = cookie[c]
      BY <3>1, <3>2, <3>3 DEF IInv, EpochsBehind
    <3>4. CASE c = b /\ cookie'[c] = CookieFor(n, v)
      <4>1. cookie'[c].hash.user = v
        BY <3>4, <2>7
      <4>2. users[m].pw = users[n].pw
        BY <4>1, <3>1, <3>2, <2>6
      <4>3. m = n
        BY <4>2, <3>2, <2>6 DEF IInv, HashesInUse
      <4>4. QED BY <4>1, <4>3, <3>4, <2>6 DEF v
    <3>5. QED BY <3>3, <3>4, <2>8
  <2>14. QED BY <2>9, <2>10, <2>11, <2>12, <2>13 DEF IInv
<1>3. QED BY <1>1, <1>2 DEF GlobalSettingSubmit

-----------------------------------------------------------------------------
(* The handlers that edit one record, each an instance of SaveStep.      *)
LEMMA EditStep ==
    ASSUME IInv, NEW b \in Browsers, NEW n \in Names,
           \/ \E adm \in BOOLEAN : SetUserAdmin(b, n, adm)
           \/ \E disabled \in BOOLEAN : SetUserDisabled(b, n, disabled)
           \/ RevokeUserSessions(b, n)
           \/ \E k \in Creds, l \in Labels : PasskeyFinishRegister(b, n, k, l)
           \/ \E k \in Creds : PasskeyRemove(b, n, k)
           \/ \E k \in Creds, l \in Labels : PasskeyRename(b, n, k, l)
    PROVE  IInv'
<1>1. Exists(n) /\ ValidSession(b)
  BY DEF SetUserAdmin, SetUserDisabled, RevokeUserSessions, PasskeyFinishRegister,
         PasskeyRemove, PasskeyRename, NeedsAdmin, MayActFor
<1>2. users[n] \in User /\ users[n].epoch \in Nat
  BY <1>1 DEF IInv, TypeOK, Exists, User
<1>3. n = Me(b) => ~users[n].disabled
  BY <1>1, ValidSessionFacts
<1>4. spent \subseteq PwHashes \cup Creds
  BY DEF IInv, TypeOK
<1>5. ASSUME NEW adm \in BOOLEAN, SetUserAdmin(b, n, adm)
      PROVE  IInv'
  <2> DEFINE v == [users[n] EXCEPT !.admin = adm]
  <2>1. Evolves(users[n], v) /\ v.disabled = users[n].disabled
    BY <1>2, Updates DEF User
  <2>2. /\ SaveUser(n, v) /\ RefreshIfSelf(b, n, v)
        /\ UNCHANGED <<passkeysOn, spent, revoked>>
    BY <1>5 DEF SetUserAdmin
  <2> HIDE DEF v
  <2>3. CookieAfterSave(b, n, v)
    BY <1>3, <2>1, <2>2 DEF CookieAfterSave, RefreshIfSelf
  <2>4. QED BY <1>1, <1>4, <2>1, <2>2, <2>3, SaveStep
<1>6. ASSUME NEW disabled \in BOOLEAN, SetUserDisabled(b, n, disabled)
      PROVE  IInv'
  <2>1. UNCHANGED <<passkeysOn, spent, revoked>>
    BY <1>6 DEF SetUserDisabled
  <2>2. CASE EnableUser(b, n)
    <3> DEFINE v == [users[n] EXCEPT !.disabled = FALSE]
    <3>1. Evolves(users[n], v) /\ ~v.disabled
      BY <1>2, Updates DEF User
    <3>2. SaveUser(n, v) /\ RefreshIfSelf(b, n, v)
      BY <2>2 DEF EnableUser
    <3> HIDE DEF v
    <3>3. CookieAfterSave(b, n, v)
      BY <3>1, <3>2 DEF CookieAfterSave, RefreshIfSelf
    <3>4. QED BY <1>1, <1>4, <2>1, <3>1, <3>2, <3>3, SaveStep
  <2>3. CASE DisableUser(b, n)
    <3> DEFINE v == [users[n] EXCEPT !.disabled = TRUE]
    <3>1. Evolves(users[n], v)
      BY <1>2, Updates
    <3>2. SaveUser(n, v) /\ ClearIfSelf(b, n)
      BY <2>3 DEF DisableUser
    <3> HIDE DEF v
    <3>3. CookieAfterSave(b, n, v)
      BY <3>2 DEF CookieAfterSave, ClearIfSelf
    <3>4. QED BY <1>1, <1>4, <2>1, <3>1, <3>2, <3>3, SaveStep
  <2>4. QED BY <1>6, <2>2, <2>3 DEF SetUserDisabled
<1>7. ASSUME NEW v, Evolves(users[n], v), v.epoch > users[n].epoch,
             SaveUser(n, v), ClearIfSelf(b, n), Revoke(n),
             UNCHANGED <<passkeysOn, spent>>
      PROVE  IInv'
  <2>1. CookieAfterSave(b, n, v)
    BY <1>7 DEF CookieAfterSave, ClearIfSelf
  <2>2. cookie'[b] = cookie[b] \/ cookie'[b] = None
    BY <1>7 DEF ClearIfSelf, ClearSession, Receives, IInv, TypeOK
  <2>3. QED BY <1>1, <1>4, <1>7, <2>1, <2>2, SaveStep
<1>8. CASE RevokeUserSessions(b, n)
  <2> DEFINE v == [users[n] EXCEPT !.epoch = @ + 1]
  <2>1. v.epoch = users[n].epoch + 1
    BY <1>2 DEF User
  <2>2. Evolves(users[n], v) /\ v.epoch > users[n].epoch
    <3>1. Evolves(users[n], v)
      BY <1>2, Updates
    <3>2. v.epoch > users[n].epoch
      <4> HIDE DEF v
      <4>1. QED BY <1>2, <2>1
    <3>3. QED BY <3>1, <3>2
  <2>3. /\ SaveUser(n, v) /\ ClearIfSelf(b, n) /\ Revoke(n)
        /\ UNCHANGED <<passkeysOn, spent>>
    BY <1>8 DEF RevokeUserSessions
  <2> HIDE DEF v
  <2>4. QED BY <2>2, <2>3, <1>7
<1>9. ASSUME NEW k \in Creds, PasskeyRemove(b, n, k)
      PROVE  IInv'
  <2> DEFINE v == [users[n] EXCEPT !.passkeys[k] = None, !.epoch = @ + 1]
  <2>1. v.epoch = users[n].epoch + 1
    BY <1>2 DEF User
  <2>2. Evolves(users[n], v) /\ v.epoch > users[n].epoch
    <3>1. Evolves(users[n], v)
      BY <1>2, Updates
    <3>2. v.epoch > users[n].epoch
      <4> HIDE DEF v
      <4>1. QED BY <1>2, <2>1
    <3>3. QED BY <3>1, <3>2
  <2>3. /\ SaveUser(n, v) /\ ClearIfSelf(b, n) /\ Revoke(n)
        /\ UNCHANGED <<passkeysOn, spent>>
    BY <1>9 DEF PasskeyRemove
  <2> HIDE DEF v
  <2>4. QED BY <2>2, <2>3, <1>7
<1>10. ASSUME NEW k \in Creds, NEW l \in Labels,
              PasskeyFinishRegister(b, n, k, l) \/ PasskeyRename(b, n, k, l)
       PROVE  IInv'
  <2> DEFINE v == [users[n] EXCEPT !.passkeys[k] = l]
  <2>1. Evolves(users[n], v) /\ v.disabled = users[n].disabled
    BY <1>2, Updates DEF User
  <2>2. /\ SaveUser(n, v) /\ RefreshIfSelf(b, n, v)
        /\ UNCHANGED <<passkeysOn, revoked>>
        /\ spent \subseteq spent' /\ spent' \subseteq PwHashes \cup Creds
    BY <1>4, <1>10 DEF PasskeyFinishRegister, PasskeyRename
  <2> HIDE DEF v
  <2>3. CookieAfterSave(b, n, v)
    BY <1>3, <2>1, <2>2 DEF CookieAfterSave, RefreshIfSelf
  <2>4. QED BY <1>1, <2>1, <2>2, <2>3, SaveStep
<1>11. QED BY <1>5, <1>6, <1>8, <1>9, <1>10

-----------------------------------------------------------------------------
(* The inductive invariant holds at first start ...                      *)
LEMMA InitStep == Init => IInv
<1>1. SUFFICES ASSUME Init PROVE IInv
  OBVIOUS
<1>2. PICK n \in Names, pw \in PwHashes, prof \in Profiles :
        /\ users = [m \in Names |-> IF m # n THEN None ELSE
                      [pw |-> pw, admin |-> TRUE, disabled |-> FALSE, epoch |-> 0,
                       profile |-> prof, passkeys |-> NoPasskeys]]
        /\ spent = {pw}
  BY <1>1 DEF Init
<1> DEFINE u == [pw |-> pw, admin |-> TRUE, disabled |-> FALSE, epoch |-> 0,
                 profile |-> prof, passkeys |-> NoPasskeys]
<1>3. u \in User /\ u.pw = pw
  <2>1. NoPasskeys \in [Creds -> Labels \cup {None}]
    BY NoPasskeysType
  <2>2. QED BY <2>1 DEF User
<1> HIDE DEF u
<1>4. users = [m \in Names |-> IF m # n THEN None ELSE u] /\ spent = {pw}
  BY <1>2 DEF u
<1>5. \A m \in Names : Exists(m) => m = n /\ users[m] = u
  BY <1>4 DEF Exists
<1>6. /\ crc = [m \in Names |-> IF Exists(m) THEN Digest(m, users[m]) ELSE None]
      /\ cookie = [b \in Browsers |-> None]
      /\ passkeysOn = FALSE /\ revoked = {}
  BY <1>1 DEF Init
<1>7. TypeOK
  <2>1. users \in [Names -> User \cup {None}]
    BY <1>3, <1>4
  <2>2. \A m \in Names : Exists(m) => Digest(m, users[m]) \in Hash
    BY <1>3, <1>5, DigestType
  <2>3. crc \in [Names -> Hash \cup {None}]
    BY <1>6, <2>2
  <2>4. QED BY <1>4, <1>6, <2>1, <2>3 DEF TypeOK
<1>8. CacheMatchesStore
  BY <1>6 DEF CacheMatchesStore
<1>9. CookiesFromRecords /\ EpochsBehind
  BY <1>6 DEF CookiesFromRecords, EpochsBehind
<1>10. HashesInUse
  BY <1>3, <1>4, <1>5, <1>6 DEF HashesInUse
<1>11. QED BY <1>7, <1>8, <1>9, <1>10 DEF IInv

(* ... and every step preserves it.                                      *)
LEMMA NextStep == IInv /\ [Next]_vars => IInv'
<1>1. SUFFICES ASSUME IInv, [Next]_vars PROVE IInv'
  OBVIOUS
<1>2. CASE UNCHANGED vars
  BY <1>1, <1>2, DropStep DEF vars, IInv, TypeOK
<1>3. ASSUME NEW b \in Browsers, Logout(b) \/ Expire(b) PROVE IInv'
  BY <1>1, <1>3, LogoutKeeps
<1>4. ASSUME NEW b \in Browsers, NEW on \in BOOLEAN, GlobalSettingSubmit(b, on)
      PROVE  IInv'
  BY <1>1, <1>4, SettingsStep
<1>5. ASSUME NEW b \in Browsers, NEW n \in Names, Login(b, n) \/ PasskeyFinishLogin(b, n)
      PROVE  IInv'
  BY <1>1, <1>5, LoginKeeps DEF Login, PasskeyFinishLogin
<1>6. ASSUME NEW b \in Browsers, NEW n \in Names, RemoveUser(b, n)
      PROVE  IInv'
  BY <1>1, <1>6, RemoveStep
<1>7. ASSUME NEW b \in Browsers, NEW n \in Names,
             \/ \E adm \in BOOLEAN : SetUserAdmin(b, n, adm)
             \/ \E disabled \in BOOLEAN : SetUserDisabled(b, n, disabled)
             \/ RevokeUserSessions(b, n)
             \/ \E k \in Creds, l \in Labels : PasskeyFinishRegister(b, n, k, l)
             \/ \E k \in Creds : PasskeyRemove(b, n, k)
             \/ \E k \in Creds, l \in Labels : PasskeyRename(b, n, k, l)
      PROVE  IInv'
  BY <1>1, <1>7, EditStep
<1>8. ASSUME NEW b \in Browsers, NEW n \in Names, NEW pw \in PwHashes \ spent,
             NEW adm \in BOOLEAN, NEW prof \in Profiles, CreateUser(b, n, pw, adm, prof)
      PROVE  IInv'
  BY <1>1, <1>8, CreateStep
<1>9. ASSUME NEW b \in Browsers, NEW n \in Names, NEW prev \in Names,
             NEW pw \in (PwHashes \ spent) \cup {None}, NEW adm \in BOOLEAN,
             NEW prof \in Profiles, UpdateUser(b, prev, n, pw, adm, prof)
      PROVE  IInv'
  BY <1>1, <1>9, UpdateUserStep
<1>10. ASSUME NEW secretFixed \in BOOLEAN, Restart(secretFixed) PROVE IInv'
  BY <1>1, <1>10, RestartKeeps
<1>11. CASE Next
  <2>1. CASE \E secretFixed \in BOOLEAN : Restart(secretFixed)
    BY <2>1, <1>10
  <2>2. ASSUME NEW b \in Browsers, NEW n \in Names,
               \/ Login(b, n)
               \/ PasskeyFinishLogin(b, n)
               \/ RemoveUser(b, n)
               \/ RevokeUserSessions(b, n)
               \/ \E adm \in BOOLEAN : SetUserAdmin(b, n, adm)
               \/ \E disabled \in BOOLEAN : SetUserDisabled(b, n, disabled)
               \/ \E pw \in PwHashes \ spent, adm \in BOOLEAN, prof \in Profiles :
                     CreateUser(b, n, pw, adm, prof)
               \/ \E prev \in Names, pw \in (PwHashes \ spent) \cup {None},
                     adm \in BOOLEAN, prof \in Profiles :
                     UpdateUser(b, prev, n, pw, adm, prof)
               \/ \E k \in Creds \ spent, l \in Labels : PasskeyFinishRegister(b, n, k, l)
               \/ \E k \in Creds : PasskeyRemove(b, n, k)
               \/ \E k \in Creds, l \in Labels : PasskeyRename(b, n, k, l)
        PROVE  IInv'
    BY <2>2, <1>5, <1>6, <1>7, <1>8, <1>9
  <2>3. QED BY <1>11, <2>1, <2>2, <1>3, <1>4 DEF Next
<1>12. QED BY <1>1, <1>2, <1>11

(* What every reachable state satisfies: the cache holds the checksum of *)
(* each stored record, cookies come from records, password hashes are    *)
(* never shared, and a revoked cookie is behind its account for good.    *)
THEOREM Inductive == Spec => []IInv
<1>1. QED BY InitStep, NextStep, PTL DEF Spec

(* Every variable keeps the shape of the Go value it stands for.         *)
THEOREM TypeCorrect == Spec => []TypeOK
<1>1. IInv => TypeOK
  BY DEF IInv
<1>2. QED BY <1>1, Inductive, PTL

(* A session the server accepts (isValidSession) speaks for an existing, *)
(* unsuspended account with the role the cookie states.                  *)
THEOREM SessionsSound == Spec => []SessionMatchesAccount
<1>1. IInv => SessionMatchesAccount
  <2>1. SUFFICES ASSUME IInv, NEW b \in Browsers, ValidSession(b)
                 PROVE  /\ Exists(Me(b))
                        /\ ~users[Me(b)].disabled
                        /\ cookie[b].admin = users[Me(b)].admin
                        /\ cookie[b].hash = Digest(Me(b), users[Me(b)])
    BY DEF SessionMatchesAccount
  <2>2. CookieFor(Me(b), users[Me(b)]).admin = users[Me(b)].admin
    BY DEF CookieFor
  <2>3. CookieFor(Me(b), users[Me(b)]).hash = Digest(Me(b), users[Me(b)])
    BY DEF CookieFor
  <2>4. QED BY <2>1, <2>2, <2>3, ValidSessionFacts
<1>2. QED BY <1>1, Inductive, PTL

(* Sessions that were ended stay ended, whatever handlers run afterwards.*)
THEOREM RevocationIsFinal == Spec => []RevokedStaysOut
<1>1. IInv => RevokedStaysOut
  <2>1. SUFFICES ASSUME IInv, NEW b \in revoked, ValidSession(b) PROVE FALSE
    BY DEF RevokedStaysOut
  <2>2. b \in Browsers
    BY <2>1 DEF IInv, TypeOK
  <2>3. QED BY <2>1, <2>2, ValidSessionFacts
<1>2. QED BY <1>1, Inductive, PTL

(* Changing a record signs out every session of the account whose cookie *)
(* the same request did not rewrite.                                     *)
THEOREM ChangesSignOut == Spec => ChangeSignsOutOthers
<1> DEFINE Step == \A b \in Browsers :
                     /\ ValidSession(b)
                     /\ cookie'[b] = cookie[b]
                     /\ users'[Me(b)] # users[Me(b)]
                     => ~ValidSession(b)'
<1>1. IInv /\ [Next]_vars => [Step]_vars
  <2>1. SUFFICES ASSUME IInv, [Next]_vars, NEW b \in Browsers, ValidSession(b),
                        cookie'[b] = cookie[b], users'[Me(b)] # users[Me(b)],
                        ValidSession(b)'
                 PROVE  FALSE
    OBVIOUS
  <2>2. IInv'
    BY <2>1, NextStep
  <2>3. /\ Me(b) \in Names /\ cookie[b].hash.user = users[Me(b)]
        /\ cookie[b] \in Cookie
    BY <2>1, ValidSessionFacts
  <2>4. cookie[b].hash # None
    BY <2>3, NoneIsNoValue DEF Cookie
  <2>5. crc'[Me(b)] = cookie[b].hash
    BY <2>1 DEF ValidSession, Me
  <2>6. crc'[Me(b)] = Digest(Me(b), users'[Me(b)])
    BY <2>2, <2>3, <2>4, <2>5 DEF IInv, CacheMatchesStore, Digest
  <2>7. Digest(Me(b), users'[Me(b)]).user = users'[Me(b)]
    BY DEF Digest
  <2>8. QED BY <2>1, <2>3, <2>5, <2>6, <2>7
<1>2. QED BY <1>1, Inductive, PTL DEF Spec, ChangeSignsOutOthers

-----------------------------------------------------------------------------
(* Saving a record leaves an active administrator when the record is one,*)
(* when there is another, or when it was none before.                    *)
LEMMA AdminAfterSave ==
    ASSUME IInv, ActiveAdminRemains, NEW n \in Names, NEW v \in User,
           users' = [users EXCEPT ![n] = v],
           \/ v.admin /\ ~v.disabled
           \/ ActiveAdmins \ {n} # {}
           \/ n \notin ActiveAdmins
    PROVE  ActiveAdminRemains'
<1>1. v # None
  BY NoneIsNoValue
<1>2. users'[n] = v /\ \A m \in Names \ {n} : users'[m] = users[m]
  BY DEF IInv, TypeOK
<1>3. CASE v.admin /\ ~v.disabled
  <2>1. n \in ActiveAdmins'
    BY <1>1, <1>2, <1>3 DEF ActiveAdmins, Exists
  <2>2. QED BY <2>1 DEF ActiveAdminRemains
<1>4. CASE \E m \in ActiveAdmins : m # n
  <2>1. PICK m \in ActiveAdmins : m # n
    BY <1>4
  <2>2. m \in ActiveAdmins'
    BY <2>1, <1>2 DEF ActiveAdmins, Exists
  <2>3. QED BY <2>2 DEF ActiveAdminRemains
<1>5. QED BY <1>3, <1>4 DEF ActiveAdminRemains

(* The caller of a handler behind NeedsAdmin is an active administrator. *)
LEMMA CallerIsActive ==
    ASSUME IInv, NEW b \in Browsers, ValidSession(b), cookie[b].admin
    PROVE  Me(b) \in ActiveAdmins
<1>1. cookie[b] = CookieFor(Me(b), users[Me(b)])
  BY ValidSessionFacts
<1>2. CookieFor(Me(b), users[Me(b)]).admin = users[Me(b)].admin
  BY DEF CookieFor
<1>3. QED BY <1>1, <1>2, ValidSessionFacts DEF ActiveAdmins

(* Handlers that save one edited record leave an active administrator.   *)
LEMMA AdminEditStep ==
    ASSUME IInv, ActiveAdminRemains, NEW b \in Browsers, NEW n \in Names,
           \/ \E adm \in BOOLEAN : SetUserAdmin(b, n, adm)
           \/ \E disabled \in BOOLEAN : SetUserDisabled(b, n, disabled)
           \/ RevokeUserSessions(b, n)
           \/ \E k \in Creds, l \in Labels : PasskeyFinishRegister(b, n, k, l)
           \/ \E k \in Creds : PasskeyRemove(b, n, k)
           \/ \E k \in Creds, l \in Labels : PasskeyRename(b, n, k, l)
    PROVE  ActiveAdminRemains'
<1>1. Exists(n)
  BY DEF SetUserAdmin, SetUserDisabled, RevokeUserSessions, PasskeyFinishRegister,
         PasskeyRemove, PasskeyRename
<1>2. users[n] \in User
  BY <1>1 DEF IInv, TypeOK, Exists
<1>3. n \in ActiveAdmins <=> users[n].admin /\ ~users[n].disabled
  BY <1>1 DEF ActiveAdmins
<1>4. ASSUME NEW v \in User, SaveUser(n, v),
             v.admin = users[n].admin, v.disabled = users[n].disabled
      PROVE  ActiveAdminRemains'
  <2>1. CASE n \in ActiveAdmins
    BY <2>1, <1>3, <1>4, AdminAfterSave DEF SaveUser
  <2>2. CASE n \notin ActiveAdmins
    BY <2>2, <1>4, AdminAfterSave DEF SaveUser
  <2>3. QED BY <2>1, <2>2
<1>5. ASSUME NEW adm \in BOOLEAN, SetUserAdmin(b, n, adm)
      PROVE  ActiveAdminRemains'
  <2> DEFINE v == [users[n] EXCEPT !.admin = adm]
  <2>1. v \in User /\ v.admin = adm /\ v.disabled = users[n].disabled
    BY <1>2 DEF User
  <2>2. SaveUser(n, v) /\ ValidSession(b) /\ cookie[b].admin /\ (~adm => n # Me(b))
    BY <1>5 DEF SetUserAdmin, NeedsAdmin
  <2> HIDE DEF v
  <2>3. Me(b) \in ActiveAdmins
    BY <2>2, CallerIsActive
  <2>4. CASE ~adm
    BY <2>1, <2>2, <2>3, <2>4, AdminAfterSave DEF SaveUser
  <2>5. CASE adm /\ n = Me(b)
    BY <2>1, <2>2, <2>3, <2>5, <1>3, AdminAfterSave DEF SaveUser
  <2>6. CASE adm /\ n # Me(b)
    BY <2>1, <2>2, <2>3, <2>6, AdminAfterSave DEF SaveUser
  <2>7. QED BY <2>4, <2>5, <2>6
<1>6. CASE EnableUser(b, n)
  <2> DEFINE v == [users[n] EXCEPT !.disabled = FALSE]
  <2>1. v \in User /\ v.admin = users[n].admin /\ ~v.disabled
    BY <1>2 DEF User
  <2>2. SaveUser(n, v)
    BY <1>6 DEF EnableUser
  <2> HIDE DEF v
  <2>3. CASE users[n].admin
    BY <2>1, <2>2, <2>3, AdminAfterSave DEF SaveUser
  <2>4. CASE ~users[n].admin
    BY <2>1, <2>2, <2>4, <1>3, AdminAfterSave DEF SaveUser
  <2>5. QED BY <2>3, <2>4
<1>7. CASE DisableUser(b, n)
  <2> DEFINE v == [users[n] EXCEPT !.disabled = TRUE]
  <2>1. v \in User
    BY <1>2 DEF User
  <2>2. SaveUser(n, v) /\ EnsureLeavingActiveAdminWhenDisabling(n)
    BY <1>7 DEF DisableUser
  <2>3. n \in ActiveAdmins => ActiveAdmins \ {n} # {}
    BY <2>2, <1>3 DEF EnsureLeavingActiveAdminWhenDisabling
  <2> HIDE DEF v
  <2>4. QED BY <2>1, <2>2, <2>3, AdminAfterSave DEF SaveUser
<1>8. CASE RevokeUserSessions(b, n)
  <2> DEFINE v == [users[n] EXCEPT !.epoch = @ + 1]
  <2>1. v \in User /\ v.admin = users[n].admin /\ v.disabled = users[n].disabled
    BY <1>2, Updates DEF User, Evolves
  <2>2. SaveUser(n, v)
    BY <1>8 DEF RevokeUserSessions
  <2> HIDE DEF v
  <2>3. QED BY <2>1, <2>2, <1>4
<1>9. ASSUME NEW k \in Creds, PasskeyRemove(b, n, k)
      PROVE  ActiveAdminRemains'
  <2> DEFINE v == [users[n] EXCEPT !.passkeys[k] = None, !.epoch = @ + 1]
  <2>1. v \in User
    BY <1>2, Updates DEF Evolves
  <2>2. v.admin = users[n].admin /\ v.disabled = users[n].disabled
    BY <1>2 DEF User
  <2>3. SaveUser(n, v)
    BY <1>9 DEF PasskeyRemove
  <2> HIDE DEF v
  <2>4. QED BY <2>1, <2>2, <2>3, <1>4
<1>10. ASSUME NEW k \in Creds, NEW l \in Labels,
              PasskeyFinishRegister(b, n, k, l) \/ PasskeyRename(b, n, k, l)
       PROVE  ActiveAdminRemains'
  <2> DEFINE v == [users[n] EXCEPT !.passkeys[k] = l]
  <2>1. v \in User
    BY <1>2, Updates DEF Evolves
  <2>2. v.admin = users[n].admin /\ v.disabled = users[n].disabled
    BY <1>2 DEF User
  <2>3. SaveUser(n, v)
    BY <1>10 DEF PasskeyFinishRegister, PasskeyRename
  <2> HIDE DEF v
  <2>4. QED BY <2>1, <2>2, <2>3, <1>4
<1>11. QED BY <1>5, <1>6, <1>7, <1>8, <1>9, <1>10 DEF SetUserDisabled

(* UpdateUser leaves an active administrator.                            *)
LEMMA AdminUpdateStep ==
    ASSUME IInv, ActiveAdminRemains, NEW b \in Browsers, NEW prev \in Names,
           NEW n \in Names, NEW pw \in (PwHashes \ spent) \cup {None},
           NEW adm \in BOOLEAN, NEW prof \in Profiles,
           UpdateUser(b, prev, n, pw, adm, prof)
    PROVE  ActiveAdminRemains'
<1> DEFINE u == UpdatedUser(b, prev, pw, adm, prof)
<1>1. /\ ValidSession(b) /\ (cookie[b].admin \/ prev = Me(b))
      /\ Exists(prev) /\ (n # prev => ~Exists(n))
      /\ users' = [users EXCEPT ![prev] = None, ![n] = u]
  BY DEF UpdateUser, MayActFor
<1>2. /\ u \in User /\ u # None /\ u.disabled = users[prev].disabled
      /\ prev = Me(b) => u.admin = users[prev].admin
  BY <1>1, UpdatedUserFacts, NoneIsNoValue
<1> HIDE DEF u
<1>3. users'[n] = u /\ \A m \in Names \ {n, prev} : users'[m] = users[m]
  BY <1>1 DEF IInv, TypeOK
<1>4. \A m \in ActiveAdmins : m # prev => m \in ActiveAdmins'
  <2>1. \A m \in ActiveAdmins : m # prev => m # n
    BY <1>1 DEF ActiveAdmins
  <2>2. QED BY <2>1, <1>3 DEF ActiveAdmins, Exists
<1>5. CASE \E m \in ActiveAdmins : m # prev
  BY <1>4, <1>5 DEF ActiveAdminRemains
<1>6. CASE \A m \in ActiveAdmins : m = prev
  <2>1. prev \in ActiveAdmins
    BY <1>6 DEF ActiveAdminRemains
  <2>2. prev = Me(b)
    BY <1>1, <1>6, CallerIsActive
  <2>3. u.admin /\ ~u.disabled
    BY <1>2, <2>1, <2>2 DEF ActiveAdmins
  <2>4. n \in ActiveAdmins'
    BY <1>2, <1>3, <2>3 DEF ActiveAdmins, Exists
  <2>5. QED BY <2>4 DEF ActiveAdminRemains
<1>7. QED BY <1>5, <1>6

(* So does every step; NoLockout rests on it.                            *)
LEMMA AdminNextStep == IInv /\ ActiveAdminRemains /\ [Next]_vars => ActiveAdminRemains'
<1>1. SUFFICES ASSUME IInv, ActiveAdminRemains, [Next]_vars PROVE ActiveAdminRemains'
  OBVIOUS
<1>2. CASE UNCHANGED users
  BY <1>1, <1>2 DEF ActiveAdminRemains, ActiveAdmins, Exists
<1>3. ASSUME NEW b \in Browsers, NEW on \in BOOLEAN, GlobalSettingSubmit(b, on)
      PROVE  ActiveAdminRemains'
  <2>1. PICK a \in ActiveAdmins : TRUE
    BY <1>1 DEF ActiveAdminRemains
  <2>2. CASE ClearStoredPasskeysForAllUsers
    <3>1. users[a] \in User
      BY <1>1, <2>1 DEF ActiveAdmins, Exists, IInv, TypeOK
    <3>2. LET v == [users[a] EXCEPT !.passkeys = NoPasskeys]
          IN  v \in User /\ v.admin = users[a].admin /\ v.disabled = users[a].disabled
      BY <3>1, NoPasskeysType DEF User
    <3>3. \/ users'[a] = users[a]
          \/ users'[a] = [users[a] EXCEPT !.passkeys = NoPasskeys]
      BY <2>1, <2>2 DEF ClearStoredPasskeysForAllUsers, ActiveAdmins
    <3>4. a \in ActiveAdmins'
      BY <2>1, <3>1, <3>2, <3>3, NoneIsNoValue DEF ActiveAdmins, Exists
    <3>5. QED BY <3>4 DEF ActiveAdminRemains
  <2>3. QED BY <1>2, <1>3, <2>2 DEF GlobalSettingSubmit
<1>4. ASSUME NEW b \in Browsers, NEW n \in Names, RemoveUser(b, n)
      PROVE  ActiveAdminRemains'
  <2>1. PICK a \in ActiveAdmins : TRUE
    BY <1>1 DEF ActiveAdminRemains
  <2>2. users'[a] = users[a]
    BY <1>1, <1>4, <2>1 DEF RemoveUser, ActiveAdmins, IInv, TypeOK
  <2>3. a \in ActiveAdmins'
    BY <2>1, <2>2 DEF ActiveAdmins, Exists
  <2>4. QED BY <2>3 DEF ActiveAdminRemains
<1>5. ASSUME NEW b \in Browsers, NEW n \in Names, NEW pw \in PwHashes \ spent,
             NEW adm \in BOOLEAN, NEW prof \in Profiles, CreateUser(b, n, pw, adm, prof)
      PROVE  ActiveAdminRemains'
  <2>1. PICK a \in ActiveAdmins : TRUE
    BY <1>1 DEF ActiveAdminRemains
  <2>2. users'[a] = users[a]
    BY <1>1, <1>5, <2>1 DEF CreateUser, SaveUser, ActiveAdmins, IInv, TypeOK
  <2>3. a \in ActiveAdmins'
    BY <2>1, <2>2 DEF ActiveAdmins, Exists
  <2>4. QED BY <2>3 DEF ActiveAdminRemains
<1>6. ASSUME NEW b \in Browsers, NEW n \in Names, NEW prev \in Names,
             NEW pw \in (PwHashes \ spent) \cup {None}, NEW adm \in BOOLEAN,
             NEW prof \in Profiles, UpdateUser(b, prev, n, pw, adm, prof)
      PROVE  ActiveAdminRemains'
  BY <1>1, <1>6, AdminUpdateStep
<1>7. ASSUME NEW b \in Browsers, NEW n \in Names,
             \/ \E adm \in BOOLEAN : SetUserAdmin(b, n, adm)
             \/ \E disabled \in BOOLEAN : SetUserDisabled(b, n, disabled)
             \/ RevokeUserSessions(b, n)
             \/ \E k \in Creds, l \in Labels : PasskeyFinishRegister(b, n, k, l)
             \/ \E k \in Creds : PasskeyRemove(b, n, k)
             \/ \E k \in Creds, l \in Labels : PasskeyRename(b, n, k, l)
      PROVE  ActiveAdminRemains'
  BY <1>1, <1>7, AdminEditStep
<1>8. ASSUME NEW b \in Browsers, NEW n \in Names,
             \/ Logout(b) \/ Expire(b) \/ Login(b, n) \/ PasskeyFinishLogin(b, n)
      PROVE  ActiveAdminRemains'
  BY <1>2, <1>8 DEF Logout, Expire, Login, PasskeyFinishLogin, SetLoginSession
<1>9. ASSUME NEW secretFixed \in BOOLEAN, Restart(secretFixed)
      PROVE  ActiveAdminRemains'
  BY <1>2, <1>9 DEF Restart
<1>10. ASSUME NEW b \in Browsers, Logout(b) \/ Expire(b)
       PROVE  ActiveAdminRemains'
  BY <1>2, <1>10 DEF Logout, Expire
<1>11. CASE Next
  BY <1>11, <1>3, <1>4, <1>5, <1>6, <1>7, <1>8, <1>9, <1>10 DEF Next
<1>12. QED BY <1>1, <1>2, <1>11 DEF vars

(* However the administrators demote, suspend, rename and remove each    *)
(* other, one who can log in and administer is left.  The proof rests on *)
(* the caller: a valid administrator session belongs to an active        *)
(* administrator, and no handler lets the caller demote himself.         *)
THEOREM NoLockout == Spec => []ActiveAdminRemains
<1>1. Init => ActiveAdminRemains
  <2>1. SUFFICES ASSUME Init PROVE ActiveAdminRemains
    OBVIOUS
  <2>2. PICK n \in Names, pw \in PwHashes, prof \in Profiles :
          users = [m \in Names |-> IF m # n THEN None ELSE
                     [pw |-> pw, admin |-> TRUE, disabled |-> FALSE, epoch |-> 0,
                      profile |-> prof, passkeys |-> NoPasskeys]]
    BY <2>1 DEF Init
  <2>3. users[n].admin /\ ~users[n].disabled
    BY <2>2
  <2>4. users[n] \in User
    BY <2>2, NoPasskeysType DEF User
  <2>5. n \in ActiveAdmins
    BY <2>3, <2>4, NoneIsNoValue DEF ActiveAdmins, Exists
  <2>6. QED BY <2>5 DEF ActiveAdminRemains
<1>2. QED BY <1>1, InitStep, NextStep, AdminNextStep, PTL DEF Spec

-----------------------------------------------------------------------------
(* Types.                                                                  *)

(* What a job has ready for its next step.                                 *)
Ready(r) ==
    /\ r.pc \in {"demote", "disable", "settings"} => r.about \in Names
    /\ r.pc \in {"drop", "delete"} => r.del \in Names
    /\ r.pc = "cache" => r.target \in Names /\ r.saves[r.target] \in User
    /\ r.reply = "reread" => r.about \in Names
    /\ r.reply \in {"login", "refresh"} =>
          IF r.pc = "reply" THEN r.target \in Names /\ r.rec \in User
                            ELSE r.saves # Nothing

Typed == StepsTypeOK /\ \A j \in InFlight : Ready(job[j])

LEMMA SavingFacts ==
    ASSUME NEW n \in Names, NEW u \in User \cup {None}
    PROVE  /\ Saving(n, u) \in [Names -> User \cup {None}]
           /\ Saving(n, u)[n] = u
           /\ \A m \in Names : m # n => Saving(n, u)[m] = None
           /\ Saving(n, u) = Nothing <=> u = None
           /\ [Saving(n, u) EXCEPT ![n] = None] = Nothing
<1>1. Saving(n, u) = [m \in Names |-> IF m = n THEN u ELSE None]
  BY DEF Saving, Nothing
<1>2. Saving(n, u) = Nothing => u = None
  BY <1>1 DEF Nothing
<1>3. u = None => Saving(n, u) = Nothing
  BY <1>1 DEF Nothing
<1>4. [Saving(n, u) EXCEPT ![n] = None] = Nothing
  BY <1>1 DEF Nothing
<1> QED
  BY <1>1, <1>2, <1>3, <1>4

LEMMA NoneIsNoJob == None \notin Job /\ None \notin Names
BY StepsAssumption

LEMMA NewJobType ==
    ASSUME StepsTypeOK, NEW b \in Browsers
    PROVE  /\ NewJob(b) \in Job
           /\ NewJob(b) = [b |-> b, pc |-> "write", about |-> None, target |-> None, del |-> None,
                           saves |-> Nothing, rec |-> None, reply |-> "keep", ends |-> None,
                           spends |-> {}, on |-> FALSE, begun |-> FALSE, base |-> NewJob(b).base]
           /\ NewJob(b).base = [users |-> users, crc |-> crc, on |-> passkeysOn]
<1>1. PICK s : s = [users |-> users, crc |-> crc, on |-> passkeysOn]
  OBVIOUS
<1>2. s \in [users: [Names -> User \cup {None}], crc: [Names -> Hash \cup {None}], on: BOOLEAN]
  BY <1>1 DEF StepsTypeOK, TypeOK
<1>3. Nothing \in [Names -> User \cup {None}]
  BY DEF Nothing
<1> HIDE DEF Nothing
<1>4. NewJob(b) = [b |-> b, pc |-> "write", about |-> None, target |-> None, del |-> None,
                   saves |-> Nothing, rec |-> None, reply |-> "keep", ends |-> None,
                   spends |-> {}, on |-> FALSE, begun |-> FALSE, base |-> s]
  BY <1>1 DEF NewJob
<1> QED
  BY <1>1, <1>2, <1>3, <1>4 DEF Job

(* The fields of a job that has just begun.                                *)
Fields(r, b, pc, about, del, saves, target, reply, ends, spends, on) ==
    /\ r.b = b /\ r.pc = pc /\ r.about = about /\ r.del = del /\ r.saves = saves
    /\ r.target = target /\ r.reply = reply /\ r.ends = ends /\ r.spends = spends
    /\ r.on = on /\ r.rec = None /\ r.begun = FALSE
    /\ r.base = [users |-> users, crc |-> crc, on |-> passkeysOn]

Places == {"demote", "disable", "settings", "drop", "delete", "write", "cache", "reply"}

Replies == {"login", "refresh", "clear", "keep", "reread"}

(* A handler begins with what its next step needs.                         *)
Opening(r) ==
    /\ Ready(r)
    /\ r.pc # "delete"
    /\ r.pc = "cache" => users[r.target] = r.saves[r.target]

LEMMA SavingIsReady ==
    ASSUME NEW n \in Names, NEW u \in User
    PROVE  Saving(n, u) # Nothing /\ Saving(n, u)[n] = u
BY SavingFacts, NoneIsNoValue

(* A valid session names an account.                                       *)
LEMMA ExistsMe ==
    ASSUME TypeOK, NEW b \in Browsers, ValidSession(b)
    PROVE  cookie[b] \in Cookie /\ Me(b) \in Names
BY DEF TypeOK, ValidSession, Cookie, Me

(* How each handler asks.                                                  *)
AskedLogin(r, b, n) ==
    /\ Exists(n) /\ ~users[n].disabled
    /\ users[n] \in User
    /\ Fields(r, b, "cache", None, None,
              Saving(n, users[n]), n, "login",
              None, {}, FALSE)

LEMMA AskLogin ==
    ASSUME StepsTypeOK, NEW j \in Jobs, NEW b \in Browsers, NEW n \in Names,
           BeginLogin(j, b, n)
    PROVE  \E r \in Job : Begin(j, r) /\ Opening(r) /\ r.b = b /\ AskedLogin(r, b, n)
<1>1. PICK q : q = NewJob(b)
  OBVIOUS
<1>2. q \in Job /\ Fields(q, b, "write", None, None, Nothing, None, "keep", None, {}, FALSE)
  BY <1>1, NewJobType DEF Fields
<1>3. PICK u : u = users[n]
  OBVIOUS
<1>4. u \in User
  BY <1>3 DEF BeginLogin, Exists, StepsTypeOK, TypeOK
<1>5. PICK pc : pc = "cache"
  OBVIOUS
<1>6. pc \in Places
  BY <1>5 DEF Places
<1>7. PICK t : t = n
  OBVIOUS
<1>8. t \in Names \cup {None}
  BY <1>7
<1>9. PICK s : s = Saving(n, users[n])
  OBVIOUS
<1>10. s \in [Names -> User \cup {None}]
  BY <1>3, <1>4, <1>9, SavingFacts
<1>11. PICK p : p = "login"
  OBVIOUS
<1>12. p \in Replies
  BY <1>11 DEF Replies, IfSelf
<1>13. PICK r : r = [q EXCEPT !.pc = pc, !.target = t, !.saves = s, !.reply = p]
  OBVIOUS
<1>14. r \in Job
  BY <1>2, <1>6, <1>8, <1>10, <1>12, <1>13 DEF Job, Places, Replies
<1>15. Fields(r, b, pc, None, None, s, t, p, None, {}, FALSE)
  BY ONLY <1>2, <1>13 DEF Job, Fields
<1>16. Opening(r)
  BY <1>15, <1>5, <1>7, <1>9, <1>11, SavingIsReady, <1>3, <1>4 DEF Opening, Ready, Fields, IfSelf
<1>17. Begin(j, r)
  BY <1>1, <1>5, <1>7, <1>9, <1>11, <1>13 DEF BeginLogin
<1> QED
  BY <1>3, <1>4, <1>5, <1>7, <1>9, <1>11, <1>16, <1>14, <1>15, <1>17
     DEF Fields, BeginLogin, AskedLogin

AskedCreateUser(r, b, n, pw, adm, prof) ==
    /\ NeedsAdmin(b) /\ ~Exists(n)
    /\ [pw |-> pw, admin |-> adm, disabled |-> FALSE, epoch |-> 0,
                      profile |-> prof, passkeys |-> NoPasskeys] \in User
    /\ Fields(r, b, "write", None, None,
              Saving(n, [pw |-> pw, admin |-> adm, disabled |-> FALSE, epoch |-> 0,
                      profile |-> prof, passkeys |-> NoPasskeys]), None, "keep",
              None, {pw}, FALSE)

LEMMA AskCreateUser ==
    ASSUME StepsTypeOK, NEW j \in Jobs, NEW b \in Browsers, NEW n \in Names, NEW pw \in PwHashes,
           NEW adm \in BOOLEAN, NEW prof \in Profiles,
           BeginCreateUser(j, b, n, pw, adm, prof)
    PROVE  \E r \in Job :
             Begin(j, r) /\ Opening(r) /\ r.b = b /\ AskedCreateUser(r, b, n, pw, adm, prof)
<1>1. PICK q : q = NewJob(b)
  OBVIOUS
<1>2. q \in Job /\ Fields(q, b, "write", None, None, Nothing, None, "keep", None, {}, FALSE)
  BY <1>1, NewJobType DEF Fields
<1>3. PICK u : u = [pw |-> pw, admin |-> adm, disabled |-> FALSE, epoch |-> 0,
                      profile |-> prof, passkeys |-> NoPasskeys]
  OBVIOUS
<1>4. u \in User
  BY <1>3, NoPasskeysType DEF User
<1>5. PICK h : h = {pw}
  OBVIOUS
<1>6. h \in SUBSET (PwHashes \cup Creds)
  BY <1>5
<1>7. PICK s : s = Saving(n, [pw |-> pw, admin |-> adm, disabled |-> FALSE, epoch |-> 0,
                      profile |-> prof, passkeys |-> NoPasskeys])
  OBVIOUS
<1>8. s \in [Names -> User \cup {None}]
  BY <1>3, <1>4, <1>7, SavingFacts
<1>9. PICK r : r = [q EXCEPT !.spends = h, !.saves = s]
  OBVIOUS
<1>10. r \in Job
  BY <1>2, <1>6, <1>8, <1>9 DEF Job, Places, Replies
<1>11. Fields(r, b, "write", None, None, s, None, "keep", None, h, FALSE)
  BY ONLY <1>2, <1>9 DEF Job, Fields
<1>12. Opening(r)
  BY <1>11, <1>5, <1>7, SavingIsReady, <1>3, <1>4 DEF Opening, Ready, Fields, IfSelf
<1>13. Begin(j, r)
  BY <1>1, <1>5, <1>7, <1>9 DEF BeginCreateUser
<1> QED
  BY <1>3, <1>4, <1>5, <1>7, <1>12, <1>10, <1>11, <1>13 DEF Fields, BeginCreateUser, AskedCreateUser

AskedUpdateUser(r, b, prev, n, pw, adm, prof) ==
    /\ MayActFor(b, prev) /\ Exists(prev) /\ (n # prev => ~Exists(n))
    /\ UpdatedUser(b, prev, pw, adm, prof) \in User
    /\ Fields(r, b, IF users[prev].admin /\ ~UpdatedUser(b, prev, pw, adm, prof).admin
                THEN "demote" ELSE "drop", prev, prev,
              Saving(n, UpdatedUser(b, prev, pw, adm, prof)), None,
              IfSelf(b, prev, IF pw = None THEN "refresh" ELSE "clear"),
              IF pw = None THEN None ELSE prev, {pw} \ {None}, FALSE)

LEMMA AskUpdateUser ==
    ASSUME StepsTypeOK, NEW j \in Jobs, NEW b \in Browsers, NEW prev \in Names, NEW n \in Names,
           NEW pw \in PwHashes \cup {None}, NEW adm \in BOOLEAN, NEW prof \in Profiles,
           BeginUpdateUser(j, b, prev, n, pw, adm, prof)
    PROVE  \E r \in Job :
             Begin(j, r) /\ Opening(r) /\ r.b = b /\ AskedUpdateUser(r, b, prev, n, pw, adm, prof)
<1>1. PICK q : q = NewJob(b)
  OBVIOUS
<1>2. q \in Job /\ Fields(q, b, "write", None, None, Nothing, None, "keep", None, {}, FALSE)
  BY <1>1, NewJobType DEF Fields
<1>3. PICK u : u = UpdatedUser(b, prev, pw, adm, prof)
  OBVIOUS
<1>4. u \in User
  <2>1. users[prev] \in User
    BY DEF BeginUpdateUser, Exists, StepsTypeOK, TypeOK
  <2>2. cookie[b] \in Cookie
    BY DEF BeginUpdateUser, MayActFor, ValidSession, StepsTypeOK, TypeOK
  <2> QED
    BY <1>3, <2>1, <2>2 DEF UpdatedUser, User, Cookie
<1>5. PICK pc : pc = IF users[prev].admin /\ ~UpdatedUser(b, prev, pw, adm, prof).admin
                THEN "demote" ELSE "drop"
  OBVIOUS
<1>6. pc \in Places
  BY <1>5 DEF Places
<1>7. PICK a : a = prev
  OBVIOUS
<1>8. a \in Names \cup {None}
  BY <1>7
<1>9. PICK d : d = prev
  OBVIOUS
<1>10. d \in Names \cup {None}
  BY <1>9
<1>11. PICK s : s = Saving(n, UpdatedUser(b, prev, pw, adm, prof))
  OBVIOUS
<1>12. s \in [Names -> User \cup {None}]
  BY <1>3, <1>4, <1>11, SavingFacts
<1>13. PICK p : p = IfSelf(b, prev, IF pw = None THEN "refresh" ELSE "clear")
  OBVIOUS
<1>14. p \in Replies
  BY <1>13 DEF Replies, IfSelf
<1>15. PICK e : e = IF pw = None THEN None ELSE prev
  OBVIOUS
<1>16. e \in Names \cup {None}
  BY <1>15
<1>17. PICK h : h = {pw} \ {None}
  OBVIOUS
<1>18. h \in SUBSET (PwHashes \cup Creds)
  BY <1>17
<1>19. PICK r : r = [q EXCEPT !.pc = pc, !.about = a, !.del = d, !.saves = s, !.reply = p,
          !.ends = e, !.spends = h]
  OBVIOUS
<1>20. r \in Job
  BY <1>2, <1>6, <1>8, <1>10, <1>12, <1>14, <1>16, <1>18, <1>19 DEF Job, Places, Replies
<1>21. Fields(r, b, pc, a, d, s, None, p, e, h, FALSE)
  BY ONLY <1>2, <1>19 DEF Job, Fields
<1>22. Opening(r)
  BY <1>21, <1>5, <1>7, <1>9, <1>11, <1>13, <1>15, <1>17, SavingIsReady, <1>3, <1>4
     DEF Opening, Ready, Fields, IfSelf
<1>23. Begin(j, r)
  BY <1>1, <1>5, <1>7, <1>9, <1>11, <1>13, <1>15, <1>17, <1>19 DEF BeginUpdateUser
<1> QED
  BY <1>3, <1>4, <1>5, <1>7, <1>9, <1>11, <1>13, <1>15, <1>17, <1>22, <1>20, <1>21, <1>23
     DEF Fields, BeginUpdateUser, AskedUpdateUser

AskedRemoveUser(r, b, n) ==
    /\ NeedsAdmin(b) /\ n # Me(b) /\ Exists(n) /\ ~users[n].admin
    /\ Fields(r, b, "drop", None, n,
              Nothing, None, "keep",
              n, {}, FALSE)

LEMMA AskRemoveUser ==
    ASSUME StepsTypeOK, NEW j \in Jobs, NEW b \in Browsers, NEW n \in Names,
           BeginRemoveUser(j, b, n)
    PROVE  \E r \in Job : Begin(j, r) /\ Opening(r) /\ r.b = b /\ AskedRemoveUser(r, b, n)
<1>1. PICK q : q = NewJob(b)
  OBVIOUS
<1>2. q \in Job /\ Fields(q, b, "write", None, None, Nothing, None, "keep", None, {}, FALSE)
  BY <1>1, NewJobType DEF Fields
<1>3. PICK pc : pc = "drop"
  OBVIOUS
<1>4. pc \in Places
  BY <1>3 DEF Places
<1>5. PICK d : d = n
  OBVIOUS
<1>6. d \in Names \cup {None}
  BY <1>5
<1>7. PICK e : e = n
  OBVIOUS
<1>8. e \in Names \cup {None}
  BY <1>7
<1>9. PICK r : r = [q EXCEPT !.pc = pc, !.del = d, !.ends = e]
  OBVIOUS
<1>10. r \in Job
  BY <1>2, <1>4, <1>6, <1>8, <1>9 DEF Job, Places, Replies
<1>11. Fields(r, b, pc, None, d, Nothing, None, "keep", e, {}, FALSE)
  BY ONLY <1>2, <1>9 DEF Job, Fields
<1>12. Opening(r)
  BY <1>11, <1>3, <1>5, <1>7 DEF Opening, Ready, Fields, IfSelf
<1>13. Begin(j, r)
  BY <1>1, <1>3, <1>5, <1>7, <1>9 DEF BeginRemoveUser
<1> QED
  BY <1>3, <1>5, <1>7, <1>12, <1>10, <1>11, <1>13 DEF Fields, BeginRemoveUser, AskedRemoveUser

AskedSetUserAdmin(r, b, n, adm) ==
    /\ NeedsAdmin(b) /\ Exists(n) /\ (~adm => n # Me(b))
    /\ [users[n] EXCEPT !.admin = adm] \in User
    /\ Fields(r, b, IF users[n].admin /\ ~adm THEN "demote" ELSE "write", n, None,
              Saving(n, [users[n] EXCEPT !.admin = adm]), None, IfSelf(b, n, "refresh"),
              None, {}, FALSE)

LEMMA AskSetUserAdmin ==
    ASSUME StepsTypeOK, NEW j \in Jobs, NEW b \in Browsers, NEW n \in Names, NEW adm \in BOOLEAN,
           BeginSetUserAdmin(j, b, n, adm)
    PROVE  \E r \in Job : Begin(j, r) /\ Opening(r) /\ r.b = b /\ AskedSetUserAdmin(r, b, n, adm)
<1>1. PICK q : q = NewJob(b)
  OBVIOUS
<1>2. q \in Job /\ Fields(q, b, "write", None, None, Nothing, None, "keep", None, {}, FALSE)
  BY <1>1, NewJobType DEF Fields
<1>3. PICK u : u = [users[n] EXCEPT !.admin = adm]
  OBVIOUS
<1>4. u \in User
  <2>1. users[n] \in User
    BY DEF BeginSetUserAdmin, Exists, StepsTypeOK, TypeOK
  <2> QED
    BY <1>3, <2>1, Updates DEF Evolves
<1>5. PICK pc : pc = IF users[n].admin /\ ~adm THEN "demote" ELSE "write"
  OBVIOUS
<1>6. pc \in Places
  BY <1>5 DEF Places
<1>7. PICK a : a = n
  OBVIOUS
<1>8. a \in Names \cup {None}
  BY <1>7
<1>9. PICK s : s = Saving(n, [users[n] EXCEPT !.admin = adm])
  OBVIOUS
<1>10. s \in [Names -> User \cup {None}]
  BY <1>3, <1>4, <1>9, SavingFacts
<1>11. PICK p : p = IfSelf(b, n, "refresh")
  OBVIOUS
<1>12. p \in Replies
  BY <1>11 DEF Replies, IfSelf
<1>13. PICK r : r = [q EXCEPT !.pc = pc, !.about = a, !.saves = s, !.reply = p]
  OBVIOUS
<1>14. r \in Job
  BY <1>2, <1>6, <1>8, <1>10, <1>12, <1>13 DEF Job, Places, Replies
<1>15. Fields(r, b, pc, a, None, s, None, p, None, {}, FALSE)
  BY ONLY <1>2, <1>13 DEF Job, Fields
<1>16. Opening(r)
  BY <1>15, <1>5, <1>7, <1>9, <1>11, SavingIsReady, <1>3, <1>4 DEF Opening, Ready, Fields, IfSelf
<1>17. Begin(j, r)
  BY <1>1, <1>5, <1>7, <1>9, <1>11, <1>13 DEF BeginSetUserAdmin
<1> QED
  BY <1>3, <1>4, <1>5, <1>7, <1>9, <1>11, <1>16, <1>14, <1>15, <1>17
     DEF Fields, BeginSetUserAdmin, AskedSetUserAdmin

AskedSetUserDisabled(r, b, n, disabled) ==
    /\ NeedsAdmin(b) /\ Exists(n) /\ (disabled => ~users[n].disabled)
    /\ [users[n] EXCEPT !.disabled = disabled] \in User
    /\ Fields(r, b, IF disabled THEN "disable" ELSE "write", n, None,
              Saving(n, [users[n] EXCEPT !.disabled = disabled]), None,
              IfSelf(b, n, IF disabled THEN "clear" ELSE "refresh"),
              None, {}, FALSE)

LEMMA AskSetUserDisabled ==
    ASSUME StepsTypeOK, NEW j \in Jobs, NEW b \in Browsers, NEW n \in Names,
           NEW disabled \in BOOLEAN,
           BeginSetUserDisabled(j, b, n, disabled)
    PROVE  \E r \in Job :
             Begin(j, r) /\ Opening(r) /\ r.b = b /\ AskedSetUserDisabled(r, b, n, disabled)
<1>1. PICK q : q = NewJob(b)
  OBVIOUS
<1>2. q \in Job /\ Fields(q, b, "write", None, None, Nothing, None, "keep", None, {}, FALSE)
  BY <1>1, NewJobType DEF Fields
<1>3. PICK u : u = [users[n] EXCEPT !.disabled = disabled]
  OBVIOUS
<1>4. u \in User
  <2>1. users[n] \in User
    BY DEF BeginSetUserDisabled, Exists, StepsTypeOK, TypeOK
  <2> QED
    BY <1>3, <2>1, Updates DEF Evolves
<1>5. PICK pc : pc = IF disabled THEN "disable" ELSE "write"
  OBVIOUS
<1>6. pc \in Places
  BY <1>5 DEF Places
<1>7. PICK a : a = n
  OBVIOUS
<1>8. a \in Names \cup {None}
  BY <1>7
<1>9. PICK s : s = Saving(n, [users[n] EXCEPT !.disabled = disabled])
  OBVIOUS
<1>10. s \in [Names -> User \cup {None}]
  BY <1>3, <1>4, <1>9, SavingFacts
<1>11. PICK p : p = IfSelf(b, n, IF disabled THEN "clear" ELSE "refresh")
  OBVIOUS
<1>12. p \in Replies
  BY <1>11 DEF Replies, IfSelf
<1>13. PICK r : r = [q EXCEPT !.pc = pc, !.about = a, !.saves = s, !.reply = p]
  OBVIOUS
<1>14. r \in Job
  BY <1>2, <1>6, <1>8, <1>10, <1>12, <1>13 DEF Job, Places, Replies
<1>15. Fields(r, b, pc, a, None, s, None, p, None, {}, FALSE)
  BY ONLY <1>2, <1>13 DEF Job, Fields
<1>16. Opening(r)
  BY <1>15, <1>5, <1>7, <1>9, <1>11, SavingIsReady, <1>3, <1>4 DEF Opening, Ready, Fields, IfSelf
<1>17. Begin(j, r)
  BY <1>1, <1>5, <1>7, <1>9, <1>11, <1>13 DEF BeginSetUserDisabled
<1> QED
  BY <1>3, <1>4, <1>5, <1>7, <1>9, <1>11, <1>16, <1>14, <1>15, <1>17
     DEF Fields, BeginSetUserDisabled, AskedSetUserDisabled

AskedRevokeUserSessions(r, b, n) ==
    /\ NeedsAdmin(b) /\ Exists(n) /\ ~users[n].disabled /\ users[n].epoch < MaxEpoch
    /\ [users[n] EXCEPT !.epoch = @ + 1] \in User
    /\ Fields(r, b, "write", None, None,
              Saving(n, [users[n] EXCEPT !.epoch = @ + 1]), None, IfSelf(b, n, "clear"),
              n, {}, FALSE)

LEMMA AskRevokeUserSessions ==
    ASSUME StepsTypeOK, NEW j \in Jobs, NEW b \in Browsers, NEW n \in Names,
           BeginRevokeUserSessions(j, b, n)
    PROVE  \E r \in Job : Begin(j, r) /\ Opening(r) /\ r.b = b /\ AskedRevokeUserSessions(r, b, n)
<1>1. PICK q : q = NewJob(b)
  OBVIOUS
<1>2. q \in Job /\ Fields(q, b, "write", None, None, Nothing, None, "keep", None, {}, FALSE)
  BY <1>1, NewJobType DEF Fields
<1>3. PICK u : u = [users[n] EXCEPT !.epoch = @ + 1]
  OBVIOUS
<1>4. u \in User
  <2>1. users[n] \in User
    BY DEF BeginRevokeUserSessions, Exists, StepsTypeOK, TypeOK
  <2> QED
    BY <1>3, <2>1, Updates DEF Evolves
<1>5. PICK s : s = Saving(n, [users[n] EXCEPT !.epoch = @ + 1])
  OBVIOUS
<1>6. s \in [Names -> User \cup {None}]
  BY <1>3, <1>4, <1>5, SavingFacts
<1>7. PICK p : p = IfSelf(b, n, "clear")
  OBVIOUS
<1>8. p \in Replies
  BY <1>7 DEF Replies, IfSelf
<1>9. PICK e : e = n
  OBVIOUS
<1>10. e \in Names \cup {None}
  BY <1>9
<1>11. PICK r : r = [q EXCEPT !.saves = s, !.reply = p, !.ends = e]
  OBVIOUS
<1>12. r \in Job
  BY <1>2, <1>6, <1>8, <1>10, <1>11 DEF Job, Places, Replies
<1>13. Fields(r, b, "write", None, None, s, None, p, e, {}, FALSE)
  BY ONLY <1>2, <1>11 DEF Job, Fields
<1>14. Opening(r)
  BY <1>13, <1>5, <1>7, <1>9, SavingIsReady, <1>3, <1>4 DEF Opening, Ready, Fields, IfSelf
<1>15. Begin(j, r)
  BY <1>1, <1>5, <1>7, <1>9, <1>11 DEF BeginRevokeUserSessions
<1> QED
  BY <1>3, <1>4, <1>5, <1>7, <1>9, <1>14, <1>12, <1>13, <1>15
     DEF Fields, BeginRevokeUserSessions, AskedRevokeUserSessions

AskedPasskeyFinishRegister(r, b, n, k, l) ==
    /\ passkeysOn /\ MayActFor(b, n) /\ Exists(n)
    /\ [users[n] EXCEPT !.passkeys[k] = l] \in User
    /\ Fields(r, b, "write", None, None,
              Saving(n, [users[n] EXCEPT !.passkeys[k] = l]), None, IfSelf(b, n, "refresh"),
              None, {k}, FALSE)

LEMMA AskPasskeyFinishRegister ==
    ASSUME StepsTypeOK, NEW j \in Jobs, NEW b \in Browsers, NEW n \in Names, NEW k \in Creds,
           NEW l \in Labels,
           BeginPasskeyFinishRegister(j, b, n, k, l)
    PROVE  \E r \in Job :
             Begin(j, r) /\ Opening(r) /\ r.b = b /\ AskedPasskeyFinishRegister(r, b, n, k, l)
<1>1. PICK q : q = NewJob(b)
  OBVIOUS
<1>2. q \in Job /\ Fields(q, b, "write", None, None, Nothing, None, "keep", None, {}, FALSE)
  BY <1>1, NewJobType DEF Fields
<1>3. PICK u : u = [users[n] EXCEPT !.passkeys[k] = l]
  OBVIOUS
<1>4. u \in User
  <2>1. users[n] \in User
    BY DEF BeginPasskeyFinishRegister, Exists, StepsTypeOK, TypeOK
  <2> QED
    BY <1>3, <2>1, Updates DEF Evolves
<1>5. PICK s : s = Saving(n, [users[n] EXCEPT !.passkeys[k] = l])
  OBVIOUS
<1>6. s \in [Names -> User \cup {None}]
  BY <1>3, <1>4, <1>5, SavingFacts
<1>7. PICK p : p = IfSelf(b, n, "refresh")
  OBVIOUS
<1>8. p \in Replies
  BY <1>7 DEF Replies, IfSelf
<1>9. PICK h : h = {k}
  OBVIOUS
<1>10. h \in SUBSET (PwHashes \cup Creds)
  BY <1>9
<1>11. PICK r : r = [q EXCEPT !.saves = s, !.reply = p, !.spends = h]
  OBVIOUS
<1>12. r \in Job
  BY <1>2, <1>6, <1>8, <1>10, <1>11 DEF Job, Places, Replies
<1>13. Fields(r, b, "write", None, None, s, None, p, None, h, FALSE)
  BY ONLY <1>2, <1>11 DEF Job, Fields
<1>14. Opening(r)
  BY <1>13, <1>5, <1>7, <1>9, SavingIsReady, <1>3, <1>4 DEF Opening, Ready, Fields, IfSelf
<1>15. Begin(j, r)
  BY <1>1, <1>5, <1>7, <1>9, <1>11 DEF BeginPasskeyFinishRegister
<1> QED
  BY <1>3, <1>4, <1>5, <1>7, <1>9, <1>14, <1>12, <1>13, <1>15
     DEF Fields, BeginPasskeyFinishRegister, AskedPasskeyFinishRegister

AskedPasskeyRemove(r, b, n, k) ==
    /\ passkeysOn /\ MayActFor(b, n) /\ Exists(n) /\ users[n].passkeys[k] # None
           /\ users[n].epoch < MaxEpoch
    /\ [users[n] EXCEPT !.passkeys[k] = None, !.epoch = @ + 1] \in User
    /\ Fields(r, b, "write", None, None,
              Saving(n, [users[n] EXCEPT !.passkeys[k] = None, !.epoch = @ + 1]), None,
              IfSelf(b, n, "clear"),
              n, {}, FALSE)

LEMMA AskPasskeyRemove ==
    ASSUME StepsTypeOK, NEW j \in Jobs, NEW b \in Browsers, NEW n \in Names, NEW k \in Creds,
           BeginPasskeyRemove(j, b, n, k)
    PROVE  \E r \in Job : Begin(j, r) /\ Opening(r) /\ r.b = b /\ AskedPasskeyRemove(r, b, n, k)
<1>1. PICK q : q = NewJob(b)
  OBVIOUS
<1>2. q \in Job /\ Fields(q, b, "write", None, None, Nothing, None, "keep", None, {}, FALSE)
  BY <1>1, NewJobType DEF Fields
<1>3. PICK u : u = [users[n] EXCEPT !.passkeys[k] = None, !.epoch = @ + 1]
  OBVIOUS
<1>4. u \in User
  <2>1. users[n] \in User
    BY DEF BeginPasskeyRemove, Exists, StepsTypeOK, TypeOK
  <2> QED
    BY <1>3, <2>1, Updates DEF Evolves
<1>5. PICK s : s = Saving(n, [users[n] EXCEPT !.passkeys[k] = None, !.epoch = @ + 1])
  OBVIOUS
<1>6. s \in [Names -> User \cup {None}]
  BY <1>3, <1>4, <1>5, SavingFacts
<1>7. PICK p : p = IfSelf(b, n, "clear")
  OBVIOUS
<1>8. p \in Replies
  BY <1>7 DEF Replies, IfSelf
<1>9. PICK e : e = n
  OBVIOUS
<1>10. e \in Names \cup {None}
  BY <1>9
<1>11. PICK r : r = [q EXCEPT !.saves = s, !.reply = p, !.ends = e]
  OBVIOUS
<1>12. r \in Job
  BY <1>2, <1>6, <1>8, <1>10, <1>11 DEF Job, Places, Replies
<1>13. Fields(r, b, "write", None, None, s, None, p, e, {}, FALSE)
  BY ONLY <1>2, <1>11 DEF Job, Fields
<1>14. Opening(r)
  BY <1>13, <1>5, <1>7, <1>9, SavingIsReady, <1>3, <1>4 DEF Opening, Ready, Fields, IfSelf
<1>15. Begin(j, r)
  BY <1>1, <1>5, <1>7, <1>9, <1>11 DEF BeginPasskeyRemove
<1> QED
  BY <1>3, <1>4, <1>5, <1>7, <1>9, <1>14, <1>12, <1>13, <1>15
     DEF Fields, BeginPasskeyRemove, AskedPasskeyRemove

AskedPasskeyRename(r, b, n, k, l) ==
    /\ passkeysOn /\ MayActFor(b, n) /\ Exists(n) /\ users[n].passkeys[k] # None
    /\ [users[n] EXCEPT !.passkeys[k] = l] \in User
    /\ Fields(r, b, "write", None, None,
              Saving(n, [users[n] EXCEPT !.passkeys[k] = l]), None, IfSelf(b, n, "refresh"),
              None, {}, FALSE)

LEMMA AskPasskeyRename ==
    ASSUME StepsTypeOK, NEW j \in Jobs, NEW b \in Browsers, NEW n \in Names, NEW k \in Creds,
           NEW l \in Labels,
           BeginPasskeyRename(j, b, n, k, l)
    PROVE  \E r \in Job : Begin(j, r) /\ Opening(r) /\ r.b = b /\ AskedPasskeyRename(r, b, n, k, l)
<1>1. PICK q : q = NewJob(b)
  OBVIOUS
<1>2. q \in Job /\ Fields(q, b, "write", None, None, Nothing, None, "keep", None, {}, FALSE)
  BY <1>1, NewJobType DEF Fields
<1>3. PICK u : u = [users[n] EXCEPT !.passkeys[k] = l]
  OBVIOUS
<1>4. u \in User
  <2>1. users[n] \in User
    BY DEF BeginPasskeyRename, Exists, StepsTypeOK, TypeOK
  <2> QED
    BY <1>3, <2>1, Updates DEF Evolves
<1>5. PICK s : s = Saving(n, [users[n] EXCEPT !.passkeys[k] = l])
  OBVIOUS
<1>6. s \in [Names -> User \cup {None}]
  BY <1>3, <1>4, <1>5, SavingFacts
<1>7. PICK p : p = IfSelf(b, n, "refresh")
  OBVIOUS
<1>8. p \in Replies
  BY <1>7 DEF Replies, IfSelf
<1>9. PICK r : r = [q EXCEPT !.saves = s, !.reply = p]
  OBVIOUS
<1>10. r \in Job
  BY <1>2, <1>6, <1>8, <1>9 DEF Job, Places, Replies
<1>11. Fields(r, b, "write", None, None, s, None, p, None, {}, FALSE)
  BY ONLY <1>2, <1>9 DEF Job, Fields
<1>12. Opening(r)
  BY <1>11, <1>5, <1>7, SavingIsReady, <1>3, <1>4 DEF Opening, Ready, Fields, IfSelf
<1>13. Begin(j, r)
  BY <1>1, <1>5, <1>7, <1>9 DEF BeginPasskeyRename
<1> QED
  BY <1>3, <1>4, <1>5, <1>7, <1>12, <1>10, <1>11, <1>13
     DEF Fields, BeginPasskeyRename, AskedPasskeyRename

AskedGlobalSettingSubmit(r, b, on) ==
    /\ NeedsAdmin(b)
    /\ Fields(r, b, "settings", Me(b), None,
              Nothing, None, "keep",
              None, {}, on)

LEMMA AskGlobalSettingSubmit ==
    ASSUME StepsTypeOK, NEW j \in Jobs, NEW b \in Browsers, NEW on \in BOOLEAN,
           BeginGlobalSettingSubmit(j, b, on)
    PROVE  \E r \in Job : Begin(j, r) /\ Opening(r) /\ r.b = b /\ AskedGlobalSettingSubmit(r, b, on)
<1>1. PICK q : q = NewJob(b)
  OBVIOUS
<1>2. q \in Job /\ Fields(q, b, "write", None, None, Nothing, None, "keep", None, {}, FALSE)
  BY <1>1, NewJobType DEF Fields
<1>3. PICK pc : pc = "settings"
  OBVIOUS
<1>4. pc \in Places
  BY <1>3 DEF Places
<1>5. PICK a : a = Me(b)
  OBVIOUS
<1>6. a \in Names
  <2>1. ValidSession(b) /\ TypeOK
    BY DEF BeginGlobalSettingSubmit, NeedsAdmin, StepsTypeOK
  <2> QED
    BY <1>5, <2>1, ExistsMe
<1>7. PICK o : o = on
  OBVIOUS
<1>8. o \in BOOLEAN
  BY <1>7
<1>9. PICK r : r = [q EXCEPT !.pc = pc, !.about = a, !.on = o]
  OBVIOUS
<1>10. r \in Job
  BY <1>2, <1>4, <1>6, <1>8, <1>9 DEF Job, Places, Replies
<1>11. Fields(r, b, pc, a, None, Nothing, None, "keep", None, {}, o)
  BY ONLY <1>2, <1>9 DEF Job, Fields
<1>12. Opening(r)
  BY <1>11, <1>3, <1>5, <1>7, <1>6 DEF Opening, Ready, Fields, IfSelf
<1>13. Begin(j, r)
  BY <1>1, <1>3, <1>5, <1>7, <1>9 DEF BeginGlobalSettingSubmit
<1> QED
  BY <1>3, <1>5, <1>7, <1>12, <1>10, <1>11, <1>13
     DEF Fields, BeginGlobalSettingSubmit, AskedGlobalSettingSubmit

LEMMA BeginOpens ==
    ASSUME StepsTypeOK, NEW j \in Jobs, NEW b \in Browsers, BeginAny(j, b)
    PROVE  \E r \in Job : Begin(j, r) /\ Opening(r) /\ r.b = b
<1>1. ASSUME NEW n \in Names, BeginLogin(j, b, n)
      PROVE  \E r \in Job : Begin(j, r) /\ Opening(r) /\ r.b = b
  BY <1>1, AskLogin
<1>2. ASSUME NEW n \in Names, BeginRemoveUser(j, b, n)
      PROVE  \E r \in Job : Begin(j, r) /\ Opening(r) /\ r.b = b
  BY <1>2, AskRemoveUser
<1>3. ASSUME NEW n \in Names, BeginRevokeUserSessions(j, b, n)
      PROVE  \E r \in Job : Begin(j, r) /\ Opening(r) /\ r.b = b
  BY <1>3, AskRevokeUserSessions
<1>4. ASSUME NEW n \in Names, NEW adm \in BOOLEAN, BeginSetUserAdmin(j, b, n, adm)
      PROVE  \E r \in Job : Begin(j, r) /\ Opening(r) /\ r.b = b
  BY <1>4, AskSetUserAdmin
<1>5. ASSUME NEW n \in Names, NEW disabled \in BOOLEAN, BeginSetUserDisabled(j, b, n, disabled)
      PROVE  \E r \in Job : Begin(j, r) /\ Opening(r) /\ r.b = b
  BY <1>5, AskSetUserDisabled
<1>6. ASSUME NEW n \in Names, NEW pw \in PwHashes, NEW adm \in BOOLEAN,
      NEW prof \in Profiles, BeginCreateUser(j, b, n, pw, adm, prof)
      PROVE  \E r \in Job : Begin(j, r) /\ Opening(r) /\ r.b = b
  BY <1>6, AskCreateUser
<1>7. ASSUME NEW prev \in Names, NEW n \in Names, NEW pw \in PwHashes \cup {None},
      NEW adm \in BOOLEAN, NEW prof \in Profiles, BeginUpdateUser(j, b, prev, n, pw, adm, prof)
      PROVE  \E r \in Job : Begin(j, r) /\ Opening(r) /\ r.b = b
  BY <1>7, AskUpdateUser
<1>8. ASSUME NEW n \in Names, NEW k \in Creds, NEW l \in Labels,
             BeginPasskeyFinishRegister(j, b, n, k, l)
      PROVE  \E r \in Job : Begin(j, r) /\ Opening(r) /\ r.b = b
  BY <1>8, AskPasskeyFinishRegister
<1>9. ASSUME NEW n \in Names, NEW k \in Creds, BeginPasskeyRemove(j, b, n, k)
      PROVE  \E r \in Job : Begin(j, r) /\ Opening(r) /\ r.b = b
  BY <1>9, AskPasskeyRemove
<1>10. ASSUME NEW n \in Names, NEW k \in Creds, NEW l \in Labels, BeginPasskeyRename(j, b, n, k, l)
      PROVE  \E r \in Job : Begin(j, r) /\ Opening(r) /\ r.b = b
  BY <1>10, AskPasskeyRename
<1>11. ASSUME NEW on \in BOOLEAN, BeginGlobalSettingSubmit(j, b, on)
      PROVE  \E r \in Job : Begin(j, r) /\ Opening(r) /\ r.b = b
  BY <1>11, AskGlobalSettingSubmit
<1> QED
  BY <1>1, <1>2, <1>3, <1>4, <1>5, <1>6, <1>7, <1>8, <1>9, <1>10, <1>11 DEF BeginAny, Unused

-----------------------------------------------------------------------------
(* Types are kept by every step, for any number of handlers.               *)

JobsTyped == job \in [Jobs -> Job \cup {None}] /\ \A j \in InFlight : Ready(job[j])

LEMMA TypedIs == Typed <=> TypeOK /\ JobsTyped /\ unsaved \subseteq Names
BY DEF Typed, StepsTypeOK, JobsTyped

LEMMA JobAt ==
    ASSUME Typed, NEW j \in Jobs, job[j] # None, NEW r, r = job[j]
    PROVE  r \in Job /\ Ready(r) /\ j \in InFlight
BY DEF Typed, StepsTypeOK, InFlight

LEMMA JobGoesOn ==
    ASSUME Typed, NEW j \in Jobs, NEW r \in Job, Ready(r), job' = [job EXCEPT ![j] = r]
    PROVE  JobsTyped'
<1>1. job' \in [Jobs -> Job \cup {None}]
  BY DEF Typed, StepsTypeOK
<1>2. ASSUME NEW i \in InFlight' PROVE Ready(job'[i])
  <2>1. CASE i = j
    BY <2>1 DEF Typed, StepsTypeOK, InFlight
  <2>2. CASE i # j
    BY <2>2 DEF Typed, StepsTypeOK, InFlight
  <2> QED
    BY <2>1, <2>2
<1> QED
  BY <1>1, <1>2 DEF JobsTyped

LEMMA JobEnds ==
    ASSUME Typed, NEW j \in Jobs, End(j)
    PROVE  JobsTyped'
BY DEF Typed, StepsTypeOK, InFlight, End, JobsTyped

(* How the fields of a job change as it moves on.                          *)
LEMMA GotoFields ==
    ASSUME NEW r \in Job, NEW pc \in Places, NEW v, v = [r EXCEPT !.pc = pc]
    PROVE  /\ v \in Job
           /\ v.pc = pc /\ v.b = r.b /\ v.about = r.about /\ v.del = r.del /\ v.saves = r.saves
           /\ v.target = r.target /\ v.reply = r.reply /\ v.ends = r.ends
           /\ v.spends = r.spends /\ v.on = r.on /\ v.rec = r.rec /\ v.begun = r.begun
           /\ v.base = r.base
BY DEF Job, Places

LEMMA CheckTyped ==
    ASSUME Typed, NEW j \in Jobs, Check(j)
    PROVE  TypeOK' /\ JobsTyped'
<1>1. PICK r : r = job[j]
  OBVIOUS
<1>2. r \in Job /\ Ready(r) /\ r.pc \in {"demote", "disable"}
  BY <1>1, JobAt DEF Check, At
<1>3. PICK pc \in {"drop", "write"} : pc = IF r.del # None THEN "drop" ELSE "write"
  OBVIOUS
<1>4. Goto(j, pc) \/ End(j)
  BY <1>1, <1>3 DEF Check
<1>5. CASE Goto(j, pc)
  <2>1. PICK v : v = [r EXCEPT !.pc = pc]
    OBVIOUS
  <2>2. pc \in Places
    BY DEF Places
  <2>3. v \in Job /\ Ready(v)
    <3>1. r.del \in Names \cup {None}
      BY <1>2 DEF Job
    <3> QED
      BY <1>2, <1>3, <2>1, <2>2, <3>1, GotoFields DEF Ready
  <2>4. job' = [job EXCEPT ![j] = v]
    BY <1>1, <1>5, <2>1 DEF Goto
  <2> QED
    BY <2>3, <2>4, JobGoesOn DEF Check, Typed, StepsTypeOK, TypeOK
<1>6. CASE End(j)
  BY <1>6, JobEnds DEF Check, Typed, StepsTypeOK, TypeOK
<1> QED
  BY <1>4, <1>5, <1>6

(* The records without passkeys that SaveSettings still has to write.      *)
Cleared == [n \in Names |-> IF Exists(n) /\ HasPasskeys(users[n])
                            THEN [users[n] EXCEPT !.passkeys = NoPasskeys]
                            ELSE None]

LEMMA ClearedType ==
    ASSUME TypeOK
    PROVE  Cleared \in [Names -> User \cup {None}]
<1> SUFFICES ASSUME NEW n \in Names, Exists(n)
             PROVE  [users[n] EXCEPT !.passkeys = NoPasskeys] \in User
  BY DEF Cleared
<1> QED
  BY Updates DEF Exists, TypeOK, Evolves

SettingsSaved(r, v) ==
    /\ v.pc \in {"write", "reply"} /\ v.b = r.b /\ v.about = r.about
    /\ v.del = r.del /\ v.ends = r.ends /\ v.spends = r.spends /\ v.on = r.on
    /\ v.begun /\ v.base = r.base
    /\ IF r.base.on /\ ~r.on
       THEN /\ v.reply = "reread" /\ v.saves = Cleared
            /\ v.pc = "write" <=> Cleared # Nothing
       ELSE v.reply = "keep" /\ v.saves = Nothing /\ v.pc = "reply"

LEMMA SaveSettingsStep ==
    ASSUME Typed, NEW j \in Jobs, SaveSettings(j), NEW r, r = job[j]
    PROVE  /\ r \in Job /\ Ready(r) /\ r.pc = "settings"
           /\ \E v \in Job : job' = [job EXCEPT ![j] = v] /\ SettingsSaved(r, v)
<1>1. r \in Job /\ Ready(r) /\ r.pc = "settings"
  BY JobAt DEF SaveSettings, At
<1>2. PICK s : s = IF r.base.on /\ ~r.on THEN Cleared ELSE Nothing
  OBVIOUS
<1>3. PICK p : p = IF r.base.on /\ ~r.on THEN "reread" ELSE "keep"
  OBVIOUS
<1>4. PICK pc : pc = IF r.base.on /\ ~r.on /\ Cleared # Nothing THEN "write" ELSE "reply"
  OBVIOUS
<1>5. s \in [Names -> User \cup {None}]
  BY <1>2, ClearedType DEF Typed, StepsTypeOK, Nothing
<1>6. p \in Replies /\ pc \in Places
  BY <1>3, <1>4 DEF Replies, Places
<1>7. PICK v : v = [r EXCEPT !.begun = TRUE, !.reply = p, !.saves = s, !.pc = pc]
  OBVIOUS
<1>8. job' = [job EXCEPT ![j] = v]
  <2>1. CASE r.base.on /\ ~r.on
    <3>1. s = Cleared /\ p = "reread" /\ pc = IF Cleared # Nothing THEN "write" ELSE "reply"
      BY <1>2, <1>3, <1>4, <2>1
    <3>2. job' = [job EXCEPT ![j].begun = TRUE, ![j].reply = p, ![j].saves = s, ![j].pc = pc]
      BY <2>1, <3>1 DEF SaveSettings, Cleared
    <3> QED
      BY <1>7, <3>2
  <2>2. CASE ~(r.base.on /\ ~r.on)
    <3>1. s = Nothing /\ p = "keep" /\ pc = "reply"
      BY <1>2, <1>3, <1>4, <2>2
    <3>2. job' = [job EXCEPT ![j].begun = TRUE, ![j].reply = p, ![j].saves = s, ![j].pc = pc]
      BY <2>2, <3>1 DEF SaveSettings
    <3> QED
      BY <1>7, <3>2
  <2> QED
    BY <2>1, <2>2
<1>9. /\ v \in Job
      /\ v.pc = pc /\ v.b = r.b /\ v.about = r.about /\ v.del = r.del /\ v.saves = s
      /\ v.reply = p /\ v.ends = r.ends /\ v.spends = r.spends /\ v.on = r.on
      /\ v.begun = TRUE /\ v.base = r.base
  BY ONLY <1>1, <1>5, <1>6, <1>7 DEF Job, Places, Replies
<1> HIDE DEF Cleared, Nothing
<1> QED
  BY <1>1, <1>2, <1>3, <1>4, <1>8, <1>9 DEF SettingsSaved

LEMMA SaveSettingsTyped ==
    ASSUME Typed, NEW j \in Jobs, SaveSettings(j)
    PROVE  TypeOK' /\ JobsTyped'
<1>1. PICK r : r = job[j]
  OBVIOUS
<1>2. r \in Job /\ Ready(r) /\ r.pc = "settings"
  BY <1>1, SaveSettingsStep
<1>3. PICK v \in Job : job' = [job EXCEPT ![j] = v] /\ SettingsSaved(r, v)
  BY <1>1, SaveSettingsStep
<1>4. Ready(v)
  BY <1>2, <1>3 DEF Ready, SettingsSaved
<1>5. passkeysOn' \in BOOLEAN
  <2>1. r.on \in BOOLEAN
    BY <1>2 DEF Job
  <2> QED
    BY <1>1, <2>1 DEF SaveSettings
<1> QED
  BY <1>3, <1>4, <1>5, JobGoesOn DEF SaveSettings, Typed, StepsTypeOK, TypeOK

LEMMA DropTyped ==
    ASSUME Typed, NEW j \in Jobs, DropFromCache(j)
    PROVE  TypeOK' /\ JobsTyped'
<1>1. PICK r : r = job[j]
  OBVIOUS
<1>2. r \in Job /\ Ready(r) /\ r.pc = "drop"
  BY <1>1, JobAt DEF DropFromCache, At
<1>3. PICK v : v = [r EXCEPT !.pc = "delete"]
  OBVIOUS
<1>4. v \in Job /\ Ready(v)
  <2>1. "delete" \in Places
    BY DEF Places
  <2> QED
    BY <1>2, <1>3, <2>1, GotoFields DEF Ready
<1>5. job' = [job EXCEPT ![j] = v]
  BY <1>1, <1>3 DEF DropFromCache, Goto
<1> QED
  BY <1>4, <1>5, JobGoesOn DEF DropFromCache, Typed, StepsTypeOK, TypeOK

FileDeleted(r, v) ==
    /\ v.pc = IF r.saves = Nothing THEN "reply" ELSE "write"
    /\ v.b = r.b /\ v.about = r.about /\ v.del = None /\ v.saves = r.saves
    /\ v.target = r.target /\ v.reply = r.reply /\ v.ends = r.ends
    /\ v.spends = r.spends /\ v.on = r.on /\ v.rec = r.rec /\ v.begun
    /\ v.base = r.base

LEMMA DeleteFileStep ==
    ASSUME Typed, NEW j \in Jobs, DeleteFile(j), NEW r, r = job[j]
    PROVE  /\ r \in Job /\ Ready(r) /\ r.pc = "delete"
           /\ users' = [users EXCEPT ![r.del] = None]
           /\ IF Exists(r.del)
              THEN \E v \in Job : job' = [job EXCEPT ![j] = v] /\ FileDeleted(r, v)
              ELSE End(j)
<1>1. r \in Job /\ Ready(r) /\ r.pc = "delete"
  BY JobAt DEF DeleteFile, At
<1>2. ASSUME Exists(r.del)
      PROVE  \E v \in Job : job' = [job EXCEPT ![j] = v] /\ FileDeleted(r, v)
  <2>1. PICK pc : pc = IF r.saves = Nothing THEN "reply" ELSE "write"
    OBVIOUS
  <2>2. pc \in Places
    BY <2>1 DEF Places
  <2>3. PICK v : v = [r EXCEPT !.begun = TRUE, !.del = None, !.pc = pc]
    OBVIOUS
  <2>4. job' = [job EXCEPT ![j] = v]
    BY <1>2, <2>1, <2>3 DEF DeleteFile
  <2>5. /\ v \in Job
        /\ v.pc = pc /\ v.b = r.b /\ v.about = r.about /\ v.del = None /\ v.saves = r.saves
        /\ v.target = r.target /\ v.reply = r.reply /\ v.ends = r.ends
        /\ v.spends = r.spends /\ v.on = r.on /\ v.rec = r.rec /\ v.begun
        /\ v.base = r.base
    BY ONLY <1>1, <2>2, <2>3 DEF Job, Places
  <2> QED
    BY <2>1, <2>4, <2>5 DEF FileDeleted
<1> QED
  BY <1>1, <1>2 DEF DeleteFile

LEMMA DeleteFileTyped ==
    ASSUME Typed, NEW j \in Jobs, DeleteFile(j)
    PROVE  TypeOK' /\ JobsTyped'
<1>1. PICK r : r = job[j]
  OBVIOUS
<1>2. r \in Job /\ Ready(r) /\ r.pc = "delete"
  BY <1>1, DeleteFileStep
<1>3. TypeOK'
  BY <1>1, DeleteFileStep DEF DeleteFile, Typed, StepsTypeOK, TypeOK
<1>4. CASE Exists(r.del)
  <2>1. PICK v \in Job : job' = [job EXCEPT ![j] = v] /\ FileDeleted(r, v)
    BY <1>1, <1>4, DeleteFileStep
  <2>2. Ready(v)
    <3> HIDE DEF Nothing
    <3> QED
      BY <1>2, <2>1 DEF Ready, FileDeleted
  <2> QED
    BY <1>3, <2>1, <2>2, JobGoesOn
<1>5. CASE ~Exists(r.del)
  <2>1. End(j)
    BY <1>1, <1>5, DeleteFileStep
  <2> QED
    BY <1>3, <2>1, JobEnds
<1> QED
  BY <1>4, <1>5

FileWritten(r, v, n) ==
    /\ v.pc = "cache" /\ v.b = r.b /\ v.about = r.about /\ v.del = r.del
    /\ v.saves = r.saves /\ v.target = n /\ v.reply = r.reply /\ v.ends = r.ends
    /\ v.spends = r.spends /\ v.on = r.on /\ v.rec = r.rec /\ v.begun
    /\ v.base = r.base

LEMMA WriteFileStep ==
    ASSUME Typed, NEW j \in Jobs, WriteFile(j), NEW r, r = job[j]
    PROVE  /\ r \in Job /\ Ready(r) /\ r.pc = "write"
           /\ \E n \in Names, v \in Job :
                 /\ r.saves[n] \in User
                 /\ users' = [users EXCEPT ![n] = r.saves[n]]
                 /\ job' = [job EXCEPT ![j] = v]
                 /\ FileWritten(r, v, n)
<1>1. r \in Job /\ Ready(r) /\ r.pc = "write"
  BY JobAt DEF WriteFile, At
<1>2. PICK n \in Names : /\ r.saves[n] # None
                         /\ users' = [users EXCEPT ![n] = r.saves[n]]
                         /\ job' = [job EXCEPT ![j].begun = TRUE, ![j].target = n,
                                     ![j].pc = "cache"]
  BY DEF WriteFile
<1>3. r.saves[n] \in User
  <2>1. r.saves \in [Names -> User \cup {None}]
    BY <1>1 DEF Job
  <2> QED
    BY <1>2, <2>1
<1>4. PICK v : v = [r EXCEPT !.begun = TRUE, !.target = n, !.pc = "cache"]
  OBVIOUS
<1>5. job' = [job EXCEPT ![j] = v]
  BY <1>2, <1>4
<1>6. v \in Job /\ FileWritten(r, v, n)
  BY ONLY <1>1, <1>4 DEF Job, FileWritten
<1> QED
  BY <1>1, <1>2, <1>3, <1>5, <1>6

LEMMA WriteFileTyped ==
    ASSUME Typed, NEW j \in Jobs, WriteFile(j)
    PROVE  TypeOK' /\ JobsTyped'
<1>1. PICK r : r = job[j]
  OBVIOUS
<1>2. r \in Job /\ Ready(r) /\ r.pc = "write"
  BY <1>1, WriteFileStep
<1>3. PICK n \in Names, v \in Job :
        /\ r.saves[n] \in User
        /\ users' = [users EXCEPT ![n] = r.saves[n]]
        /\ job' = [job EXCEPT ![j] = v]
        /\ FileWritten(r, v, n)
  BY <1>1, WriteFileStep
<1>4. Ready(v)
  BY <1>2, <1>3 DEF Ready, FileWritten
<1>5. TypeOK'
  BY <1>3 DEF WriteFile, Typed, StepsTypeOK, TypeOK
<1> QED
  BY <1>3, <1>4, <1>5, JobGoesOn

CacheUpdated(r, v) ==
    LET left == [r.saves EXCEPT ![r.target] = None]
    IN  /\ v.pc = IF left = Nothing THEN "reply" ELSE "write"
        /\ v.saves = left /\ v.rec = r.saves[r.target]
        /\ v.b = r.b /\ v.about = r.about /\ v.del = r.del
        /\ v.target = r.target /\ v.reply = r.reply /\ v.ends = r.ends
        /\ v.spends = r.spends /\ v.on = r.on /\ (v.begun <=> r.begun)
        /\ v.base = r.base

LEMMA UpdateCacheStep ==
    ASSUME Typed, NEW j \in Jobs, UpdateCache(j), NEW r, r = job[j]
    PROVE  /\ r \in Job /\ Ready(r) /\ r.pc = "cache"
           /\ r.target \in Names /\ r.saves[r.target] \in User
           /\ crc' = [crc EXCEPT ![r.target] = Digest(r.target, r.saves[r.target])]
           /\ \E v \in Job : job' = [job EXCEPT ![j] = v] /\ CacheUpdated(r, v)
<1>1. r \in Job /\ Ready(r) /\ r.pc = "cache"
  BY JobAt DEF UpdateCache, At
<1>2. PICK n \in Names : n = r.target
  BY <1>1 DEF Ready
<1>3. PICK u \in User : u = r.saves[n]
  BY <1>1, <1>2 DEF Ready
<1>4. PICK left \in [Names -> User \cup {None}] : left = [r.saves EXCEPT ![n] = None]
  BY <1>1 DEF Job
<1>5. PICK pc \in {"reply", "write"} : pc = IF left = Nothing THEN "reply" ELSE "write"
  OBVIOUS
<1>6. PICK v : v = [r EXCEPT !.saves = left, !.rec = u, !.pc = pc]
  OBVIOUS
<1>7. job' = [job EXCEPT ![j] = v]
  BY <1>2, <1>3, <1>4, <1>5, <1>6 DEF UpdateCache
<1>8. /\ v \in Job
      /\ v.pc = pc /\ v.b = r.b /\ v.about = r.about /\ v.del = r.del /\ v.saves = left
      /\ v.target = r.target /\ v.reply = r.reply /\ v.ends = r.ends
      /\ v.spends = r.spends /\ v.on = r.on /\ v.rec = u /\ (v.begun <=> r.begun)
      /\ v.base = r.base
  BY ONLY <1>1, <1>6 DEF Job
<1>9. crc' = [crc EXCEPT ![n] = Digest(n, u)]
  BY <1>2, <1>3 DEF UpdateCache
<1>10. CacheUpdated(r, v)
  BY <1>2, <1>3, <1>4, <1>5, <1>8 DEF CacheUpdated
<1> QED
  BY <1>1, <1>2, <1>3, <1>7, <1>8, <1>9, <1>10

LEMMA UpdateCacheTyped ==
    ASSUME Typed, NEW j \in Jobs, UpdateCache(j)
    PROVE  TypeOK' /\ JobsTyped'
<1>1. PICK r : r = job[j]
  OBVIOUS
<1>2. /\ r \in Job /\ Ready(r) /\ r.pc = "cache"
      /\ r.target \in Names /\ r.saves[r.target] \in User
      /\ crc' = [crc EXCEPT ![r.target] = Digest(r.target, r.saves[r.target])]
  BY <1>1, UpdateCacheStep
<1>3. PICK v \in Job : job' = [job EXCEPT ![j] = v] /\ CacheUpdated(r, v)
  BY <1>1, UpdateCacheStep
<1>4. Ready(v)
  <2> HIDE DEF Nothing
  <2> QED
    BY <1>2, <1>3 DEF Ready, CacheUpdated
<1>5. Digest(r.target, r.saves[r.target]) \in Hash
  BY <1>2, DigestType
<1>6. TypeOK'
  BY <1>2, <1>5 DEF UpdateCache, Typed, StepsTypeOK, TypeOK
<1> QED
  BY <1>3, <1>4, <1>6, JobGoesOn

LEMMA ReceivesType ==
    ASSUME TypeOK, NEW b \in Browsers, NEW c \in Cookie \cup {None}, Receives(b, c)
    PROVE  cookie' \in [Browsers -> Cookie \cup {None}]
BY DEF Receives, TypeOK

LEMMA SetUserType ==
    ASSUME TypeOK, NEW b \in Browsers, NEW n \in Names, NEW u \in User, SetUser(b, n, u)
    PROVE  cookie' \in [Browsers -> Cookie \cup {None}]
<1>1. CookieFor(n, u) \in Cookie \cup {None}
  BY DigestType
<1> QED
  BY <1>1, ReceivesType DEF SetUser

LEMMA ReplyTyped ==
    ASSUME Typed, NEW j \in Jobs, Reply(j)
    PROVE  TypeOK' /\ JobsTyped'
<1>1. PICK r : r = job[j]
  OBVIOUS
<1>2. r \in Job /\ Ready(r) /\ r.pc = "reply"
  BY <1>1, JobAt DEF Reply, At
<1>3. TypeOK
  BY DEF Typed, StepsTypeOK
<1>4. r.b \in Browsers /\ r.reply \in {"login", "refresh", "clear", "keep", "reread"}
      /\ r.spends \subseteq PwHashes \cup Creds
  BY <1>2 DEF Job
<1>5. cookie' \in [Browsers -> Cookie \cup {None}]
  <2>1. CASE r.reply \in {"login", "refresh"}
    <3>1. SetUser(r.b, r.target, r.rec)
      BY <1>1, <2>1 DEF Reply
    <3>2. r.target \in Names /\ r.rec \in User
      BY <1>2, <2>1 DEF Ready
    <3> QED
      BY <1>3, <1>4, <3>1, <3>2, SetUserType
  <2>2. CASE r.reply = "clear"
    <3>1. Receives(r.b, None)
      BY <1>1, <2>2 DEF Reply, ClearSession
    <3> QED
      BY <1>3, <1>4, <3>1, ReceivesType
  <2>3. CASE r.reply = "keep"
    BY <1>1, <1>3, <2>3 DEF Reply, TypeOK
  <2>4. CASE r.reply = "reread"
    <3>1. r.about \in Names
      BY <1>2, <2>4 DEF Ready
    <3>2. CASE ~Exists(r.about)
      BY <1>1, <1>3, <2>4, <3>2 DEF Reply, TypeOK
    <3>3. CASE Exists(r.about)
      <4>1. SetUser(r.b, r.about, users[r.about])
        BY <1>1, <2>4, <3>3 DEF Reply
      <4>2. users[r.about] \in User
        BY <1>3, <3>1, <3>3 DEF Exists, TypeOK
      <4> QED
        BY <1>3, <1>4, <3>1, <4>1, <4>2, SetUserType
    <3> QED
      BY <3>2, <3>3
  <2> QED
    BY <1>4, <2>1, <2>2, <2>3, <2>4
<1>6. revoked' \subseteq Browsers
  BY <1>3 DEF Reply, EndedBy, TypeOK
<1>7. spent' \subseteq PwHashes \cup Creds
  BY <1>1, <1>3, <1>4 DEF Reply, TypeOK
<1>8. End(j)
  BY DEF Reply
<1> QED
  BY <1>3, <1>5, <1>6, <1>7, <1>8, JobEnds DEF Reply, TypeOK

(* Beginning, failing, logging out, ending and starting again.             *)
LEMMA BeginTyped ==
    ASSUME Typed, NEW j \in Jobs, NEW b \in Browsers, BeginAny(j, b)
    PROVE  TypeOK' /\ JobsTyped'
<1>1. PICK r \in Job : Begin(j, r) /\ Opening(r)
  BY BeginOpens DEF Typed
<1> QED
  BY <1>1, JobGoesOn DEF Begin, Opening, Typed, StepsTypeOK, TypeOK

LEMMA FailWriteStep ==
    ASSUME Typed, NEW j \in Jobs, FailWrite(j), NEW r, r = job[j]
    PROVE  /\ r \in Job /\ Ready(r) /\ r.pc = "write" /\ End(j)
           /\ users' = users
           /\ \E n \in Names :
                 /\ r.saves[n] \in User
                 /\ IF Exists(n)
                    THEN /\ crc' = [crc EXCEPT ![n] = Digest(n, r.saves[n])]
                         /\ unsaved' = unsaved \cup {n}
                    ELSE crc' = crc /\ unsaved' = unsaved
<1>1. r \in Job /\ Ready(r) /\ r.pc = "write"
  BY JobAt DEF FailWrite, At
<1>2. r.saves \in [Names -> User \cup {None}]
  BY <1>1 DEF Job
<1> QED
  BY <1>1, <1>2 DEF FailWrite

LEMMA FailWriteTyped ==
    ASSUME Typed, NEW j \in Jobs, FailWrite(j)
    PROVE  Typed'
<1>1. PICK r : r = job[j]
  OBVIOUS
<1>2. r \in Job /\ End(j) /\ users' = users
  BY <1>1, FailWriteStep
<1>3. PICK n \in Names : /\ r.saves[n] \in User
                         /\ IF Exists(n)
                            THEN /\ crc' = [crc EXCEPT ![n] = Digest(n, r.saves[n])]
                                 /\ unsaved' = unsaved \cup {n}
                            ELSE crc' = crc /\ unsaved' = unsaved
  BY <1>1, FailWriteStep
<1>4. Digest(n, r.saves[n]) \in Hash
  BY <1>3, DigestType
<1>5. r.spends \subseteq PwHashes \cup Creds
  BY <1>2 DEF Job
<1>6. TypeOK' /\ unsaved' \subseteq Names
  BY <1>1, <1>2, <1>3, <1>4, <1>5 DEF FailWrite, Typed, StepsTypeOK, TypeOK
<1> QED
  BY <1>2, <1>6, JobEnds DEF Typed, StepsTypeOK, JobsTyped

LEMMA FailDeleteTyped ==
    ASSUME Typed, NEW j \in Jobs, FailDelete(j)
    PROVE  Typed'
<1>1. PICK r : r = job[j]
  OBVIOUS
<1>2. r \in Job /\ Ready(r) /\ r.pc = "delete"
  BY <1>1, JobAt DEF FailDelete, At
<1>3. r.spends \subseteq PwHashes \cup Creds
  BY <1>2 DEF Job
<1>4. r.del \in Names
  BY <1>2 DEF Ready
<1>5. TypeOK' /\ unsaved' \subseteq Names /\ End(j)
  BY <1>1, <1>3, <1>4 DEF FailDelete, Typed, StepsTypeOK, TypeOK
<1> QED
  BY <1>5, JobEnds DEF Typed, StepsTypeOK, JobsTyped

LEMMA DefaultUserType ==
    ASSUME NEW pw \in PwHashes, NEW prof \in Profiles
    PROVE  DefaultUser(pw, prof) \in User
BY NoPasskeysType DEF DefaultUser, User

(* After a start the cache is that of the files.                           *)
LEMMA BootStep ==
    ASSUME TypeOK, NEW S \in SUBSET (PwHashes \cup Creds), Boot(S)
    PROVE  /\ users' \in [Names -> User \cup {None}]
           /\ crc' \in [Names -> Hash \cup {None}]
           /\ spent' \subseteq PwHashes \cup Creds
           /\ \A n \in Names : CacheMatches(n)'
<1>1. users' \in [Names -> User \cup {None}] /\ spent' \subseteq PwHashes \cup Creds
  <2>1. CASE \E n \in Names : Exists(n)
    BY <2>1 DEF Boot, TypeOK
  <2>2. CASE ~\E n \in Names : Exists(n)
    <3>1. PICK n \in Names, pw \in PwHashes, prof \in Profiles :
             /\ users' = Saving(n, DefaultUser(pw, prof))
             /\ spent' = spent \cup S \cup {pw}
      BY <2>2 DEF Boot
    <3>2. DefaultUser(pw, prof) \in User
      BY DefaultUserType
    <3> QED
      BY <3>1, <3>2, SavingFacts DEF TypeOK
  <2> QED
    BY <2>1, <2>2
<1>2. crc' = [n \in Names |-> IF users'[n] # None THEN Digest(n, users'[n]) ELSE None]
  BY DEF Boot
<1>3. crc' \in [Names -> Hash \cup {None}]
  <2> SUFFICES ASSUME NEW n \in Names, users'[n] # None
               PROVE  Digest(n, users'[n]) \in Hash
    BY <1>2
  <2> QED
    BY <1>1, DigestType
<1>4. \A n \in Names : CacheMatches(n)'
  BY <1>2 DEF CacheMatches, Exists
<1> QED
  BY <1>1, <1>3, <1>4

LEMMA CrashTyped ==
    ASSUME Typed, Crash
    PROVE  TypeOK' /\ JobsTyped' /\ \A n \in Names : CacheMatches(n)'
<1>1. PICK S : S = UNION {job[j].spends : j \in {i \in InFlight : job[i].begun}}
  OBVIOUS
<1>2. S \in SUBSET (PwHashes \cup Creds)
  <2>1. \A j \in InFlight : job[j].spends \subseteq PwHashes \cup Creds
    BY DEF Typed, StepsTypeOK, InFlight, Job
  <2> QED
    BY <1>1, <2>1
<1>3. TypeOK /\ Boot(S)
  BY <1>1 DEF Crash, Typed, StepsTypeOK
<1>4. revoked' \subseteq Browsers
  BY <1>3 DEF Crash, EndedBy, TypeOK
<1>5. JobsTyped'
  BY DEF Crash, JobsTyped, InFlight
<1> QED
  BY <1>2, <1>3, <1>4, <1>5, BootStep DEF Crash, TypeOK

LEMMA RestartTyped ==
    ASSUME Typed, RestartStep
    PROVE  TypeOK' /\ JobsTyped' /\ \A n \in Names : CacheMatches(n)'
<1>1. TypeOK /\ Boot({})
  BY DEF RestartStep, Typed, StepsTypeOK
<1>2. cookie' \in [Browsers -> Cookie \cup {None}]
  BY <1>1 DEF RestartStep, TypeOK
<1>3. JobsTyped'
  BY DEF RestartStep, Typed, StepsTypeOK, JobsTyped, InFlight
<1> QED
  BY <1>1, <1>2, <1>3, BootStep DEF RestartStep, TypeOK

LEMMA OutsideTyped ==
    ASSUME Typed, NEW b \in Browsers, LogoutStep(b) \/ ExpireStep(b)
    PROVE  TypeOK' /\ JobsTyped' /\ UNCHANGED <<users, crc, job>>
<1>1. TypeOK /\ UNCHANGED <<users, crc, passkeysOn, spent, revoked, job>>
  BY DEF Typed, StepsTypeOK, LogoutStep, ExpireStep, Logout, Expire
<1>2. cookie' \in [Browsers -> Cookie \cup {None}]
  BY <1>1 DEF LogoutStep, ExpireStep, Logout, Expire, ClearSession, Receives, TypeOK
<1> QED
  BY <1>1, <1>2 DEF Typed, StepsTypeOK, TypeOK, JobsTyped, InFlight

LEMMA WorkTyped ==
    ASSUME Typed, NEW j \in Jobs, Work(j)
    PROVE  TypeOK' /\ JobsTyped'
BY CheckTyped, SaveSettingsTyped, DropTyped, DeleteFileTyped, WriteFileTyped, UpdateCacheTyped,
   ReplyTyped DEF Work

LEMMA TypedStep == Typed /\ [StepsNext]_stepVars => Typed'
<1> SUFFICES ASSUME Typed, [StepsNext]_stepVars PROVE Typed'
  OBVIOUS
<1>1. ASSUME TypeOK', JobsTyped', unsaved' = {n \in unsaved : ~CacheMatches(n)'}
      PROVE  Typed'
  BY <1>1 DEF Typed, StepsTypeOK, JobsTyped
<1>2. ASSUME NEW j \in Jobs, Work(j), unsaved' = {n \in unsaved : ~CacheMatches(n)'}
      PROVE  Typed'
  BY <1>1, <1>2, WorkTyped
<1>3. ASSUME NEW j \in Jobs, NEW b \in Browsers, BeginAny(j, b),
             unsaved' = {n \in unsaved : ~CacheMatches(n)'}
      PROVE  Typed'
  BY <1>1, <1>3, BeginTyped
<1>4. ASSUME NEW b \in Browsers, LogoutStep(b) \/ ExpireStep(b),
             unsaved' = {n \in unsaved : ~CacheMatches(n)'}
      PROVE  Typed'
  BY <1>1, <1>4, OutsideTyped
<1>5. ASSUME Crash, unsaved' = {n \in unsaved : ~CacheMatches(n)'}
      PROVE  Typed'
  BY <1>1, <1>5, CrashTyped
<1>6. ASSUME RestartStep, unsaved' = {n \in unsaved : ~CacheMatches(n)'}
      PROVE  Typed'
  BY <1>1, <1>6, RestartTyped
<1>7. ASSUME NEW j \in Jobs, FailWrite(j) \/ FailDelete(j)
      PROVE  Typed'
  BY <1>7, FailWriteTyped, FailDeleteTyped
<1>8. CASE UNCHANGED stepVars
  BY <1>8 DEF stepVars, Typed, StepsTypeOK, TypeOK, InFlight
<1> QED
  BY <1>2, <1>3, <1>4, <1>5, <1>6, <1>7, <1>8 DEF StepsNext

LEMMA TypedInit == StepsInit => Typed
<1> SUFFICES ASSUME StepsInit PROVE Typed
  OBVIOUS
<1>1. TypeOK
  BY InitStep DEF StepsInit, IInv
<1>2. job = [j \in Jobs |-> None] /\ unsaved = {}
  BY DEF StepsInit
<1> QED
  BY <1>1, <1>2 DEF Typed, StepsTypeOK, InFlight

(* However many handlers overlap, and wherever one of them fails or the    *)
(* process ends, the tables keep their shape and every handler has what    *)
(* its next step needs: the record it saves, the account it names.         *)
THEOREM StepsTyped == StepsSpec => []Typed
BY TypedInit, TypedStep, PTL DEF StepsSpec

(* The same for the run's StepsTypeOK.                                     *)
THEOREM StepsTypeCorrect == StepsSpec => []StepsTypeOK
<1>1. Typed => StepsTypeOK
  BY DEF Typed
<1> QED
  BY <1>1, StepsTyped, PTL

-----------------------------------------------------------------------------
(* The cache between handlers, if no two of them overlap.                  *)

Alone == \A i, j \in InFlight : i = j

(* What a handler has changed in one of the two and not yet in the other.  *)
Halfway(r, n) ==
    \/ r.pc = "delete" /\ n = r.del
    \/ r.pc = "cache" /\ n = r.target

Agrees(r) ==
    /\ r.pc = "cache" => users[r.target] = r.saves[r.target]
    /\ r.pc = "delete" => crc[r.del] = None

(* The cache is that of the files but for a failed write or delete, and    *)
(* for the record a handler is about to bring up to date.                  *)
CacheFollows ==
    /\ \A n \in Names \ unsaved : CacheMatches(n) \/ \E j \in InFlight : Halfway(job[j], n)
    /\ \A n \in unsaved : Exists(n)
    /\ \A j \in InFlight : Agrees(job[j])

CacheInv == Typed /\ CacheFollows

(* Failures that are over are forgotten.                                   *)
Forgets == unsaved' = {n \in unsaved : ~CacheMatches(n)'}

OnlyOf(j, v) == IF v = None THEN {} ELSE {j}

(* The one job in flight goes on as v, or ends.                            *)
LEMMA OnlyJob ==
    ASSUME Typed, Alone, NEW j \in Jobs, job[j] # None, NEW v, job' = [job EXCEPT ![j] = v]
    PROVE  InFlight = {j} /\ job'[j] = v /\ InFlight' = OnlyOf(j, v)
<1>1. InFlight = {j}
  BY DEF Alone, InFlight
<1>2. job'[j] = v /\ \A i \in Jobs : i # j => job'[i] = job[i]
  BY DEF Typed, StepsTypeOK
<1>3. InFlight' = OnlyOf(j, v)
  BY <1>1, <1>2 DEF InFlight, OnlyOf
<1> QED
  BY <1>1, <1>2, <1>3

LEMMA FirstJob ==
    ASSUME Typed, Alone', NEW j \in Jobs, NEW r \in Job, Begin(j, r)
    PROVE  InFlight = {} /\ job'[j] = r /\ InFlight' = OnlyOf(j, r)
<1>1. job'[j] = r /\ \A i \in Jobs : i # j => job'[i] = job[i]
  BY DEF Begin, Typed, StepsTypeOK
<1>2. j \in InFlight'
  BY <1>1, NoneIsNoJob DEF InFlight
<1>3. \A i \in Jobs : i # j => job[i] = None
  BY <1>1, <1>2 DEF Alone, InFlight
<1> QED
  BY <1>1, <1>2, <1>3, NoneIsNoJob DEF Begin, InFlight, OnlyOf

(* The same with v for the one job, if there is one.                       *)
FollowsBy(v) ==
    /\ \A n \in Names \ unsaved : CacheMatches(n) \/ (v # None /\ Halfway(v, n))
    /\ \A n \in unsaved : Exists(n)
    /\ v # None => Agrees(v)

LEMMA FollowsAt ==
    ASSUME NEW j, NEW v, job'[j] = v, InFlight' = OnlyOf(j, v),
           FollowsBy(v)'
    PROVE  CacheFollows'
<1>1. CASE v = None
  BY <1>1 DEF OnlyOf, CacheFollows, FollowsBy
<1>2. CASE v # None
  BY <1>2 DEF OnlyOf, CacheFollows, FollowsBy, Halfway, Agrees
<1> QED
  BY <1>1, <1>2

(* A step to the store or its cache at the names D only.                   *)
LEMMA FollowsBut ==
    ASSUME CacheInv, Forgets, NEW D \in SUBSET Names,
           \A n \in Names \ D : users'[n] = users[n] /\ crc'[n] = crc[n],
           \A i \in InFlight : \A n \in Names : Halfway(job[i], n) => n \in D,
           \A n \in D : users'[n] = None => CacheMatches(n)'
    PROVE  /\ \A n \in Names \ D : n \in unsaved' \/ CacheMatches(n)'
           /\ \A n \in unsaved' : Exists(n)'
           /\ unsaved' \subseteq unsaved
<1>1. unsaved \subseteq Names
  BY DEF CacheInv, Typed, StepsTypeOK
<1>2. \A n \in Names \ D : (CacheMatches(n) <=> CacheMatches(n)') /\ (Exists(n) <=> Exists(n)')
  BY DEF CacheMatches, Exists
<1>3. \A n \in Names \ D : n \in unsaved' \/ CacheMatches(n)'
  BY <1>2 DEF CacheInv, CacheFollows, Forgets
<1>4. ASSUME NEW n \in unsaved' PROVE Exists(n)'
  <2>1. n \in unsaved /\ ~CacheMatches(n)' /\ n \in Names
    BY <1>1, <1>4 DEF Forgets
  <2>2. CASE n \in D
    BY <2>1, <2>2 DEF Exists
  <2>3. CASE n \notin D
    BY <1>2, <2>1, <2>3 DEF CacheInv, CacheFollows
  <2> QED
    BY <2>2, <2>3
<1> QED
  BY <1>3, <1>4 DEF Forgets

LEMMA BeginFollows ==
    ASSUME CacheInv, Forgets, Alone', NEW j \in Jobs, NEW b \in Browsers, BeginAny(j, b)
    PROVE  CacheFollows'
<1>1. PICK r \in Job : Begin(j, r) /\ Opening(r)
  BY BeginOpens DEF CacheInv, Typed
<1>2. InFlight = {} /\ job'[j] = r /\ InFlight' = OnlyOf(j, r)
  BY <1>1, FirstJob DEF CacheInv
<1>3. users' = users /\ crc' = crc
  BY <1>1 DEF Begin
<1>4. /\ \A n \in Names : n \in unsaved' \/ CacheMatches(n)'
      /\ \A n \in unsaved' : Exists(n)'
  BY <1>2, <1>3, FollowsBut, {} \in SUBSET Names
<1>5. Agrees(r)'
  BY <1>1, <1>3 DEF Opening, Agrees
<1>6. FollowsBy(r)'
  BY <1>4, <1>5 DEF FollowsBy
<1> QED
  BY <1>2, <1>6, FollowsAt, NoneIsNoJob

LEMMA CheckFollows ==
    ASSUME CacheInv, Forgets, Alone, NEW j \in Jobs, Check(j)
    PROVE  CacheFollows'
<1>1. PICK r : r = job[j]
  OBVIOUS
<1>2. r \in Job /\ r.pc \in {"demote", "disable"}
  BY <1>1, JobAt DEF CacheInv, Check, At
<1>3. PICK v : /\ job' = [job EXCEPT ![j] = v]
               /\ v = None \/ (v # None /\ v.pc \in {"drop", "write"})
  <2>1. PICK pc \in {"drop", "write"} : Goto(j, pc) \/ End(j)
    BY DEF Check
  <2>2. PICK w : w = [r EXCEPT !.pc = pc]
    OBVIOUS
  <2>3. w # None /\ w.pc = pc
    <3>1. pc \in Places
      BY DEF Places
    <3> QED
      BY <1>2, <2>2, <3>1, GotoFields, NoneIsNoJob
  <2> QED
    BY <1>1, <2>1, <2>2, <2>3 DEF Goto, End
<1>4. InFlight = {j} /\ job'[j] = v /\ InFlight' = OnlyOf(j, v)
  BY <1>3, OnlyJob DEF CacheInv, Check, At
<1>5. \A n \in Names : ~Halfway(r, n)
  BY <1>2 DEF Halfway
<1>6. /\ \A n \in Names : n \in unsaved' \/ CacheMatches(n)'
      /\ \A n \in unsaved' : Exists(n)'
  BY <1>1, <1>4, <1>5, FollowsBut, {} \in SUBSET Names DEF Check
<1>7. FollowsBy(v)'
  BY <1>3, <1>6 DEF FollowsBy, Agrees
<1> QED
  BY <1>4, <1>7, FollowsAt

(* The same for a step that leaves the store and its cache alone.          *)
LEMMA FollowsIdly ==
    ASSUME CacheInv, Forgets, Alone, NEW j \in Jobs, NEW r \in Job, job[j] = r,
           r.pc \notin {"delete", "cache"},
           NEW v, job' = [job EXCEPT ![j] = v], v = None \/ v.pc \notin {"delete", "cache"},
           users' = users, crc' = crc
    PROVE  CacheFollows'
<1>1. InFlight = {j} /\ job'[j] = v /\ InFlight' = OnlyOf(j, v)
  BY OnlyJob, NoneIsNoJob DEF CacheInv
<1>2. \A n \in Names : ~Halfway(r, n)
  BY DEF Halfway
<1>3. /\ \A n \in Names : n \in unsaved' \/ CacheMatches(n)'
      /\ \A n \in unsaved' : Exists(n)'
  BY <1>1, <1>2, FollowsBut, {} \in SUBSET Names
<1>4. FollowsBy(v)'
  BY <1>3 DEF FollowsBy, Agrees
<1> QED
  BY <1>1, <1>4, FollowsAt

LEMMA SaveSettingsFollows ==
    ASSUME CacheInv, Forgets, Alone, NEW j \in Jobs, SaveSettings(j)
    PROVE  CacheFollows'
<1>1. PICK r : r = job[j]
  OBVIOUS
<1>2. r \in Job /\ r.pc = "settings"
  BY <1>1, SaveSettingsStep DEF CacheInv
<1>3. PICK v \in Job : job' = [job EXCEPT ![j] = v] /\ SettingsSaved(r, v)
  BY <1>1, SaveSettingsStep DEF CacheInv
<1>4. v.pc \notin {"delete", "cache"} /\ r.pc \notin {"delete", "cache"}
  BY <1>2, <1>3 DEF SettingsSaved
<1>5. users' = users /\ crc' = crc
  BY DEF SaveSettings
<1> QED
  BY <1>1, <1>2, <1>3, <1>4, <1>5, FollowsIdly

LEMMA ReplyFollows ==
    ASSUME CacheInv, Forgets, Alone, NEW j \in Jobs, Reply(j)
    PROVE  CacheFollows'
<1>1. PICK r : r = job[j]
  OBVIOUS
<1>2. r \in Job /\ r.pc = "reply"
  BY <1>1, JobAt DEF CacheInv, Reply, At
<1>3. PICK v : v = None
  OBVIOUS
<1>4. job' = [job EXCEPT ![j] = v]
  BY <1>3 DEF Reply, End
<1>5. users' = users /\ crc' = crc
  BY DEF Reply
<1> QED
  BY <1>1, <1>2, <1>3, <1>4, <1>5, FollowsIdly

LEMMA DropFollows ==
    ASSUME CacheInv, Forgets, Alone, NEW j \in Jobs, DropFromCache(j)
    PROVE  CacheFollows'
<1>1. PICK r : r = job[j]
  OBVIOUS
<1>2. r \in Job /\ Ready(r) /\ r.pc = "drop"
  BY <1>1, JobAt DEF CacheInv, DropFromCache, At
<1>3. PICK d \in Names : d = r.del
  BY <1>2 DEF Ready
<1>4. PICK v : v = [r EXCEPT !.pc = "delete"]
  OBVIOUS
<1>5. v \in Job /\ v.pc = "delete" /\ v.del = d
  <2>1. "delete" \in Places
    BY DEF Places
  <2> QED
    BY <1>2, <1>3, <1>4, <2>1, GotoFields
<1>6. job' = [job EXCEPT ![j] = v]
  BY <1>1, <1>4 DEF DropFromCache, Goto
<1>7. InFlight = {j} /\ job'[j] = v /\ InFlight' = OnlyOf(j, v)
  BY <1>6, OnlyJob DEF CacheInv, DropFromCache, At
<1>8. users' = users /\ crc' = [crc EXCEPT ![d] = None] /\ crc'[d] = None
  BY <1>1, <1>3 DEF DropFromCache, CacheInv, Typed, StepsTypeOK, TypeOK
<1>9. \A n \in Names : ~Halfway(r, n)
  BY <1>2 DEF Halfway
<1>10. PICK D \in SUBSET Names : D = {d}
  OBVIOUS
<1>11. /\ \A n \in Names \ D : users'[n] = users[n] /\ crc'[n] = crc[n]
       /\ \A n \in D : users'[n] = None => CacheMatches(n)'
  BY <1>8, <1>10 DEF CacheMatches, Exists, CacheInv, Typed, StepsTypeOK, TypeOK
<1>12. /\ \A n \in Names \ D : n \in unsaved' \/ CacheMatches(n)'
       /\ \A n \in unsaved' : Exists(n)'
  BY <1>1, <1>7, <1>9, <1>11, FollowsBut
<1>13. FollowsBy(v)'
  BY <1>5, <1>8, <1>10, <1>12, NoneIsNoJob DEF FollowsBy, Agrees, Halfway
<1> QED
  BY <1>7, <1>13, FollowsAt

LEMMA DeleteFileFollows ==
    ASSUME CacheInv, Forgets, Alone, NEW j \in Jobs, DeleteFile(j)
    PROVE  CacheFollows'
<1>1. PICK r : r = job[j]
  OBVIOUS
<1>2. r \in Job /\ Ready(r) /\ r.pc = "delete"
  BY <1>1, DeleteFileStep DEF CacheInv
<1>3. PICK d \in Names : d = r.del
  BY <1>2 DEF Ready
<1>4. PICK v : /\ job' = [job EXCEPT ![j] = v]
               /\ v = None \/ v.pc \in {"reply", "write"}
  <2>1. CASE Exists(r.del)
    <3>1. PICK v \in Job : job' = [job EXCEPT ![j] = v] /\ FileDeleted(r, v)
      BY <1>1, <2>1, DeleteFileStep DEF CacheInv
    <3>2. v.pc \in {"reply", "write"}
      BY <3>1 DEF FileDeleted
    <3> QED
      BY <3>1, <3>2
  <2>2. CASE ~Exists(r.del)
    BY <1>1, <2>2, DeleteFileStep DEF CacheInv, End
  <2> QED
    BY <2>1, <2>2
<1>5. InFlight = {j} /\ job'[j] = v /\ InFlight' = OnlyOf(j, v)
  BY <1>4, OnlyJob DEF CacheInv, DeleteFile, At
<1>6. users' = [users EXCEPT ![d] = None] /\ crc' = crc
  BY <1>1, <1>3, DeleteFileStep DEF CacheInv, DeleteFile
<1>7. crc[d] = None
  BY <1>1, <1>2, <1>3, <1>5 DEF CacheInv, CacheFollows, Agrees
<1>8. \A n \in Names : Halfway(r, n) => n = d
  BY <1>2, <1>3 DEF Halfway
<1>9. PICK D \in SUBSET Names : D = {d}
  OBVIOUS
<1>10. /\ \A n \in Names \ D : users'[n] = users[n] /\ crc'[n] = crc[n]
       /\ \A n \in D : CacheMatches(n)'
  BY <1>6, <1>7, <1>9 DEF CacheMatches, Exists, CacheInv, Typed, StepsTypeOK, TypeOK
<1>11. /\ \A n \in Names \ D : n \in unsaved' \/ CacheMatches(n)'
       /\ \A n \in unsaved' : Exists(n)'
  BY <1>1, <1>5, <1>8, <1>9, <1>10, FollowsBut
<1>12. FollowsBy(v)'
  BY <1>4, <1>9, <1>10, <1>11 DEF FollowsBy, Agrees
<1> QED
  BY <1>5, <1>12, FollowsAt

LEMMA WriteFileFollows ==
    ASSUME CacheInv, Forgets, Alone, NEW j \in Jobs, WriteFile(j)
    PROVE  CacheFollows'
<1>1. PICK r : r = job[j]
  OBVIOUS
<1>2. r \in Job /\ r.pc = "write"
  BY <1>1, WriteFileStep DEF CacheInv
<1>3. PICK d \in Names, v \in Job :
        /\ r.saves[d] \in User
        /\ users' = [users EXCEPT ![d] = r.saves[d]]
        /\ job' = [job EXCEPT ![j] = v]
        /\ FileWritten(r, v, d)
  BY <1>1, WriteFileStep DEF CacheInv
<1>4. InFlight = {j} /\ job'[j] = v /\ InFlight' = OnlyOf(j, v)
  BY <1>3, OnlyJob DEF CacheInv, WriteFile, At
<1>5. crc' = crc /\ users'[d] = r.saves[d] /\ users'[d] # None
  BY <1>3, NoneIsNoValue DEF CacheInv, WriteFile, Typed, StepsTypeOK, TypeOK
<1>6. \A n \in Names : ~Halfway(r, n)
  BY <1>2 DEF Halfway
<1>7. PICK D \in SUBSET Names : D = {d}
  OBVIOUS
<1>8. /\ \A n \in Names \ D : users'[n] = users[n] /\ crc'[n] = crc[n]
      /\ \A n \in D : users'[n] # None
  BY <1>3, <1>5, <1>7 DEF CacheInv, Typed, StepsTypeOK, TypeOK
<1>9. /\ \A n \in Names \ D : n \in unsaved' \/ CacheMatches(n)'
      /\ \A n \in unsaved' : Exists(n)'
  BY <1>1, <1>4, <1>6, <1>8, FollowsBut
<1>10. FollowsBy(v)'
  BY <1>3, <1>5, <1>7, <1>9, NoneIsNoJob DEF FollowsBy, Agrees, Halfway, FileWritten
<1> QED
  BY <1>4, <1>10, FollowsAt

LEMMA UpdateCacheFollows ==
    ASSUME CacheInv, Forgets, Alone, NEW j \in Jobs, UpdateCache(j)
    PROVE  CacheFollows'
<1>1. PICK r : r = job[j]
  OBVIOUS
<1>2. r \in Job /\ r.pc = "cache" /\ r.target \in Names /\ r.saves[r.target] \in User
  BY <1>1, UpdateCacheStep DEF CacheInv
<1>3. PICK d \in Names : d = r.target
  BY <1>2
<1>4. PICK v \in Job : job' = [job EXCEPT ![j] = v] /\ v.pc \in {"reply", "write"}
  <2>1. PICK v \in Job : job' = [job EXCEPT ![j] = v] /\ CacheUpdated(r, v)
    BY <1>1, UpdateCacheStep DEF CacheInv
  <2>2. v.pc \in {"reply", "write"}
    BY <2>1 DEF CacheUpdated
  <2> QED
    BY <2>1, <2>2
<1>5. InFlight = {j} /\ job'[j] = v /\ InFlight' = OnlyOf(j, v)
  BY <1>4, OnlyJob DEF CacheInv, UpdateCache, At
<1>6. users[d] = r.saves[d] /\ users[d] # None
  BY <1>1, <1>2, <1>3, <1>5, NoneIsNoValue DEF CacheInv, CacheFollows, Agrees
<1>7. users' = users /\ crc' = [crc EXCEPT ![d] = Digest(d, users[d])]
  BY <1>1, <1>3, <1>6 DEF UpdateCache
<1>8. \A n \in Names : Halfway(r, n) => n = d
  BY <1>2, <1>3 DEF Halfway
<1>9. PICK D \in SUBSET Names : D = {d}
  OBVIOUS
<1>10. /\ \A n \in Names \ D : users'[n] = users[n] /\ crc'[n] = crc[n]
       /\ \A n \in D : CacheMatches(n)'
  BY <1>6, <1>7, <1>9 DEF CacheMatches, Exists, CacheInv, Typed, StepsTypeOK, TypeOK
<1>11. /\ \A n \in Names \ D : n \in unsaved' \/ CacheMatches(n)'
       /\ \A n \in unsaved' : Exists(n)'
  BY <1>1, <1>5, <1>8, <1>9, <1>10, FollowsBut
<1>12. FollowsBy(v)'
  BY <1>4, <1>9, <1>10, <1>11 DEF FollowsBy, Agrees
<1> QED
  BY <1>5, <1>12, FollowsAt

LEMMA FailWriteFollows ==
    ASSUME CacheInv, Alone, NEW j \in Jobs, FailWrite(j)
    PROVE  CacheFollows'
<1>1. PICK r : r = job[j]
  OBVIOUS
<1>2. r \in Job /\ r.pc = "write" /\ End(j) /\ users' = users
  BY <1>1, FailWriteStep DEF CacheInv
<1>3. PICK n \in Names : IF Exists(n)
                         THEN /\ crc' = [crc EXCEPT ![n] = Digest(n, r.saves[n])]
                              /\ unsaved' = unsaved \cup {n}
                         ELSE crc' = crc /\ unsaved' = unsaved
  BY <1>1, FailWriteStep DEF CacheInv
<1>4. PICK v : v = None
  OBVIOUS
<1>5. InFlight = {j} /\ job'[j] = v /\ InFlight' = OnlyOf(j, v)
  BY <1>2, <1>4, OnlyJob DEF CacheInv, FailWrite, At, End
<1>6. \A m \in Names : ~Halfway(r, m)
  BY <1>2 DEF Halfway
<1>7. \A m \in Names \ unsaved : CacheMatches(m)
  BY <1>1, <1>5, <1>6 DEF CacheInv, CacheFollows
<1>8. \A m \in Names \ unsaved' : crc'[m] = crc[m] /\ m \notin unsaved
  BY <1>3 DEF CacheInv, Typed, StepsTypeOK, TypeOK
<1>9. \A m \in Names \ unsaved' : CacheMatches(m)'
  BY <1>2, <1>7, <1>8 DEF CacheMatches, Exists
<1>10. \A m \in unsaved' : Exists(m)'
  BY <1>2, <1>3 DEF Exists, CacheInv, CacheFollows
<1>11. FollowsBy(v)'
  BY <1>4, <1>9, <1>10 DEF FollowsBy
<1> QED
  BY <1>5, <1>11, FollowsAt

LEMMA FailDeleteFollows ==
    ASSUME CacheInv, Alone, NEW j \in Jobs, FailDelete(j)
    PROVE  CacheFollows'
<1>1. PICK r : r = job[j]
  OBVIOUS
<1>2. r \in Job /\ Ready(r) /\ r.pc = "delete"
  BY <1>1, JobAt DEF CacheInv, FailDelete, At
<1>3. PICK d \in Names : d = r.del
  BY <1>2 DEF Ready
<1>4. Exists(d) /\ unsaved' = unsaved \cup {d} /\ users' = users /\ crc' = crc
  BY <1>1, <1>3 DEF FailDelete
<1>5. PICK v : v = None
  OBVIOUS
<1>6. InFlight = {j} /\ job'[j] = v /\ InFlight' = OnlyOf(j, v)
  BY <1>5, OnlyJob DEF CacheInv, FailDelete, At, End
<1>7. \A m \in Names : Halfway(r, m) => m = d
  BY <1>2, <1>3 DEF Halfway
<1>8. \A m \in Names \ unsaved' : CacheMatches(m)'
  BY <1>1, <1>4, <1>6, <1>7 DEF CacheMatches, Exists, CacheInv, CacheFollows
<1>9. \A m \in unsaved' : Exists(m)'
  BY <1>4 DEF Exists, CacheInv, CacheFollows
<1>10. FollowsBy(v)'
  BY <1>5, <1>8, <1>9 DEF FollowsBy
<1> QED
  BY <1>6, <1>10, FollowsAt

(* After a start no handler is in flight and nothing is unsaved.           *)
LEMMA StartFollows ==
    ASSUME Typed, Forgets, InFlight' = {}, \A n \in Names : CacheMatches(n)'
    PROVE  CacheFollows'
<1>1. unsaved' = {}
  BY DEF Forgets, Typed, StepsTypeOK
<1> QED
  BY <1>1 DEF CacheFollows

LEMMA UnchangedFollows ==
    ASSUME CacheInv, UNCHANGED <<users, crc, job>>, Forgets \/ unsaved' = unsaved
    PROVE  CacheFollows'
<1>1. unsaved \subseteq Names
  BY DEF CacheInv, Typed, StepsTypeOK
<1>2. \A n \in Names : (CacheMatches(n) <=> CacheMatches(n)') /\ (Exists(n) <=> Exists(n)')
  BY DEF CacheMatches, Exists
<1>3. unsaved' \subseteq unsaved /\ \A n \in unsaved : n \in unsaved' \/ CacheMatches(n)'
  BY DEF Forgets
<1>4. \A n \in Names \ unsaved' : CacheMatches(n)' \/ \E i \in InFlight : Halfway(job[i], n)
  BY <1>2, <1>3 DEF CacheInv, CacheFollows
<1>5. \A n \in unsaved' : Exists(n)'
  BY <1>1, <1>2, <1>3 DEF CacheInv, CacheFollows
<1>6. InFlight' = InFlight /\ job' = job
  BY DEF InFlight
<1>7. \A i \in InFlight' : Agrees(job[i])'
  BY <1>6 DEF CacheInv, CacheFollows, Agrees
<1> QED
  BY <1>4, <1>5, <1>6, <1>7 DEF CacheFollows

LEMMA WorkFollows ==
    ASSUME CacheInv, Forgets, Alone, NEW j \in Jobs, Work(j)
    PROVE  CacheFollows'
BY CheckFollows, SaveSettingsFollows, DropFollows, DeleteFileFollows, WriteFileFollows,
   UpdateCacheFollows, ReplyFollows DEF Work

LEMMA CacheStep == CacheInv /\ Alone /\ Alone' /\ [StepsNext]_stepVars => CacheInv'
<1> SUFFICES ASSUME CacheInv, Alone, Alone', [StepsNext]_stepVars PROVE CacheFollows'
  BY TypedStep DEF CacheInv
<1>1. ASSUME Forgets, NEW j \in Jobs, Work(j)
      PROVE  CacheFollows'
  BY <1>1, WorkFollows
<1>2. ASSUME Forgets, NEW j \in Jobs, NEW b \in Browsers, BeginAny(j, b)
      PROVE  CacheFollows'
  BY <1>2, BeginFollows
<1>3. ASSUME Forgets, NEW b \in Browsers, LogoutStep(b) \/ ExpireStep(b)
      PROVE  CacheFollows'
  <2>1. UNCHANGED <<users, crc, job>>
    BY <1>3, OutsideTyped DEF CacheInv
  <2> QED
    BY <1>3, <2>1, UnchangedFollows
<1>4. ASSUME Forgets, Crash
      PROVE  CacheFollows'
  <2>1. InFlight' = {}
    BY <1>4 DEF Crash, InFlight
  <2> QED
    BY <1>4, <2>1, CrashTyped, StartFollows DEF CacheInv
<1>5. ASSUME Forgets, RestartStep
      PROVE  CacheFollows'
  <2>1. InFlight' = {}
    BY <1>5 DEF RestartStep, InFlight
  <2> QED
    BY <1>5, <2>1, RestartTyped, StartFollows DEF CacheInv
<1>6. ASSUME NEW j \in Jobs, FailWrite(j) \/ FailDelete(j)
      PROVE  CacheFollows'
  BY <1>6, FailWriteFollows, FailDeleteFollows
<1>7. CASE UNCHANGED stepVars
  BY <1>7, UnchangedFollows DEF stepVars
<1> QED
  BY <1>1, <1>2, <1>3, <1>4, <1>5, <1>6, <1>7 DEF StepsNext, Forgets

LEMMA CacheStart == StepsInit => CacheInv
<1> SUFFICES ASSUME StepsInit PROVE CacheFollows
  BY TypedInit DEF CacheInv
<1>1. \A n \in Names : CacheMatches(n)
  BY DEF StepsInit, Init, CacheMatches
<1>2. unsaved = {} /\ InFlight = {}
  BY DEF StepsInit, InFlight
<1> QED
  BY <1>1, <1>2 DEF CacheFollows

(* As long as no two handlers overlap, the cache agrees with the files     *)
(* whenever none is in flight, wherever handlers were cut short or failed, *)
(* but for the accounts whose save or delete failed.                       *)
THEOREM CacheSound == StepsSpec /\ []Alone => []IdleCacheMatchesStore
<1>1. CacheInv => IdleCacheMatchesStore
  BY DEF CacheInv, CacheFollows, IdleCacheMatchesStore
<1> QED
  BY <1>1, CacheStart, CacheStep, PTL DEF StepsSpec

-----------------------------------------------------------------------------
(* AccountSteps implements Accounts, if no two handlers overlap.           *)
(*                                                                         *)
(* While a handler is in flight Base is what the store and its cache held  *)
(* when it began.  The invariant says which operation of Accounts it is,   *)
(* that the guards of that one hold at Base, and how much of it is done.   *)

(* The account as it was when the job began.                               *)
Was(r, n) == r.base.users[n]

(* The guards, for the cookie ck of the caller.                            *)
Accepted(r, ck) == ck # None /\ r.base.crc[ck.username] = ck.hash

AcceptedAdmin(r, ck) == Accepted(r, ck) /\ ck.admin

MayTouch(r, ck, n) == Accepted(r, ck) /\ (ck.admin \/ n = ck.username)

AnotherActiveAdmin(r, n) ==
    \E m \in Names \ {n} : Was(r, m) # None /\ Was(r, m).admin /\ ~Was(r, m).disabled

(* What each handler is to do: delete the record of d, unless it is None,  *)
(* and save u as that of t, unless it is None.                             *)
WantsLogin(r, ck, d, t, u) ==
    /\ d = None /\ t \in Names /\ u = Was(r, t)
    /\ Was(r, t) # None /\ ~Was(r, t).disabled
    /\ r.reply = "login" /\ r.ends = None /\ r.spends = {}

WantsCreate(r, ck, d, t, u) ==
    /\ AcceptedAdmin(r, ck)
    /\ d = None /\ t \in Names /\ Was(r, t) = None
    /\ \E pw \in PwHashes, adm \in BOOLEAN, prof \in Profiles :
          /\ u = [pw |-> pw, admin |-> adm, disabled |-> FALSE, epoch |-> 0,
                  profile |-> prof, passkeys |-> NoPasskeys]
          /\ r.spends = {pw}
    /\ r.reply = "keep" /\ r.ends = None

Edited(w, ck, d, pw, adm, prof) ==
    [w EXCEPT !.pw = IF pw = None THEN @ ELSE pw,
              !.admin = IF d = ck.username THEN @ ELSE ck.admin /\ adm,
              !.profile = prof]

WantsUpdate(r, ck, d, t, u) ==
    /\ MayTouch(r, ck, d)
    /\ d \in Names /\ t \in Names /\ Was(r, d) # None /\ r.about = d
    /\ t # d => Was(r, t) = None
    /\ \E pw \in PwHashes \cup {None}, adm \in BOOLEAN, prof \in Profiles :
          /\ u = Edited(Was(r, d), ck, d, pw, adm, prof)
          /\ r.reply = IF d # ck.username THEN "keep"
                       ELSE IF pw = None THEN "refresh" ELSE "clear"
          /\ r.ends = IF pw = None THEN None ELSE d
          /\ r.spends = {pw} \ {None}

WantsRemove(r, ck, d, t, u) ==
    /\ AcceptedAdmin(r, ck)
    /\ d \in Names /\ Was(r, d) # None /\ ~Was(r, d).admin /\ d # ck.username
    /\ ck.username \in Names /\ Was(r, ck.username) # None
    /\ t = None /\ u = None
    /\ r.reply = "keep" /\ r.ends = d /\ r.spends = {}

(* Changing one record.                                                    *)
WantsEdit(r, ck, d, t, reply) ==
    /\ d = None /\ t \in Names /\ Was(r, t) # None
    /\ r.reply = IF t = ck.username THEN reply ELSE "keep"

WantsAdmin(r, ck, d, t, u) ==
    /\ AcceptedAdmin(r, ck)
    /\ WantsEdit(r, ck, d, t, "refresh")
    /\ r.about = t /\ r.ends = None /\ r.spends = {}
    /\ \E adm \in BOOLEAN : /\ ~adm => t # ck.username
                            /\ u = [Was(r, t) EXCEPT !.admin = adm]

WantsDisabled(r, ck, d, t, u) ==
    /\ AcceptedAdmin(r, ck)
    /\ r.about = t /\ r.ends = None /\ r.spends = {}
    /\ \E disabled \in BOOLEAN :
          /\ WantsEdit(r, ck, d, t, IF disabled THEN "clear" ELSE "refresh")
          /\ disabled => ~Was(r, t).disabled
          /\ u = [Was(r, t) EXCEPT !.disabled = disabled]

WantsRevoke(r, ck, d, t, u) ==
    /\ AcceptedAdmin(r, ck)
    /\ WantsEdit(r, ck, d, t, "clear")
    /\ r.ends = t /\ r.spends = {}
    /\ ~Was(r, t).disabled /\ Was(r, t).epoch < MaxEpoch
    /\ u = [Was(r, t) EXCEPT !.epoch = @ + 1]

WantsRegister(r, ck, d, t, u) ==
    /\ r.base.on /\ MayTouch(r, ck, t)
    /\ WantsEdit(r, ck, d, t, "refresh")
    /\ r.ends = None
    /\ \E k \in Creds, l \in Labels : /\ u = [Was(r, t) EXCEPT !.passkeys[k] = l]
                                      /\ r.spends = {k}

WantsForget(r, ck, d, t, u) ==
    /\ r.base.on /\ MayTouch(r, ck, t)
    /\ WantsEdit(r, ck, d, t, "clear")
    /\ r.ends = t /\ r.spends = {}
    /\ Was(r, t).epoch < MaxEpoch
    /\ \E k \in Creds : /\ Was(r, t).passkeys[k] # None
                        /\ u = [Was(r, t) EXCEPT !.passkeys[k] = None, !.epoch = @ + 1]

WantsRename(r, ck, d, t, u) ==
    /\ r.base.on /\ MayTouch(r, ck, t)
    /\ WantsEdit(r, ck, d, t, "refresh")
    /\ r.ends = None /\ r.spends = {}
    /\ \E k \in Creds, l \in Labels : /\ Was(r, t).passkeys[k] # None
                                      /\ u = [Was(r, t) EXCEPT !.passkeys[k] = l]

Wants(r, ck, d, t, u) ==
    \/ WantsLogin(r, ck, d, t, u) \/ WantsCreate(r, ck, d, t, u) \/ WantsUpdate(r, ck, d, t, u)
    \/ WantsRemove(r, ck, d, t, u) \/ WantsAdmin(r, ck, d, t, u) \/ WantsDisabled(r, ck, d, t, u)
    \/ WantsRevoke(r, ck, d, t, u) \/ WantsRegister(r, ck, d, t, u)
    \/ WantsForget(r, ck, d, t, u) \/ WantsRename(r, ck, d, t, u)

(* The two checks that an active administrator remains, once made.         *)
MayDemote(r, u) ==
    r.about # None /\ u # None /\ Was(r, r.about).admin /\ ~u.admin
        => AnotherActiveAdmin(r, r.about)

MaySuspend(r, u) ==
    r.about # None /\ u # None /\ Was(r, r.about).admin
        /\ ~Was(r, r.about).disabled /\ u.disabled =>
        AnotherActiveAdmin(r, r.about)

Without(f, d) == [n \in Names |-> IF n = d THEN None ELSE f[n]]

With(f, t, x) == [n \in Names |-> IF n = t THEN x ELSE f[n]]

ToSave(t, u) == [n \in Names |-> IF n = t THEN u ELSE None]

(* How far the handler is.                                                 *)
Progress(r, d, t, u) ==
    LET U == r.base.users
        C == r.base.crc
    IN  CASE r.pc \in {"demote", "disable", "drop"} ->
               users = U /\ crc = C /\ ~r.begun /\ r.del = d /\ r.saves = ToSave(t, u)
          [] r.pc = "delete" ->
               users = U /\ crc = Without(C, d) /\ ~r.begun /\ r.del = d /\ r.saves = ToSave(t, u)
          [] r.pc = "write" ->
               /\ users = Without(U, d) /\ crc = Without(C, d) /\ (r.begun \/ d = None)
               /\ r.del = None /\ r.saves = ToSave(t, u)
          [] r.pc = "cache" ->
               /\ users = With(Without(U, d), t, u) /\ crc = Without(C, d) /\ (r.begun \/ users = U)
               /\ r.del = None /\ r.saves = ToSave(t, u) /\ t # None /\ r.target = t
          [] r.pc = "reply" ->
               /\ users = With(Without(U, d), t, u) /\ crc = With(Without(C, d), t, Digest(t, u))
               /\ r.begun \/ users = U
               /\ r.del = None /\ r.saves = Nothing /\ (t # None => r.target = t /\ r.rec = u)
          [] OTHER -> FALSE

ServesAccount(r) ==
    /\ passkeysOn = r.base.on
    /\ \E d \in Names \cup {None}, t \in Names \cup {None}, u \in User \cup {None} :
          /\ Wants(r, cookie[r.b], d, t, u)
          /\ t # None => u # None
          /\ r.pc # "demote" => MayDemote(r, u)
          /\ r.pc # "disable" => MaySuspend(r, u)
          /\ Progress(r, d, t, u)

(* The settings page: the records without passkeys, and which are saved.   *)
Stripped(r) ==
    [n \in Names |-> IF Was(r, n) # None /\ HasPasskeys(Was(r, n))
                     THEN [Was(r, n) EXCEPT !.passkeys = NoPasskeys]
                     ELSE None]

StrippedSoFar(r, n) ==
    IF Stripped(r)[n] = None
    THEN r.saves[n] = None /\ users[n] = Was(r, n) /\ crc[n] = r.base.crc[n]
    ELSE IF r.saves[n] = None
    THEN users[n] = Stripped(r)[n] /\ crc[n] = Digest(n, Stripped(r)[n])
    ELSE /\ r.saves[n] = Stripped(r)[n] /\ crc[n] = r.base.crc[n]
         /\ users[n] = IF r.pc = "cache" /\ n = r.target THEN Stripped(r)[n] ELSE Was(r, n)

ServesSettings(r) ==
    /\ AcceptedAdmin(r, cookie[r.b])
    /\ r.about = cookie[r.b].username /\ r.ends = None /\ r.spends = {} /\ r.del = None
    /\ \/ /\ r.pc = "settings" /\ ~r.begun
          /\ users = r.base.users /\ crc = r.base.crc /\ passkeysOn = r.base.on
       \/ /\ r.pc = "reply" /\ r.begun /\ ~(r.base.on /\ ~r.on)
          /\ users = r.base.users /\ crc = r.base.crc /\ passkeysOn = r.on
          /\ r.reply = "keep" /\ r.saves = Nothing
       \/ /\ r.pc \in {"write", "cache", "reply"} /\ r.begun /\ r.base.on /\ ~r.on
          /\ passkeysOn = r.on /\ r.reply = "reread"
          /\ r.pc = "reply" => r.saves = Nothing
          /\ \A n \in Names : StrippedSoFar(r, n)

Serves(r) ==
    /\ r.spends \cap spent = {}
    /\ \E n \in Names : Was(r, n) # None
    /\ ServesAccount(r) \/ ServesSettings(r)

AllServe == \A j \in InFlight : Serves(job[j])

-----------------------------------------------------------------------------
(* The step of Accounts that a handler takes when it answers, or when the  *)
(* process ends and it is done with the store.                             *)

BaseIs(r) ==
    Base.users = r.base.users /\ Base.crc = r.base.crc /\ Base.on = r.base.on

Becomes(U, C, on) == Base.users' = U /\ Base.crc' = C /\ Base.on' = on

Answered(r, t, u) ==
    \/ cookie' = cookie
    \/ r.reply \in {"login", "refresh"} /\ cookie' = [cookie EXCEPT ![r.b] = CookieFor(t, u)]
    \/ r.reply = "clear" /\ cookie' = [cookie EXCEPT ![r.b] = None]

(* Sessions of the account n, as it was when the job began.                *)
SessionsWere(r, n) ==
    IF n = None THEN {}
    ELSE {b \in Browsers : /\ cookie[b] # None
                           /\ cookie[b].username = n
                           /\ cookie[b].hash.user.pw = Was(r, n).pw}

Takes(r, d, t, u) ==
    /\ Becomes(With(Without(r.base.users, d), t, u),
               With(Without(r.base.crc, d), t, Digest(t, u)), r.base.on)
    /\ Answered(r, t, u)
    /\ spent' = spent \cup r.spends
    /\ revoked' = IF r.reply = "login" /\ cookie' # cookie THEN revoked \ {r.b}
                  ELSE revoked \cup SessionsWere(r, r.ends)

LEMMA ADefs ==
    ASSUME NEW n, NEW u
    PROVE  /\ A!Digest(n, u) = Digest(n, u)
           /\ A!CookieFor(n, u) = CookieFor(n, u)
           /\ A!NoPasskeys = NoPasskeys
           /\ A!HasPasskeys(u) <=> HasPasskeys(u)
BY DEF A!Digest, Digest, A!CookieFor, CookieFor, A!NoPasskeys, NoPasskeys,
   A!HasPasskeys, HasPasskeys

LEMMA AGuards ==
    ASSUME NEW r, BaseIs(r), NEW b \in Browsers, NEW n
    PROVE  /\ A!NeedsAdmin(b) <=> AcceptedAdmin(r, cookie[b])
           /\ A!MayActFor(b, n) <=> MayTouch(r, cookie[b], n)
           /\ A!Me(b) = cookie[b].username
           /\ A!Exists(n) <=> Was(r, n) # None
           /\ Base.users[n] = Was(r, n)
BY DEF A!NeedsAdmin, A!MayActFor, A!ValidSession, A!Me, A!Exists, AcceptedAdmin, MayTouch, Accepted,
       BaseIs, Was

LEMMA AActiveAdmins ==
    ASSUME NEW r, BaseIs(r), NEW n \in Names, AnotherActiveAdmin(r, n)
    PROVE  A!ActiveAdmins \ {n} # {}
BY DEF A!ActiveAdmins, A!Exists, BaseIs, Was, AnotherActiveAdmin

(* Changing one record, seen from Accounts.                                *)
LEMMA ASaves ==
    ASSUME NEW r \in Job, BaseIs(r), NEW t \in Names, NEW u,
           Takes(r, None, t, u)
    PROVE  A!SaveUser(t, u) /\ Base.on' = Base.on
<1>1. PICK U : U = r.base.users
  OBVIOUS
<1>2. PICK C : C = r.base.crc
  OBVIOUS
<1>3. U \in [Names -> User \cup {None}] /\ C \in [Names -> Hash \cup {None}]
  BY <1>1, <1>2 DEF Job
<1>4. With(Without(U, None), t, u) = [U EXCEPT ![t] = u]
  BY <1>3, NoneIsNoJob DEF With, Without
<1>5. With(Without(C, None), t, Digest(t, u)) = [C EXCEPT ![t] = Digest(t, u)]
  BY <1>3, NoneIsNoJob DEF With, Without
<1> QED
  BY <1>1, <1>2, <1>4, <1>5, ADefs DEF Takes, Becomes, BaseIs, A!SaveUser

(* What the caller receives, and whose sessions end.                       *)
LEMMA ARefreshes ==
    ASSUME NEW r \in Job, NEW d, NEW t \in Names, NEW u, Takes(r, d, t, u),
           r.reply = IF t = cookie[r.b].username THEN "refresh" ELSE "keep"
    PROVE  A!RefreshIfSelf(r.b, t, u)
<1>1. PICK c : c = CookieFor(t, u)
  OBVIOUS
<1>2. A!CookieFor(t, u) = c
  BY <1>1, ADefs
<1> QED
  BY <1>1, <1>2 DEF Takes, Answered, A!RefreshIfSelf, A!Me, A!SetUser, A!Receives

LEMMA AClears ==
    ASSUME NEW r \in Job, NEW d, NEW t, NEW u, NEW n \in Names, Takes(r, d, t, u),
           r.reply = IF n = cookie[r.b].username THEN "clear" ELSE "keep"
    PROVE  A!ClearIfSelf(r.b, n)
BY DEF Takes, Answered, A!ClearIfSelf, A!Me, A!ClearSession, A!Receives

LEMMA ARevokes ==
    ASSUME NEW r, BaseIs(r), NEW d, NEW t, NEW u, Takes(r, d, t, u), r.reply # "login"
    PROVE  /\ r.ends = None => revoked' = revoked
           /\ r.ends \in Names => A!Revoke(r.ends)
<1>1. revoked' = revoked \cup SessionsWere(r, r.ends)
  BY DEF Takes
<1>2. ASSUME r.ends \in Names PROVE SessionsWere(r, r.ends) = A!SessionsOf(r.ends)
  BY <1>2, NoneIsNoJob DEF SessionsWere, A!SessionsOf, BaseIs, Was
<1> QED
  BY <1>1, <1>2 DEF SessionsWere, A!Revoke

LEMMA ALogin ==
    ASSUME NEW r \in Job, BaseIs(r), NEW d, NEW t, NEW u,
           WantsLogin(r, cookie[r.b], d, t, u), Takes(r, d, t, u)
    PROVE  A!Next
<1>1. PICK b \in Browsers : b = r.b
  BY DEF Job
<1>2. PICK U : U = r.base.users
  OBVIOUS
<1>3. U \in [Names -> User \cup {None}]
  BY <1>2 DEF Job
<1>4. d = None /\ t \in Names /\ u = U[t] /\ u # None /\ ~u.disabled
  BY <1>2 DEF WantsLogin, Was
<1>5. A!SaveUser(t, u) /\ Base.on' = Base.on
  BY <1>4, ASaves
<1>6. [U EXCEPT ![t] = u] = U
  BY <1>3, <1>4
<1>7. Base.users' = Base.users /\ Base.crc' = [Base.crc EXCEPT ![t] = Digest(t, u)]
  BY <1>2, <1>5, <1>6, ADefs DEF A!SaveUser, BaseIs
<1>8. Base.users[t] = u /\ A!Exists(t)
  BY <1>2, <1>4 DEF BaseIs, A!Exists
<1>9. r.reply = "login" /\ r.ends = None /\ r.spends = {}
  BY DEF WantsLogin
<1>10. spent' = spent
  BY <1>9 DEF Takes
<1>11. A!SetUser(b, t, u)
  <2>1. cookie' \in {cookie, [cookie EXCEPT ![b] = CookieFor(t, u)]}
    BY <1>1, <1>9 DEF Takes, Answered
  <2> QED
    BY <2>1, ADefs DEF A!SetUser, A!Receives
<1>12. revoked' = IF cookie' = cookie THEN revoked ELSE revoked \ {b}
  <2>1. SessionsWere(r, None) = {}
    BY DEF SessionsWere
  <2> QED
    BY <1>1, <1>9, <2>1 DEF Takes
<1>13. A!SetLoginSession(b, t)
  BY <1>5, <1>7, <1>8, <1>10, <1>11, <1>12, ADefs DEF A!SetLoginSession
<1>14. A!Login(b, t)
  BY <1>4, <1>8, <1>13 DEF A!Login
<1> QED
  BY <1>4, <1>14 DEF A!Next

LEMMA ACreate ==
    ASSUME NEW r \in Job, BaseIs(r), NEW d, NEW t, NEW u, r.spends \cap spent = {},
           WantsCreate(r, cookie[r.b], d, t, u), Takes(r, d, t, u)
    PROVE  A!Next
<1>1. PICK b \in Browsers : b = r.b
  BY DEF Job
<1>2. PICK pw \in PwHashes, adm \in BOOLEAN, prof \in Profiles :
         /\ u = [pw |-> pw, admin |-> adm, disabled |-> FALSE, epoch |-> 0,
                 profile |-> prof, passkeys |-> NoPasskeys]
         /\ r.spends = {pw}
  BY DEF WantsCreate
<1>3. d = None /\ t \in Names /\ r.reply = "keep" /\ r.ends = None
  BY DEF WantsCreate
<1>4. A!NeedsAdmin(b) /\ ~A!Exists(t)
  BY <1>1, AGuards DEF WantsCreate
<1>5. A!SaveUser(t, u) /\ Base.on' = Base.on
  BY <1>3, ASaves
<1>6. cookie' = cookie /\ revoked' = revoked
  BY <1>3, ARevokes DEF Takes, Answered
<1>7. spent' = spent \cup {pw} /\ pw \in PwHashes \ spent
  BY <1>2 DEF Takes
<1>8. A!CreateUser(b, t, pw, adm, prof)
  BY <1>2, <1>4, <1>5, <1>6, <1>7, ADefs DEF A!CreateUser
<1> QED
  BY <1>3, <1>7, <1>8 DEF A!Next

LEMMA ARemove ==
    ASSUME NEW r \in Job, BaseIs(r), NEW d, NEW t, NEW u,
           WantsRemove(r, cookie[r.b], d, t, u), Takes(r, d, t, u)
    PROVE  A!Next
<1>1. PICK b \in Browsers : b = r.b
  BY DEF Job
<1>2. PICK U : U = r.base.users
  OBVIOUS
<1>3. PICK C : C = r.base.crc
  OBVIOUS
<1>4. U \in [Names -> User \cup {None}] /\ C \in [Names -> Hash \cup {None}]
  BY <1>2, <1>3 DEF Job
<1>5. d \in Names /\ t = None /\ r.reply = "keep" /\ r.ends = d /\ r.spends = {}
  BY DEF WantsRemove
<1>6. A!NeedsAdmin(b) /\ A!Exists(d) /\ ~Base.users[d].admin /\ d # A!Me(b)
  BY <1>1, AGuards DEF WantsRemove
<1>7. With(Without(U, d), None, u) = [U EXCEPT ![d] = None]
  BY <1>4, <1>5, NoneIsNoJob DEF With, Without
<1>8. With(Without(C, d), None, Digest(t, u)) = [C EXCEPT ![d] = None]
  BY <1>4, <1>5, NoneIsNoJob DEF With, Without
<1>9. /\ Base.users' = [Base.users EXCEPT ![d] = None]
      /\ Base.crc' = [Base.crc EXCEPT ![d] = None]
      /\ Base.on' = Base.on
  BY <1>2, <1>3, <1>5, <1>7, <1>8 DEF Takes, Becomes, BaseIs
<1>10. cookie' = cookie /\ A!Revoke(d) /\ spent' = spent
  BY <1>5, ARevokes DEF Takes, Answered
<1>11. A!RemoveUser(b, d)
  BY <1>6, <1>9, <1>10 DEF A!RemoveUser
<1> QED
  BY <1>5, <1>11 DEF A!Next

LEMMA AUpdate ==
    ASSUME NEW r \in Job, BaseIs(r), NEW d, NEW t, NEW u, r.spends \cap spent = {},
           WantsUpdate(r, cookie[r.b], d, t, u), MayDemote(r, u), u \in User, Takes(r, d, t, u)
    PROVE  A!Next
<1>1. PICK b \in Browsers : b = r.b
  BY DEF Job
<1>2. PICK U : U = r.base.users
  OBVIOUS
<1>3. PICK C : C = r.base.crc
  OBVIOUS
<1>4. U \in [Names -> User \cup {None}] /\ C \in [Names -> Hash \cup {None}]
  BY <1>2, <1>3 DEF Job
<1>5. PICK ck : ck = cookie[b]
  OBVIOUS
<1>6. PICK pw \in PwHashes \cup {None}, adm \in BOOLEAN, prof \in Profiles :
          /\ u = [Was(r, d) EXCEPT
                    !.pw = IF pw = None THEN @ ELSE pw,
                    !.admin = IF d = ck.username THEN @ ELSE ck.admin /\ adm,
                    !.profile = prof]
          /\ r.reply = IF d # ck.username THEN "keep"
                       ELSE IF pw = None THEN "refresh" ELSE "clear"
          /\ r.ends = IF pw = None THEN None ELSE d
          /\ r.spends = {pw} \ {None}
  BY <1>1, <1>5 DEF WantsUpdate, Edited
<1>7. d \in Names /\ t \in Names /\ Was(r, d) # None /\ r.about = d /\ (t # d => Was(r, t) = None)
  BY DEF WantsUpdate
<1>8. A!MayActFor(b, d) /\ A!Exists(d) /\ (t # d => ~A!Exists(t))
  <2>1. MayTouch(r, ck, d)
    BY <1>1, <1>5 DEF WantsUpdate
  <2> QED
    BY <1>5, <1>7, <2>1, AGuards
<1>9. u = A!UpdatedUser(b, d, pw, adm, prof)
  BY <1>5, <1>6, AGuards DEF A!UpdatedUser
<1>10. ~u.admin => A!EnsureCanDemote(d)
  <2>1. ASSUME ~u.admin, Base.users[d].admin PROVE A!ActiveAdmins \ {d} # {}
    <3>1. AnotherActiveAdmin(r, d)
      BY <1>7, <2>1, AGuards, NoneIsNoValue, NoneIsNoJob DEF MayDemote
    <3> QED
      BY <1>7, <3>1, AActiveAdmins
  <2> QED
    BY <2>1 DEF A!EnsureCanDemote
<1>11. With(Without(U, d), t, u) = [U EXCEPT ![d] = None, ![t] = u]
  BY <1>4, <1>7 DEF With, Without
<1>12. With(Without(C, d), t, Digest(t, u)) = [C EXCEPT ![d] = None, ![t] = Digest(t, u)]
  BY <1>4, <1>7 DEF With, Without
<1>13. /\ Base.users' = [Base.users EXCEPT ![d] = None, ![t] = u]
       /\ Base.crc' = [Base.crc EXCEPT ![d] = None, ![t] = A!Digest(t, u)]
       /\ Base.on' = Base.on
  BY <1>2, <1>3, <1>11, <1>12, ADefs DEF Takes, Becomes, BaseIs
<1>14. spent' = IF pw = None THEN spent ELSE spent \cup {pw}
  BY <1>6 DEF Takes
<1>15. IF d # A!Me(b) THEN UNCHANGED cookie
       ELSE IF pw # None THEN A!ClearSession(b)
       ELSE A!SetUser(b, t, u)
  <2>1. A!Me(b) = ck.username
    BY <1>5 DEF A!Me
  <2>2. CASE d # ck.username
    BY <1>6, <2>1, <2>2 DEF Takes, Answered
  <2>3. CASE d = ck.username /\ pw # None
    BY <1>1, <1>6, <2>1, <2>3 DEF Takes, Answered, A!ClearSession, A!Receives
  <2>4. CASE d = ck.username /\ pw = None
    BY <1>1, <1>6, <2>1, <2>4, ADefs DEF Takes, Answered, A!SetUser, A!Receives
  <2> QED
    BY <2>2, <2>3, <2>4
<1>16. IF pw # None THEN A!Revoke(d) ELSE UNCHANGED revoked
  <2>1. r.reply # "login"
    BY <1>6
  <2> QED
    BY <1>6, <1>7, <2>1, ARevokes
<1>17. pw \in (PwHashes \ spent) \cup {None}
  BY <1>6
<1>18. A!UpdateUser(b, d, t, pw, adm, prof)
  BY <1>8, <1>9, <1>10, <1>13, <1>14, <1>15, <1>16 DEF A!UpdateUser
<1> QED
  BY <1>7, <1>17, <1>18 DEF A!Next

LEMMA AAdmin ==
    ASSUME NEW r \in Job, BaseIs(r), NEW d, NEW t, NEW u, MayDemote(r, u), u \in User,
           WantsAdmin(r, cookie[r.b], d, t, u), Takes(r, d, t, u)
    PROVE  A!Next
<1>1. PICK b \in Browsers : b = r.b
  BY DEF Job
<1>2. PICK ck : ck = cookie[b]
  OBVIOUS
<1>3. PICK adm \in BOOLEAN : (~adm => t # ck.username) /\ u = [Was(r, t) EXCEPT !.admin = adm]
  BY <1>1, <1>2 DEF WantsAdmin
<1>4. d = None /\ t \in Names /\ Was(r, t) # None /\ r.about = t /\ r.ends = None /\ r.spends = {}
  BY DEF WantsAdmin, WantsEdit
<1>5. r.reply = IF t = ck.username THEN "refresh" ELSE "keep"
  BY <1>1, <1>2 DEF WantsAdmin, WantsEdit
<1>6. A!NeedsAdmin(b) /\ A!Exists(t)
  BY <1>1, <1>4, AGuards DEF WantsAdmin
<1>7. ~adm => t # A!Me(b) /\ A!EnsureCanDemote(t)
  <2>1. ~adm => t # A!Me(b)
    BY <1>2, <1>3 DEF A!Me
  <2>2. ASSUME ~adm, Base.users[t].admin PROVE A!ActiveAdmins \ {t} # {}
    <3>1. Was(r, t) \in User
      BY <1>4 DEF Job, Was
    <3>2. ~u.admin
      BY <1>3, <2>2, <3>1 DEF User
    <3>3. Was(r, t).admin
      BY <2>2 DEF BaseIs, Was
    <3>4. AnotherActiveAdmin(r, t)
      BY <1>4, <3>2, <3>3, NoneIsNoValue, NoneIsNoJob DEF MayDemote
    <3> QED
      BY <1>4, <3>4, AActiveAdmins
  <2> QED
    BY <2>1, <2>2 DEF A!EnsureCanDemote
<1>8. A!SaveUser(t, u) /\ Base.on' = Base.on
  BY <1>4, ASaves
<1>9. A!RefreshIfSelf(b, t, u)
  BY <1>1, <1>2, <1>4, <1>5, ARefreshes
<1>10. spent' = spent /\ revoked' = revoked
  BY <1>4, <1>5, ARevokes DEF Takes
<1>11. u = [Base.users[t] EXCEPT !.admin = adm]
  BY <1>3 DEF BaseIs, Was
<1>12. A!SetUserAdmin(b, t, adm)
  BY <1>6, <1>7, <1>8, <1>9, <1>10, <1>11 DEF A!SetUserAdmin
<1> QED
  BY <1>4, <1>12 DEF A!Next

LEMMA ADisabled ==
    ASSUME NEW r \in Job, BaseIs(r), NEW d, NEW t, NEW u, MaySuspend(r, u), u \in User,
           WantsDisabled(r, cookie[r.b], d, t, u), Takes(r, d, t, u)
    PROVE  A!Next
<1>1. PICK b \in Browsers : b = r.b
  BY DEF Job
<1>2. PICK ck : ck = cookie[b]
  OBVIOUS
<1>3. PICK disabled \in BOOLEAN :
         /\ WantsEdit(r, ck, d, t, IF disabled THEN "clear" ELSE "refresh")
         /\ disabled => ~Was(r, t).disabled
         /\ u = [Was(r, t) EXCEPT !.disabled = disabled]
  BY <1>1, <1>2 DEF WantsDisabled
<1>4. d = None /\ t \in Names /\ Was(r, t) # None /\ r.about = t /\ r.ends = None /\ r.spends = {}
  BY DEF WantsDisabled, WantsEdit
<1>5. r.reply = IF t = ck.username THEN IF disabled THEN "clear" ELSE "refresh" ELSE "keep"
  BY <1>3 DEF WantsEdit
<1>6. A!NeedsAdmin(b) /\ A!Exists(t)
  BY <1>1, <1>4, AGuards DEF WantsDisabled
<1>7. A!SaveUser(t, u) /\ Base.on' = Base.on
  BY <1>4, ASaves
<1>8. spent' = spent /\ revoked' = revoked
  BY <1>4, <1>5, ARevokes DEF Takes
<1>9. u = [Base.users[t] EXCEPT !.disabled = disabled]
  BY <1>3 DEF BaseIs, Was
<1>10. CASE disabled
  <2>1. ASSUME Base.users[t].admin PROVE A!ActiveAdmins \ {t} # {}
    <3>1. Was(r, t) \in User
      BY <1>4 DEF Job, Was
    <3>2. u.disabled /\ ~Was(r, t).disabled
      BY <1>3, <1>10, <3>1 DEF User
    <3>3. Was(r, t).admin
      BY <2>1 DEF BaseIs, Was
    <3>4. AnotherActiveAdmin(r, t)
      BY <1>4, <3>2, <3>3, NoneIsNoValue, NoneIsNoJob DEF MaySuspend
    <3> QED
      BY <1>4, <3>4, AActiveAdmins
  <2>2. A!EnsureLeavingActiveAdminWhenDisabling(t)
    BY <2>1 DEF A!EnsureLeavingActiveAdminWhenDisabling
  <2>3. ~Base.users[t].disabled
    BY <1>3, <1>10 DEF BaseIs, Was
  <2>4. A!ClearIfSelf(b, t)
    BY <1>1, <1>2, <1>4, <1>5, <1>10, AClears
  <2>5. u = [Base.users[t] EXCEPT !.disabled = TRUE]
    BY <1>9, <1>10
  <2>6. A!DisableUser(b, t)
    BY <1>7, <2>2, <2>3, <2>4, <2>5 DEF A!DisableUser
  <2>7. A!SetUserDisabled(b, t, TRUE)
    BY <1>6, <1>7, <1>8, <2>6 DEF A!SetUserDisabled
  <2> QED
    BY <1>4, <2>7 DEF A!Next
<1>11. CASE ~disabled
  <2>1. A!RefreshIfSelf(b, t, u)
    BY <1>1, <1>2, <1>4, <1>5, <1>11, ARefreshes
  <2>2. u = [Base.users[t] EXCEPT !.disabled = FALSE]
    BY <1>9, <1>11
  <2>3. A!EnableUser(b, t)
    BY <1>7, <2>1, <2>2 DEF A!EnableUser
  <2>4. A!SetUserDisabled(b, t, FALSE)
    BY <1>6, <1>7, <1>8, <2>3 DEF A!SetUserDisabled
  <2> QED
    BY <1>4, <2>4 DEF A!Next
<1> QED
  BY <1>10, <1>11

LEMMA ARevoke ==
    ASSUME NEW r \in Job, BaseIs(r), NEW d, NEW t, NEW u,
           WantsRevoke(r, cookie[r.b], d, t, u), Takes(r, d, t, u)
    PROVE  A!Next
<1>1. PICK b \in Browsers : b = r.b
  BY DEF Job
<1>2. d = None /\ t \in Names /\ Was(r, t) # None /\ r.ends = t /\ r.spends = {}
  BY DEF WantsRevoke, WantsEdit
<1>3. r.reply = IF t = cookie[b].username THEN "clear" ELSE "keep"
  BY <1>1 DEF WantsRevoke, WantsEdit
<1>4. A!NeedsAdmin(b) /\ A!Exists(t)
  BY <1>1, <1>2, AGuards DEF WantsRevoke
<1>5. A!SaveUser(t, u) /\ Base.on' = Base.on
  BY <1>2, ASaves
<1>6. A!ClearIfSelf(b, t)
  BY <1>1, <1>2, <1>3, AClears
<1>7. A!Revoke(t) /\ spent' = spent
  BY <1>2, <1>3, ARevokes DEF Takes
<1>8. /\ ~Base.users[t].disabled /\ Base.users[t].epoch < MaxEpoch
      /\ u = [Base.users[t] EXCEPT !.epoch = @ + 1]
  BY DEF WantsRevoke, BaseIs, Was
<1>9. A!RevokeUserSessions(b, t)
  BY <1>4, <1>5, <1>6, <1>7, <1>8 DEF A!RevokeUserSessions
<1> QED
  BY <1>2, <1>9 DEF A!Next

LEMMA ARegister ==
    ASSUME NEW r \in Job, BaseIs(r), NEW d, NEW t, NEW u, r.spends \cap spent = {},
           WantsRegister(r, cookie[r.b], d, t, u), Takes(r, d, t, u)
    PROVE  A!Next
<1>1. PICK b \in Browsers : b = r.b
  BY DEF Job
<1>2. d = None /\ t \in Names /\ Was(r, t) # None /\ r.ends = None
  BY DEF WantsRegister, WantsEdit
<1>3. r.reply = IF t = cookie[b].username THEN "refresh" ELSE "keep"
  BY <1>1 DEF WantsRegister, WantsEdit
<1>4. PICK k \in Creds, l \in Labels :
         u = [Base.users[t] EXCEPT !.passkeys[k] = l] /\ r.spends = {k}
  BY DEF WantsRegister, BaseIs, Was
<1>5. Base.on /\ A!MayActFor(b, t) /\ A!Exists(t)
  BY <1>1, <1>2, AGuards DEF WantsRegister, BaseIs
<1>6. A!SaveUser(t, u) /\ Base.on' = Base.on
  BY <1>2, ASaves
<1>7. A!RefreshIfSelf(b, t, u)
  BY <1>1, <1>2, <1>3, ARefreshes
<1>8. revoked' = revoked /\ spent' = spent \cup {k} /\ k \in Creds \ spent
  BY <1>2, <1>3, <1>4, ARevokes DEF Takes
<1>9. A!PasskeyFinishRegister(b, t, k, l)
  BY <1>4, <1>5, <1>6, <1>7, <1>8 DEF A!PasskeyFinishRegister
<1> QED
  BY <1>2, <1>8, <1>9 DEF A!Next

LEMMA AForget ==
    ASSUME NEW r \in Job, BaseIs(r), NEW d, NEW t, NEW u,
           WantsForget(r, cookie[r.b], d, t, u), Takes(r, d, t, u)
    PROVE  A!Next
<1>1. PICK b \in Browsers : b = r.b
  BY DEF Job
<1>2. d = None /\ t \in Names /\ Was(r, t) # None /\ r.ends = t /\ r.spends = {}
  BY DEF WantsForget, WantsEdit
<1>3. r.reply = IF t = cookie[b].username THEN "clear" ELSE "keep"
  BY <1>1 DEF WantsForget, WantsEdit
<1>4. PICK k \in Creds :
         /\ Base.users[t].passkeys[k] # None
         /\ u = [Base.users[t] EXCEPT !.passkeys[k] = None, !.epoch = @ + 1]
  BY DEF WantsForget, BaseIs, Was
<1>5. Base.on /\ A!MayActFor(b, t) /\ A!Exists(t) /\ Base.users[t].epoch < MaxEpoch
  BY <1>1, <1>2, AGuards DEF WantsForget, BaseIs, Was
<1>6. A!SaveUser(t, u) /\ Base.on' = Base.on
  BY <1>2, ASaves
<1>7. A!ClearIfSelf(b, t)
  BY <1>1, <1>2, <1>3, AClears
<1>8. A!Revoke(t) /\ spent' = spent
  BY <1>2, <1>3, ARevokes DEF Takes
<1>9. A!PasskeyRemove(b, t, k)
  BY <1>4, <1>5, <1>6, <1>7, <1>8 DEF A!PasskeyRemove
<1> QED
  BY <1>2, <1>9 DEF A!Next

LEMMA ARename ==
    ASSUME NEW r \in Job, BaseIs(r), NEW d, NEW t, NEW u,
           WantsRename(r, cookie[r.b], d, t, u), Takes(r, d, t, u)
    PROVE  A!Next
<1>1. PICK b \in Browsers : b = r.b
  BY DEF Job
<1>2. d = None /\ t \in Names /\ Was(r, t) # None /\ r.ends = None /\ r.spends = {}
  BY DEF WantsRename, WantsEdit
<1>3. r.reply = IF t = cookie[b].username THEN "refresh" ELSE "keep"
  BY <1>1 DEF WantsRename, WantsEdit
<1>4. PICK k \in Creds, l \in Labels :
         Base.users[t].passkeys[k] # None /\ u = [Base.users[t] EXCEPT !.passkeys[k] = l]
  BY DEF WantsRename, BaseIs, Was
<1>5. Base.on /\ A!MayActFor(b, t) /\ A!Exists(t)
  BY <1>1, <1>2, AGuards DEF WantsRename, BaseIs
<1>6. A!SaveUser(t, u) /\ Base.on' = Base.on
  BY <1>2, ASaves
<1>7. A!RefreshIfSelf(b, t, u)
  BY <1>1, <1>2, <1>3, ARefreshes
<1>8. revoked' = revoked /\ spent' = spent
  BY <1>2, <1>3, ARevokes DEF Takes
<1>9. A!PasskeyRename(b, t, k, l)
  BY <1>4, <1>5, <1>6, <1>7, <1>8 DEF A!PasskeyRename
<1> QED
  BY <1>2, <1>9 DEF A!Next

(* A handler that is done, and answers or is cut short, is one step.       *)
LEMMA ATakes ==
    ASSUME NEW r \in Job, BaseIs(r), NEW d, NEW t, NEW u \in User \cup {None},
           r.spends \cap spent = {}, Wants(r, cookie[r.b], d, t, u),
           t \in Names => u \in User,
           MayDemote(r, u), MaySuspend(r, u), Takes(r, d, t, u)
    PROVE  A!Next
<1>1. CASE WantsLogin(r, cookie[r.b], d, t, u)
  BY <1>1, ALogin
<1>2. CASE WantsCreate(r, cookie[r.b], d, t, u)
  BY <1>2, ACreate
<1>3. CASE WantsUpdate(r, cookie[r.b], d, t, u)
  BY <1>3, AUpdate DEF WantsUpdate
<1>4. CASE WantsRemove(r, cookie[r.b], d, t, u)
  BY <1>4, ARemove
<1>5. CASE WantsAdmin(r, cookie[r.b], d, t, u)
  BY <1>5, AAdmin DEF WantsAdmin, WantsEdit
<1>6. CASE WantsDisabled(r, cookie[r.b], d, t, u)
  BY <1>6, ADisabled DEF WantsDisabled, WantsEdit
<1>7. CASE WantsRevoke(r, cookie[r.b], d, t, u)
  BY <1>7, ARevoke
<1>8. CASE WantsRegister(r, cookie[r.b], d, t, u)
  BY <1>8, ARegister
<1>9. CASE WantsForget(r, cookie[r.b], d, t, u)
  BY <1>9, AForget
<1>10. CASE WantsRename(r, cookie[r.b], d, t, u)
  BY <1>10, ARename
<1> QED
  BY <1>1, <1>2, <1>3, <1>4, <1>5, <1>6, <1>7, <1>8, <1>9, <1>10 DEF Wants

(* The settings page when it is done.                                      *)
StrippedUsers(r) == [n \in Names |-> IF Stripped(r)[n] = None THEN Was(r, n) ELSE Stripped(r)[n]]

StrippedCrc(r) ==
    [n \in Names |-> IF Stripped(r)[n] = None THEN r.base.crc[n] ELSE Digest(n, Stripped(r)[n])]

TakesSettings(r) ==
    /\ IF r.base.on /\ ~r.on
       THEN /\ Becomes(StrippedUsers(r), StrippedCrc(r), r.on)
            /\ cookie' \in {cookie, [cookie EXCEPT ![r.b] =
                  CookieFor(cookie[r.b].username, StrippedUsers(r)[cookie[r.b].username])]}
       ELSE Becomes(r.base.users, r.base.crc, r.on) /\ cookie' = cookie
    /\ spent' = spent
    /\ revoked' = revoked

LEMMA StrippedFacts ==
    ASSUME NEW r \in Job, NEW n \in Names
    PROVE  /\ Stripped(r)[n] \in User \cup {None}
           /\ Stripped(r)[n] # None <=> Was(r, n) # None /\ HasPasskeys(Was(r, n))
           /\ Stripped(r)[n] # None => Stripped(r)[n] = [Was(r, n) EXCEPT !.passkeys = NoPasskeys]
<1>1. PICK w : w = Was(r, n)
  OBVIOUS
<1>2. w \in User \cup {None}
  BY <1>1 DEF Job, Was
<1>3. Stripped(r)[n] = IF w # None /\ HasPasskeys(w)
                    THEN [w EXCEPT !.passkeys = NoPasskeys] ELSE None
  BY <1>1 DEF Stripped
<1>4. w # None => [w EXCEPT !.passkeys = NoPasskeys] \in User
  BY <1>2, Updates DEF Evolves
<1> QED
  BY <1>1, <1>3, <1>4, NoneIsNoValue

LEMMA ASettings ==
    ASSUME NEW r \in Job, BaseIs(r), AcceptedAdmin(r, cookie[r.b]), TakesSettings(r)
    PROVE  A!Next
<1>1. PICK b \in Browsers : b = r.b
  BY DEF Job
<1>2. PICK on \in BOOLEAN : on = r.on
  BY DEF Job
<1>3. A!NeedsAdmin(b)
  BY <1>1, AGuards
<1>4. CASE Base.on /\ ~on
  <2>1. /\ Base.users' = StrippedUsers(r) /\ Base.crc' = StrippedCrc(r) /\ Base.on' = on
        /\ cookie' \in {cookie, [cookie EXCEPT ![r.b] =
              CookieFor(cookie[r.b].username, StrippedUsers(r)[cookie[r.b].username])]}
    BY <1>2, <1>4 DEF TakesSettings, Becomes, BaseIs
  <2>2. PICK had : had = {n \in Names : A!Exists(n) /\ A!HasPasskeys(Base.users[n])}
    OBVIOUS
  <2>3. \A n \in Names : /\ n \in had <=> Stripped(r)[n] # None
                         /\ n \in had =>
                               Stripped(r)[n] = [Base.users[n] EXCEPT !.passkeys = A!NoPasskeys]
                         /\ Base.users[n] = Was(r, n) /\ Base.crc[n] = r.base.crc[n]
    BY <2>2, StrippedFacts, ADefs DEF A!Exists, BaseIs, Was
  <2>4. /\ Base.users' = [n \in Names |-> IF n \in had
                            THEN [Base.users[n] EXCEPT !.passkeys = A!NoPasskeys]
                            ELSE Base.users[n]]
        /\ Base.crc' = [n \in Names |-> IF n \in had
                            THEN A!Digest(n, [Base.users[n] EXCEPT !.passkeys = A!NoPasskeys])
                            ELSE Base.crc[n]]
    BY <2>1, <2>3, ADefs DEF StrippedUsers, StrippedCrc
  <2>5. A!ClearStoredPasskeysForAllUsers
    BY <2>2, <2>4 DEF A!ClearStoredPasskeysForAllUsers
  <2>6. A!SetUser(b, A!Me(b), Base.users'[A!Me(b)])
    <3>1. A!Me(b) = cookie[b].username
      BY DEF A!Me
    <3>2. PICK c : c = CookieFor(cookie[b].username, Base.users'[cookie[b].username])
      OBVIOUS
    <3>3. A!CookieFor(cookie[b].username, Base.users'[cookie[b].username]) = c
      BY <3>2, ADefs
    <3>4. cookie' \in {cookie, [cookie EXCEPT ![b] = c]}
      BY <1>1, <2>1, <3>2
    <3> QED
      BY <3>1, <3>3, <3>4 DEF A!SetUser, A!Receives
  <2>7. A!GlobalSettingSubmit(b, on)
    BY <1>3, <1>4, <2>1, <2>5, <2>6 DEF A!GlobalSettingSubmit, TakesSettings
  <2> QED
    BY <2>7 DEF A!Next
<1>5. CASE ~(Base.on /\ ~on)
  <2>1. /\ Base.users' = Base.users /\ Base.crc' = Base.crc /\ Base.on' = on
        /\ cookie' = cookie /\ spent' = spent /\ revoked' = revoked
    BY <1>2, <1>5 DEF TakesSettings, Becomes, BaseIs
  <2>2. A!GlobalSettingSubmit(b, on)
    BY <1>3, <1>5, <2>1 DEF A!GlobalSettingSubmit
  <2> QED
    BY <2>2 DEF A!Next
<1> QED
  BY <1>4, <1>5

-----------------------------------------------------------------------------
(* Every handler begins as one of them.                                    *)

BaseNow(r) == r.base.users = users /\ r.base.crc = crc /\ r.base.on = passkeysOn

LEMMA CallerExists ==
    ASSUME CacheInv, InFlight = {}, NEW b \in Browsers, ValidSession(b)
    PROVE  Me(b) \in Names /\ users[Me(b)] # None
<1>1. cookie[b] \in Cookie /\ Me(b) \in Names
  BY ExistsMe DEF CacheInv, Typed, StepsTypeOK
<1>2. crc[Me(b)] # None
  BY <1>1, NoneIsNoValue DEF ValidSession, Me, Cookie
<1> QED
  BY <1>1, <1>2 DEF CacheInv, CacheFollows, CacheMatches, Exists

LEMMA NowGuards ==
    ASSUME NEW r, BaseNow(r), NEW b, NEW n
    PROVE  /\ NeedsAdmin(b) => AcceptedAdmin(r, cookie[b]) /\ ValidSession(b)
           /\ MayActFor(b, n) => MayTouch(r, cookie[b], n) /\ ValidSession(b)
           /\ Was(r, n) = users[n]
           /\ Me(b) = cookie[b].username
BY DEF BaseNow, NeedsAdmin, MayActFor, ValidSession, Me, AcceptedAdmin, MayTouch, Accepted, Was

LEMMA FieldsFacts ==
    ASSUME NEW r, NEW b, NEW pc, NEW about, NEW del, NEW saves, NEW target, NEW reply, NEW ends,
           NEW spends, NEW on, Fields(r, b, pc, about, del, saves, target, reply, ends, spends, on)
    PROVE  BaseNow(r) /\ ~r.begun
BY DEF Fields, BaseNow

LEMMA ToSaveFacts ==
    /\ \A n \in Names : \A u : Saving(n, u) = ToSave(n, u)
    /\ Nothing = ToSave(None, None)
    /\ \A n \in Names, u \in User : ToSave(n, u) # Nothing
<1>1. \A n \in Names : \A u : Saving(n, u) = ToSave(n, u)
  BY DEF Saving, Nothing, ToSave
<1>2. Nothing = ToSave(None, None)
  BY NoneIsNoJob DEF Nothing, ToSave
<1>3. ASSUME NEW n \in Names, NEW u \in User PROVE ToSave(n, u) # Nothing
  <2>1. ToSave(n, u)[n] = u /\ Nothing[n] = None
    BY DEF ToSave, Nothing
  <2> QED
    BY <2>1, NoneIsNoValue
<1> QED
  BY <1>1, <1>2, <1>3

(* Nothing is done yet.                                                    *)
LEMMA ProgressStart ==
    ASSUME TypeOK, NEW r \in Job, BaseNow(r), ~r.begun,
           NEW d \in Names \cup {None}, NEW t \in Names \cup {None}, NEW u,
           r.pc \in {"demote", "disable", "drop", "write"}, r.pc = "write" => d = None,
           r.del = d, r.saves = ToSave(t, u)
    PROVE  Progress(r, d, t, u)
<1>1. Without(users, None) = users /\ Without(crc, None) = crc
  BY NoneIsNoJob DEF Without, TypeOK
<1> QED
  BY <1>1 DEF Progress, BaseNow

LEMMA ServesStart ==
    ASSUME TypeOK, NEW r \in Job, BaseNow(r), ~r.begun,
           NEW d \in Names \cup {None}, NEW t \in Names \cup {None}, NEW u \in User \cup {None},
           r.pc \in {"demote", "disable", "drop", "write"}, r.pc = "write" => d = None,
           r.del = d, r.saves = ToSave(t, u), t # None => u # None,
           Wants(r, cookie[r.b], d, t, u),
           r.pc # "demote" => MayDemote(r, u),
           r.pc # "disable" => MaySuspend(r, u)
    PROVE  ServesAccount(r)
<1>1. Progress(r, d, t, u)
  BY ProgressStart
<1>2. passkeysOn = r.base.on
  BY DEF BaseNow
<1> HIDE DEF Progress, Wants
<1> QED
  BY <1>1, <1>2 DEF ServesAccount

LEMMA ServesLogin ==
    ASSUME CacheInv, NEW r \in Job, NEW b \in Browsers, NEW n \in Names, r.b = b,
           AskedLogin(r, b, n)
    PROVE  ServesAccount(r) /\ users[n] # None /\ r.spends = {}
<1>1. PICK u \in User : u = users[n]
  BY DEF AskedLogin
<1>2. BaseNow(r) /\ ~r.begun
  BY FieldsFacts DEF AskedLogin
<1>3. /\ r.pc = "cache" /\ r.target = n /\ r.reply = "login" /\ r.ends = None /\ r.spends = {}
      /\ r.about = None /\ r.del = None /\ r.saves = ToSave(n, u) /\ ~u.disabled /\ u # None
  BY <1>1, ToSaveFacts, NoneIsNoValue DEF AskedLogin, Fields
<1>4. Wants(r, cookie[r.b], None, n, u)
  BY <1>1, <1>2, <1>3, NowGuards DEF WantsLogin, Wants
<1>5. MayDemote(r, u) /\ MaySuspend(r, u)
  BY <1>3 DEF MayDemote, MaySuspend
<1>6. Without(users, None) = users /\ Without(crc, None) = crc /\ With(users, n, u) = users
  BY <1>1, NoneIsNoJob DEF With, Without, CacheInv, Typed, StepsTypeOK, TypeOK
<1>7. Progress(r, None, n, u)
  BY <1>2, <1>3, <1>6, NoneIsNoJob DEF Progress, BaseNow
<1>8. passkeysOn = r.base.on
  BY <1>2 DEF BaseNow
<1>9. ServesAccount(r)
  <2> HIDE DEF Progress, Wants
  <2> QED
    BY <1>3, <1>4, <1>5, <1>7, <1>8 DEF ServesAccount
<1> QED
  BY <1>1, <1>3, <1>9

LEMMA ServesCreate ==
    ASSUME CacheInv, NEW r \in Job, NEW b \in Browsers, NEW n \in Names, r.b = b,
           NEW pw \in PwHashes, NEW adm \in BOOLEAN, NEW prof \in Profiles,
           AskedCreateUser(r, b, n, pw, adm, prof)
    PROVE  ServesAccount(r) /\ ValidSession(b) /\ r.spends = {pw}
<1>1. PICK u : u = [pw |-> pw, admin |-> adm, disabled |-> FALSE, epoch |-> 0,
                    profile |-> prof, passkeys |-> NoPasskeys]
  OBVIOUS
<1>2. u \in User /\ u # None
  BY <1>1, NoneIsNoValue DEF AskedCreateUser
<1>3. BaseNow(r) /\ ~r.begun
  BY FieldsFacts DEF AskedCreateUser
<1>4. /\ r.pc = "write" /\ r.reply = "keep" /\ r.ends = None /\ r.spends = {pw}
      /\ r.about = None /\ r.del = None /\ r.saves = ToSave(n, u)
  BY <1>1, ToSaveFacts DEF AskedCreateUser, Fields
<1>5. AcceptedAdmin(r, cookie[r.b]) /\ ValidSession(b) /\ Was(r, n) = None
  BY <1>3, NowGuards DEF AskedCreateUser, Exists
<1>6. Wants(r, cookie[r.b], None, n, u)
  BY <1>1, <1>4, <1>5 DEF WantsCreate, Wants
<1>7. MayDemote(r, u) /\ MaySuspend(r, u)
  BY <1>4 DEF MayDemote, MaySuspend
<1>8. ServesAccount(r)
  <2> HIDE DEF Wants, MayDemote, MaySuspend
  <2> QED
    BY <1>2, <1>3, <1>4, <1>6, <1>7, ServesStart DEF CacheInv, Typed, StepsTypeOK
<1> QED
  BY <1>4, <1>5, <1>8

LEMMA ServesUpdate ==
    ASSUME CacheInv, NEW r \in Job, NEW b \in Browsers, NEW d \in Names, NEW n \in Names, r.b = b,
           NEW pw \in PwHashes \cup {None}, NEW adm \in BOOLEAN, NEW prof \in Profiles,
           AskedUpdateUser(r, b, d, n, pw, adm, prof)
    PROVE  ServesAccount(r) /\ ValidSession(b) /\ r.spends = {pw} \ {None}
<1>1. PICK u : u = UpdatedUser(b, d, pw, adm, prof)
  OBVIOUS
<1>2. u \in User /\ u # None /\ users[d] \in User
  BY <1>1, NoneIsNoValue DEF AskedUpdateUser, Exists, CacheInv, Typed, StepsTypeOK, TypeOK
<1>3. BaseNow(r) /\ ~r.begun
  BY FieldsFacts DEF AskedUpdateUser
<1>4. PICK ck : ck = cookie[b]
  OBVIOUS
<1>5. /\ r.pc = IF users[d].admin /\ ~u.admin THEN "demote" ELSE "drop"
      /\ r.reply = IF d # ck.username THEN "keep" ELSE IF pw = None THEN "refresh" ELSE "clear"
      /\ r.ends = IF pw = None THEN None ELSE d
      /\ r.spends = {pw} \ {None}
      /\ r.about = d /\ r.del = d /\ r.saves = ToSave(n, u)
  BY <1>1, <1>4, ToSaveFacts DEF AskedUpdateUser, Fields, IfSelf, Me
<1>6. /\ MayTouch(r, ck, d) /\ ValidSession(b) /\ Was(r, d) = users[d] /\ Was(r, d) # None
      /\ n # d => Was(r, n) = None
  BY <1>3, <1>4, NowGuards DEF AskedUpdateUser, Exists
<1>7. u = [Was(r, d) EXCEPT
              !.pw = IF pw = None THEN @ ELSE pw,
              !.admin = IF d = ck.username THEN @ ELSE ck.admin /\ adm,
              !.profile = prof]
  BY <1>1, <1>4, <1>6 DEF UpdatedUser, Me
<1>8. WantsUpdate(r, ck, d, n, u)
  BY <1>5, <1>6, <1>7 DEF WantsUpdate, Edited
<1>9. r.pc # "demote" => MayDemote(r, u)
  BY <1>5, <1>6 DEF MayDemote
<1>10. MaySuspend(r, u)
  <2>1. u.disabled = users[d].disabled
    BY <1>2, <1>6, <1>7 DEF User
  <2> QED
    BY <1>5, <1>6, <2>1 DEF MaySuspend
<1>11. ServesAccount(r)
  <2>1. Wants(r, cookie[r.b], d, n, u)
    BY <1>4, <1>8 DEF Wants
  <2> HIDE DEF Wants, MayDemote, MaySuspend
  <2> QED
    BY <1>2, <1>3, <1>5, <1>9, <1>10, <2>1, ServesStart DEF CacheInv, Typed, StepsTypeOK
<1> QED
  BY <1>5, <1>6, <1>11

LEMMA ServesRemove ==
    ASSUME CacheInv, InFlight = {}, NEW r \in Job, NEW b \in Browsers, NEW n \in Names, r.b = b,
           AskedRemoveUser(r, b, n)
    PROVE  ServesAccount(r) /\ ValidSession(b) /\ r.spends = {}
<1>1. BaseNow(r) /\ ~r.begun
  BY FieldsFacts DEF AskedRemoveUser
<1>2. /\ r.pc = "drop" /\ r.reply = "keep" /\ r.ends = n /\ r.spends = {}
      /\ r.about = None /\ r.del = n /\ r.saves = ToSave(None, None)
  BY ToSaveFacts DEF AskedRemoveUser, Fields
<1>3. /\ AcceptedAdmin(r, cookie[r.b]) /\ ValidSession(b) /\ Was(r, n) = users[n]
      /\ Me(b) = cookie[b].username /\ \A m : Was(r, m) = users[m]
  BY <1>1, NowGuards DEF AskedRemoveUser
<1>4. Me(b) \in Names /\ users[Me(b)] # None
  BY <1>3, CallerExists
<1>5. Wants(r, cookie[r.b], n, None, None)
  BY <1>2, <1>3, <1>4 DEF AskedRemoveUser, Exists, WantsRemove, Wants
<1>6. MayDemote(r, None) /\ MaySuspend(r, None)
  BY <1>2 DEF MayDemote, MaySuspend
<1>7. ServesAccount(r)
  <2> HIDE DEF Wants, MayDemote, MaySuspend
  <2> QED
    BY <1>1, <1>2, <1>5, <1>6, ServesStart DEF CacheInv, Typed, StepsTypeOK
<1> QED
  BY <1>2, <1>3, <1>7

LEMMA ServesAdmin ==
    ASSUME CacheInv, NEW r \in Job, NEW b \in Browsers, NEW n \in Names, r.b = b,
           NEW adm \in BOOLEAN, AskedSetUserAdmin(r, b, n, adm)
    PROVE  ServesAccount(r) /\ ValidSession(b) /\ r.spends = {}
<1>1. PICK u : u = [users[n] EXCEPT !.admin = adm]
  OBVIOUS
<1>2. u \in User /\ u # None /\ users[n] \in User
  BY <1>1, NoneIsNoValue DEF AskedSetUserAdmin, Exists, CacheInv, Typed, StepsTypeOK, TypeOK
<1>3. BaseNow(r) /\ ~r.begun
  BY FieldsFacts DEF AskedSetUserAdmin
<1>4. /\ r.pc = IF users[n].admin /\ ~adm THEN "demote" ELSE "write"
      /\ r.reply = IF n = cookie[b].username THEN "refresh" ELSE "keep"
      /\ r.ends = None /\ r.spends = {} /\ r.about = n /\ r.del = None /\ r.saves = ToSave(n, u)
  BY <1>1, ToSaveFacts DEF AskedSetUserAdmin, Fields, IfSelf, Me
<1>5. /\ AcceptedAdmin(r, cookie[b]) /\ ValidSession(b)
      /\ Was(r, n) = users[n] /\ Was(r, n) # None
      /\ ~adm => n # cookie[b].username
  BY <1>3, NowGuards DEF AskedSetUserAdmin, Exists
<1>6. WantsAdmin(r, cookie[b], None, n, u)
  BY <1>1, <1>4, <1>5 DEF WantsAdmin, WantsEdit
<1>7. (u.admin <=> adm) /\ u.disabled = users[n].disabled
  BY <1>1, <1>2 DEF User
<1>8. r.pc # "demote" => MayDemote(r, u)
  BY <1>4, <1>5, <1>7 DEF MayDemote
<1>9. MaySuspend(r, u)
  BY <1>4, <1>5, <1>7 DEF MaySuspend
<1>10. ServesAccount(r)
  <2>1. Wants(r, cookie[r.b], None, n, u)
    BY <1>6 DEF Wants
  <2> HIDE DEF Wants, MayDemote, MaySuspend
  <2> QED
    BY <1>2, <1>3, <1>4, <1>8, <1>9, <2>1, ServesStart DEF CacheInv, Typed, StepsTypeOK
<1> QED
  BY <1>4, <1>5, <1>10

LEMMA ServesDisabled ==
    ASSUME CacheInv, NEW r \in Job, NEW b \in Browsers, NEW n \in Names, r.b = b,
           NEW disabled \in BOOLEAN, AskedSetUserDisabled(r, b, n, disabled)
    PROVE  ServesAccount(r) /\ ValidSession(b) /\ r.spends = {}
<1>1. PICK u : u = [users[n] EXCEPT !.disabled = disabled]
  OBVIOUS
<1>2. u \in User /\ u # None /\ users[n] \in User
  BY <1>1, NoneIsNoValue DEF AskedSetUserDisabled, Exists, CacheInv, Typed, StepsTypeOK, TypeOK
<1>3. BaseNow(r) /\ ~r.begun
  BY FieldsFacts DEF AskedSetUserDisabled
<1>4. /\ r.pc = IF disabled THEN "disable" ELSE "write"
      /\ r.reply = IF n # cookie[b].username THEN "keep"
                   ELSE IF disabled THEN "clear" ELSE "refresh"
      /\ r.ends = None /\ r.spends = {} /\ r.about = n /\ r.del = None /\ r.saves = ToSave(n, u)
  BY <1>1, ToSaveFacts DEF AskedSetUserDisabled, Fields, IfSelf, Me
<1>5. /\ AcceptedAdmin(r, cookie[b]) /\ ValidSession(b)
      /\ Was(r, n) = users[n] /\ Was(r, n) # None
      /\ disabled => ~Was(r, n).disabled
  BY <1>3, NowGuards DEF AskedSetUserDisabled, Exists
<1>6. WantsDisabled(r, cookie[b], None, n, u)
  BY <1>1, <1>4, <1>5 DEF WantsDisabled, WantsEdit
<1>7. u.admin = users[n].admin /\ (u.disabled <=> disabled)
  BY <1>1, <1>2 DEF User
<1>8. MayDemote(r, u)
  BY <1>4, <1>5, <1>7 DEF MayDemote
<1>9. r.pc # "disable" => MaySuspend(r, u)
  BY <1>4, <1>5, <1>7 DEF MaySuspend
<1>10. ServesAccount(r)
  <2>1. Wants(r, cookie[r.b], None, n, u)
    BY <1>6 DEF Wants
  <2> HIDE DEF Wants, MayDemote, MaySuspend
  <2> QED
    BY <1>2, <1>3, <1>4, <1>8, <1>9, <2>1, ServesStart DEF CacheInv, Typed, StepsTypeOK
<1> QED
  BY <1>4, <1>5, <1>10

(* The others check nothing later on.                                      *)
LEMMA ServesUnchecked ==
    ASSUME CacheInv, NEW r \in Job, BaseNow(r), ~r.begun, NEW n \in Names, NEW u \in User,
           r.pc = "write", r.about = None, r.del = None, r.saves = ToSave(n, u),
           Wants(r, cookie[r.b], None, n, u)
    PROVE  ServesAccount(r)
<1>1. MayDemote(r, u) /\ MaySuspend(r, u)
  BY DEF MayDemote, MaySuspend
<1> HIDE DEF Wants, MayDemote, MaySuspend
<1> QED
  BY <1>1, ServesStart, NoneIsNoValue DEF CacheInv, Typed, StepsTypeOK

LEMMA ServesRevoke ==
    ASSUME CacheInv, NEW r \in Job, NEW b \in Browsers, NEW n \in Names, r.b = b,
           AskedRevokeUserSessions(r, b, n)
    PROVE  ServesAccount(r) /\ ValidSession(b) /\ r.spends = {}
<1>1. PICK u \in User : u = [users[n] EXCEPT !.epoch = @ + 1]
  BY DEF AskedRevokeUserSessions
<1>2. BaseNow(r) /\ ~r.begun
  BY FieldsFacts DEF AskedRevokeUserSessions
<1>3. /\ r.pc = "write" /\ r.reply = IF n = cookie[b].username THEN "clear" ELSE "keep"
      /\ r.ends = n /\ r.spends = {} /\ r.about = None /\ r.del = None /\ r.saves = ToSave(n, u)
  BY <1>1, ToSaveFacts DEF AskedRevokeUserSessions, Fields, IfSelf, Me
<1>4. /\ AcceptedAdmin(r, cookie[b]) /\ ValidSession(b) /\ Was(r, n) = users[n]
      /\ Was(r, n) # None
  BY <1>2, NowGuards DEF AskedRevokeUserSessions, Exists
<1>5. Wants(r, cookie[r.b], None, n, u)
  BY <1>1, <1>3, <1>4 DEF AskedRevokeUserSessions, WantsRevoke, WantsEdit, Wants
<1> HIDE DEF Wants
<1> QED
  BY <1>2, <1>3, <1>4, <1>5, ServesUnchecked

LEMMA ServesRegister ==
    ASSUME CacheInv, NEW r \in Job, NEW b \in Browsers, NEW n \in Names, r.b = b,
           NEW k \in Creds, NEW l \in Labels, AskedPasskeyFinishRegister(r, b, n, k, l)
    PROVE  ServesAccount(r) /\ ValidSession(b) /\ r.spends = {k}
<1>1. PICK u \in User : u = [users[n] EXCEPT !.passkeys[k] = l]
  BY DEF AskedPasskeyFinishRegister
<1>2. BaseNow(r) /\ ~r.begun
  BY FieldsFacts DEF AskedPasskeyFinishRegister
<1>3. /\ r.pc = "write" /\ r.reply = IF n = cookie[b].username THEN "refresh" ELSE "keep"
      /\ r.ends = None /\ r.spends = {k} /\ r.about = None /\ r.del = None
      /\ r.saves = ToSave(n, u) /\ passkeysOn
  BY <1>1, ToSaveFacts DEF AskedPasskeyFinishRegister, Fields, IfSelf, Me
<1>4. /\ MayTouch(r, cookie[b], n) /\ ValidSession(b) /\ Was(r, n) = users[n]
      /\ Was(r, n) # None /\ r.base.on
  <2>1. MayActFor(b, n) /\ users[n] # None
    BY DEF AskedPasskeyFinishRegister, Exists
  <2>2. MayTouch(r, cookie[b], n) /\ ValidSession(b) /\ Was(r, n) = users[n]
    BY <1>2, <2>1, NowGuards
  <2>3. r.base.on
    BY <1>2, <1>3 DEF BaseNow
  <2> QED
    BY <2>1, <2>2, <2>3
<1>5. Wants(r, cookie[r.b], None, n, u)
  BY <1>1, <1>3, <1>4 DEF WantsRegister, WantsEdit, Wants
<1> HIDE DEF Wants
<1> QED
  BY <1>2, <1>3, <1>4, <1>5, ServesUnchecked

LEMMA ServesForget ==
    ASSUME CacheInv, NEW r \in Job, NEW b \in Browsers, NEW n \in Names, r.b = b,
           NEW k \in Creds, AskedPasskeyRemove(r, b, n, k)
    PROVE  ServesAccount(r) /\ ValidSession(b) /\ r.spends = {}
<1>1. PICK u \in User : u = [users[n] EXCEPT !.passkeys[k] = None, !.epoch = @ + 1]
  BY DEF AskedPasskeyRemove
<1>2. BaseNow(r) /\ ~r.begun
  BY FieldsFacts DEF AskedPasskeyRemove
<1>3. /\ r.pc = "write" /\ r.reply = IF n = cookie[b].username THEN "clear" ELSE "keep"
      /\ r.ends = n /\ r.spends = {} /\ r.about = None /\ r.del = None
      /\ r.saves = ToSave(n, u) /\ passkeysOn
  BY <1>1, ToSaveFacts DEF AskedPasskeyRemove, Fields, IfSelf, Me
<1>4. /\ MayTouch(r, cookie[b], n) /\ ValidSession(b) /\ Was(r, n) = users[n]
      /\ Was(r, n) # None /\ r.base.on
  <2>1. MayActFor(b, n) /\ users[n] # None
    BY DEF AskedPasskeyRemove, Exists
  <2>2. MayTouch(r, cookie[b], n) /\ ValidSession(b) /\ Was(r, n) = users[n]
    BY <1>2, <2>1, NowGuards
  <2>3. r.base.on
    BY <1>2, <1>3 DEF BaseNow
  <2> QED
    BY <2>1, <2>2, <2>3
<1>5. Wants(r, cookie[r.b], None, n, u)
  BY <1>1, <1>3, <1>4 DEF AskedPasskeyRemove, WantsForget, WantsEdit, Wants
<1> HIDE DEF Wants
<1> QED
  BY <1>2, <1>3, <1>4, <1>5, ServesUnchecked

LEMMA ServesRename ==
    ASSUME CacheInv, NEW r \in Job, NEW b \in Browsers, NEW n \in Names, r.b = b,
           NEW k \in Creds, NEW l \in Labels, AskedPasskeyRename(r, b, n, k, l)
    PROVE  ServesAccount(r) /\ ValidSession(b) /\ r.spends = {}
<1>1. PICK u \in User : u = [users[n] EXCEPT !.passkeys[k] = l]
  BY DEF AskedPasskeyRename
<1>2. BaseNow(r) /\ ~r.begun
  BY FieldsFacts DEF AskedPasskeyRename
<1>3. /\ r.pc = "write" /\ r.reply = IF n = cookie[b].username THEN "refresh" ELSE "keep"
      /\ r.ends = None /\ r.spends = {} /\ r.about = None /\ r.del = None
      /\ r.saves = ToSave(n, u) /\ passkeysOn
  BY <1>1, ToSaveFacts DEF AskedPasskeyRename, Fields, IfSelf, Me
<1>4. /\ MayTouch(r, cookie[b], n) /\ ValidSession(b) /\ Was(r, n) = users[n]
      /\ Was(r, n) # None /\ r.base.on
  <2>1. MayActFor(b, n) /\ users[n] # None
    BY DEF AskedPasskeyRename, Exists
  <2>2. MayTouch(r, cookie[b], n) /\ ValidSession(b) /\ Was(r, n) = users[n]
    BY <1>2, <2>1, NowGuards
  <2>3. r.base.on
    BY <1>2, <1>3 DEF BaseNow
  <2> QED
    BY <2>1, <2>2, <2>3
<1>5. Wants(r, cookie[r.b], None, n, u)
  BY <1>1, <1>3, <1>4 DEF AskedPasskeyRename, WantsRename, WantsEdit, Wants
<1> HIDE DEF Wants
<1> QED
  BY <1>2, <1>3, <1>4, <1>5, ServesUnchecked

LEMMA ServesGlobal ==
    ASSUME CacheInv, NEW r \in Job, NEW b \in Browsers, r.b = b,
           NEW on \in BOOLEAN, AskedGlobalSettingSubmit(r, b, on)
    PROVE  ServesSettings(r) /\ ValidSession(b) /\ r.spends = {}
<1>1. BaseNow(r) /\ ~r.begun
  BY FieldsFacts DEF AskedGlobalSettingSubmit
<1>2. /\ r.pc = "settings" /\ r.about = Me(b) /\ r.ends = None /\ r.spends = {} /\ r.del = None
  BY DEF AskedGlobalSettingSubmit, Fields
<1>3. AcceptedAdmin(r, cookie[b]) /\ ValidSession(b) /\ Me(b) = cookie[b].username
  BY <1>1, NowGuards DEF AskedGlobalSettingSubmit
<1> QED
  BY <1>1, <1>2, <1>3 DEF ServesSettings, BaseNow

LEMMA ServesAtStart ==
    ASSUME CacheInv, InFlight = {}, NEW r \in Job, BaseNow(r),
           ServesAccount(r) \/ ServesSettings(r),
           ValidSession(r.b) \/ \E n \in Names : users[n] # None,
           r.spends \cap spent = {}
    PROVE  Serves(r)
<1>1. \E n \in Names : users[n] # None
  <2>1. r.b \in Browsers
    BY DEF Job
  <2> QED
    BY <2>1, CallerExists
<1>2. \E n \in Names : Was(r, n) # None
  BY <1>1 DEF BaseNow, Was
<1> QED
  BY <1>2 DEF Serves

LEMMA BeginServes ==
    ASSUME CacheInv, InFlight = {}, NEW j \in Jobs, NEW b \in Browsers, BeginAny(j, b)
    PROVE  \E r \in Job : Begin(j, r) /\ BaseNow(r) /\ Serves(r)
<1> DEFINE Goal == \E r \in Job : Begin(j, r) /\ BaseNow(r) /\ Serves(r)
<1>1. StepsTypeOK
  BY DEF CacheInv, Typed
<1>2. Unused(PwHashes) = PwHashes \ spent /\ Unused(Creds) = Creds \ spent
  <2>1. UNION {job[i].spends : i \in {q \in Jobs : job[q] # None}} = {}
    BY DEF InFlight
  <2> QED
    BY <2>1 DEF Unused
<1>3. ASSUME NEW r \in Job, Begin(j, r), Opening(r), BaseNow(r), r.b = b,
             ServesAccount(r) \/ ServesSettings(r),
             ValidSession(b) \/ \E n \in Names : users[n] # None, r.spends \cap spent = {}
      PROVE  Goal
  BY <1>3, ServesAtStart
<1> HIDE DEF Goal
<1>4. ASSUME NEW n \in Names, BeginLogin(j, b, n) PROVE Goal
  <2>1. PICK r \in Job : Begin(j, r) /\ Opening(r) /\ r.b = b /\ AskedLogin(r, b, n)
    BY <1>1, <1>4, AskLogin
  <2> QED
    BY <1>3, <2>1, ServesLogin, FieldsFacts DEF AskedLogin
<1>5. ASSUME NEW n \in Names, BeginRemoveUser(j, b, n) PROVE Goal
  <2>1. PICK r \in Job : Begin(j, r) /\ Opening(r) /\ r.b = b /\ AskedRemoveUser(r, b, n)
    BY <1>1, <1>5, AskRemoveUser
  <2> QED
    BY <1>3, <2>1, ServesRemove, FieldsFacts DEF AskedRemoveUser
<1>6. ASSUME NEW n \in Names, BeginRevokeUserSessions(j, b, n) PROVE Goal
  <2>1. PICK r \in Job : Begin(j, r) /\ Opening(r) /\ r.b = b /\ AskedRevokeUserSessions(r, b, n)
    BY <1>1, <1>6, AskRevokeUserSessions
  <2> QED
    BY <1>3, <2>1, ServesRevoke, FieldsFacts DEF AskedRevokeUserSessions
<1>7. ASSUME NEW n \in Names, NEW adm \in BOOLEAN, BeginSetUserAdmin(j, b, n, adm) PROVE Goal
  <2>1. PICK r \in Job : Begin(j, r) /\ Opening(r) /\ r.b = b /\ AskedSetUserAdmin(r, b, n, adm)
    BY <1>1, <1>7, AskSetUserAdmin
  <2> QED
    BY <1>3, <2>1, ServesAdmin, FieldsFacts DEF AskedSetUserAdmin
<1>8. ASSUME NEW n \in Names, NEW disabled \in BOOLEAN, BeginSetUserDisabled(j, b, n, disabled)
      PROVE  Goal
  <2>1. PICK r \in Job :
           Begin(j, r) /\ Opening(r) /\ r.b = b /\ AskedSetUserDisabled(r, b, n, disabled)
    BY <1>1, <1>8, AskSetUserDisabled
  <2> QED
    BY <1>3, <2>1, ServesDisabled, FieldsFacts DEF AskedSetUserDisabled
<1>9. ASSUME NEW n \in Names, NEW pw \in PwHashes \ spent, NEW adm \in BOOLEAN,
             NEW prof \in Profiles,
             BeginCreateUser(j, b, n, pw, adm, prof)
      PROVE  Goal
  <2>1. PICK r \in Job :
           Begin(j, r) /\ Opening(r) /\ r.b = b /\ AskedCreateUser(r, b, n, pw, adm, prof)
    BY <1>1, <1>9, AskCreateUser
  <2>2. ServesAccount(r) /\ ValidSession(b) /\ r.spends \cap spent = {}
    BY <2>1, ServesCreate
  <2> QED
    BY <1>3, <2>1, <2>2, FieldsFacts DEF AskedCreateUser
<1>10. ASSUME NEW d \in Names, NEW n \in Names, NEW pw \in (PwHashes \ spent) \cup {None},
              NEW adm \in BOOLEAN, NEW prof \in Profiles, BeginUpdateUser(j, b, d, n, pw, adm, prof)
       PROVE  Goal
  <2>1. pw \in PwHashes \cup {None} /\ ({pw} \ {None}) \cap spent = {}
    OBVIOUS
  <2>2. PICK r \in Job :
           Begin(j, r) /\ Opening(r) /\ r.b = b /\ AskedUpdateUser(r, b, d, n, pw, adm, prof)
    BY <1>1, <1>10, <2>1, AskUpdateUser
  <2>3. ServesAccount(r) /\ ValidSession(b) /\ r.spends \cap spent = {}
    BY <2>1, <2>2, ServesUpdate
  <2>4. BaseNow(r)
    BY <2>2, FieldsFacts DEF AskedUpdateUser
  <2> QED
    BY <1>3, <2>2, <2>3, <2>4
<1>11. ASSUME NEW n \in Names, NEW k \in Creds \ spent, NEW l \in Labels,
              BeginPasskeyFinishRegister(j, b, n, k, l)
       PROVE  Goal
  <2>1. PICK r \in Job :
           Begin(j, r) /\ Opening(r) /\ r.b = b /\ AskedPasskeyFinishRegister(r, b, n, k, l)
    BY <1>1, <1>11, AskPasskeyFinishRegister
  <2>2. ServesAccount(r) /\ ValidSession(b) /\ r.spends \cap spent = {}
    BY <2>1, ServesRegister
  <2> QED
    BY <1>3, <2>1, <2>2, FieldsFacts DEF AskedPasskeyFinishRegister
<1>12. ASSUME NEW n \in Names, NEW k \in Creds, BeginPasskeyRemove(j, b, n, k) PROVE Goal
  <2>1. PICK r \in Job : Begin(j, r) /\ Opening(r) /\ r.b = b /\ AskedPasskeyRemove(r, b, n, k)
    BY <1>1, <1>12, AskPasskeyRemove
  <2> QED
    BY <1>3, <2>1, ServesForget, FieldsFacts DEF AskedPasskeyRemove
<1>13. ASSUME NEW n \in Names, NEW k \in Creds, NEW l \in Labels, BeginPasskeyRename(j, b, n, k, l)
       PROVE  Goal
  <2>1. PICK r \in Job : Begin(j, r) /\ Opening(r) /\ r.b = b /\ AskedPasskeyRename(r, b, n, k, l)
    BY <1>1, <1>13, AskPasskeyRename
  <2> QED
    BY <1>3, <2>1, ServesRename, FieldsFacts DEF AskedPasskeyRename
<1>14. ASSUME NEW on \in BOOLEAN, BeginGlobalSettingSubmit(j, b, on) PROVE Goal
  <2>1. PICK r \in Job : Begin(j, r) /\ Opening(r) /\ r.b = b /\ AskedGlobalSettingSubmit(r, b, on)
    BY <1>1, <1>14, AskGlobalSettingSubmit
  <2> QED
    BY <1>3, <2>1, ServesGlobal, FieldsFacts DEF AskedGlobalSettingSubmit
<1>15. Goal
  BY <1>2, <1>4, <1>5, <1>6, <1>7, <1>8, <1>9, <1>10, <1>11, <1>12, <1>13, <1>14 DEF BeginAny
<1> QED
  BY <1>15 DEF Goal

-----------------------------------------------------------------------------
(* Every step of a handler brings it further.                              *)

Same(r, v) ==
    /\ v.b = r.b /\ v.about = r.about /\ v.reply = r.reply /\ v.ends = r.ends
    /\ v.spends = r.spends /\ v.base = r.base

LEMMA WantsSame ==
    ASSUME NEW r, NEW v, Same(r, v), NEW ck, NEW d, NEW t, NEW u, Wants(r, ck, d, t, u)
    PROVE  Wants(v, ck, d, t, u)
<1>1. \A n : Was(v, n) = Was(r, n)
  BY DEF Same, Was
<1>2. /\ AcceptedAdmin(v, ck) <=> AcceptedAdmin(r, ck)
      /\ \A n : MayTouch(v, ck, n) <=> MayTouch(r, ck, n)
  BY DEF Same, AcceptedAdmin, MayTouch, Accepted
<1>3. CASE WantsLogin(r, ck, d, t, u)
  BY <1>1, <1>3 DEF Same, WantsLogin, Wants
<1>4. CASE WantsCreate(r, ck, d, t, u)
  BY <1>1, <1>2, <1>4 DEF Same, WantsCreate, Wants
<1>5. CASE WantsUpdate(r, ck, d, t, u)
  BY <1>1, <1>2, <1>5 DEF Same, WantsUpdate, Wants
<1>6. CASE WantsRemove(r, ck, d, t, u)
  BY <1>1, <1>2, <1>6 DEF Same, WantsRemove, Wants
<1>7. CASE WantsAdmin(r, ck, d, t, u)
  BY <1>1, <1>2, <1>7 DEF Same, WantsAdmin, WantsEdit, Wants
<1>8. CASE WantsDisabled(r, ck, d, t, u)
  BY <1>1, <1>2, <1>8 DEF Same, WantsDisabled, WantsEdit, Wants
<1>9. CASE WantsRevoke(r, ck, d, t, u)
  BY <1>1, <1>2, <1>9 DEF Same, WantsRevoke, WantsEdit, Wants
<1>10. CASE WantsRegister(r, ck, d, t, u)
  BY <1>1, <1>2, <1>10 DEF Same, WantsRegister, WantsEdit, Wants
<1>11. CASE WantsForget(r, ck, d, t, u)
  BY <1>1, <1>2, <1>11 DEF Same, WantsForget, WantsEdit, Wants
<1>12. CASE WantsRename(r, ck, d, t, u)
  BY <1>1, <1>2, <1>12 DEF Same, WantsRename, WantsEdit, Wants
<1> QED
  BY <1>3, <1>4, <1>5, <1>6, <1>7, <1>8, <1>9, <1>10, <1>11, <1>12 DEF Wants

LEMMA MaySame ==
    ASSUME NEW r, NEW v, Same(r, v), NEW u
    PROVE  /\ MayDemote(r, u) => MayDemote(v, u)
           /\ MaySuspend(r, u) => MaySuspend(v, u)
<1>1. \A n : Was(v, n) = Was(r, n)
  BY DEF Same, Was
<1>2. \A n : AnotherActiveAdmin(v, n) <=> AnotherActiveAdmin(r, n)
  BY <1>1 DEF AnotherActiveAdmin
<1> QED
  BY <1>1, <1>2 DEF Same, MayDemote, MaySuspend

(* A handler deletes a record that was there, saves one, or both.          *)
LEMMA WantsPlaces ==
    ASSUME NEW r, NEW ck, NEW d \in Names \cup {None}, NEW t \in Names \cup {None}, NEW u,
           Wants(r, ck, d, t, u)
    PROVE  /\ d # None => d \in Names /\ Was(r, d) # None
           /\ t # None => t \in Names
           /\ d # None \/ t # None
<1>1. (d # None => Was(r, d) # None) /\ (d \in Names \/ t \in Names)
  BY DEF Wants, WantsLogin, WantsCreate, WantsUpdate, WantsRemove, WantsAdmin, WantsDisabled,
         WantsRevoke, WantsRegister, WantsForget, WantsRename, WantsEdit
<1> QED
  BY <1>1, NoneIsNoJob

LEMMA ServedOn ==
    ASSUME NEW r, NEW v, Same(r, v), passkeysOn = r.base.on, UNCHANGED <<cookie, passkeysOn>>,
           NEW d \in Names \cup {None}, NEW t \in Names \cup {None}, NEW u \in User \cup {None},
           Wants(r, cookie[r.b], d, t, u), t # None => u # None,
           v.pc # "demote" => MayDemote(r, u), v.pc # "disable" => MaySuspend(r, u),
           Progress(v, d, t, u)'
    PROVE  ServesAccount(v)'
<1>1. Wants(v, cookie[v.b], d, t, u)'
  <2>1. cookie'[v.b] = cookie[r.b]
    BY DEF Same
  <2> QED
    BY <2>1, WantsSame
<1>2. (v.pc # "demote" => MayDemote(v, u)) /\ (v.pc # "disable" => MaySuspend(v, u))
  BY MaySame
<1>3. passkeysOn' = v.base.on
  BY DEF Same
<1> HIDE DEF Wants, Progress, MayDemote, MaySuspend
<1> QED
  BY <1>1, <1>2, <1>3 DEF ServesAccount

LEMMA Tables ==
    ASSUME NEW S, NEW f \in [Names -> S]
    PROVE  /\ Without(f, None) = f
           /\ \A x : With(f, None, x) = f
           /\ \A n \in Names : Without(f, n) = [f EXCEPT ![n] = None]
           /\ \A n \in Names : \A x : With(f, n, x) = [f EXCEPT ![n] = x]
BY NoneIsNoJob DEF Without, With

LEMMA BaseTables ==
    ASSUME NEW r \in Job
    PROVE  /\ r.base.users \in [Names -> User \cup {None}]
           /\ r.base.crc \in [Names -> Hash \cup {None}]
           /\ \A d : Without(r.base.users, d) \in [Names -> User \cup {None}]
           /\ \A d : Without(r.base.crc, d) \in [Names -> Hash \cup {None}]
BY DEF Job, Without

LEMMA DropServes ==
    ASSUME Typed, NEW j \in Jobs, DropFromCache(j), ServesAccount(job[j])
    PROVE  \E v \in Job : job' = [job EXCEPT ![j] = v] /\ Same(job[j], v) /\ ServesAccount(v)'
<1>1. PICK r : r = job[j]
  OBVIOUS
<1>2. r \in Job /\ Ready(r) /\ r.pc = "drop"
  BY <1>1, JobAt DEF DropFromCache, At
<1>3. PICK d \in Names \cup {None}, t \in Names \cup {None}, u \in User \cup {None} :
         /\ Wants(r, cookie[r.b], d, t, u) /\ (t # None => u # None)
         /\ MayDemote(r, u) /\ MaySuspend(r, u) /\ Progress(r, d, t, u)
  BY <1>1, <1>2 DEF ServesAccount
<1>4. PICK v : v = [r EXCEPT !.pc = "delete"]
  OBVIOUS
<1>5. /\ v \in Job /\ v.pc = "delete" /\ v.del = r.del /\ v.saves = r.saves
      /\ v.begun = r.begun /\ Same(r, v)
  <2>1. "delete" \in Places
    BY DEF Places
  <2> QED
    BY <1>2, <1>4, <2>1, GotoFields DEF Same
<1>6. job' = [job EXCEPT ![j] = v]
  BY <1>1, <1>4 DEF DropFromCache, Goto
<1>7. /\ users = r.base.users /\ crc = r.base.crc /\ ~r.begun
      /\ r.del = d /\ d \in Names /\ r.saves = ToSave(t, u)
  BY <1>2, <1>3 DEF Progress, Ready
<1>8. users' = r.base.users /\ crc' = Without(r.base.crc, d)
  <2>1. users' = users /\ crc' = [crc EXCEPT ![d] = None]
    BY <1>1, <1>7 DEF DropFromCache
  <2>2. PICK C \in [Names -> Hash \cup {None}] : C = r.base.crc
    BY <1>2, BaseTables
  <2>3. crc' = Without(C, d)
    BY <1>7, <2>1, <2>2 DEF Without
  <2> QED
    BY <1>7, <2>1, <2>2, <2>3
<1>9. Progress(v, d, t, u)'
  BY <1>5, <1>7, <1>8 DEF Progress, Same
<1>10. passkeysOn = r.base.on /\ UNCHANGED <<cookie, passkeysOn>>
  BY <1>1 DEF ServesAccount, DropFromCache
<1>11. ServesAccount(v)'
  BY <1>3, <1>5, <1>9, <1>10, ServedOn
<1> QED
  BY <1>1, <1>5, <1>6, <1>11

LEMMA DeleteServes ==
    ASSUME Typed, NEW j \in Jobs, DeleteFile(j), ServesAccount(job[j])
    PROVE  \E v \in Job : job' = [job EXCEPT ![j] = v] /\ Same(job[j], v) /\ ServesAccount(v)'
<1>1. PICK r : r = job[j]
  OBVIOUS
<1>2. r \in Job /\ Ready(r) /\ r.pc = "delete" /\ users' = [users EXCEPT ![r.del] = None]
  BY <1>1, DeleteFileStep
<1>3. PICK d \in Names \cup {None}, t \in Names \cup {None}, u \in User \cup {None} :
         /\ Wants(r, cookie[r.b], d, t, u) /\ (t # None => u # None)
         /\ MayDemote(r, u) /\ MaySuspend(r, u) /\ Progress(r, d, t, u)
  BY <1>1, <1>2 DEF ServesAccount
<1>4. /\ users = r.base.users /\ crc = Without(r.base.crc, d) /\ ~r.begun
      /\ r.del = d /\ d \in Names /\ r.saves = ToSave(t, u)
  BY <1>2, <1>3 DEF Progress, Ready
<1>5. Exists(r.del)
  BY <1>3, <1>4, NoneIsNoJob, WantsPlaces DEF Exists, Was
<1>6. PICK v \in Job : job' = [job EXCEPT ![j] = v] /\ FileDeleted(r, v)
  BY <1>1, <1>5, DeleteFileStep
<1>7. /\ v.pc = IF t = None THEN "reply" ELSE "write"
      /\ v.del = None /\ v.begun /\ Same(r, v) /\ v.saves = ToSave(t, u)
  <2>1. r.saves = Nothing <=> t = None
    BY <1>3, <1>4, ToSaveFacts, NoneIsNoJob DEF ToSave, Nothing
  <2> HIDE DEF Nothing
  <2> QED
    BY <1>4, <1>6, <2>1 DEF FileDeleted, Same
<1>8. users' = Without(r.base.users, d) /\ crc' = Without(r.base.crc, d)
  BY <1>2, <1>4, BaseTables, Tables DEF DeleteFile
<1>9. Progress(v, d, t, u)'
  <2>1. CASE t # None
    BY <1>7, <1>8, <2>1 DEF Progress, Same
  <2>2. CASE t = None
    <3>1. /\ users' = With(Without(r.base.users, d), t, u)
          /\ crc' = With(Without(r.base.crc, d), t, Digest(t, u))
      BY <1>2, <1>8, <2>2, BaseTables, Tables
    <3>2. v.saves = Nothing
      BY <1>7, <2>2, NoneIsNoJob DEF ToSave, Nothing
    <3> QED
      BY <1>7, <2>2, <3>1, <3>2 DEF Progress, Same
  <2> QED
    BY <2>1, <2>2
<1>10. passkeysOn = r.base.on /\ UNCHANGED <<cookie, passkeysOn>>
  BY <1>1 DEF ServesAccount, DeleteFile
<1>11. ServesAccount(v)'
  BY <1>3, <1>7, <1>9, <1>10, ServedOn
<1> QED
  BY <1>1, <1>6, <1>7, <1>11

(* The checks look at the store as it was when the handler began.          *)
LEMMA Checked ==
    ASSUME NEW r, users = r.base.users, NEW u
    PROVE  /\ EnsureCanDemote(r.about) => MayDemote(r, u)
           /\ EnsureLeavingActiveAdminWhenDisabling(r.about) => MaySuspend(r, u)
<1>1. ASSUME ActiveAdmins \ {r.about} # {} PROVE AnotherActiveAdmin(r, r.about)
  BY <1>1 DEF ActiveAdmins, Exists, AnotherActiveAdmin, Was
<1> QED
  BY <1>1 DEF EnsureCanDemote, EnsureLeavingActiveAdminWhenDisabling, MayDemote, MaySuspend, Was

LEMMA CheckServes ==
    ASSUME Typed, NEW j \in Jobs, Check(j), ServesAccount(job[j])
    PROVE  \/ End(j) /\ job[j].base = [users |-> users, crc |-> crc, on |-> passkeysOn]
           \/ \E v \in Job : job' = [job EXCEPT ![j] = v] /\ Same(job[j], v) /\ ServesAccount(v)'
<1>1. PICK r : r = job[j]
  OBVIOUS
<1>2. r \in Job /\ Ready(r) /\ r.pc \in {"demote", "disable"}
  BY <1>1, JobAt DEF Check, At
<1>3. PICK d \in Names \cup {None}, t \in Names \cup {None}, u \in User \cup {None} :
         /\ Wants(r, cookie[r.b], d, t, u) /\ (t # None => u # None)
         /\ r.pc # "demote" => MayDemote(r, u)
         /\ r.pc # "disable" => MaySuspend(r, u)
         /\ Progress(r, d, t, u)
  BY <1>1 DEF ServesAccount
<1>4. /\ users = r.base.users /\ crc = r.base.crc /\ ~r.begun
      /\ r.del = d /\ r.saves = ToSave(t, u)
  BY <1>2, <1>3 DEF Progress
<1>5. passkeysOn = r.base.on /\ UNCHANGED <<users, crc, cookie, passkeysOn>>
  BY <1>1 DEF ServesAccount, Check
<1>6. CASE End(j)
  <2>1. r.base = [users |-> users, crc |-> crc, on |-> passkeysOn]
    <3>1. PICK s : s = r.base
      OBVIOUS
    <3>2. s \in [users: [Names -> User \cup {None}], crc: [Names -> Hash \cup {None}], on: BOOLEAN]
      BY <1>2, <3>1 DEF Job
    <3>3. users = s.users /\ crc = s.crc /\ passkeysOn = s.on
      BY <1>4, <1>5, <3>1
    <3> QED
      BY <3>1, <3>2, <3>3
  <2> QED
    BY <1>1, <1>6, <2>1
<1>7. CASE ~End(j)
  <2>1. PICK pc \in {"drop", "write"} : pc = IF r.del # None THEN "drop" ELSE "write"
    OBVIOUS
  <2>2. Goto(j, pc) /\ MayDemote(r, u) /\ MaySuspend(r, u)
    <3>1. CASE At(j, "demote")
      <4>1. Goto(j, pc) /\ EnsureCanDemote(r.about)
        BY <1>1, <1>7, <2>1, <3>1 DEF Check
      <4>2. r.pc = "demote"
        BY <1>1, <3>1 DEF At
      <4> QED
        BY <1>3, <1>4, <4>1, <4>2, Checked
    <3>2. CASE ~At(j, "demote")
      <4>1. Goto(j, pc) /\ EnsureLeavingActiveAdminWhenDisabling(r.about)
        BY <1>1, <1>7, <2>1, <3>2 DEF Check
      <4>2. r.pc = "disable"
        BY <1>1, <1>2, <3>2 DEF At, Check
      <4> QED
        BY <1>3, <1>4, <4>1, <4>2, Checked
    <3> QED
      BY <3>1, <3>2
  <2>3. PICK v : v = [r EXCEPT !.pc = pc]
    OBVIOUS
  <2>4. /\ v \in Job /\ v.pc = pc /\ v.del = r.del /\ v.saves = r.saves
        /\ v.begun = r.begun /\ Same(r, v)
    <3>1. pc \in Places
      BY DEF Places
    <3> QED
      BY <1>2, <2>3, <3>1, GotoFields DEF Same
  <2>5. job' = [job EXCEPT ![j] = v]
    BY <1>1, <2>2, <2>3 DEF Goto
  <2>6. Progress(v, d, t, u)'
    <3>1. Without(r.base.users, None) = r.base.users /\ Without(r.base.crc, None) = r.base.crc
      BY <1>2, BaseTables, Tables
    <3>2. v.base = r.base
      BY <2>4 DEF Same
    <3>3. CASE d # None
      BY <1>4, <1>5, <2>1, <2>4, <3>2, <3>3 DEF Progress
    <3>4. CASE d = None
      BY <1>4, <1>5, <2>1, <2>4, <3>1, <3>2, <3>4 DEF Progress
    <3> QED
      BY <3>3, <3>4
  <2>7. ServesAccount(v)'
    BY <1>3, <1>5, <2>2, <2>4, <2>6, ServedOn
  <2> QED
    BY <1>1, <2>4, <2>5, <2>7
<1> QED
  BY <1>6, <1>7

LEMMA WriteServes ==
    ASSUME Typed, NEW j \in Jobs, WriteFile(j), ServesAccount(job[j])
    PROVE  \E v \in Job : job' = [job EXCEPT ![j] = v] /\ Same(job[j], v) /\ ServesAccount(v)'
<1>1. PICK r : r = job[j]
  OBVIOUS
<1>2. r \in Job /\ r.pc = "write"
  BY <1>1, WriteFileStep
<1>3. PICK n \in Names, v \in Job :
        /\ r.saves[n] \in User
        /\ users' = [users EXCEPT ![n] = r.saves[n]]
        /\ job' = [job EXCEPT ![j] = v]
        /\ FileWritten(r, v, n)
  BY <1>1, WriteFileStep
<1>4. PICK d \in Names \cup {None}, t \in Names \cup {None}, u \in User \cup {None} :
         /\ Wants(r, cookie[r.b], d, t, u) /\ (t # None => u # None)
         /\ MayDemote(r, u) /\ MaySuspend(r, u) /\ Progress(r, d, t, u)
  BY <1>1, <1>2 DEF ServesAccount
<1>5. /\ users = Without(r.base.users, d) /\ crc = Without(r.base.crc, d) /\ (r.begun \/ d = None)
      /\ r.del = None /\ r.saves = ToSave(t, u)
  BY <1>2, <1>4 DEF Progress
<1>6. n = t /\ r.saves[n] = u /\ t # None
  BY <1>3, <1>5, NoneIsNoValue, NoneIsNoJob DEF ToSave
<1>7. users' = With(Without(r.base.users, d), t, u) /\ crc' = Without(r.base.crc, d)
  <2>1. users' = [users EXCEPT ![t] = u] /\ crc' = crc /\ t \in Names
    BY <1>3, <1>6 DEF WriteFile
  <2>2. PICK U \in [Names -> User \cup {None}] : U = Without(r.base.users, d)
    BY <1>2, BaseTables
  <2>3. users' = With(U, t, u)
    BY <1>5, <2>1, <2>2 DEF With
  <2> QED
    BY <1>5, <2>1, <2>2, <2>3
<1>8. /\ v.pc = "cache" /\ v.begun /\ v.del = None /\ v.saves = ToSave(t, u) /\ v.target = t
      /\ Same(r, v)
  BY <1>3, <1>5, <1>6 DEF FileWritten, Same
<1>9. Progress(v, d, t, u)'
  BY <1>6, <1>7, <1>8 DEF Progress, Same
<1>10. passkeysOn = r.base.on /\ UNCHANGED <<cookie, passkeysOn>>
  BY <1>1 DEF ServesAccount, WriteFile
<1>11. ServesAccount(v)'
  BY <1>4, <1>8, <1>9, <1>10, ServedOn
<1> QED
  BY <1>1, <1>3, <1>8, <1>11

LEMMA CacheServes ==
    ASSUME Typed, NEW j \in Jobs, UpdateCache(j), ServesAccount(job[j])
    PROVE  \E v \in Job : job' = [job EXCEPT ![j] = v] /\ Same(job[j], v) /\ ServesAccount(v)'
<1>1. PICK r : r = job[j]
  OBVIOUS
<1>2. /\ r \in Job /\ r.pc = "cache" /\ r.target \in Names
      /\ crc' = [crc EXCEPT ![r.target] = Digest(r.target, r.saves[r.target])]
  BY <1>1, UpdateCacheStep
<1>3. PICK v \in Job : job' = [job EXCEPT ![j] = v] /\ CacheUpdated(r, v)
  BY <1>1, UpdateCacheStep
<1>4. PICK d \in Names \cup {None}, t \in Names \cup {None}, u \in User \cup {None} :
         /\ Wants(r, cookie[r.b], d, t, u) /\ (t # None => u # None)
         /\ MayDemote(r, u) /\ MaySuspend(r, u) /\ Progress(r, d, t, u)
  BY <1>1, <1>2 DEF ServesAccount
<1>5. /\ users = With(Without(r.base.users, d), t, u) /\ crc = Without(r.base.crc, d)
      /\ (r.begun \/ users = r.base.users)
      /\ r.del = None /\ r.saves = ToSave(t, u) /\ t # None /\ r.target = t
  BY <1>2, <1>4 DEF Progress
<1>6. r.saves[t] = u /\ t \in Names /\ [r.saves EXCEPT ![t] = None] = Nothing
  BY <1>2, <1>5 DEF ToSave, Nothing
<1>7. /\ users' = With(Without(r.base.users, d), t, u)
      /\ crc' = With(Without(r.base.crc, d), t, Digest(t, u))
  <2>1. users' = users /\ crc' = [crc EXCEPT ![t] = Digest(t, u)]
    BY <1>2, <1>5, <1>6 DEF UpdateCache
  <2>2. PICK C \in [Names -> Hash \cup {None}] : C = Without(r.base.crc, d)
    BY <1>2, BaseTables
  <2>3. crc' = With(C, t, Digest(t, u))
    BY <1>5, <1>6, <2>1, <2>2 DEF With
  <2> QED
    BY <1>5, <2>1, <2>2, <2>3
<1>8. /\ v.pc = "reply" /\ (v.begun <=> r.begun) /\ v.del = None /\ v.saves = Nothing
      /\ v.target = t /\ v.rec = u /\ Same(r, v)
  <2> HIDE DEF Nothing
  <2> QED
    BY <1>3, <1>5, <1>6 DEF CacheUpdated, Same
<1>9. users' = users /\ passkeysOn = r.base.on /\ UNCHANGED <<cookie, passkeysOn>>
  BY <1>1 DEF ServesAccount, UpdateCache
<1>10. Progress(v, d, t, u)'
  <2> HIDE DEF Nothing
  <2> QED
    BY <1>5, <1>7, <1>8, <1>9 DEF Progress, Same
<1>11. ServesAccount(v)'
  BY <1>4, <1>8, <1>9, <1>10, ServedOn
<1> QED
  BY <1>1, <1>3, <1>8, <1>11

(* The same for the settings page.                                         *)
Keeps(r, v) == v.b = r.b /\ v.spends = r.spends /\ v.base = r.base

LEMMA KeepsFacts ==
    ASSUME NEW r, NEW v, Keeps(r, v)
    PROVE  /\ \A n : Was(v, n) = Was(r, n)
           /\ Stripped(v) = Stripped(r)
           /\ \A ck : AcceptedAdmin(v, ck) <=> AcceptedAdmin(r, ck)
BY DEF Keeps, Was, Stripped, AcceptedAdmin, Accepted

LEMMA SettingsServes ==
    ASSUME Typed, NEW j \in Jobs, SaveSettings(j), ServesSettings(job[j])
    PROVE  \E v \in Job : job' = [job EXCEPT ![j] = v] /\ Keeps(job[j], v) /\ ServesSettings(v)'
<1>1. PICK r : r = job[j]
  OBVIOUS
<1>2. r \in Job /\ r.pc = "settings"
  BY <1>1, SaveSettingsStep
<1>3. PICK v \in Job : job' = [job EXCEPT ![j] = v] /\ SettingsSaved(r, v)
  BY <1>1, SaveSettingsStep
<1>4. /\ AcceptedAdmin(r, cookie[r.b])
      /\ r.about = cookie[r.b].username /\ r.ends = None /\ r.spends = {} /\ r.del = None
      /\ users = r.base.users /\ crc = r.base.crc
  BY <1>1, <1>2 DEF ServesSettings
<1>5. users' = users /\ crc' = crc /\ cookie' = cookie /\ passkeysOn' = r.on
  BY <1>1 DEF SaveSettings
<1>6. Keeps(r, v) /\ v.about = r.about /\ v.ends = r.ends /\ v.del = r.del /\ v.on = r.on /\ v.begun
  BY <1>3 DEF SettingsSaved, Keeps
<1>7. Cleared = Stripped(r)
  BY <1>4 DEF Cleared, Stripped, Exists, Was
<1>8. CASE r.base.on /\ ~r.on
  <2>1. /\ v.reply = "reread" /\ v.saves = Stripped(r) /\ v.pc \in {"write", "reply"}
        /\ v.pc = "reply" => v.saves = Nothing
    <3> HIDE DEF Nothing, Cleared, Stripped
    <3> QED
      BY <1>3, <1>7, <1>8 DEF SettingsSaved
  <2>2. ASSUME NEW n \in Names PROVE StrippedSoFar(v, n)'
    <3>1. Stripped(v)[n] = v.saves[n] /\ Was(v, n) = users'[n] /\ v.base.crc[n] = crc'[n]
      BY <1>4, <1>5, <1>6, <2>1, KeepsFacts DEF Was, Keeps
    <3>2. v.pc # "cache"
      BY <2>1
    <3> HIDE DEF Stripped, Was
    <3> QED
      BY <3>1, <3>2 DEF StrippedSoFar
  <2>3. ServesSettings(v)'
    <3>1. v.base.on /\ ~v.on /\ passkeysOn' = v.on /\ v.b = r.b
      BY <1>5, <1>6, <1>8 DEF Keeps
    <3>2. AcceptedAdmin(v, cookie'[v.b]) /\ v.about = cookie'[v.b].username
          /\ v.ends = None /\ v.spends = {} /\ v.del = None
      BY <1>4, <1>5, <1>6, KeepsFacts DEF Keeps
    <3> HIDE DEF StrippedSoFar, AcceptedAdmin, Nothing, Keeps
    <3> QED
      BY <1>6, <2>1, <2>2, <3>1, <3>2 DEF ServesSettings
  <2> QED
    BY <1>1, <1>3, <1>6, <2>3
<1>9. CASE ~(r.base.on /\ ~r.on)
  <2>1. v.reply = "keep" /\ v.saves = Nothing /\ v.pc = "reply"
    BY <1>3, <1>9 DEF SettingsSaved
  <2>2. ServesSettings(v)'
    <3>1. /\ ~(v.base.on /\ ~v.on) /\ passkeysOn' = v.on /\ v.b = r.b
          /\ users' = v.base.users /\ crc' = v.base.crc
      BY <1>4, <1>5, <1>6, <1>9 DEF Keeps
    <3>2. AcceptedAdmin(v, cookie'[v.b]) /\ v.about = cookie'[v.b].username
          /\ v.ends = None /\ v.spends = {} /\ v.del = None
      BY <1>4, <1>5, <1>6, KeepsFacts DEF Keeps
    <3> HIDE DEF StrippedSoFar, AcceptedAdmin, Nothing, Keeps
    <3> QED
      BY <1>6, <2>1, <3>1, <3>2 DEF ServesSettings
  <2> QED
    BY <1>1, <1>3, <1>6, <2>2
<1> QED
  BY <1>8, <1>9

(* While the records without passkeys are saved, one after the other.      *)
Stripping(r) ==
    /\ r.pc \in {"write", "cache"} /\ r.begun /\ r.base.on /\ ~r.on
    /\ passkeysOn = r.on /\ r.reply = "reread"
    /\ \A n \in Names : StrippedSoFar(r, n)

LEMMA GoesOnStripping ==
    ASSUME NEW r, NEW v, Stripping(r), ServesSettings(r), Keeps(r, v),
           UNCHANGED <<cookie, passkeysOn>>,
           v.about = r.about, v.ends = r.ends, v.del = r.del, v.on = r.on,
           v.reply = r.reply, v.begun,
           v.pc \in {"write", "cache", "reply"}, v.pc = "reply" => v.saves = Nothing,
           \A n \in Names : StrippedSoFar(v, n)'
    PROVE  ServesSettings(v)'
<1>1. v.base.on /\ ~v.on /\ passkeysOn' = v.on /\ v.b = r.b /\ v.reply = "reread"
  BY DEF Keeps, Stripping
<1>2. AcceptedAdmin(v, cookie'[v.b]) /\ v.about = cookie'[v.b].username
      /\ v.ends = None /\ v.spends = {} /\ v.del = None
  BY KeepsFacts DEF Keeps, ServesSettings
<1> HIDE DEF StrippedSoFar, AcceptedAdmin, Nothing, Keeps
<1> QED
  BY <1>1, <1>2 DEF ServesSettings

LEMMA WriteServesSettings ==
    ASSUME Typed, NEW j \in Jobs, WriteFile(j), ServesSettings(job[j])
    PROVE  \E v \in Job : job' = [job EXCEPT ![j] = v] /\ Keeps(job[j], v) /\ ServesSettings(v)'
<1>1. PICK r : r = job[j]
  OBVIOUS
<1>2. r \in Job /\ r.pc = "write"
  BY <1>1, WriteFileStep
<1>3. PICK d \in Names, v \in Job :
        /\ r.saves[d] \in User
        /\ users' = [users EXCEPT ![d] = r.saves[d]]
        /\ job' = [job EXCEPT ![j] = v]
        /\ FileWritten(r, v, d)
  BY <1>1, WriteFileStep
<1>4. Stripping(r)
  <2> HIDE DEF StrippedSoFar, AcceptedAdmin, Nothing
  <2> QED
    BY <1>1, <1>2 DEF ServesSettings, Stripping
<1>5. /\ Keeps(r, v) /\ v.about = r.about /\ v.ends = r.ends /\ v.del = r.del /\ v.on = r.on
      /\ v.reply = r.reply /\ v.begun /\ v.pc = "cache" /\ v.saves = r.saves /\ v.target = d
  BY <1>3 DEF FileWritten, Keeps
<1>6. UNCHANGED <<crc, cookie, passkeysOn>>
  BY DEF WriteFile
<1>7. ASSUME NEW n \in Names PROVE StrippedSoFar(v, n)'
  <2>1. StrippedSoFar(r, n) /\ Stripped(v)[n] = Stripped(r)[n] /\ Was(v, n) = Was(r, n)
        /\ v.base.crc = r.base.crc
    BY <1>4, <1>5, KeepsFacts DEF Stripping, Keeps
  <2>2. users'[n] = IF n = d THEN r.saves[n] ELSE users[n]
    BY <1>3 DEF Typed, StepsTypeOK, TypeOK
  <2>3. n = d => r.saves[n] # None
    BY <1>3, NoneIsNoValue
  <2> HIDE DEF Stripped, Was
  <2> QED
    BY <1>2, <1>5, <1>6, <2>1, <2>2, <2>3 DEF StrippedSoFar
<1>8. ServesSettings(v)'
  <2> HIDE DEF ServesSettings, Stripping, Keeps, StrippedSoFar
  <2> QED
    BY <1>1, <1>4, <1>5, <1>6, <1>7, GoesOnStripping
<1> QED
  BY <1>1, <1>3, <1>5, <1>8

LEMMA CacheServesSettings ==
    ASSUME Typed, NEW j \in Jobs, UpdateCache(j), ServesSettings(job[j])
    PROVE  \E v \in Job : job' = [job EXCEPT ![j] = v] /\ Keeps(job[j], v) /\ ServesSettings(v)'
<1>1. PICK r : r = job[j]
  OBVIOUS
<1>2. /\ r \in Job /\ r.pc = "cache" /\ r.target \in Names /\ r.saves[r.target] \in User
      /\ crc' = [crc EXCEPT ![r.target] = Digest(r.target, r.saves[r.target])]
  BY <1>1, UpdateCacheStep
<1>3. PICK v \in Job : job' = [job EXCEPT ![j] = v] /\ CacheUpdated(r, v)
  BY <1>1, UpdateCacheStep
<1>4. Stripping(r)
  <2> HIDE DEF StrippedSoFar, AcceptedAdmin, Nothing
  <2> QED
    BY <1>1, <1>2 DEF ServesSettings, Stripping
<1>5. PICK left : left = [r.saves EXCEPT ![r.target] = None]
  OBVIOUS
<1>6. /\ Keeps(r, v) /\ v.about = r.about /\ v.ends = r.ends /\ v.del = r.del /\ v.on = r.on
      /\ v.reply = r.reply /\ v.begun /\ v.saves = left
      /\ v.pc \in {"write", "reply"} /\ (v.pc = "reply" => left = Nothing)
  <2> HIDE DEF Nothing
  <2> QED
    BY <1>3, <1>4, <1>5 DEF CacheUpdated, Keeps, Stripping
<1>7. UNCHANGED <<users, cookie, passkeysOn>>
  BY DEF UpdateCache
<1>8. ASSUME NEW n \in Names PROVE StrippedSoFar(v, n)'
  <2>1. StrippedSoFar(r, n) /\ Stripped(v)[n] = Stripped(r)[n] /\ Was(v, n) = Was(r, n)
        /\ v.base.crc = r.base.crc
    BY <1>4, <1>6, KeepsFacts DEF Stripping, Keeps
  <2>2. crc'[n] = IF n = r.target THEN Digest(n, r.saves[n]) ELSE crc[n]
    BY <1>2 DEF Typed, StepsTypeOK, TypeOK
  <2>3. v.saves[n] = IF n = r.target THEN None ELSE r.saves[n]
    <3>1. r.saves \in [Names -> User \cup {None}]
      BY <1>2 DEF Job
    <3> QED
      BY <1>5, <1>6, <3>1
  <2>4. n = r.target => r.saves[n] # None
    BY <1>2, NoneIsNoValue
  <2>5. users'[n] = users[n] /\ v.pc # "cache"
    BY <1>6, <1>7
  <2> HIDE DEF Stripped, Was
  <2> QED
    BY <1>2, <2>1, <2>2, <2>3, <2>4, <2>5 DEF StrippedSoFar
<1>9. ServesSettings(v)'
  <2> HIDE DEF ServesSettings, Stripping, Keeps, StrippedSoFar, Nothing
  <2> QED
    BY <1>1, <1>4, <1>6, <1>7, <1>8, GoesOnStripping
<1> QED
  BY <1>1, <1>3, <1>6, <1>9

(* What a handler is doing stays so as long as nobody touches the store,   *)
(* the cache and the cookie of its caller.                                 *)
LEMMA ServesStays ==
    ASSUME NEW r, Serves(r), UNCHANGED <<users, crc, passkeysOn, spent>>, cookie'[r.b] = cookie[r.b]
    PROVE  Serves(r)'
<1>1. ServesAccount(r) => ServesAccount(r)'
  <2> SUFFICES ASSUME ServesAccount(r) PROVE ServesAccount(r)'
    OBVIOUS
  <2>1. PICK d \in Names \cup {None}, t \in Names \cup {None}, u \in User \cup {None} :
           /\ Wants(r, cookie[r.b], d, t, u) /\ (t # None => u # None)
           /\ r.pc # "demote" => MayDemote(r, u)
           /\ r.pc # "disable" => MaySuspend(r, u)
           /\ Progress(r, d, t, u)
    BY DEF ServesAccount
  <2>2. Progress(r, d, t, u)'
    BY <2>1 DEF Progress
  <2>3. Wants(r, cookie'[r.b], d, t, u)
    BY <2>1
  <2>4. passkeysOn' = r.base.on
    BY DEF ServesAccount
  <2> HIDE DEF Wants, Progress, MayDemote, MaySuspend
  <2> QED
    BY <2>1, <2>2, <2>3, <2>4 DEF ServesAccount
<1>2. ServesSettings(r) => ServesSettings(r)'
  <2>1. \A n \in Names : StrippedSoFar(r, n) => StrippedSoFar(r, n)'
    BY DEF StrippedSoFar
  <2> HIDE DEF StrippedSoFar, AcceptedAdmin, Nothing
  <2> QED
    BY <2>1 DEF ServesSettings
<1>3. r.spends \cap spent' = {}
  BY DEF Serves
<1> QED
  BY <1>1, <1>2, <1>3 DEF Serves

LEMMA ServesNext ==
    ASSUME NEW r, NEW v, Serves(r), Keeps(r, v), spent' = spent,
           ServesAccount(v)' \/ ServesSettings(v)'
    PROVE  Serves(v)'
<1>1. v.spends \cap spent' = {}
  BY DEF Serves, Keeps
<1>2. \E n \in Names : Was(v, n) # None
  BY KeepsFacts DEF Serves
<1> QED
  BY <1>1, <1>2 DEF Serves

(* Which handlers are at which step.                                       *)
LEMMA ServesWhere ==
    ASSUME NEW r
    PROVE  /\ ServesAccount(r) => r.pc # "settings"
           /\ ServesSettings(r) => r.pc \in {"settings", "write", "cache", "reply"}
<1>1. ServesAccount(r) => r.pc # "settings"
  BY DEF ServesAccount, Progress
<1>2. ServesSettings(r) => r.pc \in {"settings", "write", "cache", "reply"}
  BY DEF ServesSettings
<1> QED
  BY <1>1, <1>2

(* A handler that does not answer yet is given up, having changed nothing, *)
(* or goes on.                                                             *)
GivenUp(j) ==
    End(j) /\ job[j].base = [users |-> users, crc |-> crc, on |-> passkeysOn]
    /\ UNCHANGED <<users, crc, passkeysOn>>

LEMMA WorkServes ==
    ASSUME Typed, NEW j \in Jobs, Work(j), ~Reply(j), Serves(job[j])
    PROVE  /\ UNCHANGED <<cookie, spent, revoked>> /\ job[j] # None
           /\ GivenUp(j) \/ \E v \in Job : job' = [job EXCEPT ![j] = v] /\ Keeps(job[j], v)
                 /\ Serves(v)'
<1>1. PICK r : r = job[j]
  OBVIOUS
<1>2. UNCHANGED <<cookie, spent, revoked>> /\ job[j] # None
  BY DEF Work, Check, SaveSettings, DropFromCache, DeleteFile, WriteFile, UpdateCache, At
<1>3. \A v : Same(r, v) => Keeps(r, v)
  BY DEF Same, Keeps
<1>4. ASSUME NEW v \in Job, job' = [job EXCEPT ![j] = v], Keeps(r, v),
             ServesAccount(v)' \/ ServesSettings(v)'
      PROVE  \E w \in Job : job' = [job EXCEPT ![j] = w] /\ Keeps(r, w) /\ Serves(w)'
  BY <1>1, <1>2, <1>4, ServesNext
<1>5. CASE ServesAccount(r)
  <2>1. ~SaveSettings(j)
    BY <1>1, <1>5, ServesWhere DEF SaveSettings, At
  <2>2. CASE Check(j)
    <3>1. End(j) => GivenUp(j) \/ ~(job[j].base = [users |-> users, crc |-> crc, on |-> passkeysOn])
      BY <2>2 DEF GivenUp, Check
    <3> QED
      BY <1>1, <1>2, <1>3, <1>4, <1>5, <2>2, <3>1, CheckServes
  <2>3. CASE DropFromCache(j)
    BY <1>1, <1>2, <1>3, <1>4, <1>5, <2>3, DropServes
  <2>4. CASE DeleteFile(j)
    BY <1>1, <1>2, <1>3, <1>4, <1>5, <2>4, DeleteServes
  <2>5. CASE WriteFile(j)
    BY <1>1, <1>2, <1>3, <1>4, <1>5, <2>5, WriteServes
  <2>6. CASE UpdateCache(j)
    BY <1>1, <1>2, <1>3, <1>4, <1>5, <2>6, CacheServes
  <2> QED
    BY <2>1, <2>2, <2>3, <2>4, <2>5, <2>6 DEF Work
<1>6. CASE ServesSettings(r)
  <2>1. ~Check(j) /\ ~DropFromCache(j) /\ ~DeleteFile(j)
    BY <1>1, <1>6, ServesWhere DEF Check, DropFromCache, DeleteFile, At
  <2>2. CASE SaveSettings(j)
    BY <1>1, <1>2, <1>4, <1>6, <2>2, SettingsServes
  <2>3. CASE WriteFile(j)
    BY <1>1, <1>2, <1>4, <1>6, <2>3, WriteServesSettings
  <2>4. CASE UpdateCache(j)
    BY <1>1, <1>2, <1>4, <1>6, <2>4, CacheServesSettings
  <2> QED
    BY <2>1, <2>2, <2>3, <2>4 DEF Work
<1> QED
  BY <1>1, <1>5, <1>6 DEF Serves

(* The inductive invariant of the refinement.                              *)
RefInv == CacheInv /\ AllServe

LEMMA ServesAt ==
    ASSUME NEW j, NEW v, job'[j] = v, InFlight' = OnlyOf(j, v), v # None => Serves(v)'
    PROVE  AllServe'
<1>1. CASE v = None
  BY <1>1 DEF OnlyOf, AllServe
<1>2. CASE v # None
  <2>1. InFlight' = {j}
    BY <1>2 DEF OnlyOf
  <2>2. \A i \in InFlight' : Serves(job[i])'
    <3> SUFFICES Serves(job[j])'
      BY <2>1
    <3> QED
      BY <1>2 DEF Serves, ServesAccount, ServesSettings, Wants
  <2> QED
    BY <2>2 DEF AllServe
<1> QED
  BY <1>1, <1>2

(* Logging out and losing a cookie concern a browser without a handler.    *)
LEMMA OutsideIs ==
    ASSUME Typed, NEW b \in Browsers, LogoutStep(b) \/ ExpireStep(b)
    PROVE  /\ UNCHANGED <<users, crc, passkeysOn, spent, revoked, job>>
           /\ NoJobOf(b) /\ cookie[b] # None
           /\ cookie' \in {cookie, [cookie EXCEPT ![b] = None]}
BY DEF LogoutStep, ExpireStep, Logout, Expire, ClearSession, Receives, ValidSession

LEMMA OutsideServes ==
    ASSUME RefInv, NEW b \in Browsers, LogoutStep(b) \/ ExpireStep(b)
    PROVE  AllServe'
<1>1. /\ UNCHANGED <<users, crc, passkeysOn, spent, job>> /\ NoJobOf(b)
      /\ cookie' \in {cookie, [cookie EXCEPT ![b] = None]}
  BY OutsideIs DEF RefInv, CacheInv
<1>2. InFlight' = InFlight
  BY <1>1 DEF InFlight
<1>3. ASSUME NEW i \in InFlight PROVE Serves(job[i])'
  <2>1. PICK r : r = job[i]
    OBVIOUS
  <2>2. r.b \in Browsers /\ r.b # b /\ Serves(r)
    <3>1. r \in Job
      BY <2>1, JobAt DEF InFlight, RefInv, CacheInv
    <3>2. r.b \in Browsers
      BY <3>1 DEF Job
    <3> QED
      BY <1>1, <2>1, <3>2 DEF InFlight, NoJobOf, RefInv, AllServe
  <2>3. cookie'[r.b] = cookie[r.b]
    BY <1>1, <2>2 DEF RefInv, CacheInv, Typed, StepsTypeOK, TypeOK
  <2>4. Serves(r)'
    BY <1>1, <2>2, <2>3, ServesStays
  <2>5. job'[i] = r
    BY <1>1, <2>1
  <2> QED
    BY <2>4, <2>5 DEF Serves, ServesAccount, ServesSettings
<1> QED
  BY <1>2, <1>3 DEF AllServe

LEMMA EndServes ==
    ASSUME Typed, Alone, NEW j \in Jobs, job[j] # None, End(j)
    PROVE  AllServe' /\ InFlight' = {}
<1>1. PICK v : v = None
  OBVIOUS
<1>2. job'[j] = v /\ InFlight' = OnlyOf(j, v)
  BY <1>1, OnlyJob DEF End
<1> QED
  BY <1>1, <1>2, ServesAt DEF OnlyOf

LEMMA WorkServesAll ==
    ASSUME RefInv, Alone, NEW j \in Jobs, Work(j)
    PROVE  AllServe'
<1>1. CASE Reply(j)
  BY <1>1, EndServes DEF Reply, At, RefInv, CacheInv
<1>2. CASE ~Reply(j)
  <2>1. job[j] # None
    BY DEF Work, Check, SaveSettings, DropFromCache, DeleteFile, WriteFile, UpdateCache, Reply, At
  <2>2. Typed /\ Serves(job[j])
    BY <2>1 DEF RefInv, CacheInv, AllServe, InFlight
  <2>3. CASE GivenUp(j)
    BY <2>1, <2>2, <2>3, EndServes DEF GivenUp
  <2>4. CASE ~GivenUp(j)
    <3>1. PICK v \in Job : job' = [job EXCEPT ![j] = v] /\ Serves(v)'
      BY <1>2, <2>2, <2>4, WorkServes
    <3>2. job'[j] = v /\ InFlight' = OnlyOf(j, v)
      BY <2>1, <2>2, <3>1, OnlyJob
    <3> QED
      BY <3>1, <3>2, ServesAt
  <2> QED
    BY <2>3, <2>4
<1> QED
  BY <1>1, <1>2

LEMMA BeginServesAll ==
    ASSUME RefInv, Alone', NEW j \in Jobs, NEW b \in Browsers, BeginAny(j, b)
    PROVE  AllServe'
<1>1. InFlight = {}
  BY BeginOpens, FirstJob DEF RefInv, CacheInv, Typed
<1>2. PICK r \in Job : Begin(j, r) /\ Serves(r)
  BY <1>1, BeginServes DEF RefInv
<1>3. job'[j] = r /\ InFlight' = OnlyOf(j, r)
  BY <1>2, FirstJob DEF RefInv, CacheInv
<1>4. UNCHANGED <<users, crc, cookie, passkeysOn, spent>>
  BY <1>2 DEF Begin
<1>5. Serves(r)'
  BY <1>2, <1>4, ServesStays
<1> QED
  BY <1>3, <1>5, ServesAt

LEMMA RefStep == RefInv /\ Alone /\ Alone' /\ [StepsNext]_stepVars => RefInv'
<1> SUFFICES ASSUME RefInv, Alone, Alone', [StepsNext]_stepVars PROVE AllServe'
  BY CacheStep DEF RefInv
<1>1. ASSUME NEW j \in Jobs, Work(j) PROVE AllServe'
  BY <1>1, WorkServesAll
<1>2. ASSUME NEW j \in Jobs, NEW b \in Browsers, BeginAny(j, b) PROVE AllServe'
  BY <1>2, BeginServesAll
<1>3. ASSUME NEW b \in Browsers, LogoutStep(b) \/ ExpireStep(b) PROVE AllServe'
  BY <1>3, OutsideServes
<1>4. ASSUME Crash \/ RestartStep PROVE AllServe'
  BY <1>4 DEF Crash, RestartStep, InFlight, AllServe
<1>5. ASSUME NEW j \in Jobs, FailWrite(j) \/ FailDelete(j) PROVE AllServe'
  BY <1>5, EndServes DEF FailWrite, FailDelete, At, RefInv, CacheInv
<1>6. CASE UNCHANGED stepVars
  BY <1>6 DEF stepVars, RefInv, AllServe, InFlight, Serves, ServesAccount, ServesSettings,
              StrippedSoFar, Progress
<1> QED
  BY <1>1, <1>2, <1>3, <1>4, <1>5, <1>6 DEF StepsNext

-----------------------------------------------------------------------------
(* What Accounts sees of a step.                                           *)

Refined == A!Next \/ CutShort \/ FailedWrite \/ CreatedAnew \/ UNCHANGED (A!vars)

LEMMA BaseIdle ==
    /\ InFlight = {} => Base.users = users /\ Base.crc = crc /\ Base.on = passkeysOn
    /\ InFlight' = {} => Becomes(users', crc', passkeysOn')
BY DEF Base, Becomes

LEMMA BaseBusy ==
    ASSUME NEW j
    PROVE  /\ InFlight = {j} => BaseIs(job[j])
           /\ InFlight' = {j} => Becomes(job'[j].base.users, job'[j].base.crc, job'[j].base.on)
<1>1. InFlight = {j} => Base = job[j].base
  BY DEF Base
<1>2. InFlight' = {j} => Base' = job'[j].base
  BY DEF Base
<1> QED
  BY <1>1, <1>2 DEF BaseIs, Becomes

LEMMA Stutters ==
    ASSUME Becomes(Base.users, Base.crc, Base.on), UNCHANGED <<cookie, spent, revoked>>
    PROVE  Refined
BY DEF Becomes, Refined, A!vars

(* A handler that begins, or goes on, or is given up, is not seen yet.     *)
LEMMA BeginRefines ==
    ASSUME RefInv, Alone', NEW j \in Jobs, NEW b \in Browsers, BeginAny(j, b)
    PROVE  Refined
<1>1. PICK r \in Job : Begin(j, r) /\ BaseNow(r)
  <2>1. InFlight = {}
    BY BeginOpens, FirstJob DEF RefInv, CacheInv, Typed
  <2> QED
    BY <2>1, BeginServes DEF RefInv
<1>2. InFlight = {} /\ job'[j] = r /\ InFlight' = {j}
  BY <1>1, FirstJob, NoneIsNoJob DEF OnlyOf, RefInv, CacheInv
<1>3. r.base.users = users /\ r.base.crc = crc /\ r.base.on = passkeysOn
  BY <1>1 DEF BaseNow
<1>4. Becomes(Base.users, Base.crc, Base.on)
  BY <1>2, <1>3, BaseIdle, BaseBusy DEF Becomes
<1> QED
  BY <1>1, <1>4, Stutters DEF Begin

LEMMA WorkRefines ==
    ASSUME RefInv, Alone, NEW j \in Jobs, Work(j), ~Reply(j)
    PROVE  Refined
<1>1. job[j] # None
  BY DEF Work, Check, SaveSettings, DropFromCache, DeleteFile, WriteFile, UpdateCache, At
<1>2. Typed /\ Serves(job[j])
  BY <1>1 DEF RefInv, CacheInv, AllServe, InFlight
<1>3. InFlight = {j}
  BY <1>1 DEF Alone, InFlight
<1>4. PICK r : r = job[j]
  OBVIOUS
<1>5. BaseIs(r)
  BY <1>3, <1>4, BaseBusy
<1>6. UNCHANGED <<cookie, spent, revoked>>
  BY <1>2, WorkServes
<1>7. CASE GivenUp(j)
  <2>1. InFlight' = {}
    BY <1>1, <1>2, <1>7, EndServes DEF GivenUp
  <2>2. r.base.users = users' /\ r.base.crc = crc' /\ r.base.on = passkeysOn'
    BY <1>4, <1>7 DEF GivenUp
  <2>3. Becomes(Base.users, Base.crc, Base.on)
    BY <1>5, <2>1, <2>2, BaseIdle DEF Becomes, BaseIs
  <2> QED
    BY <1>6, <2>3, Stutters
<1>8. CASE ~GivenUp(j)
  <2>1. PICK v \in Job : job' = [job EXCEPT ![j] = v] /\ Keeps(r, v)
    BY <1>2, <1>4, <1>8, WorkServes
  <2>2. job'[j] = v /\ InFlight' = {j}
    BY <1>1, <1>2, <2>1, OnlyJob, NoneIsNoJob DEF OnlyOf
  <2>3. v.base = r.base
    BY <2>1 DEF Keeps
  <2>4. Becomes(Base.users, Base.crc, Base.on)
    BY <1>5, <2>2, <2>3, BaseBusy DEF Becomes, BaseIs
  <2> QED
    BY <1>6, <2>4, Stutters
<1> QED
  BY <1>7, <1>8

(* Logging out while a handler of somebody else runs.                      *)
LEMMA OutsideRefines ==
    ASSUME RefInv, NEW b \in Browsers, LogoutStep(b) \/ ExpireStep(b)
    PROVE  Refined
<1>1. /\ UNCHANGED <<users, crc, passkeysOn, spent, revoked, job>> /\ cookie[b] # None
      /\ cookie' \in {cookie, [cookie EXCEPT ![b] = None]}
  BY OutsideIs DEF RefInv, CacheInv
<1>2. Base' = Base
  BY <1>1 DEF Base, InFlight
<1>3. CASE cookie' = cookie
  BY <1>1, <1>2, <1>3 DEF Refined, A!vars
<1>4. CASE cookie' # cookie
  <2>1. A!Expire(b)
    BY <1>1, <1>2, <1>4 DEF A!Expire
  <2> QED
    BY <2>1 DEF Refined, A!Next
<1> QED
  BY <1>3, <1>4

(* The reply is where the handler happens.                                 *)
LEMMA WantsReplies ==
    ASSUME NEW r, NEW ck, NEW d, NEW t, NEW u, Wants(r, ck, d, t, u)
    PROVE  /\ r.reply \in {"login", "refresh", "clear", "keep"}
           /\ r.reply \in {"login", "refresh"} => t \in Names
BY DEF Wants, WantsLogin, WantsCreate, WantsUpdate, WantsRemove, WantsAdmin, WantsDisabled,
       WantsRevoke, WantsRegister, WantsForget, WantsRename, WantsEdit

LEMMA ReplyTakes ==
    ASSUME RefInv, Alone, NEW j \in Jobs, Reply(j), ServesAccount(job[j])
    PROVE  A!Next
<1>1. PICK r : r = job[j]
  OBVIOUS
<1>2. job[j] # None /\ r.pc = "reply" /\ End(j)
  BY <1>1 DEF Reply, At
<1>3. r \in Job /\ Ready(r) /\ Serves(r) /\ InFlight = {j}
  BY <1>1, <1>2, JobAt DEF RefInv, CacheInv, AllServe, Alone
<1>4. PICK d \in Names \cup {None}, t \in Names \cup {None}, u \in User \cup {None} :
         /\ Wants(r, cookie[r.b], d, t, u) /\ (t # None => u # None)
         /\ MayDemote(r, u) /\ MaySuspend(r, u) /\ Progress(r, d, t, u)
  BY <1>1, <1>2 DEF ServesAccount
<1>5. /\ users = With(Without(r.base.users, d), t, u)
      /\ crc = With(Without(r.base.crc, d), t, Digest(t, u))
      /\ t # None => r.target = t /\ r.rec = u
  BY <1>2, <1>4 DEF Progress
<1>6. InFlight' = {} /\ UNCHANGED <<users, crc, passkeysOn>>
  BY <1>2, EndServes DEF Reply, RefInv, CacheInv
<1>7. Becomes(With(Without(r.base.users, d), t, u),
              With(Without(r.base.crc, d), t, Digest(t, u)), r.base.on)
  <2>1. passkeysOn = r.base.on
    BY <1>1 DEF ServesAccount
  <2> QED
    BY <1>5, <1>6, <2>1, BaseIdle DEF Becomes
<1>8. Answered(r, t, u)
  <2>1. CASE r.reply \in {"login", "refresh"}
    <3>1. SetUser(r.b, r.target, r.rec)
      BY <1>1, <2>1 DEF Reply
    <3>2. r.target = t /\ r.rec = u
      BY <1>4, <1>5, <2>1, WantsReplies, NoneIsNoJob
    <3> QED
      BY <2>1, <3>1, <3>2 DEF Answered, SetUser, Receives
  <2>2. CASE r.reply = "clear"
    <3>1. ClearSession(r.b)
      BY <1>1, <2>2 DEF Reply
    <3> QED
      BY <2>2, <3>1 DEF Answered, ClearSession, Receives
  <2>3. CASE r.reply = "keep"
    BY <1>1, <2>3 DEF Reply, Answered
  <2> QED
    BY <1>4, <2>1, <2>2, <2>3, WantsReplies
<1>9. Takes(r, d, t, u)
  <2>1. EndedBy(j) = SessionsWere(r, r.ends)
    BY <1>1 DEF EndedBy, SessionsWere, Was
  <2>2. /\ revoked' = IF r.reply = "login" /\ cookie' # cookie THEN revoked \ {r.b}
                      ELSE revoked \cup SessionsWere(r, r.ends)
        /\ spent' = spent \cup r.spends
    BY <1>1, <2>1 DEF Reply
  <2> HIDE DEF Becomes, Answered, SessionsWere
  <2> QED
    BY <1>7, <1>8, <2>2 DEF Takes
<1>10. BaseIs(r)
  BY <1>1, <1>3, BaseBusy
<1>11. r.spends \cap spent = {} /\ (t \in Names => u \in User)
  BY <1>3, <1>4, NoneIsNoJob DEF Serves
<1> QED
  BY <1>3, <1>4, <1>9, <1>10, <1>11, ATakes

LEMMA StrippedAll ==
    ASSUME NEW r, \A n \in Names : StrippedSoFar(r, n) /\ r.saves[n] = None,
           users \in [Names -> User \cup {None}],
           crc \in [Names -> Hash \cup {None}]
    PROVE  users = StrippedUsers(r) /\ crc = StrippedCrc(r)
<1>1. ASSUME NEW n \in Names
      PROVE  users[n] = StrippedUsers(r)[n] /\ crc[n] = StrippedCrc(r)[n]
  <2>1. StrippedSoFar(r, n) /\ r.saves[n] = None
    OBVIOUS
  <2> HIDE DEF Stripped, Was
  <2> QED
    BY <2>1 DEF StrippedSoFar, StrippedUsers, StrippedCrc
<1>2. /\ users = [n \in Names |-> StrippedUsers(r)[n]]
      /\ crc = [n \in Names |-> StrippedCrc(r)[n]]
  BY <1>1
<1>3. /\ StrippedUsers(r) = [n \in Names |-> StrippedUsers(r)[n]]
      /\ StrippedCrc(r) = [n \in Names |-> StrippedCrc(r)[n]]
  BY DEF StrippedUsers, StrippedCrc
<1> QED
  BY <1>2, <1>3

LEMMA ReplyTakesSettings ==
    ASSUME RefInv, Alone, NEW j \in Jobs, Reply(j), ServesSettings(job[j])
    PROVE  A!Next
<1>1. PICK r : r = job[j]
  OBVIOUS
<1>2. job[j] # None /\ r.pc = "reply" /\ End(j)
  BY <1>1 DEF Reply, At
<1>3. r \in Job /\ InFlight = {j}
  BY <1>1, <1>2, JobAt DEF RefInv, CacheInv, Alone
<1>4. /\ AcceptedAdmin(r, cookie[r.b]) /\ r.about = cookie[r.b].username
      /\ r.ends = None /\ r.spends = {} /\ passkeysOn = r.on
  BY <1>1, <1>2 DEF ServesSettings
<1>5. InFlight' = {} /\ UNCHANGED <<users, crc, passkeysOn>>
  BY <1>2, EndServes DEF Reply, RefInv, CacheInv
<1>6. Becomes(users, crc, r.on)
  BY <1>4, <1>5, BaseIdle DEF Becomes
<1>7. EndedBy(j) = {}
  BY <1>1, <1>4 DEF EndedBy
<1>8. CASE r.base.on /\ ~r.on
  <2>1. r.reply = "reread" /\ r.saves = Nothing /\ \A n \in Names : StrippedSoFar(r, n)
    <3> HIDE DEF StrippedSoFar, Nothing, AcceptedAdmin
    <3> QED
      BY <1>1, <1>2, <1>8 DEF ServesSettings
  <2>2. users = StrippedUsers(r) /\ crc = StrippedCrc(r)
    <3>1. \A n \in Names : r.saves[n] = None
      BY <2>1 DEF Nothing
    <3> QED
      BY <2>1, <3>1, StrippedAll DEF RefInv, CacheInv, Typed, StepsTypeOK, TypeOK
  <2>3. cookie' \in {cookie, [cookie EXCEPT ![r.b] = CookieFor(r.about, users[r.about])]}
    BY <1>1, <2>1 DEF Reply, SetUser, Receives
  <2>4. spent' = spent /\ revoked' = revoked
    BY <1>1, <1>4, <1>7, <2>1 DEF Reply
  <2>5. TakesSettings(r)
    <3> HIDE DEF StrippedUsers, StrippedCrc, Becomes, CookieFor
    <3> QED
      BY <1>4, <1>6, <1>8, <2>2, <2>3, <2>4 DEF TakesSettings
  <2> QED
    BY <1>1, <1>3, <1>4, <2>5, ASettings, BaseBusy
<1>9. CASE ~(r.base.on /\ ~r.on)
  <2>1. r.reply = "keep" /\ users = r.base.users /\ crc = r.base.crc
    <3> HIDE DEF StrippedSoFar, Nothing, AcceptedAdmin
    <3> QED
      BY <1>1, <1>2, <1>9 DEF ServesSettings
  <2>2. cookie' = cookie /\ spent' = spent /\ revoked' = revoked
    BY <1>1, <1>4, <1>7, <2>1 DEF Reply
  <2>3. TakesSettings(r)
    BY <1>6, <1>9, <2>1, <2>2 DEF TakesSettings
  <2> QED
    BY <1>1, <1>3, <1>4, <2>3, ASettings, BaseBusy
<1> QED
  BY <1>8, <1>9

LEMMA ReplyRefines ==
    ASSUME RefInv, Alone, NEW j \in Jobs, Reply(j)
    PROVE  Refined
<1>1. ServesAccount(job[j]) \/ ServesSettings(job[j])
  BY DEF Reply, At, RefInv, AllServe, Serves, InFlight
<1> QED
  BY <1>1, ReplyTakes, ReplyTakesSettings DEF Refined

(* The process ends and starts again.                                      *)
Digests(U) == [n \in Names |-> IF U[n] # None THEN Digest(n, U[n]) ELSE None]

LEMMA BootKeeps ==
    ASSUME NEW S, Boot(S), NEW n \in Names, users[n] # None
    PROVE  users' = users /\ spent' = spent \cup S /\ crc' = Digests(users)
<1>1. users' = users /\ spent' = spent \cup S
  BY DEF Boot, Exists
<1> QED
  BY <1>1 DEF Boot, Digests

LEMMA ARestarts ==
    ASSUME Becomes(Base.users, Digests(Base.users), Base.on), UNCHANGED <<spent, revoked>>,
           cookie' \in {cookie, [b \in Browsers |-> None]}
    PROVE  A!Next
<1>1. Base.crc' = [n \in Names |-> IF A!Exists(n) THEN A!Digest(n, Base.users[n]) ELSE None]
  BY ADefs DEF Becomes, Digests, A!Exists
<1>2. \E fixed \in BOOLEAN : A!Restart(fixed)
  <2>1. CASE cookie' = cookie
    BY <1>1, <2>1 DEF A!Restart, Becomes
  <2>2. CASE cookie' # cookie
    BY <1>1, <2>2 DEF A!Restart, Becomes
  <2> QED
    BY <2>1, <2>2
<1> QED
  BY <1>2 DEF A!Next

LEMMA RestartRefines ==
    ASSUME RefInv, RestartStep
    PROVE  Refined
<1>1. /\ InFlight = {} /\ InFlight' = {} /\ Boot({}) /\ UNCHANGED <<passkeysOn, revoked>>
      /\ cookie' \in {cookie, [b \in Browsers |-> None]}
  BY DEF RestartStep, InFlight
<1>2. CASE \A n \in Names : ~Exists(n)
  BY <1>2 DEF CreatedAnew, Refined
<1>3. CASE \E n \in Names : Exists(n)
  <2>1. users' = users /\ spent' = spent /\ crc' = Digests(users)
    BY <1>1, <1>3, BootKeeps DEF Exists
  <2>2. Becomes(Base.users, Digests(Base.users), Base.on)
    BY <1>1, <2>1, BaseIdle DEF Becomes
  <2> QED
    BY <1>1, <2>1, <2>2, ARestarts DEF Refined
<1> QED
  BY <1>2, <1>3

LEMMA UntouchedStore ==
    ASSUME NEW r \in Job, ServesAccount(r) \/ ServesSettings(r), ~r.begun
    PROVE  users = r.base.users /\ passkeysOn = r.base.on
<1>1. CASE ServesAccount(r)
  <2>1. PICK d \in Names \cup {None}, t \in Names \cup {None}, u \in User \cup {None} :
           Progress(r, d, t, u)
    BY <1>1 DEF ServesAccount
  <2>2. Without(r.base.users, None) = r.base.users
    BY BaseTables, Tables
  <2>3. users = r.base.users
    BY <2>1, <2>2 DEF Progress
  <2> QED
    BY <1>1, <2>3 DEF ServesAccount
<1>2. CASE ServesSettings(r)
  BY <1>2 DEF ServesSettings
<1> QED
  BY <1>1, <1>2

(* Without failures behind it, the cache lacks the record being saved only.*)
LEMMA CacheBut ==
    ASSUME CacheInv, unsaved = {}, NEW j, InFlight = {j}, NEW n \in Names, ~Halfway(job[j], n)
    PROVE  crc[n] = Digests(users)[n]
BY DEF CacheInv, CacheFollows, CacheMatches, Exists, Digests

LEMMA DoneAccount ==
    ASSUME CacheInv, unsaved = {}, NEW j \in Jobs, InFlight = {j}, NEW r \in Job, r = job[j],
           r.begun, Done(j), ServesAccount(r)
    PROVE  \E d \in Names \cup {None}, t \in Names \cup {None}, u \in User \cup {None} :
              /\ Wants(r, cookie[r.b], d, t, u) /\ (t # None => u # None)
              /\ MayDemote(r, u) /\ MaySuspend(r, u)
              /\ users = With(Without(r.base.users, d), t, u)
              /\ Digests(users) = With(Without(r.base.crc, d), t, Digest(t, u))
              /\ \E n \in Names : users[n] # None
<1>1. PICK d \in Names \cup {None}, t \in Names \cup {None}, u \in User \cup {None} :
         /\ Wants(r, cookie[r.b], d, t, u) /\ (t # None => u # None)
         /\ r.pc # "demote" => MayDemote(r, u)
         /\ r.pc # "disable" => MaySuspend(r, u)
         /\ Progress(r, d, t, u)
  BY DEF ServesAccount
<1>2. r.pc \in {"write", "cache", "reply"}
  BY <1>1 DEF Progress
<1>3. r.pc = "write" => t = None
  <2> SUFFICES ASSUME r.pc = "write" PROVE t = None
    OBVIOUS
  <2>1. r.saves = Nothing
    BY DEF Done, At
  <2>2. r.saves = ToSave(t, u)
    BY <1>1 DEF Progress
  <2> QED
    BY <1>1, <2>1, <2>2, ToSaveFacts
<1>4. PICK U \in [Names -> User \cup {None}] : U = Without(r.base.users, d)
  BY BaseTables
<1>5. PICK C \in [Names -> Hash \cup {None}] : C = Without(r.base.crc, d)
  BY BaseTables
<1>6. With(U, None, u) = U /\ With(C, None, Digest(t, u)) = C
  BY Tables
<1>7. users = With(U, t, u)
  BY <1>1, <1>2, <1>3, <1>4, <1>6 DEF Progress
<1>8. ASSUME NEW n \in Names PROVE Digests(users)[n] = With(C, t, Digest(t, u))[n]
  <2>1. CASE n = t
    <3>1. users[n] = u /\ u # None
      BY <1>1, <1>7, <2>1, NoneIsNoJob DEF With
    <3> QED
      BY <2>1, <3>1 DEF Digests, With
  <2>2. CASE n # t
    <3>1. ~Halfway(job[j], n)
      BY <1>1, <1>2, <2>2 DEF Halfway, Progress
    <3>2. crc[n] = With(C, t, Digest(t, u))[n]
      BY <1>1, <1>2, <1>5, <2>2 DEF Progress, With
    <3> QED
      BY <3>1, <3>2, CacheBut
  <2> QED
    BY <2>1, <2>2
<1>9. Digests(users) = With(C, t, Digest(t, u))
  BY <1>8 DEF Digests, With
<1>10. \E n \in Names : users[n] # None
  <2>1. CASE t # None
    <3>1. t \in Names /\ users[t] = u /\ u # None
      BY <1>1, <1>7, <2>1 DEF With
    <3> QED
      BY <3>1
  <2>2. CASE t = None
    <3>1. WantsRemove(r, cookie[r.b], d, t, u)
      BY <1>1, <2>2, NoneIsNoJob
         DEF Wants, WantsLogin, WantsCreate, WantsUpdate, WantsAdmin, WantsDisabled, WantsRevoke,
             WantsRegister, WantsForget, WantsRename, WantsEdit
    <3>2. PICK m \in Names : m # d /\ Was(r, m) # None
      BY <3>1 DEF WantsRemove
    <3>3. users[m] = r.base.users[m]
      BY <1>4, <1>6, <1>7, <2>2, <3>2 DEF Without
    <3> QED
      BY <3>2, <3>3 DEF Was
  <2> QED
    BY <2>1, <2>2
<1>11. MayDemote(r, u) /\ MaySuspend(r, u)
  BY <1>1, <1>2
<1> QED
  <2> HIDE DEF Wants, MayDemote, MaySuspend, Digests
  <2> QED
    BY <1>1, <1>4, <1>5, <1>7, <1>9, <1>10, <1>11

LEMMA DoneSettings ==
    ASSUME CacheInv, unsaved = {}, NEW j \in Jobs, InFlight = {j}, NEW r \in Job, r = job[j],
           r.begun, Done(j), ServesSettings(r), \E n \in Names : Was(r, n) # None
    PROVE  /\ passkeysOn = r.on
           /\ IF r.base.on /\ ~r.on
              THEN users = StrippedUsers(r) /\ Digests(users) = StrippedCrc(r)
              ELSE users = r.base.users /\ Digests(users) = r.base.crc
           /\ \E n \in Names : users[n] # None
<1>1. Typed /\ Ready(r)
  BY JobAt DEF CacheInv, InFlight
<1>2. CASE r.base.on /\ ~r.on
  <2>1. passkeysOn = r.on /\ \A n \in Names : StrippedSoFar(r, n)
    <3> HIDE DEF StrippedSoFar, Nothing, AcceptedAdmin
    <3> QED
      BY <1>2 DEF ServesSettings
  <2>2. r.saves \in [Names -> User \cup {None}]
    BY DEF Job
  <2>3. \A n \in Names : r.saves[n] # None => r.pc = "cache" /\ n = r.target
    BY <2>2 DEF Done, At, Nothing
  <2>4. ASSUME NEW n \in Names
        PROVE  users[n] = StrippedUsers(r)[n] /\ Digests(users)[n] = StrippedCrc(r)[n]
    <3>1. users[n] = StrippedUsers(r)[n]
      <4>1. StrippedSoFar(r, n)
        BY <2>1
      <4> HIDE DEF Stripped, Was
      <4> QED
        BY <2>3, <4>1 DEF StrippedSoFar, StrippedUsers
    <3>2. CASE Stripped(r)[n] # None
      <4> HIDE DEF Stripped, Was
      <4> QED
        BY <3>1, <3>2 DEF Digests, StrippedUsers, StrippedCrc
    <3>3. CASE Stripped(r)[n] = None
      <4>1. StrippedSoFar(r, n)
        BY <2>1
      <4>2. crc[n] = StrippedCrc(r)[n] /\ r.saves[n] = None
        <5> HIDE DEF Stripped, Was
        <5> QED
          BY <3>3, <4>1 DEF StrippedSoFar, StrippedCrc
      <4>3. r.pc # "delete"
        BY DEF ServesSettings
      <4>4. ~Halfway(job[j], n)
        BY <1>1, <4>2, <4>3, NoneIsNoValue DEF Halfway, Ready
      <4> QED
        BY <3>1, <4>2, <4>4, CacheBut
    <3> QED
      BY <3>1, <3>2, <3>3
  <2>5. users = StrippedUsers(r)
    <3>1. users = [n \in Names |-> users[n]]
      BY <1>1 DEF Typed, StepsTypeOK, TypeOK
    <3>2. StrippedUsers(r) = [n \in Names |-> StrippedUsers(r)[n]]
      BY DEF StrippedUsers
    <3> QED
      BY <2>4, <3>1, <3>2
  <2>6. Digests(users) = StrippedCrc(r)
    <3>1. Digests(users) = [n \in Names |-> Digests(users)[n]]
      BY DEF Digests
    <3>2. StrippedCrc(r) = [n \in Names |-> StrippedCrc(r)[n]]
      BY DEF StrippedCrc
    <3> QED
      BY <2>4, <3>1, <3>2
  <2>7. \E n \in Names : users[n] # None
    <3>1. PICK n \in Names : Was(r, n) # None
      OBVIOUS
    <3>2. StrippedUsers(r)[n] # None
      <4> HIDE DEF Stripped, Was
      <4> QED
        BY <3>1 DEF StrippedUsers
    <3> QED
      BY <2>5, <3>2
  <2> QED
    BY <1>2, <2>1, <2>5, <2>6, <2>7
<1>3. CASE ~(r.base.on /\ ~r.on)
  <2>1. users = r.base.users /\ crc = r.base.crc /\ passkeysOn = r.on /\ r.pc = "reply"
    <3> HIDE DEF StrippedSoFar, Nothing, AcceptedAdmin
    <3> QED
      BY <1>3 DEF ServesSettings
  <2>2. \A n \in Names : crc[n] = Digests(users)[n]
    BY <2>1, CacheBut DEF Halfway
  <2>3. Digests(users) = crc
    <3>1. crc = [n \in Names |-> crc[n]]
      BY <1>1 DEF Typed, StepsTypeOK, TypeOK
    <3>2. Digests(users) = [n \in Names |-> Digests(users)[n]]
      BY DEF Digests
    <3> QED
      BY <2>2, <3>1, <3>2
  <2>4. \E n \in Names : users[n] # None
    BY <2>1 DEF Was
  <2> QED
    BY <1>3, <2>1, <2>3, <2>4
<1> QED
  BY <1>2, <1>3

LEMMA CrashOne ==
    ASSUME Crash, NEW j \in Jobs, InFlight = {j}, NEW r, r = job[j]
    PROVE  /\ InFlight' = {} /\ UNCHANGED <<cookie, passkeysOn>>
           /\ r.begun => Boot(r.spends) /\ revoked' = revoked \cup EndedBy(j)
           /\ ~r.begun => Boot({}) /\ revoked' = revoked
<1>1. PICK begun : begun = {i \in InFlight : job[i].begun}
  OBVIOUS
<1>2. /\ Boot(UNION {job[i].spends : i \in begun})
      /\ revoked' = revoked \cup UNION {EndedBy(i) : i \in begun}
  BY <1>1 DEF Crash
<1>3. InFlight' = {} /\ UNCHANGED <<cookie, passkeysOn>>
  BY DEF Crash, InFlight
<1>4. CASE r.begun
  <2>1. begun = {j}
    BY <1>1, <1>4
  <2>2. UNION {job[i].spends : i \in begun} = r.spends
    BY <2>1
  <2>3. UNION {EndedBy(i) : i \in begun} = EndedBy(j)
    BY <2>1
  <2> QED
    BY <1>2, <1>3, <1>4, <2>2, <2>3
<1>5. CASE ~r.begun
  <2>1. begun = {}
    BY <1>1, <1>5
  <2>2. UNION {job[i].spends : i \in begun} = {} /\ UNION {EndedBy(i) : i \in begun} = {}
    BY <2>1
  <2> QED
    BY <1>2, <1>3, <1>5, <2>2
<1> QED
  BY <1>4, <1>5

LEMMA CrashRefines ==
    ASSUME RefInv, Alone, Crash
    PROVE  Refined
<1>1. PICK j \in Jobs : InFlight = {j}
  BY DEF Crash, Alone, InFlight
<1>2. PICK r : r = job[j]
  OBVIOUS
<1>3. r \in Job /\ Serves(r) /\ BaseIs(r) /\ CacheInv
  BY <1>1, <1>2, JobAt, BaseBusy DEF InFlight, RefInv, CacheInv, AllServe
<1>4. InFlight' = {} /\ UNCHANGED <<cookie, passkeysOn>>
  BY <1>1, <1>2, CrashOne
<1>5. CASE r.begun /\ (~Done(j) \/ unsaved # {})
  BY <1>1, <1>2, <1>5 DEF CutShort, Refined
<1>6. CASE ~r.begun
  <2>1. Boot({}) /\ revoked' = revoked
    BY <1>1, <1>2, <1>6, CrashOne
  <2>2. users = r.base.users /\ passkeysOn = r.base.on
    BY <1>3, <1>6, UntouchedStore DEF Serves
  <2>3. \E n \in Names : users[n] # None
    BY <1>3, <2>2 DEF Serves, Was
  <2>4. users' = users /\ spent' = spent /\ crc' = Digests(users)
    BY <2>1, <2>3, BootKeeps
  <2>5. Becomes(Base.users, Digests(Base.users), Base.on)
    BY <1>3, <1>4, <2>2, <2>4, BaseIdle DEF Becomes, BaseIs
  <2> QED
    BY <1>4, <2>1, <2>4, <2>5, ARestarts DEF Refined
<1>7. CASE r.begun /\ Done(j) /\ unsaved = {}
  <2>1. Boot(r.spends) /\ revoked' = revoked \cup EndedBy(j)
    BY <1>1, <1>2, <1>7, CrashOne
  <2>2. EndedBy(j) = SessionsWere(r, r.ends)
    BY <1>2 DEF EndedBy, SessionsWere, Was
  <2>3. ASSUME \E n \in Names : users[n] # None
        PROVE  /\ Becomes(users, Digests(users), passkeysOn)
               /\ spent' = spent \cup r.spends
    <3>1. users' = users /\ spent' = spent \cup r.spends /\ crc' = Digests(users)
      BY <2>1, <2>3, BootKeeps
    <3> QED
      BY <1>4, <3>1, BaseIdle DEF Becomes
  <2>4. CASE ServesAccount(r)
    <3>1. PICK d \in Names \cup {None}, t \in Names \cup {None}, u \in User \cup {None} :
              /\ Wants(r, cookie[r.b], d, t, u) /\ (t # None => u # None)
              /\ MayDemote(r, u) /\ MaySuspend(r, u)
              /\ users = With(Without(r.base.users, d), t, u)
              /\ Digests(users) = With(Without(r.base.crc, d), t, Digest(t, u))
              /\ \E n \in Names : users[n] # None
      BY <1>1, <1>2, <1>3, <1>7, <2>4, DoneAccount
    <3>2. Takes(r, d, t, u)
      <4>1. passkeysOn = r.base.on
        BY <2>4 DEF ServesAccount
      <4>2. Becomes(With(Without(r.base.users, d), t, u),
                    With(Without(r.base.crc, d), t, Digest(t, u)), r.base.on)
        BY <2>3, <3>1, <4>1
      <4>3. Answered(r, t, u)
        BY <1>4 DEF Answered
      <4>4. /\ spent' = spent \cup r.spends
            /\ revoked' = revoked \cup SessionsWere(r, r.ends)
        BY <2>1, <2>2, <2>3, <3>1
      <4> HIDE DEF Becomes, Answered, SessionsWere
      <4> QED
        BY <1>4, <4>2, <4>3, <4>4 DEF Takes
    <3>3. r.spends \cap spent = {} /\ (t \in Names => u \in User)
      BY <1>3, <3>1, NoneIsNoJob DEF Serves
    <3>4. A!Next
      BY <1>3, <3>1, <3>2, <3>3, ATakes
    <3> QED
      BY <3>4 DEF Refined
  <2>5. CASE ServesSettings(r)
    <3>1. /\ passkeysOn = r.on
          /\ IF r.base.on /\ ~r.on
             THEN users = StrippedUsers(r) /\ Digests(users) = StrippedCrc(r)
             ELSE users = r.base.users /\ Digests(users) = r.base.crc
          /\ \E n \in Names : users[n] # None
      <4>1. \E n \in Names : Was(r, n) # None
        BY <1>3 DEF Serves
      <4> QED
        BY <1>1, <1>2, <1>3, <1>7, <2>5, <4>1, DoneSettings
    <3>2. r.ends = None /\ r.spends = {} /\ AcceptedAdmin(r, cookie[r.b])
      BY <2>5 DEF ServesSettings
    <3>3. spent' = spent /\ revoked' = revoked
      BY <2>1, <2>2, <2>3, <3>1, <3>2 DEF SessionsWere
    <3>4. Becomes(users, Digests(users), r.on)
      BY <2>3, <3>1
    <3>5. TakesSettings(r)
      <4> HIDE DEF Becomes, StrippedUsers, StrippedCrc, Digests, CookieFor
      <4> QED
        BY <1>4, <3>1, <3>3, <3>4 DEF TakesSettings
    <3>6. A!Next
      BY <1>3, <3>2, <3>5, ASettings
    <3> QED
      BY <3>6 DEF Refined
  <2> QED
    BY <1>3, <2>4, <2>5 DEF Serves
<1> QED
  BY <1>5, <1>6, <1>7

(* One step of AccountSteps is at most one of Accounts, or an exception.   *)
LEMMA RefinesStep == RefInv /\ Alone /\ Alone' /\ [StepsNext]_stepVars => Refined
<1> SUFFICES ASSUME RefInv, Alone, Alone', [StepsNext]_stepVars PROVE Refined
  OBVIOUS
<1>1. ASSUME NEW j \in Jobs, Work(j) PROVE Refined
  BY <1>1, WorkRefines, ReplyRefines
<1>2. ASSUME NEW j \in Jobs, NEW b \in Browsers, BeginAny(j, b) PROVE Refined
  BY <1>2, BeginRefines
<1>3. ASSUME NEW b \in Browsers, LogoutStep(b) \/ ExpireStep(b) PROVE Refined
  BY <1>3, OutsideRefines
<1>4. ASSUME NEW j \in Jobs, FailWrite(j) \/ FailDelete(j) PROVE Refined
  <2>1. j \in InFlight
    BY <1>4 DEF FailWrite, FailDelete, At, InFlight
  <2> QED
    BY <1>4, <2>1 DEF FailedWrite, Refined
<1>5. CASE UNCHANGED stepVars
  BY <1>5 DEF stepVars, Refined, A!vars, Base, InFlight
<1> QED
  BY <1>1, <1>2, <1>3, <1>4, <1>5, CrashRefines, RestartRefines DEF StepsNext

(* Handlers that do not overlap, and may be cut short or fail anywhere,    *)
(* are handlers that take effect at once, when they answer, or not at all: *)
(* AccountSteps starts as Accounts does and every step is one of Accounts, *)
(* or changes nothing it sees, but for the exceptions RefinesAccounts      *)
(* names.                                                                  *)
THEOREM StepsRefine == StepsSpec /\ []Alone => A!Init /\ RefinesAccounts
<1>1. StepsInit => RefInv
  BY CacheStart DEF StepsInit, RefInv, AllServe, InFlight
<1>2. StepsInit => A!Init
  <2> SUFFICES ASSUME StepsInit PROVE A!Init
    OBVIOUS
  <2>1. InFlight = {} /\ Init
    BY DEF StepsInit, InFlight
  <2>2. Base.users = users /\ Base.crc = crc /\ Base.on = passkeysOn
    BY <2>1, BaseIdle
  <2>3. Base.crc = [n \in Names |-> IF A!Exists(n) THEN A!Digest(n, Base.users[n]) ELSE None]
    BY <2>1, <2>2, ADefs DEF Init, A!Exists, Exists
  <2>4. \E n \in Names, pw \in PwHashes, prof \in Profiles :
           /\ Base.users = [m \in Names |-> IF m # n THEN None ELSE
                              [pw |-> pw, admin |-> TRUE, disabled |-> FALSE, epoch |-> 0,
                               profile |-> prof, passkeys |-> A!NoPasskeys]]
           /\ spent = {pw}
    <3>1. PICK n \in Names, pw \in PwHashes, prof \in Profiles :
             /\ users = [m \in Names |-> IF m # n THEN None ELSE
                          [pw |-> pw, admin |-> TRUE, disabled |-> FALSE, epoch |-> 0,
                           profile |-> prof, passkeys |-> NoPasskeys]]
             /\ spent = {pw}
      BY <2>1 DEF Init
    <3>2. PICK E : E = NoPasskeys
      OBVIOUS
    <3>3. A!NoPasskeys = E
      BY <3>2 DEF A!NoPasskeys, NoPasskeys
    <3>4. Base.users = [m \in Names |-> IF m # n THEN None ELSE
                          [pw |-> pw, admin |-> TRUE, disabled |-> FALSE, epoch |-> 0,
                           profile |-> prof, passkeys |-> E]]
      BY <2>2, <3>1, <3>2
    <3>5. Base.users = [m \in Names |-> IF m # n THEN None ELSE
                          [pw |-> pw, admin |-> TRUE, disabled |-> FALSE, epoch |-> 0,
                           profile |-> prof, passkeys |-> A!NoPasskeys]]
      BY <3>3, <3>4
    <3> QED
      BY <3>1, <3>5
  <2>5. cookie = [b \in Browsers |-> None] /\ Base.on = FALSE /\ revoked = {}
    BY <2>1, <2>2 DEF Init
  <2> QED
    BY <2>3, <2>4, <2>5 DEF A!Init
<1>3. RefInv /\ Alone /\ Alone' /\ [StepsNext]_stepVars =>
        [A!Next \/ CutShort \/ FailedWrite \/ CreatedAnew]_(A!vars)
  BY RefinesStep DEF Refined
<1> QED
  BY <1>1, <1>2, <1>3, RefStep, PTL DEF StepsSpec, RefinesAccounts

(* A run without those exceptions is a run of Accounts, so all that        *)
(* AccountsProofs shows of Accounts holds of what Base, the cookies and    *)
(* the two histories go through.                                           *)
THEOREM StepsImplement ==
    StepsSpec /\ []Alone /\ [][~CutShort /\ ~FailedWrite /\ ~CreatedAnew]_stepVars => A!Spec
<1>1. UNCHANGED stepVars => UNCHANGED (A!vars)
  BY DEF stepVars, A!vars, Base, InFlight
<1>2. [A!Next \/ CutShort \/ FailedWrite \/ CreatedAnew]_(A!vars)
      /\ [~CutShort /\ ~FailedWrite /\ ~CreatedAnew]_stepVars => [A!Next]_(A!vars)
  BY <1>1
<1> QED
  BY <1>2, StepsRefine, PTL DEF RefinesAccounts, A!Spec
=============================================================================
