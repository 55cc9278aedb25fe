------------------------------ MODULE Accounts ------------------------------
(***************************************************************************)
(* User accounts and the cookie sessions that belong to them, with every   *)
(* HTTP handler taken as one indivisible step.                             *)
(*                                                                         *)
(* The server keeps no table of sessions.  A session is a signed cookie    *)
(* held by a browser; it carries the user name, the administrator flag and *)
(* a checksum of the whole user record.  The server compares that checksum *)
(* with util.DBUsersToCRC32, an in-memory cache of the checksums of the    *)
(* records in the JSON store, so "sign everybody out" is done by changing  *)
(* the record.  This module says what that scheme promises.  AccountSteps  *)
(* splits the handlers at their calls into the store and is shown to       *)
(* implement this module as long as no two of them overlap.                *)
(*                                                                         *)
(* Covered: log in by password and by passkey, log out, every handler that *)
(* writes a user record, turning passkeys off in the global settings, a    *)
(* restart of the server.                                                  *)
(* Not covered: the time bounds of a session (Expire stands for any of     *)
(* them running out), DISABLE_LOGIN, collisions of the 32-bit checksum.    *)
(***************************************************************************)
EXTENDS Naturals

CONSTANTS
    Names,        \* user names
    Browsers,     \* each holds at most one session cookie
    PwHashes,     \* password hashes; bcrypt salts, so each one is issued once
    Creds,        \* passkey credential ids; an authenticator never reuses one
    Labels,       \* display names a user gives to passkeys
    Profiles,     \* pairs of display name and e-mail address
    MaxEpoch,     \* bound on AuthEpoch, an int64 in the code
    None          \* absent record, absent cookie, absent credential

(* An account as the store keeps it; passkeys maps each registered         *)
(* credential to its label.                                                *)
User == [pw: PwHashes, admin: BOOLEAN, disabled: BOOLEAN, epoch: Nat,
         profile: Profiles, passkeys: [Creds -> Labels \cup {None}]]

(* What the checksum of a record stands for: the record and its name.      *)
Hash == [name: Names, user: User]

(* The fields of the session cookie that identify the user.                *)
Cookie == [username: Names, admin: BOOLEAN, hash: Hash]

ASSUME ConstantsAssumption ==
    /\ MaxEpoch \in Nat
    /\ None \notin User \cup Hash \cup Cookie \cup Labels

VARIABLES
    users,        \* the JSON store: the record of each name
    crc,          \* util.DBUsersToCRC32
    cookie,       \* the session cookie in each browser
    passkeysOn,   \* GlobalSetting.TOTPEnabled
    spent,        \* password hashes and credential ids used so far
    revoked       \* history: browsers whose cookie was revoked and that have
                  \* not logged in again

vars == <<users, crc, cookie, passkeysOn, spent, revoked>>

NoPasskeys == [k \in Creds |-> None]

HasPasskeys(u) == u.passkeys # NoPasskeys

-----------------------------------------------------------------------------
(* The checksum and the cookie.                                            *)

\* Mutant: the disabled flag is left out of the checksum.
DigestSansDisabled(n, u) == [name |-> n, user |-> [u EXCEPT !.disabled = FALSE]]

Digest(n, u) == [name |-> n, user |-> u]

CookieFor(n, u) == [username |-> n, admin |-> u.admin, hash |-> Digest(n, u)]

ValidSession(b) ==
    /\ cookie[b] # None
    /\ crc[cookie[b].username] = cookie[b].hash

NeedsAdmin(b) == ValidSession(b) /\ cookie[b].admin

Me(b) == cookie[b].username

MayActFor(b, n) == ValidSession(b) /\ (cookie[b].admin \/ n = Me(b))

Exists(n) == users[n] # None

(* Sessions issued to the account now called n since its password was set. *)
SessionsOf(n) == {b \in Browsers : /\ cookie[b] # None
                                   /\ cookie[b].username = n
                                   /\ cookie[b].hash.user.pw = users[n].pw}

-----------------------------------------------------------------------------
(* The store, and what a handler does to the cookie of its caller.         *)

SaveUser(n, u) ==
    /\ users' = [users EXCEPT ![n] = u]
    /\ crc' = [crc EXCEPT ![n] = Digest(n, u)]

(* A reply sets the cookie of b, unless it is lost on its way.             *)
Receives(b, c) == cookie' \in {cookie, [cookie EXCEPT ![b] = c]}

SetUser(b, n, u) == Receives(b, CookieFor(n, u))

ClearSession(b) == Receives(b, None)

(* After a handler that changed the caller's own record.                   *)
RefreshIfSelf(b, n, u) ==
    IF n = Me(b) THEN SetUser(b, n, u) ELSE UNCHANGED cookie

(* After a handler that ended the sessions of n.                           *)
ClearIfSelf(b, n) == IF n = Me(b) THEN ClearSession(b) ELSE UNCHANGED cookie

Revoke(n) == revoked' = revoked \cup SessionsOf(n)

ActiveAdmins == {n \in Names : Exists(n) /\ users[n].admin /\ ~users[n].disabled}

EnsureCanDemote(n) == users[n].admin => ActiveAdmins \ {n} # {}

\* Mutant: the account itself is counted among those left.
LeavingAdminCountingSelf(n) ==
    users[n].admin /\ ~users[n].disabled => ActiveAdmins # {}

EnsureLeavingActiveAdminWhenDisabling(n) ==
    users[n].admin /\ ~users[n].disabled => ActiveAdmins \ {n} # {}

-----------------------------------------------------------------------------
(* Logging in and out.                                                     *)

SetLoginSession(b, n) ==
    /\ crc' = [crc EXCEPT ![n] = Digest(n, users[n])]
    /\ SetUser(b, n, users[n])
    /\ revoked' = IF cookie' = cookie THEN revoked ELSE revoked \ {b}
    /\ UNCHANGED <<users, passkeysOn, spent>>

\* Mutant: a suspended account may log in.
LoginSuspendedToo(b, n) == Exists(n) /\ SetLoginSession(b, n)

(* The right password was given; a wrong one changes nothing.              *)
Login(b, n) ==
    /\ Exists(n)
    /\ ~users[n].disabled
    /\ SetLoginSession(b, n)

(* A credential registered for n signed the challenge.                     *)
PasskeyFinishLogin(b, n) ==
    /\ passkeysOn
    /\ Exists(n)
    /\ HasPasskeys(users[n])
    /\ ~users[n].disabled
    /\ SetLoginSession(b, n)

Logout(b) ==
    /\ ValidSession(b)
    /\ ClearSession(b)
    /\ UNCHANGED <<users, crc, passkeysOn, spent, revoked>>

(* A time bound of the session ran out, or the browser dropped its cookie. *)
Expire(b) ==
    /\ cookie[b] # None
    /\ cookie' = [cookie EXCEPT ![b] = None]
    /\ UNCHANGED <<users, crc, passkeysOn, spent, revoked>>

-----------------------------------------------------------------------------
(* Writing user records.                                                   *)

CreateUser(b, n, pw, adm, prof) ==
    /\ NeedsAdmin(b)
    /\ ~Exists(n)
    /\ SaveUser(n, [pw |-> pw, admin |-> adm, disabled |-> FALSE, epoch |-> 0,
                    profile |-> prof, passkeys |-> NoPasskeys])
    /\ spent' = spent \cup {pw}
    /\ UNCHANGED <<cookie, passkeysOn, revoked>>

\* Mutant: a password left blank is stored like any other.
UpdatedUserBlankPassword(b, prev, pw, adm, prof) ==
    [users[prev] EXCEPT
        !.pw = pw,
        !.admin = IF prev = Me(b) THEN @ ELSE cookie[b].admin /\ adm,
        !.profile = prof]

(* The record UpdateUser saves; pw is None when no password was typed.     *)
UpdatedUser(b, prev, pw, adm, prof) ==
    [users[prev] EXCEPT
        !.pw = IF pw = None THEN @ ELSE pw,
        !.admin = IF prev = Me(b) THEN @ ELSE cookie[b].admin /\ adm,
        !.profile = prof]

(* The record is deleted under its old name and saved under the new one,   *)
(* which may be the same.                                                  *)
UpdateUser(b, prev, n, pw, adm, prof) ==
    LET u == UpdatedUser(b, prev, pw, adm, prof)
    IN  /\ MayActFor(b, prev)
        /\ Exists(prev)
        /\ n # prev => ~Exists(n)
        /\ prev # Me(b) /\ ~u.admin => EnsureCanDemote(prev)
        /\ users' = [users EXCEPT ![prev] = None, ![n] = u]
        /\ crc' = [crc EXCEPT ![prev] = None, ![n] = Digest(n, u)]
        /\ spent' = IF pw = None THEN spent ELSE spent \cup {pw}
        /\ IF prev # Me(b) THEN UNCHANGED cookie
           ELSE IF pw # None THEN ClearSession(b)
           ELSE SetUser(b, n, u)
        /\ IF pw # None THEN Revoke(prev) ELSE UNCHANGED revoked
        /\ UNCHANGED passkeysOn

RemoveUser(b, n) ==
    /\ NeedsAdmin(b)
    /\ n # Me(b)
    /\ Exists(n)
    /\ ~users[n].admin
    /\ users' = [users EXCEPT ![n] = None]
    /\ crc' = [crc EXCEPT ![n] = None]
    /\ Revoke(n)
    /\ UNCHANGED <<cookie, passkeysOn, spent>>

SetUserAdmin(b, n, adm) ==
    LET u == [users[n] EXCEPT !.admin = adm]
    IN  /\ NeedsAdmin(b)
        /\ Exists(n)
        /\ ~adm => n # Me(b) /\ EnsureCanDemote(n)
        /\ SaveUser(n, u)
        /\ RefreshIfSelf(b, n, u)
        /\ UNCHANGED <<passkeysOn, spent, revoked>>

EnableUser(b, n) ==
    LET u == [users[n] EXCEPT !.disabled = FALSE]
    IN  /\ SaveUser(n, u)
        /\ RefreshIfSelf(b, n, u)

DisableUser(b, n) ==
    /\ ~users[n].disabled
    /\ EnsureLeavingActiveAdminWhenDisabling(n)
    /\ SaveUser(n, [users[n] EXCEPT !.disabled = TRUE])
    /\ ClearIfSelf(b, n)

SetUserDisabled(b, n, disabled) ==
    /\ NeedsAdmin(b)
    /\ Exists(n)
    /\ IF disabled THEN DisableUser(b, n) ELSE EnableUser(b, n)
    /\ UNCHANGED <<passkeysOn, spent, revoked>>

RevokeUserSessions(b, n) ==
    /\ NeedsAdmin(b)
    /\ Exists(n)
    /\ ~users[n].disabled
    /\ users[n].epoch < MaxEpoch
    /\ SaveUser(n, [users[n] EXCEPT !.epoch = @ + 1])
    /\ ClearIfSelf(b, n)
    /\ Revoke(n)
    /\ UNCHANGED <<passkeysOn, spent>>

-----------------------------------------------------------------------------
(* Passkeys of an account.                                                 *)

PasskeyFinishRegister(b, n, k, l) ==
    LET u == [users[n] EXCEPT !.passkeys[k] = l]
    IN  /\ passkeysOn
        /\ MayActFor(b, n)
        /\ Exists(n)
        /\ SaveUser(n, u)
        /\ RefreshIfSelf(b, n, u)
        /\ spent' = spent \cup {k}
        /\ UNCHANGED <<passkeysOn, revoked>>

\* Mutant: a passkey is dropped and the epoch is not bumped.
PasskeyRemoveSansEpoch(b, n, k) ==
    /\ passkeysOn
    /\ MayActFor(b, n)
    /\ Exists(n)
    /\ users[n].passkeys[k] # None
    /\ SaveUser(n, [users[n] EXCEPT !.passkeys[k] = None])
    /\ ClearIfSelf(b, n)
    /\ Revoke(n)
    /\ UNCHANGED <<passkeysOn, spent>>

PasskeyRemove(b, n, k) ==
    /\ passkeysOn
    /\ MayActFor(b, n)
    /\ Exists(n)
    /\ users[n].passkeys[k] # None
    /\ users[n].epoch < MaxEpoch
    /\ SaveUser(n, [users[n] EXCEPT !.passkeys[k] = None, !.epoch = @ + 1])
    /\ ClearIfSelf(b, n)
    /\ Revoke(n)
    /\ UNCHANGED <<passkeysOn, spent>>

PasskeyRename(b, n, k, l) ==
    LET u == [users[n] EXCEPT !.passkeys[k] = l]
    IN  /\ passkeysOn
        /\ MayActFor(b, n)
        /\ Exists(n)
        /\ users[n].passkeys[k] # None
        /\ SaveUser(n, u)
        /\ RefreshIfSelf(b, n, u)
        /\ UNCHANGED <<passkeysOn, spent, revoked>>

(* Every record that has a passkey is saved without any.                   *)
ClearStoredPasskeysForAllUsers ==
    LET cleared(n) == [users[n] EXCEPT !.passkeys = NoPasskeys]
        had == {n \in Names : Exists(n) /\ HasPasskeys(users[n])}
    IN  /\ users' = [n \in Names |-> IF n \in had THEN cleared(n) ELSE users[n]]
        /\ crc' = [n \in Names |-> IF n \in had THEN Digest(n, cleared(n)) ELSE crc[n]]

(* Only the passkey switch of the settings page concerns the accounts.     *)
GlobalSettingSubmit(b, on) ==
    /\ NeedsAdmin(b)
    /\ passkeysOn' = on
    /\ IF passkeysOn /\ ~on
       THEN /\ ClearStoredPasskeysForAllUsers
            /\ SetUser(b, Me(b), users'[Me(b)])
       ELSE UNCHANGED <<users, crc, cookie>>
    /\ UNCHANGED <<spent, revoked>>

-----------------------------------------------------------------------------
(* A restart rebuilds the cache from the store.  Cookies outlive it when   *)
(* SESSION_SECRET is set; otherwise a random secret replaces the old one   *)
(* and every cookie is void.  The store is never empty (ActiveAdminRemains *)
(* below), so the default account is not created again.                    *)
Restart(secretFixed) ==
    /\ crc' = [n \in Names |-> IF Exists(n) THEN Digest(n, users[n]) ELSE None]
    /\ IF secretFixed THEN UNCHANGED cookie
                      ELSE cookie' = [b \in Browsers |-> None]
    /\ UNCHANGED <<users, passkeysOn, spent, revoked>>

(* First start: one default administrator, passkeys off.                   *)
Init ==
    /\ \E n \in Names, pw \in PwHashes, prof \in Profiles :
          /\ users = [m \in Names |-> IF m # n THEN None ELSE
                        [pw |-> pw, admin |-> TRUE, disabled |-> FALSE, epoch |-> 0,
                         profile |-> prof, passkeys |-> NoPasskeys]]
          /\ spent = {pw}
    /\ crc = [n \in Names |-> IF Exists(n) THEN Digest(n, users[n]) ELSE None]
    /\ cookie = [b \in Browsers |-> None]
    /\ passkeysOn = FALSE
    /\ revoked = {}

Next ==
    \/ \E b \in Browsers :
        \/ Logout(b)
        \/ Expire(b)
        \/ \E on \in BOOLEAN : GlobalSettingSubmit(b, on)
        \/ \E n \in Names :
            \/ Login(b, n)
            \/ PasskeyFinishLogin(b, n)
            \/ RemoveUser(b, n)
            \/ RevokeUserSessions(b, n)
            \/ \E adm \in BOOLEAN : SetUserAdmin(b, n, adm)
            \/ \E disabled \in BOOLEAN : SetUserDisabled(b, n, disabled)
            \/ \E pw \in PwHashes \ spent, adm \in BOOLEAN, prof \in Profiles :
                  CreateUser(b, n, pw, adm, prof)
            \/ \E prev \in Names, pw \in (PwHashes \ spent) \cup {None},
                  adm \in BOOLEAN, prof \in Profiles :
                  UpdateUser(b, prev, n, pw, adm, prof)
            \/ \E k \in Creds \ spent, l \in Labels : PasskeyFinishRegister(b, n, k, l)
            \/ \E k \in Creds : PasskeyRemove(b, n, k)
            \/ \E k \in Creds, l \in Labels : PasskeyRename(b, n, k, l)
    \/ \E secretFixed \in BOOLEAN : Restart(secretFixed)

Spec == Init /\ [][Next]_vars

-----------------------------------------------------------------------------
(* The inductive invariant.                                                *)

(* The cache holds the checksum of each stored record, and of no other.    *)
CacheMatchesStore ==
    \A n \in Names : crc[n] = IF Exists(n) THEN Digest(n, users[n]) ELSE None

(* A cookie is written from one record, never that of a suspended account. *)
CookiesFromRecords ==
    \A b \in Browsers : cookie[b] # None =>
        /\ cookie[b] = CookieFor(cookie[b].username, cookie[b].hash.user)
        /\ ~cookie[b].hash.user.disabled

(* A password hash in use is spent, and belongs to one account.            *)
HashesInUse ==
    /\ \A n \in Names : Exists(n) => users[n].pw \in spent
    /\ \A b \in Browsers : cookie[b] # None => cookie[b].hash.user.pw \in spent
    /\ \A m, n \in Names : Exists(m) /\ Exists(n) /\ users[m].pw = users[n].pw => m = n

(* A cookie is never ahead of the account that has its password hash, and  *)
(* is behind it once revoked.                                              *)
EpochsBehind ==
    \A b \in Browsers, n \in Names :
        cookie[b] # None /\ Exists(n) /\ users[n].pw = cookie[b].hash.user.pw =>
            /\ cookie[b].hash.user.epoch <= users[n].epoch
            /\ b \in revoked => cookie[b].hash.user.epoch < users[n].epoch

-----------------------------------------------------------------------------
(* Properties.                                                             *)

(* Every variable has the shape of the Go value it stands for.             *)
TypeOK ==
    /\ users \in [Names -> User \cup {None}]
    /\ crc \in [Names -> Hash \cup {None}]
    /\ cookie \in [Browsers -> Cookie \cup {None}]
    /\ passkeysOn \in BOOLEAN
    /\ spent \subseteq PwHashes \cup Creds
    /\ revoked \subseteq Browsers

(* The guards of SetUserAdmin, SetUserDisabled, UpdateUser and RemoveUser  *)
(* together never leave the system without somebody able to administer it. *)
ActiveAdminRemains == ActiveAdmins # {}

(* What every reachable state satisfies and every step preserves.  The     *)
(* session properties below follow from it; none is inductive by itself.   *)
IInv ==
    /\ TypeOK
    /\ CacheMatchesStore
    /\ CookiesFromRecords
    /\ HashesInUse
    /\ EpochsBehind

(* A session the server accepts speaks for an account that exists, is not  *)
(* suspended, and has the role and the data the session was given.         *)
SessionMatchesAccount ==
    \A b \in Browsers : ValidSession(b) =>
        /\ Exists(Me(b))
        /\ ~users[Me(b)].disabled
        /\ cookie[b].admin = users[Me(b)].admin
        /\ cookie[b].hash = Digest(Me(b), users[Me(b)])

(* Once an account's sessions were ended (revoked, passkey removed,        *)
(* password changed, account removed) no later sequence of edits, renames, *)
(* restarts or re-creations makes the server accept one of them again.     *)
RevokedStaysOut == \A b \in revoked : ~ValidSession(b)

(* session.go: any change to a user results in logout of the sessions that *)
(* were not updated by that same request.                                  *)
ChangeSignsOutOthers ==
    [][\A b \in Browsers :
         /\ ValidSession(b)
         /\ cookie'[b] = cookie[b]
         /\ users'[Me(b)] # users[Me(b)]
         => ~ValidSession(b)']_vars

(* model.User: suspending an account invalidates its existing sessions, so *)
(* lifting the suspension brings none of them back.                        *)
EnableRevivesNoSession ==
    [][\A n \in Names :
         /\ users[n] # None /\ users[n].disabled
         /\ users'[n] # None /\ ~users'[n].disabled
         => \A b \in Browsers :
              cookie[b] # None /\ cookie'[b] = cookie[b] /\ Me(b) = n
              => ~ValidSession(b)']_vars
=============================================================================
