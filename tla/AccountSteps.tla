---------------------------- MODULE AccountSteps ----------------------------
(***************************************************************************)
(* The account handlers of Accounts, split at their calls into the store.  *)
(*                                                                         *)
(* A handler is a job.  It checks the session of its caller and reads the  *)
(* record it is about, checks that an administrator remains, deletes and   *)
(* writes files, brings the checksum cache up to date and answers.  Other  *)
(* handlers may run between its steps (no lock is held across them), and   *)
(* the process may end anywhere.  Writing or deleting a file may fail,     *)
(* which ends the handler with an error.                                   *)
(*                                                                         *)
(* With one job at a time this module implements Accounts, except where a  *)
(* write fails, or a handler makes more than one change to the store and   *)
(* the process ends between them.  With two it does not; the runs show     *)
(* what is lost.                                                           *)
(***************************************************************************)
EXTENDS Accounts

CONSTANTS Jobs    \* HTTP requests that may be in flight together

VARIABLES
    job,          \* the account handlers in flight
    unsaved       \* history: accounts a save or a delete of which failed, until
                  \* their cache entry and their file agree again

stepVars == <<users, crc, cookie, passkeysOn, spent, revoked, job, unsaved>>

-----------------------------------------------------------------------------
(* Jobs.                                                                   *)

Job == [b: Browsers,                             \* who asks
        pc: {"demote", "disable", "settings", "drop", "delete", "write", "cache", "reply"},
        about: Names \cup {None},                \* the account to check again
        del: Names \cup {None},                  \* the file to delete
        saves: [Names -> User \cup {None}],      \* the files to write
        target: Names \cup {None},               \* the one written last, and its record
        rec: User \cup {None},
        reply: {"login", "refresh", "clear", "keep", "reread"},
        ends: Names \cup {None},                 \* whose sessions the handler ends
        spends: SUBSET (PwHashes \cup Creds),
        on: BOOLEAN,
        begun: BOOLEAN,                          \* the store has been changed
        base: [users: [Names -> User \cup {None}], crc: [Names -> Hash \cup {None}],
               on: BOOLEAN]]

ASSUME StepsAssumption == None \notin Job \cup Names

Nothing == [n \in Names |-> None]

Saving(n, u) == [Nothing EXCEPT ![n] = u]

(* base is what the store and its cache held when the job began; only the  *)
(* history variable and the refinement mapping below look at it.           *)
NewJob(b) ==
    [b |-> b, pc |-> "write", about |-> None, target |-> None, del |-> None, saves |-> Nothing,
     rec |-> None, reply |-> "keep", ends |-> None, spends |-> {}, on |-> FALSE,
     begun |-> FALSE, base |-> [users |-> users, crc |-> crc, on |-> passkeysOn]]

Begin(j, request) ==
    /\ job[j] = None
    /\ job' = [job EXCEPT ![j] = request]
    /\ UNCHANGED <<users, crc, cookie, passkeysOn, spent, revoked>>

At(j, pc) == job[j] # None /\ job[j].pc = pc

Goto(j, pc) == job' = [job EXCEPT ![j].pc = pc]

End(j) == job' = [job EXCEPT ![j] = None]

Unused(S) == S \ (spent \cup UNION {job[j].spends : j \in {i \in Jobs : job[i] # None}})

IfSelf(b, n, reply) == IF n = Me(b) THEN reply ELSE "keep"

-----------------------------------------------------------------------------
(* How each handler begins.                                                *)

(* By password, or (for fewer accounts) by passkey.                        *)
BeginLogin(j, b, n) ==
    /\ Exists(n)
    /\ ~users[n].disabled
    /\ Begin(j, [NewJob(b) EXCEPT
            !.pc = "cache", !.target = n, !.saves = Saving(n, users[n]), !.reply = "login"])

BeginCreateUser(j, b, n, pw, adm, prof) ==
    /\ NeedsAdmin(b)
    /\ ~Exists(n)
    /\ Begin(j, [NewJob(b) EXCEPT
            !.spends = {pw},
            !.saves = Saving(n, [pw |-> pw, admin |-> adm, disabled |-> FALSE, epoch |-> 0,
                                 profile |-> prof, passkeys |-> NoPasskeys])])

BeginUpdateUser(j, b, prev, n, pw, adm, prof) ==
    LET u == UpdatedUser(b, prev, pw, adm, prof)
        demotes == users[prev].admin /\ ~u.admin
    IN  /\ MayActFor(b, prev)
        /\ Exists(prev)
        /\ n # prev => ~Exists(n)
        /\ Begin(j, [NewJob(b) EXCEPT
                !.pc = IF demotes THEN "demote" ELSE "drop",
                !.about = prev, !.del = prev, !.saves = Saving(n, u),
                !.reply = IfSelf(b, prev, IF pw = None THEN "refresh" ELSE "clear"),
                !.ends = IF pw = None THEN None ELSE prev,
                !.spends = {pw} \ {None}])

BeginRemoveUser(j, b, n) ==
    /\ NeedsAdmin(b)
    /\ n # Me(b)
    /\ Exists(n)
    /\ ~users[n].admin
    /\ Begin(j, [NewJob(b) EXCEPT !.pc = "drop", !.del = n, !.ends = n])

BeginSetUserAdmin(j, b, n, adm) ==
    /\ NeedsAdmin(b)
    /\ Exists(n)
    /\ ~adm => n # Me(b)
    /\ Begin(j, [NewJob(b) EXCEPT
            !.pc = IF users[n].admin /\ ~adm THEN "demote" ELSE "write",
            !.about = n, !.saves = Saving(n, [users[n] EXCEPT !.admin = adm]),
            !.reply = IfSelf(b, n, "refresh")])

BeginSetUserDisabled(j, b, n, disabled) ==
    /\ NeedsAdmin(b)
    /\ Exists(n)
    /\ disabled => ~users[n].disabled
    /\ Begin(j, [NewJob(b) EXCEPT
            !.pc = IF disabled THEN "disable" ELSE "write", !.about = n,
            !.saves = Saving(n, [users[n] EXCEPT !.disabled = disabled]),
            !.reply = IfSelf(b, n, IF disabled THEN "clear" ELSE "refresh")])

BeginRevokeUserSessions(j, b, n) ==
    /\ NeedsAdmin(b)
    /\ Exists(n)
    /\ ~users[n].disabled
    /\ users[n].epoch < MaxEpoch
    /\ Begin(j, [NewJob(b) EXCEPT
            !.saves = Saving(n, [users[n] EXCEPT !.epoch = @ + 1]),
            !.reply = IfSelf(b, n, "clear"), !.ends = n])

BeginPasskeyFinishRegister(j, b, n, k, l) ==
    /\ passkeysOn
    /\ MayActFor(b, n)
    /\ Exists(n)
    /\ Begin(j, [NewJob(b) EXCEPT
            !.saves = Saving(n, [users[n] EXCEPT !.passkeys[k] = l]),
            !.reply = IfSelf(b, n, "refresh"), !.spends = {k}])

BeginPasskeyRemove(j, b, n, k) ==
    /\ passkeysOn
    /\ MayActFor(b, n)
    /\ Exists(n)
    /\ users[n].passkeys[k] # None
    /\ users[n].epoch < MaxEpoch
    /\ Begin(j, [NewJob(b) EXCEPT
            !.saves = Saving(n, [users[n] EXCEPT !.passkeys[k] = None, !.epoch = @ + 1]),
            !.reply = IfSelf(b, n, "clear"), !.ends = n])

BeginPasskeyRename(j, b, n, k, l) ==
    /\ passkeysOn
    /\ MayActFor(b, n)
    /\ Exists(n)
    /\ users[n].passkeys[k] # None
    /\ Begin(j, [NewJob(b) EXCEPT
            !.saves = Saving(n, [users[n] EXCEPT !.passkeys[k] = l]),
            !.reply = IfSelf(b, n, "refresh")])

BeginGlobalSettingSubmit(j, b, on) ==
    /\ NeedsAdmin(b)
    /\ Begin(j, [NewJob(b) EXCEPT !.pc = "settings", !.about = Me(b), !.on = on])

-----------------------------------------------------------------------------
(* The steps after that.                                                   *)

(* ensureCanDemote and its twin for suspensions read the store again.      *)
Check(j) ==
    LET n == job[j].about
    IN  /\ At(j, "demote") \/ At(j, "disable")
        /\ IF /\ Exists(n)
              /\ IF At(j, "demote") THEN EnsureCanDemote(n)
                                    ELSE EnsureLeavingActiveAdminWhenDisabling(n)
           THEN Goto(j, IF job[j].del # None THEN "drop" ELSE "write")
           ELSE End(j)
        /\ UNCHANGED <<users, crc, cookie, passkeysOn, spent, revoked>>

(* The settings are saved; if passkeys were on and now are off, the list   *)
(* of users is read and those that have any are saved without.             *)
SaveSettings(j) ==
    LET off == job[j].base.on /\ ~job[j].on
        cleared == [n \in Names |-> IF Exists(n) /\ HasPasskeys(users[n])
                                    THEN [users[n] EXCEPT !.passkeys = NoPasskeys]
                                    ELSE None]
    IN  /\ At(j, "settings")
        /\ passkeysOn' = job[j].on
        /\ job' = [job EXCEPT
              ![j].begun = TRUE,
              ![j].reply = IF off THEN "reread" ELSE "keep",
              ![j].saves = IF off THEN cleared ELSE Nothing,
              ![j].pc = IF off /\ cleared # Nothing THEN "write" ELSE "reply"]
        /\ UNCHANGED <<users, crc, cookie, spent, revoked>>

(* DeleteUser: the cache entry, then the file.                             *)
DropFromCache(j) ==
    /\ At(j, "drop")
    /\ crc' = [crc EXCEPT ![job[j].del] = None]
    /\ Goto(j, "delete")
    /\ UNCHANGED <<users, cookie, passkeysOn, spent, revoked>>

(* Deleting a file that is gone is an error, and ends the handler.         *)
DeleteFile(j) ==
    /\ At(j, "delete")
    /\ users' = [users EXCEPT ![job[j].del] = None]
    /\ IF Exists(job[j].del)
       THEN job' = [job EXCEPT
                ![j].begun = TRUE, ![j].del = None,
                ![j].pc = IF job[j].saves = Nothing THEN "reply" ELSE "write"]
       ELSE End(j)
    /\ UNCHANGED <<crc, cookie, passkeysOn, spent, revoked>>

(* SaveUser: the file, then the cache entry.                               *)
WriteFile(j) ==
    /\ At(j, "write")
    /\ \E n \in {m \in Names : job[j].saves[m] # None} :
          /\ users' = [users EXCEPT ![n] = job[j].saves[n]]
          /\ job' = [job EXCEPT ![j].begun = TRUE, ![j].target = n, ![j].pc = "cache"]
    /\ UNCHANGED <<crc, cookie, passkeysOn, spent, revoked>>

\* Mutant: the cache entry is set although the record could not be created.
FailWriteOfAny(j) ==
    /\ At(j, "write")
    /\ \E n \in {m \in Names : job[j].saves[m] # None} :
          /\ crc' = [crc EXCEPT ![n] = Digest(n, job[j].saves[n])]
          /\ unsaved' = IF Exists(n) THEN unsaved \cup {n} ELSE unsaved
    /\ spent' = spent \cup job[j].spends
    /\ End(j)
    /\ UNCHANGED <<users, cookie, passkeysOn, revoked>>

(* SaveUser when the file cannot be written: the old file stays.  If there *)
(* is one, setting its permissions succeeds, and the cache entry becomes   *)
(* that of the record that was not saved.                                  *)
FailWrite(j) ==
    /\ At(j, "write")
    /\ \E n \in {m \in Names : job[j].saves[m] # None} :
          IF Exists(n)
          THEN /\ crc' = [crc EXCEPT ![n] = Digest(n, job[j].saves[n])]
               /\ unsaved' = unsaved \cup {n}
          ELSE UNCHANGED <<crc, unsaved>>
    /\ spent' = spent \cup job[j].spends
    /\ End(j)
    /\ UNCHANGED <<users, cookie, passkeysOn, revoked>>

(* DeleteUser when the file cannot be removed: its cache entry is gone.    *)
FailDelete(j) ==
    /\ At(j, "delete")
    /\ Exists(job[j].del)
    /\ unsaved' = unsaved \cup {job[j].del}
    /\ spent' = spent \cup job[j].spends
    /\ End(j)
    /\ UNCHANGED <<users, crc, cookie, passkeysOn, revoked>>

\* Mutant: the cache is brought up to date only if it has an entry.
UpdateKnownCacheEntry(j) ==
    LET n == job[j].target
        u == job[j].saves[n]
        left == [job[j].saves EXCEPT ![n] = None]
    IN  /\ At(j, "cache")
        /\ crc' = [crc EXCEPT ![n] = IF @ = None THEN None ELSE Digest(n, u)]
        /\ job' = [job EXCEPT ![j].saves = left, ![j].rec = u,
                              ![j].pc = IF left = Nothing THEN "reply" ELSE "write"]
        /\ UNCHANGED <<users, cookie, passkeysOn, spent, revoked>>

UpdateCache(j) ==
    LET n == job[j].target
        u == job[j].saves[n]
        left == [job[j].saves EXCEPT ![n] = None]
    IN  /\ At(j, "cache")
        /\ crc' = [crc EXCEPT ![n] = Digest(n, u)]
        /\ job' = [job EXCEPT ![j].saves = left, ![j].rec = u,
                              ![j].pc = IF left = Nothing THEN "reply" ELSE "write"]
        /\ UNCHANGED <<users, cookie, passkeysOn, spent, revoked>>

(* Sessions of the account the job deals with, as it was at its beginning. *)
EndedBy(j) ==
    LET n == job[j].ends
    IN  IF n = None THEN {}
        ELSE {b \in Browsers : /\ cookie[b] # None
                               /\ cookie[b].username = n
                               /\ cookie[b].hash.user.pw = job[j].base.users[n].pw}

Reply(j) ==
    LET r == job[j]
    IN  /\ At(j, "reply")
        /\ CASE r.reply \in {"login", "refresh"} -> SetUser(r.b, r.target, r.rec)
             [] r.reply = "clear"                -> ClearSession(r.b)
             [] r.reply = "keep"                 -> UNCHANGED cookie
             [] r.reply = "reread"               ->
                  IF Exists(r.about) THEN SetUser(r.b, r.about, users[r.about])
                                     ELSE UNCHANGED cookie
        /\ revoked' = IF r.reply = "login" /\ cookie' # cookie THEN revoked \ {r.b}
                                                                ELSE revoked \cup EndedBy(j)
        /\ spent' = spent \cup r.spends
        /\ End(j)
        /\ UNCHANGED <<users, crc, passkeysOn>>

-----------------------------------------------------------------------------
(* Without a job of its own: logging out, and losing a cookie.             *)

NoJobOf(b) == \A j \in Jobs : job[j] # None => job[j].b # b

LogoutStep(b) == NoJobOf(b) /\ Logout(b) /\ UNCHANGED job

ExpireStep(b) == NoJobOf(b) /\ Expire(b) /\ UNCHANGED job

(* Whether all that the job does to the store is done.                     *)
Done(j) ==
    LET left == IF At(j, "cache") THEN [job[j].saves EXCEPT ![job[j].target] = None]
                                  ELSE job[j].saves
    IN  job[j].begun /\ job[j].del = None /\ left = Nothing

InFlight == {j \in Jobs : job[j] # None}

DefaultUser(pw, prof) == [pw |-> pw, admin |-> TRUE, disabled |-> FALSE, epoch |-> 0,
                          profile |-> prof, passkeys |-> NoPasskeys]

(* The process starts: the default account is created if there is no file, *)
(* and the cache is built from the files.  The environment may give its    *)
(* password hash, so that one may have been used before.                   *)
Boot(spends) ==
    /\ IF \E n \in Names : Exists(n)
       THEN users' = users /\ spent' = spent \cup spends
       ELSE \E n \in Names, pw \in PwHashes, prof \in Profiles :
               /\ users' = Saving(n, DefaultUser(pw, prof))
               /\ spent' = spent \cup spends \cup {pw}
    /\ crc' = [n \in Names |-> IF users'[n] # None THEN Digest(n, users'[n]) ELSE None]

(* The process ends, by a signal or a fault, and starts again.  A new      *)
(* random SESSION_SECRET is the RestartStep that may follow.               *)
Crash ==
    LET begun == {j \in InFlight : job[j].begun}
    IN  /\ InFlight # {}
        /\ job' = [j \in Jobs |-> None]
        /\ Boot(UNION {job[j].spends : j \in begun})
        /\ revoked' = revoked \cup UNION {EndedBy(j) : j \in begun}
        /\ UNCHANGED <<cookie, passkeysOn>>

RestartStep ==
    /\ InFlight = {}
    /\ Boot({})
    /\ cookie' \in {cookie, [b \in Browsers |-> None]}
    /\ UNCHANGED <<passkeysOn, revoked, job>>

BeginAny(j, b) ==
    \/ \E on \in BOOLEAN : BeginGlobalSettingSubmit(j, b, on)
    \/ \E n \in Names :
        \/ BeginLogin(j, b, n)
        \/ BeginRemoveUser(j, b, n)
        \/ BeginRevokeUserSessions(j, b, n)
        \/ \E adm \in BOOLEAN : BeginSetUserAdmin(j, b, n, adm)
        \/ \E disabled \in BOOLEAN : BeginSetUserDisabled(j, b, n, disabled)
        \/ \E pw \in Unused(PwHashes), adm \in BOOLEAN, prof \in Profiles :
              BeginCreateUser(j, b, n, pw, adm, prof)
        \/ \E prev \in Names, pw \in Unused(PwHashes) \cup {None}, adm \in BOOLEAN,
              prof \in Profiles : BeginUpdateUser(j, b, prev, n, pw, adm, prof)
        \/ \E k \in Unused(Creds), l \in Labels : BeginPasskeyFinishRegister(j, b, n, k, l)
        \/ \E k \in Creds : BeginPasskeyRemove(j, b, n, k)
        \/ \E k \in Creds, l \in Labels : BeginPasskeyRename(j, b, n, k, l)

Work(j) ==
    \/ Check(j) \/ SaveSettings(j) \/ DropFromCache(j) \/ DeleteFile(j)
    \/ WriteFile(j) \/ UpdateCache(j) \/ Reply(j)

StepsInit == Init /\ job = [j \in Jobs |-> None] /\ unsaved = {}

CacheMatches(n) == crc[n] = IF Exists(n) THEN Digest(n, users[n]) ELSE None

StepsNext ==
    \/ /\ \/ \E j \in Jobs : Work(j) \/ \E b \in Browsers : BeginAny(j, b)
          \/ \E b \in Browsers : LogoutStep(b) \/ ExpireStep(b)
          \/ Crash
          \/ RestartStep
       /\ unsaved' = {n \in unsaved : ~CacheMatches(n)'}
    \/ \E j \in Jobs : FailWrite(j) \/ FailDelete(j)

StepsSpec == StepsInit /\ [][StepsNext]_stepVars

-----------------------------------------------------------------------------
(* The refinement: until it answers, or the process ends, a handler has    *)
(* not happened yet.                                                       *)

Base == IF InFlight = {} THEN [users |-> users, crc |-> crc, on |-> passkeysOn]
                         ELSE job[CHOOSE j \in InFlight : TRUE].base

A == INSTANCE Accounts WITH users <- Base.users, crc <- Base.crc, passkeysOn <- Base.on

(* The process ends between two changes that one handler makes to the      *)
(* store: an account is lost between the delete and the save of UpdateUser,*)
(* or passkeys are off and some accounts still have theirs.  Or it ends    *)
(* after the last of them, and the restart also puts right a cache entry   *)
(* that an earlier failed write had left.                                  *)
CutShort == Crash /\ \E j \in InFlight : job[j].begun /\ (~Done(j) \/ unsaved # {})

(* A handler whose write fails has done what it did before, and may leave  *)
(* one entry of the cache that is not that of the file.                    *)
FailedWrite == \E j \in InFlight : FailWrite(j) \/ FailDelete(j)

(* UpdateUser deleted the only account and could not write it again: the   *)
(* next start creates the default one.                                     *)
CreatedAnew == RestartStep /\ \A n \in Names : ~Exists(n)

(* With one job at a time every handler, whatever the moment the process   *)
(* ends, takes effect at once and as Accounts says or not at all, also     *)
(* after a failed write.  CutShort, FailedWrite and what follows from the  *)
(* latter when the only account is lost are the exceptions.                *)
RefinesAccounts == [][A!Next \/ CutShort \/ FailedWrite \/ CreatedAnew]_(A!vars)

(* The tables keep their shape half-way through a handler too, and what a  *)
(* handler still has to write is records.                                  *)
StepsTypeOK ==
    /\ TypeOK
    /\ job \in [Jobs -> Job \cup {None}]
    /\ unsaved \subseteq Names

(* Whenever no handler is in flight the cache agrees with the files, but   *)
(* for the accounts a save or a delete of which failed: their sessions     *)
(* end until the next login or restart.  A name without a file is never    *)
(* left in the cache.                                                      *)
IdleCacheMatchesStore ==
    InFlight = {} =>
        /\ \A n \in Names \ unsaved : CacheMatches(n)
        /\ \A n \in unsaved : Exists(n)

(* ensureCanDemote: an administrator who is not suspended remains, except  *)
(* while a handler is between two of its own changes to the store.         *)
ActiveAdminKept ==
    (\A j \in InFlight : job[j].begun => Done(j)) => ActiveAdmins # {}
=============================================================================
