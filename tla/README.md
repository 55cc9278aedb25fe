# A TLA+ verification of wireguard-ui

Models of the parts of wireguard-ui that keep state, model-checked with TLC on
small instances, and proofs with TLAPS of all that the runs check but one liveness
property, for every number of accounts, clients, devices, requests and periods.
Paths below are relative to the repository's root; `routes.go` is
`src/handler/routes.go` and so on.

## 1. Inventory of the program

One Go process serves HTTP (echo, one goroutine per request) and keeps its data
in a directory of JSON files. There is no transaction and no lock above the
single file: a handler reads, decides and writes, and any other handler may run
in between.

| Part | State | Operations | What makes it correct |
|---|---|---|---|
| JSON store (`store/jsondb`) | one file per record; in-memory `DBUsersToCRC32`, `TgUseridToClientID`, rebuilt by `Init` | Get/Save/Delete of every kind of record | caches agree with the files |
| Accounts (`routes.go`, `passkeys.go`) | user records: password hash, role, suspension, AuthEpoch, passkeys | log in, create, update and rename, remove, role, suspend, revoke, passkey register/remove/rename, passkeys off | an administrator always remains; changes take effect once and wholly |
| Cookie sessions (`session.go`) | a signed cookie per browser with name, role, times and a checksum of the record | check, touch, refresh, clear, expire | an accepted session speaks for the account as it is and is within its times; what was revoked or logged out stays out; who is active stays in |
| Passkey ceremonies (`passkeys.go`) | two tables of ceremonies in progress; their tokens in the session cookie | begin, finish | what was begun can be finished |
| Clients (`routes.go`, `util.go`) | client records: addresses, key pair, status | create, update, enable, remove, suggest an address | no address or key twice; key pairs that belong together |
| Subnet ranges (`util.go`, `config.go`) | ranges of the environment fitted to the server's networks at the start | fit, look up | suggested addresses are accepted |
| Apply config (`routes.go`, `util.go`, `wg_quick.go`, `wg_synconf.go`) | wg.conf, the side file wg.conf.wgui-pending, hashes.json, the kernel interface | save settings or server page, apply, start, stop | what is applied is what was saved; a stopped tunnel stays stopped; the badge shows what is not applied |
| Traffic cache (`wg_traffic_cache.go`) | ring of half-hour buckets, last sample, traffic_cache.json | sample, show, save, load | every byte once, in its period, across restarts |
| Push notifications (`pushnotify/`) | push_tokens.json, rate limiter, last state of the tunnel | register, unregister, broadcast, announce | no lost registration, the limit, one announcement per change |
| Telegram (`telegram/bot.go`, `util.go`) | index of Telegram ids to clients, flood control maps | request configurations, deliver | every configuration of the user and nobody else's is delivered, once per wait |
| Wake-on-LAN (`routes_wake_on_lan.go`) | one record per host | save and rename, delete, wake | no record lost by a rename |
| Peer status, e-mail, logs, uptime, sysctl, locale, templates, router, front end | none that outlives a request | | presentation, or calls of external services |

How they interact: every handler checks the session (sessions read the checksum
cache, the account handlers write it); client and settings handlers write the
store, and the apply handler renders it and records checksums of it; client
handlers and the tunnel handlers broadcast notifications; the store keeps the
Telegram index that the bot reads; the server page changes the networks that
address allocation works with; the settings page switches passkeys on and off.

Where it is hard: two requests between each other's reads and writes; a crash
between two writes of one handler; replies that never reach the browser; the
same fact sampled in one place and used in another; samples, saves and polls
that overtake one another; and checksums used as identities. `PROJECT.json`
lists these hazards, each at its line with the properties that cover it or the
reason why none does.

## 2. Modules

| Module | What it is | Source |
|---|---|---|
| `Accounts` | accounts and sessions, every handler one step | `routes.go`, `passkeys.go`, `session.go`, `jsondb.go` |
| `AccountsProofs` | theorems about `Accounts` and `AccountSteps` | |
| `AccountSteps` | the same handlers split at their store calls, as jobs, with crashes and failing writes; extends and refines `Accounts` | the same |
| `Sessions` | the cookies of one browser: times, replies lost and out of order, passkey ceremonies | `session.go`, `passkeys.go`, `router.go` |
| `ApplyConfig` | saving, applying, hashes, side file, tunnel; jobs with failures and crashes | `routes.go`, `util.go`, `wg_quick.go`, `wg_synconf.go` |
| `ApplyConfigProofs` | theorems about `ApplyConfig` | |
| `SessionsProofs` | theorems about `Sessions` | |
| `Subnets` | address arithmetic, operators only | `util.go` |
| `Clients` | clients, addresses and keys, two requests in flight; uses `Subnets` | `routes.go`, `util.go`, `jsondb.go` |
| `ClientsProofs` | theorems about `Clients` | |
| `TrafficCache` | samples, ring, snapshot | `wg_traffic_cache.go` |
| `TrafficCacheProofs` | theorems about `TrafficCache` | |
| `PushNotify` | token file, rate limit, tunnel announcements | `pushnotify/`, `routes.go`, `push_token.go` |
| `PushNotifyProofs` | theorems about `PushNotify` | |
| `TelegramIndex` | clients' files, the index of Telegram users, deliveries | `util.go`, `jsondb.go`, `bot.go` |
| `TelegramIndexProofs` | theorems about `TelegramIndex` | |
| `FloodWait` | when a Telegram user is sent configurations | `bot.go`, `routes.go` |
| `FloodWaitProofs` | theorems about `FloodWait` | |

`MC...` modules add symmetry sets and small instances. Operators marked
`Mutant:` are not used by any specification; each is a plausible bug in the
definition that follows it, and the property named in `PROJECT.json` fails when
it takes that definition's place.

### Accounts

`users` is the directory of user records, `crc` is `util.DBUsersToCRC32`,
`cookie` what each browser holds. A checksum stands for the record it was taken
from (collisions of CRC-32 are left out), so a session is valid exactly when the
record has returned to, or never left, the value it had when the cookie was
written. Every handler that writes a user is an action with its guards in the
order of the code. A reply may be lost after the handler has done its work
(`Receives` lets the browser keep its old cookie), the server may restart with a
fixed or a fresh session secret, and a cookie may expire at any moment: idle
time and maximum age are one nondeterministic `Expire` here, and the subject of
`Sessions`.
`revoked` and `spent` are history: browsers whose session was ended by a
revocation, a password change, a passkey removal or the removal of the account,
and password hashes and credentials that have been used.

### AccountSteps

A job has the caller, what it will save and delete, and where it is. `Begin...`
is the part up to and including the read of the record, `Check` the second look
at the list of users, `DropFromCache`/`DeleteFile` are `DeleteUser`, `WriteFile`/
`UpdateCache` are `SaveUser`, `Reply` is the answer. Reading, checking and
writing are separate steps because no lock spans them. A crash ends the
process between any two and the cache is rebuilt from the files. `FailWrite` and
`FailDelete` are the disk refusing: the handler answers with an error, but SaveUser
has updated the cache of an account that exists and DeleteUser has dropped the
entry of a file that stays. `unsaved` is a history of the accounts this happened
to, until cache and file agree again (the next save, or a restart).

The refinement mapping says that a job has not happened until it is over: while
one is in flight `users`, `crc` and `passkeysOn` of `Accounts` are what they were
when it began, which the job remembers in `base`. `RefinesAccounts` says every
step is then a step of `Accounts`, a stutter, `FailedWrite`, `CutShort` or
`CreatedAnew`. `CutShort` is a crash after the first and before the last of several
changes of one handler to the store.
Those are UpdateUser between deleting the old record and saving the new one, and
disabling passkeys with several accounts. Everything else is all or nothing, also
after a write has failed. (A crash that follows a handler at once while some entry
is wrong is two steps of `Accounts`, the handler and the restart, and counts as
`CutShort` too.) What a failed write of UpdateUser leaves is the worst of it: the
record is deleted and no other is there. If it was the only account, the next start
finds no file and creates the default account (`jsondb.go:138`), as the first start
did: `Boot` does so, and `CreatedAnew` is that start, which `Accounts` has no step
for because its store is never empty.

### Sessions

One browser, or the Android app, and one account. `jar` is the two cookies,
`replies` what the server has answered and the browser not yet received: each reply
carries all the session values again, as they were when it was served, so replies
that cross overwrite each other, and a request in flight can bring a session back
after a log out. `Session` is what `session.Get` returns, which is an empty session
if the cookie is older than the store allows (`router.go:92`). Every request behind
`ValidSession` but the log out touches the session. The renewal in
`doRefreshSession` asks for a session last touched a day ago, in a request that has
just touched it: it never acts, and is left out. `hist` has what the user may
expect: `live`, the session of the last log in that nothing has ended or confused;
`out`, those logged out by a reply that nothing crossed; `pending`, the ceremony
that was begun. The token and the table decide of a log in whether it can be finished;
a registration is behind `ValidSession` as well (`main.go:266`), so `BegunCanFinish`
promises it only to a user who is to be signed in (`SignedIn`), and promises with it
that the session is valid.

The Android app's window of 15 days (`session.go:21`) is longer than the 7 days of
the cookie store, and `ActiveSessionAccepted` therefore promises the lesser: an app
idle for eight days has to log in again, although its session would be valid.

### ApplyConfig

The three parts of the store that go into wg.conf are version numbers, since each
save stamps `UpdatedAt`. `conf`, `pend` and `kernel` say which versions each holds;
`Torn` is a file created and not written. Jobs are split at each file, checksum
and tunnel operation; writes and commands may fail, crashes come anywhere.
`env` covers the switches WGUI_ALLOW_WG_QUICK, WGUI_AUTO_SYNCCONF and the use of
the side file. A stop is one command and may come at any step of a job; `met` in
a job says that one did. An apply decides at its beginning whether to restart
(`routes.go:1935`), so a stop that comes during it is undone at its end, although
`routes.go:1930` says that an apply "avoids restarting a tunnel that was
deliberately stopped": `stopped` counts a stop as obeyed only if no job was about
to start the tunnel (`WillStart`), and from then on every later apply leaves it
stopped. What an apply wrote is promised to be in the kernel only if no stop met it.

The side file is removed before wg.conf becomes newer than it, but a removal that fails
is ignored (`wg_quick.go:110`), and then an older side file stays beside a newer
wg.conf and is promoted at the next start. `unremoved` remembers that this happened,
until the side file is removed or rewritten; `PendingNotOlder` and `SuccessMeansApplied`
promise nothing of such a file. The three parts of the store are read one after
another (`GetServer`, `GetClients`, `GetGlobalSettings`), and edits come in between.

### Subnets and Clients

Addresses are numbers of `Width` bits; a CIDR is an address and a length. The
search for a free address, the allocation test and the fitting of ranges are
operators. `Clients` has the records, the server's networks, the fitted ranges
and the requests in flight; NewClient and UpdateClient check addresses first,
then the key, then save, and other requests come in between. `overlapped`
remembers which clients had requests in flight together. GetAllocatedIPs fails when a
record cannot be read, and so when a client is removed between the listing and the
reading of the directory; NewClient and UpdateClient drop that error and compare with
no address at all (`routes.go:1013`, `1237`). `listed` in a request says whether the
read succeeded, and `unlisted` remembers the clients saved when it had not. The search
for duplicate keys does answer such an error, and ends the request. Addresses of different
families never contain one another and are left out (`Pow2` is a recursive function
and `Sizes` a table of it, where the code shifts and masks). So are keys that do not
parse and a private key in a NewClient request, which the page never sends.

### TrafficCache

A sample is stamped, read and booked in three steps, as in `refreshOnce`, where
only the last is under the lock. The sampling goroutine is always there; warm-ups
come from the start of the program and from requests as long as no difference
has been booked. The kernel's counters grow, are reset and disappear. Two savers
(the goroutine and the signal handler) copy the ring under the lock and write it
later. `sent` and `booked` are history. Received and sent bytes are treated alike
by the code and are one number; rates, peaks and the busiest peer are computed
from the same differences and left out.

### PushNotify

The three locks are variables or, for the rate limiter, one step. A request about a token
reads the file under the lock, truncates it and writes it. A broadcast loads the list,
asks the limiter and sends; a refusal by FCM goes through the same edit of the file. The
limiter's slice of times is a set of numbered messages, so that two of the same instant
are two. A poll of the tunnel samples first and takes the lock then; an announcement keeps
it for its whole broadcast. `process` has the number of the run of the program, and
whether the login is disabled in it: then the current user has no name, and a registration
is answered OK and stored nowhere (`session.go:281`, `tokens.go:67`; `RegisterForNobody`).
`FileHoldsAnswers` claims nothing of a device whose last answer was such a one. A restart
forgets what the limiter has counted and not what was sent (`sends`), so that a minute
that spans a restart can carry twice the limit; `RateLimitHolds` is about the messages of
one run.

### TelegramIndex

A slice is a backing array and a length, because that is what the delivery and the
requests share: the delivery takes the user's slice under the lock and then reads
it cell by cell without it, while `filterStringSlice` moves the ids in the same
array and `append` fills its free cells. `Carried` gives the delivery an array of
its own when the index leaves the shared one. A request writes the file and the
index in two steps, a removal the index and the file, and each may fail.
`crossed` and `unsaved` remember the clients for which two requests overlapped, or
a write or a removal failed. `owed` in a delivery is what it still has to send or
to report: the clients that were the user's at the start, less those that a request
has touched; it is emptied when an id the delivery has passed leaves its place,
because then the ids behind it move up and one is skipped. That is the loss this
code accepts. A client that is given away, or disabled, while the delivery runs may
still be sent to whomever its file names; `OnlyOwnClients` says no other is.

### FloodWait

`floodWait` has the age of the last grant in minutes, `floodMessageSent` who was
is marked as told to wait. The bot's goroutine, the administrators' requests (a shared
lock does not exclude them from each other) and the ticker check and stamp in separate
steps; the bot looks at the wait, at the mark, sets the mark and sends the notice, one
after another. The notice may fail to arrive and the mark stays, so `MarkEndsWithWait`
is about the mark. A wait that ends between the bot's first look and its mark leaves
the mark behind; `slipped` has those users.
A grant whose check was overtaken by another's stamp is `stale`: the two together
are one decision taken twice, which the code allows and `OncePerWait` excuses.

## 3. Runs

| Run | Instance | Shows |
|---|---|---|
| `accounts` | 3 names, 2 browsers, 3 password hashes, 1 passkey, AuthEpoch up to 1 | with handlers one at a time an active administrator remains, accepted sessions match their accounts, ended sessions stay out, a change signs the account's other sessions out; the inductive invariant of the proofs |
| `disable_reenable` | as above, smaller | **violated**: lifting a suspension revives the sessions from before it |
| `account_steps` | 2 names, 2 browsers, 1 job, at most one account revoked or with a wrong cache entry | one handler at a time with crashes and failing writes refines `Accounts` up to `CutShort`, `FailedWrite` and `CreatedAnew`; the cache agrees with the files when idle, but for accounts whose save failed |
| `account_race` | 2 jobs from a state with two administrators | **violated**: both are demoted or suspended at once, none remains |
| `apply_config` | 1 job, 3 edits, stops at any step | with edits, failures and crashes between the steps: the side file is never older than wg.conf, a stopped tunnel stays stopped, success means applied, wg.conf is left alone while stopped; a side file that could not be removed is excused |
| `pending_cleared` | 1 job | **violated**: saving the global settings after a client edit puts the badge out |
| `clients` | 8 addresses, 2 networks of which one comes and goes, 2 clients, 2 keys, 2 requests in flight | addresses and keys are shared only by clients whose requests overlapped (addresses also if the allocated ones could not be read), stored pairs belong together; a suggested address is accepted, and one is suggested while there is one |
| `traffic` | 1 peer, 2 samplers, 2 savers, ring of 2 periods, 4 ticks | bytes booked once, pages show what was booked, saves lose nothing, unless samples or saves crossed |
| `push` | 2 devices, 2 requests in flight, limit 2 in 2 ticks, 2 changes of the tunnel, 1 restart, login on or off | the file holds what the devices were told, over refusals by FCM and crashes; in every window a run of the program keeps to the limit; announcements match changes unless polls crossed |
| `sessions` | day 1, week 2, Android 3, maximum age 3, clock to 4; 2 logins or ceremonies, 1 change of the account, 2 replies in flight | accepted sessions are within their idle window and maximum age, an active user stays signed in, a log out lasts, ceremonies can be finished, registrations by who is to be signed in |
| `telegram_index` | 2 users, 2 clients, 2 requests, 1 delivery | the index follows the files; a delivery is complete unless ids it had passed moved, and reaches nobody else's clients |
| `flood_wait` | 2 users, 2 requests, a wait of 2 minutes | one grant per wait, no mark outlives its wait, every wait ends |

The three violated runs are findings; each quotes the line it disagrees with in
`PROJECT.json`. `account_race` explains why `Accounts` takes a handler as one step:
its promises hold as long as handlers do not overlap. Two more consequences of the
same design were seen while modelling and have no run of their own: with two jobs
in `AccountSteps` a handler that read the record before a revocation of sessions
writes the old AuthEpoch back (`routes.go:619`) and the revoked cookies are valid
again; and a stop during an apply is undone (see `ApplyConfig` above).

Several properties are conditional (`AddressSharedOnlyByOverlap`,
`KeySharedOnlyByOverlap`, `PendingNotOlder`, `SuccessMeansApplied`, `BookedOnce`,
`SavesMoveForward`, `AnnouncedOnlyChanges`, and those of `sessions`, `telegram_index`
and `flood_wait`): the code has no lock there, or drops an error, the unconditional
property is false, and the condition says exactly which overlap or failure is needed.
The condition is a history variable set only by that overlap, or by a read, write or
removal that failed. Such a property does not catch the race it excuses; it shows that
nothing else does the same harm. The notes of the hazards in `PROJECT.json` say which
is which.

**Bounds.** Two browsers give a session that acts and one that is acted upon; three names
allow a rename onto a free name beside two accounts, and the last administrator beside
others. One password hash per account and one more for a change are enough for a removed
and re-created account. AuthEpoch 1 distinguishes before from after a revocation; larger
epochs repeat it (the proofs have no bound). Three edits give every order of a client and
a settings save around an apply. Two clients and two jobs are the smallest race; a third
client could only repeat it with another pair. Eight addresses hold two networks with a
free, a taken, a network and a broadcast address each. In `clients` two requests are in
flight together only while every check was made with the list of addresses: an overlap and
a check without the list each excuse the two clients, and are looked at one without the
other. The networks change there only while one request is in flight at most, since what
is suggested depends on what is stored. In `push` a limit of two tells a window from its
first message, and two changes bring the tunnel back. Devices share the file and nothing
else: a state in which both are involved is expanded only in the first tick, with at most
one message for each and a tunnel that nobody asks for. A ring of two periods over four
ticks comes round twice. The clock of `TrafficCache` waits for a sample in progress before
its slot is reused, which in the code would take a sample 30 days. In `traffic` and `push`
a state in which two saves or two polls have crossed is not expanded: the property about
them says nothing from there on, and the other properties do not depend on it; likewise in
`telegram_index` when two requests have changed one client at once. `account_steps` does
not expand states with two accounts in trouble (revoked, or with a wrong cache entry), nor
a failure after a revocation that succeeded: the accounts do not interact there; and it
goes on from a store that lost its only account once no password hash is left to issue.
The proofs have none of these bounds. In `sessions` the spans keep the order of the real
ones (a day, a week, 15 days, 90 days) and the clock runs past the longest; two logins
give an old and a new session, two replies the smallest crossing. A wait of two minutes
has a first, a middle and a last one.

**Fairness.** `FloodWait` assumes weak fairness of the clock and of
`updateFloodWait`: the ticker's goroutine (`bot.go:68`) runs every minute, takes no
lock and waits for nobody. Nothing is assumed of the users, the bot or the
administrators; `WaitEnds` holds whatever they do or fail to do. Everything else is
safety and states no fairness. Handlers do not wait for one another except for short
locks; the one wait that matters, polls of the tunnel behind a broadcast to FCM, has
no time limit in the code and no fairness would be justified.

## 4. Proofs

`AccountsProofs` proves, for any sets of names, browsers, hashes, credentials and
labels and any bound on AuthEpoch, and from the one assumption
`ConstantsAssumption` (None is not a value):

- `Inductive`: `Spec => []IInv`.
- `TypeCorrect`, `SessionsSound` (`SessionMatchesAccount`), `RevocationIsFinal`
  (`RevokedStaysOut`), `ChangesSignOut` (`ChangeSignsOutOthers`): consequences of
  `IInv`, the last one a step property that uses `IInv` before and after the step.
- `NoLockout` (`ActiveAdminRemains`): inductive relative to `IInv`.

None of the session properties is inductive. That a revoked session stays out
needs to know that its account's AuthEpoch is past the cookie's, which needs
password hashes to name accounts (a new or re-created account could otherwise
start again from epoch 0 with an old record), which needs used hashes to be
remembered. `IInv` collects these: `CacheMatchesStore` (the cache is the checksums
of the files), `CookiesFromRecords` (a cookie was written from one record that
was not suspended), `HashesInUse` (a hash is spent and belongs to one account),
`EpochsBehind` (a cookie with an account's hash is not ahead of its epoch, and
strictly behind once revoked). Most handlers save an edited record of an existing
account; `SaveStep` treats them together, with `Evolves` saying that the edit
keeps the password and does not lower the epoch, and `DropStep` treats steps that
only take cookies away. UpdateUser, CreateUser, RemoveUser and the settings page
have lemmas of their own. For `NoLockout`, `CallerIsActive` says that who calls a
handler is an active administrator or acts on the own account, and
`AdminAfterSave` reduces a save to whether another administrator is left.

Its second part is about `AccountSteps` and proves, from `ConstantsAssumption` and
`StepsAssumption` (None is neither a name nor a job):

- `StepsTypeCorrect` (`StepsTypeOK`), for any number of handlers in flight.
- `CacheSound` (`IdleCacheMatchesStore`) and `StepsRefine` (`RefinesAccounts`, and that
  the initial states are those of `Accounts`), for behaviours in which handlers do not
  overlap. The hypothesis `[]Alone` says this of the behaviour; with one job, as in
  the run, it holds by itself, and with two the conclusions are false.
- `StepsImplement`: such a behaviour in which none of the three exceptions happens
  implements the specification of `Accounts`. What the first part proves then holds
  of the handlers split at their store calls.

A job is data, and types need to know what it has ready: `Ready` says which of its
fields are names and records at each of its steps. For the cache, `CacheFollows` says
that every entry agrees with its file but those of failed writes and the one a job is
`Halfway` through, dropped from the cache and not yet from the files or written to the
files and not yet to the cache. The refinement
needs most: a job that has not answered stands for a step of `Accounts` yet to be
taken, so its guards must hold of what the store was when it began, and what it has
written must be what that step would have written. `Serves` says that a job is one of
the handlers of `Accounts` with its guards true of `base`, `Progress` how much of it
the store and the cache already show, and `AllServe` says it of every job. One lemma
per handler shows that it begins so, one per step that it goes on so, and the reply
turns what is done into the step of `Accounts`. A crash does the same without the
reply, which is where a reply that is lost in `Accounts` comes from.

`SessionsProofs` proves, for any lengths of the windows in their order, any maximum
age and any number of logins, ceremonies, account changes and replies in flight, from
`SessionAssumption` and `NoneAssumption` (None is no value): `TypeCorrect`, `Limits`
(`AcceptedWithinLimits`), `LogoutIsFinal` (`LoggedOutStaysOut`), `ActiveStaysSignedIn`
(`ActiveSessionAccepted`) and `CeremonySurvives` (`BegunCanFinish`). What a browser
holds was once a reply, and what a reply holds was once a cookie, so the invariant
speaks of all copies of a session alike: `Sound` says that each, wherever it is, was
touched no later than the server saw its login, was created when it logged in, and
does not name a session that is out. The two promises that something goes on need
the converse, where a good copy is: `LiveInv` says that while nothing has crossed the
browser has both cookies of the live session or a reply that brings them, as new as
the time that is promised; `PendingInv` says the same of the token of the pending
ceremony, in the cookie, in the reply and in the server's table. That a registration
finds its session valid needs the two together: `BaseInv` says that the ceremony was
begun no later than the session was last heard of, so that a day after its beginning
the session is within its window.

`ApplyConfigProofs` proves, for any number of jobs in flight and of edits (the run
has one job), and from `JobsAssumption` and `NoneAssumption`: `TypeCorrect`, `StopHolds`
(`StoppedStaysStopped`) and `ConfLeftAlone` (`CanonicalUntouchedWhileStopped`). That
a stopped tunnel is not running is not inductive: one must know of every job in
flight whether it will start it. `StartersWereAsked` says that while the tunnel is
stopped only jobs asked for it by name will, `StartersRestart` that nobody else comes
to the steps that do, `WritersExcused` who may be about to write wg.conf, and
`SnapTaken` that what is rendered has been read. `PendingIsNewer` (`PendingNotOlder`)
and `SuccessIsApplied` (`SuccessMeansApplied`) are false of requests that overlap, and
proved of the behaviours in which they do not: the hypothesis is `[]OneAtATime`, a
condition on the behaviour and not on the constants. Then no version is newer in a file
than what the request has read of it (`Current`, part by part while it reads) and none
of those newer than the store; `InOrder` says so of the files, and of a request what it
has read, written, recorded and loaded at each of its steps, and what of it remains true
when a side file could not be removed.

`ClientsProofs` proves, for any number of clients, keys and requests in flight and any
addresses, from `WidthAssumption` and `ClientsAssumption`: `TypeCorrect`,
`AddressesApart` (`AddressSharedOnlyByOverlap`), `KeysApart`
(`KeySharedOnlyByOverlap`), `PrivateKeysMatch` (`KeyPairsMatch`) and
`SuggestionsHold` (`SuggestionsAccepted`). A check says something about the moment it
is made, and the write comes later: `IInv` adds that what a request is about to write
clashes only with clients whose requests it has met, or that are `unlisted`, or that it
is itself to be, and that two requests in flight
have met. That a suggested address is accepted is arithmetic: a smaller power of two
divides a larger one (`Pow2Divides`), so a network starts at a multiple of its size
(`NetworkAligned`) and a range that lies in a network does not reach over its end
(`AddressesInside`); and the address offered is the least free one, if there is one
(`FirstFreeAddress`).

`TrafficCacheProofs` proves, for any number of peers, samplers and savers, any period
and any size of the ring, from `CacheAssumption`: `TypeCorrect`, `PageIsRight`
(`PageShowsBooked`), `FileMovesForward` (`SavesMoveForward`) and `NothingTwice`
(`BookedOnce`). `InWindow` ties ring, file and snapshots to the clock: no slot holds a
period to come or one that is not its own, and a period of the window that has a
volume has its slot. That two periods of a window never share a slot is arithmetic of
remainders (`SlotIsOwn`), and with it a booking can only displace a period that has
left the window. `SavedBefore` orders file, latest snapshot and ring by age.
`Accounted` is a sum: what is in the ring, what a sample in progress will add to it,
and what the kernel has counted since that sample, are together at most what was
sent; moving from one to the next is what sampling and booking do. `Total` adds up
the ring as a recursive function of the slots; that such a function exists, and what
happens to it when one slot changes (`TotalGains`), is proved from the least number
at which it would fail.

`PushNotifyProofs` proves, for any tokens, requests, limit and length of the minute,
from `PushAssumption`: `TypeCorrect`, `FileIsTruthful` (`FileHoldsAnswers`),
`AnnouncementsAreChanges` (`AnnouncedOnlyChanges`) and `LimitHolds` (`RateLimitHolds`).
The file, the limiter and the announcements have an invariant each: what an edit in
progress has read is still what the file would say, since it holds the lock; the
messages the limiter keeps are those this run sent in the last minute, and so those of a
window that ends now; and the poll that sampled last knows of every change that is
announced.

`FloodWaitProofs` proves, for any users, requests and wait, from `FloodAssumption`:
`TypeCorrect`, `GrantedOncePerWait` (`OncePerWait`) and `MarkedInWait`
(`MarkEndsWithWait`). The properties speak of the minutes since the last grant, which
the program does not keep; `EntryIsLastGrant` ties its entries to them,
`GrantsAreDue` says what a party that has checked may rely on until another stamps,
and `RefusedIsWaiting` the same of the bot that has found somebody waiting.

`TelegramIndexProofs` proves, for any users and requests and any finite number of
clients, from `TelegramAssumption` (the clients are finitely many, a record names a user
or None, and None is no value): `TypeCorrect`, `IndexFollowsStore`
(`IndexMatchesStore`), `DeliveriesComplete` (`DeliveryComplete`) and `OnlyToOwners`
(`OnlyOwnClients`).

- A slice is `Good` if its ids are clients, each once. Filtering a client out of a good
  slice then moves the ids behind it by one place (`FilterShifts`), an append puts one
  at the end (`AppendHolds`), and `ReindexHolds` says of the whole index that the
  client is where it was sent and every other where it was. `RebuiltFacts` says that the
  index built at a start, in any order of the files, is that of the files.
- `IndexMatchesStore` is not inductive, because a request between its two writes has
  made file and index differ. `WillAgree` says what it is still to do repairs that, for
  every client that no second request is changing (`Pending`), and `Settled` is the
  property itself. `BeginStep` and `EndStep` are the two halves of every request.
- A delivery owes a client only if the client's place is still ahead of it (`Ahead`). A
  change of another client moves that place by one or not at all; it can come to lie
  behind the delivery only if the delivery had passed the place that was vacated, and
  then nothing is owed any more (`ReindexDelivery`). Any id the delivery may read,
  also one that was moved or appended under it, is `Expected`: the user's own, touched,
  or changed by two requests at once before.

Recursive functions (`Pow2`, the volumes of a ring, filtering, the index built file by
file) need an induction, and the induction theorems of the library cannot be used here.
Each is proved from the least number at which the claim would fail (`LeastNumber`): first
that a function with the recursive equation exists, then what it computes.

Only model-checked: `WaitEnds`, because liveness under fairness is out of the prover's
reach, and the three runs that are violated. The
theorems about `PendingNotOlder`, `SuccessMeansApplied`, `IdleCacheMatchesStore` and
`RefinesAccounts` have a hypothesis on the behaviour, stated above. Every inductive
invariant named above was also checked by TLC as an invariant of its run before it was
proved.

## 5. Not modelled

- Wake-on-LAN hosts: three short handlers over one file per host. Saving a host under
  a new address deletes the old file first, and waking one reads its record and saves
  it back with the time, so that a removal in between is undone.
- Of the settings and the server page, which fields a save keeps from the previous
  record.
- Of the traffic cache, rates, peaks and the busiest peer; of the subnets, parsing and
  the range a client is displayed with.
- Of passkeys, the verification, the origins and the relying party, which are the
  library's.
- CRC-32 collisions, the encoding of cookies, parsing and formatting; the two maps of
  Go that are read and written without a lock (`DBUsersToCRC32`, the flood maps) end
  the process at worst, which is the crash that the models have at every step.
- Peer status, e-mail, logs, uptime, sysctl, locale, templates, front end:
  presentation or external calls.

## 6. Plan

What is modelled is proved as far as it can be. What would come next:

1. `TelegramIndex` and `Clients` composed: the record that a client edit has read and
   saves after the user was changed.
2. A smaller instance of `ApplyConfig` with two jobs and edits.
3. `WakeOnLan`: rename, wake and delete between one another.
