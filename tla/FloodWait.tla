----------------------------- MODULE FloodWait -----------------------------
(***************************************************************************)
(* When a Telegram user is sent configurations: once per wait, whether the *)
(* user asks the bot or an administrator sends one.                        *)
(*                                                                         *)
(* Three parties share the maps floodWait and floodMessageSent: the bot's  *)
(* goroutine, which answers one message at a time, the administrators'     *)
(* requests, which hold BotMutex for reading only, and the goroutine that  *)
(* drops old entries every minute.  None of them excludes another.  The    *)
(* runtime may end the program when they meet in a map: that is a restart. *)
(* What a delivery sends is the subject of TelegramIndex.                  *)
(***************************************************************************)
EXTENDS Integers

CONSTANTS
    TgUsers,      \* Telegram users
    Requests,     \* administrators' requests under way at a time
    Wait,         \* the setting FloodWait, in minutes
    None

ASSUME FloodAssumption ==
    /\ Wait \in Nat
    /\ None \notin Nat
    /\ None \notin [user : TgUsers, stale : BOOLEAN]

VARIABLES
    floodWait,    \* age in minutes of the entry of each user, None without one
    floodMessageSent, \* users marked as told to wait
    bot,          \* the bot's goroutine: what it does, for whom
    request,      \* an administrator's request that has passed the check
    since,        \* history: minutes since the last grant
    early,        \* history: users granted again within the wait
    slipped       \* history: users whose wait ended while the bot was refusing them

vars == <<floodWait, floodMessageSent, bot, request, since, early, slipped>>

Ages == 0 .. (Wait + 1)         \* what is older than the wait is all the same

Idle == [pc |-> "idle"]
Sending == [pc |-> "sending"]   \* a delivery, or the notice to wait

Waiting(u) == floodWait[u] # None

Refusing == bot.pc \in {"waiting", "refused"}

-----------------------------------------------------------------------------
(* A grant.                                                                *)

\* Mutant: the stamp is in milliseconds and lies ahead of the clock.
NowMillis == -1

(* The age of a stamp taken now.                                           *)
Now == 0

(* The entry is stamped.  stale: another grant was stamped since this one  *)
(* checked, so both count as one decision.                                 *)
Stamp(u, stale) ==
    /\ floodWait' = [floodWait EXCEPT ![u] = Now]
    /\ since' = [since EXCEPT ![u] = 0]
    /\ early' = IF ~stale /\ since[u] <= Wait THEN early \cup {u} ELSE early

(* Whoever has checked and not stamped yet becomes stale.                  *)
StaleBot(u) == IF bot.pc = "granted" /\ bot.user = u THEN [bot EXCEPT !.stale = TRUE] ELSE bot

StaleRequests(u) ==
    [r \in Requests |->
        IF request[r] # None /\ request[r].user = u THEN [request[r] EXCEPT !.stale = TRUE]
        ELSE request[r]]

-----------------------------------------------------------------------------
(* An administrator sends a client its configuration.                      *)

(* SendTelegramClient loads the client and SendConfig checks the wait.     *)
SendTelegramClient(r, u) ==
    /\ request[r] = None
    /\ ~Waiting(u)
    /\ request' = [request EXCEPT ![r] = [user |-> u, stale |-> FALSE]]
    /\ UNCHANGED <<floodWait, floodMessageSent, bot, since, early, slipped>>

(* The entry is stamped and the configuration sent; the stamp stays when   *)
(* that fails.                                                             *)
SendConfig(r) ==
    /\ request[r] # None
    /\ Stamp(request[r].user, request[r].stale)
    /\ request' = [StaleRequests(request[r].user) EXCEPT ![r] = None]
    /\ bot' = StaleBot(request[r].user)
    /\ UNCHANGED <<floodMessageSent, slipped>>

-----------------------------------------------------------------------------
(* The bot's goroutine.                                                    *)

\* Mutant: a message within the wait starts it again.
MessageRestarts(u) ==
    /\ bot = Idle
    /\ floodWait' = IF Waiting(u) THEN [floodWait EXCEPT ![u] = 0] ELSE floodWait
    /\ bot' = [pc |-> IF Waiting(u) THEN "waiting" ELSE "granted", user |-> u, stale |-> FALSE]
    /\ UNCHANGED <<floodMessageSent, request, since, early, slipped>>

(* A message arrives and the wait is checked.                              *)
Message(u) ==
    /\ bot = Idle
    /\ bot' = [pc |-> IF Waiting(u) THEN "waiting" ELSE "granted", user |-> u, stale |-> FALSE]
    /\ UNCHANGED <<floodWait, floodMessageSent, request, since, early, slipped>>

(* Further messages of who is marked as told are ignored.                  *)
CheckTold ==
    /\ bot.pc = "waiting"
    /\ bot' = IF bot.user \in floodMessageSent THEN Idle ELSE [bot EXCEPT !.pc = "refused"]
    /\ UNCHANGED <<floodWait, floodMessageSent, request, since, early, slipped>>

(* The user is marked as told, and then sent the notice.                   *)
TellToWait ==
    /\ bot.pc = "refused"
    /\ floodMessageSent' = floodMessageSent \cup {bot.user}
    /\ bot' = Sending
    /\ UNCHANGED <<floodWait, request, since, early, slipped>>

StartDelivery ==
    /\ bot.pc = "granted"
    /\ Stamp(bot.user, bot.stale)
    /\ request' = StaleRequests(bot.user)
    /\ bot' = Sending
    /\ UNCHANGED <<floodMessageSent, slipped>>

(* What was being sent has arrived or failed: mark and stamp stay.         *)
EndSending ==
    /\ bot = Sending
    /\ bot' = Idle
    /\ UNCHANGED <<floodWait, floodMessageSent, request, since, early, slipped>>

-----------------------------------------------------------------------------
(* Time.                                                                   *)

Older(age) == IF age = None \/ age > Wait THEN age ELSE age + 1

Tick ==
    /\ floodWait' = [u \in TgUsers |-> Older(floodWait[u])]
    /\ since' = [u \in TgUsers |-> Older(since[u])]
    /\ <<floodWait, since>>' # <<floodWait, since>>
    /\ UNCHANGED <<floodMessageSent, bot, request, early, slipped>>

\* Mutant: an entry is dropped in its last minute.
ExpiredEarly(u) == Waiting(u) /\ floodWait[u] >= Wait

Expired(u) == Waiting(u) /\ floodWait[u] > Wait

\* Mutant: those told to wait stay marked until the program stops.
Untold == floodMessageSent

Told == {u \in floodMessageSent : ~Expired(u)}

updateFloodWait ==
    /\ \E u \in TgUsers : Expired(u)
    /\ floodWait' = [u \in TgUsers |-> IF Expired(u) THEN None ELSE floodWait[u]]
    /\ floodMessageSent' = Told
    /\ slipped' = IF Refusing /\ Expired(bot.user) THEN slipped \cup {bot.user} ELSE slipped
    /\ UNCHANGED <<bot, request, since, early>>

-----------------------------------------------------------------------------

Init ==
    /\ floodWait = [u \in TgUsers |-> None]
    /\ floodMessageSent = {}
    /\ bot = Idle
    /\ request = [r \in Requests |-> None]
    /\ since = [u \in TgUsers |-> Wait + 1]
    /\ early = {} /\ slipped = {}

(* Nothing of this survives the program.                                   *)
Restart ==
    /\ floodWait' = [u \in TgUsers |-> None]
    /\ floodMessageSent' = {}
    /\ bot' = Idle
    /\ request' = [r \in Requests |-> None]
    /\ since' = [u \in TgUsers |-> Wait + 1]
    /\ slipped' = {}
    /\ UNCHANGED early

Next ==
    \/ \E r \in Requests, u \in TgUsers : SendTelegramClient(r, u)
    \/ \E r \in Requests : SendConfig(r)
    \/ \E u \in TgUsers : Message(u)
    \/ CheckTold \/ TellToWait \/ StartDelivery \/ EndSending
    \/ Tick \/ updateFloodWait
    \/ Restart

(* Minutes pass, and the ticker's goroutine runs after each and waits for  *)
(* nobody.                                                                 *)
Fairness == WF_vars(Tick) /\ WF_vars(updateFloodWait)

Spec == Init /\ [][Next]_vars /\ Fairness

-----------------------------------------------------------------------------
(* Properties.                                                             *)

TypeOK ==
    /\ floodWait \in [TgUsers -> {None} \cup Ages]
    /\ floodMessageSent \subseteq TgUsers
    /\ since \in [TgUsers -> Ages]
    /\ early \subseteq TgUsers /\ slipped \subseteq TgUsers
    /\ bot \in {Idle, Sending}
               \cup [pc : {"granted", "waiting", "refused"}, user : TgUsers, stale : BOOLEAN]
    /\ request \in [Requests -> {None} \cup [user : TgUsers, stale : BOOLEAN]]

(* While the program runs, a user is granted once per wait, over the bot   *)
(* and the administrators together.  Only grants that have all checked the *)
(* wait before the first of them stamped it come together.                 *)
OncePerWait == early = {}

(* Nobody stays marked as told to wait after the wait, and so the next one *)
(* is met with a notice again, which may fail to arrive: except when the   *)
(* wait ended between the bot's check and its mark.                        *)
MarkEndsWithWait == \A u \in floodMessageSent \ slipped : Waiting(u)

(* A wait ends, however often the user writes and whatever is sent.        *)
WaitEnds == \A u \in TgUsers : Waiting(u) ~> ~Waiting(u)
=============================================================================
