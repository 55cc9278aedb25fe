----------------------------- MODULE PushNotify -----------------------------
(***************************************************************************)
(* Push notifications: the file of device tokens, broadcasts to them under *)
(* a rate limit, and the announcements that the tunnel went up or down.    *)
(*                                                                         *)
(* Three locks are involved: one around each use of the file, one inside   *)
(* the rate limiter, and one around the last known state of the tunnel,    *)
(* which is held for the whole broadcast of an announcement.               *)
(* Not covered: the texts; the users the tokens belong to, which nothing   *)
(* reads; a program without FCM credentials, which does none of this.      *)
(***************************************************************************)
EXTENDS Naturals, FiniteSets

CONSTANTS
    Tokens,       \* FCM registration tokens of devices
    Jobs,         \* requests that may be in flight together
    Limit,        \* maxPerTokenPerMinute
    Minute,       \* clock ticks in the window of the limiter
    MaxNow,       \* bound: the clock of a behaviour
    MaxChanges,   \* bound: times the tunnel goes up or down in one run
    MaxRestarts,  \* bound: times the program is started again
    Torn,         \* a file truncated and not yet written
    None

ASSUME PushAssumption ==
    /\ Limit \in Nat \ {0} /\ Minute \in Nat \ {0}
    /\ MaxNow \in Nat /\ MaxChanges \in Nat /\ MaxRestarts \in Nat
    /\ None \notin Tokens \cup Jobs \cup BOOLEAN

VARIABLES
    file,         \* push_tokens.json: the tokens in it, or Torn
    tokenMu,      \* who holds the lock of the file
    answer,       \* history: the last request about each token that was granted;
                  \* "nobody" is a registration when there was no user
    job,          \* the requests in flight
    hits,         \* the rate limiter: the messages to each token it remembers
    now,          \* the clock
    rejected,     \* history: tokens FCM has refused
    sends,        \* history: all messages to each token, of every run
    process,      \* the number of the run, and util.DisableLogin in it
    tunnel        \* the tunnel, and what is known and said of it

vars == <<file, tokenMu, answer, job, hits, now, rejected, sends, process, tunnel>>

fileVars == <<file, tokenMu, answer>>
rateVars == <<hits, now, rejected, sends>>

-----------------------------------------------------------------------------
(* Requests.                                                               *)

(* list is what is left to send, new what is about to be written.          *)
Idle == [pc |-> "idle", op |-> None, token |-> None, list |-> {}, new |-> {},
         up |-> FALSE, met |-> FALSE]

At(j, pc) == job[j].pc = pc

Goto(j, pc) == job' = [job EXCEPT ![j].pc = pc]

Starts(j, op, pc, t) ==
    /\ At(j, "idle")
    /\ job' = [job EXCEPT ![j] = [Idle EXCEPT !.pc = pc, !.op = op, !.token = t]]
    /\ UNCHANGED <<fileVars, rateVars, process, tunnel>>

RegisterPushToken(j, t) == ~process.disableLogin /\ Starts(j, "register", "lock", t)

(* When nobody signs in, the current user has no name: nothing is stored,  *)
(* and the answer is OK.                                                   *)
RegisterForNobody(j, t) ==
    /\ process.disableLogin
    /\ At(j, "idle")
    /\ answer' = [answer EXCEPT ![t] = "nobody"]
    /\ UNCHANGED <<file, tokenMu, job, rateVars, process, tunnel>>

UnregisterPushToken(j, t) == Starts(j, "unregister", "lock", t)

(* A peer was created, removed or switched.                                *)
PeerChanged(j) == Starts(j, "peer", "load", None)

(* An announcement holds lastTunnelMu until its broadcast is over.         *)
Finish(j) ==
    /\ job' = [job EXCEPT ![j] = Idle]
    /\ tunnel' = IF tunnel.mu = j THEN [tunnel EXCEPT !.mu = None] ELSE tunnel

Requested(j) == job[j].op \in {"register", "unregister"}

(* A broadcast goes on with its list.                                      *)
Proceed(j) ==
    /\ job' = [job EXCEPT ![j].pc = "send", ![j].token = None, ![j].new = {}]
    /\ UNCHANGED tunnel

-----------------------------------------------------------------------------
(* The file.  A request about a token, and a broadcast whose message was   *)
(* refused, read and write it under the lock.                              *)

ReadForEdit(j) ==
    /\ At(j, "lock")
    /\ file # Torn
    /\ job' = [job EXCEPT ![j].pc = "truncate",
          ![j].new = IF job[j].op = "register" THEN file \cup {job[j].token}
                     ELSE file \ {job[j].token}]
    /\ UNCHANGED <<file, answer, rateVars, process, tunnel>>

\* Mutant: the lock is not waited for.
ReadTokensFileUnlocked(j) == ReadForEdit(j) /\ UNCHANGED tokenMu

ReadTokensFile(j) == ReadForEdit(j) /\ tokenMu = None /\ tokenMu' = j

(* A file that does not parse refuses every request; nothing repairs it.   *)
ReadTornFile(j) ==
    /\ At(j, "lock") \/ At(j, "load")
    /\ tokenMu = None
    /\ file = Torn
    /\ IF At(j, "load") \/ Requested(j) THEN Finish(j) ELSE Proceed(j)
    /\ UNCHANGED <<fileVars, rateVars, process>>

(* os.WriteFile truncates the file and then writes it.                     *)
TruncateFile(j) ==
    /\ At(j, "truncate")
    /\ file' = Torn
    /\ Goto(j, "write")
    /\ UNCHANGED <<tokenMu, answer, rateVars, process, tunnel>>

WriteTokensFile(j) ==
    /\ At(j, "write")
    /\ file' = job[j].new
    /\ tokenMu' = None
    /\ IF Requested(j)
       THEN Finish(j) /\ answer' = [answer EXCEPT ![job[j].token] = job[j].op]
       ELSE Proceed(j) /\ UNCHANGED answer
    /\ UNCHANGED <<rateVars, process>>

-----------------------------------------------------------------------------
(* Broadcasts.                                                             *)

(* The device that changed the peer is left out.                           *)
LoadTokens(j, omit) ==
    /\ At(j, "load")
    /\ tokenMu = None
    /\ file # Torn
    /\ omit # None => job[j].op = "peer"
    /\ job' = [job EXCEPT ![j].pc = "send", ![j].list = file \ {omit}]
    /\ UNCHANGED <<fileVars, rateVars, process, tunnel>>

(* A message: its time is what the limiter stores, its number and the run  *)
(* it was sent in tell it from others.                                     *)
Message == [n: Nat, at: 0 .. MaxNow, run: 0 .. MaxRestarts]

NextMessage(t) == [n |-> Cardinality(sends[t]) + 1, at |-> now, run |-> process.run]

\* Mutant: a hit leaves the window a tick too early.
KeptShort(t) == {h \in hits[t] : h.at + Minute > now + 1}

Kept(t) == {h \in hits[t] : h.at + Minute > now}

\* Mutant: one message too many.
OverLimitByOne(t) == Cardinality(Kept(t)) > Limit

OverLimit(t) == Cardinality(Kept(t)) >= Limit

(* rateLimiter.allow, then Send; a token over the limit is passed by.      *)
Send(j, t) ==
    /\ At(j, "send")
    /\ t \in job[j].list
    /\ IF OverLimit(t)
       THEN /\ job' = [job EXCEPT ![j].list = @ \ {t}]
            /\ UNCHANGED <<hits, sends>>
       ELSE /\ job' = [job EXCEPT ![j].list = @ \ {t}, ![j].token = t, ![j].pc = "wait"]
            /\ hits' = [hits EXCEPT ![t] = Kept(t) \cup {NextMessage(t)}]
            /\ sends' = [sends EXCEPT ![t] = @ \cup {NextMessage(t)}]
    /\ UNCHANGED <<fileVars, now, rejected, process, tunnel>>

(* FCM takes the message, or fails for a while.                            *)
SendReturns(j) ==
    /\ At(j, "wait")
    /\ Proceed(j)
    /\ UNCHANGED <<fileVars, rateVars, process>>

(* FCM does not know the token, or finds it invalid: it is unregistered.   *)
SendRefused(j) ==
    /\ At(j, "wait")
    /\ Goto(j, "lock")
    /\ rejected' = rejected \cup {job[j].token}
    /\ UNCHANGED <<fileVars, hits, now, sends, process, tunnel>>

BroadcastEnds(j) ==
    /\ At(j, "send")
    /\ job[j].list = {}
    /\ Finish(j)
    /\ UNCHANGED <<fileVars, rateVars, process>>

-----------------------------------------------------------------------------
(* The tunnel.                                                             *)

(* The tunnel page polls, or wg-quick was run: the state is sampled before *)
(* the lock is taken.                                                      *)
WireGuardTunnelStatus(j) ==
    /\ At(j, "idle")
    /\ job' = [i \in Jobs |->
          IF i = j THEN [Idle EXCEPT !.pc = "report", !.op = "tunnel", !.up = tunnel.up]
          ELSE [job[i] EXCEPT !.met = @ \/ At(i, "report")]]
    /\ UNCHANGED <<fileVars, rateVars, process, tunnel>>

\* Mutant: the first poll is announced as well.
SilentNever(up) == tunnel.lastWasUp = up

(* The first poll sets a baseline, later ones speak when it changes.       *)
Silent(up) == tunnel.lastWasUp \in {None, up}

TunnelRunningTransition(j) ==
    /\ At(j, "report")
    /\ tunnel.mu = None
    /\ LET crossed == tunnel.crossed \/ job[j].met
       IN  IF Silent(job[j].up)
           THEN /\ tunnel' = [tunnel EXCEPT !.lastWasUp = job[j].up, !.crossed = crossed]
                /\ job' = [job EXCEPT ![j] = Idle]
           ELSE /\ tunnel' = [tunnel EXCEPT !.mu = j, !.lastWasUp = job[j].up,
                                 !.crossed = crossed, !.announced = @ + 1]
                /\ Goto(j, "load")
    /\ UNCHANGED <<fileVars, rateVars, process>>

(* The administrator, the system or a failure changes the interface.       *)
TunnelChanges ==
    /\ tunnel.changes < MaxChanges
    /\ tunnel' = [tunnel EXCEPT !.up = ~@, !.changes = @ + 1]
    /\ UNCHANGED <<fileVars, job, rateVars, process>>

Tick ==
    /\ now < MaxNow
    /\ now' = now + 1
    /\ UNCHANGED <<fileVars, job, hits, rejected, sends, process, tunnel>>

Fresh(up) == [mu |-> None, lastWasUp |-> None, up |-> up, changes |-> 0, announced |-> 0,
              crossed |-> FALSE]

NoMessages == [t \in Tokens |-> {}]

(* The process ends, anywhere, and starts again: the file is all it kept,  *)
(* the limiter has forgotten what was sent, and DISABLE_LOGIN may differ.  *)
Restart ==
    /\ process.run < MaxRestarts
    /\ \E off \in BOOLEAN : process' = [run |-> process.run + 1, disableLogin |-> off]
    /\ job' = [j \in Jobs |-> Idle]
    /\ tokenMu' = None
    /\ hits' = NoMessages
    /\ tunnel' = Fresh(tunnel.up)
    /\ UNCHANGED <<file, answer, now, rejected, sends>>

Init ==
    /\ file = {}
    /\ tokenMu = None
    /\ answer = [t \in Tokens |-> "unregister"]
    /\ job = [j \in Jobs |-> Idle]
    /\ hits = NoMessages
    /\ now = 0
    /\ rejected = {}
    /\ sends = NoMessages
    /\ process \in [run: {0}, disableLogin: BOOLEAN]
    /\ tunnel = Fresh(TRUE)

Next ==
    \/ Tick \/ TunnelChanges \/ Restart
    \/ \E j \in Jobs :
        \/ \E t \in Tokens : \/ RegisterPushToken(j, t) \/ RegisterForNobody(j, t)
                             \/ UnregisterPushToken(j, t) \/ Send(j, t)
        \/ \E t \in Tokens \cup {None} : LoadTokens(j, t)
        \/ ReadTokensFile(j) \/ ReadTornFile(j) \/ TruncateFile(j) \/ WriteTokensFile(j)
        \/ PeerChanged(j) \/ SendReturns(j) \/ SendRefused(j) \/ BroadcastEnds(j)
        \/ WireGuardTunnelStatus(j) \/ TunnelRunningTransition(j)

Spec == Init /\ [][Next]_vars

-----------------------------------------------------------------------------
(* Properties.                                                             *)

Job == [pc: {"idle", "lock", "truncate", "write", "load", "send", "wait", "report"},
        op: {None, "register", "unregister", "peer", "tunnel"}, token: Tokens \cup {None},
        list: SUBSET Tokens, new: SUBSET Tokens, up: BOOLEAN, met: BOOLEAN]

Tunnel == [mu: Jobs \cup {None}, lastWasUp: BOOLEAN \cup {None}, up: BOOLEAN,
           changes: Nat, announced: Nat, crossed: BOOLEAN]

(* Every variable has the shape of the fields of the code.                 *)
TypeOK ==
    /\ file \in {Torn} \cup SUBSET Tokens
    /\ tokenMu \in Jobs \cup {None}
    /\ answer \in [Tokens -> {"register", "nobody", "unregister"}]
    /\ job \in [Jobs -> Job]
    /\ hits \in [Tokens -> SUBSET Message]
    /\ \A t \in Tokens : Cardinality(hits[t]) <= Limit
    /\ now \in 0 .. MaxNow
    /\ rejected \subseteq Tokens
    /\ sends \in [Tokens -> SUBSET Message]
    /\ \A t \in Tokens : IsFiniteSet(sends[t]) /\ hits[t] \subseteq sends[t]
    /\ process \in [run: 0 .. MaxRestarts, disableLogin: BOOLEAN]
    /\ tunnel \in Tunnel

(* tokens.go: whatever requests overlap, a device whose user was last told *)
(* that it is registered is in the file unless FCM refused it, and one     *)
(* that was last told it is not is not; a crash may lose the file as a     *)
(* whole.  A device that was told so when nobody signs in may be either.   *)
FileHoldsAnswers ==
    file # Torn => \A t \in Tokens :
        /\ answer[t] = "register" => t \in file \cup rejected
        /\ answer[t] = "unregister" => t \notin file

(* maxPerTokenPerMinute: over every window of a minute, not only over      *)
(* those that start at a message, one run of the program sends a device at *)
(* most Limit messages; a run knows nothing of those of the run before.    *)
RateLimitHolds ==
    \A t \in Tokens, start \in 0 .. MaxNow, run \in 0 .. MaxRestarts :
        Cardinality({m \in sends[t] : m.run = run /\ start <= m.at /\ m.at < start + Minute})
            <= Limit

(* TunnelRunningTransition: since its start the program has not announced  *)
(* more than changed, unless two polls sampled the tunnel and one of them  *)
(* waited.                                                                 *)
AnnouncedOnlyChanges ==
    tunnel.crossed \/ tunnel.announced <= tunnel.changes
=============================================================================
