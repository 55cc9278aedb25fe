--------------------------- MODULE FloodWaitProofs --------------------------
(***************************************************************************)
(* The safety properties of FloodWait, for any number of users and         *)
(* requests and any wait.                                                  *)
(*                                                                         *)
(* IInv ties the entry of a user, which the program keeps, to the minutes  *)
(* since the last grant, which it does not: an entry is as old as the      *)
(* grant, and where there is none the wait is over.  That is what a party  *)
(* that has checked the wait may rely on until another one stamps.         *)
(***************************************************************************)
EXTENDS FloodWait, TLAPS

(* An entry is as old as the last grant; without one the wait is over.     *)
EntryIsLastGrant ==
    \A u \in TgUsers : IF Waiting(u) THEN floodWait[u] = since[u] ELSE since[u] > Wait

(* Whoever may grant, and has not been overtaken, does so after the wait.  *)
GrantsAreDue ==
    /\ bot.pc = "granted" /\ ~bot.stale => since[bot.user] > Wait
    /\ \A r \in Requests :
          request[r] # None /\ ~request[r].stale => since[request[r].user] > Wait

(* The user the bot is about to tell has an entry, or had it until now.    *)
RefusedIsWaiting == Refusing => Waiting(bot.user) \/ bot.user \in slipped

IInv ==
    /\ TypeOK
    /\ EntryIsLastGrant
    /\ GrantsAreDue
    /\ RefusedIsWaiting
    /\ OncePerWait
    /\ MarkEndsWithWait

(* What a stamp does to each user.                                         *)
LEMMA StampFacts ==
    ASSUME IInv, NEW v \in TgUsers, NEW stale \in BOOLEAN,
           ~stale => since[v] > Wait, Stamp(v, stale)
    PROVE  /\ floodWait' \in [TgUsers -> {None} \cup Ages]
           /\ since' \in [TgUsers -> Ages]
           /\ early' = {}
           /\ floodWait'[v] = 0 /\ since'[v] = 0
           /\ \A u \in TgUsers : u # v => floodWait'[u] = floodWait[u] /\ since'[u] = since[u]
<1>1. 0 \in Ages /\ Ages \subseteq Nat
  BY FloodAssumption DEF Ages
<1>2. floodWait' = [floodWait EXCEPT ![v] = 0] /\ since' = [since EXCEPT ![v] = 0]
  BY DEF Stamp, Now
<1>3. floodWait' \in [TgUsers -> {None} \cup Ages] /\ since' \in [TgUsers -> Ages]
  BY <1>1, <1>2 DEF IInv, TypeOK
<1>4. ~(~stale /\ since[v] <= Wait)
  <2>1. since[v] \in Nat
    BY <1>1 DEF IInv, TypeOK
  <2>2. since[v] > Wait => ~(since[v] <= Wait)
    BY <2>1, FloodAssumption
  <2> QED
    BY <2>2
<1>5. early' = {}
  BY <1>4 DEF Stamp, IInv, OncePerWait
<1> QED
  BY <1>2, <1>3, <1>5 DEF IInv, TypeOK

(* After a stamp the entries are still those of the last grants, and those *)
(* who were told to wait still wait.                                       *)
LEMMA StampKeeps ==
    ASSUME IInv, NEW v \in TgUsers, NEW stale \in BOOLEAN,
           ~stale => since[v] > Wait, Stamp(v, stale),
           UNCHANGED <<floodMessageSent, slipped>>
    PROVE  EntryIsLastGrant' /\ OncePerWait' /\ MarkEndsWithWait'
<1>1. 0 # None
  BY FloodAssumption
<1>2. EntryIsLastGrant'
  BY <1>1, StampFacts DEF IInv, EntryIsLastGrant, Waiting
<1>3. OncePerWait'
  BY StampFacts DEF OncePerWait
<1>4. MarkEndsWithWait'
  BY <1>1, StampFacts DEF IInv, TypeOK, MarkEndsWithWait, Waiting
<1> QED
  BY <1>2, <1>3, <1>4

LEMMA InitInvariant == Init => IInv
<1> SUFFICES ASSUME Init PROVE IInv
  OBVIOUS
<1>1. Wait + 1 \in Ages /\ Wait + 1 > Wait
  BY FloodAssumption DEF Ages
<1>2. TypeOK
  BY <1>1 DEF Init, TypeOK
<1>3. bot.pc = "idle"
  BY DEF Init, Idle, Sending
<1>4. EntryIsLastGrant /\ GrantsAreDue /\ RefusedIsWaiting
  BY <1>1, <1>3 DEF Init, EntryIsLastGrant, GrantsAreDue, RefusedIsWaiting, Refusing, Waiting
<1>5. OncePerWait /\ MarkEndsWithWait
  BY DEF Init, OncePerWait, MarkEndsWithWait
<1> QED
  BY <1>2, <1>4, <1>5 DEF IInv

(* Each action keeps the invariant.                                        *)
LEMMA NextInvariant == IInv /\ [Next]_vars => IInv'
<1> SUFFICES ASSUME IInv, [Next]_vars PROVE IInv'
  OBVIOUS
<1> USE DEF IInv, TypeOK
<1>0. 0 # None /\ \A a \in Ages : a \in Nat /\ a # None
  BY FloodAssumption DEF Ages
<1>1. ASSUME NEW r \in Requests, NEW u \in TgUsers, SendTelegramClient(r, u) PROVE IInv'
  <2>1. since[u] > Wait
    BY <1>1 DEF SendTelegramClient, EntryIsLastGrant
  <2>2. request' = [request EXCEPT ![r] = [user |-> u, stale |-> FALSE]]
    BY <1>1 DEF SendTelegramClient
  <2>3. UNCHANGED <<floodWait, floodMessageSent, bot, since, early, slipped>>
    BY <1>1 DEF SendTelegramClient
  <2>4. TypeOK'
    BY <2>2, <2>3
  <2>5. GrantsAreDue'
    BY <2>1, <2>2, <2>3 DEF GrantsAreDue
  <2> QED
    BY <2>3, <2>4, <2>5 DEF EntryIsLastGrant, RefusedIsWaiting, Refusing, OncePerWait,
                            MarkEndsWithWait, Waiting
<1>2. ASSUME NEW r \in Requests, SendConfig(r) PROVE IInv'
  <2> DEFINE v == request[r].user
             stale == request[r].stale
  <2>1. request[r] # None /\ Stamp(v, stale) /\ UNCHANGED <<floodMessageSent, slipped>>
    BY <1>2 DEF SendConfig
  <2>2. request' = [StaleRequests(v) EXCEPT ![r] = None] /\ bot' = StaleBot(v)
    BY <1>2 DEF SendConfig
  <2>3. v \in TgUsers /\ stale \in BOOLEAN /\ (~stale => since[v] > Wait)
    BY <2>1 DEF GrantsAreDue
  <2> HIDE DEF v, stale
  <2>4. /\ floodWait' \in [TgUsers -> {None} \cup Ages]
        /\ since' \in [TgUsers -> Ages]
        /\ early' = {}
        /\ floodWait'[v] = 0
        /\ \A u \in TgUsers : u # v => floodWait'[u] = floodWait[u] /\ since'[u] = since[u]
    BY <2>1, <2>3, StampFacts
  <2>5. EntryIsLastGrant' /\ OncePerWait' /\ MarkEndsWithWait'
    BY <2>1, <2>3, StampKeeps
  <2>6. bot' = IF bot.pc = "granted" /\ bot.user = v THEN [bot EXCEPT !.stale = TRUE] ELSE bot
    BY <2>2 DEF StaleBot
  <2>7. \A s \in Requests : request'[s] # None =>
           /\ request[s] # None /\ request'[s].user = request[s].user
           /\ request[s].user = v => request'[s].stale
           /\ request[s].user # v => request'[s] = request[s]
    BY <2>2 DEF StaleRequests
  <2>8. TypeOK'
    <3>1. request' \in [Requests -> {None} \cup [user : TgUsers, stale : BOOLEAN]]
      BY <2>2 DEF StaleRequests
    <3>2. bot' \in {Idle, Sending}
               \cup [pc : {"granted", "waiting", "refused"}, user : TgUsers, stale : BOOLEAN]
      BY <2>6 DEF Idle, Sending
    <3> QED
      BY <2>1, <2>4, <3>1, <3>2
  <2>9. GrantsAreDue'
    <3>1. bot'.pc = "granted" /\ ~bot'.stale => since'[bot'.user] > Wait
      BY <2>4, <2>6 DEF GrantsAreDue, Idle, Sending
    <3>2. ASSUME NEW s \in Requests, request'[s] # None, ~request'[s].stale
          PROVE  since'[request'[s].user] > Wait
      <4>1. request[s] # None /\ request[s].user # v /\ request'[s] = request[s]
        BY <2>7, <3>2
      <4> QED
        BY <2>4, <3>2, <4>1 DEF GrantsAreDue
    <3> QED
      BY <3>1, <3>2 DEF GrantsAreDue
  <2>10. RefusedIsWaiting'
    BY <1>0, <2>1, <2>4, <2>6 DEF RefusedIsWaiting, Refusing, Waiting, Idle, Sending
  <2> QED
    BY <2>5, <2>8, <2>9, <2>10
<1>3. ASSUME NEW u \in TgUsers, Message(u) PROVE IInv'
  <2>1. bot' = [pc |-> IF Waiting(u) THEN "waiting" ELSE "granted", user |-> u, stale |-> FALSE]
    BY <1>3 DEF Message
  <2>2. UNCHANGED <<floodWait, floodMessageSent, request, since, early, slipped>>
    BY <1>3 DEF Message
  <2>3. ~Waiting(u) => since[u] > Wait
    BY DEF EntryIsLastGrant
  <2>4. TypeOK'
    BY <2>1, <2>2
  <2>5. GrantsAreDue' /\ RefusedIsWaiting'
    BY <2>1, <2>2, <2>3 DEF GrantsAreDue, RefusedIsWaiting, Refusing, Waiting
  <2> QED
    BY <2>2, <2>4, <2>5 DEF EntryIsLastGrant, OncePerWait, MarkEndsWithWait, Waiting
<1>11. CASE CheckTold
  <2>1. /\ bot.pc = "waiting"
        /\ bot' = IF bot.user \in floodMessageSent THEN Idle ELSE [bot EXCEPT !.pc = "refused"]
    BY <1>11 DEF CheckTold
  <2>2. UNCHANGED <<floodWait, floodMessageSent, request, since, early, slipped>>
    BY <1>11 DEF CheckTold
  <2>3. bot \in [pc : {"granted", "waiting", "refused"}, user : TgUsers, stale : BOOLEAN]
    BY <2>1 DEF Idle, Sending
  <2>4. bot' = Idle \/ bot' = [bot EXCEPT !.pc = "refused"]
    BY <2>1
  <2>5. TypeOK'
    BY <2>2, <2>3, <2>4
  <2>6. GrantsAreDue' /\ RefusedIsWaiting'
    <3>1. bot'.pc # "granted"
      BY <2>3, <2>4 DEF Idle, Sending
    <3>2. RefusedIsWaiting'
      BY <2>1, <2>2, <2>3, <2>4 DEF RefusedIsWaiting, Refusing, Waiting, Idle, Sending
    <3> QED
      BY <2>2, <3>1, <3>2 DEF GrantsAreDue
  <2> QED
    BY <2>2, <2>5, <2>6 DEF EntryIsLastGrant, OncePerWait, MarkEndsWithWait, Waiting
<1>4. CASE TellToWait
  <2>1. bot.pc = "refused" /\ bot' = Sending /\ floodMessageSent' = floodMessageSent \cup {bot.user}
    BY <1>4 DEF TellToWait
  <2>2. UNCHANGED <<floodWait, request, since, early, slipped>>
    BY <1>4 DEF TellToWait
  <2>3. bot.user \in TgUsers
    BY <2>1 DEF Idle, Sending
  <2>4. TypeOK'
    BY <2>1, <2>2, <2>3
  <2>5. GrantsAreDue' /\ RefusedIsWaiting'
    BY <2>1, <2>2 DEF GrantsAreDue, RefusedIsWaiting, Refusing, Sending
  <2>6. MarkEndsWithWait'
    BY <2>1, <2>2 DEF MarkEndsWithWait, RefusedIsWaiting, Refusing, Waiting
  <2> QED
    BY <2>2, <2>4, <2>5, <2>6 DEF EntryIsLastGrant, OncePerWait, Waiting
<1>5. CASE StartDelivery
  <2> DEFINE v == bot.user
             stale == bot.stale
  <2>1. bot.pc = "granted" /\ Stamp(v, stale) /\ UNCHANGED <<floodMessageSent, slipped>>
    BY <1>5 DEF StartDelivery
  <2>2. request' = StaleRequests(v) /\ bot' = Sending
    BY <1>5 DEF StartDelivery
  <2>3. v \in TgUsers /\ stale \in BOOLEAN /\ (~stale => since[v] > Wait)
    BY <2>1 DEF GrantsAreDue, Idle, Sending
  <2> HIDE DEF v, stale
  <2>4. /\ floodWait' \in [TgUsers -> {None} \cup Ages]
        /\ since' \in [TgUsers -> Ages]
        /\ early' = {}
        /\ \A u \in TgUsers : u # v => since'[u] = since[u]
    BY <2>1, <2>3, StampFacts
  <2>5. EntryIsLastGrant' /\ OncePerWait' /\ MarkEndsWithWait'
    BY <2>1, <2>3, StampKeeps
  <2>6. \A s \in Requests : request'[s] # None =>
           /\ request[s] # None /\ request'[s].user = request[s].user
           /\ request[s].user = v => request'[s].stale
           /\ request[s].user # v => request'[s] = request[s]
    BY <2>2 DEF StaleRequests
  <2>7. TypeOK'
    <3>1. request' \in [Requests -> {None} \cup [user : TgUsers, stale : BOOLEAN]]
      BY <2>2 DEF StaleRequests
    <3> QED
      BY <2>1, <2>2, <2>4, <3>1
  <2>8. GrantsAreDue'
    <3>1. ASSUME NEW s \in Requests, request'[s] # None, ~request'[s].stale
          PROVE  since'[request'[s].user] > Wait
      <4>1. request[s] # None /\ request[s].user # v /\ request'[s] = request[s]
        BY <2>6, <3>1
      <4> QED
        BY <2>4, <3>1, <4>1 DEF GrantsAreDue
    <3> QED
      BY <2>2, <3>1 DEF GrantsAreDue, Sending
  <2>9. RefusedIsWaiting'
    BY <2>2 DEF RefusedIsWaiting, Refusing, Sending
  <2> QED
    BY <2>5, <2>7, <2>8, <2>9
<1>6. CASE EndSending
  <2>1. bot' = Idle /\ UNCHANGED <<floodWait, floodMessageSent, request, since, early, slipped>>
    BY <1>6 DEF EndSending
  <2> QED
    BY <2>1 DEF Idle, EntryIsLastGrant, GrantsAreDue, RefusedIsWaiting, Refusing,
                OncePerWait, MarkEndsWithWait, Waiting
<1>7. CASE Tick
  <2>1. /\ floodWait' = [u \in TgUsers |-> Older(floodWait[u])]
        /\ since' = [u \in TgUsers |-> Older(since[u])]
        /\ UNCHANGED <<floodMessageSent, bot, request, early, slipped>>
    BY <1>7 DEF Tick
  <2>2. ASSUME NEW a \in Ages PROVE Older(a) \in Ages /\ Older(a) >= a
    BY <1>0, FloodAssumption DEF Older, Ages
  <2>3. Older(None) = None
    BY DEF Older
  <2>4. TypeOK'
    BY <2>1, <2>2, <2>3
  <2>5. \A u \in TgUsers : (Waiting(u))' <=> Waiting(u)
    BY <1>0, <2>1, <2>2, <2>3 DEF Waiting
  <2>6. \A u \in TgUsers : since[u] > Wait => since'[u] > Wait
    BY <1>0, <2>1, <2>2, FloodAssumption DEF Ages
  <2>7. EntryIsLastGrant'
    BY <2>1, <2>5, <2>6 DEF EntryIsLastGrant
  <2>8. GrantsAreDue'
    BY <2>1, <2>6 DEF GrantsAreDue, Idle, Sending
  <2>9. Refusing => bot.user \in TgUsers
    BY DEF Refusing, Idle, Sending
  <2>10. RefusedIsWaiting' /\ OncePerWait' /\ MarkEndsWithWait'
    BY <2>1, <2>5, <2>9 DEF RefusedIsWaiting, Refusing, OncePerWait, MarkEndsWithWait
  <2> QED
    BY <2>4, <2>7, <2>8, <2>10
<1>8. CASE updateFloodWait
  <2>1. /\ floodWait' = [u \in TgUsers |-> IF Expired(u) THEN None ELSE floodWait[u]]
        /\ floodMessageSent' = {u \in floodMessageSent : ~Expired(u)}
        /\ slipped' = IF Refusing /\ Expired(bot.user) THEN slipped \cup {bot.user} ELSE slipped
        /\ UNCHANGED <<bot, request, since, early>>
    BY <1>8 DEF updateFloodWait, Told
  <2>2. TypeOK'
    <3>1. Refusing => bot.user \in TgUsers
      BY DEF Refusing, Idle, Sending
    <3>2. slipped' \subseteq TgUsers
      BY <2>1, <3>1
    <3> QED
      BY <2>1, <3>2
  <2>3. EntryIsLastGrant'
    BY <2>1 DEF EntryIsLastGrant, Expired, Waiting
  <2>4. RefusedIsWaiting'
    <3>1. SUFFICES ASSUME Refusing PROVE Waiting(bot.user)' \/ bot.user \in slipped'
      BY <2>1 DEF RefusedIsWaiting, Refusing
    <3>2. bot.user \in TgUsers
      BY <3>1 DEF Refusing, Idle, Sending
    <3>3. CASE Expired(bot.user)
      BY <2>1, <3>1, <3>3
    <3>4. CASE ~Expired(bot.user)
      BY <2>1, <3>1, <3>2, <3>4 DEF RefusedIsWaiting, Waiting
    <3> QED
      BY <3>3, <3>4
  <2>5. MarkEndsWithWait'
    BY <2>1 DEF MarkEndsWithWait, Waiting
  <2> QED
    BY <2>1, <2>2, <2>3, <2>4, <2>5 DEF GrantsAreDue, OncePerWait
<1>9. CASE Restart
  <2>1. /\ floodWait' = [u \in TgUsers |-> None] /\ floodMessageSent' = {} /\ bot' = Idle
        /\ request' = [r \in Requests |-> None] /\ since' = [u \in TgUsers |-> Wait + 1]
        /\ slipped' = {} /\ UNCHANGED early
    BY <1>9 DEF Restart
  <2>2. Wait + 1 \in Ages /\ Wait + 1 > Wait
    BY FloodAssumption DEF Ages
  <2> QED
    BY <2>1, <2>2 DEF Idle, EntryIsLastGrant, GrantsAreDue, RefusedIsWaiting, Refusing, OncePerWait,
                      MarkEndsWithWait, Waiting
<1>10. CASE UNCHANGED vars
  BY <1>10 DEF vars, EntryIsLastGrant, GrantsAreDue, RefusedIsWaiting, Refusing, OncePerWait,
               MarkEndsWithWait, Waiting
<1> QED
  BY <1>1, <1>2, <1>3, <1>4, <1>5, <1>6, <1>7, <1>8, <1>9, <1>10, <1>11 DEF Next

LEMMA Invariance == Spec => []IInv
  BY InitInvariant, NextInvariant, PTL DEF Spec

(* Every variable keeps its type: no entry lies ahead of the clock.        *)
THEOREM TypeCorrect == Spec => []TypeOK
<1>1. IInv => TypeOK
  BY DEF IInv
<1> QED
  BY <1>1, Invariance, PTL

(* A user is granted a delivery once per wait, whoever asks for it, but    *)
(* for grants that had all checked the wait before the first was stamped.  *)
THEOREM GrantedOncePerWait == Spec => []OncePerWait
<1>1. IInv => OncePerWait
  BY DEF IInv
<1> QED
  BY <1>1, Invariance, PTL

(* Who is marked as told to wait has an entry, but for a user whose wait   *)
(* ended between the check and the mark.                                   *)
THEOREM MarkedInWait == Spec => []MarkEndsWithWait
<1>1. IInv => MarkEndsWithWait
  BY DEF IInv
<1> QED
  BY <1>1, Invariance, PTL
=============================================================================
