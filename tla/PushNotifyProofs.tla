-------------------------- MODULE PushNotifyProofs --------------------------
(***************************************************************************)
(* The safety properties of PushNotify, for any tokens, requests, limit    *)
(* and length of the minute.                                               *)
(*                                                                         *)
(* The file, the limiter and the tunnel's announcements share no state but *)
(* the requests, and each has an inductive invariant of its own beside     *)
(* TypeOK.                                                                 *)
(***************************************************************************)
EXTENDS PushNotify, FiniteSetTheorems, TLAPS

-----------------------------------------------------------------------------
(* Types.                                                                  *)

(* A request about the file, and a message under way, name a token.        *)
TokenNamed ==
    \A j \in Jobs :
        job[j].pc \in {"lock", "truncate", "write", "wait"} => job[j].token \in Tokens

LEMMA InitTypeOK == Init => TypeOK /\ TokenNamed
<1> SUFFICES ASSUME Init PROVE TypeOK /\ TokenNamed
  OBVIOUS
<1>1. Idle \in Job
  BY DEF Idle, Job
<1>2. hits \in [Tokens -> SUBSET Message] /\ sends \in [Tokens -> SUBSET Message]
  BY DEF Init, NoMessages
<1>3. \A t \in Tokens : hits[t] = {} /\ sends[t] = {}
  BY DEF Init, NoMessages
<1>4. \A t \in Tokens : /\ Cardinality(hits[t]) <= Limit
                       /\ IsFiniteSet(sends[t]) /\ hits[t] \subseteq sends[t]
  BY <1>3, FS_EmptySet, PushAssumption
<1>5. tunnel \in Tunnel
  BY DEF Init, Fresh, Tunnel
<1>6. now \in 0 .. MaxNow
  BY PushAssumption DEF Init
<1>7. TokenNamed
  BY DEF Init, Idle, TokenNamed
<1>8. process \in [run: 0 .. MaxRestarts, disableLogin: BOOLEAN]
  BY PushAssumption DEF Init
<1> QED
  BY <1>1, <1>2, <1>4, <1>5, <1>6, <1>7, <1>8 DEF Init, TypeOK

LEMMA FinishTypes ==
    ASSUME TypeOK, NEW j \in Jobs, Finish(j)
    PROVE  /\ job' \in [Jobs -> Job] /\ tunnel' \in Tunnel
           /\ job'[j] = Idle /\ \A i \in Jobs : i # j => job'[i] = job[i]
<1>1. Idle \in Job
  BY DEF Idle, Job
<1>2. job' \in [Jobs -> Job]
  BY <1>1 DEF Finish, TypeOK
<1>3. tunnel' = [tunnel EXCEPT !.mu = None] \/ tunnel' = tunnel
  BY DEF Finish
<1>4. tunnel \in Tunnel
  BY DEF TypeOK
<1>5. [tunnel EXCEPT !.mu = None] \in Tunnel
  BY <1>4 DEF Tunnel
<1>6. job'[j] = Idle /\ \A i \in Jobs : i # j => job'[i] = job[i]
  BY DEF Finish, TypeOK
<1> QED
  BY <1>2, <1>3, <1>4, <1>5, <1>6

LEMMA ProceedTypes ==
    ASSUME TypeOK, NEW j \in Jobs, Proceed(j)
    PROVE  /\ job' \in [Jobs -> Job] /\ tunnel' = tunnel
           /\ job'[j].pc = "send" /\ \A i \in Jobs : i # j => job'[i] = job[i]
<1> DEFINE next == [job[j] EXCEPT !.pc = "send", !.token = None, !.new = {}]
<1>1. next \in Job /\ next.pc = "send"
  <2>1. PICK r : r = job[j]
    OBVIOUS
  <2>2. r \in Job
    BY <2>1 DEF TypeOK
  <2>3. [r EXCEPT !.pc = "send", !.token = None, !.new = {}] \in Job
    BY <2>2 DEF Job
  <2>4. [r EXCEPT !.pc = "send", !.token = None, !.new = {}].pc = "send"
    BY <2>2 DEF Job
  <2> QED
    BY <2>1, <2>3, <2>4
<1>2. job' = [job EXCEPT ![j] = next] /\ tunnel' = tunnel
  BY DEF Proceed
<1> HIDE DEF next
<1> QED
  BY <1>1, <1>2 DEF TypeOK

(* What the limiter does with a message it lets through.                   *)
LEMMA Admitted ==
    ASSUME TypeOK, NEW t \in Tokens, ~OverLimit(t)
    PROVE  /\ IsFiniteSet(Kept(t)) /\ Cardinality(Kept(t)) \in Nat
           /\ Cardinality(Kept(t)) < Limit
           /\ IsFiniteSet(Kept(t) \cup {NextMessage(t)})
           /\ Cardinality(Kept(t) \cup {NextMessage(t)}) <= Limit
<1>1. IsFiniteSet(sends[t]) /\ Kept(t) \in SUBSET sends[t]
  BY DEF TypeOK, Kept
<1>2. IsFiniteSet(Kept(t))
  BY <1>1, FS_Subset
<1>3. Cardinality(Kept(t)) \in Nat
  BY <1>2, FS_CardinalityType
<1>4. Cardinality(Kept(t)) < Limit
  BY <1>3, PushAssumption DEF OverLimit
<1>5. IsFiniteSet(Kept(t) \cup {NextMessage(t)})
  BY <1>2, FS_AddElement
<1>6. Cardinality(Kept(t) \cup {NextMessage(t)}) \in {Cardinality(Kept(t)), Cardinality(Kept(t)) + 1}
  BY <1>2, FS_AddElement
<1> QED
  BY <1>2, <1>3, <1>4, <1>5, <1>6, PushAssumption

LEMMA NextMessageType ==
    ASSUME TypeOK, NEW t \in Tokens
    PROVE  NextMessage(t) \in Message
<1>1. Cardinality(sends[t]) + 1 \in Nat
  BY FS_CardinalityType DEF TypeOK
<1> QED
  BY <1>1 DEF NextMessage, Message, TypeOK

(* An answer for nobody concerns no request and no file.                   *)
LEMMA NobodyTypes ==
    ASSUME TypeOK, TokenNamed, NEW j \in Jobs, NEW t \in Tokens, RegisterForNobody(j, t)
    PROVE  TypeOK' /\ TokenNamed'
<1>1. answer' \in [Tokens -> {"register", "nobody", "unregister"}]
  BY DEF RegisterForNobody, TypeOK
<1> QED
  BY <1>1 DEF RegisterForNobody, TypeOK, TokenNamed, rateVars

(* Each action keeps the types.                                            *)
LEMMA SendTypes ==
    ASSUME TypeOK, TokenNamed, NEW j \in Jobs, NEW t \in Tokens, Send(j, t)
    PROVE  TypeOK' /\ TokenNamed'
<1> DEFINE m == NextMessage(t)
<1>1. job' \in [Jobs -> Job] /\ TokenNamed'
  <2> DEFINE passed == [job[j] EXCEPT !.list = @ \ {t}]
             sent == [job[j] EXCEPT !.list = @ \ {t}, !.token = t, !.pc = "wait"]
  <2>1. passed \in Job /\ passed.pc = job[j].pc /\ passed.token = job[j].token
    BY DEF TypeOK, Job
  <2>2. sent \in Job /\ sent.token = t
    <3>1. PICK r : r = job[j]
      OBVIOUS
    <3>2. r \in Job
      BY <3>1 DEF TypeOK
    <3>3. [r EXCEPT !.list = @ \ {t}, !.token = t, !.pc = "wait"] \in Job
      BY <3>2 DEF Job
    <3>4. [r EXCEPT !.list = @ \ {t}, !.token = t, !.pc = "wait"].token = t
      BY <3>2 DEF Job
    <3> QED
      BY <3>1, <3>3, <3>4
  <2>3. job' = [job EXCEPT ![j] = passed] \/ job' = [job EXCEPT ![j] = sent]
    BY DEF Send
  <2> HIDE DEF passed, sent
  <2>4. job' \in [Jobs -> Job]
    BY <2>1, <2>2, <2>3 DEF TypeOK
  <2>5. job'[j] \in {passed, sent} /\ \A i \in Jobs : i # j => job'[i] = job[i]
    BY <2>3 DEF TypeOK
  <2> QED
    BY <2>1, <2>2, <2>4, <2>5 DEF TokenNamed
<1>2. UNCHANGED <<file, tokenMu, answer, now, rejected, process, tunnel>>
  BY DEF Send, fileVars
<1>3. CASE OverLimit(t)
  <2>1. hits' = hits /\ sends' = sends
    BY <1>3 DEF Send
  <2> QED
    BY <1>1, <1>2, <2>1 DEF TypeOK
<1>4. CASE ~OverLimit(t)
  <2>1. /\ hits' = [hits EXCEPT ![t] = Kept(t) \cup {m}]
        /\ sends' = [sends EXCEPT ![t] = sends[t] \cup {m}]
    BY <1>4 DEF Send
  <2>2. m \in Message /\ Kept(t) \in SUBSET sends[t] /\ sends[t] \in SUBSET Message
    BY NextMessageType DEF TypeOK, Kept
  <2>3. Cardinality(Kept(t) \cup {m}) <= Limit
    BY <1>4, Admitted
  <2>4. IsFiniteSet(sends[t] \cup {m})
    BY FS_AddElement DEF TypeOK
  <2> HIDE DEF m
  <2>5. hits' \in [Tokens -> SUBSET Message] /\ sends' \in [Tokens -> SUBSET Message]
    BY <2>1, <2>2 DEF TypeOK
  <2>6. ASSUME NEW u \in Tokens
        PROVE  /\ Cardinality(hits'[u]) <= Limit
               /\ IsFiniteSet(sends'[u]) /\ hits'[u] \subseteq sends'[u]
    <3>1. CASE u = t
      BY <3>1, <2>1, <2>2, <2>3, <2>4 DEF TypeOK
    <3>2. CASE u # t
      BY <3>2, <2>1 DEF TypeOK
    <3> QED
      BY <3>1, <3>2
  <2> QED
    BY <1>1, <1>2, <2>5, <2>6 DEF TypeOK
<1> QED
  BY <1>3, <1>4

LEMMA FileStepTypes ==
    ASSUME TypeOK, TokenNamed, NEW j \in Jobs,
           ReadTokensFile(j) \/ ReadTornFile(j) \/ TruncateFile(j) \/ WriteTokensFile(j)
    PROVE  TypeOK' /\ TokenNamed'
<1>1. CASE ReadTokensFile(j)
  <2>1. file \in SUBSET Tokens /\ job[j].token \in Tokens
    BY <1>1 DEF ReadTokensFile, ReadForEdit, TypeOK, TokenNamed, At
  <2> DEFINE new == IF job[j].op = "register" THEN file \cup {job[j].token}
                    ELSE file \ {job[j].token}
             next == [job[j] EXCEPT !.pc = "truncate", !.new = new]
  <2>2. job' = [job EXCEPT ![j] = next]
    BY <1>1 DEF ReadTokensFile, ReadForEdit
  <2>3. new \in SUBSET Tokens
    BY <2>1
  <2> HIDE DEF new
  <2>4. next \in Job /\ next.token = job[j].token
    <3>1. PICK r : r = job[j]
      OBVIOUS
    <3>2. r \in Job
      BY <3>1 DEF TypeOK
    <3>3. [r EXCEPT !.pc = "truncate", !.new = new] \in Job
      BY <2>3, <3>2 DEF Job
    <3>4. [r EXCEPT !.pc = "truncate", !.new = new].token = r.token
      BY <3>2 DEF Job
    <3> QED
      BY <3>1, <3>3, <3>4
  <2> HIDE DEF next
  <2>5. job' \in [Jobs -> Job] /\ TokenNamed'
    BY <2>1, <2>2, <2>4 DEF TypeOK, TokenNamed
  <2>6. UNCHANGED <<file, answer, hits, now, rejected, sends, process, tunnel>> /\ tokenMu' = j
    BY <1>1 DEF ReadTokensFile, ReadForEdit, rateVars
  <2> QED
    BY <2>5, <2>6 DEF TypeOK
<1>2. CASE ReadTornFile(j)
  <2>1. Finish(j) \/ Proceed(j)
    BY <1>2 DEF ReadTornFile
  <2>2. UNCHANGED <<file, tokenMu, answer, hits, now, rejected, sends, process>>
    BY <1>2 DEF ReadTornFile, fileVars, rateVars
  <2>3. TypeOK'
    BY <2>1, <2>2, FinishTypes, ProceedTypes DEF TypeOK
  <2>4. TokenNamed'
    BY <2>1, FinishTypes, ProceedTypes DEF TokenNamed, Idle
  <2> QED
    BY <2>3, <2>4
<1>3. CASE TruncateFile(j)
  <2>1. job[j].token \in Tokens
    BY <1>3 DEF TruncateFile, At, TokenNamed
  <2> DEFINE next == [job[j] EXCEPT !.pc = "write"]
  <2>2. job' = [job EXCEPT ![j] = next]
    BY <1>3 DEF TruncateFile, Goto
  <2>3. next \in Job /\ next.token = job[j].token
    BY DEF TypeOK, Job
  <2> HIDE DEF next
  <2>4. job' \in [Jobs -> Job] /\ TokenNamed'
    BY <2>1, <2>2, <2>3 DEF TypeOK, TokenNamed
  <2>5. UNCHANGED <<tokenMu, answer, hits, now, rejected, sends, process, tunnel>> /\ file' = Torn
    BY <1>3 DEF TruncateFile, rateVars
  <2> QED
    BY <2>4, <2>5 DEF TypeOK
<1>4. CASE WriteTokensFile(j)
  <2>1. file' \in SUBSET Tokens /\ tokenMu' = None
    BY <1>4 DEF WriteTokensFile, TypeOK, Job
  <2>2. UNCHANGED <<hits, now, rejected, sends, process>>
    BY <1>4 DEF WriteTokensFile, rateVars
  <2>3. Finish(j) \/ Proceed(j)
    BY <1>4 DEF WriteTokensFile
  <2>4. TokenNamed'
    BY <2>3, FinishTypes, ProceedTypes DEF TokenNamed, Idle
  <2>5. answer' \in [Tokens -> {"register", "nobody", "unregister"}]
    <3>1. CASE Requested(j)
      <4>1. answer' = [answer EXCEPT ![job[j].token] = job[j].op]
        BY <3>1, <1>4 DEF WriteTokensFile
      <4> QED
        BY <3>1, <4>1 DEF TypeOK, Requested
    <3>2. CASE ~Requested(j)
      BY <3>2, <1>4 DEF WriteTokensFile, TypeOK
    <3> QED
      BY <3>1, <3>2
  <2> QED
    BY <2>1, <2>2, <2>3, <2>4, <2>5, FinishTypes, ProceedTypes DEF TypeOK
<1> QED
  BY <1>1, <1>2, <1>3, <1>4

(* Requests that begin.                                                    *)
LEMMA StartTypes ==
    ASSUME TypeOK, TokenNamed, NEW j \in Jobs, NEW op \in {"register", "unregister", "peer"},
           NEW pc \in {"lock", "load"}, NEW t \in Tokens \cup {None},
           pc = "lock" => t \in Tokens, Starts(j, op, pc, t)
    PROVE  TypeOK' /\ TokenNamed'
<1> DEFINE next == [Idle EXCEPT !.pc = pc, !.op = op, !.token = t]
<1>1. next \in Job /\ next.pc = pc /\ next.token = t
  BY DEF Idle, Job
<1>2. job' = [job EXCEPT ![j] = next]
  BY DEF Starts
<1> HIDE DEF next
<1>3. job' \in [Jobs -> Job] /\ TokenNamed'
  BY <1>1, <1>2 DEF TypeOK, TokenNamed
<1> QED
  BY <1>3 DEF Starts, TypeOK, fileVars, rateVars

LEMMA BroadcastStepTypes ==
    ASSUME TypeOK, TokenNamed, NEW j \in Jobs,
           \/ \E t \in Tokens \cup {None} : LoadTokens(j, t)
           \/ SendReturns(j) \/ SendRefused(j) \/ BroadcastEnds(j)
    PROVE  TypeOK' /\ TokenNamed'
<1>1. ASSUME NEW omit \in Tokens \cup {None}, LoadTokens(j, omit) PROVE TypeOK' /\ TokenNamed'
  <2> DEFINE next == [job[j] EXCEPT !.pc = "send", !.list = file \ {omit}]
  <2>1. file \in SUBSET Tokens
    BY <1>1 DEF LoadTokens, TypeOK
  <2>2. next \in Job /\ next.pc = "send"
    <3>1. PICK r : r = job[j]
      OBVIOUS
    <3>2. r \in Job /\ file \ {omit} \in SUBSET Tokens
      BY <2>1, <3>1 DEF TypeOK
    <3>3. PICK list : list = file \ {omit}
      OBVIOUS
    <3>4. [r EXCEPT !.pc = "send", !.list = list] \in Job
      BY <3>2, <3>3 DEF Job
    <3>5. [r EXCEPT !.pc = "send", !.list = list].pc = "send"
      BY <3>2 DEF Job
    <3> QED
      BY <3>1, <3>3, <3>4, <3>5
  <2>3. job' = [job EXCEPT ![j] = next]
    BY <1>1 DEF LoadTokens
  <2> HIDE DEF next
  <2>4. job' \in [Jobs -> Job] /\ TokenNamed'
    BY <2>2, <2>3 DEF TypeOK, TokenNamed
  <2> QED
    BY <1>1, <2>4 DEF LoadTokens, TypeOK, fileVars, rateVars
<1>2. CASE SendReturns(j)
  <2>1. Proceed(j) /\ UNCHANGED <<file, tokenMu, answer, hits, now, rejected, sends, process>>
    BY <1>2 DEF SendReturns, fileVars, rateVars
  <2> QED
    BY <2>1, ProceedTypes DEF TypeOK, TokenNamed
<1>3. CASE SendRefused(j)
  <2> DEFINE next == [job[j] EXCEPT !.pc = "lock"]
  <2>1. job[j].token \in Tokens
    BY <1>3 DEF SendRefused, At, TokenNamed
  <2>2. next \in Job /\ next.token = job[j].token
    BY DEF TypeOK, Job
  <2>3. job' = [job EXCEPT ![j] = next] /\ rejected' = rejected \cup {job[j].token}
    BY <1>3 DEF SendRefused, Goto
  <2> HIDE DEF next
  <2>4. job' \in [Jobs -> Job] /\ TokenNamed' /\ rejected' \subseteq Tokens
    BY <2>1, <2>2, <2>3 DEF TypeOK, TokenNamed
  <2> QED
    BY <1>3, <2>4 DEF SendRefused, TypeOK, fileVars
<1>4. CASE BroadcastEnds(j)
  <2>1. Finish(j) /\ UNCHANGED <<file, tokenMu, answer, hits, now, rejected, sends, process>>
    BY <1>4 DEF BroadcastEnds, fileVars, rateVars
  <2> QED
    BY <2>1, FinishTypes DEF TypeOK, TokenNamed, Idle
<1> QED
  BY <1>1, <1>2, <1>3, <1>4

(* A poll of the tunnel begins; the others at "report" remember it.        *)
LEMMA StatusFacts ==
    ASSUME TypeOK, NEW j \in Jobs, WireGuardTunnelStatus(j)
    PROVE  /\ job' \in [Jobs -> Job]
           /\ job'[j].pc = "report" /\ job'[j].up = tunnel.up /\ job'[j].met = FALSE
           /\ \A i \in Jobs : i # j =>
                 /\ job'[i].pc = job[i].pc /\ job'[i].op = job[i].op
                 /\ job'[i].token = job[i].token /\ job'[i].list = job[i].list
                 /\ job'[i].new = job[i].new /\ job'[i].up = job[i].up
                 /\ job'[i].met = (job[i].met \/ At(i, "report"))
           /\ UNCHANGED <<file, tokenMu, answer, hits, now, rejected, sends, process, tunnel>>
<1> DEFINE begun == [Idle EXCEPT !.pc = "report", !.op = "tunnel", !.up = tunnel.up]
           noted(i) == [job[i] EXCEPT !.met = @ \/ At(i, "report")]
<1>1. job' = [i \in Jobs |-> IF i = j THEN begun ELSE noted(i)]
  BY DEF WireGuardTunnelStatus
<1>2. begun \in Job /\ begun.pc = "report" /\ begun.up = tunnel.up /\ begun.met = FALSE
  BY DEF Idle, Job, TypeOK, Tunnel
<1>3. ASSUME NEW i \in Jobs
      PROVE  /\ noted(i) \in Job
             /\ noted(i).pc = job[i].pc /\ noted(i).op = job[i].op
             /\ noted(i).token = job[i].token /\ noted(i).list = job[i].list
             /\ noted(i).new = job[i].new /\ noted(i).up = job[i].up
             /\ noted(i).met = (job[i].met \/ At(i, "report"))
  <2>1. job[i] \in Job
    BY DEF TypeOK
  <2>2. (job[i].met \/ At(i, "report")) \in BOOLEAN
    OBVIOUS
  <2> QED
    BY <2>1, <2>2 DEF Job
<1>4. UNCHANGED <<file, tokenMu, answer, hits, now, rejected, sends, process, tunnel>>
  BY DEF WireGuardTunnelStatus, fileVars, rateVars
<1> HIDE DEF begun, noted
<1> QED
  BY <1>1, <1>2, <1>3, <1>4

LEMMA StatusTypes ==
    ASSUME TypeOK, TokenNamed, NEW j \in Jobs, WireGuardTunnelStatus(j)
    PROVE  TypeOK' /\ TokenNamed'
<1>1. TypeOK'
  BY StatusFacts DEF TypeOK
<1>2. TokenNamed'
  BY StatusFacts DEF TokenNamed
<1> QED
  BY <1>1, <1>2

(* What the report of a poll does, when it is silent and when it speaks.   *)
LEMMA TransitionFacts ==
    ASSUME TypeOK, NEW j \in Jobs, TunnelRunningTransition(j)
    PROVE  /\ job' \in [Jobs -> Job]
           /\ job'[j].pc \in {"idle", "load"}
           /\ \A i \in Jobs : i # j => job'[i] = job[i]
           /\ tunnel' \in Tunnel
           /\ tunnel'.lastWasUp = job[j].up /\ tunnel'.up = tunnel.up
           /\ tunnel'.changes = tunnel.changes
           /\ tunnel'.crossed = (tunnel.crossed \/ job[j].met)
           /\ tunnel'.announced = IF Silent(job[j].up) THEN tunnel.announced
                                  ELSE tunnel.announced + 1
           /\ UNCHANGED <<file, tokenMu, answer, hits, now, rejected, sends, process>>
<1> DEFINE crossed == tunnel.crossed \/ job[j].met
<1>1. tunnel \in Tunnel /\ job[j] \in Job
  BY DEF TypeOK
<1>2. crossed \in BOOLEAN /\ job[j].up \in BOOLEAN
  BY <1>1 DEF Job
<1>3. UNCHANGED <<file, tokenMu, answer, hits, now, rejected, sends, process>>
  BY DEF TunnelRunningTransition, fileVars, rateVars
<1>4. CASE Silent(job[j].up)
  <2> DEFINE next == [tunnel EXCEPT !.lastWasUp = job[j].up, !.crossed = crossed]
  <2>1. tunnel' = next /\ job' = [job EXCEPT ![j] = Idle]
    BY <1>4 DEF TunnelRunningTransition
  <2>2. /\ next \in Tunnel
        /\ next.lastWasUp = job[j].up /\ next.up = tunnel.up /\ next.changes = tunnel.changes
        /\ next.crossed = crossed /\ next.announced = tunnel.announced
    BY <1>1, <1>2 DEF Tunnel
  <2>3. Idle \in Job /\ Idle.pc = "idle"
    BY DEF Idle, Job
  <2> HIDE DEF next
  <2>4. job' \in [Jobs -> Job] /\ job'[j].pc = "idle" /\ \A i \in Jobs : i # j => job'[i] = job[i]
    BY <2>1, <2>3 DEF TypeOK
  <2> QED
    BY <1>3, <1>4, <2>1, <2>2, <2>4
<1>5. CASE ~Silent(job[j].up)
  <2> DEFINE next == [tunnel EXCEPT !.mu = j, !.lastWasUp = job[j].up, !.crossed = crossed,
                                    !.announced = @ + 1]
             speaks == [job[j] EXCEPT !.pc = "load"]
  <2>1. tunnel' = next /\ job' = [job EXCEPT ![j] = speaks]
    BY <1>5 DEF TunnelRunningTransition, Goto
  <2>2. /\ next \in Tunnel
        /\ next.lastWasUp = job[j].up /\ next.up = tunnel.up /\ next.changes = tunnel.changes
        /\ next.crossed = crossed /\ next.announced = tunnel.announced + 1
    <3> DEFINE announced == tunnel.announced + 1
    <3>1. announced \in Nat
      BY <1>1 DEF Tunnel
    <3>2. next = [tunnel EXCEPT !.mu = j, !.lastWasUp = job[j].up, !.crossed = crossed,
                                !.announced = announced]
      OBVIOUS
    <3> HIDE DEF next, announced, crossed
    <3>3. /\ next \in Tunnel
          /\ next.lastWasUp = job[j].up /\ next.up = tunnel.up /\ next.changes = tunnel.changes
          /\ next.crossed = crossed /\ next.announced = announced
      BY <1>1, <1>2, <3>1, <3>2 DEF Tunnel
    <3> QED
      BY <3>3 DEF announced
  <2>3. speaks \in Job /\ speaks.pc = "load"
    BY <1>1 DEF Job
  <2> HIDE DEF next, speaks
  <2>4. job' \in [Jobs -> Job] /\ job'[j].pc = "load" /\ \A i \in Jobs : i # j => job'[i] = job[i]
    BY <2>1, <2>3 DEF TypeOK
  <2> QED
    BY <1>3, <1>5, <2>1, <2>2, <2>4
<1> QED
  BY <1>4, <1>5

LEMMA TransitionTypes ==
    ASSUME TypeOK, TokenNamed, NEW j \in Jobs, TunnelRunningTransition(j)
    PROVE  TypeOK' /\ TokenNamed'
<1>1. TypeOK'
  BY TransitionFacts DEF TypeOK
<1>2. TokenNamed'
  BY TransitionFacts DEF TokenNamed
<1> QED
  BY <1>1, <1>2

(* Steps of no request.                                                    *)
LEMMA WorldTypes ==
    ASSUME TypeOK, TokenNamed, Tick \/ TunnelChanges \/ Restart \/ UNCHANGED vars
    PROVE  TypeOK' /\ TokenNamed'
<1>1. CASE Tick
  <2>1. now' \in 0 .. MaxNow
    BY <1>1, PushAssumption DEF Tick, TypeOK
  <2> QED
    BY <1>1, <2>1 DEF Tick, TypeOK, TokenNamed, fileVars
<1>2. CASE TunnelChanges
  <2>1. tunnel \in Tunnel /\ tunnel' = [tunnel EXCEPT !.up = ~@, !.changes = @ + 1]
    BY <1>2 DEF TunnelChanges, TypeOK
  <2> DEFINE up == ~tunnel.up
             changes == tunnel.changes + 1
  <2>2. up \in BOOLEAN /\ changes \in Nat
    BY <2>1 DEF Tunnel
  <2>3. tunnel' = [tunnel EXCEPT !.up = up, !.changes = changes]
    BY <2>1
  <2> HIDE DEF up, changes
  <2>4. tunnel' \in Tunnel
    BY <2>1, <2>2, <2>3 DEF Tunnel
  <2> QED
    BY <1>2, <2>4 DEF TunnelChanges, TypeOK, TokenNamed, fileVars, rateVars
<1>3. CASE Restart
  <2>1. Idle \in Job /\ Idle.pc = "idle"
    BY DEF Idle, Job
  <2>2. job' \in [Jobs -> Job] /\ \A j \in Jobs : job'[j].pc = "idle"
    BY <1>3, <2>1 DEF Restart
  <2>3. tunnel' = Fresh(tunnel.up) /\ tunnel.up \in BOOLEAN
    BY <1>3 DEF Restart, TypeOK, Tunnel
  <2>4. tunnel' \in Tunnel
    BY <2>3 DEF Fresh, Tunnel
  <2>5. hits' = NoMessages /\ sends' = sends
    BY <1>3 DEF Restart
  <2>6. hits' \in [Tokens -> SUBSET Message]
    BY <2>5 DEF NoMessages
  <2>7. \A t \in Tokens : hits'[t] = {} /\ sends'[t] = sends[t]
    BY <2>5 DEF NoMessages
  <2>8. \A t \in Tokens : /\ Cardinality(hits'[t]) <= Limit
                          /\ IsFiniteSet(sends'[t]) /\ hits'[t] \subseteq sends'[t]
    <3>1. Cardinality({}) = 0 /\ 0 <= Limit
      BY FS_EmptySet, PushAssumption
    <3> QED
      BY <2>7, <3>1 DEF TypeOK
  <2>9. /\ UNCHANGED <<file, answer, now, rejected, sends>> /\ tokenMu' = None
        /\ process' \in [run: 0 .. MaxRestarts, disableLogin: BOOLEAN]
    BY <1>3, PushAssumption DEF Restart, TypeOK
  <2>10. TypeOK'
    BY <2>2, <2>4, <2>6, <2>8, <2>9 DEF TypeOK
  <2>11. TokenNamed'
    BY <2>2 DEF TokenNamed
  <2> QED
    BY <2>10, <2>11
<1>4. CASE UNCHANGED vars
  BY <1>4 DEF vars, TypeOK, TokenNamed
<1> QED
  BY <1>1, <1>2, <1>3, <1>4

LEMMA NextTypes == TypeOK /\ TokenNamed /\ [Next]_vars => TypeOK' /\ TokenNamed'
<1> SUFFICES ASSUME TypeOK, TokenNamed, [Next]_vars PROVE TypeOK' /\ TokenNamed'
  OBVIOUS
<1>1. ASSUME NEW j \in Jobs, NEW t \in Tokens, RegisterPushToken(j, t)
      PROVE  TypeOK' /\ TokenNamed'
  BY <1>1, StartTypes DEF RegisterPushToken
<1>2. ASSUME NEW j \in Jobs, NEW t \in Tokens, UnregisterPushToken(j, t)
      PROVE  TypeOK' /\ TokenNamed'
  BY <1>2, StartTypes DEF UnregisterPushToken
<1>3. ASSUME NEW j \in Jobs, PeerChanged(j) PROVE TypeOK' /\ TokenNamed'
  BY <1>3, StartTypes DEF PeerChanged
<1> QED
  BY <1>1, <1>2, <1>3, NobodyTypes, SendTypes, FileStepTypes, BroadcastStepTypes, StatusTypes, TransitionTypes,
     WorldTypes DEF Next

LEMMA Types == Spec => [](TypeOK /\ TokenNamed)
BY InitTypeOK, NextTypes, PTL DEF Spec

(* Tokens, rate limiter and tunnel state keep the shape of the code's.     *)
THEOREM TypeCorrect == Spec => []TypeOK
BY Types, PTL

-----------------------------------------------------------------------------
(* The file of tokens.                                                     *)

Editing(j) == job[j].pc \in {"truncate", "write"}

(* The lock is held from the reading of the file to its writing.           *)
EditsAreLocked == \A j \in Jobs : Editing(j) => tokenMu = j

(* A token that a broadcast unregisters has been refused.                  *)
UnregisteredWereRefused ==
    \A j \in Jobs :
        job[j].pc \in {"lock", "truncate", "write"} /\ ~Requested(j) => job[j].token \in rejected

(* A set of tokens agrees with the answer given about one of them.         *)
Agrees(t, tokens) ==
    /\ answer[t] = "register" => t \in tokens \cup rejected
    /\ answer[t] = "unregister" => t \notin tokens

(* What is to be written agrees with the answers given, and with the one   *)
(* to be given.                                                            *)
NewHoldsAnswers ==
    \A j \in Jobs : Editing(j) =>
        /\ \A t \in Tokens : t # job[j].token => Agrees(t, job[j].new)
        /\ job[j].token \in job[j].new <=> job[j].op = "register"

FileInv ==
    /\ EditsAreLocked
    /\ UnregisteredWereRefused
    /\ NewHoldsAnswers
    /\ FileHoldsAnswers

(* A step that leaves the file and the answers alone, and takes no request *)
(* further than the lock.                                                  *)
LEMMA FileUntouched ==
    ASSUME FileInv, UNCHANGED <<file, tokenMu, answer>>, rejected \subseteq rejected',
           \A i \in Jobs : Editing(i)' =>
               /\ Editing(i) /\ job'[i].op = job[i].op
               /\ job'[i].token = job[i].token /\ job'[i].new = job[i].new,
           \A i \in Jobs : At(i, "lock")' /\ ~Requested(i)' => job'[i].token \in rejected'
    PROVE  FileInv'
<1>1. EditsAreLocked'
  BY DEF FileInv, EditsAreLocked
<1>2. UnregisteredWereRefused'
  <2> SUFFICES ASSUME NEW i \in Jobs, job'[i].pc \in {"lock", "truncate", "write"},
                      ~Requested(i)'
               PROVE  job'[i].token \in rejected'
    BY DEF UnregisteredWereRefused
  <2>1. CASE job'[i].pc = "lock"
    BY <2>1 DEF At
  <2>2. CASE job'[i].pc # "lock"
    <3>1. Editing(i)'
      BY <2>2 DEF Editing
    <3>2. job[i].pc \in {"lock", "truncate", "write"} /\ ~Requested(i)
      BY <3>1 DEF Editing, Requested
    <3> QED
      BY <3>1, <3>2 DEF FileInv, UnregisteredWereRefused
  <2> QED
    BY <2>1, <2>2
<1>3. NewHoldsAnswers'
  BY DEF FileInv, NewHoldsAnswers, Agrees
<1>4. FileHoldsAnswers'
  BY DEF FileInv, FileHoldsAnswers
<1> QED
  BY <1>1, <1>2, <1>3, <1>4 DEF FileInv

(* The same when only one request has moved, and not to the file.          *)
LEMMA FileUntouchedBy ==
    ASSUME FileInv, NEW j \in Jobs, UNCHANGED <<file, tokenMu, answer>>,
           rejected \subseteq rejected',
           \A i \in Jobs : i # j => job'[i] = job[i],
           ~Editing(j)',
           At(j, "lock")' /\ ~Requested(j)' => job'[j].token \in rejected'
    PROVE  FileInv'
<1>1. ASSUME NEW i \in Jobs, At(i, "lock")', ~Requested(i)' PROVE job'[i].token \in rejected'
  <2>1. CASE i = j
    BY <2>1, <1>1
  <2>2. CASE i # j
    BY <2>2, <1>1 DEF FileInv, UnregisteredWereRefused, At, Requested
  <2> QED
    BY <2>1, <2>2
<1>2. \A i \in Jobs : Editing(i)' =>
          /\ Editing(i) /\ job'[i].op = job[i].op
          /\ job'[i].token = job[i].token /\ job'[i].new = job[i].new
  BY DEF Editing
<1> QED
  BY <1>1, <1>2, FileUntouched

LEMMA ReadKeepsFileInv ==
    ASSUME TypeOK, TokenNamed, FileInv, NEW j \in Jobs, ReadTokensFile(j)
    PROVE  FileInv'
<1> DEFINE new == IF job[j].op = "register" THEN file \cup {job[j].token}
                  ELSE file \ {job[j].token}
           next == [job[j] EXCEPT !.pc = "truncate", !.new = new]
<1>1. job[j].token \in Tokens /\ job[j].pc = "lock"
  BY DEF ReadTokensFile, ReadForEdit, TokenNamed, At
<1>2. job' = [job EXCEPT ![j] = next]
  BY DEF ReadTokensFile, ReadForEdit
<1>3. UNCHANGED <<file, answer, rejected>> /\ file # Torn /\ tokenMu = None /\ tokenMu' = j
  BY DEF ReadTokensFile, ReadForEdit, rateVars
<1>4. next.pc = "truncate" /\ next.new = new /\ next.token = job[j].token /\ next.op = job[j].op
  BY DEF TypeOK, Job
<1>5. job[j].token \in new <=> job[j].op = "register"
  OBVIOUS
<1>6. \A t \in Tokens : t # job[j].token => (t \in new <=> t \in file)
  OBVIOUS
<1> HIDE DEF new, next
<1>7. job'[j] = next /\ \A i \in Jobs : i # j => job'[i] = job[i]
  BY <1>2 DEF TypeOK
<1>8. \A i \in Jobs : i # j => ~Editing(i)
  BY <1>3, PushAssumption DEF FileInv, EditsAreLocked
<1>9. EditsAreLocked'
  BY <1>3, <1>7, <1>8 DEF EditsAreLocked, Editing
<1>10. UnregisteredWereRefused'
  <2>1. ~Requested(j)' => ~Requested(j)
    BY <1>4, <1>7 DEF Requested
  <2>2. ~Requested(j) => job[j].token \in rejected
    BY <1>1 DEF FileInv, UnregisteredWereRefused
  <2> QED
    BY <1>3, <1>4, <1>7, <2>1, <2>2 DEF FileInv, UnregisteredWereRefused, Requested
<1>11. NewHoldsAnswers'
  <2>1. \A t \in Tokens : Agrees(t, file)
    BY <1>3 DEF FileInv, FileHoldsAnswers, Agrees
  <2>2. \A i \in Jobs : Editing(i)' => i = j
    BY <1>7, <1>8 DEF Editing
  <2> QED
    BY <2>1, <2>2, <1>3, <1>4, <1>5, <1>6, <1>7 DEF NewHoldsAnswers, Agrees
<1>12. FileHoldsAnswers'
  BY <1>3 DEF FileInv, FileHoldsAnswers
<1> QED
  BY <1>9, <1>10, <1>11, <1>12 DEF FileInv

LEMMA TruncateKeepsFileInv ==
    ASSUME TypeOK, FileInv, NEW j \in Jobs, TruncateFile(j)
    PROVE  FileInv'
<1> DEFINE next == [job[j] EXCEPT !.pc = "write"]
<1>1. job' = [job EXCEPT ![j] = next]
  BY DEF TruncateFile, Goto
<1>2. job[j].pc = "truncate" /\ UNCHANGED <<tokenMu, answer, rejected>> /\ file' = Torn
  BY DEF TruncateFile, At, rateVars
<1>3. /\ next.pc = "write" /\ next.new = job[j].new
      /\ next.token = job[j].token /\ next.op = job[j].op
  BY DEF TypeOK, Job
<1> HIDE DEF next
<1>4. job'[j] = next /\ \A i \in Jobs : i # j => job'[i] = job[i]
  BY <1>1 DEF TypeOK
<1>5. EditsAreLocked'
  BY <1>2, <1>4 DEF FileInv, EditsAreLocked, Editing
<1>6. UnregisteredWereRefused'
  BY <1>2, <1>3, <1>4 DEF FileInv, UnregisteredWereRefused, Requested
<1>7. NewHoldsAnswers'
  BY <1>2, <1>3, <1>4 DEF FileInv, NewHoldsAnswers, Agrees, Editing
<1>8. FileHoldsAnswers'
  BY <1>2 DEF FileHoldsAnswers
<1> QED
  BY <1>5, <1>6, <1>7, <1>8 DEF FileInv

(* Writing makes the file say what the request will be answered.           *)
LEMMA WriteKeepsFileInv ==
    ASSUME TypeOK, TokenNamed, FileInv, NEW j \in Jobs, WriteTokensFile(j)
    PROVE  FileInv'
<1>1. job[j].pc = "write" /\ job[j].token \in Tokens /\ Editing(j)
  BY DEF WriteTokensFile, At, TokenNamed, Editing
<1>2. file' = job[j].new /\ tokenMu' = None /\ rejected' = rejected
  BY DEF WriteTokensFile, rateVars
<1>3. ~Editing(j)' /\ ~At(j, "lock")' /\ \A i \in Jobs : i # j => job'[i] = job[i]
  BY FinishTypes, ProceedTypes DEF WriteTokensFile, Editing, At, Idle
<1>4. \A i \in Jobs : ~Editing(i)'
  BY <1>1, <1>3, PushAssumption DEF FileInv, EditsAreLocked, Editing
<1>5. EditsAreLocked' /\ NewHoldsAnswers'
  BY <1>4 DEF EditsAreLocked, NewHoldsAnswers
<1>6. UnregisteredWereRefused'
  <2> SUFFICES ASSUME NEW i \in Jobs, job'[i].pc \in {"lock", "truncate", "write"},
                      ~Requested(i)'
               PROVE  job'[i].token \in rejected'
    BY DEF UnregisteredWereRefused
  <2>1. i # j
    BY <1>3 DEF Editing, At
  <2> QED
    BY <2>1, <1>2, <1>3 DEF FileInv, UnregisteredWereRefused, Requested
<1>7. FileHoldsAnswers'
  <2>1. /\ \A t \in Tokens : t # job[j].token => Agrees(t, job[j].new)
        /\ job[j].token \in job[j].new <=> job[j].op = "register"
    BY <1>1 DEF FileInv, NewHoldsAnswers
  <2>2. CASE Requested(j)
    <3>1. answer' = [answer EXCEPT ![job[j].token] = job[j].op]
      BY <2>2 DEF WriteTokensFile
    <3>2. answer'[job[j].token] = job[j].op /\ \A t \in Tokens : t # job[j].token => answer'[t] = answer[t]
      BY <3>1, <1>1 DEF TypeOK
    <3> QED
      BY <2>1, <2>2, <3>2, <1>2 DEF FileHoldsAnswers, Agrees, Requested
  <2>3. CASE ~Requested(j)
    <3>1. answer' = answer /\ job[j].token \in rejected
      BY <2>3, <1>1 DEF WriteTokensFile, FileInv, UnregisteredWereRefused
    <3>2. job[j].token \notin job[j].new
      BY <2>1, <2>3 DEF Requested
    <3> QED
      BY <2>1, <3>1, <3>2, <1>2 DEF FileHoldsAnswers, Agrees
  <2> QED
    BY <2>2, <2>3
<1> QED
  BY <1>5, <1>6, <1>7 DEF FileInv

LEMMA NextFileInv ==
    TypeOK /\ TokenNamed /\ FileInv /\ [Next]_vars => FileInv'
<1> SUFFICES ASSUME TypeOK, TokenNamed, FileInv, [Next]_vars PROVE FileInv'
  OBVIOUS
<1>1. ASSUME NEW j \in Jobs, NEW t \in Tokens, RegisterPushToken(j, t) \/ UnregisterPushToken(j, t)
      PROVE  FileInv'
  <2>1. PICK op \in {"register", "unregister"} : Starts(j, op, "lock", t)
    BY <1>1 DEF RegisterPushToken, UnregisterPushToken
  <2>2. job'[j] = [Idle EXCEPT !.pc = "lock", !.op = op, !.token = t]
    BY <2>1 DEF Starts, TypeOK
  <2>3. job'[j].pc = "lock" /\ job'[j].op = op
    BY <2>2 DEF Idle
  <2>4. UNCHANGED <<file, tokenMu, answer, rejected>> /\ \A i \in Jobs : i # j => job'[i] = job[i]
    BY <2>1 DEF Starts, TypeOK, fileVars, rateVars
  <2> QED
    BY <2>3, <2>4, FileUntouchedBy DEF Editing, Requested
<1>2. ASSUME NEW j \in Jobs, PeerChanged(j) PROVE FileInv'
  <2>1. job'[j] = [Idle EXCEPT !.pc = "load", !.op = "peer", !.token = None]
    BY <1>2 DEF PeerChanged, Starts, TypeOK
  <2>2. job'[j].pc = "load"
    BY <2>1 DEF Idle
  <2>3. UNCHANGED <<file, tokenMu, answer, rejected>> /\ \A i \in Jobs : i # j => job'[i] = job[i]
    BY <1>2 DEF PeerChanged, Starts, TypeOK, fileVars, rateVars
  <2> QED
    BY <2>2, <2>3, FileUntouchedBy DEF Editing, At
<1>3. ASSUME NEW j \in Jobs, NEW t \in Tokens, Send(j, t) PROVE FileInv'
  <2>1. job[j].pc = "send" /\ UNCHANGED <<file, tokenMu, answer, rejected>>
    BY <1>3 DEF Send, At, fileVars
  <2>2. job'[j].pc \in {"send", "wait"} /\ \A i \in Jobs : i # j => job'[i] = job[i]
    BY <1>3, <2>1 DEF Send, TypeOK, Job
  <2> QED
    BY <2>1, <2>2, FileUntouchedBy DEF Editing, At
<1>4. ASSUME NEW j \in Jobs, NEW t \in Tokens \cup {None}, LoadTokens(j, t) PROVE FileInv'
  <2>1. job'[j].pc = "send" /\ \A i \in Jobs : i # j => job'[i] = job[i]
    BY <1>4 DEF LoadTokens, TypeOK, Job
  <2> QED
    BY <1>4, <2>1, FileUntouchedBy DEF LoadTokens, Editing, At, fileVars, rateVars
<1>5. ASSUME NEW j \in Jobs, ReadTornFile(j) \/ SendReturns(j) \/ BroadcastEnds(j) PROVE FileInv'
  <2>1. Finish(j) \/ Proceed(j)
    BY <1>5 DEF ReadTornFile, SendReturns, BroadcastEnds
  <2>2. UNCHANGED <<file, tokenMu, answer, rejected>>
    BY <1>5 DEF ReadTornFile, SendReturns, BroadcastEnds, fileVars, rateVars
  <2>3. job'[j].pc \in {"idle", "send"} /\ \A i \in Jobs : i # j => job'[i] = job[i]
    BY <2>1, FinishTypes, ProceedTypes DEF Idle
  <2> QED
    BY <2>2, <2>3, FileUntouchedBy DEF Editing, At
<1>6. ASSUME NEW j \in Jobs, SendRefused(j) PROVE FileInv'
  <2>1. /\ UNCHANGED <<file, tokenMu, answer>> /\ rejected' = rejected \cup {job[j].token}
        /\ \A i \in Jobs : i # j => job'[i] = job[i]
        /\ job'[j].pc = "lock" /\ job'[j].token = job[j].token
    BY <1>6 DEF SendRefused, Goto, TypeOK, Job, fileVars
  <2> QED
    BY <2>1, FileUntouchedBy DEF Editing
<1>7. ASSUME NEW j \in Jobs, WireGuardTunnelStatus(j) PROVE FileInv'
  <2>1. \A i \in Jobs : job'[i].pc \in {"lock", "truncate", "write"} =>
            /\ job'[i].pc = job[i].pc /\ job'[i].op = job[i].op
            /\ job'[i].token = job[i].token /\ job'[i].new = job[i].new
    BY <1>7, StatusFacts
  <2>2. ASSUME NEW i \in Jobs, At(i, "lock")', ~Requested(i)' PROVE job'[i].token \in rejected'
    <3>1. job[i].pc = "lock" /\ ~Requested(i) /\ job'[i].token = job[i].token
      BY <2>1, <2>2 DEF At, Requested
    <3> QED
      BY <3>1, <1>7, StatusFacts DEF FileInv, UnregisteredWereRefused
  <2> QED
    BY <2>1, <2>2, <1>7, StatusFacts, FileUntouched DEF Editing
<1>8. ASSUME NEW j \in Jobs, TunnelRunningTransition(j) PROVE FileInv'
  <2>1. ~Editing(j)' /\ ~At(j, "lock")'
    BY <1>8, TransitionFacts DEF Editing, At
  <2> QED
    BY <2>1, <1>8, TransitionFacts, FileUntouchedBy
<1>9. CASE Tick \/ TunnelChanges \/ UNCHANGED vars
  <2>1. UNCHANGED <<file, tokenMu, answer, rejected, job>>
    BY <1>9 DEF Tick, TunnelChanges, vars, fileVars, rateVars
  <2> QED
    BY <2>1 DEF FileInv, EditsAreLocked, Editing, UnregisteredWereRefused, Requested,
                NewHoldsAnswers, Agrees, FileHoldsAnswers
<1>10. CASE Restart
  <2>1. \A i \in Jobs : job'[i].pc = "idle"
    BY <1>10 DEF Restart, Idle
  <2>2. EditsAreLocked' /\ UnregisteredWereRefused' /\ NewHoldsAnswers'
    BY <2>1 DEF EditsAreLocked, UnregisteredWereRefused, NewHoldsAnswers, Editing
  <2>3. FileHoldsAnswers'
    BY <1>10 DEF Restart, FileInv, FileHoldsAnswers
  <2> QED
    BY <2>2, <2>3 DEF FileInv
<1>11. ASSUME NEW j \in Jobs, NEW t \in Tokens, RegisterForNobody(j, t) PROVE FileInv'
  <2>1. UNCHANGED <<file, tokenMu, rejected, job>>
    BY <1>11 DEF RegisterForNobody, rateVars
  <2>2. answer'[t] = "nobody" /\ \A u \in Tokens : u # t => answer'[u] = answer[u]
    BY <1>11 DEF RegisterForNobody, TypeOK
  <2>3. EditsAreLocked' /\ UnregisteredWereRefused'
    BY <2>1 DEF FileInv, EditsAreLocked, Editing, UnregisteredWereRefused, Requested
  <2>4. NewHoldsAnswers'
    BY <2>1, <2>2 DEF FileInv, NewHoldsAnswers, Agrees, Editing
  <2>5. FileHoldsAnswers'
    BY <2>1, <2>2 DEF FileInv, FileHoldsAnswers
  <2> QED
    BY <2>3, <2>4, <2>5 DEF FileInv
<1> QED
  BY <1>1, <1>2, <1>3, <1>4, <1>5, <1>6, <1>7, <1>8, <1>9, <1>10, <1>11, ReadKeepsFileInv,
     TruncateKeepsFileInv, WriteKeepsFileInv DEF Next

(* tokens.go: the lock around reading and writing makes the file say what  *)
(* the devices of users were told, however requests and broadcasts         *)
(* overlap.                                                                *)
THEOREM FileIsTruthful == Spec => []FileHoldsAnswers
<1>1. Init => FileInv
  <2> SUFFICES ASSUME Init PROVE FileInv
    OBVIOUS
  <2>1. \A j \in Jobs : job[j].pc = "idle"
    BY DEF Init, Idle
  <2> QED
    BY <2>1 DEF Init, FileInv, EditsAreLocked, Editing, UnregisteredWereRefused,
                NewHoldsAnswers, FileHoldsAnswers
<1>2. FileInv => FileHoldsAnswers
  BY DEF FileInv
<1> QED
  BY <1>1, <1>2, Types, NextFileInv, PTL DEF Spec

-----------------------------------------------------------------------------
(* The announcements.                                                      *)

(* A poll that no later poll has met, about to report.                     *)
Latest(j) == At(j, "report") /\ ~job[j].met

OneIsLatest == \A i, j \in Jobs : Latest(i) /\ Latest(j) => i = j

(* Changes of the tunnel since it was in state up, at the least.           *)
ChangedSince(up) == IF up = tunnel.up THEN 0 ELSE 1

Spoken(up) == tunnel.announced + (IF Silent(up) THEN 0 ELSE 1)

(* What was announced was a change before the state last known, and what   *)
(* is about to be announced is one before the state that was sampled.      *)
KnownIsPast ==
    tunnel.lastWasUp # None => tunnel.announced + ChangedSince(tunnel.lastWasUp) <= tunnel.changes

SampledIsPast ==
    \A j \in Jobs : Latest(j) => Spoken(job[j].up) + ChangedSince(job[j].up) <= tunnel.changes

AnnounceInv ==
    /\ OneIsLatest
    /\ tunnel.crossed \/ (KnownIsPast /\ SampledIsPast)
    /\ tunnel.lastWasUp = None => tunnel.announced = 0
    /\ AnnouncedOnlyChanges

(* A step that has nothing to do with the tunnel.                          *)
LEMMA AnnounceUntouched ==
    ASSUME AnnounceInv,
           /\ tunnel'.lastWasUp = tunnel.lastWasUp /\ tunnel'.up = tunnel.up
           /\ tunnel'.changes = tunnel.changes /\ tunnel'.announced = tunnel.announced
           /\ tunnel'.crossed = tunnel.crossed,
           \A i \in Jobs : At(i, "report")' => At(i, "report") /\ job'[i] = job[i]
    PROVE  AnnounceInv'
<1>1. \A i \in Jobs : Latest(i)' => Latest(i) /\ job'[i] = job[i]
  BY DEF Latest
<1>2. KnownIsPast => KnownIsPast'
  BY DEF KnownIsPast, ChangedSince
<1>3. SampledIsPast => SampledIsPast'
  BY <1>1 DEF SampledIsPast, Spoken, Silent, ChangedSince
<1>4. OneIsLatest'
  BY <1>1 DEF AnnounceInv, OneIsLatest
<1> QED
  BY <1>2, <1>3, <1>4 DEF AnnounceInv, AnnouncedOnlyChanges

LEMMA TransitionKeepsAnnounceInv ==
    ASSUME TypeOK, AnnounceInv, NEW j \in Jobs, TunnelRunningTransition(j)
    PROVE  AnnounceInv'
<1>1. /\ tunnel.announced \in Nat /\ tunnel.changes \in Nat
      /\ tunnel'.announced \in Nat /\ tunnel'.changes \in Nat
  BY TransitionFacts DEF TypeOK, Tunnel
<1>2. \A i \in Jobs : Latest(i)' => i # j /\ Latest(i)
  BY TransitionFacts DEF Latest, At
<1>3. job[j].up \in BOOLEAN /\ job[j].up # None
  BY PushAssumption DEF TypeOK, Job
<1>4. OneIsLatest'
  BY <1>2 DEF AnnounceInv, OneIsLatest
<1>5. CASE tunnel'.crossed
  BY <1>3, <1>4, <1>5, TransitionFacts DEF AnnounceInv, AnnouncedOnlyChanges
<1>6. CASE ~tunnel'.crossed
  <2>1. Latest(j) /\ ~tunnel.crossed
    BY <1>6, TransitionFacts DEF Latest, TunnelRunningTransition
  <2>2. \A i \in Jobs : ~Latest(i)'
    BY <2>1, <1>2 DEF AnnounceInv, OneIsLatest
  <2>3. Spoken(job[j].up) + ChangedSince(job[j].up) <= tunnel.changes
    BY <2>1 DEF AnnounceInv, SampledIsPast
  <2>4. tunnel'.announced = Spoken(job[j].up)
    BY <1>1, TransitionFacts DEF Spoken
  <2>5. ChangedSince(tunnel.lastWasUp)' = ChangedSince(job[j].up)
    BY TransitionFacts DEF ChangedSince
  <2>6. tunnel'.announced + ChangedSince(tunnel.lastWasUp)' <= tunnel'.changes
    BY <2>3, <2>4, <2>5, TransitionFacts
  <2>7. ChangedSince(tunnel.lastWasUp)' \in {0, 1}
    BY DEF ChangedSince
  <2>8. KnownIsPast' /\ SampledIsPast'
    BY <2>2, <2>6 DEF KnownIsPast, SampledIsPast
  <2>9. tunnel'.announced <= tunnel'.changes
    BY <1>1, <2>6, <2>7
  <2>10. tunnel'.lastWasUp # None
    BY <1>3, TransitionFacts
  <2> QED
    BY <1>4, <2>8, <2>9, <2>10 DEF AnnounceInv, AnnouncedOnlyChanges
<1> QED
  BY <1>5, <1>6

LEMMA StatusKeepsAnnounceInv ==
    ASSUME TypeOK, AnnounceInv, NEW j \in Jobs, WireGuardTunnelStatus(j)
    PROVE  AnnounceInv'
<1>1. tunnel' = tunnel /\ tunnel.announced \in Nat /\ tunnel.changes \in Nat
  BY StatusFacts DEF TypeOK, Tunnel
<1>2. \A i \in Jobs : Latest(i)' => i = j
  BY StatusFacts DEF Latest, At
<1>3. OneIsLatest'
  BY <1>2 DEF OneIsLatest
<1>4. KnownIsPast => KnownIsPast'
  BY <1>1 DEF KnownIsPast, ChangedSince
<1>5. KnownIsPast /\ ~tunnel.crossed => SampledIsPast'
  <2> SUFFICES ASSUME KnownIsPast, ~tunnel.crossed
               PROVE  Spoken(tunnel.up) + ChangedSince(tunnel.up) <= tunnel.changes
    BY <1>1, <1>2, StatusFacts DEF SampledIsPast, Spoken, Silent, ChangedSince
  <2>1. ChangedSince(tunnel.up) = 0
    BY DEF ChangedSince
  <2>2. CASE Silent(tunnel.up)
    <3>1. Spoken(tunnel.up) = tunnel.announced
      BY <2>2, <1>1 DEF Spoken
    <3>2. tunnel.announced <= tunnel.changes
      BY DEF AnnounceInv, AnnouncedOnlyChanges
    <3> QED
      BY <2>1, <3>1, <3>2, <1>1
  <2>3. CASE ~Silent(tunnel.up)
    <3>1. Spoken(tunnel.up) = tunnel.announced + 1
      BY <2>3 DEF Spoken
    <3>2. tunnel.lastWasUp # None /\ ChangedSince(tunnel.lastWasUp) = 1
      BY <2>3 DEF Silent, ChangedSince
    <3>3. tunnel.announced + 1 <= tunnel.changes
      BY <3>2 DEF KnownIsPast
    <3> QED
      BY <2>1, <3>1, <3>3, <1>1
  <2> QED
    BY <2>2, <2>3
<1> QED
  BY <1>1, <1>3, <1>4, <1>5 DEF AnnounceInv, AnnouncedOnlyChanges

(* A change adds one to both sides at the most.                            *)
LEMMA ChangeKeepsAnnounceInv ==
    ASSUME TypeOK, AnnounceInv, TunnelChanges
    PROVE  AnnounceInv'
<1>1. /\ tunnel \in Tunnel /\ job' = job
      /\ tunnel' = [tunnel EXCEPT !.up = ~@, !.changes = @ + 1]
  BY DEF TunnelChanges, TypeOK
<1>2. /\ tunnel.announced \in Nat /\ tunnel.changes \in Nat
      /\ tunnel'.changes = tunnel.changes + 1 /\ tunnel'.announced = tunnel.announced
      /\ tunnel'.lastWasUp = tunnel.lastWasUp /\ tunnel'.crossed = tunnel.crossed
  BY <1>1 DEF Tunnel
<1>3. \A up : ChangedSince(up) \in {0, 1} /\ ChangedSince(up)' \in {0, 1}
  BY DEF ChangedSince
<1>4. \A up : Spoken(up)' = Spoken(up) /\ Spoken(up) \in Nat
  BY <1>2 DEF Spoken, Silent
<1>5. KnownIsPast => KnownIsPast'
  <2> SUFFICES ASSUME KnownIsPast, tunnel'.lastWasUp # None
               PROVE  tunnel'.announced + ChangedSince(tunnel.lastWasUp)' <= tunnel'.changes
    BY DEF KnownIsPast
  <2>1. tunnel.announced + ChangedSince(tunnel.lastWasUp) <= tunnel.changes
    BY <1>2 DEF KnownIsPast
  <2>2. ChangedSince(tunnel.lastWasUp)' \in {0, 1}
    BY DEF ChangedSince
  <2> QED
    BY <1>2, <1>3, <2>1, <2>2
<1>6. SampledIsPast => SampledIsPast'
  <2> SUFFICES ASSUME SampledIsPast, NEW i \in Jobs, Latest(i)
               PROVE  (Spoken(job[i].up) + ChangedSince(job[i].up) <= tunnel.changes)'
    BY <1>1 DEF SampledIsPast, Latest, At
  <2>1. Spoken(job[i].up) + ChangedSince(job[i].up) <= tunnel.changes
    BY DEF SampledIsPast
  <2>2. Spoken(job[i].up)' = Spoken(job[i].up) /\ Spoken(job[i].up) \in Nat
    BY <1>1, <1>2 DEF Spoken, Silent
  <2>3. ChangedSince(job[i].up)' \in {0, 1} /\ ChangedSince(job[i].up) \in {0, 1}
    BY DEF ChangedSince
  <2> QED
    BY <1>2, <2>1, <2>2, <2>3
<1>7. OneIsLatest'
  BY <1>1 DEF AnnounceInv, OneIsLatest, Latest, At
<1>8. AnnouncedOnlyChanges'
  BY <1>2 DEF AnnounceInv, AnnouncedOnlyChanges
<1> QED
  BY <1>2, <1>5, <1>6, <1>7, <1>8 DEF AnnounceInv

LEMMA NextAnnounceInv == TypeOK /\ AnnounceInv /\ [Next]_vars => AnnounceInv'
<1> SUFFICES ASSUME TypeOK, AnnounceInv, [Next]_vars PROVE AnnounceInv'
  OBVIOUS
<1> DEFINE Elsewhere(j) ==
      /\ \A i \in Jobs : i # j => job'[i] = job[i]
      /\ job'[j].pc # "report"
      /\ tunnel' = tunnel
<1>0. ASSUME NEW j \in Jobs, Elsewhere(j) PROVE AnnounceInv'
  BY <1>0, AnnounceUntouched DEF At
<1>1. ASSUME NEW j \in Jobs, NEW t \in Tokens \cup {None}, NEW op, NEW pc \in {"lock", "load"},
             Starts(j, op, pc, t)
      PROVE  AnnounceInv'
  <2>1. Elsewhere(j)
    BY <1>1 DEF Starts, TypeOK, Idle
  <2> QED
    BY <2>1, <1>0
<1>2. ASSUME NEW j \in Jobs, NEW t \in Tokens, Send(j, t) PROVE AnnounceInv'
  <2>1. Elsewhere(j)
    BY <1>2 DEF Send, At, TypeOK, Job
  <2> QED
    BY <2>1, <1>0
<1>3. ASSUME NEW j \in Jobs, NEW t \in Tokens \cup {None}, LoadTokens(j, t) PROVE AnnounceInv'
  <2>1. Elsewhere(j)
    BY <1>3 DEF LoadTokens, TypeOK, Job
  <2> QED
    BY <2>1, <1>0
<1>4. ASSUME NEW j \in Jobs, ReadTokensFile(j) \/ TruncateFile(j) \/ SendRefused(j)
      PROVE  AnnounceInv'
  <2>1. Elsewhere(j)
    BY <1>4 DEF ReadTokensFile, ReadForEdit, TruncateFile, SendRefused, Goto, TypeOK, Job
  <2> QED
    BY <2>1, <1>0
<1>5. ASSUME NEW j \in Jobs, Proceed(j) PROVE AnnounceInv'
  <2>1. Elsewhere(j)
    BY <1>5, ProceedTypes
  <2> QED
    BY <2>1, <1>0
<1>6. ASSUME NEW j \in Jobs, Finish(j) PROVE AnnounceInv'
  <2>1. \A i \in Jobs : At(i, "report")' => At(i, "report") /\ job'[i] = job[i]
    BY <1>6, FinishTypes DEF At, Idle
  <2>2. tunnel' = tunnel \/ tunnel' = [tunnel EXCEPT !.mu = None]
    BY <1>6 DEF Finish
  <2>3. /\ tunnel'.lastWasUp = tunnel.lastWasUp /\ tunnel'.up = tunnel.up
        /\ tunnel'.changes = tunnel.changes /\ tunnel'.announced = tunnel.announced
        /\ tunnel'.crossed = tunnel.crossed
    BY <2>2 DEF TypeOK, Tunnel
  <2> QED
    BY <2>1, <2>3, AnnounceUntouched
<1>7. ASSUME NEW j \in Jobs,
             ReadTornFile(j) \/ WriteTokensFile(j) \/ SendReturns(j) \/ BroadcastEnds(j)
      PROVE  AnnounceInv'
  <2>1. Finish(j) \/ Proceed(j)
    BY <1>7 DEF ReadTornFile, WriteTokensFile, SendReturns, BroadcastEnds
  <2> QED
    BY <2>1, <1>5, <1>6
<1>8. CASE Tick \/ UNCHANGED vars
  BY <1>8, AnnounceUntouched DEF Tick, vars, At
<1>9. CASE Restart
  <2>1. tunnel' = Fresh(tunnel.up) /\ \A i \in Jobs : job'[i].pc = "idle"
    BY <1>9 DEF Restart, Idle
  <2>2. tunnel'.lastWasUp = None /\ tunnel'.announced = 0 /\ tunnel'.changes = 0
    BY <2>1 DEF Fresh
  <2>3. \A i \in Jobs : ~Latest(i)'
    BY <2>1 DEF Latest, At
  <2> QED
    BY <2>2, <2>3 DEF AnnounceInv, OneIsLatest, KnownIsPast, SampledIsPast, AnnouncedOnlyChanges
<1>10. ASSUME NEW j \in Jobs, NEW t \in Tokens, RegisterForNobody(j, t) PROVE AnnounceInv'
  BY <1>10, AnnounceUntouched DEF RegisterForNobody, At
<1> HIDE DEF Elsewhere
<1> QED
  BY <1>1, <1>2, <1>3, <1>4, <1>7, <1>8, <1>9, <1>10, TransitionKeepsAnnounceInv, StatusKeepsAnnounceInv,
     ChangeKeepsAnnounceInv DEF Next, RegisterPushToken, UnregisterPushToken, PeerChanged

(* TunnelRunningTransition: as long as no poll is overtaken by a later     *)
(* one, every announcement since the start has a change of its own.        *)
THEOREM AnnouncementsAreChanges == Spec => []AnnouncedOnlyChanges
<1>1. Init => AnnounceInv
  <2> SUFFICES ASSUME Init PROVE AnnounceInv
    OBVIOUS
  <2>1. tunnel.lastWasUp = None /\ tunnel.announced = 0 /\ tunnel.changes = 0
    BY DEF Init, Fresh
  <2>2. \A i \in Jobs : ~Latest(i)
    BY DEF Init, Idle, Latest, At
  <2> QED
    BY <2>1, <2>2 DEF AnnounceInv, OneIsLatest, KnownIsPast, SampledIsPast, AnnouncedOnlyChanges
<1>2. AnnounceInv => AnnouncedOnlyChanges
  BY DEF AnnounceInv
<1> QED
  BY <1>1, <1>2, Types, NextAnnounceInv, PTL DEF Spec

-----------------------------------------------------------------------------
(* The rate limit.                                                         *)

Window(t, start, run) ==
    {m \in sends[t] : m.run = run /\ start <= m.at /\ m.at < start + Minute}

(* The limiter forgets only messages that are a minute old, or were sent   *)
(* before the program was last started.                                    *)
RecentRemembered ==
    \A t \in Tokens : \A m \in sends[t] :
        /\ m.at <= now /\ m.run <= process.run
        /\ (m.run = process.run /\ m.at + Minute > now) => m \in hits[t]

RateInv == RecentRemembered /\ RateLimitHolds

(* A message sent now shares a window only with remembered ones.           *)
LEMMA SendKeepsRateInv ==
    ASSUME TypeOK, RateInv, NEW j \in Jobs, NEW t \in Tokens, Send(j, t)
    PROVE  RateInv'
<1> DEFINE m == NextMessage(t)
<1>1. now' = now /\ process' = process
  BY DEF Send
<1>2. CASE OverLimit(t)
  <2>1. hits' = hits /\ sends' = sends
    BY <1>2 DEF Send
  <2> QED
    BY <1>1, <2>1 DEF RateInv, RecentRemembered, RateLimitHolds
<1>3. CASE ~OverLimit(t)
  <2>1. /\ hits' = [hits EXCEPT ![t] = Kept(t) \cup {m}]
        /\ sends' = [sends EXCEPT ![t] = sends[t] \cup {m}]
    BY <1>3 DEF Send
  <2>2. m.at = now /\ m.run = process.run
    BY DEF NextMessage
  <2>3. /\ now \in Nat /\ Minute \in Nat /\ Minute > 0 /\ Limit \in Nat
        /\ process.run \in Nat
    BY PushAssumption DEF TypeOK
  <2>4. \A h \in sends[t] : h.at \in Nat
    BY PushAssumption DEF TypeOK, Message
  <2>5. IsFiniteSet(Kept(t) \cup {m}) /\ Cardinality(Kept(t) \cup {m}) <= Limit
    BY <1>3, Admitted
  <2> HIDE DEF m
  <2>6. /\ hits'[t] = Kept(t) \cup {m} /\ sends'[t] = sends[t] \cup {m}
        /\ \A u \in Tokens : u # t => hits'[u] = hits[u] /\ sends'[u] = sends[u]
    BY <2>1 DEF TypeOK
  <2>7. \A h \in sends[t] :
           /\ h.at <= now /\ h.run <= process.run
           /\ (h.run = process.run /\ h.at + Minute > now) => h \in Kept(t)
    BY DEF RateInv, RecentRemembered, Kept
  <2>8. RecentRemembered'
    BY <1>1, <2>2, <2>3, <2>6, <2>7 DEF RateInv, RecentRemembered
  <2>9. ASSUME NEW u \in Tokens, NEW start \in 0 .. MaxNow, NEW run \in 0 .. MaxRestarts
        PROVE  Cardinality(Window(u, start, run)') <= Limit
    <3>1. Cardinality(Window(u, start, run)) <= Limit
      BY DEF RateInv, RateLimitHolds, Window
    <3>2. CASE u # t
      BY <3>1, <3>2, <2>6 DEF Window
    <3>3. CASE u = t /\ run = process.run /\ start <= now /\ now < start + Minute
      <4>1. Window(u, start, run)' \in SUBSET (Kept(t) \cup {m})
        BY <3>3, <2>2, <2>3, <2>4, <2>6, <2>7 DEF Window
      <4>2. Cardinality(Window(u, start, run)') <= Cardinality(Kept(t) \cup {m})
        BY <4>1, <2>5, FS_Subset
      <4>3. /\ Cardinality(Window(u, start, run)') \in Nat
            /\ Cardinality(Kept(t) \cup {m}) \in Nat
        BY <4>1, <2>5, FS_Subset, FS_CardinalityType
      <4> QED
        BY <4>2, <4>3, <2>3, <2>5
    <3>4. CASE u = t /\ ~(run = process.run /\ start <= now /\ now < start + Minute)
      <4>1. Window(u, start, run)' = Window(u, start, run)
        BY <3>4, <2>2, <2>6 DEF Window
      <4> QED
        BY <3>1, <4>1
    <3> QED
      BY <3>2, <3>3, <3>4
  <2>10. RateLimitHolds'
    BY <2>9 DEF RateLimitHolds, Window
  <2> QED
    BY <2>8, <2>10 DEF RateInv
<1> QED
  BY <1>2, <1>3

LEMMA NextRateInv == TypeOK /\ RateInv /\ [Next]_vars => RateInv'
<1> SUFFICES ASSUME TypeOK, RateInv, [Next]_vars PROVE RateInv'
  OBVIOUS
<1>1. ASSUME UNCHANGED <<hits, now, sends, process>> PROVE RateInv'
  BY <1>1 DEF RateInv, RecentRemembered, RateLimitHolds
<1>2. CASE Tick
  <2>1. now' = now + 1 /\ UNCHANGED <<hits, sends, process>>
    BY <1>2 DEF Tick
  <2>2. now \in Nat /\ Minute \in Nat
    BY PushAssumption DEF TypeOK
  <2>3. \A t \in Tokens : \A m \in sends[t] : m.at \in Nat
    BY PushAssumption DEF TypeOK, Message
  <2>4. RecentRemembered'
    BY <2>1, <2>2, <2>3 DEF RateInv, RecentRemembered
  <2> QED
    BY <2>1, <2>4 DEF RateInv, RateLimitHolds
<1>3. CASE Restart
  <2>1. UNCHANGED <<sends, now>> /\ process'.run = process.run + 1 /\ process.run \in Nat
    BY <1>3 DEF Restart, TypeOK
  <2>2. \A t \in Tokens : \A m \in sends[t] : m.run \in Nat
    BY DEF TypeOK, Message
  <2>3. RecentRemembered'
    BY <2>1, <2>2 DEF RateInv, RecentRemembered
  <2>4. RateLimitHolds'
    BY <2>1 DEF RateInv, RateLimitHolds
  <2> QED
    BY <2>3, <2>4 DEF RateInv
<1>4. CASE TunnelChanges \/ UNCHANGED vars
  BY <1>1, <1>4 DEF TunnelChanges, vars, rateVars
<1>5. ASSUME NEW j \in Jobs,
             \/ ReadTokensFile(j) \/ ReadTornFile(j) \/ TruncateFile(j) \/ WriteTokensFile(j)
             \/ PeerChanged(j) \/ SendReturns(j) \/ SendRefused(j) \/ BroadcastEnds(j)
             \/ WireGuardTunnelStatus(j) \/ TunnelRunningTransition(j)
      PROVE  RateInv'
  <2>1. UNCHANGED <<hits, now, sends, process>>
    BY <1>5 DEF ReadTokensFile, ReadForEdit, ReadTornFile, TruncateFile, WriteTokensFile,
                PeerChanged, Starts, SendReturns, SendRefused, BroadcastEnds,
                WireGuardTunnelStatus, TunnelRunningTransition, rateVars
  <2> QED
    BY <2>1, <1>1
<1>6. ASSUME NEW j \in Jobs, NEW t \in Tokens, RegisterPushToken(j, t) \/ UnregisterPushToken(j, t)
      PROVE  RateInv'
  BY <1>1, <1>6 DEF RegisterPushToken, UnregisterPushToken, Starts, rateVars
<1>7. ASSUME NEW j \in Jobs, NEW t \in Tokens \cup {None}, LoadTokens(j, t) PROVE RateInv'
  BY <1>1, <1>7 DEF LoadTokens, rateVars
<1>8. ASSUME NEW j \in Jobs, NEW t \in Tokens, RegisterForNobody(j, t) PROVE RateInv'
  BY <1>1, <1>8 DEF RegisterForNobody, rateVars
<1> QED
  BY <1>2, <1>3, <1>4, <1>5, <1>6, <1>7, <1>8, SendKeepsRateInv DEF Next

(* rateLimiter.allow forgets messages as they age, but never lets more     *)
(* than maxPerTokenPerMinute of one run through in any window of a minute. *)
THEOREM LimitHolds == Spec => []RateLimitHolds
<1>1. Init => RateInv
  <2> SUFFICES ASSUME Init PROVE RateInv
    OBVIOUS
  <2>1. \A t \in Tokens : sends[t] = {}
    BY DEF Init, NoMessages
  <2>2. \A t \in Tokens, start \in 0 .. MaxNow, run \in 0 .. MaxRestarts :
            Window(t, start, run) = {}
    BY <2>1 DEF Window
  <2>3. Cardinality({}) = 0 /\ 0 <= Limit
    BY FS_EmptySet, PushAssumption
  <2>4. RateLimitHolds
    BY <2>2, <2>3 DEF RateLimitHolds, Window
  <2> QED
    BY <2>1, <2>4 DEF RateInv, RecentRemembered
<1>2. RateInv => RateLimitHolds
  BY DEF RateInv
<1> QED
  BY <1>1, <1>2, Types, NextRateInv, PTL DEF Spec
=============================================================================
