-------------------------- MODULE ApplyConfigProofs -------------------------
(***************************************************************************)
(* What holds of ApplyConfig for any number of overlapping requests and    *)
(* any number of edits: a tunnel that was stopped stays stopped, and       *)
(* wg.conf is left alone meanwhile.                                        *)
(*                                                                         *)
(* IInv says what the jobs in flight may still do while the tunnel is      *)
(* stopped: who is to start it was asked to, by name; who is about to      *)
(* write wg.conf was asked to, or was in flight when the stop came.        *)
(***************************************************************************)
EXTENDS ApplyConfig, TLAPS

(* While the tunnel is stopped, only jobs that were asked to will start it.*)
StartersWereAsked == stopped => \A j \in Jobs : WillStart(j) => job[j].asked

(* Only jobs that restart the tunnel come to the steps that start it.      *)
StartersRestart ==
    \A j \in Jobs : job[j] # None /\ job[j].pc \in {"promote", "down", "up"} => job[j].restart

(* While the tunnel is stopped, only jobs that were asked to start it, or  *)
(* were in flight when it stopped, write to wg.conf.                       *)
WritersExcused ==
    stopped /\ env.pending =>
        \A j \in Jobs : job[j] # None /\ job[j].pc \in {"create", "write"}
                        /\ job[j].target = "conf" => job[j].asked \/ job[j].met

(* What a job renders it has read, part by part.                           *)
SnapTaken ==
    \A j \in Jobs : job[j] # None =>
        /\ job[j].pc \in {"clients", "settings"} => job[j].snap.server \in Nat
        /\ job[j].pc = "settings" => job[j].snap.clients \in Nat
        /\ job[j].pc \in {"route", "create", "write"} => job[j].snap \in Content

IInv ==
    /\ TypeOK
    /\ SnapTaken
    /\ StoppedStaysStopped
    /\ StartersWereAsked
    /\ StartersRestart
    /\ WritersExcused

(* A file, whole or torn, has the three parts.                             *)
LEMMA FileFacts == Content \subseteq File /\ Torn \in File
BY DEF Content, File, Part, Torn

LEMMA InitInvariant == Init => IInv
<1> SUFFICES ASSUME Init PROVE IInv
  OBVIOUS
<1>1. db \in Content /\ conf \in File
  BY DEF Init, Content, File, Part
<1>2. TypeOK
  BY <1>1 DEF Init, TypeOK, Part
<1>3. \A j \in Jobs : job[j] = None
  BY DEF Init
<1> QED
  BY <1>2, <1>3 DEF Init, IInv, StoppedStaysStopped, StartersWereAsked, StartersRestart,
                    WritersExcused, SnapTaken, WillStart, WgTunnelIsRunning

(* Reading one part of the store.                                          *)
Reader(pc, part, next) ==
    \/ pc = "read" /\ part = "server" /\ next = "clients"
    \/ pc = "clients" /\ part = "clients" /\ next = "settings"
    \/ pc = "settings" /\ part = "settings" /\ next = "route"

LEMMA ReadFacts ==
    ASSUME TypeOK, NEW j \in Jobs, NEW pc, NEW part, NEW next, Reader(pc, part, next),
           Read(j, pc, part, next)
    PROVE  /\ job[j] \in Request /\ job[j] # None /\ job[j].pc = pc /\ db[part] \in Nat
           /\ job'[j] \in Request /\ job' = [job EXCEPT ![j] = job'[j]]
           /\ job'[j].pc = next /\ job'[j].kind = job[j].kind
           /\ job'[j].restart = job[j].restart /\ job'[j].asked = job[j].asked
           /\ job'[j].met = job[j].met /\ job'[j].target = job[j].target
           /\ job'[j].snap = [job[j].snap EXCEPT ![part] = db[part]]
           /\ UNCHANGED <<db, hashes, conf, pend, kernel, env, stopped, unremoved>>
<1> USE DEF Reader
<1> PICK r : r = job[j]
  OBVIOUS
<1> PICK v : v = db[part]
  OBVIOUS
<1>1. r \in Request /\ r # None /\ r.pc = pc
  BY DEF Read, At, TypeOK
<1>2. v \in Nat
  BY DEF TypeOK, Content
<1>3. job' = [job EXCEPT ![j] = [r EXCEPT !.snap = [r.snap EXCEPT ![part] = v], !.pc = next]]
  BY DEF Read
<1>4. job'[j] = [r EXCEPT !.snap = [r.snap EXCEPT ![part] = v], !.pc = next]
  BY <1>3 DEF TypeOK
<1>5. r.snap \in File
  BY <1>1 DEF Request
<1>6. [r.snap EXCEPT ![part] = v] \in File
  BY <1>2, <1>5 DEF File, Part
<1>7. [r EXCEPT !.snap = [r.snap EXCEPT ![part] = v], !.pc = next] \in Request
  BY <1>1, <1>6 DEF Request
<1>8. UNCHANGED <<db, hashes, conf, pend, kernel, env, stopped, unremoved>>
  BY DEF Read
<1>9. PICK q : q = job'[j]
  OBVIOUS
<1>10. /\ q.pc = next /\ q.kind = r.kind /\ q.restart = r.restart /\ q.asked = r.asked
       /\ q.met = r.met /\ q.target = r.target /\ q.snap = [r.snap EXCEPT ![part] = v]
  BY <1>1, <1>4, <1>9 DEF Request
<1> QED
  BY <1>1, <1>2, <1>3, <1>4, <1>7, <1>8, <1>9, <1>10

LEMMA ReadStep ==
    ASSUME IInv, NEW j \in Jobs, NEW pc, NEW part, NEW next, Reader(pc, part, next),
           Read(j, pc, part, next)
    PROVE  IInv'
<1> USE DEF Reader
<1>1. TypeOK /\ SnapTaken
  BY DEF IInv
<1> PICK r : r = job[j]
  OBVIOUS
<1> PICK q : q = job'[j]
  OBVIOUS
<1>2. /\ r \in Request /\ r # None /\ r.pc = pc /\ db[part] \in Nat
      /\ q \in Request /\ job' = [job EXCEPT ![j] = q] /\ q.pc = next
      /\ q.restart = r.restart /\ q.asked = r.asked /\ q.met = r.met /\ q.target = r.target
      /\ q.snap = [r.snap EXCEPT ![part] = db[part]]
      /\ UNCHANGED <<db, hashes, conf, pend, kernel, env, stopped, unremoved>>
  BY <1>1, ReadFacts
<1>3. TypeOK'
  BY <1>1, <1>2 DEF TypeOK
<1>4. SnapTaken'
  <2>1. r.snap \in File
    BY <1>2 DEF Request
  <2>2. /\ pc \in {"clients", "settings"} => r.snap.server \in Nat
        /\ pc = "settings" => r.snap.clients \in Nat
    BY <1>1, <1>2 DEF SnapTaken
  <2>3. /\ q.pc \in {"clients", "settings"} => q.snap.server \in Nat
        /\ q.pc = "settings" => q.snap.clients \in Nat
        /\ q.pc = "route" => q.snap \in Content
    BY <1>2, <2>1, <2>2 DEF File, Content
  <2>4. \A i \in Jobs : job'[i] = IF i = j THEN q ELSE job[i]
    BY <1>1, <1>2 DEF TypeOK
  <2> QED
    BY <1>1, <1>2, <2>3, <2>4 DEF SnapTaken
<1>5. /\ StoppedStaysStopped' /\ StartersWereAsked' /\ StartersRestart' /\ WritersExcused'
  <2>1. \A i \in Jobs : job'[i] = IF i = j THEN q ELSE job[i]
    BY <1>1, <1>2 DEF TypeOK
  <2>2. r.pc \notin {"force", "ok"}
    BY <1>2
  <2>3. StoppedStaysStopped'
    BY <1>2 DEF IInv, StoppedStaysStopped, WgTunnelIsRunning
  <2>4. StartersWereAsked'
    BY <1>2, <2>1, <2>2 DEF IInv, StartersWereAsked, WillStart
  <2>5. StartersRestart'
    BY <1>2, <2>1 DEF IInv, StartersRestart
  <2>6. WritersExcused'
    BY <1>2, <2>1 DEF IInv, WritersExcused
  <2> QED
    BY <2>3, <2>4, <2>5, <2>6
<1> QED
  BY <1>3, <1>4, <1>5 DEF IInv

LEMMA NextInvariant == IInv /\ [Next]_vars => IInv'
<1> SUFFICES ASSUME IInv, [Next]_vars PROVE IInv'
  OBVIOUS
<1> USE DEF IInv, TypeOK, Request, Content, File, Part, StoppedStaysStopped, StartersWereAsked,
            StartersRestart, WritersExcused, SnapTaken, WillStart, WgTunnelIsRunning
<1>1. CASE EditPart
  BY <1>1 DEF EditPart, Edit
<1>2. CASE Crash
  BY <1>2 DEF Crash
<1>3. CASE External
  <2>1. TypeOK'
    <3>1. kernel' \in {conf, None} /\ stopped' \in BOOLEAN
      BY <1>3 DEF External
    <3>2. UNCHANGED <<db, hashes, conf, pend, job, env, unremoved>>
      BY <1>3 DEF External
    <3> QED
      BY <3>1, <3>2, FileFacts
  <2>2. SnapTaken'
    BY <1>3 DEF External
  <2>3. StoppedStaysStopped'
    BY <1>3 DEF External
  <2>4. StartersWereAsked'
    BY <1>3 DEF External
  <2>5. StartersRestart'
    BY <1>3 DEF External
  <2>6. WritersExcused'
    BY <1>3 DEF External
  <2> QED
    BY <2>1, <2>2, <2>3, <2>4, <2>5, <2>6
<1>4. CASE QuickStop
  <2>1. TypeOK'
    <3>1. kernel' = None /\ stopped' \in BOOLEAN
          /\ UNCHANGED <<db, hashes, conf, pend, env, unremoved>>
      BY <1>4 DEF QuickStop
    <3>2. ASSUME NEW j \in Jobs, job[j] \in Request
          PROVE  [job[j] EXCEPT !.met = TRUE] \in Request
      BY <3>2
    <3>3. job' = [j \in Jobs |->
                    IF job[j] = None THEN None ELSE [job[j] EXCEPT !.met = TRUE]]
      BY <1>4 DEF QuickStop
    <3>4. job' \in [Jobs -> {None} \cup Request]
      <4> HIDE DEF Request
      <4> QED
        BY <3>2, <3>3
    <3> QED
      BY <3>1, <3>4
  <2>2. SnapTaken'
    BY <1>4 DEF QuickStop
  <2>3. StoppedStaysStopped'
    BY <1>4 DEF QuickStop
  <2>4. StartersWereAsked'
    <3>1. ASSUME NEW j \in Jobs, WillStart(j)' PROVE WillStart(j)
      BY <1>4, <3>1 DEF QuickStop
    <3>2. stopped' <=> \A j \in Jobs : ~WillStart(j)
      BY <1>4 DEF QuickStop
    <3> HIDE DEF WillStart
    <3> QED
      BY <3>1, <3>2
  <2>5. StartersRestart'
    BY <1>4 DEF QuickStop
  <2>6. WritersExcused'
    BY <1>4 DEF QuickStop
  <2> QED
    BY <2>1, <2>2, <2>3, <2>4, <2>5, <2>6
<1>5. ASSUME NEW j \in Jobs, NEW flag \in BOOLEAN \cup {None}, ApplyServerConfig(j, flag) PROVE IInv'
  <2>1. TypeOK'
    <3> DEFINE restart == IF flag = None THEN WgTunnelIsRunning ELSE flag
               asked == flag = TRUE
    <3>1. restart \in BOOLEAN /\ asked \in BOOLEAN
      OBVIOUS
    <3>2. job' = [job EXCEPT ![j] = [kind |-> "apply", pc |-> "read", restart |-> restart,
                                     asked |-> asked, met |-> FALSE, snap |-> Torn,
                                     target |-> None]]
      BY <1>5 DEF ApplyServerConfig, Begin
    <3>3. UNCHANGED <<db, hashes, conf, pend, kernel, env, stopped, unremoved>>
      BY <1>5 DEF ApplyServerConfig
    <3> HIDE DEF restart, asked
    <3> QED
      BY <3>1, <3>2, <3>3, FileFacts
  <2>2. SnapTaken'
    BY <1>5 DEF ApplyServerConfig, Begin
  <2>3. StoppedStaysStopped'
    BY <1>5 DEF ApplyServerConfig, Begin
  <2>4. StartersWereAsked'
    BY <1>5 DEF ApplyServerConfig, Begin
  <2>5. StartersRestart'
    BY <1>5 DEF ApplyServerConfig, Begin
  <2>6. WritersExcused'
    BY <1>5 DEF ApplyServerConfig, Begin
  <2> QED
    BY <2>1, <2>2, <2>3, <2>4, <2>5, <2>6
<1>6. ASSUME NEW j \in Jobs, SaveGlobalSettings(j) PROVE IInv'
  BY <1>6, FileFacts DEF SaveGlobalSettings, Begin, Edit
<1>7. ASSUME NEW j \in Jobs, RecordSettings(j) PROVE IInv'
  BY <1>7 DEF RecordSettings, At, End, UpdateHashes, Hashed
<1>8. ASSUME NEW j \in Jobs, SaveServerInterface(j) PROVE IInv'
  BY <1>8, FileFacts DEF SaveServerInterface, Begin, Edit
<1>9. ASSUME NEW j \in Jobs, SaveServerSettings(j) PROVE IInv'
  BY <1>9 DEF SaveServerSettings, At, End, Goto, Edit
<1>10. ASSUME NEW j \in Jobs, GetServer(j) \/ GetClients(j) \/ GetGlobalSettings(j) PROVE IInv'
  <2>1. CASE GetServer(j)
    BY <2>1, ReadStep DEF GetServer, Reader
  <2>2. CASE GetClients(j)
    BY <2>2, ReadStep DEF GetClients, Reader
  <2>3. CASE GetGlobalSettings(j)
    BY <2>3, ReadStep DEF GetGlobalSettings, Reader
  <2> QED
    BY <1>10, <2>1, <2>2, <2>3
<1>11. ASSUME NEW j \in Jobs, RouteOutput(j) PROVE IInv'
  <2>1. TypeOK'
    <3> DEFINE target == IF ~job[j].restart /\ env.pending /\ ~WgTunnelIsRunning
                         THEN "pend" ELSE "conf"
    <3>1. job[j] # None /\ job' = [job EXCEPT ![j].pc = "create", ![j].target = target]
      BY <1>11 DEF RouteOutput, At
    <3>2. pend' \in {None, pend} /\ unremoved' \in BOOLEAN
          /\ UNCHANGED <<db, hashes, conf, kernel, env, stopped>>
      BY <1>11 DEF RouteOutput, RemoveWgConfPending
    <3>3. target \in {"conf", "pend"}
      OBVIOUS
    <3> HIDE DEF target
    <3>4. [job[j] EXCEPT !.pc = "create", !.target = target] \in Request
      <4>1. job[j] \in Request
        BY <3>1
      <4>2. \A e \in Request : [e EXCEPT !.pc = "create", !.target = target] \in Request
        BY ONLY <3>3 DEF Request
      <4> QED
        BY ONLY <4>1, <4>2
    <3>5. job' = [job EXCEPT ![j] = [job[j] EXCEPT !.pc = "create", !.target = target]]
      BY <3>1
    <3>6. job' \in [Jobs -> {None} \cup Request]
      <4> HIDE DEF Request
      <4> QED
        BY <3>4, <3>5
    <3> QED
      BY <3>2, <3>6
  <2>2. SnapTaken'
    BY <1>11 DEF RouteOutput, At
  <2>3. StoppedStaysStopped'
    BY <1>11 DEF RouteOutput, At
  <2>4. StartersWereAsked'
    BY <1>11 DEF RouteOutput, At
  <2>5. StartersRestart'
    BY <1>11 DEF RouteOutput, At
  <2>6. WritersExcused'
    BY <1>11 DEF RouteOutput, At
  <2> QED
    BY <2>1, <2>2, <2>3, <2>4, <2>5, <2>6
<1>12. ASSUME NEW j \in Jobs, CreateFile(j) PROVE IInv'
  BY <1>12 DEF CreateFile, At, Goto, WriteTarget, Torn
<1>13. ASSUME NEW j \in Jobs, ExecuteTemplate(j) PROVE IInv'
  <2>1. TypeOK'
    BY <1>13 DEF ExecuteTemplate, At, Goto, WriteTarget
  <2>2. SnapTaken'
    BY <1>13 DEF ExecuteTemplate, At, Goto, WriteTarget
  <2>3. StoppedStaysStopped'
    BY <1>13 DEF ExecuteTemplate, At, Goto, WriteTarget
  <2>4. StartersWereAsked'
    BY <1>13 DEF ExecuteTemplate, At, Goto, WriteTarget
  <2>5. StartersRestart'
    BY <1>13 DEF ExecuteTemplate, At, Goto, WriteTarget
  <2>6. WritersExcused'
    BY <1>13 DEF ExecuteTemplate, At, Goto, WriteTarget
  <2> QED
    BY <2>1, <2>2, <2>3, <2>4, <2>5, <2>6
<1>14. ASSUME NEW j \in Jobs, RecordApplied(j) PROVE IInv'
  BY <1>14 DEF RecordApplied, At, Goto, UpdateHashes, Hashed
<1>15. ASSUME NEW j \in Jobs, ReloadPeers(j) PROVE IInv'
  BY <1>15, FileFacts DEF ReloadPeers, At, Goto, SyncConf
<1>16. ASSUME NEW j \in Jobs, ForceSync(j) PROVE IInv'
  BY <1>16, FileFacts DEF ForceSync, At, Goto, SyncConf
<1>17. ASSUME NEW j \in Jobs, QuickStart(j) PROVE IInv'
  BY <1>17, FileFacts DEF QuickStart, Begin
<1>18. ASSUME NEW j \in Jobs, PromotePending(j) PROVE IInv'
  BY <1>18 DEF PromotePending, At, Goto, Deployed
<1>19. ASSUME NEW j \in Jobs, QuickDown(j) PROVE IInv'
  BY <1>19 DEF QuickDown, At, Goto
<1>20. ASSUME NEW j \in Jobs, QuickUp(j) PROVE IInv'
  <2>1. TypeOK'
    BY <1>20, FileFacts DEF QuickUp, At, Goto
  <2>2. SnapTaken'
    BY <1>20 DEF QuickUp, At, Goto
  <2>3. StoppedStaysStopped'
    BY <1>20 DEF QuickUp, At, Goto
  <2>4. StartersWereAsked'
    BY <1>20 DEF QuickUp, At, Goto
  <2>5. StartersRestart'
    BY <1>20 DEF QuickUp, At, Goto
  <2>6. WritersExcused'
    BY <1>20 DEF QuickUp, At, Goto
  <2> QED
    BY <2>1, <2>2, <2>3, <2>4, <2>5, <2>6
<1>21. ASSUME NEW j \in Jobs, ReplyOk(j) PROVE IInv'
  BY <1>21 DEF ReplyOk, At, End
<1>22. ASSUME NEW j \in Jobs, FailStep(j) PROVE IInv'
  BY <1>22 DEF FailStep, At, End
<1>23. ASSUME NEW j \in Jobs, FailTunnel(j) PROVE IInv'
  <2>1. /\ job' = [job EXCEPT ![j] = None] \/ job' = [job EXCEPT ![j].pc = "force"]
        /\ job[j] # None
        /\ kernel' = kernel \/ kernel' = Torn
        /\ UNCHANGED <<db, hashes, conf, pend, env, unremoved>>
    BY <1>23 DEF FailTunnel, At, End, Goto
  <2>a. stopped' \in BOOLEAN /\ (stopped' => stopped)
    <3>1. stopped' = stopped \/ stopped' = (stopped /\ ~job[j].asked)
      BY <1>23 DEF FailTunnel
    <3>2. stopped \in BOOLEAN
      OBVIOUS
    <3>3. CASE stopped
      BY <3>1, <3>3, Zenon
    <3>4. CASE ~stopped
      <4>1. stopped = FALSE
        BY ONLY <3>2, <3>4
      <4>2. (stopped /\ ~job[j].asked) = FALSE
        BY ONLY <4>1
      <4>3. stopped' = FALSE
        BY ONLY <3>1, <4>1, <4>2
      <4> QED
        BY ONLY <4>3
    <3> QED
      BY <3>3, <3>4
  <2>2. TypeOK'
    BY <2>1, <2>a DEF Torn
  <2>3. SnapTaken'
    BY <1>23 DEF FailTunnel, At, End, Goto, Torn
  <2>4. StoppedStaysStopped'
    BY <1>23 DEF FailTunnel, At, End, Goto, Torn
  <2>5. StartersWereAsked'
    BY <2>1, <2>a
  <2>6. StartersRestart'
    BY <1>23 DEF FailTunnel, At, End, Goto, Torn
  <2>7. WritersExcused'
    BY <2>1, <2>a
  <2> QED
    BY <2>2, <2>3, <2>4, <2>5, <2>6, <2>7
<1>24. CASE UNCHANGED vars
  BY <1>24 DEF vars
<1> QED
  BY <1>1, <1>2, <1>3, <1>4, <1>5, <1>6, <1>7, <1>8, <1>9, <1>10, <1>11, <1>12, <1>13, <1>14, <1>15, <1>16, <1>17, <1>18, <1>19, <1>20, <1>21, <1>22, <1>23, <1>24 DEF Next, Step

LEMMA Invariance == Spec => []IInv
  BY InitInvariant, NextInvariant, PTL DEF Spec

(* Every variable keeps its shape, and whatever a job renders it has read. *)
THEOREM TypeCorrect == Spec => []TypeOK
<1>1. IInv => TypeOK
  BY DEF IInv
<1> QED
  BY <1>1, Invariance, PTL

(* However many requests overlap, a tunnel that was stopped comes up only  *)
(* for a request that asked for it or was about to start it at the stop.   *)
THEOREM StopHolds == Spec => []StoppedStaysStopped
<1>1. IInv => StoppedStaysStopped
  BY DEF IInv
<1> QED
  BY <1>1, Invariance, PTL

(* A step that changes wg.conf while the tunnel is stopped is one of a job *)
(* that asked for the tunnel or was in flight at the stop.                 *)
LEMMA WritersOfConf ==
    ASSUME IInv, [Next]_vars, stopped, env.pending, conf' # conf
    PROVE  \E j \in Jobs : job[j] # None /\ (job[j].asked \/ job[j].met)
<1> USE DEF IInv, StartersWereAsked, StartersRestart, WritersExcused, WillStart
<1>1. ASSUME NEW j \in Jobs, Step(j) PROVE job[j] # None /\ (job[j].asked \/ job[j].met)
  <2>1. CASE CreateFile(j) \/ ExecuteTemplate(j)
    BY <2>1 DEF CreateFile, ExecuteTemplate, At, WriteTarget
  <2>2. CASE PromotePending(j)
    BY <2>2 DEF PromotePending, At
  <2> QED
    BY <1>1, <2>1, <2>2
       DEF Step, SaveGlobalSettings, RecordSettings, SaveServerInterface,
           SaveServerSettings, ApplyServerConfig, GetServer, GetClients, GetGlobalSettings, Read,
           RouteOutput, RecordApplied,
           ReloadPeers, ForceSync, QuickStart, QuickDown, QuickUp, ReplyOk, FailStep,
           FailTunnel
<1>2. ~(EditPart \/ Crash \/ External \/ QuickStop \/ UNCHANGED vars)
  BY DEF EditPart, Crash, External, QuickStop, vars
<1>3. PICK j \in Jobs : Step(j)
  BY <1>2 DEF Next
<1> QED
  BY <1>1, <1>3

(* However many requests overlap, wg.conf is left alone while the tunnel   *)
(* is stopped, but for those.                                              *)
THEOREM ConfLeftAlone == Spec => CanonicalUntouchedWhileStopped
<1>1. IInv /\ [Next]_vars =>
        [stopped /\ env.pending /\ conf' # conf =>
            \E j \in Jobs : job[j] # None /\ (job[j].asked \/ job[j].met)]_vars
  BY WritersOfConf
<1> QED
  BY <1>1, Invariance, PTL DEF Spec, CanonicalUntouchedWhileStopped

-----------------------------------------------------------------------------
(* One request at a time: versions only move on, so whatever a request     *)
(* writes is at least as new as what it finds.                             *)

(* No request begins while another is in flight, as when one administrator *)
(* waits for the answer.                                                   *)
OneAtATime == \A i, j \in Jobs : job[i] # None /\ job[j] # None => i = j

Applying == {"apply", "page"}

NotNewer(f, g) == f.clients <= g.clients /\ f.server <= g.server /\ f.settings <= g.settings

FilesInOrder ==
    /\ conf \in Content \cup {Torn}
    /\ pend \in Content \cup {Torn, None}
    /\ conf \in Content => NotNewer(conf, db)
    /\ pend \in Content => NotNewer(pend, db)
    /\ conf \in Content /\ pend \in Content /\ ~unremoved => NotNewer(conf, pend)

(* What a request has read of a part is not older than any file, and what  *)
(* it has written is what the tunnel will start from, unless a side file   *)
(* could not be removed.                                                   *)
Current(r, part) ==
    /\ r.snap[part] \in Nat /\ r.snap[part] <= db[part]
    /\ conf \in Content => conf[part] <= r.snap[part]
    /\ pend \in Content => pend[part] <= r.snap[part]

Reads(r) ==
    /\ r.pc \in {"clients", "settings"} => Current(r, "server")
    /\ r.pc = "settings" => Current(r, "clients")

Writes(r) ==
    r.pc \in {"route", "create", "write"} =>
        /\ r.snap \in Content /\ NotNewer(r.snap, db)
        /\ conf \in Content => NotNewer(conf, r.snap)
        /\ pend \in Content => NotNewer(pend, r.snap)

Targets(r) ==
    r.pc \in {"create", "write"} =>
        /\ r.target \in {"conf", "pend"}
        /\ r.target = "conf" => unremoved \/ pend = None
        /\ r.restart => r.target = "conf"

Written(r) ==
    r.kind \in Applying /\ r.pc \in {"hash", "sync", "promote", "down", "up", "force", "ok"} =>
        /\ r.snap \in Content /\ NotNewer(r.snap, db)
        /\ unremoved \/ Deployed = r.snap
        /\ r.restart /\ ~unremoved => conf = r.snap /\ pend = None

Recorded(r) ==
    r.kind \in Applying /\ r.pc \in {"sync", "promote", "down", "up", "force", "ok"} =>
        (r.snap = db => hashes = Hashed(db))

Loaded(r) ==
    r.kind \in Applying /\ r.pc = "ok" /\ r.restart /\ ~r.met /\ ~unremoved =>
        kernel # None /\ kernel.clients = r.snap.clients

Path(r) ==
    /\ r.pc \in {"page", "read", "clients", "settings", "route", "create", "write", "hash",
                 "sync", "force"} => r.kind \in Applying
    /\ r.pc \in {"promote", "down", "up", "ok"} => r.kind \in Applying \cup {"start"}
    /\ r.pc = "sync" => ~r.restart
    /\ r.pc \in {"promote", "down", "up", "force"} => r.restart

JobInOrder(r) == Reads(r) /\ Writes(r) /\ Targets(r) /\ Written(r) /\ Recorded(r) /\ Loaded(r) /\ Path(r)

InOrder == FilesInOrder /\ \A j \in Jobs : job[j] # None => JobInOrder(job[j])

LEMMA NotNewerFacts ==
    /\ \A f \in Content : NotNewer(f, f)
    /\ \A f, g, h \in Content : NotNewer(f, g) /\ NotNewer(g, h) => NotNewer(f, h)
BY DEF NotNewer, Content

LEMMA Distinct == None \notin Content /\ None # Torn /\ Torn \notin Content /\ Torn \in File
<1>1. None \notin Content /\ Torn \in File
  BY NoneAssumption DEF Content, File, Part, Torn
<1>2. Torn \notin Content
  BY JobsAssumption DEF Content, Torn
<1> QED
  BY <1>1, <1>2, NoneAssumption

(* An edit makes the store newer than anything that was read before.       *)
LEMMA EditFacts ==
    ASSUME TypeOK, NEW part \in {"clients", "server", "settings"}, Edit(part)
    PROVE  /\ db' \in Content
           /\ \A f \in Content : NotNewer(f, db) => NotNewer(f, db') /\ f # db'
<1>1. db \in Content
  BY DEF TypeOK
<1>2. db' = [db EXCEPT ![part] = @ + 1]
  BY DEF Edit
<1>3. CASE part = "clients"
  BY <1>1, <1>2, <1>3 DEF Content, NotNewer
<1>4. CASE part = "server"
  BY <1>1, <1>2, <1>4 DEF Content, NotNewer
<1>5. CASE part = "settings"
  BY <1>1, <1>2, <1>5 DEF Content, NotNewer
<1> QED
  BY <1>3, <1>4, <1>5

(* A step of a request is not one of another.                              *)
LEMMA OthersWait ==
    ASSUME TypeOK, NEW j \in Jobs, Step(j), NEW i \in Jobs, i # j
    PROVE  job'[i] = job[i]
BY DEF Step, SaveGlobalSettings, RecordSettings, SaveServerInterface, SaveServerSettings,
       ApplyServerConfig, GetServer, GetClients, GetGlobalSettings, Read, RouteOutput,
       CreateFile, ExecuteTemplate, RecordApplied, ReloadPeers, ForceSync, QuickStart, PromotePending, QuickDown, QuickUp, ReplyOk, FailStep,
       FailTunnel, Begin, Goto, End, TypeOK

(* A request, and the only one, goes on as q.                              *)
LEMMA OnlyJob ==
    ASSUME TypeOK, OneAtATime, OneAtATime', NEW j \in Jobs, Step(j), NEW q, q = job'[j],
           FilesInOrder',
           job[j] # None \/ q # None,
           q = None \/ JobInOrder(q)'
    PROVE  InOrder'
<1> HIDE DEF JobInOrder, FilesInOrder
<1>1. ASSUME NEW i \in Jobs, job'[i] # None PROVE JobInOrder(job[i])'
  <2>1. i = j
    <3>1. CASE job[j] # None
      BY <1>1, <3>1, OthersWait DEF OneAtATime
    <3>2. CASE q # None
      BY <1>1, <3>2 DEF OneAtATime
    <3> QED
      BY <3>1, <3>2
  <2>2. JobInOrder(q)' /\ job'[i] = q
    BY <1>1, <2>1
  <2> QED
    BY <2>2 DEF JobInOrder, Reads, Current, Writes, Targets, Written, Recorded, Loaded, Path
<1> QED
  BY <1>1 DEF InOrder

(* Requests that have not read the store rely on nothing.                  *)
Early(r) == r.pc = "record" \/ (r.pc \in {"page", "read"} /\ r.kind \in Applying)

LEMMA EarlyJob ==
    ASSUME NEW q, Early(q)
    PROVE  JobInOrder(q)'
BY DEF Early, JobInOrder, Reads, Current, Writes, Targets, Written, Recorded, Loaded, Path

LEMMA BeginFacts ==
    ASSUME TypeOK, NEW j \in Jobs, NEW kind \in {"settings", "page", "apply", "start"},
           NEW pc \in {"record", "page", "read", "promote"},
           NEW restart \in BOOLEAN, NEW asked \in BOOLEAN, Begin(j, kind, pc, restart, asked)
    PROVE  /\ job'[j] # None
           /\ job'[j].pc = pc /\ job'[j].kind = kind
<1>1. job'[j] = [kind |-> kind, pc |-> pc, restart |-> restart, asked |-> asked, met |-> FALSE,
                 snap |-> Torn, target |-> None]
  BY DEF Begin, TypeOK
<1>2. job'[j] \in Request
  BY <1>1, Distinct DEF Request
<1>3. job'[j].pc = pc /\ job'[j].kind = kind
  BY <1>1
<1>4. job'[j] # None
  BY <1>2, NoneAssumption
<1> QED
  BY <1>3, <1>4

LEMMA FilesStay ==
    ASSUME FilesInOrder, conf' = conf, pend' = pend, unremoved' = unremoved,
           \A f \in Content : NotNewer(f, db) => NotNewer(f, db')
    PROVE  FilesInOrder'
BY DEF FilesInOrder

(* Steps that edit.                                                        *)
LEMMA EditsInOrder ==
    ASSUME IInv, OneAtATime, OneAtATime', InOrder,
           \/ EditPart
           \/ \E j \in Jobs : \/ SaveGlobalSettings(j) \/ SaveServerInterface(j)
                              \/ SaveServerSettings(j)
    PROVE  InOrder'
<1>1. TypeOK /\ FilesInOrder
  BY DEF IInv, InOrder
<1>2. CASE EditPart
  <2>1. PICK part \in {"clients", "server"} : Edit(part)
    BY <1>2 DEF EditPart
  <2>2. \A f \in Content : NotNewer(f, db) => NotNewer(f, db') /\ f # db'
    BY <1>1, <2>1, EditFacts
  <2>3. UNCHANGED <<hashes, conf, pend, kernel, job, unremoved>>
    BY <1>2 DEF EditPart
  <2>4. FilesInOrder'
    BY <1>1, <2>2, <2>3, FilesStay
  <2>a. \A p \in {"clients", "server", "settings"} : \A n \in Nat : n <= db[p] => n <= db'[p]
    <3>1. db \in Content /\ db' \in Content
      BY <1>1, <2>1, EditFacts DEF TypeOK
    <3>2. NotNewer(db, db')
      BY <2>2, <3>1, NotNewerFacts
    <3> QED
      BY <3>1, <3>2 DEF NotNewer, Content
  <2>5. ASSUME NEW r, JobInOrder(r) PROVE JobInOrder(r)'
    BY <2>2, <2>3, <2>5, <2>a
       DEF JobInOrder, Reads, Current, Writes, Targets, Written, Recorded, Loaded, Path, Deployed
  <2>6. ASSUME NEW j \in Jobs, job[j] # None PROVE JobInOrder(job[j])'
    <3>1. PICK r : r = job[j]
      OBVIOUS
    <3>2. JobInOrder(r)
      BY <2>6, <3>1 DEF InOrder
    <3>3. JobInOrder(r)'
      BY <2>5, <3>2
    <3> QED
      BY <2>3, <3>1, <3>3
         DEF JobInOrder, Reads, Current, Writes, Targets, Written, Recorded, Loaded, Path
  <2>7. job' = job
    BY <2>3
  <2> HIDE DEF JobInOrder, FilesInOrder
  <2> QED
    BY <2>4, <2>6, <2>7 DEF InOrder
<1>3. ASSUME NEW j \in Jobs, Step(j), NEW part \in {"server", "settings"}, Edit(part),
             UNCHANGED <<conf, pend, unremoved>>, job[j] # None \/ job'[j] # None,
             job'[j] = None \/ Early(job'[j])
      PROVE  InOrder'
  <2>1. \A f \in Content : NotNewer(f, db) => NotNewer(f, db')
    BY <1>1, <1>3, EditFacts
  <2>2. FilesInOrder'
    BY <1>1, <1>3, <2>1, FilesStay
  <2>3. PICK q : q = job'[j]
    OBVIOUS
  <2> QED
    BY <1>1, <1>3, <2>2, <2>3, EarlyJob, OnlyJob
<1>4. ASSUME NEW j \in Jobs, SaveGlobalSettings(j) PROVE InOrder'
  <2>1. Begin(j, "settings", "record", FALSE, FALSE) /\ Edit("settings")
        /\ UNCHANGED <<conf, pend, unremoved>> /\ Step(j)
    BY <1>4 DEF SaveGlobalSettings, Step
  <2>2. job'[j] # None /\ Early(job'[j])
    BY <1>1, <2>1, BeginFacts DEF Early
  <2> QED
    BY <1>3, <2>1, <2>2
<1>5. ASSUME NEW j \in Jobs, SaveServerInterface(j) PROVE InOrder'
  <2>1. Begin(j, "page", "page", FALSE, FALSE) /\ Edit("server")
        /\ UNCHANGED <<conf, pend, unremoved>> /\ Step(j)
    BY <1>5 DEF SaveServerInterface, Step
  <2>2. job'[j] # None /\ Early(job'[j])
    BY <1>1, <2>1, BeginFacts DEF Early, Applying
  <2> QED
    BY <1>3, <2>1, <2>2
<1>6. ASSUME NEW j \in Jobs, SaveServerSettings(j) PROVE InOrder'
  <2>1. UNCHANGED <<conf, pend, unremoved>> /\ job[j] # None /\ Step(j)
    BY <1>6 DEF SaveServerSettings, At, Step
  <2>2. job' = [job EXCEPT ![j] = None] \/ job' = [job EXCEPT ![j].pc = "read"]
    BY <1>6 DEF SaveServerSettings, Goto, End
  <2>3. job'[j] = None \/ Early(job'[j])
    <3>1. job[j].kind \in Applying
      <4>1. JobInOrder(job[j]) /\ job[j].pc = "page"
        BY <1>6, <2>1 DEF InOrder, SaveServerSettings, At
      <4> QED
        BY <4>1 DEF JobInOrder, Path
    <3>2. job'[j] = None \/ (job'[j].pc = "read" /\ job'[j].kind = job[j].kind)
      BY <1>1, <2>1, <2>2 DEF TypeOK, Request
    <3> QED
      BY <3>1, <3>2 DEF Early
  <2>4. CASE UNCHANGED db
    <3>1. FilesInOrder'
      BY <1>1, <2>1, <2>4 DEF FilesInOrder
    <3>2. PICK q : q = job'[j]
      OBVIOUS
    <3> QED
      BY <1>1, <2>1, <2>3, <3>1, <3>2, EarlyJob, OnlyJob
  <2>5. CASE Edit("settings")
    BY <1>3, <2>1, <2>3, <2>5
  <2> QED
    BY <1>6, <2>4, <2>5 DEF SaveServerSettings
<1> QED
  BY <1>2, <1>4, <1>5, <1>6

(* A request that goes on changes nothing of itself but its place.         *)
LEMMA GotoFacts ==
    ASSUME TypeOK, NEW j \in Jobs, job[j] # None, NEW pc, Goto(j, pc)
    PROVE  /\ job'[j].pc = pc /\ job'[j].kind = job[j].kind
           /\ job'[j].restart = job[j].restart /\ job'[j].met = job[j].met
           /\ job'[j].snap = job[j].snap /\ job'[j].target = job[j].target
BY DEF Goto, TypeOK, Request

(* Requests that begin, end or read the store.                             *)
LEMMA EndsInOrder ==
    ASSUME IInv, OneAtATime, OneAtATime', InOrder, NEW j \in Jobs, Step(j),
           UNCHANGED <<db, conf, pend, unremoved>>, job[j] # None \/ job'[j] # None,
           job'[j] = None \/ Early(job'[j])
    PROVE  InOrder'
<1>1. FilesInOrder'
  BY DEF InOrder, FilesInOrder
<1>2. PICK q : q = job'[j]
  OBVIOUS
<1> QED
  BY <1>1, <1>2, EarlyJob, OnlyJob DEF IInv

(* From reading the store to writing the file.                             *)
LEMMA WriterInOrder ==
    ASSUME IInv, OneAtATime, OneAtATime', InOrder, NEW j \in Jobs,
           \/ GetServer(j) \/ GetClients(j) \/ GetGlobalSettings(j)
           \/ RouteOutput(j) \/ CreateFile(j) \/ ExecuteTemplate(j)
    PROVE  InOrder'
<1>1. TypeOK /\ FilesInOrder /\ job[j] # None /\ UNCHANGED <<db, hashes, kernel>>
  BY DEF IInv, InOrder, GetServer, GetClients, GetGlobalSettings, Read, RouteOutput, CreateFile, ExecuteTemplate, At, WriteTarget
<1>2. JobInOrder(job[j]) /\ job[j] \in Request /\ db \in Content
  BY <1>1 DEF InOrder, TypeOK
<1>3. PICK q : q = job'[j]
  OBVIOUS
<1>4. PICK r : r = job[j]
  OBVIOUS
<1>5. Writes(r) /\ Targets(r) /\ Path(r) /\ r \in Request
  BY <1>2, <1>4 DEF JobInOrder
<1>6. r.restart \in BOOLEAN
  BY <1>5 DEF Request
<1>7. Step(j)
  BY DEF Step
<1> SUFFICES FilesInOrder' /\ JobInOrder(q)'
  BY <1>1, <1>3, <1>7, OnlyJob
<1>8. CASE GetServer(j) \/ GetClients(j) \/ GetGlobalSettings(j)
  <2> USE DEF Reader
  <2>1. PICK pc, part, next : Reader(pc, part, next) /\ Read(j, pc, part, next)
    <3>1. CASE GetServer(j)
      BY <3>1 DEF GetServer
    <3>2. CASE GetClients(j)
      BY <3>2 DEF GetClients
    <3>3. CASE GetGlobalSettings(j)
      BY <3>3 DEF GetGlobalSettings
    <3> QED
      BY <1>8, <3>1, <3>2, <3>3
  <2>2. /\ r.pc = pc /\ q.pc = next /\ q.kind = r.kind
        /\ q.snap = [r.snap EXCEPT ![part] = db[part]]
        /\ UNCHANGED <<db, hashes, conf, pend, kernel, unremoved>>
    BY <1>1, <1>3, <1>4, <2>1, ReadFacts
  <2>3. r.snap \in File
    BY <1>5 DEF Request
  <2>4. FilesInOrder'
    BY <1>1, <2>2 DEF FilesInOrder
  <2>5. q.kind \in Applying
    BY <1>5, <2>1, <2>2 DEF Path
  <2>6. /\ conf \in Content => NotNewer(conf, db)
        /\ pend \in Content => NotNewer(pend, db)
    BY <1>1 DEF FilesInOrder
  <2>a. part \in {"clients", "server", "settings"}
    BY <2>1
  <2>7. /\ conf \in Content => conf[part] <= db[part]
        /\ pend \in Content => pend[part] <= db[part]
    <3>1. CASE part = "clients"
      BY <2>6, <3>1 DEF NotNewer
    <3>2. CASE part = "server"
      BY <2>6, <3>2 DEF NotNewer
    <3>3. CASE part = "settings"
      BY <2>6, <3>3 DEF NotNewer
    <3> QED
      BY <2>a, <3>1, <3>2, <3>3
  <2>8. q.snap[part] = db[part] /\ db[part] \in Nat
    BY <1>2, <2>2, <2>3, <2>a DEF File, Content
  <2>9. Current(q, part)'
    BY <2>2, <2>7, <2>8 DEF Current
  <2>10. Reads(r)
    BY <1>2, <1>4 DEF JobInOrder
  <2>11. ASSUME NEW other \in {"clients", "server", "settings"}, other # part, Current(r, other)
         PROVE  Current(q, other)'
    <3>1. q.snap[other] = r.snap[other]
      BY <2>2, <2>3, <2>11 DEF File
    <3> QED
      BY <2>2, <2>11, <3>1 DEF Current
  <2>12. /\ next \in {"settings", "route"} => Current(q, "server")'
         /\ next = "route" => Current(q, "clients")'
    BY <2>1, <2>2, <2>10, <2>11 DEF Reads
  <2>13. Reads(q)'
    BY <2>1, <2>2, <2>9, <2>12 DEF Reads
  <2>14. Writes(q)'
    <3> SUFFICES ASSUME next = "route" PROVE Writes(q)'
      BY <2>1, <2>2 DEF Writes
    <3>1. Current(q, "server")' /\ Current(q, "clients")' /\ Current(q, "settings")'
      BY <2>1, <2>9, <2>12
    <3>2. q.snap \in File
      BY <2>2, <2>3, <2>8 DEF File, Part
    <3>3. q.snap \in Content
      BY <3>1, <3>2 DEF Current, File, Content
    <3> QED
      BY <3>1, <3>3 DEF Writes, Current, NotNewer
  <2> QED
    BY <2>1, <2>2, <2>4, <2>5, <2>13, <2>14 DEF JobInOrder, Targets, Written, Recorded, Loaded, Path
<1>9. CASE RouteOutput(j)
  <2> DEFINE aside == ~job[j].restart /\ env.pending /\ ~WgTunnelIsRunning
  <2>1. /\ q.pc = "create" /\ q.snap = r.snap /\ q.kind = r.kind /\ q.restart = r.restart
        /\ q.target = (IF aside THEN "pend" ELSE "conf")
        /\ r.pc = "route" /\ conf' = conf /\ pend' \in {None, pend}
        /\ aside => pend' = pend /\ unremoved' = unremoved
        /\ ~aside => (unremoved' <=> pend' # None)
    BY <1>1, <1>3, <1>4, <1>9 DEF RouteOutput, RemoveWgConfPending, At, TypeOK, Request
  <2>2. aside => ~r.restart
    BY <1>4
  <2> HIDE DEF aside
  <2>3. FilesInOrder'
    BY <1>1, <2>1, Distinct DEF FilesInOrder
  <2>4. Writes(q)'
    BY <1>1, <1>5, <2>1, Distinct DEF Writes
  <2>5. Targets(q)'
    <3>1. CASE aside
      BY <2>1, <2>2, <3>1 DEF Targets
    <3>2. CASE ~aside
      BY <2>1, <3>2 DEF Targets
    <3> QED
      BY <3>1, <3>2
  <2> QED
    BY <1>5, <2>1, <2>3, <2>4, <2>5 DEF JobInOrder, Reads, Written, Recorded, Loaded, Path
<1>10. CASE CreateFile(j)
  <2>1. q.pc = "write" /\ q.snap = r.snap /\ q.kind = r.kind /\ q.restart = r.restart
        /\ q.target = r.target /\ r.pc = "create"
    BY <1>1, <1>3, <1>4, <1>10, GotoFacts DEF CreateFile, At
  <2>2. /\ conf' = (IF r.target = "conf" THEN Torn ELSE conf)
        /\ pend' = (IF r.target = "pend" THEN Torn ELSE pend)
        /\ unremoved' <=> unremoved /\ r.target # "pend"
    BY <1>4, <1>10 DEF CreateFile, WriteTarget
  <2>3. FilesInOrder'
    BY <1>1, <2>2, Distinct DEF FilesInOrder
  <2>4. Writes(q)'
    BY <1>1, <1>5, <2>1, <2>2, Distinct DEF Writes
  <2>5. Targets(q)'
    BY <1>5, <2>1, <2>2 DEF Targets
  <2> QED
    BY <1>5, <2>1, <2>3, <2>4, <2>5 DEF JobInOrder, Reads, Written, Recorded, Loaded, Path
<1>11. CASE ExecuteTemplate(j)
  <2>1. q.pc = "hash" /\ q.snap = r.snap /\ q.kind = r.kind /\ q.restart = r.restart
        /\ q.target = r.target /\ r.pc = "write"
    BY <1>1, <1>3, <1>4, <1>11, GotoFacts DEF ExecuteTemplate, At
  <2>2. /\ conf' = (IF r.target = "conf" THEN r.snap ELSE conf)
        /\ pend' = (IF r.target = "pend" THEN r.snap ELSE pend)
        /\ unremoved' <=> unremoved /\ r.target # "pend"
    BY <1>4, <1>11 DEF ExecuteTemplate, WriteTarget
  <2>3. /\ r.snap \in Content /\ NotNewer(r.snap, db)
        /\ conf \in Content => NotNewer(conf, r.snap)
        /\ r.target \in {"conf", "pend"} /\ (r.target = "conf" => unremoved \/ pend = None)
        /\ r.restart => r.target = "conf"
    BY <1>5, <2>1 DEF Reads, Writes, Targets
  <2>4. FilesInOrder'
    <3>1. CASE r.target = "conf"
      BY <1>1, <2>2, <2>3, <3>1, Distinct DEF FilesInOrder
    <3>2. CASE r.target = "pend"
      BY <1>1, <2>2, <2>3, <3>2, Distinct DEF FilesInOrder
    <3> QED
      BY <2>3, <3>1, <3>2
  <2>5. Written(q)'
    <3>1. CASE r.target = "conf"
      BY <1>1, <2>1, <2>2, <2>3, <3>1, Distinct DEF Written, Deployed
    <3>2. CASE r.target = "pend"
      BY <1>1, <2>1, <2>2, <2>3, <3>2, Distinct DEF Written, Deployed
    <3> QED
      BY <2>3, <3>1, <3>2
  <2> QED
    BY <1>5, <2>1, <2>4, <2>5 DEF JobInOrder, Reads, Current, Writes, Targets, Recorded, Loaded, Path
<1> QED
  BY <1>8, <1>9, <1>10, <1>11

(* From recording the checksums to the reply.                              *)
LEMMA TunnelInOrder ==
    ASSUME IInv, OneAtATime, OneAtATime', InOrder, NEW j \in Jobs,
           \/ RecordApplied(j) \/ ReloadPeers(j) \/ ForceSync(j)
           \/ PromotePending(j) \/ QuickDown(j) \/ QuickUp(j) \/ FailTunnel(j)
    PROVE  InOrder'
<1> USE DEF At
<1>1. TypeOK /\ FilesInOrder /\ job[j] # None /\ db' = db
  BY DEF IInv, InOrder, RecordApplied, ReloadPeers, ForceSync, PromotePending, QuickDown, QuickUp,
         FailTunnel
<1>2. PICK r : r = job[j]
  OBVIOUS
<1>3. PICK q : q = job'[j]
  OBVIOUS
<1>4. r \in Request /\ Written(r) /\ Recorded(r) /\ Path(r)
  BY <1>1, <1>2 DEF InOrder, JobInOrder, TypeOK
<1>5. db \in Content
  BY <1>1 DEF TypeOK
<1>6. Step(j)
  BY DEF Step
<1> SUFFICES FilesInOrder' /\ (q = None \/ JobInOrder(q)')
  BY <1>1, <1>3, <1>6, OnlyJob
(* The request is the same but for its place.                              *)
<1>7. ASSUME NEW pc \in {"sync", "promote", "down", "up", "force", "ok"}, Goto(j, pc)
      PROVE  /\ q.pc = pc /\ q.kind = r.kind /\ q.restart = r.restart /\ q.met = r.met
             /\ q.snap = r.snap
             /\ Reads(q)' /\ Writes(q)' /\ Targets(q)'
  <2>1. /\ q.pc = pc /\ q.kind = r.kind /\ q.restart = r.restart /\ q.met = r.met
        /\ q.snap = r.snap
    BY <1>1, <1>2, <1>3, <1>7, GotoFacts
  <2> QED
    BY <2>1 DEF Reads, Writes, Targets
<1>8. CASE RecordApplied(j)
  <2>1. PICK pc : pc = IF job[j].restart THEN "promote" ELSE "sync"
    OBVIOUS
  <2>2. r.pc = "hash" /\ hashes' = Hashed(db) /\ UNCHANGED <<conf, pend, unremoved>> /\ Goto(j, pc)
    BY <1>2, <1>8, <2>1 DEF RecordApplied, UpdateHashes
  <2>3. /\ q.pc = pc /\ q.kind = r.kind /\ q.restart = r.restart /\ q.met = r.met
        /\ q.snap = r.snap /\ Reads(q)' /\ Writes(q)' /\ Targets(q)'
    BY <1>7, <2>1, <2>2
  <2>4. FilesInOrder'
    BY <1>1, <2>2 DEF FilesInOrder
  <2>5. Written(q)'
    BY <1>1, <1>4, <2>2, <2>3 DEF Written, Deployed
  <2>6. Recorded(q)'
    BY <1>1, <2>2 DEF Recorded, Hashed
  <2>7. Path(q)' /\ Loaded(q)'
    <3>1. CASE r.restart
      BY <1>2, <1>4, <2>1, <2>2, <2>3, <3>1 DEF Path, Loaded
    <3>2. CASE ~r.restart
      BY <1>2, <1>4, <2>1, <2>2, <2>3, <3>2 DEF Path, Loaded
    <3> QED
      BY <3>1, <3>2
  <2> QED
    BY <2>3, <2>4, <2>5, <2>6, <2>7 DEF JobInOrder
<1>9. CASE ReloadPeers(j)
  <2>1. r.pc = "sync" /\ UNCHANGED <<hashes, conf, pend, unremoved>> /\ Goto(j, "ok")
    BY <1>2, <1>9 DEF ReloadPeers
  <2>2. /\ q.pc = "ok" /\ q.kind = r.kind /\ q.restart = r.restart /\ q.met = r.met
        /\ q.snap = r.snap /\ Reads(q)' /\ Writes(q)' /\ Targets(q)'
    BY <1>7, <2>1
  <2>3. FilesInOrder'
    BY <1>1, <2>1 DEF FilesInOrder
  <2>4. Written(q)' /\ Recorded(q)'
    BY <1>1, <1>4, <2>1, <2>2 DEF Written, Recorded, Deployed, Hashed
  <2>5. Path(q)' /\ Loaded(q)'
    BY <1>4, <2>1, <2>2 DEF Path, Loaded
  <2> QED
    BY <2>2, <2>3, <2>4, <2>5 DEF JobInOrder
<1>10. CASE ForceSync(j)
  <2>1. /\ r.pc = "force" /\ UNCHANGED <<hashes, conf, pend, unremoved>> /\ Goto(j, "ok")
        /\ kernel # None /\ kernel' = [kernel EXCEPT !.clients = conf.clients]
    BY <1>2, <1>10 DEF ForceSync, SyncConf, WgTunnelIsRunning
  <2>2. /\ q.pc = "ok" /\ q.kind = r.kind /\ q.restart = r.restart /\ q.met = r.met
        /\ q.snap = r.snap /\ Reads(q)' /\ Writes(q)' /\ Targets(q)'
    BY <1>7, <2>1
  <2>3. FilesInOrder'
    BY <1>1, <2>1 DEF FilesInOrder
  <2>4. Written(q)' /\ Recorded(q)'
    BY <1>1, <1>4, <2>1, <2>2 DEF Written, Recorded, Deployed, Hashed
  <2>5. kernel' \in File /\ kernel'.clients = conf.clients
    BY <1>1, <2>1, FileFacts DEF TypeOK, File
  <2>6. unremoved \/ conf = r.snap
    BY <1>4, <2>1 DEF Written, Path
  <2>7. Path(q)' /\ Loaded(q)'
    BY <1>4, <2>1, <2>2, <2>5, <2>6, NoneAssumption DEF Path, Loaded
  <2> QED
    BY <2>2, <2>3, <2>4, <2>7 DEF JobInOrder
<1>11. CASE PromotePending(j)
  <2>1. /\ r.pc = "promote" /\ hashes' = hashes /\ Goto(j, "down")
        /\ conf' = Deployed /\ pend' \in {None, pend} /\ unremoved' = unremoved
    BY <1>2, <1>11 DEF PromotePending
  <2>2. /\ q.pc = "down" /\ q.kind = r.kind /\ q.restart = r.restart /\ q.met = r.met
        /\ q.snap = r.snap /\ Reads(q)' /\ Writes(q)' /\ Targets(q)'
    BY <1>7, <2>1
  <2>3. FilesInOrder'
    BY <1>1, <1>5, <2>1, Distinct, NotNewerFacts DEF FilesInOrder, Deployed
  <2>4. Written(q)' /\ Recorded(q)'
    BY <1>1, <1>4, <2>1, <2>2 DEF Written, Recorded, Deployed, Hashed
  <2>5. Path(q)' /\ Loaded(q)'
    BY <1>4, <2>1, <2>2 DEF Path, Loaded
  <2> QED
    BY <2>2, <2>3, <2>4, <2>5 DEF JobInOrder
<1>12. CASE QuickDown(j)
  <2>1. r.pc = "down" /\ UNCHANGED <<hashes, conf, pend, unremoved>> /\ Goto(j, "up")
    BY <1>2, <1>12 DEF QuickDown
  <2>2. /\ q.pc = "up" /\ q.kind = r.kind /\ q.restart = r.restart /\ q.met = r.met
        /\ q.snap = r.snap /\ Reads(q)' /\ Writes(q)' /\ Targets(q)'
    BY <1>7, <2>1
  <2>3. FilesInOrder'
    BY <1>1, <2>1 DEF FilesInOrder
  <2>4. Written(q)' /\ Recorded(q)'
    BY <1>1, <1>4, <2>1, <2>2 DEF Written, Recorded, Deployed, Hashed
  <2>5. Path(q)' /\ Loaded(q)'
    BY <1>4, <2>1, <2>2 DEF Path, Loaded
  <2> QED
    BY <2>2, <2>3, <2>4, <2>5 DEF JobInOrder
<1>13. CASE QuickUp(j)
  <2>1. /\ r.pc = "up" /\ UNCHANGED <<hashes, conf, pend, unremoved>> /\ Goto(j, "ok")
        /\ kernel' = conf
    BY <1>2, <1>13 DEF QuickUp
  <2>2. /\ q.pc = "ok" /\ q.kind = r.kind /\ q.restart = r.restart /\ q.met = r.met
        /\ q.snap = r.snap /\ Reads(q)' /\ Writes(q)' /\ Targets(q)'
    BY <1>7, <2>1
  <2>3. FilesInOrder'
    BY <1>1, <2>1 DEF FilesInOrder
  <2>4. Written(q)' /\ Recorded(q)'
    BY <1>1, <1>4, <2>1, <2>2 DEF Written, Recorded, Deployed, Hashed
  <2>5. conf # None
    BY <1>1, Distinct DEF FilesInOrder
  <2>6. r.kind \in Applying => unremoved \/ conf = r.snap
    BY <1>4, <2>1 DEF Written, Path
  <2>7. Path(q)' /\ Loaded(q)'
    BY <1>4, <2>1, <2>2, <2>5, <2>6 DEF Path, Loaded
  <2> QED
    BY <2>2, <2>3, <2>4, <2>7 DEF JobInOrder
<1>14. CASE FailTunnel(j)
  <2>1. r.pc \in {"promote", "up"} /\ UNCHANGED <<hashes, conf, pend, unremoved>>
    BY <1>2, <1>14 DEF FailTunnel
  <2>2. FilesInOrder'
    BY <1>1, <2>1 DEF FilesInOrder
  <2>3. CASE r.kind = "start"
    <3>1. job' = [job EXCEPT ![j] = None]
      BY <1>2, <1>14, <2>3 DEF FailTunnel, End
    <3>2. q = None
      BY <1>1, <1>3, <3>1 DEF TypeOK
    <3> QED
      BY <2>2, <3>2
  <2>4. CASE r.kind # "start"
    <3>1. Goto(j, "force")
      BY <1>2, <1>14, <2>4 DEF FailTunnel
    <3>2. /\ q.pc = "force" /\ q.kind = r.kind /\ q.restart = r.restart /\ q.met = r.met
          /\ q.snap = r.snap /\ Reads(q)' /\ Writes(q)' /\ Targets(q)'
      BY <1>7, <3>1
    <3>3. Written(q)' /\ Recorded(q)'
      BY <1>1, <1>4, <2>1, <3>2 DEF Written, Recorded, Deployed, Hashed
    <3>4. Path(q)' /\ Loaded(q)'
      BY <1>4, <2>1, <2>4, <3>2 DEF Path, Loaded, Applying, Request
    <3> QED
      BY <2>2, <3>2, <3>3, <3>4 DEF JobInOrder
  <2> QED
    BY <2>3, <2>4
<1> QED
  BY <1>8, <1>9, <1>10, <1>11, <1>12, <1>13, <1>14

LEMMA InOrderStep == IInv /\ OneAtATime /\ OneAtATime' /\ InOrder /\ [Next]_vars => InOrder'
<1> SUFFICES ASSUME IInv, OneAtATime, OneAtATime', InOrder, [Next]_vars PROVE InOrder'
  OBVIOUS
<1>1. TypeOK /\ FilesInOrder
  BY DEF IInv, InOrder
<1>2. CASE EditPart \/ \E j \in Jobs : SaveGlobalSettings(j) \/ SaveServerInterface(j)
                                       \/ SaveServerSettings(j)
  BY <1>2, EditsInOrder
<1>3. ASSUME NEW j \in Jobs,
             \/ GetServer(j) \/ GetClients(j) \/ GetGlobalSettings(j)
             \/ RouteOutput(j) \/ CreateFile(j) \/ ExecuteTemplate(j)
      PROVE  InOrder'
  BY <1>3, WriterInOrder
<1>4. ASSUME NEW j \in Jobs,
             \/ RecordApplied(j) \/ ReloadPeers(j) \/ ForceSync(j)
             \/ PromotePending(j) \/ QuickDown(j) \/ QuickUp(j) \/ FailTunnel(j)
      PROVE  InOrder'
  BY <1>4, TunnelInOrder
<1>5. ASSUME NEW j \in Jobs,
             \/ RecordSettings(j) \/ ReplyOk(j) \/ FailStep(j)
             \/ \E flag \in BOOLEAN \cup {None} : ApplyServerConfig(j, flag)
      PROVE  InOrder'
  <2>1. UNCHANGED <<db, conf, pend, unremoved>>
    BY <1>5 DEF RecordSettings, ReplyOk, FailStep, ApplyServerConfig
  <2>2. CASE RecordSettings(j) \/ ReplyOk(j) \/ FailStep(j)
    <3>1. job'[j] = None /\ job[j] # None /\ Step(j)
      BY <1>1, <2>2 DEF RecordSettings, ReplyOk, FailStep, At, End, TypeOK, Step
    <3> QED
      BY <2>1, <3>1, EndsInOrder
  <2>3. CASE \E flag \in BOOLEAN \cup {None} : ApplyServerConfig(j, flag)
    <3>1. PICK restart \in BOOLEAN, asked \in BOOLEAN : Begin(j, "apply", "read", restart, asked)
      BY <2>3 DEF ApplyServerConfig, WgTunnelIsRunning
    <3>2. job'[j].pc = "read" /\ job'[j].kind = "apply" /\ job'[j] # None
      BY <1>1, <3>1, BeginFacts
    <3>3. Early(job'[j]) /\ Step(j)
      BY <2>3, <3>2 DEF Early, Applying, Step
    <3> QED
      BY <2>1, <3>2, <3>3, EndsInOrder
  <2> QED
    BY <1>5, <2>2, <2>3
<1>6. ASSUME NEW j \in Jobs, QuickStart(j) PROVE InOrder'
  <2>1. PICK q : q = job'[j]
    OBVIOUS
  <2>2. q.pc = "promote" /\ q.kind = "start" /\ q.restart = TRUE /\ q # None
    <3>1. q.pc = "promote" /\ q.kind = "start" /\ q # None
      BY <1>1, <1>6, <2>1, BeginFacts DEF QuickStart
    <3>2. q.restart = TRUE
      BY <1>1, <1>6, <2>1 DEF QuickStart, Begin, TypeOK
    <3> QED
      BY <3>1, <3>2
  <2>3. JobInOrder(q)'
    BY <2>2 DEF JobInOrder, Reads, Current, Writes, Targets, Written, Recorded, Loaded, Path, Applying
  <2>4. FilesInOrder'
    BY <1>1, <1>6 DEF QuickStart, FilesInOrder
  <2>5. Step(j)
    BY <1>6 DEF Step
  <2> QED
    BY <1>1, <2>1, <2>2, <2>3, <2>4, <2>5, OnlyJob
<1>7. CASE Crash \/ External
  <2>1. \A j \in Jobs : job'[j] = None
    BY <1>7 DEF Crash, External
  <2>2. FilesInOrder'
    BY <1>1, <1>7 DEF Crash, External, FilesInOrder
  <2> QED
    BY <2>1, <2>2 DEF InOrder
(* The tunnel is stopped under a request, which remembers it.              *)
<1>8. CASE QuickStop
  <2>1. UNCHANGED <<db, hashes, conf, pend, unremoved>>
    BY <1>8 DEF QuickStop
  <2>2. FilesInOrder'
    BY <1>1, <2>1 DEF FilesInOrder
  <2>3. ASSUME NEW j \in Jobs, job'[j] # None PROVE JobInOrder(job[j])'
    <3>1. PICK r : r = job[j]
      OBVIOUS
    <3>2. r \in Request /\ r # None /\ job'[j] = [r EXCEPT !.met = TRUE]
      BY <1>1, <1>8, <2>3, <3>1 DEF QuickStop, TypeOK
    <3>3. PICK q : q = job'[j]
      OBVIOUS
    <3>4. /\ q.pc = r.pc /\ q.kind = r.kind /\ q.restart = r.restart /\ q.snap = r.snap
          /\ q.target = r.target /\ q.met
      BY <3>2, <3>3 DEF Request
    <3>5. JobInOrder(r)
      BY <3>1, <3>2 DEF InOrder
    <3>6. Reads(q)' /\ Writes(q)' /\ Targets(q)' /\ Path(q)'
      BY <2>1, <3>4, <3>5 DEF JobInOrder, Reads, Current, Writes, Targets, Path
    <3>7. Written(q)' /\ Recorded(q)'
      BY <2>1, <3>4, <3>5 DEF JobInOrder, Written, Recorded, Deployed, Hashed
    <3>8. Loaded(q)'
      BY <3>4 DEF Loaded
    <3>9. JobInOrder(q)'
      BY <3>6, <3>7, <3>8 DEF JobInOrder
    <3> QED
      BY <3>3, <3>9 DEF JobInOrder, Reads, Current, Writes, Targets, Written, Recorded, Loaded, Path
  <2> HIDE DEF JobInOrder, FilesInOrder
  <2> QED
    BY <2>2, <2>3 DEF InOrder
<1>9. CASE UNCHANGED vars
  BY <1>9 DEF vars, InOrder, FilesInOrder, JobInOrder, Reads, Current, Writes, Targets, Written, Recorded, Loaded,
              Path, Deployed
<1> QED
  BY <1>2, <1>3, <1>4, <1>5, <1>6, <1>7, <1>8, <1>9 DEF Next, Step

LEMMA AlwaysInOrder == Spec /\ []OneAtATime => []InOrder
<1>1. Init => InOrder
  <2> SUFFICES ASSUME Init PROVE InOrder
    OBVIOUS
  <2>1. db \in Content /\ conf = db /\ pend = None /\ \A j \in Jobs : job[j] = None
    BY DEF Init, Content
  <2> QED
    BY <2>1, Distinct, NotNewerFacts DEF InOrder, FilesInOrder
<1> QED
  BY <1>1, InOrderStep, Invariance, PTL DEF Spec

(* As long as requests do not overlap, what the next start of the tunnel   *)
(* moves over wg.conf is never older than wg.conf, whatever fails or is    *)
(* cut short.                                                              *)
THEOREM PendingIsNewer == Spec /\ []OneAtATime => []PendingNotOlder
<1>1. IInv /\ InOrder => PendingNotOlder
  <2> SUFFICES ASSUME IInv, InOrder, ~unremoved, pend \notin {None, Torn}, conf # Torn, NEW part \in DOMAIN db
               PROVE  pend[part] >= conf[part]
    BY DEF PendingNotOlder
  <2>1. conf \in Content /\ pend \in Content /\ NotNewer(conf, pend)
    BY DEF InOrder, FilesInOrder
  <2>2. part \in {"clients", "server", "settings"}
    BY DEF IInv, TypeOK, Content
  <2> QED
    BY <2>1, <2>2 DEF NotNewer, Content
<1> QED
  BY <1>1, Invariance, AlwaysInOrder, PTL

(* As long as requests do not overlap, an apply that reports success has   *)
(* been written, recorded and, where that was wanted, loaded.              *)
THEOREM SuccessIsApplied == Spec /\ []OneAtATime => []SuccessMeansApplied
<1>1. InOrder => SuccessMeansApplied
  <2> SUFFICES ASSUME InOrder, NEW j \in Jobs, job[j] # None, job[j].pc = "ok",
                      job[j].kind \in Applying
               PROVE  /\ job[j].snap = db => ~HashesChanged
                      /\ unremoved \/ Deployed = job[j].snap
                      /\ job[j].restart /\ ~job[j].met /\ ~unremoved =>
                            WgTunnelIsRunning /\ kernel.clients = job[j].snap.clients
    BY DEF SuccessMeansApplied, At, Applying
  <2>1. JobInOrder(job[j])
    BY DEF InOrder
  <2> QED
    BY <2>1 DEF JobInOrder, Written, Recorded, Loaded, HashesChanged, WgTunnelIsRunning
<1> QED
  BY <1>1, AlwaysInOrder, PTL
=============================================================================
