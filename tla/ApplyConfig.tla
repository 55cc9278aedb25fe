---------------------------- MODULE ApplyConfig ----------------------------
(***************************************************************************)
(* "Apply config": how edits in the JSON store reach wg.conf and the       *)
(* kernel, and what tells an administrator that some have not.             *)
(*                                                                         *)
(* The store has three parts that go into wg.conf: the clients, the server *)
(* page (interface and key pair) and the global settings.  hashes.json     *)
(* remembers checksums of them; a difference lights the "Apply config"     *)
(* badge.  Applying renders the store into wg.conf, or into the side file  *)
(* wg.conf.wgui-pending when the tunnel is stopped, records the checksums  *)
(* and reloads or restarts the tunnel; starting the tunnel moves the side  *)
(* file over wg.conf first.                                                *)
(*                                                                         *)
(* Handlers run as jobs, split where they touch a file, the hashes or the  *)
(* tunnel.  A job may be cut short anywhere by a crash of the server, and  *)
(* every write and command may fail.  A part is a version number: saving   *)
(* stamps UpdatedAt, so no two saves store the same text.                  *)
(* Not covered: a change of ConfigFilePath, systems other than Linux, and  *)
(* external tools that restart the tunnel whenever wg.conf changes;        *)
(* CanonicalUntouchedWhileStopped is what such a tool relies on.           *)
(***************************************************************************)
EXTENDS Naturals, FiniteSets

CONSTANTS
    Jobs,         \* HTTP requests that may be in flight together
    MaxEdits,     \* bound on the number of saves
    None          \* nothing: no file, no job, no checksum, no interface

ASSUME JobsAssumption == MaxEdits \in Nat /\ None \notin Nat

VARIABLES
    db,           \* version of each part in the store
    hashes,       \* hashes.json
    conf,         \* wg.conf
    pend,         \* wg.conf.wgui-pending
    kernel,       \* what the running interface was given, None while stopped
    job,          \* the requests in flight
    env,          \* environment variables of the process
    stopped,      \* history: the tunnel was stopped on request and nobody
                  \* has asked for it since
    unremoved     \* history: the side file was to be removed, could not be,
                  \* and has not been rewritten since

vars == <<db, hashes, conf, pend, kernel, job, env, stopped, unremoved>>

Content == [clients: Nat, server: Nat, settings: Nat]

Part == Nat \cup {None}

File == [clients: Part, server: Part, settings: Part]

Request ==
    [kind: {"settings", "page", "apply", "start"},
     pc: {"record", "page", "read", "clients", "settings", "route", "create", "write",
          "hash", "sync", "force", "promote", "down", "up", "ok"},
     restart: BOOLEAN, asked: BOOLEAN, met: BOOLEAN, snap: File,
     target: {"conf", "pend", None}]

ASSUME NoneAssumption == None \notin File \cup Request

(* A file that was created and not, or not wholly, written; and a snapshot *)
(* of which no part has been read.                                         *)
Torn == [clients |-> None, server |-> None, settings |-> None]

Hashed(d) == [client |-> d.clients, server |-> <<d.server, d.settings>>]

HashesChanged == hashes # Hashed(db)

WgTunnelIsRunning == kernel # None

(* What the next start of the tunnel will load.                            *)
Deployed == IF pend # None THEN pend ELSE conf

(* The error of the removal is dropped.                                    *)
RemoveWgConfPending ==
    /\ pend' \in {None, pend}
    /\ unremoved' = (pend' # None)

Edits == db.clients + db.server + db.settings

Edit(part) == Edits < MaxEdits /\ db' = [db EXCEPT ![part] = @ + 1]

-----------------------------------------------------------------------------
(* Jobs.                                                                   *)

Goto(j, pc) == job' = [job EXCEPT ![j].pc = pc]

End(j) == job' = [job EXCEPT ![j] = None]

At(j, pc) == job[j] # None /\ job[j].pc = pc

Begin(j, kind, pc, restart, asked) ==
    /\ job[j] = None
    /\ job' = [job EXCEPT ![j] = [kind |-> kind, pc |-> pc, restart |-> restart,
                                  asked |-> asked, met |-> FALSE, snap |-> Torn,
                                  target |-> None]]

(* Edits that record no checksum: creating, changing, enabling, disabling  *)
(* or removing a client; the interface page; a new key pair.               *)
EditPart ==
    /\ \E part \in {"clients", "server"} : Edit(part)
    /\ UNCHANGED <<hashes, conf, pend, kernel, job, env, stopped, unremoved>>

-----------------------------------------------------------------------------
(* Saving the global settings or the realtime switch: save, then record    *)
(* the checksums of the whole store.                                       *)

SaveGlobalSettings(j) ==
    /\ Begin(j, "settings", "record", FALSE, FALSE)
    /\ Edit("settings")
    /\ UNCHANGED <<hashes, conf, pend, kernel, env, stopped, unremoved>>

UpdateHashes == hashes' = Hashed(db)

RecordSettings(j) ==
    /\ At(j, "record")
    /\ UpdateHashes
    /\ End(j)
    /\ UNCHANGED <<db, conf, pend, kernel, env, stopped, unremoved>>

-----------------------------------------------------------------------------
(* Saving the server page: the interface, then (unless the DNS list is     *)
(* refused) the settings, then (if so configured) an apply that does not   *)
(* restart the tunnel.                                                     *)

SaveServerInterface(j) ==
    /\ Begin(j, "page", "page", FALSE, FALSE)
    /\ Edit("server")
    /\ UNCHANGED <<hashes, conf, pend, kernel, env, stopped, unremoved>>

SaveServerSettings(j) ==
    /\ At(j, "page")
    /\ \/ End(j) /\ UNCHANGED db
       \/ /\ Edit("settings")
          /\ Goto(j, "read") \/ End(j)
    /\ UNCHANGED <<hashes, conf, pend, kernel, env, stopped, unremoved>>

-----------------------------------------------------------------------------
(* Applying.                                                               *)

\* Mutant: a request that does not say restarts the tunnel.
RestartByDefault(j, flag) ==
    /\ Begin(j, "apply", "read", flag \in {TRUE, None}, flag = TRUE)
    /\ UNCHANGED <<db, hashes, conf, pend, kernel, env, stopped, unremoved>>

(* restart_wireguard in the request, None when it is absent.               *)
ApplyServerConfig(j, flag) ==
    /\ Begin(j, "apply", "read",
             IF flag = None THEN WgTunnelIsRunning ELSE flag, flag = TRUE)
    /\ UNCHANGED <<db, hashes, conf, pend, kernel, env, stopped, unremoved>>

(* The store is read part by part, and may be edited in between.           *)
Read(j, pc, part, next) ==
    /\ At(j, pc)
    /\ job' = [job EXCEPT ![j].snap[part] = db[part], ![j].pc = next]
    /\ UNCHANGED <<db, hashes, conf, pend, kernel, env, stopped, unremoved>>

GetServer(j) == Read(j, "read", "server", "clients")

\* Mutant: the error of a failing read is not looked at.
GetClientsUnchecked(j) ==
    \/ Read(j, "clients", "clients", "settings")
    \/ /\ At(j, "clients")
       /\ Goto(j, "settings")
       /\ UNCHANGED <<db, hashes, conf, pend, kernel, env, stopped, unremoved>>

GetClients(j) == Read(j, "clients", "clients", "settings")

(* The users are read too, before; the template takes nothing from them.   *)
GetGlobalSettings(j) == Read(j, "settings", "settings", "route")

\* Mutant: the side file is left in place when the running tunnel is not restarted.
KeepPendingWhileRunning(j) ==
    LET aside == ~job[j].restart /\ env.pending /\ ~WgTunnelIsRunning
    IN  /\ At(j, "route")
        /\ IF job[j].restart THEN RemoveWgConfPending ELSE UNCHANGED <<pend, unremoved>>
        /\ job' = [job EXCEPT ![j].pc = "create",
                              ![j].target = IF aside THEN "pend" ELSE "conf"]
        /\ UNCHANGED <<db, hashes, conf, kernel, env, stopped>>

\* Mutant: wg.conf is written although the tunnel is stopped.
AlwaysCanonical(j) ==
    /\ At(j, "route")
    /\ RemoveWgConfPending
    /\ job' = [job EXCEPT ![j].pc = "create", ![j].target = "conf"]
    /\ UNCHANGED <<db, hashes, conf, kernel, env, stopped>>

(* The side file is written if the tunnel is stopped and stays so;         *)
(* otherwise it is removed, because wg.conf will be newer, and the apply   *)
(* goes on whether that succeeded or not.                                  *)
RouteOutput(j) ==
    LET aside == ~job[j].restart /\ env.pending /\ ~WgTunnelIsRunning
    IN  /\ At(j, "route")
        /\ IF aside THEN UNCHANGED <<pend, unremoved>> ELSE RemoveWgConfPending
        /\ job' = [job EXCEPT ![j].pc = "create",
                              ![j].target = IF aside THEN "pend" ELSE "conf"]
        /\ UNCHANGED <<db, hashes, conf, kernel, env, stopped>>

WriteTarget(j, content) ==
    /\ conf' = IF job[j].target = "conf" THEN content ELSE conf
    /\ pend' = IF job[j].target = "pend" THEN content ELSE pend
    /\ unremoved' = (unremoved /\ job[j].target # "pend")
    /\ UNCHANGED <<db, hashes, kernel, env, stopped>>

(* os.Create truncates the file.                                           *)
CreateFile(j) ==
    /\ At(j, "create")
    /\ Goto(j, "write")
    /\ WriteTarget(j, Torn)

ExecuteTemplate(j) ==
    /\ At(j, "write")
    /\ Goto(j, "hash")
    /\ WriteTarget(j, job[j].snap)

RecordApplied(j) ==
    /\ At(j, "hash")
    /\ UpdateHashes
    /\ Goto(j, IF job[j].restart THEN "promote" ELSE "sync")
    /\ UNCHANGED <<db, conf, pend, kernel, env, stopped, unremoved>>

(* wg syncconf replaces the peers of a running interface and leaves what   *)
(* wg-quick set up.                                                        *)
SyncConf == kernel' = [kernel EXCEPT !.clients = conf.clients]

ShouldApplySyncconfAfterWrite == env.sync = "true"

(* Without a restart the peers are reloaded only on request of the         *)
(* environment, and only while the tunnel runs.                            *)
ReloadPeers(j) ==
    /\ At(j, "sync")
    /\ IF ShouldApplySyncconfAfterWrite /\ WgTunnelIsRunning THEN SyncConf
                                                           ELSE UNCHANGED kernel
    /\ Goto(j, "ok")
    /\ UNCHANGED <<db, hashes, conf, pend, env, stopped, unremoved>>

(* The fallback when the restart was refused or failed.                    *)
ForceSync(j) ==
    /\ At(j, "force")
    /\ WgTunnelIsRunning
    /\ SyncConf
    /\ Goto(j, "ok")
    /\ UNCHANGED <<db, hashes, conf, pend, env, stopped, unremoved>>

-----------------------------------------------------------------------------
(* Starting and stopping the tunnel.                                       *)

QuickStart(j) ==
    /\ env.allow
    /\ Begin(j, "start", "promote", TRUE, TRUE)
    /\ UNCHANGED <<db, hashes, conf, pend, kernel, env, stopped, unremoved>>

(* RestartWgQuick and RunWgQuickUp: the side file is moved over wg.conf by *)
(* a rename of a copy, then removed, which may fail unnoticed.             *)
PromotePending(j) ==
    /\ At(j, "promote")
    /\ env.allow
    /\ conf' = Deployed
    /\ pend' \in {None, pend}
    /\ Goto(j, "down")
    /\ UNCHANGED <<db, hashes, kernel, env, stopped, unremoved>>

(* Best effort: an interface in a bad state may resist.                    *)
QuickDown(j) ==
    /\ At(j, "down")
    /\ kernel' \in {None, kernel}
    /\ Goto(j, "up")
    /\ UNCHANGED <<db, hashes, conf, pend, env, stopped, unremoved>>

(* The tunnel is wanted again once somebody asked for it by name.          *)
QuickUp(j) ==
    /\ At(j, "up")
    /\ ~WgTunnelIsRunning
    /\ kernel' = conf
    /\ stopped' = (stopped /\ ~job[j].asked)
    /\ Goto(j, "ok")
    /\ UNCHANGED <<db, hashes, conf, pend, env, unremoved>>

(* A job that has yet to bring the tunnel up.                              *)
WillStart(j) == job[j] # None /\ job[j].restart /\ job[j].pc \notin {"force", "ok"}

(* A request of one command, which may meet every job at every step.  Each *)
(* job it meets remembers it; one that is to start the tunnel still will.  *)
QuickStop ==
    /\ env.allow
    /\ WgTunnelIsRunning
    /\ kernel' = None
    /\ job' = [j \in Jobs |-> IF job[j] = None THEN None ELSE [job[j] EXCEPT !.met = TRUE]]
    /\ stopped' = \A j \in Jobs : ~WillStart(j)
    /\ UNCHANGED <<db, hashes, conf, pend, env, unremoved>>

-----------------------------------------------------------------------------
(* Outcomes.                                                               *)

ReplyOk(j) ==
    /\ At(j, "ok")
    /\ End(j)
    /\ UNCHANGED <<db, hashes, conf, pend, kernel, env, stopped, unremoved>>

(* Any failing step of a save or an apply ends the request, except that a  *)
(* restart falls back to wg syncconf.                                      *)
FailStep(j) ==
    /\ \/ \E pc \in {"record", "read", "clients", "settings", "create", "write", "hash",
                     "force"} : At(j, pc)
       \/ At(j, "sync") /\ ShouldApplySyncconfAfterWrite /\ WgTunnelIsRunning
    /\ End(j)
    /\ UNCHANGED <<db, hashes, conf, pend, kernel, env, stopped, unremoved>>

\* Mutant: a failing restart is logged and the apply reported as done.
FailTunnelSilently(j) ==
    /\ At(j, "promote") \/ At(j, "up")
    /\ IF job[j].kind = "start" THEN End(j) ELSE Goto(j, "ok")
    /\ UNCHANGED <<db, hashes, conf, pend, kernel, env, stopped, unremoved>>

(* wg-quick is not allowed, the side file cannot be moved, or wg-quick up  *)
(* fails twice and may leave a half-made interface.                        *)
FailTunnel(j) ==
    /\ At(j, "promote") \/ At(j, "up")
    /\ IF job[j].kind = "start" THEN End(j) ELSE Goto(j, "force")
    /\ \/ UNCHANGED <<kernel, stopped>>
       \/ /\ At(j, "up")
          /\ ~WgTunnelIsRunning
          /\ kernel' = Torn
          /\ stopped' = (stopped /\ ~job[j].asked)
    /\ UNCHANGED <<db, hashes, conf, pend, env, unremoved>>

(* The server is killed, or asked to stop: main returns without waiting    *)
(* for the requests in flight.  wg.conf exists at the next start and is    *)
(* left as it is.                                                          *)
Crash ==
    /\ \E j \in Jobs : job[j] # None
    /\ job' = [j \in Jobs |-> None]
    /\ UNCHANGED <<db, hashes, conf, pend, kernel, env, stopped, unremoved>>

(* An operator or the init system runs wg-quick, between two requests.     *)
External ==
    /\ \A j \in Jobs : job[j] = None
    /\ \/ ~WgTunnelIsRunning /\ kernel' = conf /\ stopped' = FALSE
       \/ WgTunnelIsRunning /\ kernel' = None /\ stopped' = TRUE
    /\ UNCHANGED <<db, hashes, conf, pend, job, env, unremoved>>

(* First start: initServerConfig has rendered the store.                   *)
Init ==
    /\ db = [clients |-> 0, server |-> 0, settings |-> 0]
    /\ hashes = [client |-> None, server |-> None]
    /\ conf = db
    /\ pend = None
    /\ kernel = None
    /\ job = [j \in Jobs |-> None]
    /\ env \in [allow: BOOLEAN, sync: {"true", "false", "unset"}, pending: BOOLEAN]
    /\ stopped = FALSE
    /\ unremoved = FALSE

Step(j) ==
    \/ SaveGlobalSettings(j) \/ RecordSettings(j)
    \/ SaveServerInterface(j) \/ SaveServerSettings(j)
    \/ \E flag \in BOOLEAN \cup {None} : ApplyServerConfig(j, flag)
    \/ GetServer(j) \/ GetClients(j) \/ GetGlobalSettings(j)
    \/ RouteOutput(j) \/ CreateFile(j) \/ ExecuteTemplate(j)
    \/ RecordApplied(j) \/ ReloadPeers(j) \/ ForceSync(j)
    \/ QuickStart(j) \/ PromotePending(j) \/ QuickDown(j) \/ QuickUp(j)
    \/ ReplyOk(j) \/ FailStep(j) \/ FailTunnel(j)

Next == EditPart \/ Crash \/ External \/ QuickStop \/ \E j \in Jobs : Step(j)

Spec == Init /\ [][Next]_vars

-----------------------------------------------------------------------------
(* Properties.                                                             *)

Idle == \A j \in Jobs : job[j] = None

(* Every variable has the shape of the file, interface or request it       *)
(* stands for.                                                             *)
TypeOK ==
    /\ db \in Content
    /\ hashes \in [client: Part, server: (Nat \X Nat) \cup {None}]
    /\ conf \in Content \cup {Torn}
    /\ pend \in Content \cup {Torn, None}
    /\ kernel \in File \cup {None}
    /\ job \in [Jobs -> {None} \cup Request]
    /\ env \in [allow: BOOLEAN, sync: {"true", "false", "unset"}, pending: BOOLEAN]
    /\ stopped \in BOOLEAN
    /\ unremoved \in BOOLEAN

(* Moving the side file over wg.conf never takes the configuration back:   *)
(* whatever wg.conf holds is also in the side file, or newer there.        *)
(* RemoveWgConfPending is "best-effort" (wg_quick.go): a side file that    *)
(* could not be removed stays behind until it is removed or rewritten, and *)
(* of it nothing is promised.                                              *)
PendingNotOlder ==
    ~unremoved /\ pend \notin {None, Torn} /\ conf # Torn =>
        \A part \in DOMAIN db : pend[part] >= conf[part]

(* routes.go on ApplyServerConfig: an apply that does not ask for it       *)
(* "avoids restarting a tunnel that was deliberately stopped".  A stop     *)
(* holds against every request that begins after it without asking for the *)
(* tunnel; one that was about to start it when the stop came undoes it.    *)
StoppedStaysStopped == stopped => ~WgTunnelIsRunning

(* What a success reply to an apply promises: no badge is left if nothing  *)
(* was edited since; and, unless an older side file could not be removed,  *)
(* the next start loads exactly what was read, and if a restart was wanted *)
(* the interface runs and has the peers of that file, be it by the restart *)
(* or by its fallback, unless a stop came meanwhile.                       *)
SuccessMeansApplied ==
    \A j \in Jobs : At(j, "ok") /\ job[j].kind \in {"apply", "page"} =>
        /\ job[j].snap = db => ~HashesChanged
        /\ unremoved \/ Deployed = job[j].snap
        /\ job[j].restart /\ ~job[j].met /\ ~unremoved =>
              WgTunnelIsRunning /\ kernel.clients = job[j].snap.clients

(* config.go on the side file: while the tunnel is stopped, wg.conf is not *)
(* written behind the back of tools that watch it, unless a request asked  *)
(* for the tunnel or was in flight when the stop came.                     *)
CanonicalUntouchedWhileStopped ==
    [][stopped /\ env.pending /\ conf' # conf =>
         \E j \in Jobs : job[j] # None /\ (job[j].asked \/ job[j].met)]_vars

(* model.ClientServerHashes: the hashes are saved to detect changes.  When *)
(* no request is running and no badge is shown, the clients in the store   *)
(* are those of the file the tunnel starts from.                           *)
ChangesDetected == Idle /\ ~HashesChanged => Deployed.clients = db.clients
=============================================================================
