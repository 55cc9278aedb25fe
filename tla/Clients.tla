------------------------------ MODULE Clients -------------------------------
(***************************************************************************)
(* VPN clients: who has which address and which key.                       *)
(*                                                                         *)
(* A handler reads what is stored, checks the request against it, and      *)
(* writes the record, in steps that other requests may come between.       *)
(* Addresses are also bound by the networks of the server, which the       *)
(* server page may change at any time, and by the subnet ranges, which are *)
(* fitted to those networks once, when the program starts.                 *)
(* A record that cannot be read, or a file that is removed between the     *)
(* listing and the reading of the directory, makes a read of all of them   *)
(* fail.                                                                   *)
(* Not covered: the fields that go to wg.conf untouched; the Telegram      *)
(* index (TelegramIndex).                                                  *)
(***************************************************************************)
EXTENDS Subnets, FiniteSets

CONSTANTS
    Ids,          \* client ids; xid never issues one twice
    Keys,         \* WireGuard key pairs
    Requests,     \* sets of addresses that a client may be given
    Servers,      \* sets of CIDRs the server page may set
    Ranges,       \* CIDRs of the subnet ranges in the environment
    Jobs,         \* HTTP requests that may be in flight together
    None          \* no record, no private key, no job

Empty == "empty"  \* a public key left blank

ASSUME ClientsAssumption ==
    /\ Requests \subseteq SUBSET Addr
    /\ Servers \subseteq SUBSET CIDR
    /\ Ranges \subseteq CIDR
    /\ Empty \notin Keys /\ None \notin Keys \cup Ids

VARIABLES
    clients,      \* the record of each id
    ifaces,       \* ServerInterface.Addresses
    ranges,       \* util.SubnetRanges
    issued,       \* ids used so far
    job,          \* the requests in flight
    overlapped,   \* history: pairs of ids that had requests in flight together
    unlisted      \* history: ids whose addresses were accepted when the
                  \* allocated ones could not be read

vars == <<clients, ifaces, ranges, issued, job, overlapped, unlisted>>

(* priv names the key pair whose private half is stored.                   *)
Client == [ips: SUBSET Addr, key: Keys \cup {Empty}, priv: Keys \cup {None},
           enabled: BOOLEAN]

Exists(c) == clients[c] # None

-----------------------------------------------------------------------------
(* What the checks read.                                                   *)

\* Mutant: the addresses of disabled clients count as free.
AllocatedToEnabled(ignored) ==
    {s.ip : s \in ifaces} \cup
    UNION {clients[c].ips : c \in {d \in Ids : Exists(d) /\ d # ignored /\ clients[d].enabled}}

(* Addresses of the server and of the clients other than the ignored one.  *)
GetAllocatedIPs(ignored) ==
    {s.ip : s \in ifaces} \cup
    UNION {clients[c].ips : c \in {d \in Ids : Exists(d) /\ d # ignored}}

(* Before a save the error of GetAllocatedIPs is dropped, and the check    *)
(* made against no address at all.                                         *)
Accepted(ignored, ips, listed) ==
    ValidateIPAllocation(ifaces, IF listed THEN GetAllocatedIPs(ignored) ELSE {}, ips)

DuplicateKey(k) == \E c \in Ids : Exists(c) /\ clients[c].key = k

(* A generated key is new to everybody.                                    *)
UnusedKeys == {k \in Keys : /\ \A c \in Ids : Exists(c) => k \notin {clients[c].key, clients[c].priv}
                            /\ \A j \in Jobs : job[j] # None => k \notin {job[j].rec.key, job[j].rec.priv}}

-----------------------------------------------------------------------------
(* The handlers.                                                           *)

Free(j) == job[j] = None

Begin(j, c, pc, rec, listed) ==
    /\ job' = [job EXCEPT ![j] = [id |-> c, pc |-> pc, rec |-> rec, listed |-> listed]]
    /\ overlapped' = overlapped \cup
          {{c, job[i].id} : i \in {k \in Jobs : job[k] # None /\ job[k].id # c}}
    /\ UNCHANGED <<clients, ifaces, ranges, unlisted>>

At(j, pc) == job[j] # None /\ job[j].pc = pc

End(j) == job' = [job EXCEPT ![j] = None]

(* NewClient, up to the check of the addresses; a key that was typed in is *)
(* checked next, one that was not is generated.                            *)
NewClient(j, c, ips, k, listed) ==
    /\ Free(j)
    /\ c \notin issued
    /\ Accepted(None, ips, listed)
    /\ issued' = issued \cup {c}
    /\ IF k # Empty
       THEN Begin(j, c, "key", [ips |-> ips, key |-> k, priv |-> None, enabled |-> TRUE],
                  listed)
       ELSE \E new \in UnusedKeys :
               Begin(j, c, "write", [ips |-> ips, key |-> new, priv |-> new, enabled |-> TRUE],
                     listed)

\* Mutant: a private key is kept whatever public key is typed in.
UpdatedKeepingPrivate(old, ips, k, on) ==
    [ips |-> ips, key |-> k, priv |-> old.priv, enabled |-> on]

\* Mutant: the key typed in is stored as the private key.
UpdatedCopyingKey(old, ips, k, on) ==
    [ips |-> ips, key |-> k, priv |-> IF k = old.key THEN old.priv ELSE k, enabled |-> on]

(* A key that replaces another one voids the stored private key.           *)
Updated(old, ips, k, on) ==
    [ips |-> ips, key |-> k, priv |-> IF k \in {old.key, Empty} THEN old.priv ELSE None,
     enabled |-> on]

UpdateClient(j, c, ips, k, on, listed) ==
    /\ Free(j)
    /\ Exists(c)
    /\ Accepted(c, ips, listed)
    /\ Begin(j, c, IF k \in {clients[c].key, Empty} THEN "write" ELSE "key",
             Updated(clients[c], ips, k, on), listed)
    /\ UNCHANGED issued

(* The record is read here and written, with the new status, in the end;   *)
(* its addresses stay what they were accepted as.                          *)
SetClientStatus(j, c, on) ==
    /\ Free(j)
    /\ Exists(c)
    /\ Begin(j, c, "write", [clients[c] EXCEPT !.enabled = on], c \notin unlisted)
    /\ UNCHANGED issued

\* Mutant: only the keys of enabled clients are compared.
CheckEnabledKeys(j) ==
    /\ At(j, "key")
    /\ IF \E c \in Ids : /\ Exists(c) /\ clients[c].enabled
                         /\ clients[c].key = job[j].rec.key
       THEN End(j)
       ELSE job' = [job EXCEPT ![j].pc = "write"]
    /\ UNCHANGED <<clients, ifaces, ranges, issued, overlapped, unlisted>>

(* A duplicate, or records that cannot be read, end the request.           *)
CheckKey(j) ==
    /\ At(j, "key")
    /\ \/ End(j)
       \/ ~DuplicateKey(job[j].rec.key) /\ job' = [job EXCEPT ![j].pc = "write"]
    /\ UNCHANGED <<clients, ifaces, ranges, issued, overlapped, unlisted>>

SaveClient(j) ==
    /\ At(j, "write")
    /\ clients' = [clients EXCEPT ![job[j].id] = job[j].rec]
    /\ unlisted' = IF job[j].listed THEN unlisted \ {job[j].id} ELSE unlisted \cup {job[j].id}
    /\ End(j)
    /\ UNCHANGED <<ifaces, ranges, issued, overlapped>>

RemoveClient(c) ==
    /\ Exists(c)
    /\ clients' = [clients EXCEPT ![c] = None]
    /\ UNCHANGED <<ifaces, ranges, issued, job, overlapped, unlisted>>

(* Neither the clients nor the ranges are looked at.                       *)
SaveServerInterface(s) ==
    /\ ifaces' = s
    /\ UNCHANGED <<clients, ranges, issued, job, overlapped, unlisted>>

(* The ranges are fitted to the networks of the moment.                    *)
Restart ==
    /\ job' = [j \in Jobs |-> None]
    /\ ranges' = ValidateAndFixSubnetRanges(Ranges, ifaces)
    /\ UNCHANGED <<clients, ifaces, issued, overlapped, unlisted>>

Init ==
    /\ clients = [c \in Ids |-> None]
    /\ ifaces \in Servers
    /\ ranges = ValidateAndFixSubnetRanges(Ranges, ifaces)
    /\ issued = {}
    /\ job = [j \in Jobs |-> None]
    /\ overlapped = {}
    /\ unlisted = {}

Next ==
    \/ \E j \in Jobs :
        \/ CheckKey(j)
        \/ SaveClient(j)
        \/ \E c \in Ids :
            \/ \E ips \in Requests, k \in Keys \cup {Empty}, listed \in BOOLEAN :
                  NewClient(j, c, ips, k, listed)
            \/ \E ips \in Requests, k \in Keys \cup {Empty}, on, listed \in BOOLEAN :
                  UpdateClient(j, c, ips, k, on, listed)
            \/ \E on \in BOOLEAN : SetClientStatus(j, c, on)
    \/ \E c \in Ids : RemoveClient(c)
    \/ \E s \in Servers : SaveServerInterface(s)
    \/ Restart

Spec == Init /\ [][Next]_vars

-----------------------------------------------------------------------------
(* Properties.                                                             *)

(* Every variable has the shape of the records and requests of the code.   *)
TypeOK ==
    /\ clients \in [Ids -> Client \cup {None}]
    /\ ifaces \in Servers
    /\ ranges \subseteq Ranges
    /\ issued \subseteq Ids
    /\ job \in [Jobs -> {None} \cup [id: Ids, pc: {"key", "write"}, rec: Client,
                                     listed: BOOLEAN]]
    /\ overlapped \subseteq SUBSET Ids
    /\ unlisted \subseteq Ids

(* The check before every save keeps two clients from getting one address, *)
(* unless their requests were in flight together, or the allocated         *)
(* addresses could not be read when one of them was given its own          *)
(* (routes.go on NewClient and UpdateClient drops that error).             *)
AddressSharedOnlyByOverlap ==
    \A c, d \in Ids :
        c # d /\ Exists(c) /\ Exists(d) /\ clients[c].ips \cap clients[d].ips # {}
        => {c, d} \in overlapped \/ {c, d} \cap unlisted # {}

(* The same for public keys; a key left blank by an update is not checked. *)
KeySharedOnlyByOverlap ==
    \A c, d \in Ids :
        c # d /\ Exists(c) /\ Exists(d) /\ clients[c].key = clients[d].key
        => {c, d} \in overlapped \/ clients[c].key = Empty

(* routes.go on UpdateClient: a stored private key belongs to the public   *)
(* key beside it, so the configuration handed out works, unless the public *)
(* key was left blank.                                                     *)
KeyPairsMatch ==
    \A c \in Ids : Exists(c) =>
        clients[c].priv = None \/ clients[c].key \in {clients[c].priv, Empty}

(* SuggestIPAllocation on the server's networks, or on ranges that still   *)
(* lie inside them: what it offers, NewClient accepts, and no host of the  *)
(* network is left when it offers nothing.                                 *)
SuggestionsAccepted ==
    LET taken == GetAllocatedIPs(None)
        reserved == GetBroadcastAndNetworkAddrsLookup(ifaces)
    IN  \A c \in ifaces \cup ValidateAndFixSubnetRanges(ranges, ifaces) :
            LET a == GetAvailableIP(c, taken, ifaces)
            IN  IF a = NoAddr
                THEN \A h \in Addr : Contains(c, h) => h \in taken \cup reserved
                ELSE ValidateIPAllocation(ifaces, taken, {a}) /\ a \notin reserved
=============================================================================
