--------------------------- MODULE ClientsProofs ----------------------------
(***************************************************************************)
(* The safety properties of Clients, for any number of clients, keys and   *)
(* requests in flight, and any addresses.                                  *)
(*                                                                         *)
(* A check says something about the moment it is made; the write comes     *)
(* later.  IInv carries what was checked from one to the other: a request  *)
(* about to write clashes only with clients whose own requests it met.     *)
(*                                                                         *)
(* Suggested addresses need no invariant but arithmetic: networks start at *)
(* multiples of their sizes, and sizes are powers of two.                  *)
(***************************************************************************)
EXTENDS Clients, Integers, NaturalsInduction, WellFoundedInduction, TLAPS

Running(j) == job[j] # None

(* Two requests in flight about different clients have met.                *)
RunningHaveMet ==
    \A i, j \in Jobs :
        Running(i) /\ Running(j) /\ job[i].id # job[j].id
        => {job[i].id, job[j].id} \in overlapped

(* What a request is to write shares an address only with clients it met,  *)
(* or whose own addresses were not compared, if its addresses were.        *)
WritesClashOnlyByOverlap ==
    \A j \in Jobs, d \in Ids :
        /\ Running(j) /\ job[j].listed /\ Exists(d) /\ d # job[j].id
        /\ job[j].rec.ips \cap clients[d].ips # {}
        => {job[j].id, d} \in overlapped \/ d \in unlisted

(* The same for keys, once the key has been checked.                       *)
CheckedKeysClashOnlyByOverlap ==
    \A j \in Jobs, d \in Ids :
        /\ At(j, "write") /\ Exists(d) /\ d # job[j].id
        /\ job[j].rec.key = clients[d].key
        => {job[j].id, d} \in overlapped \/ job[j].rec.key = Empty

Paired(rec) == rec.priv = None \/ rec.key \in {rec.priv, Empty}

WritesKeyPairs == \A j \in Jobs : Running(j) => Paired(job[j].rec)

IInv ==
    /\ TypeOK
    /\ RunningHaveMet
    /\ WritesClashOnlyByOverlap
    /\ CheckedKeysClashOnlyByOverlap
    /\ WritesKeyPairs
    /\ AddressSharedOnlyByOverlap
    /\ KeySharedOnlyByOverlap
    /\ KeyPairsMatch

Request == [id: Ids, pc: {"key", "write"}, rec: Client, listed: BOOLEAN]

(* The addresses of a valid request are no other client's.                 *)
LEMMA AllocatedCoversOthers ==
    ASSUME TypeOK, NEW c \in Ids \cup {None}, NEW ips, Accepted(c, ips, TRUE)
    PROVE  \A d \in Ids : Exists(d) /\ d # c => ips \cap clients[d].ips = {}
<1> SUFFICES ASSUME NEW d \in Ids, Exists(d), d # c, NEW a \in ips, a \in clients[d].ips
             PROVE  FALSE
  OBVIOUS
<1>1. a \in GetAllocatedIPs(c)
  BY DEF GetAllocatedIPs
<1> QED
  BY <1>1 DEF Accepted, ValidateIPAllocation

(* A request that begins with a well-formed record which clashes only with *)
(* clients already met keeps the invariant.                                *)
LEMMA BeginKeeps ==
    ASSUME IInv, NEW j \in Jobs, NEW c \in Ids, NEW pc \in {"key", "write"},
           NEW rec \in Client, NEW listed \in BOOLEAN, Begin(j, c, pc, rec, listed),
           issued' \subseteq Ids,
           Paired(rec),
           listed =>
               \A d \in Ids : Exists(d) /\ d # c /\ rec.ips \cap clients[d].ips # {}
                   => {c, d} \in overlapped \/ d \in unlisted,
           pc = "write" =>
               \A d \in Ids : Exists(d) /\ d # c /\ rec.key = clients[d].key
                   => {c, d} \in overlapped \/ rec.key = Empty
    PROVE  IInv'
<1> DEFINE new == [id |-> c, pc |-> pc, rec |-> rec, listed |-> listed]
<1>1. job' = [job EXCEPT ![j] = new]
  BY DEF Begin
<1>2. UNCHANGED <<clients, ifaces, ranges, unlisted>>
  BY DEF Begin
<1>3. job'[j] = new /\ \A i \in Jobs : i # j => job'[i] = job[i]
  BY <1>1 DEF IInv, TypeOK
<1>4. overlapped \subseteq overlapped'
  BY DEF Begin
<1>5. ASSUME NEW i \in Jobs, Running(i), job[i].id # c PROVE {c, job[i].id} \in overlapped'
  BY <1>5 DEF Begin, Running
<1>6. overlapped' \subseteq SUBSET Ids
  <2>1. \A i \in Jobs : Running(i) => job[i].id \in Ids
    BY DEF IInv, TypeOK, Running
  <2> QED
    BY <2>1 DEF Begin, IInv, TypeOK, Running
<1>7. TypeOK'
  <2>1. new \in Request
    BY DEF Request
  <2>2. job' \in [Jobs -> {None} \cup Request]
    BY <1>1, <2>1 DEF IInv, TypeOK, Request
  <2> QED
    BY <1>2, <1>6, <2>2 DEF IInv, TypeOK, Request
<1>8. RunningHaveMet'
  <2> SUFFICES ASSUME NEW i \in Jobs, NEW k \in Jobs, Running(i)', Running(k)',
                      job'[i].id # job'[k].id
               PROVE  {job'[i].id, job'[k].id} \in overlapped'
    BY DEF RunningHaveMet
  <2>1. CASE i # j /\ k # j
    BY <2>1, <1>3, <1>4 DEF IInv, RunningHaveMet, Running
  <2>2. CASE i = j /\ k # j
    BY <2>2, <1>3, <1>5 DEF Running
  <2>3. CASE k = j /\ i # j
    <3>1. {c, job[i].id} \in overlapped'
      BY <2>3, <1>3, <1>5 DEF Running
    <3>2. {c, job[i].id} = {job'[i].id, job'[k].id}
      BY <2>3, <1>3
    <3> QED
      BY <3>1, <3>2
  <2> QED
    BY <2>1, <2>2, <2>3
<1>9. WritesClashOnlyByOverlap'
  BY <1>2, <1>3, <1>4 DEF IInv, WritesClashOnlyByOverlap, Running, Exists
<1>10. CheckedKeysClashOnlyByOverlap'
  BY <1>2, <1>3, <1>4 DEF IInv, CheckedKeysClashOnlyByOverlap, At, Exists
<1>11. WritesKeyPairs'
  BY <1>3 DEF IInv, WritesKeyPairs, Running, Paired
<1>12. AddressSharedOnlyByOverlap' /\ KeySharedOnlyByOverlap' /\ KeyPairsMatch'
  BY <1>2, <1>4 DEF IInv, AddressSharedOnlyByOverlap, KeySharedOnlyByOverlap, KeyPairsMatch, Exists
<1> QED
  BY <1>7, <1>8, <1>9, <1>10, <1>11, <1>12 DEF IInv

LEMMA InitInvariant == Init => IInv
<1> SUFFICES ASSUME Init PROVE IInv
  OBVIOUS
<1>1. \A c \in Ids : ~Exists(c)
  BY DEF Init, Exists
<1>2. \A j \in Jobs : ~Running(j)
  BY DEF Init, Running
<1>3. ranges \subseteq Ranges
  BY DEF Init, ValidateAndFixSubnetRanges
<1>4. TypeOK
  BY <1>3 DEF Init, TypeOK
<1>5. RunningHaveMet /\ WritesClashOnlyByOverlap /\ WritesKeyPairs
  BY <1>2 DEF RunningHaveMet, WritesClashOnlyByOverlap, WritesKeyPairs
<1>6. CheckedKeysClashOnlyByOverlap
  BY <1>2 DEF CheckedKeysClashOnlyByOverlap, At, Running
<1>7. AddressSharedOnlyByOverlap /\ KeySharedOnlyByOverlap /\ KeyPairsMatch
  BY <1>1 DEF AddressSharedOnlyByOverlap, KeySharedOnlyByOverlap, KeyPairsMatch
<1> QED
  BY <1>4, <1>5, <1>6, <1>7 DEF IInv

(* A new client's addresses and key were free when they were checked.      *)
LEMMA NewClientKeeps ==
    ASSUME IInv, NEW j \in Jobs, NEW c \in Ids, NEW ips \in Requests,
           NEW k \in Keys \cup {Empty}, NEW listed \in BOOLEAN, NewClient(j, c, ips, k, listed)
    PROVE  IInv'
<1>1. issued' \subseteq Ids
  BY DEF NewClient, IInv, TypeOK
<1>2. ips \in SUBSET Addr
  BY ClientsAssumption
<1>3. listed => \A d \in Ids : Exists(d) => ips \cap clients[d].ips = {}
  <2>1. listed => \A d \in Ids : Exists(d) /\ d # None => ips \cap clients[d].ips = {}
    BY AllocatedCoversOthers DEF NewClient, IInv
  <2> QED
    BY <2>1, ClientsAssumption
<1>4. CASE k # Empty
  <2> DEFINE rec == [ips |-> ips, key |-> k, priv |-> None, enabled |-> TRUE]
  <2>1. Begin(j, c, "key", rec, listed)
    BY <1>4 DEF NewClient
  <2>2. rec \in Client /\ Paired(rec)
    BY <1>2 DEF Client, Paired
  <2>3. rec.ips = ips
    OBVIOUS
  <2> HIDE DEF rec
  <2> QED
    BY <1>1, <1>3, <2>1, <2>2, <2>3, BeginKeeps
<1>5. CASE k = Empty
  <2>1. PICK new \in UnusedKeys :
            Begin(j, c, "write", [ips |-> ips, key |-> new, priv |-> new, enabled |-> TRUE],
                  listed)
    BY <1>5 DEF NewClient
  <2> DEFINE rec == [ips |-> ips, key |-> new, priv |-> new, enabled |-> TRUE]
  <2>2. new \in Keys /\ \A d \in Ids : Exists(d) => clients[d].key # new
    BY DEF UnusedKeys
  <2>3. rec \in Client /\ Paired(rec)
    BY <1>2, <2>2 DEF Client, Paired
  <2>4. rec.ips = ips /\ rec.key = new
    OBVIOUS
  <2>5. Begin(j, c, "write", rec, listed)
    BY <2>1
  <2> HIDE DEF rec
  <2>6. \A d \in Ids : ~(Exists(d) /\ rec.key = clients[d].key)
    BY <2>2, <2>4
  <2> QED
    BY <1>1, <1>3, <2>3, <2>4, <2>5, <2>6, BeginKeeps
<1> QED
  BY <1>4, <1>5

(* An update keeps what its client already shared, and takes what no other *)
(* client has.                                                             *)
LEMMA UpdateClientKeeps ==
    ASSUME IInv, NEW j \in Jobs, NEW c \in Ids, NEW ips \in Requests,
           NEW k \in Keys \cup {Empty}, NEW on \in BOOLEAN, NEW listed \in BOOLEAN,
           UpdateClient(j, c, ips, k, on, listed)
    PROVE  IInv'
<1> DEFINE old == clients[c]
           rec == Updated(old, ips, k, on)
           pc == IF k \in {old.key, Empty} THEN "write" ELSE "key"
<1>1. issued' \subseteq Ids
  BY DEF UpdateClient, IInv, TypeOK
<1>2. old \in Client /\ Paired(old)
  BY DEF UpdateClient, IInv, TypeOK, Exists, KeyPairsMatch, Paired
<1>3. rec \in Client
  BY <1>2, ClientsAssumption DEF Updated, Client
<1>4. Paired(rec)
  BY <1>2 DEF Updated, Client, Paired
<1>5. rec.ips = ips /\ rec.key = k
  BY DEF Updated
<1>6. Begin(j, c, pc, rec, listed)
  BY DEF UpdateClient
<1>7. listed => \A d \in Ids : Exists(d) /\ d # c => ips \cap clients[d].ips = {}
  BY AllocatedCoversOthers DEF UpdateClient, IInv
<1>8. ASSUME pc = "write", NEW d \in Ids, Exists(d), d # c, k = clients[d].key
      PROVE  {c, d} \in overlapped \/ k = Empty
  BY <1>8 DEF IInv, KeySharedOnlyByOverlap, UpdateClient
<1>9. pc \in {"key", "write"}
  OBVIOUS
<1> HIDE DEF rec, pc
<1>10. listed => \A d \in Ids : Exists(d) /\ d # c => rec.ips \cap clients[d].ips = {}
  BY <1>5, <1>7
<1>11. pc = "write" =>
          \A d \in Ids : Exists(d) /\ d # c /\ rec.key = clients[d].key
              => {c, d} \in overlapped \/ rec.key = Empty
  BY <1>5, <1>8
<1> QED
  BY <1>1, <1>3, <1>4, <1>6, <1>9, <1>10, <1>11, BeginKeeps

(* A change of the status takes the record as it is, addresses that were   *)
(* not compared among them.                                                *)
LEMMA SetClientStatusKeeps ==
    ASSUME IInv, NEW j \in Jobs, NEW c \in Ids, NEW on \in BOOLEAN, SetClientStatus(j, c, on)
    PROVE  IInv'
<1> DEFINE rec == [clients[c] EXCEPT !.enabled = on]
<1>1. issued' \subseteq Ids
  BY DEF SetClientStatus, IInv, TypeOK
<1>2. clients[c] \in Client /\ Paired(clients[c])
  BY DEF SetClientStatus, IInv, TypeOK, Exists, KeyPairsMatch, Paired
<1>3. /\ rec \in Client /\ rec.ips = clients[c].ips
      /\ rec.key = clients[c].key /\ rec.priv = clients[c].priv
  BY <1>2 DEF Client
<1>4. Begin(j, c, "write", rec, c \notin unlisted) /\ Exists(c)
  BY DEF SetClientStatus
<1> HIDE DEF rec
<1>5. Paired(rec)
  BY <1>2, <1>3 DEF Paired
<1>6. c \notin unlisted =>
          \A d \in Ids : Exists(d) /\ d # c /\ rec.ips \cap clients[d].ips # {}
              => {c, d} \in overlapped \/ d \in unlisted
  BY <1>3, <1>4 DEF IInv, AddressSharedOnlyByOverlap
<1>7. \A d \in Ids : Exists(d) /\ d # c /\ rec.key = clients[d].key
          => {c, d} \in overlapped \/ rec.key = Empty
  BY <1>3, <1>4 DEF IInv, KeySharedOnlyByOverlap
<1>8. (c \notin unlisted) \in BOOLEAN
  OBVIOUS
<1> QED
  BY <1>1, <1>3, <1>4, <1>5, <1>6, <1>7, <1>8, BeginKeeps

(* A request ends, or only moves on because no client has its key.         *)
LEMMA CheckKeyKeeps ==
    ASSUME IInv, NEW j \in Jobs, CheckKey(j)
    PROVE  IInv'
<1>1. UNCHANGED <<clients, ifaces, ranges, issued, overlapped, unlisted>>
  BY DEF CheckKey
<1>2. \A i \in Jobs : i # j => job'[i] = job[i]
  BY DEF CheckKey, End, IInv, TypeOK
<1>3. CASE End(j)
  <2>1. job' = [job EXCEPT ![j] = None]
    BY <1>3 DEF End
  <2>2. TypeOK'
    BY <1>1, <2>1 DEF IInv, TypeOK
  <2>3. job'[j] = None
    BY <2>1 DEF IInv, TypeOK
  <2> QED
    BY <1>1, <1>2, <2>2, <2>3 DEF IInv, RunningHaveMet, WritesClashOnlyByOverlap, Running, Exists,
         CheckedKeysClashOnlyByOverlap, At, WritesKeyPairs, Paired,
         AddressSharedOnlyByOverlap, KeySharedOnlyByOverlap, KeyPairsMatch
<1>4. CASE ~DuplicateKey(job[j].rec.key) /\ job' = [job EXCEPT ![j].pc = "write"]
  <2>1. job' = [job EXCEPT ![j].pc = "write"]
    BY <1>4
  <2>2. job[j] \in Request
    BY DEF CheckKey, At, IInv, TypeOK, Request
  <2>3. /\ job'[j] \in Request /\ job'[j].id = job[j].id /\ job'[j].rec = job[j].rec
        /\ job'[j].listed = job[j].listed
    BY <2>1, <2>2 DEF IInv, TypeOK, Request
  <2>4. job' \in [Jobs -> {None} \cup Request]
    BY <2>1, <2>3 DEF IInv, TypeOK, Request
  <2>5. TypeOK'
    BY <1>1, <2>4 DEF IInv, TypeOK, Request
  <2>6. Running(j)
    BY DEF CheckKey, At, Running
  <2>7. \A i \in Jobs : Running(i)' => /\ Running(i)
                                       /\ job'[i].id = job[i].id /\ job'[i].rec = job[i].rec
                                       /\ job'[i].listed = job[i].listed
    BY <1>2, <2>3, <2>6 DEF Running
  <2>8. RunningHaveMet' /\ WritesClashOnlyByOverlap' /\ WritesKeyPairs'
    BY <1>1, <2>7 DEF IInv, RunningHaveMet, WritesClashOnlyByOverlap, WritesKeyPairs, Paired, Exists
  <2>9. CheckedKeysClashOnlyByOverlap'
    BY <1>1, <1>2, <1>4, <2>3 DEF IInv, CheckedKeysClashOnlyByOverlap, At, Exists, DuplicateKey
  <2> QED
    BY <1>1, <2>5, <2>8, <2>9 DEF IInv, Exists,
         AddressSharedOnlyByOverlap, KeySharedOnlyByOverlap, KeyPairsMatch
<1> QED
  BY <1>3, <1>4 DEF CheckKey

(* The record written becomes its client's; what the request was known not *)
(* to share before, the client does not share now.                         *)
LEMMA SaveClientKeeps ==
    ASSUME IInv, NEW j \in Jobs, SaveClient(j)
    PROVE  IInv'
<1> DEFINE c == job[j].id
           rec == job[j].rec
<1>1. /\ UNCHANGED <<ifaces, ranges, issued, overlapped>>
      /\ clients' = [clients EXCEPT ![c] = rec]
      /\ job' = [job EXCEPT ![j] = None]
      /\ unlisted' = IF job[j].listed THEN unlisted \ {c} ELSE unlisted \cup {c}
  BY DEF SaveClient, End
<1>2. Running(j) /\ At(j, "write")
  BY DEF SaveClient, At, Running
<1>3. c \in Ids /\ rec \in Client
  BY <1>2 DEF IInv, TypeOK, Running
<1>4. clients'[c] = rec /\ \A d \in Ids : d # c => clients'[d] = clients[d]
  BY <1>1, <1>3 DEF IInv, TypeOK
<1>5. \A i \in Jobs : Running(i)' => i # j /\ Running(i) /\ job'[i] = job[i]
  BY <1>1 DEF IInv, TypeOK, Running
<1>6. TypeOK'
  BY <1>1, <1>3 DEF IInv, TypeOK
<1> HIDE DEF c, rec
<1>7. \A d \in Ids : d # c => (Exists(d)' <=> Exists(d))
  BY <1>4 DEF Exists
<1>8. \A i \in Jobs : Running(i)' /\ job[i].id # c => {job[i].id, c} \in overlapped
  BY <1>2, <1>5 DEF IInv, RunningHaveMet, c
<1>9. RunningHaveMet' /\ WritesKeyPairs'
  BY <1>1, <1>5 DEF IInv, RunningHaveMet, WritesKeyPairs
<1>10. WritesClashOnlyByOverlap'
  <2> SUFFICES ASSUME NEW i \in Jobs, NEW d \in Ids, Running(i)', Exists(d)', d # job'[i].id,
                      job'[i].listed, job'[i].rec.ips \cap clients'[d].ips # {}
               PROVE  {job'[i].id, d} \in overlapped' \/ d \in unlisted'
    BY DEF WritesClashOnlyByOverlap
  <2>1. CASE d = c
    BY <2>1, <1>1, <1>5, <1>8
  <2>2. CASE d # c
    BY <2>2, <1>1, <1>4, <1>5, <1>7 DEF IInv, WritesClashOnlyByOverlap
  <2> QED
    BY <2>1, <2>2
<1>11. CheckedKeysClashOnlyByOverlap'
  <2> SUFFICES ASSUME NEW i \in Jobs, NEW d \in Ids, At(i, "write")', Exists(d)', d # job'[i].id,
                      job'[i].rec.key = clients'[d].key
               PROVE  {job'[i].id, d} \in overlapped' \/ job'[i].rec.key = Empty
    BY DEF CheckedKeysClashOnlyByOverlap
  <2>0. Running(i)' /\ job'[i] = job[i] /\ At(i, "write")
    BY <1>5 DEF At, Running
  <2>1. CASE d = c
    BY <2>0, <2>1, <1>1, <1>8
  <2>2. CASE d # c
    BY <2>0, <2>2, <1>1, <1>4, <1>7 DEF IInv, CheckedKeysClashOnlyByOverlap
  <2> QED
    BY <2>1, <2>2
<1>12. AddressSharedOnlyByOverlap'
  <2>1. \A d \in Ids : d # c /\ Exists(d) /\ rec.ips \cap clients[d].ips # {}
                       => {c, d} \in overlapped \/ d \in unlisted' \/ c \in unlisted'
    BY <1>1, <1>2 DEF IInv, WritesClashOnlyByOverlap, c, rec
  <2> SUFFICES ASSUME NEW d \in Ids, NEW e \in Ids, d # e, Exists(d)', Exists(e)',
                      clients'[d].ips \cap clients'[e].ips # {}
               PROVE  {d, e} \in overlapped' \/ d \in unlisted' \/ e \in unlisted'
    BY DEF AddressSharedOnlyByOverlap
  <2>2. CASE d = c
    BY <2>1, <2>2, <1>1, <1>4, <1>7
  <2>3. CASE e = c
    <3>1. rec.ips \cap clients[d].ips # {}
      BY <2>3, <1>4
    <3>2. {c, d} \in overlapped \/ d \in unlisted' \/ c \in unlisted'
      BY <2>1, <2>3, <3>1, <1>7
    <3>3. {c, d} = {d, e}
      BY <2>3
    <3> QED
      BY <2>3, <3>2, <3>3, <1>1
  <2>4. CASE d # c /\ e # c
    BY <2>4, <1>1, <1>4, <1>7 DEF IInv, AddressSharedOnlyByOverlap
  <2> QED
    BY <2>2, <2>3, <2>4
<1>13. KeySharedOnlyByOverlap'
  <2>1. \A d \in Ids : d # c /\ Exists(d) /\ rec.key = clients[d].key
                       => {c, d} \in overlapped \/ rec.key = Empty
    BY <1>2 DEF IInv, CheckedKeysClashOnlyByOverlap, c, rec
  <2> SUFFICES ASSUME NEW d \in Ids, NEW e \in Ids, d # e, Exists(d)', Exists(e)',
                      clients'[d].key = clients'[e].key
               PROVE  {d, e} \in overlapped' \/ clients'[d].key = Empty
    BY DEF KeySharedOnlyByOverlap
  <2>2. CASE d = c
    BY <2>1, <2>2, <1>1, <1>4, <1>7
  <2>3. CASE e = c
    <3>1. {c, d} = {d, e}
      BY <2>3
    <3> QED
      BY <2>1, <2>3, <3>1, <1>1, <1>4, <1>7
  <2>4. CASE d # c /\ e # c
    BY <2>4, <1>1, <1>4, <1>7 DEF IInv, KeySharedOnlyByOverlap
  <2> QED
    BY <2>2, <2>3, <2>4
<1>14. KeyPairsMatch'
  <2>1. Paired(rec)
    BY <1>2 DEF IInv, WritesKeyPairs, rec
  <2> QED
    BY <2>1, <1>4, <1>7 DEF IInv, KeyPairsMatch, Paired
<1> QED
  BY <1>6, <1>9, <1>10, <1>11, <1>12, <1>13, <1>14 DEF IInv

(* Steps that start no request, write no record and let no two requests    *)
(* meet.                                                                   *)
LEMMA FewerKeep ==
    ASSUME IInv, TypeOK', overlapped' = overlapped, unlisted' = unlisted,
           \A c \in Ids : Exists(c)' => Exists(c) /\ clients'[c] = clients[c],
           \A j \in Jobs : Running(j)' => Running(j) /\ job'[j] = job[j]
    PROVE  IInv'
<1>1. RunningHaveMet' /\ WritesClashOnlyByOverlap' /\ WritesKeyPairs'
  BY DEF IInv, RunningHaveMet, WritesClashOnlyByOverlap, WritesKeyPairs
<1>2. \A j \in Jobs : At(j, "write")' => At(j, "write") /\ job'[j] = job[j]
  BY DEF At, Running
<1>3. CheckedKeysClashOnlyByOverlap'
  BY <1>2 DEF IInv, CheckedKeysClashOnlyByOverlap
<1>4. AddressSharedOnlyByOverlap' /\ KeySharedOnlyByOverlap' /\ KeyPairsMatch'
  BY DEF IInv, AddressSharedOnlyByOverlap, KeySharedOnlyByOverlap, KeyPairsMatch
<1> QED
  BY <1>1, <1>3, <1>4 DEF IInv

LEMMA NextInvariant == IInv /\ [Next]_vars => IInv'
<1> SUFFICES ASSUME IInv, [Next]_vars PROVE IInv'
  OBVIOUS
<1>1. ASSUME NEW c \in Ids, RemoveClient(c) PROVE IInv'
  <2>1. UNCHANGED <<ifaces, ranges, issued, job, overlapped, unlisted>>
        /\ clients' = [clients EXCEPT ![c] = None]
    BY <1>1 DEF RemoveClient
  <2>2. TypeOK'
    BY <2>1 DEF IInv, TypeOK
  <2>3. \A d \in Ids : Exists(d)' => Exists(d) /\ clients'[d] = clients[d]
    BY <2>1 DEF IInv, TypeOK, Exists
  <2> QED
    BY <2>1, <2>2, <2>3, FewerKeep DEF Running
<1>2. ASSUME NEW s \in Servers, SaveServerInterface(s) PROVE IInv'
  <2>1. TypeOK'
    BY <1>2 DEF SaveServerInterface, IInv, TypeOK
  <2> QED
    BY <1>2, <2>1, FewerKeep DEF SaveServerInterface, Running, Exists
<1>3. CASE Restart
  <2>1. TypeOK'
    BY <1>3 DEF Restart, IInv, TypeOK, ValidateAndFixSubnetRanges
  <2>2. \A j \in Jobs : ~Running(j)'
    BY <1>3 DEF Restart, Running
  <2> QED
    BY <1>3, <2>1, <2>2, FewerKeep DEF Restart, Exists
<1>4. CASE UNCHANGED vars
  <2>1. TypeOK'
    BY <1>4 DEF vars, IInv, TypeOK
  <2> QED
    BY <1>4, <2>1, FewerKeep DEF vars, Running, Exists
<1>5. ASSUME NEW j \in Jobs, CheckKey(j) \/ SaveClient(j) PROVE IInv'
  BY <1>5, CheckKeyKeeps, SaveClientKeeps
<1>6. ASSUME NEW j \in Jobs, NEW c \in Ids, NEW ips \in Requests,
             NEW k \in Keys \cup {Empty}, NEW listed \in BOOLEAN,
             NewClient(j, c, ips, k, listed)
      PROVE  IInv'
  BY <1>6, NewClientKeeps
<1>7. ASSUME NEW j \in Jobs, NEW c \in Ids, NEW ips \in Requests,
             NEW k \in Keys \cup {Empty}, NEW on \in BOOLEAN, NEW listed \in BOOLEAN,
             UpdateClient(j, c, ips, k, on, listed)
      PROVE  IInv'
  BY <1>7, UpdateClientKeeps
<1>8. ASSUME NEW j \in Jobs, NEW c \in Ids, NEW on \in BOOLEAN, SetClientStatus(j, c, on)
      PROVE  IInv'
  BY <1>8, SetClientStatusKeeps
<1> DEFINE Save(j) ==
      \E c \in Ids :
        \/ \E ips \in Requests, k \in Keys \cup {Empty}, listed \in BOOLEAN :
              NewClient(j, c, ips, k, listed)
        \/ \E ips \in Requests, k \in Keys \cup {Empty}, on, listed \in BOOLEAN :
              UpdateClient(j, c, ips, k, on, listed)
        \/ \E on \in BOOLEAN : SetClientStatus(j, c, on)
<1>9. ASSUME NEW j \in Jobs, Save(j) PROVE IInv'
  BY <1>6, <1>7, <1>8, <1>9
<1>10. Next => \/ \E j \in Jobs : CheckKey(j) \/ SaveClient(j) \/ Save(j)
               \/ \E c \in Ids : RemoveClient(c)
               \/ \E s \in Servers : SaveServerInterface(s)
               \/ Restart
  BY Zenon DEF Next
<1> HIDE DEF Save
<1> QED
  BY <1>1, <1>2, <1>3, <1>4, <1>5, <1>9, <1>10

(* The inductive invariant holds for any clients and requests.             *)
THEOREM Inductive == Spec => []IInv
BY InitInvariant, NextInvariant, PTL DEF Spec

(* NewClient, UpdateClient, SetClientStatus: records keep their shape.     *)
THEOREM TypeCorrect == Spec => []TypeOK
<1>1. IInv => TypeOK
  BY DEF IInv
<1> QED
  BY Inductive, <1>1, PTL

(* ValidateIPAllocation, made before a save and without a lock, keeps two  *)
(* clients from one address unless their requests met, or one of them was  *)
(* given its addresses when those of the others could not be read.         *)
THEOREM AddressesApart == Spec => []AddressSharedOnlyByOverlap
<1>1. IInv => AddressSharedOnlyByOverlap
  BY DEF IInv
<1> QED
  BY Inductive, <1>1, PTL

(* The comparison of public keys before a save does the same for keys.     *)
THEOREM KeysApart == Spec => []KeySharedOnlyByOverlap
<1>1. IInv => KeySharedOnlyByOverlap
  BY DEF IInv
<1> QED
  BY Inductive, <1>1, PTL

(* UpdateClient voids the private key of a public key it replaces, however *)
(* its requests overlap.                                                   *)
THEOREM PrivateKeysMatch == Spec => []KeyPairsMatch
<1>1. IInv => KeyPairsMatch
  BY DEF IInv
<1> QED
  BY Inductive, <1>1, PTL

-----------------------------------------------------------------------------
(* Addresses that are suggested.                                           *)

(* A set of numbers that is not empty has a least one.                     *)
LEMMA LeastNumber ==
    ASSUME NEW S \in SUBSET Nat, S # {}
    PROVE  \E x \in S : \A y \in S : x <= y
<1>1. PICK x \in S : \A y \in S : ~(<<y, x>> \in OpToRel(<, Nat))
  BY NatLessThanWellFounded, WFMin
<1>2. \A y \in S : ~(y < x)
  BY <1>1 DEF OpToRel
<1> QED
  BY <1>2

(* f doubles from 1 up to the place m.                                     *)
Doubles(f, m) ==
    /\ f \in [0 .. m -> Nat \ {0}]
    /\ f[0] = 1
    /\ \A n \in 1 .. m : f[n] = 2 * f[n - 1]

LEMMA DoublesExist == \E f : Doubles(f, Width)
<1> DEFINE Bad == {k \in 0 .. Width : ~ \E f : Doubles(f, k)}
<1>1. SUFFICES ASSUME Bad # {} PROVE FALSE
  <2>1. Width \in 0 .. Width
    BY WidthAssumption
  <2> QED
    BY <2>1
<1>2. Bad \in SUBSET Nat
  BY WidthAssumption
<1>3. PICK k \in Bad : \A j \in Bad : k <= j
  <2> HIDE DEF Bad
  <2> QED
    BY <1>1, <1>2, LeastNumber
<1>4. k # 0
  <2>1. Doubles([n \in 0 .. 0 |-> 1], 0)
    BY DEF Doubles
  <2> QED
    BY <1>3, <2>1
<1>5. k - 1 \in 0 .. Width /\ k \in 1 .. Width /\ ~(k <= k - 1)
  BY <1>3, <1>4, WidthAssumption
<1>6. PICK f : Doubles(f, k - 1)
  BY <1>3, <1>5
<1> DEFINE g == [n \in 0 .. k |-> IF n = k THEN 2 * f[k - 1] ELSE f[n]]
<1>7. \A n \in 0 .. k : n # k => n \in 0 .. (k - 1)
  BY <1>5, WidthAssumption
<1>8. f[k - 1] \in Nat \ {0}
  BY <1>5, <1>6, WidthAssumption DEF Doubles
<1>9. g \in [0 .. k -> Nat \ {0}]
  BY <1>6, <1>7, <1>8 DEF Doubles
<1>10. g[0] = 1
  BY <1>5, <1>6, WidthAssumption DEF Doubles
<1>11. \A n \in 1 .. k : g[n] = 2 * g[n - 1]
  <2> SUFFICES ASSUME NEW n \in 1 .. k PROVE g[n] = 2 * g[n - 1]
    OBVIOUS
  <2>1. n \in 0 .. k /\ n - 1 \in 0 .. k /\ n - 1 # k
    BY <1>5, WidthAssumption
  <2>2. g[n - 1] = f[n - 1]
    BY <2>1
  <2>3. CASE n = k
    BY <2>1, <2>2, <2>3
  <2>4. CASE n # k
    <3>1. n \in 1 .. (k - 1)
      BY <2>4, <1>5, WidthAssumption
    <3> QED
      BY <1>6, <2>1, <2>2, <2>4, <3>1 DEF Doubles
  <2> QED
    BY <2>3, <2>4
<1>12. Doubles(g, k)
  BY <1>9, <1>10, <1>11 DEF Doubles
<1> QED
  BY <1>3, <1>12

LEMMA Pow2Doubles == Doubles(Pow2, Width)
<1> DEFINE Defines(f) == f = [n \in 0 .. Width |-> IF n = 0 THEN 1 ELSE 2 * f[n - 1]]
<1>1. PICK g : Doubles(g, Width)
  BY DoublesExist
<1>2. Defines(g)
  <2>1. \A n \in 0 .. Width : n # 0 => n \in 1 .. Width
    BY WidthAssumption
  <2>2. \A n \in 0 .. Width : g[n] = IF n = 0 THEN 1 ELSE 2 * g[n - 1]
    BY <1>1, <2>1 DEF Doubles
  <2> QED
    BY <1>1, <2>2 DEF Doubles
<1> DEFINE f == CHOOSE h : Defines(h)
<1>3. Defines(f)
  BY <1>2
<1>4. Pow2 = f
  BY DEF Pow2
<1> HIDE DEF f
<1>6. \A n \in 0 .. Width : f[n] = IF n = 0 THEN 1 ELSE 2 * f[n - 1]
  BY <1>3
<1> DEFINE Bad == {n \in 0 .. Width : f[n] # g[n]}
<1>7. Bad = {}
  <2> SUFFICES ASSUME Bad # {} PROVE FALSE
    OBVIOUS
  <2>1. Bad \in SUBSET Nat
    BY WidthAssumption
  <2>2. PICK k \in Bad : \A j \in Bad : k <= j
    <3> HIDE DEF Bad
    <3> QED
      BY <2>1, LeastNumber
  <2>3. k # 0
    BY <2>2, <1>1, <1>6, WidthAssumption DEF Doubles
  <2>4. k - 1 \in 0 .. Width /\ k \in 1 .. Width /\ ~(k <= k - 1)
    BY <2>2, <2>3, WidthAssumption
  <2>5. f[k - 1] = g[k - 1]
    BY <2>2, <2>4
  <2> QED
    BY <1>1, <1>6, <2>2, <2>3, <2>4, <2>5 DEF Doubles
<1>8. \A n \in 0 .. Width : f[n] = g[n]
  BY <1>7
<1>9. \A n \in 0 .. Width : (IF n = 0 THEN 1 ELSE 2 * f[n - 1]) \in Nat \ {0}
  BY <1>1, <1>6, <1>8 DEF Doubles
<1>10. f \in [0 .. Width -> Nat \ {0}]
  BY <1>3, <1>9
<1>11. f[0] = 1 /\ \A n \in 1 .. Width : f[n] = 2 * f[n - 1]
  BY <1>6, WidthAssumption
<1> QED
  BY <1>4, <1>10, <1>11 DEF Doubles

(* A smaller power of two divides a larger one.                            *)
LEMMA Pow2Divides ==
    ASSUME NEW m \in 0 .. Width, NEW n \in 0 .. Width, m <= n
    PROVE  \E k \in Nat \ {0} : Pow2[n] = k * Pow2[m]
<1> DEFINE Bad == {i \in 0 .. Width : m <= i /\ ~ \E k \in Nat \ {0} : Pow2[i] = k * Pow2[m]}
<1>1. SUFFICES ASSUME Bad # {} PROVE FALSE
  OBVIOUS
<1>2. Bad \in SUBSET Nat
  BY WidthAssumption
<1>3. PICK i \in Bad : \A j \in Bad : i <= j
  <2> HIDE DEF Bad
  <2> QED
    BY <1>1, <1>2, LeastNumber
<1>4. Pow2[m] \in Nat
  BY Pow2Doubles DEF Doubles
<1>5. i # m
  <2>1. Pow2[m] = 1 * Pow2[m]
    BY <1>4
  <2> QED
    BY <1>3, <2>1
<1>6. i - 1 \in 0 .. Width /\ i \in 1 .. Width /\ m <= i - 1 /\ ~(i <= i - 1)
  BY <1>3, <1>5, WidthAssumption
<1>7. PICK k \in Nat \ {0} : Pow2[i - 1] = k * Pow2[m]
  BY <1>3, <1>6
<1>8. Pow2[i] = 2 * (k * Pow2[m])
  BY <1>6, <1>7, Pow2Doubles DEF Doubles
<1>9. 2 * (k * Pow2[m]) = (2 * k) * Pow2[m] /\ 2 * k \in Nat \ {0}
  BY <1>4
<1> QED
  BY <1>3, <1>8, <1>9

(* A network starts at a multiple of its size.                             *)
LEMMA NetworkAligned ==
    ASSUME NEW c \in CIDR
    PROVE  /\ Size(c) \in Nat \ {0} /\ Network(c) \in Nat /\ GetBroadcastIP(c) \in Nat
           /\ \E q \in Nat : Network(c) = q * Size(c)
<1>1. c.ip \in Nat /\ c.len \in 0 .. Width
  <2>1. c.ip \in 0 .. (Pow2[Width] - 1)
    BY DEF CIDR, Addr
  <2> QED
    BY <2>1 DEF CIDR
<1>2. Width - c.len \in 0 .. Width
  BY <1>1, WidthAssumption
<1>3. Size(c) \in Nat \ {0}
  BY <1>1, <1>2, Pow2Doubles DEF Size, Sizes, Doubles
<1> DEFINE s == Size(c)
<1> HIDE DEF s
<1>4. s \in Nat /\ s > 0 /\ c.ip \in Nat
  BY <1>1, <1>3 DEF s
<1>5. PICK q \in Nat : q = c.ip \div s
  BY <1>4
<1>6. c.ip = s * q + (c.ip % s) /\ c.ip % s \in 0 .. (s - 1)
  BY <1>4, <1>5
<1>7. c.ip - (c.ip % s) = q * s
  BY <1>4, <1>5, <1>6
<1>8. q * s \in Nat
  BY <1>4
<1>9. Network(c) = q * s
  BY <1>7 DEF Network, s
<1>10. Network(c) + s - 1 \in Nat
  BY <1>4, <1>8, <1>9
<1> QED
  BY <1>3, <1>8, <1>9, <1>10 DEF s, GetBroadcastIP

(* The addresses of a network that lies in another one do so too: it may   *)
(* not reach over its end.                                                 *)
LEMMA AddressesInside ==
    ASSUME NEW s \in CIDR, NEW c \in CIDR, ContainsCIDR(s, c), NEW a \in Nat, Contains(c, a)
    PROVE  Contains(s, a)
<1>1. s.len \in 0 .. Width /\ c.len \in 0 .. Width /\ s.len <= c.len
  BY DEF CIDR, ContainsCIDR
<1>2. Width - s.len \in 0 .. Width /\ Width - c.len \in 0 .. Width /\ Width - c.len <= Width - s.len
  BY <1>1, WidthAssumption
<1>3. PICK k \in Nat \ {0} : Pow2[Width - s.len] = k * Pow2[Width - c.len]
  BY <1>2, Pow2Divides
<1>4. Size(s) = k * Size(c)
  BY <1>1, <1>3 DEF Size, Sizes
<1>5. PICK q \in Nat : Network(s) = q * Size(s)
  BY NetworkAligned
<1>6. PICK r \in Nat : Network(c) = r * Size(c)
  BY NetworkAligned
<1>7. PICK z \in Nat \ {0} : z = Size(c)
  BY NetworkAligned
<1>8. PICK e \in Nat : e = q * k + k
  BY <1>3, <1>5
<1>9. Network(s) + Size(s) = e * z
  <2>1. q * (k * z) + k * z = (q * k + k) * z
    BY <1>3, <1>5, <1>7
  <2> QED
    BY <1>4, <1>5, <1>7, <1>8, <2>1
<1>10. Network(s) <= Network(c) /\ Network(c) <= Network(s) + Size(s) - 1
  BY DEF ContainsCIDR, Contains, GetBroadcastIP
<1>11. r * z < e * z
  BY <1>6, <1>7, <1>9, <1>10, NetworkAligned
<1>12. r < e
  BY <1>7, <1>11
<1>13. r * z + z <= e * z
  BY <1>7, <1>12
<1>14. Network(c) <= a /\ a <= r * z + z - 1
  BY <1>6, <1>7 DEF Contains, GetBroadcastIP
<1>15. Network(s) <= a /\ a <= Network(s) + Size(s) - 1
  <2>1. r * z \in Nat /\ e * z \in Nat
    BY <1>7
  <2> QED
    BY <1>7, <1>9, <1>10, <1>13, <1>14, <2>1, NetworkAligned
<1> QED
  BY <1>15 DEF Contains, GetBroadcastIP

(* What the search returns, if it does not fail.                           *)
LEMMA FirstFreeAddress ==
    ASSUME NEW c \in CIDR, NEW taken, NEW nets
    PROVE  LET free == (Network(c) .. GetBroadcastIP(c))
                          \ (taken \cup GetBroadcastAndNetworkAddrsLookup(nets))
               found == GetAvailableIP(c, taken, nets)
           IN  IF found = NoAddr THEN free = {} ELSE found \in free
<1> DEFINE free == (Network(c) .. GetBroadcastIP(c))
                      \ (taken \cup GetBroadcastAndNetworkAddrsLookup(nets))
           Least(a) == \A b \in free : a <= b
<1>1. GetAvailableIP(c, taken, nets) = IF free = {} THEN NoAddr ELSE CHOOSE a \in free : Least(a)
  BY DEF GetAvailableIP
<1>2. free \in SUBSET Nat
  BY NetworkAligned
<1>3. ASSUME free # {} PROVE GetAvailableIP(c, taken, nets) \in free
  <2>1. \E a \in free : Least(a)
    <3> HIDE DEF free
    <3> QED
      BY <1>2, <1>3, LeastNumber
  <2>2. (CHOOSE a \in free : Least(a)) \in free
    <3> HIDE DEF free, Least
    <3> QED
      BY <2>1
  <2> QED
    BY <1>1, <1>3, <2>2
<1> HIDE DEF free
<1>4. free # {} => GetAvailableIP(c, taken, nets) # NoAddr
  BY <1>2, <1>3, WidthAssumption
<1>5. IF GetAvailableIP(c, taken, nets) = NoAddr THEN free = {}
                                                 ELSE GetAvailableIP(c, taken, nets) \in free
  BY <1>1, <1>3, <1>4
<1> QED
  BY <1>5 DEF free

(* SuggestIPAllocation offers an address that NewClient accepts, in a      *)
(* network of the server or a range that lies in one, and says that there  *)
(* is none only when there is none, for any networks, ranges and clients.  *)
THEOREM SuggestionsHold == Spec => []SuggestionsAccepted
<1>1. TypeOK => SuggestionsAccepted
  <2> DEFINE reserved == GetBroadcastAndNetworkAddrsLookup(ifaces)
  <2> SUFFICES ASSUME TypeOK,
                      NEW c \in ifaces \cup ValidateAndFixSubnetRanges(ranges, ifaces),
                      NEW taken, taken = GetAllocatedIPs(None),
                      NEW a, a = GetAvailableIP(c, taken, ifaces)
               PROVE  IF a = NoAddr
                      THEN \A h \in Addr : Contains(c, h) => h \in taken \cup reserved
                      ELSE ValidateIPAllocation(ifaces, taken, {a}) /\ a \notin reserved
    BY DEF SuggestionsAccepted
  <2>1. ifaces \subseteq CIDR /\ ranges \subseteq CIDR
    BY ClientsAssumption DEF TypeOK
  <2>2. c \in CIDR
    BY <2>1 DEF ValidateAndFixSubnetRanges
  <2>3. \E s \in ifaces : s = c \/ ContainsCIDR(s, c)
    BY DEF ValidateAndFixSubnetRanges
  <2> DEFINE free == (Network(c) .. GetBroadcastIP(c)) \ (taken \cup reserved)
  <2>4. IF a = NoAddr THEN free = {} ELSE a \in free
    BY <2>2, FirstFreeAddress
  <2>5. Network(c) \in Nat /\ GetBroadcastIP(c) \in Nat
    BY <2>2, NetworkAligned
  <2>6. ASSUME a = NoAddr, NEW h \in Addr, Contains(c, h)
        PROVE  h \in taken \cup reserved
    <3>1. h \in Nat
      BY Pow2Doubles, WidthAssumption DEF Addr, Doubles
    <3>2. h \in Network(c) .. GetBroadcastIP(c)
      BY <2>5, <2>6, <3>1 DEF Contains
    <3> QED
      BY <2>4, <2>6, <3>2
  <2>7. ASSUME a # NoAddr
        PROVE  ValidateIPAllocation(ifaces, taken, {a}) /\ a \notin reserved
    <3>1. a \in free
      BY <2>4, <2>7
    <3>2. a \in Nat /\ Contains(c, a)
      BY <2>5, <3>1 DEF Contains
    <3>3. \E s \in ifaces : Contains(s, a)
      BY <2>1, <2>2, <2>3, <3>2, AddressesInside
    <3>4. ValidateIPAllocation(ifaces, taken, {a})
      BY <3>1, <3>3 DEF ValidateIPAllocation
    <3> QED
      BY <3>1, <3>4
  <2> QED
    BY <2>6, <2>7
<1> QED
  BY TypeCorrect, <1>1, PTL
=============================================================================
