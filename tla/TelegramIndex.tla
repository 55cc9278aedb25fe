--------------------------- MODULE TelegramIndex ---------------------------
(***************************************************************************)
(* Configurations over Telegram: the clients' files, the index from a      *)
(* Telegram user to the ids of its clients, and the delivery by which the  *)
(* bot answers a user with all of that user's configurations.              *)
(*                                                                         *)
(* The delivery takes the user's slice of ids under the lock and then      *)
(* reads its cells one by one without it, while requests filter and extend *)
(* the same cells in place.  A slice is therefore modelled as a backing    *)
(* array ("cells") and a length.                                           *)
(* When a delivery is granted is the subject of FloodWait.                 *)
(* Not covered: a client record read and saved meanwhile (Clients has      *)
(* those races), ids that are not numbers (refused by NewClient and        *)
(* UpdateClient), the unused AddTgToClientID.                              *)
(***************************************************************************)
EXTENDS Naturals, Sequences, FiniteSets, SequencesExt

CONSTANTS
    TgUsers,      \* Telegram users
    ClientIDs,    \* client ids
    Records,      \* what a client's file may say: its user, if any, and whether it is enabled
    Requests,     \* administrators' requests under way at a time
    None

(* An array of ids; the cells behind the length may be empty.              *)
Array == Seq(ClientIDs \cup {None})

Slice == [cells : Array, len : Nat]

Delivery == [user : TgUsers, i : Nat, len : Nat, cells : Array \cup {None},
             id : ClientIDs \cup {None}, owed : SUBSET ClientIDs,
             touched : SUBSET ClientIDs, astray : SUBSET ClientIDs]

ASSUME TelegramAssumption ==
    /\ IsFiniteSet(ClientIDs)
    /\ Records \subseteq [tg : TgUsers \cup {None}, enabled : BOOLEAN]
    /\ None \notin TgUsers \cup ClientIDs \cup Records \cup Array \cup Slice \cup Delivery

VARIABLES
    file,         \* the record of each client on disk, None when there is none
    index,        \* TgUseridToClientID
    request,      \* what each request still has to do
    delivery,     \* the delivery under way, None when there is none
    crossed,      \* history: clients that two requests changed at once
    unsaved       \* history: clients whose last write or removal failed

vars == <<file, index, request, delivery, crossed, unsaved>>

-----------------------------------------------------------------------------
(* Slices.                                                                 *)

Ids(s) == IF s = None THEN << >> ELSE SubSeq(s.cells, 1, s.len)

(* The ids other than c, those kept of the first n in kept[n], move to the *)
(* front of the same array; what was behind the new length stays there.    *)
filterStringSlice(s, c) ==
    LET kept[n \in 0 .. s.len] ==
            IF n = 0 THEN << >>
            ELSE IF s.cells[n] = c THEN kept[n - 1] ELSE Append(kept[n - 1], s.cells[n])
        all == kept[s.len]
    IN  [cells |-> all \o SubSeq(s.cells, Len(all) + 1, Len(s.cells)), len |-> Len(all)]

HasRoom(s) == s # None /\ s.len < Len(s.cells)

(* append: in place when there is room, otherwise in an array of twice the *)
(* size.                                                                   *)
Appended(s, c) ==
    IF s = None THEN [cells |-> <<c>>, len |-> 1]
    ELSE IF HasRoom(s)
         THEN [cells |-> [s.cells EXCEPT ![s.len + 1] = c], len |-> s.len + 1]
         ELSE [cells |-> s.cells \o [i \in DOMAIN s.cells |-> IF i = 1 THEN c ELSE None],
               len   |-> s.len + 1]

Filtered(idx, c) ==
    [u \in TgUsers |-> IF idx[u] = None THEN None ELSE filterStringSlice(idx[u], c)]

\* Mutant: the key of a user without clients stays.
EmptyKept(filtered) == filtered

(* RemoveTgToClientID: a user left without clients loses its key.          *)
WithoutEmpty(filtered) ==
    [u \in TgUsers |-> IF filtered[u] = None \/ filtered[u].len = 0 THEN None ELSE filtered[u]]

\* Mutant: the client is added without leaving its former user.
AttachedOnly(idx, c, u) ==
    IF u = None THEN idx
    ELSE [idx EXCEPT ![u] = Appended(WithoutEmpty(Filtered(idx, c))[u], c)]

(* UpdateTgToClientID, or RemoveTgToClientID when u is None.               *)
Reindexed(idx, c, u) ==
    LET left == WithoutEmpty(Filtered(idx, c))
    IN  IF u = None THEN left ELSE [left EXCEPT ![u] = Appended(@, c)]

-----------------------------------------------------------------------------
(* Who is where.                                                           *)

\* Mutant: a disabled client keeps its place in the index.
OwnerAnyway(rec) == rec.tg

(* Only an enabled client is in the index.                                 *)
Owner(rec) == IF rec.enabled THEN rec.tg ELSE None

Owned(u) == {c \in ClientIDs : file[c] # None /\ file[c].enabled /\ file[c].tg = u}

Indexed(u) == ToSet(Ids(index[u]))

Done == [op |-> "none"]

Do(op, c, u) == [op |-> op, client |-> c, tg |-> u]

Tasks == {Done} \cup {Do(op, c, u) : op \in {"index", "unlink"}, c \in ClientIDs,
                                    u \in TgUsers \cup {None}}

(* Clients a request is changing.                                          *)
Changing == {request[r].client : r \in {q \in Requests : request[q] # Done}}

Begin(c) == crossed' = IF c \in Changing THEN crossed \cup {c} ELSE crossed

-----------------------------------------------------------------------------
(* The delivery's view of an index change.                                 *)

Cells == IF delivery.cells = None THEN index[delivery.user].cells ELSE delivery.cells

(* The array the delivery goes through is the index's until the key is     *)
(* deleted or append finds no room.                                        *)
SameArray(c, u) ==
    LET s == filterStringSlice(index[delivery.user], c)
    IN  s.len > 0 /\ (u = delivery.user => HasRoom(s))

(* History: client c stands at a position the delivery has already read.   *)
AlreadyPassed(c) ==
    \E p \in 1 .. index[delivery.user].len :
        /\ p < delivery.i \/ (p = delivery.i /\ delivery.id # None)
        /\ index[delivery.user].cells[p] = c

(* A change of the index may leave the delivery with an array of its own;  *)
(* and once ids it has passed move, nothing more is owed.                  *)
Carried(c, u) ==
    IF delivery = None \/ delivery.cells # None THEN delivery
    ELSE [delivery EXCEPT
            !.cells = IF SameArray(c, u) THEN None
                      ELSE filterStringSlice(index[delivery.user], c).cells,
            !.owed = IF AlreadyPassed(c) THEN {} ELSE @]

(* A change of client c has begun: its configuration is not owed any more. *)
Touched(d, c) ==
    IF d = None THEN d
    ELSE [d EXCEPT !.owed = @ \ {c}, !.touched = @ \cup {c}]

-----------------------------------------------------------------------------
(* Administrators' requests.                                               *)

(* NewClient, UpdateClient and SetClientStatus: the file is written.  The  *)
(* record need not be on disk any more: an edit that has loaded it writes  *)
(* it again.                                                               *)
WriteFile(r, c, rec) ==
    /\ request[r] = Done
    /\ \/ /\ file' = [file EXCEPT ![c] = rec]
          /\ request' = [request EXCEPT ![r] = Do("index", c, Owner(rec))]
          /\ unsaved' = unsaved \ {c}
       \/ /\ request' = [request EXCEPT ![r] = Do("index", c, None)]
          /\ unsaved' = unsaved \cup {c}
          /\ UNCHANGED file
    /\ Begin(c)
    /\ delivery' = Touched(delivery, c)
    /\ UNCHANGED index

(* The rest of SaveClient, under the index's lock.                         *)
UpdateIndex(r) ==
    /\ request[r].op = "index"
    /\ index' = Reindexed(index, request[r].client, request[r].tg)
    /\ delivery' = Carried(request[r].client, request[r].tg)
    /\ request' = [request EXCEPT ![r] = Done]
    /\ UNCHANGED <<file, crossed, unsaved>>

(* DeleteClient leaves the index first ...                                 *)
RemoveClient(r, c) ==
    /\ request[r] = Done
    /\ index' = Reindexed(index, c, None)
    /\ delivery' = Touched(Carried(c, None), c)
    /\ request' = [request EXCEPT ![r] = Do("unlink", c, None)]
    /\ Begin(c)
    /\ UNCHANGED <<file, unsaved>>

(* ... and then removes the file, which may fail.                          *)
Unlink(r) ==
    /\ request[r].op = "unlink"
    /\ \/ /\ file' = [file EXCEPT ![request[r].client] = None]
          /\ unsaved' = unsaved \ {request[r].client}
       \/ /\ unsaved' = unsaved \cup {request[r].client}
          /\ UNCHANGED file
    /\ request' = [request EXCEPT ![r] = Done]
    /\ UNCHANGED <<index, delivery, crossed>>

-----------------------------------------------------------------------------
(* SendRequestedConfigsToTelegram, on the bot's goroutine: one delivery at *)
(* a time.                                                                 *)

(* The slice is taken under the lock.  owed is a history: the clients that *)
(* are the user's on disk and that nothing is changing.                    *)
Start(u) ==
    /\ delivery = None
    /\ index[u] # None
    /\ delivery' = [user    |-> u,
                    i       |-> 1,
                    len     |-> index[u].len,
                    cells   |-> None,
                    id      |-> None,
                    owed    |-> Owned(u) \ (crossed \cup unsaved \cup Changing),
                    touched |-> Changing,
                    astray  |-> {}]
    /\ UNCHANGED <<file, index, request, crossed, unsaved>>

Delivering == delivery # None

ReadCell ==
    /\ Delivering /\ delivery.id = None /\ delivery.i <= delivery.len
    /\ delivery' = [delivery EXCEPT !.id = Cells[delivery.i]]
    /\ UNCHANGED <<file, index, request, crossed, unsaved>>

\* Mutant: a failure ends the delivery.
FailureEnds(sent) == IF sent THEN delivery.i + 1 ELSE delivery.len + 1

(* A failure is listed and the delivery goes on.                           *)
Following(sent) == delivery.i + 1

(* The client is read and its configuration goes to the user it names now, *)
(* or its name to the list of failures: either settles what is owed.       *)
(* astray is a history: ids that were not the user's, or disabled.         *)
SendClient ==
    /\ Delivering /\ delivery.id # None
    /\ \E sent \in BOOLEAN :
        /\ sent => file[delivery.id] # None
        /\ delivery' = [delivery EXCEPT
                          !.i = Following(sent),
                          !.id = None,
                          !.owed = @ \ {delivery.id},
                          !.astray = IF sent /\ delivery.id \notin Owned(delivery.user)
                                     THEN @ \cup {delivery.id} ELSE @]
    /\ UNCHANGED <<file, index, request, crossed, unsaved>>

AtEnd == Delivering /\ delivery.id = None /\ delivery.i > delivery.len

Finish ==
    /\ AtEnd
    /\ delivery' = None
    /\ UNCHANGED <<file, index, request, crossed, unsaved>>

-----------------------------------------------------------------------------
(* JsonDB.Init builds the index from the files, in the order of their      *)
(* names.                                                                  *)

Rebuilt(order) ==
    LET built[n \in 0 .. Len(order)] ==
            IF n = 0 THEN [u \in TgUsers |-> None]
            ELSE LET c == order[n]
                 IN  IF file[c] = None \/ Owner(file[c]) = None THEN built[n - 1]
                     ELSE Reindexed(built[n - 1], c, Owner(file[c]))
    IN  built[Len(order)]

Init ==
    /\ file \in [ClientIDs -> {None} \cup Records]
    /\ \E order \in SetToSeqs(ClientIDs) : index = Rebuilt(order)
    /\ request = [r \in Requests |-> Done]
    /\ delivery = None
    /\ crossed = {} /\ unsaved = {}

Restart ==
    /\ \E order \in SetToSeqs(ClientIDs) : index' = Rebuilt(order)
    /\ request' = [r \in Requests |-> Done]
    /\ delivery' = None
    /\ crossed' = {} /\ unsaved' = {}
    /\ UNCHANGED file

Next ==
    \/ \E r \in Requests, c \in ClientIDs, rec \in Records : WriteFile(r, c, rec)
    \/ \E r \in Requests : UpdateIndex(r) \/ Unlink(r)
    \/ \E r \in Requests, c \in ClientIDs : RemoveClient(r, c)
    \/ \E u \in TgUsers : Start(u)
    \/ ReadCell \/ SendClient \/ Finish
    \/ Restart

Spec == Init /\ [][Next]_vars

-----------------------------------------------------------------------------
(* Properties.                                                             *)

(* Types; no key without ids, and no id twice in a slice.                  *)
TypeOK ==
    /\ file \in [ClientIDs -> {None} \cup Records]
    /\ index \in [TgUsers -> Slice \cup {None}]
    /\ \A u \in TgUsers :
        index[u] # None => /\ index[u].len \in 1 .. Len(index[u].cells)
                           /\ Ids(index[u]) \in Seq(ClientIDs)
                           /\ IsInjective(Ids(index[u]))
    /\ request \in [Requests -> Tasks]
    /\ delivery \in Delivery \cup {None}
    /\ crossed \subseteq ClientIDs /\ unsaved \subseteq ClientIDs

(* The index is the store's: outside a change of a client, its id is with  *)
(* the user its file names, if it is enabled, and with nobody else.  Two   *)
(* changes of the client at once may leave them apart until the next start *)
(* (the one that wrote last may update the index first), and a failed      *)
(* write or removal takes the client out of the index.                     *)
IndexMatchesStore ==
    \A c \in ClientIDs \ (crossed \cup Changing), u \in TgUsers :
        /\ c \in Indexed(u) => c \in Owned(u)
        /\ c \in Owned(u) => c \in Indexed(u) \/ c \in unsaved

(* Every client that was the user's when the delivery began, and that no   *)
(* request has changed since, has been sent or is listed as failed at the  *)
(* end, unless a client the delivery had already passed left its place     *)
(* meanwhile: then the ids behind it have moved and one may be skipped.    *)
DeliveryComplete == AtEnd => delivery.owed = {}

(* A delivery reaches only enabled clients of the user who asked, except   *)
(* those that a request has changed during it or that two requests changed *)
(* at once before: a disabled client, or one given to another user, is not *)
(* sent on the former user's word.                                         *)
OnlyOwnClients ==
    Delivering => delivery.astray \subseteq delivery.touched \cup crossed
=============================================================================
