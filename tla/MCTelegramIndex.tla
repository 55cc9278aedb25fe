-------------------------- MODULE MCTelegramIndex --------------------------
(* A small instance of TelegramIndex.  Users, clients and requests have    *)
(* the same steps.                                                         *)
EXTENDS TelegramIndex, TLC

Symmetry == Permutations(TgUsers) \cup Permutations(ClientIDs) \cup Permutations(Requests)

(* A disabled client is out of the index whatever user it names.           *)
SomeRecords == [tg : TgUsers, enabled : BOOLEAN] \cup [tg : {None}, enabled : {TRUE}]

(* Nothing is claimed of a client that two requests changed at once.       *)
ChangesApart == crossed = {}
=============================================================================
