----------------------------- MODULE MCClients ------------------------------
(* A small instance of Clients: eight addresses, a network of the server   *)
(* and a second one that comes and goes.                                   *)
EXTENDS Clients, TLC

Low == [ip |-> 1, len |-> 1]

High == [ip |-> 6, len |-> 1]

MCServers == {{Low}, {Low, High}}

MCRanges == {[ip |-> 2, len |-> 2], [ip |-> 6, len |-> 2]}

MCRequests == {{2}, {5}}

OneInFlight == \A i, j \in Jobs : job[i] # None /\ job[j] # None => i = j

AllListed == unlisted = {} /\ \A j \in Jobs : job[j] # None => job[j].listed

(* Two requests in flight and a read that fails both excuse the clients,   *)
(* so that the one is looked at without the other.                         *)
OneExcuse == AllListed \/ (overlapped = {} /\ OneInFlight)

(* What is suggested depends on what is stored: while the networks change  *)
(* there is one request at a time and no excuse.                           *)
OneConcern ==
    \/ ifaces = {Low, High} /\ ranges = Ranges
    \/ AllListed /\ overlapped = {} /\ OneInFlight

Bound == OneExcuse /\ OneConcern

Symmetry == Permutations(Ids) \cup Permutations(Keys) \cup Permutations(Jobs)
=============================================================================
