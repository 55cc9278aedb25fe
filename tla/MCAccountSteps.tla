--------------------------- MODULE MCAccountSteps ---------------------------
(* Small instances of AccountSteps for TLC.                                *)
EXTENDS AccountSteps, FiniteSets, TLC

Symmetry == Permutations(Names) \cup Permutations(Browsers)
            \cup Permutations(PwHashes) \cup Permutations(Creds)

(* At most one account has had its sessions revoked, or has a wrong entry  *)
(* in the cache, and between handlers not both: a revocation is tried      *)
(* again after it failed, but no failure follows one that succeeded.       *)
(* A store that lost its only account is followed up once no password hash *)
(* is left to issue.                                                       *)
FewTroubles ==
    LET ended == {n \in Names : users[n] # None /\ users[n].epoch > 0}
    IN  /\ Cardinality(ended \cup unsaved) <= 1
        /\ InFlight = {} => ended = {} \/ unsaved = {}
        /\ (\A n \in Names : users[n] = None) => Unused(PwHashes) = {}

(* A later state of Accounts to start two handlers from: every name has an *)
(* administrator, and the browsers are logged in, each as another one if   *)
(* there are enough.                                                       *)
LoggedIn ==
    /\ \E pw \in [Names -> PwHashes], prof \in Profiles :
          /\ \A m, n \in Names : pw[m] = pw[n] => m = n
          /\ users = [n \in Names |->
                [pw |-> pw[n], admin |-> TRUE, disabled |-> FALSE, epoch |-> 0,
                 profile |-> prof, passkeys |-> NoPasskeys]]
    /\ spent = {users[n].pw : n \in Names}
    /\ crc = [n \in Names |-> Digest(n, users[n])]
    /\ cookie \in [Browsers -> {CookieFor(n, users[n]) : n \in Names}]
    /\ \A n \in Names : \E b \in Browsers : Me(b) = n
    /\ passkeysOn = FALSE
    /\ revoked = {}
    /\ job = [j \in Jobs |-> None]
    /\ unsaved = {}

RaceSpec == LoggedIn /\ [][StepsNext]_stepVars
=============================================================================
