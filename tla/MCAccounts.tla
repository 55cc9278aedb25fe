----------------------------- MODULE MCAccounts -----------------------------
(* A small instance of Accounts for TLC: names, browsers, password hashes  *)
(* and credentials are interchangeable, so their permutations are a sound  *)
(* symmetry for the invariants and action properties checked.              *)
EXTENDS Accounts, TLC

Symmetry == Permutations(Names) \cup Permutations(Browsers)
            \cup Permutations(PwHashes) \cup Permutations(Creds)
=============================================================================
