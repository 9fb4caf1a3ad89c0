----------------------------- MODULE MCAPITokens -----------------------------
(* Small instances of APITokens for TLC.                                   *)
EXTENDS APITokens, TLC

Symmetry ==
  Permutations(Users) \cup Permutations(Tokens) \cup Permutations(Procs)
    \cup Permutations(Servers)
=============================================================================
