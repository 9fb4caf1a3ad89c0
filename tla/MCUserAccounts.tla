--------------------------- MODULE MCUserAccounts ---------------------------
(* Small instances of UserAccounts for TLC.                                *)
EXTENDS UserAccounts, TLC

CONSTANTS root, i1, i2, rs, s1, n1, n2

\* A cluster admin seeded before the service registered identities and before
\* usernames: a row without an identity record and without a username.
SeededRoot == {[id |-> root, subject |-> rs, username |-> None]}

\* The same with a username, which collides with the first candidate of others.
NamedRoot == {[id |-> root, subject |-> rs, username |-> n1]}

TwoNames == {<<n1, n2>>}
OneName == {<<n1>>}

ProcSymmetry == Permutations(Procs)
Symmetry == Permutations({i1, i2}) \cup ProcSymmetry
=============================================================================
