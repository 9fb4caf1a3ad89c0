---------------------------- MODULE MCDeviceSync ----------------------------
(***************************************************************************)
(* Small instances of DeviceSync for TLC.                                  *)
(***************************************************************************)
EXTENDS DeviceSync, TLC

CONSTANTS ann, bob, red, blue, acme, d1, d2

Order == (ann :> 1) @@ (bob :> 2) @@ (d1 :> 3) @@ (d2 :> 4)

\* One organization with all groups, and one call that lists them.
AllInAcme == [g \in Groups |-> acme]
AllBelong == Users \X Orgs
OnePage == {Groups}

NoMember == {}
AnnInRed == {<<ann, red>>}

NobodyOwns == <<>>
AnnOwnsD1 == (d1 :> ann)
BobOwnsBoth == (d1 :> bob) @@ (d2 :> bob)

IdOrder == [x \in Users \cup Devices |-> Order[x]]

\* Without memberships at start the groups are alike.
GroupSymmetry == Permutations(Groups)
=============================================================================
