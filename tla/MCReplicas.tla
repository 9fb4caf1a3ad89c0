----------------------------- MODULE MCReplicas -----------------------------
(***************************************************************************)
(* A rolling update in small: r2 runs the newer release.                   *)
(***************************************************************************)
EXTENDS Replicas, TLC

CONSTANTS r1, r2

Releases == (r1 :> 1) @@ (r2 :> 2)
=============================================================================
