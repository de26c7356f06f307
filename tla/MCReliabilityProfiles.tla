----------------------- MODULE MCReliabilityProfiles ------------------------
(***************************************************************************)
(* ReliabilityProfiles for TLC: a profile that Redis has and one that two  *)
(* outcomes recorded at the same time create, and three calls that contend *)
(* for the lock while the cache may become stale a second time.            *)
(***************************************************************************)
EXTENDS ReliabilityProfiles, TLC

CONSTANTS fast, slow, o1, o2, o3, c1, c2, c3

MCProfiles == {fast, slow}
MCOutcomes == {o1, o2, o3}
MCProfileOf == (o1 :> fast) @@ (o2 :> fast) @@ (o3 :> slow)
MCCallers == {c1, c2, c3}

=============================================================================
