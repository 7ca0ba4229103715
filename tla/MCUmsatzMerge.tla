---------------------------- MODULE MCUmsatzMerge ----------------------------
(* UmsatzMerge on small instances. *)
EXTENDS UmsatzMerge, TLC

\* The syncs of the konto are interchangeable.
TheSyncs == Permutations(Syncs)
=============================================================================
