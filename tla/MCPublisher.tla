----------------------------- MODULE MCPublisher -----------------------------
(* Symmetry of the subscribers' ids, for the safety run with two slots.     *)
EXTENDS PublisherApp, TLC

PeerSymmetry == Permutations(PeerIds)
=============================================================================
