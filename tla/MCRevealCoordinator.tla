-------------------------- MODULE MCRevealCoordinator --------------------------
(* Two tracks in one folder and a second folder without tracks. The view    *)
(* shows one row of two, so the second row is out of view at scroll 0 and   *)
(* the first one at scroll 1.                                               *)
EXTENDS RevealCoordinator

CONSTANTS t1, t2, folder

TrackSymmetry == Permutations(Tracks)
MCFolder == [t \in Tracks |-> folder]
Top == Geometry(0, 1, 1)
Bottom == Geometry(1, 1, 1)
TopSample == {Top}
AllSamples == {Top, Bottom, None}
=============================================================================
