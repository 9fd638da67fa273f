----------------------------- MODULE RevealTypes -----------------------------
(****************************************************************************)
(* The values the host layer passes around: tracks (Identity), view         *)
(* generations, and the one word bound epoch_limit that RevealCoordinator   *)
(* hands to all of its parts.                                               *)
(****************************************************************************)
EXTENDS RevealGeometry, Sequences, SequencesExt

CONSTANTS
    None,           \* Python's None
    Tracks,         \* the playback identities
    Unsupported,    \* an identity the publications refuse
    Folders,        \* the exact folder scopes
    Folder,         \* Identity.folder(): a track's folder, or None
    Limit,          \* epoch_limit, the bound of every serial and ticket
    MaxWaitTicks    \* max_wait_ticks

ASSUME LimitAssumption == Limit \in 1 .. IntMax
ASSUME MaxWaitAssumption == MaxWaitTicks \in Nat \ {0}
ASSUME TrackAssumption ==
    /\ Folder \in [Tracks -> Folders \cup {None}]
    /\ None \notin Tracks \cup Folders
    /\ Unsupported \notin Tracks \cup {None}

(* ViewGeneration: the exact scope, the owner's epoch and the contents'.    *)
ViewGeneration(folder, view_epoch, contents_epoch) ==
    [folder |-> folder, view_epoch |-> view_epoch, contents_epoch |-> contents_epoch]

Generations ==
    [folder : Folders, view_epoch : 1 .. Limit, contents_epoch : 1 .. Limit]

Serials == 0 .. Limit
Tickets == 1 .. Limit
=============================================================================
