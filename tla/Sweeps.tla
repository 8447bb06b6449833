-------------------------------- MODULE Sweeps --------------------------------
(***************************************************************************)
(* The two collections of garbage beside each other: gc() of the artifact  *)
(* store and the retention sweep of the projection store share no state.   *)
(***************************************************************************)
EXTENDS ArtifactStore, ValueStore

(* Leased bundles, and the values that rows and events of runs refer to,   *)
(* outlive the sweeps of others.                                           *)
SweepsSpare == [](LeasedStays /\ InputsKept) /\ ReferencesHold
=============================================================================
