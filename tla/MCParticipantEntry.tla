------------------------- MODULE MCParticipantEntry -------------------------
(***************************************************************************)
(* Instances of ParticipantEntry for TLC.                                  *)
(***************************************************************************)
EXTENDS ParticipantEntry, TLC

CONSTANTS b1, b2, t1, t2

(* Two browsers with a tab each. *)
TabEach == t1 :> b1 @@ t2 :> b2

WorkerSymmetry == Permutations(Worker)

=============================================================================
