---------------------------- MODULE MCStudyPage ----------------------------
(***************************************************************************)
(* Instances of StudyPage for TLC.                                         *)
(***************************************************************************)
EXTENDS StudyPage, TLC

CONSTANTS a, b

TwoStudies == {a, b}

Symmetry == Permutations(TwoStudies)

=============================================================================
