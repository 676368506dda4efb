------------------------ MODULE MCResearcherBrowser ------------------------
(***************************************************************************)
(* Instances of ResearcherBrowser for TLC.                                 *)
(***************************************************************************)
EXTENDS ResearcherBrowser, TLC

CONSTANTS a, b, r1, r2

TwoStudies == {a, b}

OneBlock == {1}
ThreeConcepts == {1, 2, 3}

(* Two reports of one study, which is none of those above: reports are     *)
(* interchangeable, as studies are.                                        *)
TwoReports == {r1, r2}
TheStudy == {1}
BothOfIt == [r \in TwoReports |-> 1]

Symmetry == Permutations(TwoStudies) \cup Permutations(TwoReports)

=============================================================================
