--------------------------- MODULE MCBrowserParts ---------------------------
(***************************************************************************)
(* Instances of BrowserParts for TLC.                                      *)
(***************************************************************************)
EXTENDS BrowserParts, TLC

CONSTANTS r1, r2, v1, v2, v3

TwoReports == {r1, r2}
ThreeValues == {v1, v2, v3}
Symmetry == Permutations(TwoReports) \cup Permutations(ThreeValues)

OneDimension == {"d1"}

(* What holds of the shell is about each window alone. *)
OneWindow == {1}

(* One study of the four is not among those the server lists. *)
FourStudies == {"s1", "s2", "s3", "s4"}
ThreeListed == {"s1", "s3", "s4"}
ThreeEarlier == <<"s1", "s2", "s3">>
TwoWidths == {0, 3}

(* Texts that match everything, nothing, commands of several groups. *)
Everything ==
  {"go-home", "go-ask", "new-study", "refresh", "open-admin", "study-1", "study-2"}
Queries ==
  {Everything, {}, {"go-ask", "new-study", "study-1", "open-admin"}, {"refresh", "study-2"}}

(* Fewer studies than a page holds, more than one, more than two. *)
Stocks == {[draft |-> d, live |-> l, closed |-> 0] : d \in {0, 9}, l \in {0, 1, 12}}

TwoConcepts == {"c1", "c2"}
ThreeCameras == {1, 2, 3}

(* A session of one of the studies, which has started. *)
TwoStudies == {"s1", "s2"}
OneSession == {"a"}
ItsStudy == [s \in OneSession |-> "s1"]
ItsStart == [s \in OneSession |-> 1]
OneColumn == {"status"}
TwoSearches == {OneSession, {}}

=============================================================================
