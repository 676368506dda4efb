\* Two studies, a researcher who does not wait.
SPECIFICATION Spec
CONSTANTS
  a = a
  b = b
  None = None
  Study <- TwoStudies
  MaxEdits = 1
  MaxRequests = 2
  Patient = FALSE
SYMMETRY Symmetry
INVARIANTS
  DraftIsOfStudy
  BriefIsOwn
