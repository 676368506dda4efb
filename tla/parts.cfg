\* Each of the smaller parts on its own: three options of a select box, two
\* quotas, lists of two entries, a window, four studies, a session, two
\* reports, two inbox items of which a page holds one.
SPECIFICATION Spec
CONSTANTS
  None = None
  v1 = v1
  v2 = v2
  v3 = v3
  r1 = r1
  r2 = r2
  OptionValue <- ThreeValues
  MaxRenders = 1
  Dimension <- OneDimension
  MaxSegments = 1
  MaxQuotas = 2
  MaxEntries = 2
  MaxForms = 2
  MaxFormRequests = 2
  Window <- OneWindow
  Study <- FourStudies
  Listed <- ThreeListed
  MinWidth = 1
  DefaultWidth = 2
  MaxWidth = 4
  DragTo <- TwoWidths
  Earlier <- ThreeEarlier
  MaxChanges = 3
  Query <- Queries
  MaxRuns = 1
  Stock <- Stocks
  MaxCreated = 2
  MaxTurns = 3
  Pitches = 3
  Concept <- TwoConcepts
  Camera <- ThreeCameras
  MaxFiles = 2
  MaxImports = 2
  Report <- TwoReports
  MaxAdded = 2
  MaxQuestionLoads = 2
  SessionStudy <- TwoStudies
  Session <- OneSession
  SessionOf <- ItsStudy
  StartedAt <- ItsStart
  Column <- OneColumn
  Searched <- TwoSearches
  MaxSessionRequests = 2
  MaxCopies = 1
  MaxTimers = 1
  PageSize = 1
  MaxItems = 2
  MaxInboxRequests = 2
SYMMETRY Symmetry
CHECK_DEADLOCK FALSE
INVARIANTS
  EnterTakesHighlighted
  SegmentsAreWhole
  FormsAreSentWell
  DragHasItsHandle
  AddedQuestionsShow
  NothingHangs
  MarksAreSeen
PROPERTIES
  OnlySizesOvershoot
  HoldsWhatItShows
