\* Every sequence of three edits of the starter outline, the screener, one
\* block with three concepts; two studies, one of them with reports; three
\* conversations; two chats of two questions.
SPECIFICATION Spec
CONSTANTS
  MaxSections = 4
  MaxQuestions = 7
  MaxEdits = 3
  MaxScreener = 2
  MaxOptions = 4
  MaxScreenerLoads = 2
  Block <- OneBlock
  Concept <- ThreeConcepts
  MaxConceptRequests = 1
  Patient = TRUE
  a = a
  b = b
  r1 = r1
  r2 = r2
  Study <- TwoStudies
  None = None
  MaxPageLoads = 2
  Report <- TwoReports
  ReportStudy <- TheStudy
  StudyOf <- BothOfIt
  MaxChats = 3
  MaxChatAsked = 3
  MaxChatRequests = 2
  MaxAsked = 2
SYMMETRY Symmetry
CHECK_DEADLOCK FALSE
INVARIANTS
  OutlineIsSound
  PassMarksAreOptions
  ShownIsStored
  GenerationIsPolled
  ConversationsAreWhole
  AnswersFitQuestions
