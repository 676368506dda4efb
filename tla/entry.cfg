\* Two browsers, an invitation for one of them, two completions at a time.
SPECIFICATION Spec
CONSTANTS
  Browser = {b1, b2}
  Tab = {t1, t2}
  Owner <- TabEach
  Worker = {w1, w2}
  Researcher = researcher
  Nobody = nobody
  Token = {k1}
  NoToken = noToken
  Target = 2
  HasScreener = FALSE
  Anonymous = FALSE
  RequireInvitation = FALSE
  InitialStatus = "live"
  MaxParticipations = 2
  MaxSessions = 3
  b1 = b1
  b2 = b2
  t1 = t1
  t2 = t2
SYMMETRY WorkerSymmetry
INVARIANTS
  NumbersAreSequential
  TargetCloses
  InterviewsHaveConsent
