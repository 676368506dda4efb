\* An anonymous link that requires an invitation, a draft study with a screener.
SPECIFICATION Spec
CONSTANTS
  Browser = {b1, b2}
  Tab = {t1, t2}
  Owner <- TabEach
  Worker = {w1}
  Researcher = researcher
  Nobody = nobody
  Token = {k1}
  NoToken = noToken
  Target = 2
  HasScreener = TRUE
  Anonymous = TRUE
  RequireInvitation = TRUE
  InitialStatus = "draft"
  MaxParticipations = 2
  MaxSessions = 1
  b1 = b1
  b2 = b2
  t1 = t1
  t2 = t2
SYMMETRY WorkerSymmetry
CHECK_DEADLOCK FALSE
INVARIANT
  AnonymousMayStart
