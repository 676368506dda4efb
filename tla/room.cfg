\* One participant who lets the browser finish before trying again.
SPECIFICATION Spec
CONSTANTS
  Mic <- Two
  Socket <- Two
  Session <- Two
  MaxChunks = 1
  MaxReaders = 2
  MaxPosts = 2
  Patient = TRUE
INVARIANTS
  OnlyFailuresStray
  TurnAgreed
  RoomHasConsent
  InterviewFitsUrl
\* The text-only room has nothing to do but stay.
CHECK_DEADLOCK FALSE
