\* One turn at a time, every decision the LLM may come back with.
SPECIFICATION Spec
CONSTANTS
  Turn = {t1, t2, t3, t4, t5}
  Leaving = {t1}
  Beat = beat
  Voice = voice
  Nobody = nobody
  NoQuestion = noQuestion
  NoDecision = noDecision
  NoTrigger = noTrigger
  Question <- MCQuestion
  Guide <- MCGuide
  FirstSectionEmpty = FALSE
  Policy <- MCPolicy
  MaxProbes <- MCMaxProbes
  Dynamic <- MCDynamic
  Trigger <- MCTrigger
  LLMDecisions <- AllDecisions
  Conditions = {"goals"}
  MaxInFlight = 1
  MaxCrashes = 0
  ClientsLeave = FALSE
  VoiceConnected = FALSE
  BrokerMayFail = FALSE
SYMMETRY MessageSymmetry
CHECK_DEADLOCK FALSE
INVARIANTS
  CacheMatchesLog
  TranscriptMatchesLog
  GraceIsBounded
  GraceIsGiven
