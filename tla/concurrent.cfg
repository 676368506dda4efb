\* Two turns at a time out of three messages, the beat task, one crash.
SPECIFICATION Spec
CONSTANTS
  Turn = {t1, t2, t3}
  Leaving = {}
  Beat = beat
  Voice = voice
  Nobody = nobody
  NoQuestion = noQuestion
  NoDecision = noDecision
  NoTrigger = noTrigger
  Question <- MCQuestion
  Guide <- MCGuide
  FirstSectionEmpty = FALSE
  Policy <- MCPolicy
  MaxProbes <- MCMaxProbes
  Dynamic <- MCDynamic
  Trigger <- MCTrigger
  LLMDecisions <- ProbingDecisions
  Conditions = {"stale", "overtime"}
  MaxInFlight = 2
  MaxCrashes = 1
  ClientsLeave = FALSE
  VoiceConnected = FALSE
  BrokerMayFail = FALSE
SYMMETRY TurnSymmetry
CHECK_DEADLOCK FALSE
INVARIANTS
  TypeOK
  EndedOnce
  NoSeqConflict
  ProbesWithinCaps
  CompletedIsProcessed
PROPERTIES
  ImplementsLifecycle
