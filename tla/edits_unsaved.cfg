\* The outline tab with its timer and the network.
SPECIFICATION SyncSpec
CONSTANTS
  MaxSections = 3
  MaxQuestions = 5
  MaxOptions = 3
  MaxEdits = 1
PROPERTY EditsAreSaved
