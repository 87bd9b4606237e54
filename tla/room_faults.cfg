\* Lost calls, reloads, late requests and a stream that tells of new versions.
SPECIFICATION Spec
CONSTANTS
  StartStatus = {"GENERATING"}
  Mishaps = {"lost", "reload", "stream"}
  MaxMishaps = 2
  MaxEdits = 2
  MaxVersion = 3
  MaxChain = 2

CHECK_DEADLOCK FALSE

INVARIANTS
  TypeOK
  KeyNeverReused
  DraftKept
PROPERTIES
  OlderOnlyByStream
  SubmittedIsSaved
