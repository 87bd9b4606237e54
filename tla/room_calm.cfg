\* A network that answers: what is typed is saved, and the time limit submits.
SPECIFICATION FairSpec
CONSTANTS
  StartStatus = {"IN_PROGRESS"}
  Mishaps = {}
  MaxMishaps = 0
  MaxEdits = 3
  MaxVersion = 7
  MaxChain = 2

CHECK_DEADLOCK FALSE

PROPERTIES
  EditsReachServer
  
