CONSTANTS
  Scenes <- MCScenes
  MaxRequests = 4
  MaxFaults = 1
  None = None
CONSTRAINT Relevant
SPECIFICATION Spec
INVARIANTS ModesAgree AskedIsSet YogaRestores
