CONSTANTS
  Scenes <- MCScenes
  Lights <- MCLights
  MaxRequests = 4
  MaxFaults = 1
CONSTRAINT Relevant
SPECIFICATION Spec
INVARIANTS EventsAreAnnounced AnsweredOnce FnLockAgrees LightsFollowSleep TopCaseFollowsFold
