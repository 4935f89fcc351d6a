CONSTANTS
  c1 = c1
  c2 = c2
  Clients = {c1, c2}
  t1 = t1
  t2 = t2
  Threads = {t1, t2}
  e1 = e1
  e2 = e2
  Events = {e1, e2}
  None = None
SYMMETRY Interchangeable
CONSTRAINT OneOfBoth
SPECIFICATION FanSpec
INVARIANTS SubscriberIsOwner GoneHasReleased SelectionHolds
PROPERTY SendsAreNotifications
