CONSTANT
  brightnessPoller = TRUE
SPECIFICATION Spec
INVARIANTS ExchangeIsOwn TouchPadFollows LevelFollowsCycle
CHECK_DEADLOCK FALSE
