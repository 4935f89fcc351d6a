CONSTANTS
  Unknown = {9}
  Flipped = {2, 3}
SPECIFICATION Spec
INVARIANTS LaptopIsEnabled FlippedIsDisabled LeftEnabled
CHECK_DEADLOCK FALSE
