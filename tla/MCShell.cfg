SPECIFICATION Spec
CONSTANTS
  Places <- MCPlaces
  MotionFrames = 2
INVARIANTS TypeOK Settled
PROPERTIES ClickToggles OneAppPerClick ComesToRest
