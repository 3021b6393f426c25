SPECIFICATION Spec
CONSTANTS
  Scales = {1, 2}
  Themes = {"light", "dark"}
  NoBuffer = NoBuffer
INVARIANTS TypeOK NoTearing NoLostWakeup
PROPERTIES InputDrawn ResizeDrawn LayerFrameDrawn ThemeFollows
