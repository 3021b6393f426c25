SPECIFICATION Spec
CONSTANTS
  Scales = {1}
  Themes = {"light", "dark"}
  NoBuffer = NoBuffer
PROPERTIES AskedFrameDrawn
