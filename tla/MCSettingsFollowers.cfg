SPECIFICATION Spec
CONSTANTS
  Outputs = {"hdmi", "edp"}
  Themes = {"light", "dark"}
  Displays = {"1440x900", "2560x1664"}
  Light = "light"
  Fallback = "1440x900"
  None = None
INVARIANTS TypeOK OutputsAgree
PROPERTIES  CompositorFollows ChangeApplies
