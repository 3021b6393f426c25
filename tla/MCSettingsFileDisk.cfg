SPECIFICATION Spec
CONSTANTS
  Writers = {"shell", "settings"}
  Themes = {"light", "dark"}
  Displays = {"1440x900", "2560x1664"}
  None = None
INVARIANTS ReportedIsSaved
