SPECIFICATION Spec
CONSTANTS
  Windows = {a}
  Panels = {dock, status}
  Anchor <- AnchorValue
  Top = {status}
  Zones = {60}
  Screens = {300}
  Own = {120}
  Cursors = {30}
  Ticks = 1
  Handled = {a}
  MaxActs = 4
  Reduced = FALSE
  None = None
INVARIANTS PanelsLeftFree
CHECK_DEADLOCK FALSE
