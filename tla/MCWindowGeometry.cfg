SPECIFICATION Spec
CONSTANTS
  Windows = {a, b}
  Panels = {dock}
  Anchor <- AnchorValue
  Top = {}
  Zones = {60}
  Screens = {200, 300}
  Own = {120}
  Cursors = {30, 260}
  Ticks = 2
  Handled = {a}
  MaxActs = 3
  Reduced = FALSE
  None = None
INVARIANTS TypeOK StandsWherePut RestoreKept 
PROPERTIES EntranceEnds
CHECK_DEADLOCK FALSE
