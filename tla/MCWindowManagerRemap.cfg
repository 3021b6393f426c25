SPECIFICATION Spec
CONSTANTS
  MaxWindows = 2
  Layers = {menu}
  Keyboards = {kb}
  None = None
PROPERTIES MapFocuses
