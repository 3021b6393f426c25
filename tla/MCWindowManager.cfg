SPECIFICATION Spec
CONSTANTS
  MaxWindows = 3
  Layers = {menu}
  Keyboards = {kb1, kb2}
  None = None
SYMMETRY Symmetry
INVARIANTS TypeOK NoDangling OneKeyboardOwner FocusedOnTop KeysFollowFocus
PROPERTIES KeepsPolicy
