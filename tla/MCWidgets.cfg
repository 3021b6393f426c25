SPECIFICATION Spec
CONSTANTS
  row = row
  up = up
  inner = inner
  slider = slider
  p1 = p1
  p2 = p2
  p3 = p3
  Buttons = {row, up, inner}
  Sliders = {slider}
  Places = {p1, p2, p3}
  Pages <- PagesValue
  Contacts = {f1, f2}
  Away = Away
  None = None
INVARIANTS TypeOK HeldIsPressed
PROPERTIES ActsAreTheUsers
