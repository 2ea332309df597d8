SPECIFICATION Spec
CONSTANTS
  a = a  b = b  c = c
  Widgets <- MCWidgets
  Pref <- MCPref
  ExpandX <- MCExpandX
  ExpandY <- MCExpandY
  HAlign <- MCHAlign
  VAlign <- MCVAlign
  Aligns <- MCAligns
  UserSizes <- MCSizes
  Regluable <- MCStacked
  MaxChanges = 2
CHECK_DEADLOCK FALSE
INVARIANTS
  LayoutSound
  LayoutFollowsSize
