SPECIFICATION Spec
CONSTANTS
  Slots = {s1, s2}
  Ids = {i1}
  Times = {t1, t2}
  Tags = {g1, g2}
  Texts = {x}
  Unset = Unset
  Faults = TRUE
  MaxClock = 4
INVARIANTS
  ListsAgree
PROPERTIES
  IsMap
SYMMETRY Symmetry
CHECK_DEADLOCK FALSE
