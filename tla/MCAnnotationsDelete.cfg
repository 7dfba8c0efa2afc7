SPECIFICATION Spec
CONSTANTS
  Slots = {s1}
  Ids = {i1}
  Times = {t1, t2}
  Tags = {g1, g2}
  Texts = {x}
  Unset = Unset
  Faults = FALSE
  MaxClock = 5
PROPERTIES
  DeleteRemoves
CHECK_DEADLOCK FALSE
