SPECIFICATION Spec
CONSTANTS
  Slots = {s1, s2}
  Orgs = {"o", "p"}
  DefaultOrg = "o"
  Names = {"a"}
  Values = {x, y}
  BodyValues = {x}
  ClientIds = {9}
  MaxBoards = 1
  MaxUid = 2
  MaxCells = 1
  MaxRequests = 3

  
PROPERTIES
  MakesEdits
CHECK_DEADLOCK FALSE
SYMMETRY SlotSymmetry
