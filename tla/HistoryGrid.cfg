CONSTANTS
  t1 = t1
  t2 = t2
  CallId = {t1, t2}
  KeepTail = 1
  MinCollapsePrefix = 2
  CollapseChunk = 2
  FreezeChunk = 1
  ProtectedPrefix = 0
  PageChars = 2
  Budget = {2, 3}
  Text = {1}
  Prompt = {2}
  MarkedAt = {3}
  MaxMessages = 6
SPECIFICATION GridSpec
INVARIANTS
  CutsBetweenRounds
  ImagesWithinBudget
PROPERTIES
  WarmRenderKeepsChunks
SYMMETRY Symmetry
CHECK_DEADLOCK FALSE
