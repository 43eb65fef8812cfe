CONSTANTS
  RegoNames = {"a.rego", "b.rego", "a..b.rego"}
  TwoDotted = {"..", "a..b.rego"}
  Undotted <- MCUndotted
  InPathOrder <- MCInPathOrder
  Ids <- MCIds
  Texts <- MCTexts
  BadTexts <- MCBadTexts
  DataChanges <- MCDataChanges
  Archives <- MCArchives
  Trees <- MCTrees
  Deltas <- MCDeltas
  Keys = {k1, k2, k3}
  Values = {v1}
  Modules <- MCModules
  MaxSize = 2
  Ttl = 1
  MaxClock = 3
SPECIFICATION Spec
INVARIANTS LoadersAgree BuildRoundTrip DeltaPatchesInOrder
PROPERTIES EvaluatorWhole AnswersLastPut EvictsLeastRecent
CHECK_DEADLOCK FALSE
