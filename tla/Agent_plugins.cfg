CONSTANTS
  Plugins <- MCPlugins
  Configs <- MCConfigs
  Initial = "initial"
  Sections <- MCSections
  Malformed <- MCMalformed
  Silent = {"initial", "untagged"}
  Undirected = {"broken"}
  Tagged = {"both", "self", "mute"}
  Tokens = {t1, t2}
  TTL = 2
  MaxTime = 4
  RingSize = 3
  Limits = {2, 3}
  MaxLimit = 2
  MaxDecisions = 6
SPECIFICATION Spec
INVARIANTS NothingRunsAfterStop SessionsEnd PagingMissesNothing
PROPERTY Converges
CHECK_DEADLOCK FALSE
