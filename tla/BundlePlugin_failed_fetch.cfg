SPECIFICATION Spec
CHECK_DEADLOCK FALSE
CONSTANTS
  HttpNames <- MCAuthz
  Names <- MCAuthz
  Paths <- MCPaths
  Sources <- MCSources
  Parsable <- MCParsable
  Facts <- MCFacts
  Offered <- MCOffered
  InitConfig <- MCAuthz
  Configs <- MCNoConfigs
  MaxStarts = 1
  MaxPublished = 0
  NoPolicy = NoPolicy
  NoTag = NoTag
  NoAnswer = NoAnswer
  NotModified = NotModified
  authz = authz
  rbac = rbac
  p = p
  q = q
  r = r
  v1 = v1
  v2 = v2
  broken = broken
  users = users
  roles = roles
INVARIANT EveryBundlePolled
