SPECIFICATION Spec
CHECK_DEADLOCK FALSE
CONSTANTS
  HttpNames <- MCAuthz
  Names <- MCBoth
  Paths <- MCPaths
  Sources <- MCSources
  Parsable <- MCParsable
  Facts <- MCFacts
  Offered <- MCOffered
  InitConfig <- MCBoth
  Configs <- MCTwoConfigs
  MaxStarts = 2
  MaxPublished = 2
  NoPolicy = NoPolicy
  NoTag = NoTag
  NoAnswer = NoAnswer
  NotModified = NotModified
  authz = authz
  rbac = rbac
  p = p
  q = q
  r = r
  v1 = v1
  v2 = v2
  broken = broken
  users = users
  roles = roles
INVARIANT TypeOK
INVARIANT OneTaskPerBundle
INVARIANT TaggedBundleApplied
PROPERTY OnlyConfiguredBundlesApply
PROPERTY PoliciesConverge
