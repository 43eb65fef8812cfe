SPECIFICATION Spec
CONSTANTS
  Backends <- MCBackends
  Clients <- MCOneClient
  DirectIds <- MCDirectIds
  BundleNames <- MCNames
  Paths <- MCPaths
  Sources <- MCSources
  Parsable <- MCParsable
  Roots <- MCOneRoot
  Items <- MCItems
  Archives <- MCArchives
  NoPolicy = NoPolicy
  Absent = Absent
  NoEvaluator = NoEvaluator
  NoBundle = NoBundle
  Direct = Direct
  Nobody = Nobody
  c1 = c1
  good = good
  bad = bad
  roles = roles
  x = x
INVARIANT TypeOK
INVARIANT EvaluatorCurrent
INVARIANT DirectPoliciesServed
INVARIANT ListedPoliciesStored
PROPERTY FailedRequestsChangeNothing

