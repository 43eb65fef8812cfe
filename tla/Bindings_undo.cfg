SPECIFICATION Spec
CONSTANTS
  Objects <- MCObjects
  Vars <- MCVars
  Values <- MCValues
  Unbound = Unbound
  MaxDepth = 3
  rule = rule
  branch = branch
  v = v
  w = w
  zero = zero
  one = one
INVARIANT TypeOK
PROPERTY BehavesAsStack
