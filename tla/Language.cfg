SPECIFICATION Spec
CONSTANTS
  MaxDepth = 8
  Policies <- MCPolicies
  Documents <- MCDocuments
  Inputs <- MCInputs
  Terms <- MCTerms
  Values <- MCValues
  Paths <- MCPaths
  Graphs <- MCGraphs
  Modules <- MCModules
  Chains <- MCChains
  Texts <- MCTexts
\* Every subject is loaded once, and every question is asked and every module printed and
\* parsed once.
CHECK_DEADLOCK FALSE
INVARIANTS EvaluationMeans PartialAnswerComplete UnifiersUnify DocumentsEdited ReachableIsClosure
INVARIANTS PrecedenceRespected FormatRoundTrip LexemesFaithful
