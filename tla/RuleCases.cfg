CONSTANTS
  None = None
  InferCases <- AllInferCases
  MergeCases <- AllMergeCases
SPECIFICATION Spec
INVARIANTS
  LaterReadingAgrees
  CorrectionIsSmall
  YearlessDatesAhead
  PlanFollowsTheHint
  
