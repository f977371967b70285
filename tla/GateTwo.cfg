SPECIFICATION Spec
CONSTANTS
  r1 = r1
  r2 = r2
  c1 = c1
  c2 = c2
  s1 = s1
  Requests <- TwoRequests
  Callers <- OneCaller
  RiskOf <- AllMedium
  ProjectRules <- NoRules
  Defaults <- BuiltinDefaults
  Shapes <- OneShape
  ShapeOf <- AllShape1
  CoveredBy <- AllCovered
  Notified <- NobodyNotified
  AgentWait = 0
  RequestTtl = 1
  DiskOutcomes = {TRUE, FALSE}
  MaxCrashes = 0
INVARIANTS ReceiptIsOutcome AnswerIsOutcome LearnedFromHuman
SYMMETRY Interchangeable
