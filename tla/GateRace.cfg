SPECIFICATION Spec
CONSTANTS
  r1 = r1
  r2 = r2
  c1 = c1
  c2 = c2
  s1 = s1
  Requests <- OneRequest
  Callers <- TwoCallers
  RiskOf <- AllMedium
  ProjectRules <- NoRules
  Defaults <- BuiltinDefaults
  Shapes <- OneShape
  ShapeOf <- AllShape1
  CoveredBy <- AllCovered
  Notified <- FirstNotified
  AgentWait = 1
  RequestTtl = 2
  DiskOutcomes = {TRUE}
  MaxCrashes = 1
INVARIANTS TypeOK ReceiptIsOutcome AnswerIsOutcome AnsweredMeansRecorded ReceiptAccounted PageMissesNothing StaleCardsExpired
PROPERTIES FirstAnswerWins ContractSpec
