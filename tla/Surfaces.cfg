SPECIFICATION Spec
CONSTANTS
  r1 = r1
  Requests <- OneRequest
  Decisions <- OneOfEach
  Similar <- TheSimilar
  Polls <- TwoPolls
  MaxCrashes = 1
INVARIANTS TypeOK NeverHidden TerminalTruthful
PROPERTIES MenuConverges
