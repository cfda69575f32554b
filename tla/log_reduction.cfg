CONSTANTS
  Lines = {a, v, e, x}
  Mentioned = {a, v, e}
  Before = 1
  After = 1
  Processes = {p1, p2}
  Builder = builder
  NoProcess = none
  Templates <- MCTemplates
  TemplateOf <- MCTemplateOf
  Errors = {e}
  Decisions = {v}
  DecisiveTemplates <- MCDecisive
  SmallTrace = 2
  ErrorBefore = 1
  ErrorAfter = 0
  RareThreshold = 3
  MaxExamples = 1
  Phrases <- MCPhrases
  Flows <- MCFlows
  SampleSize = 1
  MaxLines = 3
  MaxInstances = 2
  MaxReports = 3
  MaxCrashes = 1
  MaxBuilds = 1
  a = a
  b = b
  v = v
  d = d
  e = e
  x = x
SPECIFICATION Spec
INVARIANT TypeOK
INVARIANT PodLinesExact
INVARIANT EvidenceKept
INVARIANT ClassesFit
CHECK_DEADLOCK FALSE
SYMMETRY MCSymmetry
