CONSTANTS
  Lines = {a, v, x}
  Mentioned = {a, v, x}
  Before = 1
  After = 1
  Processes = {p1, p2}
  Builder = builder
  NoProcess = none
  Templates <- MCTemplates
  TemplateOf <- MCTemplateOf
  Errors = {}
  Decisions = {v}
  DecisiveTemplates <- MCDecisive
  SmallTrace = 2
  ErrorBefore = 1
  ErrorAfter = 0
  RareThreshold = 2
  MaxExamples = 1
  Phrases <- MCPhrases
  Flows <- MCForked
  SampleSize = 1
  MaxLines = 2
  MaxInstances = 1
  MaxReports = 3
  MaxCrashes = 0
  MaxBuilds = 1
  a = a
  b = b
  v = v
  d = d
  e = e
  x = x
SPECIFICATION Spec
INVARIANT NewTemplatesKept
CHECK_DEADLOCK FALSE
