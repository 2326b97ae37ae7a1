SPECIFICATION Spec
CONSTANTS
  Names <- MCNames
  Patterns = {"test*", "test-j*"}
  JobNames = {"test-job", "test-run", "lint"}
  Matches <- MCMatches
  NoConfig = NoConfig
  NoAnswer = NoAnswer
CHECK_DEADLOCK FALSE
INVARIANTS
  AnswerConfigured
  AnswerMatches
PROPERTIES
  AnswerStable
