SPECIFICATION FairSpec
CONSTANTS
  a = a
  b = b
  Client = {a, b}
  None = None
  MaxAsk <- MCMaxAsk
CHECK_DEADLOCK FALSE
INVARIANT OnlyConfirmedEnter
INVARIANT AnswersTheClick
PROPERTY RequestIsAnswered
