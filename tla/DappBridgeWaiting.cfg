SPECIFICATION FairSpec
CONSTANTS
  a = a
  b = b
  Requests = {a, b, c}
  Methods = {"read", "wallet", "net", "sign", "message", "transfer", "actions"}
  Nobody = Nobody
  ActionsOf <- MCActionsOf
  Patient = TRUE
  Remembers = FALSE
  MaxRuns = 2
  MaxActs = 2
  MaxCalls = 2
PROPERTIES KeepsBook ReadsAreAnswered
CHECK_DEADLOCK FALSE
