SPECIFICATION PageSpec
CONSTANTS
  Requests = {a, b, c}
  Methods = {"read", "sign", "message"}
  Nobody = Nobody
  ActionsOf <- MCOneAction
  Patient = FALSE
  Remembers = FALSE
  MaxRuns = 0
  MaxActs = 2
  MaxCalls = 0
  MaxIndexes = 2
INVARIANTS PageTypeOK SignaturesAreReal ForgottenStaysForgotten SignersWereNamed
CHECK_DEADLOCK FALSE
