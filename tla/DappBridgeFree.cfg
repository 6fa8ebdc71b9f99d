SPECIFICATION Spec
CONSTANTS
  a = a
  b = b
  Requests = {a, b}
  Methods = {"read", "net", "sign", "message", "transfer", "actions"}
  Nobody = Nobody
  ActionsOf <- MCActionsOf
  Patient = FALSE
  Remembers = TRUE
  MaxRuns = 2
  MaxActs = 2
  MaxCalls = 0
INVARIANTS TypeOK LoneConsentsAreExact
PROPERTIES OvertakenStayPending
CHECK_DEADLOCK FALSE
