SPECIFICATION Spec
CONSTANTS
  pledge = pledge
  redeem = redeem
  again = again
  NoArgs = NoArgs
  Ops <- TwoOps
  ActionOf <- MCAction
  Stamps = {1, 2}
INVARIANTS
  SuccessIsOfTheOperation
CHECK_DEADLOCK FALSE
