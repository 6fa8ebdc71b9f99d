SPECIFICATION Spec
CONSTANTS
  pledge = pledge
  redeem = redeem
  again = again
  NoArgs = NoArgs
  Ops <- ThreeOps
  ActionOf <- MCActions
  Stamps = {1, 2}
INVARIANTS
  TypeOK
  ExecutedWasConfirmed
  SuccessesAreExecuted
  LoneOperationsAreExact
  MaskKeepsApart
PROPERTIES
  SettlesAll
  SettlesLone
CHECK_DEADLOCK FALSE
