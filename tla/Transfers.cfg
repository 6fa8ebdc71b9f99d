SPECIFICATION FairSpec
CONSTANTS
  Wallets = {1, 2, 3, 4, 5, 6}
  BrandOf <- SixWallets
  Prices = {1, 2}
  Amounts = {100, 1500}
  Rates = {1}
  Outputs <- MCOutputs
  Word = 1073741824
  MaxSends = 2
CHECK_DEADLOCK FALSE
INVARIANTS
  TypeOK
  PaidByItsWallet
  SuccessesAreTaken
  MaskKeepsSendsApart
  AmountsAreSpendable
  FeesPayForInputs
PROPERTIES
  SettlesEach
  SendsAreTold
