SPECIFICATION FairSpec
CONSTANTS
  Wallets = {1, 2, 3}
  CoinOf <- Three
  Fixed <- MCFixed
  Loads = {"bg"}
  Optimised = FALSE
  MaxOpen = 2
PROPERTIES
  LoadsEnd
