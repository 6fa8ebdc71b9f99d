SPECIFICATION Spec
CONSTANTS
  Wallets = {1, 2, 3, 4}
  CoinOf <- Mixed
  Fixed <- MCFixed
  Loads = {"bg"}
  Optimised = TRUE
  MaxOpen = 2
INVARIANTS
  TypeOK
  NothingCrosses
  BrandsKept
  LoneLoadSettles
CHECK_DEADLOCK FALSE
