SPECIFICATION Spec
CONSTANTS
  k1 = k1
  k2 = k2
  NoKey = NoKey
  Keys <- MCKeys
  Imports <- EveryOrder
  MaxRows = 4
  MaxDelayed = 1
  MaxQueued = 1
VIEW StoreView
SYMMETRY KeySymmetry
INVARIANTS
  TypeOK
  CoinsBelongToTheirWallet
  TronReadyHasClient
PROPERTIES
  NewWalletsStartEmpty
  AddressesNeverChange
