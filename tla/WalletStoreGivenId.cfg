SPECIFICATION FairSpec
CONSTANTS
  k1 = k1
  k2 = k2
  NoKey = NoKey
  Keys <- MCKeys
  Imports <- NoImports
  MaxRows = 4
  MaxDelayed = 1
  MaxQueued = 2
PROPERTIES
  DeletesTheGivenWallet
