SPECIFICATION Spec
CONSTANTS
  k1 = k1
  k2 = k2
  NoKey = NoKey
  Keys <- MCKeys
  Imports <- NoImports
  MaxRows = 7
  MaxDelayed = 2
  MaxQueued = 2
VIEW StoreView
SYMMETRY KeySymmetry
INVARIANTS
  OneClientPerWallet
PROPERTIES
  MaskedDeleteIsTheConfirmedOne
  ExitLeavesNothing
