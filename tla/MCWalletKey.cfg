CONSTANTS
  Wallet = {w1, w2}
  None = None
  w1 = w1
  w2 = w2
  Named = {w2}
  MaxCalls = 2
SPECIFICATION Spec
INVARIANTS
  KeyIsOfWallet
