SPECIFICATION FairSpec
CONSTANTS
  Transfers = {t1, t2}
  Networks = {n1, n2}
  Nodes = {k1, k2}
  Prices = {1, 2}
  TokenGas = {2}
  NativeGas = 1
  NoOffer = none
INVARIANT TypeOK
PROPERTY ImplementsPayOnce NonceIsUsed
