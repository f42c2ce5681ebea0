SPECIFICATION Spec
CONSTANTS
  Parts <- SomeParts
  Empty = ""
  MAINNET = "MAINNET"
  Upper <- UpperCase
  Base = 3
  MaxInt = 60
  MaxParts = 4
  MaxDigits = 4
  MaxField = 2
  NoField = NoField
  NotText = NotText
  HashLen = 2
  Transfer = "Transfer"
  RpcBlocks <- SomeBlocks
CHECK_DEADLOCK FALSE
INVARIANT TypeOK NumberKept ChainKept CurrencyKept FieldsKept TransfersKept IdsTellTransactions
