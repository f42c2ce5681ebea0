SPECIFICATION Spec
CONSTANTS
  Parts = {"", "MAINNET", "ETH", "TRX", "BTC", "sepolia", "t", "x", "7"}
  Empty = ""
  MAINNET = "MAINNET"
  Upper <- UpperOf
  Types = {"ETH", "TRX", "BTC"}
  Networks = {"MAINNET", "sepolia"}
  Factories = {"ETH", "TRX"}
  Trx = "TRX"
  Files <- MCFiles
  NoFile = NoFile
  NoAgent = NoAgent
  NoChain = NoChain
  Contracts = {"t"}
  Ids <- MCIds
  Requests = {r1, r2}
INVARIANT TypeOK ServesAll RightAnswers ListIsComplete
