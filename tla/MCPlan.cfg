CONSTANTS
  Parts = {"tools", "room"}
  Rejected = Rejected
  NotGiven = NotGiven
  NoAnswer = NoAnswer
  None = None
  CentUnits = 10000
  Contract <- TheContract
  Balances <- Purses
  Outside <- Elsewhere
  Hour <- AnHour
  Totals <- SmallTotals
  WeightLists <- SmallWeights
  DebtLists <- SmallDebts
  McpInputs <- Inputs
  Payers <- SomePayers
  Expiries <- SomeExpiries
  Receipt <- Dinner
  Proposals <- TwoProposals
  Wallets <- RoomWallets
  Spenders <- TheSpender
  Validity = 2
  MaxTime = 4
SPECIFICATION Spec
INVARIANTS
  EngineSound
  PlanHonoured
\* One tool call ends a behaviour of the tools, and an executed, failed or
\* stranded tab one of the room.
CHECK_DEADLOCK FALSE
