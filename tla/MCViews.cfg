SPECIFICATION Spec
CONSTANTS
  u1 = u1
  u2 = u2
  c1 = c1
  uri1 = uri1
  Market = Market
  NoAddr = NoAddr
  NoURI = NoURI
  Users = {u1, u2}
  Deployer = u1
  Contracts = {}
  Payable = {u1, u2}
  Collections = {c1}
  MaxTokens = 2
  URIs = {uri1}
  NewCategories = {}
  UsedCategories = {"Art"}
  Spenders = {Market}
  Recipients = {}
  NewOwners = {}
  ListingFee = 1
  InitialWallet = 2
  Values = {0, 1, 2}
  Durations = {1}
  MaxTime = 0
  MaxUint = 2
INVARIANTS FloorPriceLowest SearchByPrice PurchasesAllFound
CHECK_DEADLOCK FALSE
