SPECIFICATION ScriptSpec
CONSTANTS
  s1 = s1
  b1 = b1
  o1 = o1
  c1 = c1
  c2 = c2
  c3 = c3
  uri1 = uri1
  Market = Market
  NoAddr = NoAddr
  NoURI = NoURI
  Seller = s1
  Buyer = b1
  Others = {o1}
  OthersCollections = 1
  OthersTokens = 1
  Price = 1
  Users = {s1, b1, o1}
  Deployer = o1
  Contracts = {o1}
  Payable = {s1, o1}
  Collections = {c1, c2, c3}
  MaxTokens = 3
  URIs = {uri1}
  NewCategories = {"Art"}
  UsedCategories = {"Art", "Gaming"}
  Spenders = {Market}
  Recipients = {s1}
  NewOwners = {s1}
  ListingFee = 1
  InitialWallet = 2
  Values = {1}
  Durations = {1}
  MaxTime = 0
  MaxUint = 1
INVARIANTS RegistryConsistent SupplyCheckHolds FailureExplained SwapCompletes
SYMMETRY CollectionSymmetry
CHECK_DEADLOCK FALSE
