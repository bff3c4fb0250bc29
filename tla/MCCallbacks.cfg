SPECIFICATION Spec
CONSTANTS
  u1 = u1
  u2 = u2
  c1 = c1
  uri1 = uri1
  uri2 = uri2
  Market = Market
  NoAddr = NoAddr
  NoURI = NoURI
  Users = {u1, u2}
  Deployer = u1
  Contracts = {u1}
  Payable = {u2}
  Collections = {c1}
  MaxTokens = 2
  URIs = {uri1, uri2}
  NewCategories = {"Sports"}
  UsedCategories = {"Art"}
  Spenders = {Market, u2}
  Recipients = {u2, Market}
  NewOwners = {}
  ListingFee = 1
  InitialWallet = 1
  Values = {1}
  Durations = {1}
  MaxTime = 0
  MaxUint = 1
INVARIANTS SupplySynced ItemURIMatches
PROPERTY ImplementsEscrow
CHECK_DEADLOCK FALSE
