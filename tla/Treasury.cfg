\* Two citizens, an escrow, a poll and a work of art.
SPECIFICATION Spec
CONSTANTS
  Citizens = {ann, bob}
  Gov = "gov"
  Burn = "burn"
  Escrows = {"e"}
  Proposals = {"p"}
  Amounts = {1, 2}
  Grant = 2
  Bond = 1
  Income = 1
  Share = 1
  Quorum = 2
  FeeOf <- Fees
  TaxOf <- Taxes
  MarketOf <- Markets
  RoyaltyOf <- Royalties
  WeightOf <- Weights
  Salary <- Alike
  SupplyShare = 2
  Scenes <- Uses
  Outsider = "panel"
  MaxGranted = 4
  MaxCrashes = 1
SYMMETRY Alikes
VIEW Seen
INVARIANTS  LocksAreAccounted 
CHECK_DEADLOCK FALSE
