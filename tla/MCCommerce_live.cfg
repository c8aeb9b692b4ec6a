CONSTANTS
  alice = alice
  bob = bob
  carol = carol
  o1 = o1
  o2 = o2
  o3 = o3
  live = live
  local = local
  gratis = gratis
  video = video
  ebook = ebook
  System = System
  NoMember = NoMember
  Members <- TwoMembers
  Orders = {o1, o2, o3}
  LiveRuns = {live, gratis}
  LocalRuns = {}
  Recordings = {}
  Contents = {}
  Uncapped = {gratis}
  Price <- PriceOf
  Capacity <- OneSeat
  Seller <- SellerOf
  Adjustments <- Deltas
  MaxAdjusted = 2
SYMMETRY OrderSymmetry
SPECIFICATION Spec
INVARIANTS
  BalancesExplained
  HoldsBackReservations
  SeatsRespected
  SettlementsAgree
CHECK_DEADLOCK FALSE
