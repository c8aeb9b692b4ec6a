CONSTANTS
  alice = alice
  bob = bob
  carol = carol
  o1 = o1
  o2 = o2
  o3 = o3
  live = live
  local = local
  gratis = gratis
  video = video
  ebook = ebook
  System = System
  NoMember = NoMember
  Members = {alice}
  Orders = {o1, o2}
  LiveRuns = {live}
  LocalRuns = {local}
  Recordings = {video}
  Contents = {ebook}
  Uncapped = {}
  Price <- PriceOf
  Capacity <- OneSeat
  Seller <- SellerOf
  Adjustments = {2}
  MaxAdjusted = 2
SYMMETRY OrderSymmetry
SPECIFICATION Spec
INVARIANTS
  OrdersAgree
PROPERTIES
  ImplementsEscrow
CHECK_DEADLOCK FALSE
