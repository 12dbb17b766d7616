SPECIFICATION Spec
CONSTANTS
  t1 = t1
  t2 = t2
  a1 = a1
  a2 = a2
  a3 = a3
  out = out
  usdt = usdt
  o1 = o1
  o2 = o2
  o3 = o3
  m0 = m0
  m1 = m1
  m2 = m2
  Transfers = {t1}
  NoTransfer = NoTransfer
  From <- Payers
  To <- ToA2
  AssetOf <- OneAsset
  Amount <- Ones
  Dust = {}
  Addresses = {a1, a2, a3}
  Assets = {usdt}
  Orders = {o1, o2, o3}
  NoOrder = NoOrder
  Blocks = {m0, m1, m2}
  NoBlock = NoBlock
  Parent <- Line
  BlockHeight <- Depths
  BlockTime <- Depths
  Never = 99
  Required = 1
  Cooldown = 1
  Carries <- Cargo
  Hidden = {}
  StartDb <- Fresh
  Tokens = {usdt}
  HdIndex <- Indexes
  Wants <- WantOne
  Ttl = 4
  Extension = 1
  MaxLifetime = 2
  PoolMinFree = 1
  PoolInitialSize = 1
  PoolMaxSize = 2
  Lookback = 1
  Operator = {}
  MaxTime = 4
INVARIANT
  AddressServesOneOrder
SYMMETRY SameOrders
CHECK_DEADLOCK FALSE
