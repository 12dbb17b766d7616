SPECIFICATION Spec
CONSTANTS
  t1 = t1
  t2 = t2
  a1 = a1
  a2 = a2
  a3 = a3
  out = out
  usdt = usdt
  o1 = o1
  o2 = o2
  o3 = o3
  m0 = m0
  m1 = m1
  m2 = m2
  Transfers = {t1, t2}
  NoTransfer = NoTransfer
  From <- Payers
  To <- ToA2
  AssetOf <- OneAsset
  Amount <- TwoAndOne
  Dust = {t2}
  Addresses = {a1, a2, a3}
  Assets = {usdt}
  Orders = {o1, o2}
  NoOrder = NoOrder
  Blocks = {m0, m1, m2}
  NoBlock = NoBlock
  Parent <- Line
  BlockHeight <- Depths
  BlockTime <- Times
  Never = 99
  Required = 1
  Cooldown = 1
  Carries <- Cargo
  Hidden = {t1}
  StartDb <- Fresh
  Tokens = {usdt}
  HdIndex <- Indexes
  Wants <- WantTwoOrThree
  Ttl = 1
  Extension = 1
  MaxLifetime = 2
  PoolMinFree = 1
  PoolInitialSize = 1
  PoolMaxSize = 2
  Lookback = 1
  Operator = {"extend", "cancel", "force", "attribute", "resolve", "disable"}
  MaxTime = 2
INVARIANTS
  TypeOK
  NoAddressStranded
PROPERTIES
  CreditedToHolder
  TerminalStays
  PaidNotExpired
  HolderKeepsAddress
SYMMETRY SameOrders
CHECK_DEADLOCK FALSE
