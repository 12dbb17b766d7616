SPECIFICATION FairSpec
CONSTANTS
  t1 = t1
  t2 = t2
  t3 = t3
  a1 = a1
  a2 = a2
  out = out
  trx = trx
  o1 = o1
  m0 = m0
  m1 = m1
  m2 = m2
  m3 = m3
  m4 = m4
  m5 = m5
  f2 = f2
  f3 = f3
  g4 = g4
  Transfers = {t1}
  NoTransfer = NoTransfer
  From <- Payers
  To <- Payees
  AssetOf <- OneAsset
  Amount <- Sums
  Dust = {}
  Addresses = {a1, a2}
  Assets = {trx}
  Orders = {o1}
  NoOrder = NoOrder
  Blocks = {m0, m1, m2, m3, m4, f2, f3}
  NoBlock = NoBlock
  Parent <- Tree
  BlockHeight <- Depths
  BlockTime <- Depths
  Never = 99
  Required = 1
  Cooldown = 1
  Carries <- Cargo
  Main = {m0, m1, m2, m3, m4}
  MaxHeight = 4
  ReorgDepth = 3
  ReceiptsLag = FALSE
  StartDb <- OneOrder
PROPERTY
  CatchesUp
