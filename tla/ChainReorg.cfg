SPECIFICATION FairSpec
CONSTANTS
  g = g  a1 = a1  a2 = a2  a3 = a3  b1 = b1  b2 = b2
  c1 = c1  c2 = c2  c3 = c3  d2 = d2
  t1 = t1  t2 = t2  t3 = t3  t4 = t4  i1 = i1  i2 = i2  i3 = i3
  Block <- TreeBlock
  Prev <- TreePrev
  Height <- TreeHeight
  TxsOf <- TreeTxsOf
  PowOf <- TreePow
  NotBefore <- TreeNotBefore
  Genuine <- TreeGenuine
  Sound <- TreeBlock
  AltSound <- TreeBlock
  WellPaid <- TreeWellPaid
  NextDifficulty <- TreeDifficulty
  Genesis = g
  Tx <- TreeTx
  Image <- TreeImage
  ImagesOf <- TreeImagesOf
  ForkHeight = 0
  Checkpoints = {}
  KeepAlt = FALSE
  Allowed = {"crash", "pop"}
  MaxInterventions = 2
  MaxClock = 1
INVARIANTS MainValid CacheCoherent AltStoreSound ReorgGainsWork
PROPERTIES SwitchAllOrNothing NoTxLost ImplementsLedger HeaviestAdopted
CHECK_DEADLOCK FALSE
