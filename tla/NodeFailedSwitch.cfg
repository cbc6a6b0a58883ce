SPECIFICATION FairNodeSpec
CONSTANTS
  g = g  a1 = a1  a2 = a2  a3 = a3  b1 = b1  b2 = b2
  c1 = c1  c2 = c2  c3 = c3  d2 = d2
  t1 = t1  t2 = t2  t3 = t3  t4 = t4  i1 = i1  i2 = i2  i3 = i3
  Block <- FinalBlock
  Prev <- FinalPrev
  Height <- FinalHeight
  TxsOf <- FailingTxsOf
  PowOf <- FinalPow
  NotBefore <- FinalNotBefore
  Genuine <- C3Forged
  Sound <- FinalBlock
  AltSound <- FinalBlock
  WellPaid <- FinalWellPaid
  NextDifficulty <- FinalDifficulty
  Genesis = g
  Tx <- RingTx
  Image <- TreeImage
  ImagesOf <- NodeImagesOf
  ForkHeight = 0
  Checkpoints = {a1}
  KeepAlt = TRUE
  Allowed = {"crash", "pop", "storage", "clockback"}
  MaxInterventions = 3
  MaxClock = 1
  WithinPolicy = {t1, t2, t3}
  Weight <- NodeWeight
  Fee <- NodeFee
  MaxWeight = 2
  Livetime = 0
  AltLivetime = 1
  RingOf <- NodeRingOf
  Arriving = {t3}
  Methods = {"Fluff"}
PROPERTY LocksReleased
CHECK_DEADLOCK FALSE
