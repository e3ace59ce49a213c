SPECIFICATION Spec
CONSTANTS
  Libraries = {"proofs"}
  a = a
  w1 = w1
  w2 = w2
  c = c
  good = good
  forged = forged
  unchecked = unchecked
  Wishes <- PageWishes
  None = None
  Accounts <- WalletAccounts
  Bound <- OnTheKeyPage
  Options <- PageOptions
  MaxTries <- Tries
  Loads = {l1, l2, l3}
  NoSource = NoSource
  Sources <- AssetSources
  Tampered <- ForgedSources
  Unhashed <- UncheckedSources
  MaxLooks = 2
  MaxLoads = 2
  i1 = i1
  i2 = i2
  o1 = o1
  o2 = o2
  p1 = p1
  p2 = p2
  t1 = t1
  t2 = t2
  k1 = k1
  k2 = k2
  k3 = k3
  k4 = k4
  k5 = k5
  k6 = k6
  Zero = Zero
  Absent = Absent
  Network = Network
  Bundles <- NodeBundles
  Foreign <- OtherBundle
  MaxChanges = 0
  Leaves <- TwoLeaves
  MaxSize = 6
INVARIANT AnchoredIsL3
CHECK_DEADLOCK FALSE
