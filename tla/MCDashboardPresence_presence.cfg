SPECIFICATION PresenceSpec
CONSTANTS
  ann1 = ann1
  ann2 = ann2
  bob1 = bob1
  ann = ann
  bob = bob
  k1 = k1
  k2 = k2
  k3 = k3
  Nothing = Nothing
  Client = {ann1, ann2, bob1}
  User = {ann, bob}
  UserOf <- Tabs
  Watchable = {k1, k2, k3}
  Own <- OneTenant
  MaxFrames = 2
SYMMETRY Alike
CHECK_DEADLOCK FALSE
INVARIANTS ViewersUpToDate OnlyConnectedAreIndexed WatchesLastAsked
