\* Two hooks under the lock and one without it; the daemon and a hook; the rollout.
SPECIFICATION MCFairSpec
CONSTANTS
  Nil = Nil
  l1 = l1
  s1 = s1
  Locked = {l1, l2}
  Unlocked = {u1}
  Served = {}
  Daemon = d
  CanGiveUp = TRUE
  CanBeSlow = TRUE
  Call = {1, 2}
  Status <- Statuses
  Wide = {1}
  InText = {2}
  MaxDeliveries = 2
  MaxLoops = 2
  MaxErrors = 0
  MaxCrashes = 0
CHECK_DEADLOCK FALSE
INVARIANTS FreshLocksAreKept RoutedOnce
PROPERTIES LossNeedsACause EveryHookEnds EventuallyRouted
