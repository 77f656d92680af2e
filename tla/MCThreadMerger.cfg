SPECIFICATION Spec
CONSTANTS
  Engines = {e1, e2, e3}
  LeaseTerm = 3
  MaxOverlap = 1
CHECK_DEADLOCK FALSE
INVARIANTS
  LeasesMatchMerge
  OneThreadDraws
  NeverLeftDisabled
  TornDownHoldsNoLease
