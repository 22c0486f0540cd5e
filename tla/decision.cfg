SPECIFICATION FairSpec
CONSTANTS
  none = none
  NoTarget = none
  MaxInt = 15
  WantChoices <- MCWants
  CeilingChoices <- MCCeilings
  SpecChoices <- MCSpecs
  Counts = {0, 3, 6}
INVARIANTS
  ResolveFollowsOrder
  AsymmetricAgrees
PROPERTIES
  NeverPastTheGoal
  ReachesTheGoal
