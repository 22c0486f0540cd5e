SPECIFICATION FairSpec
CONSTANTS
  Nothing = Nothing
  Policies = {"p1", "p2", "p3"}
  Customs <- MCCustoms
  Plugins <- MCPlugins
  RuleBook <- MCRuleBook
  Objectives <- MCObjectives
  AlertRules <- MCAlertRules
  Worlds <- MCWorlds
  MaxAge = 2
  MaxMoves = 1
  MaxFaults = 1
INVARIANTS
  SignalTypes
  VerdictTrue
  AlertGrounded
PROPERTIES
  AlertsTrue
  AlertsFire
