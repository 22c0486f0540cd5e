SPECIFICATION FairSpec
CONSTANTS
  Nothing = Nothing
  Blank = Blank
  Garbage = Garbage
  Amounts = {0, 1, 2}
  Counts = {1, 2}
  Configs <- MCConfigs
  Proposals <- MCProposals
  FirstContainers <- MCFirst
  MaxEdits = 1
  MaxFaults = 1
INVARIANTS
  ResourcesTypes
PROPERTIES
  KeepsContract
  SlotCoversResize
  StatusTruthful
  ScalingBooked
  Settles
