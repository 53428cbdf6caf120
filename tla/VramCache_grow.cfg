SPECIFICATION Spec
CONSTANTS
  None = None
  NLayers = 2
  NExperts = 3
  SlotBytes <- MCSlotBytes
  Granule = 4
  Heats <- TwoHeats
  Total = 8
  Reserve = 1
  Slack = 0
  Cap = 4
  MaxSwaps = 2
  OtherPrograms <- NoneOrTwo
  DuringGrow = TRUE
INVARIANT
  MapsAgree
