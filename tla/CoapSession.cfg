\* Two observations for one slot, an image of three blocks.
SPECIFICATION FairSpec
CONSTANTS
  Observer = {o1, o2}
  Block = Block
  None = None
  MaxObs = 1
  NumBlocks = 3
  MaxVal = 1
  Token = {1, 2, 3, 4, 5, 6}
  Duplicates = FALSE
INVARIANTS SessionTypeOK BlockMatches ForgottenOnlyWhenFull
PROPERTIES ImplementsChannels ObserverCatchesUp
