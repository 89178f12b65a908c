SPECIFICATION FairSpec
CONSTANTS
  ByteBase = 4
  MaxBuffered = 2
  MaxTyped = 2
  MaxSent = 1
  MaxResets = 1
INVARIANTS FreshRunSeesNoResidue
