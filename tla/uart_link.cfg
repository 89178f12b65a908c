SPECIFICATION FairSpec
CONSTANTS
  ByteBase = 6
  MaxBuffered = 2
  MaxTyped = 5
  MaxSent = 3
  MaxResets = 2
INVARIANTS TypeOK LinkKeepsBytes
PROPERTIES ImplementsChannel EventuallyReceived
