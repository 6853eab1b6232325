CONSTANTS
  c1 = c1
  c2 = c2
  Channels <- MCChannels
  MaxMessages = 4
  PrewarmMessageCount = 1
  Limits = {0, 1, 3}
SPECIFICATION Spec
SYMMETRY Symmetry
INVARIANT CleanShutdownPersistsAll
