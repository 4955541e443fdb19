SPECIFICATION RSpec
CONSTANTS
  Table = 2
  Superframes = 2
  Depths = 256
  Spaces <- MCSpaces
  Directory = 2
  Small = {0}
  Sigma0Fpages <- MCSigma0
  Scenarios <- MCScenarios
  OneSize = FALSE
INVARIANTS
  LinksDecoded
