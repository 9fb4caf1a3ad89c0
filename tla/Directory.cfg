SPECIFICATION Spec
CONSTANTS
  None = None
  Ids <- Rows
  DefaultSize = 2
  MaxSize = 3
  Sizes = {0, 1, 9}
  Letters = {"a", "u", "2", "3"}
  Capitals = {"A"}
  Others = {".", "@"}
  Lower <- LowerA
  MaxLength = 5
  NumericMax = 3
  Numeral <- Numbers
  Randoms <- RandomOnes
  Fallbacks <- FallbackOnes
  InitRows = {1}
  Inputs <- TrickyInputs
  Probes <- AllProbes
  SearchDefault = 2
  SearchMax = 3
  Order <- Ranks
INVARIANTS
  TypeOK
  CandidatesUsable
  SearchIsLiteral
  ScanIsExact
