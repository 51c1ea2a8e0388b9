SPECIFICATION ParserSpec
CONSTANTS
  Bytes = {7, 24, 27, 36, 49, 58, 59, 61, 80, 88, 91, 93, 113, 127, 128, 191, 195, 237, 244}
  MaxParams = 2
  MaxSubs = 1
  MaxPrivates = 1
  ValueMod = 100
  MaxUnit = 5
  MaxString = 4
INVARIANTS
  ParserKept
PROPERTY MeansWhatWasSent
