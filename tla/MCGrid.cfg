\* Every sequence of controls with counts up to two, on a screen resized between
\* three lines and one; rows of five columns with three links; sixels of two
\* pixels; the others as MCGrid instantiates them.
SPECIFICATION MCSpec
CONSTANTS
  Sizes <- ScreenSizes
  MaxCount = 2
  None = None
  RowCols = 5
  Ids = {"a", "b", "c"}
  Sixel = 2
  MaxWidth = 2
  MaxHeight = 5
  Pans = {1, 2}
  Pads = {1, 2}
  MaxRow = 6
  MaxInput = 5
  AppIds = {"x"}
  NoId = None
  Icons = {"i", "j"}
  NoIcon = None
  CacheSize = 1
  MaxMessages = 2
  MaxHelpers = 2
INVARIANTS
  
  ReflowKeeps
  RangesExact
  
  ImagesKept
  
  
  
CHECK_DEADLOCK FALSE
