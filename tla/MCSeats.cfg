\* Two seats and two terminals, two keys and two buttons.
SPECIFICATION MCSpec
CONSTANTS
  Seats = {"s1", "s2"}
  Terms = {"t1", "t2"}
  KeysOf <- OneKeyboard
  None = None
  MaxSources = 3
  Length = 2
  MaxSends = 2
  Windows = {"w1"}
  NoWindow = None
  MaxOffers = 3
  MaxTypes = 2
  MaxReads = 2
  NoStash = None
  Heights = {0, 2, 3}
  Cells = {1, 2}
  Rows = {1}
  View = 1
  Delayed = TRUE
  ByCells = TRUE
  ConfRows = 2
  MaxHeight = 4
  Buttons = {"left", "right"}
  Left = "left"
  Shared = "server's"
  MaxKeymaps = 2
  MaxWindows = 4
  Modifiers = {"shift"}
  ComboKeys = {"k"}
  Override = {"shift"}
  MaxLines = 3
INVARIANTS
  KeyboardConsistent
  ImeKept
  
  ResizeSettles
  CopiesSent
  
  SetsCounted
  BindingsOwned
CHECK_DEADLOCK FALSE
