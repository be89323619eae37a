CONSTANTS
  Chars = {"a"}
  Blank = " "
  NUL = NUL
  BS = BS
  NULL = NULL
  CmdlineCharMax = 3
  HistoryMax = 2
  Separator = ";"
  SQuote = "'"
  DQuote = "q"
  Escape = "/"
  UserCommands <- MCUser
  BuiltinCommands <- MCBuiltin
  Lines <- MCLines
SPECIFICATION Spec
INVARIANTS BufferSound ScreenShowsLine HistoryIsRecent CommandsInOrder
PROPERTY ImplementsEditor
