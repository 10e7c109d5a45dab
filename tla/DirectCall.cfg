SPECIFICATION Spec
CONSTANTS
  Base = 4
  Other = Other
  None = None
  Structs <- MCStructs
  Commands <- MCCommands
  Encodings <- MCEncodings
INVARIANTS
  CalledIffLaidOut
  ArgumentsAreParameters
  ReturnsComeBack
  RejectedForItsReturns
