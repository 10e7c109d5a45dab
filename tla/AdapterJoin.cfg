SPECIFICATION FairSpec
CONSTANTS
  c1 = c1
  c2 = c2
  b1 = b1
  b2 = b2
  main = main
  reset = reset
  other = other
  Rsp = Rsp
  None = None
  Cancelled = Cancelled
  WriteError = WriteError
  Buffers = {b1}
  Kinds = {"event"}
  Undecodable = {}
  ResponseCoded = {}
  Clients = {c1, c2}
  Tasks = {main}
  TaskOf <- OneTask
  Opcodes = {reset, other}
  Reset = reset
  CommandFits = {TRUE}
  CanCancel = FALSE
  Ids = {1, 2, 3}
INVARIANTS
  AnswerIsOwn
PROPERTIES
  ImplementsExchange
  ExecCompletes
