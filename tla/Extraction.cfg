\* A release that is refused, and a call that has returned, end the run.
SPECIFICATION Spec
CONSTANTS
  Base = 4
  Other = Other
  None = None
  Return = Return
  Unwritten = Unwritten
  Structs <- MCStructs
  Records <- MCRecords
  Releases <- MCReleases
  Arguments <- MCArguments
  Replies <- MCReplies
  Payloads <- MCPayloads
  Capacity = 10
CHECK_DEADLOCK FALSE
INVARIANTS LayoutsAreSent LayoutsAreRead
