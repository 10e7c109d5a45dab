SPECIFICATION Spec
CONSTANTS
  local = local
  free = free
  n1 = n1
  n2 = n2
  n3 = n3
  n4 = n4
  None = None
  Heads = {local, free}
  Nodes = {n1, n2, n3, n4}
INVARIANTS
  RingsMatch
PROPERTIES
  ImplementsQueues
