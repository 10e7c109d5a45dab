SPECIFICATION Spec
CONSTANTS
  A = A
  B = B
  Z = Z
  E = E
  x = x
  y = y
  z = z
  ev = ev
  L = L
  M = M
  Narrow = Narrow
  Wide = Wide
  None = None
  Unresolved = Unresolved
  Versions = {1, 2, 3}
  Opcodes = {A, B, Z, E}
  Names = {ev, x, y, z}
  Profiles = {0, 1}
  Layouts = {Unresolved, L, M}
  Core = {Z, E}
  CoreEvents = {E}
  OpcodeOrder <- MCOpcodeOrder
  NameOrder <- MCNameOrder
  Widths <- MCWidths
  StructIn <- MCStructIn
  BearerIn <- MCBearerIn
  Programs <- MCPrograms
  Requests = {{1, 3}}
  Snapshots <- MCSnapshots
  AnnotationFiles <- MCAnnotationFiles
INVARIANTS
  ReadsBack
  RunsMaximal
  MergedFaults
  SegmentsExact
  AnnotationsAgree
  DistinctSuffice
  CompiledFits
  DispatchExact
