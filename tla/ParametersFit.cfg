SPECIFICATION Spec
CONSTANTS
  Base = 256
  Other = Other
  None = None
  Structs <- NoStructs
  LastConnection = 3839
  FirstEnhanced = 59904
  FlagBits = {0, 1, 2, 3, 4, 5, 6, 7}
  Releases <- MCReleases
  Targets <- MCTargets
  Spelling <- Spelled
  Declarations <- MCDeclarations
  Histories <- MCHistories
  Answers <- MCAnswers
  MaxParams = 255
INVARIANTS ParametersFit
