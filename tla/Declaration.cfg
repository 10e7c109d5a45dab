SPECIFICATION Spec
CONSTANTS
  Base = 4
  Other = Other
  None = None
  Structs <- MCStructs
  LastConnection = 5
  FirstEnhanced = 9
  FlagBits <- MCFlagBits
  Releases <- MCReleases
  Targets <- MCTargets
  Spelling <- MCSpelling
  Declarations <- MCDeclarations
  Histories <- MCHistories
  Answers <- MCAnswers
  MaxParams = 5
INVARIANTS OneVariant EncodesLayout SendsDocumented ReadsReturns
