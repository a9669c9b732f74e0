SPECIFICATION SysSpec
CONSTANTS
  s1 = s1  s2 = s2  s3 = s3  sText = sText
  e1 = e1  e2 = e2  e3 = e3
  None = None  Null = Null  Garbage = Garbage
  Symbols = {s1, s2, s3}
  Sections = {sText}
  Files <- MCFiles
  Offsets = {3, 6}
  Errors = {e1, e2, e3}
  CustomErrors = {e3}
  Programs <- MCPrograms
  LoadAddresses <- Nowhere
  Images <- OneImage
  Locations = {103, 106}
  PatchSize = 3
  Unreachable = {3}
  Word = 64
INVARIANTS TypeOK SysTypeOK FindsContainingInOneSection ListsEveryThrow ForcesWhatIsListed
INVARIANTS KeepsPromises NothingLeft ForcesOwnError AreaWritesTarget AreaProtectionAsLoaded
PROPERTIES SameAnswer SysImplementsContract ApiReturns
CHECK_DEADLOCK FALSE
