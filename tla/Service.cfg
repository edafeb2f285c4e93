SPECIFICATION Spec
CONSTANTS
  People = {1, 2, 3}
  Households = {11, 12}
  Homes <- MCHomes
  Members <- MCMembers
  MaxWrites = 1
  MaxReads = 1
  PerPage = 2
  Records = 3
  Offsets = {0}
  Seconds = 2
  Requests <- MCRequests
  Samples = 2
  MaxSeen = 2
  Rates = {0, 2}
  Minute = 2
  Keep = 2
  MaxBytes = 3
  Sizes = {1, 3}
  Numbers = {1, 2}
  Contents = {1, 2}
  Chosen = {1}
  Lists <- MCLists
  MaxActs = 2
  MaxCrashes = 1
  TornRebuild = FALSE
  Readds = FALSE
  Origins <- MCOrigins
  Patterns <- MCPatterns
  Forms <- MCForms
  MaxEdits = 2
INVARIANTS
  PagesCover
  EchoLinked
  AccusesOnlyTheMissing
  SavedStays
  UrlKept
  MaySendMayRead
  BrowsersObey
PROPERTIES
  StalenessIsSwept
  EverySampleChecked
  NewestKept
CHECK_DEADLOCK FALSE
