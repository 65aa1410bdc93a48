CONSTANTS
  Continue = 32
  Groups = 3
  TagLimit = 4096
  Fixed32 = 1
  Fixed64 = 2
  Words <- MCWords
  Lossy = "lossy"
  NaNByte = 63
  Null = Null
  Descriptors <- MCDescriptors
  Block = 4
  Replies <- MCReplies
  Fragile <- MCFragile
  Headers <- MCHeaders
  Statuses <- MCStatuses
  Depth = 6
SPECIFICATION Spec
INVARIANTS
  WholeRepliesAreUnderstood
  TornAnswersArePrefixes
  ScoresAgree
  BonusesReachTheirCharacter
  SkillsFollowRows
  NoRankedUserLost
  TrainedFlagIsOfShownCard
  RowsAreWhole
  MapRowsAreKept
