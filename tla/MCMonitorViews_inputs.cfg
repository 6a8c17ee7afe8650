SPECIFICATION Spec
CONSTANTS
  None = None
  Omitted = Omitted
  Undecodable = Undecodable
  Unlinkable = Unlinkable
  Unsafe = Unsafe
  Junk = Junk
  Workspaces <- MCWorkspaces
  Slugs = {"s1"}
  FilterVocabulary <- MCFilters
  SortVocabulary = {"recency_desc", "recency_asc", "duration_desc", "duration_asc"}
  DefaultSort = "recency_desc"
  QueryLimit = 2
  RunsPage = 1
  RenderAllCap = 2
  UnlinkableIds = {4}
  Unreadable = Unreadable
  NoUnit = NoUnit
  MaxClusters = 4
  MemberPageSize = 1
  EdgePageSize = 2
  NoKey = NoKey
  Families <- MCFamilies
  ExecutionStates <- MCStates
  FamilyOf <- MCFamilyOf
  NoFamily = NoFamily
  GroupPageSize = 1
INVARIANTS
  PaneNeverMovesTheReader
  LinksReachTheirRuns
  RunsAreAllReachable
  RefusedRowsAreCounted
  ZoomHidesNothing
  SiblingsAreAllGrouped
CHECK_DEADLOCK FALSE
