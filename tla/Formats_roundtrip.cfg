SPECIFICATION FormatsSpec
CONSTANTS
    Stored <- MCStored
    Texts <- MCTexts
    Alias <- MCAlias
    Statuses <- MCStatuses
    MaxTitle = 3
    MaxDescription = 3
    MaxTags = 2
    MaxImportRows = 3
    Absent = Absent
    Tasks = {1, 2, 3, 4}
    Existing = {1, 2, 3}
    Queries <- MCQueries
    DefaultLimit <- MCDefaultLimit
    MaxLimit = 3
    MaxChanges = 2
    NaN = NaN
    Feeds <- MCFeeds
    Bases <- MCBases
    Width = 4
    MaxRecurrences = 3
    None = None
INVARIANTS ImportSafety ListSafety FeedSafety
PROPERTY DueSteps
CHECK_DEADLOCK FALSE
