SPECIFICATION BuildsFairSpec
CONSTANTS
    Builds = {"classic", "onyx", "linen", "clay", "atomic", "fluen", "glassmo", "md3", "minimal", "neu", "skuermo", "legacy"}
    Guarded = {"classic"}
    MaxSends = 2
    Depth <- MCDepth
    MaxTokens = 1
    HistoryLimit = 3
INVARIANTS
    TypeOK
    StorageAgrees
    OneRequest
    AnswerIsWhole
    HistoryIsScreen
    NewStartsClean
PROPERTY AnswersSettle
CHECK_DEADLOCK FALSE
