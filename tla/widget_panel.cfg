SPECIFICATION PanelBuildsSpec
CONSTANTS
    Builds = {"classic", "onyx", "linen", "clay", "atomic", "fluen", "glassmo", "md3", "minimal", "neu", "skuermo", "legacy"}
    MaxAnswers = 2
    MaxUnread = 2
INVARIANTS
    PanelTypeOK
    NothingLingers
CHECK_DEADLOCK FALSE
