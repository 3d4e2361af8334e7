\* One device, one browser.
SPECIFICATION FeedSpec
CONSTANT MaxWire = 1
PROPERTY OfflineIsShown
CHECK_DEADLOCK FALSE
