CONSTANTS
    QC_PB_MAX_LEN = 3
    PB_CAP = 2
    MaxSets = 2
    MaxCopies = 2
    MaxTexts = 3
    MaxCopyFailures = 1
    MaxPasteFailures = 1
    MaxRestarts = 1
SPECIFICATION FairPasteSpec
INVARIANTS PublishedWhole NeverEchoed
PROPERTIES QueuedTextEnds CopyReachesFrontEnd
