SPECIFICATION ReportSpec
CONSTANTS
    Buckets = 3
    BUFFER_SIZE = 2
    MaxEvents = 4
INVARIANTS ReportTypeOK ShownOnce NoSilentLoss
PROPERTIES WalkEnds
