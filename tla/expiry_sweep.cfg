CONSTANTS
    NumKeys = 5
    Buckets = 2
    SampleSize = 2
    MaxPasses = 2
    Percent = 25

SPECIFICATION FairSpec
PROPERTIES SweepsLoneKeys BacklogReclaimed
