CONSTANTS
    Job = {j1}
    None = None
    Capacity = 2
    MaxLeases = 1
    MaxOrphans = 1
    MaxCrashes = 0
SPECIFICATION FairSpec
PROPERTIES ChainMoves
