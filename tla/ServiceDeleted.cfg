SPECIFICATION FairSpec
CONSTANTS
    MaxOrders = 0
    Offered = 0
    MaxReleases = 0
    MaxRestarts = 0
    MaxFaults = 0
PROPERTIES
    DeletedKeepsRunning
