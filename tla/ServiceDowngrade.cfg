SPECIFICATION Spec
CONSTANTS
    MaxOrders = 0
    Offered = 1
    MaxReleases = 1
    MaxRestarts = 0
    MaxFaults = 0
PROPERTIES
    NeverDowngrades
