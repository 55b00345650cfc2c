CONSTANTS
    Days = {1}
    DefaultDays = 2
    Estimate = 3
    Recheck = 1
    Grace = 2
    MaxNow = 4
    MaxTokens = 2
    MaxKeys = 2
    MaxFaults = 1
SPECIFICATION Spec
CHECK_DEADLOCK FALSE
PROPERTY RenewedAsTold
