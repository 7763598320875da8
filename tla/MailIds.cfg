SPECIFICATION Spec
CONSTANTS
    Cap = 2
    MaxMails = 3
INVARIANTS IdsNeverReused
CHECK_DEADLOCK FALSE
