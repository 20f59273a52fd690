\* 28 years hold every pairing of a weekday with a leap year
CONSTANTS
    FirstYear = 2021
    LastYear = 2048
    MaxRetries = 2
    Expirations = 2
    MinContracts = 2
    Tolerance = 5
    Lookback = 90
    Moments <- MCMoments
    MaxRecords = 1
    Stamps = {1, 2, 3}
    BarStamps = {2, 3, 4}
    BarWindow = 1
    MinPerSnapshot = 2
    Limit = 2
    MaxRead = 4
SPECIFICATION Spec
INVARIANTS
    HolidayTablesHold
    FeedKeepsContract
    ReplayIsFaithful
PROPERTIES
    NoSessionMissed
\* a calendar at the end of its years and a file that cannot be read stop
CHECK_DEADLOCK FALSE
