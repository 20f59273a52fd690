SPECIFICATION Spec
CONSTANTS
    MaxJob = 2
    MaxNow = 3
    MaxCrash = 1
    TicksPerHour = 1
    HoursPerDay = 2
    DaysPerWeek = 2
    DefaultHour = 1
    Config = {c1, c2}
    Default = c1
    Grid = {c1, c2}
    Score = {0, 1}
INVARIANTS
    ReportsAreTrue
    NextRunIsEarliest
    SchedulesDoNotStack
PROPERTIES
    QueuedIsTaken
