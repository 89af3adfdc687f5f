SPECIFICATION FairSpec
CONSTANTS
    s1 = s1
    s2 = s2
    minute = minute
    east = east
    utc = utc
    Ids = {s1, s2}
    Crons <- OneCron
    Zones <- TwoZones
    UTC = utc
    Period <- Periods
    Shift <- Shifts
    Slots <- TwoSlots
    MaxTime = 3
    MaxEdits = 1
    MaxFaults = 1
    NoRow = NoRow
    Deleted = Deleted
    NoJob = NoJob
    NoEdit = NoEdit
    NoTime = NoTime
PROPERTIES
    DueIsFired
INVARIANTS TypeOK FiredOnce DisabledQuietens RunsSettle

VIEW View
