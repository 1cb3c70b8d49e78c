SPECIFICATION FairSpec
CONSTANTS
    Keys = {k1}
    Surfaces = {"narrow"}
    Loop = loop
    Triggers = {t1}
    Thresholds = {1, 2}
    MaxCrashes = 1
INVARIANTS
    LogIsEstate
PROPERTIES
    NoFalseAlarm
    GoneReportedAtOne
