SPECIFICATION FairSpec
CONSTANTS
    Keys = {k1}
    Surfaces = {"narrow"}
    Loop = loop
    Triggers = {}
    Thresholds = {3}
    MaxCrashes = 0
PROPERTIES
    GoneReported
