CONSTANTS
    Requests = {r1, r2}
    r1 = r1
    r2 = r2
    Pieces = 2
    MaxTries = 1
SPECIFICATION FairSpec
INVARIANTS TypeOK ResultIsReal FailuresHaveCause CallbacksFound ReportedProvider SettingsApplied
PROPERTIES SessionEnds ImplementsContextProtocol SessionAdvances
CHECK_DEADLOCK FALSE
