\* Clean builds and downloads of a release, over builds from a fork and downloads;
\* once faults stop, they succeed.
SPECIFICATION FairSpec
CONSTANTS
    Releases = {v1}
    Commits  = {}
    Latest   = latest
    Upstream = upstream
    Forks    = {fork}
    Runs    <- CleanRuns
    None     = None
INVARIANTS
    CleanBuildInstallsRequested
    CleanRunsRecover
PROPERTIES
    CleanRetriesSucceed
    RunsAdvance
