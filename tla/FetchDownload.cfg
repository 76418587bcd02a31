\* Downloads of a release and of other refs, over builds.
SPECIFICATION Spec
CONSTANTS
    Releases = {v1}
    Commits  = {h}
    Latest   = latest
    Upstream = upstream
    Forks    = {}
    Runs    <- DownloadRuns
    None     = None
INVARIANTS
    TypeOK
    ReleaseArchivesVerified
    DownloadInstallsRequested
    CleanRunsRecover
PROPERTIES
    DepsKeptUntilReplaced
