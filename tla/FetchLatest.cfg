\* A download of the latest version.
SPECIFICATION UndisturbedSpec
CONSTANTS
    Releases = {v1}
    Commits  = {}
    Latest   = latest
    Upstream = upstream
    Forks    = {}
    Runs    <- MixedRuns
    None     = None
INVARIANTS
    LatestCanBeDownloaded
