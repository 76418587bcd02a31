\* A build that is skipped although ./deps holds something else.
SPECIFICATION UndisturbedSpec
CONSTANTS
    Releases = {v1, v2}
    Commits  = {}
    Latest   = latest
    Upstream = upstream
    Forks    = {}
    Runs    <- MixedRuns
    None     = None
SYMMETRY Symmetry
INVARIANTS
    BuildInstallsRequested
