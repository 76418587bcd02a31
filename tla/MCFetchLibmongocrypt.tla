------------------------ MODULE MCFetchLibmongocrypt ------------------------
(***************************************************************************)
(* FetchLibmongocrypt for TLC: sets of command lines to choose from, and   *)
(* the symmetry of releases.                                               *)
(***************************************************************************)
EXTENDS FetchLibmongocrypt, TLC

Build(ref, url, clean)  == [build |-> TRUE, clean |-> clean, dynamic |-> FALSE,
                            skipBindings |-> FALSE, ref |-> ref, url |-> url]
Download(ref, skip)     == [build |-> FALSE, clean |-> FALSE, dynamic |-> FALSE,
                            skipBindings |-> skip, ref |-> ref, url |-> Upstream]
SkipBindings(a)         == [a EXCEPT !.skipBindings = TRUE]
Dynamic                 == [Download(Latest, FALSE) EXCEPT !.dynamic = TRUE]

\* Downloads of a release and of another ref over what a build leaves, and a run
\* that links libmongocrypt dynamically.
DownloadRuns ==
    {Download(r, FALSE) : r \in Releases} \cup {Download(r, TRUE) : r \in Commits}
    \cup {SkipBindings(Build(Latest, Upstream, FALSE)), Dynamic}

\* Clean builds of a release over everything that may be there: builds from another
\* repository, bindings included, and downloads, finished or not.
CleanRuns ==
    {Build(r, Upstream, TRUE) : r \in Releases}
    \cup {Build(r, f, FALSE) : r \in Releases, f \in Forks}
    \cup {Download(r, TRUE) : r \in Releases}

\* Builds of releases between downloads of them.
MixedRuns ==
    {Build(r, Upstream, FALSE) : r \in Releases} \cup {Download(r, TRUE) : r \in Refs}

Symmetry == Permutations(Releases)
=============================================================================
