-------------------------- MODULE FetchLibmongocrypt --------------------------
(***************************************************************************)
(* The script that provides the addon with libmongocrypt and builds the    *)
(* bindings (.github/scripts/libmongocrypt.mjs).  It clones and builds the *)
(* library, or downloads a release, or relies on the system's copy.  What  *)
(* a run finds on disk is what earlier runs left there, and those may have *)
(* asked for other versions, failed, or been killed at any point.  The     *)
(* directories are therefore functions from the parts the script's         *)
(* decisions depend on to their contents, and writing or removing a        *)
(* directory is one step per part.                                         *)
(*                                                                         *)
(* External, modelled from how the script uses them: git, cmake, tar, gpg, *)
(* npm and the network.  Any of them may fail or be interrupted.           *)
(***************************************************************************)
EXTENDS FiniteSets, Naturals

CONSTANTS
    Releases,   \* refs with a '.', the tags of releases: "1.18.0"
    Commits,    \* refs without one: hashes and branches
    Latest,     \* the ref "latest"
    Upstream,   \* the default git URL, also the source of the archives
    Forks,      \* other values of --gitURL
    Runs,       \* bound: the command lines that are used, a subset of Arguments
    None

Refs == Releases \cup Commits \cup {Latest}
Urls == Forks \cup {Upstream}

ASSUME RefsAssumption ==
    /\ Latest \notin Releases \cup Commits
    /\ Releases \cap Commits = {}
    /\ Refs \cap {None, "other"} = {}
ASSUME UrlsAssumption == Urls \cap {"archive", "damaged"} = {}

VARIABLES
    clone,       \* ./_libmongocrypt
    tarball,     \* ref -> ./_libmongocrypt-<ref>.tar.gz
    destination, \* ref -> ./_libmongocrypt-<ref>
    deps,        \* ./deps, where binding.gyp looks for libmongocrypt
    bindings,    \* ./build and ./prebuilds: what the addon there was built from
    pc, args,    \* the run: its next step and its arguments
    todo,        \* parts of a directory the current command has yet to write
    fault        \* whether a command of this run failed for a reason of its own

disk == <<clone, tarball, destination, deps, bindings>>
vars == <<clone, tarball, destination, deps, bindings, pc, args, todo, fault>>
-----------------------------------------------------------------------------
\* "stale" stands for files in the others that an installed version did not overwrite,
\* and names that version.
Parts   == {"include", "lib", "lib64", "stale"}
Layouts == {{"include", "lib"}, {"include", "lib64"}}
EmptyDir == [p \in Parts |-> None]
NoClone  == [HEAD |-> None, tree |-> None, VERSION_CURRENT |-> None]

\* The clone c with one more part removed.
OneRemoved(c) == {[c EXCEPT !.HEAD = None], [c EXCEPT !.tree = None],
                  [c EXCEPT !.VERSION_CURRENT = None]} \ {c}

\* A version of libmongocrypt and where it came from: built from the sources of a
\* repository, or unpacked from an archive, whole or damaged.
Version(ref, from) == [ref |-> ref, from |-> from]
Versions == [ref : Refs, from : Urls \cup {"archive", "damaged"}]
ASSUME NoneAssumption == None \notin Versions

\* What calc_release_version writes to VERSION_CURRENT: a release's own tag; for
\* other commits a string that is no ref ("other").
VersionString(v) == IF v.ref \in Releases THEN v.ref ELSE "other"

\* What the addon was built from; with the system's library, nothing of ./deps.
Linked(include, lib) == [include |-> include, lib |-> lib]
System == Linked(None, None)

Arguments ==
    {a \in [build : BOOLEAN, clean : BOOLEAN, dynamic : BOOLEAN,
            skipBindings : BOOLEAN, ref : Refs, url : Urls] :
        \* --clean and --gitURL have a meaning with --build only
        /\ ~a.build => ~a.clean /\ a.url = Upstream
        \* --dynamic overrides all of them
        /\ a.dynamic => ~a.build /\ a.ref = Latest}

ASSUME RunsAssumption == Runs \subseteq Arguments

Ended == {"start", "ok", "failed", "killed"}
Steps == {"remove clone", "git clone", "git checkout", "check built", "configure",
          "install", "resolve", "resolved", "remove destination", "fetch", "verify",
          "unpack", "remove deps", "copy", "rename", "remove bindings", "prebuild"}

Goto(step) == pc' = step /\ UNCHANGED <<args, fault>>
Stay       == UNCHANGED <<pc, args, fault>>

Init ==
    /\ clone       = NoClone
    /\ tarball     = [r \in Refs |-> None]
    /\ destination = [r \in Refs |-> EmptyDir]
    /\ deps        = EmptyDir
    /\ bindings    = None
    /\ pc = "start" /\ todo = {} /\ fault = FALSE
    /\ args \in Runs
-----------------------------------------------------------------------------
(***************************************************************************)
(* main                                                                    *)
(***************************************************************************)

\* Mutant (CleanBuildInstallsRequested): --clean does not reach the clone.
HeadDiffers(a) == clone.HEAD # a.ref

\* HEAD ends in r-<ref> only once `git checkout -b` has finished.
CloneNeeded(a) == a.clean \/ clone.HEAD # a.ref

\* Mutant (CleanRunsRecover): what is checked out is taken for built.
CheckedOutElsewhere(a) == clone.HEAD # a.ref

BuildNeeded(a) == a.clean \/ clone.VERSION_CURRENT # a.ref

\* Mutant (CleanRunsRecover, CleanRetriesSucceed): releases are resolved to commits too.
ResolveAll(a) == "resolve"

\* buildLibmongocryptDownloadUrl
DownloadStart(a) == IF a.ref \in Releases THEN "remove destination" ELSE "resolve"

AfterLibrary(a) == IF a.skipBindings THEN "ok" ELSE "remove bindings"

BeginRun(a) ==
    /\ pc \in Ended
    /\ args' = a /\ fault' = FALSE /\ todo' = {}
    /\ pc' = CASE a.dynamic                     -> AfterLibrary(a)
               [] a.build /\ CloneNeeded(a)     -> "remove clone"
               [] a.build /\ ~CloneNeeded(a)    -> "check built"
               [] OTHER                         -> DownloadStart(a)
    /\ UNCHANGED disk

\* A command fails, the disk is full, the network is down; what the command did
\* so far stays.
Fail ==
    /\ pc \in Steps
    /\ pc' = "failed" /\ fault' = TRUE /\ todo' = {}
    /\ UNCHANGED <<disk, args>>

\* The script is interrupted or its machine goes away.
Kill ==
    /\ pc \in Steps
    /\ pc' = "killed" /\ fault' = FALSE /\ todo' = {}
    /\ UNCHANGED <<disk, args>>

(***************************************************************************)
(* cloneLibMongoCrypt                                                      *)
(***************************************************************************)

RemoveClone ==
    /\ pc = "remove clone"
    /\ \/ clone' \in OneRemoved(clone) /\ Stay
       \/ clone = NoClone /\ UNCHANGED clone /\ Goto("git clone")
    /\ UNCHANGED <<tarball, destination, deps, bindings, todo>>

\* The clone is on the default branch: HEAD names no r-<ref>.
GitClone ==
    /\ pc = "git clone"
    /\ clone' = [clone EXCEPT !.HEAD = "other",
                              !.tree = Version(Latest, args.url)]
    /\ Goto(IF args.ref = Latest THEN "check built" ELSE "git checkout")
    /\ UNCHANGED <<tarball, destination, deps, bindings, todo>>

\* git fetch --tags; git checkout <ref> -b r-<ref>: the files, then HEAD.
GitCheckout ==
    /\ pc = "git checkout"
    /\ \/ /\ clone.tree.ref # args.ref
          /\ clone' = [clone EXCEPT !.tree.ref = args.ref]
          /\ Stay
       \/ /\ clone.tree.ref = args.ref
          /\ clone' = [clone EXCEPT !.HEAD = args.ref]
          /\ Goto("check built")
    /\ UNCHANGED <<tarball, destination, deps, bindings, todo>>

(***************************************************************************)
(* buildLibMongoCrypt                                                      *)
(***************************************************************************)

CheckBuilt ==
    /\ pc = "check built"
    /\ Goto(IF BuildNeeded(args) THEN "configure" ELSE AfterLibrary(args))
    /\ UNCHANGED <<disk, todo>>

\* Mutant (TypeOK): the version that was asked for is recorded as the one built.
ConfigureRequested ==
    /\ pc = "configure"
    /\ clone.tree # None
    /\ clone' = [clone EXCEPT !.VERSION_CURRENT = args.ref]
    /\ todo' = {"include", "lib"}
    /\ Goto("install")
    /\ UNCHANGED <<tarball, destination, deps, bindings>>

\* cmake leaves VERSION_CURRENT in the sources, now or by the end of the build.
Configure ==
    /\ pc = "configure"
    /\ clone.tree # None
    /\ clone' \in {clone, [clone EXCEPT !.VERSION_CURRENT = VersionString(clone.tree)]}
    /\ todo' = {"include", "lib"}
    /\ Goto("install")
    /\ UNCHANGED <<tarball, destination, deps, bindings>>

\* HEAD and VERSION_CURRENT can be there without the sources (an interrupted rm).
ConfigureFindsNothing ==
    /\ pc = "configure"
    /\ clone.tree = None
    /\ Goto("failed")
    /\ UNCHANGED <<disk, todo>>

StaleAfter(p) == IF deps[p] \in {None, clone.tree} THEN deps["stale"] ELSE clone.tree
\* cmake --build . --target install: it overwrites files and removes none.
Install ==
    /\ pc = "install"
    /\ \/ \E p \in todo : /\ deps' = [deps EXCEPT ![p] = clone.tree,
                                                 !["stale"] = StaleAfter(p)]
                          /\ todo' = todo \ {p}
                          /\ Stay /\ UNCHANGED clone
       \/ /\ todo = {}
          /\ clone' = [clone EXCEPT !.VERSION_CURRENT = VersionString(clone.tree)]
          /\ Goto(AfterLibrary(args))
          /\ UNCHANGED <<deps, todo>>
    /\ UNCHANGED <<tarball, destination, bindings>>

(***************************************************************************)
(* downloadLibMongoCrypt                                                   *)
(***************************************************************************)

\* get-commit-from-ref.sh, for a ref that is no release: it clones into the
\* directory that --build uses, and git does not clone over an existing one.
ResolveRef ==
    /\ pc = "resolve"
    /\ \/ /\ clone = NoClone
          /\ clone' = [clone EXCEPT !.HEAD = "other",
                                    !.tree = Version(Latest, Upstream)]
          /\ Goto("resolved")
       \/ clone # NoClone /\ UNCHANGED clone /\ Goto("failed")
    /\ UNCHANGED <<tarball, destination, deps, bindings, todo>>

\* git checkout --detach <ref>, which does not know "latest"; rm -rf.
ResolvedRef ==
    /\ pc = "resolved"
    /\ \/ args.ref = Latest /\ UNCHANGED clone /\ Goto("failed")
       \/ /\ args.ref # Latest
          /\ clone' \in OneRemoved(clone)
          /\ Stay
       \/ /\ args.ref # Latest
          /\ clone = NoClone /\ UNCHANGED clone
          /\ Goto("remove destination")
    /\ UNCHANGED <<tarball, destination, deps, bindings, todo>>

\* Mutant (DepsKeptUntilReplaced): ./deps is emptied along with the destination.
RemoveDestinationAndDeps ==
    /\ pc = "remove destination"
    /\ destination' = [destination EXCEPT ![args.ref] = EmptyDir]
    /\ deps' = EmptyDir
    /\ Goto("fetch")
    /\ UNCHANGED <<clone, tarball, bindings, todo>>

RemoveDestination ==
    /\ pc = "remove destination"
    /\ \/ \E p \in Parts : /\ destination[args.ref][p] # None
                           /\ destination' = [destination EXCEPT ![args.ref][p] = None]
                           /\ Stay
       \/ /\ destination[args.ref] = EmptyDir /\ UNCHANGED destination
          /\ Goto("fetch")
    /\ UNCHANGED <<clone, tarball, deps, bindings, todo>>

\* The archive arrives whole or damaged; libraries are in lib or in lib64.
Fetch ==
    /\ pc = "fetch"
    /\ \E from \in {"archive", "damaged"} :
          /\ tarball' = [tarball EXCEPT ![args.ref] = Version(args.ref, from)]
          /\ fault'   = (from = "damaged")
    /\ todo' \in Layouts
    /\ pc' = IF args.ref \in Releases THEN "verify" ELSE "unpack"
    /\ UNCHANGED <<clone, destination, deps, bindings, args>>

\* Mutant (ReleaseArchivesVerified): gpg's exit code is not looked at.
IgnoreSignature ==
    /\ pc = "verify"
    /\ Goto("unpack")
    /\ UNCHANGED <<disk, todo>>

\* Mutant (RunsAdvance): a damaged archive is fetched again, as often as it takes.
FetchUntilVerified ==
    /\ pc = "verify"
    /\ Goto(IF tarball[args.ref].from = "archive" THEN "unpack" ELSE "fetch")
    /\ UNCHANGED <<disk, todo>>

\* gpg --verify
VerifySignature ==
    /\ pc = "verify"
    /\ Goto(IF tarball[args.ref].from = "archive" THEN "unpack" ELSE "failed")
    /\ UNCHANGED <<disk, todo>>

Unpack ==
    /\ pc = "unpack"
    /\ \/ /\ \E p \in todo :
              /\ destination' = [destination EXCEPT ![args.ref][p] = tarball[args.ref]]
              /\ todo' = todo \ {p}
          /\ Stay /\ UNCHANGED tarball
       \/ /\ todo = {}
          /\ tarball' = [tarball EXCEPT ![args.ref] = None]
          /\ Goto("remove deps")
          /\ UNCHANGED <<destination, todo>>
    /\ UNCHANGED <<clone, deps, bindings>>

\* Mutant (DownloadInstallsRequested): the archive is copied over what is there.
KeepDeps ==
    /\ pc = "remove deps"
    /\ todo' = {p \in Parts : destination[args.ref][p] # None}
    /\ Goto("copy")
    /\ UNCHANGED disk

RemoveDeps ==
    /\ pc = "remove deps"
    /\ \/ \E p \in Parts : /\ deps[p] # None
                           /\ deps' = [deps EXCEPT ![p] = None]
                           /\ Stay /\ UNCHANGED todo
       \/ /\ deps = EmptyDir /\ UNCHANGED deps
          /\ todo' = {p \in Parts : destination[args.ref][p] # None}
          /\ Goto("copy")
    /\ UNCHANGED <<clone, tarball, destination, bindings>>

Copy ==
    /\ pc = "copy"
    /\ \/ /\ \E p \in todo :
              /\ deps' = [deps EXCEPT ![p] = destination[args.ref][p]]
              /\ todo' = todo \ {p}
          /\ Stay
       \/ todo = {} /\ UNCHANGED <<deps, todo>> /\ Goto("rename")
    /\ UNCHANGED <<clone, tarball, destination, bindings>>

\* lib64 is renamed to lib; if that fails (no lib64, or a lib in its place) a lib
\* must be there.
RenameLib64 ==
    /\ pc = "rename"
    /\ \/ /\ deps["lib64"] # None /\ deps["lib"] = None
          /\ deps' = [deps EXCEPT !["lib"] = deps["lib64"], !["lib64"] = None]
       \/ deps["lib"] # None /\ UNCHANGED deps
    /\ Goto(AfterLibrary(args))
    /\ UNCHANGED <<clone, tarball, destination, bindings, todo>>

(***************************************************************************)
(* buildBindings                                                           *)
(***************************************************************************)

RemoveBindings ==
    /\ pc = "remove bindings"
    /\ bindings' = None
    /\ Goto("prebuild")
    /\ UNCHANGED <<clone, tarball, destination, deps, todo>>

\* npm install --ignore-scripts; npm run prebuild; npm run prepare
Prebuild ==
    /\ pc = "prebuild"
    /\ \/ args.dynamic /\ bindings' = System
       \/ /\ ~args.dynamic /\ deps["include"] # None /\ deps["lib"] # None
          /\ bindings' = Linked(deps["include"], deps["lib"])
    /\ Goto("ok")
    /\ UNCHANGED <<clone, tarball, destination, deps, todo>>

PrebuildFindsNothing ==
    /\ pc = "prebuild"
    /\ ~args.dynamic
    /\ deps["include"] = None \/ deps["lib"] = None
    /\ Goto("failed")
    /\ UNCHANGED <<disk, todo>>
-----------------------------------------------------------------------------
Command ==
    \/ RemoveClone \/ GitClone \/ GitCheckout
    \/ CheckBuilt \/ Configure \/ ConfigureFindsNothing \/ Install
    \/ ResolveRef \/ ResolvedRef
    \/ RemoveDestination \/ Fetch \/ VerifySignature \/ Unpack
    \/ RemoveDeps \/ Copy \/ RenameLib64
    \/ RemoveBindings \/ Prebuild \/ PrebuildFindsNothing

Undisturbed == (\E a \in Runs : BeginRun(a)) \/ Command

Next == Undisturbed \/ Fail \/ Kill

Spec == Init /\ [][Next]_vars

\* Nothing fails and nobody interrupts a run.
UndisturbedSpec == Init /\ [][Undisturbed]_vars

\* Commands end: the script sets no timeout, it relies on git, cmake, tar, gpg,
\* npm and the network to finish or to fail.
FairSpec == Spec /\ WF_vars(Command)
-----------------------------------------------------------------------------
(***************************************************************************)
(* Properties                                                              *)
(***************************************************************************)

\* Every variable has its type; a run's arguments stay what it was started with.
TypeOK ==
    /\ clone \in [HEAD : Refs \cup {None, "other"},
                  tree : [ref : Refs, from : Urls] \cup {None},
                  VERSION_CURRENT : Releases \cup {None, "other"}]
    /\ tarball     \in [Refs -> Versions \cup {None}]
    /\ destination \in [Refs -> [Parts -> Versions \cup {None}]]
    /\ deps        \in [Parts -> Versions \cup {None}]
    /\ bindings    \in [include : Versions \cup {None}, lib : Versions \cup {None}]
                        \cup {None}
    /\ pc          \in Steps \cup Ended
    /\ args        \in Runs
    /\ todo        \in SUBSET Parts
    /\ fault       \in BOOLEAN

IsDownload(a) == ~a.build /\ ~a.dynamic

\* What a run leaves for binding.gyp, and in the addon it has built.
Provides(include, lib) ==
    /\ deps["include"] = include /\ deps["lib"] = lib
    /\ ~args.skipBindings => bindings = Linked(include, lib)

\* No damaged release archive ever gets as far as ./deps or into the addon, not
\* in pieces and not over several runs that are killed (libmongocrypt.mjs:180-183
\* comes before anything is unpacked).
ReleaseArchivesVerified ==
    LET used == {deps[p] : p \in Parts} \cup
                (IF bindings = None THEN {} ELSE {bindings.include, bindings.lib})
    IN  \A v \in used \ {None} : v.ref \in Releases => v.from # "damaged"

\* A successful download leaves exactly the version it was asked for, headers
\* and library of one archive and no file of another, whatever builds and
\* downloads of other versions left in ./deps (libmongocrypt.mjs:168, 195-203).
DownloadInstallsRequested ==
    pc = "ok" /\ IsDownload(args) =>
        \E from \in {"archive", "damaged"} :
            /\ Provides(Version(args.ref, from), Version(args.ref, from))
            /\ deps["lib64"] = None /\ deps["stale"] = None

\* A successful --build --clean leaves exactly the version and the repository it
\* was asked for, also when an earlier run was interrupted in the middle of the
\* clone, of its removal or of the install (libmongocrypt.mjs:258, 267).  It says
\* nothing of "stale": a build, clean or not, leaves what it does not overwrite.
CleanBuildInstallsRequested ==
    pc = "ok" /\ args.build /\ args.clean =>
        Provides(Version(args.ref, args.url), Version(args.ref, args.url))

\* A download replaces ./deps only when its replacement has been unpacked and, if it
\* is a release, verified: until then a failure leaves the library of the run before
\* in place (libmongocrypt.mjs:181-196).
DepsKeptUntilReplaced ==
    [][deps' # deps /\ IsDownload(args) =>
        /\ destination[args.ref]["include"] # None
        /\ args.ref \in Releases => destination[args.ref]["include"].from = "archive"
        /\ \E lib \in {"lib", "lib64"} :
              destination[args.ref][lib] = destination[args.ref]["include"]]_vars

\* Nothing that earlier runs can have left makes a clean build or the download of
\* a release fail: they fail only when one of their own commands does.  So does the
\* download of another ref, unless a clone is in its way (get-commit-from-ref.sh:4),
\* and one that succeeds leaves none in the way of the next.
CleanRunsRecover ==
    /\ pc = "failed" /\ (args.clean \/ (IsDownload(args) /\ args.ref \in Releases))
          => fault
    /\ IsDownload(args) /\ args.ref \in Commits =>
          /\ pc = "failed" /\ clone = NoClone => fault
          /\ pc = "ok" => clone = NoClone

\* Every command takes its run further: it goes on to a later step of main, or it is
\* busy with a directory and leaves less of that to do than it found, whatever was
\* there (libmongocrypt.mjs:55-64, 162-204, 206-278).  No run goes round in circles;
\* the script sets no timeout that would end one.
StepNumber ==
    [step \in Steps \cup Ended |->
        CASE step = "remove clone"       -> 1  [] step = "git clone"       -> 2
          [] step = "git checkout"       -> 3  [] step = "check built"     -> 4
          [] step = "configure"          -> 5  [] step = "install"         -> 6
          [] step = "resolve"            -> 7  [] step = "resolved"        -> 8
          [] step = "remove destination" -> 9  [] step = "fetch"           -> 10
          [] step = "verify"             -> 11 [] step = "unpack"          -> 12
          [] step = "remove deps"        -> 13 [] step = "copy"            -> 14
          [] step = "rename"             -> 15 [] step = "remove bindings" -> 16
          [] step = "prebuild"           -> 17 [] OTHER                    -> 18]
LeftToDo ==
    CASE pc \in {"remove clone", "resolved"} -> {f \in DOMAIN NoClone : clone[f] # None}
      [] pc = "git checkout"                 -> {clone.tree.ref} \ {args.ref}
      [] pc \in {"install", "unpack", "copy"} -> todo
      [] pc = "remove destination" -> {p \in Parts : destination[args.ref][p] # None}
      [] pc = "remove deps"        -> {p \in Parts : deps[p] # None}
      [] OTHER                     -> {}
RunsAdvance ==
    [][Command => \/ StepNumber[pc'] > StepNumber[pc]
                  \/ /\ pc' = pc /\ args' = args
                     /\ LeftToDo' \subseteq LeftToDo /\ LeftToDo' # LeftToDo]_vars

\* Once commands stop failing and nobody interrupts them, a clean build and the
\* download of a release that are started succeed, whatever happened before.
CleanRetriesSucceed ==
    <>[](~fault /\ pc # "killed") =>
        <>[](pc \in Steps /\ (args.clean \/ (IsDownload(args) /\ args.ref \in Releases))
                => <>(pc = "ok"))

\* "--build: Instead of downloading, clone and build libmongocrypt along with the
\* bindings", "--libVersion: A custom version reference to either download or
\* checkout after cloning" (README.md:80-84).
BuildInstallsRequested ==
    pc = "ok" /\ args.build =>
        Provides(Version(args.ref, args.url), Version(args.ref, args.url))

\* "--libVersion: A custom version reference to either download or checkout after
\* cloning. You may use "latest" to get current libmongocrypt `HEAD`."
\* (README.md:81-82): with "latest" too, a download fails only when a command does.
LatestCanBeDownloaded ==
    pc = "failed" /\ IsDownload(args) /\ args.ref = Latest => fault
=============================================================================
