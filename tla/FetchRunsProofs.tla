-------------------------- MODULE FetchRunsProofs --------------------------
(***************************************************************************)
(* Proofs about what one run of the script of FetchLibmongocrypt leaves,   *)
(* for any refs, repositories and command lines, and whatever earlier runs *)
(* that failed or were killed have left behind.                            *)
(*                                                                         *)
(* RunInv follows the version that was asked for through the run: from     *)
(* the clone or the archive to the directory it is unpacked to, to ./deps, *)
(* and into the addon.  Directories are written a part at a time; Holds    *)
(* says which parts are there so far.                                      *)
(***************************************************************************)
EXTENDS FetchLibmongocryptProofs

\* What a run may install.
Asked == IF args.build THEN {Version(args.ref, args.url)}
         ELSE {Version(args.ref, from) : from \in {"archive", "damaged"}}

\* Runs that promise what they leave, and those that promise to get there.
Promising  == IsDownload(args) \/ args.clean
Recovering == args.clean \/ (IsDownload(args) /\ args.ref \in Releases)

\* dir consists of the parts in P, all of version v.
Holds(dir, P, v) == \A p \in Parts : dir[p] = IF p \in P THEN v ELSE None
Unpacked == destination[args.ref]
Archive  == tarball[args.ref]

\* Which runs get to a step.
StepsOfRuns ==
    /\ pc \in {"remove clone", "git clone", "git checkout", "check built", "configure",
               "install"} => args.build
    /\ pc \in {"resolve", "resolved", "remove destination", "fetch", "verify", "unpack",
               "remove deps", "copy", "rename"} => IsDownload(args)
    /\ pc \in {"resolve", "resolved"} => args.ref \notin Releases
    /\ pc \in {"remove bindings", "prebuild"} => ~args.skipBindings

\* The sources are those that were asked for, and so is what is built from them.
SourcesRight ==
    /\ pc = "git checkout" => clone.tree # None /\ clone.tree.from = args.url
    /\ args.clean /\ pc \in {"check built", "configure", "install"} =>
          clone.tree = Version(args.ref, args.url)
    /\ pc = "install" => /\ todo \subseteq {"include", "lib"}
                         /\ \A p \in {"include", "lib"} \ todo : deps[p] = clone.tree

\* The archive is the one that was asked for, and its parts are unpacked to an empty
\* directory; a damaged one is the network's fault.
UnpackedSoFar ==
    /\ pc = "fetch" => Unpacked = EmptyDir
    /\ pc \in {"verify", "unpack"} =>
          /\ Archive \in Asked
          /\ \E L \in Layouts : todo \subseteq L /\ Holds(Unpacked, L \ todo, Archive)
    /\ pc = "verify" => Archive.from = "archive" \/ fault
    /\ pc = "remove deps" => \E L \in Layouts, v \in Asked : Holds(Unpacked, L, v)

\* ./deps gets the parts that were unpacked and no others.
CopiedSoFar ==
    /\ pc = "copy" => \E L \in Layouts, v \in Asked :
          todo \subseteq L /\ Holds(Unpacked, L, v) /\ Holds(deps, L \ todo, v)
    /\ pc = "rename" => \E L \in Layouts, v \in Asked :
          Holds(Unpacked, L, v) /\ Holds(deps, L, v)

\* The library is in place before the addon is built, and the addon is built from it.
LibraryInPlace ==
    /\ Promising /\ pc \in {"remove bindings", "prebuild", "ok"} =>
          /\ deps["include"] \in Asked /\ deps["lib"] = deps["include"]
          /\ IsDownload(args) => deps["lib64"] = None /\ deps["stale"] = None
    /\ Promising /\ pc = "ok" /\ ~args.skipBindings =>
          bindings = Linked(deps["include"], deps["lib"])

\* What was cloned to resolve a ref is gone before anything is downloaded.
ResolutionRemoved ==
    IsDownload(args) /\ args.ref \in Commits
        /\ pc \notin {"start", "resolve", "resolved", "failed", "killed"} => clone = NoClone

RunInv == /\ StepsOfRuns /\ SourcesRight /\ UnpackedSoFar /\ CopiedSoFar
          /\ LibraryInPlace /\ ResolutionRemoved /\ CleanRunsRecover
IInv == VInv /\ RunInv

-----------------------------------------------------------------------------
(***************************************************************************)
(* Facts used by several actions                                           *)
(***************************************************************************)

\* Which options go together.
LEMMA RunKinds ==
    ASSUME NEW a \in Runs
    PROVE  /\ a.ref \in Refs /\ a.url \in Urls
           /\ a.build \in BOOLEAN /\ a.clean \in BOOLEAN /\ a.dynamic \in BOOLEAN
           /\ a.skipBindings \in BOOLEAN
           /\ a.clean => a.build
           /\ a.dynamic => ~a.build
  BY RunsAssumption DEF Arguments

\* A version that was asked for is one.
LEMMA AskedFacts ==
    ASSUME VInv, NEW v \in Asked
    PROVE  v \in Versions /\ v # None
  <1>1. args.ref \in Refs /\ args.url \in Urls
    BY RunKinds DEF VInv, TypeOK
  <1>2. v \in Versions
    BY <1>1 DEF Asked, Version, Versions
  <1> QED
    BY <1>2, NoneAssumption

\* A command does not change what its run was asked for.
LEMMA SameRun ==
    ASSUME UNCHANGED args
    PROVE  /\ Asked' = Asked /\ Promising' = Promising /\ Recovering' = Recovering
           /\ IsDownload(args)' = IsDownload(args)
  BY DEF Asked, Promising, Recovering, IsDownload

\* A run that ends otherwise than by succeeding promises only that it was not its own
\* fault.
LEMMA EndingKeepsRun ==
    ASSUME pc' \in {"start", "failed", "killed"}, CleanRunsRecover'
    PROVE  RunInv'
  <1>1. StepsOfRuns' /\ SourcesRight'
    BY DEF StepsOfRuns, SourcesRight
  <1>2. UnpackedSoFar' /\ CopiedSoFar' /\ LibraryInPlace'
    BY DEF UnpackedSoFar, CopiedSoFar, LibraryInPlace
  <1>3. ResolutionRemoved'
    BY DEF ResolutionRemoved
  <1> QED
    BY <1>1, <1>2, <1>3 DEF RunInv

\* A build before its installation.
LEMMA BuildingKeepsRun ==
    ASSUME args'.build, SourcesRight', UNCHANGED args,
           pc' \in {"remove clone", "git clone", "git checkout", "check built", "configure",
                   "install"}
    PROVE  RunInv'
  <1>1. StepsOfRuns' /\ ResolutionRemoved' /\ CleanRunsRecover'
    BY DEF StepsOfRuns, ResolutionRemoved, CleanRunsRecover, IsDownload
  <1>2. UnpackedSoFar' /\ CopiedSoFar' /\ LibraryInPlace'
    BY DEF UnpackedSoFar, CopiedSoFar, LibraryInPlace
  <1> QED
    BY <1>1, <1>2 DEF RunInv

\* A download.
LEMMA DownloadingKeepsRun ==
    ASSUME IsDownload(args)', UnpackedSoFar', CopiedSoFar', ResolutionRemoved',
           pc' \in {"resolve", "resolved", "remove destination", "fetch", "verify", "unpack",
                   "remove deps", "copy", "rename"},
           pc' \in {"resolve", "resolved"} => args'.ref \notin Releases
    PROVE  RunInv'
  <1>1. StepsOfRuns' /\ CleanRunsRecover'
    BY DEF StepsOfRuns, CleanRunsRecover
  <1>2. SourcesRight' /\ LibraryInPlace'
    BY DEF SourcesRight, LibraryInPlace
  <1> QED
    BY <1>1, <1>2 DEF RunInv

\* The addon, with the library in place.
LEMMA BindingKeepsRun ==
    ASSUME LibraryInPlace', ResolutionRemoved',
           pc' \in {"remove bindings", "prebuild", "ok"},
           pc' # "ok" => ~args'.skipBindings
    PROVE  RunInv'
  <1>1. StepsOfRuns' /\ CleanRunsRecover'
    BY DEF StepsOfRuns, CleanRunsRecover, ResolutionRemoved
  <1>2. SourcesRight' /\ UnpackedSoFar' /\ CopiedSoFar'
    BY DEF SourcesRight, UnpackedSoFar, CopiedSoFar
  <1> QED
    BY <1>1, <1>2 DEF RunInv

\* Nothing is cloned after the ref is resolved.
LEMMA ResolutionStays ==
    ASSUME IInv, UNCHANGED <<clone, args>>,
           pc \notin {"start", "resolve", "resolved", "failed", "killed"}
    PROVE  ResolutionRemoved'
  <1>1. ResolutionRemoved
    BY DEF IInv, RunInv
  <1> QED
    BY <1>1 DEF ResolutionRemoved, IsDownload

\* Of runs that download nothing, nothing is said.
LEMMA NothingToResolve ==
    ASSUME ~IsDownload(args)'
    PROVE  ResolutionRemoved'
  BY DEF ResolutionRemoved

-----------------------------------------------------------------------------
(***************************************************************************)
(* Init, and runs that begin, fail or are killed                           *)
(***************************************************************************)

\* Nothing has been asked for yet.
LEMMA InitRuns == Init => IInv
  <1> SUFFICES ASSUME Init PROVE IInv
    OBVIOUS
  <1>1. StepsOfRuns /\ SourcesRight /\ CleanRunsRecover
    BY DEF Init, StepsOfRuns, SourcesRight, CleanRunsRecover
  <1>2. UnpackedSoFar /\ CopiedSoFar /\ LibraryInPlace /\ ResolutionRemoved
    BY DEF Init, UnpackedSoFar, CopiedSoFar, LibraryInPlace, ResolutionRemoved
  <1> QED
    BY <1>1, <1>2, InitEstablishes DEF IInv, RunInv

\* A run begins where its arguments and the clone send it, with nothing to keep.
LEMMA BeginRunRuns ==
    ASSUME NEW a \in Runs, BeginRun(a)
    PROVE  RunInv'
  <1>1. args' = a /\ a.dynamic \in BOOLEAN /\ a.build \in BOOLEAN
        /\ (a.clean => a.build) /\ (a.dynamic => ~a.build)
    BY RunKinds DEF BeginRun
  <1>2. CASE a.dynamic
    <2>1. pc' = AfterLibrary(a)
      BY <1>1, <1>2 DEF BeginRun
    <2>2. ~Promising' /\ ~IsDownload(args)'
      BY <1>1, <1>2 DEF Promising, IsDownload
    <2> QED
      BY <1>1, <2>1, <2>2, BindingKeepsRun, NothingToResolve DEF AfterLibrary, LibraryInPlace
  <1>3. CASE a.build
    <2>1. pc' \in {"remove clone", "check built"} /\ (pc' = "check built" => ~CloneNeeded(a))
      BY <1>1, <1>3 DEF BeginRun
    <2>2. SourcesRight'
      BY <1>1, <2>1 DEF SourcesRight, CloneNeeded
    <2>3. StepsOfRuns' /\ ResolutionRemoved' /\ CleanRunsRecover'
      BY <1>1, <1>3, <2>1 DEF StepsOfRuns, ResolutionRemoved, CleanRunsRecover, IsDownload
    <2>4. UnpackedSoFar' /\ CopiedSoFar' /\ LibraryInPlace'
      BY <2>1 DEF UnpackedSoFar, CopiedSoFar, LibraryInPlace
    <2> QED
      BY <2>2, <2>3, <2>4 DEF RunInv
  <1>4. CASE ~a.dynamic /\ ~a.build
    <2>1. pc' = DownloadStart(a)
      BY <1>4 DEF BeginRun
    <2>2. /\ IsDownload(args)'
          /\ pc' \in {"resolve", "remove destination"}
          /\ pc' = "resolve" => args'.ref \notin Releases
      BY <1>1, <1>4, <2>1 DEF IsDownload, DownloadStart
    <2>3. UnpackedSoFar' /\ CopiedSoFar'
      BY <2>2 DEF UnpackedSoFar, CopiedSoFar
    <2>4. ResolutionRemoved'
      BY <1>1, <2>1, RefsAssumption DEF ResolutionRemoved, DownloadStart
    <2> QED
      BY <2>2, <2>3, <2>4, DownloadingKeepsRun
  <1> QED
    BY <1>1, <1>2, <1>3, <1>4

\* A command that fails is a fault; that is all such a run promises.
LEMMA FailRuns == Fail => RunInv'
  BY EndingKeepsRun DEF Fail, CleanRunsRecover

\* A run that is killed promises nothing.
LEMMA KillRuns == Kill => RunInv'
  BY EndingKeepsRun DEF Kill, CleanRunsRecover

-----------------------------------------------------------------------------
(***************************************************************************)
(* Builds                                                                  *)
(***************************************************************************)

\* What is left of the old clone does not matter.
LEMMA RemoveCloneRuns ==
    ASSUME IInv, RemoveClone
    PROVE  RunInv'
  <1>1. args.build /\ args' = args /\ pc' \in {"remove clone", "git clone"}
    BY DEF IInv, RunInv, StepsOfRuns, RemoveClone, Goto, Stay
  <1>2. SourcesRight'
    BY <1>1 DEF SourcesRight
  <1> QED
    BY <1>1, <1>2, BuildingKeepsRun

\* The clone is of the repository that was asked for, at its default branch.
LEMMA GitCloneRuns ==
    ASSUME IInv, GitClone
    PROVE  RunInv'
  <1>1. args.build /\ args' = args /\ args.ref \in Refs /\ args.url \in Urls
    BY RunKinds DEF IInv, VInv, TypeOK, RunInv, StepsOfRuns, GitClone, Goto
  <1>2. clone'.tree = Version(Latest, args.url) /\ clone'.tree # None
    <2>1. Version(Latest, args.url) \in Sources
      BY <1>1, VersionFacts DEF Refs
    <2> QED
      BY <2>1, TypeFacts, TreeFacts, SourceFacts, NoneAssumption DEF IInv, VInv, GitClone
  <1>3. \/ pc' = "check built" /\ args.ref = Latest
        \/ pc' = "git checkout"
    BY DEF GitClone, Goto
  <1>4. SourcesRight'
    <2>1. clone'.tree.from = args'.url
      BY <1>1, <1>2 DEF Version
    <2>2. pc' = "check built" => clone'.tree = Version(args.ref, args.url)'
      BY <1>1, <1>2, <1>3 DEF Version
    <2> QED
      BY <1>2, <1>3, <2>1, <2>2 DEF SourcesRight
  <1> QED
    BY <1>1, <1>3, <1>4, BuildingKeepsRun

\* The sources become those of the ref that was asked for, before HEAD names it.
LEMMA GitCheckoutRuns ==
    ASSUME IInv, GitCheckout
    PROVE  RunInv'
  <1>1. /\ args.build /\ args' = args /\ clone \in Clones
        /\ clone.tree # None /\ clone.tree.from = args.url
    BY TypeFacts DEF IInv, VInv, RunInv, StepsOfRuns, SourcesRight, GitCheckout, Goto, Stay
  <1>2. clone.tree \in Sources
    BY <1>1, CloneFacts
  <1>3. CASE clone' = [clone EXCEPT !.tree.ref = args.ref] /\ Stay
    <2>1. clone'.tree = [clone.tree EXCEPT !.ref = args.ref]
      BY <1>1, <1>3 DEF Clones
    <2>2. clone'.tree \in Sources /\ clone'.tree.from = args.url
      BY <1>1, <1>2, <2>1, RunKinds DEF Sources, IInv, VInv, TypeOK
    <2>3. clone'.tree # None /\ pc' = "git checkout"
      BY <1>3, <2>2, SourceFacts, NoneAssumption DEF Stay, GitCheckout
    <2>4. SourcesRight'
      BY <1>1, <2>2, <2>3 DEF SourcesRight
    <2> QED
      BY <1>1, <2>3, <2>4, BuildingKeepsRun
  <1>4. CASE /\ clone.tree.ref = args.ref
             /\ clone' = [clone EXCEPT !.HEAD = args.ref]
             /\ Goto("check built")
    <2>1. clone'.tree = clone.tree /\ pc' = "check built"
      BY <1>1, <1>4 DEF Clones, Goto
    <2>2. clone.tree = Version(args.ref, args.url)
      BY <1>1, <1>2, <1>4 DEF Sources, Version
    <2>3. SourcesRight'
      BY <1>1, <2>1, <2>2 DEF SourcesRight
    <2> QED
      BY <1>1, <2>1, <2>3, BuildingKeepsRun
  <1> QED
    BY <1>3, <1>4 DEF GitCheckout

\* Only a run without --clean takes what is built for what was asked for.
LEMMA CheckBuiltRuns ==
    ASSUME IInv, CheckBuilt
    PROVE  RunInv'
  <1>1. args.build /\ args' = args /\ clone' = clone
    BY DEF IInv, RunInv, StepsOfRuns, CheckBuilt, Goto, disk
  <1>2. CASE BuildNeeded(args)
    <2>1. pc' = "configure"
      BY <1>2 DEF CheckBuilt, Goto
    <2>2. SourcesRight'
      BY <1>1, <2>1 DEF SourcesRight, IInv, RunInv, CheckBuilt
    <2> QED
      BY <1>1, <2>1, <2>2, BuildingKeepsRun
  <1>3. CASE ~BuildNeeded(args)
    <2>1. pc' = AfterLibrary(args)
      BY <1>3 DEF CheckBuilt, Goto
    <2>2. ~Promising' /\ ~IsDownload(args)'
      BY <1>1, <1>3 DEF Promising, IsDownload, BuildNeeded
    <2> QED
      BY <1>1, <2>1, <2>2, BindingKeepsRun, NothingToResolve DEF AfterLibrary, LibraryInPlace
  <1> QED
    BY <1>2, <1>3

\* cmake works on those sources.
LEMMA ConfigureRuns ==
    ASSUME IInv, Configure
    PROVE  RunInv'
  <1>1. args.build /\ args' = args /\ pc = "configure" /\ pc' = "install"
        /\ todo' = {"include", "lib"}
    BY DEF IInv, RunInv, StepsOfRuns, Configure, Goto
  <1>2. clone'.tree = clone.tree
    BY TypeFacts DEF Configure, IInv, VInv, Clones
  <1>3. SourcesRight'
    BY <1>1, <1>2 DEF SourcesRight, IInv, RunInv
  <1> QED
    BY <1>1, <1>3, BuildingKeepsRun

\* A clean build has sources.
LEMMA ConfigureFindsNothingRuns ==
    ASSUME IInv, ConfigureFindsNothing
    PROVE  RunInv'
  <1>1. args' = args /\ pc' = "failed" /\ args.build /\ clone.tree = None
    BY DEF IInv, RunInv, StepsOfRuns, ConfigureFindsNothing, Goto
  <1>2. ~args.clean
    <2>1. Version(args.ref, args.url) # None
      BY <1>1, AskedFacts DEF IInv, Asked
    <2> QED
      BY <1>1, <2>1 DEF IInv, RunInv, SourcesRight, ConfigureFindsNothing
  <1>3. CleanRunsRecover'
    BY <1>1, <1>2 DEF CleanRunsRecover, IsDownload
  <1> QED
    BY <1>1, <1>3, EndingKeepsRun

\* Each part that is installed comes from those sources.
LEMMA InstallRuns ==
    ASSUME IInv, Install
    PROVE  RunInv'
  <1>1. /\ args.build /\ args' = args /\ pc = "install" /\ todo \subseteq {"include", "lib"}
        /\ \A q \in {"include", "lib"} \ todo : deps[q] = clone.tree
        /\ args.clean => clone.tree = Version(args.ref, args.url)
        /\ deps \in Dirs /\ clone \in Clones
    BY TypeFacts DEF IInv, VInv, RunInv, StepsOfRuns, SourcesRight, Install, Goto, Stay
  <1>2. ASSUME NEW p \in todo, todo' = todo \ {p}, Stay, UNCHANGED clone,
               deps' = [deps EXCEPT ![p] = clone.tree, !["stale"] = StaleAfter(p)]
        PROVE  RunInv'
    <2>1. \A q \in {"include", "lib"} : deps'[q] = IF q = p THEN clone.tree ELSE deps[q]
      BY <1>1, <1>2 DEF Dirs, Parts
    <2>2. SourcesRight'
      BY <1>1, <1>2, <2>1 DEF SourcesRight, Stay, Parts
    <2> QED
      BY <1>1, <1>2, <2>2, BuildingKeepsRun DEF Stay
  <1>3. CASE todo = {} /\ Goto(AfterLibrary(args)) /\ UNCHANGED <<deps, todo>>
    <2>1. /\ pc' \in {"ok", "remove bindings"} /\ (pc' = "ok" <=> args.skipBindings)
          /\ ~IsDownload(args)
      BY <1>1, <1>3 DEF Goto, AfterLibrary, IsDownload
    <2>2. args.clean => deps["include"] \in Asked /\ deps["lib"] = deps["include"]
      BY <1>1, <1>3 DEF Asked
    <2>3. LibraryInPlace'
      BY <1>1, <1>3, <2>1, <2>2, SameRun DEF LibraryInPlace, Promising
    <2> QED
      BY <1>1, <2>1, <2>3, BindingKeepsRun, NothingToResolve DEF IsDownload
  <1> QED
    BY <1>2, <1>3 DEF Install

-----------------------------------------------------------------------------
(***************************************************************************)
(* Downloads                                                               *)
(***************************************************************************)

\* Only a download of something else than a release has to resolve its ref.
LEMMA ResolveRefRuns ==
    ASSUME IInv, ResolveRef
    PROVE  RunInv'
  <1>1. /\ args' = args /\ IsDownload(args) /\ args.ref \notin Releases
        /\ pc' = "resolved" \/ (pc' = "failed" /\ clone' # NoClone)
    BY DEF IInv, RunInv, StepsOfRuns, ResolveRef, Goto
  <1>2. CASE pc' = "resolved"
    <2>1. UnpackedSoFar' /\ CopiedSoFar' /\ ResolutionRemoved'
      BY <1>2 DEF UnpackedSoFar, CopiedSoFar, ResolutionRemoved
    <2> QED
      BY <1>1, <1>2, <2>1, SameRun, DownloadingKeepsRun
  <1>3. CASE pc' = "failed"
    BY <1>1, <1>3, EndingKeepsRun, RunKinds DEF CleanRunsRecover, IsDownload, IInv, VInv, TypeOK
  <1> QED
    BY <1>1, <1>2, <1>3

\* The same for the second half.
LEMMA ResolvedRefRuns ==
    ASSUME IInv, ResolvedRef
    PROVE  RunInv'
  <1>1. /\ args' = args /\ IsDownload(args) /\ args.ref \notin Releases
        /\ \/ pc' = "failed" /\ args.ref = Latest
           \/ pc' = "resolved"
           \/ pc' = "remove destination" /\ clone' = NoClone
    BY DEF IInv, RunInv, StepsOfRuns, ResolvedRef, Goto, Stay
  <1>2. CASE pc' # "failed"
    <2>1. UnpackedSoFar' /\ CopiedSoFar' /\ ResolutionRemoved'
      BY <1>1, <1>2 DEF UnpackedSoFar, CopiedSoFar, ResolutionRemoved
    <2> QED
      BY <1>1, <1>2, <2>1, SameRun, DownloadingKeepsRun
  <1>3. CASE pc' = "failed"
    BY <1>1, <1>3, EndingKeepsRun, RunKinds, RefsAssumption
    DEF CleanRunsRecover, IsDownload, IInv, VInv, TypeOK
  <1> QED
    BY <1>1, <1>2, <1>3

\* The archive is fetched only when nothing of an earlier one is unpacked.
LEMMA RemoveDestinationRuns ==
    ASSUME IInv, RemoveDestination
    PROVE  RunInv'
  <1>1. /\ args' = args /\ IsDownload(args) /\ pc' \in {"remove destination", "fetch"}
        /\ clone' = clone /\ pc = "remove destination"
        /\ pc' = "fetch" => Unpacked' = EmptyDir
    BY DEF IInv, RunInv, StepsOfRuns, RemoveDestination, Goto, Stay, Unpacked
  <1>2. UnpackedSoFar' /\ CopiedSoFar'
    BY <1>1 DEF UnpackedSoFar, CopiedSoFar, EmptyDir
  <1> QED
    BY <1>1, <1>2, SameRun, ResolutionStays, DownloadingKeepsRun

\* The archive is the one that was asked for; if it is damaged, that is a fault.
LEMMA FetchRuns ==
    ASSUME IInv, Fetch
    PROVE  RunInv'
  <1>1. /\ args' = args /\ IsDownload(args) /\ pc' \in {"verify", "unpack"}
        /\ clone' = clone /\ pc = "fetch"
        /\ todo' \in Layouts /\ destination' = destination /\ Unpacked = EmptyDir
        /\ tarball \in [Refs -> Versions \cup {None}] /\ args.ref \in Refs
    BY RunKinds DEF IInv, VInv, TypeOK, RunInv, StepsOfRuns, UnpackedSoFar, Fetch
  <1>2. PICK from \in {"archive", "damaged"} :
           /\ tarball' = [tarball EXCEPT ![args.ref] = Version(args.ref, from)]
           /\ fault' = (from = "damaged")
    BY DEF Fetch
  <1>3. Archive' = Version(args.ref, from)
    BY <1>1, <1>2 DEF Archive
  <1>4. Archive' \in Asked' /\ (Archive'.from = "archive" \/ fault')
    <2>1. Version(args.ref, from) \in Asked
      BY <1>1 DEF Asked, IsDownload
    <2>2. Version(args.ref, from).from = from
      BY DEF Version
    <2> QED
      BY <1>1, <1>2, <1>3, <2>1, <2>2, SameRun
  <1>5. todo' \subseteq todo' /\ Holds(Unpacked, todo \ todo, Archive)'
    BY <1>1 DEF Holds, Unpacked, EmptyDir
  <1>6. UnpackedSoFar' /\ CopiedSoFar'
    BY <1>1, <1>4, <1>5 DEF UnpackedSoFar, CopiedSoFar
  <1> QED
    BY <1>1, <1>6, SameRun, ResolutionStays, DownloadingKeepsRun

\* A signature fails only after a fault.
LEMMA VerifySignatureRuns ==
    ASSUME IInv, VerifySignature
    PROVE  RunInv'
  <1>1. /\ IsDownload(args) /\ pc = "verify"
        /\ UNCHANGED <<args, fault, todo, clone, destination, tarball>>
    BY DEF IInv, RunInv, StepsOfRuns, VerifySignature, Goto, disk
  <1>2. CASE Archive.from = "archive"
    <2>1. pc' = "unpack"
      BY <1>2 DEF VerifySignature, Goto, Archive
    <2>2. UnpackedSoFar' /\ CopiedSoFar'
      BY <1>1, <2>1 DEF IInv, RunInv, UnpackedSoFar, CopiedSoFar, Unpacked, Archive, Holds, Asked
    <2> QED
      BY <1>1, <2>1, <2>2, SameRun, ResolutionStays, DownloadingKeepsRun
  <1>3. CASE Archive.from # "archive"
    <2>1. pc' = "failed" /\ fault'
      BY <1>1, <1>3 DEF VerifySignature, Goto, Archive, IInv, RunInv, UnpackedSoFar
    <2> QED
      BY <2>1, EndingKeepsRun DEF CleanRunsRecover
  <1> QED
    BY <1>2, <1>3

\* The parts that are unpacked so far are of one archive, and of one layout in the end.
LEMMA UnpackRuns ==
    ASSUME IInv, Unpack
    PROVE  RunInv'
  <1>1. /\ IsDownload(args) /\ pc = "unpack" /\ UNCHANGED <<args, clone>> /\ args.ref \in Refs
        /\ destination \in [Refs -> Dirs] /\ Archive \in Asked
        /\ tarball \in [Refs -> Versions \cup {None}]
    BY RunKinds, TypeFacts DEF IInv, VInv, RunInv, StepsOfRuns, UnpackedSoFar, Unpack, Goto, Stay
  <1>2. PICK L \in Layouts : todo \subseteq L /\ Holds(Unpacked, L \ todo, Archive)
    BY <1>1 DEF IInv, RunInv, UnpackedSoFar
  <1>3. ASSUME NEW p \in todo,
               destination' = [destination EXCEPT ![args.ref][p] = tarball[args.ref]],
               todo' = todo \ {p}, Stay, UNCHANGED tarball
        PROVE  RunInv'
    <2>1. p \in Parts
      BY DEF IInv, VInv, TypeOK
    <2>2. \A q \in Parts : Unpacked'[q] = IF q = p THEN Archive ELSE Unpacked[q]
      <3>1. tarball[args.ref] \in Versions \cup {None}
        BY <1>1
      <3>2. \A r \in Refs, q \in Parts :
               destination'[r][q] = IF r = args.ref /\ q = p THEN tarball[args.ref]
                                    ELSE destination[r][q]
        BY <1>1, <1>3, <2>1, <3>1, PartWritten
      <3> QED
        BY <1>1, <3>2 DEF Unpacked, Archive
    <2>3. Archive' = Archive /\ Asked' = Asked /\ pc' = "unpack"
      BY <1>1, <1>3, SameRun DEF Archive, Stay
    <2>4. todo' \subseteq L /\ Holds(Unpacked, L \ todo, Archive)'
      BY <1>2, <1>3, <2>2, <2>3 DEF Holds
    <2>5. UnpackedSoFar' /\ CopiedSoFar'
      BY <1>1, <2>3, <2>4 DEF UnpackedSoFar, CopiedSoFar
    <2> QED
      BY <1>1, <2>3, <2>5, SameRun, ResolutionStays, DownloadingKeepsRun
  <1>4. CASE todo = {} /\ Goto("remove deps") /\ UNCHANGED <<destination, todo>>
    <2>1. pc' = "remove deps" /\ Asked' = Asked
      BY <1>1, <1>4, SameRun DEF Goto
    <2>2. Holds(Unpacked, L, Archive) /\ Unpacked' = Unpacked
      BY <1>1, <1>2, <1>4 DEF Holds, Unpacked
    <2>3. \E M \in Layouts, v \in Asked' : Holds(Unpacked', M, v)
      BY <1>1, <2>1, <2>2
    <2>4. UnpackedSoFar' /\ CopiedSoFar'
      BY <2>1, <2>3 DEF UnpackedSoFar, CopiedSoFar, Holds
    <2> QED
      BY <1>1, <2>1, <2>4, SameRun, ResolutionStays, DownloadingKeepsRun
  <1> QED
    BY <1>3, <1>4 DEF Unpack

\* ./deps is empty before anything is copied.
LEMMA RemoveDepsRuns ==
    ASSUME IInv, RemoveDeps
    PROVE  RunInv'
  <1>1. /\ IsDownload(args) /\ pc = "remove deps"
        /\ UNCHANGED <<args, clone, destination, Asked, Unpacked>>
    BY SameRun DEF IInv, RunInv, StepsOfRuns, RemoveDeps, Goto, Stay, Unpacked
  <1>2. PICK L \in Layouts, v \in Asked : Holds(Unpacked, L, v)
    BY <1>1 DEF IInv, RunInv, UnpackedSoFar
  <1>3. Holds(Unpacked, L, v)'
    BY <1>1, <1>2 DEF Holds
  <1>4. CASE Stay
    <2>1. pc' = "remove deps"
      BY <1>1, <1>4 DEF Stay
    <2>2. UnpackedSoFar' /\ CopiedSoFar'
      BY <1>1, <1>2, <1>3, <2>1 DEF UnpackedSoFar, CopiedSoFar
    <2> QED
      BY <1>1, <2>1, <2>2, SameRun, ResolutionStays, DownloadingKeepsRun
  <1>5. CASE /\ deps = EmptyDir /\ UNCHANGED deps
             /\ todo' = {p \in Parts : destination[args.ref][p] # None}
             /\ Goto("copy")
    <2>1. pc' = "copy"
      BY <1>5 DEF Goto
    <2>2. L \subseteq Parts
      BY DEF Layouts, Parts
    <2>3. todo' = L
      BY <1>2, <1>5, <2>2, AskedFacts DEF Holds, Unpacked, IInv
    <2>4. Holds(deps, L \ todo, v)'
      BY <1>5, <2>3 DEF Holds, EmptyDir
    <2>5. UnpackedSoFar' /\ CopiedSoFar'
      BY <1>1, <1>2, <1>3, <2>1, <2>3, <2>4 DEF UnpackedSoFar, CopiedSoFar
    <2> QED
      BY <1>1, <2>1, <2>5, SameRun, ResolutionStays, DownloadingKeepsRun
  <1> QED
    BY <1>4, <1>5 DEF RemoveDeps

\* ./deps has the parts copied so far and no others.
LEMMA CopyRuns ==
    ASSUME IInv, Copy
    PROVE  RunInv'
  <1>1. /\ IsDownload(args) /\ pc = "copy" /\ deps \in Dirs
        /\ UNCHANGED <<args, clone, destination, Asked, Unpacked>>
    BY SameRun, TypeFacts DEF IInv, VInv, RunInv, StepsOfRuns, Copy, Goto, Stay, Unpacked
  <1>2. PICK L \in Layouts, v \in Asked :
           todo \subseteq L /\ Holds(Unpacked, L, v) /\ Holds(deps, L \ todo, v)
    BY <1>1 DEF IInv, RunInv, CopiedSoFar
  <1>3. Holds(Unpacked, L, v)'
    BY <1>1, <1>2 DEF Holds
  <1>4. ASSUME NEW p \in todo, deps' = [deps EXCEPT ![p] = destination[args.ref][p]],
               todo' = todo \ {p}, Stay
        PROVE  RunInv'
    <2>1. p \in Parts /\ destination[args.ref][p] = v
      BY <1>2 DEF IInv, VInv, TypeOK, Holds, Unpacked
    <2>2. \A q \in Parts : deps'[q] = IF q = p THEN v ELSE deps[q]
      BY <1>1, <1>4, <2>1 DEF Dirs
    <2>3. todo' \subseteq L /\ Holds(deps, L \ todo, v)'
      BY <1>2, <1>4, <2>2 DEF Holds
    <2>4. pc' = "copy"
      BY <1>1, <1>4 DEF Stay
    <2>5. UnpackedSoFar' /\ CopiedSoFar'
      BY <1>1, <1>2, <1>3, <2>3, <2>4 DEF UnpackedSoFar, CopiedSoFar
    <2> QED
      BY <1>1, <2>4, <2>5, SameRun, ResolutionStays, DownloadingKeepsRun
  <1>5. CASE todo = {} /\ UNCHANGED <<deps, todo>> /\ Goto("rename")
    <2>1. pc' = "rename" /\ Holds(deps, L, v)'
      BY <1>2, <1>5 DEF Goto, Holds
    <2>2. UnpackedSoFar' /\ CopiedSoFar'
      BY <1>1, <1>2, <1>3, <2>1 DEF UnpackedSoFar, CopiedSoFar
    <2> QED
      BY <1>1, <2>1, <2>2, SameRun, ResolutionStays, DownloadingKeepsRun
  <1> QED
    BY <1>4, <1>5 DEF Copy

\* Of either layout, include and lib are left, of one version.
LEMMA RenameLib64Runs ==
    ASSUME IInv, RenameLib64
    PROVE  RunInv'
  <1>1. /\ IsDownload(args) /\ pc = "rename" /\ deps \in Dirs
        /\ UNCHANGED <<args, clone, Asked, Promising>> /\ pc' = AfterLibrary(args)
    BY SameRun, TypeFacts DEF IInv, VInv, RunInv, StepsOfRuns, RenameLib64, Goto
  <1>2. PICK L \in Layouts, v \in Asked : Holds(deps, L, v)
    BY <1>1 DEF IInv, RunInv, CopiedSoFar
  <1>3. v # None
    BY AskedFacts DEF IInv
  <1>4. /\ deps["include"] = v
        /\ \/ deps["lib"] = v /\ deps["lib64"] = None
           \/ deps["lib"] = None /\ deps["lib64"] = v
        /\ deps["stale"] = None
    BY <1>2 DEF Holds, Layouts, Parts
  <1>5. /\ deps'["include"] = v /\ deps'["lib"] = v
        /\ deps'["lib64"] = None /\ deps'["stale"] = None
    BY <1>1, <1>3, <1>4 DEF RenameLib64, Dirs, Parts
  <1>6. LibraryInPlace'
    <2>1. pc' \in {"remove bindings", "ok"} /\ (pc' = "ok" => args.skipBindings)
      BY <1>1 DEF AfterLibrary
    <2> QED
      BY <1>1, <1>2, <1>5, <2>1 DEF LibraryInPlace
  <1> QED
    BY <1>1, <1>6, ResolutionStays, BindingKeepsRun DEF AfterLibrary

-----------------------------------------------------------------------------
(***************************************************************************)
(* The addon                                                               *)
(***************************************************************************)

\* The library stays in place while the old addon is removed.
LEMMA RemoveBindingsRuns ==
    ASSUME IInv, RemoveBindings
    PROVE  RunInv'
  <1>1. /\ pc = "remove bindings" /\ pc' = "prebuild" /\ ~args.skipBindings
        /\ UNCHANGED <<args, clone, deps, Asked, Promising>>
    BY SameRun DEF IInv, RunInv, StepsOfRuns, RemoveBindings, Goto
  <1>2. LibraryInPlace'
    BY <1>1 DEF IInv, RunInv, LibraryInPlace, IsDownload
  <1> QED
    BY <1>1, <1>2, ResolutionStays, BindingKeepsRun

\* The addon is built from the library in place.
LEMMA PrebuildRuns ==
    ASSUME IInv, Prebuild
    PROVE  RunInv'
  <1>1. /\ pc = "prebuild" /\ pc' = "ok" /\ UNCHANGED <<args, clone, deps, Asked, Promising>>
    BY SameRun DEF Prebuild, Goto
  <1>2. Promising => ~args.dynamic
    BY RunKinds DEF IInv, VInv, TypeOK, Promising, IsDownload
  <1>3. Promising => bindings' = Linked(deps["include"], deps["lib"])
    BY <1>2 DEF Prebuild
  <1>4. LibraryInPlace'
    BY <1>1, <1>3 DEF IInv, RunInv, LibraryInPlace, IsDownload, Linked
  <1> QED
    BY <1>1, <1>4, ResolutionStays, BindingKeepsRun

\* A run that promises anything has a library by then.
LEMMA PrebuildFindsNothingRuns ==
    ASSUME IInv, PrebuildFindsNothing
    PROVE  RunInv'
  <1>1. /\ pc = "prebuild" /\ pc' = "failed" /\ UNCHANGED <<args, Promising>>
        /\ deps["include"] = None \/ deps["lib"] = None
    BY SameRun DEF PrebuildFindsNothing, Goto
  <1>2. ~Promising
    BY <1>1, AskedFacts DEF IInv, RunInv, LibraryInPlace
  <1>3. CleanRunsRecover'
    BY <1>1, <1>2 DEF CleanRunsRecover, Promising, IsDownload
  <1> QED
    BY <1>1, <1>3, EndingKeepsRun

-----------------------------------------------------------------------------
(***************************************************************************)
(* The theorems                                                            *)
(***************************************************************************)

\* Every step keeps the invariant.
LEMMA StepKeepsRun == IInv /\ [Next]_vars => RunInv'
  <1> SUFFICES ASSUME IInv, [Next]_vars PROVE RunInv'
    OBVIOUS
  <1>1. CASE Command
    BY <1>1, RemoveCloneRuns, GitCloneRuns, GitCheckoutRuns, CheckBuiltRuns, ConfigureRuns,
       ConfigureFindsNothingRuns, InstallRuns, ResolveRefRuns, ResolvedRefRuns,
       RemoveDestinationRuns, FetchRuns, VerifySignatureRuns, UnpackRuns, RemoveDepsRuns,
       CopyRuns, RenameLib64Runs, RemoveBindingsRuns, PrebuildRuns, PrebuildFindsNothingRuns
    DEF Command
  <1>2. CASE \E a \in Runs : BeginRun(a)
    BY <1>2, BeginRunRuns
  <1>3. CASE Fail \/ Kill
    BY <1>3, FailRuns, KillRuns
  <1>4. CASE UNCHANGED vars
    <2>1. /\ UNCHANGED <<pc, args, todo, fault, deps, bindings>>
          /\ UNCHANGED <<Asked, Promising, Recovering, Unpacked, Archive, IsDownload(args)>>
          /\ UNCHANGED clone
      BY <1>4, SameRun DEF vars, Unpacked, Archive
    <2>2. StepsOfRuns' /\ SourcesRight' /\ ResolutionRemoved' /\ CleanRunsRecover'
      <3>1. StepsOfRuns /\ SourcesRight /\ ResolutionRemoved /\ CleanRunsRecover
        BY DEF IInv, RunInv
      <3>2. StepsOfRuns'
        BY <2>1, <3>1 DEF StepsOfRuns
      <3>3. SourcesRight'
        BY <1>4, <3>1 DEF vars, SourcesRight
      <3>4. CleanRunsRecover'
        BY <2>1, <3>1 DEF CleanRunsRecover
      <3>5. ResolutionRemoved'
        BY <2>1, <3>1 DEF ResolutionRemoved
      <3> QED
        BY <3>2, <3>3, <3>4, <3>5
    <2>3. UnpackedSoFar'
      <3>1. UnpackedSoFar
        BY DEF IInv, RunInv
      <3> QED
        BY <2>1, <3>1 DEF UnpackedSoFar
    <2>4. CopiedSoFar'
      <3>1. CopiedSoFar
        BY DEF IInv, RunInv
      <3> QED
        BY <2>1, <3>1 DEF CopiedSoFar
    <2>5. LibraryInPlace'
      <3>1. LibraryInPlace
        BY DEF IInv, RunInv
      <3> QED
        BY <2>1, <3>1 DEF LibraryInPlace, Linked
    <2> QED
      BY <2>2, <2>3, <2>4, <2>5 DEF RunInv
  <1> QED
    BY <1>1, <1>2, <1>3, <1>4 DEF Next, Undisturbed

\* The version that was asked for is where it should be at every step of a run.
THEOREM RunInvariant == Spec => []IInv
  <1>1. Init => IInv
    BY InitRuns
  <1>2. IInv /\ [Next]_vars => IInv'
    BY StepKeepsRun, NextPreserves DEF IInv
  <1> QED
    BY <1>1, <1>2, PTL DEF Spec

\* A successful download leaves exactly the version it was asked for, headers and library of
\* one archive and no file of another, whatever was in ./deps (libmongocrypt.mjs:168, 195-203).
THEOREM DownloadsInstallRequested == Spec => []DownloadInstallsRequested
  <1>1. IInv => DownloadInstallsRequested
    <2> SUFFICES ASSUME IInv, pc = "ok", IsDownload(args)
                 PROVE  \E from \in {"archive", "damaged"} :
                           /\ Provides(Version(args.ref, from), Version(args.ref, from))
                           /\ deps["lib64"] = None /\ deps["stale"] = None
      BY DEF DownloadInstallsRequested
    <2>1. /\ deps["include"] \in Asked /\ deps["lib"] = deps["include"]
          /\ deps["lib64"] = None /\ deps["stale"] = None
          /\ ~args.skipBindings => bindings = Linked(deps["include"], deps["lib"])
      BY DEF IInv, RunInv, LibraryInPlace, Promising
    <2>2. PICK from \in {"archive", "damaged"} : deps["include"] = Version(args.ref, from)
      BY <2>1 DEF Asked, IsDownload
    <2> QED
      BY <2>1, <2>2 DEF Provides
  <1> QED
    BY <1>1, RunInvariant, PTL

\* A successful --build --clean leaves exactly the version and repository it was asked for
\* (libmongocrypt.mjs:258, 267).
THEOREM CleanBuildsInstallRequested == Spec => []CleanBuildInstallsRequested
  <1>1. IInv => CleanBuildInstallsRequested
    BY DEF IInv, RunInv, LibraryInPlace, Promising, Asked, CleanBuildInstallsRequested, Provides
  <1> QED
    BY <1>1, RunInvariant, PTL

\* A clean build or the download of a release fails only if one of its own commands does,
\* whatever earlier runs left; the download of another ref also if they left a clone.
THEOREM RunsRecover == Spec => []CleanRunsRecover
  <1>1. IInv => CleanRunsRecover
    BY DEF IInv, RunInv
  <1> QED
    BY <1>1, RunInvariant, PTL

\* A download touches ./deps only when its replacement is unpacked and, if a release, verified
\* (libmongocrypt.mjs:181-196).
THEOREM DepsKept == Spec => DepsKeptUntilReplaced
  <1>1. IInv /\ [Next]_vars =>
          (deps' # deps /\ IsDownload(args) =>
             /\ destination[args.ref]["include"] # None
             /\ args.ref \in Releases => destination[args.ref]["include"].from = "archive"
             /\ \E lib \in {"lib", "lib64"} :
                   destination[args.ref][lib] = destination[args.ref]["include"])
    <2> SUFFICES ASSUME IInv, [Next]_vars, deps' # deps, IsDownload(args)
                 PROVE  /\ destination[args.ref]["include"] # None
                        /\ args.ref \in Releases =>
                              destination[args.ref]["include"].from = "archive"
                        /\ \E lib \in {"lib", "lib64"} :
                              destination[args.ref][lib] = destination[args.ref]["include"]
      OBVIOUS
    <2>1. pc \in {"install", "remove deps", "copy", "rename"}
      BY DEF Next, Undisturbed, Command, Fail, Kill, BeginRun, disk, vars,
             RemoveClone, GitClone, GitCheckout, CheckBuilt, Configure, ConfigureFindsNothing,
             Install, ResolveRef, ResolvedRef, RemoveDestination, Fetch, VerifySignature,
             Unpack, RemoveDeps, Copy, RenameLib64, RemoveBindings, Prebuild,
             PrebuildFindsNothing
    <2>2. pc # "install"
      BY DEF IInv, RunInv, StepsOfRuns, IsDownload
    <2>3. PICK L \in Layouts, v \in Asked : Holds(Unpacked, L, v)
      BY <2>1, <2>2 DEF IInv, RunInv, UnpackedSoFar, CopiedSoFar
    <2>4. v # None
      BY AskedFacts DEF IInv
    <2>5. destination[args.ref]["include"] = v
      BY <2>3 DEF Holds, Unpacked, Layouts, Parts
    <2>6. args.ref \in Releases => v.from = "archive"
      <3>1. v.ref = args.ref /\ v.from \in {"archive", "damaged"}
        BY DEF Asked, IsDownload, Version
      <3>2. args.ref \in Refs
        BY RunKinds DEF IInv, VInv, TypeOK
      <3>3. Sound(v)
        BY <2>5, <3>2 DEF IInv, VInv, OnlySoundInstalled, Parts
      <3> QED
        BY <2>4, <3>1, <3>3 DEF Sound
    <2> QED
      BY <2>3, <2>4, <2>5, <2>6 DEF Holds, Unpacked, Layouts, Parts
  <1> QED
    BY <1>1, RunInvariant, PTL DEF Spec, DepsKeptUntilReplaced

(***************************************************************************)
(* A run goes forward: every command ends its step for a later one, or     *)
(* leaves less of the directory it is busy with to do.                     *)
(***************************************************************************)
\* Where each command leads.
LEMMA StepsGoOn ==
    /\ StepNumber["git clone"] > StepNumber["remove clone"]
    /\ StepNumber["git checkout"] > StepNumber["git clone"]
    /\ StepNumber["check built"] > StepNumber["git clone"]
    /\ StepNumber["check built"] > StepNumber["git checkout"]
    /\ StepNumber["configure"] > StepNumber["check built"]
    /\ StepNumber["install"] > StepNumber["configure"]
    /\ StepNumber["failed"] > StepNumber["configure"]
    /\ StepNumber["resolved"] > StepNumber["resolve"]
    /\ StepNumber["failed"] > StepNumber["resolve"]
    /\ StepNumber["remove destination"] > StepNumber["resolved"]
    /\ StepNumber["failed"] > StepNumber["resolved"]
    /\ StepNumber["fetch"] > StepNumber["remove destination"]
    /\ StepNumber["verify"] > StepNumber["fetch"]
    /\ StepNumber["unpack"] > StepNumber["fetch"]
    /\ StepNumber["unpack"] > StepNumber["verify"]
    /\ StepNumber["failed"] > StepNumber["verify"]
    /\ StepNumber["remove deps"] > StepNumber["unpack"]
    /\ StepNumber["copy"] > StepNumber["remove deps"]
    /\ StepNumber["rename"] > StepNumber["copy"]
    /\ StepNumber["prebuild"] > StepNumber["remove bindings"]
    /\ StepNumber["ok"] > StepNumber["prebuild"]
    /\ StepNumber["failed"] > StepNumber["prebuild"]
    /\ \A step \in {"check built", "install", "rename"} :
          StepNumber[AfterLibrary(args)] > StepNumber[step]
  BY DEF StepNumber, Steps, Ended, AfterLibrary

\* The commands that do all they have to at once.
LEMMA WholeCommandsAdvance ==
    ASSUME \/ GitClone \/ CheckBuilt \/ Configure \/ ConfigureFindsNothing \/ ResolveRef
           \/ Fetch \/ VerifySignature \/ RenameLib64
           \/ RemoveBindings \/ Prebuild \/ PrebuildFindsNothing
    PROVE  StepNumber[pc'] > StepNumber[pc]
  <1> USE StepsGoOn DEF Goto
  <1>1. CASE GitClone
    BY <1>1 DEF GitClone
  <1>2. CASE CheckBuilt
    BY <1>2 DEF CheckBuilt
  <1>3. CASE Configure \/ ConfigureFindsNothing
    BY <1>3 DEF Configure, ConfigureFindsNothing
  <1>4. CASE ResolveRef
    BY <1>4 DEF ResolveRef
  <1>5. CASE Fetch
    BY <1>5 DEF Fetch
  <1>6. CASE VerifySignature
    BY <1>6 DEF VerifySignature
  <1>7. CASE RenameLib64
    BY <1>7 DEF RenameLib64
  <1>8. CASE RemoveBindings \/ Prebuild \/ PrebuildFindsNothing
    BY <1>8 DEF RemoveBindings, Prebuild, PrebuildFindsNothing
  <1> QED
    BY <1>1, <1>2, <1>3, <1>4, <1>5, <1>6, <1>7, <1>8

\* Whatever rm removes of the clone was there.
LEMMA RemovingShrinks ==
    ASSUME TypeOK, clone' \in OneRemoved(clone)
    PROVE  LET there == {f \in DOMAIN NoClone : clone[f] # None}
           IN  there' \subseteq there /\ there' # there
  <1>1. PICK f \in {"HEAD", "tree", "VERSION_CURRENT"} :
           clone' = [clone EXCEPT ![f] = None] /\ clone' # clone
    BY DEF OneRemoved
  <1>2. DOMAIN NoClone = {"HEAD", "tree", "VERSION_CURRENT"} /\ DOMAIN clone = DOMAIN NoClone
        /\ clone = [g \in DOMAIN clone |-> clone[g]]
    BY DEF NoClone, TypeOK
  <1>3. clone[f] # None
    BY <1>1, <1>2
  <1> QED
    BY <1>1, <1>2, <1>3

\* The commands that work on a directory a part at a time.
LEMMA RemoveCloneAdvances ==
    ASSUME TypeOK, RemoveClone \/ ResolvedRef
    PROVE  \/ StepNumber[pc'] > StepNumber[pc]
           \/ /\ pc' = pc /\ args' = args
              /\ LeftToDo' \subseteq LeftToDo /\ LeftToDo' # LeftToDo
  <1>1. CASE clone' \in OneRemoved(clone) /\ Stay /\ pc \in {"remove clone", "resolved"}
    BY <1>1, RemovingShrinks DEF Stay, LeftToDo
  <1>2. CASE RemoveClone
    BY <1>1, <1>2, StepsGoOn DEF RemoveClone, Goto
  <1>3. CASE ResolvedRef
    BY <1>1, <1>3, StepsGoOn DEF ResolvedRef, Goto
  <1> QED
    BY <1>2, <1>3

LEMMA GitCheckoutAdvances ==
    ASSUME IInv, GitCheckout
    PROVE  \/ StepNumber[pc'] > StepNumber[pc]
           \/ /\ pc' = pc /\ args' = args
              /\ LeftToDo' \subseteq LeftToDo /\ LeftToDo' # LeftToDo
  <1>1. CASE clone.tree.ref = args.ref
    BY <1>1, StepsGoOn DEF GitCheckout, Goto
  <1>2. CASE clone.tree.ref # args.ref
    <2>1. clone \in [HEAD : Refs \cup {None, "other"},
                     tree : [ref : Refs, from : Urls] \cup {None},
                     VERSION_CURRENT : Releases \cup {None, "other"}]
          /\ clone.tree # None /\ pc = "git checkout"
      BY DEF IInv, VInv, TypeOK, RunInv, SourcesRight, GitCheckout
    <2>2. clone' = [clone EXCEPT !.tree.ref = args.ref] /\ pc' = pc /\ args' = args
      BY <1>2 DEF GitCheckout, Stay
    <2>3. clone'.tree.ref = args.ref
      BY <2>1, <2>2
    <2> QED
      BY <1>2, <2>1, <2>2, <2>3 DEF LeftToDo
  <1> QED
    BY <1>1, <1>2

LEMMA WritingAdvances ==
    ASSUME Install \/ Unpack \/ Copy
    PROVE  \/ StepNumber[pc'] > StepNumber[pc]
           \/ /\ pc' = pc /\ args' = args
              /\ LeftToDo' \subseteq LeftToDo /\ LeftToDo' # LeftToDo
  <1>1. ASSUME NEW p \in todo, todo' = todo \ {p}, Stay, pc \in {"install", "unpack", "copy"}
        PROVE  /\ pc' = pc /\ args' = args
               /\ LeftToDo' \subseteq LeftToDo /\ LeftToDo' # LeftToDo
    BY <1>1 DEF Stay, LeftToDo
  <1>2. CASE Install
    BY <1>1, <1>2, StepsGoOn DEF Install, Goto
  <1>3. CASE Unpack
    BY <1>1, <1>3, StepsGoOn DEF Unpack, Goto
  <1>4. CASE Copy
    BY <1>1, <1>4, StepsGoOn DEF Copy, Goto
  <1> QED
    BY <1>2, <1>3, <1>4

LEMMA RemovingDirectoriesAdvances ==
    ASSUME TypeOK, RemoveDestination \/ RemoveDeps
    PROVE  \/ StepNumber[pc'] > StepNumber[pc]
           \/ /\ pc' = pc /\ args' = args
              /\ LeftToDo' \subseteq LeftToDo /\ LeftToDo' # LeftToDo
  <1>1. args.ref \in Refs /\ destination \in [Refs -> [Parts -> Versions \cup {None}]]
        /\ deps \in [Parts -> Versions \cup {None}]
    BY RunsAssumption DEF TypeOK, Arguments
  <1>2. ASSUME NEW p \in Parts, destination[args.ref][p] # None, pc = "remove destination",
               destination' = [destination EXCEPT ![args.ref][p] = None], Stay
        PROVE  /\ pc' = pc /\ args' = args
               /\ LeftToDo' \subseteq LeftToDo /\ LeftToDo' # LeftToDo
    <2>1. \A q \in Parts : destination'[args.ref][q]
                            = IF q = p THEN None ELSE destination[args.ref][q]
      BY <1>1, <1>2
    <2> QED
      BY <1>2, <2>1 DEF Stay, LeftToDo
  <1>3. ASSUME NEW p \in Parts, deps[p] # None, pc = "remove deps",
               deps' = [deps EXCEPT ![p] = None], Stay
        PROVE  /\ pc' = pc /\ args' = args
               /\ LeftToDo' \subseteq LeftToDo /\ LeftToDo' # LeftToDo
    <2>1. \A q \in Parts : deps'[q] = IF q = p THEN None ELSE deps[q]
      BY <1>1, <1>3
    <2> QED
      BY <1>3, <2>1 DEF Stay, LeftToDo
  <1>4. CASE RemoveDestination
    BY <1>2, <1>4, StepsGoOn DEF RemoveDestination, Goto
  <1>5. CASE RemoveDeps
    BY <1>3, <1>5, StepsGoOn DEF RemoveDeps, Goto
  <1> QED
    BY <1>4, <1>5

\* No command goes back, and none that stays at its step has nothing to show for it:
\* a run ends unless a command hangs, whatever it finds on disk (libmongocrypt.mjs:55-64,
\* 162-204, 206-278).
THEOREM RunsGoForward == Spec => RunsAdvance
  <1>1. IInv /\ [Next]_vars =>
          [Command => \/ StepNumber[pc'] > StepNumber[pc]
                      \/ /\ pc' = pc /\ args' = args
                         /\ LeftToDo' \subseteq LeftToDo /\ LeftToDo' # LeftToDo]_vars
    BY WholeCommandsAdvance, RemoveCloneAdvances, GitCheckoutAdvances, WritingAdvances,
       RemovingDirectoriesAdvances
    DEF Command, IInv, VInv
  <1> QED
    BY <1>1, RunInvariant, PTL DEF Spec, RunsAdvance
=============================================================================
