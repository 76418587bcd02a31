------------------------ MODULE FetchLibmongocryptProofs ------------------------
(***************************************************************************)
(* Proofs about FetchLibmongocrypt, for any refs, repositories and command *)
(* lines, and any number of runs that fail or are killed anywhere.         *)
(***************************************************************************)
EXTENDS FetchLibmongocrypt, TLAPS

\* v is not a damaged archive of a release.
Sound(v) == v # None /\ v.ref \in Releases => v.from # "damaged"

\* What has been past the verification step is sound: the unpacked parts, what was
\* copied from them, what was linked with them; and the archive being unpacked.
OnlySoundInstalled ==
    /\ \A r \in Refs, p \in Parts : Sound(destination[r][p])
    /\ \A p \in Parts : Sound(deps[p])
    /\ bindings # None => Sound(bindings.include) /\ Sound(bindings.lib)
    /\ pc = "unpack" => Sound(tarball[args.ref])

\* There are sources to check out.
CheckoutReady == pc = "git checkout" => clone.tree # None

VInv == TypeOK /\ OnlySoundInstalled /\ CheckoutReady

-----------------------------------------------------------------------------
(***************************************************************************)
(* Types of what the actions write                                         *)
(***************************************************************************)

Sources  == [ref : Refs, from : Urls]
Clones   == [HEAD : Refs \cup {None, "other"}, tree : Sources \cup {None},
             VERSION_CURRENT : Releases \cup {None, "other"}]
Dirs     == [Parts -> Versions \cup {None}]
Addons   == [include : Versions \cup {None}, lib : Versions \cup {None}] \cup {None}

LEMMA TypeFacts ==
    TypeOK <=> /\ clone       \in Clones
               /\ tarball     \in [Refs -> Versions \cup {None}]
               /\ destination \in [Refs -> Dirs]
               /\ deps        \in Dirs
               /\ bindings    \in Addons
               /\ pc          \in Steps \cup Ended
               /\ args        \in Runs
               /\ todo        \in SUBSET Parts
               /\ fault       \in BOOLEAN
  BY DEF TypeOK, Clones, Sources, Dirs, Addons

LEMMA NextTypeOK ==
    ASSUME clone' \in Clones, tarball' \in [Refs -> Versions \cup {None}],
           destination' \in [Refs -> Dirs], deps' \in Dirs, bindings' \in Addons,
           pc' \in Steps \cup Ended, args' \in Runs, todo' \in SUBSET Parts,
           fault' \in BOOLEAN
    PROVE  TypeOK'
  BY DEF TypeOK, Clones, Sources, Dirs, Addons

LEMMA ArgumentFacts ==
    ASSUME NEW a \in Runs
    PROVE  a.ref \in Refs /\ a.url \in Urls
  BY RunsAssumption DEF Arguments

\* Sources are versions, and sound ones.
LEMMA SourceFacts ==
    ASSUME NEW v \in Sources
    PROVE  v \in Versions /\ Sound(v) /\ v.ref \in Refs
  BY UrlsAssumption DEF Sources, Versions, Sound

LEMMA CloneFacts ==
    ASSUME NEW c \in Clones
    PROVE  /\ c.tree \in Sources \cup {None}
           /\ OneRemoved(c) \subseteq Clones
           /\ \A r \in Refs : [c EXCEPT !.HEAD = r] \in Clones
           /\ \A v \in Sources : [c EXCEPT !.HEAD = "other", !.tree = v] \in Clones
           /\ \A s \in Releases \cup {"other"} : [c EXCEPT !.VERSION_CURRENT = s] \in Clones
  BY DEF Clones, OneRemoved

LEMMA TreeFacts ==
    ASSUME NEW c \in Clones, NEW v \in Sources
    PROVE  [c EXCEPT !.HEAD = "other", !.tree = v].tree = v
  BY DEF Clones

LEMMA VersionFacts ==
    /\ \A r \in Refs, u \in Urls : Version(r, u) \in Sources
    /\ \A r \in Refs, f \in {"archive", "damaged"} :
          /\ Version(r, f) \in Versions
          /\ Version(r, f).from = f
    /\ \A v \in Sources : VersionString(v) \in Releases \cup {"other"}
  BY DEF Version, Sources, Versions, VersionString

LEMMA DirFacts ==
    ASSUME NEW d \in Dirs, NEW p \in Parts
    PROVE  /\ d[p] \in Versions \cup {None}
           /\ \A v \in Versions \cup {None} : [d EXCEPT ![p] = v] \in Dirs
  BY DEF Dirs

LEMMA PartWritten ==
    ASSUME NEW d \in [Refs -> Dirs], NEW r \in Refs, NEW p \in Parts,
           NEW v \in Versions \cup {None}
    PROVE  /\ [d EXCEPT ![r][p] = v] \in [Refs -> Dirs]
           /\ \A s \in Refs, q \in Parts :
                 [d EXCEPT ![r][p] = v][s][q] = IF s = r /\ q = p THEN v ELSE d[s][q]
  BY DEF Dirs

-----------------------------------------------------------------------------
(***************************************************************************)
(* Init and the actions                                                    *)
(***************************************************************************)

LEMMA InitEstablishes == Init => VInv
  <1> SUFFICES ASSUME Init PROVE VInv
    OBVIOUS
  <1>1. NoClone \in Clones /\ EmptyDir \in Dirs
    BY DEF NoClone, Clones, EmptyDir, Dirs
  <1>2. TypeOK
    BY <1>1, TypeFacts DEF Init, Ended, Addons
  <1>3. OnlySoundInstalled
    BY DEF Init, OnlySoundInstalled, Sound, EmptyDir
  <1> QED
    BY <1>2, <1>3 DEF VInv, CheckoutReady, Init

LEMMA CheckBuiltPreserves ==
    ASSUME VInv, CheckBuilt
    PROVE  VInv'
  <1>1. pc' \in Steps \cup Ended /\ pc' \notin {"unpack", "git checkout"}
        /\ UNCHANGED <<clone, tarball, destination, deps, bindings, args, todo, fault>>
    BY DEF CheckBuilt, Goto, disk, AfterLibrary, Steps, Ended
  <1>2. TypeOK'
    BY <1>1, TypeFacts, NextTypeOK DEF VInv
  <1>3. OnlySoundInstalled'
    BY <1>1 DEF VInv, OnlySoundInstalled, Sound
  <1> QED
    BY <1>1, <1>2, <1>3 DEF VInv, CheckoutReady

LEMMA ConfigureFindsNothingPreserves ==
    ASSUME VInv, ConfigureFindsNothing
    PROVE  VInv'
  <1>1. pc' \in Steps \cup Ended /\ pc' \notin {"unpack", "git checkout"}
        /\ UNCHANGED <<clone, tarball, destination, deps, bindings, args, todo, fault>>
    BY DEF ConfigureFindsNothing, Goto, disk, AfterLibrary, Steps, Ended
  <1>2. TypeOK'
    BY <1>1, TypeFacts, NextTypeOK DEF VInv
  <1>3. OnlySoundInstalled'
    BY <1>1 DEF VInv, OnlySoundInstalled, Sound
  <1> QED
    BY <1>1, <1>2, <1>3 DEF VInv, CheckoutReady

LEMMA PrebuildFindsNothingPreserves ==
    ASSUME VInv, PrebuildFindsNothing
    PROVE  VInv'
  <1>1. pc' \in Steps \cup Ended /\ pc' \notin {"unpack", "git checkout"}
        /\ UNCHANGED <<clone, tarball, destination, deps, bindings, args, todo, fault>>
    BY DEF PrebuildFindsNothing, Goto, disk, AfterLibrary, Steps, Ended
  <1>2. TypeOK'
    BY <1>1, TypeFacts, NextTypeOK DEF VInv
  <1>3. OnlySoundInstalled'
    BY <1>1 DEF VInv, OnlySoundInstalled, Sound
  <1> QED
    BY <1>1, <1>2, <1>3 DEF VInv, CheckoutReady

LEMMA FailPreserves ==
    ASSUME VInv, Fail
    PROVE  VInv'
  <1>1. pc' \in Steps \cup Ended /\ pc' \notin {"unpack", "git checkout"} /\ fault' \in BOOLEAN /\ todo' = {}
        /\ UNCHANGED <<clone, tarball, destination, deps, bindings, args>>
    BY DEF Fail, disk, Steps, Ended
  <1>2. TypeOK'
    BY <1>1 DEF VInv, TypeOK
  <1>3. OnlySoundInstalled'
    BY <1>1 DEF VInv, OnlySoundInstalled, Sound
  <1> QED
    BY <1>1, <1>2, <1>3 DEF VInv, CheckoutReady

LEMMA KillPreserves ==
    ASSUME VInv, Kill
    PROVE  VInv'
  <1>1. pc' \in Steps \cup Ended /\ pc' \notin {"unpack", "git checkout"} /\ fault' \in BOOLEAN /\ todo' = {}
        /\ UNCHANGED <<clone, tarball, destination, deps, bindings, args>>
    BY DEF Kill, disk, Steps, Ended
  <1>2. TypeOK'
    BY <1>1 DEF VInv, TypeOK
  <1>3. OnlySoundInstalled'
    BY <1>1 DEF VInv, OnlySoundInstalled, Sound
  <1> QED
    BY <1>1, <1>2, <1>3 DEF VInv, CheckoutReady

LEMMA RemoveClonePreserves ==
    ASSUME VInv, RemoveClone
    PROVE  VInv'
  <1>1. /\ clone' \in Clones
        /\ pc' \in Steps \cup Ended /\ pc' \notin {"unpack", "git checkout"}
        /\ UNCHANGED <<tarball, destination, deps, bindings, args, todo, fault>>
    BY CloneFacts, TypeFacts DEF VInv, RemoveClone, Goto, Stay, Steps, Ended
  <1>2. TypeOK'
    BY <1>1, TypeFacts, NextTypeOK DEF VInv
  <1>3. OnlySoundInstalled'
    BY <1>1 DEF VInv, OnlySoundInstalled, Sound
  <1> QED
    BY <1>1, <1>2, <1>3 DEF VInv, CheckoutReady

LEMMA GitClonePreserves ==
    ASSUME VInv, GitClone
    PROVE  VInv'
  <1>1. /\ clone' \in Clones /\ clone'.tree # None
        /\ pc' \in Steps \cup Ended /\ pc' # "unpack"
        /\ UNCHANGED <<tarball, destination, deps, bindings, args, todo, fault>>
    <2>1. Version(Latest, args.url) \in Sources /\ clone \in Clones
      BY ArgumentFacts, VersionFacts, TypeFacts DEF VInv, Refs
    <2>2. clone' = [clone EXCEPT !.HEAD = "other", !.tree = Version(Latest, args.url)]
      BY DEF GitClone
    <2>3. clone' \in Clones
      BY <2>1, <2>2, CloneFacts
    <2>4. clone'.tree # None
      BY <2>1, <2>2, SourceFacts, NoneAssumption, TreeFacts
    <2> QED
      BY <2>3, <2>4 DEF GitClone, Goto, Steps, Ended
  <1>2. TypeOK'
    BY <1>1, TypeFacts, NextTypeOK DEF VInv
  <1>3. OnlySoundInstalled'
    BY <1>1 DEF VInv, OnlySoundInstalled, Sound
  <1> QED
    BY <1>1, <1>2, <1>3 DEF VInv, CheckoutReady

LEMMA GitCheckoutPreserves ==
    ASSUME VInv, GitCheckout
    PROVE  VInv'
  <1>1. /\ clone' \in Clones /\ clone'.tree # None
        /\ pc' \in Steps \cup Ended /\ pc' # "unpack"
        /\ UNCHANGED <<tarball, destination, deps, bindings, args, todo, fault>>
    <2>1. clone \in Clones /\ clone.tree \in Sources /\ args.ref \in Refs
      BY ArgumentFacts, CloneFacts, TypeFacts DEF VInv, CheckoutReady, GitCheckout
    <2>2. CASE clone' = [clone EXCEPT !.tree.ref = args.ref] /\ Stay
      <3> DEFINE v == [clone.tree EXCEPT !.ref = args.ref]
      <3>1. v \in Sources
        BY <2>1 DEF Sources
      <3>2. clone' = [clone EXCEPT !.tree = v]
        BY <2>1, <2>2
      <3>3. clone' \in Clones /\ clone'.tree = v
        BY <2>1, <3>1, <3>2 DEF Clones
      <3> QED
        BY <2>2, <3>1, <3>3, SourceFacts, NoneAssumption DEF GitCheckout, Stay, Steps
    <2>3. CASE clone' = [clone EXCEPT !.HEAD = args.ref] /\ Goto("check built")
      <3>1. clone' \in Clones /\ clone'.tree = clone.tree
        BY <2>1, <2>3 DEF Clones
      <3> QED
        BY <2>1, <2>3, <3>1, SourceFacts, NoneAssumption DEF GitCheckout, Goto, Steps
    <2> QED
      BY <2>2, <2>3 DEF GitCheckout
  <1>2. TypeOK'
    BY <1>1, TypeFacts, NextTypeOK DEF VInv
  <1>3. OnlySoundInstalled'
    BY <1>1 DEF VInv, OnlySoundInstalled, Sound
  <1> QED
    BY <1>1, <1>2, <1>3 DEF VInv, CheckoutReady

LEMMA ConfigurePreserves ==
    ASSUME VInv, Configure
    PROVE  VInv'
  <1>1. /\ clone' \in Clones /\ todo' \in SUBSET Parts
        /\ pc' \in Steps \cup Ended /\ pc' \notin {"unpack", "git checkout"}
        /\ UNCHANGED <<tarball, destination, deps, bindings, args, fault>>
    <2>1. clone \in Clones /\ clone.tree \in Sources
      BY CloneFacts, TypeFacts DEF VInv, Configure
    <2>2. clone' \in Clones
      BY <2>1, CloneFacts, VersionFacts DEF Configure
    <2> QED
      BY <2>2 DEF Configure, Goto, Steps, Parts
  <1>2. TypeOK'
    BY <1>1, TypeFacts, NextTypeOK DEF VInv
  <1>3. OnlySoundInstalled'
    BY <1>1 DEF VInv, OnlySoundInstalled, Sound
  <1> QED
    BY <1>1, <1>2, <1>3 DEF VInv, CheckoutReady

LEMMA InstallPreserves ==
    ASSUME VInv, Install
    PROVE  VInv'
  <1>1. clone \in Clones /\ deps \in Dirs /\ clone.tree \in Sources \cup {None}
    BY CloneFacts, TypeFacts DEF VInv
  <1>2. clone.tree \in Versions \cup {None} /\ Sound(clone.tree)
    BY <1>1, SourceFacts DEF Sound
  <1>3. /\ clone' \in Clones /\ todo' \in SUBSET Parts
        /\ pc' \in Steps \cup Ended /\ pc' \notin {"unpack", "git checkout"}
        /\ UNCHANGED <<tarball, destination, bindings, args, fault>>
    <2>1. VersionString(clone.tree) \in Releases \cup {"other"}
      BY DEF VersionString
    <2> QED
      BY <1>1, <2>1, CloneFacts, TypeFacts
         DEF VInv, Install, Goto, Stay, AfterLibrary, Steps, Ended
  <1>4. deps' \in Dirs /\ \A p \in Parts : Sound(deps'[p])
    <2>1. CASE UNCHANGED deps
      BY <1>1, <2>1 DEF VInv, OnlySoundInstalled
    <2>2. ASSUME NEW p \in Parts,
                 deps' = [deps EXCEPT ![p] = clone.tree, !["stale"] = StaleAfter(p)]
          PROVE  deps' \in Dirs /\ \A q \in Parts : Sound(deps'[q])
      <3>1. StaleAfter(p) \in Versions \cup {None} /\ Sound(StaleAfter(p))
        BY <1>1, <1>2, DirFacts DEF StaleAfter, VInv, OnlySoundInstalled, Parts
      <3>2. \A q \in Parts : deps'[q] = IF q = "stale" THEN StaleAfter(p)
                                        ELSE IF q = p THEN clone.tree ELSE deps[q]
        BY <1>1, <2>2 DEF Dirs
      <3>3. deps' \in Dirs
        BY <1>1, <1>2, <2>2, <3>1 DEF Dirs
      <3> QED
        BY <1>2, <3>1, <3>2, <3>3 DEF VInv, OnlySoundInstalled
    <2> QED
      BY <2>1, <2>2, TypeFacts DEF Install, VInv
  <1>5. TypeOK'
    BY <1>3, <1>4, TypeFacts, NextTypeOK DEF VInv
  <1>6. OnlySoundInstalled'
    BY <1>3, <1>4 DEF VInv, OnlySoundInstalled, Sound
  <1> QED
    BY <1>3, <1>5, <1>6 DEF VInv, CheckoutReady

LEMMA ResolveRefPreserves ==
    ASSUME VInv, ResolveRef
    PROVE  VInv'
  <1>1. /\ clone' \in Clones
        /\ pc' \in Steps \cup Ended /\ pc' \notin {"unpack", "git checkout"}
        /\ UNCHANGED <<tarball, destination, deps, bindings, args, todo, fault>>
    <2>1. Version(Latest, Upstream) \in Sources /\ clone \in Clones
      BY VersionFacts, TypeFacts DEF VInv, Refs, Urls
    <2> QED
      BY <2>1, CloneFacts DEF ResolveRef, Goto, Steps, Ended
  <1>2. TypeOK'
    BY <1>1, TypeFacts, NextTypeOK DEF VInv
  <1>3. OnlySoundInstalled'
    BY <1>1 DEF VInv, OnlySoundInstalled, Sound
  <1> QED
    BY <1>1, <1>2, <1>3 DEF VInv, CheckoutReady

LEMMA ResolvedRefPreserves ==
    ASSUME VInv, ResolvedRef
    PROVE  VInv'
  <1>1. /\ clone' \in Clones
        /\ pc' \in Steps \cup Ended /\ pc' \notin {"unpack", "git checkout"}
        /\ UNCHANGED <<tarball, destination, deps, bindings, args, todo, fault>>
    BY CloneFacts, TypeFacts DEF VInv, ResolvedRef, Goto, Stay, Steps, Ended
  <1>2. TypeOK'
    BY <1>1, TypeFacts, NextTypeOK DEF VInv
  <1>3. OnlySoundInstalled'
    BY <1>1 DEF VInv, OnlySoundInstalled, Sound
  <1> QED
    BY <1>1, <1>2, <1>3 DEF VInv, CheckoutReady

LEMMA BeginRunPreserves ==
    ASSUME VInv, NEW a \in Runs, BeginRun(a)
    PROVE  VInv'
  <1>1. /\ pc' \in Steps \cup Ended /\ pc' \notin {"unpack", "git checkout"}
        /\ args' \in Runs /\ todo' \in SUBSET Parts /\ fault' \in BOOLEAN
        /\ UNCHANGED <<clone, tarball, destination, deps, bindings>>
    <2>1. pc' \in {"ok", "remove bindings", "remove clone", "check built",
                   "remove destination", "resolve"}
      BY DEF BeginRun, AfterLibrary, DownloadStart
    <2> QED
      BY <2>1 DEF BeginRun, disk, Steps, Ended
  <1>2. TypeOK'
    BY <1>1, TypeFacts, NextTypeOK DEF VInv
  <1>3. OnlySoundInstalled'
    BY <1>1 DEF VInv, OnlySoundInstalled, Sound
  <1> QED
    BY <1>1, <1>2, <1>3 DEF VInv, CheckoutReady

LEMMA RemoveDestinationPreserves ==
    ASSUME VInv, RemoveDestination
    PROVE  VInv'
  <1>1. args.ref \in Refs
    BY ArgumentFacts, TypeFacts DEF VInv
  <1>2. /\ pc' \in Steps \cup Ended /\ pc' \notin {"unpack", "git checkout"}
        /\ UNCHANGED <<clone, tarball, deps, bindings, args, todo, fault>>
    BY DEF RemoveDestination, Goto, Stay, Steps, Ended
  <1>3. /\ destination' \in [Refs -> Dirs]
        /\ \A r \in Refs, p \in Parts : Sound(destination'[r][p])
    <2>1. CASE UNCHANGED destination
      BY <2>1, TypeFacts DEF VInv, OnlySoundInstalled
    <2>2. ASSUME NEW p \in Parts,
                 destination' = [destination EXCEPT ![args.ref][p] = None]
          PROVE  /\ destination' \in [Refs -> Dirs]
                 /\ \A r \in Refs, q \in Parts : Sound(destination'[r][q])
      <3>1. destination \in [Refs -> Dirs]
        BY TypeFacts DEF VInv
      <3>2. /\ destination' \in [Refs -> Dirs]
            /\ \A s \in Refs, q \in Parts :
                  destination'[s][q] = IF s = args.ref /\ q = p THEN None
                                                             ELSE destination[s][q]
        BY <1>1, <2>2, <3>1, PartWritten
      <3> QED
        BY <3>2 DEF VInv, OnlySoundInstalled, Sound
    <2>3. \/ UNCHANGED destination
          \/ \E p \in Parts : destination' = [destination EXCEPT ![args.ref][p] = None]
      BY DEF RemoveDestination
    <2> QED
      BY <2>1, <2>2, <2>3
  <1>4. TypeOK'
    BY <1>2, <1>3, TypeFacts, NextTypeOK DEF VInv
  <1>5. OnlySoundInstalled'
    BY <1>2, <1>3 DEF VInv, OnlySoundInstalled, Sound
  <1> QED
    BY <1>2, <1>4, <1>5 DEF VInv, CheckoutReady

LEMMA FetchPreserves ==
    ASSUME VInv, Fetch
    PROVE  VInv'
  <1>1. /\ tarball' \in [Refs -> Versions \cup {None}]
        /\ pc' = "unpack" => Sound(tarball'[args.ref])
        /\ fault' \in BOOLEAN
    <2>1. args.ref \in Refs
      BY ArgumentFacts, TypeFacts DEF VInv
    <2>2. PICK from \in {"archive", "damaged"} :
            /\ tarball' = [tarball EXCEPT ![args.ref] = Version(args.ref, from)]
            /\ fault' = (from = "damaged")
      BY DEF Fetch
    <2>3. /\ Version(args.ref, from) \in Versions
          /\ Version(args.ref, from).ref = args.ref
      BY <2>1, VersionFacts DEF Version
    <2>4. tarball' \in [Refs -> Versions \cup {None}] /\ tarball'[args.ref] = Version(args.ref, from)
      BY <2>1, <2>2, <2>3, TypeFacts DEF VInv
    <2>5. pc' = "unpack" => args.ref \notin Releases
      BY DEF Fetch
    <2> QED
      BY <2>2, <2>3, <2>4, <2>5 DEF Sound
  <1>2. /\ pc' \in Steps \cup Ended /\ pc' # "git checkout" /\ todo' \in SUBSET Parts
        /\ UNCHANGED <<clone, destination, deps, bindings, args>>
    BY DEF Fetch, Steps, Layouts, Parts
  <1>3. TypeOK'
    BY <1>1, <1>2, TypeFacts, NextTypeOK DEF VInv
  <1>4. OnlySoundInstalled'
    BY <1>1, <1>2 DEF VInv, OnlySoundInstalled, Sound
  <1> QED
    BY <1>2, <1>3, <1>4 DEF VInv, CheckoutReady

LEMMA VerifySignaturePreserves ==
    ASSUME VInv, VerifySignature
    PROVE  VInv'
  <1>1. /\ pc' \in Steps \cup Ended /\ pc' # "git checkout"
        /\ pc' = "unpack" => Sound(tarball[args.ref])
        /\ UNCHANGED <<clone, tarball, destination, deps, bindings, args, todo, fault>>
    BY DEF VerifySignature, Goto, disk, Steps, Ended, Sound
  <1>2. TypeOK'
    BY <1>1, TypeFacts, NextTypeOK DEF VInv
  <1>3. OnlySoundInstalled'
    BY <1>1 DEF VInv, OnlySoundInstalled, Sound
  <1> QED
    BY <1>1, <1>2, <1>3 DEF VInv, CheckoutReady

LEMMA UnpackPreserves ==
    ASSUME VInv, Unpack
    PROVE  VInv'
  <1>1. args.ref \in Refs
    BY ArgumentFacts, TypeFacts DEF VInv
  <1>2. /\ pc' \in Steps \cup Ended /\ pc' # "git checkout" /\ todo' \in SUBSET Parts
        /\ UNCHANGED <<clone, deps, bindings, args, fault>>
    BY TypeFacts DEF Unpack, Goto, Stay, Steps, VInv
  <1>3. /\ tarball' \in [Refs -> Versions \cup {None}]
        /\ pc' = "unpack" => tarball' = tarball
    BY <1>1, TypeFacts DEF Unpack, Goto, VInv
  <1>4. /\ destination' \in [Refs -> Dirs]
        /\ \A r \in Refs, p \in Parts : Sound(destination'[r][p])
    <2>1. CASE UNCHANGED destination
      BY <2>1, TypeFacts DEF VInv, OnlySoundInstalled
    <2>2. ASSUME NEW p \in Parts,
                 destination' = [destination EXCEPT ![args.ref][p] = tarball[args.ref]]
          PROVE  /\ destination' \in [Refs -> Dirs]
                 /\ \A r \in Refs, q \in Parts : Sound(destination'[r][q])
      <3> DEFINE v == tarball[args.ref]
      <3>1. Sound(v) /\ v \in Versions \cup {None}
        BY <1>1, TypeFacts DEF VInv, OnlySoundInstalled, Unpack
      <3>2. destination \in [Refs -> Dirs]
        BY TypeFacts DEF VInv
      <3>3. /\ destination' \in [Refs -> Dirs]
            /\ \A s \in Refs, q \in Parts :
                  destination'[s][q] = IF s = args.ref /\ q = p THEN v ELSE destination[s][q]
        <4>1. destination' = [destination EXCEPT ![args.ref][p] = v]
          BY <2>2
        <4>2. v \in Versions \cup {None}
          BY <3>1
        <4> HIDE DEF v
        <4> QED
          BY <1>1, <4>1, <4>2, <3>2, PartWritten, SMTT(60)
      <3> QED
        BY <3>1, <3>3 DEF VInv, OnlySoundInstalled
    <2>3. \/ UNCHANGED destination
          \/ \E p \in Parts :
                destination' = [destination EXCEPT ![args.ref][p] = tarball[args.ref]]
      <3>1. CASE UNCHANGED <<destination, todo>>
        BY <3>1
      <3>2. CASE \E p \in todo :
                    /\ destination' = [destination EXCEPT ![args.ref][p] = tarball[args.ref]]
                    /\ todo' = todo \ {p}
        <4>1. todo \subseteq Parts
          BY TypeFacts DEF VInv
        <4>2. PICK p \in todo :
                destination' = [destination EXCEPT ![args.ref][p] = tarball[args.ref]]
          BY <3>2
        <4>3. p \in Parts
          BY <4>1
        <4> QED
          BY <4>2, <4>3
      <3> QED
        BY <3>1, <3>2 DEF Unpack
    <2> QED
      BY <2>1, <2>2, <2>3
  <1>5. TypeOK'
    BY <1>2, <1>3, <1>4, TypeFacts, NextTypeOK DEF VInv
  <1>6. OnlySoundInstalled'
    <2>1. pc' = "unpack" => Sound(tarball'[args'.ref])
      BY <1>2, <1>3 DEF VInv, OnlySoundInstalled, Unpack
    <2> QED
      BY <1>2, <1>4, <2>1 DEF VInv, OnlySoundInstalled, Sound
  <1> QED
    BY <1>2, <1>5, <1>6 DEF VInv, CheckoutReady

LEMMA RemoveDepsPreserves ==
    ASSUME VInv, RemoveDeps
    PROVE  VInv'
  <1>1. args.ref \in Refs /\ destination[args.ref] \in Dirs /\ deps \in Dirs
    BY ArgumentFacts, TypeFacts DEF VInv
  <1>2. /\ pc' \in Steps \cup Ended /\ pc' \notin {"unpack", "git checkout"}
        /\ todo' \in SUBSET Parts
        /\ UNCHANGED <<clone, tarball, destination, bindings, args, fault>>
    BY TypeFacts DEF RemoveDeps, Goto, Stay, Steps, Ended, AfterLibrary, VInv
  <1>3. deps' \in Dirs /\ \A p \in Parts : Sound(deps'[p])
    <2>1. CASE UNCHANGED deps
      BY <1>1, <2>1 DEF VInv, OnlySoundInstalled
    <2>2. ASSUME NEW p \in Parts, deps' = [deps EXCEPT ![p] = None]
          PROVE  deps' \in Dirs /\ \A q \in Parts : Sound(deps'[q])
      <3>1. \A q \in Parts : deps'[q] = IF q = p THEN None ELSE deps[q]
        BY <1>1, <2>2 DEF Dirs
      <3> QED
        BY <1>1, <2>2, <3>1, DirFacts DEF VInv, OnlySoundInstalled, Sound
    <2> QED
      BY <2>1, <2>2 DEF RemoveDeps
  <1>4. TypeOK'
    BY <1>2, <1>3, TypeFacts, NextTypeOK DEF VInv
  <1>5. OnlySoundInstalled'
    BY <1>2, <1>3 DEF VInv, OnlySoundInstalled, Sound
  <1> QED
    BY <1>2, <1>4, <1>5 DEF VInv, CheckoutReady

LEMMA CopyPreserves ==
    ASSUME VInv, Copy
    PROVE  VInv'
  <1>1. args.ref \in Refs /\ destination[args.ref] \in Dirs /\ deps \in Dirs
    BY ArgumentFacts, TypeFacts DEF VInv
  <1>2. /\ pc' \in Steps \cup Ended /\ pc' \notin {"unpack", "git checkout"}
        /\ todo' \in SUBSET Parts
        /\ UNCHANGED <<clone, tarball, destination, bindings, args, fault>>
    BY TypeFacts DEF Copy, Goto, Stay, Steps, Ended, AfterLibrary, VInv
  <1>3. deps' \in Dirs /\ \A p \in Parts : Sound(deps'[p])
    <2>1. CASE UNCHANGED deps
      BY <1>1, <2>1 DEF VInv, OnlySoundInstalled
    <2>2. ASSUME NEW p \in Parts, deps' = [deps EXCEPT ![p] = destination[args.ref][p]]
          PROVE  deps' \in Dirs /\ \A q \in Parts : Sound(deps'[q])
      <3>1. \A q \in Parts : deps'[q] = IF q = p THEN destination[args.ref][p] ELSE deps[q]
        BY <1>1, <2>2 DEF Dirs
      <3> QED
        BY <1>1, <2>2, <3>1, DirFacts DEF VInv, OnlySoundInstalled
    <2> QED
      BY <2>1, <2>2, TypeFacts DEF Copy, VInv
  <1>4. TypeOK'
    BY <1>2, <1>3, TypeFacts, NextTypeOK DEF VInv
  <1>5. OnlySoundInstalled'
    BY <1>2, <1>3 DEF VInv, OnlySoundInstalled, Sound
  <1> QED
    BY <1>2, <1>4, <1>5 DEF VInv, CheckoutReady

LEMMA RenameLib64Preserves ==
    ASSUME VInv, RenameLib64
    PROVE  VInv'
  <1>1. args.ref \in Refs /\ destination[args.ref] \in Dirs /\ deps \in Dirs
    BY ArgumentFacts, TypeFacts DEF VInv
  <1>2. /\ pc' \in Steps \cup Ended /\ pc' \notin {"unpack", "git checkout"}
        /\ todo' \in SUBSET Parts
        /\ UNCHANGED <<clone, tarball, destination, bindings, args, fault>>
    BY TypeFacts DEF RenameLib64, Goto, Stay, Steps, Ended, AfterLibrary, VInv
  <1>3. deps' \in Dirs /\ \A p \in Parts : Sound(deps'[p])
    <2>1. CASE UNCHANGED deps
      BY <1>1, <2>1 DEF VInv, OnlySoundInstalled
    <2>2. CASE deps' = [deps EXCEPT !["lib"] = deps["lib64"], !["lib64"] = None]
      <3>1. "lib" \in Parts /\ "lib64" \in Parts
        BY DEF Parts
      <3>2. deps' \in Dirs
        BY <1>1, <2>2, <3>1 DEF Dirs
      <3>3. \A q \in Parts : deps'[q] \in {deps[q], deps["lib64"], None}
        BY <1>1, <2>2, <3>1 DEF Dirs
      <3> QED
        BY <3>1, <3>2, <3>3 DEF VInv, OnlySoundInstalled, Sound
    <2> QED
      BY <2>1, <2>2 DEF RenameLib64
  <1>4. TypeOK'
    BY <1>2, <1>3, TypeFacts, NextTypeOK DEF VInv
  <1>5. OnlySoundInstalled'
    BY <1>2, <1>3 DEF VInv, OnlySoundInstalled, Sound
  <1> QED
    BY <1>2, <1>4, <1>5 DEF VInv, CheckoutReady

LEMMA RemoveBindingsPreserves ==
    ASSUME VInv, RemoveBindings
    PROVE  VInv'
  <1>1. /\ pc' \in Steps \cup Ended /\ pc' \notin {"unpack", "git checkout"}
        /\ bindings' = None
        /\ UNCHANGED <<clone, tarball, destination, deps, args, todo, fault>>
    BY DEF RemoveBindings, Goto, Steps
  <1>2. TypeOK'
    BY <1>1, TypeFacts, NextTypeOK DEF VInv, Addons
  <1>3. OnlySoundInstalled'
    BY <1>1 DEF VInv, OnlySoundInstalled, Sound
  <1> QED
    BY <1>1, <1>2, <1>3 DEF VInv, CheckoutReady

LEMMA PrebuildPreserves ==
    ASSUME VInv, Prebuild
    PROVE  VInv'
  <1>1. /\ pc' \in Steps \cup Ended /\ pc' \notin {"unpack", "git checkout"}
        /\ UNCHANGED <<clone, tarball, destination, deps, args, todo, fault>>
    BY DEF Prebuild, Goto, Ended
  <1>2. PICK i, l \in Versions \cup {None} :
          bindings' = Linked(i, l) /\ Sound(i) /\ Sound(l)
    <2>1. CASE bindings' = System
      BY <2>1 DEF System, Sound
    <2>2. CASE bindings' = Linked(deps["include"], deps["lib"])
      <3>1. /\ deps["include"] \in Versions \cup {None} /\ Sound(deps["include"])
            /\ deps["lib"] \in Versions \cup {None} /\ Sound(deps["lib"])
        BY DirFacts, TypeFacts DEF VInv, OnlySoundInstalled, Parts
      <3> QED
        BY <2>2, <3>1
    <2> QED
      BY <2>1, <2>2 DEF Prebuild
  <1>3. bindings' \in Addons /\ bindings'.include = i /\ bindings'.lib = l
    BY <1>2 DEF Linked, Addons
  <1>4. TypeOK'
    BY <1>1, <1>3, TypeFacts, NextTypeOK DEF VInv
  <1>5. OnlySoundInstalled'
    BY <1>1, <1>2, <1>3 DEF VInv, OnlySoundInstalled, Sound
  <1> QED
    BY <1>1, <1>4, <1>5 DEF VInv, CheckoutReady

LEMMA NextPreserves ==
    ASSUME VInv, [Next]_vars
    PROVE  VInv'
  <1>1. CASE UNCHANGED vars
    <2>1. TypeOK'
      BY <1>1, TypeFacts, NextTypeOK DEF VInv, vars
    <2> QED
      BY <1>1, <2>1 DEF VInv, OnlySoundInstalled, CheckoutReady, Sound, vars
  <1>2. CASE \E a \in Runs : BeginRun(a)
    BY <1>2, BeginRunPreserves
  <1>3. CASE Command
    BY <1>3, RemoveClonePreserves, GitClonePreserves, GitCheckoutPreserves,
       CheckBuiltPreserves, ConfigurePreserves, ConfigureFindsNothingPreserves,
       InstallPreserves, ResolveRefPreserves, ResolvedRefPreserves,
       RemoveDestinationPreserves, FetchPreserves, VerifySignaturePreserves,
       UnpackPreserves, RemoveDepsPreserves, CopyPreserves,
       RenameLib64Preserves, RemoveBindingsPreserves, PrebuildPreserves,
       PrebuildFindsNothingPreserves
       DEF Command
  <1>4. CASE Fail \/ Kill
    BY <1>4, FailPreserves, KillPreserves
  <1> QED
    BY <1>1, <1>2, <1>3, <1>4 DEF Next, Undisturbed

-----------------------------------------------------------------------------
(***************************************************************************)
(* Results                                                                 *)
(***************************************************************************)

LEMMA InvariantHolds == Spec => []VInv
  BY InitEstablishes, NextPreserves, PTL DEF Spec

\* Every variable keeps its type.
THEOREM TypeCorrect == Spec => []TypeOK
  <1>1. VInv => TypeOK
    BY DEF VInv
  <1> QED
    BY <1>1, InvariantHolds, PTL

\* Whatever runs came before, and wherever they were interrupted, no part of a
\* damaged release archive is in ./deps or in the addon (libmongocrypt.mjs:181).
THEOREM ReleasesAreVerified == Spec => []ReleaseArchivesVerified
  <1>1. VInv => ReleaseArchivesVerified
    <2> SUFFICES ASSUME VInv,
                        NEW v \in {deps[p] : p \in Parts} \cup
                                  (IF bindings = None THEN {}
                                   ELSE {bindings.include, bindings.lib}),
                        v # None, v.ref \in Releases
                 PROVE  v.from # "damaged"
      BY DEF ReleaseArchivesVerified
    <2>1. Sound(v)
      BY DEF VInv, OnlySoundInstalled
    <2> QED
      BY <2>1 DEF Sound
  <1> QED
    BY <1>1, InvariantHolds, PTL
=============================================================================
