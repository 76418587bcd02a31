# A formal model of mongodb-client-encryption

TLA+ specifications of the Node.js bindings to libmongocrypt: the C++ addon (`addon/`), the TypeScript
around it (`src/`) and the script that provides the addon with libmongocrypt (`.github/scripts/`).
TLC checks them on small instances; TLAPS proves the central results for every value of the constants.

    tlc -config ObjectLifetimes.cfg MCObjectLifetimes     # one of the runs listed below
    tlapm ObjectLifetimesProofs.tla                       # the proofs

## The system

The application creates a `MongoCrypt` with options and optional callbacks (crypto hooks, a logger), asks it
for *contexts* (encrypt, decrypt, create a data key, rewrap), and drives each context: look at its `state`,
feed it what it asks for (collection info, keys from the key vault, answers of a KMS through *KMS requests*),
finalize it. The addon wraps libmongocrypt's handles in JavaScript objects; libmongocrypt calls back into
JavaScript for cryptography and logging. There is one JavaScript thread. Nothing in the addon is
asynchronous; what interleaves are callbacks nested in native methods, the garbage collector, and finalizers.

| Component | State it keeps | Operations | Interacts through | What is hard | What makes it correct |
|---|---|---|---|---|---|
| Object lifetimes (`mongocrypt.h`, `mongocrypt.cc`) | wrappers; `MongoCrypt::State`, `ContextState` behind `shared_ptr`s; native handles pointing at each other | construct, make a context, call a method, hand out a KMS request, destructors | shared structs, raw pointers, weak callbacks | collection and finalization in any order, re-entry from callbacks, throws half-way, tear-down | no use after free, right order of destruction, no leak, garbage is really freed |
| Callback dispatch (`logHandler`, `get_js_wrapper_for_ctx`, `GetCallback`) | `js_wrapper`, `__callbackStorage`, a weak reference | call a hook, log | raw `void*` given to libmongocrypt | the MongoCrypt collected, finalized or half constructed when libmongocrypt calls | never a dangling pointer; failures reported, not thrown through C |
| MongoCrypt construction and options | the `mongocrypt_t` being set up | read and check options, set up libmongocrypt, install hooks | getters of the options object can run script | throws between any two steps; the order hooks, providers and maps are installed in | all or nothing; the provider that was selected is the one that is used |
| Context protocol (`MongoCryptContext`) | libmongocrypt's state machine | `status`, `state`, `nextMongoOperation`, `addMongoOperationResponse`, `finishMongoOperation`, `provideKMSProviders`, `nextKMSRequest`, `finishKMSRequests`, `finalize` | the driver's loop | ignored return values, calls out of order | a finished context yields a result; an error is seen |
| KMS requests (`MongoCryptKMSRequest`) | bytes still needed, retries | `addResponse`, `fail`, `status`, `bytesNeeded`, ... | network of the driver | partial answers, retries, several requests at a time | an answer completes its own request only |
| JavaScript crypto hooks (`mongocrypt.cc`, `crypto_callbacks.ts`) | none between calls | AES, HMAC, SHA-256, random, RSA signatures | buffers copied both ways, exceptions to status | results of the wrong size, exceptions, missing status | bytes written fit; a failure is `false` with a status |
| OpenSSL hooks (`openssl-crypto.cc`) | looked-up symbols | the same hooks in C++ | `dlsym` on the process | exceptions in C callbacks | the same contract as the JavaScript hooks |
| Error wrapper (`index.ts`, `bindings.ts`) | the `errorWrapper` option | a `try` block around every method of `MongoCrypt` and `MongoCryptContext` | the application's function | which entry points escape it | every exception of the bindings reaches the application wrapped |
| Bindings loader | the loaded addon | tries `prebuilds`, `build` | `require` | none of interest | – |
| libmongocrypt provisioning (`libmongocrypt.mjs`, `utils.mjs`, `get-commit-from-ref.sh`) | `_libmongocrypt`, `_libmongocrypt-<ref>`, tarballs, `deps`, `build` on disk | clone, build, download, verify, build the bindings | git, cmake, gpg, tar, npm, network | runs that fail or are killed anywhere, leftovers of other versions, skipped steps | what is installed is what was asked for, verified |
| Build and packaging, CI, tests, benchmarks | – | – | – | – | not modelled: configuration and documentation |
| libmongocrypt, Node-API, OpenSSL, git, cmake | external | | | | modelled from how this repository uses them |

## Modules

| Module | Models | Kind |
|---|---|---|
| `ObjectLifetimes` | object lifetimes and callback dispatch | component |
| `NativeHandles` | what libmongocrypt asks of a user of its handles | abstract specification |
| `ObjectLifetimesInvariant` | the inductive invariant `IInv` | shared by TLC and TLAPS |
| `ObjectLifetimesProofs` | the theorems | proofs |
| `NativeHandlesRefinement` | that `ObjectLifetimes` implements `NativeHandles` | proofs |
| `MCObjectLifetimes` | symmetry for TLC | model checking |
| `CryptoHooks` | the JavaScript and the OpenSSL crypto hooks | component |
| `HookContract` | what libmongocrypt relies on when it calls a hook, and where the package falls short of it | abstract specification |
| `HookOutcomes` | how a hook that fails ends the call it was made in, and why | shared by hooks and session |
| `CryptoHooksProofs` | its invariant, theorems and the refinement | proofs |
| `MongoCryptCtor` | the constructors of `MongoCrypt`, options and installation of the hooks | component |
| `EncryptionSession` | a session from the constructor to the result: contexts, KMS requests, error wrapper (extends `MongoCryptCtor` and `HookOutcomes`) | composition |
| `ContextProtocol` | what libmongocrypt asks of whoever drives a context | abstract specification |
| `EncryptionSessionProofs` | the invariant and theorems of `MongoCryptCtor` and `EncryptionSession` | proofs |
| `SessionProtocolProofs` | that a session implements `ContextProtocol`, and that it advances | proofs |
| `FetchLibmongocrypt` | libmongocrypt provisioning | component |
| `MCFetchLibmongocrypt` | sets of command lines for TLC | model checking |
| `FetchLibmongocryptProofs` | types and signatures | proofs |
| `FetchRunsProofs` | what a run installs and when it fails | proofs |

An operator whose comment starts with *Mutant* is not part of a model. It is a way the code could be wrong,
put in place of the operator after it to show that the property it names notices.

### ObjectLifetimes

Three classes wrap three native handles that point at each other, `mongocrypt_kms_ctx_t` → `mongocrypt_ctx_t`
→ `mongocrypt_t`. Between the wrappers and the handles stand two structs held by `shared_ptr`.

| Variable | Code |
|---|---|
| `js` | life of a wrapper: *live* (the JavaScript object exists), *collected* (the engine dropped it and emptied the weak reference `ObjectWrap` keeps; the C++ object is still there), *finalized* |
| `roots`, `reaches` | what the application's variables, and the closures it registered as callbacks, refer to |
| `callbacks` | `__callbackStorage` (`mongocrypt.cc:849-875`) |
| `mongo_crypt`, `js_wrapper`, `stateRefs` | `MongoCrypt::State` (`mongocrypt.h:59-63`) and the owners of its `shared_ptr` |
| `context`, `parent`, `contextRefs` | `MongoCryptContext::ContextState` (`mongocrypt.h:109-113`), the raw pointer inside libmongocrypt, the owners |
| `contextState` | `MongoCryptKMSRequest::_context_state` (`mongocrypt.h:157`) |
| `stack` | native methods and JavaScript callbacks in progress, nested |
| `destructor` | destroying a struct takes a step per member; this is the member that is next |
| `env` | whether the environment is being torn down |

`BeginCtor`/`EndCtor`/`FailCtor` are the constructor, `BeginMake`/`EndMake`/`FailMake` the six `Make...Context`
methods (`mongocrypt.cc:625-847`), `BeginCall`/`BeginKMSCall`/`Return`/`ReturnKMSRequest` the methods of contexts
and requests. While a native method is on top of the stack libmongocrypt may call back: `InvokeCallback`,
`CallbackFindsNoWrapper` and `CallbackUnwinds` are the three ways `js_wrapper` and the weak reference can be
found. While a callback is on top, its script may do anything the application may. `Collect` drops any set of
unreachable objects at any time; the finalizers run with an empty stack, as Node-API runs them from the event
loop, or at tear-down, in any order. `DestroyNativeContext`, `ReleaseMongoCrypt` and `DestroyNativeCrypt` are the
member destructors.

Abstractions. Calls to libmongocrypt are opaque except for what they destroy, create and call back. Accessors
of `MongoCrypt` only read and are not frames. Getters of the options object that run script inside a `make`
method are subsumed by the crypto hook, which runs script in the same place. Closures that exist at construction
are `Capture`d right after. That `GetCallback` on an empty weak reference throws is Node-API's behaviour; if the
process terminates because of an exception in C frames, the behaviour ends there. Whether libmongocrypt calls
back from `mongocrypt_destroy` is not visible in this repository; `WrapperPointerValid` leaves that moment out.

### NativeHandles

The abstract specification: a context is made from an open `mongocrypt_t`, handles are used only while they are
open, a `mongocrypt_ctx_t` is destroyed when nothing uses it, a `mongocrypt_t` after all its contexts.
`ObjectLifetimes` implements it with `crypt <- mongo_crypt`, `ctx <- context`, `of <- parent` and `inUse <-` the
handles of the frames on the stack (`RefinesNativeHandles`).

### What does not come back

Two action properties say what memory safety and the collector rest on. `NothingComesBack`: a collected object is
never named by a script again, although its `State` and the callbacks of its contexts go on, and a struct that has
lost its last owner is not shared once more by a method that was under way. `AbandonedForGood`: a set of
objects that nothing refers to may still contain a MongoCrypt whose hook is called from a context in use, which
brings it and what its callbacks close over back; but if every context and request of its MongoCrypts is in the set
or gone (`Abandoned`), the set stays out of reach. This is the safety half of `GarbageIsDestroyed`.

### FetchLibmongocrypt

Variables are the directories the script looks at. `clone` has the parts `main` decides by, `.git/HEAD`, the
sources, and `VERSION_CURRENT`; `deps` and `destination` have `include`, `lib` and `lib64`; each part holds a
version and where it came from. An install of cmake overwrites files and removes none, so where it writes over a
part of another version some of that version's files may stay: the part "stale" of `deps` notes that there may be
such files. `bindings` is what the addon was linked from. `pc` and `args` are the run in progress. There is one
action per command of the script; writing or removing a directory takes a step per part, in any order, so that
`Fail` (a command exits with an error) and `Kill` can leave any part of it behind. The next `BeginRun` finds what
is there. `fault` says whether something failed for a reason of its own in this run, which tells a failure caused
by leftovers from one caused by the network.

External: `git checkout -b` writes the files before `HEAD`; cmake writes `VERSION_CURRENT` when it configures or
by the end of the build (both are allowed); it holds the tag for a release and something that is no ref for any
other commit, "latest" is no git ref, archives have their libraries in `lib` or in `lib64`, and arrive whole or
damaged; gpg accepts exactly the undamaged ones. That a branch moves between two runs, and two runs at the same
time, are not modelled.

### CryptoHooks and HookContract

A call of a hook is `call`: which hook, the length of what it has to produce, the room of the buffer lent to it,
and whether key and IV are fit for use. Byte *i* of the right result is the number *i*, so that a byte that is
missing or misplaced shows. `provider` is `crypto_hooks->id`.

| Variable | Code |
|---|---|
| `pc` | where the hook is: before or after `EVP_xxcryptUpdate` (native), before or in the callback (JavaScript) |
| `out`, `bytes_written`, `status` | the parameters of the same names; `status` is whether `mongocrypt_status_set` ran |
| `end` | `return true`, `return false`, an exception, the end of the process, or `CopyBufferData`'s assertion ("overrun") |
| `fault` | a call of OpenSSL or Node.js failed for a reason of its own |
| `mc` | `js_wrapper` is usable, has lost its object, is null |

`NativeInit`, `NativeUpdate`, `NativeFinal` are the steps of `encrypt_with_cipher` and `decrypt_with_cipher`,
`NativeDigest` and `NativeSign` the other native hooks, `NativeFault` a failure of any step: reported with a status,
or thrown (`ASSERT`, `S`), or fatal. `JsLookup`, then `JsPackage` (the callbacks of `crypto_callbacks.ts`) or
`JsApplication` (anything JavaScript can do), then `CopyBack` are a JavaScript hook. Abstractions: the content
of keys and data; `assert` is taken as on, so that what a release build would overwrite is the end of the behaviour;
lengths are `Nat`, the conversions between `int` and `uint32_t` being guarded by `ASSERT`s in the code.

`HookContract` is the abstract specification. libmongocrypt lends a buffer, and the hook may scribble in it while it
runs. The rule is what `openssl-crypto.cc:111-117` says: a hook succeeds with all of the answer in the buffer
(`Succeed`), or returns false with a status, which it does only if there is no answer, no room for it, something
broke, or the MongoCrypt is gone (`GiveUp`). The code does not keep this rule, and the contract says where: each exception is an action of its
own, with the hooks it is for and the condition it is bound to.

| Exception | Who | When |
|---|---|---|
| `CutShort` | JavaScript hooks | a signature longer than the buffer: its first bytes are reported as a success (`crypto_callbacks.ts:79`) |
| `Escape` | native hooks | an exception at a key or IV that is unfit; an exception or the end of the process where OpenSSL failed (`ASSERT`, `S`, `Cleanup`) |
| `Vanish` | JavaScript hooks | an exception if the MongoCrypt was collected (`GetCallback`) |

An application's own callbacks are held to nothing (`Foreign`): they may throw, return false without a status, report
what they did not write, or overrun the buffer. `ImplementsHookContract` says that `CryptoHooks` implements this, with
the length of the answer, not of what fits, as `answer`.

`HookOutcomes` is the seam between hooks and session: `HookFailuresOf(hooks, callbacks, object)` are the ways in which
a hook can fail, by provider, whose callbacks it calls and what has become of the MongoCrypt. `CryptoHooks` shows that
a hook fails in no other way (`FailuresForeseen`), and `EncryptionSession` lets a hook fail in exactly these.

### MongoCryptCtor

`step` is the option the constructor of `mongocrypt.cc:483-594` reads next, in the order of the code (`Steps`); each
option is absent, accepted, refused by a check of the addon ("own") or by libmongocrypt ("status"), and an
exception leaves what was done so far. `storage` is `__callbackStorage`, `registered` the functions libmongocrypt may
call, `asked` and `settings` what was wanted of libmongocrypt and what it took. `openssl3` decides which hooks
`createOpenSSLCryptoHooks` and the constructor choose. `cryptoCallbacks` is the option after
`{ cryptoCallbacks, ...options }` of `index.ts:99`: the package's, an application's, one with a member that is no
function, or an explicit `undefined`. External: libmongocrypt takes no setting after `mongocrypt_init`, and
initialization needs a KMS provider.

### EncryptionSession

The application of `test/unit/crypto.test.ts:32-59`, extended to the states it has no use for (credentials, KMS):
`client` is where it is, `ctx` the state libmongocrypt's context is in, `ctxWhy` its status, `kms` the KMS
requests, `buffer` what `finalize` returned, `error` how the application learned of a failure: by an exception,
`wrapped` or not, from the context's `state` and `status`, by giving up itself, or because the process ended. Each
method of a context is an action; what it does to `ctx` is libmongocrypt's. `Advance` is any later state, or, from
`need_kms`, another round of KMS requests (credentials over OAuth, rewrapped keys, KMIP), of which none was asked
for before (`Unasked`); `Refused` is the error state, for good. That a refused call returns like any other
(`mongocrypt.cc:925-963`) is the point of `Refused`. A hook that fails inside a call makes libmongocrypt refuse,
or throws through it (`HookFailures`, from `HookOutcomes` by provider, callbacks and `mc`); an exception of a
native hook is a `std::runtime_error`, which node-addon-api does not catch, so the process ends. The reason of a
failure is carried along to the end.

`ContextProtocol` is the same session seen by libmongocrypt's context alone: it asks for one thing after the
other, leaves a round of KMS requests, for another state or another round, only when every request was handed out
and answered, breaks for good, and has a document only when it is done. `EncryptionSession` implements it with
`kms <-` the states of the requests and `result <- buffer` (`ImplementsContextProtocol`); the constructor, the
error wrapper, the hooks, the collector and what the application does in between are steps that change nothing
there.

`SessionAdvances` is the safety half of `SessionEnds`: every step but those of the collector makes the context
older, or leaves fewer requests unasked, or brings the application further in its turn of the loop (`Reached`, in
which the error state counts as being out of the loop), or the constructor to its next option, or one request
nearer to its answer (`Nearer`: a later attempt; or the same attempt and a later state; or the same state and
fewer pieces left). None of these can go on for ever, as libmongocrypt bounds the rounds (here by the finite set
of requests) and the attempts.

Abstractions: the six make methods are one action, which fails with an argument that is not bytes, with
libmongocrypt's refusal or with a hook's failure; `NOTHING_TO_DO` is "ready"; accessors that only read
(`message`, `endpoint`, `uSleep`, `kmsProvider`, `cryptSharedLibVersionInfo`) are left out; a failure of the
application's own database calls is its own affair. libmongocrypt's part is external: it hands a KMS request out
again at most `MaxTries` times, and only with `retry_kms` set; it goes through its states in the order of `Order`,
with rounds only in `need_kms`; and it asks for finitely many requests.

## Runs

| Run (cfg) | Bounds | Result |
|---|---|---|
| `lifetimes` (`ObjectLifetimes`) | 1 MongoCrypt, 2 contexts, 1 request, hook and logger, 3 frames, fairness | `TypeOK`, `NoUseAfterFree`, `WrappersOwnHandles`, `CryptOutlivesContexts`, `WrapperPointerValid`, `NoLeakedHandle`, `GarbageIsDestroyed` hold |
| `lifetimes_inductive` (`ObjectLifetimesInductive`) | 2 MongoCrypts, 1 context, 1 request, hook, 4 frames, symmetric | `IInv`, `RefinesNativeHandles`, `NothingComesBack`, `AbandonedForGood` hold |
| `lifetimes_keeps_mongocrypt` | one of each object, hook, 3 frames | `ContextKeepsMongoCrypt` is violated |
| `lifetimes_log_handler` | one of each object, 3 frames, logger only (the OpenSSL hooks in place of the JavaScript ones) | `LogHandlerNeverThrows` is violated |
| `fetch_download` (`FetchDownload`) | downloads of a release and of a commit, builds of latest, dynamic | `TypeOK`, `ReleaseArchivesVerified`, `DownloadInstallsRequested`, `CleanRunsRecover`, `DepsKeptUntilReplaced` hold |
| `fetch_clean` (`FetchClean`) | clean builds of a release, builds of a fork, downloads of the release, fairness | `CleanBuildInstallsRequested`, `CleanRunsRecover`, `CleanRetriesSucceed`, `RunsAdvance` hold |
| `fetch_skipped_build` | two releases, no failures | `BuildInstallsRequested` is violated |
| `fetch_latest` | no failures | `LatestCanBeDownloaded` is violated |
| `crypto_hooks` (`CryptoHooks`) | lengths up to 4, blocks of 2, signatures of 3 | `TypeOK`, `WholeResult`, `NeverOverruns`, `HooksAgree`, `FailuresCarryStatus`, `FailuresForeseen`, `ImplementsHookContract` hold |
| `hooks_errors` (`CryptoHooksErrors`) | the same | `ErrorsAreReturned` is violated |
| `session` (`EncryptionSession`) | 2 KMS requests, in one round or two, answers in 2 pieces, 1 retry, fairness | `TypeOK`, `ResultIsReal`, `FailuresHaveCause`, `CallbacksFound`, `ReportedProvider`, `SettingsApplied`, `ImplementsContextProtocol`, `SessionAdvances`, `SessionEnds` hold |
| `session_unwrapped` (`EncryptionSessionWrapped`) | as `session` | `AllErrorsWrapped` is violated |

Why the bounds are enough. Two contexts of one MongoCrypt are what it takes for the last owner of a `State` to be
any of MongoCrypt, first and second context; one request makes the same difference for a `ContextState`. Three
frames hold a method, a callback in it, and a method called by the callback on the same or another object; four
add a callback of that one. Only `lifetimes_inductive` uses symmetry: it checks no liveness. More objects and
deeper stacks are covered by the proofs. The number of script runs is *not* bounded: the state is finite, and TLC
explores every sequence of runs and interruptions over the command lines of `MCFetchLibmongocrypt`; two versions
(or one version and two origins) are enough to mix them up. In `CryptoHooks`, lengths up to two blocks hold a
whole number of blocks, a rest, nothing at all, and a buffer that is exact, larger and (signatures) too small; the
proofs cover all others. In `EncryptionSession`, two requests can be out at once in any pair of states, or be
asked for in two rounds, two pieces tell the last piece from the others, and one retry separates "again" from
"given up". Deadlock is not checked in these two: a session ends, and after the process ends no hook is called.

Fairness. `ObjectLifetimes!Fairness`: destructors run to completion; native methods return and callbacks end even
if each calls the other again (strong fairness per depth, as a frame can only end when it is innermost); the
engine collects garbage eventually; finalizers get their turn between macrotasks (strong: they wait for an empty
stack). Nothing is assumed of the application: it may keep everything for ever, and then nothing is promised.
`EncryptionSession!FairSpec`: the application goes on with its loop, and whoever it asks answers or fails; the
collector need not run. `FetchLibmongocrypt!FairSpec`: commands end. The script sets no timeouts, so this is what
it relies on itself.

## What the violations show

- **A context does not keep its MongoCrypt alive.** `mongocrypt.h:110` says it does; it keeps the `State`. After
  the MongoCrypt is collected, a context that is still used works on, but its hooks fail with "MongoCrypt
  instance has been destroyed" and nothing is logged. `test/unit/bindings.test.ts:500` wants the collection, so
  it is the comment that misleads.
- **`logHandler` can throw through C.** It catches what the logger throws, but looks the logger up with
  `GetCallback` outside its `try`, and `GetCallback` throws when the MongoCrypt is collected and not finalized yet.
- **A build can be skipped although `./deps` holds another version** (`libmongocrypt.mjs:262-268`): build of one
  release, download of another, build of the first. Interrupting a build after cmake wrote `VERSION_CURRENT` does
  the same. `--clean` is the remedy, and `CleanBuildInstallsRequested` shows that it is one.
- **"latest" cannot be downloaded**, only cloned, although README.md:81-82 offers both.
- **Some errors are not wrapped.** `bindings.ts:83-84` promises it of any error thrown by the bindings;
  `index.ts:99` constructs outside a `try` block, and KMS requests are handed out unwrapped. The unit tests of the error
  wrapper cover neither.
- **Native hooks throw where they promise a status.** `openssl-crypto.cc:117`, 183 and 249 say of the ciphers and
  the HMAC "Returns false and sets @status on error"; `ASSERT` (lines 28-36) throws instead, for a key of the wrong
  length for example, through libmongocrypt's C frames. `ImplementsHookContract` shows that it is confined to such
  keys and to failures of OpenSSL (`Escape`).

## What is proved

`ObjectLifetimesProofs`, for any sets of objects, any callbacks and any stack depth, from the assumptions that the
three kinds of objects are disjoint and `None` is none of them:

| Theorem | Says |
|---|---|
| `InvariantHolds` | `Spec => []IInv` |
| `TypeCorrect` | `Spec => []TypeOK` |
| `OwnershipHolds` | a handle a wrapper can still use is open |
| `OutlivesHolds` | a `mongocrypt_t` outlives its contexts |
| `NoUseAfterFreeHolds` | no frame on the stack works on a destroyed handle |
| `PointerValidHolds` | `js_wrapper` never dangles |
| `NoLeakHolds` | an open handle has an owner that will destroy it |
| `GoneForGood` | `Spec => NothingComesBack` |
| `LostForGood` | `Spec => AbandonedForGood` |

The argument. None of the safety properties is inductive. That a request's method finds its context open follows
from the request being *owned* (`ContextOwners`: a request owns a `ContextState` exactly as long as its C++ object
exists), from the frame keeping its object alive (`FramesLive`), and from a struct with an owner not being
destroyed (`HandlesOwned`). That contexts go first needs the step between the two member destructors:
`StateOwners` says that a context owns its `State` until precisely that step. New objects need that nobody can
have named them (`ScopeLive`, `ParentBorn`), frames of unfinished methods that theirs are not shared (`MakeFrames`,
`CtorFrames`), and the callbacks that a MongoCrypt without wrapper has cleared the pointer (`WrapperCleared`; the
constructor that threw is the exception, its `State` has no owner left). `IInv` is the conjunction; there is one
lemma per action and, under it, one step per conjunct; lemmas about pushing to and popping from the stack are
shared. `lifetimes_inductive` checks the same formula with TLC.

The two action properties need no more than `IInv`. For `NothingComesBack` the stages of a wrapper follow each
other (`StagesFollow`), what a script can name *after* a step is live by `ScopeLive` in the next state, and
whoever shares a struct is a frame whose object, being live, is one of its owners. For `AbandonedForGood` the
point is that the object of the innermost frame belongs to the family of the MongoCrypt whose callbacks the frame
can call (`TopIsFamily`, from `StateOwners` and `ContextOwners`): as that object is in use, the MongoCrypt is not
abandoned, so no callback of an abandoned one runs (`TopIsNotAbandoned`), its family gets no new member
(`FamilyShrinks`), and scripts can only name and store what is outside the set (`ScopeAvoidsAbandoned`).

`NativeHandlesRefinement`, from that invariant:

| Theorem | Says |
|---|---|
| `HandlesRefined` | `Spec => RefinesNativeHandles` |

The argument. Five steps open or destroy a handle (`BeginCtor`, `BeginMake`, `FailMake`, `DestroyNativeContext`,
`DestroyNativeCrypt`; a discarded context counts as destroyed), and each has its step of `NativeHandles`. All
others leave the handles alone, and what is in use after them is usable because `NoUseAfterFree` holds *after* the
step, which is why the lemmas take the invariant in both states. For the same reason a `mongocrypt_t` that is
destroyed has no open context: `CryptOutlivesContexts` would fail in the next state.

`FetchLibmongocryptProofs` and `FetchRunsProofs`, for any releases, commits, forks and command lines, from the
assumptions that a ref is not mistaken for `None` or "other", that `None` is no version, that the releases, the
commits and "latest" are distinct, and that an archive is not a repository:

| Theorem | Says |
|---|---|
| `TypeCorrect` | `Spec => []TypeOK` |
| `ReleasesAreVerified` | nothing of a damaged release archive is in `./deps` or in the addon |
| `DownloadsInstallRequested` | a successful download leaves exactly what it was asked for, and no file of another version |
| `CleanBuildsInstallRequested` | a successful clean build leaves what it was asked for in every part, files it does not overwrite aside |
| `RunsRecover` | nothing that is on disk makes a clean build or the download of a release fail, only a clone that of a commit, which leaves none |
| `DepsKept` | a download touches `./deps` only when its replacement is there and, if it is a release, verified |
| `RunsGoForward` | `Spec => RunsAdvance` |

The argument. `ReleaseArchivesVerified` speaks of `deps` and `bindings` only and is not inductive: what is copied
next comes from `destination`, what is unpacked next from the tarball. `VInv` says that everything past the
verification step is `Sound`: the unpacked directories of *every* ref, since a run that is killed leaves them to a
later one; `deps`; `bindings`; and the tarball, but only while `pc` is at "unpack", since before that it may well be
damaged. What is built from a clone is sound because it is no archive, which needs that there are sources when
they are checked out (`CheckoutReady`). There is a lemma per action; `Fetch` and `VerifySignature` are the two where
the guard matters.

`RunInv` follows the version that was asked for through one run. It says which runs get to a step, that from the
checkout on the sources of a clean build are the right ones, and, for the directories that are written a part at a
time, that what is there so far is of one layout and one version (`Holds`): during "unpack" the parts of the
archive that are not in `todo`, during "copy" the same for `./deps`, which is empty when copying begins. A
download that gets past resolving its ref has removed the clone (`ResolutionRemoved`), and none comes back in the
same run. With the library in place before "prebuild", a run that promises anything never finds it missing, and
the remaining ways to fail are faults.

`RunsAdvance` says that a run cannot go round in circles: `StepNumber` orders the steps, and a command that stays
at its step leaves less in `LeftToDo`, the parts of a directory still to be removed or written. Only the checkout
needs more than types for that: there are sources to check out (`SourcesRight`). With `RunsRecover` this is what
of `CleanRetriesSucceed` is no matter of fairness: a clean run without a fault ends, and does not end in a
failure.

`CryptoHooksProofs`, for any lengths, any block size and any signature buffer:

| Theorem | Says |
|---|---|
| `TypeCorrect` | `Spec => []TypeOK` |
| `ResultsAreWhole` | success means the whole result, byte for byte |
| `BuffersSuffice` | no callback of the package makes `CopyBufferData` overrun |
| `ImplementationsAgree` | both providers accept the same calls |
| `FalseMeansStatus` | `false` comes with a status |
| `FailuresAreForeseen` | every failure of a hook is one of `HookOutcomes` |
| `HooksKeepTheContract` | `Spec => ImplementsHookContract` |

The argument. The properties speak of finished calls; the invariant adds what a call in progress has done so far:
between Update and Final the whole blocks are in place and `bytes_written` is their number, so that Final, which
refuses any rest because padding is off, adds nothing to them, and a call that is at "update" has a fit key. For
the refinement, `BeginCall` maps to `Call`, Update to `Scribble`, the collection of a MongoCrypt to `Lose` if the
hooks are JavaScript and to a stutter if they are native, and its finalization to a stutter. The native leaving
steps map to `Succeed`, to `GiveUp`, or, thrown or fatal, to `Escape`; those of the package's callbacks to
`Succeed`, `GiveUp`, `Vanish`, or, for a signature that does not fit and for nothing else, to `CutShort`; those of
an application's to `Foreign`.

`EncryptionSessionProofs`, for any finite set of KMS requests, any number of pieces and of retries:

| Theorem | Says |
|---|---|
| `SessionTypes` | `Spec => []TypeOK` |
| `SessionResult` | a session that ends well has a real document and has answered every request |
| `SessionFailures` | a session that does not has a cause, and none of the addon's making |
| `CtorCallbacks` | a callback libmongocrypt may ask for has been stored |
| `CtorProvider` | the provider that is reported is the one that is installed, completely |
| `CtorSettings` | every setting was handed over before `mongocrypt_init` |

The argument. `CtorInv` says what has been stored, registered and set when the constructor is at a given option, or
stopped there: the callbacks are complete when hooks are chosen, the hooks complete when an option behind the
installation is read. `SessionInv` says which states of the context can be met where in the application's loop
(`Places`), that the status holds "none" unless the context is in its error state and what must be true of the cause
it holds (`StatusMeansError`, `StatusCaused`), and that requests are open in "need_kms" and in the error state only
(`NothingOpen`). The two meet in two places: a context never misses credentials or a retry because
a constructor that finished has set the flags, and which failures a hook has depends on the hooks that were chosen.

`SessionProtocolProofs`, from that invariant, for the same constants:

| Theorem | Says |
|---|---|
| `SessionKeepsTheProtocol` | `Spec => ImplementsContextProtocol` |
| `DocumentsAreSettled` | there is a document exactly of a context that is done, with every request settled |
| `SessionsAdvance` | `Spec => SessionAdvances` |

The argument. Each action of the session that touches the context, a request or the buffer maps to one step of
`ContextProtocol`, with `Places` to tell in which state it finds the context, and all others to a stutter. The
mapping forgets `left`, `tries` and all of the session around the context, so `AddResponse` is an `Answer` when
the last piece arrives and a stutter before that. `DocumentsAreSettled` is proved once, of `ContextProtocol`, and
holds of a session because that implements it. That the requests of a context that is done are settled is not
inductive by itself: "done" follows "ready", which may follow any state, so the theorem says it of every state but
"need_kms" and the error state. For `SessionsAdvance` there is a lemma per action; a turn of the loop has to be
told from the error state the loop is re-entered in, which `Refused` and `Reached` do; and another round of
requests, which leaves the context where it was, from everything else, which is what `Unasked` is for: it loses
the requests of the round, and no other step gives it any.

Only model-checked: `GarbageIsDestroyed`, `CleanRetriesSucceed` and `SessionEnds`; liveness under fairness, and
what is enabled when, are beyond the prover. Of each the safety half is proved: `LostForGood`, `RunsGoForward`
with `RunsRecover`, and `SessionsAdvance`. Every other property of a passing run is proved.

## Plan

1. `ObjectLifetimes`, its abstract specification, invariant and proofs, the refinement included – done; but for
   liveness, proved.
2. `FetchLibmongocrypt` – modelled, checked and, but for liveness, proved.
3. `CryptoHooks` with `HookContract` and `HookOutcomes` – modelled, checked and proved.
4. `MongoCryptCtor` and `EncryptionSession` with `ContextProtocol` – modelled, checked and, but for liveness, proved.
5. Still open: an abstract specification of what a run of the script does to `./deps`, and the refinement of it.

## Not modelled

The bindings loader, packaging, CI and the tests hold no state of the program. Ciphers, BSON and KMS formats are data
that no property of the bindings tells apart. The options of the single make methods (`mongocrypt.cc:641-847`) are
checked one after the other on a context that nobody else has seen yet; their order makes no difference to
anyone, so they are one choice.
