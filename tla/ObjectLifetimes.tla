-------------------------- MODULE ObjectLifetimes --------------------------
(***************************************************************************)
(* Who keeps what alive between the JavaScript heap and libmongocrypt.     *)
(*                                                                         *)
(* Three classes of the addon (MongoCrypt, MongoCryptContext and           *)
(* MongoCryptKMSRequest, addon/mongocrypt.h) wrap native handles.  The     *)
(* wrappers are collected by the engine in any order and at any time, the  *)
(* C++ side is destroyed later by finalizers, and the native handles point *)
(* at each other with raw pointers:                                        *)
(*                                                                         *)
(*     mongocrypt_kms_ctx_t --> mongocrypt_ctx_t --> mongocrypt_t          *)
(*                                                                         *)
(* Two shared_ptr'd structs stand between the two worlds: MongoCrypt::State *)
(* (holds the mongocrypt_t) and MongoCryptContext::ContextState (holds the *)
(* mongocrypt_ctx_t and a reference to the State).                         *)
(*                                                                         *)
(* The module has one JavaScript thread.  Native methods and JavaScript    *)
(* callbacks (crypto hooks, logger) nest on its stack; garbage collection  *)
(* may happen at every allocation; finalizers run only from the event      *)
(* loop, when the stack is empty, or when the environment is torn down.    *)
(***************************************************************************)
EXTENDS Naturals, Sequences, FiniteSets

CONSTANTS
    Crypts,      \* MongoCrypt objects the application may create
    Contexts,    \* MongoCryptContext objects, of all MongoCrypts together
    Requests,    \* MongoCryptKMSRequest objects, of all contexts together
    Callbacks,   \* callbacks a MongoCrypt may register: {"hook", "logger"}, or
                 \*   {"logger"} where the OpenSSL 3 hooks replace the JS ones
    MaxDepth,    \* bound: frames nested on the stack
    None

Objects == Crypts \cup Contexts \cup Requests

ASSUME ObjectsAssumption ==
    /\ Crypts \cap Contexts = {}
    /\ Crypts \cap Requests = {}
    /\ Contexts \cap Requests = {}
    /\ None \notin Objects

ASSUME CallbacksAssumption == Callbacks \subseteq {"hook", "logger"}
ASSUME MaxDepthAssumption  == MaxDepth \in Nat

VARIABLES
    \* --- the JavaScript heap
    js,          \* object -> stage of its wrapper's life
    roots,       \* objects the application's variables refer to
    callbacks,   \* MongoCrypt -> callbacks in its __callbackStorage
    reaches,     \* MongoCrypt -> objects those callbacks close over
    \* --- MongoCrypt::State, one per MongoCrypt
    mongo_crypt, \* the mongocrypt_t it holds
    js_wrapper,  \* whether it still points back at the MongoCrypt
    stateRefs,   \* the shared_ptr's owners
    \* --- MongoCryptContext::ContextState, one per context
    context,     \* the mongocrypt_ctx_t it holds
    parent,      \* the mongocrypt_t that mongocrypt_ctx_t points at
    contextRefs, \* the shared_ptr's owners
    \* --- MongoCryptKMSRequest
    contextState,\* the ContextState a request refers to
    \* --- the thread
    stack,       \* native methods and callbacks being executed, innermost last
    destructor,  \* the part of a destructor that runs next
    env          \* "running", or "exiting" once the environment is torn down

heapVars    == <<js, roots, callbacks, reaches>>
stateVars   == <<mongo_crypt, js_wrapper, stateRefs>>
contextVars == <<context, parent, contextRefs>>
threadVars  == <<stack, destructor, env>>
vars == <<js, roots, callbacks, reaches, mongo_crypt, js_wrapper, stateRefs,
          context, parent, contextRefs, contextState, stack, destructor, env>>

-----------------------------------------------------------------------------
(***************************************************************************)
(* "collected": the engine has dropped the JavaScript object and emptied   *)
(* the weak reference ObjectWrap keeps to it, but the finalizer that       *)
(* destroys the C++ object has not run yet.                                *)
(***************************************************************************)
Stages      == {"unborn", "live", "collected", "finalized"}
Handles     == {"none", "open", "destroyed"}
FrameKinds  == {"ctor", "make", "call", "kms", "js"}
Frame(kind, obj, arg) == [kind |-> kind, obj |-> obj, arg |-> arg]
Frames      == [kind : FrameKinds, obj : Objects, arg : Contexts \cup {None}]

Part(at, of) == [at |-> at, of |-> of]
NoPart       == Part("none", None)
Parts        == [at : {"none", "context", "release", "mongo_crypt"},
                 of : Crypts \cup Contexts \cup {None}]

\* The C++ object behind o exists.
Wrapped(o) == js[o] \in {"live", "collected"}

Top        == stack[Len(stack)]
Push(f)    == Len(stack) < MaxDepth /\ stack' = Append(stack, f)
Pop        == stack' = SubSeq(stack, 1, Len(stack) - 1)
OnTop(kind) == stack # << >> /\ Top.kind = kind

Idle       == destructor = NoPart
InScript   == env = "running" /\ Idle /\ (stack = << >> \/ OnTop("js"))
InNative   == env = "running" /\ Idle /\ stack # << >> /\ Top.kind # "js"

\* Objects the running script can name: the application's variables and, in
\* a callback, what that callback closes over.
InScope == roots \cup (IF stack = << >> THEN {} ELSE reaches[Top.obj])

\* Objects a frame keeps alive: `this` of a native method, the MongoCrypt whose
\* callback runs (GetCallback holds a handle to it).
OnStack == {stack[i].obj : i \in 1..Len(stack)}

\* The MongoCrypt whose mongocrypt_t a native frame works on.
CryptOf(f) == CASE f.kind = "call" -> parent[f.obj]
                [] f.kind = "kms"  -> parent[contextState[f.obj]]
                [] OTHER           -> f.obj

Init ==
    /\ js           = [o \in Objects |-> "unborn"]
    /\ roots        = {}
    /\ callbacks    = [m \in Crypts |-> {}]
    /\ reaches      = [m \in Crypts |-> {}]
    /\ mongo_crypt  = [m \in Crypts |-> "none"]
    /\ js_wrapper   = [m \in Crypts |-> "null"]
    /\ stateRefs    = [m \in Crypts |-> {}]
    /\ context      = [c \in Contexts |-> "none"]
    /\ parent       = [c \in Contexts |-> None]
    /\ contextRefs  = [c \in Contexts |-> {}]
    /\ contextState = [k \in Requests |-> None]
    /\ stack        = << >>
    /\ destructor   = NoPart
    /\ env          = "running"
-----------------------------------------------------------------------------
(***************************************************************************)
(* The two shared_ptrs.  Operators whose comment starts with "Mutant" are  *)
(* not part of the model: each is a way the code could be wrong, kept to   *)
(* show that the property named would notice.                              *)
(***************************************************************************)

\* Mutant (NoUseAfterFree, AbandonedForGood): the context keeps only a raw pointer to
\* the State.
PointAtState(m, c) == UNCHANGED stateRefs

\* A new context becomes an owner of the State of m.
ShareState(m, c) == stateRefs' = [stateRefs EXCEPT ![m] = @ \cup {c}]

\* Mutant (RefinesNativeHandles): the State is destroyed with any of its owners.
ReleaseStateOwned(m, owner) ==
    /\ stateRefs'  = [stateRefs EXCEPT ![m] = @ \ {owner}]
    /\ destructor' = Part("mongo_crypt", m)

\* An owner lets go of the State of m; the last one destroys its members.
ReleaseState(m, owner) ==
    /\ stateRefs'  = [stateRefs EXCEPT ![m] = @ \ {owner}]
    /\ destructor' = IF stateRefs[m] \subseteq {owner}
                     THEN Part("mongo_crypt", m) ELSE NoPart

\* Mutant (WrappersOwnHandles): the request keeps only the mongocrypt_kms_ctx_t.
PointAtContextState(c, k) == UNCHANGED contextRefs

\* A new request becomes an owner of the ContextState of c.
ShareContextState(c, k) == contextRefs' = [contextRefs EXCEPT ![c] = @ \cup {k}]

\* Mutant (TypeOK): the deleter is handed the owner instead of the ContextState.
ReleaseWrongContextState(c, owner) ==
    /\ contextRefs' = [contextRefs EXCEPT ![c] = @ \ {owner}]
    /\ destructor'  = IF contextRefs[c] \subseteq {owner}
                      THEN Part("context", owner) ELSE NoPart

\* An owner lets go of the ContextState of c.
ReleaseContextState(c, owner) ==
    /\ contextRefs' = [contextRefs EXCEPT ![c] = @ \ {owner}]
    /\ destructor'  = IF contextRefs[c] \subseteq {owner}
                      THEN Part("context", c) ELSE NoPart

(***************************************************************************)
(* Constructing a MongoCrypt                                               *)
(***************************************************************************)

\* MongoCrypt::MongoCrypt up to the point where something can go wrong or call
\* back: State is made, js_wrapper set, the callbacks stored.
BeginCtor(m, names) ==
    /\ InScript
    /\ js[m] = "unborn"
    /\ Push(Frame("ctor", m, None))
    /\ js'          = [js EXCEPT ![m] = "live"]
    /\ callbacks'   = [callbacks EXCEPT ![m] = names]
    /\ mongo_crypt' = [mongo_crypt EXCEPT ![m] = "open"]
    /\ js_wrapper'  = [js_wrapper EXCEPT ![m] = "set"]
    /\ stateRefs'   = [stateRefs EXCEPT ![m] = {m}]
    /\ UNCHANGED <<roots, reaches, contextVars, contextState, destructor, env>>

EndCtor ==
    /\ InNative /\ OnTop("ctor")
    /\ Pop
    /\ roots' = roots \cup {Top.obj}
    /\ UNCHANGED <<js, callbacks, reaches, stateVars, contextVars, contextState,
                   destructor, env>>

\* A throw in the constructor.  ~MongoCrypt does not run for an object that was
\* not completed, so js_wrapper stays as it is; only _state is released.
FailCtor ==
    /\ InNative /\ OnTop("ctor")
    /\ Pop
    /\ js' = [js EXCEPT ![Top.obj] = "finalized"]
    /\ ReleaseState(Top.obj, Top.obj)
    /\ UNCHANGED <<roots, callbacks, reaches, mongo_crypt, js_wrapper,
                   contextVars, contextState, env>>

(***************************************************************************)
(* The make...Context methods of MongoCrypt                                *)
(***************************************************************************)

\* mongocrypt_ctx_new, into a unique_ptr, and the initialisation that follows.
BeginMake(m, c) ==
    /\ InScript
    /\ m \in InScope
    /\ context[c] = "none"
    /\ Push(Frame("make", m, c))
    /\ context' = [context EXCEPT ![c] = "open"]
    /\ parent'  = [parent EXCEPT ![c] = m]
    /\ UNCHANGED <<heapVars, stateVars, contextRefs, contextState, destructor, env>>

\* MongoCryptContext::NewInstance: the new wrapper owns a ContextState, which
\* takes over the native context and shares the State of its MongoCrypt.
EndMake ==
    /\ InNative /\ OnTop("make")
    /\ Pop
    /\ js'          = [js EXCEPT ![Top.arg] = "live"]
    /\ contextRefs' = [contextRefs EXCEPT ![Top.arg] = {Top.arg}]
    /\ ShareState(Top.obj, Top.arg)
    /\ roots'       = roots \cup {Top.arg}
    /\ UNCHANGED <<callbacks, reaches, mongo_crypt, js_wrapper, context, parent,
                   contextState, destructor, env>>

\* Mutant (NoLeakedHandle): a throw leaves the native context behind.
ForgetContext(c) == UNCHANGED context

\* ~unique_ptr<mongocrypt_ctx_t>.
DiscardContext(c) == context' = [context EXCEPT ![c] = "destroyed"]

\* A throw before NewInstance: the unique_ptr destroys the native context.
FailMake ==
    /\ InNative /\ OnTop("make")
    /\ Pop
    /\ DiscardContext(Top.arg)
    /\ UNCHANGED <<heapVars, stateVars, parent, contextRefs, contextState,
                   destructor, env>>

(***************************************************************************)
(* Methods of a MongoCryptContext and of a MongoCryptKMSRequest            *)
(***************************************************************************)

BeginCall(c) ==
    /\ InScript
    /\ c \in InScope
    /\ Push(Frame("call", c, None))
    /\ UNCHANGED <<heapVars, stateVars, contextVars, contextState, destructor, env>>

BeginKMSCall(k) ==
    /\ InScript
    /\ k \in InScope
    /\ Push(Frame("kms", k, None))
    /\ UNCHANGED <<heapVars, stateVars, contextVars, contextState, destructor, env>>

Return ==
    /\ InNative /\ (OnTop("call") \/ OnTop("kms"))
    /\ Pop
    /\ UNCHANGED <<heapVars, stateVars, contextVars, contextState, destructor, env>>

\* MongoCryptContext::NextKMSRequest when libmongocrypt has a request: the new
\* MongoCryptKMSRequest shares the ContextState of the context.
ReturnKMSRequest(k) ==
    /\ InNative /\ OnTop("call")
    /\ js[k] = "unborn"
    /\ Pop
    /\ js'           = [js EXCEPT ![k] = "live"]
    /\ contextState' = [contextState EXCEPT ![k] = Top.obj]
    /\ ShareContextState(Top.obj, k)
    /\ roots'        = roots \cup {k}
    /\ UNCHANGED <<callbacks, reaches, stateVars, context, parent, destructor, env>>

(***************************************************************************)
(* libmongocrypt calls back: a crypto hook (while it works on a context)   *)
(* or the log handler (at any time).  Both look the MongoCrypt up through  *)
(* State.js_wrapper and then its callback through the weak reference.      *)
(***************************************************************************)

CallsBack(n) ==
    /\ InNative
    /\ n \in callbacks[CryptOf(Top)]
    /\ n = "hook" => Top.kind \in {"make", "call"}

\* Mutant (NothingComesBack): the callback is found without looking at the weak reference.
InvokeStoredCallback(n) ==
    /\ CallsBack(n)
    /\ js_wrapper[CryptOf(Top)] = "set"
    /\ Push(Frame("js", CryptOf(Top), None))
    /\ UNCHANGED <<heapVars, stateVars, contextVars, contextState, destructor, env>>

\* The callback's JavaScript starts to run.
InvokeCallback(n) ==
    /\ CallsBack(n)
    /\ js_wrapper[CryptOf(Top)] = "set"
    /\ js[CryptOf(Top)] = "live"
    /\ Push(Frame("js", CryptOf(Top), None))
    /\ UNCHANGED <<heapVars, stateVars, contextVars, contextState, destructor, env>>

\* js_wrapper is null: a hook sets the status "MongoCrypt instance has been
\* destroyed" and fails, the log handler writes to stderr.
CallbackFindsNoWrapper(n) ==
    /\ CallsBack(n)
    /\ js_wrapper[CryptOf(Top)] = "null"
    /\ UNCHANGED vars

\* The wrapper is collected but not finalized: GetCallback reads an empty weak
\* reference and throws, through the frames of libmongocrypt, out of the method.
CallbackUnwinds(n) ==
    /\ CallsBack(n)
    /\ js_wrapper[CryptOf(Top)] = "set"
    /\ js[CryptOf(Top)] = "collected"
    /\ Pop
    /\ UNCHANGED <<heapVars, stateVars, contextVars, contextState, destructor, env>>

\* The callback returns or throws; neither leaves the handler.
CallbackReturn ==
    /\ InScript /\ OnTop("js")
    /\ Pop
    /\ UNCHANGED <<heapVars, stateVars, contextVars, contextState, destructor, env>>

(***************************************************************************)
(* What the application does with its references                           *)
(***************************************************************************)

Drop(o) ==
    /\ InScript
    /\ o \in roots
    /\ roots' = roots \ {o}
    /\ UNCHANGED <<js, callbacks, reaches, stateVars, contextVars, contextState,
                   threadVars>>

\* A callback of m stores something it closes over in a variable.
Keep(o) ==
    /\ InScript
    /\ o \in InScope \ roots
    /\ roots' = roots \cup {o}
    /\ UNCHANGED <<js, callbacks, reaches, stateVars, contextVars, contextState,
                   threadVars>>

\* A variable that a callback of m closes over is assigned o (m itself, say).
Capture(m, o) ==
    /\ InScript
    /\ m \in InScope /\ o \in InScope
    /\ callbacks[m] # {}
    /\ reaches' = [reaches EXCEPT ![m] = @ \cup {o}]
    /\ UNCHANGED <<js, roots, callbacks, stateVars, contextVars, contextState,
                   threadVars>>

(***************************************************************************)
(* Garbage collection and finalizers                                       *)
(***************************************************************************)

\* Mutant (GarbageIsDestroyed): callbacks kept by strong references, which hold
\* what they close over even when nothing else reaches the MongoCrypt.
UnreachableWithReferences(G) ==
    /\ \A o \in G : js[o] = "live"
    /\ G \cap (roots \cup OnStack) = {}
    /\ \A m \in Crypts : js[m] = "live" => reaches[m] \cap G = {}

\* Nothing outside G that is alive refers into G.  The callbacks are nested
\* properties of the MongoCrypt, so what they close over is reached from it.
Unreachable(G) ==
    /\ \A o \in G : js[o] = "live"
    /\ G \cap (roots \cup OnStack) = {}
    /\ \A m \in Crypts \ G : js[m] = "live" => reaches[m] \cap G = {}

Collect(G) ==
    /\ env = "running" /\ Idle
    /\ Unreachable(G)
    /\ js' = [o \in Objects |-> IF o \in G THEN "collected" ELSE js[o]]
    /\ UNCHANGED <<roots, callbacks, reaches, stateVars, contextVars, contextState,
                   threadVars>>

\* Finalizers of collected objects run from the event loop; when the
\* environment is torn down those of all objects run, in any order.
Finalizable(o) ==
    /\ Idle /\ stack = << >>
    /\ js[o] = "collected" \/ (env = "exiting" /\ js[o] = "live")

\* Mutant (WrapperPointerValid): ~MongoCrypt leaves the pointer to itself behind.
LeaveWrapper(m) == UNCHANGED js_wrapper

\* ~MongoCrypt.
ClearWrapper(m) == js_wrapper' = [js_wrapper EXCEPT ![m] = "null"]

DestroyMongoCrypt(m) ==
    /\ Finalizable(m)
    /\ js' = [js EXCEPT ![m] = "finalized"]
    /\ ClearWrapper(m)
    /\ ReleaseState(m, m)
    /\ UNCHANGED <<roots, callbacks, reaches, mongo_crypt, contextVars,
                   contextState, stack, env>>

DestroyMongoCryptContext(c) ==
    /\ Finalizable(c)
    /\ js' = [js EXCEPT ![c] = "finalized"]
    /\ ReleaseContextState(c, c)
    /\ UNCHANGED <<roots, callbacks, reaches, stateVars, context, parent,
                   contextState, stack, env>>

DestroyMongoCryptKMSRequest(k) ==
    /\ Finalizable(k)
    /\ js' = [js EXCEPT ![k] = "finalized"]
    /\ ReleaseContextState(contextState[k], k)
    /\ UNCHANGED <<roots, callbacks, reaches, stateVars, context, parent,
                   contextState, stack, env>>

\* Mutant (CryptOutlivesContexts): members declared, and so destroyed, in the
\* other order.
DestroyNativeContextLast ==
    /\ destructor.at = "context"
    /\ LET c == destructor.of
           m == parent[c]
       IN  /\ stateRefs'   = [stateRefs EXCEPT ![m] = @ \ {c}]
           /\ mongo_crypt' = IF stateRefs[m] \subseteq {c}
                             THEN [mongo_crypt EXCEPT ![m] = "destroyed"]
                             ELSE mongo_crypt
           /\ destructor'  = Part("release", c)
    /\ UNCHANGED <<heapVars, js_wrapper, contextVars, contextState, stack, env>>

\* The members of a ContextState are destroyed in reverse order: the native
\* context first ...
DestroyNativeContext ==
    /\ destructor.at = "context"
    /\ context'    = [context EXCEPT ![destructor.of] = "destroyed"]
    /\ destructor' = Part("release", destructor.of)
    /\ UNCHANGED <<heapVars, stateVars, parent, contextRefs, contextState, stack, env>>

\* ... then its reference to the State.
ReleaseMongoCrypt ==
    /\ destructor.at = "release"
    /\ ReleaseState(parent[destructor.of], destructor.of)
    /\ UNCHANGED <<heapVars, mongo_crypt, js_wrapper, contextVars, contextState,
                   stack, env>>

DestroyNativeCrypt ==
    /\ destructor.at = "mongo_crypt"
    /\ mongo_crypt' = [mongo_crypt EXCEPT ![destructor.of] = "destroyed"]
    /\ destructor'  = NoPart
    /\ UNCHANGED <<heapVars, js_wrapper, stateRefs, contextVars, contextState,
                   stack, env>>

\* The worker or the process ends while no JavaScript runs.
TearDown ==
    /\ env = "running" /\ Idle /\ stack = << >>
    /\ env'   = "exiting"
    /\ roots' = {}
    /\ UNCHANGED <<js, callbacks, reaches, stateVars, contextVars, contextState,
                   stack, destructor>>

\* Every C++ object is gone and the environment with them.
Exited ==
    /\ env = "exiting" /\ Idle
    /\ \A o \in Objects : ~Wrapped(o)
    /\ UNCHANGED vars
-----------------------------------------------------------------------------
ScriptStep ==
    \/ \E m \in Crypts : \E names \in SUBSET Callbacks : BeginCtor(m, names)
    \/ \E m \in Crypts, c \in Contexts : BeginMake(m, c)
    \/ \E c \in Contexts : BeginCall(c)
    \/ \E k \in Requests : BeginKMSCall(k)
    \/ \E o \in Objects : Drop(o) \/ Keep(o)
    \/ \E m \in Crypts, o \in Objects : Capture(m, o)

NativeReturn ==
    \/ EndCtor \/ FailCtor \/ EndMake \/ FailMake \/ Return
    \/ \E k \in Requests : ReturnKMSRequest(k)

NativeCallback ==
    \E n \in Callbacks :
        InvokeCallback(n) \/ CallbackFindsNoWrapper(n) \/ CallbackUnwinds(n)

CollectGarbage == \E G \in (SUBSET Objects) \ {{}} : Collect(G)

Finalizer ==
    \/ \E m \in Crypts   : DestroyMongoCrypt(m)
    \/ \E c \in Contexts : DestroyMongoCryptContext(c)
    \/ \E k \in Requests : DestroyMongoCryptKMSRequest(k)

DestructorStep == DestroyNativeContext \/ ReleaseMongoCrypt \/ DestroyNativeCrypt

Next ==
    \/ ScriptStep \/ NativeReturn \/ NativeCallback \/ CallbackReturn
    \/ CollectGarbage \/ Finalizer \/ DestructorStep
    \/ TearDown \/ Exited

Spec == Init /\ [][Next]_vars

(***************************************************************************)
(* Destructors run to completion.  Native methods return and callbacks end *)
(* even if each calls the other again and again (SF: they are enabled only *)
(* when they are innermost).  The engine collects garbage eventually, and  *)
(* the event loop comes round to the finalizers between macrotasks (SF:    *)
(* they wait for an empty stack).                                          *)
(***************************************************************************)
Fairness ==
    /\ WF_vars(DestructorStep)
    /\ \A d \in 1..MaxDepth :
          SF_vars(Len(stack) = d /\ (NativeReturn \/ CallbackReturn))
    /\ WF_vars(CollectGarbage)
    /\ SF_vars(Finalizer)

FairSpec == Spec /\ Fairness
-----------------------------------------------------------------------------
(***************************************************************************)
(* Properties                                                              *)
(***************************************************************************)

\* Every variable has its type: objects are where the code can put them, and a
\* destructor works on the object it was started for.
TypeOK ==
    /\ js           \in [Objects -> Stages]
    /\ roots        \in SUBSET Objects
    /\ callbacks    \in [Crypts -> SUBSET Callbacks]
    /\ reaches      \in [Crypts -> SUBSET Objects]
    /\ mongo_crypt  \in [Crypts -> Handles]
    /\ js_wrapper   \in [Crypts -> {"null", "set"}]
    /\ stateRefs    \in [Crypts -> SUBSET (Crypts \cup Contexts)]
    /\ context      \in [Contexts -> Handles]
    /\ parent       \in [Contexts -> Crypts \cup {None}]
    /\ contextRefs  \in [Contexts -> SUBSET (Contexts \cup Requests)]
    /\ contextState \in [Requests -> Contexts \cup {None}]
    /\ stack        \in Seq(Frames)
    /\ destructor   \in Parts
    /\ env          \in {"running", "exiting"}

\* No native method ever works on freed memory: whatever wrappers were collected
\* while it was on the stack, under callbacks of callbacks, the handles that the
\* frames of make, context and request methods use are open (mongocrypt.h:59-63,
\* 109-113, 157-159).
NoUseAfterFree ==
    \A i \in 1..Len(stack) :
        LET f == stack[i] IN
        /\ f.kind = "make" => context[f.arg] = "open"
        /\ f.kind = "call" => context[f.obj] = "open"
        /\ f.kind = "kms"  => context[contextState[f.obj]] = "open"
        /\ mongo_crypt[CryptOf(f)] = "open"

\* As long as a context or a request can still be called, by its wrapper being
\* there, every native handle below it is open (mongocrypt.h:110, 157).
WrappersOwnHandles ==
    /\ \A m \in Crypts   : Wrapped(m) => mongo_crypt[m] = "open"
    /\ \A c \in Contexts : Wrapped(c) => context[c] = "open"
    /\ \A k \in Requests : Wrapped(k) => context[contextState[k]] = "open"

\* A mongocrypt_t is destroyed only after every mongocrypt_ctx_t made from it,
\* in whatever order their wrappers are finalized (mongocrypt.h:111-112 rely on
\* the order in which members are destroyed).
CryptOutlivesContexts ==
    \A c \in Contexts :
        context[c] = "open" => mongo_crypt[parent[c]] = "open"

\* The pointer a callback follows from the State to its MongoCrypt is null or
\* points at a MongoCrypt that exists, for as long as libmongocrypt can call
\* back (mongocrypt.cc:137, 211, 597).
WrapperPointerValid ==
    \A m \in Crypts :
        /\ mongo_crypt[m] = "open"
        /\ js_wrapper[m] = "set"
        /\ destructor # Part("mongo_crypt", m)
        => Wrapped(m)

\* No native handle is lost: one that is open is owned by a wrapper that will
\* be finalized, or belongs to a method that has not returned yet, or is about
\* to be destroyed; a throw halfway through a make method or the constructor
\* leaves nothing behind (mongocrypt.cc:625-847).
NoLeakedHandle ==
    Idle =>
    /\ \A m \in Crypts : mongo_crypt[m] = "open" =>
          \/ Wrapped(m)
          \/ \E c \in Contexts : c \in stateRefs[m] /\ context[c] = "open"
    /\ \A c \in Contexts : context[c] = "open" =>
          \/ \E o \in Contexts \cup Requests : o \in contextRefs[c] /\ Wrapped(o)
          \/ \E i \in 1..Len(stack) : stack[i] = Frame("make", parent[c], c)

\* The engine has collected o, or nothing the application can use reaches it.
Lost(o) ==
    \/ js[o] \in {"collected", "finalized"}
    \/ /\ js[o] = "live"
       /\ \E G \in SUBSET Objects :
            /\ o \in G /\ G \cap (roots \cup OnStack) = {}
            /\ \A m \in Crypts \ G : js[m] = "live" => reaches[m] \cap G = {}

\* A MongoCrypt, its contexts and their requests.
Family(m) ==
    {m} \cup stateRefs[m] \cup UNION {contextRefs[c] : c \in stateRefs[m] \cap Contexts}

\* Once the application has lost a MongoCrypt, its contexts and their requests
\* for good, the mongocrypt_t is destroyed in the end, even when its callbacks
\* close over any of them (mongocrypt.cc:849-851: "Storing them as JS engine
\* References is a big memory leak footgun").  Losing them for a moment is not
\* enough: a hook of a context still in use can bring its MongoCrypt back.
GarbageIsDestroyed ==
    \A m \in Crypts :
        <>[](mongo_crypt[m] # "none" /\ \A o \in Family(m) : Lost(o))
            => <>(mongo_crypt[m] = "destroyed")

\* The native handles that the frames on the stack were given.
InUse ==
    {CryptOf(stack[i]) : i \in 1..Len(stack)} \cup
    {stack[i].arg : i \in {j \in 1..Len(stack) : stack[j].kind = "make"}} \cup
    {stack[i].obj : i \in {j \in 1..Len(stack) : stack[j].kind = "call"}} \cup
    {contextState[stack[i].obj] : i \in {j \in 1..Len(stack) : stack[j].kind = "kms"}}

NH == INSTANCE NativeHandles
        WITH crypt <- mongo_crypt, ctx <- context, of <- parent, inUse <- InUse

\* Seen through their handles, the wrappers are a well-behaved user of
\* libmongocrypt: every step is one that NativeHandles allows.
RefinesNativeHandles == NH!Spec

\* What is gone does not come back.  A script never gets hold of an object that the
\* engine has collected, not even through a callback of a context that still works
\* (mongocrypt.cc:849-866); and a State or ContextState that lost its last owner, and
\* so is being destroyed, never gets another one from a method that was under way
\* (mongocrypt.h:109-113, 157-159).
Gone(o) == js[o] \in {"collected", "finalized"}
NothingComesBack ==
    [][ /\ \A o \in Objects : Gone(o) =>
              /\ js'[o] \in {js[o], "finalized"}
              /\ InScript' => o \notin InScope'
        /\ \A m \in Crypts : js[m] # "unborn" /\ stateRefs[m] = {} => stateRefs'[m] = {}
        /\ \A c \in Contexts :
              js[c] # "unborn" /\ contextRefs[c] = {} => contextRefs'[c] = {} ]_vars

\* What the application has lost stays lost, and so will be collected, if none of the
\* contexts and requests made from it is still in use: it is only through the hooks
\* and the logger of one of those that a MongoCrypt, and with it what its callbacks
\* close over, is found again although nothing refers to it (mongocrypt.cc:209-220).
Abandoned(G) ==
    /\ \A o \in G : js[o] # "unborn"
    /\ G \cap (roots \cup OnStack) = {}
    /\ \A m \in Crypts \ G : js[m] = "live" => reaches[m] \cap G = {}
    /\ \A m \in Crypts \cap G : \A o \in Family(m) \ G : Gone(o)
AbandonedForGood == [][\A G \in SUBSET Objects : Abandoned(G) => Abandoned(G)']_vars

\* "Keep reference to the MongoCrypt instance alive while this instance is
\* alive" (mongocrypt.h:110), said of a MongoCryptContext.
ContextKeepsMongoCrypt ==
    \A c \in Contexts : js[c] = "live" => js[parent[c]] = "live"

\* The log handler reports everything that goes wrong with the logger on stderr,
\* a logger that is not there included ("No logger set, but log handler
\* registered", mongocrypt.cc:147-159): no exception of its own leaves it.
LogHandlerNeverThrows == [][~CallbackUnwinds("logger")]_vars
=============================================================================
