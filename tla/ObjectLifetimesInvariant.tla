---------------------- MODULE ObjectLifetimesInvariant ----------------------
(***************************************************************************)
(* The inductive invariant behind the safety properties of                 *)
(* ObjectLifetimes, in named parts.  The properties follow from who owns   *)
(* what; the ownership is inductive only together with what is on the      *)
(* stack, what the script can still name and which destructor is running.  *)
(***************************************************************************)
EXTENDS ObjectLifetimes

Running  == 1..Len(stack)
Born(o)  == js[o] # "unborn"

\* Each kind of frame is a method of one class.
FrameTyped(f) ==
    /\ f.kind \in {"ctor", "js"} => f.obj \in Crypts
    /\ f.kind = "make" => f.obj \in Crypts /\ f.arg \in Contexts
    /\ f.kind = "call" => f.obj \in Contexts
    /\ f.kind = "kms"  => f.obj \in Requests

\* The object of every frame is alive; no frame survives the environment.
FramesLive ==
    /\ \A i \in Running : FrameTyped(stack[i]) /\ js[stack[i].obj] = "live"
    /\ env = "exiting" => stack = << >>

\* What the script can name is alive, and so is what it can name next.
ScopeLive ==
    /\ env = "running" => \A o \in roots : js[o] = "live"
    /\ env = "running" => \A m \in Crypts :
          js[m] = "live" => \A o \in reaches[m] : js[o] = "live"
    /\ \A m \in Crypts : ~Born(m) => reaches[m] = {}

\* A context under construction belongs to exactly one make method.
MakeFrames ==
    /\ \A i \in Running : stack[i].kind = "make" =>
          /\ context[stack[i].arg] = "open"
          /\ parent[stack[i].arg] = stack[i].obj
          /\ ~Born(stack[i].arg)
    /\ \A i, j \in Running :
          stack[i].kind = "make" /\ stack[j].kind = "make" /\ i # j
              => stack[i].arg # stack[j].arg
    /\ \A c \in Contexts : context[c] = "open" /\ ~Born(c) =>
          \E i \in Running : stack[i] = Frame("make", parent[c], c)

\* Nobody but its constructor knows a MongoCrypt under construction.
Unknown(m) ==
    /\ m \notin roots
    /\ \A n \in Crypts : js[n] = "live" => m \notin reaches[n]
    /\ \A c \in Contexts : parent[c] # m

CtorFrames ==
    \A i \in Running : stack[i].kind = "ctor" =>
        /\ Unknown(stack[i].obj)
        /\ \A j \in Running : j < i => stack[j].obj # stack[i].obj

\* A context points at the MongoCrypt it was made from from then on.
ParentBorn ==
    \A c \in Contexts :
        /\ context[c] = "none" => parent[c] = None /\ ~Born(c)
        /\ context[c] # "none" => parent[c] \in Crypts /\ Born(parent[c])

\* The owners of a State: its MongoCrypt while that exists, and the contexts
\* whose ContextState has not let go of it.
StateOwners ==
    /\ \A m, n \in Crypts : n \in stateRefs[m] <=> n = m /\ Wrapped(m)
    /\ \A m \in Crypts, c \in Contexts :
          c \in stateRefs[m] <=>
              /\ parent[c] = m /\ Born(c)
              /\ context[c] = "open" \/ destructor = Part("release", c)

\* The owners of a ContextState: its context and its requests while they exist.
ContextOwners ==
    /\ \A c, d \in Contexts : d \in contextRefs[c] <=> d = c /\ Wrapped(c)
    /\ \A c \in Contexts, k \in Requests :
          k \in contextRefs[c] <=> contextState[k] = c /\ Wrapped(k)
    /\ \A k \in Requests : Born(k) => contextState[k] \in Contexts

\* A handle is open as long as it has an owner, and then until its destructor
\* has run.
HandlesOwned ==
    /\ \A m \in Crypts :
          /\ stateRefs[m] # {} => mongo_crypt[m] = "open"
          /\ mongo_crypt[m] = "open" /\ stateRefs[m] = {}
                => destructor = Part("mongo_crypt", m)
          /\ ~Born(m) => mongo_crypt[m] = "none"
    /\ \A c \in Contexts :
          /\ contextRefs[c] # {} => context[c] = "open" /\ Born(c)
          /\ context[c] = "open" /\ Born(c) /\ contextRefs[c] = {}
                => destructor = Part("context", c)

\* The destructor that is running, if any.
DestructorOK ==
    /\ destructor.at = "none" => destructor = NoPart
    /\ destructor.at = "context" =>
          /\ destructor.of \in Contexts
          /\ context[destructor.of] = "open"
          /\ Born(destructor.of)
          /\ contextRefs[destructor.of] = {}
    /\ destructor.at = "release" =>
          /\ destructor.of \in Contexts
          /\ context[destructor.of] = "destroyed"
          /\ Born(destructor.of)
    /\ destructor.at = "mongo_crypt" =>
          /\ destructor.of \in Crypts
          /\ mongo_crypt[destructor.of] = "open"
          /\ Born(destructor.of)
          /\ stateRefs[destructor.of] = {}

\* A pointer to a MongoCrypt that is gone is left only in a State nobody owns.
WrapperCleared ==
    \A m \in Crypts : js_wrapper[m] = "set" /\ ~Wrapped(m) => stateRefs[m] = {}

IInv ==
    /\ TypeOK
    /\ FramesLive
    /\ ScopeLive
    /\ MakeFrames
    /\ CtorFrames
    /\ ParentBorn
    /\ StateOwners
    /\ ContextOwners
    /\ HandlesOwned
    /\ DestructorOK
    /\ WrapperCleared
=============================================================================
