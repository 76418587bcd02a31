---------------------- MODULE NativeHandlesRefinement ----------------------
(***************************************************************************)
(* Proof that ObjectLifetimes implements NativeHandles, for any number of  *)
(* objects and any depth of the stack.                                     *)
(*                                                                         *)
(* Most steps leave the native handles alone.  All that NativeHandles asks *)
(* of them is that the handles in use afterwards are usable, which follows *)
(* from the invariant in the state they lead to.  The five that open or    *)
(* destroy a handle have a step of NativeHandles each.                     *)
(***************************************************************************)
EXTENDS ObjectLifetimesProofs

USE ObjectsAssumption, CallbacksAssumption, MaxDepthAssumption

\* The native handles that a frame was given.
Given(f) ==
    {CryptOf(f)}
    \cup (IF f.kind = "make" THEN {f.arg} ELSE {})
    \cup (IF f.kind = "call" THEN {f.obj} ELSE {})
    \cup (IF f.kind = "kms" THEN {contextState[f.obj]} ELSE {})

\* The handles in use are those given to some frame.
LEMMA InUseIsGiven ==
    /\ \A x : x \in InUse <=> \E i \in Running : x \in Given(stack[i])
    /\ \A x : x \in InUse' <=> \E i \in Running' : x \in Given(stack[i])'
  <1>1. \A x : x \in InUse <=> \E i \in Running : x \in Given(stack[i])
    BY DEF InUse, Given, Running
  <1>2. \A x : x \in InUse' <=> \E i \in Running' : x \in Given(stack[i])'
    BY DEF InUse, Given, Running, CryptOf
  <1> QED
    BY <1>1, <1>2

\* A frame was given open handles, and open handles only.
LEMMA GivenIsUsable ==
    ASSUME IInv, NEW i \in Running
    PROVE  Given(stack[i]) \subseteq NH!Usable
  <1> DEFINE f == stack[i]
  <1>1. FrameTyped(f) /\ f.kind \in FrameKinds /\ js[f.obj] = "live"
    BY FrameFacts DEF Frames
  <1>2. /\ f.kind = "make" => context[f.arg] = "open"
        /\ f.kind = "call" => context[f.obj] = "open"
        /\ f.kind = "kms"  => context[contextState[f.obj]] = "open"
        /\ mongo_crypt[CryptOf(f)] = "open"
    BY InvariantImpliesNoUseAfterFree DEF NoUseAfterFree, Running
  <1>3. \A c \in Contexts : context[c] = "open" => parent[c] \in Crypts
    BY DEF IInv, ParentBorn
  <1>4. CASE f.kind \in {"ctor", "js"}
    BY <1>1, <1>2, <1>4 DEF Given, CryptOf, FrameTyped, NH!Usable
  <1>5. CASE f.kind = "make"
    <2>1. f.obj \in Crypts /\ f.arg \in Contexts /\ parent[f.arg] = f.obj
      BY <1>1, <1>5 DEF FrameTyped, IInv, MakeFrames
    <2>2. Given(f) = {f.obj, f.arg} /\ CryptOf(f) = f.obj
      BY <1>5 DEF Given, CryptOf
    <2> QED
      BY <1>2, <1>5, <2>1, <2>2 DEF NH!Usable
  <1>6. CASE f.kind = "call"
    <2>1. f.obj \in Contexts /\ parent[f.obj] \in Crypts
      BY <1>1, <1>2, <1>3, <1>6 DEF FrameTyped
    <2>2. Given(f) = {parent[f.obj], f.obj} /\ CryptOf(f) = parent[f.obj]
      BY <1>6 DEF Given, CryptOf
    <2> QED
      BY <1>2, <1>6, <2>1, <2>2 DEF NH!Usable
  <1>7. CASE f.kind = "kms"
    <2> DEFINE c == contextState[f.obj]
    <2>1. c \in Contexts /\ parent[c] \in Crypts
      BY <1>1, <1>2, <1>3, <1>7 DEF FrameTyped, IInv, ContextOwners, Born
    <2>2. Given(f) = {parent[c], c} /\ CryptOf(f) = parent[c]
      BY <1>7 DEF Given, CryptOf
    <2> QED
      BY <1>2, <1>7, <2>1, <2>2 DEF NH!Usable
  <1> QED
    BY <1>1, <1>4, <1>5, <1>6, <1>7 DEF FrameKinds

\* A method on the stack works on usable handles only.
LEMMA InUseIsUsable == IInv => InUse \subseteq NH!Usable
  BY InUseIsGiven, GivenIsUsable

\* The initial states.
LEMMA InitRefines == Init => NH!Init
  <1> SUFFICES ASSUME Init PROVE NH!Init
    OBVIOUS
  <1>1. InUse = {}
    BY InUseIsGiven DEF Init, Running
  <1> QED
    BY <1>1 DEF Init, NH!Init

\* A step that leaves the handles alone.
LEMMA SameHandlesRefine ==
    ASSUME InUse' \subseteq NH!Usable', UNCHANGED <<mongo_crypt, context, parent>>
    PROVE  NH!UseHandles
  BY DEF NH!UseHandles, NH!handles, NH!Usable

\* Pushing a frame adds what it was given, as long as the frames below keep what
\* they have.
LEMMA PushUses ==
    ASSUME IInv, NEW f \in Frames, Push(f),
           \A i \in Running : Given(stack[i])' = Given(stack[i])
    PROVE  InUse' = InUse \cup Given(f)'
  <1>1. PICK n : n = Len(stack) + 1
    OBVIOUS
  <1>2. /\ Running' = Running \cup {n}
        /\ \A i \in Running : stack'[i] = stack[i]
        /\ stack'[n] = f
    BY <1>1, PushFacts DEF IInv
  <1>3. Given(stack[n])' = Given(f)'
    BY <1>2 DEF Given, CryptOf
  <1> QED
    BY <1>2, <1>3, InUseIsGiven

\* What frames were given depends on the contexts' parents and the requests'
\* contexts only.
LEMMA GivenStays ==
    ASSUME UNCHANGED <<parent, contextState>>,
           \A i \in Running' : i \in Running /\ stack'[i] = stack[i]
    PROVE  InUse' \subseteq InUse
  <1>1. \A i \in Running' : Given(stack[i])' = Given(stack[i])
    BY DEF Given, CryptOf
  <1> QED
    BY <1>1, InUseIsGiven

\* mongocrypt_new: the constructor is given the new handle.
LEMMA BeginCtorRefines ==
    ASSUME IInv, NEW m \in Crypts, NEW names, BeginCtor(m, names)
    PROVE  NH!NewCrypt(m)
  <1> DEFINE f == Frame("ctor", m, None)
  <1>1. f \in Frames /\ Push(f) /\ UNCHANGED <<context, parent, contextState>>
    BY DEF BeginCtor, Frame, Frames, FrameKinds, Objects, contextVars
  <1>2. \A i \in Running : Given(stack[i])' = Given(stack[i])
    BY <1>1, PushFacts DEF Given, CryptOf, IInv
  <1>3. InUse' = InUse \cup Given(f)'
    BY <1>1, <1>2, PushUses
  <1>4. Given(f)' = {m}
    BY DEF Given, CryptOf, Frame
  <1>5. mongo_crypt[m] = "none"
    BY DEF BeginCtor, IInv, HandlesOwned, Born
  <1> QED
    BY <1>1, <1>3, <1>4, <1>5 DEF BeginCtor, NH!NewCrypt

\* mongocrypt_ctx_new: the make method is given the new handle and its MongoCrypt's.
LEMMA BeginMakeRefines ==
    ASSUME IInv, NEW m \in Crypts, NEW c \in Contexts, BeginMake(m, c)
    PROVE  NH!NewContext(m, c)
  <1> DEFINE f == Frame("make", m, c)
  <1>1. /\ f \in Frames /\ Push(f) /\ context[c] = "none"
        /\ parent' = [parent EXCEPT ![c] = m] /\ UNCHANGED <<mongo_crypt, contextState>>
    BY DEF BeginMake, Frame, Frames, FrameKinds, Objects, stateVars
  <1>2. \A i \in Running : Given(stack[i])' = Given(stack[i])
    <2> SUFFICES ASSUME NEW i \in Running PROVE Given(stack[i])' = Given(stack[i])
      OBVIOUS
    <2>1. stack'[i] = stack[i]
      BY <1>1, PushFacts DEF IInv
    <2>2. /\ stack[i].kind = "call" => context[stack[i].obj] = "open"
          /\ stack[i].kind = "kms"  => context[contextState[stack[i].obj]] = "open"
      BY InvariantImpliesNoUseAfterFree DEF NoUseAfterFree, Running
    <2>3. \A d : d # c => parent'[d] = parent[d]
      BY <1>1 DEF IInv, TypeOK
    <2> QED
      BY <1>1, <2>1, <2>2, <2>3 DEF Given, CryptOf
  <1>3. InUse' = InUse \cup Given(f)'
    BY <1>1, <1>2, PushUses
  <1>4. Given(f)' = {m, c}
    BY DEF Given, CryptOf, Frame
  <1>5. mongo_crypt[m] = "open"
    <2>1. js[m] = "live"
      BY InScopeIsLive DEF BeginMake
    <2> QED
      BY <2>1, InvariantImpliesOwnership DEF WrappersOwnHandles, Wrapped
  <1> QED
    BY <1>1, <1>3, <1>4, <1>5 DEF BeginMake, NH!NewContext

\* ~unique_ptr<mongocrypt_ctx_t> in a make method that throws.
LEMMA FailMakeRefines ==
    ASSUME IInv, InUse' \subseteq NH!Usable', FailMake
    PROVE  \E c \in Contexts : NH!DestroyContext(c)
  <1>1. PICK c : c = Top.arg
    OBVIOUS
  <1>2. Top.obj \in Crypts /\ c \in Contexts /\ context[c] = "open" /\ parent[c] = Top.obj
    BY <1>1, MakeTop DEF FailMake, OnTop
  <1>3. mongo_crypt[parent[c]] = "open"
    BY <1>2, InvariantImpliesOutlives DEF CryptOutlivesContexts
  <1>4. /\ context' = [context EXCEPT ![c] = "destroyed"]
        /\ UNCHANGED <<mongo_crypt, parent, contextState>>
    BY <1>1 DEF FailMake, DiscardContext, stateVars
  <1>5. InUse' \subseteq InUse
    BY <1>4, PopFacts, GivenStays DEF FailMake, OnTop, IInv
  <1>6. c \notin InUse'
    BY <1>2, <1>4 DEF NH!Usable, IInv, TypeOK
  <1> QED
    BY <1>2, <1>3, <1>4, <1>5, <1>6 DEF NH!DestroyContext

\* mongocrypt_ctx_destroy with the last owner of a ContextState.
LEMMA DestroyNativeContextRefines ==
    ASSUME IInv, InUse' \subseteq NH!Usable', DestroyNativeContext
    PROVE  \E c \in Contexts : NH!DestroyContext(c)
  <1>1. PICK c : c = destructor.of
    OBVIOUS
  <1>2. c \in Contexts /\ context[c] = "open"
    BY <1>1 DEF DestroyNativeContext, IInv, DestructorOK
  <1>3. mongo_crypt[parent[c]] = "open"
    BY <1>2, InvariantImpliesOutlives DEF CryptOutlivesContexts
  <1>4. /\ context' = [context EXCEPT ![c] = "destroyed"]
        /\ UNCHANGED <<mongo_crypt, parent, contextState, stack>>
    BY <1>1 DEF DestroyNativeContext, stateVars
  <1>5. InUse' \subseteq InUse
    BY <1>4, GivenStays DEF Running
  <1>6. c \notin InUse'
    BY <1>2, <1>4 DEF NH!Usable, IInv, TypeOK
  <1> QED
    BY <1>2, <1>3, <1>4, <1>5, <1>6 DEF NH!DestroyContext

\* mongocrypt_destroy with the last owner of a State: no context is open, or the
\* state after the step would break CryptOutlivesContexts.
LEMMA DestroyNativeCryptRefines ==
    ASSUME IInv, InUse' \subseteq NH!Usable', CryptOutlivesContexts', DestroyNativeCrypt
    PROVE  \E m \in Crypts : NH!DestroyCrypt(m)
  <1>1. PICK m : m = destructor.of
    OBVIOUS
  <1>2. m \in Crypts /\ mongo_crypt[m] = "open"
    BY <1>1 DEF DestroyNativeCrypt, IInv, DestructorOK
  <1>3. /\ mongo_crypt' = [mongo_crypt EXCEPT ![m] = "destroyed"]
        /\ UNCHANGED <<context, parent, contextState, stack>>
    BY <1>1 DEF DestroyNativeCrypt, contextVars
  <1>4. InUse' = InUse
    BY <1>3 DEF InUse, CryptOf
  <1>5. mongo_crypt'[m] = "destroyed"
    BY <1>2, <1>3 DEF IInv, TypeOK
  <1>6. m \notin InUse
    BY <1>2, <1>4, <1>5 DEF NH!Usable
  <1>7. NH!OpenContexts(m) = {}
    BY <1>3, <1>5 DEF CryptOutlivesContexts, NH!OpenContexts
  <1> QED
    BY <1>2, <1>3, <1>4, <1>6, <1>7 DEF NH!DestroyCrypt

\* What the refinement takes from the invariant, in the state before a step and in
\* the one after it.
HandlesUsable == IInv /\ InUse \subseteq NH!Usable /\ CryptOutlivesContexts

\* The other steps open no handle and destroy none.
LEMMA StayingSteps ==
    ASSUME [Next]_vars,
           ~ \E m \in Crypts : \E names \in SUBSET Callbacks : BeginCtor(m, names),
           ~ \E m \in Crypts, c \in Contexts : BeginMake(m, c),
           ~ FailMake, ~ DestroyNativeContext, ~ DestroyNativeCrypt
    PROVE  UNCHANGED <<mongo_crypt, context, parent>>
  <1> USE DEF stateVars, contextVars, vars
  <1>1. CASE ScriptStep
    BY <1>1 DEF ScriptStep, BeginCall, BeginKMSCall, Drop, Keep, Capture
  <1>2. CASE NativeReturn
    BY <1>2 DEF NativeReturn, EndCtor, FailCtor, EndMake, Return, ReturnKMSRequest
  <1>3. CASE NativeCallback \/ CallbackReturn
    BY <1>3 DEF NativeCallback, InvokeCallback, CallbackFindsNoWrapper, CallbackUnwinds,
                CallbackReturn
  <1>4. CASE CollectGarbage
    BY <1>4 DEF CollectGarbage, Collect
  <1>5. CASE Finalizer
    BY <1>5 DEF Finalizer, DestroyMongoCrypt, DestroyMongoCryptContext,
                DestroyMongoCryptKMSRequest
  <1>6. CASE DestructorStep
    BY <1>6 DEF DestructorStep, ReleaseMongoCrypt
  <1>7. CASE TearDown \/ Exited \/ UNCHANGED vars
    BY <1>7 DEF TearDown, Exited
  <1> QED
    BY <1>1, <1>2, <1>3, <1>4, <1>5, <1>6, <1>7 DEF Next

\* Every step is one that NativeHandles allows.
LEMMA StepRefines == HandlesUsable /\ HandlesUsable' /\ [Next]_vars => NH!Next
  <1> SUFFICES ASSUME HandlesUsable, HandlesUsable', [Next]_vars PROVE NH!Next
    OBVIOUS
  <1> USE DEF HandlesUsable
  <1>1. CASE \E m \in Crypts : \E names \in SUBSET Callbacks : BeginCtor(m, names)
    BY <1>1, BeginCtorRefines DEF NH!Next
  <1>2. CASE \E m \in Crypts, c \in Contexts : BeginMake(m, c)
    BY <1>2, BeginMakeRefines DEF NH!Next
  <1>3. CASE FailMake
    BY <1>3, FailMakeRefines DEF NH!Next
  <1>4. CASE DestroyNativeContext
    BY <1>4, DestroyNativeContextRefines DEF NH!Next
  <1>5. CASE DestroyNativeCrypt
    BY <1>5, DestroyNativeCryptRefines DEF NH!Next
  <1>6. CASE UNCHANGED <<mongo_crypt, context, parent>>
    BY <1>6, SameHandlesRefine DEF NH!Next
  <1> QED
    BY <1>1, <1>2, <1>3, <1>4, <1>5, <1>6, StayingSteps

\* Seen through their handles, the wrappers are a well-behaved user of libmongocrypt
\* (mongocrypt.h:59-63, 109-113, 157-159): whatever is collected, finalized, thrown or
\* called back, every step is one that NativeHandles allows.
THEOREM HandlesRefined == Spec => RefinesNativeHandles
  <1>1. IInv => HandlesUsable
    BY InUseIsUsable, InvariantImpliesOutlives DEF HandlesUsable
  <1> QED
    BY <1>1, InitRefines, StepRefines, InvariantHolds, PTL DEF Spec, RefinesNativeHandles, NH!Spec
=============================================================================
