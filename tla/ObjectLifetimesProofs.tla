----------------------- MODULE ObjectLifetimesProofs -----------------------
(***************************************************************************)
(* Proofs about ObjectLifetimes, for any number of objects and any depth   *)
(* of the stack.                                                           *)
(***************************************************************************)
EXTENDS ObjectLifetimesInvariant, SequenceTheorems, TLAPS

USE ObjectsAssumption, CallbacksAssumption, MaxDepthAssumption

(***************************************************************************)
(* Pushing and popping frames.                                             *)
(***************************************************************************)

LEMMA PushFacts ==
    ASSUME NEW f \in Frames, TypeOK, Push(f)
    PROVE  /\ stack' \in Seq(Frames)
           /\ Len(stack) \in Nat
           /\ Len(stack') = Len(stack) + 1
           /\ Running' = Running \cup {Len(stack) + 1}
           /\ \A i \in Running : stack'[i] = stack[i]
           /\ stack'[Len(stack) + 1] = f
  BY AppendProperties DEF Push, TypeOK, Running

LEMMA FrontFacts ==
    ASSUME NEW S, NEW s \in Seq(S), s # << >>
    PROVE  /\ Len(s) \in Nat /\ Len(s) > 0
           /\ SubSeq(s, 1, Len(s) - 1) \in Seq(S)
           /\ Len(SubSeq(s, 1, Len(s) - 1)) = Len(s) - 1
           /\ \A i \in 1 .. Len(s) - 1 : SubSeq(s, 1, Len(s) - 1)[i] = s[i]
  <1>1. Len(s) \in Nat /\ Len(s) > 0
    BY EmptySeq
  <1>2. PICK n \in Nat : n = Len(s) - 1
    BY <1>1
  <1>3. 1 \in Int /\ n \in Int /\ \A i \in 1 .. n : s[i] \in S
    BY <1>1, <1>2
  <1>4. /\ SubSeq(s, 1, n) \in Seq(S)
        /\ Len(SubSeq(s, 1, n)) = IF 1 <= n THEN n - 1 + 1 ELSE 0
        /\ \A i \in 1 .. n - 1 + 1 : SubSeq(s, 1, n)[i] = s[1 + i - 1]
    BY ONLY <1>3, SubSeqProperties
  <1>5. PICK t : t = SubSeq(s, 1, n)
    OBVIOUS
  <1>6. /\ t \in Seq(S)
        /\ Len(t) = n
        /\ \A i \in 1 .. n : t[i] = s[i]
    BY <1>2, <1>4, <1>5
  <1> QED
    BY <1>1, <1>2, <1>5, <1>6

LEMMA PopFacts ==
    ASSUME TypeOK, Pop, stack # << >>
    PROVE  /\ stack' \in Seq(Frames)
           /\ Len(stack) \in Nat
           /\ Len(stack) > 0
           /\ Len(stack') = Len(stack) - 1
           /\ Running' = Running \ {Len(stack)}
           /\ \A i \in Running' : stack'[i] = stack[i]
           /\ Len(stack) \in Running
  <1>1. /\ stack' \in Seq(Frames)
        /\ Len(stack) \in Nat
        /\ Len(stack) > 0
        /\ Len(stack') = Len(stack) - 1
        /\ \A i \in 1 .. Len(stack) - 1 : stack'[i] = stack[i]
    BY FrontFacts, Zenon DEF TypeOK, Pop
  <1> QED
    BY <1>1 DEF Running

(***************************************************************************)
(* The initial states.                                                     *)
(***************************************************************************)

LEMMA InitInvariant == Init => IInv
  <1> SUFFICES ASSUME Init PROVE IInv
    OBVIOUS
  <1> USE DEF Init
  <1>1. TypeOK
    BY EmptySeq DEF TypeOK, Stages, Handles, Parts, NoPart, Part
  <1>2. FramesLive /\ MakeFrames /\ CtorFrames
    BY DEF FramesLive, MakeFrames, CtorFrames, Running, Born
  <1>3. ScopeLive /\ ParentBorn /\ WrapperCleared /\ DestructorOK
    BY DEF ScopeLive, ParentBorn, WrapperCleared, DestructorOK, NoPart, Part, Born, Objects
  <1>4. StateOwners /\ ContextOwners
    BY DEF StateOwners, ContextOwners, Wrapped, Born, Objects, NoPart, Part
  <1>5. HandlesOwned
    BY DEF HandlesOwned, Born, Objects
  <1> QED
    BY <1>1, <1>2, <1>3, <1>4, <1>5 DEF IInv

(***************************************************************************)
(* What a push or a pop does to the parts of the invariant that speak of   *)
(* the stack, given what the step does to the objects of its frames.       *)
(***************************************************************************)

LEMMA FrameFacts ==
    ASSUME IInv, NEW i \in Running
    PROVE  /\ stack[i] \in Frames
           /\ stack[i].obj \in Objects
           /\ FrameTyped(stack[i])
           /\ js[stack[i].obj] = "live"
  <1>1. stack[i] \in Frames
    BY DEF IInv, TypeOK, Running
  <1> QED
    BY <1>1 DEF IInv, FramesLive, Frames

LEMMA FramesLiveAfterPush ==
    ASSUME IInv, NEW f \in Frames, Push(f), FrameTyped(f), js'[f.obj] = "live",
           \A i \in Running : js'[stack[i].obj] = "live", env' = "running"
    PROVE  FramesLive'
  BY PushFacts DEF IInv, FramesLive, FrameTyped

LEMMA FramesLiveAfterPop ==
    ASSUME IInv, stack # << >>, Pop, env' = "running",
           \A i \in Running \ {Len(stack)} : js'[stack[i].obj] = "live"
    PROVE  FramesLive'
  BY PopFacts DEF IInv, FramesLive, FrameTyped

LEMMA MakeFramesAfterPush ==
    ASSUME IInv, NEW f \in Frames, Push(f), f.kind # "make",
           \A c \in Contexts : /\ context'[c] = context[c]
                               /\ parent'[c] = parent[c]
                               /\ js'[c] = js[c]
    PROVE  MakeFrames'
  <1>1. /\ Len(stack) \in Nat
        /\ Running' = Running \cup {Len(stack) + 1}
        /\ \A i \in Running : stack'[i] = stack[i]
        /\ stack'[Len(stack) + 1] = f
    BY PushFacts DEF IInv
  <1>2. \A i \in Running : stack[i].kind = "make" => stack[i].arg \in Contexts
    BY FrameFacts DEF FrameTyped
  <1> QED
    BY <1>1, <1>2 DEF IInv, MakeFrames, Born

LEMMA MakeFramesAfterPop ==
    ASSUME IInv, stack # << >>, Pop, Top.kind # "make",
           \A c \in Contexts : /\ context'[c] = context[c]
                               /\ parent'[c] = parent[c]
                               /\ js'[c] = js[c]
    PROVE  MakeFrames'
  <1>1. /\ Running' = Running \ {Len(stack)}
        /\ \A i \in Running' : stack'[i] = stack[i]
    BY PopFacts DEF IInv
  <1>2. \A i \in Running : stack[i].kind = "make" => stack[i].arg \in Contexts
    BY FrameFacts DEF FrameTyped
  <1>3. ASSUME NEW c \in Contexts, context'[c] = "open", ~Born(c)'
        PROVE  \E i \in Running' : stack'[i] = Frame("make", parent'[c], c)
    <2>1. PICK i \in Running : stack[i] = Frame("make", parent[c], c)
      BY <1>3 DEF IInv, MakeFrames, Born
    <2>2. i # Len(stack)
      BY <2>1 DEF Top, Frame
    <2> QED
      BY <1>1, <2>1, <2>2
  <1>4. \A i \in Running' : stack'[i].kind = "make" =>
           /\ context'[stack'[i].arg] = "open"
           /\ parent'[stack'[i].arg] = stack'[i].obj
           /\ js'[stack'[i].arg] = "unborn"
    BY <1>1, <1>2 DEF IInv, MakeFrames, Born
  <1>5. \A i, j \in Running' :
           stack'[i].kind = "make" /\ stack'[j].kind = "make" /\ i # j
               => stack'[i].arg # stack'[j].arg
    BY <1>1 DEF IInv, MakeFrames
  <1> QED
    BY <1>3, <1>4, <1>5 DEF MakeFrames, Born

LEMMA CtorFramesAfterPush ==
    ASSUME IInv, NEW f \in Frames, Push(f), f.kind # "ctor",
           \A i \in Running, m \in Crypts :
              stack[i].kind = "ctor" /\ stack[i].obj = m => Unknown(m)'
    PROVE  CtorFrames'
  <1>1. /\ Len(stack) \in Nat
        /\ Running' = Running \cup {Len(stack) + 1}
        /\ \A i \in Running : stack'[i] = stack[i]
        /\ stack'[Len(stack) + 1] = f
    BY PushFacts DEF IInv
  <1>2. ASSUME NEW i \in Running', stack'[i].kind = "ctor"
        PROVE  /\ Unknown(stack[i].obj)'
               /\ \A j \in Running' : j < i => stack'[j].obj # stack'[i].obj
    <2>1. i \in Running /\ stack'[i] = stack[i]
      BY <1>1, <1>2
    <2>2. \A j \in Running' : j < i => j \in Running
      BY <1>1, <2>1 DEF Running
    <2>3. PICK m \in Crypts : m = stack[i].obj
      BY <1>2, <2>1, FrameFacts DEF FrameTyped
    <2>4. Unknown(m)'
      BY <1>2, <2>1, <2>3
    <2>5. stack'[i].obj = m
      BY <2>1, <2>3
    <2>6. Unknown(stack[i].obj)'
      BY <2>4, <2>5
    <2> QED
      BY <1>1, <1>2, <2>1, <2>2, <2>6 DEF IInv, CtorFrames
  <1> QED
    BY <1>2 DEF CtorFrames

LEMMA CtorFramesAfterPop ==
    ASSUME IInv, stack # << >>, Pop,
           \A i \in Running \ {Len(stack)}, m \in Crypts :
              stack[i].kind = "ctor" /\ stack[i].obj = m => Unknown(m)'
    PROVE  CtorFrames'
  <1>1. /\ Running' = Running \ {Len(stack)}
        /\ \A i \in Running' : stack'[i] = stack[i]
    BY PopFacts DEF IInv
  <1>2. ASSUME NEW i \in Running', stack'[i].kind = "ctor"
        PROVE  Unknown(stack[i].obj)'
    <2>1. i \in Running /\ stack'[i] = stack[i]
      BY <1>1
    <2>2. PICK m \in Crypts : m = stack[i].obj
      BY <1>2, <2>1, FrameFacts DEF FrameTyped
    <2>3. Unknown(m)'
      BY <1>1, <1>2, <2>1, <2>2
    <2>4. stack'[i].obj = m
      BY <2>1, <2>2
    <2> QED
      BY <2>3, <2>4
  <1>3. \A i, j \in Running' : stack'[i].kind = "ctor" /\ j < i
                                  => stack'[j].obj # stack'[i].obj
    BY <1>1 DEF IInv, CtorFrames
  <1> QED
    BY <1>2, <1>3 DEF CtorFrames

(***************************************************************************)
(* Steps that change the stack only.                                       *)
(***************************************************************************)

LEMMA RestUnchanged ==
    ASSUME IInv, UNCHANGED <<heapVars, stateVars, contextVars, contextState, destructor, env>>
    PROVE  /\ ScopeLive' /\ ParentBorn' /\ StateOwners' /\ ContextOwners'
           /\ HandlesOwned' /\ DestructorOK' /\ WrapperCleared'
           /\ \A i \in Running, m \in Crypts :
                 stack[i].kind = "ctor" /\ stack[i].obj = m => Unknown(m)'
  <1>1. /\ ScopeLive' /\ ParentBorn' /\ StateOwners' /\ ContextOwners'
        /\ HandlesOwned' /\ DestructorOK' /\ WrapperCleared'
    BY DEF IInv, ScopeLive, ParentBorn, StateOwners, ContextOwners, HandlesOwned,
           DestructorOK, WrapperCleared, Wrapped, Born, heapVars, stateVars, contextVars
  <1>2. ASSUME NEW i \in Running, NEW m \in Crypts, stack[i].kind = "ctor", stack[i].obj = m
        PROVE  Unknown(m)'
    <2>1. Unknown(m)
      BY <1>2 DEF IInv, CtorFrames
    <2> QED
      BY <2>1 DEF Unknown, heapVars, contextVars
  <1> QED
    BY <1>1, <1>2

LEMMA PushPreserves ==
    ASSUME IInv, NEW f \in Frames, Push(f), FrameTyped(f),
           f.kind \in {"call", "kms", "js"}, js[f.obj] = "live", env = "running",
           UNCHANGED <<heapVars, stateVars, contextVars, contextState, destructor, env>>
    PROVE  IInv'
  <1>1. TypeOK'
    BY PushFacts DEF IInv, TypeOK, heapVars, stateVars, contextVars
  <1>2. FramesLive'
    BY FrameFacts, FramesLiveAfterPush DEF heapVars
  <1>3. MakeFrames'
    BY MakeFramesAfterPush DEF heapVars, contextVars
  <1>4. CtorFrames'
    BY RestUnchanged, CtorFramesAfterPush
  <1> QED
    BY <1>1, <1>2, <1>3, <1>4, RestUnchanged DEF IInv

LEMMA PopPreserves ==
    ASSUME IInv, stack # << >>, Top.kind # "make", Pop,
           UNCHANGED <<heapVars, stateVars, contextVars, contextState, destructor, env>>
    PROVE  IInv'
  <1>1. TypeOK'
    BY PopFacts DEF IInv, TypeOK, heapVars, stateVars, contextVars
  <1>2. FramesLive'
    BY FrameFacts, FramesLiveAfterPop, EmptySeq DEF heapVars, IInv, FramesLive, TypeOK
  <1>3. MakeFrames'
    BY MakeFramesAfterPop DEF heapVars, contextVars
  <1>4. CtorFrames'
    BY RestUnchanged, CtorFramesAfterPop
  <1> QED
    BY <1>1, <1>2, <1>3, <1>4, RestUnchanged DEF IInv

\* What the script can name is alive, so its method can run.
LEMMA InScopeIsLive ==
    ASSUME IInv, InScript, NEW o, o \in InScope
    PROVE  o \in Objects /\ js[o] = "live"
  <1>1. env = "running" /\ roots \subseteq Objects
    BY DEF IInv, TypeOK, InScript
  <1>2. CASE stack = << >>
    BY <1>1, <1>2 DEF IInv, ScopeLive, InScope
  <1>3. CASE stack # << >>
    <2>1. Top.kind = "js" /\ Len(stack) \in Running
      BY <1>3, EmptySeq DEF InScript, OnTop, IInv, TypeOK, Running
    <2>2. Top.obj \in Crypts /\ js[Top.obj] = "live"
      BY <2>1 DEF IInv, FramesLive, FrameTyped, Top
    <2>3. reaches[Top.obj] \subseteq Objects
      BY <2>2 DEF IInv, TypeOK
    <2> QED
      BY <1>1, <1>3, <2>2, <2>3 DEF IInv, ScopeLive, InScope
  <1> QED
    BY <1>2, <1>3

LEMMA TopIsRunning ==
    ASSUME IInv, stack # << >>
    PROVE  /\ Len(stack) \in Running
           /\ Top \in Frames
           /\ FrameTyped(Top)
           /\ js[Top.obj] = "live"
  <1>1. Len(stack) \in Running
    BY EmptySeq DEF IInv, TypeOK, Running
  <1> QED
    BY <1>1 DEF IInv, TypeOK, FramesLive, Top, Running

LEMMA BeginCallPreserves ==
    ASSUME IInv, NEW c \in Contexts, BeginCall(c)
    PROVE  IInv'
  <1>1. js[c] = "live" /\ env = "running"
    BY InScopeIsLive DEF BeginCall, InScript
  <1>2. Frame("call", c, None) \in Frames /\ FrameTyped(Frame("call", c, None))
    BY DEF Frame, Frames, FrameKinds, FrameTyped, Objects
  <1> QED
    BY <1>1, <1>2, PushPreserves DEF BeginCall, Frame

LEMMA BeginKMSCallPreserves ==
    ASSUME IInv, NEW k \in Requests, BeginKMSCall(k)
    PROVE  IInv'
  <1>1. js[k] = "live" /\ env = "running"
    BY InScopeIsLive DEF BeginKMSCall, InScript
  <1>2. Frame("kms", k, None) \in Frames /\ FrameTyped(Frame("kms", k, None))
    BY DEF Frame, Frames, FrameKinds, FrameTyped, Objects
  <1> QED
    BY <1>1, <1>2, PushPreserves DEF BeginKMSCall, Frame

\* A native frame works on the State of a MongoCrypt.
LEMMA CryptOfTop ==
    ASSUME IInv, stack # << >>
    PROVE  CryptOf(Top) \in Crypts
  <1>1. Top \in Frames /\ FrameTyped(Top) /\ js[Top.obj] = "live"
    BY TopIsRunning
  <1>2. CASE Top.kind = "call"
    BY <1>1, <1>2 DEF CryptOf, FrameTyped, IInv, ParentBorn, Born
  <1>3. CASE Top.kind = "kms"
    <2>1. Top.obj \in Requests /\ contextState[Top.obj] \in Contexts
      BY <1>1, <1>3 DEF FrameTyped, IInv, ContextOwners, Born
    <2>2. context[contextState[Top.obj]] = "open"
      BY <1>1, <2>1 DEF IInv, ContextOwners, HandlesOwned, Wrapped
    <2> QED
      BY <1>3, <2>1, <2>2 DEF CryptOf, IInv, ParentBorn
  <1>4. CASE Top.kind \notin {"call", "kms"}
    BY <1>1, <1>4 DEF CryptOf, FrameTyped, Frames, FrameKinds
  <1> QED
    BY <1>2, <1>3, <1>4

LEMMA StutterPreserves ==
    ASSUME IInv, UNCHANGED vars
    PROVE  IInv'
  <1> USE DEF vars
  <1>1. TypeOK' /\ FramesLive' /\ ScopeLive'
    BY DEF IInv, TypeOK, FramesLive, ScopeLive, Running, Born, FrameTyped
  <1>2. MakeFrames' /\ CtorFrames'
    BY DEF IInv, MakeFrames, CtorFrames, Unknown, Running, Born
  <1>3. ParentBorn' /\ StateOwners' /\ ContextOwners'
    BY DEF IInv, ParentBorn, StateOwners, ContextOwners, Wrapped, Born
  <1>4. HandlesOwned' /\ DestructorOK' /\ WrapperCleared'
    BY DEF IInv, HandlesOwned, DestructorOK, WrapperCleared, Wrapped, Born
  <1> QED
    BY <1>1, <1>2, <1>3, <1>4 DEF IInv

LEMMA CallbackPreserves ==
    ASSUME IInv, NEW n \in Callbacks,
           InvokeCallback(n) \/ CallbackFindsNoWrapper(n) \/ CallbackUnwinds(n)
    PROVE  IInv'
  <1>1. CASE InvokeCallback(n)
    <2> DEFINE f == Frame("js", CryptOf(Top), None)
    <2>1. stack # << >> /\ env = "running" /\ js[CryptOf(Top)] = "live"
      BY <1>1 DEF InvokeCallback, CallsBack, InNative
    <2>2. CryptOf(Top) \in Crypts
      BY <2>1, CryptOfTop
    <2>3. f \in Frames /\ FrameTyped(f) /\ f.kind = "js" /\ js[f.obj] = "live"
      BY <2>1, <2>2 DEF Frame, Frames, FrameKinds, FrameTyped, Objects
    <2> QED
      BY <1>1, <2>1, <2>3, PushPreserves DEF InvokeCallback
  <1>2. CASE CallbackFindsNoWrapper(n)
    BY <1>2, StutterPreserves DEF CallbackFindsNoWrapper
  <1>3. CASE CallbackUnwinds(n)
    <2>1. stack # << >> /\ js[CryptOf(Top)] # "live"
      BY <1>3 DEF CallbackUnwinds, CallsBack, InNative
    <2>2. Top.kind # "make"
      BY <2>1, TopIsRunning DEF CryptOf
    <2> QED
      BY <1>3, <2>1, <2>2, PopPreserves DEF CallbackUnwinds
  <1> QED
    BY <1>1, <1>2, <1>3

LEMMA ReturnPreserves ==
    ASSUME IInv, Return \/ CallbackReturn
    PROVE  IInv'
  BY PopPreserves DEF Return, CallbackReturn, OnTop

(***************************************************************************)
(* The application's references.                                           *)
(***************************************************************************)

LEMMA DropPreserves ==
    ASSUME IInv, NEW o \in Objects, Drop(o)
    PROVE  IInv'
  <1> USE DEF Drop, stateVars, contextVars, threadVars
  <1>1. TypeOK' /\ ScopeLive'
    BY DEF IInv, TypeOK, ScopeLive, Born
  <1>2. FramesLive' /\ MakeFrames' /\ CtorFrames'
    BY DEF IInv, FramesLive, MakeFrames, CtorFrames, Unknown, Running, Born, FrameTyped
  <1>3. /\ ParentBorn' /\ StateOwners' /\ ContextOwners'
        /\ HandlesOwned' /\ DestructorOK' /\ WrapperCleared'
    BY DEF IInv, ParentBorn, StateOwners, ContextOwners, HandlesOwned,
           DestructorOK, WrapperCleared, Wrapped, Born
  <1> QED
    BY <1>1, <1>2, <1>3 DEF IInv

\* A MongoCrypt whose constructor is running is not in scope.
LEMMA InScopeIsNotUnderConstruction ==
    ASSUME IInv, InScript, NEW i \in Running, stack[i].kind = "ctor"
    PROVE  stack[i].obj \notin InScope
  <1>0. Unknown(stack[i].obj)
    BY DEF IInv, CtorFrames
  <1>1. CASE stack = << >>
    BY <1>0, <1>1 DEF Unknown, InScope
  <1>2. CASE stack # << >>
    <2>1. Top.obj \in Crypts /\ js[Top.obj] = "live"
      BY <1>2, TopIsRunning DEF InScript, OnTop, FrameTyped
    <2> QED
      BY <1>0, <1>2, <2>1 DEF Unknown, InScope
  <1> QED
    BY <1>1, <1>2

LEMMA KeepPreserves ==
    ASSUME IInv, NEW o \in Objects, Keep(o)
    PROVE  IInv'
  <1> USE DEF Keep, stateVars, contextVars, threadVars
  <1>1. js[o] = "live" /\ \A i \in Running : stack[i].kind = "ctor" => stack[i].obj # o
    BY InScopeIsLive, InScopeIsNotUnderConstruction
  <1>2. TypeOK' /\ ScopeLive'
    BY <1>1 DEF IInv, TypeOK, ScopeLive, Born
  <1>3. FramesLive' /\ MakeFrames'
    BY DEF IInv, FramesLive, MakeFrames, Running, Born, FrameTyped
  <1>4. CtorFrames'
    BY <1>1 DEF IInv, CtorFrames, Unknown, Running
  <1>5. /\ ParentBorn' /\ StateOwners' /\ ContextOwners'
        /\ HandlesOwned' /\ DestructorOK' /\ WrapperCleared'
    BY DEF IInv, ParentBorn, StateOwners, ContextOwners, HandlesOwned,
           DestructorOK, WrapperCleared, Wrapped, Born
  <1> QED
    BY <1>2, <1>3, <1>4, <1>5 DEF IInv

LEMMA CapturePreserves ==
    ASSUME IInv, NEW m \in Crypts, NEW o \in Objects, Capture(m, o)
    PROVE  IInv'
  <1> USE DEF Capture, stateVars, contextVars, threadVars
  <1>1. /\ js[o] = "live" /\ js[m] = "live"
        /\ \A i \in Running : stack[i].kind = "ctor" => stack[i].obj # o
    BY InScopeIsLive, InScopeIsNotUnderConstruction
  <1>2. TypeOK' /\ ScopeLive'
    BY <1>1 DEF IInv, TypeOK, ScopeLive, Born
  <1>3. FramesLive' /\ MakeFrames'
    BY DEF IInv, FramesLive, MakeFrames, Running, Born, FrameTyped
  <1>4. CtorFrames'
    BY <1>1 DEF IInv, CtorFrames, Unknown, TypeOK, Running
  <1>5. /\ ParentBorn' /\ StateOwners' /\ ContextOwners'
        /\ HandlesOwned' /\ DestructorOK' /\ WrapperCleared'
    BY DEF IInv, ParentBorn, StateOwners, ContextOwners, HandlesOwned,
           DestructorOK, WrapperCleared, Wrapped, Born
  <1> QED
    BY <1>2, <1>3, <1>4, <1>5 DEF IInv

(***************************************************************************)
(* Construction.                                                           *)
(***************************************************************************)

LEMMA BeginCtorPreserves ==
    ASSUME IInv, NEW m \in Crypts, NEW names \in SUBSET Callbacks, BeginCtor(m, names)
    PROVE  IInv'
  <1> DEFINE f == Frame("ctor", m, None)
  <1> USE DEF contextVars
  <1>1. /\ js[m] = "unborn" /\ env = "running" /\ Push(f)
        /\ js' = [js EXCEPT ![m] = "live"]
        /\ stateRefs' = [stateRefs EXCEPT ![m] = {m}]
        /\ mongo_crypt' = [mongo_crypt EXCEPT ![m] = "open"]
        /\ js_wrapper' = [js_wrapper EXCEPT ![m] = "set"]
        /\ callbacks' = [callbacks EXCEPT ![m] = names]
        /\ UNCHANGED <<roots, reaches, context, parent, contextRefs, contextState,
                       destructor, env>>
    BY DEF BeginCtor, InScript
  <1>2. f \in Frames /\ FrameTyped(f) /\ f.kind = "ctor" /\ f.obj = m
    BY DEF Frame, Frames, FrameKinds, FrameTyped, Objects
  <1> HIDE DEF f
  <1>3. /\ stack' \in Seq(Frames)
        /\ Len(stack) \in Nat
        /\ Running' = Running \cup {Len(stack) + 1}
        /\ \A i \in Running : stack'[i] = stack[i]
        /\ stack'[Len(stack) + 1] = f
    BY <1>1, <1>2, PushFacts DEF IInv
  <1>4. TypeOK'
    BY <1>1, <1>3 DEF IInv, TypeOK, Stages, Handles, Objects
  <1>5. /\ js'[m] = "live" /\ js[m] = "unborn"
        /\ \A o \in Objects : o # m => js'[o] = js[o]
        /\ \A o \in Contexts \cup Requests : o # m /\ o \in Objects
    BY <1>1 DEF IInv, TypeOK, Objects
  <1>6. /\ Unknown(m)
        /\ reaches[m] = {}
        /\ \A i \in Running : stack[i].obj # m
        /\ stateRefs[m] = {}
    <2>1. /\ reaches[m] = {} /\ m \notin roots
          /\ \A n \in Crypts : js[n] = "live" => m \notin reaches[n]
      BY <1>1 DEF IInv, ScopeLive, Born
    <2>2. \A c \in Contexts : parent[c] # m
      BY <1>1 DEF IInv, ParentBorn, Born, Objects
    <2>3. \A i \in Running : stack[i].obj # m
      BY <1>1, FrameFacts
    <2>4. stateRefs[m] = {}
      <3>1. stateRefs[m] \subseteq Crypts \cup Contexts
        BY DEF IInv, TypeOK
      <3>2. \A n \in Crypts : n \notin stateRefs[m]
        BY <1>5 DEF IInv, StateOwners, Wrapped
      <3>3. \A c \in Contexts : c \notin stateRefs[m]
        BY <2>2 DEF IInv, StateOwners
      <3> QED
        BY <3>1, <3>2, <3>3
    <2> QED
      BY <2>1, <2>3, <2>4, <2>2 DEF Unknown
  <1>7. FramesLive'
    BY <1>1, <1>2, <1>5, FrameFacts, FramesLiveAfterPush
  <1>8. ScopeLive'
    BY <1>1, <1>5, <1>6 DEF IInv, ScopeLive, TypeOK, Objects, Born
  <1>9. MakeFrames'
    BY <1>1, <1>2, <1>5, MakeFramesAfterPush
  <1>10. CtorFrames'
    <2>1. \A n \in Crypts : Unknown(n) => Unknown(n)'
      BY <1>1, <1>5, <1>6 DEF Unknown, Objects
    <2>2. ASSUME NEW i \in Running, stack[i].kind = "ctor"
          PROVE  /\ Unknown(stack[i].obj)'
                 /\ \A j \in Running' : j < i => stack'[j].obj # stack'[i].obj
      <3>1. PICK n \in Crypts : n = stack[i].obj
        BY <2>2, FrameFacts DEF FrameTyped
      <3>2. Unknown(n)' /\ stack'[i].obj = n
        BY <1>3, <2>1, <2>2, <3>1 DEF IInv, CtorFrames
      <3>3. \A j \in Running' : j < i => j \in Running
        BY <1>3 DEF Running
      <3> QED
        BY <1>3, <2>2, <3>2, <3>3 DEF IInv, CtorFrames
    <2>3. \A j \in Running' : j < Len(stack) + 1 => stack'[j].obj # m
      BY <1>3, <1>6
    <2>4. Unknown(m)'
      BY <1>6, <2>1
    <2> QED
      <3>1. ASSUME NEW i \in Running', stack'[i].kind = "ctor"
            PROVE  /\ Unknown(stack[i].obj)'
                   /\ \A j \in Running' : j < i => stack'[j].obj # stack'[i].obj
        <4>1. CASE i \in Running
          BY <1>3, <2>2, <3>1, <4>1
        <4>2. CASE i = Len(stack) + 1
          <5>1. stack'[i].obj = m
            BY <1>2, <1>3, <4>2
          <5> QED
            BY <2>3, <2>4, <4>2, <5>1
        <4> QED
          BY <1>3, <4>1, <4>2
      <3> QED
        BY <3>1 DEF CtorFrames
  <1>11. ParentBorn' /\ ContextOwners'
    BY <1>1, <1>5 DEF IInv, ParentBorn, ContextOwners, Born, Wrapped, Objects
  <1>12. \A n \in Crypts : stateRefs'[n] = IF n = m THEN {m} ELSE stateRefs[n]
    BY <1>1 DEF IInv, TypeOK
  <1>13. StateOwners'
    BY <1>1, <1>5, <1>6, <1>12 DEF IInv, StateOwners, Unknown, Born, Wrapped, Objects
  <1>14. HandlesOwned'
    BY <1>1, <1>5, <1>12 DEF IInv, HandlesOwned, Born, Objects, TypeOK
  <1>15. DestructorOK'
    BY <1>1, <1>5, <1>12 DEF IInv, DestructorOK, Born, Objects, TypeOK
  <1>16. WrapperCleared'
    BY <1>1, <1>5, <1>12 DEF IInv, WrapperCleared, Wrapped, Objects, TypeOK
  <1> QED
    BY <1>4, <1>7, <1>8, <1>9, <1>10, <1>11, <1>13, <1>14, <1>15, <1>16 DEF IInv

LEMMA EndCtorPreserves ==
    ASSUME IInv, EndCtor
    PROVE  IInv'
  <1> USE DEF stateVars, contextVars
  <1>1. /\ stack # << >> /\ Top.kind = "ctor" /\ Pop /\ env = "running"
        /\ roots' = roots \cup {Top.obj}
        /\ UNCHANGED <<js, callbacks, reaches, stateVars, contextVars, contextState,
                       destructor, env>>
    BY DEF EndCtor, OnTop, InNative
  <1>2. Top.obj \in Crypts /\ js[Top.obj] = "live" /\ Len(stack) \in Running
    BY <1>1, TopIsRunning DEF FrameTyped
  <1>3. TypeOK' /\ ScopeLive'
    BY <1>1, <1>2, PopFacts DEF IInv, TypeOK, ScopeLive, Objects, Born
  <1>4. FramesLive'
    BY <1>1, FrameFacts, FramesLiveAfterPop
  <1>5. MakeFrames'
    BY <1>1, MakeFramesAfterPop
  <1>6. CtorFrames'
    <2>1. ASSUME NEW i \in Running \ {Len(stack)}, NEW m \in Crypts,
                 stack[i].kind = "ctor", stack[i].obj = m
          PROVE  Unknown(m)'
      <3>1. i < Len(stack) /\ Unknown(m)
        BY <1>1, <2>1 DEF Running, IInv, CtorFrames, TypeOK
      <3>2. m # Top.obj
        BY <1>1, <1>2, <2>1, <3>1 DEF IInv, CtorFrames, Top
      <3> QED
        BY <1>1, <3>1, <3>2 DEF Unknown
    <2> QED
      BY <1>1, <2>1, CtorFramesAfterPop
  <1>7. /\ ParentBorn' /\ StateOwners' /\ ContextOwners'
        /\ HandlesOwned' /\ DestructorOK' /\ WrapperCleared'
    BY <1>1 DEF IInv, ParentBorn, StateOwners, ContextOwners, HandlesOwned,
                DestructorOK, WrapperCleared, Wrapped, Born
  <1> QED
    BY <1>3, <1>4, <1>5, <1>6, <1>7 DEF IInv

LEMMA FailCtorPreserves ==
    ASSUME IInv, FailCtor
    PROVE  IInv'
  <1>1. /\ stack # << >> /\ Top.kind = "ctor" /\ Pop /\ env = "running"
        /\ destructor = NoPart
    BY DEF FailCtor, OnTop, InNative, Idle
  <1>2. PICK m \in Crypts : m = Top.obj
    BY <1>1, TopIsRunning DEF FrameTyped
  <1>3. js[m] = "live" /\ Len(stack) \in Running
    BY <1>1, <1>2, TopIsRunning
  <1>4. /\ Unknown(m)
        /\ \A i \in Running \ {Len(stack)} : i < Len(stack) /\ stack[i].obj # m
    <2>1. \A i \in Running \ {Len(stack)} : i < Len(stack)
      BY DEF Running, IInv, TypeOK
    <2> QED
      BY <1>1, <1>2, <1>3, <2>1 DEF IInv, CtorFrames, Top
  <1>5. stateRefs[m] = {m} /\ mongo_crypt[m] = "open"
    BY <1>3, <1>4 DEF IInv, StateOwners, HandlesOwned, TypeOK, Wrapped, Unknown
  <1>6. /\ js' = [js EXCEPT ![m] = "finalized"]
        /\ stateRefs' = [stateRefs EXCEPT ![m] = {}]
        /\ destructor' = Part("mongo_crypt", m)
        /\ UNCHANGED <<roots, callbacks, reaches, mongo_crypt, js_wrapper,
                       context, parent, contextRefs, contextState, env>>
    BY <1>2, <1>5 DEF FailCtor, ReleaseState, contextVars
  <1>7. TypeOK'
    BY <1>1, <1>6, PopFacts DEF IInv, TypeOK, Stages, Parts, Part, Objects
  <1>8. /\ js'[m] = "finalized"
        /\ \A o \in Objects : o # m => js'[o] = js[o]
        /\ \A o \in Contexts \cup Requests : o # m /\ o \in Objects
    BY <1>6 DEF IInv, TypeOK, Objects
  <1>9. \A n \in Crypts : stateRefs'[n] = IF n = m THEN {} ELSE stateRefs[n]
    BY <1>6 DEF IInv, TypeOK
  <1>10. /\ destructor = [at |-> "none", of |-> None]
         /\ destructor' = [at |-> "mongo_crypt", of |-> m]
    BY <1>1, <1>6 DEF NoPart, Part
  <1>11. FramesLive'
    BY <1>1, <1>4, <1>6, <1>8, FrameFacts, FramesLiveAfterPop
  <1>12. ScopeLive'
    BY <1>4, <1>6, <1>8 DEF IInv, ScopeLive, TypeOK, Objects, Unknown, Born
  <1>13. MakeFrames'
    BY <1>1, <1>6, <1>8, MakeFramesAfterPop
  <1>14. CtorFrames'
    <2>1. \A n \in Crypts : js'[n] = "live" => js[n] = "live"
      BY <1>6, <1>8 DEF Objects
    <2>2. \A n \in Crypts : Unknown(n) => Unknown(n)'
      BY <1>6, <2>1 DEF Unknown
    <2> QED
      BY <1>1, <2>2, CtorFramesAfterPop DEF IInv, CtorFrames
  <1>15. ParentBorn' /\ ContextOwners'
    BY <1>6, <1>8 DEF IInv, ParentBorn, ContextOwners, Born, Wrapped, Objects
  <1>16. StateOwners'
    BY <1>4, <1>6, <1>8, <1>9, <1>10 DEF IInv, StateOwners, Unknown, Born, Wrapped, Objects,
                                         Part
  <1>17. HandlesOwned'
    BY <1>5, <1>6, <1>8, <1>9, <1>10 DEF IInv, HandlesOwned, Born, Objects, Part
  <1>18. DestructorOK'
    BY <1>5, <1>6, <1>8, <1>9, <1>10 DEF DestructorOK, Born
  <1>19. WrapperCleared'
    BY <1>6, <1>8, <1>9 DEF IInv, WrapperCleared, Wrapped, Objects
  <1> QED
    BY <1>7, <1>11, <1>12, <1>13, <1>14, <1>15, <1>16, <1>17, <1>18, <1>19 DEF IInv

LEMMA BeginMakePreserves ==
    ASSUME IInv, NEW m \in Crypts, NEW c \in Contexts, BeginMake(m, c)
    PROVE  IInv'
  <1> DEFINE f == Frame("make", m, c)
  <1>1. /\ Push(f) /\ env = "running" /\ InScript /\ m \in InScope
        /\ context[c] = "none" /\ parent[c] = None /\ js[c] = "unborn"
        /\ context' = [context EXCEPT ![c] = "open"]
        /\ parent' = [parent EXCEPT ![c] = m]
        /\ destructor = NoPart
        /\ UNCHANGED <<heapVars, stateVars, contextRefs, contextState, destructor, env>>
    BY DEF BeginMake, InScript, Idle, IInv, ParentBorn, Born
  <1>2. /\ f \in Frames /\ FrameTyped(f)
        /\ f.kind = "make" /\ f.obj = m /\ f.arg = c
    BY DEF Frame, Frames, FrameKinds, FrameTyped, Objects
  <1>3. /\ js[m] = "live"
        /\ \A i \in Running : stack[i].kind = "ctor" => stack[i].obj # m
    BY <1>1, InScopeIsLive, InScopeIsNotUnderConstruction
  <1> HIDE DEF f
  <1>4. /\ Len(stack) \in Nat
        /\ stack' \in Seq(Frames)
        /\ Running' = Running \cup {Len(stack) + 1}
        /\ \A i \in Running : stack'[i] = stack[i]
        /\ stack'[Len(stack) + 1] = f
    BY <1>1, <1>2, PushFacts DEF IInv
  <1> USE DEF heapVars, stateVars
  <1>5. /\ context'[c] = "open" /\ parent'[c] = m
        /\ \A d \in Contexts : d # c => context'[d] = context[d] /\ parent'[d] = parent[d]
    BY <1>1 DEF IInv, TypeOK
  <1>6. TypeOK'
    BY <1>1, <1>4 DEF IInv, TypeOK, Handles
  <1>7. FramesLive'
    BY <1>1, <1>2, <1>3, FrameFacts, FramesLiveAfterPush
  <1>8. MakeFrames'
    <2>1. \A i \in Running : stack[i].kind = "make" =>
             stack[i].arg \in Contexts /\ stack[i].arg # c
      BY <1>1, FrameFacts DEF FrameTyped, IInv, MakeFrames
    <2>2. \A i \in Running' : stack'[i].kind = "make" =>
             /\ context'[stack'[i].arg] = "open"
             /\ parent'[stack'[i].arg] = stack'[i].obj
             /\ js'[stack'[i].arg] = "unborn"
      BY <1>1, <1>2, <1>4, <1>5, <2>1 DEF IInv, MakeFrames, Born
    <2>3. \A i, j \in Running' :
             stack'[i].kind = "make" /\ stack'[j].kind = "make" /\ i # j
                 => stack'[i].arg # stack'[j].arg
      BY <1>2, <1>4, <2>1 DEF IInv, MakeFrames
    <2>4. ASSUME NEW d \in Contexts, context'[d] = "open", ~Born(d)'
          PROVE  \E i \in Running' : stack'[i] = Frame("make", parent'[d], d)
      <3>1. CASE d = c
        BY <1>4, <1>5, <3>1 DEF f
      <3>2. CASE d # c
        BY <1>1, <1>4, <1>5, <2>4, <3>2 DEF IInv, MakeFrames, Born
      <3> QED
        BY <3>1, <3>2
    <2> QED
      BY <2>2, <2>3, <2>4 DEF MakeFrames, Born
  <1>9. CtorFrames'
    <2>1. \A n \in Crypts : Unknown(n) /\ n # m => Unknown(n)'
      BY <1>1, <1>5 DEF Unknown
    <2> QED
      BY <1>1, <1>2, <1>3, <2>1, CtorFramesAfterPush DEF IInv, CtorFrames
  <1>10. ScopeLive'
    BY <1>1 DEF IInv, ScopeLive, Born
  <1>11. ParentBorn'
    BY <1>1, <1>3, <1>5 DEF IInv, ParentBorn, Born
  <1>12. StateOwners'
    BY <1>1, <1>5 DEF IInv, StateOwners, Wrapped, Born
  <1>13. ContextOwners' /\ WrapperCleared'
    BY <1>1 DEF IInv, ContextOwners, WrapperCleared, Wrapped, Born
  <1>14. HandlesOwned'
    BY <1>1, <1>5 DEF IInv, HandlesOwned, Born
  <1>15. DestructorOK'
    BY <1>1 DEF IInv, DestructorOK, NoPart, Part
  <1> QED
    BY <1>6, <1>7, <1>8, <1>9, <1>10, <1>11, <1>12, <1>13, <1>14, <1>15 DEF IInv

\* The end of a make method: its context is no longer under construction.
LEMMA MakeFramesAfterMake ==
    ASSUME IInv, stack # << >>, Pop, Top.kind = "make",
           \A c \in Contexts : c # Top.arg => /\ context'[c] = context[c]
                                            /\ parent'[c] = parent[c]
                                            /\ js'[c] = js[c],
           context'[Top.arg] # "open" \/ js'[Top.arg] # "unborn"
    PROVE  MakeFrames'
  <1>1. /\ Running' = Running \ {Len(stack)}
        /\ Len(stack) \in Running
        /\ \A i \in Running' : stack'[i] = stack[i]
    BY PopFacts DEF IInv
  <1>2. \A i \in Running : stack[i].kind = "make" => stack[i].arg \in Contexts
    BY FrameFacts DEF FrameTyped
  <1>3. \A i \in Running' : stack[i].kind = "make" => stack[i].arg # Top.arg
    BY <1>1 DEF IInv, MakeFrames, Top
  <1>4. ASSUME NEW c \in Contexts, context'[c] = "open", ~Born(c)'
        PROVE  \E i \in Running' : stack'[i] = Frame("make", parent'[c], c)
    <2>1. c # Top.arg
      BY <1>4 DEF Born
    <2>2. PICK i \in Running : stack[i] = Frame("make", parent[c], c)
      BY <1>4, <2>1 DEF IInv, MakeFrames, Born
    <2>3. i # Len(stack)
      BY <2>1, <2>2 DEF Top, Frame
    <2> QED
      BY <1>1, <2>1, <2>2, <2>3
  <1>5. \A i \in Running' : stack'[i].kind = "make" =>
           /\ context'[stack'[i].arg] = "open"
           /\ parent'[stack'[i].arg] = stack'[i].obj
           /\ js'[stack'[i].arg] = "unborn"
    BY <1>1, <1>2, <1>3 DEF IInv, MakeFrames, Born
  <1>6. \A i, j \in Running' :
           stack'[i].kind = "make" /\ stack'[j].kind = "make" /\ i # j
               => stack'[i].arg # stack'[j].arg
    BY <1>1 DEF IInv, MakeFrames
  <1> QED
    BY <1>4, <1>5, <1>6 DEF MakeFrames, Born

LEMMA MakeTop ==
    ASSUME IInv, stack # << >>, Top.kind = "make"
    PROVE  /\ Top.obj \in Crypts /\ js[Top.obj] = "live"
           /\ Top.arg \in Contexts /\ context[Top.arg] = "open"
           /\ js[Top.arg] = "unborn" /\ parent[Top.arg] = Top.obj
  BY TopIsRunning DEF FrameTyped, IInv, MakeFrames, Top, Born

LEMMA FailMakePreserves ==
    ASSUME IInv, FailMake
    PROVE  IInv'
  <1>1. /\ stack # << >> /\ Top.kind = "make" /\ Pop /\ env = "running"
        /\ destructor = NoPart
        /\ context' = [context EXCEPT ![Top.arg] = "destroyed"]
        /\ UNCHANGED <<heapVars, stateVars, parent, contextRefs, contextState,
                       destructor, env>>
    BY DEF FailMake, DiscardContext, OnTop, InNative, Idle
  <1> USE DEF heapVars, stateVars
  <1>2. PICK c \in Contexts : c = Top.arg
    BY <1>1, MakeTop
  <1>3. /\ js[c] = "unborn" /\ context'[c] = "destroyed" /\ context[c] = "open"
        /\ \A d \in Contexts : d # c => context'[d] = context[d]
    BY <1>1, <1>2, MakeTop DEF IInv, TypeOK
  <1>4. TypeOK'
    BY <1>1, PopFacts DEF IInv, TypeOK, Handles
  <1>5. FramesLive'
    BY <1>1, FrameFacts, FramesLiveAfterPop
  <1>6. MakeFrames'
    BY <1>1, <1>2, <1>3, MakeFramesAfterMake
  <1>7. CtorFrames'
    <2>1. \A n \in Crypts : Unknown(n) => Unknown(n)'
      BY <1>1 DEF Unknown
    <2> QED
      BY <1>1, <2>1, CtorFramesAfterPop DEF IInv, CtorFrames
  <1>8. ScopeLive' /\ ContextOwners' /\ WrapperCleared'
    BY <1>1 DEF IInv, ScopeLive, ContextOwners, WrapperCleared, Wrapped, Born
  <1>9. ParentBorn' /\ StateOwners' /\ HandlesOwned'
    BY <1>1, <1>3 DEF IInv, ParentBorn, StateOwners, HandlesOwned, Wrapped, Born
  <1>10. DestructorOK'
    BY <1>1 DEF IInv, DestructorOK, NoPart, Part
  <1> QED
    BY <1>4, <1>5, <1>6, <1>7, <1>8, <1>9, <1>10 DEF IInv

LEMMA EndMakePreserves ==
    ASSUME IInv, EndMake
    PROVE  IInv'
  <1>1. /\ stack # << >> /\ Top.kind = "make" /\ Pop /\ env = "running"
        /\ destructor = NoPart
        /\ js' = [js EXCEPT ![Top.arg] = "live"]
        /\ contextRefs' = [contextRefs EXCEPT ![Top.arg] = {Top.arg}]
        /\ stateRefs' = [stateRefs EXCEPT ![Top.obj] = @ \cup {Top.arg}]
        /\ roots' = roots \cup {Top.arg}
        /\ UNCHANGED <<callbacks, reaches, mongo_crypt, js_wrapper, context, parent,
                       contextState, destructor, env>>
    BY DEF EndMake, ShareState, OnTop, InNative, Idle
  <1>2. PICK m \in Crypts, c \in Contexts : m = Top.obj /\ c = Top.arg
    BY <1>1, MakeTop
  <1>3. js[m] = "live" /\ js[c] = "unborn" /\ context[c] = "open" /\ parent[c] = m
    BY <1>1, <1>2, MakeTop
  <1>4. /\ js'[c] = "live"
        /\ \A o \in Objects : o # c => js'[o] = js[o]
        /\ \A n \in Crypts \cup Requests : n # c /\ n \in Objects
        /\ \A d \in Contexts : d \in Objects
    BY <1>1, <1>2 DEF IInv, TypeOK, Objects
  <1>5. /\ \A n \in Crypts : stateRefs'[n] = IF n = m THEN stateRefs[n] \cup {c} ELSE stateRefs[n]
        /\ \A d \in Contexts : contextRefs'[d] = IF d = c THEN {c} ELSE contextRefs[d]
    BY <1>1, <1>2 DEF IInv, TypeOK
  <1>6. TypeOK'
    <2>1. js' \in [Objects -> Stages] /\ roots' \in SUBSET Objects
      BY <1>1, <1>2 DEF IInv, TypeOK, Stages, Objects
    <2>2. /\ stateRefs' \in [Crypts -> SUBSET (Crypts \cup Contexts)]
          /\ contextRefs' \in [Contexts -> SUBSET (Contexts \cup Requests)]
      BY <1>1, <1>2 DEF IInv, TypeOK
    <2> QED
      BY <1>1, <2>1, <2>2, PopFacts DEF IInv, TypeOK
  <1>7. FramesLive'
    BY <1>1, <1>3, <1>4, FrameFacts, FramesLiveAfterPop
  <1>8. MakeFrames'
    BY <1>1, <1>2, <1>4, MakeFramesAfterMake
  <1>9. CtorFrames'
    <2>1. \A n \in Crypts : js'[n] = js[n] /\ n # c
      BY <1>4
    <2>2. \A n \in Crypts : Unknown(n) => Unknown(n)'
      BY <1>1, <1>2, <2>1 DEF Unknown
    <2> QED
      BY <1>1, <2>2, CtorFramesAfterPop DEF IInv, CtorFrames
  <1>10. ScopeLive'
    BY <1>1, <1>2, <1>3, <1>4 DEF IInv, ScopeLive, TypeOK, Born
  <1>11. ParentBorn'
    BY <1>1, <1>3, <1>4 DEF IInv, ParentBorn, Born, TypeOK
  <1>12. StateOwners'
    <2>1. /\ \A o \in Crypts : Wrapped(o)' <=> Wrapped(o)
          /\ \A d \in Contexts : Born(d)' <=> Born(d) \/ d = c
      BY <1>3, <1>4 DEF Wrapped, Born
    <2>2. c \notin Crypts /\ ~Born(c)
      BY <1>3 DEF Born, Objects
    <2>3. \A n, p \in Crypts : p \in stateRefs'[n] <=> p = n /\ Wrapped(n)'
      <3>1. \A n, p \in Crypts : p \in stateRefs'[n] <=> p \in stateRefs[n]
        BY <1>5, <2>2
      <3>2. \A n, p \in Crypts : p \in stateRefs[n] <=> p = n /\ Wrapped(n)
        BY DEF IInv, StateOwners
      <3> QED
        BY <2>1, <3>1, <3>2
    <2>4. ASSUME NEW n \in Crypts, NEW d \in Contexts
          PROVE  d \in stateRefs'[n] <=>
                    /\ parent'[d] = n /\ Born(d)'
                    /\ context'[d] = "open" \/ destructor' = Part("release", d)
      <3>1. d \in stateRefs'[n] <=> d \in stateRefs[n] \/ (d = c /\ n = m)
        BY <1>5
      <3>2. d \in stateRefs[n] <=>
               /\ parent[d] = n /\ Born(d)
               /\ context[d] = "open" \/ destructor = Part("release", d)
        BY DEF IInv, StateOwners
      <3>3. /\ parent' = parent /\ context' = context /\ destructor' = destructor
            /\ Born(d)' <=> Born(d) \/ d = c
        BY <1>1, <2>1
      <3> QED
        BY <1>3, <2>2, <3>1, <3>2, <3>3
    <2> QED
      BY <2>3, <2>4 DEF StateOwners
  <1>13. ContextOwners'
    <2>1. \A k \in Requests : contextState[k] = c => ~Wrapped(k)
      BY <1>3 DEF IInv, ContextOwners, HandlesOwned, Born
    <2> QED
      BY <1>1, <1>3, <1>4, <1>5, <2>1 DEF IInv, ContextOwners, Wrapped, Born
  <1>14. HandlesOwned'
    <2>1. stateRefs[m] # {}
      BY <1>3 DEF IInv, StateOwners, Wrapped
    <2>2. \A n \in Crypts : /\ Born(n)' <=> Born(n)
                            /\ stateRefs'[n] = {} <=> stateRefs[n] = {}
      BY <1>4, <1>5, <2>1 DEF Born
    <2>3. \A d \in Contexts : d # c => (Born(d)' <=> Born(d)) /\ contextRefs'[d] = contextRefs[d]
      BY <1>4, <1>5 DEF Born
    <2>4. contextRefs'[c] # {} /\ context'[c] = "open" /\ Born(c)'
      BY <1>1, <1>3, <1>4, <1>5 DEF Born
    <2>5. \A n \in Crypts :
             /\ stateRefs'[n] # {} => mongo_crypt'[n] = "open"
             /\ mongo_crypt'[n] = "open" /\ stateRefs'[n] = {}
                   => destructor' = Part("mongo_crypt", n)
             /\ ~Born(n)' => mongo_crypt'[n] = "none"
      BY <1>1, <2>2 DEF IInv, HandlesOwned
    <2>6. \A d \in Contexts :
             /\ contextRefs'[d] # {} => context'[d] = "open" /\ Born(d)'
             /\ context'[d] = "open" /\ Born(d)' /\ contextRefs'[d] = {}
                   => destructor' = Part("context", d)
      BY <1>1, <2>3, <2>4 DEF IInv, HandlesOwned
    <2> QED
      BY <2>5, <2>6 DEF HandlesOwned
  <1>15. DestructorOK'
    BY <1>1 DEF DestructorOK, NoPart, Part
  <1>16. WrapperCleared'
    <2>1. \A n \in Crypts : Wrapped(n)' <=> Wrapped(n)
      BY <1>4 DEF Wrapped
    <2>2. stateRefs[m] # {}
      BY <1>3 DEF IInv, StateOwners, Wrapped
    <2>3. \A n \in Crypts : stateRefs'[n] = {} <=> stateRefs[n] = {}
      BY <1>5, <2>2
    <2>4. \A n \in Crypts : js_wrapper[n] = "set" /\ ~Wrapped(n) => stateRefs[n] = {}
      BY DEF IInv, WrapperCleared
    <2> QED
      BY <1>1, <2>1, <2>3, <2>4 DEF WrapperCleared
  <1> QED
    BY <1>6, <1>7, <1>8, <1>9, <1>10, <1>11, <1>12, <1>13, <1>14, <1>15, <1>16 DEF IInv

LEMMA ReturnKMSRequestPreserves ==
    ASSUME IInv, NEW k \in Requests, ReturnKMSRequest(k)
    PROVE  IInv'
  <1>1. /\ stack # << >> /\ Top.kind = "call" /\ Pop /\ env = "running"
        /\ destructor = NoPart /\ js[k] = "unborn"
        /\ js' = [js EXCEPT ![k] = "live"]
        /\ contextState' = [contextState EXCEPT ![k] = Top.obj]
        /\ contextRefs' = [contextRefs EXCEPT ![Top.obj] = @ \cup {k}]
        /\ roots' = roots \cup {k}
        /\ UNCHANGED <<callbacks, reaches, stateVars, context, parent, destructor, env>>
    BY DEF ReturnKMSRequest, ShareContextState, OnTop, InNative, Idle
  <1> USE DEF stateVars
  <1>2. PICK c \in Contexts : c = Top.obj
    BY <1>1, TopIsRunning DEF FrameTyped
  <1>3. js[c] = "live" /\ c \in contextRefs[c]
    BY <1>1, <1>2, TopIsRunning DEF IInv, ContextOwners, Wrapped
  <1>4. /\ js'[k] = "live"
        /\ \A o \in Objects : o # k => js'[o] = js[o]
        /\ \A o \in Crypts \cup Contexts : o # k /\ o \in Objects
        /\ \A o \in Requests : o \in Objects
    BY <1>1 DEF IInv, TypeOK, Objects
  <1>5. /\ \A d \in Contexts : contextRefs'[d] = IF d = c THEN contextRefs[d] \cup {k}
                                                        ELSE contextRefs[d]
        /\ \A r \in Requests : contextState'[r] = IF r = k THEN c ELSE contextState[r]
    BY <1>1, <1>2 DEF IInv, TypeOK
  <1>6. TypeOK'
    <2>1. js' \in [Objects -> Stages] /\ roots' \in SUBSET Objects
      BY <1>1, <1>2 DEF IInv, TypeOK, Stages, Objects
    <2>2. /\ contextState' \in [Requests -> Contexts \cup {None}]
          /\ contextRefs' \in [Contexts -> SUBSET (Contexts \cup Requests)]
      BY <1>1, <1>2 DEF IInv, TypeOK
    <2> QED
      BY <1>1, <2>1, <2>2, PopFacts DEF IInv, TypeOK
  <1>7. FramesLive'
    BY <1>1, <1>4, FrameFacts, FramesLiveAfterPop
  <1>8. MakeFrames'
    BY <1>1, <1>4, MakeFramesAfterPop
  <1>9. CtorFrames'
    <2>1. \A n \in Crypts : js'[n] = js[n] /\ n # k
      BY <1>4
    <2>2. \A n \in Crypts : Unknown(n) => Unknown(n)'
      BY <1>1, <2>1 DEF Unknown
    <2> QED
      BY <1>1, <2>2, CtorFramesAfterPop DEF IInv, CtorFrames
  <1>10. ScopeLive'
    BY <1>1, <1>4 DEF IInv, ScopeLive, TypeOK, Born
  <1>11. ParentBorn' /\ StateOwners' /\ WrapperCleared'
    BY <1>1, <1>4 DEF IInv, ParentBorn, StateOwners, WrapperCleared, Born, Wrapped, TypeOK
  <1>12. ContextOwners'
    <2>1. /\ \A d \in Contexts : Wrapped(d)' <=> Wrapped(d)
          /\ \A r \in Requests : /\ Wrapped(r)' <=> Wrapped(r) \/ r = k
                                 /\ Born(r)' <=> Born(r) \/ r = k
          /\ ~Wrapped(k) /\ k \notin Contexts
      BY <1>1, <1>4 DEF Wrapped, Born, Objects
    <2>2. ASSUME NEW d \in Contexts, NEW e \in Contexts
          PROVE  e \in contextRefs'[d] <=> e = d /\ Wrapped(d)'
      <3>1. e \in contextRefs'[d] <=> e \in contextRefs[d]
        BY <1>5, <2>1
      <3>2. e \in contextRefs[d] <=> e = d /\ Wrapped(d)
        BY DEF IInv, ContextOwners
      <3> QED
        BY <2>1, <3>1, <3>2
    <2>3. ASSUME NEW d \in Contexts, NEW r \in Requests
          PROVE  r \in contextRefs'[d] <=> contextState'[r] = d /\ Wrapped(r)'
      <3>1. r \in contextRefs'[d] <=> r \in contextRefs[d] \/ (r = k /\ d = c)
        BY <1>5
      <3>2. r \in contextRefs[d] <=> contextState[r] = d /\ Wrapped(r)
        BY DEF IInv, ContextOwners
      <3> QED
        BY <1>5, <2>1, <3>1, <3>2
    <2>4. \A r \in Requests : Born(r)' => contextState'[r] \in Contexts
      BY <1>5, <2>1 DEF IInv, ContextOwners
    <2> QED
      BY <2>2, <2>3, <2>4 DEF ContextOwners
  <1>13. HandlesOwned'
    <2>1. \A o \in Crypts \cup Contexts : Born(o)' <=> Born(o)
      BY <1>4 DEF Born
    <2>2. \A d \in Contexts : contextRefs'[d] = {} <=> contextRefs[d] = {}
      BY <1>3, <1>5
    <2> QED
      BY <1>1, <2>1, <2>2 DEF IInv, HandlesOwned
  <1>14. DestructorOK'
    BY <1>1 DEF DestructorOK, NoPart, Part
  <1> QED
    BY <1>6, <1>7, <1>8, <1>9, <1>10, <1>11, <1>12, <1>13, <1>14 DEF IInv

(***************************************************************************)
(* Garbage collection, finalizers and destructors.                         *)
(***************************************************************************)

LEMMA CollectPreserves ==
    ASSUME IInv, NEW G \in SUBSET Objects, Collect(G)
    PROVE  IInv'
  <1> USE DEF stateVars, contextVars, threadVars
  <1>1. /\ \A o \in G : js[o] = "live"
        /\ G \cap (roots \cup OnStack) = {}
        /\ \A m \in Crypts \ G : js[m] = "live" => reaches[m] \cap G = {}
        /\ js' = [o \in Objects |-> IF o \in G THEN "collected" ELSE js[o]]
        /\ UNCHANGED <<roots, callbacks, reaches, stateVars, contextVars, contextState,
                       threadVars>>
    BY DEF Collect, Unreachable
  <1>2. /\ \A o \in Objects : js'[o] = IF o \in G THEN "collected" ELSE js[o]
        /\ \A o \in Crypts \cup Contexts \cup Requests : o \in Objects
    BY <1>1 DEF Objects
  <1>3. \A o \in Objects : /\ Wrapped(o)' <=> Wrapped(o)
                           /\ Born(o)' <=> Born(o)
                           /\ js'[o] = "live" => js[o] = "live" /\ o \notin G
    BY <1>1, <1>2 DEF Wrapped, Born
  <1>4. TypeOK'
    <2>1. js' \in [Objects -> Stages]
      BY <1>1 DEF IInv, TypeOK, Stages
    <2> QED
      BY <1>1, <2>1 DEF IInv, TypeOK
  <1>5. FramesLive'
    <2>1. \A i \in Running : stack[i].obj \in Objects /\ stack[i].obj \notin G
      BY <1>1, FrameFacts DEF OnStack, Running
    <2> QED
      BY <1>1, <1>2, <2>1 DEF IInv, FramesLive, Running
  <1>6. ScopeLive'
    BY <1>1, <1>2, <1>3 DEF IInv, ScopeLive, TypeOK
  <1>7. MakeFrames'
    <2>1. \A i \in Running : stack[i].kind = "make" => stack[i].arg \in Contexts
      BY FrameFacts DEF FrameTyped
    <2>2. /\ context' = context /\ parent' = parent /\ stack' = stack
          /\ Running' = Running
          /\ \A c \in Contexts : Born(c)' <=> Born(c)
      BY <1>1, <1>2, <1>3 DEF Running
    <2>3. \A i \in Running' : stack'[i].kind = "make" =>
             /\ context'[stack'[i].arg] = "open"
             /\ parent'[stack'[i].arg] = stack'[i].obj
             /\ js'[stack'[i].arg] = "unborn"
      BY <1>2, <2>1, <2>2 DEF IInv, MakeFrames, Born
    <2>4. \A i, j \in Running' :
             stack'[i].kind = "make" /\ stack'[j].kind = "make" /\ i # j
                 => stack'[i].arg # stack'[j].arg
      BY <2>2 DEF IInv, MakeFrames
    <2>5. \A c \in Contexts : context'[c] = "open" /\ ~Born(c)' =>
             \E i \in Running' : stack'[i] = Frame("make", parent'[c], c)
      BY <2>2 DEF IInv, MakeFrames
    <2> QED
      BY <2>3, <2>4, <2>5 DEF MakeFrames, Born
  <1>8. CtorFrames'
    <2>1. \A n \in Crypts : Unknown(n) => Unknown(n)'
      BY <1>1, <1>2, <1>3 DEF Unknown
    <2>2. \A i \in Running : stack[i].kind = "ctor" => stack[i].obj \in Crypts
      BY FrameFacts DEF FrameTyped
    <2> QED
      BY <1>1, <2>1, <2>2 DEF IInv, CtorFrames, Running
  <1>9. ParentBorn'
    BY <1>1, <1>2, <1>3 DEF IInv, ParentBorn
  <1>10. StateOwners' /\ ContextOwners'
    BY <1>1, <1>2, <1>3 DEF IInv, StateOwners, ContextOwners
  <1>11. HandlesOwned' /\ WrapperCleared'
    BY <1>1, <1>2, <1>3 DEF IInv, HandlesOwned, WrapperCleared
  <1>12. DestructorOK'
    BY <1>1, <1>2, <1>3 DEF IInv, DestructorOK, NoPart, Part, TypeOK
  <1> QED
    BY <1>4, <1>5, <1>6, <1>7, <1>8, <1>9, <1>10, <1>11, <1>12 DEF IInv

LEMMA TearDownPreserves ==
    ASSUME IInv, TearDown
    PROVE  IInv'
  <1> USE DEF stateVars, contextVars
  <1>1. /\ stack = << >> /\ env' = "exiting" /\ roots' = {}
        /\ UNCHANGED <<js, callbacks, reaches, stateVars, contextVars, contextState,
                       stack, destructor>>
    BY DEF TearDown
  <1>2. TypeOK' /\ FramesLive' /\ ScopeLive'
    BY <1>1 DEF IInv, TypeOK, FramesLive, ScopeLive, Running, Born
  <1>3. MakeFrames' /\ CtorFrames'
    BY <1>1 DEF IInv, MakeFrames, CtorFrames, Unknown, Running, Born
  <1>4. ParentBorn' /\ StateOwners' /\ ContextOwners'
    BY <1>1 DEF IInv, ParentBorn, StateOwners, ContextOwners, Wrapped, Born
  <1>5. HandlesOwned' /\ DestructorOK' /\ WrapperCleared'
    BY <1>1 DEF IInv, HandlesOwned, DestructorOK, WrapperCleared, Wrapped, Born
  <1> QED
    BY <1>2, <1>3, <1>4, <1>5 DEF IInv

\* What the finalizers of the three classes have in common.
LEMMA FinalizerFacts ==
    ASSUME IInv, NEW o \in Objects, Finalizable(o),
           js' = [js EXCEPT ![o] = "finalized"],
           UNCHANGED <<roots, callbacks, reaches, context, parent, stack, env>>
    PROVE  /\ destructor = [at |-> "none", of |-> None]
           /\ Running = {} /\ Wrapped(o)
           /\ \A p \in Objects : js'[p] = IF p = o THEN "finalized" ELSE js[p]
           /\ \A p \in Objects : Born(p)' <=> Born(p)
           /\ \A p \in Objects : Wrapped(p)' <=> Wrapped(p) /\ p # o
           /\ js' \in [Objects -> Stages]
           /\ FramesLive' /\ ScopeLive' /\ MakeFrames' /\ CtorFrames' /\ ParentBorn'
  <1>1. /\ destructor = [at |-> "none", of |-> None]
        /\ stack = << >>
        /\ js[o] \in {"live", "collected"}
        /\ env = "running" => js[o] = "collected"
    BY DEF Finalizable, Idle, NoPart, Part
  <1>2. Running = {} /\ Running' = {}
    BY <1>1 DEF Running
  <1>3. \A p \in Objects : js'[p] = IF p = o THEN "finalized" ELSE js[p]
    BY DEF IInv, TypeOK
  <1>4. \A p \in Objects : Born(p)' <=> Born(p)
    BY <1>1, <1>3 DEF Born
  <1>5. \A p \in Objects : Wrapped(p)' <=> Wrapped(p) /\ p # o
    BY <1>3 DEF Wrapped
  <1>6. Wrapped(o)
    BY <1>1 DEF Wrapped
  <1>7. js' \in [Objects -> Stages]
    BY DEF IInv, TypeOK, Stages
  <1>8. \A p \in Crypts \cup Contexts \cup Requests : p \in Objects
    BY DEF Objects
  <1>9. FramesLive'
    BY <1>1, <1>2 DEF IInv, FramesLive
  <1>10. ScopeLive'
    BY <1>1, <1>3, <1>4, <1>8 DEF IInv, ScopeLive, TypeOK
  <1>11. MakeFrames' /\ CtorFrames'
    BY <1>2, <1>4, <1>8 DEF IInv, MakeFrames, CtorFrames
  <1>12. ParentBorn'
    BY <1>4, <1>8 DEF IInv, ParentBorn
  <1> QED
    BY <1>1, <1>2, <1>3, <1>4, <1>5, <1>6, <1>7, <1>9, <1>10, <1>11, <1>12

LEMMA DestroyMongoCryptPreserves ==
    ASSUME IInv, NEW m \in Crypts, DestroyMongoCrypt(m)
    PROVE  IInv'
  <1>1. /\ Finalizable(m) /\ m \in Objects
        /\ js' = [js EXCEPT ![m] = "finalized"]
        /\ js_wrapper' = [js_wrapper EXCEPT ![m] = "null"]
        /\ stateRefs' = [stateRefs EXCEPT ![m] = @ \ {m}]
        /\ destructor' = IF stateRefs[m] \subseteq {m}
                         THEN Part("mongo_crypt", m) ELSE NoPart
        /\ UNCHANGED <<roots, callbacks, reaches, mongo_crypt, context, parent,
                       contextRefs, contextState, stack, env>>
    BY DEF DestroyMongoCrypt, ClearWrapper, ReleaseState, contextVars, Objects
  <1>2. /\ destructor = [at |-> "none", of |-> None]
        /\ Running = {} /\ Wrapped(m)
        /\ \A p \in Objects : Born(p)' <=> Born(p)
        /\ \A p \in Objects : Wrapped(p)' <=> Wrapped(p) /\ p # m
        /\ js' \in [Objects -> Stages]
        /\ FramesLive' /\ ScopeLive' /\ MakeFrames' /\ CtorFrames' /\ ParentBorn'
    BY <1>1, FinalizerFacts
  <1>3. \A p \in Crypts \cup Contexts \cup Requests : p \in Objects
    BY DEF Objects
  <1>4. /\ \A n \in Crypts : stateRefs'[n] = IF n = m THEN stateRefs[m] \ {m}
                                                      ELSE stateRefs[n]
        /\ \A n \in Crypts : js_wrapper'[n] = IF n = m THEN "null" ELSE js_wrapper[n]
    BY <1>1 DEF IInv, TypeOK
  <1>5. m \in stateRefs[m] /\ mongo_crypt[m] = "open" /\ Born(m)
    BY <1>2 DEF IInv, StateOwners, HandlesOwned, Wrapped, Born
  <1>6. destructor' = IF stateRefs'[m] = {} THEN [at |-> "mongo_crypt", of |-> m]
                                            ELSE [at |-> "none", of |-> None]
    BY <1>1, <1>4 DEF NoPart, Part
  <1>7. TypeOK'
    <2>1. /\ stateRefs' \in [Crypts -> SUBSET (Crypts \cup Contexts)]
          /\ js_wrapper' \in [Crypts -> {"null", "set"}]
      BY <1>1 DEF IInv, TypeOK
    <2>2. destructor' \in Parts
      BY <1>6 DEF Parts
    <2> QED
      BY <1>1, <1>2, <2>1, <2>2 DEF IInv, TypeOK
  <1>8. StateOwners'
    BY <1>1, <1>2, <1>3, <1>4, <1>6 DEF IInv, StateOwners, Part
  <1>9. ContextOwners'
    BY <1>1, <1>2, <1>3 DEF IInv, ContextOwners
  <1>10. HandlesOwned'
    BY <1>1, <1>2, <1>3, <1>4, <1>5, <1>6 DEF IInv, HandlesOwned, Part
  <1>11. DestructorOK'
    BY <1>1, <1>2, <1>3, <1>4, <1>5, <1>6 DEF DestructorOK, NoPart, Part
  <1>12. WrapperCleared'
    BY <1>2, <1>3, <1>4 DEF IInv, WrapperCleared
  <1> QED
    BY <1>2, <1>7, <1>8, <1>9, <1>10, <1>11, <1>12 DEF IInv

\* ~MongoCryptContext and ~MongoCryptKMSRequest: o owned the ContextState of c.
LEMMA ReleaseContextStatePreserves ==
    ASSUME IInv, NEW c \in Contexts, NEW o \in Contexts \cup Requests,
           o \in contextRefs[c], \A d \in Contexts : o \in contextRefs[d] => d = c,
           Finalizable(o), js' = [js EXCEPT ![o] = "finalized"],
           ReleaseContextState(c, o),
           UNCHANGED <<roots, callbacks, reaches, stateVars, context, parent,
                       contextState, stack, env>>
    PROVE  IInv'
  <1> USE DEF stateVars
  <1>1. /\ o \in Objects /\ o \notin Crypts
        /\ \A p \in Crypts \cup Contexts \cup Requests : p \in Objects
    BY DEF Objects
  <1>2. /\ destructor = [at |-> "none", of |-> None]
        /\ Running = {} /\ Wrapped(o)
        /\ \A p \in Objects : Born(p)' <=> Born(p)
        /\ \A p \in Objects : Wrapped(p)' <=> Wrapped(p) /\ p # o
        /\ js' \in [Objects -> Stages]
        /\ FramesLive' /\ ScopeLive' /\ MakeFrames' /\ CtorFrames' /\ ParentBorn'
    BY <1>1, FinalizerFacts
  <1>3. /\ contextRefs' = [contextRefs EXCEPT ![c] = @ \ {o}]
        /\ destructor' = IF contextRefs[c] \subseteq {o}
                         THEN Part("context", c) ELSE NoPart
    BY DEF ReleaseContextState
  <1>4. \A d \in Contexts : contextRefs'[d] = IF d = c THEN contextRefs[c] \ {o}
                                                       ELSE contextRefs[d]
    BY <1>3 DEF IInv, TypeOK
  <1>5. context[c] = "open" /\ Born(c)
    BY DEF IInv, HandlesOwned
  <1>6. destructor' = IF contextRefs'[c] = {} THEN [at |-> "context", of |-> c]
                                              ELSE [at |-> "none", of |-> None]
    BY <1>3, <1>4 DEF NoPart, Part
  <1>7. TypeOK'
    <2>1. contextRefs' \in [Contexts -> SUBSET (Contexts \cup Requests)]
      BY <1>3 DEF IInv, TypeOK
    <2>2. destructor' \in Parts
      BY <1>6 DEF Parts
    <2> QED
      BY <1>2, <2>1, <2>2 DEF IInv, TypeOK
  <1>8. StateOwners'
    BY <1>1, <1>2, <1>6 DEF IInv, StateOwners, Part
  <1>9. ContextOwners'
    <2>1. \A d, e \in Contexts : e \in contextRefs'[d] <=> e = d /\ Wrapped(d)'
      BY <1>1, <1>2, <1>4 DEF IInv, ContextOwners
    <2>2. \A d \in Contexts, r \in Requests :
             r \in contextRefs'[d] <=> contextState'[r] = d /\ Wrapped(r)'
      BY <1>1, <1>2, <1>4 DEF IInv, ContextOwners
    <2>3. \A r \in Requests : Born(r)' => contextState'[r] \in Contexts
      BY <1>1, <1>2 DEF IInv, ContextOwners
    <2> QED
      BY <2>1, <2>2, <2>3 DEF ContextOwners
  <1>10. HandlesOwned'
    BY <1>1, <1>2, <1>4, <1>5, <1>6 DEF IInv, HandlesOwned, Part
  <1>11. DestructorOK'
    BY <1>1, <1>2, <1>4, <1>5, <1>6 DEF DestructorOK, NoPart, Part
  <1>12. WrapperCleared'
    BY <1>1, <1>2 DEF IInv, WrapperCleared
  <1> QED
    BY <1>2, <1>7, <1>8, <1>9, <1>10, <1>11, <1>12 DEF IInv

LEMMA DestroyMongoCryptContextPreserves ==
    ASSUME IInv, NEW c \in Contexts, DestroyMongoCryptContext(c)
    PROVE  IInv'
  <1>1. Wrapped(c)
    BY DEF DestroyMongoCryptContext, Finalizable, Wrapped
  <1>2. c \in contextRefs[c] /\ \A d \in Contexts : c \in contextRefs[d] => d = c
    BY <1>1 DEF IInv, ContextOwners
  <1> QED
    BY <1>2, ReleaseContextStatePreserves DEF DestroyMongoCryptContext

LEMMA DestroyMongoCryptKMSRequestPreserves ==
    ASSUME IInv, NEW k \in Requests, DestroyMongoCryptKMSRequest(k)
    PROVE  IInv'
  <1>1. Wrapped(k) /\ Born(k)
    BY DEF DestroyMongoCryptKMSRequest, Finalizable, Wrapped, Born
  <1>2. PICK c \in Contexts : c = contextState[k]
    BY <1>1 DEF IInv, ContextOwners
  <1>3. k \in contextRefs[c] /\ \A d \in Contexts : k \in contextRefs[d] => d = c
    BY <1>1, <1>2 DEF IInv, ContextOwners
  <1> QED
    BY <1>2, <1>3, ReleaseContextStatePreserves DEF DestroyMongoCryptKMSRequest

\* The steps of a destructor leave the heap and the thread alone.
LEMMA HeapUnchanged ==
    ASSUME IInv, UNCHANGED <<heapVars, stack, env, parent>>,
           \A c \in Contexts : context'[c] = "none" <=> context[c] = "none",
           \A c \in Contexts : ~Born(c) => context'[c] = context[c]
    PROVE  FramesLive' /\ ScopeLive' /\ MakeFrames' /\ CtorFrames' /\ ParentBorn'
  <1> USE DEF heapVars
  <1>1. /\ FramesLive' /\ ScopeLive' /\ CtorFrames'
    BY DEF IInv, FramesLive, ScopeLive, CtorFrames, Unknown, Running, Born
  <1>2. MakeFrames'
    <2>1. \A i \in Running : stack[i].kind = "make" => stack[i].arg \in Contexts
      BY FrameFacts DEF FrameTyped
    <2> QED
      BY <2>1 DEF IInv, MakeFrames, Running, Born
  <1>3. ParentBorn'
    BY DEF IInv, ParentBorn, Born
  <1> QED
    BY <1>1, <1>2, <1>3

LEMMA DestroyNativeContextPreserves ==
    ASSUME IInv, DestroyNativeContext
    PROVE  IInv'
  <1> USE DEF heapVars, stateVars
  <1>1. PICK c \in Contexts : c = destructor.of
    BY DEF DestroyNativeContext, IInv, DestructorOK
  <1>2. context[c] = "open" /\ Born(c) /\ contextRefs[c] = {} /\ destructor.at = "context"
    BY <1>1 DEF DestroyNativeContext, IInv, DestructorOK
  <1>3. /\ context' = [context EXCEPT ![c] = "destroyed"]
        /\ destructor' = [at |-> "release", of |-> c]
        /\ UNCHANGED <<heapVars, stateVars, parent, contextRefs, contextState, stack, env>>
    BY <1>1 DEF DestroyNativeContext, Part
  <1>4. \A d \in Contexts : context'[d] = IF d = c THEN "destroyed" ELSE context[d]
    BY <1>3 DEF IInv, TypeOK
  <1>5. TypeOK'
    <2>1. destructor' \in Parts
      BY <1>3 DEF Parts
    <2> QED
      BY <1>3, <2>1 DEF IInv, TypeOK, Handles
  <1>6. FramesLive' /\ ScopeLive' /\ MakeFrames' /\ CtorFrames' /\ ParentBorn'
    BY <1>2, <1>3, <1>4, HeapUnchanged
  <1>7. StateOwners'
    BY <1>1, <1>2, <1>3, <1>4 DEF IInv, StateOwners, Wrapped, Born, Part
  <1>8. ContextOwners' /\ WrapperCleared'
    BY <1>3 DEF IInv, ContextOwners, WrapperCleared, Wrapped, Born
  <1>9. HandlesOwned'
    <2>1. destructor # Part("mongo_crypt", c) /\ \A m \in Crypts : destructor # Part("mongo_crypt", m)
      BY <1>2 DEF Part
    <2>2. \A m \in Crypts : /\ stateRefs[m] # {} => mongo_crypt[m] = "open"
                            /\ mongo_crypt[m] = "open" => stateRefs[m] # {}
                            /\ ~Born(m) => mongo_crypt[m] = "none"
      BY <2>1 DEF IInv, HandlesOwned
    <2>3. \A d \in Contexts : d # c => destructor # Part("context", d)
      BY <1>1 DEF Part
    <2>4. \A d \in Contexts : d # c =>
             /\ contextRefs[d] # {} => context[d] = "open" /\ Born(d)
             /\ context[d] = "open" /\ Born(d) => contextRefs[d] # {}
      BY <2>3 DEF IInv, HandlesOwned
    <2> QED
      BY <1>2, <1>3, <1>4, <2>2, <2>4 DEF HandlesOwned, Born
  <1>10. DestructorOK'
    BY <1>2, <1>3, <1>4 DEF DestructorOK, Born
  <1> QED
    BY <1>5, <1>6, <1>7, <1>8, <1>9, <1>10 DEF IInv

LEMMA ReleaseMongoCryptPreserves ==
    ASSUME IInv, ReleaseMongoCrypt
    PROVE  IInv'
  <1> USE DEF heapVars, contextVars
  <1>1. PICK c \in Contexts : c = destructor.of
    BY DEF ReleaseMongoCrypt, IInv, DestructorOK
  <1>2. context[c] = "destroyed" /\ Born(c) /\ destructor.at = "release"
    BY <1>1 DEF ReleaseMongoCrypt, IInv, DestructorOK
  <1>3. PICK m \in Crypts : m = parent[c]
    BY <1>2 DEF IInv, ParentBorn
  <1>4. /\ stateRefs' = [stateRefs EXCEPT ![m] = @ \ {c}]
        /\ destructor' = IF stateRefs[m] \subseteq {c} THEN Part("mongo_crypt", m) ELSE NoPart
        /\ UNCHANGED <<heapVars, mongo_crypt, js_wrapper, contextVars, contextState,
                       stack, env>>
    BY <1>1, <1>3 DEF ReleaseMongoCrypt, ReleaseState
  <1>5. \A n \in Crypts : stateRefs'[n] = IF n = m THEN stateRefs[m] \ {c} ELSE stateRefs[n]
    BY <1>4 DEF IInv, TypeOK
  <1>6. destructor' = IF stateRefs'[m] = {} THEN [at |-> "mongo_crypt", of |-> m]
                                            ELSE [at |-> "none", of |-> None]
    BY <1>4, <1>5 DEF NoPart, Part
  <1>7. destructor = [at |-> "release", of |-> c]
    BY <1>1, <1>2 DEF IInv, TypeOK, Parts
  <1>8. c \in stateRefs[m] /\ mongo_crypt[m] = "open" /\ Born(m)
    BY <1>2, <1>3, <1>7 DEF IInv, StateOwners, HandlesOwned, ParentBorn, Part
  <1>9. TypeOK'
    <2>1. destructor' \in Parts
      BY <1>6 DEF Parts
    <2>2. stateRefs' \in [Crypts -> SUBSET (Crypts \cup Contexts)]
      BY <1>4 DEF IInv, TypeOK
    <2> QED
      BY <1>4, <2>1, <2>2 DEF IInv, TypeOK
  <1>10. FramesLive' /\ ScopeLive' /\ MakeFrames' /\ CtorFrames' /\ ParentBorn'
    BY <1>4, HeapUnchanged
  <1>11. StateOwners'
    <2>1. \A n, p \in Crypts : p \in stateRefs'[n] <=> p = n /\ Wrapped(n)'
      BY <1>4, <1>5 DEF IInv, StateOwners, Wrapped
    <2>2. ASSUME NEW n \in Crypts, NEW d \in Contexts
          PROVE  d \in stateRefs'[n] <=>
                    /\ parent'[d] = n /\ Born(d)'
                    /\ context'[d] = "open" \/ destructor' = Part("release", d)
      <3>1. destructor' # Part("release", d) /\ (destructor = Part("release", d) <=> d = c)
        BY <1>6, <1>7 DEF Part
      <3>2. Born(d)' <=> Born(d)
        BY <1>4 DEF Born
      <3>3. CASE d = c
        BY <1>2, <1>3, <1>4, <1>5, <3>1, <3>3 DEF IInv, StateOwners
      <3>4. CASE d # c
        BY <1>4, <1>5, <3>1, <3>2, <3>4 DEF IInv, StateOwners
      <3> QED
        BY <3>3, <3>4
    <2> QED
      BY <2>1, <2>2 DEF StateOwners
  <1>12. ContextOwners'
    BY <1>4 DEF IInv, ContextOwners, Wrapped, Born
  <1>13. HandlesOwned'
    BY <1>4, <1>5, <1>6, <1>7, <1>8 DEF IInv, HandlesOwned, Born, Part
  <1>14. DestructorOK'
    BY <1>4, <1>5, <1>6, <1>8 DEF DestructorOK, NoPart, Part, Born
  <1>15. WrapperCleared'
    BY <1>4, <1>5 DEF IInv, WrapperCleared, Wrapped
  <1> QED
    BY <1>9, <1>10, <1>11, <1>12, <1>13, <1>14, <1>15 DEF IInv

LEMMA DestroyNativeCryptPreserves ==
    ASSUME IInv, DestroyNativeCrypt
    PROVE  IInv'
  <1> USE DEF heapVars, contextVars
  <1>1. PICK m \in Crypts : m = destructor.of
    BY DEF DestroyNativeCrypt, IInv, DestructorOK
  <1>2. mongo_crypt[m] = "open" /\ Born(m) /\ stateRefs[m] = {} /\ destructor.at = "mongo_crypt"
    BY <1>1 DEF DestroyNativeCrypt, IInv, DestructorOK
  <1>3. /\ mongo_crypt' = [mongo_crypt EXCEPT ![m] = "destroyed"]
        /\ destructor' = [at |-> "none", of |-> None]
        /\ UNCHANGED <<heapVars, js_wrapper, stateRefs, contextVars, contextState,
                       stack, env>>
    BY <1>1 DEF DestroyNativeCrypt, NoPart, Part
  <1>4. \A n \in Crypts : mongo_crypt'[n] = IF n = m THEN "destroyed" ELSE mongo_crypt[n]
    BY <1>3 DEF IInv, TypeOK
  <1>5. destructor = [at |-> "mongo_crypt", of |-> m]
    BY <1>1, <1>2 DEF IInv, TypeOK, Parts
  <1>6. TypeOK'
    <2>1. destructor' \in Parts
      BY <1>3 DEF Parts
    <2> QED
      BY <1>3, <2>1 DEF IInv, TypeOK, Handles
  <1>7. FramesLive' /\ ScopeLive' /\ MakeFrames' /\ CtorFrames' /\ ParentBorn'
    BY <1>3, HeapUnchanged
  <1>8. StateOwners'
    BY <1>3, <1>5 DEF IInv, StateOwners, Wrapped, Born, Part
  <1>9. ContextOwners' /\ WrapperCleared'
    BY <1>3 DEF IInv, ContextOwners, WrapperCleared, Wrapped, Born
  <1>10. HandlesOwned'
    BY <1>2, <1>3, <1>4, <1>5 DEF IInv, HandlesOwned, Born, Part
  <1>11. DestructorOK'
    BY <1>3 DEF DestructorOK, NoPart, Part
  <1> QED
    BY <1>6, <1>7, <1>8, <1>9, <1>10, <1>11 DEF IInv

(***************************************************************************)
(* The invariant, and what follows from it.                                *)
(***************************************************************************)

LEMMA StepPreservesInvariant == IInv /\ [Next]_vars => IInv'
  <1> SUFFICES ASSUME IInv, [Next]_vars
               PROVE  IInv'
    OBVIOUS
  <1>1. CASE ScriptStep
    BY <1>1, BeginCtorPreserves, BeginMakePreserves, BeginCallPreserves,
       BeginKMSCallPreserves, DropPreserves, KeepPreserves, CapturePreserves
       DEF ScriptStep
  <1>2. CASE NativeReturn
    BY <1>2, EndCtorPreserves, FailCtorPreserves, EndMakePreserves, FailMakePreserves,
       ReturnPreserves, ReturnKMSRequestPreserves DEF NativeReturn
  <1>3. CASE NativeCallback \/ CallbackReturn
    BY <1>3, CallbackPreserves, ReturnPreserves DEF NativeCallback
  <1>4. CASE CollectGarbage \/ TearDown
    BY <1>4, CollectPreserves, TearDownPreserves DEF CollectGarbage
  <1>5. CASE Finalizer
    BY <1>5, DestroyMongoCryptPreserves, DestroyMongoCryptContextPreserves,
       DestroyMongoCryptKMSRequestPreserves DEF Finalizer
  <1>6. CASE DestructorStep
    BY <1>6, DestroyNativeContextPreserves, ReleaseMongoCryptPreserves,
       DestroyNativeCryptPreserves DEF DestructorStep
  <1>7. CASE Exited \/ UNCHANGED vars
    BY <1>7, StutterPreserves DEF Exited
  <1> QED
    BY <1>1, <1>2, <1>3, <1>4, <1>5, <1>6, <1>7 DEF Next

\* The ownership of State and ContextState, with all it depends on, holds in
\* every reachable state: the inductive invariant behind the theorems below.
THEOREM InvariantHolds == Spec => []IInv
  <1>1. Init => IInv
    BY InitInvariant
  <1>2. IInv /\ [Next]_vars => IInv'
    BY StepPreservesInvariant
  <1> QED
    BY <1>1, <1>2, PTL DEF Spec

\* No step of the wrappers, the collector or a destructor takes a variable out
\* of its type; in particular a destructor works on the struct it was started for.
THEOREM TypeCorrect == Spec => []TypeOK
  <1>1. IInv => TypeOK
    BY DEF IInv
  <1> QED
    BY <1>1, InvariantHolds, PTL

\* The wrappers own the native handles below them (mongocrypt.h:59-63, 98,
\* 109-113, 157): a handle a wrapper can still be asked to use is open.
LEMMA InvariantImpliesOwnership == IInv => WrappersOwnHandles
  <1> SUFFICES ASSUME IInv
               PROVE  WrappersOwnHandles
    OBVIOUS
  <1>1. \A m \in Crypts : Wrapped(m) => mongo_crypt[m] = "open"
    <2>1. \A m \in Crypts : Wrapped(m) => m \in stateRefs[m]
      BY DEF IInv, StateOwners
    <2> QED
      BY <2>1 DEF IInv, HandlesOwned
  <1>2. \A c \in Contexts : Wrapped(c) => context[c] = "open"
    <2>1. \A c \in Contexts : Wrapped(c) => c \in contextRefs[c]
      BY DEF IInv, ContextOwners
    <2> QED
      BY <2>1 DEF IInv, HandlesOwned
  <1>3. ASSUME NEW k \in Requests, Wrapped(k)
        PROVE  context[contextState[k]] = "open"
    <2>1. PICK c \in Contexts : c = contextState[k]
      BY <1>3 DEF IInv, ContextOwners, Wrapped, Born
    <2>2. k \in contextRefs[c]
      BY <1>3, <2>1 DEF IInv, ContextOwners
    <2> QED
      BY <2>1, <2>2 DEF IInv, HandlesOwned
  <1> QED
    BY <1>1, <1>2, <1>3 DEF WrappersOwnHandles

THEOREM OwnershipHolds == Spec => []WrappersOwnHandles
  BY InvariantHolds, InvariantImpliesOwnership, PTL

\* An open context has a MongoCrypt whose handle is open: the ContextState that
\* holds it owns the State, or the make method that holds it has the MongoCrypt
\* on the stack.
LEMMA InvariantImpliesOutlives == IInv => CryptOutlivesContexts
  <1> SUFFICES ASSUME IInv, NEW c \in Contexts, context[c] = "open"
               PROVE  mongo_crypt[parent[c]] = "open"
    BY DEF CryptOutlivesContexts
  <1>1. parent[c] \in Crypts
    BY DEF IInv, ParentBorn
  <1>2. CASE Born(c)
    <2>1. c \in stateRefs[parent[c]]
      BY <1>1, <1>2 DEF IInv, StateOwners
    <2> QED
      BY <1>1, <2>1 DEF IInv, HandlesOwned
  <1>3. CASE ~Born(c)
    <2>1. PICK i \in Running : stack[i] = Frame("make", parent[c], c)
      BY <1>3 DEF IInv, MakeFrames
    <2>2. js[parent[c]] = "live"
      BY <2>1 DEF IInv, FramesLive, Frame
    <2>3. parent[c] \in stateRefs[parent[c]]
      BY <1>1, <2>2 DEF IInv, StateOwners, Wrapped
    <2> QED
      BY <1>1, <2>3 DEF IInv, HandlesOwned
  <1> QED
    BY <1>2, <1>3

\* mongocrypt_ctx_destroy always comes before the mongocrypt_destroy of the
\* mongocrypt_t it needs, in whatever order the wrappers are finalized: the
\* promise mongocrypt.h:111-112 makes by the order of its two members.
THEOREM OutlivesHolds == Spec => []CryptOutlivesContexts
  BY InvariantHolds, InvariantImpliesOutlives, PTL

LEMMA InvariantImpliesNoUseAfterFree == IInv => NoUseAfterFree
  <1> SUFFICES ASSUME IInv, NEW i \in Running
               PROVE  LET f == stack[i] IN
                      /\ f.kind = "make" => context[f.arg] = "open"
                      /\ f.kind = "call" => context[f.obj] = "open"
                      /\ f.kind = "kms"  => context[contextState[f.obj]] = "open"
                      /\ mongo_crypt[CryptOf(f)] = "open"
    BY DEF NoUseAfterFree, Running
  <1>1. /\ stack[i] \in Frames /\ FrameTyped(stack[i])
        /\ stack[i].obj \in Objects /\ Wrapped(stack[i].obj)
    BY FrameFacts DEF IInv, FramesLive, Wrapped
  <1>2. WrappersOwnHandles /\ CryptOutlivesContexts
    BY InvariantImpliesOwnership, InvariantImpliesOutlives
  <1>3. CASE stack[i].kind = "make"
    <2>1. context[stack[i].arg] = "open"
      BY <1>3 DEF IInv, MakeFrames
    <2>2. mongo_crypt[stack[i].obj] = "open"
      BY <1>1, <1>2, <1>3 DEF WrappersOwnHandles, FrameTyped
    <2> QED
      BY <1>3, <2>1, <2>2 DEF CryptOf
  <1>4. CASE stack[i].kind = "call"
    <2>1. stack[i].obj \in Contexts /\ context[stack[i].obj] = "open"
      BY <1>1, <1>2, <1>4 DEF WrappersOwnHandles, FrameTyped
    <2> QED
      BY <1>2, <1>4, <2>1 DEF CryptOf, CryptOutlivesContexts
  <1>5. CASE stack[i].kind = "kms"
    <2>1. stack[i].obj \in Requests /\ contextState[stack[i].obj] \in Contexts
      BY <1>1, <1>5 DEF FrameTyped, IInv, ContextOwners, Wrapped, Born
    <2>2. context[contextState[stack[i].obj]] = "open"
      BY <1>1, <1>2, <2>1 DEF WrappersOwnHandles
    <2> QED
      BY <1>2, <1>5, <2>1, <2>2 DEF CryptOf, CryptOutlivesContexts
  <1>6. CASE stack[i].kind \in {"ctor", "js"}
    <2>1. stack[i].obj \in Crypts
      BY <1>1, <1>6 DEF FrameTyped
    <2> QED
      BY <1>1, <1>2, <1>6, <2>1 DEF WrappersOwnHandles, CryptOf
  <1> QED
    BY <1>1, <1>3, <1>4, <1>5, <1>6 DEF Frames, FrameKinds

\* However native methods and callbacks nest, and whatever is collected or
\* finalized meanwhile, no frame on the stack works on a destroyed handle.
THEOREM NoUseAfterFreeHolds == Spec => []NoUseAfterFree
  BY InvariantHolds, InvariantImpliesNoUseAfterFree, PTL

LEMMA InvariantImpliesPointerValid == IInv => WrapperPointerValid
  BY DEF IInv, WrapperCleared, HandlesOwned, WrapperPointerValid

\* A callback that arrives after its MongoCrypt has been destroyed, because a
\* context outlived it, finds a null pointer and never a dangling one
\* (mongocrypt.cc:597, read at 137 and 211).
THEOREM PointerValidHolds == Spec => []WrapperPointerValid
  BY InvariantHolds, InvariantImpliesPointerValid, PTL

LEMMA InvariantImpliesNoLeak == IInv => NoLeakedHandle
  <1> SUFFICES ASSUME IInv, Idle
               PROVE  NoLeakedHandle
    BY DEF NoLeakedHandle
  <1>1. destructor = [at |-> "none", of |-> None]
    BY DEF Idle, NoPart, Part
  <1>2. ASSUME NEW m \in Crypts, mongo_crypt[m] = "open"
        PROVE  \/ Wrapped(m)
               \/ \E c \in Contexts : c \in stateRefs[m] /\ context[c] = "open"
    <2>1. PICK o : o \in stateRefs[m]
      BY <1>1, <1>2 DEF IInv, HandlesOwned, Part
    <2>2. o \in Crypts \/ o \in Contexts
      BY <2>1 DEF IInv, TypeOK
    <2> QED
      <3>1. CASE o \in Crypts
        BY <2>1, <3>1 DEF IInv, StateOwners
      <3>2. CASE o \in Contexts
        <4>1. destructor # Part("release", o)
          BY <1>1 DEF Part
        <4>2. context[o] = "open"
          BY <2>1, <3>2, <4>1 DEF IInv, StateOwners
        <4> QED
          BY <2>1, <3>2, <4>2
      <3> QED
        BY <2>2, <3>1, <3>2
  <1>3. ASSUME NEW c \in Contexts, context[c] = "open"
        PROVE  \/ \E o \in Contexts \cup Requests : o \in contextRefs[c] /\ Wrapped(o)
               \/ \E i \in 1..Len(stack) : stack[i] = Frame("make", parent[c], c)
    <2>1. CASE ~Born(c)
      BY <1>3, <2>1 DEF IInv, MakeFrames, Running
    <2>2. CASE Born(c)
      <3>1. PICK o : o \in contextRefs[c]
        BY <1>1, <1>3, <2>2 DEF IInv, HandlesOwned, Part
      <3>2. o \in Contexts \/ o \in Requests
        BY <3>1 DEF IInv, TypeOK
      <3> QED
        BY <3>1, <3>2 DEF IInv, ContextOwners
    <2> QED
      BY <2>1, <2>2
  <1> QED
    BY <1>2, <1>3 DEF NoLeakedHandle

\* Every open handle has somebody who will destroy it, through throws in the
\* middle of a constructor or a make method as well.
THEOREM NoLeakHolds == Spec => []NoLeakedHandle
  BY InvariantHolds, InvariantImpliesNoLeak, PTL

(***************************************************************************)
(* What is gone does not come back.                                        *)
(***************************************************************************)

\* A wrapper's stages follow each other: new wrappers are made of objects that were
\* never there, and only a wrapper that exists is finalized.
LEMMA StagesFollow ==
    ASSUME IInv, [Next]_vars, NEW o \in Objects, Gone(o)
    PROVE  js'[o] \in {js[o], "finalized"}
  <1> USE DEF heapVars, threadVars
  <1>1. js \in [Objects -> Stages] /\ js[o] # "unborn" /\ js[o] # "live"
    BY DEF IInv, TypeOK, Gone
  <1>2. ASSUME NEW p, NEW s, js' = [js EXCEPT ![p] = s], p # o \/ s = "finalized"
        PROVE  js'[o] \in {js[o], "finalized"}
    BY <1>1, <1>2
  <1>3. ASSUME NEW m \in Crypts, NEW names, BeginCtor(m, names)
        PROVE  js'[o] \in {js[o], "finalized"}
    BY <1>1, <1>2, <1>3 DEF BeginCtor
  <1>4. CASE FailCtor
    BY <1>2, <1>4 DEF FailCtor
  <1>5. CASE EndMake
    <2>1. js[Top.arg] = "unborn" /\ js' = [js EXCEPT ![Top.arg] = "live"]
      BY <1>5, MakeTop DEF EndMake, OnTop
    <2> QED
      BY <1>1, <1>2, <2>1
  <1>6. ASSUME NEW k \in Requests, ReturnKMSRequest(k)
        PROVE  js'[o] \in {js[o], "finalized"}
    BY <1>1, <1>2, <1>6 DEF ReturnKMSRequest
  <1>7. ASSUME NEW G, Collect(G) PROVE js'[o] \in {js[o], "finalized"}
    BY <1>1, <1>7 DEF Collect, Unreachable
  <1>8. CASE Finalizer
    BY <1>2, <1>8 DEF Finalizer, DestroyMongoCrypt, DestroyMongoCryptContext,
                      DestroyMongoCryptKMSRequest
  <1>9. CASE js' = js
    BY <1>9
  <1>10. CASE NativeReturn
    BY <1>4, <1>5, <1>6, <1>9, <1>10
    DEF NativeReturn, EndCtor, FailMake, Return
  <1>11. CASE ScriptStep
    BY <1>3, <1>9, <1>11
    DEF ScriptStep, BeginMake, BeginCall, BeginKMSCall, Drop, Keep, Capture
  <1>12. CASE NativeCallback \/ CallbackReturn \/ DestructorStep \/ TearDown \/ Exited
              \/ UNCHANGED vars
    BY <1>9, <1>12
    DEF NativeCallback, InvokeCallback, CallbackFindsNoWrapper, CallbackUnwinds,
        CallbackReturn, DestructorStep, DestroyNativeContext, ReleaseMongoCrypt,
        DestroyNativeCrypt, TearDown, Exited, vars
  <1> QED
    BY <1>7, <1>8, <1>10, <1>11, <1>12 DEF Next, CollectGarbage

\* What the script can name after a step is alive then, so it was not gone before.
LEMMA ScriptFindsNothingGone ==
    ASSUME IInv, IInv', [Next]_vars, NEW o \in Objects, Gone(o), InScript'
    PROVE  o \notin InScope'
  <1> SUFFICES ASSUME o \in InScope' PROVE FALSE
    OBVIOUS
  <1>1. js'[o] = "live"
    <2>1. env' = "running"
      BY DEF InScript
    <2>2. CASE stack' = << >>
      BY <2>1, <2>2 DEF IInv, ScopeLive, InScope
    <2>3. CASE stack' # << >>
      <3>1. Top'.kind = "js" /\ Len(stack') \in Running'
        BY <2>3, EmptySeq DEF InScript, OnTop, IInv, TypeOK, Running
      <3>2. Top'.obj \in Crypts /\ js'[Top'.obj] = "live"
        BY <3>1 DEF IInv, FramesLive, FrameTyped, Top
      <3> QED
        BY <2>1, <2>3, <3>2 DEF IInv, ScopeLive, InScope
    <2> QED
      BY <2>2, <2>3
  <1> QED
    BY <1>1, StagesFollow DEF Gone

\* Whoever copies the pointer to a State is a method of the MongoCrypt that owns it.
LEMMA StateStaysReleased ==
    ASSUME IInv, [Next]_vars, NEW m \in Crypts, js[m] # "unborn", stateRefs[m] = {}
    PROVE  stateRefs'[m] = {}
  <1> USE DEF stateVars
  <1>1. stateRefs \in [Crypts -> SUBSET (Crypts \cup Contexts)]
    BY DEF IInv, TypeOK
  <1>2. ASSUME NEW n \in Crypts, NEW names, BeginCtor(n, names) PROVE stateRefs'[m] = {}
    BY <1>1, <1>2 DEF BeginCtor
  <1>3. CASE EndMake
    <2>1. Top.obj \in Crypts /\ js[Top.obj] = "live"
          /\ stateRefs' = [stateRefs EXCEPT ![Top.obj] = @ \cup {Top.arg}]
      BY <1>3, MakeTop DEF EndMake, OnTop, ShareState
    <2>2. Top.obj \in stateRefs[Top.obj]
      BY <2>1 DEF IInv, StateOwners, Wrapped
    <2> QED
      BY <1>1, <2>1, <2>2
  <1>4. ASSUME NEW n, NEW owner, ReleaseState(n, owner) PROVE stateRefs'[m] = {}
    BY <1>1, <1>4 DEF ReleaseState
  <1>5. CASE stateRefs' = stateRefs
    BY <1>5
  <1>6. CASE ScriptStep
    BY <1>2, <1>5, <1>6
    DEF ScriptStep, BeginMake, BeginCall, BeginKMSCall, Drop, Keep, Capture
  <1>7. CASE NativeReturn
    BY <1>3, <1>4, <1>5, <1>7
    DEF NativeReturn, EndCtor, FailCtor, FailMake, Return, ReturnKMSRequest
  <1>8. CASE Finalizer \/ DestructorStep
    BY <1>4, <1>5, <1>8
    DEF Finalizer, DestroyMongoCrypt, DestroyMongoCryptContext, DestroyMongoCryptKMSRequest,
        DestructorStep, DestroyNativeContext, ReleaseMongoCrypt, DestroyNativeCrypt
  <1>9. CASE NativeCallback \/ CallbackReturn \/ CollectGarbage \/ TearDown \/ Exited
             \/ UNCHANGED vars
    BY <1>5, <1>9
    DEF NativeCallback, InvokeCallback, CallbackFindsNoWrapper, CallbackUnwinds,
        CallbackReturn, CollectGarbage, Collect, TearDown, Exited, vars
  <1> QED
    BY <1>6, <1>7, <1>8, <1>9 DEF Next

\* Whoever copies the pointer to a ContextState is a method of the context that owns it,
\* and a context becomes an owner only when it is born.
LEMMA ContextStateStaysReleased ==
    ASSUME IInv, [Next]_vars, NEW c \in Contexts, js[c] # "unborn", contextRefs[c] = {}
    PROVE  contextRefs'[c] = {}
  <1> USE DEF contextVars
  <1>1. contextRefs \in [Contexts -> SUBSET (Contexts \cup Requests)]
    BY DEF IInv, TypeOK
  <1>2. CASE EndMake
    <2>1. js[Top.arg] = "unborn" /\ contextRefs' = [contextRefs EXCEPT ![Top.arg] = {Top.arg}]
      BY <1>2, MakeTop DEF EndMake, OnTop
    <2> QED
      BY <1>1, <2>1
  <1>3. ASSUME NEW k \in Requests, ReturnKMSRequest(k) PROVE contextRefs'[c] = {}
    <2>1. Top.obj \in Contexts /\ js[Top.obj] = "live"
          /\ contextRefs' = [contextRefs EXCEPT ![Top.obj] = @ \cup {k}]
      BY <1>3, TopIsRunning DEF ReturnKMSRequest, OnTop, ShareContextState, FrameTyped
    <2>2. Top.obj \in contextRefs[Top.obj]
      BY <2>1 DEF IInv, ContextOwners, Wrapped
    <2> QED
      BY <1>1, <2>1, <2>2
  <1>4. ASSUME NEW d, NEW owner, ReleaseContextState(d, owner) PROVE contextRefs'[c] = {}
    BY <1>1, <1>4 DEF ReleaseContextState
  <1>5. CASE contextRefs' = contextRefs
    BY <1>5
  <1>6. CASE ScriptStep
    BY <1>5, <1>6
    DEF ScriptStep, BeginCtor, BeginMake, BeginCall, BeginKMSCall, Drop, Keep, Capture
  <1>7. CASE NativeReturn
    BY <1>2, <1>3, <1>5, <1>7
    DEF NativeReturn, EndCtor, FailCtor, FailMake, Return
  <1>8. CASE Finalizer \/ DestructorStep
    BY <1>4, <1>5, <1>8
    DEF Finalizer, DestroyMongoCrypt, DestroyMongoCryptContext, DestroyMongoCryptKMSRequest,
        DestructorStep, DestroyNativeContext, ReleaseMongoCrypt, DestroyNativeCrypt
  <1>9. CASE NativeCallback \/ CallbackReturn \/ CollectGarbage \/ TearDown \/ Exited
             \/ UNCHANGED vars
    BY <1>5, <1>9
    DEF NativeCallback, InvokeCallback, CallbackFindsNoWrapper, CallbackUnwinds,
        CallbackReturn, CollectGarbage, Collect, TearDown, Exited, vars
  <1> QED
    BY <1>6, <1>7, <1>8, <1>9 DEF Next

\* A collected object is never seen by a script again, and a State or ContextState that
\* is being destroyed gets no new owner, under any nesting of methods and callbacks
\* (mongocrypt.h:109-113, 157-159).
THEOREM GoneForGood == Spec => NothingComesBack
  <1> DEFINE Step == /\ \A o \in Objects : Gone(o) =>
                           /\ js'[o] \in {js[o], "finalized"}
                           /\ InScript' => o \notin InScope'
                     /\ \A m \in Crypts :
                           js[m] # "unborn" /\ stateRefs[m] = {} => stateRefs'[m] = {}
                     /\ \A c \in Contexts :
                           js[c] # "unborn" /\ contextRefs[c] = {} => contextRefs'[c] = {}
  <1>1. IInv /\ IInv' /\ [Next]_vars => [Step]_vars
    BY StagesFollow, ScriptFindsNothingGone, StateStaysReleased, ContextStateStaysReleased
  <1> QED
    BY <1>1, InvariantHolds, PTL DEF Spec, NothingComesBack

(***************************************************************************)
(* What the application has lost stays lost.                               *)
(***************************************************************************)

\* A script that runs can name nothing of what is abandoned.
LEMMA ScopeAvoidsAbandoned ==
    ASSUME IInv, InScript, NEW G \in SUBSET Objects, Abandoned(G)
    PROVE  InScope \cap G = {}
  <1>1. CASE stack = << >>
    BY <1>1 DEF Abandoned, InScope
  <1>2. CASE stack # << >>
    <2>1. Top.obj \in Crypts /\ js[Top.obj] = "live" /\ Top.obj \in OnStack
      BY <1>2, TopIsRunning DEF InScript, OnTop, FrameTyped, OnStack, Running, Top
    <2> QED
      BY <1>2, <2>1 DEF Abandoned, InScope
  <1> QED
    BY <1>1, <1>2

\* A method works on the mongocrypt_t of the family its object belongs to.
LEMMA TopIsFamily ==
    ASSUME IInv, stack # << >>
    PROVE  Top.obj \in Family(CryptOf(Top))
  <1>1. FrameTyped(Top) /\ js[Top.obj] = "live"
    BY TopIsRunning
  <1>2. CASE Top.kind = "call"
    <2>1. Top.obj \in Contexts /\ Top.obj \in contextRefs[Top.obj]
      BY <1>1, <1>2 DEF FrameTyped, IInv, ContextOwners, Wrapped
    <2>2. context[Top.obj] = "open" /\ Born(Top.obj)
      BY <2>1 DEF IInv, HandlesOwned
    <2>3. parent[Top.obj] \in Crypts
      BY <2>1, <2>2 DEF IInv, ParentBorn
    <2>4. Top.obj \in stateRefs[parent[Top.obj]]
      BY <2>1, <2>2, <2>3 DEF IInv, StateOwners
    <2> QED
      BY <1>2, <2>4 DEF CryptOf, Family
  <1>3. CASE Top.kind = "kms"
    <2> DEFINE c == contextState[Top.obj]
    <2>1. c \in Contexts /\ Top.obj \in contextRefs[c]
      BY <1>1, <1>3 DEF FrameTyped, IInv, ContextOwners, Born, Wrapped
    <2>2. context[c] = "open" /\ Born(c)
      BY <2>1 DEF IInv, HandlesOwned
    <2>3. parent[c] \in Crypts
      BY <2>1, <2>2 DEF IInv, ParentBorn
    <2>4. c \in stateRefs[parent[c]]
      BY <2>1, <2>2, <2>3 DEF IInv, StateOwners
    <2> QED
      BY <1>3, <2>1, <2>4 DEF CryptOf, Family
  <1>4. CASE Top.kind \notin {"call", "kms"}
    BY <1>4 DEF CryptOf, Family
  <1> QED
    BY <1>2, <1>3, <1>4

\* So no hook or logger of an abandoned MongoCrypt is called.
LEMMA TopIsNotAbandoned ==
    ASSUME IInv, stack # << >>, NEW G \in SUBSET Objects, Abandoned(G)
    PROVE  Top.obj \notin G /\ CryptOf(Top) \notin G
  <1>1. Top.obj \in OnStack /\ js[Top.obj] = "live"
    BY TopIsRunning DEF OnStack, Running, Top
  <1>2. Top.obj \notin G
    BY <1>1 DEF Abandoned
  <1> QED
    BY <1>1, <1>2, TopIsFamily, CryptOfTop DEF Abandoned, Gone

LEMMA OnStackAfterPush ==
    ASSUME TypeOK, NEW f \in Frames, Push(f)
    PROVE  OnStack' = OnStack \cup {f.obj}
  BY PushFacts DEF OnStack, Running

LEMMA OnStackAfterPop ==
    ASSUME TypeOK, Pop, stack # << >>
    PROVE  OnStack' \subseteq OnStack
  BY PopFacts DEF OnStack, Running

\* What there is has been there, and does not become unborn again.
LEMMA BornForGood ==
    ASSUME IInv, [Next]_vars, NEW o \in Objects, Born(o)
    PROVE  Born(o)'
  <1> USE DEF heapVars, threadVars, Born
  <1>1. js \in [Objects -> Stages]
    BY DEF IInv, TypeOK
  <1>2. ASSUME NEW p, NEW s, js' = [js EXCEPT ![p] = s], s # "unborn"
        PROVE  js'[o] # "unborn"
    BY <1>1, <1>2
  <1>3. CASE js' = js
    BY <1>3
  <1>4. CASE ScriptStep
    BY <1>2, <1>3, <1>4
    DEF ScriptStep, BeginCtor, BeginMake, BeginCall, BeginKMSCall, Drop, Keep, Capture
  <1>5. CASE NativeReturn
    BY <1>2, <1>3, <1>5
    DEF NativeReturn, EndCtor, FailCtor, EndMake, FailMake, Return, ReturnKMSRequest
  <1>6. CASE Finalizer
    BY <1>2, <1>6 DEF Finalizer, DestroyMongoCrypt, DestroyMongoCryptContext,
                      DestroyMongoCryptKMSRequest
  <1>7. CASE CollectGarbage
    BY <1>1, <1>7 DEF CollectGarbage, Collect
  <1>8. CASE NativeCallback \/ CallbackReturn \/ DestructorStep \/ TearDown \/ Exited
              \/ UNCHANGED vars
    BY <1>3, <1>8
    DEF NativeCallback, InvokeCallback, CallbackFindsNoWrapper, CallbackUnwinds,
        CallbackReturn, DestructorStep, DestroyNativeContext, ReleaseMongoCrypt,
        DestroyNativeCrypt, TearDown, Exited, vars
  <1> QED
    BY <1>4, <1>5, <1>6, <1>7, <1>8 DEF Next

\* No variable and no frame gets hold of an abandoned object.
LEMMA AbandonedIsOutOfReach ==
    ASSUME IInv, [Next]_vars, NEW G \in SUBSET Objects, Abandoned(G)
    PROVE  G \cap (roots' \cup OnStack') = {}
  <1> USE DEF heapVars, threadVars
  <1>0. TypeOK /\ G \cap roots = {} /\ G \cap OnStack = {} /\ \A o \in G : js[o] # "unborn"
    BY DEF IInv, Abandoned
  <1>1. ASSUME NEW o, o \notin G, roots' \subseteq roots \cup {o}
        PROVE  G \cap roots' = {}
    BY <1>0, <1>1
  <1>2. ASSUME NEW f \in Frames, Push(f), f.obj \notin G
        PROVE  G \cap OnStack' = {}
    BY <1>0, <1>2, OnStackAfterPush
  <1>3. ASSUME stack # << >>, Pop
        PROVE  G \cap OnStack' = {}
    BY <1>0, <1>3, OnStackAfterPop
  <1>4. CASE ScriptStep
    <2>1. InScope \cap G = {} /\ InScope \subseteq Objects
      BY <1>4, ScopeAvoidsAbandoned, InScopeIsLive
      DEF ScriptStep, BeginCtor, BeginMake, BeginCall, BeginKMSCall, Drop, Keep, Capture
    <2>2. ASSUME NEW kind \in FrameKinds, NEW o \in Objects, NEW c \in Contexts \cup {None},
                 Push(Frame(kind, o, c)), o \notin G
          PROVE  G \cap OnStack' = {}
      BY <1>2, <2>2 DEF Frame, Frames
    <2>3. ASSUME NEW m \in Crypts, NEW names, BeginCtor(m, names)
          PROVE  G \cap OnStack' = {} /\ roots' = roots
      BY <1>0, <2>2, <2>3 DEF BeginCtor, FrameKinds, Objects
    <2>4. ASSUME NEW m \in Crypts, NEW c \in Contexts, BeginMake(m, c)
          PROVE  G \cap OnStack' = {} /\ roots' = roots
      BY <2>1, <2>2, <2>4 DEF BeginMake, FrameKinds, Objects
    <2>5. ASSUME NEW c \in Contexts, BeginCall(c)
          PROVE  G \cap OnStack' = {} /\ roots' = roots
      BY <2>1, <2>2, <2>5 DEF BeginCall, FrameKinds, Objects
    <2>6. ASSUME NEW k \in Requests, BeginKMSCall(k)
          PROVE  G \cap OnStack' = {} /\ roots' = roots
      BY <2>1, <2>2, <2>6 DEF BeginKMSCall, FrameKinds, Objects
    <2>7. ASSUME NEW o \in Objects, Drop(o) \/ Keep(o)
          PROVE  G \cap roots' = {} /\ stack' = stack
      BY <1>0, <2>1, <2>7 DEF Drop, Keep
    <2>8. ASSUME NEW m \in Crypts, NEW o \in Objects, Capture(m, o)
          PROVE  roots' = roots /\ stack' = stack
      BY <2>8 DEF Capture
    <2> QED
      BY <1>0, <1>4, <2>3, <2>4, <2>5, <2>6, <2>7, <2>8 DEF ScriptStep, OnStack
  <1>5. CASE NativeReturn
    <2>1. stack # << >> /\ Pop /\ Top.obj \notin G
      BY <1>5, TopIsNotAbandoned
      DEF NativeReturn, EndCtor, FailCtor, EndMake, FailMake, Return, ReturnKMSRequest, OnTop
    <2>2. ASSUME EndMake PROVE G \cap roots' = {}
      BY <1>0, <1>1, <2>2, MakeTop DEF EndMake, OnTop
    <2>3. ASSUME EndCtor PROVE G \cap roots' = {}
      BY <1>1, <2>1, <2>3 DEF EndCtor
    <2>4. ASSUME NEW k \in Requests, ReturnKMSRequest(k) PROVE G \cap roots' = {}
      BY <1>0, <1>1, <2>4 DEF ReturnKMSRequest
    <2>5. ASSUME FailCtor \/ FailMake \/ Return PROVE G \cap roots' = {}
      BY <1>0, <2>5 DEF FailCtor, FailMake, Return
    <2> QED
      BY <1>3, <1>5, <2>1, <2>2, <2>3, <2>4, <2>5 DEF NativeReturn
  <1>6. ASSUME NEW n \in Callbacks, InvokeCallback(n)
        PROVE  G \cap OnStack' = {} /\ roots' = roots
    <2>1. stack # << >>
      BY <1>6 DEF InvokeCallback, CallsBack, InNative
    <2>2. CryptOf(Top) \in Crypts /\ CryptOf(Top) \notin G
      BY <2>1, CryptOfTop, TopIsNotAbandoned
    <2>3. Frame("js", CryptOf(Top), None) \in Frames
      BY <2>2 DEF Frame, Frames, FrameKinds, Objects
    <2> QED
      BY <1>2, <1>6, <2>2, <2>3 DEF InvokeCallback, Frame
  <1>7. CASE CallbackReturn \/ \E n \in Callbacks : CallbackUnwinds(n)
    <2>1. stack # << >> /\ Pop /\ roots' = roots
      BY <1>7 DEF CallbackReturn, CallbackUnwinds, CallsBack, InNative, OnTop
    <2> QED
      BY <1>0, <1>3, <2>1
  <1>8. CASE \/ \E n \in Callbacks : CallbackFindsNoWrapper(n)
             \/ CollectGarbage \/ Finalizer \/ DestructorStep \/ TearDown \/ Exited
             \/ UNCHANGED vars
    <2>1. stack' = stack /\ roots' \subseteq roots
      BY <1>8
      DEF CallbackFindsNoWrapper, CollectGarbage, Collect, Finalizer, DestroyMongoCrypt,
          DestroyMongoCryptContext, DestroyMongoCryptKMSRequest, DestructorStep,
          DestroyNativeContext, ReleaseMongoCrypt, DestroyNativeCrypt, TearDown, Exited, vars
    <2> QED
      BY <1>0, <2>1 DEF OnStack
  <1> QED
    BY <1>0, <1>4, <1>5, <1>6, <1>7, <1>8 DEF Next, NativeCallback

\* The callbacks of a MongoCrypt still there close over what its script could name.
LEMMA NothingReachesAbandoned ==
    ASSUME IInv, [Next]_vars, NEW G \in SUBSET Objects, Abandoned(G),
           NEW m \in Crypts \ G, js'[m] = "live"
    PROVE  reaches'[m] \cap G = {}
  <1> USE DEF heapVars, threadVars
  <1>0. reaches \in [Crypts -> SUBSET Objects] /\ m \in Objects
    BY DEF IInv, TypeOK, Objects
  <1>1. js[m] = "live" \/ js[m] = "unborn"
    BY <1>0, StagesFollow DEF IInv, TypeOK, Stages, Gone
  <1>2. reaches[m] \cap G = {}
    BY <1>1 DEF Abandoned, IInv, ScopeLive, Born
  <1>3. ASSUME NEW n \in Crypts, NEW o \in Objects, Capture(n, o)
        PROVE  reaches'[m] \cap G = {}
    <2>1. o \notin G
      BY <1>3, ScopeAvoidsAbandoned DEF Capture
    <2> QED
      BY <1>0, <1>2, <1>3, <2>1 DEF Capture
  <1>4. CASE reaches' = reaches
    BY <1>2, <1>4
  <1>5. CASE ScriptStep \/ NativeReturn
    BY <1>3, <1>4, <1>5
    DEF ScriptStep, BeginCtor, BeginMake, BeginCall, BeginKMSCall, Drop, Keep,
        NativeReturn, EndCtor, FailCtor, EndMake, FailMake, Return, ReturnKMSRequest
  <1>6. CASE \/ NativeCallback \/ CallbackReturn \/ CollectGarbage \/ Finalizer
             \/ DestructorStep \/ TearDown \/ Exited \/ UNCHANGED vars
    BY <1>4, <1>6
    DEF NativeCallback, InvokeCallback, CallbackFindsNoWrapper, CallbackUnwinds,
        CallbackReturn, CollectGarbage, Collect, Finalizer, DestroyMongoCrypt,
        DestroyMongoCryptContext, DestroyMongoCryptKMSRequest, DestructorStep,
        DestroyNativeContext, ReleaseMongoCrypt, DestroyNativeCrypt, TearDown, Exited, vars
  <1> QED
    BY <1>5, <1>6 DEF Next

\* The family of an abandoned MongoCrypt gets no new members: whoever makes a context
\* or hands out a request is a method of a member that is in use.
LEMMA FamilyShrinks ==
    ASSUME IInv, [Next]_vars, NEW G \in SUBSET Objects, Abandoned(G), NEW m \in Crypts \cap G
    PROVE  Family(m)' \subseteq Family(m)
  <1> USE DEF stateVars, contextVars
  <1>0. /\ stateRefs \in [Crypts -> SUBSET (Crypts \cup Contexts)]
        /\ contextRefs \in [Contexts -> SUBSET (Contexts \cup Requests)]
        /\ js[m] # "unborn"
    BY DEF IInv, TypeOK, Abandoned
  <1>1. \A c \in stateRefs[m] \cap Contexts : js[c] # "unborn"
    BY DEF IInv, StateOwners, Born
  <1> SUFFICES /\ stateRefs'[m] \subseteq stateRefs[m]
               /\ \A c \in stateRefs[m] \cap Contexts : contextRefs'[c] \subseteq contextRefs[c]
    BY DEF Family
  <1>2. ASSUME NEW n, NEW owner, ReleaseState(n, owner)
        PROVE  stateRefs'[m] \subseteq stateRefs[m]
    BY <1>0, <1>2 DEF ReleaseState
  <1>3. ASSUME NEW d, NEW owner, ReleaseContextState(d, owner)
        PROVE  \A c \in Contexts : contextRefs'[c] \subseteq contextRefs[c]
    BY <1>0, <1>3 DEF ReleaseContextState
  <1>4. ASSUME NEW n \in Crypts, NEW names, BeginCtor(n, names)
        PROVE  stateRefs'[m] = stateRefs[m] /\ contextRefs' = contextRefs
    BY <1>0, <1>4 DEF BeginCtor
  <1>5. CASE EndMake
    <2>1. /\ Top.obj # m /\ js[Top.arg] = "unborn"
          /\ stateRefs' = [stateRefs EXCEPT ![Top.obj] = @ \cup {Top.arg}]
          /\ contextRefs' = [contextRefs EXCEPT ![Top.arg] = {Top.arg}]
      BY <1>5, MakeTop, TopIsNotAbandoned DEF EndMake, OnTop, ShareState
    <2> QED
      BY <1>0, <1>1, <2>1
  <1>6. ASSUME NEW k \in Requests, ReturnKMSRequest(k)
        PROVE  /\ stateRefs' = stateRefs
               /\ \A c \in stateRefs[m] \cap Contexts : contextRefs'[c] = contextRefs[c]
    <2>1. /\ Top.obj \notin G /\ js[Top.obj] = "live"
          /\ contextRefs' = [contextRefs EXCEPT ![Top.obj] = @ \cup {k}]
      BY <1>6, TopIsRunning, TopIsNotAbandoned DEF ReturnKMSRequest, OnTop, ShareContextState
    <2>2. Top.obj \notin stateRefs[m]
      BY <2>1 DEF Abandoned, Family, Gone
    <2> QED
      BY <1>0, <1>6, <2>1, <2>2 DEF ReturnKMSRequest
  <1>7. CASE UNCHANGED <<stateRefs, contextRefs>>
    BY <1>7
  <1>8. CASE ScriptStep
    BY <1>4, <1>7, <1>8
    DEF ScriptStep, BeginMake, BeginCall, BeginKMSCall, Drop, Keep, Capture
  <1>9. CASE NativeReturn
    BY <1>2, <1>5, <1>6, <1>7, <1>9
    DEF NativeReturn, EndCtor, FailCtor, FailMake, Return
  <1>10. CASE Finalizer \/ DestructorStep
    BY <1>2, <1>3, <1>7, <1>10
    DEF Finalizer, DestroyMongoCrypt, DestroyMongoCryptContext, DestroyMongoCryptKMSRequest,
        DestructorStep, DestroyNativeContext, ReleaseMongoCrypt, DestroyNativeCrypt
  <1>11. CASE NativeCallback \/ CallbackReturn \/ CollectGarbage \/ TearDown \/ Exited
              \/ UNCHANGED vars
    BY <1>7, <1>11
    DEF NativeCallback, InvokeCallback, CallbackFindsNoWrapper, CallbackUnwinds,
        CallbackReturn, CollectGarbage, Collect, TearDown, Exited, vars
  <1> QED
    BY <1>8, <1>9, <1>10, <1>11 DEF Next

\* A MongoCrypt that the application has lost with all its contexts and requests is
\* never found again, whatever its callbacks close over and however libmongocrypt calls
\* back: it stays garbage until the engine collects it (mongocrypt.cc:209-220, 849-851).
THEOREM LostForGood == Spec => AbandonedForGood
  <1>1. ASSUME IInv, [Next]_vars, NEW G \in SUBSET Objects, Abandoned(G)
        PROVE  Abandoned(G)'
    <2>1. \A o \in G : (js[o] # "unborn")'
      BY <1>1, BornForGood DEF Abandoned, Born
    <2>2. ASSUME NEW m \in Crypts \cap G, NEW o \in Family(m)' \ G PROVE Gone(o)'
      <3>1. o \in Family(m) /\ Gone(o)
        BY <1>1, <2>2, FamilyShrinks DEF Abandoned
      <3>2. o \in Objects
        <4>1. stateRefs[m] \subseteq Objects /\ m \in Objects
              /\ \A c \in Contexts : contextRefs[c] \subseteq Objects
          BY <1>1 DEF IInv, TypeOK, Objects
        <4> QED
          BY <3>1, <4>1 DEF Family
      <3> QED
        BY <1>1, <3>1, <3>2, StagesFollow DEF Gone
    <2> QED
      BY <1>1, <2>1, <2>2, AbandonedIsOutOfReach, NothingReachesAbandoned DEF Abandoned
  <1>2. IInv /\ [Next]_vars => [\A G \in SUBSET Objects : Abandoned(G) => Abandoned(G)']_vars
    BY <1>1
  <1> QED
    BY <1>2, InvariantHolds, PTL DEF Spec, AbandonedForGood
=============================================================================
