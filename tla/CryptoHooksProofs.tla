-------------------------- MODULE CryptoHooksProofs --------------------------
(***************************************************************************)
(* Proofs about the crypto hooks, for every block size, buffer size and    *)
(* input length: whatever implementation is installed, and whatever of     *)
(* OpenSSL fails, a hook of this package that reports success has written  *)
(* the whole result, never runs over the buffer, accepts exactly the calls *)
(* that have a result, and says why when it returns false; a hook fails    *)
(* only in the ways a session is prepared for (HookOutcomes); and both     *)
(* implementations are hooks in the sense of HookContract.                 *)
(***************************************************************************)
EXTENDS CryptoHooks, TLAPS

\* What holds between the steps of a hook.  The properties say how a call may
\* end; they become inductive with what the native ciphers have done so far.
Progress ==
    /\ pc = "idle" <=> end # "running"
    /\ provider = "native_openssl" => callbacks = "package"
    /\ pc \in {"update", "final"} =>
          provider = "native_openssl" /\ call.hook \in CipherHooks /\ call.key
    /\ pc = "callback" => provider = "js"
    /\ pc = "final" => /\ bytes_written = call.len - Held(call)
                       /\ \A i \in 1..bytes_written : out[i] = i

IInv == TypeOK /\ Progress /\ WholeResult /\ NeverOverruns /\ HooksAgree
               /\ FailuresCarryStatus

\* A call's fields, and how its parts relate.
LEMMA CallFacts ==
  ASSUME NEW c \in Calls
  PROVE  /\ c.hook \in Hooks /\ c.len \in Nat /\ c.room \in Nat /\ c.key \in BOOLEAN
         /\ c.hook \in CipherHooks \cup {"random"} => c.len <= c.room
         /\ c.hook \in DigestHooks => c.len = c.room
         /\ c.hook = "sign_rsa_sha256" => c.room = SignatureRoom
         /\ c.hook \in DigestHooks \cup {"random"} => c.key
  BY SizesAssumption DEF Calls

\* What is held back is part of the input, and nothing exactly when the input is
\* whole blocks.
LEMMA HeldFacts ==
  ASSUME NEW c \in Calls
  PROVE  /\ Held(c) \in Nat /\ Held(c) <= c.len
         /\ c.key => (HasResult(c) <=> Held(c) = 0)
<1>1. c.len \in Nat /\ c.key \in BOOLEAN
  BY CallFacts
<1>2. c.len % Block \in Nat /\ c.len % Block <= c.len
  BY <1>1, SizesAssumption, SMT
<1> QED
  BY <1>1, <1>2 DEF Held, HasResult

\* The start of a buffer that has been written holds the bytes of the result.
LEMMA WrittenFacts ==
  ASSUME NEW room \in Nat, NEW n \in Nat, NEW buffer \in [1..room -> Nat]
  PROVE  /\ Written(buffer, 1, n) \in [1..room -> Nat]
         /\ \A i \in 1..SmallerOf(n, room) : Written(buffer, 1, n)[i] = i
         /\ n = 0 => Written(buffer, 1, n) = buffer
  BY DEF Written, SmallerOf

LEMMA BlankType ==
  ASSUME NEW room \in Nat
  PROVE  Blank(room) \in [1..room -> Nat]
  BY DEF Blank

THEOREM InitIInv == Init => IInv
<1> SUFFICES ASSUME Init PROVE IInv
  OBVIOUS
<1>1. call \in Calls
  BY SizesAssumption DEF Init, Calls, Hooks, CipherHooks, BlockHooks, CtrHooks, DigestHooks
<1>2. TypeOK
  BY <1>1 DEF Init, TypeOK, Blank
<1>3. Progress /\ WholeResult /\ NeverOverruns /\ HooksAgree /\ FailuresCarryStatus
  BY DEF Init, Progress, WholeResult, NeverOverruns, HooksAgree, FailuresCarryStatus
<1> QED
  BY <1>2, <1>3 DEF IInv

\* The properties of a call that has not ended, or has ended other than in
\* success, and in which nothing changed but where the hook is.
LEMMA CallRunning ==
  ASSUME end' = "running"
  PROVE  WholeResult' /\ NeverOverruns' /\ HooksAgree' /\ FailuresCarryStatus'
  BY DEF WholeResult, NeverOverruns, HooksAgree, FailuresCarryStatus

\* A refusal is in order when the call has no result or something failed.
LEMMA RefuseKeeps ==
  ASSUME IInv, Refuse, pc # "idle", fault' \in BOOLEAN,
         fault' \/ ~HasResult(call) \/ mc # "live" \/ callbacks = "application"
                \/ ~Fits(call)
  PROVE  IInv'
<1> USE DEF IInv, Refuse, Leave
<1>1. TypeOK'
  BY DEF TypeOK
<1>2. Progress'
  BY DEF Progress
<1>3. (WholeResult /\ NeverOverruns /\ HooksAgree /\ FailuresCarryStatus)'
  BY DEF WholeResult, NeverOverruns, HooksAgree, FailuresCarryStatus, HasResult, Fits
<1> QED
  BY <1>1, <1>2, <1>3

\* So is an exception.
LEMMA AbandonKeeps ==
  ASSUME IInv, NEW how \in {"thrown", "aborted"}, Leave(how), pc # "idle",
         UNCHANGED <<out, bytes_written, status>>, fault' \in BOOLEAN,
         fault' \/ ~HasResult(call) \/ mc # "live" \/ callbacks = "application"
  PROVE  IInv'
<1> USE DEF IInv, Leave
<1>1. TypeOK'
  BY DEF TypeOK
<1>2. Progress'
  BY DEF Progress
<1>3. (WholeResult /\ NeverOverruns /\ HooksAgree /\ FailuresCarryStatus)'
  BY DEF WholeResult, NeverOverruns, HooksAgree, FailuresCarryStatus, HasResult, Fits
<1> QED
  BY <1>1, <1>2, <1>3

\* A hook that succeeds leaves the whole result in the buffer, or else it is an
\* application's.
LEMMA SucceedKeeps ==
  ASSUME IInv, Leave("true"), pc # "idle", fault' \in BOOLEAN,
         out' \in [1..call.room -> Nat], bytes_written' \in Nat, status' = status,
         callbacks = "package" =>
           /\ HasResult(call)
           /\ Fits(call) \/ provider = "js"
           /\ \A i \in 1..SmallerOf(call.len, call.room) : out'[i] = i
           /\ call.hook \in CipherHooks => bytes_written' = call.len
  PROVE  IInv'
<1> USE DEF IInv, Leave
<1>1. TypeOK'
  BY DEF TypeOK
<1>2. Progress'
  BY DEF Progress
<1>3. (WholeResult /\ NeverOverruns /\ HooksAgree /\ FailuresCarryStatus)'
  BY DEF WholeResult, NeverOverruns, HooksAgree, FailuresCarryStatus, HasResult, Fits,
         SmallerOf
<1> QED
  BY <1>1, <1>2, <1>3

-----------------------------------------------------------------------------
\* The steps.

LEMMA BeginKeeps ==
  ASSUME IInv, NEW c \in Calls, BeginCall(c)
  PROVE  IInv'
<1> USE DEF BeginCall
<1>1. c.room \in Nat
  BY CallFacts
<1>2. TypeOK'
  BY <1>1, BlankType DEF IInv, TypeOK
<1>3. Progress'
  BY DEF IInv, Progress
<1>4. (WholeResult /\ NeverOverruns /\ HooksAgree /\ FailuresCarryStatus)'
  BY CallRunning
<1> QED
  BY <1>2, <1>3, <1>4 DEF IInv

\* What the steps below have in common: the call and its buffer are well typed.
LEMMA Typed ==
  ASSUME IInv
  PROVE  /\ call \in Calls /\ call.room \in Nat /\ call.len \in Nat
         /\ out \in [1..call.room -> Nat] /\ bytes_written \in Nat
         /\ fault \in BOOLEAN
  BY CallFacts DEF IInv, TypeOK

LEMMA NativeInitKeeps ==
  ASSUME IInv, NativeInit
  PROVE  IInv'
<1>1. fault' \in BOOLEAN /\ pc # "idle"
  BY Typed DEF NativeInit, Native
<1>2. CASE call.key
  <2> USE <1>2 DEF NativeInit, Native, Goto
  <2>1. end = "running"
    BY <1>1 DEF IInv, Progress
  <2>2. TypeOK'
    BY DEF IInv, TypeOK
  <2>3. Progress'
    BY <2>1 DEF IInv, Progress
  <2>4. (WholeResult /\ NeverOverruns /\ HooksAgree /\ FailuresCarryStatus)'
    BY <2>1, CallRunning
  <2> QED
    BY <2>2, <2>3, <2>4 DEF IInv
<1>3. CASE ~call.key
  BY <1>1, <1>3, AbandonKeeps DEF NativeInit, HasResult
<1> QED
  BY <1>2, <1>3

LEMMA NativeUpdateKeeps ==
  ASSUME IInv, NativeUpdate
  PROVE  IInv'
<1> DEFINE n == call.len - Held(call)
<1>1. n \in Nat /\ n <= call.len
  BY Typed, HeldFacts
<1>2. call.hook \in CipherHooks /\ call.key /\ provider = "native_openssl" /\ end = "running"
  BY DEF NativeUpdate, Native, IInv, Progress
<1>3. n <= call.room
  BY <1>1, <1>2, Typed, CallFacts
<1> HIDE DEF n
<1>4. /\ out' = Written(out, 1, n) /\ bytes_written' = n
      /\ pc' = "final" /\ end' = end /\ status' = status /\ fault' = fault
      /\ provider' = provider /\ callbacks' = callbacks /\ mc' = mc /\ call' = call
  BY DEF NativeUpdate, Goto, n
<1>5. out' \in [1..call.room -> Nat] /\ \A i \in 1..n : out'[i] = i
  <2>1. SmallerOf(n, call.room) = n /\ call.room \in Nat /\ out \in [1..call.room -> Nat]
    BY <1>1, <1>3, Typed DEF SmallerOf
  <2> QED
    BY <1>1, <1>3, <1>4, <2>1, WrittenFacts
<1>6. TypeOK'
  BY <1>1, <1>4, <1>5 DEF IInv, TypeOK
<1>7. bytes_written' = call'.len - Held(call')
  BY <1>4 DEF n
<1>8. Progress'
  BY <1>2, <1>4, <1>5, <1>7 DEF IInv, Progress
<1>9. (WholeResult /\ NeverOverruns /\ HooksAgree /\ FailuresCarryStatus)'
  BY <1>2, <1>4, CallRunning
<1> QED
  BY <1>6, <1>8, <1>9 DEF IInv

LEMMA NativeFinalKeeps ==
  ASSUME IInv, NativeFinal
  PROVE  IInv'
<1>1. /\ call.hook \in CipherHooks /\ call.key /\ bytes_written = call.len - Held(call)
      /\ \A i \in 1..bytes_written : out[i] = i
      /\ pc # "idle" /\ fault' = fault
  BY DEF NativeFinal, Native, IInv, Progress
<1>2. CASE Held(call) = 0
  <2>1. bytes_written = call.len /\ HasResult(call) /\ Fits(call)
    BY <1>1, <1>2, Typed, HeldFacts DEF Fits, CipherHooks, BlockHooks, CtrHooks
  <2>2. Leave("true") /\ status' = status /\ out' = Written(out, bytes_written + 1, 0)
        /\ bytes_written' = bytes_written + 0
    BY <1>2 DEF NativeFinal, FinalBytes, AutoPadding
  <2>3. out' = out /\ bytes_written' = bytes_written
    BY <2>2, Typed DEF Written
  <2>4. \A i \in 1..SmallerOf(call.len, call.room) : out'[i] = i
    BY <1>1, <2>1, <2>3, Typed DEF SmallerOf
  <2> QED
    BY <1>1, <2>1, <2>2, <2>3, <2>4, Typed, SucceedKeeps
<1>3. CASE Held(call) # 0
  BY <1>1, <1>3, HeldFacts, Typed, RefuseKeeps DEF NativeFinal, AutoPadding
<1> QED
  BY <1>2, <1>3

\* A hook that writes a result of the buffer's length or less in one step.
LEMMA WriteKeeps ==
  ASSUME IInv, pc # "idle", HasResult(call), call.hook \notin CipherHooks, Fits(call),
         out' = Written(out, 1, call.len), Leave("true"),
         UNCHANGED <<bytes_written, status, fault>>
  PROVE  IInv'
<1>1. out' \in [1..call.room -> Nat]
      /\ \A i \in 1..SmallerOf(call.len, call.room) : out'[i] = i
  BY Typed, WrittenFacts
<1> QED
  BY <1>1, Typed, SucceedKeeps

LEMMA NativeDigestKeeps ==
  ASSUME IInv, NativeDigest
  PROVE  IInv'
<1>1. HasResult(call) /\ call.hook \notin CipherHooks /\ Fits(call) /\ pc # "idle"
  BY Typed, CallFacts
  DEF NativeDigest, Native, HasResult, Fits, CipherHooks, BlockHooks, CtrHooks, DigestHooks
<1> QED
  BY <1>1, WriteKeeps DEF NativeDigest

LEMMA NativeSignKeeps ==
  ASSUME IInv, NativeSign
  PROVE  IInv'
<1>1. call.hook = "sign_rsa_sha256" /\ call.hook \notin CipherHooks /\ pc # "idle"
      /\ fault' = fault /\ call.room = SignatureRoom
  BY Typed, CallFacts DEF NativeSign, Native, CipherHooks, BlockHooks, CtrHooks
<1>2. CASE call.key /\ call.len <= SignatureRoom
  <2>1. HasResult(call) /\ Fits(call)
    BY <1>1, <1>2 DEF HasResult, Fits, BlockHooks
  <2> QED
    BY <1>1, <1>2, <2>1, WriteKeeps DEF NativeSign
<1>3. CASE ~(call.key /\ call.len <= SignatureRoom)
  BY <1>1, <1>3, Typed, RefuseKeeps DEF NativeSign, HasResult, Fits
<1> QED
  BY <1>2, <1>3

LEMMA NativeFaultKeeps ==
  ASSUME IInv, NativeFault
  PROVE  IInv'
<1>1. CASE Refuse
  BY <1>1, RefuseKeeps DEF NativeFault
<1>2. ASSUME NEW how \in {"thrown", "aborted"}, Leave(how),
             UNCHANGED <<out, bytes_written, status>>
      PROVE  IInv'
  BY <1>2, AbandonKeeps DEF NativeFault
<1> QED
  BY <1>1, <1>2 DEF NativeFault

LEMMA JsLookupKeeps ==
  ASSUME IInv, JsLookup
  PROVE  IInv'
<1>1. pc # "idle" /\ provider = "js" /\ fault' \in BOOLEAN /\ fault' = fault
  BY Typed DEF JsLookup, Js
<1>2. CASE mc = "live" /\ Goto("callback") /\ UNCHANGED <<out, bytes_written, status>>
  <2>1. end = "running"
    BY <1>1 DEF IInv, Progress
  <2>2. TypeOK'
    BY <1>1, <1>2 DEF IInv, TypeOK, Goto
  <2>3. Progress'
    BY <1>1, <1>2, <2>1 DEF IInv, Progress, Goto
  <2>4. (WholeResult /\ NeverOverruns /\ HooksAgree /\ FailuresCarryStatus)'
    BY <1>2, <2>1, CallRunning DEF Goto
  <2> QED
    BY <2>2, <2>3, <2>4 DEF IInv
<1>3. CASE mc = "collected" /\ Leave("thrown") /\ UNCHANGED <<out, bytes_written, status>>
  BY <1>1, <1>3, AbandonKeeps
<1>4. CASE mc = "finalized" /\ Refuse
  BY <1>1, <1>4, RefuseKeeps
<1> QED
  BY <1>2, <1>3, <1>4 DEF JsLookup

LEMMA JsPackageKeeps ==
  ASSUME IInv, JsPackage
  PROVE  IInv'
<1>1. pc # "idle" /\ provider = "js" /\ callbacks = "package"
  BY DEF JsPackage, Js
<1>2. JsResultLength(call) = call.len
  BY DEF JsResultLength, AutoPadding
<1> DEFINE buffer == Written(Blank(call.room), 1, call.len)
<1>3. /\ buffer \in [1..call.room -> Nat]
      /\ \A i \in 1..SmallerOf(call.len, call.room) : buffer[i] = i
  BY Typed, BlankType, WrittenFacts
<1> HIDE DEF buffer
<1>4. CASE HasResult(call) /\ CopyBack(call.len, buffer) /\ UNCHANGED fault
  <2>1. CASE call.hook \notin CipherHooks
    <3>1. out' = buffer /\ Leave("true") /\ UNCHANGED <<bytes_written, status>>
      BY <1>4, <2>1 DEF CopyBack
    <3> QED
      BY <1>1, <1>3, <1>4, <2>1, <3>1, Typed, SucceedKeeps
  <2>2. CASE call.hook \in CipherHooks
    <3>1. call.len <= call.room
      BY <2>2, Typed, CallFacts
    <3>2. /\ out' = [i \in DOMAIN out |-> IF i <= call.len THEN buffer[i] ELSE out[i]]
          /\ bytes_written' = call.len /\ status' = status /\ Leave("true")
      BY <1>4, <2>2, <3>1, Typed DEF CopyBack
    <3>3. out' \in [1..call.room -> Nat]
      BY <1>3, <3>2, Typed
    <3>4. \A i \in 1..SmallerOf(call.len, call.room) : out'[i] = i
      BY <1>3, <3>1, <3>2, Typed DEF SmallerOf
    <3> QED
      BY <1>1, <1>4, <3>2, <3>3, <3>4, Typed, SucceedKeeps
  <2> QED
    BY <2>1, <2>2
<1>5. CASE ~HasResult(call) /\ Refuse /\ UNCHANGED fault
  BY <1>1, <1>5, Typed, RefuseKeeps
<1>6. CASE Refuse /\ fault' = TRUE
  BY <1>1, <1>6, RefuseKeeps
<1> QED
  BY <1>2, <1>4, <1>5, <1>6 DEF JsPackage, AutoPadding, buffer

LEMMA JsApplicationKeeps ==
  ASSUME IInv, JsApplication
  PROVE  IInv'
<1>1. pc # "idle" /\ provider = "js" /\ callbacks = "application" /\ fault' = fault
      /\ fault' \in BOOLEAN
  BY Typed DEF JsApplication, Js
<1>2. CASE Leave("false") /\ UNCHANGED <<out, bytes_written, status>>
  <2>1. TypeOK' /\ Progress'
    BY <1>1, <1>2 DEF IInv, TypeOK, Progress, Leave
  <2>2. (WholeResult /\ NeverOverruns /\ HooksAgree /\ FailuresCarryStatus)'
    BY <1>1, <1>2 DEF Leave, WholeResult, NeverOverruns, HooksAgree, FailuresCarryStatus
  <2> QED
    BY <2>1, <2>2 DEF IInv
<1>3. CASE Refuse
  BY <1>1, <1>3, RefuseKeeps
<1>4. CASE Leave("thrown") /\ UNCHANGED <<out, bytes_written, status>>
  BY <1>1, <1>4, AbandonKeeps
<1>5. ASSUME NEW n \in 0..(MaxLen + 1), NEW right \in 0..call.room,
             CopyBack(n, Written(Blank(call.room), 1, right))
      PROVE  IInv'
  <2> DEFINE buffer == Written(Blank(call.room), 1, right)
  <2>1. n \in Nat /\ buffer \in [1..call.room -> Nat]
    <3>1. n \in Nat /\ right \in Nat /\ call.room \in Nat
      BY SizesAssumption, Typed
    <3>2. Blank(call.room) \in [1..call.room -> Nat]
      BY <3>1, BlankType
    <3> QED
      BY <3>1, <3>2, WrittenFacts
  <2> HIDE DEF buffer
  <2>2. CASE call.hook \notin CipherHooks
    <3>1. out' = buffer /\ Leave("true") /\ UNCHANGED <<bytes_written, status>>
      BY <1>5, <2>2 DEF CopyBack, buffer
    <3> QED
      BY <1>1, <2>1, <3>1, Typed, SucceedKeeps
  <2>3. CASE call.hook \in CipherHooks /\ n > call.room
    <3>1. Leave("overrun") /\ out' = out /\ bytes_written' = n /\ status' = status
      BY <1>5, <2>3 DEF CopyBack
    <3>2. TypeOK' /\ Progress'
      BY <1>1, <2>1, <3>1 DEF IInv, TypeOK, Progress, Leave
    <3>3. (WholeResult /\ NeverOverruns /\ HooksAgree /\ FailuresCarryStatus)'
      BY <1>1, <3>1
      DEF Leave, WholeResult, NeverOverruns, HooksAgree, FailuresCarryStatus
    <3> QED
      BY <3>2, <3>3 DEF IInv
  <2>4. CASE call.hook \in CipherHooks /\ ~(n > call.room)
    <3>1. /\ out' = [i \in DOMAIN out |-> IF i <= n THEN buffer[i] ELSE out[i]]
          /\ bytes_written' = n /\ status' = status /\ Leave("true")
      BY <1>5, <2>4 DEF CopyBack, buffer
    <3>2. out' \in [1..call.room -> Nat]
      BY <2>1, <3>1, Typed
    <3> QED
      BY <1>1, <2>1, <3>1, <3>2, SucceedKeeps
  <2> QED
    BY <2>2, <2>3, <2>4
<1> QED
  BY <1>2, <1>3, <1>4, <1>5 DEF JsApplication

\* Only a live object makes the two implementations comparable: when it goes, the
\* properties ask no more of the hooks than before.
LEMMA WrapperGoes ==
  ASSUME IInv, Collect \/ Finalize
  PROVE  IInv'
<1>1. mc' # "live" /\ mc' \in {"collected", "finalized"}
      /\ UNCHANGED <<provider, callbacks, call, pc, out, bytes_written, status, end, fault>>
  BY DEF Collect, Finalize, hookVars
<1>2. TypeOK' /\ Progress'
  BY <1>1 DEF IInv, TypeOK, Progress
<1>3. (WholeResult /\ NeverOverruns /\ HooksAgree /\ FailuresCarryStatus)'
  BY <1>1 DEF IInv, WholeResult, NeverOverruns, HooksAgree, FailuresCarryStatus
<1> QED
  BY <1>2, <1>3 DEF IInv

THEOREM StepIInv == IInv /\ [Next]_vars => IInv'
<1> SUFFICES ASSUME IInv, [Next]_vars PROVE IInv'
  OBVIOUS
<1>1. ASSUME NEW c \in Calls, BeginCall(c) PROVE IInv'
  BY <1>1, BeginKeeps
<1>2. CASE NativeStep
  BY <1>2, NativeInitKeeps, NativeUpdateKeeps, NativeFinalKeeps, NativeDigestKeeps,
     NativeSignKeeps DEF NativeStep
<1>3. CASE NativeFault
  BY <1>3, NativeFaultKeeps
<1>4. CASE JsStep
  BY <1>4, JsLookupKeeps, JsPackageKeeps, JsApplicationKeeps DEF JsStep
<1>5. CASE Collect \/ Finalize
  BY <1>5, WrapperGoes
<1>6. CASE UNCHANGED vars
  BY <1>6 DEF vars, hookVars, IInv, TypeOK, Progress, WholeResult, NeverOverruns,
              HooksAgree, FailuresCarryStatus
<1> QED
  BY <1>1, <1>2, <1>3, <1>4, <1>5, <1>6 DEF Next

\* Every variable keeps its type, and the buffer its length, for all block and
\* buffer sizes.
THEOREM TypeCorrect == Spec => []TypeOK
<1>1. IInv => TypeOK
  BY DEF IInv
<1> QED
  BY <1>1, InitIInv, StepIInv, PTL DEF Spec

\* Success of a hook of this package means the whole result, in place: whatever the
\* block size and the lengths, Final overwrites nothing (openssl-crypto.cc:166).
THEOREM ResultsAreWhole == Spec => []WholeResult
<1>1. IInv => WholeResult
  BY DEF IInv
<1> QED
  BY <1>1, InitIInv, StepIInv, PTL DEF Spec

\* The callbacks of this package never make CopyBufferData's assertion fail
\* (mongocrypt.cc:64).
THEOREM BuffersSuffice == Spec => []NeverOverruns
<1>1. IInv => NeverOverruns
  BY DEF IInv
<1> QED
  BY <1>1, InitIInv, StepIInv, PTL DEF Spec

\* Native and JavaScript hooks accept and refuse the same calls.
THEOREM ImplementationsAgree == Spec => []HooksAgree
<1>1. IInv => HooksAgree
  BY DEF IInv
<1> QED
  BY <1>1, InitIInv, StepIInv, PTL DEF Spec

\* A hook of this package that returns false has set the status.
THEOREM FalseMeansStatus == Spec => []FailuresCarryStatus
<1>1. IInv => FailuresCarryStatus
  BY DEF IInv
<1> QED
  BY <1>1, InitIInv, StepIInv, PTL DEF Spec

-----------------------------------------------------------------------------
\* How a hook fails.

\* Every stage that an object has reached, it still has behind it.
LEMMA UntilFacts ==
  ASSUME IInv
  PROVE  /\ mc \in Stages /\ mc \in Until(mc) /\ "live" \in Until(mc)
         /\ \A stage \in Until(mc) : stage \in Stages
  BY DEF IInv, TypeOK, Until, Stages

\* What the hooks of an object that is still alive can fail with.
LEMMA LiveFailures ==
  /\ \A c, how : how \in {"false", "aborted"} =>
        [how |-> how, why |-> "crypto"] \in HookFailuresOf("native_openssl", c, "live")
  /\ [how |-> "false", why |-> "crypto"] \in HookFailuresOf("js", "package", "live")
  /\ \A why \in {"callback", "unexplained"} :
        [how |-> "false", why |-> why] \in HookFailuresOf("js", "application", "live")
  /\ \A how \in {"thrown", "aborted"} :
        [how |-> how, why |-> "callback"] \in HookFailuresOf("js", "application", "live")
  BY DEF HookFailuresOf

\* A native hook that fails is bound to: the status is set when it returns false.
LEMMA NativeFailsForeseen ==
  ASSUME IInv, NEW how \in {"false", "thrown", "aborted"}, Leave(how),
         provider = "native_openssl", how = "false" => status' = "set"
  PROVE  FailuresForeseen'
<1> DEFINE ending == IF how = "false" THEN "false" ELSE "aborted"
           f == [how |-> ending, why |-> "crypto"]
<1>1. provider' = "native_openssl" /\ mc' = mc /\ end' = how
  BY DEF Leave
<1>2. "live" \in Until(mc') /\ f \in HookFailuresOf(provider', callbacks', "live")
  BY <1>1, UntilFacts, LiveFailures
<1>3. f.how = Outcome' /\ f.why # "unexplained"
  BY <1>1 DEF Outcome
<1>4. ~(end' = "false" /\ status' = "none")
  BY <1>1
<1> HIDE DEF f
<1> QED
  BY <1>2, <1>3, <1>4 DEF FailuresForeseen

\* A JavaScript callback that fails does so in one of the ways of whoever wrote it.
LEMMA CallbackFailsForeseen ==
  ASSUME IInv, NEW how \in {"false", "thrown", "overrun"}, Leave(how), provider = "js",
         status' \in {"none", "set"},
         callbacks = "package" => how = "false" /\ status' = "set"
  PROVE  FailuresForeseen'
<1> DEFINE why == IF callbacks = "package" THEN "crypto"
                  ELSE IF how = "false" /\ status' = "none" THEN "unexplained"
                  ELSE "callback"
           ending == IF how = "overrun" THEN "aborted" ELSE how
           f == [how |-> ending, why |-> why]
<1>1. provider' = "js" /\ callbacks' = callbacks /\ mc' = mc /\ end' = how
      /\ callbacks \in {"package", "application"}
  BY DEF Leave, IInv, TypeOK
<1>2. f \in HookFailuresOf(provider', callbacks', "live")
  <2>1. CASE callbacks = "package"
    BY <1>1, <2>1, LiveFailures
  <2>2. CASE callbacks = "application"
    <3>1. CASE how = "false"
      BY <1>1, <2>2, <3>1, LiveFailures
    <3>2. CASE how \in {"thrown", "overrun"}
      BY <1>1, <2>2, <3>2, LiveFailures
    <3> QED
      BY <3>1, <3>2
  <2> QED
    BY <1>1, <2>1, <2>2
<1>3. "live" \in Until(mc')
  BY <1>1, UntilFacts
<1>4. f.how = Outcome'
  BY <1>1 DEF Outcome
<1>5. f.why = "unexplained" <=> end' = "false" /\ status' = "none"
  BY <1>1
<1> HIDE DEF f
<1> QED
  BY <1>2, <1>3, <1>4, <1>5 DEF FailuresForeseen

\* A hook whose object is gone fails as the stage it found it in demands.
LEMMA LookupFailsForeseen ==
  ASSUME IInv, JsLookup
  PROVE  FailuresForeseen'
<1>1. provider = "js" /\ provider' = "js"
  BY DEF JsLookup, Js, Leave, Goto, Refuse
<1>2. CASE mc = "live" /\ Goto("callback")
  <2>1. end' = "running"
    BY <1>2 DEF Goto, JsLookup, Js, IInv, Progress
  <2> QED
    BY <2>1 DEF FailuresForeseen
<1>3. CASE mc = "collected" /\ Leave("thrown")
  <2> DEFINE f == [how |-> "thrown", why |-> "gone"]
  <2>1. f \in HookFailuresOf(provider', callbacks', "collected") /\ mc' = "collected"
    BY <1>1, <1>3 DEF HookFailuresOf, Leave
  <2>2. f.how = Outcome' /\ f.why # "unexplained" /\ end' # "false"
    BY <1>1, <1>3 DEF Outcome, Leave
  <2> QED
    BY <2>1, <2>2 DEF FailuresForeseen, Until
<1>4. CASE mc = "finalized" /\ Refuse
  <2> DEFINE f == [how |-> "false", why |-> "gone"]
  <2>1. f \in HookFailuresOf(provider', callbacks', "finalized") /\ mc' = "finalized"
    BY <1>1, <1>4 DEF HookFailuresOf, Leave, Refuse
  <2>2. f.how = Outcome' /\ f.why # "unexplained" /\ status' # "none"
    BY <1>1, <1>4 DEF Outcome, Leave, Refuse
  <2> QED
    BY <2>1, <2>2 DEF FailuresForeseen, Until, Stages
<1> QED
  BY <1>2, <1>3, <1>4 DEF JsLookup

\* A call that runs, or that succeeded, has not failed.
LEMMA NoFailure ==
  ASSUME end' \in {"none", "running", "true"}
  PROVE  FailuresForeseen'
  BY DEF FailuresForeseen

LEMMA NativeStepForeseen ==
  ASSUME IInv, IInv', NativeStep \/ NativeFault
  PROVE  FailuresForeseen'
<1>1. provider = "native_openssl"
  BY DEF NativeStep, NativeInit, NativeUpdate, NativeFinal, NativeDigest, NativeSign,
         NativeFault, Native
<1>2. CASE NativeInit
  <2>1. CASE Goto("update")
    <3>1. end' = "running"
      BY <1>2, <2>1 DEF Goto, NativeInit, Native, IInv, Progress
    <3> QED
      BY <3>1, NoFailure
  <2>2. CASE Leave("thrown")
    BY <1>1, <2>2, NativeFailsForeseen
  <2> QED
    BY <1>2, <2>1, <2>2 DEF NativeInit
<1>3. CASE NativeUpdate
  <2>1. end' = "running"
    BY <1>3 DEF Goto, NativeUpdate, Native, IInv, Progress
  <2> QED
    BY <2>1, NoFailure
<1>4. CASE Leave("true")
  BY <1>4, NoFailure DEF Leave
<1>5. CASE Refuse
  BY <1>1, <1>5, NativeFailsForeseen DEF Refuse
<1>6. ASSUME NEW how \in {"thrown", "aborted"}, Leave(how) PROVE FailuresForeseen'
  BY <1>1, <1>6, NativeFailsForeseen
<1> QED
  BY <1>2, <1>3, <1>4, <1>5, <1>6
  DEF NativeStep, NativeFinal, NativeDigest, NativeSign, NativeFault

LEMMA JsCallbackForeseen ==
  ASSUME IInv, IInv', JsPackage \/ JsApplication
  PROVE  FailuresForeseen'
<1>1. provider = "js"
  BY DEF JsPackage, JsApplication, Js
<1>2. status' \in {"none", "set"} /\ (end' = "overrun" => callbacks' = "application")
  BY DEF IInv, TypeOK, NeverOverruns
<1>3. CASE Refuse
  BY <1>1, <1>3, CallbackFailsForeseen DEF Refuse
<1>4. CASE Leave("true")
  BY <1>4, NoFailure DEF Leave
<1>5. CASE Leave("overrun")
  BY <1>1, <1>2, <1>5, CallbackFailsForeseen DEF Leave
<1>6. CASE callbacks = "application" /\ (Leave("false") \/ Leave("thrown"))
  BY <1>1, <1>2, <1>6, CallbackFailsForeseen
<1> QED
  BY <1>3, <1>4, <1>5, <1>6 DEF JsPackage, JsApplication, CopyBack

\* An object only moves on: what its hooks failed with stays foreseen.
LEMMA WrapperGoesForeseen ==
  ASSUME IInv, FailuresForeseen, Collect \/ Finalize
  PROVE  FailuresForeseen'
<1>1. \A stage \in Until(mc) : stage \in Until(mc')
  BY DEF Collect, Finalize, Until, Stages
<1>2. UNCHANGED <<provider, callbacks, end, status>>
  BY DEF Collect, Finalize, hookVars
<1>3. Outcome' = Outcome
  BY <1>2 DEF Outcome
<1> QED
  BY <1>1, <1>2, <1>3 DEF FailuresForeseen

LEMMA ForeseenStep == IInv /\ IInv' /\ FailuresForeseen /\ [Next]_vars => FailuresForeseen'
<1> SUFFICES ASSUME IInv, IInv', FailuresForeseen, [Next]_vars PROVE FailuresForeseen'
  OBVIOUS
<1>1. ASSUME NEW c \in Calls, BeginCall(c) PROVE FailuresForeseen'
  BY <1>1, NoFailure DEF BeginCall
<1>2. CASE NativeStep \/ NativeFault
  BY <1>2, NativeStepForeseen
<1>3. CASE JsStep
  BY <1>3, LookupFailsForeseen, JsCallbackForeseen DEF JsStep
<1>4. CASE Collect \/ Finalize
  BY <1>4, WrapperGoesForeseen
<1>5. CASE UNCHANGED vars
  <2>1. UNCHANGED <<provider, callbacks, mc, end, status>>
    BY <1>5 DEF vars, hookVars
  <2>2. Outcome' = Outcome
    BY <2>1 DEF Outcome
  <2> QED
    BY <2>1, <2>2 DEF FailuresForeseen
<1> QED
  BY <1>1, <1>2, <1>3, <1>4, <1>5 DEF Next

\* The failures that a session is prepared for are the only ones a hook has, native or
\* JavaScript, whatever became of the MongoCrypt since the call.
THEOREM FailuresAreForeseen == Spec => []FailuresForeseen
<1>1. Init => FailuresForeseen
  BY DEF Init, FailuresForeseen
<1>2. IInv /\ [Next]_vars => IInv'
  BY StepIInv
<1> QED
  BY <1>1, <1>2, InitIInv, ForeseenStep, PTL DEF Spec

-----------------------------------------------------------------------------
\* The refinement: each step of a hook is a step of the contract, or none.

LEMMA ContractInit == Init => Contract!Init
<1> SUFFICES ASSUME Init PROVE Contract!Init
  OBVIOUS
<1>1. Due(call) = 0 /\ call.room = 0 /\ call.key = TRUE /\ call.hook \notin CipherHooks
  BY DEF Init, Due, HasResult, BlockHooks, CtrHooks, CipherHooks
<1> QED
  BY <1>1 DEF Init, Contract!Init, Blank

\* What is due for a call: all of its result.  It is longer than the buffer exactly
\* when it is a signature that does not fit.
LEMMA DueFacts ==
  ASSUME NEW c \in Calls
  PROVE  /\ Due(c) \in Nat \cup {NoResult}
         /\ HasResult(c) => Due(c) = c.len /\ Due(c) # NoResult
         /\ ~HasResult(c) => Due(c) = NoResult
         /\ ~c.key => ~HasResult(c)
         /\ ~Fits(c) <=> c.len > c.room
<1>1. c.hook \in Hooks /\ c.len \in Nat /\ c.room \in Nat
  BY CallFacts
<1>2. Fits(c) <=> c.len <= c.room
  BY <1>1, CallFacts DEF Fits, Hooks
<1> QED
  BY <1>1, <1>2 DEF Due, HasResult, NoResult

\* A hook that leaves ends its call in the contract too.
LEMMA LeavingEnds ==
  ASSUME IInv, IInv', NEW how, Leave(how), pc # "idle"
  PROVE  /\ Contract!Ends(how)
         /\ provider \in {"js", "native_openssl"} /\ callbacks \in {"package", "application"}
         /\ provider = "native_openssl" => callbacks = "package"
         /\ call \in Calls /\ call' = call /\ callbacks' = callbacks
         /\ provider' = provider /\ mc' = mc /\ end' = how
<1>1. end = "running" /\ end' = how /\ DOMAIN out' = 1..call.room
      /\ call' = call /\ callbacks' = callbacks /\ provider' = provider /\ mc' = mc
  BY DEF IInv, Progress, TypeOK, Leave
<1>2. Contract!Ends(how)
  BY <1>1 DEF Contract!Ends, Contract!task
<1> QED
  BY <1>1, <1>2 DEF IInv, TypeOK, Progress

\* Whatever an application's callback does is in order.
LEMMA ForeignRefines ==
  ASSUME IInv, IInv', pc # "idle", callbacks = "application",
         NEW how \in {"true", "false", "thrown", "overrun"}, Leave(how)
  PROVE  Contract!Next
  BY LeavingEnds DEF Contract!Foreign, Contract!Ours, Contract!Next

\* A success of this package is the whole result, or a signature cut short.
LEMMA SuccessRefines ==
  ASSUME IInv, IInv', pc # "idle", Leave("true"), UNCHANGED <<status, fault>>
  PROVE  Contract!Next
<1>1. CASE callbacks = "application"
  BY <1>1, ForeignRefines
<1>2. CASE callbacks = "package"
  <2>1. /\ Contract!Ends("true") /\ provider \in {"js", "native_openssl"}
        /\ call \in Calls /\ call' = call /\ callbacks' = callbacks
        /\ call.room \in Nat /\ call.len \in Nat
    BY LeavingEnds, CallFacts
  <2>2. /\ HasResult(call)
        /\ Fits(call) \/ provider = "js"
        /\ \A i \in 1..SmallerOf(call.len, call.room) : out'[i] = i
        /\ call.hook \in CipherHooks => bytes_written' = call.len
    <3>1. end' = "true" /\ callbacks' = "package" /\ call' = call /\ provider' = provider
      BY <1>2, LeavingEnds
    <3> QED
      BY <3>1 DEF IInv, WholeResult
  <2>3. Due(call) = call.len /\ Due(call) # NoResult /\ (~Fits(call) <=> call.len > call.room)
    <3>1. HasResult(call)
      BY <1>2, LeavingEnds DEF IInv, WholeResult
    <3> QED
      BY <2>1, <3>1, DueFacts
  <2>4. CASE Fits(call)
    <3>1. \A i \in 1..call.len : out'[i] = i
      BY <2>1, <2>2, <2>3, <2>4 DEF SmallerOf
    <3>2. (IF call'.hook \in CipherHooks THEN bytes_written' ELSE Due(call')) = Due(call)
      BY <2>1, <2>2, <2>3
    <3>3. Contract!Ours
      BY <1>2, <2>1 DEF Contract!Ours
    <3>4. Contract!HasAnswer /\ ~Contract!TooLong
      BY <2>1, <2>3, <2>4 DEF Contract!HasAnswer, Contract!TooLong
    <3>5. Contract!Holds(Due(call))
      BY <2>3, <3>1 DEF Contract!Holds
    <3>6. Contract!Succeed
      BY <2>1, <3>2, <3>3, <3>4, <3>5 DEF Contract!Succeed
    <3> QED
      BY <3>6 DEF Contract!Next
  <2>5. CASE ~Fits(call)
    <3>1. \A i \in 1..call.room : out'[i] = i
      BY <2>1, <2>2, <2>3, <2>5 DEF SmallerOf
    <3>2. Contract!TooLong /\ Contract!Holds(call.room)
      BY <2>1, <2>3, <2>5, <3>1 DEF Contract!TooLong, Contract!HasAnswer, Contract!Holds
    <3>3. provider = "js"
      BY <2>2, <2>5
    <3>4. Contract!CutShort
      BY <1>2, <2>1, <3>2, <3>3 DEF Contract!CutShort
    <3> QED
      BY <3>4 DEF Contract!Next
  <2> QED
    BY <2>4, <2>5
<1> QED
  BY <1>1, <1>2, LeavingEnds

\* A refusal comes with a status, and where there is a reason for it.
LEMMA RefusalRefines ==
  ASSUME IInv, IInv', pc # "idle", Refuse,
         \/ fault' = TRUE
         \/ ~HasResult(call)
         \/ ~Fits(call)
         \/ provider = "js" /\ mc # "live"
         \/ callbacks = "application"
  PROVE  Contract!Next
<1>1. Leave("false") /\ status' = "set"
  BY DEF Refuse
<1>2. CASE callbacks = "application"
  BY <1>1, <1>2, ForeignRefines
<1>3. CASE callbacks = "package"
  <2>1. Contract!Ends("false") /\ call \in Calls /\ provider \in {"js", "native_openssl"}
    BY <1>1, LeavingEnds
  <2>2. Contract!Ours
    BY <1>3, <2>1 DEF Contract!Ours
  <2>3. ~Contract!HasAnswer \/ Contract!TooLong \/ fault' \/ (provider = "js" /\ mc # "live")
    BY <1>3, <2>1, DueFacts DEF Contract!HasAnswer, Contract!TooLong
  <2>4. Contract!GiveUp
    BY <1>1, <2>1, <2>2, <2>3 DEF Contract!GiveUp
  <2> QED
    BY <2>4 DEF Contract!Next
<1> QED
  BY <1>1, <1>2, <1>3, LeavingEnds

\* What is thrown, and what ends the process, is one of the exceptions.
LEMMA EscapeRefines ==
  ASSUME IInv, IInv', pc # "idle", provider = "native_openssl", UNCHANGED status,
         NEW how \in {"thrown", "aborted"}, Leave(how),
         fault' = TRUE \/ (how = "thrown" /\ ~call.key)
  PROVE  Contract!Next
<1>1. Contract!Ends(how) /\ callbacks = "package"
  BY LeavingEnds
<1>2. Contract!Escape
  BY <1>1 DEF Contract!Escape
<1> QED
  BY <1>2 DEF Contract!Next

LEMMA VanishRefines ==
  ASSUME IInv, IInv', pc # "idle", provider = "js", mc # "live", Leave("thrown"),
         UNCHANGED <<status, fault>>
  PROVE  Contract!Next
<1>1. CASE callbacks = "application"
  BY <1>1, ForeignRefines
<1>2. CASE callbacks = "package"
  <2>1. Contract!Ends("thrown")
    BY LeavingEnds
  <2>2. Contract!Vanish
    BY <1>2, <2>1 DEF Contract!Vanish
  <2> QED
    BY <2>2 DEF Contract!Next
<1> QED
  BY <1>1, <1>2, LeavingEnds

\* A step that changes nothing the contract speaks of is none of the contract's.
LEMMA SilentRefines ==
  ASSUME UNCHANGED <<provider, callbacks, call, out, bytes_written, status, end, fault>>,
         (provider' = "js" /\ mc' # "live") <=> (provider = "js" /\ mc # "live")
  PROVE  UNCHANGED Contract!vars
  BY DEF Contract!vars

\* The object goes: only JavaScript hooks notice, and only the first time.
LEMMA LossRefines ==
  ASSUME IInv, IInv', Collect \/ Finalize
  PROVE  Contract!Next \/ UNCHANGED Contract!vars
<1>1. UNCHANGED <<provider, callbacks, call, out, bytes_written, status, end, fault>>
  BY DEF Collect, Finalize, hookVars
<1>2. CASE Finalize \/ provider # "js"
  BY <1>1, <1>2, SilentRefines DEF Collect, Finalize
<1>3. CASE Collect /\ provider = "js"
  <2>1. Contract!Lose
    BY <1>1, <1>3 DEF Collect, Contract!Lose
  <2> QED
    BY <2>1 DEF Contract!Next
<1> QED
  BY <1>2, <1>3

LEMMA NativeRefines ==
  ASSUME IInv, IInv', NativeStep \/ NativeFault
  PROVE  Contract!Next \/ UNCHANGED Contract!vars
<1>1. provider = "native_openssl" /\ pc # "idle" /\ call \in Calls
  BY Typed DEF NativeStep, NativeInit, NativeUpdate, NativeFinal, NativeDigest, NativeSign,
               NativeFault, Native
<1>2. CASE NativeInit
  <2>1. CASE call.key
    BY <1>1, <1>2, <2>1, SilentRefines DEF NativeInit, Goto
  <2>2. CASE ~call.key
    BY <1>1, <1>2, <2>2, EscapeRefines DEF NativeInit
  <2> QED
    BY <2>1, <2>2
<1>3. CASE NativeUpdate
  <2>1. end = "running" /\ DOMAIN out' = 1..call.room
        /\ UNCHANGED <<provider, callbacks, mc, call, status, fault, end>>
    BY <1>3 DEF NativeUpdate, Native, Goto, IInv, Progress, TypeOK
  <2>2. Contract!Scribble
    BY <2>1 DEF Contract!Scribble, Contract!task
  <2> QED
    BY <2>2 DEF Contract!Next
<1>4. CASE NativeFinal
  <2>1. CASE Held(call) = 0
    BY <1>1, <1>4, <2>1, SuccessRefines DEF NativeFinal
  <2>2. CASE Held(call) # 0
    <3>1. ~HasResult(call)
      BY <1>1, <2>2, HeldFacts DEF HasResult
    <3> QED
      BY <1>1, <1>4, <2>2, <3>1, RefusalRefines DEF NativeFinal, AutoPadding
  <2> QED
    BY <2>1, <2>2
<1>5. CASE NativeDigest
  BY <1>1, <1>5, SuccessRefines DEF NativeDigest
<1>6. CASE NativeSign
  <2>1. CASE call.key /\ call.len <= SignatureRoom
    BY <1>1, <1>6, <2>1, SuccessRefines DEF NativeSign
  <2>2. CASE ~(call.key /\ call.len <= SignatureRoom)
    <3>1. ~HasResult(call) \/ ~Fits(call)
      BY <1>1, <1>6, <2>2, CallFacts DEF NativeSign, HasResult, Fits
    <3> QED
      BY <1>1, <1>6, <2>2, <3>1, RefusalRefines DEF NativeSign
  <2> QED
    BY <2>1, <2>2
<1>7. CASE NativeFault
  BY <1>1, <1>7, RefusalRefines, EscapeRefines DEF NativeFault
<1> QED
  BY <1>2, <1>3, <1>4, <1>5, <1>6, <1>7 DEF NativeStep

LEMMA JsRefines ==
  ASSUME IInv, IInv', JsStep
  PROVE  Contract!Next \/ UNCHANGED Contract!vars
<1>1. provider = "js" /\ pc # "idle" /\ call \in Calls
  BY Typed DEF JsStep, JsLookup, JsPackage, JsApplication, Js
<1>2. CASE JsLookup
  <2>1. CASE mc = "live"
    BY <1>1, <1>2, <2>1, SilentRefines DEF JsLookup, Goto
  <2>2. CASE mc = "collected"
    BY <1>1, <1>2, <2>2, VanishRefines DEF JsLookup
  <2>3. CASE mc = "finalized"
    BY <1>1, <1>2, <2>3, RefusalRefines DEF JsLookup
  <2> QED
    BY <2>1, <2>2, <2>3 DEF IInv, TypeOK
<1>3. CASE JsPackage
  <2>1. CASE \E n, buffer : CopyBack(n, buffer) /\ UNCHANGED fault
    <3>1. Leave("true") /\ UNCHANGED <<status, fault>>
      <4>1. end' # "overrun"
        BY <1>3 DEF JsPackage, CopyBack, Leave, Refuse, IInv, NeverOverruns
      <4> QED
        BY <2>1, <4>1 DEF CopyBack, Leave
    <3> QED
      BY <1>1, <3>1, SuccessRefines
  <2>2. CASE Refuse /\ (~HasResult(call) \/ fault' = TRUE)
    BY <1>1, <2>2, RefusalRefines
  <2> QED
    BY <1>3, <2>1, <2>2 DEF JsPackage, AutoPadding
<1>4. CASE JsApplication
  <2>1. \E how \in {"true", "false", "thrown", "overrun"} : Leave(how)
    BY <1>4 DEF JsApplication, CopyBack, Refuse
  <2> QED
    BY <1>1, <1>4, <2>1, ForeignRefines DEF JsApplication
<1> QED
  BY <1>2, <1>3, <1>4 DEF JsStep

LEMMA BeginRefines ==
  ASSUME IInv, IInv', NEW c \in Calls, BeginCall(c)
  PROVE  Contract!Next
<1>1. end \notin {"running", "aborted", "overrun"} /\ end' = "running"
      /\ status' = "none" /\ fault' = FALSE /\ call' = c
      /\ UNCHANGED <<provider, callbacks, mc>>
  BY DEF BeginCall, IInv, Progress
<1>2. c.room \in Nat /\ c.key \in BOOLEAN /\ DOMAIN out' = 1..c.room
  BY <1>1, CallFacts DEF IInv, TypeOK
<1>3. Due(c) \in Nat \cup {NoResult} /\ (~c.key => Due(c) = NoResult)
  BY DueFacts
<1>4. Contract!Call
  BY <1>1, <1>2, <1>3 DEF Contract!Call
<1> QED
  BY <1>4 DEF Contract!Next

LEMMA ContractStep == IInv /\ IInv' /\ [Next]_vars => [Contract!Next]_(Contract!vars)
<1> SUFFICES ASSUME IInv, IInv', [Next]_vars
             PROVE  Contract!Next \/ UNCHANGED Contract!vars
  OBVIOUS
<1>1. CASE \E c \in Calls : BeginCall(c)
  BY <1>1, BeginRefines
<1>2. CASE NativeStep \/ NativeFault
  BY <1>2, NativeRefines
<1>3. CASE JsStep
  BY <1>3, JsRefines
<1>4. CASE Collect \/ Finalize
  BY <1>4, LossRefines
<1>5. CASE UNCHANGED vars
  BY <1>5, SilentRefines DEF vars, hookVars
<1> QED
  BY <1>1, <1>2, <1>3, <1>4, <1>5 DEF Next

\* Native or JavaScript, step by step or in one go: whatever the lengths and whatever
\* fails, a hook succeeds with the whole result or returns false with a status and for
\* a cause, but for the three exceptions HookContract names: a signature cut short by
\* crypto_callbacks.ts:79, what openssl-crypto.cc:31 throws, and the empty weak
\* reference of mongocrypt.cc:852.
THEOREM HooksKeepTheContract == Spec => ImplementsHookContract
<1>1. IInv /\ [Next]_vars => IInv'
  BY StepIInv
<1> QED
  BY <1>1, InitIInv, ContractInit, ContractStep, PTL
  DEF Spec, ImplementsHookContract, Contract!Spec
=============================================================================
