---------------------- MODULE EncryptionSessionProofs ----------------------
(***************************************************************************)
(* Proofs about EncryptionSession and the constructor in it, for any       *)
(* number of KMS requests, pieces and retries.                             *)
(*                                                                         *)
(* CtorInv says how far the constructor has come at each option; the       *)
(* session's invariant says which states of the context the application    *)
(* can meet at each place of its loop, that a failure in the context's     *)
(* status has a cause, and that no request is left unanswered on the way   *)
(* to the document.                                                        *)
(***************************************************************************)
EXTENDS EncryptionSession, TLAPS

Before == {"kmsProviders", "schemaMap", "encryptedFieldsMap", "logger", "cryptoCallbacks"}
Behind == {"cryptSharedLibSearchPaths", "cryptSharedLibPath", "bypassQueryAnalysis",
           "keyExpirationMS", "flags", "init", "ready"}

CtorType == /\ openssl3 \in BOOLEAN
            /\ cryptoCallbacks \in {"package", "application", "incomplete", "undefined"}
            /\ step \in Before \cup {"install"} \cup Behind
            /\ crypto_hooks \in {"none", "js", "native_openssl"}
            /\ initialized \in BOOLEAN
            /\ ctorError \in {"none", "own", "status"}
LoggerStored == "log_handler" \in registered => "logger" \in storage
CallbacksStored == crypto_hooks = "js" => \A h \in JSHooks : HookCallback[h] \in storage
HooksChosen ==
    /\ crypto_hooks = "js" => ~openssl3 /\ cryptoCallbacks \in {"package", "application"}
    /\ crypto_hooks = "native_openssl" => openssl3
    /\ crypto_hooks = "none" <=> step \in Before
HooksInstalled ==
    /\ step \in Before \cup {"install"} /\ ctorError = "none" => registered \subseteq {"log_handler"}
    /\ step \in Behind => registered \ {"log_handler"} = HooksOf(crypto_hooks)
SettingsTaken == /\ settings = asked
                 /\ step \in {"init", "ready"} => Always \subseteq settings
                 /\ initialized <=> step = "ready"
CtorInv == /\ CtorType /\ LoggerStored /\ CallbacksStored /\ HooksChosen
           /\ HooksInstalled /\ SettingsTaken

\* A failure, if there is one, and what must be true then.
Caused(why) == /\ why = "gone" => mc # "live" /\ ~openssl3
               /\ why \in {"callback", "unexplained"} =>
                     cryptoCallbacks = "application" /\ ~openssl3
StatusWhys == {"none", "library", "crypto", "callback", "unexplained", "gone"}

\* What the KMS requests may be.
Answers == [Requests -> [state : {"none", "waiting", "out", "done", "rejected"},
                         left : 0..Pieces, tries : 0..MaxTries]]

Constructed == client \notin {"construct", "ended"} => Ready
StatusCaused == ctxWhy \in StatusWhys /\ Caused(ctxWhy)
StatusMeansError == ctx = "error" \/ ctxWhy = "none"
NothingOpen == ctx \in {"need_kms", "error"} \/ AllAnswered
Wants == {Order[i] : i \in DOMAIN Order}
Places == /\ client \in {"construct", "make"} => ctx = "none"
          /\ client = "loop" => ctx \in Wants \cup {"error"}
          /\ client = "mongo" => ctx \in MongoStates \cup {"error"}
          /\ client = "credentials" => ctx = "need_kms_credentials"
          /\ client = "kms" => ctx = "need_kms"
          /\ client = "finalize" => ctx = "ready"
          /\ client = "check" => ctx = "error" \/ (ctx = "done" /\ buffer = "document")
EndsWell == /\ error = NoError \/ client = "ended"
            /\ client = "ended" /\ error = NoError => buffer = "document" /\ ctx = "done"
SessionInv == /\ TypeOK /\ Constructed /\ StatusCaused /\ StatusMeansError
              /\ NothingOpen /\ Places /\ EndsWell /\ FailuresHaveCause
IInv == CtorInv /\ SessionInv

-----------------------------------------------------------------------------
(* The constructor. *)

\* The order of the options, as far as the invariant depends on it.
LEMMA StepOrder ==
  /\ DOMAIN Steps = 1..13
  /\ \A i, j \in 1..13 : Steps[i] = Steps[j] => i = j
  /\ \A i \in 1..12 : After(Steps[i]) = Steps[i + 1]
<1>1. DOMAIN Steps = 1..13
  BY DEF Steps
<1>2. \A i, j \in 1..13 : Steps[i] = Steps[j] => i = j
  BY DEF Steps
<1>3. ASSUME NEW i \in 1..12 PROVE After(Steps[i]) = Steps[i + 1]
  <2>1. (CHOOSE j \in DOMAIN Steps : Steps[j] = Steps[i]) = i
    BY <1>1, <1>2
  <2>2. 1 + i = i + 1
    OBVIOUS
  <2> QED
    BY <2>1, <2>2 DEF After
<1> QED
  BY <1>1, <1>2, <1>3

\* What follows each option.
LEMMA AfterFacts ==
  /\ step \in Checked => After(step) \in Before
  /\ After("logger") = "cryptoCallbacks"
  /\ After("cryptoCallbacks") = "install"
  /\ After("install") = "cryptSharedLibSearchPaths"
  /\ step \in Unchecked => After(step) \in Behind \ {"init", "ready"}
  /\ After("flags") = "init"
  /\ After("init") = "ready"
<1>1. /\ Steps[1] = "kmsProviders" /\ Steps[2] = "schemaMap"
      /\ Steps[3] = "encryptedFieldsMap" /\ Steps[4] = "logger"
      /\ Steps[5] = "cryptoCallbacks" /\ Steps[6] = "install"
      /\ Steps[7] = "cryptSharedLibSearchPaths" /\ Steps[8] = "cryptSharedLibPath"
      /\ Steps[9] = "bypassQueryAnalysis" /\ Steps[10] = "keyExpirationMS"
      /\ Steps[11] = "flags" /\ Steps[12] = "init" /\ Steps[13] = "ready"
  BY DEF Steps
<1>2. /\ After(Steps[1]) = Steps[2] /\ After(Steps[2]) = Steps[3]
      /\ After(Steps[3]) = Steps[4] /\ After(Steps[4]) = Steps[5]
      /\ After(Steps[5]) = Steps[6] /\ After(Steps[6]) = Steps[7]
      /\ After(Steps[7]) = Steps[8] /\ After(Steps[8]) = Steps[9]
      /\ After(Steps[9]) = Steps[10] /\ After(Steps[10]) = Steps[11]
      /\ After(Steps[11]) = Steps[12] /\ After(Steps[12]) = Steps[13]
  BY StepOrder
<1> QED
  BY <1>1, <1>2 DEF Checked, Unchecked, Before, Behind

\* The constructor's invariant holds at its start.
LEMMA CtorBegins == CtorInit => CtorInv
  BY DEF CtorInit, CtorInv, CtorType, LoggerStored, CallbacksStored, HooksChosen,
         HooksInstalled, SettingsTaken, Before, Behind

\* The storage holds every callback once all of them have been stored.
LEMMA AllStored == \A h \in JSHooks : HookCallback[h] \in First(Len(StoredCallbacks))
<1>1. Len(StoredCallbacks) = 9
  BY DEF StoredCallbacks
<1>2. /\ StoredCallbacks[1] = "aes256CbcEncryptHook" /\ StoredCallbacks[2] = "aes256CbcDecryptHook"
      /\ StoredCallbacks[3] = "aes256CtrEncryptHook" /\ StoredCallbacks[4] = "aes256CtrDecryptHook"
      /\ StoredCallbacks[5] = "randomHook" /\ StoredCallbacks[6] = "hmacSha512Hook"
      /\ StoredCallbacks[7] = "hmacSha256Hook" /\ StoredCallbacks[8] = "sha256Hook"
      /\ StoredCallbacks[9] = "signRsaSha256Hook"
  BY DEF StoredCallbacks
<1>3. /\ StoredCallbacks[1] \in First(9) /\ StoredCallbacks[2] \in First(9)
      /\ StoredCallbacks[3] \in First(9) /\ StoredCallbacks[4] \in First(9)
      /\ StoredCallbacks[5] \in First(9) /\ StoredCallbacks[6] \in First(9)
      /\ StoredCallbacks[7] \in First(9) /\ StoredCallbacks[8] \in First(9)
      /\ StoredCallbacks[9] \in First(9)
  BY DEF First
<1> QED
  BY <1>1, <1>2, <1>3 DEF JSHooks, HookCallback

\* The calls of installCryptoHooks register everything the hooks have.
LEMMA AllInstalled ==
  ASSUME crypto_hooks \in {"js", "native_openssl"}
  PROVE  Installed(Len(InstallCalls)) = HooksOf(crypto_hooks)
<1>1. Len(InstallCalls) = 4
  BY DEF InstallCalls
<1>2. HooksOf(crypto_hooks) \subseteq JSHooks \cup {"aes_256_ecb_encrypt"}
  BY DEF HooksOf
<1>3. JSHooks \cup {"aes_256_ecb_encrypt"} \subseteq UNION {InstallCalls[i] : i \in 1..4}
  <2>1. /\ InstallCalls[1] = {"aes_256_cbc_encrypt", "aes_256_cbc_decrypt", "random",
                               "hmac_sha_512", "hmac_sha_256", "sha_256"}
        /\ InstallCalls[2] = {"sign_rsa_sha256"}
        /\ InstallCalls[3] = {"aes_256_ctr_encrypt", "aes_256_ctr_decrypt"}
        /\ InstallCalls[4] = {"aes_256_ecb_encrypt"}
    BY DEF InstallCalls
  <2>2. JSHooks \cup {"aes_256_ecb_encrypt"}
          \subseteq InstallCalls[1] \cup InstallCalls[2] \cup InstallCalls[3] \cup InstallCalls[4]
    BY <2>1 DEF JSHooks, HookCallback
  <2>3. InstallCalls[1] \cup InstallCalls[2] \cup InstallCalls[3] \cup InstallCalls[4]
          \subseteq UNION {InstallCalls[i] : i \in 1..4}
    OBVIOUS
  <2> QED
    BY <2>2, <2>3
<1> QED
  BY <1>1, <1>2, <1>3 DEF Installed

\* Options that only become settings, or an exception.
LEMMA ReadCheckedKeeps == CtorInv /\ ReadChecked => CtorInv'
<1> SUFFICES ASSUME CtorInv, ReadChecked PROVE CtorInv'
  OBVIOUS
<1> USE DEF CtorInv, CtorType, ReadChecked, Continue, Throw, SetOpt
<1>1. step \in Before /\ ~initialized
  BY DEF Checked, Before, SettingsTaken
<1>2. step' \in Before
  BY <1>1, AfterFacts
<1>3. CtorType' /\ LoggerStored' /\ CallbacksStored'
  BY <1>2 DEF LoggerStored, CallbacksStored, JSHooks
<1>4. HooksChosen' /\ HooksInstalled'
  BY <1>1, <1>2 DEF HooksChosen, HooksInstalled, Before, Behind
<1>5. SettingsTaken'
  BY <1>1, <1>2 DEF SettingsTaken, Before
<1> QED
  BY <1>3, <1>4, <1>5

\* The logger is stored before the handler that looks it up is registered.
LEMMA ReadLoggerKeeps == CtorInv /\ ReadLogger => CtorInv'
<1> SUFFICES ASSUME CtorInv, ReadLogger PROVE CtorInv'
  OBVIOUS
<1> USE DEF CtorInv, CtorType, ReadLogger, Reading, Continue, Throw
<1>1. step \in Before /\ step' \in Before
  BY AfterFacts DEF Before
<1>2. CtorType' /\ LoggerStored' /\ CallbacksStored'
  BY <1>1 DEF LoggerStored, CallbacksStored, JSHooks
<1>3. HooksChosen' /\ HooksInstalled'
  BY <1>1 DEF HooksChosen, HooksInstalled, Before, Behind
<1>4. SettingsTaken'
  BY <1>1 DEF SettingsTaken, Before
<1> QED
  BY <1>2, <1>3, <1>4

\* The JavaScript hooks are chosen only when every callback has been stored.
LEMMA SetCallbacksKeeps == CtorInv /\ SetCallbacks => CtorInv'
<1> SUFFICES ASSUME CtorInv, SetCallbacks PROVE CtorInv'
  OBVIOUS
<1> USE DEF CtorInv, CtorType, SetCallbacks, Reading, Continue, Throw
<1>1. step = "cryptoCallbacks" /\ step \in Before /\ crypto_hooks = "none"
  BY DEF Before, HooksChosen
<1>2. \/ step' = "install" /\ ctorError' = ctorError /\ crypto_hooks' \in {"js", "native_openssl"}
      \/ step' = step /\ ctorError' = "own" /\ crypto_hooks' = "none"
  BY <1>1, AfterFacts
<1>3. CtorType' /\ LoggerStored'
  BY <1>2 DEF LoggerStored
<1>4. CallbacksStored'
  BY <1>1, AllStored DEF CallbacksStored, JSHooks
<1>5. HooksChosen' /\ HooksInstalled'
  BY <1>1, <1>2 DEF HooksChosen, HooksInstalled, Before, Behind
<1>6. SettingsTaken'
  BY <1>1, <1>2 DEF SettingsTaken
<1> QED
  BY <1>3, <1>4, <1>5, <1>6

\* The constructor goes on only when every hook has been registered.
LEMMA InstallKeeps == CtorInv /\ InstallCryptoHooks => CtorInv'
<1> SUFFICES ASSUME CtorInv, InstallCryptoHooks PROVE CtorInv'
  OBVIOUS
<1> USE DEF CtorInv, CtorType, InstallCryptoHooks, Reading, Continue, Throw
<1>1. step = "install" /\ crypto_hooks \in {"js", "native_openssl"}
  BY DEF HooksChosen, Before
<1>2. PICK n \in 0..Len(InstallCalls) :
         /\ registered' = registered \cup Installed(n)
         /\ IF n = Len(InstallCalls) THEN Continue ELSE Throw("own")
  OBVIOUS
<1>3. \/ step' = "cryptSharedLibSearchPaths" /\ ctorError' = ctorError /\ n = Len(InstallCalls)
      \/ step' = step /\ ctorError' = "own"
  BY <1>1, <1>2, AfterFacts
<1>4. Installed(n) \subseteq HooksOf(crypto_hooks)
  BY DEF Installed
<1>5. "log_handler" \notin HooksOf(crypto_hooks)
  BY <1>1 DEF HooksOf, JSHooks, HookCallback
<1>6. CtorType' /\ CallbacksStored'
  BY <1>3 DEF Behind, CallbacksStored, JSHooks
<1>7. LoggerStored'
  BY <1>2, <1>4, <1>5 DEF LoggerStored
<1>8. HooksChosen' /\ SettingsTaken'
  BY <1>1, <1>3 DEF HooksChosen, SettingsTaken, Before, Behind
<1>9. HooksInstalled'
  <2>1. CASE step' = step
    BY <1>1, <1>3, <2>1 DEF HooksInstalled, Before, Behind
  <2>2. CASE step' = "cryptSharedLibSearchPaths" /\ n = Len(InstallCalls)
    <3>1. registered \subseteq {"log_handler"}
      BY <1>1 DEF HooksInstalled
    <3>2. registered' = registered \cup HooksOf(crypto_hooks)
      BY <1>1, <1>2, <2>2, AllInstalled
    <3>3. registered' \ {"log_handler"} = HooksOf(crypto_hooks)
      BY <1>5, <3>1, <3>2
    <3>4. HooksOf(crypto_hooks)' = HooksOf(crypto_hooks)
      BY DEF HooksOf, JSHooks
    <3> QED
      BY <2>2, <3>3, <3>4 DEF HooksInstalled, Before
  <2> QED
    BY <1>3, <2>1, <2>2
<1> QED
  BY <1>6, <1>7, <1>8, <1>9

\* Options whose setters are not looked at: libmongocrypt is not initialised yet.
LEMMA ReadUncheckedKeeps == CtorInv /\ ReadUnchecked => CtorInv'
<1> SUFFICES ASSUME CtorInv, ReadUnchecked PROVE CtorInv'
  OBVIOUS
<1> USE DEF CtorInv, CtorType, ReadUnchecked, Continue, Throw, SetOpt
<1>1. step \in Behind \ {"init", "ready"} /\ ~initialized
  BY DEF Unchecked, Behind, SettingsTaken
<1>2. step' \in Behind \ {"init", "ready"}
  BY <1>1, AfterFacts
<1>3. CtorType' /\ LoggerStored' /\ CallbacksStored'
  BY <1>2 DEF LoggerStored, CallbacksStored, JSHooks
<1>4. HooksChosen' /\ HooksInstalled'
  BY <1>1, <1>2 DEF HooksChosen, HooksInstalled, HooksOf, JSHooks, Before, Behind
<1>5. SettingsTaken'
  BY <1>1, <1>2 DEF SettingsTaken
<1> QED
  BY <1>3, <1>4, <1>5

\* The four settings the addon relies on are taken before mongocrypt_init.
LEMMA SetFlagsKeeps == CtorInv /\ SetFlags => CtorInv'
<1> SUFFICES ASSUME CtorInv, SetFlags PROVE CtorInv'
  OBVIOUS
<1> USE DEF CtorInv, CtorType, SetFlags, Reading, Continue, SetOpt
<1>1. step = "flags" /\ step' = "init" /\ ~initialized
  BY AfterFacts DEF SettingsTaken
<1>2. CtorType' /\ LoggerStored' /\ CallbacksStored'
  BY <1>1 DEF LoggerStored, CallbacksStored, JSHooks, Behind
<1>3. HooksChosen' /\ HooksInstalled'
  BY <1>1 DEF HooksChosen, HooksInstalled, HooksOf, JSHooks, Before, Behind
<1>4. SettingsTaken'
  BY <1>1 DEF SettingsTaken, Always
<1> QED
  BY <1>2, <1>3, <1>4

\* mongocrypt_init is the last thing that can fail.
LEMMA InitializeKeeps == CtorInv /\ Initialize => CtorInv'
<1> SUFFICES ASSUME CtorInv, Initialize PROVE CtorInv'
  OBVIOUS
<1> USE DEF CtorInv, CtorType, Initialize, Reading, Continue, Throw
<1>1. /\ step = "init"
      /\ \/ step' = "ready" /\ initialized'
         \/ step' = "init" /\ initialized' = initialized /\ ctorError' = "status"
  BY AfterFacts
<1>2. CtorType' /\ LoggerStored' /\ CallbacksStored'
  BY <1>1 DEF LoggerStored, CallbacksStored, JSHooks, Behind
<1>3. HooksChosen' /\ HooksInstalled'
  BY <1>1 DEF HooksChosen, HooksInstalled, HooksOf, JSHooks, Before, Behind
<1>4. SettingsTaken'
  BY <1>1 DEF SettingsTaken, Always
<1> QED
  BY <1>2, <1>3, <1>4

\* Every step of the constructor keeps its invariant.
LEMMA ConstructorKeeps == CtorInv /\ Constructor => CtorInv'
  BY ReadCheckedKeeps, ReadLoggerKeeps, SetCallbacksKeeps, InstallKeeps, ReadUncheckedKeeps,
     SetFlagsKeeps, InitializeKeeps DEF Constructor

\* A call on a context leaves the constructor's outcome alone.
LEMMA CtorStays == CtorInv /\ UNCHANGED ctorVars => CtorInv'
  BY DEF CtorInv, CtorType, LoggerStored, CallbacksStored, HooksChosen, HooksInstalled,
         SettingsTaken, ctorVars, HooksOf, JSHooks

-----------------------------------------------------------------------------
(* The session: facts shared by its actions. *)

\* A session that has not ended has seen no error.
LEMMA StillRunning ==
  ASSUME IInv, client # "ended"
  PROVE  error = NoError /\ error.why = "none"
  BY DEF IInv, SessionInv, EndsWell, NoError

\* A failing hook has a reason, and the reason a cause.
LEMMA HookWhys ==
  ASSUME IInv, Ready, NEW f \in HookFailures
  PROVE  f.why \in StatusWhys \ {"none"} /\ Caused(f.why)
<1>1. crypto_hooks \in {"js", "native_openssl"}
  BY DEF IInv, CtorInv, CtorType, HooksChosen, Ready, Before
<1>2. mc \in {"live", "collected", "finalized"}
  BY DEF IInv, SessionInv, TypeOK
<1>3. CASE crypto_hooks = "native_openssl"
  <2>1. f.why = "crypto"
    BY <1>3 DEF HookFailures, HookFailuresOf
  <2> QED
    BY <2>1 DEF StatusWhys, Caused
<1>4. CASE crypto_hooks = "js" /\ mc # "live"
  <2>1. f.why = "gone"
    BY <1>2, <1>4 DEF HookFailures, HookFailuresOf
  <2>2. ~openssl3
    BY <1>4 DEF IInv, CtorInv, HooksChosen
  <2> QED
    BY <1>4, <2>1, <2>2 DEF StatusWhys, Caused
<1>5. CASE crypto_hooks = "js" /\ mc = "live"
  <2>1. ~openssl3 /\ cryptoCallbacks \in {"package", "application"}
    BY <1>5 DEF IInv, CtorInv, HooksChosen
  <2>2. \/ f.why = "crypto"
        \/ cryptoCallbacks # "package" /\ f.why \in {"callback", "unexplained"}
    BY <1>5 DEF HookFailures, HookFailuresOf
  <2> QED
    BY <2>1, <2>2 DEF StatusWhys, Caused
<1> QED
  BY <1>1, <1>3, <1>4, <1>5

\* The same, for the ways in which a hook can fail.
LEMMA FailingWhys ==
  ASSUME IInv, Ready, NEW how, NEW why \in Failing(how)
  PROVE  why \in StatusWhys \ {"none"} /\ Caused(why)
  BY HookWhys DEF Failing

\* A call that libmongocrypt refuses has a reason, and the reason a cause.
LEMMA RefusalWhys ==
  ASSUME IInv, Ready, NEW why \in Refusals
  PROVE  why \in StatusWhys \ {"none"} /\ Caused(why)
<1>1. CASE why = "library"
  BY <1>1 DEF StatusWhys, Caused
<1>2. CASE why \in Failing("false")
  BY <1>2, FailingWhys
<1> QED
  BY <1>1, <1>2 DEF Refusals

\* The application ends the session with an error that has a cause.
LEMMA EndingKeeps ==
  ASSUME IInv,
         NEW from \in {"exception", "status", "client", "abort"}, NEW wrapped \in BOOLEAN,
         NEW why \in Whys \ {"credentials"},
         EndWith(from, wrapped, why), Caused(why),
         why = "network" => \E r \in Requests : kms[r].tries = MaxTries,
         UNCHANGED <<ctorVars, mc, ctx, ctxWhy, kms, buffer>>
  PROVE  SessionInv'
<1> USE DEF IInv, SessionInv, EndWith, ctorVars
<1>1. TypeOK'
  BY DEF TypeOK
<1>2. Constructed' /\ StatusCaused' /\ StatusMeansError'
  BY DEF Constructed, StatusCaused, StatusMeansError, Caused
<1>3. NothingOpen' /\ Places'
  BY DEF NothingOpen, AllAnswered, Places
<1>4. EndsWell'
  BY DEF EndsWell, NoError
<1>5. FailuresHaveCause'
  BY DEF FailuresHaveCause, Caused
<1> QED
  BY <1>1, <1>2, <1>3, <1>4, <1>5

\* A hook's exception, or the end of the process.
LEMMA HookEndsCallKeeps ==
  ASSUME IInv, Ready, HookEndsCall, UNCHANGED <<ctorVars, mc>>
  PROVE  SessionInv'
<1>1. UNCHANGED <<ctorVars, mc, ctx, ctxWhy, kms, buffer>>
  BY DEF HookEndsCall
<1>2. PICK from \in {"exception", "abort"}, wrapped \in BOOLEAN,
           why \in Failing("thrown") \cup Failing("aborted") : EndWith(from, wrapped, why)
  BY DEF HookEndsCall, Wrapped
<1>3. why \in StatusWhys \ {"none"} /\ Caused(why)
  BY <1>2, FailingWhys
<1>4. why \in Whys \ {"credentials"} /\ why # "network"
  BY <1>3 DEF StatusWhys, Whys
<1> QED
  BY <1>1, <1>2, <1>3, <1>4, EndingKeeps

\* The session goes on elsewhere, with what the context needs to be there.
LEMMA MovingKeeps ==
  ASSUME IInv, Ready, client # "ended", UNCHANGED <<ctorVars, mc, error>>,
         client' \in {"loop", "mongo", "credentials", "kms", "finalize", "check"},
         ctx' \in {"none", "done", "error"} \cup Wants,
         kms' \in Answers,
         buffer' \in {"none", "document", "empty"},
         StatusCaused', StatusMeansError', NothingOpen', Places'
  PROVE  SessionInv'
<1> USE DEF IInv, SessionInv
<1>1. error' = NoError /\ error'.why = "none"
  BY StillRunning
<1>2. TypeOK'
  BY DEF TypeOK, Answers, StatusCaused, StatusWhys, Whys, Wants
<1>3. Constructed'
  BY DEF Constructed, Ready, ctorVars
<1>4. EndsWell'
  BY <1>1 DEF EndsWell
<1>5. FailuresHaveCause'
  BY <1>1 DEF FailuresHaveCause
<1> QED
  BY <1>2, <1>3, <1>4, <1>5

\* A refused call leaves the context in the error state, with a cause.
LEMMA RefusedFacts ==
  ASSUME IInv, Ready, Refused, UNCHANGED <<ctorVars, mc>>
  PROVE  /\ ctx' = "error" /\ kms' = kms
         /\ StatusCaused' /\ StatusMeansError' /\ NothingOpen'
<1>1. ctx' = "error" /\ kms' = kms /\ (ctxWhy' = ctxWhy \/ ctxWhy' \in Refusals)
  BY DEF Refused
<1>2. ctxWhy' \in StatusWhys /\ Caused(ctxWhy')
  BY <1>1, RefusalWhys DEF IInv, SessionInv, StatusCaused
<1>3. StatusCaused'
  BY <1>2 DEF StatusCaused, Caused, ctorVars
<1> QED
  BY <1>1, <1>3 DEF StatusMeansError, NothingOpen

\* A call that succeeds takes the context to a later state or to another round, never
\* to the error of missing credentials, and its KMS requests, if it has some, are new.
LEMMA AdvanceFacts ==
  ASSUME IInv, Ready, ctx # "error", AllAnswered, Advance, UNCHANGED <<ctorVars, mc>>
  PROVE  /\ ctx' \in Wants /\ ctxWhy' = "none"
         /\ kms' \in Answers
         /\ StatusCaused' /\ StatusMeansError' /\ NothingOpen'
<1>1. "need_kms_credentials" \in settings
  BY DEF IInv, CtorInv, SettingsTaken, Ready, Always
<1>2. PICK s \in Later(ctx) \cup ({"need_kms"} \cap {ctx}) :
         /\ IF s = "need_kms_credentials" /\ "need_kms_credentials" \notin settings
            THEN ctx' = "error" /\ ctxWhy' = "credentials"
            ELSE ctx' = s /\ UNCHANGED ctxWhy
         /\ IF s = "need_kms"
            THEN \E some \in (SUBSET Unasked) \ {{}} :
                    kms' = [r \in Requests |->
                              IF r \in some THEN [NoRequest EXCEPT !.state = "waiting"]
                              ELSE kms[r]]
            ELSE UNCHANGED kms
  BY DEF Advance
<1>3. ctx' = s /\ s \in Wants /\ ctxWhy' = ctxWhy
  <2>1. DOMAIN Order = 1..5 /\ Order[4] = "need_kms"
    BY DEF Order
  <2> QED
    BY <1>1, <1>2, <2>1 DEF Later, Wants
<1>4. ctxWhy = "none"
  BY DEF IInv, SessionInv, StatusMeansError
<1>5. kms' \in Answers
  <2>1. CASE s = "need_kms"
    <3>1. PICK some \in SUBSET Unasked :
             kms' = [r \in Requests |->
                       IF r \in some THEN [NoRequest EXCEPT !.state = "waiting"] ELSE kms[r]]
      BY <1>2, <2>1
    <3>2. 0 \in 0..Pieces /\ 0 \in 0..MaxTries
      BY BoundsAssumption
    <3>3. kms \in Answers
      BY DEF IInv, SessionInv, TypeOK, Answers
    <3> QED
      BY <3>1, <3>2, <3>3 DEF NoRequest, Answers
  <2>2. CASE s # "need_kms"
    BY <1>2, <2>2 DEF IInv, SessionInv, TypeOK, Answers
  <2> QED
    BY <2>1, <2>2
<1>6. StatusCaused' /\ StatusMeansError'
  BY <1>3, <1>4 DEF StatusCaused, StatusMeansError, StatusWhys, Caused
<1>7. NothingOpen'
  <2>1. CASE s = "need_kms"
    BY <1>3, <2>1 DEF NothingOpen
  <2>2. CASE s # "need_kms"
    BY <1>2, <2>2 DEF NothingOpen, AllAnswered
  <2> QED
    BY <2>1, <2>2
<1> QED
  BY <1>3, <1>4, <1>5, <1>6, <1>7

\* A call after which the application goes round its loop: libmongocrypt goes on,
\* refuses what it was given, or a hook ends the call.
LEMMA LoopingKeeps ==
  ASSUME IInv, Ready, client # "ended", UNCHANGED <<ctorVars, mc>>,
         \/ ctx # "error" /\ AllAnswered /\ Advance /\ Goto("loop") /\ UNCHANGED buffer
         \/ Refused /\ Goto("loop") /\ UNCHANGED buffer
         \/ HookEndsCall
  PROVE  SessionInv'
<1>1. CASE ctx # "error" /\ AllAnswered /\ Advance /\ Goto("loop") /\ UNCHANGED buffer
  <2>1. Places'
    BY <1>1, AdvanceFacts DEF Places, Goto
  <2>2. buffer' \in {"none", "document", "empty"} /\ client' = "loop" /\ error' = error
    BY <1>1 DEF IInv, SessionInv, TypeOK, Answers, Goto
  <2> QED
    BY <1>1, <2>1, <2>2, AdvanceFacts, MovingKeeps
<1>2. CASE Refused /\ Goto("loop") /\ UNCHANGED buffer
  <2>1. Places'
    BY <1>2, RefusedFacts DEF Places, Goto
  <2>2. /\ buffer' \in {"none", "document", "empty"} /\ client' = "loop" /\ error' = error
        /\ kms \in Answers
    BY <1>2 DEF IInv, SessionInv, TypeOK, Answers, Goto
  <2> QED
    BY <1>2, <2>1, <2>2, RefusedFacts, MovingKeeps
<1>3. CASE HookEndsCall
  BY <1>3, HookEndsCallKeeps
<1> QED
  BY <1>1, <1>2, <1>3

\* An error of the bindings about the application's own arguments.
LEMMA ArgumentKeeps ==
  ASSUME IInv, UNCHANGED <<ctorVars, mc, ctx, ctxWhy, kms, buffer>>,
         NEW wrapped \in BOOLEAN, EndWith("exception", wrapped, "argument")
  PROVE  SessionInv'
<1>1. Caused("argument") /\ "argument" \in Whys \ {"credentials"}
  BY DEF Caused, Whys
<1> QED
  BY <1>1, EndingKeeps

\* Only the application's place changes.
LEMMA GoingKeeps ==
  ASSUME IInv, Ready, client # "ended",
         client' \in {"loop", "mongo", "credentials", "kms", "finalize", "check"}, Places',
         UNCHANGED <<ctorVars, mc, ctx, ctxWhy, kms, buffer, error>>
  PROVE  SessionInv'
<1>1. /\ ctx \in {"none", "done", "error"} \cup Wants
      /\ kms \in Answers
      /\ buffer \in {"none", "document", "empty"}
  BY DEF IInv, SessionInv, TypeOK, Answers, Wants
<1>2. StatusCaused' /\ StatusMeansError'
  BY DEF IInv, SessionInv, StatusCaused, StatusMeansError, Caused, ctorVars
<1>3. NothingOpen'
  BY DEF IInv, SessionInv, NothingOpen, AllAnswered
<1> QED
  BY <1>1, <1>2, <1>3, MovingKeeps

-----------------------------------------------------------------------------
(* The session: its actions. *)

\* At the places of the loop the constructor has finished.
LEMMA InSession ==
  ASSUME IInv, client \notin {"construct", "ended"}
  PROVE  Ready
  BY DEF IInv, SessionInv, Constructed

\* An exception leaves the constructor where it was, before its end.
LEMMA ThrowingStops ==
  ASSUME Constructor
  PROVE  ctorError' = "none" \/ step' # "ready"
<1> USE DEF Reading, Continue, Throw
<1>1. ctorError = "none"
  BY DEF Constructor, ReadChecked, ReadLogger, SetCallbacks, InstallCryptoHooks, ReadUnchecked,
         SetFlags, Initialize
<1>2. CASE ReadChecked \/ ReadLogger \/ SetCallbacks
  BY <1>1, <1>2 DEF ReadChecked, ReadLogger, SetCallbacks, Checked
<1>3. CASE InstallCryptoHooks
  BY <1>1, <1>3 DEF InstallCryptoHooks
<1>4. CASE ReadUnchecked \/ SetFlags \/ Initialize
  BY <1>1, <1>4 DEF ReadUnchecked, SetFlags, Initialize, Unchecked
<1> QED
  BY <1>2, <1>3, <1>4 DEF Constructor

\* The session is at its context only when the constructor has finished.
LEMMA ConstructKeeps == IInv /\ Construct => SessionInv'
<1> SUFFICES ASSUME IInv, Construct PROVE SessionInv'
  OBVIOUS
<1>1. /\ client = "construct" /\ ctx = "none" /\ error = NoError
      /\ UNCHANGED <<mc, ctx, ctxWhy, kms, buffer>>
  BY StillRunning DEF Construct, IInv, SessionInv, Places
<1>2. \/ client' = "ended" /\ error' = [from |-> "exception", wrapped |-> FALSE, why |-> "constructor"]
      \/ client' = "make" /\ error' = NoError /\ step' = "ready" /\ ctorError' = "none"
      \/ client' = "construct" /\ error' = NoError
  <2> ctorError' = "none" \/ step' # "ready"
    BY ThrowingStops DEF Construct
  <2>1. CASE ctorError' # "none"
    BY <1>1, <2>1 DEF Construct, EndWith
  <2>2. CASE ctorError' = "none" /\ step' = "ready"
    BY <1>1, <2>2 DEF Construct, Goto
  <2>3. CASE ctorError' = "none" /\ step' # "ready"
    BY <1>1, <2>3 DEF Construct
  <2> QED
    BY <2>1, <2>2, <2>3
<1>3. TypeOK'
  <2> DEFINE Errors == [from : {"none", "exception", "status", "client", "abort"},
                        wrapped : BOOLEAN, why : Whys]
  <2>1. NoError \in Errors
    BY DEF NoError, Whys
  <2>2. [from |-> "exception", wrapped |-> FALSE, why |-> "constructor"] \in Errors
    BY DEF Whys
  <2>3. error' \in Errors
    BY <1>2, <2>1, <2>2
  <2> QED
    BY <1>1, <1>2, <2>3 DEF IInv, SessionInv, TypeOK
<1>4. Constructed'
  BY <1>2 DEF Constructed, Ready
<1>5. ctxWhy = "none"
  BY <1>1 DEF IInv, SessionInv, StatusMeansError
<1>6. StatusCaused' /\ StatusMeansError'
  BY <1>1, <1>5 DEF StatusCaused, StatusMeansError, StatusWhys, Caused
<1>7. NothingOpen'
  BY <1>1 DEF IInv, SessionInv, NothingOpen, AllAnswered
<1>8. Places'
  BY <1>1, <1>2 DEF Places
<1>9. EndsWell' /\ FailuresHaveCause'
  BY <1>2 DEF EndsWell, FailuresHaveCause, NoError
<1> QED
  BY <1>3, <1>4, <1>6, <1>7, <1>8, <1>9 DEF SessionInv

\* A context starts in a later state, or was never made.
LEMMA MakeContextKeeps == IInv /\ MakeContext => SessionInv'
<1> SUFFICES ASSUME IInv, MakeContext PROVE SessionInv'
  OBVIOUS
<1>1. client = "make" /\ ctx = "none" /\ UNCHANGED <<ctorVars, mc>>
  BY DEF MakeContext, IInv, SessionInv, Places
<1>2. Ready /\ AllAnswered
  BY <1>1, InSession DEF IInv, SessionInv, NothingOpen
<1>3. CASE Advance /\ Goto("loop") /\ UNCHANGED buffer
  BY <1>1, <1>2, <1>3, LoopingKeeps
<1>4. CASE /\ \E why \in {"argument"} \cup Refusals : Wrapped(why)
           /\ UNCHANGED <<ctx, ctxWhy, kms, buffer>>
  <2>1. PICK why \in {"argument"} \cup Refusals : EndWith("exception", TRUE, why)
    BY <1>4 DEF Wrapped
  <2>2. CASE why = "argument"
    BY <1>1, <1>4, <2>1, <2>2, ArgumentKeeps
  <2>3. CASE why \in Refusals
    <3>1. why \in StatusWhys /\ Caused(why)
      BY <1>2, <2>3, RefusalWhys
    <3>2. why \in Whys \ {"credentials"} /\ why # "network"
      BY <3>1 DEF StatusWhys, Whys
    <3> QED
      BY <1>1, <1>4, <2>1, <3>1, <3>2, EndingKeeps
  <2> QED
    BY <2>2, <2>3
<1>5. CASE HookEndsCall
  BY <1>1, <1>2, <1>5, HookEndsCallKeeps
<1> QED
  BY <1>3, <1>4, <1>5 DEF MakeContext

\* The application goes where the state sends it; an error has its cause.
LEMMA ReadStateKeeps == IInv /\ ReadState => SessionInv'
<1> SUFFICES ASSUME IInv, ReadState PROVE SessionInv'
  OBVIOUS
<1>1. client = "loop" /\ UNCHANGED <<ctorVars, mc, ctx, ctxWhy, kms, buffer>>
  BY DEF ReadState
<1>2. Ready
  BY <1>1, InSession
<1>3. CASE ctx = "error"
  <2>1. EndWith("status", FALSE, ctxWhy)
    BY <1>3 DEF ReadState, MongoStates
  <2>2. /\ Caused(ctxWhy)
        /\ ctxWhy \in Whys \ {"credentials"} /\ ctxWhy # "network"
    BY DEF IInv, SessionInv, StatusCaused, StatusWhys, Whys
  <2> QED
    BY <1>1, <2>1, <2>2, EndingKeeps
<1>4. CASE ctx # "error"
  <2>1. ctx \in MongoStates \cup {"need_kms_credentials", "need_kms", "ready"}
    <3>1. DOMAIN Order = 1..5
      BY DEF Order
    <3>2. Wants = {"need_mongo", "need_kms_credentials", "need_keys", "need_kms", "ready"}
      BY <3>1 DEF Wants, Order
    <3> QED
      BY <1>1, <1>4, <3>2 DEF IInv, SessionInv, Places, MongoStates
  <2>2. \/ ctx \in MongoStates /\ Goto("mongo")
        \/ ctx = "need_kms_credentials" /\ Goto("credentials")
        \/ ctx = "need_kms" /\ Goto("kms")
        \/ ctx = "ready" /\ Goto("finalize")
    BY <2>1 DEF ReadState, MongoStates
  <2>3. Places' /\ error' = error /\ client' \in {"mongo", "credentials", "kms", "finalize"}
    BY <1>1, <2>2 DEF Places, Goto, MongoStates
  <2> QED
    BY <1>1, <1>2, <2>3, GoingKeeps
<1> QED
  BY <1>3, <1>4

\* A refused answer leaves its mark in the state, which is read later.
LEMMA AddMongoOperationResponseKeeps == IInv /\ AddMongoOperationResponse => SessionInv'
<1> SUFFICES ASSUME IInv, AddMongoOperationResponse PROVE SessionInv'
  OBVIOUS
<1>1. client = "mongo" /\ UNCHANGED <<ctorVars, mc, buffer>> /\ Ready
  BY InSession DEF AddMongoOperationResponse
<1>2. CASE Wrapped("argument") /\ UNCHANGED <<ctx, ctxWhy, kms>>
  BY <1>1, <1>2, ArgumentKeeps DEF Wrapped
<1>3. CASE Refused /\ UNCHANGED <<client, error>>
  <2>1. Places'
    BY <1>1, <1>3, RefusedFacts DEF Places
  <2>2. /\ buffer \in {"none", "document", "empty"}
        /\ kms \in Answers
    BY DEF IInv, SessionInv, TypeOK, Answers
  <2> QED
    BY <1>1, <1>3, <2>1, <2>2, RefusedFacts, MovingKeeps
<1>4. CASE HookEndsCall
  BY <1>1, <1>4, HookEndsCallKeeps
<1> QED
  BY <1>2, <1>3, <1>4 DEF AddMongoOperationResponse

\* finishMongoOperation() after answers that may have been refused.
LEMMA FinishMongoOperationKeeps == IInv /\ FinishMongoOperation => SessionInv'
<1> SUFFICES ASSUME IInv, FinishMongoOperation PROVE SessionInv'
  OBVIOUS
<1>1. client = "mongo" /\ UNCHANGED <<ctorVars, mc>> /\ Ready
  BY InSession DEF FinishMongoOperation
<1>2. ctx # "error" => AllAnswered
  BY <1>1 DEF IInv, SessionInv, Places, NothingOpen, MongoStates
<1> QED
  BY <1>1, <1>2, LoopingKeeps DEF FinishMongoOperation

\* Credentials are provided, or are not what they should be.
LEMMA ProvideKMSProvidersKeeps == IInv /\ ProvideKMSProviders => SessionInv'
<1> SUFFICES ASSUME IInv, ProvideKMSProviders PROVE SessionInv'
  OBVIOUS
<1>1. client = "credentials" /\ UNCHANGED <<ctorVars, mc>> /\ Ready
  BY InSession DEF ProvideKMSProviders
<1>2. ctx # "error" /\ AllAnswered
  BY <1>1 DEF IInv, SessionInv, Places, NothingOpen
<1>3. CASE Wrapped("argument") /\ UNCHANGED <<ctx, ctxWhy, kms, buffer>>
  BY <1>1, <1>3, ArgumentKeeps DEF Wrapped
<1> QED
  BY <1>1, <1>2, <1>3, LoopingKeeps DEF ProvideKMSProviders

\* What each thing done to a KMS request leaves of its type.
LEMMA RequestOut ==
  ASSUME IInv, NEW r \in Requests
  PROVE  [kms EXCEPT ![r].state = "out", ![r].left = Pieces] \in Answers
<1>1. kms \in Answers /\ Pieces \in 0..Pieces
  BY BoundsAssumption DEF IInv, SessionInv, TypeOK, Answers
<1> QED
  BY <1>1 DEF Answers

LEMMA RequestPiece ==
  ASSUME IInv, NEW r \in Requests, kms[r].left > 1
  PROVE  [kms EXCEPT ![r].left = @ - 1] \in Answers
<1>1. kms \in Answers
  BY DEF IInv, SessionInv, TypeOK, Answers
<1>2. kms[r].left - 1 \in 0..Pieces
  BY <1>1, BoundsAssumption DEF Answers
<1> QED
  BY <1>1, <1>2 DEF Answers

LEMMA RequestAnswered ==
  ASSUME IInv, NEW r \in Requests, NEW s \in {"done", "rejected"}
  PROVE  [kms EXCEPT ![r].state = s, ![r].left = 0] \in Answers
<1>1. kms \in Answers /\ 0 \in 0..Pieces
  BY BoundsAssumption DEF IInv, SessionInv, TypeOK, Answers
<1> QED
  BY <1>1 DEF Answers

LEMMA RequestAgain ==
  ASSUME IInv, NEW r \in Requests, MayRetry(r), Again(r)
  PROVE  kms' \in Answers
<1>1. kms \in Answers /\ 0 \in 0..Pieces
  BY BoundsAssumption DEF IInv, SessionInv, TypeOK, Answers
<1>2. kms[r].tries + 1 \in 0..MaxTries
  BY <1>1, BoundsAssumption DEF Answers, MayRetry
<1>3. kms' = [kms EXCEPT ![r] = [state |-> "waiting", left |-> 0, tries |-> kms[r].tries + 1]]
  BY DEF Again
<1> QED
  BY <1>1, <1>2, <1>3 DEF Answers

\* Only the requests change, while the application is at them.
LEMMA RequestsKeep ==
  ASSUME IInv, Ready, client = "kms", kms' \in Answers,
         UNCHANGED <<ctorVars, mc, ctx, ctxWhy, buffer, client, error>>
  PROVE  SessionInv'
<1>1. /\ ctx = "need_kms" /\ ctx \in {"none", "done", "error"} \cup Wants
      /\ buffer \in {"none", "document", "empty"}
  BY DEF IInv, SessionInv, TypeOK, Wants, Places
<1>2. StatusCaused' /\ StatusMeansError'
  BY DEF IInv, SessionInv, StatusCaused, StatusMeansError, Caused, ctorVars
<1>3. NothingOpen' /\ Places'
  BY <1>1 DEF NothingOpen, Places
<1> QED
  BY <1>1, <1>2, <1>3, MovingKeeps

\* A request is handed out: its answer is outstanding as a whole.
LEMMA NextKMSRequestKeeps ==
  ASSUME IInv, NEW r \in Requests, NextKMSRequest(r)
  PROVE  SessionInv'
<1>1. client = "kms" /\ UNCHANGED <<ctorVars, mc, ctx, ctxWhy, buffer, client, error>> /\ Ready
  BY InSession DEF NextKMSRequest, KMSOnly
<1>2. kms' = [kms EXCEPT ![r].state = "out", ![r].left = Pieces]
  BY DEF NextKMSRequest
<1> QED
  BY <1>1, <1>2, RequestOut, RequestsKeep

\* A piece of an answer, the last one included.
LEMMA AddResponseKeeps ==
  ASSUME IInv, NEW r \in Requests, AddResponse(r)
  PROVE  SessionInv'
<1>1. client = "kms" /\ UNCHANGED <<ctorVars, mc, ctx, ctxWhy, buffer>> /\ Ready
  BY InSession DEF AddResponse, KMSOnly
<1>2. CASE EndWith("exception", FALSE, "argument") /\ UNCHANGED kms
  BY <1>1, <1>2, ArgumentKeeps
<1>3. CASE UNCHANGED <<client, error>> /\ kms' \in Answers
  BY <1>1, <1>3, RequestsKeep
<1>4. CASE /\ kms[r].left > 1
           /\ kms' = [kms EXCEPT ![r].left = @ - 1]
           /\ UNCHANGED <<client, error>>
  BY <1>3, <1>4, RequestPiece
<1>5. CASE /\ \E s \in {"done", "rejected"} : kms' = [kms EXCEPT ![r].state = s, ![r].left = 0]
           /\ UNCHANGED <<client, error>>
  BY <1>3, <1>5, RequestAnswered
<1>6. CASE MayRetry(r) /\ Again(r) /\ UNCHANGED <<client, error>>
  BY <1>3, <1>6, RequestAgain
<1> QED
  BY <1>2, <1>4, <1>5, <1>6 DEF AddResponse

\* A request is given up only after the last retry.
LEMMA FailKeeps ==
  ASSUME IInv, NEW r \in Requests, Fail(r)
  PROVE  SessionInv'
<1>1. client = "kms" /\ UNCHANGED <<ctorVars, mc, ctx, ctxWhy, buffer>> /\ Ready
  BY InSession DEF Fail, KMSOnly
<1>2. CASE MayRetry(r) /\ Again(r) /\ UNCHANGED <<client, error>>
  BY <1>1, <1>2, RequestAgain, RequestsKeep
<1>3. CASE ~MayRetry(r) /\ EndWith("client", FALSE, "network") /\ UNCHANGED kms
  <2>1. "retry_kms" \in settings
    BY <1>1 DEF IInv, CtorInv, SettingsTaken, Ready, Always
  <2>2. kms[r].tries \in 0..MaxTries
    BY DEF IInv, SessionInv, TypeOK, Answers
  <2>3. kms[r].tries = MaxTries
    BY <1>3, <2>1, <2>2, BoundsAssumption DEF MayRetry
  <2>4. Caused("network") /\ "network" \in Whys \ {"credentials"}
    BY DEF Caused, Whys
  <2> QED
    BY <1>1, <1>3, <2>3, <2>4, EndingKeeps
<1> QED
  BY <1>2, <1>3 DEF Fail

\* No request is open when the context leaves need_kms.
LEMMA FinishKMSRequestsKeeps == IInv /\ FinishKMSRequests => SessionInv'
<1> SUFFICES ASSUME IInv, FinishKMSRequests PROVE SessionInv'
  OBVIOUS
<1>1. client = "kms" /\ UNCHANGED <<ctorVars, mc>> /\ Ready /\ AllAnswered
  BY InSession DEF FinishKMSRequests
<1>2. ctx # "error"
  BY <1>1 DEF IInv, SessionInv, Places
<1> QED
  BY <1>1, <1>2, LoopingKeeps DEF FinishKMSRequests

\* There is a document, or the error state.
LEMMA FinalizeContextKeeps == IInv /\ FinalizeContext => SessionInv'
<1> SUFFICES ASSUME IInv, FinalizeContext PROVE SessionInv'
  OBVIOUS
<1>1. client = "finalize" /\ UNCHANGED <<ctorVars, mc>> /\ Ready /\ ctx = "ready"
  BY InSession DEF FinalizeContext, IInv, SessionInv, Places
<1>2. CASE ctx' = "done" /\ buffer' = "document" /\ Goto("check") /\ UNCHANGED <<ctxWhy, kms>>
  <2>1. /\ ctxWhy = "none" /\ AllAnswered
        /\ kms \in Answers
    BY <1>1 DEF IInv, SessionInv, TypeOK, Answers, StatusMeansError, NothingOpen
  <2>2. StatusCaused' /\ StatusMeansError' /\ NothingOpen'
    BY <1>2, <2>1 DEF StatusCaused, StatusMeansError, NothingOpen, AllAnswered, StatusWhys, Caused
  <2>3. Places' /\ client' = "check" /\ error' = error
    BY <1>2 DEF Places, Goto
  <2> QED
    BY <1>1, <1>2, <2>1, <2>2, <2>3, MovingKeeps
<1>3. CASE Refused /\ buffer' = "empty" /\ Goto("check")
  <2>1. Places' /\ client' = "check" /\ error' = error
    BY <1>1, <1>3, RefusedFacts DEF Places, Goto
  <2>2. kms \in Answers
    BY DEF IInv, SessionInv, TypeOK, Answers
  <2> QED
    BY <1>1, <1>3, <2>1, <2>2, RefusedFacts, MovingKeeps
<1>4. CASE HookEndsCall
  BY <1>1, <1>4, HookEndsCallKeeps
<1> QED
  BY <1>2, <1>3, <1>4 DEF FinalizeContext

\* The application has its document.
LEMMA EndingWellKeeps ==
  ASSUME IInv, ctx = "done", buffer = "document", client' = "ended", error' = NoError,
         error' = error, UNCHANGED <<ctorVars, mc, ctx, ctxWhy, kms, buffer>>
  PROVE  SessionInv'
<1> USE DEF IInv, SessionInv
<1>1. TypeOK'
  BY DEF TypeOK
<1>2. Constructed' /\ StatusCaused' /\ StatusMeansError'
  BY DEF Constructed, StatusCaused, StatusMeansError, Caused, ctorVars
<1>3. NothingOpen' /\ Places' /\ EndsWell'
  BY DEF NothingOpen, AllAnswered, Places, EndsWell
<1>4. FailuresHaveCause'
  BY DEF FailuresHaveCause, NoError
<1> QED
  BY <1>1, <1>2, <1>3, <1>4

\* The application's last look at the state separates the two.
LEMMA CheckStateKeeps == IInv /\ CheckState => SessionInv'
<1> SUFFICES ASSUME IInv, CheckState PROVE SessionInv'
  OBVIOUS
<1>1. client = "check" /\ UNCHANGED <<ctorVars, mc, ctx, ctxWhy, kms, buffer>>
  BY DEF CheckState
<1>2. CASE ctx = "error"
  <2>1. EndWith("status", FALSE, ctxWhy)
    BY <1>2 DEF CheckState
  <2>2. /\ Caused(ctxWhy)
        /\ ctxWhy \in Whys \ {"credentials"} /\ ctxWhy # "network"
    BY DEF IInv, SessionInv, StatusCaused, StatusWhys, Whys
  <2> QED
    BY <1>1, <2>1, <2>2, EndingKeeps
<1>3. CASE ctx # "error"
  <2>1. ctx = "done" /\ buffer = "document" /\ client' = "ended" /\ error' = error
    BY <1>1, <1>3 DEF CheckState, Goto, IInv, SessionInv, Places
  <2>2. error' = NoError
    BY <1>1, <2>1, StillRunning
  <2> QED
    BY <1>1, <2>1, <2>2, EndingWellKeeps
<1> QED
  BY <1>2, <1>3

\* The MongoCrypt object goes: no cause needs it to be there.
LEMMA CollectingKeeps == IInv /\ (Collect \/ Finalize) => SessionInv'
<1> SUFFICES ASSUME IInv, Collect \/ Finalize PROVE SessionInv'
  OBVIOUS
<1> USE DEF IInv, SessionInv
<1>1. /\ mc' \in {"collected", "finalized"} /\ client # "ended"
      /\ UNCHANGED <<ctorVars, ctx, ctxWhy, kms, client, buffer, error>>
  BY DEF Collect, Finalize
<1>2. TypeOK'
  BY <1>1 DEF TypeOK
<1>3. Constructed' /\ StatusCaused' /\ StatusMeansError'
  BY <1>1 DEF Constructed, Ready, StatusCaused, StatusMeansError, Caused, ctorVars
<1>4. NothingOpen' /\ Places' /\ EndsWell'
  BY <1>1 DEF NothingOpen, AllAnswered, Places, EndsWell
<1>5. FailuresHaveCause'
  BY <1>1, StillRunning DEF FailuresHaveCause
<1> QED
  BY <1>2, <1>3, <1>4, <1>5

\* Nothing changes.
LEMMA StutteringKeeps == IInv /\ UNCHANGED vars => IInv'
<1> SUFFICES ASSUME IInv, UNCHANGED vars PROVE IInv'
  OBVIOUS
<1> USE DEF IInv, SessionInv, vars, sessionVars
<1>1. CtorInv'
  BY CtorStays
<1>2. TypeOK' /\ Constructed' /\ StatusCaused' /\ StatusMeansError'
  BY DEF TypeOK, Constructed, Ready, StatusCaused, StatusMeansError, Caused, ctorVars
<1>3. NothingOpen' /\ Places' /\ EndsWell' /\ FailuresHaveCause'
  BY DEF NothingOpen, AllAnswered, Places, EndsWell, FailuresHaveCause, ctorVars
<1> QED
  BY <1>1, <1>2, <1>3

-----------------------------------------------------------------------------
(* The session's invariant, and what follows from it. *)

\* The invariant holds initially.
LEMMA InitIInv == Init => IInv
<1> SUFFICES ASSUME Init PROVE IInv
  OBVIOUS
<1> USE DEF Init
<1>1. CtorInv
  BY CtorBegins
<1>2. TypeOK
  <2>1. 0 \in 0..Pieces /\ 0 \in 0..MaxTries
    BY BoundsAssumption
  <2>2. kms \in Answers
    BY <2>1 DEF NoRequest, Answers
  <2> QED
    BY <2>2 DEF TypeOK, Answers, NoError, Whys
<1>3. Constructed /\ StatusCaused /\ StatusMeansError
  BY DEF Constructed, StatusCaused, StatusMeansError, StatusWhys, Caused
<1>4. NothingOpen
  BY DEF NothingOpen, AllAnswered, NoRequest
<1>5. Places /\ EndsWell /\ FailuresHaveCause
  BY DEF Places, EndsWell, FailuresHaveCause, NoError
<1> QED
  BY <1>1, <1>2, <1>3, <1>4, <1>5 DEF IInv, SessionInv

\* Every step of the session keeps the invariant.
LEMMA StepIInv == IInv /\ [Next]_vars => IInv'
<1> SUFFICES ASSUME IInv, [Next]_vars PROVE IInv'
  OBVIOUS
<1>1. CASE Construct
  <2>1. CtorInv'
    BY <1>1, ConstructorKeeps DEF Construct, IInv
  <2> QED
    BY <1>1, <2>1, ConstructKeeps DEF IInv
<1>2. CASE MakeContext \/ ReadState \/ AddMongoOperationResponse \/ FinishMongoOperation
           \/ ProvideKMSProviders \/ KMSStep \/ FinishKMSRequests \/ FinalizeContext
           \/ CheckState \/ Collect \/ Finalize
  <2>1. UNCHANGED ctorVars
    BY <1>2 DEF MakeContext, ReadState, AddMongoOperationResponse, FinishMongoOperation,
                ProvideKMSProviders, KMSStep, NextKMSRequest, AddResponse, Fail, KMSOnly,
                FinishKMSRequests, FinalizeContext, CheckState, Collect, Finalize
  <2>2. CtorInv'
    BY <2>1, CtorStays DEF IInv
  <2>3. CASE KMSStep
    <3>1. PICK r \in Requests : NextKMSRequest(r) \/ AddResponse(r) \/ Fail(r)
      BY <2>3 DEF KMSStep
    <3> QED
      BY <2>2, <3>1, NextKMSRequestKeeps, AddResponseKeeps, FailKeeps DEF IInv
  <2>4. CASE ~KMSStep
    BY <1>2, <2>2, <2>4, MakeContextKeeps, ReadStateKeeps, AddMongoOperationResponseKeeps,
       FinishMongoOperationKeeps, ProvideKMSProvidersKeeps, FinishKMSRequestsKeeps,
       FinalizeContextKeeps, CheckStateKeeps, CollectingKeeps DEF IInv
  <2> QED
    BY <2>3, <2>4
<1>3. CASE UNCHANGED vars
  BY <1>3, StutteringKeeps
<1> QED
  BY <1>1, <1>2, <1>3 DEF Next, Application

\* The session's invariant, with the constructor's.
THEOREM SessionInvariant == Spec => []IInv
  BY InitIInv, StepIInv, PTL DEF Spec

\* Type correctness.
THEOREM SessionTypes == Spec => []TypeOK
<1>1. IInv => TypeOK
  BY DEF IInv, SessionInv
<1> QED
  BY <1>1, SessionInvariant, PTL

\* An application that looks at the state after finalize() never takes an empty
\* buffer for its document, although no method of a context reports a failure
\* (mongocrypt.cc:925-963).
THEOREM SessionResult == Spec => []ResultIsReal
<1>1. IInv => ResultIsReal
  BY DEF IInv, SessionInv, EndsWell, StatusMeansError, NothingOpen, ResultIsReal
<1> QED
  BY <1>1, SessionInvariant, PTL

\* Failures have a cause, and the addon adds none of its own: credentials are asked
\* for, connections retried, and only JavaScript hooks miss the MongoCrypt object.
THEOREM SessionFailures == Spec => []FailuresHaveCause
<1>1. IInv => FailuresHaveCause
  BY DEF IInv, SessionInv
<1> QED
  BY <1>1, SessionInvariant, PTL

\* Whatever libmongocrypt may call finds its callback in __callbackStorage
\* (mongocrypt.cc:145, 233-413).
THEOREM CtorCallbacks == Spec => []CallbacksFound
<1>1. IInv => CallbacksFound
  BY DEF IInv, CtorInv, LoggerStored, CallbacksStored, CallbacksFound
<1> QED
  BY <1>1, SessionInvariant, PTL

\* cryptoHooksProvider names hooks that have been installed completely.
THEOREM CtorProvider == Spec => []ReportedProvider
<1>1. IInv => ReportedProvider
  <2> SUFFICES ASSUME IInv, Ready
               PROVE  /\ crypto_hooks = IF openssl3 THEN "native_openssl" ELSE "js"
                      /\ registered \ {"log_handler"} = HooksOf(crypto_hooks)
    BY DEF ReportedProvider
  <2>1. step \in Behind /\ step \notin Before
    BY DEF Ready, Behind, Before
  <2> QED
    BY <2>1 DEF IInv, CtorInv, CtorType, HooksChosen, HooksInstalled
<1> QED
  BY <1>1, SessionInvariant, PTL

\* A MongoCrypt works with every setting that was given, although most setters'
\* results are ignored (mongocrypt.cc:560-588).
THEOREM CtorSettings == Spec => []SettingsApplied
<1>1. IInv => SettingsApplied
  BY DEF IInv, CtorInv, CtorType, SettingsTaken, SettingsApplied, Ready
<1> QED
  BY <1>1, SessionInvariant, PTL
=============================================================================
