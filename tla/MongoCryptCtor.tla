--------------------------- MODULE MongoCryptCtor ---------------------------
(***************************************************************************)
(* Construction of a MongoCrypt: the constructor of src/index.ts, which    *)
(* adds this package's cryptoCallbacks to the options, and the one of      *)
(* addon/mongocrypt.cc, which reads the options one by one, stores the     *)
(* application's callbacks, hands libmongocrypt its settings and hooks,    *)
(* and initialises it.  It throws wherever an option is not as it should   *)
(* be, with all that was done until then left in place.                    *)
(*                                                                         *)
(* What an option holds is decided when it is read; only what the outcome  *)
(* depends on is kept.                                                     *)
(***************************************************************************)
EXTENDS Sequences, FiniteSets, Integers

VARIABLES openssl3,        \* the process has an OpenSSL in [3.0.0, 4.0.0)
          cryptoCallbacks, \* the option, once index.ts has put its default in:
                           \* "package", "application", "incomplete", "undefined"
          step,            \* the option the constructor reads next
          storage,         \* names in __callbackStorage
          crypto_hooks,    \* State::crypto_hooks: "none", "js", "native_openssl"
          registered,      \* functions libmongocrypt may call
          asked,           \* settings the application or the addon wants
          settings,        \* settings libmongocrypt has taken
          initialized,     \* mongocrypt_init has run
          ctorError        \* what was thrown: "none", "own", "status"

ctorVars == <<openssl3, cryptoCallbacks, step, storage, crypto_hooks, registered,
              asked, settings, initialized, ctorError>>

\* The options, in the order in which they are read.
Checked == {"kmsProviders", "schemaMap", "encryptedFieldsMap"}
Unchecked == {"cryptSharedLibSearchPaths", "cryptSharedLibPath", "bypassQueryAnalysis",
              "keyExpirationMS"}
\* use_range_v2, use_need_kms_credentials_state, retry_kms, enable_multiple_collinfo
Always == {"range_v2", "need_kms_credentials", "retry_kms", "multiple_collinfo"}

\* Mutant (SettingsApplied, FailuresHaveCause): initialised before the flags are set.
InitTooEarly == <<"kmsProviders", "schemaMap", "encryptedFieldsMap", "logger",
                  "cryptoCallbacks", "install", "cryptSharedLibSearchPaths",
                  "cryptSharedLibPath", "bypassQueryAnalysis", "keyExpirationMS",
                  "init", "flags", "ready">>
Steps == <<"kmsProviders", "schemaMap", "encryptedFieldsMap", "logger",
           "cryptoCallbacks", "install", "cryptSharedLibSearchPaths",
           "cryptSharedLibPath", "bypassQueryAnalysis", "keyExpirationMS",
           "flags", "init", "ready">>
After(s) == Steps[1 + CHOOSE i \in DOMAIN Steps : Steps[i] = s]

\* The callback each JavaScript hook looks up, by the hook's name.
HookCallback == [aes_256_cbc_encrypt |-> "aes256CbcEncryptHook",
                 aes_256_cbc_decrypt |-> "aes256CbcDecryptHook",
                 random              |-> "randomHook",
                 hmac_sha_512        |-> "hmacSha512Hook",
                 hmac_sha_256        |-> "hmacSha256Hook",
                 sha_256             |-> "sha256Hook",
                 aes_256_ctr_encrypt |-> "aes256CtrEncryptHook",
                 aes_256_ctr_decrypt |-> "aes256CtrDecryptHook",
                 sign_rsa_sha256     |-> "signRsaSha256Hook"]
JSHooks == DOMAIN HookCallback

\* The members that are not nullptr of the CryptoHooks with that id.
HooksOf(id) == CASE id = "native_openssl" -> JSHooks \cup {"aes_256_ecb_encrypt"}
                 [] id = "js"             -> JSHooks
                 [] id = "none"           -> {}

\* The callbacks the constructor stores, in the order of its calls of SetCallback.
StoredCallbacks == <<"aes256CbcEncryptHook", "aes256CbcDecryptHook",
                     "aes256CtrEncryptHook", "aes256CtrDecryptHook", "randomHook",
                     "hmacSha512Hook", "hmacSha256Hook", "sha256Hook",
                     "signRsaSha256Hook">>
First(n) == {StoredCallbacks[i] : i \in 1..n}

\* mongocrypt_setopt_crypto_hooks, ..._sign_rsaes_pkcs1_v1_5, ..._aes_256_ctr,
\* ..._aes_256_ecb: the calls of installCryptoHooks, in order.
InstallCalls == <<{"aes_256_cbc_encrypt", "aes_256_cbc_decrypt", "random",
                   "hmac_sha_512", "hmac_sha_256", "sha_256"},
                  {"sign_rsa_sha256"},
                  {"aes_256_ctr_encrypt", "aes_256_ctr_decrypt"},
                  {"aes_256_ecb_encrypt"}>>

CtorInit ==
    /\ openssl3 \in BOOLEAN
    /\ cryptoCallbacks \in {"package", "application", "incomplete", "undefined"}
    /\ step = "kmsProviders"
    /\ storage = {} /\ crypto_hooks = "none" /\ registered = {}
    /\ asked = {} /\ settings = {}
    /\ initialized = FALSE /\ ctorError = "none"

Reading(s) == step = s /\ ctorError = "none"
Continue == step' = After(step) /\ UNCHANGED ctorError
Throw(what) == ctorError' = what /\ UNCHANGED step

\* libmongocrypt takes settings only until it is initialised.
SetOpt(opts) == settings' = IF initialized THEN settings ELSE settings \cup opts

\* An option that must be a Uint8Array if it is there, and be accepted.
ReadChecked ==
    /\ step \in Checked /\ ctorError = "none"
    /\ \/ Continue /\ UNCHANGED <<asked, settings>>
       \/ Continue /\ asked' = asked \cup {step} /\ SetOpt({step})
       \/ Throw("own") /\ UNCHANGED <<asked, settings>>
       \/ Throw("status") /\ UNCHANGED <<asked, settings>>
    /\ UNCHANGED <<openssl3, cryptoCallbacks, storage, crypto_hooks, registered, initialized>>

\* Mutant (CallbacksFound): the handler is registered before the logger is stored.
ReadLoggerLate ==
    /\ Reading("logger")
    /\ \/ Continue /\ UNCHANGED <<storage, registered>>
       \/ /\ registered' = registered \cup {"log_handler"}
          /\ \/ Continue /\ storage' = storage \cup {"logger"}
             \/ Throw("own") /\ UNCHANGED storage
    /\ UNCHANGED <<openssl3, cryptoCallbacks, crypto_hooks, asked, settings, initialized>>
\* A logger that is there must be a function, even if it is undefined.
ReadLogger ==
    /\ Reading("logger")
    /\ \/ Continue /\ UNCHANGED <<storage, registered>>
       \/ Throw("own") /\ UNCHANGED <<storage, registered>>
       \/ /\ storage' = storage \cup {"logger"}
          /\ \/ Continue /\ registered' = registered \cup {"log_handler"}
             \/ Throw("status") /\ UNCHANGED registered
    /\ UNCHANGED <<openssl3, cryptoCallbacks, crypto_hooks, asked, settings, initialized>>

\* createOpenSSLCryptoHooks if the process has an OpenSSL 3, else the callbacks:
\* every one must be a function, and those before the first that is not have been
\* stored by then.
SetCallbacks ==
    /\ Reading("cryptoCallbacks")
    /\ \/ /\ openssl3
          /\ crypto_hooks' = "native_openssl" /\ Continue /\ UNCHANGED storage
       \/ /\ ~openssl3 /\ cryptoCallbacks \in {"package", "application"}
          /\ storage' = storage \cup First(Len(StoredCallbacks))
          /\ crypto_hooks' = "js" /\ Continue
       \/ /\ ~openssl3 /\ cryptoCallbacks = "incomplete"
          /\ \E n \in 0..(Len(StoredCallbacks) - 1) : storage' = storage \cup First(n)
          /\ Throw("own") /\ UNCHANGED crypto_hooks
       \/ /\ ~openssl3 /\ cryptoCallbacks = "undefined"
          /\ Throw("own") /\ UNCHANGED <<storage, crypto_hooks>>
    /\ UNCHANGED <<openssl3, cryptoCallbacks, registered, asked, settings, initialized>>

\* What the first n calls of installCryptoHooks register.
Installed(n) == HooksOf(crypto_hooks) \cap UNION {InstallCalls[i] : i \in 1..n}
\* Mutant (ReportedProvider): a call that fails does not stop the constructor.
InstallWhatGoes ==
    /\ Reading("install")
    /\ \E n \in 0..Len(InstallCalls) : registered' = registered \cup Installed(n)
    /\ Continue
    /\ UNCHANGED <<openssl3, cryptoCallbacks, storage, crypto_hooks, asked, settings, initialized>>
\* A call that fails ends it: "unable to configure crypto hooks".
InstallCryptoHooks ==
    /\ Reading("install")
    /\ \E n \in 0..Len(InstallCalls) :
          /\ registered' = registered \cup Installed(n)
          /\ IF n = Len(InstallCalls) THEN Continue ELSE Throw("own")
    /\ UNCHANGED <<openssl3, cryptoCallbacks, storage, crypto_hooks, asked, settings, initialized>>

\* Options whose setters' results are not looked at.  Search paths must be an array,
\* a path must have a string, an expiration must not be negative.
ReadUnchecked ==
    /\ step \in Unchecked /\ ctorError = "none"
    /\ \/ Continue /\ UNCHANGED <<asked, settings>>
       \/ Continue /\ asked' = asked \cup {step} /\ SetOpt({step})
       \/ step # "bypassQueryAnalysis" /\ Throw("own") /\ UNCHANGED <<asked, settings>>
    /\ UNCHANGED <<openssl3, cryptoCallbacks, storage, crypto_hooks, registered, initialized>>

SetFlags ==
    /\ Reading("flags")
    /\ Continue /\ asked' = asked \cup Always /\ SetOpt(Always)
    /\ UNCHANGED <<openssl3, cryptoCallbacks, storage, crypto_hooks, registered, initialized>>

\* mongocrypt_init: without a KMS provider it fails, and it may fail otherwise.
Initialize ==
    /\ Reading("init")
    /\ \/ /\ "kmsProviders" \in settings
          /\ initialized' = TRUE /\ Continue
       \/ Throw("status") /\ UNCHANGED initialized
    /\ UNCHANGED <<openssl3, cryptoCallbacks, storage, crypto_hooks, registered, asked, settings>>

Constructor == ReadChecked \/ ReadLogger \/ SetCallbacks \/ InstallCryptoHooks
               \/ ReadUnchecked \/ SetFlags \/ Initialize

Ready == step = "ready" /\ ctorError = "none"

-----------------------------------------------------------------------------
\* Whatever libmongocrypt may call finds its callback: the log handler and the
\* JavaScript hooks look theirs up by name (mongocrypt.cc:145, 233-413) among those
\* that other lines stored (526, 538-546), and an option that is no function can
\* end the constructor between any two of them.
CallbacksFound ==
    /\ "log_handler" \in registered => "logger" \in storage
    /\ crypto_hooks = "js" =>
          \A h \in registered \cap JSHooks : HookCallback[h] \in storage

\* cryptoHooksProvider (index.ts:104) does not promise more than there is: what it
\* names has been installed completely, and it is the native implementation exactly
\* when there is an OpenSSL 3.
ReportedProvider ==
    Ready => /\ crypto_hooks = IF openssl3 THEN "native_openssl" ELSE "js"
             /\ registered \ {"log_handler"} = HooksOf(crypto_hooks)

\* A MongoCrypt works with every setting that was given and with the four the addon
\* relies on, although most setters' results are ignored (mongocrypt.cc:560-588).
SettingsApplied == Ready => initialized /\ settings = asked /\ Always \subseteq settings
=============================================================================
