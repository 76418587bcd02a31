----------------------------- MODULE CryptoHooks -----------------------------
(***************************************************************************)
(* The cryptographic primitives this package lends to libmongocrypt, in    *)
(* both implementations: the native ones (addon/openssl-crypto.cc), which  *)
(* drive OpenSSL step by step inside libmongocrypt's buffer, and the       *)
(* JavaScript ones (addon/mongocrypt.cc, createJSCryptoHooks, with the     *)
(* callbacks of src/crypto_callbacks.ts or an application's own), which    *)
(* compute a result in a buffer of their own and copy it back.             *)
(*                                                                         *)
(* A call is reduced to what its outcome depends on: the hook, the length  *)
(* of what it must produce, the room it was lent, and whether its key and  *)
(* IV are fit for use.  Byte i of the right result is the number i.        *)
(***************************************************************************)
EXTENDS Integers, HookOutcomes

CONSTANTS MaxLen,       \* bound: longest input, result and buffer of a call
          Block,        \* cipher block (16 bytes in the code)
          SignatureRoom \* buffer for a signature (256 bytes in the code)

ASSUME SizesAssumption == /\ MaxLen \in Nat
                          /\ Block \in Nat \ {0}
                          /\ SignatureRoom \in Nat

VARIABLES provider,      \* crypto_hooks->id
          callbacks,     \* whose JavaScript callbacks: "package" or "application"
          mc,            \* the MongoCrypt object: "live", "collected", "finalized"
          call,          \* the call libmongocrypt is making, or the last one
          pc,            \* where the hook is; "idle" between calls
          out,           \* libmongocrypt's buffer
          bytes_written, \* *bytes_written, an out parameter of the ciphers
          status,        \* "none", or "set" once mongocrypt_status_set ran
          end,           \* how the call ended, or "running"
          fault          \* a step of the crypto library failed in this call

hookVars == <<pc, out, bytes_written, status, end, fault>>
vars == <<provider, callbacks, mc, call, hookVars>>

NoResult == -1

BlockHooks == {"aes_256_cbc_encrypt", "aes_256_cbc_decrypt", "aes_256_ecb_encrypt"}
CtrHooks == {"aes_256_ctr_encrypt", "aes_256_ctr_decrypt"}
CipherHooks == BlockHooks \cup CtrHooks
DigestHooks == {"hmac_sha_512", "hmac_sha_256", "sha_256"}
Hooks == CipherHooks \cup DigestHooks \cup {"random", "sign_rsa_sha256"}

\* The members of CryptoHooks that are not nullptr.
Offered(p) == IF p = "js" THEN Hooks \ {"aes_256_ecb_encrypt"} ELSE Hooks

\* What libmongocrypt asks: a buffer with room for the result of a cipher
\* or of random, the exact length for a digest, SignatureRoom for a
\* signature, whose length is the key's affair.  `key` stands for key, IV
\* and DER: TRUE when they are of the right length and form.
Calls == {c \in [hook : Hooks, len : 0..MaxLen, room : 0..MaxLen \cup {SignatureRoom},
                 key : BOOLEAN] :
            /\ c.hook \in CipherHooks \cup {"random"} => c.len <= c.room
            /\ c.hook \in DigestHooks => c.len = c.room
            /\ c.hook = "sign_rsa_sha256" => c.room = SignatureRoom
            /\ c.hook \in DigestHooks \cup {"random"} => c.key}

\* Padding is off: a block cipher has a result only for whole blocks.
HasResult(c) == /\ c.key
                /\ c.hook \in BlockHooks => c.len % Block = 0

\* Mutant (WholeResult, NeverOverruns): padding is left on.
PaddingLeftOn == TRUE
\* EVP_CIPHER_CTX_set_padding(ctx, 0), cipher.setAutoPadding(false)
AutoPadding == FALSE

\* The buffer with its cells 1..n holding bytes first, first + 1, ...
Written(buffer, first, n) ==
    [i \in DOMAIN buffer |-> IF i <= n THEN first + i - 1 ELSE buffer[i]]

Blank(n) == [i \in 1..n |-> 0]

SmallerOf(a, b) == IF a < b THEN a ELSE b

-----------------------------------------------------------------------------
Init == /\ provider \in {"js", "native_openssl"}
        /\ callbacks \in IF provider = "js" THEN {"package", "application"}
                                            ELSE {"package"}
        /\ mc = "live"
        /\ call = [hook |-> "random", len |-> 0, room |-> 0, key |-> TRUE]
        /\ pc = "idle" /\ out = Blank(0) /\ bytes_written = 0
        /\ status = "none" /\ end = "none" /\ fault = FALSE

\* libmongocrypt calls a hook that was installed.
BeginCall(c) ==
    /\ pc = "idle" /\ end \notin {"aborted", "overrun"}
    /\ c.hook \in Offered(provider)
    /\ call' = c /\ pc' = "enter" /\ out' = Blank(c.room) /\ bytes_written' = 0
    /\ status' = "none" /\ end' = "running" /\ fault' = FALSE
    /\ UNCHANGED <<provider, callbacks, mc>>

\* How the hook leaves; the rest of the state is the caller's affair.
Leave(how) == pc' = "idle" /\ end' = how /\ UNCHANGED <<provider, callbacks, mc, call>>
Goto(step) == pc' = step /\ UNCHANGED <<provider, callbacks, mc, call, end>>

\* Mutant (FailuresCarryStatus, FailuresForeseen): the message is not handed on.
RefuseSilently == Leave("false") /\ UNCHANGED <<out, bytes_written, status>>
\* return set_status_from_openssl(...); mongocrypt_status_set(...), return false
Refuse == Leave("false") /\ status' = "set" /\ UNCHANGED <<out, bytes_written>>

-----------------------------------------------------------------------------
\* The native hooks.
Native(step) == provider = "native_openssl" /\ pc = step

\* ASSERTs on the lengths of key and IV; EVP_xxcryptInit_ex.
NativeInit ==
    /\ Native("enter") /\ call.hook \in CipherHooks
    /\ IF call.key THEN Goto("update") ELSE Leave("thrown")
    /\ UNCHANGED <<out, bytes_written, status, fault>>

\* EVP_xxcryptUpdate writes the whole blocks there are and holds back the rest;
\* a stream cipher holds back nothing.
Held(c) == IF c.hook \in BlockHooks THEN c.len % Block ELSE 0
NativeUpdate ==
    /\ Native("update")
    /\ out' = Written(out, 1, call.len - Held(call))
    /\ bytes_written' = call.len - Held(call)
    /\ Goto("final")
    /\ UNCHANGED <<status, fault>>

\* EVP_xxcryptFinal_ex refuses what was held back unless it may pad it; what it
\* writes goes to the start of the buffer, not behind Update's bytes.
FinalBytes(c) == IF AutoPadding /\ c.hook \in BlockHooks THEN Block ELSE 0
\* Mutant (ImplementsHookContract): Final's result is not looked at.
FinalUnchecked ==
    /\ Native("final")
    /\ out' = Written(out, bytes_written + 1, FinalBytes(call))
    /\ bytes_written' = bytes_written + FinalBytes(call)
    /\ Leave("true") /\ UNCHANGED <<status, fault>>
NativeFinal ==
    /\ Native("final")
    /\ \/ /\ Held(call) = 0 \/ AutoPadding
          /\ out' = Written(out, bytes_written + 1, FinalBytes(call))
          /\ bytes_written' = bytes_written + FinalBytes(call)
          /\ Leave("true") /\ UNCHANGED status
       \/ ~(Held(call) = 0 \/ AutoPadding) /\ Refuse
    /\ UNCHANGED fault

\* HMAC, EVP_DigestFinal_ex and RAND_bytes write the result in one step.
NativeDigest ==
    /\ Native("enter") /\ call.hook \in DigestHooks \cup {"random"}
    /\ out' = Written(out, 1, call.len)
    /\ Leave("true") /\ UNCHANGED <<bytes_written, status, fault>>

\* d2i_PrivateKey refuses a bad key, EVP_DigestSignFinal a signature longer
\* than signature_out_len.
NativeSign ==
    /\ Native("enter") /\ call.hook = "sign_rsa_sha256"
    /\ IF call.key /\ call.len <= SignatureRoom
       THEN /\ out' = Written(out, 1, call.len)
            /\ Leave("true") /\ UNCHANGED <<bytes_written, status>>
       ELSE Refuse
    /\ UNCHANGED fault

\* Any step of OpenSSL may fail, and is reported; S() throws when a symbol
\* is missing and ASSERT when no context could be allocated; a throw inside a
\* cleanup, or a null digest context, ends the process.
NativeFault ==
    /\ provider = "native_openssl" /\ pc # "idle"
    /\ \/ Refuse
       \/ \E how \in {"thrown", "aborted"} :
            Leave(how) /\ UNCHANGED <<out, bytes_written, status>>
    /\ fault' = TRUE

-----------------------------------------------------------------------------
\* The JavaScript hooks.
Js(step) == provider = "js" /\ pc = step

\* get_js_wrapper_for_ctx, then GetCallback, which throws when the object
\* that stores the callbacks was collected.
JsLookup ==
    /\ Js("enter")
    /\ \/ mc = "live" /\ Goto("callback") /\ UNCHANGED <<out, bytes_written, status>>
       \/ mc = "collected" /\ Leave("thrown") /\ UNCHANGED <<out, bytes_written, status>>
       \/ mc = "finalized" /\ Refuse
    /\ UNCHANGED fault

\* Mutant (TypeOK): the bytes copied take the buffer's place instead of its start.
CopyBackShort(n, buffer) ==
    /\ out' = [i \in 1..SmallerOf(n, call.room) |-> buffer[i]]
    /\ Leave("true") /\ UNCHANGED <<bytes_written, status>>
\* Mutant (HooksAgree): the number is tested for truth, and 0 taken for a failure.
CopyBackIfTruthy(n, buffer) ==
    \/ n = 0 /\ Leave("false") /\ UNCHANGED <<out, bytes_written, status>>
    \/ /\ n # 0 /\ out' = buffer /\ bytes_written' = n
       /\ Leave("true") /\ UNCHANGED status
\* The hook after a callback returned the number n with `buffer` filled in:
\* CopyBufferData of n bytes for a cipher, which asserts that they fit, and of
\* the whole buffer for the others.
CopyBack(n, buffer) ==
    IF call.hook \notin CipherHooks
    THEN out' = buffer /\ Leave("true") /\ UNCHANGED <<bytes_written, status>>
    ELSE /\ bytes_written' = n
         /\ UNCHANGED status
         /\ IF n > call.room
            THEN Leave("overrun") /\ UNCHANGED out
            ELSE /\ out' = [i \in DOMAIN out |-> IF i <= n THEN buffer[i] ELSE out[i]]
                 /\ Leave("true")

\* crypto_callbacks.ts: Node.js throws on a bad key and, padding being off, on
\* what is not whole blocks, and the callback returns the error; otherwise
\* result.copy(output), which copies what fits, and result.length.
JsResultLength(c) == IF AutoPadding /\ c.hook \in BlockHooks
                     THEN c.len + Block - (c.len % Block)
                     ELSE c.len
JsPackage ==
    /\ Js("callback") /\ callbacks = "package"
    /\ \/ /\ \/ HasResult(call)
             \/ AutoPadding /\ call.key
          /\ CopyBack(JsResultLength(call), Written(Blank(call.room), 1, JsResultLength(call)))
          /\ UNCHANGED fault
       \/ ~HasResult(call) /\ Refuse /\ UNCHANGED fault
       \/ Refuse /\ fault' = TRUE

\* A callback of the application may throw, return no number (an object with a
\* message is taken for an error, and reading the message may throw), or return
\* any number with anything in the buffer.  MaxLen + 1 stands for every number
\* that is too long, and for a negative one, which wraps.
JsApplication ==
    /\ Js("callback") /\ callbacks = "application"
    /\ \/ Leave("false") /\ UNCHANGED <<out, bytes_written, status>>
       \/ Refuse
       \/ Leave("thrown") /\ UNCHANGED <<out, bytes_written, status>>
       \/ \E n \in 0..(MaxLen + 1), right \in 0..call.room :
             CopyBack(n, Written(Blank(call.room), 1, right))
    /\ UNCHANGED fault

-----------------------------------------------------------------------------
\* The MongoCrypt object is no longer reachable from JavaScript, although a
\* context that shares its native state is; its finalizer runs between calls.
Collect == /\ mc = "live" /\ mc' = "collected"
           /\ UNCHANGED <<provider, callbacks, call, hookVars>>
Finalize == /\ mc = "collected" /\ pc = "idle" /\ mc' = "finalized"
            /\ UNCHANGED <<provider, callbacks, call, hookVars>>

NativeStep == NativeInit \/ NativeUpdate \/ NativeFinal \/ NativeDigest \/ NativeSign
JsStep == JsLookup \/ JsPackage \/ JsApplication

Next == \/ \E c \in Calls : BeginCall(c)
        \/ NativeStep \/ NativeFault \/ JsStep
        \/ Collect \/ Finalize

Spec == Init /\ [][Next]_vars

-----------------------------------------------------------------------------
\* Every variable has its type, and the buffer its length.
TypeOK == /\ provider \in {"js", "native_openssl"}
          /\ callbacks \in {"package", "application"}
          /\ mc \in {"live", "collected", "finalized"}
          /\ call \in Calls
          /\ pc \in {"idle", "enter", "update", "final", "callback"}
          /\ out \in [1..call.room -> Nat]
          /\ bytes_written \in Nat
          /\ status \in {"none", "set"}
          /\ end \in {"none", "running", "true", "false", "thrown", "aborted", "overrun"}
          /\ fault \in BOOLEAN

Fits(c) == c.hook = "sign_rsa_sha256" => c.len <= c.room

\* A hook of this package that reports success has written the whole result,
\* each byte in its place, and a cipher reports its length: no input that is
\* not whole blocks passes, and what Final writes to the start of the buffer
\* (openssl-crypto.cc:166) overwrites nothing.  Only a signature that is longer
\* than the buffer comes back cut short, and only from the JavaScript hook.
WholeResult ==
    end = "true" /\ callbacks = "package" =>
        /\ HasResult(call)
        /\ Fits(call) \/ provider = "js"
        /\ \A i \in 1..SmallerOf(call.len, call.room) : out[i] = i
        /\ call.hook \in CipherHooks => bytes_written = call.len

\* The assertion of CopyBufferData (mongocrypt.cc:64) holds for the callbacks of
\* this package: a cipher's result is never longer than the buffer lent.
NeverOverruns == end = "overrun" => callbacks = "application"

\* The two implementations accept and refuse the same calls: unless OpenSSL
\* fails or the MongoCrypt object is gone, a hook succeeds exactly when the call
\* has a result (an oversized signature, which only the JavaScript hook cuts
\* short, aside).
HooksAgree ==
    /\ end \notin {"none", "running"} /\ callbacks = "package"
    /\ ~fault /\ mc = "live" /\ Fits(call)
    => (end = "true" <=> HasResult(call))

\* A hook of this package that returns false has told libmongocrypt why.
FailuresCarryStatus ==
    end = "false" /\ callbacks = "package" => status = "set"

\* A hook fails only in the ways that a session is prepared for: what is thrown
\* through libmongocrypt, what ends the process and what is left unexplained depends
\* on the provider, on whose callbacks run and on the stage the MongoCrypt was in
\* when the hook was called (mongocrypt.cc:162-220, openssl-crypto.cc:28-40).
Stages == {"live", "collected", "finalized"}
Until(stage) == CASE stage = "live" -> {"live"}
                  [] stage = "collected" -> {"live", "collected"}
                  [] stage = "finalized" -> Stages
Outcome == IF end = "overrun" \/ (end = "thrown" /\ provider = "native_openssl")
           THEN "aborted" ELSE end
FailuresForeseen ==
    end \notin {"none", "running", "true"} =>
        \E stage \in Until(mc) :
            \E f \in HookFailuresOf(provider, callbacks, stage) :
                /\ f.how = Outcome
                /\ f.why = "unexplained" <=> end = "false" /\ status = "none"

\* Both implementations are hooks as libmongocrypt wants them, with the exceptions
\* that HookContract names: a success is the whole result, and a failure is false with
\* a status (openssl-crypto.cc:117, 183, 249), and has a cause.
Due(c) == IF HasResult(c) THEN c.len ELSE NoResult
Contract == INSTANCE HookContract
              WITH made <- IF callbacks = "package" THEN provider ELSE "application",
                   gone <- provider = "js" /\ mc # "live",
                   room <- call.room,
                   fit <- call.key,
                   answer <- Due(call),
                   reported <- IF call.hook \in CipherHooks THEN bytes_written ELSE Due(call),
                   broken <- fault
ImplementsHookContract == Contract!Spec

\* Claimed in openssl-crypto.cc:117, 183 and 249 of the native ciphers and HMACs: an
\* error is returned as false with the status set, and nothing else.
ErrorsAreReturned ==
    provider = "native_openssl" /\ call.hook \in CipherHooks \cup {"hmac_sha_512", "hmac_sha_256"}
        => \/ end \in {"none", "running", "true"}
           \/ end = "false" /\ status = "set"
=============================================================================
