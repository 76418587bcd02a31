------------------------- MODULE EncryptionSession -------------------------
(***************************************************************************)
(* One encryption or decryption from start to end: an application          *)
(* constructs a MongoCrypt (MongoCryptCtor), has it make a context and     *)
(* drives that through the states of libmongocrypt, as the loops of        *)
(* test/unit/crypto.test.ts and test/benchmarks/bench.mjs do.  Every call  *)
(* goes through the classes of src/index.ts, which wrap exceptions, and    *)
(* the addon, which ignores most results, so that a failure is seen only   *)
(* in the context's state; inside any of them libmongocrypt may call a     *)
(* crypto hook, which fails in the ways CryptoHooks describes.  Meanwhile  *)
(* the MongoCrypt object may be collected.                                 *)
(*                                                                         *)
(* Why something failed is kept through all layers, as one of these:       *)
(*   "constructor"  an option was refused                                  *)
(*   "argument"     the application passed something else than bytes       *)
(*   "library"      libmongocrypt refused the data it was given            *)
(*   "credentials"  credentials are missing and nobody was asked           *)
(*   "network"      a KMS could not be reached                             *)
(*   "crypto"       the crypto library failed                              *)
(*   "callback"     a callback of the application failed, and said why     *)
(*   "unexplained"  a hook failed and said nothing                         *)
(*   "gone"         the MongoCrypt object is not there any more            *)
(***************************************************************************)
EXTENDS MongoCryptCtor, HookOutcomes

CONSTANTS Requests,    \* bound: the KMS requests a context can have, over all rounds
          Pieces,      \* bound: the pieces an answer comes in
          MaxTries     \* libmongocrypt's limit of retries

ASSUME BoundsAssumption == /\ IsFiniteSet(Requests)
                           /\ Pieces \in Nat \ {0}
                           /\ MaxTries \in Nat

VARIABLES mc,       \* the MongoCrypt object: "live", "collected", "finalized"
          ctx,      \* mongocrypt_ctx_state
          ctxWhy,   \* mongocrypt_ctx_status
          kms,      \* the context's KMS requests
          client,   \* where the application is
          buffer,   \* what finalize() returned: "none", "document", "empty"
          error     \* how the application learned of a failure, and which

sessionVars == <<mc, ctx, ctxWhy, kms, client, buffer, error>>
vars == <<ctorVars, sessionVars>>

NoError == [from |-> "none", wrapped |-> FALSE, why |-> "none"]
NoRequest == [state |-> "none", left |-> 0, tries |-> 0]

Init == /\ CtorInit
        /\ mc = "live" /\ ctx = "none" /\ ctxWhy = "none"
        /\ kms = [r \in Requests |-> NoRequest]
        /\ client = "construct" /\ buffer = "none" /\ error = NoError

\* The application gives up with an exception of the bindings, wrapped or not, or
\* with an error of its own.
EndWith(from, wrapped, why) ==
    /\ client' = "ended"
    /\ error' = [from |-> from, wrapped |-> wrapped, why |-> why]
\* catch (error) { throw this.errorWrapper(error); }
Wrapped(why) == EndWith("exception", TRUE, why)
Goto(place) == client' = place /\ UNCHANGED error

-----------------------------------------------------------------------------
\* index.ts:99 constructs outside any try block, before errorWrapper is set.
Construct ==
    /\ client = "construct"
    /\ Constructor
    /\ CASE ctorError' # "none" -> EndWith("exception", FALSE, "constructor")
         [] step' = "ready"     -> Goto("make")
         [] OTHER               -> UNCHANGED <<client, error>>
    /\ UNCHANGED <<mc, ctx, ctxWhy, kms, buffer>>

\* Mutant (FailuresHaveCause): the native hooks need the MongoCrypt object too.
HookFailuresByWrapper == HookFailuresOf("js", "package", mc)
\* How a hook that fails inside a call ends it.
HookFailures == HookFailuresOf(crypto_hooks, cryptoCallbacks, mc)
Failing(how) == {f.why : f \in {g \in HookFailures : g.how = how}}
Refusals == {"library"} \cup Failing("false")

\* What a failing hook may do to any call that runs one.
HookEndsCall == /\ \/ \E why \in Failing("thrown") : Wrapped(why)
                   \/ \E why \in Failing("aborted") : EndWith("abort", FALSE, why)
                /\ UNCHANGED <<ctx, ctxWhy, kms, buffer>>

\* The states in which a context wants something, in libmongocrypt's order.
Order == <<"need_mongo", "need_kms_credentials", "need_keys", "need_kms", "ready">>
Later(s) == {Order[i] : i \in {j \in DOMAIN Order : \A k \in DOMAIN Order :
                                                       Order[k] = s => j > k}}
MongoStates == {"need_mongo", "need_keys"}

\* The requests that libmongocrypt has not asked for so far.
Unasked == {r \in Requests : kms[r].state = "none"}

\* libmongocrypt goes on to a later state, or has another round of KMS requests (a token
\* first, the requests that need it then; the steps of KMIP; decrypting before encrypting
\* anew).  Where credentials are missing it asks for them only if it was told to
\* (use_need_kms_credentials_state).
Advance ==
    \E s \in Later(ctx) \cup ({"need_kms"} \cap {ctx}) :
        /\ IF s = "need_kms_credentials" /\ "need_kms_credentials" \notin settings
           THEN ctx' = "error" /\ ctxWhy' = "credentials"
           ELSE ctx' = s /\ UNCHANGED ctxWhy
        /\ IF s = "need_kms"
           THEN \E some \in (SUBSET Unasked) \ {{}} :
                   kms' = [r \in Requests |-> IF r \in some THEN [NoRequest EXCEPT !.state = "waiting"]
                                              ELSE kms[r]]
           ELSE UNCHANGED kms

\* The make methods check every result and throw the status' message.
MakeContext ==
    /\ client = "make"
    /\ \/ Advance /\ Goto("loop") /\ UNCHANGED buffer
       \/ /\ \E why \in {"argument"} \cup Refusals : Wrapped(why)
          /\ UNCHANGED <<ctx, ctxWhy, kms, buffer>>
       \/ HookEndsCall
    /\ UNCHANGED <<ctorVars, mc>>

-----------------------------------------------------------------------------
\* The methods of a context ignore what libmongocrypt returns: a call it refuses
\* returns as any other, with the context in the error state for good.
Refused == /\ IF ctx = "error" THEN UNCHANGED <<ctx, ctxWhy>>
              ELSE ctx' = "error" /\ ctxWhy' \in Refusals
           /\ UNCHANGED kms

\* while (true) switch (context.state)
ReadState ==
    /\ client = "loop"
    /\ CASE ctx = "error"                -> EndWith("status", FALSE, ctxWhy)
         [] ctx \in MongoStates           -> Goto("mongo")
         [] ctx = "need_kms_credentials" -> Goto("credentials")
         [] ctx = "need_kms"             -> Goto("kms")
         [] ctx = "ready"                -> Goto("finalize")
    /\ UNCHANGED <<ctorVars, mc, ctx, ctxWhy, kms, buffer>>

\* Any number of answers, each in a call of its own; one that is accepted changes
\* nothing that is seen before finishMongoOperation.  Keys are decrypted in here.
AddMongoOperationResponse ==
    /\ client = "mongo"
    /\ \/ Wrapped("argument") /\ UNCHANGED <<ctx, ctxWhy, kms>>
       \/ Refused /\ UNCHANGED <<client, error>>
       \/ HookEndsCall
    /\ UNCHANGED <<ctorVars, mc, buffer>>

FinishMongoOperation ==
    /\ client = "mongo"
    /\ \/ ctx # "error" /\ Advance /\ Goto("loop") /\ UNCHANGED buffer
       \/ Refused /\ Goto("loop") /\ UNCHANGED buffer
       \/ HookEndsCall
    /\ UNCHANGED <<ctorVars, mc>>

ProvideKMSProviders ==
    /\ client = "credentials"
    /\ \/ Wrapped("argument") /\ UNCHANGED <<ctx, ctxWhy, kms, buffer>>
       \/ Advance /\ Goto("loop") /\ UNCHANGED buffer
       \/ Refused /\ Goto("loop") /\ UNCHANGED buffer
       \/ HookEndsCall
    /\ UNCHANGED <<ctorVars, mc>>

-----------------------------------------------------------------------------
\* KMS requests: the application may have several out at once.
KMSOnly == UNCHANGED <<ctorVars, mc, ctx, ctxWhy, buffer>>

NextKMSRequest(r) ==
    /\ client = "kms" /\ kms[r].state = "waiting"
    /\ kms' = [kms EXCEPT ![r].state = "out", ![r].left = Pieces]
    /\ UNCHANGED <<client, error>> /\ KMSOnly

\* libmongocrypt hands a request out again only if it was told to (retry_kms).
MayRetry(r) == "retry_kms" \in settings /\ kms[r].tries < MaxTries
\* Mutant (SessionAdvances): the attempt is not counted.
AgainUncounted(r) == kms' = [kms EXCEPT ![r] = [state |-> "waiting", left |-> 0, tries |-> @.tries]]
Again(r) == kms' = [kms EXCEPT ![r] = [state |-> "waiting", left |-> 0, tries |-> @.tries + 1]]

\* Mutant (TypeOK): bytesNeeded is not looked at.
AddResponseUnasked(r) ==
    /\ client = "kms" /\ kms[r].state = "out"
    /\ kms' = [kms EXCEPT ![r].left = @ - 1]
    /\ UNCHANGED <<client, error>> /\ KMSOnly
\* index.ts does not wrap this class.  The last piece decides: the answer is good,
\* is not, which is only reported by finishKMSRequests, or asks for a retry.
AddResponse(r) ==
    /\ client = "kms" /\ kms[r].state = "out"
    /\ \/ EndWith("exception", FALSE, "argument") /\ UNCHANGED kms
       \/ /\ kms[r].left > 1
          /\ kms' = [kms EXCEPT ![r].left = @ - 1]
          /\ UNCHANGED <<client, error>>
       \/ /\ kms[r].left = 1
          /\ \/ \E s \in {"done", "rejected"} :
                   kms' = [kms EXCEPT ![r].state = s, ![r].left = 0]
             \/ MayRetry(r) /\ Again(r)
          /\ UNCHANGED <<client, error>>
    /\ KMSOnly

\* The connection failed; without a retry the application gives up.
Fail(r) ==
    /\ client = "kms" /\ kms[r].state = "out"
    /\ \/ MayRetry(r) /\ Again(r) /\ UNCHANGED <<client, error>>
       \/ ~MayRetry(r) /\ EndWith("client", FALSE, "network") /\ UNCHANGED kms
    /\ KMSOnly

\* Mutant (ImplementsContextProtocol): the answers are not waited for.
AllHandedOut == \A r \in Requests : kms[r].state # "waiting"
\* nextKMSRequest() returned null and every request handed out was answered.
AllAnswered == \A r \in Requests : kms[r].state \in {"none", "done", "rejected"}
\* Mutant (SessionEnds): libmongocrypt is not told.
FinishNothing == client = "kms" /\ AllAnswered /\ Goto("loop") /\ KMSOnly /\ UNCHANGED kms
FinishKMSRequests ==
    /\ client = "kms" /\ AllAnswered
    /\ \/ /\ \A r \in Requests : kms[r].state # "rejected"
          /\ Advance /\ Goto("loop") /\ UNCHANGED buffer
       \/ Refused /\ Goto("loop") /\ UNCHANGED buffer
       \/ HookEndsCall
    /\ UNCHANGED <<ctorVars, mc>>

-----------------------------------------------------------------------------
\* A refused finalize returns an empty buffer.
FinalizeContext ==
    /\ client = "finalize"
    /\ \/ ctx' = "done" /\ buffer' = "document" /\ Goto("check") /\ UNCHANGED <<ctxWhy, kms>>
       \/ Refused /\ buffer' = "empty" /\ Goto("check")
       \/ HookEndsCall
    /\ UNCHANGED <<ctorVars, mc>>

\* Mutant (ResultIsReal): the buffer is used as it is.
CheckNothing == /\ client = "check" /\ Goto("ended")
                /\ UNCHANGED <<ctorVars, mc, ctx, ctxWhy, kms, buffer>>
\* if (context.state === ERROR) throw new Error(context.status.message)
CheckState ==
    /\ client = "check"
    /\ IF ctx = "error" THEN EndWith("status", FALSE, ctxWhy) ELSE Goto("ended")
    /\ UNCHANGED <<ctorVars, mc, ctx, ctxWhy, kms, buffer>>

\* A context does not keep its MongoCrypt: the application may drop that as soon as
\* it has the context.  The finalizer runs between two calls.
Collect == /\ mc = "live" /\ client \notin {"construct", "make", "ended"}
           /\ mc' = "collected"
           /\ UNCHANGED <<ctorVars, ctx, ctxWhy, kms, client, buffer, error>>
Finalize == /\ mc = "collected" /\ client # "ended" /\ mc' = "finalized"
            /\ UNCHANGED <<ctorVars, ctx, ctxWhy, kms, client, buffer, error>>

KMSStep == \E r \in Requests : NextKMSRequest(r) \/ AddResponse(r) \/ Fail(r)
Application ==
    \/ Construct \/ MakeContext \/ ReadState
    \/ AddMongoOperationResponse \/ FinishMongoOperation \/ ProvideKMSProviders
    \/ KMSStep \/ FinishKMSRequests
    \/ FinalizeContext \/ CheckState

Next == Application \/ Collect \/ Finalize

Spec == Init /\ [][Next]_vars

\* The application goes on as long as it can; nobody has to collect anything.
FairSpec == Spec /\ WF_vars(Application)

-----------------------------------------------------------------------------
\* Every variable has its type.
Whys == {"none", "constructor", "argument", "library", "credentials", "network",
         "crypto", "callback", "unexplained", "gone"}
TypeOK == /\ mc \in {"live", "collected", "finalized"}
          /\ ctx \in {"none", "done", "error"} \cup {Order[i] : i \in DOMAIN Order}
          /\ ctxWhy \in Whys
          /\ kms \in [Requests -> [state : {"none", "waiting", "out", "done", "rejected"},
                                   left : 0..Pieces, tries : 0..MaxTries]]
          /\ client \in {"construct", "make", "loop", "mongo", "credentials", "kms",
                         "finalize", "check", "ended"}
          /\ buffer \in {"none", "document", "empty"}
          /\ error \in [from : {"none", "exception", "status", "client", "abort"},
                        wrapped : BOOLEAN, why : Whys]

\* An application that looks at the state where crypto.test.ts does never takes an
\* empty buffer for its document, although no method of a context reports a failure
\* (mongocrypt.cc:925-963): one that was ignored earlier still shows there, and a
\* session that ended well answered every KMS request it was handed.
ResultIsReal ==
    client = "ended" /\ error = NoError =>
        buffer = "document" /\ ctx = "done" /\ ctxWhy = "none" /\ AllAnswered

\* What goes wrong has a cause, and the addon adds none of its own: credentials are
\* asked for instead of missed and connections retried before they are given up,
\* for the flags are set before libmongocrypt is initialised; a collected
\* MongoCrypt object ends a session only if the hooks are JavaScript; and a failure
\* is unexplained only if an application's own callback kept silent.
FailuresHaveCause ==
    LET why == error.why
    IN  /\ why # "credentials"
        /\ why = "network" => \E r \in Requests : kms[r].tries = MaxTries
        /\ why = "gone" => mc # "live" /\ ~openssl3
        /\ why \in {"callback", "unexplained"} => cryptoCallbacks = "application" /\ ~openssl3

\* Every exception of the bindings reaches the application through its errorWrapper,
\* as bindings.ts:83 says.
AllErrorsWrapped == error.from = "exception" => error.wrapped

\* Whatever happens in the layers, libmongocrypt's context sees what it asks for: no
\* request is skipped, answered twice or left open, no failure that the addon ignored
\* is built upon (mongocrypt.cc:919-963), and a collected MongoCrypt changes nothing.
Protocol == INSTANCE ContextProtocol
              WITH kms <- [r \in Requests |-> kms[r].state], result <- buffer
ImplementsContextProtocol == Protocol!Spec

\* Every step takes the session further, and nothing but libmongocrypt's bounds on
\* rounds and retries makes that end: the context gets older; or it has another round
\* of KMS requests, none of them asked for before; or the application gets on in one
\* turn of its loop, which it enters again only in the error state; or the constructor
\* comes to its next option; or one request, and no other, gets nearer to its answer.
Place == [construct |-> 0, make |-> 1, loop |-> 2, mongo |-> 3, credentials |-> 3,
          kms |-> 3, finalize |-> 3, check |-> 4, ended |-> 5]
Reached == IF client = "loop" /\ ctx = "error" THEN 4 ELSE Place[client]
Closeness == [none |-> 0, waiting |-> 1, out |-> 2, done |-> 3, rejected |-> 3]
Nearer(r) == \/ kms'[r].tries > kms[r].tries
             \/ /\ kms'[r].tries = kms[r].tries
                /\ \/ Closeness[kms'[r].state] > Closeness[kms[r].state]
                   \/ kms'[r].state = kms[r].state /\ kms'[r].left < kms[r].left
Advances ==
    \/ Protocol!Age[ctx'] > Protocol!Age[ctx]
    \/ ctx' = ctx /\ Unasked' \subseteq Unasked /\ Unasked' # Unasked
    \/ /\ ctx' = ctx /\ Unasked' = Unasked
       /\ \/ Reached' > Reached
          \/ client = "construct" /\ client' = client /\ step' = After(step)
          \/ /\ client = "kms" /\ client' = client
             /\ \E r \in Requests : Nearer(r) /\ \A q \in Requests \ {r} : kms'[q] = kms[q]
SessionAdvances == [][mc' = mc => Advances]_vars

\* Every session ends, with a result or with an error: no answer, failure, retry or
\* refusal leaves the application going round its loop.
SessionEnds == <>(client = "ended")
=============================================================================
