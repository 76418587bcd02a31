----------------------- MODULE SessionProtocolProofs -----------------------
(***************************************************************************)
(* EncryptionSession implements ContextProtocol: seen from libmongocrypt,  *)
(* a session through all the layers of this package is a driver that does  *)
(* what the context asks for, in its order.  And every step of it goes     *)
(* forward, for any number of KMS requests, pieces and retries: the safety *)
(* half of the claim that a session ends.                                  *)
(*                                                                         *)
(* Both rest on the invariant of EncryptionSessionProofs, above all on     *)
(* Places: what the context wants where the application is.                *)
(***************************************************************************)
EXTENDS EncryptionSessionProofs

\* A step that libmongocrypt's context does not notice.
Unnoticed == UNCHANGED <<ctx, kms, buffer>>

LEMMA UnnoticedRefines ==
  ASSUME Unnoticed
  PROVE  UNCHANGED Protocol!vars
  BY DEF Unnoticed, Protocol!vars

\* The states in libmongocrypt's order, by number.
LEMMA OrderFacts ==
  /\ DOMAIN Order = 1..5
  /\ \A i \in 1..5 : Protocol!Age[Order[i]] = i
  /\ Wants = Protocol!Asking \cup {"ready"}
<1>1. DOMAIN Order = 1..5
  BY DEF Order
<1>2. /\ Order[1] = "need_mongo" /\ Order[2] = "need_kms_credentials"
      /\ Order[3] = "need_keys" /\ Order[4] = "need_kms" /\ Order[5] = "ready"
  BY DEF Order
<1>3. \A i \in 1..5 : Protocol!Age[Order[i]] = i
  BY <1>2 DEF Protocol!Age
<1>4. Wants = Protocol!Asking \cup {"ready"}
  BY <1>1, <1>2 DEF Wants, Protocol!Asking
<1> QED
  BY <1>1, <1>3, <1>4

\* A later state is an older one: what comes after a state has a higher number.
LEMMA LaterFacts ==
  ASSUME NEW c \in {"none"} \cup Wants, NEW s \in Later(c)
  PROVE  s \in Wants /\ Protocol!Age[s] > Protocol!Age[c] /\ c # "ready"
<1>1. PICK i \in 1..5 : s = Order[i] /\ \A k \in 1..5 : Order[k] = c => i > k
  BY OrderFacts DEF Later
<1>2. s \in Wants /\ Protocol!Age[s] = i
  BY <1>1, OrderFacts DEF Wants
<1>3. CASE c = "none"
  BY <1>1, <1>2, <1>3 DEF Protocol!Age
<1>4. CASE c \in Wants
  <2>1. PICK k \in 1..5 : c = Order[k]
    BY <1>4, OrderFacts DEF Wants
  <2>2. i > k /\ Protocol!Age[c] = k
    BY <1>1, <2>1, OrderFacts
  <2>3. c # "ready"
    <3>1. i <= 5 /\ k < 5
      BY <1>1, <2>1, <2>2
    <3>2. Protocol!Age["ready"] = 5
      BY DEF Protocol!Age
    <3> QED
      BY <2>2, <3>1, <3>2
  <2> QED
    BY <1>2, <2>2, <2>3
<1> QED
  BY <1>3, <1>4

\* A context that asked for KMS requests and got no refusal has all it asked for.
NoneRejected == \A r \in Requests : kms[r].state # "rejected"

\* Where the context stands when the application makes a call that may move it on.
Waiting == /\ Ready /\ ctx \in {"none"} \cup Wants
           /\ ctx = "need_kms" => AllAnswered /\ NoneRejected

\* libmongocrypt goes on only to a later state or another round, and to the error of
\* missing credentials never.
LEMMA AdvanceMoves ==
  ASSUME IInv, Waiting, Advance
  PROVE  /\ ctx' \in Wants /\ Protocol!Further /\ ctx # "ready"
         /\ IF ctx' = "need_kms"
            THEN \E some \in (SUBSET Unasked) \ {{}} :
                    kms' = [r \in Requests |-> IF r \in some
                                               THEN [NoRequest EXCEPT !.state = "waiting"]
                                               ELSE kms[r]]
            ELSE kms' = kms
<1>1. "need_kms_credentials" \in settings
  BY DEF Waiting, IInv, CtorInv, SettingsTaken, Ready, Always
<1>2. PICK s \in Later(ctx) \cup ({"need_kms"} \cap {ctx}) :
         /\ ctx' = s
         /\ IF s = "need_kms"
            THEN \E some \in (SUBSET Unasked) \ {{}} :
                    kms' = [r \in Requests |-> IF r \in some
                                               THEN [NoRequest EXCEPT !.state = "waiting"]
                                               ELSE kms[r]]
            ELSE kms' = kms
  BY <1>1 DEF Advance
<1>3. s \in Wants /\ ctx # "ready" /\ Protocol!Further
  <2>1. CASE s \in Later(ctx)
    BY <1>2, <2>1, LaterFacts DEF Waiting, Protocol!Further
  <2>2. CASE s = "need_kms" /\ ctx = "need_kms"
    BY <1>2, <2>2 DEF Waiting, Protocol!Further
  <2> QED
    BY <1>2, <2>1, <2>2
<1> QED
  BY <1>2, <1>3

\* What is waiting now was not asked for before.
LEMMA RoundIsNew ==
  ASSUME IInv, NEW some \in (SUBSET Unasked) \ {{}},
         kms' = [r \in Requests |-> IF r \in some THEN [NoRequest EXCEPT !.state = "waiting"]
                                                  ELSE kms[r]]
  PROVE  /\ [r \in Requests |-> kms'[r].state]
               = [r \in Requests |-> IF r \in some THEN "waiting" ELSE kms[r].state]
         /\ Unasked' \subseteq Unasked /\ Unasked' # Unasked
<1>1. \A r \in Requests : kms'[r].state = IF r \in some THEN "waiting" ELSE kms[r].state
  BY DEF NoRequest
<1>2. PICK r \in some : r \in Unasked /\ r \in Requests
  BY DEF Unasked
<1>3. r \notin Unasked'
  BY <1>1, <1>2 DEF Unasked
<1>4. Unasked' \subseteq Unasked
  BY <1>1 DEF Unasked
<1> QED
  BY <1>1, <1>2, <1>3, <1>4

\* The step of the protocol that this is.
LEMMA AdvanceRefines ==
  ASSUME IInv, Waiting, Advance, UNCHANGED buffer
  PROVE  Protocol!MoveOn
<1>1. /\ ctx \in Protocol!Asking \cup {"none"}
      /\ ctx' \in Protocol!Asking \cup {"ready"} /\ Protocol!Further
  BY AdvanceMoves, OrderFacts DEF Waiting
<1>2. ctx = "need_kms" => Protocol!Settled
  BY DEF Waiting, AllAnswered, NoneRejected, Protocol!Settled
<1>3. CASE ctx' = "need_kms"
  <2>1. PICK some \in (SUBSET Unasked) \ {{}} :
           kms' = [r \in Requests |-> IF r \in some THEN [NoRequest EXCEPT !.state = "waiting"]
                                                     ELSE kms[r]]
    BY <1>3, AdvanceMoves
  <2>2. some \in (SUBSET Protocol!Unasked) \ {{}}
    BY DEF Unasked, Protocol!Unasked
  <2>3. [r \in Requests |-> kms'[r].state]
            = [r \in Requests |-> IF r \in some THEN "waiting" ELSE kms[r].state]
    BY <2>1, RoundIsNew
  <2>4. [r \in Requests |-> kms'[r].state]
            = [r \in Requests |-> IF r \in some THEN "waiting"
                                  ELSE [q \in Requests |-> kms[q].state][r]]
    BY <2>3
  <2> QED
    BY <1>1, <1>2, <1>3, <2>2, <2>4 DEF Protocol!MoveOn
<1>4. CASE ctx' # "need_kms"
  <2>1. kms' = kms
    BY <1>4, AdvanceMoves
  <2> QED
    BY <1>1, <1>2, <1>4, <2>1 DEF Protocol!MoveOn
<1> QED
  BY <1>3, <1>4

\* A call that libmongocrypt refuses breaks the context, or leaves a broken one as it is.
LEMMA RefusedRefines ==
  ASSUME IInv, Refused, ctx \in Wants \cup {"error"},
         buffer' = IF ctx = "ready" THEN "empty" ELSE buffer
  PROVE  [Protocol!Next]_(Protocol!vars)
<1>1. ctx' = "error" /\ kms' = kms
  BY DEF Refused
<1>2. CASE ctx = "error"
  BY <1>1, <1>2, UnnoticedRefines DEF Unnoticed
<1>3. CASE ctx \in Wants
  <2>1. ctx \in Protocol!Asking \cup {"ready"}
    BY <1>3, OrderFacts
  <2>2. Protocol!Break
    BY <1>1, <2>1 DEF Protocol!Break
  <2> QED
    BY <2>2 DEF Protocol!Next
<1> QED
  BY <1>2, <1>3

\* A call after which the application goes round its loop: libmongocrypt goes on,
\* refuses what it was given, or a hook ends the call.
LEMMA TurnRefines ==
  ASSUME IInv, ctx # "ready",
         \/ Waiting /\ Advance /\ UNCHANGED buffer
         \/ ctx \in Wants \cup {"error"} /\ Refused /\ UNCHANGED buffer
         \/ HookEndsCall
  PROVE  [Protocol!Next]_(Protocol!vars)
<1>1. CASE Waiting /\ Advance /\ UNCHANGED buffer
  BY <1>1, AdvanceRefines DEF Protocol!Next
<1>2. CASE ctx \in Wants \cup {"error"} /\ Refused /\ UNCHANGED buffer
  BY <1>2, RefusedRefines
<1>3. CASE HookEndsCall
  BY <1>3, UnnoticedRefines DEF HookEndsCall, Unnoticed
<1> QED
  BY <1>1, <1>2, <1>3

\* The states a context may be in at the places of the loop.
LEMMA PlaceFacts ==
  ASSUME IInv
  PROVE  /\ client \in {"construct", "make"} => ctx = "none"
         /\ client = "loop" => ctx \in Wants \cup {"error"}
         /\ client = "mongo" => ctx \in (Wants \ {"ready", "need_kms"}) \cup {"error"}
         /\ client = "credentials" => ctx = "need_kms_credentials" /\ ctx \in Wants
         /\ client = "kms" => ctx = "need_kms" /\ ctx \in Wants
         /\ client = "finalize" => ctx = "ready" /\ ctx \in Wants
         /\ client \notin {"construct", "ended"} => Ready
  BY OrderFacts DEF IInv, SessionInv, Places, MongoStates, Protocol!Asking, Constructed

-----------------------------------------------------------------------------
(* The refinement. *)

LEMMA ProtocolInit == Init => Protocol!Init
  BY DEF Init, NoRequest, Protocol!Init

LEMMA MakeContextRefines ==
  ASSUME IInv, MakeContext
  PROVE  [Protocol!Next]_(Protocol!vars)
<1>1. ctx = "none" /\ Waiting
  BY PlaceFacts DEF MakeContext, Waiting
<1>2. CASE UNCHANGED <<ctx, ctxWhy, kms, buffer>>
  BY <1>2, UnnoticedRefines DEF Unnoticed
<1>3. CASE Advance /\ UNCHANGED buffer
  BY <1>1, <1>3, TurnRefines
<1> QED
  BY <1>2, <1>3 DEF MakeContext, HookEndsCall

LEMMA MongoRefines ==
  ASSUME IInv, AddMongoOperationResponse \/ FinishMongoOperation
  PROVE  [Protocol!Next]_(Protocol!vars)
<1>1. ctx \in (Wants \ {"ready", "need_kms"}) \cup {"error"} /\ Ready
  BY PlaceFacts DEF AddMongoOperationResponse, FinishMongoOperation
<1>2. ctx # "ready" /\ ctx # "need_kms" /\ ctx \in Wants \cup {"error"}
  BY <1>1
<1>3. ctx # "error" => Waiting
  BY <1>1, <1>2 DEF Waiting
<1>4. CASE AddMongoOperationResponse
  <2>1. CASE UNCHANGED <<ctx, ctxWhy, kms>>
    BY <1>4, <2>1, UnnoticedRefines DEF AddMongoOperationResponse, Unnoticed
  <2>2. CASE Refused \/ HookEndsCall
    BY <1>2, <1>4, <2>2, TurnRefines DEF AddMongoOperationResponse
  <2> QED
    BY <1>4, <2>1, <2>2 DEF AddMongoOperationResponse
<1>5. CASE FinishMongoOperation
  BY <1>2, <1>3, <1>5, TurnRefines DEF FinishMongoOperation
<1> QED
  BY <1>4, <1>5

LEMMA ProvideKMSProvidersRefines ==
  ASSUME IInv, ProvideKMSProviders
  PROVE  [Protocol!Next]_(Protocol!vars)
<1>1. ctx = "need_kms_credentials" /\ ctx \in Wants /\ Ready /\ Waiting
  BY PlaceFacts DEF ProvideKMSProviders, Waiting
<1>2. CASE UNCHANGED <<ctx, ctxWhy, kms, buffer>>
  BY <1>2, UnnoticedRefines DEF Unnoticed
<1>3. CASE \/ Advance /\ UNCHANGED buffer
           \/ Refused /\ UNCHANGED buffer
           \/ HookEndsCall
  BY <1>1, <1>3, TurnRefines
<1> QED
  BY <1>2, <1>3 DEF ProvideKMSProviders

LEMMA FinishKMSRequestsRefines ==
  ASSUME IInv, FinishKMSRequests
  PROVE  [Protocol!Next]_(Protocol!vars)
<1>1. ctx = "need_kms" /\ ctx \in Wants /\ Ready /\ AllAnswered
  BY PlaceFacts DEF FinishKMSRequests
<1>2. CASE NoneRejected /\ Advance /\ UNCHANGED buffer
  <2>1. Waiting
    BY <1>1, <1>2 DEF Waiting
  <2> QED
    BY <1>1, <1>2, <2>1, TurnRefines
<1>3. CASE Refused /\ UNCHANGED buffer
  BY <1>1, <1>3, TurnRefines
<1>4. CASE HookEndsCall
  BY <1>1, <1>4, TurnRefines
<1> QED
  BY <1>2, <1>3, <1>4 DEF FinishKMSRequests, NoneRejected

\* What happens to the states of the requests when something happens to one of them.
LEMMA RequestStates ==
  ASSUME IInv, NEW r \in Requests, NEW s, kms'[r].state = s,
         kms' \in Answers, \A q \in Requests \ {r} : kms'[q] = kms[q]
  PROVE  [q \in Requests |-> kms'[q].state]
            = [[q \in Requests |-> kms[q].state] EXCEPT ![r] = s]
  OBVIOUS

\* A request is handed out, or an answer to one that was comes in.
LEMMA RequestRefines ==
  ASSUME IInv, NEW r \in Requests, kms' \in Answers, client = "kms",
         \A q \in Requests \ {r} : kms'[q] = kms[q], UNCHANGED <<ctx, buffer>>,
         \/ kms[r].state = "waiting" /\ kms'[r].state = "out"
         \/ kms[r].state = "out" /\ kms'[r].state \in {"done", "rejected", "waiting"}
  PROVE  [Protocol!Next]_(Protocol!vars)
<1>1. ctx = "need_kms"
  BY PlaceFacts
<1>2. [q \in Requests |-> kms'[q].state]
         = [[q \in Requests |-> kms[q].state] EXCEPT ![r] = kms'[r].state]
  BY RequestStates
<1>3. CASE kms[r].state = "waiting" /\ kms'[r].state = "out"
  BY <1>1, <1>2, <1>3 DEF Protocol!HandOut, Protocol!Next
<1>4. CASE kms[r].state = "out" /\ kms'[r].state \in {"done", "rejected", "waiting"}
  BY <1>1, <1>2, <1>4 DEF Protocol!Answer, Protocol!Next
<1> QED
  BY <1>3, <1>4

\* Whatever is done to a request brings it nearer to its answer, and is done to no other;
\* or it ends the session.
Moves(r) == \/ kms[r].state = "waiting" /\ kms'[r].state = "out"
            \/ kms[r].state = "out" /\ kms'[r].state \in {"done", "rejected", "waiting"}
            \/ kms'[r].state = kms[r].state

LEMMA AgainFacts ==
  ASSUME IInv, NEW r \in Requests, kms[r].state = "out", MayRetry(r), Again(r)
  PROVE  /\ kms' \in Answers /\ \A q \in Requests \ {r} : kms'[q] = kms[q]
         /\ Nearer(r) /\ Moves(r)
<1>1. kms \in Answers /\ kms' \in Answers
  BY RequestAgain DEF IInv, SessionInv, TypeOK, Answers
<1>2. kms' = [kms EXCEPT ![r] = [state |-> "waiting", left |-> 0, tries |-> kms[r].tries + 1]]
  BY DEF Again
<1>3. kms[r].tries \in Nat
  BY <1>1, BoundsAssumption DEF Answers
<1>4. kms'[r] = [state |-> "waiting", left |-> 0, tries |-> kms[r].tries + 1]
      /\ \A q \in Requests \ {r} : kms'[q] = kms[q]
  BY <1>1, <1>2 DEF Answers
<1> QED
  BY <1>1, <1>3, <1>4 DEF Nearer, Moves

LEMMA HandOutFacts ==
  ASSUME IInv, NEW r \in Requests, kms[r].state = "waiting",
         kms' = [kms EXCEPT ![r].state = "out", ![r].left = Pieces]
  PROVE  /\ kms' \in Answers /\ \A q \in Requests \ {r} : kms'[q] = kms[q]
         /\ Nearer(r) /\ Moves(r)
<1>1. kms \in Answers /\ kms' \in Answers
  BY RequestOut DEF IInv, SessionInv, TypeOK, Answers
<1>2. /\ kms'[r].state = "out" /\ kms'[r].tries = kms[r].tries
      /\ \A q \in Requests \ {r} : kms'[q] = kms[q]
  BY <1>1 DEF Answers
<1>3. Closeness["out"] > Closeness["waiting"]
  BY DEF Closeness
<1> QED
  BY <1>1, <1>2, <1>3 DEF Nearer, Moves

LEMMA PieceFacts ==
  ASSUME IInv, NEW r \in Requests, kms[r].left > 1,
         kms' = [kms EXCEPT ![r].left = @ - 1]
  PROVE  /\ kms' \in Answers /\ \A q \in Requests \ {r} : kms'[q] = kms[q]
         /\ Nearer(r) /\ Moves(r)
<1>1. kms \in Answers /\ kms' \in Answers
  BY RequestPiece DEF IInv, SessionInv, TypeOK, Answers
<1>2. kms[r].left \in Nat
  BY <1>1, BoundsAssumption DEF Answers
<1>3. /\ kms'[r].state = kms[r].state /\ kms'[r].tries = kms[r].tries
      /\ kms'[r].left = kms[r].left - 1
      /\ \A q \in Requests \ {r} : kms'[q] = kms[q]
  BY <1>1 DEF Answers
<1> QED
  BY <1>1, <1>2, <1>3 DEF Nearer, Moves

LEMMA LastPieceFacts ==
  ASSUME IInv, NEW r \in Requests, kms[r].state = "out", NEW s \in {"done", "rejected"},
         kms' = [kms EXCEPT ![r].state = s, ![r].left = 0]
  PROVE  /\ kms' \in Answers /\ \A q \in Requests \ {r} : kms'[q] = kms[q]
         /\ Nearer(r) /\ Moves(r)
<1>1. kms \in Answers /\ kms' \in Answers
  BY RequestAnswered DEF IInv, SessionInv, TypeOK, Answers
<1>2. /\ kms'[r].state = s /\ kms'[r].tries = kms[r].tries
      /\ \A q \in Requests \ {r} : kms'[q] = kms[q]
  BY <1>1 DEF Answers
<1>3. Closeness[s] > Closeness["out"]
  BY DEF Closeness
<1> QED
  BY <1>1, <1>2, <1>3 DEF Nearer, Moves

LEMMA KMSStepFacts ==
  ASSUME IInv, KMSStep
  PROVE  /\ client = "kms" /\ UNCHANGED <<ctx, buffer>>
         /\ \/ client' = "ended" /\ kms' = kms
            \/ /\ client' = client
               /\ \E r \in Requests : /\ kms' \in Answers
                                      /\ \A q \in Requests \ {r} : kms'[q] = kms[q]
                                      /\ Nearer(r) /\ Moves(r)
<1>1. PICK r \in Requests : NextKMSRequest(r) \/ AddResponse(r) \/ Fail(r)
  BY DEF KMSStep
<1>2. client = "kms" /\ UNCHANGED <<ctx, buffer>>
  BY <1>1 DEF NextKMSRequest, AddResponse, Fail, KMSOnly
<1>3. CASE NextKMSRequest(r)
  BY <1>2, <1>3, HandOutFacts DEF NextKMSRequest
<1>4. CASE AddResponse(r)
  <2>1. CASE EndWith("exception", FALSE, "argument") /\ UNCHANGED kms
    BY <1>2, <2>1 DEF EndWith
  <2>2. CASE /\ kms[r].left > 1 /\ kms' = [kms EXCEPT ![r].left = @ - 1]
             /\ UNCHANGED <<client, error>>
    BY <1>2, <2>2, PieceFacts
  <2>3. CASE /\ \E s \in {"done", "rejected"} : kms' = [kms EXCEPT ![r].state = s, ![r].left = 0]
             /\ UNCHANGED <<client, error>>
    BY <1>2, <1>4, <2>3, LastPieceFacts DEF AddResponse
  <2>4. CASE MayRetry(r) /\ Again(r) /\ UNCHANGED <<client, error>>
    BY <1>2, <1>4, <2>4, AgainFacts DEF AddResponse
  <2> QED
    BY <1>4, <2>1, <2>2, <2>3, <2>4 DEF AddResponse
<1>5. CASE Fail(r)
  <2>1. CASE MayRetry(r) /\ Again(r) /\ UNCHANGED <<client, error>>
    BY <1>2, <1>5, <2>1, AgainFacts DEF Fail
  <2>2. CASE EndWith("client", FALSE, "network") /\ UNCHANGED kms
    BY <1>2, <2>2 DEF EndWith
  <2> QED
    BY <1>5, <2>1, <2>2 DEF Fail
<1> QED
  BY <1>1, <1>3, <1>4, <1>5

LEMMA KMSStepRefines ==
  ASSUME IInv, KMSStep
  PROVE  [Protocol!Next]_(Protocol!vars)
<1>1. CASE kms' = kms
  BY <1>1, KMSStepFacts, UnnoticedRefines DEF Unnoticed
<1>2. CASE kms' # kms
  <2>1. PICK r \in Requests : /\ kms' \in Answers
                              /\ \A q \in Requests \ {r} : kms'[q] = kms[q]
                              /\ Moves(r)
    BY <1>2, KMSStepFacts
  <2>2. CASE kms'[r].state = kms[r].state
    <3>1. [q \in Requests |-> kms'[q].state] = [q \in Requests |-> kms[q].state]
      BY <2>1, <2>2
    <3> QED
      BY <3>1, KMSStepFacts DEF Protocol!vars
  <2>3. CASE kms'[r].state # kms[r].state
    BY <2>1, <2>3, KMSStepFacts, RequestRefines DEF Moves
  <2> QED
    BY <2>2, <2>3
<1> QED
  BY <1>1, <1>2

LEMMA FinalizeContextRefines ==
  ASSUME IInv, FinalizeContext
  PROVE  [Protocol!Next]_(Protocol!vars)
<1>1. ctx = "ready" /\ ctx \in Wants
  BY PlaceFacts DEF FinalizeContext
<1>2. CASE ctx' = "done" /\ buffer' = "document" /\ UNCHANGED <<ctxWhy, kms>>
  BY <1>1, <1>2 DEF Protocol!Finish, Protocol!Next
<1>3. CASE Refused /\ buffer' = "empty"
  BY <1>1, <1>3, RefusedRefines
<1>4. CASE HookEndsCall
  BY <1>4, UnnoticedRefines DEF HookEndsCall, Unnoticed
<1> QED
  BY <1>2, <1>3, <1>4 DEF FinalizeContext

\* The constructor, the application's own steps and the garbage collector are none of
\* the context's business.
LEMMA OtherStepsRefine ==
  ASSUME Construct \/ ReadState \/ CheckState \/ Collect \/ Finalize \/ UNCHANGED vars
  PROVE  UNCHANGED Protocol!vars
<1>1. Unnoticed
  BY DEF Unnoticed, Construct, ReadState, CheckState, Collect, Finalize, vars, sessionVars
<1> QED
  BY <1>1, UnnoticedRefines

LEMMA ProtocolStep == IInv /\ [Next]_vars => [Protocol!Next]_(Protocol!vars)
<1> SUFFICES ASSUME IInv, [Next]_vars PROVE [Protocol!Next]_(Protocol!vars)
  OBVIOUS
<1> QED
  BY MakeContextRefines, MongoRefines, ProvideKMSProvidersRefines, KMSStepRefines,
     FinishKMSRequestsRefines, FinalizeContextRefines, OtherStepsRefine
  DEF Next, Application

\* A session, with its layers, retries, failing hooks and vanishing MongoCrypt, is a
\* driver that gives libmongocrypt's context what it asks for, in its order.
THEOREM SessionKeepsTheProtocol == Spec => ImplementsContextProtocol
  BY ProtocolInit, ProtocolStep, SessionInvariant, PTL
  DEF Spec, ImplementsContextProtocol, Protocol!Spec

\* What the protocol itself promises: a document is that of a context which is done, and
\* nothing was left open or refused on the way to it.
LEMMA ProtocolSettles == Protocol!Spec => []Protocol!DocumentIsSettled
<1>1. Protocol!Init => Protocol!DocumentIsSettled
  BY DEF Protocol!Init, Protocol!DocumentIsSettled, Protocol!Settled
<1>2. ASSUME Protocol!DocumentIsSettled, [Protocol!Next]_(Protocol!vars)
      PROVE  Protocol!DocumentIsSettled'
  <2> DEFINE states == [r \in Requests |-> kms[r].state]
  <2>1. Protocol!Settled' = Protocol!Settled \/ states' # states
    BY DEF Protocol!Settled
  <2>2. CASE Protocol!MoveOn
    <3>1. ctx # "done" /\ ctx # "error" /\ ctx' # "done" /\ buffer' = buffer
      BY <2>2 DEF Protocol!MoveOn, Protocol!Asking
    <3>2. ASSUME ctx' # "need_kms" PROVE Protocol!Settled'
      <4>1. states' = states
        BY <2>2, <3>2 DEF Protocol!MoveOn
      <4>2. Protocol!Settled
        BY <1>2, <2>2, <3>1 DEF Protocol!MoveOn, Protocol!DocumentIsSettled
      <4> QED
        BY <2>1, <4>1, <4>2
    <3> QED
      BY <1>2, <3>1, <3>2 DEF Protocol!DocumentIsSettled
  <2>3. CASE Protocol!Break
    BY <1>2, <2>3 DEF Protocol!Break, Protocol!Asking, Protocol!DocumentIsSettled
  <2>4. CASE Protocol!Finish
    <3>1. states' = states
      BY <2>4 DEF Protocol!Finish
    <3> QED
      BY <1>2, <2>1, <2>4, <3>1 DEF Protocol!Finish, Protocol!DocumentIsSettled
  <2>5. ASSUME NEW r \in Requests, Protocol!HandOut(r) \/ Protocol!Answer(r)
        PROVE  Protocol!DocumentIsSettled'
    BY <1>2, <2>5 DEF Protocol!HandOut, Protocol!Answer, Protocol!DocumentIsSettled
  <2>6. CASE UNCHANGED Protocol!vars
    BY <1>2, <2>1, <2>6 DEF Protocol!vars, Protocol!DocumentIsSettled
  <2> QED
    BY <1>2, <2>2, <2>3, <2>4, <2>5, <2>6 DEF Protocol!Next
<1> QED
  BY <1>1, <1>2, PTL DEF Protocol!Spec

\* So it holds of every session: whatever the addon ignored on the way, a document means
\* that every KMS request was handed out and answered, and none of the answers refused.
THEOREM DocumentsAreSettled == Spec => []Protocol!DocumentIsSettled
  BY SessionKeepsTheProtocol, ProtocolSettles, PTL DEF ImplementsContextProtocol

-----------------------------------------------------------------------------
(* The session goes forward. *)

LEMMA AgeFacts ==
  /\ \A c \in Wants : Protocol!Age[c] < 6
  /\ Protocol!Age["error"] = 6 /\ Protocol!Age["done"] = 6 /\ Protocol!Age["ready"] = 5
<1>1. \A c \in Wants : Protocol!Age[c] < 6
  <2> SUFFICES ASSUME NEW c \in Wants PROVE Protocol!Age[c] < 6
    OBVIOUS
  <2>1. PICK i \in 1..5 : c = Order[i]
    BY OrderFacts DEF Wants
  <2> QED
    BY <2>1, OrderFacts
<1> QED
  BY <1>1 DEF Protocol!Age

LEMMA PlaceNumbers ==
  /\ Place["construct"] = 0 /\ Place["make"] = 1 /\ Place["loop"] = 2
  /\ \A p \in {"mongo", "credentials", "kms", "finalize"} : Place[p] = 3
  /\ Place["check"] = 4 /\ Place["ended"] = 5
  BY DEF Place

\* The session ends where the context stands.
LEMMA EndingAdvances ==
  ASSUME IInv, client # "ended", client' = "ended", ctx' = ctx, kms' = kms
  PROVE  Advances
<1>1. client \in {"construct", "make", "loop", "mongo", "credentials", "kms",
                  "finalize", "check"}
  BY DEF IInv, SessionInv, TypeOK
<1>2. Reached' = 5 /\ Reached < 5
  BY <1>1, PlaceNumbers DEF Reached
<1> QED
  BY <1>2 DEF Advances, Unasked

\* The context gets older, or another round, by what it is given, and older by what it
\* refuses.
LEMMA TurnAdvances ==
  ASSUME IInv, client # "ended",
         \/ Waiting /\ Advance
         \/ ctx \in Wants /\ Refused
         \/ HookEndsCall
  PROVE  Advances
<1>1. CASE Waiting /\ Advance
  <2>1. CASE Protocol!Age[ctx'] > Protocol!Age[ctx]
    BY <2>1 DEF Advances
  <2>2. CASE ctx = "need_kms" /\ ctx' = "need_kms"
    BY <1>1, <2>2, AdvanceMoves, RoundIsNew DEF Advances
  <2> QED
    BY <1>1, <2>1, <2>2, AdvanceMoves DEF Protocol!Further
<1>2. CASE ctx \in Wants /\ Refused
  BY <1>2, AgeFacts DEF Refused, Advances
<1>3. CASE HookEndsCall
  BY <1>3, EndingAdvances DEF HookEndsCall, Wrapped, EndWith
<1> QED
  BY <1>1, <1>2, <1>3

LEMMA ConstructAdvances ==
  ASSUME IInv, Construct
  PROVE  Advances
<1>1. client = "construct" /\ ctx' = ctx /\ kms' = kms /\ Constructor
  BY DEF Construct
<1>2. CASE ctorError' # "none"
  <2>1. step' # "ready"
    BY <1>1, <1>2, ThrowingStops
  <2>2. client' = "ended"
    BY <1>2, <2>1 DEF Construct, EndWith
  <2> QED
    BY <1>1, <2>2, EndingAdvances
<1>3. CASE ctorError' = "none" /\ step' = "ready"
  <2>1. client' = "make"
    BY <1>3 DEF Construct, Goto
  <2> QED
    BY <1>1, <2>1, PlaceNumbers DEF Advances, Reached, Unasked
<1>4. CASE ctorError' = "none" /\ step' # "ready"
  <2>1. client' = client
    BY <1>4 DEF Construct
  <2>2. step' = After(step)
    BY <1>1, <1>4
    DEF Constructor, ReadChecked, ReadLogger, SetCallbacks, InstallCryptoHooks,
        ReadUnchecked, SetFlags, Initialize, Continue, Throw
  <2> QED
    BY <1>1, <2>1, <2>2 DEF Advances, Unasked
<1> QED
  BY <1>2, <1>3, <1>4

LEMMA MakeContextAdvances ==
  ASSUME IInv, MakeContext
  PROVE  Advances
<1>1. client = "make" /\ ctx = "none" /\ Waiting
  BY PlaceFacts DEF MakeContext, Waiting
<1>2. CASE UNCHANGED <<ctx, ctxWhy, kms, buffer>> /\ client' = "ended"
  BY <1>1, <1>2, EndingAdvances
<1>3. CASE Advance \/ HookEndsCall
  BY <1>1, <1>3, TurnAdvances
<1> QED
  BY <1>2, <1>3 DEF MakeContext, Wrapped, EndWith

\* The error state ends the loop, and no place of it is behind another.
LEMMA ReadStateAdvances ==
  ASSUME IInv, ReadState
  PROVE  Advances
<1>1. client = "loop" /\ ctx' = ctx /\ kms' = kms /\ ctx \in Wants \cup {"error"}
  BY PlaceFacts DEF ReadState
<1>2. CASE ctx = "error"
  <2>1. client' = "ended"
    BY <1>2 DEF ReadState, EndWith, MongoStates
  <2> QED
    BY <1>1, <2>1, EndingAdvances
<1>3. CASE ctx # "error"
  <2>1. ctx \in MongoStates \cup {"need_kms_credentials", "need_kms", "ready"}
    BY <1>1, <1>3, OrderFacts DEF MongoStates, Protocol!Asking
  <2>2. client' \in {"mongo", "credentials", "kms", "finalize"}
    BY <1>3, <2>1 DEF ReadState, Goto, MongoStates
  <2>3. Reached = 2 /\ Reached' = 3
    BY <1>1, <1>3, <2>2, PlaceNumbers DEF Reached
  <2> QED
    BY <1>1, <2>3 DEF Advances, Unasked
<1> QED
  BY <1>2, <1>3

\* A refused answer breaks the context or, when it is broken already, does nothing at
\* all; finishMongoOperation then leads to the end of the loop.
LEMMA MongoAdvances ==
  ASSUME IInv, AddMongoOperationResponse \/ FinishMongoOperation
  PROVE  Advances \/ UNCHANGED vars
<1>1. /\ client = "mongo" /\ Ready
      /\ ctx \in (Wants \ {"ready", "need_kms"}) \cup {"error"}
  BY PlaceFacts DEF AddMongoOperationResponse, FinishMongoOperation
<1>2. ctx # "error" => Waiting /\ ctx \in Wants
  BY <1>1 DEF Waiting
<1>3. CASE ctx # "error" /\ (Advance \/ Refused \/ HookEndsCall)
  BY <1>1, <1>2, <1>3, TurnAdvances
<1>4. CASE HookEndsCall
  BY <1>1, <1>4, TurnAdvances
<1>5. CASE ctx = "error" /\ AddMongoOperationResponse
  <2>1. CASE Wrapped("argument") /\ UNCHANGED <<ctx, ctxWhy, kms>>
    BY <1>1, <2>1, EndingAdvances DEF Wrapped, EndWith
  <2>2. CASE Refused /\ UNCHANGED <<client, error>>
    BY <1>5, <2>2 DEF AddMongoOperationResponse, Refused, vars, sessionVars
  <2> QED
    BY <1>4, <1>5, <2>1, <2>2 DEF AddMongoOperationResponse
<1>6. CASE ctx = "error" /\ Refused /\ Goto("loop")
  <2>1. ctx' = ctx /\ kms' = kms /\ client' = "loop"
    BY <1>6 DEF Refused, Goto
  <2>2. Reached = 3 /\ Reached' = 4
    BY <1>1, <1>6, <2>1, PlaceNumbers DEF Reached
  <2> QED
    BY <2>1, <2>2 DEF Advances, Unasked
<1>7. CASE ctx # "error" /\ AddMongoOperationResponse
  <2>1. CASE Wrapped("argument") /\ UNCHANGED <<ctx, ctxWhy, kms>>
    BY <1>1, <2>1, EndingAdvances DEF Wrapped, EndWith
  <2> QED
    BY <1>3, <1>7, <2>1 DEF AddMongoOperationResponse
<1>8. CASE FinishMongoOperation
  BY <1>3, <1>4, <1>6, <1>8 DEF FinishMongoOperation
<1> QED
  BY <1>5, <1>7, <1>8

LEMMA ProvideKMSProvidersAdvances ==
  ASSUME IInv, ProvideKMSProviders
  PROVE  Advances
<1>1. client = "credentials" /\ ctx \in Wants /\ Waiting
  BY PlaceFacts DEF ProvideKMSProviders, Waiting
<1>2. CASE UNCHANGED <<ctx, ctxWhy, kms, buffer>> /\ Wrapped("argument")
  BY <1>1, <1>2, EndingAdvances DEF Wrapped, EndWith
<1>3. CASE Advance \/ Refused \/ HookEndsCall
  BY <1>1, <1>3, TurnAdvances
<1> QED
  BY <1>2, <1>3 DEF ProvideKMSProviders

LEMMA KMSStepAdvances ==
  ASSUME IInv, KMSStep
  PROVE  Advances
<1>1. client = "kms" /\ ctx' = ctx
  BY KMSStepFacts
<1>2. CASE client' = "ended" /\ kms' = kms
  BY <1>1, <1>2, EndingAdvances
<1>3. CASE client' = client
  <2>1. PICK r \in Requests : /\ \A q \in Requests \ {r} : kms'[q] = kms[q]
                              /\ Nearer(r) /\ Moves(r)
    BY <1>1, <1>3, KMSStepFacts
  <2>2. kms[r].state = "none" <=> kms'[r].state = "none"
    BY <2>1 DEF Moves
  <2>3. Unasked' = Unasked
    BY <2>1, <2>2 DEF Unasked
  <2> QED
    BY <1>1, <1>3, <2>1, <2>3 DEF Advances
<1> QED
  BY <1>2, <1>3, KMSStepFacts

LEMMA FinishKMSRequestsAdvances ==
  ASSUME IInv, FinishKMSRequests
  PROVE  Advances
<1>1. client = "kms" /\ ctx = "need_kms" /\ ctx \in Wants /\ Ready /\ AllAnswered
  BY PlaceFacts DEF FinishKMSRequests
<1>2. NoneRejected => Waiting
  BY <1>1 DEF Waiting
<1>3. CASE NoneRejected /\ Advance
  BY <1>1, <1>2, <1>3, TurnAdvances
<1>4. CASE Refused \/ HookEndsCall
  BY <1>1, <1>4, TurnAdvances
<1> QED
  BY <1>3, <1>4 DEF FinishKMSRequests, NoneRejected

LEMMA FinalizeContextAdvances ==
  ASSUME IInv, FinalizeContext
  PROVE  Advances
<1>1. client = "finalize" /\ ctx = "ready" /\ ctx \in Wants
  BY PlaceFacts DEF FinalizeContext
<1>2. CASE ctx' = "done"
  BY <1>1, <1>2, AgeFacts DEF Advances
<1>3. CASE Refused \/ HookEndsCall
  BY <1>1, <1>3, TurnAdvances
<1> QED
  BY <1>2, <1>3 DEF FinalizeContext

LEMMA CheckStateAdvances ==
  ASSUME IInv, CheckState
  PROVE  Advances
<1>1. client = "check" /\ ctx' = ctx /\ kms' = kms /\ client' = "ended"
  BY DEF CheckState, EndWith, Goto
<1> QED
  BY <1>1, EndingAdvances

LEMMA StepAdvances == IInv /\ [Next]_vars => [mc' = mc => Advances]_vars
<1> SUFFICES ASSUME IInv, Next, mc' = mc PROVE Advances \/ UNCHANGED vars
  OBVIOUS
<1>1. ~ (Collect \/ Finalize)
  BY DEF Collect, Finalize
<1> QED
  BY <1>1, ConstructAdvances, MakeContextAdvances, ReadStateAdvances, MongoAdvances,
     ProvideKMSProvidersAdvances, KMSStepAdvances, FinishKMSRequestsAdvances,
     FinalizeContextAdvances, CheckStateAdvances
  DEF Next, Application

\* No step of a session, whatever fails in it, leads back to where it has been, for any
\* number of requests, pieces and retries: of the claim that every session ends, this is
\* all but that the application keeps going.
THEOREM SessionsAdvance == Spec => SessionAdvances
  BY StepAdvances, SessionInvariant, PTL DEF Spec, SessionAdvances
=============================================================================
