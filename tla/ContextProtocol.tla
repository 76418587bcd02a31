--------------------------- MODULE ContextProtocol ---------------------------
(***************************************************************************)
(* What libmongocrypt asks of whoever drives a context of it, and what the *)
(* driver gets: the context asks for one thing after the other and never   *)
(* goes back; it leaves a round of KMS requests, for another state or for  *)
(* another round, only when every request has been handed out and answered *)
(* to its satisfaction, some of them after a retry; a context that broke   *)
(* stays broken, and only a finished one has a document.  Who drives it,   *)
(* through which layers, and what fails in them is not seen here.          *)
(***************************************************************************)
EXTENDS Integers

CONSTANT Requests   \* the KMS requests a context can have, over all rounds

VARIABLES ctx,      \* "none", what it asks for, "ready", "done" or "error"
          kms,      \* the state of each request
          result    \* "none", "document", or "empty" for what is no document

vars == <<ctx, kms, result>>

Asking == {"need_mongo", "need_kms_credentials", "need_keys", "need_kms"}
\* How far a context has come.
Age == [none |-> 0, need_mongo |-> 1, need_kms_credentials |-> 2, need_keys |-> 3,
        need_kms |-> 4, ready |-> 5, done |-> 6, error |-> 6]

Init == ctx = "none" /\ kms = [r \in Requests |-> "none"] /\ result = "none"

Settled == \A r \in Requests : kms[r] \in {"none", "done"}

\* Another round asks for something else than the rounds before it.
Unasked == {r \in Requests : kms[r] = "none"}
Further == Age[ctx'] > Age[ctx] \/ (ctx = "need_kms" /\ ctx' = "need_kms")
MoveOn == /\ ctx \in Asking \cup {"none"}
          /\ ctx = "need_kms" => Settled
          /\ ctx' \in Asking \cup {"ready"} /\ Further
          /\ IF ctx' = "need_kms"
             THEN \E some \in (SUBSET Unasked) \ {{}} :
                     kms' = [r \in Requests |-> IF r \in some THEN "waiting" ELSE kms[r]]
             ELSE kms' = kms
          /\ result' = result

\* Only a context that was made can break.
Break == /\ ctx \in Asking \cup {"ready"} /\ ctx' = "error"
         /\ result' = IF ctx = "ready" THEN "empty" ELSE result
         /\ kms' = kms

HandOut(r) == /\ ctx = "need_kms" /\ kms[r] = "waiting"
              /\ kms' = [kms EXCEPT ![r] = "out"] /\ UNCHANGED <<ctx, result>>

Answer(r) == /\ ctx = "need_kms" /\ kms[r] = "out"
             /\ \E s \in {"done", "rejected", "waiting"} : kms' = [kms EXCEPT ![r] = s]
             /\ UNCHANGED <<ctx, result>>

Finish == ctx = "ready" /\ ctx' = "done" /\ result' = "document" /\ kms' = kms

Next == MoveOn \/ Break \/ Finish \/ \E r \in Requests : HandOut(r) \/ Answer(r)

Spec == Init /\ [][Next]_vars

-----------------------------------------------------------------------------
\* There is a document exactly of a context that is done, and nothing is left open or
\* was refused on the way to it.
DocumentIsSettled == /\ result = "document" <=> ctx = "done"
                     /\ ctx \notin {"need_kms", "error"} => Settled
=============================================================================
