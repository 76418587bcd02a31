--------------------------- MODULE NativeHandles ---------------------------
(***************************************************************************)
(* What libmongocrypt asks of whoever holds its handles, and so what the   *)
(* wrapper classes of the addon promise together: a mongocrypt_ctx_t is    *)
(* made from an open mongocrypt_t, no handle is used before it is open or  *)
(* after it is destroyed, and a mongocrypt_t is destroyed when no context  *)
(* made from it is open any more.  Nothing is said of wrappers, owners or  *)
(* garbage collection: that is ObjectLifetimes, which implements this.     *)
(***************************************************************************)
CONSTANTS Crypts, Contexts, None

VARIABLES
    crypt,   \* the mongocrypt_t's
    ctx,     \* the mongocrypt_ctx_t's
    of,      \* the mongocrypt_t a mongocrypt_ctx_t was made from
    inUse    \* handles that calls under way were given

handles == <<crypt, ctx, of>>
vars    == <<crypt, ctx, of, inUse>>

OpenContexts(m) == {c \in Contexts : ctx[c] = "open" /\ of[c] = m}

Usable ==
    {m \in Crypts : crypt[m] = "open"} \cup
    {c \in Contexts : ctx[c] = "open" /\ of[c] \in Crypts /\ crypt[of[c]] = "open"}

Init ==
    /\ crypt = [m \in Crypts |-> "none"]
    /\ ctx   = [c \in Contexts |-> "none"]
    /\ of    = [c \in Contexts |-> None]
    /\ inUse = {}

\* mongocrypt_new, and the calls that configure the new handle.
NewCrypt(m) ==
    /\ crypt[m] = "none"
    /\ crypt' = [crypt EXCEPT ![m] = "open"]
    /\ inUse' = inUse \cup {m}
    /\ UNCHANGED <<ctx, of>>

\* mongocrypt_ctx_new, and the calls that initialise the new context.
NewContext(m, c) ==
    /\ crypt[m] = "open"
    /\ ctx[c] = "none"
    /\ ctx'   = [ctx EXCEPT ![c] = "open"]
    /\ of'    = [of EXCEPT ![c] = m]
    /\ inUse' = inUse \cup {m, c}
    /\ UNCHANGED crypt

\* Calls start, nest and return, on handles that may be used.
UseHandles ==
    /\ inUse' \subseteq Usable
    /\ UNCHANGED handles

\* mongocrypt_ctx_destroy: the call that held the context may end with it.
DestroyContext(c) ==
    /\ ctx[c] = "open"
    /\ crypt[of[c]] = "open"
    /\ ctx'   = [ctx EXCEPT ![c] = "destroyed"]
    /\ inUse' \subseteq inUse \ {c}
    /\ UNCHANGED <<crypt, of>>

\* mongocrypt_destroy
DestroyCrypt(m) ==
    /\ crypt[m] = "open"
    /\ m \notin inUse
    /\ OpenContexts(m) = {}
    /\ crypt' = [crypt EXCEPT ![m] = "destroyed"]
    /\ UNCHANGED <<ctx, of, inUse>>

Next ==
    \/ \E m \in Crypts : NewCrypt(m) \/ DestroyCrypt(m)
    \/ \E m \in Crypts, c \in Contexts : NewContext(m, c)
    \/ \E c \in Contexts : DestroyContext(c)
    \/ UseHandles

Spec == Init /\ [][Next]_vars
=============================================================================
