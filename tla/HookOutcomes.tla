---------------------------- MODULE HookOutcomes ----------------------------
(***************************************************************************)
(* How a crypto hook that fails ends the call libmongocrypt made it in,    *)
(* and why it failed: what whoever builds on the hooks has to reckon with. *)
(* CryptoHooks shows that nothing else happens in them, and a session      *)
(* (EncryptionSession) fails in these ways.                                *)
(***************************************************************************)

\* `hooks` is the id of the installed hooks, `callbacks` whose JavaScript callbacks
\* they call, `object` the stage of the MongoCrypt when the hook was called.
\*   "false"    libmongocrypt fails with the hook's status
\*   "thrown"   a Napi::Error passes libmongocrypt and leaves the method
\*   "aborted"  the process ends: any other exception, which nobody catches, or the
\*              assertion of CopyBufferData
HookFailuresOf(hooks, callbacks, object) ==
    CASE hooks = "native_openssl" -> [how : {"false", "aborted"}, why : {"crypto"}]
      [] hooks = "js" /\ object = "collected" -> [how : {"thrown"}, why : {"gone"}]
      [] hooks = "js" /\ object = "finalized" -> [how : {"false"}, why : {"gone"}]
      [] hooks = "js" /\ object = "live"      ->
            IF callbacks = "package"
            THEN [how : {"false"}, why : {"crypto"}]
            ELSE [how : {"false"}, why : {"callback", "unexplained"}]
                   \cup [how : {"thrown", "aborted"}, why : {"callback"}]
=============================================================================
