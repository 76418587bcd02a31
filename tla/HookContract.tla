---------------------------- MODULE HookContract ----------------------------
(***************************************************************************)
(* What libmongocrypt gets from a cryptographic primitive it does not      *)
(* implement itself.  It lends the hook a buffer of `room` bytes, and the  *)
(* hook may scribble in it while it runs.  The rule:                       *)
(*                                                                         *)
(*   Succeed  the first `answer` bytes are the result, all of it;          *)
(*   GiveUp   the hook returns false and has set the status, and does so   *)
(*            only where there is no result, no room for it, or something  *)
(*            broke.                                                       *)
(*                                                                         *)
(* The hooks of this package keep to the rule but for three exceptions,    *)
(* each an action of its own that says of which hook and when: CutShort,   *)
(* Escape and Vanish.  Callbacks that an application supplies are held to  *)
(* nothing (Foreign).                                                      *)
(*                                                                         *)
(* Byte i of the result is abstracted to the number i, so a byte that is   *)
(* missing, foreign or in the wrong place is a cell whose content is not   *)
(* its index.                                                              *)
(***************************************************************************)
EXTENDS Integers

CONSTANT NoResult      \* the call has no result (bad key, input not whole blocks)

VARIABLES made,        \* whose hook: "native_openssl" and "js" are this package's,
                       \* "application" is not
          gone,        \* what a JavaScript hook finds its callback through is gone
          room,        \* length of the buffer lent
          fit,         \* key and IV are of the right length and form
          answer,      \* length of the result that is due, or NoResult
          out,         \* the buffer
          reported,    \* the length the hook reports (ciphers; else answer)
          status,      \* "none", or "set" with what went wrong
          broken,      \* a step of the crypto library failed in this call
          end          \* "none", "running", "true", "false", "thrown", or
                       \* "aborted", "overrun" with the process

vars == <<made, gone, room, fit, answer, out, reported, status, broken, end>>
task == <<made, gone, room, fit, answer>>

Ours == made # "application"

Init == /\ made \in {"native_openssl", "js", "application"} /\ gone = FALSE
        /\ room = 0 /\ fit = TRUE /\ answer = 0 /\ reported = 0
        /\ out = [i \in 1..0 |-> 0]
        /\ status = "none" /\ broken = FALSE /\ end = "none"

Call == /\ end \notin {"running", "aborted", "overrun"}
        /\ end' = "running" /\ status' = "none" /\ broken' = FALSE
        /\ room' \in Nat
        /\ fit' \in BOOLEAN
        /\ answer' \in Nat \cup {NoResult}
        /\ ~fit' => answer' = NoResult
        /\ DOMAIN out' = 1..room'
        /\ UNCHANGED <<made, gone>>

\* The object behind the callbacks may go at any time, and is gone for good.
Lose == /\ made # "native_openssl" /\ ~gone /\ gone' = TRUE
        /\ UNCHANGED <<made, room, fit, answer, out, reported, status, broken, end>>

Scribble == /\ end = "running"
            /\ DOMAIN out' = 1..room
            /\ UNCHANGED <<task, status, broken, end>>

\* The hook returns or is left; the buffer is as long as it was.
Ends(how) == /\ end = "running" /\ end' = how
             /\ DOMAIN out' = 1..room
             /\ UNCHANGED task

HasAnswer == answer # NoResult
TooLong == HasAnswer /\ answer > room
Holds(n) == \A i \in 1..n : out'[i] = i

Succeed == /\ Ours /\ Ends("true")
           /\ HasAnswer /\ ~TooLong
           /\ reported' = answer /\ Holds(answer)
           /\ UNCHANGED <<status, broken>>

GiveUp == /\ Ours /\ Ends("false") /\ status' = "set"
          /\ ~HasAnswer \/ TooLong \/ broken' \/ gone

\* Exception: a JavaScript hook takes for a success that a signature does not fit,
\* and its first bytes are all there is.
CutShort == /\ made = "js" /\ Ends("true")
            /\ TooLong /\ Holds(room)
            /\ UNCHANGED <<status, broken>>

\* Exception: a native hook throws at a key or IV of the wrong length, and may throw
\* or take the process down where the crypto library fails.
Escape == /\ made = "native_openssl"
          /\ \/ Ends("thrown") /\ (~fit \/ broken')
             \/ Ends("aborted") /\ broken'
          /\ UNCHANGED status

\* Exception: a JavaScript hook whose object is gone may throw.
Vanish == made = "js" /\ gone /\ Ends("thrown") /\ UNCHANGED <<status, broken>>

Foreign == ~Ours /\ \E how \in {"true", "false", "thrown", "overrun"} : Ends(how)

Next == \/ Call \/ Lose \/ Scribble
        \/ Succeed \/ GiveUp
        \/ CutShort \/ Escape \/ Vanish
        \/ Foreign

Spec == Init /\ [][Next]_vars
=============================================================================
